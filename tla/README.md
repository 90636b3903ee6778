# umx in TLA+

umx is a dynamic compiler for the Universal Machine (UM). It translates the
platters of *array 0* into i386 code block by block, while the program that is
running may rewrite that array, replace it, or jump anywhere into it. It is one
process with one thread: what is hard about it is not interleaving but that code,
tables, bitmaps and links made at one time must still be right when they are used
at another, after any sequence of writes, jumps and reloads.

This directory holds TLA+ models of its control core, of its storage allocator, of
its register allocator with the code generator on top, and of the process around
them (memory, code segments, stack, instructions); the TLC configurations that
check them; and proofs. Every run is
started as `tlc -config <run>.cfg <module>.tla`, every proof as
`tlapm <module>.tla`.

## Inventory

| Component | Source | State | Operations |
|---|---|---|---|
| Block cache | `crt.c`, `crt.h` | hash table of blocks, bitmaps `prognowr` and `prognoex` | `getblk`, `getblkx`, `useblk`, `delblk`, `depblk`, `um_postwrite`, `um_enter`, `um_enterdep`, `um_loadfar`, `um_destroy_and_go`, `um_crti`, `um_crtf` |
| Code segments | `crt.c`, `i386/co.c` | two chains of 1 MB segments, `g.inl` and `g.outl` | `newcod`, `getcod`, `nukecod`, `umc_codlink` |
| Block compiler | `umc.c`, `co.h` | `g`: time, constants, zero/nonzero facts | `umc_mkblk` and the fold of each instruction |
| Code generator | `i386/co.c` | emitted code, some of which patches itself | one `co_` function per instruction; stubs |
| Register allocator | `ra.c`, `ra.h` | which UM register is in which machine register, what is dirty | `ra_mget`, `ra_mgetv`, `ra_mgetvd`, `ra_mchange`, `ra_ldvm`, `ra_vflush`, ... |
| Encoder | `i386/emit.h` | none | one function per i386 instruction |
| Storage allocator | `salloc.c`, `salloc.h` | window `mbot..mtop`, lists `nextready` and `lastfree`, `totalmem` | `salloc`, `sfree`, `salloc_reload`, `prime_lastfree`, `list_cycle`, `salloc_special`; inlined in `co_alloc`, `co_free` |
| Runtime | `rt.c`, `main.c` | `progdata`, `proglen`, what is mapped | `um_ipl`, `um_progalloc`, `um_newprog`, `um_alloc`, `um_free`, `um_halt`, `um_abend` |
| Messages, version, build | `util.c`, `vers.c`, `Makefile` | none | formatting |

How they interact. `main` loads the program, makes an empty cache, and compiles
at 0. Compiled code runs until it calls the runtime: `um_postwrite` after an
amendment of array 0, `um_enter` for a computed jump, `um_enterdep` from the stub
of a jump to a constant place (which then overwrites itself with a direct jump),
`um_loadfar` for a jump into another array, `um_destroy_and_go` from a platter
that was execute-protected when it was compiled. Each returns the address to
continue at, or zero to go on where it was called. Through `umc_enter` each of
them may compile more code; `um_postwrite` may free the block it was called from,
or all of them.

What must be right, component by component:

- *Block cache*: code that can be entered is the translation of what array 0
  holds; a platter is write-protected exactly if a block of the table covers it;
  code that is jumped to directly cannot be removed alone; control never returns to
  code that is gone; shootdown ends.
- *Block compiler*: a block ends within what `getblk` scans; a store whose watch
  was left out cannot reach code; control enters the first of a chain of blocks.
- *Storage allocator*: no word is in two places, none is lost, free regions can
  always be linked, the head of `lastfree` is always there for `sfree`, requests
  are met.
- *Register allocator*: each register's current value is where the tables say,
  and at each exit of a block all are in memory, on every path.
- *Code segments*: nothing is written past the end of a segment, control flows from
  one to the next, none is used twice or lost.
- *Code generator, as far as it is about the machine*: each call finds its parameters
  and a stack as it should be, whatever calls came before, and returns to code that
  still exists.
- *Encoder*: every form of an instruction does the same and lands at the same place.
- *Runtime*: array 0 is whole, inside what is mapped for it and covered by the bitmaps.

PROJECT.json lists the hazards at their lines with the properties aimed at them.

## Modules

| Module | Models | Extends / instances |
|---|---|---|
| `UMControl` | what umx promises about control: the UM itself, reduced to the kind of each platter | |
| `CodeCache` | block cache, the block-forming loop of `umc_mkblk`, the jump stubs | instances `UMControl` |
| `MCCodeCache` | program images for TLC | extends `CodeCache` |
| `SetInduction` | lemmas of induction on the naturals, least elements and recursive sequences | |
| `CodeCacheProofs` | types and shape of `CodeCache`: the first inductive invariant | extends `CodeCache`, `SetInduction` |
| `CodeCacheSafety` | code and array 0 stay together: protection, links, coherence; `CodeCache` implements `UMControl` | extends `CodeCacheProofs` |
| `Regions` | regions of words | |
| `Heap` | what an allocator promises | extends `Regions` |
| `Salloc` | the storage allocator, and its inlined fast paths | extends `Regions`, instances `Heap` |
| `MCSalloc` | lengths and places of slabs for TLC | extends `Salloc` |
| `SallocProofs` | inductive invariants and theorems of `Salloc` | extends `Salloc`, `SetInduction` |
| `FreeList` | `list_cycle` and its in-place merge sort, link by link | extends `Regions` |
| `Words` | the unsigned arithmetic of platters | |
| `WordsProofs` | powers of two, bits, remainders and quotients, for words of any width | extends `Words`, `SetInduction` |
| `UMachine` | what umx promises about registers: the UM itself | extends `Words` |
| `RegAlloc` | the register allocator, and what the compiler knows of registers | extends `Words` |
| `Codegen` | what each platter is compiled to, run as it is compiled | extends `RegAlloc`, instances `UMachine` |
| `MCCodegen` | mregs and kinds of platter for TLC | extends `Codegen` |
| `CodegenProofs` | inductive invariants and theorems of `Codegen`, and that it implements `UMachine` | extends `Codegen`, `WordsProofs` |
| `CodeSeg` | the two chains of code segments, and what the compiler puts there | |
| `CodeSegProofs` | inductive invariant and theorems of `CodeSeg` | extends `CodeSeg` |
| `Runtime` | mappings and bitmaps of array 0, and how it is put together | extends `Words` |
| `Emit` | forms, lengths and effects of instructions | extends `Words` |
| `Stubs` | the code around each call of C, run on a processor with a stack | extends `Emit` |
| `Process` | the process, from `main` to its end: all the four together | extends `CodeSeg`, `Runtime`, `Stubs` |
| `ProcessProofs` | `Process` implements `CodeSeg`; inductive invariants of array 0, of the bitmaps and of the calls; the encoder is right | extends `Process`, `CodeSegProofs`, `WordsProofs` |
| `MCProcess` | addresses, lengths and files for TLC | extends `Process` |

`CodeCache` and `Codegen` look at the same compiler from two sides. The first keeps
blocks, links and protection and leaves what is in registers open; the second
keeps registers and leaves programs, blocks and arrays open. What they have in
common is the fact set passed between blocks: `Codegen` checks that it is true
(`HandsOver`), which `CodeCache` has no need to know.

### CodeCache

A platter is a member of seven classes (see the head of the module) and the array
has a few of them; registers are left out, and what the compiler knows of one (a
constant, zero, nonzero) is an arbitrary choice at each platter it compiles. So
the model allows every sequence of compilations that some register contents
would cause, and some that none would.

`mode` says who has control. In `"compile"`, each action is one turn of the loop in
`umc_mkblk`, `g` is the compiler's state, and `Finish` is the end of the outermost
call, which patches the stub that asked (`g.caller`). In `"run"`, each action is
the code of one platter, `cur` the place; the exits call the runtime. In `"shoot"`,
each action is one turn of the loop of `um_postwrite`, whose last step is its
return. `"aborted"` is a failed assertion at crt.c:161, `"stopped"` the end.

`code` keeps every block compiled since the world was made, those that have left the
table too: their memory is reclaimed only with the world, and stale links lead
there. A block records the platters it was compiled from (`src`), which is how
`Coherent` and `TableFresh` compare it with `prog`.

Decisions worth knowing:

- The hash chains are one list per beginning address. `getblkx` moves what it
  finds to the front of its chain; only the order of blocks with one beginning
  can be seen, so that is what is kept. (`getblk` calls `getblkx` with all facts
  given, which finds the first and moves nothing.)
- `znz_t` is a set of facts; `znblk` is inclusion.
- `depblk` on a block still being compiled sets its mark when the recursion
  unwinds; here it is set when the block is entered in the table. Nothing runs in
  between.
- An array known to be 0 or known not to be is modelled; an amendment of an array
  not known either way calls `um_postwrite` from code out of line, which is in
  `Codegen`.
- Indices and jumps are within the program, or just at its end, where
  `co_badness` waits.
- Looking ahead stops at the end of the program. The code reads what lies beyond; that
  is the rest of a page, zeros, which begin neither idiom, unless the program
  fills its pages.
- `LinksAreDeps` is about links that fall through (`depblk` at umc.c:295) in `Plain`, which has no constant
  jumps. Those of the stubs are in `StaleLink` and in `LinksMarked` below.

### Salloc, Regions, FreeList, Heap

Memory is counted in words. `calls` is the stack of calls of `salloc` in progress:
`salloc` calls `salloc_reload`, which may call `prime_lastfree`, which calls
`salloc`. `Take` is the loop body that succeeds, the three `Reload` actions the one
that does not, by where the next window comes from. `lastfree` is a sequence;
`nextready` is a set, because it is always the tail of a sorted list or one slab
(`list_cycle` and `get_more_ram` are the only writers and both find it empty).
`FreeList` runs the actual merge sort on links in memory and compares its result
with `Runs`, the maximal runs of free words, by which `Salloc` describes it.

The inlined allocation differs from the called one in what it subtracts from
`mtop`: `InlineTake` doubles it where `e_subri` does. `malloc` is external: it
gives whole slabs anywhere, never next to one another (its own header lies
between), or fails.

### RegAlloc, Codegen, UMachine

The compiler's tables say where each register (*vreg*) of the UM will be when the
code being emitted runs. To say that they are right, tables and processor have to
be seen together, so the model runs each platter as it compiles it. A state `w` of
`RegAlloc` has both, every function of `ra.c` takes one to the next, and a load or
store that is emitted happens at once, *if control is there*: `c` is the section
that is emitted to (`g.c`), `at` the place of control. Behind a conditional jump
`at` differs from `c`, and what is emitted there is passed over while the tables
go on changing. This is how the two paths through one platter come to disagree
with the one set of tables.

Each `Compile` action is one case of the switch in `umc_mkblk`, with the choices
the code makes by what it knows (constant, zero, nonzero), on any vregs, so that
blocks are any sequence of platters of the kinds a run lists. `jit.io` is what the
platter did outside the registers (an access to an array, a call, a jump). When
control leaves, `jit.facts` is the fact set that goes with it, and `Enter` starts
another block that relies on no more than that. `UMachine` is the specification it
all refines: a register holds `Current(v)`, wherever that is.

Decisions worth knowing:

- Contents of arrays, input and identifiers of new arrays are arbitrary; which
  array was accessed where, and what was stored, is checked.
- A block begins at time 0. The code begins at the address of its first platter,
  with `mlru` zero, so only how much a vreg of an earlier platter is disliked differs
  before its first use, when it is in no mreg anyway.
- Registers of the processor that a C function may destroy hold an arbitrary word
  after a call. ECX is left out with the other mregs that `ThreeRegs` leaves out.
- `e_movri`, `e_addri`, `e_mulri` and `e_shrri`, which choose between encodings, are
  given by what they compute.
- Programs that divide by zero or abandon array 0 have failed by the UM's rules;
  the model does not go on with them.
- Whether an array 0 store is reported for sure depends on bitmaps that `Codegen`
  does not have: it allows both, and takes a store left unreported to be one the
  bitmaps watch (`BareStoresSafe` of `CodeCache` is about that).

### CodeSeg, Runtime, Emit, Stubs, Process

`CodeSeg` forgets what code says and keeps where it is. `umc_mkblk` asks `getcod` for
1024 bytes before each platter, but not before what it emits when a block ends (flushed
registers, `co_badness` or `co_fltnoex`), nor before the first bytes of the block that
follows, and `getcod` itself writes a jump over what is left. `mode` records how much
of that may be still to come. Lengths are arbitrary members of given sets. `flow` is
the place control comes from and the place the code emitted last begins at: either the
same, or joined by the link of a segment that was left.

`Runtime` counts bytes, modulo the word as `size_t` does. `um_pdatmlen` is never assigned,
so `um_newprog` unmaps nothing, and `um_ipl` computes the size of what it unmaps from the
whole platters of a file: `lost` is what stays mapped. Files are mapped one by one
and copied one by one, so that an `mmap` may fail in between.

The code segments may lie anywhere, on either side of the stack, but not at 0 nor at
the very end of the address space, where `mmap` places nothing. The real sizes (words of
32 bits, segments of 2^20 bytes, 1024 asked of `getcod`, any aligned place of the stack) satisfy every
assumption about constants; the sizes of the configuration are only smaller.

`Emit` has each function of emit.h that chooses a form. An instruction is its
operation, its operand as the processor reads it back (a sign-extended byte, or a
word), and its length; `Exec` is what the processor does. `e_subri` and `e_addri` call each
other in the code, but never twice, so neither is recursive here. `AllocBytes` and its
neighbours give the length of an inlined allocation, which clears up to 33 words one
by one, `Instructions` the number of instructions of every other case of the switch of
`umc_mkblk`, and `FlushLen`, `BadLen` and `NoexLen` what may follow a platter.

`Stubs` has the code around each of the ten calls of C as a sequence of
instructions, and a processor with a stack to run them. What is passed is arbitrary
but told apart by name. C functions may change the words they were passed and
EAX, ECX and EDX; those that get `rtnp` may overwrite the return address there.

`Process` composes them. Each action of `CodeSeg` is taken by one of `Process`: by `Compile`
while `umc_mkblk` is at it, or by a function that compiled code has called (`Make`,
`Destroy`, `FarLoad`), and `Return` brings control back through the stack. `call` is the call
last made. In between, compiled code may call any stub from any place where such a call
can have been emitted (`Returns`), in a block found (`Found`) or made.

Decisions worth knowing:

- The longest code that is not followed by a question to `getcod` is what counts, so a
  platter has one length in either chain and its out-of-line code is there only if
  there is some in line.
- A block that begins with `co_badness` or `co_fltnoex` does nothing else (`"doomed"`); where
  such code was emitted at the end of a longer block, the rest runs as well.
- `nukecod` of a chain that has grown frees `g.inl` or `g.outl`, which were never
  allocated, and looks at the same segment again: `DestroyLong` ends in `"aborted"` or
  `"spinning"`, and there is no property that says otherwise. `SegmentsHeld` so says
  that the destruction of chains of one segment loses none. FUTURE:6 ("Memory is leaked
  when destroying the world") is about longer chains, which the code does not survive, and about
  blocks, whose `malloc`ed memory is not modelled.
- The order of the bytes of a platter (`ntohl`) and of an instruction is left out.
- In `Process` the program's arrays other than 0 are as long as `ArrayLens` says;
  `malloc` never fails (`um_crti` would not notice).

## Runs

| Run | Checks | Bounds |
|---|---|---|
| `Plain` | `TypeOK`, `NoDangling`, `Coherent`, `LinksAreDeps`, `ImplementsUM` | computed jumps only, programs of up to 3 platters, 3 blocks to a world |
| `Link` | `NeverAborts`, `WriteProtectExact`, `NoHiddenBlock`, `BareStoresSafe`, `TableFresh`, `AlwaysResumes` | with constant jumps, under `FairSpec` |
| `StaleLink` | `Coherent` is violated | a loop that amends itself |
| `Heap` | `TypeOK`, `NoOverlap`, `HoldsLinks`, `Primed`, `ImplementsHeap`, `NoLeak`, `AllocReturns` | slabs of 5 words, four of them, `GrowDiv` 2, two arrays in use, no doubled subtraction, under `FairSpec` |
| `InlineStall` | `AllocReturns` is violated | slabs of 12 words, one length, the doubled subtraction included |
| `FreeList` | `CycleSorts` | every list of free regions in ten words of memory, in every order |
| `Inside` | `Coherent`, `HandsOver`, `ImplementsUM` | add, div, orthography, moves and loads; 3 vregs, 3 mregs, blocks of 3 platters, words of 1 bit |
| `Outside` | `StaysInline`, `HandsOver`, `ImplementsUM` | arrays, console, allocation, halt, load, mul, nand; blocks of 2 platters |
| `Spill` | `ImplementsUM` | moves and console; 4 vregs, blocks of 3 platters |
| `Tables` | `TypeOK`, `OneToOne`, `AssertsHold` | the platters hardest on the allocator; 3 vregs, blocks of 2 platters |
| `OutOfLine` | `Coherent` is violated | an index of an array not known to be 0 or not |
| `Process` | `FrameKept`, `CallsAsDeclared`, `GoesWhereTold`, `PatchRight`, `NeverOverruns`, `FlowsOn`, `SegmentsHeld`, `ArrayZeroWhole`, `BitmapsCover`, `EncodesRight`, `RoomAhead` | words of 11 bits, segments of 30 bytes at two places below the stack and one above it, all code 0 or 5 bytes long, files of 6, 17 and 1032 bytes, pages of 16 bytes, 48 bytes to map |

Why the bounds are enough. `MaxBlk` (256 in the code) is at most the program's
length, so that blocks end by the limit, fall through, and lie at the edge of
`getblk`'s scan. Three blocks to a world are the caller, the block it links to and
one that overlaps it. `MaxCode` is tested only where running code would have to
compile, so it cuts behaviours there and nowhere else. In `Salloc` the lengths are
the boundaries of the code: the least array, one that fills a slab and so needs a
window larger than any slab, and one that goes to `salloc_special`. `GrowDiv` is 2
rather than 8, and four slabs there may be, so that requests to `malloc` grow in
several steps (one slab, another, then two together) before the window is large
enough for the array that fills a slab.

In `Codegen` three mregs are as few as the code can do with (a freeing needs three
at once, a division two of them by name), so that every platter is short of them;
`AssertsHold` says they suffice. With three vregs none need ever be ejected for
lack of room except where a platter takes mregs of its own; `Spill` has four. Three
platters to a block are enough for two constants to be made and met by the branch
idiom, and for a deferred store to wait out another platter. Words of one bit tell
zero from nonzero and each value from its complement, which is all that moving
them about can confuse, but are too narrow for a divisor that is no power of two: that
the test of umc.c:218 picks the powers of two and that the shift by `ctz` divides by them
is checked by `EncodesRight` for every word of 11 bits, and that compiled divisions
are right is proved for every width. Vregs are interchangeable, so `SYMMETRY` is sound; `VIEW` leaves
out only the name of the last platter, on which no step depends. `StaysInline` in
`Outside` covers code out of line that leaves (the guard of a load); the kind that comes
back, an access to an array not known either way, is `OutOfLine`. `MaxInline` is 0, so that a length is allocated inline or by call.

In `Process` a segment has room for an entry and five jumps, so that one fills after
a single block and a chain can grow once, as far as three places for two chains
allow; a second growth fails as `mmap` does. The files are one with a part of a platter
left over, one with a part of a page, and one so long that the bytes of two of them
wrap to 16. `EncodesRight` looks at every immediate and every distance of 11 bits, on
both sides of the boundaries of a byte; for words of 32 bits it is proved. Of `e_subri` it
asks only for the immediates the code subtracts, 29 platters excepted: for 1, -1 and 128
`e_subri` emits a second subtraction (emit.h:165), and the 128 that an allocation of 29
platters needs is in `InlineStall`. `RoomAhead` is about the real lengths: the bytes of an
allocation inline, and for every other case of the switch the number of its instructions, times
the longest there is. It is the assumption
of `CodeSeg` that the rest only relies on. These last two are evaluated once, before the
process starts.

Deadlock is not checked: a UM program stops, and the bounds stop it too.

Fairness. There is one thread and nothing it waits for, so whatever can happen next
does: `CodeCache` has weak fairness on `Next`, and `Salloc` on the steps inside a call
of `salloc`, but none on the program's requests.

### What the violations show

- *StaleLink*. `um_enterdep` marks a block it finds as depended on, but not one it
  has to compile; the stub links to it all the same. When a write removes the block
  alone, the link still leads to code made from the old platters.
- *OutOfLine*. An access to an array not known to be 0 or not is compiled inline for
  the one case and then out of line for the other, with the tables the inline code
  leaves. Control that went out of line skipped the loads, and the stores of what
  they ejected: an index is read from an mreg that holds something else.
- *InlineStall*. For arrays of 29 platters the inlined code takes 64 words from
  the window and asks `salloc_reload` for 32. Half the memory is lost, and when all
  free regions are of 32 to 63 words the two call each other for ever.

Four more come from the same configurations with a constant changed:

- The two idioms take in the next platter without testing `prognoex`. If an
  amendment compiled bare has execute-protected it, a later write to it goes
  unnoticed and the old instruction runs: `StaleLink.cfg` with `MaxLen = 4` and
  `Images <- NandImages` or `BranchImages` violates `Coherent`.
- For the same reason two blocks of one beginning can differ in length; `getblk`
  sees the shorter, and the loop of `um_postwrite` ends with its target protected:
  the assertion of crt.c:161 fails (the same, with `NeverAborts`).
- The call of `um_postwrite` that `co_postwrite` compiles out of line is not followed
  by a jump back. When it returns, control runs into whatever was emitted out of
  line next: `OutOfLine.cfg` with `Platters <- AmendAny` violates `StaysInline`.
- Freeing inline computes in the mreg of the register it frees, and the tables go
  on saying that the mreg holds the register: `OutOfLine.cfg` with `Platters <- Freeing`
  violates `Coherent`.

Others were met while modelling, and are stated here because no run is spent on them:

- `co_halt` drops 12 bytes where `co_enter` reserved 28, so EDI, ESI and EBX are restored
  from the wrong words (co.c:239). ESP and EBP come back by way of `leave`, and `main`
  calls `um_halt` at once, so nothing is seen of it. `FrameKept` says what does hold.
- `nukecod` walks the list of segments from the wrong variable (crt.c:267).
- `um_pdatmlen` is never assigned (rt.c:117), and the part of a platter at the end of a
  file can leave a page mapped (rt.c:172).

The passing runs leave these out: of `CodeCache` by their images (`Plain` has no
constant jumps; it has the complement idiom, and `Link` that of the branch, only in
programs that do not write to themselves), of `Salloc` by `SubTwice = 0`, of
`Codegen` by the kinds of platter (accesses to arrays not known either way, and
freeing, are in `Tables` only, which asks of the tables and not of the values).
They show what the rest of the design gives.

## Proofs

`CodeCacheProofs` proves, for all sets of programs, all `MaxLen`, `MaxBlk`, `Facts`
and `MaxCode` that satisfy `CodeCacheAssumption`:

- `TypeCorrect`: `Spec => []TypeOK`, with the shape of blocks that running them
  relies on: one operation for each platter before the exit.
- `NeverDangling`: `Spec => []NoDangling`. Running code is in a block of the current
  world, between its beginning and its exit.

`NoDangling` is not inductive: it says nothing of `"shoot"`, from which control
returns, nor of links. The inductive invariant `IInv` adds

- `GoodCode`: every link leads to code there is, except that of a block that falls
  through to the one now being compiled;
- `Tables`: every list of the table holds blocks of its own beginning, so that
  the block `getblk` finds is the head of the list `delblk` removes it from;
- `CompileInv`: the block being compiled has dealt with exactly the platters from
  its beginning to `g.time`, and the stub to patch exists;
- `ShootInv`: the code that called `um_postwrite` is still there, *or* the world has
  been destroyed and nothing at all is write-protected. In the second case the test
  of crt.c:163 sends control to the compiler and not back. This is the argument that
  makes the return from `um_postwrite` safe.

Each action has a lemma, resting on lemmas about the operators (`PatchGood`,
`AppendGood`, `UseblkType`, ...). Least elements come from `SetInduction`, which proves
induction for a set of naturals from facts about finite sets.

`CodeCacheSafety` proves that code and array 0 are kept together, for all the same
constants. It cannot be proved outright, for the code has two flaws (`StaleLink` and
the violations listed with it). What is proved is that there are no others: each theorem
supposes of a behaviour no more than that it does not run into them.

- `LookaheadSafe`: when an idiom takes in the platter it has looked ahead at, that
  platter is not execute-protected, and the block does not store to itself. umc.c:156 and
  umc.c:235 leave out the test of umc.c:105, so this is not so of every program.
- `LinkedStay`: no block is shot down alone while a link leads to it. `um_enterdep` leaves
  out the mark where it has to compile, so neither is this. `StubsFind`, that it never has
  to, is the stronger condition under which links are marked.

TLC finds `LookaheadSafe`, `LinkedStay` and `StubsFind` true of every state of the
configuration `Plain`, and `LookaheadSafe` of `Link` (a module that extends `MCCodeCache`
and `CodeCacheSafety` can be run with either). For whole classes of programs they are
theorems: `UnfusedSafe` (no nand, no unresolved conditional move) and `UnlinkedSafe` (computed
jumps only). So nothing is supposed in `ComputedJumpsCoherent` and
`ComputedJumpsImplement`, which are about programs that rewrite themselves in every other
way, all of the code cache but the patching of stubs included.

| Theorem | Supposes | Concludes |
|---|---|---|
| `CacheInvariance` | `LookaheadSafe` | `SInv` |
| `AssertionHolds`, `ProtectionExact`, `NoneIsHidden`, `StoresAreSafe`, `TableIsFresh` | `LookaheadSafe` | `NeverAborts`, `WriteProtectExact`, `NoHiddenBlock`, `BareStoresSafe`, `TableFresh` |
| `MarksInvariance`, `LinksMarked` | `StubsFind` | `DepInv`, `LinksAreDeps` |
| `LinksInvariance` | `LinkedStay` | `LinkInv` |
| `CodeIsCoherent` | `LookaheadSafe`, `LinkedStay` | `RestOK`, `Coherent` |
| `CompilesRight` | nothing | `SrcInv` |
| `ImplementsTheUM` | `LookaheadSafe`, `LinkedStay` | `ImplementsUM` |
| `ComputedJumpsCoherent`, `ComputedJumpsImplement` | no idioms, computed jumps | `Coherent`, `ImplementsUM` |

The argument for `SInv`. Why does `getblk`, which looks at one block of each beginning only,
find a block wherever one covers the platter? Because blocks of one beginning end at one
place (`SameEnd`). A block ends for one of four reasons (`EndsRight`): the limit, an
instruction that leaves it, the end of the program, an execute-protected platter. Each is a
reason for the other block, compiled earlier or later from the same platters, to go no further. That the
platters were the same is `Agree`: both blocks are in the table, so neither has been overwritten. That
`prognoex` has not grown over a block is `Disjoint`: no platter is protected both ways, which
is where `CompileAmend` and `LookaheadSafe` come in. Then shooting a block down
uncovers exactly what it alone covered (`Exact`), and when `getblk` finds nothing more, nothing is
protected (`NoneHidden`): the assertion. In between, during the shootdown, code of the
table may be stale in one platter, the target, and in no other (`Fresh`).

`Coherent` needs more, since control may be in a block that is no longer in the table:
`um_postwrite` returns to its caller whenever the platter of the amendment is still
covered, by whatever block. `RestOK` says that what is left to run of such a block is protected and as
array 0 has it. What makes it survive a shootdown (`RestShootDone`) is that a block which
covers the amendment reaches as far as the caller does, or else ends at its limit, and then
falls through into a block of the table that does; for `MaxBlk` bounds the caller too
(`SourceCovered`). `LinkInv` has the links.

The refinement of `UMControl` is at the end of `CodeCacheSafety`. `SrcInv`, for which nothing need be supposed, says
that each operation of a block and its exit are those of the class of the platter it was
compiled from. With `RestOK` this makes the operation about to run that of the platter the UM is about to
execute (`RunningSource`, `ExitingSource`); then each action of `Run` is one of `UMControl`'s, but
that falling through, and coming to an execute-protected platter, are stutters,
as are all of `Compile` and `Shoot`.

`CodeSegProofs` proves, for all lengths and places that `CodeSegAssumption` allows:

- `RoomForAll`: `SegSpec => []NeverOverruns`;
- `FlowContinues`: `SegSpec => []FlowsOn`;
- `SegmentsAreHeld`: `SegSpec => []SegmentsHeld`.

`NeverOverruns` is not inductive: that a segment is not overrun now says nothing of
the code that may follow without another question to `getcod`. `EnoughRoom` says that
what is left of the segment in line is at least `Need`, which goes by `mode`: in the middle
of a block, the flush, the ends of this block and the next, and the link; after a
fall-through, the same without the flush; between blocks, one end and the link. Each
action then takes from `Need` what it emits. The assumption that starts this off, that
1024 bytes are enough for the longest platter and all that, is `RoomAhead`, checked
from the lengths in `Emit`. `LinksFit` and `SegmentsHeld` ride along; a link is the one
thing written to a segment that is no longer open, and `Grown` reserves it.

`ProcessProofs` proves, for all lengths, places, files and arrays that `CodeSegAssumption`,
`RuntimeAssumption` and `ProcessAssumption` allow:

| Theorem | Concludes | Invariant |
|---|---|---|
| `ImplementsSegments`, `SegmentsOfProcess` | `SegSpec`, and so the three theorems above | |
| `BitmapsAlwaysCover` | `BitmapsCover` | `CoverInv`, which adds that `proglen` is a number |
| `ArrayZeroIsWhole` | `ArrayZeroWhole`, supposing `LengthsFit` | `ZeroInv` |
| `FrameAlwaysKept`, `CallsAlwaysAsDeclared` | `FrameKept`, `CallsAsDeclared` | `CallInv` |
| `AlwaysGoesWhereTold`, `PatchAlwaysRight` | `GoesWhereTold`, `PatchRight` | `CallInv`, `SegInv` |
| `EncodesAlwaysRight`, `RoomIsAhead` | `EncodesRight`, `RoomAhead` | none is needed |

`LengthsFit` says that no single file, and no array that is loaded, is as long as the
address space. An array is never so long, since its bytes lie in that space; a file of
4 GiB may be, and is cut (see *Not modelled*). Nothing is supposed of their sum. That
`um_ipl` needs no more is because it maps all the files *before* it adds up what they hold:
what they have left of the address space bounds their platters (`ZeroInv` says so until the
program is mapped, and after that that `proglen` is what has been copied and what is
still to be). A count that wraps is 0, for which `mmap` fails. `RoundupHolds` is the lemma for
that, for any word and page.

Of the calls none of the four properties is inductive. Each looks at one moment of a call,
and what it says there is made by the instructions of a stub out of what the last
call left. `CallInv` has the whole state of the processor at both moments that
the model has:

- while a function of C runs (`InCall`), ESP is at the return address, at the
  depth of its stub (17 words for the out-of-line allocation, which saves three
  registers, and for the stub of a jump to a constant place, which has been called
  itself: both align the stack anew; 13 words for all others), what is passed is as declared,
  and the frame of `co_enter` above it is untouched (`Framed`);
- when it has returned and the rest of the stub has run (`After`), ESP is back where `co_enter`
  put it, and `eip` is where the call was told to go, or behind it; for the stub
  of a jump to a constant place, at the patch;
- `CallHeld`: where control will go is code that is mapped. This is what connects
  the stack to `CodeSeg`: a function that unmaps its caller (`um_destroy_and_go`,
  `um_loadfar`, `um_postwrite`) always says where to go instead, and only then is the return
  address allowed to be dangling. `SegInv` says that blocks found and made are mapped.

A stub is a sequence of up to a dozen instructions. `Do...` lemmas say what each kind of them does,
`...Passes` what each stub has pushed and called when it gets to the function, `ReturnIs` and
`Load0cPatches` what follows it. Numbers are added there modulo the word; that nothing wraps
where it should not is `StubsAssumption` (the stack is aligned and does not reach down to 0, nor
to the end of memory) and `ProcessAssumption` (nor does a segment); where the one lies with respect to
the other is left open. That the
displacement of a jump may wrap is `ModPlus` of `WordsProofs`.

`EncodesRight` is proved for words of every width above nine bits, so that a
sign-extended byte is not yet a word, and in its lemmas (`AddsRight`, `MultipliesRight`, `JumpsRight`, ...)
for every word a register may hold and not only the samples that TLC takes. The argument is that each
form carries the operand it is given, or one that is the same modulo the word (`Long`), and
that remainders may be taken early. That a multiplier is the odd number that `lea` computes, times the power of two that is
shifted by, is `OddShifted`; that a quotient by a power of two is the word shifted by its
zeros (`IsPowerOf2`, `Zeros`) is in `EncodesRight` too. `RoomAhead` counts the instructions of each
kind, at their longest.

`SallocProofs` proves, for every size of slab, all lengths and all places of slabs that
`SallocAssumption` allows (memory ends somewhere; a slab has four words or more):

- `TypesHold`, `NoWordTwice`, `LinksHaveRoom`, `HeadIsThere`: `Spec => []TypeOK`,
  `[]NoOverlap`, `[]HoldsLinks`, `[]Primed`;
- `HeapImplemented`: `Spec => ImplementsHeap`, the refinement of `Heap`;
- `NothingLost`: `Spec => []NoLeak` if `NeverDoubles`, that is, if the program never asks
  inline for the one length at which `e_subri` subtracts twice. With `SubTwice` at 32 this is
  the length 29, and the theorem says that nothing else in the allocator leaks.

None of the four is inductive. `NoOverlap` needs every region to be two words or more: an
empty region is apart from everything and one of a single word would be lost by
`salloc_reload`. That `lastfree` has a head needs to know who makes it: it may be empty
only while the call of `prime_lastfree` is the innermost (`HasHead`). That this call leads to
no second one needs `PrimeFits`: some region of `nextready` or the window has four words.
`list_cycle` establishes it, since it is only reached when a region for the request was
found, and the run that region becomes part of (`RunsCover`) is no smaller. So a call of
`prime_lastfree` may reload, even more than once, but only from `nextready`, and a reload
from there puts the window on `lastfree`, which is then not empty.

The lemmas follow the way memory takes: what moving a region does to the layout
(`WindowFreed`, `WindowOpened`, `WindowCut`, `ArrayFreed`, ...), what `Runs` returns
(`RunsOfRegions`, `RunsCover`, `ListCycled`), that `malloc` gives new memory (`ChunkIsNew`).
That the in-place merge sort of `list_cycle` does what `Runs` says stays with `FreeList`
and TLC.

`CodegenProofs` proves, for any vregs, any mregs from three up (`RegAllocAssumption`), words of
any width, and blocks of any length:

| Theorem | Of which programs | Concludes |
|---|---|---|
| `Types`, `TablesInverse`, `NoAssertFails` | all | `TypeOK`, `OneToOne`, `AssertsHold` |
| `Coherence`, `HandsOverTruth`, `InlineThroughout` | `ArraysKnown` | `Coherent`, `HandsOver`, `StaysInline` |
| `CodeImplementsUM` | `ArraysKnown` | `ImplementsUM` |

`ArraysKnown` leaves out three kinds of platter, each of which the code gets wrong and TLC
refutes by itself: an index (`OutOfLine`) and an amendment of an array not known to be 0 or not,
and an abandonment (the variants listed above). So the theorems say that there is no fourth.

None of the properties is inductive, for two reasons. They speak of the tables between
platters, and a platter takes up to a dozen functions of `ra.c`, in the midst of which
the tables are not as they are between them; and they do not say that there will be an mreg to
spare. The first needs `Loose(w, L)`: types, `vtom` and `mtov` inverse to
each other and every vreg somewhere, but for the vregs of `L`, which are between two mregs. Each
function of `ra.c` has a lemma that says what becomes of it. The second needs `Busy`, the
mregs that are held or have been used by this platter, which are those `ra__dislike` does
not let go (`DislikeSign`, `MostDislikedIsMost`): a platter starts with none, and
each lemma bounds how many it adds. With three mregs there is always one for the third
operand, and after two are held in a division or a call.

`Whole` is the inductive invariant for all programs: `Loose(jit, {})`, nothing held,
nothing busy where the next platter may begin. `Good` is the one about values:
there are values of all the vregs such that every place that has a vreg has its value
and what is known is true of them (`Knows`), if control is in line; if it has gone elsewhere,
memory has them all and what was handed over is true of them. Each function of `co.c`
has a lemma that says which vreg it writes and what (`Puts`), or that it writes none
(`Acts`), each case of the switch one that says which values it leads to
from which (`Leads`, `Gone`), whatever was folded; and each action of `Codegen` one that finds the step
of `UMachine` in it. A jump to an exit taken on one of two paths is split by the value it tests
(`CondbrIs`, `GuardedIs`), because the tables are those of both.

`WordsProofs` has what `CodegenProofs` and `ProcessProofs` need of arithmetic. `And` and the powers of two are recursive
functions, whose equations follow from `RecursiveSequence` of `SetInduction`; quotients and remainders
are characterised (`ModIs`, `DivIs`) and everything else follows from that. What the processor does when it shifts
to the right (`Exec`, and `shift` of `CompileDiv`) is defined as the quotient by a power of two;
that the compiler shifts only where this is the division asked for is proved.

Only model-checked:

- `CycleSorts`. The merge sort of `FreeList` is made of recursive operators, of which the
  prover can say nothing, and what it computes needs an induction over lists.
- `AllocReturns` and `AlwaysResumes`: liveness under fairness is beyond the prover.

## Not modelled

Formatting and timing (`util.c`, `vers.c`, `prtimes`), the bytes of instructions and
the functions of emit.h that emit one fixed form, the order of the bytes of a platter,
the build. Lengths of 2^30 platters and more, whose byte count overflows in `salloc`,
and files of 4 GiB and more, whose length is cut to a `size_t`. In the run `Process` files too
long for memory fail as `mmap` does; that counts of bytes do not overflow on the way to
that failure is `ArrayZeroIsWhole`. Failure of `malloc` outside
`salloc`, which the code does not test. What the page behind the program holds, which
the look-ahead of `umc_mkblk` may read.

## Plan

1. `Jit`: `CodeCache` with registers, so that facts come from values; composed with
   `Salloc` through far loads.
2. Proofs: the theorems about `Codegen` of programs that have the platters `ArraysKnown`
   leaves out, but whose facts about the array are known whenever one is compiled.
