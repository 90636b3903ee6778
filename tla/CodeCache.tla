----------------------------- MODULE CodeCache -----------------------------
(***************************************************************************)
(* The code cache of umx (crt.c, with the block-forming control of umc.c   *)
(* and the jump stubs of i386/co.c): which compiled blocks exist, which    *)
(* platters of array 0 they were compiled from, and what the write-protect *)
(* and execute-protect bitmaps do when a running program overwrites itself.*)
(*                                                                         *)
(* One UM program runs on one thread, so the model is a machine with a     *)
(* control state, "mode": compiled code runs until it calls back into the  *)
(* runtime, which compiles or shoots down blocks and resumes it.           *)
(*                                                                         *)
(* A platter is abstracted to the class of instruction it decodes to, and  *)
(* register values to what the compiler does or does not know of them, an  *)
(* arbitrary choice made anew each time a platter is compiled:             *)
(*   "op"    any other instruction that leaves array 0 and control alone   *)
(*   "amend" an array amendment whose array register is known to be zero   *)
(*   "cmov"  a conditional move that is not resolved at compile time       *)
(*   "nand"  a nand; another may be the complement of its result           *)
(*   "load"  a load program to a destination the compiler does not know    *)
(*   "loadc" a load program to a constant destination                      *)
(*   "stop"  halt, or an illegal instruction                               *)
(***************************************************************************)
EXTENDS Naturals, Sequences, SequencesExt

CONSTANTS
  Images,    \* the program images array 0 can be loaded with: sequences of classes
  Insns,     \* the classes of platter an amendment may write
  MaxLen,    \* no image is longer
  MaxBlk,    \* UM_MAXBLK
  Facts,     \* the register-is-zero bits; a znz_t is a set of them
  MaxCode    \* bound of the model: blocks compiled before the world is reset

Classes == {"op", "amend", "cmov", "nand", "load", "loadc", "stop"}

ASSUME CodeCacheAssumption ==
  /\ MaxLen \in Nat
  /\ MaxBlk \in Nat \ {0}
  /\ MaxCode \in Nat
  /\ Insns \subseteq Classes
  /\ Images \subseteq Seq(Classes)
  /\ \A im \in Images : Len(im) \in 1 .. MaxLen

VARIABLES
  prog,       \* progdata: address -> class of the platter there
  proglen,    \* proglen
  code,       \* every block compiled since the world was created, by number
  progblks,   \* the block table: begin address -> blocks, most recent first
  prognowr,   \* write-protected platters
  prognoex,   \* execute-protected platters
  mode,       \* which part of the program has control
  cur,        \* the platter compiled code is about to execute, and in which block
  g,          \* the block being compiled
  pw          \* the postwrite in progress

vars == <<prog, proglen, code, progblks, prognowr, prognoex, mode, cur, g, pw>>
world == <<code, progblks, prognowr, prognoex>>

Addr   == 0 .. MaxLen
Limit  == g.begin + MaxBlk

-----------------------------------------------------------------------------
(* Compiled blocks *)

Covers(b, x)  == b.begin <= x /\ x < b.end             \* inblk
Implied(b, z) == b.znz \subseteq z                     \* znblk
Span(b)       == b.begin .. (b.end - 1)

\* What the block does at platter x, before its exit.
OpAt(b, x) == b.ops[x - b.begin + 1]

Arm(dst, z, link) == [dst |-> dst, znz |-> z, link |-> link]
Exit(k, at, arms) == [k |-> k, at |-> at, arms |-> arms]

-----------------------------------------------------------------------------
(* The block table.  Only the order of blocks that begin at the same       *)
(* address can be observed, so the hash chains are kept as one list per    *)
(* begin address.                                                          *)

Table == {id \in DOMAIN code : \E x \in Addr : id \in ToSet(progblks[x])}

\* getblkx: the first block at x whose assumptions are implied, or 0 ...
Hits(tbl, x, z) == {k \in DOMAIN tbl[x] : Implied(code[tbl[x][k]], z)}
Getblkx(tbl, x, z) ==
  IF Hits(tbl, x, z) = {} THEN 0 ELSE tbl[x][Min(Hits(tbl, x, z))]

\* ... which also moves to the front of its list.
ToFront(s, k) == <<s[k]>> \o RemoveAt(s, k)
Touch(tbl, x, z) ==
  IF Hits(tbl, x, z) = {} THEN tbl
  ELSE [tbl EXCEPT ![x] = ToFront(@, Min(Hits(tbl, x, z)))]

\* getblk: scan the begin addresses a block reaching x can have, upwards,
\* looking at the first block of each.
WindowBelow(x) == (IF x > MaxBlk THEN x - MaxBlk ELSE 0) .. (x - 1)    \* mutant
Window(x) == (IF x > MaxBlk THEN x - MaxBlk ELSE 0) .. x
Getblk(tbl, x) ==
  LET at == {i \in Window(x) : tbl[i] # <<>> /\ Covers(code[Head(tbl[i])], x)}
  IN  IF at = {} THEN 0 ELSE Head(tbl[Min(at)])

\* depblk
Depend(cd, id) == IF id = 0 THEN cd ELSE [cd EXCEPT ![id].dep = TRUE]

-----------------------------------------------------------------------------
(* Control *)

NoBlock  == [id |-> 0, pos |-> 0]
NoWrite  == [target |-> 0, source |-> 0]
NoCaller == [id |-> 0, arm |-> 0]
NoCode   == [begin |-> 0, znz |-> {}, time |-> 0, ops |-> <<>>,
             dep |-> FALSE, first |-> 0, caller |-> NoCaller]

\* The compiler state when umc_mkblk starts a block at x under assumptions z.
CompilingNoDep(x, z, dep, first, caller) ==                          \* mutant
  [begin |-> x, znz |-> z, time |-> x, ops |-> <<>>,
   dep |-> FALSE, first |-> first, caller |-> caller]
Compiling(x, z, dep, first, caller) ==
  [begin |-> x, znz |-> z, time |-> x, ops |-> <<>>,
   dep |-> dep, first |-> first, caller |-> caller]

\* umc_enter: compile a block at x; caller is the stub to patch, if any.
UmcEnter(x, z, caller) ==
  /\ mode' = "compile"
  /\ g' = Compiling(x, z, FALSE, 0, caller)
  /\ cur' = NoBlock

\* Resume compiled code at the beginning of block id.
Resume(cd, id) ==
  /\ mode' = "run"
  /\ cur' = [id |-> id, pos |-> cd[id].begin]
  /\ g' = NoCode

\* um_crtf followed by um_crti: all blocks, code and bitmaps are gone.
NewWorld ==
  /\ code' = <<>>
  /\ progblks' = [x \in Addr |-> <<>>]
  /\ prognowr' = {}
  /\ prognoex' = {}

LoadImage(im) ==
  /\ proglen' = Len(im)
  /\ prog' = [x \in 0 .. Len(im) - 1 |-> im[x + 1]]

\* main: um_ipl, um_crti, then umc_start compiles at 0, all registers zero.
Init ==
  /\ \E im \in Images :
       /\ proglen = Len(im)
       /\ prog = [x \in 0 .. Len(im) - 1 |-> im[x + 1]]
  /\ code = <<>>
  /\ progblks = [x \in Addr |-> <<>>]
  /\ prognowr = {}
  /\ prognoex = {}
  /\ mode = "compile"
  /\ cur = NoBlock
  /\ g = Compiling(0, Facts, FALSE, 0, NoCaller)
  /\ pw = NoWrite

-----------------------------------------------------------------------------
(* The compiler: one action per turn of the loop of umc_mkblk *)

\* The loop goes on, and the platter at g.time is there and may be compiled.
CompilableNoex == mode = "compile" /\ g.time < Limit /\ g.time < proglen  \* mutant
Compilable ==
  /\ mode = "compile"
  /\ g.time < Limit
  /\ g.time < proglen
  /\ g.time \notin prognoex

\* The instruction after this one, as the two peepholes look ahead for it.
Next2 == g.time + 1 < Limit /\ g.time + 1 < proglen
Peek(c) == Next2 /\ prog[g.time + 1] = c

EmitOne(ops, noex) ==                                                \* mutant
  /\ g' = [g EXCEPT !.ops = @ \o ops, !.time = @ + 1]
  /\ prognowr' = prognowr \cup {g.time}
  /\ prognoex' = noex
  /\ UNCHANGED <<prog, proglen, code, progblks, mode, cur, pw>>
Emit(ops, noex) ==
  /\ g' = [g EXCEPT !.ops = @ \o ops, !.time = @ + Len(ops)]
  /\ prognowr' = prognowr \cup {g.time}
  /\ prognoex' = noex
  /\ UNCHANGED <<prog, proglen, code, progblks, mode, cur, pw>>

Op(k, t) == [k |-> k, t |-> t]
Plain == Op("op", 0)

CompileOp ==
  /\ Compilable
  /\ prog[g.time] \in {"op", "cmov"}
  /\ Emit(<<Plain>>, prognoex)

\* A nand: folded if its operands are constants, else fused with a following
\* nand if that is the complement of its result.
CompileNand ==
  /\ Compilable
  /\ prog[g.time] = "nand"
  /\ \/ Emit(<<Plain>>, prognoex)
     \/ Peek("nand") /\ Emit(<<Plain, Plain>>, prognoex)

\* An amendment of array 0.  If the index is a known t and no block covers
\* t (nor has this one reached it), t is execute-protected and the store
\* compiled bare; otherwise the store is followed by a call to um_postwrite.
BareAnywhere(t) == TRUE                                              \* mutant
BareOnSelf(t)   == t \notin prognowr                                 \* mutant
Bare(t)         == t \notin prognowr \cup {g.time}

CompileAmend ==
  /\ Compilable
  /\ prog[g.time] = "amend"
  /\ \/ \E t \in 0 .. proglen - 1 :
          /\ Bare(t)
          /\ Emit(<<Op("store", t)>>, prognoex \cup {t})
     \/ Emit(<<Op("postwrite", 0)>>, prognoex)

\* The loop has ended: the block [g.begin, end) is entered in the table and its
\* platters write-protected (useblk).
NewBlock(ops, end, exit) ==
  [begin |-> g.begin, end |-> end, znz |-> g.znz, dep |-> g.dep, ops |-> g.ops \o ops,
   src |-> [x \in g.begin .. end - 1 |-> prog[x]], exit |-> exit]

Useblk(tbl, id, end) ==
  /\ progblks' = [tbl EXCEPT ![g.begin] = <<id>> \o @]
  /\ prognowr' = prognowr \cup g.begin .. (end - 1)

First(id) == IF g.first = 0 THEN id ELSE g.first

\* A stub that asked for the block (co_load_0c) now jumps to it directly.
Patch(cd, caller, id) ==
  IF caller.id = 0 THEN cd
  ELSE [cd EXCEPT ![caller.id].exit.arms[caller.arm].link = id]

\* The block ends for good: control goes to the first block of this compilation.
Finish(ops, end, exit, tbl, cd) ==
  LET id == Len(cd) + 1
      cd1 == Patch(Append(cd, NewBlock(ops, end, exit)), g.caller, First(id))
  IN  /\ code' = cd1
      /\ Useblk(tbl, id, end)
      /\ Resume(cd1, First(id))
      /\ UNCHANGED <<prog, proglen, prognoex, pw>>

CompileStop ==
  /\ Compilable
  /\ prog[g.time] = "stop"
  /\ Finish(<<>>, g.time + 1, Exit("stop", g.time, <<>>), progblks, code)

\* The program ends: co_badness.
CompileEnd ==
  /\ mode = "compile"
  /\ g.time < Limit
  /\ g.time >= proglen
  /\ Finish(<<>>, g.time, Exit("stop", g.time, <<>>), progblks, code)

\* The platter is execute-protected: co_fltnoex.
CompileNoex ==
  /\ mode = "compile"
  /\ g.time < Limit
  /\ g.time < proglen
  /\ g.time \in prognoex
  /\ Finish(<<>>, g.time, Exit("noex", g.time, <<>>), progblks, code)

CompileLoad ==
  /\ Compilable
  /\ prog[g.time] = "load"
  /\ Finish(<<>>, g.time + 1, Exit("load", g.time, <<>>), progblks, code)

\* co_load_0c: a block already there is jumped to, and marked as depended on.
CompileLoadC ==
  /\ Compilable
  /\ prog[g.time] = "loadc"
  /\ \E dst \in 0 .. proglen, z \in SUBSET Facts :
       LET d == Getblkx(progblks, dst, z)
       IN  Finish(<<>>, g.time + 1, Exit("loadc", g.time, <<Arm(dst, z, d)>>),
                  Touch(progblks, dst, z), Depend(code, d))

\* The conditional branch idiom: a move between constants, then the load.
CompileCond ==
  /\ Compilable
  /\ prog[g.time] = "cmov"
  /\ Peek("load")
  /\ \E ct, cf \in 0 .. proglen, zt, zf \in SUBSET Facts :
       LET dt == Getblkx(progblks, ct, zt)
           tb == Touch(progblks, ct, zt)
           df == Getblkx(tb, cf, zf)
       IN  Finish(<<Plain>>, g.time + 2,
                  Exit("branch", g.time + 1, <<Arm(ct, zt, dt), Arm(cf, zf, df)>>),
                  Touch(tb, cf, zf), Depend(Depend(code, dt), df))

\* UM_MAXBLK instructions and no end in sight: compile what follows as a block
\* of its own, into which this one falls through, and which it depends on.
CompileFall ==
  /\ mode = "compile"
  /\ g.time >= Limit
  /\ LET id == Len(code) + 1
         fall == Exit("fall", g.time, <<Arm(g.time, {}, id + 1)>>)
     IN  /\ code' = Append(code, NewBlock(<<>>, g.time, fall))
         /\ Useblk(progblks, id, g.time)
         /\ \E z \in SUBSET Facts :
              g' = Compiling(g.time, z, TRUE, First(id), g.caller)
  /\ UNCHANGED <<prog, proglen, prognoex, mode, cur, pw>>

Compile ==
  \/ CompileOp \/ CompileNand \/ CompileAmend
  \/ CompileStop \/ CompileEnd \/ CompileNoex
  \/ CompileLoad \/ CompileLoadC \/ CompileCond
  \/ CompileFall

-----------------------------------------------------------------------------
(* Running compiled code *)

Here   == code[cur.id]
AtExit == cur.pos = Here.exit.at
Room   == Len(code) < MaxCode          \* bound of the model

Running(k) == mode = "run" /\ ~AtExit /\ OpAt(Here, cur.pos).k = k
Exiting(k) == mode = "run" /\ AtExit /\ Here.exit.k = k
Advance(n) == cur' = [cur EXCEPT !.pos = @ + n]

RunOp ==
  /\ Running("op")
  /\ Advance(1)
  /\ UNCHANGED <<prog, proglen, code, progblks, prognowr, prognoex, mode, g, pw>>

\* co_amend_unsafe alone: the target was not code when this was compiled.
RunStore ==
  /\ Running("store")
  /\ \E v \in Insns : prog' = [prog EXCEPT ![OpAt(Here, cur.pos).t] = v]
  /\ Advance(1)
  /\ UNCHANGED <<proglen, code, progblks, prognowr, prognoex, mode, g, pw>>

\* co_amend_unsafe, then um_postwrite up to its first return.
RunPostwrite ==
  /\ Running("postwrite")
  /\ Room
  /\ \E t \in 0 .. proglen - 1, v \in Insns :
       /\ prog' = [prog EXCEPT ![t] = v]
       /\ IF t \notin prognowr
          THEN Advance(1) /\ UNCHANGED <<mode, pw>>
          ELSE /\ mode' = "shoot"
               /\ pw' = [target |-> t, source |-> cur.pos]
               /\ UNCHANGED cur
  /\ UNCHANGED <<proglen, code, progblks, prognowr, prognoex, g>>

\* The exits to known places: code already linked, or the stub of co_load_0c,
\* which calls um_enterdep and patches itself with the answer.
RunLink ==
  /\ Exiting("loadc") \/ Exiting("branch") \/ Exiting("fall")
  /\ \E arm \in ToSet(Here.exit.arms) :
       /\ arm.link # 0
       /\ Resume(code, arm.link)
  /\ UNCHANGED <<prog, proglen, code, progblks, prognowr, prognoex, pw>>

RunEnterdep ==
  /\ Exiting("loadc") \/ Exiting("branch")
  /\ \E a \in DOMAIN Here.exit.arms :
       LET arm == Here.exit.arms[a]
           stub == [id |-> cur.id, arm |-> a]
           d == Getblkx(progblks, arm.dst, arm.znz)
       IN  /\ arm.link = 0
           /\ \/ /\ d # 0
                 /\ code' = Patch(Depend(code, d), stub, d)
                 /\ Resume(code, d)
              \/ /\ d = 0
                 /\ Room
                 /\ UmcEnter(arm.dst, arm.znz, stub)
                 /\ UNCHANGED code
           /\ progblks' = Touch(progblks, arm.dst, arm.znz)
  /\ UNCHANGED <<prog, proglen, prognowr, prognoex, pw>>

\* um_enter
RunEnter ==
  /\ Exiting("load")
  /\ \E x \in 0 .. proglen, z \in SUBSET Facts :
       LET d == Getblkx(progblks, x, z)
       IN  /\ \/ d # 0 /\ Resume(code, d)
              \/ d = 0 /\ Room /\ UmcEnter(x, z, NoCaller)
           /\ progblks' = Touch(progblks, x, z)
  /\ UNCHANGED <<prog, proglen, code, prognowr, prognoex, pw>>

\* um_loadfar: the array loaded is not array 0, and replaces it.
RunLoadfar ==
  /\ Exiting("load") \/ Exiting("loadc")
  /\ \E im \in Images :
       /\ LoadImage(im)
       /\ \E x \in 0 .. Len(im), z \in SUBSET Facts : UmcEnter(x, z, NoCaller)
  /\ NewWorld
  /\ UNCHANGED pw

\* um_destroy_and_go
RunNoex ==
  /\ Exiting("noex")
  /\ NewWorld
  /\ \E z \in SUBSET Facts : UmcEnter(cur.pos, z, NoCaller)
  /\ UNCHANGED <<prog, proglen, pw>>

RunStop ==
  /\ Exiting("stop")
  /\ mode' = "stopped"
  /\ UNCHANGED <<prog, proglen, code, progblks, prognowr, prognoex, cur, g, pw>>

Run ==
  \/ RunOp \/ RunStore \/ RunPostwrite \/ RunStop
  \/ RunLink \/ RunEnterdep \/ RunEnter \/ RunLoadfar \/ RunNoex

-----------------------------------------------------------------------------
(* um_postwrite, on a write-protected target *)

Hit == Getblk(progblks, pw.target)

\* delblk, when no other code depends on the block: it leaves the table, and
\* those of its platters that no block is now found to cover are unprotected.
RemblkNot(id)  == progblks                                          \* mutant
Remblk(id)      == [progblks EXCEPT ![code[id].begin] = Tail(@)]
UnprotectAll(id, tbl) == prognowr \ Span(code[id])                   \* mutant
Unprotect(id, tbl) == prognowr \ {x \in Span(code[id]) : Getblk(tbl, x) = 0}
NeverNeeded(id) == FALSE                                             \* mutant
Needed(id)      == code[id].dep

ShootBlock ==
  /\ mode = "shoot"
  /\ Hit # 0
  /\ ~Needed(Hit)
  /\ progblks' = Remblk(Hit)
  /\ prognowr' = Unprotect(Hit, Remblk(Hit))
  /\ UNCHANGED <<prog, proglen, code, prognoex, mode, cur, g, pw>>

\* delblk: other code jumps straight to the block, so everything goes.
ShootWorld ==
  /\ mode = "shoot"
  /\ Hit # 0
  /\ Needed(Hit)
  /\ NewWorld
  /\ cur' = NoBlock
  /\ UNCHANGED <<prog, proglen, mode, g, pw>>

\* No block covers the target any more.  If the platter of the amendment is
\* still compiled the caller goes on, else it is compiled anew from the next.
SourceIsThere == FALSE                                               \* mutant
SourceGone    == pw.source \notin prognowr
SamePlatter   == pw.source                                           \* mutant
NextPlatter   == pw.source + 1

ShootDone ==
  /\ mode = "shoot"
  /\ Hit = 0
  /\ \/ /\ pw.target \in prognowr                      \* the assertion fails
        /\ mode' = "aborted"
        /\ UNCHANGED <<cur, g, pw>>
     \/ /\ pw.target \notin prognowr
        /\ pw' = NoWrite
        /\ \/ /\ ~SourceGone
              /\ mode' = "run"
              /\ Advance(1)
              /\ UNCHANGED g
           \/ /\ SourceGone
              /\ \E z \in SUBSET Facts : UmcEnter(NextPlatter, z, NoCaller)
  /\ UNCHANGED <<prog, proglen, code, progblks, prognowr, prognoex>>

Shoot == ShootBlock \/ ShootWorld \/ ShootDone

Next == Compile \/ Run \/ Shoot

Spec == Init /\ [][Next]_vars
FairSpec == Spec /\ WF_vars(Next)
-----------------------------------------------------------------------------
(* Properties *)

Ops     == [k : {"op", "store", "postwrite"}, t : Addr]
Arms    == [dst : Addr, znz : SUBSET Facts, link : Nat]
Exits   == [k : {"stop", "noex", "load", "loadc", "branch", "fall"}, at : Addr,
            arms : Seq(Arms)]
Sources == UNION {[xs -> Classes] : xs \in SUBSET Addr}
Blocks  == [begin : Addr, end : Addr, znz : SUBSET Facts, dep : BOOLEAN,
            ops : Seq(Ops), src : Sources, exit : Exits]
Callers == [id : Nat, arm : Nat]
Compilations == [begin : Addr, znz : SUBSET Facts, time : Addr, ops : Seq(Ops),
                 dep : BOOLEAN, first : Nat, caller : Callers]

\* A block has one operation for every platter before its exit.
WellFormed(b) ==
  /\ b.exit.at = b.begin + Len(b.ops)
  /\ b.exit.at <= b.end

\* Types, and the shape of compiled blocks.
TypeOK ==
  /\ proglen \in 1 .. MaxLen
  /\ prog \in [0 .. proglen - 1 -> Classes]
  /\ code \in Seq(Blocks)
  /\ \A id \in DOMAIN code : WellFormed(code[id])
  /\ progblks \in [Addr -> Seq(1 .. Len(code))]
  /\ prognowr \subseteq 0 .. proglen - 1
  /\ prognoex \subseteq 0 .. proglen - 1
  /\ mode \in {"compile", "run", "shoot", "stopped", "aborted"}
  /\ cur \in [id : Nat, pos : Addr]
  /\ g \in Compilations
  /\ pw \in [target : Addr, source : Addr]

\* crt.c:161 asserts that after the shootdown loop nothing protects the target.
NeverAborts == mode # "aborted"

\* The write-protect bitmap is exact: a platter is protected just if a block of
\* the table was compiled from it, so no write to code goes unseen and none to
\* data is slowed down.
WriteProtectExact ==
  mode \in {"run", "shoot"} => prognowr = UNION {Span(code[id]) : id \in Table}

\* Every covered platter leads the scan of getblk to a block that covers it: no
\* block is hidden behind a more recent one with the same beginning.
NoHiddenBlock ==
  mode \in {"run", "shoot"} =>
    \A id \in Table : \A x \in Span(code[id]) : Getblk(progblks, x) # 0

\* An amendment compiled without a call to um_postwrite can only reach a platter
\* that will not be compiled while that amendment exists.
BareStoresSafe ==
  \A id \in DOMAIN code : \A n \in DOMAIN code[id].ops :
    LET op == code[id].ops[n]
    IN  op.k = "store" => op.t \in prognoex \ prognowr

\* Whatever compiled code may be entered was compiled from what array 0 now holds.
TableFresh ==
  mode = "run" =>
    \A id \in Table : \A x \in Span(code[id]) : code[id].src[x] = prog[x]

\* README:23, safe interleaving of code and data: the compiled code in control
\* does what the platter it stands for now says.
Coherent ==
  mode = "run" /\ cur.pos \in Span(Here) => Here.src[cur.pos] = prog[cur.pos]

\* Control is in code that has not been freed with its world.
NoDangling ==
  mode = "run" => cur.id \in DOMAIN code /\ cur.pos \in Here.begin .. Here.exit.at

\* A block that other code jumps straight to is marked as depended on, so that
\* shooting it down takes that code with it.
LinksAreDeps ==
  mode # "compile" =>
    \A id \in DOMAIN code : \A arm \in ToSet(code[id].exit.arms) :
      arm.link # 0 => code[arm.link].dep /\ arm.link \in Table

\* The platter the UM is about to execute.
Pc == CASE mode = "compile" -> IF g.first = 0 THEN g.begin ELSE code[g.first].begin
        [] mode \in {"shoot", "aborted"} -> pw.source + 1
        [] OTHER -> cur.pos

UM == INSTANCE UMControl WITH pc <- Pc, halted <- mode = "stopped"

\* Running compiled code, patching, shooting down and recompiling it is, step by
\* step, an execution of the UM program.
ImplementsUM == UM!Spec

\* The compiler and the shootdown loop always give control back to UM code.
AlwaysResumes ==
  mode \in {"compile", "shoot"} ~> mode \in {"run", "stopped"}

=============================================================================
