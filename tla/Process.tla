------------------------------ MODULE Process ------------------------------
(***************************************************************************)
(* The umx process (main.c): it loads a program, makes a world, and runs   *)
(* compiled code, whose calls compile more of it or make another world.    *)
(* Composes the memory of array 0 (Runtime), the code segments (CodeSeg)   *)
(* and the calls of compiled code (Stubs).                                 *)
(***************************************************************************)
EXTENDS CodeSeg, Runtime, Stubs

VARIABLES
  cpu,    \* the processor and its stack
  call    \* the call of C last made, or the one in progress

vars == <<segvars, rtvars, cpu, call>>

\* A call: its stub, whether it is in progress, where it returns to, where the stub
\* was called from (or 0), where a block was found or made for it (or 0), and what the
\* registers held.
Call(s, live, ret, site, to, r) ==
  [stub |-> s, live |-> live, ret |-> ret, site |-> site, to |-> to, r |-> r]

NoPatch == [at |-> 0, jump |-> Ins("none", 0, 0)]

\* The processor in umc_start, about to call what co_enter has emitted.
Started ==
  [r     |-> [x \in Regs |-> IF x = "ESP" THEN Top - 4 ELSE The[x]],
   mem   |-> [a \in Stack |-> IF a = Top - 4 THEN The["umc_start"] ELSE The["junk"]],
   eip   |-> 0,
   patch |-> NoPatch]

NoCall == Call("none", FALSE, 0, 0, 0, Started.r)

\* mmap places nothing at 0, nor at the very end of the address space.
ASSUME ProcessAssumption ==
  /\ LinkLen = 5 /\ WordBits > 9
  /\ \A b \in Bases : b > 0 /\ b + COD_SEG + LinkLen <= Modulus

-----------------------------------------------------------------------------
(* Addresses of code *)

\* What is written of the segments of a chain, as first and last address.
Written(s) ==
  {<<s.base, s.next>>} \cup {<<s.cdr[k].base, s.cdr[k].next - LinkLen>> : k \in DOMAIN s.cdr}

\* Where the last call emitted in a segment returns to, if there is one.
Returns(c) ==
  {w[2] : w \in {v \in Written(cod[c]) :
                  v[1] + (IF c = "inl" THEN EnterLen ELSE 0) + CallLen <= v[2]}}

\* Where a block may begin.
Beginnings(s) == {w[1] + EnterLen : w \in {v \in Written(s) : v[1] + EnterLen < v[2]}}

-----------------------------------------------------------------------------
(* main *)

Load ==
  /\ mode = "off"
  /\ MapFile \/ AllocProgram \/ CopyFile
  /\ UNCHANGED <<segvars, cpu, call>>

\* um_crti and umc_start, up to the call of the code.
Boot ==
  /\ Booted
  /\ Start
  /\ MakeBitmaps(prog.len)
  /\ call' = Call("start", TRUE, 0, 0, cod'.inl.next, Started.r)
  /\ UNCHANGED <<es, prog, lost, cpu>>

Compile ==
  /\ CompilePlatter \/ CompileBad \/ CompileFall
  /\ UNCHANGED <<rtvars, cpu, call>>

\* The process is gone.
Exit ==
  /\ es' = <<>> /\ prog' = NoProg /\ lost' = 0 /\ bits' = 0
  /\ cpu' = Started /\ call' = NoCall

NoMap == CompileNoMap /\ Exit

Runs == mode \in {"idle", "doomed"}

Begin ==
  /\ Runs /\ call.live /\ call.stub = "start"
  /\ cpu' = [DoAll(cpu, co_enter) EXCEPT !.eip = call.to]
  /\ call' = [call EXCEPT !.live = FALSE]
  /\ UNCHANGED <<segvars, rtvars>>

-----------------------------------------------------------------------------
(* Compiled code *)

InCode == Runs /\ ~call.live /\ call.stub # "halt"

\* Between calls, compiled code has put in the registers and in the words passed what
\* it wants.
Settled ==
  [cpu EXCEPT !.r = [x \in Regs |-> IF x \in General THEN The[x] ELSE cpu.r[x]],
              !.mem = [a \in Stack |-> IF a < cpu.r["EBP"] - 12 THEN The["junk"] ELSE cpu.mem[a]],
              !.patch = NoPatch]

\* A block that was doomed when it was entered does nothing else.
MayRun(s) == mode = "idle" \/ s \in {"badness", "fltnoex"}

\* The section a stub is emitted in; that of co_loadguard depends on what is known.
Sections(s) ==
  CASE s \in {"load_0c", "reload"} -> {"outl"}
    [] s = "loadguard"             -> {"inl", "outl"}
    [] OTHER                       -> {"inl"}

\* The code of a stub up to its call, and the call.  That of co_load_0c has been
\* called itself.
CallOut(s) ==
  /\ InCode /\ MayRun(s)
  /\ \E c \in Sections(s) : \E ret \in Returns(c) :
     \E site \in (IF s = "load_0c" THEN Returns("inl") ELSE {0}) :
       LET from == IF s = "load_0c" THEN Pushed(Settled, site) ELSE Settled
       IN  /\ cpu' = Pushed(DoAll(from, Stubs[s].before), ret)
           /\ call' = Call(s, TRUE, ret, site, 0, from.r)
  /\ UNCHANGED <<segvars, rtvars>>

Halt ==
  /\ InCode /\ MayRun("halt")
  /\ cpu' = DoAll(Settled, co_halt)
  /\ call' = Call("halt", FALSE, 0, 0, 0, cpu.r)
  /\ UNCHANGED <<segvars, rtvars>>

-----------------------------------------------------------------------------
(* The functions called *)

Called(fns) == call.live /\ call.stub \in DOMAIN Stubs /\ Stubs[call.stub].fn \in fns
Undecided(fns) == Called(fns) /\ call.to = 0

GoTo(to) == call' = [call EXCEPT !.to = to]

\* um_enter and um_enterdep have a block in the table; or they, or um_postwrite, have
\* to make one.
Found ==
  /\ Runs /\ Undecided({"um_enter", "um_enterdep"})
  /\ \E to \in Beginnings(cod.inl) : GoTo(to)
  /\ UNCHANGED <<segvars, rtvars, cpu>>

Make ==
  /\ Undecided({"um_enter", "um_enterdep", "um_postwrite"})
  /\ Enter
  /\ GoTo(cod.inl.next)
  /\ UNCHANGED <<rtvars, cpu>>

\* um_destroy_world, and a block in the new one.
Destroy ==
  /\ Undecided({"um_destroy_and_go", "um_postwrite"})
  /\ Renew
  /\ GoTo(cod'.inl.next)
  /\ MakeBitmaps(prog.len)
  /\ UNCHANGED <<es, prog, lost, cpu>>

FarLoad ==
  /\ Undecided({"um_loadfar"})
  /\ Renew
  /\ GoTo(cod'.inl.next)
  /\ um_newprog
  /\ MakeBitmaps(prog'.len)
  /\ UNCHANGED cpu

\* The same, when there is more than one segment of code.
DestroyLong ==
  /\ Undecided({"um_destroy_and_go", "um_postwrite", "um_loadfar"})
  /\ Botch
  /\ UNCHANGED <<rtvars, cpu, call>>

\* um_postwrite may have nothing to do; the others have an address to return.
Answered == call.to # 0 \/ Called({"um_postwrite", "um_alloc", "salloc_reload", "putchar", "getchar"})

Return ==
  /\ Runs /\ call.live /\ call.stub \in DOMAIN Stubs /\ Answered
  /\ cpu' = DoAll(Returned(cpu, call.stub, call.to), Stubs[call.stub].after)
  /\ call' = [call EXCEPT !.live = FALSE]
  /\ UNCHANGED <<segvars, rtvars>>

\* um_abend and um_halt exit; a failed mapping, or memory that runs out, ends the
\* process too.
Stop ==
  /\ mode = "off" \/ call.stub = "halt"
     \/ Called({"um_abend", "um_loadfar", "um_destroy_and_go", "um_postwrite", "salloc_reload", "um_alloc"})
  /\ End
  /\ Exit

-----------------------------------------------------------------------------
Init ==
  /\ SegInit /\ RtInit
  /\ cpu = Started
  /\ call = NoCall

Next ==
  \/ Load \/ Boot \/ Compile \/ NoMap \/ Begin
  \/ \E s \in DOMAIN Stubs : CallOut(s)
  \/ Halt \/ Found \/ Make \/ Destroy \/ FarLoad \/ DestroyLong \/ Return \/ Stop

Spec == Init /\ [][Next]_vars

-----------------------------------------------------------------------------
(* Properties *)

\* Between calls the stack is where co_enter put it, and what it saved is there; the
\* call of salloc_reload out of line is not seen by the code in line, not in any
\* register; and a halt gets back to umc_start with its stack and its frame.
FrameKept ==
  /\ InCode =>
       /\ cpu.r["EBP"] = Top - 8 /\ cpu.r["ESP"] = Top - 48
       /\ \A k \in 1 .. 5 :
            cpu.mem[Top - 4 * k] = The[<<"umc_start", "EBP", "EBX", "ESI", "EDI">>[k]]
       /\ call.stub = "reload" => \A r \in General : cpu.r[r] = call.r[r]
  /\ call.stub = "halt" =>
       /\ cpu.eip = The["umc_start"] /\ cpu.r["EAX"] = 0
       /\ cpu.r["ESP"] = Top /\ cpu.r["EBP"] = The["EBP"]

\* Every function finds its parameters where its prototype says, the address of its
\* own return address among them, and a stack aligned to 16 bytes.
CallsAsDeclared ==
  call.live /\ call.stub \in DOMAIN Stubs =>
    LET declared == Stubs[call.stub].args
    IN  /\ (cpu.r["ESP"] + 4) % 16 = 0
        /\ \A k \in DOMAIN declared :
             Parameter(cpu, k) = IF declared[k] = "rtnp" THEN cpu.r["ESP"] ELSE The[declared[k]]

\* Control is where eip is, or where a jump that has just been written there leads.
Control ==
  IF cpu.eip = cpu.patch.at THEN Lands(cpu.patch.at, cpu.patch.jump) ELSE cpu.eip

Mapped(a) == \E b \in mapped : a \in b .. b + COD_SEG - 1

\* Control comes back to code that is still mapped: to the block found or made if
\* there is one, or else where the call was made.
GoesWhereTold ==
  InCode => Mapped(cpu.eip) /\ Mapped(Control)
            /\ Control = IF call.to # 0 THEN call.to ELSE call.ret

\* The stub of a jump to a constant place has overwritten the call to it, and
\* nothing else, with a jump to where it goes on.
PatchRight ==
  InCode /\ call.stub = "load_0c" =>
    /\ cpu.patch.at = call.site - CallLen
    /\ cpu.patch.jump.n = CallLen
    /\ Lands(cpu.patch.at, cpu.patch.jump) = call.to
    /\ cpu.eip = cpu.patch.at

\* Every platter has its bit in both bitmaps, which are made anew when proglen
\* changes (and it changes only while there are none).
BitmapsCover == mode \in Up => prog.len <= bits * BitWord

-----------------------------------------------------------------------------
(* Properties of the code emitted, of every operand at words of a few       *)
(* values; it is enough to look once.                                       *)

Ints    == -(Modulus \div 2) .. Modulus \div 2 - 1
Samples == {0, 1, 3, 200, Modulus - 1}

\* What is subtracted by the code that is emitted: by co_enter, e_calli_rtnp, the stub
\* of co_load_0c, co_free, and co_alloc of every length but one (that one is Salloc's
\* SubTwice).
Subtracted == {28, 8, 5, 4} \cup {AllocLen(c) + 8 : c \in 0 .. 33 \ {29}}

\* Whatever form is chosen for an immediate operand, the processor computes the
\* platter's function of it.  A jump, conditional or not, long or short, forwards or
\* backwards, leads where it should; and one over code leads to the end of it, which
\* is near enough.
EncodesRight ==
  mode = "off" =>
  \A x \in Samples, eax \in BOOLEAN :
    /\ \A i \in Ints :
         /\ ExecAll(x, e_addri(eax, i)) = Long(x + i)
         /\ ExecAll(x, e_andri(eax, i)) = And(x, Long(i))
         /\ ExecAll(x, e_movri(i)) = Long(i)
         /\ ExecAll(x, e_mulri(Long(i))) = Mul(x, Long(i))
    /\ \A i \in Subtracted : ExecAll(x, e_subri(eax, i)) = Long(x - i)
    /\ \A z \in 0 .. WordBits - 1 : ExecAll(x, e_shxri("shr", z)) = x \div Pow2[z]
    /\ \A k \in Word : IsPowerOf2(k) => ExecAll(x, e_shxri("shr", Zeros(k))) = Div(x, k)
    /\ \A to \in Word : Lands(x, e_jmpi(x, to)) = to /\ Lands(x, e_jcc(x, to)) = to
    /\ \A n \in SkippedLen : Lands(x, JccOver(x, n)) = Long(x + 2 + n)

\* The 1024 bytes that umc_mkblk asks getcod for hold the code of any platter and all
\* that may follow before it asks again, in either chain: the arrays co_alloc clears word
\* by word, and every other case of the switch.
RoomAhead ==
  LET after == FlushLen + 2 * NoexLen + 5 IN
  mode = "off" =>
  /\ \A c \in {c \in 0 .. 400 : Inlined(c)} : AllocBytes(c) + after <= 1024
  /\ \A k \in DOMAIN Instructions : LongestIns * Instructions[k] + after <= 1024

=============================================================================
