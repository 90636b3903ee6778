------------------------------- MODULE Stubs -------------------------------
(***************************************************************************)
(* The calls compiled code makes (i386/co.c): what is emitted before and   *)
(* after each of them, run on a processor with a stack.  Of registers and  *)
(* memory only what these instructions use is here.                        *)
(***************************************************************************)
EXTENDS Emit, Sequences

Regs    == {"EAX", "ECX", "EDX", "EBX", "ESP", "EBP", "ESI", "EDI"}
General == Regs \ {"ESP", "EBP"}

CONSTANTS
  Top,   \* the end of the stack when umc_start calls the code of co_enter
  The    \* what is passed and held, by name

Names == {"znz", "time", "target", "array", "index", "block", "length", "char", "format",
          "umc_start", "junk", "result", "EAX", "ECX", "EDX", "EBX", "EBP", "ESI", "EDI"}

\* The C compiler aligns the stack for a call to 16 bytes.
ASSUME StubsAssumption ==
  /\ Top \in 80 .. Modulus - 1 /\ Top % 16 = 0
  /\ The \in [Names -> Word]

\* What is used of the stack.
Stack == {a \in Top - 80 .. Top : a % 4 = 0}

-----------------------------------------------------------------------------
(* The processor *)

Pushed(m, x) == [m EXCEPT !.r["ESP"] = @ - 4, !.mem[m.r["ESP"] - 4] = x]
Popped(m)    == m.mem[m.r["ESP"]]
Shrunk(m)    == [m EXCEPT !.r["ESP"] = @ + 4]

Do(m, i) ==
  CASE i[1] = "push"  -> Pushed(m, i[2])
    [] i[1] = "pushr" -> Pushed(m, m.r[i[2]])
    [] i[1] = "popr"  -> [Shrunk(m) EXCEPT !.r[i[2]] = Popped(m)]
    [] i[1] = "imm"   -> [m EXCEPT !.r[i[2]] = ExecAll(@, i[3])]
    [] i[1] = "movrr" -> [m EXCEPT !.r[i[2]] = m.r[i[3]]]
    [] i[1] = "subrr" -> [m EXCEPT !.r[i[2]] = Long(@ - m.r[i[3]])]
    [] i[1] = "jmpr"  -> [m EXCEPT !.eip = m.r[i[2]]]
    [] i[1] = "ret"   -> [Shrunk(m) EXCEPT !.eip = Popped(m)]
    [] i[1] = "patch" -> [m EXCEPT !.patch = [at |-> m.r["EDX"],
                                              jump |-> Ins("jmp", m.r["EAX"], 5)]]
DoAll(m, code) ==
  LET run[k \in 0 .. Len(code)] == IF k = 0 THEN m ELSE Do(run[k - 1], code[k])
  IN  run[Len(code)]

Immediate(r, code) == <<"imm", r, code>>
Pop(n)   == Immediate("ESP", e_addri(FALSE, n))
Pushi(x) == <<"push", The[x]>>
e_leave  == << <<"movrr", "ESP", "EBP">>, <<"popr", "EBP">> >>

\* The place that the address of the return address is computed to be.
RtnpOfArgument ==                                                    \* mutant
  << <<"movrr", "EAX", "ESP">>, Immediate("EAX", e_subri(TRUE, 4)), <<"pushr", "EAX">> >>
e_calli_rtnp ==
  << <<"movrr", "EAX", "ESP">>, Immediate("EAX", e_subri(TRUE, 8)), <<"pushr", "EAX">> >>

-----------------------------------------------------------------------------
(* What is emitted.  Before is up to the call, After what follows it.       *)

co_enter ==
  << <<"pushr", "EBP">>, <<"movrr", "EBP", "ESP">>, <<"pushr", "EBX">>, <<"pushr", "ESI">>,
     <<"pushr", "EDI">>, Immediate("ESP", e_subri(FALSE, 12 + 16)) >>

co__postwrite == <<Pop(16), Pushi("znz"), Pushi("time"), Pushi("target")>> \o e_calli_rtnp

co_fltnoexPop16 == <<Pop(16), Pushi("znz"), Pushi("time")>> \o e_calli_rtnp  \* mutant
co_fltnoex == <<Pop(12), Pushi("znz"), Pushi("time")>> \o e_calli_rtnp

LoadguardSwapped ==                                                  \* mutant
  <<Pop(16), Pushi("znz"), Pushi("array"), Pushi("index")>> \o e_calli_rtnp
co_loadguard == <<Pop(16), Pushi("znz"), Pushi("index"), Pushi("array")>> \o e_calli_rtnp

co_load_0     == <<Pop(8), Pushi("znz"), Pushi("index")>>
co_load_0Then == << <<"jmpr", "EAX">> >>

\* The stub is itself called, from the place that it overwrites.
co_load_0c == <<Pushi("znz"), Pushi("block"), Pushi("index")>>
PatchEarly ==                                                        \* mutant
  << Pop(12), <<"popr", "EDX">>, Immediate("EDX", e_subri(FALSE, 5)), <<"subrr", "EAX", "EDX">>,
     <<"patch">>, <<"jmpr", "EDX">> >>
co_load_0cThen ==
  << Pop(12), <<"popr", "EDX">>, <<"subrr", "EAX", "EDX">>, Immediate("EDX", e_subri(FALSE, 5)),
     <<"patch">>, <<"jmpr", "EDX">> >>

co_alloc  == <<Pop(4), Pushi("length")>>
co_output == <<Pop(4), Pushi("char")>>

\* Of an inlined allocation, the call out of line.
Reload == << <<"pushr", "ECX">>, <<"pushr", "EDX">>, <<"pushr", "EAX">>, Pushi("length") >>
ReloadThen ==
  << <<"popr", "EAX">>, <<"popr", "EAX">>, <<"popr", "EDX">>, <<"popr", "ECX">> >>

co_badness == <<Pop(8), Pushi("time"), Pushi("format")>>

co_halt ==
  << Immediate("EAX", e_movri(0)), Pop(12), <<"popr", "EDI">>, <<"popr", "ESI">>,
     <<"popr", "EBX">> >> \o e_leave \o << <<"ret">> >>

\* The function called, what it is passed, and the code on both sides.
Stub(fn, args, before, after) == [fn |-> fn, args |-> args, before |-> before, after |-> after]
Stubs ==
  [postwrite |-> Stub("um_postwrite", <<"rtnp", "target", "time", "znz">>, co__postwrite, <<>>),
   fltnoex   |-> Stub("um_destroy_and_go", <<"rtnp", "time", "znz">>, co_fltnoex, <<>>),
   loadguard |-> Stub("um_loadfar", <<"rtnp", "array", "index", "znz">>, co_loadguard, <<>>),
   load_0    |-> Stub("um_enter", <<"index", "znz">>, co_load_0, co_load_0Then),
   load_0c   |-> Stub("um_enterdep", <<"index", "block", "znz">>, co_load_0c, co_load_0cThen),
   alloc     |-> Stub("um_alloc", <<"length">>, co_alloc, <<>>),
   reload    |-> Stub("salloc_reload", <<"length">>, Reload, ReloadThen),
   output    |-> Stub("putchar", <<"char">>, co_output, <<>>),
   input     |-> Stub("getchar", <<>>, <<>>, <<>>),
   badness   |-> Stub("um_abend", <<"format", "time">>, co_badness, <<>>)]

-----------------------------------------------------------------------------
(* Calls *)

Parameter(m, k) == m.mem[m.r["ESP"] + 4 * k]

\* What a C function may leave: its parameters and the registers that are not saved
\* are its own.
Returned(m, s, to) ==
  LET n    == Len(Stubs[s].args)
      sp   == m.r["ESP"]
      told == IF to # 0 /\ Stubs[s].args[1] = "rtnp"
              THEN [m EXCEPT !.mem[Parameter(m, 1)] = to] ELSE m
  IN  [told EXCEPT !.r["EAX"] = IF to # 0 THEN to ELSE The["result"],
                   !.r["ECX"] = The["junk"], !.r["EDX"] = The["junk"],
                   !.r["ESP"] = sp + 4,
                   !.eip = told.mem[sp],
                   !.mem = [a \in Stack |-> IF a \in sp + 4 .. sp + 4 * n THEN The["junk"]
                                            ELSE told.mem[a]]]

=============================================================================
