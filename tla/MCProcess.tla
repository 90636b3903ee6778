----------------------------- MODULE MCProcess -----------------------------
(***************************************************************************)
(* Values of the constants of Process for model checking: everything that  *)
(* is emitted is as long as a jump, so that segments fill up to the same   *)
(* few places.                                                             *)
(***************************************************************************)
EXTENDS Process

\* Two segments below the stack, and one above it.
ThreeBases == {64, 104, 1200}

\* What is passed and held is told apart.
Named(list) == [name \in Names |-> 1000 + CHOOSE k \in DOMAIN list : list[k] = name]
TheValues ==
  Named(<<"znz", "time", "target", "array", "index", "block", "length", "char", "format",
          "umc_start", "junk", "result", "EAX", "ECX", "EDX", "EBX", "EBP", "ESI", "EDI">>)

AJump    == {LinkLen}
NoneOrAJump == {0, LinkLen}

\* With room for what the bytes of the last two would wrap to.
Files    == {6, 17, 1032}
OneArray == {5}

=============================================================================
