---------------------------- MODULE MCCodeCache ----------------------------
(***************************************************************************)
(* Values of the constants of CodeCache for model checking.                *)
(***************************************************************************)
EXTENDS CodeCache

\* A znz_t says of one register whether it is known to be zero.
OneFact == {"r0"}

\* Self-modifying code with computed jumps, a halt, and an end to run off; and
\* the idiom of a nand and its complement, in a program that does not write to
\* itself.
PlainInsns    == {"op", "amend", "load"}
RewriteImages == {<<"amend", "op", "load">>, <<"amend", "amend">>, <<"amend", "stop">>}
PlainImages   == RewriteImages \cup {<<"nand", "nand", "stop">>}

\* Self-modifying code with a jump to a constant place; and the idiom of a
\* conditional branch, in a program that does not write to itself.
LinkInsns  == {"op", "amend", "loadc"}
LinkImages == {<<"amend", "op", "loadc">>, <<"amend", "load">>, <<"amend", "stop">>,
               <<"cmov", "load">>}

\* A loop over a platter that an amendment turns into something else.
LoopInsns  == {"op"}
LoopImages == {<<"amend", "nand", "loadc">>}

\* What the two idioms look ahead at, after an amendment that may reach it.
NandImages   == {<<"amend", "nand", "nand", "load">>}
BranchImages == {<<"amend", "cmov", "load", "load">>}

=============================================================================
