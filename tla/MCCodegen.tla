----------------------------- MODULE MCCodegen -----------------------------
(***************************************************************************)
(* Values of the constants of Codegen for model checking: as few mregs as  *)
(* the code can do with, in their order of preference in emit.h.           *)
(***************************************************************************)
EXTENDS Codegen

ThreeRegs == <<"EBX", "EAX", "EDX">>

Inside   == {"add", "div", "ortho", "cmov", "load"}
Outside  == {"mul", "nand", "index", "amend", "alloc", "io", "halt", "ortho", "load", "noex"}
Pressure == {"cmov", "io"}
Hard     == {"index any", "amend any", "free", "div", "ortho"}

IndexAny == {"index any", "io"}
AmendAny == {"amend any", "io"}
Freeing  == {"free", "io"}

\* Nothing a step does depends on which platter came before it.
View == jit

Symmetry == Permutations(VRegs)

=============================================================================
