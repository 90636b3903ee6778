------------------------------ MODULE MCSalloc ------------------------------
(***************************************************************************)
(* Values of the constants of Salloc for model checking: a slab of a few   *)
(* words, and requests at every boundary the code has.  With its header an *)
(* array of no platters takes the least there is; one of Slab - 1 takes a  *)
(* slab, which needs a window larger than that; one of Slab goes to malloc.*)
(***************************************************************************)
EXTENDS Salloc

Ends       == {0, Slab - 1, Slab}
Least      == {0}

FourSlots  == 1 .. 4
TwoSlots   == 1 .. 2

=============================================================================
