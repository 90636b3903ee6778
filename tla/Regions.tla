------------------------------ MODULE Regions ------------------------------
(***************************************************************************)
(* Runs of words of memory, as the storage allocator of umx sees them      *)
(* (salloc.h, salloc.c).  An address is the number of a word.              *)
(***************************************************************************)
EXTENDS Naturals, Sequences, SequencesExt

\* The words from lo up to, but not including, hi (SAF_END).
Region(lo, hi) == [lo |-> lo, hi |-> hi]
Size(r)        == r.hi - r.lo
Words(r)       == r.lo .. r.hi - 1
Apart(r, s)    == r.hi <= s.lo \/ s.hi <= r.lo
AllWords(rs)   == UNION {Words(r) : r \in rs}

\* The words W as regions that begin wherever W does, and at the words C.
Cut(W, C) ==
  LET starts == {w \in W : w = 0 \/ w - 1 \notin W \/ w \in C}
      ends   == {w + 1 : w \in {v \in W : v + 1 \notin W \/ v + 1 \in C}}
  IN  {Region(lo, Min({hi \in ends : hi > lo})) : lo \in starts}

\* Maximal runs of the words W.  This is what sort_and_stuff makes of a list of
\* free regions: adjacent ones become one (FreeList shows that it does).
Runs(W) == Cut(W, {})

\* The first region of a list that is kept in descending order.
Highest(rs) == CHOOSE r \in rs : \A s \in rs : s.lo <= r.lo

=============================================================================
