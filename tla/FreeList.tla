------------------------------ MODULE FreeList ------------------------------
(***************************************************************************)
(* list_cycle of salloc.c, with the merge sort it calls: the free regions  *)
(* of the list lastfree become the list nextready, in descending order and *)
(* with neighbours joined.  The sort works in place on the links that lie  *)
(* in the first two words of each region, as here.                         *)
(***************************************************************************)
EXTENDS Regions

CONSTANT Memory      \* the last word of memory

ASSUME FreeListAssumption == Memory \in Nat \ {0}

VARIABLES
  mem,         \* the links: SAF_END and SAF_NXT of the region that begins there
  lastfree,    \* the first region of a list, or 0
  nextready,
  given        \* the free regions, as a list, when list_cycle is called

vars == <<mem, lastfree, nextready, given>>

\* A place that holds the first region of a list: the field SAF_NXT of a region,
\* or the variable rv of merge_and_stuff, which is kept as the region 0.
SetEnd(m, r, end) == [m EXCEPT ![r].end = end]
SetNxt(m, r, nxt) == [m EXCEPT ![r].nxt = nxt]

-----------------------------------------------------------------------------
(* merge_and_stuff *)

RECURSIVE MergeFrom(_, _, _, _)
MergeOneWay(m, cdr, la, lb) ==                                       \* mutant
  CASE la = 0 -> SetNxt(m, cdr, lb)
    [] la # 0 /\ lb = 0 -> SetNxt(m, cdr, la)
    [] la # 0 /\ lb # 0 ->
       IF m[la].end = lb
       THEN MergeFrom(SetEnd(m, la, m[lb].end), cdr, la, m[lb].nxt)
       ELSE IF la > lb
       THEN MergeFrom(SetNxt(m, cdr, la), la, m[la].nxt, lb)
       ELSE MergeFrom(SetNxt(m, cdr, lb), lb, la, m[lb].nxt)
MergeFrom(m, cdr, la, lb) ==
  CASE la = 0 -> SetNxt(m, cdr, lb)
    [] la # 0 /\ lb = 0 -> SetNxt(m, cdr, la)
    [] la # 0 /\ lb # 0 ->
       IF m[la].end = lb
       THEN MergeFrom(SetEnd(m, la, m[lb].end), cdr, la, m[lb].nxt)
       ELSE IF m[lb].end = la
       THEN MergeFrom(SetEnd(m, lb, m[la].end), cdr, m[la].nxt, lb)
       ELSE IF la > lb
       THEN MergeFrom(SetNxt(m, cdr, la), la, m[la].nxt, lb)
       ELSE MergeFrom(SetNxt(m, cdr, lb), lb, la, m[lb].nxt)

\* Two sorted lists, merged from the links m; mem[0].nxt is the result.
Merge(m, la, lb) == MergeFrom(m, 0, la, lb)

-----------------------------------------------------------------------------
(* sort_and_stuff *)

\* The tortoise and the hare: the region before the middle of the list, or 0 if
\* the list is not worth splitting.
RECURSIVE MiddleFrom(_, _, _, _)
MiddleFrom(m, before, tort, hare) ==
  IF hare = 0 \/ m[hare].nxt = 0 THEN before
  ELSE MiddleFrom(m, tort, m[tort].nxt, m[m[hare].nxt].nxt)

Middle(m, lst) == MiddleFrom(m, 0, lst, lst)

\* The first half is cut off from the second.
Split(m, before)      == SetNxt(m, before, 0)

\* The links after sorting lst, whose first region is then mem[0].nxt.
RECURSIVE Sort(_, _)
Sort(m, lst) ==
  LET before == Middle(m, lst)
  IN  IF before = 0 THEN SetNxt(m, 0, lst)
      ELSE LET tort == m[before].nxt
               first == Sort(Split(m, before), lst)
               second == Sort(first, tort)
           IN  Merge(second, first[0].nxt, second[0].nxt)

-----------------------------------------------------------------------------

\* Any list of free regions of two words or more, none of which overlap.
FreeSets ==
  LET cuts == UNION {{Cut(W, C) : C \in SUBSET W} : W \in SUBSET (1 .. Memory)}
  IN  {rs \in cuts : \A r \in rs : Size(r) >= 2}
Linked(list) ==
  [a \in 0 .. Memory |->
     IF \E i \in DOMAIN list : list[i].lo = a
     THEN LET i == CHOOSE i \in DOMAIN list : list[i].lo = a
          IN  [end |-> list[i].hi, nxt |-> IF i = Len(list) THEN 0 ELSE list[i + 1].lo]
     ELSE [end |-> 0, nxt |-> 0]]

Init ==
  /\ \E rs \in FreeSets \ {{}} : given \in SetToSeqs(rs)
  /\ mem = Linked(given)
  /\ lastfree = given[1].lo
  /\ nextready = 0

ListCycle ==
  /\ lastfree # 0
  /\ mem' = Sort(mem, lastfree)
  /\ nextready' = mem'[0].nxt
  /\ lastfree' = 0
  /\ UNCHANGED given

Next == ListCycle

Spec == Init /\ [][Next]_vars

-----------------------------------------------------------------------------
(* Properties *)

\* A list, as its links give it.
RECURSIVE ListFrom(_)
ListFrom(r) == IF r = 0 THEN <<>> ELSE <<Region(r, mem[r].end)>> \o ListFrom(mem[r].nxt)

\* Whatever the order of the free regions, list_cycle leaves a list of all free
\* words and no others, in descending order, with no two neighbours left apart.
CycleSorts ==
  nextready # 0 =>
    LET list == ListFrom(nextready)
    IN  /\ ToSet(list) = Runs(AllWords(ToSet(given)))
        /\ \A i \in 1 .. Len(list) - 1 : list[i].lo > list[i + 1].lo

=============================================================================
