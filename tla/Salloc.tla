------------------------------- MODULE Salloc -------------------------------
(***************************************************************************)
(* The storage allocator of umx (salloc.c, salloc.h, um_alloc and um_free  *)
(* of rt.c) with the code that the compiler emits inline for allocation    *)
(* and freeing (co_alloc and co_free of i386/co.c).                        *)
(*                                                                         *)
(* Arrays are cut from the top of one window of free memory.  Freed ones   *)
(* are pushed on the list lastfree, or joined to its head.  When the       *)
(* window is too small it goes on that list too, and the next region of    *)
(* the list nextready becomes the window; when that list is empty it is    *)
(* made anew from lastfree, sorted and coalesced, or from fresh memory.    *)
(*                                                                         *)
(* The links of a list are kept in the first two words of its regions.     *)
(* Here a list is a sequence or, since nextready is always sorted, a set:  *)
(* that is sound while regions are two words or more and never overlap,    *)
(* which NoOverlap and HoldsLinks state.  Memory is counted in words.      *)
(***************************************************************************)
EXTENDS Regions, FiniteSets

CONSTANTS
  Slab,      \* words in a slab: SLAB, and SALL_BIG, which are equal
  GrowDiv,   \* how slowly the requests to malloc grow: 8 in get_more_ram
  Lens,      \* the array lengths the program asks for
  Inlined,   \* lengths up to this are allocated inline when known: 33 in co_alloc
  SubTwice,  \* the words e_subri subtracts twice: 32, or 128 bytes (0: none)
  Slots,     \* where malloc may place a slab: slot i is at i * (Slab + 1)
  MaxLive    \* bound of the model: arrays in use at a time

ASSUME SallocAssumption ==
  /\ Slab \in Nat /\ Slab >= 4 /\ Slab >= 2 * SubTwice
  /\ GrowDiv \in Nat \ {0}
  /\ Lens \subseteq Nat
  /\ Inlined \in Nat /\ SubTwice \in Nat /\ MaxLive \in Nat
  /\ Slots \subseteq Nat \ {0}
  /\ \E m \in Slots : \A i \in Slots : i <= m

VARIABLES
  chunks,      \* what malloc has returned; "used" is where what is used ends
  totalmem,    \* how much that is, in slabs
  nextready,   \* the regions to become the window
  lastfree,    \* the freed regions, most recent first
  win,         \* the window: from mbot to mtop
  live,        \* the arrays in use, each with its header word
  calls,       \* the calls of salloc in progress, innermost first
  panicked     \* malloc has failed

vars == <<chunks, totalmem, nextready, lastfree, win, live, calls, panicked>>

-----------------------------------------------------------------------------
(* malloc, of a number of slabs: anywhere, but never next to another chunk *)

Base(i)       == i * (Slab + 1)
Taken(i)      == \E c \in chunks : Base(i) \in c.lo .. c.hi
Room(k)       == {i \in Slots : \A j \in i .. i + k - 1 : j \in Slots /\ ~Taken(j)}
Chunk(i, k)   == Region(Base(i), Base(i) + k * Slab)
Grown(r, end) == chunks \cup {[lo |-> r.lo, hi |-> r.hi, used |-> end]}

\* No memory is left, or the system would not give it.
Panic ==
  /\ panicked' = TRUE
  /\ UNCHANGED <<chunks, totalmem, nextready, lastfree, win, live, calls>>

-----------------------------------------------------------------------------
(* Asking for an array *)

\* A call of salloc for len words, which takes "take" words from the window.
Call(len, take, prime) == [len |-> len, take |-> take, prime |-> prime]
Top == calls[1]

\* um_alloc never asks for less than one platter; the header word is added.
Len0(n) == (IF n = 0 THEN 1 ELSE n) + 1

\* Two words more than the array takes are required of the window, and kept.
Need(len) == len + 2

\* e_subri(r, 128) emits the subtraction twice.
InlineTake(len) == IF Need(len) = SubTwice THEN 2 * Need(len) ELSE Need(len)

Idle == calls = <<>> /\ ~panicked
May  == Idle /\ Cardinality(live) < MaxLive

Alloc ==
  /\ May
  /\ \E n \in Lens : calls' = <<Call(Len0(n), Need(Len0(n)), FALSE)>>
  /\ UNCHANGED <<chunks, totalmem, nextready, lastfree, win, live, panicked>>

\* The compiled form of an allocation of known, small length.
AllocInline ==
  /\ May
  /\ \E n \in Lens :
       /\ n <= Inlined
       /\ calls' = <<Call(Len0(n), InlineTake(Len0(n)), FALSE)>>
  /\ UNCHANGED <<chunks, totalmem, nextready, lastfree, win, live, panicked>>

-----------------------------------------------------------------------------
(* Giving it *)

Busy  == calls # <<>> /\ ~panicked
Big   == Top.len > Slab
FitsAlways == TRUE                                      \* mutant
FitsTight  == win.lo + Top.len <= win.hi                \* mutant
Fits  == win.lo + Top.take <= win.hi

\* prime_lastfree makes a free region of what it was given.
Give(a) ==
  /\ calls' = Tail(calls)
  /\ IF Top.prime
     THEN lastfree' = <<a>> \o lastfree /\ UNCHANGED live
     ELSE live' = live \cup {a} /\ UNCHANGED lastfree

NewTopHigh == win.hi - Top.take + 3                     \* mutant
NewTop == win.hi - Top.take + 2

Take ==
  /\ Busy /\ ~Big /\ Fits
  /\ win' = [win EXCEPT !.hi = NewTop]
  /\ Give(Region(NewTop, NewTop + Top.len))
  /\ UNCHANGED <<chunks, totalmem, nextready, panicked>>

\* salloc_special: whole slabs from malloc, of which the end is never used.
TakeSpecial ==
  /\ Busy /\ Big
  /\ LET k == (Top.len + Slab - 1) \div Slab
     IN  \/ \E i \in Room(k) :
              LET a == Region(Base(i), Base(i) + Top.len)
              IN  chunks' = Grown(Chunk(i, k), a.hi) /\ totalmem' = totalmem + k
                  /\ Give(a)
                  /\ UNCHANGED <<nextready, win, panicked>>
         \/ Panic

-----------------------------------------------------------------------------
(* salloc_reload *)

\* The window goes on the list, if it can hold the links of one.
KeptIfMore == IF Size(win) > 2 THEN <<win>> \o lastfree ELSE lastfree   \* mutant
Kept == IF Size(win) >= 2 THEN <<win>> \o lastfree ELSE lastfree

\* The next region becomes the window; if nothing is free then, prime_lastfree
\* asks salloc for two words to free.
Prime == Call(Len0(1), Need(Len0(1)), TRUE)

OpenUnprimed(ready, free) ==                            \* mutant
  /\ win' = Highest(ready)
  /\ nextready' = ready \ {Highest(ready)}
  /\ lastfree' = free
  /\ UNCHANGED <<live, calls, panicked>>
Open(ready, free) ==
  /\ win' = Highest(ready)
  /\ nextready' = ready \ {Highest(ready)}
  /\ lastfree' = free
  /\ calls' = IF free = <<>> THEN <<Prime>> \o calls ELSE calls
  /\ UNCHANGED <<live, panicked>>

Reload == Busy /\ ~Big /\ ~Fits

ReloadNext ==
  /\ Reload
  /\ nextready # {}
  /\ Open(nextready, Kept)
  /\ UNCHANGED <<chunks, totalmem>>

UsableTight == \E r \in ToSet(Kept) : Size(r) >= Top.len  \* mutant
Usable == \E r \in ToSet(Kept) : Size(r) >= Need(Top.len)

\* list_cycle
ReloadCycle ==
  /\ Reload
  /\ nextready = {}
  /\ Usable
  /\ Open(Runs(AllWords(ToSet(Kept))), <<>>)
  /\ UNCHANGED <<chunks, totalmem>>

\* get_more_ram
ReloadGrow ==
  /\ Reload
  /\ nextready = {}
  /\ ~Usable
  /\ LET k == totalmem \div GrowDiv + 1
     IN  \/ \E i \in Room(k) :
              /\ Open({Chunk(i, k)}, Kept)
              /\ chunks' = Grown(Chunk(i, k), Chunk(i, k).hi)
              /\ totalmem' = totalmem + k
         \/ Panic

-----------------------------------------------------------------------------
(* sfree, and the same inline (co_free) *)

JoinsBelow(a) == Head(lastfree).hi <= a.lo              \* mutant
Joins(a) == Head(lastfree).hi = a.lo

Free ==
  /\ Idle
  /\ \E a \in live :
       /\ live' = live \ {a}
       /\ lastfree' = IF Joins(a)
                      THEN <<Region(Head(lastfree).lo, a.hi)>> \o Tail(lastfree)
                      ELSE <<a>> \o lastfree
  /\ UNCHANGED <<chunks, totalmem, nextready, win, calls, panicked>>

-----------------------------------------------------------------------------

\* salloc_init: one slab, which the reload has made the window, and salloc has
\* been called by prime_lastfree.
Init ==
  /\ \E i \in Slots :
       /\ chunks = {[lo |-> Base(i), hi |-> Base(i) + Slab, used |-> Base(i) + Slab]}
       /\ win = Chunk(i, 1)
  /\ totalmem = 1
  /\ nextready = {}
  /\ lastfree = <<>>
  /\ live = {}
  /\ calls = <<Prime>>
  /\ panicked = FALSE

Reloads == ReloadNext \/ ReloadCycle \/ ReloadGrow
Next == Alloc \/ AllocInline \/ Free \/ Take \/ TakeSpecial \/ Reloads

\* A call of salloc runs until it returns; the program need not make one.
Spec == Init /\ [][Next]_vars
FairSpec == Spec /\ WF_vars(Take \/ TakeSpecial \/ Reloads)

-----------------------------------------------------------------------------
(* Properties *)

Addresses == UNION {c.lo .. c.hi - 1 : c \in chunks}
RegionsOf(S) == {r \in [lo : S, hi : {w + 1 : w \in S}] : r.lo < r.hi}

\* Types: every region lies within memory.
TypeOK ==
  /\ nextready \in SUBSET RegionsOf(Addresses)
  /\ lastfree \in Seq(RegionsOf(Addresses))
  /\ win \in RegionsOf(Addresses)
  /\ live \in SUBSET RegionsOf(Addresses)
  /\ totalmem \in Nat
  /\ calls \in Seq([len : Nat, take : Nat, prime : BOOLEAN])
  /\ panicked \in BOOLEAN

\* Who holds which memory: an array, the window, or the regions of the lists.
Pieces ==
  {<<"array", 0, a>> : a \in live} \cup {<<"ready", 0, r>> : r \in nextready}
  \cup {<<"free", i, lastfree[i]>> : i \in DOMAIN lastfree} \cup {<<"window", 0, win>>}

\* No word is in two places: two arrays never share memory, and the links of the
\* free lists are never in memory that is in use.
NoOverlap == \A p, q \in Pieces : p # q => Apart(p[3], q[3])

\* No word the allocator was given is lost to it, whatever list it is moved to.
NoLeak == \A c \in chunks : c.lo .. c.used - 1 \subseteq AllWords({p[3] : p \in Pieces})

\* Every free region can hold the two words that link it in a list.
HoldsLinks ==
  \A r \in nextready \cup ToSet(lastfree) \cup {win} : Size(r) >= 2

\* sfree and the code inlined for it read the head of lastfree without a test:
\* whenever the program runs there is one.  salloc, salloc_reload and prime_lastfree,
\* which sees to it, call each other; the call that prime_lastfree makes never leads
\* to another such call.
Primed ==
  /\ Idle => lastfree # <<>>
  /\ Len(calls) <= 2

\* The arrays of the program, to which the lists and the window do not matter.
Asked == IF calls = <<>> \/ Last(calls).prime THEN 0 ELSE Last(calls).len
Arrays == INSTANCE Heap WITH Addresses <- 0 .. Base(Max(Slots) + 1), asked <- Asked
ImplementsHeap == Arrays!Spec

\* A request for an array is met, unless the system is out of memory.
AllocReturns == Busy ~> ~Busy

=============================================================================
