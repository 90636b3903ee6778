------------------------------ MODULE CodeSeg ------------------------------
(***************************************************************************)
(* Where umx puts the code it compiles (crt.c: newcod, getcod, nukecod;    *)
(* i386/co.c: umc_codlink).  Code goes to two chains of segments, g.inl    *)
(* and g.outl.  The compiler makes sure of room before each platter, but   *)
(* not before what it emits at the end of a block, so that the room asked  *)
(* for has to be enough for that too, and for the jump that getcod will    *)
(* write over whatever is left.                                            *)
(*                                                                         *)
(* mode is what the compiler may do next:                                  *)
(*   "off"      there are no chains yet                                    *)
(*   "entered"  begin a block, the first that umc_enter asked for          *)
(*   "more"     go on with a block that has a platter                      *)
(*   "fell"     begin a block that the last one falls through to           *)
(*   "idle"     nothing: compiled code runs, and can be compiled further   *)
(*   "doomed"   nothing: code that ends the world or the program runs      *)
(*   "ended", "aborted", "spinning"   the process is gone, or might be     *)
(***************************************************************************)
EXTENDS Naturals, Sequences

CONSTANTS
  Bases,       \* the addresses a segment can be mapped at
  COD_SEG,      \* how long it is
  Ahead,        \* the room getcod is asked for before a platter
  LinkLen,      \* the length of the jump that umc_codlink writes
  EnterLen,     \* the length of the code of co_enter
  PlatterLens,  \* the lengths of the code of a platter, in either chain
  FlushLens,    \* of ra_vflushall
  BadLens,      \* of co_badness and co_fltnoex
  MaxPlatter, MaxFlush, MaxBad   \* the greatest of each

ASSUME CodeSegAssumption ==
  /\ Bases \subseteq Nat
  /\ {COD_SEG, Ahead, LinkLen, EnterLen, MaxPlatter, MaxFlush, MaxBad} \subseteq Nat
  /\ PlatterLens \subseteq 0 .. MaxPlatter
  /\ FlushLens \subseteq 0 .. MaxFlush
  /\ BadLens \subseteq 0 .. MaxBad
  /\ MaxPlatter + MaxFlush + 2 * MaxBad + LinkLen <= Ahead
  /\ EnterLen + Ahead <= COD_SEG

VARIABLES
  cod,      \* g.inl and g.outl, struct cod
  mapped,   \* the bases of the segments that are mapped
  flow,     \* where control came from to the code emitted last, and where that is
  mode

segvars == <<cod, mapped, flow, mode>>

Chains == {"inl", "outl"}

\* A segment that is open has the older ones, latest first, as its cdr.  One that
\* is not ends in a link.
Open(b, next, cdr)    == [base |-> b, next |-> next, cdr |-> cdr]
Closed(b, next, link) == [base |-> b, next |-> next, link |-> link]

NoSegment == Open(0, 0, <<>>)

Room(s)    == s.base + COD_SEG - s.next
Advance(s, n) == [s EXCEPT !.next = @ + n]

-----------------------------------------------------------------------------
newcod(b) == Open(b, b, <<>>)

LinkBefore(s, b) ==                                                  \* mutant
  Open(b, b, <<Closed(s.base, s.next, b)>> \o s.cdr)
\* The old segment is given a jump to the new one at the place it had reached.
Grown(s, b) == Open(b, b, <<Closed(s.base, s.next + LinkLen, b)>> \o s.cdr)

RoomForLink(s) == Room(s) >= LinkLen                                 \* mutant
Roomy(s) == Room(s) >= Ahead

\* What getcod may make of a chain, the segments at used being taken.
ReuseBase(s, used) == IF Roomy(s) THEN {s} ELSE {Grown(s, b) : b \in Bases}   \* mutant
getcod(s, used) == IF Roomy(s) THEN {s} ELSE {Grown(s, b) : b \in Bases \ used}

\* nukecod of a chain of one segment unmaps it.  Of a longer one it frees g.inl or
\* g.outl, which were never allocated, and looks at the same segment again.
Short(s) == s.cdr = <<>>

-----------------------------------------------------------------------------
(* The compiler *)

Compiling == mode \in {"entered", "more", "fell"}

\* One turn of the loop of umc_mkblk.  What is out of line is jumped to from what is
\* in line.  The last platter of a block leaves the compiler idle.
CompilePlatter ==
  /\ Compiling
  /\ \E i \in getcod(cod.inl, mapped) : \E o \in getcod(cod.outl, mapped \cup {i.base}) :
     \E n, m \in PlatterLens :
       /\ m > 0 => n > 0
       /\ cod' = [inl |-> Advance(i, n), outl |-> Advance(o, m)]
       /\ mapped' = mapped \cup {i.base, o.base}
       /\ flow' = [from |-> cod.inl.next, to |-> i.next]
  /\ mode' \in {"more", "idle"}

\* The process is gone, and all it had mapped.
NoSegments ==
  /\ cod' = [c \in Chains |-> NoSegment]
  /\ mapped' = {}
  /\ flow' = [from |-> 0, to |-> 0]

\* newcod cannot map a segment: panic.
CompileNoMap ==
  /\ Compiling
  /\ ~ (Roomy(cod.inl) /\ Roomy(cod.outl))
  /\ mode' = "ended"
  /\ NoSegments

Inline(n) ==
  /\ cod' = [cod EXCEPT !.inl = Advance(@, n)]
  /\ flow' = [from |-> cod.inl.next, to |-> cod.inl.next]
  /\ UNCHANGED mapped

\* The program ends here, or the platter is execute-protected.  If nothing else
\* has been compiled, this is what runs next.  Only a block that has a platter has
\* registers to flush.
CompileBad ==
  /\ Compiling
  /\ \E f \in (IF mode = "more" THEN FlushLens ELSE {0}), n \in BadLens : Inline(f + n)
  /\ mode' = IF mode = "entered" THEN "doomed" ELSE "idle"

\* The block has reached UM_MAXBLK: the next one follows.
CompileFall ==
  /\ mode = "more"
  /\ \E f \in FlushLens : Inline(f)
  /\ mode' = "fell"

\* umc_enter, from the runtime.
Enter ==
  /\ mode = "idle"
  /\ mode' = "entered"
  /\ flow' = [from |-> cod.inl.next, to |-> cod.inl.next]
  /\ UNCHANGED <<cod, mapped>>

-----------------------------------------------------------------------------
(* The world *)

\* umc_init: newcod of both chains, when the segments at used are taken.
umc_init(used) ==
  \E i, o \in Bases \ used :
    /\ i # o
    /\ cod' = [inl |-> newcod(i), outl |-> newcod(o)]
    /\ mapped' = used \cup {i, o}
    /\ flow' = [from |-> i, to |-> i]

\* main: um_crti, then umc_start.  The first block follows the code of co_enter.
Start ==
  /\ mode = "off"
  /\ \E i, o \in Bases \ mapped :
       /\ i # o
       /\ cod' = [inl |-> Advance(newcod(i), EnterLen), outl |-> newcod(o)]
       /\ mapped' = mapped \cup {i, o}
       /\ flow' = [from |-> i, to |-> i]
  /\ mode' = "entered"

\* um_crtf and um_crti.  Whoever destroys a world compiles in the next.
KeepOutl == {cod.inl.base}                                           \* mutant
Bounced == {cod.inl.base, cod.outl.base}
Renew ==
  /\ mode \in {"idle", "doomed"}
  /\ Short(cod.inl) /\ Short(cod.outl)
  /\ umc_init(mapped \ Bounced)
  /\ mode' = "entered"

\* The same, when a chain has grown: freeing what was not allocated may end the
\* process, or else the loop goes on for ever.
Botch ==
  /\ mode \in {"idle", "doomed"}
  /\ ~ (Short(cod.inl) /\ Short(cod.outl))
  /\ mode' \in {"aborted", "spinning"}
  /\ mapped' = mapped \ (IF Short(cod.inl) THEN Bounced ELSE {cod.inl.base})
  /\ UNCHANGED <<cod, flow>>

\* The process ends: a failed mapping, an abend, a halt.
End ==
  /\ mode \in {"off", "idle", "doomed"}
  /\ mode' = "ended"
  /\ NoSegments

-----------------------------------------------------------------------------
SegInit ==
  /\ cod = [c \in Chains |-> NoSegment]
  /\ mapped = {}
  /\ flow = [from |-> 0, to |-> 0]
  /\ mode = "off"

SegNext ==
  \/ CompilePlatter \/ CompileNoMap \/ CompileBad \/ CompileFall
  \/ Enter \/ Start \/ Renew \/ Botch \/ End

SegSpec == SegInit /\ [][SegNext]_segvars

-----------------------------------------------------------------------------
(* Properties *)

Up   == {"entered", "more", "fell", "idle", "doomed"}
Dead == {"ended", "aborted", "spinning"}

\* No code, and no link, is written past the end of the segment it belongs to.
NeverOverruns ==
  mode \in Up =>
    \A c \in Chains :
      /\ cod[c].next <= cod[c].base + COD_SEG
      /\ \A k \in DOMAIN cod[c].cdr :
           cod[c].cdr[k].next <= cod[c].cdr[k].base + COD_SEG

\* Control gets to the code of each platter from that of the one before, and to the
\* first of a block from the place recorded as the block's, although the segment
\* may have changed in between: it is the same place, or a link there leads to it.
FlowsOn ==
  mode \in Up =>
    \/ flow.from = flow.to
    \/ \E k \in DOMAIN cod.inl.cdr :
         /\ cod.inl.cdr[k].next = flow.from + LinkLen
         /\ cod.inl.cdr[k].link = flow.to

\* The bases of a chain.
Held(s) == {s.base} \cup {s.cdr[k].base : k \in DOMAIN s.cdr}

\* While the process lives, what is mapped is what the two chains hold, and they
\* hold no segment twice: nothing is written over code, no code is lost.
SegmentsHeld ==
  mode \in Up =>
    /\ mapped = Held(cod.inl) \cup Held(cod.outl)
    /\ Held(cod.inl) \cap Held(cod.outl) = {}
    /\ \A c \in Chains : \A j, k \in DOMAIN cod[c].cdr :
         /\ cod[c].cdr[k].base # cod[c].base
         /\ cod[c].cdr[j].base = cod[c].cdr[k].base => j = k

=============================================================================
