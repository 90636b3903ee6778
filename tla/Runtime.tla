------------------------------ MODULE Runtime ------------------------------
(***************************************************************************)
(* The memory of array 0 (rt.c: um_ipl, um_progalloc, um_newprog) and of   *)
(* the bitmaps made to fit it (crt.c: um_crti).  Byte counts are words of  *)
(* WordBits bits, as size_t is in a 32-bit process, and wrap; the address  *)
(* space a process has left for these mappings is smaller than that.       *)
(***************************************************************************)
EXTENDS Words, Sequences

CONSTANTS
  PageSize,   \* in bytes
  Space,      \* the bytes that can be mapped at once
  BitWord,    \* the bits of a word of a bitmap
  FileLens,   \* the lengths of program files, in bytes
  MaxFiles,   \* how many there are
  ArrayLens   \* the lengths of arrays that are loaded, in platters

\* That Modulus, a power of 2, is a number is said for the prover.
ASSUME RuntimeAssumption ==
  /\ Modulus \in Nat \ {0}
  /\ PageSize \in Nat \ {0} /\ BitWord \in Nat \ {0}
  /\ Space \in 0 .. Modulus - PageSize
  /\ FileLens \subseteq Nat /\ ArrayLens \subseteq Nat /\ MaxFiles \in Nat

VARIABLES
  es,     \* the program files that um_ipl has mapped, as lengths
  prog,   \* array 0: proglen, the bytes mapped for it, the platters put there
  lost,   \* bytes that stay mapped but are not known of any more
  bits    \* the words of prognowr and of prognoex

rtvars == <<es, prog, lost, bits>>

NoProg == [len |-> 0, bytes |-> 0, data |-> <<>>]

-----------------------------------------------------------------------------
vm_roundup(n) == PageSize * (((n + PageSize - 1) % Modulus) \div PageSize)

Mappings(files) == [k \in DOMAIN files |-> vm_roundup(files[k])]
Used == prog.bytes + lost + Total(Mappings(es))

\* mmap fails for no bytes, and if there is no room.
Mappable(bytes) == bytes > 0 /\ Used + bytes <= Space

\* The platters of a file; what is left over is dropped.
Whole(len) == len \div 4
Wholes(files) == [k \in DOMAIN files |-> Whole(files[k])]

um_progalloc(n, data) ==
  LET bytes == vm_roundup((4 * n) % Modulus)
  IN  Mappable(bytes) /\ prog' = [len |-> n, bytes |-> bytes, data |-> data]

-----------------------------------------------------------------------------
(* um_ipl *)

MapFile ==
  /\ prog = NoProg
  /\ Len(es) < MaxFiles
  /\ \E len \in FileLens : Mappable(vm_roundup(len)) /\ es' = Append(es, len)
  /\ UNCHANGED <<prog, lost, bits>>

AllocProgram ==
  LET stuff == Total(Wholes(es))
  IN  /\ prog = NoProg
      /\ stuff \in 1 .. Modulus
      /\ um_progalloc(stuff % Modulus, <<>>)
      /\ UNCHANGED <<es, lost, bits>>

\* Each file in turn is copied and unmapped, but for a last page that has no more
\* than a part of a platter.  A platter is known by its file and its place there.
PlattersRoundedUp(left, len) == [k \in 1 .. (len + 3) \div 4 |-> <<left, k>>]  \* mutant
Platters(left, len) == [k \in 1 .. Whole(len) |-> <<left, k>>]
CopyFile ==
  /\ prog # NoProg
  /\ es # <<>>
  /\ prog' = [prog EXCEPT !.data = @ \o Platters(Len(es), Head(es))]
  /\ lost' = lost + vm_roundup(Head(es)) - vm_roundup(4 * Whole(Head(es)))
  /\ es' = Tail(es)
  /\ UNCHANGED bits

Booted == prog # NoProg /\ es = <<>>

-----------------------------------------------------------------------------
(* The world *)

BitmapRoundedDown(n) == n \div BitWord                               \* mutant
BitmapWords(n) == (n + BitWord - 1) \div BitWord

\* um_crti, of the memory here.
MakeBitmaps(n) == bits' = BitmapWords(n)

\* um_newprog.  The old program is not unmapped: um_pdatmlen is never set.  The
\* array has platters of its own, and stays.
um_newprog ==
  /\ \E np \in ArrayLens : um_progalloc(np, Platters(0, 4 * np))
  /\ lost' = lost + prog.bytes
  /\ UNCHANGED es

RtInit == es = <<>> /\ prog = NoProg /\ lost = 0 /\ bits = 0

-----------------------------------------------------------------------------
(* Properties *)

\* What is written to array 0 is written where memory was mapped for it, although
\* neither the number of platters nor that of their bytes is checked for overflow;
\* and when the program runs, array 0 has as many platters as were put there: all
\* whole platters of the files, or all of the array loaded.
ArrayZeroWhole ==
  /\ 4 * Len(prog.data) <= prog.bytes
  /\ Booted => prog.len = Len(prog.data)

=============================================================================
