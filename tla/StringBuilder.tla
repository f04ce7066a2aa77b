----------------------------- MODULE StringBuilder -----------------------------
(***************************************************************************)
(* cifar-server/stringbuilder.c as operators on the value of a builder.    *)
(* Data is the allocation, cell by cell: its domain is 0 .. n-1 after an   *)
(* allocation of n.  What is appended is a sequence of cells; a cell       *)
(* stands for a piece of text.                                             *)
(***************************************************************************)
EXTENDS Integers, Sequences, SequencesExt, FiniteSetsExt, Powers

CONSTANTS
  INITIAL_CAPACITY,
  NUL,               \* the terminator
  Junk               \* memory nobody has written

ASSUME BuilderAssumption == INITIAL_CAPACITY \in Nat /\ NUL # Junk

--------------------------------------------------------------------------------
(* The C library: a block of memory grows keeping what it holds; memcpy    *)
(* writes s at a place; vsnprintf writes as much of s as leaves room for   *)
(* the terminator in size cells.                                           *)

Realloc(data, n) ==
  [i \in 0 .. n - 1 |-> IF i \in DOMAIN data THEN data[i] ELSE Junk]

Memcpy(data, at, s) ==
  [i \in DOMAIN data |-> IF i - at + 1 \in DOMAIN s THEN s[i - at + 1] ELSE data[i]]

Vsnprintf(data, at, size, s) ==
  Memcpy(data, at, Append(SubSeq(s, 1, Min({Len(s), size - 1})), NUL))

--------------------------------------------------------------------------------

\* The capacity is doubled until the need and a terminator fit.
NewCapacityZ(capacity, needed) ==
  Min({z \in {(capacity + 1) * Power(2, k) : k \in 1 .. needed + 1} : z >= needed + 1})

AllocateFreeSpace(sb, needed) ==
  IF needed <= sb.Capacity_ THEN sb
  ELSE LET z == NewCapacityZ(sb.Capacity_, needed)
       IN  [sb EXCEPT !.Data = Realloc(@, z), !.Capacity_ = z - 1]

EnsureNullTerminated(sb) == [sb EXCEPT !.Data = Memcpy(@, sb.Length, <<NUL>>)]

NewBuilder ==
  EnsureNullTerminated([Data |-> [i \in 0 .. INITIAL_CAPACITY |-> Junk],
                        Length |-> 0, Capacity_ |-> INITIAL_CAPACITY])

AppendBuf(sb, s) ==
  LET room == AllocateFreeSpace(sb, sb.Length + Len(s))
  IN  EnsureNullTerminated([room EXCEPT !.Data = Memcpy(@, sb.Length, s),
                                        !.Length = @ + Len(s)])

FreeSpace(sb) == sb.Capacity_ - sb.Length

\* The length moves only when all of s has been written.
VsprintfImpl(sb, s) ==
  [sb EXCEPT !.Data = Vsnprintf(@, sb.Length, FreeSpace(sb) + 1, s),
             !.Length = IF Len(s) <= FreeSpace(sb) THEN @ + Len(s) ELSE @]

\* Mutant: what did not fit is not written again.
SprintfOnce(sb, s) == VsprintfImpl(sb, s)

\* A text that does not fit is cut off, and written again when there is room.
Sprintf(sb, s) ==
  IF Len(s) <= FreeSpace(sb) THEN VsprintfImpl(sb, s)
  ELSE VsprintfImpl(AllocateFreeSpace(VsprintfImpl(sb, s), sb.Length + Len(s)), s)

SprintfCell(sb, cell) == Sprintf(sb, <<cell>>)

\* One Sprintf after another.
SprintfAll(sb, cells) == FoldLeft(SprintfCell, sb, cells)

Clear(sb) == EnsureNullTerminated([sb EXCEPT !.Length = 0])

--------------------------------------------------------------------------------

Text(sb) == [i \in 1 .. sb.Length |-> sb.Data[i - 1]]

\* The builder holds the text, terminated, inside its allocation.
Holds(sb, text) ==
  /\ DOMAIN sb.Data = 0 .. sb.Capacity_
  /\ sb.Length = Len(text)
  /\ sb.Length <= sb.Capacity_
  /\ Text(sb) = text
  /\ sb.Data[sb.Length] = NUL
================================================================================
