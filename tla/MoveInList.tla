----------------------------- MODULE MoveInList -----------------------------
(***************************************************************************)
(* The list arithmetic of the schema editor: slices, and the move of one   *)
(* element within its list.  Positions are JavaScript's, from 0.           *)
(***************************************************************************)
EXTENDS Naturals, Sequences

\* list.slice(from, to): bounds beyond the end are cut.
Slice(list, from, to) ==
  SubSeq(list, from + 1, IF to < Len(list) THEN to ELSE Len(list))

Including(list, index, x) ==
  Slice(list, 0, index) \o <<x>> \o Slice(list, index, Len(list))

Without(list, index) == Slice(list, 0, index) \o Slice(list, index + 1, Len(list))

moveInList(list, originIndex, destinationIndex) ==
  IF originIndex < destinationIndex
  THEN Slice(list, 0, originIndex)
       \o Slice(list, originIndex + 1, destinationIndex + 1)
       \o <<list[originIndex + 1]>>
       \o Slice(list, destinationIndex + 1, Len(list))
  ELSE Slice(list, 0, destinationIndex)
       \o <<list[originIndex + 1]>>
       \o Slice(list, destinationIndex, originIndex)
       \o Slice(list, originIndex + 1, Len(list))
=============================================================================
