------------------------------ MODULE GoSlices ------------------------------
(***************************************************************************)
(* Slices of Go: a slice is a window on an array that others may share.    *)
(* An append that fits the array writes into it, one that does not moves   *)
(* the elements to a new array.  The builders of queries and of DDL are    *)
(* values whose parts are slices.                                          *)
(***************************************************************************)
EXTENDS Integers, Sequences

\* The arrays of a program are a sequence, of which a slice names one; an
\* array is the sequence of its cells, as long as its capacity.
NilSlice == [arr |-> 0, len |-> 0]

Capacity(heap, s) == IF s.arr = 0 THEN 0 ELSE Len(heap[s.arr])

Elements(heap, s) == IF s.arr = 0 THEN <<>> ELSE SubSeq(heap[s.arr], 1, s.len)

\* Capacity after an append to an array that is too small: it is doubled
\* unless more is needed.  (Rounding up to a size class is left out.)
Grown(capacity, needed) == IF needed > 2 * capacity THEN needed ELSE 2 * capacity

\* append(s, xs...), as the heap and the slice that result.
Appended(heap, s, xs) ==
  LET needed == s.len + Len(xs)
      cells  == Elements(heap, s) \o xs
      spare  == [i \in 1 .. Grown(Capacity(heap, s), needed) - needed |-> cells[needed]]
  IN  IF xs = <<>> THEN [heap |-> heap, slice |-> s]
      ELSE IF needed <= Capacity(heap, s)
      THEN [heap  |-> [heap EXCEPT ![s.arr] =
                         cells \o SubSeq(heap[s.arr], needed + 1, Len(heap[s.arr]))],
            slice |-> [s EXCEPT !.len = needed]]
      ELSE [heap  |-> Append(heap, cells \o spare),
            slice |-> [arr |-> Len(heap) + 1, len |-> needed]]

\* append([]T(nil), s...)
Copied(heap, s) == Appended(heap, NilSlice, Elements(heap, s))
=============================================================================
