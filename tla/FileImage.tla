----------------------------- MODULE FileImage -----------------------------
(***************************************************************************)
(* The contents of a file as a sequence of cells, and what one write at an *)
(* offset does to it.  Offsets count from 0, as in the code; the cell at   *)
(* offset o is element o + 1 of the sequence.                              *)
(***************************************************************************)
EXTENDS Integers, Sequences

(* The size of an image of size n after a write of m cells at offset p.    *)
SizeAfter(n, p, m) == IF n > p + m THEN n ELSE p + m

(* os.File.Write at offset p: overwrite in place, extend past the end.     *)
WriteAt(img, p, cells) ==
  [k \in 1 .. SizeAfter(Len(img), p, Len(cells)) |->
     IF k > p /\ k <= p + Len(cells) THEN cells[k - p] ELSE img[k]]

(* A write beyond the end leaves a hole, which reads as zeros.             *)
StretchTo(img, n, zero) ==
  [k \in 1 .. SizeAfter(Len(img), n, 0) |-> IF k <= Len(img) THEN img[k] ELSE zero]
=============================================================================
