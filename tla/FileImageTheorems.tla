-------------------------- MODULE FileImageTheorems -------------------------
(***************************************************************************)
(* Facts about writes at an offset, for every image and every cell.        *)
(***************************************************************************)
EXTENDS FileImage, SequenceTheorems, TLAPS

(* A write inside or at the end of a file gives a file again, and its size *)
(* is what SizeAfter says.                                                 *)
LEMMA WriteAtType ==
  ASSUME NEW S, NEW img \in Seq(S), NEW cells \in Seq(S), NEW p \in 0 .. Len(img)
  PROVE  /\ WriteAt(img, p, cells) \in Seq(S)
         /\ Len(WriteAt(img, p, cells)) = SizeAfter(Len(img), p, Len(cells))
<1> DEFINE n == SizeAfter(Len(img), p, Len(cells))
           w == WriteAt(img, p, cells)
<1>2. n \in Nat
  BY DEF SizeAfter
<1>3. w = [k \in 1 .. n |-> IF k > p /\ k <= p + Len(cells) THEN cells[k - p] ELSE img[k]]
  BY DEF WriteAt
<1>4. \A k \in 1 .. n : (IF k > p /\ k <= p + Len(cells) THEN cells[k - p] ELSE img[k]) \in S
  BY DEF SizeAfter
<1>5. w \in [1 .. n -> S]
  BY <1>3, <1>4
<1>6. w \in Seq(S)
  BY <1>2, <1>5
<1>7. Len(w) = n
  BY <1>2, <1>3, <1>6
<1> QED
  BY <1>6, <1>7

(* What a file holds after a write: the cells written, and around them     *)
(* what was there.                                                         *)
LEMMA WriteAtCell ==
  ASSUME NEW S, NEW img \in Seq(S), NEW cells \in Seq(S), NEW p \in 0 .. Len(img),
         NEW k \in 1 .. SizeAfter(Len(img), p, Len(cells))
  PROVE  WriteAt(img, p, cells)[k] =
           IF k > p /\ k <= p + Len(cells) THEN cells[k - p] ELSE img[k]
BY DEF WriteAt

(* Writing nothing changes nothing.                                        *)
LEMMA WriteAtNothing ==
  ASSUME NEW S, NEW img \in Seq(S), NEW p \in 0 .. Len(img)
  PROVE  WriteAt(img, p, << >>) = img
<1>1. << >> \in Seq(S) /\ Len(<< >>) = 0
  OBVIOUS
<1>2. SizeAfter(Len(img), p, 0) = Len(img)
  BY DEF SizeAfter
<1>3. WriteAt(img, p, << >>) \in Seq(S) /\ Len(WriteAt(img, p, << >>)) = Len(img)
  BY <1>1, <1>2, WriteAtType
<1>4. \A k \in 1 .. Len(img) : WriteAt(img, p, << >>)[k] = img[k]
  BY <1>1, <1>2 DEF WriteAt
<1> QED
  BY <1>3, <1>4, SeqEqual

(* Two writes one after the other are one write of both.                   *)
LEMMA WriteAtConcat ==
  ASSUME NEW S, NEW img \in Seq(S), NEW p \in 0 .. Len(img),
         NEW a \in Seq(S), NEW b \in Seq(S)
  PROVE  WriteAt(WriteAt(img, p, a), p + Len(a), b) = WriteAt(img, p, a \o b)
<1> DEFINE w == WriteAt(img, p, a)
           u == WriteAt(w, p + Len(a), b)
           v == WriteAt(img, p, a \o b)
<1>1. w \in Seq(S) /\ Len(w) = SizeAfter(Len(img), p, Len(a))
  BY WriteAtType
<1>2. p + Len(a) \in 0 .. Len(w)
  BY <1>1 DEF SizeAfter
<1>3. u \in Seq(S) /\ Len(u) = SizeAfter(Len(w), p + Len(a), Len(b))
  BY <1>1, <1>2, WriteAtType
<1>4. a \o b \in Seq(S) /\ Len(a \o b) = Len(a) + Len(b)
  BY ConcatProperties
<1>5. v \in Seq(S) /\ Len(v) = SizeAfter(Len(img), p, Len(a) + Len(b))
  BY <1>4, WriteAtType
<1>6. Len(u) = Len(v)
  BY <1>1, <1>3, <1>5 DEF SizeAfter
<1>7. ASSUME NEW k \in 1 .. Len(v) PROVE u[k] = v[k]
  <2> DEFINE j == k - p
  <2>1. v[k] = IF k > p /\ k <= p + (Len(a) + Len(b)) THEN (a \o b)[j] ELSE img[k]
    BY <1>4, <1>5, WriteAtCell
  <2>2. u[k] = IF k > p + Len(a) /\ k <= p + Len(a) + Len(b)
               THEN b[k - (p + Len(a))] ELSE w[k]
    BY <1>1, <1>2, <1>3, <1>6, WriteAtCell
  <2>3. k \in 1 .. Len(w) =>
          w[k] = IF k > p /\ k <= p + Len(a) THEN a[j] ELSE img[k]
    BY <1>1, WriteAtCell
  <2>4. k \in 1 .. Len(w) \/ (k > p + Len(a) /\ k <= p + Len(a) + Len(b))
    BY <1>1, <1>5 DEF SizeAfter
  <2>5. j \in 1 .. Len(a) + Len(b) =>
          (a \o b)[j] = IF j <= Len(a) THEN a[j] ELSE b[j - Len(a)]
    BY ConcatProperties
  <2>6. CASE k > p + Len(a) /\ k <= p + Len(a) + Len(b)
    <3>1. j \in 1 .. Len(a) + Len(b) /\ ~(j <= Len(a)) /\ j - Len(a) = k - (p + Len(a))
      BY <2>6
    <3> QED
      BY <2>1, <2>2, <2>5, <2>6, <3>1
  <2>7. CASE k \in 1 .. Len(w) /\ ~(k > p + Len(a) /\ k <= p + Len(a) + Len(b))
    <3>1. k > p /\ k <= p + Len(a) => j \in 1 .. Len(a) + Len(b) /\ j <= Len(a)
      OBVIOUS
    <3>2. k > p /\ k <= p + (Len(a) + Len(b)) <=> k > p /\ k <= p + Len(a)
      BY <2>7
    <3> QED
      BY <2>1, <2>2, <2>3, <2>5, <2>7, <3>1, <3>2
  <2> QED
    BY <2>4, <2>6, <2>7
<1> QED
  BY <1>3, <1>5, <1>6, <1>7, SeqEqual

(* A sequence cut anywhere is its two parts.                               *)
LEMMA CutSeq ==
  ASSUME NEW S, NEW s \in Seq(S), NEW n \in 0 .. Len(s)
  PROVE  /\ SubSeq(s, 1, n) \in Seq(S) /\ Len(SubSeq(s, 1, n)) = n
         /\ SubSeq(s, n + 1, Len(s)) \in Seq(S)
         /\ Len(SubSeq(s, n + 1, Len(s))) = Len(s) - n
         /\ SubSeq(s, 1, n) \o SubSeq(s, n + 1, Len(s)) = s
<1>1. SubSeq(s, 1, n) \in Seq(S) /\ Len(SubSeq(s, 1, n)) = n
  OBVIOUS
<1>2. SubSeq(s, n + 1, Len(s)) \in Seq(S) /\ Len(SubSeq(s, n + 1, Len(s))) = Len(s) - n
  OBVIOUS
<1>3. SubSeq(s, 1, n) \o SubSeq(s, n + 1, Len(s)) = SubSeq(s, 1, Len(s))
  <2>1. 1 \in 1 .. Len(s) + 1 /\ n \in 1 - 1 .. Len(s) /\ Len(s) \in n .. Len(s)
    OBVIOUS
  <2> QED
    BY <2>1, ConcatAdjacentSubSeq
<1> QED
  BY <1>1, <1>2, <1>3, SubSeqFull

(* A write may be cut in two anywhere.                                     *)
LEMMA WriteAtCut ==
  ASSUME NEW S, NEW img \in Seq(S), NEW p \in 0 .. Len(img),
         NEW s \in Seq(S), NEW n \in 0 .. Len(s)
  PROVE  WriteAt(WriteAt(img, p, SubSeq(s, 1, n)), p + n, SubSeq(s, n + 1, Len(s)))
           = WriteAt(img, p, s)
<1>1. ASSUME NEW a \in Seq(S), NEW b \in Seq(S), Len(a) = n, a \o b = s
      PROVE  WriteAt(WriteAt(img, p, a), p + n, b) = WriteAt(img, p, s)
  <2>1. WriteAt(WriteAt(img, p, a), p + Len(a), b) = WriteAt(img, p, a \o b)
    BY WriteAtConcat
  <2> QED
    BY <1>1, <2>1
<1> QED
  BY <1>1, CutSeq

-----------------------------------------------------------------------------
(* The same for images whose cells are of no particular type.              *)
IsImage(s) == Len(s) \in Nat /\ s = [k \in 1 .. Len(s) |-> s[k]]
Cells(s) == {s[k] : k \in 1 .. Len(s)}

LEMMA ImageIsSeq ==
  ASSUME NEW s, IsImage(s), NEW S, Cells(s) \subseteq S
  PROVE  s \in Seq(S)
<1>1. s = [k \in 1 .. Len(s) |-> s[k]] /\ Len(s) \in Nat
  BY DEF IsImage
<1>2. \A k \in 1 .. Len(s) : s[k] \in S
  BY DEF Cells
<1>3. [k \in 1 .. Len(s) |-> s[k]] \in [1 .. Len(s) -> S]
  BY <1>2
<1>4. s \in [1 .. Len(s) -> S]
  BY <1>1, <1>3
<1> QED
  BY <1>1, <1>4, SeqDef

LEMMA SeqIsImage ==
  ASSUME NEW S, NEW s \in Seq(S)
  PROVE  IsImage(s)
BY LenProperties DEF IsImage

LEMMA WriteImage ==
  ASSUME NEW img, IsImage(img), NEW cells, IsImage(cells), NEW p \in 0 .. Len(img)
  PROVE  /\ IsImage(WriteAt(img, p, cells))
         /\ Len(WriteAt(img, p, cells)) = SizeAfter(Len(img), p, Len(cells))
         /\ \A k \in 1 .. SizeAfter(Len(img), p, Len(cells)) :
              WriteAt(img, p, cells)[k] =
                IF k > p /\ k <= p + Len(cells) THEN cells[k - p] ELSE img[k]
<1> DEFINE S == Cells(img) \cup Cells(cells)
<1>1. img \in Seq(S) /\ cells \in Seq(S)
  BY ImageIsSeq
<1> HIDE DEF S
<1>2. /\ WriteAt(img, p, cells) \in Seq(S)
      /\ Len(WriteAt(img, p, cells)) = SizeAfter(Len(img), p, Len(cells))
  BY <1>1, WriteAtType
<1>3. \A k \in 1 .. SizeAfter(Len(img), p, Len(cells)) :
        WriteAt(img, p, cells)[k] =
          IF k > p /\ k <= p + Len(cells) THEN cells[k - p] ELSE img[k]
  BY DEF WriteAt
<1>4. IsImage(WriteAt(img, p, cells))
  BY <1>2, SeqIsImage
<1> QED
  BY <1>2, <1>3, <1>4
=============================================================================
