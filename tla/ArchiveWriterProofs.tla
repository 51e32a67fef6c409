------------------------- MODULE ArchiveWriterProofs ------------------------
(***************************************************************************)
(* ArchiveWriter for any number of files of any size, any blocks and any   *)
(* number of retries and changes: its types, the agreement of computed and *)
(* real position, and that no archived file is ever torn or overwritten.   *)
(***************************************************************************)
EXTENDS ArchiveWriter, FileImageTheorems

-----------------------------------------------------------------------------
(* The inductive invariant.                                                *)

Reading == pc \in {"read", "stat"}
Started == pc \notin {"start", "stopped"}
Writing == pc \in {"next", "open", "read", "stat"}

(* Everything below the edge belongs to entries already kept; until the    *)
(* final header the program writes at or above it.                         *)
Edge == IF Reading THEN startOffset ELSE cOffset

(* The file at hand has not been touched since its first Stat.             *)
Unchanged == path[cur] = statStart

(* Versions are numbered by the clock, so that a file that was changed     *)
(* never looks unchanged again.                                            *)
Versioned ==
  /\ \A i \in Entries : path[i].ver <= clock
  /\ Reading => /\ cur \in Regular
                /\ statStart # Missing
                /\ statStart.ver <= clock
                /\ Unchanged => linked /\ inode = statStart

(* Where the program writes.                                               *)
Positioned ==
  /\ IsImage(out) /\ pos <= Len(out)
  /\ pc = "start" => kept = << >> /\ pos = 0
  /\ Started => HeaderLen <= Edge /\ Edge <= Len(out)
  /\ pc \in {"next", "open"} => pos = cOffset
  /\ pc = "open" => cur \in Regular
  /\ Reading =>
       /\ pos = IF NoCompress THEN startOffset + SumLen + rpos ELSE cOffset
       /\ startOffset + SumLen <= pos
       /\ NoCompress /\ pc = "read" => cOffset = startOffset + SumLen
       /\ NoCompress /\ pc = "stat" => cOffset = startOffset + SumLen + statStart.size
  /\ pc = "close" => pos <= HeaderLen /\ Len(kept) = N

(* Blocks between two offsets of the archive.                              *)
Within(bs, from, to) ==
  \A k \in 1 .. Len(bs) : from <= bs[k].off /\ bs[k].off + bs[k].size <= to

(* The kept entries lie between the header and the edge.                   *)
KeptBelow ==
  Started => \A j \in 1 .. Len(kept) :
               kept[j].id \in Regular => Within(kept[j].blocks, HeaderLen + SumLen, Edge)

(* The attempt at hand, as long as its file is unchanged: what has been    *)
(* hashed and written is the file's content up to the read position.       *)
Source == Content(cur, statStart)
SoFar ==
  Reading /\ Unchanged =>
    /\ rpos <= statStart.size
    /\ pc = "stat" => rpos = statStart.size
    /\ Checksums => hashed = [k \in 1 .. rpos |-> Source[k]]
    /\ ~NoCompress =>
         /\ pc = "read" => rpos = Len(blocks) * BlockSize
         /\ Within(blocks, startOffset + SumLen, cOffset)
         /\ blocks = << >> => cOffset = startOffset + SumLen
         /\ blocks # << >> => blocks[1].off = startOffset + SumLen
         /\ \A k \in 1 .. Len(blocks) : BlockHolds(out, blocks[k], Part(Source, k))
         /\ pc = "stat" => BlocksHold(out, blocks, Source)
    /\ NoCompress =>
         /\ \A k \in 1 .. rpos : out[startOffset + SumLen + k] = DataCell(<<Source[k]>>, 1, 1)
         /\ pc = "stat" => blocks = <<[off |-> startOffset + SumLen, size |-> statStart.size]>>

IInv == TypeOK /\ Versioned /\ Positioned /\ KeptBelow /\ SoFar /\ KeptIntact

-----------------------------------------------------------------------------
(* The shapes of what is written.                                          *)
LEMMA SumLenType == SumLen \in {0, 1} /\ (Checksums => SumLen = 1) /\ (~Checksums => SumLen = 0)
BY DEF SumLen

LEMMA OneCell == ASSUME NEW c PROVE IsImage(<<c>>) /\ Len(<<c>>) = 1 /\ <<c>>[1] = c
<1>1. <<c>> \in Seq({c})
  OBVIOUS
<1> QED
  BY <1>1, SeqIsImage

LEMMA NoCell == IsImage(<< >>) /\ Len(<< >>) = 0
<1>1. << >> \in Seq({})
  OBVIOUS
<1> QED
  BY <1>1, SeqIsImage

LEMMA SummedImage ==
  ASSUME NEW s, IsImage(s)
  PROVE  IsImage(Summed(s)) /\ Len(Summed(s)) = Len(s) + 1
<1> DEFINE S == Cells(s) \cup {SumCell(s)}
<1>1. s \in Seq(S) /\ SumCell(s) \in S
  BY ImageIsSeq
<1> HIDE DEF S
<1>2. Append(s, SumCell(s)) \in Seq(S) /\ Len(Append(s, SumCell(s))) = Len(s) + 1
  BY <1>1, AppendProperties
<1> QED
  BY <1>2, SeqIsImage DEF Summed

LEMMA HeaderImage ==
  ASSUME NEW es, IsImage(es), NEW t, NEW n
  PROVE  IsImage(Header(es, t, n)) /\ Len(Header(es, t, n)) = Len(es) + 2
<1> DEFINE body == [i \in 1 .. Len(es) |-> EntryCell(es[i])]
           fixed == FixedCell(t, n, Len(es))
           S == {EntryCell(es[i]) : i \in 1 .. Len(es)} \cup {fixed}
<1>1. Len(es) \in Nat
  BY DEF IsImage
<1>2. body \in [1 .. Len(es) -> S]
  OBVIOUS
<1>3. body \in Seq(S)
  BY <1>1, <1>2, SeqDef
<1>4. Len(body) = Len(es)
  BY <1>1, <1>3, LenProperties
<1>5. <<fixed>> \in Seq(S) /\ Len(<<fixed>>) = 1
  OBVIOUS
<1> HIDE DEF S, body, fixed
<1>6. <<fixed>> \o body \in Seq(S) /\ Len(<<fixed>> \o body) = 1 + Len(es)
  BY <1>3, <1>4, <1>5, ConcatProperties
<1>7. IsImage(<<fixed>> \o body)
  BY <1>6, SeqIsImage
<1>8. Header(es, t, n) = Summed(<<fixed>> \o body)
  BY DEF Header, fixed, body
<1>9. IsImage(Header(es, t, n)) /\ Len(Header(es, t, n)) = (1 + Len(es)) + 1
  BY <1>6, <1>7, <1>8, SummedImage
<1>10. (1 + Len(es)) + 1 = Len(es) + 2
  BY <1>1
<1> QED
  BY <1>9, <1>10

LEMMA TrailerImage ==
  ASSUME NEW es, IsImage(es)
  PROVE  IsImage(Trailer(es)) /\ Len(Trailer(es)) = Len(es) + 1
<1> DEFINE body == [i \in 1 .. Len(es) |-> IndexCell(es[i])]
           S == {IndexCell(es[i]) : i \in 1 .. Len(es)}
<1>1. Len(es) \in Nat
  BY DEF IsImage
<1>2. body \in [1 .. Len(es) -> S]
  OBVIOUS
<1>3. body \in Seq(S)
  BY <1>1, <1>2, SeqDef
<1>4. Len(body) = Len(es)
  BY <1>1, <1>3, LenProperties
<1>5. IsImage(body)
  BY <1>3, SeqIsImage
<1> HIDE DEF S, body
<1>6. Trailer(es) = Summed(body)
  BY DEF Trailer, body
<1> QED
  BY <1>4, <1>5, <1>6, SummedImage

LEMMA BlockImage ==
  ASSUME NEW units, NEW len \in Nat
  PROVE  LET cells == [j \in 1 .. len |-> DataCell(units, j, len)]
         IN  IsImage(cells) /\ Len(cells) = len
<1> DEFINE cells == [j \in 1 .. len |-> DataCell(units, j, len)]
           S == {DataCell(units, j, len) : j \in 1 .. len}
<1>1. cells \in [1 .. len -> S]
  OBVIOUS
<1>2. cells \in Seq(S)
  BY <1>1, SeqDef
<1>3. Len(cells) = len
  BY <1>2, LenProperties
<1> QED
  BY <1>2, <1>3, SeqIsImage

(* What a write at the end of what matters does to the archive.            *)
LEMMA EmitImage ==
  ASSUME IsImage(out), pos \in 0 .. Len(out), NEW cells, IsImage(cells), Emit(cells)
  PROVE  /\ IsImage(out') /\ pos' = pos + Len(cells)
         /\ Len(out) <= Len(out') /\ pos' <= Len(out')
         /\ \A k \in 1 .. pos : out'[k] = out[k]
         /\ \A k \in 1 .. Len(cells) : out'[pos + k] = cells[k]
<1>1. Len(cells) \in Nat /\ Len(out) \in Nat /\ pos \in Nat /\ pos <= Len(out)
  BY DEF IsImage
<1>2. /\ IsImage(out') /\ Len(out') = SizeAfter(Len(out), pos, Len(cells))
      /\ \A k \in 1 .. SizeAfter(Len(out), pos, Len(cells)) :
           out'[k] = IF k > pos /\ k <= pos + Len(cells) THEN cells[k - pos] ELSE out[k]
      /\ pos' = pos + Len(cells)
  BY WriteImage DEF Emit
<1>3. Len(out) <= Len(out') /\ pos' <= Len(out')
  BY <1>1, <1>2 DEF SizeAfter
<1>4. \A k \in 1 .. pos : out'[k] = out[k]
  BY <1>1, <1>2 DEF SizeAfter
<1>5. \A k \in 1 .. Len(cells) : out'[pos + k] = cells[k]
  <2> SUFFICES ASSUME NEW k \in 1 .. Len(cells) PROVE out'[pos + k] = cells[k]
    OBVIOUS
  <2>1. pos + k \in 1 .. SizeAfter(Len(out), pos, Len(cells)) /\ (pos + k) - pos = k
    BY <1>1 DEF SizeAfter
  <2>2. pos + k > pos /\ pos + k <= pos + Len(cells)
    BY <1>1
  <2> QED
    BY <1>2, <2>1, <2>2
<1> QED
  BY <1>2, <1>3, <1>4, <1>5

-----------------------------------------------------------------------------
(* The entries of the walk, and what they make of the first header.        *)
Found == [i \in Entries |-> Entry(i, path[i].size, path[i].ver, FALSE, 0, << >>)]

LEMMA FoundImage == IsImage(Found) /\ Len(Found) = N
<1>1. Found \in Seq({Found[i] : i \in Entries})
  <2>1. Found \in [1 .. N -> {Found[i] : i \in Entries}]
    BY DEF Found, Entries
  <2> QED
    BY <2>1, NAssumption, SeqDef
<1>2. DOMAIN Found = 1 .. N
  BY DEF Found, Entries
<1> QED
  BY <1>1, <1>2, SeqIsImage, LenProperties, NAssumption

(* What is kept is a list of entries.                                      *)
KeptType == [id : Entries, size : Nat, mtime : -1 .. MaxChanges, changed : BOOLEAN,
             off : Nat, blocks : Seq(BlockType)]

LEMMA KeptImage ==
  ASSUME TypeOK PROVE kept \in Seq(KeptType) /\ IsImage(kept)
BY SeqIsImage DEF TypeOK, KeptType

LEMMA SourceType ==
  ASSUME NEW f \in SourceFiles
  PROVE  /\ f.ver \in -1 .. MaxChanges /\ f.size \in Nat
         /\ f # Missing => f.ver \in 0 .. MaxChanges /\ f.size \in Sizes
<1>1. CASE f \in [ver : 0 .. MaxChanges, size : Sizes]
  <2>1. f.ver \in 0 .. MaxChanges /\ f.size \in Sizes
    BY <1>1
  <2>2. f.ver \in -1 .. MaxChanges
    BY <2>1, BoundsAssumption
  <2>3. f.size \in Nat
    BY <2>1, BoundsAssumption
  <2> QED
    BY <2>1, <2>2, <2>3
<1>2. CASE f = Missing
  <2>1. f.ver = -1 /\ f.size = 0
    BY <1>2 DEF Missing
  <2> QED
    BY <1>2, <2>1, BoundsAssumption
<1> QED
  BY <1>1, <1>2 DEF SourceFiles

LEMMA UnitsType ==
  ASSUME TypeOK, cur \in Regular, NEW n \in Nat
  PROVE  Units(n) \in Seq(Entries \X (-1 .. MaxChanges) \X Nat) /\ Len(Units(n)) = n
<1>0. inode.ver \in -1 .. MaxChanges /\ rpos \in Nat /\ cur \in Entries
  BY SourceType, RegularAssumption DEF TypeOK
<1>1. \A k \in 1 .. n : Unit(cur, inode, rpos + k) \in Entries \X (-1 .. MaxChanges) \X Nat
  BY <1>0 DEF Unit
<1>2. Units(n) \in [1 .. n -> Entries \X (-1 .. MaxChanges) \X Nat]
  BY <1>1 DEF Units
<1>3. Units(n) \in Seq(Entries \X (-1 .. MaxChanges) \X Nat)
  BY <1>2, SeqDef
<1> QED
  BY <1>2, <1>3, LenProperties

LEMMA AvailableType ==
  ASSUME TypeOK, NEW n \in Nat
  PROVE  Available(n) \in 0 .. n
<1>1. inode.size \in Nat /\ rpos \in Nat
  BY SourceType DEF TypeOK
<1> QED
  BY <1>1 DEF Available

-----------------------------------------------------------------------------
LEMMA Numbers ==
  ASSUME TypeOK
  PROVE  /\ HeaderLen \in Nat /\ SumLen \in Nat /\ N \in Nat
         /\ cOffset \in Nat /\ startOffset \in Nat /\ rpos \in Nat
         /\ statStart \in SourceFiles /\ statStart.size \in Nat
         /\ blocks \in Seq(BlockType)
<1>1. /\ cOffset \in Nat /\ startOffset \in Nat /\ rpos \in Nat
      /\ statStart \in SourceFiles /\ blocks \in Seq(BlockType)
  BY DEF TypeOK
<1> QED
  BY <1>1, NAssumption, SumLenType, SourceType DEF HeaderLen

LEMMA BlocksType ==
  ASSUME NEW bs \in Seq(BlockType)
  PROVE  Len(bs) \in Nat /\ \A k \in 1 .. Len(bs) : bs[k].off \in Nat /\ bs[k].size \in Nat
<1>1. \A k \in 1 .. Len(bs) : bs[k] \in BlockType
  OBVIOUS
<1> QED
  BY <1>1, LenProperties DEF BlockType

(* What a failed write leaves: the archive with a beginning of the cells.  *)
LEMMA BrokenImage ==
  ASSUME IsImage(out), NEW p \in 0 .. Len(out), NEW cells, IsImage(cells), NEW reason,
         Broken(reason, p, cells)
  PROVE  /\ pc' = "stopped" /\ why' = reason
         /\ UNCHANGED <<source, handle, cur, reading, cOffset, kept>>
         /\ \E n \in 0 .. Len(cells) : \E piece :
              /\ IsImage(piece) /\ Len(piece) = n /\ \A k \in 1 .. n : piece[k] = cells[k]
              /\ out' = WriteAt(out, p, piece) /\ pos' = p + n
         /\ IsImage(out') /\ pos' \in 0 .. Len(out') /\ Len(out) <= Len(out')
         /\ \A k \in 1 .. p : out'[k] = out[k]
         /\ p + Len(cells) <= Len(out) =>
              Len(out') = Len(out) /\ \A k \in p + Len(cells) + 1 .. Len(out) : out'[k] = out[k]
<1>1. Len(out) \in Nat /\ Len(cells) \in Nat /\ p \in Nat /\ p <= Len(out)
  BY DEF IsImage
<1>2. PICK n \in 0 .. Len(cells) : out' = WriteAt(out, p, SubSeq(cells, 1, n)) /\ pos' = p + n
  BY DEF Broken
<1> DEFINE piece == SubSeq(cells, 1, n)
<1>3. IsImage(piece) /\ Len(piece) = n /\ \A k \in 1 .. n : piece[k] = cells[k]
  <2> DEFINE S == Cells(cells)
  <2>1. cells \in Seq(S)
    BY ImageIsSeq
  <2> HIDE DEF S
  <2>2. piece \in Seq(S) /\ Len(piece) = n
    BY <2>1, CutSeq
  <2>3. \A k \in 1 .. n : SubSeq(cells, 1, n)[k] = cells[k]
    BY <1>1, <2>1
  <2> QED
    BY <2>2, <2>3, SeqIsImage
<1>4. out' = WriteAt(out, p, piece) /\ pos' = p + n /\ n \in Nat /\ n <= Len(cells)
  BY <1>1, <1>2
<1> HIDE DEF piece
<1>6. /\ IsImage(out') /\ Len(out') = SizeAfter(Len(out), p, n)
      /\ \A k \in 1 .. SizeAfter(Len(out), p, n) :
           out'[k] = IF k > p /\ k <= p + n THEN piece[k - p] ELSE out[k]
  BY <1>3, <1>4, WriteImage
<1>7. pos' \in 0 .. Len(out') /\ Len(out) <= Len(out')
  BY <1>1, <1>4, <1>6 DEF SizeAfter
<1>8. \A k \in 1 .. p : out'[k] = out[k]
  BY <1>1, <1>4, <1>6 DEF SizeAfter
<1>9. ASSUME p + Len(cells) <= Len(out)
      PROVE  Len(out') = Len(out) /\ \A k \in p + Len(cells) + 1 .. Len(out) : out'[k] = out[k]
  <2>1. SizeAfter(Len(out), p, n) = Len(out)
    BY <1>1, <1>4, <1>9 DEF SizeAfter
  <2>2. \A k \in p + Len(cells) + 1 .. Len(out) : k \in 1 .. Len(out) /\ ~(k <= p + n)
    BY <1>1, <1>4
  <2> QED
    BY <1>6, <2>1, <2>2
<1>10. /\ pc' = "stopped" /\ why' = reason
       /\ UNCHANGED <<source, handle, cur, reading, cOffset, kept>>
  BY DEF Broken, Stop
<1>11. \E m \in 0 .. Len(cells) : \E q :
          /\ IsImage(q) /\ Len(q) = m /\ \A k \in 1 .. m : q[k] = cells[k]
          /\ out' = WriteAt(out, p, q) /\ pos' = p + m
  BY <1>3, <1>4
<1> QED
  BY <1>6, <1>7, <1>8, <1>9, <1>10, <1>11

(* The rest of the final header.                                           *)
LEMMA RestImage ==
  ASSUME TypeOK, Positioned, pc = "close"
  PROVE  IsImage(HeaderRest) /\ Len(HeaderRest) = HeaderLen - pos /\ pos \in 0 .. HeaderLen
<1>1. HeaderLen \in Nat /\ pos \in Nat /\ pos <= HeaderLen /\ Len(kept) = N
  <2>1. pos \in 0 .. Len(out) /\ Len(out) \in Nat /\ pos <= HeaderLen /\ Len(kept) = N
    BY DEF Positioned, TypeOK, IsImage
  <2> QED
    BY <2>1, Numbers
<1>2. Len(FinalHeader) = HeaderLen /\ FinalHeader \in Seq(Cells(FinalHeader))
  BY <1>1, KeptImage, HeaderImage, ImageIsSeq DEF FinalHeader, HeaderLen
<1>3. pos \in 0 .. HeaderLen
  BY <1>1
<1>4. HeaderRest \in Seq(Cells(FinalHeader)) /\ Len(HeaderRest) = HeaderLen - pos
  BY <1>2, <1>3, CutSeq DEF HeaderRest
<1> QED
  BY <1>3, <1>4, SeqIsImage

(* When the archive cannot be written the run ends.  Nothing between the   *)
(* header and the edge is written over; nor is the header, unless it is    *)
(* the final one that is being written.                                    *)
LEMMA OutputBroken ==
  ASSUME TypeOK, Positioned, SoFar, OutputFails
  PROVE  /\ pc' = "stopped" /\ why' \in {"output", "close"} /\ Started
         /\ UNCHANGED <<source, handle, cur, reading, cOffset, kept>>
         /\ IsImage(out') /\ pos' \in 0 .. Len(out') /\ Len(out) <= Len(out')
         /\ \A k \in HeaderLen + 1 .. Edge : out'[k] = out[k]
         /\ Writing => why' = "output" /\ \A k \in 1 .. HeaderLen : out'[k] = out[k]
         /\ pc = "header" => out' = out
         /\ Writing \/ pc = "header" \/ CloseFails
<1>1. /\ IsImage(out) /\ pos \in 0 .. Len(out) /\ Len(out) \in Nat /\ pos \in Nat
      /\ HeaderLen \in Nat /\ cOffset \in Nat /\ startOffset \in Nat /\ SumLen \in Nat
  <2>1. IsImage(out) /\ pos \in 0 .. Len(out)
    BY DEF TypeOK, Positioned
  <2> QED
    BY <2>1, Numbers DEF IsImage
<1>2. Started => HeaderLen <= Edge /\ Edge <= Len(out) /\ Edge \in Nat
  BY <1>1 DEF Positioned, Edge
<1>3. pc \in {"next", "open"} => pos = Edge
  BY DEF Positioned, Edge, Reading
<1>4. Reading => Edge = startOffset /\ startOffset <= pos
  BY <1>1 DEF Positioned, Edge, Reading
<1>5. ASSUME Writing, NEW p \in {pos, startOffset}, p = pos \/ Reading,
             NEW cells, IsImage(cells), Broken("output", p, cells)
      PROVE  /\ pc' = "stopped" /\ why' = "output"
             /\ UNCHANGED <<source, handle, cur, reading, cOffset, kept>>
             /\ IsImage(out') /\ pos' \in 0 .. Len(out') /\ Len(out) <= Len(out')
             /\ \A k \in HeaderLen + 1 .. Edge : out'[k] = out[k]
             /\ \A k \in 1 .. HeaderLen : out'[k] = out[k]
             /\ Started /\ pc # "header"
  <2>1. Started /\ pc # "header"
    BY <1>5 DEF Writing, Started
  <2>2. p \in 0 .. Len(out) /\ Edge <= p /\ p \in Nat
    BY <1>1, <1>2, <1>3, <1>4, <1>5, <2>1 DEF Writing, Reading
  <2>3. /\ pc' = "stopped" /\ why' = "output"
        /\ UNCHANGED <<source, handle, cur, reading, cOffset, kept>>
        /\ IsImage(out') /\ pos' \in 0 .. Len(out') /\ Len(out) <= Len(out')
        /\ \A k \in 1 .. p : out'[k] = out[k]
    BY <1>1, <1>5, <2>2, BrokenImage
  <2>4. \A k \in HeaderLen + 1 .. Edge : k \in 1 .. p
    BY <1>1, <1>2, <2>1, <2>2
  <2>5. \A k \in 1 .. HeaderLen : k \in 1 .. p
    BY <1>1, <1>2, <2>1, <2>2
  <2> QED
    BY <2>1, <2>3, <2>4, <2>5
<1>6. CASE ReserveFails
  BY <1>5, <1>6, OneCell DEF ReserveFails, Writing
<1>7. CASE CopyFails
  BY <1>5, <1>7, OneCell DEF CopyFails, Writing
<1>8. CASE BlockFails
  <2>1. PICK len \in 1 .. MaxComp :
          Broken("output", pos,
                 [j \in 1 .. len |-> DataCell(Units(Available(BlockSize)), j, len)])
    BY <1>8 DEF BlockFails
  <2>2. pc = "read" /\ Writing /\ len \in Nat
    BY <1>8, BoundsAssumption DEF BlockFails, Writing
  <2> DEFINE cells == [j \in 1 .. len |-> DataCell(Units(Available(BlockSize)), j, len)]
  <2>3. IsImage(cells)
    BY <2>2, BlockImage
  <2>4. Broken("output", pos, cells)
    BY <2>1
  <2> HIDE DEF cells
  <2> QED
    BY <1>5, <2>2, <2>3, <2>4
<1>9. CASE RewindFails
  BY <1>5, <1>9, NoCell DEF RewindFails, Writing
<1>10. CASE SumFails
  BY <1>5, <1>10, OneCell DEF SumFails, Writing, Reading
<1>11. CASE TrailerFails
  <2>1. IsImage(Trailer(kept))
    BY KeptImage, TrailerImage
  <2> QED
    BY <1>5, <1>11, <2>1 DEF TrailerFails, Writing
<1>12. CASE HeaderFails
  <2>1. PICK reason \in {"output", "close"} : Broken(reason, pos, << >>)
    BY <1>12 DEF HeaderFails
  <2>2. IsImage(<< >>) /\ Len(<< >>) = 0
    BY NoCell
  <2>3. /\ pc' = "stopped" /\ why' = reason
        /\ UNCHANGED <<source, handle, cur, reading, cOffset, kept>>
        /\ IsImage(out') /\ pos' \in 0 .. Len(out') /\ Len(out) <= Len(out')
        /\ \A k \in 1 .. pos : out'[k] = out[k]
        /\ pos + Len(<< >>) <= Len(out) =>
             /\ Len(out') = Len(out)
             /\ \A k \in pos + Len(<< >>) + 1 .. Len(out) : out'[k] = out[k]
    BY <1>1, <2>1, <2>2, BrokenImage
  <2>4. Len(out') = Len(out) /\ \A k \in 1 .. Len(out) : out'[k] = out[k]
    <3>1. pos + Len(<< >>) <= Len(out)
      BY <1>1, <2>2
    <3>2. \A k \in 1 .. Len(out) : k \in 1 .. pos \/ k \in pos + Len(<< >>) + 1 .. Len(out)
      BY <1>1, <2>2
    <3> QED
      BY <2>3, <3>1, <3>2
  <2>5. out' = out
    BY <1>1, <2>3, <2>4 DEF IsImage
  <2>6. pc = "header" /\ Started /\ ~Writing
    BY <1>12 DEF HeaderFails, Started, Writing
  <2> QED
    BY <2>3, <2>5, <2>6
<1>13. CASE CloseFails
  <2>1. pc = "close" /\ Started /\ ~Writing /\ Edge = cOffset
    BY <1>13 DEF CloseFails, Started, Writing, Edge, Reading
  <2>2. IsImage(HeaderRest) /\ Len(HeaderRest) = HeaderLen - pos /\ pos \in 0 .. HeaderLen
    BY <2>1, RestImage
  <2>3. /\ pc' = "stopped" /\ why' = "close"
        /\ UNCHANGED <<source, handle, cur, reading, cOffset, kept>>
        /\ IsImage(out') /\ pos' \in 0 .. Len(out') /\ Len(out) <= Len(out')
        /\ pos + Len(HeaderRest) <= Len(out) =>
             \A k \in pos + Len(HeaderRest) + 1 .. Len(out) : out'[k] = out[k]
    BY <1>1, <1>13, <2>2, BrokenImage DEF CloseFails
  <2>4. pos + Len(HeaderRest) = HeaderLen /\ HeaderLen <= Len(out)
    BY <1>1, <1>2, <2>1, <2>2
  <2>5. \A k \in HeaderLen + 1 .. Edge : out'[k] = out[k]
    <3>1. \A k \in HeaderLen + 1 .. Edge : k \in HeaderLen + 1 .. Len(out)
      BY <1>1, <1>2, <2>1
    <3> QED
      BY <2>3, <2>4, <3>1
  <2> QED
    BY <1>13, <2>1, <2>3, <2>5
<1> QED
  BY <1>5, <1>6, <1>7, <1>8, <1>9, <1>10, <1>11, <1>12, <1>13 DEF OutputFails, ReserveFails,
     CopyFails, BlockFails, RewindFails, SumFails, TrailerFails, Writing

(* Every step leaves an archive with its position inside, and nothing      *)
(* between the header and the edge is written over.                        *)
LEMMA Written ==
  ASSUME TypeOK, Positioned, SoFar, Next
  PROVE  /\ IsImage(out') /\ pos' \in 0 .. Len(out') /\ Len(out) <= Len(out')
         /\ Started => \A k \in HeaderLen + 1 .. Edge : out'[k] = out[k]
<1>1. IsImage(out) /\ pos \in 0 .. Len(out) /\ Len(out) \in Nat /\ pos \in Nat
  <2>1. IsImage(out) /\ pos \in 0 .. Len(out)
    BY DEF TypeOK, Positioned
  <2>2. Len(out) \in Nat
    BY <2>1 DEF IsImage
  <2> QED
    BY <2>1, <2>2
<1>2. HeaderLen \in Nat /\ Edge \in Nat /\ startOffset \in Nat /\ cOffset \in Nat
  <2>1. startOffset \in Nat /\ cOffset \in Nat
    BY DEF TypeOK
  <2> QED
    BY <2>1, NAssumption DEF HeaderLen, Edge
<1>3. ASSUME UNCHANGED out, pos' \in 0 .. Len(out)
      PROVE  /\ IsImage(out') /\ pos' \in 0 .. Len(out') /\ Len(out) <= Len(out')
             /\ Started => \A k \in HeaderLen + 1 .. Edge : out'[k] = out[k]
  BY <1>1, <1>3
<1>4. ASSUME NEW cells, IsImage(cells), Emit(cells),
             Started => Edge <= pos \/ pos + Len(cells) <= HeaderLen
      PROVE  /\ IsImage(out') /\ pos' \in 0 .. Len(out') /\ Len(out) <= Len(out')
             /\ Started => \A k \in HeaderLen + 1 .. Edge : out'[k] = out[k]
  <2>1. Len(cells) \in Nat
    BY <1>4 DEF IsImage
  <2>2. /\ IsImage(out') /\ pos' = pos + Len(cells)
        /\ Len(out) <= Len(out') /\ pos' <= Len(out')
    BY <1>1, <1>4, EmitImage
  <2>3. /\ Len(out') = SizeAfter(Len(out), pos, Len(cells))
        /\ \A k \in 1 .. SizeAfter(Len(out), pos, Len(cells)) :
             out'[k] = IF k > pos /\ k <= pos + Len(cells) THEN cells[k - pos] ELSE out[k]
    BY <1>1, <1>4, WriteImage DEF Emit
  <2>4. Started => \A k \in HeaderLen + 1 .. Edge : out'[k] = out[k]
    <3>1. Started => Edge <= Len(out)
      BY DEF Positioned
    <3>2. ASSUME Started, NEW k \in HeaderLen + 1 .. Edge
          PROVE  k \in 1 .. SizeAfter(Len(out), pos, Len(cells)) /\ ~(k > pos /\ k <= pos + Len(cells))
      BY <1>1, <1>2, <1>4, <2>1, <3>1, <3>2 DEF SizeAfter
    <3> QED
      BY <2>3, <3>2
  <2> QED
    BY <1>1, <2>1, <2>2, <2>4
<1>5. pc \in {"next", "open"} => Edge = cOffset /\ pos = cOffset
  BY DEF Edge, Reading, Positioned
<1>6. Reading => Edge = startOffset /\ startOffset + SumLen <= pos /\ startOffset <= pos
  BY <1>1, <1>2, SumLenType DEF Edge, Positioned
<1>7. CASE FirstHeader
  <2>1. Emit(Header(Found, 0, 0)) /\ ~Started
    BY <1>7 DEF FirstHeader, Found, Started
  <2>2. IsImage(Header(Found, 0, 0))
    BY FoundImage, HeaderImage
  <2> QED
    BY <1>4, <2>1, <2>2
<1>8. CASE Open
  <2> DEFINE cells == IF Checksums THEN <<ZeroCell>> ELSE << >>
  <2>1. IsImage(cells)
    BY OneCell, NoCell
  <2>2. Emit(cells) /\ Edge <= pos
    BY <1>1, <1>5, <1>8 DEF Open
  <2> HIDE DEF cells
  <2> QED
    BY <1>4, <2>1, <2>2
<1>9. CASE ReadBlock
  <2>1. Edge <= pos
    BY <1>1, <1>6, <1>9 DEF ReadBlock, Reading
  <2>2. CASE UNCHANGED archive
    BY <1>1, <1>3, <2>2 DEF archive
  <2>3. ASSUME NEW u, NEW len \in 1 .. MaxComp, Emit([j \in 1 .. len |-> DataCell(u, j, len)])
        PROVE  /\ IsImage(out') /\ pos' \in 0 .. Len(out') /\ Len(out) <= Len(out')
               /\ Started => \A k \in HeaderLen + 1 .. Edge : out'[k] = out[k]
    <3> DEFINE cells == [j \in 1 .. len |-> DataCell(u, j, len)]
    <3>0. len \in Nat
      BY BoundsAssumption
    <3>1. IsImage(cells)
      BY <3>0, BlockImage
    <3>2. Emit(cells)
      BY <2>3
    <3> HIDE DEF cells
    <3> QED
      BY <1>4, <2>1, <3>1, <3>2
  <2> QED
    BY <1>9, <2>2, <2>3 DEF ReadBlock
<1>10. CASE CopyUnit
  <2>1. PICK c : Emit(<<c>>)
    BY <1>10 DEF CopyUnit
  <2>2. Edge <= pos
    BY <1>1, <1>6, <1>10 DEF CopyUnit, Reading
  <2> QED
    BY <1>4, <2>1, <2>2, OneCell
<1>11. CASE Retry \/ GiveUp
  <2>1. Reading
    BY <1>11 DEF Retry, GiveUp, Reading
  <2>1a. startOffset <= Len(out)
    BY <1>1, <1>2, <1>6, <2>1
  <2>2. UNCHANGED out /\ pos' \in {pos, startOffset}
    BY <1>11 DEF Retry, GiveUp, Rewind, archive
  <2> QED
    BY <1>1, <1>2, <1>3, <2>1a, <2>2
<1>12. CASE Keep
  <2>1. CASE UNCHANGED archive
    BY <1>1, <1>3, <2>1 DEF archive
  <2>2. CASE Checksums
    <3> DEFINE cells == <<SumCell(hashed)>>
    <3>1. IsImage(cells) /\ Len(cells) = 1
      BY OneCell
    <3>2. Reading /\ out' = WriteAt(out, startOffset, cells) /\ pos' = cOffset
      BY <1>12, <2>2 DEF Keep, Reading
    <3>2a. pc = "stat" /\ Unchanged
      BY <1>12 DEF Keep, Changed, Unchanged
    <3> HIDE DEF cells
    <3>3. Edge = startOffset /\ startOffset + 1 <= pos /\ startOffset \in 0 .. Len(out)
      BY <1>1, <1>2, <1>6, <2>2, <3>2, SumLenType
    <3>4. /\ IsImage(out')
          /\ Len(out') = SizeAfter(Len(out), startOffset, Len(cells))
          /\ \A k \in 1 .. SizeAfter(Len(out), startOffset, Len(cells)) :
               out'[k] = IF k > startOffset /\ k <= startOffset + Len(cells)
                         THEN cells[k - startOffset] ELSE out[k]
      BY <1>1, <3>1, <3>2, <3>3, WriteImage
    <3>5. SizeAfter(Len(out), startOffset, Len(cells)) = Len(out)
      BY <1>1, <1>2, <3>1, <3>3 DEF SizeAfter
    <3>6. \A k \in HeaderLen + 1 .. Edge : k \in 1 .. Len(out) /\ ~(k > startOffset)
      BY <1>1, <1>2, <3>3
    <3>7. \A k \in HeaderLen + 1 .. Edge : out'[k] = out[k]
      BY <3>4, <3>5, <3>6
    <3>8. cOffset = pos
      BY <1>1, <1>2, <3>2a DEF SoFar, Positioned, Reading
    <3> QED
      BY <1>1, <3>2, <3>4, <3>5, <3>7, <3>8
  <2> QED
    BY <1>12, <2>1, <2>2 DEF Keep
<1>13. CASE WriteTrailer
  <2>1. Emit(Trailer(kept)) /\ IsImage(Trailer(kept))
    BY <1>13, KeptImage, TrailerImage DEF WriteTrailer
  <2>2. Edge <= pos
    BY <1>1, <1>5, <1>13 DEF WriteTrailer
  <2> QED
    BY <1>4, <2>1, <2>2
<1>14. ASSUME pc \in {"header", "close"}, Len(FinalHeader) = HeaderLen, NEW n \in 0 .. HeaderLen
       PROVE  /\ IsImage(SubSeq(FinalHeader, 1, n)) /\ Len(SubSeq(FinalHeader, 1, n)) = n
              /\ IsImage(SubSeq(FinalHeader, n + 1, Len(FinalHeader)))
              /\ Len(SubSeq(FinalHeader, n + 1, Len(FinalHeader))) = HeaderLen - n
  <2>1. FinalHeader \in Seq(Cells(FinalHeader))
    BY KeptImage, HeaderImage, ImageIsSeq DEF FinalHeader
  <2> QED
    BY <1>14, <2>1, CutSeq, SeqIsImage
<1>15. CASE FinalHeaderBegins
  <2>1. PICK n \in 1 .. Len(FinalHeader) - 1 :
          out' = WriteAt(out, 0, SubSeq(FinalHeader, 1, n)) /\ pos' = n
    BY <1>15 DEF FinalHeaderBegins
  <2> DEFINE cells == SubSeq(FinalHeader, 1, n)
  <2>2. pc = "header" /\ Len(FinalHeader) = HeaderLen
    BY <1>15 DEF FinalHeaderBegins
  <2>3. n \in 0 .. HeaderLen /\ n \in Nat
    BY <1>2, <2>2
  <2>4. IsImage(cells) /\ Len(cells) = n
    BY <1>14, <2>2, <2>3
  <2>5. out' = WriteAt(out, 0, cells)
    BY <2>1
  <2> HIDE DEF cells
  <2>6. HeaderLen <= Len(out) /\ Edge <= Len(out)
    BY <1>1, <1>2, <2>2 DEF Positioned, Started
  <2>7. /\ IsImage(out')
        /\ Len(out') = SizeAfter(Len(out), 0, Len(cells))
        /\ \A k \in 1 .. SizeAfter(Len(out), 0, Len(cells)) :
             out'[k] = IF k > 0 /\ k <= 0 + Len(cells) THEN cells[k - 0] ELSE out[k]
    <3>1. 0 \in 0 .. Len(out)
      BY <1>1
    <3> QED
      BY <1>1, <2>4, <2>5, <3>1, WriteImage
  <2>8. SizeAfter(Len(out), 0, Len(cells)) = Len(out)
    BY <1>1, <1>2, <2>3, <2>4, <2>6 DEF SizeAfter
  <2>9. \A k \in HeaderLen + 1 .. Edge : k \in 1 .. Len(out) /\ ~(k <= 0 + Len(cells))
    BY <1>1, <1>2, <2>3, <2>4, <2>6
  <2>10. \A k \in HeaderLen + 1 .. Edge : out'[k] = out[k]
    BY <2>7, <2>8, <2>9
  <2>11. pos' \in 0 .. Len(out)
    BY <1>1, <1>2, <2>1, <2>3, <2>6
  <2> QED
    BY <1>1, <2>7, <2>8, <2>10, <2>11
<1>16. CASE Close
  <2>1. pc = "close" /\ pos \in 0 .. HeaderLen /\ Len(kept) = N
    BY <1>1, <1>2, <1>16 DEF Close, Positioned
  <2>2. Len(FinalHeader) = HeaderLen
    BY <2>1, KeptImage, HeaderImage DEF FinalHeader, HeaderLen
  <2> DEFINE cells == SubSeq(FinalHeader, pos + 1, Len(FinalHeader))
  <2>3. IsImage(cells) /\ Len(cells) = HeaderLen - pos
    BY <1>14, <2>1, <2>2
  <2>4. Emit(cells)
    BY <1>16 DEF Close, HeaderRest
  <2> HIDE DEF cells
  <2>5. pos + Len(cells) <= HeaderLen
    BY <1>1, <1>2, <2>3
  <2> QED
    BY <1>4, <2>3, <2>4, <2>5
<1>17. CASE UNCHANGED archive
  BY <1>1, <1>3, <1>17 DEF archive
<1>18. CASE OutputFails
  BY <1>18, OutputBroken
<1> QED
  BY <1>7, <1>8, <1>9, <1>10, <1>11, <1>12, <1>13, <1>15, <1>16, <1>17, <1>18
     DEF Next, Program, Progress, Refuse, SpecialEntry, RegularEntry, OpenFails, CopyEnds,
         ReadFails, EndStatPanics, HeaderMismatch, Environment, Ended, vars, archive

-----------------------------------------------------------------------------
(* Every step keeps the types.                                             *)
LEMMA TypesStep ==
  ASSUME TypeOK, Versioned, Positioned, SoFar, [Next]_vars
  PROVE  TypeOK'
<1>0. CASE UNCHANGED vars
  BY <1>0 DEF TypeOK, vars
<1> SUFFICES ASSUME Next PROVE TypeOK'
  BY <1>0
<1>1. pos' \in 0 .. Len(out')
  BY Written
<1>2. N \in Nat /\ HeaderLen \in Nat /\ SumLen \in Nat /\ MaxChanges \in Nat
  BY NAssumption, BoundsAssumption, SumLenType DEF HeaderLen
<1>3. << >> \in Seq(BlockType)
  OBVIOUS
<1>4. cur \in Entries => /\ cur + 1 \in 1 .. N + 1
                          /\ path[cur] \in SourceFiles
                          /\ path[cur].ver \in -1 .. MaxChanges /\ path[cur].size \in Nat
  <2>1. cur \in Entries => cur + 1 \in 1 .. N + 1
    BY <1>2 DEF Entries
  <2>2. cur \in Entries => path[cur] \in SourceFiles
    BY DEF TypeOK
  <2> QED
    BY <2>1, <2>2, SourceType
<1>4a. /\ cOffset \in Nat /\ startOffset \in Nat /\ rpos \in Nat /\ attempt \in Nat
       /\ clock \in 0 .. MaxChanges
  BY DEF TypeOK
<1>5. Reading \/ pc = "open" => cur \in Regular /\ cur \in Entries
  BY RegularAssumption DEF Versioned, Positioned
<1>6. CASE Refuse
  BY <1>1, <1>6 DEF TypeOK, Refuse, Stop, source, handle, reading, archive
<1>7. CASE FirstHeader
  BY <1>1, <1>2, <1>7 DEF TypeOK, FirstHeader, source, handle, reading
<1>8. CASE SpecialEntry
  <2>1. kept' \in Seq(KeptType)
    <3>1. Entry(cur, 0, path[cur].ver, FALSE, 0, << >>) \in KeptType
      BY <1>2, <1>3, <1>4, <1>8 DEF SpecialEntry, Entry, KeptType
    <3>2. kept' = Append(kept, Entry(cur, 0, path[cur].ver, FALSE, 0, << >>))
      BY <1>8 DEF SpecialEntry
    <3> QED
      BY <3>1, <3>2, KeptImage, AppendProperties
  <2> QED
    BY <1>1, <1>4, <1>8, <2>1 DEF TypeOK, SpecialEntry, KeptType, source, handle, reading, archive
<1>9. CASE RegularEntry
  BY <1>1, <1>9 DEF TypeOK, RegularEntry, source, handle, archive
<1>10. CASE Open
  <2>1. cOffset' \in Nat /\ attempt' \in Nat /\ startOffset' \in Nat
    <3>1. cOffset' = cOffset + SumLen /\ attempt' = attempt + 1 /\ startOffset' = cOffset
      BY <1>10 DEF Open
    <3> QED
      BY <1>2, <1>4a, <3>1
  <2>2. hashed' \in Seq(Entries \X (-1 .. MaxChanges) \X Nat)
    <3>1. hashed' \in {<< >>, hashed}
      BY <1>10 DEF Open
    <3>2. hashed \in Seq(Entries \X (-1 .. MaxChanges) \X Nat)
      BY DEF TypeOK
    <3> QED
      BY <3>1, <3>2, EmptySeq
  <2>3. inode' \in SourceFiles /\ statStart' \in SourceFiles
    BY <1>4, <1>5, <1>10 DEF Open
  <2> QED
    BY <1>1, <1>3, <1>10, <2>1, <2>2, <2>3 DEF TypeOK, Open, source
<1>11. CASE OpenFails
  <2>1. attempt' \in Nat
    <3>1. attempt' = attempt + 1
      BY <1>11 DEF OpenFails
    <3> QED
      BY <1>4a, <3>1
  <2>2. cur' \in 1 .. N + 1
    BY <1>4, <1>5, <1>11 DEF TypeOK, OpenFails
  <2> QED
    BY <1>1, <1>11, <2>1, <2>2 DEF TypeOK, OpenFails, Stop, source, handle, archive
<1>12. ASSUME pc = "read", NEW n \in Nat, Hash(Units(n))
       PROVE  hashed' \in Seq(Entries \X (-1 .. MaxChanges) \X Nat)
  <2>1. Units(n) \in Seq(Entries \X (-1 .. MaxChanges) \X Nat)
    BY <1>5, <1>12, UnitsType DEF Reading
  <2>2. hashed \in Seq(Entries \X (-1 .. MaxChanges) \X Nat)
    BY DEF TypeOK
  <2> QED
    BY <1>12, <2>1, <2>2 DEF Hash
<1>13. CASE ReadBlock
  <2> DEFINE n == Available(BlockSize)
  <2>1. n \in Nat
    BY BlockSizeAssumption, AvailableType
  <2>2. hashed' \in Seq(Entries \X (-1 .. MaxChanges) \X Nat)
    BY <1>12, <1>13, <2>1 DEF ReadBlock
  <2>3. rpos' \in Nat
    <3>1. rpos' = rpos + n
      BY <1>13 DEF ReadBlock
    <3> QED
      BY <1>4a, <2>1, <3>1
  <2>4. blocks' \in Seq(BlockType) /\ cOffset' \in Nat
    <3>1. ASSUME NEW len \in 1 .. MaxComp
          PROVE  [off |-> cOffset, size |-> len] \in BlockType /\ cOffset + len \in Nat
      <4>1. len \in Nat
        BY BoundsAssumption
      <4> QED
        BY <1>4a, <4>1 DEF BlockType
    <3>2. blocks \in Seq(BlockType)
      BY DEF TypeOK
    <3>3. CASE UNCHANGED <<blocks, cOffset>>
      BY <1>4a, <3>2, <3>3
    <3>4. ASSUME NEW len \in 1 .. MaxComp, cOffset' = cOffset + len,
                 blocks' = Append(blocks, [off |-> cOffset, size |-> len])
          PROVE  blocks' \in Seq(BlockType) /\ cOffset' \in Nat
      BY <3>1, <3>2, <3>4, AppendProperties
    <3> QED
      BY <1>13, <3>3, <3>4 DEF ReadBlock
  <2> QED
    BY <1>1, <1>13, <2>2, <2>3, <2>4 DEF TypeOK, ReadBlock, source, handle
<1>14. CASE CopyUnit
  <2>1. hashed' \in Seq(Entries \X (-1 .. MaxChanges) \X Nat)
    BY <1>12, <1>14 DEF CopyUnit
  <2>2. rpos' \in Nat
    <3>1. rpos' = rpos + 1
      BY <1>14 DEF CopyUnit
    <3> QED
      BY <1>4a, <3>1
  <2> QED
    BY <1>1, <1>14, <2>1, <2>2 DEF TypeOK, CopyUnit, source, handle
<1>15. CASE CopyEnds
  <2>1. statStart.size \in Nat
    BY SourceType DEF TypeOK
  <2>2. [off |-> cOffset, size |-> statStart.size] \in BlockType /\ cOffset + statStart.size \in Nat
    BY <1>4a, <2>1 DEF BlockType
  <2>3. blocks' \in Seq(BlockType) /\ cOffset' \in Nat
    BY <1>15, <2>2 DEF CopyEnds
  <2> QED
    BY <1>1, <1>15, <2>3 DEF TypeOK, CopyEnds, source, handle, archive
<1>16. CASE ReadFails
  BY <1>1, <1>16 DEF TypeOK, ReadFails, Stop, source, handle, reading, archive
<1>17. CASE EndStatPanics
  BY <1>1, <1>17 DEF TypeOK, EndStatPanics, Stop, source, handle, reading, archive
<1>18. CASE Retry
  BY <1>1, <1>18 DEF TypeOK, Retry, Rewind, source, handle
<1>19. CASE GiveUp
  <2>1. cur' \in 1 .. N + 1
    BY <1>4, <1>5, <1>19 DEF TypeOK, GiveUp, Reading
  <2>2. cOffset' \in Nat
    BY <1>19 DEF TypeOK, GiveUp, Rewind
  <2> QED
    BY <1>1, <1>19, <2>1, <2>2 DEF TypeOK, GiveUp, Stop, source, handle
<1>20. CASE Keep
  <2>1. kept' \in Seq(KeptType)
    <3>1. Entry(cur, path[cur].size, path[cur].ver, hadChange, startOffset, blocks) \in KeptType
      BY <1>4, <1>5, <1>20 DEF Keep, Entry, KeptType, TypeOK, Reading
    <3> QED
      BY <1>20, <3>1, KeptImage DEF Keep
  <2>2. cur' \in 1 .. N + 1
    BY <1>4, <1>5, <1>20 DEF Keep, Reading
  <2> QED
    BY <1>1, <1>20, <2>1, <2>2 DEF TypeOK, Keep, KeptType, source, handle, reading
<1>21. CASE WriteTrailer \/ HeaderMismatch \/ FinalHeaderBegins \/ Close
  BY <1>1, <1>21 DEF TypeOK, WriteTrailer, HeaderMismatch, FinalHeaderBegins, Close, Stop,
                     source, handle, reading, archive
<1>22. CASE Environment
  <2>1. PICK i \in Regular : \/ \E size \in Sizes : WriteSource(i, size) \/ ReplaceSource(i, size)
                             \/ RemoveSource(i)
    BY <1>22 DEF Environment
  <2>2. clock' = clock + 1 /\ clock' \in 0 .. MaxChanges
    <3>1. clock' = clock + 1 /\ clock < MaxChanges
      BY <2>1 DEF WriteSource, ReplaceSource, RemoveSource, Tick
    <3> QED
      BY <1>2, <1>4a, <3>1
  <2>3. Missing \in SourceFiles /\ \A size \in Sizes : Afresh(size) \in SourceFiles
    BY <2>2 DEF SourceFiles, Afresh
  <2>4. path' \in [Entries -> SourceFiles] /\ inode' \in SourceFiles /\ linked' \in BOOLEAN
    BY <2>1, <2>3 DEF WriteSource, ReplaceSource, RemoveSource, TypeOK
  <2> QED
    BY <1>1, <1>22, <2>2, <2>4 DEF TypeOK, Environment, reading, archive
<1>23. CASE Ended
  BY <1>23 DEF TypeOK, Ended, vars
<1>24. CASE OutputFails
  <2>1. /\ pc' = "stopped" /\ why' \in {"output", "close"}
        /\ UNCHANGED <<source, handle, cur, reading, cOffset, kept>>
    BY <1>24, OutputBroken
  <2> QED
    BY <1>1, <2>1 DEF TypeOK, source, handle, reading
<1> QED
  BY <1>6, <1>7, <1>8, <1>9, <1>10, <1>11, <1>13, <1>14, <1>15, <1>16, <1>17, <1>18, <1>19,
     <1>20, <1>21, <1>22, <1>23, <1>24 DEF Next, Program, Progress

-----------------------------------------------------------------------------
(* Whatever others do to the file at hand can be seen.                     *)
LEMMA EnvironmentStep ==
  ASSUME TypeOK, Versioned, Environment
  PROVE  /\ UNCHANGED <<pc, cur, statStart>>
         /\ \A j \in Entries : path'[j].ver <= clock'
         /\ Reading => statStart.ver <= clock'
         /\ Reading /\ Unchanged' => Unchanged /\ UNCHANGED handle
<1>0. UNCHANGED <<pc, cur, statStart>>
  BY DEF Environment, reading
<1>1. PICK i \in Regular : \/ \E size \in Sizes : WriteSource(i, size) \/ ReplaceSource(i, size)
                           \/ RemoveSource(i)
  BY DEF Environment
<1>2. clock' = clock + 1 /\ clock \in Nat
  <2>1. clock' = clock + 1
    BY <1>1 DEF WriteSource, ReplaceSource, RemoveSource, Tick
  <2>2. clock \in Nat
    <3>1. clock \in 0 .. MaxChanges
      BY DEF TypeOK
    <3> QED
      BY <3>1, BoundsAssumption
  <2> QED
    BY <2>1, <2>2
<1>3. PICK f : /\ path' = [path EXCEPT ![i] = f]
               /\ f = Missing \/ f.ver = clock + 1
               /\ i # cur => UNCHANGED inode /\ linked' = linked
  <2>1. \A size : Afresh(size).ver = clock + 1
    BY DEF Afresh
  <2> QED
    BY <1>1, <2>1 DEF WriteSource, ReplaceSource, RemoveSource, TypeOK
<1>4. i \in Entries /\ path \in [Entries -> SourceFiles]
  BY RegularAssumption DEF TypeOK
<1>5. \A j \in Entries : path'[j].ver <= clock'
  <2>1. Missing.ver = -1
    BY DEF Missing
  <2>2. \A j \in Entries : path[j].ver \in Int /\ path[j].ver <= clock
    BY <1>4, SourceType, BoundsAssumption DEF Versioned
  <2>3. path'[i].ver <= clock'
    BY <1>2, <1>3, <1>4, <2>1
  <2>4. \A j \in Entries : j # i => path'[j] = path[j]
    BY <1>3, <1>4
  <2> QED
    BY <1>2, <2>2, <2>3, <2>4
<1>6. Reading => cur \in Regular /\ statStart # Missing /\ statStart.ver <= clock
                 /\ statStart.ver \in Int
  <2>1. statStart \in SourceFiles
    BY DEF TypeOK
  <2>2. statStart.ver \in Int
    BY <2>1, SourceType, BoundsAssumption
  <2> QED
    BY <2>2 DEF Versioned
<1>7. Reading /\ Unchanged' => i # cur /\ Unchanged
  <2>1. ASSUME Reading, i = cur PROVE ~Unchanged'
    <3>1. path'[cur] = f
      BY <1>3, <1>4, <2>1
    <3>2. f # statStart
      BY <1>2, <1>3, <1>6, <2>1
    <3> QED
      BY <1>0, <3>1, <3>2 DEF Unchanged
  <2>2. ASSUME Reading, i # cur PROVE path'[cur] = path[cur]
    BY <1>3, <1>4, <1>6, <2>2, RegularAssumption
  <2> QED
    BY <1>0, <2>1, <2>2 DEF Unchanged
<1>8. Reading => statStart.ver <= clock'
  BY <1>2, <1>6
<1> QED
  BY <1>0, <1>3, <1>5, <1>7, <1>8 DEF handle

(* Every step keeps the numbering of versions.                             *)
LEMMA VersionedStep ==
  ASSUME TypeOK, Versioned, Positioned, SoFar, [Next]_vars
  PROVE  Versioned'
<1>0. CASE UNCHANGED vars
  BY <1>0 DEF Versioned, Reading, Unchanged, vars
<1> SUFFICES ASSUME Next PROVE Versioned'
  BY <1>0
<1>1. CASE ~Reading' /\ UNCHANGED source
  BY <1>1 DEF Versioned, source
<1>2. CASE Reading /\ UNCHANGED <<source, handle, cur, statStart>>
  BY <1>2 DEF Versioned, Unchanged, source, handle
<1>3. CASE Open
  <2>1. cur \in Regular /\ cur \in Entries
    BY <1>3, RegularAssumption DEF Open, Positioned
  <2>2. path[cur] # Missing /\ path[cur].ver <= clock
    BY <1>3, <2>1 DEF Open, Versioned
  <2> QED
    BY <1>3, <2>1, <2>2 DEF Open, Versioned, Unchanged, source
<1>4. CASE Environment
  BY <1>4, EnvironmentStep DEF Versioned, Reading, Unchanged, handle
<1>5. CASE OutputFails
  <2>1. pc' = "stopped" /\ UNCHANGED source
    BY <1>5, OutputBroken
  <2> QED
    BY <1>1, <2>1 DEF Reading
<1> QED
  BY <1>1, <1>2, <1>3, <1>4, <1>5
     DEF Next, Program, Progress, Refuse, FirstHeader, SpecialEntry, RegularEntry, OpenFails,
         ReadBlock, CopyUnit, CopyEnds, ReadFails, EndStatPanics, Retry, GiveUp, Keep,
         WriteTrailer, HeaderMismatch, FinalHeaderBegins, Close, Ended, vars,
         Stop, Reading, source, handle, reading

-----------------------------------------------------------------------------
(* Every step keeps to its place.                                          *)
LEMMA PositionedStep ==
  ASSUME TypeOK, Versioned, Positioned, SoFar, [Next]_vars
  PROVE  Positioned'
<1>0. CASE UNCHANGED vars
  BY <1>0 DEF Positioned, Started, Edge, Reading, vars
<1> SUFFICES ASSUME Next PROVE Positioned'
  BY <1>0
<1>1. /\ IsImage(out') /\ pos' \in 0 .. Len(out') /\ pos' <= Len(out')
      /\ Len(out) <= Len(out') /\ Len(out) \in Nat /\ Len(out') \in Nat
  <2>1. IsImage(out') /\ pos' \in 0 .. Len(out') /\ Len(out) <= Len(out')
    BY Written
  <2>2. Len(out) \in Nat /\ Len(out') \in Nat
    BY <2>1 DEF IsImage, Positioned
  <2> QED
    BY <2>1, <2>2
<1>2. /\ HeaderLen \in Nat /\ SumLen \in Nat
      /\ pos \in Nat /\ cOffset \in Nat /\ startOffset \in Nat /\ rpos \in Nat
      /\ statStart.size \in Nat
  <2>1. cOffset \in Nat /\ startOffset \in Nat /\ rpos \in Nat /\ pos \in 0 .. Len(out)
    BY DEF TypeOK
  <2>2. statStart.size \in Nat
    BY SourceType DEF TypeOK
  <2> QED
    BY <1>1, <2>1, <2>2, NAssumption, SumLenType DEF HeaderLen
<1>3. ASSUME NEW cells, IsImage(cells), Emit(cells)
      PROVE  pos' = pos + Len(cells) /\ Len(cells) \in Nat
  BY <1>3 DEF Emit, IsImage
<1>4. CASE pc' = "stopped" /\ UNCHANGED <<cOffset, archive>>
  BY <1>1, <1>4 DEF Positioned, Started, Reading
<1>5. CASE FirstHeader
  <2>1. pc' = "next" /\ cOffset' = HeaderLen /\ pc = "start"
    BY <1>5 DEF FirstHeader
  <2>2. Emit(Header(Found, 0, 0))
    BY <1>5 DEF FirstHeader, Found
  <2>3. pos' = pos + HeaderLen
    BY <1>3, <2>2, FoundImage, HeaderImage DEF HeaderLen
  <2>4. pos = 0
    BY <2>1 DEF Positioned
  <2>5. pos' = cOffset' /\ HeaderLen <= cOffset' /\ cOffset' <= Len(out')
    BY <1>1, <1>2, <2>1, <2>3, <2>4
  <2> QED
    BY <1>1, <2>1, <2>5 DEF Positioned, Started, Reading, Edge
<1>6. CASE SpecialEntry
  BY <1>1, <1>6 DEF SpecialEntry, Positioned, Started, Reading, Edge, archive
<1>7. CASE RegularEntry
  BY <1>1, <1>7 DEF RegularEntry, Positioned, Started, Reading, Edge, archive
<1>8. CASE Open
  <2> DEFINE cells == IF Checksums THEN <<ZeroCell>> ELSE << >>
  <2>1. IsImage(cells) /\ Len(cells) = SumLen
    BY OneCell, NoCell DEF SumLen
  <2>2. Emit(cells)
    BY <1>8 DEF Open
  <2> HIDE DEF cells
  <2>3. pos' = pos + SumLen
    BY <1>3, <2>1, <2>2
  <2>4. /\ pc = "open" /\ pc' = "read" /\ startOffset' = cOffset /\ cOffset' = cOffset + SumLen
        /\ rpos' = 0 /\ cur' = cur
    BY <1>8 DEF Open
  <2>5. pos = cOffset /\ cur \in Regular /\ HeaderLen <= cOffset /\ cOffset <= Len(out)
    BY <2>4 DEF Positioned, Started, Edge, Reading
  <2>6. /\ HeaderLen <= startOffset' /\ startOffset' <= Len(out')
        /\ pos' = cOffset' /\ pos' = startOffset' + SumLen /\ pos' = startOffset' + SumLen + rpos'
        /\ startOffset' + SumLen <= pos'
    BY <1>1, <1>2, <2>3, <2>4, <2>5
  <2> QED
    BY <1>1, <2>4, <2>5, <2>6 DEF Positioned, Started, Reading, Edge
<1>9. CASE OpenFails
  BY <1>1, <1>4, <1>9 DEF OpenFails, Stop, Positioned, Started, Reading, Edge, archive
<1>10. ASSUME pc = "read"
       PROVE  /\ HeaderLen <= startOffset /\ startOffset <= Len(out)
              /\ pos = IF NoCompress THEN startOffset + SumLen + rpos ELSE cOffset
              /\ startOffset + SumLen <= pos
              /\ NoCompress => cOffset = startOffset + SumLen
  BY <1>10 DEF Positioned, Started, Edge, Reading
<1>11. CASE ReadBlock
  <2>1. pc = "read" /\ pc' \in {"read", "stat"} /\ ~NoCompress /\ startOffset' = startOffset
    BY <1>11 DEF ReadBlock
  <2>2. pos' = cOffset' /\ pos <= pos'
    <3>1. CASE UNCHANGED <<cOffset, archive>>
      BY <1>2, <1>10, <2>1, <3>1 DEF archive
    <3>2. ASSUME NEW u, NEW len \in 1 .. MaxComp, cOffset' = cOffset + len,
                 Emit([j \in 1 .. len |-> DataCell(u, j, len)])
          PROVE  pos' = cOffset' /\ pos <= pos'
      <4>1. len \in Nat
        BY BoundsAssumption
      <4>2. pos' = pos + len
        BY <3>2, <4>1, <1>3, BlockImage
      <4> QED
        BY <1>2, <1>10, <2>1, <3>2, <4>1, <4>2
    <3> QED
      BY <1>11, <3>1, <3>2 DEF ReadBlock
  <2>3. startOffset' + SumLen <= pos' /\ HeaderLen <= startOffset' /\ startOffset' <= Len(out')
    BY <1>1, <1>2, <1>10, <2>1, <2>2
  <2> QED
    BY <1>1, <2>1, <2>2, <2>3 DEF Positioned, Started, Reading, Edge
<1>12. CASE CopyUnit
  <2>1. PICK c : Emit(<<c>>)
    BY <1>12 DEF CopyUnit
  <2>2. pos' = pos + 1
    BY <1>3, <2>1, OneCell
  <2>3. /\ pc = "read" /\ pc' = "read" /\ NoCompress /\ rpos' = rpos + 1
        /\ UNCHANGED <<startOffset, cOffset>>
    BY <1>12 DEF CopyUnit
  <2>4. /\ HeaderLen <= startOffset' /\ startOffset' <= Len(out')
        /\ pos' = startOffset' + SumLen + rpos' /\ startOffset' + SumLen <= pos'
        /\ cOffset' = startOffset' + SumLen
    BY <1>1, <1>2, <1>10, <2>2, <2>3
  <2> QED
    BY <1>1, <2>3, <2>4 DEF Positioned, Started, Reading, Edge
<1>13. CASE CopyEnds
  <2>1. /\ pc = "read" /\ pc' = "stat" /\ NoCompress /\ cOffset' = cOffset + statStart.size
        /\ UNCHANGED <<startOffset, rpos, pos, out, statStart>>
    BY <1>13 DEF CopyEnds, archive
  <2>2. /\ HeaderLen <= startOffset' /\ startOffset' <= Len(out')
        /\ pos' = startOffset' + SumLen + rpos' /\ startOffset' + SumLen <= pos'
        /\ cOffset' = startOffset' + SumLen + statStart'.size
    BY <1>1, <1>2, <1>10, <2>1
  <2> QED
    BY <1>1, <2>1, <2>2 DEF Positioned, Started, Reading, Edge
<1>14. ASSUME pc = "stat"
       PROVE  HeaderLen <= startOffset /\ startOffset <= Len(out) /\ cur \in Regular
  BY <1>14 DEF Positioned, Versioned, Started, Edge, Reading
<1>15. CASE Retry
  <2>1. /\ pc = "stat" /\ pc' = "open" /\ cur' = cur
        /\ pos' = startOffset /\ cOffset' = startOffset
    BY <1>15 DEF Retry, Rewind
  <2>2. HeaderLen <= cOffset' /\ cOffset' <= Len(out')
    BY <1>1, <1>2, <1>14, <2>1
  <2> QED
    BY <1>1, <1>14, <2>1, <2>2 DEF Positioned, Started, Reading, Edge
<1>16. CASE GiveUp /\ ~FailOnChange
  <2>1. pc = "stat" /\ pc' = "next" /\ pos' = startOffset /\ cOffset' = startOffset
    BY <1>16 DEF GiveUp, Rewind
  <2>2. HeaderLen <= cOffset' /\ cOffset' <= Len(out')
    BY <1>1, <1>2, <1>14, <2>1
  <2> QED
    BY <1>1, <2>1, <2>2 DEF Positioned, Started, Reading, Edge
<1>17. CASE Keep
  <2>1. pc = "stat" /\ pc' = "next" /\ cOffset' = cOffset /\ Unchanged
    BY <1>17 DEF Keep, Changed, Unchanged
  <2>2. pos = cOffset /\ startOffset <= cOffset
    BY <1>2, <2>1 DEF SoFar, Positioned, Reading
  <2>3. pos' = cOffset'
    BY <1>17, <2>1, <2>2 DEF Keep, archive
  <2>4. HeaderLen <= cOffset' /\ cOffset' <= Len(out')
    BY <1>1, <1>2, <1>14, <2>1, <2>2, <2>3
  <2> QED
    BY <1>1, <2>1, <2>3, <2>4 DEF Positioned, Started, Reading, Edge
<1>18. CASE WriteTrailer
  <2>1. pc = "next" /\ pc' = "header" /\ cOffset' = cOffset
    BY <1>18 DEF WriteTrailer
  <2>2. HeaderLen <= cOffset /\ cOffset <= Len(out)
    BY <2>1 DEF Positioned, Started, Reading, Edge
  <2>3. HeaderLen <= cOffset' /\ cOffset' <= Len(out')
    BY <1>1, <1>2, <2>1, <2>2
  <2> QED
    BY <1>1, <2>1, <2>3 DEF Positioned, Started, Reading, Edge
<1>19. CASE FinalHeaderBegins
  <2>1. /\ pc = "header" /\ pc' = "close" /\ UNCHANGED <<cOffset, kept>>
        /\ Len(FinalHeader) = HeaderLen
    BY <1>19 DEF FinalHeaderBegins
  <2>2. PICK n \in 1 .. Len(FinalHeader) - 1 : pos' = n
    BY <1>19 DEF FinalHeaderBegins
  <2>3. pos' <= HeaderLen
    BY <1>2, <2>1, <2>2
  <2>4. Len(kept) = N
    <3>1. Len(FinalHeader) = Len(kept) + 2 /\ Len(kept) \in Nat
      BY KeptImage, HeaderImage DEF FinalHeader, IsImage
    <3> QED
      BY <2>1, <3>1, NAssumption DEF HeaderLen
  <2>5. HeaderLen <= cOffset /\ cOffset <= Len(out)
    BY <2>1 DEF Positioned, Started, Reading, Edge
  <2>6. HeaderLen <= cOffset' /\ cOffset' <= Len(out')
    BY <1>1, <1>2, <2>1, <2>5
  <2> QED
    BY <1>1, <2>1, <2>3, <2>4, <2>6 DEF Positioned, Started, Reading, Edge
<1>20. CASE Close
  <2>1. pc = "close" /\ pc' = "done" /\ UNCHANGED cOffset
    BY <1>20 DEF Close
  <2>2. HeaderLen <= cOffset /\ cOffset <= Len(out)
    BY <2>1 DEF Positioned, Started, Reading, Edge
  <2>3. HeaderLen <= cOffset' /\ cOffset' <= Len(out')
    BY <1>1, <1>2, <2>1, <2>2
  <2> QED
    BY <1>1, <2>1, <2>3 DEF Positioned, Started, Reading, Edge
<1>21. CASE Environment
  BY <1>1, <1>21 DEF Environment, Positioned, Started, Reading, Edge, reading, archive
<1>22. CASE Refuse \/ ReadFails \/ EndStatPanics \/ HeaderMismatch \/ (GiveUp /\ FailOnChange)
  BY <1>4, <1>22 DEF Refuse, ReadFails, EndStatPanics, HeaderMismatch, GiveUp, Stop
<1>23. CASE OutputFails
  <2>1. pc' = "stopped"
    BY <1>23, OutputBroken
  <2> QED
    BY <1>1, <2>1 DEF Positioned, Started, Reading
<1> QED
  BY <1>0, <1>5, <1>6, <1>7, <1>8, <1>9, <1>11, <1>12, <1>13, <1>15, <1>16, <1>17, <1>18,
     <1>19, <1>20, <1>21, <1>22, <1>23 DEF Next, Program, Progress, Ended

-----------------------------------------------------------------------------
(* The edge of what is kept never moves back.                              *)
LEMMA EdgeGrows ==
  ASSUME TypeOK, Positioned, SoFar, Next, Started, Started'
  PROVE  Edge \in Nat /\ Edge' \in Nat /\ Edge <= Edge'
<1>1. /\ HeaderLen \in Nat /\ SumLen \in Nat /\ cOffset \in Nat /\ startOffset \in Nat
      /\ statStart.size \in Nat
  BY Numbers
<1>2. CASE UNCHANGED Edge
  BY <1>1, <1>2 DEF Edge
<1>3. CASE Keep
  <2>1. pc = "stat" /\ pc' = "next" /\ cOffset' = cOffset /\ Unchanged
    BY <1>3 DEF Keep, Changed, Unchanged
  <2>2. startOffset + SumLen <= pos /\ pos = cOffset /\ pos \in Nat
    <3>1. pos = cOffset /\ startOffset + SumLen <= pos
      BY <1>1, <2>1 DEF SoFar, Positioned, Reading
    <3> QED
      BY <1>1, <3>1
  <2>3. Edge = startOffset /\ Edge' = cOffset
    BY <2>1 DEF Edge, Reading
  <2> QED
    BY <1>1, <2>2, <2>3
<1>4. CASE Environment \/ Refuse \/ ReadBlock \/ CopyUnit \/ CopyEnds \/ SpecialEntry
           \/ RegularEntry \/ OpenFails \/ WriteTrailer \/ FinalHeaderBegins \/ Close \/ Ended
  BY <1>2, <1>4 DEF Environment, Refuse, ReadBlock, CopyUnit, CopyEnds, SpecialEntry,
     RegularEntry, OpenFails, WriteTrailer, FinalHeaderBegins, Close, Ended, vars,
     Edge, Reading, Started, Stop, reading
<1>5. CASE Open \/ Retry \/ GiveUp
  BY <1>2, <1>5 DEF Open, Retry, GiveUp, Rewind, Stop, Edge, Reading, Started
<1>6. CASE FirstHeader \/ ReadFails \/ EndStatPanics \/ HeaderMismatch
  BY <1>6 DEF FirstHeader, ReadFails, EndStatPanics, HeaderMismatch, Stop, Started
<1>7. CASE OutputFails
  BY <1>7, OutputBroken DEF Started
<1> QED
  BY <1>3, <1>4, <1>5, <1>6, <1>7 DEF Next, Program, Progress

(* The blocks of an attempt lie between its start and the computed offset  *)
(* once its file turns out to be unchanged.                                *)
LEMMA AttemptWithin ==
  ASSUME TypeOK, Positioned, SoFar, pc = "stat", Unchanged
  PROVE  Within(blocks, startOffset + SumLen, cOffset)
<1>1. /\ SumLen \in Nat /\ cOffset \in Nat /\ startOffset \in Nat
      /\ statStart.size \in Nat
  BY Numbers
<1>2. CASE NoCompress
  <2>1. /\ blocks = <<[off |-> startOffset + SumLen, size |-> statStart.size]>>
        /\ cOffset = startOffset + SumLen + statStart.size
    BY <1>2 DEF SoFar, Positioned, Reading
  <2> QED
    BY <1>1, <2>1 DEF Within
<1> QED
  BY <1>2 DEF SoFar, Reading

LEMMA KeptBelowStep ==
  ASSUME TypeOK, Positioned, KeptBelow, SoFar, [Next]_vars
  PROVE  KeptBelow'
<1>0. CASE UNCHANGED vars
  BY <1>0 DEF KeptBelow, Started, Edge, Reading, vars
<1> SUFFICES ASSUME Next, Started' PROVE KeptBelow'
  BY <1>0 DEF KeptBelow
<1>0a. ~OutputFails
  BY OutputBroken DEF Started
<1>1. CASE ~Started
  <2>1. FirstHeader
    BY <1>0a, <1>1 DEF Next, Program, Progress, Refuse, SpecialEntry, RegularEntry, Open, OpenFails,
       ReadBlock, CopyUnit, CopyEnds, ReadFails, EndStatPanics, Retry, GiveUp, Keep,
       WriteTrailer, HeaderMismatch, FinalHeaderBegins, Close, Environment, Ended, vars,
       Stop, Started, WriteSource, ReplaceSource, RemoveSource, Tick, Running
  <2>2. Len(kept') = 0
    BY <2>1 DEF FirstHeader, Positioned
  <2> QED
    BY <2>2 DEF KeptBelow
<1>2. CASE Started
  <2>1. Edge \in Nat /\ Edge' \in Nat /\ Edge <= Edge'
    BY <1>2, EdgeGrows
  <2>2. kept \in Seq(KeptType) /\ Len(kept) \in Nat
    BY KeptImage
  <2>3. ASSUME NEW j \in 1 .. Len(kept), kept[j].id \in Regular
        PROVE  Within(kept[j].blocks, HeaderLen + SumLen, Edge')
    <3>1. Within(kept[j].blocks, HeaderLen + SumLen, Edge)
      BY <1>2, <2>3 DEF KeptBelow
    <3>2. kept[j].blocks \in Seq(BlockType)
      <4>1. kept[j] \in KeptType
        BY <2>2
      <4> QED
        BY <4>1 DEF KeptType
    <3>3. \A k \in 1 .. Len(kept[j].blocks) :
            kept[j].blocks[k].off \in Nat /\ kept[j].blocks[k].size \in Nat
      BY <3>2, BlocksType
    <3> QED
      BY <2>1, <3>1, <3>3 DEF Within
  <2>4. CASE UNCHANGED kept
    BY <2>3, <2>4 DEF KeptBelow, HeaderLen, SumLen
  <2>5. ASSUME NEW e, kept' = Append(kept, e),
               e.id \in Regular => Within(e.blocks, HeaderLen + SumLen, Edge')
        PROVE  KeptBelow'
    <3>1. /\ Len(kept') = Len(kept) + 1
          /\ \A j \in 1 .. Len(kept) : kept'[j] = kept[j]
          /\ kept'[Len(kept) + 1] = e
      BY <2>2, <2>5, AppendProperties
    <3>2. ASSUME NEW j \in 1 .. Len(kept'), kept'[j].id \in Regular
          PROVE  Within(kept'[j].blocks, HeaderLen + SumLen, Edge')
      BY <2>2, <2>3, <2>5, <3>1, <3>2
    <3> QED
      BY <3>2 DEF KeptBelow, HeaderLen, SumLen
  <2>6. CASE SpecialEntry
    <3>1. Entry(cur, 0, path[cur].ver, FALSE, 0, << >>).id = cur /\ cur \notin Regular
      BY <2>6 DEF SpecialEntry, Entry
    <3> QED
      BY <2>5, <2>6, <3>1 DEF SpecialEntry
  <2>7. CASE Keep
    <3> DEFINE e == Entry(cur, path[cur].size, path[cur].ver, hadChange, startOffset, blocks)
    <3>1. pc = "stat" /\ pc' = "next" /\ cOffset' = cOffset /\ Unchanged /\ kept' = Append(kept, e)
      BY <2>7 DEF Keep, Changed, Unchanged
    <3>2. e.blocks = blocks /\ Edge' = cOffset
      BY <3>1 DEF Entry, Edge, Reading
    <3>3. Within(blocks, startOffset + SumLen, cOffset)
      BY <3>1, AttemptWithin
    <3>4. HeaderLen <= startOffset /\ HeaderLen \in Nat /\ SumLen \in Nat /\ startOffset \in Nat
      <4>1. HeaderLen <= startOffset
        BY <1>2, <3>1 DEF Positioned, Edge, Reading
      <4> QED
        BY <4>1, Numbers
    <3>5. \A k \in 1 .. Len(blocks) : blocks[k].off \in Nat
      BY Numbers, BlocksType
    <3>6. Within(blocks, HeaderLen + SumLen, cOffset)
      BY <3>3, <3>4, <3>5 DEF Within
    <3> HIDE DEF e
    <3> QED
      BY <2>5, <3>1, <3>2, <3>6
  <2> QED
    BY <1>0a, <2>4, <2>6, <2>7
       DEF Next, Program, Progress, Refuse, FirstHeader, RegularEntry, Open, OpenFails,
       ReadBlock, CopyUnit, CopyEnds, ReadFails, EndStatPanics, Retry, GiveUp,
       WriteTrailer, HeaderMismatch, FinalHeaderBegins, Close, Environment, Ended, vars
<1> QED
  BY <1>1, <1>2

-----------------------------------------------------------------------------
(* A file's blocks.                                                        *)
LEMMA BlockCount ==
  ASSUME NEW n \in Nat
  PROVE  /\ n * BlockSize \in Nat
         /\ (n + 1) * BlockSize = n * BlockSize + BlockSize
         /\ (n - 1) * BlockSize = n * BlockSize - BlockSize
BY BlockSizeAssumption

LEMMA ContentType ==
  ASSUME NEW i, NEW f, f.size \in Nat
  PROVE  /\ Content(i, f) \in Seq({Unit(i, f, k) : k \in 1 .. f.size})
         /\ Len(Content(i, f)) = f.size
         /\ \A k \in 1 .. f.size : Content(i, f)[k] = Unit(i, f, k)
<1> DEFINE S == {Unit(i, f, k) : k \in 1 .. f.size}
<1>1. Content(i, f) \in [1 .. f.size -> S]
  BY DEF Content
<1>2. Content(i, f) \in Seq(S)
  BY <1>1, SeqDef
<1>3. Len(Content(i, f)) = f.size
  BY <1>1, <1>2, LenProperties
<1> QED
  BY <1>2, <1>3 DEF Content

LEMMA NextPart ==
  ASSUME NEW S, NEW s \in Seq(S), NEW n \in Nat, NEW m \in 1 .. BlockSize,
         n * BlockSize + m <= Len(s),
         m = BlockSize \/ n * BlockSize + m = Len(s)
  PROVE  Part(s, n + 1) = [k \in 1 .. m |-> s[n * BlockSize + k]]
<1> DEFINE from == n * BlockSize
           sub == [k \in 1 .. m |-> s[from + k]]
<1>1. from \in Nat /\ m \in Nat /\ Len(s) \in Nat /\ BlockSize \in Nat /\ m <= BlockSize
  BY BlockCount, BlockSizeAssumption, LenProperties
<1>2. ((n + 1) - 1) * BlockSize = from /\ (n + 1) * BlockSize = from + BlockSize
  BY BlockCount
<1> HIDE DEF from
<1>3. (IF from + BlockSize < Len(s) THEN from + BlockSize ELSE Len(s)) = from + m
  BY <1>1 DEF from
<1>4. Part(s, n + 1) = SubSeq(s, from + 1, from + m)
  BY <1>2, <1>3 DEF Part
<1>5. from + m <= Len(s)
  BY DEF from
<1>6. /\ SubSeq(s, from + 1, from + m) \in Seq(S)
      /\ Len(SubSeq(s, from + 1, from + m)) = m
      /\ \A k \in 1 .. m : SubSeq(s, from + 1, from + m)[k] = s[from + k]
  BY <1>1, <1>5
<1>7. sub \in Seq(S) /\ Len(sub) = m
  <2>1. sub \in [1 .. m -> S]
    BY <1>1, <1>5
  <2>2. sub \in Seq(S)
    BY <1>1, <2>1, SeqDef
  <2> QED
    BY <1>1, <2>2, LenProperties
<1>8. SubSeq(s, from + 1, from + m) = sub
  BY <1>6, <1>7, SeqEqual
<1> QED
  BY <1>4, <1>8 DEF from

(* A block stays as it is while its own cells do.                          *)
LEMMA BlockStable ==
  ASSUME NEW img, NEW img2, Len(img) \in Nat, Len(img2) \in Nat, Len(img) <= Len(img2),
         NEW b \in BlockType, NEW units, BlockHolds(img, b, units),
         \A k \in 1 .. b.size : img2[b.off + k] = img[b.off + k]
  PROVE  BlockHolds(img2, b, units)
<1>1. b.off \in Nat /\ b.size \in Nat
  BY DEF BlockType
<1>2. b.off + b.size <= Len(img2)
  BY <1>1 DEF BlockHolds
<1> QED
  BY <1>1, <1>2 DEF BlockHolds

LEMMA BlocksStable ==
  ASSUME NEW img, NEW img2, Len(img) \in Nat, Len(img2) \in Nat, Len(img) <= Len(img2),
         NEW bs \in Seq(BlockType), NEW units, BlocksHold(img, bs, units),
         NEW lo \in Nat, NEW hi \in Nat, Within(bs, lo, hi),
         \A k \in lo + 1 .. hi : img2[k] = img[k]
  PROVE  BlocksHold(img2, bs, units)
<1>1. ASSUME NEW j \in 1 .. Len(bs), NEW u, BlockHolds(img, bs[j], u)
      PROVE  BlockHolds(img2, bs[j], u)
  <2>1. bs[j] \in BlockType /\ bs[j].off \in Nat /\ bs[j].size \in Nat
    BY BlocksType
  <2>2. lo <= bs[j].off /\ bs[j].off + bs[j].size <= hi
    BY DEF Within
  <2>3. \A k \in 1 .. bs[j].size : bs[j].off + k \in lo + 1 .. hi
    BY <2>1, <2>2
  <2> QED
    BY <1>1, <2>1, <2>3, BlockStable
<1>2. CASE NoCompress
  <2>1. Len(bs) = 1 /\ BlockHolds(img, bs[1], units)
    BY <1>2 DEF BlocksHold
  <2> QED
    BY <1>1, <1>2, <2>1 DEF BlocksHold
<1>3. CASE ~NoCompress
  BY <1>1, <1>3 DEF BlocksHold
<1> QED
  BY <1>2, <1>3

-----------------------------------------------------------------------------
(* Every step keeps what the attempt at hand has got so far.               *)

(* What the open file still has, and what reading it feeds to the hasher.  *)
LEMMA ReadUnits ==
  ASSUME TypeOK, Versioned, SoFar, pc = "read", Unchanged, NEW m \in Nat, m > 0
  PROVE  /\ Available(m) \in 0 .. m
         /\ rpos + Available(m) <= statStart.size
         /\ Available(m) < m => rpos + Available(m) = statStart.size
         /\ \A k \in 1 .. Available(m) : Units(Available(m))[k] = Source[rpos + k]
         /\ Hash(Units(Available(m))) /\ Checksums =>
              hashed' = [k \in 1 .. rpos + Available(m) |-> Source[k]]
<1>1. inode = statStart /\ rpos <= statStart.size /\ cur \in Regular
  BY DEF Versioned, SoFar, Reading
<1>2. rpos \in Nat /\ statStart.size \in Nat
  BY Numbers
<1> DEFINE n == Available(m)
<1>3. n \in 0 .. m /\ rpos + n <= statStart.size /\ (n < m => rpos + n = statStart.size)
  BY <1>1, <1>2 DEF Available
<1>4. n \in Nat /\ rpos + n \in Nat
  BY <1>2, <1>3
<1> HIDE DEF n
<1>5. \A k \in 1 .. n : Units(n)[k] = Source[rpos + k]
  <2>1. ASSUME NEW k \in 1 .. n PROVE Units(n)[k] = Source[rpos + k]
    <3>1. Units(n)[k] = Unit(cur, statStart, rpos + k)
      BY <1>1 DEF Units
    <3>2. rpos + k \in 1 .. statStart.size
      BY <1>2, <1>3, <1>4
    <3> QED
      BY <3>1, <3>2 DEF Source, Content
  <2> QED
    BY <2>1
<1>6. ASSUME Hash(Units(n)), Checksums
      PROVE  hashed' = [k \in 1 .. rpos + n |-> Source[k]]
  <2> DEFINE S == {Source[k] : k \in 1 .. rpos + n}
             before == [k \in 1 .. rpos |-> Source[k]]
             after == [k \in 1 .. rpos + n |-> Source[k]]
  <2>1. hashed = before
    BY <1>6 DEF SoFar, Reading
  <2>2. hashed' = before \o Units(n)
    BY <1>6, <2>1 DEF Hash
  <2>3. before \in [1 .. rpos -> S] /\ after \in [1 .. rpos + n -> S]
    BY <1>2, <1>4
  <2>4. before \in Seq(S) /\ Len(before) = rpos /\ after \in Seq(S) /\ Len(after) = rpos + n
    BY <1>2, <1>4, <2>3, SeqDef, LenProperties
  <2>5. Units(n) \in [1 .. n -> S]
    <3>1. \A k \in 1 .. n : Unit(cur, inode, rpos + k) = Source[rpos + k]
      BY <1>5 DEF Units
    <3>2. \A k \in 1 .. n : rpos + k \in 1 .. rpos + n
      BY <1>2, <1>4
    <3> QED
      BY <3>1, <3>2 DEF Units
  <2>6. Units(n) \in Seq(S) /\ Len(Units(n)) = n
    BY <1>4, <2>5, SeqDef, LenProperties
  <2>7. \A k \in 1 .. rpos : before[k] = Source[k]
    OBVIOUS
  <2>8. \A k \in 1 .. rpos + n : after[k] = Source[k]
    OBVIOUS
  <2> HIDE DEF S, before, after
  <2>9. /\ before \o Units(n) \in Seq(S) /\ Len(before \o Units(n)) = rpos + n
        /\ \A k \in 1 .. rpos + n :
             (before \o Units(n))[k] = IF k <= rpos THEN before[k] ELSE Units(n)[k - rpos]
    BY <2>4, <2>6, ConcatProperties
  <2>10. ASSUME NEW k \in 1 .. rpos + n PROVE (before \o Units(n))[k] = after[k]
    <3>1. CASE k <= rpos
      <4>1. k \in 1 .. rpos
        BY <1>2, <3>1
      <4> QED
        BY <2>7, <2>8, <2>9, <3>1, <4>1
    <3>2. CASE ~(k <= rpos)
      <4>1. k - rpos \in 1 .. n /\ rpos + (k - rpos) = k
        BY <1>2, <1>4, <3>2
      <4> QED
        BY <1>5, <2>8, <2>9, <3>2, <4>1
    <3> QED
      BY <3>1, <3>2
  <2>11. before \o Units(n) = after
    BY <2>4, <2>9, <2>10, SeqEqual
  <2> QED
    BY <2>2, <2>11 DEF after
<1> QED
  BY <1>3, <1>5, <1>6 DEF n

LEMMA BlockWritten ==
  ASSUME NEW units, NEW len \in Nat \ {0}, ~NoCompress,
         IsImage(out), pos \in 0 .. Len(out),
         Emit([j \in 1 .. len |-> DataCell(units, j, len)])
  PROVE  /\ pos' = pos + len /\ IsImage(out') /\ Len(out) <= Len(out') /\ pos' <= Len(out')
         /\ \A k \in 1 .. pos : out'[k] = out[k]
         /\ BlockHolds(out', [off |-> pos, size |-> len], units)
<1> DEFINE cells == [j \in 1 .. len |-> DataCell(units, j, len)]
<1>1. IsImage(cells) /\ Len(cells) = len /\ \A k \in 1 .. len : cells[k] = DataCell(units, k, len)
  BY BlockImage
<1>2. Emit(cells)
  OBVIOUS
<1> HIDE DEF cells
<1>3. /\ IsImage(out') /\ pos' = pos + len
      /\ Len(out) <= Len(out') /\ pos' <= Len(out')
      /\ \A k \in 1 .. pos : out'[k] = out[k]
      /\ \A k \in 1 .. len : out'[pos + k] = cells[k]
  BY <1>1, <1>2, EmitImage
<1>4. pos + len <= Len(out') /\ len >= 1
  BY <1>3
<1> QED
  BY <1>1, <1>3, <1>4 DEF BlockHolds

LEMMA ReadBlockSoFar ==
  ASSUME TypeOK, Versioned, Positioned, SoFar, ReadBlock, Unchanged'
  PROVE  SoFar'
<1>1. /\ pc = "read" /\ ~NoCompress
      /\ UNCHANGED <<path, cur, statStart, startOffset>>
  BY DEF ReadBlock, source
<1>2. Unchanged
  BY <1>1 DEF Unchanged
<1>3. /\ IsImage(out) /\ pos = cOffset /\ pos \in 0 .. Len(out)
      /\ startOffset + SumLen <= pos
  BY <1>1 DEF Positioned, TypeOK, Reading
<1>4. /\ SumLen \in Nat /\ cOffset \in Nat /\ startOffset \in Nat /\ rpos \in Nat
      /\ statStart.size \in Nat /\ blocks \in Seq(BlockType)
      /\ Len(out) \in Nat
  BY <1>3, Numbers DEF IsImage
<1> DEFINE n == Available(BlockSize)
           L == Len(blocks)
<1>5. /\ n \in 0 .. BlockSize
      /\ rpos + n <= statStart.size
      /\ n < BlockSize => rpos + n = statStart.size
      /\ \A k \in 1 .. n : Units(n)[k] = Source[rpos + k]
      /\ Hash(Units(n)) /\ Checksums => hashed' = [k \in 1 .. rpos + n |-> Source[k]]
  BY <1>1, <1>2, ReadUnits, BlockSizeAssumption
<1>6. Hash(Units(n)) /\ rpos' = rpos + n /\ pc' = IF n = BlockSize THEN "read" ELSE "stat"
  BY DEF ReadBlock
<1>7. /\ rpos = L * BlockSize
      /\ Within(blocks, startOffset + SumLen, cOffset)
      /\ blocks = << >> => cOffset = startOffset + SumLen
      /\ blocks # << >> => blocks[1].off = startOffset + SumLen
      /\ \A k \in 1 .. L : BlockHolds(out, blocks[k], Part(Source, k))
  BY <1>1, <1>2 DEF SoFar, Reading
<1>8. L \in Nat /\ L * BlockSize \in Nat /\ n \in Nat /\ BlockSize \in Nat /\ BlockSize > 0
      /\ (L + 1) * BlockSize = L * BlockSize + BlockSize
      /\ (L - 1) * BlockSize = L * BlockSize - BlockSize
  <2>1. L \in Nat
    BY <1>4, BlocksType
  <2>2. n \in Nat /\ BlockSize \in Nat /\ BlockSize > 0
    BY <1>5, BlockSizeAssumption
  <2> HIDE DEF L, n
  <2> QED
    BY <2>1, <2>2, BlockCount
<1>9. Source' = Source /\ Len(Source) = statStart.size
  BY <1>1, <1>4, ContentType DEF Source
<1>10. CASE n = 0
  <2>1. UNCHANGED <<blocks, cOffset, out, pos>>
    BY <1>10 DEF ReadBlock, archive
  <2>2. pc' = "stat" /\ rpos' = rpos /\ rpos = statStart.size
    BY <1>4, <1>5, <1>6, <1>8, <1>10
  <2>3. L * BlockSize = statStart.size /\ (L - 1) * BlockSize < statStart.size
    BY <1>7, <1>8, <2>2, <1>4
  <2>4. BlocksHold(out, blocks, Source)
    BY <1>1, <1>4, <1>7, <1>8, <1>9, <2>3 DEF BlocksHold
  <2>5. Checksums => hashed' = [k \in 1 .. rpos' |-> Source[k]]
    BY <1>5, <1>6
  <2> HIDE DEF L, n
  <2> QED
    BY <1>1, <1>4, <1>7, <1>9, <2>1, <2>2, <2>4, <2>5 DEF SoFar, L
<1>11. CASE n # 0
  <2>0. \E len \in 1 .. MaxComp :
               /\ Emit([j \in 1 .. len |-> DataCell(Units(n), j, len)])
               /\ blocks' = Append(blocks, [off |-> cOffset, size |-> len])
               /\ cOffset' = cOffset + len
    BY <1>11 DEF ReadBlock
  <2>1. PICK len \in 1 .. MaxComp :
               /\ Emit([j \in 1 .. len |-> DataCell(Units(n), j, len)])
               /\ blocks' = Append(blocks, [off |-> cOffset, size |-> len])
               /\ cOffset' = cOffset + len
    BY <2>0
  <2>2. len \in Nat \ {0} /\ len \in Nat
    BY BoundsAssumption
  <2>3. /\ pos' = pos + len /\ IsImage(out') /\ Len(out) <= Len(out') /\ pos' <= Len(out')
        /\ \A k \in 1 .. pos : out'[k] = out[k]
        /\ BlockHolds(out', [off |-> pos, size |-> len], Units(n))
    BY <1>1, <1>3, <2>1, <2>2, BlockWritten
  <2> DEFINE b == [off |-> cOffset, size |-> len]
  <2>4. b \in BlockType /\ b.off = cOffset /\ b.size = len
    BY <1>4, <2>2 DEF BlockType
  <2> HIDE DEF b
  <2>5. /\ Len(blocks') = L + 1 /\ blocks' \in Seq(BlockType)
        /\ \A k \in 1 .. L : blocks'[k] = blocks[k]
        /\ blocks'[L + 1] = b
    BY <1>4, <2>1, <2>4, AppendProperties DEF b
  <2>6. Part(Source, L + 1) = Units(n)
    <3>1. Source \in Seq({Unit(cur, statStart, k) : k \in 1 .. statStart.size})
      BY <1>4, ContentType DEF Source
    <3>2. n \in 1 .. BlockSize /\ L * BlockSize + n <= Len(Source)
          /\ (n = BlockSize \/ L * BlockSize + n = Len(Source))
      BY <1>5, <1>7, <1>8, <1>9, <1>11
    <3> HIDE DEF L, n
    <3>3. Part(Source, L + 1) = [k \in 1 .. n |-> Source[L * BlockSize + k]]
      BY <1>8, <3>1, <3>2, NextPart
    <3>4. Units(n) = [k \in 1 .. n |-> Source[rpos + k]]
      <4>1. Units(n) = [k \in 1 .. n |-> Units(n)[k]]
        BY DEF Units
      <4> QED
        BY <1>5, <4>1
    <3> QED
      BY <1>7, <3>3, <3>4
  <2>7. Len(out') \in Nat
    BY <2>3 DEF IsImage
  <2> HIDE DEF L, n
  <2>8. \A k \in 1 .. L + 1 : BlockHolds(out', blocks'[k], Part(Source, k))
    <3>1. ASSUME NEW k \in 1 .. L PROVE BlockHolds(out', blocks[k], Part(Source, k))
      <4>1. blocks[k] \in BlockType /\ blocks[k].off \in Nat /\ blocks[k].size \in Nat
        BY <1>4, BlocksType DEF L
      <4>2. blocks[k].off + blocks[k].size <= pos
        BY <1>3, <1>7 DEF Within, L
      <4>3. \A i \in 1 .. blocks[k].size : blocks[k].off + i \in 1 .. pos
        <5>1. pos \in Nat
          BY <1>3, <1>4
        <5> QED
          BY <4>1, <4>2, <5>1
      <4>4. \A i \in 1 .. blocks[k].size : out'[blocks[k].off + i] = out[blocks[k].off + i]
        BY <2>3, <4>3
      <4>5. BlockHolds(out, blocks[k], Part(Source, k))
        BY <1>7
      <4> QED
        BY <1>4, <2>3, <2>7, <4>1, <4>4, <4>5, BlockStable
    <3>2. BlockHolds(out', b, Part(Source, L + 1))
      BY <1>3, <2>3, <2>6 DEF b
    <3>3. \A k \in 1 .. L + 1 : k \in 1 .. L \/ k = L + 1
      BY <1>8
    <3> QED
      BY <2>5, <3>1, <3>2, <3>3
  <2>9. Within(blocks', startOffset + SumLen, cOffset')
    <3>1. ASSUME NEW k \in 1 .. L + 1
          PROVE  startOffset + SumLen <= blocks'[k].off /\ blocks'[k].off + blocks'[k].size <= cOffset'
      <4>1. CASE k = L + 1
        BY <1>3, <1>4, <2>1, <2>2, <2>4, <2>5, <4>1
      <4>2. CASE k \in 1 .. L
        <5>1. startOffset + SumLen <= blocks[k].off /\ blocks[k].off + blocks[k].size <= cOffset
          BY <1>7, <4>2 DEF Within, L
        <5>2. blocks[k].off \in Nat /\ blocks[k].size \in Nat
          BY <1>4, <4>2, BlocksType DEF L
        <5> QED
          BY <1>4, <2>1, <2>2, <2>5, <4>2, <5>1, <5>2
      <4> QED
        BY <1>8, <4>1, <4>2
    <3> QED
      BY <2>5, <3>1 DEF Within
  <2>10. blocks'[1].off = startOffset + SumLen /\ blocks' # << >>
    <3>1. CASE blocks = << >>
      <4>1. L = 0
        BY <3>1 DEF L
      <4>2. Len(blocks') = 1 /\ blocks'[1] = b
        BY <2>5, <4>1
      <4>3. blocks' # << >>
        BY <4>2
      <4> QED
        BY <1>7, <2>4, <3>1, <4>2, <4>3
    <3>2. CASE blocks # << >>
      <4>1. L # 0
        BY <1>4, <3>2, EmptySeq DEF L
      <4> QED
        BY <1>7, <1>8, <2>5, <3>2, <4>1
    <3> QED
      BY <3>1, <3>2
  <2>11. pc' = "read" => rpos' = Len(blocks') * BlockSize
    BY <1>6, <1>7, <1>8, <2>5
  <2>12. pc' = "stat" => rpos' = statStart.size /\ BlocksHold(out', blocks', Source)
    <3> SUFFICES ASSUME pc' = "stat"
                 PROVE  rpos' = statStart.size /\ BlocksHold(out', blocks', Source)
      OBVIOUS
    <3>1. n < BlockSize /\ rpos + n = statStart.size /\ n > 0
      BY <1>5, <1>6, <1>8, <1>11
    <3>2. (L + 1) - 1 = L
      BY <1>8
    <3>3. Len(Source) <= (L + 1) * BlockSize /\ L * BlockSize < Len(Source)
      <4>1. L * BlockSize = rpos /\ (L + 1) * BlockSize = rpos + BlockSize
        BY <1>7, <1>8
      <4>2. Len(Source) = rpos + n
        BY <1>9, <3>1
      <4>3. rpos + n <= rpos + BlockSize /\ rpos < rpos + n
        BY <1>4, <1>8, <3>1
      <4> QED
        BY <4>1, <4>2, <4>3
    <3> QED
      BY <1>1, <1>6, <2>5, <2>8, <3>1, <3>2, <3>3 DEF BlocksHold
  <2>13. Checksums => hashed' = [k \in 1 .. rpos' |-> Source[k]]
    BY <1>5, <1>6
  <2>14. rpos' <= statStart.size
    BY <1>5, <1>6
  <2> QED
    BY <1>1, <1>9, <2>5, <2>8, <2>9, <2>10, <2>11, <2>12, <2>13, <2>14 DEF SoFar
<1> QED
  BY <1>10, <1>11

LEMMA CopyUnitSoFar ==
  ASSUME TypeOK, Versioned, Positioned, SoFar, CopyUnit, Unchanged'
  PROVE  SoFar'
<1>1. /\ pc = "read" /\ pc' = "read" /\ NoCompress /\ Available(1) = 1 /\ rpos' = rpos + 1
      /\ Hash(Units(1)) /\ Emit(<<DataCell(Units(1), 1, 1)>>)
      /\ UNCHANGED <<path, cur, statStart, startOffset>>
  BY DEF CopyUnit, source
<1>2. Unchanged /\ Source' = Source
  BY <1>1 DEF Unchanged, Source
<1>3. /\ IsImage(out) /\ pos \in 0 .. Len(out) /\ pos = startOffset + SumLen + rpos
      /\ \A k \in 1 .. rpos : out[startOffset + SumLen + k] = DataCell(<<Source[k]>>, 1, 1)
  BY <1>1, <1>2 DEF Positioned, TypeOK, Reading, SoFar
<1>4. SumLen \in Nat /\ startOffset \in Nat /\ rpos \in Nat
  BY Numbers
<1>5. /\ rpos + 1 <= statStart.size /\ Units(1)[1] = Source[rpos + 1]
      /\ Checksums => hashed' = [k \in 1 .. rpos + 1 |-> Source[k]]
  BY <1>1, <1>2, ReadUnits
<1>6. Units(1) = <<Source[rpos + 1]>>
  <2>1. Units(1) = [k \in 1 .. 1 |-> Unit(cur, inode, rpos + k)]
    BY DEF Units
  <2>2. Units(1) = <<Unit(cur, inode, rpos + 1)>>
    BY <1>4, <2>1
  <2> QED
    BY <1>5, <2>2
<1> DEFINE cell == DataCell(<<Source[rpos + 1]>>, 1, 1)
<1>7. Emit(<<cell>>)
  BY <1>1, <1>6
<1> HIDE DEF cell
<1>8. /\ \A k \in 1 .. pos : out'[k] = out[k]
      /\ out'[pos + 1] = cell
  <2>1. IsImage(<<cell>>) /\ Len(<<cell>>) = 1 /\ <<cell>>[1] = cell
    BY OneCell
  <2> QED
    BY <1>3, <1>7, <2>1, EmitImage
<1>9. \A k \in 1 .. rpos + 1 : out'[startOffset + SumLen + k] = DataCell(<<Source[k]>>, 1, 1)
  <2>1. ASSUME NEW k \in 1 .. rpos
        PROVE  out'[startOffset + SumLen + k] = DataCell(<<Source[k]>>, 1, 1)
    <3>1. startOffset + SumLen + k \in 1 .. pos
      BY <1>3, <1>4
    <3> QED
      BY <1>3, <1>8, <3>1
  <2>2. out'[startOffset + SumLen + (rpos + 1)] = DataCell(<<Source[rpos + 1]>>, 1, 1)
    <3>1. startOffset + SumLen + (rpos + 1) = pos + 1
      BY <1>3, <1>4
    <3> QED
      BY <1>8, <3>1 DEF cell
  <2>3. \A k \in 1 .. rpos + 1 : k \in 1 .. rpos \/ k = rpos + 1
    BY <1>4
  <2> QED
    BY <2>1, <2>2, <2>3
<1> QED
  BY <1>1, <1>2, <1>5, <1>9 DEF SoFar, SumLen

LEMMA CopyEndsSoFar ==
  ASSUME TypeOK, Versioned, Positioned, SoFar, CopyEnds, Unchanged'
  PROVE  SoFar'
<1>1. /\ pc = "read" /\ pc' = "stat" /\ NoCompress /\ Available(1) = 0
      /\ blocks' = <<[off |-> cOffset, size |-> statStart.size]>>
      /\ UNCHANGED <<path, cur, statStart, startOffset, rpos, hashed, out>>
  BY DEF CopyEnds, source, archive
<1>2. Unchanged /\ Source' = Source
  BY <1>1 DEF Unchanged, Source
<1>3. cOffset = startOffset + SumLen
  BY <1>1 DEF Positioned, Reading
<1>4. rpos + Available(1) = statStart.size
  <2>1. Available(1) < 1
    BY <1>1
  <2>2. 1 \in Nat /\ 1 > 0
    OBVIOUS
  <2> QED
    BY <1>1, <1>2, <2>1, <2>2, ReadUnits
<1>5. rpos = statStart.size
  BY <1>1, <1>4, Numbers
<1>6. rpos <= statStart.size
  BY <1>5, Numbers
<1> QED
  BY <1>1, <1>2, <1>3, <1>5, <1>6 DEF SoFar, Reading, SumLen

LEMMA SoFarStep ==
  ASSUME TypeOK, Versioned, Positioned, SoFar, [Next]_vars
  PROVE  SoFar'
<1>0. CASE UNCHANGED vars
  BY <1>0 DEF SoFar, Reading, Unchanged, Source, Within, BlocksHold, BlockHolds, SumLen, vars
<1> SUFFICES ASSUME Next, Reading', Unchanged' PROVE SoFar'
  BY <1>0 DEF SoFar
<1>1. CASE Open
  <2>1. /\ pc' = "read" /\ rpos' = 0 /\ blocks' = << >> /\ cOffset' = startOffset' + SumLen
        /\ Checksums => hashed' = << >>
        /\ statStart' = path[cur] /\ cur' = cur /\ pc = "open"
    BY <1>1 DEF Open
  <2>2. statStart'.size \in Nat
    <3>1. cur \in Entries
      BY <2>1, RegularAssumption DEF Positioned
    <3> QED
      BY <2>1, <3>1, SourceType DEF TypeOK
  <2>3. << >> = [k \in 1 .. 0 |-> Source'[k]] /\ Len(<< >>) = 0 /\ 0 * BlockSize = 0
    BY BlockSizeAssumption
  <2>4. Len(blocks') = 0
    BY <2>1
  <2> QED
    BY <2>1, <2>2, <2>3, <2>4 DEF SoFar, Within
<1>2. CASE Environment
  <2>1. UNCHANGED <<pc, cur, statStart, startOffset, rpos, hashed, blocks, cOffset, out>>
    BY <1>2 DEF Environment, reading, archive
  <2>2. Reading
    BY <2>1 DEF Reading
  <2>3. Unchanged
    BY <1>2, <2>2, EnvironmentStep
  <2> QED
    BY <2>1, <2>2, <2>3 DEF SoFar, Reading, Source, Within, BlocksHold, BlockHolds, SumLen
<1>3. ~OutputFails
  BY OutputBroken DEF Reading
<1> QED
  BY <1>0, <1>1, <1>2, <1>3, ReadBlockSoFar, CopyUnitSoFar, CopyEndsSoFar
     DEF Next, Program, Progress, Refuse, FirstHeader, SpecialEntry, RegularEntry, OpenFails,
         ReadFails, EndStatPanics, Retry, GiveUp, Keep, WriteTrailer, HeaderMismatch,
         FinalHeaderBegins, Close, Ended, Stop, Reading

-----------------------------------------------------------------------------
(* Every step keeps the kept entries intact.                               *)
LEMMA IntactStable ==
  ASSUME NEW img, NEW img2, Len(img) \in Nat, Len(img2) \in Nat, Len(img) <= Len(img2),
         NEW e, e.blocks \in Seq(BlockType), Intact(img, e),
         NEW lo \in Nat, NEW hi \in Nat, Within(e.blocks, lo + SumLen, hi),
         \A k \in lo + 1 .. hi : img2[k] = img[k]
  PROVE  Intact(img2, e)
<1>1. SumLen \in Nat /\ (Checksums => SumLen = 1)
  BY SumLenType
<1>2. BlocksHold(img2, e.blocks, Recorded(e))
  <2>1. lo + SumLen \in Nat /\ \A k \in lo + SumLen + 1 .. hi : img2[k] = img[k]
    BY <1>1
  <2>2. BlocksHold(img, e.blocks, Recorded(e))
    BY DEF Intact
  <2> QED
    BY <2>1, <2>2, BlocksStable
<1>3. ASSUME Checksums, e.blocks # << >>
      PROVE  img2[e.blocks[1].off] = SumCell(Recorded(e))
  <2>1. 1 \in 1 .. Len(e.blocks)
    BY <1>3, EmptySeq, LenProperties
  <2>2. /\ e.blocks[1].off \in Nat /\ e.blocks[1].size \in Nat
        /\ lo + 1 <= e.blocks[1].off /\ e.blocks[1].off + e.blocks[1].size <= hi
    BY <1>1, <1>3, <2>1, BlocksType DEF Within
  <2>3. e.blocks[1].off \in lo + 1 .. hi
    BY <2>2
  <2> QED
    BY <1>3, <2>3 DEF Intact
<1> QED
  BY <1>2, <1>3 DEF Intact

(* An attempt whose file turns out to be unchanged holds it.               *)
LEMMA AttemptHolds ==
  ASSUME TypeOK, Versioned, Positioned, SoFar, pc = "stat", Unchanged
  PROVE  BlocksHold(out, blocks, Source) /\ (Checksums => hashed = Source)
<1>1. /\ SumLen \in Nat /\ startOffset \in Nat /\ rpos \in Nat
      /\ statStart.size \in Nat
  BY Numbers
<1>2. rpos = statStart.size
  BY DEF SoFar, Reading
<1>3. Source = [k \in 1 .. statStart.size |-> Source[k]] /\ Len(Source) = statStart.size
  BY <1>1, ContentType DEF Source, Content
<1>4. Checksums => hashed = Source
  BY <1>2, <1>3 DEF SoFar, Reading
<1>5. CASE NoCompress
  <2>1. /\ blocks = <<[off |-> startOffset + SumLen, size |-> statStart.size]>>
        /\ \A k \in 1 .. rpos : out[startOffset + SumLen + k] = DataCell(<<Source[k]>>, 1, 1)
        /\ pos = startOffset + SumLen + rpos /\ pos \in 0 .. Len(out) /\ pos <= Len(out)
    BY <1>5 DEF SoFar, Positioned, Reading, TypeOK
  <2>2. startOffset + SumLen + statStart.size <= Len(out)
    BY <1>2, <2>1
  <2>3. Len(blocks) = 1 /\ blocks[1].off = startOffset + SumLen /\ blocks[1].size = statStart.size
    BY <2>1
  <2>4. BlocksHold(out, blocks, Source)
    BY <1>2, <1>3, <1>5, <2>1, <2>2, <2>3 DEF BlocksHold, BlockHolds
  <2> QED
    BY <1>4, <2>4
<1> QED
  BY <1>4, <1>5 DEF SoFar, Reading

LEMMA KeptIntactStep ==
  ASSUME TypeOK, Versioned, Positioned, KeptBelow, SoFar, KeptIntact, [Next]_vars
  PROVE  KeptIntact'
<1>0. CASE UNCHANGED <<out, kept>>
  BY <1>0 DEF KeptIntact, Intact, BlocksHold, BlockHolds
<1>1. CASE Next /\ ~Started
  <2>1. CASE FirstHeader
    <3>1. Len(kept') = 0
      BY <2>1 DEF FirstHeader, Positioned
    <3> QED
      BY <3>1 DEF KeptIntact
  <2>2. CASE ~FirstHeader
    <3>0. ~OutputFails
      BY <1>1, OutputBroken
    <3>1. UNCHANGED <<out, kept>>
      BY <1>1, <2>2, <3>0 DEF Next, Program, Progress, Refuse, SpecialEntry, RegularEntry,
         Open, OpenFails, ReadBlock, CopyUnit, CopyEnds, ReadFails, EndStatPanics, Retry,
         GiveUp, Keep, WriteTrailer, HeaderMismatch, FinalHeaderBegins, Close, Environment,
         Ended, vars, Started, archive
    <3> QED
      BY <1>0, <3>1
  <2> QED
    BY <2>1, <2>2
<1> SUFFICES ASSUME Next, Started PROVE KeptIntact'
  BY <1>0, <1>1 DEF vars
<1>2. /\ IsImage(out') /\ Len(out) <= Len(out')
      /\ \A k \in HeaderLen + 1 .. Edge : out'[k] = out[k]
  BY Written
<1>3. Len(out) \in Nat /\ Len(out') \in Nat /\ HeaderLen \in Nat /\ Edge \in Nat
  BY <1>2, Numbers DEF Positioned, IsImage, Edge
<1>4. kept \in Seq(KeptType) /\ Len(kept) \in Nat
  BY KeptImage
<1>5. ASSUME NEW j \in 1 .. Len(kept), kept[j].id \in Regular
      PROVE  Intact(out', kept[j])
  <2>1. kept[j].blocks \in Seq(BlockType)
    <3>1. kept[j] \in KeptType
      BY <1>4
    <3> QED
      BY <3>1 DEF KeptType
  <2>2. Within(kept[j].blocks, HeaderLen + SumLen, Edge) /\ Intact(out, kept[j])
    BY <1>5 DEF KeptBelow, KeptIntact
  <2> QED
    BY <1>2, <1>3, <2>1, <2>2, IntactStable
<1>6. CASE UNCHANGED kept
  BY <1>5, <1>6 DEF KeptIntact, Intact, BlocksHold, BlockHolds
<1>7. ASSUME NEW e, kept' = Append(kept, e), e.id \in Regular => Intact(out', e)
      PROVE  KeptIntact'
  <2>1. /\ Len(kept') = Len(kept) + 1
        /\ \A j \in 1 .. Len(kept) : kept'[j] = kept[j]
        /\ kept'[Len(kept) + 1] = e
    BY <1>4, <1>7, AppendProperties
  <2>2. ASSUME NEW j \in 1 .. Len(kept'), kept'[j].id \in Regular
        PROVE  Intact(out', kept'[j])
    BY <1>4, <1>5, <1>7, <2>1, <2>2
  <2> QED
    BY <2>2 DEF KeptIntact
<1>8. CASE SpecialEntry
  <2>1. Entry(cur, 0, path[cur].ver, FALSE, 0, << >>).id = cur /\ cur \notin Regular
    BY <1>8 DEF SpecialEntry, Entry
  <2> QED
    BY <1>7, <1>8, <2>1 DEF SpecialEntry
<1>9. CASE Keep
  <2> DEFINE e == Entry(cur, path[cur].size, path[cur].ver, hadChange, startOffset, blocks)
  <2>1. pc = "stat" /\ Unchanged /\ kept' = Append(kept, e)
    BY <1>9 DEF Keep, Changed, Unchanged
  <2>2. e.blocks = blocks
    BY DEF Entry
  <2>3. Recorded(e) = Source
    BY <2>1 DEF Entry, Recorded, Source, Content, Unit, Unchanged
  <2>4. /\ blocks \in Seq(BlockType) /\ SumLen \in Nat /\ startOffset \in Nat
        /\ cOffset \in Nat /\ startOffset + SumLen \in Nat
    BY Numbers
  <2>5. Within(blocks, startOffset + SumLen, cOffset)
    BY <2>1, AttemptWithin
  <2>6. BlocksHold(out, blocks, Source) /\ (Checksums => hashed = Source)
    BY <2>1, AttemptHolds
  <2> HIDE DEF e
  <2>7. CASE ~Checksums
    <3>1. out' = out
      BY <1>9, <2>7 DEF Keep, archive
    <3>2. BlocksHold(out', blocks, Source)
      BY <2>6, <3>1
    <3>3. Intact(out', e)
      BY <2>2, <2>3, <2>7, <3>2 DEF Intact
    <3> QED
      BY <1>7, <2>1, <3>3
  <2>8. CASE Checksums
    <3> DEFINE cells == <<SumCell(Source)>>
    <3>1. IsImage(cells) /\ Len(cells) = 1 /\ cells[1] = SumCell(Source)
      BY OneCell
    <3>2. out' = WriteAt(out, startOffset, cells)
      BY <1>9, <2>6, <2>8 DEF Keep
    <3> HIDE DEF cells
    <3>3. IsImage(out) /\ startOffset \in 0 .. Len(out)
      <4>1. IsImage(out) /\ Edge = startOffset /\ Edge <= Len(out)
        BY <2>1 DEF Positioned, Edge, Reading
      <4> QED
        BY <1>3, <2>4, <4>1
    <3>4. /\ Len(out') = SizeAfter(Len(out), startOffset, Len(cells))
          /\ \A k \in 1 .. SizeAfter(Len(out), startOffset, Len(cells)) :
               out'[k] = IF k > startOffset /\ k <= startOffset + Len(cells)
                         THEN cells[k - startOffset] ELSE out[k]
      BY <3>1, <3>2, <3>3, WriteImage
    <3>5. SumLen = 1
      BY <2>8, SumLenType
    <3>6. out'[startOffset + 1] = SumCell(Source)
      <4>1. /\ startOffset + 1 \in 1 .. SizeAfter(Len(out), startOffset, Len(cells))
            /\ startOffset + 1 > startOffset /\ startOffset + 1 <= startOffset + Len(cells)
            /\ (startOffset + 1) - startOffset = 1
        BY <1>3, <2>4, <3>1 DEF SizeAfter
      <4> QED
        BY <3>1, <3>4, <4>1
    <3>7. cOffset <= Len(out)
      <4>1. pos = cOffset /\ pos <= Len(out)
        <5>1. rpos = statStart.size
          BY <2>1 DEF SoFar, Reading
        <5> QED
          BY <2>1, <5>1 DEF Positioned, Reading
      <4> QED
        BY <4>1
    <3>8. \A k \in startOffset + SumLen + 1 .. cOffset : out'[k] = out[k]
      <4>1. \A k \in startOffset + SumLen + 1 .. cOffset :
              /\ k \in 1 .. SizeAfter(Len(out), startOffset, Len(cells))
              /\ ~(k <= startOffset + Len(cells))
        BY <1>3, <2>4, <3>1, <3>5, <3>7 DEF SizeAfter
      <4> QED
        BY <3>4, <4>1
    <3>9. BlocksHold(out', blocks, Source)
      BY <1>2, <1>3, <2>4, <2>5, <2>6, <3>8, BlocksStable
    <3>10. blocks # << >> => blocks[1].off = startOffset + 1
      <4>1. CASE NoCompress
        <5>1. blocks = <<[off |-> startOffset + SumLen, size |-> statStart.size]>>
          BY <2>1, <4>1 DEF SoFar, Reading
        <5> QED
          BY <3>5, <5>1
      <4>2. CASE ~NoCompress
        BY <2>1, <3>5, <4>2 DEF SoFar, Reading
      <4> QED
        BY <4>1, <4>2
    <3>11. Intact(out', e)
      BY <2>2, <2>3, <3>6, <3>9, <3>10 DEF Intact
    <3> QED
      BY <1>7, <2>1, <3>11
  <2> QED
    BY <2>7, <2>8
<1>10. CASE OutputFails
  BY <1>6, <1>10, OutputBroken
<1> QED
  BY <1>6, <1>8, <1>9, <1>10
     DEF Next, Program, Progress, Refuse, FirstHeader, RegularEntry, Open, OpenFails,
         ReadBlock, CopyUnit, CopyEnds, ReadFails, EndStatPanics, Retry, GiveUp,
         WriteTrailer, HeaderMismatch, FinalHeaderBegins, Close, Environment, Ended, vars

-----------------------------------------------------------------------------
(* The invariant holds initially and always.                               *)
LEMMA InvariantInit == Init => IInv
<1> SUFFICES ASSUME Init PROVE IInv
  OBVIOUS
<1>1. Versions \subseteq SourceFiles /\ Missing \in SourceFiles
  BY BoundsAssumption DEF Versions, SourceFiles
<1>2. pc = "start" /\ kept = << >> /\ out = << >> /\ pos = 0 /\ clock = 0
  BY DEF Init
<1>8. Len(kept) = 0 /\ Len(out) = 0
  BY <1>2
<1>3. TypeOK
  <2>1. path \in [Entries -> SourceFiles]
    BY <1>1 DEF Init
  <2>2. clock \in 0 .. MaxChanges /\ cur \in 1 .. N + 1 /\ pos \in 0 .. Len(out)
    <3>1. cur = 1
      BY DEF Init
    <3>2. clock \in 0 .. MaxChanges
      BY <1>2, BoundsAssumption
    <3>3. cur \in 1 .. N + 1
      BY <3>1, NAssumption
    <3>4. pos \in 0 .. Len(out)
      BY <1>2, <1>8
    <3> QED
      BY <3>2, <3>3, <3>4
  <2>3. \A S : << >> \in Seq(S)
    BY EmptySeq
  <2> QED
    BY <1>1, <2>1, <2>2, <2>3 DEF Init, TypeOK
<1>4. Versioned
  <2>1. \A i \in Entries : path[i] \in [ver : {0}, size : Sizes]
    BY DEF Init, Versions
  <2>2. \A i \in Entries : path[i].ver <= clock
    BY <1>2, <2>1
  <2> QED
    BY <1>2, <2>2 DEF Versioned, Reading
<1>5. Positioned
  BY <1>2, <1>8, NoCell DEF Positioned, Started, Reading
<1>6. KeptBelow /\ SoFar
  BY <1>2 DEF KeptBelow, SoFar, Started, Reading
<1>7. KeptIntact
  BY <1>8 DEF KeptIntact
<1> QED
  BY <1>3, <1>4, <1>5, <1>6, <1>7 DEF IInv

LEMMA InvariantStep == IInv /\ [Next]_vars => IInv'
BY TypesStep, VersionedStep, PositionedStep, KeptBelowStep, SoFarStep, KeptIntactStep DEF IInv

(* The inductive invariant: what every state of create satisfies.          *)
THEOREM Invariant == Spec => []IInv
BY InvariantInit, InvariantStep, PTL DEF Spec

(* Every variable has its type in every state of create, whatever others   *)
(* do to the sources.                                                      *)
THEOREM TypeCorrect == Spec => []TypeOK
<1>1. IInv => TypeOK
  BY DEF IInv
<1> QED
  BY <1>1, Invariant, PTL

(* The offsets create computes are where its archive is being written,     *)
(* through any number of retries, seeks back and skipped files.            *)
THEOREM PositionsAgree == Spec => []PositionAgrees
<1>1. IInv => PositionAgrees
  <2> SUFFICES ASSUME IInv PROVE PositionAgrees
    OBVIOUS
  <2>1. TypeOK /\ Positioned /\ SoFar
    BY DEF IInv
  <2>2. cOffset \in Nat /\ startOffset \in Nat /\ rpos \in Nat
    BY <2>1, Numbers
  <2>3. pc = "read" => pos = cOffset + IF NoCompress THEN rpos ELSE 0
    BY <2>1, <2>2 DEF Positioned, Reading
  <2>4. pc = "stat" /\ path[cur] = statStart => pos = cOffset
    BY <2>1, <2>2 DEF Positioned, SoFar, Reading, Unchanged
  <2> QED
    BY <2>1, <2>3, <2>4 DEF Positioned, PositionAgrees
<1> QED
  BY <1>1, Invariant, PTL

(* Every file in newFiles stays in the archive as one whole version of its *)
(* source, with its checksum, until the end of the run.                    *)
THEOREM KeptFilesIntact == Spec => []KeptIntact
<1>1. IInv => KeptIntact
  BY DEF IInv
<1> QED
  BY <1>1, Invariant, PTL

-----------------------------------------------------------------------------
(* ArchiveWriter implements SnapshotArchive, for any number of files, any  *)
(* sizes, blocks, retries and changes: the archive is accepted by a reader *)
(* once the final header is out, and it then holds one whole version of    *)
(* every file.  And no file is read more often than -retries says.         *)

(* The inductive invariant, on top of that of ArchiveWriterProofs.         *)

(* The fixed cell of the first header, which names no size.                *)
Blank == FixedCell(0, 0, N)

(* The header of an archive that is not ready: nothing in it yet, or its   *)
(* checksum covers another header than the one in front of it.             *)
Stale == HeaderLen <= Len(out) /\ out[HeaderLen].of[1] = Blank
Unready == Stale /\ out[1] = Blank

(* The trailer, once written.                                              *)
Trailed ==
  /\ cOffset + Len(kept) + 1 <= Len(out)
  /\ \A k \in 1 .. Len(kept) + 1 : out[cOffset + k] = Trailer(kept)[k]

(* How far the final header has come.                                      *)
Headed(n) == \A k \in 1 .. n : out[k] = FinalHeader[k]

(* The final header only begun, or whole, with all the entries kept.       *)
Begun == Stale /\ Headed(1) /\ Len(kept) = N
Complete == Trailed /\ HeaderLen <= cOffset /\ Headed(HeaderLen) /\ Len(kept) = N

(* What a reader finds in the archive, at each stage of the run.           *)
Published ==
  /\ pc = "start" => out = << >>
  /\ Writing \/ pc = "header" => Unready
  /\ pc = "stopped" => \/ out = << >> \/ Unready
                       \/ why = "close" /\ (Begun \/ Complete)
  /\ pc \in {"header", "close", "done"} => Trailed /\ HeaderLen <= cOffset
  /\ pc = "close" => Stale /\ pos \in 1 .. HeaderLen - 1 /\ Headed(pos)
  /\ pc \in {"close", "done"} => Len(kept) = N
  /\ pc = "done" => Headed(HeaderLen)

(* The entries are kept in order, each once, and none is kept before its   *)
(* turn.                                                                   *)
InOrder ==
  /\ Len(kept) < cur
  /\ \A j \in 1 .. Len(kept) : kept[j].id >= j /\ kept[j].id + (Len(kept) - j) < cur
  /\ \A j, k \in 1 .. Len(kept) : j < k => kept[j].id < kept[k].id

(* The reads of the file at hand; another one may only begin if there is   *)
(* one left.                                                               *)
Tries ==
  FileRetries > 0 => attempt <= FileRetries /\ (pc = "open" => attempt < FileRetries)

SInv == IInv /\ Published /\ InOrder /\ Tries

-----------------------------------------------------------------------------
(* What a header and a trailer hold, cell by cell.                         *)
LEMMA SummedCells ==
  ASSUME NEW s, IsImage(s)
  PROVE  /\ \A k \in 1 .. Len(s) : Summed(s)[k] = s[k]
         /\ Summed(s)[Len(s) + 1] = SumCell(s)
<1> DEFINE S == Cells(s) \cup {SumCell(s)}
<1>1. s \in Seq(S) /\ SumCell(s) \in S
  BY ImageIsSeq
<1> HIDE DEF S
<1> QED
  BY <1>1, AppendProperties DEF Summed

LEMMA HeaderCells ==
  ASSUME NEW es, IsImage(es), NEW t, NEW n
  PROVE  /\ Header(es, t, n)[1] = FixedCell(t, n, Len(es))
         /\ \A j \in 1 .. Len(es) : Header(es, t, n)[j + 1] = EntryCell(es[j])
         /\ Header(es, t, n)[Len(es) + 2] = SumCell(SubSeq(Header(es, t, n), 1, Len(es) + 1))
         /\ Header(es, t, n)[Len(es) + 2].of[1] = FixedCell(t, n, Len(es))
<1> DEFINE body == [i \in 1 .. Len(es) |-> EntryCell(es[i])]
           fixed == FixedCell(t, n, Len(es))
           S == {EntryCell(es[i]) : i \in 1 .. Len(es)} \cup {fixed}
           h == <<fixed>> \o body
           H == Header(es, t, n)
<1>1. Len(es) \in Nat
  BY DEF IsImage
<1>2. body \in Seq(S) /\ Len(body) = Len(es) /\ \A j \in 1 .. Len(es) : body[j] = EntryCell(es[j])
  <2>1. body \in [1 .. Len(es) -> S]
    OBVIOUS
  <2>2. body \in Seq(S)
    BY <1>1, <2>1, SeqDef
  <2> QED
    BY <1>1, <2>2, LenProperties
<1>3. <<fixed>> \in Seq(S) /\ Len(<<fixed>>) = 1 /\ <<fixed>>[1] = fixed
  OBVIOUS
<1> HIDE DEF S, body, fixed
<1>4. /\ h \in Seq(S) /\ Len(h) = Len(es) + 1
      /\ h[1] = fixed
      /\ \A j \in 1 .. Len(es) : h[j + 1] = EntryCell(es[j])
  BY <1>1, <1>2, <1>3, ConcatProperties
<1>5. H = Summed(h)
  BY DEF Header, fixed, body
<1> HIDE DEF h
<1>6. IsImage(h)
  BY <1>4, SeqIsImage
<1>7. /\ \A k \in 1 .. Len(es) + 1 : H[k] = h[k]
      /\ H[Len(es) + 2] = SumCell(h)
      /\ IsImage(H) /\ Len(H) = Len(es) + 2
  <2>1. (Len(es) + 1) + 1 = Len(es) + 2
    BY <1>1
  <2> QED
    BY <1>4, <1>5, <1>6, <2>1, SummedCells, SummedImage
<1>8. SubSeq(H, 1, Len(es) + 1) = h
  <2> DEFINE T == S \cup Cells(H)
  <2>1. H \in Seq(T) /\ h \in Seq(T)
    BY <1>4, <1>7, ImageIsSeq
  <2> HIDE DEF T
  <2>2. Len(es) + 1 \in 0 .. Len(H)
    BY <1>1, <1>7
  <2>3. SubSeq(H, 1, Len(es) + 1) \in Seq(T) /\ Len(SubSeq(H, 1, Len(es) + 1)) = Len(es) + 1
    BY <2>1, <2>2, CutSeq
  <2>4. \A k \in 1 .. Len(es) + 1 : SubSeq(H, 1, Len(es) + 1)[k] = h[k]
    BY <1>1, <1>7, <2>1, <2>2
  <2> QED
    BY <1>4, <2>1, <2>3, <2>4, SeqEqual
<1>9. SumCell(h).of[1] = fixed
  BY <1>4 DEF SumCell
<1>10. H[1] = fixed /\ \A j \in 1 .. Len(es) : H[j + 1] = EntryCell(es[j])
  <2>1. \A j \in 1 .. Len(es) : j + 1 \in 1 .. Len(es) + 1
    BY <1>1
  <2>2. 1 \in 1 .. Len(es) + 1
    BY <1>1
  <2> QED
    BY <1>4, <1>7, <2>1, <2>2
<1>11. H[Len(es) + 2] = SumCell(SubSeq(H, 1, Len(es) + 1)) /\ H[Len(es) + 2].of[1] = fixed
  BY <1>7, <1>8, <1>9
<1> HIDE DEF H
<1>12. fixed = FixedCell(t, n, Len(es))
  BY DEF fixed
<1> QED
  BY <1>10, <1>11, <1>12 DEF H

LEMMA TrailerCells ==
  ASSUME NEW es, IsImage(es)
  PROVE  /\ \A j \in 1 .. Len(es) : Trailer(es)[j] = IndexCell(es[j])
         /\ Trailer(es)[Len(es) + 1] = SumCell(SubSeq(Trailer(es), 1, Len(es)))
<1> DEFINE body == [i \in 1 .. Len(es) |-> IndexCell(es[i])]
           S == {IndexCell(es[i]) : i \in 1 .. Len(es)}
           H == Trailer(es)
<1>1. Len(es) \in Nat
  BY DEF IsImage
<1>2. body \in Seq(S) /\ Len(body) = Len(es) /\ \A j \in 1 .. Len(es) : body[j] = IndexCell(es[j])
  <2>1. body \in [1 .. Len(es) -> S]
    OBVIOUS
  <2>2. body \in Seq(S)
    BY <1>1, <2>1, SeqDef
  <2> QED
    BY <1>1, <2>2, LenProperties
<1>3. H = Summed(body)
  BY DEF Trailer
<1> HIDE DEF S, body
<1>4. IsImage(body)
  BY <1>2, SeqIsImage
<1>5. /\ \A k \in 1 .. Len(es) : H[k] = body[k]
      /\ H[Len(es) + 1] = SumCell(body)
      /\ IsImage(H) /\ Len(H) = Len(es) + 1
  BY <1>2, <1>3, <1>4, SummedCells, SummedImage
<1>6. SubSeq(H, 1, Len(es)) = body
  <2> DEFINE T == S \cup Cells(H)
  <2>1. H \in Seq(T) /\ body \in Seq(T)
    BY <1>2, <1>5, ImageIsSeq
  <2> HIDE DEF T
  <2>2. Len(es) \in 0 .. Len(H)
    BY <1>1, <1>5
  <2>3. SubSeq(H, 1, Len(es)) \in Seq(T) /\ Len(SubSeq(H, 1, Len(es))) = Len(es)
    BY <2>1, <2>2, CutSeq
  <2>4. \A k \in 1 .. Len(es) : SubSeq(H, 1, Len(es))[k] = body[k]
    BY <1>1, <1>5, <2>1, <2>2
  <2> QED
    BY <1>2, <2>1, <2>3, <2>4, SeqEqual
<1> QED
  BY <1>1, <1>2, <1>5, <1>6

(* Equal cells make equal pieces.                                          *)
LEMMA SamePiece ==
  ASSUME NEW a, IsImage(a), NEW b, IsImage(b), NEW i \in Nat, NEW n \in Nat,
         i + n <= Len(a), n <= Len(b), \A k \in 1 .. n : a[i + k] = b[k]
  PROVE  SubSeq(a, i + 1, i + n) = SubSeq(b, 1, n)
<1> DEFINE S == Cells(a) \cup Cells(b)
           u == SubSeq(a, i + 1, i + n)
           v == SubSeq(b, 1, n)
<1>1. a \in Seq(S) /\ b \in Seq(S) /\ Len(a) \in Nat /\ Len(b) \in Nat
  BY ImageIsSeq DEF IsImage
<1> HIDE DEF S
<1>2. u \in Seq(S) /\ Len(u) = n /\ \A k \in 1 .. n : u[k] = a[i + k]
  BY <1>1
<1>3. v \in Seq(S) /\ Len(v) = n /\ \A k \in 1 .. n : v[k] = b[k]
  BY <1>1
<1> QED
  BY <1>2, <1>3, SeqEqual

-----------------------------------------------------------------------------
(* How the steps of the program write.                                     *)

(* A write into what is there changes what it covers and nothing else.     *)
LEMMA Overwrite ==
  ASSUME IsImage(out), NEW cells, IsImage(cells), NEW p \in Nat,
         p + Len(cells) <= Len(out), out' = WriteAt(out, p, cells)
  PROVE  /\ IsImage(out') /\ Len(out') = Len(out)
         /\ \A k \in 1 .. Len(out) :
              out'[k] = IF k > p /\ k <= p + Len(cells) THEN cells[k - p] ELSE out[k]
<1>1. Len(out) \in Nat /\ Len(cells) \in Nat /\ p \in 0 .. Len(out)
  BY DEF IsImage
<1>2. SizeAfter(Len(out), p, Len(cells)) = Len(out)
  BY <1>1 DEF SizeAfter
<1> QED
  BY <1>1, <1>2, WriteImage

(* Until the final header nothing is written to the first one.             *)
LEMMA FrontKept ==
  ASSUME IInv, Next, Writing
  PROVE  /\ Len(out) \in Nat /\ Len(out') \in Nat /\ Len(out) <= Len(out')
         /\ \A k \in 1 .. HeaderLen : out'[k] = out[k]
<1>0. TypeOK /\ Positioned /\ SoFar
  BY DEF IInv
<1>1. IsImage(out) /\ pos \in 0 .. Len(out) /\ IsImage(out') /\ Len(out) <= Len(out')
  BY <1>0, Written DEF TypeOK, Positioned
<1>2. /\ HeaderLen \in Nat /\ SumLen \in Nat /\ rpos \in Nat
      /\ cOffset \in Nat /\ startOffset \in Nat
      /\ HeaderLen <= Edge /\ Edge <= Len(out)
  BY <1>0, Numbers DEF Positioned, Started, Writing
<1>3. HeaderLen <= pos /\ (Reading => HeaderLen <= startOffset)
  <2>1. CASE Reading
    BY <1>0, <1>2, <2>1 DEF Positioned, Edge
  <2>2. CASE ~Reading
    BY <1>0, <1>2, <2>2 DEF Positioned, Edge, Writing, Reading
  <2> QED
    BY <2>1, <2>2
<1>4. ASSUME NEW cells, IsImage(cells), Emit(cells)
      PROVE  \A k \in 1 .. HeaderLen : out'[k] = out[k]
  <2>1. \A k \in 1 .. pos : out'[k] = out[k]
    BY <1>1, <1>4, EmitImage
  <2>2. pos \in Nat
    BY <1>1 DEF IsImage
  <2> QED
    BY <1>2, <1>3, <2>1, <2>2
<1> SUFFICES \A k \in 1 .. HeaderLen : out'[k] = out[k]
  BY <1>1 DEF IsImage
<1>5. CASE out' = out
  BY <1>5
<1>6. CASE Open
  <2> DEFINE cells == IF Checksums THEN <<ZeroCell>> ELSE << >>
  <2>1. IsImage(cells)
    BY OneCell, NoCell
  <2>2. Emit(cells)
    BY <1>6 DEF Open
  <2> HIDE DEF cells
  <2> QED
    BY <1>4, <2>1, <2>2
<1>7. CASE ReadBlock
  <2>1. ASSUME NEW u, NEW len \in 1 .. MaxComp, Emit([j \in 1 .. len |-> DataCell(u, j, len)])
        PROVE  \A k \in 1 .. HeaderLen : out'[k] = out[k]
    <3> DEFINE cells == [j \in 1 .. len |-> DataCell(u, j, len)]
    <3>0. len \in Nat
      BY BoundsAssumption
    <3>1. IsImage(cells)
      BY <3>0, BlockImage
    <3>2. Emit(cells)
      BY <2>1
    <3> HIDE DEF cells
    <3> QED
      BY <1>4, <3>1, <3>2
  <2> QED
    BY <1>5, <1>7, <2>1 DEF ReadBlock, archive
<1>8. CASE CopyUnit
  <2>1. PICK c : Emit(<<c>>)
    BY <1>8 DEF CopyUnit
  <2> QED
    BY <1>4, <2>1, OneCell
<1>9. CASE Keep
  <2>1. CASE UNCHANGED archive
    BY <1>5, <2>1 DEF archive
  <2>2. CASE Checksums
    <3> DEFINE cells == <<SumCell(hashed)>>
    <3>1. IsImage(cells) /\ Len(cells) = 1
      BY OneCell
    <3>2. Reading /\ out' = WriteAt(out, startOffset, cells)
      BY <1>9, <2>2 DEF Keep, Reading
    <3> HIDE DEF cells
    <3>3. Len(out) \in Nat /\ startOffset \in 0 .. Len(out)
      BY <1>1, <1>2, <3>2 DEF Edge, IsImage
    <3>4. \A k \in 1 .. SizeAfter(Len(out), startOffset, Len(cells)) :
            out'[k] = IF k > startOffset /\ k <= startOffset + Len(cells)
                      THEN cells[k - startOffset] ELSE out[k]
      BY <1>1, <3>1, <3>2, <3>3, WriteImage
    <3>5. \A k \in 1 .. HeaderLen :
            k \in 1 .. SizeAfter(Len(out), startOffset, Len(cells)) /\ ~(k > startOffset)
      BY <1>2, <1>3, <3>1, <3>2, <3>3 DEF SizeAfter
    <3> QED
      BY <3>4, <3>5
  <2> QED
    BY <1>9, <2>1, <2>2 DEF Keep
<1>10. CASE WriteTrailer
  <2>1. Emit(Trailer(kept)) /\ IsImage(Trailer(kept))
    BY <1>0, <1>10, KeptImage, TrailerImage DEF WriteTrailer
  <2> QED
    BY <1>4, <2>1
<1>11. CASE UNCHANGED archive \/ Retry \/ GiveUp
  BY <1>5, <1>11 DEF archive, Retry, GiveUp, Rewind
<1>12. CASE OutputFails
  BY <1>0, <1>12, OutputBroken
<1> QED
  BY <1>6, <1>7, <1>8, <1>9, <1>10, <1>11, <1>12
     DEF Writing, Next, Program, Progress, Refuse, FirstHeader, SpecialEntry, RegularEntry,
         OpenFails, CopyEnds, ReadFails, EndStatPanics, HeaderMismatch, FinalHeaderBegins,
         Close, Environment, Ended, vars, archive

(* The final header once all entries are kept: its length, and that it is  *)
(* written in two pieces that fit.                                         *)
LEMMA FinalHeaderPieces ==
  ASSUME TypeOK, NEW n \in 0 .. HeaderLen, Len(FinalHeader) = HeaderLen
  PROVE  /\ Len(kept) = N
         /\ IsImage(SubSeq(FinalHeader, 1, n)) /\ Len(SubSeq(FinalHeader, 1, n)) = n
         /\ \A k \in 1 .. n : SubSeq(FinalHeader, 1, n)[k] = FinalHeader[k]
         /\ IsImage(SubSeq(FinalHeader, n + 1, Len(FinalHeader)))
         /\ Len(SubSeq(FinalHeader, n + 1, Len(FinalHeader))) = HeaderLen - n
         /\ \A k \in 1 .. HeaderLen - n :
              SubSeq(FinalHeader, n + 1, Len(FinalHeader))[k] = FinalHeader[n + k]
<1>1. HeaderLen \in Nat /\ N \in Nat
  BY NAssumption DEF HeaderLen
<1>2. FinalHeader \in Seq(Cells(FinalHeader)) /\ Len(FinalHeader) = Len(kept) + 2
  BY KeptImage, HeaderImage, ImageIsSeq DEF FinalHeader
<1>3. Len(kept) = N
  <2>1. Len(kept) \in Nat
    BY KeptImage DEF IsImage
  <2> QED
    BY <1>1, <1>2, <2>1 DEF HeaderLen
<1>4. /\ SubSeq(FinalHeader, 1, n) \in Seq(Cells(FinalHeader))
      /\ Len(SubSeq(FinalHeader, 1, n)) = n
      /\ SubSeq(FinalHeader, n + 1, Len(FinalHeader)) \in Seq(Cells(FinalHeader))
      /\ Len(SubSeq(FinalHeader, n + 1, Len(FinalHeader))) = HeaderLen - n
  BY <1>2, CutSeq
<1>5. IsImage(SubSeq(FinalHeader, 1, n)) /\ IsImage(SubSeq(FinalHeader, n + 1, Len(FinalHeader)))
  BY <1>4, SeqIsImage
<1> DEFINE S == Cells(FinalHeader)
           F == FinalHeader
<1> HIDE DEF S, F
<1>6. F \in Seq(S) /\ Len(F) = HeaderLen
  BY <1>2 DEF S, F
<1>7. /\ \A k \in 1 .. n : SubSeq(F, 1, n)[k] = F[k]
      /\ \A k \in 1 .. HeaderLen - n : SubSeq(F, n + 1, Len(F))[k] = F[n + k]
  BY <1>1, <1>6
<1> QED
  BY <1>3, <1>4, <1>5, <1>7 DEF F

(* The trailer is written behind everything kept.                          *)
LEMMA TrailerWritten ==
  ASSUME IInv, Published, WriteTrailer
  PROVE  Published'
<1>0. TypeOK /\ Positioned
  BY DEF IInv
<1>1. Unready /\ Unready'
  <2>1. Writing /\ Next
    BY DEF WriteTrailer, Writing, Next, Program, Progress
  <2>2. Unready
    BY <2>1 DEF Published
  <2>3. HeaderLen \in Nat /\ 1 \in 1 .. HeaderLen /\ HeaderLen \in 1 .. HeaderLen
    BY NAssumption DEF HeaderLen
  <2> QED
    BY <2>1, <2>2, <2>3, FrontKept DEF Unready, Stale
<1>2. /\ pc' = "header" /\ Emit(Trailer(kept)) /\ kept' = kept /\ cOffset' = cOffset
      /\ pos = cOffset /\ HeaderLen <= cOffset /\ cOffset \in Nat
  BY <1>0, Numbers DEF WriteTrailer, Positioned, Started, Edge, Reading
<1>3. /\ IsImage(kept) /\ Len(kept) \in Nat
      /\ IsImage(Trailer(kept)) /\ Len(Trailer(kept)) = Len(kept) + 1
  BY <1>0, KeptImage, TrailerImage DEF IsImage
<1>4. /\ pos' = pos + Len(Trailer(kept)) /\ pos' <= Len(out')
      /\ \A k \in 1 .. Len(Trailer(kept)) : out'[pos + k] = Trailer(kept)[k]
  BY <1>0, <1>2, <1>3, EmitImage DEF TypeOK, Positioned
<1>5. Trailed'
  BY <1>2, <1>3, <1>4 DEF Trailed
<1> QED
  BY <1>1, <1>2, <1>5 DEF Published, Writing

(* The final header begins: the size in it is that of the archive, its     *)
(* checksum is still the old one.                                          *)
LEMMA FinalHeaderBegun ==
  ASSUME IInv, Published, FinalHeaderBegins
  PROVE  Published'
<1>0. TypeOK /\ Positioned /\ IsImage(out)
  BY DEF IInv, Positioned
<1>1. /\ pc = "header" /\ pc' = "close" /\ Len(FinalHeader) = HeaderLen
      /\ kept' = kept /\ cOffset' = cOffset
  BY DEF FinalHeaderBegins
<1>2. PICK n \in 1 .. HeaderLen - 1 :
        out' = WriteAt(out, 0, SubSeq(FinalHeader, 1, n)) /\ pos' = n
  BY <1>1 DEF FinalHeaderBegins
<1>3. HeaderLen \in Nat /\ cOffset \in Nat /\ n \in 0 .. HeaderLen /\ n < HeaderLen /\ n \in Nat
  BY <1>0, Numbers
<1> DEFINE cells == SubSeq(FinalHeader, 1, n)
<1>4. /\ Len(kept) = N /\ IsImage(cells) /\ Len(cells) = n
      /\ \A k \in 1 .. n : cells[k] = FinalHeader[k]
  BY <1>0, <1>1, <1>3, FinalHeaderPieces
<1>5. out' = WriteAt(out, 0, cells)
  BY <1>2
<1> HIDE DEF cells
<1>6. Unready /\ Trailed /\ HeaderLen <= cOffset
  BY <1>1 DEF Published
<1>7. Len(out) \in Nat /\ HeaderLen <= Len(out)
  BY <1>0, <1>6 DEF IsImage, Unready, Stale
<1>8. /\ Len(out') = Len(out)
      /\ \A k \in 1 .. Len(out) : out'[k] = IF k > 0 /\ k <= 0 + Len(cells) THEN cells[k - 0] ELSE out[k]
  <2>1. 0 + Len(cells) <= Len(out) /\ 0 \in Nat
    BY <1>3, <1>4, <1>7
  <2> QED
    BY <1>0, <1>4, <1>5, <2>1, Overwrite
<1>9. /\ \A k \in 1 .. n : out'[k] = FinalHeader[k]
      /\ \A k \in 1 .. Len(out) : k > n => out'[k] = out[k]
  BY <1>3, <1>4, <1>7, <1>8
<1>10. FinalHeader' = FinalHeader
  BY <1>1, <1>8 DEF FinalHeader
<1>11. Stale'
  BY <1>3, <1>6, <1>7, <1>8, <1>9 DEF Unready, Stale
<1>12. Headed(pos)'
  BY <1>2, <1>9, <1>10 DEF Headed
<1>13. Trailed'
  <2>1. Len(kept) \in Nat
    BY <1>4, NAssumption
  <2>2. \A k \in 1 .. Len(kept) + 1 : cOffset + k \in 1 .. Len(out) /\ cOffset + k > n
    BY <1>3, <1>6, <1>7, <2>1 DEF Trailed
  <2>3. \A k \in 1 .. Len(kept) + 1 : out'[cOffset + k] = out[cOffset + k]
    BY <1>9, <2>2
  <2> QED
    BY <1>1, <1>6, <1>8, <2>3 DEF Trailed
<1> QED
  BY <1>1, <1>2, <1>4, <1>6, <1>11, <1>12, <1>13 DEF Published, Writing

(* The rest of it, or a part of the rest: the trailer stays, and until it  *)
(* is whole so does the old checksum.                                      *)
LEMMA RestWritten ==
  ASSUME IInv, Published, pc = "close", NEW m \in 0 .. HeaderLen - pos,
         NEW cells, IsImage(cells), Len(cells) = m, \A k \in 1 .. m : cells[k] = HeaderRest[k],
         out' = WriteAt(out, pos, cells), UNCHANGED <<kept, cOffset>>
  PROVE  /\ Len(out') = Len(out) /\ Trailed' /\ HeaderLen <= cOffset' /\ Len(kept') = N
         /\ m = HeaderLen - pos => Headed(HeaderLen)'
         /\ m < HeaderLen - pos => Begun'
<1>0. TypeOK /\ Positioned /\ IsImage(out)
  BY DEF IInv, Positioned
<1>2. Stale /\ Trailed /\ HeaderLen <= cOffset /\ pos \in 1 .. HeaderLen - 1 /\ Headed(pos)
      /\ Len(kept) = N
  BY DEF Published
<1>3. /\ HeaderLen \in Nat /\ cOffset \in Nat /\ pos \in 0 .. HeaderLen /\ pos \in Nat
      /\ Len(FinalHeader) = HeaderLen /\ m \in Nat /\ pos + m <= HeaderLen
  BY <1>0, <1>2, Numbers, KeptImage, HeaderImage DEF FinalHeader, HeaderLen
<1>4. \A k \in 1 .. m : cells[k] = FinalHeader[pos + k]
  <2>1. \A k \in 1 .. HeaderLen - pos : HeaderRest[k] = FinalHeader[pos + k]
    BY <1>0, <1>3, FinalHeaderPieces DEF HeaderRest
  <2> QED
    BY <1>3, <2>1
<1>6. Len(out) \in Nat /\ HeaderLen <= Len(out)
  BY <1>0, <1>2 DEF IsImage, Stale
<1>7. /\ Len(out') = Len(out)
      /\ \A k \in 1 .. Len(out) :
           out'[k] = IF k > pos /\ k <= pos + m THEN cells[k - pos] ELSE out[k]
  <2>1. pos + Len(cells) <= Len(out)
    BY <1>3, <1>6
  <2> QED
    BY <1>0, <1>3, <2>1, Overwrite
<1>8. FinalHeader' = FinalHeader
  BY <1>7 DEF FinalHeader
<1>9. \A k \in 1 .. pos + m : out'[k] = FinalHeader[k]
  <2>1. ASSUME NEW k \in 1 .. pos + m PROVE out'[k] = FinalHeader[k]
    <3>1. k \in 1 .. Len(out)
      BY <1>3, <1>6
    <3>2. CASE k <= pos
      BY <1>2, <1>3, <1>7, <3>1, <3>2 DEF Headed
    <3>3. CASE ~(k <= pos)
      <4>1. k - pos \in 1 .. m /\ pos + (k - pos) = k /\ k <= pos + m
        BY <1>3, <3>3
      <4>2. out'[k] = cells[k - pos]
        BY <1>3, <1>7, <3>1, <3>3, <4>1
      <4> QED
        BY <1>4, <4>1, <4>2
    <3> QED
      BY <3>2, <3>3
  <2> QED
    BY <2>1
<1>10. Trailed'
  <2>1. Len(kept) \in Nat
    BY <1>2, NAssumption
  <2>2. \A k \in 1 .. Len(kept) + 1 : cOffset + k \in 1 .. Len(out) /\ ~(cOffset + k <= pos + m)
    BY <1>2, <1>3, <1>6, <2>1 DEF Trailed
  <2>3. \A k \in 1 .. Len(kept) + 1 : out'[cOffset + k] = out[cOffset + k]
    BY <1>7, <2>2
  <2> QED
    BY <1>2, <1>7, <2>3 DEF Trailed
<1>11. HeaderLen' = HeaderLen
  BY DEF HeaderLen
<1>12. m = HeaderLen - pos => Headed(HeaderLen)'
  <2>1. m = HeaderLen - pos => pos + m = HeaderLen
    BY <1>3
  <2> QED
    BY <1>8, <1>9, <1>11, <2>1 DEF Headed
<1>13. ASSUME m < HeaderLen - pos PROVE Begun'
  <2>1. HeaderLen \in 1 .. Len(out) /\ ~(HeaderLen <= pos + m)
    BY <1>2, <1>3, <1>6, <1>13
  <2>2. Stale'
    BY <1>2, <1>6, <1>7, <1>11, <2>1 DEF Stale, Blank
  <2>3. Headed(1)'
    <3>1. 1 \in 1 .. pos + m
      BY <1>2, <1>3
    <3>2. out'[1] = FinalHeader'[1]
      BY <1>8, <1>9, <3>1
    <3> QED
      BY <3>2 DEF Headed
  <2> QED
    BY <1>2, <2>2, <2>3 DEF Begun
<1> QED
  BY <1>2, <1>7, <1>10, <1>12, <1>13

(* All of it: the archive is complete.                                     *)
LEMMA FinalHeaderDone ==
  ASSUME IInv, Published, Close
  PROVE  Published' /\ Complete' /\ UNCHANGED <<kept, cOffset>>
<1>1. /\ pc = "close" /\ pc' = "done" /\ kept' = kept /\ cOffset' = cOffset
      /\ out' = WriteAt(out, pos, HeaderRest)
  BY DEF Close, Emit
<1>2. /\ IsImage(HeaderRest) /\ Len(HeaderRest) = HeaderLen - pos /\ pos \in 0 .. HeaderLen
      /\ HeaderLen \in Nat
  BY <1>1, RestImage, Numbers DEF IInv
<1>3. HeaderLen - pos \in 0 .. HeaderLen - pos
  BY <1>2
<1>4. Trailed' /\ HeaderLen <= cOffset' /\ Len(kept') = N /\ Headed(HeaderLen)'
  BY <1>1, <1>2, <1>3, RestWritten
<1>5. HeaderLen' = HeaderLen
  BY DEF HeaderLen
<1> QED
  BY <1>1, <1>4, <1>5 DEF Published, Complete, Writing

(* A part of it, or all and then no sync or close.                         *)
LEMMA CloseBroken ==
  ASSUME IInv, Published, CloseFails
  PROVE  /\ pc = "close" /\ pc' = "stopped" /\ why' = "close"
         /\ UNCHANGED <<source, kept, cOffset>>
         /\ Begun' \/ Complete'
<1>1. pc = "close" /\ Broken("close", pos, HeaderRest)
  BY DEF CloseFails
<1>2. /\ IsImage(HeaderRest) /\ Len(HeaderRest) = HeaderLen - pos /\ pos \in 0 .. HeaderLen
      /\ HeaderLen \in Nat
  BY <1>1, RestImage, Numbers DEF IInv
<1>3. IsImage(out) /\ pos \in 0 .. Len(out)
  BY DEF IInv, TypeOK, Positioned
<1>4. /\ pc' = "stopped" /\ why' = "close" /\ UNCHANGED <<source, kept, cOffset>>
      /\ \E n \in 0 .. Len(HeaderRest) : \E piece :
           /\ IsImage(piece) /\ Len(piece) = n /\ \A k \in 1 .. n : piece[k] = HeaderRest[k]
           /\ out' = WriteAt(out, pos, piece) /\ pos' = pos + n
  BY <1>1, <1>2, <1>3, BrokenImage
<1>5. PICK n \in 0 .. HeaderLen - pos :
        \E piece : /\ IsImage(piece) /\ Len(piece) = n
                   /\ \A k \in 1 .. n : piece[k] = HeaderRest[k]
                   /\ out' = WriteAt(out, pos, piece)
  BY <1>2, <1>4
<1>6. n = HeaderLen - pos \/ n < HeaderLen - pos
  BY <1>2, <1>5
<1>7. /\ Trailed' /\ HeaderLen <= cOffset' /\ Len(kept') = N
      /\ n = HeaderLen - pos => Headed(HeaderLen)'
      /\ n < HeaderLen - pos => Begun'
  BY <1>1, <1>4, <1>5, RestWritten
<1>8. HeaderLen' = HeaderLen
  BY DEF HeaderLen
<1> QED
  BY <1>1, <1>4, <1>6, <1>7, <1>8 DEF Complete

LEMMA PublishedStep ==
  ASSUME IInv, Published, [Next]_vars
  PROVE  Published'
<1>0. TypeOK /\ Positioned
  BY DEF IInv
<1>1. CASE UNCHANGED <<pc, why, out, pos, kept, cOffset>>
  BY <1>1 DEF Published, Writing, Unready, Stale, Trailed, Headed, FinalHeader, Begun, Complete
<1>2. CASE FirstHeader
  <2>1. /\ pc = "start" /\ pc' = "next" /\ out = << >> /\ pos = 0
        /\ Emit(Header(Found, 0, 0))
    BY <1>0, <1>2 DEF FirstHeader, Found, Published, Positioned
  <2>2. IsImage(Header(Found, 0, 0)) /\ Len(Header(Found, 0, 0)) = HeaderLen
    BY FoundImage, HeaderImage DEF HeaderLen
  <2>3. /\ \A k \in 1 .. HeaderLen : out'[0 + k] = Header(Found, 0, 0)[k]
        /\ pos' = 0 + HeaderLen /\ pos' <= Len(out')
    BY <1>0, <2>1, <2>2, EmitImage DEF TypeOK, Positioned
  <2>4. Header(Found, 0, 0)[1] = Blank /\ Header(Found, 0, 0)[HeaderLen].of[1] = Blank
    BY FoundImage, HeaderCells DEF HeaderLen, Blank
  <2>5. HeaderLen \in Nat /\ 1 \in 1 .. HeaderLen /\ HeaderLen \in 1 .. HeaderLen
    BY NAssumption DEF HeaderLen
  <2>6. Unready'
    <3>1. out'[0 + 1] = Blank /\ out'[0 + HeaderLen].of[1] = Blank
      BY <2>3, <2>4, <2>5
    <3>2. HeaderLen <= Len(out')
      BY <2>3, <2>5
    <3> QED
      BY <2>5, <3>1, <3>2 DEF Unready, Stale, HeaderLen, Blank
  <2> QED
    BY <2>1, <2>6 DEF Published, Writing
<1>3. CASE Refuse
  BY <1>3 DEF Refuse, Stop, Published, Writing, archive
<1>4. CASE Writing /\ Next /\ pc' \in {"next", "open", "read", "stat", "stopped"}
  <2>1. Unready
    BY <1>4 DEF Published
  <2>2. HeaderLen \in Nat /\ 1 \in 1 .. HeaderLen /\ HeaderLen \in 1 .. HeaderLen
    BY NAssumption DEF HeaderLen
  <2>3. Unready'
    BY <1>4, <2>1, <2>2, FrontKept DEF Unready, Stale
  <2> QED
    BY <1>4, <2>3 DEF Published, Writing
<1>5. CASE WriteTrailer
  BY <1>5, TrailerWritten
<1>6. CASE HeaderMismatch
  BY <1>6 DEF HeaderMismatch, Stop, Published, Writing, Unready, Stale, archive
<1>7. CASE FinalHeaderBegins
  BY <1>7, FinalHeaderBegun
<1>8. CASE Close
  BY <1>8, FinalHeaderDone
<1>9. CASE Next /\ ~WriteTrailer /\ Writing
  <2>0. OutputFails => pc' = "stopped"
    BY <1>0, OutputBroken DEF IInv
  <2>1. \/ pc' \in {"next", "open", "read", "stat", "stopped"}
        \/ UNCHANGED <<pc, why, out, pos, kept, cOffset>>
    BY <1>9, <2>0 DEF Next, Program, Progress, Writing, Refuse, FirstHeader, SpecialEntry, RegularEntry,
                Open, OpenFails, ReadBlock, CopyUnit, CopyEnds, ReadFails, EndStatPanics, Retry,
                GiveUp, Keep, HeaderMismatch, FinalHeaderBegins, Close, Stop, Environment, Ended,
                vars, archive
  <2> QED
    BY <1>1, <1>4, <1>9, <2>1
<1>10. CASE OutputFails /\ pc = "header"
  <2>1. pc' = "stopped" /\ out' = out
    BY <1>0, <1>10, OutputBroken DEF IInv
  <2>2. Unready'
    BY <1>10, <2>1 DEF Published, Unready, Stale, HeaderLen
  <2> QED
    BY <2>1, <2>2 DEF Published, Writing
<1>11. CASE CloseFails
  BY <1>11, CloseBroken DEF Published, Writing
<1>12. OutputFails => Writing \/ pc = "header" \/ CloseFails
  BY <1>0, OutputBroken DEF IInv
<1> QED
  BY <1>1, <1>2, <1>3, <1>5, <1>6, <1>7, <1>8, <1>9, <1>10, <1>11, <1>12
     DEF Next, Program, Progress, Writing, SpecialEntry, RegularEntry, Open, OpenFails,
         ReadBlock, CopyUnit, CopyEnds, ReadFails, EndStatPanics, Retry, GiveUp, Keep,
         Environment, Ended, vars, archive

(* Every step keeps the entries in order.                                  *)
LEMMA InOrderStep ==
  ASSUME IInv, InOrder, [Next]_vars
  PROVE  InOrder'
<1>0. TypeOK
  BY DEF IInv
<1>1. /\ kept \in Seq(KeptType) /\ Len(kept) \in Nat /\ cur \in Nat
      /\ \A j \in 1 .. Len(kept) : kept[j].id \in Nat
  <2>1. \A j \in 1 .. Len(kept) : kept[j] \in KeptType
    BY <1>0, KeptImage
  <2>2. \A e \in KeptType : e.id \in Entries
    BY DEF KeptType
  <2>3. cur \in Nat
    <3>1. cur \in 1 .. N + 1
      BY <1>0 DEF TypeOK
    <3> QED
      BY <3>1, NAssumption
  <2>4. Entries \subseteq Nat
    BY DEF Entries
  <2> QED
    BY <1>0, <2>1, <2>2, <2>3, <2>4, KeptImage DEF IsImage
<1>2. CASE kept' = kept /\ cur' \in {cur, cur + 1}
  BY <1>1, <1>2 DEF InOrder
<1>3. ASSUME NEW e, e.id = cur, kept' = Append(kept, e), cur' = cur + 1
      PROVE  InOrder'
  <2> DEFINE n == Len(kept)
  <2>1. Len(kept') = n + 1 /\ kept'[n + 1] = e /\ \A j \in 1 .. n : kept'[j] = kept[j]
    <3> DEFINE S == KeptType \cup {e}
    <3>1. kept \in Seq(S) /\ e \in S
      BY <1>1
    <3> HIDE DEF S
    <3> QED
      BY <1>3, <3>1, AppendProperties
  <2>2. n < cur
    BY DEF InOrder
  <2>3. ASSUME NEW j \in 1 .. n + 1
        PROVE  kept'[j].id >= j /\ kept'[j].id + ((n + 1) - j) < cur + 1 /\ kept'[j].id <= cur
               /\ (j # n + 1 => kept'[j].id < cur)
    <3>1. CASE j = n + 1
      BY <1>1, <1>3, <2>1, <2>2, <3>1
    <3>2. CASE j # n + 1
      <4>1. j \in 1 .. n
        BY <1>1, <3>2
      <4>2. kept[j].id >= j /\ kept[j].id + (n - j) < cur /\ kept[j].id \in Nat
        BY <1>1, <4>1 DEF InOrder
      <4> QED
        BY <1>1, <2>1, <4>1, <4>2
    <3> QED
      BY <3>1, <3>2
  <2>4. ASSUME NEW j \in 1 .. n + 1, NEW k \in 1 .. n + 1, j < k
        PROVE  kept'[j].id < kept'[k].id
    <3>1. j \in 1 .. n /\ j # n + 1
      BY <1>1, <2>4
    <3>2. CASE k = n + 1
      BY <1>3, <2>1, <2>3, <3>1, <3>2
    <3>3. CASE k # n + 1
      <4>1. k \in 1 .. n
        BY <1>1, <3>3
      <4> QED
        BY <2>1, <2>4, <3>1, <4>1 DEF InOrder
    <3> QED
      BY <3>2, <3>3
  <2>5. n + 1 < cur + 1
    BY <1>1, <2>2
  <2> QED
    BY <1>3, <2>1, <2>3, <2>4, <2>5 DEF InOrder
<1>4. CASE SpecialEntry
  BY <1>3, <1>4 DEF SpecialEntry, Entry
<1>5. CASE Keep
  BY <1>3, <1>5 DEF Keep, Entry
<1>6. CASE OutputFails
  BY <1>2, <1>6, OutputBroken DEF IInv
<1> QED
  BY <1>2, <1>4, <1>5, <1>6
     DEF Next, Program, Progress, Refuse, FirstHeader, RegularEntry, Open, OpenFails, ReadBlock,
         CopyUnit, CopyEnds, ReadFails, EndStatPanics, Retry, GiveUp, WriteTrailer,
         HeaderMismatch, FinalHeaderBegins, Close, Environment, Ended, vars

(* Every step counts the reads.                                            *)
LEMMA TriesStep ==
  ASSUME IInv, Tries, [Next]_vars
  PROVE  Tries'
<1>1. TypeOK /\ attempt \in Nat
  BY DEF IInv, TypeOK
<1>2. CASE attempt' = attempt /\ (pc' # "open" \/ pc = "open")
  BY <1>2 DEF Tries
<1>3. CASE RegularEntry
  BY <1>3, RetriesAssumption DEF RegularEntry, Tries
<1>4. CASE Open
  BY <1>1, <1>4, RetriesAssumption DEF Open, Tries
<1>5. CASE OpenFails
  BY <1>1, <1>5, RetriesAssumption DEF OpenFails, Stop, Tries
<1>6. CASE Retry
  BY <1>1, <1>6, RetriesAssumption DEF Retry, MayRetry, Tries
<1>7. CASE OutputFails
  BY <1>2, <1>7, OutputBroken DEF IInv, reading
<1> QED
  BY <1>2, <1>3, <1>4, <1>5, <1>6, <1>7
     DEF Next, Program, Progress, Refuse, FirstHeader, SpecialEntry, ReadBlock,
         CopyUnit, CopyEnds, ReadFails, EndStatPanics, GiveUp, Keep, WriteTrailer,
         HeaderMismatch, FinalHeaderBegins, Close, Environment, Ended, Stop, reading, vars

-----------------------------------------------------------------------------
LEMMA SInvInit == Init => SInv
<1> SUFFICES ASSUME Init PROVE SInv
  OBVIOUS
<1>1. pc = "start" /\ out = << >> /\ kept = << >> /\ cur = 1 /\ attempt = 0 /\ Len(<< >>) = 0
  BY DEF Init
<1>2. Published
  BY <1>1 DEF Published, Writing
<1>3. InOrder
  BY <1>1 DEF InOrder
<1>4. Tries
  BY <1>1, RetriesAssumption DEF Tries
<1> QED
  BY <1>2, <1>3, <1>4, InvariantInit DEF SInv

LEMMA SInvStep == SInv /\ [Next]_vars => SInv'
BY InvariantStep, PublishedStep, InOrderStep, TriesStep DEF SInv

(* The inductive invariant of the archive as a reader sees it, and of the  *)
(* order and the number of reads.                                          *)
THEOREM SInvariant == Spec => []SInv
BY SInvInit, SInvStep, PTL DEF Spec

(* No file is read more often than -retries allows.                        *)
THEOREM ReadsBounded == Spec => []AttemptsBounded
<1>1. SInv => AttemptsBounded
  BY DEF SInv, Tries, AttemptsBounded
<1> QED
  BY <1>1, SInvariant, PTL

-----------------------------------------------------------------------------
(* What a reader accepts.                                                  *)

(* An archive that is not ready names a size it does not have.             *)
LEMMA UnreadyRefused ==
  ASSUME IsImage(out), Unready
  PROVE  ~Accepted(out)
<1>1. HeaderLen <= Len(out) /\ HeaderLen \in Nat /\ HeaderLen >= 2 /\ Len(out) \in Nat
  BY NAssumption DEF IsImage, Unready, Stale, HeaderLen
<1>2. out[1].size = 0
  BY DEF Unready, Blank, FixedCell
<1> QED
  BY <1>1, <1>2 DEF Accepted

LEMMA CoveredBySum == ASSUME NEW covered PROVE SumCell(covered).of = covered
BY DEF SumCell

LEMMA SumOfFirst ==
  ASSUME NEW img, NEW n \in Nat, NEW m, m = n + 1, HasSum(img, 0, n)
  PROVE  img[m] = SumCell(SubSeq(img, 1, n))
<1>1. 0 + 1 = 1 /\ 0 + n = n
  OBVIOUS
<1> QED
  BY <1>1 DEF HasSum

(* Nor is one accepted whose header is only begun: its checksum is that of *)
(* the first one.                                                          *)
LEMMA BegunRefused ==
  ASSUME IInv, Begun
  PROVE  ~Accepted(out)
<1>1. /\ IsImage(out) /\ Len(out) \in Nat /\ HeaderLen <= Len(out) /\ HeaderLen = N + 2
      /\ N \in Nat /\ out[HeaderLen].of[1] = Blank /\ Len(kept) = N
      /\ out[1] = FinalHeader[1]
  BY NAssumption DEF IInv, Positioned, IsImage, Begun, Stale, Headed, HeaderLen
<1>2. out[1] = FixedCell(cOffset, Len(out), N)
  <2>1. IsImage(kept)
    BY KeptImage DEF IInv
  <2> QED
    BY <1>1, <2>1, HeaderCells DEF FinalHeader
<1>3. out[1].count = N /\ out[1] # Blank
  <2>1. out[1].size = Len(out) /\ Blank.size = 0 /\ out[1].count = N
    BY <1>2 DEF FixedCell, Blank
  <2> QED
    BY <1>1, <2>1
<1>4. SubSeq(out, 1, N + 1)[1] = out[1]
  <2>1. out \in Seq(Cells(out))
    BY <1>1, ImageIsSeq
  <2> QED
    BY <1>1, <2>1
<1>5. ASSUME HasSum(out, 0, N + 1) PROVE FALSE
  <2> DEFINE n == N + 1
  <2>1. n \in Nat /\ HeaderLen = n + 1 /\ HasSum(out, 0, n)
    BY <1>1, <1>5
  <2> HIDE DEF n
  <2>2. out[HeaderLen] = SumCell(SubSeq(out, 1, n))
    BY <2>1, SumOfFirst
  <2>3. out[HeaderLen].of = SubSeq(out, 1, n)
    BY <2>2, CoveredBySum
  <2>4. SubSeq(out, 1, n)[1] = out[1]
    BY <1>4 DEF n
  <2> QED
    BY <1>1, <1>3, <2>3, <2>4
<1> QED
  BY <1>3, <1>5 DEF Accepted

(* An archive with its final header is accepted.                           *)
LEMMA CompleteAccepted ==
  ASSUME IInv, Complete
  PROVE  /\ Accepted(out)
         /\ Len(kept) = N
         /\ out[1].count = N /\ out[1].trailer = cOffset
         /\ \A j \in 1 .. N : out[j + 1] = EntryCell(kept[j]) /\ out[cOffset + j] = IndexCell(kept[j])
<1> DEFINE F == FinalHeader
           T == Trailer(kept)
<1>1. /\ IsImage(out) /\ Len(out) \in Nat /\ HeaderLen = N + 2 /\ N \in Nat /\ Len(kept) = N
      /\ HeaderLen <= cOffset /\ cOffset \in Nat /\ cOffset + N + 1 <= Len(out)
      /\ \A k \in 1 .. N + 2 : out[k] = F[k]
      /\ \A k \in 1 .. N + 1 : out[cOffset + k] = T[k]
  <2>1. TypeOK /\ Positioned /\ IsImage(out)
    BY DEF IInv, Positioned
  <2>2. cOffset \in Nat
    BY <2>1, Numbers
  <2> QED
    BY <2>1, <2>2, NAssumption DEF IsImage, Complete, Trailed, Headed, HeaderLen
<1>2. IsImage(kept)
  BY KeptImage DEF IInv
<1>3. /\ IsImage(F) /\ Len(F) = N + 2
      /\ F[1] = FixedCell(cOffset, Len(out), N)
      /\ \A j \in 1 .. N : F[j + 1] = EntryCell(kept[j])
      /\ F[N + 2] = SumCell(SubSeq(F, 1, N + 1))
  <2> DEFINE H == Header(kept, cOffset, Len(out))
  <2>1. IsImage(H) /\ Len(H) = Len(kept) + 2
    BY <1>2, HeaderImage
  <2>2. /\ H[1] = FixedCell(cOffset, Len(out), Len(kept))
        /\ \A j \in 1 .. Len(kept) : H[j + 1] = EntryCell(kept[j])
        /\ H[Len(kept) + 2] = SumCell(SubSeq(H, 1, Len(kept) + 1))
    BY <1>2, HeaderCells
  <2>3. F = H
    BY DEF FinalHeader
  <2> HIDE DEF H, F
  <2> QED
    BY <1>1, <2>1, <2>2, <2>3
<1>4. /\ IsImage(T) /\ Len(T) = N + 1
      /\ \A j \in 1 .. N : T[j] = IndexCell(kept[j])
      /\ T[N + 1] = SumCell(SubSeq(T, 1, N))
  BY <1>1, <1>2, TrailerImage, TrailerCells
<1> HIDE DEF F, T
<1>5. out[1] = FixedCell(cOffset, Len(out), N)
  BY <1>1, <1>3
<1>6. out[1].kind = "fixed" /\ out[1].size = Len(out) /\ out[1].count = N /\ out[1].trailer = cOffset
  BY <1>5 DEF FixedCell
<1>7. HasSum(out, 0, N + 1)
  <2>1. \A k \in 1 .. N + 1 : out[0 + k] = F[k]
    BY <1>1
  <2>2. SubSeq(out, 0 + 1, 0 + (N + 1)) = SubSeq(F, 1, N + 1)
    BY <1>1, <1>3, <2>1, SamePiece
  <2>3. 0 + (N + 1) < Len(out) /\ 0 + (N + 1) + 1 = N + 2 /\ N + 2 \in 1 .. N + 2
    BY <1>1
  <2>4. out[N + 2] = SumCell(SubSeq(F, 1, N + 1))
    BY <1>1, <1>3, <2>3
  <2> QED
    BY <2>2, <2>3, <2>4 DEF HasSum
<1>8. HasSum(out, cOffset, N)
  <2>1. \A k \in 1 .. N : out[cOffset + k] = T[k]
    BY <1>1
  <2>2. cOffset + N <= Len(out) /\ N <= Len(T)
    BY <1>1, <1>4
  <2>3. SubSeq(out, cOffset + 1, cOffset + N) = SubSeq(T, 1, N)
    BY <1>1, <1>4, <2>1, <2>2, SamePiece
  <2>4. cOffset + N < Len(out) /\ cOffset + N + 1 = cOffset + (N + 1) /\ N + 1 \in 1 .. N + 1
    BY <1>1
  <2>5. out[cOffset + N + 1] = SumCell(SubSeq(T, 1, N))
    BY <1>1, <1>4, <2>4
  <2> QED
    BY <2>3, <2>4, <2>5 DEF HasSum
<1>9. Accepted(out)
  <2>1. out # << >>
    <3>1. Len(out) # 0
      BY <1>1
    <3> QED
      BY <3>1
  <2> QED
    BY <1>6, <1>7, <1>8, <2>1 DEF Accepted
<1>10. ASSUME NEW j \in 1 .. N
       PROVE  out[j + 1] = EntryCell(kept[j]) /\ out[cOffset + j] = IndexCell(kept[j])
  BY <1>1, <1>3, <1>4
<1> QED
  BY <1>1, <1>6, <1>9, <1>10

(* Nothing else is.                                                        *)
LEMMA OnlyCompleteAccepted ==
  ASSUME SInv, Accepted(out)
  PROVE  Complete /\ (pc = "done" \/ (pc = "stopped" /\ why = "close"))
<1>1. IInv /\ Published /\ IsImage(out)
  BY DEF SInv, IInv, Positioned
<1>2. out # << >>
  BY DEF Accepted
<1>3. ~Unready
  BY <1>1, UnreadyRefused
<1>4. pc # "close"
  <2>1. pc = "close" => Begun
    <3>1. pc = "close" => 1 \in 1 .. pos
      BY NAssumption DEF Published, SInv, HeaderLen
    <3> QED
      BY <1>1, <3>1 DEF Published, Begun, Headed
  <2> QED
    BY <1>1, <2>1, BegunRefused
<1>5. CASE pc = "done"
  BY <1>1, <1>5 DEF Published, Complete
<1>6. CASE pc = "stopped"
  BY <1>1, <1>2, <1>3, <1>6, BegunRefused DEF Published
<1> QED
  BY <1>1, <1>2, <1>3, <1>4, <1>5, <1>6 DEF Published, Writing, IInv, TypeOK

LEMMA AcceptedAtEnd == SInv => AcceptedOnlyAtTheEnd
<1> SUFFICES ASSUME SInv PROVE AcceptedOnlyAtTheEnd
  OBVIOUS
<1>1. pc = "done" => Complete
  BY DEF SInv, Published, Complete
<1> QED
  BY <1>1, CompleteAccepted, OnlyCompleteAccepted DEF SInv, AcceptedOnlyAtTheEnd

(* A run that ends well leaves an archive a reader accepts, whatever it    *)
(* holds; and a reader accepts none of a run that is cut short before its  *)
(* Close has written the last of the final header.                         *)
THEOREM AcceptedAtTheEnd == Spec => []AcceptedOnlyAtTheEnd
BY AcceptedAtEnd, SInvariant, PTL

-----------------------------------------------------------------------------
(* The data the archive leads to, so far and once it is accepted.          *)
Taken == Data(out, KeptEntries)
Offered == IF Accepted(out) THEN Data(out, Listed(out)) ELSE Nothing

(* Entries of different files, all intact, lead to what they recorded.     *)
ListOf(es, ks, n) == es = {ks[j] : j \in 1 .. n}
AllIntact(img, ks, n) == \A j \in 1 .. n : ks[j].id \in Regular => Intact(img, ks[j])
Apart(ks, n) == \A j, k \in 1 .. n : ks[j].id = ks[k].id => j = k
LeadsTo(img, es, ks, n) ==
  /\ \A j \in 1 .. n : ks[j].id \in Regular => DataOf(img, es, ks[j].id) = Recorded(ks[j])
  /\ \A i : (\A j \in 1 .. n : ks[j].id # i) => DataOf(img, es, i) = Nothing

LEMMA DataOfIntact ==
  ASSUME NEW img, NEW n, NEW ks, NEW es,
         ListOf(es, ks, n), AllIntact(img, ks, n), Apart(ks, n)
  PROVE  LeadsTo(img, es, ks, n)
<1>1. ASSUME NEW j \in 1 .. n, ks[j].id \in Regular
      PROVE  DataOf(img, es, ks[j].id) = Recorded(ks[j])
  <2> DEFINE i == ks[j].id
             c == CHOOSE e \in es : e.id = i /\ Intact(img, e)
  <2>1. \E e \in es : e.id = i /\ Intact(img, e)
    BY <1>1 DEF ListOf, AllIntact
  <2>2. c \in es /\ c.id = i
    BY <2>1
  <2>3. c = ks[j]
    BY <2>2 DEF ListOf, Apart
  <2> QED
    BY <2>1, <2>3 DEF DataOf
<1>2. ASSUME NEW i, \A j \in 1 .. n : ks[j].id # i
      PROVE  DataOf(img, es, i) = Nothing
  BY <1>2 DEF DataOf, ListOf
<1> QED
  BY <1>1, <1>2 DEF LeadsTo

(* What is taken is what the kept entries recorded.                        *)
TakenIs ==
  /\ Taken = [i \in Entries |-> Taken[i]]
  /\ \A j \in 1 .. Len(kept) : kept[j].id \in Regular => Taken[kept[j].id] = Recorded(kept[j])
  /\ \A i \in Entries : (i \notin Regular \/ \A j \in 1 .. Len(kept) : kept[j].id # i) =>
       Taken[i] = Nothing

LEMMA KeptApart ==
  ASSUME SInv
  PROVE  /\ Len(kept) \in Nat
         /\ \A j \in 1 .. Len(kept) : kept[j].id \in Entries /\ kept[j].id \in Nat
         /\ \A j, k \in 1 .. Len(kept) : kept[j].id = kept[k].id => j = k
<1>1. kept \in Seq(KeptType) /\ Len(kept) \in Nat
  BY KeptImage DEF SInv, IInv, IsImage
<1>2. ASSUME NEW j \in 1 .. Len(kept) PROVE kept[j].id \in Entries /\ kept[j].id \in Nat
  <2>1. kept[j] \in KeptType
    BY <1>1
  <2> QED
    BY <2>1 DEF KeptType, Entries
<1>3. ASSUME NEW j \in 1 .. Len(kept), NEW k \in 1 .. Len(kept), kept[j].id = kept[k].id
      PROVE  j = k
  <2>1. ~(j < k) /\ ~(k < j)
    BY <1>2, <1>3 DEF SInv, InOrder
  <2> QED
    BY <2>1
<1> QED
  BY <1>1, <1>2, <1>3

LEMMA TakenFromKept == SInv => TakenIs
<1> SUFFICES ASSUME SInv PROVE TakenIs
  OBVIOUS
<1>1. /\ Len(kept) \in Nat
      /\ \A j \in 1 .. Len(kept) : kept[j].id \in Entries
      /\ \A j, k \in 1 .. Len(kept) : kept[j].id = kept[k].id => j = k
  BY KeptApart
<1>2. \A j \in 1 .. Len(kept) : kept[j].id \in Regular => Intact(out, kept[j])
  BY DEF SInv, IInv, KeptIntact
<1>3. /\ \A j \in 1 .. Len(kept) : kept[j].id \in Regular =>
             DataOf(out, KeptEntries, kept[j].id) = Recorded(kept[j])
      /\ \A i : (\A j \in 1 .. Len(kept) : kept[j].id # i) => DataOf(out, KeptEntries, i) = Nothing
  <2>1. ListOf(KeptEntries, kept, Len(kept))
    BY DEF KeptEntries, ListOf
  <2>2. AllIntact(out, kept, Len(kept)) /\ Apart(kept, Len(kept))
    BY <1>1, <1>2 DEF AllIntact, Apart
  <2>3. LeadsTo(out, KeptEntries, kept, Len(kept))
    BY <2>1, <2>2, DataOfIntact
  <2> QED
    BY <2>3 DEF LeadsTo
<1>4. Taken = [i \in Entries |-> IF i \in Regular THEN DataOf(out, KeptEntries, i) ELSE Nothing]
  BY DEF Taken, Data
<1> QED
  BY <1>1, <1>3, <1>4 DEF TakenIs

LEMMA TakenFromKeptNext == SInv' => TakenIs'
BY TakenFromKept, PTL

(* As long as the entries kept are the same, so is what is taken.          *)
LEMMA SameTaken ==
  ASSUME SInv, SInv', kept' = kept
  PROVE  Taken' = Taken
<1>1. TakenIs /\ TakenIs'
  BY TakenFromKept, TakenFromKeptNext
<1>2. ASSUME NEW i \in Entries PROVE Taken'[i] = Taken[i]
  <2>1. CASE i \in Regular /\ \E j \in 1 .. Len(kept) : kept[j].id = i
    <3>1. PICK j \in 1 .. Len(kept) : kept[j].id = i
      BY <2>1
    <3> QED
      BY <1>1, <2>1, <3>1 DEF TakenIs
  <2>2. CASE ~(i \in Regular /\ \E j \in 1 .. Len(kept) : kept[j].id = i)
    BY <1>1, <2>2 DEF TakenIs
  <2> QED
    BY <2>1, <2>2
<1> QED
  BY <1>1, <1>2 DEF TakenIs

(* The entries of a full list are numbered without gaps.                   *)
LEMMA KeptInPlace ==
  ASSUME SInv, Len(kept) = N, NEW i \in Entries
  PROVE  kept[i].id = i
<1>1. N \in Nat /\ cur \in 1 .. N + 1 /\ i \in 1 .. Len(kept) /\ i \in 1 .. N
  BY NAssumption DEF SInv, IInv, TypeOK, Entries
<1>2. kept[i].id \in Nat /\ kept[i].id >= i /\ kept[i].id + (N - i) < cur
  BY <1>1, KeptApart DEF SInv, InOrder
<1> QED
  BY <1>1, <1>2

(* The list of an accepted archive leads to what was taken, and to all of  *)
(* it.                                                                     *)
LEMMA CompleteOffers == SInv /\ Complete => Offered = Taken
<1> SUFFICES ASSUME SInv, Complete PROVE Offered = Taken
  OBVIOUS
<1>1. /\ Accepted(out) /\ Len(kept) = N
      /\ out[1].count = N /\ out[1].trailer = cOffset
      /\ \A j \in 1 .. N : out[j + 1] = EntryCell(kept[j]) /\ out[cOffset + j] = IndexCell(kept[j])
  BY CompleteAccepted DEF SInv
<1> DEFINE rec(j) == [id |-> kept[j].id, size |-> kept[j].size, mtime |-> kept[j].mtime,
                      blocks |-> kept[j].blocks]
           read(j) == [id |-> out[j + 1].id, size |-> out[j + 1].size, mtime |-> out[j + 1].mtime,
                       blocks |-> out[out[1].trailer + j].blocks]
           ks == [j \in 1 .. N |-> rec(j)]
           es == Listed(out)
<1>2. ListOf(es, ks, N)
  <2>1. ASSUME NEW j \in 1 .. N PROVE read(j) = rec(j)
    <3>1. out[j + 1] = EntryCell(kept[j]) /\ out[cOffset + j] = IndexCell(kept[j])
      BY <1>1
    <3>2. out[out[1].trailer + j] = IndexCell(kept[j])
      BY <1>1, <3>1
    <3>3. /\ EntryCell(kept[j]).id = kept[j].id /\ EntryCell(kept[j]).size = kept[j].size
          /\ EntryCell(kept[j]).mtime = kept[j].mtime
      BY DEF EntryCell
    <3>4. IndexCell(kept[j]).blocks = kept[j].blocks
      BY DEF IndexCell
    <3> QED
      BY <3>1, <3>2, <3>3, <3>4
  <2>2. es = {read(j) : j \in 1 .. N}
    BY <1>1 DEF Listed
  <2>3. \A j \in 1 .. N : ks[j] = rec(j)
    OBVIOUS
  <2> HIDE DEF ks, es, read, rec
  <2> QED
    BY <2>1, <2>2, <2>3 DEF ListOf
<1>3. \A j \in 1 .. N : /\ ks[j].id = kept[j].id
                        /\ Recorded(ks[j]) = Recorded(kept[j])
                        /\ Intact(out, kept[j]) => Intact(out, ks[j])
  BY DEF Recorded, Intact
<1>4. TakenIs /\ \A j \in 1 .. N : kept[j].id = j /\ j \in Entries
  BY <1>1, TakenFromKept, KeptInPlace DEF Entries
<1>5. AllIntact(out, ks, N)
  BY <1>1, <1>3 DEF SInv, IInv, KeptIntact, AllIntact
<1>6. Apart(ks, N)
  BY <1>3, <1>4 DEF Apart
<1> HIDE DEF ks, es
<1>7. LeadsTo(out, es, ks, N)
  BY <1>2, <1>5, <1>6, DataOfIntact
<1>8. \A i \in Entries : i \in Regular => DataOf(out, es, i) = Recorded(kept[i])
  BY <1>3, <1>4, <1>7 DEF Entries, LeadsTo
<1>9. Offered = [i \in Entries |-> IF i \in Regular THEN DataOf(out, es, i) ELSE Nothing]
  BY <1>1 DEF Offered, Data, es
<1>10. \A i \in Entries : Taken[i] = IF i \in Regular THEN Recorded(kept[i]) ELSE Nothing
  BY <1>1, <1>4 DEF TakenIs, Entries
<1>11. Taken = [i \in Entries |-> IF i \in Regular THEN Recorded(kept[i]) ELSE Nothing]
  BY <1>4, <1>10 DEF TakenIs
<1> QED
  BY <1>8, <1>9, <1>11

LEMMA CompleteOffersNext == SInv' /\ Complete' => Offered' = Taken'
<1>1. (SInv /\ Complete => Offered = Taken)'
  BY CompleteOffers, PTL
<1> QED
  BY <1>1

-----------------------------------------------------------------------------
(* ArchiveWriter implements SnapshotArchive.                               *)

(* An entry that is kept is the first and last of its file, and all that   *)
(* is new in what is taken.                                                *)
LEMMA TakenGrows ==
  ASSUME SInv, SInv', NEW e, kept' = Append(kept, e)
  PROVE  /\ e.id \in Regular => Taken' = [Taken EXCEPT ![e.id] = Recorded(e)]
         /\ e.id \notin Regular => Taken' = Taken
         /\ \A i \in Entries : i >= e.id => Taken[i] = Nothing
<1>1. TakenIs /\ TakenIs'
  BY TakenFromKept, TakenFromKeptNext
<1>2. /\ Len(kept) \in Nat /\ Len(kept') = Len(kept) + 1
      /\ \A j \in 1 .. Len(kept) : kept'[j] = kept[j]
      /\ kept'[Len(kept) + 1] = e
  <2>1. kept \in Seq(KeptType) /\ kept' \in Seq(KeptType)
    BY DEF SInv, IInv, TypeOK, KeptType
  <2> QED
    BY <2>1, AppendProperties
<1>3. /\ \A j \in 1 .. Len(kept) : kept[j].id \in Entries /\ kept[j].id \in Nat
      /\ \A j \in 1 .. Len(kept') : kept'[j].id \in Nat
  <2>1. (SInv => \A j \in 1 .. Len(kept) : kept[j].id \in Entries /\ kept[j].id \in Nat)'
    BY KeptApart, PTL
  <2> QED
    BY <2>1, KeptApart
<1>4. e.id \in Nat /\ \A j \in 1 .. Len(kept) : kept[j].id < e.id
  <2>1. Len(kept) + 1 \in 1 .. Len(kept') /\ \A j \in 1 .. Len(kept) : j \in 1 .. Len(kept') /\ j < Len(kept) + 1
    BY <1>2
  <2> QED
    BY <1>2, <1>3, <2>1 DEF SInv, InOrder
<1>5. ASSUME NEW i \in Entries, i >= e.id PROVE Taken[i] = Nothing
  <2>1. i \in Nat
    BY DEF Entries
  <2>2. \A j \in 1 .. Len(kept) : kept[j].id # i
    BY <1>3, <1>4, <1>5, <2>1
  <2> QED
    BY <1>1, <2>2 DEF TakenIs
<1>6. ASSUME NEW i \in Entries, i # e.id \/ i \notin Regular PROVE Taken'[i] = Taken[i]
  <2>1. CASE i \in Regular /\ \E j \in 1 .. Len(kept) : kept[j].id = i
    <3>1. PICK j \in 1 .. Len(kept) : kept[j].id = i
      BY <2>1
    <3>2. j \in 1 .. Len(kept') /\ kept'[j] = kept[j]
      BY <1>2
    <3> QED
      BY <1>1, <2>1, <3>1, <3>2 DEF TakenIs
  <2>2. CASE ~(i \in Regular /\ \E j \in 1 .. Len(kept) : kept[j].id = i)
    <3>1. i \notin Regular \/ \A j \in 1 .. Len(kept') : kept'[j].id # i
      BY <1>2, <1>6, <2>2
    <3> QED
      BY <1>1, <2>2, <3>1 DEF TakenIs
  <2> QED
    BY <2>1, <2>2
<1>7. e.id \in Regular => Taken'[e.id] = Recorded(e)
  <2>1. Len(kept) + 1 \in 1 .. Len(kept')
    BY <1>2
  <2> QED
    BY <1>1, <1>2, <2>1 DEF TakenIs
<1>8. e.id \in Regular => Taken' = [Taken EXCEPT ![e.id] = Recorded(e)]
  BY <1>1, <1>6, <1>7 DEF TakenIs
<1>9. e.id \notin Regular => Taken' = Taken
  BY <1>1, <1>6 DEF TakenIs
<1> QED
  BY <1>5, <1>8, <1>9

(* Nothing is offered before the end.                                      *)
AtTheEnd == pc = "done" \/ (pc = "stopped" /\ why = "close")

LEMMA NothingOffered == SInv /\ ~AtTheEnd => Offered = Nothing
BY OnlyCompleteAccepted DEF Offered, AtTheEnd

LEMMA NothingOfferedNext == SInv' /\ ~AtTheEnd' => Offered' = Nothing
<1>1. (SInv /\ ~AtTheEnd => Offered = Nothing)'
  BY NothingOffered, PTL
<1> QED
  BY <1>1

SnapshotVars == <<path, Taken, Offered>>

LEMMA KeepTakes ==
  ASSUME SInv, SInv', Keep
  PROVE  \E i \in Regular : Snapshot!Take(i)
<1> DEFINE e == Entry(cur, path[cur].size, path[cur].ver, hadChange, startOffset, blocks)
<1>1. pc = "stat" /\ pc' # "done" /\ path[cur] # Missing /\ UNCHANGED path
      /\ kept' = Append(kept, e)
  BY DEF Keep, source
<1>2. cur \in Regular
  BY <1>1 DEF SInv, IInv, Versioned, Reading
<1>3. e.id = cur /\ Recorded(e) = Snapshot!Content(cur, path[cur])
  BY DEF Entry, Recorded, Content, Unit, Snapshot!Content
<1> HIDE DEF e
<1>4. /\ Taken' = [Taken EXCEPT ![cur] = Snapshot!Content(cur, path[cur])]
      /\ \A i \in Entries : i >= cur => Taken[i] = Nothing
  BY <1>1, <1>2, <1>3, TakenGrows
<1>5. Offered' = Offered
  <2>1. ~AtTheEnd /\ ~AtTheEnd'
    BY DEF Keep, AtTheEnd
  <2> QED
    BY <2>1, NothingOffered, NothingOfferedNext
<1>6. Regular \subseteq Entries
  BY RegularAssumption
<1>7. Snapshot!Take(cur)
  BY <1>1, <1>4, <1>5, <1>6 DEF Snapshot!Take, Taken, Offered
<1> QED
  BY <1>2, <1>7

LEMMA CompleteCommits ==
  ASSUME SInv, SInv', pc = "close", Complete', UNCHANGED <<path, kept>>
  PROVE  Snapshot!Commit
<1>1. ~AtTheEnd
  BY DEF AtTheEnd
<1>2. Taken' = Taken /\ Offered = Nothing /\ Offered' = Taken'
  BY <1>1, SameTaken, NothingOffered, CompleteOffersNext
<1>3. ASSUME NEW i \in Regular PROVE Taken[i] # Nothing
  <2>1. Len(kept) = N /\ i \in Entries
    BY RegularAssumption DEF SInv, Published
  <2>2. kept[i].id = i /\ i \in 1 .. Len(kept)
    BY <2>1, KeptInPlace DEF Entries
  <2>3. Taken[i] = Recorded(kept[i])
    BY <2>2, TakenFromKept DEF TakenIs
  <2>4. Recorded(kept[i]) \in Seq(Entries \X (-1 .. MaxChanges) \X Nat)
    <3>1. kept[i] \in KeptType
      BY <2>2, KeptImage DEF SInv, IInv
    <3>2. kept[i].id \in Entries /\ kept[i].size \in Nat /\ kept[i].mtime \in -1 .. MaxChanges
      BY <3>1 DEF KeptType
    <3> QED
      BY <3>2 DEF Recorded, Content, Unit
  <2> QED
    BY <2>3, <2>4, NothingAssumption
<1> QED
  BY <1>2, <1>3 DEF Snapshot!Commit, Taken, Offered

LEMMA CloseCommits ==
  ASSUME SInv, SInv', Close
  PROVE  Snapshot!Commit
<1>1. pc = "close" /\ UNCHANGED <<path, kept>>
  BY DEF Close, source
<1>2. Complete'
  BY FinalHeaderDone DEF SInv
<1> QED
  BY <1>1, <1>2, CompleteCommits

(* A Close that fails commits, or leaves what nobody accepts.              *)
LEMMA CloseFailsCommits ==
  ASSUME SInv, SInv', CloseFails
  PROVE  Snapshot!Commit \/ UNCHANGED SnapshotVars
<1>1. pc = "close" /\ UNCHANGED <<path, kept>> /\ (Begun' \/ Complete')
  BY CloseBroken DEF SInv, source
<1>2. CASE Complete'
  BY <1>1, <1>2, CompleteCommits
<1>3. CASE Begun'
  <2>1. (IInv /\ Begun => ~Accepted(out))'
    BY BegunRefused, PTL
  <2>2. Offered' = Nothing
    BY <1>3, <2>1 DEF SInv, Offered
  <2>3. ~AtTheEnd
    BY <1>1 DEF AtTheEnd
  <2>4. Offered = Nothing /\ Taken' = Taken
    BY <1>1, <2>3, NothingOffered, SameTaken
  <2> QED
    BY <1>1, <2>2, <2>4 DEF SnapshotVars
<1> QED
  BY <1>1, <1>2, <1>3

LEMMA SpecialTakesNothing ==
  ASSUME SInv, SInv', SpecialEntry
  PROVE  UNCHANGED SnapshotVars
<1> DEFINE e == Entry(cur, 0, path[cur].ver, FALSE, 0, << >>)
<1>1. pc = "next" /\ pc' # "done" /\ UNCHANGED path /\ cur \notin Regular
      /\ kept' = Append(kept, e)
  BY DEF SpecialEntry, source
<1>2. e.id = cur
  BY DEF Entry
<1> HIDE DEF e
<1>3. Taken' = Taken
  BY <1>1, <1>2, TakenGrows
<1>4. Offered' = Offered
  <2>1. ~AtTheEnd /\ ~AtTheEnd'
    BY DEF SpecialEntry, AtTheEnd
  <2> QED
    BY <2>1, NothingOffered, NothingOfferedNext
<1> QED
  BY <1>1, <1>3, <1>4 DEF SnapshotVars

(* Any other step keeps no entry and does not end the run; only the other  *)
(* programs change a source.                                               *)
LEMMA OtherSteps ==
  ASSUME SInv, SInv', [Next]_vars, ~Keep, ~Close, ~CloseFails, ~SpecialEntry
  PROVE  UNCHANGED <<Taken, Offered>>
<1>0. TypeOK /\ Positioned /\ SoFar
  BY DEF SInv, IInv
<1>1. kept' = kept
  BY <1>0, OutputBroken
     DEF Next, Program, Progress, Refuse, FirstHeader, RegularEntry, Open, OpenFails,
     ReadBlock, CopyUnit, CopyEnds, ReadFails, EndStatPanics, Retry, GiveUp, WriteTrailer,
     HeaderMismatch, FinalHeaderBegins, Environment, Ended, vars
<1>2. \/ ~AtTheEnd /\ ~AtTheEnd'
      \/ UNCHANGED <<out, kept>>
  <2>1. OutputFails => /\ ~AtTheEnd
                       /\ out' = out \/ (pc' = "stopped" /\ why' = "output")
    BY <1>0, OutputBroken DEF AtTheEnd, Started, OutputFails, ReserveFails, CopyFails,
       BlockFails, RewindFails, SumFails, TrailerFails, HeaderFails
  <2> QED
    BY <1>1, <2>1
     DEF Next, Program, Progress, Refuse, FirstHeader, RegularEntry, Open, OpenFails,
     ReadBlock, CopyUnit, CopyEnds, ReadFails, EndStatPanics, Retry, GiveUp, WriteTrailer,
     HeaderMismatch, FinalHeaderBegins, Environment, Ended, vars, Stop, AtTheEnd, archive
<1>3. Taken' = Taken
  BY <1>1, SameTaken
<1>4. Offered' = Offered
  <2>1. CASE ~AtTheEnd /\ ~AtTheEnd'
    BY <2>1, NothingOffered, NothingOfferedNext
  <2>2. CASE out' = out
    BY <2>2 DEF Offered
  <2> QED
    BY <1>2, <2>1, <2>2
<1> QED
  BY <1>3, <1>4

LEMMA SnapshotInit == Init => Snapshot!Init
<1> SUFFICES ASSUME Init PROVE Snapshot!Init
  OBVIOUS
<1>1. SInv
  BY SInvInit
<1>2. Taken = [i \in Entries |-> Nothing]
  <2>1. Len(kept) = 0
    BY DEF Init
  <2>2. \A i \in Entries : Taken[i] = Nothing
    BY <1>1, <2>1, TakenFromKept DEF TakenIs
  <2> QED
    BY <1>1, <2>2, TakenFromKept DEF TakenIs
<1>3. Offered = Nothing
  BY <1>1, NothingOffered DEF AtTheEnd, Init
<1> QED
  BY <1>2, <1>3 DEF Snapshot!Init, Taken, Offered

LEMMA SnapshotStep == SInv /\ SInv' /\ [Next]_vars => [Snapshot!Next]_Snapshot!vars
<1> SUFFICES ASSUME SInv, SInv', [Next]_vars PROVE [Snapshot!Next]_Snapshot!vars
  OBVIOUS
<1>1. CASE Keep
  BY <1>1, KeepTakes DEF Snapshot!Next
<1>2. CASE Close
  BY <1>2, CloseCommits DEF Snapshot!Next
<1>3. CASE SpecialEntry
  BY <1>3, SpecialTakesNothing DEF SnapshotVars, Snapshot!vars, Taken, Offered
<1>3a. CASE CloseFails
  BY <1>3a, CloseFailsCommits DEF SnapshotVars, Snapshot!Next, Snapshot!vars, Taken, Offered
<1>4. CASE ~Keep /\ ~Close /\ ~CloseFails /\ ~SpecialEntry
  <2>1. UNCHANGED <<Taken, Offered>>
    BY <1>4, OtherSteps
  <2>2. CASE path' = path
    BY <2>1, <2>2 DEF Snapshot!vars, Taken, Offered
  <2>3. CASE path' # path
    BY <2>1, <2>3 DEF Snapshot!Next, Snapshot!SourceChange, Taken, Offered
  <2> QED
    BY <2>2, <2>3
<1> QED
  BY <1>1, <1>2, <1>3, <1>3a, <1>4

(* Every archive create writes is a snapshot of each file, taken whole and *)
(* in order while the sources may change, and it appears complete or not   *)
(* at all.                                                                 *)
THEOREM TakesASnapshot == Spec => TakesSnapshots
<1>1. Init => Snapshot!Init
  BY SnapshotInit
<1>2. SInv /\ SInv' /\ [Next]_vars => [Snapshot!Next]_Snapshot!vars
  BY SnapshotStep
<1> QED
  BY <1>1, <1>2, SInvariant, PTL DEF Spec, TakesSnapshots, Snapshot!Spec
=============================================================================
