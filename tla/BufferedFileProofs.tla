-------------------------- MODULE BufferedFileProofs ------------------------
(***************************************************************************)
(* BufferedFile for every buffer size and every content: type correctness, *)
(* the sticky error, the final flush, and that it implements the plain     *)
(* file of PositionedFile.                                                 *)
(***************************************************************************)
EXTENDS BufferedFile, FileImageTheorems

-----------------------------------------------------------------------------
LEMMA NoCells == << >> \in Seq(Cell) /\ Len(<< >>) = 0 /\ Len(<< >>) <= BufSize
BY BufSizeAssumption

(* What is handed to the file is part of the stream, and what stays fits   *)
(* in the buffer.                                                          *)
LEMMA HandedBounds ==
  ASSUME NEW b \in 0 .. BufSize, NEW g \in Nat
  PROVE  Handed(b, g) \in 0 .. b + g /\ b + g - Handed(b, g) <= BufSize
BY BufSizeAssumption DEF Handed

(* The file stays a file when it takes a part of the stream.               *)
LEMMA PutType ==
  ASSUME disk \in Seq(Cell), fpos \in 0 .. Len(disk),
         NEW stream \in Seq(Cell), NEW n \in 0 .. Len(stream), Put(stream, n)
  PROVE  disk' \in Seq(Cell) /\ fpos' \in 0 .. Len(disk')
<1>1. SubSeq(stream, 1, n) \in Seq(Cell) /\ Len(SubSeq(stream, 1, n)) = n
  BY CutSeq
<1>2. disk' = WriteAt(disk, fpos, SubSeq(stream, 1, n)) /\ fpos' = fpos + n
  BY DEF Put
<1>3. disk' \in Seq(Cell) /\ Len(disk') = SizeAfter(Len(disk), fpos, n)
  BY <1>1, <1>2, WriteAtType
<1> QED
  BY <1>2, <1>3 DEF SizeAfter

LEMMA ChunkType == \A p \in Chunks : p \in Seq(Cell)
BY BoundsAssumption DEF Chunks

-----------------------------------------------------------------------------
LEMMA FlushOkType ==
  ASSUME TypeOK, FlushOk
  PROVE  /\ disk' \in Seq(Cell) /\ fpos' \in 0 .. Len(disk')
         /\ buf' = << >> /\ err' = FALSE
         /\ disk' = WriteAt(disk, fpos, buf) /\ fpos' = fpos + Len(buf)
<1>1. disk' \in Seq(Cell) /\ fpos' \in 0 .. Len(disk')
  BY PutType DEF TypeOK, FlushOk
<1>2. SubSeq(buf, 1, Len(buf)) = buf
  BY DEF TypeOK
<1> QED
  BY <1>1, <1>2 DEF TypeOK, FlushOk, Put

LEMMA FlushFailsType ==
  ASSUME TypeOK, FlushFails
  PROVE  /\ disk' \in Seq(Cell) /\ fpos' \in 0 .. Len(disk')
         /\ buf' \in Seq(Cell) /\ Len(buf') <= BufSize
         /\ err' = TRUE
<1>1. CASE err /\ UNCHANGED <<disk, fpos, buf, err>>
  BY <1>1 DEF TypeOK
<1>2. CASE ~err /\ err' = TRUE /\ \E n \in 0 .. Len(buf) - 1 :
             Put(buf, n) /\ buf' = SubSeq(buf, n + 1, Len(buf))
  <2>1. PICK n \in 0 .. Len(buf) - 1 : Put(buf, n) /\ buf' = SubSeq(buf, n + 1, Len(buf))
    BY <1>2
  <2>2. n \in 0 .. Len(buf) /\ buf \in Seq(Cell)
    BY DEF TypeOK
  <2>3. disk' \in Seq(Cell) /\ fpos' \in 0 .. Len(disk')
    BY <2>1, <2>2, PutType DEF TypeOK
  <2>4. buf' \in Seq(Cell) /\ Len(buf') = Len(buf) - n
    BY <2>1, <2>2, CutSeq
  <2>5. Len(buf') <= BufSize
    BY <2>2, <2>4, BufSizeAssumption DEF TypeOK
  <2> QED
    BY <1>2, <2>3, <2>4, <2>5
<1> QED
  BY <1>1, <1>2 DEF FlushFails

LEMMA WriteType ==
  ASSUME TypeOK, NEW p \in Seq(Cell), Write(p)
  PROVE  TypeOK'
<1> DEFINE stream == buf \o p
           n == Handed(Len(buf), Len(p))
<1>1. stream \in Seq(Cell) /\ Len(stream) = Len(buf) + Len(p)
  BY ConcatProperties DEF TypeOK
<1>2. n \in 0 .. Len(stream) /\ Len(stream) - n <= BufSize
  <2>1. Len(buf) \in 0 .. BufSize /\ Len(p) \in Nat
    BY BufSizeAssumption DEF TypeOK
  <2> QED
    BY <1>1, <2>1, HandedBounds
<1>3. Put(stream, n) /\ buf' = SubSeq(stream, n + 1, Len(stream))
  BY DEF Write
<1>4. disk' \in Seq(Cell) /\ fpos' \in 0 .. Len(disk')
  BY <1>1, <1>2, <1>3, PutType DEF TypeOK
<1>5. buf' \in Seq(Cell) /\ Len(buf') <= BufSize
  BY <1>1, <1>2, <1>3, CutSeq
<1> QED
  BY <1>4, <1>5 DEF TypeOK, Write

LEMMA WriteFailsType ==
  ASSUME TypeOK, NEW p \in Seq(Cell), WriteFails(p)
  PROVE  TypeOK'
<1> DEFINE stream == buf \o p
           m == Handed(Len(buf), Len(p))
<1>1. stream \in Seq(Cell) /\ Len(stream) = Len(buf) + Len(p)
  BY ConcatProperties DEF TypeOK
<1>2. m \in 0 .. Len(stream) /\ (m > 0 => Len(stream) > BufSize)
  BY <1>1, HandedBounds, BufSizeAssumption DEF TypeOK, Handed
<1>3. PICK n \in 0 .. m - 1 :
        /\ Put(stream, n)
        /\ buf' = IF buf = << >> THEN << >> ELSE SubSeq(stream, n + 1, BufSize)
  BY DEF WriteFails
<1>4. n \in 0 .. Len(stream) /\ BufSize < Len(stream)
  BY <1>1, <1>2
<1>5. disk' \in Seq(Cell) /\ fpos' \in 0 .. Len(disk')
  BY <1>1, <1>3, <1>4, PutType DEF TypeOK
<1>6. SubSeq(stream, n + 1, BufSize) \in Seq(Cell)
      /\ Len(SubSeq(stream, n + 1, BufSize)) <= BufSize
  BY <1>1, <1>4, BufSizeAssumption
<1>7. buf' \in Seq(Cell) /\ Len(buf') <= BufSize
  BY <1>3, <1>6, NoCells
<1> QED
  BY <1>5, <1>7 DEF TypeOK, WriteFails

LEMMA SeekType ==
  ASSUME TypeOK, NEW off \in 0 .. SizeAfter(Len(disk), fpos, Len(buf)), Seek(off)
  PROVE  TypeOK'
<1>1. disk' \in Seq(Cell) /\ Len(disk') = SizeAfter(Len(disk), fpos, Len(buf))
  BY WriteAtType DEF TypeOK, Seek
<1> QED
  BY <1>1, NoCells DEF TypeOK, Seek

(* Every variable of BufferedFile keeps its type: the buffer within its    *)
(* capacity and the offset within the file.                                *)
THEOREM TypeCorrect == Spec => []TypeOK
<1>1. Init => TypeOK
  <2> SUFFICES ASSUME Init PROVE TypeOK
    OBVIOUS
  <2>1. /\ disk \in Seq(Cell) /\ Len(disk) = 0
        /\ buf \in Seq(Cell) /\ Len(buf) <= BufSize /\ saved \in Seq(Cell)
    BY NoCells DEF Init
  <2>2. fpos \in 0 .. Len(disk)
    BY <2>1 DEF Init
  <2> QED
    BY <2>1, <2>2 DEF Init, TypeOK
<1>2. TypeOK /\ [Next]_vars => TypeOK'
  <2> SUFFICES ASSUME TypeOK, [Next]_vars PROVE TypeOK'
    OBVIOUS
  <2>1. ASSUME NEW p \in Chunks, Fits(p), Write(p) PROVE TypeOK'
    BY <2>1, ChunkType, WriteType
  <2>2. ASSUME NEW p \in Chunks, Fits(p), WriteFails(p) PROVE TypeOK'
    BY <2>2, ChunkType, WriteFailsType
  <2>3. CASE WriteRefused
    BY <2>3 DEF WriteRefused, vars, TypeOK
  <2>4. CASE Flush
    BY <2>4, FlushOkType, FlushFailsType, NoCells DEF Flush, TypeOK
  <2>5. ASSUME NEW off \in 0 .. SizeAfter(Len(disk), fpos, Len(buf)), Seek(off) PROVE TypeOK'
    BY <2>5, SeekType
  <2>6. CASE SeekFails
    BY <2>6, FlushFailsType DEF SeekFails, TypeOK
  <2>7. CASE Sync
    BY <2>7, FlushOkType, NoCells DEF Sync, TypeOK
  <2>8. CASE Close
    BY <2>8, FlushOkType, NoCells DEF Close, TypeOK
  <2>9. CASE CloseFails
    BY <2>9, FlushOkType, FlushFailsType, NoCells DEF CloseFails, TypeOK
  <2>10. CASE UNCHANGED vars
    BY <2>10 DEF vars, TypeOK
  <2> QED
    BY <2>1, <2>2, <2>3, <2>4, <2>5, <2>6, <2>7, <2>8, <2>9, <2>10 DEF Next
<1> QED
  BY <1>1, <1>2, PTL DEF Spec

-----------------------------------------------------------------------------
(* Once a write to the device has failed no later call changes the file.   *)
THEOREM ErrorSticks == Spec => NothingAfterError
<1>1. [Next]_vars => [err => disk' = disk]_vars
  <2> SUFFICES ASSUME Next, err PROVE disk' = disk
    BY DEF vars
  <2> QED
    BY DEF Next, Write, WriteFails, WriteRefused, Flush, FlushOk, FlushFails, Seek, SeekFails,
           Sync, Close, CloseFails, vars
<1> QED
  BY <1>1, PTL DEF Spec, NothingAfterError

(* Without -noflush, a close that returned nil has synced what it flushed; *)
(* the buffer is empty from then on, which makes the property inductive.   *)
ClosedState == state = "closed" => buf = << >> /\ (noFlush \/ saved = disk)

LEMMA ClosedIsFinal == TypeOK /\ ClosedState /\ [Next]_vars => ClosedState'
<1> SUFFICES ASSUME TypeOK, ClosedState, [Next]_vars PROVE ClosedState'
  OBVIOUS
<1>1. CASE Close
  BY <1>1 DEF Close, FlushOk, ClosedState
<1>2. CASE UNCHANGED vars
  BY <1>2 DEF vars, ClosedState
<1>3. CASE Next /\ ~Close
  <2>1. state' # "closed"
    BY <1>3 DEF Next, Write, WriteFails, WriteRefused, Flush, Seek, SeekFails, Sync, CloseFails,
                vars
  <2> QED
    BY <2>1 DEF ClosedState
<1> QED
  BY <1>1, <1>2, <1>3

(* A successful close without -noflush leaves all the data on the device.  *)
THEOREM FinalFlush == Spec => []CloseMeansSaved
<1>1. Init => ClosedState
  BY DEF Init, ClosedState
<1>2. TypeOK /\ ClosedState => CloseMeansSaved
  <2> SUFFICES ASSUME TypeOK, ClosedState, state = "closed", ~noFlush
               PROVE  saved = WriteAt(disk, fpos, buf)
    BY DEF CloseMeansSaved
  <2>1. buf = << >> /\ saved = disk
    BY DEF ClosedState
  <2>2. WriteAt(disk, fpos, << >>) = disk
    BY WriteAtNothing DEF TypeOK
  <2> QED
    BY <2>1, <2>2
<1> QED
  BY <1>1, <1>2, TypeCorrect, ClosedIsFinal, PTL DEF Spec

-----------------------------------------------------------------------------
(* The refinement.  What the writer sees after the device took a part of   *)
(* the stream and the rest went into the buffer is one plain write.        *)
LEMMA BufferingIsInvisible ==
  ASSUME TypeOK, NEW p \in Seq(Cell), NEW n \in 0 .. Len(buf \o p),
         Put(buf \o p, n), buf' = SubSeq(buf \o p, n + 1, Len(buf \o p))
  PROVE  /\ WriteAt(disk', fpos', buf') = WriteAt(WriteAt(disk, fpos, buf), fpos + Len(buf), p)
         /\ fpos' + Len(buf') = fpos + Len(buf) + Len(p)
<1>1. buf \o p \in Seq(Cell) /\ Len(buf \o p) = Len(buf) + Len(p)
  BY ConcatProperties DEF TypeOK
<1>2. /\ disk' = WriteAt(disk, fpos, SubSeq(buf \o p, 1, n))
      /\ fpos' = fpos + n
      /\ buf' = SubSeq(buf \o p, n + 1, Len(buf \o p))
  BY DEF Put
<1>3. WriteAt(disk', fpos', buf') = WriteAt(disk, fpos, buf \o p)
  BY <1>1, <1>2, WriteAtCut DEF TypeOK
<1>4. WriteAt(WriteAt(disk, fpos, buf), fpos + Len(buf), p) = WriteAt(disk, fpos, buf \o p)
  BY WriteAtConcat DEF TypeOK
<1>5. Len(buf') = Len(buf) + Len(p) - n
  BY <1>1, <1>2, CutSeq
<1>6. fpos \in Nat /\ n \in Nat /\ Len(buf) \in Nat /\ Len(p) \in Nat
  BY <1>1 DEF TypeOK
<1>7. fpos' + Len(buf') = fpos + Len(buf) + Len(p)
  <2>1. fpos' = fpos + n
    BY <1>2
  <2>2. (fpos + n) + (Len(buf) + Len(p) - n) = fpos + Len(buf) + Len(p)
    BY <1>6
  <2> QED
    BY <2>1, <2>2, <1>5
<1> QED
  BY <1>3, <1>4, <1>7

(* A flush changes nothing the writer sees.                                *)
LEMMA FlushIsInvisible ==
  ASSUME TypeOK, FlushOk
  PROVE  /\ WriteAt(disk', fpos', buf') = WriteAt(disk, fpos, buf)
         /\ WriteAt(disk', fpos', buf') = disk'
         /\ fpos' + Len(buf') = fpos + Len(buf)
<1>1. /\ disk' \in Seq(Cell) /\ fpos' \in 0 .. Len(disk') /\ buf' = << >>
      /\ disk' = WriteAt(disk, fpos, buf) /\ fpos' = fpos + Len(buf)
  BY FlushOkType
<1>2. WriteAt(disk', fpos', << >>) = disk'
  BY <1>1, WriteAtNothing
<1> QED
  BY <1>1, <1>2, NoCells DEF TypeOK

LEMMA InitRefines == Init => File!Init
<1> SUFFICES ASSUME Init PROVE File!Init
  OBVIOUS
<1>1. Usable /\ Logical = WriteAt(<< >>, 0, << >>) /\ LogicalPos = 0
  BY NoCells DEF Init, Usable, Logical, LogicalPos
<1>2. WriteAt(<< >>, 0, << >>) = << >>
  <2>1. 0 \in 0 .. Len(<< >>)
    OBVIOUS
  <2> QED
    BY <2>1, NoCells, WriteAtNothing
<1> QED
  BY <1>1, <1>2 DEF Init, File!Init

(* Every step of the buffered file is a step of the plain one or none.     *)
LEMMA StepRefines == TypeOK /\ ClosedState /\ [Next]_vars => [File!Next]_(File!vars)
<1> SUFFICES ASSUME TypeOK, ClosedState, [Next]_vars PROVE File!Next \/ UNCHANGED File!vars
  BY DEF File!vars
<1>u. ASSUME UNCHANGED <<noFlush, saved, state>>, UNCHANGED Usable,
             UNCHANGED Logical, UNCHANGED LogicalPos
      PROVE  UNCHANGED File!vars
  BY <1>u DEF File!vars
(* Whatever fails on an open, usable file breaks it.                       *)
<1>b. ASSUME Usable, state = "open", ~Usable', UNCHANGED noFlush
      PROVE  File!Break
  BY <1>b DEF File!Break, Logical, LogicalPos
<1>w. ASSUME ~Usable, ~Usable', UNCHANGED noFlush
      PROVE  UNCHANGED File!vars
  BY <1>w DEF File!vars, Logical, LogicalPos
<1>1. ASSUME NEW p \in Chunks, Write(p) PROVE File!Write(p)
  <2>1. p \in Seq(Cell)
    BY ChunkType
  <2>2. Usable /\ Usable' /\ state = "open" /\ state' = "open"
    BY <1>1 DEF Write, Usable
  <2>3. Handed(Len(buf), Len(p)) \in 0 .. Len(buf \o p)
    <3>1. Len(buf) \in 0 .. BufSize /\ Len(p) \in Nat
      BY <2>1, BufSizeAssumption DEF TypeOK
    <3>2. Len(buf \o p) = Len(buf) + Len(p)
      BY <2>1, ConcatProperties DEF TypeOK
    <3> QED
      BY <3>1, <3>2, HandedBounds
  <2>4. /\ WriteAt(disk', fpos', buf') = WriteAt(WriteAt(disk, fpos, buf), fpos + Len(buf), p)
        /\ fpos' + Len(buf') = fpos + Len(buf) + Len(p)
    BY <1>1, <2>1, <2>3, BufferingIsInvisible DEF Write
  <2>5. Logical' = WriteAt(Logical, LogicalPos, p) /\ LogicalPos' = LogicalPos + Len(p)
    BY <2>2, <2>4 DEF Logical, LogicalPos
  <2> QED
    <3>1. UNCHANGED <<noFlush, saved, state>>
      BY <1>1 DEF Write
    <3> QED
      BY <2>2, <2>5, <3>1 DEF File!Write, File!WriteAt, File!SizeAfter, WriteAt, SizeAfter
<1>2. ASSUME NEW p \in Chunks, WriteFails(p) PROVE File!Break
  BY <1>2, <1>b DEF WriteFails, Usable
<1>3. CASE WriteRefused \/ UNCHANGED vars
  BY <1>3, <1>u DEF WriteRefused, vars, Usable, Logical, LogicalPos
<1>4. ASSUME FlushOk, UNCHANGED <<noFlush, saved, state>>, state = "open"
      PROVE  UNCHANGED File!vars
  <2>1. Usable /\ Usable'
    BY <1>4 DEF FlushOk, Usable
  <2>2. UNCHANGED Logical /\ UNCHANGED LogicalPos
    BY <1>4, <2>1, FlushIsInvisible DEF Logical, LogicalPos
  <2> QED
    BY <1>4, <2>1, <2>2, <1>u
<1>5. ASSUME FlushFails, UNCHANGED noFlush, state = "open", state' # "closed"
      PROVE  File!Break \/ UNCHANGED File!vars
  <2>1. err' = TRUE
    BY <1>5, FlushFailsType
  <2>2. ~Usable'
    BY <1>5, <2>1 DEF Usable
  <2> QED
    BY <1>5, <2>2, <1>b, <1>w
<1>6. CASE Flush
  <2>1. state = "open" /\ UNCHANGED <<noFlush, saved, state>>
    BY <1>6 DEF Flush
  <2>2. state' # "closed" /\ UNCHANGED noFlush
    BY <2>1
  <2>3. FlushOk \/ FlushFails
    BY <1>6 DEF Flush
  <2> QED
    BY <2>1, <2>2, <2>3, <1>4, <1>5 DEF File!Next
<1>7. ASSUME NEW off \in 0 .. SizeAfter(Len(disk), fpos, Len(buf)), Seek(off)
      PROVE  File!Seek(off) /\ off \in 0 .. Len(Logical)
  <2>1. Usable /\ Usable' /\ state = "open" /\ state' = "open"
    BY <1>7 DEF Seek, Usable
  <2>2. disk' \in Seq(Cell) /\ Len(disk') = SizeAfter(Len(disk), fpos, Len(buf))
    BY <1>7, WriteAtType DEF Seek, TypeOK
  <2>3. Logical' = WriteAt(disk', off, << >>) /\ LogicalPos' = off
    BY <1>7, <2>1, NoCells DEF Seek, Logical, LogicalPos
  <2>4. WriteAt(disk', off, << >>) = disk'
    BY <2>2, WriteAtNothing
  <2>5. Logical = disk'
    BY <1>7, <2>1 DEF Logical, Seek
  <2> QED
    BY <1>7, <2>1, <2>2, <2>3, <2>4, <2>5 DEF File!Seek, Seek
<1>8. CASE SeekFails
  <2>1. state = "open" /\ state' # "closed" /\ UNCHANGED noFlush /\ FlushFails
    BY <1>8 DEF SeekFails
  <2> QED
    BY <2>1, <1>5 DEF File!Next
<1>9. ASSUME Sync \/ Close PROVE File!Sync \/ File!Close
  <2>1. FlushOk /\ state = "open" /\ Usable /\ Usable' /\ UNCHANGED noFlush
    BY <1>9 DEF Sync, Close, FlushOk, Usable
  <2>2. UNCHANGED Logical /\ UNCHANGED LogicalPos /\ Logical = disk'
    BY <2>1, FlushIsInvisible DEF Logical, LogicalPos
  <2> QED
    BY <1>9, <2>1, <2>2 DEF File!Sync, File!Close, Sync, Close
<1>10. CASE CloseFails
  <2>1. ~Usable'
    BY <1>10 DEF CloseFails, Usable
  <2>2. state = "open" /\ UNCHANGED noFlush
    BY <1>10 DEF CloseFails
  <2>3. CASE Usable
    BY <2>1, <2>2, <2>3, <1>b DEF File!Next
  <2>4. CASE ~Usable
    BY <2>1, <2>2, <2>4, <1>w
  <2> QED
    BY <2>3, <2>4
<1>11. ASSUME NEW off \in 0 .. SizeAfter(Len(disk), fpos, Len(buf)), Seek(off)
       PROVE  File!Next
  BY <1>7, <1>11 DEF File!Next
<1> QED
  BY <1>1, <1>2, <1>3, <1>6, <1>8, <1>9, <1>10, <1>11 DEF Next, File!Next

(* bufferWrite.go implements the plain positioned file.                    *)
THEOREM BufferedFileImplementsFile == Spec => ImplementsFile
<1>1. Init => ClosedState
  BY DEF Init, ClosedState
<1> QED
  BY <1>1, InitRefines, StepRefines, TypeCorrect, ClosedIsFinal, PTL
     DEF Spec, ImplementsFile, File!Spec
=============================================================================
