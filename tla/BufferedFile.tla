---------------------------- MODULE BufferedFile ---------------------------
(***************************************************************************)
(* BufferedFile (bufferWrite.go): a bufio.Writer of BufSize cells in front *)
(* of an os.File.  The archive and every extracted file are written        *)
(* through it.  Writes to the device may fail part way (a full disk); the  *)
(* bufio.Writer then keeps the error and refuses all later work.           *)
(***************************************************************************)
EXTENDS FileImage

CONSTANTS Cell,      \* what one unit of the file can hold
          BufSize,   \* writeBuffer
          MaxWrite,  \* bound of the model: cells per call of Write
          MaxSize    \* bound of the model: size of the file

ASSUME BufSizeAssumption == BufSize \in Nat \ {0}
ASSUME BoundsAssumption == MaxWrite \in Nat /\ MaxSize \in Nat

VARIABLES noFlush,   \* -noflush, fixed when the program starts
          disk,      \* the file's contents as the operating system has them
          fpos,      \* the offset of the os.File
          buf,       \* bytes accepted by the bufio.Writer, not yet written
          err,       \* the sticky error of the bufio.Writer
          saved,     \* the contents at the last successful Sync
          state      \* "open", "closed" (nil returned) or "failed"

vars == <<noFlush, disk, fpos, buf, err, saved, state>>

-----------------------------------------------------------------------------
(* bufio.Writer.Write(p): how many cells of buf \o p it hands to the file. *)
(* Nothing while the buffer has room; else it fills and writes the buffer, *)
(* and what then still exceeds a whole buffer goes to the file directly.   *)
Handed(buffered, given) ==
  LET total == buffered + given IN
  IF total <= BufSize THEN 0
  ELSE IF buffered = 0 \/ total - BufSize > BufSize THEN total
  ELSE BufSize

(* The operating system takes n cells of the stream at the file's offset.  *)
Put(stream, n) ==
  /\ disk' = WriteAt(disk, fpos, SubSeq(stream, 1, n))
  /\ fpos' = fpos + n

(* Mutant of FlushOk: an error does not stick.                             *)
FlushOkAfterError ==
  /\ Put(buf, Len(buf))
  /\ buf' = << >>
  /\ UNCHANGED err

(* Flush succeeds: everything buffered is in the file.                     *)
FlushOk ==
  /\ ~err
  /\ Put(buf, Len(buf))
  /\ buf' = << >>
  /\ UNCHANGED err

(* Flush fails: it already had an error, or the file takes only a part.    *)
FlushFails ==
  \/ err /\ UNCHANGED <<disk, fpos, buf, err>>
  \/ /\ ~err
     /\ \E n \in 0 .. Len(buf) - 1 :
          /\ Put(buf, n)
          /\ buf' = SubSeq(buf, n + 1, Len(buf))
     /\ err' = TRUE

-----------------------------------------------------------------------------
Init ==
  /\ noFlush \in BOOLEAN
  /\ disk = << >>
  /\ fpos = 0
  /\ buf = << >>
  /\ err = FALSE
  /\ saved = << >>
  /\ state = "open"

(* Mutant of Write: what does not fit is kept in memory all the same.      *)
WriteHoards(p) ==
  /\ state = "open"
  /\ ~err
  /\ buf' = buf \o p
  /\ UNCHANGED <<noFlush, disk, fpos, err, saved, state>>

(* BufferedFile.Write and WriteString, all accepted.                       *)
Write(p) ==
  /\ state = "open"
  /\ ~err
  /\ LET stream == buf \o p
         n == Handed(Len(buf), Len(p))
     IN /\ Put(stream, n)
        /\ buf' = SubSeq(stream, n + 1, Len(stream))
  /\ UNCHANGED <<noFlush, err, saved, state>>

(* BufferedFile.Write when the file takes only a part of what it is given: *)
(* what was in the buffer stays there, the error is kept.                  *)
WriteFails(p) ==
  /\ state = "open"
  /\ ~err
  /\ LET stream == buf \o p IN
     \E n \in 0 .. Handed(Len(buf), Len(p)) - 1 :
       /\ Put(stream, n)
       /\ buf' = IF buf = << >> THEN << >> ELSE SubSeq(stream, n + 1, BufSize)
  /\ err' = TRUE
  /\ UNCHANGED <<noFlush, saved, state>>

(* BufferedFile.Write after an error: refused.                             *)
WriteRefused ==
  /\ state = "open"
  /\ err
  /\ UNCHANGED vars

(* BufferedFile.Flush.                                                     *)
Flush ==
  /\ state = "open"
  /\ FlushOk \/ FlushFails
  /\ UNCHANGED <<noFlush, saved, state>>

(* Mutant of Seek: what was flushed stays in the buffer.                   *)
SeekKeepsBuffer(off) ==
  /\ state = "open"
  /\ ~err
  /\ disk' = WriteAt(disk, fpos, buf)
  /\ fpos' = off
  /\ err' = FALSE
  /\ UNCHANGED <<noFlush, buf, saved, state>>

(* BufferedFile.Seek(off, SeekStart): flush, move, reset the buffer.       *)
Seek(off) ==
  /\ state = "open"
  /\ ~err
  /\ disk' = WriteAt(disk, fpos, buf)
  /\ fpos' = off
  /\ buf' = << >>
  /\ err' = FALSE
  /\ UNCHANGED <<noFlush, saved, state>>

(* BufferedFile.Seek when its flush fails: the position is left alone.     *)
SeekFails ==
  /\ state = "open"
  /\ FlushFails
  /\ UNCHANGED <<noFlush, saved, state>>

(* BufferedFile.Sync: flush, then fsync.                                   *)
Sync ==
  /\ state = "open"
  /\ FlushOk
  /\ saved' = disk'
  /\ UNCHANGED <<noFlush, state>>

(* Mutant of Close: the fsync comes before the flush.                      *)
CloseSyncsFirst ==
  /\ state = "open"
  /\ FlushOk
  /\ saved' = IF noFlush THEN saved ELSE disk
  /\ state' = "closed"
  /\ UNCHANGED noFlush

(* BufferedFile.Close, nil returned: flush, fsync unless -noflush, close.  *)
Close ==
  /\ state = "open"
  /\ FlushOk
  /\ saved' = IF noFlush THEN saved ELSE disk'
  /\ state' = "closed"
  /\ UNCHANGED noFlush

(* BufferedFile.Close, an error returned by the flush, the fsync or the    *)
(* close; the file is closed all the same.                                 *)
CloseFails ==
  /\ state = "open"
  /\ FlushFails \/ FlushOk
  /\ state' = "failed"
  /\ UNCHANGED <<noFlush, saved>>

(* MaxWrite and MaxSize bound the model, not the code.                     *)
Chunks == UNION {[1 .. n -> Cell] : n \in 1 .. MaxWrite}
Fits(p) == fpos + Len(buf) + Len(p) <= MaxSize

Next ==
  \/ \E p \in Chunks : Fits(p) /\ (Write(p) \/ WriteFails(p))
  \/ WriteRefused
  \/ Flush
  \/ \E off \in 0 .. SizeAfter(Len(disk), fpos, Len(buf)) : Seek(off)
  \/ SeekFails
  \/ Sync
  \/ Close
  \/ CloseFails

Spec == Init /\ [][Next]_vars

-----------------------------------------------------------------------------
(* Every variable has its type; the buffer never exceeds its capacity and  *)
(* the offset never lies beyond the end of the file.                       *)
TypeOK ==
  /\ noFlush \in BOOLEAN
  /\ disk \in Seq(Cell)
  /\ fpos \in 0 .. Len(disk)
  /\ buf \in Seq(Cell)
  /\ Len(buf) <= BufSize
  /\ err \in BOOLEAN
  /\ saved \in Seq(Cell)
  /\ state \in {"open", "closed", "failed"}

(* The file as its writer sees it: the buffered cells are as good as       *)
(* written at the current offset.  After an error nothing is promised.     *)
Usable == state = "closed" \/ (state = "open" /\ ~err)
Logical == IF Usable THEN WriteAt(disk, fpos, buf) ELSE << >>
LogicalPos == IF Usable THEN fpos + Len(buf) ELSE 0

File == INSTANCE PositionedFile WITH
          Chunk <- Chunks,
          content <- Logical,
          pos <- LogicalPos,
          saved <- IF Usable THEN saved ELSE << >>,
          status <- IF ~Usable THEN "broken" ELSE state

(* bufferWrite.go behaves as the plain positioned file its callers assume: *)
(* buffering, direct writes, and seeks in any order never lose, duplicate  *)
(* or misplace a cell, and a failure is never hidden by a later success.   *)
ImplementsFile == File!Spec

(* Once a write to the device has failed, no later call puts a cell in the *)
(* file: the error sticks, so the file never has a hole where the failed   *)
(* cells should be (create ignores the result of bf.Write for the header   *)
(* and the trailer and looks only at Flush and Close).                     *)
NothingAfterError == [][err => disk' = disk]_vars

(* A close that returns nil without -noflush has all the data, buffered    *)
(* cells included, on the device: the "final flush to disk".               *)
CloseMeansSaved ==
  state = "closed" /\ ~noFlush => saved = WriteAt(disk, fpos, buf)
=============================================================================
