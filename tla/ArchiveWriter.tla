--------------------------- MODULE ArchiveWriter ---------------------------
(***************************************************************************)
(* create and writeEntries (create.go): one pass over the entries found by *)
(* walkPaths, writing header, file data and trailer to the archive, then   *)
(* the header again with the final offsets.  A file that changes while it  *)
(* is read is read again from where it began in the archive.               *)
(*                                                                         *)
(* The archive is an image of cells (FileImage) written at a position, as  *)
(* the module BufferedFile justifies.  A crash leaves the image of some    *)
(* state of the run: whatever is said of every state holds after a crash.  *)
(* A write, flush, seek, sync or close that fails ends the run (log.Fatal) *)
(* with any beginning of the cells at hand in the image; what was still in *)
(* the buffer before them may be lost too, which leaves an earlier image.  *)
(* The source files are changed by others at any moment; every change      *)
(* gives a file a new version, which stands for its modification time.     *)
(***************************************************************************)
EXTENDS FileImage

CONSTANTS N,            \* number of entries
          Regular,      \* the entries that are regular files
          Checksums,    \* features.IsSet(fChecksums)
          NoCompress,   \* features.IsSet(fNoCompress); blockSize is then 0
          DoForce,      \* doForce
          FailOnChange, \* failOnChange
          FileRetries,  \* fileRetries
          BlockSize,    \* blockSize, in units of file data
          MaxComp,      \* bound of the model: cells of a compressed block
          Sizes,        \* bound of the model: sizes of a source file
          MaxChanges,   \* bound of the model: changes of the source files
          Hazards,      \* what may happen: "write", "replace", "remove" a source,
                        \* an "error" of the walk or a read, one of the "output"
          Nothing       \* neither a file's data nor an archive

Entries == 1 .. N

ASSUME NAssumption == N \in Nat
ASSUME RegularAssumption == Regular \subseteq Entries
ASSUME FlagsAssumption ==
  {Checksums, NoCompress, DoForce, FailOnChange} \subseteq BOOLEAN
ASSUME RetriesAssumption == FileRetries \in Nat
ASSUME BlockSizeAssumption == BlockSize \in Nat \ {0}
ASSUME BoundsAssumption ==
  MaxComp \in Nat \ {0} /\ Sizes \subseteq Nat /\ MaxChanges \in Nat
ASSUME HazardsAssumption ==
  Hazards \subseteq {"write", "replace", "remove", "error", "output"}
ASSUME NothingAssumption == Nothing \notin Seq(Entries \X (-1 .. MaxChanges) \X Nat)

VARIABLES
  path,        \* source file under each path: version and size, or Missing
  clock,       \* number of changes made to source files
  inode,       \* the open file, as it is now
  linked,      \* whether the path still names the open file
  pc,          \* where the program is
  why,         \* why it stopped early
  cur,         \* index of the entry at hand
  attempt,     \* reads of this entry, this one included
  hadChange,   \* a read of this entry saw it change
  statStart,   \* the file as the first Stat of this attempt saw it
  startOffset, \* where this attempt begins in the archive
  rpos,        \* units read from the open file
  hashed,      \* units fed to the hasher since its reset
  blocks,      \* blocks written by this attempt
  cOffset,     \* the computed archive offset
  kept,        \* newFiles: the entries that made it
  out, pos     \* the archive's image and its write position

source == <<path, clock>>
handle == <<inode, linked>>
reading == <<attempt, hadChange, statStart, startOffset, rpos, hashed, blocks>>
archive == <<out, pos>>
vars == <<path, clock, inode, linked, pc, why, cur, attempt, hadChange, statStart,
          startOffset, rpos, hashed, blocks, cOffset, kept, out, pos>>

-----------------------------------------------------------------------------
(* Source files.                                                           *)
Missing == [ver |-> -1, size |-> 0]
Versions == [ver : {0}, size : Sizes]
Unit(i, file, k) == <<i, file.ver, k>>
Content(i, file) == [k \in 1 .. file.size |-> Unit(i, file, k)]

(* The units of the open file from the read position on, at most n.        *)
Available(n) ==
  LET rest == inode.size - rpos IN IF rest <= 0 THEN 0 ELSE IF rest < n THEN rest ELSE n
Units(n) == [k \in 1 .. n |-> Unit(cur, inode, rpos + k)]

-----------------------------------------------------------------------------
(* Archive cells.  A checksum is the list of what it covers.               *)
Entry(i, size, ver, changed, off, bs) ==
  [id |-> i, size |-> size, mtime |-> ver, changed |-> changed, off |-> off, blocks |-> bs]
FixedCell(trailer, size, count) ==
  [kind |-> "fixed", trailer |-> trailer, size |-> size, count |-> count]
EntryCell(e) == [kind |-> "entry", id |-> e.id, size |-> e.size, mtime |-> e.mtime,
                 changed |-> e.changed]
SumCell(covered) == [kind |-> "sum", of |-> covered]
ZeroCell == [kind |-> "zero"]
DataCell(units, part, parts) ==
  [kind |-> "data", units |-> units, part |-> part, parts |-> parts]
IndexCell(e) == [kind |-> "index", blocks |-> e.blocks]

(* writeHeader and writeTrailer.                                           *)
Summed(cells) == Append(cells, SumCell(cells))
Header(es, trailer, size) ==
  Summed(<<FixedCell(trailer, size, Len(es))>> \o [i \in 1 .. Len(es) |-> EntryCell(es[i])])
Trailer(es) == Summed([i \in 1 .. Len(es) |-> IndexCell(es[i])])

HeaderLen == N + 2
SumLen == IF Checksums THEN 1 ELSE 0

Emit(cells) ==
  /\ out' = WriteAt(out, pos, cells)
  /\ pos' = pos + Len(cells)

-----------------------------------------------------------------------------
Init ==
  /\ path \in [Entries -> Versions]
  /\ clock = 0
  /\ inode = Missing /\ linked = FALSE
  /\ pc = "start" /\ why = ""
  /\ cur = 1
  /\ attempt = 0 /\ hadChange = FALSE
  /\ statStart = Missing /\ startOffset = 0
  /\ rpos = 0 /\ hashed = << >> /\ blocks = << >>
  /\ cOffset = 0
  /\ kept = << >>
  /\ out = << >> /\ pos = 0

Stop(reason) == pc' = "stopped" /\ why' = reason

(* The archive cannot be written: of the cells at hand, to be written at   *)
(* p, any number may be in the image when the run ends.  (What the buffer  *)
(* of the output file still held is lost then too: see BufferedFile.)      *)
Broken(reason, p, cells) ==
  /\ "output" \in Hazards
  /\ \E n \in 0 .. Len(cells) :
       /\ out' = WriteAt(out, p, SubSeq(cells, 1, n))
       /\ pos' = p + n
  /\ Stop(reason)
  /\ UNCHANGED <<source, handle, cur, reading, cOffset, kept>>

(* create: the archive exists, empty; the walk fails, or the space check   *)
(* refuses.                                                                *)
Refuse ==
  /\ pc = "start"
  /\ \/ "error" \in Hazards /\ Stop("walk")
     \/ Stop("space")
  /\ UNCHANGED <<source, handle, cur, reading, cOffset, kept, archive>>

(* create: the header with the sizes of the walk and no offsets.           *)
FirstHeader ==
  /\ pc = "start"
  /\ LET found == [i \in Entries |-> Entry(i, path[i].size, path[i].ver, FALSE, 0, << >>)]
     IN Emit(Header(found, 0, 0))
  /\ cOffset' = HeaderLen
  /\ pc' = "next"
  /\ UNCHANGED <<source, handle, why, cur, reading, kept>>

(* writeEntries: a symlink or other special file has no data.              *)
SpecialEntry ==
  /\ pc = "next"
  /\ cur \in Entries \ Regular
  /\ kept' = Append(kept, Entry(cur, 0, path[cur].ver, FALSE, 0, << >>))
  /\ cur' = cur + 1
  /\ UNCHANGED <<source, handle, pc, why, reading, cOffset, archive>>

RegularEntry ==
  /\ pc = "next"
  /\ cur \in Regular
  /\ attempt' = 0 /\ hadChange' = FALSE
  /\ pc' = "open"
  /\ UNCHANGED <<source, handle, why, cur, statStart, startOffset, rpos, hashed, blocks,
                 cOffset, kept, archive>>

(* Mutant of Open: no h.Reset(), so a retry hashes on.                     *)
OpenWithoutReset ==
  /\ pc = "open"
  /\ path[cur] # Missing
  /\ attempt' = attempt + 1
  /\ inode' = path[cur] /\ linked' = TRUE
  /\ statStart' = path[cur]
  /\ startOffset' = cOffset
  /\ Emit(IF Checksums THEN <<ZeroCell>> ELSE << >>)
  /\ cOffset' = cOffset + SumLen
  /\ rpos' = 0 /\ blocks' = << >>
  /\ UNCHANGED hashed
  /\ pc' = "read"
  /\ UNCHANGED <<source, why, cur, hadChange, kept>>

(* retryLoop: open and stat the file, reserve room for its checksum.       *)
Open ==
  /\ pc = "open"
  /\ path[cur] # Missing
  /\ attempt' = attempt + 1
  /\ inode' = path[cur] /\ linked' = TRUE
  /\ statStart' = path[cur]
  /\ startOffset' = cOffset
  /\ Emit(IF Checksums THEN <<ZeroCell>> ELSE << >>)
  /\ cOffset' = cOffset + SumLen
  /\ rpos' = 0 /\ blocks' = << >>
  /\ hashed' = IF Checksums THEN << >> ELSE hashed
  /\ pc' = "read"
  /\ UNCHANGED <<source, why, cur, hadChange, kept>>

(* retryLoop: the room for the checksum cannot be written.                 *)
ReserveFails ==
  /\ pc = "open"
  /\ path[cur] # Missing
  /\ Checksums
  /\ Broken("output", pos, <<ZeroCell>>)

(* retryLoop: the file is not there (any more) or cannot be opened.        *)
OpenFails ==
  /\ pc = "open"
  /\ path[cur] = Missing \/ "error" \in Hazards
  /\ attempt' = attempt + 1
  /\ IF DoForce THEN pc' = "next" /\ cur' = cur + 1 /\ UNCHANGED why
              ELSE Stop("open") /\ UNCHANGED cur
  /\ UNCHANGED <<source, handle, hadChange, statStart, startOffset, rpos, hashed, blocks,
                 cOffset, kept, archive>>

Hash(units) == hashed' = IF Checksums THEN hashed \o units ELSE hashed

(* Mutant of ReadBlock: the offset advances by what went into the          *)
(* compressor, not by what came out.                                       *)
ReadBlockCountingInput ==
  /\ pc = "read"
  /\ ~NoCompress
  /\ LET n == Available(BlockSize) IN
     /\ IF n = 0
        THEN UNCHANGED <<blocks, cOffset, archive>>
        ELSE \E len \in 1 .. MaxComp :
               /\ Emit([j \in 1 .. len |-> DataCell(Units(n), j, len)])
               /\ blocks' = Append(blocks, [off |-> cOffset, size |-> len])
               /\ cOffset' = cOffset + n
     /\ Hash(Units(n))
     /\ rpos' = rpos + n
     /\ pc' = IF n = BlockSize THEN "read" ELSE "stat"
  /\ UNCHANGED <<source, handle, why, cur, attempt, hadChange, statStart, startOffset, kept>>

(* Mutant of ReadBlock: only a short block ends the loop, io.EOF does not. *)
ReadBlockWithoutEOF ==
  /\ pc = "read"
  /\ ~NoCompress
  /\ LET n == Available(BlockSize) IN
     /\ IF n = 0
        THEN UNCHANGED <<blocks, cOffset, archive>>
        ELSE \E len \in 1 .. MaxComp :
               /\ Emit([j \in 1 .. len |-> DataCell(Units(n), j, len)])
               /\ blocks' = Append(blocks, [off |-> cOffset, size |-> len])
               /\ cOffset' = cOffset + len
     /\ Hash(Units(n))
     /\ rpos' = rpos + n
     /\ pc' = IF n \in {0, BlockSize} THEN "read" ELSE "stat"
  /\ UNCHANGED <<source, handle, why, cur, attempt, hadChange, statStart, startOffset, kept>>

(* The block loop: io.ReadFull of one block, compressed on its own.  A     *)
(* short block is the last one.                                            *)
ReadBlock ==
  /\ pc = "read"
  /\ ~NoCompress
  /\ LET n == Available(BlockSize) IN
     /\ IF n = 0
        THEN UNCHANGED <<blocks, cOffset, archive>>
        ELSE \E len \in 1 .. MaxComp :
               /\ Emit([j \in 1 .. len |-> DataCell(Units(n), j, len)])
               /\ blocks' = Append(blocks, [off |-> cOffset, size |-> len])
               /\ cOffset' = cOffset + len
     /\ Hash(Units(n))
     /\ rpos' = rpos + n
     /\ pc' = IF n = BlockSize THEN "read" ELSE "stat"
  /\ UNCHANGED <<source, handle, why, cur, attempt, hadChange, statStart, startOffset, kept>>

(* io.Copy of an uncompressed file, a unit at a time until its end; the    *)
(* block gets the size of the first Stat, not the count of the copy.       *)
CopyUnit ==
  /\ pc = "read"
  /\ NoCompress
  /\ Available(1) = 1
  /\ Emit(<<DataCell(Units(1), 1, 1)>>)
  /\ Hash(Units(1))
  /\ rpos' = rpos + 1
  /\ UNCHANGED <<source, handle, pc, why, cur, attempt, hadChange, statStart, startOffset,
                 blocks, cOffset, kept>>

CopyEnds ==
  /\ pc = "read"
  /\ NoCompress
  /\ Available(1) = 0
  /\ blocks' = <<[off |-> cOffset, size |-> statStart.size]>>
  /\ cOffset' = cOffset + statStart.size
  /\ pc' = "stat"
  /\ UNCHANGED <<source, handle, why, cur, attempt, hadChange, statStart, startOffset, rpos,
                 hashed, kept, archive>>

(* A read error is fatal, also with -f.                                    *)
ReadFails ==
  /\ pc = "read"
  /\ "error" \in Hazards
  /\ Stop("read")
  /\ UNCHANGED <<source, handle, cur, reading, cOffset, kept, archive>>

(* So is a write error of the copy, or of the compressor and its Close.    *)
CopyFails ==
  /\ pc = "read"
  /\ NoCompress
  /\ Available(1) = 1
  /\ Broken("output", pos, <<DataCell(Units(1), 1, 1)>>)

BlockFails ==
  /\ pc = "read"
  /\ ~NoCompress
  /\ Available(BlockSize) > 0
  /\ \E len \in 1 .. MaxComp :
       Broken("output", pos,
              [j \in 1 .. len |-> DataCell(Units(Available(BlockSize)), j, len)])

(* os.Stat(SrcPath) fails: the guard of the comparison skips it, and the   *)
(* next line dereferences the missing FileInfo.                            *)
EndStatPanics ==
  /\ pc = "stat"
  /\ path[cur] = Missing
  /\ Stop("panic")
  /\ UNCHANGED <<source, handle, cur, reading, cOffset, kept, archive>>

(* Mutant of Changed: only the sizes are compared.                         *)
ChangedInSize == path[cur] # Missing /\ path[cur].size # statStart.size

(* The second Stat differs from the first.                                 *)
Changed == path[cur] # Missing /\ path[cur] # statStart

(* Mutant of MayRetry: one attempt too many.                               *)
MayRetryOnceMore == FileRetries = 0 \/ attempt <= FileRetries

MayRetry == FileRetries = 0 \/ attempt < FileRetries

(* Mutant of Rewind: the computed offset stays.                            *)
RewindFileOnly == pos' = startOffset /\ UNCHANGED <<cOffset, out>>

(* bf.Seek(startOffset) and cOffset = startOffset: no truncation.          *)
Rewind == pos' = startOffset /\ cOffset' = startOffset /\ UNCHANGED out

(* The file changed: read it again, over what this attempt wrote.          *)
Retry ==
  /\ pc = "stat"
  /\ Changed
  /\ MayRetry
  /\ hadChange' = TRUE
  /\ Rewind
  /\ pc' = "open"
  /\ UNCHANGED <<source, handle, why, cur, attempt, statStart, startOffset, rpos, hashed,
                 blocks, kept>>

(* The file keeps changing: give it up, or the whole run.                  *)
GiveUp ==
  /\ pc = "stat"
  /\ Changed
  /\ ~MayRetry
  /\ hadChange' = TRUE
  /\ IF FailOnChange
     THEN Stop("changed") /\ UNCHANGED <<cur, cOffset, archive>>
     ELSE pc' = "next" /\ cur' = cur + 1 /\ Rewind /\ UNCHANGED why
  /\ UNCHANGED <<source, handle, attempt, statStart, startOffset, rpos, hashed, blocks, kept>>

(* The seek back fails, with what it flushes first.                        *)
RewindFails ==
  /\ pc = "stat"
  /\ Changed
  /\ MayRetry \/ ~FailOnChange
  /\ Broken("output", pos, << >>)

(* The seek to the checksum's room, its write or the seek back to the end  *)
(* fails.                                                                  *)
SumFails ==
  /\ pc = "stat"
  /\ path[cur] # Missing /\ ~Changed
  /\ Checksums
  /\ Broken("output", startOffset, <<SumCell(hashed)>>)

(* The file did not change: its checksum goes where room was left, and the *)
(* entry is kept.                                                          *)
Keep ==
  /\ pc = "stat"
  /\ path[cur] # Missing /\ ~Changed
  /\ IF Checksums
     THEN /\ out' = WriteAt(out, startOffset, <<SumCell(hashed)>>)
          /\ pos' = cOffset
     ELSE UNCHANGED archive
  /\ kept' = Append(kept, Entry(cur, path[cur].size, path[cur].ver, hadChange,
                                startOffset, blocks))
  /\ cur' = cur + 1
  /\ pc' = "next"
  /\ UNCHANGED <<source, handle, why, reading, cOffset>>

(* create: the trailer, where the archive's position happens to be.        *)
WriteTrailer ==
  /\ pc = "next"
  /\ cur = N + 1
  /\ Emit(Trailer(kept))
  /\ pc' = "header"
  /\ UNCHANGED <<source, handle, why, cur, reading, cOffset, kept>>

(* The flush behind the trailer fails, or the Stat that asks the size.     *)
TrailerFails ==
  /\ pc = "next"
  /\ cur = N + 1
  /\ Broken("output", pos, Trailer(kept))

(* Mutant of FinalHeader: the size of the archive without its trailer.     *)
FinalHeaderOldSize == Header(kept, cOffset, cOffset)

(* The header once the offset of the trailer and the size are known.       *)
FinalHeader == Header(kept, cOffset, Len(out))

HeaderMismatch ==
  /\ pc = "header"
  /\ Len(FinalHeader) # HeaderLen
  /\ Stop("header size mismatch")
  /\ UNCHANGED <<source, handle, cur, reading, cOffset, kept, archive>>

(* Mutant of FinalHeaderBegins: without the check of the header's length.  *)
FinalHeaderUnchecked ==
  /\ pc = "header"
  /\ \E n \in 1 .. Len(FinalHeader) - 1 :
       /\ out' = WriteAt(out, 0, SubSeq(FinalHeader, 1, n))
       /\ pos' = n
  /\ pc' = "close"
  /\ UNCHANGED <<source, handle, why, cur, reading, cOffset, kept>>

(* The final header over the first one, in order: a crash may leave any    *)
(* beginning of it.                                                        *)
FinalHeaderBegins ==
  /\ pc = "header"
  /\ Len(FinalHeader) = HeaderLen
  /\ \E n \in 1 .. Len(FinalHeader) - 1 :
       /\ out' = WriteAt(out, 0, SubSeq(FinalHeader, 1, n))
       /\ pos' = n
  /\ pc' = "close"
  /\ UNCHANGED <<source, handle, why, cur, reading, cOffset, kept>>

(* The seek to the start fails; or Close does, before anything of the      *)
(* final header has left the buffer.                                       *)
HeaderFails ==
  /\ pc = "header"
  /\ Len(FinalHeader) = HeaderLen
  /\ \E reason \in {"output", "close"} : Broken(reason, pos, << >>)

(* The rest of the final header, when Close flushes, syncs and closes.     *)
HeaderRest == SubSeq(FinalHeader, pos + 1, Len(FinalHeader))

(* One of the three fails: with all of the header written the archive is   *)
(* complete, though the run ends in log.Fatalf.                            *)
CloseFails ==
  /\ pc = "close"
  /\ Broken("close", pos, HeaderRest)

Close ==
  /\ pc = "close"
  /\ Emit(HeaderRest)
  /\ pc' = "done"
  /\ UNCHANGED <<source, handle, why, cur, reading, cOffset, kept>>

-----------------------------------------------------------------------------
(* The other programs on the machine.  A change of a file that is already  *)
(* archived is of no consequence and left out.                             *)
Running == pc \notin {"start", "done", "stopped"}

Tick ==
  /\ Running
  /\ clock < MaxChanges
  /\ clock' = clock + 1

Afresh(size) == [ver |-> clock + 1, size |-> size]

WriteSource(i, size) ==
  /\ "write" \in Hazards
  /\ Tick
  /\ path[i] # Missing
  /\ path' = [path EXCEPT ![i] = Afresh(size)]
  /\ inode' = IF i = cur /\ linked THEN Afresh(size) ELSE inode
  /\ UNCHANGED linked

ReplaceSource(i, size) ==
  /\ "replace" \in Hazards
  /\ Tick
  /\ path' = [path EXCEPT ![i] = Afresh(size)]
  /\ linked' = (linked /\ i # cur)
  /\ UNCHANGED inode

RemoveSource(i) ==
  /\ "remove" \in Hazards
  /\ Tick
  /\ path' = [path EXCEPT ![i] = Missing]
  /\ linked' = (linked /\ i # cur)
  /\ UNCHANGED inode

Environment ==
  /\ \E i \in Regular : i >= cur /\
       \/ \E size \in Sizes : WriteSource(i, size) \/ ReplaceSource(i, size)
       \/ RemoveSource(i)
  /\ UNCHANGED <<pc, why, cur, reading, cOffset, kept, archive>>

Progress ==
  \/ FirstHeader \/ SpecialEntry \/ RegularEntry
  \/ Open \/ OpenFails \/ ReadBlock \/ CopyUnit \/ CopyEnds
  \/ EndStatPanics \/ Retry \/ GiveUp \/ Keep
  \/ WriteTrailer \/ HeaderMismatch \/ FinalHeaderBegins \/ Close

OutputFails ==
  \/ ReserveFails \/ CopyFails \/ BlockFails \/ RewindFails \/ SumFails
  \/ TrailerFails \/ HeaderFails \/ CloseFails

Program == Progress \/ Refuse \/ ReadFails \/ OutputFails

Ended == pc \in {"done", "stopped"} /\ UNCHANGED vars

Next == Program \/ Environment \/ Ended

Spec == Init /\ [][Next]_vars

(* The program keeps running; that the walk, a read or a write fails, or   *)
(* that the sources change, is nothing it can count on.                    *)
FairSpec == Spec /\ WF_vars(Progress)

-----------------------------------------------------------------------------
(* What a reader makes of an image (extract.go), to say what create owes.  *)

(* The k-th block of a file's data.                                        *)
Part(units, k) ==
  SubSeq(units, (k - 1) * BlockSize + 1,
         IF k * BlockSize < Len(units) THEN k * BlockSize ELSE Len(units))

(* The block holds these units, compressed or as they are.                 *)
BlockHolds(img, b, units) ==
  /\ b.off + b.size <= Len(img)
  /\ IF NoCompress
     THEN /\ b.size = Len(units)
          /\ \A k \in 1 .. b.size : img[b.off + k] = DataCell(<<units[k]>>, 1, 1)
     ELSE /\ b.size >= 1
          /\ \A k \in 1 .. b.size : img[b.off + k] = DataCell(units, k, b.size)

BlocksHold(img, bs, units) ==
  IF NoCompress
  THEN Len(bs) = 1 /\ BlockHolds(img, bs[1], units)
  ELSE /\ Len(units) <= Len(bs) * BlockSize
       /\ (Len(bs) - 1) * BlockSize < Len(units)
       /\ \A k \in 1 .. Len(bs) : BlockHolds(img, bs[k], Part(units, k))

(* extractFile: the blocks decode to the version of the source the entry   *)
(* names, and the checksum in front of the first one agrees.               *)
Recorded(e) == Content(e.id, [ver |-> e.mtime, size |-> e.size])
Intact(img, e) ==
  /\ BlocksHold(img, e.blocks, Recorded(e))
  /\ Checksums /\ e.blocks # << >> =>
       img[e.blocks[1].off] = SumCell(Recorded(e))

(* extract: the recorded size is the file's, and the checksums of header   *)
(* and trailer cover what is there.                                        *)
HasSum(img, from, n) ==
  /\ from + n < Len(img)
  /\ img[from + n + 1] = SumCell(SubSeq(img, from + 1, from + n))
Accepted(img) ==
  /\ img # << >>
  /\ img[1].kind = "fixed"
  /\ img[1].size = Len(img)
  /\ HasSum(img, 0, img[1].count + 1)
  /\ HasSum(img, img[1].trailer, img[1].count)

(* The index of an accepted image: header entries with the trailer's       *)
(* blocks.                                                                 *)
Listed(img) ==
  {[id |-> img[j + 1].id, size |-> img[j + 1].size, mtime |-> img[j + 1].mtime,
    blocks |-> img[img[1].trailer + j].blocks] : j \in 1 .. img[1].count}

KeptEntries == {kept[j] : j \in 1 .. Len(kept)}

(* The data of file i that these entries lead to.                          *)
DataOf(img, es, i) ==
  IF \E e \in es : e.id = i /\ Intact(img, e)
  THEN Recorded(CHOOSE e \in es : e.id = i /\ Intact(img, e))
  ELSE Nothing
Data(img, es) ==
  [i \in Entries |-> IF i \in Regular THEN DataOf(img, es, i) ELSE Nothing]

-----------------------------------------------------------------------------
SourceFiles == [ver : 0 .. MaxChanges, size : Sizes] \cup {Missing}
BlockType == [off : Nat, size : Nat]

(* Every variable has its type, and the bookkeeping is within the archive. *)
TypeOK ==
  /\ path \in [Entries -> SourceFiles]
  /\ clock \in 0 .. MaxChanges
  /\ inode \in SourceFiles /\ linked \in BOOLEAN
  /\ pc \in {"start", "next", "open", "read", "stat", "header", "close", "done", "stopped"}
  /\ why \in {"", "walk", "space", "open", "read", "panic", "changed",
              "header size mismatch", "output", "close"}
  /\ cur \in 1 .. N + 1
  /\ attempt \in Nat /\ hadChange \in BOOLEAN
  /\ statStart \in SourceFiles /\ startOffset \in Nat
  /\ rpos \in Nat
  /\ hashed \in Seq(Entries \X (-1 .. MaxChanges) \X Nat)
  /\ blocks \in Seq(BlockType)
  /\ cOffset \in Nat
  /\ kept \in Seq([id : Entries, size : Nat, mtime : -1 .. MaxChanges, changed : BOOLEAN,
                   off : Nat, blocks : Seq(BlockType)])
  /\ pos \in 0 .. Len(out)

(* The computed offset is where the archive really is being written: the   *)
(* count of cells (countingWriter, the checksum, the size of the Stat)     *)
(* never drifts from the file position, through retries, seeks back and    *)
(* skips.  Every offset in the trailer is computed, never asked of the     *)
(* file.  While an uncompressed file is copied the two differ, by what has *)
(* been copied.                                                            *)
PositionAgrees ==
  /\ pc \in {"next", "open"} => pos = cOffset
  /\ pc = "read" => pos = cOffset + IF NoCompress THEN rpos ELSE 0
  /\ pc = "stat" /\ path[cur] = statStart => pos = cOffset

(* Every file in newFiles is in the archive as one whole version of its    *)
(* source, the version whose size and time are recorded, from the moment   *)
(* it is kept to the end of the run: no attempt, retry, checksum written   *)
(* back, trailer or header ever overwrites it or leaves it torn.           *)
KeptIntact ==
  \A j \in 1 .. Len(kept) : kept[j].id \in Regular => Intact(out, kept[j])

(* A run that ends well leaves a file that extract reads.  A run that is   *)
(* cut short anywhere before its Close, or gives up, leaves one that it    *)
(* refuses: half written, with only its first header, or with the final    *)
(* header over a part of the first one.  Only a Close that fails may leave *)
(* a complete archive behind a run that ended in log.Fatalf, since it      *)
(* flushes before it syncs and closes.                                     *)
AcceptedOnlyAtTheEnd ==
  /\ pc = "done" => Accepted(out)
  /\ Accepted(out) => pc = "done" \/ (pc = "stopped" /\ why = "close")

(* The run archives whole versions in order and publishes them in one      *)
(* step (SnapshotArchive).                                                 *)
Snapshot == INSTANCE SnapshotArchive WITH
              taken <- Data(out, KeptEntries),
              archive <- IF Accepted(out) THEN Data(out, Listed(out)) ELSE Nothing
TakesSnapshots == Snapshot!Spec

(* With -retries above 0 no file is read more often than that: a file that *)
(* never rests does not hold up the run for ever.                          *)
AttemptsBounded == FileRetries > 0 => attempt <= FileRetries

(* The run ends, with an archive or without, once the sources stop         *)
(* changing; also with -retries 0, which sets no limit.                    *)
Terminates == <>(pc \in {"done", "stopped"})

-----------------------------------------------------------------------------
(* What the documentation says and the code does not do.                   *)

(* "f  force overwrite / ignore read errors" (main.go:89): with -f no file *)
(* that cannot be opened or read ends the run.                             *)
ForceIgnoresReadErrors ==
  DoForce /\ pc = "stopped" => why \notin {"open", "read", "header size mismatch"}

(* "-failonchange  treat changed files as fatal errors" (README.md:113):   *)
(* without it a file that keeps changing is skipped, as create.go:529 says *)
(* while it does so, and the run goes on.                                  *)
ChangedFilesAreSkipped ==
  ~FailOnChange /\ hadChange /\ pc = "stopped" => why # "header size mismatch"
=============================================================================
