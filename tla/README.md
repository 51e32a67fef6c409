# Verification of goXA

goXA is an archiver written in Go. `goxa c` walks the paths it is given and
writes one archive file; `goxa x` reads the archive's index and restores the
files with a pool of goroutines. This directory holds TLA+ models of that code,
the TLC configurations that check them, and theorems about them proved with
TLAPS. File and line numbers refer to `src/`.

## 1. Inventory

| Component | Code | State it keeps | Operations | Interacts with |
|---|---|---|---|---|
| Command line | `main.go`, `config.go` | mode, feature flags, options, all package variables | `parseCommand`, `initFlags`, `applyModeOptions`, `configureCompression`, `detectArchiveFormat`, `runMode` | calls create, extract, createTar, extractTar once |
| Tree walk and paths | `util.go` 254-441 | the table of directories, the entries found | `walkPaths`, `storedPath`, `safeJoin`, `isSelected`, `gatherMeta` | file system; result goes to create; `safeJoin`, `isSelected` serve extract |
| Archive writer | `create.go` | computed offset `cOffset`, entries kept, position of the output | `create`, `writeEntries`, `writeHeader`, `writeTrailer` | reads source files while others change them; writes through BufferedFile |
| Output file | `bufferWrite.go` | buffer and sticky error of a `bufio.Writer`, offset of the file | `Write`, `Flush`, `Sync`, `Seek`, `Close` | device; used by create and by every worker of extract |
| Extractor | `extract.go` | index read, slots of the pool, `skippedFiles`, `checksumCount` | `extract`, `extractFile`, `isZipBomb` | workers share destination, counters and the fate of the process |
| Archive reader | `binReader.go` | read-ahead buffer and offset | `Read`, `Seek`, `ReadLPString` | extract, for the index only |
| Output stage | `create.go` 116-147, 226-298, `util.go` 105-154 | temporary file, encoded file | encoding, decoding, stdout | before and after the archive writer |
| FEC | `fec.go` | shards | `encodeWithFEC`, `decodeWithFEC` | output stage |
| Tar | `tar.go` | none between calls | `createTar`, `extractTar` | `archive/tar` library |
| Format detection | `util.go` 36-101, 157-229 | flags it sets on the way | by extension, by first bytes | command line |
| Progress display | `progress*.go` | counters, ticker goroutine, two channels | `progressTicker` | all of the above report to it |
| Small parts | `checksum.go`, `countWriter.go`, `bitFlag.go`, `disk_space_*.go`, `pgo.go` | | | |

What makes the code hard, and what makes each component correct:

* **Archive writer.** The sources change while they are read. A file is read,
  checked by a second `Stat`, and read again over what the first attempt wrote;
  its checksum is written back into a gap left for it; offsets are computed and
  never asked of the file; the header is overwritten in place at the very end.
  Correct means: whatever is kept is one whole version of its source, computed
  offsets are true, a finished run leaves a file that a reader accepts, and a
  run that is cut short or cannot write its output leaves one that it refuses,
  unless all that failed is the last close.
* **Output file.** Results of writes are ignored by the caller for the header
  and the trailer, so errors must stick; seeks mix with buffered and direct
  writes. Correct means: it behaves as a plain file with a position, and a close
  that succeeds has everything on the device.
* **Extractor.** Goroutines share counters, a destination and one `log.Fatal`.
  Correct means: the pool neither leaks nor exceeds its slots, nobody is missed,
  a file that is done is whole and stays so, and the message about checksums is
  true.
* **Command, output stage, decoding.** What is run follows from a chain of
  package variables that the extension, the first bytes, the mode letters and
  the options set in turn. A second pass encodes the archive from a temporary
  file, errors end the process without the deferred removals, some errors are
  dropped, and every long step starts a goroutine that has to be stopped on
  every way out. Correct means: status 0 says that the archive is there and
  whole, what was created can be read back, what is not all there is noticed
  by the next run, nothing is left behind, and no run waits for ever.
* **FEC.** Counts and sizes are narrowed to the widths of a header. Correct
  means: what is encoded decodes to the same bytes, if it decodes and its data
  shards are as they were.
* **Tar.** A second walk and a second way to restore, entry by entry, without
  checks of its own. Correct means: an archive it calls complete misses
  nothing, can be extracted, and is then restored in full.
* **Tree walk.** The tree changes under the walk, roots may overlap, and a
  table is keyed by stored path. Correct means: nothing asked for is missed,
  empty directories and only these are listed, and each entry has a place of its
  own to be restored to.

`PROJECT.json` lists every component with what is left out of it, and under
`hazards` every spot of the code that is hard to test, with the properties that
would catch it, or with a note where a property makes an exception of it.

## 2. The modules

| Module | What it is |
|---|---|
| `FileImage` | The contents of a file as a sequence of cells and the effect of one write at an offset. |
| `PositionedFile` | Abstract: the file with a position that the callers of BufferedFile assume. |
| `BufferedFile` | `bufferWrite.go`: one action per method and outcome. |
| `SnapshotArchive` | Abstract: what `create` promises. Files are taken whole, one by one, and the archive appears in one step. |
| `ArchiveWriter` | `create` from the walk's result to the close, `writeEntries` step by step. |
| `RestoredTree` | Abstract: what `extract` promises about the tree it restores into. |
| `Extractor` | `extract` from the index to the closing message, `extractFile` for each worker. |
| `WalkTree` | `walkPaths` and the path functions. |
| `TarArchive` | `createTar` and `extractTar`, entry by entry, on the tree and the paths of `WalkTree`. |
| `ArchiveName` | What the name of an archive says, and what is added to it or taken off. |
| `FecFile` | The file that `encodeWithFEC` writes and `decodeWithFEC` reads, as functions of size and shard counts. |
| `Command` | The program from `main` to its exit, several times in one directory: detection, options, output stage, encodings, FEC, tar as a whole, ticker. |
| `MC...` | The instances that TLC checks; the `.cfg` files give the constants. |
| `FileImageTheorems`, `BufferedFileProofs` | Lemmas about `WriteAt`; theorems about `BufferedFile`. |
| `ArchiveWriterProofs` | Theorems about `ArchiveWriter`: what is kept is intact, what a reader sees of it, and the refinement of `SnapshotArchive`. |
| `ExtractorProofs` | Theorems about `Extractor`, and the refinement of `RestoredTree`. |
| `CommandProofs` | Theorems about the functions of `FecFile`, about `Command`, and about its runs that read: what is readable is read. |
| `PathTheorems` | Lemmas about `Clean`, prefixes and the sequences they are made of. |
| `WalkTreeProofs` | Theorems about `WalkTree`: paths and stored names, what the walk finds, and where `safeJoin` puts it. |
| `TarArchiveProofs` | Theorems about `TarArchive`: what `createTar` stores and `extractTar` puts back. |

The modules fit together along their data. `WalkTree` delivers the entries that
`ArchiveWriter` takes as `1 .. N`; it shows they have distinct paths, which
`Extractor` needs for its workers not to meet in one file. `BufferedFile`
implements `PositionedFile`, and that is why `ArchiveWriter` and `Extractor` may
write their files with `WriteAt` at a position. `ArchiveWriter` states with
`Accepted`, `Listed` and `Intact` what the reading half of `extract` makes of an
image, so that what is written is judged by what the reader does with it.
`Command` goes around all of them: where it says `Entries` and `Close`,
`ArchiveWriter` runs, where it says `Restore`, `Extractor` runs, and where it
says `tar walk` and `untar`, `TarArchive`. What it keeps of a file is what the
others show to matter from outside: format, compression, encoding, and whether
it is all there.

### BufferedFile

A cell is one unit of the file. `Handed` is the rule of Go's `bufio.Writer`:
fill the buffer and write it, and pass large writes on directly. `Write`,
`WriteFails` and `WriteRefused` are the outcomes of one call; a failing write
hands over any part of what it should. `Close` and `CloseFails` differ in what
they return. `noFlush` is a variable that never changes, so that one run covers
both settings.

### ArchiveWriter

`pc` is the place in the code. `"start"` is `create` after the output file has
been made; `"next"` is the head of the loop over the entries, `"open"` the head
of `retryLoop`, `"read"` the block loop or the copy, `"stat"` the second `Stat`;
`"header"` and `"close"` are the end of `create`. Every exit (`log.Fatalf`,
`return err`, and the dereference of the missing `statEnd` at create.go:537) is
`Stop(reason)`.

The output may fail at every place where the code asks (`"output"` in
`Hazards`): `ReserveFails`, `CopyFails`, `BlockFails`, `RewindFails`, `SumFails`,
`TrailerFails`, `HeaderFails` and `CloseFails` (`OutputFails`) leave any
beginning of the cells at hand in the image (`Broken`) and end the run.
`BufferedFile.Close` flushes before it syncs and closes, so after `CloseFails`
the image may be complete although the run ended in `log.Fatalf`
(create.go:219-221); its reason is `"close"`, and `AcceptedOnlyAtTheEnd` names it
as the one exception. Results that the code drops (create.go:194, 198, 216) need
no action of their own: the error sticks in the buffer (`NothingAfterError`) and
the next flush, seek or close reports it.

A source file is a version and a size. A change gives it a new version, so that
version stands for contents and modification time: *two different contents of a
file never have the same size and modification time* is the assumption of
`Changed` here, as it is in the code. `inode` is the file that is open, which a
replacement of the path leaves alone (`linked`) and a write in place does not.
`os.Open` and `f.Stat` are one step: what happens between them is as if it
happened after both, or before the first read.

An archive cell names what it stands for: a checksum is the list of what it
covers, a data cell the units it was compressed from and its part of the block.
That is how a stale or torn block is told apart from a good one. A compressed
block has 1 to `MaxComp` cells whatever its input, so it may be longer or
shorter than what it replaces at a retry. Lists of empty directories in the
header are left out (nothing about them changes after the walk).

`FinalHeaderBegins` and `Close` write the final header in two parts with any
boundary: the image in between is what a crash leaves. A crash is a crash of
the program; the image is what it has written in order. What a power failure
does to unsynced data is not modelled, except that `BufferedFile` proves the
final sync.

### Extractor

One worker per selected entry; `work` and `at` are its place in `extractFile`.
A file of the archive is a sequence of cells `<<entry, block>>`, so files that
share a path, old contents and wrong order show. What may be wrong with the
archive (`damage`, `bomb`, an illegal path) belongs to the entry, what may fail
around it is in `Hazards`. An uncompressed archive is restored by the loop
itself (extract.go:593-600), which is a pool of one. Every `log.Fatalf` ends
all workers where they are (`pc = "dead"`). The fallback for entries without
blocks (extract.go:777-797, 824-844) is never reached: the offset comes from
the first block, and offset 0 returns before.

`Crash` is a kill at any moment; `ExtractAgain` runs the same archive over what
is there, with the same or other flags, and `before` is then what that run
finds. `RestoresTree` is the refinement of `RestoredTree`: steps touch only the
place of a wanted entry, an entry becomes restored only when its place holds its
contents, and is not touched again until extraction begins anew.

A link extracted with `-f` first removes what is at its path (extract.go:636),
also when another worker is writing there: that worker then goes on writing to a
file without a name. `Removed` says when this may be, and `CopyBlock` has a
disjunct for it.

Workers write to the destination cell by cell, although the program buffers:
`BufferedFile` justifies it for a file that one worker writes. For two workers
on one path it shows fewer interleavings than there are; no property speaks of
such files.

### WalkTree

Paths are sequences of components, and `Clean` does what `filepath.Clean` does
with `..`. `todo` is the stack of `filepath.WalkDir`. A node that vanishes
between the reading of its directory and its `Lstat` makes the walk fail, as it
does in the code. `files` is a bag: the final sort gives the entries an order no
property depends on. `steady` and `ever` are history variables, the nodes that
were there all along and those that were there at some time.

`Name` is the set of names a file may have, any set without `..`; `Cwd` and
`Tree` are made of such names, a root on the command line may have `..` in it
too. `Entered` is the assignment `states[stored] = &dirState{}`, which begins
to count from 0 again when the key is known already: `DirectoriesKept` and
`OnlyEmptyListed` are therefore about roots with names of their own (`Apart`).

### TarArchive

`TarNext` runs `WalkTree!Next` for the format goxa and the tar writer and reader
for the other, under the same changes of the tree. `names` is the stack of
`filepath.Walk`. A header and its data are one entry, so a file that changes its
size while it is copied is `TarStoreShrunk` (its entry is short, `lacking`, and
the next header fails) or `TarStoreGrown` (`io.Copy` fails). `tw.Close` is
deferred and its error is dropped: if the last file shrank, `createTar` returns
nil. `extractTar` starts in an empty destination; of a mode only whether it lets
the owner write is kept, and a created thing that does not is `locked`. It runs
as a user whom modes bind. That the root of the file system is a directory
(`RootAssumption`) is what makes room for an archive of `/` with absolute names.

### Command

`pc` is the place in the program, `"shell"` between two runs. `cmd` is the
command line, `opt` the package variables that depend on it, in the order of
`main`: `DetectByName`, decoding and `DetectByHeader` when the archive is read,
`Configure`, `Run`. A file is a record (`FileType`). `"part"` is a beginning of
an archive, `"short"` a tar archive whose format is complete but whose entries
are not, `"damaged"` what is decoded from bad data shards. `holds` is what a tar
archive holds: nothing, the root's own entry, or more. `by` names the run that
made it.

`Seen` is what the first bytes give away. A tar archive without entries, which
`.` as the only root makes without `i`, has no header block and so no `ustar`
(util.go:156-163): it is read only as what its name says. The magic of a file
with error correction begins with that of goxa, so under another name it is
taken for a goxa archive, which `extract` then refuses. `Untar` reads the file
as it is. It succeeds with what it can unpack (`Unpacks`); into `.`, or without
a destination, that is only an archive with no entry but the root's
(`Barred`). A beginning of an archive that is read without compression may end
where an entry ends, and a file of no bytes always does, so that nothing is
noticed. Every other error of `extractTar` is fatal (main.go:436-438): `Aborts`.

`temp` is the temporary file of the run, `out` what went to stdout. `tickers`
are the goroutines of `progressTicker`: `"runs"`, `"told"` (its channel `done` is
closed), `"ended"` (it has closed `finished`); `Tell` and `Waited` are
`close(done)` and `<-finished`. A process that exits takes them along, and
`log.Fatal` skips the deferred removal of the temporary file. `Troubles` are the
failures of single steps; those whose error the code drops set `trouble` to
`"dropped"`. Between two runs the user renames an archive or a shard goes bad.

Names are sequences of what stands between the dots (`ArchiveName`), so that
suffixes are compared as the code compares them. Upper and lower case, and a
name that begins with a dot, make no difference to the code and are left out.

### FecFile

Functions of the size and the two counts: `Header` with its `% 2^8` and
`% 2^32`, the offsets at which the shards are written, and what
`decodeWithFEC` joins. `Joins` says when it succeeds, `Decodes` when the result
is the archive. `NewStream`, `PerShard` and what `Verify` and `Join` ask for are
those of the library as the code relies on them.

## 3. What the runs check

| Run | Instance | Properties | What it shows |
|---|---|---|---|
| `MCBufferedFile` | buffer of 2, writes of up to 3 cells of two kinds, files of up to 4 | `TypeOK`, `CloseMeansSaved`, `ImplementsFile`, `NothingAfterError` | refinement of `PositionedFile`; direct writes past the buffer, partial writes and every order of calls occur |
| `MCArchiveWriter` | 2 files, sizes 1 and 3, blocks of 2, compressed to 1 or 2 cells, 2 attempts, 2 changes, an output that fails | `TypeOK`, `KeptIntact`, `AcceptedOnlyAtTheEnd`, `AttemptsBounded` | retries that grow and shrink a file, replaced and rewritten, with checksums; files given up; what a reader makes of the image after each failure of the output |
| `MCArchiveWriterPlain` | 3 entries, the second special, no compression, `-f`, every hazard | `PositionAgrees`, `TakesSnapshots` | offsets under copies, skips and retries; refinement of `SnapshotArchive` |
| `MCArchiveWriterLive` | sizes 0 and 3, no checksums, no limit of retries, every hazard | `KeptIntact`, `Terminates` | empty files, and that the run ends once the sources rest |
| `MCExtractor` | 3 entries, pool of 2, 15 archives, 4 flag sets, empty or occupied destination, every hazard, killed and run twice | `TypeOK`, `PoolBounded`, `DoneMeansSettled`, `RestoredIntact`, `VerifiedIsHonest`, `RestoresTree`, `Terminates` | the pool with one entry more than slots; every way out of `extractFile`; extraction over what a killed one left; refinement of `RestoredTree` |
| `MCWalkTree` | 12 command lines, 8 flag sets, 3 trees of 11 to 15 nodes, 1 change, both formats, 4 ways to keep and restore modes | `TypeOK`, `NothingMissed`, `DirectoriesKept`, `OnlyEmptyListed`, `OwnPlace`, `RootSelectable`, `NothingMissedTar`, `RestoresAll`, `Extractable` | overlapping, repeated, hidden, absolute and `..` roots; tar archives from walk to extraction |
| `MCCommand` | 25 command lines that create, 31 that follow and 5 after that, 12 names with 11 endings, 3 runs, 1 failure, 1 move | `TypeOK`, `SuccessMeansWritten`, `FecDecodes`, `ReadsWhatIsThere`, `PartIsNoticed`, `NoTempLeft`, `OneDrawer`, `KeepsArchives`, `Terminates` | every mode, extension, encoding and destination of the output, each created, perhaps renamed, and read; every failing step; a crash anywhere |

Two entries are enough in `MCArchiveWriter` for one to be kept before and one
after a retry; a third, special one is between them in `MCArchiveWriterPlain`.
Sizes 1 and 3 with blocks of 2 give a file of one short block and one of a full
and a short block; a size that is a multiple of the block (the read that ends
with `io.EOF`) is 0 in `MCArchiveWriterLive`, and `KeptIntact` is proved for all
sizes. Two changes allow a file to change in both attempts and thus to be given
up. In `MCExtractor` the third entry has to wait for a slot; two runs are enough
for one over what the other left, since a run keeps nothing but the destination.
In `MCCommand` three runs are a creation, another one over it (or a reading) and
a reading. One failure per sequence is enough because every property relates a
failure to what the next run makes of it.

The range of a shard's size is 4 in `MCCommand` where the code has 2^32
(`SizeRange`), and archives have sizes 3, 8 and 9 with two data shards, which lie
below, at and above it; the range of the counts is 256, as in the code, with 256
data shards among the commands, alone and with a parity shard, at and above the
limit of the library.

Bounds that are not in the code: `MaxWrite`, `MaxSize` (BufferedFile),
`MaxComp`, `Sizes`, `MaxChanges` (ArchiveWriter), `MaxChanges` (WalkTree),
`MaxRuns` (Extractor), `MaxRuns`, `MaxFaults`, `MaxMoves` (Command). They limit
the environment and the size of the data, never a decision of the program. Of
the shards of a file one data shard and one parity shard stand for all
(`GoBad`).

Deadlock is checked everywhere but in `MCBufferedFile`, whose file is really at
an end when it is closed; the other modules have an explicit `Ended` step.

**Fairness.** `ArchiveWriter!FairSpec` is weak fairness of the program's own
steps: one goroutine, which keeps running. It does not count on a read failing
or on the sources changing, and the environment has no fairness. That the run
ends without a limit of retries rests on `MaxChanges`: once the sources rest,
the next attempt succeeds. `Extractor!FairSpec` is weak fairness of the loop and
of each worker, which is what the Go scheduler gives runnable goroutines;
refusals and failures are not in it. `Command!FairSpec` is weak fairness of the
program's next step and of its ticker goroutines; nobody has to start the
program and no step has to fail. Its `Terminates` says that each run ends,
`Extractor`'s that extraction ends again and again, however often it is begun.

### Where the code and its documents differ

Five runs are expected to end in a violation. Each checks one sentence of a
document; the run's counterexample is the behaviour of the code.

| Run | The document | The code |
|---|---|---|
| `MCArchiveWriterForce` | "f  force overwrite / ignore read errors" (main.go:89, README.md:92) | a read error is fatal with `-f` too; an open error is passed over, and the run then ends at create.go:210 because the final header is shorter |
| `MCArchiveWriterSkip` | "-failonchange: treat changed files as fatal errors" (README.md:113), "(skipping)" (create.go:529) | a skipped file ends the run with "header size mismatch" without the option too |
| `MCExtractorOverwrite` | "Existing files are never overwritten unless the `f` flag is given" (README.md:39, PURPOSE.md:10) | they are opened without `O_EXCL` and written over in place (extract.go:712) |
| `MCExtractorEmpty` | "without fear of ... losing files" (PURPOSE.md:3); the file count of test-goxa.sh:47-52 | an empty file of a compressed archive has no block and is never created (extract.go:643) |
| `MCCommandShards` | "any missing shards up to the parity count can be reconstructed when extracting" (README.md:128), "recovery from missing or corrupted shards" (goxa.1:146), "missing shards can be rebuilt" (PURPOSE.md:17) | `enc.Verify`'s result is not used, nothing is reconstructed, and bad data shards are joined as they are (fec.go:162-184): one bad data shard of an archive with one parity shard makes it unreadable |

Seen on the way, and not runs. Where a property would hold but for them, it
names them as its exceptions.

* Errors nobody sees. When the walk fails the status is 0 and an empty archive,
  or the temporary file, is left (create.go:152 and main.go:411; `trouble =
  "dropped"` in `SuccessMeansWritten`, `NoTempLeft`). The same goes for the
  deferred closes of `createTar` and `encW.Close()` (create.go:282). A tar
  archive whose last file shrank while it was read is cut short and the status
  is 0 (`lacking` in `Extractable`).
* `-stdout` into a pipe is fatal unless the archive is encoded, because the
  header is written back; README.md:154 gives it as an example. Tar archives
  ignore `-stdout`.
* Without `-f` an existing archive is kept, but not if the new one is encoded
  or a tar archive (`KeepsArchives`).
* What can be created and not read (`Readable` lists it): `-arc=x.b64` becomes
  `x.b64.goxa`, encoded under a name that no longer says so; a gzip archive named `.tar.xz`
  (util.go:192-204 leaves `tarUseXz` as the name set it). `x.tar.gz.b64` is not
  encoded at all, and is read as it is once its decoding has failed. A tar
  archive without entries is not detected by its first bytes (util.go:156-163),
  so with `n` under `.tar.gz` it is given to gzip, which refuses it. * FEC: bad parity shards do no harm (`ReadsWhatIsThere`); bad data shards are the
  run above. 256 data shards and no parity shard, or shards of 2^32 bytes, make
  files that cannot be decoded (`Fit`). A preset comes before `-fec-data` and
  `-fec-parity` (main.go:228-242); goxa.1:144 has it the other way round.
  `decodeIfNeeded` leaves its progress goroutine running when it hands over to
  `decodeWithFEC` (`OneDrawer`).
* `.` as destination, and no destination for a tar archive (main.go:431-435):
  `safeJoin` compares with `"./"`, with which no cleaned path begins
  (util.go:265), and refuses every path, or `-f` passes over it (`Barred`,
  `Restore`). README.md:153 gives the example "goxa x -arc=mybackup.tar.xz
  # extract tar.xz", and goxa.1:18 allows any "[destination]".
* Tar: `.` as a root counts as hidden and gives an empty archive without `i`
  (tar.go:60; `HiddenName`). Extracting with `p` an archive that was created
  without gives every mode 0, and directories are locked before their entries
  come (`Extractable`). `-files` is ignored.
* Walk: a directory with nothing but special files is lost without `-o`
  (util.go:359; `DirectoriesKept` excludes it by `LeftOut`); a root that ends in
  `..` gives an archive that extract refuses (`OwnPlace` excludes it).
  Roots of one name share entries of the table of directories (`Apart`), and
  `-files` with `.` selects nothing (`RootSelectable`).

## 4. What is proved

All constants are arbitrary within the `ASSUME`s of the modules: any number of
entries, sizes, block size, compression, retries and changes.

* **`FileImageTheorems`**: what `WriteAt` returns: its length, the cells it
  writes, and that it leaves the others alone.
* **`BufferedFileProofs`**: `TypeCorrect`, `ErrorSticks`, `FinalFlush`, and
  `BufferedFileImplementsFile`: every step of `BufferedFile` is a step of
  `PositionedFile` or a stutter under the mapping of `Logical` (the disk with
  the buffer written at the offset). The heart of it is `BufferingIsInvisible`:
  however a write is split between the file and the buffer, the two together
  read the same. `ClosedState` is added to the types: after a close the buffer
  is empty and, without `-noflush`, what is saved is what is on the disk.
* **`ArchiveWriterProofs`**: `TypeCorrect`, `PositionsAgree` and `KeptFilesIntact`
  from one inductive invariant,

  ```
  IInv == TypeOK /\ Versioned /\ Positioned /\ KeptBelow /\ SoFar /\ KeptIntact
  ```

  `KeptIntact` alone is not inductive. A write at the current position may only
  be said to spare the kept entries if these lie below it: `KeptBelow` puts each
  block of a kept entry, with room for its checksum in front, between the header
  and the edge, which is `startOffset` while an entry is read and `cOffset`
  otherwise. `Positioned` says
  where the archive's position is at each `pc` relative to `cOffset`. For a new
  entry to be intact when it is kept, `SoFar` says of the attempt under way that
  its blocks hold, and its hash covers, exactly the first `rpos` units of the
  open file, provided the file is still the one the first `Stat` saw; and
  `Versioned` that a file whose version is that of the first `Stat` has not
  changed in between (versions only grow), which is what the comparison at
  create.go:515 relies on. TLC checked each part on the three instances before
  it was proved.

  The second half of the module has `AcceptedAtTheEnd`, `ReadsBounded`, and
  `TakesASnapshot`, the refinement of `SnapshotArchive`, from

  ```
  SInv == IInv /\ Published /\ InOrder /\ Tries
  ```

  `Published` says what a reader finds at each stage of the run: until the
  header is rewritten its first cell is blank and its checksum covers a blank
  one (`Unready`); while it is rewritten a beginning of it is final, but the
  checksum at its end is still the one over the blank header (`Stale`), so that
  a reader refuses it wherever the two writes are split; when it is done header
  and trailer are those of the kept entries. A run that the output stops leaves
  nothing or an image that is still `Unready`, and only one that a failing
  `Close` stops may leave a header that is begun or complete (`Begun`,
  `Complete`). That the trailer is still there
  then needs `HeaderLen <= cOffset`: the header is rewritten below it.
  `InOrder` counts the entries kept against those skipped, so that the header
  fits only if none was skipped (create.go:210), and gives the order that
  `SnapshotArchive` promises. `Tries` is the loop's comparison with `-retries`.
  The refinement needs `KeptIntact` twice: an entry taken must be one version of
  its file, and no later write may change what was taken.
* **`ExtractorProofs`**: `TypeCorrect`, `PoolNeverExceeded`, `WaitMissesNobody`,
  `FilesRestoredIntact`, `HonestMessage`, and `RestoresATree`, the refinement of
  `RestoredTree`, from

  ```
  IInv == TypeOK /\ PoolBounded /\ InTurn /\ Counted /\ Copying /\ OwnPlace /\ RestoredIntact
  ```

  `InTurn` says which entries have been started when the loop is at `turn`;
  without it nothing keeps the wait from missing one that was not. `Counted`
  ties the two counters to the workers' outcomes as cardinalities of sets:
  `HonestMessage` then is an argument about sizes of disjoint sets, since the
  code compares numbers and the property speaks of each entry. `OwnPlace` says
  of an entry whose place nobody else may touch (`Undisturbed`) that it is as
  the run found it until the worker opens it, and holds what was copied
  (`SoFar`) from then on; `RestoredIntact` alone says nothing of a worker in the
  middle. `Copying` says that a worker which copies has a file, or has had one
  that a link removed. This part was not true of the model as it was, which let
  a copy go on in no file at all; `Removed` is what was missing, and one more
  archive of `MCExtractor`, a file and a link at one path, shows it.
* **`CommandProofs`**: first, for all sizes and counts, a file whose shards fit
  the header can be joined (`FittingJoins`), and whatever is cut off in the
  header, what joins are the bytes that were encoded (`JoinedIsArchive`): of a
  file in the directory, the archive, unless a data shard went bad
  (`FecFilesDecode`). Then
  `TypeCorrect`, `SuccessIsWritten`, `PartsAreNoticed`, `FecFilesDecode`,
  `NoTemporaryLeft`, `OneDrawsAtATime` and `ArchivesKept`, for all command
  lines, all names and any number of runs, failures and renamings, from

  ```
  IInv == TypeOK /\ Course /\ Drawing /\ FecSound /\ Own /\ Delivered /\ Noticing /\ NoTempLeft
  ```

  All of them speak of `At`: where the program is, or where it goes on once the
  goroutine it waits for has ended. `Course` is what mode, format and encoding
  can be there, which is what the chain of package variables amounts to.
  `Drawing` says where a goroutine may be drawing, and that it is told to stop
  before another is started. `Own` says that the archive is the run's own while
  it is written, which `ArchivesKept` needs between opening and closing;
  `Delivered` and `Noticing` carry what a writing run has made and what a
  reading run has found from the last write or read to the exit.
  Last, `ReadableIsRead`, that is `ReadsWhatIsThere` for all names, archives and
  command lines, from

  ```
  RInv == IInv /\ Route /\ EncodedGoxa /\ Followed
  ```

  `Followed` speaks of a run that reads while none of its steps has failed and
  of an archive that is `Good`: whole, encoded as its name says, with good data
  shards that fit their header and, if it is a tar archive without entries, a
  name that says everything. What the property excepts besides (destinations
  that are a file or `.`, contradicting options, gzip under `.tar.xz`) `Readable`
  lists. `Detecting` is what the package variables are
  before and after the first bytes have been looked at (`Early`, `Late`); in
  particular `tarUseXz` is the name's or the file's, which is the exception in
  `Readable`. `Holding` says that its decoding did not fail and that the temporary
  file is the archive itself when it is looked at and when it is opened, which
  for error correction rests on `FittingJoins` and `FecSound`; `Restoring` that
  it is this archive that is restored. `Refusing` and `Getting` are the two
  halves of the property from the step that decides them to the exit.
  `EncodedGoxa` is needed because `extractTar` decodes nothing (no tar archive
  is ever encoded), and `Route` ties format and encoding to the place in the
  program.
* **`PathTheorems`**: `filepath.Clean` as a function that is defined component by
  component. That names without `..` stay as they are (`CleanPlain`), that
  cleaning twice is cleaning once (`CleanTwice`) and that what is in front may be
  cleaned first (`CleanAfter`) hold for paths of any length. They are proved
  without induction over sequences, which the provers cannot use: `Shortest` says
  that a set of counterexamples has one whose front is none, and each proof
  refutes that one.
* **`WalkTreeProofs`**: `WalkTyped`, `WalkMissesNothing`, `WalkKeepsDirectories`,
  `WalkListsOnlyEmpty`, `WalkGivesOwnPlaces` and `WalkRootsSelectable`, for all
  trees, command lines, flags, destinations and changes, from

  ```
  IInv == Walking /\ Single /\ Kept /\ Filled /\ Occupied
  ```

  A node, the path to it and its stored name are three things, and roots may be
  one above another. `Way` ties them together: what lies below a root is reached
  by the root's path and stored under the root's name, each followed by the same
  names. `Walking` says where the paths still to be visited lead: below the root
  at hand, none on the way to another, to parents that are in the table
  (`Ways`, `Once`), and that whatever has been found lies where no such path
  leads any more (`Came`, with `Passed`). From it follows that no node is come by
  twice, which `Single` states of the entries. `Kept` is `NothingMissed` half
  way: what was there all along is found already, or a path still to be visited
  leads to it. `Filled` and `Occupied` say what the counters of `states` count:
  a directory counts if and only if something below it that is stored has been
  come by. A directory that stayed and is left out by both would be one whose
  deepest content is (`Longest`), and that is what `DirectoriesKeptFollows`
  refutes.

  The attempt to prove the properties found four of them wrong as they were
  stated, though no instance had shown it. `Apart` compares the components of
  names only, since extraction drops the leading `/`. `DirectoriesKept` fails
  for two roots of one name, when the second enters its directory with a fresh
  counter. `OwnPlace` needs roots without `..` only if they are stored relative,
  and a destination that has a component. `RootSelectable` says of an entry that
  it came from the root, not merely that its name does.
* **`TarArchiveProofs`**: `TarMissesNothing`, `TarRestoresAll` and
  `TarIsExtractable`, and the properties of the walk once more under the
  specification with both formats (`WalkUnderTar`), from

  ```
  TarIInv == IF at = "goxa" THEN IInv ELSE TarInv
  TarInv == Storage /\ TarKept /\ Restoring
  ```

  `Storage` and `TarKept` are to `createTar` what `Walking` and `Kept` are to
  the walk, with two differences: entries are stored in order, the root's own
  first (`TarBegun`, `TarCame`), and a root that is hidden, or gone, is no
  exception. `Restoring` is what `extractTar` has done when it is at `next`:
  the entries before it are in place (`InPlace`), and nothing else is there but
  directories on the way to them (`Made`). A new entry may only be said to leave
  the earlier ones alone if it has another place; `LandsAt` shows that what
  `safeJoin` allows is the destination followed by the stored name, also if the
  name begins with `..`, and that is where the root's own entry coming first is
  needed: `out/..` followed by names is refused with the root. The one exception
  is the destination `/`, where `..` is `/` itself. `WayIsClear` is the heart of
  `TarIsExtractable`: what lies on the way to an entry is a directory in the
  tree it came from, hence a directory on the disk, and where something other
  than a directory goes there is nothing yet, so that neither `os.MkdirAll` nor
  `os.Symlink` nor `os.OpenFile` finds anything in its way.

The assumptions are those of the modules: constants have their types, and `None`,
`Nothing` and `Absent` are none of the values they are told apart from. The
provers do not know that a literal such as `"tar"` is a string: `Part` of
`ArchiveName` lists those the code compares with.

Only model-checked: liveness (`Terminates` of `ArchiveWriter`, `Extractor` and
`Command`), which the provers cannot treat. Every invariant, action property and
refinement that a passing run checks is also a theorem.

## 5. What is not modelled

* `BinReader`: production code reads the index with it in one pass and one
  absolute seek, where it is a plain buffered reader.
* `BitFlags`: the flags are Boolean constants and fields of the other modules.
* `runPGOTraining`, a benchmark that calls the rest.
* Prompts, listing, and the modes and times of files that `extract` restores;
  times and owners in tar archives, and hard links in those of other programs.
* Symbolic links in the destination that an open follows.
* An archive written into the tree that is being walked (create.go:138).
* What the progress line says; only its goroutine is modelled.
* The algorithms of checksums, compression, Base32, Base64 and Reed-Solomon.
* `br.Close()` on a source file (create.go:511) flushes and syncs a file opened
  for reading; its result is ignored and it changes nothing.

## 6. Plan

The components are modelled as far as section 5 says, and every safety property
the runs check is proved. What is left to prove is what no run states yet:

1. That `ArchiveWriter` may use `PositionedFile`: its writes as steps of that
   module, so that `BufferedFileImplementsFile` carries over to the archive.
2. That the entries of `WalkTree` are what `Extractor` assumes of its places,
   from `WalkGivesOwnPlaces`.
