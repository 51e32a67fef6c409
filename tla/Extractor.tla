----------------------------- MODULE Extractor -----------------------------
(***************************************************************************)
(* extract and extractFile (extract.go) once the index of the archive has  *)
(* been read: a loop starts a goroutine for every selected entry, at most  *)
(* Threads at a time (a sizedwaitgroup), and each restores one file block  *)
(* by block.  The workers share the destination directory, the counters    *)
(* skippedFiles and checksumCount, and their fate: a log.Fatal in any of   *)
(* them ends the process in the middle of the others.                      *)
(*                                                                         *)
(* An uncompressed archive is restored by the loop itself, one entry after *)
(* the other: a pool of one.  A file under the destination is an image of  *)
(* cells (FileImage); a cell <<i, k>> is block k of entry i.  A file is    *)
(* written at its worker's own position, as BufferedFile justifies.        *)
(*                                                                         *)
(* The program may be killed at any moment, and the archive be extracted   *)
(* again over what is there.                                               *)
(***************************************************************************)
EXTENDS FileImage, FiniteSets

CONSTANTS N,          \* number of entries in the index
          Threads,    \* -threads
          Paths,      \* the paths the entries are restored to
          Archives,   \* the indexes to consider, functions on 1 .. N
          Flags,      \* the combinations of flags to consider
          Befores,    \* the destinations to consider, as extract finds them
          Hazards,    \* what may happen: "dir", "open", "sum", "write"
          Absent,     \* no file
          MaxRuns     \* bound of the model: extractions of the archive

Entries == 1 .. N

(* An entry of the index: its type, where it goes ("illegal": a path that  *)
(* safeJoin refuses), the number of its blocks, what is wrong with it (a   *)
(* checksum that does not agree, or a block that cannot be decoded), and   *)
(* whether isZipBomb says so.                                              *)
EntryType ==
  [kind : {"file", "link", "other"}, path : Paths, legal : BOOLEAN, blocks : Nat,
   damage : {"none", "sum", "block"}, bomb : BOOLEAN, selected : BOOLEAN]

(* Of the archive: checksums, noCompress.  Of this run: force.             *)
FlagsType == [checksums : BOOLEAN, noCompress : BOOLEAN, force : BOOLEAN]

ASSUME NAssumption == N \in Nat
ASSUME ThreadsAssumption == Threads \in Int
ASSUME MaxRunsAssumption == MaxRuns \in Nat \ {0}
ASSUME ArchivesAssumption == Archives \subseteq [Entries -> EntryType]
ASSUME FlagsAssumption == Flags \subseteq FlagsType
ASSUME HazardsAssumption == Hazards \subseteq {"dir", "open", "sum", "write"}
ASSUME AbsentAssumption == Absent \notin Seq(Nat \X Nat)
ASSUME BeforesAssumption == Befores \subseteq [Paths -> Seq(Nat \X Nat) \cup {Absent}]

VARIABLES
  arc,           \* fileList
  flags,         \* lfeat and doForce
  before,        \* the destination as this run of extract found it
  dest,          \* the destination: an image under each path, or Absent
  pc,            \* the loop: "start", "spawn", "done", or "dead" after log.Fatal
  turn,          \* the next entry of the loop
  slots,         \* entries in the sizedwaitgroup
  work,          \* the worker of each entry: "none", "begin", "copy", "ended"
  at,            \* the blocks it has copied
  outcome,       \* what became of its entry
  skippedFiles, checksumCount,
  verified,      \* "All checksums verified." was printed
  runs           \* the extractions so far

constant == <<arc, flags, before, runs>>
vars == <<constant, dest, pc, turn, slots, work, at, outcome, skippedFiles,
          checksumCount, verified>>

-----------------------------------------------------------------------------
(* The goroutines the loop allows itself.                                  *)
PoolSize == IF flags.noCompress \/ Threads < 1 THEN 1 ELSE Threads

Selected == {i \in Entries : arc[i].selected}
Whole(i) == [k \in 1 .. arc[i].blocks |-> <<i, k>>]

Init ==
  /\ arc \in Archives
  /\ flags \in Flags
  /\ before \in Befores
  /\ runs = 1
  /\ dest = before
  /\ pc = "start"
  /\ turn = 1
  /\ slots = 0
  /\ work = [i \in Entries |-> "none"]
  /\ at = [i \in Entries |-> 0]
  /\ outcome = [i \in Entries |-> "none"]
  /\ skippedFiles = 0 /\ checksumCount = 0
  /\ verified = FALSE

(* log.Fatal: the process is gone, with whatever the others were doing.    *)
Fatal ==
  /\ pc' = "dead"
  /\ UNCHANGED <<turn, slots, work, at, outcome, skippedFiles, checksumCount, verified>>

(* The space check and the empty directories.                              *)
Start ==
  /\ pc = "start"
  /\ \/ Fatal
     \/ /\ pc' = "spawn"
        /\ UNCHANGED <<turn, slots, work, at, outcome, skippedFiles, checksumCount,
                       verified>>
  /\ UNCHANGED <<constant, dest>>

PassOver ==
  /\ pc = "spawn"
  /\ turn \in Entries \ Selected
  /\ turn' = turn + 1
  /\ UNCHANGED <<constant, dest, pc, slots, work, at, outcome, skippedFiles,
                 checksumCount, verified>>

(* Mutant of Spawn: what is not in the list of files is restored too.      *)
SpawnAny ==
  /\ pc = "spawn"
  /\ turn \in Entries
  /\ slots < PoolSize
  /\ slots' = slots + 1
  /\ work' = [work EXCEPT ![turn] = "begin"]
  /\ turn' = turn + 1
  /\ UNCHANGED <<constant, dest, pc, at, outcome, skippedFiles, checksumCount, verified>>

(* Mutant of Spawn: a plain WaitGroup, without the limit.                  *)
SpawnUnbounded ==
  /\ pc = "spawn"
  /\ turn \in Selected
  /\ slots' = slots + 1
  /\ work' = [work EXCEPT ![turn] = "begin"]
  /\ turn' = turn + 1
  /\ UNCHANGED <<constant, dest, pc, at, outcome, skippedFiles, checksumCount, verified>>

(* wg.Add() blocks while the pool is full, then the goroutine starts.      *)
Spawn ==
  /\ pc = "spawn"
  /\ turn \in Selected
  /\ slots < PoolSize
  /\ slots' = slots + 1
  /\ work' = [work EXCEPT ![turn] = "begin"]
  /\ turn' = turn + 1
  /\ UNCHANGED <<constant, dest, pc, at, outcome, skippedFiles, checksumCount, verified>>

(* Mutant of Wait: the loop does not wait for the last workers.            *)
WaitForNobody ==
  /\ pc = "spawn"
  /\ turn = N + 1
  /\ pc' = "done"
  /\ verified' = (flags.checksums /\ checksumCount = Cardinality(Selected) - skippedFiles)
  /\ UNCHANGED <<constant, dest, turn, slots, work, at, outcome, skippedFiles,
                 checksumCount>>

(* wg.Wait(), then the closing message.                                    *)
Wait ==
  /\ pc = "spawn"
  /\ turn = N + 1
  /\ slots = 0
  /\ pc' = "done"
  /\ verified' = (flags.checksums /\ checksumCount = Cardinality(Selected) - skippedFiles)
  /\ UNCHANGED <<constant, dest, turn, slots, work, at, outcome, skippedFiles,
                 checksumCount>>

-----------------------------------------------------------------------------
(* extractFile(i).                                                         *)

(* Mutant of Return: wg.Done() is not deferred, a skip forgets it.         *)
ReturnWithoutDone(i, how) ==
  /\ work' = [work EXCEPT ![i] = "ended"]
  /\ outcome' = [outcome EXCEPT ![i] = how]
  /\ slots' = IF how = "skipped" THEN slots ELSE slots - 1
  /\ skippedFiles' = IF how = "skipped" THEN skippedFiles + 1 ELSE skippedFiles
  /\ checksumCount' = IF how = "verified" THEN checksumCount + 1 ELSE checksumCount
  /\ UNCHANGED <<pc, turn, at, verified>>

(* Mutant of Return: a skip calls wg.Done() on top of the deferred one.    *)
ReturnDoneTwice(i, how) ==
  /\ work' = [work EXCEPT ![i] = "ended"]
  /\ outcome' = [outcome EXCEPT ![i] = how]
  /\ slots' = IF how = "skipped" THEN slots - 2 ELSE slots - 1
  /\ skippedFiles' = IF how = "skipped" THEN skippedFiles + 1 ELSE skippedFiles
  /\ checksumCount' = IF how = "verified" THEN checksumCount + 1 ELSE checksumCount
  /\ UNCHANGED <<pc, turn, at, verified>>

(* The goroutine ends: its entry is counted as skipped, as verified or     *)
(* not at all, and the deferred wg.Done() gives its slot back.             *)
Return(i, how) ==
  /\ work' = [work EXCEPT ![i] = "ended"]
  /\ outcome' = [outcome EXCEPT ![i] = how]
  /\ slots' = slots - 1
  /\ skippedFiles' = IF how = "skipped" THEN skippedFiles + 1 ELSE skippedFiles
  /\ checksumCount' = IF how = "verified" THEN checksumCount + 1 ELSE checksumCount
  /\ UNCHANGED <<pc, turn, at, verified>>

(* What -f lets pass is skipped; without it the program ends.              *)
SkipOrDie(i) == IF flags.force THEN Return(i, "skipped") ELSE Fatal

Worker(i, stage) == pc = "spawn" /\ work[i] = stage

(* A path outside the destination, or a directory that cannot be made.     *)
NoPlace(i) == ~arc[i].legal \/ "dir" \in Hazards
HasPlace(i) == arc[i].legal

BeginOther(i) ==
  /\ Worker(i, "begin")
  /\ arc[i].kind = "other"
  /\ Return(i, "other")
  /\ UNCHANGED <<constant, dest>>

(* os.Symlink or os.Link; its error is ignored, -f removes what is there.  *)
BeginLink(i) ==
  /\ Worker(i, "begin")
  /\ arc[i].kind = "link"
  /\ \/ /\ NoPlace(i)
        /\ SkipOrDie(i)
        /\ UNCHANGED dest
     \/ /\ HasPlace(i)
        /\ LET cleared == IF flags.force THEN [dest EXCEPT ![arc[i].path] = Absent] ELSE dest
           IN \/ /\ cleared[arc[i].path] = Absent
                 /\ dest' = [cleared EXCEPT ![arc[i].path] = <<<<i, 0>>>>]
              \/ /\ cleared[arc[i].path] # Absent \/ "open" \in Hazards
                 /\ dest' = cleared
        /\ Return(i, "link")
  /\ UNCHANGED constant

(* No blocks, so no offset: the file was empty, or is not in the archive.  *)
BeginEmpty(i) ==
  /\ Worker(i, "begin")
  /\ arc[i].kind = "file" /\ arc[i].blocks = 0
  /\ Return(i, "skipped")
  /\ UNCHANGED <<constant, dest>>

HasData(i) == arc[i].kind = "file" /\ arc[i].blocks > 0

(* The program or its user refuses a zip bomb.                             *)
RefuseBomb(i) ==
  /\ Worker(i, "begin")
  /\ HasData(i)
  /\ arc[i].bomb
  /\ Fatal
  /\ UNCHANGED <<constant, dest>>

BeginNowhere(i) ==
  /\ Worker(i, "begin")
  /\ HasData(i)
  /\ NoPlace(i)
  /\ SkipOrDie(i)
  /\ UNCHANGED <<constant, dest>>

(* os.OpenFile fails: the error is returned, and dropped by the caller.    *)
OpenFails(i) ==
  /\ Worker(i, "begin")
  /\ HasData(i) /\ HasPlace(i)
  /\ "open" \in Hazards
  /\ Return(i, "failed")
  /\ UNCHANGED <<constant, dest>>

(* Mutant of Open: -f does not truncate either.                            *)
OpenNeverTruncates(i) ==
  /\ Worker(i, "begin")
  /\ HasData(i) /\ HasPlace(i)
  /\ dest' = IF dest[arc[i].path] = Absent
             THEN [dest EXCEPT ![arc[i].path] = << >>]
             ELSE dest
  /\ work' = [work EXCEPT ![i] = "copy"]
  /\ UNCHANGED <<constant, pc, turn, slots, at, outcome, skippedFiles, checksumCount,
                 verified>>

(* os.OpenFile: O_CREATE, and O_TRUNC only with -f.                        *)
Open(i) ==
  /\ Worker(i, "begin")
  /\ HasData(i) /\ HasPlace(i)
  /\ dest' = IF flags.force \/ dest[arc[i].path] = Absent
             THEN [dest EXCEPT ![arc[i].path] = << >>]
             ELSE dest
  /\ work' = [work EXCEPT ![i] = "copy"]
  /\ UNCHANGED <<constant, pc, turn, slots, at, outcome, skippedFiles, checksumCount,
                 verified>>

(* The stored checksum cannot be read; the file is already there, empty.   *)
NoChecksum(i) ==
  /\ Worker(i, "copy")
  /\ at[i] = 0
  /\ flags.checksums
  /\ "sum" \in Hazards
  /\ SkipOrDie(i)
  /\ UNCHANGED <<constant, dest>>

(* With -f the worker of a link has removed what this worker writes to:    *)
(* what it still writes goes to a file without a name.                     *)
Removed(i) ==
  flags.force /\ \E j \in Selected :
    arc[j].kind = "link" /\ arc[j].path = arc[i].path /\ outcome[j] = "link"

(* One block into the file, at this worker's own position in it: another   *)
(* worker may have truncated the file under it, or removed it.             *)
CopyBlock(i) ==
  /\ Worker(i, "copy")
  /\ at[i] < arc[i].blocks
  /\ arc[i].damage # "block"
  /\ \/ /\ dest[arc[i].path] # Absent
        /\ dest' = [dest EXCEPT ![arc[i].path] = WriteAt(StretchTo(@, at[i], <<0, 0>>), at[i],
                                                         <<<<i, at[i] + 1>>>>)]
     \/ Removed(i) /\ UNCHANGED dest
  /\ at' = [at EXCEPT ![i] = @ + 1]
  /\ UNCHANGED <<constant, pc, turn, slots, work, outcome, skippedFiles, checksumCount,
                 verified>>

(* A block that cannot be decoded or written, or a close that fails, is    *)
(* fatal, also with -f.                                                    *)
CopyFails(i) ==
  /\ Worker(i, "copy")
  /\ (at[i] < arc[i].blocks /\ arc[i].damage = "block") \/ "write" \in Hazards
  /\ Fatal
  /\ UNCHANGED <<constant, dest>>

(* Mutant of Finish: counted before the checksums are compared.            *)
FinishCountsFirst(i) ==
  /\ Worker(i, "copy")
  /\ at[i] = arc[i].blocks
  /\ \/ ~flags.checksums /\ Return(i, "restored")
     \/ flags.checksums /\ (arc[i].damage # "sum" \/ flags.force) /\ Return(i, "verified")
     \/ flags.checksums /\ arc[i].damage = "sum" /\ ~flags.force /\ Fatal
  /\ UNCHANGED <<constant, dest>>

(* The file is closed, and the checksum of the stream compared.            *)
Finish(i) ==
  /\ Worker(i, "copy")
  /\ at[i] = arc[i].blocks
  /\ \/ ~flags.checksums /\ Return(i, "restored")
     \/ flags.checksums /\ arc[i].damage # "sum" /\ Return(i, "verified")
     \/ /\ flags.checksums /\ arc[i].damage = "sum"
        /\ IF flags.force THEN Return(i, "mismatch") ELSE Fatal
  /\ UNCHANGED <<constant, dest>>

ExtractFile(i) ==
  \/ BeginOther(i) \/ BeginLink(i) \/ BeginEmpty(i) \/ RefuseBomb(i) \/ BeginNowhere(i)
  \/ OpenFails(i) \/ Open(i) \/ NoChecksum(i) \/ CopyBlock(i) \/ CopyFails(i) \/ Finish(i)

Loop == Start \/ PassOver \/ Spawn \/ Wait

-----------------------------------------------------------------------------
(* The process is killed, and every worker with it.                        *)
Crash ==
  /\ pc \in {"start", "spawn"}
  /\ Fatal
  /\ UNCHANGED <<constant, dest>>

(* The archive is extracted again, perhaps with -f this time.              *)
ExtractAgain ==
  /\ pc \in {"done", "dead"}
  /\ runs < MaxRuns
  /\ runs' = runs + 1
  /\ flags' \in {f \in Flags : f.checksums = flags.checksums /\ f.noCompress = flags.noCompress}
  /\ before' = dest
  /\ pc' = "start" /\ turn' = 1 /\ slots' = 0
  /\ work' = [i \in Entries |-> "none"]
  /\ at' = [i \in Entries |-> 0]
  /\ outcome' = [i \in Entries |-> "none"]
  /\ skippedFiles' = 0 /\ checksumCount' = 0 /\ verified' = FALSE
  /\ UNCHANGED <<arc, dest>>

Ended == pc \in {"done", "dead"} /\ UNCHANGED vars

Next == Loop \/ (\E i \in Entries : ExtractFile(i)) \/ Crash \/ ExtractAgain \/ Ended

Spec == Init /\ [][Next]_vars

(* The goroutine of the loop runs on, and so does every worker.  That a    *)
(* bomb is refused, an open or a checksum fails is nothing to count on.    *)
Progress(i) ==
  \/ BeginOther(i) \/ BeginLink(i) \/ BeginEmpty(i) \/ BeginNowhere(i)
  \/ Open(i) \/ CopyBlock(i) \/ CopyFails(i) \/ Finish(i)
FairSpec == Spec /\ WF_vars(Loop) /\ \A i \in Entries : WF_vars(Progress(i))

-----------------------------------------------------------------------------
Running == {i \in Entries : work[i] \in {"begin", "copy"}}
Outcomes == {"none", "other", "link", "skipped", "failed", "restored", "verified",
             "mismatch"}

(* Every variable has its type.                                            *)
TypeOK ==
  /\ arc \in [Entries -> EntryType]
  /\ flags \in FlagsType
  /\ before \in [Paths -> Seq(Nat \X Nat) \cup {Absent}]
  /\ dest \in [Paths -> Seq(Nat \X Nat) \cup {Absent}]
  /\ pc \in {"start", "spawn", "done", "dead"}
  /\ turn \in 1 .. N + 1
  /\ slots \in Nat
  /\ work \in [Entries -> {"none", "begin", "copy", "ended"}]
  /\ at \in [Entries -> Nat]
  /\ outcome \in [Entries -> Outcomes]
  /\ skippedFiles \in Nat /\ checksumCount \in Nat
  /\ verified \in BOOLEAN
  /\ runs \in 1 .. MaxRuns

(* The slots taken are the workers running, and never more than the pool   *)
(* has: every way out of extractFile gives back exactly one.               *)
PoolBounded == slots = Cardinality(Running) /\ slots <= PoolSize

(* When the loop is done every selected entry has been seen to, and no     *)
(* worker is still writing: wg.Wait() misses nobody.                       *)
DoneMeansSettled ==
  pc = "done" => \A i \in Entries : work[i] = IF i \in Selected THEN "ended" ELSE "none"

(* An entry no other selected entry shares its path with, restored with -f *)
(* or where nothing longer was, such as what another run left behind.      *)
Undisturbed(i) ==
  /\ \A j \in Selected \ {i} : arc[j].path # arc[i].path
  /\ \/ flags.force
     \/ before[arc[i].path] = Absent
     \/ Len(before[arc[i].path]) <= arc[i].blocks

(* Such a file, once its worker is through and content with it, is the     *)
(* archived one, whole and in order, and stays so while the others work    *)
(* on, and after a log.Fatal in one of them.  It takes no -f to extract    *)
(* again what a crash left half restored.                                  *)
RestoredIntact ==
  \A i \in Selected :
    outcome[i] \in {"restored", "verified"} /\ Undisturbed(i) =>
      dest[arc[i].path] = Whole(i)

(* "All checksums verified." is said of what it says: of every selected    *)
(* entry the checksum did agree, except that an empty file has none and    *)
(* that with -f an entry may have been skipped.  The message is decided by *)
(* two counters only: no error may be counted twice or make up for another.*)
VerifiedIsHonest ==
  verified => \A i \in Selected :
    \/ outcome[i] = "verified" /\ arc[i].damage # "sum"
    \/ outcome[i] = "skipped" /\ (flags.force \/ arc[i].blocks = 0)

(* extract does what RestoredTree promises.                                *)
Promise == INSTANCE RestoredTree WITH
  content <- [i \in Entries |-> Whole(i)],
  place <- [i \in Entries |-> arc[i].path],
  wanted <- Selected,
  tree <- dest,
  restored <- {i \in Selected : outcome[i] \in {"restored", "verified"} /\ Undisturbed(i)}
RestoresTree == Promise!Spec

(* extract comes to an end: it never waits for a slot or for a worker that *)
(* is not coming.                                                          *)
Terminates == []<>(pc \in {"done", "dead"})

-----------------------------------------------------------------------------
(* What the documentation says and the code does not do.                   *)

(* "Existing files are never overwritten unless the f flag is given"       *)
(* (README.md:39): without -f what was there stays as it was.              *)
NeverOverwritten ==
  ~flags.force => \A p \in Paths : before[p] # Absent => dest[p] = before[p]

(* The count of files before and after (test-goxa.sh:47-52) is the same:   *)
(* when nothing fails, every selected file is there at the end.            *)
WholeTree ==
  pc = "done" => \A i \in Selected :
    arc[i].kind = "file" /\ outcome[i] # "failed" => dest[arc[i].path] # Absent
=============================================================================
