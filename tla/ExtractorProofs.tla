--------------------------- MODULE ExtractorProofs --------------------------
(***************************************************************************)
(* Extractor for every archive, any number of entries and of threads, any  *)
(* destination, and any number of runs, killed or not: its types, the      *)
(* pool, the counters, and what becomes of the files; that it implements   *)
(* RestoredTree.                                                           *)
(***************************************************************************)
EXTENDS Extractor, FileImageTheorems, FiniteSetTheorems

-----------------------------------------------------------------------------
(* The inductive invariant.                                                *)

(* The loop has given a worker to every selected entry before turn and to  *)
(* no other entry; when it is done no worker is left.                      *)
InTurn ==
  /\ pc = "start" => turn = 1
  /\ \A i \in Entries : work[i] = "none" <=> i \notin Selected \/ i >= turn
  /\ pc = "done" => turn = N + 1 /\ slots = 0

(* Every worker that ended has its outcome, and the counters count them.   *)
Having(how) == {i \in Entries : outcome[i] = how}
Counted ==
  /\ \A i \in Entries : work[i] = "ended" <=> outcome[i] # "none"
  /\ checksumCount = Cardinality(Having("verified"))
  /\ skippedFiles = Cardinality(Having("skipped"))
  /\ \A i \in Having("verified") : arc[i].damage # "sum"
  /\ \A i \in Having("skipped") : flags.force \/ arc[i].blocks = 0
  /\ verified => pc = "done" /\ checksumCount = Cardinality(Selected) - skippedFiles

(* A worker that copies has a file to write to, though it may have been    *)
(* removed since.                                                          *)
Copying ==
  \A i \in Entries :
    /\ work[i] \in {"none", "begin"} => at[i] = 0
    /\ work[i] = "copy" =>
         /\ HasData(i)
         /\ at[i] <= arc[i].blocks
         /\ dest[arc[i].path] = Absent => Removed(i)

(* The place of an entry that nothing disturbs, before and while its       *)
(* worker writes there.                                                    *)
Untouched(i) == dest[arc[i].path] = before[arc[i].path]
SoFar(i) ==
  /\ dest[arc[i].path] # Absent
  /\ at[i] <= Len(dest[arc[i].path])
  /\ Len(dest[arc[i].path]) <= arc[i].blocks
  /\ \A k \in 1 .. at[i] : dest[arc[i].path][k] = <<i, k>>
OwnPlace ==
  \A i \in Selected : Undisturbed(i) =>
    /\ work[i] \in {"none", "begin"} => Untouched(i)
    /\ work[i] = "copy" => SoFar(i)

IInv == /\ TypeOK /\ PoolBounded /\ InTurn /\ Counted /\ Copying /\ OwnPlace
        /\ RestoredIntact

-----------------------------------------------------------------------------
(* Sets of entries are finite; how their size changes by one element.      *)
LEMMA EntriesFinite ==
  ASSUME NEW S, S \subseteq Entries
  PROVE  IsFiniteSet(S) /\ Cardinality(S) \in Nat
<1>1. IsFiniteSet(Entries)
  BY NAssumption, FS_Interval DEF Entries
<1> QED
  BY <1>1, FS_Subset, FS_CardinalityType

LEMMA OneMore ==
  ASSUME NEW S, S \subseteq Entries, NEW i \in Entries, i \notin S, NEW T, T = S \cup {i}
  PROVE  Cardinality(T) = Cardinality(S) + 1
BY EntriesFinite, FS_AddElement

LEMMA OneLess ==
  ASSUME NEW S, S \subseteq Entries, NEW i \in S, NEW T, T = S \ {i}
  PROVE  Cardinality(T) = Cardinality(S) - 1
BY EntriesFinite, FS_RemoveElement

LEMMA None == Cardinality({}) = 0
BY FS_EmptySet

(* What an entry and the flags are.                                        *)
LEMMA Types ==
  ASSUME TypeOK
  PROVE  /\ \A i \in Entries : /\ arc[i] \in EntryType
                              /\ arc[i].path \in Paths
                              /\ arc[i].blocks \in Nat
                              /\ at[i] \in Nat
         /\ \A p \in Paths : dest[p] = Absent \/ dest[p] \in Seq(Nat \X Nat)
         /\ \A p \in Paths : before[p] = Absent \/ before[p] \in Seq(Nat \X Nat)
         /\ turn \in Int
BY NAssumption DEF TypeOK, EntryType

-----------------------------------------------------------------------------
(* The invariant holds initially.                                          *)
LEMMA InvariantInit == Init => IInv
<1> SUFFICES ASSUME Init PROVE IInv
  OBVIOUS
<1>1. TypeOK
  <2>1. arc \in [Entries -> EntryType] /\ flags \in FlagsType
    BY ArchivesAssumption, FlagsAssumption DEF Init
  <2>2. before \in [Paths -> Seq(Nat \X Nat) \cup {Absent}]
    BY BeforesAssumption DEF Init
  <2>3. turn \in 1 .. N + 1 /\ runs \in 1 .. MaxRuns
    BY NAssumption, MaxRunsAssumption DEF Init
  <2> QED
    BY <2>1, <2>2, <2>3 DEF Init, TypeOK, Outcomes
<1>2. PoolBounded
  <2>1. Running = {}
    BY DEF Init, Running
  <2>2. PoolSize >= 0
    BY ThreadsAssumption DEF PoolSize
  <2> QED
    BY <2>1, <2>2, None DEF PoolBounded, Init
<1>3. InTurn
  BY DEF Init, InTurn, Entries
<1>4. Counted
  <2>1. Having("verified") = {} /\ Having("skipped") = {}
    BY DEF Init, Having
  <2> QED
    BY <2>1, None DEF Init, Counted
<1>5. Copying
  BY DEF Init, Copying
<1>6. OwnPlace
  BY DEF Init, OwnPlace, Untouched, Selected
<1>7. RestoredIntact
  BY DEF Init, RestoredIntact, Selected
<1> QED
  BY <1>1, <1>2, <1>3, <1>4, <1>5, <1>6, <1>7 DEF IInv

-----------------------------------------------------------------------------
(* The steps of a worker.                                                  *)

(* Its goroutine ends: what that says of its entry, and what it may have   *)
(* done to the destination.                                                *)
Ends(i, how) ==
  /\ how \in Outcomes \ {"none"}
  /\ Return(i, how)
  /\ how = "verified" => arc[i].damage # "sum"
  /\ how = "skipped" => flags.force \/ arc[i].blocks = 0
  /\ how \in {"restored", "verified"} => dest' = dest /\ work[i] = "copy" /\ at[i] = arc[i].blocks
  /\ dest' \in [Paths -> Seq(Nat \X Nat) \cup {Absent}]
  /\ \A p \in Paths : p # arc[i].path => dest'[p] = dest[p]
  /\ dest'[arc[i].path] = Absent =>
       \/ dest[arc[i].path] = Absent
       \/ flags.force /\ arc[i].kind = "link" /\ how = "link"

(* Every step of a worker is fatal, ends it, opens its file or copies one  *)
(* of its blocks; a worker that runs has an entry that is selected.        *)
LEMMA WorkerStep ==
  ASSUME IInv, NEW i \in Entries, ExtractFile(i)
  PROVE  /\ pc = "spawn" /\ work[i] \in {"begin", "copy"} /\ i \in Selected
         /\ UNCHANGED constant
         /\ \/ Fatal /\ dest' = dest
            \/ \E how : Ends(i, how)
            \/ Open(i)
            \/ CopyBlock(i)
<1>0. TypeOK /\ InTurn /\ Copying
  BY DEF IInv
<1>1. /\ arc[i].path \in Paths
      /\ dest \in [Paths -> Seq(Nat \X Nat) \cup {Absent}]
      /\ outcome \in [Entries -> Outcomes] /\ work \in [Entries -> {"none", "begin", "copy", "ended"}]
  BY <1>0, Types DEF TypeOK
<1>2. pc = "spawn" /\ work[i] \in {"begin", "copy"} /\ UNCHANGED constant
  BY DEF ExtractFile, BeginOther, BeginLink, BeginEmpty, RefuseBomb, BeginNowhere, OpenFails,
         Open, NoChecksum, CopyBlock, CopyFails, Finish, Worker
<1>3. i \in Selected
  BY <1>0, <1>2 DEF InTurn
<1>4. ASSUME NEW how \in {"other", "link", "skipped", "failed", "mismatch"},
             Return(i, how), dest' = dest,
             how = "skipped" => flags.force \/ arc[i].blocks = 0
      PROVE  Ends(i, how)
  BY <1>1, <1>4 DEF Ends, Outcomes
<1>5. ASSUME SkipOrDie(i), dest' = dest
      PROVE  Fatal \/ Ends(i, "skipped")
  BY <1>4, <1>5 DEF SkipOrDie
<1>6. ASSUME BeginLink(i)
      PROVE  (Fatal /\ dest' = dest) \/ \E how : Ends(i, how)
  <2>1. CASE SkipOrDie(i) /\ dest' = dest
    BY <1>5, <2>1
  <2>2. CASE ~(SkipOrDie(i) /\ dest' = dest)
    <3> DEFINE cleared == IF flags.force THEN [dest EXCEPT ![arc[i].path] = Absent] ELSE dest
               made == [cleared EXCEPT ![arc[i].path] = <<<<i, 0>>>>]
    <3>1. /\ cleared \in [Paths -> Seq(Nat \X Nat) \cup {Absent}]
          /\ \A p \in Paths : p # arc[i].path => cleared[p] = dest[p]
          /\ cleared[arc[i].path] = Absent => dest[arc[i].path] = Absent \/ flags.force
      BY <1>1
    <3>2. <<<<i, 0>>>> \in Seq(Nat \X Nat)
      BY DEF Entries
    <3>3. /\ made \in [Paths -> Seq(Nat \X Nat) \cup {Absent}]
          /\ \A p \in Paths : p # arc[i].path => made[p] = dest[p]
          /\ made[arc[i].path] # Absent
      BY <1>1, <3>1, <3>2, AbsentAssumption
    <3>4. Return(i, "link") /\ arc[i].kind = "link"
      BY <1>6, <2>2 DEF BeginLink
    <3>5. dest' = cleared \/ dest' = made
      BY <1>6, <2>2 DEF BeginLink
    <3> HIDE DEF cleared, made
    <3> QED
      BY <3>1, <3>3, <3>4, <3>5 DEF Ends, Outcomes
  <2> QED
    BY <2>1, <2>2
<1>7. ASSUME Finish(i)
      PROVE  (Fatal /\ dest' = dest) \/ \E how : Ends(i, how)
  <2>1. dest' = dest /\ work[i] = "copy" /\ at[i] = arc[i].blocks
    BY <1>7 DEF Finish, Worker
  <2>2. \/ Fatal
        \/ Return(i, "restored")
        \/ Return(i, "verified") /\ arc[i].damage # "sum"
        \/ Return(i, "mismatch")
    BY <1>7 DEF Finish
  <2>3. Return(i, "restored") => Ends(i, "restored")
    BY <1>1, <2>1 DEF Ends, Outcomes
  <2>4. Return(i, "verified") /\ arc[i].damage # "sum" => Ends(i, "verified")
    BY <1>1, <2>1 DEF Ends, Outcomes
  <2> QED
    BY <1>4, <2>1, <2>2, <2>3, <2>4
<1>8. BeginOther(i) => Ends(i, "other")
  BY <1>4 DEF BeginOther
<1>9. BeginEmpty(i) => Ends(i, "skipped")
  BY <1>4 DEF BeginEmpty
<1>10. OpenFails(i) => Ends(i, "failed")
  BY <1>4 DEF OpenFails
<1>11. BeginNowhere(i) \/ NoChecksum(i) => dest' = dest /\ (Fatal \/ Ends(i, "skipped"))
  BY <1>5 DEF BeginNowhere, NoChecksum
<1>12. RefuseBomb(i) \/ CopyFails(i) => Fatal /\ dest' = dest
  BY DEF RefuseBomb, CopyFails
<1>13. (Fatal /\ dest' = dest) \/ (\E how : Ends(i, how)) \/ Open(i) \/ CopyBlock(i)
  BY <1>6, <1>7, <1>8, <1>9, <1>10, <1>11, <1>12, Zenon DEF ExtractFile
<1> QED
  BY <1>2, <1>3, <1>13

(* A block written at its position, whatever has become of the file: its   *)
(* type, and what is in it when it had been written up to there.           *)
Copied(s, n, c) == WriteAt(StretchTo(s, n, <<0, 0>>), n, <<c>>)

LEMMA CopiedBlock ==
  ASSUME NEW s \in Seq(Nat \X Nat), NEW n \in Nat, NEW c \in Nat \X Nat
  PROVE  /\ Copied(s, n, c) \in Seq(Nat \X Nat)
         /\ n <= Len(s) => /\ Len(Copied(s, n, c)) = SizeAfter(Len(s), n, 1)
                           /\ \A k \in 1 .. n : Copied(s, n, c)[k] = s[k]
                           /\ Copied(s, n, c)[n + 1] = c
<1> DEFINE t == StretchTo(s, n, <<0, 0>>)
           m == SizeAfter(Len(s), n, 0)
           w == Copied(s, n, c)
<1>1. m \in Nat /\ n <= m /\ Len(s) <= m /\ (n <= Len(s) => m = Len(s))
  BY DEF SizeAfter
<1>2. t = [k \in 1 .. m |-> IF k <= Len(s) THEN s[k] ELSE <<0, 0>>]
  BY DEF StretchTo
<1>3. \A k \in 1 .. m : (IF k <= Len(s) THEN s[k] ELSE <<0, 0>>) \in Nat \X Nat
  BY <1>1
<1>4. t \in [1 .. m -> Nat \X Nat]
  BY <1>2, <1>3
<1>5. t \in Seq(Nat \X Nat) /\ Len(t) = m
  BY <1>1, <1>4, SeqDef
<1>6. <<c>> \in Seq(Nat \X Nat) /\ Len(<<c>>) = 1 /\ <<c>>[1] = c
  OBVIOUS
<1>7. n \in 0 .. Len(t)
  BY <1>1, <1>5
<1>0. w = WriteAt(t, n, <<c>>)
  BY DEF Copied
<1> HIDE DEF t, m, w
<1>8. w \in Seq(Nat \X Nat) /\ Len(w) = SizeAfter(m, n, 1)
  BY <1>0, <1>5, <1>6, <1>7, WriteAtType
<1>9. \A k \in 1 .. SizeAfter(m, n, 1) : w[k] = IF k > n /\ k <= n + 1 THEN <<c>>[k - n] ELSE t[k]
  BY <1>0, <1>5, <1>6, <1>7, WriteAtCell
<1>10. ASSUME n <= Len(s)
       PROVE  /\ Len(w) = SizeAfter(Len(s), n, 1)
              /\ \A k \in 1 .. n : w[k] = s[k]
              /\ w[n + 1] = c
  <2>1. m = Len(s)
    BY <1>1, <1>10
  <2>2. n + 1 \in 1 .. SizeAfter(m, n, 1) /\ 1 .. n \subseteq 1 .. SizeAfter(m, n, 1)
    BY <1>1 DEF SizeAfter
  <2>3. w[n + 1] = <<c>>[1]
    BY <1>9, <2>2
  <2>4. ASSUME NEW k \in 1 .. n PROVE w[k] = s[k]
    <3>1. k \in 1 .. m /\ k <= Len(s) /\ ~(k > n)
      BY <1>10, <2>1
    <3>2. t[k] = s[k]
      BY <1>2, <3>1
    <3>3. w[k] = t[k]
      BY <1>9, <2>2, <3>1
    <3> QED
      BY <3>2, <3>3
  <2> QED
    BY <1>6, <1>8, <2>1, <2>3, <2>4
<1> QED
  BY <1>8, <1>10 DEF w

-----------------------------------------------------------------------------
(* What is said of the archive, the flags and what there was before is     *)
(* said of them for the whole run.                                         *)
LEMMA SameArchive ==
  ASSUME UNCHANGED constant
  PROVE  /\ UNCHANGED <<arc, flags, before, runs>>
         /\ Selected' = Selected
         /\ PoolSize' = PoolSize
         /\ \A i : /\ Undisturbed(i)' <=> Undisturbed(i)
                   /\ HasData(i)' <=> HasData(i)
                   /\ Whole(i)' = Whole(i)
<1>1. UNCHANGED <<arc, flags, before, runs>>
  BY DEF constant
<1>2. Selected' = Selected
  BY <1>1 DEF Selected
<1> QED
  BY <1>1, <1>2 DEF PoolSize, Undisturbed, HasData, Whole

(* A worker that runs has a slot, which it can give back.                  *)
LEMMA SlotTaken ==
  ASSUME PoolBounded, NEW i \in Running
  PROVE  slots - 1 = Cardinality(Running \ {i}) /\ slots - 1 \in Nat
<1>1. Running \subseteq Entries
  BY DEF Running
<1>2. Cardinality(Running \ {i}) = Cardinality(Running) - 1
  BY <1>1, OneLess
<1>3. Cardinality(Running \ {i}) \in Nat
  BY <1>1, EntriesFinite
<1> QED
  BY <1>2, <1>3 DEF PoolBounded

LEMMA PoolType == TypeOK => PoolSize \in Nat \ {0}
BY ThreadsAssumption DEF PoolSize

(* log.Fatal, or the process is killed: the files stay as they are.        *)
LEMMA FatalKeeps ==
  ASSUME IInv, Fatal, UNCHANGED <<constant, dest>>, pc \in {"start", "spawn"}
  PROVE  IInv'
<1> USE DEF IInv
<1>1. /\ UNCHANGED constant /\ dest' = dest
      /\ UNCHANGED <<turn, slots, work, at, outcome, skippedFiles, checksumCount, verified>>
      /\ pc' = "dead"
  BY DEF Fatal
<1>2. TypeOK'
  BY <1>1, SameArchive DEF TypeOK
<1>3. PoolBounded'
  BY <1>1, SameArchive DEF PoolBounded, Running
<1>4. InTurn'
  BY <1>1, SameArchive DEF InTurn
<1>5. Counted'
  BY <1>1, SameArchive DEF Counted, Having
<1>6. Copying'
  BY <1>1, SameArchive DEF Copying, Removed
<1>7. OwnPlace'
  BY <1>1, SameArchive DEF OwnPlace, Untouched, SoFar
<1>8. RestoredIntact'
  BY <1>1, SameArchive DEF RestoredIntact
<1> QED
  BY <1>2, <1>3, <1>4, <1>5, <1>6, <1>7, <1>8

(* A step of the loop that starts and ends nothing.                        *)
LEMMA LoopKeeps ==
  ASSUME IInv, pc' = "spawn", turn' \in 1 .. N + 1,
         \A i \in Entries : work[i] = "none" <=> (i \notin Selected \/ i >= turn'),
         pc \in {"start", "spawn"},
         UNCHANGED <<constant, dest, slots, work, at, outcome, skippedFiles, checksumCount,
                     verified>>
  PROVE  IInv'
<1> USE DEF IInv
<1>1. /\ UNCHANGED constant
      /\ UNCHANGED <<dest, slots, work, at, outcome, skippedFiles, checksumCount, verified>>
  OBVIOUS
<1>2. TypeOK'
  BY <1>1, SameArchive DEF TypeOK
<1>3. PoolBounded'
  BY <1>1, SameArchive DEF PoolBounded, Running
<1>4. InTurn'
  BY <1>1, SameArchive DEF InTurn
<1>5. Counted'
  BY <1>1, SameArchive DEF Counted, Having
<1>6. Copying'
  BY <1>1, SameArchive DEF Copying, Removed
<1>7. OwnPlace'
  BY <1>1, SameArchive DEF OwnPlace, Untouched, SoFar
<1>8. RestoredIntact'
  BY <1>1, SameArchive DEF RestoredIntact
<1> QED
  BY <1>2, <1>3, <1>4, <1>5, <1>6, <1>7, <1>8

LEMMA SpawnKeeps ==
  ASSUME IInv, Spawn
  PROVE  IInv'
<1> USE DEF IInv
<1>1. /\ UNCHANGED constant
      /\ UNCHANGED <<dest, pc, at, outcome, skippedFiles, checksumCount, verified>>
      /\ pc = "spawn" /\ turn \in Selected /\ slots < PoolSize
      /\ slots' = slots + 1 /\ turn' = turn + 1
      /\ work' = [work EXCEPT ![turn] = "begin"]
  BY DEF Spawn
<1>2. turn \in Entries /\ turn \in Int /\ N \in Int /\ work[turn] = "none"
  BY <1>1, NAssumption DEF InTurn, Selected, Entries
<1>3. work' \in [Entries -> {"none", "begin", "copy", "ended"}]
  BY <1>1, <1>2 DEF TypeOK
<1>4. \A i \in Entries : work'[i] = IF i = turn THEN "begin" ELSE work[i]
  BY <1>1, <1>2 DEF TypeOK
<1>5. TypeOK'
  <2>1. turn' \in 1 .. N + 1
    BY <1>1, <1>2 DEF Entries
  <2> QED
    BY <1>1, <1>3, <2>1, SameArchive DEF TypeOK
<1>6. PoolBounded'
  <2>1. Running' = Running \cup {turn} /\ turn \notin Running
    BY <1>2, <1>4 DEF Running
  <2>2. Cardinality(Running') = Cardinality(Running) + 1
    BY <1>2, <2>1, OneMore DEF Running
  <2> QED
    BY <1>1, <2>2, PoolType, SameArchive DEF PoolBounded, TypeOK
<1>7. InTurn'
  <2>1. \A i \in Entries : work'[i] = "none" <=> (i \notin Selected \/ i >= turn')
    BY <1>1, <1>2, <1>4 DEF InTurn, Entries
  <2> QED
    BY <1>1, <2>1, SameArchive DEF InTurn
<1>8. Counted'
  BY <1>1, <1>2, <1>4, SameArchive DEF Counted, Having
<1>9. Copying'
  BY <1>1, <1>2, <1>4, SameArchive DEF Copying, Removed
<1>10. OwnPlace'
  <2>1. ASSUME NEW i \in Selected, Undisturbed(i)
        PROVE  /\ work'[i] \in {"none", "begin"} => Untouched(i)
               /\ work'[i] = "copy" => SoFar(i)
    <3>1. i \in Entries
      BY DEF Selected
    <3>2. CASE i = turn
      BY <1>2, <1>4, <2>1, <3>1, <3>2 DEF OwnPlace
    <3>3. CASE i # turn
      BY <1>4, <2>1, <3>1, <3>3 DEF OwnPlace
    <3> QED
      BY <3>2, <3>3
  <2>2. \A i \in Selected : (Untouched(i)' <=> Untouched(i)) /\ (SoFar(i)' <=> SoFar(i))
    BY <1>1, SameArchive DEF Untouched, SoFar
  <2> QED
    BY <1>1, <2>1, <2>2, SameArchive DEF OwnPlace
<1>11. RestoredIntact'
  BY <1>1, SameArchive DEF RestoredIntact
<1> QED
  BY <1>5, <1>6, <1>7, <1>8, <1>9, <1>10, <1>11

(* wg.Wait() is over, and everything is as the workers left it.            *)
LEMMA WaitKeeps ==
  ASSUME IInv, Wait
  PROVE  IInv'
<1> USE DEF IInv
<1>1. /\ UNCHANGED constant
      /\ UNCHANGED <<dest, turn, slots, work, at, outcome, skippedFiles, checksumCount>>
      /\ pc' = "done" /\ turn = N + 1 /\ slots = 0
      /\ verified' = (flags.checksums /\ checksumCount = Cardinality(Selected) - skippedFiles)
  BY DEF Wait
<1>2. TypeOK'
  <2>1. verified' \in BOOLEAN
    BY <1>1 DEF TypeOK, FlagsType
  <2> QED
    BY <1>1, <2>1, SameArchive DEF TypeOK
<1>3. PoolBounded'
  BY <1>1, SameArchive DEF PoolBounded, Running
<1>4. InTurn'
  BY <1>1, SameArchive DEF InTurn
<1>5. Counted'
  BY <1>1, SameArchive DEF Counted, Having
<1>6. Copying'
  BY <1>1, SameArchive DEF Copying, Removed
<1>7. OwnPlace'
  BY <1>1, SameArchive DEF OwnPlace, Untouched, SoFar
<1>8. RestoredIntact'
  BY <1>1, SameArchive DEF RestoredIntact
<1> QED
  BY <1>2, <1>3, <1>4, <1>5, <1>6, <1>7, <1>8

(* The archive is extracted again: what is there is what was there before. *)
LEMMA AgainKeeps ==
  ASSUME IInv, ExtractAgain
  PROVE  IInv'
<1> USE DEF IInv
<1>1. /\ arc' = arc /\ dest' = dest /\ before' = dest
      /\ runs < MaxRuns /\ runs' = runs + 1 /\ flags' \in Flags
      /\ pc' = "start" /\ turn' = 1 /\ slots' = 0
      /\ work' = [i \in Entries |-> "none"]
      /\ at' = [i \in Entries |-> 0]
      /\ outcome' = [i \in Entries |-> "none"]
      /\ skippedFiles' = 0 /\ checksumCount' = 0 /\ verified' = FALSE
  BY DEF ExtractAgain
<1>2. TypeOK'
  <2>1. flags' \in FlagsType
    BY <1>1, FlagsAssumption
  <2>2. turn' \in 1 .. N + 1 /\ runs' \in 1 .. MaxRuns
    BY <1>1, NAssumption, MaxRunsAssumption DEF TypeOK
  <2> QED
    BY <1>1, <2>1, <2>2 DEF TypeOK, Outcomes
<1>3. PoolBounded'
  <2>1. Running' = {}
    BY <1>1 DEF Running
  <2>2. PoolSize' >= 0
    BY ThreadsAssumption DEF PoolSize
  <2> QED
    BY <1>1, <2>1, <2>2, None DEF PoolBounded
<1>4. InTurn'
  BY <1>1 DEF InTurn, Entries
<1>5. Counted'
  <2>1. Having("verified")' = {} /\ Having("skipped")' = {}
    BY <1>1 DEF Having
  <2> QED
    BY <1>1, <2>1, None DEF Counted
<1>6. Copying'
  BY <1>1 DEF Copying
<1>7. OwnPlace'
  BY <1>1 DEF OwnPlace, Untouched, Selected
<1>8. RestoredIntact'
  BY <1>1 DEF RestoredIntact, Selected
<1> QED
  BY <1>2, <1>3, <1>4, <1>5, <1>6, <1>7, <1>8

-----------------------------------------------------------------------------
(* A worker writes at the place of its own entry only: what the invariant  *)
(* says of the others, of their places and of files removed stays true.    *)
Mine(i) ==
  /\ pc = "spawn" /\ work[i] \in {"begin", "copy"}
  /\ UNCHANGED constant
  /\ dest' \in [Paths -> Seq(Nat \X Nat) \cup {Absent}]
  /\ \A p \in Paths : p # arc[i].path => dest'[p] = dest[p]
  /\ \A j \in Entries \ {i} :
       work'[j] = work[j] /\ at'[j] = at[j] /\ outcome'[j] = outcome[j]

LEMMA OthersKeep ==
  ASSUME IInv, NEW i \in Entries, Mine(i), NEW j \in Entries, j # i
  PROVE  /\ j \in Selected /\ Undisturbed(j) =>
              /\ work'[j] \in {"none", "begin"} => Untouched(j)'
              /\ work'[j] = "copy" => SoFar(j)'
              /\ outcome'[j] \in {"restored", "verified"} => dest'[arc[j].path] = Whole(j)
         /\ Removed(j) => Removed(j)'
<1> USE DEF IInv
<1>1. UNCHANGED <<arc, flags, before, runs>> /\ Selected' = Selected
  BY SameArchive DEF Mine
<1>2. i \in Selected /\ outcome[i] = "none"
  BY DEF Mine, InTurn, Counted
<1>3. ASSUME j \in Selected, Undisturbed(j)
      PROVE  /\ work'[j] \in {"none", "begin"} => Untouched(j)'
             /\ work'[j] = "copy" => SoFar(j)'
             /\ outcome'[j] \in {"restored", "verified"} => dest'[arc[j].path] = Whole(j)
  <2>1. arc[j].path # arc[i].path /\ arc[j].path \in Paths
    BY <1>2, <1>3, Types DEF Undisturbed
  <2>2. dest'[arc[j].path] = dest[arc[j].path]
    BY <2>1 DEF Mine
  <2>3. work'[j] = work[j] /\ at'[j] = at[j] /\ outcome'[j] = outcome[j]
    BY DEF Mine
  <2>4. (Untouched(j)' <=> Untouched(j)) /\ (SoFar(j)' <=> SoFar(j))
    BY <1>1, <2>2, <2>3 DEF Untouched, SoFar
  <2> QED
    BY <1>3, <2>2, <2>3, <2>4 DEF OwnPlace, RestoredIntact
<1>4. ASSUME Removed(j) PROVE Removed(j)'
  <2>1. PICK l \in Selected : arc[l].kind = "link" /\ arc[l].path = arc[j].path /\ outcome[l] = "link"
    BY <1>4 DEF Removed
  <2>2. l \in Entries \ {i}
    BY <1>2, <2>1 DEF Selected
  <2>3. outcome'[l] = "link"
    BY <2>1, <2>2 DEF Mine
  <2> QED
    BY <1>1, <1>4, <2>1, <2>3 DEF Removed
<1> QED
  BY <1>3, <1>4

(* A file that has all its blocks and no other is the archived one.        *)
LEMMA WholeFile ==
  ASSUME TypeOK, NEW i \in Entries, SoFar(i), at[i] = arc[i].blocks
  PROVE  dest[arc[i].path] = Whole(i)
<1> DEFINE s == dest[arc[i].path]
<1>1. s \in Seq(Nat \X Nat) /\ arc[i].blocks \in Nat
  BY Types DEF SoFar
<1>2. Len(s) = arc[i].blocks /\ \A k \in 1 .. arc[i].blocks : s[k] = <<i, k>>
  BY <1>1 DEF SoFar
<1>3. s = [k \in 1 .. Len(s) |-> s[k]]
  BY <1>1
<1> QED
  BY <1>2, <1>3 DEF Whole

LEMMA EndsKeeps ==
  ASSUME IInv, NEW i \in Entries, pc = "spawn", work[i] \in {"begin", "copy"}, i \in Selected,
         UNCHANGED constant, NEW how, Ends(i, how)
  PROVE  IInv'
<1> USE DEF IInv
<1>1. UNCHANGED <<arc, flags, before, runs>> /\ Selected' = Selected /\ PoolSize' = PoolSize
  BY SameArchive
<1>2. /\ UNCHANGED <<pc, turn, at, verified>>
      /\ how \in Outcomes /\ how # "none"
      /\ slots' = slots - 1
      /\ skippedFiles' = IF how = "skipped" THEN skippedFiles + 1 ELSE skippedFiles
      /\ checksumCount' = IF how = "verified" THEN checksumCount + 1 ELSE checksumCount
  BY DEF Ends, Return
<1>3. /\ work' = [work EXCEPT ![i] = "ended"]
      /\ outcome' = [outcome EXCEPT ![i] = how]
      /\ work' \in [Entries -> {"none", "begin", "copy", "ended"}]
      /\ outcome' \in [Entries -> Outcomes]
  BY <1>2 DEF Ends, Return, TypeOK
<1>4. \A j \in Entries : /\ work'[j] = IF j = i THEN "ended" ELSE work[j]
                         /\ outcome'[j] = IF j = i THEN how ELSE outcome[j]
  BY <1>3 DEF TypeOK
<1>5. Mine(i)
  BY <1>2, <1>4 DEF Mine, Ends
<1>6. outcome[i] = "none" /\ ~verified
  BY DEF Counted
<1>7. i \in Running
  BY DEF Running
<1>8. TypeOK'
  <2>1. slots' \in Nat
    BY <1>2, <1>7, SlotTaken
  <2>2. skippedFiles' \in Nat /\ checksumCount' \in Nat
    BY <1>2 DEF TypeOK
  <2> QED
    BY <1>1, <1>2, <1>3, <1>5, <2>1, <2>2 DEF TypeOK, Mine
<1>9. PoolBounded'
  <2>1. Running' = Running \ {i}
    BY <1>4 DEF Running
  <2>2. slots' = Cardinality(Running') /\ slots' \in Nat
    BY <1>2, <1>7, <2>1, SlotTaken
  <2> QED
    BY <1>1, <1>2, <2>2, PoolType DEF PoolBounded, TypeOK
<1>10. InTurn'
  BY <1>1, <1>2, <1>4 DEF InTurn
<1>11. Counted'
  <2>1. ASSUME NEW h \in {"verified", "skipped"}
        PROVE  Cardinality(Having(h)') = Cardinality(Having(h)) + (IF how = h THEN 1 ELSE 0)
    <3>1. Having(h) \subseteq Entries /\ i \notin Having(h)
      BY <1>6 DEF Having
    <3>2. CASE how = h
      <4>1. Having(h)' = Having(h) \cup {i}
        BY <1>4, <3>2 DEF Having
      <4> QED
        BY <3>1, <3>2, <4>1, OneMore
    <3>3. CASE how # h
      <4>1. Having(h)' = Having(h)
        BY <1>4, <1>6, <3>3 DEF Having
      <4> QED
        BY <3>1, <3>3, <4>1, EntriesFinite
    <3> QED
      BY <3>2, <3>3
  <2>2. /\ checksumCount' = Cardinality(Having("verified")')
        /\ skippedFiles' = Cardinality(Having("skipped")')
    <3>1. Cardinality(Having("verified")) \in Nat /\ Cardinality(Having("skipped")) \in Nat
      BY EntriesFinite DEF Having
    <3> QED
      BY <1>2, <2>1, <3>1 DEF Counted
  <2>3. \A j \in Entries : work'[j] = "ended" <=> outcome'[j] # "none"
    BY <1>2, <1>4 DEF Counted
  <2>4. /\ \A j \in Having("verified")' : arc[j].damage # "sum"
        /\ \A j \in Having("skipped")' : flags.force \/ arc[j].blocks = 0
    BY <1>4 DEF Ends, Counted, Having
  <2> QED
    BY <1>1, <1>2, <1>6, <2>2, <2>3, <2>4 DEF Counted
<1>12. Copying'
  <2>1. ASSUME NEW j \in Entries, work'[j] = "copy", dest'[arc[j].path] = Absent
        PROVE  Removed(j)'
    <3>1. j # i /\ work[j] = "copy"
      BY <1>4, <2>1
    <3>2. CASE dest[arc[j].path] = Absent
      BY <1>5, <3>1, <3>2, OthersKeep DEF Copying
    <3>3. CASE dest[arc[j].path] # Absent
      <4>1. arc[j].path = arc[i].path
        BY <2>1, <3>3, Types DEF Ends
      <4>2. flags.force /\ arc[i].kind = "link" /\ how = "link"
        BY <2>1, <3>3, <4>1 DEF Ends
      <4> QED
        BY <1>1, <1>4, <4>1, <4>2 DEF Removed
    <3> QED
      BY <3>2, <3>3
  <2> QED
    BY <1>1, <1>2, <1>4, <2>1, SameArchive DEF Copying
<1>13. OwnPlace'
  BY <1>1, <1>4, <1>5, OthersKeep, SameArchive DEF OwnPlace, Selected
<1>14. RestoredIntact'
  <2>1. ASSUME how \in {"restored", "verified"}, Undisturbed(i)
        PROVE  dest'[arc[i].path] = Whole(i)
    <3>1. dest' = dest /\ work[i] = "copy" /\ at[i] = arc[i].blocks
      BY <2>1 DEF Ends
    <3>2. SoFar(i)
      BY <2>1, <3>1 DEF OwnPlace
    <3> QED
      BY <3>1, <3>2, WholeFile
  <2>2. ASSUME NEW j \in Selected, outcome'[j] \in {"restored", "verified"}, Undisturbed(j)
        PROVE  dest'[arc[j].path] = Whole(j)
    BY <1>4, <1>5, <2>1, <2>2, OthersKeep DEF Selected
  <2> QED
    BY <1>1, <2>2, SameArchive DEF RestoredIntact
<1> QED
  BY <1>8, <1>9, <1>10, <1>11, <1>12, <1>13, <1>14

(* A file is opened: it is there, and empty unless it was there and is not *)
(* truncated.                                                              *)
LEMMA OpenKeeps ==
  ASSUME IInv, NEW i \in Entries, i \in Selected, Open(i)
  PROVE  IInv' /\ Mine(i)
<1> USE DEF IInv
<1> DEFINE p == arc[i].path
<1>1. /\ UNCHANGED constant
      /\ UNCHANGED <<pc, turn, slots, at, outcome, skippedFiles, checksumCount, verified>>
      /\ pc = "spawn" /\ work[i] = "begin" /\ HasData(i)
      /\ work' = [work EXCEPT ![i] = "copy"]
      /\ dest' = IF flags.force \/ dest[p] = Absent THEN [dest EXCEPT ![p] = << >>] ELSE dest
  BY DEF Open, Worker
<1>2. UNCHANGED <<arc, flags, before, runs>> /\ Selected' = Selected /\ PoolSize' = PoolSize
  BY <1>1, SameArchive
<1>3. work' \in [Entries -> {"none", "begin", "copy", "ended"}]
  BY <1>1 DEF TypeOK
<1>4. \A j \in Entries : work'[j] = IF j = i THEN "copy" ELSE work[j]
  BY <1>1 DEF TypeOK
<1>5. /\ p \in Paths /\ dest \in [Paths -> Seq(Nat \X Nat) \cup {Absent}]
      /\ << >> \in Seq(Nat \X Nat) /\ << >> # Absent
  <2>1. << >> \in Seq(Nat \X Nat)
    OBVIOUS
  <2>2. << >> # Absent
    BY <2>1, AbsentAssumption
  <2> QED
    BY <2>1, <2>2, Types DEF TypeOK
<1>6. /\ dest' \in [Paths -> Seq(Nat \X Nat) \cup {Absent}]
      /\ \A q \in Paths : q # p => dest'[q] = dest[q]
      /\ dest'[p] # Absent
      /\ dest'[p] = << >> \/ (dest'[p] = dest[p] /\ ~flags.force)
  <2>1. CASE flags.force \/ dest[p] = Absent
    <3>1. dest' = [dest EXCEPT ![p] = << >>]
      BY <1>1, <2>1
    <3> QED
      BY <1>5, <3>1
  <2>2. CASE ~(flags.force \/ dest[p] = Absent)
    BY <1>1, <1>5, <2>2
  <2> QED
    BY <2>1, <2>2
<1>7. Mine(i)
  BY <1>1, <1>4, <1>6 DEF Mine
<1>8. TypeOK'
  BY <1>1, <1>2, <1>3, <1>6 DEF TypeOK
<1>9. PoolBounded'
  <2>1. Running' = Running
    BY <1>1, <1>4 DEF Running
  <2> QED
    BY <1>1, <1>2, <2>1 DEF PoolBounded
<1>10. InTurn'
  BY <1>1, <1>2, <1>4 DEF InTurn
<1>11. Counted'
  BY <1>1, <1>2, <1>4 DEF Counted, Having
<1>12. at[i] = 0
  BY <1>1 DEF Copying
<1>13. Copying'
  <2>1. ASSUME NEW j \in Entries, work'[j] = "copy", dest'[arc[j].path] = Absent
        PROVE  Removed(j)'
    <3>1. arc[j].path # p /\ dest[arc[j].path] = Absent /\ j # i
      BY <1>6, <2>1, Types
    <3>2. Removed(j)
      BY <1>4, <2>1, <3>1 DEF Copying
    <3> QED
      BY <1>7, <3>1, <3>2, OthersKeep
  <2>2. \A j \in Entries : work'[j] = "copy" => HasData(j) /\ at[j] <= arc[j].blocks
    BY <1>1, <1>4, <1>12, Types DEF Copying, HasData
  <2>3. \A j \in Entries : work'[j] \in {"none", "begin"} => at[j] = 0
    BY <1>4 DEF Copying
  <2> QED
    BY <1>1, <1>2, <2>1, <2>2, <2>3, SameArchive DEF Copying
<1>14. OwnPlace'
  <2>1. ASSUME Undisturbed(i) PROVE SoFar(i)'
    <3>1. dest[p] = before[p]
      BY <1>1, <2>1 DEF OwnPlace, Untouched
    <3>2. Len(dest'[p]) \in Nat /\ Len(dest'[p]) <= arc[i].blocks
      <4>1. CASE dest'[p] = << >>
        <5>1. Len(<< >>) = 0
          OBVIOUS
        <5> QED
          BY <4>1, <5>1, Types
      <4>2. CASE dest'[p] = dest[p] /\ ~flags.force
        <5>1. dest[p] # Absent /\ dest[p] \in Seq(Nat \X Nat)
          BY <1>5, <1>6, <4>2, Types
        <5>2. Len(before[p]) <= arc[i].blocks
          BY <2>1, <3>1, <4>2, <5>1 DEF Undisturbed
        <5> QED
          BY <3>1, <4>2, <5>1, <5>2
      <4> QED
        BY <1>6, <4>1, <4>2
    <3> QED
      BY <1>1, <1>2, <1>6, <1>12, <3>2 DEF SoFar
  <2>2. ASSUME NEW j \in Selected, Undisturbed(j)
        PROVE  /\ work'[j] \in {"none", "begin"} => Untouched(j)'
               /\ work'[j] = "copy" => SoFar(j)'
    BY <1>4, <1>7, <2>1, <2>2, OthersKeep DEF Selected
  <2> QED
    BY <1>1, <1>2, <2>2, SameArchive DEF OwnPlace
<1>15. RestoredIntact'
  <2>1. i \notin {j \in Selected : outcome[j] \in {"restored", "verified"}}
    BY <1>1 DEF Counted
  <2>2. ASSUME NEW j \in Selected, outcome'[j] \in {"restored", "verified"}, Undisturbed(j)
        PROVE  dest'[arc[j].path] = Whole(j)
    BY <1>1, <1>7, <2>1, <2>2, OthersKeep DEF Selected
  <2> QED
    BY <1>1, <1>2, <2>2, SameArchive DEF RestoredIntact
<1> QED
  BY <1>7, <1>8, <1>9, <1>10, <1>11, <1>13, <1>14, <1>15

(* A block is written behind those before it.                              *)
LEMMA CopyBlockKeeps ==
  ASSUME IInv, NEW i \in Entries, i \in Selected, CopyBlock(i)
  PROVE  IInv' /\ Mine(i)
<1> USE DEF IInv
<1> DEFINE p == arc[i].path
           w == Copied(dest[p], at[i], <<i, at[i] + 1>>)
<1>1. /\ UNCHANGED constant
      /\ UNCHANGED <<pc, turn, slots, work, outcome, skippedFiles, checksumCount, verified>>
      /\ pc = "spawn" /\ work[i] = "copy" /\ at[i] < arc[i].blocks
      /\ at' = [at EXCEPT ![i] = at[i] + 1]
      /\ \/ dest[p] # Absent /\ dest' = [dest EXCEPT ![p] = w]
         \/ Removed(i) /\ dest' = dest
  BY DEF CopyBlock, Worker, Copied
<1>2. UNCHANGED <<arc, flags, before, runs>> /\ Selected' = Selected /\ PoolSize' = PoolSize
  BY <1>1, SameArchive
<1>3. /\ p \in Paths /\ dest \in [Paths -> Seq(Nat \X Nat) \cup {Absent}]
      /\ at[i] \in Nat /\ arc[i].blocks \in Nat
  BY Types DEF TypeOK
<1>4. at' \in [Entries -> Nat] /\ \A j \in Entries : at'[j] = IF j = i THEN at[i] + 1 ELSE at[j]
  BY <1>1, <1>3 DEF TypeOK
<1>5. <<i, at[i] + 1>> \in Nat \X Nat
  BY <1>3 DEF Entries
<1>6. dest[p] # Absent =>
        /\ dest[p] \in Seq(Nat \X Nat)
        /\ w \in Seq(Nat \X Nat)
        /\ at[i] <= Len(dest[p]) => /\ Len(w) = SizeAfter(Len(dest[p]), at[i], 1)
                                    /\ \A k \in 1 .. at[i] : w[k] = dest[p][k]
                                    /\ w[at[i] + 1] = <<i, at[i] + 1>>
  <2> SUFFICES ASSUME dest[p] # Absent
               PROVE  /\ dest[p] \in Seq(Nat \X Nat)
                      /\ w \in Seq(Nat \X Nat)
                      /\ at[i] <= Len(dest[p]) =>
                           /\ Len(w) = SizeAfter(Len(dest[p]), at[i], 1)
                           /\ \A k \in 1 .. at[i] : w[k] = dest[p][k]
                           /\ w[at[i] + 1] = <<i, at[i] + 1>>
    OBVIOUS
  <2>1. dest[p] \in Seq(Nat \X Nat)
    BY <1>3
  <2> QED
    BY <1>3, <1>5, <2>1, CopiedBlock, ZenonT(60)
<1> HIDE DEF w
<1>7. /\ dest' \in [Paths -> Seq(Nat \X Nat) \cup {Absent}]
      /\ \A q \in Paths : q # p => dest'[q] = dest[q]
      /\ dest'[p] = Absent => dest[p] = Absent
      /\ dest[p] # Absent /\ ~Removed(i) => dest'[p] = w
  BY <1>1, <1>3, <1>6, AbsentAssumption
<1>8. Mine(i)
  BY <1>1, <1>4, <1>7 DEF Mine
<1>9. TypeOK'
  BY <1>1, <1>2, <1>4, <1>7 DEF TypeOK
<1>10. PoolBounded'
  BY <1>1, <1>2 DEF PoolBounded, Running
<1>11. InTurn'
  BY <1>1, <1>2 DEF InTurn
<1>12. Counted'
  BY <1>1, <1>2 DEF Counted, Having
<1>13. Copying'
  <2>1. ASSUME NEW j \in Entries, work[j] = "copy", dest'[arc[j].path] = Absent
        PROVE  Removed(j)'
    <3>1. dest[arc[j].path] = Absent
      BY <1>7, <2>1, Types
    <3>2. Removed(j)
      BY <2>1, <3>1 DEF Copying
    <3>3. Removed(i) => Removed(i)'
      BY <1>1, <1>2 DEF Removed
    <3> QED
      BY <1>8, <3>2, <3>3, OthersKeep
  <2>2. \A j \in Entries : work[j] = "copy" => HasData(j) /\ at'[j] <= arc[j].blocks
    BY <1>1, <1>3, <1>4 DEF Copying
  <2>3. \A j \in Entries : work[j] \in {"none", "begin"} => at'[j] = 0
    BY <1>1, <1>4 DEF Copying
  <2> QED
    BY <1>1, <1>2, <2>1, <2>2, <2>3, SameArchive DEF Copying
<1>14. OwnPlace'
  <2>1. ASSUME Undisturbed(i) PROVE SoFar(i)'
    <3>1. SoFar(i)
      BY <1>1, <2>1 DEF OwnPlace
    <3>2. ~Removed(i)
      BY <1>1, <2>1 DEF Removed, Undisturbed, Copying, HasData
    <3>3. dest'[p] = w
      BY <1>7, <3>1, <3>2 DEF SoFar
    <3>4. Len(w) \in Nat /\ at[i] + 1 <= Len(w) /\ Len(w) <= arc[i].blocks
      <4>1. /\ Len(dest[p]) \in Nat /\ at[i] <= Len(dest[p]) /\ Len(dest[p]) <= arc[i].blocks
            /\ Len(w) = SizeAfter(Len(dest[p]), at[i], 1)
        BY <1>6, <3>1 DEF SoFar
      <4> QED
        BY <1>1, <1>3, <4>1 DEF SizeAfter
    <3>5. ASSUME NEW k \in 1 .. at[i] + 1 PROVE w[k] = <<i, k>>
      <4>1. CASE k = at[i] + 1
        BY <1>6, <3>1, <4>1 DEF SoFar
      <4>2. CASE k # at[i] + 1
        <5>1. k \in 1 .. at[i]
          BY <1>3, <4>2
        <5> QED
          BY <1>6, <3>1, <5>1 DEF SoFar
      <4> QED
        BY <4>1, <4>2
    <3>6. w # Absent
      BY <1>6, <3>1, AbsentAssumption DEF SoFar
    <3> QED
      BY <1>2, <1>4, <3>3, <3>4, <3>5, <3>6 DEF SoFar
  <2>2. ASSUME NEW j \in Selected, Undisturbed(j)
        PROVE  /\ work'[j] \in {"none", "begin"} => Untouched(j)'
               /\ work'[j] = "copy" => SoFar(j)'
    BY <1>1, <1>8, <2>1, <2>2, OthersKeep DEF Selected
  <2> QED
    BY <1>1, <1>2, <2>2, SameArchive DEF OwnPlace
<1>15. RestoredIntact'
  <2>1. i \notin {j \in Selected : outcome[j] \in {"restored", "verified"}}
    BY <1>1 DEF Counted
  <2>2. ASSUME NEW j \in Selected, outcome'[j] \in {"restored", "verified"}, Undisturbed(j)
        PROVE  dest'[arc[j].path] = Whole(j)
    BY <1>1, <1>8, <2>1, <2>2, OthersKeep DEF Selected
  <2> QED
    BY <1>1, <1>2, <2>2, SameArchive DEF RestoredIntact
<1> QED
  BY <1>8, <1>9, <1>10, <1>11, <1>12, <1>13, <1>14, <1>15

-----------------------------------------------------------------------------
(* Every step keeps the invariant.                                         *)
LEMMA InvariantStep == IInv /\ [Next]_vars => IInv'
<1> SUFFICES ASSUME IInv, [Next]_vars PROVE IInv'
  OBVIOUS
<1>0. turn \in Int /\ turn \in 1 .. N + 1 /\ N \in Nat
  BY NAssumption, Types DEF IInv, TypeOK
<1>1. CASE Start
  <2>1. UNCHANGED <<constant, dest>> /\ pc = "start"
    BY <1>1 DEF Start
  <2>2. CASE Fatal
    BY <2>1, <2>2, FatalKeeps
  <2>3. CASE ~Fatal
    <3>1. /\ pc' = "spawn"
          /\ UNCHANGED <<turn, slots, work, at, outcome, skippedFiles, checksumCount, verified>>
      BY <1>1, <2>3 DEF Start
    <3>2. \A i \in Entries : work[i] = "none" <=> (i \notin Selected \/ i >= turn')
      BY <3>1 DEF IInv, InTurn
    <3> QED
      BY <1>0, <2>1, <3>1, <3>2, LoopKeeps
  <2> QED
    BY <2>2, <2>3
<1>2. CASE PassOver
  <2>1. /\ UNCHANGED <<constant, dest, pc, slots, work, at, outcome, skippedFiles,
                       checksumCount, verified>>
        /\ pc = "spawn" /\ turn' = turn + 1 /\ turn \in Entries \ Selected
    BY <1>2 DEF PassOver
  <2>2. turn' \in 1 .. N + 1
    BY <1>0, <2>1 DEF Entries
  <2>3. \A i \in Entries : work[i] = "none" <=> (i \notin Selected \/ i >= turn')
    BY <1>0, <2>1 DEF IInv, InTurn, Entries
  <2> QED
    BY <2>1, <2>2, <2>3, LoopKeeps
<1>3. CASE Spawn
  BY <1>3, SpawnKeeps
<1>4. CASE Wait
  BY <1>4, WaitKeeps
<1>5. ASSUME NEW i \in Entries, ExtractFile(i)
      PROVE  IInv'
  <2>1. CASE Fatal /\ dest' = dest
    BY <1>5, <2>1, WorkerStep, FatalKeeps
  <2>2. ASSUME NEW how, Ends(i, how) PROVE IInv'
    BY <1>5, <2>2, WorkerStep, EndsKeeps
  <2>3. CASE Open(i)
    BY <1>5, <2>3, WorkerStep, OpenKeeps
  <2>4. CASE CopyBlock(i)
    BY <1>5, <2>4, WorkerStep, CopyBlockKeeps
  <2> QED
    BY <1>5, <2>1, <2>2, <2>3, <2>4, WorkerStep
<1>6. CASE Crash
  BY <1>6, FatalKeeps DEF Crash
<1>7. CASE ExtractAgain
  BY <1>7, AgainKeeps
<1>8. CASE UNCHANGED vars
  <2>1. UNCHANGED <<arc, flags, before, runs, dest, pc, turn, slots, work, at, outcome,
                    skippedFiles, checksumCount, verified>>
    BY <1>8 DEF vars, constant
  <2>2. TypeOK' /\ PoolBounded' /\ InTurn'
    BY <2>1 DEF IInv, TypeOK, PoolBounded, InTurn, Running, Selected, PoolSize
  <2>3. Counted' /\ Copying'
    BY <2>1 DEF IInv, Counted, Having, Copying, Selected, HasData, Removed
  <2>4. OwnPlace'
    BY <1>8, <2>1, SameArchive DEF IInv, OwnPlace, Untouched, SoFar, vars
  <2>5. RestoredIntact'
    BY <1>8, <2>1, SameArchive DEF IInv, RestoredIntact, vars
  <2> QED
    BY <2>2, <2>3, <2>4, <2>5 DEF IInv
<1> QED
  BY <1>1, <1>2, <1>3, <1>4, <1>5, <1>6, <1>7, <1>8 DEF Next, Loop, Ended

(* The inductive invariant: what every state of extract satisfies, however *)
(* often it is killed and run again.                                       *)
THEOREM Invariant == Spec => []IInv
BY InvariantInit, InvariantStep, PTL DEF Spec

(* Every variable has its type, in every run over every archive.           *)
THEOREM TypeCorrect == Spec => []TypeOK
<1>1. IInv => TypeOK
  BY DEF IInv
<1> QED
  BY <1>1, Invariant, PTL

(* However many entries and threads there are: the slots taken are the     *)
(* workers running, and the pool is never exceeded.                        *)
THEOREM PoolNeverExceeded == Spec => []PoolBounded
<1>1. IInv => PoolBounded
  BY DEF IInv
<1> QED
  BY <1>1, Invariant, PTL

(* wg.Wait() misses nobody.                                                *)
LEMMA DoneIsSettled == IInv => DoneMeansSettled
<1> SUFFICES ASSUME IInv, pc = "done", NEW i \in Entries
             PROVE  work[i] = IF i \in Selected THEN "ended" ELSE "none"
  BY DEF DoneMeansSettled
<1>1. turn = N + 1 /\ slots = 0
  BY DEF IInv, InTurn
<1>2. Running = {}
  <2>1. Running \subseteq Entries /\ Cardinality(Running) = 0
    BY <1>1 DEF IInv, PoolBounded, Running
  <2> QED
    BY <2>1, EntriesFinite, FS_EmptySet
<1>3. work[i] \in {"none", "begin", "copy", "ended"} /\ work[i] \notin {"begin", "copy"}
  BY <1>2 DEF IInv, TypeOK, Running
<1>4. work[i] = "none" <=> i \notin Selected
  BY <1>1, NAssumption DEF IInv, InTurn, Entries
<1> QED
  BY <1>3, <1>4

(* When wg.Wait() returns, every selected entry has its outcome and no     *)
(* other entry has one: the wait misses nobody.                            *)
THEOREM WaitMissesNobody == Spec => []DoneMeansSettled
BY DoneIsSettled, Invariant, PTL

(* Every file restored at a place of its own is the archived one, whole,   *)
(* whatever the other workers, a log.Fatal or an earlier run did.          *)
THEOREM FilesRestoredIntact == Spec => []RestoredIntact
<1>1. IInv => RestoredIntact
  BY DEF IInv
<1> QED
  BY <1>1, Invariant, PTL

(* The two counters can only add up to the number of selected entries when *)
(* every one of these was either verified or skipped.                      *)
LEMMA VerifiedMeansAll == IInv => VerifiedIsHonest
<1> SUFFICES ASSUME IInv, verified
             PROVE  \A i \in Selected :
                      \/ outcome[i] = "verified" /\ arc[i].damage # "sum"
                      \/ outcome[i] = "skipped" /\ (flags.force \/ arc[i].blocks = 0)
  BY DEF VerifiedIsHonest
<1> DEFINE V == Having("verified")
           S == Having("skipped")
<1>1. pc = "done" /\ checksumCount = Cardinality(Selected) - skippedFiles
  BY DEF IInv, Counted
<1>2. checksumCount = Cardinality(V) /\ skippedFiles = Cardinality(S)
  BY DEF IInv, Counted
<1>3. V \subseteq Entries /\ S \subseteq Entries /\ V \cap S = {} /\ Selected \subseteq Entries
  BY DEF Having, Selected
<1>4. V \cup S \subseteq Selected
  <2>1. \A i \in V \cup S : i \in Entries /\ outcome[i] # "none"
    BY DEF Having
  <2>2. \A i \in V \cup S : work[i] = "ended"
    BY <2>1 DEF IInv, Counted
  <2> QED
    BY <1>1, <2>1, <2>2, DoneIsSettled DEF DoneMeansSettled
<1>5. Cardinality(V \cup S) = Cardinality(Selected)
  <2>1. IsFiniteSet(V) /\ IsFiniteSet(S) /\ Cardinality(V) \in Nat /\ Cardinality(S) \in Nat
    BY <1>3, EntriesFinite
  <2>2. Cardinality(V \cap S) = 0
    BY <1>3, None
  <2>3. Cardinality(V \cup S) = Cardinality(V) + Cardinality(S) - Cardinality(V \cap S)
    BY <2>1, FS_Union
  <2>4. Cardinality(Selected) \in Nat
    BY <1>3, EntriesFinite
  <2> HIDE DEF V, S
  <2> QED
    BY <1>1, <1>2, <2>1, <2>2, <2>3, <2>4
<1>6. V \cup S = Selected
  <2>1. IsFiniteSet(Selected)
    BY <1>3, EntriesFinite
  <2> QED
    BY <1>4, <1>5, <2>1, FS_Subset
<1> QED
  BY <1>6 DEF IInv, Counted, Having

(* "All checksums verified." is never said of an archive of which it is    *)
(* not true.                                                               *)
THEOREM HonestMessage == Spec => []VerifiedIsHonest
BY VerifiedMeansAll, Invariant, PTL

-----------------------------------------------------------------------------
(* That extract does what RestoredTree promises: every step is a step of   *)
(* the promise, or none.                                                   *)
Content == [i \in Entries |-> Whole(i)]
Place == [i \in Entries |-> arc[i].path]
Restored == {i \in Selected : outcome[i] \in {"restored", "verified"} /\ Undisturbed(i)}

LEMMA PromiseInit == Init => Promise!Init
BY DEF Init, Promise!Init, Selected

LEMMA SameContent ==
  ASSUME UNCHANGED constant
  PROVE  Content' = Content /\ Place' = Place /\ Selected' = Selected
BY SameArchive DEF Content, Place

(* The loop and a log.Fatal leave the files and their outcomes alone.      *)
LEMMA IdleStutters ==
  ASSUME UNCHANGED <<constant, dest, outcome>>
  PROVE  UNCHANGED Promise!vars
<1>1. Restored' = Restored
  BY SameArchive DEF Restored
<1> QED
  BY <1>1, SameContent DEF Promise!vars, Content, Place, Restored

(* A worker at the place of its own: no other entry there is restored.     *)
LEMMA OwnTouches ==
  ASSUME IInv, NEW i \in Selected, Mine(i), Restored' = Restored
  PROVE  Promise!Touch(i)
<1>1. i \in Entries /\ outcome[i] = "none" /\ UNCHANGED constant
  BY DEF IInv, Counted, Mine, Selected
<1>2. \A j \in Restored : Place[j] # Place[i]
  BY <1>1 DEF Restored, Undisturbed, Place, Selected
<1>3. DOMAIN dest' = DOMAIN dest /\ DOMAIN dest = Paths
  BY DEF Mine, IInv, TypeOK
<1>4. \A p \in DOMAIN dest : p # Place[i] => dest'[p] = dest[p]
  BY <1>1, <1>3 DEF Mine, Place
<1> QED
  BY <1>1, <1>2, <1>3, <1>4, SameContent DEF Promise!Touch, Content, Place, Restored

(* A worker that ends: its entry counts as restored, or the place of it    *)
(* may have been touched.                                                  *)
LEMMA EndsRefines ==
  ASSUME IInv, NEW i \in Selected, pc = "spawn", work[i] \in {"begin", "copy"},
         UNCHANGED constant, NEW how, Ends(i, how)
  PROVE  Promise!Touch(i) \/ Promise!Restore(i) \/ UNCHANGED Promise!vars
<1>1. i \in Entries /\ outcome[i] = "none"
  BY DEF IInv, Counted, Selected
<1>2. \A j \in Entries : /\ work'[j] = IF j = i THEN "ended" ELSE work[j]
                         /\ outcome'[j] = IF j = i THEN how ELSE outcome[j]
                         /\ at'[j] = at[j]
  BY <1>1 DEF Ends, Return, IInv, TypeOK
<1>3. Restored' = IF how \in {"restored", "verified"} /\ Undisturbed(i)
                  THEN Restored \cup {i} ELSE Restored
  <2>1. \A j \in Selected : j \in Entries
    BY DEF Selected
  <2> QED
    BY <1>1, <1>2, <2>1, SameArchive DEF Restored
<1>4. CASE how \in {"restored", "verified"}
  <2>1. dest' = dest /\ work[i] = "copy" /\ at[i] = arc[i].blocks
    BY <1>4 DEF Ends
  <2>2. CASE Undisturbed(i)
    <3>1. dest[arc[i].path] = Whole(i)
      BY <1>1, <2>1, <2>2, WholeFile DEF IInv, OwnPlace
    <3>2. dest[Place[i]] = Content[i]
      BY <1>1, <3>1 DEF Place, Content
    <3> QED
      BY <1>3, <1>4, <2>1, <2>2, <3>2, SameContent DEF Promise!Restore, Content, Place, Restored
  <2>3. CASE ~Undisturbed(i)
    BY <1>3, <2>1, <2>3, SameContent DEF Promise!vars, Content, Place, Restored
  <2> QED
    BY <2>2, <2>3
<1>5. CASE how \notin {"restored", "verified"}
  <2>1. Mine(i)
    BY <1>2 DEF Mine, Ends
  <2> QED
    BY <1>3, <1>5, <2>1, OwnTouches
<1> QED
  BY <1>4, <1>5

LEMMA PromiseStep == IInv /\ [Next]_vars => [Promise!Next]_Promise!vars
<1> SUFFICES ASSUME IInv, [Next]_vars
             PROVE  Promise!Next \/ UNCHANGED Promise!vars
  OBVIOUS
<1>1. CASE Loop
  <2>1. UNCHANGED <<constant, dest, outcome>>
    BY <1>1 DEF Loop, Start, PassOver, Spawn, Wait, Fatal
  <2> QED
    BY <2>1, IdleStutters
<1>2. ASSUME NEW i \in Entries, ExtractFile(i)
      PROVE  Promise!Next \/ UNCHANGED Promise!vars
  <2>1. i \in Selected /\ UNCHANGED constant
    BY <1>2, WorkerStep
  <2>2. CASE Fatal /\ dest' = dest
    BY <2>1, <2>2, IdleStutters DEF Fatal
  <2>3. ASSUME NEW how, Ends(i, how) PROVE Promise!Next \/ UNCHANGED Promise!vars
    <3>1. Promise!Touch(i) \/ Promise!Restore(i) \/ UNCHANGED Promise!vars
      BY <1>2, <2>1, <2>3, WorkerStep, EndsRefines
    <3> QED
      BY <2>1, <3>1 DEF Promise!Next
  <2>4. CASE Open(i) \/ CopyBlock(i)
    <3>1. Mine(i) /\ outcome' = outcome
      BY <2>1, <2>4, OpenKeeps, CopyBlockKeeps DEF Open, CopyBlock
    <3>2. Restored' = Restored
      BY <2>1, <3>1, SameArchive DEF Restored
    <3>3. Promise!Touch(i)
      BY <2>1, <3>1, <3>2, OwnTouches
    <3> QED
      BY <2>1, <3>3 DEF Promise!Next
  <2> QED
    BY <1>2, <2>2, <2>3, <2>4, WorkerStep
<1>3. CASE Crash
  BY <1>3, IdleStutters DEF Crash, Fatal
<1>4. CASE ExtractAgain
  <2>1. arc' = arc /\ dest' = dest /\ outcome' = [j \in Entries |-> "none"]
    BY <1>4 DEF ExtractAgain
  <2>2. Selected' = Selected /\ Content' = Content /\ Place' = Place
    BY <2>1 DEF Selected, Content, Place, Whole
  <2>3. Restored' = {}
    BY <2>1, <2>2 DEF Restored, Selected
  <2>4. Promise!BeginAgain
    BY <2>1, <2>2, <2>3 DEF Promise!BeginAgain, Content, Place, Restored
  <2> QED
    BY <2>4 DEF Promise!Next
<1>5. CASE UNCHANGED vars
  BY <1>5, IdleStutters DEF vars
<1> QED
  BY <1>1, <1>2, <1>3, <1>4, <1>5 DEF Next, Ended

(* extract implements RestoredTree: only the places of selected entries    *)
(* are touched, and never that of one already restored.                    *)
THEOREM RestoresATree == Spec => RestoresTree
<1>1. Spec => Promise!Init
  BY PromiseInit DEF Spec
<1> QED
  BY <1>1, PromiseStep, Invariant, PTL DEF Spec, RestoresTree, Promise!Spec
=============================================================================
