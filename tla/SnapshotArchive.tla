-------------------------- MODULE SnapshotArchive --------------------------
(***************************************************************************)
(* What create (create.go) promises about the archive it writes while the  *)
(* source files may be changing under it.  Every archived file is one      *)
(* whole version of its source, the version current at one moment of the   *)
(* run; and a reader sees either no archive at all or the complete one,    *)
(* wherever the run is cut short.                                          *)
(***************************************************************************)
EXTENDS Integers, Sequences

CONSTANTS Entries,    \* the entries walkPaths found, 1 .. N
          Regular,    \* those that are regular files
          Missing,    \* what is under a path that names no file
          Nothing     \* neither a file's data nor an archive

VARIABLES path,       \* the source files: version and size under each path
          taken,      \* the data taken of each entry so far, or Nothing
          archive     \* what a reader accepts: all the data, or Nothing

vars == <<path, taken, archive>>

(* The data of a version of file i, one unit after the other.              *)
Content(i, file) == [k \in 1 .. file.size |-> <<i, file.ver, k>>]

Init ==
  /\ taken = [i \in Entries |-> Nothing]
  /\ archive = Nothing

(* Somebody changes a source file.                                         *)
SourceChange ==
  /\ path' # path
  /\ UNCHANGED <<taken, archive>>

(* File i is taken, whole and as it is at this moment, in entry order.     *)
Take(i) ==
  /\ path[i] # Missing
  /\ \A j \in Regular : j >= i => taken[j] = Nothing
  /\ taken' = [taken EXCEPT ![i] = Content(i, path[i])]
  /\ UNCHANGED <<path, archive>>

(* The archive appears, complete, in one step.                             *)
Commit ==
  /\ archive = Nothing
  /\ \A i \in Regular : taken[i] # Nothing
  /\ archive' = taken
  /\ UNCHANGED <<path, taken>>

Next == SourceChange \/ (\E i \in Regular : Take(i)) \/ Commit

Spec == Init /\ [][Next]_vars
=============================================================================
