----------------------------- MODULE TarArchive -----------------------------
(***************************************************************************)
(* The other format (tar.go): createTar walks the tree on its own, with    *)
(* filepath.Walk, and stores what it meets as it goes; extractTar puts it  *)
(* back, entry by entry, without looking ahead.  The paths, the tree and   *)
(* what happens to it meanwhile are those of WalkTree, which this module   *)
(* runs for the format goxa.                                               *)
(*                                                                         *)
(* An entry is its header and its data in one.  A file whose size changes  *)
(* while it is copied has too much data for its header, or too little.     *)
(* Modes matter where they forbid to write: directories made with such a   *)
(* mode take no more entries.  Sizes, times and owners are left out.       *)
(***************************************************************************)
EXTENDS WalkTree

CONSTANTS Formats,   \* those to consider, of "goxa" and "tar"
          Locked,    \* the nodes whose mode lets their owner not write
          Optioned   \* the options -p and -o to consider, for both commands

OptionsType == [kept : BOOLEAN,     \* the archive is created with -p
                perms : BOOLEAN,    \* it is extracted with -p
                special : BOOLEAN]  \* it is extracted with -o

NoOptions == [kept |-> FALSE, perms |-> FALSE, special |-> FALSE]

ASSUME RootAssumption == << >> \in Nodes => Tree[<< >>] = "dir"
ASSUME FormatsAssumption == Formats \subseteq {"goxa", "tar"}
ASSUME LockedAssumption == Locked \subseteq Nodes
ASSUME OptionedAssumption == Optioned \subseteq OptionsType

VARIABLES
  at,       \* "goxa", or where createTar, then extractTar, is
  options,  \* -p and -o
  names,    \* the paths filepath.Walk has still to visit below the root
  stored,   \* the entries of the archive
  lacking,  \* the last one lacks data its header announces
  next,     \* the entry extractTar is at
  placed    \* what is on the disk it extracts to, by place

archive == <<stored, lacking>>
disk == <<next, placed>>
tarVars == <<at, options, names, archive, disk>>

-----------------------------------------------------------------------------
(* createTar.                                                              *)
Storing == at = "walk" /\ names # << >>
here == Head(names)
Present == Node(here) \in there
Kind == Tree[Node(here)]

(* info.Name() of a path as it is: "." and ".." begin with a dot as well.  *)
HiddenName(p) ==
  IF p.parts = << >> THEN ~p.abs ELSE Last(p.parts) \in Hidden \cup {Up}
LeavesOut(p) ==
  \/ ~flags.invis /\ HiddenName(p)
  \/ Kind \notin {"file", "symlink", "dir"} /\ ~flags.special

TarRoot ==
  /\ at = "arg"
  /\ arg <= Len(args)
  /\ names' = <<root>>
  /\ at' = "walk"
  /\ UNCHANGED <<tree, arg, options, archive, disk>>

TarGives(to) ==
  /\ at' = to
  /\ UNCHANGED <<tree, arg, options, names, archive, disk>>

(* Lstat, or the reading of a directory, fails.                            *)
TarGone ==
  /\ Storing
  /\ ~Present
  /\ TarGives("failed")

(* Mutant of TarLeaveOut: SkipDir for a file too, which leaves out what    *)
(* follows it in its directory.                                            *)
TarLeaveOutSkipDir ==
  /\ Storing /\ Present
  /\ LeavesOut(here)
  /\ names' = IF Kind = "dir" \/ here = root THEN Tail(names)
              ELSE SelectSeq(Tail(names), LAMBDA p : ~Below(Dir(here), p))
  /\ UNCHANGED <<tree, arg, at, options, archive, disk>>

(* What is hidden, and a directory with all that is below it; roots are no *)
(* exception.                                                              *)
TarLeaveOut ==
  /\ Storing /\ Present
  /\ LeavesOut(here)
  /\ names' = Tail(names)
  /\ UNCHANGED <<tree, arg, at, options, archive, disk>>

(* WriteHeader, which wants the data of the entry before to be complete.   *)
Entry == [path |-> Stored(here), src |-> here, node |-> Node(here)]
Wanted == Storing /\ Present /\ ~LeavesOut(here)

TarHeaderFails ==
  /\ Wanted /\ lacking
  /\ TarGives("failed")

TarStore ==
  /\ Wanted /\ ~lacking
  /\ stored' = Append(stored, Entry)
  /\ names' = (IF Kind = "dir" THEN Children(here) ELSE << >>) \o Tail(names)
  /\ UNCHANGED <<tree, arg, at, options, lacking, disk>>

(* The file has shrunk, or grown, since Lstat: io.Copy ends too early, or  *)
(* is stopped.                                                             *)
Resized == MayChange /\ Kind = "file" /\ steady' = steady \ {Node(here)}

TarStoreShrunk ==
  /\ Wanted /\ ~lacking
  /\ Resized
  /\ stored' = Append(stored, Entry)
  /\ names' = Tail(names)
  /\ lacking' = TRUE
  /\ UNCHANGED <<there, ever, arg, at, options, disk>>

TarStoreGrown ==
  /\ Wanted /\ ~lacking
  /\ Resized
  /\ at' = "failed"
  /\ UNCHANGED <<there, ever, arg, options, names, archive, disk>>

TarRootEnds ==
  /\ at = "walk"
  /\ names = << >>
  /\ arg' = arg + 1
  /\ at' = "arg"
  /\ UNCHANGED <<tree, options, names, archive, disk>>

(* createTar returns nil.  That tw.Close finds data lacking is not seen.   *)
(* What -p was given to it, and -p and -o to extractTar, shows from here.  *)
TarEnds ==
  /\ at = "arg"
  /\ arg > Len(args)
  /\ at' = "untar"
  /\ options' \in Optioned
  /\ UNCHANGED <<tree, arg, names, archive, disk>>

CreateTar ==
  \/ TarRoot \/ TarGone \/ TarLeaveOut \/ TarHeaderFails
  \/ TarStore \/ TarStoreShrunk \/ TarStoreGrown \/ TarRootEnds \/ TarEnds

-----------------------------------------------------------------------------
(* extractTar, where nothing is but the root directory, by a user whom     *)
(* modes bind.  A mode that was not kept is 0.                             *)
entry == stored[next]
Untarring == at = "untar" /\ next <= Len(stored)
Target == Place(entry.path)
Cut == lacking /\ next = Len(stored)
ModeLocks == options.perms /\ (~options.kept \/ entry.node \in Locked)

Missing(p) == Prefixes(p.parts) \ DOMAIN placed
Thing(kind, locked) == [kind |-> kind, locked |-> locked, node |-> << >>]

(* os.MkdirAll: all that is missing gets the same mode, so that one which  *)
(* forbids to write stops it at the second directory.                      *)
CanMakeAll(p, locked) ==
  /\ \A q \in Prefixes(p.parts) \cap DOMAIN placed :
       placed[q].kind = "dir" /\ (Missing(p) # {} => ~placed[q].locked)
  /\ locked => Cardinality(Missing(p)) <= 1
MadeAll(p, locked) ==
  [q \in DOMAIN placed \cup Prefixes(p.parts) |->
     IF q \in DOMAIN placed THEN placed[q] ELSE Thing("dir", locked)]

Put(p, kind, locked) ==
  LET made == MadeAll(Dir(p), FALSE)
  IN [q \in DOMAIN made \cup {p.parts} |->
        IF q = p.parts THEN [kind |-> kind, locked |-> locked, node |-> entry.node]
        ELSE made[q]]

NextEntry(now) ==
  /\ placed' = now
  /\ next' = next + 1
  /\ UNCHANGED <<tree, arg, at, options, names, archive>>

UntarDir ==
  /\ Untarring /\ Target.legal
  /\ Tree[entry.node] = "dir"
  /\ CanMakeAll(Target.path, ModeLocks)
  /\ NextEntry(MadeAll(Target.path, ModeLocks))

(* Mutant of UntarSkips: a link that is not wanted ends the loop.          *)
UntarSkipsRest ==
  /\ Untarring /\ Target.legal
  /\ Tree[entry.node] = "symlink" /\ ~options.special
  /\ next' = Len(stored) + 1
  /\ UNCHANGED <<tree, arg, at, options, names, archive, placed>>

UntarSkips ==
  /\ Untarring /\ Target.legal
  /\ Tree[entry.node] = "symlink" /\ ~options.special
  /\ NextEntry(placed)

(* os.Symlink wants its place free.  A directory that is made for it takes *)
(* entries.                                                                *)
Writable(p) == p.parts \in DOMAIN placed => ~placed[p.parts].locked
CanLink ==
  /\ CanMakeAll(Dir(Target.path), FALSE)
  /\ Target.path.parts \notin DOMAIN placed
  /\ Writable(Dir(Target.path))
UntarSymlink ==
  /\ Untarring /\ Target.legal
  /\ Tree[entry.node] = "symlink" /\ options.special
  /\ CanLink
  /\ NextEntry(Put(Target.path, "symlink", FALSE))

(* Everything else becomes a regular file, or is written over the one that *)
(* is there, whose mode stays.  That a link there is followed is left out. *)
Regular == Tree[entry.node] \notin {"dir", "symlink"}
Again == Target.path.parts \in DOMAIN placed
CanWriteOver == placed[Target.path.parts].kind = "file" /\ ~placed[Target.path.parts].locked

(* Mutant of CanOpen: the directories above are not made first.            *)
CanOpenBelow ==
  IF Again THEN CanWriteOver
  ELSE Dir(Target.path).parts \in DOMAIN placed /\ Writable(Dir(Target.path))

CanOpen ==
  /\ CanMakeAll(Dir(Target.path), FALSE)
  /\ IF Again THEN CanWriteOver ELSE Writable(Dir(Target.path))
UntarFile ==
  /\ Untarring /\ Target.legal
  /\ Regular /\ CanOpen /\ ~Cut
  /\ NextEntry(Put(Target.path, "file", ModeLocks /\ ~Again))

UntarFails ==
  /\ Untarring
  /\ \/ ~Target.legal
     \/ Target.legal /\ Tree[entry.node] = "dir" /\ ~CanMakeAll(Target.path, ModeLocks)
     \/ Target.legal /\ Tree[entry.node] = "symlink" /\ options.special /\ ~CanLink
     \/ Target.legal /\ Regular /\ (~CanOpen \/ Cut)
  /\ TarGives("refused")

UntarEnds ==
  /\ at = "untar"
  /\ next > Len(stored)
  /\ TarGives("restored")

ExtractTar ==
  UntarDir \/ UntarSkips \/ UntarSymlink \/ UntarFile \/ UntarFails \/ UntarEnds

-----------------------------------------------------------------------------
TarInit ==
  /\ Init
  /\ at \in {IF format = "tar" THEN "arg" ELSE "goxa" : format \in Formats}
  /\ options = NoOptions
  /\ names = << >>
  /\ stored = << >> /\ lacking = FALSE
  /\ next = 1
  /\ placed = [p \in {<< >>} |-> Thing("dir", FALSE)]

TarNext ==
  \/ at = "goxa" /\ Next /\ UNCHANGED tarVars
  \/ at \in {"arg", "walk"} /\ Others /\ UNCHANGED tarVars
  \/ (CreateTar \/ ExtractTar) /\ UNCHANGED <<flags, args, todo, states, files, dirs, pc>>
  \/ at \in {"failed", "refused", "restored"} /\ UNCHANGED <<vars, tarVars>>

TarSpec == TarInit /\ [][TarNext]_<<vars, tarVars>>

-----------------------------------------------------------------------------
(* Path p of root i is what the command line asks createTar for.           *)
TarAsked(i, n) ==
  LET r == Clean(args[i]) IN
  /\ IsPrefix(Node(r), n)
  /\ flags.invis \/ (~HiddenName(r) /\
       Range(SubSeq(n, Len(Node(r)) + 1, Len(n))) \cap Hidden = {})
  /\ Tree[n] \in {"file", "symlink", "dir"} \/ flags.special

(* An archive that createTar calls complete misses nothing: each file,     *)
(* link and directory that stayed as it was all along is an entry, under   *)
(* its stored name.                                                        *)
NothingMissedTar ==
  at = "untar" /\ next = 1 => \A i \in DOMAIN args, n \in steady :
    TarAsked(i, n) =>
      \E k \in DOMAIN stored :
        stored[k] = [path |-> StoredOf(i, n), src |-> PathOf(i, n), node |-> n]

(* What extractTar restores is the whole archive: when it ends without an  *)
(* error every file and directory that was stored is in its place, the     *)
(* links too if they were asked for, and nothing else but the way there.   *)
RestoresAll ==
  at = "restored" /\ Apart =>
    /\ \A k \in DOMAIN stored :
         LET n == stored[k].node
             p == Place(stored[k].path).path.parts
         IN Tree[n] # "symlink" \/ options.special =>
              /\ p \in DOMAIN placed
              /\ Tree[n] = "dir" <=> placed[p].kind = "dir"
              /\ Tree[n] # "dir" => placed[p].node = n
    /\ \A p \in DOMAIN placed : placed[p].kind # "dir" =>
         \E k \in DOMAIN stored : Place(stored[k].path).path.parts = p

(* Whatever createTar calls complete can be extracted into an empty        *)
(* destination.  It takes what OwnPlace takes, that the last file did not  *)
(* shrink, and that extracting with -p gives back modes that were kept and *)
(* let the owner write.                                                    *)
Extractable ==
  at = "refused" =>
    \/ ~Apart
    \/ lacking
    \/ /\ ~flags.absolute
       /\ \/ Clean(Dest).parts = << >>
          \/ \E i \in DOMAIN args : Up \in Range(Clean(args[i]).parts)
    \/ /\ options.perms
       /\ ~options.kept \/ \E k \in DOMAIN stored : stored[k].node \in Locked
=============================================================================
