------------------------------ MODULE WalkTree ------------------------------
(***************************************************************************)
(* walkPaths (util.go) and the path functions around it: which files and   *)
(* directories below the paths named on the command line go into the       *)
(* archive, under which names, and where extract will put them.            *)
(*                                                                         *)
(* A path is a record of its components and whether it is absolute; "." is *)
(* the relative path without components.  The file system is a tree of     *)
(* nodes, each named by its components from the root; others may remove    *)
(* and make nodes while the walk is under way.                             *)
(***************************************************************************)
EXTENDS Naturals, SequencesExt

CONSTANTS Name,        \* the names a file may have
          Cwd,         \* the working directory, as components
          Hidden,      \* the names that begin with a dot
          Tree,        \* the kind of every node there may be
          Initials,    \* the sets of nodes to begin with
          ArgLists,    \* the command lines to consider, sequences of paths
          Flags,       \* the combinations of flags to consider
          Dest,        \* the destination given to extract
          MaxChanges   \* bound of the model: changes of the file system

Nodes == DOMAIN Tree
Kinds == {"file", "dir", "symlink", "device"}
FlagsType == [absolute : BOOLEAN, invis : BOOLEAN, special : BOOLEAN]
Up == ".."
Names == Seq(Name)
Part == Name \cup {Up}
PathType == [abs : BOOLEAN, parts : Seq(Part)]

ASSUME NameAssumption == Up \notin Name

(* What makes a tree: every node but the root lies in a directory.         *)
ASSUME TreeAssumption ==
  /\ IsFiniteSet(Nodes)
  /\ \A n \in Nodes :
       /\ Tree[n] \in Kinds
       /\ n \in Names
       /\ n # << >> => Front(n) \in Nodes /\ Tree[Front(n)] = "dir"
ASSUME InitialsAssumption ==
  \A s \in Initials : s \subseteq Nodes /\ \A n \in s : n # << >> => Front(n) \in s
ASSUME CwdAssumption == Cwd \in Names
ASSUME ArgListsAssumption == ArgLists \subseteq Seq(PathType)
ASSUME DestAssumption == Dest \in PathType
ASSUME FlagsAssumption == Flags \subseteq FlagsType
ASSUME BoundsAssumption == MaxChanges \in Nat

VARIABLES
  there,    \* the nodes there are
  steady,   \* those that have been there all along
  ever,     \* those that have been there at some time
  flags,    \* features
  args,     \* roots
  arg,      \* the root at hand
  todo,     \* the paths filepath.WalkDir has still to visit under it
  states,   \* entryCount of every directory seen, by stored path
  files,    \* the entries found, a bag: the order is that of the sort
  dirs,     \* the empty directories
  pc        \* "arg", "walk", "done" or "failed"

tree == <<there, steady, ever>>
vars == <<there, steady, ever, flags, args, arg, todo, states, files, dirs, pc>>

-----------------------------------------------------------------------------
(* path/filepath.                                                          *)
Path(abs, parts) == [abs |-> abs, parts |-> parts]

(* Clean, component by component: ".." takes away the one in front of it,  *)
(* if there is one.                                                        *)
CleanStep(abs, done, name) ==
  IF name # Up THEN Append(done, name)
  ELSE IF done # << >> /\ Last(done) # Up THEN Front(done)
  ELSE IF abs THEN done ELSE Append(done, Up)
Clean(p) ==
  LET done[k \in 0 .. Len(p.parts)] ==
        IF k = 0 THEN << >> ELSE CleanStep(p.abs, done[k - 1], p.parts[k])
  IN Path(p.abs, done[Len(p.parts)])

Abs(p) == Clean(Path(TRUE, IF p.abs THEN p.parts ELSE Cwd \o p.parts))
Join(p, parts) == Clean(Path(p.abs, p.parts \o parts))
Child(p, name) == Path(p.abs, Append(p.parts, name))
Dir(p) == Path(p.abs, Front(p.parts))
Below(p, q) == p.abs = q.abs /\ IsPrefix(p.parts, q.parts)

(* The node a path leads to.                                               *)
Node(p) == Abs(p).parts

-----------------------------------------------------------------------------
(* Mutant of storedPath: the path below the root is lost.                  *)
StoredByName(absolute, root, fullPath) ==
  LET name == Path(FALSE, IF fullPath.parts = << >> THEN << >> ELSE <<Last(fullPath.parts)>>)
  IN IF absolute THEN Abs(fullPath) ELSE name

(* storedPath: the path relative to the root, below the root's base name.  *)
(* The base of "." is nothing, that of "/" is "/".  filepath.Rel is the    *)
(* rest of fullPath, which always lies under its root here.                *)
storedPath(absolute, root, fullPath) ==
  LET cleanRoot == Clean(root)
      rel == SubSeq(Clean(fullPath).parts, Len(cleanRoot.parts) + 1, Len(fullPath.parts))
      base == IF cleanRoot.parts = << >> THEN << >> ELSE <<Last(cleanRoot.parts)>>
  IN IF absolute THEN Abs(fullPath)
     ELSE Clean(Path(cleanRoot.abs /\ base = << >>, base \o rel))

(* safeJoin: the target under base, however it is written; refused when    *)
(* what comes out does not begin with base and a separator.  After "." or  *)
(* "/" nothing ever does.                                                  *)
safeJoin(base, target) ==
  LET cleanBase == Clean(base)
      joined == Join(cleanBase, Clean(target).parts)
      legal == \/ joined = cleanBase
               \/ cleanBase.parts # << >> /\ Below(cleanBase, joined)
  IN [legal |-> legal, path |-> joined]

(* Mutant of isSelected: a directory does not stand for what is in it.     *)
SelectedExactly(extractList, p) ==
  extractList = {} \/ \E f \in extractList : Clean(p) = Clean(f)

(* isSelected: p is in the list, or below a directory that is; nothing is  *)
(* below ".".                                                              *)
isSelected(extractList, p) ==
  \/ extractList = {}
  \/ \E f \in extractList :
       \/ Clean(p) = Clean(f)
       \/ Clean(f) # Path(FALSE, << >>) /\ Below(Clean(f), Clean(p))

-----------------------------------------------------------------------------
root == Clean(args[arg])
Stored(p) == storedPath(flags.absolute, root, p)

(* gatherMeta.                                                             *)
TypeOf(kind) == IF kind = "file" THEN "file" ELSE IF kind = "symlink" THEN "symlink" ELSE "other"
Meta(path, src, kind) == [path |-> path, src |-> src, type |-> TypeOf(kind)]

(* An entry, if it is a regular file or special files are wanted.          *)
Found(path, kind) ==
  IF kind = "file" \/ flags.special
  THEN files (+) SetToBag({Meta(Stored(path), path, kind)})
  ELSE files

(* os.ReadDir: the children of a directory, in an order of their names.    *)
Children(p) ==
  LET names == {Last(n) : n \in {m \in there : m # << >> /\ Front(m) = Node(p)}}
  IN [k \in 1 .. Cardinality(names) |-> Child(p, SetToSeq(names)[k])]

(* states[stored] = &dirState{}: from 0 again if it is known already.     *)
Entered(key, table) ==
  [p \in DOMAIN table \cup {key} |-> IF p = key THEN 0 ELSE table[p]]

Init ==
  /\ there \in Initials
  /\ steady = there /\ ever = there
  /\ flags \in Flags
  /\ args \in ArgLists
  /\ arg = 1
  /\ todo = << >>
  /\ states = << >>
  /\ files = EmptyBag
  /\ dirs = {}
  /\ pc = "arg"

Fail ==
  /\ pc' = "failed"
  /\ UNCHANGED <<tree, flags, args, arg, todo, states, files, dirs>>

AtRoot == pc = "arg" /\ arg <= Len(args)

(* os.Lstat of the root as it was typed: every step of the way is there.   *)
Reached ==
  \A k \in 0 .. Len(args[arg].parts) :
    Node(Path(args[arg].abs, SubSeq(args[arg].parts, 1, k))) \in there

RootMissing ==
  /\ AtRoot
  /\ ~Reached
  /\ Fail

(* A root that is no directory: its own name decides whether it is hidden. *)
RootFile ==
  /\ AtRoot
  /\ Reached
  /\ Tree[Node(root)] # "dir"
  /\ files' = IF flags.invis \/ Last(root.parts) \notin Hidden
              THEN Found(root, Tree[Node(root)])
              ELSE files
  /\ arg' = arg + 1
  /\ UNCHANGED <<tree, flags, args, todo, states, dirs, pc>>

(* A root that is a directory is walked, hidden or not.                    *)
RootDir ==
  /\ AtRoot
  /\ Reached
  /\ Tree[Node(root)] = "dir"
  /\ states' = Entered(Stored(root), states)
  /\ todo' = Children(root)
  /\ pc' = "walk"
  /\ UNCHANGED <<tree, flags, args, arg, files, dirs>>

-----------------------------------------------------------------------------
(* The function given to filepath.WalkDir.                                 *)
Visiting == pc = "walk" /\ todo # << >>
current == Head(todo)
PassedOver(p) == ~flags.invis /\ Last(p.parts) \in Hidden

(* Mutant of VisitHidden: SkipDir for a file too, which leaves out what    *)
(* follows it in its directory.                                            *)
VisitHiddenSkipDir ==
  /\ Visiting
  /\ PassedOver(current)
  /\ todo' = IF Tree[Node(current)] = "dir" THEN Tail(todo)
             ELSE SelectSeq(Tail(todo), LAMBDA p : ~Below(Dir(current), p))
  /\ UNCHANGED <<tree, flags, args, arg, states, files, dirs, pc>>

(* Mutant of VisitHidden: a hidden file still counts in its directory.     *)
VisitHiddenCounted ==
  /\ Visiting
  /\ PassedOver(current)
  /\ todo' = Tail(todo)
  /\ states' = [states EXCEPT ![Stored(Dir(current))] = @ + 1]
  /\ UNCHANGED <<tree, flags, args, arg, files, dirs, pc>>

VisitHidden ==
  /\ Visiting
  /\ PassedOver(current)
  /\ todo' = Tail(todo)
  /\ UNCHANGED <<tree, flags, args, arg, states, files, dirs, pc>>

(* entryCount++ of the parent, if it is known.                             *)
Counted ==
  LET parentKey == Stored(Dir(current)) IN
  IF parentKey \in DOMAIN states THEN [states EXCEPT ![parentKey] = @ + 1] ELSE states

(* Mutant of VisitDir: the directory is not entered into the table.        *)
VisitDirUnrecorded ==
  /\ Visiting
  /\ ~PassedOver(current)
  /\ Node(current) \in there
  /\ Tree[Node(current)] = "dir"
  /\ states' = Counted
  /\ todo' = Children(current) \o Tail(todo)
  /\ UNCHANGED <<tree, flags, args, arg, files, dirs, pc>>

(* Mutant of VisitDir: a directory does not count in its parent.           *)
VisitDirUncounted ==
  /\ Visiting
  /\ ~PassedOver(current)
  /\ Node(current) \in there
  /\ Tree[Node(current)] = "dir"
  /\ states' = Entered(Stored(current), states)
  /\ todo' = Children(current) \o Tail(todo)
  /\ UNCHANGED <<tree, flags, args, arg, files, dirs, pc>>

VisitDir ==
  /\ Visiting
  /\ ~PassedOver(current)
  /\ Node(current) \in there
  /\ Tree[Node(current)] = "dir"
  /\ states' = Entered(Stored(current), Counted)
  /\ todo' = Children(current) \o Tail(todo)
  /\ UNCHANGED <<tree, flags, args, arg, files, dirs, pc>>

(* The parent counts it even if it is then left out for being special.     *)
VisitFile ==
  /\ Visiting
  /\ ~PassedOver(current)
  /\ Node(current) \in there
  /\ Tree[Node(current)] # "dir"
  /\ states' = Counted
  /\ files' = Found(current, Tree[Node(current)])
  /\ todo' = Tail(todo)
  /\ UNCHANGED <<tree, flags, args, arg, dirs, pc>>

(* d.Info() or os.ReadDir fails: it is gone since its directory was read.  *)
VisitGone ==
  /\ Visiting
  /\ ~PassedOver(current)
  /\ Node(current) \notin there
  /\ Fail

WalkEnds ==
  /\ pc = "walk"
  /\ todo = << >>
  /\ arg' = arg + 1
  /\ pc' = "arg"
  /\ UNCHANGED <<tree, flags, args, todo, states, files, dirs>>

(* The directories in which nothing was counted.                           *)
Collect ==
  /\ pc = "arg"
  /\ arg > Len(args)
  /\ dirs' = {p \in DOMAIN states : states[p] = 0}
  /\ pc' = "done"
  /\ UNCHANGED <<tree, flags, args, arg, todo, states, files>>

Walk ==
  \/ RootMissing \/ RootFile \/ RootDir
  \/ VisitHidden \/ VisitDir \/ VisitFile \/ VisitGone
  \/ WalkEnds \/ Collect

-----------------------------------------------------------------------------
(* The other programs on the machine.                                      *)
Changed(now) ==
  /\ there' = now
  /\ steady' = steady \cap now
  /\ ever' = ever \cup now
  /\ UNCHANGED <<flags, args, arg, todo, states, files, dirs, pc>>

Changes == Cardinality(ever \ steady)
MayChange == pc \in {"arg", "walk"} /\ Changes < MaxChanges

RemoveNode(n) ==
  /\ MayChange
  /\ n \in there
  /\ Tree[n] = "dir" => \A m \in there : IsPrefix(n, m) => m = n
  /\ Changed(there \ {n})

MakeNode(n) ==
  /\ MayChange
  /\ n \notin there /\ n # << >>
  /\ Front(n) \in there
  /\ Changed(there \cup {n})

Others == \E n \in Nodes : RemoveNode(n) \/ MakeNode(n)

Ended == pc \in {"done", "failed"} /\ UNCHANGED vars

Next == Walk \/ Others \/ Ended

Spec == Init /\ [][Next]_vars

-----------------------------------------------------------------------------
Entries == {[path |-> e.path, src |-> e.src] : e \in BagToSet(files)}

(* Every variable has its type, and the directory of a path still to be    *)
(* visited is in the table, so that no entry goes uncounted.               *)
TypeOK ==
  /\ there \subseteq Nodes /\ steady \subseteq there /\ there \subseteq ever
  /\ ever \subseteq Nodes
  /\ flags \in FlagsType
  /\ args \in ArgLists
  /\ arg \in 1 .. Len(args) + 1
  /\ todo \in Seq(PathType)
  /\ DOMAIN states \subseteq PathType
  /\ \A p \in DOMAIN states : states[p] \in Nat
  /\ \A e \in BagToSet(files) :
       e.path \in PathType /\ e.src \in PathType /\ e.type \in {"file", "symlink", "other"}
  /\ dirs \subseteq DOMAIN states
  /\ pc \in {"arg", "walk", "done", "failed"}
  /\ \A p \in Range(todo) : Stored(Dir(p)) \in DOMAIN states

(* Path p of root i is what the command line asks for: nothing on the way  *)
(* from the root to it is hidden, or -i is given.                          *)
Asked(i, n) ==
  LET r == Clean(args[i])
      rest == SubSeq(n, Len(Node(r)) + 1, Len(n))
      names == IF rest = << >> /\ Tree[n] # "dir" THEN {Last(r.parts)} ELSE Range(rest)
  IN /\ IsPrefix(Node(r), n)
     /\ flags.invis \/ names \cap Hidden = {}
PathOf(i, n) ==
  LET r == Clean(args[i]) IN Path(r.abs, r.parts \o SubSeq(n, Len(Node(r)) + 1, Len(n)))
StoredOf(i, n) == storedPath(flags.absolute, Clean(args[i]), PathOf(i, n))

(* The stored names of the roots: none is another or below another, also   *)
(* when their being absolute is lost, as it is in extract.                 *)
NameOf(i) == storedPath(flags.absolute, Clean(args[i]), Clean(args[i]))
Apart == \A i, j \in DOMAIN args : i # j => ~IsPrefix(NameOf(i).parts, NameOf(j).parts)

(* A walk that succeeds misses nothing: each file that was there all along *)
(* is an entry, under its stored name, whatever came and went around it.   *)
NothingMissed ==
  pc = "done" => \A i \in DOMAIN args, n \in steady :
    /\ Asked(i, n)
    /\ Tree[n] = "file" \/ (Tree[n] # "dir" /\ flags.special)
    => [path |-> StoredOf(i, n), src |-> PathOf(i, n)] \in Entries

(* "Directories containing files are implied; only empty directories are   *)
(* listed" (FILE-FORMAT.md:199): every directory that was there all along  *)
(* is on the way to something stored, or listed itself.  A directory that  *)
(* holds nothing but special files, left out without -o, is neither; nor   *)
(* need one be that shares its stored name with another.                   *)
LeftOut(n) ==
  \E m \in ever : IsPrefix(n, m) /\ Tree[m] \notin {"file", "dir"} /\ ~flags.special
DirectoriesKept ==
  pc = "done" /\ Apart => \A i \in DOMAIN args, n \in steady :
    Asked(i, n) /\ Tree[n] = "dir" /\ ~LeftOut(n) =>
      \E p \in dirs \cup {e.path : e \in Entries} : Below(StoredOf(i, n), p)

(* Only empty directories are listed: nothing is stored below one.         *)
OnlyEmptyListed ==
  dirs # {} /\ Apart => \A d \in dirs : \A p \in dirs \cup {e.path : e \in Entries} :
    p # d => ~Below(d, p)

(* Where extract puts an entry; a path it refuses has no place.            *)
Place(p) == IF flags.absolute THEN [legal |-> TRUE, path |-> Clean(p)] ELSE safeJoin(Dest, p)

(* Whatever is archived can be extracted, each entry to a place of its own *)
(* inside the destination: no two workers of extract ever write the same   *)
(* file.  It takes roots with distinct names, none that ends in "..",      *)
(* whose entries are stored as "../x" and refused, and a destination that  *)
(* is neither "." nor "/", where all is refused.                           *)
OwnPlace ==
  /\ files # EmptyBag /\ Apart
  /\ \/ flags.absolute
     \/ /\ Clean(Dest).parts # << >>
        /\ \A i \in DOMAIN args : Up \notin Range(Clean(args[i]).parts)
  =>
    /\ \A e \in BagToSet(files) : files[e] = 1 /\ Place(e.path).legal
    /\ \A e, f \in BagToSet(files) : Place(e.path).path = Place(f.path).path => e = f

(* "-files" with the stored name of a root extracts what came from that    *)
(* root and nothing else (README.md: comma-separated list to extract).     *)
CameFrom(i, e) ==
  \E n \in ever :
    IsPrefix(Node(Clean(args[i])), n) /\ e = [path |-> StoredOf(i, n), src |-> PathOf(i, n)]
RootSelectable ==
  files # EmptyBag /\ Apart => \A i \in DOMAIN args : NameOf(i).parts # << >> =>
    \A e \in Entries : isSelected({NameOf(i)}, e.path) <=> CameFrom(i, e)
=============================================================================
