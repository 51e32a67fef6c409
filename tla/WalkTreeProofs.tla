--------------------------- MODULE WalkTreeProofs ---------------------------
(***************************************************************************)
(* What walkPaths keeps to, for any tree, any command line and flags, and  *)
(* whatever others do to the tree meanwhile.                               *)
(***************************************************************************)
EXTENDS PathTheorems, FiniteSetTheorems

-----------------------------------------------------------------------------
(* Nodes, by the roots they lie under.                                     *)
Root(i) == Clean(args[i])
Holds(i, n) == n \in Names /\ IsPrefix(Node(Root(i)), n)
Given == args \in ArgLists /\ flags \in FlagsType

LEMMA RootType ==
  ASSUME Given, NEW i \in DOMAIN args
  PROVE  /\ Root(i) \in PathType /\ Clean(Root(i)) = Root(i)
         /\ Node(Root(i)) \in Seq(Part)
<1>1. args \in Seq(PathType)
  BY ArgListsAssumption DEF Given
<1>2. args[i] \in PathType
  BY <1>1, LenProperties, ElementOfSeq
<1>3. Root(i) \in PathType /\ Clean(Root(i)) = Root(i)
  BY <1>2, CleanOf DEF Root
<1> QED
  BY <1>3, NodeIs

LEMMA AbsoluteType ==
  ASSUME Given
  PROVE  flags.absolute \in BOOLEAN
BY DEF Given, FlagsType

LEMMA NamesOfConcat ==
  ASSUME NEW s \in Seq(Part), NEW u \in Seq(Part), s \o u \in Names
  PROVE  s \in Names /\ u \in Names
<1>1. /\ Len(s) \in Nat /\ Len(u) \in Nat /\ Len(s \o u) = Len(s) + Len(u)
      /\ \A k \in 1 .. Len(s) + Len(u) : (s \o u)[k] = IF k <= Len(s) THEN s[k] ELSE u[k - Len(s)]
  BY ConcatProperties, LenProperties
<1>2. \A k \in 1 .. Len(s) + Len(u) : (s \o u)[k] \in Name
  BY <1>1, NamesType
<1>3. ASSUME NEW k \in 1 .. Len(s)
      PROVE  s[k] \in Name
  BY <1>1, <1>2
<1>4. ASSUME NEW k \in 1 .. Len(u)
      PROVE  u[k] \in Name
  <2> DEFINE l == Len(s) + k
  <2>1. l \in 1 .. Len(s) + Len(u) /\ ~(l <= Len(s)) /\ l - Len(s) = k
    BY <1>1
  <2> HIDE DEF l
  <2>2. (s \o u)[l] = u[k]
    BY <1>1, <2>1
  <2> QED
    BY <1>2, <2>1, <2>2
<1>5. \A t \in Seq(Part) : (\A k \in 1 .. Len(t) : t[k] \in Name) => t \in Seq(Name)
  <2>1. TAKE t \in Seq(Part)
  <2>2. HAVE \A k \in 1 .. Len(t) : t[k] \in Name
  <2>3. Len(t) \in Nat /\ t \in [1 .. Len(t) -> Part]
    BY LenProperties
  <2>4. t \in [1 .. Len(t) -> Name]
    BY <2>2, <2>3
  <2> QED
    BY <2>3, <2>4, SeqDef
<1> QED
  BY <1>3, <1>4, <1>5 DEF Names

(* A node under a root, and the way to it, are found from each other.      *)
LEMMA Way ==
  ASSUME Given, NEW i \in DOMAIN args, NEW n, Holds(i, n)
  PROVE  LET q == After(Node(Root(i)), n) IN
         /\ q \in Names /\ n = Node(Root(i)) \o q
         /\ PathOf(i, n) = Under(Root(i), q)
         /\ StoredOf(i, n) = Under(NameOf(i), q)
         /\ Node(PathOf(i, n)) = n
<1> DEFINE r == Root(i)
           q == After(Node(r), n)
<1>1. r \in PathType /\ Clean(r) = r /\ Node(r) \in Seq(Part) /\ n \in Seq(Part)
  BY RootType, NamesType DEF Holds
<1>2. q \in Seq(Part) /\ Node(r) \o q = n
  BY <1>1, AfterPrefix DEF Holds
<1>3. q \in Names
  BY <1>1, <1>2, NamesOfConcat DEF Holds
<1>4. PathOf(i, n) = Under(r, q)
  BY DEF PathOf, Under, After, Root
<1>5. Node(Under(r, q)) = n
  BY <1>1, <1>2, <1>3, NodeUnder
<1>6. storedPath(flags.absolute, r, Under(r, q)) = Under(Label(flags.absolute, r), q)
  BY <1>1, <1>3, AbsoluteType, StoredUnder
<1>7. StoredOf(i, n) = Under(NameOf(i), q)
  BY <1>4, <1>6 DEF StoredOf, NameOf, Label, Root
<1> QED
  BY <1>2, <1>3, <1>4, <1>5, <1>7

LEMMA NameOfType ==
  ASSUME Given, NEW i \in DOMAIN args
  PROVE  NameOf(i) \in PathType /\ Clean(NameOf(i)) = NameOf(i)
BY RootType, AbsoluteType, LabelType DEF NameOf, Label, Root

(* One step down.                                                          *)
LEMMA Deeper ==
  ASSUME Given, NEW i \in DOMAIN args, NEW n, Holds(i, n), NEW name \in Name
  PROVE  /\ Holds(i, Append(n, name))
         /\ PathOf(i, Append(n, name)) = Child(PathOf(i, n), name)
<1> DEFINE r == Root(i)
           q == After(Node(r), n)
           m == Append(n, name)
<1>1. q \in Names /\ n = Node(r) \o q /\ PathOf(i, n) = Under(r, q)
  BY Way
<1>2. r \in PathType /\ r.parts \in Seq(Part) /\ Node(r) \in Seq(Part) /\ q \in Seq(Part) /\ name \in Part
  BY <1>1, RootType, PathIs, NamesType, UpIsPart
<1>3. Append(q, name) \in Names /\ Append(q, name) \in Seq(Part) /\ m \in Names
  BY <1>1, <1>2, AppendProperties DEF Names, Holds
<1>4. m = Node(r) \o Append(q, name)
  <2> HIDE DEF q
  <2>1. Node(r) \o Append(q, name) = Append(Node(r) \o q, name)
    BY <1>2, ConcatAppend
  <2> QED
    BY <1>1, <2>1
<1>5. IsPrefix(Node(r), m) /\ After(Node(r), m) = Append(q, name)
  <2> DEFINE u == Append(q, name)
  <2>1. u \in Seq(Part) /\ m = Node(r) \o u /\ Node(r) \in Seq(Part)
    BY <1>2, <1>3, <1>4
  <2> HIDE DEF u, m, r, q
  <2>2. IsPrefix(Node(r), Node(r) \o u) /\ After(Node(r), Node(r) \o u) = u
    BY <2>1, PrefixConcat
  <2> QED
    BY <2>1, <2>2 DEF u
<1>6. Holds(i, m)
  BY <1>3, <1>5 DEF Holds
<1>7. PathOf(i, m) = Under(r, Append(q, name))
  BY <1>5, <1>6, Way
<1>8. Under(r, Append(q, name)) = Child(Under(r, q), name)
  <2> DEFINE x == r.parts
  <2>1. x \in Seq(Part) /\ q \in Seq(Part) /\ name \in Part
    BY <1>2
  <2> HIDE DEF x, q, r
  <2>2. x \o Append(q, name) = Append(x \o q, name)
    BY <2>1, ConcatAppend
  <2>3. r.parts \o Append(q, name) = Append(r.parts \o q, name)
    BY <2>2 DEF x
  <2> QED
    BY <2>3 DEF Under, Child, Path
<1> QED
  BY <1>1, <1>6, <1>7, <1>8

(* One step up, if there is one below the root.                            *)
LEMMA Shallower ==
  ASSUME Given, NEW i \in DOMAIN args, NEW n, Holds(i, n), n # Node(Root(i))
  PROVE  /\ n # << >> /\ Holds(i, Front(n)) /\ Last(n) \in Name
         /\ n = Append(Front(n), Last(n))
         /\ PathOf(i, n) = Child(PathOf(i, Front(n)), Last(n))
         /\ Dir(PathOf(i, n)) = PathOf(i, Front(n))
         /\ Last(PathOf(i, n).parts) = Last(n)
<1> DEFINE r == Root(i)
           f == Front(n)
<1>1. n \in Seq(Name) /\ n \in Seq(Part) /\ Node(r) \in Seq(Part) /\ IsPrefix(Node(r), n)
  BY RootType, NamesType DEF Holds, Names
<1>2. n # << >>
  <2>1. ASSUME n = << >>
        PROVE  FALSE
    <3>1. Len(n) = 0 /\ Len(Node(r)) \in Nat
      BY <1>1, <2>1, LenProperties
    <3>2. Len(Node(r)) = 0
      <4>1. Len(Node(r)) <= Len(n)
        BY <1>1 DEF IsPrefix
      <4> QED
        BY <3>1, <4>1
    <3>3. Node(r) = << >>
      BY <1>1, <3>2, EmptySeq
    <3> QED
      BY <2>1, <3>3
  <2> QED
    BY <2>1
<1>3. f \in Names /\ f \in Seq(Part) /\ Last(n) \in Name /\ n = Append(f, Last(n))
  BY <1>1, <1>2, AppendFront, NamesType DEF Names
<1>4. Holds(i, f)
  BY <1>1, <1>2, <1>3, PrefixFront DEF Holds
<1>5. PathOf(i, n) = Child(PathOf(i, f), Last(n))
  <2> HIDE DEF f
  <2>1. PathOf(i, Append(f, Last(n))) = Child(PathOf(i, f), Last(n))
    BY <1>3, <1>4, Deeper
  <2> QED
    BY <1>3, <2>1
<1>6. PathOf(i, f) \in PathType
  BY <1>4, Way, RootType, UnderType
<1>7. Front(PathOf(i, n).parts) = PathOf(i, f).parts /\ Last(PathOf(i, n).parts) = Last(n)
      /\ PathOf(i, n).abs = PathOf(i, f).abs
  <2> HIDE DEF f
  <2>1. PathOf(i, n).parts = Append(PathOf(i, f).parts, Last(n)) /\ PathOf(i, n).abs = PathOf(i, f).abs
    BY <1>5 DEF Child, Path
  <2>2. PathOf(i, f).parts \in Seq(Part) /\ Last(n) \in Part
    BY <1>3, <1>6, PathIs, UpIsPart
  <2> QED
    BY <2>1, <2>2, FrontAppend
<1>8. Dir(PathOf(i, n)) = PathOf(i, f)
  BY <1>6, <1>7, PathIs DEF Dir
<1> QED
  BY <1>2, <1>3, <1>4, <1>5, <1>7, <1>8

(* What is stored lies in the archive as the nodes lie in the tree.        *)
LEMMA StoredParts ==
  ASSUME Given, NEW i \in DOMAIN args, NEW n, Holds(i, n)
  PROVE  /\ StoredOf(i, n) \in PathType
         /\ StoredOf(i, n).abs = NameOf(i).abs
         /\ IsPrefix(NameOf(i).parts, StoredOf(i, n).parts)
         /\ Clean(StoredOf(i, n)) = StoredOf(i, n)
<1> DEFINE q == After(Node(Root(i)), n)
<1>1. q \in Names /\ StoredOf(i, n) = Under(NameOf(i), q)
  BY Way
<1>2. NameOf(i) \in PathType /\ Clean(NameOf(i)) = NameOf(i)
  BY NameOfType
<1> HIDE DEF q
<1>3. /\ Under(NameOf(i), q) \in PathType /\ Under(NameOf(i), q).abs = NameOf(i).abs
      /\ Under(NameOf(i), q).parts = NameOf(i).parts \o q
  BY <1>1, <1>2, UnderType
<1>4. IsPrefix(NameOf(i).parts, NameOf(i).parts \o q)
  BY <1>1, <1>2, PathIs, NamesType, PrefixConcat
<1>5. Clean(Under(NameOf(i), q)) = Under(NameOf(i), q)
  BY <1>1, <1>2, RelUnder
<1> QED
  BY <1>1, <1>3, <1>4, <1>5

LEMMA StoredBelow ==
  ASSUME Given, NEW i \in DOMAIN args, NEW n, Holds(i, n), NEW m, Holds(i, m)
  PROVE  /\ IsPrefix(StoredOf(i, n).parts, StoredOf(i, m).parts) <=> IsPrefix(n, m)
         /\ Below(StoredOf(i, n), StoredOf(i, m)) <=> IsPrefix(n, m)
<1> DEFINE r == Root(i)
           p == After(Node(r), n)
           q == After(Node(r), m)
<1>1. /\ p \in Names /\ n = Node(r) \o p /\ StoredOf(i, n) = Under(NameOf(i), p)
      /\ q \in Names /\ m = Node(r) \o q /\ StoredOf(i, m) = Under(NameOf(i), q)
  BY Way
<1>2. NameOf(i) \in PathType /\ NameOf(i).parts \in Seq(Part) /\ Node(r) \in Seq(Part)
      /\ p \in Seq(Part) /\ q \in Seq(Part)
  BY <1>1, NameOfType, PathIs, NamesType, RootType
<1> HIDE DEF p, q, r
<1>3. IsPrefix(n, m) <=> IsPrefix(p, q)
  BY <1>1, <1>2, PrefixCancels
<1>4. IsPrefix(NameOf(i).parts \o p, NameOf(i).parts \o q) <=> IsPrefix(p, q)
  BY <1>2, PrefixCancels
<1>5. /\ StoredOf(i, n).parts = NameOf(i).parts \o p /\ StoredOf(i, n).abs = NameOf(i).abs
      /\ StoredOf(i, m).parts = NameOf(i).parts \o q /\ StoredOf(i, m).abs = NameOf(i).abs
  BY <1>1, <1>2, UnderType
<1> QED
  BY <1>3, <1>4, <1>5 DEF Below

LEMMA StoredOnce ==
  ASSUME Given, NEW i \in DOMAIN args, NEW n, Holds(i, n), NEW m, Holds(i, m),
         StoredOf(i, n).parts = StoredOf(i, m).parts
  PROVE  n = m
<1>1. StoredOf(i, n).parts \in Seq(Part) /\ n \in Seq(Part) /\ m \in Seq(Part)
  BY StoredParts, PathIs, NamesType DEF Holds
<1>2. IsPrefix(StoredOf(i, n).parts, StoredOf(i, m).parts) /\ IsPrefix(StoredOf(i, m).parts, StoredOf(i, n).parts)
  BY <1>1, PrefixReflexive
<1>3. IsPrefix(n, m) /\ IsPrefix(m, n)
  BY <1>2, StoredBelow
<1> QED
  BY <1>1, <1>3, PrefixBoth

LEMMA StoredApart ==
  ASSUME Given, Apart,
         NEW i \in DOMAIN args, NEW n, Holds(i, n), NEW j \in DOMAIN args, NEW m, Holds(j, m),
         IsPrefix(StoredOf(i, n).parts, StoredOf(j, m).parts)
  PROVE  i = j /\ IsPrefix(n, m)
<1> DEFINE s == StoredOf(i, n).parts
           t == StoredOf(j, m).parts
<1>1. /\ s \in Seq(Part) /\ t \in Seq(Part)
      /\ NameOf(i).parts \in Seq(Part) /\ NameOf(j).parts \in Seq(Part)
      /\ IsPrefix(NameOf(i).parts, s) /\ IsPrefix(NameOf(j).parts, t)
  BY StoredParts, NameOfType, PathIs
<1>2. IsPrefix(NameOf(i).parts, t)
  BY <1>1, PrefixTransitive
<1>3. IsPrefix(NameOf(i).parts, NameOf(j).parts) \/ IsPrefix(NameOf(j).parts, NameOf(i).parts)
  BY <1>1, <1>2, PrefixesMeet
<1>4. i = j
  BY <1>3 DEF Apart
<1> QED
  BY <1>4, StoredBelow

-----------------------------------------------------------------------------
(* The inductive invariant.                                                *)

(* With a node, the directories it is in are there.                        *)
Closed(set) == \A n \in set : n # << >> => Front(n) \in set
Grown ==
  /\ there \subseteq Nodes /\ steady \subseteq there /\ there \subseteq ever /\ ever \subseteq Nodes
  /\ Closed(there) /\ Closed(steady)

Course ==
  /\ Given
  /\ arg \in 1 .. Len(args) + 1
  /\ pc \in {"arg", "walk", "done", "failed"}
  /\ todo \in Seq(PathType)
  /\ pc \in {"arg", "done"} => todo = << >>
  /\ pc = "walk" \/ todo # << >> => arg \in DOMAIN args
  /\ pc = "done" => arg = Len(args) + 1

(* What is still to be visited: each path leads to a node below the root,  *)
(* and none is on the way to another.                                      *)
At(k) == Node(todo[k])
Ways ==
  \A k \in DOMAIN todo :
    /\ At(k) \in ever /\ Holds(arg, At(k)) /\ At(k) # Node(root)
    /\ todo[k] = PathOf(arg, At(k))
    /\ Stored(Dir(todo[k])) \in DOMAIN states
Once == \A j, k \in DOMAIN todo : j # k => ~IsPrefix(At(j), At(k))

(* What has been visited: no path leads there any more.                    *)
Passed(i, n) ==
  \/ i < arg
  \/ i = arg /\ pc \in {"walk", "failed"} /\ \A k \in DOMAIN todo : ~IsPrefix(At(k), n)
Came ==
  \A e \in BagToSet(files) : \E i \in DOMAIN args, n \in ever :
    Holds(i, n) /\ Passed(i, n) /\ e = Meta(StoredOf(i, n), PathOf(i, n), Tree[n])
Recorded ==
  \A d \in DOMAIN states :
    /\ states[d] \in Nat
    /\ \E i \in DOMAIN args, n \in ever :
         Holds(i, n) /\ Passed(i, n) /\ Tree[n] = "dir" /\ d = StoredOf(i, n)
Single == Apart => \A e \in BagToSet(files) : files[e] = 1
Listed == dirs = IF pc = "done" THEN {p \in DOMAIN states : states[p] = 0} ELSE {}

(* What was there all along and is asked for has been found, or a path     *)
(* leads to it or to a directory it is in.                                 *)
Due(i, n) == Asked(i, n) /\ (Tree[n] \in {"file", "dir"} \/ flags.special)
Seen(i, n) ==
  IF Tree[n] = "dir" THEN StoredOf(i, n) \in DOMAIN states
  ELSE [path |-> StoredOf(i, n), src |-> PathOf(i, n)] \in Entries
Ahead(n) == \E k \in DOMAIN todo : IsPrefix(At(k), n)
Kept ==
  \A i \in DOMAIN args, n \in steady : Due(i, n) =>
    \/ pc = "failed"
    \/ Seen(i, n)
    \/ i = arg /\ pc = "walk" /\ Ahead(n)
    \/ i > arg
    \/ i = arg /\ pc = "arg"

(* A directory counts what is in it: whatever was found below a root has   *)
(* been counted, and whatever was counted was found, or left out.          *)
Shown == DOMAIN states \cup {e.path : e \in BagToSet(files)}
Filled ==
  Apart => \A i \in DOMAIN args, n \in Nodes :
    Holds(i, n) /\ n # Node(Root(i)) /\ StoredOf(i, n) \in Shown =>
      StoredOf(i, Front(n)) \in DOMAIN states /\ states[StoredOf(i, Front(n))] > 0
Occupied ==
  Apart => \A i \in DOMAIN args, n \in Nodes :
    Holds(i, n) /\ StoredOf(i, n) \in DOMAIN states /\ states[StoredOf(i, n)] > 0 =>
      \/ LeftOut(n)
      \/ \E m \in ever : m # << >> /\ Front(m) = n /\ Holds(i, m) /\ StoredOf(i, m) \in Shown

Walking == Grown /\ Course /\ Ways /\ Once /\ Came /\ Recorded /\ Listed
IInv == Walking /\ Single /\ Kept /\ Filled /\ Occupied

-----------------------------------------------------------------------------
(* The tree.                                                               *)
LEMMA NodeType ==
  ASSUME NEW n \in Nodes
  PROVE  /\ n \in Names /\ n \in Seq(Part)
         /\ n # << >> =>
              /\ Front(n) \in Nodes /\ Tree[Front(n)] = "dir"
              /\ Front(n) \in Seq(Part) /\ Last(n) \in Name /\ n = Append(Front(n), Last(n))
<1>1. n \in Names /\ n \in Seq(Part) /\ n \in Seq(Name)
  BY TreeAssumption, NamesType DEF Names
<1>2. n # << >> => Front(n) \in Nodes /\ Tree[Front(n)] = "dir"
  BY TreeAssumption
<1>3. n # << >> => Front(n) \in Seq(Part) /\ n = Append(Front(n), Last(n))
  BY <1>1, AppendFront
<1>4. n # << >> => Last(n) \in Name
  BY <1>1, AppendFront
<1> QED
  BY <1>1, <1>2, <1>3, <1>4

(* All that a node lies in is there with it.                               *)
LEMMA UpTheTree ==
  ASSUME NEW set \in SUBSET Nodes, Closed(set), NEW n \in set,
         NEW m \in Seq(Part), IsPrefix(m, n)
  PROVE  m \in set
<1> DEFINE Bad == {u \in Names : m \o u \in set}
<1>1. After(m, n) \in Bad
  <2>1. n \in Names /\ n \in Seq(Part)
    BY NodeType
  <2>2. After(m, n) \in Seq(Part) /\ m \o After(m, n) = n
    BY <2>1, AfterPrefix
  <2> QED
    BY <2>1, <2>2, NamesOfConcat
<1>2. PICK u \in Bad : u = << >> \/ \E s \in Names, e \in Name : u = Append(s, e) /\ s \notin Bad
  <2>1. Bad # {} /\ Bad \in SUBSET Seq(Name)
    BY <1>1 DEF Names
  <2> HIDE DEF Bad
  <2> QED
    BY <2>1, Shortest DEF Names
<1>3. u # << >> => FALSE
  <2> SUFFICES ASSUME u # << >> PROVE FALSE
    OBVIOUS
  <2>1. PICK s \in Names, e \in Name : u = Append(s, e) /\ s \notin Bad
    BY <1>2
  <2>2. s \in Seq(Part) /\ e \in Part /\ m \o s \in Seq(Part)
    BY NamesType, UpIsPart, ConcatProperties
  <2>3. m \o u = Append(m \o s, e)
    BY <2>1, <2>2, ConcatAppend
  <2>4. m \o u \in set /\ m \o u # << >> /\ Front(m \o u) = m \o s
    <3> DEFINE t == m \o s
    <3>1. t \in Seq(Part) /\ e \in Part /\ m \o u = Append(t, e)
      BY <2>2, <2>3
    <3> HIDE DEF t
    <3>2. Front(Append(t, e)) = t /\ Append(t, e) # << >>
      BY <3>1, FrontAppend
    <3> QED
      BY <1>2, <3>1, <3>2 DEF t
  <2>5. m \o s \in set
    BY <2>4 DEF Closed
  <2> QED
    BY <2>1, <2>5
<1>4. m \o << >> = m
  BY ConcatEmptySeq
<1> QED
  BY <1>2, <1>3, <1>4

(* A node on the way to another is a directory, and the next one is in it. *)
LEMMA OnTheWay ==
  ASSUME NEW n \in Nodes, NEW m \in Seq(Part), IsPrefix(m, n), m # n
  PROVE  /\ m \in Nodes /\ Tree[m] = "dir"
         /\ \E c \in Nodes : c # << >> /\ Front(c) = m /\ IsPrefix(c, n)
<1> DEFINE Bad == {u \in Names : u # << >> /\ m \o u \in Nodes /\ IsPrefix(m \o u, n)}
<1>0. n \in Names /\ n \in Seq(Part)
  BY NodeType
<1>1. After(m, n) \in Bad
  <2>2. After(m, n) \in Seq(Part) /\ m \o After(m, n) = n
    BY <1>0, AfterPrefix
  <2>3. After(m, n) # << >>
    BY <2>2, ConcatEmptySeq
  <2>4. After(m, n) \in Names
    BY <1>0, <2>2, NamesOfConcat
  <2>5. IsPrefix(n, n)
    BY <1>0, PrefixReflexive
  <2> QED
    BY <2>2, <2>3, <2>4, <2>5
<1>2. PICK u \in Bad : u = << >> \/ \E s \in Names, e \in Name : u = Append(s, e) /\ s \notin Bad
  <2>1. Bad # {} /\ Bad \in SUBSET Seq(Name)
    BY <1>1 DEF Names
  <2> HIDE DEF Bad
  <2> QED
    BY <2>1, Shortest DEF Names
<1>3. PICK s \in Names, e \in Name : u = Append(s, e) /\ s \notin Bad
  BY <1>2
<1>4. s \in Seq(Part) /\ e \in Part /\ m \o s \in Seq(Part)
  BY NamesType, UpIsPart, ConcatProperties
<1>5. m \o u = Append(m \o s, e)
  BY <1>3, <1>4, ConcatAppend
<1> DEFINE c == m \o u
<1>6. c \in Nodes /\ IsPrefix(c, n)
  BY <1>2
<1>7. c # << >> /\ Front(c) = m \o s
  BY <1>4, <1>5, FrontAppend
<1> HIDE DEF c
<1>8. Front(c) \in Nodes /\ Tree[Front(c)] = "dir" /\ c \in Seq(Part) /\ Front(c) \in Seq(Part)
  BY <1>6, <1>7, NodeType
<1>9. IsPrefix(Front(c), n)
  BY <1>0, <1>6, <1>7, <1>8, PrefixFront, PrefixTransitive
<1>10. s = << >>
  BY <1>3, <1>7, <1>8, <1>9
<1>11. Front(c) = m
  BY <1>7, <1>10, ConcatEmptySeq
<1> QED
  BY <1>6, <1>7, <1>8, <1>11

-----------------------------------------------------------------------------
(* os.ReadDir: every child once.                                           *)
LEMMA Enumerates ==
  ASSUME NEW S, IsFiniteSet(S)
  PROVE  /\ Cardinality(S) \in Nat
         /\ SetToSeq(S) \in [1 .. Cardinality(S) -> S]
         /\ \A x \in S : \E k \in 1 .. Cardinality(S) : SetToSeq(S)[k] = x
         /\ \A j, k \in 1 .. Cardinality(S) : SetToSeq(S)[j] = SetToSeq(S)[k] => j = k
<1> DEFINE N == 1 .. Cardinality(S)
           s == SetToSeq(S)
<1>1. Cardinality(S) \in Nat /\ ExistsBijection(N, S)
  BY FS_CardinalityType
<1>2. \E f \in [N -> S] : IsInjective(f)
  BY <1>1 DEF ExistsBijection, Bijection, Injection, IsInjective
<1>3. s \in [N -> S] /\ IsInjective(s)
  BY <1>2 DEF SetToSeq
<1>4. IsFiniteSet(N) /\ Cardinality(N) = Cardinality(S)
  BY <1>1, FS_Interval
<1> HIDE DEF s, N
<1>5. s \in Injection(N, S)
  BY <1>3 DEF Injection, IsInjective
<1>6. s \in Surjection(N, S)
  BY <1>4, <1>5, FS_Injection
<1> QED
  BY <1>1, <1>3, <1>6 DEF Surjection, IsInjective, s, N

LEMMA ChildrenAre ==
  ASSUME there \subseteq Nodes, NEW p \in PathType
  PROVE  /\ Len(Children(p)) \in Nat /\ DOMAIN Children(p) = 1 .. Len(Children(p))
         /\ \A k \in DOMAIN Children(p) : \E n \in there :
              n # << >> /\ Front(n) = Node(p) /\ Children(p)[k] = Child(p, Last(n))
         /\ \A n \in there : n # << >> /\ Front(n) = Node(p) =>
              \E k \in DOMAIN Children(p) : Children(p)[k] = Child(p, Last(n))
         /\ \A j, k \in DOMAIN Children(p) : Children(p)[j] = Children(p)[k] => j = k
         /\ Children(p) \in Seq(PathType)
<1> DEFINE T == {m \in there : m # << >> /\ Front(m) = Node(p)}
           L == {Last(n) : n \in T}
           C == Cardinality(L)
           s == SetToSeq(L)
<1>1. IsFiniteSet(L)
  <2> DEFINE f == [n \in T |-> Last(n)]
  <2>1. IsFiniteSet(T)
    BY TreeAssumption, FS_Subset
  <2>2. f \in Surjection(T, L)
    BY DEF Surjection
  <2> HIDE DEF f, T, L
  <2> QED
    BY <2>1, <2>2, FS_Surjection
<1> HIDE DEF L
<1>2. /\ C \in Nat /\ s \in [1 .. C -> L]
      /\ \A x \in L : \E k \in 1 .. C : s[k] = x
      /\ \A j, k \in 1 .. C : s[j] = s[k] => j = k
  BY <1>1, Enumerates
<1>3. Children(p) = [k \in 1 .. C |-> Child(p, s[k])]
  BY DEF Children, L
<1> HIDE DEF C, s
<1>4. L \subseteq Part
  <2>1. \A n \in T : Last(n) \in Name
    BY NodeType
  <2> QED
    BY <2>1, UpIsPart DEF L
<1>5. \A x \in L : Child(p, x) \in PathType
  BY <1>4, PathIs, AppendProperties DEF Child
<1>6. \A x, y \in L : Child(p, x) = Child(p, y) => x = y
  <2> TAKE x, y \in L
  <2> HAVE Child(p, x) = Child(p, y)
  <2>1. Append(p.parts, x) = Append(p.parts, y)
    BY DEF Child, Path
  <2>2. p.parts \in Seq(Part) /\ x \in Part /\ y \in Part
    BY <1>4, PathIs
  <2> QED
    BY <2>1, <2>2, AppendInjective
<1>7. /\ DOMAIN Children(p) = 1 .. C
      /\ \A k \in 1 .. C : s[k] \in L /\ Children(p)[k] = Child(p, s[k])
  BY <1>2, <1>3
<1>8. Children(p) \in Seq(PathType) /\ Len(Children(p)) = C
  <2>1. Children(p) \in [1 .. C -> PathType]
    BY <1>3, <1>5, <1>7
  <2>2. Children(p) \in Seq(PathType)
    BY <1>2, <2>1, SeqDef
  <2> QED
    BY <1>2, <1>7, <2>2, LenProperties
<1>9. \A k \in DOMAIN Children(p) : \E n \in there :
        n # << >> /\ Front(n) = Node(p) /\ Children(p)[k] = Child(p, Last(n))
  BY <1>7 DEF L
<1>10. \A n \in there : n # << >> /\ Front(n) = Node(p) =>
         \E k \in DOMAIN Children(p) : Children(p)[k] = Child(p, Last(n))
  <2> TAKE n \in there
  <2> HAVE n # << >> /\ Front(n) = Node(p)
  <2>1. Last(n) \in L
    BY DEF L
  <2>2. PICK k \in 1 .. C : s[k] = Last(n)
    BY <1>2, <2>1
  <2> QED
    BY <1>7, <2>2
<1>11. \A j, k \in DOMAIN Children(p) : Children(p)[j] = Children(p)[k] => j = k
  BY <1>2, <1>6, <1>7
<1> QED
  BY <1>2, <1>7, <1>8, <1>9, <1>10, <1>11

(* The children of a directory under a root, by their nodes.               *)
LEMMA ChildrenOf ==
  ASSUME Given, there \subseteq Nodes, NEW i \in DOMAIN args, NEW d, Holds(i, d)
  PROVE  LET p == PathOf(i, d) IN
         /\ Children(p) \in Seq(PathType)
         /\ \A k \in DOMAIN Children(p) : LET n == Node(Children(p)[k]) IN
              /\ n \in there /\ n # << >> /\ Front(n) = d /\ Holds(i, n) /\ n # Node(Root(i))
              /\ Children(p)[k] = PathOf(i, n)
         /\ \A n \in there : n # << >> /\ Front(n) = d =>
              \E k \in DOMAIN Children(p) : Node(Children(p)[k]) = n
         /\ \A j, k \in DOMAIN Children(p) : j # k =>
              Node(Children(p)[j]) # Node(Children(p)[k])
<1> DEFINE p == PathOf(i, d)
<1>1. p \in PathType /\ Node(p) = d
  BY Way, RootType, UnderType
<1> HIDE DEF p
<1>2. ASSUME NEW n \in there, n # << >>, Front(n) = d
      PROVE  Holds(i, n) /\ PathOf(i, n) = Child(p, Last(n)) /\ Node(Child(p, Last(n))) = n
  <2>1. n = Append(d, Last(n)) /\ Last(n) \in Name
    BY <1>2, NodeType
  <2>2. Holds(i, Append(d, Last(n))) /\ PathOf(i, Append(d, Last(n))) = Child(p, Last(n))
    BY <2>1, Deeper DEF p
  <2>3. Holds(i, n) /\ PathOf(i, n) = Child(p, Last(n))
    BY <2>1, <2>2
  <2> QED
    BY <2>3, Way
<1>3. ASSUME NEW n \in there, n # << >>, Front(n) = d
      PROVE  n # Node(Root(i))
  <2>1. d \in Seq(Part) /\ n \in Seq(Part) /\ IsPrefix(Node(Root(i)), d)
    BY <1>3, NodeType, NamesType DEF Holds
  <2>2. IsPrefix(d, n) /\ d # n
    BY <1>3, <2>1, PrefixFront
  <2> QED
    BY <2>1, <2>2, PrefixBoth
<1>4. \A k \in DOMAIN Children(p) : LET n == Node(Children(p)[k]) IN
        /\ n \in there /\ n # << >> /\ Front(n) = d /\ Holds(i, n) /\ n # Node(Root(i))
        /\ Children(p)[k] = PathOf(i, n)
  <2> TAKE k \in DOMAIN Children(p)
  <2>1. PICK n \in there : n # << >> /\ Front(n) = d /\ Children(p)[k] = Child(p, Last(n))
    BY <1>1, ChildrenAre
  <2> QED
    BY <1>2, <1>3, <2>1
<1>5. \A n \in there : n # << >> /\ Front(n) = d =>
        \E k \in DOMAIN Children(p) : Node(Children(p)[k]) = n
  <2> TAKE n \in there
  <2> HAVE n # << >> /\ Front(n) = d
  <2>1. PICK k \in DOMAIN Children(p) : Children(p)[k] = Child(p, Last(n))
    BY <1>1, ChildrenAre
  <2> QED
    BY <1>2, <2>1
<1>6. \A j, k \in DOMAIN Children(p) : j # k => Node(Children(p)[j]) # Node(Children(p)[k])
  BY <1>1, <1>4, ChildrenAre
<1>7. Children(p) \in Seq(PathType)
  BY <1>1, ChildrenAre
<1> QED
  BY <1>4, <1>5, <1>6, <1>7 DEF p

-----------------------------------------------------------------------------
(* What a step does not change.                                            *)
LEMMA Same ==
  ASSUME UNCHANGED <<flags, args>>
  PROVE  /\ Given' = Given /\ Apart' = Apart
         /\ \A i : Root(i)' = Root(i) /\ NameOf(i)' = NameOf(i)
         /\ \A i, n : /\ Holds(i, n)' = Holds(i, n) /\ PathOf(i, n)' = PathOf(i, n)
                      /\ StoredOf(i, n)' = StoredOf(i, n)
                      /\ Due(i, n)' = Due(i, n)
BY DEF Given, Apart, Root, NameOf, Holds, PathOf, StoredOf, Due, Asked

(* files with an entry more, if it is one to be stored.                    *)
Stores(kind) == kind = "file" \/ flags.special
LEMMA FoundIs ==
  ASSUME NEW p, NEW kind
  PROVE  LET e == Meta(Stored(p), p, kind) IN
         /\ BagToSet(Found(p, kind)) =
              BagToSet(files) \cup (IF Stores(kind) THEN {e} ELSE {})
         /\ \A f \in BagToSet(files) : files[f] = 1 /\ f # e => Found(p, kind)[f] = 1
         /\ e \notin BagToSet(files) /\ Stores(kind) => Found(p, kind)[e] = 1
<1> DEFINE e == Meta(Stored(p), p, kind)
           more == files (+) SetToBag({e})
<1>1. CASE ~Stores(kind)
  BY <1>1 DEF Found, Stores
<1>2. CASE Stores(kind)
  <2>1. Found(p, kind) = more
    BY <1>2 DEF Found, Stores
  <2> HIDE DEF e
  <2>2. /\ DOMAIN more = DOMAIN files \cup {e}
        /\ e \notin DOMAIN files => more[e] = 0 + 1
        /\ \A f \in DOMAIN files : f # e => more[f] = files[f] + 0
    BY DEF SetToBag, (+)
  <2> HIDE DEF more
  <2>3. /\ BagToSet(more) = BagToSet(files) \cup {e}
        /\ e \notin BagToSet(files) => more[e] = 1
        /\ \A f \in BagToSet(files) : files[f] = 1 /\ f # e => more[f] = 1
    BY <2>2 DEF BagToSet
  <2> QED
    BY <1>2, <2>1, <2>3 DEF e
<1> QED
  BY <1>1, <1>2

-----------------------------------------------------------------------------
(* The first state.                                                        *)
LEMMA InvInit ==
  ASSUME Init
  PROVE  IInv
<1>1. there \in Initials /\ steady = there /\ ever = there
  BY DEF Init
<1>2. Grown
  BY <1>1, InitialsAssumption DEF Grown, Closed
<1>3. /\ todo = << >> /\ DOMAIN todo = {} /\ DOMAIN states = {} /\ BagToSet(files) = {}
      /\ pc = "arg" /\ arg = 1 /\ dirs = {}
  BY DEF Init, EmptyBag, SetToBag, BagToSet
<1>4. Course
  <2>1. Given
    BY FlagsAssumption DEF Init, Given
  <2>2. args \in Seq(PathType)
    BY <2>1, ArgListsAssumption DEF Given
  <2>3. Len(args) \in Nat
    BY <2>2, LenProperties
  <2>4. todo \in Seq(PathType)
    BY <1>3, EmptySeq
  <2> QED
    BY <1>3, <2>1, <2>3, <2>4 DEF Course
<1>5. Ways /\ Once /\ Came /\ Recorded /\ Listed /\ Single
  BY <1>3 DEF Ways, Once, Came, Recorded, Listed, Single
<1>6. Kept
  <2>1. args \in Seq(PathType)
    BY <1>4, ArgListsAssumption DEF Course, Given
  <2>2. \A i \in DOMAIN args : i > arg \/ i = arg
    BY <1>3, <2>1, LenProperties
  <2> QED
    BY <1>3, <2>2 DEF Kept
<1>7. Shown = {}
  BY <1>3 DEF Shown
<1>8. Filled /\ Occupied
  BY <1>3, <1>7 DEF Filled, Occupied
<1> QED
  BY <1>2, <1>4, <1>5, <1>6, <1>8 DEF IInv, Walking

-----------------------------------------------------------------------------
(* The others.                                                             *)
LEMMA OthersGrown ==
  ASSUME Grown, Others
  PROVE  Grown' /\ ever \subseteq ever' /\ steady' \subseteq steady
         /\ UNCHANGED <<flags, args, arg, todo, states, files, dirs, pc>>
<1>1. ASSUME NEW now, now \subseteq Nodes, Closed(now), Changed(now)
      PROVE  Grown' /\ ever \subseteq ever' /\ steady' \subseteq steady
             /\ UNCHANGED <<flags, args, arg, todo, states, files, dirs, pc>>
  <2>1. there' = now /\ steady' = steady \cap now /\ ever' = ever \cup now
    BY <1>1 DEF Changed
  <2>2. Closed(steady \cap now)
    BY <1>1 DEF Grown, Closed
  <2>3. Closed(now) /\ now \subseteq Nodes
    BY <1>1
  <2>4. Closed(there)' /\ Closed(steady)'
    BY <2>1, <2>2, <2>3 DEF Closed
  <2>5. /\ there' \subseteq Nodes /\ steady' \subseteq there' /\ there' \subseteq ever' /\ ever' \subseteq Nodes
    BY <2>1, <2>3 DEF Grown
  <2> QED
    BY <1>1, <2>1, <2>4, <2>5 DEF Grown, Changed
<1>2. PICK n \in Nodes : RemoveNode(n) \/ MakeNode(n)
  BY DEF Others
<1>3. CASE RemoveNode(n)
  <2>1. /\ n \in there /\ Changed(there \ {n})
        /\ Tree[n] = "dir" => \A m \in there : IsPrefix(n, m) => m = n
    BY <1>3 DEF RemoveNode
  <2>2. ASSUME NEW m \in there \ {n}, m # << >>
        PROVE  Front(m) \in there \ {n}
    <3>1. Front(m) \in there /\ m \in Nodes
      BY <2>2 DEF Grown, Closed
    <3>2. Tree[Front(m)] = "dir" /\ m \in Seq(Part)
      BY <2>2, <3>1, NodeType
    <3>3. IsPrefix(Front(m), m)
      BY <2>2, <3>2, PrefixFront
    <3> QED
      BY <2>1, <2>2, <3>1, <3>2, <3>3
  <2>3. Closed(there \ {n}) /\ there \ {n} \subseteq Nodes
    BY <2>2 DEF Closed, Grown
  <2> QED
    BY <1>1, <2>1, <2>3
<1>4. CASE MakeNode(n)
  <2>1. n # << >> /\ Front(n) \in there /\ Changed(there \cup {n})
    BY <1>4 DEF MakeNode
  <2>2. Closed(there \cup {n}) /\ there \cup {n} \subseteq Nodes
    BY <2>1 DEF Closed, Grown
  <2> QED
    BY <1>1, <2>1, <2>2
<1> QED
  BY <1>2, <1>3, <1>4

LEMMA OthersStep ==
  ASSUME IInv, Others
  PROVE  IInv'
<1>1. /\ Grown' /\ ever \subseteq ever' /\ steady' \subseteq steady
      /\ UNCHANGED <<flags, args, arg, todo, states, files, dirs, pc>>
  BY OthersGrown DEF IInv, Walking
<1>2. /\ Given' = Given /\ Apart' = Apart
      /\ \A i : Root(i)' = Root(i) /\ NameOf(i)' = NameOf(i)
      /\ \A i, n : /\ Holds(i, n)' = Holds(i, n) /\ PathOf(i, n)' = PathOf(i, n)
                   /\ StoredOf(i, n)' = StoredOf(i, n) /\ Due(i, n)' = Due(i, n)
  BY <1>1, Same
<1>3. /\ \A k : At(k)' = At(k)
      /\ \A i, n : Passed(i, n)' = Passed(i, n)
      /\ root' = root /\ Entries' = Entries /\ Shown' = Shown
      /\ \A p : Stored(p)' = Stored(p)
  BY <1>1 DEF At, Passed, root, Entries, Shown, Stored
<1>4. Course'
  BY <1>1, <1>2 DEF IInv, Walking, Course
<1>5. Ways'
  BY <1>1, <1>2, <1>3 DEF IInv, Walking, Ways
<1>6. Once'
  BY <1>1, <1>3 DEF IInv, Walking, Once
<1>7. Came' /\ Recorded'
  BY <1>1, <1>2, <1>3 DEF IInv, Walking, Came, Recorded
<1>8. Listed' /\ Single'
  BY <1>1, <1>2 DEF IInv, Walking, Listed, Single
<1>9. Kept'
  <2>1. \A i, n : Seen(i, n)' = Seen(i, n) /\ Ahead(n)' = Ahead(n)
    BY <1>1, <1>2, <1>3 DEF Seen, Ahead
  <2> QED
    BY <1>1, <1>2, <2>1 DEF IInv, Kept
<1>10. Filled'
  BY <1>1, <1>2, <1>3 DEF IInv, Filled
<1>11. Occupied'
  <2>1. \A n : LeftOut(n) => LeftOut(n)'
    BY <1>1 DEF LeftOut
  <2> QED
    BY <1>1, <1>2, <1>3, <2>1 DEF IInv, Occupied
<1> QED
  BY <1>1, <1>4, <1>5, <1>6, <1>7, <1>8, <1>9, <1>10, <1>11 DEF IInv, Walking

(* Giving up, with all as it is.                                           *)
LEMMA FailStep ==
  ASSUME IInv, Fail, pc # "done"
  PROVE  IInv'
<1>1. pc' = "failed" /\ UNCHANGED <<tree, flags, args, arg, todo, states, files, dirs>>
  BY DEF Fail
<1>2. /\ Given' = Given /\ Apart' = Apart
      /\ \A i : Root(i)' = Root(i) /\ NameOf(i)' = NameOf(i)
      /\ \A i, n : /\ Holds(i, n)' = Holds(i, n) /\ PathOf(i, n)' = PathOf(i, n)
                   /\ StoredOf(i, n)' = StoredOf(i, n) /\ Due(i, n)' = Due(i, n)
  BY <1>1, Same
<1>3. /\ \A k : At(k)' = At(k)
      /\ \A i, n : Passed(i, n) => Passed(i, n)'
      /\ root' = root /\ Shown' = Shown
      /\ \A p : Stored(p)' = Stored(p)
  BY <1>1 DEF At, Passed, root, Shown, Stored
<1>4. Course'
  BY <1>1, <1>2 DEF IInv, Walking, Course
<1>5. Ways' /\ Grown'
  BY <1>1, <1>2, <1>3 DEF IInv, Walking, Ways, Grown, Closed, tree
<1>6. Once'
  BY <1>1, <1>3 DEF IInv, Walking, Once
<1>7. Came' /\ Recorded'
  BY <1>1, <1>2, <1>3 DEF IInv, Walking, Came, Recorded, tree
<1>8. Listed' /\ Single'
  BY <1>1, <1>2 DEF IInv, Walking, Listed, Single
<1>9. Kept'
  BY <1>1 DEF Kept
<1>10. Filled'
  BY <1>1, <1>2, <1>3 DEF IInv, Filled
<1>11. Occupied'
  <2>1. \A n : LeftOut(n)' = LeftOut(n)
    BY <1>1 DEF LeftOut, tree
  <2> QED
    BY <1>1, <1>2, <1>3, <2>1 DEF IInv, Occupied, tree
<1> QED
  BY <1>4, <1>5, <1>6, <1>7, <1>8, <1>9, <1>10, <1>11 DEF IInv, Walking

-----------------------------------------------------------------------------
(* One path less, and others in front of the rest.                         *)
LEMMA HeadReplaced ==
  ASSUME NEW S, NEW s \in Seq(S), s # << >>, NEW c \in Seq(S),
         NEW t, t = c \o Tail(s)
  PROVE  /\ t \in Seq(S)
         /\ 1 \in DOMAIN s /\ Head(s) = s[1]
         /\ \A k \in DOMAIN t :
              \/ k \in DOMAIN c /\ t[k] = c[k]
              \/ k - Len(c) + 1 \in DOMAIN s \ {1} /\ t[k] = s[k - Len(c) + 1]
         /\ \A j \in DOMAIN c : j \in DOMAIN t /\ t[j] = c[j]
         /\ \A j \in DOMAIN s \ {1} : j + Len(c) - 1 \in DOMAIN t /\ t[j + Len(c) - 1] = s[j]
<1> DEFINE r == Tail(s)
           m == Len(c)
           l == Len(s)
<1>1. /\ r \in Seq(S) /\ Len(r) = l - 1 /\ l \in Nat /\ m \in Nat
      /\ DOMAIN s = 1 .. l /\ DOMAIN c = 1 .. m
      /\ Head(s) = s[1]
  BY HeadTailProperties, LenProperties
<1>2. l # 0
  BY EmptySeq
<1>3. \A k \in 1 .. l - 1 : r[k] = s[k + 1]
  BY HeadTailProperties
<1> HIDE DEF r
<1>4. /\ t \in Seq(S) /\ Len(t) = m + (l - 1)
      /\ \A k \in 1 .. m + (l - 1) : t[k] = IF k <= m THEN c[k] ELSE r[k - m]
  BY <1>1, ConcatProperties DEF r
<1>5. DOMAIN t = 1 .. m + (l - 1)
  BY <1>4, LenProperties
<1> HIDE DEF m, l
<1>6. ASSUME NEW k \in 1 .. m + (l - 1), ~(k <= m)
      PROVE  k - m + 1 \in (1 .. l) \ {1} /\ t[k] = s[k - m + 1]
  <2> DEFINE j == k - m
  <2>1. j \in 1 .. l - 1 /\ k - m + 1 = j + 1 /\ j + 1 \in (1 .. l) \ {1}
    BY <1>1, <1>2, <1>6
  <2>2. t[k] = r[j]
    BY <1>4, <1>6
  <2> HIDE DEF j
  <2> QED
    BY <1>3, <2>1, <2>2
<1>7. ASSUME NEW j \in (1 .. l) \ {1}
      PROVE  j + m - 1 \in 1 .. m + (l - 1) /\ t[j + m - 1] = s[j]
  <2> DEFINE k == j + m - 1
  <2>1. k \in 1 .. m + (l - 1) /\ ~(k <= m) /\ k - m + 1 = j
    BY <1>1
  <2> HIDE DEF k
  <2>2. k \in 1 .. m + (l - 1) /\ t[k] = s[j]
    BY <1>6, <2>1
  <2> QED
    BY <2>2 DEF k
<1>8. \A j \in 1 .. m : j \in 1 .. m + (l - 1) /\ t[j] = c[j]
  BY <1>1, <1>2, <1>4
<1>9. 1 \in 1 .. l
  BY <1>1, <1>2
<1>10. \A k \in 1 .. m + (l - 1) : k <= m => k \in 1 .. m /\ t[k] = c[k]
  BY <1>1, <1>4
<1> QED
  BY <1>1, <1>4, <1>5, <1>6, <1>7, <1>8, <1>9, <1>10 DEF m, l

LEMMA CurrentIs ==
  ASSUME Walking, Visiting
  PROVE  LET n == Node(current) IN
         /\ arg \in DOMAIN args /\ 1 \in DOMAIN todo
         /\ n = At(1) /\ n \in ever /\ n \in Nodes /\ Holds(arg, n) /\ n # Node(root)
         /\ current = PathOf(arg, n) /\ Stored(current) = StoredOf(arg, n)
         /\ Dir(current) = PathOf(arg, Front(n))
         /\ Stored(Dir(current)) = StoredOf(arg, Front(n))
         /\ StoredOf(arg, Front(n)) \in DOMAIN states
         /\ n # << >> /\ Holds(arg, Front(n)) /\ Last(current.parts) = Last(n)
<1> DEFINE n == Node(current)
<1>1. todo \in Seq(PathType) /\ todo # << >> /\ arg \in DOMAIN args /\ Given
  BY DEF Walking, Course, Visiting
<1>2. 1 \in DOMAIN todo /\ current = todo[1]
  BY <1>1, EmptySeq, LenProperties, HeadTailProperties DEF current
<1>3. n = At(1)
  BY <1>2 DEF At
<1>4. /\ n \in ever /\ Holds(arg, n) /\ n # Node(root) /\ current = PathOf(arg, n)
      /\ Stored(Dir(current)) \in DOMAIN states
  BY <1>2, <1>3 DEF Walking, Ways
<1>5. n \in Nodes
  BY <1>4 DEF Walking, Grown
<1> HIDE DEF n
<1>6. /\ n # << >> /\ Holds(arg, Front(n))
      /\ Dir(PathOf(arg, n)) = PathOf(arg, Front(n))
      /\ Last(PathOf(arg, n).parts) = Last(n)
  BY <1>1, <1>4, Shallower DEF root, Root
<1>7. \A m : Stored(PathOf(arg, m)) = StoredOf(arg, m)
  BY DEF Stored, StoredOf, root
<1> QED
  BY <1>1, <1>2, <1>3, <1>4, <1>5, <1>6, <1>7 DEF n

(* Paths to put in place of the one at hand: they lead to nodes in it.     *)
Fresh(c) ==
  /\ c \in Seq(PathType)
  /\ \A j \in DOMAIN c : LET n == Node(c[j]) IN
       /\ n \in ever /\ n # << >> /\ Front(n) = At(1) /\ Holds(arg, n) /\ n # Node(root)
       /\ c[j] = PathOf(arg, n)
  /\ \A j, k \in DOMAIN c : j # k => Node(c[j]) # Node(c[k])

LEMMA NextPaths ==
  ASSUME Walking, Visiting, NEW c, Fresh(c), todo' = c \o Tail(todo),
         UNCHANGED <<tree, flags, args, arg, pc>>, DOMAIN states \subseteq DOMAIN states',
         c # << >> => Stored(current) \in DOMAIN states'
  PROVE  /\ Course' /\ Ways' /\ Once'
         /\ \A i, n : Holds(i, n) /\ Passed(i, n) => Passed(i, n)'
         /\ \A i, n : i = arg /\ n = At(1) => Passed(i, n)'
         /\ \A n \in Nodes : Ahead(n) => IsPrefix(At(1), n) \/ Ahead(n)'
         /\ \A j \in DOMAIN c, n \in Nodes : IsPrefix(Node(c[j]), n) => Ahead(n)'
<1> DEFINE h == At(1)
           m == Len(c)
<1>1. todo \in Seq(PathType) /\ todo # << >> /\ c \in Seq(PathType) /\ pc = "walk"
  BY DEF Walking, Course, Visiting, Fresh
<1>2. /\ todo' \in Seq(PathType)
      /\ 1 \in DOMAIN todo
      /\ \A k \in DOMAIN todo' :
           \/ k \in DOMAIN c /\ todo'[k] = c[k]
           \/ k - m + 1 \in DOMAIN todo \ {1} /\ todo'[k] = todo[k - m + 1]
      /\ \A j \in DOMAIN c : j \in DOMAIN todo' /\ todo'[j] = c[j]
      /\ \A j \in DOMAIN todo \ {1} : j + m - 1 \in DOMAIN todo' /\ todo'[j + m - 1] = todo[j]
  BY <1>1, HeadReplaced
<1>3. /\ Given' = Given
      /\ \A i, n : /\ Holds(i, n)' = Holds(i, n) /\ PathOf(i, n)' = PathOf(i, n)
                   /\ StoredOf(i, n)' = StoredOf(i, n)
  BY Same
<1>4. root' = root /\ \A p : Stored(p)' = Stored(p)
  BY DEF root, Stored
<1>5. \A k : At(k)' = Node(todo'[k])
  BY DEF At
<1>6. /\ h \in Seq(Part) /\ h \in Nodes /\ Holds(arg, h) /\ h # Node(root)
      /\ current = PathOf(arg, h) /\ Stored(current) = StoredOf(arg, h) /\ arg \in DOMAIN args /\ Given
  <2>1. h = Node(current)
    BY CurrentIs
  <2> QED
    BY <2>1, CurrentIs, NodeType DEF Walking, Course
<1>7. \A k \in DOMAIN todo : At(k) \in Seq(Part)
  BY NodeType DEF Walking, Grown, Ways
<1>8. ASSUME NEW j \in DOMAIN c
      PROVE  LET n == Node(c[j]) IN
             /\ n \in Seq(Part) /\ n \in Nodes /\ IsPrefix(h, n) /\ h # n
             /\ \A k \in DOMAIN todo \ {1} : ~IsPrefix(At(k), n) /\ ~IsPrefix(n, At(k))
             /\ ~IsPrefix(n, h)
             /\ Stored(Dir(c[j])) = StoredOf(arg, h)
  <2> DEFINE n == Node(c[j])
  <2>1. n \in ever /\ n # << >> /\ Front(n) = h /\ Holds(arg, n) /\ n # Node(root) /\ c[j] = PathOf(arg, n)
    BY <1>8 DEF Fresh
  <2>2. n \in Nodes /\ n \in Seq(Part)
    BY <2>1, NodeType DEF Walking, Grown
  <2> HIDE DEF n, h
  <2>3. IsPrefix(h, n) /\ h # n /\ \A s \in Seq(Part) : IsPrefix(s, n) <=> s = n \/ IsPrefix(s, h)
    BY <2>1, <2>2, PrefixFront
  <2>4. ~IsPrefix(n, h)
    BY <1>6, <2>2, <2>3, PrefixBoth
  <2>5. ASSUME NEW k \in DOMAIN todo \ {1}
        PROVE  ~IsPrefix(At(k), n) /\ ~IsPrefix(n, At(k))
    <3>1. ~IsPrefix(At(k), h) /\ ~IsPrefix(h, At(k))
      BY <1>2 DEF h, Walking, Once
    <3>2. At(k) \in Seq(Part)
      BY <1>7
    <3>3. IsPrefix(n, At(k)) => IsPrefix(h, At(k))
      BY <1>6, <2>2, <2>3, <3>2, PrefixTransitive
    <3> QED
      BY <2>3, <3>1, <3>2, <3>3
  <2>6. Dir(PathOf(arg, n)) = PathOf(arg, Front(n))
    BY <1>6, <2>1, Shallower DEF root, Root
  <2>7. Stored(Dir(c[j])) = StoredOf(arg, h)
    BY <2>1, <2>6 DEF Stored, StoredOf, root
  <2> QED
    BY <2>2, <2>3, <2>4, <2>5, <2>7 DEF n
<1> HIDE DEF m
<1>9. Course'
  <2>1. pc' = pc /\ args' = args /\ arg' = arg
    OBVIOUS
  <2> QED
    BY <1>1, <1>2, <1>3, <1>6, <2>1 DEF Walking, Course
<1>10. Ways'
  <2>1. ever' = ever /\ arg' = arg
    BY DEF tree
  <2> SUFFICES ASSUME NEW k \in DOMAIN todo'
               PROVE  LET n == Node(todo'[k]) IN
                      /\ n \in ever /\ Holds(arg, n) /\ n # Node(root)
                      /\ todo'[k] = PathOf(arg, n)
                      /\ Stored(Dir(todo'[k])) \in DOMAIN states'
    BY <1>3, <1>4, <1>5, <2>1 DEF Ways
  <2>2. CASE k \in DOMAIN c /\ todo'[k] = c[k]
    <3>1. c # << >>
      BY <2>2
    <3>2. StoredOf(arg, h) \in DOMAIN states'
      BY <1>6, <3>1
    <3> QED
      BY <1>8, <2>2, <3>2 DEF Fresh
  <2>3. CASE k - m + 1 \in DOMAIN todo \ {1} /\ todo'[k] = todo[k - m + 1]
    BY <2>3 DEF Walking, Ways, At
  <2> QED
    BY <1>2, <2>2, <2>3
<1>11. Once'
  <2> SUFFICES ASSUME NEW j \in DOMAIN todo', NEW k \in DOMAIN todo', j # k
               PROVE  ~IsPrefix(Node(todo'[j]), Node(todo'[k]))
    BY <1>5 DEF Once
  <2>1. CASE j \in DOMAIN c /\ todo'[j] = c[j] /\ k \in DOMAIN c /\ todo'[k] = c[k]
    <3>1. /\ Node(c[j]) # Node(c[k]) /\ Front(Node(c[k])) = h /\ Node(c[k]) # << >>
          /\ Node(c[j]) \in Seq(Part) /\ Node(c[k]) \in Seq(Part) /\ ~IsPrefix(Node(c[j]), h)
      BY <1>8, <2>1 DEF Fresh
    <3> QED
      BY <2>1, <3>1, PrefixFront
  <2>2. CASE j \in DOMAIN c /\ todo'[j] = c[j] /\ k - m + 1 \in DOMAIN todo \ {1} /\ todo'[k] = todo[k - m + 1]
    BY <1>8, <2>2 DEF At
  <2>3. CASE k \in DOMAIN c /\ todo'[k] = c[k] /\ j - m + 1 \in DOMAIN todo \ {1} /\ todo'[j] = todo[j - m + 1]
    BY <1>8, <2>3 DEF At
  <2>4. CASE /\ j - m + 1 \in DOMAIN todo \ {1} /\ todo'[j] = todo[j - m + 1]
             /\ k - m + 1 \in DOMAIN todo \ {1} /\ todo'[k] = todo[k - m + 1]
    <3>1. DOMAIN todo' \subseteq Nat /\ m \in Nat
      BY <1>1, <1>2, LenProperties DEF m
    <3>2. j - m + 1 # k - m + 1
      BY <3>1
    <3> QED
      BY <2>4, <3>2 DEF Walking, Once, At
  <2> QED
    BY <1>2, <2>1, <2>2, <2>3, <2>4
<1>12. ASSUME NEW n \in Seq(Part), \A k \in DOMAIN todo \ {1} : ~IsPrefix(At(k), n),
              \A j \in DOMAIN c : ~IsPrefix(Node(c[j]), n)
       PROVE  \A k \in DOMAIN todo' : ~IsPrefix(At(k), n)'
  BY <1>2, <1>5, <1>12 DEF At
<1>13. ASSUME NEW i, NEW n, Holds(i, n), Passed(i, n)
       PROVE  Passed(i, n)'
  <2>1. CASE i < arg
    BY <2>1 DEF Passed
  <2>2. CASE i = arg /\ \A k \in DOMAIN todo : ~IsPrefix(At(k), n)
    <3>1. n \in Seq(Part)
      BY <1>13, NamesType DEF Holds
    <3>2. \A j \in DOMAIN c : ~IsPrefix(Node(c[j]), n)
      BY <1>2, <1>6, <1>8, <2>2, <3>1, PrefixTransitive
    <3>3. \A k \in DOMAIN todo' : ~IsPrefix(At(k), n)'
      BY <1>12, <2>2, <3>1, <3>2
    <3> QED
      BY <1>1, <2>2, <3>3 DEF Passed
  <2> QED
    BY <1>13, <2>1, <2>2 DEF Passed
<1>14. ASSUME NEW i, NEW n, i = arg, n = h
       PROVE  Passed(i, n)'
  <2>1. \A k \in DOMAIN todo \ {1} : ~IsPrefix(At(k), h)
    BY <1>2 DEF Walking, Once
  <2>2. \A j \in DOMAIN c : ~IsPrefix(Node(c[j]), h)
    BY <1>8
  <2>3. \A k \in DOMAIN todo' : ~IsPrefix(At(k), n)'
    BY <1>6, <1>12, <1>14, <2>1, <2>2
  <2> QED
    BY <1>1, <1>14, <2>3 DEF Passed
<1>15. \A n \in Nodes : Ahead(n) => IsPrefix(h, n) \/ Ahead(n)'
  BY <1>2, <1>5 DEF Ahead, At
<1>16. \A j \in DOMAIN c, n \in Nodes : IsPrefix(Node(c[j]), n) => Ahead(n)'
  BY <1>2, <1>5 DEF Ahead
<1> QED
  BY <1>9, <1>10, <1>11, <1>13, <1>14, <1>15, <1>16

(* What lies below something hidden has it on its way from the root.       *)
LEMMA HiddenBelow ==
  ASSUME Given, NEW i \in DOMAIN args, NEW n \in Nodes, NEW h, Holds(i, h), h # Node(Root(i)),
         IsPrefix(h, n), Last(h) \in Hidden
  PROVE  LET rest == SubSeq(n, Len(Node(Root(i))) + 1, Len(n)) IN
         rest # << >> /\ Range(rest) \cap Hidden # {}
<1> DEFINE r == Node(Root(i))
           rest == After(r, n)
           k == Len(h) - Len(r)
<1>1. r \in Seq(Part) /\ h \in Seq(Part) /\ n \in Seq(Part) /\ IsPrefix(r, h)
  BY RootType, NamesType, NodeType DEF Holds
<1>2. IsPrefix(r, n) /\ r # h
  BY <1>1, PrefixTransitive
<1>3. rest \in Seq(Part) /\ r \o rest = n
  BY <1>1, <1>2, AfterPrefix
<1> HIDE DEF rest, r
<1>4. /\ Len(r) \in Nat /\ Len(h) \in Nat /\ Len(rest) \in Nat
      /\ Len(n) = Len(r) + Len(rest) /\ DOMAIN rest = 1 .. Len(rest)
      /\ \A j \in 1 .. Len(r) + Len(rest) : n[j] = IF j <= Len(r) THEN r[j] ELSE rest[j - Len(r)]
  BY <1>1, <1>3, ConcatProperties, LenProperties
<1>5. /\ Len(r) <= Len(h) /\ Len(h) <= Len(n)
      /\ \A j \in 1 .. Len(h) : h[j] = n[j]
  BY <1>1, PrefixIs
<1>6. Len(r) # Len(h)
  <2>1. SUFFICES ASSUME Len(r) = Len(h) PROVE FALSE
    OBVIOUS
  <2>2. \A j \in 1 .. Len(r) : r[j] = h[j]
    BY <1>1, PrefixIs
  <2>3. IsPrefix(h, r)
    BY <1>1, <2>1, <2>2, PrefixIs
  <2> QED
    BY <1>1, <1>2, <2>3, PrefixBoth
<1>7. k \in 1 .. Len(rest) /\ Len(h) \in 1 .. Len(r) + Len(rest) /\ Len(h) \in 1 .. Len(h) /\ ~(Len(h) <= Len(r))
  BY <1>4, <1>5, <1>6
<1>8. rest[k] = h[Len(h)]
  BY <1>4, <1>5, <1>7
<1>9. Last(h) \in Range(rest)
  BY <1>4, <1>7, <1>8 DEF Last, Range
<1>10. rest # << >>
  BY <1>7, <1>4
<1>11. rest = SubSeq(n, Len(r) + 1, Len(n))
  BY DEF rest, After
<1>12. Range(rest) \cap Hidden # {}
  BY <1>9
<1> QED
  BY <1>10, <1>11, <1>12 DEF r

(* It is not asked for.                                                    *)
LEMMA NotAsked ==
  ASSUME Given, NEW i \in DOMAIN args, NEW n \in Nodes, NEW h, Holds(i, h), h # Node(Root(i)),
         IsPrefix(h, n), ~flags.invis, Last(h) \in Hidden
  PROVE  ~Asked(i, n)
BY HiddenBelow DEF Asked, Root

(* Nothing is shown before it is visited.                                  *)
LEMMA ShownPassed ==
  ASSUME Given, Came, Recorded, Apart,
         NEW i \in DOMAIN args, NEW n, Holds(i, n), StoredOf(i, n) \in Shown
  PROVE  n \in ever /\ Passed(i, n)
<1>1. PICK j \in DOMAIN args, m \in ever : Holds(j, m) /\ Passed(j, m) /\ StoredOf(i, n) = StoredOf(j, m)
  <2>1. CASE StoredOf(i, n) \in DOMAIN states
    BY <2>1 DEF Recorded
  <2>2. CASE \E e \in BagToSet(files) : StoredOf(i, n) = e.path
    BY <2>2 DEF Came, Meta
  <2> QED
    BY <2>1, <2>2 DEF Shown
<1>2. IsPrefix(StoredOf(i, n).parts, StoredOf(j, m).parts)
  BY <1>1, StoredParts, PathIs, PrefixReflexive
<1>3. i = j
  BY <1>1, <1>2, StoredApart
<1>4. n = m
  BY <1>1, <1>3, StoredOnce
<1> QED
  BY <1>1, <1>3, <1>4

(* Two nodes stored under one name are one.                                *)
LEMMA StoredSame ==
  ASSUME Given, Apart,
         NEW i \in DOMAIN args, NEW n, Holds(i, n), NEW j \in DOMAIN args, NEW m, Holds(j, m),
         StoredOf(i, n) = StoredOf(j, m)
  PROVE  i = j /\ n = m
<1>1. IsPrefix(StoredOf(i, n).parts, StoredOf(j, m).parts)
  BY StoredParts, PathIs, PrefixReflexive
<1>2. i = j
  BY <1>1, StoredApart
<1> QED
  BY <1>2, StoredOnce

-----------------------------------------------------------------------------
(* A step that finds nothing.                                              *)
LEMMA QuietStep ==
  ASSUME IInv, UNCHANGED <<tree, flags, args, states, files>>,
         Course', Ways', Once', Listed', Kept',
         \A i, n : i \in DOMAIN args /\ Holds(i, n) /\ Passed(i, n) => Passed(i, n)'
  PROVE  IInv'
<1>2. /\ Given' = Given /\ Apart' = Apart
      /\ \A i : Root(i)' = Root(i) /\ NameOf(i)' = NameOf(i)
      /\ \A i, n : /\ Holds(i, n)' = Holds(i, n) /\ PathOf(i, n)' = PathOf(i, n)
                   /\ StoredOf(i, n)' = StoredOf(i, n) /\ Due(i, n)' = Due(i, n)
  BY Same
<1>3. Shown' = Shown
  BY DEF Shown
<1>5. Grown'
  BY DEF IInv, Walking, Grown, Closed, tree
<1>7. Came' /\ Recorded'
  BY <1>2 DEF IInv, Walking, Came, Recorded, tree
<1>8. Single'
  BY <1>2 DEF IInv, Single
<1>10. Filled'
  BY <1>2, <1>3 DEF IInv, Filled
<1>11. Occupied'
  <2>1. \A n : LeftOut(n)' = LeftOut(n)
    BY DEF LeftOut, tree
  <2> QED
    BY <1>2, <1>3, <2>1 DEF IInv, Occupied, tree
<1> QED
  BY <1>5, <1>7, <1>8, <1>10, <1>11 DEF IInv, Walking

LEMMA NoneFresh ==
  ASSUME Walking, Visiting
  PROVE  Tail(todo) = << >> \o Tail(todo) /\ Fresh(<< >>)
<1>1. Tail(todo) \in Seq(PathType)
  BY HeadTailProperties DEF Walking, Course, Visiting
<1> QED
  BY <1>1, ConcatEmptySeq, EmptySeq DEF Fresh

LEMMA VisitHiddenStep ==
  ASSUME IInv, VisitHidden
  PROVE  IInv'
<1>1. /\ Walking /\ Visiting /\ Kept /\ Listed /\ pc = "walk" /\ ~flags.invis
      /\ Last(current.parts) \in Hidden
      /\ todo' = Tail(todo) /\ UNCHANGED <<tree, flags, args, arg, states, files, dirs, pc>>
  BY DEF IInv, Walking, VisitHidden, Visiting, PassedOver
<1>2. todo \in Seq(PathType) /\ todo # << >> /\ Given /\ Grown
  BY <1>1 DEF Walking, Course, Visiting
<1>3. todo' = << >> \o Tail(todo) /\ Fresh(<< >>)
  BY <1>1, NoneFresh
<1>5. /\ Course' /\ Ways' /\ Once'
      /\ \A i, n : Holds(i, n) /\ Passed(i, n) => Passed(i, n)'
      /\ \A n \in Nodes : Ahead(n) => IsPrefix(At(1), n) \/ Ahead(n)'
  BY <1>1, <1>3, NextPaths
<1>6. /\ arg \in DOMAIN args /\ Holds(arg, At(1)) /\ At(1) # Node(Root(arg))
      /\ Last(At(1)) \in Hidden
  BY <1>1, CurrentIs DEF root, Root
<1>7. Kept'
  <2>1. \A i, n : Due(i, n)' = Due(i, n) /\ Seen(i, n)' = Seen(i, n)
    BY <1>1, Same DEF Seen, Entries
  <2>2. \A n \in steady : Due(arg, n) => ~IsPrefix(At(1), n)
    BY <1>1, <1>2, <1>6, NotAsked DEF Due, Grown
  <2>3. steady' = steady /\ steady \subseteq Nodes
    BY <1>1, <1>2 DEF tree, Grown
  <2>4. \A n \in steady : Due(arg, n) /\ Ahead(n) => Ahead(n)'
    BY <1>5, <2>2, <2>3
  <2> QED
    BY <1>1, <2>1, <2>3, <2>4 DEF Kept
<1>8. Listed'
  BY <1>1 DEF Listed
<1> QED
  BY <1>1, <1>5, <1>7, <1>8, QuietStep

LEMMA WalkEndsStep ==
  ASSUME IInv, WalkEnds
  PROVE  IInv'
<1>1. /\ pc = "walk" /\ todo = << >> /\ arg' = arg + 1 /\ pc' = "arg"
      /\ UNCHANGED <<tree, flags, args, todo, states, files, dirs>>
      /\ Course /\ Ways /\ Once /\ Listed /\ Kept /\ Given
  BY DEF WalkEnds, IInv, Walking, Course
<1>2. args \in Seq(PathType) /\ Len(args) \in Nat /\ DOMAIN args = 1 .. Len(args) /\ arg \in 1 .. Len(args)
  BY <1>1, ArgListsAssumption, LenProperties DEF Course, Given
<1>3. Course'
  BY <1>1, <1>2, Same DEF Course
<1>4. DOMAIN todo = {} /\ todo' = todo
  BY <1>1
<1>5. Ways' /\ Once'
  BY <1>4 DEF Ways, Once
<1>6. Listed'
  BY <1>1 DEF Listed
<1>7. Kept'
  <2>1. \A i, n : Due(i, n)' = Due(i, n) /\ Seen(i, n)' = Seen(i, n) /\ ~Ahead(n)
    BY <1>1, <1>4, Same DEF Seen, Entries, Ahead
  <2>2. steady' = steady /\ args' = args
    BY <1>1 DEF tree
  <2>3. \A i \in DOMAIN args : i > arg => i > arg' \/ i = arg'
    BY <1>1, <1>2
  <2> QED
    BY <1>1, <2>1, <2>2, <2>3 DEF Kept
<1>8. \A i, n : i \in DOMAIN args /\ Holds(i, n) /\ Passed(i, n) => Passed(i, n)'
  BY <1>1, <1>2 DEF Passed
<1> QED
  BY <1>1, <1>3, <1>5, <1>6, <1>7, <1>8, QuietStep

LEMMA CollectStep ==
  ASSUME IInv, Collect
  PROVE  IInv'
<1>1. /\ pc = "arg" /\ arg > Len(args) /\ dirs' = {p \in DOMAIN states : states[p] = 0} /\ pc' = "done"
      /\ UNCHANGED <<tree, flags, args, arg, todo, states, files>>
      /\ Course /\ Ways /\ Once /\ Kept /\ Given
  BY DEF Collect, IInv, Walking, Course
<1>2. args \in Seq(PathType) /\ Len(args) \in Nat /\ DOMAIN args = 1 .. Len(args) /\ arg \in 1 .. Len(args) + 1
  BY <1>1, ArgListsAssumption, LenProperties DEF Course, Given
<1>3. Course'
  BY <1>1, <1>2, Same DEF Course
<1>4. DOMAIN todo = {} /\ todo' = todo
  BY <1>1 DEF Course
<1>5. Ways' /\ Once'
  BY <1>4 DEF Ways, Once
<1>6. Listed'
  BY <1>1 DEF Listed
<1>7. \A i \in DOMAIN args : i < arg /\ ~(i > arg) /\ i # arg
  BY <1>1, <1>2
<1>8. Kept'
  <2>1. \A i, n : Due(i, n)' = Due(i, n) /\ Seen(i, n)' = Seen(i, n)
    BY <1>1, Same DEF Seen, Entries
  <2>2. steady' = steady /\ args' = args
    BY <1>1 DEF tree
  <2> QED
    BY <1>1, <1>7, <2>1, <2>2 DEF Kept
<1>9. \A i, n : i \in DOMAIN args /\ Holds(i, n) /\ Passed(i, n) => Passed(i, n)'
  BY <1>1, <1>7 DEF Passed
<1> QED
  BY <1>1, <1>3, <1>5, <1>6, <1>8, <1>9, QuietStep

-----------------------------------------------------------------------------
(* A step that visits a node and counts it in its directory.               *)
LEMMA Reckoned ==
  ASSUME IInv, UNCHANGED <<tree, flags, args>>, arg \in DOMAIN args,
         NEW h \in ever, Holds(arg, h), NEW d, d = StoredOf(arg, h),
         Shown \subseteq Shown', Shown' \subseteq Shown \cup {d},
         DOMAIN states \subseteq DOMAIN states',
         h # Node(Root(arg)) =>
           /\ StoredOf(arg, Front(h)) \in DOMAIN states
           /\ d \in Shown' \/ (Tree[h] \notin {"file", "dir"} /\ ~flags.special),
         Apart =>
           /\ \A p \in DOMAIN states : states[p] > 0 => states'[p] > 0
           /\ h # Node(Root(arg)) => states'[StoredOf(arg, Front(h))] > 0
           /\ \A p \in DOMAIN states' : states'[p] > 0 =>
                \/ p \in DOMAIN states /\ states[p] > 0
                \/ h # Node(Root(arg)) /\ p = StoredOf(arg, Front(h))
  PROVE  Filled' /\ Occupied'
<1>1. Given /\ Grown /\ Filled /\ Occupied /\ h \in Nodes
  BY DEF IInv, Walking, Course, Grown
<1>2. /\ Apart' = Apart
      /\ \A i : Root(i)' = Root(i)
      /\ \A i, n : Holds(i, n)' = Holds(i, n) /\ StoredOf(i, n)' = StoredOf(i, n)
  BY Same
<1>3. \A i, n : Node(Root(i))' = Node(Root(i))
  BY <1>2
<1>4. ASSUME Apart, NEW i \in DOMAIN args, NEW n \in Nodes, Holds(i, n), n # Node(Root(i)),
             StoredOf(i, n) \in Shown'
      PROVE  StoredOf(i, Front(n)) \in DOMAIN states' /\ states'[StoredOf(i, Front(n))] > 0
  <2>1. CASE StoredOf(i, n) \in Shown
    <3>1. StoredOf(i, Front(n)) \in DOMAIN states /\ states[StoredOf(i, Front(n))] > 0
      BY <1>1, <1>4, <2>1 DEF Filled
    <3> QED
      BY <1>4, <3>1
  <2>2. CASE StoredOf(i, n) = d
    <3>1. i = arg /\ n = h
      BY <1>1, <1>4, <2>2, StoredSame
    <3> QED
      BY <1>4, <3>1
  <2> QED
    BY <1>4, <2>1, <2>2
<1>5. Filled'
  BY <1>2, <1>3, <1>4 DEF Filled
<1>6. ASSUME Apart, NEW i \in DOMAIN args, NEW n \in Nodes, Holds(i, n),
             StoredOf(i, n) \in DOMAIN states', states'[StoredOf(i, n)] > 0
      PROVE  \/ LeftOut(n)
             \/ \E m \in ever : m # << >> /\ Front(m) = n /\ Holds(i, m) /\ StoredOf(i, m) \in Shown'
  <2>1. CASE StoredOf(i, n) \in DOMAIN states /\ states[StoredOf(i, n)] > 0
    BY <1>1, <1>6, <2>1 DEF Occupied
  <2>2. CASE h # Node(Root(arg)) /\ StoredOf(i, n) = StoredOf(arg, Front(h))
    <3>1. h # << >> /\ Holds(arg, Front(h)) /\ h \in Seq(Part)
      BY <1>1, <2>2, Shallower, NodeType
    <3>2. i = arg /\ n = Front(h)
      BY <1>1, <1>6, <2>2, <3>1, StoredSame
    <3>3. IsPrefix(n, h)
      BY <3>1, <3>2, PrefixFront, AppendFront
    <3> QED
      BY <2>2, <3>1, <3>2, <3>3 DEF LeftOut
  <2> QED
    BY <1>6, <2>1, <2>2
<1>7. \A n : LeftOut(n)' = LeftOut(n)
  BY DEF LeftOut, tree
<1>8. Occupied'
  BY <1>2, <1>6, <1>7 DEF Occupied, tree
<1> QED
  BY <1>5, <1>8

(* The table, with the parent counted and the directory entered.           *)
LEMMA EnteredIs ==
  ASSUME NEW key, NEW table
  PROVE  /\ DOMAIN Entered(key, table) = DOMAIN table \cup {key}
         /\ Entered(key, table)[key] = 0
         /\ \A p \in DOMAIN table : p # key => Entered(key, table)[p] = table[p]
BY DEF Entered

LEMMA CountedIs ==
  ASSUME Walking, Visiting
  PROVE  LET up == StoredOf(arg, Front(Node(current))) IN
         /\ up \in DOMAIN states /\ DOMAIN Counted = DOMAIN states
         /\ \A p \in DOMAIN states : Counted[p] \in Nat /\ states[p] \in Nat
         /\ Counted[up] > 0
         /\ \A p \in DOMAIN states : states[p] > 0 => Counted[p] > 0
         /\ \A p \in DOMAIN states : Counted[p] > 0 => states[p] > 0 \/ p = up
<1> DEFINE up == StoredOf(arg, Front(Node(current)))
<1>1. up \in DOMAIN states /\ Stored(Dir(current)) = up
  BY CurrentIs
<1> HIDE DEF up
<1>2. \A p \in DOMAIN states : states[p] \in Nat
  BY DEF Walking, Recorded
<1>3. Counted = [states EXCEPT ![up] = @ + 1]
  BY <1>1 DEF Counted
<1>4. /\ DOMAIN Counted = DOMAIN states
      /\ \A p \in DOMAIN states : Counted[p] = IF p = up THEN states[p] + 1 ELSE states[p]
  BY <1>3
<1> QED
  BY <1>1, <1>2, <1>4 DEF up

(* A step that finds a node not visited before.                            *)
LEMMA FoundStep ==
  ASSUME IInv, UNCHANGED <<tree, flags, args>>, arg \in DOMAIN args,
         NEW h \in ever, Holds(arg, h), ~Passed(arg, h), \A i : i = arg => Passed(i, h)',
         files' = Found(PathOf(arg, h), Tree[h]),
         \A i, n : i \in DOMAIN args /\ Holds(i, n) /\ Passed(i, n) => Passed(i, n)'
  PROVE  /\ Came' /\ Single'
         /\ {e.path : e \in BagToSet(files')} =
              {e.path : e \in BagToSet(files)} \cup (IF Stores(Tree[h]) THEN {StoredOf(arg, h)} ELSE {})
         /\ Entries \subseteq Entries'
         /\ Stores(Tree[h]) => [path |-> StoredOf(arg, h), src |-> PathOf(arg, h)] \in Entries'
<1>1. Given /\ Came /\ Recorded /\ Single
  BY DEF IInv, Walking, Course
<1>2. /\ Apart' = Apart
      /\ \A i, n : /\ Holds(i, n)' = Holds(i, n) /\ StoredOf(i, n)' = StoredOf(i, n)
                   /\ PathOf(i, n)' = PathOf(i, n)
  BY Same
<1> DEFINE e == Meta(StoredOf(arg, h), PathOf(arg, h), Tree[h])
<1>3. Stored(PathOf(arg, h)) = StoredOf(arg, h)
  BY DEF Stored, StoredOf, root
<1>4. /\ BagToSet(files') = BagToSet(files) \cup (IF Stores(Tree[h]) THEN {e} ELSE {})
      /\ \A f \in BagToSet(files) : files[f] = 1 /\ f # e => files'[f] = 1
      /\ e \notin BagToSet(files) /\ Stores(Tree[h]) => files'[e] = 1
  BY <1>3, FoundIs
<1>5. e.path = StoredOf(arg, h) /\ e.src = PathOf(arg, h)
  BY DEF Meta
<1>e. \E i \in DOMAIN args : i = arg /\ Holds(i, h) /\ Passed(i, h)'
        /\ e = Meta(StoredOf(i, h), PathOf(i, h), Tree[h])
  OBVIOUS
<1> HIDE DEF e
<1>6. Came'
  <2>1. \A f \in BagToSet(files) : \E i \in DOMAIN args, n \in ever :
          Holds(i, n) /\ Passed(i, n)' /\ f = Meta(StoredOf(i, n), PathOf(i, n), Tree[n])
    BY <1>1 DEF Came
  <2>2. \A f \in BagToSet(files') : \E i \in DOMAIN args, n \in ever :
          Holds(i, n) /\ Passed(i, n)' /\ f = Meta(StoredOf(i, n), PathOf(i, n), Tree[n])
    <3>1. TAKE f \in BagToSet(files')
    <3>2. f \in BagToSet(files) \/ f = e
      BY <1>4
    <3>3. CASE f = e
      BY <1>e, <3>3
    <3> QED
      BY <2>1, <3>2, <3>3
  <2> QED
    BY <1>2, <2>2 DEF Came, tree
<1>7. Single'
  <2> SUFFICES ASSUME Apart, NEW f \in BagToSet(files')
               PROVE  files'[f] = 1
    BY <1>2 DEF Single
  <2>1. e \notin BagToSet(files)
    <3>1. SUFFICES ASSUME e \in BagToSet(files) PROVE FALSE
      OBVIOUS
    <3>2. StoredOf(arg, h) \in Shown
      BY <1>5, <3>1 DEF Shown
    <3> QED
      BY <1>1, <3>2, ShownPassed
  <2> QED
    BY <1>1, <1>4, <2>1 DEF Single
<1>8. {f.path : f \in BagToSet(files')} =
        {f.path : f \in BagToSet(files)} \cup (IF Stores(Tree[h]) THEN {StoredOf(arg, h)} ELSE {})
  BY <1>4, <1>5
<1>9. /\ Entries \subseteq Entries'
      /\ Stores(Tree[h]) => [path |-> StoredOf(arg, h), src |-> PathOf(arg, h)] \in Entries'
  BY <1>4, <1>5 DEF Entries
<1> QED
  BY <1>6, <1>7, <1>8, <1>9

LEMMA VisitFileStep ==
  ASSUME IInv, VisitFile
  PROVE  IInv'
<1>0. PICK h : h = At(1)
  OBVIOUS
<1>1. /\ Walking /\ Visiting /\ Kept /\ Listed /\ Recorded /\ Given /\ Grown /\ pc = "walk"
      /\ states' = Counted /\ files' = Found(current, Tree[Node(current)])
      /\ todo' = Tail(todo) /\ UNCHANGED <<tree, flags, args, arg, dirs, pc>>
      /\ Tree[Node(current)] # "dir"
  BY DEF IInv, Walking, Course, VisitFile, Visiting
<1>2. /\ arg \in DOMAIN args /\ 1 \in DOMAIN todo
      /\ Node(current) = h /\ h \in ever /\ h \in Nodes /\ Holds(arg, h) /\ h # Node(Root(arg))
      /\ current = PathOf(arg, h) /\ Stored(current) = StoredOf(arg, h) /\ h \in Seq(Part)
  BY <1>0, <1>1, CurrentIs, NodeType DEF root, Root
<1>3. /\ DOMAIN states' = DOMAIN states
      /\ \A p \in DOMAIN states : states'[p] \in Nat
      /\ StoredOf(arg, Front(h)) \in DOMAIN states /\ states'[StoredOf(arg, Front(h))] > 0
      /\ \A p \in DOMAIN states : states[p] > 0 => states'[p] > 0
      /\ \A p \in DOMAIN states : states'[p] > 0 => states[p] > 0 \/ p = StoredOf(arg, Front(h))
  BY <1>1, <1>2, CountedIs
<1>4. todo' = << >> \o Tail(todo) /\ Fresh(<< >>)
  BY <1>1, NoneFresh
<1>5. /\ Course' /\ Ways' /\ Once'
      /\ \A i, n : Holds(i, n) /\ Passed(i, n) => Passed(i, n)'
      /\ \A i, n : i = arg /\ n = h => Passed(i, n)'
      /\ \A n \in Nodes : Ahead(n) => IsPrefix(h, n) \/ Ahead(n)'
  BY <1>0, <1>1, <1>3, <1>4, NextPaths
<1>6. ~Passed(arg, h)
  <2>1. IsPrefix(At(1), h)
    BY <1>0, <1>2, PrefixReflexive
  <2>2. arg \in Nat
    BY <1>1, ArgListsAssumption, LenProperties DEF Walking, Course
  <2> QED
    BY <1>2, <2>1, <2>2 DEF Passed
<1>7. /\ Came' /\ Single'
      /\ {e.path : e \in BagToSet(files')} =
           {e.path : e \in BagToSet(files)} \cup (IF Stores(Tree[h]) THEN {StoredOf(arg, h)} ELSE {})
      /\ Entries \subseteq Entries'
      /\ Stores(Tree[h]) => [path |-> StoredOf(arg, h), src |-> PathOf(arg, h)] \in Entries'
  BY <1>1, <1>2, <1>5, <1>6, FoundStep
<1>8. Recorded'
  <2>1. \A i, n : Holds(i, n)' = Holds(i, n) /\ StoredOf(i, n)' = StoredOf(i, n)
    BY <1>1, Same
  <2> QED
    BY <1>1, <1>3, <1>5, <2>1 DEF Recorded, tree
<1>9. Filled' /\ Occupied'
  <2>1. Shown' = Shown \cup (IF Stores(Tree[h]) THEN {StoredOf(arg, h)} ELSE {})
    BY <1>3, <1>7 DEF Shown
  <2>2. StoredOf(arg, h) \in Shown' \/ (Tree[h] \notin {"file", "dir"} /\ ~flags.special)
    BY <1>1, <1>2, <2>1 DEF Stores
  <2> QED
    BY <1>1, <1>2, <1>3, <2>1, <2>2, Reckoned
<1>10. Kept'
  <2>1. \A i, n : Due(i, n)' = Due(i, n)
    BY <1>1, Same
  <2>2. \A i, n : Seen(i, n) => Seen(i, n)'
    BY <1>1, <1>3, <1>7, Same DEF Seen
  <2>3. \A n \in Nodes : IsPrefix(h, n) => n = h
    BY <1>1, <1>2, OnTheWay
  <2>4. Due(arg, h) => Seen(arg, h)'
    BY <1>1, <1>2, <1>7, Same DEF Due, Stores, Seen
  <2>5. steady' = steady /\ steady \subseteq Nodes
    BY <1>1 DEF tree, Grown
  <2>6. \A n \in steady : Due(arg, n) /\ Ahead(n) => Ahead(n)' \/ Seen(arg, n)'
    BY <1>5, <2>3, <2>4, <2>5
  <2> QED
    BY <1>1, <2>1, <2>2, <2>5, <2>6 DEF Kept
<1>11. Grown' /\ Listed'
  BY <1>1 DEF Grown, Closed, tree, Listed
<1> QED
  BY <1>5, <1>7, <1>8, <1>9, <1>10, <1>11 DEF IInv, Walking

LEMMA VisitDirStep ==
  ASSUME IInv, VisitDir
  PROVE  IInv'
<1>0. PICK h : h = At(1)
  OBVIOUS
<1> DEFINE c == Children(current)
           d == StoredOf(arg, h)
           up == StoredOf(arg, Front(h))
<1>1. /\ Walking /\ Visiting /\ Kept /\ Listed /\ Recorded /\ Came /\ Given /\ Grown /\ pc = "walk"
      /\ states' = Entered(Stored(current), Counted)
      /\ todo' = c \o Tail(todo) /\ UNCHANGED <<tree, flags, args, arg, files, dirs, pc>>
      /\ Tree[Node(current)] = "dir"
  BY DEF IInv, Walking, Course, VisitDir, Visiting
<1>2. /\ arg \in DOMAIN args /\ 1 \in DOMAIN todo
      /\ Node(current) = h /\ h \in ever /\ h \in Nodes /\ Holds(arg, h) /\ h # Node(Root(arg))
      /\ current = PathOf(arg, h) /\ Stored(current) = d /\ h \in Seq(Part)
  BY <1>0, <1>1, CurrentIs, NodeType DEF root, Root
<1>3. /\ DOMAIN Counted = DOMAIN states /\ up \in DOMAIN states
      /\ \A p \in DOMAIN states : Counted[p] \in Nat /\ states[p] \in Nat
      /\ Counted[up] > 0
      /\ \A p \in DOMAIN states : states[p] > 0 => Counted[p] > 0
      /\ \A p \in DOMAIN states : Counted[p] > 0 => states[p] > 0 \/ p = up
  BY <1>1, <1>2, CountedIs
<1> HIDE DEF d, up, c
<1>4. /\ DOMAIN states' = DOMAIN states \cup {d} /\ states'[d] = 0
      /\ \A p \in DOMAIN states : p # d => states'[p] = Counted[p]
  <2>1. states' = Entered(d, Counted)
    BY <1>1, <1>2
  <2>2. /\ DOMAIN Entered(d, Counted) = DOMAIN Counted \cup {d}
        /\ Entered(d, Counted)[d] = 0
        /\ \A p \in DOMAIN Counted : p # d => Entered(d, Counted)[p] = Counted[p]
    BY EnteredIs
  <2> QED
    BY <1>3, <2>1, <2>2
<1>5. /\ Fresh(c)
      /\ \A n \in there : n # << >> /\ Front(n) = h => \E k \in DOMAIN c : Node(c[k]) = n
  BY <1>0, <1>1, <1>2, ChildrenOf DEF Fresh, Grown, root, Root, c
<1>6. /\ Course' /\ Ways' /\ Once'
      /\ \A i, n : Holds(i, n) /\ Passed(i, n) => Passed(i, n)'
      /\ \A i, n : i = arg /\ n = h => Passed(i, n)'
      /\ \A n \in Nodes : Ahead(n) => IsPrefix(h, n) \/ Ahead(n)'
      /\ \A j \in DOMAIN c, n \in Nodes : IsPrefix(Node(c[j]), n) => Ahead(n)'
  BY <1>0, <1>1, <1>2, <1>4, <1>5, NextPaths
<1>7. Apart => d \notin Shown
  <2>1. IsPrefix(At(1), h)
    BY <1>0, <1>2, PrefixReflexive
  <2>2. arg \in Nat
    BY <1>1, ArgListsAssumption, LenProperties DEF Walking, Course
  <2>3. ~Passed(arg, h)
    BY <1>2, <2>1, <2>2 DEF Passed
  <2> QED
    BY <1>1, <1>2, <2>3, ShownPassed DEF d
<1>8. Recorded'
  <2>1. \A i, n : Holds(i, n)' = Holds(i, n) /\ StoredOf(i, n)' = StoredOf(i, n)
    BY <1>1, Same
  <2>2. \A p \in DOMAIN states' : states'[p] \in Nat
    BY <1>3, <1>4
  <2>3. \A p \in DOMAIN states : \E i \in DOMAIN args, n \in ever :
          Holds(i, n) /\ Passed(i, n)' /\ Tree[n] = "dir" /\ p = StoredOf(i, n)
    BY <1>1, <1>6 DEF Recorded
  <2>4. \E i \in DOMAIN args : Holds(i, h) /\ Passed(i, h)' /\ Tree[h] = "dir" /\ d = StoredOf(i, h)
    BY <1>1, <1>2, <1>6 DEF d
  <2>5. \A p \in DOMAIN states' : \E i \in DOMAIN args, n \in ever :
          Holds(i, n) /\ Passed(i, n)' /\ Tree[n] = "dir" /\ p = StoredOf(i, n)
    <3>1. TAKE p \in DOMAIN states'
    <3>2. CASE p = d
      BY <1>2, <2>4, <3>2
    <3> QED
      BY <1>4, <2>3, <3>2
  <2> QED
    BY <1>1, <2>1, <2>2, <2>5 DEF Recorded, tree
<1>9. Filled' /\ Occupied'
  <2>1. Shown' = Shown \cup {d}
    BY <1>1, <1>4 DEF Shown
  <2>2. Apart => d \notin DOMAIN states
    BY <1>7 DEF Shown
  <2>3. Apart =>
          /\ \A p \in DOMAIN states : states[p] > 0 => states'[p] > 0
          /\ states'[up] > 0
          /\ \A p \in DOMAIN states' : states'[p] > 0 =>
               (p \in DOMAIN states /\ states[p] > 0) \/ p = up
    BY <1>3, <1>4, <2>2
  <2> QED
    BY <1>1, <1>2, <1>3, <1>4, <2>1, <2>3, Reckoned DEF d, up
<1>10. Kept'
  <2>1. \A i, n : Due(i, n)' = Due(i, n)
    BY <1>1, Same
  <2>2. \A i, n : Seen(i, n) => Seen(i, n)'
    BY <1>1, <1>4, Same DEF Seen, Entries
  <2>3. Seen(arg, h)'
    BY <1>1, <1>2, <1>4, Same DEF Seen, d
  <2>4. ASSUME NEW n \in steady, IsPrefix(h, n), n # h
        PROVE  Ahead(n)'
    <3>1. n \in Nodes
      BY <1>1, <2>4 DEF Grown
    <3>2. PICK m \in Nodes : m # << >> /\ Front(m) = h /\ IsPrefix(m, n)
      BY <1>2, <2>4, <3>1, OnTheWay
    <3>3. m \in steady
      BY <1>1, <2>4, <3>2, UpTheTree, NodeType DEF Grown
    <3>4. \E k \in DOMAIN c : Node(c[k]) = m
      BY <1>1, <1>5, <3>2, <3>3 DEF Grown
    <3> QED
      BY <1>6, <3>1, <3>2, <3>4
  <2>5. steady' = steady /\ steady \subseteq Nodes
    BY <1>1 DEF tree, Grown
  <2>6. \A n \in steady : Due(arg, n) /\ Ahead(n) => Ahead(n)' \/ Seen(arg, n)'
    BY <1>6, <2>3, <2>4, <2>5
  <2> QED
    BY <1>1, <2>1, <2>2, <2>5, <2>6 DEF Kept
<1>11. Grown' /\ Listed' /\ Came' /\ Single'
  <2>1. \A i, n : /\ Holds(i, n)' = Holds(i, n) /\ StoredOf(i, n)' = StoredOf(i, n)
                  /\ PathOf(i, n)' = PathOf(i, n)
    BY <1>1, Same
  <2>2. Came'
    BY <1>1, <1>6, <2>1 DEF Came, tree
  <2>3. Single'
    BY <1>1, Same DEF Single, IInv
  <2> QED
    BY <1>1, <2>2, <2>3 DEF Grown, Closed, tree, Listed
<1> QED
  BY <1>6, <1>8, <1>9, <1>10, <1>11 DEF IInv, Walking

-----------------------------------------------------------------------------
(* The roots.                                                              *)
LEMMA RootIs ==
  ASSUME Walking, AtRoot, Reached
  PROVE  LET r == Node(root) IN
         /\ Given /\ arg \in DOMAIN args /\ DOMAIN args = 1 .. Len(args) /\ arg \in Nat /\ Len(args) \in Nat
         /\ pc = "arg" /\ todo = << >> /\ DOMAIN todo = {}
         /\ r \in there /\ r \in ever /\ r \in Nodes /\ r \in Seq(Part) /\ Holds(arg, r)
         /\ r = Node(Root(arg)) /\ PathOf(arg, r) = root /\ Stored(root) = StoredOf(arg, r)
         /\ \A n : ~Passed(arg, n)
<1> DEFINE r == Node(root)
           p == args[arg]
<1>1. /\ Given /\ pc = "arg" /\ todo = << >> /\ args \in Seq(PathType)
      /\ arg \in 1 .. Len(args) + 1 /\ arg <= Len(args)
  BY ArgListsAssumption DEF Walking, Course, AtRoot, Given
<1>2. /\ Len(args) \in Nat /\ DOMAIN args = 1 .. Len(args) /\ arg \in 1 .. Len(args) /\ arg \in Nat
      /\ DOMAIN todo = {}
  BY <1>1, LenProperties
<1>3. p \in PathType
  BY <1>1, <1>2, ElementOfSeq
<1>4. root = Root(arg)
  BY DEF root, Root
<1>5. r \in there
  <2>1. p.parts \in Seq(Part) /\ Path(p.abs, p.parts) = p
    BY <1>3, PathIs
  <2>2. Len(p.parts) \in Nat /\ SubSeq(p.parts, 1, Len(p.parts)) = p.parts
    BY <2>1, LenProperties, SubSeqFull
  <2>3. Node(Path(p.abs, SubSeq(p.parts, 1, Len(p.parts)))) \in there
    BY <2>2 DEF Reached
  <2>4. Node(p) \in there
    BY <2>1, <2>2, <2>3
  <2> QED
    BY <1>3, <2>4, NodeOfClean DEF root
<1>6. r \in ever /\ r \in Nodes
  BY <1>5 DEF Walking, Grown
<1>7. r \in Seq(Part) /\ r \in Names /\ Holds(arg, r)
  BY <1>4, <1>6, NodeType, PrefixReflexive DEF Holds
<1>8. PathOf(arg, r) = root
  <2>1. After(r, r) = << >>
    <3>1. After(r, r) \in Seq(Part) /\ r \o After(r, r) = r \o << >>
      BY <1>7, AfterPrefix, PrefixReflexive, ConcatEmptySeq
    <3> QED
      BY <1>7, <3>1, ConcatInjective, EmptySeq
  <2>2. PathOf(arg, r) = Under(root, << >>)
    BY <1>1, <1>2, <1>4, <1>7, <2>1, Way
  <2> QED
    BY <1>1, <1>2, <1>4, <2>2, RootType, UnderNothing
<1>9. Stored(root) = StoredOf(arg, r)
  BY <1>4, <1>8 DEF Stored, StoredOf, Root
<1>10. \A n : ~Passed(arg, n)
  BY <1>1, <1>2 DEF Passed
<1> QED
  BY <1>1, <1>2, <1>4, <1>5, <1>6, <1>7, <1>8, <1>9, <1>10

LEMMA RootFileStep ==
  ASSUME IInv, RootFile
  PROVE  IInv'
<1>0. PICK h : h = Node(root)
  OBVIOUS
<1> DEFINE shown == flags.invis \/ Last(root.parts) \notin Hidden
<1>1. /\ Walking /\ Kept /\ Listed /\ Recorded /\ Came /\ Single /\ AtRoot /\ Reached /\ Course /\ Grown
      /\ files' = IF shown THEN Found(root, Tree[h]) ELSE files
      /\ arg' = arg + 1 /\ UNCHANGED <<tree, flags, args, todo, states, dirs, pc>>
      /\ Tree[h] # "dir"
  BY <1>0 DEF IInv, Walking, RootFile
<1>2. /\ Given /\ arg \in DOMAIN args /\ DOMAIN args = 1 .. Len(args) /\ arg \in Nat /\ Len(args) \in Nat
      /\ pc = "arg" /\ DOMAIN todo = {}
      /\ h \in ever /\ h \in Nodes /\ h \in Seq(Part) /\ Holds(arg, h)
      /\ h = Node(Root(arg)) /\ PathOf(arg, h) = root /\ ~Passed(arg, h)
  BY <1>0, <1>1, RootIs
<1>3. \A i, n : i \in DOMAIN args /\ Passed(i, n) => Passed(i, n)'
  BY <1>1, <1>2 DEF Passed
<1>4. \A i, n : i = arg => Passed(i, n)'
  BY <1>1, <1>2 DEF Passed
<1>5. /\ \A i : Root(i)' = Root(i)
      /\ \A i, n : /\ Holds(i, n)' = Holds(i, n) /\ StoredOf(i, n)' = StoredOf(i, n)
                   /\ PathOf(i, n)' = PathOf(i, n) /\ Due(i, n)' = Due(i, n)
      /\ Given' = Given /\ Apart' = Apart
  BY <1>1, Same
<1> HIDE DEF shown
<1>6. shown =>
        /\ Came' /\ Single'
        /\ {e.path : e \in BagToSet(files')} =
             {e.path : e \in BagToSet(files)} \cup (IF Stores(Tree[h]) THEN {StoredOf(arg, h)} ELSE {})
        /\ Entries \subseteq Entries'
        /\ Stores(Tree[h]) => [path |-> StoredOf(arg, h), src |-> PathOf(arg, h)] \in Entries'
  <2>1. SUFFICES ASSUME shown
                 PROVE  files' = Found(PathOf(arg, h), Tree[h])
    BY <1>1, <1>2, <1>3, <1>4, FoundStep
  <2> QED
    BY <1>1, <1>2, <2>1
<1>7. ~shown =>
        /\ Came' /\ Single' /\ files' = files /\ Entries' = Entries
  <2> SUFFICES ASSUME ~shown
               PROVE  Came' /\ Single' /\ files' = files /\ Entries' = Entries
    OBVIOUS
  <2>1. files' = files
    BY <1>1
  <2> QED
    BY <1>1, <1>3, <1>5, <2>1 DEF Came, Single, Entries, tree
<1>8. Came' /\ Single' /\ Entries \subseteq Entries'
  BY <1>6, <1>7
<1>9. Filled' /\ Occupied'
  <2>1. Shown \subseteq Shown' /\ Shown' \subseteq Shown \cup {StoredOf(arg, h)}
    BY <1>1, <1>6, <1>7 DEF Shown
  <2> QED
    BY <1>1, <1>2, <2>1, Reckoned
<1>10. Recorded'
  BY <1>1, <1>3, <1>5 DEF Recorded, tree
<1>11. Kept'
  <2>1. \A i, n : Seen(i, n) => Seen(i, n)'
    BY <1>1, <1>5, <1>8 DEF Seen
  <2>2. ASSUME NEW n \in steady, Due(arg, n)
        PROVE  n = h
    <3>1. IsPrefix(h, n) /\ n \in Nodes
      BY <1>1, <1>2, <2>2 DEF Due, Asked, Root, Grown
    <3> QED
      BY <1>1, <1>2, <3>1, OnTheWay
  <2>3. Due(arg, h) => shown /\ Stores(Tree[h])
    <3> SUFFICES ASSUME Due(arg, h)
                 PROVE  shown /\ Stores(Tree[h])
      OBVIOUS
    <3>1. Stores(Tree[h])
      BY <1>1 DEF Due, Stores
    <3>2. After(h, h) = << >>
      <4>1. After(h, h) \in Seq(Part) /\ h \o After(h, h) = h \o << >>
        BY <1>2, AfterPrefix, PrefixReflexive, ConcatEmptySeq
      <4> QED
        BY <1>2, <4>1, ConcatInjective, EmptySeq
    <3>3. SubSeq(h, Len(Node(Root(arg))) + 1, Len(h)) = << >>
      BY <1>2, <3>2 DEF After
    <3>4. flags.invis \/ {Last(root.parts)} \cap Hidden = {}
      BY <1>1, <3>3 DEF Due, Asked, Root, root
    <3> QED
      BY <3>1, <3>4 DEF shown
  <2>4. \A n \in steady : \A i : i = arg /\ Due(arg, n) => Seen(i, n)'
    BY <1>1, <1>5, <1>6, <2>2, <2>3 DEF Seen
  <2>5. steady' = steady /\ DOMAIN args' = DOMAIN args
    BY <1>1 DEF tree
  <2>6. \A i \in DOMAIN args : i > arg => i > arg' \/ i = arg'
    BY <1>1, <1>2
  <2> QED
    BY <1>1, <1>2, <1>5, <2>1, <2>4, <2>5, <2>6 DEF Kept
<1>12. Course'
  BY <1>1, <1>2, <1>5 DEF Course
<1>13. Ways' /\ Once'
  BY <1>1, <1>2 DEF Ways, Once
<1>14. Grown' /\ Listed'
  BY <1>1 DEF Grown, Closed, tree, Listed
<1> QED
  BY <1>8, <1>9, <1>10, <1>11, <1>12, <1>13, <1>14 DEF IInv, Walking

LEMMA RootDirStep ==
  ASSUME IInv, RootDir
  PROVE  IInv'
<1>0. PICK h : h = Node(root)
  OBVIOUS
<1> DEFINE c == Children(root)
           d == StoredOf(arg, h)
<1>1. /\ Walking /\ Kept /\ Listed /\ Recorded /\ Came /\ Single /\ AtRoot /\ Reached /\ Course /\ Grown
      /\ states' = Entered(Stored(root), states) /\ todo' = c /\ pc' = "walk"
      /\ UNCHANGED <<tree, flags, args, arg, files, dirs>>
      /\ Tree[h] = "dir"
  BY <1>0 DEF IInv, Walking, RootDir
<1>2. /\ Given /\ arg \in DOMAIN args /\ DOMAIN args = 1 .. Len(args) /\ arg \in Nat /\ Len(args) \in Nat
      /\ pc = "arg" /\ DOMAIN todo = {}
      /\ h \in ever /\ h \in Nodes /\ h \in Seq(Part) /\ Holds(arg, h)
      /\ h = Node(Root(arg)) /\ PathOf(arg, h) = root /\ Stored(root) = d /\ ~Passed(arg, h)
  BY <1>0, <1>1, RootIs
<1>3. /\ \A i : Root(i)' = Root(i)
      /\ \A i, n : /\ Holds(i, n)' = Holds(i, n) /\ StoredOf(i, n)' = StoredOf(i, n)
                   /\ PathOf(i, n)' = PathOf(i, n) /\ Due(i, n)' = Due(i, n)
      /\ Given' = Given /\ Apart' = Apart
      /\ root' = root /\ root = Root(arg)
      /\ \A p : Stored(p)' = Stored(p)
      /\ \A k : At(k)' = Node(todo'[k])
  BY <1>1, Same DEF root, Root, Stored, At
<1> HIDE DEF c, d
<1>4. /\ DOMAIN states' = DOMAIN states \cup {d} /\ states'[d] = 0
      /\ \A p \in DOMAIN states : p # d => states'[p] = states[p]
  <2>1. states' = Entered(d, states)
    BY <1>1, <1>2
  <2>2. /\ DOMAIN Entered(d, states) = DOMAIN states \cup {d}
        /\ Entered(d, states)[d] = 0
        /\ \A p \in DOMAIN states : p # d => Entered(d, states)[p] = states[p]
    BY DEF Entered
  <2> QED
    BY <2>1, <2>2
<1>5. /\ c \in Seq(PathType)
      /\ \A k \in DOMAIN c : LET n == Node(c[k]) IN
           /\ n \in there /\ n # << >> /\ Front(n) = h /\ Holds(arg, n) /\ n # h
           /\ c[k] = PathOf(arg, n)
      /\ \A n \in there : n # << >> /\ Front(n) = h => \E k \in DOMAIN c : Node(c[k]) = n
      /\ \A j, k \in DOMAIN c : j # k => Node(c[j]) # Node(c[k])
  BY <1>1, <1>2, ChildrenOf DEF Grown, c
<1>6. \A k \in DOMAIN c : LET n == Node(c[k]) IN
        /\ n \in Nodes /\ n \in ever /\ n \in Seq(Part) /\ ~IsPrefix(n, h)
        /\ \A s \in Seq(Part) : IsPrefix(s, n) <=> s = n \/ IsPrefix(s, h)
  <2> SUFFICES ASSUME NEW k \in DOMAIN c, NEW n, n = Node(c[k])
               PROVE  /\ n \in Nodes /\ n \in ever /\ n \in Seq(Part) /\ ~IsPrefix(n, h)
                      /\ \A s \in Seq(Part) : IsPrefix(s, n) <=> s = n \/ IsPrefix(s, h)
    OBVIOUS
  <2>1. n \in there /\ n # << >> /\ Front(n) = h /\ n # h
    BY <1>5
  <2>2. n \in ever /\ n \in Nodes /\ n \in Seq(Part)
    BY <1>1, <2>1, NodeType DEF Grown
  <2>3. IsPrefix(h, n) /\ \A s \in Seq(Part) : IsPrefix(s, n) <=> s = n \/ IsPrefix(s, h)
    BY <2>1, <2>2, PrefixFront
  <2>4. ~IsPrefix(n, h)
    BY <1>2, <2>1, <2>2, <2>3, PrefixBoth
  <2> QED
    BY <2>2, <2>3, <2>4
<1>7. Course'
  BY <1>1, <1>2, <1>3, <1>5 DEF Course
<1>8. Ways'
  <2> SUFFICES ASSUME NEW k \in DOMAIN c, NEW n, n = Node(c[k])
               PROVE  /\ n \in ever /\ Holds(arg, n) /\ n # h
                      /\ c[k] = PathOf(arg, n) /\ Stored(Dir(c[k])) \in DOMAIN states'
    BY <1>0, <1>1, <1>3, <1>6 DEF Ways, tree
  <2>1. Front(n) = h /\ Holds(arg, n) /\ n # h /\ c[k] = PathOf(arg, n)
    BY <1>5
  <2>2. Dir(c[k]) = root
    BY <1>2, <2>1, Shallower
  <2> QED
    BY <1>2, <1>4, <1>6, <2>1, <2>2
<1>9. Once'
  <2> SUFFICES ASSUME NEW j \in DOMAIN c, NEW k \in DOMAIN c, j # k
               PROVE  ~IsPrefix(Node(c[j]), Node(c[k]))
    BY <1>1, <1>3 DEF Once
  <2> QED
    BY <1>5, <1>6
<1>10. \A i, n : i \in DOMAIN args /\ Passed(i, n) => Passed(i, n)'
  BY <1>1, <1>2 DEF Passed
<1>11. \A i, n : i = arg /\ n = h => Passed(i, n)'
  BY <1>1, <1>2, <1>3, <1>6 DEF Passed
<1>12. Apart => d \notin Shown
  BY <1>1, <1>2, ShownPassed DEF d
<1>13. Recorded'
  <2>1. \A p \in DOMAIN states' : states'[p] \in Nat
    BY <1>1, <1>4 DEF Recorded
  <2>2. \A p \in DOMAIN states : \E i \in DOMAIN args, n \in ever :
          Holds(i, n) /\ Passed(i, n)' /\ Tree[n] = "dir" /\ p = StoredOf(i, n)
    BY <1>1, <1>10 DEF Recorded
  <2>3. \E i \in DOMAIN args : Holds(i, h) /\ Passed(i, h)' /\ Tree[h] = "dir" /\ d = StoredOf(i, h)
    BY <1>1, <1>2, <1>11 DEF d
  <2>4. \A p \in DOMAIN states' : \E i \in DOMAIN args, n \in ever :
          Holds(i, n) /\ Passed(i, n)' /\ Tree[n] = "dir" /\ p = StoredOf(i, n)
    <3>1. TAKE p \in DOMAIN states'
    <3>2. CASE p = d
      BY <1>2, <2>3, <3>2
    <3> QED
      BY <1>4, <2>2, <3>2
  <2> QED
    BY <1>1, <1>3, <2>1, <2>4 DEF Recorded, tree
<1>14. Filled' /\ Occupied'
  <2>1. Shown' = Shown \cup {d}
    BY <1>1, <1>4 DEF Shown
  <2>2. Apart => d \notin DOMAIN states
    BY <1>12 DEF Shown
  <2>3. Apart =>
          /\ \A p \in DOMAIN states : states[p] > 0 => states'[p] > 0
          /\ \A p \in DOMAIN states' : states'[p] > 0 => p \in DOMAIN states /\ states[p] > 0
    BY <1>4, <2>2
  <2> QED
    BY <1>1, <1>2, <1>4, <2>1, <2>3, Reckoned DEF d
<1>15. Kept'
  <2>1. \A i, n : Seen(i, n) => Seen(i, n)'
    BY <1>1, <1>3, <1>4 DEF Seen, Entries
  <2>2. \A i : i = arg => Seen(i, h)'
    BY <1>1, <1>2, <1>3, <1>4 DEF Seen, d
  <2>3. ASSUME NEW n \in steady, Due(arg, n), n # h
        PROVE  Ahead(n)'
    <3>1. n \in Nodes /\ IsPrefix(h, n)
      BY <1>1, <1>2, <2>3 DEF Grown, Due, Asked, Root
    <3>2. PICK m \in Nodes : m # << >> /\ Front(m) = h /\ IsPrefix(m, n)
      BY <1>2, <2>3, <3>1, OnTheWay
    <3>3. m \in steady
      BY <1>1, <2>3, <3>2, UpTheTree, NodeType DEF Grown
    <3>4. \E k \in DOMAIN c : Node(c[k]) = m
      BY <1>1, <1>5, <3>2, <3>3 DEF Grown
    <3> QED
      BY <1>1, <1>3, <3>2, <3>4 DEF Ahead
  <2>4. steady' = steady
    BY <1>1 DEF tree
  <2> QED
    BY <1>1, <1>2, <1>3, <2>1, <2>2, <2>3, <2>4 DEF Kept
<1>16. Grown' /\ Listed' /\ Came' /\ Single'
  <2>1. Came'
    BY <1>1, <1>3, <1>10 DEF Came, tree
  <2>2. Single'
    BY <1>1, <1>3 DEF Single
  <2> QED
    BY <1>1, <1>2, <2>1, <2>2 DEF Grown, Closed, tree, Listed
<1> QED
  BY <1>7, <1>8, <1>9, <1>13, <1>14, <1>15, <1>16 DEF IInv, Walking

-----------------------------------------------------------------------------
LEMMA StutterStep ==
  ASSUME IInv, UNCHANGED vars
  PROVE  IInv'
<1>1. UNCHANGED <<tree, flags, args, arg, todo, states, files, dirs, pc>>
  BY DEF vars, tree
<1>2. /\ \A i, n : Due(i, n)' = Due(i, n) /\ Seen(i, n)' = Seen(i, n)
      /\ \A i, n : Passed(i, n)' = Passed(i, n)
      /\ \A n : Ahead(n)' = Ahead(n)
  BY <1>1, Same DEF Seen, Entries, Passed, Ahead, At
<1>3. Course' /\ Once' /\ Listed'
  BY <1>1, Same DEF Course, Once, Listed, At, IInv, Walking
<1>4. Ways'
  <2>1. /\ \A i : Root(i)' = Root(i) /\ root' = root
        /\ \A i, n : Holds(i, n)' = Holds(i, n) /\ PathOf(i, n)' = PathOf(i, n)
        /\ \A k : At(k)' = At(k)
        /\ \A p : Stored(p)' = Stored(p)
    BY <1>1, Same DEF root, At, Stored
  <2> QED
    BY <1>1, <2>1 DEF Ways, IInv, Walking, tree
<1>5. Kept'
  BY <1>1, <1>2 DEF Kept, IInv, tree
<1> QED
  BY <1>1, <1>2, <1>3, <1>4, <1>5, QuietStep

LEMMA WalkStep ==
  ASSUME IInv, [Next]_vars
  PROVE  IInv'
<1>1. CASE RootMissing
  BY <1>1, FailStep DEF RootMissing, AtRoot
<1>2. CASE RootFile
  BY <1>2, RootFileStep
<1>3. CASE RootDir
  BY <1>3, RootDirStep
<1>4. CASE VisitHidden
  BY <1>4, VisitHiddenStep
<1>5. CASE VisitDir
  BY <1>5, VisitDirStep
<1>6. CASE VisitFile
  BY <1>6, VisitFileStep
<1>7. CASE VisitGone
  BY <1>7, FailStep DEF VisitGone, Visiting
<1>8. CASE WalkEnds
  BY <1>8, WalkEndsStep
<1>9. CASE Collect
  BY <1>9, CollectStep
<1>10. CASE Others
  BY <1>10, OthersStep
<1>11. CASE UNCHANGED vars
  BY <1>11, StutterStep
<1> QED
  BY <1>1, <1>2, <1>3, <1>4, <1>5, <1>6, <1>7, <1>8, <1>9, <1>10, <1>11 DEF Next, Walk, Ended

(* The inductive invariant holds whatever others do to the tree.           *)
THEOREM WalkInvariant == Spec => []IInv
<1>1. Init => IInv
  BY InvInit
<1>2. IInv /\ [Next]_vars => IInv'
  BY WalkStep
<1> QED
  BY <1>1, <1>2, PTL DEF Spec

-----------------------------------------------------------------------------
(* What the walk promises.                                                 *)
LEMMA TypeOKFollows ==
  ASSUME IInv
  PROVE  TypeOK
<1>1. Grown /\ Course /\ Given /\ Ways /\ Came /\ Recorded /\ Listed
  BY DEF IInv, Walking, Course
<1>2. /\ there \subseteq Nodes /\ steady \subseteq there /\ there \subseteq ever /\ ever \subseteq Nodes
      /\ flags \in FlagsType /\ args \in ArgLists /\ arg \in 1 .. Len(args) + 1
      /\ todo \in Seq(PathType) /\ pc \in {"arg", "walk", "done", "failed"}
  BY <1>1 DEF Grown, Course, Given
<1>3. DOMAIN states \subseteq PathType /\ \A p \in DOMAIN states : states[p] \in Nat
  BY <1>1, StoredParts DEF Recorded
<1>4. ASSUME NEW e \in BagToSet(files)
      PROVE  e.path \in PathType /\ e.src \in PathType /\ e.type \in {"file", "symlink", "other"}
  <2>1. PICK i \in DOMAIN args, n \in ever : Holds(i, n) /\ e = Meta(StoredOf(i, n), PathOf(i, n), Tree[n])
    BY <1>1 DEF Came
  <2>2. StoredOf(i, n) \in PathType
    BY <1>1, <2>1, StoredParts
  <2>3. PathOf(i, n) \in PathType
    BY <1>1, <2>1, Way, RootType, UnderType
  <2> QED
    BY <2>1, <2>2, <2>3 DEF Meta, TypeOf
<1>5. dirs \subseteq DOMAIN states
  BY <1>1 DEF Listed
<1>6. \A p \in Range(todo) : Stored(Dir(p)) \in DOMAIN states
  BY <1>1 DEF Ways, Range
<1> QED
  BY <1>2, <1>3, <1>4, <1>5, <1>6 DEF TypeOK

LEMMA NothingMissedFollows ==
  ASSUME IInv
  PROVE  NothingMissed
<1> SUFFICES ASSUME pc = "done", NEW i \in DOMAIN args, NEW n \in steady,
                    Asked(i, n), Tree[n] = "file" \/ (Tree[n] # "dir" /\ flags.special)
             PROVE  [path |-> StoredOf(i, n), src |-> PathOf(i, n)] \in Entries
  BY DEF NothingMissed
<1>1. Due(i, n) /\ Tree[n] # "dir"
  BY DEF Due
<1>2. ~(i > arg) /\ i # arg
  <2>1. args \in Seq(PathType) /\ arg = Len(args) + 1
    BY ArgListsAssumption DEF IInv, Walking, Course, Given
  <2> QED
    BY <2>1, LenProperties
<1>3. Seen(i, n)
  BY <1>1, <1>2 DEF IInv, Kept
<1> QED
  BY <1>1, <1>3 DEF Seen

(* What is shown was found in the walk of a root.                          *)
LEMMA ShownIs ==
  ASSUME IInv, NEW p \in Shown
  PROVE  \E i \in DOMAIN args, n \in Nodes : n \in ever /\ Holds(i, n) /\ p = StoredOf(i, n)
<1>1. CASE p \in DOMAIN states
  BY <1>1 DEF IInv, Walking, Recorded, Grown
<1>2. CASE \E e \in BagToSet(files) : p = e.path
  BY <1>2 DEF IInv, Walking, Came, Meta, Grown
<1> QED
  BY <1>1, <1>2 DEF Shown

(* A directory with something shown below it has been counted in.          *)
LEMMA CountedBelow ==
  ASSUME IInv, Apart, NEW i \in DOMAIN args, NEW n, Holds(i, n),
         NEW m \in Nodes, IsPrefix(n, m), n # m, StoredOf(i, m) \in Shown
  PROVE  StoredOf(i, n) \in DOMAIN states /\ states[StoredOf(i, n)] > 0
<1>0. Given /\ Filled /\ n \in Seq(Part) /\ n \in Names /\ m \in Seq(Part) /\ m \in Names
  BY NodeType, NamesType DEF IInv, Walking, Course, Holds
<1> DEFINE Bad == {u \in Names : u # << >> /\ n \o u \in Nodes /\ StoredOf(i, n \o u) \in Shown}
<1>1. After(n, m) \in Bad
  <2>1. After(n, m) \in Seq(Part) /\ n \o After(n, m) = m
    BY <1>0, AfterPrefix
  <2>2. After(n, m) # << >>
    BY <1>0, <2>1, ConcatEmptySeq
  <2>3. After(n, m) \in Names
    BY <1>0, <2>1, NamesOfConcat
  <2> QED
    BY <2>1, <2>2, <2>3
<1>2. PICK u \in Bad : u = << >> \/ \E s \in Names, e \in Name : u = Append(s, e) /\ s \notin Bad
  <2>1. Bad # {} /\ Bad \in SUBSET Seq(Name)
    BY <1>1 DEF Names
  <2> HIDE DEF Bad
  <2> QED
    BY <2>1, Shortest DEF Names
<1>3. PICK s \in Names, e \in Name : u = Append(s, e) /\ s \notin Bad
  BY <1>2
<1> DEFINE c == n \o u
<1>4. /\ s \in Seq(Part) /\ e \in Part /\ n \o s \in Seq(Part)
      /\ c = Append(n \o s, e) /\ c \in Nodes /\ StoredOf(i, c) \in Shown
      /\ u \in Seq(Part)
  <2>1. s \in Seq(Part) /\ e \in Part /\ n \o s \in Seq(Part) /\ u \in Seq(Part)
    BY <1>0, <1>2, NamesType, UpIsPart, ConcatProperties
  <2> QED
    BY <1>0, <1>2, <1>3, <2>1, ConcatAppend
<1>5. IsPrefix(n, c) /\ IsPrefix(n, n \o s)
  BY <1>0, <1>4, PrefixConcat
<1>6. c # << >> /\ Front(c) = n \o s
  BY <1>4, FrontAppend
<1> HIDE DEF c
<1>7. /\ c \in Seq(Part) /\ c \in Names /\ IsPrefix(Node(Root(i)), n) /\ Node(Root(i)) \in Seq(Part)
      /\ Front(c) \in Nodes
  BY <1>0, <1>4, <1>6, NodeType, RootType DEF Holds
<1>8. Holds(i, c)
  BY <1>0, <1>5, <1>7, PrefixTransitive DEF Holds
<1>9. c # Node(Root(i))
  <2>1. SUFFICES ASSUME c = Node(Root(i)) PROVE FALSE
    OBVIOUS
  <2>2. c = n
    BY <1>0, <1>5, <1>7, <2>1, PrefixBoth
  <2>3. IsPrefix(c, Front(c)) /\ Front(c) \in Seq(Part)
    BY <1>4, <1>5, <1>6, <2>2
  <2>4. IsPrefix(Front(c), c) /\ Front(c) # c
    BY <1>6, <1>7, PrefixFront
  <2> QED
    BY <1>7, <2>3, <2>4, PrefixBoth
<1>10. StoredOf(i, Front(c)) \in DOMAIN states /\ states[StoredOf(i, Front(c))] > 0
  BY <1>4, <1>8, <1>9 DEF Filled, IInv
<1>11. s = << >>
  <2>1. StoredOf(i, n \o s) \in Shown /\ n \o s \in Nodes
    BY <1>6, <1>7, <1>10 DEF Shown
  <2> QED
    BY <1>3, <2>1
<1>12. Front(c) = n
  BY <1>0, <1>6, <1>11, ConcatEmptySeq
<1> QED
  BY <1>10, <1>12

LEMMA OnlyEmptyListedFollows ==
  ASSUME IInv
  PROVE  OnlyEmptyListed
<1> SUFFICES ASSUME Apart, NEW d \in dirs, NEW p \in dirs \cup {e.path : e \in Entries},
                    p # d, Below(d, p)
             PROVE  FALSE
  BY DEF OnlyEmptyListed
<1>1. d \in DOMAIN states /\ states[d] = 0 /\ d \in Shown /\ p \in Shown
  BY DEF IInv, Walking, Listed, Shown, Entries
<1>2. PICK i \in DOMAIN args, n \in Nodes : Holds(i, n) /\ d = StoredOf(i, n)
  BY <1>1, ShownIs
<1>3. PICK j \in DOMAIN args, m \in Nodes : Holds(j, m) /\ p = StoredOf(j, m)
  BY <1>1, ShownIs
<1>4. Given /\ IsPrefix(StoredOf(i, n).parts, StoredOf(j, m).parts)
  BY <1>2, <1>3 DEF Below, IInv, Walking, Course
<1>5. i = j /\ IsPrefix(n, m) /\ n # m
  BY <1>2, <1>3, <1>4, StoredApart
<1>6. states[d] > 0
  BY <1>1, <1>2, <1>3, <1>5, CountedBelow
<1> QED
  BY <1>1, <1>6

(* Of some sequences, one is the longest.                                  *)
LEMMA Longest ==
  ASSUME NEW S, IsFiniteSet(S), S # {}, NEW T, S \subseteq Seq(T)
  PROVE  \E m \in S : \A k \in S : Len(k) <= Len(m)
<1> DEFINE s == SetToSeq(S)
           C == Cardinality(S)
           Top(k) == \E m \in S : \A j \in 1 .. k : Len(s[j]) <= Len(m)
           Bad == {k \in 1 .. C : ~Top(k)}
<1>1. /\ C \in Nat /\ s \in [1 .. C -> S]
      /\ \A x \in S : \E k \in 1 .. C : s[k] = x
  BY Enumerates
<1>2. \A x \in S : Len(x) \in Nat
  BY LenProperties
<1> HIDE DEF s, C
<1>3. Bad = {}
  <2>1. SUFFICES ASSUME Bad # {} PROVE FALSE
    OBVIOUS
  <2>2. PICK k \in Bad : \A j \in Bad : k <= j
    <3>1. Bad \in SUBSET Nat
      BY <1>1
    <3> HIDE DEF Bad
    <3> QED
      BY <2>1, <3>1, Least
  <2>3. k \in 1 .. C /\ ~Top(k)
    OBVIOUS
  <2>4. s[k] \in S
    BY <1>1, <2>3
  <2>5. CASE k = 1
    BY <1>2, <2>3, <2>4, <2>5
  <2>6. CASE k # 1
    <3>1. k - 1 \in 1 .. C /\ ~(k <= k - 1)
      BY <1>1, <2>3, <2>6
    <3>2. Top(k - 1)
      BY <2>2, <3>1
    <3>3. PICK m \in S : \A j \in 1 .. k - 1 : Len(s[j]) <= Len(m)
      BY <3>2
    <3>4. \A j \in 1 .. k : j = k \/ j \in 1 .. k - 1
      BY <1>1, <2>3
    <3>5. CASE Len(s[k]) <= Len(m)
      BY <2>3, <3>3, <3>4, <3>5
    <3>6. CASE ~(Len(s[k]) <= Len(m))
      <4>1. \A j \in 1 .. k : s[j] \in S
        BY <1>1, <2>3
      <4>2. \A j \in 1 .. k : Len(s[j]) <= Len(s[k])
        BY <1>2, <2>4, <3>3, <3>4, <3>6, <4>1
      <4> QED
        BY <2>3, <2>4, <4>2
    <3> QED
      BY <3>5, <3>6
  <2> QED
    BY <2>5, <2>6
<1>4. CASE C = 0
  BY <1>1, <1>4
<1>5. CASE C # 0
  <2>1. C \in 1 .. C
    BY <1>1, <1>5
  <2>2. Top(C)
    BY <1>3, <2>1
  <2>3. PICK m \in S : \A j \in 1 .. C : Len(s[j]) <= Len(m)
    BY <2>2
  <2> QED
    BY <1>1, <2>3
<1> QED
  BY <1>4, <1>5

LEMMA DirectoriesKeptFollows ==
  ASSUME IInv
  PROVE  DirectoriesKept
<1> SUFFICES ASSUME pc = "done", Apart, NEW i \in DOMAIN args, NEW n \in steady,
                    Asked(i, n), Tree[n] = "dir", ~LeftOut(n)
             PROVE  \E p \in dirs \cup {e.path : e \in Entries} : Below(StoredOf(i, n), p)
  BY DEF DirectoriesKept
<1>1. Given /\ Grown /\ n \in Nodes /\ n \in ever /\ n \in Seq(Part) /\ Holds(i, n)
  <2>1. Given /\ Grown /\ n \in Nodes /\ n \in ever
    BY DEF IInv, Walking, Course, Grown
  <2>2. n \in Names /\ n \in Seq(Part)
    BY <2>1, NodeType
  <2> QED
    BY <2>1, <2>2 DEF Asked, Holds, Root
<1>2. StoredOf(i, n) \in DOMAIN states
  <2>1. ~(i > arg) /\ i # arg
    <3>1. args \in Seq(PathType) /\ arg = Len(args) + 1
      BY ArgListsAssumption DEF IInv, Walking, Course, Given
    <3> QED
      BY <3>1, LenProperties
  <2>2. Seen(i, n)
    BY <2>1 DEF IInv, Kept, Due
  <2> QED
    BY <2>2 DEF Seen
<1> DEFINE D == {m \in Nodes : Holds(i, m) /\ IsPrefix(n, m) /\ StoredOf(i, m) \in Shown}
<1>3. PICK m \in D : \A k \in D : Len(k) <= Len(m)
  <2>1. IsFiniteSet(D)
    BY TreeAssumption, FS_Subset
  <2>2. n \in D
    BY <1>1, <1>2, PrefixReflexive DEF Shown
  <2>3. D \subseteq Seq(Part)
    BY NodeType
  <2> HIDE DEF D
  <2> QED
    BY <2>1, <2>2, <2>3, Longest
<1>4. m \in Nodes /\ m \in Seq(Part) /\ Holds(i, m) /\ IsPrefix(n, m) /\ StoredOf(i, m) \in Shown
  BY <1>3, NodeType
<1>5. Below(StoredOf(i, n), StoredOf(i, m))
  BY <1>1, <1>4, StoredBelow
<1>6. CASE \E e \in BagToSet(files) : StoredOf(i, m) = e.path
  <2>1. PICK e \in BagToSet(files) : StoredOf(i, m) = e.path
    BY <1>6
  <2> DEFINE f == [path |-> e.path, src |-> e.src]
  <2>2. f \in Entries /\ f.path = StoredOf(i, m)
    BY <2>1 DEF Entries
  <2> HIDE DEF f
  <2>3. StoredOf(i, m) \in {g.path : g \in Entries}
    BY <2>2
  <2> QED
    BY <1>5, <2>3
<1>7. CASE StoredOf(i, m) \in DOMAIN states /\ states[StoredOf(i, m)] = 0
  <2>1. StoredOf(i, m) \in dirs
    BY <1>7 DEF IInv, Walking, Listed
  <2> QED
    BY <1>5, <2>1
<1>8. CASE StoredOf(i, m) \in DOMAIN states /\ states[StoredOf(i, m)] # 0
  <2>1. states[StoredOf(i, m)] > 0
    <3>1. states[StoredOf(i, m)] \in Nat
      BY <1>8 DEF IInv, Walking, Recorded
    <3> QED
      BY <1>8, <3>1
  <2>2. CASE LeftOut(m)
    <3>1. PICK k \in ever : IsPrefix(m, k) /\ Tree[k] \notin {"file", "dir"} /\ ~flags.special
      BY <2>2 DEF LeftOut
    <3>2. k \in Seq(Part)
      BY <1>1, NodeType DEF Grown
    <3>3. IsPrefix(n, k)
      BY <1>1, <1>4, <3>1, <3>2, PrefixTransitive
    <3>4. LeftOut(n)
      BY <3>1, <3>3 DEF LeftOut
    <3> QED
      BY <3>4
  <2>3. CASE \E k \in ever : k # << >> /\ Front(k) = m /\ Holds(i, k) /\ StoredOf(i, k) \in Shown
    <3>1. PICK k \in ever : k # << >> /\ Front(k) = m /\ Holds(i, k) /\ StoredOf(i, k) \in Shown
      BY <2>3
    <3>2. k \in Nodes /\ k \in Seq(Part) /\ Last(k) \in Part /\ k = Append(m, Last(k))
      BY <1>1, <3>1, NodeType, UpIsPart DEF Grown
    <3>3. IsPrefix(n, k)
      BY <1>1, <1>4, <3>1, <3>2, PrefixFront, PrefixTransitive
    <3>4. k \in D
      BY <3>1, <3>2, <3>3
    <3>5. Len(k) = Len(m) + 1 /\ Len(m) \in Nat
      BY <1>4, <3>2, AppendProperties, LenProperties
    <3>6. Len(k) <= Len(m)
      BY <1>3, <3>4
    <3> QED
      BY <3>5, <3>6
  <2>4. LeftOut(m) \/ \E k \in ever : k # << >> /\ Front(k) = m /\ Holds(i, k) /\ StoredOf(i, k) \in Shown
    BY <1>4, <1>8, <2>1 DEF IInv, Occupied
  <2> QED
    BY <2>2, <2>3, <2>4
<1> QED
  BY <1>4, <1>6, <1>7, <1>8 DEF Shown

LEMMA RootSelectableFollows ==
  ASSUME IInv
  PROVE  RootSelectable
<1> SUFFICES ASSUME Apart, NEW i \in DOMAIN args, NameOf(i).parts # << >>, NEW e \in Entries
             PROVE  isSelected({NameOf(i)}, e.path) <=> CameFrom(i, e)
  BY DEF RootSelectable
<1> DEFINE name == NameOf(i)
<1>1. Given /\ Grown /\ name \in PathType /\ Clean(name) = name /\ name.parts \in Seq(Part)
  BY NameOfType, PathIs DEF IInv, Walking, Course
<1>2. PICK j \in DOMAIN args, n \in ever :
        Holds(j, n) /\ e = [path |-> StoredOf(j, n), src |-> PathOf(j, n)]
  BY DEF IInv, Walking, Came, Meta, Entries
<1>3. /\ Clean(e.path) = e.path /\ e.path = StoredOf(j, n) /\ e.path \in PathType
      /\ IsPrefix(NameOf(j).parts, e.path.parts) /\ e.path.parts \in Seq(Part)
      /\ NameOf(j).parts \in Seq(Part)
  BY <1>1, <1>2, StoredParts, NameOfType, PathIs
<1>4. name # Path(FALSE, << >>)
  BY DEF Path
<1> HIDE DEF name
<1>5. isSelected({name}, e.path) <=> e.path = name \/ Below(name, e.path)
  BY <1>1, <1>3, <1>4 DEF isSelected
<1>6. ASSUME e.path = name \/ Below(name, e.path)
      PROVE  CameFrom(i, e)
  <2>1. IsPrefix(name.parts, e.path.parts)
    BY <1>1, <1>6, PrefixReflexive DEF Below
  <2>2. IsPrefix(name.parts, NameOf(j).parts) \/ IsPrefix(NameOf(j).parts, name.parts)
    BY <1>1, <1>3, <2>1, PrefixesMeet
  <2>3. i = j
    BY <2>2 DEF Apart, name
  <2> QED
    BY <1>2, <2>3 DEF CameFrom, Holds, Root
<1>7. ASSUME CameFrom(i, e)
      PROVE  Below(name, e.path)
  <2>1. PICK m \in ever : IsPrefix(Node(Root(i)), m) /\ e.path = StoredOf(i, m)
    BY <1>7 DEF CameFrom, Root
  <2>2. Holds(i, m)
    BY <1>1, <2>1, NodeType DEF Holds, Grown
  <2> QED
    BY <1>1, <2>1, <2>2, StoredParts DEF Below, name
<1> QED
  BY <1>5, <1>6, <1>7 DEF name

-----------------------------------------------------------------------------
(* Where extract puts what was stored.                                     *)

(* The name of a root that does not end in ".." has none in it.            *)
LEMMA PlainName ==
  ASSUME Given, ~flags.absolute, NEW i \in DOMAIN args, Up \notin Range(Root(i).parts)
  PROVE  NameOf(i).parts \in Names
<1> DEFINE r == Root(i)
           b == BaseOf(r)
           a == r.abs /\ b = << >>
<1>1. r \in PathType /\ Clean(r) = r /\ r.parts \in Seq(Part)
  BY RootType, PathIs
<1>2. NameOf(i) = Rooted(r, << >>)
  BY <1>1, AbsoluteType, LabelType DEF NameOf, Label, Root
<1>3. b \in Names
  <2>1. CASE r.parts = << >>
    BY <2>1, NothingIsNames DEF BaseOf
  <2>2. CASE r.parts # << >>
    <3>1. Last(r.parts) \in Part /\ Last(r.parts) = r.parts[Len(r.parts)]
      BY <1>1, <2>2, AppendFront DEF Last
    <3>2. Len(r.parts) \in DOMAIN r.parts
      BY <1>1, <2>2, LenProperties, EmptySeq
    <3>3. Last(r.parts) # Up
      BY <3>1, <3>2 DEF Range
    <3>4. Last(r.parts) \in Name
      BY <3>1, <3>3 DEF Part
    <3> QED
      BY <2>2, <3>4 DEF BaseOf, Names
  <2> QED
    BY <2>1, <2>2
<1> HIDE DEF b
<1>4. b \in Seq(Part) /\ b \o << >> = b /\ << >> \o b = b
  BY <1>3, NamesType, ConcatEmptySeq
<1>5. Cleaned(a, << >> \o b) = Cleaned(a, << >>) \o b
  BY <1>3, EmptySeq, CleanPlain
<1>6. Cleaned(a, b) = b
  BY <1>4, <1>5, CleanNothing
<1>7. NameOf(i) = Clean(Path(a, b))
  BY <1>2, <1>4 DEF Rooted, b
<1> QED
  BY <1>3, <1>6, <1>7 DEF Cleaned

LEMMA PlainStored ==
  ASSUME Given, NEW i \in DOMAIN args, NEW n, Holds(i, n), NameOf(i).parts \in Names
  PROVE  StoredOf(i, n).parts \in Names
<1> DEFINE q == After(Node(Root(i)), n)
<1>1. q \in Names /\ StoredOf(i, n) = Under(NameOf(i), q)
  BY Way
<1> HIDE DEF q
<1>2. StoredOf(i, n).parts = NameOf(i).parts \o q
  BY <1>1, NameOfType, UnderType
<1> QED
  BY <1>1, <1>2, ConcatProperties DEF Names

(* safeJoin of a path without "..": below the destination, as it is.       *)
LEMMA JoinPlain ==
  ASSUME NEW p \in PathType, Clean(p) = p, p.parts \in Names, Clean(Dest).parts # << >>
  PROVE  /\ safeJoin(Dest, p).legal
         /\ safeJoin(Dest, p).path.parts = Clean(Dest).parts \o p.parts
<1> DEFINE b == Clean(Dest)
           x == p.parts
           j == Path(b.abs, b.parts \o x)
<1>1. b \in PathType /\ Clean(b) = b /\ b.parts \in Seq(Part) /\ x \in Seq(Part)
      /\ b = Path(b.abs, b.parts)
  BY DestAssumption, CleanOf, PathIs
<1> HIDE DEF b, x
<1>2. Cleaned(b.abs, b.parts) = b.parts
  BY <1>1 DEF Cleaned
<1>3. Cleaned(b.abs, b.parts \o x) = b.parts \o x
  BY <1>1, <1>2, CleanPlain DEF x
<1>4. Clean(Path(b.abs, b.parts \o x)) = j
  <2>1. b.parts \o x \in Seq(Part)
    BY <1>1, ConcatProperties
  <2> QED
    BY <1>3, <2>1, CleanIs, LenProperties
<1>5. Join(b, Clean(p).parts) = j
  BY <1>4 DEF Join, x
<1>6. j.abs = b.abs /\ j.parts = b.parts \o x
  BY DEF Path
<1>7. Below(b, j)
  BY <1>1, <1>6, PrefixConcat DEF Below
<1> HIDE DEF j
<1>8. b.parts # << >>
  BY DEF b
<1> QED
  BY <1>5, <1>6, <1>7, <1>8 DEF safeJoin, b, x

LEMMA OwnPlaceFollows ==
  ASSUME IInv
  PROVE  OwnPlace
<1> SUFFICES ASSUME Apart,
                    \/ flags.absolute
                    \/ /\ Clean(Dest).parts # << >>
                       /\ \A i \in DOMAIN args : Up \notin Range(Clean(args[i]).parts)
             PROVE  /\ \A e \in BagToSet(files) : files[e] = 1 /\ Place(e.path).legal
                    /\ \A e, f \in BagToSet(files) : Place(e.path).path = Place(f.path).path => e = f
  BY DEF OwnPlace
<1>1. Given /\ Came /\ Single
  BY DEF IInv, Walking, Course
<1>2. \A e \in BagToSet(files) : \E i \in DOMAIN args, n \in ever :
        Holds(i, n) /\ e = Meta(StoredOf(i, n), PathOf(i, n), Tree[n]) /\ e.path = StoredOf(i, n)
  BY <1>1 DEF Came, Meta
<1>3. CASE flags.absolute
  <2>1. \A p : Place(p).legal /\ Place(p).path = Clean(p)
    BY <1>3 DEF Place
  <2>2. ASSUME NEW e \in BagToSet(files), NEW f \in BagToSet(files),
               Place(e.path).path = Place(f.path).path
        PROVE  e = f
    <3>1. PICK i \in DOMAIN args, n \in ever :
            Holds(i, n) /\ e = Meta(StoredOf(i, n), PathOf(i, n), Tree[n]) /\ e.path = StoredOf(i, n)
      BY <1>2
    <3>2. PICK j \in DOMAIN args, m \in ever :
            Holds(j, m) /\ f = Meta(StoredOf(j, m), PathOf(j, m), Tree[m]) /\ f.path = StoredOf(j, m)
      BY <1>2
    <3>3. StoredOf(i, n) = StoredOf(j, m)
      BY <1>1, <2>1, <2>2, <3>1, <3>2, StoredParts
    <3>4. i = j /\ n = m
      BY <1>1, <3>1, <3>2, <3>3, StoredSame
    <3> QED
      BY <3>1, <3>2, <3>4
  <2> QED
    BY <1>1, <2>1, <2>2 DEF Single
<1>4. CASE ~flags.absolute
  <2>1. ASSUME NEW i \in DOMAIN args, NEW n, Holds(i, n)
        PROVE  /\ Place(StoredOf(i, n)).legal
               /\ Place(StoredOf(i, n)).path.parts = Clean(Dest).parts \o StoredOf(i, n).parts
               /\ StoredOf(i, n).parts \in Seq(Part) /\ Clean(Dest).parts \in Seq(Part)
    <3>1. StoredOf(i, n) \in PathType /\ Clean(StoredOf(i, n)) = StoredOf(i, n)
      BY <1>1, <2>1, StoredParts
    <3>2. NameOf(i).parts \in Names
      BY <1>1, <1>4, PlainName DEF Root
    <3>3. StoredOf(i, n).parts \in Names
      BY <1>1, <2>1, <3>2, PlainStored
    <3>4. /\ safeJoin(Dest, StoredOf(i, n)).legal
          /\ safeJoin(Dest, StoredOf(i, n)).path.parts = Clean(Dest).parts \o StoredOf(i, n).parts
      BY <1>4, <3>1, <3>3, JoinPlain
    <3> QED
      BY <1>4, <3>1, <3>4, PathIs, CleanOf, DestAssumption DEF Place
  <2>2. ASSUME NEW e \in BagToSet(files), NEW f \in BagToSet(files),
               Place(e.path).path = Place(f.path).path
        PROVE  e = f
    <3>1. PICK i \in DOMAIN args, n \in ever :
            Holds(i, n) /\ e = Meta(StoredOf(i, n), PathOf(i, n), Tree[n]) /\ e.path = StoredOf(i, n)
      BY <1>2
    <3>2. PICK j \in DOMAIN args, m \in ever :
            Holds(j, m) /\ f = Meta(StoredOf(j, m), PathOf(j, m), Tree[m]) /\ f.path = StoredOf(j, m)
      BY <1>2
    <3>3. /\ StoredOf(i, n).parts \in Seq(Part) /\ StoredOf(j, m).parts \in Seq(Part)
          /\ Clean(Dest).parts \in Seq(Part)
          /\ Clean(Dest).parts \o StoredOf(i, n).parts = Clean(Dest).parts \o StoredOf(j, m).parts
      <4>1. Place(StoredOf(i, n)).path.parts = Place(StoredOf(j, m)).path.parts
        BY <2>2, <3>1, <3>2
      <4>2. /\ Place(StoredOf(i, n)).path.parts = Clean(Dest).parts \o StoredOf(i, n).parts
            /\ StoredOf(i, n).parts \in Seq(Part) /\ Clean(Dest).parts \in Seq(Part)
        BY <2>1, <3>1
      <4>3. /\ Place(StoredOf(j, m)).path.parts = Clean(Dest).parts \o StoredOf(j, m).parts
            /\ StoredOf(j, m).parts \in Seq(Part)
        BY <2>1, <3>2
      <4> QED
        BY <4>1, <4>2, <4>3
    <3>4. StoredOf(i, n).parts = StoredOf(j, m).parts
      BY <3>3, ConcatInjective
    <3>5. i = j
      BY <1>1, <3>1, <3>2, <3>3, <3>4, PrefixReflexive, StoredApart
    <3>6. n = m
      BY <1>1, <3>1, <3>2, <3>4, <3>5, StoredOnce
    <3> QED
      BY <3>1, <3>2, <3>5, <3>6
  <2>3. \A e \in BagToSet(files) : Place(e.path).legal
    BY <1>2, <2>1
  <2> QED
    BY <1>1, <2>2, <2>3 DEF Single
<1> QED
  BY <1>3, <1>4

-----------------------------------------------------------------------------
(* Every variable of the walk has its type, and the directory of a path    *)
(* still to be visited is in the table of walkPaths.                       *)
THEOREM WalkTyped == Spec => []TypeOK
BY WalkInvariant, TypeOKFollows, PTL

(* A walk that succeeds has found every file that was there all along and  *)
(* that the command line asks for, whatever others did to the tree.        *)
THEOREM WalkMissesNothing == Spec => []NothingMissed
BY WalkInvariant, NothingMissedFollows, PTL

(* No directory is lost: what walkPaths does not list is on the way to     *)
(* something it does.                                                      *)
THEOREM WalkKeepsDirectories == Spec => []DirectoriesKept
BY WalkInvariant, DirectoriesKeptFollows, PTL

(* The directories walkPaths lists as empty have nothing stored below.     *)
THEOREM WalkListsOnlyEmpty == Spec => []OnlyEmptyListed
BY WalkInvariant, OnlyEmptyListedFollows, PTL

(* Whatever walkPaths finds, safeJoin lets extract put in a place of its   *)
(* own.                                                                    *)
THEOREM WalkGivesOwnPlaces == Spec => []OwnPlace
BY WalkInvariant, OwnPlaceFollows, PTL

(* isSelected with the stored name of a root selects what came from it.    *)
THEOREM WalkRootsSelectable == Spec => []RootSelectable
BY WalkInvariant, RootSelectableFollows, PTL
=============================================================================
