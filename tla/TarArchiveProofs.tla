-------------------------- MODULE TarArchiveProofs --------------------------
(***************************************************************************)
(* What createTar stores and extractTar puts back, for any tree, any       *)
(* command line and options, and whatever others do to the tree meanwhile. *)
(***************************************************************************)
EXTENDS TarArchive, WalkTreeProofs

-----------------------------------------------------------------------------
(* Absolute paths are rid of "..".                                         *)
LEMMA CleanedNames ==
  ASSUME NEW parts \in Seq(Part)
  PROVE  Cleaned(TRUE, parts) \in Names
<1> DEFINE Bad == {p \in Seq(Part) : Cleaned(TRUE, p) \notin Names}
<1>1. SUFFICES ASSUME Bad # {} PROVE FALSE
  BY <1>1
<1>2. PICK p \in Bad : p = << >> \/ \E s \in Seq(Part), e \in Part : p = Append(s, e) /\ s \notin Bad
  BY <1>1, Shortest
<1>3. p # << >>
  BY <1>2, CleanNothing, NothingIsNames
<1>4. PICK s \in Seq(Part), e \in Part : p = Append(s, e) /\ s \notin Bad
  BY <1>2, <1>3
<1> DEFINE c == Cleaned(TRUE, s)
<1>5. c \in Names /\ c \in Seq(Name)
  BY <1>4 DEF Names
<1>6. Cleaned(TRUE, p) = CleanStep(TRUE, c, e)
  BY <1>4, CleanAppend
<1> HIDE DEF c
<1>7. e # Up => e \in Name
  BY <1>4 DEF Part
<1>8. CleanStep(TRUE, c, e) \in Seq(Name)
  BY <1>5, <1>7, AppendProperties, AppendFront DEF CleanStep
<1> QED
  BY <1>2, <1>6, <1>8 DEF Names

LEMMA NodeNames ==
  ASSUME NEW p \in PathType
  PROVE  Node(p) \in Names
BY NodeIs, CleanedNames

(* The root's own node, and its path.                                      *)
LEMMA OwnNode ==
  ASSUME Given, NEW i \in DOMAIN args
  PROVE  /\ Holds(i, Node(Root(i)))
         /\ PathOf(i, Node(Root(i))) = Root(i)
         /\ StoredOf(i, Node(Root(i))) = NameOf(i)
<1> DEFINE r == Node(Root(i))
<1>1. Root(i) \in PathType /\ r \in Seq(Part) /\ r \in Names
  BY RootType, NodeNames
<1> HIDE DEF r
<1>2. IsPrefix(r, r)
  BY <1>1, PrefixReflexive
<1>3. Holds(i, r)
  BY <1>1, <1>2 DEF Holds, r
<1>4. After(r, r) = << >>
  <2>1. After(r, r) \in Seq(Part) /\ r \o After(r, r) = r \o << >>
    BY <1>1, <1>2, AfterPrefix, ConcatEmptySeq
  <2> QED
    BY <1>1, <2>1, ConcatInjective, EmptySeq
<1>5. PathOf(i, r) = Under(Root(i), << >>) /\ StoredOf(i, r) = Under(NameOf(i), << >>)
  BY <1>3, <1>4, Way DEF r
<1> QED
  BY <1>1, <1>3, <1>5, NameOfType, UnderNothing DEF r

-----------------------------------------------------------------------------
(* Where extractTar puts what was stored.                                  *)
Base == IF flags.absolute THEN << >> ELSE Clean(Dest).parts
Spot(p) == Place(p).path.parts

(* The name of a root has no ".." in it, or is "..".                       *)
LEMMA NameIs ==
  ASSUME Given, NEW i \in DOMAIN args
  PROVE  NameOf(i).parts \in Names \/ (~flags.absolute /\ NameOf(i) = Path(FALSE, <<Up>>))
<1> DEFINE r == Root(i)
<1>1. r \in PathType /\ Clean(r) = r /\ r.parts \in Seq(Part)
  BY RootType, PathIs
<1>2. NameOf(i) = IF flags.absolute THEN Abs(r) ELSE Rooted(r, << >>)
  BY <1>1, AbsoluteType, LabelType DEF NameOf, Label, Root
<1>3. CASE flags.absolute
  <2>1. NameOf(i) = Path(TRUE, Node(r)) /\ Node(r) \in Names
    BY <1>1, <1>2, <1>3, NodeIs, NodeNames
  <2> QED
    BY <2>1 DEF Path
<1>4. CASE ~flags.absolute /\ Up \notin Range(r.parts)
  BY <1>4, PlainName
<1>5. CASE ~flags.absolute /\ Up \in Range(r.parts)
  <2>0. r.parts # << >>
    BY <1>5, EmptySeq DEF Range
  <2>1. Last(r.parts) \in Part
    BY <1>1, <2>0, AppendFront
  <2> DEFINE l == Last(r.parts)
  <2>2. BaseOf(r) = <<l>> /\ BaseOf(r) # << >>
    BY <2>0 DEF BaseOf
  <2>3. <<l>> \o << >> = <<l>> /\ <<l>> = Append(<< >>, l) /\ l \in Part /\ << >> \in Seq(Part)
    BY <2>1, ConcatEmptySeq, EmptySeq
  <2>4. NameOf(i) = Clean(Path(FALSE, <<l>>))
    BY <1>2, <1>5, <2>2, <2>3 DEF Rooted
  <2> HIDE DEF l
  <2>5. Cleaned(FALSE, Append(<< >>, l)) = CleanStep(FALSE, << >>, l)
    BY <2>3, CleanAppend, CleanNothing
  <2>6. CleanStep(FALSE, << >>, l) = Append(<< >>, l)
    BY DEF CleanStep
  <2>7. Cleaned(FALSE, <<l>>) = <<l>>
    BY <2>3, <2>5, <2>6
  <2>8. <<l>> \in Seq(Part)
    BY <2>3
  <2>9. NameOf(i) = Path(FALSE, <<l>>)
    BY <2>4, <2>7, <2>8, CleanIs, LenProperties
  <2>10. l # Up => <<l>> \in Names
    BY <2>1 DEF l, Part, Names
  <2>11. CASE l = Up
    BY <1>5, <2>9, <2>11
  <2>12. CASE l # Up
    <3>1. NameOf(i).parts = <<l>>
      BY <2>9 DEF Path
    <3> QED
      BY <2>10, <2>12, <3>1
  <2> QED
    BY <2>11, <2>12
<1> QED
  BY <1>3, <1>4, <1>5

(* An absolute destination, or one of names only, takes all below it, and  *)
(* another only what stays above it: then each entry has its place below   *)
(* the destination under its own name.  The exception is "/", which takes  *)
(* ".." as itself, and nothing below that.                                 *)
Lands(p) == Spot(p) = Base \o p.parts \/ (Base = << >> /\ Spot(p) = << >> /\ p.parts = <<Up>>)

LEMMA SpotAbsolute ==
  ASSUME Given, flags.absolute, NEW i \in DOMAIN args, NEW n, Holds(i, n)
  PROVE  /\ Place(StoredOf(i, n)).legal
         /\ Spot(StoredOf(i, n)) = Base \o StoredOf(i, n).parts
<1>1. /\ StoredOf(i, n) \in PathType /\ Clean(StoredOf(i, n)) = StoredOf(i, n)
      /\ StoredOf(i, n).parts \in Seq(Part)
  BY StoredParts, PathIs
<1>2. Place(StoredOf(i, n)).legal /\ Spot(StoredOf(i, n)) = StoredOf(i, n).parts
  BY <1>1 DEF Place, Spot
<1> QED
  BY <1>1, <1>2, ConcatEmptySeq DEF Base

(* safeJoin, by components.                                                *)
LEMMA JoinIs ==
  ASSUME NEW p \in PathType, Clean(p) = p
  PROVE  LET b == Clean(Dest)
             s == Cleaned(b.abs, b.parts \o p.parts)
         IN /\ safeJoin(Dest, p).path = Path(b.abs, s)
            /\ safeJoin(Dest, p).path.parts = s /\ s \in Seq(Part)
            /\ safeJoin(Dest, p).legal <=> s = b.parts \/ (b.parts # << >> /\ IsPrefix(b.parts, s))
<1> DEFINE b == Clean(Dest)
           s == Cleaned(b.abs, b.parts \o p.parts)
           j == Join(b, Clean(p).parts)
<1>1. b \in PathType /\ Clean(b) = b /\ b.parts \in Seq(Part) /\ p.parts \in Seq(Part)
      /\ b = Path(b.abs, b.parts)
  BY DestAssumption, CleanOf, PathIs
<1>2. b.parts \o p.parts \in Seq(Part)
  BY <1>1, ConcatProperties
<1>3. j = Clean(Path(b.abs, b.parts \o p.parts))
  BY DEF Join
<1>4. j = Path(b.abs, s) /\ s \in Seq(Part)
  BY <1>2, <1>3, CleanIs, CleanType, LenProperties
<1>5. j.parts = s /\ j.abs = b.abs
  BY <1>4 DEF Path
<1>6. /\ safeJoin(Dest, p).path = j
      /\ safeJoin(Dest, p).legal <=> j = b \/ (b.parts # << >> /\ Below(b, j))
  BY <1>1 DEF safeJoin
<1>7. j = b <=> s = b.parts
  BY <1>1, <1>4, <1>5
<1> QED
  BY <1>4, <1>5, <1>6, <1>7 DEF Below

LEMMA LandsAt ==
  ASSUME Given, NEW i \in DOMAIN args, NEW n, Holds(i, n),
         Place(NameOf(i)).legal, Place(StoredOf(i, n)).legal
  PROVE  Lands(StoredOf(i, n))
<1>1. CASE flags.absolute
  BY <1>1, SpotAbsolute DEF Lands
<1>2. CASE ~flags.absolute
  <2> DEFINE b == Clean(Dest)
             d == b.parts
             q == After(Node(Root(i)), n)
             t == StoredOf(i, n)
             s == Cleaned(b.abs, d \o t.parts)
  <2>1. /\ b \in PathType /\ Clean(b) = b /\ d \in Seq(Part) /\ b.abs \in BOOLEAN
        /\ Cleaned(b.abs, d) = d
    <3>1. b \in PathType /\ Clean(b) = b /\ b = Path(b.abs, b.parts) /\ b.parts \in Seq(Part) /\ b.abs \in BOOLEAN
      BY DestAssumption, CleanOf, PathIs
    <3> HIDE DEF b
    <3> QED
      BY <3>1 DEF Cleaned
  <2>2. q \in Names /\ q \in Seq(Part) /\ t.parts = NameOf(i).parts \o q
    <3>1. q \in Names /\ t = Under(NameOf(i), q)
      BY Way
    <3> HIDE DEF q
    <3> QED
      BY <3>1, NameOfType, UnderType, NamesType
  <2>3. t \in PathType /\ Clean(t) = t /\ NameOf(i) \in PathType /\ Clean(NameOf(i)) = NameOf(i)
    BY StoredParts, NameOfType
  <2>4. Spot(t) = s /\ (s = d \/ (d # << >> /\ IsPrefix(d, s)))
    BY <1>2, <2>3, JoinIs DEF Spot, Place
  <2>5. Base = d
    BY <1>2 DEF Base
  <2>6. CASE NameOf(i).parts \in Names
    <3>1. t.parts \in Names
      BY <2>6, PlainStored
    <3>2. s = d \o t.parts
      <4> DEFINE x == t.parts
      <4>1. x \in Names
        BY <3>1
      <4> HIDE DEF x, d, b
      <4>2. Cleaned(b.abs, d \o x) = Cleaned(b.abs, d) \o x
        BY <2>1, <4>1, CleanPlain
      <4>3. Cleaned(b.abs, d \o x) = d \o x
        BY <2>1, <4>2
      <4> QED
        BY <4>3 DEF x
    <3> QED
      BY <2>4, <2>5, <3>2 DEF Lands
  <2>7. CASE NameOf(i) = Path(FALSE, <<Up>>)
    <3> DEFINE u == Cleaned(b.abs, d \o <<Up>>)
    <3>1. NameOf(i).parts = <<Up>> /\ <<Up>> \in Seq(Part) /\ d \o <<Up>> = Append(d, Up)
          /\ d \o <<Up>> \in Seq(Part) /\ Up \in Part
      <4>1. <<Up>> \in Seq(Part) /\ Up \in Part
        BY UpIsPart
      <4>2. NameOf(i).parts = <<Up>>
        BY <2>7 DEF Path
      <4> HIDE DEF d
      <4>3. d \o <<Up>> = Append(d, Up) /\ d \o <<Up>> \in Seq(Part)
        BY <2>1, <4>1, ConcatProperties
      <4> QED
        BY <4>1, <4>2, <4>3
    <3>2. u = d \/ (d # << >> /\ IsPrefix(d, u))
      BY <1>2, <2>3, <3>1, JoinIs DEF Place
    <3>3. u = CleanStep(b.abs, d, Up)
      <4> HIDE DEF d, b
      <4>1. Cleaned(b.abs, Append(d, Up)) = CleanStep(b.abs, Cleaned(b.abs, d), Up)
        BY <2>1, <3>1, CleanAppend
      <4> QED
        BY <2>1, <3>1, <4>1
    <3>4. s = u \o q
      <4>1. d \o (<<Up>> \o q) = (d \o <<Up>>) \o q
        <5> HIDE DEF d, q
        <5> QED
          BY <2>1, <2>2, <3>1, ConcatAssociative
      <4>2. s = Cleaned(b.abs, (d \o <<Up>>) \o q)
        BY <2>2, <3>1, <4>1
      <4> QED
        BY <2>2, <3>1, <4>2, CleanPlain
    <3> HIDE DEF u, s, b, q
    <3>5. CASE d # << >> /\ Last(d) # Up
      <4>1. u = Front(d)
        BY <3>3, <3>5 DEF CleanStep
      <4>2. Front(d) \in Seq(Part) /\ IsPrefix(Front(d), d) /\ Front(d) # d
        BY <2>1, <3>5, AppendFront, PrefixFront
      <4> QED
        BY <2>1, <3>2, <4>1, <4>2, PrefixBoth
    <3>6. CASE ~(d # << >> /\ Last(d) # Up) /\ b.abs
      <4>1. d = << >>
        <5>1. SUFFICES ASSUME d # << >> PROVE FALSE
          OBVIOUS
        <5>2. b.abs = TRUE
          BY <2>1, <3>6
        <5>3. d \in Names
          BY <2>1, <5>2, CleanedNames
        <5>4. Last(d) \in Name
          BY <5>1, <5>3, AppendFront DEF Names
        <5> QED
          BY <3>6, <5>1, <5>4, UpIsPart
      <4>2. u = d
        BY <3>3, <3>6 DEF CleanStep
      <4>3. s = q
        BY <2>2, <3>4, <4>1, <4>2, ConcatEmptySeq
      <4>4. s = << >> /\ q = << >>
        BY <2>4, <4>1, <4>3
      <4>5. t.parts = <<Up>>
        BY <2>2, <3>1, <4>4, ConcatEmptySeq
      <4> QED
        BY <2>4, <2>5, <4>1, <4>4, <4>5 DEF Lands
    <3>7. CASE ~(d # << >> /\ Last(d) # Up) /\ ~b.abs
      <4>1. u = d \o <<Up>>
        BY <3>1, <3>3, <3>7 DEF CleanStep
      <4>2. s = d \o (<<Up>> \o q)
        <5> HIDE DEF d
        <5> QED
          BY <2>1, <2>2, <3>1, <3>4, <4>1, ConcatAssociative
      <4>3. s = d \o t.parts
        BY <2>2, <3>1, <4>2
      <4> QED
        BY <2>4, <2>5, <4>3 DEF Lands
    <3> QED
      BY <3>5, <3>6, <3>7
  <2> QED
    BY <2>6, <2>7, NameIs
<1> QED
  BY <1>1, <1>2

(* With roots that do not end in ".." all are taken.                       *)
Regarded ==
  flags.absolute \/
    (Clean(Dest).parts # << >> /\ \A i \in DOMAIN args : Up \notin Range(Clean(args[i]).parts))
LEMMA SpotPlain ==
  ASSUME Given, Regarded, NEW i \in DOMAIN args, NEW n, Holds(i, n)
  PROVE  /\ Place(StoredOf(i, n)).legal
         /\ Spot(StoredOf(i, n)) = Base \o StoredOf(i, n).parts
<1>1. CASE flags.absolute
  BY <1>1, SpotAbsolute
<1>2. CASE ~flags.absolute
  <2>1. StoredOf(i, n) \in PathType /\ Clean(StoredOf(i, n)) = StoredOf(i, n)
    BY StoredParts
  <2>2. StoredOf(i, n).parts \in Names
    BY <1>2, PlainName, PlainStored DEF Regarded, Root
  <2>3. /\ safeJoin(Dest, StoredOf(i, n)).legal
        /\ safeJoin(Dest, StoredOf(i, n)).path.parts = Clean(Dest).parts \o StoredOf(i, n).parts
    BY <1>2, <2>1, <2>2, JoinPlain DEF Regarded
  <2> QED
    BY <1>2, <2>3 DEF Place, Spot, Base
<1> QED
  BY <1>1, <1>2

LEMMA EmptyPrefix ==
  ASSUME NEW s \in Seq(Part)
  PROVE  IsPrefix(<< >>, s)
<1> DEFINE e == << >>
<1>1. e \in Seq(Part) /\ Len(e) = 0 /\ Len(s) \in Nat
  BY EmptySeq, LenProperties
<1> HIDE DEF e
<1>2. Len(e) <= Len(s) /\ \A k \in 1 .. Len(e) : e[k] = s[k]
  BY <1>1
<1>3. IsPrefix(e, s)
  BY <1>1, <1>2, PrefixIs
<1> QED
  BY <1>3 DEF e

LEMMA UpAlone == <<Up>> \notin Names
<1> DEFINE s == <<Up>>
<1>1. s[1] = Up /\ Len(s) = 1
  OBVIOUS
<1> HIDE DEF s
<1>2. s \notin Names
  BY <1>1, NamesType
<1> QED
  BY <1>2 DEF s

LEMMA BaseIsParts == Base \in Seq(Part)
<1>1. Clean(Dest).parts \in Seq(Part)
  BY DestAssumption, CleanOf, PathIs
<1> QED
  BY <1>1, EmptySeq DEF Base

(* Two entries have one place only if they are one.                        *)
LEMMA SpotsApart ==
  ASSUME Given, Apart,
         NEW i \in DOMAIN args, NEW n, Holds(i, n), NEW j \in DOMAIN args, NEW m, Holds(j, m),
         Lands(StoredOf(i, n)), Lands(StoredOf(j, m)),
         Spot(StoredOf(i, n)) = Spot(StoredOf(j, m))
  PROVE  StoredOf(i, n).parts = StoredOf(j, m).parts
<1> DEFINE s == StoredOf(i, n).parts
           t == StoredOf(j, m).parts
<1>1. s \in Seq(Part) /\ t \in Seq(Part) /\ Base \in Seq(Part)
  BY StoredParts, PathIs, BaseIsParts
<1>2. ASSUME NEW k \in DOMAIN args, NEW u, Holds(k, u), NEW l \in DOMAIN args, NEW v, Holds(l, v),
             StoredOf(k, u).parts = << >>, StoredOf(l, v).parts = <<Up>>
      PROVE  FALSE
  <2>1. StoredOf(l, v).parts \in Seq(Part) /\ << >> \in Seq(Part)
    BY <1>2, StoredParts, PathIs, EmptySeq
  <2>2. IsPrefix(<< >>, StoredOf(l, v).parts)
    BY <2>1, EmptyPrefix
  <2>3. k = l
    BY <1>2, <2>2, StoredApart
  <2>4. NameOf(k).parts \in Seq(Part) /\ IsPrefix(NameOf(k).parts, << >>)
    BY <1>2, StoredParts, NameOfType, PathIs
  <2>5. NameOf(k).parts = << >>
    <3>1. IsPrefix(<< >>, NameOf(k).parts)
      BY <2>4, EmptyPrefix
    <3> QED
      BY <2>1, <2>4, <3>1, PrefixBoth
  <2>6. NameOf(l).parts \in Names
    BY <2>3, <2>5, NothingIsNames
  <2>7. <<Up>> \in Names
    BY <1>2, <2>6, PlainStored
  <2> QED
    BY <2>7, UpAlone
<1>3. CASE Spot(StoredOf(i, n)) = Base \o s /\ Spot(StoredOf(j, m)) = Base \o t
  <2> HIDE DEF s, t
  <2>1. Base \o s = Base \o t
    BY <1>3 DEF s, t
  <2> QED
    BY <1>1, <2>1, ConcatInjective DEF s, t
<1>4. CASE Base = << >> /\ Spot(StoredOf(i, n)) = << >> /\ s = <<Up>> /\ Spot(StoredOf(j, m)) = Base \o t
  <2>1. t = << >>
    BY <1>1, <1>4, ConcatEmptySeq
  <2> QED
    BY <1>2, <1>4, <2>1
<1>5. CASE Base = << >> /\ Spot(StoredOf(j, m)) = << >> /\ t = <<Up>> /\ Spot(StoredOf(i, n)) = Base \o s
  <2>1. s = << >>
    BY <1>1, <1>5, ConcatEmptySeq
  <2> QED
    BY <1>2, <1>5, <2>1
<1>6. CASE s = <<Up>> /\ t = <<Up>>
  BY <1>6
<1> QED
  BY <1>3, <1>4, <1>5, <1>6 DEF Lands

-----------------------------------------------------------------------------
(* The inductive invariant, for the format tar.                            *)

(* What is stored for node n under root i.                                 *)
Ent(i, n) == [path |-> StoredOf(i, n), src |-> PathOf(i, n), node |-> n]
EntryType == [path : PathType, src : PathType, node : Nodes]
Empty == [p \in {<< >>} |-> Thing("dir", FALSE)]

(* walkPaths does nothing.                                                 *)
Idle == pc = "arg" /\ todo = << >> /\ states = << >> /\ files = EmptyBag /\ dirs = {}

TarCourse ==
  /\ Given
  /\ arg \in 1 .. Len(args) + 1
  /\ at \in {"arg", "walk", "untar", "failed", "refused", "restored"}
  /\ names \in Seq(PathType)
  /\ at = "walk" => arg \in DOMAIN args
  /\ at \notin {"walk", "failed"} => names = << >>
  /\ at \in {"untar", "refused", "restored"} => arg = Len(args) + 1
  /\ stored \in Seq(EntryType)
  /\ next \in 1 .. Len(stored) + 1
  /\ at \in {"arg", "walk", "failed"} => next = 1 /\ placed = Empty

(* The paths still to be visited: the root alone, or nodes below it that   *)
(* are not on the way to each other, once the root itself is stored.       *)
For(k) == Node(names[k])
TarWays ==
  at = "walk" => \A k \in DOMAIN names :
    /\ Holds(arg, For(k)) /\ names[k] = PathOf(arg, For(k))
    /\ names = <<root>> \/ (For(k) \in ever /\ For(k) # Node(root))
TarOnce == at = "walk" => \A j, k \in DOMAIN names : j # k => ~IsPrefix(For(j), For(k))
TarBegun ==
  at = "walk" /\ names # << >> /\ names # <<root>> =>
    \E j \in DOMAIN stored : stored[j] = Ent(arg, Node(root))

(* Each entry is that of a node no path leads to any more, and comes after *)
(* that of its root.                                                       *)
TarPassed(i, n) ==
  \/ i < arg
  \/ i = arg /\ at \in {"walk", "failed"} /\ \A k \in DOMAIN names : ~IsPrefix(For(k), n)
TarCame ==
  \A k \in DOMAIN stored : \E i \in DOMAIN args, n \in ever :
    /\ Holds(i, n) /\ TarPassed(i, n) /\ stored[k] = Ent(i, n)
    /\ \E j \in 1 .. k : stored[j] = Ent(i, Node(Root(i)))
TarSingle ==
  Apart => \A j, k \in DOMAIN stored : stored[j].path.parts = stored[k].path.parts => j = k

(* What was there all along and is asked for is stored, or still to come.  *)
TarSeen(i, n) == \E k \in DOMAIN stored : stored[k] = Ent(i, n)
TarAhead(n) == \E k \in DOMAIN names : IsPrefix(For(k), n)
TarKept ==
  \A i \in DOMAIN args, n \in steady : TarAsked(i, n) =>
    \/ at = "failed"
    \/ TarSeen(i, n)
    \/ i = arg /\ at = "walk" /\ TarAhead(n)
    \/ i > arg
    \/ i = arg /\ at = "arg"

Storage == Grown /\ Idle /\ TarCourse /\ TarWays /\ TarOnce /\ TarBegun /\ TarCame /\ TarSingle

(* What extractTar has done so far: the entries before next are in place,  *)
(* and nothing else is there but the way to them.                          *)
Done == 1 .. next - 1
Restored(k) ==
  LET n == stored[k].node
      p == Spot(stored[k].path)
  IN Tree[n] # "symlink" \/ options.special =>
       /\ p \in DOMAIN placed
       /\ Tree[n] = "dir" <=> placed[p].kind = "dir"
       /\ Tree[n] # "dir" => placed[p].node = n
Taken == \A k \in Done : Place(stored[k].path).legal
InPlace == Apart => \A k \in Done : Restored(k)
Made ==
  \A p \in DOMAIN placed :
    /\ p \in Seq(Part)
    /\ p = << >> \/ \E k \in Done : IsPrefix(p, Spot(stored[k].path))
    /\ placed[p].kind # "dir" =>
         \E k \in Done : p = Spot(stored[k].path) /\ Tree[stored[k].node] # "dir"
Free == ~options.perms \/ (options.kept /\ \A k \in DOMAIN stored : stored[k].node \notin Locked)
Unlocked == Free => \A p \in DOMAIN placed : ~placed[p].locked
Settled ==
  /\ at = "restored" => next = Len(stored) + 1
  /\ at = "refused" => ~Apart \/ lacking \/ ~Regarded \/ ~Free

Restoring == Taken /\ InPlace /\ Made /\ Unlocked /\ Settled

TarInv == Storage /\ TarKept /\ Restoring

-----------------------------------------------------------------------------
LEMMA TarSame ==
  ASSUME UNCHANGED <<flags, args>>
  PROVE  /\ Given' = Given /\ Apart' = Apart /\ Regarded' = Regarded /\ Base' = Base
         /\ \A i : Root(i)' = Root(i) /\ NameOf(i)' = NameOf(i)
         /\ \A i, n : /\ Holds(i, n)' = Holds(i, n) /\ PathOf(i, n)' = PathOf(i, n)
                      /\ StoredOf(i, n)' = StoredOf(i, n) /\ Ent(i, n)' = Ent(i, n)
                      /\ TarAsked(i, n)' = TarAsked(i, n)
         /\ \A p : Place(p)' = Place(p) /\ Spot(p)' = Spot(p) /\ Lands(p)' = Lands(p)
BY DEF Given, Apart, Regarded, Base, Root, NameOf, Holds, PathOf, StoredOf, Ent, TarAsked, HiddenName, Place, Spot, Lands

(* Before extractTar begins.                                               *)
LEMMA NoneRestored ==
  ASSUME next = 1, placed = Empty, at \notin {"refused", "restored"}
  PROVE  Restoring
<1>1. Done = {} /\ DOMAIN placed = {<< >>} /\ placed[<< >>] = Thing("dir", FALSE)
  BY DEF Done, Empty
<1>2. Made
  BY <1>1, EmptySeq DEF Made, Thing
<1>3. Unlocked
  BY <1>1 DEF Unlocked, Thing
<1> QED
  BY <1>1, <1>2, <1>3 DEF Restoring, Taken, InPlace, Settled

LEMMA NoneRestoredYet ==
  ASSUME next' = 1, placed' = Empty, at' \notin {"refused", "restored"}
  PROVE  Restoring'
<1>1. Done' = {} /\ DOMAIN placed' = {<< >>} /\ placed'[<< >>] = Thing("dir", FALSE)
  BY DEF Done, Empty
<1>2. Made'
  BY <1>1, EmptySeq DEF Made, Thing
<1>3. Unlocked'
  BY <1>1 DEF Unlocked, Thing
<1> QED
  BY <1>1, <1>2, <1>3 DEF Restoring, Taken, InPlace, Settled

LEMMA TarInitInv ==
  ASSUME TarInit, at # "goxa"
  PROVE  TarInv
<1>1. /\ Init /\ at = "arg" /\ names = << >> /\ stored = << >> /\ next = 1 /\ placed = Empty
  BY DEF TarInit, Empty
<1>2. IInv
  BY <1>1, InvInit
<1>3. Grown /\ Given /\ arg = 1 /\ arg \in 1 .. Len(args) + 1
  BY <1>1, <1>2 DEF IInv, Walking, Course, Init
<1>4. Idle
  BY <1>1 DEF Init, Idle
<1>5. stored \in Seq(EntryType) /\ names \in Seq(PathType) /\ DOMAIN stored = {} /\ Len(stored) = 0
  BY <1>1, EmptySeq
<1>6. TarCourse
  BY <1>1, <1>3, <1>5 DEF TarCourse
<1>7. TarWays /\ TarOnce /\ TarBegun /\ TarCame /\ TarSingle
  BY <1>1, <1>5 DEF TarWays, TarOnce, TarBegun, TarCame, TarSingle
<1>8. TarKept
  <2>1. args \in Seq(PathType)
    BY <1>3, ArgListsAssumption DEF Given
  <2>2. \A i \in DOMAIN args : i > arg \/ i = arg
    BY <1>3, <2>1, LenProperties
  <2> QED
    BY <1>1, <2>2 DEF TarKept
<1> QED
  BY <1>1, <1>3, <1>4, <1>6, <1>7, <1>8, NoneRestored DEF TarInv, Storage

(* Others change the tree.                                                 *)
LEMMA TarOthersStep ==
  ASSUME TarInv, Others, UNCHANGED tarVars, at \in {"arg", "walk"}
  PROVE  TarInv'
<1>1. /\ Grown' /\ ever \subseteq ever' /\ steady' \subseteq steady
      /\ UNCHANGED <<flags, args, arg, todo, states, files, dirs, pc>>
  BY OthersGrown DEF TarInv, Storage
<1>2. UNCHANGED <<at, options, names, stored, lacking, next, placed>>
  BY DEF tarVars, archive, disk
<1>3. /\ Given' = Given /\ Apart' = Apart
      /\ \A i : Root(i)' = Root(i)
      /\ \A i, n : /\ Holds(i, n)' = Holds(i, n) /\ PathOf(i, n)' = PathOf(i, n)
                   /\ Ent(i, n)' = Ent(i, n) /\ TarAsked(i, n)' = TarAsked(i, n)
  BY <1>1, TarSame
<1>4. /\ \A k : For(k)' = For(k)
      /\ \A i, n : TarPassed(i, n)' = TarPassed(i, n)
      /\ root' = root
  BY <1>1, <1>2 DEF For, TarPassed, root
<1>5. Idle'
  BY <1>1 DEF TarInv, Storage, Idle
<1>6. TarCourse' /\ next = 1 /\ placed = Empty
  BY <1>1, <1>2, <1>3 DEF TarInv, Storage, TarCourse, Empty, Thing
<1>7. TarWays' /\ TarOnce' /\ TarBegun'
  BY <1>1, <1>2, <1>3, <1>4 DEF TarInv, Storage, TarWays, TarOnce, TarBegun
<1>8. TarCame'
  BY <1>1, <1>2, <1>3, <1>4 DEF TarInv, Storage, TarCame
<1>9. TarSingle'
  BY <1>2, <1>3 DEF TarInv, Storage, TarSingle
<1>10. TarKept'
  <2>1. \A i, n : TarSeen(i, n)' = TarSeen(i, n) /\ TarAhead(n)' = TarAhead(n)
    BY <1>2, <1>3, <1>4 DEF TarSeen, TarAhead
  <2> QED
    BY <1>1, <1>2, <1>3, <2>1 DEF TarInv, TarKept
<1>11. Restoring'
  <2>1. Empty' = Empty
    BY DEF Empty, Thing
  <2> QED
    BY <1>2, <1>6, <2>1, NoneRestoredYet
<1> QED
  BY <1>1, <1>5, <1>6, <1>7, <1>8, <1>9, <1>10, <1>11 DEF TarInv, Storage

-----------------------------------------------------------------------------
(* The path at hand.                                                       *)
LEMMA HereIs ==
  ASSUME Storage, Storing
  PROVE  LET n == Node(here) IN
         /\ at = "walk" /\ Given /\ arg \in DOMAIN args /\ 1 \in DOMAIN names
         /\ n = For(1) /\ n \in Seq(Part) /\ Holds(arg, n)
         /\ here = PathOf(arg, n) /\ Entry = Ent(arg, n)
         /\ n = Node(root) => names = <<root>> /\ here = root
         /\ n # Node(root) => n \in ever /\ n # << >> /\ Last(here.parts) = Last(n) /\ Last(n) \in Name
                              /\ here.parts # << >>
<1> DEFINE n == Node(here)
<1>1. /\ names \in Seq(PathType) /\ names # << >> /\ arg \in DOMAIN args /\ Given /\ at = "walk"
      /\ TarWays
  BY DEF Storage, TarCourse, Storing
<1>2. 1 \in DOMAIN names /\ here = names[1]
  BY <1>1, EmptySeq, LenProperties, HeadTailProperties DEF here
<1>3. n = For(1)
  BY <1>2 DEF For
<1>4. Holds(arg, n) /\ here = PathOf(arg, n) /\ (names = <<root>> \/ (n \in ever /\ n # Node(root)))
  BY <1>1, <1>2, <1>3 DEF TarWays
<1>5. names = <<root>> => here = root
  BY DEF here
<1> HIDE DEF n
<1>6. n # Node(root) => /\ n # << >> /\ Last(n) \in Name /\ Last(PathOf(arg, n).parts) = Last(n)
                        /\ PathOf(arg, n) = Child(PathOf(arg, Front(n)), Last(n)) /\ Holds(arg, Front(n))
  BY <1>1, <1>4, Shallower DEF root, Root
<1>7. n # Node(root) => here.parts # << >>
  <2> SUFFICES ASSUME n # Node(root) PROVE here.parts # << >>
    OBVIOUS
  <2> DEFINE s == PathOf(arg, Front(n)).parts
             e == Last(n)
  <2>1. here.parts = Append(s, e) /\ e \in Part
    BY <1>4, <1>6, UpIsPart DEF Child, Path
  <2>2. s \in Seq(Part)
    BY <1>1, <1>6, Way, RootType, UnderType, PathIs
  <2> HIDE DEF s, e
  <2> QED
    BY <2>1, <2>2, FrontAppend
<1>8. Entry = Ent(arg, n)
  <2>1. Stored(here) = StoredOf(arg, n)
    BY <1>4 DEF Stored, StoredOf, root
  <2> QED
    BY <1>4, <2>1 DEF Entry, Ent, n
<1>9. n \in Seq(Part)
  BY <1>4, NamesType DEF Holds
<1>10. names = <<root>> => n = Node(root)
  BY <1>5 DEF n
<1> QED
  BY <1>1, <1>2, <1>3, <1>4, <1>5, <1>6, <1>7, <1>8, <1>9, <1>10 DEF n

(* Paths to put in its place: they lead to nodes in it.                    *)
TarFresh(c) ==
  /\ c \in Seq(PathType)
  /\ \A j \in DOMAIN c : LET n == Node(c[j]) IN
       /\ n \in ever /\ n # << >> /\ Front(n) = For(1) /\ Holds(arg, n) /\ n # Node(root)
       /\ c[j] = PathOf(arg, n)
  /\ \A j, k \in DOMAIN c : j # k => Node(c[j]) # Node(c[k])

LEMMA TarNextPaths ==
  ASSUME Storage, Storing, NEW c, TarFresh(c), names' = c \o Tail(names),
         UNCHANGED <<ever, flags, args, arg, at>>
  PROVE  /\ names' \in Seq(PathType) /\ TarWays' /\ TarOnce'
         /\ names' # <<root>>
         /\ \A i, n : Holds(i, n) /\ TarPassed(i, n) => TarPassed(i, n)'
         /\ \A i, n : i = arg /\ n = For(1) => TarPassed(i, n)'
         /\ \A n \in Nodes : TarAhead(n) => IsPrefix(For(1), n) \/ TarAhead(n)'
         /\ \A j \in DOMAIN c, n \in Nodes : IsPrefix(Node(c[j]), n) => TarAhead(n)'
         /\ c = << >> /\ names = <<root>> => names' = << >>
<1> DEFINE h == For(1)
           m == Len(c)
<1>1. names \in Seq(PathType) /\ names # << >> /\ c \in Seq(PathType) /\ at = "walk"
  BY DEF Storage, TarCourse, Storing, TarFresh
<1>2. /\ names' \in Seq(PathType)
      /\ 1 \in DOMAIN names
      /\ \A k \in DOMAIN names' :
           \/ k \in DOMAIN c /\ names'[k] = c[k]
           \/ k - m + 1 \in DOMAIN names \ {1} /\ names'[k] = names[k - m + 1]
      /\ \A j \in DOMAIN c : j \in DOMAIN names' /\ names'[j] = c[j]
      /\ \A j \in DOMAIN names \ {1} : j + m - 1 \in DOMAIN names' /\ names'[j + m - 1] = names[j]
  <2> DEFINE t == names'
             s == names
  <2>1. t = c \o Tail(s) /\ s \in Seq(PathType) /\ s # << >> /\ c \in Seq(PathType)
    BY <1>1
  <2> HIDE DEF t, s
  <2>2. /\ t \in Seq(PathType)
        /\ 1 \in DOMAIN s
        /\ \A k \in DOMAIN t :
             \/ k \in DOMAIN c /\ t[k] = c[k]
             \/ k - Len(c) + 1 \in DOMAIN s \ {1} /\ t[k] = s[k - Len(c) + 1]
        /\ \A j \in DOMAIN c : j \in DOMAIN t /\ t[j] = c[j]
        /\ \A j \in DOMAIN s \ {1} : j + Len(c) - 1 \in DOMAIN t /\ t[j + Len(c) - 1] = s[j]
    BY <2>1, HeadReplaced, SMTT(60)
  <2> QED
    BY <2>2 DEF t, s
<1>3. /\ Given' = Given
      /\ \A i, n : /\ Holds(i, n)' = Holds(i, n) /\ PathOf(i, n)' = PathOf(i, n)
  BY TarSame
<1>4. root' = root
  BY DEF root
<1>5. \A k : For(k)' = Node(names'[k])
  BY DEF For
<1>6. h \in Seq(Part) /\ Holds(arg, h)
  <2>1. h = Node(here)
    BY HereIs
  <2> QED
    BY <2>1, HereIs
<1>7. names = <<root>> => DOMAIN names = {1}
  OBVIOUS
<1>8. \A k \in DOMAIN names \ {1} :
        /\ names # <<root>> /\ Holds(arg, For(k)) /\ names[k] = PathOf(arg, For(k))
        /\ For(k) \in ever /\ For(k) # Node(root) /\ For(k) \in Seq(Part)
  <2>1. \A k \in DOMAIN names \ {1} :
        /\ names # <<root>> /\ Holds(arg, For(k)) /\ names[k] = PathOf(arg, For(k))
        /\ For(k) \in ever /\ For(k) # Node(root)
    BY <1>1, <1>7 DEF Storage, TarWays
  <2> QED
    BY <2>1, NamesType DEF Holds
<1>9. ASSUME NEW j \in DOMAIN c
      PROVE  LET n == Node(c[j]) IN
             /\ n \in Seq(Part) /\ n \in Nodes /\ IsPrefix(h, n) /\ h # n
             /\ \A k \in DOMAIN names \ {1} : ~IsPrefix(For(k), n) /\ ~IsPrefix(n, For(k))
             /\ ~IsPrefix(n, h)
  <2> DEFINE n == Node(c[j])
  <2>1. n \in ever /\ n # << >> /\ Front(n) = h
    BY <1>9 DEF TarFresh
  <2>2. n \in Nodes /\ n \in Seq(Part)
    BY <2>1, NodeType DEF Storage, Grown
  <2> HIDE DEF n, h
  <2>3. IsPrefix(h, n) /\ h # n /\ \A s \in Seq(Part) : IsPrefix(s, n) <=> s = n \/ IsPrefix(s, h)
    BY <2>1, <2>2, PrefixFront
  <2>4. ~IsPrefix(n, h)
    BY <1>6, <2>2, <2>3, PrefixBoth
  <2>5. ASSUME NEW k \in DOMAIN names \ {1}
        PROVE  ~IsPrefix(For(k), n) /\ ~IsPrefix(n, For(k))
    <3>1. ~IsPrefix(For(k), h) /\ ~IsPrefix(h, For(k))
      BY <1>1, <1>2 DEF h, Storage, TarOnce
    <3>2. For(k) \in Seq(Part)
      BY <1>8
    <3>3. IsPrefix(n, For(k)) => IsPrefix(h, For(k))
      BY <1>6, <2>2, <2>3, <3>2, PrefixTransitive
    <3> QED
      BY <2>3, <3>1, <3>2, <3>3
  <2> QED
    BY <2>2, <2>3, <2>4, <2>5 DEF n
<1>10. m \in Nat /\ DOMAIN c = 1 .. m
  BY <1>1, LenProperties
<1> HIDE DEF m
<1>11. ASSUME NEW k \in DOMAIN names'
       PROVE  LET n == Node(names'[k]) IN
              /\ n \in ever /\ Holds(arg, n) /\ n # Node(root) /\ names'[k] = PathOf(arg, n)
  <2>1. CASE k \in DOMAIN c /\ names'[k] = c[k]
    BY <2>1 DEF TarFresh
  <2>2. CASE k - m + 1 \in DOMAIN names \ {1} /\ names'[k] = names[k - m + 1]
    BY <1>8, <2>2 DEF For
  <2> QED
    BY <1>2, <2>1, <2>2
<1>12. TarWays'
  BY <1>3, <1>4, <1>5, <1>11 DEF TarWays
<1>13. TarOnce'
  <2> SUFFICES ASSUME NEW j \in DOMAIN names', NEW k \in DOMAIN names', j # k
               PROVE  ~IsPrefix(Node(names'[j]), Node(names'[k]))
    BY <1>5 DEF TarOnce
  <2>1. CASE j \in DOMAIN c /\ names'[j] = c[j] /\ k \in DOMAIN c /\ names'[k] = c[k]
    <3>1. /\ Node(c[j]) # Node(c[k]) /\ Front(Node(c[k])) = h /\ Node(c[k]) # << >>
          /\ Node(c[j]) \in Seq(Part) /\ Node(c[k]) \in Seq(Part) /\ ~IsPrefix(Node(c[j]), h)
      BY <1>9, <2>1 DEF TarFresh
    <3> QED
      BY <2>1, <3>1, PrefixFront
  <2>2. CASE j \in DOMAIN c /\ names'[j] = c[j] /\ k - m + 1 \in DOMAIN names \ {1} /\ names'[k] = names[k - m + 1]
    BY <1>9, <2>2 DEF For
  <2>3. CASE k \in DOMAIN c /\ names'[k] = c[k] /\ j - m + 1 \in DOMAIN names \ {1} /\ names'[j] = names[j - m + 1]
    BY <1>9, <2>3 DEF For
  <2>4. CASE /\ j - m + 1 \in DOMAIN names \ {1} /\ names'[j] = names[j - m + 1]
             /\ k - m + 1 \in DOMAIN names \ {1} /\ names'[k] = names[k - m + 1]
    <3>1. DOMAIN names' \subseteq Nat
      BY <1>2, LenProperties
    <3>2. j - m + 1 # k - m + 1
      BY <1>10, <3>1
    <3> QED
      BY <1>1, <2>4, <3>2 DEF Storage, TarOnce, For
  <2> QED
    BY <1>2, <2>1, <2>2, <2>3, <2>4
<1>14. ASSUME NEW n \in Seq(Part), \A k \in DOMAIN names \ {1} : ~IsPrefix(For(k), n),
              \A j \in DOMAIN c : ~IsPrefix(Node(c[j]), n)
       PROVE  \A k \in DOMAIN names' : ~IsPrefix(For(k), n)'
  BY <1>2, <1>5, <1>14 DEF For
<1>15. ASSUME NEW i, NEW n, Holds(i, n), TarPassed(i, n)
       PROVE  TarPassed(i, n)'
  <2>1. CASE i < arg
    BY <2>1 DEF TarPassed
  <2>2. CASE i = arg /\ \A k \in DOMAIN names : ~IsPrefix(For(k), n)
    <3>1. n \in Seq(Part)
      BY <1>15, NamesType DEF Holds
    <3>2. \A j \in DOMAIN c : ~IsPrefix(Node(c[j]), n)
      BY <1>2, <1>6, <1>9, <2>2, <3>1, PrefixTransitive
    <3>3. \A k \in DOMAIN names' : ~IsPrefix(For(k), n)'
      BY <1>14, <2>2, <3>1, <3>2
    <3> QED
      BY <1>1, <2>2, <3>3 DEF TarPassed
  <2> QED
    BY <1>15, <2>1, <2>2 DEF TarPassed
<1>16. ASSUME NEW i, NEW n, i = arg, n = h
       PROVE  TarPassed(i, n)'
  <2>1. \A k \in DOMAIN names \ {1} : ~IsPrefix(For(k), h)
    BY <1>1, <1>2 DEF Storage, TarOnce
  <2>2. \A j \in DOMAIN c : ~IsPrefix(Node(c[j]), h)
    BY <1>9
  <2>3. \A k \in DOMAIN names' : ~IsPrefix(For(k), n)'
    BY <1>6, <1>14, <1>16, <2>1, <2>2
  <2> QED
    BY <1>1, <1>16, <2>3 DEF TarPassed
<1>17. \A n \in Nodes : TarAhead(n) => IsPrefix(h, n) \/ TarAhead(n)'
  BY <1>2, <1>5 DEF TarAhead, For
<1>18. \A j \in DOMAIN c, n \in Nodes : IsPrefix(Node(c[j]), n) => TarAhead(n)'
  BY <1>2, <1>5 DEF TarAhead
<1>19. names' # <<root>>
  <2>1. SUFFICES ASSUME names' = <<root>> PROVE FALSE
    OBVIOUS
  <2>2. 1 \in DOMAIN names' /\ names'[1] = root
    BY <2>1
  <2> QED
    BY <1>11, <2>2
<1>20. ASSUME c = << >>, names = <<root>>
       PROVE  names' = << >>
  <2>1. DOMAIN c = {}
    BY <1>20
  <2>2. DOMAIN names' = {}
    BY <1>2, <1>7, <1>20, <2>1
  <2> QED
    BY <1>2, <2>2, EmptySeq, LenProperties
<1> QED
  BY <1>2, <1>12, <1>13, <1>15, <1>16, <1>17, <1>18, <1>19, <1>20

LEMMA NoneTarFresh ==
  ASSUME Storage, Storing
  PROVE  Tail(names) = << >> \o Tail(names) /\ TarFresh(<< >>)
<1>1. Tail(names) \in Seq(PathType)
  BY HeadTailProperties DEF Storage, TarCourse, Storing
<1> QED
  BY <1>1, ConcatEmptySeq, EmptySeq DEF TarFresh

(* What is left out is not asked for.                                      *)
LEMMA LeftOutIsNotAsked ==
  ASSUME Storage, Storing, Present, LeavesOut(here), NEW n \in Nodes, IsPrefix(For(1), n)
  PROVE  ~TarAsked(arg, n)
<1> DEFINE h == Node(here)
<1>1. /\ Given /\ arg \in DOMAIN args /\ h = For(1) /\ h \in Seq(Part) /\ Holds(arg, h)
      /\ h = Node(root) => here = root
      /\ h # Node(root) => /\ Last(here.parts) = Last(h) /\ Last(h) \in Name /\ here.parts # << >>
  BY HereIs
<1>2. h \in Nodes
  BY DEF Present, Storage, Grown
<1>3. CASE ~flags.invis /\ HiddenName(here)
  <2>1. CASE h = Node(root)
    BY <1>1, <1>3, <2>1 DEF TarAsked, root
  <2>2. CASE h # Node(root)
    <3>1. Last(h) \in Hidden
      BY <1>1, <1>3, <2>2, UpIsPart DEF HiddenName
    <3>2. LET rest == SubSeq(n, Len(Node(Root(arg))) + 1, Len(n)) IN Range(rest) \cap Hidden # {}
      BY <1>1, <2>2, <3>1, HiddenBelow DEF root, Root
    <3> QED
      BY <1>3, <3>2 DEF TarAsked, Root
  <2> QED
    BY <2>1, <2>2
<1>4. CASE Kind \notin {"file", "symlink", "dir"} /\ ~flags.special
  <2>1. Tree[h] # "dir"
    BY <1>4 DEF Kind
  <2>2. h = n
    BY <1>1, <2>1, OnTheWay
  <2> QED
    BY <1>4, <2>2 DEF TarAsked, Kind
<1> QED
  BY <1>3, <1>4 DEF LeavesOut

(* A step of createTar that leaves the disk to extract to alone.           *)
LEMMA CreateTarStep ==
  ASSUME TarInv, at \in {"arg", "walk"}, UNCHANGED <<flags, args, todo, states, files, dirs, pc, next, placed>>
  PROVE  /\ Idle'
         /\ next' = 1 /\ placed' = Empty'
         /\ at' \notin {"refused", "restored"} => Restoring'
<1>1. next = 1 /\ placed = Empty
  BY DEF TarInv, Storage, TarCourse
<1>2. Empty' = Empty
  BY DEF Empty, Thing
<1> QED
  BY <1>1, <1>2, NoneRestoredYet DEF TarInv, Storage, Idle, Empty, Thing

LEMMA TarFailStep ==
  ASSUME TarInv, TarGives("failed"), at \in {"arg", "walk"}, UNCHANGED <<flags, args, todo, states, files, dirs, pc>>
  PROVE  TarInv'
<1>1. /\ at' = "failed" /\ UNCHANGED <<tree, arg, options, names, stored, lacking, next, placed>>
  BY DEF TarGives, archive, disk
<1>2. /\ Given' = Given /\ Apart' = Apart
      /\ \A i : Root(i)' = Root(i)
      /\ \A i, n : /\ Holds(i, n)' = Holds(i, n) /\ Ent(i, n)' = Ent(i, n)
  BY TarSame
<1>3. Idle' /\ Restoring' /\ next' = 1 /\ placed' = Empty'
  BY <1>1, CreateTarStep
<1>4. TarCourse'
  BY <1>1, <1>2, <1>3 DEF TarInv, Storage, TarCourse
<1>5. TarWays' /\ TarOnce' /\ TarBegun' /\ Grown'
  BY <1>1 DEF TarWays, TarOnce, TarBegun, TarInv, Storage, Grown, Closed, tree
<1>6. \A i, n : TarPassed(i, n) => TarPassed(i, n)'
  BY <1>1 DEF TarPassed, For
<1>7. TarCame'
  BY <1>1, <1>2, <1>6 DEF TarInv, Storage, TarCame, tree
<1>8. TarSingle'
  BY <1>1, <1>2 DEF TarInv, Storage, TarSingle
<1>9. TarKept'
  BY <1>1 DEF TarKept
<1> QED
  BY <1>3, <1>4, <1>5, <1>7, <1>8, <1>9 DEF TarInv, Storage

LEMMA TarRootStep ==
  ASSUME TarInv, TarRoot, UNCHANGED <<flags, args, todo, states, files, dirs, pc>>
  PROVE  TarInv'
<1>1. /\ at = "arg" /\ arg <= Len(args) /\ names' = <<root>> /\ at' = "walk" /\ names = << >>
      /\ UNCHANGED <<tree, arg, options, stored, lacking, next, placed>>
      /\ Given /\ arg \in 1 .. Len(args) + 1
  BY DEF TarRoot, archive, disk, TarInv, Storage, TarCourse
<1>2. args \in Seq(PathType) /\ arg \in DOMAIN args
  <2>1. args \in Seq(PathType)
    BY <1>1, ArgListsAssumption DEF Given
  <2> QED
    BY <1>1, <2>1, LenProperties
<1>3. /\ Given' = Given /\ Apart' = Apart
      /\ \A i : Root(i)' = Root(i)
      /\ \A i, n : /\ Holds(i, n)' = Holds(i, n) /\ Ent(i, n)' = Ent(i, n) /\ PathOf(i, n)' = PathOf(i, n)
                   /\ TarAsked(i, n)' = TarAsked(i, n)
      /\ root' = root
  BY <1>1, TarSame DEF root
<1>4. Idle' /\ Restoring' /\ next' = 1 /\ placed' = Empty'
  BY <1>1, CreateTarStep
<1>5. root = Root(arg)
  BY DEF root, Root
<1>6. root \in PathType /\ Holds(arg, Node(root)) /\ PathOf(arg, Node(root)) = root
  BY <1>1, <1>2, <1>5, RootType, OwnNode
<1>7. names' \in Seq(PathType) /\ DOMAIN names' = {1} /\ names'[1] = root
  BY <1>1, <1>6
<1>8. \A k : For(k)' = Node(names'[k])
  BY DEF For
<1>9. TarCourse'
  BY <1>1, <1>2, <1>3, <1>4, <1>7 DEF TarInv, Storage, TarCourse
<1>10. TarWays' /\ TarOnce' /\ TarBegun' /\ Grown'
  BY <1>1, <1>3, <1>6, <1>7, <1>8 DEF TarWays, TarOnce, TarBegun, TarInv, Storage, Grown, Closed, tree
<1>11. \A i, n : TarPassed(i, n) => TarPassed(i, n)'
  BY <1>1 DEF TarPassed
<1>12. TarCame'
  BY <1>1, <1>3, <1>11 DEF TarInv, Storage, TarCame, tree
<1>13. TarSingle'
  BY <1>1, <1>3 DEF TarInv, Storage, TarSingle
<1>14. TarKept'
  <2>1. \A i, n : TarSeen(i, n)' = TarSeen(i, n)
    BY <1>1, <1>3 DEF TarSeen
  <2>2. \A n \in steady : TarAsked(arg, n) => TarAhead(n)'
    <3>1. TAKE n \in steady
    <3>2. HAVE TarAsked(arg, n)
    <3>3. IsPrefix(Node(root), n)
      BY <3>2 DEF TarAsked, root
    <3> QED
      BY <1>7, <1>8, <3>3 DEF TarAhead
  <2> QED
    BY <1>1, <1>3, <2>1, <2>2 DEF TarInv, TarKept, tree
<1> QED
  BY <1>4, <1>9, <1>10, <1>12, <1>13, <1>14 DEF TarInv, Storage

LEMMA TarLeaveOutStep ==
  ASSUME TarInv, TarLeaveOut, UNCHANGED <<flags, args, todo, states, files, dirs, pc>>
  PROVE  TarInv'
<1>1. /\ Storage /\ Storing /\ Present /\ LeavesOut(here) /\ names' = Tail(names) /\ at = "walk" /\ names # << >>
      /\ UNCHANGED <<tree, arg, at, options, stored, lacking, next, placed>>
      /\ Given /\ arg \in DOMAIN args
  BY DEF TarLeaveOut, Storing, archive, disk, TarInv, Storage, TarCourse
<1>2. names' = << >> \o Tail(names) /\ TarFresh(<< >>)
  BY <1>1, NoneTarFresh
<1>3. ever' = ever
  BY <1>1 DEF tree
<1>4. /\ names' \in Seq(PathType) /\ TarWays' /\ TarOnce'
      /\ \A i, n : Holds(i, n) /\ TarPassed(i, n) => TarPassed(i, n)'
      /\ \A n \in Nodes : TarAhead(n) => IsPrefix(For(1), n) \/ TarAhead(n)'
      /\ names = <<root>> => names' = << >>
  BY <1>1, <1>2, <1>3, TarNextPaths
<1>5. /\ Given' = Given /\ Apart' = Apart
      /\ \A i : Root(i)' = Root(i)
      /\ \A i, n : /\ Holds(i, n)' = Holds(i, n) /\ Ent(i, n)' = Ent(i, n)
                   /\ TarAsked(i, n)' = TarAsked(i, n)
      /\ root' = root
  BY <1>1, TarSame DEF root
<1>6. Idle' /\ Restoring' /\ next' = 1 /\ placed' = Empty'
  BY <1>1, CreateTarStep
<1>7. TarCourse'
  BY <1>1, <1>4, <1>5, <1>6 DEF Storage, TarCourse
<1>8. TarBegun' /\ Grown'
  BY <1>1, <1>4, <1>5 DEF Storage, TarBegun, Grown, Closed, tree
<1>9. TarCame'
  BY <1>1, <1>3, <1>4, <1>5 DEF Storage, TarCame
<1>10. TarSingle'
  BY <1>1, <1>5 DEF Storage, TarSingle
<1>11. TarKept'
  <2>1. \A i, n : TarSeen(i, n)' = TarSeen(i, n)
    BY <1>1, <1>5 DEF TarSeen
  <2>2. steady \subseteq Nodes /\ steady' = steady
    BY <1>1 DEF Storage, Grown, tree
  <2>3. \A n \in steady : TarAsked(arg, n) /\ TarAhead(n) => TarAhead(n)'
    BY <1>1, <1>4, <2>2, LeftOutIsNotAsked
  <2> QED
    BY <1>1, <1>5, <2>1, <2>2, <2>3 DEF TarInv, TarKept
<1> QED
  BY <1>4, <1>6, <1>7, <1>8, <1>9, <1>10, <1>11 DEF TarInv, Storage

LEMMA TarRootEndsStep ==
  ASSUME TarInv, TarRootEnds, UNCHANGED <<flags, args, todo, states, files, dirs, pc>>
  PROVE  TarInv'
<1>1. /\ at = "walk" /\ names = << >> /\ arg' = arg + 1 /\ at' = "arg"
      /\ UNCHANGED <<tree, options, names, stored, lacking, next, placed>>
      /\ Given /\ arg \in DOMAIN args
  BY DEF TarRootEnds, archive, disk, TarInv, Storage, TarCourse
<1>2. /\ args \in Seq(PathType) /\ Len(args) \in Nat /\ DOMAIN args = 1 .. Len(args) /\ arg \in 1 .. Len(args)
      /\ DOMAIN names = {}
  <2>1. args \in Seq(PathType)
    BY <1>1, ArgListsAssumption DEF Given
  <2> QED
    BY <1>1, <2>1, LenProperties
<1>3. /\ Given' = Given /\ Apart' = Apart
      /\ \A i : Root(i)' = Root(i)
      /\ \A i, n : /\ Holds(i, n)' = Holds(i, n) /\ Ent(i, n)' = Ent(i, n)
                   /\ TarAsked(i, n)' = TarAsked(i, n)
  BY TarSame
<1>4. Idle' /\ Restoring' /\ next' = 1 /\ placed' = Empty'
  BY <1>1, CreateTarStep
<1>5. TarCourse'
  BY <1>1, <1>2, <1>3, <1>4 DEF TarInv, Storage, TarCourse
<1>6. TarWays' /\ TarOnce' /\ TarBegun' /\ Grown'
  BY <1>1 DEF TarWays, TarOnce, TarBegun, TarInv, Storage, Grown, Closed, tree
<1>7. \A i \in DOMAIN args : \A n : TarPassed(i, n) => TarPassed(i, n)'
  BY <1>1, <1>2 DEF TarPassed
<1>8. TarCame'
  BY <1>1, <1>3, <1>7 DEF TarInv, Storage, TarCame, tree
<1>9. TarSingle'
  BY <1>1, <1>3 DEF TarInv, Storage, TarSingle
<1>10. TarKept'
  <2>1. \A i, n : TarSeen(i, n)' = TarSeen(i, n) /\ ~TarAhead(n)
    BY <1>1, <1>2, <1>3 DEF TarSeen, TarAhead
  <2>2. \A i \in DOMAIN args : i > arg => i > arg' \/ i = arg'
    BY <1>1, <1>2
  <2> QED
    BY <1>1, <1>3, <2>1, <2>2 DEF TarInv, TarKept, tree
<1> QED
  BY <1>4, <1>5, <1>6, <1>8, <1>9, <1>10 DEF TarInv, Storage

LEMMA TarEndsStep ==
  ASSUME TarInv, TarEnds, UNCHANGED <<flags, args, todo, states, files, dirs, pc>>
  PROVE  TarInv'
<1>1. /\ at = "arg" /\ arg > Len(args) /\ at' = "untar" /\ names = << >>
      /\ UNCHANGED <<tree, arg, names, stored, lacking, next, placed>>
      /\ Given /\ arg \in 1 .. Len(args) + 1
  BY DEF TarEnds, archive, disk, TarInv, Storage, TarCourse
<1>2. /\ args \in Seq(PathType) /\ Len(args) \in Nat /\ DOMAIN args = 1 .. Len(args) /\ arg = Len(args) + 1
  <2>1. args \in Seq(PathType)
    BY <1>1, ArgListsAssumption DEF Given
  <2>2. Len(args) \in Nat /\ DOMAIN args = 1 .. Len(args)
    BY <2>1, LenProperties
  <2> QED
    BY <1>1, <2>1, <2>2
<1>3. /\ Given' = Given /\ Apart' = Apart
      /\ \A i : Root(i)' = Root(i)
      /\ \A i, n : /\ Holds(i, n)' = Holds(i, n) /\ Ent(i, n)' = Ent(i, n)
                   /\ TarAsked(i, n)' = TarAsked(i, n)
  BY TarSame
<1>4. Idle' /\ Restoring' /\ next' = 1 /\ placed' = Empty'
  BY <1>1, CreateTarStep
<1>5. TarCourse'
  BY <1>1, <1>2, <1>3, <1>4 DEF TarInv, Storage, TarCourse
<1>6. TarWays' /\ TarOnce' /\ TarBegun' /\ Grown'
  BY <1>1 DEF TarWays, TarOnce, TarBegun, TarInv, Storage, Grown, Closed, tree
<1>7. \A i \in DOMAIN args : \A n : TarPassed(i, n)'
  BY <1>1, <1>2 DEF TarPassed
<1>8. TarCame'
  BY <1>1, <1>3, <1>7 DEF TarInv, Storage, TarCame, tree
<1>9. TarSingle'
  BY <1>1, <1>3 DEF TarInv, Storage, TarSingle
<1>10. TarKept'
  <2>1. \A i, n : TarSeen(i, n)' = TarSeen(i, n)
    BY <1>1, <1>3 DEF TarSeen
  <2>2. \A i \in DOMAIN args : ~(i > arg) /\ i # arg
    BY <1>1, <1>2
  <2> QED
    BY <1>1, <1>3, <2>1, <2>2 DEF TarInv, TarKept, tree
<1> QED
  BY <1>4, <1>5, <1>6, <1>8, <1>9, <1>10 DEF TarInv, Storage

-----------------------------------------------------------------------------
(* One entry more.                                                         *)
LEMMA Appended ==
  ASSUME NEW S, NEW s \in Seq(S), NEW e \in S, NEW t, t = Append(s, e)
  PROVE  /\ t \in Seq(S) /\ Len(s) \in Nat /\ Len(t) = Len(s) + 1
         /\ DOMAIN s = 1 .. Len(s) /\ DOMAIN t = 1 .. Len(s) + 1
         /\ \A k \in 1 .. Len(s) : t[k] = s[k]
         /\ t[Len(s) + 1] = e
BY AppendProperties, LenProperties

LEMMA StoreStep ==
  ASSUME TarInv, Wanted, NEW c, TarFresh(c), names' = c \o Tail(names),
         stored' = Append(stored, Entry), steady' \subseteq steady, Closed(steady)',
         \A n \in steady' : IsPrefix(For(1), n) =>
           n = For(1) \/ \E j \in DOMAIN c : IsPrefix(Node(c[j]), n),
         UNCHANGED <<there, ever, arg, at, options, next, placed>>,
         UNCHANGED <<flags, args, todo, states, files, dirs, pc>>
  PROVE  TarInv'
<1> DEFINE h == For(1)
           l == Len(stored)
<1>1. /\ Storage /\ Storing /\ Present /\ at = "walk" /\ names # << >>
      /\ Given /\ arg \in DOMAIN args /\ stored \in Seq(EntryType) /\ TarKept
  BY DEF Wanted, Storing, TarInv, Storage, TarCourse
<1>2. /\ names' \in Seq(PathType) /\ TarWays' /\ TarOnce'
      /\ \A i, n : Holds(i, n) /\ TarPassed(i, n) => TarPassed(i, n)'
      /\ \A i, n : i = arg /\ n = h => TarPassed(i, n)'
      /\ \A n \in Nodes : TarAhead(n) => IsPrefix(h, n) \/ TarAhead(n)'
      /\ \A j \in DOMAIN c, n \in Nodes : IsPrefix(Node(c[j]), n) => TarAhead(n)'
  BY <1>1, TarNextPaths
<1>3. /\ Given' = Given /\ Apart' = Apart
      /\ \A i : Root(i)' = Root(i)
      /\ \A i, n : /\ Holds(i, n)' = Holds(i, n) /\ Ent(i, n)' = Ent(i, n)
                   /\ TarAsked(i, n)' = TarAsked(i, n)
      /\ root' = root
  BY TarSame DEF root
<1>4. /\ h \in Seq(Part) /\ Holds(arg, h) /\ Entry = Ent(arg, h) /\ h \in there
      /\ h = Node(root) => names = <<root>>
      /\ root = Root(arg) /\ 1 \in DOMAIN names
  <2>1. h = Node(here)
    BY <1>1, HereIs
  <2> QED
    BY <1>1, <2>1, HereIs DEF Present, root, Root
<1>5. h \in ever /\ h \in Nodes
  BY <1>1, <1>4 DEF Storage, Grown
<1>6. Entry \in EntryType
  <2>1. StoredOf(arg, h) \in PathType
    BY <1>1, <1>4, StoredParts
  <2>2. PathOf(arg, h) \in PathType
    BY <1>1, <1>4, Way, RootType, UnderType
  <2> HIDE DEF h
  <2> QED
    BY <1>4, <1>5, <2>1, <2>2 DEF Ent, EntryType
<1>7. /\ stored' \in Seq(EntryType) /\ l \in Nat /\ Len(stored') = l + 1
      /\ DOMAIN stored = 1 .. l /\ DOMAIN stored' = 1 .. l + 1
      /\ \A k \in 1 .. l : stored'[k] = stored[k]
      /\ stored'[l + 1] = Ent(arg, h)
  BY <1>1, <1>4, <1>6, Appended
<1> HIDE DEF h, l
<1>8. Idle' /\ Restoring' /\ next' = 1 /\ placed' = Empty'
  BY <1>1, CreateTarStep
<1>9. TarCourse'
  BY <1>1, <1>2, <1>3, <1>7, <1>8 DEF Storage, TarCourse
<1>10. Grown'
  <2>1. there \subseteq Nodes /\ steady' \subseteq there /\ there \subseteq ever /\ ever \subseteq Nodes /\ Closed(there)
    BY <1>1 DEF Storage, Grown
  <2>2. Closed(there)'
    BY <2>1 DEF Closed
  <2> QED
    BY <2>1, <2>2 DEF Grown
<1>11. h = Node(root) \/ \E j \in 1 .. l : stored[j] = Ent(arg, Node(root))
  <2>1. CASE names = <<root>>
    <3>1. h = Node(names[1]) /\ names[1] = root
      BY <2>1 DEF h, For
    <3> QED
      BY <3>1
  <2>2. CASE names # <<root>>
    BY <1>1, <1>7, <2>2 DEF Storage, TarBegun
  <2> QED
    BY <2>1, <2>2
<1>12. \E j \in 1 .. l + 1 : stored'[j] = Ent(arg, Node(Root(arg)))
  <2>1. CASE h = Node(root)
    BY <1>4, <1>7, <2>1
  <2>2. CASE \E j \in 1 .. l : stored[j] = Ent(arg, Node(root))
    BY <1>4, <1>7, <2>2
  <2> QED
    BY <1>11, <2>1, <2>2
<1>13. TarBegun'
  BY <1>3, <1>4, <1>7, <1>12 DEF TarBegun
<1>14. TarCame'
  <2> SUFFICES ASSUME NEW k \in 1 .. l + 1
               PROVE  \E i \in DOMAIN args, n \in ever :
                        /\ Holds(i, n) /\ TarPassed(i, n)' /\ stored'[k] = Ent(i, n)
                        /\ \E j \in 1 .. k : stored'[j] = Ent(i, Node(Root(i)))
    BY <1>3, <1>7 DEF TarCame
  <2>1. CASE k \in 1 .. l
    <3>1. PICK i \in DOMAIN args, n \in ever :
            /\ Holds(i, n) /\ TarPassed(i, n) /\ stored[k] = Ent(i, n)
            /\ \E j \in 1 .. k : stored[j] = Ent(i, Node(Root(i)))
      BY <1>1, <1>7, <2>1 DEF Storage, TarCame
    <3>2. TarPassed(i, n)'
      BY <1>2, <3>1
    <3>3. \A j \in 1 .. k : j \in 1 .. l
      BY <1>7, <2>1
    <3> QED
      BY <1>7, <2>1, <3>1, <3>2, <3>3
  <2>2. CASE k = l + 1
    <3>1. PICK i \in DOMAIN args, n \in ever : i = arg /\ n = h
      BY <1>1, <1>5
    <3>2. TarPassed(i, n)'
      BY <1>2, <3>1
    <3>3. Holds(i, n) /\ stored'[k] = Ent(i, n)
      BY <1>4, <1>7, <2>2, <3>1
    <3>4. \E j \in 1 .. k : stored'[j] = Ent(i, Node(Root(i)))
      BY <1>12, <2>2, <3>1
    <3> QED
      BY <3>2, <3>3, <3>4
  <2> QED
    BY <1>7, <2>1, <2>2
<1>15. TarSingle'
  <2>1. ASSUME Apart, NEW k \in 1 .. l, stored[k].path.parts = StoredOf(arg, h).parts
        PROVE  FALSE
    <3>1. PICK i \in DOMAIN args, n \in ever : Holds(i, n) /\ TarPassed(i, n) /\ stored[k] = Ent(i, n)
      BY <1>1, <1>7 DEF Storage, TarCame
    <3>2. StoredOf(i, n).parts = StoredOf(arg, h).parts /\ StoredOf(i, n).parts \in Seq(Part)
      BY <1>1, <2>1, <3>1, StoredParts, PathIs DEF Ent
    <3>3. i = arg
      BY <1>1, <1>4, <2>1, <3>1, <3>2, PrefixReflexive, StoredApart
    <3>4. n = h
      BY <1>1, <1>4, <3>1, <3>2, <3>3, StoredOnce
    <3>5. ~(arg < arg)
      BY <1>1 DEF Storage, TarCourse
    <3>6. ~IsPrefix(h, h)
      BY <1>4, <3>1, <3>3, <3>4, <3>5 DEF TarPassed, h
    <3> QED
      BY <1>4, <3>6, PrefixReflexive
  <2>2. Apart => \A j, k \in 1 .. l : stored[j].path.parts = stored[k].path.parts => j = k
    BY <1>1, <1>7 DEF Storage, TarSingle
  <2>3. stored'[l + 1].path.parts = StoredOf(arg, h).parts
    BY <1>7 DEF Ent
  <2>4. ASSUME Apart, NEW j \in 1 .. l + 1, NEW k \in 1 .. l + 1,
               stored'[j].path.parts = stored'[k].path.parts
        PROVE  j = k
    <3>1. CASE j \in 1 .. l /\ k \in 1 .. l
      BY <1>7, <2>2, <2>4, <3>1
    <3>2. CASE j \in 1 .. l /\ k = l + 1
      BY <1>7, <2>1, <2>3, <2>4, <3>2
    <3>3. CASE k \in 1 .. l /\ j = l + 1
      BY <1>7, <2>1, <2>3, <2>4, <3>3
    <3> QED
      BY <1>7, <3>1, <3>2, <3>3
  <2> QED
    BY <1>3, <1>7, <2>4 DEF TarSingle
<1>16. TarKept'
  <2>1. \A i, n : TarSeen(i, n) => TarSeen(i, n)'
    BY <1>3, <1>7 DEF TarSeen
  <2>2. \A i, n : i = arg /\ n = h => TarSeen(i, n)'
    BY <1>3, <1>7 DEF TarSeen
  <2>3. steady' \subseteq Nodes
    BY <1>1 DEF Storage, Grown
  <2>4. \A n \in steady' : TarAhead(n) => n = h \/ TarAhead(n)'
    <3>1. TAKE n \in steady'
    <3>2. HAVE TarAhead(n)
    <3>3. CASE IsPrefix(h, n)
      BY <1>2, <2>3, <3>3 DEF h
    <3> QED
      BY <1>2, <2>3, <3>2, <3>3
  <2>5. \A i \in DOMAIN args, n \in steady' : TarAsked(i, n) =>
          TarSeen(i, n) \/ (i = arg /\ TarAhead(n)) \/ i > arg
    BY <1>1 DEF TarKept
  <2>6. \A i \in DOMAIN args, n \in steady' : TarAsked(i, n) =>
          TarSeen(i, n)' \/ (i = arg /\ TarAhead(n)') \/ i > arg
    BY <2>1, <2>2, <2>4, <2>5
  <2> QED
    BY <1>1, <1>3, <2>6 DEF TarKept
<1> QED
  BY <1>2, <1>8, <1>9, <1>10, <1>13, <1>14, <1>15, <1>16 DEF TarInv, Storage

LEMMA TarStoreStep ==
  ASSUME TarInv, TarStore, UNCHANGED <<flags, args, todo, states, files, dirs, pc>>
  PROVE  TarInv'
<1> DEFINE h == For(1)
           c == IF Kind = "dir" THEN Children(here) ELSE << >>
<1>1. /\ Storage /\ Wanted /\ Storing /\ Present
      /\ stored' = Append(stored, Entry)
      /\ names' = c \o Tail(names)
      /\ UNCHANGED <<tree, arg, at, options, next, placed>>
  BY DEF TarStore, Wanted, disk, TarInv
<1>2. UNCHANGED <<there, steady, ever>> /\ Closed(steady)'
  BY <1>1 DEF tree, Storage, Grown, Closed
<1>3. /\ Given /\ arg \in DOMAIN args /\ h = Node(here) /\ h \in Seq(Part) /\ Holds(arg, h)
      /\ here = PathOf(arg, h) /\ h \in there
  BY <1>1, HereIs DEF Present
<1>4. there \subseteq Nodes /\ steady \subseteq there /\ there \subseteq ever /\ Closed(steady) /\ steady \subseteq Nodes
  BY <1>1 DEF Storage, Grown
<1>5. root = Root(arg)
  BY DEF root, Root
<1> HIDE DEF h
<1>6. CASE Kind = "dir"
  <2>0. c = Children(here)
    BY <1>6
  <2> HIDE DEF c
  <2>1. /\ Children(here) \in Seq(PathType)
        /\ \A k \in DOMAIN Children(here) : LET n == Node(Children(here)[k]) IN
             /\ n \in there /\ n # << >> /\ Front(n) = h /\ Holds(arg, n) /\ n # Node(Root(arg))
             /\ Children(here)[k] = PathOf(arg, n)
        /\ \A n \in there : n # << >> /\ Front(n) = h =>
             \E k \in DOMAIN Children(here) : Node(Children(here)[k]) = n
        /\ \A j, k \in DOMAIN Children(here) : j # k =>
             Node(Children(here)[j]) # Node(Children(here)[k])
    BY <1>3, <1>4, ChildrenOf
  <2>2. TarFresh(c)
    BY <1>4, <1>5, <2>0, <2>1 DEF TarFresh, h
  <2>3. ASSUME NEW n \in steady', IsPrefix(h, n)
        PROVE  n = h \/ \E j \in DOMAIN c : IsPrefix(Node(c[j]), n)
    <3>1. SUFFICES ASSUME n # h PROVE \E j \in DOMAIN c : IsPrefix(Node(c[j]), n)
      OBVIOUS
    <3>2. n \in steady /\ n \in Nodes
      BY <1>2, <1>4
    <3>3. PICK m \in Nodes : m # << >> /\ Front(m) = h /\ IsPrefix(m, n)
      BY <1>3, <2>3, <3>1, <3>2, OnTheWay
    <3>4. m \in steady
      BY <1>4, <3>2, <3>3, NodeType, UpTheTree
    <3>5. \E k \in DOMAIN c : Node(c[k]) = m
      BY <1>4, <2>0, <2>1, <3>3, <3>4
    <3> QED
      BY <3>3, <3>5
  <2> QED
    BY <1>1, <1>2, <2>2, <2>3, StoreStep DEF h
<1>7. CASE Kind # "dir"
  <2>0. c = << >>
    BY <1>7
  <2> HIDE DEF c
  <2>1. TarFresh(c)
    BY <1>1, <2>0, NoneTarFresh
  <2>2. ASSUME NEW n \in steady', IsPrefix(h, n)
        PROVE  n = h
    <3>1. Tree[h] # "dir" /\ n \in Nodes
      BY <1>2, <1>3, <1>4, <1>7 DEF Kind
    <3> QED
      BY <1>3, <2>2, <3>1, OnTheWay
  <2> QED
    BY <1>1, <1>2, <2>1, <2>2, StoreStep DEF h
<1> QED
  BY <1>6, <1>7

(* The file at hand changes: all that lies in a directory still does.      *)
LEMMA ResizedIs ==
  ASSUME Storage, Wanted, Resized
  PROVE  steady' \subseteq steady /\ Closed(steady)' /\ Tree[For(1)] # "dir" /\ For(1) \notin steady'
<1>1. /\ Storing /\ Present /\ Tree[Node(here)] = "file" /\ steady' = steady \ {Node(here)}
      /\ Closed(steady) /\ steady \subseteq Nodes
  BY DEF Wanted, Resized, Kind, Storage, Grown
<1>2. Node(here) = For(1)
  BY <1>1, HereIs
<1>3. ASSUME NEW n \in steady', n # << >>
      PROVE  Front(n) \in steady'
  <2>1. Front(n) \in steady /\ Tree[Front(n)] = "dir"
    BY <1>1, <1>3, NodeType DEF Closed
  <2> QED
    BY <1>1, <2>1
<1> QED
  BY <1>1, <1>2, <1>3 DEF Closed

LEMMA TarStoreShrunkStep ==
  ASSUME TarInv, TarStoreShrunk, UNCHANGED <<flags, args, todo, states, files, dirs, pc>>
  PROVE  TarInv'
<1>1. /\ Storage /\ Wanted /\ Storing /\ Resized
      /\ stored' = Append(stored, Entry)
      /\ names' = Tail(names)
      /\ UNCHANGED <<there, ever, arg, at, options, next, placed>>
  BY DEF TarStoreShrunk, Wanted, disk, TarInv
<1>2. steady' \subseteq steady /\ Closed(steady)' /\ Tree[For(1)] # "dir"
  BY <1>1, ResizedIs
<1>3. names' = << >> \o Tail(names) /\ TarFresh(<< >>)
  BY <1>1, NoneTarFresh
<1>4. ASSUME NEW n \in steady', IsPrefix(For(1), n)
      PROVE  n = For(1)
  <2>1. n \in Nodes
    BY <1>1, <1>2 DEF Storage, Grown
  <2>2. For(1) \in Seq(Part)
    <3>1. For(1) = Node(here) /\ Node(here) \in Seq(Part)
      BY <1>1, HereIs
    <3> QED
      BY <3>1
  <2> QED
    BY <1>2, <1>4, <2>1, <2>2, OnTheWay
<1> QED
  BY <1>1, <1>2, <1>3, <1>4, StoreStep

LEMMA TarStoreGrownStep ==
  ASSUME TarInv, TarStoreGrown, UNCHANGED <<flags, args, todo, states, files, dirs, pc>>
  PROVE  TarInv'
<1>1. /\ Storage /\ Wanted /\ Storing /\ Resized /\ at' = "failed" /\ at = "walk"
      /\ UNCHANGED <<there, ever, arg, options, names, stored, lacking, next, placed>>
  BY DEF TarStoreGrown, Wanted, Storing, archive, disk, TarInv
<1>2. steady' \subseteq steady /\ Closed(steady)'
  BY <1>1, ResizedIs
<1>3. /\ Given' = Given /\ Apart' = Apart
      /\ \A i : Root(i)' = Root(i)
      /\ \A i, n : /\ Holds(i, n)' = Holds(i, n) /\ Ent(i, n)' = Ent(i, n)
  BY TarSame
<1>4. Idle' /\ Restoring' /\ next' = 1 /\ placed' = Empty'
  BY <1>1, CreateTarStep
<1>5. TarCourse'
  BY <1>1, <1>3, <1>4 DEF Storage, TarCourse
<1>6. TarWays' /\ TarOnce' /\ TarBegun'
  BY <1>1 DEF TarWays, TarOnce, TarBegun
<1>7. Grown'
  <2>1. there \subseteq Nodes /\ steady' \subseteq there /\ there \subseteq ever /\ ever \subseteq Nodes /\ Closed(there)
    BY <1>1, <1>2 DEF Storage, Grown
  <2>2. Closed(there)'
    BY <1>1, <2>1 DEF Closed
  <2> QED
    BY <1>1, <1>2, <2>1, <2>2 DEF Grown
<1>8. \A i, n : TarPassed(i, n) => TarPassed(i, n)'
  BY <1>1 DEF TarPassed, For
<1>9. TarCame'
  BY <1>1, <1>3, <1>8 DEF Storage, TarCame
<1>10. TarSingle'
  BY <1>1, <1>3 DEF Storage, TarSingle
<1>11. TarKept'
  BY <1>1 DEF TarKept
<1> QED
  BY <1>4, <1>5, <1>6, <1>7, <1>9, <1>10, <1>11 DEF TarInv, Storage

-----------------------------------------------------------------------------
(* extractTar changes nothing of what createTar did.                       *)
LEMMA ArchiveStays ==
  ASSUME Storage, TarKept, at = "untar", at' \in {"untar", "refused", "restored"},
         next' \in 1 .. Len(stored) + 1,
         UNCHANGED <<tree, arg, options, names, archive>>,
         UNCHANGED <<flags, args, todo, states, files, dirs, pc>>
  PROVE  Storage' /\ TarKept'
<1>1. UNCHANGED <<there, steady, ever, stored, lacking>>
  BY DEF tree, archive
<1>2. /\ Given' = Given /\ Apart' = Apart
      /\ \A i : Root(i)' = Root(i)
      /\ \A i, n : /\ Holds(i, n)' = Holds(i, n) /\ Ent(i, n)' = Ent(i, n)
                   /\ TarAsked(i, n)' = TarAsked(i, n)
  BY TarSame
<1>3. Grown' /\ Idle'
  BY <1>1 DEF Storage, Grown, Closed, Idle
<1>4. TarCourse'
  BY <1>1, <1>2 DEF Storage, TarCourse
<1>5. TarWays' /\ TarOnce' /\ TarBegun'
  BY DEF TarWays, TarOnce, TarBegun
<1>6. TarCame'
  <2>1. \A i, n : TarPassed(i, n) => TarPassed(i, n)'
    BY DEF TarPassed
  <2> QED
    BY <1>1, <1>2, <2>1 DEF Storage, TarCame
<1>7. TarSingle'
  BY <1>1, <1>2 DEF Storage, TarSingle
<1>8. TarKept'
  <2>1. \A i, n : TarSeen(i, n)' = TarSeen(i, n)
    BY <1>1, <1>2 DEF TarSeen
  <2> QED
    BY <1>1, <1>2, <2>1 DEF TarKept
<1> QED
  BY <1>3, <1>4, <1>5, <1>6, <1>7, <1>8 DEF Storage

(* An entry of the archive, and where it goes.                             *)
LEMMA EntryOf ==
  ASSUME Storage, NEW k \in DOMAIN stored
  PROVE  /\ Given /\ k \in Nat /\ 1 .. k \subseteq DOMAIN stored
         /\ Spot(stored[k].path) \in Seq(Part)
         /\ \E i \in DOMAIN args, n \in Nodes :
              /\ Holds(i, n) /\ stored[k].path = StoredOf(i, n) /\ stored[k].node = n
              /\ \E j \in 1 .. k : stored[j].path = NameOf(i)
<1>1. Given /\ stored \in Seq(EntryType)
  BY DEF Storage, TarCourse
<1>2. k \in Nat /\ 1 .. k \subseteq DOMAIN stored
  BY <1>1, LenProperties
<1>3. PICK i \in DOMAIN args, n \in ever :
        /\ Holds(i, n) /\ stored[k] = Ent(i, n)
        /\ \E j \in 1 .. k : stored[j] = Ent(i, Node(Root(i)))
  BY DEF Storage, TarCame
<1>4. n \in Nodes /\ stored[k].path = StoredOf(i, n) /\ stored[k].node = n
  BY <1>3 DEF Storage, Grown, Ent
<1>5. \E j \in 1 .. k : stored[j].path = NameOf(i)
  BY <1>1, <1>3, OwnNode DEF Ent
<1>6. Spot(StoredOf(i, n)) \in Seq(Part)
  <2> DEFINE p == StoredOf(i, n)
  <2>1. p \in PathType /\ Clean(p) = p /\ p.parts \in Seq(Part)
    BY <1>1, <1>3, StoredParts, PathIs
  <2> HIDE DEF p
  <2>2. safeJoin(Dest, p).path.parts \in Seq(Part)
    BY <2>1, JoinIs
  <2>3. Spot(p) \in Seq(Part)
    BY <2>1, <2>2 DEF Spot, Place
  <2> QED
    BY <2>3 DEF p
<1> QED
  BY <1>1, <1>2, <1>3, <1>4, <1>5, <1>6

LEMMA EntryLands ==
  ASSUME Storage, NEW k \in DOMAIN stored, \A j \in 1 .. k : Place(stored[j].path).legal
  PROVE  Lands(stored[k].path)
<1>1. Given /\ k \in 1 .. k
  BY EntryOf
<1>2. PICK i \in DOMAIN args, n \in Nodes :
        /\ Holds(i, n) /\ stored[k].path = StoredOf(i, n)
        /\ \E j \in 1 .. k : stored[j].path = NameOf(i)
  BY EntryOf
<1>3. Place(NameOf(i)).legal /\ Place(StoredOf(i, n)).legal
  BY <1>1, <1>2
<1> QED
  BY <1>1, <1>2, <1>3, LandsAt

LEMMA EntriesApart ==
  ASSUME Storage, Apart, NEW j \in DOMAIN stored, NEW k \in DOMAIN stored,
         Lands(stored[j].path), Lands(stored[k].path),
         Spot(stored[j].path) = Spot(stored[k].path)
  PROVE  j = k
<1>1. PICK a \in DOMAIN args, m \in Nodes : Holds(a, m) /\ stored[j].path = StoredOf(a, m)
  BY EntryOf
<1>2. PICK b \in DOMAIN args, n \in Nodes : Holds(b, n) /\ stored[k].path = StoredOf(b, n)
  BY EntryOf
<1>3. Given
  BY EntryOf
<1>4. StoredOf(a, m).parts = StoredOf(b, n).parts
  BY <1>1, <1>2, <1>3, SpotsApart
<1> QED
  BY <1>1, <1>2, <1>4 DEF Storage, TarSingle

-----------------------------------------------------------------------------
(* What os.MkdirAll looks at.                                              *)
LEMMA PrefixesAre ==
  ASSUME NEW s \in Seq(Part)
  PROVE  /\ s \in Prefixes(s)
         /\ \A q \in Prefixes(s) : q \in Seq(Part) /\ IsPrefix(q, s)
<1>1. Len(s) \in Nat /\ SubSeq(s, 1, Len(s)) = s
  BY LenProperties, SubSeqFull
<1>2. s \in Prefixes(s)
  <2>1. Len(s) \in 0 .. Len(s)
    BY <1>1
  <2> QED
    BY <1>1, <2>1, Zenon DEF Prefixes
<1>3. ASSUME NEW l \in 0 .. Len(s)
      PROVE  SubSeq(s, 1, l) \in Seq(Part) /\ IsPrefix(SubSeq(s, 1, l), s)
  <2> DEFINE q == SubSeq(s, 1, l)
  <2>1. q \in Seq(Part) /\ Len(q) = l /\ \A k \in 1 .. l : q[k] = s[k]
    BY <1>1
  <2> HIDE DEF q
  <2>2. IsPrefix(q, s)
    BY <1>1, <2>1, PrefixIs
  <2> QED
    BY <2>1, <2>2 DEF q
<1> QED
  BY <1>2, <1>3 DEF Prefixes

(* Those of the directory it lies in; of the root it is the root.          *)
LEMMA PrefixesAbove ==
  ASSUME NEW s \in Seq(Part)
  PROVE  Front(s) \in Prefixes(Front(s)) /\ Prefixes(Front(s)) \subseteq Prefixes(s)
<1>1. CASE s = << >>
  <2>1. Front(s) = s
    BY <1>1 DEF Front
  <2> QED
    BY <2>1, PrefixesAre
<1>2. CASE s # << >>
  <2>1. Front(s) \in Seq(Part)
    BY <1>2, AppendFront
  <2>2. Len(s) \in Nat /\ Len(s) # 0
    BY <1>2, EmptySeq, LenProperties
  <2>3. Front(s) = SubSeq(s, 1, Len(s) - 1)
    BY DEF Front
  <2>4. Len(Front(s)) = Len(s) - 1 /\ \A l \in 0 .. Len(s) - 1 : SubSeq(Front(s), 1, l) = SubSeq(s, 1, l)
    <3> DEFINE f == SubSeq(s, 1, Len(s) - 1)
    <3>1. /\ f \in Seq(Part) /\ Len(f) = Len(s) - 1
          /\ \A k \in 1 .. Len(s) - 1 : f[k] = s[k]
      <4>1. Len(s) - 1 \in Int /\ 1 \in Int /\ \A k \in 1 .. Len(s) - 1 : s[k] \in Part
        BY <2>2, LenProperties, ElementOfSeq
      <4>2. /\ f \in Seq(Part)
            /\ Len(f) = IF 1 <= Len(s) - 1 THEN Len(s) - 1 - 1 + 1 ELSE 0
            /\ \A k \in 1 .. Len(s) - 1 - 1 + 1 : f[k] = s[1 + k - 1]
        BY <4>1, SubSeqProperties
      <4> HIDE DEF f
      <4>3. Len(f) = Len(s) - 1
        <5>1. \A l \in Nat \ {0} : (IF 1 <= l - 1 THEN l - 1 - 1 + 1 ELSE 0) = l - 1
          OBVIOUS
        <5>2. Len(s) \in Nat \ {0}
          BY <2>2
        <5> QED
          BY <4>2, <5>1, <5>2, Zenon
      <4>4. \A k \in 1 .. Len(s) - 1 : k \in 1 .. Len(s) - 1 - 1 + 1 /\ 1 + k - 1 = k
        BY <2>2
      <4>5. \A k \in 1 .. Len(s) - 1 : f[k] = s[k]
        BY <4>2, <4>4
      <4> QED
        BY <4>2, <4>3, <4>5
    <3> HIDE DEF f
    <3>2. ASSUME NEW l \in 0 .. Len(s) - 1
          PROVE  SubSeq(f, 1, l) = SubSeq(s, 1, l)
      BY <2>2, <3>1, <3>2
    <3> QED
      BY <2>3, <3>1, <3>2 DEF f
  <2>5. \A l \in 0 .. Len(Front(s)) : l \in 0 .. Len(s) /\ SubSeq(Front(s), 1, l) = SubSeq(s, 1, l)
    BY <2>2, <2>4
  <2>6. Prefixes(Front(s)) \subseteq Prefixes(s)
    BY <2>5, Zenon DEF Prefixes
  <2> QED
    BY <2>1, <2>6, PrefixesAre
<1> QED
  BY <1>1, <1>2

LEMMA EntryAt ==
  ASSUME Storage, Untarring
  PROVE  LET s == Spot(entry.path) IN
         /\ next \in DOMAIN stored /\ next \in Nat /\ entry = stored[next]
         /\ next + 1 \in 1 .. Len(stored) + 1
         /\ s \in Seq(Part) /\ Target = Place(entry.path)
         /\ Target.path.parts = s /\ Dir(Target.path).parts = Front(s)
         /\ entry.node \in Nodes
<1>1. stored \in Seq(EntryType) /\ next \in 1 .. Len(stored) + 1 /\ next <= Len(stored)
  BY DEF Storage, TarCourse, Untarring
<1>2. next \in DOMAIN stored /\ next \in Nat /\ next + 1 \in 1 .. Len(stored) + 1
  BY <1>1, LenProperties
<1>3. entry.node \in Nodes /\ Spot(entry.path) \in Seq(Part)
  BY <1>2, EntryOf DEF entry
<1> QED
  BY <1>2, <1>3 DEF entry, Target, Spot, Dir, Path

(* An entry is taken: what was there stays, unless the entry is written    *)
(* over it, and only directories on its way are new besides.               *)
LEMMA EntryTaken ==
  ASSUME TarInv, Untarring, Target.legal, NextEntry(placed'),
         UNCHANGED <<flags, args, todo, states, files, dirs, pc>>,
         \A q \in DOMAIN placed : /\ q \in DOMAIN placed'
                                  /\ \/ placed'[q] = placed[q]
                                     \/ q = Spot(entry.path) /\ Tree[entry.node] # "dir",
         \A q \in DOMAIN placed' :
           \/ q \in DOMAIN placed /\ placed'[q] = placed[q]
           \/ /\ q \in Seq(Part) /\ IsPrefix(q, Spot(entry.path))
              /\ placed'[q].kind # "dir" => q = Spot(entry.path) /\ Tree[entry.node] # "dir"
              /\ Free => ~placed'[q].locked,
         Tree[entry.node] # "symlink" \/ options.special =>
           /\ Spot(entry.path) \in DOMAIN placed'
           /\ Tree[entry.node] = "dir" <=> placed'[Spot(entry.path)].kind = "dir"
           /\ Tree[entry.node] # "dir" => placed'[Spot(entry.path)].node = entry.node
  PROVE  TarInv'
<1> DEFINE s == Spot(entry.path)
<1>1. /\ Storage /\ TarKept /\ Taken /\ InPlace /\ Made /\ Unlocked /\ at = "untar"
      /\ next' = next + 1
      /\ UNCHANGED <<tree, arg, at, options, names, archive>> /\ UNCHANGED <<stored, lacking>>
  BY DEF TarInv, Restoring, NextEntry, Untarring, archive
<1>2. /\ next \in DOMAIN stored /\ next \in Nat /\ entry = stored[next]
      /\ next' \in 1 .. Len(stored) + 1 /\ s \in Seq(Part)
      /\ Target = Place(entry.path) /\ next >= 1
  BY <1>1, EntryAt DEF Storage, TarCourse
<1>3. Storage' /\ TarKept'
  BY <1>1, <1>2, ArchiveStays
<1>4. Done' = Done \cup {next} /\ Done = 1 .. next - 1
  BY <1>1, <1>2 DEF Done
<1>5. Apart' = Apart /\ \A p : Place(p)' = Place(p) /\ Spot(p)' = Spot(p)
  BY TarSame
<1>7. Taken'
  BY <1>1, <1>2, <1>4, <1>5 DEF Taken
<1>8. InPlace'
  <2> SUFFICES ASSUME Apart, NEW k \in Done \cup {next}
               PROVE  LET n == stored[k].node
                          p == Spot(stored[k].path)
                      IN Tree[n] # "symlink" \/ options.special =>
                           /\ p \in DOMAIN placed'
                           /\ Tree[n] = "dir" <=> placed'[p].kind = "dir"
                           /\ Tree[n] # "dir" => placed'[p].node = n
    BY <1>1, <1>4, <1>5 DEF InPlace, Restored
  <2>1. CASE k = next
    BY <1>2, <2>1
  <2>2. CASE k \in Done
    <3>1. k \in DOMAIN stored /\ k # next /\ 1 .. k \subseteq Done
      BY <1>2, <1>4, <2>2, EntryOf, <1>1
    <3>2. Lands(stored[k].path) /\ Lands(stored[next].path)
      <4>1. \A j \in 1 .. k : Place(stored[j].path).legal
        BY <1>1, <3>1 DEF Taken
      <4>2. \A j \in 1 .. next : Place(stored[j].path).legal
        BY <1>1, <1>2, <1>4 DEF Taken
      <4> QED
        BY <1>1, <1>2, <3>1, <4>1, <4>2, EntryLands
    <3>3. Spot(stored[k].path) # s
      BY <1>1, <1>2, <3>1, <3>2, EntriesApart
    <3>4. Restored(k)
      BY <1>1, <2>2 DEF InPlace
    <3> QED
      BY <3>3, <3>4 DEF Restored
  <2> QED
    BY <2>1, <2>2
<1>9. Made'
  <2> SUFFICES ASSUME NEW q \in DOMAIN placed'
               PROVE  /\ q \in Seq(Part)
                      /\ q = << >> \/ \E k \in Done \cup {next} : IsPrefix(q, Spot(stored[k].path))
                      /\ placed'[q].kind # "dir" =>
                           \E k \in Done \cup {next} :
                             q = Spot(stored[k].path) /\ Tree[stored[k].node] # "dir"
    BY <1>1, <1>4, <1>5 DEF Made
  <2>1. CASE q \in DOMAIN placed /\ placed'[q] = placed[q]
    BY <1>1, <2>1 DEF Made
  <2>2. CASE /\ q \in Seq(Part) /\ IsPrefix(q, s)
             /\ placed'[q].kind # "dir" => q = s /\ Tree[entry.node] # "dir"
    BY <1>2, <2>2
  <2> QED
    BY <2>1, <2>2
<1>10. Free' = Free
  BY <1>1 DEF Free
<1>11. Unlocked'
  BY <1>1, <1>10 DEF Unlocked
<1>12. Settled'
  BY <1>1 DEF Settled
<1> QED
  BY <1>3, <1>7, <1>8, <1>9, <1>11, <1>12 DEF TarInv, Restoring

(* Modes forbid nothing.                                                   *)
LEMMA NotLocking ==
  ASSUME Storage, Untarring, Free
  PROVE  ~ModeLocks
BY EntryAt DEF Free, ModeLocks

LEMMA UntarDirStep ==
  ASSUME TarInv, UntarDir, UNCHANGED <<flags, args, todo, states, files, dirs, pc>>
  PROVE  TarInv'
<1> DEFINE s == Spot(entry.path)
<1>1. /\ Untarring /\ Target.legal /\ Tree[entry.node] = "dir" /\ NextEntry(placed')
      /\ placed' = MadeAll(Target.path, ModeLocks) /\ CanMakeAll(Target.path, ModeLocks)
      /\ Storage
  BY DEF UntarDir, NextEntry, TarInv
<1>2. s \in Seq(Part) /\ Target.path.parts = s
  BY <1>1, EntryAt
<1>3. /\ DOMAIN placed' = DOMAIN placed \cup Prefixes(s)
      /\ \A q \in DOMAIN placed : placed'[q] = placed[q]
      /\ \A q \in Prefixes(s) \ DOMAIN placed : placed'[q] = Thing("dir", ModeLocks)
  BY <1>1, <1>2 DEF MadeAll
<1>4. s \in Prefixes(s) /\ \A q \in Prefixes(s) : q \in Seq(Part) /\ IsPrefix(q, s)
  BY <1>2, PrefixesAre
<1>5. Free => ~ModeLocks
  BY <1>1, NotLocking
<1>6. \A q \in Prefixes(s) \cap DOMAIN placed : placed[q].kind = "dir"
  BY <1>1, <1>2 DEF CanMakeAll
<1>7. s \in DOMAIN placed' /\ placed'[s].kind = "dir"
  BY <1>3, <1>4, <1>6 DEF Thing
<1>8. \A q \in DOMAIN placed' :
        \/ q \in DOMAIN placed /\ placed'[q] = placed[q]
        \/ /\ q \in Seq(Part) /\ IsPrefix(q, s) /\ placed'[q].kind = "dir"
           /\ Free => ~placed'[q].locked
  BY <1>3, <1>4, <1>5 DEF Thing
<1> QED
  BY <1>1, <1>3, <1>7, <1>8, EntryTaken

LEMMA UntarSkipsStep ==
  ASSUME TarInv, UntarSkips, UNCHANGED <<flags, args, todo, states, files, dirs, pc>>
  PROVE  TarInv'
<1>1. /\ Untarring /\ Target.legal /\ NextEntry(placed') /\ placed' = placed
      /\ ~(Tree[entry.node] # "symlink" \/ options.special)
  BY DEF UntarSkips, NextEntry
<1> QED
  BY <1>1, EntryTaken

(* What is no directory is put in its place.                               *)
LEMMA PutStep ==
  ASSUME TarInv, Untarring, Target.legal, Tree[entry.node] # "dir",
         NEW kind \in {"file", "symlink"}, NEW locked, Free => ~locked,
         NextEntry(Put(Target.path, kind, locked)),
         UNCHANGED <<flags, args, todo, states, files, dirs, pc>>
  PROVE  TarInv'
<1> DEFINE s == Spot(entry.path)
           f == Front(s)
<1>1. /\ placed' = Put(Target.path, kind, locked) /\ NextEntry(placed') /\ Storage
  BY DEF NextEntry, TarInv
<1>2. s \in Seq(Part) /\ Target.path.parts = s /\ Dir(Target.path).parts = f
  BY <1>1, EntryAt
<1>3. /\ DOMAIN MadeAll(Dir(Target.path), FALSE) = DOMAIN placed \cup Prefixes(f)
      /\ \A q \in DOMAIN placed : MadeAll(Dir(Target.path), FALSE)[q] = placed[q]
      /\ \A q \in Prefixes(f) \ DOMAIN placed :
           MadeAll(Dir(Target.path), FALSE)[q] = Thing("dir", FALSE)
  BY <1>2 DEF MadeAll
<1>4. /\ DOMAIN placed' = DOMAIN placed \cup Prefixes(f) \cup {s}
      /\ placed'[s] = [kind |-> kind, locked |-> locked, node |-> entry.node]
      /\ \A q \in DOMAIN placed \ {s} : placed'[q] = placed[q]
      /\ \A q \in Prefixes(f) \ (DOMAIN placed \cup {s}) : placed'[q] = Thing("dir", FALSE)
  BY <1>1, <1>2, <1>3 DEF Put
<1>5. s \in Prefixes(s) /\ \A q \in Prefixes(s) : q \in Seq(Part) /\ IsPrefix(q, s)
  BY <1>2, PrefixesAre
<1>6. Prefixes(f) \subseteq Prefixes(s)
  BY <1>2, PrefixesAbove
<1> HIDE DEF s, f
<1>7. \A q \in DOMAIN placed : q \in DOMAIN placed' /\ (placed'[q] = placed[q] \/ q = s)
  BY <1>4
<1>8. s \in DOMAIN placed' /\ placed'[s].kind # "dir" /\ placed'[s].node = entry.node
  BY <1>4
<1>9. ASSUME NEW q \in DOMAIN placed'
      PROVE  \/ q \in DOMAIN placed /\ placed'[q] = placed[q]
             \/ /\ q \in Seq(Part) /\ IsPrefix(q, s)
                /\ placed'[q].kind # "dir" => q = s
                /\ Free => ~placed'[q].locked
  <2>1. CASE q = s
    <3>1. Free => ~placed'[q].locked
      BY <1>4, <2>1
    <3> QED
      BY <1>5, <2>1, <3>1
  <2>2. CASE q \in DOMAIN placed \ {s}
    BY <1>4, <2>2
  <2>3. CASE q \in Prefixes(f) \ (DOMAIN placed \cup {s})
    BY <1>4, <1>5, <1>6, <2>3 DEF Thing
  <2> QED
    BY <1>4, <2>1, <2>2, <2>3
<1> QED
  BY <1>1, <1>7, <1>8, <1>9, EntryTaken DEF s

LEMMA UntarSymlinkStep ==
  ASSUME TarInv, UntarSymlink, UNCHANGED <<flags, args, todo, states, files, dirs, pc>>
  PROVE  TarInv'
<1>1. /\ Untarring /\ Target.legal /\ Tree[entry.node] # "dir"
      /\ NextEntry(Put(Target.path, "symlink", FALSE))
  BY DEF UntarSymlink
<1> QED
  BY <1>1, PutStep

LEMMA UntarFileStep ==
  ASSUME TarInv, UntarFile, UNCHANGED <<flags, args, todo, states, files, dirs, pc>>
  PROVE  TarInv'
<1> DEFINE l == ModeLocks /\ ~Again
<1>1. /\ Untarring /\ Target.legal /\ Tree[entry.node] # "dir"
      /\ NextEntry(Put(Target.path, "file", l)) /\ Storage
  BY DEF UntarFile, Regular, TarInv
<1>2. Free => ~l
  BY <1>1, NotLocking
<1> HIDE DEF l
<1> QED
  BY <1>1, <1>2, PutStep

(* extractTar ends: what is on the disk is what was there.                 *)
LEMMA UntarStops ==
  ASSUME TarInv, at = "untar", at' \in {"refused", "restored"},
         UNCHANGED <<tree, arg, options, names, archive, disk>>,
         UNCHANGED <<flags, args, todo, states, files, dirs, pc>>
  PROVE  Storage' /\ TarKept' /\ Taken' /\ InPlace' /\ Made' /\ Unlocked'
<1>1. UNCHANGED <<stored, lacking, next, placed>>
  BY DEF archive, disk
<1>2. next' \in 1 .. Len(stored) + 1
  BY <1>1 DEF TarInv, Storage, TarCourse
<1>3. Storage' /\ TarKept'
  BY <1>2, ArchiveStays DEF TarInv
<1>4. /\ Apart' = Apart /\ \A p : Place(p)' = Place(p) /\ Spot(p)' = Spot(p)
      /\ Done' = Done
  BY <1>1, TarSame DEF Done
<1>5. Taken' /\ Made'
  BY <1>1, <1>4 DEF TarInv, Restoring, Taken, Made
<1>6. InPlace'
  <2>1. \A k : Restored(k)' = Restored(k)
    BY <1>1, <1>4 DEF Restored
  <2> QED
    BY <1>4, <2>1 DEF TarInv, Restoring, InPlace
<1>7. Unlocked'
  BY <1>1 DEF TarInv, Restoring, Unlocked, Free
<1> QED
  BY <1>3, <1>5, <1>6, <1>7

LEMMA UntarEndsStep ==
  ASSUME TarInv, UntarEnds, UNCHANGED <<flags, args, todo, states, files, dirs, pc>>
  PROVE  TarInv'
<1>1. /\ at = "untar" /\ at' = "restored" /\ next > Len(stored)
      /\ UNCHANGED <<tree, arg, options, names, archive, disk>>
  BY DEF UntarEnds, TarGives
<1>2. UNCHANGED <<stored, next>> /\ stored \in Seq(EntryType) /\ next \in 1 .. Len(stored) + 1
  BY <1>1 DEF TarInv, Storage, TarCourse, archive, disk
<1>3. next = Len(stored) + 1
  BY <1>1, <1>2, LenProperties
<1>4. Settled'
  BY <1>1, <1>2, <1>3 DEF Settled
<1> QED
  BY <1>1, <1>4, UntarStops DEF TarInv, Restoring

(* What is in the way of an entry is a directory, and in the place of one  *)
(* that is none there is nothing: no entry stops another.                  *)
LEMMA WayIsClear ==
  ASSUME Storage, Made, Apart, Regarded, Untarring
  PROVE  LET s == Spot(entry.path) IN
         /\ \A q \in Prefixes(s) \cap DOMAIN placed : placed[q].kind = "dir"
         /\ Tree[entry.node] # "dir" => s \notin DOMAIN placed
<1> DEFINE s == Spot(entry.path)
<1>1. Given /\ next \in DOMAIN stored /\ next \in Nat /\ entry = stored[next] /\ s \in Seq(Part)
      /\ Done = 1 .. next - 1 /\ 1 .. next \subseteq DOMAIN stored
  BY EntryAt, EntryOf DEF Done
<1>2. PICK i \in DOMAIN args, n \in Nodes :
        Holds(i, n) /\ stored[next].path = StoredOf(i, n) /\ stored[next].node = n
  BY <1>1, EntryOf
<1> DEFINE t == StoredOf(i, n)
<1>3. s = Base \o t.parts /\ t.parts \in Seq(Part) /\ Base \in Seq(Part) /\ t \in PathType
  BY <1>1, <1>2, SpotPlain, StoredParts, PathIs, BaseIsParts
<1>4. ASSUME NEW k \in Done
      PROVE  /\ IsPrefix(Spot(stored[k].path), s) => Tree[stored[k].node] = "dir"
             /\ IsPrefix(s, Spot(stored[k].path)) => Tree[n] = "dir"
  <2>1. k \in DOMAIN stored /\ k # next
    BY <1>1
  <2>2. PICK j \in DOMAIN args, m \in Nodes :
          Holds(j, m) /\ stored[k].path = StoredOf(j, m) /\ stored[k].node = m
    BY <2>1, EntryOf
  <2> DEFINE u == StoredOf(j, m)
  <2>3. Spot(u) = Base \o u.parts /\ u.parts \in Seq(Part)
    BY <1>1, <2>2, SpotPlain, StoredParts, PathIs
  <2>4. n \in Seq(Part) /\ m \in Seq(Part)
    BY NodeType
  <2>5. u.parts # t.parts
    BY <1>1, <1>2, <2>1, <2>2 DEF Storage, TarSingle
  <2>6. ASSUME IsPrefix(Spot(u), s)
        PROVE  Tree[m] = "dir"
    <3>1. IsPrefix(u.parts, t.parts)
      <4> HIDE DEF u, t, s
      <4>1. IsPrefix(Base \o u.parts, Base \o t.parts)
        BY <1>3, <2>3, <2>6
      <4> QED
        BY <1>3, <2>3, <4>1, PrefixCancels
    <3>2. j = i /\ IsPrefix(m, n)
      BY <1>1, <1>2, <2>2, <3>1, StoredApart
    <3>3. m # n
      BY <2>5, <3>2
    <3> QED
      BY <2>4, <3>2, <3>3, OnTheWay
  <2>7. ASSUME IsPrefix(s, Spot(u))
        PROVE  Tree[n] = "dir"
    <3>1. IsPrefix(t.parts, u.parts)
      <4> HIDE DEF u, t, s
      <4>1. IsPrefix(Base \o t.parts, Base \o u.parts)
        BY <1>3, <2>3, <2>7
      <4> QED
        BY <1>3, <2>3, <4>1, PrefixCancels
    <3>2. i = j /\ IsPrefix(n, m)
      BY <1>1, <1>2, <2>2, <3>1, StoredApart
    <3>3. n # m
      BY <2>5, <3>2
    <3> QED
      BY <2>4, <3>2, <3>3, OnTheWay
  <2> QED
    BY <2>2, <2>6, <2>7
<1>5. ASSUME NEW q \in Prefixes(s) \cap DOMAIN placed, placed[q].kind # "dir"
      PROVE  FALSE
  <2>1. PICK k \in Done : q = Spot(stored[k].path) /\ Tree[stored[k].node] # "dir"
    BY <1>5 DEF Made
  <2>2. IsPrefix(q, s)
    BY <1>1, <1>5, PrefixesAre
  <2> QED
    BY <1>4, <2>1, <2>2
<1>6. ASSUME s = << >>
      PROVE  Tree[n] = "dir"
  <2>1. Base = << >> /\ t.parts = << >>
    <3> DEFINE b == Base
               c == t.parts
    <3>1. b \o c = << >> /\ b \in Seq(Part) /\ c \in Seq(Part)
      BY <1>3, <1>6
    <3> HIDE DEF b, c
    <3>2. b = << >> /\ c = << >>
      BY <3>1, ConcatProperties, LenProperties, EmptySeq
    <3> QED
      BY <3>2 DEF b, c
  <2>2. flags.absolute
    BY <2>1 DEF Regarded, Base
  <2>3. t.parts = Node(PathOf(i, n))
    BY <2>2 DEF StoredOf, storedPath, Node
  <2>4. n = << >>
    BY <1>1, <1>2, <2>1, <2>3, Way
  <2> QED
    BY <2>4, RootAssumption
<1>7. ASSUME Tree[n] # "dir", s \in DOMAIN placed
      PROVE  FALSE
  <2>1. s # << >>
    BY <1>6, <1>7
  <2>2. PICK k \in Done : IsPrefix(s, Spot(stored[k].path))
    BY <1>7, <2>1 DEF Made
  <2> QED
    BY <1>4, <1>7, <2>2
<1> QED
  BY <1>1, <1>2, <1>5, <1>7

LEMMA UntarFailsStep ==
  ASSUME TarInv, UntarFails, UNCHANGED <<flags, args, todo, states, files, dirs, pc>>
  PROVE  TarInv'
<1> DEFINE s == Spot(entry.path)
           d == Dir(Target.path)
<1>1. /\ Untarring /\ at = "untar" /\ at' = "refused" /\ Storage /\ Made /\ Unlocked
      /\ UNCHANGED <<tree, arg, options, names, archive, disk>> /\ UNCHANGED <<stored, lacking>>
  BY DEF UntarFails, TarGives, Untarring, TarInv, Restoring, archive
<1>2. ASSUME Apart, ~lacking, Regarded, Free
      PROVE  FALSE
  <2>1. /\ next \in DOMAIN stored /\ entry = stored[next] /\ s \in Seq(Part)
        /\ Target = Place(entry.path) /\ Target.path.parts = s /\ d.parts = Front(s)
    BY <1>1, EntryAt
  <2>2. Target.legal
    BY <1>1, <1>2, <2>1, EntryOf, SpotPlain
  <2>3. ~ModeLocks /\ ~Cut
    BY <1>1, <1>2, NotLocking DEF Cut
  <2>4. /\ \A q \in Prefixes(s) \cap DOMAIN placed : placed[q].kind = "dir"
        /\ Tree[entry.node] # "dir" => s \notin DOMAIN placed
    BY <1>1, <1>2, WayIsClear
  <2>5. \A q \in DOMAIN placed : ~placed[q].locked
    BY <1>1, <1>2 DEF Unlocked
  <2>6. Prefixes(Front(s)) \subseteq Prefixes(s)
    BY <2>1, PrefixesAbove
  <2>7. CanMakeAll(Target.path, ModeLocks)
    BY <2>1, <2>3, <2>4, <2>5 DEF CanMakeAll
  <2>8. CanMakeAll(d, FALSE) /\ Writable(d)
    <3> HIDE DEF s, d
    <3> QED
      BY <2>1, <2>4, <2>5, <2>6 DEF CanMakeAll, Writable
  <2>9. Tree[entry.node] # "dir" => CanLink /\ CanOpen
    BY <2>1, <2>4, <2>8 DEF CanLink, CanOpen, Again
  <2> QED
    BY <2>2, <2>3, <2>7, <2>9 DEF UntarFails, Regular
<1>3. Apart' = Apart /\ Regarded' = Regarded /\ Free' = Free
  BY <1>1, TarSame DEF Free
<1>4. Settled'
  BY <1>1, <1>2, <1>3 DEF Settled
<1> QED
  BY <1>1, <1>4, UntarStops DEF TarInv, Restoring

-----------------------------------------------------------------------------
LEMMA TarStutterStep ==
  ASSUME TarInv, UNCHANGED <<vars, tarVars>>
  PROVE  TarInv'
<1>1. /\ UNCHANGED <<there, steady, ever, flags, args, arg, todo, states, files, dirs, pc>>
      /\ UNCHANGED <<at, options, names, stored, lacking, next, placed>>
  BY DEF vars, tarVars, archive, disk
<1>2. /\ Given' = Given /\ Apart' = Apart /\ Regarded' = Regarded
      /\ \A i : Root(i)' = Root(i)
      /\ \A i, n : /\ Holds(i, n)' = Holds(i, n) /\ PathOf(i, n)' = PathOf(i, n)
                   /\ Ent(i, n)' = Ent(i, n) /\ TarAsked(i, n)' = TarAsked(i, n)
      /\ \A p : Place(p)' = Place(p) /\ Spot(p)' = Spot(p)
  BY <1>1, TarSame
<1>3. /\ \A k : For(k)' = For(k) /\ Restored(k)' = Restored(k)
      /\ \A i, n : TarPassed(i, n)' = TarPassed(i, n) /\ TarSeen(i, n)' = TarSeen(i, n)
      /\ \A n : TarAhead(n)' = TarAhead(n)
      /\ root' = root /\ Done' = Done /\ Empty' = Empty
  BY <1>1, <1>2 DEF For, Restored, TarPassed, TarSeen, TarAhead, root, Done, Empty, Thing
<1>4. Grown' /\ Idle'
  BY <1>1 DEF TarInv, Storage, Grown, Closed, Idle
<1>5. TarCourse' /\ TarBegun' /\ TarSingle'
  BY <1>1, <1>2, <1>3 DEF TarInv, Storage, TarCourse, TarBegun, TarSingle
<1>6. TarWays' /\ TarOnce'
  BY <1>1, <1>2, <1>3 DEF TarInv, Storage, TarWays, TarOnce
<1>7. TarCame' /\ TarKept'
  BY <1>1, <1>2, <1>3 DEF TarInv, Storage, TarCame, TarKept
<1>8. Restoring'
  BY <1>1, <1>2, <1>3 DEF TarInv, Restoring, Taken, InPlace, Made, Unlocked, Free, Settled
<1> QED
  BY <1>4, <1>5, <1>6, <1>7, <1>8 DEF TarInv, Storage

(* The walk of the one format, createTar and extractTar for the other.     *)
TarIInv == IF at = "goxa" THEN IInv ELSE TarInv

LEMMA TarCreates ==
  ASSUME TarInv, CreateTar, UNCHANGED <<flags, args, todo, states, files, dirs, pc>>
  PROVE  TarInv'
<1>1. CASE TarRoot
  BY <1>1, TarRootStep
<1>2. CASE TarGone
  BY <1>2, TarFailStep DEF TarGone, Storing
<1>3. CASE TarLeaveOut
  BY <1>3, TarLeaveOutStep
<1>4. CASE TarHeaderFails
  BY <1>4, TarFailStep DEF TarHeaderFails, Wanted, Storing
<1>5. CASE TarStore
  BY <1>5, TarStoreStep
<1>6. CASE TarStoreShrunk
  BY <1>6, TarStoreShrunkStep
<1>7. CASE TarStoreGrown
  BY <1>7, TarStoreGrownStep
<1>8. CASE TarRootEnds
  BY <1>8, TarRootEndsStep
<1>9. CASE TarEnds
  BY <1>9, TarEndsStep
<1> QED
  BY <1>1, <1>2, <1>3, <1>4, <1>5, <1>6, <1>7, <1>8, <1>9 DEF CreateTar

LEMMA TarExtracts ==
  ASSUME TarInv, ExtractTar, UNCHANGED <<flags, args, todo, states, files, dirs, pc>>
  PROVE  TarInv'
BY UntarDirStep, UntarSkipsStep, UntarSymlinkStep, UntarFileStep, UntarFailsStep, UntarEndsStep
   DEF ExtractTar

LEMMA TarStep ==
  ASSUME TarInv, at # "goxa", [TarNext]_<<vars, tarVars>>
  PROVE  TarInv' /\ at' # "goxa"
<1>1. TarInv'
  <2>1. CASE at \in {"arg", "walk"} /\ Others /\ UNCHANGED tarVars
    BY <2>1, TarOthersStep
  <2>2. CASE CreateTar /\ UNCHANGED <<flags, args, todo, states, files, dirs, pc>>
    BY <2>2, TarCreates
  <2>3. CASE ExtractTar /\ UNCHANGED <<flags, args, todo, states, files, dirs, pc>>
    BY <2>3, TarExtracts
  <2>4. CASE UNCHANGED <<vars, tarVars>>
    BY <2>4, TarStutterStep
  <2> QED
    BY <2>1, <2>2, <2>3, <2>4 DEF TarNext
<1> QED
  BY <1>1 DEF TarInv, Storage, TarCourse

LEMMA GoxaStep ==
  ASSUME IInv, at = "goxa", [TarNext]_<<vars, tarVars>>
  PROVE  IInv' /\ at' = "goxa"
<1>1. [Next]_vars /\ at' = at
  <2>1. ~CreateTar
    BY DEF CreateTar, TarRoot, TarGone, TarLeaveOut, TarHeaderFails, TarStore, TarStoreShrunk,
           TarStoreGrown, TarRootEnds, TarEnds, Wanted, Storing
  <2>2. ~ExtractTar
    BY DEF ExtractTar, UntarDir, UntarSkips, UntarSymlink, UntarFile, UntarFails, UntarEnds, Untarring
  <2> QED
    BY <2>1, <2>2 DEF TarNext, tarVars
<1> QED
  BY <1>1, WalkStep

(* Either format keeps its inductive invariant, whatever others do to the  *)
(* tree while it is stored.                                                *)
THEOREM TarInvariant == TarSpec => []TarIInv
<1>1. TarInit => TarIInv
  BY InvInit, TarInitInv DEF TarInit, TarIInv
<1>2. TarIInv /\ [TarNext]_<<vars, tarVars>> => TarIInv'
  BY GoxaStep, TarStep DEF TarIInv
<1> QED
  BY <1>1, <1>2, PTL DEF TarSpec

-----------------------------------------------------------------------------
(* What createTar and extractTar promise.                                  *)
LEMMA NothingMissedTarFollows ==
  ASSUME TarIInv
  PROVE  NothingMissedTar
<1> SUFFICES ASSUME at = "untar", NEW i \in DOMAIN args, NEW n \in steady, TarAsked(i, n)
             PROVE  TarSeen(i, n)
  BY DEF NothingMissedTar, TarSeen, Ent
<1>1. TarInv /\ Given /\ arg = Len(args) + 1
  BY DEF TarIInv, TarInv, Storage, TarCourse
<1>2. args \in Seq(PathType)
  BY <1>1, ArgListsAssumption DEF Given
<1>3. ~(i > arg)
  BY <1>1, <1>2, LenProperties
<1> QED
  BY <1>1, <1>3 DEF TarInv, TarKept

LEMMA RestoresAllFollows ==
  ASSUME TarIInv
  PROVE  RestoresAll
<1> SUFFICES ASSUME at = "restored", Apart
             PROVE  /\ \A k \in DOMAIN stored : Restored(k)
                    /\ \A p \in DOMAIN placed : placed[p].kind # "dir" =>
                         \E k \in DOMAIN stored : Spot(stored[k].path) = p
  BY DEF RestoresAll, Restored, Spot
<1>1. InPlace /\ Made /\ next = Len(stored) + 1 /\ stored \in Seq(EntryType)
  BY DEF TarIInv, TarInv, Restoring, Settled, Storage, TarCourse
<1>2. Done = DOMAIN stored
  BY <1>1, LenProperties DEF Done
<1> QED
  BY <1>1, <1>2 DEF InPlace, Made

LEMMA ExtractableFollows ==
  ASSUME TarIInv
  PROVE  Extractable
BY DEF TarIInv, TarInv, Restoring, Settled, Regarded, Free, Extractable

(* An archive that createTar calls complete has every file, link and       *)
(* directory that was there all along and that the command line asks for.  *)
THEOREM TarMissesNothing == TarSpec => []NothingMissedTar
BY TarInvariant, NothingMissedTarFollows, PTL

(* What extractTar restores without an error is the whole archive, each    *)
(* entry in a place of its own, and nothing else.                          *)
THEOREM TarRestoresAll == TarSpec => []RestoresAll
BY TarInvariant, RestoresAllFollows, PTL

(* What createTar calls complete extractTar does not refuse: no entry      *)
(* stands in the way of a later one.                                       *)
THEOREM TarIsExtractable == TarSpec => []Extractable
BY TarInvariant, ExtractableFollows, PTL

(* walkPaths finds nothing when the format is tar.                         *)
LEMMA IdleFollows ==
  ASSUME TarInv
  PROVE  TypeOK /\ NothingMissed /\ DirectoriesKept /\ OnlyEmptyListed /\ OwnPlace /\ RootSelectable
<1>1. /\ Idle /\ Grown /\ Given /\ arg \in 1 .. Len(args) + 1
      /\ BagToSet(files) = {} /\ DOMAIN states = {} /\ Range(todo) = {}
      /\ todo \in Seq(PathType)
  BY EmptySeq DEF TarInv, Storage, TarCourse, Idle, EmptyBag, SetToBag, BagToSet, Range
<1>2. TypeOK
  BY <1>1 DEF TypeOK, Grown, Given, Idle
<1> QED
  BY <1>1, <1>2 DEF Idle, NothingMissed, DirectoriesKept, OnlyEmptyListed, OwnPlace, RootSelectable

(* What walkPaths promises holds of the program with both formats:         *)
(* createTar leaves all it works with alone.                               *)
THEOREM WalkUnderTar ==
  TarSpec => [](TypeOK /\ NothingMissed /\ DirectoriesKept /\ OnlyEmptyListed /\ OwnPlace /\ RootSelectable)
<1>1. TarIInv => TypeOK /\ NothingMissed /\ DirectoriesKept /\ OnlyEmptyListed /\ OwnPlace /\ RootSelectable
  BY IdleFollows, TypeOKFollows, NothingMissedFollows, DirectoriesKeptFollows, OnlyEmptyListedFollows,
     OwnPlaceFollows, RootSelectableFollows DEF TarIInv
<1> QED
  BY <1>1, TarInvariant, PTL
=============================================================================
