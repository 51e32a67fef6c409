---------------------------- MODULE PathTheorems ----------------------------
(***************************************************************************)
(* What the path functions of WalkTree return, for any paths: Clean goes   *)
(* component by component, keeps what follows if no component of that is   *)
(* "..", and is done when done once.  So what lies below a root lies below *)
(* its node on the disk, and is stored below its name in the archive.      *)
(***************************************************************************)
EXTENDS WalkTree, SequenceTheorems, WellFoundedInduction, TLAPS

-----------------------------------------------------------------------------
(* Numbers and sequences.                                                  *)

(* A set of numbers has a least one; a finite one has a greatest one too.  *)
LEMMA Least ==
  ASSUME NEW T \in SUBSET Nat, T # {}
  PROVE  \E m \in T : \A k \in T : m <= k
<1>1. PICK m \in T : \A k \in T : ~(<<k, m>> \in OpToRel(<, Nat))
  BY WFMin, NatLessThanWellFounded
<1>2. \A k \in T : ~(k < m)
  BY <1>1 DEF OpToRel
<1> QED
  BY <1>2

(* What runs over the components of a path exists, up to any of them.      *)
IsRun(f, abs, parts, n) ==
  f = [k \in 0 .. n |-> IF k = 0 THEN << >> ELSE CleanStep(abs, f[k - 1], parts[k])]

LEMMA RunExists ==
  ASSUME NEW abs, NEW parts, NEW n \in Nat
  PROVE  \E f : IsRun(f, abs, parts, n)
<1> DEFINE Bad == {m \in Nat : ~ \E f : IsRun(f, abs, parts, m)}
<1>1. SUFFICES ASSUME Bad # {} PROVE FALSE
  BY <1>1
<1>2. PICK m \in Bad : \A k \in Bad : m <= k
  BY <1>1, Least
<1>3. m # 0
  <2>1. IsRun([k \in 0 .. 0 |-> << >>], abs, parts, 0)
    BY DEF IsRun
  <2> QED
    BY <2>1
<1>4. PICK f : IsRun(f, abs, parts, m - 1)
  <2>1. m - 1 \in Nat /\ m - 1 \notin Bad
    BY <1>2, <1>3
  <2> QED
    BY <2>1
<1>5. IsRun([k \in 0 .. m |-> IF k = m THEN CleanStep(abs, f[m - 1], parts[m]) ELSE f[k]],
            abs, parts, m)
  BY <1>3, <1>4 DEF IsRun
<1> QED
  BY <1>2, <1>5

(* A longer run over the same components agrees with a shorter one.        *)
LEMMA RunsAgree ==
  ASSUME NEW abs, NEW p, NEW q, NEW l \in Nat, NEW n \in Nat, NEW f, NEW g,
         IsRun(f, abs, p, l), IsRun(g, abs, q, n), l <= n, \A k \in 1 .. l : p[k] = q[k]
  PROVE  f[l] = g[l]
<1> DEFINE Bad == {k \in 0 .. l : f[k] # g[k]}
<1>1. SUFFICES ASSUME Bad # {} PROVE FALSE
  BY <1>1
<1>2. PICK k \in Bad : \A i \in Bad : k <= i
  <2>1. Bad \in SUBSET Nat
    OBVIOUS
  <2> HIDE DEF Bad
  <2> QED
    BY <1>1, <2>1, Least
<1>3. k # 0
  BY DEF IsRun
<1>4. k - 1 \in 0 .. l /\ k - 1 \notin Bad
  BY <1>2, <1>3
<1>5. f[k - 1] = g[k - 1]
  BY <1>4
<1>6. f[k] = CleanStep(abs, f[k - 1], p[k]) /\ g[k] = CleanStep(abs, g[k - 1], q[k])
  BY <1>3 DEF IsRun
<1> QED
  BY <1>3, <1>5, <1>6

-----------------------------------------------------------------------------
(* Clean, by its components.                                               *)
Cleaned(abs, parts) == Clean(Path(abs, parts)).parts

LEMMA CleanIs ==
  ASSUME NEW abs, NEW parts, Len(parts) \in Nat
  PROVE  /\ Clean(Path(abs, parts)) = Path(abs, Cleaned(abs, parts))
         /\ \E f : IsRun(f, abs, parts, Len(parts)) /\ Cleaned(abs, parts) = f[Len(parts)]
<1> DEFINE done == CHOOSE f : IsRun(f, abs, parts, Len(parts))
<1>1. IsRun(done, abs, parts, Len(parts))
  BY RunExists
<1>2. Clean(Path(abs, parts)) = Path(abs, done[Len(parts)])
  BY DEF Clean, IsRun, Path
<1>3. Cleaned(abs, parts) = done[Len(parts)]
  BY <1>2 DEF Cleaned, Path
<1> QED
  BY <1>1, <1>2, <1>3

LEMMA CleanNothing ==
  ASSUME NEW abs
  PROVE  Cleaned(abs, << >>) = << >>
<1>1. PICK f : IsRun(f, abs, << >>, 0) /\ Cleaned(abs, << >>) = f[0]
  BY CleanIs
<1> QED
  BY <1>1 DEF IsRun

LEMMA CleanAppend ==
  ASSUME NEW abs, NEW parts \in Seq(Part), NEW name \in Part
  PROVE  Cleaned(abs, Append(parts, name)) = CleanStep(abs, Cleaned(abs, parts), name)
<1> DEFINE longer == Append(parts, name)
           n == Len(parts)
<1>1. /\ n \in Nat /\ Len(longer) = n + 1 /\ longer[n + 1] = name
      /\ \A k \in 1 .. n : longer[k] = parts[k]
  BY AppendProperties, LenProperties
<1> HIDE DEF longer, n
<1>2. PICK f : IsRun(f, abs, parts, n) /\ Cleaned(abs, parts) = f[n]
  BY <1>1, CleanIs DEF n
<1>3. PICK g : IsRun(g, abs, longer, n + 1) /\ Cleaned(abs, longer) = g[n + 1]
  <2>1. Len(longer) \in Nat
    BY <1>1
  <2>2. PICK g : IsRun(g, abs, longer, Len(longer)) /\ Cleaned(abs, longer) = g[Len(longer)]
    BY <2>1, CleanIs
  <2> QED
    BY <1>1, <2>2
<1>4. f[n] = g[n]
  <2>1. n \in Nat /\ n + 1 \in Nat /\ n <= n + 1 /\ \A k \in 1 .. n : parts[k] = longer[k]
    BY <1>1
  <2>2. IsRun(f, abs, parts, n) /\ IsRun(g, abs, longer, n + 1)
    BY <1>2, <1>3
  <2> QED
    BY <2>1, <2>2, RunsAgree
<1>5. g[n + 1] = CleanStep(abs, g[n], longer[n + 1])
  BY <1>1, <1>3 DEF IsRun
<1> QED
  BY <1>1, <1>2, <1>3, <1>4, <1>5 DEF longer

-----------------------------------------------------------------------------
(* Facts about sequences.                                                  *)

(* The shortest sequence of a set is empty, or one element more than one   *)
(* that is not in the set.                                                 *)
LEMMA Shortest ==
  ASSUME NEW S, NEW Bad \in SUBSET Seq(S), Bad # {}
  PROVE  \E p \in Bad :
           \/ p = << >>
           \/ \E s \in Seq(S), e \in S : p = Append(s, e) /\ s \notin Bad
<1>1. PICK m \in {Len(p) : p \in Bad} : \A k \in {Len(p) : p \in Bad} : m <= k
  <2>1. {Len(p) : p \in Bad} \in SUBSET Nat /\ {Len(p) : p \in Bad} # {}
    BY LenProperties
  <2> QED
    BY <2>1, Least
<1>2. PICK p \in Bad : m = Len(p)
  BY <1>1
<1>3. SUFFICES ASSUME p # << >>
               PROVE  \E s \in Seq(S), e \in S : p = Append(s, e) /\ s \notin Bad
  BY <1>2, <1>3
<1>4. PICK s \in Seq(S), e \in S : p = Append(s, e)
  BY <1>3, SequenceEmptyOrAppend
<1>5. Len(p) = Len(s) + 1 /\ Len(s) \in Nat
  BY <1>4, AppendProperties, LenProperties
<1>6. s \notin Bad
  BY <1>1, <1>2, <1>5
<1> QED
  BY <1>4, <1>6

LEMMA FrontAppend ==
  ASSUME NEW S, NEW s \in Seq(S), NEW e \in S
  PROVE  /\ Front(Append(s, e)) = s /\ Last(Append(s, e)) = e
         /\ Append(s, e) # << >>
<1>1. /\ Append(s, e) \in Seq(S) /\ Len(Append(s, e)) = Len(s) + 1
      /\ Append(s, e)[Len(s) + 1] = e
      /\ \A i \in 1 .. Len(s) : Append(s, e)[i] = s[i]
      /\ Len(s) \in Nat /\ Append(s, e) # << >>
  BY AppendProperties, LenProperties
<1>2. Front(Append(s, e)) = SubSeq(Append(s, e), 1, Len(s))
  BY <1>1 DEF Front
<1>3. SubSeq(Append(s, e), 1, Len(s)) \in Seq(S)
      /\ Len(SubSeq(Append(s, e), 1, Len(s))) = Len(s)
      /\ \A i \in 1 .. Len(s) : SubSeq(Append(s, e), 1, Len(s))[i] = s[i]
  <2>1. \A i \in 1 .. Len(s) : Append(s, e)[i] \in S
    BY <1>1, ElementOfSeq
  <2> QED
    BY <1>1, <2>1, SubSeqProperties
<1> QED
  BY <1>1, <1>2, <1>3, SeqEqual DEF Last

LEMMA AppendFront ==
  ASSUME NEW S, NEW s \in Seq(S), s # << >>
  PROVE  Front(s) \in Seq(S) /\ Last(s) \in S /\ s = Append(Front(s), Last(s))
<1>1. PICK t \in Seq(S), e \in S : s = Append(t, e)
  BY SequenceEmptyOrAppend
<1> QED
  BY <1>1, FrontAppend

LEMMA ConcatAppend ==
  ASSUME NEW S, NEW s \in Seq(S), NEW t \in Seq(S), NEW e \in S
  PROVE  s \o Append(t, e) = Append(s \o t, e)
<1>1. <<e>> \in Seq(S)
  OBVIOUS
<1>2. Append(t, e) = t \o <<e>> /\ s \o t \in Seq(S) /\ Append(s \o t, e) = (s \o t) \o <<e>>
  BY AppendIsConcat, ConcatProperties
<1> QED
  BY <1>1, <1>2, ConcatAssociative

-----------------------------------------------------------------------------
(* What Clean returns.                                                     *)
LEMMA UpIsPart == Up \in Part /\ Name \subseteq Part /\ Up \notin Name
BY NameAssumption DEF Part

LEMMA NamesType ==
  ASSUME NEW s \in Names
  PROVE  /\ s \in Seq(Part)
         /\ \A k \in 1 .. Len(s) : s[k] \in Name /\ s[k] # Up
<1>1. s \in Seq(Name) /\ Name \subseteq Part
  BY DEF Names, Part
<1>2. s \in Seq(Part)
  BY <1>1, SeqMonotonic
<1>3. \A k \in 1 .. Len(s) : s[k] \in Name
  BY <1>1, ElementOfSeq
<1> QED
  BY <1>2, <1>3, NameAssumption

LEMMA StepType ==
  ASSUME NEW abs, NEW done \in Seq(Part), NEW name \in Part
  PROVE  CleanStep(abs, done, name) \in Seq(Part)
<1>1. CASE name # Up
  BY <1>1, AppendProperties DEF CleanStep
<1>2. CASE name = Up
  BY <1>2, UpIsPart, AppendProperties, AppendFront DEF CleanStep
<1> QED
  BY <1>1, <1>2

LEMMA CleanType ==
  ASSUME NEW abs, NEW parts \in Seq(Part)
  PROVE  Cleaned(abs, parts) \in Seq(Part)
<1> DEFINE Bad == {p \in Seq(Part) : Cleaned(abs, p) \notin Seq(Part)}
<1>1. SUFFICES ASSUME Bad # {} PROVE FALSE
  BY <1>1
<1>2. PICK p \in Bad : p = << >> \/ \E s \in Seq(Part), e \in Part : p = Append(s, e) /\ s \notin Bad
  BY <1>1, Shortest
<1>3. p # << >>
  BY <1>2, CleanNothing
<1>4. PICK s \in Seq(Part), e \in Part : p = Append(s, e) /\ s \notin Bad
  BY <1>2, <1>3
<1>5. s \in Seq(Part) /\ e \in Part /\ Cleaned(abs, s) \in Seq(Part)
  BY <1>4
<1>6. Cleaned(abs, p) = CleanStep(abs, Cleaned(abs, s), e)
  BY <1>4, <1>5, CleanAppend
<1>7. CleanStep(abs, Cleaned(abs, s), e) \in Seq(Part)
  BY <1>5, StepType
<1> QED
  BY <1>2, <1>6, <1>7

(* What follows is kept, if it does not go up.                             *)
LEMMA CleanPlain ==
  ASSUME NEW abs, NEW parts \in Seq(Part), NEW rest \in Names
  PROVE  Cleaned(abs, parts \o rest) = Cleaned(abs, parts) \o rest
<1> DEFINE Bad == {q \in Names : Cleaned(abs, parts \o q) # Cleaned(abs, parts) \o q}
<1>1. SUFFICES ASSUME Bad # {} PROVE FALSE
  BY <1>1
<1>2. PICK q \in Bad :
        q = << >> \/ \E s \in Names, e \in Name : q = Append(s, e) /\ s \notin Bad
  BY <1>1, Shortest DEF Names
<1>3. q # << >>
  <2>1. Cleaned(abs, parts) \in Seq(Part)
    BY CleanType
  <2>2. parts \o << >> = parts /\ Cleaned(abs, parts) \o << >> = Cleaned(abs, parts)
    BY <2>1, ConcatEmptySeq
  <2> QED
    BY <1>2, <2>2
<1>4. PICK s \in Names, e \in Name : q = Append(s, e) /\ s \notin Bad
  BY <1>2, <1>3
<1>5. s \in Seq(Part) /\ e \in Part /\ parts \o s \in Seq(Part) /\ Cleaned(abs, parts) \in Seq(Part)
  <2>1. s \in Seq(Part) /\ e \in Part
    BY <1>4, UpIsPart, NamesType
  <2> QED
    BY <2>1, CleanType, ConcatProperties
<1>6. parts \o q = Append(parts \o s, e) /\ Cleaned(abs, parts) \o q = Append(Cleaned(abs, parts) \o s, e)
  <2>1. s \in Seq(Part) /\ e \in Part
    BY <1>4, UpIsPart, NamesType
  <2>2. parts \o Append(s, e) = Append(parts \o s, e)
    BY <2>1, ConcatAppend
  <2>3. Cleaned(abs, parts) \o Append(s, e) = Append(Cleaned(abs, parts) \o s, e)
    BY <1>5, <2>1, ConcatAppend
  <2> QED
    BY <1>4, <2>2, <2>3
<1>7. Cleaned(abs, parts \o s) = Cleaned(abs, parts) \o s
  BY <1>4
<1> HIDE DEF Bad
<1>8. Cleaned(abs, parts \o q) = CleanStep(abs, Cleaned(abs, parts) \o s, e)
  <2>1. Cleaned(abs, Append(parts \o s, e)) = CleanStep(abs, Cleaned(abs, parts \o s), e)
    BY <1>5, CleanAppend
  <2> QED
    BY <1>6, <1>7, <2>1
<1>9. e # Up
  BY <1>4, UpIsPart
<1>10. CleanStep(abs, Cleaned(abs, parts) \o s, e) = Append(Cleaned(abs, parts) \o s, e)
  BY <1>9 DEF CleanStep
<1>11. Cleaned(abs, parts \o q) # Cleaned(abs, parts) \o q
  BY <1>2 DEF Bad
<1> QED
  BY <1>6, <1>8, <1>10, <1>11

(* Cleaning a part of a path first changes nothing, unless it then starts  *)
(* at the root and the whole does not.                                     *)
LEMMA CleanAfter ==
  ASSUME NEW a \in BOOLEAN, NEW b \in BOOLEAN, NEW pre \in Seq(Part), NEW parts \in Seq(Part),
         ~a \/ (b /\ pre = << >>)
  PROVE  Cleaned(b, pre \o Cleaned(a, parts)) = Cleaned(b, pre \o parts)
<1> DEFINE Bad == {p \in Seq(Part) : Cleaned(b, pre \o Cleaned(a, p)) # Cleaned(b, pre \o p)}
<1>1. SUFFICES ASSUME Bad # {} PROVE FALSE
  BY <1>1
<1>2. PICK p \in Bad : p = << >> \/ \E s \in Seq(Part), e \in Part : p = Append(s, e) /\ s \notin Bad
  BY <1>1, Shortest
<1>3. p # << >>
  BY <1>2, CleanNothing
<1>4. PICK s \in Seq(Part), e \in Part : p = Append(s, e) /\ s \notin Bad
  BY <1>2, <1>3
<1>5. Cleaned(b, pre \o Cleaned(a, p)) # Cleaned(b, pre \o p)
  BY <1>2
<1> DEFINE D == Cleaned(a, s)
           X == Cleaned(b, pre \o s)
<1>6. Cleaned(b, pre \o D) = X
  BY <1>4
<1> HIDE DEF Bad
<1>7. D \in Seq(Part) /\ pre \o D \in Seq(Part) /\ pre \o s \in Seq(Part)
  BY CleanType, ConcatProperties
<1>8. Cleaned(a, p) = CleanStep(a, D, e)
  BY <1>4, CleanAppend
<1>9. Cleaned(b, pre \o p) = CleanStep(b, X, e)
  <2>1. pre \o p = Append(pre \o s, e)
    BY <1>4, ConcatAppend
  <2>2. Cleaned(b, Append(pre \o s, e)) = CleanStep(b, Cleaned(b, pre \o s), e)
    BY <1>7, CleanAppend
  <2> QED
    BY <2>1, <2>2
<1> HIDE DEF D, X
<1>10. \A f \in Part : Cleaned(b, pre \o Append(D, f)) = CleanStep(b, X, f)
  <2>1. TAKE f \in Part
  <2>2. pre \o Append(D, f) = Append(pre \o D, f)
    BY <1>7, ConcatAppend
  <2>3. Cleaned(b, Append(pre \o D, f)) = CleanStep(b, Cleaned(b, pre \o D), f)
    BY <1>7, CleanAppend
  <2> QED
    BY <1>6, <2>2, <2>3
<1>11. CASE e # Up
  <2>1. Cleaned(a, p) = Append(D, e)
    BY <1>8, <1>11 DEF CleanStep
  <2> QED
    BY <1>5, <1>9, <1>10, <2>1
<1>12. CASE e = Up /\ D # << >> /\ Last(D) # Up
  <2> DEFINE F == Front(D)
             Y == Cleaned(b, pre \o F)
  <2>1. F \in Seq(Part) /\ Last(D) \in Part /\ D = Append(F, Last(D))
    BY <1>7, <1>12, AppendFront
  <2>2. pre \o F \in Seq(Part) /\ Y \in Seq(Part)
    BY <2>1, CleanType, ConcatProperties
  <2>3. pre \o Append(F, Last(D)) = Append(pre \o F, Last(D))
    BY <2>1, ConcatAppend
  <2>4. Cleaned(b, Append(pre \o F, Last(D))) = CleanStep(b, Y, Last(D))
    BY <2>1, <2>2, CleanAppend
  <2>5. CleanStep(b, Y, Last(D)) = Append(Y, Last(D))
    BY <1>12 DEF CleanStep
  <2>6. X = Append(Y, Last(D))
    BY <1>6, <2>1, <2>3, <2>4, <2>5
  <2>7. Cleaned(a, p) = F
    BY <1>8, <1>12 DEF CleanStep
  <2> HIDE DEF F, Y
  <2>8. X # << >> /\ Last(X) = Last(D) /\ Front(X) = Y
    BY <2>1, <2>2, <2>6, FrontAppend
  <2>9. CleanStep(b, X, e) = Y
    BY <1>12, <2>8 DEF CleanStep
  <2> QED
    BY <1>5, <1>9, <2>7, <2>9 DEF Y
<1>13. CASE e = Up /\ ~(D # << >> /\ Last(D) # Up) /\ ~a
  <2>1. Cleaned(a, p) = Append(D, Up)
    BY <1>8, <1>13 DEF CleanStep
  <2> QED
    BY <1>5, <1>9, <1>10, <1>13, <2>1, UpIsPart
<1>14. CASE e = Up /\ ~(D # << >> /\ Last(D) # Up) /\ a
  <2>1. b /\ pre = << >>
    BY <1>14
  <2>2. a = b /\ pre \o s = s
    BY <1>14, <2>1, ConcatEmptySeq
  <2>3. X = D
    BY <2>2 DEF X, D
  <2>4. Cleaned(a, p) = D /\ CleanStep(b, X, e) = D
    BY <1>8, <1>14, <2>2, <2>3 DEF CleanStep
  <2> QED
    BY <1>5, <1>6, <1>9, <2>3, <2>4
<1> QED
  BY <1>11, <1>12, <1>13, <1>14

(* Clean is done when done once.                                           *)
LEMMA CleanTwice ==
  ASSUME NEW a \in BOOLEAN, NEW parts \in Seq(Part)
  PROVE  Cleaned(a, Cleaned(a, parts)) = Cleaned(a, parts)
<1>1. << >> \o Cleaned(a, parts) = Cleaned(a, parts) /\ << >> \o parts = parts /\ << >> \in Seq(Part)
  BY CleanType, ConcatEmptySeq
<1>2. ~a \/ (a /\ << >> = << >>)
  OBVIOUS
<1>3. Cleaned(a, << >> \o Cleaned(a, parts)) = Cleaned(a, << >> \o parts)
  BY <1>1, <1>2, CleanAfter
<1> QED
  BY <1>1, <1>3

-----------------------------------------------------------------------------
(* Prefixes.                                                               *)
LEMMA PrefixIs ==
  ASSUME NEW S, NEW s \in Seq(S), NEW t \in Seq(S)
  PROVE  IsPrefix(s, t) <=> Len(s) <= Len(t) /\ \A k \in 1 .. Len(s) : s[k] = t[k]
<1> DEFINE m == Len(s)
<1>1. m \in Nat /\ Len(t) \in Nat /\ \A k \in 1 .. m : s[k] \in S
  BY LenProperties, ElementOfSeq
<1>2. SubSeq(s, 1, m) = s
  BY SubSeqFull
<1>3. SUFFICES ASSUME m <= Len(t)
               PROVE  s = SubSeq(t, 1, m) <=> \A k \in 1 .. m : s[k] = t[k]
  BY <1>1, <1>2, <1>3 DEF IsPrefix
<1> HIDE DEF m
<1>4. /\ SubSeq(t, 1, m) \in Seq(S) /\ Len(SubSeq(t, 1, m)) = m
      /\ \A k \in 1 .. m : SubSeq(t, 1, m)[k] = t[k]
  <2>1. \A k \in 1 .. m : t[k] \in S
    BY <1>1, <1>3, ElementOfSeq
  <2>2. m \in Int /\ (IF 1 <= m THEN m - 1 + 1 ELSE 0) = m /\ m - 1 + 1 = m /\ \A k \in 1 .. m : 1 + k - 1 = k
    BY <1>1
  <2>3. /\ SubSeq(t, 1, m) \in Seq(S)
        /\ Len(SubSeq(t, 1, m)) = IF 1 <= m THEN m - 1 + 1 ELSE 0
        /\ \A k \in 1 .. m - 1 + 1 : SubSeq(t, 1, m)[k] = t[1 + k - 1]
    BY <2>1, <2>2, SubSeqProperties
  <2> QED
    BY <2>2, <2>3
<1> QED
  BY <1>4, SeqEqual DEF m

(* What follows a prefix.                                                  *)
After(s, t) == SubSeq(t, Len(s) + 1, Len(t))

LEMMA AfterPrefix ==
  ASSUME NEW S, NEW s \in Seq(S), NEW t \in Seq(S), IsPrefix(s, t)
  PROVE  After(s, t) \in Seq(S) /\ s \o After(s, t) = t
<1> DEFINE m == Len(s)
           n == Len(t)
           u == After(s, t)
<1>1. m \in Nat /\ n \in Nat /\ m <= n /\ \A k \in 1 .. m : s[k] = t[k]
  BY LenProperties, PrefixIs
<1>2. /\ u \in Seq(S) /\ Len(u) = n - m
      /\ \A k \in 1 .. n - m : u[k] = t[m + k]
  <2>1. \A k \in m + 1 .. n : t[k] \in S
    BY <1>1, ElementOfSeq
  <2>2. m + 1 \in Int /\ n \in Int /\ n - (m + 1) + 1 = n - m /\ \A k \in 1 .. n - m : m + 1 + k - 1 = m + k
        /\ (IF m + 1 <= n THEN n - (m + 1) + 1 ELSE 0) = n - m
    BY <1>1
  <2>3. /\ u \in Seq(S)
        /\ Len(u) = IF m + 1 <= n THEN n - (m + 1) + 1 ELSE 0
        /\ \A k \in 1 .. n - (m + 1) + 1 : u[k] = t[m + 1 + k - 1]
    BY <2>1, <2>2, SubSeqProperties DEF After
  <2> HIDE DEF u, m, n
  <2>4. \A k \in 1 .. n - m : u[k] = t[m + k]
    <3>1. TAKE k \in 1 .. n - m
    <3>2. k \in 1 .. n - (m + 1) + 1 /\ m + 1 + k - 1 = m + k
      BY <1>1
    <3> QED
      BY <2>3, <3>2
  <2>5. Len(u) = n - m
    BY <1>1, <2>3
  <2> QED
    BY <2>3, <2>4, <2>5
<1> HIDE DEF u
<1>3. /\ s \o u \in Seq(S) /\ Len(s \o u) = n
      /\ \A k \in 1 .. n : (s \o u)[k] = IF k <= m THEN s[k] ELSE u[k - m]
  BY <1>1, <1>2, ConcatProperties
<1>4. \A k \in 1 .. n : (s \o u)[k] = t[k]
  BY <1>1, <1>2, <1>3
<1>5. s \o u = t
  BY <1>3, <1>4, SeqEqual
<1> QED
  BY <1>2, <1>5 DEF u

LEMMA ConcatInjective ==
  ASSUME NEW S, NEW s \in Seq(S), NEW u \in Seq(S), NEW v \in Seq(S), s \o u = s \o v
  PROVE  u = v
<1>1. /\ Len(s \o u) = Len(s) + Len(u) /\ Len(s \o v) = Len(s) + Len(v)
      /\ \A k \in 1 .. Len(s) + Len(u) : (s \o u)[k] = IF k <= Len(s) THEN s[k] ELSE u[k - Len(s)]
      /\ \A k \in 1 .. Len(s) + Len(v) : (s \o v)[k] = IF k <= Len(s) THEN s[k] ELSE v[k - Len(s)]
      /\ Len(s) \in Nat /\ Len(u) \in Nat /\ Len(v) \in Nat
  BY ConcatProperties, LenProperties
<1>2. Len(u) = Len(v)
  BY <1>1
<1>3. ASSUME NEW k \in 1 .. Len(u)
      PROVE  u[k] = v[k]
  <2>1. Len(s) + k \in 1 .. Len(s) + Len(u) /\ ~(Len(s) + k <= Len(s)) /\ Len(s) + k - Len(s) = k
    BY <1>1
  <2> QED
    BY <1>1, <1>2, <2>1
<1> QED
  BY <1>2, <1>3, SeqEqual

LEMMA PrefixConcat ==
  ASSUME NEW S, NEW s \in Seq(S), NEW u \in Seq(S)
  PROVE  IsPrefix(s, s \o u) /\ After(s, s \o u) = u
<1> DEFINE t == s \o u
<1>1. /\ t \in Seq(S) /\ Len(t) = Len(s) + Len(u) /\ Len(s) \in Nat /\ Len(u) \in Nat
      /\ \A k \in 1 .. Len(s) + Len(u) : t[k] = IF k <= Len(s) THEN s[k] ELSE u[k - Len(s)]
  BY ConcatProperties, LenProperties
<1> HIDE DEF t
<1>2. IsPrefix(s, t)
  BY <1>1, PrefixIs
<1>3. After(s, t) \in Seq(S) /\ s \o After(s, t) = s \o u
  BY <1>1, <1>2, AfterPrefix DEF t
<1>4. After(s, t) = u
  BY <1>3, ConcatInjective
<1> QED
  BY <1>2, <1>4 DEF t

LEMMA PrefixTransitive ==
  ASSUME NEW S, NEW s \in Seq(S), NEW t \in Seq(S), NEW u \in Seq(S),
         IsPrefix(s, t), IsPrefix(t, u)
  PROVE  IsPrefix(s, u)
<1>1. Len(s) \in Nat /\ Len(t) \in Nat /\ Len(u) \in Nat
  BY LenProperties
<1> QED
  BY <1>1, PrefixIs

LEMMA PrefixReflexive ==
  ASSUME NEW S, NEW s \in Seq(S)
  PROVE  IsPrefix(s, s)
<1>1. Len(s) \in Nat
  BY LenProperties
<1> QED
  BY <1>1, PrefixIs

LEMMA PrefixBoth ==
  ASSUME NEW S, NEW s \in Seq(S), NEW t \in Seq(S), IsPrefix(s, t), IsPrefix(t, s)
  PROVE  s = t
<1>1. Len(s) \in Nat /\ Len(t) \in Nat
  BY LenProperties
<1>2. Len(s) = Len(t) /\ \A k \in 1 .. Len(s) : s[k] = t[k]
  BY <1>1, PrefixIs
<1> QED
  BY <1>2, SeqEqual

(* A sequence is a prefix of another exactly when it is that one, or a     *)
(* prefix of its front.                                                    *)
LEMMA PrefixFront ==
  ASSUME NEW S, NEW s \in Seq(S), NEW t \in Seq(S), t # << >>
  PROVE  /\ IsPrefix(Front(t), t) /\ Front(t) # t
         /\ IsPrefix(s, t) <=> s = t \/ IsPrefix(s, Front(t))
<1>1. Front(t) \in Seq(S) /\ Last(t) \in S /\ t = Append(Front(t), Last(t))
  BY AppendFront
<1> DEFINE f == Front(t)
<1>2. f \in Seq(S) /\ Len(f) \in Nat /\ Len(s) \in Nat /\ Len(t) = Len(f) + 1 /\ \A k \in 1 .. Len(f) : t[k] = f[k]
  BY <1>1, AppendProperties, LenProperties
<1> HIDE DEF f
<1>3. IsPrefix(f, t) /\ f # t
  BY <1>2, PrefixIs
<1>4. ASSUME IsPrefix(s, t), s # t
      PROVE  IsPrefix(s, f)
  <2>1. Len(s) <= Len(t) /\ \A k \in 1 .. Len(s) : s[k] = t[k]
    BY <1>4, PrefixIs
  <2>2. Len(s) # Len(t)
    BY <1>4, <2>1, SeqEqual
  <2>3. Len(s) <= Len(f) /\ \A k \in 1 .. Len(s) : s[k] = f[k]
    BY <1>2, <2>1, <2>2
  <2> QED
    BY <1>2, <2>3, PrefixIs
<1>5. IsPrefix(s, f) => IsPrefix(s, t)
  BY <1>2, <1>3, PrefixTransitive
<1>6. s = t => IsPrefix(s, t)
  BY PrefixReflexive
<1> QED
  BY <1>3, <1>4, <1>5, <1>6 DEF f

(* Two prefixes of a sequence: one is a prefix of the other.               *)
LEMMA PrefixesMeet ==
  ASSUME NEW S, NEW s \in Seq(S), NEW t \in Seq(S), NEW u \in Seq(S),
         IsPrefix(s, u), IsPrefix(t, u)
  PROVE  IsPrefix(s, t) \/ IsPrefix(t, s)
<1>1. Len(s) \in Nat /\ Len(t) \in Nat /\ Len(u) \in Nat
  BY LenProperties
<1> QED
  BY <1>1, PrefixIs

LEMMA PrefixCancels ==
  ASSUME NEW S, NEW s \in Seq(S), NEW t \in Seq(S), NEW u \in Seq(S)
  PROVE  IsPrefix(s \o t, s \o u) <=> IsPrefix(t, u)
<1> DEFINE a == s \o t
           b == s \o u
<1>1. /\ a \in Seq(S) /\ b \in Seq(S)
      /\ Len(a) = Len(s) + Len(t) /\ Len(b) = Len(s) + Len(u)
      /\ \A k \in 1 .. Len(s) + Len(t) : a[k] = IF k <= Len(s) THEN s[k] ELSE t[k - Len(s)]
      /\ \A k \in 1 .. Len(s) + Len(u) : b[k] = IF k <= Len(s) THEN s[k] ELSE u[k - Len(s)]
      /\ Len(s) \in Nat /\ Len(t) \in Nat /\ Len(u) \in Nat
  BY ConcatProperties, LenProperties
<1> HIDE DEF a, b
<1>2. ASSUME IsPrefix(a, b)
      PROVE  IsPrefix(t, u)
  <2>1. Len(a) <= Len(b) /\ \A k \in 1 .. Len(a) : a[k] = b[k]
    BY <1>1, <1>2, PrefixIs
  <2>3. Len(t) <= Len(u)
    BY <1>1, <2>1
  <2>2. ASSUME NEW k \in 1 .. Len(t)
        PROVE  t[k] = u[k]
    <3> DEFINE l == Len(s) + k
    <3>1. l \in 1 .. Len(s) + Len(t) /\ l \in 1 .. Len(s) + Len(u) /\ ~(l <= Len(s)) /\ l - Len(s) = k
      BY <1>1, <2>3
    <3> HIDE DEF l
    <3>2. a[l] = b[l]
      BY <1>1, <2>1, <3>1
    <3> QED
      BY <1>1, <3>1, <3>2
  <2> QED
    BY <2>3, <2>2, PrefixIs
<1>3. ASSUME IsPrefix(t, u)
      PROVE  IsPrefix(a, b)
  <2>1. Len(t) <= Len(u) /\ \A k \in 1 .. Len(t) : t[k] = u[k]
    BY <1>3, PrefixIs
  <2>2. ASSUME NEW k \in 1 .. Len(s) + Len(t)
        PROVE  a[k] = b[k]
    <3>1. k \in 1 .. Len(s) + Len(u)
      BY <1>1, <2>1
    <3>2. CASE k <= Len(s)
      BY <1>1, <3>1, <3>2
    <3>3. CASE ~(k <= Len(s))
      <4>1. k - Len(s) \in 1 .. Len(t)
        BY <1>1, <3>3
      <4>2. a[k] = t[k - Len(s)] /\ b[k] = u[k - Len(s)]
        BY <1>1, <3>1, <3>3
      <4> QED
        BY <2>1, <4>1, <4>2
    <3> QED
      BY <3>2, <3>3
  <2>3. Len(a) <= Len(b)
    BY <1>1, <2>1
  <2>4. \A k \in 1 .. Len(a) : a[k] = b[k]
    BY <1>1, <2>2
  <2> QED
    BY <1>1, <2>3, <2>4, PrefixIs
<1> QED
  BY <1>2, <1>3 DEF a, b

-----------------------------------------------------------------------------
(* Paths.                                                                  *)
LEMMA PathIs ==
  /\ \A p \in PathType : p = Path(p.abs, p.parts) /\ p.abs \in BOOLEAN /\ p.parts \in Seq(Part)
  /\ \A abs \in BOOLEAN, parts \in Seq(Part) : Path(abs, parts) \in PathType
  /\ \A abs, parts : Path(abs, parts).abs = abs /\ Path(abs, parts).parts = parts
BY DEF Path, PathType

LEMMA CleanOf ==
  ASSUME NEW p \in PathType
  PROVE  /\ Clean(p) = Path(p.abs, Cleaned(p.abs, p.parts))
         /\ Clean(p) \in PathType
         /\ Clean(Clean(p)) = Clean(p)
<1>1. p = Path(p.abs, p.parts) /\ p.abs \in BOOLEAN /\ p.parts \in Seq(Part) /\ Len(p.parts) \in Nat
  BY PathIs, LenProperties
<1>2. Clean(p) = Path(p.abs, Cleaned(p.abs, p.parts))
  BY <1>1, CleanIs
<1> DEFINE c == Cleaned(p.abs, p.parts)
<1>3. c \in Seq(Part) /\ Len(c) \in Nat /\ Cleaned(p.abs, c) = c
  BY <1>1, CleanType, CleanTwice, LenProperties
<1> HIDE DEF c
<1>4. Clean(Path(p.abs, c)) = Path(p.abs, Cleaned(p.abs, c))
  BY <1>3, CleanIs
<1> QED
  BY <1>1, <1>2, <1>3, <1>4, PathIs DEF c

(* A path by its components from the root: as it is, or from Cwd on.       *)
Absolute(p) == IF p.abs THEN p.parts ELSE Cwd \o p.parts

LEMMA NodeIs ==
  ASSUME NEW p \in PathType
  PROVE  /\ Absolute(p) \in Seq(Part)
         /\ Abs(p) = Path(TRUE, Node(p))
         /\ Node(p) = Cleaned(TRUE, Absolute(p))
         /\ Node(p) \in Seq(Part)
<1>1. Absolute(p) \in Seq(Part) /\ Len(Absolute(p)) \in Nat
  <2>1. p.parts \in Seq(Part) /\ Cwd \in Seq(Part)
    BY PathIs, CwdAssumption, NamesType
  <2>2. Cwd \o p.parts \in Seq(Part)
    BY <2>1, ConcatProperties
  <2>3. Absolute(p) \in Seq(Part)
    BY <2>1, <2>2 DEF Absolute
  <2> QED
    BY <2>3, LenProperties
<1>2. Abs(p) = Clean(Path(TRUE, Absolute(p)))
  BY DEF Abs, Absolute
<1>3. Clean(Path(TRUE, Absolute(p))) = Path(TRUE, Cleaned(TRUE, Absolute(p)))
  BY <1>1, CleanIs
<1>4. Node(p) = Cleaned(TRUE, Absolute(p))
  <2> DEFINE x == Cleaned(TRUE, Absolute(p))
  <2>1. Abs(p) = Path(TRUE, x) /\ Node(p) = Abs(p).parts
    BY <1>2, <1>3 DEF Node
  <2> HIDE DEF x
  <2>2. Path(TRUE, x).parts = x
    BY DEF Path
  <2>3. Node(p) = x
    BY <2>1, <2>2
  <2> QED
    BY <2>3 DEF x
<1> QED
  BY <1>1, <1>2, <1>3, <1>4, CleanType

(* A path leads to the same node when it is cleaned.                       *)
LEMMA NodeOfClean ==
  ASSUME NEW p \in PathType
  PROVE  Node(Clean(p)) = Node(p)
<1> DEFINE c == Cleaned(p.abs, p.parts)
<1>1. /\ Clean(p) \in PathType /\ Clean(p).abs = p.abs /\ Clean(p).parts = c
      /\ p.abs \in BOOLEAN /\ p.parts \in Seq(Part) /\ c \in Seq(Part)
      /\ Cwd \in Seq(Part)
  <2>1. p.abs \in BOOLEAN /\ p.parts \in Seq(Part) /\ Cwd \in Seq(Part)
    BY PathIs, CwdAssumption, NamesType
  <2>2. Clean(p) \in PathType /\ Clean(p) = Path(p.abs, c)
    BY CleanOf
  <2> QED
    BY <2>1, <2>2, CleanType DEF Path
<1>2. Node(Clean(p)) = Cleaned(TRUE, Absolute(Clean(p))) /\ Node(p) = Cleaned(TRUE, Absolute(p))
  BY <1>1, NodeIs
<1>3. CASE p.abs
  <2>1. Absolute(Clean(p)) = c /\ Absolute(p) = p.parts /\ p.abs = TRUE
    BY <1>1, <1>3 DEF Absolute
  <2> QED
    BY <1>1, <1>2, <2>1, CleanTwice
<1>4. CASE ~p.abs
  <2>1. Absolute(Clean(p)) = Cwd \o c /\ Absolute(p) = Cwd \o p.parts
    BY <1>1, <1>4 DEF Absolute
  <2>2. Cleaned(TRUE, Cwd \o Cleaned(p.abs, p.parts)) = Cleaned(TRUE, Cwd \o p.parts)
    BY <1>1, <1>4, CleanAfter
  <2> QED
    BY <1>2, <2>1, <2>2
<1> QED
  BY <1>3, <1>4

(* What lies below a path, by its components below it.                     *)
Under(r, q) == Path(r.abs, r.parts \o q)

LEMMA UnderType ==
  ASSUME NEW r \in PathType, NEW q \in Names
  PROVE  Under(r, q) \in PathType /\ Under(r, q).abs = r.abs /\ Under(r, q).parts = r.parts \o q
BY PathIs, NamesType, ConcatProperties DEF Under

LEMMA NodeUnder ==
  ASSUME NEW r \in PathType, NEW q \in Names
  PROVE  Node(Under(r, q)) = Node(r) \o q
<1>1. /\ Under(r, q) \in PathType /\ q \in Seq(Part) /\ r.parts \in Seq(Part) /\ Cwd \in Seq(Part)
      /\ Absolute(r) \in Seq(Part)
  BY UnderType, NamesType, PathIs, CwdAssumption, NodeIs
<1>2. Absolute(Under(r, q)) = Absolute(r) \o q
  <2>1. (Cwd \o r.parts) \o q = Cwd \o (r.parts \o q)
    <3> DEFINE x == r.parts
    <3>1. x \in Seq(Part) /\ Cwd \in Seq(Part) /\ q \in Seq(Part)
      BY <1>1
    <3> HIDE DEF x
    <3>2. (Cwd \o x) \o q = Cwd \o (x \o q)
      BY <3>1, ConcatAssociative
    <3> QED
      BY <3>2 DEF x
  <2> QED
    BY <2>1, UnderType DEF Absolute
<1>3. Cleaned(TRUE, Absolute(r) \o q) = Cleaned(TRUE, Absolute(r)) \o q
  BY <1>1, CleanPlain
<1> QED
  BY <1>1, <1>2, <1>3, NodeIs

-----------------------------------------------------------------------------
(* storedPath: below the name of the root.                                 *)
Label(absolute, r) == storedPath(absolute, r, r)
BaseOf(r) == IF r.parts = << >> THEN << >> ELSE <<Last(r.parts)>>

LEMMA UnderNothing ==
  ASSUME NEW r \in PathType
  PROVE  Under(r, << >>) = r
<1>1. r.parts \o << >> = r.parts
  BY PathIs, ConcatEmptySeq
<1> QED
  BY <1>1, PathIs DEF Under

LEMMA NothingIsNames == << >> \in Names
BY EmptySeq DEF Names

LEMMA BaseType ==
  ASSUME NEW r \in PathType
  PROVE  BaseOf(r) \in Seq(Part)
<1>1. r.parts \in Seq(Part)
  BY PathIs
<1>2. CASE r.parts # << >>
  <2>1. Last(r.parts) \in Part
    BY <1>1, <1>2, AppendFront
  <2> QED
    BY <1>2, <2>1 DEF BaseOf
<1> QED
  BY <1>2 DEF BaseOf

(* The path below a clean root, without "..": relative to it, what is below.*)
LEMMA RelUnder ==
  ASSUME NEW r \in PathType, Clean(r) = r, NEW q \in Names
  PROVE  /\ Clean(Under(r, q)) = Under(r, q)
         /\ SubSeq(Clean(Under(r, q)).parts, Len(r.parts) + 1, Len(Under(r, q).parts)) = q
<1>1. /\ r.parts \in Seq(Part) /\ q \in Seq(Part)
      /\ Under(r, q) \in PathType /\ Under(r, q).abs = r.abs /\ Under(r, q).parts = r.parts \o q
  BY PathIs, NamesType, UnderType
<1>2. Cleaned(r.abs, r.parts) = r.parts
  BY CleanOf DEF Path
<1>3. Cleaned(r.abs, r.parts \o q) = r.parts \o q
  BY <1>1, <1>2, CleanPlain
<1>4. Clean(Under(r, q)) = Under(r, q)
  BY <1>1, <1>3, CleanOf DEF Under
<1>5. After(r.parts, r.parts \o q) = q
  BY <1>1, PrefixConcat
<1> QED
  BY <1>1, <1>4, <1>5 DEF After

(* Without -a: the base name of the root, and what is below.               *)
Rooted(r, q) == Clean(Path(r.abs /\ BaseOf(r) = << >>, BaseOf(r) \o q))

LEMMA StoredIs ==
  ASSUME NEW absolute \in BOOLEAN, NEW r \in PathType, Clean(r) = r, NEW q \in Names
  PROVE  storedPath(absolute, r, Under(r, q)) =
           IF absolute THEN Abs(Under(r, q)) ELSE Rooted(r, q)
BY RelUnder DEF storedPath, Rooted, BaseOf

LEMMA LabelType ==
  ASSUME NEW absolute \in BOOLEAN, NEW r \in PathType, Clean(r) = r
  PROVE  /\ Label(absolute, r) \in PathType
         /\ Clean(Label(absolute, r)) = Label(absolute, r)
         /\ Label(absolute, r) = IF absolute THEN Abs(r) ELSE Rooted(r, << >>)
<1>1. Label(absolute, r) = IF absolute THEN Abs(r) ELSE Rooted(r, << >>)
  BY UnderNothing, NothingIsNames, StoredIs DEF Label
<1>2. CASE absolute
  <2>1. Absolute(r) \in Seq(Part) /\ Abs(r) = Clean(Path(TRUE, Absolute(r)))
    BY NodeIs DEF Abs, Absolute
  <2>2. Path(TRUE, Absolute(r)) \in PathType
    BY <2>1, PathIs
  <2>3. Abs(r) \in PathType /\ Clean(Abs(r)) = Abs(r)
    BY <2>1, <2>2, CleanOf
  <2> QED
    BY <1>1, <1>2, <2>3
<1>3. CASE ~absolute
  <2>1. BaseOf(r) \o << >> \in Seq(Part)
    BY BaseType, ConcatEmptySeq
  <2>2. Path(r.abs /\ BaseOf(r) = << >>, BaseOf(r) \o << >>) \in PathType
    BY <2>1, PathIs
  <2> QED
    BY <1>1, <1>3, <2>2, CleanOf DEF Rooted
<1> QED
  BY <1>1, <1>2, <1>3

LEMMA StoredUnder ==
  ASSUME NEW absolute \in BOOLEAN, NEW r \in PathType, Clean(r) = r, NEW q \in Names
  PROVE  storedPath(absolute, r, Under(r, q)) = Under(Label(absolute, r), q)
<1>1. CASE absolute
  <2>1. Abs(Under(r, q)) = Path(TRUE, Node(r) \o q) /\ Abs(r) = Path(TRUE, Node(r))
    BY UnderType, NodeUnder, NodeIs
  <2>2. storedPath(absolute, r, Under(r, q)) = Abs(Under(r, q)) /\ Label(absolute, r) = Abs(r)
    BY <1>1, StoredIs, LabelType
  <2>3. Under(Abs(r), q) = Path(TRUE, Node(r) \o q)
    BY <2>1 DEF Under, Path
  <2> QED
    BY <2>1, <2>2, <2>3
<1>2. CASE ~absolute
  <2> DEFINE b == BaseOf(r)
             c == r.abs /\ b = << >>
  <2>1. b \in Seq(Part) /\ b \o q \in Seq(Part) /\ b \o << >> = b /\ c \in BOOLEAN
    BY BaseType, NamesType, ConcatProperties, ConcatEmptySeq, PathIs
  <2>2. Len(b) \in Nat /\ Len(b \o q) \in Nat
    BY <2>1, LenProperties
  <2> HIDE DEF b, c
  <2>3. Clean(Path(c, b \o q)) = Path(c, Cleaned(c, b \o q)) /\ Clean(Path(c, b)) = Path(c, Cleaned(c, b))
    BY <2>2, CleanIs
  <2>4. Cleaned(c, b \o q) = Cleaned(c, b) \o q
    BY <2>1, CleanPlain
  <2>5. Rooted(r, q) = Path(c, Cleaned(c, b) \o q) /\ Rooted(r, << >>) = Path(c, Cleaned(c, b))
    BY <2>1, <2>3, <2>4 DEF Rooted, b, c
  <2>6. storedPath(absolute, r, Under(r, q)) = Rooted(r, q) /\ Label(absolute, r) = Rooted(r, << >>)
    BY <1>2, StoredIs, LabelType
  <2>7. Under(Rooted(r, << >>), q) = Path(c, Cleaned(c, b) \o q)
    <3> DEFINE x == Cleaned(c, b)
    <3>1. Rooted(r, << >>) = Path(c, x)
      BY <2>5
    <3> HIDE DEF x
    <3>2. Path(c, x).parts = x /\ Path(c, x).abs = c
      BY DEF Path
    <3>3. Under(Path(c, x), q) = Path(c, x \o q)
      BY <3>2 DEF Under
    <3> QED
      BY <3>1, <3>3 DEF x
  <2> QED
    BY <2>5, <2>6, <2>7
<1> QED
  BY <1>1, <1>2
=============================================================================
