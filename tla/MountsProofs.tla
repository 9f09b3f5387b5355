---------------------------- MODULE MountsProofs ----------------------------
(***************************************************************************)
(* Facts about the operators of Mounts, for every path and every list of   *)
(* mounts.  What Clean does to a path of any length, and how far the walks *)
(* of AddAncestorMounts go together, need an induction: here, over a set   *)
(* of natural numbers.                                                     *)
(***************************************************************************)
EXTENDS Mounts, WellFoundedInduction, TLAPS

LEMMA LeastElement ==
    ASSUME NEW T \in SUBSET Nat, T # {}
    PROVE  \E m \in T : \A n \in T : m <= n
<1>1. IsWellFoundedOn(OpToRel(<, Nat), Nat)
  BY NatLessThanWellFounded
<1>2. PICK m \in T : \A n \in T : ~ (<<n, m>> \in OpToRel(<, Nat))
  BY <1>1, WFMin, Zenon
<1>3. ASSUME NEW n \in T PROVE m <= n
  <2>1. ~ (n < m)
    <3>1. <<n, m>> \notin OpToRel(<, Nat)
      BY <1>2
    <3> QED
      BY <3>1, SMT DEF OpToRel
  <2> QED
    BY <2>1
<1> QED
  BY <1>3

LEMMA SetInduction ==
    ASSUME NEW T, 0 \in T, \A n \in Nat : n \in T => n + 1 \in T
    PROVE  Nat \subseteq T
<1> SUFFICES ASSUME Nat \ T # {} PROVE FALSE
  OBVIOUS
<1>1. PICK m \in Nat \ T : \A n \in Nat \ T : m <= n
  BY LeastElement
<1>2. m # 0 /\ m - 1 \in Nat
  BY <1>1
<1>3. m - 1 \in T
  BY <1>1, <1>2
<1> QED
  BY <1>1, <1>2, <1>3

-----------------------------------------------------------------------------
(* filepath.Clean, name by name.                                           *)

LEMMA WithoutLastType ==
    ASSUME NEW S, NEW p \in Seq(S) PROVE WithoutLast(p) \in Seq(S)
BY DEF WithoutLast, Root, Front

(* The recursive function of Cleaned exists: longer and longer walks do.   *)
LEMMA WalkExists ==
    ASSUME NEW S, NEW names \in Seq(S)
    PROVE  Cleaned(names) = [n \in 0..Len(names) |->
               IF n = 0 THEN Root
               ELSE IF names[n] = ".." THEN WithoutLast(Cleaned(names)[n - 1])
               ELSE Append(Cleaned(names)[n - 1], names[n])]
<1> DEFINE Step(g, n) == IF n = 0 THEN Root
                         ELSE IF names[n] = ".." THEN WithoutLast(g[n - 1])
                         ELSE Append(g[n - 1], names[n])
           IsWalk(g, k) == g = [n \in 0..k |-> Step(g, n)]
           T == {k \in Nat : \E g : IsWalk(g, k)}
<1>1. 0 \in T
  <2>1. IsWalk([n \in 0..0 |-> Root], 0)
    OBVIOUS
  <2> QED
    BY <2>1
<1>2. ASSUME NEW k \in Nat, k \in T PROVE k + 1 \in T
  <2>1. PICK g : IsWalk(g, k)
    BY <1>2
  <2> DEFINE h == [n \in 0..(k + 1) |-> IF n = k + 1 THEN Step(g, n) ELSE g[n]]
  <2>2. ASSUME NEW n \in 0..(k + 1) PROVE h[n] = Step(h, n)
    <3>1. n = 0 \/ n - 1 \in 0..k
      OBVIOUS
    <3>2. n # 0 => h[n - 1] = g[n - 1]
      BY <3>1
    <3>3. Step(h, n) = Step(g, n)
      BY <3>2
    <3>4. h[n] = Step(g, n)
      <4>1. CASE n = k + 1
        BY <4>1
      <4>2. CASE n # k + 1
        <5>1. n \in 0..k
          BY <4>2
        <5>2. g[n] = Step(g, n)
          BY <2>1, <5>1
        <5> QED
          BY <5>2, <4>2
      <4> QED
        BY <4>1, <4>2
    <3> QED
      BY <3>3, <3>4
  <2>3. h = [n \in 0..(k + 1) |-> Step(h, n)]
    <3> HIDE DEF Step
    <3> QED
      BY <2>2
  <2>4. IsWalk(h, k + 1)
    BY <2>3
  <2>5. \E f : IsWalk(f, k + 1)
    BY <2>4
  <2> HIDE DEF IsWalk
  <2> QED
    BY <2>5
<1>3. Len(names) \in T
  <2> HIDE DEF T
  <2> QED
    BY <1>1, <1>2, SetInduction
<1>4. PICK g : IsWalk(g, Len(names))
  BY <1>3
<1>5. Cleaned(names) = CHOOSE w : IsWalk(w, Len(names))
  BY DEF Cleaned
<1>6. IsWalk(Cleaned(names), Len(names))
  <2> HIDE DEF IsWalk
  <2> QED
    BY <1>4, <1>5
<1> QED
  BY <1>6

LEMMA WalkSteps ==
    ASSUME NEW S, NEW names \in Seq(S), NEW k \in 0..Len(names)
    PROVE  Cleaned(names)[k] =
               IF k = 0 THEN Root
               ELSE IF names[k] = ".." THEN WithoutLast(Cleaned(names)[k - 1])
               ELSE Append(Cleaned(names)[k - 1], names[k])
BY WalkExists

LEMMA WalkTypes ==
    ASSUME NEW S, NEW names \in Seq(S), NEW n \in 0..Len(names)
    PROVE  Cleaned(names)[n] \in Seq(S \ {".."})
<1> DEFINE walk == Cleaned(names)
           T == {k \in Nat : k <= Len(names) => walk[k] \in Seq(S \ {".."})}
<1>0. ASSUME NEW k \in 0..Len(names)
      PROVE  walk[k] = IF k = 0 THEN Root
                       ELSE IF names[k] = ".." THEN WithoutLast(walk[k - 1])
                       ELSE Append(walk[k - 1], names[k])
  BY WalkSteps
<1> HIDE DEF walk
<1>1. 0 \in T
  <2>1. walk[0] = <<>> /\ <<>> \in Seq(S \ {".."})
    BY <1>0 DEF Root
  <2> QED
    BY <2>1
<1>2. ASSUME NEW k \in Nat, k \in T PROVE k + 1 \in T
  <2> SUFFICES ASSUME k + 1 <= Len(names) PROVE walk[k + 1] \in Seq(S \ {".."})
    OBVIOUS
  <2>1. walk[k] \in Seq(S \ {".."}) /\ names[k + 1] \in S /\ k + 1 \in 0..Len(names)
    BY <1>2
  <2>2. walk[k + 1] = IF names[k + 1] = ".." THEN WithoutLast(walk[k])
                      ELSE Append(walk[k], names[k + 1])
    BY <1>0, <2>1
  <2>3. CASE names[k + 1] = ".."
    BY <2>1, <2>2, <2>3, WithoutLastType
  <2>4. CASE names[k + 1] # ".."
    <3>1. names[k + 1] \in S \ {".."}
      BY <2>1, <2>4
    <3> QED
      BY <2>1, <2>2, <2>4, <3>1
  <2> QED
    BY <2>3, <2>4
<1>3. n \in T
  <2> HIDE DEF T
  <2> QED
    BY <1>1, <1>2, SetInduction
<1> QED
  BY <1>3 DEF walk

(* What filepath.Clean returns has no .. left in it, whatever the request's *)
(* path was.                                                                *)
THEOREM CleanNamesNoParent ==
    ASSUME NEW S, NEW names \in Seq(S)
    PROVE  Clean(names) \in Seq(S \ {".."})
BY WalkTypes DEF Clean

(* A path without .. is what Clean makes of it, so cleaning twice is the   *)
(* same as cleaning once.                                                   *)
THEOREM CleanKeepsClean ==
    ASSUME NEW S, ".." \notin S, NEW names \in Seq(S)
    PROVE  Clean(names) = names
<1> DEFINE walk == Cleaned(names)
           T == {k \in Nat : k <= Len(names) => walk[k] = SubSeq(names, 1, k)}
<1>0. ASSUME NEW k \in 0..Len(names)
      PROVE  walk[k] = IF k = 0 THEN Root
                       ELSE IF names[k] = ".." THEN WithoutLast(walk[k - 1])
                       ELSE Append(walk[k - 1], names[k])
  BY WalkSteps
<1> HIDE DEF walk
<1>1. 0 \in T
  <2>1. walk[0] = <<>> /\ SubSeq(names, 1, 0) = <<>>
    BY <1>0 DEF Root
  <2> QED
    BY <2>1
<1>2. ASSUME NEW k \in Nat, k \in T PROVE k + 1 \in T
  <2> SUFFICES ASSUME k + 1 <= Len(names) PROVE walk[k + 1] = SubSeq(names, 1, k + 1)
    OBVIOUS
  <2>1. walk[k] = SubSeq(names, 1, k) /\ names[k + 1] \in S /\ k + 1 \in 0..Len(names)
    BY <1>2
  <2>2. walk[k + 1] = Append(walk[k], names[k + 1])
    <3>1. names[k + 1] # ".." /\ k + 1 # 0 /\ (k + 1) - 1 = k
      BY <2>1
    <3> QED
      BY <1>0, <2>1, <3>1
  <2> QED
    BY <2>1, <2>2
<1>3. Len(names) \in T
  <2> HIDE DEF T
  <2> QED
    BY <1>1, <1>2, SetInduction
<1> QED
  BY <1>3 DEF walk, Clean

(* filepath.Dir cleans what it returns; on a path without .. there is       *)
(* nothing to clean.                                                        *)
LEMMA DirTypes ==
    ASSUME NEW S, NEW p \in Seq(S)
    PROVE  Dir(p) \in Seq(S \ {".."})
BY WithoutLastType, CleanNamesNoParent DEF Dir

LEMMA DirOfClean ==
    ASSUME NEW S, NEW p \in Seq(S \ {".."}), p # Root
    PROVE  Dir(p) = SubSeq(p, 1, Len(p) - 1)
<1>1. WithoutLast(p) = SubSeq(p, 1, Len(p) - 1)
  BY DEF WithoutLast, Front
<1>2. WithoutLast(p) \in Seq(S \ {".."})
  BY WithoutLastType
<1>3. Clean(WithoutLast(p)) = WithoutLast(p)
  BY <1>2, CleanKeepsClean
<1> QED
  BY <1>1, <1>3 DEF Dir

-----------------------------------------------------------------------------
(* Lists of mounts and the directories above them.                         *)

LEMMA ElementsOfLists ==
    ASSUME NEW S, NEW s \in Seq(S), NEW i \in 1..Len(s)
    PROVE  s[i] \in S
OBVIOUS

(* The paths above a path are ordered by their lengths.                    *)
LEMMA PrefixesAreNested ==
    ASSUME NEW S, NEW p \in Seq(S), NEW n \in 0..Len(p), NEW k \in 0..Len(p)
    PROVE  /\ SubSeq(p, 1, n) \in Seq(S) /\ Len(SubSeq(p, 1, n)) = n
           /\ Below(SubSeq(p, 1, n), SubSeq(p, 1, k)) <=> k <= n
           /\ k <= n => SubSeq(SubSeq(p, 1, n), 1, k) = SubSeq(p, 1, k)
<1>1. SubSeq(p, 1, n) \in Seq(S) /\ Len(SubSeq(p, 1, n)) = n
  OBVIOUS
<1>2. \A m \in 0..n : SubSeq(SubSeq(p, 1, n), 1, m) = SubSeq(p, 1, m)
  BY <1>1
<1>3. Len(SubSeq(p, 1, k)) = k /\ \A m \in 0..n : Len(SubSeq(p, 1, m)) = m
  OBVIOUS
<1>4. Below(SubSeq(p, 1, n), SubSeq(p, 1, k)) <=> k <= n
  <2>1. ASSUME k <= n PROVE Below(SubSeq(p, 1, n), SubSeq(p, 1, k))
    BY <1>1, <1>2, <2>1 DEF Below
  <2>2. ASSUME Below(SubSeq(p, 1, n), SubSeq(p, 1, k)) PROVE k <= n
    <3>1. PICK m \in 0..n : SubSeq(p, 1, k) = SubSeq(SubSeq(p, 1, n), 1, m)
      BY <1>1, <2>2 DEF Below
    <3>2. k = m
      BY <1>2, <1>3, <3>1
    <3> QED
      BY <3>1, <3>2
  <2> QED
    BY <2>1, <2>2
<1> QED
  BY <1>1, <1>2, <1>4

(* The walk up from i's path stops at a listed directory.  If d is above   *)
(* that, take the listed directory below d that is nearest to d: unless it *)
(* is metadata-only, it is d or its own walk reaches d.                    *)
LEMMA WalksReachAncestors ==
    ASSUME NEW S, NEW M, NEW ms \in Seq([path : Seq(S), mode : M]), NEW tools,
           NEW i \in Granting(ms), NEW d \in Ancestors(ms[i].path)
    PROVE  \/ SeatbeltStatAllowed(ms, tools, d)
           \/ \E j \in DOMAIN ms :
                 /\ ms[j].mode = "meta"
                 /\ ms[j].path \in Ancestors(ms[i].path)
                 /\ Below(ms[j].path, d)
<1> DEFINE p == Dir(ms[i].path)
           T == {n \in 1..Len(p) :
                    Below(SubSeq(p, 1, n), d) /\ SubSeq(p, 1, n) \in Listed(ms)}
<1>1. p \in Seq(S \ {".."}) /\ Len(p) \in Nat
  <2>1. i \in 1..Len(ms)
    BY DEF Granting
  <2>2. ms[i] \in [path : Seq(S), mode : M]
    BY <2>1, ElementsOfLists
  <2>3. ms[i].path \in Seq(S)
    BY <2>2
  <2>4. Dir(ms[i].path) \in Seq(S \ {".."})
    BY <2>3, DirTypes
  <2> QED
    BY <2>4
<1>0. Ancestors(ms[i].path) = {SubSeq(p, 1, n) : n \in 1..Len(p)}
  BY DEF Ancestors
<1> HIDE DEF p
<1>2. PICK k \in 1..Len(p) : d = SubSeq(p, 1, k)
  BY <1>0
<1>3. CASE T = {}
  <2>1. ASSUME NEW e \in Ancestors(ms[i].path), Below(e, d) PROVE e \notin Listed(ms)
    BY <1>0, <1>3, <2>1
  <2>2. d \in Reached(ms, ms[i].path)
    BY <2>1 DEF Reached
  <2> QED
    BY <2>2 DEF SeatbeltStatAllowed, AncestorMounts
<1>4. CASE T # {}
  <2>1. T \in SUBSET Nat
    OBVIOUS
  <2> HIDE DEF T
  <2>2. PICK m \in T : \A n \in T : m <= n
    BY <1>4, <2>1, LeastElement
  <2> DEFINE e == SubSeq(p, 1, m)
  <2>3. /\ m \in 1..Len(p) /\ Below(e, d) /\ e \in Listed(ms)
        /\ e \in Ancestors(ms[i].path)
    BY <1>0, <2>2 DEF T
  <2>4. k <= m /\ e \in Seq(S \ {".."}) /\ Len(e) = m /\ SubSeq(e, 1, k) = d
    <3>1. m \in 0..Len(p) /\ k \in 0..Len(p) /\ Below(e, SubSeq(p, 1, k))
      BY <1>1, <1>2, <2>3
    <3> QED
      BY <1>1, <1>2, <3>1, PrefixesAreNested
  <2>5. PICK j \in DOMAIN ms : ms[j].path = e
    BY <2>3 DEF Listed
  <2>6. CASE ms[j].mode = "meta"
    BY <2>3, <2>5, <2>6
  <2>7. CASE j \in Granting(ms) /\ m = k
    <3>1. Below(d, ms[j].path)
      BY <1>2, <2>3, <2>5, <2>7
    <3> QED
      BY <2>7, <3>1 DEF SeatbeltStatAllowed, SeatbeltReadAllowed
  <2>8. CASE j \in Granting(ms) /\ m # k
    <3>1. Dir(e) = SubSeq(e, 1, m - 1)
      <4>1. e # Root
        <5>1. Len(e) # 0 /\ Len(Root) = 0
          BY <2>3, <2>4 DEF Root
        <5> HIDE DEF e
        <5> QED
          BY <5>1
      <4> QED
        BY <2>4, <4>1, DirOfClean
    <3>2. Ancestors(e) = {SubSeq(p, 1, n) : n \in 1..(m - 1)}
      <4>1. m - 1 \in 0..Len(p) /\ m - 1 \in 0..Len(e)
        BY <1>1, <2>3, <2>4
      <4>2. Dir(e) = SubSeq(p, 1, m - 1) /\ Len(Dir(e)) = m - 1
        BY <1>1, <2>3, <3>1, <4>1, PrefixesAreNested
      <4>3. \A n \in 1..(m - 1) : SubSeq(Dir(e), 1, n) = SubSeq(p, 1, n)
        BY <1>1, <4>1, <4>2, PrefixesAreNested
      <4> QED
        BY <4>2, <4>3 DEF Ancestors
    <3>3. d \in Ancestors(e)
      <4>1. k \in 1..(m - 1)
        BY <1>2, <2>3, <2>4, <2>8
      <4> QED
        BY <1>2, <3>2, <4>1
    <3>4. ASSUME NEW f \in Ancestors(e), Below(f, d) PROVE f \notin Listed(ms)
      <4>1. PICK n \in 1..(m - 1) : f = SubSeq(p, 1, n)
        BY <3>2
      <4>2. n \in 1..Len(p) /\ n \notin T
        BY <1>1, <2>2, <2>3, <4>1
      <4> QED
        BY <3>4, <4>1, <4>2 DEF T
    <3>5. d \in Reached(ms, ms[j].path)
      BY <2>5, <3>3, <3>4 DEF Reached
    <3> QED
      BY <2>8, <3>5 DEF SeatbeltStatAllowed, AncestorMounts
  <2> QED
    BY <2>6, <2>7, <2>8 DEF Granting
<1> QED
  BY <1>3, <1>4
=============================================================================
