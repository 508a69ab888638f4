---------------------------- MODULE TreeSetProofs ----------------------------
(***************************************************************************)
(* What holds of the hash tree for any elements and any hashes given to    *)
(* them: which paths it has, when its hashes are those of its content, and *)
(* what a diff finds.                                                      *)
(***************************************************************************)
EXTENDS TreeSet, NumberLemmas, SequenceTheorems, FiniteSetTheorems, TLAPS

-----------------------------------------------------------------------------
(***************************************************************************)
(* Paths.                                                                  *)
(***************************************************************************)
Path == Seq(Nat)

LEMMA Segment ==
    ASSUME NEW p \in Path, NEW i \in 0..Len(p)
    PROVE  /\ SubSeq(p, 1, i) \in Path /\ Len(SubSeq(p, 1, i)) = i
           /\ \A j \in 1..i : SubSeq(p, 1, i)[j] = p[j]
<1>1. Len(p) \in Nat /\ \A j \in 1..Len(p) : p[j] \in Nat
    BY LenProperties, ElementOfSeq DEF Path
<1>2. \A j \in 1..i : p[j] \in Nat
    BY <1>1
<1>3. 1 \in Int /\ i \in Int
    BY <1>1
<1> QED
    BY <1>1, <1>2, <1>3, SubSeqProperties DEF Path

LEMMA SamePath ==
    ASSUME NEW p \in Path, NEW q \in Path, Len(p) = Len(q), \A i \in 1..Len(p) : p[i] = q[i]
    PROVE  p = q
BY SeqEqual DEF Path

LEMMA PrefixIs ==
    ASSUME NEW a \in Path, NEW p \in Path
    PROVE  IsPrefix(a, p) <=> Len(a) <= Len(p) /\ \A i \in 1..Len(a) : a[i] = p[i]
<1>1. Len(a) \in Nat /\ Len(p) \in Nat
    BY LenProperties DEF Path
<1>2. SubSeq(a, 1, Len(a)) = a
    BY SubSeqFull DEF Path
<1>3. SUFFICES ASSUME Len(a) <= Len(p)
               PROVE  SubSeq(p, 1, Len(a)) = a <=> \A i \in 1..Len(a) : a[i] = p[i]
    BY <1>2 DEF IsPrefix
<1>4. /\ SubSeq(p, 1, Len(a)) \in Path /\ Len(SubSeq(p, 1, Len(a))) = Len(a)
      /\ \A j \in 1..Len(a) : SubSeq(p, 1, Len(a))[j] = p[j]
    BY <1>1, <1>3, Segment
<1> QED
    BY <1>4, SamePath

(* The nodes above a path, by prefix. *)
LEMMA AncestorIs ==
    ASSUME NEW p \in Path, NEW a
    PROVE  a \in Ancestors(p) <=> a \in Path /\ IsPrefix(a, p) /\ Len(a) < Len(p)
<1>1. Len(p) \in Nat
    BY LenProperties DEF Path
<1>2. ASSUME a \in Ancestors(p)
      PROVE  a \in Path /\ IsPrefix(a, p) /\ Len(a) < Len(p)
  <2>1. PICK i \in 0..(Len(p) - 1) : a = SubSeq(p, 1, i)
      BY <1>2 DEF Ancestors
  <2>2. a \in Path /\ Len(a) = i /\ \A j \in 1..i : a[j] = p[j]
      BY <1>1, <2>1, Segment
  <2> QED
      BY <1>1, <2>2, PrefixIs
<1>3. ASSUME a \in Path, IsPrefix(a, p), Len(a) < Len(p)
      PROVE  a \in Ancestors(p)
  <2>1. Len(a) \in 0..(Len(p) - 1)
      BY <1>1, <1>3, LenProperties DEF Path
  <2>2. /\ SubSeq(p, 1, Len(a)) \in Path /\ Len(SubSeq(p, 1, Len(a))) = Len(a)
        /\ \A j \in 1..Len(a) : SubSeq(p, 1, Len(a))[j] = p[j]
      BY <1>1, <2>1, Segment
  <2>3. a = SubSeq(p, 1, Len(a))
      BY <1>3, <2>2, PrefixIs, SamePath
  <2> QED
      BY <2>1, <2>3 DEF Ancestors
<1> QED
    BY <1>2, <1>3

LEMMA RootAbove ==
    /\ Root \in Path /\ Len(Root) = 0
    /\ \A p \in Path : IsPrefix(Root, p) /\ (p # Root => Len(p) > 0 /\ Root \in Ancestors(p))
<1>1. Root \in Path /\ Len(Root) = 0
    BY EmptySeq DEF Path, Root
<1>2. ASSUME NEW p \in Path
      PROVE  IsPrefix(Root, p) /\ (p # Root => Len(p) > 0)
  <2>1. Len(p) \in Nat /\ (p # Root => Len(p) > 0)
      BY LenProperties, EmptySeq DEF Path, Root
  <2>2. \A i \in 1..0 : Root[i] = p[i]
      OBVIOUS
  <2> QED
      BY <1>1, <2>1, <2>2, PrefixIs
<1> QED
    BY <1>1, <1>2, AncestorIs

LEMMA PrefixOrder ==
    /\ \A p \in Path : IsPrefix(p, p)
    /\ \A a, b, p \in Path : IsPrefix(a, b) /\ IsPrefix(b, p) => IsPrefix(a, p)
    /\ \A a, b, p \in Path : IsPrefix(a, p) /\ IsPrefix(b, p) /\ Len(a) <= Len(b) => IsPrefix(a, b)
    /\ \A a, p \in Path : IsPrefix(a, p) /\ Len(a) >= Len(p) => a = p
<1>1. \A p \in Path : Len(p) \in Nat
    BY LenProperties DEF Path
<1>2. ASSUME NEW a \in Path, NEW b \in Path, NEW p \in Path, IsPrefix(a, b), IsPrefix(b, p)
      PROVE  IsPrefix(a, p)
    BY <1>1, <1>2, PrefixIs
<1>3. ASSUME NEW a \in Path, NEW b \in Path, NEW p \in Path,
             IsPrefix(a, p), IsPrefix(b, p), Len(a) <= Len(b)
      PROVE  IsPrefix(a, b)
    BY <1>1, <1>3, PrefixIs
<1>4. ASSUME NEW a \in Path, NEW p \in Path, IsPrefix(a, p), Len(a) >= Len(p)
      PROVE  a = p
    BY <1>1, <1>4, PrefixIs, SamePath
<1> QED
    BY <1>1, <1>2, <1>3, <1>4, PrefixIs

(* A child, and what is above it. *)
LEMMA ChildIs ==
    ASSUME NEW paths \in SUBSET Path, NEW p \in Path, NEW q \in ChildrenIn(paths, p)
    PROVE  /\ q \in paths /\ Len(q) = Len(p) + 1 /\ IsPrefix(p, q) /\ q # Root
           /\ Ancestors(q) = {p} \cup Ancestors(p)
<1>1. q \in paths /\ q \in Path /\ Len(q) = Len(p) + 1 /\ IsPrefix(p, q) /\ Len(p) \in Nat
    BY LenProperties DEF ChildrenIn, Path
<1>2. ASSUME NEW a \in Ancestors(q)
      PROVE  a \in {p} \cup Ancestors(p)
  <2>1. a \in Path /\ IsPrefix(a, q) /\ Len(a) < Len(q) /\ Len(a) \in Nat
      BY <1>1, AncestorIs, LenProperties DEF Path
  <2>2. Len(a) <= Len(p)
      BY <1>1, <2>1
  <2>3. IsPrefix(a, p)
      BY <1>1, <2>1, <2>2, PrefixOrder
  <2>4. CASE Len(a) < Len(p)
      BY <2>1, <2>3, <2>4, AncestorIs
  <2>5. CASE Len(a) >= Len(p)
      BY <2>1, <2>3, <2>5, PrefixOrder
  <2> QED
      BY <1>1, <2>1, <2>4, <2>5
<1>3. p \in Ancestors(q)
    BY <1>1, AncestorIs
<1>4. ASSUME NEW a \in Ancestors(p)
      PROVE  a \in Ancestors(q)
  <2>1. a \in Path /\ IsPrefix(a, p) /\ Len(a) < Len(p) /\ Len(a) \in Nat
      BY <1>4, AncestorIs, LenProperties DEF Path
  <2>2. IsPrefix(a, q)
      BY <1>1, <2>1, PrefixOrder
  <2> QED
      BY <1>1, <2>1, <2>2, AncestorIs
<1>5. q # Root
    BY <1>1, RootAbove
<1> QED
    BY <1>1, <1>2, <1>3, <1>4, <1>5

(* Below p and above or at q there is exactly one child of p. *)
LEMMA ChildTowards ==
    ASSUME NEW p \in Path, NEW q \in Path, IsPrefix(p, q), p # q
    PROVE  \E c \in {q} \cup Ancestors(q) :
              /\ c \in Path /\ Len(c) = Len(p) + 1 /\ IsPrefix(p, c) /\ IsPrefix(c, q)
<1>1. Len(p) \in Nat /\ Len(q) \in Nat
    BY LenProperties DEF Path
<1>2. Len(p) < Len(q)
    BY <1>1, PrefixOrder
<1> DEFINE c == SubSeq(q, 1, Len(p) + 1)
<1>3. c \in Path /\ Len(c) = Len(p) + 1 /\ \A j \in 1..(Len(p) + 1) : c[j] = q[j]
    BY <1>1, <1>2, Segment
<1> HIDE DEF c
<1>4. IsPrefix(c, q)
    BY <1>1, <1>2, <1>3, PrefixIs
<1>5. IsPrefix(p, c)
    BY <1>1, <1>3, <1>4, PrefixOrder
<1>6. c = q \/ c \in Ancestors(q)
  <2>1. CASE Len(c) < Len(q)
      BY <1>3, <1>4, <2>1, AncestorIs
  <2>2. CASE Len(c) >= Len(q)
      BY <1>3, <1>4, <2>2, PrefixOrder
  <2> QED
      BY <1>1, <1>3, <2>1, <2>2
<1> QED
    BY <1>3, <1>4, <1>5, <1>6

(* The children of a path differ in their last values. *)
LEMMA SiblingsDiffer ==
    ASSUME NEW p \in Path, NEW c \in Path, NEW d \in Path,
           Len(c) = Len(p) + 1, IsPrefix(p, c), Len(d) = Len(p) + 1, IsPrefix(p, d),
           Value(c) = Value(d)
    PROVE  c = d
<1>1. Len(p) \in Nat /\ c # Root /\ d # Root
    BY LenProperties, RootAbove DEF Path
<1>2. c[Len(p) + 1] = d[Len(p) + 1]
    BY <1>1 DEF Value, Last
<1>3. \A i \in 1..Len(p) : c[i] = d[i]
    BY PrefixIs
<1>4. \A i \in 1..(Len(p) + 1) : i \in 1..Len(p) \/ i = Len(p) + 1
    BY <1>1
<1> QED
    BY <1>2, <1>3, <1>4, SamePath
-----------------------------------------------------------------------------
(***************************************************************************)
(* Sets of paths as trees: closed upwards, of bounded depth, with an       *)
(* induction from the leaves to the root.                                  *)
(***************************************************************************)
Closed(paths) == \A p \in paths : Ancestors(p) \subseteq paths
Grounded(paths) == paths \subseteq Path /\ \E d \in Nat : \A p \in paths : Len(p) <= d

LEMMA FromBelow ==
    ASSUME NEW paths, Grounded(paths), NEW S,
           \A p \in paths : ChildrenIn(paths, p) \subseteq S => p \in S
    PROVE  paths \subseteq S
<1>1. PICK d \in Nat : \A p \in paths : Len(p) <= d
    BY DEF Grounded
<1>2. \A p \in paths : p \in Path /\ Len(p) \in Nat
    BY LenProperties DEF Grounded, Path
<1> DEFINE N == {n \in Nat : \A p \in paths : d < Len(p) + n => p \in S}
<1>3. 0 \in N
    BY <1>1, <1>2
<1>4. ASSUME NEW n \in Nat, n \in N
      PROVE  n + 1 \in N
  <2>1. ASSUME NEW p \in paths, d < Len(p) + (n + 1)
        PROVE  p \in S
    <3>1. ASSUME NEW q \in ChildrenIn(paths, p)
          PROVE  q \in S
      <4>1. q \in paths /\ Len(q) = Len(p) + 1
          BY DEF ChildrenIn
      <4>2. d < Len(q) + n
          BY <1>2, <2>1, <4>1
      <4> QED
          BY <1>4, <4>1, <4>2
    <3> QED
        BY <3>1
  <2> QED
      BY <2>1
<1> HIDE DEF N
<1>5. \A n \in Nat : n \in N
    BY <1>3, <1>4, NatInductionSet
<1>6. ASSUME NEW p \in paths
      PROVE  p \in S
  <2>1. d + 1 \in N /\ d < Len(p) + (d + 1)
      BY <1>2, <1>5
  <2> QED
      BY <2>1 DEF N
<1> QED
    BY <1>6

LEMMA GroundedSubset ==
    ASSUME NEW paths, Grounded(paths), NEW part \in SUBSET paths
    PROVE  Grounded(part)
BY DEF Grounded

LEMMA PathsOfElements ==
    ASSUME NEW elements \in SUBSET Path
    PROVE  /\ Root \in PathsOf(elements) /\ Closed(PathsOf(elements))
           /\ PathsOf(elements) \subseteq Path
           /\ \A p \in PathsOf(elements) \ {Root} :
                  \E e \in elements : p = e \/ p \in Ancestors(e)
           /\ \A d \in Nat : (\A e \in elements : Len(e) <= d)
                                => \A p \in PathsOf(elements) : Len(p) <= d
<1>1. Root \in PathsOf(elements)
    BY DEF PathsOf
<1>2. \A p \in PathsOf(elements) \ {Root} : \E e \in elements : p = e \/ p \in Ancestors(e)
    BY DEF PathsOf
<1>3. PathsOf(elements) \subseteq Path
    BY <1>2, AncestorIs, RootAbove
<1>4. ASSUME NEW p \in PathsOf(elements), NEW a \in Ancestors(p)
      PROVE  a \in PathsOf(elements)
  <2>1. p \in Path /\ a \in Path /\ IsPrefix(a, p) /\ Len(a) < Len(p) /\ Len(a) \in Nat /\ Len(p) \in Nat
      BY <1>3, AncestorIs, LenProperties DEF Path
  <2>2. p # Root
      BY <2>1, RootAbove
  <2>3. PICK e \in elements : p = e \/ p \in Ancestors(e)
      BY <1>2, <2>2
  <2>4. a \in Ancestors(e)
    <3>1. CASE p = e
        BY <3>1
    <3>2. CASE p \in Ancestors(e)
      <4>1. e \in Path /\ IsPrefix(p, e) /\ Len(p) < Len(e) /\ Len(e) \in Nat
          BY <3>2, AncestorIs, LenProperties DEF Path
      <4>2. IsPrefix(a, e)
          BY <2>1, <4>1, PrefixOrder
      <4> QED
          BY <2>1, <4>1, <4>2, AncestorIs
    <3> QED
        BY <2>3, <3>1, <3>2
  <2> QED
      BY <2>4 DEF PathsOf
<1>5. ASSUME NEW d \in Nat, \A e \in elements : Len(e) <= d, NEW p \in PathsOf(elements)
      PROVE  Len(p) <= d
  <2>1. CASE p = Root
      BY <2>1, RootAbove
  <2>2. CASE p # Root
    <3>1. PICK e \in elements : p = e \/ p \in Ancestors(e)
        BY <1>2, <2>2
    <3>2. e \in Path /\ Len(e) \in Nat /\ Len(p) \in Nat /\ Len(p) <= Len(e) /\ Len(e) <= d
        BY <1>3, <1>5, <3>1, AncestorIs, LenProperties DEF Path
    <3> QED
        BY <3>2
  <2> QED
      BY <2>1, <2>2
<1> QED
    BY <1>1, <1>2, <1>3, <1>4, <1>5 DEF Closed

LEMMA PathsOfMore ==
    \A elements, e : PathsOf(elements \cup {e}) = PathsOf(elements) \cup PathsOf({e})
BY DEF PathsOf

(* In a tree the paths with a prefix in common hang together. *)
LEMMA InClosed ==
    ASSUME NEW paths \in SUBSET Path, Closed(paths), NEW p \in paths, NEW a \in Path, IsPrefix(a, p)
    PROVE  a \in paths
<1>1. Len(a) \in Nat /\ Len(p) \in Nat
    BY LenProperties DEF Path
<1>2. CASE Len(a) < Len(p)
    BY <1>2, AncestorIs DEF Closed
<1>3. CASE Len(a) >= Len(p)
    BY <1>3, PrefixOrder
<1> QED
    BY <1>1, <1>2, <1>3
-----------------------------------------------------------------------------
(***************************************************************************)
(* Hashes.  rehash and the reference both compute a hash per path from the *)
(* hashes of its children, except where one is kept.                       *)
(***************************************************************************)
AreHashes(f, paths, kept) ==
    f = [p \in paths |->
            IF p \in DOMAIN kept THEN kept[p] ELSE Digest(p, ChildrenIn(paths, p), f)]

LEMMA DigestSame ==
    ASSUME NEW p, NEW kids, NEW f, NEW g, \A q \in kids : f[q] = g[q]
    PROVE  Digest(p, kids, f) = Digest(p, kids, g)
BY DEF Digest

LEMMA HashesExist ==
    ASSUME NEW paths, Grounded(paths), NEW kept
    PROVE  \E f : AreHashes(f, paths, kept)
<1>1. PICK d \in Nat : \A p \in paths : Len(p) <= d
    BY DEF Grounded
<1>2. \A p \in paths : p \in Path /\ Len(p) \in Nat
    BY LenProperties DEF Grounded, Path
<1> DEFINE Deep(n) == {p \in paths : d < Len(p) + n}
           Hash(f, p) == IF p \in DOMAIN kept THEN kept[p]
                         ELSE Digest(p, ChildrenIn(paths, p), f)
           N == {n \in Nat : \E f : f = [p \in Deep(n) |-> Hash(f, p)]}
<1>3. 0 \in N
  <2> DEFINE f == [p \in {} |-> NoHash]
  <2>1. Deep(0) = {}
      BY <1>1, <1>2
  <2> HIDE DEF Deep, Hash
  <2>2. f = [p \in Deep(0) |-> Hash(f, p)]
      BY <2>1
  <2> QED
      BY <2>2
<1>4. ASSUME NEW n \in Nat, n \in N
      PROVE  n + 1 \in N
  <2>1. PICK f : f = [p \in Deep(n) |-> Hash(f, p)]
      BY <1>4
  <2> DEFINE g == [p \in Deep(n + 1) |-> Hash(f, p)]
  <2>2. ASSUME NEW p \in Deep(n + 1)
        PROVE  Hash(f, p) = Hash(g, p)
    <3>1. ASSUME NEW q \in ChildrenIn(paths, p)
          PROVE  f[q] = g[q]
      <4>1. q \in paths /\ Len(q) = Len(p) + 1
          BY DEF ChildrenIn
      <4>2. q \in Deep(n) /\ q \in Deep(n + 1)
          BY <1>2, <4>1
      <4> HIDE DEF Deep, Hash
      <4>3. f[q] = Hash(f, q)
          BY <2>1, <4>2
      <4> QED
          BY <4>2, <4>3
    <3> HIDE DEF g
    <3>2. Digest(p, ChildrenIn(paths, p), f) = Digest(p, ChildrenIn(paths, p), g)
        BY <3>1, DigestSame
    <3> QED
        BY <3>2
  <2>3. g = [p \in Deep(n + 1) |-> Hash(g, p)]
    <3> HIDE DEF Deep, Hash
    <3>1. g = [p \in Deep(n + 1) |-> g[p]] /\ \A p \in Deep(n + 1) : g[p] = Hash(g, p)
        BY <2>2
    <3> HIDE DEF g
    <3> QED
        BY <3>1
  <2> HIDE DEF g, Deep, Hash
  <2> QED
      BY <2>3
<1> HIDE DEF N
<1>5. \A n \in Nat : n \in N
    BY <1>3, <1>4, NatInductionSet
<1>6. PICK f : f = [p \in Deep(d + 1) |-> Hash(f, p)]
  <2>1. d + 1 \in N
      BY <1>5
  <2> HIDE DEF Deep, Hash
  <2> QED
      BY <2>1 DEF N
<1>7. Deep(d + 1) = paths
    BY <1>2
<1> QED
    BY <1>6, <1>7 DEF AreHashes

(* What FreshHashes is for a tree of bounded depth. *)
Given(t) == [p \in Labels(t) |-> t[p].manual]

LEMMA FreshIs ==
    ASSUME NEW t, Grounded(DOMAIN t)
    PROVE  /\ DOMAIN FreshHashes(t) = DOMAIN t
           /\ \A p \in DOMAIN t : FreshHashes(t)[p] =
                  IF p \in Labels(t) THEN t[p].manual
                  ELSE Digest(p, Children(t, p), FreshHashes(t))
<1> DEFINE Hash(f, p) == IF t[p].manual # NoHash THEN t[p].manual
                         ELSE Digest(p, Children(t, p), f)
           fresh == CHOOSE f : f = [p \in DOMAIN t |-> Hash(f, p)]
<1>1. FreshHashes(t) = fresh
    BY DEF FreshHashes
<1>2. PICK f : AreHashes(f, DOMAIN t, Given(t))
    BY HashesExist
<1>3. f = [p \in DOMAIN t |-> Hash(f, p)]
    BY <1>2 DEF AreHashes, Given, Labels, Children
<1> HIDE DEF Hash
<1>4. fresh = [p \in DOMAIN t |-> Hash(fresh, p)]
    BY <1>3
<1> HIDE DEF fresh
<1>5. DOMAIN fresh = DOMAIN t /\ \A p \in DOMAIN t : fresh[p] = Hash(fresh, p)
    BY <1>4
<1> QED
    BY <1>1, <1>5 DEF Hash, Labels

(* And what rehash computes. *)
LEMMA RehashedIs ==
    ASSUME NEW t, Grounded(DOMAIN t)
    PROVE  \E new :
              /\ \A p \in DOMAIN t : new[p] =
                    IF p \in Labels(t) THEN t[p].manual
                    ELSE IF ~t[p].dirty THEN t[p].hash
                    ELSE Digest(p, Children(t, p), new)
              /\ Rehashed(t) = [p \in DOMAIN t |-> [t[p] EXCEPT !.hash = new[p], !.dirty = FALSE]]
<1> DEFINE Hash(f, p) == IF t[p].manual # NoHash THEN t[p].manual
                         ELSE IF ~t[p].dirty THEN t[p].hash
                         ELSE Digest(p, Children(t, p), f)
           new == CHOOSE f : f = [p \in DOMAIN t |-> Hash(f, p)]
           kept == [p \in {q \in DOMAIN t : t[q].manual # NoHash \/ ~t[q].dirty} |->
                       IF t[p].manual # NoHash THEN t[p].manual ELSE t[p].hash]
<1>1. Rehashed(t) = [p \in DOMAIN t |-> [t[p] EXCEPT !.hash = new[p], !.dirty = FALSE]]
    BY DEF Rehashed
<1>2. PICK f : AreHashes(f, DOMAIN t, kept)
    BY HashesExist
<1>3. f = [p \in DOMAIN t |-> Hash(f, p)]
    BY <1>2 DEF AreHashes, Children
<1> HIDE DEF Hash
<1>4. new = [p \in DOMAIN t |-> Hash(new, p)]
    BY <1>3
<1> HIDE DEF new
<1>5. \A p \in DOMAIN t : new[p] = Hash(new, p)
    BY <1>4
<1>6. \A p \in DOMAIN t : new[p] =
          IF p \in Labels(t) THEN t[p].manual
          ELSE IF ~t[p].dirty THEN t[p].hash
          ELSE Digest(p, Children(t, p), new)
    BY <1>5 DEF Hash, Labels
<1> QED
    BY <1>1, <1>6
-----------------------------------------------------------------------------
(***************************************************************************)
(* The way back of an updating insert: FoldLeft takes one path at a time.  *)
(***************************************************************************)
UpdatedOf(f, t, way, s) ==
    IF s = {} THEN t ELSE UpdateHash(f[s \ {Max(s)}], way[Max(s)])
IsUpdatesFcn(f, t, way, n) == f = [s \in SUBSET (1..n) |-> UpdatedOf(f, t, way, s)]

LEMMA UpdatesFcnExists ==
    ASSUME NEW t, NEW way
    PROVE  \A n \in Nat : \E f : IsUpdatesFcn(f, t, way, n)
<1> DEFINE S == {n \in Nat : \E f : IsUpdatesFcn(f, t, way, n)}
<1>1. 0 \in S
  <2> DEFINE f == [s \in SUBSET (1..0) |-> t]
  <2>1. \A s \in SUBSET (1..0) : s = {}
      OBVIOUS
  <2>2. IsUpdatesFcn(f, t, way, 0)
      BY <2>1 DEF IsUpdatesFcn, UpdatedOf
  <2> QED
      BY <2>2
<1>2. ASSUME NEW n \in Nat, n \in S
      PROVE  n + 1 \in S
  <2>1. PICK f : IsUpdatesFcn(f, t, way, n)
      BY <1>2
  <2> DEFINE g == [s \in SUBSET (1..(n + 1)) |->
                      IF n + 1 \in s THEN UpdatedOf(f, t, way, s) ELSE f[s]]
  <2>2. ASSUME NEW s \in SUBSET (1..(n + 1))
        PROVE  g[s] = UpdatedOf(g, t, way, s)
    <3>1. CASE n + 1 \in s
      <4>1. s # {} /\ s \ {Max(s)} \in SUBSET (1..((n + 1) - 1)) /\ Max(s) = n + 1
          BY <3>1, MaxUpTo
      <4>2. s \ {Max(s)} \in SUBSET (1..(n + 1)) /\ n + 1 \notin s \ {Max(s)}
          BY <4>1
      <4>3. g[s \ {Max(s)}] = f[s \ {Max(s)}]
          BY <4>2
      <4> QED
          BY <3>1, <4>1, <4>3 DEF UpdatedOf
    <3>2. CASE n + 1 \notin s
      <4>1. s \in SUBSET (1..n)
          BY <3>2
      <4>2. g[s] = UpdatedOf(f, t, way, s)
          BY <2>1, <3>2, <4>1 DEF IsUpdatesFcn
      <4>3. CASE s = {}
          BY <4>2, <4>3 DEF UpdatedOf
      <4>4. CASE s # {}
        <5>1. s \ {Max(s)} \in SUBSET (1..(n + 1)) /\ n + 1 \notin s \ {Max(s)}
            BY <3>2
        <5>2. g[s \ {Max(s)}] = f[s \ {Max(s)}]
            BY <5>1
        <5> QED
            BY <4>2, <4>4, <5>2 DEF UpdatedOf
      <4> QED
          BY <4>3, <4>4
    <3> QED
        BY <3>1, <3>2
  <2>3. IsUpdatesFcn(g, t, way, n + 1)
    <3>1. g = [s \in SUBSET (1..(n + 1)) |-> g[s]]
        OBVIOUS
    <3> HIDE DEF g
    <3> QED
        BY <2>2, <3>1 DEF IsUpdatesFcn
  <2> QED
      BY <2>3
<1> HIDE DEF S
<1>3. \A n \in Nat : n \in S
    BY <1>1, <1>2, NatInductionSet
<1> QED
    BY <1>3 DEF S

Updated(t, way) == FoldLeft(UpdateHash, t, way)
AreUpdates(g, t, way, n) ==
    g[0] = t /\ \A i \in 1..n : g[i] = UpdateHash(g[i - 1], way[i])

LEMMA UpdatesAre ==
    ASSUME NEW t, NEW n \in Nat, NEW way, DOMAIN way = 1..n
    PROVE  \E g : AreUpdates(g, t, way, n) /\ Updated(t, way) = g[n]
<1> DEFINE f == CHOOSE f : IsUpdatesFcn(f, t, way, n)
           g == [i \in 0..n |-> f[1..i]]
<1>1. IsUpdatesFcn(f, t, way, n)
    BY UpdatesFcnExists
<1>2. Updated(t, way) = f[1..n]
    BY DEF Updated, FoldLeft, MapThenFoldSet, IsUpdatesFcn, UpdatedOf
<1> HIDE DEF f
<1>3. g[0] = t
  <2>1. 1..0 = {} /\ 1..0 \in SUBSET (1..n)
      OBVIOUS
  <2>2. f[1..0] = t
      BY <1>1, <2>1 DEF IsUpdatesFcn, UpdatedOf
  <2> QED
      BY <2>2
<1>4. ASSUME NEW i \in 1..n
      PROVE  g[i] = UpdateHash(g[i - 1], way[i])
  <2>1. 1..i \in SUBSET (1..n) /\ 1..i \in SUBSET (1..i) /\ i \in 1..i /\ i \in Nat /\ 1..i # {}
      OBVIOUS
  <2>2. Max(1..i) = i
      BY <2>1, MaxUpTo
  <2>3. (1..i) \ {i} = 1..(i - 1)
      OBVIOUS
  <2>4. f[1..i] = UpdateHash(f[1..(i - 1)], way[i])
      BY <1>1, <2>1, <2>2, <2>3 DEF IsUpdatesFcn, UpdatedOf
  <2> QED
      BY <2>4
<1>5. g[n] = f[1..n]
    OBVIOUS
<1> HIDE DEF g
<1>6. AreUpdates(g, t, way, n)
    BY <1>3, <1>4 DEF AreUpdates
<1> QED
    BY <1>2, <1>5, <1>6
-----------------------------------------------------------------------------
(***************************************************************************)
(* Trees: functions on the paths of some elements.                         *)
(***************************************************************************)
NodeOf(hash, manual, dirty) == [hash |-> hash, manual |-> manual, dirty |-> dirty]
IsNode(node) == node = NodeOf(node.hash, node.manual, node.dirty) /\ node.dirty \in BOOLEAN

IsTree(t, elements, given) ==
    /\ DOMAIN t = PathsOf(elements) /\ t = [p \in DOMAIN t |-> t[p]]
    /\ \A p \in DOMAIN t : IsNode(t[p]) /\ t[p].manual \in given \cup {NoHash}
    /\ t[Root].manual = NoHash

LEMMA NodeIs ==
    ASSUME NEW hash, NEW manual, NEW dirty \in BOOLEAN
    PROVE  /\ NodeOf(hash, manual, dirty).hash = hash
           /\ NodeOf(hash, manual, dirty).manual = manual
           /\ NodeOf(hash, manual, dirty).dirty = dirty
           /\ IsNode(NodeOf(hash, manual, dirty))
BY DEF NodeOf, IsNode

LEMMA DirtyNode ==
    \A hash, manual : /\ NodeOf(hash, manual, TRUE).hash = hash
                      /\ NodeOf(hash, manual, TRUE).manual = manual
                      /\ NodeOf(hash, manual, TRUE).dirty
                      /\ IsNode(NodeOf(hash, manual, TRUE))
BY DEF NodeOf, IsNode

LEMMA CleanNode ==
    \A hash, manual : /\ NodeOf(hash, manual, FALSE).hash = hash
                      /\ NodeOf(hash, manual, FALSE).manual = manual
                      /\ ~NodeOf(hash, manual, FALSE).dirty
                      /\ IsNode(NodeOf(hash, manual, FALSE))
BY DEF NodeOf, IsNode

LEMMA NodeChanged ==
    ASSUME NEW node, IsNode(node)
    PROVE  /\ \A dirty \in BOOLEAN :
                  [node EXCEPT !.dirty = dirty] = NodeOf(node.hash, node.manual, dirty)
           /\ \A hash : \A dirty \in BOOLEAN :
                  [node EXCEPT !.hash = hash, !.dirty = dirty] = NodeOf(hash, node.manual, dirty)
           /\ \A hash, manual :
                  [node EXCEPT !.hash = hash, !.manual = manual] = NodeOf(hash, manual, node.dirty)
<1>1. ASSUME NEW dirty \in BOOLEAN
      PROVE  [node EXCEPT !.dirty = dirty] = NodeOf(node.hash, node.manual, dirty)
    BY DEF IsNode, NodeOf
<1>2. ASSUME NEW hash
      PROVE  /\ \A dirty \in BOOLEAN :
                    [node EXCEPT !.hash = hash, !.dirty = dirty] = NodeOf(hash, node.manual, dirty)
             /\ \A manual :
                    [node EXCEPT !.hash = hash, !.manual = manual] = NodeOf(hash, manual, node.dirty)
  <2> DEFINE hashed == [node EXCEPT !.hash = hash]
  <2>1. hashed = NodeOf(hash, node.manual, node.dirty)
      BY DEF IsNode, NodeOf
  <2>2. ASSUME NEW dirty
        PROVE  [node EXCEPT !.hash = hash, !.dirty = dirty] = [hashed EXCEPT !.dirty = dirty]
      BY Zenon
  <2>3. ASSUME NEW manual
        PROVE  [node EXCEPT !.hash = hash, !.manual = manual] = [hashed EXCEPT !.manual = manual]
      BY Zenon
  <2> HIDE DEF hashed
  <2>4. ASSUME NEW dirty
        PROVE  [hashed EXCEPT !.dirty = dirty] = NodeOf(hash, node.manual, dirty)
      BY <2>1 DEF NodeOf
  <2>5. ASSUME NEW manual
        PROVE  [hashed EXCEPT !.manual = manual] = NodeOf(hash, manual, node.dirty)
      BY <2>1 DEF NodeOf
  <2>6. ASSUME NEW dirty \in BOOLEAN
        PROVE  [node EXCEPT !.hash = hash, !.dirty = dirty] = NodeOf(hash, node.manual, dirty)
      BY <2>2, <2>4
  <2>7. ASSUME NEW manual
        PROVE  [node EXCEPT !.hash = hash, !.manual = manual] = NodeOf(hash, manual, node.dirty)
      BY <2>3, <2>5
  <2> QED
      BY <2>6, <2>7
<1> QED
    BY <1>1, <1>2

(* insert, before any update: what is missing on the way is new.            *)
PlacedOver(t, e, hash, new) ==
    LET node(p) == IF p \in DOMAIN t THEN t[p] ELSE new[p]
    IN  [p \in DOMAIN t \cup PathsOf({e}) |->
            IF p \in Ancestors(e) THEN [node(p) EXCEPT !.dirty = TRUE]
            ELSE IF p = e /\ hash # NoHash THEN [node(p) EXCEPT !.hash = hash, !.manual = hash]
            ELSE node(p)]

AreNew(new, paths) == \A p \in paths : IsNode(new[p]) /\ new[p].manual = NoHash
NodeOn(t, new, p) == IF p \in DOMAIN t THEN t[p] ELSE new[p]
IsPlaced(u, t, e, hash, new) ==
    /\ DOMAIN u = DOMAIN t \cup PathsOf({e})
    /\ \A p \in Ancestors(e) : /\ u[p].hash = NodeOn(t, new, p).hash
                               /\ u[p].manual = NodeOn(t, new, p).manual /\ u[p].dirty
    /\ hash # NoHash => /\ u[e].hash = hash /\ u[e].manual = hash
                        /\ u[e].dirty = NodeOn(t, new, e).dirty
    /\ \A p \in DOMAIN u : p \notin Ancestors(e) /\ (p # e \/ hash = NoHash)
                            => u[p] = NodeOn(t, new, p)

LEMMA PlacedIs ==
    ASSUME NEW elements \in SUBSET Path, NEW given, NEW t, IsTree(t, elements, given),
           NEW e \in Path \ {Root}, NEW hash \in given \cup {NoHash},
           NEW new, AreNew(new, PathsOf({e}))
    PROVE  /\ IsTree(PlacedOver(t, e, hash, new), elements \cup {e}, given)
           /\ IsPlaced(PlacedOver(t, e, hash, new), t, e, hash, new)
<1> DEFINE u == PlacedOver(t, e, hash, new)
           node(p) == IF p \in DOMAIN t THEN t[p] ELSE new[p]
           paths == DOMAIN t \cup PathsOf({e})
<1>1. paths = PathsOf(elements \cup {e}) /\ Root \in DOMAIN t
    BY PathsOfMore, PathsOfElements DEF IsTree
<1>2. e \notin Ancestors(e) /\ Root \in Ancestors(e)
  <2>1. Len(e) \in Nat
      BY LenProperties DEF Path
  <2> QED
      BY <2>1, AncestorIs, RootAbove
<1>3. ASSUME NEW p \in paths
      PROVE  IsNode(node(p)) /\ node(p).manual \in given \cup {NoHash}
    BY DEF IsTree, AreNew
<1>4. node(Root).manual = NoHash
    BY <1>1 DEF IsTree
<1>5. u = [p \in paths |->
             IF p \in Ancestors(e) THEN [node(p) EXCEPT !.dirty = TRUE]
             ELSE IF p = e /\ hash # NoHash THEN [node(p) EXCEPT !.hash = hash, !.manual = hash]
             ELSE node(p)]
    BY DEF PlacedOver
<1> HIDE DEF node, u
<1>6. ASSUME NEW p \in paths
      PROVE  /\ [node(p) EXCEPT !.dirty = TRUE] = NodeOf(node(p).hash, node(p).manual, TRUE)
             /\ [node(p) EXCEPT !.hash = hash, !.manual = hash] =
                    NodeOf(hash, hash, node(p).dirty)
  <2>1. TRUE \in BOOLEAN
      OBVIOUS
  <2> QED
      BY <1>3, <2>1, NodeChanged
<1>7. DOMAIN u = paths /\ u = [p \in DOMAIN u |-> u[p]]
    BY <1>5
<1>8. ASSUME NEW p \in paths
      PROVE  /\ p \in Ancestors(e) =>
                    u[p] = NodeOf(node(p).hash, node(p).manual, TRUE)
             /\ p = e /\ hash # NoHash =>
                    u[p] = NodeOf(hash, hash, node(p).dirty)
             /\ p \notin Ancestors(e) /\ (p # e \/ hash = NoHash) => u[p] = node(p)
    BY <1>2, <1>5, <1>6
<1>9. ASSUME NEW p \in paths
      PROVE  /\ IsNode(u[p]) /\ u[p].manual \in given \cup {NoHash}
             /\ p \in Ancestors(e) => /\ u[p].hash = node(p).hash
                                      /\ u[p].manual = node(p).manual /\ u[p].dirty
             /\ p = e /\ hash # NoHash => /\ u[p].hash = hash /\ u[p].manual = hash
                                          /\ u[p].dirty = node(p).dirty
  <2>1. node(p).dirty \in BOOLEAN
      BY <1>3 DEF IsNode
  <2>2. CASE p \in Ancestors(e)
    <3>1. u[p] = NodeOf(node(p).hash, node(p).manual, TRUE) /\ p # e
        BY <1>2, <1>8, <2>2
    <3>2. /\ IsNode(u[p]) /\ u[p].manual = node(p).manual /\ u[p].hash = node(p).hash
          /\ u[p].dirty
        BY <3>1 DEF NodeOf, IsNode
    <3> QED
        BY <1>3, <3>1, <3>2, Zenon
  <2>3. CASE p = e /\ hash # NoHash
    <3>1. u[p] = NodeOf(hash, hash, node(p).dirty) /\ p \notin Ancestors(e)
        BY <1>2, <1>8, <2>3
    <3>2. /\ IsNode(u[p]) /\ u[p].manual = hash /\ u[p].hash = hash
          /\ u[p].dirty = node(p).dirty
        BY <2>1, <3>1 DEF NodeOf, IsNode
    <3> QED
        BY <3>1, <3>2, Zenon
  <2>4. CASE p \notin Ancestors(e) /\ (p # e \/ hash = NoHash)
      BY <1>3, <1>8, <2>4
  <2> QED
      BY <2>2, <2>3, <2>4
<1>10. Root \in paths /\ u[Root].manual = NoHash
    BY <1>1, <1>2, <1>4, <1>9
<1>11. IsTree(u, elements \cup {e}, given)
    BY <1>1, <1>7, <1>9, <1>10 DEF IsTree
<1>12. \A p : node(p) = NodeOn(t, new, p)
    BY DEF node, NodeOn
<1>13. Ancestors(e) \subseteq paths /\ e \in paths
    BY DEF PathsOf
<1>14. IsPlaced(u, t, e, hash, new)
    BY <1>7, <1>8, <1>9, <1>12, <1>13 DEF IsPlaced
<1> QED
    BY <1>11, <1>14 DEF u

LEMMA NewNodes ==
    ASSUME NEW paths
    PROVE  /\ \A p \in paths : LET node == [q \in paths |-> NewNode(q, TRUE)][p] IN
                  /\ IsNode(node) /\ node.manual = NoHash
                  /\ node.hash = Digest(p, {}, <<>>) /\ ~node.dirty
           /\ \A p \in paths : LET node == [q \in paths |-> NewNode(q, FALSE)][p] IN
                  IsNode(node) /\ node.manual = NoHash /\ node.dirty
BY DEF NewNode, IsNode, NodeOf

LEMMA PlacedIsOver ==
    ASSUME NEW t, NEW e, NEW hash
    PROVE  /\ Placed(t, e, hash, TRUE) =
                  PlacedOver(t, e, hash, [p \in PathsOf({e}) |-> NewNode(p, TRUE)])
           /\ Placed(t, e, hash, FALSE) =
                  PlacedOver(t, e, hash, [p \in PathsOf({e}) |-> NewNode(p, FALSE)])
BY DEF Placed, PlacedOver

(* update_hash touches one node. *)
IsHashed(u, t, p) ==
    /\ DOMAIN u = DOMAIN t
    /\ \A q \in DOMAIN t : u[q].manual = t[q].manual /\ (q # p => u[q] = t[q])
    /\ u[p].hash = IF t[p].manual # NoHash THEN t[p].manual
                   ELSE IF ~t[p].dirty THEN t[p].hash
                   ELSE Digest(p, Children(t, p), [q \in Children(t, p) |-> t[q].hash])

LEMMA UpdatedIs ==
    ASSUME NEW elements, NEW given, NEW t, IsTree(t, elements, given), NEW p \in DOMAIN t
    PROVE  IsTree(UpdateHash(t, p), elements, given) /\ IsHashed(UpdateHash(t, p), t, p)
<1> DEFINE kids == Children(t, p)
           digest == Digest(p, kids, [q \in kids |-> t[q].hash])
           manual == [t[p] EXCEPT !.hash = t[p].manual, !.dirty = FALSE]
           fresh == [t[p] EXCEPT !.hash = digest, !.dirty = FALSE]
           node == IF t[p].manual # NoHash THEN manual ELSE IF ~t[p].dirty THEN t[p] ELSE fresh
           u == UpdateHash(t, p)
<1>1. u = [t EXCEPT ![p] = node]
    BY DEF UpdateHash
<1> HIDE DEF u
<1>2. IsNode(t[p])
    BY DEF IsTree
<1> HIDE DEF digest
<1>3. manual = NodeOf(t[p].manual, t[p].manual, FALSE) /\ fresh = NodeOf(digest, t[p].manual, FALSE)
  <2>1. FALSE \in BOOLEAN
      OBVIOUS
  <2> QED
      BY <1>2, <2>1, NodeChanged
<1>4. /\ IsNode(manual) /\ manual.manual = t[p].manual /\ manual.hash = t[p].manual
      /\ IsNode(fresh) /\ fresh.manual = t[p].manual /\ fresh.hash = digest
  <2> HIDE DEF manual, fresh
  <2> QED
      BY <1>3, CleanNode
<1> HIDE DEF manual, fresh
<1>5. /\ IsNode(node) /\ node.manual = t[p].manual
      /\ node.hash = IF t[p].manual # NoHash THEN t[p].manual
                     ELSE IF ~t[p].dirty THEN t[p].hash ELSE digest
    BY <1>2, <1>4
<1> HIDE DEF node
<1>6. DOMAIN u = DOMAIN t /\ u[p] = node /\ \A q \in DOMAIN t : q # p => u[q] = t[q]
    BY <1>1
<1>7. u = [q \in DOMAIN u |-> u[q]]
    BY <1>1
<1>8. IsTree(u, elements, given)
  <2>1. \A q \in DOMAIN t : IsNode(u[q]) /\ u[q].manual = t[q].manual
      BY <1>5, <1>6 DEF IsTree
  <2>2. \A q \in DOMAIN t : u[q].manual \in given \cup {NoHash}
      BY <2>1 DEF IsTree
  <2>3. u[Root].manual = NoHash
    <3>1. CASE Root \in DOMAIN t
        BY <2>1, <3>1 DEF IsTree
    <3>2. CASE Root \notin DOMAIN t
        BY <3>2 DEF IsTree, PathsOf
    <3> QED
        BY <3>1, <3>2
  <2> QED
      BY <1>6, <1>7, <2>1, <2>2, <2>3 DEF IsTree
<1> QED
    BY <1>5, <1>6, <1>8 DEF IsTree, IsHashed, u, digest
LEMMA WayIs ==
    ASSUME NEW e \in Path \ {Root}, NEW hash
    PROVE  LET n == IF hash = NoHash THEN Len(e) + 1 ELSE Len(e)
           IN  /\ n \in Nat /\ DOMAIN WayBack(e, hash) = 1..n
               /\ \A i \in 1..n : /\ WayBack(e, hash)[i] = SubSeq(e, 1, n - i)
                                  /\ WayBack(e, hash)[i] \in PathsOf({e})
                                  /\ Len(WayBack(e, hash)[i]) = n - i
<1> DEFINE n == IF hash = NoHash THEN Len(e) + 1 ELSE Len(e)
<1>1. Len(e) \in Nat /\ n \in Nat /\ n <= Len(e) + 1
    BY LenProperties DEF Path
<1>2. WayBack(e, hash) = [i \in 1..n |-> SubSeq(e, 1, n - i)]
    BY DEF WayBack
<1> HIDE DEF n
<1>3. ASSUME NEW i \in 1..n
      PROVE  SubSeq(e, 1, n - i) \in PathsOf({e}) /\ Len(SubSeq(e, 1, n - i)) = n - i
  <2>1. n - i \in 0..Len(e)
      BY <1>1
  <2>2. Len(SubSeq(e, 1, n - i)) = n - i
      BY <2>1, Segment
  <2>3. CASE n - i = Len(e)
    <3>1. SubSeq(e, 1, n - i) = e
        BY <2>3, SubSeqFull DEF Path
    <3> QED
        BY <2>2, <3>1 DEF PathsOf
  <2>4. CASE n - i # Len(e)
    <3>1. n - i \in 0..(Len(e) - 1)
        BY <1>1, <2>1, <2>4
    <3>2. SubSeq(e, 1, n - i) \in Ancestors(e)
        BY <3>1 DEF Ancestors
    <3> QED
        BY <2>2, <3>2 DEF PathsOf
  <2> QED
      BY <2>3, <2>4
<1>4. DOMAIN WayBack(e, hash) = 1..n /\ \A i \in 1..n : WayBack(e, hash)[i] = SubSeq(e, 1, n - i)
    BY <1>2
<1> QED
    BY <1>1, <1>3, <1>4 DEF n

(* The trees along the way back of an insert, from the placed one to the    *)
(* inserted one.                                                            *)
Steps(e, hash) == IF hash = NoHash THEN Len(e) + 1 ELSE Len(e)
AreTrees(g, n, elements, given) ==
    \A i \in 0..n : /\ IsTree(g[i], elements, given)
                    /\ \A p \in DOMAIN g[0] : g[i][p].manual = g[0][p].manual

LEMMA InsertedIs ==
    ASSUME NEW elements \in SUBSET Path, NEW given, NEW t, IsTree(t, elements, given),
           NEW e \in Path \ {Root}, NEW hash \in given \cup {NoHash}
    PROVE  \E g : /\ AreUpdates(g, Placed(t, e, hash, TRUE), WayBack(e, hash), Steps(e, hash))
                  /\ g[Steps(e, hash)] = Inserted(t, e, hash, TRUE)
                  /\ AreTrees(g, Steps(e, hash), elements \cup {e}, given)
<1> DEFINE n == Steps(e, hash)
           way == WayBack(e, hash)
           placed == Placed(t, e, hash, TRUE)
<1>1. n \in Nat /\ DOMAIN way = 1..n /\ \A i \in 1..n : way[i] \in PathsOf({e})
    BY WayIs DEF Steps
<1>3. IsTree(placed, elements \cup {e}, given) /\ PathsOf({e}) \subseteq DOMAIN placed
  <2> DEFINE new == [p \in PathsOf({e}) |-> NewNode(p, TRUE)]
  <2>1. AreNew(new, PathsOf({e}))
      BY NewNodes DEF AreNew
  <2>2. placed = PlacedOver(t, e, hash, new)
      BY PlacedIsOver
  <2> HIDE DEF new, placed
  <2>3. IsTree(placed, elements \cup {e}, given) /\ IsPlaced(placed, t, e, hash, new)
      BY <2>1, <2>2, PlacedIs
  <2> QED
      BY <2>3 DEF IsPlaced
<1>4. Inserted(t, e, hash, TRUE) = Updated(placed, way)
    BY DEF Inserted, Updated
<1> HIDE DEF n, way, placed
<1>5. PICK g : AreUpdates(g, placed, way, n) /\ Updated(placed, way) = g[n]
    BY <1>1, UpdatesAre
<1> DEFINE S == {i \in Nat : i <= n =>
                    /\ IsTree(g[i], elements \cup {e}, given)
                    /\ \A p \in DOMAIN g[0] : g[i][p].manual = g[0][p].manual}
<1>6. 0 \in S
    BY <1>3, <1>5 DEF AreUpdates
<1>7. ASSUME NEW i \in Nat, i \in S
      PROVE  i + 1 \in S
  <2>1. SUFFICES ASSUME i + 1 <= n
                 PROVE  /\ IsTree(g[i + 1], elements \cup {e}, given)
                        /\ \A p \in DOMAIN g[0] : g[i + 1][p].manual = g[0][p].manual
      OBVIOUS
  <2>2. /\ IsTree(g[i], elements \cup {e}, given)
        /\ \A p \in DOMAIN g[0] : g[i][p].manual = g[0][p].manual
      BY <1>1, <1>7, <2>1
  <2>3. DOMAIN g[i] = DOMAIN g[0]
      BY <1>3, <1>5, <2>2 DEF IsTree, AreUpdates
  <2>4. i + 1 \in 1..n /\ (i + 1) - 1 = i
      BY <1>1, <2>1
  <2>5. g[i + 1] = UpdateHash(g[i], way[i + 1]) /\ way[i + 1] \in DOMAIN g[i]
      BY <1>1, <1>3, <1>5, <2>3, <2>4 DEF AreUpdates
  <2>6. PICK q \in DOMAIN g[i] : g[i + 1] = UpdateHash(g[i], q)
      BY <2>5
  <2>7. /\ IsTree(UpdateHash(g[i], q), elements \cup {e}, given)
        /\ \A p \in DOMAIN g[i] : UpdateHash(g[i], q)[p].manual = g[i][p].manual
      BY <2>2, UpdatedIs DEF IsHashed
  <2> QED
      BY <2>2, <2>3, <2>6, <2>7
<1> HIDE DEF S
<1>8. \A i \in Nat : i \in S
    BY <1>6, <1>7, NatInductionSet
<1>9. ASSUME NEW i \in 0..n
      PROVE  /\ IsTree(g[i], elements \cup {e}, given)
             /\ \A p \in DOMAIN g[0] : g[i][p].manual = g[0][p].manual
  <2>1. i \in Nat /\ i \in S /\ i <= n
      BY <1>1, <1>8
  <2> QED
      BY <2>1 DEF S
<1>10. AreTrees(g, n, elements \cup {e}, given)
    BY <1>9 DEF AreTrees
<1>11. g[n] = Inserted(t, e, hash, TRUE)
    BY <1>4, <1>5
<1> QED
    BY <1>5, <1>10, <1>11 DEF n, way, placed

(* A rehash changes hashes, and cleans. *)
LEMMA RehashedTree ==
    ASSUME NEW elements \in SUBSET Path, NEW given, NEW t, IsTree(t, elements, given),
           Grounded(DOMAIN t)
    PROVE  /\ IsTree(Rehashed(t), elements, given) /\ DOMAIN Rehashed(t) = DOMAIN t
           /\ \A p \in DOMAIN t : Rehashed(t)[p].manual = t[p].manual
           /\ \E new : \A p \in DOMAIN t :
                 /\ Rehashed(t)[p].hash = new[p]
                 /\ new[p] = IF p \in Labels(t) THEN t[p].manual
                             ELSE IF ~t[p].dirty THEN t[p].hash
                             ELSE Digest(p, Children(t, p), new)
<1> DEFINE u == Rehashed(t)
<1>1. PICK new :
          /\ \A p \in DOMAIN t : new[p] =
                IF p \in Labels(t) THEN t[p].manual
                ELSE IF ~t[p].dirty THEN t[p].hash
                ELSE Digest(p, Children(t, p), new)
          /\ u = [p \in DOMAIN t |-> [t[p] EXCEPT !.hash = new[p], !.dirty = FALSE]]
    BY RehashedIs
<1> HIDE DEF u
<1>2. ASSUME NEW p \in DOMAIN t
      PROVE  IsNode(u[p]) /\ u[p].manual = t[p].manual /\ u[p].hash = new[p]
  <2>1. IsNode(t[p]) /\ FALSE \in BOOLEAN
      BY DEF IsTree
  <2>2. u[p] = NodeOf(new[p], t[p].manual, FALSE)
      BY <1>1, <2>1, NodeChanged
  <2> QED
      BY <2>2 DEF NodeOf, IsNode
<1>3. DOMAIN u = DOMAIN t /\ u = [p \in DOMAIN u |-> u[p]]
    BY <1>1
<1>4. Root \in DOMAIN t
    BY PathsOfElements DEF IsTree
<1>5. IsTree(u, elements, given)
    BY <1>2, <1>3, <1>4 DEF IsTree
<1> QED
    BY <1>1, <1>2, <1>3, <1>5 DEF u
(* An insert that defers: the tree is placed.                               *)
DeferredNew(e) == [p \in PathsOf({e}) |-> NewNode(p, FALSE)]
UpdatedNew(e) == [p \in PathsOf({e}) |-> NewNode(p, TRUE)]

LEMMA NewAre ==
    ASSUME NEW e
    PROVE  AreNew(DeferredNew(e), PathsOf({e})) /\ AreNew(UpdatedNew(e), PathsOf({e}))
BY NewNodes DEF AreNew, DeferredNew, UpdatedNew

Deferred(t, e, hash) == Inserted(t, e, hash, FALSE)
Direct(t, e, hash) == Inserted(t, e, hash, TRUE)

LEMMA DeferredIs ==
    ASSUME NEW elements \in SUBSET Path, NEW given, NEW t, IsTree(t, elements, given),
           NEW e \in Path \ {Root}, NEW hash \in given \cup {NoHash}
    PROVE  /\ IsTree(Deferred(t, e, hash), elements \cup {e}, given)
           /\ IsPlaced(Deferred(t, e, hash), t, e, hash, DeferredNew(e))
<1>1. Deferred(t, e, hash) = PlacedOver(t, e, hash, DeferredNew(e))
    BY PlacedIsOver DEF Inserted, Deferred, DeferredNew
<1>2. AreNew(DeferredNew(e), PathsOf({e}))
    BY NewAre
<1>3. /\ IsTree(PlacedOver(t, e, hash, DeferredNew(e)), elements \cup {e}, given)
      /\ IsPlaced(PlacedOver(t, e, hash, DeferredNew(e)), t, e, hash, DeferredNew(e))
    BY <1>2, PlacedIs
<1> QED
    BY <1>1, <1>3

LEMMA InsertedTree ==
    ASSUME NEW elements \in SUBSET Path, NEW given, NEW t, IsTree(t, elements, given),
           NEW e \in Path \ {Root}, NEW hash \in given \cup {NoHash}
    PROVE  IsTree(Direct(t, e, hash), elements \cup {e}, given)
<1>1. PICK g : /\ g[Steps(e, hash)] = Direct(t, e, hash)
               /\ AreTrees(g, Steps(e, hash), elements \cup {e}, given)
    BY InsertedIs DEF Direct
<1>2. Steps(e, hash) \in Nat
    BY WayIs DEF Steps
<1>3. Steps(e, hash) \in 0..Steps(e, hash)
    BY <1>2
<1> QED
    BY <1>1, <1>3 DEF AreTrees

-----------------------------------------------------------------------------
(***************************************************************************)
(* Type correctness.  TypeOK does not say that nodes are records, nor that *)
(* the tree has a depth.                                                   *)
(***************************************************************************)
Shallow(elements) == \E d \in Nat : \A e \in elements : Len(e) <= d
TypeInv ==
    /\ content \subseteq Elements /\ Shallow(content)
    /\ IsTree(tree, content, Hashes)

LEMMA ElementsArePaths ==
    /\ Elements \subseteq Path \ {Root} /\ Labelled \subseteq Elements
    /\ \A e \in Elements : Len(e) \in Nat
BY ElementAssumption, LenProperties DEF Path, Root

LEMMA TypeFacts ==
    ASSUME TypeInv
    PROVE  /\ content \in SUBSET Path /\ Grounded(DOMAIN tree) /\ Closed(DOMAIN tree)
           /\ Root \in DOMAIN tree /\ DOMAIN tree = PathsOf(content)
<1>1. content \in SUBSET Path
    BY ElementsArePaths DEF TypeInv
<1> QED
    BY <1>1, PathsOfElements DEF TypeInv, Shallow, Grounded, IsTree

LEMMA InsertKeepsType ==
    ASSUME TypeInv, NEW e \in Elements, NEW hash \in Hashes \cup {NoHash},
           tree' = Deferred(tree, e, hash) \/ tree' = Direct(tree, e, hash),
           content' = content \cup {e}
    PROVE  TypeInv'
<1>1. e \in Path \ {Root} /\ Len(e) \in Nat /\ content \in SUBSET Path
    BY ElementsArePaths, TypeFacts
<1>2. /\ IsTree(Deferred(tree, e, hash), content \cup {e}, Hashes)
      /\ IsTree(Direct(tree, e, hash), content \cup {e}, Hashes)
    BY <1>1, DeferredIs, InsertedTree DEF TypeInv
<1>3. Shallow(content')
  <2>1. PICK d \in Nat : \A x \in content : Len(x) <= d
      BY DEF TypeInv, Shallow
  <2>2. d + Len(e) \in Nat /\ Len(e) <= d + Len(e)
      BY <1>1
  <2>3. \A x \in content : Len(x) <= d + Len(e)
    <3>1. \A x \in content : Len(x) \in Nat
        BY ElementsArePaths DEF TypeInv
    <3> QED
        BY <1>1, <2>1, <3>1
  <2>4. \A x \in content' : Len(x) <= d + Len(e)
      BY <2>2, <2>3
  <2> QED
      BY <2>2, <2>4 DEF Shallow
<1> QED
    BY <1>2, <1>3 DEF TypeInv

LEMMA TypeStep ==
    ASSUME TypeInv, [Next]_vars
    PROVE  TypeInv'
<1>1. ASSUME NEW e \in Elements, Insert(e)
      PROVE  TypeInv'
    BY <1>1, InsertKeepsType DEF Insert, Deferred
<1>2. ASSUME NEW e \in Labelled, NEW hash \in Hashes, InsertWithHash(e, hash)
      PROVE  TypeInv'
    BY <1>2, ElementsArePaths, InsertKeepsType DEF InsertWithHash, Deferred
<1>3. ASSUME NEW e \in Elements, InsertUpdate(e)
      PROVE  TypeInv'
    BY <1>3, InsertKeepsType DEF InsertUpdate, Direct
<1>4. ASSUME NEW e \in Labelled, NEW hash \in Hashes, InsertWithHashUpdate(e, hash)
      PROVE  TypeInv'
    BY <1>4, ElementsArePaths, InsertKeepsType DEF InsertWithHashUpdate, Direct
<1>5. ASSUME Rehash
      PROVE  TypeInv'
  <2>1. content \in SUBSET Path /\ Grounded(DOMAIN tree)
      BY TypeFacts
  <2>2. IsTree(Rehashed(tree), content, Hashes)
      BY <2>1, RehashedTree DEF TypeInv
  <2> QED
      BY <1>5, <2>2 DEF Rehash, TypeInv
<1>6. CASE UNCHANGED vars
    BY <1>6 DEF vars, TypeInv
<1> QED
    BY <1>1, <1>2, <1>3, <1>4, <1>5, <1>6 DEF Next, Updating

LEMMA TypeInit == Init => TypeInv
<1> SUFFICES ASSUME Init
             PROVE  TypeInv
    OBVIOUS
<1>1. PathsOf({}) = {Root}
    BY DEF PathsOf
<1>2. /\ DOMAIN EmptyTree = {Root} /\ EmptyTree = [p \in DOMAIN EmptyTree |-> EmptyTree[p]]
      /\ EmptyTree[Root] = [hash |-> Unhashed, manual |-> NoHash, dirty |-> TRUE]
    BY DEF EmptyTree
<1>3. IsNode(EmptyTree[Root]) /\ EmptyTree[Root].manual = NoHash
    BY <1>2 DEF IsNode, NodeOf
<1>4. IsTree(EmptyTree, {}, Hashes)
    BY <1>1, <1>2, <1>3 DEF IsTree
<1>5. Shallow({})
    BY DEF Shallow
<1> QED
    BY <1>4, <1>5 DEF Init, TypeInv

LEMMA TypeInvariant == Spec => []TypeInv
BY TypeInit, TypeStep, PTL DEF Spec

(* Whatever is inserted in whatever order, the paths of the tree are those  *)
(* of the elements inserted, each node's record is complete, and the root   *)
(* never has a hash of the caller's.  (sync.rs, insert and                  *)
(* get_or_create_child.)                                                    *)
THEOREM TreeTypeCorrect == Spec => []TypeOK
<1>1. TypeInv => TypeOK
    BY DEF TypeInv, IsTree, IsNode, TypeOK
<1> QED
    BY <1>1, TypeInvariant, PTL
-----------------------------------------------------------------------------
(***************************************************************************)
(* Freshness.  What a path should be hashed to depends only on what is     *)
(* below it.                                                               *)
(***************************************************************************)
AreAlike(t, u, paths) ==
    /\ paths \subseteq DOMAIN t \cap DOMAIN u
    /\ \A p \in paths : /\ Children(t, p) \subseteq paths /\ Children(u, p) = Children(t, p)
                        /\ u[p].manual = t[p].manual

LEMMA FreshAlike ==
    ASSUME NEW t, Grounded(DOMAIN t), NEW u, Grounded(DOMAIN u), NEW paths, AreAlike(t, u, paths)
    PROVE  \A p \in paths : FreshHashes(u)[p] = FreshHashes(t)[p]
<1> DEFINE S == {p \in DOMAIN t : p \in paths => FreshHashes(u)[p] = FreshHashes(t)[p]}
<1>1. ASSUME NEW p \in DOMAIN t, ChildrenIn(DOMAIN t, p) \subseteq S
      PROVE  p \in S
  <2>1. SUFFICES ASSUME p \in paths
                 PROVE  FreshHashes(u)[p] = FreshHashes(t)[p]
      OBVIOUS
  <2>2. /\ Children(u, p) = Children(t, p) /\ Children(t, p) \subseteq paths
        /\ u[p].manual = t[p].manual /\ p \in DOMAIN u
      BY <2>1 DEF AreAlike
  <2>3. \A q \in Children(t, p) : FreshHashes(u)[q] = FreshHashes(t)[q]
      BY <1>1, <2>2 DEF Children
  <2>4. Digest(p, Children(t, p), FreshHashes(u)) = Digest(p, Children(t, p), FreshHashes(t))
      BY <2>3, DigestSame
  <2>5. p \in Labels(u) <=> p \in Labels(t)
      BY <2>2 DEF Labels
  <2>6. FreshHashes(t)[p] = IF p \in Labels(t) THEN t[p].manual
                            ELSE Digest(p, Children(t, p), FreshHashes(t))
      BY FreshIs
  <2>7. FreshHashes(u)[p] = IF p \in Labels(u) THEN u[p].manual
                            ELSE Digest(p, Children(u, p), FreshHashes(u))
      BY <2>2, FreshIs
  <2> QED
      BY <2>2, <2>4, <2>5, <2>6, <2>7
<1> HIDE DEF S
<1>2. DOMAIN t \subseteq S
    BY <1>1, FromBelow
<1> QED
    BY <1>2 DEF S, AreAlike

(* The same paths, with the same hashes of the caller's. *)
LEMMA FreshSame ==
    ASSUME NEW t, Grounded(DOMAIN t), NEW u, DOMAIN u = DOMAIN t,
           \A p \in DOMAIN t : u[p].manual = t[p].manual
    PROVE  \A p \in DOMAIN t : FreshHashes(u)[p] = FreshHashes(t)[p]
<1>1. AreAlike(t, u, DOMAIN t)
    BY DEF AreAlike, Children, ChildrenIn
<1> QED
    BY <1>1, FreshAlike

(* rehash, of a tree that knows what is stale: all fresh and clean.         *)
LEMMA RehashedFresh ==
    ASSUME NEW elements \in SUBSET Path, NEW given, NEW t, IsTree(t, elements, given),
           Grounded(DOMAIN t), Sound(t)
    PROVE  Fresh(Rehashed(t))
<1> DEFINE u == Rehashed(t)
<1>1. DOMAIN u = DOMAIN t /\ \A p \in DOMAIN t : u[p].manual = t[p].manual
    BY RehashedTree
<1>2. PICK new : \A p \in DOMAIN t :
                    /\ u[p].hash = new[p]
                    /\ new[p] = IF p \in Labels(t) THEN t[p].manual
                                ELSE IF ~t[p].dirty THEN t[p].hash
                                ELSE Digest(p, Children(t, p), new)
    BY RehashedTree
<1> HIDE DEF u
<1> DEFINE S == {p \in DOMAIN t : new[p] = FreshHashes(t)[p]}
<1>3. ASSUME NEW p \in DOMAIN t, ChildrenIn(DOMAIN t, p) \subseteq S
      PROVE  p \in S
  <2>1. Digest(p, Children(t, p), new) = Digest(p, Children(t, p), FreshHashes(t))
      BY <1>3, DigestSame DEF Children
  <2>2. ~t[p].dirty => t[p].hash = FreshHashes(t)[p]
      BY DEF Sound, Stale
  <2>3. FreshHashes(t)[p] = IF p \in Labels(t) THEN t[p].manual
                            ELSE Digest(p, Children(t, p), FreshHashes(t))
      BY FreshIs
  <2> QED
      BY <1>2, <2>1, <2>2, <2>3
<1> HIDE DEF S
<1>4. DOMAIN t \subseteq S
    BY <1>3, FromBelow
<1>5. \A p \in DOMAIN t : FreshHashes(u)[p] = FreshHashes(t)[p]
    BY <1>1, FreshSame
<1>6. \A p \in DOMAIN u : u[p].hash = FreshHashes(u)[p]
    BY <1>1, <1>2, <1>4, <1>5 DEF S
<1> QED
    BY <1>6 DEF Fresh, Stale, u

LEMMA GroundedMore ==
    ASSUME NEW elements \in SUBSET Path, Grounded(PathsOf(elements)), NEW e \in Path
    PROVE  Grounded(PathsOf(elements \cup {e}))
<1>1. PICK d \in Nat : \A p \in PathsOf(elements) : Len(p) <= d
    BY DEF Grounded
<1>2. \A p \in Path : Len(p) \in Nat
    BY LenProperties DEF Path
<1>3. PathsOf({e}) \subseteq Path /\ \A p \in PathsOf({e}) : Len(p) <= Len(e)
  <2>1. {e} \in SUBSET Path /\ Len(e) \in Nat /\ \A x \in {e} : Len(x) <= Len(e)
      BY <1>2
  <2> QED
      BY <2>1, PathsOfElements
<1>4. PathsOf(elements \cup {e}) = PathsOf(elements) \cup PathsOf({e})
    BY PathsOfMore
<1>5. \A p \in PathsOf(elements) \cup PathsOf({e}) : p \in Path /\ Len(p) <= d + Len(e)
  <2>1. SUFFICES ASSUME NEW p \in PathsOf(elements) \cup PathsOf({e})
                 PROVE  p \in Path /\ Len(p) <= d + Len(e)
      OBVIOUS
  <2>2. p \in Path /\ Len(p) \in Nat /\ Len(e) \in Nat /\ (Len(p) <= d \/ Len(p) <= Len(e))
      BY <1>1, <1>2, <1>3 DEF Grounded
  <2> QED
      BY <2>2
<1>6. d + Len(e) \in Nat
    BY <1>2
<1> QED
    BY <1>4, <1>5, <1>6 DEF Grounded

(* What an insert leaves alone: the nodes that are not on its way, and the  *)
(* target unless a hash is given.                                           *)
Untouched(t, e, hash) == {p \in DOMAIN t : p \notin Ancestors(e) /\ (p # e \/ hash = NoHash)}

LEMMA OffTheWay ==
    ASSUME NEW e \in Path \ {Root}, NEW paths \in SUBSET Path, NEW p \in Path, p \notin Ancestors(e),
           NEW q \in ChildrenIn(paths, p)
    PROVE  q \notin Ancestors(e) /\ q # e /\ q \notin PathsOf({e})
<1>1. q \in Path /\ IsPrefix(p, q) /\ Len(q) = Len(p) + 1 /\ Ancestors(q) = {p} \cup Ancestors(p)
      /\ q # Root
    BY ChildIs
<1>2. Len(p) \in Nat /\ Len(q) \in Nat /\ Len(e) \in Nat
    BY <1>1, LenProperties DEF Path
<1>3. q \notin Ancestors(e)
  <2>1. SUFFICES ASSUME q \in Ancestors(e)
                 PROVE  p \in Ancestors(e)
      OBVIOUS
  <2>2. IsPrefix(q, e) /\ Len(q) < Len(e)
      BY <2>1, AncestorIs
  <2>3. IsPrefix(p, e)
      BY <1>1, <2>2, PrefixOrder
  <2> QED
      BY <1>1, <1>2, <2>2, <2>3, AncestorIs
<1>4. q # e
    BY <1>1
<1> QED
    BY <1>1, <1>3, <1>4 DEF PathsOf

LEMMA UntouchedAlike ==
    ASSUME NEW elements \in SUBSET Path, NEW given, NEW t, IsTree(t, elements, given),
           NEW e \in Path \ {Root}, NEW hash, NEW new, NEW u, IsPlaced(u, t, e, hash, new)
    PROVE  AreAlike(t, u, Untouched(t, e, hash))
<1>1. DOMAIN t \subseteq Path /\ PathsOf({e}) \subseteq Path
  <2>1. {e} \in SUBSET Path
      OBVIOUS
  <2> QED
      BY <2>1, PathsOfElements DEF IsTree
<1>2. DOMAIN u = DOMAIN t \cup PathsOf({e}) /\ DOMAIN u \in SUBSET Path
    BY <1>1 DEF IsPlaced
<1>3. ASSUME NEW p \in Untouched(t, e, hash)
      PROVE  p \in DOMAIN t /\ p \in DOMAIN u /\ u[p] = t[p]
    BY <1>2 DEF IsPlaced, NodeOn, Untouched
<1>4. ASSUME NEW p \in Untouched(t, e, hash)
      PROVE  Children(t, p) \subseteq Untouched(t, e, hash) /\ Children(u, p) = Children(t, p)
  <2>1. p \in Path /\ p \notin Ancestors(e)
      BY <1>1 DEF Untouched
  <2>2. \A q \in ChildrenIn(DOMAIN u, p) : q \notin Ancestors(e) /\ q # e /\ q \notin PathsOf({e})
      BY <1>2, <2>1, OffTheWay
  <2>3. ChildrenIn(DOMAIN t, p) \subseteq ChildrenIn(DOMAIN u, p)
      BY <1>2 DEF ChildrenIn
  <2>4. ChildrenIn(DOMAIN u, p) \subseteq ChildrenIn(DOMAIN t, p)
      BY <1>2, <2>2 DEF ChildrenIn
  <2>5. \A q \in ChildrenIn(DOMAIN t, p) : q \in DOMAIN t
      BY DEF ChildrenIn
  <2> QED
      BY <2>2, <2>3, <2>4, <2>5 DEF Children, Untouched
<1> QED
    BY <1>3, <1>4 DEF AreAlike

(* A deferred insert keeps every node that is not fresh dirty.              *)
LEMMA DeferredSound ==
    ASSUME NEW elements \in SUBSET Path, NEW given, NEW t, IsTree(t, elements, given),
           Grounded(DOMAIN t), Sound(t), NEW e \in Path \ {Root}, NEW hash \in given \cup {NoHash}
    PROVE  Sound(Deferred(t, e, hash))
<1> DEFINE u == Deferred(t, e, hash)
           new == DeferredNew(e)
<1>1. IsTree(u, elements \cup {e}, given) /\ IsPlaced(u, t, e, hash, new)
    BY DeferredIs
<1>2. \A p \in PathsOf({e}) : new[p].dirty
    BY DEF DeferredNew, NewNode
<1> HIDE DEF u, new
<1>3. Grounded(DOMAIN u)
    BY <1>1, GroundedMore DEF IsTree
<1>4. \A p \in Untouched(t, e, hash) :
          u[p] = t[p] /\ FreshHashes(u)[p] = FreshHashes(t)[p] /\ p \in DOMAIN t
  <2>1. AreAlike(t, u, Untouched(t, e, hash))
      BY <1>1, UntouchedAlike
  <2>2. \A p \in Untouched(t, e, hash) : FreshHashes(u)[p] = FreshHashes(t)[p]
      BY <1>3, <2>1, FreshAlike
  <2>3. \A p \in Untouched(t, e, hash) : p \in DOMAIN t /\ u[p] = t[p]
      BY <1>1 DEF Untouched, IsPlaced, NodeOn
  <2> QED
      BY <2>2, <2>3
<1>5. ASSUME NEW p \in DOMAIN u, ~u[p].dirty
      PROVE  u[p].hash = FreshHashes(u)[p]
  <2>1. CASE p \in Untouched(t, e, hash)
      BY <1>4, <1>5, <2>1 DEF Sound, Stale
  <2>2. CASE p \in Ancestors(e)
      BY <1>1, <1>5, <2>2 DEF IsPlaced
  <2>3. CASE p = e /\ hash # NoHash
    <3>1. u[p].hash = hash /\ u[p].manual = hash
        BY <1>1, <2>3 DEF IsPlaced
    <3>2. FreshHashes(u)[p] = u[p].manual
        BY <1>3, <2>3, <3>1, FreshIs DEF Labels
    <3> QED
        BY <3>1, <3>2
  <2>4. CASE p \notin DOMAIN t /\ p \notin Ancestors(e) /\ (p # e \/ hash = NoHash)
    <3>1. p \in PathsOf({e}) /\ u[p] = new[p]
        BY <1>1, <2>4 DEF IsPlaced, NodeOn
    <3> QED
        BY <1>2, <1>5, <3>1
  <2> QED
      BY <2>1, <2>2, <2>3, <2>4 DEF Untouched
<1> QED
    BY <1>5 DEF Sound, Stale, u

(* An updating insert into a fresh tree leaves nothing but its way to be    *)
(* hashed again.                                                            *)
Ready(t, e, hash) == Placed(t, e, hash, TRUE)

LEMMA ReadyIs ==
    ASSUME NEW elements \in SUBSET Path, NEW given, NEW t, IsTree(t, elements, given),
           NEW e \in Path \ {Root}, NEW hash \in given \cup {NoHash}
    PROVE  /\ IsTree(Ready(t, e, hash), elements \cup {e}, given)
           /\ IsPlaced(Ready(t, e, hash), t, e, hash, UpdatedNew(e))
<1>1. Ready(t, e, hash) = PlacedOver(t, e, hash, UpdatedNew(e))
    BY PlacedIsOver DEF Ready, UpdatedNew
<1>2. AreNew(UpdatedNew(e), PathsOf({e}))
    BY NewAre
<1>3. /\ IsTree(PlacedOver(t, e, hash, UpdatedNew(e)), elements \cup {e}, given)
      /\ IsPlaced(PlacedOver(t, e, hash, UpdatedNew(e)), t, e, hash, UpdatedNew(e))
    BY <1>2, PlacedIs
<1> QED
    BY <1>1, <1>3

LEMMA ReadyFresh ==
    ASSUME NEW elements \in SUBSET Path, NEW given, NEW t, IsTree(t, elements, given),
           Grounded(DOMAIN t), Fresh(t), NEW e \in Path \ {Root}, NEW hash \in given \cup {NoHash}
    PROVE  LET u == Ready(t, e, hash)
           IN  \A p \in DOMAIN u \ Ancestors(e) : u[p].hash = FreshHashes(u)[p]
<1> DEFINE u == Ready(t, e, hash)
           new == UpdatedNew(e)
<1>1. IsTree(u, elements \cup {e}, given) /\ IsPlaced(u, t, e, hash, new)
    BY ReadyIs
<1>2. \A p \in PathsOf({e}) : new[p].hash = Digest(p, {}, <<>>) /\ new[p].manual = NoHash
    BY DEF UpdatedNew, NewNode
<1> HIDE DEF u, new
<1>3. Grounded(DOMAIN u)
    BY <1>1, GroundedMore DEF IsTree
<1>4. \A p \in Untouched(t, e, hash) :
          u[p] = t[p] /\ FreshHashes(u)[p] = FreshHashes(t)[p] /\ p \in DOMAIN t
  <2>1. AreAlike(t, u, Untouched(t, e, hash))
      BY <1>1, UntouchedAlike
  <2>2. \A p \in Untouched(t, e, hash) : FreshHashes(u)[p] = FreshHashes(t)[p]
      BY <1>3, <2>1, FreshAlike
  <2>3. \A p \in Untouched(t, e, hash) : p \in DOMAIN t /\ u[p] = t[p]
      BY <1>1 DEF Untouched, IsPlaced, NodeOn
  <2> QED
      BY <2>2, <2>3
<1>5. ASSUME NEW p \in DOMAIN u \ Ancestors(e)
      PROVE  u[p].hash = FreshHashes(u)[p]
  <2>1. CASE p \in Untouched(t, e, hash)
      BY <1>4, <2>1 DEF Fresh, Stale
  <2>2. CASE p = e /\ hash # NoHash
    <3>1. u[p].hash = hash /\ u[p].manual = hash
        BY <1>1, <2>2 DEF IsPlaced
    <3>2. FreshHashes(u)[p] = u[p].manual
        BY <1>3, <2>2, <3>1, FreshIs DEF Labels
    <3> QED
        BY <3>1, <3>2
  <2>3. CASE p \notin DOMAIN t /\ (p # e \/ hash = NoHash)
    <3>1. p \in PathsOf({e}) /\ u[p] = new[p]
        BY <1>1, <2>3 DEF IsPlaced, NodeOn
    <3>2. p = e
        BY <1>5, <3>1, RootAbove DEF PathsOf
    <3>3. Children(u, p) = {}
      <4>1. SUFFICES ASSUME NEW q \in ChildrenIn(DOMAIN u, p)
                     PROVE  FALSE
          BY DEF Children
      <4>2. DOMAIN u \in SUBSET Path /\ DOMAIN u = DOMAIN t \cup PathsOf({e}) /\ p \in Path
          BY <1>1, <1>3, <3>2 DEF IsPlaced, Grounded
      <4>3. q \notin PathsOf({e})
          BY <1>5, <4>2, OffTheWay
      <4>4. q \in DOMAIN u /\ Ancestors(q) = {p} \cup Ancestors(p)
          BY <4>2, ChildIs
      <4>5. Closed(DOMAIN t)
          BY PathsOfElements DEF IsTree
      <4> QED
          BY <2>3, <4>2, <4>3, <4>4, <4>5 DEF Closed
    <3>4. FreshHashes(u)[p] = Digest(p, {}, FreshHashes(u))
        BY <1>2, <1>3, <3>1, <3>3, FreshIs DEF Labels
    <3>5. Digest(p, {}, FreshHashes(u)) = Digest(p, {}, <<>>)
      <4>1. \A q \in {} : FreshHashes(u)[q] = (<<>>)[q]
          OBVIOUS
      <4> QED
          BY <4>1, DigestSame
    <3> QED
        BY <1>2, <3>1, <3>4, <3>5
  <2> QED
      BY <1>5, <2>1, <2>2, <2>3 DEF Untouched
<1> QED
    BY <1>5 DEF u

(* On the way back every node is hashed after its children.                 *)
LEMMA DirectFresh ==
    ASSUME NEW elements \in SUBSET Path, NEW given, NEW t, IsTree(t, elements, given),
           Grounded(DOMAIN t), Fresh(t), NEW e \in Path \ {Root}, NEW hash \in given \cup {NoHash}
    PROVE  Fresh(Direct(t, e, hash))
<1> DEFINE n == Steps(e, hash)
           way == WayBack(e, hash)
           u == Ready(t, e, hash)
           fresh == FreshHashes(u)
<1>1. PICK g : /\ AreUpdates(g, u, way, n) /\ g[n] = Direct(t, e, hash)
               /\ AreTrees(g, n, elements \cup {e}, given)
    BY InsertedIs DEF Ready, Direct
<1>2. /\ n \in Nat /\ Len(e) \in Nat /\ Len(e) <= n
      /\ \A i \in 1..n : way[i] = SubSeq(e, 1, n - i) /\ Len(way[i]) = n - i /\ way[i] \in PathsOf({e})
  <2>1. Len(e) \in Nat
      BY LenProperties DEF Path
  <2>2. n \in Nat /\ Len(e) <= n
      BY <2>1 DEF Steps
  <2>3. \A i \in 1..n : way[i] = SubSeq(e, 1, n - i) /\ Len(way[i]) = n - i /\ way[i] \in PathsOf({e})
      BY WayIs DEF Steps
  <2> QED
      BY <2>1, <2>2, <2>3
<1>3. IsTree(u, elements \cup {e}, given) /\ IsPlaced(u, t, e, hash, UpdatedNew(e))
    BY ReadyIs
<1>4. \A p \in DOMAIN u \ Ancestors(e) : u[p].hash = fresh[p]
    BY ReadyFresh
<1> HIDE DEF n, way, u
<1>5. Grounded(DOMAIN u) /\ DOMAIN u \in SUBSET Path
    BY <1>3, GroundedMore DEF IsTree, Grounded
<1>6. \A p \in DOMAIN u : fresh[p] = IF p \in Labels(u) THEN u[p].manual
                                     ELSE Digest(p, Children(u, p), fresh)
    BY <1>5, FreshIs
<1> HIDE DEF fresh
<1>7. g[0] = u /\ \A i \in 0..n : /\ IsTree(g[i], elements \cup {e}, given)
                                  /\ DOMAIN g[i] = DOMAIN u
                                  /\ \A p \in DOMAIN u : g[i][p].manual = u[p].manual
    BY <1>1, <1>3 DEF AreUpdates, AreTrees, IsTree
<1> DEFINE Left(i) == {p \in Ancestors(e) : Len(p) < n - i}
           S == {i \in Nat : i <= n =>
                    /\ \A p \in DOMAIN u \ Left(i) : g[i][p].hash = fresh[p]
                    /\ \A p \in Left(i) : g[i][p] = u[p]}
<1>8. \A p \in Ancestors(e) : p \in DOMAIN u /\ u[p].dirty /\ Len(p) \in Nat /\ Len(p) < Len(e)
  <2>1. \A p \in Ancestors(e) : p \in Path /\ Len(p) < Len(e)
      BY AncestorIs
  <2>2. \A p \in Ancestors(e) : p \in DOMAIN u /\ u[p].dirty
      BY <1>3 DEF IsPlaced, PathsOf
  <2> QED
      BY <2>1, <2>2, LenProperties DEF Path
<1>9. 0 \in S
  <2>1. Left(0) = Ancestors(e)
      BY <1>2, <1>8
  <2> QED
      BY <1>4, <1>7, <2>1
<1>10. ASSUME NEW i \in Nat, i \in S
       PROVE  i + 1 \in S
  <2>1. SUFFICES ASSUME i + 1 <= n
                 PROVE  /\ \A p \in DOMAIN u \ Left(i + 1) : g[i + 1][p].hash = fresh[p]
                        /\ \A p \in Left(i + 1) : g[i + 1][p] = u[p]
      OBVIOUS
  <2> DEFINE q == way[i + 1]
             v == g[i]
             w == g[i + 1]
  <2>2. i \in 0..n /\ i + 1 \in 1..n /\ i + 1 \in 0..n /\ (i + 1) - 1 = i
      BY <1>2, <2>1
  <2>3. q = SubSeq(e, 1, n - (i + 1)) /\ Len(q) = n - (i + 1) /\ q \in PathsOf({e})
      BY <1>2, <2>2
  <2>4. q \in DOMAIN u
      BY <1>3, <2>3 DEF IsPlaced
  <2>5. /\ IsTree(v, elements \cup {e}, given) /\ DOMAIN v = DOMAIN u
        /\ \A p \in DOMAIN u : v[p].manual = u[p].manual
        /\ \A p \in DOMAIN u \ Left(i) : v[p].hash = fresh[p]
        /\ \A p \in Left(i) : v[p] = u[p]
    <3>1. /\ IsTree(g[i], elements \cup {e}, given) /\ DOMAIN g[i] = DOMAIN u
          /\ \A p \in DOMAIN u : g[i][p].manual = u[p].manual
        BY <1>7, <2>2
    <3>2. i <= n
        BY <2>2
    <3>3. /\ \A p \in DOMAIN u \ Left(i) : g[i][p].hash = fresh[p]
          /\ \A p \in Left(i) : g[i][p] = u[p]
        BY <1>10, <3>2
    <3> QED
        BY <3>1, <3>3
  <2>6. w = UpdateHash(v, q)
      BY <1>1, <2>2 DEF AreUpdates
  <2> HIDE DEF q, v, w
  <2>7. IsHashed(w, v, q)
      BY <2>4, <2>5, <2>6, UpdatedIs
  <2>8. ASSUME NEW p \in Ancestors(e), Len(p) = Len(q)
        PROVE  p = q
    <3>1. PICK j \in 0..(Len(e) - 1) : p = SubSeq(e, 1, j)
        BY DEF Ancestors
    <3>2. Len(p) = j
        BY <1>2, <3>1, Segment
    <3> QED
        BY <2>3, <2>8, <3>1, <3>2
  <2>9. w[q].hash = fresh[q]
    <3>1. CASE v[q].manual # NoHash
        BY <1>6, <2>4, <2>5, <2>7, <3>1 DEF IsHashed, Labels
    <3>2. CASE v[q].manual = NoHash /\ v[q].dirty
      <4> DEFINE hashes == [c \in Children(v, q) |-> v[c].hash]
      <4>1. Children(v, q) = Children(u, q)
          BY <2>5 DEF Children
      <4>2. ASSUME NEW c \in Children(u, q)
            PROVE  hashes[c] = fresh[c]
        <5>1. c \in DOMAIN u /\ Len(c) = Len(q) + 1
            BY DEF Children, ChildrenIn
        <5>2. ~(Len(c) < n - i)
            BY <1>2, <2>2, <2>3, <5>1
        <5> QED
            BY <2>5, <4>1, <5>1, <5>2
      <4> HIDE DEF hashes
      <4>3. Digest(q, Children(u, q), hashes) = Digest(q, Children(u, q), fresh)
          BY <4>2, DigestSame
      <4>4. w[q].hash = Digest(q, Children(v, q), hashes)
          BY <2>7, <3>2 DEF IsHashed, hashes
      <4>5. q \notin Labels(u)
          BY <2>4, <2>5, <3>2 DEF Labels
      <4> QED
          BY <1>6, <2>4, <4>1, <4>3, <4>4, <4>5
    <3>3. CASE v[q].manual = NoHash /\ ~v[q].dirty
      <4>1. w[q].hash = v[q].hash
          BY <2>7, <3>3 DEF IsHashed
      <4>2. q \notin Left(i)
          BY <1>8, <2>5, <3>3
      <4> QED
          BY <2>4, <2>5, <4>1, <4>2
    <3> QED
        BY <3>1, <3>2, <3>3
  <2>10. ASSUME NEW p
         PROVE  p \in Left(i + 1) <=> p \in Left(i) /\ p # q
    <3>1. CASE p \in Ancestors(e)
      <4>1. Len(p) \in Nat /\ (p = q <=> Len(p) = n - (i + 1))
          BY <1>8, <2>3, <2>8, <3>1
      <4>2. n \in Nat /\ i \in Nat
          BY <1>2
      <4>3. Len(p) < n - (i + 1) <=> Len(p) < n - i /\ Len(p) # n - (i + 1)
          BY <4>1, <4>2
      <4>4. /\ p \in Left(i + 1) <=> Len(p) < n - (i + 1)
            /\ p \in Left(i) <=> Len(p) < n - i
          BY <3>1
      <4> QED
          BY <4>1, <4>3, <4>4
    <3>2. CASE p \notin Ancestors(e)
        BY <3>2
    <3> QED
        BY <3>1, <3>2
  <2> HIDE DEF Left
  <2>11. ASSUME NEW p \in DOMAIN u \ Left(i + 1)
         PROVE  w[p].hash = fresh[p]
      BY <2>5, <2>7, <2>9, <2>10 DEF IsHashed
  <2>12. ASSUME NEW p \in Left(i + 1)
         PROVE  w[p] = u[p]
    <3>1. p \in Left(i) /\ p # q /\ p \in DOMAIN u
        BY <1>8, <2>10 DEF Left
    <3> QED
        BY <2>5, <2>7, <3>1 DEF IsHashed
  <2> QED
      BY <2>11, <2>12 DEF w
<1> HIDE DEF S
<1>11. n \in S
    BY <1>2, <1>9, <1>10, NatInductionSet
<1>12. Left(n) = {}
    BY <1>2, <1>8
<1>13. \A p \in DOMAIN u : g[n][p].hash = fresh[p]
    BY <1>2, <1>11, <1>12 DEF S
<1>14. DOMAIN g[n] = DOMAIN u /\ \A p \in DOMAIN u : g[n][p].manual = u[p].manual
    BY <1>2, <1>7
<1>15. \A p \in DOMAIN u : FreshHashes(g[n])[p] = fresh[p]
    BY <1>5, <1>14, FreshSame DEF fresh
<1>16. \A p \in DOMAIN g[n] : g[n][p].hash = FreshHashes(g[n])[p]
    BY <1>13, <1>14, <1>15
<1> QED
    BY <1>1, <1>16 DEF Fresh, Stale

-----------------------------------------------------------------------------
(***************************************************************************)
(* Staleness.                                                              *)
(***************************************************************************)
LEMMA FreshIsSound == \A t : Fresh(t) => Sound(t)
BY DEF Fresh, Sound

LEMMA MixingStep ==
    ASSUME TypeInv, [Next]_vars, Sound(tree)
    PROVE  Sound(tree') \/ (Updating /\ ~Fresh(tree))
<1>1. content \in SUBSET Path /\ Grounded(DOMAIN tree) /\ IsTree(tree, content, Hashes)
    BY TypeFacts DEF TypeInv
<1>2. ASSUME NEW e \in Elements, NEW hash \in Hashes \cup {NoHash}
      PROVE  /\ Sound(Deferred(tree, e, hash))
             /\ Fresh(tree) => Sound(Direct(tree, e, hash))
  <2>1. e \in Path \ {Root}
      BY ElementsArePaths
  <2> QED
      BY <1>1, <2>1, DeferredSound, DirectFresh, FreshIsSound
<1>3. ASSUME NEW e \in Elements, Insert(e)
      PROVE  Sound(tree')
    BY <1>2, <1>3 DEF Insert, Deferred
<1>4. ASSUME NEW e \in Labelled, NEW hash \in Hashes, InsertWithHash(e, hash)
      PROVE  Sound(tree')
    BY <1>2, <1>4, ElementsArePaths DEF InsertWithHash, Deferred
<1>5. ASSUME NEW e \in Elements, InsertUpdate(e), Fresh(tree)
      PROVE  Sound(tree')
    BY <1>2, <1>5 DEF InsertUpdate, Direct
<1>6. ASSUME NEW e \in Labelled, NEW hash \in Hashes, InsertWithHashUpdate(e, hash), Fresh(tree)
      PROVE  Sound(tree')
    BY <1>2, <1>6, ElementsArePaths DEF InsertWithHashUpdate, Direct
<1>7. ASSUME Rehash
      PROVE  Sound(tree')
    BY <1>1, <1>7, RehashedFresh, FreshIsSound DEF Rehash
<1>8. CASE UNCHANGED vars
  <2>1. tree' = tree
      BY <1>8 DEF vars
  <2> QED
      BY <2>1
<1>9. CASE Updating
    BY <1>5, <1>6, <1>9 DEF Updating
<1> QED
    BY <1>3, <1>4, <1>7, <1>8, <1>9 DEF Next

(* Whatever the elements, the hashes given and the order of the inserts: as *)
(* long as no updating insert meets a node that awaits a rehash, every node *)
(* whose hash does not cover what is below it is dirty, and the next rehash *)
(* finds it.  (sync.rs, insert, update_hash and rehash.)                    *)
THEOREM StaleOnlyAfterMixing == Spec => StaleOnlyByMixing
<1>1. TypeInv /\ [Next]_vars => [Sound(tree) => Sound(tree') \/ (Updating /\ ~Fresh(tree))]_vars
    BY MixingStep
<1> QED
    BY <1>1, TypeInvariant, PTL DEF Spec, StaleOnlyByMixing

-----------------------------------------------------------------------------
(***************************************************************************)
(* Differences: where one set of paths ends and the other goes on, at and  *)
(* below a path of both.                                                   *)
(***************************************************************************)
TopsBelow(paths, other, p) == {q \in Tops(paths, other) : IsPrefix(p, q)}
Below(paths, other, p) ==
    {MissingOther(q) : q \in TopsBelow(paths, other, p)}
    \cup {MissingSelf(q) : q \in TopsBelow(other, paths, p)}

LEMMA TopsBelowIs ==
    ASSUME NEW paths \in SUBSET Path, NEW other \in SUBSET Path, Closed(paths), Closed(other),
           NEW p \in paths \cap other
    PROVE  TopsBelow(paths, other, p) =
               (ChildrenIn(paths, p) \ other)
               \cup UNION {TopsBelow(paths, other, c) : c \in ChildrenIn(paths \cap other, p)}
<1>1. ASSUME NEW q \in TopsBelow(paths, other, p)
      PROVE  \/ q \in ChildrenIn(paths, p) \ other
             \/ \E c \in ChildrenIn(paths \cap other, p) : q \in TopsBelow(paths, other, c)
  <2>1. /\ q \in paths /\ q \notin other /\ IsPrefix(p, q) /\ p # q /\ Ancestors(q) \subseteq other
        /\ q \in Tops(paths, other)
      BY DEF TopsBelow, Tops
  <2>2. PICK c \in {q} \cup Ancestors(q) :
            c \in Path /\ Len(c) = Len(p) + 1 /\ IsPrefix(p, c) /\ IsPrefix(c, q)
      BY <2>1, ChildTowards
  <2>3. CASE c = q
      BY <2>1, <2>2, <2>3 DEF ChildrenIn
  <2>4. CASE c \in Ancestors(q)
    <3>1. c \in paths \cap other
        BY <2>1, <2>4 DEF Closed
    <3>2. c \in ChildrenIn(paths \cap other, p)
        BY <2>2, <3>1 DEF ChildrenIn
    <3> QED
        BY <2>1, <2>2, <3>2 DEF TopsBelow
  <2> QED
      BY <2>3, <2>4
<1>2. ASSUME NEW q \in ChildrenIn(paths, p) \ other
      PROVE  q \in TopsBelow(paths, other, p)
  <2>1. q \in paths /\ IsPrefix(p, q) /\ Ancestors(q) = {p} \cup Ancestors(p)
      BY ChildIs
  <2>2. Ancestors(q) \subseteq other
      BY <2>1 DEF Closed
  <2> QED
      BY <2>1, <2>2 DEF TopsBelow, Tops
<1>3. ASSUME NEW c \in ChildrenIn(paths \cap other, p), NEW q \in TopsBelow(paths, other, c)
      PROVE  q \in TopsBelow(paths, other, p)
  <2>1. c \in Path /\ q \in Path /\ IsPrefix(p, c) /\ IsPrefix(c, q) /\ q \in Tops(paths, other)
      BY DEF ChildrenIn, TopsBelow, Tops
  <2>2. IsPrefix(p, q)
      BY <2>1, PrefixOrder
  <2> QED
      BY <2>1, <2>2 DEF TopsBelow
<1>4. ASSUME NEW q
      PROVE  q \in TopsBelow(paths, other, p) <=>
               \/ q \in ChildrenIn(paths, p) \ other
               \/ \E c \in ChildrenIn(paths \cap other, p) : q \in TopsBelow(paths, other, c)
    BY <1>1, <1>2, <1>3
<1> QED
    BY <1>4, Zenon

LEMMA BelowIs ==
    ASSUME NEW paths \in SUBSET Path, NEW other \in SUBSET Path, Closed(paths), Closed(other),
           NEW p \in paths \cap other
    PROVE  Below(paths, other, p) =
               {MissingOther(q) : q \in ChildrenIn(paths, p) \ other}
               \cup {MissingSelf(q) : q \in ChildrenIn(other, p) \ paths}
               \cup UNION {Below(paths, other, c) : c \in ChildrenIn(paths \cap other, p)}
<1> DEFINE kids == ChildrenIn(paths \cap other, p)
<1>1. TopsBelow(paths, other, p) =
          (ChildrenIn(paths, p) \ other) \cup UNION {TopsBelow(paths, other, c) : c \in kids}
    BY TopsBelowIs
<1>2. TopsBelow(other, paths, p) =
          (ChildrenIn(other, p) \ paths) \cup UNION {TopsBelow(other, paths, c) : c \in kids}
  <2>1. other \cap paths = paths \cap other /\ p \in other \cap paths
      OBVIOUS
  <2>2. TopsBelow(other, paths, p) =
            (ChildrenIn(other, p) \ paths)
            \cup UNION {TopsBelow(other, paths, c) : c \in ChildrenIn(other \cap paths, p)}
      BY <2>1, TopsBelowIs
  <2> QED
      BY <2>1, <2>2
<1> HIDE DEF kids
<1>3. ASSUME NEW d
      PROVE  d \in Below(paths, other, p) <=>
                \/ \E q \in ChildrenIn(paths, p) \ other : d = MissingOther(q)
                \/ \E q \in ChildrenIn(other, p) \ paths : d = MissingSelf(q)
                \/ \E c \in kids : d \in Below(paths, other, c)
  <2>1. ASSUME NEW q
        PROVE  /\ q \in TopsBelow(paths, other, p) <=>
                     \/ q \in ChildrenIn(paths, p) \ other
                     \/ \E c \in kids : q \in TopsBelow(paths, other, c)
               /\ q \in TopsBelow(other, paths, p) <=>
                     \/ q \in ChildrenIn(other, p) \ paths
                     \/ \E c \in kids : q \in TopsBelow(other, paths, c)
      BY <1>1, <1>2, Zenon
  <2>2. ASSUME NEW c
        PROVE  d \in Below(paths, other, c) <=>
                  \/ \E q \in TopsBelow(paths, other, c) : d = MissingOther(q)
                  \/ \E q \in TopsBelow(other, paths, c) : d = MissingSelf(q)
      BY Zenon DEF Below
  <2>3. ASSUME d \in Below(paths, other, p)
        PROVE  \/ \E q \in ChildrenIn(paths, p) \ other : d = MissingOther(q)
               \/ \E q \in ChildrenIn(other, p) \ paths : d = MissingSelf(q)
               \/ \E c \in kids : d \in Below(paths, other, c)
      BY <2>1, <2>2, <2>3, Zenon
  <2>4. ASSUME NEW q \in ChildrenIn(paths, p) \ other, d = MissingOther(q)
        PROVE  d \in Below(paths, other, p)
      BY <2>1, <2>2, <2>4
  <2>5. ASSUME NEW q \in ChildrenIn(other, p) \ paths, d = MissingSelf(q)
        PROVE  d \in Below(paths, other, p)
      BY <2>1, <2>2, <2>5
  <2>6. ASSUME NEW c \in kids, d \in Below(paths, other, c)
        PROVE  d \in Below(paths, other, p)
      BY <2>1, <2>2, <2>6, Zenon
  <2> QED
      BY <2>3, <2>4, <2>5, <2>6, Zenon
<1> QED
    BY <1>3, Zenon DEF kids

LEMMA BelowRoot ==
    ASSUME NEW paths \in SUBSET Path, NEW other \in SUBSET Path
    PROVE  Below(paths, other, Root) = Differences(paths, other)
<1>1. \A q \in Path : IsPrefix(Root, q)
    BY RootAbove
<1>2. /\ TopsBelow(paths, other, Root) = Tops(paths, other)
      /\ TopsBelow(other, paths, Root) = Tops(other, paths)
    BY <1>1 DEF TopsBelow, Tops
<1> QED
    BY <1>2 DEF Below, Differences

(***************************************************************************)
(* What diff computes.                                                     *)
(***************************************************************************)
Differing(t, other, p) == {q \in Children(t, p) \cap DOMAIN other : t[q].hash # other[q].hash}
Shown(at, t, other, p) ==
    {MissingOther(q) : q \in Children(t, p) \ DOMAIN other}
    \cup {MissingSelf(q) : q \in Children(other, p) \ DOMAIN t}
    \cup UNION {IF at[q] = {} THEN {HashMismatch(q)} ELSE at[q] : q \in Differing(t, other, p)}
IsShown(at, t, other, paths) == at = [p \in paths |-> Shown(at, t, other, p)]

LEMMA DifferingIs ==
    ASSUME NEW t, NEW other, NEW p
    PROVE  Differing(t, other, p) \subseteq ChildrenIn(DOMAIN t \cap DOMAIN other, p)
BY DEF Differing, Children, ChildrenIn

LEMMA ShownSame ==
    ASSUME NEW t, NEW other, NEW p, NEW f, NEW g,
           \A q \in ChildrenIn(DOMAIN t \cap DOMAIN other, p) : f[q] = g[q]
    PROVE  Shown(f, t, other, p) = Shown(g, t, other, p)
<1>1. \A q \in Differing(t, other, p) : f[q] = g[q]
    BY DifferingIs
<1>2. {IF f[q] = {} THEN {HashMismatch(q)} ELSE f[q] : q \in Differing(t, other, p)} =
      {IF g[q] = {} THEN {HashMismatch(q)} ELSE g[q] : q \in Differing(t, other, p)}
    BY <1>1
<1> QED
    BY <1>2 DEF Shown

LEMMA ShownExists ==
    ASSUME NEW t, NEW other, Grounded(DOMAIN t \cap DOMAIN other)
    PROVE  \E at : IsShown(at, t, other, DOMAIN t \cap DOMAIN other)
<1> DEFINE paths == DOMAIN t \cap DOMAIN other
<1>1. PICK d \in Nat : \A p \in paths : Len(p) <= d
    BY DEF Grounded
<1>2. \A p \in paths : p \in Path /\ Len(p) \in Nat
    BY LenProperties DEF Grounded, Path
<1>3. \A p, f, g : (\A q \in ChildrenIn(paths, p) : f[q] = g[q])
                        => Shown(f, t, other, p) = Shown(g, t, other, p)
    BY ShownSame
<1> HIDE DEF paths
<1> DEFINE Deep(n) == {p \in paths : d < Len(p) + n}
           N == {n \in Nat : \E at : IsShown(at, t, other, Deep(n))}
<1>4. 0 \in N
  <2> DEFINE f == [p \in {} |-> {}]
  <2>1. Deep(0) = {}
      BY <1>1, <1>2
  <2> HIDE DEF Deep
  <2>2. IsShown(f, t, other, Deep(0))
      BY <2>1 DEF IsShown
  <2> QED
      BY <2>2
<1>5. ASSUME NEW n \in Nat, n \in N
      PROVE  n + 1 \in N
  <2>1. PICK f : IsShown(f, t, other, Deep(n))
      BY <1>5
  <2> DEFINE g == [p \in Deep(n + 1) |-> Shown(f, t, other, p)]
  <2>2. ASSUME NEW p \in Deep(n + 1)
        PROVE  Shown(f, t, other, p) = Shown(g, t, other, p)
    <3>1. ASSUME NEW q \in ChildrenIn(paths, p)
          PROVE  f[q] = g[q]
      <4>1. q \in paths /\ Len(q) = Len(p) + 1
          BY DEF ChildrenIn
      <4>2. q \in Deep(n) /\ q \in Deep(n + 1)
          BY <1>2, <4>1
      <4> HIDE DEF Deep
      <4> QED
          BY <2>1, <4>2 DEF IsShown
    <3> HIDE DEF g
    <3> QED
        BY <1>3, <3>1
  <2>3. IsShown(g, t, other, Deep(n + 1))
    <3> HIDE DEF Deep
    <3>1. g = [p \in Deep(n + 1) |-> g[p]] /\ \A p \in Deep(n + 1) : g[p] = Shown(g, t, other, p)
        BY <2>2
    <3> HIDE DEF g
    <3> QED
        BY <3>1 DEF IsShown
  <2> HIDE DEF g, Deep
  <2> QED
      BY <2>3
<1> HIDE DEF N
<1>6. \A n \in Nat : n \in N
    BY <1>4, <1>5, NatInductionSet
<1>7. d + 1 \in N
    BY <1>6
<1>8. PICK at : IsShown(at, t, other, Deep(d + 1))
    BY <1>7 DEF N
<1>9. Deep(d + 1) = paths
    BY <1>2
<1> QED
    BY <1>8, <1>9 DEF paths

LEMMA DiffIs ==
    ASSUME NEW t, NEW other, Grounded(DOMAIN t \cap DOMAIN other)
    PROVE  \E at : /\ IsShown(at, t, other, DOMAIN t \cap DOMAIN other)
                   /\ Diff(t, other) = at[Root]
<1> DEFINE at == CHOOSE f : IsShown(f, t, other, DOMAIN t \cap DOMAIN other)
<1>1. IsShown(at, t, other, DOMAIN t \cap DOMAIN other)
    BY ShownExists
<1>2. Diff(t, other) = at[Root]
    BY DEF Diff, IsShown, Shown, Differing
<1> QED
    BY <1>1, <1>2

(* A mismatch aside, a diff shows nothing that is not there.                *)
ArePaths(paths) == paths \in SUBSET Path /\ Closed(paths) /\ Grounded(paths) /\ Root \in paths

LEMMA DiffInventsNothing ==
    ASSUME NEW t, NEW other, ArePaths(DOMAIN t), ArePaths(DOMAIN other)
    PROVE  {d \in Diff(t, other) : d.diff # "HashMismatch"} \subseteq
               Differences(DOMAIN t, DOMAIN other)
<1> DEFINE both == DOMAIN t \cap DOMAIN other
<1>1. /\ DOMAIN t \in SUBSET Path /\ Closed(DOMAIN t)
      /\ DOMAIN other \in SUBSET Path /\ Closed(DOMAIN other)
      /\ Grounded(both) /\ Root \in both
    BY GroundedSubset DEF ArePaths
<1>2. PICK at : IsShown(at, t, other, both) /\ Diff(t, other) = at[Root]
    BY <1>1, DiffIs
<1> DEFINE S == {p \in both : \A d \in at[p] : \/ d.diff = "HashMismatch"
                                              \/ d \in Below(DOMAIN t, DOMAIN other, p)}
<1>3. ASSUME NEW p \in both, ChildrenIn(both, p) \subseteq S
      PROVE  p \in S
  <2>1. SUFFICES ASSUME NEW d \in Shown(at, t, other, p), d.diff # "HashMismatch"
                 PROVE  d \in Below(DOMAIN t, DOMAIN other, p)
      BY <1>2 DEF IsShown
  <2>2. Below(DOMAIN t, DOMAIN other, p) =
            {MissingOther(q) : q \in Children(t, p) \ DOMAIN other}
            \cup {MissingSelf(q) : q \in Children(other, p) \ DOMAIN t}
            \cup UNION {Below(DOMAIN t, DOMAIN other, c) : c \in ChildrenIn(both, p)}
      BY <1>1, BelowIs DEF Children
  <2>3. \/ d \in {MissingOther(q) : q \in Children(t, p) \ DOMAIN other}
        \/ d \in {MissingSelf(q) : q \in Children(other, p) \ DOMAIN t}
        \/ \E q \in Differing(t, other, p) :
              d \in (IF at[q] = {} THEN {HashMismatch(q)} ELSE at[q])
      BY <2>1, Zenon DEF Shown
  <2>4. ASSUME NEW q \in Differing(t, other, p),
               d \in (IF at[q] = {} THEN {HashMismatch(q)} ELSE at[q])
        PROVE  d \in Below(DOMAIN t, DOMAIN other, p)
    <3>1. q \in ChildrenIn(both, p) /\ q \in S
        BY <1>3, DifferingIs
    <3>2. at[q] # {}
        BY <2>1, <2>4 DEF HashMismatch
    <3>3. d \in Below(DOMAIN t, DOMAIN other, q)
        BY <2>1, <2>4, <3>1, <3>2
    <3> QED
        BY <2>2, <3>1, <3>3, Zenon
  <2> QED
      BY <2>2, <2>3, <2>4, Zenon
<1> HIDE DEF S
<1>4. both \subseteq S
    BY <1>1, <1>3, FromBelow
<1>5. Below(DOMAIN t, DOMAIN other, Root) = Differences(DOMAIN t, DOMAIN other)
    BY <1>1, BelowRoot
<1> QED
    BY <1>1, <1>2, <1>4, <1>5 DEF S

(* Equal digests, equal children, equal digests of these: between trees     *)
(* that are hashed and hold no hash of the caller's, two nodes' hashes are  *)
(* equal exactly if the same is below them.                                 *)
LEMMA DigestTells ==
    ASSUME NEW p, NEW kids, NEW f, NEW q, NEW other, NEW g
    PROVE  /\ Fed(Digest(p, kids, f)) = Digest(p, kids, f)
           /\ Digest(p, kids, f) = Digest(q, other, g) =>
                 /\ Value(p) = Value(q)
                 /\ {<<Place(kids, c), Fed(f[c])>> : c \in kids} =
                    {<<Place(other, c), Fed(g[c])>> : c \in other}
<1>1. "lo" \notin DOMAIN Digest(p, kids, f)
    BY DEF Digest
<1>2. Fed(Digest(p, kids, f)) = Digest(p, kids, f)
    BY <1>1 DEF Fed
<1>3. /\ Digest(p, kids, f).value = Value(p) /\ Digest(q, other, g).value = Value(q)
      /\ Digest(p, kids, f).kids = {<<Place(kids, c), Fed(f[c])>> : c \in kids}
      /\ Digest(q, other, g).kids = {<<Place(other, c), Fed(g[c])>> : c \in other}
    BY DEF Digest
<1> QED
    BY <1>2, <1>3, Zenon

Plain(t) == Fresh(t) /\ Labels(t) = {}

LEMMA PlainHash ==
    ASSUME NEW t, ArePaths(DOMAIN t), Plain(t), NEW p \in DOMAIN t
    PROVE  /\ t[p].hash = FreshHashes(t)[p]
           /\ t[p].hash = Digest(p, Children(t, p), FreshHashes(t))
BY FreshIs DEF Plain, Fresh, Stale, ArePaths

(* What an equal digest says of one child. *)
LEMMA ChildTells ==
    ASSUME NEW t, NEW other, ArePaths(DOMAIN t), ArePaths(DOMAIN other), Plain(t), Plain(other),
           NEW p \in DOMAIN t \cap DOMAIN other, t[p].hash = other[p].hash, NEW q \in Children(t, p)
    PROVE  q \in Children(other, p) /\ other[q].hash = t[q].hash
<1> DEFINE ft == FreshHashes(t)
           fo == FreshHashes(other)
           kt == Children(t, p)
           ko == Children(other, p)
<1>1. {<<Place(kt, c), Fed(ft[c])>> : c \in kt} = {<<Place(ko, c), Fed(fo[c])>> : c \in ko}
  <2>1. Digest(p, kt, ft) = Digest(p, ko, fo)
      BY PlainHash
  <2> QED
      BY <2>1, DigestTells
<1> HIDE DEF ft, fo, kt, ko
<1>2. PICK c \in ko : <<Place(kt, q), Fed(ft[q])>> = <<Place(ko, c), Fed(fo[c])>>
    BY <1>1 DEF kt
<1>3. Fed(ft[q]) = Fed(fo[c])
    BY <1>2
<1>4. q \in DOMAIN t /\ c \in DOMAIN other
    BY DEF kt, ko, Children, ChildrenIn
<1>5. /\ t[q].hash = ft[q] /\ t[q].hash = Digest(q, Children(t, q), ft)
      /\ other[c].hash = fo[c] /\ other[c].hash = Digest(c, Children(other, c), fo)
    BY <1>4, PlainHash DEF ft, fo
<1>6. Digest(q, Children(t, q), ft) = Digest(c, Children(other, c), fo)
    BY <1>3, <1>5, DigestTells
<1>7. Value(q) = Value(c)
    BY <1>6, DigestTells
<1>8. /\ p \in Path /\ q \in Path /\ c \in Path
      /\ Len(q) = Len(p) + 1 /\ IsPrefix(p, q) /\ Len(c) = Len(p) + 1 /\ IsPrefix(p, c)
    BY <1>4 DEF ko, Children, ChildrenIn, ArePaths
<1>9. q = c
    BY <1>7, <1>8, SiblingsDiffer
<1> QED
    BY <1>5, <1>6, <1>9 DEF ko

LEMMA HashTells ==
    ASSUME NEW t, NEW other, ArePaths(DOMAIN t), ArePaths(DOMAIN other), Plain(t), Plain(other)
    PROVE  \A p \in DOMAIN t \cap DOMAIN other :
               t[p].hash = other[p].hash <=> Below(DOMAIN t, DOMAIN other, p) = {}
<1> DEFINE both == DOMAIN t \cap DOMAIN other
           below(p) == Below(DOMAIN t, DOMAIN other, p)
           S == {p \in both : t[p].hash = other[p].hash <=> below(p) = {}}
<1>1. /\ DOMAIN t \in SUBSET Path /\ Closed(DOMAIN t)
      /\ DOMAIN other \in SUBSET Path /\ Closed(DOMAIN other)
      /\ Grounded(both)
    BY GroundedSubset DEF ArePaths
<1>2. ASSUME NEW p \in both, ChildrenIn(both, p) \subseteq S
      PROVE  p \in S
  <2>1. below(p) = {MissingOther(q) : q \in Children(t, p) \ DOMAIN other}
                   \cup {MissingSelf(q) : q \in Children(other, p) \ DOMAIN t}
                   \cup UNION {below(c) : c \in ChildrenIn(both, p)}
      BY <1>1, BelowIs DEF Children
  <2>2. \A c \in ChildrenIn(both, p) : t[c].hash = other[c].hash <=> below(c) = {}
      BY <1>2
  <2> HIDE DEF below, S
  <2>3. ChildrenIn(both, p) = Children(t, p) \cap Children(other, p)
      BY DEF Children, ChildrenIn
  <2>4. Children(t, p) \subseteq DOMAIN t /\ Children(other, p) \subseteq DOMAIN other
      BY DEF Children, ChildrenIn
  <2>5. ASSUME t[p].hash = other[p].hash
        PROVE  below(p) = {}
    <3>1. \A q \in Children(t, p) : q \in Children(other, p) /\ t[q].hash = other[q].hash
        BY <2>5, ChildTells
    <3>2. \A q \in Children(other, p) : q \in Children(t, p)
        BY <2>5, ChildTells
    <3>3. Children(t, p) \ DOMAIN other = {} /\ Children(other, p) \ DOMAIN t = {}
        BY <2>4, <3>1, <3>2
    <3>4. \A c \in ChildrenIn(both, p) : below(c) = {}
        BY <2>2, <2>3, <3>1
    <3> QED
        BY <2>1, <3>3, <3>4
  <2>6. ASSUME below(p) = {}
        PROVE  t[p].hash = other[p].hash
    <3>1. \A q \in Children(t, p) : q \in DOMAIN other
      <4>1. ASSUME NEW q \in Children(t, p) \ DOMAIN other
            PROVE  FALSE
        <5>1. MissingOther(q) \in below(p)
            BY <2>1
        <5> QED
            BY <2>6, <5>1
      <4> QED
          BY <4>1
    <3>2. \A q \in Children(other, p) : q \in DOMAIN t
      <4>1. ASSUME NEW q \in Children(other, p) \ DOMAIN t
            PROVE  FALSE
        <5>1. MissingSelf(q) \in below(p)
            BY <2>1
        <5> QED
            BY <2>6, <5>1
      <4> QED
          BY <4>1
    <3>3. Children(t, p) = ChildrenIn(both, p) /\ Children(other, p) = ChildrenIn(both, p)
        BY <3>1, <3>2 DEF Children, ChildrenIn
    <3>4. ASSUME NEW c \in ChildrenIn(both, p)
          PROVE  FreshHashes(t)[c] = FreshHashes(other)[c]
      <4>1. below(c) = {}
          BY <2>1, <2>6
      <4>2. t[c].hash = other[c].hash /\ c \in DOMAIN t /\ c \in DOMAIN other
          BY <2>2, <4>1 DEF ChildrenIn
      <4> QED
          BY <4>2, PlainHash
    <3>5. Digest(p, ChildrenIn(both, p), FreshHashes(t)) =
          Digest(p, ChildrenIn(both, p), FreshHashes(other))
        BY <3>4, DigestSame
    <3> QED
        BY <3>3, <3>5, PlainHash
  <2> QED
      BY <2>5, <2>6 DEF S
<1> HIDE DEF S
<1>3. both \subseteq S
    BY <1>1, <1>2, FromBelow
<1> QED
    BY <1>3 DEF S

(* So that a diff of such trees finds what is there.                        *)
LEMMA DiffFindsAll ==
    ASSUME NEW t, NEW other, ArePaths(DOMAIN t), ArePaths(DOMAIN other), Plain(t), Plain(other)
    PROVE  Diff(t, other) = Differences(DOMAIN t, DOMAIN other)
<1> DEFINE both == DOMAIN t \cap DOMAIN other
           below(p) == Below(DOMAIN t, DOMAIN other, p)
<1>1. /\ DOMAIN t \in SUBSET Path /\ Closed(DOMAIN t)
      /\ DOMAIN other \in SUBSET Path /\ Closed(DOMAIN other)
      /\ Grounded(both) /\ Root \in both
    BY GroundedSubset DEF ArePaths
<1>2. PICK at : IsShown(at, t, other, both) /\ Diff(t, other) = at[Root]
    BY <1>1, DiffIs
<1> DEFINE S == {p \in both : at[p] = below(p)}
<1>3. ASSUME NEW p \in both, ChildrenIn(both, p) \subseteq S
      PROVE  p \in S
  <2>1. below(p) = {MissingOther(q) : q \in Children(t, p) \ DOMAIN other}
                   \cup {MissingSelf(q) : q \in Children(other, p) \ DOMAIN t}
                   \cup UNION {below(c) : c \in ChildrenIn(both, p)}
      BY <1>1, BelowIs DEF Children
  <2>2. \A c \in ChildrenIn(both, p) : at[c] = below(c)
      BY <1>3
  <2> HIDE DEF S
  <2>3. \A c \in ChildrenIn(both, p) :
            /\ c \in Differing(t, other, p) => below(c) # {}
            /\ c \notin Differing(t, other, p) => below(c) = {}
    <3>1. \A c \in ChildrenIn(both, p) : t[c].hash = other[c].hash <=> below(c) = {}
        BY HashTells DEF ChildrenIn
    <3>2. \A c \in ChildrenIn(both, p) : c \in Children(t, p) /\ c \in DOMAIN other
        BY DEF Children, ChildrenIn
    <3> QED
        BY <3>1, <3>2 DEF Differing
  <2>4. Differing(t, other, p) \subseteq ChildrenIn(both, p)
      BY DifferingIs
  <2> HIDE DEF below
  <2>5. UNION {IF at[q] = {} THEN {HashMismatch(q)} ELSE at[q] : q \in Differing(t, other, p)} =
        UNION {below(c) : c \in ChildrenIn(both, p)}
    <3>1. \A q \in Differing(t, other, p) :
              (IF at[q] = {} THEN {HashMismatch(q)} ELSE at[q]) = below(q)
        BY <2>2, <2>3, <2>4
    <3> QED
        BY <2>3, <2>4, <3>1
  <2>6. Shown(at, t, other, p) = below(p)
      BY <2>1, <2>5 DEF Shown
  <2> QED
      BY <1>2, <2>6 DEF IsShown, S
<1> HIDE DEF S
<1>4. both \subseteq S
    BY <1>1, <1>3, FromBelow
<1>5. below(Root) = Differences(DOMAIN t, DOMAIN other)
    BY <1>1, BelowRoot
<1> QED
    BY <1>1, <1>2, <1>4, <1>5 DEF S

-----------------------------------------------------------------------------
(***************************************************************************)
(* What a diff with a plain peer finds.                                    *)
(***************************************************************************)
LEMMA FiniteIsShallow ==
    ASSUME NEW elements, IsFiniteSet(elements), \A e \in elements : Len(e) \in Nat
    PROVE  Shallow(elements)
<1>1. PICK n \in Nat : ExistsBijection(1..n, elements)
    BY FS_NatBijection
<1>2. PICK f \in Bijection(1..n, elements) : TRUE
    BY <1>1 DEF ExistsBijection
<1>3. (\A i \in 1..n : f[i] \in elements) /\ \A e \in elements : \E i \in 1..n : f[i] = e
    BY <1>2 DEF Bijection, Injection, Surjection
<1> DEFINE S == {m \in Nat : m <= n => \E d \in Nat : \A i \in 1..m : Len(f[i]) <= d}
<1>4. 0 \in S
    OBVIOUS
<1>5. ASSUME NEW m \in Nat, m \in S
      PROVE  m + 1 \in S
  <2>1. SUFFICES ASSUME m + 1 <= n
                 PROVE  \E d \in Nat : \A i \in 1..(m + 1) : Len(f[i]) <= d
      OBVIOUS
  <2>2. PICK d \in Nat : \A i \in 1..m : Len(f[i]) <= d
      BY <1>5, <2>1
  <2>3. \A i \in 1..(m + 1) : Len(f[i]) \in Nat
      BY <1>3, <2>1
  <2>4. d + Len(f[m + 1]) \in Nat
      BY <2>3
  <2>5. \A i \in 1..(m + 1) : Len(f[i]) <= d + Len(f[m + 1])
    <3>1. SUFFICES ASSUME NEW i \in 1..(m + 1)
                   PROVE  Len(f[i]) <= d + Len(f[m + 1])
        OBVIOUS
    <3>2. Len(f[i]) \in Nat /\ Len(f[m + 1]) \in Nat
        BY <2>3
    <3>3. i = m + 1 \/ Len(f[i]) <= d
        BY <2>2
    <3> QED
        BY <3>2, <3>3
  <2> QED
      BY <2>4, <2>5
<1> HIDE DEF S
<1>6. n \in S
    BY <1>4, <1>5, NatInductionSet
<1>7. PICK d \in Nat : \A i \in 1..n : Len(f[i]) <= d
    BY <1>6 DEF S
<1> QED
    BY <1>3, <1>7 DEF Shallow

LEMMA ShallowPaths ==
    ASSUME NEW elements \in SUBSET Path, Shallow(elements)
    PROVE  ArePaths(PathsOf(elements))
BY PathsOfElements DEF Shallow, Grounded, ArePaths

Unsorted(elements) == [p \in PathsOf(elements) |-> NewNode(p, FALSE)]

LEMMA UnsortedIs ==
    ASSUME NEW elements \in PeerContents
    PROVE  /\ elements \in SUBSET Path /\ ArePaths(PathsOf(elements))
           /\ DOMAIN Unsorted(elements) = PathsOf(elements)
           /\ \A p \in PathsOf(elements) : Unsorted(elements)[p].manual = NoHash
           /\ \A given : IsTree(Unsorted(elements), elements, given)
           /\ Sound(Unsorted(elements))
<1> DEFINE t == Unsorted(elements)
<1>1. elements \in SUBSET Path /\ IsFiniteSet(elements) /\ \A e \in elements : Len(e) \in Nat
    BY ElementAssumption, ElementsArePaths
<1>2. ArePaths(PathsOf(elements))
    BY <1>1, FiniteIsShallow, ShallowPaths
<1>3. \A p \in PathsOf(elements) : IsNode(t[p]) /\ t[p].manual = NoHash /\ t[p].dirty
    BY NewNodes DEF Unsorted
<1>4. DOMAIN t = PathsOf(elements) /\ t = [p \in DOMAIN t |-> t[p]]
    BY DEF Unsorted
<1> HIDE DEF t
<1>5. ASSUME NEW given
      PROVE  IsTree(t, elements, given)
    BY <1>2, <1>3, <1>4 DEF IsTree, ArePaths
<1>6. Sound(t)
    BY <1>3, <1>4 DEF Sound, Stale
<1> QED
    BY <1>1, <1>2, <1>3, <1>4, <1>5, <1>6 DEF t

LEMMA PlainPeerIs ==
    ASSUME NEW elements \in PeerContents
    PROVE  /\ DOMAIN Peer(elements, Root, NoHash) = PathsOf(elements)
           /\ ArePaths(PathsOf(elements)) /\ Plain(Peer(elements, Root, NoHash))
<1> DEFINE t == Unsorted(elements)
<1>1. /\ elements \in SUBSET Path /\ ArePaths(PathsOf(elements)) /\ DOMAIN t = PathsOf(elements)
      /\ \A p \in DOMAIN t : t[p].manual = NoHash
      /\ IsTree(t, elements, Hashes) /\ Sound(t)
    BY UnsortedIs
<1>2. Peer(elements, Root, NoHash) = Rehashed(t)
    BY DEF Peer, Unsorted
<1> HIDE DEF t
<1>3. IsTree(t, elements, Hashes) /\ Grounded(DOMAIN t)
    BY <1>1 DEF ArePaths
<1>4. Fresh(Rehashed(t))
    BY <1>1, <1>3, RehashedFresh
<1>5. DOMAIN Rehashed(t) = DOMAIN t /\ \A p \in DOMAIN t : Rehashed(t)[p].manual = t[p].manual
  <2>1. elements \in SUBSET Path
      BY <1>1
  <2> QED
      BY <1>3, <2>1, RehashedTree
<1>6. Labels(Rehashed(t)) = {}
    BY <1>1, <1>5 DEF Labels
<1> QED
    BY <1>1, <1>2, <1>4, <1>5, <1>6 DEF Plain

LEMMA TypeShows == TypeInv => DiffExact
<1> SUFFICES ASSUME TypeInv, NEW elements \in PeerContents
             PROVE  LET peer == Peer(elements, Root, NoHash)
                        found == Diff(tree, peer)
                        expected == Differences(DOMAIN tree, DOMAIN peer)
                    IN  /\ {d \in found : d.diff # "HashMismatch"} \subseteq expected
                        /\ Fresh(tree) /\ Labels(tree) = {} => found = expected
    BY DEF DiffExact, PlainPeers
<1>1. ArePaths(DOMAIN tree)
    BY TypeFacts DEF ArePaths, Grounded
<1>2. /\ ArePaths(DOMAIN Peer(elements, Root, NoHash)) /\ Plain(Peer(elements, Root, NoHash))
    BY PlainPeerIs
<1> QED
    BY <1>1, <1>2, DiffInventsNothing, DiffFindsAll DEF Plain

(* For any elements here and at the peer, after any inserts and rehashes:   *)
(* every difference a diff shows, mismatches aside, is one; and where the   *)
(* hashes are up to date and none was the caller's, it shows them all and   *)
(* no mismatch.  (sync.rs, diff; test_tree_diff.)                           *)
THEOREM DiffAlwaysExact == Spec => []DiffExact
BY TypeShows, TypeInvariant, PTL

-----------------------------------------------------------------------------
(***************************************************************************)
(* Given hashes.  A parent is fed a digest whole and a given hash by its   *)
(* low half, which is no digest.                                           *)
(***************************************************************************)
Halves == [hi: Nat, lo: Nat]
IsHalf(hash) == hash \in Halves /\ "lo" \in DOMAIN hash /\ Fed(hash) = [lo |-> hash.lo]
IsDigest(hash, p) == "lo" \notin DOMAIN hash /\ Fed(hash) = hash /\ hash.value = Value(p)
Comparable(t) ==
    /\ ArePaths(DOMAIN t) /\ Fresh(t)
    /\ \A p \in Labels(t) : t[p].manual \in Halves

LEMMA HashIs ==
    ASSUME NEW t, Comparable(t), NEW p \in DOMAIN t
    PROVE  /\ t[p].hash = FreshHashes(t)[p]
           /\ p \in Labels(t) => IsHalf(t[p].hash)
           /\ p \notin Labels(t) =>
                 /\ IsDigest(t[p].hash, p)
                 /\ t[p].hash = Digest(p, Children(t, p), FreshHashes(t))
<1>1. t[p].hash = FreshHashes(t)[p]
    BY DEF Comparable, Fresh, Stale
<1>2. FreshHashes(t)[p] = IF p \in Labels(t) THEN t[p].manual
                          ELSE Digest(p, Children(t, p), FreshHashes(t))
    BY FreshIs DEF Comparable, ArePaths
<1>3. ASSUME NEW hash \in Halves
      PROVE  IsHalf(hash)
    BY DEF Halves, IsHalf, Fed
<1>4. ASSUME NEW kids, NEW f
      PROVE  IsDigest(Digest(p, kids, f), p)
    BY DEF Digest, IsDigest, Fed
<1> QED
    BY <1>1, <1>2, <1>3, <1>4 DEF Comparable

(* A child with another hash, unless in the low half it is the same, gives  *)
(* its parent another hash: no other child can stand in for it.             *)
LEMMA ParentTells ==
    ASSUME NEW t, NEW other, Comparable(t), Comparable(other), NEW x, Labels(other) \subseteq {x},
           NEW a \in DOMAIN t \cap DOMAIN other, a \notin Labels(t) \cup Labels(other),
           NEW p \in Children(t, a) \cap Children(other, a), ~SameLow(t[p].hash, other[p].hash)
    PROVE  ~SameLow(t[a].hash, other[a].hash)
<1> DEFINE ft == FreshHashes(t)
           fo == FreshHashes(other)
           kt == Children(t, a)
           ko == Children(other, a)
<1>1. /\ t[a].hash = Digest(a, kt, ft) /\ other[a].hash = Digest(a, ko, fo)
      /\ "lo" \notin DOMAIN t[a].hash
    BY HashIs DEF IsDigest
<1>2. SUFFICES ASSUME Digest(a, kt, ft) = Digest(a, ko, fo)
               PROVE  FALSE
    BY <1>1 DEF SameLow
<1>3. {<<Place(kt, c), Fed(ft[c])>> : c \in kt} = {<<Place(ko, c), Fed(fo[c])>> : c \in ko}
    BY <1>2, DigestTells
<1>4. /\ \A c \in kt : c \in DOMAIN t /\ t[c].hash = ft[c]
      /\ \A c \in ko : c \in DOMAIN other /\ other[c].hash = fo[c]
    BY HashIs DEF Children, ChildrenIn
<1>5. ASSUME NEW q \in kt, NEW c \in ko, Value(q) = Value(c)
      PROVE  q = c
  <2>1. /\ a \in Path /\ q \in Path /\ c \in Path
        /\ Len(q) = Len(a) + 1 /\ IsPrefix(a, q) /\ Len(c) = Len(a) + 1 /\ IsPrefix(a, c)
      BY DEF Children, ChildrenIn, Comparable, ArePaths
  <2> QED
      BY <1>5, <2>1, SiblingsDiffer
<1>6. p \in kt /\ p \in ko /\ p \in DOMAIN t /\ p \in DOMAIN other
    BY <1>4
<1> HIDE DEF ft, fo, kt, ko
<1>7. CASE p \notin Labels(other)
  <2>1. IsDigest(other[p].hash, p)
      BY <1>6, <1>7, HashIs
  <2>2. PICK c \in kt : <<Place(kt, c), Fed(ft[c])>> = <<Place(ko, p), Fed(fo[p])>>
      BY <1>3, <1>6
  <2>3. Fed(t[c].hash) = other[p].hash
      BY <1>4, <1>6, <2>1, <2>2 DEF IsDigest
  <2>4. c \notin Labels(t)
    <3>1. SUFFICES ASSUME c \in Labels(t)
                   PROVE  FALSE
        OBVIOUS
    <3>2. Fed(t[c].hash) = [lo |-> t[c].hash.lo]
        BY <1>4, <3>1, HashIs DEF IsHalf
    <3> QED
        BY <2>1, <2>3, <3>2 DEF IsDigest
  <2>5. IsDigest(t[c].hash, c)
      BY <1>4, <2>4, HashIs
  <2>6. t[c].hash = other[p].hash /\ Value(c) = Value(p)
      BY <2>1, <2>3, <2>5 DEF IsDigest
  <2>7. c = p
      BY <1>5, <1>6, <2>6
  <2> QED
      BY <2>6, <2>7 DEF SameLow
<1>8. CASE p \in Labels(other)
  <2>1. PICK c \in ko : <<Place(kt, p), Fed(ft[p])>> = <<Place(ko, c), Fed(fo[c])>>
      BY <1>3, <1>6
  <2>2. Fed(t[p].hash) = Fed(other[c].hash)
      BY <1>4, <1>6, <2>1
  <2>3. CASE c = p
    <3>1. IsHalf(other[p].hash)
        BY <1>6, <1>8, HashIs
    <3>2. p \in Labels(t)
      <4>1. SUFFICES ASSUME p \notin Labels(t)
                     PROVE  FALSE
          OBVIOUS
      <4>2. IsDigest(t[p].hash, p)
          BY <1>6, <4>1, HashIs
      <4> QED
          BY <2>2, <2>3, <3>1, <4>2 DEF IsDigest, IsHalf
    <3>3. IsHalf(t[p].hash)
        BY <1>6, <3>2, HashIs
    <3>4. t[p].hash.lo = other[p].hash.lo
        BY <2>2, <2>3, <3>1, <3>3 DEF IsHalf
    <3> QED
        BY <3>1, <3>3, <3>4 DEF IsHalf, SameLow
  <2>4. CASE c # p
    <3>1. c \notin Labels(other)
        BY <1>8, <2>4
    <3>2. IsDigest(other[c].hash, c)
        BY <1>4, <3>1, HashIs
    <3>3. p \notin Labels(t)
      <4>1. SUFFICES ASSUME p \in Labels(t)
                     PROVE  FALSE
          OBVIOUS
      <4>2. IsHalf(t[p].hash)
          BY <1>6, <4>1, HashIs
      <4> QED
          BY <2>2, <3>2, <4>2 DEF IsDigest, IsHalf
    <3>4. IsDigest(t[p].hash, p)
        BY <1>6, <3>3, HashIs
    <3>5. Value(p) = Value(c)
        BY <2>2, <3>2, <3>4 DEF IsDigest
    <3> QED
        BY <1>5, <1>6, <2>4, <3>5
  <2> QED
      BY <2>3, <2>4
<1> QED
    BY <1>7, <1>8

(* What is shown below a node is below it. *)
LEMMA ShownBelow ==
    ASSUME NEW t, NEW other, ArePaths(DOMAIN t), ArePaths(DOMAIN other),
           NEW at, IsShown(at, t, other, DOMAIN t \cap DOMAIN other)
    PROVE  \A p \in DOMAIN t \cap DOMAIN other : \A d \in at[p] : d.path \in Path /\ IsPrefix(p, d.path)
<1> DEFINE both == DOMAIN t \cap DOMAIN other
           S == {p \in both : \A d \in at[p] : d.path \in Path /\ IsPrefix(p, d.path)}
<1>1. Grounded(both) /\ both \in SUBSET Path /\ DOMAIN t \in SUBSET Path /\ DOMAIN other \in SUBSET Path
    BY GroundedSubset DEF ArePaths
<1>2. ASSUME NEW p \in both, ChildrenIn(both, p) \subseteq S
      PROVE  p \in S
  <2>1. SUFFICES ASSUME NEW d \in Shown(at, t, other, p)
                 PROVE  d.path \in Path /\ IsPrefix(p, d.path)
      BY DEF IsShown
  <2>2. \/ \E q \in Children(t, p) : d = MissingOther(q)
        \/ \E q \in Children(other, p) : d = MissingSelf(q)
        \/ \E q \in Differing(t, other, p) : d = HashMismatch(q) \/ d \in at[q]
      BY <2>1, Zenon DEF Shown
  <2>3. ASSUME NEW q, q \in Children(t, p) \/ q \in Children(other, p)
        PROVE  q \in Path /\ IsPrefix(p, q)
      BY <1>1, <2>3 DEF Children, ChildrenIn
  <2>4. ASSUME NEW q \in Differing(t, other, p), d \in at[q]
        PROVE  d.path \in Path /\ IsPrefix(p, d.path)
    <3>1. q \in ChildrenIn(both, p) /\ q \in S
        BY <1>2, DifferingIs
    <3>2. d.path \in Path /\ IsPrefix(q, d.path) /\ q \in Path /\ IsPrefix(p, q) /\ p \in Path
        BY <1>1, <2>4, <3>1 DEF ChildrenIn
    <3> QED
        BY <3>2, PrefixOrder
  <2>5. \A q \in Differing(t, other, p) : q \in Children(t, p)
      BY DEF Differing
  <2> QED
      BY <2>2, <2>3, <2>4, <2>5 DEF MissingOther, MissingSelf, HashMismatch
<1> HIDE DEF S
<1>3. both \subseteq S
    BY <1>1, <1>2, FromBelow
<1> QED
    BY <1>3 DEF S

(* Such a difference is shown, at its node or below. *)
LEMMA DifferenceShown ==
    ASSUME NEW t, NEW other, Comparable(t), Comparable(other), NEW x, Labels(other) \subseteq {x},
           NEW p \in (DOMAIN t \cap DOMAIN other) \ {Root}, ~SameLow(t[p].hash, other[p].hash),
           Ancestors(p) \cap (Labels(t) \cup Labels(other)) = {}
    PROVE  \E d \in Diff(t, other) : IsPrefix(p, d.path)
<1> DEFINE both == DOMAIN t \cap DOMAIN other
<1>1. /\ ArePaths(DOMAIN t) /\ ArePaths(DOMAIN other) /\ Grounded(both) /\ Root \in both
      /\ both \in SUBSET Path /\ Closed(both)
    BY GroundedSubset DEF Comparable, ArePaths, Closed
<1>2. PICK at : IsShown(at, t, other, both) /\ Diff(t, other) = at[Root]
    BY <1>1, DiffIs
<1>3. \A q \in both : \A d \in at[q] : d.path \in Path /\ IsPrefix(q, d.path)
    BY <1>1, <1>2, ShownBelow
<1> DEFINE S == {q \in both : q \in Ancestors(p) => /\ ~SameLow(t[q].hash, other[q].hash)
                                                   /\ \E d \in at[q] : IsPrefix(p, d.path)}
<1>4. ASSUME NEW q \in both, ChildrenIn(both, q) \subseteq S
      PROVE  q \in S
  <2>1. SUFFICES ASSUME q \in Ancestors(p)
                 PROVE  /\ ~SameLow(t[q].hash, other[q].hash)
                        /\ \E d \in at[q] : IsPrefix(p, d.path)
      OBVIOUS
  <2>2. p \in Path /\ q \in Path /\ IsPrefix(q, p) /\ q # p
      BY <1>1, <2>1, AncestorIs, LenProperties DEF Path
  <2>3. PICK c \in {p} \cup Ancestors(p) :
            c \in Path /\ Len(c) = Len(q) + 1 /\ IsPrefix(q, c) /\ IsPrefix(c, p)
      BY <2>2, ChildTowards
  <2>4. c \in both
      BY <1>1, <2>3 DEF Closed
  <2>5. c \in ChildrenIn(both, q) /\ c \in Children(t, q) \cap Children(other, q)
      BY <2>3, <2>4 DEF Children, ChildrenIn
  <2>6. /\ ~SameLow(t[c].hash, other[c].hash)
        /\ c # p => \E d \in at[c] : IsPrefix(p, d.path)
      BY <1>4, <2>3, <2>5
  <2>7. ~SameLow(t[q].hash, other[q].hash)
      BY <2>1, <2>5, <2>6, ParentTells
  <2>8. c \in Differing(t, other, q)
      BY <2>4, <2>5, <2>6 DEF Differing, SameLow
  <2>9. at[q] = Shown(at, t, other, q)
      BY <1>2 DEF IsShown
  <2>10. CASE at[c] = {}
    <3>1. c = p /\ HashMismatch(c) \in at[q]
        BY <2>6, <2>8, <2>9, <2>10 DEF Shown
    <3>2. HashMismatch(c).path = p /\ IsPrefix(p, p)
        BY <2>2, <3>1, PrefixOrder DEF HashMismatch
    <3> QED
        BY <2>7, <3>1, <3>2
  <2>11. CASE at[c] # {}
    <3>1. at[c] \subseteq at[q]
        BY <2>8, <2>9, <2>11 DEF Shown
    <3>2. \E d \in at[c] : IsPrefix(p, d.path)
        BY <1>3, <2>4, <2>6, <2>11
    <3> QED
        BY <2>7, <3>1, <3>2
  <2> QED
      BY <2>10, <2>11
<1> HIDE DEF S
<1>5. both \subseteq S
    BY <1>1, <1>4, FromBelow
<1>6. Root \in Ancestors(p)
    BY <1>1, RootAbove
<1> QED
    BY <1>1, <1>2, <1>5, <1>6 DEF S

(* A peer with one given hash. *)
LEMMA LabelledPeerIs ==
    ASSUME NEW elements \in PeerContents, NEW e \in elements \cap Labelled, NEW hash \in PeerHashes
    PROVE  Comparable(Peer(elements, e, hash)) /\ Labels(Peer(elements, e, hash)) \subseteq {e}
<1> DEFINE t == Unsorted(elements)
           u == Deferred(t, e, hash)
           peer == Peer(elements, e, hash)
<1>1. /\ elements \in SUBSET Path /\ ArePaths(PathsOf(elements)) /\ DOMAIN t = PathsOf(elements)
      /\ \A p \in DOMAIN t : t[p].manual = NoHash
      /\ IsTree(t, elements, PeerHashes) /\ Sound(t)
    BY UnsortedIs
<1>2. e \in Path \ {Root} /\ hash \in PeerHashes \cup {NoHash}
    BY <1>1, ElementsArePaths
<1>3. peer = Rehashed(u)
    BY <1>2 DEF Peer, Unsorted, Deferred, Inserted
<1>4. AreNew(DeferredNew(e), PathsOf({e}))
    BY NewAre
<1> HIDE DEF t
<1>5. Grounded(DOMAIN t)
    BY <1>1 DEF ArePaths
<1>6. IsTree(u, elements \cup {e}, PeerHashes) /\ IsPlaced(u, t, e, hash, DeferredNew(e))
    BY <1>1, <1>2, DeferredIs
<1>7. Sound(u)
    BY <1>1, <1>2, <1>5, DeferredSound
<1> HIDE DEF u, peer
<1>8. elements \cup {e} = elements
    OBVIOUS
<1>9. IsTree(u, elements, PeerHashes) /\ DOMAIN u = PathsOf(elements) /\ Grounded(DOMAIN u)
    BY <1>1, <1>5, <1>6, <1>8 DEF IsTree
<1>10. ASSUME NEW p \in DOMAIN u, p # e
       PROVE  u[p].manual = NoHash
  <2>1. p \in DOMAIN t \/ p \in PathsOf({e})
      BY <1>6 DEF IsPlaced
  <2>2. NodeOn(t, DeferredNew(e), p).manual = NoHash
      BY <1>1, <1>4, <2>1 DEF NodeOn, AreNew
  <2>3. u[p].manual = NodeOn(t, DeferredNew(e), p).manual
      BY <1>6, <1>10 DEF IsPlaced
  <2> QED
      BY <2>2, <2>3
<1>11. Fresh(Rehashed(u))
    BY <1>1, <1>7, <1>9, RehashedFresh
<1>12. DOMAIN Rehashed(u) = DOMAIN u /\ \A p \in DOMAIN u : Rehashed(u)[p].manual = u[p].manual
  <2>1. elements \in SUBSET Path
      BY <1>1
  <2> QED
      BY <1>9, <2>1, RehashedTree
<1>13. Labels(Rehashed(u)) \subseteq {e}
    BY <1>10, <1>12 DEF Labels
<1>14. \A p \in Labels(Rehashed(u)) : Rehashed(u)[p].manual \in Halves
  <2>1. \A p \in DOMAIN u : u[p].manual \in PeerHashes \cup {NoHash}
      BY <1>9 DEF IsTree
  <2>2. PeerHashes \subseteq Halves
      BY HashAssumption DEF Halves
  <2> QED
      BY <1>12, <2>1, <2>2 DEF Labels
<1> QED
    BY <1>1, <1>3, <1>9, <1>11, <1>12, <1>13, <1>14 DEF Comparable, peer

LEMMA PeerIs ==
    ASSUME NEW peer \in Peers
    PROVE  Comparable(peer) /\ \E x : Labels(peer) \subseteq {x}
<1>1. CASE peer \in PlainPeers
  <2>1. PICK elements \in PeerContents : peer = Peer(elements, Root, NoHash)
      BY <1>1 DEF PlainPeers
  <2>2. ArePaths(DOMAIN peer) /\ Plain(peer)
      BY <2>1, PlainPeerIs
  <2> QED
      BY <2>2 DEF Plain, Comparable
<1>2. ASSUME NEW elements \in PeerContents, NEW e \in elements \cap Labelled, NEW hash \in PeerHashes,
             peer = Peer(elements, e, hash)
      PROVE  Comparable(peer) /\ \E x : Labels(peer) \subseteq {x}
    BY <1>2, LabelledPeerIs
<1> QED
    BY <1>1, <1>2 DEF Peers

LEMMA TypeCompares == TypeInv => LabelsCompared
<1> SUFFICES ASSUME TypeInv, Fresh(tree), NEW peer \in Peers,
                    NEW p \in (DOMAIN tree \cap DOMAIN peer) \ {Root},
                    ~SameLow(tree[p].hash, peer[p].hash),
                    Ancestors(p) \cap (Labels(tree) \cup Labels(peer)) = {}
             PROVE  \E d \in Diff(tree, peer) : IsPrefix(p, d.path)
    BY DEF LabelsCompared
<1>1. ArePaths(DOMAIN tree)
    BY TypeFacts DEF ArePaths, Grounded
<1>2. \A q \in Labels(tree) : tree[q].manual \in Halves
  <2>1. \A q \in DOMAIN tree : tree[q].manual \in Hashes \cup {NoHash}
      BY DEF TypeInv, IsTree
  <2>2. Hashes \subseteq Halves
      BY HashAssumption DEF Halves
  <2> QED
      BY <2>1, <2>2 DEF Labels
<1>3. Comparable(tree)
    BY <1>1, <1>2 DEF Comparable
<1>4. PICK x : Comparable(peer) /\ Labels(peer) \subseteq {x}
    BY PeerIs
<1> QED
    BY <1>3, <1>4, DifferenceShown

(* For any tree with any number of given hashes and any peer with one: a    *)
(* difference in the low half of a node's hash is shown at the node or      *)
(* below it, unless a node above was given a hash.  (sync.rs, U64Buffer,    *)
(* update_hash and diff.)                                                   *)
THEOREM LabelsAlwaysCompared == Spec => []LabelsCompared
BY TypeCompares, TypeInvariant, PTL

-----------------------------------------------------------------------------
(***************************************************************************)
(* Extracts.  What is kept is closed upwards and has every top-level node, *)
(* so a difference is cut at a node that both extracts have.               *)
(***************************************************************************)
IsKeep(keep) ==
    /\ keep \in SUBSET Path /\ Closed(keep) /\ Root \in keep
    /\ \A p \in Path : Len(p) = 1 => p \in keep
Kept(prefix, depth) ==
    {p \in Path : p = Root \/ (PrefixMatch(prefix, p) /\ Len(p) <= Len(prefix) + depth)}

LEMMA KeptIs ==
    ASSUME NEW prefix \in Path, NEW depth \in Nat \ {0}
    PROVE  IsKeep(Kept(prefix, depth))
<1>1. \A p \in Path : Len(p) \in Nat
    BY LenProperties DEF Path
<1>2. ASSUME NEW p \in Kept(prefix, depth), NEW a \in Ancestors(p), a # Root
      PROVE  a \in Kept(prefix, depth)
  <2>1. p \in Path /\ a \in Path /\ IsPrefix(a, p) /\ Len(a) < Len(p) /\ p # Root
    <3>1. p \in Path
        BY DEF Kept
    <3>2. a \in Path /\ IsPrefix(a, p) /\ Len(a) < Len(p)
        BY <3>1, AncestorIs
    <3> QED
        BY <1>1, <3>1, <3>2, RootAbove
  <2>2. PrefixMatch(prefix, p) /\ Len(p) <= Len(prefix) + depth
      BY <2>1 DEF Kept
  <2>3. Len(a) > 0 /\ Len(a) \in Nat /\ Len(p) \in Nat /\ Len(prefix) \in Nat
      BY <1>1, <1>2, <2>1, RootAbove
  <2>4. Len(p) # 1 /\ Len(a) <= Len(prefix) + depth
    <3>1. \A i, j, k, m \in Nat : i > 0 /\ i < j /\ j <= k + m => j # 1 /\ i <= k + m
        OBVIOUS
    <3> QED
        BY <2>1, <2>2, <2>3, <3>1
  <2>5. CASE prefix = <<>>
      BY <2>1, <2>4, <2>5 DEF Kept, PrefixMatch
  <2>6. CASE IsPrefix(p, prefix)
    <3>1. IsPrefix(a, prefix)
        BY <2>1, <2>6, PrefixOrder
    <3> QED
        BY <2>1, <2>4, <3>1 DEF Kept, PrefixMatch
  <2>7. CASE IsPrefix(prefix, p)
    <3>1. IsPrefix(a, prefix) \/ IsPrefix(prefix, a)
        BY <2>1, <2>3, <2>7, PrefixOrder
    <3> QED
        BY <2>1, <2>4, <3>1 DEF Kept, PrefixMatch
  <2> QED
      BY <2>2, <2>4, <2>5, <2>6, <2>7 DEF PrefixMatch
<1>3. Root \in Kept(prefix, depth) /\ Kept(prefix, depth) \in SUBSET Path
    BY RootAbove DEF Kept
<1>4. \A p \in Path : Len(p) = 1 => p \in Kept(prefix, depth)
  <2>1. Len(prefix) \in Nat /\ 1 <= Len(prefix) + depth
      BY <1>1
  <2> QED
      BY <2>1 DEF Kept, PrefixMatch
<1>5. Closed(Kept(prefix, depth))
    BY <1>2, <1>3 DEF Closed
<1> QED
    BY <1>3, <1>4, <1>5 DEF IsKeep

CutTo(d, keep) ==
    IF d.path \in keep THEN d
    ELSE HashMismatch(SubSeq(d.path, 1, Max({i \in DOMAIN d.path : SubSeq(d.path, 1, i) \in keep})))

LEMMA CutIs ==
    ASSUME NEW prefix \in Path, NEW depth \in Nat \ {0}, NEW d, d.path \in Path \ {Root}
    PROVE  Cut(d, prefix, depth) = CutTo(d, Kept(prefix, depth))
<1> DEFINE keep == Kept(prefix, depth)
           kept == {i \in DOMAIN d.path : LET p == SubSeq(d.path, 1, i) IN
                       PrefixMatch(prefix, p) /\ Len(p) <= Len(prefix) + depth}
<1>1. Len(d.path) \in Nat /\ Len(d.path) > 0 /\ DOMAIN d.path = 1..Len(d.path)
    BY LenProperties, RootAbove DEF Path
<1>2. ASSUME NEW i \in DOMAIN d.path
      PROVE  i \in kept <=> SubSeq(d.path, 1, i) \in keep
  <2>1. SubSeq(d.path, 1, i) \in Path /\ Len(SubSeq(d.path, 1, i)) = i
      BY <1>1, Segment
  <2>2. SubSeq(d.path, 1, i) # Root
      BY <1>1, <2>1, RootAbove
  <2> QED
      BY <2>1, <2>2 DEF Kept
<1>3. kept = {i \in DOMAIN d.path : SubSeq(d.path, 1, i) \in keep}
    BY <1>2
<1>4. SubSeq(d.path, 1, Len(d.path)) = d.path /\ Len(d.path) \in DOMAIN d.path
    BY <1>1, SubSeqFull DEF Path
<1>5. Len(d.path) \in kept <=> d.path \in keep
    BY <1>2, <1>4
<1>6. Cut(d, prefix, depth) =
          IF Len(d.path) \in kept THEN d ELSE HashMismatch(SubSeq(d.path, 1, Max(kept)))
    BY DEF Cut
<1> HIDE DEF kept, keep
<1> QED
    BY <1>3, <1>5, <1>6 DEF CutTo, keep

(* Cut below a node that is kept, above a child that is not. *)
LEMMA CutBelow ==
    ASSUME NEW keep, IsKeep(keep), NEW p \in keep \ {Root}, NEW d, d.path \in Path,
           NEW c \in Path, c \notin keep, Len(c) = Len(p) + 1, IsPrefix(p, c), IsPrefix(c, d.path)
    PROVE  CutTo(d, keep) = HashMismatch(p)
<1> DEFINE q == d.path
           S == {i \in DOMAIN q : SubSeq(q, 1, i) \in keep}
<1>1. /\ p \in Path /\ Len(p) \in Nat /\ Len(q) \in Nat /\ DOMAIN q = 1..Len(q) /\ Len(p) > 0
      /\ Len(c) <= Len(q)
    BY LenProperties, RootAbove, PrefixIs DEF Path, IsKeep
<1>2. IsPrefix(p, q)
    BY <1>1, PrefixOrder
<1>3. ASSUME NEW a \in keep, IsPrefix(a, q)
      PROVE  Len(a) <= Len(p)
  <2>1. a \in Path /\ Len(a) \in Nat
      BY LenProperties DEF Path, IsKeep
  <2>2. SUFFICES ASSUME Len(c) <= Len(a)
                 PROVE  FALSE
      BY <1>1, <2>1
  <2>3. IsPrefix(c, a)
      BY <1>3, <2>1, <2>2, PrefixOrder
  <2>4. c \in keep
      BY <2>1, <2>3, InClosed DEF IsKeep
  <2> QED
      BY <2>4
<1>4. q \notin keep
  <2>1. IsPrefix(q, q)
      BY PrefixOrder
  <2> QED
      BY <1>1, <1>3, <2>1
<1>5. SubSeq(q, 1, Len(p)) = p /\ Len(p) <= Len(q)
  <2>1. SubSeq(p, 1, Len(p)) = p
      BY <1>1, SubSeqFull DEF Path
  <2> QED
      BY <1>2, <2>1 DEF IsPrefix
<1>6. Len(p) \in S
  <2> HIDE DEF q
  <2>1. Len(p) \in 1..Len(q)
      BY <1>1, <1>5
  <2>2. SubSeq(q, 1, Len(p)) \in keep
      BY <1>5
  <2> QED
      BY <1>1, <2>1, <2>2
<1>7. ASSUME NEW i \in S
      PROVE  i <= Len(p)
  <2>1. SubSeq(q, 1, i) \in Path /\ Len(SubSeq(q, 1, i)) = i /\ \A j \in 1..i : SubSeq(q, 1, i)[j] = q[j]
      BY <1>1, Segment
  <2>2. i \in Nat /\ i <= Len(q)
      BY <1>1
  <2>3. IsPrefix(SubSeq(q, 1, i), q)
      BY <2>1, <2>2, PrefixIs
  <2> QED
      BY <1>3, <2>1, <2>3
<1>8. Max(S) = Len(p)
  <2>1. S \in SUBSET (0..Len(q)) /\ S # {}
      BY <1>1, <1>6
  <2> HIDE DEF S
  <2>2. Max(S) \in S /\ \A k \in S : Max(S) >= k
      BY <1>1, <2>1, GreatestIsMax
  <2>3. Max(S) \in 0..Len(q)
      BY <2>1, <2>2, Zenon
  <2>4. Max(S) <= Len(p) /\ Max(S) >= Len(p)
      BY <1>6, <1>7, <2>2
  <2> QED
      BY <1>1, <2>3, <2>4
<1> QED
    BY <1>4, <1>5, <1>8 DEF CutTo

(* The cuts of the differences below a node of both extracts: at a kept     *)
(* child of one tree only, below a child both extracts have, or at the node *)
(* itself.                                                                  *)
AreCut(paths, other, keep) == ArePaths(paths) /\ ArePaths(other) /\ IsKeep(keep)
Common(paths, other, keep) == paths \cap other \cap keep
CutsBelow(paths, other, keep, p) == {CutTo(d, keep) : d \in Below(paths, other, p)}
Here(paths, other, keep, p) ==
    {MissingOther(q) : q \in (ChildrenIn(paths, p) \ other) \cap keep}
    \cup {MissingSelf(q) : q \in (ChildrenIn(other, p) \ paths) \cap keep}

LEMMA BelowHas ==
    ASSUME NEW paths \in SUBSET Path, NEW other \in SUBSET Path,
           NEW p \in paths \cap other, NEW d \in Below(paths, other, p)
    PROVE  /\ d.path \in Path /\ IsPrefix(p, d.path) /\ d.path # p
           /\ \/ d = MissingOther(d.path) /\ d.path \in TopsBelow(paths, other, p)
              \/ d = MissingSelf(d.path) /\ d.path \in TopsBelow(other, paths, p)
<1>1. CASE d \in {MissingOther(q) : q \in TopsBelow(paths, other, p)}
  <2>1. PICK q \in TopsBelow(paths, other, p) : d = MissingOther(q)
      BY <1>1
  <2>2. d.path = q
      BY <2>1 DEF MissingOther
  <2> QED
      BY <2>1, <2>2 DEF TopsBelow, Tops
<1>2. CASE d \in {MissingSelf(q) : q \in TopsBelow(other, paths, p)}
  <2>1. PICK q \in TopsBelow(other, paths, p) : d = MissingSelf(q)
      BY <1>2
  <2>2. d.path = q
      BY <2>1 DEF MissingSelf
  <2> QED
      BY <2>1, <2>2 DEF TopsBelow, Tops
<1> QED
    BY <1>1, <1>2 DEF Below

LEMMA CutsSplit ==
    ASSUME NEW paths, NEW other, NEW keep, AreCut(paths, other, keep),
           NEW p \in Common(paths, other, keep), NEW x \in CutsBelow(paths, other, keep, p)
    PROVE  \/ x \in Here(paths, other, keep, p)
           \/ \E c \in ChildrenIn(Common(paths, other, keep), p) : x \in CutsBelow(paths, other, keep, c)
           \/ x = HashMismatch(p) /\ p # Root
<1>1. /\ paths \in SUBSET Path /\ other \in SUBSET Path /\ Closed(paths) /\ Closed(other)
      /\ p \in paths \cap other /\ p \in keep /\ p \in Path /\ IsKeep(keep)
    BY DEF AreCut, ArePaths, Common
<1>2. PICK d \in Below(paths, other, p) : x = CutTo(d, keep)
    BY DEF CutsBelow
<1>3. /\ d.path \in Path /\ IsPrefix(p, d.path) /\ d.path # p
      /\ \/ d = MissingOther(d.path) /\ d.path \in TopsBelow(paths, other, p)
         \/ d = MissingSelf(d.path) /\ d.path \in TopsBelow(other, paths, p)
    BY <1>1, BelowHas
<1>4. PICK c \in {d.path} \cup Ancestors(d.path) :
          c \in Path /\ Len(c) = Len(p) + 1 /\ IsPrefix(p, c) /\ IsPrefix(c, d.path)
    BY <1>1, <1>3, ChildTowards
<1>5. CASE c \notin keep
  <2>1. p # Root
    <3>1. Len(Root) = 0 /\ (Len(c) = 1 => c \in keep)
        BY <1>1, <1>4, RootAbove DEF IsKeep
    <3> QED
        BY <1>4, <1>5, <3>1
  <2>2. x = HashMismatch(p)
      BY <1>1, <1>2, <1>3, <1>4, <1>5, <2>1, CutBelow
  <2> QED
      BY <2>1, <2>2
<1>6. CASE c \in keep /\ c = d.path
  <2>1. x = d
      BY <1>2, <1>6 DEF CutTo
  <2>2. CASE d = MissingOther(c) /\ c \in TopsBelow(paths, other, p)
    <3>1. c \in (ChildrenIn(paths, p) \ other) \cap keep
        BY <1>4, <1>6, <2>2 DEF TopsBelow, Tops, ChildrenIn
    <3> QED
        BY <2>1, <2>2, <3>1 DEF Here
  <2>3. CASE d = MissingSelf(c) /\ c \in TopsBelow(other, paths, p)
    <3>1. c \in (ChildrenIn(other, p) \ paths) \cap keep
        BY <1>4, <1>6, <2>3 DEF TopsBelow, Tops, ChildrenIn
    <3> QED
        BY <2>1, <2>3, <3>1 DEF Here
  <2> QED
      BY <1>3, <1>6, <2>2, <2>3
<1>7. CASE c \in keep /\ c \in Ancestors(d.path)
  <2>1. /\ c \in paths \cap other
        /\ \/ d = MissingOther(d.path) /\ d.path \in TopsBelow(paths, other, c)
           \/ d = MissingSelf(d.path) /\ d.path \in TopsBelow(other, paths, c)
      BY <1>1, <1>3, <1>4, <1>7 DEF TopsBelow, Tops, Closed
  <2>2. d \in Below(paths, other, c)
      BY <2>1, Zenon DEF Below
  <2>3. c \in ChildrenIn(Common(paths, other, keep), p)
      BY <1>4, <1>7, <2>1 DEF ChildrenIn, Common
  <2> QED
      BY <1>2, <2>2, <2>3 DEF CutsBelow
<1> QED
    BY <1>4, <1>5, <1>6, <1>7

LEMMA CutsJoin ==
    ASSUME NEW paths, NEW other, NEW keep, AreCut(paths, other, keep),
           NEW p \in Common(paths, other, keep)
    PROVE  /\ Here(paths, other, keep, p) \subseteq CutsBelow(paths, other, keep, p)
           /\ \A c \in ChildrenIn(Common(paths, other, keep), p) :
                  CutsBelow(paths, other, keep, c) \subseteq CutsBelow(paths, other, keep, p)
<1>1. /\ paths \in SUBSET Path /\ other \in SUBSET Path /\ Closed(paths) /\ Closed(other)
      /\ p \in paths \cap other
    BY DEF AreCut, ArePaths, Common
<1>2. Below(paths, other, p) =
          {MissingOther(q) : q \in ChildrenIn(paths, p) \ other}
          \cup {MissingSelf(q) : q \in ChildrenIn(other, p) \ paths}
          \cup UNION {Below(paths, other, c) : c \in ChildrenIn(paths \cap other, p)}
    BY <1>1, BelowIs
<1>3. ASSUME NEW q \in (ChildrenIn(paths, p) \ other) \cap keep
      PROVE  MissingOther(q) \in CutsBelow(paths, other, keep, p)
  <2>1. MissingOther(q) \in Below(paths, other, p)
      BY <1>2
  <2>2. CutTo(MissingOther(q), keep) = MissingOther(q)
      BY DEF CutTo, MissingOther
  <2> QED
      BY <2>1, <2>2 DEF CutsBelow
<1>4. ASSUME NEW q \in (ChildrenIn(other, p) \ paths) \cap keep
      PROVE  MissingSelf(q) \in CutsBelow(paths, other, keep, p)
  <2>1. MissingSelf(q) \in Below(paths, other, p)
      BY <1>2
  <2>2. CutTo(MissingSelf(q), keep) = MissingSelf(q)
      BY DEF CutTo, MissingSelf
  <2> QED
      BY <2>1, <2>2 DEF CutsBelow
<1>5. ASSUME NEW c \in ChildrenIn(Common(paths, other, keep), p)
      PROVE  CutsBelow(paths, other, keep, c) \subseteq CutsBelow(paths, other, keep, p)
  <2>1. c \in ChildrenIn(paths \cap other, p)
      BY DEF ChildrenIn, Common
  <2>2. Below(paths, other, c) \subseteq Below(paths, other, p)
      BY <1>2, <2>1, Zenon
  <2> QED
      BY <2>2 DEF CutsBelow
<1> QED
    BY <1>3, <1>4, <1>5 DEF Here

LEMMA HereIs ==
    ASSUME NEW paths \in SUBSET Path, NEW other \in SUBSET Path, NEW keep, NEW p \in Path,
           NEW x \in Here(paths, other, keep, p)
    PROVE  /\ x.path \in Path /\ Len(x.path) = Len(p) + 1 /\ IsPrefix(p, x.path)
           /\ x.path \notin Common(paths, other, keep) /\ x.diff # "HashMismatch"
<1>1. CASE \E q \in (ChildrenIn(paths, p) \ other) \cap keep : x = MissingOther(q)
  <2>1. PICK q \in (ChildrenIn(paths, p) \ other) \cap keep : x = MissingOther(q)
      BY <1>1
  <2>2. x.path = q /\ x.diff # "HashMismatch"
      BY <2>1 DEF MissingOther
  <2> QED
      BY <2>2 DEF ChildrenIn, Common
<1>2. CASE \E q \in (ChildrenIn(other, p) \ paths) \cap keep : x = MissingSelf(q)
  <2>1. PICK q \in (ChildrenIn(other, p) \ paths) \cap keep : x = MissingSelf(q)
      BY <1>2
  <2>2. x.path = q /\ x.diff # "HashMismatch"
      BY <2>1 DEF MissingSelf
  <2> QED
      BY <2>2 DEF ChildrenIn, Common
<1> QED
    BY <1>1, <1>2, Zenon DEF Here

LEMMA CommonIs ==
    ASSUME NEW paths, NEW other, NEW keep, AreCut(paths, other, keep)
    PROVE  /\ paths \in SUBSET Path /\ other \in SUBSET Path
           /\ Common(paths, other, keep) \in SUBSET Path /\ Grounded(Common(paths, other, keep))
           /\ Root \in Common(paths, other, keep)
BY GroundedSubset DEF AreCut, ArePaths, IsKeep, Common

LEMMA CutsAreBelow ==
    ASSUME NEW paths, NEW other, NEW keep, AreCut(paths, other, keep)
    PROVE  \A p \in Common(paths, other, keep) :
               \A x \in CutsBelow(paths, other, keep, p) : x.path \in Path /\ IsPrefix(p, x.path)
<1> DEFINE both == Common(paths, other, keep)
           S == {p \in both : \A x \in CutsBelow(paths, other, keep, p) :
                                  x.path \in Path /\ IsPrefix(p, x.path)}
<1>1. paths \in SUBSET Path /\ other \in SUBSET Path /\ both \in SUBSET Path /\ Grounded(both)
    BY CommonIs
<1>2. ASSUME NEW p \in both, ChildrenIn(both, p) \subseteq S
      PROVE  p \in S
  <2>1. SUFFICES ASSUME NEW x \in CutsBelow(paths, other, keep, p)
                 PROVE  x.path \in Path /\ IsPrefix(p, x.path)
      OBVIOUS
  <2>2. p \in Path
      BY <1>1
  <2>3. \/ x \in Here(paths, other, keep, p)
        \/ \E c \in ChildrenIn(both, p) : x \in CutsBelow(paths, other, keep, c)
        \/ x = HashMismatch(p) /\ p # Root
      BY CutsSplit
  <2>4. CASE x \in Here(paths, other, keep, p)
      BY <1>1, <2>2, <2>4, HereIs
  <2>5. ASSUME NEW c \in ChildrenIn(both, p), x \in CutsBelow(paths, other, keep, c)
        PROVE  x.path \in Path /\ IsPrefix(p, x.path)
    <3>1. x.path \in Path /\ IsPrefix(c, x.path)
        BY <1>2, <2>5
    <3>2. c \in Path /\ IsPrefix(p, c)
        BY <1>1 DEF ChildrenIn
    <3> QED
        BY <2>2, <3>1, <3>2, PrefixOrder
  <2>6. CASE x = HashMismatch(p)
      BY <2>2, <2>6, PrefixOrder DEF HashMismatch
  <2> QED
      BY <2>3, <2>4, <2>5, <2>6
<1> HIDE DEF S
<1>3. both \subseteq S
    BY <1>1, <1>2, FromBelow
<1> QED
    BY <1>3 DEF S

LEMMA CutsOfChild ==
    ASSUME NEW paths, NEW other, NEW keep, AreCut(paths, other, keep),
           NEW p \in Common(paths, other, keep), NEW x \in CutsBelow(paths, other, keep, p)
    PROVE  /\ \A c \in ChildrenIn(Common(paths, other, keep), p) :
                  IsPrefix(c, x.path) => x \in CutsBelow(paths, other, keep, c)
           /\ x.path = p => x = HashMismatch(p) /\ p # Root
<1> DEFINE both == Common(paths, other, keep)
<1>1. paths \in SUBSET Path /\ other \in SUBSET Path /\ both \in SUBSET Path /\ p \in Path
    BY CommonIs
<1>2. \/ x \in Here(paths, other, keep, p)
      \/ \E c \in ChildrenIn(both, p) : x \in CutsBelow(paths, other, keep, c)
      \/ x = HashMismatch(p) /\ p # Root
    BY CutsSplit
<1>3. Len(p) \in Nat /\ \A c \in ChildrenIn(both, p) : c \in both /\ c \in Path /\ Len(c) = Len(p) + 1
    BY <1>1, LenProperties DEF ChildrenIn, Path
<1>4. CASE x \in Here(paths, other, keep, p)
  <2>1. x.path \in Path /\ Len(x.path) = Len(p) + 1 /\ x.path \notin both
      BY <1>1, <1>4, HereIs
  <2>2. ASSUME NEW c \in ChildrenIn(both, p), IsPrefix(c, x.path)
        PROVE  FALSE
    <3>1. c = x.path
        BY <1>3, <2>1, <2>2, PrefixOrder
    <3> QED
        BY <1>3, <2>1, <3>1
  <2> QED
      BY <1>3, <2>1, <2>2
<1>5. ASSUME NEW b \in ChildrenIn(both, p), x \in CutsBelow(paths, other, keep, b)
      PROVE  /\ \A c \in ChildrenIn(both, p) :
                    IsPrefix(c, x.path) => x \in CutsBelow(paths, other, keep, c)
             /\ x.path # p
  <2>1. x.path \in Path /\ IsPrefix(b, x.path) /\ b \in Path /\ Len(b) = Len(p) + 1
      BY <1>3, <1>5, CutsAreBelow
  <2>2. ASSUME NEW c \in ChildrenIn(both, p), IsPrefix(c, x.path)
        PROVE  c = b
    <3>1. c \in Path /\ Len(c) = Len(b)
        BY <1>3, <2>1
    <3>2. IsPrefix(c, b)
        BY <1>3, <2>1, <2>2, <3>1, PrefixOrder
    <3> QED
        BY <1>3, <2>1, <3>1, <3>2, PrefixOrder
  <2>3. x.path # p
      BY <1>1, <1>3, <2>1, PrefixIs
  <2> QED
      BY <1>5, <2>2, <2>3
<1>6. CASE x = HashMismatch(p) /\ p # Root
  <2>1. x.path = p
      BY <1>6 DEF HashMismatch
  <2>2. \A c \in ChildrenIn(both, p) : ~IsPrefix(c, p)
      BY <1>1, <1>3, PrefixIs
  <2> QED
      BY <1>6, <2>1, <2>2
<1> QED
    BY <1>2, <1>4, <1>5, <1>6

(* Of the mismatches only the deepest are left.                             *)
Deepest(cuts) == {x \in cuts : x.diff = "HashMismatch" => \A y \in cuts : ~IsBelow(y.path, x.path)}

LEMMA DeepestSplit ==
    ASSUME NEW paths, NEW other, NEW keep, AreCut(paths, other, keep),
           NEW p \in Common(paths, other, keep)
    PROVE  {x \in Deepest(CutsBelow(paths, other, keep, p)) : x.path # p} =
               Here(paths, other, keep, p)
               \cup UNION {Deepest(CutsBelow(paths, other, keep, c)) :
                              c \in ChildrenIn(Common(paths, other, keep), p)}
<1> DEFINE both == Common(paths, other, keep)
           cuts(c) == CutsBelow(paths, other, keep, c)
           here == Here(paths, other, keep, p)
<1>1. paths \in SUBSET Path /\ other \in SUBSET Path /\ both \in SUBSET Path /\ p \in Path
    BY CommonIs
<1>2. /\ here \subseteq cuts(p)
      /\ \A c \in ChildrenIn(both, p) : cuts(c) \subseteq cuts(p)
    BY CutsJoin
<1>3. \A x \in here : x.path # p /\ x.diff # "HashMismatch"
  <2>1. SUFFICES ASSUME NEW x \in here
                 PROVE  x.path # p /\ x.diff # "HashMismatch"
      OBVIOUS
  <2>2. Len(x.path) = Len(p) + 1 /\ x.diff # "HashMismatch" /\ Len(p) \in Nat
      BY <1>1, HereIs, LenProperties DEF Path
  <2> QED
      BY <2>2
<1>4. ASSUME NEW c \in ChildrenIn(both, p), NEW x \in cuts(c)
      PROVE  x.path # p /\ (x \in Deepest(cuts(p)) <=> x \in Deepest(cuts(c)))
  <2>1. /\ c \in both /\ c \in Path /\ IsPrefix(p, c) /\ Len(c) = Len(p) + 1 /\ Len(p) \in Nat
        /\ x \in cuts(p)
      BY <1>1, <1>2, LenProperties DEF ChildrenIn, Path
  <2>2. x.path \in Path /\ IsPrefix(c, x.path)
      BY <2>1, CutsAreBelow
  <2>3. x.path # p
      BY <1>1, <2>1, <2>2, PrefixIs
  <2>4. ASSUME NEW y \in cuts(p), IsBelow(y.path, x.path)
        PROVE  y \in cuts(c)
    <3>1. y.path \in Path /\ IsPrefix(x.path, y.path)
        BY <2>4, CutsAreBelow DEF IsBelow
    <3>2. IsPrefix(c, y.path)
        BY <2>1, <2>2, <3>1, PrefixOrder
    <3> QED
        BY <3>2, CutsOfChild
  <2> QED
      BY <1>2, <2>1, <2>3, <2>4 DEF Deepest
<1>5. ASSUME NEW x \in cuts(p), x.path # p
      PROVE  x \in here \/ \E c \in ChildrenIn(both, p) : x \in cuts(c)
  <2>1. \/ x \in here
        \/ \E c \in ChildrenIn(both, p) : x \in cuts(c)
        \/ x = HashMismatch(p) /\ p # Root
      BY CutsSplit
  <2> QED
      BY <1>5, <2>1 DEF HashMismatch
<1> HIDE DEF cuts, here, both
<1>6. \A c : Deepest(cuts(c)) \subseteq cuts(c)
    BY DEF Deepest
<1>7. \A x \in here : x \in Deepest(cuts(p))
    BY <1>2, <1>3 DEF Deepest
<1>8. ASSUME NEW x
      PROVE  x \in Deepest(cuts(p)) /\ x.path # p <=>
                x \in here \/ \E c \in ChildrenIn(both, p) : x \in Deepest(cuts(c))
    BY <1>3, <1>4, <1>5, <1>6, <1>7
<1>9. {x \in Deepest(cuts(p)) : x.path # p} =
          here \cup UNION {Deepest(cuts(c)) : c \in ChildrenIn(both, p)}
    BY <1>8, Zenon
<1> QED
    BY <1>9 DEF cuts, here, both

IsDeepest(shown, paths, other, keep, p) ==
    /\ shown = {d \in Deepest(CutsBelow(paths, other, keep, p)) : d.path # p}
    /\ shown = {} => CutsBelow(paths, other, keep, p) \subseteq {HashMismatch(p)}

(* What a child with another hash adds at its parent. *)
Carried(shown, p) == IF shown = {} THEN {HashMismatch(p)} ELSE shown

LEMMA ShownOrMismatch ==
    ASSUME NEW paths, NEW other, NEW keep, AreCut(paths, other, keep),
           NEW p \in Common(paths, other, keep), CutsBelow(paths, other, keep, p) # {},
           NEW shown, IsDeepest(shown, paths, other, keep, p)
    PROVE  Carried(shown, p) = Deepest(CutsBelow(paths, other, keep, p))
<1> DEFINE cuts == CutsBelow(paths, other, keep, p)
<1>1. \A x \in cuts : /\ IsPrefix(p, x.path)
                      /\ x.path = p => x = HashMismatch(p)
    BY CutsAreBelow, CutsOfChild
<1>2. HashMismatch(p).path = p /\ HashMismatch(p).diff = "HashMismatch"
    BY DEF HashMismatch
<1> HIDE DEF cuts
<1>3. CASE shown = {}
  <2>1. cuts = {HashMismatch(p)}
      BY <1>3 DEF cuts, IsDeepest
  <2>2. Deepest(cuts) = {HashMismatch(p)}
      BY <1>2, <2>1 DEF Deepest, IsBelow
  <2> QED
      BY <1>3, <2>2 DEF cuts, Carried
<1>4. CASE shown # {}
  <2>1. PICK y \in Deepest(cuts) : y.path # p
      BY <1>4 DEF cuts, IsDeepest
  <2>2. y \in cuts /\ IsBelow(y.path, p)
      BY <1>1, <2>1 DEF Deepest, IsBelow
  <2>3. \A x \in Deepest(cuts) : x.path # p
      BY <1>1, <1>2, <2>2 DEF Deepest
  <2> QED
      BY <1>4, <2>3 DEF cuts, IsDeepest, Carried
<1> QED
    BY <1>3, <1>4

(* Two extracts of the same kept nodes, compared. *)
IsExtract(x, t, keep) ==
    /\ DOMAIN x = DOMAIN t \cap keep
    /\ \A p \in DOMAIN x \ {Root} : x[p].hash = t[p].hash

LEMMA ExtractIs ==
    ASSUME NEW t, DOMAIN t \in SUBSET Path, Root \in DOMAIN t, NEW prefix, NEW depth
    PROVE  IsExtract(Extract(t, prefix, depth), t, Kept(prefix, depth))
<1> DEFINE kept == {p \in DOMAIN t \ {Root} :
                       PrefixMatch(prefix, p) /\ Len(p) <= Len(prefix) + depth}
           x == Extract(t, prefix, depth)
<1>1. x = [p \in {Root} \cup kept |->
             IF p = Root THEN EmptyTree[Root]
             ELSE [hash |-> t[p].hash, manual |-> t[p].hash, dirty |-> TRUE]]
    BY DEF Extract
<1>2. {Root} \cup kept = DOMAIN t \cap Kept(prefix, depth)
    BY DEF Kept
<1> HIDE DEF kept, x
<1>3. DOMAIN x = {Root} \cup kept /\ \A p \in DOMAIN x \ {Root} : x[p].hash = t[p].hash
    BY <1>1
<1> QED
    BY <1>2, <1>3 DEF IsExtract, x

LEMMA ChildDiffers ==
    ASSUME NEW t, NEW other, Plain(t), Plain(other),
           NEW keep, AreCut(DOMAIN t, DOMAIN other, keep),
           NEW x, NEW y, IsExtract(x, t, keep), IsExtract(y, other, keep),
           NEW p \in Common(DOMAIN t, DOMAIN other, keep),
           NEW c \in ChildrenIn(Common(DOMAIN t, DOMAIN other, keep), p)
    PROVE  c \in Differing(x, y, p) <=> CutsBelow(DOMAIN t, DOMAIN other, keep, c) # {}
<1>1. /\ c \in DOMAIN t \cap DOMAIN other /\ c \in DOMAIN x /\ c \in DOMAIN y
      /\ Len(c) = Len(p) + 1 /\ IsPrefix(p, c) /\ p \in Path
    BY CommonIs DEF ChildrenIn, Common, IsExtract
<1>2. c # Root
    BY <1>1, RootAbove, LenProperties DEF Path
<1>3. x[c].hash = t[c].hash /\ y[c].hash = other[c].hash
    BY <1>1, <1>2 DEF IsExtract
<1>4. t[c].hash = other[c].hash <=> Below(DOMAIN t, DOMAIN other, c) = {}
    BY <1>1, HashTells DEF AreCut
<1>5. c \in Differing(x, y, p) <=> x[c].hash # y[c].hash
    BY <1>1 DEF Differing, Children, ChildrenIn
<1>6. CutsBelow(DOMAIN t, DOMAIN other, keep, c) = {} <=> Below(DOMAIN t, DOMAIN other, c) = {}
    BY Zenon DEF CutsBelow
<1> QED
    BY <1>3, <1>4, <1>5, <1>6

LEMMA HereShown ==
    ASSUME NEW t, NEW other, NEW keep, AreCut(DOMAIN t, DOMAIN other, keep),
           NEW x, NEW y, IsExtract(x, t, keep), IsExtract(y, other, keep),
           NEW p \in Common(DOMAIN t, DOMAIN other, keep)
    PROVE  {MissingOther(q) : q \in Children(x, p) \ DOMAIN y}
           \cup {MissingSelf(q) : q \in Children(y, p) \ DOMAIN x} =
               Here(DOMAIN t, DOMAIN other, keep, p)
<1>1. /\ Children(x, p) \ DOMAIN y = (ChildrenIn(DOMAIN t, p) \ DOMAIN other) \cap keep
      /\ Children(y, p) \ DOMAIN x = (ChildrenIn(DOMAIN other, p) \ DOMAIN t) \cap keep
    BY DEF Children, ChildrenIn, IsExtract
<1> QED
    BY <1>1 DEF Here

LEMMA ExtractShown ==
    ASSUME NEW t, NEW other, Plain(t), Plain(other),
           NEW keep, AreCut(DOMAIN t, DOMAIN other, keep),
           NEW x, NEW y, IsExtract(x, t, keep), IsExtract(y, other, keep),
           NEW at, IsShown(at, x, y, Common(DOMAIN t, DOMAIN other, keep))
    PROVE  \A p \in Common(DOMAIN t, DOMAIN other, keep) :
               IsDeepest(at[p], DOMAIN t, DOMAIN other, keep, p)
<1> DEFINE both == Common(DOMAIN t, DOMAIN other, keep)
           cuts(p) == CutsBelow(DOMAIN t, DOMAIN other, keep, p)
           here(p) == Here(DOMAIN t, DOMAIN other, keep, p)
           S == {p \in both : IsDeepest(at[p], DOMAIN t, DOMAIN other, keep, p)}
           below(c) == Carried(at[c], c)
<1>1. both \in SUBSET Path /\ Grounded(both)
    BY CommonIs
<1>2. ASSUME NEW p \in both, ChildrenIn(both, p) \subseteq S
      PROVE  p \in S
  <2>1. at[p] = Shown(at, x, y, p)
      BY DEF IsShown
  <2>2. at[p] = here(p) \cup UNION {below(c) : c \in Differing(x, y, p)}
      BY <2>1, HereShown DEF Shown, Carried
  <2>3. Differing(x, y, p) \subseteq ChildrenIn(both, p)
    <3>1. DOMAIN x \cap DOMAIN y = both
        BY DEF IsExtract, Common
    <3> QED
        BY <3>1, DifferingIs
  <2>4. \A c \in ChildrenIn(both, p) : c \in Differing(x, y, p) <=> cuts(c) # {}
      BY ChildDiffers
  <2>5. ASSUME NEW c \in Differing(x, y, p)
        PROVE  below(c) = Deepest(cuts(c)) /\ below(c) # {}
    <3>1. c \in both /\ cuts(c) # {} /\ IsDeepest(at[c], DOMAIN t, DOMAIN other, keep, c)
        BY <1>2, <2>3, <2>4
    <3>2. below(c) = Deepest(cuts(c))
        BY <3>1, ShownOrMismatch
    <3>3. below(c) # {}
        BY DEF Carried
    <3> QED
        BY <3>2, <3>3
  <2>6. \A c \in ChildrenIn(both, p) \ Differing(x, y, p) : Deepest(cuts(c)) = {}
      BY <2>4 DEF Deepest
  <2>7. {d \in Deepest(cuts(p)) : d.path # p} =
            here(p) \cup UNION {Deepest(cuts(c)) : c \in ChildrenIn(both, p)}
      BY DeepestSplit
  <2>8. ASSUME NEW d \in cuts(p)
        PROVE  \/ d \in here(p)
               \/ \E c \in ChildrenIn(both, p) : d \in cuts(c)
               \/ d = HashMismatch(p)
      BY CutsSplit
  <2> HIDE DEF below, cuts, here, both, S
  <2>9. UNION {below(c) : c \in Differing(x, y, p)} =
        UNION {Deepest(cuts(c)) : c \in ChildrenIn(both, p)}
      BY <2>3, <2>5, <2>6
  <2>10. at[p] = {d \in Deepest(cuts(p)) : d.path # p}
      BY <2>2, <2>7, <2>9
  <2>11. ASSUME at[p] = {}
         PROVE  cuts(p) \subseteq {HashMismatch(p)}
    <3>1. here(p) = {} /\ \A c \in Differing(x, y, p) : FALSE
        BY <2>2, <2>5, <2>11
    <3>2. \A c \in ChildrenIn(both, p) : cuts(c) = {}
        BY <2>4, <3>1
    <3> QED
        BY <2>8, <3>1, <3>2
  <2>12. IsDeepest(at[p], DOMAIN t, DOMAIN other, keep, p)
      BY <2>10, <2>11 DEF IsDeepest, cuts
  <2> QED
      BY <2>12 DEF S
<1> HIDE DEF S, both
<1>3. both \subseteq S
    BY <1>1, <1>2, FromBelow
<1> QED
    BY <1>3 DEF S, both

LEMMA ExtractsShow ==
    ASSUME NEW t, NEW other, ArePaths(DOMAIN t), ArePaths(DOMAIN other), Plain(t), Plain(other),
           NEW prefix \in Path, NEW depth \in Nat \ {0}
    PROVE  Diff(Extract(t, prefix, depth), Extract(other, prefix, depth)) =
               Deepest({Cut(d, prefix, depth) : d \in Differences(DOMAIN t, DOMAIN other)})
<1> DEFINE keep == Kept(prefix, depth)
           x == Extract(t, prefix, depth)
           y == Extract(other, prefix, depth)
           both == Common(DOMAIN t, DOMAIN other, keep)
           cuts == CutsBelow(DOMAIN t, DOMAIN other, keep, Root)
<1>1. AreCut(DOMAIN t, DOMAIN other, keep)
    BY KeptIs DEF AreCut
<1>2. IsExtract(x, t, keep) /\ IsExtract(y, other, keep)
    BY ExtractIs DEF ArePaths
<1>3. DOMAIN x \cap DOMAIN y = both
    BY <1>2 DEF IsExtract, Common
<1>4. Root \in both /\ Grounded(both)
    BY <1>1, CommonIs
<1> HIDE DEF keep, x, y
<1>5. PICK at : IsShown(at, x, y, both) /\ Diff(x, y) = at[Root]
    BY <1>3, <1>4, DiffIs
<1>6. IsDeepest(at[Root], DOMAIN t, DOMAIN other, keep, Root)
    BY <1>1, <1>2, <1>4, <1>5, ExtractShown
<1>7. \A d \in cuts : d.path # Root
    BY <1>1, <1>4, CutsOfChild
<1>8. at[Root] = Deepest(cuts)
    BY <1>6, <1>7 DEF IsDeepest, Deepest
<1>9. cuts = {Cut(d, prefix, depth) : d \in Differences(DOMAIN t, DOMAIN other)}
  <2>1. /\ DOMAIN t \in SUBSET Path /\ DOMAIN other \in SUBSET Path
        /\ Root \in DOMAIN t \cap DOMAIN other
      BY DEF ArePaths
  <2>2. Below(DOMAIN t, DOMAIN other, Root) = Differences(DOMAIN t, DOMAIN other)
      BY <2>1, BelowRoot
  <2>3. ASSUME NEW d \in Below(DOMAIN t, DOMAIN other, Root)
        PROVE  Cut(d, prefix, depth) = CutTo(d, keep)
    <3>1. d.path \in Path \ {Root}
        BY <2>1, BelowHas
    <3> QED
        BY <3>1, CutIs DEF keep
  <2> QED
      BY <2>2, <2>3 DEF CutsBelow
<1> QED
    BY <1>5, <1>8, <1>9 DEF x, y

LEMMA TypeExtracts == TypeInv => ExtractDiffExact
<1> SUFFICES ASSUME TypeInv, Fresh(tree), Labels(tree) = {},
                    NEW peer \in PlainPeers, NEW prefix \in Paths, NEW depth \in 1..2
             PROVE  Diff(Extract(tree, prefix, depth), Extract(peer, prefix, depth)) =
                        Deepest({Cut(d, prefix, depth) :
                                    d \in Differences(DOMAIN tree, DOMAIN peer)})
    BY DEF ExtractDiffExact, Deepest
<1>1. ArePaths(DOMAIN tree) /\ Plain(tree)
    BY TypeFacts DEF ArePaths, Grounded, Plain
<1>2. PICK elements \in PeerContents : peer = Peer(elements, Root, NoHash)
    BY DEF PlainPeers
<1>3. ArePaths(DOMAIN peer) /\ Plain(peer)
    BY <1>2, PlainPeerIs
<1>4. prefix \in Path
  <2>1. Elements \in SUBSET Path
      BY ElementsArePaths
  <2> QED
      BY <2>1, PathsOfElements DEF Paths
<1>5. depth \in Nat \ {0}
    OBVIOUS
<1> QED
    BY <1>1, <1>3, <1>4, <1>5, ExtractsShow

(* For any elements and any prefix: comparing two extracts shows every      *)
(* difference of the trees where it is, or at the deepest node above it     *)
(* that was kept, and no other.  (sync.rs, extract, prefix_match and diff.) *)
THEOREM ExtractsAlwaysExact == Spec => []ExtractDiffExact
BY TypeExtracts, TypeInvariant, PTL
=============================================================================
