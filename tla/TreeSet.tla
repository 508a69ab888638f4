------------------------------- MODULE TreeSet -------------------------------
(***************************************************************************)
(* The hash tree of src/src/sync.rs, with which two nodes could find what  *)
(* premints they do not share: a set of paths, a hash per node that covers *)
(* everything below it, and a diff that only descends where hashes differ. *)
(*                                                                         *)
(* A tree is a function from its paths, the root's <<>> included, to nodes;*)
(* a node's value is the last entry of its path.  The children vector is   *)
(* kept sorted by binary search, so a value occurs at most once in it.     *)
(*                                                                         *)
(* xxh3 is taken to have no collisions: a digest is the record of what was *)
(* fed to it.  A hash given by the caller is any u64, of which a parent is *)
(* fed the low half only (U64Buffer).                                      *)
(***************************************************************************)
EXTENDS Naturals, Sequences, SequencesExt, FiniteSets

CONSTANTS
    Elements,       \* the full paths that are inserted
    Labelled,       \* those that may be inserted with a hash of the caller's
    Hashes,         \* the hashes callers give, as [hi, lo]
    PeerContents,   \* what the tree is compared with: sets of elements
    PeerHashes      \* and hashes one element of these may have been given

ASSUME ElementAssumption ==
    /\ Elements \subseteq Seq(Nat) \ {<<>>} /\ Labelled \subseteq Elements
    /\ \A elements \in PeerContents : elements \subseteq Elements /\ IsFiniteSet(elements)
ASSUME HashAssumption == Hashes \cup PeerHashes \subseteq [hi: Nat, lo: Nat]

VARIABLES
    tree,
    content     \* history: the elements inserted

vars == <<tree, content>>

Root == <<>>
Unhashed == [hi |-> 0, lo |-> 0]
NoHash == [none |-> TRUE]       \* manual_hash: None

IsBelow(p, a) == IsPrefix(a, p) /\ p # a
Ancestors(p) == {SubSeq(p, 1, i) : i \in 0..(Len(p) - 1)}
PathsOf(elements) == {Root} \cup UNION {{e} \cup Ancestors(e) : e \in elements}
Paths == PathsOf(Elements)

-----------------------------------------------------------------------------
(***************************************************************************)
(* Hashing.  update_hash feeds the hasher the low 32 bits of each child's  *)
(* hash as it stands, in the order of their values, then the node's value. *)
(***************************************************************************)
ChildrenIn(paths, p) == {q \in paths : Len(q) = Len(p) + 1 /\ IsPrefix(p, q)}
Children(t, p) == ChildrenIn(DOMAIN t, p)
Place(kids, q) == Cardinality({r \in kids : Last(r) < Last(q)})
Value(p) == IF p = Root THEN 0 ELSE Last(p)

(* Mutant: the high half in place of the low one. *)
FedHigh(hash) == IF "lo" \in DOMAIN hash THEN [lo |-> hash.hi] ELSE hash
Fed(hash) == IF "lo" \in DOMAIN hash THEN [lo |-> hash.lo] ELSE hash

Digest(p, kids, hash) ==
    [value |-> Value(p), kids |-> {<<Place(kids, q), Fed(hash[q])>> : q \in kids}]

UpdateHash(t, p) ==
    [t EXCEPT ![p] =
        IF @.manual # NoHash THEN [@ EXCEPT !.hash = t[p].manual, !.dirty = FALSE]
        ELSE IF ~@.dirty THEN @
        ELSE [@ EXCEPT !.hash = Digest(p, Children(t, p), [q \in Children(t, p) |-> t[q].hash]),
                       !.dirty = FALSE]]

(* rehash: children first, then the node itself, if it is dirty. *)
Rehashed(t) ==
    LET new[p \in DOMAIN t] ==
            IF t[p].manual # NoHash THEN t[p].manual
            ELSE IF ~t[p].dirty THEN t[p].hash
            ELSE Digest(p, Children(t, p), new)
    IN  [p \in DOMAIN t |-> [t[p] EXCEPT !.hash = new[p], !.dirty = FALSE]]

(***************************************************************************)
(* insert: the nodes on the way are created where missing and become dirty;*)
(* an updating insert hashes what it creates, then, on the way back, the   *)
(* target (unless it was given a hash) and every node above it.            *)
(***************************************************************************)
NewNode(p, update) ==
    [hash |-> IF update THEN Digest(p, {}, <<>>) ELSE Unhashed,
     manual |-> NoHash, dirty |-> ~update]

(* Mutants: a new node takes the place of an existing target; an existing   *)
(* node on the way stays clean.                                             *)
PlacedAfresh(t, e, hash, update) ==
    LET kept == {p \in DOMAIN t : ~IsPrefix(e, p)}
        node(p) == IF p \in kept THEN t[p] ELSE NewNode(p, update)
    IN  [p \in kept \cup PathsOf({e}) |->
            IF p \in Ancestors(e) THEN [node(p) EXCEPT !.dirty = TRUE]
            ELSE IF p = e /\ hash # NoHash THEN [node(p) EXCEPT !.hash = hash, !.manual = hash]
            ELSE node(p)]

PlacedClean(t, e, hash, update) ==
    LET node(p) == IF p \in DOMAIN t THEN t[p] ELSE NewNode(p, update)
    IN  [p \in DOMAIN t \cup PathsOf({e}) |->
            IF p = e /\ hash # NoHash THEN [node(p) EXCEPT !.hash = hash, !.manual = hash]
            ELSE node(p)]

Placed(t, e, hash, update) ==
    LET node(p) == IF p \in DOMAIN t THEN t[p] ELSE NewNode(p, update)
    IN  [p \in DOMAIN t \cup PathsOf({e}) |->
            IF p \in Ancestors(e) THEN [node(p) EXCEPT !.dirty = TRUE]
            ELSE IF p = e /\ hash # NoHash THEN [node(p) EXCEPT !.hash = hash, !.manual = hash]
            ELSE node(p)]

(* The nodes an updating insert hashes, in order. *)
WayBack(e, hash) ==
    [i \in 1..(IF hash = NoHash THEN Len(e) + 1 ELSE Len(e)) |->
        SubSeq(e, 1, (IF hash = NoHash THEN Len(e) + 1 ELSE Len(e)) - i)]

Inserted(t, e, hash, update) ==
    LET placed == Placed(t, e, hash, update)
    IN  IF update THEN FoldLeft(UpdateHash, placed, WayBack(e, hash)) ELSE placed

EmptyTree == [p \in {Root} |-> [hash |-> Unhashed, manual |-> NoHash, dirty |-> TRUE]]

-----------------------------------------------------------------------------
(***************************************************************************)
(* What a tree is asked.  A node at the top matches whatever the prefix is,*)
(* because its path, the nodes above it, is empty.                         *)
(***************************************************************************)
PrefixMatch(prefix, p) ==
    \/ prefix = <<>> \/ Len(p) = 1
    \/ IsPrefix(p, prefix) \/ IsPrefix(prefix, p)

(* Mutant: as deep as depth, wherever the prefix ends. *)
ExtractShallow(t, prefix, depth) ==
    LET kept == {p \in DOMAIN t \ {Root} : PrefixMatch(prefix, p) /\ Len(p) <= depth}
    IN  [p \in {Root} \cup kept |->
            IF p = Root THEN EmptyTree[Root]
            ELSE [hash |-> t[p].hash, manual |-> t[p].hash, dirty |-> TRUE]]

(* Every kept node is inserted with its hash; its parent was kept before it. *)
Extract(t, prefix, depth) ==
    LET kept == {p \in DOMAIN t \ {Root} :
                    PrefixMatch(prefix, p) /\ Len(p) <= Len(prefix) + depth}
    IN  [p \in {Root} \cup kept |->
            IF p = Root THEN EmptyTree[Root]
            ELSE [hash |-> t[p].hash, manual |-> t[p].hash, dirty |-> TRUE]]

MissingSelf(p)  == [diff |-> "MissingSelf", path |-> p]
MissingOther(p) == [diff |-> "MissingOther", path |-> p]
HashMismatch(p) == [diff |-> "HashMismatch", path |-> p]

(* Mutant: a mismatch on every node on the way. *)
DiffVerbose(t, other) ==
    LET at[p \in DOMAIN t \cap DOMAIN other] ==
            {MissingOther(q) : q \in Children(t, p) \ DOMAIN other}
            \cup {MissingSelf(q) : q \in Children(other, p) \ DOMAIN t}
            \cup UNION {at[q] \cup {HashMismatch(q)} :
                        q \in {c \in Children(t, p) \cap DOMAIN other : t[c].hash # other[c].hash}}
    IN  at[Root]

(***************************************************************************)
(* diff: merge the two lists of children; where a value is in both and the *)
(* hashes differ, what is found below, or a mismatch if nothing is.        *)
(***************************************************************************)
Diff(t, other) ==
    LET at[p \in DOMAIN t \cap DOMAIN other] ==
            {MissingOther(q) : q \in Children(t, p) \ DOMAIN other}
            \cup {MissingSelf(q) : q \in Children(other, p) \ DOMAIN t}
            \cup UNION {IF at[q] = {} THEN {HashMismatch(q)} ELSE at[q] :
                        q \in {c \in Children(t, p) \cap DOMAIN other : t[c].hash # other[c].hash}}
    IN  at[Root]

-----------------------------------------------------------------------------
Init == tree = EmptyTree /\ content = {}

Insert(e) ==
    /\ tree' = Inserted(tree, e, NoHash, FALSE)
    /\ content' = content \cup {e}

InsertUpdate(e) ==
    /\ tree' = Inserted(tree, e, NoHash, TRUE)
    /\ content' = content \cup {e}

InsertWithHash(e, hash) ==
    /\ tree' = Inserted(tree, e, hash, FALSE)
    /\ content' = content \cup {e}

InsertWithHashUpdate(e, hash) ==
    /\ tree' = Inserted(tree, e, hash, TRUE)
    /\ content' = content \cup {e}

Rehash ==
    /\ tree' = Rehashed(tree)
    /\ UNCHANGED content

Updating ==
    \/ \E e \in Elements : InsertUpdate(e)
    \/ \E e \in Labelled, hash \in Hashes : InsertWithHashUpdate(e, hash)

Next ==
    \/ \E e \in Elements : Insert(e)
    \/ \E e \in Labelled, hash \in Hashes : InsertWithHash(e, hash)
    \/ Updating
    \/ Rehash

Spec == Init /\ [][Next]_vars
-----------------------------------------------------------------------------
(***************************************************************************)
(* Properties.                                                             *)
(***************************************************************************)

(* The hashes a tree of these paths and given hashes should have.          *)
FreshHashes(t) ==
    LET fresh[p \in DOMAIN t] ==
            IF t[p].manual # NoHash THEN t[p].manual ELSE Digest(p, Children(t, p), fresh)
    IN  fresh
Stale(t) == {p \in DOMAIN t : t[p].hash # FreshHashes(t)[p]}
Fresh(t) == Stale(t) = {}

Peer(elements, label, hash) ==
    LET plain == [p \in PathsOf(elements) |-> NewNode(p, FALSE)]
    IN  Rehashed(IF label = Root THEN plain ELSE Placed(plain, label, hash, FALSE))
PlainPeers == {Peer(elements, Root, NoHash) : elements \in PeerContents}
Peers == PlainPeers \cup
         UNION {{Peer(elements, e, hash) : e \in elements \cap Labelled, hash \in PeerHashes} :
                elements \in PeerContents}

(* The paths of a tree are those of what was inserted, and its root has no  *)
(* hash of the caller's.                                                    *)
TypeOK ==
    /\ content \subseteq Elements /\ DOMAIN tree = PathsOf(content)
    /\ \A p \in DOMAIN tree : tree[p].dirty \in BOOLEAN
                            /\ tree[p].manual \in Hashes \cup {NoHash}
    /\ tree[Root].manual = NoHash

(* A node that is not dirty has the hash of what is below it, so that a     *)
(* rehash finds every node it must recompute.  This ends in one way only:   *)
(* an updating insert while other nodes still await a rehash, which makes a *)
(* parent clean over a child's old hash, and so it stays until another      *)
(* insert passes the parent.  (sync.rs, insert and update_hash.)            *)
Sound(t) == \A p \in Stale(t) : t[p].dirty
StaleOnlyByMixing ==
    [][Sound(tree) => Sound(tree') \/ (Updating /\ ~Fresh(tree))]_vars

(* Comparing two sets of elements: the paths at which one of them ends.     *)
Tops(paths, other) == {p \in paths \ other : \A a \in Ancestors(p) : a \in other}
Differences(paths, other) ==
    {MissingOther(p) : p \in Tops(paths, other)} \cup {MissingSelf(p) : p \in Tops(other, paths)}
Labels(t) == {p \in DOMAIN t : t[p].manual # NoHash}

(* diff invents nothing, whatever the hashes; between trees that are        *)
(* rehashed and carry no hashes of the caller's it misses nothing and       *)
(* reports no mismatch.  (sync.rs, diff; test_tree_diff.)                   *)
DiffExact ==
    \A peer \in PlainPeers :
        LET found == Diff(tree, peer)
            expected == Differences(DOMAIN tree, DOMAIN peer)
        IN  /\ {d \in found : d.diff # "HashMismatch"} \subseteq expected
            /\ Fresh(tree) /\ Labels(tree) = {} => found = expected

(* A hash given to an element is compared through every parent by its low   *)
(* half: a difference there is found, at the element or below it, unless a  *)
(* node above it was given a hash too.  A difference in the high half only  *)
(* is seen by nobody above.  (sync.rs, U64Buffer and diff.)                 *)
SameLow(hash, other) ==
    \/ hash = other
    \/ "lo" \in (DOMAIN hash \cap DOMAIN other) /\ hash.lo = other.lo
LabelsCompared ==
    Fresh(tree) =>
        \A peer \in Peers : LET found == Diff(tree, peer) IN
            \A p \in (DOMAIN tree \cap DOMAIN peer) \ {Root} :
                /\ ~SameLow(tree[p].hash, peer[p].hash)
                /\ Ancestors(p) \cap (Labels(tree) \cup Labels(peer)) = {}
                => \E d \in found : IsPrefix(p, d.path)

(* Two extracts of the same prefix and depth show the same differences as   *)
(* the trees, each at its path or, where that was cut off, as a mismatch of *)
(* the deepest node kept above it, if nothing below that node differs.      *)
(* A difference outside the prefix may show too: its top-level node is kept.*)
(* (sync.rs, extract and prefix_match; the test's "extract all nodes with   *)
(* kind=Test and chain_id=1", 546.)                                         *)
Cut(d, prefix, depth) ==
    LET kept == {i \in DOMAIN d.path : LET p == SubSeq(d.path, 1, i) IN
                    PrefixMatch(prefix, p) /\ Len(p) <= Len(prefix) + depth}
    IN  IF Len(d.path) \in kept THEN d ELSE HashMismatch(SubSeq(d.path, 1, Max(kept)))

ExtractDiffExact ==
    Fresh(tree) /\ Labels(tree) = {} =>
        \A peer \in PlainPeers, prefix \in Paths, depth \in 1..2 :
            LET cuts == {Cut(d, prefix, depth) : d \in Differences(DOMAIN tree, DOMAIN peer)}
            IN  Diff(Extract(tree, prefix, depth), Extract(peer, prefix, depth)) =
                    {d \in cuts : d.diff = "HashMismatch" =>
                                    \A c \in cuts : ~IsBelow(c.path, d.path)}
=============================================================================
