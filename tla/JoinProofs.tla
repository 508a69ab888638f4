----------------------------- MODULE JoinProofs -----------------------------
(***************************************************************************)
(* What holds of a joining node for any names, peers, limit and addresses: *)
(* the contract's count and logs, and the connections the node keeps.      *)
(***************************************************************************)
EXTENDS Join, FiniteSetTheorems, FunctionTheorems, NumberLemmas, TLAPS

(* The names of a batch are finitely many, at most its length, and exactly  *)
(* its length if none repeats.                                              *)
LEMMA BatchNames ==
    ASSUME NEW names \in Batches
    PROVE  /\ names \in Seq(TrustNames) /\ Len(names) \in Nat
           /\ Range(names) \subseteq TrustNames
           /\ IsFiniteSet(Range(names))
           /\ Cardinality(Range(names)) \in 0..Len(names)
           /\ IsInjective(names) => Cardinality(Range(names)) = Len(names)
<1>1. PICK n \in 0..MaxBatch : names \in [1..n -> TrustNames]
    BY DEF Batches
<1>2. n \in Nat
    BY RegistryBoundAssumption
<1>3. names \in Seq(TrustNames) /\ Len(names) = n /\ DOMAIN names = 1..n
    BY <1>1, <1>2
<1>4. IsFiniteSet(1..n) /\ Cardinality(1..n) = n
    BY <1>2, FS_Interval
<1>5. names \in Surjection(1..n, Range(names))
    BY <1>1 DEF Surjection, Range
<1>6. /\ IsFiniteSet(Range(names))
      /\ Cardinality(Range(names)) <= n
      /\ Cardinality(Range(names)) = n <=> names \in Injection(1..n, Range(names))
    BY <1>4, <1>5, FS_Surjection
<1>7. IsInjective(names) => names \in Injection(1..n, Range(names))
    BY <1>5 DEF Surjection, Injection
<1>8. Range(names) \subseteq TrustNames
    BY <1>1 DEF Range
<1>9. Cardinality(Range(names)) \in Nat
    BY <1>6, FS_CardinalityType
<1> QED
    BY <1>2, <1>3, <1>6, <1>7, <1>8, <1>9

-----------------------------------------------------------------------------
(* Adding a batch adds its length to the number of trusted nodes, removing  *)
(* one takes away what it names of them: the arithmetic of the count.       *)
LEMMA AddedCount ==
    ASSUME NEW names \in Batches, NEW old \in SUBSET TrustNames,
           IsInjective(names), Range(names) \cap old = {}
    PROVE  Cardinality(old \cup Range(names)) = Cardinality(old) + Len(names)
<1>1. IsFiniteSet(old) /\ IsFiniteSet(Range(names))
    BY NamesAssumption, FS_Subset, BatchNames
<1>2. Cardinality(old \cup Range(names)) =
        Cardinality(old) + Cardinality(Range(names)) - Cardinality(old \cap Range(names))
    BY <1>1, FS_Union
<1>3. Cardinality(old \cap Range(names)) = 0
    BY FS_EmptySet
<1>4. Cardinality(old) \in Nat /\ Len(names) \in Nat
    BY <1>1, FS_CardinalityType, BatchNames
<1> QED
    BY <1>2, <1>3, <1>4, BatchNames

LEMMA RemovedCount ==
    ASSUME NEW names \in Batches, NEW old \in SUBSET TrustNames
    PROVE  /\ Cardinality(old \ Range(names)) =
                Cardinality(old) - Cardinality(Range(names) \cap old)
           /\ Len(names) - Cardinality(Range(names) \cap old) \in Nat
           /\ Cardinality(old) \in Nat
<1>1. IsFiniteSet(old) /\ IsFiniteSet(Range(names))
    BY NamesAssumption, FS_Subset, BatchNames
<1>2. Cardinality(old \ Range(names)) =
        Cardinality(old) - Cardinality(old \cap Range(names))
    BY <1>1, FS_Difference
<1>3. /\ IsFiniteSet(Range(names) \cap old)
      /\ Cardinality(Range(names) \cap old) <= Cardinality(Range(names))
    BY <1>1, FS_Subset
<1>4. Cardinality(Range(names) \cap old) \in Nat /\ Cardinality(old) \in Nat
    BY <1>1, <1>3, FS_CardinalityType
<1>5. Cardinality(Range(names)) \in 0..Len(names) /\ Len(names) \in Nat
    BY BatchNames
<1>6. old \cap Range(names) = Range(names) \cap old
    OBVIOUS
<1>7. Len(names) - Cardinality(Range(names) \cap old) \in Nat
    BY <1>3, <1>4, <1>5
<1>8. Cardinality(old \ Range(names)) =
        Cardinality(old) - Cardinality(Range(names) \cap old)
    BY <1>2, <1>6
<1> QED
    BY <1>4, <1>7, <1>8

(* What the contract keeps, with the types its arithmetic needs. *)
ContractInv ==
    /\ trusted \subseteq TrustNames
    /\ count \in Nat /\ strays \in Nat
    /\ added \in Seq(TrustNames) /\ logs \in Seq(TrustNames)
    /\ CountDriftsByStrays
    /\ TrustedInLogs

(* A longer log keeps what was in it, in its place. *)
LEMMA LogsGrow ==
    ASSUME NEW s \in Seq(TrustNames), NEW t \in Seq(TrustNames)
    PROVE  /\ s \o t \in Seq(TrustNames)
           /\ Range(s) \cup Range(t) \subseteq Range(s \o t)
           /\ \A u \in Seq(TrustNames) : IsPrefix(u, s) => IsPrefix(u, s \o t)
<1>1. s \o t \in Seq(TrustNames) /\ Len(s \o t) = Len(s) + Len(t)
    OBVIOUS
<1>2. /\ \A i \in 1..Len(s) : (s \o t)[i] = s[i]
      /\ \A i \in 1..Len(t) : (s \o t)[Len(s) + i] = t[i]
    OBVIOUS
<1>3. Range(s) \subseteq Range(s \o t)
    BY <1>1, <1>2 DEF Range
<1>4. Range(t) \subseteq Range(s \o t)
  <2>1. SUFFICES ASSUME NEW i \in 1..Len(t)
                 PROVE  t[i] \in Range(s \o t)
      BY DEF Range
  <2>2. Len(s) + i \in 1..Len(s \o t) /\ t[i] = (s \o t)[Len(s) + i]
      BY <1>1, <1>2
  <2> QED
      BY <1>1, <2>2 DEF Range
<1>5. ASSUME NEW u \in Seq(TrustNames), IsPrefix(u, s)
      PROVE  IsPrefix(u, s \o t)
  <2>1. Len(u) <= Len(s) /\ \A i \in 1..Len(u) : u[i] = s[i]
      BY <1>5 DEF IsPrefix
  <2>2. Len(u) <= Len(s \o t) /\ \A i \in 1..Len(u) : u[i] = (s \o t)[i]
      BY <1>1, <1>2, <2>1
  <2> QED
      BY <1>1, <2>2 DEF IsPrefix
<1> QED
    BY <1>1, <1>3, <1>4, <1>5

-----------------------------------------------------------------------------
(***************************************************************************)
(* Kept: the names of a list that are in a set.  FoldLeft is a recursive   *)
(* function on the sets of indices; that there is one is shown by adding   *)
(* an index at a time, and so is what it comes to.                         *)
(***************************************************************************)
KeptOf(f, names, still, s) ==
    IF s = {} THEN <<>>
    ELSE IF names[Max(s)] \in still THEN Append(f[s \ {Max(s)}], names[Max(s)])
                                    ELSE f[s \ {Max(s)}]
IsKeptFcn(f, names, still, n) ==
    f = [s \in SUBSET (1..n) |-> KeptOf(f, names, still, s)]

LEMMA KeptFcnExists ==
    ASSUME NEW names, NEW still
    PROVE  \A n \in Nat : \E f : IsKeptFcn(f, names, still, n)
<1> DEFINE S == {n \in Nat : \E f : IsKeptFcn(f, names, still, n)}
<1>1. 0 \in S
  <2> DEFINE f == [s \in SUBSET (1..0) |-> <<>>]
  <2>1. \A s \in SUBSET (1..0) : s = {}
      OBVIOUS
  <2>2. IsKeptFcn(f, names, still, 0)
      BY <2>1 DEF IsKeptFcn, KeptOf
  <2> QED
      BY <2>2
<1>2. ASSUME NEW n \in Nat, n \in S
      PROVE  n + 1 \in S
  <2>1. PICK f : IsKeptFcn(f, names, still, n)
      BY <1>2
  <2> DEFINE g == [s \in SUBSET (1..(n + 1)) |->
                      IF n + 1 \in s THEN KeptOf(f, names, still, s) ELSE f[s]]
  <2>2. ASSUME NEW s \in SUBSET (1..(n + 1))
        PROVE  g[s] = KeptOf(g, names, still, s)
    <3>1. CASE n + 1 \in s
      <4>1. s # {} /\ s \ {Max(s)} \in SUBSET (1..((n + 1) - 1)) /\ Max(s) = n + 1
          BY <3>1, MaxUpTo
      <4>2. s \ {Max(s)} \in SUBSET (1..(n + 1)) /\ n + 1 \notin s \ {Max(s)}
          BY <4>1
      <4>3. g[s \ {Max(s)}] = f[s \ {Max(s)}]
          BY <4>2
      <4> QED
          BY <3>1, <4>1, <4>3 DEF KeptOf
    <3>2. CASE n + 1 \notin s
      <4>1. s \in SUBSET (1..n)
          BY <3>2
      <4>2. g[s] = KeptOf(f, names, still, s)
          BY <2>1, <3>2, <4>1 DEF IsKeptFcn
      <4>3. CASE s = {}
          BY <4>2, <4>3 DEF KeptOf
      <4>4. CASE s # {}
        <5>1. s \ {Max(s)} \in SUBSET (1..(n + 1)) /\ n + 1 \notin s \ {Max(s)}
            BY <3>2
        <5>2. g[s \ {Max(s)}] = f[s \ {Max(s)}]
            BY <5>1
        <5> QED
            BY <4>2, <4>4, <5>2 DEF KeptOf
      <4> QED
          BY <4>3, <4>4
    <3> QED
        BY <3>1, <3>2
  <2>3. IsKeptFcn(g, names, still, n + 1)
    <3>1. g = [s \in SUBSET (1..(n + 1)) |-> g[s]]
        OBVIOUS
    <3> HIDE DEF g
    <3> QED
        BY <2>2, <3>1 DEF IsKeptFcn
  <2> QED
      BY <2>3
<1> HIDE DEF S
<1>3. \A n \in Nat : n \in S
    BY <1>1, <1>2, NatInductionSet
<1> QED
    BY <1>3 DEF S

LEMMA RangeAppend ==
    ASSUME NEW s \in Seq(TrustNames), NEW name \in TrustNames
    PROVE  /\ Append(s, name) \in Seq(TrustNames)
           /\ Range(Append(s, name)) = Range(s) \cup {name}
<1>1. Append(s, name) \in Seq(TrustNames) /\ Len(Append(s, name)) = Len(s) + 1 /\ Len(s) \in Nat
    OBVIOUS
<1>2. /\ Append(s, name)[Len(s) + 1] = name
      /\ \A i \in 1..Len(s) : Append(s, name)[i] = s[i]
    OBVIOUS
<1>3. 1..(Len(s) + 1) = (1..Len(s)) \cup {Len(s) + 1}
    BY <1>1
<1> QED
    BY <1>1, <1>2, <1>3 DEF Range

LEMMA KeptAreStill ==
    ASSUME NEW names \in Seq(TrustNames), NEW still
    PROVE  /\ Kept(names, still) \in Seq(TrustNames)
           /\ Range(Kept(names, still)) = Range(names) \cap still
<1> DEFINE len == Len(names)
           f == CHOOSE f : IsKeptFcn(f, names, still, len)
<1>1. len \in Nat /\ DOMAIN names = 1..len
    OBVIOUS
<1>2. IsKeptFcn(f, names, still, len)
    BY <1>1, KeptFcnExists
<1>3. Kept(names, still) = f[1..len]
    BY <1>1 DEF Kept, FoldLeft, MapThenFoldSet, IsKeptFcn, KeptOf
<1> HIDE DEF f
<1> DEFINE Upto(n) == {names[i] : i \in 1..n}
           S == {n \in Nat : n <= len =>
                    f[1..n] \in Seq(TrustNames) /\ Range(f[1..n]) = Upto(n) \cap still}
<1>4. 0 \in S
  <2>1. f[1..0] = <<>>
    <3>1. 1..0 = {} /\ 1..0 \in SUBSET (1..len)
        OBVIOUS
    <3> QED
        BY <1>2, <3>1 DEF IsKeptFcn, KeptOf
  <2>2. Range(<<>>) = {} /\ Upto(0) = {} /\ <<>> \in Seq(TrustNames)
      BY DEF Range
  <2> HIDE DEF Upto
  <2> QED
      BY <2>1, <2>2
<1>5. ASSUME NEW n \in Nat, n \in S
      PROVE  n + 1 \in S
  <2> SUFFICES ASSUME n + 1 <= len
               PROVE  /\ f[1..(n + 1)] \in Seq(TrustNames)
                      /\ Range(f[1..(n + 1)]) = Upto(n + 1) \cap still
      BY <1>5
  <2>1. f[1..n] \in Seq(TrustNames) /\ Range(f[1..n]) = Upto(n) \cap still
      BY <1>1, <1>5
  <2>2. names[n + 1] \in TrustNames /\ Upto(n + 1) = Upto(n) \cup {names[n + 1]}
    <3>1. n + 1 \in 1..len /\ 1..(n + 1) = (1..n) \cup {n + 1}
        BY <1>1
    <3> QED
        BY <3>1
  <2>3. f[1..(n + 1)] = IF names[n + 1] \in still THEN Append(f[1..n], names[n + 1]) ELSE f[1..n]
    <3>1. 1..(n + 1) \in SUBSET (1..len) /\ n + 1 \in 1..(n + 1)
        BY <1>1
    <3>2. Max(1..(n + 1)) = n + 1
        BY <3>1, MaxUpTo
    <3>3. (1..(n + 1)) \ {n + 1} = 1..n
        OBVIOUS
    <3>4. f[1..(n + 1)] = KeptOf(f, names, still, 1..(n + 1))
        BY <1>2, <3>1 DEF IsKeptFcn
    <3> QED
        BY <3>1, <3>2, <3>3, <3>4 DEF KeptOf
  <2> HIDE DEF Upto
  <2>4. CASE names[n + 1] \in still
    <3>1. /\ Append(f[1..n], names[n + 1]) \in Seq(TrustNames)
          /\ Range(Append(f[1..n], names[n + 1])) = Range(f[1..n]) \cup {names[n + 1]}
        BY <2>1, <2>2, RangeAppend
    <3> QED
        BY <2>1, <2>2, <2>3, <2>4, <3>1
  <2>5. CASE names[n + 1] \notin still
      BY <2>1, <2>2, <2>3, <2>5
  <2> QED
      BY <2>4, <2>5
<1> HIDE DEF S
<1>6. \A n \in Nat : n \in S
    BY <1>4, <1>5, NatInductionSet
<1> HIDE DEF Upto
<1>7. f[1..len] \in Seq(TrustNames) /\ Range(f[1..len]) = Upto(len) \cap still
  <2>1. len \in S /\ len <= len
      BY <1>1, <1>6
  <2> QED
      BY <2>1 DEF S
<1>8. Upto(len) = Range(names)
    BY <1>1 DEF Range, Upto
<1> QED
    BY <1>3, <1>7, <1>8

-----------------------------------------------------------------------------
(* A batch added by anyone, to a contract whose invariant holds. *)
LEMMA AddAllKeeps ==
    ASSUME ContractInv, NEW names \in Batches, AddAll(names),
           UNCHANGED <<strays, reading, logs>>
    PROVE  ContractInv'
<1>1. IsInjective(names) /\ Range(names) \cap trusted = {}
    BY DEF AddAll
<1>2. trusted' = trusted \cup Range(names) /\ count' = count + Len(names)
      /\ added' = added \o names /\ strays' = strays /\ logs' = logs /\ reading' = reading
    BY DEF AddAll
<1>3. names \in Seq(TrustNames) /\ Len(names) \in Nat /\ Range(names) \subseteq TrustNames
    BY BatchNames
<1>4. trusted \in SUBSET TrustNames /\ count \in Nat /\ strays \in Nat
      /\ added \in Seq(TrustNames) /\ logs \in Seq(TrustNames)
    BY DEF ContractInv
<1>5. CountDriftsByStrays'
  <2>1. Cardinality(trusted') = Cardinality(trusted) + Len(names)
      BY <1>1, <1>2, <1>4, AddedCount
  <2>2. count + strays = Cardinality(trusted)
      BY DEF ContractInv, CountDriftsByStrays
  <2> QED
      BY <1>2, <1>3, <1>4, <2>1, <2>2 DEF CountDriftsByStrays
<1>6. TrustedInLogs'
  <2>1. trusted \subseteq Range(added)
        /\ (reading \in {"filter", "done"} => IsPrefix(logs, added))
      BY DEF ContractInv, TrustedInLogs
  <2>2. /\ Range(added) \cup Range(names) \subseteq Range(added')
        /\ IsPrefix(logs, added) => IsPrefix(logs, added')
      BY <1>2, <1>3, <1>4, LogsGrow
  <2> QED
      BY <1>2, <2>1, <2>2 DEF TrustedInLogs
<1>7. added' \in Seq(TrustNames) /\ count' \in Nat
    BY <1>2, <1>3, <1>4
<1> QED
    BY <1>2, <1>3, <1>4, <1>5, <1>6, <1>7 DEF ContractInv

LEMMA RemoveKeeps ==
    ASSUME ContractInv, NEW sender, NEW names \in Batches, RemoveTrustedNodes(sender, names)
    PROVE  ContractInv'
<1>1. Len(names) <= count /\ trusted' = trusted \ Range(names)
      /\ count' = count - Len(names)
      /\ strays' = strays + (Len(names) - Cardinality(Range(names) \cap trusted))
      /\ added' = added /\ logs' = logs /\ reading' = reading
    BY DEF RemoveTrustedNodes, reader
<1>2. Len(names) \in Nat
    BY BatchNames
<1>3. trusted \in SUBSET TrustNames /\ count \in Nat /\ strays \in Nat
      /\ added \in Seq(TrustNames) /\ logs \in Seq(TrustNames)
      /\ count + strays = Cardinality(trusted)
    BY DEF ContractInv, CountDriftsByStrays
<1> DEFINE removed == Cardinality(Range(names) \cap trusted)
<1>4. Cardinality(trusted') = Cardinality(trusted) - removed
      /\ Len(names) - removed \in Nat /\ Cardinality(trusted) \in Nat
    BY <1>1, <1>3, RemovedCount
<1>5. removed \in Int
    BY <1>3, FS_Subset, FS_CardinalityType, BatchNames
<1>6. strays' = strays + (Len(names) - removed)
    BY <1>1
<1> HIDE DEF removed
<1>7. count' \in Nat /\ strays' \in Nat
    BY <1>1, <1>2, <1>3, <1>4, <1>6
<1>8. count' + strays' = Cardinality(trusted')
    BY <1>1, <1>2, <1>3, <1>4, <1>5, <1>6
<1>9. TrustedInLogs'
    BY <1>1 DEF ContractInv, TrustedInLogs
<1> QED
    BY <1>1, <1>3, <1>7, <1>8, <1>9 DEF ContractInv, CountDriftsByStrays

(* Every transaction keeps the contract's invariant. *)
LEMMA ContractKeeps ==
    ASSUME ContractInv, ContractNext
    PROVE  ContractInv'
<1>1. ASSUME NEW names \in Batches, NEW newOwner \in Accounts, Initialize(names, newOwner)
      PROVE  ContractInv'
    BY <1>1, AddAllKeeps DEF Initialize, reader
<1>2. ASSUME NEW sender \in Accounts, NEW names \in Batches, AddTrustedNodes(sender, names)
      PROVE  ContractInv'
    BY <1>2, AddAllKeeps DEF AddTrustedNodes, reader
<1>3. ASSUME NEW sender \in Accounts, NEW names \in Batches, RemoveTrustedNodes(sender, names)
      PROVE  ContractInv'
    BY <1>3, RemoveKeeps
<1>4. ASSUME NEW sender \in Accounts, NEW newOwner \in Accounts,
             TransferOwnership(sender, newOwner)
      PROVE  ContractInv'
    BY <1>4 DEF TransferOwnership, reader, ContractInv, CountDriftsByStrays, TrustedInLogs
<1> QED
    BY <1>1, <1>2, <1>3, <1>4 DEF ContractNext

LEMMA ReaderKeeps ==
    ASSUME ContractInv, ReaderNext
    PROVE  ContractInv'
<1>1. CASE ReadLogs
  <2>1. IsPrefix(logs', added')
      BY <1>1 DEF ReadLogs, contract, ContractInv, IsPrefix
  <2> QED
      BY <1>1, <2>1 DEF ReadLogs, contract, ContractInv, CountDriftsByStrays, TrustedInLogs
<1>2. CASE ReadTrusted
    BY <1>2 DEF ReadTrusted, contract, ContractInv, CountDriftsByStrays, TrustedInLogs
<1>3. CASE ReadFails
    BY <1>3 DEF ReadFails, contract, ContractInv, CountDriftsByStrays, TrustedInLogs
<1> QED
    BY <1>1, <1>2, <1>3 DEF ReaderNext

(* The registry's part does not change while only the node moves. *)
LEMMA ContractUntouched ==
    ASSUME ContractInv, UNCHANGED registryVars
    PROVE  ContractInv'
BY DEF ContractInv, CountDriftsByStrays, TrustedInLogs, registryVars, contract, reader

LEMMA ContractStep == ContractInv /\ [Next]_vars => ContractInv'
<1> SUFFICES ASSUME ContractInv, [Next]_vars PROVE ContractInv'
    OBVIOUS
<1>1. CASE ContractNext
    BY <1>1, ContractKeeps
<1>2. CASE ReaderNext
    BY <1>2, ReaderKeeps
<1>3. CASE UNCHANGED registryVars
    BY <1>3, ContractUntouched
<1>4. \/ ContractNext \/ ReaderNext \/ UNCHANGED registryVars
    BY DEF Next, vars, GotBootNodes, ConnectToPeer, HalfASecond, AnnounceSelf
<1> QED
    BY <1>1, <1>2, <1>3, <1>4

LEMMA ContractInit == Init => ContractInv
<1>1. Cardinality({}) = 0
    BY FS_EmptySet
<1> QED
    BY <1>1 DEF Init, RegistryInit, ContractInv, CountDriftsByStrays, TrustedInLogs

LEMMA ContractInvariant == Spec => []ContractInv
BY ContractInit, ContractStep, PTL DEF Spec

(* For any names, accounts and batches: the contract's count and the number *)
(* of trusted nodes differ by exactly the removals that removed nothing.    *)
(* (MintpoolTrustedNodeRegistry.sol, removeTrustedNode.)                    *)
THEOREM CountDriftsOnlyByStrays == Spec => []CountDriftsByStrays
<1>1. ContractInv => CountDriftsByStrays
    BY DEF ContractInv
<1> QED
    BY <1>1, ContractInvariant, PTL

(* However the owner's batches and the reader's two calls interleave, every *)
(* trusted node has its log, and the reader holds an earlier part of them.  *)
(* (chain.rs:161, get_contract_boot_nodes.)                                 *)
THEOREM TrustedAlwaysLogged == Spec => []TrustedInLogs
<1>1. ContractInv => TrustedInLogs
    BY DEF ContractInv
<1> QED
    BY <1>1, ContractInvariant, PTL

-----------------------------------------------------------------------------
(***************************************************************************)
(* The connections.  What a name's peer is does not matter here, so the    *)
(* peers of connections are not constrained.                               *)
(***************************************************************************)
ConnShape ==
    /\ DOMAIN conn = Conns
    /\ \A c \in Conns : conn[c] \in [at: Stages, peer: {conn[c].peer}, known: BOOLEAN]

ConnInv == ConnShape /\ PeerLimitHeld

(* The accepted peers are among the connected ones, and finitely many. *)
LEMMA AcceptedFinite ==
    /\ AcceptedPeers \subseteq ConnectedPeers
    /\ IsFiniteSet(ConnectedPeers)
    /\ Cardinality(ConnectedPeers) \in Nat
<1>1. AcceptedPeers \subseteq ConnectedPeers
    BY DEF AcceptedPeers, ConnectedPeers, Established
<1> DEFINE S == {c \in Conns : Established(c)}
           f == [c \in S |-> conn[c].peer]
<1>2. IsFiniteSet(S)
    BY PeerAssumption, FS_Subset
<1>3. f \in Surjection(S, ConnectedPeers)
    BY DEF Surjection, ConnectedPeers
<1>4. IsFiniteSet(ConnectedPeers)
    BY <1>2, <1>3, FS_Surjection
<1> QED
    BY <1>1, <1>4, FS_CardinalityType

(* A step that accepts nobody new keeps the limit. *)
LEMMA FewerAccepted ==
    ASSUME PeerLimitHeld, AcceptedPeers' \subseteq AcceptedPeers
    PROVE  PeerLimitHeld'
<1>1. IsFiniteSet(AcceptedPeers)
    BY AcceptedFinite, FS_Subset
<1>2. IsFiniteSet(AcceptedPeers') /\ Cardinality(AcceptedPeers') <= Cardinality(AcceptedPeers)
    BY <1>1, FS_Subset
<1>3. Cardinality(AcceptedPeers) \in Nat /\ Cardinality(AcceptedPeers') \in Nat
    BY <1>1, <1>2, FS_CardinalityType
<1> QED
    BY <1>2, <1>3, LimitAssumption DEF PeerLimitHeld

(* A connection's new stage leaves the others alone. *)
LEMMA BecomesEffect ==
    ASSUME ConnInv, NEW c \in Conns, NEW at \in Stages, NEW p, NEW known \in BOOLEAN,
           Becomes(c, at, p, known)
    PROVE  /\ ConnShape'
           /\ conn'[c] = [at |-> at, peer |-> p, known |-> known]
           /\ \A d \in Conns \ {c} : conn'[d] = conn[d]
<1>1. DOMAIN conn = Conns
    BY DEF ConnInv, ConnShape
<1>2. conn'[c] = [at |-> at, peer |-> p, known |-> known]
    BY <1>1 DEF Becomes
<1>3. \A d \in Conns \ {c} : conn'[d] = conn[d]
    BY <1>1 DEF Becomes
<1>4. ConnShape'
  <2>1. DOMAIN conn' = Conns
      BY <1>1 DEF Becomes
  <2> QED
      BY <1>2, <1>3, <2>1 DEF ConnInv, ConnShape
<1> QED
    BY <1>2, <1>3, <1>4

LEMMA BecomesKeeps ==
    ASSUME ConnInv, NEW c \in Conns, NEW at \in Stages, NEW p, NEW known \in BOOLEAN,
           Becomes(c, at, p, known), at # "open"
    PROVE  ConnInv'
<1>1. /\ ConnShape'
      /\ conn'[c] = [at |-> at, peer |-> p, known |-> known]
      /\ \A d \in Conns \ {c} : conn'[d] = conn[d]
    BY BecomesEffect
<1>2. AcceptedPeers' \subseteq AcceptedPeers
    BY <1>1 DEF AcceptedPeers
<1>3. PeerLimitHeld'
    BY <1>2, FewerAccepted DEF ConnInv
<1> QED
    BY <1>1, <1>3 DEF ConnInv

LEMMA FreedKeeps ==
    ASSUME ConnInv, NEW c \in Conns, conn' = [conn EXCEPT ![c] = Free]
    PROVE  ConnInv'
<1>1. Becomes(c, "free", NoPeer, FALSE)
    BY DEF Becomes, Free
<1> QED
    BY <1>1, BecomesKeeps DEF Stages

(* Accepting: the one step at which the limit matters.  The new peer is     *)
(* already counted among the connected ones when the count is compared.     *)
LEMMA EstablishedKeeps ==
    ASSUME ConnInv, NEW c \in Conns, ConnectionEstablished(c)
    PROVE  ConnInv'
<1> DEFINE p == conn[c].peer
<1>1. CASE OverMax
  <2>1. Becomes(c, "closing", p, TRUE)
      BY <1>1 DEF ConnectionEstablished
  <2> QED
      BY <2>1, BecomesKeeps DEF Stages
<1>2. CASE ~OverMax
  <2>1. conn[c].at = "up" /\ Becomes(c, "open", p, TRUE)
      BY <1>2 DEF ConnectionEstablished
  <2>2. /\ ConnShape'
        /\ conn'[c] = [at |-> "open", peer |-> p, known |-> TRUE]
        /\ \A d \in Conns \ {c} : conn'[d] = conn[d]
      BY <2>1, BecomesEffect DEF Stages
  <2>3. AcceptedPeers' \subseteq ConnectedPeers
      BY <2>1, <2>2 DEF AcceptedPeers, ConnectedPeers, Established
  <2>4. /\ IsFiniteSet(AcceptedPeers')
        /\ Cardinality(AcceptedPeers') <= Cardinality(ConnectedPeers)
      BY <2>3, AcceptedFinite, FS_Subset
  <2>5. Cardinality(ConnectedPeers) \in Nat /\ Cardinality(AcceptedPeers') \in Nat
      BY <2>4, AcceptedFinite, FS_CardinalityType
  <2>6. PeerLimitHeld'
      BY <1>2, <2>4, <2>5, LimitAssumption DEF OverMax, PeerLimitHeld
  <2> QED
      BY <2>2, <2>6 DEF ConnInv
<1> QED
    BY <1>1, <1>2

(* The invariant speaks of the connections only. *)
LEMMA ConnUntouched ==
    ASSUME ConnInv, UNCHANGED conn
    PROVE  ConnInv'
BY DEF ConnInv, ConnShape, PeerLimitHeld, AcceptedPeers

LEMMA SafeDialKeeps ==
    ASSUME ConnInv, NEW p, NEW hasId \in BOOLEAN, SafeDial(p, hasId)
    PROVE  ConnInv'
<1>1. CASE MayDial(p, hasId)
  <2>1. PICK c \in Conns : Becomes(c, "dialing", p, hasId)
      BY <1>1 DEF SafeDial
  <2> QED
      BY <2>1, BecomesKeeps DEF Stages
<1>2. CASE ~MayDial(p, hasId)
    BY <1>2, ConnUntouched DEF SafeDial
<1> QED
    BY <1>1, <1>2

LEMMA ConnNextKeeps ==
    ASSUME ConnInv, ConnNext
    PROVE  ConnInv'
<1>1. ASSUME NEW c \in Conns, NEW p \in Peers, Incoming(c, p)
      PROVE  ConnInv'
  <2>1. CASE Becomes(c, "offered", p, FALSE)
      BY <2>1, BecomesKeeps DEF Stages
  <2>2. CASE UNCHANGED conn
      BY <2>2, ConnUntouched
  <2> QED
      BY <1>1, <2>1, <2>2 DEF Incoming
<1>2. ASSUME NEW c \in Conns, NEW p \in Peers, KadDial(c, p) \/ DialAgain(c, p)
      PROVE  ConnInv'
    BY <1>2, BecomesKeeps DEF KadDial, DialAgain, Stages
<1>3. ASSUME NEW c \in Conns, Unreachable(c)
      PROVE  ConnInv'
    BY <1>3, FreedKeeps DEF Unreachable
<1>4. ASSUME NEW c \in Conns, Establish(c)
      PROVE  ConnInv'
    BY <1>4, BecomesKeeps DEF Establish, Stages
<1>5. ASSUME NEW c \in Conns, ConnectionEstablished(c)
      PROVE  ConnInv'
    BY <1>5, EstablishedKeeps
<1>6. ASSUME NEW c \in Conns, ConnectionClosed(c)
      PROVE  ConnInv'
    BY <1>6, FreedKeeps DEF ConnectionClosed
<1>7. ASSUME NEW p \in Peers, ReceiveAnnouncement(p)
      PROVE  ConnInv'
    BY <1>7, SafeDialKeeps DEF ReceiveAnnouncement
<1>8. ASSUME NEW p \in Peers, Graft(p) \/ Prune(p)
      PROVE  ConnInv'
    BY <1>8, ConnUntouched DEF Graft, Prune
<1>9. ASSUME NEW a \in Relayed \cup Direct, NewListenAddr(a) \/ ExpiredListenAddr(a)
      PROVE  ConnInv'
    BY <1>9, ConnUntouched DEF NewListenAddr, ExpiredListenAddr
<1>10. ASSUME NEW closed \in SUBSET listens, ListenerClosed(closed)
       PROVE  ConnInv'
    BY <1>10, ConnUntouched DEF ListenerClosed
<1>11. ASSUME NEW a \in Relayed \cup Direct, ConfirmExternal(a) \/ WithdrawExternal(a)
       PROVE  ConnInv'
    BY <1>11, ConnUntouched DEF ConfirmExternal, WithdrawExternal
<1> QED
    BY <1>1, <1>2, <1>3, <1>4, <1>5, <1>6, <1>7, <1>8, <1>9, <1>10, <1>11 DEF ConnNext

LEMMA ConnStep == ConnInv /\ [Next]_vars => ConnInv'
<1> SUFFICES ASSUME ConnInv, [Next]_vars PROVE ConnInv'
    OBVIOUS
<1>1. CASE ConnNext
    BY <1>1, ConnNextKeeps
<1>2. CASE ConnectToPeer
  <2>1. SafeDial(PeerOf[Head(todo)], Head(todo) \in WithId)
      BY <1>2 DEF ConnectToPeer
  <2>2. (Head(todo) \in WithId) \in BOOLEAN
      OBVIOUS
  <2> QED
      BY <2>1, <2>2, SafeDialKeeps
<1>3. CASE UNCHANGED connVars
    BY <1>3, ConnUntouched DEF connVars
<1>4. ConnNext \/ ConnectToPeer \/ UNCHANGED connVars
    BY DEF Next, vars, GotBootNodes, HalfASecond, AnnounceSelf
<1> QED
    BY <1>1, <1>2, <1>3, <1>4

LEMMA ConnStart == Init => ConnInv
<1> SUFFICES ASSUME Init PROVE ConnInv
    OBVIOUS
<1>1. conn = [c \in Conns |-> Free]
    BY DEF Init, ConnInit
<1>2. ConnShape
    BY <1>1 DEF ConnShape, Free, Stages
<1>3. AcceptedPeers = {}
    BY <1>1 DEF AcceptedPeers, Free
<1>4. PeerLimitHeld
    BY <1>3, FS_EmptySet, LimitAssumption DEF PeerLimitHeld
<1> QED
    BY <1>2, <1>3, <1>4 DEF ConnInv

LEMMA ConnInvariant == Spec => []ConnInv
BY ConnStart, ConnStep, PTL DEF Spec

(* For any limit, peers and number of connections at once: the node never   *)
(* keeps connections to more peers than the limit.  (p2p.rs,                *)
(* reject_connection_if_over_max.)                                          *)
THEOREM LimitAlwaysHeld == Spec => []PeerLimitHeld
<1>1. ConnInv => PeerLimitHeld
    BY DEF ConnInv
<1> QED
    BY <1>1, ConnInvariant, PTL

-----------------------------------------------------------------------------
(* The addresses: the property is inductive as it stands. *)
LEMMA AddressStep == ExternalAccountedFor /\ [Next]_vars => ExternalAccountedFor'
<1> SUFFICES ASSUME ExternalAccountedFor, [Next]_vars PROVE ExternalAccountedFor'
    OBVIOUS
<1>1. ASSUME NEW a \in Relayed \cup Direct, NewListenAddr(a)
      PROVE  ExternalAccountedFor'
    BY <1>1 DEF NewListenAddr, ExternalAccountedFor
<1>2. ASSUME NEW a \in Relayed \cup Direct, ExpiredListenAddr(a)
      PROVE  ExternalAccountedFor'
    BY <1>2 DEF ExpiredListenAddr, NoLongerExternal, ExternalAccountedFor
<1>3. ASSUME NEW closed \in SUBSET listens, ListenerClosed(closed)
      PROVE  ExternalAccountedFor'
    BY <1>3 DEF ListenerClosed, NoLongerExternal, ExternalAccountedFor
<1>4. ASSUME NEW a \in Relayed \cup Direct, ConfirmExternal(a) \/ WithdrawExternal(a)
      PROVE  ExternalAccountedFor'
    BY <1>4 DEF ConfirmExternal, WithdrawExternal, NoLongerExternal, ExternalAccountedFor
<1>5. CASE UNCHANGED addresses
    BY <1>5 DEF addresses, ExternalAccountedFor
<1>6. CASE ConnNext
    BY <1>1, <1>2, <1>3, <1>4, <1>5, <1>6
       DEF ConnNext, Incoming, KadDial, DialAgain, Unreachable, Establish,
           ConnectionEstablished, ConnectionClosed, Graft, Prune, ReceiveAnnouncement,
           SafeDial
<1>7. ConnNext \/ UNCHANGED addresses
    BY DEF Next, vars, connVars, addresses, GotBootNodes, ConnectToPeer, SafeDial,
           HalfASecond, AnnounceSelf
<1> QED
    BY <1>5, <1>6, <1>7

(* Whatever listeners come and go and whatever libp2p confirms or withdraws *)
(* in between, nothing is external without a reason that still stands.      *)
(* (p2p.rs, handle_swarm_event.)                                            *)
THEOREM ExternalAlwaysAccountedFor == Spec => []ExternalAccountedFor
<1>1. Init => ExternalAccountedFor
    BY DEF Init, ConnInit, ExternalAccountedFor
<1> QED
    BY <1>1, AddressStep, PTL DEF Spec

-----------------------------------------------------------------------------
(***************************************************************************)
(* The list of boot nodes a node starts from.                              *)
(***************************************************************************)

(* Of the reader's and the contract's steps only ReadTrusted ends the       *)
(* reading with a list.                                                     *)
LEMMA OnlyReadTrusted ==
    ASSUME [Next]_vars, reading = "filter", reading' = "done"
    PROVE  ReadTrusted
<1>1. ContractNext => reading' = reading
    BY DEF ContractNext, Initialize, AddTrustedNodes, RemoveTrustedNodes, TransferOwnership, reader
<1>2. UNCHANGED registryVars => reading' = reading
    BY DEF registryVars, reader
<1>3. ReadLogs \/ ReadFails => reading' # "done"
    BY DEF ReadLogs, ReadFails
<1>4. ContractNext \/ ReaderNext \/ UNCHANGED registryVars
    BY DEF Next, vars, GotBootNodes, ConnectToPeer, HalfASecond, AnnounceSelf
<1> QED
    BY <1>1, <1>2, <1>3, <1>4 DEF ReaderNext

(* What is in a log but not in an earlier part of it came later. *)
LEMMA AddedLater ==
    ASSUME NEW s \in Seq(TrustNames), NEW t \in Seq(TrustNames), IsPrefix(s, t),
           NEW name \in Range(t), name \notin Range(s)
    PROVE  name \in Range(SubSeq(t, Len(s) + 1, Len(t)))
<1>1. Len(s) \in Nat /\ Len(t) \in Nat /\ Len(s) <= Len(t) /\ \A i \in 1..Len(s) : s[i] = t[i]
    BY DEF IsPrefix
<1>2. PICK i \in 1..Len(t) : t[i] = name
    BY DEF Range
<1>3. ~ (i \in 1..Len(s))
    BY <1>1, <1>2 DEF Range
<1>4. i - Len(s) \in 1..(Len(t) - Len(s)) /\ (Len(s) + 1) + (i - Len(s)) - 1 = i
    BY <1>1, <1>2, <1>3
<1> DEFINE later == SubSeq(t, Len(s) + 1, Len(t))
<1>5. Len(later) = Len(t) - Len(s) /\ DOMAIN later = 1..(Len(t) - Len(s))
    BY <1>1
<1>6. later[i - Len(s)] = t[i]
    BY <1>1, <1>4
<1> QED
    BY <1>2, <1>4, <1>5, <1>6 DEF Range

(* However transactions fall between the two calls, the list names trusted  *)
(* nodes only, and misses none but those added in between.  It rests on the *)
(* contract's invariant: every trusted node is in the logs, and what was    *)
(* read of them is a prefix.  (chain.rs, get_contract_boot_nodes.)          *)
THEOREM BootListAlwaysCurrent == Spec => BootListCurrent
<1>1. ContractInv /\ [Next]_vars =>
        [reading = "filter" /\ reading' = "done" =>
            /\ Range(bootList') \subseteq trusted
            /\ trusted \ Range(bootList') \subseteq
                  Range(SubSeq(added, Len(logs) + 1, Len(added)))]_registryVars
  <2> SUFFICES ASSUME ContractInv, [Next]_vars, reading = "filter", reading' = "done"
               PROVE  /\ Range(bootList') \subseteq trusted
                      /\ trusted \ Range(bootList') \subseteq
                            Range(SubSeq(added, Len(logs) + 1, Len(added)))
      OBVIOUS
  <2>1. bootList' = Kept(logs, trusted)
      BY OnlyReadTrusted DEF ReadTrusted
  <2>2. /\ logs \in Seq(TrustNames) /\ added \in Seq(TrustNames)
        /\ trusted \subseteq Range(added) /\ IsPrefix(logs, added)
      BY DEF ContractInv, TrustedInLogs
  <2>3. Range(bootList') = Range(logs) \cap trusted
      BY <2>1, <2>2, KeptAreStill
  <2>4. ASSUME NEW name \in trusted \ Range(bootList')
        PROVE  name \in Range(SubSeq(added, Len(logs) + 1, Len(added)))
      BY <2>2, <2>3, AddedLater
  <2> QED
      BY <2>3, <2>4
<1> QED
    BY <1>1, ContractInvariant, PTL DEF Spec, BootListCurrent

-----------------------------------------------------------------------------
(***************************************************************************)
(* Types.                                                                  *)
(***************************************************************************)
LEMMA ConnectedKept ==
    ASSUME \A d \in Conns : Established(d) => Established(d)' /\ conn'[d].peer = conn[d].peer
    PROVE  ConnectedPeers \subseteq ConnectedPeers'
BY DEF ConnectedPeers

LEMMA BecomesTypes ==
    ASSUME ConnTypeOK, NEW c \in Conns, NEW at \in Stages, NEW p \in Peers \cup {NoPeer},
           NEW known \in BOOLEAN, Becomes(c, at, p, known), at # "free" => p \in Peers,
           Established(c) => at \in {"up", "open", "closing"} /\ p = conn[c].peer,
           UNCHANGED <<mesh, addresses>>
    PROVE  ConnTypeOK'
<1>1. conn \in [Conns -> [at: Stages, peer: Peers \cup {NoPeer}, known: BOOLEAN]]
    BY DEF ConnTypeOK
<1>2. /\ conn' \in [Conns -> [at: Stages, peer: Peers \cup {NoPeer}, known: BOOLEAN]]
      /\ conn'[c] = [at |-> at, peer |-> p, known |-> known]
      /\ \A d \in Conns \ {c} : conn'[d] = conn[d]
    BY <1>1 DEF Becomes
<1>3. \A d \in Conns : conn'[d].at # "free" => conn'[d].peer \in Peers
  <2>1. conn'[c].at # "free" => conn'[c].peer \in Peers
      BY <1>2
  <2> QED
      BY <1>2, <2>1 DEF ConnTypeOK
<1>4. ASSUME NEW d \in Conns, Established(d)
      PROVE  Established(d)' /\ conn'[d].peer = conn[d].peer
  <2>1. CASE d = c
      BY <1>2, <1>4, <2>1 DEF Established
  <2>2. CASE d # c
      BY <1>2, <1>4, <2>2 DEF Established
  <2> QED
      BY <2>1, <2>2
<1>5. mesh' \subseteq ConnectedPeers'
    BY <1>4, ConnectedKept DEF ConnTypeOK
<1> QED
    BY <1>2, <1>3, <1>5 DEF ConnTypeOK, addresses

LEMMA SafeDialTypes ==
    ASSUME ConnTypeOK, NEW p \in Peers, NEW hasId \in BOOLEAN, SafeDial(p, hasId)
    PROVE  ConnTypeOK'
<1>1. CASE MayDial(p, hasId)
  <2>1. PICK c \in Conns : conn[c].at = "free" /\ Becomes(c, "dialing", p, hasId)
      BY <1>1 DEF SafeDial
  <2>2. ~Established(c) /\ UNCHANGED <<mesh, addresses>>
      BY <2>1 DEF Established, SafeDial
  <2> QED
      BY <2>1, <2>2, BecomesTypes DEF Stages
<1>2. CASE ~MayDial(p, hasId)
    BY <1>2 DEF SafeDial, ConnTypeOK, addresses, ConnectedPeers, Established
<1> QED
    BY <1>1, <1>2

(* A step that only leaves connections as they are, and grafts, prunes or   *)
(* changes addresses.                                                       *)
LEMMA SameConnTypes ==
    ASSUME ConnTypeOK, conn' = conn, mesh' \subseteq ConnectedPeers,
           listens' \subseteq Relayed \cup Direct, external' \subseteq Relayed \cup Direct,
           confirmed' \subseteq external'
    PROVE  ConnTypeOK'
BY DEF ConnTypeOK, ConnectedPeers, Established

LEMMA ConnNextTypes ==
    ASSUME ConnTypeOK, ConnNext
    PROVE  ConnTypeOK'
<1>1. /\ conn \in [Conns -> [at: Stages, peer: Peers \cup {NoPeer}, known: BOOLEAN]]
      /\ \A c \in Conns : conn[c].at # "free" => conn[c].peer \in Peers
      /\ mesh \subseteq ConnectedPeers
      /\ listens \subseteq Relayed \cup Direct /\ external \subseteq Relayed \cup Direct
      /\ confirmed \subseteq external
    BY DEF ConnTypeOK
<1>2. ASSUME NEW c \in Conns, NEW p \in Peers, Incoming(c, p)
      PROVE  ConnTypeOK'
  <2>1. CASE Becomes(c, "offered", p, FALSE)
    <3>1. ~Established(c) /\ UNCHANGED <<mesh, addresses>>
        BY <1>2 DEF Incoming, Established
    <3> QED
        BY <2>1, <3>1, BecomesTypes DEF Stages
  <2>2. CASE UNCHANGED conn
      BY <1>1, <1>2, <2>2, SameConnTypes DEF Incoming, addresses
  <2> QED
      BY <1>2, <2>1, <2>2 DEF Incoming
<1>3. ASSUME NEW c \in Conns, NEW p \in Peers, KadDial(c, p) \/ DialAgain(c, p)
      PROVE  ConnTypeOK'
  <2>1. ~Established(c) /\ UNCHANGED <<mesh, addresses>> /\ Becomes(c, "dialing", p, TRUE)
      BY <1>3 DEF KadDial, DialAgain, Established
  <2> QED
      BY <2>1, BecomesTypes DEF Stages
<1>4. ASSUME NEW c \in Conns, Unreachable(c)
      PROVE  ConnTypeOK'
  <2>1. ~Established(c) /\ UNCHANGED <<mesh, addresses>> /\ Becomes(c, "free", NoPeer, FALSE)
      BY <1>4 DEF Unreachable, Established, Becomes, Free
  <2> QED
      BY <2>1, BecomesTypes DEF Stages
<1>5. ASSUME NEW c \in Conns, Establish(c)
      PROVE  ConnTypeOK'
  <2>1. /\ UNCHANGED <<mesh, addresses>> /\ Becomes(c, "up", conn[c].peer, TRUE)
        /\ conn[c].peer \in Peers
      BY <1>1, <1>5 DEF Establish
  <2> QED
      BY <2>1, BecomesTypes DEF Stages
<1>6. ASSUME NEW c \in Conns, ConnectionEstablished(c)
      PROVE  ConnTypeOK'
  <2>1. PICK at \in {"open", "closing"} :
            UNCHANGED <<mesh, addresses>> /\ Becomes(c, at, conn[c].peer, TRUE)
      BY <1>6 DEF ConnectionEstablished
  <2>2. conn[c].peer \in Peers
      BY <1>1, <1>6 DEF ConnectionEstablished
  <2> QED
      BY <2>1, <2>2, BecomesTypes DEF Stages
<1>7. ASSUME NEW c \in Conns, ConnectionClosed(c)
      PROVE  ConnTypeOK'
  <2>1. /\ conn' = [conn EXCEPT ![c] = Free] /\ UNCHANGED addresses
        /\ mesh' \subseteq {conn[d].peer : d \in {d \in Conns \ {c} : Established(d)}}
      BY <1>7 DEF ConnectionClosed
  <2>2. Free \in [at: Stages, peer: Peers \cup {NoPeer}, known: BOOLEAN] /\ Free.at = "free"
      BY DEF Free, Stages
  <2>3. /\ conn' \in [Conns -> [at: Stages, peer: Peers \cup {NoPeer}, known: BOOLEAN]]
        /\ conn'[c].at = "free" /\ \A d \in Conns \ {c} : conn'[d] = conn[d]
      BY <1>1, <2>1, <2>2
  <2>4. {conn[d].peer : d \in {d \in Conns \ {c} : Established(d)}} \subseteq ConnectedPeers'
      BY <2>3 DEF ConnectedPeers, Established
  <2> QED
      BY <1>1, <2>1, <2>3, <2>4 DEF ConnTypeOK, addresses
<1>8. ASSUME NEW p \in Peers, Graft(p) \/ Prune(p)
      PROVE  ConnTypeOK'
  <2>1. conn' = conn /\ mesh' \subseteq ConnectedPeers /\ UNCHANGED addresses
      BY <1>1, <1>8 DEF Graft, Prune
  <2> QED
      BY <1>1, <2>1, SameConnTypes DEF addresses
<1>9. ASSUME NEW p \in Peers, ReceiveAnnouncement(p)
      PROVE  ConnTypeOK'
    BY <1>9, SafeDialTypes DEF ReceiveAnnouncement
<1>10. ASSUME NEW a \in Relayed \cup Direct,
              \/ NewListenAddr(a) \/ ExpiredListenAddr(a)
              \/ ConfirmExternal(a) \/ WithdrawExternal(a)
       PROVE  ConnTypeOK'
  <2>1. /\ conn' = conn /\ mesh' = mesh
        /\ listens' \subseteq Relayed \cup Direct /\ external' \subseteq Relayed \cup Direct
        /\ confirmed' \subseteq external'
      BY <1>1, <1>10 DEF NewListenAddr, ExpiredListenAddr, ConfirmExternal,
                         WithdrawExternal, NoLongerExternal
  <2> QED
      BY <1>1, <2>1, SameConnTypes
<1>11. ASSUME NEW closed \in SUBSET listens, ListenerClosed(closed)
       PROVE  ConnTypeOK'
  <2>1. /\ conn' = conn /\ mesh' = mesh
        /\ listens' \subseteq Relayed \cup Direct /\ external' \subseteq Relayed \cup Direct
        /\ confirmed' \subseteq external'
      BY <1>1, <1>11 DEF ListenerClosed, NoLongerExternal
  <2> QED
      BY <1>1, <2>1, SameConnTypes
<1> QED
    BY <1>2, <1>3, <1>4, <1>5, <1>6, <1>7, <1>8, <1>9, <1>10, <1>11 DEF ConnNext

(* The owner and the list besides what ContractInv says of the registry. *)
LEMMA RegistryTypes ==
    ASSUME RegistryTypeOK, ContractInv, ContractInv',
           ContractNext \/ ReaderNext \/ UNCHANGED registryVars
    PROVE  RegistryTypeOK'
<1>1. owner' \in Accounts \cup {Nobody} /\ reading' \in {"logs", "filter", "done", "failed"}
      /\ bootList' \in Seq(TrustNames)
  <2>1. CASE ContractNext
      BY <2>1 DEF RegistryTypeOK, ContractNext, Initialize, AddTrustedNodes,
                  RemoveTrustedNodes, TransferOwnership, reader
  <2>2. CASE ReadLogs \/ ReadFails \/ UNCHANGED registryVars
      BY <2>2 DEF RegistryTypeOK, ReadLogs, ReadFails, registryVars, contract, reader
  <2>3. CASE ReadTrusted
    <3>1. Kept(logs, trusted) \in Seq(TrustNames)
        BY KeptAreStill DEF ContractInv
    <3> QED
        BY <2>3, <3>1 DEF RegistryTypeOK, ReadTrusted, contract
  <2> QED
      BY <2>1, <2>2, <2>3 DEF ReaderNext
<1> QED
    BY <1>1 DEF RegistryTypeOK, ContractInv

LEMMA JoinTypeStep ==
    ASSUME TypeOK, ContractInv, ContractInv', [Next]_vars
    PROVE  TypeOK'
<1>1. RegistryTypeOK'
  <2>1. ContractNext \/ ReaderNext \/ UNCHANGED registryVars
      BY DEF Next, vars, GotBootNodes, ConnectToPeer, HalfASecond, AnnounceSelf
  <2> QED
      BY <2>1, RegistryTypes DEF TypeOK
<1>2. ConnTypeOK'
  <2>1. CASE ConnNext
      BY <2>1, ConnNextTypes DEF TypeOK
  <2>2. CASE ConnectToPeer
    <3>1. Head(todo) \in TrustNames
        BY <2>2 DEF TypeOK, ConnectToPeer
    <3>2. PeerOf[Head(todo)] \in Peers /\ (Head(todo) \in WithId) \in BOOLEAN
        BY <3>1, BootAssumption
    <3>3. PICK p \in Peers, hasId \in BOOLEAN : SafeDial(p, hasId)
        BY <2>2, <3>2 DEF ConnectToPeer
    <3> QED
        BY <3>3, SafeDialTypes DEF TypeOK
  <2>3. CASE UNCHANGED connVars
      BY <2>3 DEF TypeOK, ConnTypeOK, connVars, ConnectedPeers, Established
  <2>4. ConnNext \/ ConnectToPeer \/ UNCHANGED connVars
      BY DEF Next, vars, GotBootNodes, HalfASecond, AnnounceSelf
  <2> QED
      BY <2>1, <2>2, <2>3, <2>4
<1>3. /\ joining' \in {"read", "dial", "announce", "up"}
      /\ todo' \in Seq(TrustNames) /\ announced' \in {"nothing", "address", "id"}
  <2>1. /\ joining \in {"read", "dial", "announce", "up"}
        /\ todo \in Seq(TrustNames) /\ announced \in {"nothing", "address", "id"}
        /\ bootList \in Seq(TrustNames)
      BY DEF TypeOK, RegistryTypeOK
  <2>2. CASE GotBootNodes
      BY <2>1, <2>2 DEF GotBootNodes
  <2>3. CASE ConnectToPeer
    <3>1. Tail(todo) \in Seq(TrustNames)
        BY <2>1, <2>3 DEF ConnectToPeer
    <3> QED
        BY <2>1, <2>3, <3>1 DEF ConnectToPeer
  <2>4. CASE HalfASecond \/ AnnounceSelf
      BY <2>1, <2>4 DEF HalfASecond, AnnounceSelf
  <2>5. CASE UNCHANGED joinVars
      BY <2>1, <2>5 DEF joinVars
  <2>6. GotBootNodes \/ ConnectToPeer \/ HalfASecond \/ AnnounceSelf \/ UNCHANGED joinVars
      BY DEF Next, vars
  <2> QED
      BY <2>2, <2>3, <2>4, <2>5, <2>6
<1> QED
    BY <1>1, <1>2, <1>3 DEF TypeOK

LEMMA JoinTypeInit == Init => TypeOK
<1> SUFFICES ASSUME Init
             PROVE  TypeOK
    OBVIOUS
<1>1. RegistryTypeOK
    BY DEF Init, RegistryInit, RegistryTypeOK
<1>2. ConnTypeOK
    BY AddressAssumption DEF Init, ConnInit, ConnTypeOK, Free, Stages
<1>3. /\ joining \in {"read", "dial", "announce", "up"}
      /\ todo \in Seq(TrustNames) /\ announced \in {"nothing", "address", "id"}
  <2>1. todo = <<>> \/ todo = CustomNodes
      BY DEF Init
  <2>2. todo \in Seq(TrustNames)
    <3>1. <<>> \in Seq(TrustNames)
        OBVIOUS
    <3>2. CustomNodes \in Seq(TrustNames)
        BY BootAssumption
    <3> QED
        BY <2>1, <3>1, <3>2, Zenon
  <2>3. joining \in {"read", "dial", "announce", "up"} /\ announced \in {"nothing", "address", "id"}
      BY DEF Init
  <2> QED
      BY <2>2, <2>3
<1> QED
    BY <1>1, <1>2, <1>3 DEF TypeOK

(* For any names, peers and addresses, every variable keeps to its values:  *)
(* in particular a connection past dialing has a peer, and gossipsub's mesh *)
(* is made of connected peers, whichever connection closed.  (p2p.rs,       *)
(* handle_swarm_event; run.rs, start_p2p_services.)                         *)
THEOREM JoinTypeCorrect == Spec => []TypeOK
<1>1. Init => TypeOK
    BY JoinTypeInit
<1>2. TypeOK /\ ContractInv /\ ContractInv' /\ [Next]_vars => TypeOK'
    BY JoinTypeStep
<1> QED
    BY <1>1, <1>2, ContractInvariant, PTL DEF Spec
=============================================================================
