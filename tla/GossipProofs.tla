---------------------------- MODULE GossipProofs ----------------------------
(***************************************************************************)
(* What holds of gossip and sync on any mesh, with any nodes watching,     *)
(* trusting or verifying, any ids and versions, and duplicate caches that  *)
(* forget: that a first version is never lost on the way, that every node  *)
(* keeps the promises of a store, and when a minted premint is retired.    *)
(***************************************************************************)
EXTENDS Gossip, NumberLemmas, TLAPS

-----------------------------------------------------------------------------
(***************************************************************************)
(* Links as the sets of what is on them.                                   *)
(***************************************************************************)
On(s) == {s[i] : i \in 1..Len(s)}

LEMMA OnEmpty == On(<<>>) = {}
BY DEF On

LEMMA OnAppend ==
    ASSUME NEW S, NEW s \in Seq(S), NEW m \in S
    PROVE  Append(s, m) \in Seq(S) /\ On(Append(s, m)) = On(s) \cup {m}
<1>1. Append(s, m) \in Seq(S) /\ Len(Append(s, m)) = Len(s) + 1 /\ Len(s) \in Nat
    OBVIOUS
<1>2. Append(s, m)[Len(s) + 1] = m /\ \A i \in 1..Len(s) : Append(s, m)[i] = s[i]
    OBVIOUS
<1>3. On(s) \cup {m} \subseteq On(Append(s, m))
    BY <1>1, <1>2 DEF On
<1>4. On(Append(s, m)) \subseteq On(s) \cup {m}
  <2>1. SUFFICES ASSUME NEW i \in 1..(Len(s) + 1)
                 PROVE  Append(s, m)[i] \in On(s) \cup {m}
      BY <1>1 DEF On
  <2>2. i \in 1..Len(s) \/ i = Len(s) + 1
      BY <1>1
  <2> QED
      BY <1>2, <2>2 DEF On
<1> QED
    BY <1>1, <1>3, <1>4

LEMMA OnTail ==
    ASSUME NEW S, NEW s \in Seq(S), s # <<>>
    PROVE  /\ Tail(s) \in Seq(S) /\ Head(s) \in S
           /\ On(s) = On(Tail(s)) \cup {Head(s)}
<1>1. /\ Tail(s) \in Seq(S) /\ Head(s) \in S /\ Head(s) = s[1]
      /\ Len(s) \in Nat \ {0} /\ Len(Tail(s)) = Len(s) - 1
    OBVIOUS
<1>2. \A i \in 1..(Len(s) - 1) : Tail(s)[i] = s[i + 1]
    OBVIOUS
<1>3. On(Tail(s)) \cup {Head(s)} \subseteq On(s)
  <2>1. \A i \in 1..(Len(s) - 1) : i + 1 \in 1..Len(s)
      BY <1>1
  <2> QED
      BY <1>1, <1>2, <2>1 DEF On
<1>4. On(s) \subseteq On(Tail(s)) \cup {Head(s)}
  <2>1. SUFFICES ASSUME NEW i \in 1..Len(s)
                 PROVE  s[i] \in On(Tail(s)) \cup {Head(s)}
      BY DEF On
  <2>2. i = 1 \/ (i - 1 \in 1..(Len(s) - 1) /\ (i - 1) + 1 = i)
      BY <1>1
  <2> QED
      BY <1>1, <1>2, <2>2 DEF On
<1> QED
    BY <1>1, <1>3, <1>4

LEMMA OnTyped ==
    ASSUME NEW S, NEW s \in Seq(S)
    PROVE  On(s) \subseteq S
BY DEF On

(* A message's id names a premint exactly if it is one of that id.          *)
LEMMA MessageIdOf ==
    ASSUME NEW msg \in Message
    PROVE  /\ MessageId(msg) \in MessageIds /\ msg.id \in Ids
           /\ \A id \in Ids :
                MessageId(msg) = <<"id", id>> <=> msg.type = "premint" /\ msg.id = id
           /\ msg.type = "premint" => msg = Premint(msg.id, msg.version) /\ msg.version \in Versions
           /\ msg.type # "premint" => msg = Claim(msg.id) /\ msg.type = "claim"
<1>1. CASE msg \in [type: {"premint"}, id: Ids, version: Versions]
    BY <1>1 DEF MessageId, MessageIds, Premint
<1>2. CASE msg \in [type: {"claim"}, id: Ids, version: {0}]
    BY <1>2 DEF MessageId, MessageIds, Claim
<1> QED
    BY <1>1, <1>2 DEF Message

LEMMA MessagesBuilt ==
    ASSUME NEW id \in Ids
    PROVE  /\ Claim(id) \in Message /\ MessageId(Claim(id)) = <<"likely_spam">>
           /\ \A v \in Versions :
                Premint(id, v) \in Message /\ MessageId(Premint(id, v)) = <<"id", id>>
BY DEF Claim, Premint, Message, MessageId

(* What SendToMesh puts where. *)
GoesTo(l, n, source) == l[1] = n /\ l[2] # source
Plus(S, msg) == S \cup {msg}

LEMMA SentToMesh ==
    ASSUME NEW links \in [Links -> Seq(Message)], NEW n, NEW source, NEW msg \in Message
    PROVE  /\ SendToMesh(links, n, source, msg) \in [Links -> Seq(Message)]
           /\ \A l \in Links :
                /\ GoesTo(l, n, source) =>
                        On(SendToMesh(links, n, source, msg)[l]) = Plus(On(links[l]), msg)
                /\ ~GoesTo(l, n, source) =>
                        On(SendToMesh(links, n, source, msg)[l]) = On(links[l])
<1> DEFINE sent == SendToMesh(links, n, source, msg)
<1>1. sent = [l \in Links |-> IF GoesTo(l, n, source) THEN Append(links[l], msg) ELSE links[l]]
    BY DEF SendToMesh, GoesTo
<1> HIDE DEF sent
<1>2. ASSUME NEW l \in Links
      PROVE  /\ sent[l] \in Seq(Message)
             /\ GoesTo(l, n, source) => On(sent[l]) = Plus(On(links[l]), msg)
             /\ ~GoesTo(l, n, source) => On(sent[l]) = On(links[l])
  <2>1. links[l] \in Seq(Message)
      OBVIOUS
  <2>2. /\ Append(links[l], msg) \in Seq(Message)
        /\ On(Append(links[l], msg)) = Plus(On(links[l]), msg)
      BY <2>1, OnAppend DEF Plus
  <2> QED
      BY <1>1, <2>1, <2>2
<1>3. sent \in [Links -> Seq(Message)]
    BY <1>1, <1>2
<1> QED
    BY <1>2, <1>3 DEF sent

-----------------------------------------------------------------------------
(***************************************************************************)
(* Stored: one node's versions rise, to versions it was given, of ids that *)
(* are not minted, and at least to all of those.                           *)
(***************************************************************************)
LEMMA StoredRises ==
    ASSUME TypeOK, NEW n \in Nodes, NEW rows
    PROVE  LET new == Stored(n, rows)
           IN  /\ new \in [Nodes -> [Ids -> 0..MaxVersion]]
               /\ \A m \in Nodes \ {n} : new[m] = version[m]
               /\ \A id \in Ids :
                    \/ new[n][id] = version[n][id]
                    \/ /\ new[n][id] \in Versions /\ new[n][id] > version[n][id]
                       /\ id \notin minted /\ <<id, new[n][id]>> \in rows
               /\ \A id \in Ids \ minted, v \in Versions :
                    <<id, v>> \in rows => new[n][id] >= v
<1> DEFINE higher(id) == {v \in Versions : <<id, v>> \in rows /\ Accepts(n, id, v)}
           row(id) == IF higher(id) = {} THEN version[n][id] ELSE Max(higher(id))
<1>1. version \in [Nodes -> [Ids -> 0..MaxVersion]] /\ MaxVersion \in Nat
    BY CountAssumption DEF TypeOK
<1>2. Stored(n, rows) = [version EXCEPT ![n] = [id \in Ids |-> row(id)]]
    BY <1>1 DEF Stored
<1>3. ASSUME NEW id \in Ids, higher(id) # {}
      PROVE  /\ Max(higher(id)) \in higher(id)
             /\ \A v \in higher(id) : Max(higher(id)) >= v
  <2>1. higher(id) \in SUBSET (0..MaxVersion)
      BY <1>1 DEF Versions
  <2> HIDE DEF higher
  <2> QED
      BY <1>1, <1>3, <2>1, GreatestIsMax
<1>4. ASSUME NEW id \in Ids
      PROVE  /\ row(id) \in 0..MaxVersion
             /\ \/ row(id) = version[n][id]
                \/ /\ row(id) \in Versions /\ row(id) > version[n][id]
                   /\ id \notin minted /\ <<id, row(id)>> \in rows
  <2>1. CASE higher(id) = {}
      BY <1>1, <2>1
  <2>2. CASE higher(id) # {}
    <3>1. row(id) = Max(higher(id)) /\ Max(higher(id)) \in higher(id)
        BY <1>3, <2>2
    <3>2. row(id) \in Versions /\ <<id, row(id)>> \in rows /\ Accepts(n, id, row(id))
        BY <3>1
    <3> QED
        BY <1>1, <3>2 DEF Accepts, Versions
  <2> QED
      BY <2>1, <2>2
<1>5. ASSUME NEW id \in Ids \ minted, NEW v \in Versions, <<id, v>> \in rows
      PROVE  row(id) >= v
  <2>1. CASE v > version[n][id]
    <3>1. v \in higher(id)
        BY <1>5, <2>1 DEF Accepts
    <3>2. row(id) = Max(higher(id)) /\ Max(higher(id)) >= v
        BY <1>3, <3>1
    <3> QED
        BY <3>2
  <2>2. CASE ~(v > version[n][id])
    <3>1. row(id) \in 0..MaxVersion /\ (row(id) = version[n][id] \/ row(id) > version[n][id])
        BY <1>4
    <3> QED
        BY <1>1, <2>2, <3>1 DEF Versions
  <2> QED
      BY <2>1, <2>2
<1> HIDE DEF row
<1>6. [id \in Ids |-> row(id)] \in [Ids -> 0..MaxVersion]
    BY <1>4
<1>7. /\ Stored(n, rows)[n] = [id \in Ids |-> row(id)]
      /\ \A m \in Nodes \ {n} : Stored(n, rows)[m] = version[m]
      /\ Stored(n, rows) \in [Nodes -> [Ids -> 0..MaxVersion]]
    BY <1>1, <1>2, <1>6
<1> QED
    BY <1>4, <1>5, <1>7

-----------------------------------------------------------------------------
(***************************************************************************)
(* Types.                                                                  *)
(***************************************************************************)
LEMMA TypeInit == Init => TypeOK
BY CountAssumption DEF Init, TypeOK

LEMMA PublishTypes ==
    ASSUME TypeOK, NEW n \in Nodes, NEW msg \in Message, Publish(n, msg)
    PROVE  cache' \in [Nodes -> SUBSET MessageIds] /\ link' \in [Links -> Seq(Message)]
<1>1. cache \in [Nodes -> SUBSET MessageIds] /\ link \in [Links -> Seq(Message)]
    BY DEF TypeOK
<1>2. CASE Known(n, msg)
    BY <1>1, <1>2 DEF Publish
<1>3. CASE ~Known(n, msg)
  <2>1. /\ cache' = [cache EXCEPT ![n] = @ \cup {MessageId(msg)}]
        /\ link' = SendToMesh(link, n, n, msg)
      BY <1>3 DEF Publish
  <2>2. MessageId(msg) \in MessageIds
      BY MessageIdOf
  <2>3. link' \in [Links -> Seq(Message)]
      BY <1>1, <2>1, SentToMesh
  <2> QED
      BY <1>1, <2>1, <2>2, <2>3
<1> QED
    BY <1>2, <1>3

(* A node handles a message: a premint may raise a version, a claim may     *)
(* retire a row.                                                            *)
LEMMA HandleEffect ==
    ASSUME TypeOK, NEW n \in Nodes, NEW source, NEW msg \in Message, Handle(n, source, msg)
    PROVE  /\ \/ /\ msg.type = "premint" /\ gone' = gone
                 /\ version' = Stored(n, {<<msg.id, msg.version>>})
              \/ /\ msg.type = "claim" /\ version' = version
                 /\ \/ gone' = gone
                    \/ /\ gone' = [gone EXCEPT ![n] = @ \cup {msg.id}]
                       /\ HasRow(n, msg.id) /\ ClaimAccepted(n, source, msg.id)
           /\ version' \in [Nodes -> [Ids -> 0..MaxVersion]] /\ gone' \in [Nodes -> SUBSET Ids]
<1>1. version \in [Nodes -> [Ids -> 0..MaxVersion]] /\ gone \in [Nodes -> SUBSET Ids]
    BY DEF TypeOK
<1>2. CASE msg.type = "premint"
    BY <1>1, <1>2, StoredRises DEF Handle
<1>3. CASE msg.type # "premint"
  <2>1. msg.type = "claim" /\ msg.id \in Ids
      BY <1>3, MessageIdOf
  <2>2. version' = version
      BY <1>3 DEF Handle
  <2>3. \/ gone' = gone
        \/ /\ gone' = [gone EXCEPT ![n] = @ \cup {msg.id}]
           /\ HasRow(n, msg.id) /\ ClaimAccepted(n, source, msg.id)
      BY <1>3 DEF Handle, HasRow
  <2>4. gone' \in [Nodes -> SUBSET Ids]
      BY <1>1, <2>1, <2>3
  <2> QED
      BY <1>1, <2>1, <2>2, <2>3, <2>4
<1> QED
    BY <1>2, <1>3

LEMMA TypeStep == TypeOK /\ [Next]_vars => TypeOK'
<1> SUFFICES ASSUME TypeOK, [Next]_vars
             PROVE  TypeOK'
    OBVIOUS
<1>1. ASSUME NEW n \in Nodes, NEW id \in Ids, NEW v \in Versions, Submit(n, id, v)
      PROVE  TypeOK'
  <2>1. version' \in [Nodes -> [Ids -> 0..MaxVersion]]
      BY <1>1, StoredRises DEF Submit
  <2>2. cache' \in [Nodes -> SUBSET MessageIds] /\ link' \in [Links -> Seq(Message)]
      BY <1>1, MessagesBuilt, PublishTypes DEF Submit
  <2> QED
      BY <1>1, <2>1, <2>2 DEF Submit, TypeOK
<1>2. ASSUME NEW l \in Links, Receive(l)
      PROVE  TypeOK'
  <2> DEFINE n == l[2]
             msg == Head(link[l])
             rest == [link EXCEPT ![l] = Tail(@)]
  <2>1. /\ link \in [Links -> Seq(Message)] /\ cache \in [Nodes -> SUBSET MessageIds]
        /\ link[l] \in Seq(Message) /\ link[l] # <<>>
      BY <1>2 DEF TypeOK, Receive
  <2>2. msg \in Message /\ rest \in [Links -> Seq(Message)]
      BY <2>1, OnTail
  <2>3. n \in Nodes /\ MessageId(msg) \in MessageIds /\ msg.id \in Ids
      BY <2>2, MessageIdOf, MeshAssumption
  <2>4. CASE Known(n, msg)
    <3>1. link' = rest /\ UNCHANGED <<version, gone, cache, old, answers, minted, offset, watched, expiries>>
        BY <1>2, <2>4 DEF Receive
    <3> HIDE DEF rest
    <3> QED
        BY <2>2, <3>1 DEF TypeOK
  <2>5. CASE ~Known(n, msg)
    <3>1. /\ cache' = [cache EXCEPT ![n] = @ \cup {MessageId(msg)}]
          /\ link' = SendToMesh(rest, n, l[1], msg)
          /\ Handle(n, l[1], msg)
          /\ UNCHANGED <<old, answers, minted, offset, watched, expiries>>
        BY <1>2, <2>5 DEF Receive
    <3> HIDE DEF rest, msg, n
    <3>2. link' \in [Links -> Seq(Message)]
        BY <2>2, <3>1, SentToMesh
    <3>3. cache' \in [Nodes -> SUBSET MessageIds]
        BY <2>1, <2>3, <3>1
    <3>4. version' \in [Nodes -> [Ids -> 0..MaxVersion]] /\ gone' \in [Nodes -> SUBSET Ids]
        BY <2>2, <2>3, <3>1, HandleEffect
    <3> QED
        BY <3>1, <3>2, <3>3, <3>4 DEF TypeOK
  <2> QED
      BY <2>4, <2>5
<1>3. ASSUME NEW n \in Nodes, NEW mid \in MessageIds, Expire(n, mid)
      PROVE  TypeOK'
    BY <1>3, CountAssumption DEF Expire, TypeOK
<1>4. ASSUME NEW l \in SyncLinks, SyncRequest(l)
      PROVE  TypeOK'
  <2>1. l[1] \in Nodes /\ Recent(l[2]) \subseteq Ids \X Versions
      BY MeshAssumption DEF Recent
  <2> QED
      BY <1>4, <2>1 DEF SyncRequest, TypeOK
<1>5. ASSUME NEW a \in answers, SyncResponse(a)
      PROVE  TypeOK'
  <2>1. a.to \in Nodes
      BY DEF TypeOK
  <2>2. version' \in [Nodes -> [Ids -> 0..MaxVersion]]
      BY <1>5, <2>1, StoredRises DEF SyncResponse
  <2> QED
      BY <1>5, <2>2 DEF SyncResponse, TypeOK
<1>6. CASE HoursPass
    BY <1>6 DEF HoursPass, TypeOK
<1>7. ASSUME NEW id \in Ids, Mint(id)
      PROVE  TypeOK'
    BY <1>7 DEF Mint, TypeOK
<1>8. ASSUME NEW n \in Nodes, NEW id \in Ids, SeeMint(n, id)
      PROVE  TypeOK'
  <2>1. cache' \in [Nodes -> SUBSET MessageIds] /\ link' \in [Links -> Seq(Message)]
      BY <1>8, MessagesBuilt, PublishTypes DEF SeeMint
  <2> QED
      BY <1>8, <2>1 DEF SeeMint, TypeOK
<1>9. CASE UNCHANGED vars
    BY <1>9 DEF vars, TypeOK
<1> QED
    BY <1>1, <1>2, <1>3, <1>4, <1>5, <1>6, <1>7, <1>8, <1>9 DEF Next, Deliver

(* For any mesh and any parameters, every variable keeps to its values.     *)
THEOREM GossipTypeCorrect == Spec => []TypeOK
BY TypeInit, TypeStep, PTL DEF Spec

-----------------------------------------------------------------------------
(***************************************************************************)
(* The first version of a premint.  Whoever forwards or publishes a premint*)
(* has its row, so a peer it is not sent back to has one.                  *)
(***************************************************************************)
CachedIsStored ==
    \A n \in Nodes : \A id \in Ids \ minted : <<"id", id>> \in cache[n] => HasRow(n, id)

SentIsStored ==
    \A l \in Links : \A id \in Ids \ minted : OnItsWay(l, id) => HasRow(l[1], id)

SpreadInv ==
    /\ CachedIsStored /\ SentIsStored /\ FirstVersionOnItsWay
    /\ SyncLinks = {} => answers = {}

(* The steps that keep it: rows and mints stay; a cache takes an id in with *)
(* a row of it, a node sends what it has a row of, a message that is        *)
(* received leaves a row; and whoever comes to have an id sends it.         *)
Bound(n, id) == <<"id", id>> \in cache[n] \/ (SyncLinks = {} /\ HasRow(n, id))

SpreadStep ==
    /\ minted \subseteq minted'
    /\ \A n \in Nodes, id \in Ids : HasRow(n, id) => HasRow(n, id)'
    /\ \A n \in Nodes : \A id \in Ids \ minted' :
          <<"id", id>> \in cache'[n] => <<"id", id>> \in cache[n] \/ HasRow(n, id)'
    /\ \A l \in Links : \A id \in Ids \ minted' :
          /\ OnItsWay(l, id)' => OnItsWay(l, id) \/ HasRow(l[1], id)'
          /\ OnItsWay(l, id) => OnItsWay(l, id)' \/ HasRow(l[2], id)'
          /\ Bound(l[1], id)' => Bound(l[1], id) \/ OnItsWay(l, id)' \/ HasRow(l[2], id)'
    /\ SyncLinks = {} /\ answers = {} => answers' = {}

LEMMA SpreadStepKeeps ==
    ASSUME SpreadInv, SpreadStep
    PROVE  SpreadInv'
<1>1. CachedIsStored'
    BY DEF SpreadInv, SpreadStep, CachedIsStored
<1>2. SentIsStored'
  <2>1. SUFFICES ASSUME NEW l \in Links, NEW id \in Ids \ minted', OnItsWay(l, id)'
                 PROVE  HasRow(l[1], id)'
      BY DEF SentIsStored
  <2>2. l[1] \in Nodes /\ id \in Ids \ minted
      BY MeshAssumption DEF SpreadStep
  <2> QED
      BY <2>1, <2>2 DEF SpreadInv, SpreadStep, SentIsStored
<1>3. FirstVersionOnItsWay'
  <2>1. SUFFICES ASSUME NEW l \in Links, NEW id \in Ids \ minted',
                        Bound(l[1], id)', ~HasRow(l[2], id)'
                 PROVE  OnItsWay(l, id)'
      BY DEF FirstVersionOnItsWay, Bound
  <2>2. l[2] \in Nodes /\ id \in Ids \ minted
      BY MeshAssumption DEF SpreadStep
  <2>3. ~HasRow(l[2], id)
      BY <2>1, <2>2 DEF SpreadStep
  <2>4. Bound(l[1], id) => OnItsWay(l, id)
      BY <2>2, <2>3 DEF SpreadInv, FirstVersionOnItsWay, Bound
  <2> QED
      BY <2>1, <2>4 DEF SpreadStep
<1> QED
    BY <1>1, <1>2, <1>3 DEF SpreadInv, SpreadStep

(* A message on a link, by its id. *)
LEMMA OnSome ==
    \A s, id : (\E i \in 1..Len(s) : MessageId(s[i]) = <<"id", id>>)
                <=> (\E msg \in On(s) : MessageId(msg) = <<"id", id>>)
BY DEF On

(* What Publish does to the caches and the links. *)
LEMMA Published ==
    ASSUME TypeOK, NEW n \in Nodes, NEW msg \in Message, Publish(n, msg)
    PROVE  /\ \A m \in Nodes \ {n} : cache'[m] = cache[m]
           /\ cache'[n] = cache[n] \cup {MessageId(msg)}
           /\ \A l \in Links :
                \/ On(link'[l]) = On(link[l]) /\ (l[1] = n => Known(n, msg))
                \/ l[1] = n /\ On(link'[l]) = On(link[l]) \cup {msg}
<1>1. cache \in [Nodes -> SUBSET MessageIds] /\ link \in [Links -> Seq(Message)]
    BY DEF TypeOK
<1>2. CASE Known(n, msg)
  <2>1. cache' = cache /\ link' = link /\ MessageId(msg) \in cache[n]
      BY <1>2 DEF Publish, Known
  <2>2. cache'[n] = cache[n] \cup {MessageId(msg)}
      BY <2>1
  <2>3. \A l \in Links : On(link'[l]) = On(link[l])
      BY <2>1
  <2> QED
      BY <1>2, <2>1, <2>2, <2>3
<1>3. CASE ~Known(n, msg)
  <2>1. /\ cache' = [cache EXCEPT ![n] = @ \cup {MessageId(msg)}]
        /\ link' = SendToMesh(link, n, n, msg)
      BY <1>3 DEF Publish
  <2>2. ASSUME NEW l \in Links
        PROVE  \/ On(link'[l]) = On(link[l]) /\ l[1] # n
               \/ l[1] = n /\ On(link'[l]) = On(link[l]) \cup {msg}
    <3>1. GoesTo(l, n, n) <=> l[1] = n
        BY MeshAssumption DEF GoesTo
    <3>2. /\ GoesTo(l, n, n) => On(SendToMesh(link, n, n, msg)[l]) = Plus(On(link[l]), msg)
          /\ ~GoesTo(l, n, n) => On(SendToMesh(link, n, n, msg)[l]) = On(link[l])
        BY <1>1, SentToMesh
    <3> QED
        BY <2>1, <3>1, <3>2 DEF Plus
  <2>3. /\ \A m \in Nodes \ {n} : cache'[m] = cache[m]
        /\ cache'[n] = cache[n] \cup {MessageId(msg)}
      BY <1>1, <2>1
  <2> QED
      BY <2>2, <2>3
<1> QED
    BY <1>2, <1>3

(* What a link has on the way, by the ids of its messages. *)
Way(s, id) == \E msg \in On(s) : MessageId(msg) = <<"id", id>>

LEMMA OnWay ==
    \A l, id : /\ OnItsWay(l, id) <=> Way(link[l], id)
               /\ OnItsWay(l, id)' <=> Way(link'[l], id)
BY OnSome DEF OnItsWay, Way

LEMMA PublishedWay ==
    ASSUME TypeOK, NEW n \in Nodes, NEW msg \in Message, Publish(n, msg), NEW id
    PROVE  /\ \A m \in Nodes : <<"id", id>> \in cache'[m] <=>
                \/ <<"id", id>> \in cache[m]
                \/ m = n /\ MessageId(msg) = <<"id", id>>
           /\ \A l \in Links :
                /\ Way(link[l], id) => Way(link'[l], id)
                /\ Way(link'[l], id) =>
                        Way(link[l], id) \/ (l[1] = n /\ MessageId(msg) = <<"id", id>>)
                /\ l[1] = n /\ MessageId(msg) = <<"id", id>> =>
                        Way(link'[l], id) \/ <<"id", id>> \in cache[n]
<1>1. ASSUME NEW m \in Nodes
      PROVE  <<"id", id>> \in cache'[m] <=>
                \/ <<"id", id>> \in cache[m]
                \/ m = n /\ MessageId(msg) = <<"id", id>>
  <2>1. CASE m = n
      BY <2>1, Published
  <2>2. CASE m # n
      BY <2>2, Published
  <2> QED
      BY <2>1, <2>2
<1>2. ASSUME NEW l \in Links
      PROVE  /\ Way(link[l], id) => Way(link'[l], id)
             /\ Way(link'[l], id) =>
                     Way(link[l], id) \/ (l[1] = n /\ MessageId(msg) = <<"id", id>>)
             /\ l[1] = n /\ MessageId(msg) = <<"id", id>> =>
                     Way(link'[l], id) \/ <<"id", id>> \in cache[n]
  <2>1. CASE On(link'[l]) = On(link[l]) /\ (l[1] = n => Known(n, msg))
      BY <2>1 DEF Way, Known
  <2>2. CASE l[1] = n /\ On(link'[l]) = On(link[l]) \cup {msg}
      BY <2>2 DEF Way
  <2> QED
      BY <2>1, <2>2, Published
<1> QED
    BY <1>1, <1>2

(* The rows that storing some leaves. *)
LEMMA StoredRows ==
    ASSUME TypeOK, NEW n \in Nodes, NEW rows, version' = Stored(n, rows)
    PROVE  /\ \A m \in Nodes, id \in Ids :
                /\ HasRow(m, id) => HasRow(m, id)'
                /\ HasRow(m, id)' => HasRow(m, id) \/ (m = n /\ \E v : <<id, v>> \in rows)
           /\ \A id \in Ids \ minted, v \in Versions : <<id, v>> \in rows => HasRow(n, id)'
<1>1. version \in [Nodes -> [Ids -> 0..MaxVersion]]
      /\ version' \in [Nodes -> [Ids -> 0..MaxVersion]]
    BY StoredRises DEF TypeOK
<1>2. ASSUME NEW m \in Nodes, NEW id \in Ids
      PROVE  /\ HasRow(m, id) => HasRow(m, id)'
             /\ HasRow(m, id)' => HasRow(m, id) \/ (m = n /\ \E v : <<id, v>> \in rows)
  <2>1. CASE m # n
    <3>1. version'[m] = version[m]
        BY <2>1, StoredRises
    <3> QED
        BY <3>1 DEF HasRow
  <2>2. CASE m = n
    <3>1. \/ version'[n][id] = version[n][id]
          \/ version'[n][id] > version[n][id] /\ <<id, version'[n][id]>> \in rows
        BY StoredRises
    <3>2. version[n][id] \in 0..MaxVersion /\ version'[n][id] \in 0..MaxVersion
        BY <1>1
    <3>3. CASE version'[n][id] = version[n][id]
        BY <2>2, <3>3 DEF HasRow
    <3>4. CASE version'[n][id] > version[n][id] /\ <<id, version'[n][id]>> \in rows
      <4>1. version'[n][id] > 0
          BY <3>2, <3>4, CountAssumption
      <4>2. \E v : <<id, v>> \in rows
          BY <3>4
      <4> QED
          BY <2>2, <4>1, <4>2 DEF HasRow
    <3> QED
        BY <3>1, <3>3, <3>4
  <2> QED
      BY <2>1, <2>2
<1>3. ASSUME NEW id \in Ids \ minted, NEW v \in Versions, <<id, v>> \in rows
      PROVE  HasRow(n, id)'
  <2>1. version'[n][id] >= v /\ version'[n][id] \in 0..MaxVersion
      BY <1>1, <1>3, StoredRises
  <2> QED
      BY <2>1, CountAssumption DEF HasRow, Versions
<1> QED
    BY <1>2, <1>3

(* Storing one version leaves the same rows, and one of its id.             *)
LEMMA StoredOne ==
    ASSUME TypeOK, NEW n \in Nodes, NEW id0 \in Ids, NEW v \in Versions,
           version' = Stored(n, {<<id0, v>>})
    PROVE  /\ \A m \in Nodes, id \in Ids :
                /\ HasRow(m, id) => HasRow(m, id)'
                /\ HasRow(m, id)' => HasRow(m, id) \/ (m = n /\ id = id0)
           /\ id0 \notin minted => HasRow(n, id0)'
<1> DEFINE rows == {<<id0, v>>}
<1>1. (\A id \in Ids : (\E w : <<id, w>> \in rows) => id = id0) /\ <<id0, v>> \in rows
    OBVIOUS
<1>2. version' = Stored(n, rows)
    OBVIOUS
<1> HIDE DEF rows
<1>3. /\ \A m \in Nodes, id \in Ids :
           /\ HasRow(m, id) => HasRow(m, id)'
           /\ HasRow(m, id)' => HasRow(m, id) \/ (m = n /\ \E w : <<id, w>> \in rows)
      /\ \A id \in Ids \ minted, w \in Versions : <<id, w>> \in rows => HasRow(n, id)'
    BY <1>2, StoredRows
<1> QED
    BY <1>1, <1>3

(* Each action that moves a message or a row is such a step. *)
LEMMA SubmitSpreads ==
    ASSUME TypeOK, SpreadInv, NEW n \in Nodes, NEW id0 \in Ids, NEW v \in Versions,
           Submit(n, id0, v)
    PROVE  SpreadStep
<1> DEFINE msg == Premint(id0, v)
<1>1. /\ version' = Stored(n, {<<id0, v>>}) /\ Publish(n, msg) /\ id0 \notin minted
      /\ minted' = minted /\ answers' = answers
    BY DEF Submit, Accepts
<1>2. msg \in Message /\ MessageId(msg) = <<"id", id0>>
    BY MessagesBuilt
<1> HIDE DEF msg
<1>3. \A id \in Ids : MessageId(msg) = <<"id", id>> <=> id = id0
    BY <1>2
<1>4. /\ \A m \in Nodes, id \in Ids :
           /\ HasRow(m, id) => HasRow(m, id)'
           /\ HasRow(m, id)' => HasRow(m, id) \/ (m = n /\ id = id0)
      /\ HasRow(n, id0)'
    BY <1>1, StoredOne
<1>5. ASSUME NEW id \in Ids, NEW l \in Links
      PROVE  /\ Way(link[l], id) => Way(link'[l], id)
             /\ Way(link'[l], id) => Way(link[l], id) \/ (l[1] = n /\ id = id0)
             /\ l[1] = n /\ id = id0 => Way(link'[l], id) \/ <<"id", id>> \in cache[n]
    BY <1>1, <1>2, <1>3, PublishedWay
<1>6. ASSUME NEW id \in Ids, NEW m \in Nodes
      PROVE  <<"id", id>> \in cache'[m] <=> <<"id", id>> \in cache[m] \/ (m = n /\ id = id0)
    BY <1>1, <1>2, <1>3, PublishedWay
<1>7. ASSUME NEW l \in Links, NEW id \in Ids \ minted'
      PROVE  /\ OnItsWay(l, id)' => OnItsWay(l, id) \/ HasRow(l[1], id)'
             /\ OnItsWay(l, id) => OnItsWay(l, id)' \/ HasRow(l[2], id)'
             /\ Bound(l[1], id)' => Bound(l[1], id) \/ OnItsWay(l, id)' \/ HasRow(l[2], id)'
  <2>1. l[1] \in Nodes /\ id \in Ids
      BY MeshAssumption
  <2>2. OnItsWay(l, id)' => OnItsWay(l, id) \/ HasRow(l[1], id)'
      BY <1>4, <1>5, <2>1, OnWay
  <2>3. OnItsWay(l, id) => OnItsWay(l, id)'
      BY <1>5, <2>1, OnWay
  <2>4. Bound(l[1], id)' => Bound(l[1], id) \/ (l[1] = n /\ id = id0)
      BY <1>4, <1>6, <2>1 DEF Bound
  <2>5. l[1] = n /\ id = id0 => OnItsWay(l, id)' \/ Bound(l[1], id)
      BY <1>5, <2>1, OnWay DEF Bound
  <2> QED
      BY <2>2, <2>3, <2>4, <2>5
<1> QED
    BY <1>1, <1>4, <1>6, <1>7 DEF SpreadStep

LEMMA ReceiveSpreads ==
    ASSUME TypeOK, SpreadInv, NEW l0 \in Links, Receive(l0)
    PROVE  SpreadStep
<1> DEFINE n == l0[2]
           msg == Head(link[l0])
           rest == [link EXCEPT ![l0] = Tail(@)]
<1>1. /\ link \in [Links -> Seq(Message)] /\ cache \in [Nodes -> SUBSET MessageIds]
      /\ link[l0] \in Seq(Message) /\ link[l0] # <<>>
    BY DEF TypeOK, Receive
<1>2. /\ msg \in Message /\ rest \in [Links -> Seq(Message)]
      /\ \A l \in Links \ {l0} : On(rest[l]) = On(link[l])
      /\ On(link[l0]) = On(rest[l0]) \cup {msg}
    BY <1>1, OnTail
<1>3. n \in Nodes /\ l0[1] \in Nodes /\ minted' = minted /\ answers' = answers
    BY MeshAssumption DEF Receive
<1>4. \/ /\ Known(n, msg) /\ link' = rest
         /\ UNCHANGED <<version, cache>>
      \/ /\ ~Known(n, msg) /\ cache' = [cache EXCEPT ![n] = @ \cup {MessageId(msg)}]
         /\ link' = SendToMesh(rest, n, l0[1], msg) /\ Handle(n, l0[1], msg)
    BY DEF Receive
<1> HIDE DEF n, msg, rest
<1>5. ASSUME NEW id \in Ids, NEW l \in Links
      PROVE  /\ Way(rest[l], id) => Way(link[l], id)
             /\ Way(link[l], id) => Way(rest[l], id) \/ (l = l0 /\ MessageId(msg) = <<"id", id>>)
             /\ MessageId(msg) = <<"id", id>> => Way(link[l0], id)
    BY <1>2 DEF Way
<1>6. CASE Known(n, msg) /\ link' = rest /\ UNCHANGED <<version, cache>>
  <2>1. \A m \in Nodes, id \in Ids : HasRow(m, id)' <=> HasRow(m, id)
      BY <1>6 DEF HasRow
  <2>2. ASSUME NEW l \in Links, NEW id \in Ids \ minted'
        PROVE  /\ OnItsWay(l, id)' => OnItsWay(l, id)
               /\ OnItsWay(l, id) => OnItsWay(l, id)' \/ HasRow(l[2], id)'
               /\ Bound(l[1], id)' => Bound(l[1], id)
    <3>1. l[1] \in Nodes /\ l[2] \in Nodes /\ id \in Ids \ minted
        BY <1>3, MeshAssumption
    <3>2. OnItsWay(l, id)' => OnItsWay(l, id)
        BY <1>5, <1>6, OnWay
    <3>3. OnItsWay(l, id) => OnItsWay(l, id)' \/ (l = l0 /\ MessageId(msg) = <<"id", id>>)
        BY <1>5, <1>6, OnWay
    <3>4. l = l0 /\ MessageId(msg) = <<"id", id>> => HasRow(l[2], id)
        BY <1>3, <1>6, <3>1 DEF Known, SpreadInv, CachedIsStored, n
    <3>5. Bound(l[1], id)' => Bound(l[1], id)
        BY <1>6, <2>1, <3>1 DEF Bound
    <3> QED
        BY <2>1, <3>1, <3>2, <3>3, <3>4, <3>5
  <2> QED
      BY <1>3, <1>6, <2>1, <2>2 DEF SpreadStep
<1>7. CASE /\ ~Known(n, msg) /\ cache' = [cache EXCEPT ![n] = @ \cup {MessageId(msg)}]
           /\ link' = SendToMesh(rest, n, l0[1], msg) /\ Handle(n, l0[1], msg)
  <2>1. /\ \A m \in Nodes, id \in Ids :
             /\ HasRow(m, id) => HasRow(m, id)'
             /\ HasRow(m, id)' => HasRow(m, id) \/ (m = n /\ MessageId(msg) = <<"id", id>>)
        /\ \A id \in Ids \ minted : MessageId(msg) = <<"id", id>> => HasRow(n, id)'
    <3>1. CASE msg.type = "premint" /\ version' = Stored(n, {<<msg.id, msg.version>>})
      <4>1. /\ msg.id \in Ids /\ msg.version \in Versions
            /\ \A id \in Ids : MessageId(msg) = <<"id", id>> <=> id = msg.id
          BY <1>2, <3>1, MessageIdOf
      <4>2. PICK id0 \in Ids, v0 \in Versions : id0 = msg.id /\ v0 = msg.version
          BY <4>1
      <4>3. /\ version' = Stored(n, {<<id0, v0>>})
            /\ \A id \in Ids : MessageId(msg) = <<"id", id>> <=> id = id0
          BY <3>1, <4>1, <4>2
      <4>4. /\ \A m \in Nodes, id \in Ids :
                 /\ HasRow(m, id) => HasRow(m, id)'
                 /\ HasRow(m, id)' => HasRow(m, id) \/ (m = n /\ id = id0)
            /\ id0 \notin minted => HasRow(n, id0)'
          BY <1>3, <4>3, StoredOne
      <4> QED
          BY <4>3, <4>4
    <3>2. CASE msg.type = "claim" /\ version' = version
      <4>1. \A id \in Ids : MessageId(msg) # <<"id", id>>
          BY <1>2, <3>2, MessageIdOf
      <4> QED
          BY <3>2, <4>1 DEF HasRow
    <3> QED
        BY <1>2, <1>3, <1>7, <3>1, <3>2, HandleEffect
  <2>2. ASSUME NEW id \in Ids, NEW l \in Links
        PROVE  /\ Way(rest[l], id) => Way(link'[l], id)
               /\ Way(link'[l], id) => Way(rest[l], id) \/ (l[1] = n /\ MessageId(msg) = <<"id", id>>)
               /\ l[1] = n /\ l[2] # l0[1] /\ MessageId(msg) = <<"id", id>> => Way(link'[l], id)
    <3>1. CASE GoesTo(l, n, l0[1])
      <4>1. On(link'[l]) = Plus(On(rest[l]), msg)
          BY <1>2, <1>7, <3>1, SentToMesh
      <4> QED
          BY <3>1, <4>1 DEF Way, Plus, GoesTo
    <3>2. CASE ~GoesTo(l, n, l0[1])
      <4>1. On(link'[l]) = On(rest[l])
          BY <1>2, <1>7, <3>2, SentToMesh
      <4> QED
          BY <3>2, <4>1 DEF Way, GoesTo
    <3> QED
        BY <3>1, <3>2
  <2>3. ASSUME NEW id \in Ids, NEW m \in Nodes
        PROVE  <<"id", id>> \in cache'[m] <=>
                  <<"id", id>> \in cache[m] \/ (m = n /\ MessageId(msg) = <<"id", id>>)
    <3>1. CASE m = n
        BY <1>1, <1>3, <1>7, <3>1
    <3>2. CASE m # n
        BY <1>1, <1>3, <1>7, <3>2
    <3> QED
        BY <3>1, <3>2
  <2>4. ASSUME NEW l \in Links, NEW id \in Ids \ minted'
        PROVE  /\ OnItsWay(l, id)' => OnItsWay(l, id) \/ HasRow(l[1], id)'
               /\ OnItsWay(l, id) => OnItsWay(l, id)' \/ HasRow(l[2], id)'
               /\ Bound(l[1], id)' => Bound(l[1], id) \/ OnItsWay(l, id)' \/ HasRow(l[2], id)'
    <3>1. l[1] \in Nodes /\ l[2] \in Nodes /\ id \in Ids \ minted
        BY <1>3, MeshAssumption
    <3>2. OnItsWay(l, id)' => OnItsWay(l, id) \/ HasRow(l[1], id)'
        BY <1>5, <2>1, <2>2, <3>1, OnWay
    <3>3. OnItsWay(l, id) => OnItsWay(l, id)' \/ HasRow(l[2], id)'
        BY <1>5, <2>1, <2>2, <3>1, OnWay DEF n
    <3>4. Bound(l[1], id)' => Bound(l[1], id) \/ (l[1] = n /\ MessageId(msg) = <<"id", id>>)
        BY <2>1, <2>3, <3>1 DEF Bound
    <3>5. MessageId(msg) = <<"id", id>> => HasRow(l0[1], id)'
      <4>1. MessageId(msg) = <<"id", id>> => OnItsWay(l0, id)
          BY <1>5, <3>1, OnWay
      <4>2. OnItsWay(l0, id) => HasRow(l0[1], id)
          BY <3>1 DEF SpreadInv, SentIsStored
      <4> QED
          BY <1>3, <2>1, <3>1, <4>1, <4>2
    <3>6. l[1] = n /\ MessageId(msg) = <<"id", id>> => OnItsWay(l, id)' \/ HasRow(l[2], id)'
      <4>1. CASE l[2] = l0[1]
          BY <3>5, <4>1
      <4>2. CASE l[2] # l0[1]
          BY <2>2, <3>1, <4>2, OnWay
      <4> QED
          BY <4>1, <4>2
    <3> QED
        BY <3>2, <3>3, <3>4, <3>6
  <2>5. \A m \in Nodes : \A id \in Ids \ minted' :
            <<"id", id>> \in cache'[m] => <<"id", id>> \in cache[m] \/ HasRow(m, id)'
      BY <1>3, <2>1, <2>3
  <2> QED
      BY <1>3, <2>1, <2>4, <2>5 DEF SpreadStep
<1> QED
    BY <1>4, <1>6, <1>7

LEMMA SyncSpreads ==
    ASSUME TypeOK, SpreadInv, NEW a \in answers, SyncResponse(a)
    PROVE  SpreadStep
<1>1. a.to \in Nodes
    BY DEF TypeOK
<1>2. PICK n \in Nodes : n = a.to
    BY <1>1
<1> DEFINE rows == a.rows
<1>3. /\ version' = Stored(n, rows) /\ SyncLinks # {}
      /\ UNCHANGED <<gone, old, cache, link, minted, offset, watched, expiries>>
    BY <1>2 DEF SyncResponse, SpreadInv
<1> HIDE DEF rows
<1>4. \A m \in Nodes, id \in Ids : HasRow(m, id) => HasRow(m, id)'
    BY <1>3, StoredRows
<1>5. ASSUME NEW l \in Links, NEW id \in Ids \ minted'
      PROVE  (OnItsWay(l, id)' <=> OnItsWay(l, id)) /\ (Bound(l[1], id)' <=> Bound(l[1], id))
    BY <1>3 DEF OnItsWay, Bound
<1> QED
    BY <1>3, <1>4, <1>5 DEF SpreadStep

(* A node that has seen a mint sends a claim, which is of no id's.          *)
LEMMA SeeMintSpreads ==
    ASSUME TypeOK, SpreadInv, NEW n \in Nodes, NEW id0 \in Ids, SeeMint(n, id0)
    PROVE  SpreadStep
<1> DEFINE msg == Claim(id0)
<1>1. /\ version' = version /\ Publish(n, msg)
      /\ minted' = minted /\ answers' = answers
    BY DEF SeeMint
<1>2. msg \in Message /\ \A id \in Ids : MessageId(msg) # <<"id", id>>
    BY MessagesBuilt
<1> HIDE DEF msg
<1>3. \A m \in Nodes, id \in Ids : HasRow(m, id)' <=> HasRow(m, id)
    BY <1>1 DEF HasRow
<1>4. ASSUME NEW id \in Ids
      PROVE  /\ \A m \in Nodes : <<"id", id>> \in cache'[m] <=> <<"id", id>> \in cache[m]
             /\ \A l \in Links : Way(link'[l], id) <=> Way(link[l], id)
    BY <1>1, <1>2, PublishedWay
<1>5. ASSUME NEW l \in Links, NEW id \in Ids \ minted'
      PROVE  (OnItsWay(l, id)' <=> OnItsWay(l, id)) /\ (Bound(l[1], id)' <=> Bound(l[1], id))
  <2>1. l[1] \in Nodes
      BY MeshAssumption
  <2> QED
      BY <1>3, <1>4, <2>1, OnWay DEF Bound
<1> QED
    BY <1>1, <1>3, <1>4, <1>5 DEF SpreadStep

(* So is every step: the other ones leave rows and links alone, and only    *)
(* make caches forget and mints grow.                                       *)
LEMMA QuietSpreads ==
    ASSUME SpreadInv, UNCHANGED <<version, link>>, minted \subseteq minted',
           \A n \in Nodes : cache'[n] \subseteq cache[n],
           SyncLinks = {} => answers' = {}
    PROVE  SpreadStep
<1>1. \A n \in Nodes, id \in Ids : HasRow(n, id)' <=> HasRow(n, id)
    BY DEF HasRow
<1>2. ASSUME NEW l \in Links, NEW id \in Ids \ minted'
      PROVE  (OnItsWay(l, id)' <=> OnItsWay(l, id)) /\ (Bound(l[1], id)' => Bound(l[1], id))
  <2>1. l[1] \in Nodes
      BY MeshAssumption
  <2> QED
      BY <1>1, <2>1 DEF OnItsWay, Bound
<1> QED
    BY <1>1, <1>2 DEF SpreadStep

LEMMA SpreadNext ==
    ASSUME TypeOK, SpreadInv, [Next]_vars
    PROVE  SpreadInv'
<1>1. CASE \E l \in Links : Receive(l)
    BY <1>1, ReceiveSpreads, SpreadStepKeeps
<1>2. CASE \E a \in answers : SyncResponse(a)
    BY <1>2, SyncSpreads, SpreadStepKeeps
<1>3. CASE \E n \in Nodes, id \in Ids, v \in Versions : Submit(n, id, v)
    BY <1>3, SubmitSpreads, SpreadStepKeeps
<1>4. CASE \E n \in Nodes, id \in Ids : SeeMint(n, id)
    BY <1>4, SeeMintSpreads, SpreadStepKeeps
<1>5. SpreadInv => (SyncLinks = {} => answers = {})
    BY DEF SpreadInv
<1>6. ASSUME NEW l \in SyncLinks, SyncRequest(l)
      PROVE  SpreadInv'
    BY <1>6, QuietSpreads, SpreadStepKeeps DEF SyncRequest
<1>7. CASE HoursPass
    BY <1>7, QuietSpreads, SpreadStepKeeps DEF HoursPass
<1>8. ASSUME NEW n \in Nodes, NEW mid \in MessageIds, Expire(n, mid)
      PROVE  SpreadInv'
  <2>1. \A m \in Nodes : cache'[m] \subseteq cache[m]
      BY <1>8 DEF Expire, TypeOK
  <2> QED
      BY <1>5, <1>8, <2>1, QuietSpreads, SpreadStepKeeps DEF Expire
<1>9. ASSUME NEW id \in Ids, Mint(id)
      PROVE  SpreadInv'
    BY <1>5, <1>9, QuietSpreads, SpreadStepKeeps DEF Mint
<1>10. CASE UNCHANGED vars
    BY <1>5, <1>10, QuietSpreads, SpreadStepKeeps DEF vars
<1> QED
    BY <1>1, <1>2, <1>3, <1>4, <1>6, <1>7, <1>8, <1>9, <1>10 DEF Next, Deliver

LEMMA SpreadInit == Init => SpreadInv
<1> SUFFICES ASSUME Init
             PROVE  SpreadInv
    OBVIOUS
<1>1. \A n \in Nodes, id \in Ids : ~HasRow(n, id) /\ ~(<<"id", id>> \in cache[n])
    BY DEF Init, HasRow
<1>2. \A l \in Links, id \in Ids : ~OnItsWay(l, id) /\ l[1] \in Nodes
    BY MeshAssumption DEF Init, OnItsWay
<1> QED
    BY <1>1, <1>2 DEF SpreadInv, CachedIsStored, SentIsStored, FirstVersionOnItsWay, Init

(* On any mesh, as long as a premint is not minted, a peer of a node that   *)
(* has its id in the duplicate cache has a version of it or one on the way. *)
(* It rests on SpreadInv: whoever has an id cached, or has sent a version   *)
(* of it, also has a row of it, so the source a message is not sent back to *)
(* needs none.  (p2p.rs, gossipsub_message_id and broadcast_message.)       *)
THEOREM FirstVersionAlwaysOnItsWay == Spec => []FirstVersionOnItsWay
<1>1. Init => TypeOK /\ SpreadInv
    BY TypeInit, SpreadInit
<1>2. TypeOK /\ SpreadInv /\ [Next]_vars => TypeOK' /\ SpreadInv'
    BY TypeStep, SpreadNext
<1>3. SpreadInv => FirstVersionOnItsWay
    BY DEF SpreadInv
<1> QED
    BY <1>1, <1>2, <1>3, PTL DEF Spec

-----------------------------------------------------------------------------
(***************************************************************************)
(* The rows of a node as a pool.                                           *)
(***************************************************************************)
PoolRow(n, id) == [rank |-> version[n][id], served |-> HasRow(n, id) /\ id \notin gone[n]]
PoolOf(n, id)  == [k \in {<<"premint", id>>} |-> PoolRow(n, id)]
Empty == [rank |-> 0, served |-> FALSE]

(* What a step may do to a node's row of an id. *)
RowKept(n, id) ==
    version'[n][id] = version[n][id] /\ (id \in gone'[n] <=> id \in gone[n])
RowRaised(n, id) ==
    /\ version'[n][id] \in Versions /\ version'[n][id] > version[n][id]
    /\ id \in gone'[n] <=> id \in gone[n]
RowRetired(n, id) ==
    /\ version'[n][id] = version[n][id] /\ HasRow(n, id) /\ id \in gone'[n]
    /\ n \in Trusting \/ id \in minted

LEMMA RowAsPool ==
    ASSUME TypeOK, NEW n \in Nodes, NEW id \in Ids,
           id \in gone[n] => HasRow(n, id), minted' = minted,
           RowKept(n, id) \/ RowRaised(n, id) \/ RowRetired(n, id)
    PROVE  NodePool(n, id)!PoolNext \/ UNCHANGED NodePool(n, id)!poolVars
<1> DEFINE k == <<"premint", id>>
           K == {<<"premint", id>>}
<1>1. version[n][id] \in 0..MaxVersion /\ MaxVersion \in Nat
    BY CountAssumption DEF TypeOK
<1>2. CASE RowKept(n, id)
  <2>1. PoolRow(n, id)' = PoolRow(n, id)
      BY <1>2 DEF RowKept, PoolRow, HasRow
  <2> QED
      BY <2>1 DEF NodePool!poolVars, PoolRow
<1>3. CASE RowRaised(n, id)
  <2>1. PICK v \in Versions : v = version'[n][id]
      BY <1>3 DEF RowRaised
  <2>2. v > version[n][id] /\ v > 0 /\ v \in Nat /\ v # 0
      BY <1>1, <1>3, <2>1 DEF RowRaised, Versions
  <2>3. CASE ~HasRow(n, id)
    <3>1. PoolRow(n, id) = Empty /\ PoolRow(n, id)' = [rank |-> v, served |-> TRUE]
      <4>1. version[n][id] = 0 /\ id \notin gone[n]
          BY <1>1, <2>3 DEF HasRow
      <4>2. HasRow(n, id)' /\ id \notin gone'[n]
          BY <1>3, <2>1, <2>2, <4>1 DEF RowRaised, HasRow
      <4> QED
          BY <2>1, <2>3, <4>1, <4>2 DEF PoolRow, Empty
    <3>2. PoolOf(n, id)[k] = Empty /\ PoolOf(n, id)' = [PoolOf(n, id) EXCEPT ![k] = [rank |-> v, served |-> TRUE]]
        BY <3>1 DEF PoolOf
    <3>3. NodePool(n, id)!Enter(k, v)
        BY <3>2 DEF NodePool!Enter, NodePool!Put, PoolOf, PoolRow, Empty
    <3> QED
        BY <3>3 DEF NodePool!PoolNext
  <2>4. CASE HasRow(n, id)
    <3>1. /\ PoolRow(n, id)' = [rank |-> v, served |-> PoolRow(n, id).served]
          /\ PoolRow(n, id).rank = version[n][id] /\ PoolRow(n, id) # Empty
      <4>1. HasRow(n, id)' /\ (id \in gone'[n] <=> id \in gone[n]) /\ version[n][id] # 0
          BY <1>1, <1>3, <2>1, <2>2, <2>4 DEF RowRaised, HasRow
      <4>2. (HasRow(n, id) /\ id \notin gone[n])' = (HasRow(n, id) /\ id \notin gone[n])
          BY <2>4, <4>1
      <4> QED
          BY <2>1, <4>1, <4>2 DEF PoolRow, Empty
    <3>2. /\ PoolOf(n, id)[k] = PoolRow(n, id)
          /\ PoolOf(n, id)' = [PoolOf(n, id) EXCEPT ![k] = [rank |-> v, served |-> PoolRow(n, id).served]]
        BY <3>1 DEF PoolOf
    <3>3. NodePool(n, id)!Supersede(k, v)
        BY <2>2, <3>1, <3>2 DEF NodePool!Supersede, NodePool!Put, PoolOf, PoolRow, Empty
    <3> QED
        BY <3>3 DEF NodePool!PoolNext
  <2> QED
      BY <2>3, <2>4
<1>4. CASE RowRetired(n, id)
  <2>1. /\ PoolRow(n, id)' = [rank |-> PoolRow(n, id).rank, served |-> FALSE]
        /\ PoolRow(n, id) # Empty
    <3>1. (HasRow(n, id) /\ id \notin gone[n])' = FALSE
        BY <1>4 DEF RowRetired
    <3>2. version'[n][id] = version[n][id] /\ version[n][id] # 0
        BY <1>1, <1>4 DEF RowRetired, HasRow
    <3> QED
        BY <3>1, <3>2 DEF PoolRow, Empty
  <2>2. /\ PoolOf(n, id)[k] = PoolRow(n, id)
        /\ PoolOf(n, id)' = [PoolOf(n, id) EXCEPT ![k] = [rank |-> PoolRow(n, id).rank, served |-> FALSE]]
      BY <2>1 DEF PoolOf
  <2>3. NodePool(n, id)!MayRetire(k)
      BY <1>4, <2>1, <2>2 DEF NodePool!MayRetire, PoolOf, PoolRow, Empty, RowRetired
  <2>4. NodePool(n, id)!Hide(k)
      BY <2>1, <2>2, <2>3 DEF NodePool!Hide, NodePool!Put, PoolOf, PoolRow
  <2> QED
      BY <2>4 DEF NodePool!PoolNext
<1> QED
    BY <1>2, <1>3, <1>4

(* Only a row is retired, so rows that come are served. *)
RetiredHaveRows == \A n \in Nodes : \A id \in gone[n] : HasRow(n, id)

RowStep(n, id) == RowKept(n, id) \/ RowRaised(n, id) \/ RowRetired(n, id)

LEMMA StoreSteps ==
    ASSUME TypeOK, NEW m \in Nodes, NEW rows, version' = Stored(m, rows), gone' = gone,
           NEW n \in Nodes, NEW id \in Ids
    PROVE  RowStep(n, id)
<1>1. CASE n # m
    BY <1>1, StoredRises DEF RowStep, RowKept
<1>2. CASE n = m
  <2>1. \/ version'[m][id] = version[m][id]
        \/ version'[m][id] \in Versions /\ version'[m][id] > version[m][id]
      BY StoredRises
  <2> QED
      BY <1>2, <2>1 DEF RowStep, RowKept, RowRaised
<1> QED
    BY <1>1, <1>2

LEMMA MarkSteps ==
    ASSUME TypeOK, NEW m \in Nodes, NEW id0 \in Ids, version' = version,
           \/ gone' = gone
           \/ /\ gone' = [gone EXCEPT ![m] = @ \cup {id0}]
              /\ HasRow(m, id0) /\ (m \in Trusting \/ id0 \in minted),
           NEW n \in Nodes, NEW id \in Ids
    PROVE  RowStep(n, id)
<1>1. gone \in [Nodes -> SUBSET Ids]
    BY DEF TypeOK
<1>2. CASE gone' = gone
    BY <1>2 DEF RowStep, RowKept
<1>3. CASE /\ gone' = [gone EXCEPT ![m] = @ \cup {id0}]
           /\ HasRow(m, id0) /\ (m \in Trusting \/ id0 \in minted)
  <2>1. CASE n = m /\ id = id0
      BY <1>1, <1>3, <2>1 DEF RowStep, RowRetired
  <2>2. CASE ~(n = m /\ id = id0)
    <3>1. id \in gone'[n] <=> id \in gone[n]
        BY <1>1, <1>3, <2>2
    <3> QED
        BY <3>1 DEF RowStep, RowKept
  <2> QED
      BY <2>1, <2>2
<1> QED
    BY <1>2, <1>3

(* Every step but a mint does that, one node's row at a time. *)
LEMMA NextSteps ==
    ASSUME TypeOK, Next, NEW n \in Nodes, NEW id \in Ids
    PROVE  \/ minted' = minted /\ RowStep(n, id)
           \/ \E id0 \in Ids : Mint(id0)
<1>1. ASSUME NEW m \in Nodes, NEW id0 \in Ids, NEW v \in Versions, Submit(m, id0, v)
      PROVE  minted' = minted /\ RowStep(n, id)
    BY <1>1, StoreSteps DEF Submit
<1>2. ASSUME NEW l \in Links, Receive(l)
      PROVE  minted' = minted /\ RowStep(n, id)
  <2>1. l[1] \in Nodes /\ l[2] \in Nodes /\ minted' = minted
      BY <1>2, MeshAssumption DEF Receive
  <2>2. CASE UNCHANGED <<version, gone, cache>>
      BY <2>1, <2>2 DEF RowStep, RowKept
  <2>3. CASE Handle(l[2], l[1], Head(link[l]))
    <3>1. link[l] \in Seq(Message) /\ link[l] # <<>>
        BY <1>2 DEF Receive, TypeOK
    <3>2. PICK msg \in Message : msg = Head(link[l])
        BY <3>1, OnTail
    <3>3. msg.id \in Ids
        BY MessageIdOf
    <3>4. /\ Handle(l[2], l[1], msg)
          /\ ClaimAccepted(l[2], l[1], msg.id) => l[2] \in Trusting \/ msg.id \in minted
        BY <2>3, <3>2 DEF ClaimAccepted, ClaimCorrect
    <3>5. \/ gone' = gone /\ version' = Stored(l[2], {<<msg.id, msg.version>>})
          \/ /\ version' = version
             /\ \/ gone' = gone
                \/ /\ gone' = [gone EXCEPT ![l[2]] = @ \cup {msg.id}]
                   /\ HasRow(l[2], msg.id) /\ ClaimAccepted(l[2], l[1], msg.id)
        BY <2>1, <3>4, HandleEffect
    <3> QED
        BY <2>1, <3>3, <3>4, <3>5, StoreSteps, MarkSteps
  <2> QED
      BY <1>2, <2>1, <2>2, <2>3 DEF Receive
<1>3. ASSUME NEW a \in answers, SyncResponse(a)
      PROVE  minted' = minted /\ RowStep(n, id)
  <2> DEFINE rows == a.rows
  <2>1. PICK m \in Nodes : m = a.to
      BY DEF TypeOK
  <2>2. version' = Stored(m, rows) /\ gone' = gone /\ minted' = minted
      BY <1>3, <2>1 DEF SyncResponse
  <2> HIDE DEF rows
  <2> QED
      BY <2>2, StoreSteps
<1>4. ASSUME NEW m \in Nodes, NEW id0 \in Ids, SeeMint(m, id0)
      PROVE  minted' = minted /\ RowStep(n, id)
    BY <1>4, MarkSteps DEF SeeMint, HasRow
<1>5. ASSUME UNCHANGED <<version, gone, minted>>
      PROVE  minted' = minted /\ RowStep(n, id)
    BY <1>5 DEF RowStep, RowKept
<1>6. ASSUME NEW l \in SyncLinks, SyncRequest(l)
      PROVE  UNCHANGED <<version, gone, minted>>
    BY <1>6 DEF SyncRequest
<1>7. HoursPass => UNCHANGED <<version, gone, minted>>
    BY DEF HoursPass
<1>8. ASSUME NEW m \in Nodes, NEW mid \in MessageIds, Expire(m, mid)
      PROVE  UNCHANGED <<version, gone, minted>>
    BY <1>8 DEF Expire
<1> QED
    BY <1>1, <1>2, <1>3, <1>4, <1>5, <1>6, <1>7, <1>8 DEF Next, Deliver

LEMMA RetiredHaveRowsStep ==
    ASSUME TypeOK, RetiredHaveRows, [Next]_vars
    PROVE  RetiredHaveRows'
<1>1. CASE UNCHANGED vars
    BY <1>1 DEF vars, RetiredHaveRows, HasRow
<1>2. CASE Next
  <2> SUFFICES ASSUME NEW n \in Nodes, NEW id \in gone'[n]
               PROVE  HasRow(n, id)'
      BY DEF RetiredHaveRows
  <2>1. /\ gone' \in [Nodes -> SUBSET Ids] /\ version' \in [Nodes -> [Ids -> 0..MaxVersion]]
        /\ version \in [Nodes -> [Ids -> 0..MaxVersion]]
      BY TypeStep DEF TypeOK
  <2>2. id \in Ids
      BY <2>1
  <2>3. CASE RowStep(n, id)
    <3>1. CASE RowKept(n, id)
        BY <3>1 DEF RowKept, RetiredHaveRows, HasRow
    <3>2. CASE RowRaised(n, id)
        BY <3>2 DEF RowRaised, HasRow, Versions
    <3>3. CASE RowRetired(n, id)
        BY <3>3 DEF RowRetired, HasRow
    <3> QED
        BY <2>3, <3>1, <3>2, <3>3 DEF RowStep
  <2>4. CASE \E id0 \in Ids : Mint(id0)
      BY <2>4 DEF Mint, RetiredHaveRows, HasRow
  <2> QED
      BY <1>2, <2>2, <2>3, <2>4, NextSteps
<1> QED
    BY <1>1, <1>2

(* On any mesh, what any node has of any id is a pool of one entry: however *)
(* gossip and sync reorder, repeat or delay, versions only rise, only what  *)
(* is minted is retired (unless the node trusts peers) and it stays so.     *)
(* (controller.rs, validate_and_insert and handle_event_onchain_claim.)     *)
THEOREM NodesAlwaysPools == Spec => NodesArePools
<1>1. Init => TypeOK /\ RetiredHaveRows
    BY TypeInit DEF Init, RetiredHaveRows
<1>2. TypeOK /\ RetiredHaveRows /\ [Next]_vars => TypeOK' /\ RetiredHaveRows'
    BY TypeStep, RetiredHaveRowsStep
<1>3. Init => \A n \in Nodes, id \in Ids : NodePool(n, id)!PoolInit
  <2> SUFFICES ASSUME Init, NEW n \in Nodes, NEW id \in Ids
               PROVE  NodePool(n, id)!PoolInit
      OBVIOUS
  <2>1. version[n][id] = 0 /\ minted = {}
      BY DEF Init
  <2>2. (HasRow(n, id) /\ id \notin gone[n]) = FALSE
      BY <2>1 DEF HasRow
  <2> QED
      BY <2>1, <2>2 DEF NodePool!PoolInit, NodePool!EmptyPool
<1>4. TypeOK /\ RetiredHaveRows /\ [Next]_vars =>
        [\A n \in Nodes, id \in Ids :
            NodePool(n, id)!PoolNext \/ UNCHANGED NodePool(n, id)!poolVars]_vars
  <2> SUFFICES ASSUME TypeOK, RetiredHaveRows, Next, NEW n \in Nodes, NEW id \in Ids
               PROVE  NodePool(n, id)!PoolNext \/ UNCHANGED NodePool(n, id)!poolVars
      BY DEF vars
  <2>1. CASE minted' = minted /\ RowStep(n, id)
      BY <2>1, RowAsPool DEF RowStep, RetiredHaveRows
  <2>2. CASE \E id0 \in Ids : Mint(id0)
    <3>1. PICK id0 \in Ids : Mint(id0)
        BY <2>2
    <3>2. NodePool(n, id)!Mint(id0)
        BY <3>1 DEF Mint, NodePool!Mint, HasRow
    <3> QED
        BY <3>2 DEF NodePool!PoolNext
  <2> QED
      BY <2>1, <2>2, NextSteps
<1> QED
    BY <1>1, <1>2, <1>3, <1>4, PTL DEF Spec, NodesArePools
=============================================================================
