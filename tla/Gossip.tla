------------------------------- MODULE Gossip -------------------------------
(***************************************************************************)
(* How premints and inclusion claims spread between nodes: gossipsub with  *)
(* mintpool's message ids (src/src/p2p.rs) and the sync protocol over it.  *)
(*                                                                         *)
(* Every node is a Controller whose table is reduced to the version of     *)
(* each id, whether the row is marked seen, and whether it is older than   *)
(* the sync lookback; validation succeeds exactly when the version is      *)
(* higher and the id is not minted.  gossipsub itself is external: a node  *)
(* publishes to and forwards to its mesh peers, each link is an ordered    *)
(* stream, and a message whose id is in the duplicate cache is neither     *)
(* published nor delivered.                                                *)
(***************************************************************************)
EXTENDS Naturals, Sequences, FiniteSetsExt

CONSTANTS
    Nodes,
    Links,          \* mesh: pairs <<n, m>> of distinct nodes, symmetric
    SyncLinks,      \* bound: the links <<n, m>> over which n may ask m to sync
    Ids,
    Clients,        \* bound: pairs <<n, id>>, what clients submit and where
    MaxVersion,     \* bound: versions of a premint
    Watchers,       \* nodes in Check mode
    TrustedBy,      \* TrustedBy[n]: trusted_peers of a node n in Trust mode;
                    \* nodes that are neither are in Verify mode
    LogOffsets,     \* logs that earlier transactions of a mint's block may emit
    MaxExpiries     \* bound: entries that leave a duplicate cache

ASSUME MeshAssumption ==
    /\ Links \subseteq Nodes \X Nodes
    /\ SyncLinks \subseteq Links
    /\ \A l \in Links : l[1] # l[2] /\ <<l[2], l[1]>> \in Links
Trusting == DOMAIN TrustedBy

ASSUME WatcherAssumption == Watchers \subseteq Nodes /\ Clients \subseteq Nodes \X Ids
ASSUME TrustAssumption ==
    /\ Trusting \subseteq Nodes \ Watchers
    /\ \A n \in Trusting : TrustedBy[n] \subseteq Nodes
ASSUME CountAssumption ==
    MaxVersion \in Nat \ {0} /\ MaxExpiries \in Nat /\ LogOffsets \subseteq Nat

VARIABLES
    version,    \* version[n][id], 0 for no row
    gone,       \* rows of n with seen_on_chain
    old,        \* rows of n with created_at before the lookback
    cache,      \* gossipsub's duplicate cache of n
    link,       \* messages on their way from l[1] to l[2]
    answers,    \* sync responses on their way: [to, rows]
    minted,     \* ids minted on the chain
    offset,     \* offset[id]: logs before its mint's transaction in the block
    watched,    \* mints whose log n's MintChecker has handled
    expiries    \* bound counter

vars == <<version, gone, old, cache, link, answers, minted, offset, watched, expiries>>

Versions == 1..MaxVersion
Message  == [type: {"premint"}, id: Ids, version: Versions]
            \cup [type: {"claim"}, id: Ids, version: {0}]
Claim(id) == [type |-> "claim", id |-> id, version |-> 0]
Premint(id, v) == [type |-> "premint", id |-> id, version |-> v]

(* Mutant: the version in the message id. *)
MessageIdVersioned(msg) ==
    IF msg.type = "premint" THEN <<"id", msg.id, msg.version>> ELSE <<"likely_spam">>
(***************************************************************************)
(* gossipsub_message_id: the digest of the premint's id.  A claim does not *)
(* parse as a premint, so every claim has the same id.                     *)
(***************************************************************************)
MessageId(msg) == IF msg.type = "premint" THEN <<"id", msg.id>> ELSE <<"likely_spam">>
MessageIds == {<<"id", id>> : id \in Ids} \cup {<<"likely_spam">>}

Init ==
    /\ version = [n \in Nodes |-> [id \in Ids |-> 0]]
    /\ gone = [n \in Nodes |-> {}] /\ old = [n \in Nodes |-> {}]
    /\ cache = [n \in Nodes |-> {}]
    /\ link = [l \in Links |-> <<>>] /\ answers = {}
    /\ minted = {} /\ offset = [id \in Ids |-> 0] /\ watched = [n \in Nodes |-> {}]
    /\ expiries = 0

-----------------------------------------------------------------------------
(* gossipsub: put msg on every link out of n, except back to its source. *)
SendToMesh(links, n, source, msg) ==
    [l \in Links |-> IF l[1] = n /\ l[2] # source THEN Append(links[l], msg) ELSE links[l]]

(* The duplicate cache holds message ids, not messages. *)
Known(n, msg) == MessageId(msg) \in cache[n]

(* publish: refused with PublishError::Duplicate if the message is known. *)
Publish(n, msg) ==
    IF Known(n, msg) THEN UNCHANGED <<cache, link>>
    ELSE /\ cache' = [cache EXCEPT ![n] = @ \cup {MessageId(msg)}]
         /\ link' = SendToMesh(link, n, n, msg)

(* Mutant: not_minted ignored. *)
AcceptsMinted(n, id, v) == v > version[n][id]
(* Mutant: version_is_higher ignored. *)
AcceptsAnyVersion(n, id, v) == id \notin minted
(* validate_and_insert: the rules version_is_higher and not_minted. *)
Accepts(n, id, v) == v > version[n][id] /\ id \notin minted

Stored(n, rows) ==
    [version EXCEPT ![n] =
        [id \in Ids |-> LET higher == {v \in Versions : <<id, v>> \in rows /\ Accepts(n, id, v)}
                        IN  IF higher = {} THEN @[id] ELSE Max(higher)]]

(***************************************************************************)
(* A client submits; the controller stores, then has the swarm publish.    *)
(* The client's Ok does not wait for the publish, whose error is logged.   *)
(***************************************************************************)
Submit(n, id, v) ==
    /\ <<n, id>> \in Clients
    /\ Accepts(n, id, v)
    /\ version' = Stored(n, {<<id, v>>})
    /\ Publish(n, Premint(id, v))
    /\ UNCHANGED <<gone, old, answers, minted, offset, watched, expiries>>

(***************************************************************************)
(* inclusion_claim_correct: a claim carries the index of the log in its    *)
(* BLOCK, and the verifier takes the log at that index of the transaction's*)
(* receipt.  They are the same log only if no earlier transaction of the   *)
(* block has logs; any other log fails verify_claim.                       *)
(***************************************************************************)
ClaimCorrect(id) == id \in minted /\ offset[id] = 0

(* Mutant: a trusted peer's claim is verified all the same. *)
ClaimAcceptedVerified(n, source, id) ==
    (n \in Trusting => source \in TrustedBy[n]) /\ ClaimCorrect(id)

(* A node in Trust mode asks who the claim came from, which is the peer that*)
(* relayed it, and no more.                                                 *)
ClaimAccepted(n, source, id) ==
    IF n \in Trusting THEN source \in TrustedBy[n] ELSE ClaimCorrect(id)

(***************************************************************************)
(* The next message of a link arrives: a known id is dropped, any other is *)
(* forwarded (rules or no rules) and handed to the controller.             *)
(***************************************************************************)
Handle(n, source, msg) ==
    IF msg.type = "premint"
    THEN version' = Stored(n, {<<msg.id, msg.version>>}) /\ UNCHANGED gone
    ELSE /\ gone' = IF version[n][msg.id] > 0 /\ ClaimAccepted(n, source, msg.id)
                    THEN [gone EXCEPT ![n] = @ \cup {msg.id}] ELSE gone
         /\ UNCHANGED version

(* Mutant: delivered but not forwarded. *)
ReceiveUnforwarded(l) ==
    LET n == l[2]
        msg == Head(link[l])
    IN  /\ link[l] # <<>>
        /\ link' = [link EXCEPT ![l] = Tail(@)]
        /\ IF Known(n, msg)
           THEN UNCHANGED <<version, gone, cache>>
           ELSE cache' = [cache EXCEPT ![n] = @ \cup {MessageId(msg)}] /\ Handle(n, l[1], msg)
        /\ UNCHANGED <<old, answers, minted, offset, watched, expiries>>

Receive(l) ==
    LET n == l[2]
        msg == Head(link[l])
        rest == [link EXCEPT ![l] = Tail(@)]
    IN  /\ link[l] # <<>>
        /\ IF Known(n, msg)
           THEN /\ link' = rest
                /\ UNCHANGED <<version, gone, cache>>
           ELSE /\ cache' = [cache EXCEPT ![n] = @ \cup {MessageId(msg)}]
                /\ link' = SendToMesh(rest, n, l[1], msg)
                /\ Handle(n, l[1], msg)
        /\ UNCHANGED <<old, answers, minted, offset, watched, expiries>>

(* An entry of the duplicate cache is a minute old. *)
Expire(n, mid) ==
    /\ expiries < MaxExpiries
    /\ mid \in cache[n]
    /\ cache' = [cache EXCEPT ![n] = @ \ {mid}]
    /\ expiries' = expiries + 1
    /\ UNCHANGED <<version, gone, old, link, answers, minted, offset, watched>>

-----------------------------------------------------------------------------
(***************************************************************************)
(* request_sync / do_sync: n asks one mesh peer m, which answers with the  *)
(* rows that are served and were CREATED within the lookback; an upsert    *)
(* does not touch created_at.  One request of n is open at a time here.    *)
(***************************************************************************)
(* Mutant: seen_on_chain = true. *)
RecentSeen(m) == {row \in Ids \X Versions :
                     version[m][row[1]] = row[2] /\ row[1] \in gone[m] \ old[m]}
Recent(m) == {row \in Ids \X Versions :
                 version[m][row[1]] = row[2] /\ row[1] \notin gone[m] \cup old[m]}

SyncRequest(l) ==
    /\ \A a \in answers : a.to # l[1]
    /\ answers' = answers \cup {[to |-> l[1], rows |-> Recent(l[2])]}
    /\ UNCHANGED <<version, gone, old, cache, link, minted, offset, watched, expiries>>

SyncResponse(a) ==
    /\ a \in answers
    /\ answers' = answers \ {a}
    /\ version' = Stored(a.to, a.rows)
    /\ UNCHANGED <<gone, old, cache, link, minted, offset, watched, expiries>>

(***************************************************************************)
(* Longer than the lookback: all rows are old by then, the duplicate       *)
(* caches have long expired, and nothing is still on its way.              *)
(***************************************************************************)
HasRow(n, id) == version[n][id] > 0

HoursPass ==
    /\ answers = {} /\ \A l \in Links : link[l] = <<>>
    /\ old # [n \in Nodes |-> {id \in Ids : HasRow(n, id)}]
    /\ old' = [n \in Nodes |-> {id \in Ids : HasRow(n, id)}]
    /\ cache' = [n \in Nodes |-> {}]
    /\ UNCHANGED <<version, gone, link, answers, minted, offset, watched, expiries>>

-----------------------------------------------------------------------------
Mint(id) ==
    /\ id \notin minted
    /\ minted' = minted \cup {id}
    /\ \E k \in LogOffsets : offset' = [offset EXCEPT ![id] = k]
    /\ UNCHANGED <<version, gone, old, cache, link, answers, watched, expiries>>

(* A watcher's MintChecker sees the log: ResolveOnchainMint. *)
SeeMint(n, id) ==
    /\ n \in Watchers /\ id \in minted /\ id \notin watched[n]
    /\ watched' = [watched EXCEPT ![n] = @ \cup {id}]
    /\ gone' = IF version[n][id] > 0 THEN [gone EXCEPT ![n] = @ \cup {id}] ELSE gone
    /\ Publish(n, Claim(id))
    /\ UNCHANGED <<version, old, answers, minted, offset, expiries>>

Deliver ==
    \/ \E l \in Links : Receive(l)
    \/ \E a \in answers : SyncResponse(a)

Next ==
    \/ Deliver
    \/ \E n \in Nodes, id \in Ids :
          \/ \E v \in Versions : Submit(n, id, v)
          \/ SeeMint(n, id)
    \/ \E l \in SyncLinks : SyncRequest(l)
    \/ HoursPass
    \/ \E n \in Nodes, mid \in MessageIds : Expire(n, mid)
    \/ \E id \in Ids : Mint(id)

Spec == Init /\ [][Next]_vars

(***************************************************************************)
(* Every link and every outstanding response is delivered in the end, a    *)
(* watcher's subscription delivers every log, and the hourly ticker picks  *)
(* a random mesh peer, so every one again and again.  Nothing forces       *)
(* clients, minters or the clock.                                          *)
(***************************************************************************)
FairSpec ==
    /\ Spec
    /\ \A l \in Links : WF_vars(Receive(l))
    /\ \A n \in Nodes : WF_vars(\E a \in answers : a.to = n /\ SyncResponse(a))
    /\ \A l \in SyncLinks : SF_vars(SyncRequest(l))
    /\ \A n \in Nodes, id \in Ids : WF_vars(SeeMint(n, id))
-----------------------------------------------------------------------------
(* The values the variables range over. *)
TypeOK ==
    /\ version \in [Nodes -> [Ids -> 0..MaxVersion]]
    /\ gone \in [Nodes -> SUBSET Ids] /\ old \in [Nodes -> SUBSET Ids]
    /\ cache \in [Nodes -> SUBSET MessageIds]
    /\ link \in [Links -> Seq(Message)]
    /\ answers \subseteq [to: Nodes, rows: SUBSET (Ids \X Versions)]
    /\ minted \subseteq Ids /\ offset \in [Ids -> LogOffsets \cup {0}] /\ watched \in [Nodes -> SUBSET Ids]
    /\ expiries \in 0..MaxExpiries

(* A node that has put a premint's id in its duplicate cache has sent a     *)
(* version of it to every peer of its mesh: a peer without one has it on    *)
(* the way, unless it is minted meanwhile.  A row is enough where no node   *)
(* got any by sync: nothing is lost to a cache that forgets, to hours       *)
(* passing, to a source that is left out or to updates refused as           *)
(* duplicates.  (p2p.rs, gossipsub_message_id and broadcast_message.)       *)
OnItsWay(l, id) == \E i \in 1..Len(link[l]) : MessageId(link[l][i]) = <<"id", id>>

FirstVersionOnItsWay ==
    \A l \in Links : \A id \in Ids \ minted :
        /\ \/ <<"id", id>> \in cache[l[1]]
           \/ SyncLinks = {} /\ HasRow(l[1], id)
        /\ ~HasRow(l[2], id)
        => OnItsWay(l, id)

(***************************************************************************)
(* What a node has of an id is a PremintPool of one key, as what a whole   *)
(* Controller has is one of all its keys.                                  *)
(***************************************************************************)
NodePool(n, id) == INSTANCE PremintPool WITH
    PoolKeys <- {<<"premint", id>>}, PoolIds <- Ids, Ranks <- Versions,
    None <- [rank |-> 0, served |-> FALSE], Vouched <- n \in Trusting, Volatile <- FALSE,
    pool <- [k \in {<<"premint", id>>} |->
                [rank |-> version[n][id], served |-> HasRow(n, id) /\ id \notin gone[n]]],
    onchain <- minted

(* Whatever a node receives, in any order, twice or late, by gossip or by   *)
(* sync, it keeps the promises the store makes: versions rise, only a       *)
(* minted premint is retired unless the node trusts peers, and a retired    *)
(* one stays so.  (controller.rs, validate_and_insert and                   *)
(* handle_event_onchain_claim.)                                             *)
NodesArePools ==
    /\ \A n \in Nodes, id \in Ids : NodePool(n, id)!PoolInit
    /\ [][\A n \in Nodes, id \in Ids :
              NodePool(n, id)!PoolNext \/ UNCHANGED NodePool(n, id)!poolVars]_vars


(* Once some node has a premint of an id, every node gets one of that id    *)
(* over the mesh alone, unless it is minted meanwhile.  (p2p.rs,            *)
(* broadcast_message and handle_gossipsub_event.)                           *)
FirstVersionSpreads == \A n, m \in Nodes, id \in Ids :
    HasRow(n, id) ~> (HasRow(m, id) \/ id \in minted)

(* An update reaches every node that asks one that has it to sync, as long  *)
(* as the row it updates was created within the lookback, whatever gossip   *)
(* refused.  (p2p.rs, do_sync; storage.rs, build_query.)                    *)
RecentUpdateSpreads == \A l \in SyncLinks, id \in Ids, v \in Versions :
    version[l[2]][id] >= v ~>
        (version[l[1]][id] >= v \/ id \in minted \/ id \in old[l[2]])

(* A node that has a premint stops serving it once it is minted, whether it *)
(* watches the chain or relies on the claim of another node.                *)
(* (tests/e2e_test.rs:179: "confirm that after the check node sees          *)
(* something onchain the verify node also will".)                           *)
MintedRetired == \A n \in Nodes, id \in Ids :
    (id \in minted /\ HasRow(n, id)) ~> (id \in gone[n])

(***************************************************************************)
(* All claims have one message id, so the claim of a mint gets through only*)
(* if there is no other about: a watcher is still to announce this mint and*)
(* none is to announce another, no duplicate cache holds a claim and none  *)
(* is on its way.                                                          *)
(***************************************************************************)
Announcing(id) == \E w \in Watchers : id \in minted \ watched[w]
ClaimAbout ==
    \/ \E n \in Nodes : <<"likely_spam">> \in cache[n]
    \/ \E l \in Links : \E i \in 1..Len(link[l]) : link[l][i].type = "claim"
Rivalled(id) == \E other \in Ids \ {id} : Announcing(other)
Unrivalled(id) == Announcing(id) /\ ~ClaimAbout /\ ~Rivalled(id)

(* A watcher retires every minted premint it has.  A Verify node retires it *)
(* if no other claim is about when it is minted, no other mint follows      *)
(* before its claim arrives, and the claim can be verified at all, that is, *)
(* the mint's transaction has the first logs of its block.  The claim may   *)
(* overtake the premint, but then the premint meets the rule that rejects   *)
(* minted ones.  (p2p.rs:926; controller.rs, handle_event_onchain_claim.)   *)
VerifiableMintRetired == \A id \in Ids :
    /\ \A n \in Watchers : (id \in minted /\ HasRow(n, id)) ~> (id \in gone[n])
    /\ \A n \in Nodes \ (Watchers \cup Trusting) :
          (HasRow(n, id) /\ offset[id] = 0 /\ Unrivalled(id))
              ~> (id \in gone[n] \/ Rivalled(id))

(* A node in Trust mode retires a minted premint wherever its log is, under *)
(* the same condition on other claims, if it trusts every peer of its mesh: *)
(* with any other peer among them, the copy that arrives first may come     *)
(* from that one, and hides the trusted ones.  It is enough to trust those  *)
(* that relay the claim, who may not be able to verify it themselves.       *)
(* (p2p.rs:584 and 926; controller.rs, handle_event_onchain_claim.)         *)
Neighbours(n) == {m \in Nodes : <<m, n>> \in Links}
TrustedMintRetired == \A n \in Trusting, id \in Ids :
    (HasRow(n, id) /\ Unrivalled(id) /\ Neighbours(n) \subseteq TrustedBy[n])
        ~> (id \in gone[n] \/ Rivalled(id))
=============================================================================
