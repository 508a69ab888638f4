----------------------------- MODULE ChainWatch -----------------------------
(***************************************************************************)
(* A MintChecker and the cache of RPC connections it shares with the rules *)
(* and with claim verification (src/src/chain.rs, src/src/chain_list.rs).  *)
(*                                                                         *)
(* The checker subscribes to the logs of one contract on one chain and     *)
(* hands each to the controller; when its connection is lost it starts     *)
(* over, from the last block it saw.  Connections are kept in a cache that *)
(* evicts what nobody asked for in five minutes.  The RPC node is          *)
(* external: a subscription delivers, in order, the logs from the filter's *)
(* start block on, or only new ones if the filter has none.  Every block   *)
(* has LogsPerBlock logs of the contract.                                  *)
(***************************************************************************)
EXTENDS Naturals

CONSTANTS
    Conns,          \* connections; an unused one stands for the next to be opened
    None,           \* no connection
    Users,          \* the other callers of get_rpc
    LogsPerBlock,
    MaxBlocks,      \* bound: blocks of the chain
    MaxDrops        \* bound: connections that are lost

ASSUME NoneAssumption == None \notin Conns
ASSUME WatchAssumption ==
    LogsPerBlock \in Nat \ {0} /\ MaxBlocks \in Nat /\ MaxDrops \in Nat

VARIABLES
    at,         \* where the checker is in poll_for_new_mints
    rpc,        \* its provider
    highest,    \* highest_block, 0 for None
    cursor,     \* the next log of its stream
    handled,    \* logs it has handed to the controller
    blocks,     \* blocks of the chain so far
    cache,      \* Chains.1, for the chain's URL
    user,       \* user[u]: "idle", or "opening" after it missed the cache
    dead,       \* lost connections
    drops       \* bound counter

vars == <<at, rpc, highest, cursor, handled, blocks, cache, user, dead, drops>>
world == <<blocks, drops>>

Logs(n) == 1..(n * LogsPerBlock)
BlockOf(i) == (i - 1) \div LogsPerBlock + 1
FirstLog(b) == (b - 1) * LogsPerBlock + 1

Init ==
    /\ at = "connect" /\ rpc = None
    /\ highest = 0 /\ cursor = 1 /\ handled = {} /\ blocks = 0
    /\ cache = None /\ user = [u \in Users |-> "idle"]
    /\ dead = {} /\ drops = 0

-----------------------------------------------------------------------------
(***************************************************************************)
(* Chains::connect: a hit returns the cached provider, alive or not.  A    *)
(* miss awaits the handshake and then inserts, over what another caller    *)
(* may have inserted in the meantime.                                      *)
(***************************************************************************)
Fresh(c) == c \notin {cache, rpc}

Opened(c) ==
    /\ Fresh(c)
    /\ cache' = c
    /\ dead' = dead \ {c}

Connect ==
    /\ at = "connect"
    /\ IF cache # None THEN rpc' = cache /\ at' = "subscribe"
                       ELSE at' = "opening" /\ UNCHANGED rpc
    /\ UNCHANGED <<highest, cursor, handled, cache, user, dead, world>>

ConnectOpened == \E c \in Conns :
    /\ at = "opening"
    /\ Opened(c)
    /\ rpc' = c /\ at' = "subscribe"
    /\ UNCHANGED <<highest, cursor, handled, user, world>>

ConnectFails ==
    /\ at = "opening"
    /\ at' = "sleep"
    /\ UNCHANGED <<rpc, highest, cursor, handled, cache, user, dead, world>>

UserMisses(u) ==
    /\ user[u] = "idle" /\ cache = None
    /\ user' = [user EXCEPT ![u] = "opening"]
    /\ UNCHANGED <<at, rpc, highest, cursor, handled, cache, dead, world>>

UserOpened(u) == \E c \in Conns :
    /\ user[u] = "opening"
    /\ Opened(c)
    /\ user' = [user EXCEPT ![u] = "idle"]
    /\ UNCHANGED <<at, rpc, highest, cursor, handled, world>>

UserFails(u) ==
    /\ user[u] = "opening"
    /\ user' = [user EXCEPT ![u] = "idle"]
    /\ UNCHANGED <<at, rpc, highest, cursor, handled, cache, dead, world>>

(***************************************************************************)
(* time_to_idle: every hit starts the five minutes anew, and the checker's *)
(* retries come every five seconds, so the entry can only go while the     *)
(* checker has its stream or waits for a handshake.                        *)
(***************************************************************************)
Evict ==
    /\ cache # None
    /\ at \in {"stream", "opening"}
    /\ cache' = None
    /\ UNCHANGED <<at, rpc, highest, cursor, handled, user, dead, world>>

-----------------------------------------------------------------------------
(* Mutant: from the block after the last one seen. *)
StartAfter == IF highest = 0 THEN FirstLog(blocks + 1) ELSE FirstLog(highest + 1)

(* filter.from_block(highest_block), once there is one. *)
Start == IF highest = 0 THEN FirstLog(blocks + 1) ELSE FirstLog(highest)

Subscribe ==
    /\ at = "subscribe" /\ rpc \notin dead
    /\ cursor' = Start /\ at' = "stream"
    /\ UNCHANGED <<rpc, highest, handled, cache, user, dead, world>>

(* A lost connection refuses at once; a live one may refuse too. *)
SubscribeFails ==
    /\ at = "subscribe"
    /\ at' = "sleep"
    /\ UNCHANGED <<rpc, highest, cursor, handled, cache, user, dead, world>>

Retry ==
    /\ at = "sleep"
    /\ at' = "connect"
    /\ UNCHANGED <<rpc, highest, cursor, handled, cache, user, dead, world>>

(* Mutant: a poll of the stream that does not wait for a log. *)
StreamLogEager ==
    /\ at = "stream" /\ rpc \notin dead
    /\ cursor \in Logs(blocks + 1)
    /\ handled' = handled \cup {cursor}
    /\ highest' = BlockOf(cursor)
    /\ cursor' = cursor + 1
    /\ UNCHANGED <<at, rpc, cache, user, dead, world>>

(* map_claim, ResolveOnchainMint to the controller, highest_block. *)
StreamLog ==
    /\ at = "stream" /\ rpc \notin dead
    /\ cursor \in Logs(blocks)
    /\ handled' = handled \cup {cursor}
    /\ highest' = BlockOf(cursor)
    /\ cursor' = cursor + 1
    /\ UNCHANGED <<at, rpc, cache, user, dead, world>>

(* Mutant: the end of the stream goes unnoticed. *)
StreamEndsUnnoticed == at = "stream" /\ rpc \in dead /\ UNCHANGED vars

StreamEnds ==
    /\ at = "stream" /\ rpc \in dead
    /\ at' = "connect"
    /\ UNCHANGED <<rpc, highest, cursor, handled, cache, user, dead, world>>

-----------------------------------------------------------------------------
Mine ==
    /\ blocks < MaxBlocks
    /\ blocks' = blocks + 1
    /\ UNCHANGED <<at, rpc, highest, cursor, handled, cache, user, dead, drops>>

(* A connection is lost for good: its provider never answers again. *)
Disconnect(c) ==
    /\ drops < MaxDrops
    /\ c \in {cache, rpc} \ (dead \cup {None})
    /\ dead' = dead \cup {c}
    /\ drops' = drops + 1
    /\ UNCHANGED <<at, rpc, highest, cursor, handled, blocks, cache, user>>

Next ==
    \/ Connect \/ ConnectOpened \/ ConnectFails
    \/ Subscribe \/ SubscribeFails \/ Retry \/ StreamLog \/ StreamEnds
    \/ \E u \in Users : UserMisses(u) \/ UserOpened(u) \/ UserFails(u)
    \/ Evict \/ Mine \/ \E c \in Conns : Disconnect(c)

Spec == Init /\ [][Next]_vars

(***************************************************************************)
(* The checker's task runs, its stream delivers, and handshakes and        *)
(* subscriptions on a live connection do not fail forever.                 *)
(***************************************************************************)
FairSpec ==
    /\ Spec
    /\ WF_vars(Connect) /\ WF_vars(Retry) /\ WF_vars(StreamLog) /\ WF_vars(StreamEnds)
    /\ WF_vars(ConnectOpened \/ ConnectFails) /\ SF_vars(ConnectOpened)
    /\ WF_vars(Subscribe \/ SubscribeFails) /\ SF_vars(Subscribe)
-----------------------------------------------------------------------------
(* The values the variables range over. *)
TypeOK ==
    /\ at \in {"connect", "opening", "subscribe", "sleep", "stream"}
    /\ rpc \in Conns \cup {None} /\ cache \in Conns \cup {None}
    /\ blocks \in 0..MaxBlocks /\ highest \in 0..blocks
    /\ cursor \in 1..FirstLog(blocks + 1)
    /\ handled \subseteq Logs(blocks)
    /\ user \in [Users -> {"idle", "opening"}]
    /\ dead \subseteq Conns /\ drops \in 0..MaxDrops

(* From the first log a checker handles on, it leaves none out: not when    *)
(* the connection is lost between two logs of a block, and not when it      *)
(* comes back blocks later.  (chain.rs, poll_for_new_mints.)                *)
NoLogSkipped == \A i, j \in handled : i..j \subseteq handled

(* The checker has no stream and the cache gives it a lost connection.      *)
Stuck == at # "stream" /\ cache # None /\ cache \in dead

(* Every log after the first handled one is handled in the end, or the      *)
(* checker got stuck on a lost connection in the cache: no other failure    *)
(* and no race for the cache stops it.  (chain.rs, poll_for_new_mints;      *)
(* chain_list.rs, connect.)                                                 *)
Due(i) == i \in Logs(blocks) /\ \E j \in handled : j <= i
LogHandledOrStuck == \A i \in 1..(MaxBlocks * LogsPerBlock) :
    Due(i) ~> (i \in handled \/ Stuck)

(* A checker that lost its connection gets a new one.  (chain.rs:50: the    *)
(* URL is "needed in case of WS disconnect so mintchecker can force a       *)
(* reconnect".)                                                             *)
CheckerReconnects == (at # "stream") ~> (at = "stream")
=============================================================================
