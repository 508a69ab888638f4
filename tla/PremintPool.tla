----------------------------- MODULE PremintPool -----------------------------
(***************************************************************************)
(* What a node's store promises, without handlers, rules, channels or      *)
(* columns: a pool of entries, one per key, each with a rank (the version  *)
(* as the store orders it) and a mark saying whether it is still served.   *)
(* Ranks rise, an entry enters served, only a minted one is retired, and a *)
(* retired one that stays in the pool stays retired.                       *)
(***************************************************************************)
EXTENDS Integers

CONSTANTS
    PoolKeys,    \* pairs <<kind, id>>
    PoolIds,     \* the ids the chain knows
    Ranks,       \* integers
    None,        \* no entry
    Vouched,     \* TRUE: entries may be retired on somebody else's word
    Volatile     \* TRUE: a restart may empty the pool

VARIABLES pool, onchain

poolVars == <<pool, onchain>>

EmptyPool == [k \in PoolKeys |-> None]

PoolInit == pool = EmptyPool /\ onchain = {}

Put(k, entry) ==
    /\ pool' = [pool EXCEPT ![k] = entry]
    /\ UNCHANGED onchain

Enter(k, rank) ==
    /\ pool[k] = None
    /\ Put(k, [rank |-> rank, served |-> TRUE])

Supersede(k, rank) ==
    /\ pool[k] # None /\ rank > pool[k].rank
    /\ Put(k, [rank |-> rank, served |-> pool[k].served])

MayRetire(k) == pool[k] # None /\ (Vouched \/ k[2] \in onchain)

Hide(k)  == MayRetire(k) /\ Put(k, [rank |-> pool[k].rank, served |-> FALSE])
Prune(k) == MayRetire(k) /\ Put(k, None)

Mint(id) ==
    /\ onchain' = onchain \cup {id}
    /\ UNCHANGED pool

Forget ==
    /\ Volatile
    /\ pool' = EmptyPool
    /\ UNCHANGED onchain

PoolNext ==
    \/ \E k \in PoolKeys, rank \in Ranks : Enter(k, rank) \/ Supersede(k, rank)
    \/ \E k \in PoolKeys : Hide(k) \/ Prune(k)
    \/ \E id \in PoolIds : Mint(id)
    \/ Forget

PoolSpec == PoolInit /\ [][PoolNext]_poolVars
=============================================================================
