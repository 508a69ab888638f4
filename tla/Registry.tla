------------------------------ MODULE Registry ------------------------------
(***************************************************************************)
(* The contract that lists the boot nodes                                  *)
(* (src/contracts/src/MintpoolTrustedNodeRegistry.sol and Owned.sol), and  *)
(* how a starting node reads it (src/src/chain.rs,                         *)
(* get_contract_boot_nodes): first the TrustedNodeAdded logs, then one     *)
(* isTrustedNode call about all of them.  The chain goes on in between.    *)
(*                                                                         *)
(* A transaction is one step; one that reverts changes nothing and is not  *)
(* a step.  A single add or remove is a batch of one.                      *)
(***************************************************************************)
EXTENDS Integers, Sequences, SequencesExt, FiniteSets

CONSTANTS
    TrustNames,     \* the strings that name nodes
    Accounts,       \* senders of transactions
    Nobody,         \* address(0)
    MaxBatch,       \* bound: names in one call
    MaxAdded        \* bound: TrustedNodeAdded logs

ASSUME AccountAssumption == Nobody \notin Accounts
ASSUME NamesAssumption == IsFiniteSet(TrustNames)
ASSUME RegistryBoundAssumption == MaxBatch \in Nat \ {0} /\ MaxAdded \in Nat

VARIABLES
    trusted,    \* _trustedNodeMap
    count,      \* trustedNodeCount
    owner,
    added,      \* the TrustedNodeAdded logs
    strays,     \* history: removals of names that were not trusted
    reading,    \* a starting node: "logs", "filter", "done" or "failed"
    logs,       \* the names in the logs it got
    bootList    \* what get_contract_boot_nodes returned

contract == <<trusted, count, owner, added, strays>>
reader == <<reading, logs, bootList>>
registryVars == <<contract, reader>>

(* The array of names may be empty. *)
Batches == UNION {[1..n -> TrustNames] : n \in 0..MaxBatch}

RegistryInit ==
    /\ trusted = {} /\ count = 0 /\ owner = Nobody
    /\ added = <<>> /\ strays = 0
    /\ reading = "logs" /\ logs = <<>> /\ bootList = <<>>

-----------------------------------------------------------------------------
(* Mutants: the same name twice in a batch, or again, is counted again; one *)
(* log for the whole batch.                                                 *)
AddAllAgain(names) ==
    /\ Len(added) + Len(names) <= MaxAdded
    /\ trusted' = trusted \cup Range(names)
    /\ count' = count + Len(names)
    /\ added' = added \o names

AddAllOneLog(names) ==
    /\ Len(added) + Len(names) <= MaxAdded
    /\ IsInjective(names) /\ Range(names) \cap trusted = {}
    /\ trusted' = trusted \cup Range(names)
    /\ count' = count + Len(names)
    /\ added' = IF names = <<>> THEN added ELSE Append(added, Head(names))

(* _addTrustedNode for each name: it must not be trusted, also not since   *)
(* earlier in the batch.                                                   *)
AddAll(names) ==
    /\ Len(added) + Len(names) <= MaxAdded
    /\ IsInjective(names) /\ Range(names) \cap trusted = {}
    /\ trusted' = trusted \cup Range(names)
    /\ count' = count + Len(names)
    /\ added' = added \o names

(* Anyone may initialize while the count is zero, which an empty array      *)
(* leaves it: the owner is set, and may be set again by the next caller.    *)
Initialize(names, newOwner) ==
    /\ count = 0
    /\ AddAll(names)
    /\ owner' = newOwner
    /\ UNCHANGED <<strays, reader>>

AddTrustedNodes(sender, names) ==
    /\ sender = owner
    /\ AddAll(names)
    /\ UNCHANGED <<owner, strays, reader>>

(* removeTrustedNode does not ask whether the name is trusted; the checked *)
(* subtraction reverts below zero.                                         *)
RemoveTrustedNodes(sender, names) ==
    /\ sender = owner
    /\ Len(names) <= count
    /\ trusted' = trusted \ Range(names)
    /\ count' = count - Len(names)
    /\ strays' = strays + (Len(names) - Cardinality(Range(names) \cap trusted))
    /\ UNCHANGED <<owner, added, reader>>

TransferOwnership(sender, newOwner) ==
    /\ sender = owner
    /\ owner' = newOwner
    /\ UNCHANGED <<trusted, count, added, strays, reader>>

-----------------------------------------------------------------------------
ReadLogs ==
    /\ reading = "logs"
    /\ reading' = "filter" /\ logs' = added
    /\ UNCHANGED <<contract, bootList>>

(* Mutant: every node that ever was trusted. *)
ReadTrustedUnfiltered ==
    /\ reading = "filter"
    /\ reading' = "done" /\ bootList' = logs
    /\ UNCHANGED <<contract, logs>>

(* isTrustedNode(names): those of the logs that are still trusted, in order. *)
Kept(names, still) ==
    FoldLeft(LAMBDA list, name : IF name \in still THEN Append(list, name) ELSE list,
             <<>>, names)

ReadTrusted ==
    /\ reading = "filter"
    /\ reading' = "done" /\ bootList' = Kept(logs, trusted)
    /\ UNCHANGED <<contract, logs>>

(* No provider, or one of the two calls fails: no boot nodes. *)
ReadFails ==
    /\ reading \in {"logs", "filter"}
    /\ reading' = "failed"
    /\ UNCHANGED <<contract, logs, bootList>>

ContractNext ==
    \/ \E names \in Batches, newOwner \in Accounts : Initialize(names, newOwner)
    \/ \E sender \in Accounts, names \in Batches :
          AddTrustedNodes(sender, names) \/ RemoveTrustedNodes(sender, names)
    \/ \E sender, newOwner \in Accounts : TransferOwnership(sender, newOwner)

ReaderNext == ReadLogs \/ ReadTrusted \/ ReadFails
-----------------------------------------------------------------------------
(* The values the variables range over. *)
RegistryTypeOK ==
    /\ trusted \subseteq TrustNames /\ count \in Nat /\ strays \in Nat
    /\ owner \in Accounts \cup {Nobody}
    /\ added \in Seq(TrustNames)
    /\ reading \in {"logs", "filter", "done", "failed"}
    /\ logs \in Seq(TrustNames) /\ bootList \in Seq(TrustNames)

(* The count is the number of trusted nodes less the removals that removed  *)
(* nothing: those alone make it drift, and bring initialize back while      *)
(* nodes are trusted.  (MintpoolTrustedNodeRegistry.sol,                    *)
(* removeTrustedNode, _addTrustedNode and initialize.)                      *)
CountDriftsByStrays == count + strays = Cardinality(trusted)

(* A trusted node can be found: it is in the logs, and in what the reader   *)
(* got of them unless it was added later.  (chain.rs:161; _addTrustedNode.) *)
TrustedInLogs ==
    /\ trusted \subseteq Range(added)
    /\ reading \in {"filter", "done"} => IsPrefix(logs, added)

(* The list has trusted nodes only, and misses one only if it was added     *)
(* between the two calls.  (chain.rs, get_contract_boot_nodes.)             *)
BootListCurrent ==
    [][reading = "filter" /\ reading' = "done" =>
          /\ Range(bootList') \subseteq trusted
          /\ trusted \ Range(bootList') \subseteq
                Range(SubSeq(added, Len(logs) + 1, Len(added)))]_registryVars
=============================================================================
