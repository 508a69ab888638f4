------------------------------- MODULE Storage -------------------------------
(***************************************************************************)
(* The premints of the node and the SQLite table `premints` they are kept  *)
(* in (src/src/types.rs, src/src/storage.rs).  Everything here is a        *)
(* constant-level operator on a table value: the modules that keep a       *)
(* table as state (Controller) apply one operator per SQL statement.       *)
(*                                                                         *)
(* A table maps every primary key (kind, id) to a row or to NoRow.  The    *)
(* `json` column holds the premint as it was submitted; `version`,         *)
(* `signer` and `token_uri` repeat parts of it, and the upsert refreshes   *)
(* only some of them.  Columns no statement of the modelled code selects   *)
(* on (collection_address, token_id) are left out; chain_id is part of the *)
(* id, so it is a function of it (ChainOf).                                *)
(***************************************************************************)
EXTENDS Integers, FiniteSets

CONSTANTS
    Ids,        \* values of PremintMetadata.id, "chain:collection:uid"
    Signers,    \* addresses
    Uris,       \* token URIs, [text, data, len]
    ChainOf,    \* the chain id an id starts with
    Premints,   \* the premints that reach this node
    NoPremint,  \* Option::None for a premint
    NoRow,      \* a key the table has no row for
    I64Half     \* 2^63 in the code: where `as i64` turns negative

V2     == "zora_premint_v2"
Simple == "simple"
Kinds  == {Simple, V2, "zora_premint_erc20v1"}
Keys   == Kinds \X Ids

(***************************************************************************)
(* A premint is its metadata() and the state of its signature string: it   *)
(* recovers to the contract admin, to somebody else, or does not parse.    *)
(* Premint::version is a u64 for SimplePremint and a u32 widened to u64    *)
(* for the Zora types.                                                     *)
(***************************************************************************)
SigStates   == {"valid", "mismatch", "malformed"}
PremintType == [kind: Kinds, id: Ids, version: 0..(2 * I64Half - 1),
                signer: Signers, uri: Uris, sig: SigStates]

Key(p) == <<p.kind, p.id>>

(***************************************************************************)
(* InclusionClaim without the transaction it points at: whether the chain  *)
(* backs it is decided where it is checked.                                *)
(***************************************************************************)
ClaimType == [kind: Kinds, id: Ids, chain_id: Nat]

Row == [version: Int, signer: Signers, token_uri: Uris,
        seen_on_chain: BOOLEAN, json: Premints]

ASSUME HalfAssumption    == I64Half \in Nat \ {0}
ASSUME PremintAssumption == Premints \subseteq PremintType
ASSUME ChainAssumption   == ChainOf \in [Ids -> Nat]
ASSUME UriAssumption     == Uris \subseteq [text: STRING, data: BOOLEAN, len: Nat]
ASSUME NoneAssumption    == NoPremint \notin Premints /\ NoRow \notin Row
(* The signer of a simple premint is part of its id; a Zora version is a u32. *)
ASSUME InputAssumption ==
    /\ \A p, q \in Premints :
          p.kind = Simple /\ q.kind = Simple /\ p.id = q.id => p.signer = q.signer
    /\ \A p \in Premints : p.kind # Simple => p.version < I64Half

Table == [Keys -> Row \cup {NoRow}]
EmptyTable == [k \in Keys |-> NoRow]

(***************************************************************************)
(* PremintStorage::store.  The u64 version is cast to the i64 the column   *)
(* holds; on a conflict only `version` and `json` are written, and only if *)
(* the new column value is greater.                                        *)
(***************************************************************************)
AsI64(v) == IF v < I64Half THEN v ELSE v - 2 * I64Half

(* Mutants of the WHERE of the upsert: dropped, on the u64. *)
RowsAffectedAlways(db, p) == TRUE
RowsAffectedUncast(db, p) ==
    db[Key(p)] = NoRow \/ p.version > db[Key(p)].json.version

RowsAffected(db, p) ==
    \/ db[Key(p)] = NoRow
    \/ AsI64(p.version) > db[Key(p)].version

Inserted(p) ==
    [version |-> AsI64(p.version), signer |-> p.signer, token_uri |-> p.uri,
     seen_on_chain |-> FALSE, json |-> p]

(* Mutants of DO UPDATE SET: without the version, with seen_on_chain reset. *)
OverwrittenKeepsVersion(row, p) == [row EXCEPT !.json = p]
OverwrittenClearsSeen(row, p) ==
    [row EXCEPT !.version = AsI64(p.version), !.json = p, !.seen_on_chain = FALSE]

Overwritten(row, p) == [row EXCEPT !.version = AsI64(p.version), !.json = p]

Upsert(db, p) ==
    IF ~RowsAffected(db, p) THEN db
    ELSE [db EXCEPT ![Key(p)] =
            IF db[Key(p)] = NoRow THEN Inserted(p) ELSE Overwritten(db[Key(p)], p)]

(***************************************************************************)
(* PremintStorage::mark_seen_on_chain: DELETE or UPDATE ... WHERE id,      *)
(* chain_id and kind all match; no matching row is not an error.           *)
(***************************************************************************)
ClaimKey(c) == <<c.kind, c.id>>

MarkSeenOnChain(db, c, prune) ==
    IF db[ClaimKey(c)] = NoRow \/ c.chain_id # ChainOf[c.id] THEN db
    ELSE [db EXCEPT ![ClaimKey(c)] =
            IF prune THEN NoRow ELSE [db[ClaimKey(c)] EXCEPT !.seen_on_chain = TRUE]]

(***************************************************************************)
(* The readers.  get_for_token_uri selects on the token_uri COLUMN and     *)
(* takes any one matching row; list_all and build_query serve the rows     *)
(* not seen on chain.                                                      *)
(***************************************************************************)
GetForIdAndKind(db, k) == IF db[k] = NoRow THEN NoPremint ELSE db[k].json

RowKeys(db) == {k \in Keys : db[k] # NoRow}

GetForTokenUri(db, uri) == {db[k].json : k \in {r \in RowKeys(db) : db[r].token_uri = uri}}

ListAll(db) == {db[k].json : k \in {r \in RowKeys(db) : ~db[r].seen_on_chain}}
=============================================================================
