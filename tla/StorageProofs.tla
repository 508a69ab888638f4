---------------------------- MODULE StorageProofs ----------------------------
(***************************************************************************)
(* What the SQL statements of Storage return, preserve and bound, for      *)
(* every set of premints and every width of the version column.            *)
(***************************************************************************)
EXTENDS Storage, TLAPS

(* A premint of the node has the fields metadata() gives it. *)
LEMMA PremintFields ==
    ASSUME NEW p \in Premints
    PROVE  /\ p.kind \in Kinds /\ p.id \in Ids /\ p.signer \in Signers
           /\ p.uri \in Uris /\ p.version \in 0..(2 * I64Half - 1)
           /\ Key(p) \in Keys
BY PremintAssumption DEF PremintType, Key, Keys

(* `version as i64` stays within the signed range. *)
LEMMA CastRange ==
    ASSUME NEW v \in 0..(2 * I64Half - 1)
    PROVE  AsI64(v) \in (-I64Half)..(I64Half - 1)
BY HalfAssumption DEF AsI64

LEMMA InsertedRow ==
    ASSUME NEW p \in Premints
    PROVE  Inserted(p) \in Row
<1>1. AsI64(p.version) \in Int
    BY PremintFields, CastRange, HalfAssumption
<1> QED
    BY <1>1, PremintFields DEF Inserted, Row

LEMMA OverwrittenRow ==
    ASSUME NEW p \in Premints, NEW row \in Row
    PROVE  /\ Overwritten(row, p) \in Row
           /\ Overwritten(row, p).json = p
           /\ Overwritten(row, p).version = AsI64(p.version)
           /\ Overwritten(row, p).seen_on_chain = row.seen_on_chain
<1>1. AsI64(p.version) \in Int
    BY PremintFields, CastRange, HalfAssumption
<1> QED
    BY <1>1 DEF Overwritten, Row

(* What a row of the table is, and that a row is not NoRow. *)
LEMMA RowOrNone ==
    ASSUME NEW db \in Table, NEW k \in Keys
    PROVE  db[k] = NoRow \/ (db[k] \in Row /\ db[k] # NoRow)
BY NoneAssumption DEF Table

(* store: the table stays a table, only the premint's key is written, and  *)
(* there only a new row or a row of a strictly higher version column.      *)
LEMMA UpsertEffect ==
    ASSUME NEW db \in Table, NEW p \in Premints
    PROVE  /\ Upsert(db, p) \in Table
           /\ \A k \in Keys : k # Key(p) => Upsert(db, p)[k] = db[k]
           /\ ~RowsAffected(db, p) => Upsert(db, p) = db
           /\ RowsAffected(db, p) /\ db[Key(p)] = NoRow =>
                 Upsert(db, p)[Key(p)] = Inserted(p)
           /\ RowsAffected(db, p) /\ db[Key(p)] # NoRow =>
                 /\ Upsert(db, p)[Key(p)] = Overwritten(db[Key(p)], p)
                 /\ AsI64(p.version) > db[Key(p)].version
<1>1. Key(p) \in Keys
    BY PremintFields
<1>2. CASE ~RowsAffected(db, p)
    BY <1>2 DEF Upsert
<1>3. CASE RowsAffected(db, p) /\ db[Key(p)] = NoRow
    <2>1. Upsert(db, p) = [db EXCEPT ![Key(p)] = Inserted(p)]
        BY <1>3 DEF Upsert
    <2>2. Inserted(p) \in Row
        BY InsertedRow
    <2> QED
        BY <1>1, <1>3, <2>1, <2>2 DEF Table
<1>4. CASE RowsAffected(db, p) /\ db[Key(p)] # NoRow
    <2>1. Upsert(db, p) = [db EXCEPT ![Key(p)] = Overwritten(db[Key(p)], p)]
        BY <1>4 DEF Upsert
    <2>2. db[Key(p)] \in Row
        BY <1>1, <1>4, RowOrNone
    <2>3. Overwritten(db[Key(p)], p) \in Row
        BY <2>2, OverwrittenRow
    <2>4. AsI64(p.version) > db[Key(p)].version
        BY <1>4 DEF RowsAffected
    <2> QED
        BY <1>1, <1>4, <2>1, <2>3, <2>4 DEF Table
<1> QED
    BY <1>2, <1>3, <1>4

(* mark_seen_on_chain: it deletes or marks the claimed row and no other,   *)
(* and keeps its premint and version.                                      *)
LEMMA MarkSeenEffect ==
    ASSUME NEW db \in Table, NEW c \in ClaimType, NEW prune \in BOOLEAN
    PROVE  LET after == MarkSeenOnChain(db, c, prune)
               k == ClaimKey(c)
           IN  /\ after \in Table /\ k \in Keys
               /\ \A m \in Keys : m # k => after[m] = db[m]
               /\ \/ after = db
                  \/ db[k] # NoRow /\ prune /\ after[k] = NoRow
                  \/ /\ db[k] # NoRow /\ ~prune
                     /\ after[k] = [db[k] EXCEPT !.seen_on_chain = TRUE]
                     /\ after[k] \in Row
<1> DEFINE k == ClaimKey(c)
<1>1. k \in Keys
    BY DEF ClaimKey, ClaimType, Keys
<1>2. CASE db[k] = NoRow \/ c.chain_id # ChainOf[c.id]
    BY <1>1, <1>2 DEF MarkSeenOnChain
<1>3. CASE ~(db[k] = NoRow \/ c.chain_id # ChainOf[c.id])
    <2>1. db[k] \in Row
        BY <1>1, <1>3, RowOrNone
    <2>2. [db[k] EXCEPT !.seen_on_chain = TRUE] \in Row
        BY <2>1 DEF Row
    <2>3. CASE prune
        BY <1>1, <1>3, <2>3 DEF MarkSeenOnChain, Table
    <2>4. CASE ~prune
        BY <1>1, <1>3, <2>2, <2>4 DEF MarkSeenOnChain, Table
    <2> QED
        BY <2>3, <2>4
<1> QED
    BY <1>2, <1>3

(* get_for_id_and_kind returns the json of the row, or nothing. *)
LEMMA LookupType ==
    ASSUME NEW db \in Table, NEW k \in Keys
    PROVE  /\ GetForIdAndKind(db, k) \in Premints \cup {NoPremint}
           /\ db[k] # NoRow => GetForIdAndKind(db, k) = db[k].json
BY RowOrNone DEF GetForIdAndKind, Row
=============================================================================
