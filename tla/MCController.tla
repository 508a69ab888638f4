---------------------------- MODULE MCController ----------------------------
(***************************************************************************)
(* Instances of Controller for TLC.                                        *)
(***************************************************************************)
EXTENDS Controller

MCIds == {"A", "B"}
MCSigners == {"alice", "bob"}
MCUris == [text: {"u", "w"}, data: {FALSE}, len: {10}]
           \cup [text: {"long"}, data: BOOLEAN, len: {2049}]
MCChainOf == [id \in Ids |-> 7777777]

Uri(text) == [text |-> text, data |-> FALSE, len |-> 10]

Zora(id, version, signer, uri, sig) ==
    [kind |-> V2, id |-> id, version |-> version, signer |-> signer,
     uri |-> Uri(uri), sig |-> sig]

SimpleOf(id, version, uri) ==
    [kind |-> Simple, id |-> id, version |-> version, signer |-> "alice",
     uri |-> Uri(uri), sig |-> "valid"]

(* Two versions of a token, a competing signer, another token with the URI of the second version. *)
Contested ==
    {Zora("A", 1, "alice", "u", "valid"), Zora("A", 2, "alice", "w", "valid"),
     Zora("A", 2, "bob", "u", "valid"), Zora("B", 1, "alice", "w", "valid")}

(* A token, a later version by another signer, a simple premint with its id. *)
Mixed ==
    {Zora("A", 1, "alice", "u", "valid"), Zora("A", 2, "bob", "w", "valid"),
     SimpleOf("A", 1, "w")}

(* Versions around the cast to i64 (I64Half = 4), and a token with their id. *)
Ranked == {SimpleOf("A", 3, "u"), SimpleOf("A", 4, "u"), Zora("A", 1, "alice", "w", "valid")}

Vouching == {[kind |-> V2, id |-> "A", chain_id |-> 7777777]}
MCClaims == [kind: {V2, Simple}, id: {"A"}, chain_id: {7777777, 8453}]
=============================================================================
