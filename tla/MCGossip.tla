------------------------------ MODULE MCGossip ------------------------------
(***************************************************************************)
(* Meshes for TLC: a single link; a line, where the middle relays; and a   *)
(* triangle with a tail, where a message must be forwarded and also comes  *)
(* back by another way.                                                    *)
(***************************************************************************)
EXTENDS Gossip, TLC

Between(a, b) == {<<a, b>>, <<b, a>>}
None == {}
Edge == Between("n1", "n2")
Line == Edge \cup Between("n2", "n3")
Paw  == Line \cup Between("n1", "n3") \cup Between("n3", "n4")

(* The first node of a line asks the middle one to sync. *)
FirstAsks == {<<"n1", "n2">>}

(* Clients of the triangle and its tail; of the line's middle, where B is   *)
(* minted and never submitted; and of everybody.                            *)
AtBothEnds == {<<"n1", "A">>, <<"n4", "A">>}
OnlyA == {<<"n2", "A">>}
Everything == Nodes \X Ids

(* Nobody in Trust mode; or a node that trusts the one that relays to it. *)
NoTrust == [n \in {} |-> {}]
EndTrusts == "n3" :> {"n2"}
=============================================================================
