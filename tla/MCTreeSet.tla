----------------------------- MODULE MCTreeSet ------------------------------
(***************************************************************************)
(* An instance of TreeSet for TLC: siblings at two levels, a second top,   *)
(* an element above others, and hashes that differ in either half.         *)
(***************************************************************************)
EXTENDS TreeSet

MCElements == {<<1, 1>>, <<1, 1, 1>>, <<1, 1, 2>>, <<1, 2, 1>>, <<2, 1>>}
MCLabelled == {<<1, 1, 1>>, <<1, 1>>}
MCHashes == {[hi |-> 0, lo |-> 1]}
MCPeerContents == {{<<1, 1, 1>>}, {<<1, 1, 1>>, <<1, 1, 2>>, <<2, 1>>},
                   {<<1, 1>>, <<1, 2, 1>>}, MCElements}
MCPeerHashes == {[hi |-> 0, lo |-> 1], [hi |-> 1, lo |-> 1], [hi |-> 0, lo |-> 2]}
=============================================================================
