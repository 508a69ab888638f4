------------------------------- MODULE MCJoin -------------------------------
(***************************************************************************)
(* An instance of Join for TLC: two names of which one carries a peer id,  *)
(* and a custom list that repeats it.                                      *)
(***************************************************************************)
EXTENDS Join, TLC

MCPeerOf == "a" :> "p1" @@ "b" :> "p2"
MCCustomNodes == <<"a", "a">>
MCSymmetry == Permutations(Conns) \cup Permutations(Accounts)

(***************************************************************************)
(* The registry shares no variable with the connections, and a joining node*)
(* no longer looks at it once it has the list.  So every state of either,  *)
(* and every list the node may get, is reached if the registry moves only  *)
(* while it is read and the connections only afterwards.  From then on     *)
(* states need not be told apart by the registry, nor by the announcement, *)
(* which nothing looks at again.                                           *)
(***************************************************************************)
MCReadFirst == IF joining = "read" THEN UNCHANGED connVars ELSE UNCHANGED registryVars
MCView == IF joining = "read" THEN vars ELSE <<connVars, joining, todo>>
=============================================================================
