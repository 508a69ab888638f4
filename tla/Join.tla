-------------------------------- MODULE Join --------------------------------
(***************************************************************************)
(* A node joining the network (src/src/run.rs, start_p2p_services): it gets*)
(* its boot nodes, has the swarm dial each, waits half a second, and       *)
(* announces itself once.  The registry contract, the swarm's connections  *)
(* and everyone else's dialing go on meanwhile.                            *)
(***************************************************************************)
EXTENDS Registry, Connections

CONSTANTS
    CustomNodes,    \* BootNodes::Custom
    PeerOf,         \* the peer behind a name
    WithId          \* names that are addresses ending in a peer id

ASSUME BootAssumption ==
    /\ CustomNodes \in Seq(TrustNames)
    /\ PeerOf \in [TrustNames -> Peers] /\ WithId \subseteq TrustNames

VARIABLES
    joining,    \* "read", "dial", "announce", "up"
    todo,       \* boot nodes still to be dialed
    announced   \* what announce_self published: "nothing", "address", "id"

joinVars == <<joining, todo, announced>>
vars == <<registryVars, connVars, joinVars>>

(* BootNodes::Chain, Custom, None. *)
Init ==
    /\ RegistryInit /\ ConnInit
    /\ announced = "nothing"
    /\ \/ joining = "read" /\ todo = <<>>
       \/ joining = "dial" /\ todo = CustomNodes
       \/ joining = "up" /\ todo = <<>>

(* Without an answer there is nothing to dial and nobody to announce to. *)
GotBootNodes ==
    /\ joining = "read"
    /\ \/ reading = "done" /\ joining' = "dial" /\ todo' = bootList
       \/ reading = "failed" /\ joining' = "up" /\ UNCHANGED todo
    /\ UNCHANGED <<registryVars, connVars, announced>>

(* ControllerCommands::ConnectToPeer, to the swarm's handle_command. *)
ConnectToPeer ==
    /\ joining = "dial" /\ todo # <<>>
    /\ SafeDial(PeerOf[Head(todo)], Head(todo) \in WithId)
    /\ todo' = Tail(todo)
    /\ UNCHANGED <<registryVars, joining, announced>>

HalfASecond ==
    /\ joining = "dial" /\ todo = <<>>
    /\ joining' = "announce"
    /\ UNCHANGED <<registryVars, connVars, todo, announced>>

(* announce_self publishes its first listening address, or its bare peer   *)
(* id; with no peer to send it to gossipsub refuses, which is only logged. *)
AnnounceSelf ==
    /\ joining = "announce"
    /\ joining' = "up"
    /\ announced' = IF ConnectedPeers = {} THEN "nothing"
                    ELSE IF listens # {} THEN "address" ELSE "id"
    /\ UNCHANGED <<registryVars, connVars, todo>>

Next ==
    \/ ContractNext /\ UNCHANGED <<connVars, joinVars>>
    \/ joining = "read" /\ ReaderNext /\ UNCHANGED <<connVars, joinVars>>
    \/ ConnNext /\ UNCHANGED <<registryVars, joinVars>>
    \/ GotBootNodes \/ ConnectToPeer \/ HalfASecond \/ AnnounceSelf

Spec == Init /\ [][Next]_vars
-----------------------------------------------------------------------------
(* The values the variables range over. *)
TypeOK ==
    /\ RegistryTypeOK /\ ConnTypeOK
    /\ joining \in {"read", "dial", "announce", "up"}
    /\ todo \in Seq(TrustNames)
    /\ announced \in {"nothing", "address", "id"}
=============================================================================
