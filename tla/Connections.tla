----------------------------- MODULE Connections -----------------------------
(***************************************************************************)
(* The connections of one node's swarm and the peer limit (src/src/p2p.rs, *)
(* handle_swarm_event, safe_dial, reject_connection_if_over_max), with the *)
(* announcements that make nodes dial and the addresses they are told.     *)
(*                                                                         *)
(* libp2p is external.  It keeps the connections, counts the peers that    *)
(* have one (num_peers, connections being closed included), and queues the *)
(* event for each one established; gossipsub picks its mesh among the      *)
(* connected peers, kad dials what it discovers, autonat and dcutr dial    *)
(* connected peers again, and autonat and the relay client confirm and     *)
(* withdraw external addresses.                                            *)
(***************************************************************************)
EXTENDS Naturals, Sequences, FiniteSets

CONSTANTS
    Peers,
    NoPeer,
    Conns,          \* bound: connections that exist at a time
    PeerLimit,      \* Config.peer_limit
    Relayed,        \* addresses through a relay (is_relayed) ...
    Direct,         \* ... and others this node may listen on
    Configured      \* Config.external_address: at most one address

ASSUME PeerAssumption == NoPeer \notin Peers /\ IsFiniteSet(Peers) /\ IsFiniteSet(Conns)
ASSUME LimitAssumption == PeerLimit \in Nat
ASSUME AddressAssumption ==
    /\ Relayed \cap Direct = {} /\ Configured \subseteq Relayed \cup Direct

VARIABLES
    conn,       \* conn[c]: [at, peer, known], the peer once the swarm knows it
    mesh,       \* gossipsub's all_mesh_peers
    listens,    \* addresses being listened on
    external,   \* external_addresses
    confirmed   \* history: those of them that libp2p itself confirmed

connVars == <<conn, mesh, listens, external, confirmed>>
addresses == <<listens, external, confirmed>>

(***************************************************************************)
(* offered: incoming, not yet negotiated.  dialing: outgoing.  up: counted *)
(* as established, its event still queued.  open: accepted by this node.   *)
(* closing: close_connection was called.                                   *)
(***************************************************************************)
Stages == {"free", "offered", "dialing", "up", "open", "closing"}
Free == [at |-> "free", peer |-> NoPeer, known |-> FALSE]

Established(c) == conn[c].at \in {"up", "open", "closing"}
ConnectedPeers == {conn[c].peer : c \in {c \in Conns : Established(c)}}
AcceptedPeers  == {conn[c].peer : c \in {c \in Conns : conn[c].at = "open"}}
Dialing(p) == \E c \in Conns : conn[c] = [at |-> "dialing", peer |-> p, known |-> TRUE]

ConnInit ==
    /\ conn = [c \in Conns |-> Free]
    /\ mesh = {} /\ listens = {} /\ external = Configured /\ confirmed = {}

-----------------------------------------------------------------------------
(* Mutant: the mesh is what is counted, as before a dial. *)
OverMaxMesh == PeerLimit < Cardinality(mesh)
(* reject_connection_if_over_max *)
OverMax == PeerLimit < Cardinality(ConnectedPeers)

(* A connection's new stage; the peer it may come from or go to. *)
Becomes(c, at, p, known) ==
    conn' = [conn EXCEPT ![c] = [at |-> at, peer |-> p, known |-> known]]

(***************************************************************************)
(* IncomingConnection: nothing is established yet, so what closing it does *)
(* is up to the swarm: drop it, or nothing.                                *)
(***************************************************************************)
Incoming(c, p) ==
    /\ conn[c].at = "free"
    /\ \/ Becomes(c, "offered", p, FALSE)
       \/ OverMax /\ UNCHANGED conn
    /\ UNCHANGED <<mesh, addresses>>

(***************************************************************************)
(* safe_dial compares the limit with the peers in the mesh, not with those *)
(* connected.  An address that ends in a peer id is not dialed while that  *)
(* peer is connected or being dialed; any other one always is.             *)
(***************************************************************************)
MayDial(p, hasId) ==
    /\ Cardinality(mesh) < PeerLimit
    /\ hasId => p \notin ConnectedPeers /\ ~Dialing(p)

SafeDial(p, hasId) ==
    /\ IF MayDial(p, hasId)
       THEN \E c \in Conns : conn[c].at = "free" /\ Becomes(c, "dialing", p, hasId)
       ELSE UNCHANGED conn
    /\ UNCHANGED <<mesh, addresses>>

(* autonat dials back a peer that asks it to, dcutr one that came through a *)
(* relay, whether they are connected or being dialed (PeerCondition::Always).*)
DialAgain(c, p) ==
    /\ conn[c].at = "free"
    /\ p \in ConnectedPeers
    /\ Becomes(c, "dialing", p, TRUE)
    /\ UNCHANGED <<mesh, addresses>>

(* kad dials the peers it discovers, on safe_dial's condition but the limit. *)
KadDial(c, p) ==
    /\ conn[c].at = "free"
    /\ p \notin ConnectedPeers /\ ~Dialing(p)
    /\ Becomes(c, "dialing", p, TRUE)
    /\ UNCHANGED <<mesh, addresses>>

(* OutgoingConnectionError, or an incoming one that does not complete. *)
Unreachable(c) ==
    /\ conn[c].at \in {"offered", "dialing"}
    /\ conn' = [conn EXCEPT ![c] = Free]
    /\ UNCHANGED <<mesh, addresses>>

Establish(c) ==
    /\ conn[c].at \in {"offered", "dialing"}
    /\ Becomes(c, "up", conn[c].peer, TRUE)
    /\ UNCHANGED <<mesh, addresses>>

ConnectionEstablished(c) ==
    /\ conn[c].at = "up"
    /\ Becomes(c, IF OverMax THEN "closing" ELSE "open", conn[c].peer, TRUE)
    /\ UNCHANGED <<mesh, addresses>>

(* Mutant: the mesh keeps a peer that is gone. *)
ConnectionClosedInMesh(c) ==
    /\ Established(c)
    /\ conn' = [conn EXCEPT ![c] = Free]
    /\ UNCHANGED <<mesh, addresses>>

(* ConnectionClosed: by this node, by the peer, or lost. *)
ConnectionClosed(c) ==
    /\ Established(c)
    /\ conn' = [conn EXCEPT ![c] = Free]
    /\ mesh' = mesh \cap {conn[d].peer : d \in {d \in Conns \ {c} : Established(d)}}
    /\ UNCHANGED addresses

(* gossipsub grafts and prunes. *)
Graft(p) ==
    /\ p \in ConnectedPeers \ mesh
    /\ mesh' = mesh \cup {p}
    /\ UNCHANGED <<conn, addresses>>

Prune(p) ==
    /\ p \in mesh
    /\ mesh' = mesh \ {p}
    /\ UNCHANGED <<conn, addresses>>

-----------------------------------------------------------------------------
(* NewListenAddr: a relayed address is taken to be reachable from outside. *)
NewListenAddr(a) ==
    /\ a \notin listens
    /\ listens' = listens \cup {a}
    /\ external' = IF a \in Relayed THEN external \cup {a} ELSE external
    /\ UNCHANGED <<conn, mesh, confirmed>>

(* remove_external_address, for whatever reason they were external. *)
NoLongerExternal(gone) ==
    /\ external' = external \ gone
    /\ confirmed' = confirmed \ gone

ExpiredListenAddr(a) ==
    /\ a \in listens
    /\ listens' = listens \ {a}
    /\ NoLongerExternal({a} \cap Relayed)
    /\ UNCHANGED <<conn, mesh>>

(* Mutant: a closed listener's addresses stay external. *)
ListenerClosedKept(closed) ==
    /\ closed # {} /\ closed \subseteq listens
    /\ listens' = listens \ closed
    /\ UNCHANGED <<conn, mesh, external, confirmed>>

(* The listener goes with all its addresses, without an event for each. *)
ListenerClosed(closed) ==
    /\ closed # {} /\ closed \subseteq listens
    /\ listens' = listens \ closed
    /\ NoLongerExternal(closed \cap Relayed)
    /\ UNCHANGED <<conn, mesh>>

(* ExternalAddrConfirmed: autonat was dialed back on an address, listened   *)
(* on or not, or the relay client got a reservation.  The event is logged,  *)
(* the swarm has added the address.                                         *)
ConfirmExternal(a) ==
    /\ a \notin confirmed
    /\ external' = external \cup {a}
    /\ confirmed' = confirmed \cup {a}
    /\ UNCHANGED <<conn, mesh, listens>>

(* A behaviour withdraws an address, its own or one added by this node.     *)
WithdrawExternal(a) ==
    /\ a \in external
    /\ NoLongerExternal({a})
    /\ UNCHANGED <<conn, mesh, listens>>

(* An announcement: an address with the announcer's id, or the bare id of a *)
(* node that listens nowhere, which does not parse as an address.           *)
ReceiveAnnouncement(p) == SafeDial(p, TRUE)

ConnNext ==
    \/ \E c \in Conns :
          \/ \E p \in Peers : Incoming(c, p) \/ KadDial(c, p) \/ DialAgain(c, p)
          \/ Unreachable(c) \/ Establish(c) \/ ConnectionEstablished(c) \/ ConnectionClosed(c)
    \/ \E p \in Peers : Graft(p) \/ Prune(p) \/ ReceiveAnnouncement(p)
    \/ \E a \in Relayed \cup Direct :
          \/ NewListenAddr(a) \/ ExpiredListenAddr(a)
          \/ ConfirmExternal(a) \/ WithdrawExternal(a)
    \/ \E closed \in SUBSET listens : ListenerClosed(closed)

ConnSpec == ConnInit /\ [][ConnNext]_connVars
-----------------------------------------------------------------------------
(* The values the variables range over; a connection past dialing has a     *)
(* peer, and the mesh is made of connected peers.                           *)
ConnTypeOK ==
    /\ conn \in [Conns -> [at: Stages, peer: Peers \cup {NoPeer}, known: BOOLEAN]]
    /\ \A c \in Conns : conn[c].at # "free" => conn[c].peer \in Peers
    /\ mesh \subseteq ConnectedPeers
    /\ listens \subseteq Relayed \cup Direct
    /\ external \subseteq Relayed \cup Direct /\ confirmed \subseteq external

(* The node keeps connections to no more peers than the limit, whatever was *)
(* offered, dialed or established at once and however long closing takes:   *)
(* what exceeds the limit is only on its way out or not looked at yet.      *)
(* (tests/p2p_test.rs:91, "Connections should not be able to exceed         *)
(* max_connections config"; p2p.rs, reject_connection_if_over_max.)         *)
PeerLimitHeld == Cardinality(AcceptedPeers) <= PeerLimit

(* An address is external for a reason that still stands: it is configured, *)
(* relayed and listened on, or confirmed by libp2p and not removed since.   *)
(* Nothing of a relayed listener is left behind, whichever of two events    *)
(* ended it, while libp2p confirms and withdraws the same addresses; a      *)
(* direct one, once confirmed, outlives its listener until libp2p withdraws *)
(* it.  (p2p.rs, NewListenAddr, ExpiredListenAddr, ListenerClosed.)         *)
ExternalAccountedFor ==
    external \subseteq Configured \cup (listens \cap Relayed) \cup confirmed
=============================================================================
