------------------------------ MODULE NodeLoops ------------------------------
(***************************************************************************)
(* The two tasks of a node and the three bounded channels between them and *)
(* their clients (src/src/run.rs, controller.rs, p2p.rs):                  *)
(*                                                                         *)
(*     clients --extQ--> controller --cmdQ--> swarm --evQ--> controller    *)
(*                                                                         *)
(* Each task handles one message at a time and awaits the handler to its   *)
(* end; some handlers await room in the next channel, and the swarm's      *)
(* answer to a peer's sync request awaits the controller on a oneshot.     *)
(* Replies to clients are oneshots too: the sender travels inside the      *)
(* command, and whoever drops it fails the client.  What a handler does    *)
(* to the table is Controller's subject; here it is work that ends.        *)
(***************************************************************************)
EXTENDS Naturals, Sequences, FiniteSets

CONSTANTS
    Requests,       \* commands that clients, the REPL and MintCheckers issue
    NoRequest,      \* a message that carries no client's oneshot
    ExtCap, CommandCap, EventCap,   \* mpsc::channel(1024), three times
    SwarmMayFail,   \* may SwarmController::run fail before its loop?
    ClaimMayPanic,  \* may a peer's claim reach SimplePremint's todo!()?
    ClientsGiveUp   \* do clients time out (TimeoutLayer, 10 s)?

ASSUME CapAssumption ==
    /\ ExtCap \in Nat \ {0} /\ CommandCap \in Nat \ {0} /\ EventCap \in Nat \ {0}
ASSUME RequestAssumption == IsFiniteSet(Requests) /\ NoRequest \notin Requests
ASSUME FaultAssumption ==
    SwarmMayFail \in BOOLEAN /\ ClaimMayPanic \in BOOLEAN /\ ClientsGiveUp \in BOOLEAN

VARIABLES
    extQ,       \* ControllerCommands
    cmdQ,       \* SwarmCommands
    evQ,        \* P2PEvents
    ctl,        \* the controller: [at, job]
    swm,        \* the swarm: [at, job]
    reply,      \* the oneshot of make_sync_response_query
    request     \* what each client's request has come to

vars == <<extQ, cmdQ, evQ, ctl, swm, reply, request>>

(***************************************************************************)
(* ask: ReturnNetworkState, ReturnNodeInfo.  tell: ConnectToPeer,          *)
(* AnnounceSelf.  query: Query(ListAll), Query(Direct).  mint:             *)
(* ResolveOnchainMint in Check mode.                                       *)
(***************************************************************************)
Answered == {"ask", "query", "broadcast"}       \* commands with a oneshot
ExtTypes == Answered \cup {"tell", "mint", "sync"}
Events   == {"premint", "claim", "syncResponse", "syncRequest"}
ToSwarm  == ExtTypes \ {"query"}

Message(types) == [type: types, req: Requests \cup {NoRequest}]
NoJob == [type |-> "none", req |-> NoRequest]
Event(type) == [type |-> type, req |-> NoRequest]

Idle == [at |-> "idle", job |-> NoJob]
Dead == [at |-> "dead", job |-> NoJob]
Doing(at, job) == [at |-> at, job |-> job]

CarriedBy(q) == {q[i].req : i \in DOMAIN q}

(* The oneshot senders of these requests are dropped: their clients fail. *)
Drop(reqs) ==
    [r \in Requests |-> IF r \in reqs /\ request[r] = "waiting" THEN "failed" ELSE request[r]]
Answer(req) ==
    [r \in Requests |-> IF r = req /\ request[r] = "waiting" THEN "answered" ELSE request[r]]

Init ==
    /\ extQ = <<>> /\ cmdQ = <<>> /\ evQ = <<>>
    /\ ctl = Idle /\ swm = Doing("start", NoJob)
    /\ reply = "none"
    /\ request = [r \in Requests |-> "new"]

-----------------------------------------------------------------------------
(***************************************************************************)
(* Clients: ControllerInterface::send_command, then the oneshot, if the    *)
(* command has one.  A client that gives up drops its receiver only.       *)
(***************************************************************************)
Issue(r, type) ==
    /\ request[r] = "new"
    /\ IF ctl.at = "dead"
       THEN request' = [request EXCEPT ![r] = "failed"] /\ UNCHANGED extQ
       ELSE /\ Len(extQ) < ExtCap
            /\ extQ' = Append(extQ, [type |-> type,
                                     req |-> IF type \in Answered THEN r ELSE NoRequest])
            /\ request' = [request EXCEPT ![r] = IF type \in Answered THEN "waiting" ELSE "answered"]
    /\ UNCHANGED <<cmdQ, evQ, ctl, swm, reply>>

GiveUp(r) ==
    /\ ClientsGiveUp
    /\ request[r] = "waiting"
    /\ request' = [request EXCEPT ![r] = "gone"]
    /\ UNCHANGED <<extQ, cmdQ, evQ, ctl, swm, reply>>

-----------------------------------------------------------------------------
(***************************************************************************)
(* The controller's select!.                                               *)
(***************************************************************************)
TakeCommand ==
    /\ ctl.at = "idle" /\ extQ # <<>>
    /\ extQ' = Tail(extQ)
    /\ ctl' = Doing(IF Head(extQ).type \in {"query", "broadcast"} THEN "working" ELSE "sending",
                    Head(extQ))
    /\ UNCHANGED <<cmdQ, evQ, swm, reply, request>>

TakeEvent ==
    /\ ctl.at = "idle" /\ evQ # <<>>
    /\ evQ' = Tail(evQ)
    /\ ctl' = Doing("working", Head(evQ))
    /\ UNCHANGED <<extQ, cmdQ, swm, reply, request>>

SyncTick ==
    /\ ctl.at = "idle"
    /\ ctl' = Doing("sending", Event("sync"))
    /\ UNCHANGED <<extQ, cmdQ, evQ, swm, reply, request>>

(* The handler's own work is done: answer, go on to the swarm, or return. *)
Work ==
    /\ ctl.at = "working"
    /\ \/ /\ ctl.job.type = "query"
          /\ ctl' = Idle /\ request' = Answer(ctl.job.req)
          /\ UNCHANGED reply
       \/ /\ ctl.job.type = "broadcast"     \* validate_and_insert: Ok, or Err
          /\ \/ ctl' = Doing("sending", ctl.job) /\ UNCHANGED request
             \/ ctl' = Idle /\ request' = Answer(ctl.job.req)
          /\ UNCHANGED reply
       \/ /\ ctl.job.type = "syncRequest"
          /\ ctl' = Idle /\ reply' = "sent"
          /\ UNCHANGED request
       \/ /\ ctl.job.type \in {"premint", "claim", "syncResponse"}
          /\ ctl' = Idle
          /\ UNCHANGED <<reply, request>>
    /\ UNCHANGED <<extQ, cmdQ, evQ, swm>>

(***************************************************************************)
(* The controller task ends by a panic: its receivers and everything in    *)
(* them are dropped, the oneshots inside included.                         *)
(***************************************************************************)
ControllerDies ==
    /\ ctl' = Dead
    /\ extQ' = <<>> /\ evQ' = <<>>
    /\ request' = Drop(CarriedBy(extQ) \cup {ctl.job.req})
    /\ reply' = IF reply = "pending" THEN "dropped" ELSE reply
    /\ UNCHANGED <<cmdQ, swm>>

ClaimPanics ==
    /\ ClaimMayPanic
    /\ ctl.at = "working" /\ ctl.job.type = "claim"
    /\ ControllerDies

(* swarm_command_sender.send(..).await, with room or without a receiver. *)
Send ==
    /\ ctl.at = "sending" /\ swm.at # "dead"
    /\ Len(cmdQ) < CommandCap
    /\ cmdQ' = Append(cmdQ, [ctl.job EXCEPT !.req = IF ctl.job.type = "ask" THEN @ ELSE NoRequest])
    /\ request' = IF ctl.job.type = "broadcast" THEN Answer(ctl.job.req) ELSE request
    /\ ctl' = Idle
    /\ UNCHANGED <<extQ, evQ, swm, reply>>

(* Mutant: the failed command, with its oneshot, is kept aside. *)
SendFailsKeeping ==
    /\ ctl.at = "sending" /\ swm.at = "dead"
    /\ IF ctl.job.type = "sync" THEN ControllerDies
       ELSE /\ ctl' = Idle
            /\ request' = IF ctl.job.type = "broadcast" THEN Answer(ctl.job.req) ELSE request
            /\ UNCHANGED <<extQ, cmdQ, evQ, swm, reply>>

SendFails ==
    /\ ctl.at = "sending" /\ swm.at = "dead"
    /\ IF ctl.job.type = "sync" THEN ControllerDies     \* .expect(..)
       ELSE /\ ctl' = Idle
            /\ request' = IF ctl.job.type = "broadcast" THEN Answer(ctl.job.req)
                          ELSE Drop({ctl.job.req})
            /\ UNCHANGED <<extQ, cmdQ, evQ, swm, reply>>

-----------------------------------------------------------------------------
(***************************************************************************)
(* The swarm: run sets up the listeners, then run_loop's select!.  Handling*)
(* a command never waits; an event that concerns the controller waits for  *)
(* room in evQ.  Once the controller is gone recv() returns None at once   *)
(* and sends fail at once: the loop goes on.                               *)
(***************************************************************************)
SwarmStarts ==
    /\ swm.at = "start"
    /\ swm' = Idle
    /\ UNCHANGED <<extQ, cmdQ, evQ, ctl, reply, request>>

SwarmFails ==
    /\ SwarmMayFail
    /\ swm.at = "start"
    /\ swm' = Dead /\ cmdQ' = <<>>
    /\ request' = Drop(CarriedBy(cmdQ))
    /\ UNCHANGED <<extQ, evQ, ctl, reply>>

(* Mutant: the answer is not sent and the sender leaked. *)
HandleCommandSilent ==
    /\ swm.at = "idle" /\ cmdQ # <<>>
    /\ cmdQ' = Tail(cmdQ)
    /\ UNCHANGED <<extQ, evQ, ctl, swm, reply, request>>

HandleCommand ==
    /\ swm.at = "idle" /\ cmdQ # <<>>
    /\ cmdQ' = Tail(cmdQ)
    /\ request' = Answer(Head(cmdQ).req)
    /\ UNCHANGED <<extQ, evQ, ctl, swm, reply>>

NetworkEvent(type) ==
    /\ swm.at = "idle"
    /\ swm' = Doing("sending", Event(type))
    /\ UNCHANGED <<extQ, cmdQ, evQ, ctl, reply, request>>

(* Mutant: one more event than the channel holds. *)
SendEventUnbounded ==
    /\ swm.at = "sending" /\ ctl.at # "dead"
    /\ Len(evQ) <= EventCap
    /\ evQ' = Append(evQ, swm.job)
    /\ IF swm.job.type = "syncRequest"
       THEN swm' = Doing("awaiting", swm.job) /\ reply' = "pending"
       ELSE swm' = Idle /\ UNCHANGED reply
    /\ UNCHANGED <<extQ, cmdQ, ctl, request>>

(* Mutant: the swarm goes on without awaiting the controller's answer. *)
SendEventDetached ==
    /\ swm.at = "sending" /\ ctl.at # "dead"
    /\ Len(evQ) < EventCap
    /\ evQ' = Append(evQ, swm.job)
    /\ swm' = Idle
    /\ reply' = IF swm.job.type = "syncRequest" THEN "pending" ELSE reply
    /\ UNCHANGED <<extQ, cmdQ, ctl, request>>

SendEvent ==
    /\ swm.at = "sending" /\ ctl.at # "dead"
    /\ Len(evQ) < EventCap
    /\ evQ' = Append(evQ, swm.job)
    /\ IF swm.job.type = "syncRequest"
       THEN swm' = Doing("awaiting", swm.job) /\ reply' = "pending"
       ELSE swm' = Idle /\ UNCHANGED reply
    /\ UNCHANGED <<extQ, cmdQ, ctl, request>>

SendEventFails ==
    /\ swm.at = "sending" /\ ctl.at = "dead"
    /\ swm' = Idle
    /\ UNCHANGED <<extQ, cmdQ, evQ, ctl, reply, request>>

(* Mutant: a dropped sender does not wake the swarm. *)
ReplyOnlySent ==
    /\ swm.at = "awaiting" /\ reply = "sent"
    /\ swm' = Idle /\ reply' = "none"
    /\ UNCHANGED <<extQ, cmdQ, evQ, ctl, request>>

ReplyArrives ==
    /\ swm.at = "awaiting" /\ reply \in {"sent", "dropped"}
    /\ swm' = Idle /\ reply' = "none"
    /\ UNCHANGED <<extQ, cmdQ, evQ, ctl, request>>

-----------------------------------------------------------------------------
ControllerStep == Work \/ ClaimPanics \/ Send \/ SendFails
SwarmStep      == SwarmStarts \/ SwarmFails \/ SendEvent \/ SendEventFails \/ ReplyArrives

Next ==
    \/ \E r \in Requests : GiveUp(r) \/ \E type \in ExtTypes : Issue(r, type)
    \/ TakeCommand \/ TakeEvent \/ SyncTick \/ ControllerStep
    \/ HandleCommand \/ SwarmStep
    \/ \E type \in Events : NetworkEvent(type)

Spec == Init /\ [][Next]_vars

(***************************************************************************)
(* A handler that can go on does; tokio's select! picks a random branch    *)
(* among the ready ones, so a channel that is ready again and again is     *)
(* taken from.                                                             *)
(***************************************************************************)
FairSpec ==
    /\ Spec
    /\ WF_vars(ControllerStep) /\ WF_vars(SwarmStep)
    /\ SF_vars(TakeCommand) /\ SF_vars(TakeEvent) /\ SF_vars(HandleCommand)
-----------------------------------------------------------------------------
(* The values the variables range over, the bounds of the three channels   *)
(* included.                                                               *)
TypeOK ==
    /\ extQ \in Seq(Message(ExtTypes)) /\ Len(extQ) <= ExtCap
    /\ cmdQ \in Seq(Message(ToSwarm)) /\ Len(cmdQ) <= CommandCap
    /\ evQ \in Seq(Message(Events)) /\ Len(evQ) <= EventCap
    /\ ctl \in [at: {"idle", "working", "sending", "dead"},
                job: Message(ExtTypes \cup Events) \cup {NoJob}]
    /\ swm \in [at: {"start", "idle", "sending", "awaiting", "dead"},
                job: Message(Events) \cup {NoJob}]
    /\ reply \in {"none", "pending", "sent", "dropped"}
    /\ request \in [Requests -> {"new", "waiting", "answered", "failed", "gone"}]

(* While the swarm awaits the answer to a sync request, exactly one place   *)
(* holds the oneshot's sender: the request is in the event channel or in    *)
(* the controller's hands.  It never awaits a sender that was dropped with  *)
(* the controller.  (p2p.rs, make_sync_response_query.)                     *)
SyncRequests == {i \in DOMAIN evQ : evQ[i].type = "syncRequest"}
SyncReplyHeld ==
    /\ (swm.at = "awaiting") <=> (reply # "none")
    /\ Cardinality(SyncRequests) + (IF ctl.job.type = "syncRequest" THEN 1 ELSE 0)
          = IF reply = "pending" THEN 1 ELSE 0

(* A client that waits has its oneshot in exactly one place: no handler,    *)
(* failed send or dying task loses it without answering or failing the      *)
(* client, and none answers it twice.  (controller.rs, handle_command.)     *)
Holders(r) ==
    {<<"ext", i>> : i \in {i \in DOMAIN extQ : extQ[i].req = r}}
    \cup {<<"cmd", i>> : i \in {i \in DOMAIN cmdQ : cmdQ[i].req = r}}
    \cup (IF ctl.job.req = r THEN {<<"ctl", 1>>} ELSE {})
RequestHeld == \A r \in Requests :
    IF request[r] = "waiting" THEN Cardinality(Holders(r)) = 1
    ELSE request[r] # "gone" => Holders(r) = {}

(***************************************************************************)
(* The controller waits for room in the command channel, which only the    *)
(* swarm makes, while the swarm waits for the controller.                  *)
(***************************************************************************)
CyclicWait ==
    /\ ctl.at = "sending" /\ Len(cmdQ) = CommandCap
    /\ \/ swm.at = "sending" /\ Len(evQ) = EventCap
       \/ swm.at = "awaiting" /\ reply = "pending"

(* The swarm's loop and the controller's loop always come back for the next *)
(* message, or one of the tasks is gone, or they wait for each other with   *)
(* the command channel full: there is no other way for a node to stop.      *)
(* (p2p.rs and controller.rs, run_loop.)                                    *)
LoopsReturnOrCycle ==
    /\ (swm.at # "idle") ~> (swm.at \in {"idle", "dead"} \/ CyclicWait)
    /\ (ctl.at # "idle") ~> (ctl.at \in {"idle", "dead"} \/ CyclicWait)

(* A client that waits is answered or fails, unless the two tasks wait for  *)
(* each other.  (controller.rs, ControllerInterface.)                       *)
RequestEnds == \A r \in Requests :
    (request[r] = "waiting") ~> (request[r] # "waiting" \/ CyclicWait)

(* The swarm's loop always comes back for the next message.  (p2p.rs:249:   *)
(* "Core run loop for the swarm controller, should run forever".)           *)
SwarmLoopRuns == (swm.at # "idle") ~> (swm.at = "idle")
=============================================================================
