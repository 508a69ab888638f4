----------------------------- MODULE LoopProofs -----------------------------
(***************************************************************************)
(* What the two tasks of a node hold, for any number of requests, any      *)
(* capacities of the three channels and any of the faults.                 *)
(***************************************************************************)
EXTENDS NodeLoops, FiniteSetTheorems, TLAPS

(* What the controller takes up only needs its own work, or its channel. *)
ToDo == {"query", "broadcast"} \cup Events

(***************************************************************************)
(* TypeOK, one part for each task, for the channels and for the oneshots,  *)
(* with what a task has in its hands at each point.                        *)
(***************************************************************************)
CtlOK ==
    /\ ctl \in [at: {"idle", "working", "sending", "dead"},
                job: Message(ExtTypes \cup Events) \cup {NoJob}]
    /\ ctl.at = "sending" => ctl.job \in Message(ToSwarm)
    /\ ctl.at = "working" => ctl.job \in Message(ToDo)
    /\ ctl.at \in {"idle", "dead"} => ctl.job = NoJob

SwmOK ==
    /\ swm \in [at: {"start", "idle", "sending", "awaiting", "dead"},
                job: Message(Events) \cup {NoJob}]
    /\ swm.at = "sending" => swm.job \in Message(Events)

ChannelsOK ==
    /\ extQ \in Seq(Message(ExtTypes)) /\ Len(extQ) <= ExtCap
    /\ cmdQ \in Seq(Message(ToSwarm)) /\ Len(cmdQ) <= CommandCap
    /\ evQ \in Seq(Message(Events)) /\ Len(evQ) <= EventCap

States == {"new", "waiting", "answered", "failed", "gone"}

OneshotsOK ==
    /\ reply \in {"none", "pending", "sent", "dropped"}
    /\ request \in [Requests -> States]

TypeInv == CtlOK /\ SwmOK /\ ChannelsOK /\ OneshotsOK

LEMMA TypeInvImplies == TypeInv => TypeOK
BY DEF TypeInv, CtlOK, SwmOK, ChannelsOK, OneshotsOK, States, TypeOK

-----------------------------------------------------------------------------
(* The shapes a task may take. *)
LEMMA CtlShapes ==
    /\ ctl' = Idle \/ ctl' = Dead => CtlOK'
    /\ \A job \in Message(ToSwarm) : ctl' = Doing("sending", job) => CtlOK'
    /\ \A job \in Message(ToDo) : ctl' = Doing("working", job) => CtlOK'
<1>1. CASE ctl' = Idle \/ ctl' = Dead
    BY <1>1 DEF CtlOK, Idle, Dead
<1>2. ASSUME NEW job \in Message(ToSwarm), ctl' = Doing("sending", job)
      PROVE  CtlOK'
  <2>1. job \in Message(ExtTypes \cup Events)
      BY DEF Message, ToSwarm
  <2>2. ctl' = [at |-> "sending", job |-> job]
      BY <1>2 DEF Doing
  <2>3. ctl'.at = "sending" /\ ctl'.job = job
      BY <2>2
  <2> QED
      BY <2>1, <2>2, <2>3 DEF CtlOK
<1>3. ASSUME NEW job \in Message(ToDo), ctl' = Doing("working", job)
      PROVE  CtlOK'
  <2>1. job \in Message(ExtTypes \cup Events)
      BY DEF Message, ToDo, ExtTypes, Answered
  <2>2. ctl' = [at |-> "working", job |-> job]
      BY <1>3 DEF Doing
  <2>3. ctl'.at = "working" /\ ctl'.job = job
      BY <2>2
  <2> QED
      BY <2>1, <2>2, <2>3 DEF CtlOK
<1> QED
    BY <1>1, <1>2, <1>3

LEMMA SwmShapes ==
    /\ swm' = Idle \/ swm' = Dead => SwmOK'
    /\ \A job \in Message(Events) :
          swm' = Doing("sending", job) \/ swm' = Doing("awaiting", job) => SwmOK'
<1>1. CASE swm' = Idle \/ swm' = Dead
    BY <1>1 DEF SwmOK, Idle, Dead
<1>2. ASSUME NEW job \in Message(Events),
             swm' = Doing("sending", job) \/ swm' = Doing("awaiting", job)
      PROVE  SwmOK'
  <2>1. PICK at \in {"sending", "awaiting"} : swm' = [at |-> at, job |-> job]
      BY <1>2 DEF Doing
  <2>2. swm'.at = at /\ swm'.job = job
      BY <2>1
  <2> QED
      BY <2>1, <2>2 DEF SwmOK
<1> QED
    BY <1>1, <1>2

(* A channel takes a message while it has room, and gives its first one. *)
LEMMA ChannelOps ==
    ASSUME NEW S, NEW q \in Seq(S), NEW cap \in Nat, Len(q) <= cap
    PROVE  /\ \A m \in S : Len(q) < cap => Append(q, m) \in Seq(S) /\ Len(Append(q, m)) <= cap
           /\ q # <<>> => Head(q) \in S /\ Tail(q) \in Seq(S) /\ Len(Tail(q)) <= cap
           /\ <<>> \in Seq(S) /\ Len(<<>>) <= cap
OBVIOUS

LEMMA Caps ==
    ASSUME ChannelsOK
    PROVE  /\ extQ \in Seq(Message(ExtTypes)) /\ Len(extQ) <= ExtCap /\ ExtCap \in Nat
           /\ cmdQ \in Seq(Message(ToSwarm)) /\ Len(cmdQ) <= CommandCap /\ CommandCap \in Nat
           /\ evQ \in Seq(Message(Events)) /\ Len(evQ) <= EventCap /\ EventCap \in Nat
BY CapAssumption DEF ChannelsOK

LEMMA ExtChanges ==
    ASSUME ChannelsOK, UNCHANGED <<cmdQ, evQ>>,
           \/ extQ # <<>> /\ extQ' = Tail(extQ)
           \/ \E m \in Message(ExtTypes) : Len(extQ) < ExtCap /\ extQ' = Append(extQ, m)
    PROVE  ChannelsOK'
BY Caps, ChannelOps DEF ChannelsOK

LEMMA CmdChanges ==
    ASSUME ChannelsOK, UNCHANGED <<extQ, evQ>>,
           \/ cmdQ' = <<>>
           \/ cmdQ # <<>> /\ cmdQ' = Tail(cmdQ)
           \/ \E m \in Message(ToSwarm) : Len(cmdQ) < CommandCap /\ cmdQ' = Append(cmdQ, m)
    PROVE  ChannelsOK'
BY Caps, ChannelOps DEF ChannelsOK

LEMMA EvChanges ==
    ASSUME ChannelsOK, UNCHANGED <<extQ, cmdQ>>,
           \/ evQ # <<>> /\ evQ' = Tail(evQ)
           \/ \E m \in Message(Events) : Len(evQ) < EventCap /\ evQ' = Append(evQ, m)
    PROVE  ChannelsOK'
BY Caps, ChannelOps DEF ChannelsOK

LEMMA BothEmptied ==
    ASSUME ChannelsOK, UNCHANGED cmdQ, extQ' = <<>>, evQ' = <<>>
    PROVE  ChannelsOK'
BY Caps, ChannelOps DEF ChannelsOK

(* Answering and dropping keep a request in one of its states. *)
LEMMA RequestStates ==
    ASSUME OneshotsOK, reply' \in {"none", "pending", "sent", "dropped"},
           \/ request' = request
           \/ \E req : request' = Answer(req)
           \/ \E reqs : request' = Drop(reqs)
    PROVE  OneshotsOK'
BY DEF OneshotsOK, Answer, Drop, States

LEMMA Untouched ==
    /\ CtlOK /\ UNCHANGED ctl => CtlOK'
    /\ SwmOK /\ UNCHANGED swm => SwmOK'
    /\ ChannelsOK /\ UNCHANGED <<extQ, cmdQ, evQ>> => ChannelsOK'
    /\ OneshotsOK /\ UNCHANGED <<reply, request>> => OneshotsOK'
BY DEF CtlOK, SwmOK, ChannelsOK, OneshotsOK

-----------------------------------------------------------------------------
LEMMA ClientType ==
    ASSUME TypeInv, NEW r \in Requests,
           GiveUp(r) \/ \E type \in ExtTypes : Issue(r, type)
    PROVE  TypeInv'
<1>1. CASE GiveUp(r)
  <2>1. OneshotsOK'
      BY <1>1 DEF TypeInv, OneshotsOK, GiveUp, States
  <2> QED
      BY <1>1, <2>1, Untouched DEF TypeInv, GiveUp
<1>2. ASSUME NEW type \in ExtTypes, Issue(r, type)
      PROVE  TypeInv'
  <2> DEFINE m == [type |-> type, req |-> IF type \in Answered THEN r ELSE NoRequest]
  <2>1. m \in Message(ExtTypes)
      BY DEF Message
  <2>2. CASE ctl.at = "dead"
    <3>1. OneshotsOK'
        BY <1>2, <2>2 DEF TypeInv, OneshotsOK, Issue, States
    <3> QED
        BY <1>2, <2>2, <3>1, Untouched DEF TypeInv, Issue
  <2>3. CASE ctl.at # "dead"
    <3>1. OneshotsOK'
        BY <1>2, <2>3 DEF TypeInv, OneshotsOK, Issue, States
    <3>2. Len(extQ) < ExtCap /\ extQ' = Append(extQ, m)
        BY <1>2, <2>3 DEF Issue
    <3>3. UNCHANGED <<cmdQ, evQ, ctl, swm>>
        BY <1>2 DEF Issue
    <3> HIDE DEF m
    <3>4. ChannelsOK'
        BY <2>1, <3>2, <3>3, ExtChanges DEF TypeInv
    <3> QED
        BY <3>1, <3>3, <3>4, Untouched DEF TypeInv
  <2> QED
      BY <2>2, <2>3
<1> QED
    BY <1>1, <1>2

(* A controller that ends drops what it holds. *)
LEMMA DeathType ==
    ASSUME TypeInv, ControllerDies
    PROVE  TypeInv'
<1>1. OneshotsOK'
    BY RequestStates DEF TypeInv, ControllerDies, OneshotsOK
<1> QED
    BY <1>1, CtlShapes, BothEmptied, Untouched DEF TypeInv, ControllerDies

LEMMA TakeType ==
    ASSUME TypeInv, TakeCommand \/ TakeEvent \/ SyncTick
    PROVE  TypeInv'
<1>1. CASE TakeCommand
  <2> DEFINE m == Head(extQ)
  <2>1. m \in Message(ExtTypes) /\ m.type \in ExtTypes
    <3>1. m \in Message(ExtTypes)
        BY <1>1, Caps, ChannelOps DEF TypeInv, TakeCommand
    <3> QED
        BY <3>1 DEF Message
  <2>2. CtlOK'
    <3>1. CASE m.type \in {"query", "broadcast"}
      <4>1. m \in Message(ToDo)
          BY <2>1, <3>1 DEF Message, ToDo
      <4> QED
          BY <1>1, <3>1, <4>1, CtlShapes DEF TakeCommand
    <3>2. CASE m.type \notin {"query", "broadcast"}
      <4>1. m \in Message(ToSwarm)
          BY <2>1, <3>2 DEF Message, ToSwarm
      <4> QED
          BY <1>1, <3>2, <4>1, CtlShapes DEF TakeCommand
    <3> QED
        BY <3>1, <3>2
  <2>3. ChannelsOK'
      BY <1>1, ExtChanges DEF TypeInv, TakeCommand
  <2> QED
      BY <1>1, <2>2, <2>3, Untouched DEF TypeInv, TakeCommand
<1>2. CASE TakeEvent
  <2>1. Head(evQ) \in Message(Events)
      BY <1>2, Caps, ChannelOps DEF TypeInv, TakeEvent
  <2>2. Head(evQ) \in Message(ToDo)
      BY <2>1 DEF Message, ToDo
  <2>3. CtlOK' /\ ChannelsOK'
      BY <1>2, <2>2, CtlShapes, EvChanges DEF TypeInv, TakeEvent
  <2> QED
      BY <1>2, <2>3, Untouched DEF TypeInv, TakeEvent
<1>3. CASE SyncTick
  <2>1. Event("sync") \in Message(ToSwarm)
      BY DEF Event, Message, ToSwarm, ExtTypes
  <2> QED
      BY <1>3, <2>1, CtlShapes, Untouched DEF TypeInv, SyncTick
<1> QED
    BY <1>1, <1>2, <1>3

LEMMA WorkType ==
    ASSUME TypeInv, Work
    PROVE  TypeInv'
<1>1. OneshotsOK'
  <2>1. reply' \in {"none", "pending", "sent", "dropped"}
      BY DEF TypeInv, OneshotsOK, Work
  <2>2. request' = request \/ request' = Answer(ctl.job.req)
      BY DEF Work
  <2> QED
      BY <2>1, <2>2, RequestStates DEF TypeInv
<1>2. CtlOK'
  <2>1. CASE ctl' = Idle
      BY <2>1, CtlShapes
  <2>2. CASE ctl' = Doing("sending", ctl.job) /\ ctl.job.type = "broadcast"
    <3>1. ctl.job \in Message(ToDo)
        BY DEF TypeInv, CtlOK, Work
    <3>2. ctl.job \in Message(ToSwarm)
        BY <2>2, <3>1 DEF Message, ToSwarm, ExtTypes, Answered
    <3> QED
        BY <2>2, <3>2, CtlShapes
  <2> QED
      BY <2>1, <2>2 DEF Work
<1> QED
    BY <1>1, <1>2, Untouched DEF TypeInv, Work

LEMMA SendType ==
    ASSUME TypeInv, Send \/ SendFails
    PROVE  TypeInv'
<1>1. ctl.job \in Message(ToSwarm)
    BY DEF TypeInv, CtlOK, Send, SendFails
<1>2. CASE Send
  <2> DEFINE m == [ctl.job EXCEPT !.req = IF ctl.job.type = "ask" THEN @ ELSE NoRequest]
  <2>1. m \in Message(ToSwarm)
      BY <1>1 DEF Message
  <2>2. Len(cmdQ) < CommandCap /\ cmdQ' = Append(cmdQ, m)
      BY <1>2 DEF Send
  <2> HIDE DEF m
  <2>3. ChannelsOK'
      BY <1>2, <2>1, <2>2, CmdChanges DEF TypeInv, Send
  <2>4. request' = request \/ request' = Answer(ctl.job.req)
      BY <1>2 DEF Send
  <2>5. OneshotsOK'
      BY <1>2, <2>4, RequestStates DEF TypeInv, Send, OneshotsOK
  <2> QED
      BY <1>2, <2>3, <2>5, CtlShapes, Untouched DEF TypeInv, Send
<1>3. CASE SendFails
  <2>1. CASE ctl.job.type = "sync"
      BY <1>3, <2>1, DeathType DEF SendFails
  <2>2. CASE ctl.job.type # "sync"
    <3>1. request' = Answer(ctl.job.req) \/ request' = Drop({ctl.job.req})
        BY <1>3, <2>2 DEF SendFails
    <3>2. UNCHANGED <<extQ, cmdQ, evQ, swm, reply>> /\ ctl' = Idle
        BY <1>3, <2>2 DEF SendFails
    <3>3. OneshotsOK'
        BY <3>1, <3>2, RequestStates DEF TypeInv, OneshotsOK
    <3> QED
        BY <3>2, <3>3, CtlShapes, Untouched DEF TypeInv
  <2> QED
      BY <2>1, <2>2
<1> QED
    BY <1>2, <1>3

LEMMA SwarmType ==
    ASSUME TypeInv,
           SwarmStep \/ HandleCommand \/ \E type \in Events : NetworkEvent(type)
    PROVE  TypeInv'
<1>1. CASE SwarmStarts \/ SendEventFails
    BY <1>1, SwmShapes, Untouched DEF TypeInv, SwarmStarts, SendEventFails
<1>2. CASE SwarmFails
  <2>1. OneshotsOK'
      BY <1>2, RequestStates DEF TypeInv, OneshotsOK, SwarmFails
  <2>2. ChannelsOK'
      BY <1>2, CmdChanges DEF TypeInv, SwarmFails
  <2> QED
      BY <1>2, <2>1, <2>2, SwmShapes, Untouched DEF TypeInv, SwarmFails
<1>3. CASE HandleCommand
  <2>1. OneshotsOK'
      BY <1>3, RequestStates DEF TypeInv, OneshotsOK, HandleCommand
  <2>2. ChannelsOK'
      BY <1>3, CmdChanges DEF TypeInv, HandleCommand
  <2> QED
      BY <1>3, <2>1, <2>2, Untouched DEF TypeInv, HandleCommand
<1>4. ASSUME NEW type \in Events, NetworkEvent(type)
      PROVE  TypeInv'
  <2>1. Event(type) \in Message(Events)
      BY DEF Event, Message
  <2> QED
      BY <1>4, <2>1, SwmShapes, Untouched DEF TypeInv, NetworkEvent
<1>5. CASE SendEvent
  <2>1. swm.job \in Message(Events)
      BY <1>5 DEF TypeInv, SwmOK, SendEvent
  <2>2. ChannelsOK'
      BY <1>5, <2>1, EvChanges DEF TypeInv, SendEvent
  <2>3. SwmOK'
      BY <1>5, <2>1, SwmShapes DEF SendEvent
  <2>4. OneshotsOK'
      BY <1>5 DEF TypeInv, OneshotsOK, SendEvent
  <2> QED
      BY <1>5, <2>2, <2>3, <2>4, Untouched DEF TypeInv, SendEvent
<1>6. CASE ReplyArrives
  <2>1. OneshotsOK'
      BY <1>6 DEF TypeInv, OneshotsOK, ReplyArrives
  <2> QED
      BY <1>6, <2>1, SwmShapes, Untouched DEF TypeInv, ReplyArrives
<1> QED
    BY <1>1, <1>2, <1>3, <1>4, <1>5, <1>6 DEF SwarmStep

LEMMA TypeStep ==
    ASSUME TypeInv, [Next]_vars
    PROVE  TypeInv'
<1>1. CASE ClaimPanics
    BY <1>1, DeathType DEF ClaimPanics
<1>2. CASE UNCHANGED vars
    BY <1>2, Untouched DEF TypeInv, vars
<1> QED
    BY <1>1, <1>2, ClientType, TakeType, WorkType, SendType, SwarmType DEF Next, ControllerStep

LEMMA TypeInit == Init => TypeInv
<1> SUFFICES ASSUME Init PROVE TypeInv
    OBVIOUS
<1>1. CtlOK
    BY DEF Init, CtlOK, Idle
<1>2. SwmOK
    BY DEF Init, SwmOK, Doing
<1>3. ChannelsOK
    BY CapAssumption DEF Init, ChannelsOK
<1>4. OneshotsOK
    BY DEF Init, OneshotsOK, States
<1> QED
    BY <1>1, <1>2, <1>3, <1>4 DEF TypeInv

LEMMA TypeInvariant == Spec => []TypeInv
BY TypeInit, TypeStep, PTL DEF Spec

(* For any capacities: no channel holds more than it can, and each task has *)
(* in its hands what it can handle there.                                   *)
THEOREM LoopsTypeCorrect == Spec => []TypeOK
BY TypeInvariant, TypeInvImplies, PTL

-----------------------------------------------------------------------------
(***************************************************************************)
(* Where messages of a set M are in a channel: nowhere, or in one place.   *)
(***************************************************************************)
NoneIn(q, M) == \A i \in DOMAIN q : q[i] \notin M
OnceIn(q, M) == \E i \in DOMAIN q : q[i] \in M /\ \A j \in DOMAIN q : q[j] \in M => j = i

LEMMA TailPlaces ==
    ASSUME NEW S, NEW q \in Seq(S), q # <<>>, NEW M
    PROVE  /\ NoneIn(q, M) => NoneIn(Tail(q), M) /\ Head(q) \notin M
           /\ OnceIn(q, M) => IF Head(q) \in M THEN NoneIn(Tail(q), M) ELSE OnceIn(Tail(q), M)
<1>1. /\ Len(q) \in Nat \ {0} /\ DOMAIN q = 1..Len(q) /\ Head(q) = q[1]
      /\ DOMAIN Tail(q) = 1..(Len(q) - 1)
      /\ \A i \in 1..(Len(q) - 1) : Tail(q)[i] = q[i + 1]
    OBVIOUS
<1>2. ASSUME NoneIn(q, M)
      PROVE  NoneIn(Tail(q), M) /\ Head(q) \notin M
    BY <1>1, <1>2 DEF NoneIn
<1>3. ASSUME OnceIn(q, M), Head(q) \in M
      PROVE  NoneIn(Tail(q), M)
    BY <1>1, <1>3 DEF NoneIn, OnceIn
<1>4. ASSUME OnceIn(q, M), Head(q) \notin M
      PROVE  OnceIn(Tail(q), M)
  <2>1. PICK i \in 1..Len(q) : q[i] \in M /\ \A j \in 1..Len(q) : q[j] \in M => j = i
      BY <1>1, <1>4 DEF OnceIn
  <2>2. i # 1 /\ i - 1 \in 1..(Len(q) - 1) /\ Tail(q)[i - 1] = q[i]
      BY <1>1, <1>4, <2>1
  <2>3. ASSUME NEW j \in 1..(Len(q) - 1), Tail(q)[j] \in M
        PROVE  j = i - 1
      BY <1>1, <2>1, <2>3
  <2> QED
      BY <1>1, <2>1, <2>2, <2>3 DEF OnceIn
<1> QED
    BY <1>2, <1>3, <1>4

LEMMA AppendPlaces ==
    ASSUME NEW S, NEW q \in Seq(S), NEW m \in S, NEW M
    PROVE  /\ NoneIn(q, M) => IF m \in M THEN OnceIn(Append(q, m), M)
                                         ELSE NoneIn(Append(q, m), M)
           /\ OnceIn(q, M) /\ m \notin M => OnceIn(Append(q, m), M)
<1>1. /\ Len(q) \in Nat /\ DOMAIN q = 1..Len(q)
      /\ DOMAIN Append(q, m) = 1..(Len(q) + 1)
      /\ \A i \in 1..Len(q) : Append(q, m)[i] = q[i]
      /\ Append(q, m)[Len(q) + 1] = m
    OBVIOUS
<1>2. ASSUME NoneIn(q, M), m \notin M
      PROVE  NoneIn(Append(q, m), M)
    BY <1>1, <1>2 DEF NoneIn
<1>3. ASSUME NoneIn(q, M), m \in M
      PROVE  OnceIn(Append(q, m), M)
  <2>1. \A j \in 1..(Len(q) + 1) : Append(q, m)[j] \in M => j = Len(q) + 1
      BY <1>1, <1>3 DEF NoneIn
  <2> QED
      BY <1>1, <1>3, <2>1 DEF OnceIn
<1>4. ASSUME OnceIn(q, M), m \notin M
      PROVE  OnceIn(Append(q, m), M)
  <2>1. PICK i \in 1..Len(q) : q[i] \in M /\ \A j \in 1..Len(q) : q[j] \in M => j = i
      BY <1>1, <1>4 DEF OnceIn
  <2>2. \A j \in 1..(Len(q) + 1) : Append(q, m)[j] \in M => j = i
      BY <1>1, <1>4, <2>1
  <2> QED
      BY <1>1, <2>1, <2>2 DEF OnceIn
<1> QED
    BY <1>2, <1>3, <1>4

LEMMA EmptyPlaces == \A M : NoneIn(<<>>, M)
BY DEF NoneIn

-----------------------------------------------------------------------------
(***************************************************************************)
(* The oneshot of a sync request, in places instead of numbers.            *)
(***************************************************************************)
Syncs == [type: {"syncRequest"}, req: Requests \cup {NoRequest}]

SyncPlaced ==
    CASE reply = "pending" /\ ctl.job \in Syncs -> NoneIn(evQ, Syncs)
      [] reply = "pending" /\ ctl.job \notin Syncs -> OnceIn(evQ, Syncs)
      [] reply # "pending" -> NoneIn(evQ, Syncs) /\ ctl.job \notin Syncs

SyncInv == ((swm.at = "awaiting") <=> (reply # "none")) /\ SyncPlaced

(* What is not an event is not a sync request. *)
LEMMA NotSyncs ==
    /\ NoJob \notin Syncs /\ Event("sync") \notin Syncs
    /\ \A m \in Message(ExtTypes) : m \notin Syncs
    /\ Message(ToSwarm) \subseteq Message(ExtTypes)
    /\ \A m \in Message(ExtTypes \cup Events) : m \in Syncs <=> m.type = "syncRequest"
BY DEF NoJob, Syncs, Event, Message, ExtTypes, Answered, ToSwarm, Events

(* Steps that leave the oneshot, the event channel and the swarm alone, and *)
(* put something else into the controller's hands than a sync request.      *)
LEMMA SyncElsewhere ==
    ASSUME SyncInv, UNCHANGED <<evQ, reply>>,
           (swm'.at = "awaiting") <=> (swm.at = "awaiting"),
           ctl.job \notin Syncs, ctl'.job \notin Syncs
    PROVE  SyncInv'
BY DEF SyncInv, SyncPlaced

LEMMA SyncDeath ==
    ASSUME SyncInv, ControllerDies
    PROVE  SyncInv'
<1>1. ctl'.job \notin Syncs /\ evQ' = <<>> /\ swm' = swm
    BY NotSyncs DEF ControllerDies, Dead
<1>2. reply' # "pending" /\ (reply' = "none" <=> reply = "none")
    BY DEF ControllerDies
<1> QED
    BY <1>1, <1>2, EmptyPlaces DEF SyncInv, SyncPlaced

LEMMA SyncController ==
    ASSUME TypeInv, SyncInv, TakeCommand \/ TakeEvent \/ SyncTick \/ ControllerStep
    PROVE  SyncInv'
<1>1. CASE TakeCommand
  <2>1. ctl.job = NoJob /\ ctl'.job = Head(extQ)
      BY <1>1 DEF TypeInv, CtlOK, TakeCommand, Doing
  <2>2. Head(extQ) \notin Syncs
      BY <1>1, Caps, ChannelOps, NotSyncs DEF TypeInv, TakeCommand
  <2> QED
      BY <1>1, <2>1, <2>2, SyncElsewhere, NotSyncs DEF TakeCommand
<1>2. CASE TakeEvent
  <2>1. ctl.job \notin Syncs /\ ctl'.job = Head(evQ) /\ evQ # <<>> /\ evQ' = Tail(evQ)
        /\ UNCHANGED <<swm, reply>>
      BY <1>2, NotSyncs DEF TypeInv, CtlOK, TakeEvent, Doing
  <2>2. evQ \in Seq(Message(Events))
      BY DEF TypeInv, ChannelsOK
  <2>3. /\ NoneIn(evQ, Syncs) => NoneIn(evQ', Syncs) /\ ctl'.job \notin Syncs
        /\ OnceIn(evQ, Syncs) => IF ctl'.job \in Syncs THEN NoneIn(evQ', Syncs)
                                                       ELSE OnceIn(evQ', Syncs)
      BY <2>1, <2>2, TailPlaces
  <2> QED
      BY <2>1, <2>3 DEF SyncInv, SyncPlaced
<1>3. CASE SyncTick
  <2>1. ctl.job = NoJob /\ ctl'.job = Event("sync")
      BY <1>3 DEF TypeInv, CtlOK, SyncTick, Doing
  <2> QED
      BY <1>3, <2>1, SyncElsewhere, NotSyncs DEF SyncTick
<1>4. CASE Work
  <2>1. ctl.job \in Message(ExtTypes \cup Events)
      BY <1>4 DEF TypeInv, CtlOK, Work, Message, ToDo, ExtTypes, Answered
  <2>2. CASE ctl.job.type = "syncRequest"
    <3>1. ctl.job \in Syncs
        BY <2>1, <2>2, NotSyncs
    <3>2. reply' = "sent" /\ ctl' = Idle /\ UNCHANGED <<evQ, swm>>
        BY <1>4, <2>2 DEF Work, Events
    <3>3. reply = "pending" /\ NoneIn(evQ, Syncs)
        BY <3>1 DEF SyncInv, SyncPlaced
    <3> QED
        BY <3>2, <3>3, NotSyncs DEF SyncInv, SyncPlaced, Idle
  <2>3. CASE ctl.job.type # "syncRequest"
    <3>1. ctl.job \notin Syncs /\ UNCHANGED <<evQ, swm, reply>>
        BY <1>4, <2>1, <2>3, NotSyncs DEF Work
    <3>2. ctl'.job = ctl.job \/ ctl'.job = NoJob
        BY <1>4 DEF Work, Doing, Idle
    <3> QED
        BY <3>1, <3>2, SyncElsewhere, NotSyncs
  <2> QED
      BY <2>2, <2>3
<1>5. CASE ClaimPanics
    BY <1>5, SyncDeath DEF ClaimPanics
<1>6. CASE Send \/ SendFails
  <2>1. CASE ControllerDies
      BY <2>1, SyncDeath
  <2>2. CASE ctl' = Idle /\ UNCHANGED <<evQ, swm, reply>>
    <3>1. ctl.job \notin Syncs
        BY <1>6, NotSyncs DEF TypeInv, CtlOK, Send, SendFails
    <3> QED
        BY <2>2, <3>1, SyncElsewhere, NotSyncs DEF Idle
  <2> QED
      BY <1>6, <2>1, <2>2 DEF Send, SendFails
<1> QED
    BY <1>1, <1>2, <1>3, <1>4, <1>5, <1>6 DEF ControllerStep

LEMMA SyncSwarm ==
    ASSUME TypeInv, SyncInv, SwarmStep \/ HandleCommand \/ \E type \in Events : NetworkEvent(type)
    PROVE  SyncInv'
<1>1. CASE SendEvent
  <2>1. swm.job \in Message(Events) /\ evQ' = Append(evQ, swm.job) /\ ctl' = ctl
      BY <1>1 DEF TypeInv, SwmOK, SendEvent
  <2>2. reply = "none" /\ NoneIn(evQ, Syncs) /\ ctl.job \notin Syncs
      BY <1>1 DEF SyncInv, SyncPlaced, SendEvent
  <2>3. IF swm.job \in Syncs THEN OnceIn(evQ', Syncs) ELSE NoneIn(evQ', Syncs)
      BY <2>1, <2>2, AppendPlaces DEF TypeInv, ChannelsOK
  <2>4. swm.job \in Syncs <=> swm.job.type = "syncRequest"
      BY <2>1 DEF Syncs, Message
  <2>5. CASE swm.job.type = "syncRequest"
    <3>1. swm'.at = "awaiting" /\ reply' = "pending"
        BY <1>1, <2>5 DEF SendEvent, Doing
    <3> QED
        BY <2>1, <2>2, <2>3, <2>4, <2>5, <3>1 DEF SyncInv, SyncPlaced
  <2>6. CASE swm.job.type # "syncRequest"
    <3>1. swm'.at = "idle" /\ reply' = reply
        BY <1>1, <2>6 DEF SendEvent, Idle
    <3> QED
        BY <2>1, <2>2, <2>3, <2>4, <2>6, <3>1 DEF SyncInv, SyncPlaced
  <2> QED
      BY <2>5, <2>6
<1>2. CASE ReplyArrives
  <2>1. swm'.at = "idle" /\ reply' = "none" /\ reply # "pending" /\ UNCHANGED <<evQ, ctl>>
      BY <1>2 DEF ReplyArrives, Idle
  <2> QED
      BY <2>1 DEF SyncInv, SyncPlaced
<1>3. CASE /\ UNCHANGED <<evQ, reply, ctl>>
           /\ (swm'.at = "awaiting") <=> (swm.at = "awaiting")
    BY <1>3 DEF SyncInv, SyncPlaced
<1>4. ASSUME SwarmStarts \/ SwarmFails \/ SendEventFails \/ HandleCommand
             \/ \E type \in Events : NetworkEvent(type)
      PROVE  /\ UNCHANGED <<evQ, reply, ctl>>
             /\ (swm'.at = "awaiting") <=> (swm.at = "awaiting")
    BY <1>4 DEF SwarmStarts, SwarmFails, SendEventFails, HandleCommand, NetworkEvent,
                Idle, Dead, Doing
<1> QED
    BY <1>1, <1>2, <1>3, <1>4 DEF SwarmStep

LEMMA SyncStep ==
    ASSUME TypeInv, SyncInv, [Next]_vars
    PROVE  SyncInv'
<1>1. CASE UNCHANGED vars
    BY <1>1 DEF vars, SyncInv, SyncPlaced
<1>2. CASE \E r \in Requests : GiveUp(r) \/ \E type \in ExtTypes : Issue(r, type)
    BY <1>2 DEF GiveUp, Issue, SyncInv, SyncPlaced
<1> QED
    BY <1>1, <1>2, SyncController, SyncSwarm DEF Next

LEMMA SyncInit == Init => SyncInv
BY NotSyncs, EmptyPlaces DEF Init, SyncInv, SyncPlaced, Idle, Doing

(* One place is one element, no place is none. *)
LEMMA SyncCounted ==
    ASSUME TypeInv, SyncInv
    PROVE  SyncReplyHeld
<1>1. SyncRequests = {i \in DOMAIN evQ : evQ[i] \in Syncs}
  <2>1. \A i \in DOMAIN evQ : evQ[i] \in Message(Events)
      BY DEF TypeInv, ChannelsOK
  <2>2. \A m \in Message(Events) : m \in Syncs <=> m.type = "syncRequest"
      BY DEF Message, Syncs
  <2> QED
      BY <2>1, <2>2 DEF SyncRequests
<1>2. NoneIn(evQ, Syncs) => Cardinality(SyncRequests) = 0
  <2>1. NoneIn(evQ, Syncs) => SyncRequests = {}
      BY <1>1 DEF NoneIn
  <2> QED
      BY <2>1, FS_EmptySet
<1>3. OnceIn(evQ, Syncs) => Cardinality(SyncRequests) = 1
  <2>1. OnceIn(evQ, Syncs) => \E i : SyncRequests = {i}
      BY <1>1 DEF OnceIn
  <2> QED
      BY <2>1, FS_Singleton
<1>4. ctl.job \in Syncs <=> ctl.job.type = "syncRequest"
    BY NotSyncs DEF TypeInv, CtlOK, NoJob
<1> DEFINE places == Cardinality(SyncRequests)
           held == IF ctl.job.type = "syncRequest" THEN 1 ELSE 0
<1>5. places + held = IF reply = "pending" THEN 1 ELSE 0
  <2>1. CASE reply = "pending" /\ ctl.job \in Syncs
      BY <1>2, <1>4, <2>1 DEF SyncInv, SyncPlaced
  <2>2. CASE reply = "pending" /\ ctl.job \notin Syncs
      BY <1>3, <1>4, <2>2 DEF SyncInv, SyncPlaced
  <2>3. CASE reply # "pending"
      BY <1>2, <1>4, <2>3 DEF SyncInv, SyncPlaced
  <2> QED
      BY <2>1, <2>2, <2>3
<1> QED
    BY <1>5 DEF SyncReplyHeld, SyncInv

(* Whatever is queued, fails or dies: while the swarm awaits the answer to  *)
(* a sync request there is one place it can come from.  (p2p.rs,            *)
(* make_sync_response_query.)                                               *)
THEOREM SyncReplyAlwaysHeld == Spec => []SyncReplyHeld
<1>1. TypeInv /\ SyncInv /\ [Next]_vars => SyncInv'
    BY SyncStep
<1>2. TypeInv /\ SyncInv => SyncReplyHeld
    BY SyncCounted
<1> QED
    BY SyncInit, <1>1, <1>2, TypeInvariant, PTL DEF Spec

-----------------------------------------------------------------------------
(***************************************************************************)
(* The oneshots of clients.  Only commands that are answered carry one.    *)
(***************************************************************************)
Carriers(q) == \A i \in DOMAIN q : q[i].type \notin Answered => q[i].req = NoRequest

CarryInv ==
    /\ Carriers(extQ)
    /\ ctl.job.type \notin Answered => ctl.job.req = NoRequest
    /\ \A i \in DOMAIN evQ : evQ[i].req = NoRequest
    /\ swm.job.req = NoRequest

Of(r) == [type: ExtTypes \cup Events, req: {r}]

(* Exactly one of the two channels and the controller's hands has it. *)
HeldOnce(r) ==
    \/ OnceIn(extQ, Of(r)) /\ NoneIn(cmdQ, Of(r)) /\ ctl.job \notin Of(r)
    \/ NoneIn(extQ, Of(r)) /\ OnceIn(cmdQ, Of(r)) /\ ctl.job \notin Of(r)
    \/ NoneIn(extQ, Of(r)) /\ NoneIn(cmdQ, Of(r)) /\ ctl.job \in Of(r)
HeldNever(r) == NoneIn(extQ, Of(r)) /\ NoneIn(cmdQ, Of(r)) /\ ctl.job \notin Of(r)

HeldRight(r) ==
    /\ request[r] = "waiting" => HeldOnce(r)
    /\ request[r] \notin {"waiting", "gone"} => HeldNever(r)

RequestInv == CarryInv /\ \A r \in Requests : HeldRight(r)

LEMMA CarryStep ==
    ASSUME TypeInv, CarryInv, [Next]_vars
    PROVE  CarryInv'
<1>1. Idle.job = NoJob /\ Dead.job = NoJob /\ NoJob.req = NoRequest
      /\ \A type : Event(type).req = NoRequest
      /\ \A at, job : Doing(at, job).job = job
    BY DEF Idle, Dead, NoJob, Event, Doing
<1>2. Carriers(extQ')
  <2>1. CASE extQ' = extQ \/ extQ' = <<>>
      BY <2>1 DEF CarryInv, Carriers
  <2>2. CASE extQ # <<>> /\ extQ' = Tail(extQ)
    <3>1. /\ \A i \in DOMAIN extQ' : i + 1 \in DOMAIN extQ /\ extQ'[i] = extQ[i + 1]
        BY <2>2 DEF TypeInv, ChannelsOK
    <3> QED
        BY <3>1 DEF CarryInv, Carriers
  <2>3. ASSUME NEW m \in Message(ExtTypes), m.type \notin Answered => m.req = NoRequest,
               extQ' = Append(extQ, m)
        PROVE  Carriers(extQ')
    <3>1. /\ Len(extQ) \in Nat /\ DOMAIN extQ' = 1..(Len(extQ) + 1) /\ DOMAIN extQ = 1..Len(extQ)
          /\ \A i \in 1..Len(extQ) : extQ'[i] = extQ[i]
          /\ extQ'[Len(extQ) + 1] = m
        BY <2>3 DEF TypeInv, ChannelsOK
    <3> QED
        BY <2>3, <3>1 DEF CarryInv, Carriers
  <2>4. \/ extQ' = extQ \/ extQ' = <<>> \/ (extQ # <<>> /\ extQ' = Tail(extQ))
        \/ \E m \in Message(ExtTypes) :
              (m.type \notin Answered => m.req = NoRequest) /\ extQ' = Append(extQ, m)
    <3>1. ASSUME NEW r \in Requests, NEW type \in ExtTypes, Issue(r, type), extQ' # extQ
          PROVE  \E m \in Message(ExtTypes) :
                    (m.type \notin Answered => m.req = NoRequest) /\ extQ' = Append(extQ, m)
      <4> DEFINE m == [type |-> type, req |-> IF type \in Answered THEN r ELSE NoRequest]
      <4>1. m \in Message(ExtTypes) /\ (m.type \notin Answered => m.req = NoRequest)
          BY DEF Message
      <4>2. extQ' = Append(extQ, m)
          BY <3>1 DEF Issue
      <4> QED
          BY <4>1, <4>2
    <3>2. CASE \E r \in Requests : GiveUp(r)
        BY <3>2 DEF GiveUp
    <3>3. CASE TakeCommand \/ TakeEvent \/ SyncTick \/ ControllerStep \/ HandleCommand
               \/ SwarmStep \/ (\E type \in Events : NetworkEvent(type)) \/ UNCHANGED vars
        BY <3>3 DEF TakeCommand, TakeEvent, SyncTick, ControllerStep, Work, ClaimPanics,
            ControllerDies, Send, SendFails, HandleCommand, SwarmStep, SwarmStarts, SwarmFails,
            SendEvent, SendEventFails, ReplyArrives, NetworkEvent, vars
    <3> QED
        BY <3>1, <3>2, <3>3 DEF Next
  <2> QED
      BY <2>1, <2>2, <2>3, <2>4
<1>3. ctl'.job.type \notin Answered => ctl'.job.req = NoRequest
  <2>1. CASE ctl'.job \in {ctl.job, NoJob, Event("sync")}
      BY <1>1, <2>1 DEF CarryInv
  <2>2. CASE extQ # <<>> /\ ctl'.job = Head(extQ)
    <3>1. 1 \in DOMAIN extQ /\ Head(extQ) = extQ[1]
        BY <2>2 DEF TypeInv, ChannelsOK
    <3> QED
        BY <2>2, <3>1 DEF CarryInv, Carriers
  <2>3. CASE evQ # <<>> /\ ctl'.job = Head(evQ)
    <3>1. 1 \in DOMAIN evQ /\ Head(evQ) = evQ[1]
        BY <2>3 DEF TypeInv, ChannelsOK
    <3> QED
        BY <2>3, <3>1 DEF CarryInv
  <2>4. \/ ctl'.job \in {ctl.job, NoJob, Event("sync")}
        \/ extQ # <<>> /\ ctl'.job = Head(extQ)
        \/ evQ # <<>> /\ ctl'.job = Head(evQ)
    <3>1. CASE UNCHANGED ctl
        BY <3>1
    <3>2. CASE TakeCommand \/ TakeEvent \/ SyncTick
        BY <1>1, <3>2 DEF TakeCommand, TakeEvent, SyncTick
    <3>3. CASE Work
        BY <1>1, <3>3 DEF Work
    <3>4. CASE ClaimPanics \/ Send \/ SendFails
        BY <1>1, <3>4 DEF ClaimPanics, ControllerDies, Send, SendFails
    <3>5. \/ UNCHANGED ctl \/ TakeCommand \/ TakeEvent \/ SyncTick
          \/ Work \/ ClaimPanics \/ Send \/ SendFails
        BY DEF Next, GiveUp, Issue, ControllerStep, HandleCommand, SwarmStep, SwarmStarts,
            SwarmFails, SendEvent, SendEventFails, ReplyArrives, NetworkEvent, vars
    <3> QED
        BY <3>1, <3>2, <3>3, <3>4, <3>5
  <2> QED
      BY <2>1, <2>2, <2>3, <2>4
<1>4. \A i \in DOMAIN evQ' : evQ'[i].req = NoRequest
  <2>1. CASE evQ' = evQ \/ evQ' = <<>>
      BY <2>1 DEF CarryInv
  <2>2. CASE evQ # <<>> /\ evQ' = Tail(evQ)
    <3>1. \A i \in DOMAIN evQ' : i + 1 \in DOMAIN evQ /\ evQ'[i] = evQ[i + 1]
        BY <2>2 DEF TypeInv, ChannelsOK
    <3> QED
        BY <3>1 DEF CarryInv
  <2>3. CASE swm.at = "sending" /\ evQ' = Append(evQ, swm.job)
    <3>1. swm.job \in Message(Events)
        BY <2>3 DEF TypeInv, SwmOK
    <3>2. /\ Len(evQ) \in Nat /\ DOMAIN evQ' = 1..(Len(evQ) + 1) /\ DOMAIN evQ = 1..Len(evQ)
          /\ \A i \in 1..Len(evQ) : evQ'[i] = evQ[i]
          /\ evQ'[Len(evQ) + 1] = swm.job
        BY <2>3, <3>1 DEF TypeInv, ChannelsOK
    <3> QED
        BY <3>2 DEF CarryInv
  <2>4. \/ evQ' = evQ \/ evQ' = <<>> \/ (evQ # <<>> /\ evQ' = Tail(evQ))
        \/ swm.at = "sending" /\ evQ' = Append(evQ, swm.job)
      BY DEF Next, GiveUp, Issue, TakeCommand, TakeEvent, SyncTick, ControllerStep,
          Work, ClaimPanics, ControllerDies, Send, SendFails, HandleCommand, SwarmStep,
          SwarmStarts, SwarmFails, SendEvent, SendEventFails, ReplyArrives, NetworkEvent, vars
  <2> QED
      BY <2>1, <2>2, <2>3, <2>4
<1>5. swm'.job.req = NoRequest
  <2>1. swm'.job \in {swm.job, NoJob} \/ \E type \in Events : swm'.job = Event(type)
    <3>1. CASE UNCHANGED swm
        BY <3>1
    <3>2. CASE SwarmStep
        BY <1>1, <3>2 DEF SwarmStep, SwarmStarts, SwarmFails, SendEvent, SendEventFails,
            ReplyArrives
    <3>3. ASSUME NEW type \in Events, NetworkEvent(type)
          PROVE  swm'.job = Event(type)
        BY <1>1, <3>3 DEF NetworkEvent
    <3>4. UNCHANGED swm \/ SwarmStep \/ \E type \in Events : NetworkEvent(type)
        BY DEF Next, GiveUp, Issue, TakeCommand, TakeEvent, SyncTick, ControllerStep, Work,
            ClaimPanics, ControllerDies, Send, SendFails, HandleCommand, vars
    <3> QED
        BY <3>1, <3>2, <3>3, <3>4
  <2> QED
      BY <1>1, <2>1 DEF CarryInv
<1> QED
    BY <1>2, <1>3, <1>4, <1>5 DEF CarryInv, Carriers

LEMMA OfRequest ==
    ASSUME NEW r \in Requests
    PROVE  /\ \A m \in Message(ExtTypes \cup Events) : m \in Of(r) <=> m.req = r
           /\ Message(ExtTypes) \subseteq Message(ExtTypes \cup Events)
           /\ Message(ToSwarm) \subseteq Message(ExtTypes)
           /\ \A m \in Of(r) : m.req = r
           /\ r # NoRequest
           /\ NoJob \notin Of(r) /\ Idle.job \notin Of(r) /\ Dead.job \notin Of(r)
BY RequestAssumption DEF Message, Of, ToSwarm, NoJob, Idle, Dead

(* What answering and dropping do to one request. *)
LEMMA OneRequest ==
    ASSUME NEW r \in Requests
    PROVE  /\ \A req : Answer(req)[r] = IF r = req /\ request[r] = "waiting"
                                         THEN "answered" ELSE request[r]
           /\ \A reqs : Drop(reqs)[r] = IF r \in reqs /\ request[r] = "waiting"
                                         THEN "failed" ELSE request[r]
BY DEF Answer, Drop

(* Who is carried by a channel. *)
LEMMA CarriedPlaces ==
    ASSUME NEW r \in Requests, NEW T \in SUBSET (ExtTypes \cup Events), NEW q \in Seq(Message(T))
    PROVE  /\ NoneIn(q, Of(r)) <=> r \notin CarriedBy(q)
           /\ OnceIn(q, Of(r)) => r \in CarriedBy(q)
<1>1. \A i \in DOMAIN q : q[i] \in Of(r) <=> q[i].req = r
  <2>1. ASSUME NEW i \in DOMAIN q
        PROVE  q[i] \in Message(T)
      OBVIOUS
  <2>2. Message(T) \subseteq Message(ExtTypes \cup Events)
      BY DEF Message
  <2> QED
      BY <2>1, <2>2, OfRequest
<1> QED
    BY <1>1 DEF NoneIn, OnceIn, CarriedBy

(* The controller is done with what it has in its hands. *)
LEMMA Settled ==
    ASSUME TypeInv, NEW r \in Requests, HeldRight(r), UNCHANGED <<extQ, cmdQ>>, ctl' = Idle,
           request'[r] \in IF ctl.job \in Of(r) /\ request[r] = "waiting"
                           THEN {"answered", "failed"} ELSE {request[r]}
    PROVE  HeldRight(r)'
<1>1. ctl'.job \notin Of(r)
    BY OfRequest
<1>2. CASE ctl.job \in Of(r) /\ request[r] = "waiting"
  <2>1. NoneIn(extQ, Of(r)) /\ NoneIn(cmdQ, Of(r))
      BY <1>2 DEF HeldRight, HeldOnce
  <2> QED
      BY <1>1, <1>2, <2>1 DEF HeldRight, HeldNever
<1>3. CASE ~(ctl.job \in Of(r) /\ request[r] = "waiting")
  <2>1. request'[r] = request[r]
      BY <1>3
  <2> QED
      BY <1>1, <1>3, <2>1 DEF HeldRight, HeldNever, HeldOnce
<1> QED
    BY <1>2, <1>3

LEMMA JobOf ==
    ASSUME TypeInv, NEW r \in Requests
    PROVE  ctl.job \in Of(r) <=> ctl.job.req = r
<1>1. CASE ctl.job = NoJob
    BY <1>1, OfRequest DEF NoJob
<1>2. CASE ctl.job \in Message(ExtTypes \cup Events)
    BY <1>2, OfRequest
<1> QED
    BY <1>1, <1>2 DEF TypeInv, CtlOK

LEMMA HeldClients ==
    ASSUME TypeInv, NEW r \in Requests, HeldRight(r), NEW o \in Requests,
           GiveUp(o) \/ \E type \in ExtTypes : Issue(o, type)
    PROVE  HeldRight(r)'
<1>0. request \in [Requests -> States]
    BY DEF TypeInv, OneshotsOK
<1>1. CASE GiveUp(o)
  <2>1. UNCHANGED <<extQ, cmdQ, ctl>> /\ request'[r] \in {request[r], "gone"}
      BY <1>0, <1>1 DEF GiveUp
  <2> QED
      BY <2>1 DEF HeldRight, HeldOnce, HeldNever
<1>2. ASSUME NEW type \in ExtTypes, Issue(o, type)
      PROVE  HeldRight(r)'
  <2>1. UNCHANGED <<cmdQ, ctl>> /\ request[o] = "new"
      BY <1>2 DEF Issue
  <2>2. CASE ctl.at = "dead"
    <3>1. extQ' = extQ /\ request'[r] = IF r = o THEN "failed" ELSE request[r]
        BY <1>0, <1>2, <2>2 DEF Issue
    <3> QED
        BY <2>1, <3>1 DEF HeldRight, HeldOnce, HeldNever
  <2>3. CASE ctl.at # "dead"
    <3> DEFINE m == [type |-> type, req |-> IF type \in Answered THEN o ELSE NoRequest]
    <3>1. /\ extQ' = Append(extQ, m)
          /\ request'[r] = IF r # o THEN request[r]
                           ELSE IF type \in Answered THEN "waiting" ELSE "answered"
        BY <1>0, <1>2, <2>3 DEF Issue
    <3>2. m \in Message(ExtTypes) /\ (m \in Of(r) <=> r = o /\ type \in Answered)
      <4>1. m \in Message(ExtTypes)
          BY DEF Message
      <4>2. m.req = IF type \in Answered THEN o ELSE NoRequest
          OBVIOUS
      <4> HIDE DEF m
      <4> QED
          BY <4>1, <4>2, OfRequest
    <3> HIDE DEF m
    <3>3. /\ NoneIn(extQ, Of(r)) => IF m \in Of(r) THEN OnceIn(extQ', Of(r))
                                                   ELSE NoneIn(extQ', Of(r))
          /\ OnceIn(extQ, Of(r)) /\ m \notin Of(r) => OnceIn(extQ', Of(r))
        BY <3>1, <3>2, AppendPlaces DEF TypeInv, ChannelsOK
    <3> QED
        BY <2>1, <3>1, <3>2, <3>3 DEF HeldRight, HeldOnce, HeldNever
  <2> QED
      BY <2>2, <2>3
<1> QED
    BY <1>1, <1>2

LEMMA HeldTakes ==
    ASSUME TypeInv, CarryInv, NEW r \in Requests, HeldRight(r),
           TakeCommand \/ TakeEvent \/ SyncTick
    PROVE  HeldRight(r)'
<1>1. ctl.job \notin Of(r) /\ UNCHANGED <<cmdQ, request>>
    BY OfRequest DEF TypeInv, CtlOK, TakeCommand, TakeEvent, SyncTick
<1>2. \A at, job : Doing(at, job).job = job
    BY DEF Doing
<1>3. CASE TakeCommand
  <2>1. extQ # <<>> /\ extQ' = Tail(extQ) /\ ctl'.job = Head(extQ)
      BY <1>2, <1>3 DEF TakeCommand
  <2>2. /\ NoneIn(extQ, Of(r)) => NoneIn(extQ', Of(r)) /\ Head(extQ) \notin Of(r)
        /\ OnceIn(extQ, Of(r)) => IF Head(extQ) \in Of(r) THEN NoneIn(extQ', Of(r))
                                   ELSE OnceIn(extQ', Of(r))
      BY <2>1, TailPlaces DEF TypeInv, ChannelsOK
  <2> QED
      BY <1>1, <2>1, <2>2 DEF HeldRight, HeldOnce, HeldNever
<1>4. CASE TakeEvent \/ SyncTick
  <2>1. ctl'.job.req = NoRequest
    <3>1. CASE TakeEvent
      <4>1. ctl'.job = Head(evQ) /\ evQ # <<>>
          BY <1>2, <3>1 DEF TakeEvent
      <4>2. 1 \in DOMAIN evQ /\ Head(evQ) = evQ[1]
          BY <4>1 DEF TypeInv, ChannelsOK
      <4> QED
          BY <4>1, <4>2 DEF CarryInv
    <3>2. CASE SyncTick
        BY <1>2, <3>2 DEF SyncTick, Event
    <3> QED
        BY <1>4, <3>1, <3>2
  <2>2. ctl'.job \notin Of(r) /\ extQ' = extQ
      BY <1>4, <2>1, OfRequest DEF TakeEvent, SyncTick
  <2> QED
      BY <1>1, <2>2 DEF HeldRight, HeldOnce, HeldNever
<1> QED
    BY <1>3, <1>4

LEMMA HeldWork ==
    ASSUME TypeInv, CarryInv, NEW r \in Requests, HeldRight(r), Work
    PROVE  HeldRight(r)'
<1>1. UNCHANGED <<extQ, cmdQ>>
    BY DEF Work
<1>2. CASE ctl' = Doing("sending", ctl.job) /\ UNCHANGED request
  <2>1. ctl'.job = ctl.job
      BY <1>2 DEF Doing
  <2> QED
      BY <1>1, <1>2, <2>1 DEF HeldRight, HeldOnce, HeldNever
<1>3. CASE ctl' = Idle /\ request' = Answer(ctl.job.req)
    BY <1>1, <1>3, Settled, OneRequest, JobOf
<1>4. CASE ctl' = Idle /\ UNCHANGED request /\ ctl.job.type \in Events
  <2>1. ctl.job.type \notin Answered
      BY <1>4 DEF Events, Answered
  <2>2. ctl.job \notin Of(r)
      BY <2>1, JobOf, OfRequest DEF CarryInv
  <2> QED
      BY <1>1, <1>4, <2>2, Settled
<1> QED
    BY <1>2, <1>3, <1>4 DEF Work, Events

(* A controller that ends fails the clients whose oneshots it holds. *)
LEMMA HeldDeath ==
    ASSUME TypeInv, NEW r \in Requests, HeldRight(r), ControllerDies
    PROVE  HeldRight(r)'
<1>1. /\ extQ' = <<>> /\ cmdQ' = cmdQ /\ ctl'.job = NoJob
      /\ request' = Drop(CarriedBy(extQ) \cup {ctl.job.req})
    BY DEF ControllerDies, Dead
<1>2. ctl'.job \notin Of(r) /\ NoneIn(extQ', Of(r))
    BY <1>1, OfRequest, EmptyPlaces
<1>3. NoneIn(extQ, Of(r)) <=> r \notin CarriedBy(extQ)
    BY CarriedPlaces DEF TypeInv, ChannelsOK
<1>4. request'[r] = IF (r \in CarriedBy(extQ) \/ r = ctl.job.req) /\ request[r] = "waiting"
                    THEN "failed" ELSE request[r]
    BY <1>1, OneRequest
<1>5. CASE (r \in CarriedBy(extQ) \/ r = ctl.job.req) /\ request[r] = "waiting"
  <2>1. NoneIn(cmdQ, Of(r))
      BY <1>3, <1>5, JobOf, CarriedPlaces DEF HeldRight, HeldOnce, TypeInv, ChannelsOK
  <2> QED
      BY <1>1, <1>2, <1>4, <1>5, <2>1 DEF HeldRight, HeldNever
<1>6. CASE ~((r \in CarriedBy(extQ) \/ r = ctl.job.req) /\ request[r] = "waiting")
  <2>1. request'[r] = request[r]
      BY <1>4, <1>6
  <2>2. request[r] = "waiting" => NoneIn(extQ, Of(r)) /\ ctl.job \notin Of(r)
      BY <1>3, <1>6, JobOf
  <2> QED
      BY <1>1, <1>2, <2>1, <2>2, CarriedPlaces
      DEF HeldRight, HeldOnce, HeldNever, TypeInv, ChannelsOK
<1> QED
    BY <1>5, <1>6

LEMMA HeldSend ==
    ASSUME TypeInv, CarryInv, NEW r \in Requests, HeldRight(r), Send \/ SendFails
    PROVE  HeldRight(r)'
<1>1. ctl.job \in Message(ToSwarm)
    BY DEF TypeInv, CtlOK, Send, SendFails
<1>2. ctl.job \in Of(r) <=> ctl.job.req = r
    BY JobOf
<1>3. ASSUME ctl.job \in Of(r)
      PROVE  ctl.job.type \in {"ask", "broadcast"}
  <2>1. ctl.job.type \in Answered
      BY <1>2, <1>3, OfRequest DEF CarryInv
  <2> QED
      BY <1>1, <2>1 DEF Message, ToSwarm, Answered
<1>4. CASE Send
  <2> DEFINE m == [ctl.job EXCEPT !.req = IF ctl.job.type = "ask" THEN @ ELSE NoRequest]
  <2>1. m \in Message(ToSwarm) /\ m.req = IF ctl.job.type = "ask" THEN ctl.job.req ELSE NoRequest
      BY <1>1 DEF Message
  <2>2. /\ cmdQ' = Append(cmdQ, m) /\ extQ' = extQ /\ ctl' = Idle
        /\ request' = IF ctl.job.type = "broadcast" THEN Answer(ctl.job.req) ELSE request
      BY <1>4 DEF Send
  <2> HIDE DEF m
  <2>3. m \in Of(r) <=> ctl.job.type = "ask" /\ ctl.job \in Of(r)
      BY <1>2, <2>1, OfRequest
  <2>4. /\ NoneIn(cmdQ, Of(r)) => IF m \in Of(r) THEN OnceIn(cmdQ', Of(r))
                                                  ELSE NoneIn(cmdQ', Of(r))
        /\ OnceIn(cmdQ, Of(r)) /\ m \notin Of(r) => OnceIn(cmdQ', Of(r))
      BY <2>1, <2>2, AppendPlaces DEF TypeInv, ChannelsOK
  <2>5. ctl'.job \notin Of(r)
      BY <2>2, OfRequest
  <2>6. CASE ctl.job \notin Of(r)
    <3>1. request'[r] = request[r]
        BY <1>2, <2>2, <2>6, OneRequest
    <3> QED
        BY <2>2, <2>3, <2>4, <2>5, <2>6, <3>1 DEF HeldRight, HeldOnce, HeldNever
  <2>7. CASE ctl.job \in Of(r) /\ ctl.job.type = "ask"
    <3>1. request'[r] = request[r]
        BY <2>2, <2>7
    <3> QED
        BY <2>2, <2>3, <2>4, <2>5, <2>7, <3>1 DEF HeldRight, HeldOnce, HeldNever
  <2>8. CASE ctl.job \in Of(r) /\ ctl.job.type = "broadcast"
    <3>1. request'[r] = IF request[r] = "waiting" THEN "answered" ELSE request[r]
        BY <1>2, <2>2, <2>8, OneRequest
    <3>2. m \notin Of(r)
        BY <2>3, <2>8
    <3> QED
        BY <2>2, <2>4, <2>5, <2>8, <3>1, <3>2 DEF HeldRight, HeldOnce, HeldNever
  <2> QED
      BY <1>3, <2>6, <2>7, <2>8
<1>5. CASE SendFails
  <2>1. CASE ctl.job.type = "sync"
      BY <1>5, <2>1, HeldDeath DEF SendFails
  <2>2. CASE ctl.job.type # "sync"
    <3>1. /\ UNCHANGED <<extQ, cmdQ>> /\ ctl' = Idle
          /\ request' = Answer(ctl.job.req) \/ request' = Drop({ctl.job.req})
        BY <1>5, <2>2 DEF SendFails
    <3>2. request'[r] \in IF ctl.job \in Of(r) /\ request[r] = "waiting"
                          THEN {"answered", "failed"} ELSE {request[r]}
        BY <1>2, <3>1, OneRequest
    <3> QED
        BY <3>1, <3>2, Settled
  <2> QED
      BY <2>1, <2>2
<1> QED
    BY <1>4, <1>5

LEMMA HeldSwarm ==
    ASSUME TypeInv, NEW r \in Requests, HeldRight(r),
           SwarmStep \/ HandleCommand \/ \E type \in Events : NetworkEvent(type)
    PROVE  HeldRight(r)'
<1>1. CASE HandleCommand
  <2>1. /\ cmdQ # <<>> /\ cmdQ' = Tail(cmdQ) /\ UNCHANGED <<extQ, ctl>>
        /\ request' = Answer(Head(cmdQ).req)
      BY <1>1 DEF HandleCommand
  <2>2. Head(cmdQ) \in Of(r) <=> Head(cmdQ).req = r
    <3>1. Head(cmdQ) \in Message(ToSwarm)
        BY <2>1, Caps, ChannelOps DEF TypeInv
    <3> QED
        BY <3>1, OfRequest
  <2>3. /\ NoneIn(cmdQ, Of(r)) => NoneIn(cmdQ', Of(r)) /\ Head(cmdQ) \notin Of(r)
        /\ OnceIn(cmdQ, Of(r)) => IF Head(cmdQ) \in Of(r) THEN NoneIn(cmdQ', Of(r))
                                   ELSE OnceIn(cmdQ', Of(r))
      BY <2>1, TailPlaces DEF TypeInv, ChannelsOK
  <2>4. request'[r] = IF Head(cmdQ) \in Of(r) /\ request[r] = "waiting"
                      THEN "answered" ELSE request[r]
      BY <2>1, <2>2, OneRequest
  <2> QED
      BY <2>1, <2>3, <2>4 DEF HeldRight, HeldOnce, HeldNever
<1>2. CASE SwarmFails
  <2>1. cmdQ' = <<>> /\ UNCHANGED <<extQ, ctl>> /\ request' = Drop(CarriedBy(cmdQ))
      BY <1>2 DEF SwarmFails
  <2>2. NoneIn(cmdQ', Of(r))
      BY <2>1, EmptyPlaces
  <2>3. /\ NoneIn(cmdQ, Of(r)) <=> r \notin CarriedBy(cmdQ)
        /\ OnceIn(cmdQ, Of(r)) => r \in CarriedBy(cmdQ)
    <3>1. ToSwarm \in SUBSET (ExtTypes \cup Events)
        BY DEF ToSwarm
    <3> QED
        BY <3>1, CarriedPlaces DEF TypeInv, ChannelsOK
  <2>4. request'[r] = IF r \in CarriedBy(cmdQ) /\ request[r] = "waiting"
                      THEN "failed" ELSE request[r]
      BY <2>1, OneRequest
  <2> QED
      BY <2>1, <2>2, <2>3, <2>4 DEF HeldRight, HeldOnce, HeldNever
<1>3. CASE UNCHANGED <<extQ, cmdQ, ctl, request>>
    BY <1>3 DEF HeldRight, HeldOnce, HeldNever
<1> QED
    BY <1>1, <1>2, <1>3 DEF SwarmStep, SwarmStarts, SendEvent, SendEventFails, ReplyArrives,
       NetworkEvent

LEMMA RequestStep ==
    ASSUME TypeInv, RequestInv, [Next]_vars
    PROVE  RequestInv'
<1>1. CarryInv'
    BY CarryStep DEF RequestInv
<1>2. ASSUME NEW r \in Requests
      PROVE  HeldRight(r)'
  <2>1. CarryInv /\ HeldRight(r)
      BY DEF RequestInv
  <2>2. CASE UNCHANGED vars
      BY <2>1, <2>2 DEF vars, HeldRight, HeldOnce, HeldNever
  <2>3. CASE ClaimPanics
      BY <2>1, <2>3, HeldDeath DEF ClaimPanics
  <2> QED
      BY <2>1, <2>2, <2>3, HeldClients, HeldTakes, HeldWork, HeldSend, HeldSwarm
      DEF Next, ControllerStep
<1> QED
    BY <1>1, <1>2 DEF RequestInv

LEMMA RequestInit == Init => RequestInv
<1> SUFFICES ASSUME Init PROVE RequestInv
    OBVIOUS
<1>1. CarryInv
    BY DEF Init, CarryInv, Carriers, Idle, Doing, NoJob
<1>2. ASSUME NEW r \in Requests
      PROVE  HeldRight(r)
  <2>1. ctl.job \notin Of(r) /\ request[r] = "new"
      BY OfRequest DEF Init
  <2> QED
      BY <2>1, EmptyPlaces DEF Init, HeldRight, HeldNever
<1> QED
    BY <1>1, <1>2 DEF RequestInv

(* One place is one holder, no place is none. *)
LEMMA RequestCounted ==
    ASSUME TypeInv, RequestInv
    PROVE  RequestHeld
<1> SUFFICES ASSUME NEW r \in Requests
             PROVE  /\ request[r] = "waiting" => Cardinality(Holders(r)) = 1
                    /\ request[r] \notin {"waiting", "gone"} => Holders(r) = {}
    BY DEF RequestHeld
<1> DEFINE ext == {i \in DOMAIN extQ : extQ[i].req = r}
           cmd == {i \in DOMAIN cmdQ : cmdQ[i].req = r}
<1>1. /\ \A i \in DOMAIN extQ : extQ[i] \in Of(r) <=> extQ[i].req = r
      /\ \A i \in DOMAIN cmdQ : cmdQ[i] \in Of(r) <=> cmdQ[i].req = r
  <2>1. /\ \A i \in DOMAIN extQ : extQ[i] \in Message(ExtTypes)
        /\ \A i \in DOMAIN cmdQ : cmdQ[i] \in Message(ToSwarm)
      BY DEF TypeInv, ChannelsOK
  <2> QED
      BY <2>1, OfRequest
<1>2. /\ NoneIn(extQ, Of(r)) => ext = {}
      /\ NoneIn(cmdQ, Of(r)) => cmd = {}
      /\ OnceIn(extQ, Of(r)) => \E i : ext = {i}
      /\ OnceIn(cmdQ, Of(r)) => \E i : cmd = {i}
    BY <1>1 DEF NoneIn, OnceIn
<1>3. ctl.job \in Of(r) <=> ctl.job.req = r
    BY JobOf
<1>4. Holders(r) = {<<"ext", i>> : i \in ext} \cup {<<"cmd", i>> : i \in cmd}
                   \cup (IF ctl.job.req = r THEN {<<"ctl", 1>>} ELSE {})
    BY DEF Holders
<1>5. HeldRight(r)
    BY DEF RequestInv
<1> HIDE DEF ext, cmd
<1>6. ASSUME request[r] \notin {"waiting", "gone"}
      PROVE  Holders(r) = {}
    BY <1>2, <1>3, <1>4, <1>5, <1>6 DEF HeldRight, HeldNever
<1>7. ASSUME request[r] = "waiting"
      PROVE  Cardinality(Holders(r)) = 1
  <2>1. HeldOnce(r)
      BY <1>5, <1>7 DEF HeldRight
  <2>2. CASE (\E i : ext = {i}) /\ cmd = {} /\ ctl.job.req # r
    <3>1. PICK i : ext = {i}
        BY <2>2
    <3>2. {<<"ext", j>> : j \in ext} = {<<"ext", i>>} /\ {<<"cmd", j>> : j \in cmd} = {}
        BY <2>2, <3>1
    <3>3. Holders(r) = {<<"ext", i>>}
        BY <1>4, <2>2, <3>2
    <3> QED
        BY <3>3, FS_Singleton
  <2>3. CASE ext = {} /\ (\E i : cmd = {i}) /\ ctl.job.req # r
    <3>1. PICK i : cmd = {i}
        BY <2>3
    <3>2. {<<"ext", j>> : j \in ext} = {} /\ {<<"cmd", j>> : j \in cmd} = {<<"cmd", i>>}
        BY <2>3, <3>1
    <3>3. Holders(r) = {<<"cmd", i>>}
        BY <1>4, <2>3, <3>2
    <3> QED
        BY <3>3, FS_Singleton
  <2>4. CASE ext = {} /\ cmd = {} /\ ctl.job.req = r
    <3>1. Holders(r) = {<<"ctl", 1>>}
        BY <1>4, <2>4
    <3> QED
        BY <3>1, FS_Singleton
  <2> QED
      BY <1>2, <1>3, <2>1, <2>2, <2>3, <2>4 DEF HeldOnce
<1> QED
    BY <1>6, <1>7

(* Whatever is queued, fails or dies: the oneshot of a client that waits is *)
(* in one place and so can still be answered or dropped, and no client that *)
(* has its outcome is answered again.  (controller.rs, handle_command.)     *)
THEOREM RequestAlwaysHeld == Spec => []RequestHeld
<1>1. TypeInv /\ RequestInv /\ [Next]_vars => RequestInv'
    BY RequestStep
<1>2. TypeInv /\ RequestInv => RequestHeld
    BY RequestCounted
<1> QED
    BY RequestInit, <1>1, <1>2, TypeInvariant, PTL DEF Spec
=============================================================================
