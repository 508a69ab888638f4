-------------------------- MODULE ControllerProofs --------------------------
(***************************************************************************)
(* Proofs about Controller, for every set of premints, batch size, number  *)
(* of permits, channel capacity, inclusion mode and failure switch.        *)
(***************************************************************************)
EXTENDS Controller, StorageProofs

-----------------------------------------------------------------------------
(* Facts about the parts the actions are built from. *)

LEMMA EmptyTableType == EmptyTable \in Table
BY DEF EmptyTable, Table

LEMMA TaskOne == 1 \in TaskIds
BY BoundAssumption DEF TaskIds

LEMMA CallType ==
    ASSUME NEW p \in Premints, NEW pc \in {"wait", "lookup"}
    PROVE  Call(p, pc) \in Task
BY DEF Call, NoTask, Task, Failures

LEMMA NoTasksType == NoTask \in Task /\ NoTasks \in [TaskIds -> Task]
BY DEF NoTask, NoTasks, Task, Failures

LEMMA EndedType ==
    ASSUME NEW task \in Task, NEW outcome \in {"stored", "refused", "rejected", "failed"}
    PROVE  /\ Ended(task, outcome) \in Task
           /\ Ended(task, outcome).pc = "done"
           /\ Ended(task, outcome).outcome = outcome
           /\ Ended(task, outcome).premint = task.premint
BY DEF Ended, Call, NoTask, Task, Failures

(* A handler that holds a call holds a premint: what the reads and writes  *)
(* of a call are applied to.                                               *)
HasPremint(task) == task.pc # "none" => task.premint \in Premints
TasksHavePremints == \A t \in TaskIds : HasPremint(tasks[t])

LEMMA CallHasPremint ==
    ASSUME NEW p \in Premints, NEW pc
    PROVE  HasPremint(Call(p, pc))
BY DEF HasPremint, Call, NoTask

LEMMA EndedHasPremint ==
    ASSUME NEW task \in Task, task.pc # "none", HasPremint(task), NEW outcome
    PROVE  HasPremint(Ended(task, outcome))
BY DEF HasPremint, Ended, Call, NoTask, Task

(***************************************************************************)
(* Type correctness.  TypeOK alone is not inductive: a step of a call uses *)
(* its premint, which TypeOK allows to be NoPremint.                       *)
(***************************************************************************)
TypeInv == TypeOK /\ TasksHavePremints

LEMMA InitType == Init => TypeInv
<1> SUFFICES ASSUME Init PROVE TypeInv
    OBVIOUS
<1>1. TypeOK
    BY EmptyTableType, NoTasksType, BoundAssumption
    DEF Init, TypeOK, Handlers
<1>2. TasksHavePremints
    BY DEF Init, TasksHavePremints, HasPremint, NoTasks, NoTask
<1> QED
    BY <1>1, <1>2 DEF TypeInv

(* A step of one call keeps the types if the call's new state has one. *)
LEMMA TaskStepType ==
    ASSUME TypeInv, NEW t \in TaskIds, NEW task \in Task, HasPremint(task),
           TaskStep(t, task), db' \in Table
    PROVE  TypeInv'
<1>1. tasks' = [tasks EXCEPT ![t] = task] /\ tasks \in [TaskIds -> Task]
    BY DEF TypeInv, TypeOK, TaskStep
<1>2. tasks' \in [TaskIds -> Task]
    BY <1>1
<1>3. TasksHavePremints'
    BY <1>1 DEF TypeInv, TasksHavePremints
<1>4. TypeOK'
    BY <1>2 DEF TypeInv, TypeOK, TaskStep, env
<1> QED
    BY <1>3, <1>4 DEF TypeInv

LEMMA CallStepType ==
    ASSUME TypeInv, NEW t \in TaskIds, CallStep(t)
    PROVE  TypeInv'
<1> DEFINE task == tasks[t]
<1>1. task \in Task /\ HasPremint(task) /\ db \in Table
    BY DEF TypeInv, TypeOK, TasksHavePremints
<1>2. CASE AcquirePermit(t)
    <2>1. [task EXCEPT !.pc = "lookup"] \in Task
        BY <1>1 DEF Task
    <2>2. HasPremint([task EXCEPT !.pc = "lookup"])
        BY <1>1, <1>2 DEF HasPremint, AcquirePermit, Task
    <2> QED
        BY <1>1, <1>2, <2>1, <2>2, TaskStepType DEF AcquirePermit
<1>3. CASE LookupExisting(t)
    <2> DEFINE p == task.premint
               existing == GetForIdAndKind(db, Key(p))
    <2>1. p \in Premints
        BY <1>1, <1>3 DEF LookupExisting, HasPremint
    <2>2. existing \in Premints \cup {NoPremint}
        BY <1>1, <2>1, PremintFields, LookupType
    <2>3. PICK rpc \in BOOLEAN :
              TaskStep(t, [task EXCEPT
                  !.pc = "check", !.existing = existing,
                  !.pending = {"uri"} \cup (IF ChainRules(p, rpc) THEN {"chain"} ELSE {}),
                  !.results = OnlyFailures(LocalRules(p, existing))])
        BY <1>3 DEF LookupExisting
    <2> DEFINE new == [task EXCEPT
                  !.pc = "check", !.existing = existing,
                  !.pending = {"uri"} \cup (IF ChainRules(p, rpc) THEN {"chain"} ELSE {}),
                  !.results = OnlyFailures(LocalRules(p, existing))]
    <2>4. OnlyFailures(LocalRules(p, existing)) \in SUBSET Failures
        BY DEF OnlyFailures
    <2>5. {"uri"} \cup (IF ChainRules(p, rpc) THEN {"chain"} ELSE {}) \in SUBSET {"uri", "chain"}
        OBVIOUS
    <2> HIDE DEF existing
    <2>6. new \in Task /\ new.premint = p
        BY <1>1, <2>1, <2>2, <2>4, <2>5 DEF Task
    <2>7. HasPremint(new)
        BY <2>1, <2>6 DEF HasPremint
    <2> QED
        BY <1>1, <1>3, <2>3, <2>6, <2>7, TaskStepType DEF LookupExisting
<1>4. CASE LookupFails(t)
    <2>1. Ended(task, "failed") \in Task /\ HasPremint(Ended(task, "failed"))
        BY <1>1, <1>4, EndedType, EndedHasPremint DEF LookupFails
    <2> QED
        BY <1>1, <1>4, <2>1, TaskStepType DEF LookupFails
<1>5. ASSUME NEW rule, NEW outcomes, Awaiting(t, rule), RuleAnswers(t, rule, outcomes)
      PROVE  TypeInv'
    <2> DEFINE new == [task EXCEPT !.pending = @ \ {rule},
                                   !.results = @ \cup OnlyFailures(outcomes)]
    <2>1. task.results \cup OnlyFailures(outcomes) \in SUBSET Failures
        BY <1>1 DEF OnlyFailures, Task
    <2>2. task.pending \ {rule} \in SUBSET {"uri", "chain"}
        BY <1>1 DEF Task
    <2>3. new \in Task /\ new.premint = task.premint /\ new.pc = task.pc
        BY <1>1, <2>1, <2>2 DEF Task
    <2>4. HasPremint(new)
        BY <1>1, <2>3 DEF HasPremint
    <2> QED
        BY <1>1, <1>5, <2>3, <2>4, TaskStepType DEF RuleAnswers
<1>6. CASE CheckTokenUri(t)
    BY <1>5, <1>6 DEF CheckTokenUri
<1>7. CASE CheckChain(t)
    BY <1>5, <1>7 DEF CheckChain
<1>8. CASE Store(t)
    <2>1. task.premint \in Premints
        BY <1>1, <1>8 DEF Store, Evaluated, HasPremint
    <2>2. db' \in Table
        BY <1>1, <1>8, <2>1, UpsertEffect DEF Store
    <2>3. PICK outcome \in {"stored", "refused"} : TaskStep(t, Ended(task, outcome))
        BY <1>8 DEF Store
    <2>4. Ended(task, outcome) \in Task /\ HasPremint(Ended(task, outcome))
        BY <1>1, <1>8, EndedType, EndedHasPremint DEF Store, Evaluated
    <2> QED
        BY <2>2, <2>3, <2>4, TaskStepType
<1>9. CASE StoreFails(t)
    <2>1. Ended(task, "failed") \in Task /\ HasPremint(Ended(task, "failed"))
        BY <1>1, <1>9, EndedType, EndedHasPremint DEF StoreFails, Evaluated
    <2> QED
        BY <1>1, <1>9, <2>1, TaskStepType DEF StoreFails
<1>10. CASE Reject(t)
    <2>1. Ended(task, "rejected") \in Task /\ HasPremint(Ended(task, "rejected"))
        BY <1>1, <1>10, EndedType, EndedHasPremint DEF Reject, Evaluated
    <2> QED
        BY <1>1, <1>10, <2>1, TaskStepType DEF Reject
<1> QED
    BY <1>2, <1>3, <1>4, <1>6, <1>7, <1>8, <1>9, <1>10 DEF CallStep

(* The commands the controller builds, and what they are not. *)
LEMMA CommandType ==
    /\ [type |-> "sync"] \in Commands /\ [type |-> "forward"] \in Commands
    /\ \A p \in Premints : [type |-> "broadcast", premint |-> p] \in Commands
    /\ \A id \in Ids : [type |-> "claim", id |-> id] \in Commands
BY DEF Commands

(* While a command is being sent, outgoing is one. *)
SendingCommand == handler = "send" => outgoing \in Commands

LEMMA SendingStep ==
    ASSUME TypeInv, SendingCommand, Next
    PROVE  SendingCommand'
<1>1. tasks \in [TaskIds -> Task] /\ TasksHavePremints
    BY DEF TypeInv, TypeOK
<1>2. CASE HandlerStep
    <2>1. CASE \E t \in TaskIds : CallStep(t)
        BY <2>1 DEF CallStep, AcquirePermit, LookupExisting, LookupFails,
            CheckTokenUri, CheckChain, RuleAnswers, Store, StoreFails, Reject,
            TaskStep, SendingCommand
    <2>2. CASE BroadcastValidated
        <3>1. tasks[1].premint \in Premints
            BY <1>1, <2>2, TaskOne DEF BroadcastValidated, TasksHavePremints, HasPremint
        <3> QED
            BY <2>2, <3>1, CommandType DEF BroadcastValidated, SendingCommand
    <2>3. CASE EventDone \/ SendCommand \/ SendFails \/ Reply
        BY <2>3 DEF EventDone, SendCommand, SendFails, Reply, SendingCommand
    <2> QED
        BY <1>2, <2>1, <2>2, <2>3 DEF HandlerStep
<1>3. CASE \E p \in Premints : PremintReceived(p) \/ Broadcast(p)
    BY <1>3 DEF PremintReceived, Broadcast, SendingCommand
<1>4. CASE \E n \in TaskIds : \E batch \in Batches(n) : SyncResponse(n, batch)
    BY <1>4 DEF SyncResponse, SendingCommand
<1>5. CASE RequestSync \/ ForwardCommand
    BY <1>5, CommandType DEF RequestSync, ForwardCommand, StartSend, SendingCommand
<1>6. CASE \E id \in Ids : ResolveOnchainMint(id)
    BY <1>6, CommandType DEF ResolveOnchainMint, StartSend, SendingCommand
<1>7. CASE \E c \in Claims : \/ MintSeenOnchainVerified(c) \/ MintSeenOnchainPanics(c)
                            \/ MintSeenOnchainTrusted(c)
    BY <1>7 DEF MintSeenOnchainVerified, MintSeenOnchainPanics,
        MintSeenOnchainTrusted, MarkFromPeer, SendingCommand
<1>8. CASE (\E id \in Ids : ChainMint(id)) \/ SwarmTakes \/ SwarmStops \/ Restart
    BY <1>8 DEF ChainMint, SwarmTakes, SwarmStops, Restart, SendingCommand
<1> QED
    BY <1>2, <1>3, <1>4, <1>5, <1>6, <1>7, <1>8 DEF Next

LEMMA MarkFromPeerType ==
    ASSUME TypeInv, NEW c \in Claims, MarkFromPeer(c)
    PROVE  TypeInv'
<1>1. c \in ClaimType /\ c.id \in Ids /\ db \in Table
    BY ClaimAssumption DEF ClaimType, TypeInv, TypeOK
<1>2. db' \in Table
    BY <1>1, MarkSeenEffect, SwitchAssumption DEF MarkFromPeer
<1>3. TypeOK'
    BY <1>1, <1>2 DEF MarkFromPeer, TypeInv, TypeOK, env
<1> QED
    BY <1>3 DEF MarkFromPeer, TypeInv, TasksHavePremints

LEMMA NextType ==
    ASSUME TypeInv, SendingCommand, Next
    PROVE  TypeInv'
<1> USE DEF TypeInv
<1>0. /\ tasks \in [TaskIds -> Task] /\ TasksHavePremints /\ db \in Table
      /\ swarmQ \in Seq(Commands)
    BY DEF TypeOK
<1>1. CASE \E t \in TaskIds : CallStep(t)
    BY <1>1, CallStepType
<1>2. CASE EventDone
    BY <1>2, NoTasksType
    DEF EventDone, TypeOK, Handlers, env, TasksHavePremints, HasPremint, NoTasks, NoTask
<1>3. CASE BroadcastValidated
    <2>1. tasks[1].premint \in Premints
        BY <1>0, <1>3, TaskOne DEF BroadcastValidated, TasksHavePremints, HasPremint
    <2>2. TypeOK'
        BY <1>3, <2>1, NoTasksType, CommandType
        DEF BroadcastValidated, TypeOK, Handlers, env
    <2> QED
        BY <1>3, <2>2 DEF BroadcastValidated, TasksHavePremints, HasPremint, NoTasks, NoTask
<1>4. CASE SendCommand
    <2>1. outgoing \in Commands
        BY <1>4 DEF SendCommand, SendingCommand
    <2>2. swarmQ' \in Seq(Commands) /\ Len(swarmQ') = Len(swarmQ) + 1
        BY <1>0, <1>4, <2>1 DEF SendCommand
    <2>3. Len(swarmQ') <= Capacity
        BY <1>0, <1>4, <2>2, BoundAssumption DEF SendCommand
    <2>4. TypeOK'
        BY <1>4, <2>2, <2>3 DEF SendCommand, TypeOK, Handlers, env
    <2> QED
        BY <1>4, <2>4 DEF SendCommand, TasksHavePremints
<1>5. CASE SendFails \/ Reply
    BY <1>5 DEF SendFails, Reply, TypeOK, Handlers, env, TasksHavePremints
<1>6. CASE \E p \in Premints : PremintReceived(p) \/ Broadcast(p)
    <2>1. PICK p \in Premints : tasks' = [NoTasks EXCEPT ![1] = Call(p, "lookup")]
        BY <1>6 DEF PremintReceived, Broadcast
    <2>2. Call(p, "lookup") \in Task /\ HasPremint(Call(p, "lookup"))
        BY CallType, CallHasPremint
    <2>3. HasPremint(NoTask)
        BY DEF HasPremint, NoTask
    <2>4. \A t \in TaskIds : tasks'[t] \in {NoTask, Call(p, "lookup")}
        BY <2>1, TaskOne DEF NoTasks
    <2>5. tasks' \in [TaskIds -> Task]
        BY <2>1, <2>2, NoTasksType, TaskOne
    <2>6. TypeOK'
        BY <1>6, <2>5 DEF PremintReceived, Broadcast, TypeOK, Handlers, env
    <2> QED
        BY <2>2, <2>3, <2>4, <2>6 DEF TasksHavePremints
<1>7. CASE \E n \in TaskIds : \E batch \in Batches(n) : SyncResponse(n, batch)
    <2>0. PICK n \in TaskIds : \E batch \in Batches(n) : SyncResponse(n, batch)
        BY <1>7
    <2>1. PICK batch \in Batches(n) : SyncResponse(n, batch)
        BY <2>0
    <2>2. \A t \in TaskIds : t <= n => batch[t] \in Premints
        BY BoundAssumption DEF Batches, TaskIds
    <2>3. HasPremint(NoTask)
        BY DEF HasPremint, NoTask
    <2>4. \A t \in TaskIds : tasks'[t] \in Task /\ HasPremint(tasks'[t])
        BY <2>1, <2>2, <2>3, CallType, CallHasPremint, NoTasksType DEF SyncResponse
    <2>5. tasks' \in [TaskIds -> Task]
        BY <2>1, <2>4 DEF SyncResponse
    <2>6. TypeOK'
        BY <2>1, <2>5 DEF SyncResponse, TypeOK, Handlers, env
    <2> QED
        BY <2>4, <2>6 DEF TasksHavePremints
<1>8. CASE RequestSync \/ ForwardCommand
    BY <1>8, CommandType
    DEF RequestSync, ForwardCommand, StartSend, TypeOK, Handlers, env, TasksHavePremints
<1>9. CASE \E id \in Ids : ResolveOnchainMint(id)
    <2>1. PICK id \in Ids : ResolveOnchainMint(id)
        BY <1>9
    <2> DEFINE c == [kind |-> V2, id |-> id, chain_id |-> ChainOf[id]]
    <2>2. c \in ClaimType
        BY ChainAssumption DEF ClaimType, Kinds
    <2>a. db' = db \/ db' = MarkSeenOnChain(db, c, PruneMinted)
        BY <2>1 DEF ResolveOnchainMint
    <2> HIDE DEF c
    <2>b. MarkSeenOnChain(db, c, PruneMinted) \in Table
        BY <1>0, <2>2, MarkSeenEffect, SwitchAssumption
    <2>3. db' \in Table
        BY <1>0, <2>a, <2>b
    <2>4. TypeOK'
        BY <2>1, <2>3, CommandType DEF ResolveOnchainMint, StartSend, TypeOK, Handlers, env
    <2> QED
        BY <2>1, <2>4 DEF ResolveOnchainMint, StartSend, TasksHavePremints
<1>10. CASE \E c \in Claims : MintSeenOnchainVerified(c) \/ MintSeenOnchainTrusted(c)
    BY <1>10, MarkFromPeerType DEF MintSeenOnchainVerified, MintSeenOnchainTrusted
<1>11. CASE \E c \in Claims : MintSeenOnchainPanics(c)
    BY <1>11 DEF MintSeenOnchainPanics, TypeOK, Handlers, env, TasksHavePremints
<1>12. CASE \E id \in Ids : ChainMint(id)
    BY <1>12 DEF ChainMint, TypeOK, TasksHavePremints
<1>13. CASE SwarmTakes
    <2>1. swarmQ' \in Seq(Commands) /\ Len(swarmQ') <= Capacity
        BY <1>0, <1>13, BoundAssumption DEF SwarmTakes, TypeOK
    <2> QED
        BY <1>13, <2>1 DEF SwarmTakes, TypeOK, env, TasksHavePremints
<1>14. CASE SwarmStops
    <2>1. swarmUp' \in BOOLEAN
        BY <1>14 DEF SwarmStops
    <2>2. swarmQ' \in Seq(Commands) /\ Len(swarmQ') <= Capacity
        BY <1>14, BoundAssumption DEF SwarmStops
    <2> QED
        BY <1>14, <2>1, <2>2 DEF SwarmStops, TypeOK, TasksHavePremints
<1>15. CASE Restart
    BY <1>15, EmptyTableType, NoTasksType, BoundAssumption
    DEF Restart, TypeOK, Handlers, TasksHavePremints, HasPremint, NoTasks, NoTask
<1> QED
    BY <1>1, <1>2, <1>3, <1>4, <1>5, <1>6, <1>7, <1>8, <1>9, <1>10, <1>11, <1>12,
       <1>13, <1>14, <1>15
    DEF Next, HandlerStep

LEMMA TypeInvariant == Spec => [](TypeInv /\ SendingCommand)
<1>1. Init => TypeInv /\ SendingCommand
    BY InitType DEF Init, SendingCommand
<1>2. TypeInv /\ SendingCommand /\ [Next]_vars => (TypeInv /\ SendingCommand)'
    <2> SUFFICES ASSUME TypeInv, SendingCommand, [Next]_vars
                 PROVE  TypeInv' /\ SendingCommand'
        OBVIOUS
    <2>1. CASE Next
        BY <2>1, NextType, SendingStep
    <2>2. CASE UNCHANGED vars
        BY <2>2 DEF vars, TypeInv, TypeOK, TasksHavePremints, SendingCommand
    <2> QED
        BY <2>1, <2>2
<1> QED
    BY <1>1, <1>2, PTL DEF Spec

(***************************************************************************)
(* Every variable keeps its type and the channel to the swarm its bound,   *)
(* whatever premints, claims, errors and restarts the node meets.          *)
(***************************************************************************)
THEOREM TypeCorrect == Spec => []TypeOK
<1>1. TypeInv => TypeOK
    BY DEF TypeInv
<1> QED
    BY <1>1, TypeInvariant, PTL

-----------------------------------------------------------------------------
(***************************************************************************)
(* The writes.  Only three statements change the table: the upsert of a    *)
(* call that has been evaluated, the mark for a claim that the chain or a  *)
(* trusted peer backs, and starting again with an empty database.          *)
(***************************************************************************)
BackedClaim(c) == c.id \in minted \/ Mode = "trust"

LEMMA DbStep ==
    ASSUME TypeInv, Next
    PROVE  \/ db' = db
           \/ \E t \in TaskIds : Store(t)
           \/ \E c \in ClaimType : /\ BackedClaim(c)
                                   /\ db' = MarkSeenOnChain(db, c, PruneMinted)
           \/ Restart /\ ~PersistState /\ db' = EmptyTable
<1>1. CASE HandlerStep
    BY <1>1 DEF HandlerStep, CallStep, AcquirePermit, LookupExisting, LookupFails,
        CheckTokenUri, CheckChain, RuleAnswers, StoreFails, Reject, EventDone,
        BroadcastValidated, SendCommand, SendFails, Reply
<1>2. CASE (\E p \in Premints : PremintReceived(p) \/ Broadcast(p))
           \/ (\E n \in TaskIds : \E batch \in Batches(n) : SyncResponse(n, batch))
           \/ RequestSync \/ ForwardCommand
    BY <1>2 DEF PremintReceived, Broadcast, SyncResponse, RequestSync, ForwardCommand
<1>3. CASE \E id \in Ids : ResolveOnchainMint(id)
    <2>1. PICK id \in Ids : ResolveOnchainMint(id)
        BY <1>3
    <2> DEFINE c == [kind |-> V2, id |-> id, chain_id |-> ChainOf[id]]
    <2>2. c \in ClaimType /\ BackedClaim(c)
        BY <2>1, ChainAssumption DEF ClaimType, Kinds, BackedClaim, ResolveOnchainMint
    <2>3. db' = db \/ db' = MarkSeenOnChain(db, c, PruneMinted)
        BY <2>1 DEF ResolveOnchainMint
    <2> HIDE DEF c
    <2> QED
        BY <2>2, <2>3
<1>4. CASE \E c \in Claims : \/ MintSeenOnchainVerified(c) \/ MintSeenOnchainPanics(c)
                            \/ MintSeenOnchainTrusted(c)
    BY <1>4, ClaimAssumption DEF MintSeenOnchainVerified, MintSeenOnchainPanics,
        MintSeenOnchainTrusted, MarkFromPeer, ClaimCorrect, BackedClaim
<1>5. CASE (\E id \in Ids : ChainMint(id)) \/ SwarmTakes \/ SwarmStops \/ Restart
    BY <1>5 DEF ChainMint, SwarmTakes, SwarmStops, Restart
<1> QED
    BY <1>1, <1>2, <1>3, <1>4, <1>5 DEF Next

(* What a step can do to one row. *)
RowKept(k)      == db'[k] = db[k]
RowInserted(k)  == \E t \in TaskIds : /\ Store(t) /\ db[k] = NoRow
                                     /\ tasks[t].premint \in Premints
                                     /\ k = Key(tasks[t].premint)
                                     /\ db'[k] = Inserted(tasks[t].premint)
RowOverwritten(k) == \E t \in TaskIds :
    /\ Store(t) /\ db[k] \in Row /\ db[k] # NoRow
    /\ tasks[t].premint \in Premints /\ k = Key(tasks[t].premint)
    /\ db'[k] = Overwritten(db[k], tasks[t].premint)
    /\ AsI64(tasks[t].premint.version) > db[k].version
RowMarked(k)    == /\ k[2] \in minted \/ Mode = "trust"
                   /\ db[k] \in Row /\ db[k] # NoRow /\ ~PruneMinted
                   /\ db'[k] = [db[k] EXCEPT !.seen_on_chain = TRUE]
RowPruned(k)    == /\ k[2] \in minted \/ Mode = "trust"
                   /\ db[k] # NoRow /\ PruneMinted /\ db'[k] = NoRow
RowForgotten(k) == Restart /\ ~PersistState /\ db' = EmptyTable /\ db'[k] = NoRow

LEMMA RowStep ==
    ASSUME TypeInv, Next, NEW k \in Keys
    PROVE  \/ RowKept(k) \/ RowInserted(k) \/ RowOverwritten(k)
           \/ RowMarked(k) \/ RowPruned(k) \/ RowForgotten(k)
<1>0. db \in Table
    BY DEF TypeInv, TypeOK
<1>1. CASE db' = db
    BY <1>1 DEF RowKept
<1>2. CASE \E t \in TaskIds : Store(t)
    <2>1. PICK t \in TaskIds : Store(t)
        BY <1>2
    <2> DEFINE p == tasks[t].premint
    <2>2. p \in Premints
        BY <2>1 DEF TypeInv, TasksHavePremints, HasPremint, Store, Evaluated
    <2>3. db' = Upsert(db, p)
        BY <2>1 DEF Store
    <2>4. CASE k # Key(p) \/ ~RowsAffected(db, p)
        BY <1>0, <2>2, <2>3, <2>4, UpsertEffect DEF RowKept
    <2>5. CASE k = Key(p) /\ RowsAffected(db, p) /\ db[k] = NoRow
        <3>1. db'[k] = Inserted(p)
            BY <1>0, <2>2, <2>3, <2>5, UpsertEffect
        <3> QED
            BY <2>1, <2>2, <2>5, <3>1 DEF RowInserted
    <2>6. CASE k = Key(p) /\ RowsAffected(db, p) /\ db[k] # NoRow
        <3>1. db'[k] = Overwritten(db[k], p) /\ AsI64(p.version) > db[k].version
            BY <1>0, <2>2, <2>3, <2>6, UpsertEffect
        <3>2. db[k] \in Row
            BY <1>0, <2>6, RowOrNone
        <3> QED
            BY <2>1, <2>2, <2>6, <3>1, <3>2 DEF RowOverwritten
    <2> QED
        BY <2>4, <2>5, <2>6
<1>3. CASE \E c \in ClaimType : BackedClaim(c) /\ db' = MarkSeenOnChain(db, c, PruneMinted)
    <2>1. PICK c \in ClaimType : BackedClaim(c) /\ db' = MarkSeenOnChain(db, c, PruneMinted)
        BY <1>3
    <2>2. CASE k # ClaimKey(c) \/ db' = db
        <3>1. \A m \in Keys : m # ClaimKey(c) =>
                  MarkSeenOnChain(db, c, PruneMinted)[m] = db[m]
            BY <1>0, MarkSeenEffect, SwitchAssumption
        <3> QED
            BY <2>1, <2>2, <3>1 DEF RowKept
    <2>3. CASE k = ClaimKey(c) /\ db' # db
        <3>1. k[2] \in minted \/ Mode = "trust"
            BY <2>1, <2>3 DEF BackedClaim, ClaimKey
        <3>2. \/ db[k] # NoRow /\ PruneMinted /\ db'[k] = NoRow
              \/ /\ db[k] # NoRow /\ ~PruneMinted
                 /\ db'[k] = [db[k] EXCEPT !.seen_on_chain = TRUE]
            BY <1>0, <2>1, <2>3, MarkSeenEffect, SwitchAssumption
        <3>3. db[k] # NoRow => db[k] \in Row
            BY <1>0, RowOrNone
        <3> QED
            BY <3>1, <3>2, <3>3 DEF RowMarked, RowPruned
    <2> QED
        BY <2>2, <2>3
<1>4. CASE Restart /\ ~PersistState /\ db' = EmptyTable
    BY <1>4 DEF RowForgotten, EmptyTable
<1> QED
    BY <1>1, <1>2, <1>3, <1>4, DbStep

(* The fields of a row after a step, for the proofs below. *)
LEMMA RowFields ==
    ASSUME TypeInv, NEW k \in Keys, db[k] # NoRow, db'[k] # NoRow,
           RowKept(k) \/ RowInserted(k) \/ RowOverwritten(k)
              \/ RowMarked(k) \/ RowPruned(k) \/ RowForgotten(k)
    PROVE  \/ /\ db'[k].json = db[k].json /\ db'[k].version = db[k].version
              /\ db'[k].seen_on_chain = db[k].seen_on_chain
                 \/ (db'[k].seen_on_chain /\ (k[2] \in minted \/ Mode = "trust"))
           \/ \E t \in TaskIds :
                 /\ Store(t) /\ tasks[t].premint \in Premints
                 /\ k = Key(tasks[t].premint)
                 /\ db'[k].json = tasks[t].premint
                 /\ db'[k].version = AsI64(tasks[t].premint.version)
                 /\ db'[k].version > db[k].version
                 /\ db'[k].seen_on_chain = db[k].seen_on_chain
<1>1. CASE RowKept(k)
    BY <1>1 DEF RowKept
<1>2. CASE RowOverwritten(k)
    BY <1>2, OverwrittenRow DEF RowOverwritten
<1>3. CASE RowMarked(k)
    BY <1>3 DEF RowMarked, Row
<1>4. CASE RowInserted(k) \/ RowPruned(k) \/ RowForgotten(k)
    BY <1>4 DEF RowInserted, RowPruned, RowForgotten
<1> QED
    BY <1>1, <1>2, <1>3, <1>4

(***************************************************************************)
(* Concurrent syncs, failed rules and restarts never replace a stored      *)
(* premint by another one of the same or a lower version column.           *)
(***************************************************************************)
THEOREM VersionsAlwaysRise == Spec => VersionsRise
<1>1. TypeInv /\ [Next]_vars =>
        [\A k \in Keys : Both(k) =>
            \/ db'[k].json = db[k].json
            \/ db'[k].version > db[k].version]_vars
    <2> SUFFICES ASSUME TypeInv, Next, NEW k \in Keys, Both(k)
                 PROVE  \/ db'[k].json = db[k].json
                        \/ db'[k].version > db[k].version
        BY DEF vars
    <2> QED
        BY RowStep, RowFields DEF Both
<1> QED
    BY <1>1, TypeInvariant, PTL DEF Spec, VersionsRise

(***************************************************************************)
(* A row marked as seen on chain is never served again while it exists.    *)
(***************************************************************************)
THEOREM SeenAlwaysStaysSeen == Spec => SeenStaysSeen
<1>1. TypeInv /\ [Next]_vars =>
        [\A k \in Keys : Both(k) /\ db[k].seen_on_chain => db'[k].seen_on_chain]_vars
    <2> SUFFICES ASSUME TypeInv, Next, NEW k \in Keys, Both(k), db[k].seen_on_chain
                 PROVE  db'[k].seen_on_chain
        BY DEF vars
    <2> QED
        BY RowStep, RowFields DEF Both
<1> QED
    BY <1>1, TypeInvariant, PTL DEF Spec, SeenStaysSeen

(***************************************************************************)
(* No claim of a peer, however wrong, retires a premint that the chain has *)
(* not minted, unless the node is configured to trust peers.               *)
(***************************************************************************)
THEOREM RetiredAlwaysMinted == Spec => RetiredOnlyIfMinted
<1>1. TypeInv /\ [Next]_vars =>
        [\A k \in Keys :
            /\ db[k] # NoRow /\ ~db[k].seen_on_chain
            /\ db'[k] = NoRow \/ db'[k].seen_on_chain
            => \/ k[2] \in minted \/ Mode = "trust"
               \/ ~PersistState /\ db' = EmptyTable]_vars
    <2> SUFFICES ASSUME TypeInv, Next, NEW k \in Keys,
                        db[k] # NoRow, ~db[k].seen_on_chain,
                        db'[k] = NoRow \/ db'[k].seen_on_chain
                 PROVE  \/ k[2] \in minted \/ Mode = "trust"
                        \/ ~PersistState /\ db' = EmptyTable
        BY DEF vars
    <2>1. CASE db'[k] # NoRow
        BY <2>1, RowStep, RowFields
    <2>2. CASE db'[k] = NoRow
        <3>1. CASE RowKept(k) \/ RowPruned(k) \/ RowForgotten(k)
            BY <2>2, <3>1 DEF RowKept, RowPruned, RowForgotten
        <3>2. CASE RowMarked(k)
            BY <3>2 DEF RowMarked
        <3>3. CASE RowInserted(k) \/ RowOverwritten(k)
            BY <2>2, <3>3, InsertedRow, OverwrittenRow, NoneAssumption
            DEF RowInserted, RowOverwritten
        <3> QED
            BY <3>1, <3>2, <3>3, RowStep
    <2> QED
        BY <2>1, <2>2
<1> QED
    BY <1>1, TypeInvariant, PTL DEF Spec, RetiredOnlyIfMinted

-----------------------------------------------------------------------------
(***************************************************************************)
(* Rows and their json agree: every row is written as a whole by one       *)
(* premint of its key, or keeps its key when overwritten.                  *)
(***************************************************************************)
THEOREM RowsAlwaysAgree == Spec => []RowsAgree
<1>1. Init => RowsAgree
    BY DEF Init, RowsAgree, RowKeys, EmptyTable
<1>2. TypeInv /\ RowsAgree /\ [Next]_vars => RowsAgree'
    <2> SUFFICES ASSUME TypeInv, RowsAgree, [Next]_vars, NEW k \in Keys, db'[k] # NoRow
                 PROVE  Key(db'[k].json) = k /\ db'[k].version = AsI64(db'[k].json.version)
        BY DEF RowsAgree, RowKeys
    <2>1. CASE UNCHANGED vars
        BY <2>1 DEF vars, RowsAgree, RowKeys
    <2>2. CASE Next /\ db[k] # NoRow
        <3>1. Key(db[k].json) = k /\ db[k].version = AsI64(db[k].json.version)
            BY <2>2 DEF RowsAgree, RowKeys
        <3> QED
            BY <2>2, <3>1, RowStep, RowFields
    <2>3. CASE Next /\ db[k] = NoRow
        <3>1. RowInserted(k)
            BY <2>3, RowStep
            DEF RowKept, RowOverwritten, RowMarked, RowPruned, RowForgotten
        <3> QED
            BY <3>1 DEF RowInserted, Inserted
    <2> QED
        BY <2>1, <2>2, <2>3
<1> QED
    BY <1>1, <1>2, TypeInvariant, PTL DEF Spec

-----------------------------------------------------------------------------
(***************************************************************************)
(* A call whose premint has another signer than the row it looked up has a *)
(* rejection among its results, from the lookup on.                        *)
(***************************************************************************)
MismatchNoted(task) ==
    task.pc = "check" /\ task.existing # NoPremint
        /\ task.premint.signer # task.existing.signer => "reject" \in task.results
MismatchInv == \A t \in TaskIds : MismatchNoted(tasks[t])

LEMMA MismatchOther ==
    ASSUME NEW task, task.pc # "check"
    PROVE  MismatchNoted(task)
BY DEF MismatchNoted

LEMMA MismatchTaskStep ==
    ASSUME TypeInv, MismatchInv, NEW t \in TaskIds, NEW task, MismatchNoted(task),
           TaskStep(t, task)
    PROVE  MismatchInv'
<1>1. tasks' = [tasks EXCEPT ![t] = task] /\ tasks \in [TaskIds -> Task]
    BY DEF TypeInv, TypeOK, TaskStep
<1> QED
    BY <1>1 DEF MismatchInv

LEMMA MismatchCallStep ==
    ASSUME TypeInv, MismatchInv, NEW t \in TaskIds, CallStep(t)
    PROVE  MismatchInv'
<1> DEFINE task == tasks[t]
<1>1. task \in Task /\ HasPremint(task) /\ db \in Table /\ MismatchNoted(task)
    BY DEF TypeInv, TypeOK, TasksHavePremints, MismatchInv
<1>2. CASE AcquirePermit(t)
    <2>1. [task EXCEPT !.pc = "lookup"].pc # "check"
        BY <1>1 DEF Task
    <2> QED
        BY <1>2, <2>1, MismatchOther, MismatchTaskStep DEF AcquirePermit
<1>3. CASE LookupExisting(t)
    <2> DEFINE p == task.premint
               existing == GetForIdAndKind(db, Key(p))
    <2>1. PICK rpc \in BOOLEAN :
              TaskStep(t, [task EXCEPT
                  !.pc = "check", !.existing = existing,
                  !.pending = {"uri"} \cup (IF ChainRules(p, rpc) THEN {"chain"} ELSE {}),
                  !.results = OnlyFailures(LocalRules(p, existing))])
        BY <1>3 DEF LookupExisting
    <2> DEFINE new == [task EXCEPT
                  !.pc = "check", !.existing = existing,
                  !.pending = {"uri"} \cup (IF ChainRules(p, rpc) THEN {"chain"} ELSE {}),
                  !.results = OnlyFailures(LocalRules(p, existing))]
    <2> HIDE DEF existing
    <2>2. /\ new.premint = p /\ new.existing = existing
          /\ new.results = OnlyFailures(LocalRules(p, existing))
        BY <1>1 DEF Task
    <2>3. existing # NoPremint /\ p.signer # existing.signer =>
              "reject" \in OnlyFailures(LocalRules(p, existing))
        BY DEF OnlyFailures, LocalRules, SignerMatches, Verdict, Failures
    <2>4. MismatchNoted(new)
        BY <2>2, <2>3 DEF MismatchNoted
    <2> QED
        BY <2>1, <2>4, MismatchTaskStep
<1>4. ASSUME NEW rule, NEW outcomes, RuleAnswers(t, rule, outcomes)
      PROVE  MismatchInv'
    <2> DEFINE new == [task EXCEPT !.pending = @ \ {rule},
                                   !.results = @ \cup OnlyFailures(outcomes)]
    <2>1. /\ new.pc = task.pc /\ new.premint = task.premint
          /\ new.existing = task.existing
          /\ new.results = task.results \cup OnlyFailures(outcomes)
        BY <1>1 DEF Task
    <2>2. MismatchNoted(new)
        BY <1>1, <2>1 DEF MismatchNoted
    <2> QED
        BY <1>4, <2>2, MismatchTaskStep DEF RuleAnswers
<1>5. CASE CheckTokenUri(t) \/ CheckChain(t)
    BY <1>4, <1>5 DEF CheckTokenUri, CheckChain
<1>6. CASE LookupFails(t) \/ Store(t) \/ StoreFails(t) \/ Reject(t)
    <2>1. PICK outcome \in {"stored", "refused", "rejected", "failed"} :
              TaskStep(t, Ended(task, outcome))
        BY <1>6 DEF LookupFails, Store, StoreFails, Reject
    <2>2. Ended(task, outcome).pc = "done"
        BY <1>1, EndedType
    <2> QED
        BY <2>1, <2>2, MismatchOther, MismatchTaskStep
<1> QED
    BY <1>2, <1>3, <1>5, <1>6 DEF CallStep

LEMMA MismatchStep ==
    ASSUME TypeInv, MismatchInv, Next
    PROVE  MismatchInv'
<1>0. MismatchNoted(NoTask)
    BY DEF MismatchNoted, NoTask
<1>1. CASE \E t \in TaskIds : CallStep(t)
    BY <1>1, MismatchCallStep
<1>2. CASE tasks' = tasks
    BY <1>2 DEF MismatchInv
<1>3. CASE tasks' = NoTasks
    BY <1>0, <1>3 DEF MismatchInv, NoTasks
<1>4. CASE \E p \in Premints : PremintReceived(p) \/ Broadcast(p)
    <2>1. PICK p \in Premints : tasks' = [NoTasks EXCEPT ![1] = Call(p, "lookup")]
        BY <1>4 DEF PremintReceived, Broadcast
    <2>2. MismatchNoted(Call(p, "lookup"))
        BY DEF MismatchNoted, Call, NoTask
    <2> QED
        BY <1>0, <2>1, <2>2 DEF MismatchInv, NoTasks
<1>5. CASE \E n \in TaskIds : \E batch \in Batches(n) : SyncResponse(n, batch)
    <2>0. PICK n \in TaskIds : \E batch \in Batches(n) : SyncResponse(n, batch)
        BY <1>5
    <2>1. PICK batch \in Batches(n) : SyncResponse(n, batch)
        BY <2>0
    <2>2. \A p : MismatchNoted(Call(p, "wait"))
        BY DEF MismatchNoted, Call, NoTask
    <2> QED
        BY <1>0, <2>1, <2>2 DEF MismatchInv, SyncResponse
<1>6. \/ \E t \in TaskIds : CallStep(t)
      \/ tasks' = tasks \/ tasks' = NoTasks
      \/ \E p \in Premints : PremintReceived(p) \/ Broadcast(p)
      \/ \E n \in TaskIds : \E batch \in Batches(n) : SyncResponse(n, batch)
    BY DEF Next, HandlerStep, EventDone, BroadcastValidated, SendCommand, SendFails,
        Reply, RequestSync, ForwardCommand, StartSend, ResolveOnchainMint, ChainMint,
        MintSeenOnchainVerified, MintSeenOnchainPanics, MintSeenOnchainTrusted,
        MarkFromPeer, SwarmTakes, SwarmStops, Restart
<1> QED
    BY <1>1, <1>2, <1>3, <1>4, <1>5, <1>6

(***************************************************************************)
(* A stored premint changes hands only through an evaluation that hit an   *)
(* error or that looked at an outdated row: in particular never through a  *)
(* single error-free submission, gossip message or one-premint sync.       *)
(***************************************************************************)
THEOREM SignerOnlyByErrorOrRace == Spec => SignerChangesByErrorOrRace
<1>1. Init => MismatchInv
    BY DEF Init, MismatchInv, MismatchNoted, NoTasks, NoTask
<1>2. TypeInv /\ MismatchInv /\ [Next]_vars => MismatchInv'
    <2> SUFFICES ASSUME TypeInv, MismatchInv, [Next]_vars PROVE MismatchInv'
        OBVIOUS
    <2>1. CASE UNCHANGED vars
        BY <2>1 DEF vars, MismatchInv
    <2> QED
        BY <2>1, MismatchStep
<1>3. TypeInv /\ MismatchInv /\ [Next]_vars =>
        [\A k \in Keys : Both(k) /\ db'[k].json.signer # db[k].json.signer =>
            \E t \in TaskIds :
                /\ Evaluated(t) /\ tasks[t].premint = db'[k].json
                /\ IsErr(tasks[t].results) \/ tasks[t].existing # db[k].json]_vars
    <2> SUFFICES ASSUME TypeInv, MismatchInv, Next, NEW k \in Keys, Both(k),
                        db'[k].json.signer # db[k].json.signer
                 PROVE  \E t \in TaskIds :
                            /\ Evaluated(t) /\ tasks[t].premint = db'[k].json
                            /\ IsErr(tasks[t].results) \/ tasks[t].existing # db[k].json
        BY DEF vars
    <2>1. PICK t \in TaskIds : Store(t) /\ db'[k].json = tasks[t].premint
        BY RowStep, RowFields DEF Both
    <2>2. Evaluated(t) /\ IsAccept(tasks[t].results) /\ MismatchNoted(tasks[t])
        BY <2>1 DEF Store, MismatchInv
    <2>3. db[k].json # NoPremint
        <3>1. db[k] \in Row
            BY RowOrNone DEF TypeInv, TypeOK, Both
        <3> QED
            BY <3>1, NoneAssumption DEF Row
    <2>4. IsErr(tasks[t].results) \/ tasks[t].existing # db[k].json
        BY <2>1, <2>2, <2>3 DEF MismatchNoted, Evaluated, IsAccept, IsReject
    <2> QED
        BY <2>1, <2>2, <2>4
<1> QED
    BY <1>1, <1>2, <1>3, TypeInvariant, PTL DEF Spec, SignerChangesByErrorOrRace

-----------------------------------------------------------------------------
(***************************************************************************)
(* Broadcasts.  A handler that is not validating has no call, and one that *)
(* validates a single premint has only the first: nothing can write while  *)
(* a stored premint waits to be passed to the swarm.                       *)
(***************************************************************************)
CallsOfHandler ==
    /\ handler \notin {"premint", "broadcast", "sync"} => tasks = NoTasks
    /\ handler = "broadcast" => \A t \in TaskIds : t # 1 => tasks[t].pc = "none"

Backed(p) == p \in Premints /\ db[Key(p)] # NoRow /\ db[Key(p)].json = p

BroadcastBacked ==
    /\ handler = "broadcast" /\ tasks[1].pc = "done" /\ tasks[1].outcome = "stored"
          => Backed(tasks[1].premint)
    /\ handler = "send" /\ outgoing.type = "broadcast" => Backed(outgoing.premint)
    /\ handler = "reply" /\ answer = "ok" => Backed(outgoing.premint)

BroadcastInv == CallsOfHandler /\ BroadcastBacked

(* A call can only step while its handler validates. *)
LEMMA CallStepHandler ==
    ASSUME TypeInv, BroadcastInv, NEW t \in TaskIds, CallStep(t)
    PROVE  /\ handler \in {"premint", "broadcast", "sync"}
           /\ handler = "broadcast" => t = 1
           /\ tasks[t].pc \in {"wait", "lookup", "check"}
           /\ UNCHANGED <<handler, outgoing, answer>>
           /\ \E task : TaskStep(t, task)
<1>1. tasks[t].pc \in {"wait", "lookup", "check"} /\ \E task : TaskStep(t, task)
    BY DEF CallStep, AcquirePermit, LookupExisting, LookupFails, CheckTokenUri,
        CheckChain, RuleAnswers, Awaiting, Evaluated, Store, StoreFails, Reject
<1>2. handler \in {"premint", "broadcast", "sync"}
    BY <1>1 DEF BroadcastInv, CallsOfHandler, NoTasks, NoTask
<1>3. handler = "broadcast" => t = 1
    BY <1>1 DEF BroadcastInv, CallsOfHandler
<1> QED
    BY <1>1, <1>2, <1>3 DEF TaskStep

LEMMA BroadcastCallStep ==
    ASSUME TypeInv, BroadcastInv, NEW t \in TaskIds, CallStep(t)
    PROVE  BroadcastInv'
<1>0. tasks[t] \in Task /\ HasPremint(tasks[t]) /\ db \in Table
      /\ tasks \in [TaskIds -> Task]
    BY DEF TypeInv, TypeOK, TasksHavePremints
<1>1. CallsOfHandler'
    <2>1. PICK task : tasks' = [tasks EXCEPT ![t] = task]
        BY CallStepHandler DEF TaskStep
    <2> QED
        BY <2>1, <1>0, CallStepHandler DEF BroadcastInv, CallsOfHandler
<1>2. CASE handler # "broadcast"
    BY <1>1, <1>2, CallStepHandler DEF BroadcastInv, BroadcastBacked
<1>3. CASE handler = "broadcast" /\ ~Store(1)
    <2>1. t = 1 /\ handler' = "broadcast"
        BY <1>3, CallStepHandler
    <2>2. CASE LookupFails(1) \/ StoreFails(1) \/ Reject(1)
        <3>1. PICK outcome \in {"rejected", "failed"} : TaskStep(1, Ended(tasks[1], outcome))
            BY <2>2 DEF LookupFails, StoreFails, Reject
        <3>2. tasks'[1].outcome = outcome
            BY <1>0, <2>1, <3>1, EndedType DEF TaskStep
        <3> QED
            BY <1>1, <2>1, <3>2 DEF BroadcastInv, BroadcastBacked
    <2>3. CASE AcquirePermit(1) \/ LookupExisting(1) \/ CheckTokenUri(1) \/ CheckChain(1)
        <3>1. tasks'[1].pc # "done"
            <4>1. CASE AcquirePermit(1)
                BY <1>0, <2>1, <4>1 DEF AcquirePermit, TaskStep, Task
            <4>2. CASE LookupExisting(1)
                <5>1. \E e, pend, res : TaskStep(1, [tasks[1] EXCEPT !.pc = "check",
                          !.existing = e, !.pending = pend, !.results = res])
                    BY <4>2 DEF LookupExisting
                <5> QED
                    BY <1>0, <2>1, <5>1 DEF TaskStep, Task
            <4>3. CASE CheckTokenUri(1) \/ CheckChain(1)
                <5>1. tasks[1].pc = "check" /\ \E pend, res :
                          TaskStep(1, [tasks[1] EXCEPT !.pending = pend, !.results = res])
                    BY <4>3 DEF CheckTokenUri, CheckChain, RuleAnswers, Awaiting
                <5> QED
                    BY <1>0, <2>1, <5>1 DEF TaskStep, Task
            <4> QED
                BY <2>3, <4>1, <4>2, <4>3
        <3> QED
            BY <1>1, <2>1, <3>1 DEF BroadcastInv, BroadcastBacked
    <2> QED
        BY <1>3, <2>1, <2>2, <2>3 DEF CallStep
<1>4. CASE handler = "broadcast" /\ Store(1)
    <2> DEFINE p == tasks[1].premint
    <2>1. t = 1 /\ handler' = "broadcast"
        BY <1>4, CallStepHandler
    <2>2. p \in Premints
        BY <1>0, <1>4, <2>1 DEF Store, Evaluated, HasPremint
    <2>3. CASE RowsAffected(db, p)
        <3>1. Key(p) \in Keys /\ db' = Upsert(db, p)
            BY <1>4, <2>2, PremintFields DEF Store
        <3>2. db'[Key(p)] = Inserted(p) \/ (db[Key(p)] \in Row /\ db'[Key(p)] = Overwritten(db[Key(p)], p))
            BY <1>0, <2>2, <2>3, <3>1, UpsertEffect, RowOrNone
        <3>3. db'[Key(p)] # NoRow /\ db'[Key(p)].json = p
            <4>1. CASE db'[Key(p)] = Inserted(p)
                BY <2>2, <4>1, InsertedRow, NoneAssumption DEF Inserted
            <4>2. CASE db[Key(p)] \in Row /\ db'[Key(p)] = Overwritten(db[Key(p)], p)
                BY <2>2, <4>2, OverwrittenRow, NoneAssumption
            <4> QED
                BY <3>2, <4>1, <4>2
        <3>4. tasks'[1] = Ended(tasks[1], "stored")
            BY <1>0, <1>4, <2>1, <2>3 DEF Store, TaskStep
        <3>5. tasks'[1].premint = p
            BY <1>0, <2>1, <3>4, EndedType
        <3>6. BroadcastBacked'
            BY <2>1, <2>2, <3>3, <3>5 DEF BroadcastBacked, Backed
        <3> QED
            BY <1>1, <3>6 DEF BroadcastInv
    <2>4. CASE ~RowsAffected(db, p)
        <3>1. tasks'[1] = Ended(tasks[1], "refused")
            BY <1>0, <1>4, <2>1, <2>4 DEF Store, TaskStep
        <3>2. tasks'[1].outcome # "stored"
            BY <1>0, <2>1, <3>1, EndedType
        <3> QED
            BY <1>1, <2>1, <3>2 DEF BroadcastInv, BroadcastBacked
    <2> QED
        BY <2>3, <2>4
<1> QED
    BY <1>2, <1>3, <1>4

LEMMA BroadcastStep ==
    ASSUME TypeInv, BroadcastInv, Next
    PROVE  BroadcastInv'
<1>1. CASE \E t \in TaskIds : CallStep(t)
    BY <1>1, BroadcastCallStep
<1>2. CASE EventDone
    BY <1>2 DEF EventDone, BroadcastInv, CallsOfHandler, BroadcastBacked
<1>3. CASE BroadcastValidated
    BY <1>3 DEF BroadcastValidated, BroadcastInv, CallsOfHandler, BroadcastBacked, Backed
<1>4. CASE SendCommand \/ SendFails \/ Reply
    BY <1>4 DEF SendCommand, SendFails, Reply, BroadcastInv, CallsOfHandler,
        BroadcastBacked, Backed
<1>5. CASE \E p \in Premints : PremintReceived(p) \/ Broadcast(p)
    <2>1. PICK p \in Premints : PremintReceived(p) \/ Broadcast(p)
        BY <1>5
    <2>2. /\ tasks' = [NoTasks EXCEPT ![1] = Call(p, "lookup")]
          /\ handler' \in {"premint", "broadcast"}
        BY <2>1 DEF PremintReceived, Broadcast
    <2>3. /\ tasks'[1].pc = "lookup"
          /\ \A t \in TaskIds : t # 1 => tasks'[t].pc = "none"
        BY <2>2, TaskOne DEF NoTasks, NoTask, Call
    <2> QED
        BY <2>2, <2>3 DEF BroadcastInv, CallsOfHandler, BroadcastBacked
<1>6. CASE \E n \in TaskIds : \E batch \in Batches(n) : SyncResponse(n, batch)
    BY <1>6 DEF SyncResponse, BroadcastInv, CallsOfHandler, BroadcastBacked
<1>7. CASE \/ RequestSync \/ ForwardCommand \/ \E id \in Ids : ResolveOnchainMint(id)
    <2>1. /\ handler = "idle" /\ handler' = "send"
          /\ outgoing'.type # "broadcast" /\ UNCHANGED tasks
        <3>1. CASE RequestSync \/ ForwardCommand
            BY <3>1 DEF RequestSync, ForwardCommand, StartSend
        <3>2. CASE \E id \in Ids : ResolveOnchainMint(id)
            <4>1. PICK id \in Ids : handler = "idle" /\ StartSend([type |-> "claim", id |-> id])
                BY <3>2 DEF ResolveOnchainMint
            <4> QED
                BY <4>1 DEF StartSend
        <3> QED
            BY <1>7, <3>1, <3>2
    <2> QED
        BY <2>1 DEF BroadcastInv, CallsOfHandler, BroadcastBacked
<1>8. CASE \E c \in Claims : \/ MintSeenOnchainVerified(c) \/ MintSeenOnchainPanics(c)
                            \/ MintSeenOnchainTrusted(c)
    BY <1>8 DEF MintSeenOnchainVerified, MintSeenOnchainPanics, MintSeenOnchainTrusted,
        MarkFromPeer, BroadcastInv, CallsOfHandler, BroadcastBacked
<1>9. CASE (\E id \in Ids : ChainMint(id)) \/ SwarmTakes \/ SwarmStops
    BY <1>9 DEF ChainMint, SwarmTakes, SwarmStops, BroadcastInv, CallsOfHandler,
        BroadcastBacked, Backed
<1>10. CASE Restart
    BY <1>10 DEF Restart, BroadcastInv, CallsOfHandler, BroadcastBacked
<1> QED
    BY <1>1, <1>2, <1>3, <1>4, <1>5, <1>6, <1>7, <1>8, <1>9, <1>10 DEF Next, HandlerStep

LEMMA BroadcastInvariant == Spec => []BroadcastInv
<1>1. Init => BroadcastInv
    BY DEF Init, BroadcastInv, CallsOfHandler, BroadcastBacked
<1>2. TypeInv /\ BroadcastInv /\ [Next]_vars => BroadcastInv'
    <2> SUFFICES ASSUME TypeInv, BroadcastInv, [Next]_vars PROVE BroadcastInv'
        OBVIOUS
    <2>1. CASE UNCHANGED vars
        BY <2>1 DEF vars, BroadcastInv, CallsOfHandler, BroadcastBacked, Backed
    <2> QED
        BY <2>1, BroadcastStep
<1> QED
    BY <1>1, <1>2, TypeInvariant, PTL DEF Spec

(***************************************************************************)
(* When a client is told Ok, the table holds exactly the premint it sent,  *)
(* however long the handler had to wait for the swarm.                     *)
(***************************************************************************)
THEOREM AckedAlwaysStored == Spec => []AckedIsStored
<1>1. BroadcastInv => AckedIsStored
    BY DEF BroadcastInv, BroadcastBacked, Backed, AckedIsStored
<1> QED
    BY <1>1, BroadcastInvariant, PTL

-----------------------------------------------------------------------------
(***************************************************************************)
(* The channel.  Carried(p) is what QueuedBroadcastStored says of one      *)
(* queued premint; it survives every step but a restart, which drops the   *)
(* channel.                                                                *)
(***************************************************************************)
Carried(p) ==
    \/ db[Key(p)] # NoRow /\ db[Key(p)].version >= AsI64(p.version)
    \/ PruneMinted /\ (p.id \in minted \/ Mode = "trust")

LEMMA MintedGrows ==
    ASSUME TypeInv, Next
    PROVE  minted \subseteq minted'
BY DEF Next, HandlerStep, CallStep, AcquirePermit, LookupExisting, LookupFails,
    CheckTokenUri, CheckChain, RuleAnswers, Store, StoreFails, Reject, TaskStep,
    EventDone, BroadcastValidated, SendCommand, SendFails, Reply, PremintReceived,
    Broadcast, SyncResponse, RequestSync, ForwardCommand, StartSend,
    ResolveOnchainMint, ChainMint, MintSeenOnchainVerified, MintSeenOnchainPanics,
    MintSeenOnchainTrusted, MarkFromPeer, SwarmTakes, SwarmStops, Restart, env

LEMMA CarriedStep ==
    ASSUME TypeInv, TypeInv', Next, NEW p \in Premints, Carried(p), ~Restart
    PROVE  Carried(p)'
<1> DEFINE k == Key(p)
<1>1. k \in Keys /\ k[2] = p.id /\ AsI64(p.version) \in Int
    BY PremintFields, CastRange, HalfAssumption DEF Key
<1>2. /\ db[k] = NoRow \/ db[k].version \in Int
      /\ db'[k] = NoRow \/ db'[k].version \in Int
    BY <1>1, RowOrNone DEF TypeInv, TypeOK, Row
<1>3. CASE PruneMinted /\ (p.id \in minted \/ Mode = "trust")
    BY <1>3, MintedGrows DEF Carried
<1>4. CASE db[k] # NoRow /\ db[k].version >= AsI64(p.version)
    <2> HIDE DEF k
    <2>1. CASE db'[k] # NoRow
        <3>1. db'[k].version = db[k].version \/ db'[k].version > db[k].version
            BY <1>1, <1>4, <2>1, RowStep, RowFields
        <3>2. db'[k].version >= AsI64(p.version)
            BY <1>1, <1>2, <1>4, <2>1, <3>1
        <3> QED
            BY <2>1, <3>2 DEF Carried, k
    <2>2. CASE db'[k] = NoRow
        <3>1. ~RowMarked(k)
            BY <2>2, NoneAssumption DEF RowMarked, Row
        <3>2. ~RowOverwritten(k)
            BY <2>2, OverwrittenRow, NoneAssumption DEF RowOverwritten
        <3>3. RowPruned(k)
            BY <1>1, <1>4, <2>2, <3>1, <3>2, RowStep
            DEF RowKept, RowInserted, RowForgotten
        <3> QED
            BY <1>1, <3>3, MintedGrows DEF RowPruned, Carried
    <2> QED
        BY <2>1, <2>2
<1> QED
    BY <1>3, <1>4 DEF Carried

(***************************************************************************)
(* Nothing is gossiped from this node's channel that its table does not    *)
(* back, at that version or a later one.                                   *)
(***************************************************************************)
THEOREM QueuedAlwaysStored == Spec => []QueuedBroadcastStored
<1> DEFINE IInv == TypeInv /\ SendingCommand /\ BroadcastInv /\ RowsAgree
<1>1. Init => QueuedBroadcastStored
    BY DEF Init, QueuedBroadcastStored
<1>2. IInv /\ TypeInv' /\ QueuedBroadcastStored /\ [Next]_vars => QueuedBroadcastStored'
    <2> SUFFICES ASSUME IInv, TypeInv', QueuedBroadcastStored, [Next]_vars,
                        NEW i \in 1..Len(swarmQ'), swarmQ'[i].type = "broadcast",
                        NEW p, p = swarmQ'[i].premint
                 PROVE  Carried(p)'
        BY DEF QueuedBroadcastStored, Carried
    <2>1. swarmQ \in Seq(Commands) /\ swarmQ' \in Seq(Commands)
        BY DEF TypeInv, TypeOK
    <2>2. p \in Premints
        <3>1. swarmQ'[i] \in Commands
            BY <2>1
        <3> QED
            BY <3>1 DEF Commands
    <2>3. ASSUME NEW j \in 1..Len(swarmQ), swarmQ'[i] = swarmQ[j], Next, ~Restart
          PROVE  Carried(p)'
        <3>1. Carried(p)
            BY <2>3 DEF QueuedBroadcastStored, Carried
        <3> QED
            BY <2>2, <2>3, <3>1, CarriedStep
    <2>4. CASE UNCHANGED vars
        BY <2>4 DEF vars, QueuedBroadcastStored, Carried
    <2>5. CASE Restart
        BY <2>5 DEF Restart
    <2>6. CASE Next /\ ~Restart /\ swarmQ' = swarmQ
        BY <2>3, <2>6
    <2>7. CASE SwarmTakes
        <3>1. swarmQ # <<>> /\ swarmQ' = Tail(swarmQ) /\ ~Restart
            BY <2>7 DEF SwarmTakes, Restart, env, TypeInv, TypeOK
        <3>2. i + 1 \in 1..Len(swarmQ) /\ swarmQ'[i] = swarmQ[i + 1]
            BY <2>1, <3>1
        <3> QED
            BY <2>3, <2>7, <3>1, <3>2 DEF Next
    <2>8. CASE SwarmStops
        BY <2>8 DEF SwarmStops
    <2>9. CASE SendCommand
        <3>1. outgoing \in Commands /\ swarmQ' = Append(swarmQ, outgoing) /\ ~Restart
            BY <2>9 DEF SendCommand, SendingCommand, Restart
        <3>2. CASE i \in 1..Len(swarmQ)
            <4>1. swarmQ'[i] = swarmQ[i]
                BY <2>1, <3>1, <3>2
            <4> QED
                BY <2>3, <2>9, <3>1, <3>2, <4>1 DEF Next, HandlerStep
        <3>3. CASE i \notin 1..Len(swarmQ)
            <4>1. swarmQ'[i] = outgoing
                BY <2>1, <3>1, <3>3
            <4>2. Backed(p) /\ db' = db
                BY <2>9, <4>1 DEF BroadcastInv, BroadcastBacked, SendCommand
            <4>3. Key(p) \in Keys /\ db[Key(p)].version = AsI64(p.version)
                BY <4>2, PremintFields DEF Backed, RowsAgree, RowKeys
            <4>4. AsI64(p.version) \in Int
                BY <2>2, PremintFields, CastRange, HalfAssumption
            <4> QED
                BY <4>2, <4>3, <4>4 DEF Carried, Backed
        <3> QED
            BY <3>2, <3>3
    <2>10. \/ swarmQ' = swarmQ \/ Restart \/ SwarmTakes \/ SwarmStops \/ SendCommand
           \/ UNCHANGED vars
        BY DEF Next, HandlerStep, CallStep, AcquirePermit, LookupExisting, LookupFails,
            CheckTokenUri, CheckChain, RuleAnswers, Store, StoreFails, Reject, TaskStep,
            EventDone, BroadcastValidated, SendFails, Reply, PremintReceived,
            Broadcast, SyncResponse, RequestSync, ForwardCommand, StartSend,
            ResolveOnchainMint, ChainMint, MintSeenOnchainVerified,
            MintSeenOnchainPanics, MintSeenOnchainTrusted, MarkFromPeer
    <2> QED
        BY <2>4, <2>5, <2>6, <2>7, <2>8, <2>9, <2>10
<1> QED
    BY <1>1, <1>2, TypeInvariant, BroadcastInvariant, RowsAlwaysAgree, PTL DEF Spec

-----------------------------------------------------------------------------
(***************************************************************************)
(* What comes back after a claim.  A claim is acted on only while no call  *)
(* runs, so a call that evaluates a premint of a resolved id asks the      *)
(* contract after the mint: not_minted rejects it, if its answer has come, *)
(* unless the chain is one no rule asks about, and then is_chain_supported *)
(* rejects it.                                                             *)
(***************************************************************************)
RefusalNoted(task, acted) ==
    task.pc = "check" /\ task.premint.kind = V2 /\ task.premint.id \in acted
        => "chain" \in task.pending \/ "reject" \in task.results

RefusalInv ==
    /\ CallsOfHandler
    /\ Mode # "trust" /\ UseRpc /\ ~RpcMayFail =>
        /\ resolved \subseteq minted
        /\ \A t \in TaskIds : RefusalNoted(tasks[t], resolved)

LEMMA RefusalTaskStep ==
    ASSUME TypeInv, RefusalInv, CallsOfHandler', NEW t \in TaskIds, NEW task,
           Mode # "trust" /\ UseRpc /\ ~RpcMayFail => RefusalNoted(task, resolved),
           TaskStep(t, task)
    PROVE  RefusalInv'
<1>1. /\ tasks' = [tasks EXCEPT ![t] = task] /\ tasks \in [TaskIds -> Task]
      /\ resolved' = resolved /\ minted' = minted
    BY DEF TypeInv, TypeOK, TaskStep, env
<1> QED
    BY <1>1 DEF RefusalInv

LEMMA RefusalCallStep ==
    ASSUME TypeInv, RefusalInv, CallsOfHandler', NEW t \in TaskIds, CallStep(t)
    PROVE  RefusalInv'
<1> DEFINE task == tasks[t]
           Known == Mode # "trust" /\ UseRpc /\ ~RpcMayFail
<1>1. /\ task \in Task /\ HasPremint(task) /\ db \in Table
      /\ Known => RefusalNoted(task, resolved) /\ resolved \subseteq minted
    BY DEF TypeInv, TypeOK, TasksHavePremints, RefusalInv
<1> HIDE DEF Known
<1>2. CASE AcquirePermit(t)
  <2>1. RefusalNoted([task EXCEPT !.pc = "lookup"], resolved)
      BY <1>1 DEF RefusalNoted, Task
  <2> QED
      BY <1>2, <2>1, RefusalTaskStep DEF AcquirePermit
<1>3. CASE LookupExisting(t)
  <2> DEFINE p == task.premint
             existing == GetForIdAndKind(db, Key(p))
             New(rpc) == [task EXCEPT
                  !.pc = "check", !.existing = existing,
                  !.pending = {"uri"} \cup (IF ChainRules(p, rpc) THEN {"chain"} ELSE {}),
                  !.results = OnlyFailures(LocalRules(p, existing))]
  <2>1. PICK rpc \in BOOLEAN : TaskStep(t, New(rpc)) /\ (Known /\ WantsRpc(p) => rpc)
      BY <1>3 DEF LookupExisting, Known
  <2> HIDE DEF existing
  <2>2. /\ New(rpc).premint = p
        /\ New(rpc).pending = {"uri"} \cup (IF ChainRules(p, rpc) THEN {"chain"} ELSE {})
        /\ New(rpc).results = OnlyFailures(LocalRules(p, existing))
      BY <1>1 DEF Task
  <2>3. ASSUME Known, p.kind = V2
        PROVE  "chain" \in New(rpc).pending \/ "reject" \in New(rpc).results
    <3>1. CASE WantsRpc(p)
        BY <2>1, <2>2, <2>3, <3>1 DEF ChainRules
    <3>2. CASE ~WantsRpc(p)
      <4>1. ChainOf[p.id] = 0
          BY <2>3, <3>2 DEF WantsRpc, Known
      <4>2. IsChainSupported(p) = "reject"
          BY <2>3, <4>1 DEF IsChainSupported, Typed, Verdict
      <4> QED
          BY <2>2, <4>2 DEF OnlyFailures, LocalRules, Failures
    <3> QED
        BY <3>1, <3>2
  <2> HIDE DEF New
  <2>4. Known => RefusalNoted(New(rpc), resolved)
      BY <2>2, <2>3 DEF RefusalNoted
  <2> QED
      BY <2>1, <2>4, RefusalTaskStep DEF Known
<1>4. ASSUME NEW rule, NEW outcomes, RuleAnswers(t, rule, outcomes), Awaiting(t, rule),
             Known /\ rule = "chain" /\ task.premint.id \in resolved => "reject" \in outcomes
      PROVE  RefusalInv'
  <2> DEFINE new == [task EXCEPT !.pending = @ \ {rule},
                                 !.results = @ \cup OnlyFailures(outcomes)]
  <2>1. /\ new.pc = task.pc /\ new.premint = task.premint
        /\ new.pending = task.pending \ {rule}
        /\ new.results = task.results \cup OnlyFailures(outcomes)
      BY <1>1 DEF Task
  <2>2. "reject" \in outcomes => "reject" \in new.results
      BY <2>1 DEF OnlyFailures, Failures
  <2> HIDE DEF new
  <2>3. Known => RefusalNoted(new, resolved)
      BY <1>1, <1>4, <2>1, <2>2 DEF RefusalNoted
  <2> QED
      BY <1>4, <2>3, RefusalTaskStep DEF RuleAnswers, Known, new
<1>5. CASE CheckTokenUri(t)
    BY <1>4, <1>5 DEF CheckTokenUri
<1>6. CASE CheckChain(t)
  <2>1. PICK notMinted \in CallOutcomes({NotMinted(task.premint, minted)}),
             authorized \in CallOutcomes({"accept", "reject"}),
             versionSupported \in CallOutcomes({"accept", "reject"}) :
                 RuleAnswers(t, "chain", {notMinted, authorized, versionSupported})
      BY <1>6 DEF CheckChain
  <2>2. ASSUME Known, task.premint.id \in resolved
        PROVE  notMinted = "reject"
    <3>1. task.premint.id \in minted
        BY <1>1, <2>2
    <3> QED
        BY <2>2, <3>1 DEF CallOutcomes, NotMinted, Verdict, Known
  <2>3. Awaiting(t, "chain")
      BY <1>6 DEF CheckChain
  <2> QED
      BY <1>4, <2>1, <2>2, <2>3
<1>7. CASE LookupFails(t) \/ Store(t) \/ StoreFails(t) \/ Reject(t)
  <2>1. PICK outcome \in {"stored", "refused", "rejected", "failed"} :
            TaskStep(t, Ended(task, outcome))
      BY <1>7 DEF LookupFails, Store, StoreFails, Reject
  <2>2. RefusalNoted(Ended(task, outcome), resolved)
      BY <1>1, EndedType DEF RefusalNoted
  <2> QED
      BY <2>1, <2>2, RefusalTaskStep
<1> QED
    BY <1>2, <1>3, <1>5, <1>6, <1>7 DEF CallStep

(* A claim that is acted on names a minted id, and no call is running. *)
LEMMA ResolvedStep ==
    ASSUME TypeInv, Next, Mode # "trust"
    PROVE  /\ minted \subseteq minted'
           /\ \/ resolved' = resolved
              \/ handler = "idle" /\ tasks' = tasks /\ resolved' \subseteq resolved \cup minted
<1>1. CASE \E id \in Ids : ResolveOnchainMint(id)
  <2>1. PICK id \in Ids : ResolveOnchainMint(id)
      BY <1>1
  <2> QED
      BY <2>1, MintedGrows DEF ResolveOnchainMint, StartSend
<1>2. CASE \E c \in Claims : \/ MintSeenOnchainVerified(c) \/ MintSeenOnchainPanics(c)
                            \/ MintSeenOnchainTrusted(c)
    BY <1>2, MintedGrows DEF MintSeenOnchainVerified, MintSeenOnchainPanics,
        MintSeenOnchainTrusted, MarkFromPeer, ClaimCorrect
<1>3. \/ resolved' = resolved
      \/ \E id \in Ids : ResolveOnchainMint(id)
      \/ \E c \in Claims : \/ MintSeenOnchainVerified(c) \/ MintSeenOnchainPanics(c)
                           \/ MintSeenOnchainTrusted(c)
    BY DEF Next, HandlerStep, CallStep, AcquirePermit, LookupExisting, LookupFails,
        CheckTokenUri, CheckChain, RuleAnswers, Store, StoreFails, Reject, TaskStep,
        EventDone, BroadcastValidated, SendCommand, SendFails, Reply, PremintReceived,
        Broadcast, SyncResponse, RequestSync, ForwardCommand, StartSend, ChainMint,
        SwarmTakes, SwarmStops, Restart
<1> QED
    BY <1>1, <1>2, <1>3, MintedGrows

LEMMA RefusalStep ==
    ASSUME TypeInv, RefusalInv, CallsOfHandler', Next
    PROVE  RefusalInv'
<1>0. \A acted : RefusalNoted(NoTask, acted)
    BY DEF RefusalNoted, NoTask
<1>1. CASE \E t \in TaskIds : CallStep(t)
    BY <1>1, RefusalCallStep
<1>2. SUFFICES ASSUME Mode # "trust", UseRpc, ~RpcMayFail, ~ \E t \in TaskIds : CallStep(t)
               PROVE  /\ resolved' \subseteq minted'
                      /\ \A t \in TaskIds : RefusalNoted(tasks'[t], resolved')
    BY <1>1 DEF RefusalInv
<1>3. /\ resolved \subseteq minted /\ minted \subseteq minted' /\ CallsOfHandler
      /\ \A t \in TaskIds : RefusalNoted(tasks[t], resolved)
    BY <1>2, ResolvedStep DEF RefusalInv
<1>4. resolved' \subseteq minted'
    BY <1>2, <1>3, ResolvedStep
<1>5. CASE tasks' = tasks /\ resolved' = resolved
    BY <1>3, <1>4, <1>5
<1>6. CASE tasks' = tasks /\ handler = "idle"
  <2>1. tasks' = NoTasks
      BY <1>3, <1>6 DEF CallsOfHandler
  <2> QED
      BY <1>0, <1>4, <2>1 DEF NoTasks
<1>7. CASE tasks' = NoTasks
    BY <1>0, <1>4, <1>7 DEF NoTasks
<1>8. CASE \E p \in Premints : PremintReceived(p) \/ Broadcast(p)
  <2>1. PICK p \in Premints : tasks' = [NoTasks EXCEPT ![1] = Call(p, "lookup")]
      BY <1>8 DEF PremintReceived, Broadcast
  <2>2. \A acted : RefusalNoted(Call(p, "lookup"), acted)
      BY DEF RefusalNoted, Call, NoTask
  <2> QED
      BY <1>0, <1>4, <2>1, <2>2 DEF NoTasks
<1>9. CASE \E n \in TaskIds : \E batch \in Batches(n) : SyncResponse(n, batch)
  <2>0. PICK n \in TaskIds : \E batch \in Batches(n) : SyncResponse(n, batch)
      BY <1>9
  <2>1. PICK batch \in Batches(n) : SyncResponse(n, batch)
      BY <2>0
  <2>2. \A p, acted : RefusalNoted(Call(p, "wait"), acted)
      BY DEF RefusalNoted, Call, NoTask
  <2> QED
      BY <1>0, <1>4, <2>1, <2>2 DEF SyncResponse
<1>10. \/ tasks' = tasks \/ tasks' = NoTasks
       \/ \E p \in Premints : PremintReceived(p) \/ Broadcast(p)
       \/ \E n \in TaskIds : \E batch \in Batches(n) : SyncResponse(n, batch)
    BY <1>2 DEF Next, HandlerStep, EventDone, BroadcastValidated, SendCommand, SendFails,
        Reply, RequestSync, ForwardCommand, StartSend, ResolveOnchainMint, ChainMint,
        MintSeenOnchainVerified, MintSeenOnchainPanics, MintSeenOnchainTrusted,
        MarkFromPeer, SwarmTakes, SwarmStops, Restart
<1> QED
    BY <1>2, <1>5, <1>6, <1>7, <1>8, <1>9, <1>10, ResolvedStep

(* A row comes to be served only by being inserted. *)
LEMMA ServedByInsert ==
    ASSUME TypeInv, Next, NEW k \in Keys, ~Serves(db, k), Serves(db', k)
    PROVE  RowInserted(k)
<1>1. CASE db[k] # NoRow
  <2>1. db'[k].seen_on_chain
      BY <1>1, RowStep, RowFields DEF Serves
  <2> QED
      BY <2>1 DEF Serves
<1>2. CASE db[k] = NoRow
    BY <1>2, RowStep DEF Serves, RowKept, RowOverwritten, RowMarked, RowPruned, RowForgotten
<1> QED
    BY <1>1, <1>2

(***************************************************************************)
(* Where providers answer, a premint whose claim was acted on is served    *)
(* again only through an evaluation in which some rule ended in an error.  *)
(***************************************************************************)
THEOREM AlwaysReturnsByError == Spec => ReturnsOnlyByError
<1>1. Init => RefusalInv
  <2> SUFFICES ASSUME Init
               PROVE  RefusalInv
      OBVIOUS
  <2>1. \A t \in TaskIds : tasks[t].pc = "none"
      BY DEF Init, NoTasks, NoTask
  <2> QED
      BY <2>1 DEF Init, RefusalInv, CallsOfHandler, RefusalNoted
<1>2. TypeInv /\ RefusalInv /\ BroadcastInv' /\ [Next]_vars => RefusalInv'
  <2> SUFFICES ASSUME TypeInv, RefusalInv, BroadcastInv', [Next]_vars
               PROVE  RefusalInv'
      OBVIOUS
  <2>1. CASE UNCHANGED vars
      BY <2>1 DEF vars, RefusalInv, CallsOfHandler
  <2> QED
      BY <2>1, RefusalStep DEF BroadcastInv
<1>3. TypeInv /\ RefusalInv /\ [Next]_vars =>
        [\A k \in Keys :
            /\ k[1] = V2 /\ k[2] \in resolved
            /\ Mode # "trust" /\ UseRpc /\ ~RpcMayFail
            /\ ~Serves(db, k) /\ Serves(db', k)
            => \E t \in TaskIds : /\ Evaluated(t) /\ IsErr(tasks[t].results)
                                  /\ tasks[t].premint = db'[k].json]_vars
  <2> SUFFICES ASSUME TypeInv, RefusalInv, Next, NEW k \in Keys,
                      k[1] = V2, k[2] \in resolved, Mode # "trust", UseRpc, ~RpcMayFail,
                      ~Serves(db, k), Serves(db', k)
               PROVE  \E t \in TaskIds : /\ Evaluated(t) /\ IsErr(tasks[t].results)
                                         /\ tasks[t].premint = db'[k].json
      BY DEF vars
  <2>1. PICK t \in TaskIds : /\ Store(t) /\ k = Key(tasks[t].premint)
                             /\ db'[k] = Inserted(tasks[t].premint)
      BY ServedByInsert DEF RowInserted
  <2>2. db'[k].json = tasks[t].premint
      BY <2>1 DEF Inserted
  <2>3. tasks[t].premint.kind = V2 /\ tasks[t].premint.id \in resolved
      BY <2>1 DEF Key
  <2>4. Evaluated(t) /\ IsAccept(tasks[t].results) /\ RefusalNoted(tasks[t], resolved)
      BY <2>1 DEF Store, RefusalInv
  <2>5. IsErr(tasks[t].results)
      BY <2>3, <2>4 DEF RefusalNoted, Evaluated, IsAccept, IsReject
  <2> QED
      BY <2>2, <2>4, <2>5
<1> QED
    BY <1>1, <1>2, <1>3, TypeInvariant, BroadcastInvariant, PTL DEF Spec, ReturnsOnlyByError

-----------------------------------------------------------------------------
(***************************************************************************)
(* Controller implements PremintPool, for any premints, claims, modes,     *)
(* numbers of concurrent calls and faults: the writes singled out above    *)
(* are steps of the pool, and nothing else touches it.                     *)
(***************************************************************************)
(* The pool a table stands for. *)
PoolOf(table) == [k \in Keys |-> Entry(table[k])]

(* The chain grows by mints, in steps of their own. *)
LEMMA MintedStep ==
    ASSUME Next
    PROVE  \/ minted' = minted
           \/ \E id \in Ids : minted' = minted \cup {id} /\ db' = db
BY DEF Next, HandlerStep, CallStep, AcquirePermit, LookupExisting, LookupFails,
    CheckTokenUri, CheckChain, RuleAnswers, Store, StoreFails, Reject, TaskStep,
    EventDone, BroadcastValidated, SendCommand, SendFails, Reply, PremintReceived,
    Broadcast, SyncResponse, RequestSync, ForwardCommand, StartSend,
    ResolveOnchainMint, ChainMint, MintSeenOnchainVerified, MintSeenOnchainPanics,
    MintSeenOnchainTrusted, MarkFromPeer, SwarmTakes, SwarmStops, Restart, env

(* A write to one key of the table is a write to that key of the pool. *)
LEMMA PoolWrite ==
    ASSUME NEW new, NEW k \in Keys, \A m \in Keys : m # k => new[m] = db[m]
    PROVE  PoolOf(new) = [PoolOf(db) EXCEPT ![k] = Entry(new[k])]
BY DEF PoolOf

(* The entry of a row is an entry, and knows whether it is served. *)
LEMMA EntryOfRow ==
    ASSUME NEW row \in Row
    PROVE  /\ Entry(row) = [rank |-> row.version, served |-> ~row.seen_on_chain]
           /\ Entry(row) # NoRow
           /\ row # NoRow
<1>1. row # NoRow
    BY NoneAssumption
<1>2. Entry(row) = [rank |-> row.version, served |-> ~row.seen_on_chain]
    BY <1>1 DEF Entry
<1>3. row.version \in Int /\ row.seen_on_chain \in BOOLEAN
    BY DEF Row
<1>4. (~row.seen_on_chain) \in BOOLEAN
    OBVIOUS
<1>5. [rank |-> row.version, served |-> ~row.seen_on_chain] \in [rank: Int, served: BOOLEAN]
    BY <1>3, <1>4
<1>6. Entry(row) # NoRow
    BY <1>2, <1>5, EntryAssumption
<1> QED
    BY <1>1, <1>2, <1>6

-----------------------------------------------------------------------------
(* The upsert of an evaluated call enters or supersedes one entry, or is    *)
(* refused and changes nothing.                                             *)
LEMMA StoreInPool ==
    ASSUME TypeInv, NEW t \in TaskIds, Store(t), minted' = minted
    PROVE  [Pool!PoolNext]_(Pool!poolVars)
<1> DEFINE p == tasks[t].premint
           k == Key(p)
<1>1. db \in Table /\ p \in Premints
    BY DEF TypeInv, TypeOK, TasksHavePremints, HasPremint, Store, Evaluated
<1>2. k \in Keys /\ AsI64(p.version) \in -I64Half..(I64Half - 1)
    BY <1>1, PremintFields, CastRange
<1>3. db' = Upsert(db, p)
    BY DEF Store
<1>4. \A m \in Keys : m # k => db'[m] = db[m]
    BY <1>1, <1>3, UpsertEffect
<1>5. PoolOf(db') = [PoolOf(db) EXCEPT ![k] = Entry(db'[k])]
    BY <1>2, <1>4, PoolWrite
<1>6. PoolOf(db)[k] = Entry(db[k])
    BY <1>2 DEF PoolOf
<1> DEFINE v == AsI64(p.version)
<1>7. CASE ~RowsAffected(db, p)
  <2>1. db' = db
      BY <1>1, <1>3, <1>7, UpsertEffect
  <2> QED
      BY <2>1 DEF Pool!poolVars
<1>8. CASE RowsAffected(db, p) /\ db[k] = NoRow
  <2>1. db'[k] = Inserted(p)
      BY <1>1, <1>3, <1>8, UpsertEffect
  <2>2. Entry(db'[k]) = [rank |-> v, served |-> TRUE]
      BY <1>1, <2>1, InsertedRow, EntryOfRow DEF Inserted
  <2>3. Entry(db[k]) = NoRow
      BY <1>8 DEF Entry
  <2>4. Pool!Enter(k, v)
      BY <1>5, <1>6, <2>2, <2>3 DEF Pool!Enter, Pool!Put, PoolOf
  <2> QED
      BY <1>2, <2>4 DEF Pool!PoolNext
<1>9. CASE RowsAffected(db, p) /\ db[k] # NoRow
  <2>1. db'[k] = Overwritten(db[k], p) /\ v > db[k].version
      BY <1>1, <1>3, <1>9, UpsertEffect
  <2>2. db[k] \in Row
      BY <1>1, <1>2, <1>9, RowOrNone
  <2>3. /\ Overwritten(db[k], p) \in Row
        /\ Overwritten(db[k], p).version = v
        /\ Overwritten(db[k], p).seen_on_chain = db[k].seen_on_chain
      BY <1>1, <2>2, OverwrittenRow
  <2>4. Entry(db[k]) = [rank |-> db[k].version, served |-> ~db[k].seen_on_chain]
        /\ Entry(db[k]) # NoRow
      BY <2>2, EntryOfRow
  <2>5. Entry(db'[k]) = [rank |-> v, served |-> ~db[k].seen_on_chain]
      BY <2>1, <2>3, EntryOfRow
  <2>6. Entry(db'[k]) = [rank |-> v, served |-> Entry(db[k]).served]
        /\ v > Entry(db[k]).rank
      BY <2>1, <2>4, <2>5
  <2>7. Pool!Supersede(k, v)
      BY <1>5, <1>6, <2>4, <2>6 DEF Pool!Supersede, Pool!Put, PoolOf
  <2> QED
      BY <1>2, <2>7 DEF Pool!PoolNext
<1> QED
    BY <1>7, <1>8, <1>9

(* The mark of a backed claim hides or prunes one entry that may be retired. *)
LEMMA MarkInPool ==
    ASSUME TypeInv, NEW c \in ClaimType, BackedClaim(c),
           db' = MarkSeenOnChain(db, c, PruneMinted), minted' = minted
    PROVE  [Pool!PoolNext]_(Pool!poolVars)
<1> DEFINE k == ClaimKey(c)
<1>1. db \in Table
    BY DEF TypeInv, TypeOK
<1>2. /\ k \in Keys
      /\ \A m \in Keys : m # k => db'[m] = db[m]
      /\ \/ db' = db
         \/ db[k] # NoRow /\ PruneMinted /\ db'[k] = NoRow
         \/ /\ db[k] # NoRow /\ ~PruneMinted
            /\ db'[k] = [db[k] EXCEPT !.seen_on_chain = TRUE]
            /\ db'[k] \in Row
    BY <1>1, SwitchAssumption, MarkSeenEffect
<1>3. PoolOf(db') = [PoolOf(db) EXCEPT ![k] = Entry(db'[k])] /\ PoolOf(db)[k] = Entry(db[k])
    BY <1>2, PoolWrite DEF PoolOf
<1>4. k[2] \in minted \/ Mode = "trust"
    BY DEF BackedClaim, ClaimKey
<1>5. CASE db' = db
    BY <1>5 DEF Pool!poolVars
<1>6. ASSUME db[k] # NoRow
      PROVE  /\ db[k] \in Row
             /\ Entry(db[k]) = [rank |-> db[k].version, served |-> ~db[k].seen_on_chain]
             /\ Pool!MayRetire(k)
  <2>1. db[k] \in Row
      BY <1>1, <1>2, <1>6, RowOrNone
  <2>2. Entry(db[k]) # NoRow
      BY <2>1, EntryOfRow
  <2>3. Pool!MayRetire(k)
      BY <1>3, <1>4, <2>2 DEF Pool!MayRetire, PoolOf
  <2> QED
      BY <2>1, <2>3, EntryOfRow
<1>7. CASE db[k] # NoRow /\ PruneMinted /\ db'[k] = NoRow
  <2>1. Entry(db'[k]) = NoRow
      BY <1>7 DEF Entry
  <2>2. Pool!Prune(k)
      BY <1>3, <1>6, <1>7, <2>1 DEF Pool!Prune, Pool!Put, PoolOf
  <2> QED
      BY <1>2, <2>2 DEF Pool!PoolNext
<1>8. CASE /\ db[k] # NoRow /\ db'[k] \in Row
           /\ db'[k] = [db[k] EXCEPT !.seen_on_chain = TRUE]
  <2>1. db'[k].version = db[k].version /\ db'[k].seen_on_chain = TRUE
      BY <1>6, <1>8 DEF Row
  <2>2. Entry(db'[k]) = [rank |-> db[k].version, served |-> FALSE]
      BY <1>8, <2>1, EntryOfRow
  <2> DEFINE old == Entry(db[k])
  <2>3. old = [rank |-> db[k].version, served |-> ~db[k].seen_on_chain]
      BY <1>6, <1>8
  <2> HIDE DEF old
  <2>4. old.rank = db[k].version
      BY <2>3
  <2>5. Entry(db'[k]) = [rank |-> Entry(db[k]).rank, served |-> FALSE]
      BY <2>2, <2>4 DEF old
  <2>6. Pool!Hide(k)
      BY <1>3, <1>6, <1>8, <2>5 DEF Pool!Hide, Pool!Put, PoolOf
  <2> QED
      BY <1>2, <2>6 DEF Pool!PoolNext
<1> QED
    BY <1>2, <1>5, <1>7, <1>8

(* An empty database is the empty pool. *)
LEMMA EmptyIsEmpty == PoolOf(EmptyTable) = Pool!EmptyPool
BY DEF PoolOf, EmptyTable, Entry, Pool!EmptyPool

LEMMA StepInPool ==
    ASSUME TypeInv, [Next]_vars
    PROVE  [Pool!PoolNext]_(Pool!poolVars)
<1>1. CASE UNCHANGED vars
    BY <1>1 DEF vars, env, Pool!poolVars
<1>2. CASE Next
  <2>1. CASE \E id \in Ids : minted' = minted \cup {id} /\ db' = db
    <3>1. PICK id \in Ids : minted' = minted \cup {id} /\ db' = db
        BY <2>1
    <3>2. Pool!Mint(id)
        BY <3>1 DEF Pool!Mint
    <3> QED
        BY <3>2 DEF Pool!PoolNext
  <2>2. CASE minted' = minted
    <3>1. CASE db' = db
        BY <2>2, <3>1 DEF Pool!poolVars
    <3>2. CASE \E t \in TaskIds : Store(t)
        BY <2>2, <3>2, StoreInPool
    <3>3. CASE \E c \in ClaimType : /\ BackedClaim(c)
                                    /\ db' = MarkSeenOnChain(db, c, PruneMinted)
        BY <2>2, <3>3, MarkInPool
    <3>4. CASE Restart /\ ~PersistState /\ db' = EmptyTable
      <4>1. PoolOf(db') = Pool!EmptyPool
          BY <3>4, EmptyIsEmpty
      <4>2. Pool!Forget
          BY <2>2, <3>4, <4>1 DEF Pool!Forget, PoolOf
      <4> QED
          BY <4>2 DEF Pool!PoolNext
    <3> QED
        BY <1>2, <3>1, <3>2, <3>3, <3>4, DbStep
  <2> QED
      BY <1>2, <2>1, <2>2, MintedStep
<1> QED
    BY <1>1, <1>2

(***************************************************************************)
(* Whatever is received, fails, races or restarts, the store behaves like  *)
(* the abstract pool: one entry at a time, ranks that rise, and nothing    *)
(* retired that is neither minted nor vouched for.                         *)
(***************************************************************************)
THEOREM ControllerImplementsPool == Spec => ImplementsPool
<1>1. Init => Pool!PoolInit
  <2>1. Init => PoolOf(db) = Pool!EmptyPool /\ minted = {}
      BY EmptyIsEmpty DEF Init
  <2> QED
      BY <2>1 DEF Pool!PoolInit, PoolOf
<1>2. TypeInv /\ [Next]_vars => [Pool!PoolNext]_(Pool!poolVars)
    BY StepInPool
<1> QED
    BY <1>1, <1>2, TypeInvariant, PTL DEF Spec, ImplementsPool, Pool!PoolSpec
=============================================================================
