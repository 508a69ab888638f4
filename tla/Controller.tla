----------------------------- MODULE Controller -----------------------------
(***************************************************************************)
(* One mintpool node seen from its controller task (src/src/controller.rs):*)
(* the premint table, the handler that run_loop is in, the validations     *)
(* that handler runs, and the bounded channel of commands to the swarm.    *)
(*                                                                         *)
(* run_loop handles one command, event or tick at a time and awaits the    *)
(* handler to its end, so at most one handler is in progress.  Inside a    *)
(* SyncResponse, though, up to Permits validate_and_insert calls run       *)
(* concurrently; each reads the existing row, then runs its rules (one     *)
(* database read, several contract calls), then writes.  Every await is a  *)
(* step of its own here.                                                   *)
(*                                                                         *)
(* The chain is the environment: an id once minted stays minted.  Commands *)
(* and events that only read (Query, SyncRequest, NetworkState) change     *)
(* nothing of this state; what they serve is ListAll(db).                  *)
(***************************************************************************)
EXTENDS Rules, Sequences

CONSTANTS
    Claims,         \* the inclusion claims peers may send
    Mode,           \* Config.chain_inclusion_mode
    PruneMinted,    \* Config.prune_minted_premints
    PersistState,   \* Config.persist_state
    Permits,        \* Semaphore::new(10) of a SyncResponse
    MaxBatch,       \* bound: premints in one SyncResponse
    Capacity,       \* mpsc::channel(1024) towards the swarm
    MaxRestarts,    \* bound: process restarts
    DbMayFail,      \* may a SQL statement fail?
    RpcMayFail,     \* may getting a provider or a contract call fail?
    SwarmMayStop    \* may the swarm task end, dropping its receiver?

ASSUME ModeAssumption == Mode \in {"check", "verify", "trust"}
ASSUME ClaimAssumption == Claims \subseteq ClaimType
ASSUME BoundAssumption ==
    /\ Permits \in Nat \ {0} /\ MaxBatch \in Nat \ {0}
    /\ Capacity \in Nat \ {0} /\ MaxRestarts \in Nat
ASSUME SwitchAssumption ==
    /\ PruneMinted \in BOOLEAN /\ PersistState \in BOOLEAN
    /\ DbMayFail \in BOOLEAN /\ RpcMayFail \in BOOLEAN /\ SwarmMayStop \in BOOLEAN

VARIABLES
    db,         \* the premints table
    handler,    \* what run_loop is awaiting
    tasks,      \* validate_and_insert calls of the current handler
    outgoing,   \* the SwarmCommand the handler is sending
    answer,     \* the reply a Broadcast is about to give
    swarmQ,     \* SwarmCommands in the channel
    swarmUp,    \* does the swarm hold its receiver?
    minted,     \* ids the premint executor has minted
    resolved,   \* history: ids whose claim this node has acted on
    restarts    \* bound counter

vars == <<db, handler, tasks, outgoing, answer, swarmQ, swarmUp, minted,
          resolved, restarts>>
env == <<swarmUp, minted, restarts>>

TaskIds  == 1..MaxBatch
Handlers == {"idle", "premint", "broadcast", "sync", "send", "reply", "dead"}

(***************************************************************************)
(* A validate_and_insert call.  pc: waiting for a permit, about to look up *)
(* the existing row, evaluating (`pending` names the rules still awaiting  *)
(* an answer, `results` the failures so far), done (`outcome`).            *)
(***************************************************************************)
Task == [pc: {"none", "wait", "lookup", "check", "done"},
         premint: Premints \cup {NoPremint}, existing: Premints \cup {NoPremint},
         pending: SUBSET {"uri", "chain"}, results: SUBSET Failures,
         outcome: {"none", "stored", "refused", "rejected", "failed"}]

NoTask == [pc |-> "none", premint |-> NoPremint, existing |-> NoPremint,
           pending |-> {}, results |-> {}, outcome |-> "none"]
NoTasks == [t \in TaskIds |-> NoTask]

Call(p, pc) == [NoTask EXCEPT !.pc = pc, !.premint = p]
Ended(task, outcome) == [Call(task.premint, "done") EXCEPT !.outcome = outcome]

(* SwarmCommand: the parts of its variants that later steps look at. *)
NoCommand == [type |-> "none"]
Commands  == [type: {"sync", "forward"}]
             \cup [type: {"broadcast"}, premint: Premints]
             \cup [type: {"claim"}, id: Ids]

Init ==
    /\ db = EmptyTable
    /\ handler = "idle" /\ tasks = NoTasks
    /\ outgoing = NoCommand /\ answer = "none"
    /\ swarmQ = <<>> /\ swarmUp = TRUE
    /\ minted = {} /\ resolved = {} /\ restarts = 0

-----------------------------------------------------------------------------
(***************************************************************************)
(* run_loop picks up an event or a command that validates premints.        *)
(***************************************************************************)
PremintReceived(p) ==
    /\ handler = "idle"
    /\ handler' = "premint"
    /\ tasks' = [NoTasks EXCEPT ![1] = Call(p, "lookup")]
    /\ UNCHANGED <<db, outgoing, answer, swarmQ, resolved, env>>

Broadcast(p) ==
    /\ handler = "idle"
    /\ handler' = "broadcast"
    /\ tasks' = [NoTasks EXCEPT ![1] = Call(p, "lookup")]
    /\ UNCHANGED <<db, outgoing, answer, swarmQ, resolved, env>>

SyncResponse(n, batch) ==
    /\ handler = "idle"
    /\ handler' = "sync"
    /\ tasks' = [t \in TaskIds |-> IF t <= n THEN Call(batch[t], "wait") ELSE NoTask]
    /\ UNCHANGED <<db, outgoing, answer, swarmQ, resolved, env>>

(***************************************************************************)
(* validate_and_insert.                                                    *)
(***************************************************************************)
TaskStep(t, task) ==
    /\ tasks' = [tasks EXCEPT ![t] = task]
    /\ UNCHANGED <<handler, outgoing, answer, swarmQ, resolved, env>>

(* Mutant: the permit is kept by calls that have returned. *)
HoldingLeaked == {t \in TaskIds : tasks[t].pc \in {"lookup", "check", "done"}}

Holding == {t \in TaskIds : tasks[t].pc \in {"lookup", "check"}}

(* The semaphore is fair: permits go to the waiting calls in order. *)
AcquirePermit(t) ==
    /\ tasks[t].pc = "wait"
    /\ \A u \in TaskIds : u < t => tasks[u].pc # "wait"
    /\ Cardinality(Holding) < Permits
    /\ TaskStep(t, [tasks[t] EXCEPT !.pc = "lookup"])
    /\ UNCHANGED db

(***************************************************************************)
(* RulesEngine::evaluate up to the point where the rules are started.  A   *)
(* failing lookup is returned with `?`; a failing get_rpc leaves the       *)
(* context without a provider.                                             *)
(***************************************************************************)
LookupExisting(t) ==
    LET p == tasks[t].premint
        existing == GetForIdAndKind(db, Key(p))
    IN  /\ tasks[t].pc = "lookup"
        /\ \E rpc \in IF ~WantsRpc(p) THEN {FALSE}
                      ELSE IF RpcMayFail THEN BOOLEAN ELSE {TRUE} :
              TaskStep(t, [tasks[t] EXCEPT
                  !.pc = "check", !.existing = existing,
                  !.pending = {"uri"} \cup (IF ChainRules(p, rpc) THEN {"chain"} ELSE {}),
                  !.results = OnlyFailures(LocalRules(p, existing))])
        /\ UNCHANGED db

LookupFails(t) ==
    /\ DbMayFail
    /\ tasks[t].pc = "lookup"
    /\ TaskStep(t, Ended(tasks[t], "failed"))
    /\ UNCHANGED db

Awaiting(t, rule) == tasks[t].pc = "check" /\ rule \in tasks[t].pending

(* The answer of a rule that had to wait, added to the results. *)
RuleAnswers(t, rule, outcomes) ==
    /\ TaskStep(t, [tasks[t] EXCEPT !.pending = @ \ {rule},
                                    !.results = @ \cup OnlyFailures(outcomes)])
    /\ UNCHANGED db

CheckTokenUri(t) ==
    LET p == tasks[t].premint
        matching == GetForTokenUri(db, p.uri)
        rows == IF matching = {} THEN {NoPremint} ELSE matching
        outcomes == {ExistingTokenUri(p, found) : found \in rows}
                    \cup (IF DbMayFail THEN {"err"} ELSE {})
    IN  /\ Awaiting(t, "uri")
        /\ \E outcome \in outcomes : RuleAnswers(t, "uri", {outcome})

(***************************************************************************)
(* not_minted, is_authorized_to_create_premint, premint_version_supported: *)
(* three contract calls.  The model follows `minted`; the other two answers*)
(* are the contract's and may be either.                                   *)
(***************************************************************************)
CallOutcomes(answers) == answers \cup (IF RpcMayFail THEN {"err"} ELSE {})

CheckChain(t) ==
    /\ Awaiting(t, "chain")
    /\ \E notMinted \in CallOutcomes({NotMinted(tasks[t].premint, minted)}),
          authorized, versionSupported \in CallOutcomes({"accept", "reject"}) :
             RuleAnswers(t, "chain", {notMinted, authorized, versionSupported})

Evaluated(t) == tasks[t].pc = "check" /\ tasks[t].pending = {}

Store(t) ==
    LET p == tasks[t].premint
    IN  /\ Evaluated(t) /\ IsAccept(tasks[t].results)
        /\ db' = Upsert(db, p)
        /\ TaskStep(t, Ended(tasks[t],
                             IF RowsAffected(db, p) THEN "stored" ELSE "refused"))

StoreFails(t) ==
    /\ DbMayFail
    /\ Evaluated(t) /\ IsAccept(tasks[t].results)
    /\ TaskStep(t, Ended(tasks[t], "failed"))
    /\ UNCHANGED db

Reject(t) ==
    /\ Evaluated(t) /\ ~IsAccept(tasks[t].results)
    /\ TaskStep(t, Ended(tasks[t], "rejected"))
    /\ UNCHANGED db

(***************************************************************************)
(* The handler goes on when its calls have ended.  Events ignore what the  *)
(* calls returned; a Broadcast goes on to the swarm, or answers with the   *)
(* error.                                                                  *)
(***************************************************************************)
EventDone ==
    /\ handler \in {"premint", "sync"}
    /\ \A t \in TaskIds : tasks[t].pc \in {"none", "done"}
    /\ handler' = "idle" /\ tasks' = NoTasks
    /\ UNCHANGED <<db, outgoing, answer, swarmQ, resolved, env>>

(* Mutants: whatever validate_and_insert returned is sent on; a premint the *)
(* store refused counts as stored.                                          *)
BroadcastUnvalidated ==
    /\ handler = "broadcast" /\ tasks[1].pc = "done"
    /\ tasks' = NoTasks
    /\ handler' = "send" /\ answer' = "none"
    /\ outgoing' = [type |-> "broadcast", premint |-> tasks[1].premint]
    /\ UNCHANGED <<db, swarmQ, resolved, env>>

BroadcastRefusedToo ==
    /\ handler = "broadcast" /\ tasks[1].pc = "done"
    /\ tasks' = NoTasks
    /\ IF tasks[1].outcome \in {"stored", "refused"}
       THEN /\ handler' = "send" /\ answer' = "none"
            /\ outgoing' = [type |-> "broadcast", premint |-> tasks[1].premint]
       ELSE /\ handler' = "reply" /\ answer' = "err"
            /\ UNCHANGED outgoing
    /\ UNCHANGED <<db, swarmQ, resolved, env>>

BroadcastValidated ==
    /\ handler = "broadcast" /\ tasks[1].pc = "done"
    /\ tasks' = NoTasks
    /\ IF tasks[1].outcome = "stored"
       THEN /\ handler' = "send" /\ answer' = "none"
            /\ outgoing' = [type |-> "broadcast", premint |-> tasks[1].premint]
       ELSE /\ handler' = "reply" /\ answer' = "err"
            /\ UNCHANGED outgoing
    /\ UNCHANGED <<db, swarmQ, resolved, env>>

(***************************************************************************)
(* swarm_command_sender.send(...).await: waits while the channel is full,  *)
(* fails once the receiver is gone.  request_sync turns the failure into a *)
(* panic, which ends the controller task; a Broadcast reports it to its    *)
(* client; the other commands log it.                                      *)
(***************************************************************************)
(* Mutant: a send that does not wait for room. *)
SendUnbounded ==
    /\ handler = "send" /\ swarmUp
    /\ swarmQ' = Append(swarmQ, outgoing)
    /\ IF outgoing.type = "broadcast"
       THEN handler' = "reply" /\ answer' = "ok" /\ UNCHANGED outgoing
       ELSE handler' = "idle" /\ outgoing' = NoCommand /\ UNCHANGED answer
    /\ UNCHANGED <<db, tasks, resolved, env>>

SendCommand ==
    /\ handler = "send" /\ swarmUp
    /\ Len(swarmQ) < Capacity
    /\ swarmQ' = Append(swarmQ, outgoing)
    /\ IF outgoing.type = "broadcast"
       THEN handler' = "reply" /\ answer' = "ok" /\ UNCHANGED outgoing
       ELSE handler' = "idle" /\ outgoing' = NoCommand /\ UNCHANGED answer
    /\ UNCHANGED <<db, tasks, resolved, env>>

SendFails ==
    /\ handler = "send" /\ ~swarmUp
    /\ CASE outgoing.type = "broadcast" ->
                handler' = "reply" /\ answer' = "err" /\ UNCHANGED outgoing
         [] outgoing.type = "sync" ->
                handler' = "dead" /\ UNCHANGED <<answer, outgoing>>
         [] OTHER ->
                handler' = "idle" /\ outgoing' = NoCommand /\ UNCHANGED answer
    /\ UNCHANGED <<db, tasks, swarmQ, resolved, env>>

(* The oneshot reply; a client that has timed out only makes it log. *)
Reply ==
    /\ handler = "reply"
    /\ handler' = "idle" /\ answer' = "none" /\ outgoing' = NoCommand
    /\ UNCHANGED <<db, tasks, swarmQ, resolved, env>>

StartSend(command) ==
    /\ handler' = "send"
    /\ outgoing' = command
    /\ UNCHANGED <<tasks, answer, swarmQ, env>>

(* The sync ticker, and ControllerCommands::Sync. *)
RequestSync ==
    /\ handler = "idle"
    /\ StartSend([type |-> "sync"])
    /\ UNCHANGED <<db, resolved>>

(* ConnectToPeer, ReturnNetworkState, AnnounceSelf, ReturnNodeInfo. *)
ForwardCommand ==
    /\ handler = "idle"
    /\ StartSend([type |-> "forward"])
    /\ UNCHANGED <<db, resolved>>

-----------------------------------------------------------------------------
(***************************************************************************)
(* Inclusion claims.  ResolveOnchainMint comes from the node's own         *)
(* MintCheckers: one per supported chain that has a filter, only in Check  *)
(* mode, watching V2 events.  It marks whatever row matches and passes the *)
(* claim on, whether or not the statement failed.                          *)
(***************************************************************************)
WatchedChains == {7777777, 8453}

ResolveOnchainMint(id) ==
    LET c == [kind |-> V2, id |-> id, chain_id |-> ChainOf[id]]
    IN  /\ handler = "idle"
        /\ Mode = "check"
        /\ id \in minted /\ ChainOf[id] \in WatchedChains
        /\ \/ /\ db' = MarkSeenOnChain(db, c, PruneMinted)
              /\ resolved' = resolved \cup {id}
           \/ /\ DbMayFail
              /\ UNCHANGED <<db, resolved>>
        /\ StartSend([type |-> "claim", id |-> id])

(***************************************************************************)
(* inclusion_claim_correct: get the receipt, pick the log the claim names, *)
(* verify_claim.  It can be true only for a V2 claim whose event really is *)
(* on the chain the id names.  Otherwise, and when the row, the receipt or *)
(* the log cannot be read, the claim is dropped and nothing changes;       *)
(* SimplePremint has no verify_claim: its todo!() panics.                  *)
(***************************************************************************)
(* Mutant: the log is not compared with the premint. *)
ClaimUnverified(c) == c.kind = V2 /\ c.chain_id = ChainOf[c.id]

ClaimCorrect(c) == c.kind = V2 /\ c.id \in minted /\ c.chain_id = ChainOf[c.id]

MarkFromPeer(c) ==
    /\ db' = MarkSeenOnChain(db, c, PruneMinted)
    /\ resolved' = resolved \cup {c.id}
    /\ UNCHANGED <<handler, tasks, outgoing, answer, swarmQ, env>>

MintSeenOnchainVerified(c) ==
    /\ handler = "idle" /\ Mode \in {"check", "verify"}
    /\ db[ClaimKey(c)] # NoRow
    /\ ClaimCorrect(c)
    /\ MarkFromPeer(c)

MintSeenOnchainPanics(c) ==
    /\ handler = "idle" /\ Mode \in {"check", "verify"}
    /\ db[ClaimKey(c)] # NoRow
    /\ c.kind = Simple
    /\ handler' = "dead"
    /\ UNCHANGED <<db, tasks, outgoing, answer, swarmQ, resolved, env>>

(* Trust mode only looks at the peer that relayed the claim: a trusted one. *)
MintSeenOnchainTrusted(c) ==
    /\ handler = "idle" /\ Mode = "trust"
    /\ MarkFromPeer(c)

-----------------------------------------------------------------------------
(***************************************************************************)
(* The environment: the chain, the swarm task, the process.                *)
(***************************************************************************)
ChainMint(id) ==
    /\ id \notin minted
    /\ minted' = minted \cup {id}
    /\ UNCHANGED <<db, handler, tasks, outgoing, answer, swarmQ, swarmUp,
                   resolved, restarts>>

SwarmTakes ==
    /\ swarmUp /\ swarmQ # <<>>
    /\ swarmQ' = Tail(swarmQ)
    /\ UNCHANGED <<db, handler, tasks, outgoing, answer, resolved, env>>

SwarmStops ==
    /\ SwarmMayStop /\ swarmUp
    /\ swarmUp' = FALSE /\ swarmQ' = <<>>
    /\ UNCHANGED <<db, handler, tasks, outgoing, answer, minted, resolved, restarts>>

Restart ==
    /\ restarts < MaxRestarts
    /\ restarts' = restarts + 1
    /\ db' = IF PersistState THEN db ELSE EmptyTable
    /\ handler' = "idle" /\ tasks' = NoTasks
    /\ outgoing' = NoCommand /\ answer' = "none"
    /\ swarmQ' = <<>> /\ swarmUp' = TRUE
    /\ UNCHANGED <<minted, resolved>>

-----------------------------------------------------------------------------
CallStep(t) ==
    \/ AcquirePermit(t)
    \/ LookupExisting(t) \/ LookupFails(t)
    \/ CheckTokenUri(t) \/ CheckChain(t)
    \/ Store(t) \/ StoreFails(t) \/ Reject(t)

(* Steps of a handler already running. *)
HandlerStep ==
    \/ \E t \in TaskIds : CallStep(t)
    \/ EventDone \/ BroadcastValidated
    \/ SendCommand \/ SendFails \/ Reply

Batches(n) == [1..n -> Premints]

Next ==
    \/ HandlerStep
    \/ \E p \in Premints : PremintReceived(p) \/ Broadcast(p)
    \/ \E n \in TaskIds : \E batch \in Batches(n) : SyncResponse(n, batch)
    \/ RequestSync \/ ForwardCommand
    \/ \E id \in Ids : ResolveOnchainMint(id) \/ ChainMint(id)
    \/ \E c \in Claims : \/ MintSeenOnchainVerified(c) \/ MintSeenOnchainPanics(c)
                       \/ MintSeenOnchainTrusted(c)
    \/ SwarmTakes \/ SwarmStops
    \/ Restart

Spec == Init /\ [][Next]_vars

(***************************************************************************)
(* tokio keeps polling the controller and the swarm, SQLite answers, and a *)
(* contract call ends with an answer or an error: a handler that can move  *)
(* moves, and the swarm keeps taking commands.                             *)
(***************************************************************************)
Fairness == WF_vars(HandlerStep) /\ WF_vars(SwarmTakes)
FairSpec == Spec /\ Fairness
-----------------------------------------------------------------------------
(***************************************************************************)
(* Properties.                                                             *)
(***************************************************************************)

(* The values each variable ranges over; the channel never exceeds its     *)
(* capacity and only holds commands the controller can build.              *)
TypeOK ==
    /\ db \in Table
    /\ handler \in Handlers /\ tasks \in [TaskIds -> Task]
    /\ outgoing \in Commands \cup {NoCommand} /\ answer \in {"none", "ok", "err"}
    /\ swarmQ \in Seq(Commands) /\ Len(swarmQ) <= Capacity /\ swarmUp \in BOOLEAN
    /\ minted \subseteq Ids /\ resolved \subseteq Ids /\ restarts \in Nat

Both(k) == db[k] # NoRow /\ db'[k] # NoRow

(* The upsert compares version columns while the rules compare the versions *)
(* in the json: each row's json is a premint of that row's key and its      *)
(* version column is the cast of the json's version, whatever was           *)
(* overwritten by whichever concurrent call.                                *)
RowsAgree ==
    \A k \in RowKeys(db) :
        Key(db[k].json) = k /\ db[k].version = AsI64(db[k].json.version)

(* A row is never replaced by another premint of the same or a lower        *)
(* version: not by two calls of a sync that both saw the older row, not by  *)
(* an evaluation that failed, not across restarts.  (storage.rs, store:     *)
(* the WHERE of the upsert.)                                                *)
VersionsRise ==
    [][\A k \in Keys : Both(k) =>
          \/ db'[k].json = db[k].json
          \/ db'[k].version > db[k].version]_vars

(* The signer of a stored premint changes only through a call in whose      *)
(* evaluation some rule failed with an error, or that had looked the row up *)
(* before the row it overwrites was written (rules.rs, signer_matches and   *)
(* is_reject; controller.rs, SyncResponse).                                 *)
SignerChangesByErrorOrRace ==
    [][\A k \in Keys : Both(k) /\ db'[k].json.signer # db[k].json.signer =>
          \E t \in TaskIds :
              /\ Evaluated(t) /\ tasks[t].premint = db'[k].json
              /\ IsErr(tasks[t].results) \/ tasks[t].existing # db[k].json]_vars

(* Unless the node trusts peers, a premint leaves the table or stops being  *)
(* served only if it was minted, whatever claims peers send; the exception  *)
(* is a restart without persisted state.  (controller.rs,                   *)
(* handle_event_onchain_claim; storage.rs, mark_seen_on_chain.)             *)
RetiredOnlyIfMinted ==
    [][\A k \in Keys :
          /\ db[k] # NoRow /\ ~db[k].seen_on_chain
          /\ db'[k] = NoRow \/ db'[k].seen_on_chain
          => \/ k[2] \in minted \/ Mode = "trust"
             \/ ~PersistState /\ db' = EmptyTable]_vars

(* A row that was marked seen is never served again: no later upsert of a   *)
(* higher version clears the mark (storage.rs, store leaves seen_on_chain). *)
SeenStaysSeen ==
    [][\A k \in Keys : Both(k) /\ db[k].seen_on_chain => db'[k].seen_on_chain]_vars

(* What waits in the channel to be gossiped is backed by the table: the     *)
(* node still has that premint or a later version of it, unless it was      *)
(* taken onchain (or a trusted peer said so) and pruned.  (controller.rs,   *)
(* Broadcast: validate_and_insert before send.)                             *)
QueuedBroadcastStored ==
    \A i \in 1..Len(swarmQ) : swarmQ[i].type = "broadcast" =>
        LET p == swarmQ[i].premint
        IN  \/ db[Key(p)] # NoRow /\ db[Key(p)].version >= AsI64(p.version)
            \/ PruneMinted /\ (p.id \in minted \/ Mode = "trust")

(* A client that is told Ok finds its very premint in the table at that     *)
(* moment: waiting for room in the channel to the swarm cannot be overtaken *)
(* by another write or by a claim.  (controller.rs, Broadcast.)             *)
AckedIsStored ==
    handler = "reply" /\ answer = "ok" =>
        LET p == outgoing.premint
        IN  db[Key(p)] # NoRow /\ db[Key(p)].json = p

(* As long as providers can be had, a premint whose claim this node has     *)
(* acted on comes back into what it serves only through an evaluation in    *)
(* which a rule failed: not_minted is all that keeps a pruned one out.      *)
(* (README.md:12: pruning keeps "the data served by the node limited to     *)
(* things that can be brought onchain"; storage.rs, mark_seen_on_chain.)    *)
Serves(table, k) == table[k] # NoRow /\ ~table[k].seen_on_chain
ReturnsOnlyByError ==
    [][\A k \in Keys :
          /\ k[1] = V2 /\ k[2] \in resolved
          /\ Mode # "trust" /\ UseRpc /\ ~RpcMayFail
          /\ ~Serves(db, k) /\ Serves(db', k)
          => \E t \in TaskIds : /\ Evaluated(t) /\ IsErr(tasks[t].results)
                                /\ tasks[t].premint = db'[k].json]_vars

(* Two premints with different ids in the table do not have the same token  *)
(* URI.  (rules.rs:602: "now we'll try a different token with the same      *)
(* token uri", which the test expects to be rejected.)                      *)
UriUnique ==
    \A k, m \in RowKeys(db) : db[k].json.uri = db[m].json.uri => k[2] = m[2]

(* Every handler ends: no order of permits, answers and errors leaves the   *)
(* controller inside a sync or a broadcast (controller.rs, run_loop), as    *)
(* long as the swarm keeps taking commands.                                 *)
HandlerEnds == (handler # "idle") ~> (handler \in {"idle", "dead"})

(***************************************************************************)
(* The controller implements PremintPool: an entry is a row's version      *)
(* column and whether it is served.                                        *)
(***************************************************************************)
Entry(row) == IF row = NoRow THEN NoRow
              ELSE [rank |-> row.version, served |-> ~row.seen_on_chain]

ASSUME EntryAssumption == NoRow \notin [rank: Int, served: BOOLEAN]

Pool == INSTANCE PremintPool WITH
    PoolKeys <- Keys, PoolIds <- Ids, Ranks <- -I64Half..(I64Half - 1),
    None <- NoRow, Vouched <- Mode = "trust", Volatile <- ~PersistState,
    pool <- [k \in Keys |-> Entry(db[k])], onchain <- minted

(* Every step of the controller, of the chain and every restart is a step   *)
(* of the abstract pool or leaves it unchanged: concurrent syncs, failed    *)
(* rules, claims and crashes included.                                      *)
ImplementsPool == Pool!PoolSpec
=============================================================================
