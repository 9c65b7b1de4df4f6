------------------------------- MODULE Outbox -------------------------------
(***************************************************************************)
(* The transactional outbox of Phera: API requests that publish events,    *)
(* with a mutation (db/mutate.py) or by themselves, and the workers that   *)
(* drain them (worker/runner.py), over one Postgres database.              *)
(*                                                                         *)
(* A worker iteration is one transaction.  What it writes stays private    *)
(* (the txn variables) until it commits, and the rows it claimed stay      *)
(* locked as long.  Only the lifecycle providers see its calls at once     *)
(* (sends), and those do not roll back.                                    *)
(***************************************************************************)
EXTENDS Naturals, FiniteSets, EventMatching

CONSTANTS
    Request,        \* API requests, each with one commit
    Changing,       \* requests that call mutate with a change to record
    Emitting,       \* requests whose MutateRequest names an event and its key
    Direct,         \* requests that insert their event without mutate
    Guarded,        \* those of Direct that go without it if the key is taken
    Key,            \* idempotency keys; an outbox row is known by its key
    KeyOf,          \* Request -> Key
    TypeOf,         \* Key -> event type
    Workflow,       \* active, published workflows
    Destination,    \* active lifecycle destinations
    FilterOf,       \* Workflow \cup Destination -> trigger filter
    Transcription,  \* the duty to transcribe the call of a call.ended event
    Worker,         \* worker processes
    Queues,         \* Worker -> the queue names in its WORKER_QUEUES
    BatchLimit,     \* rows one dispatch claims (50 in the code)
    RetryLimit,     \* attempts from which a failure is final (5 in the code)
    MaxAborts,      \* bound: worker iterations that crash or roll back
    NoKey           \* no event in hand

ASSUME ConstantsAssumption ==
    /\ Changing \subseteq Request /\ Emitting \subseteq Request
    /\ Direct \subseteq Request \ Changing /\ Guarded \subseteq Direct
    /\ KeyOf \in [Request -> Key]
    /\ Workflow \cap Destination = {}
    /\ Transcription \notin Workflow \cup Destination
    /\ BatchLimit \in Nat \ {0}
    /\ RetryLimit \in Nat
    /\ MaxAborts \in Nat
    /\ NoKey \notin Key

VARIABLES
    \* API requests
    req,             \* Request -> where its handler stands
    stamp,           \* Request -> occurred_at of what it records
    clock,           \* the wall clock that stamps are read from
    \* committed database state
    audit,           \* requests whose AuditEvent (and row change) is committed
    outbox,          \* Key -> OutboxEvent row
    runs,            \* <<workflow, key>> -> WorkflowRun row
    transcripts,     \* keys whose call has a Transcript row
    \* the world outside the database
    notified,        \* keys pushed to Redis
    sends,           \* <<destination, key>> -> provider.track calls made
    \* worker iterations
    pc,              \* Worker -> "idle", "dispatch" or "process"
    locked,          \* Worker -> rows it holds FOR UPDATE
    todo,            \* Worker -> claimed rows its loop has not reached
    cur,             \* Worker -> the event in process_outbox_event
    left,            \* Worker -> what it still owes cur
    txnOutbox,       \* Worker -> the rows as its transaction sees them
    txnRuns,         \* Worker -> runs its transaction inserted
    txnTranscripts,  \* Worker -> transcripts its transaction inserted
    aborts           \* iterations rolled back so far

requestVars == <<req, stamp, clock, audit, notified>>
tableVars == <<outbox, runs, transcripts>>
txnVars == <<txnOutbox, txnRuns, txnTranscripts>>
loopVars == <<pc, locked, todo, cur, left>>
workerVars == <<loopVars, txnVars, aborts>>
vars == <<requestVars, tableVars, sends, workerVars>>

-----------------------------------------------------------------------------
(* Rows *)

ReqState == {"idle", "open", "notify", "done", "failed"}
CommittedStatus == {"absent", "pending", "processed", "dead"}
RowStatus == CommittedStatus \cup {"queued"}
Rows(status) == [status: status, attempts: Nat, at: Nat]
NoRow == [status |-> "absent", attempts |-> 0, at |-> 0]
NoRows == [k \in Key |-> NoRow]
NewRow(at) == [status |-> "pending", attempts |-> 0, at |-> at]

RunStatus == {"none", "ok", "failed"}
NoRuns == [wk \in Workflow \X Key |-> "none"]

Task == Workflow \cup Destination \cup {Transcription}

(* Type invariant.  "queued" (worker/runner.py:54) is only ever a state    *)
(* within a transaction: no committed row may carry it, since no dispatch  *)
(* would select that row again.                                            *)
TypeOK ==
    /\ req \in [Request -> ReqState]
    /\ stamp \in [Request -> Nat] /\ clock \in Nat
    /\ audit \subseteq Request
    /\ notified \subseteq Key
    /\ outbox \in [Key -> Rows(CommittedStatus)]
    /\ runs \in [Workflow \X Key -> RunStatus]
    /\ transcripts \subseteq Key
    /\ sends \in [Destination \X Key -> Nat]
    /\ pc \in [Worker -> {"idle", "dispatch", "process"}]
    /\ locked \in [Worker -> SUBSET Key]
    /\ todo \in [Worker -> SUBSET Key]
    /\ cur \in [Worker -> Key \cup {NoKey}]
    /\ left \in [Worker -> SUBSET Task]
    /\ txnOutbox \in [Worker -> [Key -> Rows(RowStatus)]]
    /\ txnRuns \in [Worker -> [Workflow \X Key -> RunStatus]]
    /\ txnTranscripts \in [Worker -> SUBSET Key]
    /\ aborts \in Nat

Init ==
    /\ req = [r \in Request |-> "idle"]
    /\ stamp = [r \in Request |-> 0] /\ clock = 0
    /\ audit = {} /\ notified = {}
    /\ outbox = [k \in Key |-> NoRow]
    /\ runs = NoRuns
    /\ transcripts = {}
    /\ sends = [dk \in Destination \X Key |-> 0]
    /\ pc = [w \in Worker |-> "idle"]
    /\ locked = [w \in Worker |-> {}]
    /\ todo = [w \in Worker |-> {}]
    /\ cur = [w \in Worker |-> NoKey]
    /\ left = [w \in Worker |-> {}]
    /\ txnOutbox = [w \in Worker |-> NoRows]
    /\ txnRuns = [w \in Worker |-> NoRuns]
    /\ txnTranscripts = [w \in Worker |-> {}]
    /\ aborts = 0

-----------------------------------------------------------------------------
(* API requests *)

Emits(r) == r \in (Changing \cap Emitting) \cup Direct

(* What is to be committed is added to the session: by mutate, an audit    *)
(* row and perhaps an event; by the others an event alone, stamped now.    *)
Record(r) ==
    /\ req[r] = "idle"
    /\ req' = [req EXCEPT ![r] = "open"]
    /\ clock' = clock + 1
    /\ stamp' = [stamp EXCEPT ![r] = clock + 1]
    /\ UNCHANGED <<audit, notified, tableVars, sends, workerVars>>

(* Mutant of CommitRequest: a clash of keys drops the event, not the rest. *)
CommitLoosely(r) ==
    /\ req[r] = "open" /\ r \notin Guarded
    /\ req' = [req EXCEPT ![r] = IF Emits(r) THEN "notify" ELSE "done"]
    /\ audit' = IF r \in Changing THEN audit \cup {r} ELSE audit
    /\ outbox' = IF Emits(r) /\ outbox[KeyOf[r]].status = "absent"
                 THEN [outbox EXCEPT ![KeyOf[r]] = NewRow(stamp[r])]
                 ELSE outbox
    /\ UNCHANGED <<stamp, clock, notified, runs, transcripts, sends, workerVars>>

(* commit_and_notify: the session commits if no other row has its key. *)
CommitRequest(r) ==
    /\ req[r] = "open" /\ r \notin Guarded
    /\ Emits(r) => outbox[KeyOf[r]].status = "absent"
    /\ req' = [req EXCEPT ![r] = IF Emits(r) THEN "notify" ELSE "done"]
    /\ audit' = IF r \in Changing THEN audit \cup {r} ELSE audit
    /\ outbox' = IF Emits(r)
                 THEN [outbox EXCEPT ![KeyOf[r]] = NewRow(stamp[r])]
                 ELSE outbox
    /\ UNCHANGED <<stamp, clock, notified, runs, transcripts, sends, workerVars>>

(* _enqueue_call_ended: where the key is found, or taken when the event is *)
(* inserted in its savepoint, the rest is committed without the event.     *)
CommitGuarded(r) ==
    /\ req[r] = "open" /\ r \in Guarded
    /\ IF outbox[KeyOf[r]].status = "absent"
       THEN /\ req' = [req EXCEPT ![r] = "notify"]
            /\ outbox' = [outbox EXCEPT ![KeyOf[r]] = NewRow(stamp[r])]
       ELSE /\ req' = [req EXCEPT ![r] = "done"]
            /\ UNCHANGED outbox
    /\ UNCHANGED <<stamp, clock, audit, notified, runs, transcripts, sends, workerVars>>

(* The unique key is taken, or anything else raises before the commit. *)
FailRequest(r) ==
    /\ req[r] = "open"
    /\ req' = [req EXCEPT ![r] = "failed"]
    /\ UNCHANGED <<stamp, clock, audit, notified, tableVars, sends, workerVars>>

(* The push to Redis follows the commit and may be lost. *)
Notify(r) ==
    /\ req[r] = "notify"
    /\ req' = [req EXCEPT ![r] = "done"]
    /\ notified' \in {notified, notified \cup {KeyOf[r]}}
    /\ UNCHANGED <<stamp, clock, audit, tableVars, sends, workerVars>>

RequestStep(r) ==
    \/ Record(r)
    \/ CommitRequest(r)
    \/ CommitGuarded(r)
    \/ FailRequest(r)
    \/ Notify(r)

-----------------------------------------------------------------------------
(* What a worker owes an event *)

CallEnded(k) == TypeOf[k] = <<"call", "ended">>

MatchWorkflows(k) ==
    {wf \in Workflow : EventMatchesTrigger(TypeOf[k], FilterOf[wf])}

MatchDestinations(k) ==
    {d \in Destination : EventMatchesTrigger(TypeOf[k], FilterOf[d])}

Dispatches(w) == Queues[w] \cap {"workflow", "lifecycle", "maintenance"} # {}

(* Mutants of Declines: no worker passes over call.ended, or every one.    *)
DeclinesNothing(w, k) == FALSE
DeclinesAlways(w, k) == CallEnded(k)

(* call.ended is left to workers that serve maintenance. *)
Declines(w, k) == CallEnded(k) /\ "maintenance" \notin Queues[w]

Duties(w, k) ==
    (IF "workflow" \in Queues[w] THEN MatchWorkflows(k) ELSE {})
    \cup (IF "lifecycle" \in Queues[w] THEN MatchDestinations(k) ELSE {})
    \cup (IF CallEnded(k) /\ "maintenance" \in Queues[w]
          THEN {Transcription} ELSE {})

-----------------------------------------------------------------------------
(* A worker iteration *)

(* Mutant of Claimable: a plain SELECT. *)
ClaimableUnlocked == {k \in Key : outbox[k].status = "pending"}

(* Pending rows that no open transaction holds (FOR UPDATE SKIP LOCKED). *)
Claimable ==
    {k \in Key : outbox[k].status = "pending" /\ \A w \in Worker : k \notin locked[w]}

OldestOf(batch, candidates) ==
    /\ batch \subseteq candidates
    /\ \A a \in batch, b \in candidates \ batch : outbox[a].at <= outbox[b].at
    /\ \/ Cardinality(batch) = BatchLimit
       \/ batch = candidates /\ Cardinality(batch) < BatchLimit

(* An iteration that claims nothing changes nothing, and is left out. *)
Claim(w) ==
    /\ pc[w] = "idle"
    /\ Dispatches(w)
    /\ \E batch \in SUBSET Claimable \ {{}} :
          /\ OldestOf(batch, Claimable)
          /\ locked' = [locked EXCEPT ![w] = batch]
          /\ todo' = [todo EXCEPT ![w] = batch]
    /\ pc' = [pc EXCEPT ![w] = "dispatch"]
    /\ txnOutbox' = [txnOutbox EXCEPT ![w] = outbox]
    /\ UNCHANGED <<requestVars, tableVars, sends, cur, left, txnRuns,
                   txnTranscripts, aborts>>

IsNext(w, k) ==
    /\ pc[w] = "dispatch"
    /\ k \in todo[w]
    /\ \A other \in todo[w] : outbox[k].at <= outbox[other].at

(* The loop passes over the row, which stays pending and locked. *)
Skip(w, k) ==
    /\ IsNext(w, k)
    /\ Declines(w, k)
    /\ todo' = [todo EXCEPT ![w] = @ \ {k}]
    /\ UNCHANGED <<requestVars, tableVars, sends, pc, locked, cur, left,
                   txnVars, aborts>>

Take(w, k) ==
    /\ IsNext(w, k)
    /\ ~Declines(w, k)
    /\ pc' = [pc EXCEPT ![w] = "process"]
    /\ todo' = [todo EXCEPT ![w] = @ \ {k}]
    /\ cur' = [cur EXCEPT ![w] = k]
    /\ left' = [left EXCEPT ![w] = Duties(w, k)]
    /\ txnOutbox' = [txnOutbox EXCEPT ![w][k].status = "queued"]
    /\ UNCHANGED <<requestVars, tableVars, sends, locked, txnRuns,
                   txnTranscripts, aborts>>

(* Workflows come first, then destinations, then the transcription. *)
Due(w, t) ==
    /\ pc[w] = "process"
    /\ t \in left[w]
    /\ t \notin Workflow => left[w] \cap Workflow = {}
    /\ t = Transcription => left[w] = {Transcription}

HasRun(w, wf, k) == runs[<<wf, k>>] # "none" \/ txnRuns[w][<<wf, k>>] # "none"

HasTranscript(w, k) == k \in transcripts \cup txnTranscripts[w]

(* Mutant: the run is committed in a session of its own. *)
StartRunVisibly(w, wf) ==
    /\ wf \in Workflow /\ Due(w, wf)
    /\ left' = [left EXCEPT ![w] = @ \ {wf}]
    /\ runs' = [runs EXCEPT ![<<wf, cur[w]>>] = "ok"]
    /\ UNCHANGED <<requestVars, outbox, transcripts, sends, pc, locked, todo,
                   cur, txnVars, aborts>>

(* start_workflow_run and continue_run, unless the run is there already. *)
StartRun(w, wf) ==
    /\ wf \in Workflow /\ Due(w, wf)
    /\ left' = [left EXCEPT ![w] = @ \ {wf}]
    /\ txnRuns' = IF HasRun(w, wf, cur[w])
                  THEN txnRuns
                  ELSE [txnRuns EXCEPT ![w][<<wf, cur[w]>>] = "ok"]
    /\ UNCHANGED <<requestVars, tableVars, sends, pc, locked, todo, cur,
                   txnOutbox, txnTranscripts, aborts>>

Track(w, d) ==
    /\ d \in Destination /\ Due(w, d)
    /\ left' = [left EXCEPT ![w] = @ \ {d}]
    /\ sends' = [sends EXCEPT ![<<d, cur[w]>>] = @ + 1]
    /\ UNCHANGED <<requestVars, tableVars, pc, locked, todo, cur, txnVars, aborts>>

TranscribeCall(w) ==
    /\ Due(w, Transcription)
    /\ left' = [left EXCEPT ![w] = {}]
    /\ txnTranscripts' = IF HasTranscript(w, cur[w])
                         THEN txnTranscripts
                         ELSE [txnTranscripts EXCEPT ![w] = @ \cup {cur[w]}]
    /\ UNCHANGED <<requestVars, tableVars, sends, pc, locked, todo, cur,
                   txnOutbox, txnRuns, aborts>>

(* process_outbox_event returns with the row in its final state. *)
Return(w, row) ==
    /\ pc' = [pc EXCEPT ![w] = "dispatch"]
    /\ cur' = [cur EXCEPT ![w] = NoKey]
    /\ left' = [left EXCEPT ![w] = {}]
    /\ txnOutbox' = [txnOutbox EXCEPT ![w][cur[w]] = row]

(* Mutants of Finish: the row keeps the status "queued"; the row is marked *)
(* processed before its duties are done.                                   *)
FinishQueued(w) ==
    /\ pc[w] = "process"
    /\ left[w] = {}
    /\ Return(w, txnOutbox[w][cur[w]])
    /\ UNCHANGED <<requestVars, tableVars, sends, locked, todo, txnRuns,
                   txnTranscripts, aborts>>

Finish(w) ==
    /\ pc[w] = "process"
    /\ left[w] = {}
    /\ Return(w, [txnOutbox[w][cur[w]] EXCEPT !.status = "processed"])
    /\ UNCHANGED <<requestVars, tableVars, sends, locked, todo, txnRuns,
                   txnTranscripts, aborts>>

(* Mutants of FailedRow: one retry too many; a failure that costs nothing. *)
FailedRowLate(row) ==
    [status |-> IF row.attempts > RetryLimit THEN "dead" ELSE "pending",
     attempts |-> row.attempts + 1,
     at |-> row.at]

FailedRowUncounted(row) ==
    [status |-> "pending", attempts |-> row.attempts, at |-> row.at]

FailedRow(row) ==
    [status |-> IF row.attempts >= RetryLimit THEN "dead" ELSE "pending",
     attempts |-> row.attempts + 1,
     at |-> row.at]

(* A duty raises.  What it had already done stays: a run whose node failed *)
(* is marked failed, a call to a provider may have reached it.             *)
TaskFails(w, t) ==
    /\ Due(w, t)
    /\ Return(w, FailedRow(txnOutbox[w][cur[w]]))
    /\ IF t \in Workflow
       THEN /\ ~HasRun(w, t, cur[w])
            /\ txnRuns' \in {txnRuns, [txnRuns EXCEPT ![w][<<t, cur[w]>>] = "failed"]}
       ELSE UNCHANGED txnRuns
    /\ IF t \in Destination
       THEN sends' \in {sends, [sends EXCEPT ![<<t, cur[w]>>] = @ + 1]}
       ELSE UNCHANGED sends
    /\ UNCHANGED <<requestVars, tableVars, locked, todo, txnTranscripts, aborts>>

(* The iteration is over: its transaction is closed, its locks released. *)
CloseTxn(w) ==
    /\ pc' = [pc EXCEPT ![w] = "idle"]
    /\ locked' = [locked EXCEPT ![w] = {}]
    /\ todo' = [todo EXCEPT ![w] = {}]
    /\ cur' = [cur EXCEPT ![w] = NoKey]
    /\ left' = [left EXCEPT ![w] = {}]
    /\ txnRuns' = [txnRuns EXCEPT ![w] = NoRuns]
    /\ txnTranscripts' = [txnTranscripts EXCEPT ![w] = {}]
    /\ txnOutbox' = [txnOutbox EXCEPT ![w] = NoRows]

(* An inserted run clashes with one another transaction committed. *)
RunClash(w) ==
    \E wk \in Workflow \X Key : runs[wk] # "none" /\ txnRuns[w][wk] # "none"

Commit(w) ==
    /\ pc[w] = "dispatch"
    /\ todo[w] = {}
    /\ ~RunClash(w)
    /\ outbox' = [k \in Key |-> IF k \in locked[w] THEN txnOutbox[w][k] ELSE outbox[k]]
    /\ runs' = [wk \in Workflow \X Key |->
                   IF txnRuns[w][wk] # "none" THEN txnRuns[w][wk] ELSE runs[wk]]
    /\ transcripts' = transcripts \cup txnTranscripts[w]
    /\ CloseTxn(w)
    /\ UNCHANGED <<requestVars, sends, aborts>>

(* The process dies, the database fails a statement, or another part of    *)
(* the iteration raises: nothing of it is kept.                            *)
Abort(w) ==
    /\ pc[w] # "idle"
    /\ aborts < MaxAborts
    /\ aborts' = aborts + 1
    /\ CloseTxn(w)
    /\ UNCHANGED <<requestVars, tableVars, sends>>

WorkerStep(w) ==
    \/ Claim(w)
    \/ \E k \in Key : Skip(w, k) \/ Take(w, k)
    \/ \E wf \in Workflow : StartRun(w, wf)
    \/ \E d \in Destination : Track(w, d)
    \/ TranscribeCall(w)
    \/ Finish(w)
    \/ \E t \in Task : TaskFails(w, t)
    \/ Commit(w)

Next ==
    \/ \E r \in Request : RequestStep(r)
    \/ \E w \in Worker : WorkerStep(w) \/ Abort(w)

Spec == Init /\ [][Next]_vars

-----------------------------------------------------------------------------
(* Fairness: a worker is a loop that never stops for long, whatever it     *)
(* meets; requests owe nothing.                                            *)
FairSpec == Spec /\ \A w \in Worker : WF_vars(WorkerStep(w))

-----------------------------------------------------------------------------
(* Properties *)

Committed(r) == req[r] \in {"notify", "done"}
Present(k) == outbox[k].status # "absent"
Own(r) == Present(KeyOf[r]) /\ outbox[KeyOf[r]].at = stamp[r]

(* What a request commits, it commits whole, whoever races for the key of  *)
(* its event: there is an audit row of every mutation, and the event on    *)
(* the key of a request is its very own, but where it makes do with that   *)
(* of another (voice_hooks.py:188-212).  No event is there that nobody     *)
(* committed, and none is of two (db/mutate.py:93-124, commit.py:17).      *)
AuditAndEventTogether ==
    /\ audit = {r \in Changing : Committed(r)}
    /\ \A r \in Request : Emits(r) /\ Committed(r) =>
          Present(KeyOf[r]) /\ (r \notin Guarded => Own(r))
    /\ \A k \in Key : Present(k) =>
          \E r \in Request : Emits(r) /\ Committed(r) /\ KeyOf[r] = k /\ Own(r)
    /\ \A r1, r2 \in Request \ Guarded :
          /\ Emits(r1) /\ Committed(r1) /\ Emits(r2) /\ Committed(r2)
          /\ KeyOf[r1] = KeyOf[r2]
          => r1 = r2

(* The broker never hears of an event that is not durable (commit.py:17).  *)
NotifiedAreDurable == \A k \in notified : Present(k)

(* A mutation, its audit row, its event and the notice of it are there in  *)
(* this order or not at all, whoever races for the key: another mutation,  *)
(* or one of the requests that publish without an audit row                *)
(* (mutate.py:93-124, commit.py:17, calls.py:83-97, webhooks.py:106-121).  *)
EventsOnRecord == AuditAndEventTogether /\ NotifiedAreDurable

(* start_workflow_run reads, then inserts (workflows/engine.py:42-65).     *)
(* No two transactions can insert the same run, whatever they interleave:  *)
(* the unique constraint on workflow_runs never fails a worker.            *)
NoDuplicateRun ==
    \A w \in Worker :
       /\ ~RunClash(w)
       /\ \A v \in Worker \ {w} : \A wk \in Workflow \X Key :
             txnRuns[w][wk] = "none" \/ txnRuns[v][wk] = "none"

Handlers(k) == {w \in Worker : Dispatches(w) /\ ~Declines(w, k)}

Owed(w, k) == Duties(w, k) \cup (IF CallEnded(k) THEN {Transcription} ELSE {})

Done(t, k) ==
    \/ t \in Workflow /\ runs[<<t, k>>] # "none"
    \/ t \in Destination /\ sends[<<t, k>>] > 0
    \/ t = Transcription /\ k \in transcripts

(* A processed event got everything some worker owed it, in spite of       *)
(* failures, crashes and retries in between: a run of every workflow that  *)
(* worker serves, a call to every destination, and a call.ended event its  *)
(* transcription (worker/runner.py:71-91).                                 *)
ProcessedIsHandled ==
    \A k \in Key : outbox[k].status = "processed" =>
       \E w \in Handlers(k) : \A t \in Owed(w, k) : Done(t, k)

(* An event dies with exactly one failed pass more than RetryLimit, and    *)
(* never later (worker/runner.py:94-95).                                   *)
DeadAfterRetries ==
    \A k \in Key :
       /\ outbox[k].status = "dead" => outbox[k].attempts = RetryLimit + 1
       /\ outbox[k].status # "dead" => outbox[k].attempts <= RetryLimit

InFlight(k) == \E w \in Worker : k \in locked[w]

(* Lifecycle calls are at least once.  Every call beyond the one of the    *)
(* pass that processed the event, or of a pass under way, is paid for by a *)
(* recorded failed attempt or by an iteration that was rolled back.        *)
DeliveriesAccounted ==
    \A d \in Destination, k \in Key :
       sends[<<d, k>>] <= outbox[k].attempts + aborts
                      + (IF outbox[k].status = "processed" \/ InFlight(k) THEN 1 ELSE 0)

(* The outbox implements the event queue: effects in the database appear   *)
(* in the step that settles their event.                                   *)
DbEffect == Workflow \cup {Transcription}

EventQueueView == INSTANCE EventQueue WITH
    Effect <- DbEffect,
    Duty <- [k \in Key |-> {Owed(w, k) \cap DbEffect : w \in Handlers(k)}],
    status <- [k \in Key |-> outbox[k].status],
    attempts <- [k \in Key |-> outbox[k].attempts],
    applied <- [k \in Key |-> {t \in DbEffect : Done(t, k)}]

RefinesEventQueue == EventQueueView!QueueSpec

(* A worker without the maintenance queue holds the row, and passes it.    *)
PassedOver(k) == \E w \in Worker : k \in locked[w] /\ Declines(w, k)

(* A published event is processed or dead some day, whatever call.ended    *)
(* rows at the head of the queue some workers lock and pass over: all but  *)
(* those rows themselves, if they are held so again and again for ever     *)
(* whenever another worker looks (worker/runner.py:35-56).                 *)
EventSettles ==
    \A k \in Key :
       \/ outbox[k].status = "pending" ~> outbox[k].status \in {"processed", "dead"}
       \/ []<>PassedOver(k)
=============================================================================
