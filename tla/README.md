# Phera in TLA+

Phera is an agent-first CRM and support desk: one Python image that runs as an
HTTP API (`phera api`), as workers (`phera worker`), or both, over one Postgres
database, with Redis as a bell. This directory models the parts of it whose
correctness depends on the order in which several processes do things, checks
the models with TLC on small instances, and proves the central properties with
TLAPS for every value of the constants.

Paths such as `worker/runner.py:91` are relative to `src/phera/`; where only a
file name is given it occurs once there. README.md with a line number is the
repository's.

## The system

### Inventory

| Component | State it keeps | Operations | Hard because | What makes it correct |
|---|---|---|---|---|
| Write path: `db/mutate.py`, `db/commit.py`, `worker/notify.py`, `db/session.py` | the changed row, `AuditEvent`, `OutboxEvent`, `Interaction`; a list of outbox ids in `session.info` | `mutate`, `commit_and_notify`, `notify_outbox` | two requests with one idempotency key; the broker is outside the transaction | a change is committed with its audit row and its event, or not at all; one event per key; the broker hears of durable events only |
| Outbox dispatch: `worker/runner.py`, `modules/transcription/job.py`, `modules/workflows/matching.py` | `OutboxEvent.status/attempts`, row locks, `Transcript` | `dispatch_outbox_batch`, `process_outbox_event`, `process_lifecycle`, `transcribe_call` | several workers on one queue, batches in one transaction, retries, crashes, calls that do not roll back | an event is processed only when handled, dead only after its attempts, handled once in the database, and settles |
| Workflow engine: `modules/workflows/engine.py` | `WorkflowRun`, `WorkflowNodeRun` | `start_workflow_run`, `execute_node`, `continue_run`, `process_delayed_wakes` | due runs are read without locks, nodes send at once, a node may raise in the middle | no run is left half way; what a completed run promises was done; waits end |
| Daily rollup: `worker/runner.py:140-214` | `RollupRun`, `MetricDaily`, `AgingSnapshotDaily` | `run_daily_rollup` | every worker tries it in every iteration, against a log still being written | one rollup per day, figures that are complete and final |
| Mail polling: `modules/tickets/email_poll.py`, `modules/connectors/imap_smtp.py` | `EmailPollState` (watermark, status) | `poll_one_email_account`, the IMAP fetch | a claim committed before long I/O, objects that outlive it, crashes | one poller per mailbox, no mail lost, none ingested twice |
| Inbound messages: `modules/tickets/inbound.py`, `reuse_policy.py`, `api/routes/hooks.py` | `Contact`, `Message`, `Ticket` | `ingest_inbound_message` | webhooks are delivered twice and at once; find-or-create without constraints | one contact per address, one message per delivery, one conversation per sender, answers with their question |
| Tickets and inbox: `api/routes/tickets.py`, `inbox.py` | `Ticket`, `Message` | create, update, assign, claim, reply | agents and messages on one ticket, keys built from values, a reply is out before it is committed | a stale commit touches only what it is for, no message out of everybody's sight |
| Live updates: `modules/tickets/inbox_events.py` | one queue of 50 per subscriber | subscribe, publish, unsubscribe | slow subscribers, several processes | a client catches up with what was dropped |
| Voice and routing: `api/routes/voice_hooks.py`, `calls.py`, `telephony.py`, `modules/routing/engine.py` | `Call`, `AgentPresence`, `TelephonyIdentity`, the assignee of the ticket | routing and call-event webhooks, click-to-call | webhooks out of order, repeated, of several calls of one agent; two writers of a call's status | the same phone rings, presence follows the calls, a recorded call is transcribed |
| Contacts, pipelines and deals: `api/routes/contacts.py`, `modules/pipelines/intake.py`, `modules/adapters/superhealth/webhooks.py` | `Contact`, `Deal`, `PipelineTeam` | intake, service events, create, move, assign, replace teams | deal policies under concurrent forms, a partial unique index | submissions are kept, the audit trail adds up, visibility is what was asked for |
| Settings: `api/routes/connectors.py`, `channels.py`, `support_settings.py`, `routing_settings.py`, `modules/routing/support_teams.py` | `Connector`, `ChannelAccount`, profile flags, `RoutingPolicy`, teams, tiers | create, update, delete, save | columns of JSON and of encrypted secrets that are read and written whole | what was saved stays, no channel without its connector, teams and tiers are there and are made once |
| Permissions, workflow editor, broadcasts, reports, parsing, telemetry | rows of settings; none | CRUD, parsing | sequential | left to tests |

### How they interact

Requests that change something call `mutate` within their transaction, which
adds an audit row and, if asked to, an event, and then `commit_and_notify`. Four
places add an event by themselves, without an audit row: `call.started`
(`calls.py:83-97`), a service event of a contact without a deal
(`superhealth/webhooks.py:107-121`), a broadcast (`broadcasts.py:33-53`), and
`call.ended` (`voice_hooks.py:188-212`), which goes without its event if the key
is taken. Claims, presence, identities and settings are committed without either.
The worker loop
(`worker/runner.py:217-255`) opens one session per iteration and runs, in this
order, the rollup, a dispatch, the delayed wakes and the mail poll in it. All
of that is one transaction, committed at the end; an exception anywhere rolls
all of it back. The mail poll is the exception: it commits in the middle, so
what the iteration did before it is then committed early. In the models of the
dispatch, the wakes and the rollup this is a commit like any other.

Nothing locks except the dispatch (`FOR UPDATE SKIP LOCKED`), the unique
constraints, and the conditional UPDATE of the mail poll. Isolation is
Postgres' default, READ COMMITTED: each statement sees what is committed then.
Sessions are made with `expire_on_commit=False` (`db/session.py:18`), so an
object keeps the values it was read with, and an UPDATE names the columns whose
value differs from the one that was read. That rule, `Written` in module
`Rows`, decides what two overlapping requests leave behind; every module with
requests uses it.

A mail that is polled and a webhook are ingested by the same function
(`Inbound`); the tickets it makes are those that agents change (`Desk`). A call
finds its caller's ticket in the same way, and a call that ended with a
recording goes to the outbox, whose dispatch transcribes it and writes the call's
status once more (`Voice`, `Outbox`).

## Modules

| Module | Models | Composed with |
|---|---|---|
| `EventMatching` | `event_matches_trigger`: filters of workflows and destinations, types as sequences of parts | used by `Outbox` |
| `EventQueue` | what the outbox promises: an abstract queue of events | implemented by `Outbox` |
| `Outbox` | write path, dispatch, lifecycle calls, transcription | extends `EventMatching`, instantiates `EventQueue` |
| `OutboxInv`, `OutboxProofs` | inductive invariant, theorems | extend `Outbox` |
| `Workflow`, `WorkflowProofs` | graph walks, waits, wakes, and the iterations they run in; theorems | stands on `Outbox` for the lock that keeps one event in one hand |
| `Rollup`, `RollupProofs` | the daily rollup against requests and the calendar; theorems | |
| `EmailPoll`, `EmailPollProofs` | the poll of one mailbox; theorems | what one mail leads to is `Inbound` |
| `Rows` | what a commit writes of a row it has read | extended by the next ones |
| `Inbound` | one delivery: account, duplicate, contact, ticket, reopening | extends `Rows` |
| `Desk`, `DeskProofs` | deliveries, agents' requests and stream clients on the same tickets; theorems | extends `Inbound` |
| `Voice`, `VoiceProofs` | calls, routing, presence, identities; theorems | |
| `Deals`, `DealsProofs` | submissions, service events, requests on deals and teams; theorems | extends `Rows` |
| `Settings`, `SettingsProofs` | connectors, accounts, support settings, teams and tiers; theorems | extends `Rows` |
| `MC...` | instances for TLC | extend the module they are named after |

An operator whose comment begins with "Mutant" is not part of a model: it is a
form the one below it could have by mistake, and each property has at least
one such form that breaks it.

### Outbox

A request is `Record` (the rows are added to its session, `occurred_at` is
read), then `CommitRequest`, which fails if another request has committed the
same idempotency key, then one `Notify` per event; `FailRequest` is any other
exception, or the end of the process. A request in `Changing` calls `mutate` and
has an audit row, and an event if it is in `Emitting`; a call of `mutate` without
changes adds nothing. One in `Direct` adds an event and no audit row, and of
those, one in `Guarded` commits by `CommitGuarded`: where its key is found, or
taken in its savepoint, it makes do with the event that is there.

A worker's iteration is `Claim` (the oldest pending rows that nobody has
locked, up to the limit), then per row `Skip` (a `call.ended` row in a worker
without the maintenance queue) or `Take`, then its duties in the order of the
code: `StartRun` for every matching workflow, `Track` for every matching
destination, `TranscribeCall`; then `Finish`, or `TaskFails` in the middle;
and at last `Commit`. What an iteration writes is in the `txn` variables until
then. `Abort` is whatever rolls it back: an exception outside the handler's
`try`, a broken connection, the end of the process. `sends` counts calls to
lifecycle providers, which happen at once and do not roll back.

A workflow run is one step here, ok or failed: what happens inside it is the
subject of `Workflow`. Timestamps are a counter: ties do not occur, and the
order of ties is not defined by the query either. A failed batch of rows that
are not attempted is the same as no batch.

### Workflow

A run is started for an event (`StartRun`), walks node by node (`PassNode`,
`WaitAt`, `FailNode`) and is committed with its iteration. Waiting runs become
due (`Elapse`), a worker reads a batch of them (`ReadDue`, without a lock) and
continues them (`WakeRun`). Two workers may have read the same run; the commit
writes the whole row, which for two walks of the same graph is the same as
writing the columns that changed. That a woken run waits again hides what two
workers would do to it: the mutant `WakeRunBeyond` lets it go on, and its message
goes out twice. A failing node fails its run when an event
is being processed, where the exception is caught (`worker/runner.py:93`), and
undoes the iteration when it happens during a wake, where it is not.

Graphs are constants. A condition is a node like any other: `execute_node`
handles `send`, `wait`, `update_field` and `emit_destination` only and walks
through the rest, so that what stands behind a condition (README.md:142)
happens whether or not it is met. The run's chain has one, and its messages go
out.

### Rollup

`Begin` looks for the row of today, `Insert` inserts it (waiting for another
transaction that has inserted the same key and is still open, and failing,
`InsertClash`, if that one commits), `Count` reads the audit rows of the day,
`Commit` ends the iteration. Requests stamp an audit row (`Record`) and commit
it some time later (`CommitEvent`), so that a row can appear in a day that was
counted. The three metrics are one number.

### EmailPoll

`ReadState`, `InsertState`/`InsertClash`, `Claim`/`ClaimLost` (the conditional
UPDATE and its commit), `Baseline`/`FetchNew`/`FetchFails`, one `IngestNext`
per mail, `FinishPoll`. `Abandon` is the end of the process, or any exception
that is not caught: the claim is committed by then and stays. `since` is the
watermark as it was read, before the claim. A mail whose body the server does
not deliver is skipped, and left behind (`passed`) if a later one moves the
watermark past it. `looked`, `first`, `base` and `overtaken` record the
baselines: a second one is set where the first found the mailbox empty, or where
two workers had found no watermark, and the mail between the two
(`Overlooked`) is never fetched. SQLAlchemy writes a column only if
its value differs from the one that was loaded, so `FinishPoll` leaves the
watermark alone in that case.

A lost race for the first row ends the iteration: the row is pending before
`begin_nested`, whose own flush therefore fails outside the savepoint.
`modules/tickets/short_id.py:67-73` describes the mechanism.

### Inbound

A delivery is `FindDuplicate` (which account the message is for, and whether it
is known), `FindContact`, `FindTicket`, `CommitMessage`, and the announcement
that `Desk` completes; `Fail` is any exception before the commit. The steps are
the queries of `ingest_inbound_message` in their order, and everything is
committed at once. Two rows where one is expected raise an error, which is
"refused". `Landing` is the choice of the ticket: the one of the reply that is
answered, by header or by the short id in the subject; an open one of this
contact and account; one that the policy reopens; a new one. `Age` takes a
ticket out of the reuse window. Histories (`before`, `shut`, `aged`) record
what the properties need to tell an expected split from an unexpected one.

### Desk

A request reads its ticket (`ReadTicket`), for a reply calls the provider
(`SendReply`), and commits (`CommitRequest`) or is refused: by the provider, or
because its event's idempotency key is taken. Creation of a ticket is one step.
Events of the stream are published after the commit (`AnnounceMessage`,
`AnnounceRequest`) into the queues of the API process; those of a worker's poll
reach no client, as no client subscribes there. A client loads its list when it
is greeted and at each event it hears.

Since every step writes only the columns it changed (`Rows`), overlapping steps
undo one another in one column only. `ChangesConfined` says so, and which they
are: a claim takes a ticket from anybody; a reply that had read no assignee takes
it from who was assigned during the send; a reopening, from who claimed it since;
of two statuses the last stands. None of these is prevented by the code. The
lists of the inbox are modelled by what qualifies a ticket for one (`Listable`);
that each shows a hundred is not.

### Voice

A routing request reads the ticket and chooses an agent (`RouteRead`), commits
and answers (`RouteCommit`): `rung` records whom it named. A report reads the
call and the agent's presence (`EventRead`) and commits the columns it changed
(`EventCommit`): an "answered" or "ended" one marks the agent, an "other" one
(ringing, or a word that is not known) writes the status alone, one of "none" not
even that; any may bring the recording. `TranscribeRead`/`TranscribeCommit` are the job that a
`call.ended` event leads to; it writes the status too. The status is therefore no
measure of what was reported, and the properties go by `told`, the last report
that a call was answered or had ended. A status has several words, so that a new
one of the same kind may or may not equal the one that was read
(`StatusWritten`). `DialRead`/`DialCommit` are click-to-call with the stub
provider. Presence, identities, resolved and reassigned tickets change at any
time between. The voice ticket and contact of a caller exist at the start.

### Deals

A submission is `UpsertContact`, `ResolveDeal`, `CommitSubmission`; whoever
would commit a contact's second open deal is refused by the partial unique
index. `CreateDeal`, `ReadDeal`/`CommitRequest` (move, assign), `CreateContact`
and `CloseDeal` are agents' requests, `ReadEvent`/`CommitEvent` a service event
of the clinic's system, `ReadGrants`/`ReplaceGrants` the teams of a pipeline;
a deletion names the rows that were read. `trail` is what the audit rows of a
deal say of its stage.

### Settings

Every request takes its reading in one step (`read` is all it may look at) and
commits in another; a save of the support settings reads the profile in a step
of its own, as `ensure_support_routing` and a flush come in between. Secrets and
flags are written whole, the routing policy column by column. A setting is known
by who set it, so that a property can tell whose word stands, and `given.value`
says which of them gave it the same value: a request that names a policy setting
or flags with what it has read (`Kept`) writes no column, and what was saved since
it read stands, though it was the last to name it. The settings of ticket reuse
are one key of the flags (`Reuse`); a flag whose key is missing differs from any.
Ciphertexts always differ, so secrets have no such case.

Teams are made and renamed by saves (`CommitSettings`) and made by POST /teams
(`CreateTeam`/`CommitTeam`), tiers by saves and by POST /routing/tiers. Whether
there is a policy is given; the creation of one while others save is not
modelled.

## Runs

A run is named after its configuration (`OutboxDispatch.cfg` is
`outbox_dispatch`).

| Run | Instance | Shows | Distinct states |
|---|---|---|---|
| `OutboxDispatch` | 2 events, 2 workers, one of them without maintenance, batches of 2, 1 retry, 1 abort | type, `NoDuplicateRun`, `ProcessedIsHandled`, `DeadAfterRetries`, `DeliveriesAccounted`, and the refinement of `EventQueue` | 476 000 |
| `OutboxContended` | a mutation and a request without audit row with one key, a guarded request; the same workers, batches of 1, 1 abort | `EventsOnRecord`: what a request commits is whole, and Redis hears only of durable events; `EventSettles` while a worker keeps locking rows it declines | 75 000 |
| `Workflow` | a run of a chain of 5 nodes, 2 runs of a graph with a wait, 2 workers, 1 abort | type, `CommittedAtRest`, `CompletedRanItsPath`, `SendsExplained`, `RunsEnd` | 13 500 |
| `WorkflowResume` | 1 waiting run, 1 worker, nothing fails | refutes `WaitsEnd` | |
| `RollupDays` | 2 events, 3 days, 2 workers, 1 abort | type, `FiguresAreFinal`, `DayRolledUp` | 54 000 |
| `RollupNightly` | 1 event, 1 worker, nothing fails | refutes `MetricsComplete` | |
| `EmailPollRace` | up to 3 mails, the first without a Message-ID, 2 workers, 1 deletion, 1 failed fetch, 1 fetch without some body, 1 poll cut short | type, `OnePoller`, `OneMessagePerId`, `MailAccountedFor`, `MailIsDealtWith` | 132 000 |
| `Desk` | up to 3 deliveries, 3 requests of 2 agents, 2 mailboxes, 1 client; 13 cases | type, `DoublesOverlapped`, `AnswersStayInTicket`, `SplitsExplained`, `ClientsCatchUp`, `MessagesSurface`, `ChangesConfined` | 460 000 |
| `Voice` | 2 calls of one caller, 2 agents, one without a presence row, 2 handlers at a time; 7 cases | type, `RightPhoneRings`, `BusyExplained`, `RecordingsQueued` | 369 000 |
| `Deals` | 2 or 3 submissions of one person under each policy, up to 3 requests; 12 cases | type, `SubmissionsKept`, `TrailLeadsToStage`, `GrantsAreTheLast` | 47 000 |
| `Settings` | 4 requests, two values for each support setting; 19 cases | type, `SavedSettingsStand`, `AccountsHaveConnector`, `RoutingMadeOnce` | 29 000 |
| `SettingsBlank` | 4 requests on the secrets of one connector | refutes `BlankKeepsSecrets` | |

**Bounds.** Two events and two workers are what it takes for every interference
in the dispatch: two rows in one batch, one row wanted twice, a row settled
while another fails. Both workers serve the queues the second event needs, so
either may take it; the first is taken by one and declined by the other. A
retry limit of 1 reaches both sides of the comparison; the proofs cover the
code's 5. One abort suffices for each crash point, since the models put it at
every step. `MaxAborts`, `MaxErrors`, `MaxOmissions`, `MaxExpunged`, `MaxMail`, `MaxCloses` and
`LastDay` bound what would be unbounded; `WakeLimit = 1` makes a batch of due
runs smaller than what is due, `QueueSize = 1` makes a client's queue
overflow at the second event (the code has 50). The channel's own and rejected
mails, empty sets in the run of `EmailPoll`, and copies of one mail are left to
the proofs, which are for any; that a mail fetched twice becomes one message is
what the run shows of `OneMessagePerId`.

`Desk`, `Voice`, `Deals` and `Settings` have a variable `given`, which is chosen
at the start and never changes: who is active and what each asks for. Each
instance names the combinations in which something can meet (a message
delivered three times; a reply, its answer and a ticket closed meanwhile; two
administrators and a deletion), and every order of their steps is explored. Two
overlapping actors suffice to break each of these properties, as the mutants
show; the third finds what the first two have left. A request acts once; a
redelivered webhook of `Voice` may come any number of times.

**Deadlock** is not checked in any run: requests and deliveries are finite, a
calendar stops, and a worker with nothing to do is idle.

**Fairness.** Weak fairness of a worker's next step says that its loop goes on:
`run_worker_loop` catches every exception and sleeps two seconds. Nothing is
assumed of requests, agents, providers or failures; `Desk`, `Voice`, `Deals` and
`Settings` have no fairness and no liveness property. `EmailPoll` and
`Workflow` also assume that time passes. In `Workflow`, `StartRun` is strongly
fair, because an iteration dispatches events before it wakes runs
(`worker/runner.py:235-241`): waits that come due again and again cannot keep a
worker from a new event. In `OutboxContended` a worker that does not serve
maintenance locks `call.ended` rows and passes over them, again and again, and
the code does nothing to have such a row unlocked when another worker looks.
`EventSettles` therefore assumes only that each worker goes on, and says that an
event settles unless it is itself passed over again and again for ever: that
these rows starve no other event. That a `call.ended` row is processed some day
is not shown, and not true without an assumption on the workers' timing.

## Proofs

Each `...Proofs` module proves that an inductive invariant holds in every
reachable state, and properties from it: `Invariance` of `IInv`
(`PollInvariance` in `EmailPollProofs`), and where a component has several
properties that rest on different parts of its state, a second one beside it:
`DeskInvariance`, `VoiceInvariance`, `DealInvariance`, `SettingsInvariance`. The
theorems hold for any values of the constants that satisfy the assumption of
their module: `ConstantsAssumption` (keys of requests are keys, limits are
numbers, the batch limit is not 0), `GraphAssumption`, `BoundsAssumption`
(numbers, and finitely many events), `MailAssumption`, `InboundAssumption` (the
channel accounts, rows of a table, are finitely many) and `DeskAssumption`,
`VoiceAssumption`, `DealsAssumption`, `SettingsAssumption`, which say of what
type the constants are and that `None` and its like are none of the values.

- **`OutboxProofs`**: `TypeCorrect`, `AuditWithEvent`, `ProcessedHandled`,
  `DeadExactly`, `RunsNeverClash`, `DeliveriesExplained`, and `Refinement`, that
  `Outbox` implements `EventQueue`: a commit of a batch is one `Settle`, a
  request's commit a `Publish`, everything else stutters. The properties are
  not inductive by themselves: whether a commit leaves an event processed *and
  handled* depends on what the transaction holds, and that on what it has done
  since the claim. `IInv` therefore says, per worker, that its locked rows are
  pending and nobody else's (`LocksDisjoint`, `LoopInv`); that each row it is
  done with is, in its transaction, processed with all duties done, or the
  failed row, and the one in hand has done all that is not left (`TxnRowsInv`);
  that it has inserted runs and transcripts only for rows it holds
  (`TxnRecordsInv`); and what it may have sent (`DeliveryInv`).
- **`WorkflowProofs`**: `TypeCorrect`, `RunsAtRest`, `CompletedWhole` (in any
  graph, with cycles too) and `SentOnce`. `IInv` says what the walk of a worker
  has behind it: all visited nodes but the last have their successor visited
  too, and have sent what they send (`PathInv`); a worker that wakes has only
  waits before it (`WakeInv`); nobody else knows of a run that is being started
  (`StartInv`). `SentOnce` assumes a `rank` that grows along the edges, which
  is to say no cycles, and counts: ahead of a walk nothing of this attempt has
  been sent (`SentInv`). `RunsAtRest` rests on a second invariant, `WaitInv`
  (`WaitInvariance`): what a walk has behind it was come to from the trigger
  without passing a wait, and ends where the run is parked.
- **`RollupProofs`**: `TypeCorrect` and `FiguresFinal`. At most one open
  transaction has inserted the row of a day, and none once it is committed
  (`OneInserter`), which the primary key and the wait for it give.
- **`EmailPollProofs`**: `TypeCorrect`, `PollsExclude`, `IngestedOnce`,
  `WatermarkSound`. The strengthening is `BatchIsWhatIsMissing`: below the
  watermark a poll is about to set, only the mails still in its batch are
  unaccounted for; and `BaselinesKnown`, that a second baseline is set only in
  the two cases named. Staleness does no harm because what a worker read was the
  watermark once, and what was accounted for stays so.
- **`DeskProofs`**: `TypeCorrect`, `DoublesOverlap`, `AnswersLand`,
  `SplitsReasoned`, `ClientsInformed`, and the action properties
  `ChangesKeptApart` and `MessagesSeen`. For the doubles: what a delivery began after was filed;
  one that is under way has found no copy of its message and, if it makes a
  contact, none of its sender among that; so of two that both commit, neither
  began after the other's commit. `DeskInv` adds what is read and used later:
  the ticket whose row a delivery or a request has read is never taken away
  (`StageInv`); the ticket a delivery made is its sender's (`OwnTicketInv`), and
  may be taken up again unless it was shut or has aged (`StandingInv`), so that a
  new one beside it has one of these reasons (`SplitInv`), the contact being the
  same (`SameContactInv`); a reply, recorded or not, stands for the ticket it was
  sent for (`SentInv`), and its answer, while under way too, goes there unless
  that was shut (`AnswerInv`); what a client does not list is yet to be announced
  or still in its queue, or its next poll would find it (`CatchUpInv`).
  `ChangesKeptApart` and `MessagesSeen` need of it only `StageInv`: a step that
  writes from a stale reading writes the columns it is for and no others.
- **`VoiceProofs`**: `TypeCorrect`, `SamePhoneRings`, `BusyReasoned`,
  `RecordingsKept`. A call of a ticket that has not changed hands is recorded
  for its assignee and rang with nobody else (`CallInv`); the assignee a handler
  has read is still that, unless there was none or the ticket has changed hands
  (`JobInv`). `VoiceInv` adds that the row of a call a report has read is that
  of a call still there, with the same agent, whose recording is not taken back
  (`ReadInv`), and that only newcomers have no presence (`PresenceInv`); with
  these `BusyExplained` and `RecordingsQueued` are inductive, as their histories
  of reports that crossed are kept by the commits themselves.
- **`DealsProofs`**: `TypeCorrect`, `LastTeamsSee`, `SubmissionsReasoned`,
  `TrailsLead`. A request for teams that began after the last one has read what
  that one left (`ReadInv`), and so deletes all of it. That a contact never has
  two open deals is part of the type invariant, and not inductive: it needs that
  the deal a submission has read is there and still its contact's (`WorkInv`),
  and that a deal is made by its maker's commit and by nothing else (`MadeInv`).
  A refusal is explained by what was there when the submission looked: a contact
  not made by hand was made because there was none (`ContactInv`, `FoundInv`),
  and where open deals are reused, one that makes a deal found none open, and
  none of those it found is opened again (`ReuseInv`). `TrailInv` is
  `TrailLeadsToStage` of one deal; that a request which read the stage before
  another changed it marks the deal as crossed makes it inductive.
- **`SettingsProofs`**: `TypeCorrect`, `AccountsBacked`, `SettingsStand`,
  `RoutingOnce`. A delete that began after an account was committed has it among
  what it read (`ReadInv`); an account under way found its connector on, so
  whoever switched it off since is not among those it began after
  (`PendingInv`). What a column holds is explained by the last that saved it,
  and `WordInv` says the same of what a pending request has read of the column:
  without it nothing is known of what a commit writes back. For the routing, a
  request that began after a tier was made has read that tier (`FoundInv`), so
  two tiers at a position are of requests that overlapped (`TierInv`); teams and
  profile are as a request has read them unless settings were saved since
  (`SinceInv`), and with that its refusal is explained (`RefusedInv`).

Only model-checked is liveness under fairness (`EventSettles`, `RunsEnd`,
`DayRolledUp`, `MailIsDealtWith`), which like ENABLED is out of the prover's
reach. Every invariant and every other action property of a passing run is stated
by a theorem. What a RECURSIVE operator computes, and induction over data, cannot
be proved either; no module declares one.

## Where code and words differ

Three disagreements are runs that end in a violation.

1. A run that wakes executes its wait again: waits never end
   (`workflow_resume`; `modules/workflows/engine.py:103, 165`, README.md:54).
2. The "nightly" rollup counts the first seconds of the day
   (`rollup_nightly`; `worker/runner.py:231`, README.md:105).
3. "Every submitted value blank -> keep existing secrets untouched": the column
   is written back as it was read, over what another request has saved
   meanwhile (`settings_blank`; `connectors.py:173-180`).

The models show others, which the properties name as exceptions or which are a
definition's whole point:

- A worker that serves only some queues marks an event processed for all of
  them (`worker/runner.py:66, 91`, against README.md:120-121): `Handlers`.
- A poll that is cut short leaves its row running, and the mailbox is never
  polled again (`email_poll.py:70, 93`): `MailIsDealtWith`.
- The first mail of a mailbox that was empty is skipped, as 0 stands for an
  empty mailbox and for none, and two workers that find no watermark set a
  baseline each (`email_poll.py:103`): `Overlooked` of `EmailPoll`.
- A mail whose body is missing in the server's answer is fetched again, unless a
  later one in the same answer moves the watermark past it
  (`imap_smtp.py:132-139`): `passed` of `EmailPoll`.
- `call.started`, `call.ended`, broadcasts and a contact's service events have no
  audit row (against README.md:105): `Direct` of `Outbox`.
- A setting that is saved with the value it had when the form was read is not
  written, and another administrator's value of the meantime stands
  (`support_settings.py:327-330`): `Kept` of `Settings`.
- The transcription sets a call to "completed" whatever was reported since
  (`transcription/job.py:58`): `TranscribeCommit` of `Voice`.
- The first row of a mailbox is inserted before the savepoint that should
  contain the failure (`email_poll.py:59-64`): `InsertClash`.
- A claim writes no audit row (`inbox.py:116`, against README.md:105):
  `CommitRequest` of `Desk`.
- A message that lands in a pending ticket without assignee is on no agent's
  list (`inbox.py:81-90`): `Listable`.
- "Reject rather than guess" (`inbound.py`) does guess when several addresses
  contain the one a message was sent to (`inbound.py:114-120`): `Picked`.
- Assigning a ticket to an earlier assignee fails (`tickets.py:209`):
  `KeyTaken` of `Desk`.
- A deal may be created in another pipeline's stage (`contacts.py:384`):
  `Foreign` of `Deals`.
- A service event's audit row names `custom_fields.service_event`, but the deal
  is left as it is (`superhealth/webhooks.py`): `CommitEvent`.
- Reading the support settings makes teams and flushes them, and the session is
  closed without a commit (`support_settings.py:259`): reads of settings are no
  action of `Settings`.
- `route_unassigned_ticket` (`modules/routing/engine.py`) is called by nothing.

## Not modelled

- Payload parsing, signature checks, encryption and the providers' HTTP calls:
  sequential and stateless. Permissions: decided per request from static
  tables. Listings, conversations, reports, metrics and the audit log: reads.
- Short ids (`modules/tickets/short_id.py`): drawn at random until one is free,
  which is a retry against a unique constraint.
- The workflow editor, whose result is a constant of `Workflow`; broadcasts,
  which publish an event (a `Direct` request of `Outbox`) and deliver nothing;
  CRUD of organizations, pipelines, stages, forms, members of teams and users,
  whose rows nothing above reads twice; the creation of a routing policy, without
  which a save makes no tiers and one that names a policy setting is refused.
- The order of the inbox lists and their limit of 100 (`inbox.py:99`): a ticket
  that has a place on a list may be behind the first hundred.
- Answers by WhatsApp, which carry neither subject nor in_reply_to
  (`gallabox.py:172-189`): nothing ties them to a reply, and
  `AnswersStayInTicket` is about mail.
- `AgingSnapshotDaily`, `Interaction` rows and activity stamps are written
  together with what is modelled and read by nothing in it.
- A database error that leaves the session unusable, and so rolls back even the
  failed attempt it caused, is an `Abort`; that the same event causes it in
  every iteration is beyond the bounds and the fairness of the runs.
- Graphs with cycles: explored by no run, since a walk of one may never end
  (`modules/workflows/engine.py:170`); `CompletedWhole` covers them.
- How a caller's first contact and ticket are made (`Voice` begins after that):
  the same find-or-create as in `Inbound`.

## Plan

Done: all modules above, with their runs and the theorems listed.

1. To prove next: `ClientsCatchUp` as an abstract lossy channel, and the
   settings of a connector as a register of its columns, each implemented by
   its module as `Outbox` implements `EventQueue`.
2. To model next: short ids and a caller's first ticket within `Inbound`, the
   stages of a pipeline and their deletion within `Deals`.
