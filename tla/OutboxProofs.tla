---------------------------- MODULE OutboxProofs ----------------------------
(***************************************************************************)
(* Proofs about the outbox, for every set of requests, events, workflows,  *)
(* destinations and workers, every assignment of queues, and every bound.  *)
(***************************************************************************)
EXTENDS OutboxInv, TLAPS

-----------------------------------------------------------------------------
(* Type correctness *)

(* The initial state has the types.                                        *)
LEMMA InitTypeOK == Init => TypeOK
  BY DEF Init, TypeOK, NoRow, NoRows, NoRuns, Rows, CommittedStatus, RowStatus,
         RunStatus, ReqState

(* A step of a request keeps the types.                                    *)
LEMMA RequestTypeOK ==
    ASSUME TypeOK, NEW r \in Request, RequestStep(r)
    PROVE  TypeOK'
<1> USE DEF TypeOK, ReqState, requestVars, tableVars, txnVars, loopVars, workerVars
<1>1. CASE Record(r)
  BY <1>1 DEF Record
<1>2. CASE CommitRequest(r) \/ CommitGuarded(r)
  <2>1. NewRow(stamp[r]) \in Rows(CommittedStatus)
    BY DEF NewRow, Rows, CommittedStatus
  <2>2. outbox' \in [Key -> Rows(CommittedStatus)]
    BY <1>2, <2>1 DEF CommitRequest, CommitGuarded
  <2>3. QED
    BY <1>2, <2>2 DEF CommitRequest, CommitGuarded
<1>3. CASE FailRequest(r)
  BY <1>3 DEF FailRequest
<1>4. CASE Notify(r)
  BY <1>4, ConstantsAssumption DEF Notify
<1>5. QED
  BY <1>1, <1>2, <1>3, <1>4 DEF RequestStep

(* The duties of an event are tasks.                                       *)
LEMMA DutiesAreTasks ==
    ASSUME NEW w, NEW k
    PROVE  Duties(w, k) \subseteq Task
  BY DEF Duties, Task, MatchWorkflows, MatchDestinations

(* Updates of rows, and of one entry of one worker's private state. *)
LEMMA RowStatusUpdate ==
    ASSUME NEW S, NEW row \in Rows(S), NEW s, NEW T, S \subseteq T, s \in T
    PROVE  [row EXCEPT !.status = s] \in Rows(T)
  BY DEF Rows

(* The row of a failed attempt: one attempt more, and dead when it had as  *)
(* many as the limit.                                                      *)
LEMMA FailedRowType ==
    ASSUME NEW S, NEW row \in Rows(S), NEW T, {"dead", "pending"} \subseteq T
    PROVE  /\ FailedRow(row) \in Rows(T)
           /\ FailedRow(row).attempts = row.attempts + 1
           /\ FailedRow(row).at = row.at
           /\ FailedRow(row).status =
                 IF row.attempts >= RetryLimit THEN "dead" ELSE "pending"
  BY DEF FailedRow, Rows

(* One entry of one worker's private function is set: the type stays.      *)
LEMMA NestedUpdate ==
    ASSUME NEW A, NEW B, NEW f \in [Worker -> [A -> B]], NEW w \in Worker,
           NEW a \in A, NEW b \in B
    PROVE  [f EXCEPT ![w][a] = b] \in [Worker -> [A -> B]]
  OBVIOUS

(* And nothing else changes.                                               *)
LEMMA NestedEntry ==
    ASSUME NEW A, NEW B, NEW f \in [Worker -> [A -> B]], NEW w \in Worker,
           NEW a \in A, NEW b, NEW g, g = [f EXCEPT ![w][a] = b]
    PROVE  /\ g[w][a] = b
           /\ \A x \in A : x # a => g[w][x] = f[w][x]
           /\ \A v \in Worker : v # w => g[v] = f[v]
  OBVIOUS

(* Ending a transaction keeps the types of what it held.                   *)
LEMMA CloseTxnTypeOK ==
    ASSUME TypeOK, NEW w \in Worker, CloseTxn(w)
    PROVE  /\ pc' \in [Worker -> {"idle", "dispatch", "process"}]
           /\ locked' \in [Worker -> SUBSET Key]
           /\ todo' \in [Worker -> SUBSET Key]
           /\ cur' \in [Worker -> Key \cup {NoKey}]
           /\ left' \in [Worker -> SUBSET Task]
           /\ txnOutbox' \in [Worker -> [Key -> Rows(RowStatus)]]
           /\ txnRuns' \in [Worker -> [Workflow \X Key -> RunStatus]]
           /\ txnTranscripts' \in [Worker -> SUBSET Key]
<1>1. NoRows \in [Key -> Rows(RowStatus)] /\ NoRuns \in [Workflow \X Key -> RunStatus]
  BY DEF NoRows, NoRow, NoRuns, Rows, RowStatus, CommittedStatus, RunStatus
<1>2. QED
  BY <1>1 DEF CloseTxn, TypeOK

(* So does coming back from process_outbox_event.                          *)
LEMMA ReturnTypeOK ==
    ASSUME TypeOK, NEW w \in Worker, NEW row \in Rows(RowStatus),
           cur[w] \in Key, Return(w, row)
    PROVE  /\ pc' \in [Worker -> {"idle", "dispatch", "process"}]
           /\ cur' \in [Worker -> Key \cup {NoKey}]
           /\ left' \in [Worker -> SUBSET Task]
           /\ txnOutbox' \in [Worker -> [Key -> Rows(RowStatus)]]
  BY DEF Return, TypeOK

(* A worker that is processing is processing an event.                     *)
LEMMA CurIsKey ==
    ASSUME TypeOK, LoopInv, NEW w \in Worker, pc[w] = "process"
    PROVE  /\ cur[w] \in Key
           /\ txnOutbox[w][cur[w]] \in Rows(RowStatus)
  BY DEF TypeOK, LoopInv, LoopInvOf

(* A row that leaves an iteration is back in a committed state. *)
LEMMA CommittedRows ==
    ASSUME TypeOK, LoopInv, TxnRowsInv,
           NEW w \in Worker, pc[w] = "dispatch", NEW k \in locked[w]
    PROVE  txnOutbox[w][k] \in Rows(CommittedStatus)
<1>1. k # cur[w]
  BY ConstantsAssumption DEF LoopInv, LoopInvOf, TypeOK
<1>2. \/ txnOutbox[w][k] = outbox[k]
      \/ txnOutbox[w][k] = [outbox[k] EXCEPT !.status = "processed"]
      \/ txnOutbox[w][k] = FailedRow(outbox[k])
  BY <1>1 DEF TxnRowsInv, TxnRowsInvOf, Settled
<1>3. outbox[k] \in Rows(CommittedStatus)
  BY DEF TypeOK
<1>4. {"processed", "dead", "pending"} \subseteq CommittedStatus
  BY DEF CommittedStatus
<1>5. [outbox[k] EXCEPT !.status = "processed"] \in Rows(CommittedStatus)
  BY <1>3, <1>4, RowStatusUpdate
<1>6. FailedRow(outbox[k]) \in Rows(CommittedStatus)
  BY <1>3, <1>4, FailedRowType
<1>7. QED
  BY <1>2, <1>3, <1>5, <1>6

(* A step of a worker keeps the types.                                     *)
LEMMA WorkerTypeOK ==
    ASSUME TypeOK, LoopInv, TxnRowsInv,
           NEW w \in Worker, WorkerStep(w) \/ Abort(w)
    PROVE  TypeOK'
<1> USE DEF requestVars, tableVars, txnVars, loopVars, workerVars
<1>1. CASE Claim(w)
  <2>1. outbox \in [Key -> Rows(RowStatus)]
    BY DEF TypeOK, Rows, RowStatus
  <2>2. locked' \in [Worker -> SUBSET Key] /\ todo' \in [Worker -> SUBSET Key]
    BY <1>1 DEF Claim, Claimable, TypeOK
  <2>3. QED
    BY <1>1, <2>1, <2>2 DEF Claim, TypeOK
<1>2. ASSUME NEW k \in Key, Skip(w, k) PROVE TypeOK'
  BY <1>2 DEF Skip, TypeOK
<1>3. ASSUME NEW k \in Key, Take(w, k) PROVE TypeOK'
  <2>1. txnOutbox[w][k] \in Rows(RowStatus) /\ RowStatus \subseteq RowStatus
    BY DEF TypeOK
  <2>2. [txnOutbox[w][k] EXCEPT !.status = "queued"] \in Rows(RowStatus)
    BY <2>1, RowStatusUpdate DEF RowStatus
  <2>3. txnOutbox' = [txnOutbox EXCEPT ![w][k] =
                         [txnOutbox[w][k] EXCEPT !.status = "queued"]]
    BY <1>3 DEF Take
  <2>4. txnOutbox' \in [Worker -> [Key -> Rows(RowStatus)]]
    BY <2>2, <2>3, NestedUpdate DEF TypeOK
  <2>5. QED
    BY <1>3, <2>4, DutiesAreTasks DEF Take, TypeOK
<1>4. ASSUME NEW wf \in Workflow, StartRun(w, wf) PROVE TypeOK'
  <2>1. <<wf, cur[w]>> \in Workflow \X Key /\ "ok" \in RunStatus
    BY <1>4, CurIsKey DEF StartRun, Due, RunStatus
  <2>2. txnRuns' \in [Worker -> [Workflow \X Key -> RunStatus]]
    BY <1>4, <2>1, NestedUpdate DEF StartRun, TypeOK
  <2>3. QED
    BY <1>4, <2>2 DEF StartRun, TypeOK
<1>5. ASSUME NEW d \in Destination, Track(w, d) PROVE TypeOK'
  <2>1. cur[w] \in Key
    BY <1>5, CurIsKey DEF Track, Due
  <2>2. QED
    BY <1>5, <2>1 DEF Track, TypeOK
<1>6. CASE TranscribeCall(w)
  <2>1. cur[w] \in Key
    BY <1>6, CurIsKey DEF TranscribeCall, Due
  <2>2. QED
    BY <1>6, <2>1 DEF TranscribeCall, TypeOK
<1>7. CASE Finish(w)
  <2>1. cur[w] \in Key /\ txnOutbox[w][cur[w]] \in Rows(RowStatus)
    BY <1>7, CurIsKey DEF Finish
  <2>2. [txnOutbox[w][cur[w]] EXCEPT !.status = "processed"] \in Rows(RowStatus)
    BY <2>1, RowStatusUpdate DEF RowStatus, CommittedStatus
  <2>3. /\ pc' \in [Worker -> {"idle", "dispatch", "process"}]
        /\ cur' \in [Worker -> Key \cup {NoKey}]
        /\ left' \in [Worker -> SUBSET Task]
        /\ txnOutbox' \in [Worker -> [Key -> Rows(RowStatus)]]
    BY <1>7, <2>1, <2>2, ReturnTypeOK DEF Finish
  <2>4. QED
    BY <1>7, <2>3 DEF Finish, TypeOK
<1>8. ASSUME NEW t \in Task, TaskFails(w, t) PROVE TypeOK'
  <2>1. cur[w] \in Key /\ txnOutbox[w][cur[w]] \in Rows(RowStatus)
    BY <1>8, CurIsKey DEF TaskFails, Due
  <2>2. FailedRow(txnOutbox[w][cur[w]]) \in Rows(RowStatus)
    BY <2>1, FailedRowType DEF RowStatus, CommittedStatus
  <2>3. /\ pc' \in [Worker -> {"idle", "dispatch", "process"}]
        /\ cur' \in [Worker -> Key \cup {NoKey}]
        /\ left' \in [Worker -> SUBSET Task]
        /\ txnOutbox' \in [Worker -> [Key -> Rows(RowStatus)]]
    BY <1>8, <2>1, <2>2, ReturnTypeOK DEF TaskFails
  <2>4. txnRuns' \in [Worker -> [Workflow \X Key -> RunStatus]]
    <3>1. CASE t \in Workflow
      <4>1. <<t, cur[w]>> \in Workflow \X Key /\ "failed" \in RunStatus
        BY <2>1, <3>1 DEF RunStatus
      <4>2. [txnRuns EXCEPT ![w][<<t, cur[w]>>] = "failed"]
               \in [Worker -> [Workflow \X Key -> RunStatus]]
        BY <4>1, NestedUpdate DEF TypeOK
      <4>3. QED
        BY <1>8, <3>1, <4>2 DEF TaskFails, TypeOK
    <3>2. CASE t \notin Workflow
      BY <1>8, <3>2 DEF TaskFails, TypeOK
    <3>3. QED
      BY <3>1, <3>2
  <2>5. sends' \in [Destination \X Key -> Nat]
    <3>1. CASE t \in Destination
      <4>1. <<t, cur[w]>> \in Destination \X Key
        BY <2>1, <3>1
      <4>2. [sends EXCEPT ![<<t, cur[w]>>] = @ + 1] \in [Destination \X Key -> Nat]
        BY <4>1 DEF TypeOK
      <4>3. QED
        BY <1>8, <3>1, <4>2 DEF TaskFails, TypeOK
    <3>2. CASE t \notin Destination
      BY <1>8, <3>2 DEF TaskFails, TypeOK
    <3>3. QED
      BY <3>1, <3>2
  <2>6. QED
    BY <1>8, <2>3, <2>4, <2>5 DEF TaskFails, TypeOK
<1>9. CASE Commit(w)
  <2>1. \A k \in locked[w] : txnOutbox[w][k] \in Rows(CommittedStatus)
    BY <1>9, CommittedRows DEF Commit
  <2>2. outbox' \in [Key -> Rows(CommittedStatus)]
    BY <1>9, <2>1 DEF Commit, TypeOK
  <2>3. runs' \in [Workflow \X Key -> RunStatus] /\ transcripts' \subseteq Key
    BY <1>9 DEF Commit, TypeOK
  <2>4. /\ pc' \in [Worker -> {"idle", "dispatch", "process"}]
        /\ locked' \in [Worker -> SUBSET Key]
        /\ todo' \in [Worker -> SUBSET Key]
        /\ cur' \in [Worker -> Key \cup {NoKey}]
        /\ left' \in [Worker -> SUBSET Task]
        /\ txnOutbox' \in [Worker -> [Key -> Rows(RowStatus)]]
        /\ txnRuns' \in [Worker -> [Workflow \X Key -> RunStatus]]
        /\ txnTranscripts' \in [Worker -> SUBSET Key]
    BY <1>9, CloseTxnTypeOK DEF Commit
  <2>5. QED
    BY <1>9, <2>2, <2>3, <2>4 DEF Commit, TypeOK
<1>10. CASE Abort(w)
  <2>1. /\ pc' \in [Worker -> {"idle", "dispatch", "process"}]
        /\ locked' \in [Worker -> SUBSET Key]
        /\ todo' \in [Worker -> SUBSET Key]
        /\ cur' \in [Worker -> Key \cup {NoKey}]
        /\ left' \in [Worker -> SUBSET Task]
        /\ txnOutbox' \in [Worker -> [Key -> Rows(RowStatus)]]
        /\ txnRuns' \in [Worker -> [Workflow \X Key -> RunStatus]]
        /\ txnTranscripts' \in [Worker -> SUBSET Key]
    BY <1>10, CloseTxnTypeOK DEF Abort
  <2>2. QED
    BY <1>10, <2>1 DEF Abort, TypeOK
<1>11. QED
  BY <1>1, <1>2, <1>3, <1>4, <1>5, <1>6, <1>7, <1>8, <1>9, <1>10 DEF WorkerStep

-----------------------------------------------------------------------------
(* What a step leaves alone *)

(* The part of the invariant about one iteration survives any step that    *)
(* leaves its private state, and the rows and runs of its locked keys, as  *)
(* they are, and only adds records and deliveries elsewhere.               *)
LEMMA OtherIteration ==
    ASSUME TypeOK, TypeOK', NEW v \in Worker,
           LoopInvOf(v), TxnRowsInvOf(v), TxnRecordsInvOf(v),
           pc'[v] = pc[v], locked'[v] = locked[v], todo'[v] = todo[v],
           cur'[v] = cur[v], left'[v] = left[v],
           txnOutbox'[v] = txnOutbox[v], txnRuns'[v] = txnRuns[v],
           txnTranscripts'[v] = txnTranscripts[v],
           \A k \in locked[v] : outbox'[k] = outbox[k],
           \A wf \in Workflow : \A k \in locked[v] :
              runs'[<<wf, k>>] = runs[<<wf, k>>],
           transcripts \subseteq transcripts',
           \A dk \in Destination \X Key : sends'[dk] >= sends[dk]
    PROVE  LoopInvOf(v)' /\ TxnRowsInvOf(v)' /\ TxnRecordsInvOf(v)'
<1>1. LoopInvOf(v)'
  BY DEF LoopInvOf
<1>2. Touched(v)' = Touched(v)
  BY DEF Touched
<1>3. ASSUME NEW k \in locked[v], NEW t, DoneInTxn(v, t, k)
      PROVE  DoneInTxn(v, t, k)'
  <2>1. k \in Key
    BY DEF TypeOK
  <2>2. CASE t \in Workflow /\ HasRun(v, t, k)
    BY <2>2 DEF DoneInTxn, HasRun
  <2>3. CASE t \in Destination /\ sends[<<t, k>>] > 0
    <3>1. <<t, k>> \in Destination \X Key
      BY <2>1, <2>3
    <3>2. sends[<<t, k>>] \in Nat /\ sends'[<<t, k>>] \in Nat
      BY <3>1 DEF TypeOK
    <3>3. sends'[<<t, k>>] > 0
      BY <2>3, <3>1, <3>2
    <3>4. QED
      BY <2>3, <3>3 DEF DoneInTxn
  <2>4. CASE t = Transcription /\ HasTranscript(v, k)
    BY <2>4 DEF DoneInTxn, HasTranscript
  <2>5. QED
    BY <1>3, <2>2, <2>3, <2>4 DEF DoneInTxn
<1>4. TxnRowsInvOf(v)'
  <2> SUFFICES ASSUME NEW k \in locked[v]
               PROVE  /\ k \notin Touched(v) => txnOutbox[v][k] = outbox'[k]
                      /\ k = cur[v] => InHand(v, k)'
                      /\ k \in Touched(v) /\ k # cur[v] => Settled(v, k)'
    BY <1>2 DEF TxnRowsInvOf
  <2>1. outbox'[k] = outbox[k]
    OBVIOUS
  <2>2. k \notin Touched(v) => txnOutbox[v][k] = outbox'[k]
    BY <2>1 DEF TxnRowsInvOf
  <2>3. ASSUME InHand(v, k) PROVE InHand(v, k)'
    BY <1>3, <2>1, <2>3 DEF InHand
  <2>4. ASSUME Settled(v, k) PROVE Settled(v, k)'
    BY <1>3, <2>1, <2>4 DEF Settled, FailedRow
  <2>5. QED
    BY <2>2, <2>3, <2>4 DEF TxnRowsInvOf
<1>5. TxnRecordsInvOf(v)'
  <2>1. txnTranscripts'[v] \subseteq Touched(v)'
    BY <1>2 DEF TxnRecordsInvOf
  <2>2. ASSUME NEW wf \in Workflow, NEW k \in Key, txnRuns'[v][<<wf, k>>] # "none"
        PROVE  k \in Touched(v)' /\ runs'[<<wf, k>>] = "none"
    <3>1. k \in Touched(v) /\ runs[<<wf, k>>] = "none"
      BY <2>2 DEF TxnRecordsInvOf
    <3>2. k \in locked[v]
      BY <3>1 DEF Touched
    <3>3. QED
      BY <1>2, <3>1, <3>2
  <2>3. QED
    BY <2>1, <2>2 DEF TxnRecordsInvOf
<1>6. QED
  BY <1>1, <1>4, <1>5

(* What makes a processed event handled is never taken back.               *)
LEMMA ProcessedStaysHandled ==
    ASSUME TypeOK, TypeOK', ProcessedIsHandled, NEW k \in Key,
           outbox[k].status = "processed",
           \A wk \in Workflow \X Key : runs[wk] # "none" => runs'[wk] # "none",
           transcripts \subseteq transcripts',
           \A dk \in Destination \X Key : sends'[dk] >= sends[dk]
    PROVE  \E w \in Handlers(k) : \A t \in Owed(w, k) : Done(t, k)'
<1>1. PICK w \in Handlers(k) : \A t \in Owed(w, k) : Done(t, k)
  BY DEF ProcessedIsHandled
<1>2. ASSUME NEW t \in Owed(w, k) PROVE Done(t, k)'
  <2>1. CASE t \in Workflow /\ runs[<<t, k>>] # "none"
    BY <2>1 DEF Done
  <2>2. CASE t \in Destination /\ sends[<<t, k>>] > 0
    <3>1. <<t, k>> \in Destination \X Key
      BY <2>2
    <3>2. sends[<<t, k>>] \in Nat /\ sends'[<<t, k>>] \in Nat
      BY <3>1 DEF TypeOK
    <3>3. sends'[<<t, k>>] > 0
      BY <2>2, <3>1, <3>2
    <3>4. QED
      BY <2>2, <3>3 DEF Done
  <2>3. CASE t = Transcription /\ k \in transcripts
    BY <2>3 DEF Done
  <2>4. QED
    BY <1>1, <2>1, <2>2, <2>3 DEF Done
<1>3. QED
  BY <1>2

(* A step that changes no committed row keeps what is said of the rows.    *)
LEMMA SameRows ==
    ASSUME TypeOK, TypeOK', RequestInv, AttemptsInv, ProcessedIsHandled,
           outbox' = outbox, UNCHANGED requestVars,
           runs' = runs, transcripts' = transcripts,
           \A dk \in Destination \X Key : sends'[dk] >= sends[dk]
    PROVE  RequestInv' /\ AttemptsInv' /\ ProcessedIsHandled'
<1>1. RequestInv'
  BY DEF RequestInv, AuditAndEventTogether, NotifiedAreDurable, Committed, Present, Own, requestVars
<1>2. AttemptsInv'
  BY DEF AttemptsInv, DeadAfterRetries
<1>3. ProcessedIsHandled'
  BY ProcessedStaysHandled DEF ProcessedIsHandled
<1>4. QED
  BY <1>1, <1>2, <1>3

-----------------------------------------------------------------------------
(* Deliveries *)

(* With no new delivery, no row settled and no iteration undone, the       *)
(* account of deliveries can only gain slack.                              *)
LEMMA NoNewDelivery ==
    ASSUME TypeOK, TypeOK', DeliveryInv, NEW d \in Destination, NEW k \in Key,
           sends'[<<d, k>>] = sends[<<d, k>>],
           outbox'[k].attempts = outbox[k].attempts,
           outbox[k].status = "processed" => outbox'[k].status = "processed",
           aborts' = aborts,
           \A w \in Worker : MayHaveSent(w, d, k) => MayHaveSent(w, d, k)'
    PROVE  sends'[<<d, k>>] <= outbox'[k].attempts + aborts'
               + (IF \/ outbox'[k].status = "processed"
                     \/ \E w \in Worker : MayHaveSent(w, d, k)'
                  THEN 1 ELSE 0)
<1>1. sends[<<d, k>>] \in Nat /\ outbox[k].attempts \in Nat /\ aborts \in Nat
  BY DEF TypeOK, Rows
<1>2. sends[<<d, k>>] <= outbox[k].attempts + aborts
          + (IF \/ outbox[k].status = "processed"
                \/ \E w \in Worker : MayHaveSent(w, d, k)
             THEN 1 ELSE 0)
  BY DEF DeliveryInv
<1>3. CASE \/ outbox[k].status = "processed"
           \/ \E w \in Worker : MayHaveSent(w, d, k)
  BY <1>1, <1>2, <1>3
<1>4. CASE ~ \/ outbox[k].status = "processed"
             \/ \E w \in Worker : MayHaveSent(w, d, k)
  BY <1>1, <1>2, <1>4
<1>5. QED
  BY <1>3, <1>4

(* An event that is pending and in no hands, or in hands that have not yet *)
(* called d, has had no more calls than failures and rollbacks explain.    *)
LEMMA UnsentIsTight ==
    ASSUME TypeOK, LocksDisjoint, LoopInv, DeliveryInv,
           NEW w \in Worker, NEW d \in Destination, NEW k \in locked[w],
           ~MayHaveSent(w, d, k)
    PROVE  sends[<<d, k>>] <= outbox[k].attempts + aborts
<1>1. k \in Key /\ outbox[k].status = "pending"
  BY DEF TypeOK, LoopInv, LoopInvOf
<1>2. ASSUME NEW v \in Worker, v # w PROVE ~MayHaveSent(v, d, k)
  BY <1>2 DEF LocksDisjoint, MayHaveSent, Touched
<1>3. ~ \E v \in Worker : MayHaveSent(v, d, k)
  BY <1>2
<1>4. sends[<<d, k>>] <= outbox[k].attempts + aborts + 0
  BY <1>1, <1>3 DEF DeliveryInv
<1>5. outbox[k].attempts \in Nat /\ aborts \in Nat /\ sends[<<d, k>>] \in Nat
  BY <1>1 DEF TypeOK, Rows
<1>6. QED
  BY <1>4, <1>5

-----------------------------------------------------------------------------
(* The invariant, action by action *)

(* The invariant holds initially.                                          *)
LEMMA InitIInv == Init => IInv
<1> SUFFICES ASSUME Init PROVE IInv
  OBVIOUS
<1>1. TypeOK
  BY InitTypeOK
<1>2. RequestInv
  <2>1. /\ \A r \in Request : ~Committed(r) /\ req[r] # "notify"
        /\ \A k \in Key : ~Present(k)
        /\ audit = {} /\ notified = {}
    BY DEF Init, Committed, Present, NoRow
  <2>2. QED
    BY <2>1, ConstantsAssumption DEF RequestInv, AuditAndEventTogether, NotifiedAreDurable
<1>3. LocksDisjoint /\ LoopInv
  BY ConstantsAssumption DEF Init, LocksDisjoint, LoopInv, LoopInvOf
<1>4. TxnRowsInv /\ TxnRecordsInv
  BY DEF Init, TxnRowsInv, TxnRowsInvOf, TxnRecordsInv, TxnRecordsInvOf, NoRuns
<1>5. AttemptsInv
  BY ConstantsAssumption DEF Init, AttemptsInv, DeadAfterRetries, NoRow
<1>6. DeliveryInv
  BY DEF Init, DeliveryInv, NoRow, MayHaveSent, Touched
<1>7. ProcessedIsHandled
  BY DEF Init, ProcessedIsHandled, NoRow
<1>8. QED
  BY <1>1, <1>2, <1>3, <1>4, <1>5, <1>6, <1>7 DEF IInv

(* A request only ever adds the row of an absent key. *)
LEMMA RequestAddsRow ==
    ASSUME TypeOK, NEW r \in Request, RequestStep(r), NEW k \in Key
    PROVE  \/ outbox'[k] = outbox[k]
           \/ outbox[k].status = "absent" /\ outbox'[k] = NewRow(stamp[r])
  BY DEF RequestStep, Record, CommitRequest, CommitGuarded, FailRequest, Notify, TypeOK, tableVars

(* A request publishes its event on a key that nobody had.                 *)
LEMMA EventPublished ==
    ASSUME TypeOK, RequestInv, NEW r \in Request, req[r] = "open", Emits(r),
           outbox[KeyOf[r]].status = "absent",
           outbox' = [outbox EXCEPT ![KeyOf[r]] = NewRow(stamp[r])],
           req' = [req EXCEPT ![r] = "notify"],
           audit' = IF r \in Changing THEN audit \cup {r} ELSE audit,
           stamp' = stamp, notified' = notified
    PROVE  RequestInv'
<1>1. KeyOf[r] \in Key
  BY ConstantsAssumption
<1>2. /\ Present(KeyOf[r])' /\ Own(r)'
      /\ \A k \in Key : k # KeyOf[r] => outbox'[k] = outbox[k]
  BY <1>1 DEF Present, Own, NewRow, TypeOK
<1>3. \A s \in Request : Committed(s)' <=> Committed(s) \/ s = r
  BY DEF Committed, TypeOK
<1>4. \A s \in Request : Emits(s) /\ Committed(s) =>
         KeyOf[s] \in Key /\ KeyOf[s] # KeyOf[r] /\ (Own(s) => Own(s)')
  BY <1>1, <1>2, ConstantsAssumption
     DEF RequestInv, AuditAndEventTogether, Present, Own
<1>5. audit' = {s \in Changing : Committed(s)'}
  BY <1>3, ConstantsAssumption DEF RequestInv, AuditAndEventTogether
<1>6. \A s \in Request : Emits(s) /\ Committed(s)' =>
         Present(KeyOf[s])' /\ (s \notin Guarded => Own(s)')
  BY <1>2, <1>3, <1>4 DEF RequestInv, AuditAndEventTogether, Present
<1>7. \A k \in Key : Present(k)' =>
         \E s \in Request : Emits(s) /\ Committed(s)' /\ KeyOf[s] = k /\ Own(s)'
  <2>1. SUFFICES ASSUME NEW k \in Key, Present(k)', k # KeyOf[r]
                 PROVE  \E s \in Request : Emits(s) /\ Committed(s)' /\ KeyOf[s] = k /\ Own(s)'
    BY <1>2, <1>3
  <2>2. PICK s \in Request : Emits(s) /\ Committed(s) /\ KeyOf[s] = k /\ Own(s)
    BY <1>2, <2>1 DEF RequestInv, AuditAndEventTogether, Present
  <2>3. QED
    BY <1>3, <1>4, <2>2
<1>8. \A r1, r2 \in Request \ Guarded :
         /\ Emits(r1) /\ Committed(r1)' /\ Emits(r2) /\ Committed(r2)'
         /\ KeyOf[r1] = KeyOf[r2]
         => r1 = r2
  BY <1>3, <1>4 DEF RequestInv, AuditAndEventTogether
<1>9. AuditAndEventTogether'
  BY <1>5, <1>6, <1>7, <1>8 DEF AuditAndEventTogether, Emits
<1>10. NotifiedAreDurable'
  BY <1>2 DEF RequestInv, NotifiedAreDurable, Present, TypeOK
<1>11. QED
  BY <1>9, <1>10 DEF RequestInv, TypeOK, Emits

(* A step that publishes nothing, of a request without an event of its own *)
(* to publish.                                                             *)
LEMMA NothingPublished ==
    ASSUME TypeOK, RequestInv, NEW r \in Request, outbox' = outbox,
           \A s \in Request \ {r} : req'[s] = req[s] /\ stamp'[s] = stamp[s],
           ~Committed(r),
           Committed(r)' => (Emits(r) => r \in Guarded /\ Present(KeyOf[r])),
           req'[r] # "notify", notified' = notified,
           audit' = IF r \in Changing /\ Committed(r)' THEN audit \cup {r} ELSE audit
    PROVE  RequestInv'
<1>1. \A s \in Request \ {r} : (Committed(s)' <=> Committed(s)) /\ (Own(s)' <=> Own(s))
  BY DEF Committed, Own, Present
<1>2. \A k \in Key : Present(k)' <=> Present(k)
  BY DEF Present
<1>3. audit' = {s \in Changing : Committed(s)'}
  BY <1>1, ConstantsAssumption DEF RequestInv, AuditAndEventTogether
<1>4. \A s \in Request : Emits(s) /\ Committed(s)' =>
         Present(KeyOf[s])' /\ (s \notin Guarded => Own(s)')
  BY <1>1, <1>2, ConstantsAssumption DEF RequestInv, AuditAndEventTogether
<1>5. \A k \in Key : Present(k)' =>
         \E s \in Request : Emits(s) /\ Committed(s)' /\ KeyOf[s] = k /\ Own(s)'
  BY <1>1, <1>2 DEF RequestInv, AuditAndEventTogether
<1>6. \A r1, r2 \in Request \ Guarded :
         /\ Emits(r1) /\ Committed(r1)' /\ Emits(r2) /\ Committed(r2)'
         /\ KeyOf[r1] = KeyOf[r2]
         => r1 = r2
  BY <1>1 DEF RequestInv, AuditAndEventTogether
<1>7. AuditAndEventTogether'
  BY <1>3, <1>4, <1>5, <1>6 DEF AuditAndEventTogether, Emits
<1>8. NotifiedAreDurable'
  BY <1>2 DEF RequestInv, NotifiedAreDurable, TypeOK
<1>9. \A s \in Request : req'[s] = "notify" => Emits(s)
  BY DEF RequestInv
<1>10. QED
  BY <1>7, <1>8, <1>9 DEF RequestInv, Emits

(* A request keeps its audit row and its event together.                   *)
LEMMA RequestKeepsRequestInv ==
    ASSUME TypeOK, RequestInv, NEW r \in Request, RequestStep(r)
    PROVE  RequestInv'
<1>1. CASE Record(r) \/ FailRequest(r)
  BY <1>1, NothingPublished DEF Record, FailRequest, tableVars, Committed, TypeOK
<1>2. CASE CommitRequest(r)
  <2>1. CASE Emits(r)
    BY <1>2, <2>1, EventPublished DEF CommitRequest
  <2>2. CASE ~Emits(r)
    BY <1>2, <2>2, NothingPublished DEF CommitRequest, Committed, TypeOK
  <2>3. QED
    BY <2>1, <2>2
<1>3. CASE CommitGuarded(r)
  <2>1. Emits(r) /\ r \notin Changing
    BY <1>3, ConstantsAssumption DEF CommitGuarded, Emits
  <2>2. CASE outbox[KeyOf[r]].status = "absent"
    BY <1>3, <2>1, <2>2, EventPublished DEF CommitGuarded
  <2>3. CASE outbox[KeyOf[r]].status # "absent"
    BY <1>3, <2>1, <2>3, NothingPublished DEF CommitGuarded, Committed, Present, TypeOK
  <2>4. QED
    BY <2>2, <2>3
<1>4. CASE Notify(r)
  <2>1. /\ req' = [req EXCEPT ![r] = "done"] /\ req[r] = "notify" /\ Emits(r)
        /\ UNCHANGED <<stamp, audit, outbox>>
        /\ notified' \subseteq notified \cup {KeyOf[r]}
    BY <1>4 DEF Notify, tableVars, RequestInv
  <2>2. /\ \A s \in Request : (Committed(s)' <=> Committed(s)) /\ (Own(s)' <=> Own(s))
        /\ \A k : Present(k)' <=> Present(k)
    BY <2>1 DEF Committed, Own, Present, TypeOK
  <2>3. Present(KeyOf[r])
    BY <2>1 DEF RequestInv, AuditAndEventTogether, Committed
  <2>4. AuditAndEventTogether'
    BY <2>1, <2>2, ConstantsAssumption DEF RequestInv, AuditAndEventTogether, Emits
  <2>5. NotifiedAreDurable'
    BY <2>1, <2>2, <2>3 DEF RequestInv, NotifiedAreDurable
  <2>6. QED
    BY <2>1, <2>4, <2>5 DEF RequestInv, Emits, TypeOK
<1>5. QED
  BY <1>1, <1>2, <1>3, <1>4 DEF RequestStep

(* Requests keep the invariant: the rows they add are new, and nobody's.   *)
LEMMA RequestKeepsIInv ==
    ASSUME IInv, NEW r \in Request, RequestStep(r)
    PROVE  IInv'
<1> USE DEF IInv
<1>1. TypeOK'
  BY RequestTypeOK
<1>2. RequestInv'
  BY RequestKeepsRequestInv
<1>3. UNCHANGED <<runs, transcripts, sends, workerVars>>
  BY DEF RequestStep, Record, CommitRequest, CommitGuarded, FailRequest, Notify, tableVars
<1>4. UNCHANGED <<pc, locked, todo, cur, left, txnOutbox, txnRuns,
                  txnTranscripts, aborts>>
  BY <1>3 DEF workerVars, loopVars, txnVars
<1>5. \A k \in Key : \/ outbox'[k] = outbox[k]
                     \/ outbox[k].status = "absent" /\ outbox'[k] = NewRow(stamp[r])
  BY RequestAddsRow
<1>6. \A dk \in Destination \X Key : sends'[dk] >= sends[dk]
  BY <1>3 DEF TypeOK
<1>7. LocksDisjoint'
  BY <1>4 DEF LocksDisjoint
<1>8. LoopInv' /\ TxnRowsInv' /\ TxnRecordsInv'
  <2> SUFFICES ASSUME NEW v \in Worker
               PROVE  LoopInvOf(v)' /\ TxnRowsInvOf(v)' /\ TxnRecordsInvOf(v)'
    BY DEF LoopInv, TxnRowsInv, TxnRecordsInv
  <2>1. LoopInvOf(v) /\ TxnRowsInvOf(v) /\ TxnRecordsInvOf(v)
    BY DEF LoopInv, TxnRowsInv, TxnRecordsInv
  <2>2. \A k \in locked[v] : outbox'[k] = outbox[k]
    BY <1>5, <2>1 DEF LoopInvOf, TypeOK
  <2>3. QED
    BY <1>1, <1>3, <1>4, <1>6, <2>1, <2>2, OtherIteration
<1>9. AttemptsInv'
  BY <1>5, ConstantsAssumption DEF AttemptsInv, DeadAfterRetries, NewRow
<1>10. DeliveryInv'
  <2> SUFFICES ASSUME NEW d \in Destination, NEW k \in Key
               PROVE  sends'[<<d, k>>] <= outbox'[k].attempts + aborts'
                          + (IF \/ outbox'[k].status = "processed"
                                \/ \E w \in Worker : MayHaveSent(w, d, k)'
                             THEN 1 ELSE 0)
    BY DEF DeliveryInv
  <2>1. outbox'[k].attempts = outbox[k].attempts
    BY <1>5 DEF AttemptsInv, NewRow
  <2>2. outbox[k].status = "processed" => outbox'[k].status = "processed"
    BY <1>5
  <2>3. \A w \in Worker : MayHaveSent(w, d, k) => MayHaveSent(w, d, k)'
    BY <1>4 DEF MayHaveSent, Touched
  <2>4. QED
    BY <1>1, <1>3, <1>4, <2>1, <2>2, <2>3, NoNewDelivery
<1>11. ProcessedIsHandled'
  BY <1>1, <1>3, <1>5, <1>6, ProcessedStaysHandled DEF ProcessedIsHandled, NewRow
<1>12. QED
  BY <1>1, <1>2, <1>7, <1>8, <1>9, <1>10, <1>11

(* A step inside one iteration: nothing committed changes, and the private *)
(* state of the other iterations stays.                                    *)
InTxn(w) ==
    /\ UNCHANGED <<requestVars, tableVars, locked, aborts>>
    /\ \A v \in Worker \ {w} :
          /\ pc'[v] = pc[v] /\ todo'[v] = todo[v]
          /\ cur'[v] = cur[v] /\ left'[v] = left[v]
          /\ txnOutbox'[v] = txnOutbox[v] /\ txnRuns'[v] = txnRuns[v]
          /\ txnTranscripts'[v] = txnTranscripts[v]
    /\ \A dk \in Destination \X Key : sends'[dk] >= sends[dk]

(* A step inside a transaction changes no table: the invariant then only   *)
(* depends on what it says of that transaction, and of deliveries.         *)
LEMMA InTxnKeepsIInv ==
    ASSUME IInv, TypeOK', NEW w \in Worker, InTxn(w),
           LoopInvOf(w)', TxnRowsInvOf(w)', TxnRecordsInvOf(w)', DeliveryInv'
    PROVE  IInv'
<1> USE DEF IInv
<1>1. UNCHANGED <<outbox, runs, transcripts, locked, aborts>>
  BY DEF InTxn, tableVars
<1>2. RequestInv' /\ AttemptsInv' /\ ProcessedIsHandled'
  BY <1>1, SameRows DEF InTxn
<1>3. LocksDisjoint'
  BY <1>1 DEF LocksDisjoint
<1>4. LoopInv' /\ TxnRowsInv' /\ TxnRecordsInv'
  <2> SUFFICES ASSUME NEW v \in Worker
               PROVE  LoopInvOf(v)' /\ TxnRowsInvOf(v)' /\ TxnRecordsInvOf(v)'
    BY DEF LoopInv, TxnRowsInv, TxnRecordsInv
  <2>1. CASE v # w
    <3>1. LoopInvOf(v) /\ TxnRowsInvOf(v) /\ TxnRecordsInvOf(v)
      BY DEF LoopInv, TxnRowsInv, TxnRecordsInv
    <3>2. QED
      BY <1>1, <2>1, <3>1, OtherIteration DEF InTxn
  <2>2. QED
    BY <2>1
<1>5. QED
  BY <1>2, <1>3, <1>4

(* The deliveries of a step inside an iteration that calls no provider and *)
(* after which no call it may have made is forgotten.                      *)
LEMMA InTxnNoDelivery ==
    ASSUME IInv, TypeOK', NEW w \in Worker, InTxn(w), sends' = sends,
           \A d \in Destination, k \in Key :
              MayHaveSent(w, d, k) => MayHaveSent(w, d, k)'
    PROVE  DeliveryInv'
<1> SUFFICES ASSUME NEW d \in Destination, NEW k \in Key
             PROVE  sends'[<<d, k>>] <= outbox'[k].attempts + aborts'
                        + (IF \/ outbox'[k].status = "processed"
                              \/ \E v \in Worker : MayHaveSent(v, d, k)'
                           THEN 1 ELSE 0)
  BY DEF DeliveryInv
<1>1. ASSUME NEW v \in Worker, MayHaveSent(v, d, k) PROVE MayHaveSent(v, d, k)'
  <2>1. CASE v = w
    BY <1>1, <2>1
  <2>2. CASE v # w
    BY <1>1, <2>2 DEF InTxn, MayHaveSent, Touched
  <2>3. QED
    BY <2>1, <2>2
<1>2. outbox' = outbox /\ aborts' = aborts
  BY DEF InTxn, tableVars
<1>3. QED
  BY <1>1, <1>2, NoNewDelivery DEF IInv

(* Passing over a row a worker may not handle.                             *)
LEMMA SkipKeepsIInv ==
    ASSUME IInv, TypeOK', NEW w \in Worker, NEW k \in Key, Skip(w, k)
    PROVE  IInv'
<1>1. InTxn(w) /\ sends' = sends
  BY DEF Skip, InTxn, txnVars, tableVars, IInv, TypeOK
<1>2. /\ pc' = pc /\ cur' = cur /\ left' = left /\ locked' = locked
      /\ outbox' = outbox /\ runs' = runs /\ transcripts' = transcripts
      /\ txnOutbox' = txnOutbox /\ txnRuns' = txnRuns
      /\ txnTranscripts' = txnTranscripts
      /\ todo'[w] = todo[w] \ {k}
      /\ Declines(w, k)
  BY DEF Skip, txnVars, tableVars, IInv, TypeOK
<1>3. Touched(w)' = Touched(w)
  BY <1>2 DEF Touched
<1>4. LoopInvOf(w)'
  BY <1>2 DEF LoopInvOf, IInv, LoopInv
<1>5. TxnRowsInvOf(w)'
  BY <1>1, <1>2, <1>3 DEF TxnRowsInvOf, IInv, TxnRowsInv, InHand, Settled,
                          DoneInTxn, HasRun, HasTranscript
<1>6. TxnRecordsInvOf(w)'
  BY <1>2, <1>3 DEF TxnRecordsInvOf, IInv, TxnRecordsInv
<1>7. DeliveryInv'
  BY <1>1, <1>2, <1>3, InTxnNoDelivery DEF MayHaveSent
<1>8. QED
  BY <1>1, <1>4, <1>5, <1>6, <1>7, InTxnKeepsIInv

(* Taking the next row of the batch.                                       *)
LEMMA TakeKeepsIInv ==
    ASSUME IInv, TypeOK', NEW w \in Worker, NEW k \in Key, Take(w, k)
    PROVE  IInv'
<1> USE DEF IInv
<1>1. InTxn(w) /\ sends' = sends
  BY DEF Take, InTxn, txnVars, tableVars, TypeOK
<1>2. /\ pc[w] = "dispatch" /\ pc'[w] = "process"
      /\ locked' = locked /\ outbox' = outbox /\ runs' = runs
      /\ transcripts' = transcripts /\ txnRuns' = txnRuns
      /\ txnTranscripts' = txnTranscripts
      /\ k \in todo[w] /\ todo'[w] = todo[w] \ {k}
      /\ cur'[w] = k /\ left'[w] = Duties(w, k)
      /\ ~Declines(w, k)
  BY DEF Take, IsNext, tableVars, TypeOK
<1>3. LoopInvOf(w)
  BY DEF LoopInv
<1>4. k \in locked[w] /\ k # NoKey /\ cur[w] = NoKey
  BY <1>2, <1>3, ConstantsAssumption DEF LoopInvOf
<1>5. Touched(w)' = Touched(w) \cup {k} /\ k \notin Touched(w)
  BY <1>2, <1>4 DEF Touched
<1>6. LoopInvOf(w)'
  BY <1>2, <1>3, <1>4 DEF LoopInvOf
<1>7. /\ txnOutbox'[w][k] = [txnOutbox[w][k] EXCEPT !.status = "queued"]
      /\ \A j \in Key : j # k => txnOutbox'[w][j] = txnOutbox[w][j]
  BY DEF Take, TypeOK
<1>8. TxnRowsInvOf(w)'
  <2> SUFFICES ASSUME NEW j \in locked[w]
               PROVE  /\ j \notin Touched(w)' => txnOutbox'[w][j] = outbox'[j]
                      /\ j = cur'[w] => InHand(w, j)'
                      /\ j \in Touched(w)' /\ j # cur'[w] => Settled(w, j)'
    BY <1>2 DEF TxnRowsInvOf
  <2>1. j \in Key /\ TxnRowsInvOf(w)
    BY DEF TypeOK, TxnRowsInv
  <2>2. CASE j = k
    <3>1. txnOutbox[w][k] = outbox[k]
      BY <1>4, <1>5, <2>1 DEF TxnRowsInvOf
    <3>2. InHand(w, k)'
      BY <1>2, <1>7, <3>1 DEF InHand
    <3>3. QED
      BY <1>2, <1>5, <2>2, <3>2
  <2>3. CASE j # k
    <3>1. j # cur[w]
      BY <1>4, <2>1, ConstantsAssumption
    <3>2. txnOutbox'[w][j] = outbox[j] \/ Settled(w, j)
      BY <1>7, <2>1, <2>3, <3>1 DEF TxnRowsInvOf
    <3>3. Settled(w, j) => Settled(w, j)'
      BY <1>1, <1>2, <1>7, <2>1, <2>3
         DEF Settled, DoneInTxn, HasRun, HasTranscript, FailedRow
    <3>4. QED
      BY <1>2, <1>5, <1>7, <2>1, <2>3, <3>1, <3>3 DEF TxnRowsInvOf
  <2>4. QED
    BY <2>2, <2>3
<1>9. TxnRecordsInvOf(w)'
  BY <1>2, <1>5 DEF TxnRecordsInvOf, TxnRecordsInv
<1>10. DeliveryInv'
  BY <1>1, <1>2, <1>5, InTxnNoDelivery DEF MayHaveSent
<1>11. QED
  BY <1>1, <1>6, <1>8, <1>9, <1>10, InTxnKeepsIInv

(* The event in hand, and what the iteration knows of it.                  *)
LEMMA CurInHand ==
    ASSUME IInv, NEW w \in Worker, pc[w] = "process"
    PROVE  /\ cur[w] \in Key /\ cur[w] # NoKey
           /\ cur[w] \in locked[w] /\ cur[w] \in Touched(w)
           /\ outbox[cur[w]].status = "pending"
           /\ InHand(w, cur[w])
<1> USE DEF IInv
<1>1. LoopInvOf(w) /\ TxnRowsInvOf(w)
  BY DEF LoopInv, TxnRowsInv
<1>2. cur[w] # NoKey /\ cur[w] \in locked[w] \ todo[w] /\ ~Declines(w, cur[w])
  BY <1>1 DEF LoopInvOf
<1>3. QED
  BY <1>1, <1>2 DEF LoopInvOf, TxnRowsInvOf, Touched, TypeOK

(* Work on the event in hand does not undo what was done for another one.  *)
LEMMA DoneStaysDone ==
    ASSUME TypeOK, TypeOK', NEW w \in Worker, NEW k \in Key, NEW t,
           runs' = runs, transcripts' = transcripts,
           \A wk \in Workflow \X Key :
              txnRuns[w][wk] # "none" => txnRuns'[w][wk] # "none",
           txnTranscripts[w] \subseteq txnTranscripts'[w],
           \A dk \in Destination \X Key : sends'[dk] >= sends[dk],
           DoneInTxn(w, t, k)
    PROVE  DoneInTxn(w, t, k)'
<1>1. CASE t \in Workflow /\ HasRun(w, t, k)
  BY <1>1 DEF DoneInTxn, HasRun
<1>2. CASE t \in Destination /\ sends[<<t, k>>] > 0
  <2>1. <<t, k>> \in Destination \X Key
    BY <1>2
  <2>2. sends[<<t, k>>] \in Nat /\ sends'[<<t, k>>] \in Nat
    BY <2>1 DEF TypeOK
  <2>3. sends'[<<t, k>>] > 0
    BY <1>2, <2>1, <2>2
  <2>4. QED
    BY <1>2, <2>3 DEF DoneInTxn
<1>3. CASE t = Transcription /\ HasTranscript(w, k)
  BY <1>3 DEF DoneInTxn, HasTranscript
<1>4. QED
  BY <1>1, <1>2, <1>3 DEF DoneInTxn

(* The rows a worker is done with are not affected by what it does for     *)
(* another.                                                                *)
LEMMA OtherRow ==
    ASSUME IInv, TypeOK', NEW w \in Worker, NEW j \in locked[w], j # cur[w],
           outbox' = outbox, runs' = runs, transcripts' = transcripts,
           txnOutbox'[w][j] = txnOutbox[w][j],
           \A wk \in Workflow \X Key :
              txnRuns[w][wk] # "none" => txnRuns'[w][wk] # "none",
           txnTranscripts[w] \subseteq txnTranscripts'[w],
           \A dk \in Destination \X Key : sends'[dk] >= sends[dk]
    PROVE  /\ j \notin Touched(w) => txnOutbox'[w][j] = outbox'[j]
           /\ j \in Touched(w) => Settled(w, j)'
<1> USE DEF IInv
<1>1. TxnRowsInvOf(w) /\ j \in Key
  BY DEF TxnRowsInv, TypeOK
<1>2. j \notin Touched(w) => txnOutbox'[w][j] = outbox'[j]
  BY <1>1 DEF TxnRowsInvOf
<1>3. ASSUME j \in Touched(w) PROVE Settled(w, j)'
  <2>1. Settled(w, j)
    BY <1>1, <1>3 DEF TxnRowsInvOf
  <2>2. \A t : DoneInTxn(w, t, j) => DoneInTxn(w, t, j)'
    BY <1>1, DoneStaysDone
  <2>3. QED
    BY <2>1, <2>2 DEF Settled, FailedRow
<1>4. QED
  BY <1>2, <1>3

(* A duty of the event in hand is done: it leaves the list of those due,   *)
(* and the iteration remembers it.                                         *)
LEMMA DutyDone ==
    ASSUME IInv, TypeOK', NEW w \in Worker, NEW t \in left[w],
           pc[w] = "process", InTxn(w),
           pc' = pc, todo' = todo, cur' = cur, txnOutbox' = txnOutbox,
           left' = [left EXCEPT ![w] = @ \ {t}],
           \A wk \in Workflow \X Key :
              txnRuns[w][wk] # "none" => txnRuns'[w][wk] # "none",
           txnTranscripts[w] \subseteq txnTranscripts'[w],
           DoneInTxn(w, t, cur[w])'
    PROVE  LoopInvOf(w)' /\ TxnRowsInvOf(w)' /\ Touched(w)' = Touched(w)
<1> USE DEF IInv
<1>1. /\ outbox' = outbox /\ runs' = runs /\ transcripts' = transcripts
      /\ locked' = locked
      /\ \A dk \in Destination \X Key : sends'[dk] >= sends[dk]
  BY DEF InTxn, tableVars
<1>2. LoopInvOf(w)'
  BY <1>1 DEF LoopInvOf, LoopInv
<1>3. Touched(w)' = Touched(w)
  BY <1>1 DEF Touched
<1>4. left'[w] = left[w] \ {t}
  BY DEF TypeOK
<1>5. InHand(w, cur[w])'
  <2>1. InHand(w, cur[w]) /\ cur[w] \in Key
    BY CurInHand
  <2>2. \A u : DoneInTxn(w, u, cur[w]) => DoneInTxn(w, u, cur[w])'
    BY <1>1, <2>1, DoneStaysDone
  <2>3. QED
    BY <1>1, <1>4, <2>1, <2>2 DEF InHand
<1>6. TxnRowsInvOf(w)'
  BY <1>1, <1>3, <1>5, CurInHand, OtherRow DEF TxnRowsInvOf
<1>7. QED
  BY <1>2, <1>3, <1>6

(* Starting a run, or finding it.                                          *)
LEMMA StartRunKeepsIInv ==
    ASSUME IInv, TypeOK', NEW w \in Worker, NEW wf \in Workflow, StartRun(w, wf)
    PROVE  IInv'
<1> USE DEF IInv
<1> DEFINE k == cur[w]
<1>1. pc[w] = "process" /\ wf \in left[w] /\ k \in Key /\ k \in Touched(w)
  BY CurInHand DEF StartRun, Due
<1>2. /\ InTxn(w) /\ sends' = sends /\ runs' = runs /\ locked' = locked
      /\ txnTranscripts' = txnTranscripts /\ cur' = cur
      /\ left'[w] = left[w] \ {wf}
  BY DEF StartRun, InTxn, tableVars, TypeOK
<1>3. CASE HasRun(w, wf, k)
  <2>1. txnRuns' = txnRuns
    BY <1>3 DEF StartRun
  <2>2. DoneInTxn(w, wf, k)'
    BY <1>2, <1>3, <2>1 DEF DoneInTxn, HasRun
  <2>3. LoopInvOf(w)' /\ TxnRowsInvOf(w)' /\ Touched(w)' = Touched(w)
    BY <1>1, <1>2, <2>1, <2>2, DutyDone DEF StartRun
  <2>4. TxnRecordsInvOf(w)'
    BY <1>2, <2>1, <2>3 DEF TxnRecordsInvOf, TxnRecordsInv
  <2>5. DeliveryInv'
    BY <1>2, <2>3, InTxnNoDelivery DEF MayHaveSent
  <2>6. QED
    BY <1>2, <2>3, <2>4, <2>5, InTxnKeepsIInv
<1>4. CASE ~HasRun(w, wf, k)
  <2>1. /\ txnRuns'[w][<<wf, k>>] = "ok"
        /\ \A wk \in Workflow \X Key : wk # <<wf, k>> => txnRuns'[w][wk] = txnRuns[w][wk]
        /\ runs[<<wf, k>>] = "none"
    <3>1. <<wf, k>> \in Workflow \X Key
      BY <1>1
    <3>2. txnRuns' = [txnRuns EXCEPT ![w][<<wf, k>>] = "ok"]
      BY <1>4 DEF StartRun
    <3>3. txnRuns \in [Worker -> [Workflow \X Key -> RunStatus]]
      BY DEF TypeOK
    <3>4. runs[<<wf, k>>] = "none"
      BY <1>4 DEF HasRun
    <3>5. QED
      BY <3>1, <3>2, <3>3, <3>4, NestedEntry
  <2>2. DoneInTxn(w, wf, k)'
    BY <1>2, <2>1 DEF DoneInTxn, HasRun
  <2>3. \A wk \in Workflow \X Key : txnRuns[w][wk] # "none" => txnRuns'[w][wk] # "none"
    BY <2>1
  <2>4. LoopInvOf(w)' /\ TxnRowsInvOf(w)' /\ Touched(w)' = Touched(w)
    BY <1>1, <1>2, <2>2, <2>3, DutyDone DEF StartRun
  <2>5. TxnRecordsInvOf(w)'
    <3>1. TxnRecordsInvOf(w)
      BY DEF TxnRecordsInv
    <3>2. ASSUME NEW u \in Workflow, NEW j \in Key, txnRuns'[w][<<u, j>>] # "none"
          PROVE  j \in Touched(w)' /\ runs'[<<u, j>>] = "none"
      <4>1. CASE u = wf /\ j = k
        BY <1>1, <1>2, <2>1, <2>4, <4>1
      <4>2. CASE <<u, j>> # <<wf, k>>
        BY <1>2, <2>1, <2>4, <3>1, <3>2, <4>2 DEF TxnRecordsInvOf
      <4>3. QED
        BY <4>1, <4>2
    <3>3. QED
      BY <1>2, <2>4, <3>1, <3>2 DEF TxnRecordsInvOf
  <2>6. DeliveryInv'
    BY <1>2, <2>4, InTxnNoDelivery DEF MayHaveSent
  <2>7. QED
    BY <1>2, <2>4, <2>5, <2>6, InTxnKeepsIInv
<1>5. QED
  BY <1>3, <1>4

(* Transcribing, or finding the transcript.                                *)
LEMMA TranscribeKeepsIInv ==
    ASSUME IInv, TypeOK', NEW w \in Worker, TranscribeCall(w)
    PROVE  IInv'
<1> USE DEF IInv
<1> DEFINE k == cur[w]
<1>1. pc[w] = "process" /\ left[w] = {Transcription} /\ k \in Key /\ k \in Touched(w)
  BY CurInHand DEF TranscribeCall, Due
<1>2. /\ InTxn(w) /\ sends' = sends /\ runs' = runs /\ locked' = locked
      /\ transcripts' = transcripts /\ txnRuns' = txnRuns /\ cur' = cur
      /\ left'[w] = {}
      /\ left' = [left EXCEPT ![w] = @ \ {Transcription}]
  <2>1. /\ runs' = runs /\ locked' = locked /\ transcripts' = transcripts
        /\ txnRuns' = txnRuns /\ cur' = cur /\ sends' = sends
    BY DEF TranscribeCall, tableVars
  <2>2. left'[w] = {} /\ left' = [left EXCEPT ![w] = @ \ {Transcription}]
    BY <1>1 DEF TranscribeCall, TypeOK
  <2>3. \A dk \in Destination \X Key : sends'[dk] >= sends[dk]
    BY <2>1 DEF TypeOK
  <2>4. \A v \in Worker \ {w} : left'[v] = left[v] /\ txnTranscripts'[v] = txnTranscripts[v]
    BY DEF TranscribeCall, TypeOK
  <2>5. InTxn(w)
    BY <2>3, <2>4 DEF TranscribeCall, InTxn
  <2>6. QED
    BY <2>1, <2>2, <2>5
<1>3. /\ txnTranscripts[w] \subseteq txnTranscripts'[w]
      /\ txnTranscripts'[w] \subseteq txnTranscripts[w] \cup {k}
      /\ HasTranscript(w, k)'
  BY <1>1 DEF TranscribeCall, TypeOK, HasTranscript, tableVars
<1>4. DoneInTxn(w, Transcription, k)'
  BY <1>2, <1>3 DEF DoneInTxn, HasTranscript
<1>5. LoopInvOf(w)' /\ TxnRowsInvOf(w)' /\ Touched(w)' = Touched(w)
  BY <1>1, <1>2, <1>3, <1>4, DutyDone DEF TranscribeCall
<1>6. TxnRecordsInvOf(w)'
  BY <1>1, <1>2, <1>3, <1>5 DEF TxnRecordsInvOf, TxnRecordsInv
<1>7. DeliveryInv'
  BY <1>2, <1>5, InTxnNoDelivery DEF MayHaveSent
<1>8. QED
  BY <1>2, <1>5, <1>6, <1>7, InTxnKeepsIInv

(* One call to destination d for the event in hand, the first this         *)
(* iteration makes, fits the account.                                      *)
LEMMA OneDelivery ==
    ASSUME IInv, TypeOK', NEW w \in Worker, NEW d \in Destination,
           NEW k \in Key, k = cur[w],
           pc[w] = "process", d \in left[w], InTxn(w),
           sends' = [sends EXCEPT ![<<d, k>>] = @ + 1],
           \A e \in Destination, j \in Key :
              MayHaveSent(w, e, j) => MayHaveSent(w, e, j)',
           MayHaveSent(w, d, k)'
    PROVE  DeliveryInv'
<1> USE DEF IInv
<1>1. k \in locked[w] /\ outbox' = outbox /\ aborts' = aborts
  BY CurInHand DEF InTxn, tableVars
<1> SUFFICES ASSUME NEW e \in Destination, NEW j \in Key
             PROVE  sends'[<<e, j>>] <= outbox'[j].attempts + aborts'
                        + (IF \/ outbox'[j].status = "processed"
                              \/ \E v \in Worker : MayHaveSent(v, e, j)'
                           THEN 1 ELSE 0)
  BY DEF DeliveryInv
<1>2. CASE e = d /\ j = k
  <2>1. sends[<<d, k>>] <= outbox[k].attempts + aborts
    BY <1>1, UnsentIsTight DEF MayHaveSent
  <2>2. /\ sends[<<d, k>>] \in Nat /\ outbox[k].attempts \in Nat /\ aborts \in Nat
        /\ sends'[<<d, k>>] = sends[<<d, k>>] + 1
    BY <1>1 DEF TypeOK, Rows
  <2>3. sends'[<<d, k>>] <= outbox'[k].attempts + aborts' + 1
    BY <1>1, <2>1, <2>2
  <2>4. MayHaveSent(w, e, j)'
    BY <1>2
  <2>5. QED
    BY <1>2, <2>3, <2>4
<1>3. CASE <<e, j>> # <<d, k>>
  <2>1. sends'[<<e, j>>] = sends[<<e, j>>]
    BY <1>1, <1>3 DEF TypeOK
  <2>2. ASSUME NEW v \in Worker, MayHaveSent(v, e, j) PROVE MayHaveSent(v, e, j)'
    <3>1. CASE v = w
      BY <2>2, <3>1
    <3>2. CASE v # w
      BY <2>2, <3>2 DEF InTxn, MayHaveSent, Touched
    <3>3. QED
      BY <3>1, <3>2
  <2>3. QED
    BY <1>1, <2>1, <2>2, NoNewDelivery
<1>4. QED
  BY <1>2, <1>3

(* A counter of a function goes up by one.                                 *)
LEMMA CountUp ==
    ASSUME NEW A, NEW f \in [A -> Nat], NEW a \in A,
           NEW g, g = [f EXCEPT ![a] = @ + 1]
    PROVE  g[a] = f[a] + 1 /\ g[a] > 0 /\ \A x \in A : g[x] >= f[x]
<1>1. f[a] \in Nat /\ g[a] = f[a] + 1
  OBVIOUS
<1>2. \A x \in A : f[x] \in Nat /\ (x # a => g[x] = f[x])
  OBVIOUS
<1>3. QED
  BY <1>1, <1>2

(* A call to a lifecycle provider.                                         *)
LEMMA TrackKeepsIInv ==
    ASSUME IInv, TypeOK', NEW w \in Worker, NEW d \in Destination, Track(w, d)
    PROVE  IInv'
<1> USE DEF IInv
<1> PICK k \in Key : k = cur[w]
  BY CurInHand DEF Track, Due
<1>1. pc[w] = "process" /\ d \in left[w] /\ k \in Touched(w)
  BY CurInHand DEF Track, Due
<1>2. <<d, k>> \in Destination \X Key
  OBVIOUS
<1>3. sends'[<<d, k>>] > 0 /\ \A dk \in Destination \X Key : sends'[dk] >= sends[dk]
  <2>1. sends \in [Destination \X Key -> Nat]
    BY DEF TypeOK
  <2>2. sends' = [sends EXCEPT ![<<d, k>>] = @ + 1]
    BY DEF Track
  <2>3. QED
    BY <1>2, <2>1, <2>2, CountUp
<1>4. /\ InTxn(w) /\ runs' = runs /\ locked' = locked /\ transcripts' = transcripts
      /\ txnRuns' = txnRuns /\ txnTranscripts' = txnTranscripts
      /\ cur' = cur /\ left'[w] = left[w] \ {d}
  BY <1>3 DEF Track, InTxn, tableVars, txnVars, TypeOK
<1>5. DoneInTxn(w, d, k)'
  BY <1>3, <1>4 DEF DoneInTxn
<1>6. LoopInvOf(w)' /\ TxnRowsInvOf(w)' /\ Touched(w)' = Touched(w)
  BY <1>1, <1>4, <1>5, DutyDone DEF Track, txnVars
<1>7. TxnRecordsInvOf(w)'
  BY <1>4, <1>6 DEF TxnRecordsInvOf, TxnRecordsInv
<1>8. MayHaveSent(w, d, k)'
  BY <1>1, <1>4, <1>6 DEF MayHaveSent
<1>9. \A e \in Destination, j \in Key : MayHaveSent(w, e, j) => MayHaveSent(w, e, j)'
  BY <1>4, <1>6 DEF MayHaveSent
<1>10. DeliveryInv'
  BY <1>1, <1>4, <1>8, <1>9, OneDelivery DEF Track
<1>11. QED
  BY <1>4, <1>6, <1>7, <1>10, InTxnKeepsIInv

(* The event in hand is handed back with its row settled.                  *)
LEMMA ReturnSettles ==
    ASSUME IInv, TypeOK', NEW w \in Worker, NEW k \in Key, NEW row,
           k = cur[w], pc[w] = "process", InTxn(w), Return(w, row), todo' = todo,
           \A wk \in Workflow \X Key :
              txnRuns[w][wk] # "none" => txnRuns'[w][wk] # "none",
           txnTranscripts' = txnTranscripts,
           txnOutbox'[w][k] = row => Settled(w, k)'
    PROVE  /\ LoopInvOf(w)' /\ TxnRowsInvOf(w)' /\ Touched(w)' = Touched(w)
           /\ \A d \in Destination, j \in Key :
                 MayHaveSent(w, d, j) => MayHaveSent(w, d, j)'
<1> USE DEF IInv
<1>1. /\ pc'[w] = "dispatch" /\ cur'[w] = NoKey /\ left'[w] = {}
      /\ outbox' = outbox /\ runs' = runs /\ transcripts' = transcripts
      /\ locked' = locked
      /\ \A dk \in Destination \X Key : sends'[dk] >= sends[dk]
  BY DEF Return, InTxn, tableVars, TypeOK
<1>2. txnOutbox' = [txnOutbox EXCEPT ![w][k] = row]
  BY DEF Return
<1>3. txnOutbox'[w][k] = row /\ \A j \in Key : j # k => txnOutbox'[w][j] = txnOutbox[w][j]
  <2>1. txnOutbox \in [Worker -> [Key -> Rows(RowStatus)]]
    BY DEF TypeOK
  <2>2. QED
    BY <1>2, <2>1, NestedEntry
<1>4. LoopInvOf(w)'
  BY <1>1 DEF LoopInvOf, LoopInv
<1>5. Touched(w)' = Touched(w)
  BY <1>1 DEF Touched
<1>6. TxnRowsInvOf(w)'
  <2> SUFFICES ASSUME NEW j \in locked[w]
               PROVE  /\ j \notin Touched(w)' => txnOutbox'[w][j] = outbox'[j]
                      /\ j = cur'[w] => InHand(w, j)'
                      /\ j \in Touched(w)' /\ j # cur'[w] => Settled(w, j)'
    BY <1>1 DEF TxnRowsInvOf
  <2>1. j \in Key /\ j # cur'[w]
    BY <1>1, ConstantsAssumption DEF TypeOK
  <2>2. CASE j = k
    BY <1>3, <1>5, <2>1, <2>2, CurInHand
  <2>3. CASE j # k
    BY <1>1, <1>3, <1>5, <2>1, <2>3, OtherRow
  <2>4. QED
    BY <2>2, <2>3
<1>7. \A d \in Destination, j \in Key : MayHaveSent(w, d, j) => MayHaveSent(w, d, j)'
  BY <1>1, <1>5 DEF MayHaveSent
<1>8. QED
  BY <1>4, <1>5, <1>6, <1>7

(* All duties are done, the row becomes processed.                         *)
LEMMA FinishKeepsIInv ==
    ASSUME IInv, TypeOK', NEW w \in Worker, Finish(w)
    PROVE  IInv'
<1> USE DEF IInv
<1> PICK k \in Key : k = cur[w]
  BY CurInHand DEF Finish
<1>1. /\ pc[w] = "process" /\ left[w] = {} /\ InHand(w, k)
  BY CurInHand DEF Finish
<1>2. /\ InTxn(w) /\ sends' = sends /\ runs' = runs /\ locked' = locked
      /\ outbox' = outbox /\ transcripts' = transcripts /\ todo' = todo
      /\ txnRuns' = txnRuns /\ txnTranscripts' = txnTranscripts
  BY DEF Finish, Return, InTxn, tableVars, TypeOK
<1> DEFINE row == [txnOutbox[w][k] EXCEPT !.status = "processed"]
<1>3. Return(w, row)
  BY DEF Finish
<1>4. ASSUME txnOutbox'[w][k] = row PROVE Settled(w, k)'
  <2>1. row = [outbox[k] EXCEPT !.status = "processed"]
    BY <1>1 DEF InHand, TypeOK, Rows
  <2>2. \A t \in Duties(w, k) : DoneInTxn(w, t, k)
    BY <1>1 DEF InHand
  <2>3. \A t \in Duties(w, k) : DoneInTxn(w, t, k)'
    BY <1>2, <2>2 DEF DoneInTxn, HasRun, HasTranscript
  <2>4. QED
    BY <1>2, <1>4, <2>1, <2>3 DEF Settled
<1> HIDE DEF row
<1>5. /\ LoopInvOf(w)' /\ TxnRowsInvOf(w)' /\ Touched(w)' = Touched(w)
      /\ \A d \in Destination, j \in Key :
            MayHaveSent(w, d, j) => MayHaveSent(w, d, j)'
  BY <1>1, <1>2, <1>3, <1>4, ReturnSettles
<1>6. TxnRecordsInvOf(w)'
  BY <1>2, <1>5 DEF TxnRecordsInvOf, TxnRecordsInv
<1>7. DeliveryInv'
  BY <1>2, <1>5, InTxnNoDelivery
<1>8. QED
  BY <1>2, <1>5, <1>6, <1>7, InTxnKeepsIInv

(* A duty fails, and the row counts the attempt.                           *)
LEMMA TaskFailsKeepsIInv ==
    ASSUME IInv, TypeOK', NEW w \in Worker, NEW t \in Task, TaskFails(w, t)
    PROVE  IInv'
<1> USE DEF IInv
<1> PICK k \in Key : k = cur[w]
  BY CurInHand DEF TaskFails, Due
<1>1. /\ pc[w] = "process" /\ t \in left[w] /\ InHand(w, k) /\ k \in Touched(w)
  BY CurInHand DEF TaskFails, Due
<1>2. /\ runs' = runs /\ locked' = locked /\ outbox' = outbox
      /\ transcripts' = transcripts /\ todo' = todo
      /\ txnTranscripts' = txnTranscripts
  BY DEF TaskFails, tableVars
<1>3. \/ txnRuns' = txnRuns
      \/ /\ t \in Workflow /\ ~HasRun(w, t, k)
         /\ txnRuns' = [txnRuns EXCEPT ![w][<<t, k>>] = "failed"]
  BY DEF TaskFails
<1>4. \/ sends' = sends
      \/ t \in Destination /\ sends' = [sends EXCEPT ![<<t, k>>] = @ + 1]
  BY DEF TaskFails
<1>5. /\ \A v \in Worker \ {w} : txnRuns'[v] = txnRuns[v]
      /\ \A wk \in Workflow \X Key : txnRuns'[w][wk] # "none" =>
            \/ txnRuns'[w][wk] = txnRuns[w][wk]
            \/ t \in Workflow /\ ~HasRun(w, t, k) /\ wk = <<t, k>>
      /\ \A wk \in Workflow \X Key : txnRuns[w][wk] # "none" => txnRuns'[w][wk] # "none"
  <2>1. CASE txnRuns' = txnRuns
    BY <2>1
  <2>2. CASE /\ t \in Workflow /\ ~HasRun(w, t, k)
             /\ txnRuns' = [txnRuns EXCEPT ![w][<<t, k>>] = "failed"]
    <3>1. <<t, k>> \in Workflow \X Key /\ txnRuns[w][<<t, k>>] = "none"
      BY <2>2 DEF HasRun
    <3>2. txnRuns \in [Worker -> [Workflow \X Key -> RunStatus]]
      BY DEF TypeOK
    <3>3. /\ txnRuns'[w][<<t, k>>] = "failed"
          /\ \A wk \in Workflow \X Key : wk # <<t, k>> => txnRuns'[w][wk] = txnRuns[w][wk]
          /\ \A v \in Worker : v # w => txnRuns'[v] = txnRuns[v]
      BY <2>2, <3>1, <3>2, NestedEntry
    <3>4. QED
      BY <2>2, <3>1, <3>3
  <2>3. QED
    BY <1>3, <2>1, <2>2
<1>6. \A dk \in Destination \X Key : sends'[dk] >= sends[dk]
  <2>1. sends \in [Destination \X Key -> Nat]
    BY DEF TypeOK
  <2>2. CASE sends' = sends
    BY <2>1, <2>2
  <2>3. CASE t \in Destination /\ sends' = [sends EXCEPT ![<<t, k>>] = @ + 1]
    <3>1. <<t, k>> \in Destination \X Key
      BY <2>3
    <3>2. QED
      BY <2>1, <2>3, <3>1, CountUp
  <2>4. QED
    BY <1>4, <2>2, <2>3
<1> DEFINE row == FailedRow(txnOutbox[w][k])
<1>7. Return(w, row)
  BY DEF TaskFails
<1>8. InTxn(w)
  BY <1>5, <1>6 DEF TaskFails, Return, InTxn, TypeOK
<1>9. ASSUME txnOutbox'[w][k] = row PROVE Settled(w, k)'
  <2>1. row = FailedRow(outbox[k])
    BY <1>1 DEF InHand, FailedRow, TypeOK, Rows
  <2>2. QED
    BY <1>2, <1>9, <2>1 DEF Settled, FailedRow
<1> HIDE DEF row
<1>10. /\ LoopInvOf(w)' /\ TxnRowsInvOf(w)' /\ Touched(w)' = Touched(w)
       /\ \A d \in Destination, j \in Key :
             MayHaveSent(w, d, j) => MayHaveSent(w, d, j)'
  BY <1>1, <1>2, <1>5, <1>7, <1>8, <1>9, ReturnSettles
<1>11. TxnRecordsInvOf(w)'
  <2>1. TxnRecordsInvOf(w)
    BY DEF TxnRecordsInv
  <2>2. ASSUME NEW u \in Workflow, NEW j \in Key, txnRuns'[w][<<u, j>>] # "none"
        PROVE  j \in Touched(w)' /\ runs'[<<u, j>>] = "none"
    <3>1. CASE txnRuns'[w][<<u, j>>] = txnRuns[w][<<u, j>>]
      BY <1>2, <1>10, <2>1, <2>2, <3>1 DEF TxnRecordsInvOf
    <3>2. CASE ~HasRun(w, t, k) /\ <<u, j>> = <<t, k>>
      BY <1>1, <1>2, <1>10, <3>2 DEF HasRun
    <3>3. QED
      BY <1>5, <2>2, <3>1, <3>2
  <2>3. QED
    BY <1>2, <1>10, <2>1, <2>2 DEF TxnRecordsInvOf
<1>12. DeliveryInv'
  <2>1. CASE sends' = sends
    BY <1>8, <1>10, <2>1, InTxnNoDelivery
  <2>2. CASE t \in Destination /\ sends' = [sends EXCEPT ![<<t, k>>] = @ + 1]
    <3>1. MayHaveSent(w, t, k)'
      BY <1>1, <1>7, <1>10, ConstantsAssumption DEF MayHaveSent, Return, TypeOK
    <3>2. QED
      BY <1>1, <1>8, <1>10, <2>2, <3>1, OneDelivery
  <2>3. QED
    BY <1>4, <2>1, <2>2
<1>13. QED
  BY <1>8, <1>10, <1>11, <1>12, InTxnKeepsIInv

(* A claim locks only rows that nobody holds, and takes its view of them.  *)
LEMMA ClaimKeepsIInv ==
    ASSUME IInv, TypeOK', NEW w \in Worker, Claim(w)
    PROVE  IInv'
<1> USE DEF IInv
<1>1. PICK batch \in SUBSET Claimable :
         /\ locked' = [locked EXCEPT ![w] = batch]
         /\ todo' = [todo EXCEPT ![w] = batch]
  BY DEF Claim
<1>2. /\ locked'[w] = batch /\ todo'[w] = batch
      /\ \A v \in Worker \ {w} : locked'[v] = locked[v] /\ todo'[v] = todo[v]
  BY <1>1 DEF TypeOK
<1>3. /\ pc[w] = "idle" /\ Dispatches(w)
      /\ pc'[w] = "dispatch" /\ txnOutbox'[w] = outbox
      /\ \A v \in Worker \ {w} : pc'[v] = pc[v] /\ txnOutbox'[v] = txnOutbox[v]
      /\ cur' = cur /\ left' = left /\ txnRuns' = txnRuns
      /\ txnTranscripts' = txnTranscripts /\ aborts' = aborts
      /\ outbox' = outbox /\ runs' = runs /\ transcripts' = transcripts
      /\ sends' = sends /\ UNCHANGED requestVars
  BY DEF Claim, tableVars, TypeOK
<1>4. \A dk \in Destination \X Key : sends'[dk] >= sends[dk]
  BY <1>3 DEF TypeOK
<1>5. RequestInv' /\ AttemptsInv' /\ ProcessedIsHandled'
  BY <1>3, <1>4, SameRows
<1>6. /\ \A k \in batch : outbox[k].status = "pending"
      /\ \A v \in Worker : batch \cap locked[v] = {}
  BY DEF Claimable
<1>7. LocksDisjoint'
  BY <1>2, <1>6 DEF LocksDisjoint
<1>8. cur[w] = NoKey /\ locked[w] = {} /\ txnTranscripts[w] = {}
      /\ \A wf \in Workflow, k \in Key : txnRuns[w][<<wf, k>>] = "none"
  BY <1>3 DEF LoopInv, LoopInvOf, TxnRecordsInv, TxnRecordsInvOf, Touched, TypeOK
<1>9. LoopInvOf(w)'
  BY <1>2, <1>3, <1>6, <1>8 DEF LoopInvOf, Dispatches
<1>10. Touched(w)' = {} /\ Touched(w) = {}
  BY <1>2, <1>8 DEF Touched
<1>11. TxnRowsInvOf(w)'
  BY <1>2, <1>3, <1>8, <1>10, ConstantsAssumption DEF TxnRowsInvOf, TypeOK
<1>12. TxnRecordsInvOf(w)'
  BY <1>3, <1>8 DEF TxnRecordsInvOf
<1>13. LoopInv' /\ TxnRowsInv' /\ TxnRecordsInv'
  <2> SUFFICES ASSUME NEW v \in Worker
               PROVE  LoopInvOf(v)' /\ TxnRowsInvOf(v)' /\ TxnRecordsInvOf(v)'
    BY DEF LoopInv, TxnRowsInv, TxnRecordsInv
  <2>1. CASE v # w
    <3>1. LoopInvOf(v) /\ TxnRowsInvOf(v) /\ TxnRecordsInvOf(v)
      BY DEF LoopInv, TxnRowsInv, TxnRecordsInv
    <3>2. QED
      BY <1>2, <1>3, <1>4, <2>1, <3>1, OtherIteration
  <2>2. QED
    BY <1>9, <1>11, <1>12, <2>1
<1>14. DeliveryInv'
  <2> SUFFICES ASSUME NEW d \in Destination, NEW k \in Key
               PROVE  sends'[<<d, k>>] <= outbox'[k].attempts + aborts'
                          + (IF \/ outbox'[k].status = "processed"
                                \/ \E v \in Worker : MayHaveSent(v, d, k)'
                             THEN 1 ELSE 0)
    BY DEF DeliveryInv
  <2>1. ASSUME NEW v \in Worker, MayHaveSent(v, d, k) PROVE MayHaveSent(v, d, k)'
    <3>1. v # w
      BY <1>10, <2>1 DEF MayHaveSent
    <3>2. QED
      BY <1>2, <1>3, <2>1, <3>1 DEF MayHaveSent, Touched
  <2>2. QED
    BY <1>3, <2>1, NoNewDelivery
<1>15. QED
  BY <1>5, <1>7, <1>13, <1>14

(* The end of an iteration, whether committed or rolled back, leaves       *)
(* nothing of it, and does not concern the others.                         *)
LEMMA ClosedIteration ==
    ASSUME IInv, TypeOK', NEW w \in Worker, CloseTxn(w)
    PROVE  /\ LoopInvOf(w)' /\ TxnRowsInvOf(w)' /\ TxnRecordsInvOf(w)'
           /\ LocksDisjoint' /\ Touched(w)' = {}
           /\ \A v \in Worker \ {w} :
                 /\ pc'[v] = pc[v] /\ locked'[v] = locked[v] /\ todo'[v] = todo[v]
                 /\ cur'[v] = cur[v] /\ left'[v] = left[v]
                 /\ txnOutbox'[v] = txnOutbox[v] /\ txnRuns'[v] = txnRuns[v]
                 /\ txnTranscripts'[v] = txnTranscripts[v]
                 /\ Touched(v)' = Touched(v)
                 /\ \A d \in Destination, k \in Key :
                       MayHaveSent(v, d, k) => MayHaveSent(v, d, k)'
<1> USE DEF IInv
<1>1. /\ pc'[w] = "idle" /\ locked'[w] = {} /\ todo'[w] = {}
      /\ cur'[w] = NoKey /\ left'[w] = {}
      /\ txnRuns'[w] = NoRuns /\ txnTranscripts'[w] = {}
  BY DEF CloseTxn, TypeOK
<1>2. ASSUME NEW v \in Worker, v # w
      PROVE  /\ pc'[v] = pc[v] /\ locked'[v] = locked[v] /\ todo'[v] = todo[v]
             /\ cur'[v] = cur[v] /\ left'[v] = left[v]
             /\ txnOutbox'[v] = txnOutbox[v] /\ txnRuns'[v] = txnRuns[v]
             /\ txnTranscripts'[v] = txnTranscripts[v]
  BY <1>2 DEF CloseTxn, TypeOK
<1>3. ASSUME NEW v \in Worker, v # w
      PROVE  /\ Touched(v)' = Touched(v)
             /\ \A d \in Destination, k \in Key :
                   MayHaveSent(v, d, k) => MayHaveSent(v, d, k)'
  BY <1>2, <1>3 DEF Touched, MayHaveSent
<1>4. LoopInvOf(w)'
  BY <1>1 DEF LoopInvOf
<1>5. TxnRowsInvOf(w)' /\ Touched(w)' = {}
  BY <1>1 DEF TxnRowsInvOf, Touched
<1>6. TxnRecordsInvOf(w)'
  BY <1>1 DEF TxnRecordsInvOf, NoRuns
<1>7. LocksDisjoint'
  BY <1>1, <1>2 DEF LocksDisjoint
<1>8. QED
  BY <1>2, <1>3, <1>4, <1>5, <1>6, <1>7

(* An iteration is undone.                                                 *)
LEMMA AbortKeepsIInv ==
    ASSUME IInv, TypeOK', NEW w \in Worker, Abort(w)
    PROVE  IInv'
<1> USE DEF IInv
<1>1. /\ CloseTxn(w) /\ outbox' = outbox /\ runs' = runs
      /\ transcripts' = transcripts /\ sends' = sends
      /\ UNCHANGED requestVars /\ aborts' = aborts + 1
  BY DEF Abort, tableVars
<1>2. \A dk \in Destination \X Key : sends'[dk] >= sends[dk]
  BY <1>1 DEF TypeOK
<1>3. RequestInv' /\ AttemptsInv' /\ ProcessedIsHandled'
  BY <1>1, <1>2, SameRows
<1>4. LoopInv' /\ TxnRowsInv' /\ TxnRecordsInv'
  <2> SUFFICES ASSUME NEW v \in Worker
               PROVE  LoopInvOf(v)' /\ TxnRowsInvOf(v)' /\ TxnRecordsInvOf(v)'
    BY DEF LoopInv, TxnRowsInv, TxnRecordsInv
  <2>1. CASE v # w
    <3>1. LoopInvOf(v) /\ TxnRowsInvOf(v) /\ TxnRecordsInvOf(v)
      BY DEF LoopInv, TxnRowsInv, TxnRecordsInv
    <3>2. QED
      BY <1>1, <1>2, <2>1, <3>1, ClosedIteration, OtherIteration
  <2>2. QED
    BY <1>1, <2>1, ClosedIteration
<1>5. DeliveryInv'
  <2> SUFFICES ASSUME NEW d \in Destination, NEW k \in Key
               PROVE  sends'[<<d, k>>] <= outbox'[k].attempts + aborts'
                          + (IF \/ outbox'[k].status = "processed"
                                \/ \E v \in Worker : MayHaveSent(v, d, k)'
                             THEN 1 ELSE 0)
    BY DEF DeliveryInv
  <2>1. sends[<<d, k>>] \in Nat /\ outbox[k].attempts \in Nat /\ aborts \in Nat
    BY DEF TypeOK, Rows
  <2>2. sends[<<d, k>>] <= outbox[k].attempts + aborts + 1
    BY <2>1 DEF DeliveryInv
  <2>3. QED
    BY <1>1, <2>1, <2>2
<1>6. QED
  BY <1>1, <1>3, <1>4, <1>5, ClosedIteration

(* What a commit does to each row: it settles those its iteration dealt    *)
(* with and leaves the others as they are.                                 *)
LEMMA CommitSettles ==
    ASSUME IInv, NEW w \in Worker, Commit(w), NEW k \in Key
    PROVE  \/ k \notin Touched(w) /\ outbox'[k] = outbox[k]
           \/ /\ k \in Touched(w) /\ outbox[k].status = "pending"
              /\ outbox'[k].status = "processed"
              /\ outbox'[k].attempts = outbox[k].attempts
              /\ outbox'[k].at = outbox[k].at
              /\ \A t \in Duties(w, k) : DoneInTxn(w, t, k)
           \/ /\ k \in Touched(w) /\ outbox[k].status = "pending"
              /\ outbox'[k].status =
                    IF outbox[k].attempts >= RetryLimit THEN "dead" ELSE "pending"
              /\ outbox'[k].attempts = outbox[k].attempts + 1
              /\ outbox'[k].at = outbox[k].at
<1> USE DEF IInv
<1>1. LoopInvOf(w) /\ TxnRowsInvOf(w) /\ pc[w] = "dispatch"
  BY DEF LoopInv, TxnRowsInv, Commit
<1>2. outbox'[k] = IF k \in locked[w] THEN txnOutbox[w][k] ELSE outbox[k]
  BY DEF Commit
<1>3. outbox[k] \in Rows(CommittedStatus)
  BY DEF TypeOK
<1>4. CASE k \notin Touched(w)
  BY <1>1, <1>2, <1>4 DEF TxnRowsInvOf
<1>5. CASE k \in Touched(w)
  <2>1. k \in locked[w] /\ k # cur[w] /\ outbox[k].status = "pending"
    BY <1>1, <1>5, ConstantsAssumption DEF Touched, LoopInvOf
  <2>2. Settled(w, k) /\ outbox'[k] = txnOutbox[w][k]
    BY <1>1, <1>2, <1>5, <2>1 DEF TxnRowsInvOf
  <2>3. QED
    BY <1>3, <1>5, <2>1, <2>2 DEF Settled, FailedRow, Rows
<1>6. QED
  BY <1>4, <1>5

(* An iteration commits: what held of its rows now holds of the tables.    *)
LEMMA CommitKeepsIInv ==
    ASSUME IInv, TypeOK', NEW w \in Worker, Commit(w)
    PROVE  IInv'
<1> USE DEF IInv
<1>1. /\ CloseTxn(w) /\ sends' = sends /\ aborts' = aborts
      /\ UNCHANGED requestVars
      /\ transcripts' = transcripts \cup txnTranscripts[w]
      /\ \A wk \in Workflow \X Key : runs'[wk] =
            IF txnRuns[w][wk] # "none" THEN txnRuns[w][wk] ELSE runs[wk]
  BY DEF Commit
<1>2. /\ \A dk \in Destination \X Key : sends'[dk] >= sends[dk]
      /\ \A wk \in Workflow \X Key : runs[wk] # "none" => runs'[wk] # "none"
      /\ transcripts \subseteq transcripts'
  BY <1>1 DEF TypeOK
<1>3. RequestInv'
  <2>1. \A k \in Key : /\ outbox'[k].status = "absent" <=> outbox[k].status = "absent"
                       /\ outbox'[k].at = outbox[k].at
    BY CommitSettles
  <2>2. /\ audit' = audit /\ req' = req /\ stamp' = stamp /\ notified' = notified
    BY <1>1 DEF requestVars
  <2>3. AuditAndEventTogether'
    BY <2>1, <2>2, ConstantsAssumption
       DEF RequestInv, AuditAndEventTogether, Emits, Committed, Present, Own
  <2>4. NotifiedAreDurable'
    BY <2>1, <2>2 DEF RequestInv, NotifiedAreDurable, Present, TypeOK
  <2>5. QED
    BY <2>2, <2>3, <2>4 DEF RequestInv
<1>4. LoopInv' /\ TxnRowsInv' /\ TxnRecordsInv'
  <2> SUFFICES ASSUME NEW v \in Worker
               PROVE  LoopInvOf(v)' /\ TxnRowsInvOf(v)' /\ TxnRecordsInvOf(v)'
    BY DEF LoopInv, TxnRowsInv, TxnRecordsInv
  <2>1. CASE v # w
    <3>1. LoopInvOf(v) /\ TxnRowsInvOf(v) /\ TxnRecordsInvOf(v) /\ TxnRecordsInvOf(w)
      BY DEF LoopInv, TxnRowsInv, TxnRecordsInv
    <3>2. \A k \in locked[v] : k \in Key /\ k \notin locked[w] /\ k \notin Touched(w)
      BY <2>1 DEF LocksDisjoint, Touched, TypeOK
    <3>3. \A k \in locked[v] : outbox'[k] = outbox[k]
      BY <3>2, CommitSettles
    <3>4. \A wf \in Workflow : \A k \in locked[v] : runs'[<<wf, k>>] = runs[<<wf, k>>]
      BY <1>1, <3>1, <3>2 DEF TxnRecordsInvOf
    <3>5. QED
      BY <1>1, <1>2, <2>1, <3>1, <3>3, <3>4, ClosedIteration, OtherIteration
  <2>2. QED
    BY <1>1, <2>1, ClosedIteration
<1>5. AttemptsInv'
  <2> SUFFICES ASSUME NEW k \in Key
               PROVE  /\ outbox'[k].status = "dead" => outbox'[k].attempts = RetryLimit + 1
                      /\ outbox'[k].status # "dead" => outbox'[k].attempts <= RetryLimit
                      /\ outbox'[k].status = "absent" => outbox'[k].attempts = 0
    BY DEF AttemptsInv, DeadAfterRetries
  <2>1. outbox[k].attempts \in Nat /\ RetryLimit \in Nat
    BY ConstantsAssumption DEF TypeOK, Rows
  <2>2. /\ outbox[k].status = "dead" => outbox[k].attempts = RetryLimit + 1
        /\ outbox[k].status # "dead" => outbox[k].attempts <= RetryLimit
        /\ outbox[k].status = "absent" => outbox[k].attempts = 0
    BY DEF AttemptsInv, DeadAfterRetries
  <2>3. QED
    BY <2>1, <2>2, CommitSettles
<1>6. DeliveryInv'
  <2> SUFFICES ASSUME NEW d \in Destination, NEW k \in Key
               PROVE  sends'[<<d, k>>] <= outbox'[k].attempts + aborts'
                          + (IF \/ outbox'[k].status = "processed"
                                \/ \E v \in Worker : MayHaveSent(v, d, k)'
                             THEN 1 ELSE 0)
    BY DEF DeliveryInv
  <2>1. CASE k \notin Touched(w)
    <3>1. ASSUME NEW v \in Worker, MayHaveSent(v, d, k) PROVE MayHaveSent(v, d, k)'
      <4>1. v # w
        BY <2>1, <3>1 DEF MayHaveSent
      <4>2. QED
        BY <1>1, <3>1, <4>1, ClosedIteration
    <3>2. outbox'[k] = outbox[k]
      BY <2>1, CommitSettles
    <3>3. QED
      BY <1>1, <3>1, <3>2, NoNewDelivery
  <2>2. CASE k \in Touched(w)
    <3>1. sends[<<d, k>>] \in Nat /\ outbox[k].attempts \in Nat /\ aborts \in Nat
      BY DEF TypeOK, Rows
    <3>2. sends[<<d, k>>] <= outbox[k].attempts + aborts + 1
      BY <3>1 DEF DeliveryInv
    <3>3. \/ outbox'[k].status = "processed" /\ outbox'[k].attempts = outbox[k].attempts
          \/ outbox'[k].attempts = outbox[k].attempts + 1
      BY <2>2, CommitSettles
    <3>4. QED
      BY <1>1, <3>1, <3>2, <3>3
  <2>3. QED
    BY <2>1, <2>2
<1>7. ProcessedIsHandled'
  <2> SUFFICES ASSUME NEW k \in Key, outbox'[k].status = "processed"
               PROVE  \E v \in Handlers(k) : \A t \in Owed(v, k) : Done(t, k)'
    BY DEF ProcessedIsHandled
  <2>1. CASE k \notin Touched(w)
    <3>1. outbox[k].status = "processed"
      BY <2>1, CommitSettles
    <3>2. QED
      BY <1>2, <3>1, ProcessedStaysHandled
  <2>2. CASE k \in Touched(w)
    <3>1. \A t \in Duties(w, k) : DoneInTxn(w, t, k)
      BY <2>2, CommitSettles
    <3>2. w \in Handlers(k)
      BY <2>2 DEF Handlers, Touched, LoopInv, LoopInvOf, Commit
    <3>3. Owed(w, k) \subseteq Duties(w, k)
      BY <3>2 DEF Handlers, Declines, Owed, Duties
    <3>4. ASSUME NEW t, DoneInTxn(w, t, k) PROVE Done(t, k)'
      BY <1>1, <1>2, <3>4 DEF DoneInTxn, Done, HasRun, HasTranscript
    <3>5. QED
      BY <3>1, <3>2, <3>3, <3>4
  <2>3. QED
    BY <2>1, <2>2
<1>8. QED
  BY <1>1, <1>3, <1>4, <1>5, <1>6, <1>7, ClosedIteration

-----------------------------------------------------------------------------
(* The theorems *)

(* Every step keeps the invariant.                                         *)
LEMMA NextKeepsIInv == IInv /\ [Next]_vars => IInv'
<1> SUFFICES ASSUME IInv, [Next]_vars PROVE IInv'
  OBVIOUS
<1>1. ASSUME NEW r \in Request, RequestStep(r) PROVE IInv'
  BY <1>1, RequestKeepsIInv
<1>2. ASSUME NEW w \in Worker, WorkerStep(w) \/ Abort(w) PROVE IInv'
  <2>1. TypeOK'
    BY <1>2, WorkerTypeOK DEF IInv
  <2>2. CASE Claim(w)
    BY <2>1, <2>2, ClaimKeepsIInv
  <2>3. ASSUME NEW k \in Key, Skip(w, k) PROVE IInv'
    BY <2>1, <2>3, SkipKeepsIInv
  <2>4. ASSUME NEW k \in Key, Take(w, k) PROVE IInv'
    BY <2>1, <2>4, TakeKeepsIInv
  <2>5. ASSUME NEW wf \in Workflow, StartRun(w, wf) PROVE IInv'
    BY <2>1, <2>5, StartRunKeepsIInv
  <2>6. ASSUME NEW d \in Destination, Track(w, d) PROVE IInv'
    BY <2>1, <2>6, TrackKeepsIInv
  <2>7. CASE TranscribeCall(w)
    BY <2>1, <2>7, TranscribeKeepsIInv
  <2>8. CASE Finish(w)
    BY <2>1, <2>8, FinishKeepsIInv
  <2>9. ASSUME NEW t \in Task, TaskFails(w, t) PROVE IInv'
    BY <2>1, <2>9, TaskFailsKeepsIInv
  <2>10. CASE Commit(w)
    BY <2>1, <2>10, CommitKeepsIInv
  <2>11. CASE Abort(w)
    BY <2>1, <2>11, AbortKeepsIInv
  <2>12. QED
    BY <1>2, <2>2, <2>3, <2>4, <2>5, <2>6, <2>7, <2>8, <2>9, <2>10, <2>11
       DEF WorkerStep
<1>3. CASE UNCHANGED vars
  <2>1. /\ UNCHANGED <<req, stamp, clock, audit, notified, outbox, runs,
                       transcripts, sends, pc, locked, todo, cur, left,
                       txnOutbox, txnRuns, txnTranscripts, aborts>>
    BY <1>3 DEF vars, requestVars, tableVars, txnVars, loopVars, workerVars
  <2>2. TypeOK'
    BY <2>1 DEF IInv, TypeOK
  <2>3. \A dk \in Destination \X Key : sends'[dk] >= sends[dk]
    BY <2>1 DEF IInv, TypeOK
  <2>4. RequestInv' /\ AttemptsInv' /\ ProcessedIsHandled'
    BY <2>1, <2>2, <2>3, SameRows DEF IInv, requestVars
  <2>5. LocksDisjoint'
    BY <2>1 DEF IInv, LocksDisjoint
  <2>6. ASSUME NEW v \in Worker
        PROVE  LoopInvOf(v)' /\ TxnRowsInvOf(v)' /\ TxnRecordsInvOf(v)'
    <3>1. LoopInvOf(v) /\ TxnRowsInvOf(v) /\ TxnRecordsInvOf(v)
      BY DEF IInv, LoopInv, TxnRowsInv, TxnRecordsInv
    <3>2. QED
      BY <2>1, <2>2, <2>3, <3>1, OtherIteration DEF IInv
  <2>7. ASSUME NEW d \in Destination, NEW k \in Key, NEW v \in Worker,
               MayHaveSent(v, d, k)
        PROVE  MayHaveSent(v, d, k)'
    BY <2>1, <2>7 DEF MayHaveSent, Touched
  <2>8. DeliveryInv'
    <3> SUFFICES ASSUME NEW d \in Destination, NEW k \in Key
                 PROVE  sends'[<<d, k>>] <= outbox'[k].attempts + aborts'
                            + (IF \/ outbox'[k].status = "processed"
                                  \/ \E v \in Worker : MayHaveSent(v, d, k)'
                               THEN 1 ELSE 0)
      BY DEF DeliveryInv
    <3>1. QED
      BY <2>1, <2>2, <2>7, NoNewDelivery DEF IInv
  <2>9. QED
    BY <2>2, <2>4, <2>5, <2>6, <2>8
       DEF IInv, LoopInv, TxnRowsInv, TxnRecordsInv
<1>4. QED
  BY <1>1, <1>2, <1>3 DEF Next

(* Every reachable state satisfies the inductive invariant.                *)
THEOREM Invariance == Spec => []IInv
<1>1. Init => IInv
  BY InitIInv
<1>2. IInv /\ [Next]_vars => IInv'
  BY NextKeepsIInv
<1>3. QED
  BY <1>1, <1>2, PTL DEF Spec

(* Variables keep their types; in particular no committed row is left      *)
(* "queued", where no dispatch would ever select it again.                 *)
THEOREM TypeCorrect == Spec => []TypeOK
<1>1. IInv => TypeOK
  BY DEF IInv
<1>2. QED
  BY <1>1, Invariance, PTL

(* Whatever requests race for the same key, with a mutation or without: a  *)
(* mutation leaves its audit row and its very own event or neither, an     *)
(* event is of one request that committed it, and is announced only then.  *)
THEOREM AuditWithEvent == Spec => []EventsOnRecord
<1>1. IInv => EventsOnRecord
  BY DEF IInv, RequestInv, EventsOnRecord
<1>2. QED
  BY <1>1, Invariance, PTL

(* An event marked processed got all that one worker able to handle it     *)
(* owed it, over any interleaving of workers, failures and rollbacks.      *)
THEOREM ProcessedHandled == Spec => []ProcessedIsHandled
<1>1. IInv => ProcessedIsHandled
  BY DEF IInv
<1>2. QED
  BY <1>1, Invariance, PTL

(* Failures are counted exactly: an event dies at the first failure past   *)
(* the limit, and a live one has no more failures than the limit.          *)
THEOREM DeadExactly == Spec => []DeadAfterRetries
<1>1. IInv => DeadAfterRetries
  BY DEF IInv, AttemptsInv
<1>2. QED
  BY <1>1, Invariance, PTL

(* The check for an existing run and its insertion need no constraint to   *)
(* be safe: row locks keep any two transactions from making the same run.  *)
THEOREM RunsNeverClash == Spec => []NoDuplicateRun
<1>1. ASSUME IInv PROVE NoDuplicateRun
  <2> SUFFICES ASSUME NEW w \in Worker
               PROVE  /\ ~RunClash(w)
                      /\ \A v \in Worker \ {w} : \A wk \in Workflow \X Key :
                            txnRuns[w][wk] = "none" \/ txnRuns[v][wk] = "none"
    BY DEF NoDuplicateRun
  <2>1. ASSUME NEW v \in Worker, NEW wf \in Workflow, NEW k \in Key,
               txnRuns[v][<<wf, k>>] # "none"
        PROVE  k \in locked[v] /\ runs[<<wf, k>>] = "none"
    BY <1>1, <2>1 DEF IInv, TxnRecordsInv, TxnRecordsInvOf, Touched
  <2>2. ~RunClash(w)
    <3> SUFFICES ASSUME NEW wk \in Workflow \X Key,
                        runs[wk] # "none", txnRuns[w][wk] # "none"
                 PROVE  FALSE
      BY DEF RunClash
    <3>1. PICK wf \in Workflow, k \in Key : wk = <<wf, k>>
      OBVIOUS
    <3>2. QED
      BY <2>1, <3>1
  <2>3. ASSUME NEW v \in Worker \ {w}, NEW wk \in Workflow \X Key,
               txnRuns[w][wk] # "none", txnRuns[v][wk] # "none"
        PROVE  FALSE
    <3>1. PICK wf \in Workflow, k \in Key : wk = <<wf, k>>
      OBVIOUS
    <3>2. k \in locked[v] /\ k \in locked[w]
      BY <2>1, <2>3, <3>1
    <3>3. QED
      BY <1>1, <3>2 DEF IInv, LocksDisjoint
  <2>4. QED
    BY <2>2, <2>3
<1>2. QED
  BY <1>1, Invariance, PTL

(* No call to a lifecycle provider goes unexplained: each beyond the one   *)
(* that settled the event is paid for by a failure or a rollback.          *)
THEOREM DeliveriesExplained == Spec => []DeliveriesAccounted
<1>1. ASSUME IInv PROVE DeliveriesAccounted
  <2> SUFFICES ASSUME NEW d \in Destination, NEW k \in Key
               PROVE  sends[<<d, k>>] <= outbox[k].attempts + aborts
                         + (IF outbox[k].status = "processed" \/ InFlight(k)
                            THEN 1 ELSE 0)
    BY DEF DeliveriesAccounted
  <2>1. sends[<<d, k>>] \in Nat /\ outbox[k].attempts \in Nat /\ aborts \in Nat
    BY <1>1 DEF IInv, TypeOK, Rows
  <2>2. (\E w \in Worker : MayHaveSent(w, d, k)) => InFlight(k)
    BY DEF MayHaveSent, Touched, InFlight
  <2>3. sends[<<d, k>>] <= outbox[k].attempts + aborts
            + (IF \/ outbox[k].status = "processed"
                  \/ \E w \in Worker : MayHaveSent(w, d, k)
               THEN 1 ELSE 0)
    BY <1>1 DEF IInv, DeliveryInv
  <2>4. QED
    BY <2>1, <2>2, <2>3
<1>2. QED
  BY <1>1, Invariance, PTL

-----------------------------------------------------------------------------
(* The outbox implements the event queue *)

(* An initial state is an initial state of the event queue.                *)
LEMMA InitRefines == Init => EventQueueView!QueueInit
  BY DEF Init, EventQueueView!QueueInit, NoRow, NoRuns, Done, DbEffect

(* A step that changes neither a row's status and attempts, nor a run or a *)
(* transcript, is a stutter of the queue.                                  *)
LEMMA SameTablesStutter ==
    ASSUME outbox' = outbox, runs' = runs, transcripts' = transcripts,
           TypeOK, TypeOK'
    PROVE  UNCHANGED EventQueueView!queueVars
<1>1. \A t \in DbEffect, k \in Key : Done(t, k) <=> Done(t, k)'
  BY ConstantsAssumption DEF Done, DbEffect
<1>2. QED
  BY <1>1 DEF EventQueueView!queueVars

(* Its view has the event queue's type.                                    *)
LEMMA TypeRefines == TypeOK => EventQueueView!QueueTypeOK
  BY DEF TypeOK, EventQueueView!QueueTypeOK, EventQueueView!Status, Rows,
         CommittedStatus, DbEffect

(* A request that commits an event publishes it; its other steps stutter.  *)
LEMMA RequestRefines ==
    ASSUME IInv, IInv', NEW r \in Request, RequestStep(r)
    PROVE  EventQueueView!QueueNext \/ UNCHANGED EventQueueView!queueVars
<1> USE DEF IInv
<1>1. runs' = runs /\ transcripts' = transcripts
  BY DEF RequestStep, Record, CommitRequest, CommitGuarded, FailRequest, Notify, tableVars
<1>2. CASE outbox' = outbox
  BY <1>1, <1>2, SameTablesStutter
<1>3. CASE outbox' # outbox
  <2>1. (CommitRequest(r) \/ CommitGuarded(r)) /\ outbox[KeyOf[r]].status = "absent"
        /\ outbox' = [outbox EXCEPT ![KeyOf[r]] = NewRow(stamp[r])]
    BY <1>3 DEF RequestStep, Record, CommitRequest, CommitGuarded, FailRequest, Notify, tableVars
  <2> PICK k \in Key : k = KeyOf[r]
    BY ConstantsAssumption
  <2>2. outbox[k].status = "absent" /\ outbox' = [outbox EXCEPT ![k] = NewRow(stamp[r])]
    BY <2>1
  <2>3. /\ outbox'[k].status = "pending" /\ outbox'[k].attempts = 0
        /\ outbox[k].attempts = 0
        /\ \A j \in Key : j # k => outbox'[j] = outbox[j]
    BY <2>2 DEF TypeOK, NewRow, AttemptsInv
  <2>4. \A t \in DbEffect, j \in Key : Done(t, j) <=> Done(t, j)'
    BY <1>1, ConstantsAssumption DEF Done, DbEffect
  <2>5. EventQueueView!Publish(k)
    BY <2>2, <2>3, <2>4 DEF EventQueueView!Publish
  <2>6. QED
    BY <2>5 DEF EventQueueView!QueueNext
<1>4. QED
  BY <1>2, <1>3

(* A commit settles the batch of events its iteration dealt with.          *)
LEMMA CommitRefines ==
    ASSUME IInv, IInv', NEW w \in Worker, Commit(w)
    PROVE  EventQueueView!QueueNext
<1> USE DEF IInv
<1>1. PICK batch \in SUBSET Key : batch = Touched(w)
  BY DEF Touched, TypeOK
<1>2. /\ transcripts' = transcripts \cup txnTranscripts[w]
      /\ \A wk \in Workflow \X Key : runs'[wk] =
            IF txnRuns[w][wk] # "none" THEN txnRuns[w][wk] ELSE runs[wk]
      /\ TxnRecordsInvOf(w)
  BY DEF Commit, TxnRecordsInv
<1>3. \A t \in DbEffect, k \in Key : Done(t, k) => Done(t, k)'
  BY <1>2, ConstantsAssumption DEF Done, DbEffect
<1>4. ASSUME NEW t \in DbEffect, NEW k \in Key \ batch PROVE Done(t, k)' <=> Done(t, k)
  BY <1>1, <1>2, <1>4, ConstantsAssumption DEF Done, DbEffect, TxnRecordsInvOf
<1>5. ASSUME NEW k \in batch
      PROVE  /\ outbox[k].status = "pending"
             /\ \/ /\ outbox'[k].status = "processed"
                   /\ outbox'[k].attempts = outbox[k].attempts
                   /\ w \in Handlers(k)
                   /\ \A t \in Owed(w, k) \cap DbEffect : Done(t, k)'
                \/ /\ outbox'[k].attempts = outbox[k].attempts + 1
                   /\ outbox'[k].status =
                         IF outbox[k].attempts >= RetryLimit THEN "dead" ELSE "pending"
  <2>1. k \in Key
    BY <1>1
  <2>2. w \in Handlers(k)
    BY <1>1, <1>5 DEF Handlers, Touched, LoopInv, LoopInvOf, Commit
  <2>3. Owed(w, k) \subseteq Duties(w, k)
    BY <2>2 DEF Handlers, Declines, Owed, Duties
  <2>4. ASSUME NEW t, DoneInTxn(w, t, k), t \in DbEffect PROVE Done(t, k)'
    BY <1>2, <2>1, <2>4, ConstantsAssumption
       DEF DoneInTxn, Done, HasRun, HasTranscript, DbEffect
  <2>5. QED
    BY <1>1, <1>5, <2>1, <2>2, <2>3, <2>4, CommitSettles
<1>6. \A k \in Key \ batch : outbox'[k] = outbox[k]
  BY <1>1, CommitSettles
<1>7. EventQueueView!QueueTypeOK'
  BY TypeRefines, PTL
<1>8. EventQueueView!Settle(batch)
  BY <1>1, <1>3, <1>4, <1>5, <1>6, <1>7
     DEF EventQueueView!Settle, EventQueueView!Succeeds, EventQueueView!Fails
<1>9. QED
  BY <1>8 DEF EventQueueView!QueueNext

(* Transactions, locks and workers implement the event queue: whatever is  *)
(* interleaved, the effects of an event in the database appear in the very *)
(* step that marks it processed, and each failed pass costs one attempt.   *)
THEOREM Refinement == Spec => RefinesEventQueue
<1>1. Init => EventQueueView!QueueInit
  BY InitRefines
<1>2. ASSUME IInv, IInv', [Next]_vars
      PROVE  [EventQueueView!QueueNext]_(EventQueueView!queueVars)
  <2>1. CASE \E r \in Request : RequestStep(r)
    BY <1>2, <2>1, RequestRefines
  <2>2. CASE \E w \in Worker : Commit(w)
    BY <1>2, <2>2, CommitRefines
  <2>3. CASE outbox' = outbox /\ runs' = runs /\ transcripts' = transcripts
    BY <1>2, <2>3, SameTablesStutter DEF IInv
  <2>4. CASE \E w \in Worker : (WorkerStep(w) /\ ~Commit(w)) \/ Abort(w)
    <3>1. outbox' = outbox /\ runs' = runs /\ transcripts' = transcripts
      BY <2>4 DEF WorkerStep, Claim, Skip, Take, StartRun, Track, TranscribeCall,
                  Finish, TaskFails, Abort, tableVars
    <3>2. QED
      BY <2>3, <3>1
  <2>5. CASE UNCHANGED vars
    BY <2>3, <2>5 DEF vars, tableVars
  <2>6. QED
    BY <1>2, <2>1, <2>2, <2>4, <2>5 DEF Next
<1>3. QED
  BY <1>1, <1>2, Invariance, PTL DEF Spec, RefinesEventQueue, EventQueueView!QueueSpec
=============================================================================
