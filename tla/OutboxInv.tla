------------------------------ MODULE OutboxInv ------------------------------
(***************************************************************************)
(* The inductive invariant of the outbox: what is true of an iteration in  *)
(* flight, and of the committed state, after every step.  OutboxProofs     *)
(* proves that it is inductive.                                            *)
(***************************************************************************)
EXTENDS Outbox

(* Requests: what a handler has done, by where it stands.                  *)
RequestInv ==
    /\ AuditAndEventTogether
    /\ NotifiedAreDurable
    /\ \A r \in Request : req[r] = "notify" => Emits(r)

(* SKIP LOCKED keeps the batches of two iterations apart, and a row that   *)
(* is locked stays pending until its holder commits.                       *)
LocksDisjoint ==
    \A v, w \in Worker : v # w => locked[v] \cap locked[w] = {}

LoopInvOf(w) ==
    /\ \A k \in locked[w] : outbox[k].status = "pending"
    /\ todo[w] \subseteq locked[w]
    /\ pc[w] = "idle" => locked[w] = {}
    /\ pc[w] # "idle" => Dispatches(w)
    /\ pc[w] = "process" <=> cur[w] # NoKey
    /\ cur[w] # NoKey =>
          cur[w] \in locked[w] \ todo[w] /\ ~Declines(w, cur[w])

LoopInv == \A w \in Worker : LoopInvOf(w)

(* The rows an iteration has dealt with or is dealing with.                *)
Touched(w) == {k \in locked[w] \ todo[w] : ~Declines(w, k)}

DoneInTxn(w, t, k) ==
    \/ t \in Workflow /\ HasRun(w, t, k)
    \/ t \in Destination /\ sends[<<t, k>>] > 0
    \/ t = Transcription /\ HasTranscript(w, k)

InHand(w, k) ==
    /\ txnOutbox[w][k] = [outbox[k] EXCEPT !.status = "queued"]
    /\ left[w] \subseteq Duties(w, k)
    /\ \A t \in Duties(w, k) \ left[w] : DoneInTxn(w, t, k)

Settled(w, k) ==
    \/ /\ txnOutbox[w][k] = [outbox[k] EXCEPT !.status = "processed"]
       /\ \A t \in Duties(w, k) : DoneInTxn(w, t, k)
    \/ txnOutbox[w][k] = FailedRow(outbox[k])

(* A transaction's view of the rows it locked, relative to the committed   *)
(* ones; and it writes records only for the rows it touched.               *)
TxnRowsInvOf(w) ==
    \A k \in locked[w] :
       /\ k \notin Touched(w) => txnOutbox[w][k] = outbox[k]
       /\ k = cur[w] => InHand(w, k)
       /\ k \in Touched(w) /\ k # cur[w] => Settled(w, k)

TxnRowsInv == \A w \in Worker : TxnRowsInvOf(w)

TxnRecordsInvOf(w) ==
    /\ txnTranscripts[w] \subseteq Touched(w)
    /\ \A wf \in Workflow, k \in Key : txnRuns[w][<<wf, k>>] # "none" =>
          k \in Touched(w) /\ runs[<<wf, k>>] = "none"

TxnRecordsInv == \A w \in Worker : TxnRecordsInvOf(w)

AttemptsInv ==
    /\ DeadAfterRetries
    /\ \A k \in Key : outbox[k].status = "absent" => outbox[k].attempts = 0

(* Whether the iteration of w may already have called destination d for k. *)
MayHaveSent(w, d, k) ==
    /\ k \in Touched(w)
    /\ ~(k = cur[w] /\ d \in left[w])

DeliveryInv ==
    \A d \in Destination, k \in Key :
       sends[<<d, k>>] <= outbox[k].attempts + aborts
           + (IF \/ outbox[k].status = "processed"
                 \/ \E w \in Worker : MayHaveSent(w, d, k)
              THEN 1 ELSE 0)

IInv ==
    /\ TypeOK
    /\ RequestInv
    /\ LocksDisjoint
    /\ LoopInv
    /\ TxnRowsInv
    /\ TxnRecordsInv
    /\ AttemptsInv
    /\ DeliveryInv
    /\ ProcessedIsHandled
=============================================================================
