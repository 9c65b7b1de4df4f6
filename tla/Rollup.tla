------------------------------- MODULE Rollup -------------------------------
(***************************************************************************)
(* The daily rollup (worker/runner.py:140-214), run at the start of every  *)
(* iteration of every worker that serves maintenance, for the day it is,   *)
(* against the audit rows that requests keep committing.                   *)
(*                                                                         *)
(* The transaction of the iteration holds its RollupRun row until the end: *)
(* another worker that inserts the same day waits for it, and fails on the *)
(* primary key if it commits.                                              *)
(***************************************************************************)
EXTENDS Naturals, FiniteSets

CONSTANTS
    Event,      \* audit events that requests record
    Worker,     \* workers that serve maintenance
    LastDay,    \* bound: the day the clock stops at
    MaxAborts   \* bound: iterations rolled back for another reason

ASSUME BoundsAssumption ==
    LastDay \in Nat /\ MaxAborts \in Nat /\ IsFiniteSet(Event)

VARIABLES
    today,      \* the calendar day
    stamp,      \* Event -> day of its occurred_at, or NoDay
    audit,      \* events committed
    rollup,     \* Day -> RollupRun row
    metric,     \* Day -> the count in its MetricDaily row, or NoMetric
    pc,         \* Worker -> "idle", "insert", "count" or "commit"
    day,        \* Worker -> date.today() as its iteration read it
    counted,    \* Worker -> the events its query returned
    aborts      \* iterations rolled back so far

txnVars == <<pc, day, counted>>
vars == <<today, stamp, audit, rollup, metric, txnVars, aborts>>

Day == 0..LastDay
NoDay == LastDay + 1
NoMetric == Cardinality(Event) + 1
NoRollup == [status |-> "absent", rowsIn |-> 0]

(* Type invariant. *)
TypeOK ==
    /\ today \in Day
    /\ stamp \in [Event -> Day \cup {NoDay}]
    /\ audit \subseteq Event
    /\ rollup \in [Day -> [status: {"absent", "completed"}, rowsIn: Nat]]
    /\ metric \in [Day -> 0..NoMetric]
    /\ pc \in [Worker -> {"idle", "insert", "count", "commit"}]
    /\ day \in [Worker -> Day]
    /\ counted \in [Worker -> SUBSET Event]
    /\ aborts \in 0..MaxAborts

Init ==
    /\ today = 0
    /\ stamp = [e \in Event |-> NoDay]
    /\ audit = {}
    /\ rollup = [d \in Day |-> NoRollup]
    /\ metric = [d \in Day |-> NoMetric]
    /\ pc = [w \in Worker |-> "idle"]
    /\ day = [w \in Worker |-> 0]
    /\ counted = [w \in Worker |-> {}]
    /\ aborts = 0

-----------------------------------------------------------------------------
(* Requests and the calendar *)

Midnight ==
    /\ today < LastDay
    /\ today' = today + 1
    /\ UNCHANGED <<stamp, audit, rollup, metric, txnVars, aborts>>

(* mutate stamps the audit row; its request commits some time later. *)
Record(e) ==
    /\ stamp[e] = NoDay
    /\ stamp' = [stamp EXCEPT ![e] = today]
    /\ UNCHANGED <<today, audit, rollup, metric, txnVars, aborts>>

CommitEvent(e) ==
    /\ stamp[e] # NoDay /\ e \notin audit
    /\ audit' = audit \cup {e}
    /\ UNCHANGED <<today, stamp, rollup, metric, txnVars, aborts>>

-----------------------------------------------------------------------------
(* run_daily_rollup *)

EventsOf(d) == {e \in audit : stamp[e] = d}

(* A day whose row is there is left alone. *)
Begin(w) ==
    /\ pc[w] = "idle"
    /\ rollup[today].status = "absent"
    /\ pc' = [pc EXCEPT ![w] = "insert"]
    /\ day' = [day EXCEPT ![w] = today]
    /\ UNCHANGED <<today, stamp, audit, rollup, metric, counted, aborts>>

(* Mutant: a transaction waits for whoever has the same day in hand.       *)
BlockedByAny(w) ==
    \E v \in Worker \ {w} : pc[v] # "idle" /\ day[v] = day[w]

(* Somebody else's transaction has inserted the row and is still open. *)
Blocked(w) ==
    \E v \in Worker \ {w} : pc[v] \in {"count", "commit"} /\ day[v] = day[w]

EndTxn(w) ==
    /\ pc' = [pc EXCEPT ![w] = "idle"]
    /\ counted' = [counted EXCEPT ![w] = {}]
    /\ UNCHANGED day

(* Mutant: the row is inserted or, if it is there, updated.                *)
InsertOrUpdate(w) ==
    /\ pc[w] = "insert"
    /\ ~Blocked(w)
    /\ pc' = [pc EXCEPT ![w] = "count"]
    /\ UNCHANGED <<today, stamp, audit, rollup, metric, day, counted, aborts>>

Insert(w) ==
    /\ pc[w] = "insert"
    /\ ~Blocked(w)
    /\ rollup[day[w]].status = "absent"
    /\ pc' = [pc EXCEPT ![w] = "count"]
    /\ UNCHANGED <<today, stamp, audit, rollup, metric, day, counted, aborts>>

(* The row was committed since it was looked for: the iteration fails. *)
InsertClash(w) ==
    /\ pc[w] = "insert"
    /\ rollup[day[w]].status # "absent"
    /\ EndTxn(w)
    /\ UNCHANGED <<today, stamp, audit, rollup, metric, aborts>>

Count(w) ==
    /\ pc[w] = "count"
    /\ counted' = [counted EXCEPT ![w] = EventsOf(day[w])]
    /\ pc' = [pc EXCEPT ![w] = "commit"]
    /\ UNCHANGED <<today, stamp, audit, rollup, metric, day, aborts>>

(* Mutant: the row is never marked as completed.                           *)
CommitRunning(w) ==
    /\ pc[w] = "commit"
    /\ rollup' = [rollup EXCEPT ![day[w]] =
                     [status |-> "running", rowsIn |-> Cardinality(counted[w])]]
    /\ metric' = [metric EXCEPT ![day[w]] = Cardinality(counted[w])]
    /\ EndTxn(w)
    /\ UNCHANGED <<today, stamp, audit, aborts>>

(* The end of the worker's iteration commits the row, completed, together  *)
(* with its metrics.                                                       *)
Commit(w) ==
    /\ pc[w] = "commit"
    /\ rollup' = [rollup EXCEPT ![day[w]] =
                     [status |-> "completed", rowsIn |-> Cardinality(counted[w])]]
    /\ metric' = [metric EXCEPT ![day[w]] = Cardinality(counted[w])]
    /\ EndTxn(w)
    /\ UNCHANGED <<today, stamp, audit, aborts>>

(* Anything else in the iteration raises, or the process dies. *)
Abort(w) ==
    /\ pc[w] # "idle"
    /\ aborts < MaxAborts
    /\ aborts' = aborts + 1
    /\ EndTxn(w)
    /\ UNCHANGED <<today, stamp, audit, rollup, metric>>

WorkerStep(w) ==
    Begin(w) \/ Insert(w) \/ InsertClash(w) \/ Count(w) \/ Commit(w)

Next ==
    \/ Midnight
    \/ \E e \in Event : Record(e) \/ CommitEvent(e)
    \/ \E w \in Worker : WorkerStep(w) \/ Abort(w)

Spec == Init /\ [][Next]_vars

(* The worker loop never stops; the calendar and the requests owe nothing. *)
FairSpec == Spec /\ \A w \in Worker : WF_vars(WorkerStep(w))

-----------------------------------------------------------------------------
(* Properties *)

(* A step that leaves every completed day with its figures. *)
FiguresStay ==
    \A d \in Day : rollup[d].status = "completed" =>
       rollup'[d] = rollup[d] /\ metric'[d] = metric[d]

(* What a dashboard has shown for a day does not change any more.          *)
FiguresAreFinal == [][FiguresStay]_vars

(* A day that lasts gets its figures, in spite of workers that race for it *)
(* and iterations that fail.                                               *)
DayRolledUp ==
    \A d \in Day : today = d ~> rollup[d].status = "completed" \/ today # d

(* The "nightly job" that "folds the log into small daily tables"          *)
(* (README.md:105): the figures of a day that is over count what was       *)
(* recorded that day.                                                      *)
MetricsComplete ==
    \A d \in Day : d < today /\ metric[d] # NoMetric =>
       metric[d] = Cardinality(EventsOf(d))
=============================================================================
