------------------------------ MODULE Workflow ------------------------------
(***************************************************************************)
(* Workflow runs (modules/workflows/engine.py) and the worker iterations   *)
(* that start them for an event or wake them after a wait                  *)
(* (worker/runner.py).                                                     *)
(*                                                                         *)
(* An iteration walks the graph of a run within its transaction: the run   *)
(* row and the node runs it writes appear when it commits.  What it sends  *)
(* is out at once.  Waking reads the due runs without locking them, so two *)
(* iterations may work on the same run; the last commit wins.              *)
(***************************************************************************)
EXTENDS Naturals, FiniteSets

CONSTANTS
    Run,         \* workflow runs, each of one workflow for one event
    Worker,      \* worker processes
    Node,        \* nodes of the workflows' graphs
    TypeOf,      \* Node -> its type
    Target,      \* Node -> target of its first outgoing edge, or NoNode
    Trigger,     \* Run -> first trigger node of its workflow, or NoNode
    WakeLimit,   \* due runs one iteration wakes (20 in the code)
    MaxAborts,   \* bound: iterations that are rolled back
    NoNode, NoRun

NodeType == {"event", "condition", "send", "emit_destination", "update_field", "wait"}

ASSUME GraphAssumption ==
    /\ TypeOf \in [Node -> NodeType]
    /\ Target \in [Node -> Node \cup {NoNode}]
    /\ Trigger \in [Run -> Node \cup {NoNode}]
    /\ NoNode \notin Node /\ NoRun \notin Run
    /\ WakeLimit \in Nat \ {0} /\ MaxAborts \in Nat

VARIABLES
    \* committed
    run,        \* Run -> WorkflowRun row
    visits,     \* <<run, node>> that have a WorkflowNodeRun row
    \* outside
    sent,       \* <<run, node>> -> messages or provider calls made
    \* worker iterations
    pc,         \* Worker -> "idle", "start" or "wake"
    cur,        \* Worker -> the run in continue_run
    at,         \* Worker -> the node about to be executed
    todo,       \* Worker -> due runs it read and has not reached
    txnRun,     \* Worker -> the run rows as its session holds them
    txnVisits,  \* Worker -> node runs it added
    aborts      \* iterations rolled back so far

workerVars == <<pc, cur, at, todo, txnRun, txnVisits>>
vars == <<run, visits, sent, workerVars, aborts>>

(* "node" is where the run stands (NoNode: still at "trigger"), "due"      *)
(* whether its wake_at has passed.                                         *)
RunStatus == {"absent", "running", "waiting", "completed", "failed"}
Row == [status: RunStatus, node: Node \cup {NoNode}, due: BOOLEAN]
NoRow == [status |-> "absent", node |-> NoNode, due |-> FALSE]
NoRows == [r \in Run |-> NoRow]

(* Type invariant. *)
TypeOK ==
    /\ run \in [Run -> Row]
    /\ visits \subseteq Run \X Node
    /\ sent \in [Run \X Node -> Nat]
    /\ pc \in [Worker -> {"idle", "start", "wake"}]
    /\ cur \in [Worker -> Run \cup {NoRun}]
    /\ at \in [Worker -> Node \cup {NoNode}]
    /\ todo \in [Worker -> SUBSET Run]
    /\ txnRun \in [Worker -> [Run -> Row]]
    /\ txnVisits \in [Worker -> SUBSET (Run \X Node)]
    /\ aborts \in Nat

Init ==
    /\ run = NoRows
    /\ visits = {}
    /\ sent = [rn \in Run \X Node |-> 0]
    /\ pc = [w \in Worker |-> "idle"]
    /\ cur = [w \in Worker |-> NoRun]
    /\ at = [w \in Worker |-> NoNode]
    /\ todo = [w \in Worker |-> {}]
    /\ txnRun = [w \in Worker |-> NoRows]
    /\ txnVisits = [w \in Worker |-> {}]
    /\ aborts = 0

-----------------------------------------------------------------------------
(* Walking the graph *)

(* The event of r is locked by one dispatch (see Outbox): no other         *)
(* iteration can be starting the same run.                                 *)
StartRun(w, r) ==
    /\ pc[w] = "idle"
    /\ run[r].status = "absent"
    /\ \A v \in Worker : cur[v] # r
    /\ pc' = [pc EXCEPT ![w] = "start"]
    /\ cur' = [cur EXCEPT ![w] = r]
    /\ at' = [at EXCEPT ![w] = Trigger[r]]
    /\ txnRun' = [txnRun EXCEPT ![w][r] = [NoRow EXCEPT !.status = "running"]]
    /\ UNCHANGED <<run, visits, sent, todo, txnVisits, aborts>>

Sends(n) == TypeOf[n] \in {"send", "emit_destination"}

CanFail(n) == Sends(n) \/ TypeOf[n] = "update_field"

Visit(w, n) ==
    txnVisits' = [txnVisits EXCEPT ![w] = @ \cup {<<cur[w], n>>}]

Deliver(w, n) == sent' = [sent EXCEPT ![<<cur[w], n>>] = @ + 1]

(* Mutant: the wait leaves a status of its own, which nobody looks for.    *)
WaitAtDelayed(w, n) ==
    /\ at[w] = n
    /\ TypeOf[n] = "wait"
    /\ Visit(w, n)
    /\ txnRun' = [txnRun EXCEPT ![w][cur[w]] =
                     [status |-> "delayed", node |-> n, due |-> FALSE]]
    /\ at' = [at EXCEPT ![w] = NoNode]
    /\ UNCHANGED <<run, visits, sent, pc, cur, todo, aborts>>

(* Mutant: the walk goes on behind a wait.                                 *)
WaitAtPassing(w, n) ==
    /\ at[w] = n
    /\ TypeOf[n] = "wait"
    /\ txnVisits' = [txnVisits EXCEPT ![w] =
                        @ \cup {<<cur[w], n>>, <<cur[w], Target[n]>>}]
    /\ txnRun' = [txnRun EXCEPT ![w][cur[w]] =
                     [status |-> "waiting", node |-> n, due |-> FALSE]]
    /\ at' = [at EXCEPT ![w] = NoNode]
    /\ UNCHANGED <<run, visits, sent, pc, cur, todo, aborts>>

(* A wait parks the run at this very node. *)
WaitAt(w, n) ==
    /\ at[w] = n
    /\ TypeOf[n] = "wait"
    /\ Visit(w, n)
    /\ txnRun' = [txnRun EXCEPT ![w][cur[w]] =
                     [status |-> "waiting", node |-> n, due |-> FALSE]]
    /\ at' = [at EXCEPT ![w] = NoNode]
    /\ UNCHANGED <<run, visits, sent, pc, cur, todo, aborts>>

(* Every other node type does its work, if it has any, and the walk takes  *)
(* the first outgoing edge; without one the run is completed.              *)
PassNode(w, n) ==
    /\ at[w] = n
    /\ TypeOf[n] # "wait"
    /\ Visit(w, n)
    /\ IF Sends(n) THEN Deliver(w, n) ELSE UNCHANGED sent
    /\ at' = [at EXCEPT ![w] = Target[n]]
    /\ txnRun' = IF Target[n] = NoNode
                 THEN [txnRun EXCEPT ![w][cur[w]].status = "completed"]
                 ELSE [txnRun EXCEPT ![w][cur[w]].node = Target[n]]
    /\ UNCHANGED <<run, visits, pc, cur, todo, aborts>>

(* The transaction is over, and the session with it. *)
CloseTxn(w) ==
    /\ pc' = [pc EXCEPT ![w] = "idle"]
    /\ cur' = [cur EXCEPT ![w] = NoRun]
    /\ at' = [at EXCEPT ![w] = NoNode]
    /\ todo' = [todo EXCEPT ![w] = {}]
    /\ txnRun' = [txnRun EXCEPT ![w] = NoRows]
    /\ txnVisits' = [txnVisits EXCEPT ![w] = {}]

(* Mutant: the failed run ends like any other.                             *)
FailNodeCompletes(w, n) ==
    /\ at[w] = n
    /\ CanFail(n)
    /\ IF Sends(n) THEN UNCHANGED sent \/ Deliver(w, n) ELSE UNCHANGED sent
    /\ IF pc[w] = "start"
       THEN /\ Visit(w, n)
            /\ txnRun' = [txnRun EXCEPT ![w][cur[w]].status = "completed"]
            /\ at' = [at EXCEPT ![w] = NoNode]
            /\ UNCHANGED <<pc, cur, todo>>
       ELSE CloseTxn(w)
    /\ UNCHANGED <<run, visits, aborts>>

(* Mutant: the failed run keeps the status it had.                         *)
FailNodeRunning(w, n) ==
    /\ at[w] = n
    /\ CanFail(n)
    /\ IF Sends(n) THEN UNCHANGED sent \/ Deliver(w, n) ELSE UNCHANGED sent
    /\ IF pc[w] = "start"
       THEN /\ Visit(w, n)
            /\ txnRun' = [txnRun EXCEPT ![w][cur[w]].status = "running"]
            /\ at' = [at EXCEPT ![w] = NoNode]
            /\ UNCHANGED <<pc, cur, todo>>
       ELSE CloseTxn(w)
    /\ UNCHANGED <<run, visits, aborts>>

(* A node raises, before or after its call went out.  While an event is    *)
(* processed the exception is caught and the run is saved as failed; while *)
(* waking, it undoes the whole iteration.                                  *)
FailNode(w, n) ==
    /\ at[w] = n
    /\ CanFail(n)
    /\ IF Sends(n) THEN UNCHANGED sent \/ Deliver(w, n) ELSE UNCHANGED sent
    /\ IF pc[w] = "start"
       THEN /\ Visit(w, n)
            /\ txnRun' = [txnRun EXCEPT ![w][cur[w]].status = "failed"]
            /\ at' = [at EXCEPT ![w] = NoNode]
            /\ UNCHANGED <<pc, cur, todo>>
       ELSE CloseTxn(w)
    /\ UNCHANGED <<run, visits, aborts>>

-----------------------------------------------------------------------------
(* Waking *)

Due == {r \in Run : run[r].status = "waiting" /\ run[r].due}

(* wake_at of a waiting run passes. *)
Elapse(r) ==
    /\ run[r].status = "waiting" /\ ~run[r].due
    /\ run' = [run EXCEPT ![r].due = TRUE]
    /\ UNCHANGED <<visits, sent, workerVars, aborts>>

ReadDue(w) ==
    /\ pc[w] = "idle"
    /\ \E batch \in SUBSET Due \ {{}} :
          /\ Cardinality(batch) <= WakeLimit
          /\ Cardinality(batch) = WakeLimit \/ batch = Due
          /\ todo' = [todo EXCEPT ![w] = batch]
          /\ txnRun' = [txnRun EXCEPT ![w] =
                           [r \in Run |-> IF r \in batch THEN run[r] ELSE NoRow]]
    /\ pc' = [pc EXCEPT ![w] = "wake"]
    /\ UNCHANGED <<run, visits, sent, cur, at, txnVisits, aborts>>

(* Mutant: a woken run goes on behind its wait, and two workers have read  *)
(* that it is due.                                                         *)
WakeRunBeyond(w, r) ==
    /\ pc[w] = "wake" /\ at[w] = NoNode
    /\ r \in todo[w]
    /\ todo' = [todo EXCEPT ![w] = @ \ {r}]
    /\ cur' = [cur EXCEPT ![w] = r]
    /\ at' = [at EXCEPT ![w] = Target[txnRun[w][r].node]]
    /\ txnRun' = [txnRun EXCEPT ![w][r].status = "running"]
    /\ UNCHANGED <<run, visits, sent, pc, txnVisits, aborts>>

(* continue_run resumes at the node where the run stands. *)
WakeRun(w, r) ==
    /\ pc[w] = "wake" /\ at[w] = NoNode
    /\ r \in todo[w]
    /\ todo' = [todo EXCEPT ![w] = @ \ {r}]
    /\ cur' = [cur EXCEPT ![w] = r]
    /\ at' = [at EXCEPT ![w] = txnRun[w][r].node]
    /\ txnRun' = [txnRun EXCEPT ![w][r].status = "running"]
    /\ UNCHANGED <<run, visits, sent, pc, txnVisits, aborts>>

Commit(w) ==
    /\ pc[w] # "idle" /\ at[w] = NoNode /\ todo[w] = {}
    /\ run' = [r \in Run |->
                  IF txnRun[w][r].status = "absent" THEN run[r] ELSE txnRun[w][r]]
    /\ visits' = visits \cup txnVisits[w]
    /\ CloseTxn(w)
    /\ UNCHANGED <<sent, aborts>>

(* The process dies or another part of the iteration raises. *)
Abort(w) ==
    /\ pc[w] # "idle"
    /\ aborts < MaxAborts
    /\ aborts' = aborts + 1
    /\ CloseTxn(w)
    /\ UNCHANGED <<run, visits, sent>>

WorkerStep(w) ==
    \/ \E r \in Run : StartRun(w, r) \/ WakeRun(w, r)
    \/ \E n \in Node : WaitAt(w, n) \/ PassNode(w, n) \/ FailNode(w, n)
    \/ ReadDue(w)
    \/ Commit(w)

Next ==
    \/ \E r \in Run : Elapse(r)
    \/ \E w \in Worker : WorkerStep(w) \/ Abort(w)

Spec == Init /\ [][Next]_vars

(* Time passes, and a worker's loop goes on; it takes events before it     *)
(* wakes runs (runner.py:235-241).                                         *)
FairSpec ==
    /\ Spec
    /\ \A r \in Run : SF_vars(\E w \in Worker : StartRun(w, r))
    /\ \A r \in Run : WF_vars(Elapse(r))
    /\ \A w \in Worker : WF_vars(WorkerStep(w))

-----------------------------------------------------------------------------
(* Properties *)

Visited(r, n) == <<r, n>> \in visits

(* Among the nodes of "done", n was come to without passing a wait.        *)
Reached(r, n, done) ==
    \/ n = Trigger[r]
    \/ \E m \in Node : TypeOf[m] # "wait" /\ <<r, m>> \in done /\ Target[m] = n

(* The nodes in "done" lead to stop and no further: each but stop led on   *)
(* to another of them, and has sent what it sends.                         *)
LeadsTo(r, stop, done) ==
    \A n \in Node : <<r, n>> \in done =>
       /\ Reached(r, n, done)
       /\ n # stop => /\ <<r, Target[n]>> \in done
                      /\ Sends(n) => sent[<<r, n>>] > 0

(* The engine keeps no run half way: a committed run is over, or parked at *)
(* a wait with all that stands before it done, and nothing that is behind  *)
(* it, however many workers wake it at once.  Only a graph without a       *)
(* trigger leaves a run "running" (engine.py:98-108, 161-177).             *)
CommittedAtRest ==
    \A r \in Run :
       /\ run[r].status = "running" => Trigger[r] = NoNode
       /\ run[r].status = "waiting" =>
             /\ TypeOf[run[r].node] = "wait"
             /\ Visited(r, run[r].node)
             /\ LeadsTo(r, run[r].node, visits)

Busy(r) == \E w \in Worker : cur[w] = r

(* A completed run did what its graph says from the trigger to the end:    *)
(* every node it visited led to the next, and what they send went out.     *)
CompletedRanItsPath ==
    \A r \in Run : run[r].status = "completed" =>
       /\ Visited(r, Trigger[r])
       /\ \A n \in Node : Visited(r, n) =>
             /\ Target[n] # NoNode => Visited(r, Target[n])
             /\ Sends(n) => sent[<<r, n>>] > 0

(* In a graph without cycles a message goes out once, and once more at     *)
(* most for each iteration that was undone after sending it.               *)
SendsExplained ==
    \A r \in Run, n \in Node :
       sent[<<r, n>>] <= aborts + (IF Visited(r, n) \/ Busy(r) THEN 1 ELSE 0)

(* A run that waits is resumed, and ends one day: the "time-based waits"   *)
(* of README.md:54.                                                        *)
WaitsEnd ==
    \A r \in Run : run[r].status = "waiting"
                      ~> run[r].status \in {"completed", "failed"}

(* A run that has begun comes to a wait or its end, unless its graph goes  *)
(* in circles: even an iteration that is undone has it started again.      *)
RunsEnd ==
    \A r \in Run : Busy(r) ~> run[r].status \in {"waiting", "completed", "failed"}
=============================================================================
