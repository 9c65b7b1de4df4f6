--------------------------- MODULE WorkflowProofs ---------------------------
(***************************************************************************)
(* Proofs about workflow runs, for any graphs, runs and workers.           *)
(***************************************************************************)
EXTENDS Workflow, TLAPS

(* A worker between iterations holds nothing. *)
IdleInv(w) ==
    pc[w] = "idle" =>
       /\ cur[w] = NoRun /\ at[w] = NoNode /\ todo[w] = {}
       /\ txnRun[w] = NoRows /\ txnVisits[w] = {}

(* A worker that starts a run is the only one who knows of it, and has     *)
(* visited and sent all that stands before the node it is at.              *)
StartInv(w) ==
    pc[w] = "start" =>
       /\ cur[w] \in Run /\ todo[w] = {}
       /\ run[cur[w]].status = "absent"
       /\ \A v \in Worker \ {w} : cur[v] # cur[w]
       /\ \A r \in Run \ {cur[w]} : txnRun[w][r].status = "absent"
       /\ \A rn \in txnVisits[w] : rn[1] = cur[w]
       /\ at[w] # NoNode => txnRun[w][cur[w]].status = "running"

PathInv(w) ==
    pc[w] = "start" =>
       LET status == txnRun[w][cur[w]].status
           node == txnRun[w][cur[w]].node
           visited(n) == <<cur[w], n>> \in txnVisits[w]
       IN  /\ at[w] = Trigger[cur[w]] \/ visited(Trigger[cur[w]])
           /\ at[w] = NoNode /\ status = "running" => Trigger[cur[w]] = NoNode
           /\ status = "completed" => visited(Trigger[cur[w]])
           /\ status = "waiting" => node \in Node /\ TypeOf[node] = "wait" /\ visited(node)
           /\ status # "absent"
           /\ status \in {"running", "completed"} =>
                 \A n \in Node : visited(n) =>
                    /\ Target[n] # NoNode => visited(Target[n]) \/ at[w] = Target[n]
                    /\ Sends(n) => sent[<<cur[w], n>>] > 0

(* A worker that wakes runs has nothing but waits before it, which were    *)
(* visited before.                                                         *)
WakeInv(w) ==
    pc[w] = "wake" =>
       /\ txnVisits[w] \subseteq visits
       /\ \A r \in todo[w] : txnRun[w][r].status = "waiting"
       /\ \A r \in Run : txnRun[w][r].status # "absent" =>
             /\ txnRun[w][r].status \in {"waiting", "running"}
             /\ txnRun[w][r].status = "running" => at[w] # NoNode /\ r = cur[w]
             /\ run[r].status = "waiting"
             /\ txnRun[w][r].node \in Node
             /\ TypeOf[txnRun[w][r].node] = "wait"
             /\ <<r, txnRun[w][r].node>> \in visits
       /\ at[w] # NoNode =>
             /\ cur[w] \in Run /\ txnRun[w][cur[w]].status = "running"
             /\ at[w] = txnRun[w][cur[w]].node

(* Committed runs. *)
RunInv(r) ==
    /\ run[r].status = "absent" => \A n \in Node : ~Visited(r, n)
    /\ run[r].status = "running" => Trigger[r] = NoNode
    /\ run[r].status = "waiting" =>
          run[r].node \in Node /\ TypeOf[run[r].node] = "wait" /\ Visited(r, run[r].node)
    /\ run[r].status = "completed" =>
          /\ Visited(r, Trigger[r])
          /\ \A n \in Node : Visited(r, n) =>
                /\ Target[n] # NoNode => Visited(r, Target[n])
                /\ Sends(n) => sent[<<r, n>>] > 0

WorkInv(w) == IdleInv(w) /\ StartInv(w) /\ PathInv(w) /\ WakeInv(w)

IInv ==
    /\ TypeOK
    /\ \A w \in Worker : WorkInv(w)
    /\ \A r \in Run : RunInv(r)

-----------------------------------------------------------------------------
(* The initial states satisfy the invariant. *)
LEMMA InitIInv == ASSUME Init PROVE IInv
<1> USE GraphAssumption DEF Init, NoRows, NoRow
<1>1. TypeOK
  BY DEF TypeOK, Row, RunStatus
<1>2. ASSUME NEW w \in Worker PROVE WorkInv(w)
  BY DEF WorkInv, IdleInv, StartInv, PathInv, WakeInv
<1>3. ASSUME NEW r \in Run PROVE RunInv(r)
  BY DEF RunInv, Visited
<1>4. QED
  BY <1>1, <1>2, <1>3 DEF IInv

(* What one worker does leaves alone what is true of another, as long as   *)
(* waiting runs go on waiting and a run that is being started has no other *)
(* worker nor a row.                                                       *)
LEMMA OthersKeep ==
    ASSUME TypeOK, NEW v \in Worker, WorkInv(v),
           pc'[v] = pc[v], cur'[v] = cur[v], at'[v] = at[v], todo'[v] = todo[v],
           txnRun'[v] = txnRun[v], txnVisits'[v] = txnVisits[v],
           visits \subseteq visits',
           \A rn \in Run \X Node : sent[rn] > 0 => sent'[rn] > 0,
           \A r \in Run : run[r].status = "waiting" => run'[r].status = "waiting",
           pc[v] = "start" => /\ run'[cur[v]].status = "absent"
                              /\ \A u \in Worker \ {v} : cur'[u] # cur[v]
    PROVE  WorkInv(v)'
<1>1. IdleInv(v)'
  BY DEF WorkInv, IdleInv
<1>2. StartInv(v)'
  BY DEF WorkInv, StartInv
<1>3. PathInv(v)'
  BY DEF WorkInv, StartInv, PathInv
<1>4. WakeInv(v)'
  BY DEF WorkInv, WakeInv
<1>5. QED
  BY <1>1, <1>2, <1>3, <1>4 DEF WorkInv

(* A committed run keeps what is true of it while its row stands. *)
LEMMA RunKeeps ==
    ASSUME NEW r \in Run, RunInv(r),
           run'[r].status = run[r].status, run'[r].node = run[r].node,
           \A n \in Node : <<r, n>> \in visits' <=> <<r, n>> \in visits,
           Trigger[r] \in Node \cup {NoNode},
           <<r, NoNode>> \in visits => <<r, NoNode>> \in visits',
           \A rn \in Run \X Node : sent[rn] > 0 => sent'[rn] > 0
    PROVE  RunInv(r)'
BY GraphAssumption DEF RunInv, Visited

(* The row that a worker's session holds of a run is replaced. *)
LEMMA RowReplaced ==
    ASSUME NEW f \in [Worker -> [Run -> Row]], NEW w \in Worker, NEW r \in Run,
           NEW row \in Row, NEW g, g = [f EXCEPT ![w] = [@ EXCEPT ![r] = row]]
    PROVE  /\ g \in [Worker -> [Run -> Row]]
           /\ g[w][r] = row
           /\ \A q \in Run \ {r} : g[w][q] = f[w][q]
           /\ \A v \in Worker \ {w} : g[v] = f[v]
OBVIOUS

(* Fields of rows. *)
LEMMA RowFields ==
    ASSUME NEW row \in Row, NEW s \in RunStatus, NEW n \in Node \cup {NoNode}
    PROVE  /\ [row EXCEPT !.status = s] \in Row
           /\ [row EXCEPT !.status = s].status = s
           /\ [row EXCEPT !.status = s].node = row.node
           /\ [row EXCEPT !.node = n] \in Row
           /\ [row EXCEPT !.node = n].status = row.status
           /\ [row EXCEPT !.node = n].node = n
BY DEF Row

LEMMA NoRowFields ==
    /\ NoRow \in Row /\ NoRow.status = "absent"
    /\ NoRows \in [Run -> Row] /\ \A r \in Run : NoRows[r] = NoRow
BY DEF NoRows, NoRow, Row, RunStatus

(* Starting a run. *)
LEMMA StartKeeps ==
    ASSUME IInv, NEW w \in Worker, NEW s \in Run, StartRun(w, s)
    PROVE  IInv'
<1> DEFINE row == [NoRow EXCEPT !.status = "running"]
<1> USE GraphAssumption DEF IInv, StartRun
<1>1. row \in Row /\ row.status = "running"
  BY NoRowFields, RowFields DEF RunStatus
<1>2. /\ txnRun' \in [Worker -> [Run -> Row]]
      /\ txnRun'[w][s] = row
      /\ \A q \in Run \ {s} : txnRun'[w][q] = txnRun[w][q]
      /\ \A v \in Worker \ {w} : txnRun'[v] = txnRun[v]
  <2>1. txnRun' = [txnRun EXCEPT ![w] = [@ EXCEPT ![s] = row]]
    OBVIOUS
  <2>2. txnRun \in [Worker -> [Run -> Row]]
    BY DEF TypeOK
  <2> HIDE DEF row, IInv, StartRun
  <2>3. QED
    BY <1>1, <2>1, <2>2, RowReplaced
<1> HIDE DEF row
<1>3. TypeOK'
  BY <1>2 DEF TypeOK
<1>4. ASSUME NEW v \in Worker PROVE WorkInv(v)'
  <2>1. CASE v = w
    <3>1. IdleInv(w)' /\ WakeInv(w)'
      BY DEF TypeOK, IdleInv, WakeInv
    <3>2. StartInv(w)'
      BY <1>1, <1>2, NoRowFields DEF TypeOK, WorkInv, IdleInv, StartInv
    <3>3. PathInv(w)'
      BY <1>1, <1>2 DEF TypeOK, WorkInv, IdleInv, PathInv
    <3>4. QED
      BY <2>1, <3>1, <3>2, <3>3 DEF WorkInv
  <2>2. CASE v # w
    <3>1. pc[v] = "start" => /\ run[cur[v]].status = "absent"
                             /\ \A u \in Worker \ {v} : cur'[u] # cur[v]
      BY <2>2 DEF TypeOK, WorkInv, StartInv
    <3>2. QED
      BY <1>2, <2>2, <3>1, OthersKeep DEF TypeOK
  <2>3. QED
    BY <2>1, <2>2
<1>5. ASSUME NEW r \in Run PROVE RunInv(r)'
  BY RunKeeps
<1>6. QED
  BY <1>3, <1>4, <1>5

(* Who walks past a node that is no wait is starting a run; who walks at   *)
(* all has one in hand.                                                    *)
LEMMA WalkerStarts ==
    ASSUME IInv, NEW w \in Worker, at[w] \in Node
    PROVE  /\ cur[w] \in Run /\ pc[w] \in {"start", "wake"}
           /\ txnRun[w][cur[w]].status = "running"
           /\ TypeOf[at[w]] # "wait" => pc[w] = "start"
<1>1. pc[w] \in {"idle", "start", "wake"} /\ at[w] # NoNode
  BY GraphAssumption DEF IInv, TypeOK
<1>2. pc[w] # "idle"
  BY <1>1 DEF IInv, WorkInv, IdleInv
<1>3. CASE pc[w] = "start"
  BY <1>1, <1>3 DEF IInv, WorkInv, StartInv
<1>4. CASE pc[w] = "wake"
  <2>1. WakeInv(w)
    BY DEF IInv, WorkInv
  <2>2. cur[w] \in Run /\ txnRun[w][cur[w]].status = "running"
        /\ at[w] = txnRun[w][cur[w]].node
    BY <1>1, <1>4, <2>1 DEF WakeInv
  <2>3. TypeOf[at[w]] = "wait"
    BY <1>4, <2>1, <2>2 DEF WakeInv
  <2>4. QED
    BY <1>4, <2>2, <2>3
<1>5. QED
  BY <1>1, <1>2, <1>3, <1>4

(* Arriving at a wait, for the first time or once more. *)
LEMMA WaitKeeps ==
    ASSUME IInv, NEW w \in Worker, NEW m \in Node, WaitAt(w, m)
    PROVE  IInv'
<1> DEFINE row == [status |-> "waiting", node |-> m, due |-> FALSE]
<1> USE GraphAssumption DEF IInv, WaitAt, Visit
<1>1. /\ cur[w] \in Run /\ pc[w] \in {"start", "wake"}
      /\ txnRun[w][cur[w]].status = "running"
  BY WalkerStarts
<1>2. row \in Row /\ row.status = "waiting" /\ row.node = m
  BY DEF Row, RunStatus
<1>3. /\ txnRun' \in [Worker -> [Run -> Row]]
      /\ txnRun'[w][cur[w]] = row
      /\ \A q \in Run \ {cur[w]} : txnRun'[w][q] = txnRun[w][q]
      /\ \A v \in Worker \ {w} : txnRun'[v] = txnRun[v]
  <2>1. txnRun' = [txnRun EXCEPT ![w] = [@ EXCEPT ![cur[w]] = row]]
    OBVIOUS
  <2>2. txnRun \in [Worker -> [Run -> Row]]
    BY DEF TypeOK
  <2> HIDE DEF row, IInv, WaitAt
  <2>3. QED
    BY <1>1, <1>2, <2>1, <2>2, RowReplaced
<1> HIDE DEF row
<1>4. TypeOK'
  BY <1>1, <1>3 DEF TypeOK
<1>5. ASSUME NEW v \in Worker PROVE WorkInv(v)'
  <2>1. CASE v = w /\ pc[w] = "start"
    <3>1. IdleInv(w)' /\ WakeInv(w)'
      BY <2>1 DEF IdleInv, WakeInv
    <3>2. StartInv(w)'
      BY <1>1, <1>3, <2>1 DEF TypeOK, WorkInv, StartInv
    <3>3. PathInv(w)'
      BY <1>1, <1>2, <1>3, <2>1 DEF TypeOK, WorkInv, PathInv
    <3>4. QED
      BY <2>1, <3>1, <3>2, <3>3 DEF WorkInv
  <2>2. CASE v = w /\ pc[w] = "wake"
    <3>1. IdleInv(w)' /\ StartInv(w)' /\ PathInv(w)'
      BY <2>2 DEF IdleInv, StartInv, PathInv
    <3>2. WakeInv(w)
      BY DEF WorkInv
    <3>3. m = txnRun[w][cur[w]].node /\ <<cur[w], m>> \in visits
          /\ run[cur[w]].status = "waiting"
      BY <1>1, <2>2, <3>2 DEF WakeInv
    <3>4. WakeInv(w)'
      BY <1>1, <1>2, <1>3, <2>2, <3>2, <3>3 DEF TypeOK, WakeInv
    <3>5. QED
      BY <2>2, <3>1, <3>4 DEF WorkInv
  <2>3. CASE v # w
    <3>1. pc[v] = "start" => /\ run[cur[v]].status = "absent"
                             /\ \A u \in Worker \ {v} : cur[u] # cur[v]
      BY DEF WorkInv, StartInv
    <3>2. QED
      BY <1>3, <2>3, <3>1, OthersKeep DEF TypeOK
  <2>4. QED
    BY <1>1, <2>1, <2>2, <2>3
<1>6. ASSUME NEW r \in Run PROVE RunInv(r)'
  BY RunKeeps
<1>7. QED
  BY <1>4, <1>5, <1>6

(* What was sent stays sent. *)
LEMMA DeliverAdds ==
    ASSUME TypeOK, NEW w \in Worker, NEW m \in Node, cur[w] \in Run,
           Deliver(w, m) \/ UNCHANGED sent
    PROVE  /\ sent' \in [Run \X Node -> Nat]
           /\ \A rn \in Run \X Node : sent[rn] > 0 => sent'[rn] > 0
           /\ Deliver(w, m) => sent'[<<cur[w], m>>] > 0
<1>1. <<cur[w], m>> \in Run \X Node
  OBVIOUS
<1>2. CASE UNCHANGED sent /\ ~Deliver(w, m)
  BY <1>2 DEF TypeOK
<1>3. CASE Deliver(w, m)
  BY <1>1, <1>3 DEF TypeOK, Deliver
<1>4. QED
  BY <1>2, <1>3

(* Passing a node. *)
LEMMA PassKeeps ==
    ASSUME IInv, NEW w \in Worker, NEW m \in Node, PassNode(w, m)
    PROVE  IInv'
<1> DEFINE old == txnRun[w][cur[w]]
           row == IF Target[m] = NoNode THEN [old EXCEPT !.status = "completed"]
                  ELSE [old EXCEPT !.node = Target[m]]
<1> USE GraphAssumption DEF IInv, PassNode, Visit
<1>1. /\ pc[w] = "start" /\ cur[w] \in Run /\ old \in Row
      /\ old.status = "running"
  BY WalkerStarts DEF TypeOK
<1>2. /\ sent' \in [Run \X Node -> Nat]
      /\ \A rn \in Run \X Node : sent[rn] > 0 => sent'[rn] > 0
      /\ Sends(m) => sent'[<<cur[w], m>>] > 0
  BY <1>1, DeliverAdds
<1>3. /\ row \in Row
      /\ row.status = IF Target[m] = NoNode THEN "completed" ELSE "running"
  <2>1. Target[m] \in Node \cup {NoNode} /\ "completed" \in RunStatus
    BY DEF RunStatus
  <2> HIDE DEF old, IInv, PassNode
  <2>2. CASE Target[m] = NoNode
    <3>1. row = [old EXCEPT !.status = "completed"]
      BY <2>2
    <3> HIDE DEF row
    <3>2. QED
      BY <1>1, <2>1, <2>2, <3>1 DEF Row
  <2>3. CASE Target[m] # NoNode
    <3>1. row = [old EXCEPT !.node = Target[m]]
      BY <2>3
    <3> HIDE DEF row
    <3>2. QED
      BY <1>1, <2>1, <2>3, <3>1 DEF Row
  <2>4. QED
    BY <2>2, <2>3
<1>4. /\ txnRun' \in [Worker -> [Run -> Row]]
      /\ txnRun'[w][cur[w]] = row
      /\ \A q \in Run \ {cur[w]} : txnRun'[w][q] = txnRun[w][q]
      /\ \A v \in Worker \ {w} : txnRun'[v] = txnRun[v]
  <2>1. txnRun' = [txnRun EXCEPT ![w] = [@ EXCEPT ![cur[w]] = row]]
    BY <1>1 DEF TypeOK
  <2>2. txnRun \in [Worker -> [Run -> Row]]
    BY DEF TypeOK
  <2> HIDE DEF row, IInv, PassNode
  <2>3. QED
    BY <1>1, <1>3, <2>1, <2>2, RowReplaced
<1> HIDE DEF row
<1>5. TypeOK'
  BY <1>1, <1>2, <1>4 DEF TypeOK
<1>6. ASSUME NEW v \in Worker PROVE WorkInv(v)'
  <2>1. CASE v = w
    <3>1. IdleInv(w)' /\ WakeInv(w)'
      BY <1>1 DEF IdleInv, WakeInv
    <3>2. StartInv(w)'
      BY <1>1, <1>3, <1>4 DEF TypeOK, WorkInv, StartInv
    <3>3. PathInv(w)'
      <4>1. PathInv(w) /\ cur'[w] = cur[w] /\ at'[w] = Target[m]
            /\ txnVisits'[w] = txnVisits[w] \cup {<<cur[w], m>>}
        BY DEF TypeOK, WorkInv
      <4>2. /\ at[w] = m /\ txnVisits[w] \subseteq Run \X Node
            /\ Target[m] \in Node \cup {NoNode}
        BY DEF TypeOK
      <4> HIDE DEF IInv, PassNode, old
      <4>3. /\ txnRun'[w][cur'[w]].status \in {"completed", "running"}
            /\ txnRun'[w][cur'[w]].status = "running" => Target[m] # NoNode
        BY <1>3, <1>4, <4>1
      <4>4. /\ at[w] = Trigger[cur[w]] \/ <<cur[w], Trigger[cur[w]]>> \in txnVisits[w]
            /\ \A n \in Node : <<cur[w], n>> \in txnVisits[w] =>
                  /\ Target[n] # NoNode =>
                        <<cur[w], Target[n]>> \in txnVisits[w] \/ m = Target[n]
                  /\ Sends(n) => sent[<<cur[w], n>>] > 0
        BY <1>1, <4>1, <4>2 DEF PathInv, old
      <4>5. <<cur'[w], Trigger[cur'[w]]>> \in txnVisits'[w]
        BY <4>1, <4>2, <4>4
      <4>6. \A n \in Node : <<cur'[w], n>> \in txnVisits'[w] =>
               /\ Target[n] # NoNode =>
                     <<cur'[w], Target[n]>> \in txnVisits'[w] \/ at'[w] = Target[n]
               /\ Sends(n) => sent'[<<cur'[w], n>>] > 0
        BY <1>1, <1>2, <4>1, <4>2, <4>4
      <4>7. QED
        BY <4>1, <4>2, <4>3, <4>5, <4>6 DEF PathInv
    <3>4. QED
      BY <2>1, <3>1, <3>2, <3>3 DEF WorkInv
  <2>2. CASE v # w
    <3>1. pc[v] = "start" => /\ run[cur[v]].status = "absent"
                             /\ \A u \in Worker \ {v} : cur[u] # cur[v]
      BY DEF WorkInv, StartInv
    <3>2. QED
      BY <1>2, <1>4, <2>2, <3>1, OthersKeep DEF TypeOK
  <2>3. QED
    BY <2>1, <2>2
<1>7. ASSUME NEW r \in Run PROVE RunInv(r)'
  BY <1>2, RunKeeps
<1>8. QED
  BY <1>5, <1>6, <1>7

(* Failing at a node: only a run that is being started can. *)
LEMMA FailKeeps ==
    ASSUME IInv, NEW w \in Worker, NEW m \in Node, FailNode(w, m)
    PROVE  IInv'
<1> DEFINE old == txnRun[w][cur[w]]
           row == [old EXCEPT !.status = "failed"]
<1> USE GraphAssumption DEF IInv, FailNode, Visit
<1>1. /\ pc[w] = "start" /\ cur[w] \in Run /\ old \in Row
      /\ old.status = "running"
  BY WalkerStarts DEF TypeOK, CanFail, Sends
<1>2. /\ sent' \in [Run \X Node -> Nat]
      /\ \A rn \in Run \X Node : sent[rn] > 0 => sent'[rn] > 0
  BY <1>1, DeliverAdds
<1>3. row \in Row /\ row.status = "failed"
  BY <1>1, RowFields DEF RunStatus
<1>4. /\ txnRun' \in [Worker -> [Run -> Row]]
      /\ txnRun'[w][cur[w]] = row
      /\ \A q \in Run \ {cur[w]} : txnRun'[w][q] = txnRun[w][q]
      /\ \A v \in Worker \ {w} : txnRun'[v] = txnRun[v]
  <2>1. txnRun' = [txnRun EXCEPT ![w] = [@ EXCEPT ![cur[w]] = row]]
    BY <1>1 DEF TypeOK
  <2>2. txnRun \in [Worker -> [Run -> Row]]
    BY DEF TypeOK
  <2> HIDE DEF row, IInv, FailNode
  <2>3. QED
    BY <1>1, <1>3, <2>1, <2>2, RowReplaced
<1> HIDE DEF row
<1>5. TypeOK'
  <2>1. TypeOK /\ <<cur[w], m>> \in Run \X Node
    BY <1>1
  <2>2. /\ UNCHANGED <<run, visits, aborts, pc, cur, todo>>
        /\ txnVisits' = [txnVisits EXCEPT ![w] = @ \cup {<<cur[w], m>>}]
        /\ at' = [at EXCEPT ![w] = NoNode]
    BY <1>1
  <2> HIDE DEF IInv, FailNode, Visit
  <2>3. QED
    BY <1>2, <1>4, <2>1, <2>2 DEF TypeOK
<1>6. ASSUME NEW v \in Worker PROVE WorkInv(v)'
  <2>1. CASE v = w
    <3>1. IdleInv(w)' /\ WakeInv(w)'
      BY <1>1 DEF IdleInv, WakeInv
    <3>2. StartInv(w)'
      BY <1>1, <1>3, <1>4 DEF TypeOK, WorkInv, StartInv
    <3>3. PathInv(w)'
      <4>1. PathInv(w) /\ cur'[w] = cur[w] /\ at'[w] = NoNode
            /\ txnVisits'[w] = txnVisits[w] \cup {<<cur[w], m>>}
        BY <1>1 DEF TypeOK, WorkInv
      <4> HIDE DEF IInv
      <4>2. QED
        BY <1>1, <1>3, <1>4, <4>1 DEF PathInv
    <3>4. QED
      BY <2>1, <3>1, <3>2, <3>3 DEF WorkInv
  <2>2. CASE v # w
    <3>1. pc[v] = "start" => /\ run[cur[v]].status = "absent"
                             /\ \A u \in Worker \ {v} : cur[u] # cur[v]
      BY DEF WorkInv, StartInv
    <3>2. QED
      BY <1>1, <1>2, <1>4, <2>2, <3>1, OthersKeep DEF TypeOK
  <2>3. QED
    BY <2>1, <2>2
<1>7. ASSUME NEW r \in Run PROVE RunInv(r)'
  BY <1>1, <1>2, RunKeeps
<1>8. QED
  BY <1>5, <1>6, <1>7

(* Time passes for a waiting run, or a worker reads those that are due. *)
LEMMA ElapseKeeps ==
    ASSUME IInv, NEW s \in Run, Elapse(s)
    PROVE  IInv'
<1> USE GraphAssumption DEF IInv, Elapse, workerVars
<1>1. TypeOK'
  BY DEF TypeOK, Row
<1>2. \A r \in Run : run'[r].status = run[r].status /\ run'[r].node = run[r].node
  BY DEF TypeOK, Row
<1>3. ASSUME NEW v \in Worker PROVE WorkInv(v)'
  <2>1. pc[v] = "start" => /\ cur[v] \in Run /\ run[cur[v]].status = "absent"
                           /\ \A u \in Worker \ {v} : cur[u] # cur[v]
    BY DEF WorkInv, StartInv
  <2>2. QED
    BY <1>2, <2>1, OthersKeep
<1>4. ASSUME NEW r \in Run PROVE RunInv(r)'
  BY <1>2, RunKeeps
<1>5. QED
  BY <1>1, <1>3, <1>4

LEMMA ReadKeeps ==
    ASSUME IInv, NEW w \in Worker, ReadDue(w)
    PROVE  IInv'
<1> USE GraphAssumption DEF IInv, ReadDue
<1>1. PICK batch \in SUBSET Due \ {{}} :
         /\ todo' = [todo EXCEPT ![w] = batch]
         /\ txnRun' = [txnRun EXCEPT ![w] =
                          [r \in Run |-> IF r \in batch THEN run[r] ELSE NoRow]]
  OBVIOUS
<1>2. TypeOK'
  BY <1>1, NoRowFields DEF TypeOK, Due
<1>3. ASSUME NEW v \in Worker PROVE WorkInv(v)'
  <2>1. CASE v = w
    <3>1. IdleInv(w)' /\ StartInv(w)' /\ PathInv(w)'
      BY DEF TypeOK, IdleInv, StartInv, PathInv
    <3>2. /\ txnVisits'[w] = {} /\ at'[w] = NoNode
          /\ todo'[w] = batch
          /\ \A r \in Run : txnRun'[w][r] = IF r \in batch THEN run[r] ELSE NoRow
      BY <1>1 DEF TypeOK, WorkInv, IdleInv
    <3>3. \A r \in batch : r \in Run /\ run[r].status = "waiting" /\ RunInv(r)
      BY DEF Due
    <3>4. \A r \in batch : /\ run[r].node \in Node /\ TypeOf[run[r].node] = "wait"
                          /\ <<r, run[r].node>> \in visits
      BY <3>3 DEF RunInv, Visited
    <3> HIDE DEF IInv
    <3>5. WakeInv(w)'
      BY <3>2, <3>3, <3>4, NoRowFields DEF WakeInv
    <3>6. QED
      BY <2>1, <3>1, <3>5 DEF WorkInv
  <2>2. CASE v # w
    <3>1. pc[v] = "start" => /\ run[cur[v]].status = "absent"
                             /\ \A u \in Worker \ {v} : cur[u] # cur[v]
      BY DEF WorkInv, StartInv
    <3>2. QED
      BY <1>1, <2>2, <3>1, OthersKeep DEF TypeOK
  <2>3. QED
    BY <2>1, <2>2
<1>4. ASSUME NEW r \in Run PROVE RunInv(r)'
  BY RunKeeps
<1>5. QED
  BY <1>2, <1>3, <1>4

(* Resuming a run that is due. *)
LEMMA WakeKeeps ==
    ASSUME IInv, NEW w \in Worker, NEW s \in Run, WakeRun(w, s)
    PROVE  IInv'
<1> DEFINE row == [txnRun[w][s] EXCEPT !.status = "running"]
<1> USE GraphAssumption DEF IInv, WakeRun
<1>1. WakeInv(w)
  BY DEF WorkInv
<1>2. /\ txnRun[w][s].status = "waiting" /\ txnRun[w][s].node \in Node
      /\ run[s].status = "waiting" /\ txnRun[w][s] \in Row
  BY <1>1 DEF TypeOK, WakeInv
<1>3. row \in Row /\ row.status = "running" /\ row.node = txnRun[w][s].node
  BY <1>2, RowFields DEF RunStatus
<1>4. /\ txnRun' \in [Worker -> [Run -> Row]]
      /\ txnRun'[w][s] = row
      /\ \A q \in Run \ {s} : txnRun'[w][q] = txnRun[w][q]
      /\ \A v \in Worker \ {w} : txnRun'[v] = txnRun[v]
  <2>1. txnRun' = [txnRun EXCEPT ![w] = [@ EXCEPT ![s] = row]]
    BY DEF TypeOK
  <2>2. txnRun \in [Worker -> [Run -> Row]]
    BY DEF TypeOK
  <2> HIDE DEF row, IInv, WakeRun
  <2>3. QED
    BY <1>3, <2>1, <2>2, RowReplaced
<1> HIDE DEF row
<1>5. TypeOK'
  BY <1>2, <1>4 DEF TypeOK
<1>6. ASSUME NEW v \in Worker PROVE WorkInv(v)'
  <2>1. CASE v = w
    <3>1. IdleInv(w)' /\ StartInv(w)' /\ PathInv(w)'
      BY DEF IdleInv, StartInv, PathInv
    <3>2. /\ todo'[w] = todo[w] \ {s} /\ cur'[w] = s
          /\ at'[w] = txnRun[w][s].node /\ at'[w] # NoNode
      BY <1>2 DEF TypeOK
    <3>3. WakeInv(w)'
      BY <1>1, <1>2, <1>3, <1>4, <3>2 DEF TypeOK, WakeInv
    <3>4. QED
      BY <2>1, <3>1, <3>3 DEF WorkInv
  <2>2. CASE v # w
    <3>1. pc[v] = "start" => /\ run[cur[v]].status = "absent"
                             /\ \A u \in Worker \ {v} : cur'[u] # cur[v]
      BY <1>2, <2>2 DEF TypeOK, WorkInv, StartInv
    <3>2. QED
      BY <1>4, <2>2, <3>1, OthersKeep DEF TypeOK
  <2>3. QED
    BY <2>1, <2>2
<1>7. ASSUME NEW r \in Run PROVE RunInv(r)'
  BY RunKeeps
<1>8. QED
  BY <1>5, <1>6, <1>7

(* The end of an iteration leaves its worker with nothing. *)
LEMMA ClosedIsIdle ==
    ASSUME TypeOK, NEW w \in Worker, CloseTxn(w)
    PROVE  /\ WorkInv(w)'
           /\ pc' \in [Worker -> {"idle", "start", "wake"}]
           /\ cur' \in [Worker -> Run \cup {NoRun}] /\ cur'[w] = NoRun
           /\ at' \in [Worker -> Node \cup {NoNode}]
           /\ todo' \in [Worker -> SUBSET Run]
           /\ txnRun' \in [Worker -> [Run -> Row]]
           /\ txnVisits' \in [Worker -> SUBSET (Run \X Node)]
<1>1. pc'[w] = "idle" /\ IdleInv(w)'
  BY DEF TypeOK, CloseTxn, IdleInv
<1>2. WorkInv(w)'
  BY <1>1 DEF WorkInv, StartInv, PathInv, WakeInv
<1>3. QED
  BY <1>2, NoRowFields DEF TypeOK, CloseTxn

(* Rolling an iteration back leaves the tables as they were. *)
LEMMA AbortKeeps ==
    ASSUME IInv, NEW w \in Worker, Abort(w)
    PROVE  IInv'
<1> USE GraphAssumption DEF IInv, Abort
<1>1. TypeOK' /\ WorkInv(w)' /\ cur'[w] = NoRun
  BY ClosedIsIdle DEF TypeOK
<1>2. ASSUME NEW v \in Worker, v # w PROVE WorkInv(v)'
  <2>1. pc[v] = "start" => /\ run[cur[v]].status = "absent"
                           /\ \A u \in Worker \ {v} : cur'[u] # cur[v]
    BY <1>1 DEF TypeOK, WorkInv, StartInv, CloseTxn
  <2>2. QED
    BY <1>2, <2>1, OthersKeep DEF TypeOK, CloseTxn
<1>3. ASSUME NEW r \in Run PROVE RunInv(r)'
  BY RunKeeps
<1>4. QED
  BY <1>1, <1>2, <1>3

-----------------------------------------------------------------------------
(* What the commit of a run that was started writes. *)
LEMMA CommitStartWrites ==
    ASSUME IInv, NEW w \in Worker, Commit(w), pc[w] = "start"
    PROVE  /\ cur[w] \in Run /\ run[cur[w]].status = "absent"
           /\ txnRun[w][cur[w]] \in Row /\ txnRun[w][cur[w]].status # "absent"
           /\ \A r \in Run : run'[r] = IF r = cur[w] THEN txnRun[w][r] ELSE run[r]
           /\ visits \subseteq visits'
           /\ \A n \in Node : <<cur[w], n>> \in visits' <=> <<cur[w], n>> \in txnVisits[w]
           /\ \A r \in Run \ {cur[w]}, n \in Node : <<r, n>> \in visits' <=> <<r, n>> \in visits
<1> USE GraphAssumption DEF IInv, Commit
<1>1. StartInv(w) /\ PathInv(w)
  BY DEF WorkInv
<1>2. /\ cur[w] \in Run /\ run[cur[w]].status = "absent"
      /\ txnRun[w][cur[w]] \in Row /\ txnRun[w][cur[w]].status # "absent"
      /\ \A r \in Run \ {cur[w]} : txnRun[w][r].status = "absent"
  BY <1>1 DEF TypeOK, StartInv, PathInv
<1>3. \A r \in Run : run'[r] = IF r = cur[w] THEN txnRun[w][r] ELSE run[r]
  BY <1>2
<1>4. RunInv(cur[w])
  BY <1>2
<1>5. \A rn \in txnVisits[w] : rn[1] = cur[w]
  BY <1>1 DEF StartInv
<1>6. /\ \A n \in Node : <<cur[w], n>> \in visits' <=> <<cur[w], n>> \in txnVisits[w]
      /\ \A r \in Run \ {cur[w]}, n \in Node : <<r, n>> \in visits' <=> <<r, n>> \in visits
  BY <1>2, <1>4, <1>5 DEF RunInv, Visited
<1>7. QED
  BY <1>2, <1>3, <1>6

(* Committing a run that was started. *)
LEMMA CommitStartKeeps ==
    ASSUME IInv, NEW w \in Worker, Commit(w), pc[w] = "start"
    PROVE  IInv'
<1> USE GraphAssumption DEF IInv, Commit
<1>1. StartInv(w) /\ PathInv(w)
  BY DEF WorkInv
<1>2. /\ cur[w] \in Run /\ run[cur[w]].status = "absent"
      /\ txnRun[w][cur[w]] \in Row /\ txnRun[w][cur[w]].status # "absent"
  BY CommitStartWrites
<1>3. \A r \in Run : run'[r] = IF r = cur[w] THEN txnRun[w][r] ELSE run[r]
  BY CommitStartWrites
<1>4. /\ visits \subseteq visits'
      /\ \A n \in Node : <<cur[w], n>> \in visits' <=> <<cur[w], n>> \in txnVisits[w]
      /\ \A r \in Run \ {cur[w]}, n \in Node : <<r, n>> \in visits' <=> <<r, n>> \in visits
  BY CommitStartWrites
<1>5. TypeOK' /\ WorkInv(w)' /\ cur'[w] = NoRun
  BY <1>3, ClosedIsIdle DEF TypeOK
<1>6. ASSUME NEW v \in Worker, v # w PROVE WorkInv(v)'
  <2>1. cur[v] # cur[w]
    BY <1>1, <1>6 DEF StartInv
  <2>2. pc[v] = "start" => /\ cur[v] \in Run /\ run[cur[v]].status = "absent"
                           /\ \A u \in Worker \ {v} : cur[u] # cur[v]
    BY DEF WorkInv, StartInv
  <2>3. pc[v] = "start" => /\ run'[cur[v]].status = "absent"
                           /\ \A u \in Worker \ {v} : cur'[u] # cur[v]
    BY <1>3, <2>1, <2>2 DEF TypeOK, CloseTxn
  <2>4. \A r \in Run : run[r].status = "waiting" => run'[r].status = "waiting"
    BY <1>2, <1>3
  <2>5. QED
    BY <1>4, <1>6, <2>3, <2>4, OthersKeep DEF TypeOK, CloseTxn
<1>7. ASSUME NEW r \in Run PROVE RunInv(r)'
  <2>1. CASE r = cur[w]
    <3> DEFINE row == txnRun[w][cur[w]]
    <3>1. run'[r] = row
      BY <1>3, <2>1
    <3>2. row.status # "absent" /\ (row.status = "running" => Trigger[r] = NoNode)
      BY <1>1, <2>1 DEF PathInv
    <3>3. row.status = "waiting" =>
             row.node \in Node /\ TypeOf[row.node] = "wait" /\ <<r, row.node>> \in visits'
      BY <1>1, <2>1 DEF PathInv
    <3>4. ASSUME row.status = "completed"
          PROVE  /\ <<r, Trigger[r]>> \in visits'
                 /\ \A n \in Node : <<r, n>> \in visits' =>
                       /\ Target[n] # NoNode => <<r, Target[n]>> \in visits'
                       /\ Sends(n) => sent'[<<r, n>>] > 0
      BY <1>1, <1>4, <2>1, <3>4 DEF PathInv
    <3>5. QED
      BY <3>1, <3>2, <3>3, <3>4 DEF RunInv, Visited
  <2>2. CASE r # cur[w]
    <3>1. <<r, NoNode>> \in visits => <<r, NoNode>> \in visits'
      BY <1>4
    <3>2. QED
      BY <1>3, <1>4, <2>2, <3>1, RunKeeps
  <2>3. QED
    BY <2>1, <2>2
<1>8. QED
  BY <1>5, <1>6, <1>7

(* Committing runs that were woken: they wait again. *)
LEMMA CommitWakeKeeps ==
    ASSUME IInv, NEW w \in Worker, Commit(w), pc[w] = "wake"
    PROVE  IInv'
<1> USE GraphAssumption DEF IInv, Commit
<1>1. WakeInv(w)
  BY DEF WorkInv
<1>2. visits' = visits
  BY <1>1 DEF WakeInv
<1>3. ASSUME NEW r \in Run
      PROVE  \/ run'[r] = run[r]
             \/ /\ run[r].status = "waiting" /\ run'[r].status = "waiting"
                /\ run'[r].node \in Node /\ TypeOf[run'[r].node] = "wait"
                /\ <<r, run'[r].node>> \in visits
  BY <1>1 DEF WakeInv
<1>4. TypeOK' /\ WorkInv(w)' /\ cur'[w] = NoRun
  BY <1>2, ClosedIsIdle DEF TypeOK
<1>5. ASSUME NEW v \in Worker, v # w PROVE WorkInv(v)'
  <2>1. pc[v] = "start" => /\ cur[v] \in Run /\ run[cur[v]].status = "absent"
                           /\ \A u \in Worker \ {v} : cur[u] # cur[v]
    BY DEF WorkInv, StartInv
  <2>2. pc[v] = "start" => \A u \in Worker \ {v} : cur'[u] # cur[v]
    BY <1>4, <2>1 DEF TypeOK, CloseTxn
  <2>3. \A r \in Run : /\ run[r].status = "waiting" => run'[r].status = "waiting"
                       /\ run[r].status = "absent" => run'[r].status = "absent"
    BY <1>3
  <2>4. /\ pc'[v] = pc[v] /\ cur'[v] = cur[v] /\ at'[v] = at[v] /\ todo'[v] = todo[v]
        /\ txnRun'[v] = txnRun[v] /\ txnVisits'[v] = txnVisits[v] /\ sent' = sent
    BY <1>5 DEF TypeOK, CloseTxn
  <2>5. TypeOK /\ WorkInv(v)
    OBVIOUS
  <2> HIDE DEF IInv, Commit
  <2>6. QED
    BY <1>2, <2>1, <2>2, <2>3, <2>4, <2>5, OthersKeep
<1>6. ASSUME NEW r \in Run PROVE RunInv(r)'
  <2>1. RunInv(r)
    OBVIOUS
  <2>2. QED
    BY <1>2, <1>3, <2>1 DEF RunInv, Visited
<1>7. QED
  BY <1>4, <1>5, <1>6

(* Every step keeps the invariant. *)
LEMMA NextIInv == ASSUME IInv, [Next]_vars PROVE IInv'
<1>1. ASSUME NEW w \in Worker, Commit(w) PROVE IInv'
  BY <1>1, CommitStartKeeps, CommitWakeKeeps DEF Commit, IInv, TypeOK
<1>2. ASSUME NEW w \in Worker, WorkerStep(w) PROVE IInv'
  BY <1>1, <1>2, StartKeeps, WakeKeeps, WaitKeeps, PassKeeps, FailKeeps,
     ReadKeeps DEF WorkerStep
<1>3. CASE UNCHANGED vars
  BY <1>3 DEF vars, workerVars, IInv, TypeOK, WorkInv, IdleInv, StartInv,
     PathInv, WakeInv, RunInv, Visited
<1>4. QED
  BY <1>2, <1>3, ElapseKeeps, AbortKeeps DEF Next

(* The inductive invariant holds in every reachable state. *)
THEOREM Invariance == Spec => []IInv
<1>1. Init => IInv
  BY InitIInv
<1>2. IInv /\ [Next]_vars => IInv'
  BY NextIInv
<1>3. QED
  BY <1>1, <1>2, PTL DEF Spec

(* Type correctness. *)
THEOREM TypeCorrect == Spec => []TypeOK
<1>1. IInv => TypeOK
  BY DEF IInv
<1>2. QED
  BY <1>1, Invariance, PTL

-----------------------------------------------------------------------------
(* What stands before a wait. *)

(* A walk that has not stopped has come to its node past no wait; one that *)
(* waits has come to its wait and no further.                              *)
BeforeInv(w) ==
    pc[w] = "start" =>
       LET r == cur[w]
           status == txnRun[w][cur[w]].status
       IN  /\ status = "running" /\ at[w] # NoNode =>
                 /\ Reached(r, at[w], txnVisits[w])
                 /\ \A n \in Node : <<r, n>> \in txnVisits[w] =>
                       /\ Reached(r, n, txnVisits[w])
                       /\ TypeOf[n] # "wait"
                       /\ Target[n] = at[w] \/ <<r, Target[n]>> \in txnVisits[w]
                       /\ Sends(n) => sent[<<r, n>>] > 0
           /\ status = "waiting" => LeadsTo(r, txnRun[w][r].node, txnVisits[w])

(* A run that is woken stands where it stood. *)
SameNodeInv(w) ==
    pc[w] = "wake" => \A r \in Run :
       txnRun[w][r].status # "absent" => txnRun[w][r].node = run[r].node

ParkedInv(r) == run[r].status = "waiting" => LeadsTo(r, run[r].node, visits)

WaitInv ==
    /\ \A w \in Worker : BeforeInv(w) /\ SameNodeInv(w)
    /\ \A r \in Run : ParkedInv(r)

(* Any step: what was sent stays sent. *)
LEMMA SentStays ==
    ASSUME IInv, [Next]_vars
    PROVE  \A rn \in Run \X Node : sent[rn] > 0 => sent'[rn] > 0
<1>1. ASSUME NEW w \in Worker, NEW n \in Node, PassNode(w, n) \/ FailNode(w, n)
      PROVE  \A rn \in Run \X Node : sent[rn] > 0 => sent'[rn] > 0
  <2>1. cur[w] \in Run
    BY <1>1, WalkerStarts DEF PassNode, FailNode
  <2>2. TypeOK /\ (Deliver(w, n) \/ UNCHANGED sent)
    BY <1>1 DEF IInv, PassNode, FailNode
  <2>3. QED
    BY <2>1, <2>2, DeliverAdds
<1>2. QED
  BY <1>1 DEF Next, WorkerStep, StartRun, WakeRun, WaitAt, ReadDue, Commit, Abort, Elapse, vars

(* A worker that does nothing, while the rows of waiting runs stay. *)
LEMMA IdlerKeeps ==
    ASSUME IInv, NEW v \in Worker, BeforeInv(v), SameNodeInv(v),
           pc'[v] = pc[v], cur'[v] = cur[v], at'[v] = at[v],
           txnRun'[v] = txnRun[v], txnVisits'[v] = txnVisits[v],
           \A rn \in Run \X Node : sent[rn] > 0 => sent'[rn] > 0,
           \A r \in Run : run[r].status = "waiting" => run'[r].node = run[r].node
    PROVE  BeforeInv(v)' /\ SameNodeInv(v)'
<1>1. BeforeInv(v)'
  <2>1. CASE pc[v] = "start"
    <3>1. cur[v] \in Run
      BY <2>1 DEF IInv, WorkInv, StartInv
    <3> DEFINE r == cur[v]
               row == txnRun[v][r]
               done == txnVisits[v]
    <3>2. ASSUME row.status = "running", at[v] # NoNode
          PROVE  /\ Reached(r, at[v], done)
                 /\ \A n \in Node : <<r, n>> \in done =>
                       /\ Reached(r, n, done) /\ TypeOf[n] # "wait"
                       /\ Target[n] = at[v] \/ <<r, Target[n]>> \in done
                       /\ Sends(n) => sent'[<<r, n>>] > 0
      BY <2>1, <3>1, <3>2 DEF BeforeInv
    <3>3. ASSUME row.status = "waiting"
          PROVE  \A n \in Node : <<r, n>> \in done =>
                    /\ Reached(r, n, done)
                    /\ n # row.node => /\ <<r, Target[n]>> \in done
                                       /\ Sends(n) => sent'[<<r, n>>] > 0
      BY <2>1, <3>1, <3>3 DEF BeforeInv, LeadsTo
    <3>4. QED
      BY <2>1, <3>2, <3>3 DEF BeforeInv, Reached, LeadsTo
  <2>2. QED
    BY <2>1 DEF BeforeInv
<1>2. SameNodeInv(v)'
  <2>1. WakeInv(v)
    BY DEF IInv, WorkInv
  <2>2. pc[v] = "wake" => \A r \in Run :
           txnRun[v][r].status # "absent" => run[r].status = "waiting"
    BY <2>1 DEF WakeInv
  <2>3. QED
    BY <2>2 DEF SameNodeInv
<1>3. QED
  BY <1>1, <1>2

(* A waiting run keeps its node whatever is committed of it. *)
LEMMA WaitersStay ==
    ASSUME IInv, \A w \in Worker : SameNodeInv(w), [Next]_vars
    PROVE  \A r \in Run : run[r].status = "waiting" => run'[r].node = run[r].node
<1>1. ASSUME NEW w \in Worker, Commit(w), NEW r \in Run, run[r].status = "waiting"
      PROVE  run'[r].node = run[r].node
  <2>1. CASE pc[w] = "start"
    BY <1>1, <2>1, CommitStartWrites
  <2>2. CASE pc[w] = "wake"
    BY <1>1, <2>2 DEF Commit, SameNodeInv
  <2>3. QED
    BY <1>1, <2>1, <2>2 DEF Commit, IInv, TypeOK
<1>2. ASSUME NEW s \in Run, Elapse(s), NEW r \in Run, run[r].status = "waiting"
      PROVE  run'[r].node = run[r].node
  BY <1>2 DEF Elapse, IInv, TypeOK, Row
<1>3. QED
  BY <1>1, <1>2 DEF Next, WorkerStep, StartRun, WakeRun, WaitAt, PassNode, FailNode,
     ReadDue, Abort, CloseTxn, vars

(* A worker whose transaction is over. *)
LEMMA ClosedKeeps ==
    ASSUME IInv, NEW w \in Worker, CloseTxn(w)
    PROVE  BeforeInv(w)' /\ SameNodeInv(w)'
  BY DEF IInv, TypeOK, CloseTxn, BeforeInv, SameNodeInv

(* The worker that walks. *)
LEMMA WalkerKeeps ==
    ASSUME IInv, NEW w \in Worker, BeforeInv(w), SameNodeInv(w), WorkerStep(w)
    PROVE  BeforeInv(w)' /\ SameNodeInv(w)'
<1> USE GraphAssumption
<1>0. TypeOK /\ WorkInv(w)
  BY DEF IInv
<1>1. ASSUME NEW r \in Run, StartRun(w, r) PROVE BeforeInv(w)' /\ SameNodeInv(w)'
  <2>1. pc'[w] = "start" /\ cur'[w] = r /\ at'[w] = Trigger[r] /\ txnVisits'[w] = {}
    BY <1>0, <1>1 DEF StartRun, TypeOK, WorkInv, IdleInv
  <2>2. txnRun'[w][r].status = "running"
    BY <1>0, <1>1 DEF StartRun, TypeOK, NoRow
  <2>3. QED
    BY <2>1, <2>2 DEF BeforeInv, SameNodeInv, Reached
<1>2. ASSUME NEW r \in Run, WakeRun(w, r) PROVE BeforeInv(w)' /\ SameNodeInv(w)'
  <2>1. pc'[w] = "wake" /\ run' = run
        /\ \A q \in Run : /\ txnRun'[w][q].node = txnRun[w][q].node
                          /\ txnRun'[w][q].status = "absent" => txnRun[w][q].status = "absent"
                          /\ q # r => txnRun'[w][q] = txnRun[w][q]
    BY <1>0, <1>2 DEF WakeRun, TypeOK, Row
  <2>2. txnRun[w][r].status = "waiting"
    BY <1>0, <1>2 DEF WakeRun, WorkInv, WakeInv, TypeOK
  <2>3. QED
    BY <1>2, <2>1, <2>2 DEF WakeRun, BeforeInv, SameNodeInv
<1>3. ASSUME NEW n \in Node, WaitAt(w, n) PROVE BeforeInv(w)' /\ SameNodeInv(w)'
  <2> DEFINE row == [status |-> "waiting", node |-> n, due |-> FALSE]
  <2>1. /\ cur[w] \in Run /\ pc[w] \in {"start", "wake"}
        /\ txnRun[w][cur[w]].status = "running" /\ at[w] = n /\ at[w] # NoNode
    BY <1>3, WalkerStarts DEF WaitAt
  <2>2. /\ pc'[w] = pc[w] /\ cur'[w] = cur[w] /\ sent' = sent /\ run' = run
        /\ txnVisits'[w] = txnVisits[w] \cup {<<cur[w], n>>}
        /\ txnRun'[w][cur[w]].status = "waiting" /\ txnRun'[w][cur[w]].node = n
        /\ \A q \in Run \ {cur[w]} : txnRun'[w][q] = txnRun[w][q]
    BY <1>0, <1>3, <2>1 DEF WaitAt, Visit, TypeOK
  <2>3. CASE pc[w] = "start"
    <3> DEFINE done == txnVisits[w]
    <3>1. /\ Reached(cur[w], n, done)
          /\ \A m \in Node : <<cur[w], m>> \in done =>
                /\ Reached(cur[w], m, done) /\ TypeOf[m] # "wait"
                /\ Target[m] = n \/ <<cur[w], Target[m]>> \in done
                /\ Sends(m) => sent[<<cur[w], m>>] > 0
      BY <2>1, <2>3 DEF BeforeInv
    <3>2. LeadsTo(cur[w], n, done \cup {<<cur[w], n>>})
      BY <3>1 DEF LeadsTo, Reached
    <3>3. LeadsTo(cur[w], txnRun[w][cur[w]].node, txnVisits[w])'
      BY <2>2, <3>2 DEF LeadsTo, Reached
    <3>4. QED
      BY <2>2, <2>3, <3>3 DEF BeforeInv, SameNodeInv
  <2>4. CASE pc[w] = "wake"
    <3>1. n = run[cur[w]].node
      BY <1>0, <2>1, <2>4 DEF WorkInv, WakeInv, SameNodeInv
    <3>2. QED
      BY <2>2, <2>4, <3>1 DEF BeforeInv, SameNodeInv
  <2>5. QED
    BY <2>1, <2>3, <2>4
<1>4. ASSUME NEW n \in Node, PassNode(w, n) PROVE BeforeInv(w)' /\ SameNodeInv(w)'
  <2>1. /\ cur[w] \in Run /\ pc[w] = "start" /\ TypeOf[n] # "wait"
        /\ txnRun[w][cur[w]].status = "running" /\ at[w] = n /\ at[w] # NoNode
    BY <1>4, WalkerStarts DEF PassNode
  <2>2. /\ pc'[w] = "start" /\ cur'[w] = cur[w] /\ at'[w] = Target[n]
        /\ txnVisits'[w] = txnVisits[w] \cup {<<cur[w], n>>}
    BY <1>0, <1>4, <2>1 DEF PassNode, Visit, TypeOK
  <2>3. /\ \A rn \in Run \X Node : sent[rn] > 0 => sent'[rn] > 0
        /\ Sends(n) => sent'[<<cur[w], n>>] > 0
    BY <1>0, <1>4, <2>1, DeliverAdds DEF PassNode
  <2>4. txnRun'[w][cur[w]].status # "waiting"
    BY <1>0, <1>4, <2>1 DEF PassNode, TypeOK, Row
  <2>5. /\ Reached(cur[w], n, txnVisits[w])
        /\ \A m \in Node : <<cur[w], m>> \in txnVisits[w] =>
              /\ Reached(cur[w], m, txnVisits[w]) /\ TypeOf[m] # "wait"
              /\ Target[m] = n \/ <<cur[w], Target[m]>> \in txnVisits[w]
              /\ Sends(m) => sent[<<cur[w], m>>] > 0
    BY <2>1 DEF BeforeInv
  <2>6. Reached(cur[w], at[w], txnVisits[w])'
    BY <2>1, <2>2 DEF Reached
  <2>7. ASSUME NEW m \in Node, <<cur'[w], m>> \in txnVisits'[w]
        PROVE  /\ Reached(cur[w], m, txnVisits[w])'
               /\ TypeOf[m] # "wait"
               /\ Target[m] = at'[w] \/ <<cur'[w], Target[m]>> \in txnVisits'[w]
               /\ Sends(m) => sent'[<<cur'[w], m>>] > 0
    <3>1. CASE m = n
      BY <2>1, <2>2, <2>3, <2>5, <3>1 DEF Reached
    <3>2. CASE m # n
      <4>1. <<cur[w], m>> \in txnVisits[w]
        BY <2>2, <2>7, <3>2
      <4>2. QED
        BY <2>1, <2>2, <2>3, <2>5, <4>1 DEF Reached
    <3>3. QED
      BY <3>1, <3>2
  <2>8. QED
    BY <2>2, <2>4, <2>6, <2>7 DEF BeforeInv, SameNodeInv
<1>5. ASSUME NEW n \in Node, FailNode(w, n) PROVE BeforeInv(w)' /\ SameNodeInv(w)'
  <2>1. CASE pc[w] = "start"
    <3>1. cur[w] \in Run /\ pc'[w] = "start" /\ cur'[w] = cur[w]
          /\ txnRun'[w][cur[w]].status = "failed"
      BY <1>0, <1>5, <2>1, WalkerStarts DEF FailNode, TypeOK, Row
    <3>2. QED
      BY <3>1 DEF BeforeInv, SameNodeInv
  <2>2. CASE pc[w] # "start"
    BY <1>5, <2>2, ClosedKeeps DEF FailNode
  <2>3. QED
    BY <2>1, <2>2
<1>6. ASSUME ReadDue(w) PROVE BeforeInv(w)' /\ SameNodeInv(w)'
  <2>1. PICK batch \in SUBSET Due :
           txnRun' = [txnRun EXCEPT ![w] = [r \in Run |-> IF r \in batch THEN run[r] ELSE NoRow]]
    BY <1>6 DEF ReadDue
  <2>2. \A r \in Run : txnRun'[w][r] = IF r \in batch THEN run[r] ELSE NoRow
    BY <1>0, <2>1 DEF TypeOK
  <2>3. pc'[w] = "wake" /\ run' = run
    BY <1>0, <1>6 DEF ReadDue, TypeOK
  <2>4. QED
    BY <2>2, <2>3 DEF BeforeInv, SameNodeInv, NoRow
<1>7. ASSUME Commit(w) PROVE BeforeInv(w)' /\ SameNodeInv(w)'
  BY <1>7, ClosedKeeps DEF Commit
<1>8. QED
  BY <1>1, <1>2, <1>3, <1>4, <1>5, <1>6, <1>7 DEF WorkerStep

(* What the other workers hold and what they do not touch. *)
LEMMA OthersWalk ==
    ASSUME IInv, NEW w \in Worker, NEW v \in Worker, v # w, WorkerStep(w) \/ Abort(w)
    PROVE  /\ pc'[v] = pc[v] /\ cur'[v] = cur[v] /\ at'[v] = at[v]
           /\ txnRun'[v] = txnRun[v] /\ txnVisits'[v] = txnVisits[v]
<1>1. TypeOK
  BY DEF IInv
<1>2. QED
  BY <1>1 DEF TypeOK, WorkerStep, StartRun, WakeRun, WaitAt, PassNode, FailNode,
     ReadDue, Commit, Abort, CloseTxn, Visit

(* The committed runs that wait. *)
LEMMA ParkedStep ==
    ASSUME IInv, WaitInv, [Next]_vars, NEW r \in Run
    PROVE  ParkedInv(r)'
<1>1. \A rn \in Run \X Node : sent[rn] > 0 => sent'[rn] > 0
  BY SentStays
<1>2. ParkedInv(r)
  BY DEF WaitInv
<1>3. ASSUME NEW w \in Worker, Commit(w), pc[w] = "start" PROVE ParkedInv(r)'
  <2>1. CASE r = cur[w]
    <3>1. /\ run'[r] = txnRun[w][r]
          /\ \A n \in Node : <<r, n>> \in visits' <=> <<r, n>> \in txnVisits[w]
      BY <1>3, <2>1, CommitStartWrites
    <3>2. BeforeInv(w) /\ sent' = sent
      BY <1>3 DEF WaitInv, Commit
    <3>3. txnRun[w][r].status = "waiting" => LeadsTo(r, txnRun[w][r].node, txnVisits[w])
      BY <1>3, <2>1, <3>2 DEF BeforeInv
    <3>4. ASSUME NEW n \in Node, txnRun[w][r].status = "waiting", n # txnRun[w][r].node,
                 <<r, n>> \in txnVisits[w]
          PROVE  <<r, Target[n]>> \in visits'
      BY <1>3, <3>3, <3>4 DEF LeadsTo, Commit
    <3>5. QED
      BY <3>1, <3>2, <3>3, <3>4 DEF ParkedInv, LeadsTo, Reached
  <2>2. CASE r # cur[w]
    <3>1. run'[r] = run[r] /\ visits \subseteq visits' /\ sent' = sent
          /\ \A n \in Node : <<r, n>> \in visits' <=> <<r, n>> \in visits
      BY <1>3, <2>2, CommitStartWrites DEF Commit
    <3>2. QED
      BY <1>2, <3>1 DEF ParkedInv, LeadsTo, Reached
  <2>3. QED
    BY <2>1, <2>2
<1>4. ASSUME NEW w \in Worker, Commit(w), pc[w] = "wake" PROVE ParkedInv(r)'
  <2>1. WakeInv(w) /\ SameNodeInv(w)
    BY DEF IInv, WorkInv, WaitInv
  <2>2. visits' = visits /\ sent' = sent
    BY <1>4, <2>1 DEF Commit, WakeInv
  <2>3. run'[r].status = "waiting" => run[r].status = "waiting" /\ run'[r].node = run[r].node
    BY <1>4, <2>1 DEF Commit, WakeInv, SameNodeInv
  <2>4. QED
    BY <1>2, <2>2, <2>3 DEF ParkedInv, LeadsTo, Reached
<1>5. ASSUME NEW s \in Run, Elapse(s) PROVE ParkedInv(r)'
  <2>1. run'[r].status = run[r].status /\ run'[r].node = run[r].node
    BY <1>5 DEF Elapse, IInv, TypeOK, Row
  <2>2. visits' = visits /\ sent' = sent
    BY <1>5 DEF Elapse
  <2>3. QED
    BY <1>2, <2>1, <2>2 DEF ParkedInv, LeadsTo, Reached
<1>6. ASSUME run' = run, visits' = visits PROVE ParkedInv(r)'
  BY <1>1, <1>2, <1>6 DEF ParkedInv, LeadsTo, Reached
<1>7. ASSUME NEW w \in Worker, Commit(w) PROVE ParkedInv(r)'
  BY <1>3, <1>4, <1>7 DEF Commit, IInv, TypeOK
<1>8. QED
  BY <1>5, <1>6, <1>7 DEF Next, WorkerStep, StartRun, WakeRun, WaitAt, PassNode, FailNode,
     ReadDue, Abort, vars

(* The strengthened invariant of the waits. *)
THEOREM WaitInvariance == Spec => [](IInv /\ WaitInv)
<1>1. Init => IInv /\ WaitInv
  <2>1. Init => IInv
    BY InitIInv
  <2>2. Init => WaitInv
    BY DEF Init, NoRows, NoRow, WaitInv, BeforeInv, SameNodeInv, ParkedInv
  <2>3. QED
    BY <2>1, <2>2
<1>2. ASSUME IInv, WaitInv, [Next]_vars PROVE IInv' /\ WaitInv'
  <2>1. \A rn \in Run \X Node : sent[rn] > 0 => sent'[rn] > 0
    BY <1>2, SentStays
  <2>2. \A r \in Run : run[r].status = "waiting" => run'[r].node = run[r].node
    BY <1>2, WaitersStay DEF WaitInv
  <2>3. ASSUME NEW v \in Worker PROVE BeforeInv(v)' /\ SameNodeInv(v)'
    <3>0. BeforeInv(v) /\ SameNodeInv(v)
      BY <1>2 DEF WaitInv
    <3>1. ASSUME NEW w \in Worker, w # v, WorkerStep(w) \/ Abort(w)
          PROVE  BeforeInv(v)' /\ SameNodeInv(v)'
      <4>1. /\ pc'[v] = pc[v] /\ cur'[v] = cur[v] /\ at'[v] = at[v]
            /\ txnRun'[v] = txnRun[v] /\ txnVisits'[v] = txnVisits[v]
        BY <1>2, <3>1, OthersWalk
      <4>2. QED
        BY <1>2, <2>1, <2>2, <3>0, <4>1, IdlerKeeps
    <3>2. CASE WorkerStep(v)
      BY <1>2, <3>0, <3>2, WalkerKeeps
    <3>3. CASE Abort(v)
      BY <1>2, <3>3, ClosedKeeps DEF Abort
    <3>4. CASE (\E r \in Run : Elapse(r)) \/ UNCHANGED vars
      <4>1. UNCHANGED workerVars
        BY <3>4 DEF Elapse, vars
      <4>2. QED
        BY <1>2, <2>1, <2>2, <3>0, <4>1, IdlerKeeps DEF workerVars
    <3>5. QED
      BY <1>2, <3>1, <3>2, <3>3, <3>4 DEF Next
  <2>4. \A r \in Run : ParkedInv(r)'
    BY <1>2, ParkedStep
  <2>5. QED
    BY <1>2, <2>3, <2>4, NextIInv DEF WaitInv
<1>3. QED
  BY <1>1, <1>2, PTL DEF Spec

(* No committed run is half way: one that waits has all that stands before *)
(* its wait behind it and nothing else, whoever woke it (engine.py:98-108, *)
(* 161-177).                                                               *)
THEOREM RunsAtRest == Spec => []CommittedAtRest
<1>1. IInv /\ WaitInv => CommittedAtRest
  BY DEF IInv, RunInv, WaitInv, ParkedInv, CommittedAtRest
<1>2. QED
  BY <1>1, WaitInvariance, PTL

(* A completed run did what its graph says, in any graph, with cycles too  *)
(* (engine.py:83-158).                                                     *)
THEOREM CompletedWhole == Spec => []CompletedRanItsPath
<1>1. IInv => CompletedRanItsPath
  BY DEF IInv, RunInv, CompletedRanItsPath
<1>2. QED
  BY <1>1, Invariance, PTL

-----------------------------------------------------------------------------
(* What is sent in graphs without cycles: rank grows along the edges. *)
Ranked(rank) ==
    /\ rank \in [Node -> Nat]
    /\ \A n \in Node : Target[n] # NoNode => rank[n] < rank[Target[n]]

One(b) == IF b THEN 1 ELSE 0

(* A walk that starts a run has everything it visited behind it, and what  *)
(* it sent is in its visits or was sent by an iteration that was undone.   *)
WalkInv(rank, w) ==
    pc[w] = "start" =>
       \A n \in Node :
          /\ <<cur[w], n>> \in txnVisits[w] /\ at[w] # NoNode => rank[n] < rank[at[w]]
          /\ sent[<<cur[w], n>>] <= aborts + One(<<cur[w], n>> \in txnVisits[w])

Starting(r) == \E w \in Worker : pc[w] = "start" /\ cur[w] = r

(* A run that nobody is starting sent no more than its visits explain. *)
RestInv(r) ==
    ~Starting(r) => \A n \in Node : sent[<<r, n>>] <= aborts + One(Visited(r, n))

SentInv(rank) ==
    /\ \A w \in Worker : WalkInv(rank, w)
    /\ \A r \in Run : RestInv(r)

(* A step that sends nothing, and starts, ends and moves no walk. *)
LEMMA SentKept ==
    ASSUME NEW rank, Ranked(rank), IInv, SentInv(rank),
           sent' = sent, aborts' \in Nat, aborts' >= aborts, visits \subseteq visits',
           \A v \in Worker : pc'[v] = "start" =>
              /\ pc[v] = "start" /\ cur'[v] = cur[v] /\ txnVisits'[v] = txnVisits[v]
              /\ at'[v] \in {at[v], NoNode},
           \A r \in Run : Starting(r) /\ ~Starting(r)' =>
              \A n \in Node : sent[<<r, n>>] <= aborts' + One(Visited(r, n)')
    PROVE  SentInv(rank)'
<1>1. /\ aborts \in Nat
      /\ \A r \in Run, n \in Node : sent[<<r, n>>] \in Nat
      /\ \A v \in Worker : pc[v] = "start" => cur[v] \in Run
  BY DEF IInv, TypeOK, WorkInv, StartInv
<1>2. ASSUME NEW v \in Worker, pc'[v] = "start", NEW n \in Node
      PROVE  /\ <<cur'[v], n>> \in txnVisits'[v] /\ at'[v] # NoNode => rank[n] < rank[at'[v]]
             /\ sent'[<<cur'[v], n>>] <= aborts' + One(<<cur'[v], n>> \in txnVisits'[v])
  <2>1. /\ pc[v] = "start" /\ cur'[v] = cur[v] /\ txnVisits'[v] = txnVisits[v]
        /\ at'[v] \in {at[v], NoNode} /\ cur[v] \in Run
    BY <1>1, <1>2
  <2>2. /\ <<cur[v], n>> \in txnVisits[v] /\ at[v] # NoNode => rank[n] < rank[at[v]]
        /\ sent[<<cur[v], n>>] <= aborts + One(<<cur[v], n>> \in txnVisits[v])
    BY <2>1 DEF SentInv, WalkInv
  <2>3. sent[<<cur[v], n>>] \in Nat
    BY <1>1, <2>1
  <2>4. QED
    BY <1>1, <2>1, <2>2, <2>3 DEF One
<1>3. ASSUME NEW r \in Run, ~Starting(r)', NEW n \in Node
      PROVE  sent'[<<r, n>>] <= aborts' + One(Visited(r, n)')
  <2>1. CASE Starting(r)
    BY <1>3, <2>1
  <2>2. CASE ~Starting(r)
    <3>1. sent[<<r, n>>] <= aborts + One(Visited(r, n))
      BY <2>2 DEF SentInv, RestInv
    <3>2. Visited(r, n) => Visited(r, n)'
      BY DEF Visited
    <3>3. sent[<<r, n>>] \in Nat
      BY <1>1
    <3>4. QED
      BY <1>1, <3>1, <3>2, <3>3 DEF One
  <2>3. QED
    BY <2>1, <2>2
<1>4. QED
  BY <1>2, <1>3 DEF SentInv, WalkInv, RestInv

(* A walk that starts a run leaves a node: it has not been there before,   *)
(* so that what it sends there is the first message of this walk.          *)
LEMMA SentMoved ==
    ASSUME NEW rank, Ranked(rank), IInv, SentInv(rank), NEW w \in Worker, NEW m \in Node,
           pc[w] = "start", at[w] = m, at'[w] \in {NoNode, Target[m]},
           UNCHANGED <<pc, cur, visits, aborts>>, Visit(w, m),
           UNCHANGED sent \/ Deliver(w, m),
           \A v \in Worker \ {w} : at'[v] = at[v]
    PROVE  SentInv(rank)'
<1>1. /\ aborts \in Nat /\ cur[w] \in Run /\ m # NoNode
      /\ \A v \in Worker : pc[v] = "start" => cur[v] \in Run
      /\ \A v \in Worker \ {w} : pc[v] = "start" => cur[v] # cur[w]
  BY GraphAssumption DEF IInv, TypeOK, WorkInv, StartInv
<1>2. /\ txnVisits'[w] = txnVisits[w] \cup {<<cur[w], m>>}
      /\ \A v \in Worker \ {w} : txnVisits'[v] = txnVisits[v]
  BY DEF IInv, TypeOK, Visit
<1>3. /\ \A r \in Run, n \in Node : sent[<<r, n>>] \in Nat
      /\ \A r \in Run, n \in Node :
            r # cur[w] \/ n # m => sent'[<<r, n>>] = sent[<<r, n>>]
      /\ sent'[<<cur[w], m>>] \in Nat
      /\ sent'[<<cur[w], m>>] <= sent[<<cur[w], m>>] + 1
  BY <1>1 DEF IInv, TypeOK, Deliver
<1>4. \A n \in Node :
         /\ <<cur[w], n>> \in txnVisits[w] => rank[n] < rank[m]
         /\ sent[<<cur[w], n>>] <= aborts + One(<<cur[w], n>> \in txnVisits[w])
  BY <1>1 DEF SentInv, WalkInv
<1>5. WalkInv(rank, w)'
  <2>1. ASSUME NEW n \in Node, <<cur[w], n>> \in txnVisits'[w], at'[w] # NoNode
        PROVE  rank[n] < rank[at'[w]]
    <3>1. at'[w] = Target[m] /\ Target[m] \in Node
      BY <2>1, GraphAssumption
    <3>2. rank[m] < rank[Target[m]] /\ rank[m] \in Nat /\ rank[n] \in Nat
          /\ rank[Target[m]] \in Nat
      BY <2>1, <3>1 DEF Ranked
    <3>3. n = m \/ rank[n] < rank[m]
      BY <1>2, <1>4, <2>1
    <3>4. QED
      BY <3>1, <3>2, <3>3
  <2>2. ASSUME NEW n \in Node
        PROVE  sent'[<<cur[w], n>>] <= aborts + One(<<cur[w], n>> \in txnVisits'[w])
    <3>1. CASE n = m
      <4>1. <<cur[w], m>> \notin txnVisits[w]
        BY <1>4 DEF Ranked
      <4>2. sent[<<cur[w], m>>] <= aborts
        BY <1>1, <1>4, <4>1 DEF One
      <4>3. sent'[<<cur[w], m>>] <= aborts + 1
        BY <1>1, <1>3, <4>2
      <4>4. One(<<cur[w], m>> \in txnVisits'[w]) = 1
        BY <1>2 DEF One
      <4>5. QED
        BY <3>1, <4>3, <4>4
    <3>2. CASE n # m
      <4>1. <<cur[w], n>> \in txnVisits'[w] <=> <<cur[w], n>> \in txnVisits[w]
        BY <1>2, <3>2
      <4>2. QED
        BY <1>1, <1>3, <1>4, <3>2, <4>1 DEF One
    <3>3. QED
      BY <3>1, <3>2
  <2>3. QED
    BY <2>1, <2>2 DEF WalkInv
<1>6. ASSUME NEW v \in Worker \ {w} PROVE WalkInv(rank, v)'
  BY <1>1, <1>2, <1>3, <1>6 DEF SentInv, WalkInv
<1>7. ASSUME NEW r \in Run PROVE RestInv(r)'
  <2>1. CASE r = cur[w]
    BY <2>1 DEF RestInv, Starting
  <2>2. CASE r # cur[w]
    <3>1. RestInv(r)
      BY DEF SentInv
    <3>2. \A n \in Node : sent'[<<r, n>>] = sent[<<r, n>>]
      BY <1>3, <2>2
    <3>3. QED
      BY <3>1, <3>2 DEF RestInv, Starting, Visited
  <2>3. QED
    BY <2>1, <2>2
<1>8. QED
  BY <1>5, <1>6, <1>7 DEF SentInv

LEMMA SentStart ==
    ASSUME NEW rank, Ranked(rank), IInv, SentInv(rank), NEW w \in Worker, NEW s \in Run,
           StartRun(w, s)
    PROVE  SentInv(rank)'
<1>1. /\ pc[w] = "idle" /\ run[s].status = "absent" /\ sent' = sent
      /\ visits' = visits /\ txnVisits' = txnVisits /\ aborts' = aborts
      /\ pc'[w] = "start" /\ cur'[w] = s /\ txnVisits[w] = {}
      /\ \A v \in Worker : cur[v] # s
      /\ \A v \in Worker \ {w} : pc'[v] = pc[v] /\ cur'[v] = cur[v] /\ at'[v] = at[v]
  BY DEF IInv, TypeOK, WorkInv, IdleInv, StartRun
<1>2. \A n \in Node : ~Visited(s, n)
  BY <1>1 DEF IInv, RunInv
<1>3. WalkInv(rank, w)'
  <2>1. ~Starting(s)
    BY <1>1 DEF Starting
  <2>2. \A n \in Node : sent[<<s, n>>] <= aborts + One(Visited(s, n))
    BY <2>1 DEF SentInv, RestInv
  <2>3. QED
    BY <1>1, <1>2, <2>2 DEF WalkInv, One
<1>4. ASSUME NEW v \in Worker \ {w} PROVE WalkInv(rank, v)'
  BY <1>1, <1>4 DEF SentInv, WalkInv
<1>5. ASSUME NEW r \in Run PROVE RestInv(r)'
  <2>1. Starting(r) => Starting(r)'
    BY <1>1 DEF Starting
  <2>2. RestInv(r)
    BY DEF SentInv
  <2>3. QED
    BY <1>1, <2>1, <2>2 DEF RestInv, Visited
<1>6. QED
  BY <1>3, <1>4, <1>5 DEF SentInv

LEMMA SentCommit ==
    ASSUME NEW rank, Ranked(rank), IInv, SentInv(rank), NEW w \in Worker, Commit(w)
    PROVE  SentInv(rank)'
<1>1. /\ sent' = sent /\ aborts' = aborts /\ aborts \in Nat
      /\ visits' = visits \cup txnVisits[w] /\ pc'[w] = "idle"
      /\ \A v \in Worker \ {w} : /\ pc'[v] = pc[v] /\ cur'[v] = cur[v] /\ at'[v] = at[v]
                                /\ txnVisits'[v] = txnVisits[v]
  BY DEF IInv, TypeOK, Commit, CloseTxn
<1>2. ASSUME NEW r \in Run, Starting(r), ~Starting(r)', NEW n \in Node
      PROVE  sent[<<r, n>>] <= aborts' + One(Visited(r, n)')
  <2>1. pc[w] = "start" /\ cur[w] = r
    BY <1>1, <1>2 DEF Starting
  <2>2. sent[<<r, n>>] <= aborts + One(<<r, n>> \in txnVisits[w])
    BY <2>1 DEF SentInv, WalkInv
  <2>3. <<r, n>> \in txnVisits[w] => Visited(r, n)'
    BY <1>1 DEF Visited
  <2>4. sent[<<r, n>>] \in Nat
    BY DEF IInv, TypeOK
  <2>5. QED
    BY <1>1, <2>2, <2>3, <2>4 DEF One
<1>3. \A v \in Worker : pc'[v] = "start" =>
         /\ pc[v] = "start" /\ cur'[v] = cur[v] /\ txnVisits'[v] = txnVisits[v]
         /\ at'[v] \in {at[v], NoNode}
  BY <1>1
<1>4. QED
  BY <1>1, <1>2, <1>3, SentKept

LEMMA SentAbort ==
    ASSUME NEW rank, Ranked(rank), IInv, SentInv(rank), NEW w \in Worker, Abort(w)
    PROVE  SentInv(rank)'
<1>1. /\ sent' = sent /\ aborts' = aborts + 1 /\ aborts \in Nat /\ visits' = visits
      /\ pc'[w] = "idle"
      /\ \A v \in Worker \ {w} : /\ pc'[v] = pc[v] /\ cur'[v] = cur[v] /\ at'[v] = at[v]
                                /\ txnVisits'[v] = txnVisits[v]
  BY DEF IInv, TypeOK, Abort, CloseTxn
<1>2. ASSUME NEW r \in Run, Starting(r), ~Starting(r)', NEW n \in Node
      PROVE  sent[<<r, n>>] <= aborts' + One(Visited(r, n)')
  <2>1. pc[w] = "start" /\ cur[w] = r
    BY <1>1, <1>2 DEF Starting
  <2>2. sent[<<r, n>>] <= aborts + One(<<r, n>> \in txnVisits[w])
    BY <2>1 DEF SentInv, WalkInv
  <2>3. sent[<<r, n>>] \in Nat
    BY DEF IInv, TypeOK
  <2>4. QED
    BY <1>1, <2>2, <2>3 DEF One
<1>3. \A v \in Worker : pc'[v] = "start" =>
         /\ pc[v] = "start" /\ cur'[v] = cur[v] /\ txnVisits'[v] = txnVisits[v]
         /\ at'[v] \in {at[v], NoNode}
  BY <1>1
<1>4. QED
  BY <1>1, <1>2, <1>3, SentKept

(* Steps of waking, and of time: no walk that starts a run moves. *)
LEMMA SentIdle ==
    ASSUME NEW rank, Ranked(rank), IInv, SentInv(rank),
           sent' = sent, aborts' = aborts, visits' = visits,
           \A v \in Worker : \/ /\ pc[v] # "start" /\ pc'[v] # "start"
                              \/ /\ pc'[v] = pc[v] /\ cur'[v] = cur[v]
                                 /\ at'[v] = at[v] /\ txnVisits'[v] = txnVisits[v]
    PROVE  SentInv(rank)'
<1>1. \A r \in Run : Starting(r) => Starting(r)'
  BY DEF Starting
<1>2. aborts \in Nat
  BY DEF IInv, TypeOK
<1>3. QED
  BY <1>1, <1>2, SentKept

LEMMA SentNext ==
    ASSUME NEW rank, Ranked(rank), IInv, SentInv(rank), [Next]_vars
    PROVE  SentInv(rank)'
<1>1. ASSUME NEW r \in Run, Elapse(r) PROVE SentInv(rank)'
  BY <1>1, SentIdle DEF Elapse, workerVars
<1>2. ASSUME NEW w \in Worker, NEW r \in Run, WakeRun(w, r) PROVE SentInv(rank)'
  BY <1>2, SentIdle DEF WakeRun, IInv, TypeOK
<1>3. ASSUME NEW w \in Worker, NEW m \in Node, WaitAt(w, m) PROVE SentInv(rank)'
  <2>1. CASE pc[w] = "start"
    BY <1>3, <2>1, SentMoved DEF WaitAt, IInv, TypeOK
  <2>2. CASE pc[w] # "start"
    BY <1>3, <2>2, SentIdle DEF WaitAt, Visit, IInv, TypeOK
  <2>3. QED
    BY <2>1, <2>2
<1>4. ASSUME NEW w \in Worker, NEW m \in Node, PassNode(w, m) PROVE SentInv(rank)'
  <2>1. pc[w] = "start"
    BY <1>4, WalkerStarts DEF PassNode
  <2>2. QED
    BY <1>4, <2>1, SentMoved DEF PassNode, IInv, TypeOK
<1>5. ASSUME NEW w \in Worker, NEW m \in Node, FailNode(w, m) PROVE SentInv(rank)'
  <2>1. pc[w] = "start"
    BY <1>5, WalkerStarts DEF FailNode, CanFail, Sends
  <2>2. QED
    BY <1>5, <2>1, SentMoved DEF FailNode, IInv, TypeOK
<1>6. ASSUME NEW w \in Worker, ReadDue(w) PROVE SentInv(rank)'
  BY <1>6, SentIdle DEF ReadDue, IInv, TypeOK
<1>7. CASE UNCHANGED vars
  BY <1>7, SentIdle DEF vars, workerVars
<1>8. QED
  BY <1>1, <1>2, <1>3, <1>4, <1>5, <1>6, <1>7, SentStart, SentCommit, SentAbort
     DEF Next, WorkerStep

(* In any graphs whose edges grow in some rank, that is, without cycles, a *)
(* message goes out once, and once more at most for each iteration that    *)
(* was undone (engine.py:83-177, runner.py:250-262).                       *)
THEOREM SentOnce ==
    ASSUME NEW rank, Ranked(rank)
    PROVE  Spec => []SendsExplained
<1>1. Init => SentInv(rank)
  BY DEF Init, SentInv, WalkInv, RestInv, One
<1>2. IInv /\ SentInv(rank) /\ [Next]_vars => SentInv(rank)'
  BY SentNext
<1>3. IInv /\ SentInv(rank) => SendsExplained
  <2> SUFFICES ASSUME IInv, SentInv(rank), NEW r \in Run, NEW n \in Node
               PROVE  sent[<<r, n>>]
                         <= aborts + (IF Visited(r, n) \/ Busy(r) THEN 1 ELSE 0)
    BY DEF SendsExplained
  <2>1. aborts \in Nat /\ sent[<<r, n>>] \in Nat
    BY DEF IInv, TypeOK
  <2>2. CASE Starting(r)
    <3>1. PICK w \in Worker : pc[w] = "start" /\ cur[w] = r
      BY <2>2 DEF Starting
    <3>2. sent[<<r, n>>] <= aborts + One(<<r, n>> \in txnVisits[w]) /\ Busy(r)
      BY <3>1 DEF SentInv, WalkInv, Busy
    <3>3. QED
      BY <2>1, <3>2 DEF One
  <2>3. CASE ~Starting(r)
    <3>1. sent[<<r, n>>] <= aborts + One(Visited(r, n))
      BY <2>3 DEF SentInv, RestInv
    <3>2. QED
      BY <2>1, <3>1 DEF One
  <2>4. QED
    BY <2>2, <2>3
<1>4. QED
  BY <1>1, <1>2, <1>3, Invariance, PTL DEF Spec
=============================================================================
