---------------------------- MODULE RollupProofs ----------------------------
(***************************************************************************)
(* Proofs about the daily rollup, for any number of workers, events and    *)
(* days.                                                                   *)
(***************************************************************************)
EXTENDS Rollup, FiniteSetTheorems, TLAPS

(* A transaction that has inserted the row of its day, and is still open. *)
Inserted(w) == pc[w] \in {"count", "commit"}

(* No row of a day is committed while somebody has inserted one, and only  *)
(* one worker has.                                                         *)
OneInserter ==
    \A v, w \in Worker : Inserted(v) =>
       /\ rollup[day[v]].status = "absent"
       /\ Inserted(w) /\ day[w] = day[v] => v = w

IInv == TypeOK /\ OneInserter

-----------------------------------------------------------------------------
(* What a worker has counted is a number that a metric may hold. *)
LEMMA CountFits ==
    ASSUME NEW S \in SUBSET Event
    PROVE  /\ Cardinality(S) \in Nat
           /\ Cardinality(S) \in 0..NoMetric
           /\ NoMetric \in 0..NoMetric
<1>1. IsFiniteSet(Event) /\ IsFiniteSet(S)
  BY BoundsAssumption, FS_Subset
<1>2. Cardinality(Event) \in Nat /\ Cardinality(S) \in Nat
  BY <1>1, FS_CardinalityType
<1>3. Cardinality(S) <= Cardinality(Event)
  BY <1>1, FS_Subset
<1>4. QED
  BY <1>2, <1>3 DEF NoMetric

(* The types hold in the initial states, and every step keeps them. *)
LEMMA InitType == ASSUME Init PROVE TypeOK
<1>1. NoMetric \in 0..NoMetric
  BY CountFits
<1>2. 0 \in Day
  BY BoundsAssumption DEF Day
<1>3. QED
  BY <1>1, <1>2, BoundsAssumption DEF Init, TypeOK, NoRollup

LEMMA NextType == ASSUME TypeOK, [Next]_vars PROVE TypeOK'
<1> USE BoundsAssumption DEF TypeOK, txnVars
<1>1. CASE Midnight
  BY <1>1 DEF Midnight, Day
<1>2. ASSUME NEW e \in Event, Record(e) \/ CommitEvent(e)
      PROVE  TypeOK'
  BY <1>2 DEF Record, CommitEvent, Day
<1>3. ASSUME NEW w \in Worker, WorkerStep(w) \/ Abort(w)
      PROVE  TypeOK'
  <2>1. CASE Begin(w) \/ Insert(w) \/ InsertClash(w)
    BY <2>1 DEF Begin, Insert, InsertClash, EndTxn
  <2>2. CASE Count(w)
    BY <2>2 DEF Count, EventsOf
  <2>3. CASE Commit(w)
    <3>1. /\ Cardinality(counted[w]) \in Nat
          /\ Cardinality(counted[w]) \in 0..NoMetric
      BY CountFits
    <3>2. QED
      BY <2>3, <3>1 DEF Commit, EndTxn
  <2>4. CASE Abort(w)
    BY <2>4 DEF Abort, EndTxn
  <2>5. QED
    BY <1>3, <2>1, <2>2, <2>3, <2>4 DEF WorkerStep
<1>4. CASE UNCHANGED vars
  BY <1>4 DEF vars
<1>5. QED
  BY <1>1, <1>2, <1>3, <1>4 DEF Next

-----------------------------------------------------------------------------
(* The primary key of the row and the wait for an open transaction that    *)
(* holds it (Blocked) keep inserters of one day apart.                     *)
LEMMA NextOneInserter ==
    ASSUME TypeOK, OneInserter, [Next]_vars
    PROVE  OneInserter'
<1> USE DEF TypeOK, OneInserter, Inserted
<1>1. CASE Midnight \/ UNCHANGED vars \/ \E e \in Event : Record(e) \/ CommitEvent(e)
  BY <1>1 DEF Midnight, vars, txnVars, Record, CommitEvent
<1>2. ASSUME NEW w \in Worker, WorkerStep(w) \/ Abort(w)
      PROVE  OneInserter'
  <2>1. CASE Begin(w)
    BY <2>1 DEF Begin
  <2>2. CASE Insert(w)
    BY <2>2 DEF Insert, Blocked
  <2>3. CASE InsertClash(w) \/ Abort(w)
    BY <2>3 DEF InsertClash, Abort, EndTxn
  <2>4. CASE Count(w)
    BY <2>4 DEF Count
  <2>5. CASE Commit(w)
    BY <2>5 DEF Commit, EndTxn
  <2>6. QED
    BY <1>2, <2>1, <2>2, <2>3, <2>4, <2>5 DEF WorkerStep
<1>3. QED
  BY <1>1, <1>2 DEF Next

(* The inductive invariant holds in every reachable state. *)
THEOREM Invariance == Spec => []IInv
<1>1. Init => IInv
  <2>1. Init => OneInserter
    BY DEF Init, OneInserter, Inserted
  <2>2. QED
    BY <2>1, InitType DEF IInv
<1>2. IInv /\ [Next]_vars => IInv'
  BY NextType, NextOneInserter DEF IInv
<1>3. QED
  BY <1>1, <1>2, PTL DEF Spec

(* Type correctness: a committed row of a day is completed, never running. *)
THEOREM TypeCorrect == Spec => []TypeOK
<1>1. IInv => TypeOK
  BY DEF IInv
<1>2. QED
  BY <1>1, Invariance, PTL

(* The figures of a day, once committed, are never written again, however  *)
(* many workers race for the day and whatever fails (runner.py:143-156).   *)
THEOREM FiguresFinal == Spec => FiguresAreFinal
<1>1. ASSUME IInv, [Next]_vars PROVE [FiguresStay]_vars
  <2>1. SUFFICES ASSUME NEW d \in Day, rollup[d].status = "completed"
                 PROVE  rollup'[d] = rollup[d] /\ metric'[d] = metric[d]
    BY DEF FiguresStay
  <2> USE DEF IInv, TypeOK
  <2>2. ASSUME NEW w \in Worker, Commit(w)
        PROVE  rollup'[d] = rollup[d] /\ metric'[d] = metric[d]
    <3>1. day[w] # d
      BY <1>1, <2>1, <2>2 DEF Commit, OneInserter, Inserted
    <3>2. QED
      BY <1>1, <2>2, <3>1 DEF Commit
  <2>3. CASE ~\E w \in Worker : Commit(w)
    BY <1>1, <2>3 DEF Next, WorkerStep, Midnight, Record, CommitEvent, Begin,
       Insert, InsertClash, Count, Abort, vars
  <2>4. QED
    BY <2>2, <2>3
<1>2. QED
  BY <1>1, Invariance, PTL DEF Spec, FiguresAreFinal
=============================================================================
