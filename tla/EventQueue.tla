----------------------------- MODULE EventQueue -----------------------------
(***************************************************************************)
(* What the outbox promises, without transactions, locks or workers.       *)
(* A published event is pending until some pass settles it.  Passes may    *)
(* settle several events at once.  A pass that succeeds leaves the event   *)
(* processed, with all the effects one of its handlers owes applied in the *)
(* very same step; a pass that fails costs one attempt, and one attempt    *)
(* beyond RetryLimit the event is dead.                                    *)
(***************************************************************************)
EXTENDS Naturals

CONSTANTS
    Key,         \* the events, by idempotency key
    Effect,      \* the database effects an event may have
    RetryLimit,  \* failed passes after which the next failure is final
    Duty         \* Duty[k]: for each handler of k, the effects it owes k

VARIABLES
    status,      \* Key -> "absent", "pending", "processed" or "dead"
    attempts,    \* Key -> number of failed passes
    applied      \* Key -> effects applied so far

queueVars == <<status, attempts, applied>>

Status == {"absent", "pending", "processed", "dead"}

QueueTypeOK ==
    /\ status \in [Key -> Status]
    /\ attempts \in [Key -> Nat]
    /\ applied \in [Key -> SUBSET Effect]

QueueInit ==
    /\ status = [k \in Key |-> "absent"]
    /\ attempts = [k \in Key |-> 0]
    /\ applied = [k \in Key |-> {}]

Publish(k) ==
    /\ status[k] = "absent"
    /\ status' = [status EXCEPT ![k] = "pending"]
    /\ UNCHANGED <<attempts, applied>>

Succeeds(k) ==
    /\ status'[k] = "processed"
    /\ attempts'[k] = attempts[k]
    /\ \E owed \in Duty[k] : owed \subseteq applied'[k]

Fails(k) ==
    /\ attempts'[k] = attempts[k] + 1
    /\ status'[k] = IF attempts[k] >= RetryLimit THEN "dead" ELSE "pending"

Settle(batch) ==
    /\ \A k \in batch :
          /\ status[k] = "pending"
          /\ applied[k] \subseteq applied'[k]
          /\ Succeeds(k) \/ Fails(k)
    /\ \A k \in Key \ batch :
          /\ status'[k] = status[k]
          /\ attempts'[k] = attempts[k]
          /\ applied'[k] = applied[k]
    /\ QueueTypeOK'

QueueNext ==
    \/ \E k \in Key : Publish(k)
    \/ \E batch \in SUBSET Key : Settle(batch)

QueueSpec == QueueInit /\ [][QueueNext]_queueVars
=============================================================================
