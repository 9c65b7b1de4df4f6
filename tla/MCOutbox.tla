------------------------------ MODULE MCOutbox ------------------------------
(***************************************************************************)
(* Instances of Outbox for TLC: the call.ended event of a report (r1), and *)
(* an event that a mutation (r2) and a request without one (r3) race for,  *)
(* like the service events of a deal and of a contact with one event_id.   *)
(* One workflow listens to everything, one destination to "service.*".     *)
(***************************************************************************)
EXTENDS OutboxInv, TLC

CONSTANTS r1, r2, r3, ended, serviced, audit_all, crm, w1, w2

MCKeyOf == [r \in Request |-> IF r = r1 THEN ended ELSE serviced]
MCTypeOf == ended :> <<"call", "ended">> @@ serviced :> <<"service", "completed">>
MCFilterOf ==
    audit_all :> {} @@ crm :> {[stem |-> <<"service">>, star |-> TRUE]}

AllQueues == {"workflow", "delayed", "lifecycle", "communication", "maintenance"}

(* w2 leaves maintenance to w1 and shares everything else with it.         *)
NoMaintenance == w1 :> AllQueues @@ w2 :> AllQueues \ {"maintenance"}
=============================================================================
