------------------------------- MODULE MCDeals -------------------------------
(***************************************************************************)
(* Instances of Deals: two or three submissions under each policy with     *)
(* requests on the same deals, three requests for the teams, and service   *)
(* events with and without an event_id.                                    *)
(***************************************************************************)
EXTENDS Deals, TLC

CONSTANTS s1, s2, s3, q1, q2, q3, lead, won, alien, ann, sales, care, visit

Moving ==
    [active |-> {s1, s2, q1, q2}, policy |-> "reuse_open_deal",
     op |-> q1 :> "move" @@ q2 :> "move" @@ q3 :> "create",
     with |-> q1 :> won @@ q2 :> lead @@ q3 :> alien]
Submitting(policy) == [Moving EXCEPT !.active = {s1, s2, s3}, !.policy = policy]
Creating(policy) == [Moving EXCEPT !.active = {s1, s2, q1, q3}, !.policy = policy]
Assigning ==
    [Moving EXCEPT !.active = {s1, q1, q2, q3}, !.op[q2] = "assign", !.op[q3] = "assign",
                   !.with[q2] = ann, !.with[q3] = ann]
Granting ==
    [Moving EXCEPT !.active = {q1, q2, q3}, !.op = [q \in Request |-> "teams"],
                   !.with = q1 :> {sales} @@ q2 :> {care} @@ q3 :> {sales, care}]
(* Service events: the second and third are one event, or have no id.      *)
Serving(id) ==
    [Moving EXCEPT !.active = {s1, q1, q2, q3}, !.op = [q \in Request |-> "event"],
                   !.with = q1 :> None @@ q2 :> id @@ q3 :> id]
ByAgents ==
    [Moving EXCEPT !.active = {s1, s2, q1, q2}, !.op[q1] = "contact", !.op[q2] = "event",
                   !.with[q2] = visit]

Cases == {Moving, Assigning, Granting, Serving(visit), Serving(None), ByAgents}
            \cup {Submitting(p) : p \in Policy} \cup {Creating(p) : p \in Policy}
=============================================================================
