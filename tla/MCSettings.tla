----------------------------- MODULE MCSettings -----------------------------
(***************************************************************************)
(* Instances of Settings: four requests on connectors and their accounts,  *)
(* or on the support settings of a workspace with or without teams, legacy *)
(* names and a routing policy.  The support settings are given the default *)
(* value by the second and the fourth request, and one other value by the  *)
(* rest, so that a save may find what it wants.                            *)
(***************************************************************************)
EXTENDS Settings, TLC

CONSTANTS q1, q2, q3, q4, user, token, agents, reuse, reopen, focus, sticky

Keys ==
    [active |-> Request, op |-> [q \in Request |-> "connector"], on |-> [q \in Request |-> Legacy],
     value |-> [o \in Setter |-> [s \in Flag \cup Column |-> o \notin {q2, q4, None}]],
     slug |-> [q \in Request |-> "support_agent"],
     names |-> q1 :> {user} @@ q2 :> {token} @@ q3 :> {} @@ q4 :> {user, token},
     blank |-> {q2, q3}, off |-> {q3}, revive |-> {}, force |-> {}, teams |-> {}, policy |-> FALSE]
Channels ==
    [Keys EXCEPT !.op = q1 :> "account" @@ q2 :> "account" @@ q3 :> "delete" @@ q4 :> "delete",
                 !.force = {q4}]
Turning == [Channels EXCEPT !.op[q3] = "connector"]
Reviving == [Channels EXCEPT !.op[q2] = "connector", !.revive = {q2}, !.force = {q3, q4}]

(* A channel is created with its connector, and both are changed later.    *)
NewChannel(op, name) ==
    [Keys EXCEPT !.op = q1 :> op @@ q2 :> "connector" @@ q3 :> "delete" @@ q4 :> "account",
                 !.on = [q \in Request |-> q1], !.names[q1] = name]
Support ==
    [Keys EXCEPT !.op = [q \in Request |-> "settings"], !.policy = TRUE,
                 !.names = q1 :> {agents, focus} @@ q2 :> {reuse, focus}
                           @@ q3 :> {agents, sticky, reuse} @@ q4 :> {reopen, focus}]
OneByHand == [Support EXCEPT !.op[q4] = "tier"]

(* A team is made, of a slug that the routing needs or used to have.       *)
TeamMade(slug, teams0) ==
    [Support EXCEPT !.op[q4] = "team", !.slug[q4] = slug, !.teams = teams0]

Cases ==
    {Keys, Channels, Turning, Reviving, OneByHand,
     TeamMade("support_admin", {}), TeamMade("support_l1", {"support_l1"})}
       \cup {NewChannel(o, n) : o \in Creates, n \in {{}, {user}}}
       \cup {[Support EXCEPT !.teams = t, !.policy = p] :
                t \in {{}, {"support_l1"}, {"support_agent", "support_admin"}}, p \in BOOLEAN}
Blanks == {Keys}
=============================================================================
