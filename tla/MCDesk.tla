------------------------------- MODULE MCDesk -------------------------------
(***************************************************************************)
(* What the desk is given: messages of one sender to one or two mailboxes  *)
(* and up to three requests of two agents, in combinations small enough    *)
(* each to be taken in every order.                                        *)
(***************************************************************************)
EXTENDS Desk, TLC

CONSTANTS m1, m2, m3, q1, q2, q3, c1, ann, bob, pat, max, mail, post, hello, thanks

(* Nothing is active, and the policy is the default one. *)
Plain ==
    [active |-> {}, accounts |-> {mail}, from |-> [d \in Delivery |-> pat],
     sentTo |-> [d \in Delivery |-> {mail}],
     id |-> [d \in Delivery |-> NoId], answers |-> [d \in Delivery |-> None],
     reopens |-> Shut, override |-> [a \in Account |-> [s \in {} |-> FALSE]], toQueue |-> FALSE, team |-> {},
     op |-> q1 :> "reply" @@ q2 :> "resolve" @@ q3 :> "claim",
     by |-> q1 :> ann @@ q2 :> bob @@ q3 :> bob,
     for |-> [q \in Request |-> ann], polled |-> {}]

(* One message delivered three times: the first two may pass each other.   *)
Redelivered ==
    [Plain EXCEPT !.active = {m1, m2, m3, q2}, !.id = [d \in Delivery |-> hello]]

(* A reply, its answer, and an agent who closes the ticket meanwhile.      *)
Answering ==
    [Plain EXCEPT !.active = {m1, m2, m3, q1, q2}, !.from[m3] = max, !.id[m3] = thanks,
                  !.answers[m3] = q1, !.op[q2] = "close",
                  !.override[mail] = "closed" :> FALSE, !.team = {bob}]

(* Three messages without an id while agents reply, resolve and claim.     *)
Busy == [Plain EXCEPT !.active = {m1, m2, q1, q2, q3}, !.team = {ann}]
Streaming == [Plain EXCEPT !.active = {m1, m2, q1, c1}, !.polled = {m2}]

(* Assignments to one agent, one after the other, and a ticket reopened    *)
(* for the queue.                                                          *)
Assigning ==
    [Plain EXCEPT !.active = {m1, m2, q1, q2, q3}, !.toQueue = TRUE,
                  !.op = q1 :> "assign" @@ q2 :> "assign" @@ q3 :> "resolve"]

(* A ticket made by a request.                                             *)
Creating(op) ==
    [Plain EXCEPT !.active = {m1, m2, q1, q2},
                  !.op = q1 :> "create" @@ q2 :> op @@ q3 :> "reopen"]
Parking == [Plain EXCEPT !.active = {m1, m2, q2, q3}, !.op[q2] = "park", !.op[q3] = "reopen"]

(* Two mailboxes, of which one address contains the other or neither is    *)
(* the one that the message was sent to.                                   *)
TwoMailboxes(hits) ==
    [Plain EXCEPT !.active = {m1, m2, q2}, !.accounts = {mail, post}, !.op[q2] = "close",
                  !.sentTo = [d \in Delivery |-> hits], !.reopens = {"resolved"},
                  !.override[post] = "closed" :> TRUE]

Cases ==
    {Redelivered, Answering, Busy, Streaming, Assigning, Parking}
       \cup {Creating(o) : o \in {"park", "reply"}}
       \cup {TwoMailboxes(h) : h \in {{}, {mail}, {mail, post}}}
=============================================================================
