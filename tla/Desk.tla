-------------------------------- MODULE Desk --------------------------------
(***************************************************************************)
(* The support desk: the deliveries of Inbound, the requests of agents on  *)
(* the same tickets (api/routes/tickets.py, inbox.py) and the clients of   *)
(* the inbox stream (inbox_events.py).                                     *)
(*                                                                         *)
(* A request reads its ticket and later commits the columns it changed.    *)
(* Events are published after the commit, to the queues of the API process *)
(* only.  A client loads the list when it is told "connected" and at each  *)
(* event.                                                                  *)
(***************************************************************************)
EXTENDS Inbound

CONSTANTS
    Client,
    QueueSize    \* events a client's queue holds (50 in the code)

Sets == {"park", "resolve", "close", "reopen"}
Asked == [park |-> "pending", resolve |-> "resolved", close |-> "closed", reopen |-> "open"]

(* Given, besides: what each request asks for ("op"), by which agent, for  *)
(* which assignee, and the deliveries "polled" by a worker process.        *)
ASSUME DeskAssumption ==
    /\ QueueSize \in Nat \ {0}
    /\ \A g \in Given :
          /\ g.active \subseteq Delivery \cup Request \cup Client
          /\ g.op \in [Request -> Sets \cup {"create", "assign", "claim", "reply"}]
          /\ g.by \in [Request -> Agent] /\ g.for \in [Request -> Agent \cup {Nobody}]
          /\ g.polled \subseteq Delivery

VARIABLES
    step, on, saw,     \* requests: where each stands, its ticket, the row it read
    conn, queue, list  \* clients: connection, queued events, messages last loaded

requestVars == <<step, on, saw>>
clientVars == <<conn, queue, list>>
vars == <<given, inboundVars, requestVars, clientVars>>

(* Type invariant. *)
TypeOK ==
    /\ InboundTypeOK
    /\ step \in [Request -> {"new", "read", "sent", "announce", "done", "refused"}]
    /\ on \in [Request -> Ticket \cup {None}]
    /\ saw \in [Request -> Row \cup {NoRow}]
    /\ conn \in [Client -> {"off", "subscribed", "on"}]
    /\ queue \in [Client -> 0..QueueSize]
    /\ list \in [Client -> SUBSET Ticket]

Init ==
    /\ InboundInit
    /\ step = [q \in Request |-> "new"]
    /\ on = [q \in Request |-> None] /\ saw = [q \in Request |-> NoRow]
    /\ conn = [c \in Client |-> "off"]
    /\ queue = [c \in Client |-> 0] /\ list = [c \in Client |-> {}]

-----------------------------------------------------------------------------
(* Requests *)

Moves(q, label) == step' = [step EXCEPT ![q] = label]
DeliveriesStay == UNCHANGED <<contacts, pc, at, who, to, was, before, aged>>

(* The ticket a POST /tickets makes for a known contact, on no channel. *)
CreateTicket(q, c) ==
    /\ step[q] = "new" /\ q \in given.active /\ given.op[q] = "create"
    /\ c \in contacts
    /\ tickets' = [tickets EXCEPT ![q] = NewRow(c, None)]
    /\ on' = [on EXCEPT ![q] = q]
    /\ Moves(q, "announce")
    /\ DeliveriesStay /\ UNCHANGED <<filed, sent, shut, saw, clientVars>>

ReadTicket(q, t) ==
    /\ step[q] = "new" /\ q \in given.active /\ given.op[q] # "create"
    /\ Exists(t)
    /\ on' = [on EXCEPT ![q] = t]
    /\ saw' = [saw EXCEPT ![q] = tickets[t]]
    /\ Moves(q, "read")
    /\ DeliveriesStay /\ UNCHANGED <<tickets, filed, sent, shut, clientVars>>

(* provider.send: the reply is out before anything is committed.  There is *)
(* none without a channel.                                                 *)
SendReply(q) ==
    /\ step[q] = "read" /\ given.op[q] = "reply" /\ saw[q].channel # None
    /\ sent' = [sent EXCEPT ![q] = on[q]]
    /\ Moves(q, "sent")
    /\ DeliveriesStay /\ UNCHANGED <<tickets, filed, shut, on, saw, clientVars>>

(* What each request leaves in the row it read. *)
Updated(q, row) == [row EXCEPT !.status = Asked[given.op[q]]]
Assigned(q, row) == [row EXCEPT !.assignee = given.for[q]]
Claimed(q, row) == [row EXCEPT !.assignee = given.by[q], !.status = "open"]
Replied(q, row) == [row EXCEPT !.assignee = IF @ = Nobody THEN given.by[q] ELSE @]

After(q) ==
    CASE given.op[q] \in Sets   -> Updated(q, saw[q])
      [] given.op[q] = "assign" -> Assigned(q, saw[q])
      [] given.op[q] = "claim"  -> Claimed(q, saw[q])
      [] given.op[q] = "reply"  -> Replied(q, saw[q])

Committed(p) == step[p] \in {"announce", "done"}
SameTicket(p, q) == p # q /\ on[p] = on[q] /\ Committed(p)

(* The event of an assignment is keyed by ticket and assignee, so that a   *)
(* second assignment to the same agent violates the outbox's unique key.   *)
KeyTaken(q) ==
    /\ given.op[q] = "assign"
    /\ \E p \in Request : SameTicket(p, q) /\ given.op[p] = "assign" /\ given.for[p] = given.for[q]

(* That of an update is keyed by the second; two may share one. *)
KeyMayBeTaken(q) ==
    /\ given.op[q] \in Sets /\ After(q) # saw[q]
    /\ \E p \in Request : SameTicket(p, q) /\ given.op[p] \in Sets

(* Claims, replies and new tickets are announced; updates and assignments  *)
(* are not.                                                                *)
CommitRequest(q) ==
    /\ step[q] = IF given.op[q] = "reply" THEN "sent" ELSE "read"
    /\ ~KeyTaken(q)
    /\ tickets' = [tickets EXCEPT ![on[q]] =
                      IF given.op[q] \in {"claim", "reply"} \/ After(q) # saw[q]
                      THEN Saved(on[q], saw[q], After(q)) ELSE @]
    /\ filed' = IF given.op[q] = "reply" THEN [filed EXCEPT ![q] = on[q]] ELSE filed
    /\ shut' = shut \cup {t \in {on[q]} : \E a \in given.accounts : tickets'[t].status \notin Reusable(a)}
    /\ Moves(q, IF given.op[q] \in {"claim", "reply"} THEN "announce" ELSE "done")
    /\ saw' = [saw EXCEPT ![q] = NoRow]
    /\ DeliveriesStay /\ UNCHANGED <<sent, on, clientVars>>

(* A send that fails, a key that is taken or any error leaves nothing. *)
RefuseRequest(q) ==
    /\ \/ given.op[q] = "reply" /\ step[q] \in {"read", "sent"}
       \/ step[q] = "read" /\ (KeyTaken(q) \/ KeyMayBeTaken(q))
    /\ Moves(q, "refused")
    /\ saw' = [saw EXCEPT ![q] = NoRow]
    /\ DeliveriesStay /\ UNCHANGED <<tickets, filed, sent, shut, on, clientVars>>

-----------------------------------------------------------------------------
(* The inbox stream *)

AtMost(a, b) == IF a < b THEN a ELSE b

(* Mutant: a full queue takes the event.                                   *)
PublishAnyway ==
    queue' = [c \in Client |-> IF conn[c] = "off" THEN queue[c] ELSE queue[c] + 1]

(* A full queue drops the event. *)
Publish ==
    queue' = [c \in Client |-> IF conn[c] = "off" THEN queue[c]
                               ELSE AtMost(queue[c] + 1, QueueSize)]

(* Mutant: a delivery publishes nothing.                                   *)
AnnounceMessageNever(d) ==
    /\ Announce(d)
    /\ UNCHANGED <<requestVars, conn, queue, list>>

(* What the poll of a worker process publishes reaches no client. *)
AnnounceMessage(d) ==
    /\ Announce(d)
    /\ IF d \in given.polled THEN UNCHANGED queue ELSE Publish
    /\ UNCHANGED <<requestVars, conn, list>>

AnnounceRequest(q) ==
    /\ step[q] = "announce"
    /\ Publish
    /\ Moves(q, "done")
    /\ UNCHANGED <<inboundVars, on, saw, conn, list>>

Load(c) == list' = [list EXCEPT ![c] = Filed]

Subscribe(c) ==
    /\ conn[c] = "off" /\ c \in given.active
    /\ conn' = [conn EXCEPT ![c] = "subscribed"]
    /\ UNCHANGED <<inboundVars, requestVars, queue, list>>

Greet(c) ==
    /\ conn[c] = "subscribed"
    /\ conn' = [conn EXCEPT ![c] = "on"]
    /\ Load(c)
    /\ UNCHANGED <<inboundVars, requestVars, queue>>

Hear(c) ==
    /\ conn[c] = "on" /\ queue[c] > 0
    /\ queue' = [queue EXCEPT ![c] = @ - 1]
    /\ Load(c)
    /\ UNCHANGED <<inboundVars, requestVars, conn>>

Disconnect(c) ==
    /\ conn[c] # "off"
    /\ conn' = [conn EXCEPT ![c] = "off"]
    /\ queue' = [queue EXCEPT ![c] = 0]
    /\ list' = [list EXCEPT ![c] = {}]
    /\ UNCHANGED <<inboundVars, requestVars>>

-----------------------------------------------------------------------------
RequestStep(q) ==
    \/ \E c \in Delivery : CreateTicket(q, c)
    \/ \E t \in Ticket : ReadTicket(q, t)
    \/ SendReply(q) \/ CommitRequest(q) \/ RefuseRequest(q) \/ AnnounceRequest(q)

Step ==
    \/ \E d \in Delivery : \/ Deliver(d) /\ UNCHANGED <<requestVars, clientVars>>
                           \/ AnnounceMessage(d)
    \/ \E t \in Ticket : Age(t) /\ UNCHANGED <<requestVars, clientVars>>
    \/ \E q \in Request : RequestStep(q)
    \/ \E c \in Client : Subscribe(c) \/ Greet(c) \/ Hear(c) \/ Disconnect(c)

Next == Step /\ UNCHANGED given

Spec == Init /\ [][Next]_vars

-----------------------------------------------------------------------------
(* Properties *)

Moving(q) == step'[q] # step[q]
Reopening(d) == pc[d] = "commit" /\ pc'[d] = "announce" /\ was[d].status \notin OpenStatus

(* What a request is for, and what a reopening does to an assignee. *)
StatusAsked(q, s) ==
    \/ given.op[q] \in Sets /\ s = Asked[given.op[q]]
    \/ given.op[q] = "claim" /\ s = "open"
AssigneeAsked(q, a) ==
    \/ given.op[q] = "assign" /\ a = given.for[q]
    \/ given.op[q] = "claim" /\ a = given.by[q]
    \/ given.op[q] = "reply" /\ a = given.by[q] /\ saw[q].assignee = Nobody
Unassigns(row) == given.toQueue \/ (given.team # {} /\ row.assignee \notin given.team)

(* What a step may make of the status and the assignee of a ticket. *)
ChangeConfined(t) ==
    /\ tickets'[t].status # tickets[t].status =>
          \/ \E q \in Request : on[q] = t /\ Moving(q) /\ StatusAsked(q, tickets'[t].status)
          \/ \E d \in Delivery : to[d] = t /\ Reopening(d) /\ tickets'[t].status = "open"
    /\ tickets'[t].assignee # tickets[t].assignee =>
          \/ \E q \in Request : on[q] = t /\ Moving(q) /\ AssigneeAsked(q, tickets'[t].assignee)
          \/ \E d \in Delivery : /\ to[d] = t /\ Reopening(d) /\ Unassigns(was[d])
                                 /\ tickets'[t].assignee = Nobody

(* However long ago a step read the ticket, it changes no column but the   *)
(* one it is for, and that to the value it is for.  Within that column it  *)
(* does undo what it has not seen: a claim takes the ticket from whoever   *)
(* has it (inbox.py:116); a reply that had read no assignee, from one who  *)
(* was assigned during the send (tickets.py:448); a message that reopens,  *)
(* from one who claimed it since (inbound.py:355-360); the last status     *)
(* asked for stands (tickets.py:147).  These are all the ways there are.   *)
ChangesConfined == [][\A t \in Ticket : Exists(t) => ChangeConfined(t)]_vars

(* A connected client that has heard everything queued for it lists every  *)
(* message the API process has announced, dropped events included, so long *)
(* as no worker took the mail (inbox_events.py:22-28, README.md:44).       *)
ClientsCatchUp ==
    \A c \in Client :
       conn[c] = "on" /\ queue[c] = 0 =>
          \A m \in Filed \ list[c] :
             \/ m \in given.polled
             \/ m \in Delivery /\ pc[m] = "announce"
             \/ m \in Request /\ step[m] = "announce"
=============================================================================
