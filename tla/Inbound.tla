------------------------------- MODULE Inbound -------------------------------
(***************************************************************************)
(* Deliveries of inbound messages (modules/tickets/inbound.py,             *)
(* reuse_policy.py), by webhook in the API process or by the mail poll.    *)
(*                                                                         *)
(* Each delivery reads in turn which channel account it is for, whether    *)
(* the message is known, whose it is and which ticket to put it in, and    *)
(* commits the message, a new contact and a new or reopened ticket         *)
(* together.  No lock and no unique index separates two deliveries.  A     *)
(* contact and a ticket have the name of the delivery (or request) that    *)
(* made them.                                                              *)
(***************************************************************************)
EXTENDS FiniteSets, Naturals, Rows

CONSTANTS
    Delivery,       \* deliveries, redeliveries included
    Request,        \* requests of agents (see Desk)
    Agent,
    Account,        \* channel accounts
    Given,          \* what a behaviour may be given, see "given"
    Nobody, None, NoId

OpenStatus == {"open", "pending"}  \* "pending" stands for "waiting" too
Shut == {"resolved", "closed"}
Status == OpenStatus \cup Shut
Ticket == Delivery \cup Request

ASSUME InboundAssumption ==
    /\ Delivery \cap Request = {} /\ None \notin Ticket \cup Account /\ Nobody \notin Agent
    /\ IsFiniteSet(Account)
    /\ \A g \in Given :
          /\ Delivery \subseteq DOMAIN g.from \cap DOMAIN g.id
          /\ g.accounts \subseteq Account
          /\ g.sentTo \in [Delivery -> SUBSET g.accounts]
          /\ g.answers \in [Delivery -> Request \cup {None}]
          /\ g.reopens \subseteq Shut
          /\ \A a \in Account : g.override[a] \in UNION {[S -> BOOLEAN] : S \in SUBSET Shut}
          /\ g.toQueue \in BOOLEAN /\ g.team \subseteq Agent

VARIABLES
    \* fixed at the start: who is "active"; the active "accounts" of one kind
    \* and adapter; of a delivery the sender's address "from", the accounts
    \* whose address contains the one it is "sentTo", the provider_message_id
    \* "id" (or NoId) and the reply it "answers" (or None); the shut statuses a
    \* message "reopens", the "override" of that per account's kind, whether a
    \* reopened ticket goes "toQueue", and the support "team" of the flags
    given,
    \* committed
    contacts,   \* contacts, by the delivery that made them
    tickets,    \* Ticket -> row, or NoRow
    filed,      \* Delivery \cup Request -> ticket of its Message row, or None
    sent,       \* Request -> ticket the provider sent its reply for, or None
    \* deliveries
    pc,
    at,         \* the channel account it is taken for
    who,        \* the contact it found or makes
    to,         \* the ticket it found or makes
    was,        \* that ticket's row as it was read
    \* history
    before,     \* Delivery -> messages that were filed when it began
    shut,       \* tickets whose status was once not reusable
    aged        \* tickets that once left the reuse window

inboundVars == <<contacts, tickets, filed, sent, pc, at, who, to, was, before, shut, aged>>

(* "fresh": active, resolved, closed or updated within the reuse window. *)
Row == [contact: Delivery, channel: Account \cup {None}, status: Status,
        assignee: Agent \cup {Nobody}, fresh: BOOLEAN]
NoRow == [status |-> "absent"]
NewRow(c, a) ==
    [contact |-> c, channel |-> a, status |-> "open", assignee |-> Nobody, fresh |-> TRUE]

InboundTypeOK ==
    /\ given \in Given /\ contacts \subseteq Delivery
    /\ tickets \in [Ticket -> Row \cup {NoRow}]
    /\ filed \in [Ticket -> Ticket \cup {None}]
    /\ sent \in [Request -> Ticket \cup {None}]
    /\ pc \in [Delivery -> {"new", "contact", "ticket", "commit", "announce",
                            "done", "duplicate", "refused", "failed"}]
    /\ at \in [Delivery -> Account \cup {None}]
    /\ who \in [Delivery -> Delivery \cup {None}]
    /\ to \in [Delivery -> Ticket \cup {None}]
    /\ was \in [Delivery -> Row \cup {NoRow}]
    /\ before \in [Delivery -> SUBSET Delivery]
    /\ shut \subseteq Ticket /\ aged \subseteq Ticket

InboundInit ==
    /\ given \in Given
    /\ contacts = {} /\ tickets = [t \in Ticket |-> NoRow]
    /\ filed = [t \in Ticket |-> None] /\ sent = [q \in Request |-> None]
    /\ pc = [d \in Delivery |-> "new"]
    /\ at = [d \in Delivery |-> None]
    /\ who = [d \in Delivery |-> None] /\ to = [d \in Delivery |-> None]
    /\ was = [d \in Delivery |-> NoRow]
    /\ before = [d \in Delivery |-> {}] /\ shut = {} /\ aged = {}

-----------------------------------------------------------------------------
Exists(t) == tickets[t] # NoRow
Filed == {m \in Ticket : filed[m] # None}
GoTo(d, label) == pc' = [pc EXCEPT ![d] = label]

-----------------------------------------------------------------------------
(* The account that d is for: any of those whose address contains the one  *)
(* it was sent to, in the order the database has them; the only account    *)
(* there is; or none.                                                      *)
Picked(d) ==
    IF given.sentTo[d] # {} THEN given.sentTo[d]
    ELSE IF Cardinality(given.accounts) = 1 THEN given.accounts ELSE {}

(* The shut statuses in which a ticket of account a is taken up again: the *)
(* policy of the workspace, or that of the account's kind where it has one. *)
Reopens(a) ==
    {s \in Shut : IF s \in DOMAIN given.override[a] THEN given.override[a][s]
                  ELSE s \in given.reopens}
Reusable(a) == OpenStatus \cup Reopens(a)

(* Message rows with the id of d's message. *)
Copies(d) == {m \in Filed \cap Delivery : given.id[m] = given.id[d] /\ given.id[d] # NoId}

(* Contacts with the address of d's sender. *)
Known(d) == {c \in contacts : given.from[c] = given.from[d]}

Arrives(d) ==
    /\ pc[d] = "new" /\ d \in given.active
    /\ given.answers[d] # None => sent[given.answers[d]] # None
    /\ before' = [before EXCEPT ![d] = Filed \cap Delivery]
    /\ UNCHANGED <<contacts, tickets, filed, sent, who, to, was, shut, aged>>

(* Mutant: the message is not looked for.                                  *)
FindDuplicateNever(d) ==
    /\ Arrives(d)
    /\ \E a \in Picked(d) : at' = [at EXCEPT ![d] = a]
    /\ GoTo(d, "contact")

(* scalar_one_or_none raises for two rows: the delivery fails, and so does *)
(* every later one.                                                        *)
FindDuplicate(d) ==
    /\ Arrives(d)
    /\ \/ Picked(d) = {} /\ GoTo(d, "refused") /\ UNCHANGED at
       \/ /\ \E a \in Picked(d) : at' = [at EXCEPT ![d] = IF Copies(d) = {} THEN a ELSE None]
          /\ GoTo(d, CASE Copies(d) = {} -> "contact"
                       [] Cardinality(Copies(d)) = 1 -> "duplicate"
                       [] OTHER -> "refused")

FindContact(d) ==
    /\ pc[d] = "contact"
    /\ \/ /\ Cardinality(Known(d)) > 1
          /\ GoTo(d, "refused")
          /\ UNCHANGED who
       \/ /\ Cardinality(Known(d)) <= 1
          /\ \E c \in IF Known(d) = {} THEN {d} ELSE Known(d) :
                who' = [who EXCEPT ![d] = c]
          /\ GoTo(d, "ticket")
    /\ UNCHANGED <<contacts, tickets, filed, sent, at, to, was, before, shut, aged>>

(* Mutant: only the recorded reply is looked for, not the subject's token. *)
AnsweredByHeader(d) ==
    IF given.answers[d] = None THEN {}
    ELSE {t \in {filed[given.answers[d]]} \ {None} : tickets[t].status \in Reusable(at[d])}

(* The ticket of the reply that d answers: by In-Reply-To if the reply is  *)
(* recorded, else by the short id in the subject.                          *)
Answered(d) ==
    IF given.answers[d] = None THEN {}
    ELSE {t \in {filed[given.answers[d]], sent[given.answers[d]]} \ {None} :
             tickets[t].status \in Reusable(at[d])}

(* Tickets of the contact on this account that may be taken up again. *)
Candidates(d) ==
    {t \in Ticket : /\ tickets[t].status \in Reusable(at[d]) /\ tickets[t].fresh
                    /\ tickets[t].contact = who[d] /\ tickets[t].channel = at[d]}
OpenCandidates(d) == {t \in Candidates(d) : tickets[t].status \in OpenStatus}

(* Mutant: only tickets that are still open are looked for.                *)
LandingOpenOnly(d) ==
    IF Answered(d) # {} THEN Answered(d)
    ELSE IF OpenCandidates(d) # {} THEN OpenCandidates(d)
    ELSE {d}

Landing(d) ==
    IF Answered(d) # {} THEN Answered(d)
    ELSE IF OpenCandidates(d) # {} THEN OpenCandidates(d)
    ELSE IF Candidates(d) # {} THEN Candidates(d)
    ELSE {d}

FindTicket(d) ==
    /\ pc[d] = "ticket"
    /\ \E t \in Landing(d) :
          /\ to' = [to EXCEPT ![d] = t]
          /\ was' = [was EXCEPT ![d] = IF t = d THEN NewRow(who[d], at[d]) ELSE tickets[t]]
    /\ GoTo(d, "commit")
    /\ UNCHANGED <<contacts, tickets, filed, sent, at, who, before, shut, aged>>

(* Mutant: the ticket is not reopened.                                     *)
ReopenedNot(row) == row

(* A resolved or closed ticket is opened, and may lose its assignee. *)
Reopened(row) ==
    IF row.status \in OpenStatus THEN row
    ELSE [row EXCEPT !.status = "open",
                     !.assignee = IF \/ given.toQueue
                                     \/ given.team # {} /\ row.assignee \notin given.team
                                  THEN Nobody ELSE row.assignee]

(* last_activity_at and updated_at are set by every such commit. *)
Saved(t, read, new) == [Written(tickets[t], read, new) EXCEPT !.fresh = TRUE]

(* The session is over. *)
Forget(d) ==
    /\ at' = [at EXCEPT ![d] = None]
    /\ who' = [who EXCEPT ![d] = None]
    /\ to' = [to EXCEPT ![d] = None]
    /\ was' = [was EXCEPT ![d] = NoRow]

CommitMessage(d) ==
    LET t == to[d]
    IN  /\ pc[d] = "commit"
        /\ tickets' = [tickets EXCEPT ![t] =
                          IF t = d THEN was[d] ELSE Saved(t, was[d], Reopened(was[d]))]
        /\ contacts' = IF who[d] = d THEN contacts \cup {d} ELSE contacts
        /\ filed' = [filed EXCEPT ![d] = t]
        /\ GoTo(d, "announce")
        /\ Forget(d)
        /\ UNCHANGED <<sent, before, shut, aged>>

(* The delivery fails and leaves nothing; the provider may deliver again. *)
Fail(d) ==
    /\ pc[d] \in {"contact", "ticket", "commit"}
    /\ GoTo(d, "failed")
    /\ Forget(d)
    /\ before' = [before EXCEPT ![d] = {}]
    /\ UNCHANGED <<contacts, tickets, filed, sent, shut, aged>>

(* publish_inbox_event, after the commit; Desk says who hears it. *)
Announce(d) ==
    /\ pc[d] = "announce"
    /\ GoTo(d, "done")
    /\ UNCHANGED <<contacts, tickets, filed, sent, at, who, to, was, before, shut, aged>>

(* The reuse window of t passes. *)
Age(t) ==
    /\ Exists(t) /\ tickets[t].fresh
    /\ tickets' = [tickets EXCEPT ![t].fresh = FALSE]
    /\ aged' = aged \cup {t}
    /\ UNCHANGED <<contacts, filed, sent, pc, at, who, to, was, before, shut>>

Deliver(d) ==
    FindDuplicate(d) \/ FindContact(d) \/ FindTicket(d) \/ CommitMessage(d) \/ Fail(d)

-----------------------------------------------------------------------------
(* Properties *)

(* Neither delivery had the other's message before it when it began. *)
Overlapped(d, e) == d \notin before[e] /\ e \notin before[d]

(* Without locks two deliveries at once may file one message twice or make *)
(* one sender two contacts (inbound.py:340, :148), but only two at once.   *)
(* Every later delivery of that message or sender is then refused.         *)
DoublesOverlapped ==
    \A d, e \in Delivery : d # e /\
       (\/ d \in contacts /\ e \in contacts /\ given.from[d] = given.from[e]
        \/ filed[d] # None /\ e \in Copies(d))
       => Overlapped(d, e)

(* The answer to a reply lands in the ticket the reply was sent for, even  *)
(* from another sender and even if the reply's row was lost after sending, *)
(* unless the ticket has had a status the policy of some account does not  *)
(* reopen (inbound.py:189-209).                                             *)
AnswersStayInTicket ==
    \A d \in Delivery : filed[d] # None /\ given.answers[d] # None =>
       filed[d] = sent[given.answers[d]] \/ sent[given.answers[d]] \in shut

(* One sender's messages to one address are spread over two new tickets    *)
(* only by deliveries at once, after the earlier ticket had gone out of    *)
(* the window or the reusable statuses, or because several accounts        *)
(* contain that address: the first row the database gives is taken, and    *)
(* nothing orders the rows (inbound.py:61-70, 113-116, 211-235).           *)
SplitsExplained ==
    \A d, e \in Delivery :
       /\ d # e /\ filed[d] = d /\ filed[e] = e
       /\ given.from[d] = given.from[e] /\ given.sentTo[d] = given.sentTo[e]
       => \/ Overlapped(d, e) \/ {d, e} \cap (shut \cup aged) # {}
          \/ Cardinality(given.sentTo[d]) > 1

(* Has a place in the list "mine" of an agent, or in "unassigned".  Each   *)
(* shows the first hundred of those that have (inbox.py:98-100).           *)
Listable(row) == row.assignee # Nobody \/ row.status = "open"

(* A message that lands in a ticket nobody changed meanwhile leaves it     *)
(* with a place on a list, and a reopened one with an assignee who may     *)
(* still answer (inbound.py:355-360, inbox.py:81-90).  But what lands in a *)
(* pending ticket that nobody has taken has none.                          *)
Surfaces(d) ==
    LET t == to[d]
    IN  filed'[d] # filed[d] /\ tickets[t] = was[d] =>
           /\ Listable(tickets'[t]) \/ (was[d].status = "pending" /\ was[d].assignee = Nobody)
           /\ was[d].status \notin OpenStatus =>
                /\ tickets'[t].status = "open"
                /\ tickets'[t].assignee \in {Nobody} \cup
                      (IF given.toQueue THEN {}
                       ELSE IF given.team = {} THEN Agent ELSE given.team)
MessagesSurface == [][\A d \in Delivery : Surfaces(d)]_inboundVars
=============================================================================
