----------------------------- MODULE DeskProofs -----------------------------
(***************************************************************************)
(* Proofs about the desk, for any deliveries, requests, clients, accounts  *)
(* and policies.  First that only deliveries at once file a message twice  *)
(* or make one sender two contacts.  Then type correctness with what a     *)
(* delivery or a request under way relies on, where answers land, when a   *)
(* sender's messages are split, what the inbox stream makes up for, and    *)
(* what a step may do to a ticket.                                         *)
(***************************************************************************)
EXTENDS Desk, FiniteSetTheorems, TLAPS

Underway == {"contact", "ticket", "commit"}

Types ==
    /\ pc \in [Delivery -> {"new", "contact", "ticket", "commit", "announce",
                            "done", "duplicate", "refused", "failed"}]
    /\ before \in [Delivery -> SUBSET Delivery]
    /\ DOMAIN filed = Ticket /\ DOMAIN who = Delivery /\ DOMAIN to = Delivery
    /\ contacts \subseteq Delivery

SameId(d, e) == given.id[e] = given.id[d] /\ given.id[d] # NoId

(* What a delivery began after was filed; who is filed, or has made a      *)
(* contact, is past its commit.                                            *)
FiledInv ==
    /\ contacts \subseteq Filed
    /\ \A d \in Delivery : /\ before[d] \subseteq Filed
                           /\ d \in Filed => pc[d] \in {"announce", "done"}
                           /\ pc[d] = "commit" => to[d] # None

(* A delivery that goes on has found no copy, and one that makes a contact *)
(* no contact, among what it began after.                                  *)
NoCopyInv(d) ==
    pc[d] \in Underway => \A e \in Filed \cap Delivery : SameId(d, e) => e \notin before[d]

NoContactInv(d) ==
    pc[d] \in {"ticket", "commit"} /\ who[d] = d =>
       \A e \in contacts : given.from[e] = given.from[d] => e \notin before[d]

DoublesInv(d, e) ==
    d # e /\ (\/ d \in contacts /\ e \in contacts /\ given.from[d] = given.from[e]
              \/ d \in Filed /\ e \in Filed /\ SameId(d, e))
       => Overlapped(d, e)

IInv ==
    /\ Types /\ FiledInv
    /\ \A d \in Delivery : NoCopyInv(d) /\ NoContactInv(d)
    /\ \A d, e \in Delivery : DoublesInv(d, e)

-----------------------------------------------------------------------------
LEMMA InitIInv == ASSUME Init PROVE IInv
<1> USE DEF Init, InboundInit
<1>1. Filed = {}
  BY DEF Filed
<1>2. Types
  BY DEF Types
<1>3. QED
  BY <1>1, <1>2 DEF IInv, FiledInv, NoCopyInv, NoContactInv, DoublesInv, Underway

(* A step that files no message of a delivery and lets none begin.         *)
LEMMA QuietKeeps ==
    ASSUME IInv, given' = given, contacts' = contacts, who' = who, DOMAIN filed' = Ticket,
           Filed' \cap Delivery = Filed \cap Delivery, before' = before,
           DOMAIN to' = Delivery, \A d \in Delivery : pc'[d] = "commit" => to'[d] # None,
           pc' \in [Delivery -> {"new", "contact", "ticket", "commit", "announce",
                                 "done", "duplicate", "refused", "failed"}],
           \A d \in Delivery :
              \/ pc'[d] = pc[d]
              \/ pc[d] = "ticket" /\ pc'[d] = "commit"
              \/ pc[d] = "announce" /\ pc'[d] = "done"
    PROVE  IInv'
<1>1. Types'
  BY DEF IInv, Types
<1>2. FiledInv'
  BY DEF IInv, Types, FiledInv
<1>3. ASSUME NEW d \in Delivery PROVE NoCopyInv(d)' /\ NoContactInv(d)'
  BY DEF IInv, NoCopyInv, NoContactInv, Underway, SameId
<1>4. ASSUME NEW d \in Delivery, NEW e \in Delivery PROVE DoublesInv(d, e)'
  BY DEF IInv, DoublesInv, SameId, Overlapped
<1>5. QED
  BY <1>1, <1>2, <1>3, <1>4 DEF IInv

(* The first steps of a delivery, and its failure.                         *)
LEMMA OwnKeeps ==
    ASSUME IInv, NEW x \in Delivery, x \notin Filed,
           UNCHANGED <<given, contacts, filed>>, DOMAIN who' = Delivery,
           NEW label \in {"contact", "ticket", "duplicate", "refused", "failed"},
           pc' = [pc EXCEPT ![x] = label], DOMAIN to' = Delivery,
           \A d \in Delivery \ {x} : who'[d] = who[d] /\ to'[d] = to[d],
           NEW seen \in SUBSET (Filed \cap Delivery), before' = [before EXCEPT ![x] = seen],
           label \in Underway => \A e \in Filed \cap Delivery : SameId(x, e) => e \notin seen,
           label = "ticket" /\ who'[x] = x =>
              \A e \in contacts : given.from[e] = given.from[x] => e \notin seen
    PROVE  IInv'
<1>1. /\ Types /\ FiledInv /\ Filed' = Filed
      /\ pc'[x] = label /\ before'[x] = seen
      /\ \A d \in Delivery \ {x} : pc'[d] = pc[d] /\ before'[d] = before[d]
  BY DEF IInv, Types, Filed
<1>2. Types'
  BY <1>1 DEF Types, Underway
<1>3. FiledInv'
  BY <1>1 DEF FiledInv, Underway
<1>4. ASSUME NEW d \in Delivery PROVE NoCopyInv(d)' /\ NoContactInv(d)'
  BY <1>1 DEF IInv, NoCopyInv, NoContactInv, SameId
<1>5. ASSUME NEW d \in Delivery, NEW e \in Delivery PROVE DoublesInv(d, e)'
  BY <1>1 DEF IInv, FiledInv, DoublesInv, SameId, Overlapped
<1>6. QED
  BY <1>2, <1>3, <1>4, <1>5 DEF IInv

LEMMA DuplicateKeeps ==
    ASSUME IInv, NEW x \in Delivery, FindDuplicate(x), given' = given
    PROVE  IInv'
<1> DEFINE seen == Filed \cap Delivery
<1>1. /\ pc[x] = "new" /\ before' = [before EXCEPT ![x] = seen]
      /\ UNCHANGED <<contacts, filed, who, to>>
  BY DEF FindDuplicate, Arrives
<1>2. x \notin Filed
  BY <1>1 DEF IInv, FiledInv
<1>3. PICK label \in {"contact", "duplicate", "refused"} :
         /\ pc' = [pc EXCEPT ![x] = label]
         /\ label = "contact" => Copies(x) = {}
  BY DEF FindDuplicate, GoTo
<1>4. Copies(x) = {} => \A e \in Filed \cap Delivery : ~SameId(x, e)
  BY DEF Copies, SameId
<1>5. DOMAIN who = Delivery /\ DOMAIN to = Delivery
  BY DEF IInv, Types
<1>6. label \in Underway => label = "contact"
  BY DEF Underway
<1> HIDE DEF seen
<1>7. seen \in SUBSET (Filed \cap Delivery)
  BY DEF seen
<1>8. QED
  BY <1>1, <1>2, <1>3, <1>4, <1>5, <1>6, <1>7, OwnKeeps

LEMMA ContactKeeps ==
    ASSUME IInv, NEW x \in Delivery, FindContact(x), given' = given
    PROVE  IInv'
<1> DEFINE seen == before[x]
<1>1. /\ pc[x] = "contact" /\ UNCHANGED <<contacts, filed, before, to>>
      /\ Types /\ FiledInv /\ NoCopyInv(x)
  BY DEF FindContact, IInv
<1>2. x \notin Filed
  BY <1>1 DEF FiledInv
<1>3. PICK label \in {"ticket", "refused"} :
         /\ pc' = [pc EXCEPT ![x] = label]
         /\ label = "ticket" =>
               \E c \in IF Known(x) = {} THEN {x} ELSE Known(x) : who' = [who EXCEPT ![x] = c]
         /\ label = "refused" => who' = who
  BY DEF FindContact, GoTo
<1>4. label = "ticket" /\ who'[x] = x => x \in Known(x) \/ Known(x) = {}
  BY <1>1, <1>3 DEF Types
<1>5. x \notin Known(x)
  BY <1>1, <1>2 DEF Known, FiledInv
<1>6. label = "ticket" /\ who'[x] = x => \A e \in contacts : given.from[e] # given.from[x]
  BY <1>4, <1>5 DEF Known
<1>7. /\ DOMAIN who' = Delivery /\ DOMAIN to = Delivery
      /\ \A d \in Delivery \ {x} : who'[d] = who[d]
      /\ before' = [before EXCEPT ![x] = seen]
      /\ seen \in SUBSET (Filed \cap Delivery)
  BY <1>1, <1>3 DEF Types, FiledInv
<1>8. \A e \in Filed \cap Delivery : SameId(x, e) => e \notin seen
  BY <1>1 DEF NoCopyInv, Underway
<1> HIDE DEF seen
<1>9. QED
  BY <1>1, <1>2, <1>3, <1>6, <1>7, <1>8, OwnKeeps

LEMMA FailKeeps ==
    ASSUME IInv, NEW x \in Delivery, Fail(x), given' = given
    PROVE  IInv'
<1>1. /\ pc[x] \in Underway /\ pc' = [pc EXCEPT ![x] = "failed"]
      /\ before' = [before EXCEPT ![x] = {}] /\ UNCHANGED <<contacts, filed>>
      /\ who' = [who EXCEPT ![x] = None] /\ to' = [to EXCEPT ![x] = None]
  BY DEF Fail, GoTo, Forget, Underway
<1>2. x \notin Filed
  BY <1>1 DEF IInv, FiledInv, Underway
<1>3. /\ DOMAIN who' = Delivery /\ DOMAIN to' = Delivery
      /\ \A d \in Delivery \ {x} : who'[d] = who[d] /\ to'[d] = to[d]
  BY <1>1 DEF IInv, Types
<1>4. "failed" \notin Underway
  BY DEF Underway
<1>5. QED
  BY <1>1, <1>2, <1>3, <1>4, OwnKeeps DEF Underway

(* A message is committed: what it did not find when it looked was filed   *)
(* by others since it began, and so was it for them.                       *)
LEMMA CommitKeeps ==
    ASSUME IInv, NEW x \in Delivery, CommitMessage(x), given' = given
    PROVE  IInv'
<1>1. /\ pc[x] = "commit" /\ pc' = [pc EXCEPT ![x] = "announce"] /\ before' = before
      /\ contacts' = IF who[x] = x THEN contacts \cup {x} ELSE contacts
      /\ filed' = [filed EXCEPT ![x] = to[x]]
      /\ who' = [who EXCEPT ![x] = None] /\ to' = [to EXCEPT ![x] = None]
      /\ Types /\ FiledInv /\ NoCopyInv(x) /\ NoContactInv(x)
  BY DEF CommitMessage, GoTo, Forget, IInv
<1>2. x \notin Filed /\ \A d \in Delivery : x \notin before[d]
  BY <1>1 DEF FiledInv
<1>3. Filed' = Filed \cup {x}
  BY <1>1, <1>2 DEF Types, Filed, Ticket, FiledInv
<1>4. /\ pc'[x] = "announce"
      /\ \A d \in Delivery \ {x} : pc'[d] = pc[d] /\ who'[d] = who[d] /\ to'[d] = to[d]
  BY <1>1 DEF Types
<1>5. Types'
  BY <1>1 DEF Types
<1>6. FiledInv'
  BY <1>1, <1>3, <1>4 DEF FiledInv
<1>7. ASSUME NEW d \in Delivery PROVE NoCopyInv(d)' /\ NoContactInv(d)'
  BY <1>1, <1>2, <1>3, <1>4 DEF IInv, NoCopyInv, NoContactInv, Underway, SameId
<1>8. ASSUME NEW d \in Delivery, NEW e \in Delivery PROVE DoublesInv(d, e)'
  <2>1. DoublesInv(d, e)
    BY DEF IInv
  <2>2. Overlapped(d, e)' = Overlapped(d, e)
    BY <1>1 DEF Overlapped
  <2>3. CASE d # x /\ e # x
    BY <1>1, <1>3, <2>1, <2>2, <2>3 DEF DoublesInv, SameId
  <2>4. CASE d = x /\ e # x
    BY <1>1, <1>2, <1>3, <2>2, <2>4
       DEF DoublesInv, SameId, Overlapped, NoCopyInv, NoContactInv, Underway, FiledInv
  <2>5. CASE d # x /\ e = x
    BY <1>1, <1>2, <1>3, <2>2, <2>5
       DEF DoublesInv, SameId, Overlapped, NoCopyInv, NoContactInv, Underway, FiledInv
  <2>6. CASE d = x /\ e = x
    BY <2>6 DEF DoublesInv
  <2>7. QED
    BY <2>3, <2>4, <2>5, <2>6
<1>9. QED
  BY <1>5, <1>6, <1>7, <1>8 DEF IInv

LEMMA NextIInv == ASSUME IInv, [Next]_vars PROVE IInv'
<1>1. ASSUME NEW x \in Delivery, FindTicket(x), given' = given PROVE IInv'
  <2>1. ASSUME NEW t \in Landing(x) PROVE t # None
    BY <2>1, InboundAssumption
       DEF Landing, Answered, OpenCandidates, Candidates, Ticket
  <2>2. /\ pc[x] = "ticket" /\ pc' = [pc EXCEPT ![x] = "commit"]
        /\ UNCHANGED <<contacts, filed, who, before>>
        /\ \E t \in Landing(x) : to' = [to EXCEPT ![x] = t]
    BY <1>1 DEF FindTicket, GoTo
  <2>3. \A d \in Delivery : pc'[d] = "commit" => to'[d] # None
    BY <2>1, <2>2 DEF IInv, Types, FiledInv
  <2>4. Filed' = Filed
    BY <2>2 DEF Filed
  <2>5. QED
    BY <1>1, <2>2, <2>3, <2>4, QuietKeeps DEF IInv, Types
<1>2. ASSUME NEW x \in Delivery, Announce(x), given' = given PROVE IInv'
  <2>1. Filed' = Filed
    BY <1>2 DEF Announce, Filed
  <2>2. QED
    BY <1>2, <2>1, QuietKeeps DEF Announce, GoTo, IInv, Types, FiledInv
<1>3. ASSUME given' = given, UNCHANGED <<contacts, pc, who, to, before>>,
             Filed' \cap Delivery = Filed \cap Delivery, DOMAIN filed' = Ticket
      PROVE  IInv'
  BY <1>3, QuietKeeps DEF IInv, Types, FiledInv
<1>4. ASSUME given' = given, UNCHANGED <<contacts, pc, who, to, before>>, filed' = filed
      PROVE  IInv'
  <2>1. Filed' = Filed
    BY <1>4 DEF Filed
  <2>2. QED
    BY <1>3, <1>4, <2>1 DEF IInv, Types
<1>5. ASSUME NEW q \in Request, RequestStep(q), given' = given PROVE IInv'
  <2>1. CASE CommitRequest(q)
    <3>1. /\ UNCHANGED <<contacts, pc, who, to, before>>
          /\ filed' = filed \/ filed' = [filed EXCEPT ![q] = on[q]]
      BY <2>1 DEF CommitRequest, DeliveriesStay
    <3>2. Filed' \cap Delivery = Filed \cap Delivery /\ DOMAIN filed' = Ticket
      BY <3>1, InboundAssumption DEF Filed, IInv, Types, Ticket
    <3>3. QED
      BY <1>3, <1>5, <3>1, <3>2
  <2>2. CASE ~CommitRequest(q)
    BY <1>4, <1>5, <2>2
       DEF RequestStep, CreateTicket, ReadTicket, SendReply, RefuseRequest,
           AnnounceRequest, DeliveriesStay, inboundVars
  <2>3. QED
    BY <2>1, <2>2
<1>6. ASSUME NEW t \in Ticket, Age(t), given' = given PROVE IInv'
  BY <1>4, <1>6 DEF Age
<1>7. CASE UNCHANGED vars
  BY <1>4, <1>7 DEF vars, inboundVars
<1>8. ASSUME NEW c \in Client, given' = given,
             Subscribe(c) \/ Greet(c) \/ Hear(c) \/ Disconnect(c)
      PROVE  IInv'
  BY <1>4, <1>8 DEF Subscribe, Greet, Hear, Disconnect, inboundVars
<1>9. CASE Next
  BY <1>1, <1>2, <1>5, <1>6, <1>8, <1>9, DuplicateKeeps, ContactKeeps, CommitKeeps, FailKeeps
     DEF Next, Step, Deliver, AnnounceMessage
<1>10. QED
  BY <1>7, <1>9

(* The inductive invariant holds in every reachable state. *)
THEOREM Invariance == Spec => []IInv
<1>1. Init => IInv
  BY InitIInv
<1>2. IInv /\ [Next]_vars => IInv'
  BY NextIInv
<1>3. QED
  BY <1>1, <1>2, PTL DEF Spec

(* However many deliveries there are, and whatever agents do to the        *)
(* tickets, a message is filed twice and a sender becomes two contacts     *)
(* only by two deliveries of which neither began after the other was       *)
(* committed (inbound.py:148, :340).                                       *)
THEOREM DoublesOverlap == Spec => []DoublesOverlapped
<1>1. IInv => DoublesOverlapped
  BY DEF IInv, DoublesInv, DoublesOverlapped, Copies, SameId, Filed, Ticket
<1>2. QED
  BY <1>1, Invariance, PTL

-----------------------------------------------------------------------------
(* The invariant of the desk *)

(* What a delivery puts together is for an account and a contact, and the  *)
(* ticket it has read is there; so is that of a request.                   *)
DeliveryStage(d) ==
    /\ pc[d] \in Underway => at[d] \in Picked(d) /\ at[d] \in given.accounts
    /\ pc[d] \in {"ticket", "commit"} =>
          who[d] \in Delivery /\ given.from[who[d]] = given.from[d]
    /\ pc[d] = "commit" => was[d] \in Row /\ to[d] \in Ticket /\ (to[d] = d \/ Exists(to[d]))
    /\ pc[d] = "commit" /\ to[d] = d => was[d] = NewRow(who[d], at[d])
    /\ Exists(d) => pc[d] \in {"announce", "done"}

RequestStage(q) ==
    /\ step[q] = "new" => ~Exists(q)
    /\ step[q] \in {"read", "sent"} =>
          saw[q] \in Row /\ on[q] \in Ticket /\ Exists(on[q]) /\ given.op[q] # "create"

StageInv ==
    /\ \A d \in Delivery : DeliveryStage(d)
    /\ \A q \in Request : RequestStage(q)

TypeInv == TypeOK /\ StageInv

(* The name of a delivery is that of a ticket once it has filed the first  *)
(* message there, and the ticket is its sender's.                          *)
OwnTicketInv(d) ==
    /\ Exists(d) <=> filed[d] = d
    /\ filed[d] = d => /\ tickets[d].channel \in Picked(d)
                       /\ tickets[d].contact \in contacts
                       /\ given.from[tickets[d].contact] = given.from[d]
    /\ pc[d] \in {"ticket", "commit"} => who[d] \in contacts \cup {d}

(* A ticket that the histories do not have may be taken up again.          *)
StandingInv(t) ==
    Exists(t) =>
       /\ t \in shut \/ \A a \in given.accounts : tickets[t].status \in Reusable(a)
       /\ t \in aged \/ tickets[t].fresh

(* A reply is recorded, if at all, for the ticket it was sent for.         *)
SentInv(q) ==
    /\ sent[q] # None => step[q] \notin {"new", "read"} /\ sent[q] = on[q] /\ Exists(on[q])
    /\ filed[q] # None => filed[q] = sent[q]
    /\ step[q] = "sent" => sent[q] = on[q] /\ given.op[q] = "reply"

(* A message that answers a reply begins after the reply was sent.         *)
AnswerInv(d) ==
    LET q == given.answers[d]
    IN  q # None =>
          /\ pc[d] \in Underway \/ filed[d] # None => sent[q] # None
          /\ pc[d] = "commit" => to[d] = sent[q] \/ sent[q] \in shut
          /\ filed[d] # None => filed[d] = sent[q] \/ sent[q] \in shut

(* What a client does not list is announced, or will be.                   *)
CatchUpInv(c) ==
    conn[c] = "on" => \A m \in Filed \ list[c] :
         \/ queue[c] > 0 \/ m \in given.polled
         \/ m \in Delivery /\ pc[m] = "announce"
         \/ m \in Request /\ step[m] = "announce"

(* What was filed when a message arrived with nothing to take it up again  *)
(* is the reason for its new ticket, and the contact is the same.          *)
Alike(d, e) == given.from[d] = given.from[e] /\ given.sentTo[d] = given.sentTo[e]

SameContactInv(e) ==
    pc[e] = "ticket" => \A d \in before[e] :
       filed[d] = d /\ given.from[d] = given.from[e] => who[e] = tickets[d].contact

SplitInv(e) ==
    filed[e] = e \/ (pc[e] = "commit" /\ to[e] = e) =>
       \A d \in before[e] : filed[d] = d /\ Alike(d, e) =>
          d \in shut \cup aged \/ Cardinality(given.sentTo[e]) > 1

DeskInv ==
    /\ TypeInv /\ IInv /\ IsFiniteSet(contacts)
    /\ \A d \in Delivery : OwnTicketInv(d) /\ AnswerInv(d) /\ SameContactInv(d) /\ SplitInv(d)
    /\ \A t \in Ticket : StandingInv(t)
    /\ \A q \in Request : SentInv(q)
    /\ \A c \in Client : CatchUpInv(c)

-----------------------------------------------------------------------------
(* Rows of tickets *)

LEMMA NoRowIsNoRow == NoRow \notin Row
BY DEF NoRow, Row

LEMMA FreshRow ==
    ASSUME NEW row \in Row, NEW b \in BOOLEAN
    PROVE  /\ [row EXCEPT !.fresh = b] \in Row
           /\ [row EXCEPT !.fresh = b].contact = row.contact
           /\ [row EXCEPT !.fresh = b].channel = row.channel
           /\ [row EXCEPT !.fresh = b].status = row.status
           /\ [row EXCEPT !.fresh = b].assignee = row.assignee
           /\ [row EXCEPT !.fresh = b].fresh = b
BY DEF Row

LEMMA SavedRow ==
    ASSUME NEW t \in Ticket, tickets[t] \in Row, NEW read \in Row, NEW new \in Row,
           new.contact = read.contact, new.channel = read.channel
    PROVE  /\ Saved(t, read, new) \in Row
           /\ Saved(t, read, new).contact = tickets[t].contact
           /\ Saved(t, read, new).channel = tickets[t].channel
           /\ Saved(t, read, new).status =
                 IF new.status = read.status THEN tickets[t].status ELSE new.status
           /\ Saved(t, read, new).assignee =
                 IF new.assignee = read.assignee THEN tickets[t].assignee ELSE new.assignee
           /\ Saved(t, read, new).fresh
<1> DEFINE row == tickets[t]
           w == [c \in DOMAIN row |-> IF new[c] = read[c] THEN row[c] ELSE new[c]]
<1>1. /\ DOMAIN row = {"contact", "channel", "status", "assignee", "fresh"}
      /\ row.contact \in Delivery /\ row.channel \in Account \cup {None}
      /\ row.status \in Status /\ row.assignee \in Agent \cup {Nobody}
  BY DEF Row
<1>2. /\ new.status \in Status /\ new.assignee \in Agent \cup {Nobody}
  BY DEF Row
<1> HIDE DEF row
<1>3. /\ DOMAIN w = {"contact", "channel", "status", "assignee", "fresh"}
      /\ w.contact = row.contact /\ w.channel = row.channel
      /\ w.status = IF new.status = read.status THEN row.status ELSE new.status
      /\ w.assignee = IF new.assignee = read.assignee THEN row.assignee ELSE new.assignee
  BY <1>1
<1>4. Saved(t, read, new) = [w EXCEPT !.fresh = TRUE]
  BY DEF Saved, Written, row
<1>5. w.fresh \in BOOLEAN
  BY <1>1 DEF Row, row
<1>6. w \in Row
  BY <1>1, <1>2, <1>3, <1>5 DEF Row
<1> HIDE DEF w
<1>7. QED
  BY <1>3, <1>4, <1>6, FreshRow DEF row

LEMMA NewRowType ==
    ASSUME NEW c \in Delivery, NEW a \in Account \cup {None}
    PROVE  NewRow(c, a) \in Row
BY DEF NewRow, Row, Status, OpenStatus

LEMMA ReopenedRow ==
    ASSUME NEW row \in Row
    PROVE  /\ Reopened(row) \in Row
           /\ Reopened(row).contact = row.contact /\ Reopened(row).channel = row.channel
           /\ Reopened(row).status = IF row.status \in OpenStatus THEN row.status ELSE "open"
           /\ row.status \in OpenStatus => Reopened(row).assignee = row.assignee
           /\ Reopened(row).assignee # row.assignee =>
                 Unassigns(row) /\ Reopened(row).assignee = Nobody
BY DEF Reopened, Row, Status, OpenStatus, Unassigns

LEMMA AfterRow ==
    ASSUME TypeInv, NEW q \in Request, step[q] \in {"read", "sent"}
    PROVE  /\ After(q) \in Row
           /\ After(q).contact = saw[q].contact /\ After(q).channel = saw[q].channel
           /\ After(q).status # saw[q].status => StatusAsked(q, After(q).status)
           /\ After(q).assignee # saw[q].assignee => AssigneeAsked(q, After(q).assignee)
<1>1. /\ saw[q] \in Row /\ given \in Given /\ given.op[q] # "create"
      /\ given.op[q] \in Sets \cup {"create", "assign", "claim", "reply"}
      /\ given.by[q] \in Agent /\ given.for[q] \in Agent \cup {Nobody}
  BY DeskAssumption DEF TypeInv, TypeOK, InboundTypeOK, StageInv, RequestStage
<1>2. CASE given.op[q] \in Sets
  <2>1. After(q) = [saw[q] EXCEPT !.status = Asked[given.op[q]]]
    BY <1>2 DEF After, Updated, Sets
  <2>2. Asked[given.op[q]] \in Status
    BY <1>2 DEF Asked, Sets, Status, OpenStatus, Shut
  <2>3. QED
    BY <1>1, <1>2, <2>1, <2>2 DEF Row, StatusAsked
<1>3. CASE given.op[q] = "assign"
  BY <1>1, <1>3 DEF After, Assigned, Sets, Row, AssigneeAsked
<1>4. CASE given.op[q] = "claim"
  BY <1>1, <1>4 DEF After, Claimed, Sets, Row, Status, OpenStatus,
     StatusAsked, AssigneeAsked
<1>5. CASE given.op[q] = "reply"
  BY <1>1, <1>5 DEF After, Replied, Sets, Row, AssigneeAsked
<1>6. QED
  BY <1>1, <1>2, <1>3, <1>4, <1>5

-----------------------------------------------------------------------------
(* The steps that write tickets. *)
TicketStep ==
    \/ UNCHANGED <<tickets, shut, aged>>
    \/ \E d \in Delivery : CommitMessage(d) /\ UNCHANGED <<requestVars, clientVars>>
    \/ \E q \in Request : CommitRequest(q) \/ \E c \in Delivery : CreateTicket(q, c)
    \/ \E t \in Ticket : Age(t) /\ UNCHANGED <<requestVars, clientVars>>

LEMMA TicketSteps == ASSUME [Next]_vars PROVE TicketStep /\ given' = given
<1>1. CASE UNCHANGED vars
  BY <1>1 DEF vars, inboundVars, TicketStep
<1>2. CASE Next
  <2>1. ASSUME NEW d \in Delivery,
               (Deliver(d) /\ UNCHANGED <<requestVars, clientVars>>) \/ AnnounceMessage(d)
        PROVE  TicketStep
    BY <2>1 DEF Deliver, FindDuplicate, Arrives, FindContact, FindTicket, Fail,
                AnnounceMessage, Announce, TicketStep
  <2>2. ASSUME NEW q \in Request, RequestStep(q) PROVE TicketStep
    BY <2>2 DEF RequestStep, ReadTicket, SendReply, RefuseRequest, AnnounceRequest,
                DeliveriesStay, inboundVars, TicketStep
  <2>3. ASSUME NEW c \in Client, Subscribe(c) \/ Greet(c) \/ Hear(c) \/ Disconnect(c)
        PROVE  TicketStep
    BY <2>3 DEF Subscribe, Greet, Hear, Disconnect, inboundVars, TicketStep
  <2>4. QED
    BY <1>2, <2>1, <2>2, <2>3 DEF Next, Step, TicketStep
<1>3. QED
  BY <1>1, <1>2

(* What a step leaves of a ticket. *)
Kept(t) ==
    /\ tickets'[t] \in Row
    /\ tickets'[t].contact = tickets[t].contact /\ tickets'[t].channel = tickets[t].channel
    /\ \/ tickets'[t].status = tickets[t].status \/ t \in shut'
       \/ \A a \in given.accounts : tickets'[t].status \in Reusable(a)
    /\ tickets'[t].fresh \/ tickets'[t].fresh = tickets[t].fresh \/ t \in aged'

LEMMA MessageWrites ==
    ASSUME TypeInv, NEW d \in Delivery, CommitMessage(d)
    PROVE  /\ to[d] \in Ticket /\ ~Exists(d) /\ UNCHANGED <<shut, aged>>
           /\ tickets' \in [Ticket -> Row \cup {NoRow}]
           /\ \A t \in Ticket \ {to[d]} : tickets'[t] = tickets[t]
           /\ to[d] = d => tickets'[d] = was[d]
           /\ to[d] # d => Exists(to[d])
           /\ Exists(to[d]) =>
                 /\ Kept(to[d]) /\ tickets'[to[d]].fresh
                 /\ tickets'[to[d]] = Saved(to[d], was[d], Reopened(was[d]))
                 /\ tickets'[to[d]].status # tickets[to[d]].status =>
                       tickets'[to[d]].status = "open" /\ was[d].status \notin OpenStatus
                 /\ tickets'[to[d]].assignee # tickets[to[d]].assignee =>
                       /\ was[d].status \notin OpenStatus /\ Unassigns(was[d])
                       /\ tickets'[to[d]].assignee = Nobody
<1> DEFINE t == to[d]
           row == Saved(t, was[d], Reopened(was[d]))
<1>1. /\ pc[d] = "commit" /\ was[d] \in Row /\ t \in Ticket /\ ~Exists(d)
      /\ t # d => Exists(t) /\ tickets[t] \in Row
      /\ tickets \in [Ticket -> Row \cup {NoRow}]
  BY DEF CommitMessage, TypeInv, TypeOK, InboundTypeOK, StageInv, DeliveryStage, RequestStage, Exists
<1>2. /\ tickets' = [tickets EXCEPT ![t] = IF t = d THEN was[d] ELSE row]
      /\ UNCHANGED <<shut, aged>>
  BY DEF CommitMessage
<1>3. t # d =>
         /\ row \in Row /\ row.fresh
         /\ row.contact = tickets[t].contact /\ row.channel = tickets[t].channel
         /\ row.status # tickets[t].status => row.status = "open" /\ was[d].status \notin OpenStatus
         /\ row.assignee # tickets[t].assignee =>
               /\ was[d].status \notin OpenStatus /\ Unassigns(was[d])
               /\ row.assignee = Nobody
  BY <1>1, SavedRow, ReopenedRow
<1> HIDE DEF row
<1>4. t # d => Kept(t)
  BY <1>1, <1>2, <1>3 DEF Kept, Reusable, OpenStatus
<1>5. QED
  BY <1>1, <1>2, <1>3, <1>4 DEF row

LEMMA RequestWrites ==
    ASSUME TypeInv, NEW q \in Request, CommitRequest(q)
    PROVE  /\ on[q] \in Ticket /\ Exists(on[q]) /\ step'[q] # step[q]
           /\ \A t \in Ticket \ {on[q]} : tickets'[t] = tickets[t]
           /\ tickets' \in [Ticket -> Row \cup {NoRow}]
           /\ Kept(on[q])
           /\ tickets'[on[q]].status # tickets[on[q]].status =>
                 StatusAsked(q, tickets'[on[q]].status)
           /\ tickets'[on[q]].assignee # tickets[on[q]].assignee =>
                 AssigneeAsked(q, tickets'[on[q]].assignee)
<1> DEFINE t == on[q]
           row == Saved(t, saw[q], After(q))
<1>1. /\ step[q] \in {"read", "sent"} /\ saw[q] \in Row /\ t \in Ticket /\ Exists(t)
      /\ tickets[t] \in Row /\ tickets \in [Ticket -> Row \cup {NoRow}]
      /\ step \in [Request -> {"new", "read", "sent", "announce", "done", "refused"}]
  BY DEF CommitRequest, TypeInv, TypeOK, InboundTypeOK, StageInv, DeliveryStage, RequestStage, Exists
<1>2. PICK new \in {row, tickets[t]} : tickets' = [tickets EXCEPT ![t] = new]
  BY <1>1 DEF CommitRequest
<1>3. /\ row \in Row /\ row.contact = tickets[t].contact /\ row.channel = tickets[t].channel
      /\ row.fresh
      /\ row.status # tickets[t].status => StatusAsked(q, row.status)
      /\ row.assignee # tickets[t].assignee => AssigneeAsked(q, row.assignee)
  BY <1>1, AfterRow, SavedRow
<1>4. /\ step'[q] # step[q]
      /\ \A a \in given.accounts : tickets'[t].status \in Reusable(a) \/ t \in shut'
  BY <1>1 DEF CommitRequest, Moves
<1>5. tickets'[t] = new
  BY <1>1, <1>2
<1> HIDE DEF row
<1>6. Kept(t)
  BY <1>1, <1>3, <1>4, <1>5 DEF Kept
<1>7. QED
  BY <1>1, <1>2, <1>3, <1>4, <1>5, <1>6

LEMMA TicketsKeep ==
    ASSUME TypeInv, [Next]_vars
    PROVE  /\ \A t \in Ticket : Exists(t) => Kept(t)
           /\ tickets' \in [Ticket -> Row \cup {NoRow}]
           /\ shut \subseteq shut' /\ shut' \subseteq Ticket
           /\ aged \subseteq aged' /\ aged' \subseteq Ticket
<1>1. /\ tickets \in [Ticket -> Row \cup {NoRow}] /\ given' = given /\ given \in Given
      /\ shut \subseteq Ticket /\ aged \subseteq Ticket
  BY TicketSteps DEF TypeInv, TypeOK, InboundTypeOK
<1>2. ASSUME NEW t \in Ticket, tickets'[t] = tickets[t], Exists(t) PROVE Kept(t)
  BY <1>1, <1>2 DEF Kept, Exists
<1>3. CASE UNCHANGED <<tickets, shut, aged>>
  BY <1>1, <1>2, <1>3
<1>4. ASSUME NEW d \in Delivery, CommitMessage(d)
      PROVE  /\ \A t \in Ticket : Exists(t) => Kept(t)
             /\ tickets' \in [Ticket -> Row \cup {NoRow}]
             /\ UNCHANGED <<shut, aged>>
  BY <1>2, <1>4, MessageWrites
<1>5. ASSUME NEW q \in Request, CommitRequest(q)
      PROVE  /\ \A t \in Ticket : Exists(t) => Kept(t)
             /\ tickets' \in [Ticket -> Row \cup {NoRow}]
             /\ aged' = aged /\ shut \subseteq shut' /\ shut' \subseteq Ticket
  <2>1. on[q] \in Ticket /\ Kept(on[q]) /\ \A t \in Ticket \ {on[q]} : tickets'[t] = tickets[t]
    BY <1>5, RequestWrites
  <2>2. tickets' \in [Ticket -> Row \cup {NoRow}]
    BY <1>5, RequestWrites
  <2>3. aged' = aged /\ shut \subseteq shut' /\ shut' \subseteq shut \cup {on[q]}
    BY <1>5 DEF CommitRequest, DeliveriesStay
  <2>4. QED
    BY <1>1, <1>2, <2>1, <2>2, <2>3
<1>6. ASSUME NEW q \in Request, NEW c \in Delivery, CreateTicket(q, c)
      PROVE  /\ \A t \in Ticket : Exists(t) => Kept(t)
             /\ tickets' \in [Ticket -> Row \cup {NoRow}]
             /\ UNCHANGED <<shut, aged>>
  <2>1. q \in Ticket /\ ~Exists(q) /\ NewRow(c, None) \in Row
    BY <1>1, <1>6, NewRowType, InboundAssumption DEF CreateTicket, TypeInv, StageInv, RequestStage, Ticket
  <2>2. /\ tickets' = [tickets EXCEPT ![q] = NewRow(c, None)]
        /\ UNCHANGED <<shut, aged>>
    BY <1>6 DEF CreateTicket, DeliveriesStay
  <2>3. QED
    BY <1>1, <1>2, <2>1, <2>2
<1>7. ASSUME NEW t \in Ticket, Age(t)
      PROVE  /\ \A u \in Ticket : Exists(u) => Kept(u)
             /\ tickets' \in [Ticket -> Row \cup {NoRow}]
             /\ aged' = aged \cup {t} /\ shut' = shut
  <2>1. /\ Exists(t) /\ tickets[t] \in Row /\ shut' = shut /\ aged' = aged \cup {t}
        /\ tickets' = [tickets EXCEPT ![t] = [tickets[t] EXCEPT !.fresh = FALSE]]
    BY <1>1, <1>7 DEF Age, Exists
  <2>2. Kept(t) /\ [tickets[t] EXCEPT !.fresh = FALSE] \in Row
    BY <1>1, <2>1, FreshRow DEF Kept
  <2>3. QED
    BY <1>1, <1>2, <2>1, <2>2
<1>8. QED
  BY <1>1, <1>3, <1>4, <1>5, <1>6, <1>7, TicketSteps DEF TicketStep

-----------------------------------------------------------------------------
(* A ticket comes with the message or the request that makes it.           *)
LEMMA TicketsMade ==
    ASSUME TypeInv, [Next]_vars, NEW t \in Ticket, ~Exists(t), Exists(t)'
    PROVE  \/ t \in Delivery /\ CommitMessage(t) /\ to[t] = t
           \/ t \in Request /\ \E c \in Delivery : CreateTicket(t, c)
<1>1. CASE UNCHANGED <<tickets, shut, aged>>
  BY <1>1 DEF Exists
<1>2. ASSUME NEW d \in Delivery, CommitMessage(d) PROVE t = d /\ to[d] = d
  BY <1>2, MessageWrites DEF Exists
<1>3. ASSUME NEW q \in Request, CommitRequest(q) PROVE FALSE
  BY <1>3, RequestWrites DEF Exists
<1>4. ASSUME NEW q \in Request, NEW c \in Delivery, CreateTicket(q, c) PROVE t = q
  BY <1>4 DEF CreateTicket, Exists, TypeInv, TypeOK, InboundTypeOK
<1>5. ASSUME NEW u \in Ticket, Age(u) PROVE FALSE
  BY <1>5 DEF Age, Exists, TypeInv, TypeOK, InboundTypeOK
<1>6. QED
  BY <1>1, <1>2, <1>3, <1>4, <1>5, TicketSteps DEF TicketStep

LEMMA TicketsStay ==
    ASSUME TypeInv, [Next]_vars, NEW t \in Ticket, Exists(t) PROVE Exists(t)'
BY TicketsKeep, NoRowIsNoRow DEF Kept, Exists

(* A step that leaves a delivery alone.                                    *)
LEMMA DeliveryStays ==
    ASSUME TypeInv, [Next]_vars, NEW d \in Delivery, pc'[d] = pc[d],
           at'[d] = at[d], who'[d] = who[d], to'[d] = to[d], was'[d] = was[d]
    PROVE  DeliveryStage(d)'
<1>1. Exists(d)' => Exists(d)
  <2>1. SUFFICES ASSUME Exists(d)', ~Exists(d) PROVE FALSE
    OBVIOUS
  <2>2. d \in Ticket /\ d \notin Request
    BY InboundAssumption DEF Ticket
  <2>3. CommitMessage(d)
    BY <2>1, <2>2, TicketsMade
  <2>4. QED
    BY <2>3 DEF CommitMessage, GoTo, TypeInv, TypeOK, InboundTypeOK
<1>2. given' = given /\ DeliveryStage(d)
  BY TicketSteps DEF TypeInv, StageInv
<1>3. to[d] \in Ticket /\ Exists(to[d]) => Exists(to[d])'
  BY TicketsStay
<1>4. QED
  BY <1>1, <1>2, <1>3 DEF DeliveryStage, Picked

LEMMA RequestStays ==
    ASSUME TypeInv, [Next]_vars, NEW q \in Request, step'[q] = step[q],
           on'[q] = on[q], saw'[q] = saw[q]
    PROVE  RequestStage(q)'
<1>1. step[q] = "new" /\ Exists(q)' => Exists(q)
  <2>1. SUFFICES ASSUME step[q] = "new", Exists(q)', ~Exists(q) PROVE FALSE
    OBVIOUS
  <2>2. q \in Ticket /\ q \notin Delivery
    BY InboundAssumption DEF Ticket
  <2>3. \E c \in Delivery : CreateTicket(q, c)
    BY <2>1, <2>2, TicketsMade
  <2>4. QED
    BY <2>1, <2>3 DEF CreateTicket, Moves, TypeInv, TypeOK
<1>2. given' = given /\ RequestStage(q)
  BY TicketSteps DEF TypeInv, StageInv
<1>3. on[q] \in Ticket /\ Exists(on[q]) => Exists(on[q])'
  BY TicketsStay
<1>4. QED
  BY <1>1, <1>2, <1>3 DEF RequestStage

(* The rest of the types.                                                  *)
DeliveryTypes ==
    /\ contacts \subseteq Delivery
    /\ pc \in [Delivery -> {"new", "contact", "ticket", "commit", "announce",
                            "done", "duplicate", "refused", "failed"}]
    /\ at \in [Delivery -> Account \cup {None}]
    /\ who \in [Delivery -> Delivery \cup {None}]
    /\ to \in [Delivery -> Ticket \cup {None}]
    /\ was \in [Delivery -> Row \cup {NoRow}]
    /\ before \in [Delivery -> SUBSET Delivery]

RequestTypes ==
    /\ filed \in [Ticket -> Ticket \cup {None}]
    /\ sent \in [Request -> Ticket \cup {None}]
    /\ step \in [Request -> {"new", "read", "sent", "announce", "done", "refused"}]
    /\ on \in [Request -> Ticket \cup {None}]
    /\ saw \in [Request -> Row \cup {NoRow}]

ClientTypes ==
    /\ conn \in [Client -> {"off", "subscribed", "on"}]
    /\ queue \in [Client -> 0..QueueSize]
    /\ list \in [Client -> SUBSET Ticket]

LEMMA GivenTypes ==
    ASSUME TypeInv, NEW d \in Delivery
    PROVE  /\ given \in Given /\ given.accounts \subseteq Account
           /\ Picked(d) \subseteq given.accounts
           /\ given.answers[d] \in Request \cup {None}
BY InboundAssumption DEF TypeInv, TypeOK, InboundTypeOK, Picked

(* The ticket a message is put in is there, or is one of its own.          *)
LEMMA LandingIsThere ==
    ASSUME TypeInv, NEW d \in Delivery, pc[d] = "ticket", NEW t \in Landing(d)
    PROVE  t \in Ticket /\ (t = d \/ Exists(t))
<1>1. /\ tickets \in [Ticket -> Row \cup {NoRow}] /\ given.answers[d] \in Request \cup {None}
      /\ filed \in [Ticket -> Ticket \cup {None}] /\ sent \in [Request -> Ticket \cup {None}]
  BY GivenTypes DEF TypeInv, TypeOK, InboundTypeOK
<1>2. "absent" \notin Reusable(at[d])
  BY DEF Reusable, Reopens, Shut, OpenStatus
<1>3. \A u \in Ticket : tickets[u].status \in Reusable(at[d]) => Exists(u)
  BY <1>1, <1>2 DEF Exists, NoRow
<1>4. \A u \in Candidates(d) : u \in Ticket /\ Exists(u)
  BY <1>3 DEF Candidates
<1>5. \A u \in Answered(d) : u \in Ticket /\ Exists(u)
  BY <1>1, <1>3 DEF Answered, Ticket
<1>6. d \in Ticket
  BY DEF Ticket
<1>7. QED
  BY <1>4, <1>5, <1>6 DEF Landing, OpenCandidates

-----------------------------------------------------------------------------
LEMMA TypesIn == TypeInv <=> /\ DeliveryTypes /\ RequestTypes /\ ClientTypes /\ StageInv
                             /\ given \in Given /\ tickets \in [Ticket -> Row \cup {NoRow}]
                             /\ shut \subseteq Ticket /\ aged \subseteq Ticket
BY DEF TypeInv, TypeOK, InboundTypeOK, DeliveryTypes, RequestTypes, ClientTypes

LEMMA DuplicateTypes ==
    ASSUME TypeInv, [Next]_vars, NEW x \in Delivery, FindDuplicate(x)
    PROVE  DeliveryTypes' /\ \A d \in Delivery : DeliveryStage(d)'
<1>1. /\ pc[x] = "new" /\ before' = [before EXCEPT ![x] = Filed \cap Delivery]
      /\ UNCHANGED <<contacts, tickets, filed, sent, who, to, was, shut, aged>>
      /\ given' = given
  BY TicketSteps DEF FindDuplicate, Arrives
<1>2. PICK label \in {"contact", "duplicate", "refused"}, a \in Account \cup {None} :
         /\ pc' = [pc EXCEPT ![x] = label]
         /\ label = "contact" => a \in Picked(x) /\ at' = [at EXCEPT ![x] = a]
         /\ \/ at' = [at EXCEPT ![x] = a]
            \/ at' = at
  <2>1. \A a \in Picked(x) : a \in Account
    BY GivenTypes
  <2>2. CASE Picked(x) = {} /\ GoTo(x, "refused") /\ UNCHANGED at
    BY <2>2 DEF GoTo
  <2>3. CASE /\ \E a \in Picked(x) : at' = [at EXCEPT ![x] = IF Copies(x) = {} THEN a ELSE None]
             /\ GoTo(x, CASE Copies(x) = {} -> "contact"
                          [] Cardinality(Copies(x)) = 1 -> "duplicate"
                          [] OTHER -> "refused")
    <3>1. CASE Copies(x) = {}
      <4>1. Cardinality(Copies(x)) # 1
        BY <3>1, FS_EmptySet
      <4>2. GoTo(x, "contact") /\ \E a \in Picked(x) : at' = [at EXCEPT ![x] = a]
        BY <2>3, <3>1, <4>1
      <4>3. QED
        BY <2>1, <4>2 DEF GoTo
    <3>2. CASE Copies(x) # {}
      BY <2>3, <3>2 DEF GoTo
    <3>3. QED
      BY <3>1, <3>2
  <2>4. QED
    BY <2>2, <2>3 DEF FindDuplicate
<1>3. DeliveryTypes
  BY TypesIn
<1>4. DeliveryTypes'
  BY <1>1, <1>2, <1>3 DEF DeliveryTypes
<1>5. DeliveryStage(x)'
  BY <1>1, <1>2, <1>3, GivenTypes
     DEF DeliveryTypes, DeliveryStage, TypeInv, StageInv, Exists, Picked, Underway
<1>6. ASSUME NEW d \in Delivery \ {x} PROVE DeliveryStage(d)'
  BY <1>1, <1>2, <1>3, DeliveryStays DEF DeliveryTypes
<1>7. QED
  BY <1>4, <1>5, <1>6

LEMMA ContactTypes ==
    ASSUME TypeInv, [Next]_vars, NEW x \in Delivery, FindContact(x)
    PROVE  DeliveryTypes' /\ \A d \in Delivery : DeliveryStage(d)'
<1>1. /\ pc[x] = "contact" /\ given' = given
      /\ UNCHANGED <<contacts, tickets, filed, sent, at, to, was, before, shut, aged>>
  BY TicketSteps DEF FindContact
<1>2. PICK label \in {"ticket", "refused"} :
         /\ pc' = [pc EXCEPT ![x] = label]
         /\ label = "ticket" => \E c \in {x} \cup Known(x) : who' = [who EXCEPT ![x] = c]
         /\ label = "refused" => who' = who
  BY DEF FindContact, GoTo
<1>3. DeliveryTypes
  BY TypesIn
<1>4. \A c \in {x} \cup Known(x) : c \in Delivery /\ given.from[c] = given.from[x]
  BY <1>3 DEF DeliveryTypes, Known
<1>5. DeliveryTypes'
  BY <1>1, <1>2, <1>3, <1>4 DEF DeliveryTypes
<1>6. DeliveryStage(x)'
  BY <1>1, <1>2, <1>3, <1>4
     DEF DeliveryTypes, DeliveryStage, TypeInv, StageInv, Exists, Picked, Underway
<1>7. ASSUME NEW d \in Delivery \ {x} PROVE DeliveryStage(d)'
  BY <1>1, <1>2, <1>3, DeliveryStays DEF DeliveryTypes
<1>8. QED
  BY <1>5, <1>6, <1>7

LEMMA TicketTypes ==
    ASSUME TypeInv, [Next]_vars, NEW x \in Delivery, FindTicket(x)
    PROVE  DeliveryTypes' /\ \A d \in Delivery : DeliveryStage(d)'
<1>1. /\ pc[x] = "ticket" /\ given' = given /\ pc' = [pc EXCEPT ![x] = "commit"]
      /\ UNCHANGED <<contacts, tickets, filed, sent, at, who, before, shut, aged>>
  BY TicketSteps DEF FindTicket, GoTo
<1>2. PICK t \in Landing(x) :
         /\ to' = [to EXCEPT ![x] = t]
         /\ was' = [was EXCEPT ![x] = IF t = x THEN NewRow(who[x], at[x]) ELSE tickets[t]]
  BY DEF FindTicket
<1>3. DeliveryTypes /\ DeliveryStage(x) /\ tickets \in [Ticket -> Row \cup {NoRow}]
  BY TypesIn DEF StageInv
<1>4. t \in Ticket /\ (t = x \/ Exists(t))
  BY <1>1, LandingIsThere
<1>5. at[x] \in Account /\ who[x] \in Delivery
  BY <1>1, <1>3, GivenTypes DEF DeliveryStage, Underway
<1>6. (IF t = x THEN NewRow(who[x], at[x]) ELSE tickets[t]) \in Row
  BY <1>3, <1>4, <1>5, NewRowType DEF Exists
<1>7. DeliveryTypes'
  BY <1>1, <1>2, <1>3, <1>4, <1>6 DEF DeliveryTypes
<1>8. DeliveryStage(x)'
  BY <1>1, <1>2, <1>3, <1>4, <1>6 DEF DeliveryTypes, DeliveryStage, Exists, Picked, Underway
<1>9. ASSUME NEW d \in Delivery \ {x} PROVE DeliveryStage(d)'
  BY <1>1, <1>2, <1>3, DeliveryStays DEF DeliveryTypes
<1>10. QED
  BY <1>7, <1>8, <1>9

(* What ends a delivery, after its commit or before.                       *)
LEMMA EndTypes ==
    ASSUME TypeInv, [Next]_vars, NEW x \in Delivery,
           CommitMessage(x) \/ Fail(x) \/ Announce(x)
    PROVE  DeliveryTypes' /\ \A d \in Delivery : DeliveryStage(d)'
<1>1. DeliveryTypes /\ DeliveryStage(x)
  BY TypesIn DEF StageInv
<1>2. PICK label \in {"announce", "failed", "done"} :
         /\ pc' = [pc EXCEPT ![x] = label]
         /\ \/ label = "announce"
            \/ label = "failed" /\ pc[x] \in Underway /\ tickets' = tickets
            \/ label = "done" /\ tickets' = tickets
  BY DEF CommitMessage, Fail, Announce, GoTo, Underway
<1>3. /\ before' \in {before, [before EXCEPT ![x] = {}]}
      /\ contacts' \in {contacts, contacts \cup {x}}
      /\ Forget(x) \/ UNCHANGED <<at, who, to, was>>
  BY DEF CommitMessage, Fail, Announce
<1>4. DeliveryTypes'
  BY <1>1, <1>2, <1>3 DEF DeliveryTypes, Forget
<1>5. DeliveryStage(x)'
  BY <1>1, <1>2 DEF DeliveryTypes, DeliveryStage, Underway, Exists
<1>6. ASSUME NEW d \in Delivery \ {x} PROVE DeliveryStage(d)'
  BY <1>1, <1>2, <1>3, DeliveryStays DEF DeliveryTypes, Forget
<1>7. QED
  BY <1>4, <1>5, <1>6

-----------------------------------------------------------------------------
LEMMA RequestTypeKeeps ==
    ASSUME TypeInv, [Next]_vars, NEW x \in Request, RequestStep(x)
    PROVE  RequestTypes' /\ \A q \in Request : RequestStage(q)'
<1>1. /\ RequestTypes /\ RequestStage(x) /\ given' = given /\ given \in Given
      /\ tickets \in [Ticket -> Row \cup {NoRow}] /\ x \in Ticket
  BY TypesIn, TicketSteps DEF StageInv, Ticket
<1>2. /\ RequestTypes' /\ RequestStage(x)'
      /\ \A q \in Request \ {x} : step'[q] = step[q] /\ on'[q] = on[q] /\ saw'[q] = saw[q]
  <2>1. CASE \E c \in Delivery : CreateTicket(x, c)
    BY <1>1, <2>1 DEF CreateTicket, Moves, RequestTypes, RequestStage
  <2>2. CASE \E t \in Ticket : ReadTicket(x, t)
    BY <1>1, <2>2 DEF ReadTicket, Moves, RequestTypes, RequestStage, Exists
  <2>3. CASE SendReply(x)
    BY <1>1, <2>3 DEF SendReply, Moves, RequestTypes, RequestStage, Exists
  <2>4. CASE CommitRequest(x)
    <3>1. PICK f \in {filed[x], on[x]} : filed' = [filed EXCEPT ![x] = f]
      BY <1>1, <2>4 DEF CommitRequest, RequestTypes
    <3>2. PICK label \in {"announce", "done"} : step' = [step EXCEPT ![x] = label]
      BY <2>4 DEF CommitRequest, Moves
    <3>3. saw' = [saw EXCEPT ![x] = NoRow] /\ sent' = sent /\ on' = on
      BY <2>4 DEF CommitRequest
    <3>4. QED
      BY <1>1, <3>1, <3>2, <3>3 DEF RequestTypes, RequestStage
  <2>5. CASE RefuseRequest(x)
    BY <1>1, <2>5 DEF RefuseRequest, Moves, RequestTypes, RequestStage
  <2>6. CASE AnnounceRequest(x)
    BY <1>1, <2>6 DEF AnnounceRequest, inboundVars, Moves, RequestTypes, RequestStage
  <2>7. QED
    BY <2>1, <2>2, <2>3, <2>4, <2>5, <2>6 DEF RequestStep
<1>3. ASSUME NEW q \in Request \ {x} PROVE RequestStage(q)'
  BY <1>2, RequestStays
<1>4. QED
  BY <1>2, <1>3

LEMMA PublishType ==
    ASSUME ClientTypes, Publish
    PROVE  /\ queue' \in [Client -> 0..QueueSize]
           /\ \A c \in Client : conn[c] # "off" => queue'[c] > 0
           /\ \A c \in Client : conn[c] = "off" => queue'[c] = queue[c]
BY DeskAssumption DEF Publish, AtMost, ClientTypes

LEMMA ClientTypeKeeps ==
    ASSUME TypeInv, [Next]_vars PROVE ClientTypes'
<1> USE DEF ClientTypes
<1>1. ClientTypes
  BY TypesIn
<1>2. CASE UNCHANGED clientVars \/ (Publish /\ UNCHANGED <<conn, list>>)
  BY <1>1, <1>2, PublishType DEF clientVars
<1>3. ASSUME NEW c \in Client, Subscribe(c) \/ Greet(c) \/ Hear(c) \/ Disconnect(c)
      PROVE  ClientTypes'
  <2>1. Filed \subseteq Ticket
    BY DEF Filed
  <2>2. QED
    BY <1>1, <1>3, <2>1, DeskAssumption DEF Subscribe, Greet, Hear, Disconnect, Load
<1>4. ASSUME NEW d \in Delivery, AnnounceMessage(d) PROVE ClientTypes'
  BY <1>2, <1>4 DEF AnnounceMessage, clientVars
<1>5. ASSUME NEW q \in Request, RequestStep(q) PROVE ClientTypes'
  BY <1>2, <1>5 DEF RequestStep, CreateTicket, ReadTicket, SendReply, CommitRequest,
                    RefuseRequest, AnnounceRequest, clientVars
<1>6. QED
  BY <1>2, <1>3, <1>4, <1>5 DEF Next, Step, vars

LEMMA NextTypeInv == ASSUME TypeInv, [Next]_vars PROVE TypeInv'
<1> DEFINE Deliveries == DeliveryTypes' /\ \A d \in Delivery : DeliveryStage(d)'
           Requests == RequestTypes' /\ \A q \in Request : RequestStage(q)'
<1>1. /\ given' \in Given /\ tickets' \in [Ticket -> Row \cup {NoRow}]
      /\ shut' \subseteq Ticket /\ aged' \subseteq Ticket /\ ClientTypes'
      /\ DeliveryTypes /\ RequestTypes
  BY TicketsKeep, TicketSteps, TypesIn, ClientTypeKeeps
<1>2. ASSUME UNCHANGED requestVars, sent' = sent, filed' \in [Ticket -> Ticket \cup {None}]
      PROVE  Requests
  BY <1>1, <1>2, RequestStays DEF RequestTypes, requestVars
<1>3. ASSUME UNCHANGED <<contacts, pc, at, who, to, was, before>> PROVE Deliveries
  BY <1>1, <1>3, DeliveryStays DEF DeliveryTypes
<1>4. filed \in [Ticket -> Ticket \cup {None}]
  BY <1>1 DEF RequestTypes
<1> HIDE DEF Deliveries, Requests
<1>5. ASSUME NEW d \in Delivery,
             (Deliver(d) /\ UNCHANGED <<requestVars, clientVars>>) \/ AnnounceMessage(d)
      PROVE  Deliveries /\ Requests
  <2>1. UNCHANGED requestVars /\ sent' = sent
    BY <1>5 DEF Deliver, FindDuplicate, Arrives, FindContact, FindTicket, CommitMessage, Fail,
                AnnounceMessage, Announce
  <2>2. filed' \in [Ticket -> Ticket \cup {None}]
    <3>1. CASE CommitMessage(d)
      BY <1>4, <3>1, MessageWrites DEF CommitMessage
    <3>2. CASE ~CommitMessage(d)
      BY <1>4, <1>5, <3>2 DEF Deliver, FindDuplicate, Arrives, FindContact, FindTicket, Fail,
                              AnnounceMessage, Announce
    <3>3. QED
      BY <3>1, <3>2
  <2>3. Deliveries
    BY <1>5, DuplicateTypes, ContactTypes, TicketTypes, EndTypes
       DEF Deliveries, Deliver, AnnounceMessage
  <2>4. QED
    BY <1>2, <2>1, <2>2, <2>3
<1>6. ASSUME NEW q \in Request, RequestStep(q) PROVE Deliveries /\ Requests
  <2>1. UNCHANGED <<contacts, pc, at, who, to, was, before>>
    BY <1>6 DEF RequestStep, CreateTicket, ReadTicket, SendReply, CommitRequest,
                RefuseRequest, AnnounceRequest, DeliveriesStay, inboundVars
  <2>2. QED
    BY <1>3, <1>6, <2>1, RequestTypeKeeps DEF Requests
<1>7. ASSUME NEW t \in Ticket, Age(t), UNCHANGED <<requestVars, clientVars>>
      PROVE  Deliveries /\ Requests
  BY <1>2, <1>3, <1>4, <1>7 DEF Age
<1>8. ASSUME NEW c \in Client, Subscribe(c) \/ Greet(c) \/ Hear(c) \/ Disconnect(c)
      PROVE  Deliveries /\ Requests
  BY <1>2, <1>3, <1>4, <1>8 DEF Subscribe, Greet, Hear, Disconnect, inboundVars
<1>9. ASSUME UNCHANGED vars PROVE Deliveries /\ Requests
  BY <1>2, <1>3, <1>4, <1>9 DEF vars, inboundVars
<1>10. ASSUME Next PROVE Deliveries /\ Requests
  BY <1>5, <1>6, <1>7, <1>8, <1>10 DEF Next, Step
<1>11. Deliveries /\ Requests
  BY <1>9, <1>10
<1>12. StageInv'
  BY <1>11 DEF Deliveries, Requests, StageInv
<1>13. TypeOK'
  BY <1>1, <1>11 DEF Deliveries, Requests, DeliveryTypes, RequestTypes, ClientTypes,
                     TypeOK, InboundTypeOK
<1>14. QED
  BY <1>12, <1>13 DEF TypeInv

LEMMA InitTypeInv == ASSUME Init PROVE TypeInv
<1>1. \A d \in Delivery : DeliveryStage(d)
  BY DEF Init, InboundInit, DeliveryStage, Underway, Exists, Ticket
<1>2. \A q \in Request : RequestStage(q)
  BY DEF Init, InboundInit, RequestStage, Exists, Ticket
<1>3. TypeOK
  BY DeskAssumption DEF Init, InboundInit, TypeOK, InboundTypeOK
<1>4. QED
  BY <1>1, <1>2, <1>3 DEF TypeInv, StageInv

(* The types hold, and so does what a delivery or a request under way      *)
(* relies on: the ticket whose row it has read is never taken away.        *)
THEOREM StagesCorrect == Spec => []TypeInv
BY InitTypeInv, NextTypeInv, PTL DEF Spec

(* Every variable of the desk has its type in every reachable state. *)
THEOREM TypeCorrect == Spec => []TypeOK
BY StagesCorrect, PTL DEF TypeInv

-----------------------------------------------------------------------------
(* A new ticket is open and fresh; an old one stays where it was, or the   *)
(* histories have it.                                                      *)
LEMMA MadeRow ==
    ASSUME TypeInv, [Next]_vars, NEW t \in Ticket, ~Exists(t), Exists(t)'
    PROVE  \E c \in Delivery, a \in Account \cup {None} :
              /\ tickets'[t] = NewRow(c, a)
              /\ t \in Delivery => CommitMessage(t) /\ to[t] = t /\ c = who[t] /\ a = at[t]
<1>1. CASE t \in Delivery /\ CommitMessage(t) /\ to[t] = t
  <2>1. tickets'[t] = was[t] /\ CommitMessage(t) /\ to[t] = t
    BY <1>1, MessageWrites
  <2>2. /\ was[t] = NewRow(who[t], at[t]) /\ who[t] \in Delivery
        /\ at[t] \in given.accounts
    BY <1>1 DEF TypeInv, StageInv, DeliveryStage, CommitMessage, Underway
  <2>3. given.accounts \subseteq Account
    BY <1>1, GivenTypes
  <2>4. at[t] \in Account \cup {None}
    BY <2>2, <2>3
  <2>5. QED
    BY <2>1, <2>2, <2>4, Zenon
<1>2. CASE t \in Request /\ \E c \in Delivery : CreateTicket(t, c)
  BY <1>2, InboundAssumption DEF CreateTicket, TypeInv, TypeOK, InboundTypeOK
<1>3. QED
  BY <1>1, <1>2, TicketsMade

LEMMA StandingKeeps ==
    ASSUME TypeInv, [Next]_vars, \A t \in Ticket : StandingInv(t)
    PROVE  \A t \in Ticket : StandingInv(t)'
<1> SUFFICES ASSUME NEW t \in Ticket, Exists(t)' PROVE StandingInv(t)'
  BY DEF StandingInv
<1>1. given' = given /\ shut \subseteq shut' /\ aged \subseteq aged'
  BY TicketSteps, TicketsKeep
<1>2. CASE Exists(t)
  BY <1>1, <1>2, TicketsKeep DEF StandingInv, Kept, Reusable, Reopens
<1>3. CASE ~Exists(t)
  <2>1. tickets'[t].status = "open" /\ tickets'[t].fresh
    <3>1. PICK c \in Delivery, a \in Account \cup {None} : tickets'[t] = NewRow(c, a)
      BY <1>3, MadeRow
    <3>2. QED
      BY <3>1 DEF NewRow
  <2>2. QED
    BY <1>1, <2>1 DEF StandingInv, Reusable, OpenStatus
<1>4. QED
  BY <1>2, <1>3

-----------------------------------------------------------------------------
(* Replies and their answers *)

LEMMA SentKeeps ==
    ASSUME TypeInv, [Next]_vars, \A q \in Request : SentInv(q)
    PROVE  \A q \in Request : SentInv(q)' /\ (sent[q] # None => sent'[q] = sent[q])
<1> SUFFICES ASSUME NEW q \in Request PROVE SentInv(q)' /\ (sent[q] # None => sent'[q] = sent[q])
  OBVIOUS
<1>1. /\ given' = given /\ RequestTypes /\ SentInv(q) /\ RequestStage(q)
      /\ q \in Ticket /\ q \notin Delivery
  BY TicketSteps, TypesIn, InboundAssumption DEF TypeInv, StageInv, Ticket
<1>2. on[q] \in Ticket /\ Exists(on[q]) => tickets'[on[q]] # NoRow
  BY TicketsStay DEF Exists
<1>3. sent[q] # None => on[q] \in Ticket
  BY <1>1 DEF RequestTypes, SentInv
<1>4. ASSUME step'[q] = step[q], sent'[q] = sent[q], on'[q] = on[q], filed'[q] = filed[q]
      PROVE  SentInv(q)' /\ (sent[q] # None => sent'[q] = sent[q])
  BY <1>1, <1>2, <1>3, <1>4 DEF SentInv, Exists
<1>5. ASSUME NEW x \in Request, RequestStep(x)
      PROVE  SentInv(q)' /\ (sent[q] # None => sent'[q] = sent[q])
  <2>1. CASE x # q
    <3>1. /\ step'[q] = step[q] /\ on'[q] = on[q]
          /\ sent'[q] = sent[q] /\ filed'[q] = filed[q]
      BY <1>1, <1>5, <2>1
         DEF RequestTypes, RequestStep, CreateTicket, ReadTicket, SendReply, CommitRequest,
             RefuseRequest, AnnounceRequest, Moves, inboundVars
    <3>2. QED
      BY <1>4, <3>1
  <2>2. CASE x = q
    <3>1. CASE \E c \in Delivery : CreateTicket(q, c)
      BY <1>1, <3>1 DEF CreateTicket, Moves, SentInv, RequestTypes
    <3>2. CASE \E t \in Ticket : ReadTicket(q, t)
      BY <1>1, <3>2 DEF ReadTicket, Moves, SentInv, RequestTypes
    <3>3. CASE SendReply(q)
      BY <1>1, <1>2, <3>3 DEF SendReply, Moves, SentInv, RequestTypes, RequestStage, Exists
    <3>4. CASE CommitRequest(q)
      <4>1. /\ step[q] \in {"read", "sent"} /\ (given.op[q] = "reply" => step[q] = "sent")
            /\ filed' = IF given.op[q] = "reply" THEN [filed EXCEPT ![q] = on[q]] ELSE filed
            /\ sent' = sent /\ on' = on /\ step'[q] \in {"announce", "done"}
        BY <1>1, <3>4 DEF CommitRequest, Moves, RequestTypes
      <4>2. tickets'[on[q]] # NoRow
        BY <1>1, <1>2, <4>1 DEF RequestStage
      <4>3. filed'[q] = IF given.op[q] = "reply" THEN on[q] ELSE filed[q]
        BY <1>1, <4>1 DEF RequestTypes
      <4>4. filed'[q] # None => filed'[q] = sent[q]
        BY <1>1, <4>1, <4>3 DEF SentInv
      <4>5. QED
        BY <1>1, <4>1, <4>2, <4>4 DEF SentInv, RequestTypes, RequestStage, Exists
    <3>5. CASE RefuseRequest(q)
      BY <1>1, <1>2, <1>3, <3>5 DEF RefuseRequest, Moves, SentInv, RequestTypes, Exists
    <3>6. CASE AnnounceRequest(q)
      BY <1>1, <1>2, <1>3, <3>6 DEF AnnounceRequest, inboundVars, Moves, SentInv, RequestTypes, Exists
    <3>7. QED
      BY <1>5, <2>2, <3>1, <3>2, <3>3, <3>4, <3>5, <3>6 DEF RequestStep
  <2>3. QED
    BY <2>1, <2>2
<1>6. ASSUME NEW d \in Delivery,
             (Deliver(d) /\ UNCHANGED <<requestVars, clientVars>>) \/ AnnounceMessage(d)
      PROVE  UNCHANGED requestVars /\ sent' = sent /\ filed'[q] = filed[q]
  BY <1>1, <1>6 DEF Deliver, FindDuplicate, Arrives, FindContact, FindTicket, CommitMessage, Fail,
                    AnnounceMessage, Announce, RequestTypes
<1>7. ASSUME NEW t \in Ticket, Age(t), UNCHANGED <<requestVars, clientVars>>
      PROVE  UNCHANGED requestVars /\ sent' = sent /\ filed' = filed
  BY <1>7 DEF Age
<1>8. ASSUME NEW c \in Client, Subscribe(c) \/ Greet(c) \/ Hear(c) \/ Disconnect(c)
      PROVE  UNCHANGED requestVars /\ sent' = sent /\ filed' = filed
  BY <1>8 DEF Subscribe, Greet, Hear, Disconnect, inboundVars
<1>9. CASE Next
  BY <1>4, <1>5, <1>6, <1>7, <1>8, <1>9 DEF Next, Step, requestVars
<1>10. CASE UNCHANGED vars
  BY <1>4, <1>10 DEF vars, inboundVars, requestVars
<1>11. QED
  BY <1>9, <1>10

(* The answer goes to the ticket of the reply, or that was shut once.      *)
LEMMA AnswerLands ==
    ASSUME TypeInv, \A t \in Ticket : StandingInv(t), \A q \in Request : SentInv(q),
           NEW d \in Delivery, pc[d] = "ticket", AnswerInv(d), given.answers[d] # None,
           NEW t \in Landing(d)
    PROVE  t = sent[given.answers[d]] \/ sent[given.answers[d]] \in shut
<1> DEFINE q == given.answers[d]
<1>1. q \in Request /\ sent[q] # None /\ at[d] \in given.accounts
  BY GivenTypes DEF AnswerInv, Underway, TypeInv, StageInv, DeliveryStage
<1>2. sent[q] \in Ticket /\ Exists(sent[q]) /\ filed[q] \in {None, sent[q]}
  BY <1>1 DEF SentInv, TypeInv, TypeOK, InboundTypeOK
<1>3. CASE tickets[sent[q]].status \in Reusable(at[d])
  BY <1>1, <1>2, <1>3 DEF Answered, Landing
<1>4. CASE tickets[sent[q]].status \notin Reusable(at[d])
  BY <1>1, <1>2, <1>4 DEF StandingInv
<1>5. QED
  BY <1>3, <1>4

LEMMA AnswerKeeps ==
    ASSUME TypeInv, [Next]_vars, \A t \in Ticket : StandingInv(t),
           \A q \in Request : SentInv(q), \A d \in Delivery : AnswerInv(d)
    PROVE  \A d \in Delivery : AnswerInv(d)'
<1> SUFFICES ASSUME NEW d \in Delivery, given.answers[d] # None PROVE AnswerInv(d)'
  <2>1. given' = given
    BY TicketSteps
  <2>2. QED
    BY <2>1 DEF AnswerInv
<1> DEFINE q == given.answers[d]
<1>1. /\ given' = given /\ shut \subseteq shut' /\ q \in Request
      /\ sent[q] # None => sent'[q] = sent[q]
      /\ AnswerInv(d) /\ DeliveryTypes /\ RequestTypes
      /\ d \in Ticket /\ d \notin Request
  BY TicketSteps, TicketsKeep, SentKeeps, GivenTypes, TypesIn, InboundAssumption DEF Ticket
<1>2. ASSUME pc'[d] \in Underway => pc[d] \in Underway,
             pc'[d] = "commit" => pc[d] = "commit" /\ to'[d] = to[d],
             filed'[d] = filed[d]
      PROVE  AnswerInv(d)'
  BY <1>1, <1>2 DEF AnswerInv, Underway
<1>3. ASSUME pc'[d] = pc[d], to'[d] = to[d], filed'[d] = filed[d] PROVE AnswerInv(d)'
  BY <1>2, <1>3
<1>4. ASSUME NEW x \in Delivery, Deliver(x) \/ AnnounceMessage(x) PROVE AnswerInv(d)'
  <2>1. CASE x # d
    BY <1>1, <1>3, <1>4, <2>1
       DEF Deliver, FindDuplicate, Arrives, FindContact, FindTicket, CommitMessage, Fail,
           AnnounceMessage, Announce, GoTo, Forget, DeliveryTypes, RequestTypes
  <2>2. CASE FindDuplicate(d)
    <3>1. sent[q] # None /\ pc'[d] # "commit" /\ filed' = filed /\ filed[d] = filed'[d]
      BY <1>1, <2>2 DEF FindDuplicate, Arrives, GoTo, DeliveryTypes
    <3>2. QED
      BY <1>1, <3>1 DEF AnswerInv
  <2>3. CASE FindContact(d)
    BY <1>1, <1>2, <2>3 DEF FindContact, GoTo, Underway, DeliveryTypes
  <2>4. CASE FindTicket(d)
    <3>1. PICK t \in Landing(d) : to' = [to EXCEPT ![d] = t]
      BY <2>4 DEF FindTicket
    <3>2. pc[d] = "ticket" /\ pc'[d] = "commit" /\ to'[d] = t /\ filed' = filed
      BY <1>1, <2>4, <3>1 DEF FindTicket, GoTo, DeliveryTypes
    <3>3. t = sent[q] \/ sent[q] \in shut
      BY <1>1, <3>2, AnswerLands
    <3>4. QED
      BY <1>1, <3>2, <3>3 DEF AnswerInv, Underway
  <2>5. CASE CommitMessage(d)
    <3>1. pc[d] = "commit" /\ pc'[d] = "announce" /\ filed'[d] = to[d]
      BY <1>1, <2>5 DEF CommitMessage, GoTo, DeliveryTypes, RequestTypes
    <3>2. QED
      BY <1>1, <3>1 DEF AnswerInv, Underway
  <2>6. CASE Fail(d)
    BY <1>1, <1>2, <2>6 DEF Fail, GoTo, Underway, DeliveryTypes
  <2>7. CASE AnnounceMessage(d)
    BY <1>1, <1>2, <2>7 DEF AnnounceMessage, Announce, GoTo, Underway, DeliveryTypes
  <2>8. QED
    BY <1>4, <2>1, <2>2, <2>3, <2>4, <2>5, <2>6, <2>7 DEF Deliver
<1>5. ASSUME NEW x \in Request, RequestStep(x) PROVE AnswerInv(d)'
  <2>1. pc' = pc /\ to' = to /\ filed'[d] = filed[d]
    BY <1>1, <1>5 DEF RequestStep, CreateTicket, ReadTicket, SendReply, CommitRequest,
         RefuseRequest, AnnounceRequest, DeliveriesStay, inboundVars, RequestTypes
  <2>2. QED
    BY <1>3, <2>1
<1>6. ASSUME NEW t \in Ticket, Age(t) PROVE AnswerInv(d)'
  BY <1>3, <1>6 DEF Age
<1>7. ASSUME NEW c \in Client, Subscribe(c) \/ Greet(c) \/ Hear(c) \/ Disconnect(c)
      PROVE  AnswerInv(d)'
  BY <1>3, <1>7 DEF Subscribe, Greet, Hear, Disconnect, inboundVars
<1>8. CASE Next
  BY <1>4, <1>5, <1>6, <1>7, <1>8 DEF Next, Step
<1>9. CASE UNCHANGED vars
  BY <1>3, <1>9 DEF vars, inboundVars
<1>10. QED
  BY <1>8, <1>9

-----------------------------------------------------------------------------
(* Tickets that messages make, and who finds them *)

(* What a step does to a delivery x: one of its own steps, or nothing.     *)
Apart(x) ==
    /\ pc'[x] = pc[x] /\ who'[x] = who[x] /\ to'[x] = to[x] /\ filed'[x] = filed[x]
    /\ before'[x] = before[x]

LEMMA CommitFacts ==
    ASSUME NEW d \in Delivery, CommitMessage(d)
    PROVE  /\ pc[d] = "commit" /\ pc' = [pc EXCEPT ![d] = "announce"]
           /\ filed' = [filed EXCEPT ![d] = to[d]]
           /\ contacts' = IF who[d] = d THEN contacts \cup {d} ELSE contacts
           /\ who' = [who EXCEPT ![d] = None] /\ to' = [to EXCEPT ![d] = None]
           /\ before' = before
BY DEF CommitMessage, GoTo, Forget

LEMMA DeliverySteps ==
    ASSUME TypeInv, [Next]_vars, NEW x \in Delivery
    PROVE  /\ given' = given /\ contacts \subseteq contacts'
           /\ Apart(x) \/ Deliver(x) \/ AnnounceMessage(x)
           /\ contacts' = contacts \/ \E d \in Delivery : CommitMessage(d) /\ contacts' = contacts \cup {d}
<1>1. given' = given /\ DeliveryTypes /\ RequestTypes /\ x \in Ticket /\ x \notin Request
  BY TicketSteps, TypesIn, InboundAssumption DEF Ticket
<1>2. ASSUME UNCHANGED <<contacts, pc, who, to, before>>, filed'[x] = filed[x]
      PROVE  contacts' = contacts /\ Apart(x)
  BY <1>2 DEF Apart
<1>3. ASSUME NEW d \in Delivery, Deliver(d) \/ AnnounceMessage(d)
      PROVE  /\ Apart(x) \/ Deliver(x) \/ AnnounceMessage(x)
             /\ contacts' = contacts \/ (CommitMessage(d) /\ contacts' = contacts \cup {d})
  <2>1. contacts' = contacts \/ (CommitMessage(d) /\ contacts' = contacts \cup {d})
    BY <1>3, CommitFacts DEF Deliver, FindDuplicate, Arrives, FindContact, FindTicket, Fail,
                AnnounceMessage, Announce
  <2>2. CASE x = d
    BY <1>3, <2>1, <2>2
  <2>3. CASE x # d
    <3>1. /\ pc'[x] = pc[x] /\ who'[x] = who[x] /\ to'[x] = to[x]
          /\ before'[x] = before[x]
      BY <1>1, <1>3, <2>3, CommitFacts DEF Deliver, FindDuplicate, Arrives, FindContact,
           FindTicket, Fail, AnnounceMessage, Announce, GoTo, Forget, DeliveryTypes
    <3>2. filed' = filed \/ filed' = [filed EXCEPT ![d] = to[d]]
      BY <1>3, CommitFacts DEF Deliver, FindDuplicate, Arrives, FindContact, FindTicket, Fail,
           AnnounceMessage, Announce
    <3>3. filed'[x] = filed[x]
      BY <1>1, <2>3, <3>2 DEF RequestTypes
    <3>4. QED
      BY <2>1, <3>1, <3>3 DEF Apart
  <2>4. QED
    BY <2>2, <2>3
<1>4. ASSUME NEW q \in Request, RequestStep(q) PROVE contacts' = contacts /\ Apart(x)
  <2>1. UNCHANGED <<contacts, pc, who, to, before>> /\ filed'[x] = filed[x]
    BY <1>1, <1>4 DEF RequestStep, CreateTicket, ReadTicket, SendReply, CommitRequest,
         RefuseRequest, AnnounceRequest, DeliveriesStay, inboundVars, RequestTypes
  <2>2. QED
    BY <1>2, <2>1
<1>5. ASSUME NEW t \in Ticket, Age(t) PROVE contacts' = contacts /\ Apart(x)
  BY <1>2, <1>5 DEF Age
<1>6. ASSUME NEW c \in Client, Subscribe(c) \/ Greet(c) \/ Hear(c) \/ Disconnect(c)
      PROVE  contacts' = contacts /\ Apart(x)
  BY <1>2, <1>6 DEF Subscribe, Greet, Hear, Disconnect, inboundVars
<1>7. CASE Next
  BY <1>1, <1>3, <1>4, <1>5, <1>6, <1>7 DEF Next, Step
<1>8. CASE UNCHANGED vars
  BY <1>1, <1>2, <1>8 DEF vars, inboundVars
<1>9. QED
  BY <1>7, <1>8

(* A new contact has only its delivery's message.                          *)
LEMMA FiniteContacts ==
    ASSUME TypeInv, [Next]_vars, IsFiniteSet(contacts) PROVE IsFiniteSet(contacts')
<1>1. CASE Delivery = {}
  <2>1. contacts' = {}
    BY <1>1, NextTypeInv DEF TypeInv, TypeOK, InboundTypeOK
  <2>2. QED
    BY <2>1, FS_EmptySet
<1>2. ASSUME NEW x \in Delivery PROVE IsFiniteSet(contacts')
  BY DeliverySteps, FS_AddElement
<1>3. QED
  BY <1>1, <1>2

LEMMA OwnTicketKeeps ==
    ASSUME TypeInv, IInv, [Next]_vars, NEW d \in Delivery, OwnTicketInv(d)
    PROVE  OwnTicketInv(d)'
<1>1. /\ given' = given /\ contacts \subseteq contacts' /\ DeliveryTypes /\ RequestTypes
      /\ Picked(d)' = Picked(d)
      /\ d \in Ticket /\ d \notin Request /\ DeliveryStage(d) /\ FiledInv
      /\ filed[d] # None => d \in Filed
  BY DeliverySteps, TypesIn, InboundAssumption DEF Ticket, TypeInv, StageInv, Picked, IInv, Filed
<1>2. ~Exists(d) /\ Exists(d)' => CommitMessage(d) /\ to[d] = d
  BY <1>1, TicketsMade
<1>3. Exists(d) => Kept(d) /\ Exists(d)'
  BY <1>1, TicketsKeep, TicketsStay
<1>4. d # None /\ (filed[d] = d => pc[d] \notin Underway)
  BY <1>1, InboundAssumption DEF FiledInv, Underway
<1>5. CASE pc'[d] \in {"ticket", "commit"} => who'[d] \in contacts \cup {d}
  <2>1. CASE CommitMessage(d)
    <3>1. /\ filed'[d] = to[d] /\ pc[d] = "commit" /\ ~Exists(d)
          /\ contacts' = IF who[d] = d THEN contacts \cup {d} ELSE contacts
          /\ pc'[d] = "announce"
      BY <1>1, <2>1, MessageWrites, CommitFacts DEF RequestTypes, DeliveryTypes
    <3>2. CASE to[d] = d
      <4>1. tickets'[d] = NewRow(who[d], at[d])
        BY <1>1, <2>1, <3>1, <3>2, MessageWrites DEF DeliveryStage
      <4>2. /\ tickets'[d] # NoRow /\ tickets'[d].channel = at[d]
            /\ tickets'[d].contact = who[d]
        <5>1. NewRow(who[d], at[d]) \in Row
          BY <1>1, <3>1, NewRowType, GivenTypes DEF DeliveryStage, Underway
        <5>2. tickets'[d] # NoRow
          BY <4>1, <5>1, NoRowIsNoRow
        <5>3. QED
          BY <4>1, <5>2 DEF NewRow
      <4>3. at[d] \in Picked(d) /\ who[d] \in contacts' /\ given.from[who[d]] = given.from[d]
        BY <1>1, <3>1 DEF DeliveryStage, OwnTicketInv, Underway
      <4>4. QED
        BY <1>1, <1>5, <3>1, <3>2, <4>2, <4>3 DEF OwnTicketInv, Exists
    <3>3. CASE to[d] # d
      BY <1>2, <1>5, <3>1, <3>3 DEF OwnTicketInv
    <3>4. QED
      BY <3>2, <3>3
  <2>2. CASE ~CommitMessage(d)
    <3>1. filed'[d] = filed[d]
      BY <2>2, DeliverySteps DEF Apart, Deliver, FindDuplicate, Arrives, FindContact, FindTicket,
           Fail, AnnounceMessage, Announce
    <3>2. QED
      BY <1>1, <1>2, <1>3, <1>5, <2>2, <3>1 DEF OwnTicketInv, Kept
  <2>3. QED
    BY <2>1, <2>2
<1>6. pc'[d] \in {"ticket", "commit"} => who'[d] \in contacts \cup {d}
  <2>1. CASE FindContact(d)
    BY <1>1, <2>1 DEF FindContact, GoTo, Known, DeliveryTypes
  <2>2. CASE FindTicket(d)
    BY <1>1, <2>2 DEF FindTicket, GoTo, OwnTicketInv
  <2>3. CASE FindDuplicate(d) \/ CommitMessage(d) \/ Fail(d) \/ AnnounceMessage(d)
    <3>1. pc'[d] \notin {"ticket", "commit"}
      BY <1>1, <2>3 DEF FindDuplicate, CommitMessage, Fail, AnnounceMessage, Announce, GoTo, DeliveryTypes
    <3>2. QED
      BY <3>1
  <2>4. CASE Apart(d)
    BY <1>1, <2>4 DEF Apart, OwnTicketInv
  <2>5. QED
    BY <2>1, <2>2, <2>3, <2>4, DeliverySteps DEF Deliver
<1>7. QED
  BY <1>5, <1>6

-----------------------------------------------------------------------------
(* What was filed when a delivery began stays as it was.                   *)
LEMMA BeforeStays ==
    ASSUME TypeInv, IInv, [Next]_vars, NEW e \in Delivery, NEW d \in before[e], OwnTicketInv(d)
    PROVE  /\ d \in Delivery /\ filed'[d] = filed[d]
           /\ filed[d] = d => /\ Exists(d) /\ Kept(d) /\ tickets[d].contact \in contacts
                              /\ given.from[tickets[d].contact] = given.from[d]
                              /\ tickets[d].channel \in Picked(d)
<1>1. d \in Delivery /\ d \in Filed /\ pc[d] \in {"announce", "done"} /\ d \in Ticket
  BY DEF IInv, FiledInv, Types, Ticket
<1>2. filed'[d] = filed[d]
  BY <1>1, DeliverySteps, CommitFacts
     DEF Apart, Deliver, FindDuplicate, Arrives, FindContact, FindTicket, Fail, AnnounceMessage, Announce
<1>3. QED
  BY <1>1, <1>2, TicketsKeep DEF OwnTicketInv

LEMMA AloneIsThat ==
    ASSUME NEW S, IsFiniteSet(S), ~(Cardinality(S) > 1), NEW x \in S, NEW y \in S
    PROVE  x = y
<1>1. Cardinality(S) \in Nat
  BY FS_CardinalityType
<1>2. Cardinality(S) # 0
  BY FS_EmptySet
<1>3. Cardinality(S) = 1
  BY <1>1, <1>2
<1>4. PICK z : S = {z}
  BY <1>3, FS_Singleton
<1>5. QED
  BY <1>4

LEMMA SameContactKeeps ==
    ASSUME TypeInv, IInv, [Next]_vars, IsFiniteSet(contacts),
           \A d \in Delivery : OwnTicketInv(d), NEW e \in Delivery, SameContactInv(e)
    PROVE  SameContactInv(e)'
<1>1. /\ given' = given /\ DeliveryTypes /\ FiledInv
      /\ \A d \in before[e] : d \in Delivery
  BY TicketSteps, TypesIn DEF IInv, DeliveryTypes
<1>2. CASE Apart(e)
  <2>1. ASSUME NEW d \in before[e], filed[d] = d, pc[e] = "ticket", given.from[d] = given.from[e]
        PROVE  who[e] = tickets'[d].contact
    BY <1>1, <2>1, BeforeStays DEF SameContactInv, Kept
  <2>2. QED
    BY <1>1, <1>2, <2>1, BeforeStays DEF SameContactInv, Apart
<1>3. CASE FindContact(e)
  <2>1. /\ tickets' = tickets /\ filed' = filed /\ before' = before /\ contacts' = contacts
        /\ pc[e] = "contact"
    BY <1>3 DEF FindContact
  <2>2. ASSUME NEW d \in before[e], filed[d] = d, given.from[d] = given.from[e],
               pc'[e] = "ticket"
        PROVE  who'[e] = tickets[d].contact
    <3>1. tickets[d].contact \in Known(e)
      BY <1>1, <2>2, BeforeStays DEF Known
    <3>2. Cardinality(Known(e)) <= 1 /\ who'[e] \in Known(e)
      BY <1>1, <1>3, <2>2, <3>1 DEF FindContact, GoTo, DeliveryTypes
    <3>3. IsFiniteSet(Known(e))
      BY FS_Subset DEF Known
    <3>4. ~(Cardinality(Known(e)) > 1)
      BY <3>2, <3>3, FS_CardinalityType
    <3>5. QED
      BY <3>1, <3>2, <3>3, <3>4, AloneIsThat
  <2>3. QED
    BY <1>1, <2>1, <2>2 DEF SameContactInv
<1>4. CASE FindDuplicate(e) \/ FindTicket(e) \/ CommitMessage(e) \/ Fail(e) \/ AnnounceMessage(e)
  <2>1. pc'[e] # "ticket"
    BY <1>1, <1>4, CommitFacts DEF FindDuplicate, FindTicket, Fail, AnnounceMessage, Announce, GoTo, DeliveryTypes
  <2>2. QED
    BY <2>1 DEF SameContactInv
<1>5. QED
  BY <1>2, <1>3, <1>4, DeliverySteps DEF Deliver

(* A message gets a ticket of its own only if those that were there before *)
(* it began were out of reach.                                             *)
LEMMA NoneFits ==
    ASSUME TypeInv, NEW e \in Delivery, pc[e] = "ticket", e \in Landing(e),
           SameContactInv(e), NEW d \in before[e], OwnTicketInv(d), StandingInv(d),
           filed[d] = d, Alike(d, e), ~(Cardinality(given.sentTo[e]) > 1)
    PROVE  d \in shut \cup aged
<1>1. /\ e \in Ticket /\ ~Exists(e) /\ DeliveryTypes /\ d \in Delivery /\ d \in Ticket
      /\ at[e] \in Picked(e) /\ at[e] \in given.accounts
      /\ Exists(d) /\ tickets[d].channel \in Picked(d) /\ tickets[d].contact = who[e]
  BY TypesIn DEF TypeInv, StageInv, DeliveryStage, Underway, Ticket, DeliveryTypes, OwnTicketInv,
                 SameContactInv, Alike
<1>2. tickets[d].channel = at[e]
  <2>1. Picked(d) = Picked(e) /\ given \in Given
    BY GivenTypes DEF Alike, Picked
  <2>2. IsFiniteSet(given.accounts) /\ IsFiniteSet(given.sentTo[e])
    BY <2>1, InboundAssumption, FS_Subset
  <2>3. IsFiniteSet(Picked(e)) /\ ~(Cardinality(Picked(e)) > 1)
    BY <2>2, FS_EmptySet DEF Picked
  <2>4. QED
    BY <1>1, <2>1, <2>3, AloneIsThat
<1>3. Candidates(e) = {}
  <2>1. tickets[e].status \notin Reusable(at[e])
    BY <1>1 DEF Exists, NoRow, Reusable, Reopens, Shut, OpenStatus
  <2>2. e \notin Candidates(e) /\ e \notin Answered(e)
    BY <2>1 DEF Candidates, Answered
  <2>3. QED
    BY <2>2 DEF Landing, OpenCandidates
<1>4. QED
  BY <1>1, <1>2, <1>3 DEF StandingInv, Candidates

LEMMA SplitKeeps ==
    ASSUME TypeInv, IInv, [Next]_vars, \A d \in Delivery : OwnTicketInv(d),
           \A t \in Ticket : StandingInv(t),
           NEW e \in Delivery, SameContactInv(e), SplitInv(e)
    PROVE  SplitInv(e)'
<1>1. /\ given' = given /\ shut \subseteq shut' /\ aged \subseteq aged' /\ DeliveryTypes /\ RequestTypes
      /\ e \in Ticket /\ e # None
      /\ \A d \in before[e] : d \in Delivery /\ d \in Ticket /\ filed'[d] = filed[d]
  BY TicketSteps, TicketsKeep, TypesIn, InboundAssumption, BeforeStays DEF Ticket, IInv, Types
<1>2. ASSUME before'[e] = before[e], NEW d \in before[e], filed'[d] = d, Alike(d, e)',
             \/ filed[e] = e
             \/ pc[e] = "commit" /\ to[e] = e
             \/ d \in shut \cup aged
             \/ Cardinality(given.sentTo[e]) > 1
      PROVE  d \in shut' \cup aged' \/ Cardinality(given.sentTo[e]) > 1
  BY <1>1, <1>2 DEF SplitInv, Alike
<1>3. CASE Apart(e) \/ CommitMessage(e) \/ AnnounceMessage(e)
  <2>1. /\ before'[e] = before[e]
        /\ filed'[e] = e \/ (pc'[e] = "commit" /\ to'[e] = e) =>
              filed[e] = e \/ (pc[e] = "commit" /\ to[e] = e)
    BY <1>1, <1>3, CommitFacts DEF Apart, AnnounceMessage, Announce, GoTo, DeliveryTypes, RequestTypes
  <2>2. QED
    BY <1>1, <1>2, <2>1 DEF SplitInv
<1>4. CASE FindTicket(e)
  <2>1. /\ before' = before /\ filed' = filed /\ pc[e] = "ticket"
        /\ \E t \in Landing(e) : to'[e] = t
    BY <1>1, <1>4 DEF FindTicket, DeliveryTypes
  <2>2. filed[e] # e
    BY <1>1, <2>1 DEF IInv, FiledInv, Filed
  <2>3. ASSUME to'[e] = e, NEW d \in before[e], filed[d] = d, Alike(d, e)
        PROVE  d \in shut \cup aged \/ Cardinality(given.sentTo[e]) > 1
    BY <1>1, <2>1, <2>3, NoneFits
  <2>4. QED
    BY <1>1, <1>2, <2>1, <2>2, <2>3 DEF SplitInv, Alike
<1>5. CASE FindDuplicate(e) \/ FindContact(e) \/ Fail(e)
  <2>1. filed' = filed /\ pc[e] \in {"new", "contact", "ticket", "commit"} /\ pc'[e] # "commit"
    BY <1>1, <1>5 DEF FindDuplicate, Arrives, FindContact, Fail, GoTo, DeliveryTypes
  <2>2. filed[e] # e
    BY <1>1, <2>1 DEF IInv, FiledInv, Filed
  <2>3. QED
    BY <2>1, <2>2 DEF SplitInv
<1>6. QED
  BY <1>3, <1>4, <1>5, DeliverySteps DEF Deliver

-----------------------------------------------------------------------------
(* The clients of the inbox stream *)

LEMMA CatchUpKeeps ==
    ASSUME TypeInv, [Next]_vars, NEW c \in Client, CatchUpInv(c)
    PROVE  CatchUpInv(c)'
<1>1. /\ given' = given /\ ClientTypes /\ ClientTypes' /\ DeliveryTypes /\ RequestTypes
      /\ Delivery \cap Request = {}
  BY TicketSteps, ClientTypeKeeps, TypesIn, InboundAssumption
<1>2. ASSUME conn'[c] = conn[c], queue'[c] = queue[c], list'[c] = list[c],
             \A m \in Filed' : \/ m \in Filed
                               \/ m \in Delivery /\ pc'[m] = "announce"
                               \/ m \in Request /\ step'[m] = "announce",
             \A m \in Delivery : pc[m] = "announce" =>
                 pc'[m] = "announce" \/ m \in given.polled,
             \A m \in Request : step[m] = "announce" => step'[m] = "announce"
      PROVE  CatchUpInv(c)'
  BY <1>1, <1>2 DEF CatchUpInv
<1>3. ASSUME Publish, conn' = conn PROVE CatchUpInv(c)'
  BY <1>1, <1>3, PublishType DEF CatchUpInv
<1>4. ASSUME NEW x \in Client, Subscribe(x) \/ Greet(x) \/ Hear(x) \/ Disconnect(x)
      PROVE  CatchUpInv(c)'
  <2>1. Filed' = Filed /\ pc' = pc /\ step' = step
    BY <1>4 DEF Subscribe, Greet, Hear, Disconnect, inboundVars, requestVars, Filed
  <2>2. CASE x # c
    <3>1. conn'[c] = conn[c] /\ queue'[c] = queue[c] /\ list'[c] = list[c]
      BY <1>1, <1>4, <2>2 DEF Subscribe, Greet, Hear, Disconnect, Load, ClientTypes
    <3>2. QED
      BY <1>2, <2>1, <3>1
  <2>3. CASE x = c
    <3>1. conn'[c] # "on" \/ list'[c] = Filed
      BY <1>1, <1>4, <2>3 DEF Subscribe, Greet, Hear, Disconnect, Load, ClientTypes
    <3>2. QED
      BY <2>1, <3>1 DEF CatchUpInv
  <2>4. QED
    BY <2>2, <2>3
<1>5. ASSUME NEW d \in Delivery, AnnounceMessage(d) PROVE CatchUpInv(c)'
  <2>1. CASE d \in given.polled
    <3>1. /\ UNCHANGED <<filed, step, conn, queue, list>> /\ pc' = [pc EXCEPT ![d] = "done"]
      BY <1>5, <2>1 DEF AnnounceMessage, Announce, GoTo, requestVars
    <3>2. Filed' = Filed
      BY <3>1 DEF Filed
    <3>3. QED
      BY <1>1, <1>2, <2>1, <3>1, <3>2 DEF DeliveryTypes
  <2>2. CASE d \notin given.polled
    BY <1>3, <1>5, <2>2 DEF AnnounceMessage
  <2>3. QED
    BY <2>1, <2>2
<1>6. ASSUME NEW d \in Delivery, Deliver(d), UNCHANGED <<requestVars, clientVars>>
      PROVE  CatchUpInv(c)'
  <2>1. CASE CommitMessage(d)
    <3>1. Filed' \subseteq Filed \cup {d} /\ pc'[d] = "announce" /\ pc[d] = "commit"
      BY <1>1, <2>1, CommitFacts DEF Filed, RequestTypes, DeliveryTypes
    <3>2. \A m \in Delivery : pc[m] = "announce" => pc'[m] = "announce"
      BY <1>1, <2>1, CommitFacts DEF DeliveryTypes
    <3>3. QED
      BY <1>2, <1>6, <3>1, <3>2 DEF requestVars, clientVars
  <2>2. CASE ~CommitMessage(d)
    <3>1. filed' = filed /\ \A m \in Delivery : pc[m] = "announce" => pc'[m] = "announce"
      BY <1>1, <1>6, <2>2 DEF Deliver, FindDuplicate, Arrives, FindContact, FindTicket, Fail, GoTo,
                              DeliveryTypes
    <3>2. Filed' = Filed
      BY <3>1 DEF Filed
    <3>3. QED
      BY <1>2, <1>6, <3>1, <3>2 DEF requestVars, clientVars
  <2>3. QED
    BY <2>1, <2>2
<1>7. ASSUME NEW q \in Request, RequestStep(q) PROVE CatchUpInv(c)'
  <2>1. CASE AnnounceRequest(q)
    BY <1>3, <2>1 DEF AnnounceRequest
  <2>2. CASE ~AnnounceRequest(q)
    <3>1. UNCHANGED <<pc, clientVars>>
      BY <1>7, <2>2 DEF RequestStep, CreateTicket, ReadTicket, SendReply, CommitRequest,
                        RefuseRequest, DeliveriesStay
    <3>2. step[q] # "announce" /\ \A p \in Request \ {q} : step'[p] = step[p]
      BY <1>1, <1>7, <2>2 DEF RequestStep, CreateTicket, ReadTicket, SendReply, CommitRequest,
                              RefuseRequest, Moves, RequestTypes
    <3>3. \/ filed' = filed
          \/ filed' = [filed EXCEPT ![q] = on[q]] /\ step'[q] = "announce"
      BY <1>1, <1>7, <2>2 DEF RequestStep, CreateTicket, ReadTicket, SendReply, CommitRequest,
                              RefuseRequest, Moves, RequestTypes
    <3>4. \A m \in Filed' : m \in Filed \/ (m = q /\ step'[q] = "announce")
      BY <1>1, <3>3 DEF Filed, RequestTypes
    <3>5. QED
      BY <1>2, <3>1, <3>2, <3>4 DEF clientVars
  <2>3. QED
    BY <2>1, <2>2
<1>8. ASSUME UNCHANGED <<filed, pc, step, conn, queue, list>> PROVE CatchUpInv(c)'
  BY <1>2, <1>8 DEF Filed
<1>9. ASSUME NEW t \in Ticket, Age(t), UNCHANGED <<requestVars, clientVars>> PROVE CatchUpInv(c)'
  BY <1>8, <1>9 DEF Age, requestVars, clientVars
<1>10. CASE Next
  BY <1>4, <1>5, <1>6, <1>7, <1>9, <1>10 DEF Next, Step
<1>11. CASE UNCHANGED vars
  BY <1>8, <1>11 DEF vars, inboundVars, requestVars, clientVars
<1>12. QED
  BY <1>10, <1>11

-----------------------------------------------------------------------------
LEMMA InitDeskInv == ASSUME Init PROVE DeskInv
<1>1. TypeInv /\ IInv
  BY InitTypeInv, InitIInv
<1>2. IsFiniteSet(contacts)
  BY FS_EmptySet DEF Init, InboundInit
<1>3. ASSUME NEW d \in Delivery
      PROVE  OwnTicketInv(d) /\ AnswerInv(d) /\ SameContactInv(d) /\ SplitInv(d)
  BY InboundAssumption DEF Init, InboundInit, OwnTicketInv, AnswerInv, SameContactInv, SplitInv, Underway,
     Exists, Ticket
<1>4. ASSUME NEW t \in Ticket PROVE StandingInv(t)
  BY DEF Init, InboundInit, StandingInv, Exists
<1>5. ASSUME NEW q \in Request PROVE SentInv(q)
  BY DEF Init, InboundInit, SentInv, Ticket
<1>6. ASSUME NEW c \in Client PROVE CatchUpInv(c)
  BY DEF Init, CatchUpInv
<1>7. QED
  BY <1>1, <1>2, <1>3, <1>4, <1>5, <1>6 DEF DeskInv

LEMMA NextDeskInv == ASSUME DeskInv, [Next]_vars PROVE DeskInv'
<1> USE DEF DeskInv
<1>1. TypeInv' /\ IInv' /\ IsFiniteSet(contacts')
  BY NextTypeInv, NextIInv, FiniteContacts
<1>2. ASSUME NEW d \in Delivery PROVE OwnTicketInv(d)' /\ AnswerInv(d)'
  BY OwnTicketKeeps, AnswerKeeps
<1>3. ASSUME NEW d \in Delivery PROVE SameContactInv(d)' /\ SplitInv(d)'
  BY SameContactKeeps, SplitKeeps
<1>4. ASSUME NEW t \in Ticket PROVE StandingInv(t)'
  BY StandingKeeps
<1>5. ASSUME NEW q \in Request PROVE SentInv(q)'
  BY SentKeeps
<1>6. ASSUME NEW c \in Client PROVE CatchUpInv(c)'
  BY CatchUpKeeps
<1>7. QED
  BY <1>1, <1>2, <1>3, <1>4, <1>5, <1>6

(* The invariant of the desk holds in every reachable state. *)
THEOREM DeskInvariance == Spec => []DeskInv
BY InitDeskInv, NextDeskInv, PTL DEF Spec

(* An answer lands in the ticket its reply was sent for, or that ticket    *)
(* has been shut, whoever sends it, whatever agents do meanwhile and even  *)
(* if the reply was never recorded (inbound.py:189-209).                   *)
THEOREM AnswersLand == Spec => []AnswersStayInTicket
<1>1. DeskInv => AnswersStayInTicket
  BY DEF DeskInv, AnswerInv, AnswersStayInTicket
<1>2. QED
  BY <1>1, DeskInvariance, PTL

(* One sender's messages to one address are spread over two new tickets    *)
(* only for the reasons named, for any deliveries, accounts and policies   *)
(* (inbound.py:61-70, 113-116, 211-235).                                   *)
THEOREM SplitsReasoned == Spec => []SplitsExplained
<1>1. DeskInv => SplitsExplained
  BY DEF DeskInv, SplitInv, SplitsExplained, Overlapped, Alike
<1>2. QED
  BY <1>1, DeskInvariance, PTL

(* Dropped events included, a client that has heard all there is to hear   *)
(* lists every message announced to it, for any length of its queue        *)
(* (inbox_events.py:22-28).                                                *)
THEOREM ClientsInformed == Spec => []ClientsCatchUp
<1>1. DeskInv => ClientsCatchUp
  BY DEF DeskInv, CatchUpInv, ClientsCatchUp
<1>2. QED
  BY <1>1, DeskInvariance, PTL

(* From however stale a reading, a step writes no column of a ticket but   *)
(* the one it is for, to the value it is for.  Within that column it may   *)
(* undo what it has not seen, in the ways ChangesConfined lists            *)
(* (tickets.py:147, :448, inbox.py:116, inbound.py:355-360).               *)
THEOREM ChangesKeptApart == Spec => ChangesConfined
<1>1. ASSUME TypeInv, [Next]_vars, NEW t \in Ticket, Exists(t) PROVE ChangeConfined(t)
  <2>1. tickets \in [Ticket -> Row \cup {NoRow}] /\ DeliveryTypes /\ tickets[t] \in Row
    BY <1>1, TypesIn DEF Exists
  <2>2. ASSUME NEW d \in Delivery, CommitMessage(d), tickets'[t].status # tickets[t].status
                  \/ tickets'[t].assignee # tickets[t].assignee
        PROVE  /\ to[d] = t /\ Reopening(d)
               /\ tickets'[t].status # tickets[t].status => tickets'[t].status = "open"
               /\ tickets'[t].assignee # tickets[t].assignee =>
                     Unassigns(was[d]) /\ tickets'[t].assignee = Nobody
    <3>1. to[d] = t
      BY <1>1, <2>2, MessageWrites
    <3>2. /\ was[d].status \notin OpenStatus
          /\ tickets'[t].status # tickets[t].status => tickets'[t].status = "open"
          /\ tickets'[t].assignee # tickets[t].assignee =>
                Unassigns(was[d]) /\ tickets'[t].assignee = Nobody
      BY <1>1, <2>2, <3>1, MessageWrites
    <3>3. QED
      BY <2>1, <2>2, <3>1, <3>2, CommitFacts DEF Reopening, DeliveryTypes
  <2>3. ASSUME NEW q \in Request, CommitRequest(q),
               tickets'[t].status # tickets[t].status \/ tickets'[t].assignee # tickets[t].assignee
        PROVE  /\ on[q] = t /\ Moving(q)
               /\ tickets'[t].status # tickets[t].status => StatusAsked(q, tickets'[t].status)
               /\ tickets'[t].assignee # tickets[t].assignee =>
                      AssigneeAsked(q, tickets'[t].assignee)
    BY <1>1, <2>3, RequestWrites DEF Moving
  <2>4. ASSUME NEW q \in Request, NEW c \in Delivery, CreateTicket(q, c) PROVE tickets'[t] = tickets[t]
    <3>1. ~Exists(q)
      BY <1>1, <2>4 DEF CreateTicket, TypeInv, StageInv, RequestStage
    <3>2. QED
      BY <1>1, <2>1, <2>4, <3>1 DEF CreateTicket
  <2>5. ASSUME NEW u \in Ticket, Age(u)
        PROVE  /\ tickets'[t].status = tickets[t].status
               /\ tickets'[t].assignee = tickets[t].assignee
    <3>1. tickets' = [tickets EXCEPT ![u] = [tickets[u] EXCEPT !.fresh = FALSE]]
      BY <2>5 DEF Age
    <3>2. QED
      BY <2>1, <3>1, FreshRow
  <2>6. QED
    BY <1>1, <2>2, <2>3, <2>4, <2>5, TicketSteps DEF TicketStep, ChangeConfined
<1>2. ASSUME TypeInv, [Next]_vars
      PROVE  [\A t \in Ticket : Exists(t) => ChangeConfined(t)]_vars
  BY <1>1, <1>2
<1>3. QED
  BY <1>2, StagesCorrect, PTL DEF Spec, ChangesConfined

(* A message that lands in a ticket as it was read leaves it on a list of  *)
(* the inbox, and a reopened one with an assignee who may answer.          *)
THEOREM MessagesSeen == Spec => MessagesSurface
<1>1. ASSUME TypeInv, [Next]_vars, NEW d \in Delivery PROVE Surfaces(d)
  <2>1. /\ DeliveryTypes /\ RequestTypes /\ tickets \in [Ticket -> Row \cup {NoRow}]
        /\ given \in Given /\ given.team \subseteq Agent
    BY <1>1, TypesIn, InboundAssumption
  <2> DEFINE t == to[d]
             new == Reopened(was[d])
  <2>2. SUFFICES ASSUME filed'[d] # filed[d], tickets[t] = was[d]
                 PROVE  /\ \/ Listable(tickets'[t])
                           \/ was[d].status = "pending" /\ was[d].assignee = Nobody
                        /\ was[d].status \notin OpenStatus =>
                             /\ tickets'[t].status = "open"
                             /\ tickets'[t].assignee \in {Nobody} \cup
                                   (IF given.toQueue THEN {}
                                    ELSE IF given.team = {} THEN Agent ELSE given.team)
    BY DEF Surfaces
  <2>3. CommitMessage(d)
    BY <1>1, <2>2, DeliverySteps
       DEF Apart, Deliver, FindDuplicate, Arrives, FindContact, FindTicket, Fail, AnnounceMessage, Announce
  <2>4. was[d] \in Row /\ t \in Ticket /\ t # d
    <3>1. was[d] \in Row /\ t \in Ticket /\ ~Exists(d)
      BY <1>1, <2>3, MessageWrites DEF CommitMessage, TypeInv, StageInv, DeliveryStage
    <3>2. QED
      BY <2>2, <3>1, NoRowIsNoRow DEF Exists
  <2>5. tickets'[t] = Saved(t, was[d], new)
    BY <1>1, <2>3, <2>4, MessageWrites
  <2>6. /\ new \in Row /\ tickets'[t].status = new.status /\ tickets'[t].assignee = new.assignee
        /\ new.status = IF was[d].status \in OpenStatus THEN was[d].status ELSE "open"
        /\ was[d].status \in OpenStatus => new.assignee = was[d].assignee
    BY <2>2, <2>4, <2>5, SavedRow, ReopenedRow
  <2>7. was[d].status \notin OpenStatus =>
           new.assignee \in {Nobody} \cup (IF given.toQueue THEN {}
                                           ELSE IF given.team = {} THEN Agent ELSE given.team)
    BY <2>1, <2>4 DEF Reopened, Row
  <2>8. QED
    BY <2>6, <2>7 DEF Listable, OpenStatus
<1>2. ASSUME TypeInv, [Next]_vars PROVE [\A d \in Delivery : Surfaces(d)]_inboundVars
  BY <1>1, <1>2
<1>3. QED
  BY <1>2, StagesCorrect, PTL DEF Spec, MessagesSurface
=============================================================================
