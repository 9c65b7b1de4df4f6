-------------------------------- MODULE Deals --------------------------------
(***************************************************************************)
(* Deals of one pipeline: form submissions (modules/pipelines/intake.py),  *)
(* service events of the clinic's system (adapters/superhealth), requests  *)
(* of agents (api/routes/contacts.py) and the teams the pipeline is        *)
(* granted to (contacts.py, authz/visibility.py).                          *)
(*                                                                         *)
(* Each reads, and commits later.  Only the partial unique index on open   *)
(* deals (db/models.py:165-173) stands between two submissions: whoever    *)
(* would make a contact's second open deal fails with all it did.  All are *)
(* about one person; a contact and a deal have the name of the submission, *)
(* event or request that made them.                                        *)
(***************************************************************************)
EXTENDS SequencesExt, Rows

CONSTANTS
    Submission, Request,
    Stage,      \* stages of the pipeline
    Entry,      \* the form's entry stage
    Foreign,    \* a stage of another pipeline
    Agent, Team,
    EventId,    \* event_ids of service events
    Given,      \* what a behaviour may be given, see "given"
    MaxCloses,  \* bound: deals closed
    Nobody, None

Maker == Submission \cup Request
Policy == {"reuse_open_deal", "reopen_latest", "other"}
AnyStage == Stage \cup {Foreign}

ASSUME DealsAssumption ==
    /\ Submission \cap Request = {} /\ None \notin Maker \cup AnyStage
    /\ Entry \in Stage /\ Foreign \notin Stage /\ Nobody \notin Agent
    /\ MaxCloses \in Nat
    /\ \A g \in Given :
          /\ g.active \subseteq Maker /\ g.policy \in Policy
          /\ \A q \in Request :
                \/ g.op[q] \in {"create", "move"} /\ g.with[q] \in AnyStage
                \/ g.op[q] = "assign" /\ g.with[q] \in Agent \cup {Nobody}
                \/ g.op[q] = "teams" /\ g.with[q] \subseteq Team
                \/ g.op[q] = "event" /\ g.with[q] \in EventId \cup {None}
                \/ g.op[q] = "contact"

VARIABLES
    \* fixed at the start: who is "active", the resubmission "policy", what
    \* each request asks for ("op") and the stage, owner, teams or event_id it
    \* is "with"
    given,
    \* committed
    contacts,   \* contacts, by who made them
    deals,      \* Maker -> deal row, or NoDeal
    trail,      \* Maker -> the stages its deal's audit rows go from and to
    grants,     \* teams with a PipelineTeam row
    \* submissions and requests
    step, who, on, saw, had,  \* where each stands, contact, deal, row, grants read
    began,      \* those that have begun, in that order (created_at)
    \* history
    before,     \* Maker -> those that had committed when it began
    crossed,    \* deals written from a reading that had become stale
    lastTeams,  \* the last teams request that committed, or None
    unsettled,  \* two teams requests have overlapped
    closes      \* deals closed so far

committed == <<contacts, deals, trail, grants>>
work == <<step, who, on, saw, had, began>>
history == <<before, crossed, lastTeams, unsettled, closes>>
vars == <<given, committed, work, history>>

NoDeal == [status |-> "absent"]
NewDeal(c, s) == [contact |-> c, status |-> "open", stage |-> s, owner |-> Nobody]
Deal == [contact: Maker, status: {"open", "closed"}, stage: AnyStage,
         owner: Agent \cup {Nobody}]

OpenDeals(c) == {m \in Maker : deals[m].status = "open" /\ deals[m].contact = c}

(* Type invariant; no contact has two open deals. *)
TypeOK ==
    /\ given \in Given
    /\ contacts \subseteq Maker
    /\ deals \in [Maker -> Deal \cup {NoDeal}]
    /\ \A c \in Maker : Cardinality(OpenDeals(c)) <= 1
    /\ \A m \in Maker : \A e \in ToSet(trail[m]) : e \in (AnyStage \cup {None}) \X AnyStage
    /\ grants \subseteq Team
    /\ step \in [Maker -> {"new", "deal", "commit", "done", "refused"}]
    /\ who \in [Maker -> Maker \cup {None}]
    /\ on \in [Maker -> Maker \cup {None}]
    /\ saw \in [Maker -> Deal \cup {NoDeal}]
    /\ had \in [Maker -> SUBSET Team]
    /\ ToSet(began) \subseteq Maker /\ before \in [Maker -> SUBSET Maker]
    /\ crossed \subseteq Maker /\ lastTeams \in Request \cup {None}
    /\ unsettled \in BOOLEAN /\ closes \in 0..MaxCloses

Init ==
    /\ given \in Given
    /\ contacts = {} /\ grants = {}
    /\ deals = [m \in Maker |-> NoDeal] /\ trail = [m \in Maker |-> <<>>]
    /\ step = [m \in Maker |-> "new"]
    /\ who = [m \in Maker |-> None] /\ on = [m \in Maker |-> None]
    /\ saw = [m \in Maker |-> NoDeal] /\ had = [m \in Maker |-> {}]
    /\ began = <<>> /\ before = [m \in Maker |-> {}]
    /\ crossed = {} /\ lastTeams = None /\ unsettled = FALSE /\ closes = 0

-----------------------------------------------------------------------------
Moves(m, label) == step' = [step EXCEPT ![m] = label]
Begin(m) ==
    /\ step[m] = "new" /\ m \in given.active
    /\ began' = Append(began, m)
    /\ before' = [before EXCEPT ![m] = {x \in Maker : step[x] = "done"}]

DealsOf(c) == {m \in Maker : deals[m] # NoDeal /\ deals[m].contact = c}

(* Of the deals of c the one whose transaction began last. *)
Latest(c) ==
    LET created(m) == SelectInSeq(began, LAMBDA x : x = m)
    IN  {m \in DealsOf(c) : \A n \in DealsOf(c) : created(n) <= created(m)}

(* The contact is looked up, or will be made; scalar_one_or_none raises    *)
(* for two contacts.                                                       *)
FindContact(m, label) ==
    /\ Begin(m)
    /\ \/ Cardinality(contacts) > 1 /\ Moves(m, "refused") /\ UNCHANGED who
       \/ /\ Cardinality(contacts) <= 1 /\ Moves(m, label)
          /\ \E c \in IF contacts = {} THEN {m} ELSE contacts : who' = [who EXCEPT ![m] = c]
    /\ UNCHANGED <<committed, saw, had, crossed, lastTeams, unsettled, closes>>

(* The new contact, if there is one, is committed with the rest. *)
AddContact(m) == contacts' = IF who[m] = m THEN contacts \cup {m} ELSE contacts

-----------------------------------------------------------------------------
(* Form submissions *)

UpsertContact(s) == FindContact(s, "deal") /\ UNCHANGED on

(* Mutant: the open deal is not looked for.                                *)
LandingNew(s) == <<s, NewDeal(who[s], Entry)>>

(* The deal a submission goes to, and the row it leaves there. *)
Landing(s) ==
    LET open == OpenDeals(who[s])
        last == Latest(who[s])
        theOpen == CHOOSE m \in open : TRUE
        theLast == CHOOSE m \in last : TRUE
    IN  IF open # {} /\ given.policy = "reuse_open_deal"
        THEN <<theOpen, deals[theOpen]>>
        ELSE IF given.policy = "reopen_latest" /\ open = {} /\ last # {}
        THEN <<theLast, [deals[theLast] EXCEPT !.status = "open", !.stage = Entry]>>
        ELSE <<s, NewDeal(who[s], Entry)>>

ResolveDeal(s) ==
    /\ step[s] = "deal"
    /\ on' = [on EXCEPT ![s] = Landing(s)[1]]
    /\ saw' = [saw EXCEPT ![s] = IF Landing(s)[1] = s THEN NoDeal ELSE deals[Landing(s)[1]]]
    /\ Moves(s, "commit")
    /\ UNCHANGED <<committed, who, had, began, history>>

Submitted(s) ==
    IF on[s] = s THEN NewDeal(who[s], Entry)
    ELSE IF saw[s].status = "open" THEN saw[s]
    ELSE [saw[s] EXCEPT !.status = "open", !.stage = Entry]

-----------------------------------------------------------------------------
(* Commits *)

(* What m leaves in the row of its deal; whether that makes the contact's *)
(* second open deal.                                                      *)
Left(m, row) == IF saw[m] = NoDeal THEN row ELSE Written(deals[on[m]], saw[m], row)

(* Mutant: the index is not there.                                         *)
NoIndex(m, row) == FALSE

SecondOpen(m, row) ==
    /\ Left(m, row).status = "open"
    /\ OpenDeals(row.contact) \ {on[m]} # {}

Fail(m) ==
    /\ Moves(m, "refused")
    /\ saw' = [saw EXCEPT ![m] = NoDeal]
    /\ UNCHANGED <<committed, who, on, had, began, history>>

(* Mutant: the audit row says where the deal was before.                   *)
StoreFrom(m, row, from) ==
    /\ deals' = [deals EXCEPT ![on[m]] = Left(m, row)]
    /\ trail' = [trail EXCEPT ![on[m]] = Append(@, <<from, IF from = None THEN row.stage ELSE from>>)]
    /\ crossed' = IF deals[on[m]] = saw[m] THEN crossed ELSE crossed \cup {on[m]}
    /\ Moves(m, "done")
    /\ saw' = [saw EXCEPT ![m] = NoDeal]

(* Row and audit row together. *)
Store(m, row, from) ==
    /\ deals' = [deals EXCEPT ![on[m]] = Left(m, row)]
    /\ trail' = [trail EXCEPT ![on[m]] = Append(@, <<from, row.stage>>)]
    /\ crossed' = IF deals[on[m]] = saw[m] THEN crossed ELSE crossed \cup {on[m]}
    /\ Moves(m, "done")
    /\ saw' = [saw EXCEPT ![m] = NoDeal]

CommitSubmission(s) ==
    /\ step[s] = "commit" /\ s \in Submission
    /\ \/ SecondOpen(s, Submitted(s)) /\ Fail(s)
       \/ /\ ~SecondOpen(s, Submitted(s))
          /\ Store(s, Submitted(s), None)
          /\ AddContact(s)
          /\ UNCHANGED <<grants, who, on, had, began, before, lastTeams, unsettled, closes>>

-----------------------------------------------------------------------------
(* Requests *)

(* A new deal takes the stage it is given, of whatever pipeline. *)
CreateDeal(q, c) ==
    /\ given.op[q] = "create" /\ Begin(q)
    /\ c \in contacts
    /\ who' = [who EXCEPT ![q] = c] /\ on' = [on EXCEPT ![q] = q]
    /\ Moves(q, "commit")
    /\ UNCHANGED <<committed, saw, had, crossed, lastTeams, unsettled, closes>>

(* move_deal_stage refuses a stage of another pipeline. *)
ReadDeal(q, d) ==
    /\ given.op[q] \in {"move", "assign"} /\ given.with[q] # Foreign
    /\ deals[d] # NoDeal /\ Begin(q)
    /\ on' = [on EXCEPT ![q] = d] /\ saw' = [saw EXCEPT ![q] = deals[d]]
    /\ Moves(q, "commit")
    /\ UNCHANGED <<committed, who, had, crossed, lastTeams, unsettled, closes>>

Asked(q) ==
    CASE given.op[q] = "create" -> NewDeal(who[q], given.with[q])
      [] given.op[q] = "move"   -> [saw[q] EXCEPT !.stage = given.with[q]]
      [] given.op[q] = "assign" -> [saw[q] EXCEPT !.owner = given.with[q]]

(* The event of an assignment is keyed by deal and owner. *)
KeyTaken(q) ==
    /\ given.op[q] = "assign"
    /\ \E p \in Request \ {q} : /\ step[p] = "done" /\ on[p] = on[q]
                                /\ given.op[p] = "assign" /\ given.with[p] = given.with[q]

(* An assignment writes no stage into the audit row. *)
CommitRequest(q) ==
    /\ step[q] = "commit" /\ q \in Request /\ given.op[q] \notin {"teams", "event"}
    /\ \/ (KeyTaken(q) \/ SecondOpen(q, Asked(q))) /\ Fail(q)
       \/ /\ ~KeyTaken(q) /\ ~SecondOpen(q, Asked(q))
          /\ IF given.op[q] = "assign"
             THEN /\ deals' = [deals EXCEPT ![on[q]] = Left(q, Asked(q))]
                  /\ Moves(q, "done")
                  /\ saw' = [saw EXCEPT ![q] = NoDeal]
                  /\ UNCHANGED <<trail, crossed>>
             ELSE Store(q, Asked(q), IF saw[q] = NoDeal THEN None ELSE saw[q].stage)
          /\ UNCHANGED <<contacts, grants, who, on, had, began, before, lastTeams, unsettled, closes>>

(* POST /contacts looks for no contact with that address. *)
CreateContact(q) ==
    /\ given.op[q] = "contact" /\ Begin(q)
    /\ contacts' = contacts \cup {q}
    /\ Moves(q, "done")
    /\ UNCHANGED <<deals, trail, grants, who, on, saw, had, crossed, lastTeams, unsettled, closes>>

(* No code here closes a deal; its status is changed from outside. *)
CloseDeal(d) ==
    /\ closes < MaxCloses
    /\ deals[d] # NoDeal /\ deals[d].status = "open"
    /\ deals' = [deals EXCEPT ![d].status = "closed"]
    /\ closes' = closes + 1
    /\ UNCHANGED <<contacts, trail, grants, work, before, crossed, lastTeams, unsettled>>

-----------------------------------------------------------------------------
(* Service events, of a deal or none *)

ReadEvent(q) ==
    /\ given.op[q] = "event"
    /\ FindContact(q, "commit")
    /\ \E d \in {m \in Maker : deals[m] # NoDeal} \cup {None} : on' = [on EXCEPT ![q] = d]

(* Its key in the outbox: the event_id, or the deal or contact. *)
EventKey(q) == IF given.with[q] # None THEN given.with[q] ELSE IF on[q] # None THEN on[q] ELSE who[q]
EventRecorded(q) ==
    \E p \in Request \ {q} : step[p] = "done" /\ given.op[p] = "event" /\ EventKey(p) = EventKey(q)

(* An event that is delivered again violates the unique key and fails. *)
CommitEvent(q) ==
    /\ step[q] = "commit" /\ q \in Request /\ given.op[q] = "event"
    /\ \/ EventRecorded(q) /\ Fail(q)
       \/ /\ ~EventRecorded(q) /\ Moves(q, "done") /\ AddContact(q)
          /\ UNCHANGED <<deals, trail, grants, who, on, saw, had, began, history>>

-----------------------------------------------------------------------------
(* The teams of the pipeline *)

ReadGrants(q) ==
    /\ given.op[q] = "teams" /\ Begin(q)
    /\ had' = [had EXCEPT ![q] = grants]
    /\ Moves(q, "commit")
    /\ UNCHANGED <<committed, who, on, saw, crossed, lastTeams, unsettled, closes>>

(* Mutant: the rows that were there stay.                                  *)
KeptAll(q) == grants

(* The grants that are left once the ones q has read are deleted. *)
Kept(q) == grants \ had[q]

(* A grant that another request has added meanwhile stays, or clashes. *)
ReplaceGrants(q) ==
    /\ step[q] = "commit" /\ q \in Request /\ given.op[q] = "teams"
    /\ \/ Kept(q) \cap given.with[q] # {} /\ Fail(q)
       \/ /\ Kept(q) \cap given.with[q] = {}
          /\ grants' = Kept(q) \cup given.with[q]
          /\ lastTeams' = q
          /\ unsettled' = (unsettled \/ lastTeams \notin before[q] \cup {None})
          /\ Moves(q, "done")
          /\ UNCHANGED <<contacts, deals, trail, who, on, saw, had, began, before, crossed, closes>>

(* A pipeline that no team has a grant for is everybody's. *)
CanSeePipeline(teams) == grants = {} \/ grants \cap teams # {}

-----------------------------------------------------------------------------
Step ==
    \/ \E s \in Submission : UpsertContact(s) \/ ResolveDeal(s) \/ CommitSubmission(s)
    \/ \E q \in Request : \/ \E c \in Maker : CreateDeal(q, c)
                          \/ CreateContact(q) \/ ReadEvent(q) \/ CommitEvent(q)
                          \/ \E d \in Maker : ReadDeal(q, d)
                          \/ CommitRequest(q) \/ ReadGrants(q) \/ ReplaceGrants(q)
    \/ \E d \in Maker : CloseDeal(d)

Next == Step /\ UNCHANGED given

Spec == Init /\ [][Next]_vars

-----------------------------------------------------------------------------
(* Properties *)

(* x was committed after m had begun. *)
During(m, x) == step[x] = "done" /\ x \notin before[m]

ByHand == {q \in contacts \cap Request : given.op[q] = "contact"}

(* A submission is refused only because something else was under way at    *)
(* once with it, or with one that made the person a second contact; or     *)
(* because somebody made that contact by hand, which nothing checks.  The  *)
(* policies that do not reuse an open deal refuse every further submission *)
(* while there is one (intake.py:93-124).  A service event is refused for  *)
(* the same reasons and if one with its key has been recorded; one without *)
(* an event_id so has only a first time (superhealth/webhooks.py:43-117).  *)
SubmissionsKept ==
    \A m \in Maker : step[m] = "refused" /\ (m \in Submission \/ given.op[m] = "event") =>
       \/ \E x \in Maker \ {m} : During(m, x)
       \/ \E x \in contacts : \E y \in contacts \ {x} :
             (During(x, y) /\ During(y, x)) \/ (y \in ByHand /\ x \in before[y])
       \/ m \in Submission /\ given.policy # "reuse_open_deal" /\ before[m] # {}
       \/ m \in Request /\ EventRecorded(m)

(* The audit rows of a deal lead from stage to stage and end where it      *)
(* stands, except where two requests overlapped (contacts.py:439-449); a   *)
(* submission's row says no stage it came from (intake.py:186).            *)
TrailLeadsToStage ==
    \A m \in Maker \ crossed : trail[m] # <<>> =>
       /\ Last(trail[m])[2] = deals[m].stage
       /\ \A i \in 2..Len(trail[m]) : trail[m][i][1] \in {None, trail[m][i - 1][2]}

(* A pipeline is seen by the teams of the last request and no others, so   *)
(* long as no two requests overlapped (contacts.py:303-311).               *)
GrantsAreTheLast ==
    ~unsettled /\ lastTeams # None =>
       \A teams \in SUBSET Team :
          CanSeePipeline(teams) <=> \/ given.with[lastTeams] = {}
                                    \/ given.with[lastTeams] \cap teams # {}
=============================================================================
