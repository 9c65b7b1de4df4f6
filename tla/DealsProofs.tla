----------------------------- MODULE DealsProofs -----------------------------
(***************************************************************************)
(* Proofs about Deals, for any submissions, requests, stages and teams:    *)
(* requests for the teams of a pipeline that do not overlap leave the      *)
(* teams of the last one (IInv), a contact has at most one open deal, the  *)
(* audit rows of a deal lead to its stage, and a submission that is        *)
(* refused has one of the reasons SubmissionsKept names (DealInv).         *)
(***************************************************************************)
EXTENDS Deals, FiniteSetTheorems, TLAPS

Types ==
    /\ given \in Given
    /\ step \in [Maker -> {"new", "deal", "commit", "done", "refused"}]
    /\ before \in [Maker -> SUBSET Maker]
    /\ DOMAIN had = Maker

Teams(q) == q \in Request /\ given.op[q] = "teams"

(* What a request began after is done. *)
BeforeInv == \A m \in Maker, x \in Maker : x \in before[m] => step[x] = "done"

(* A request that began after the last one has read what that one left. *)
ReadInv ==
    \A q \in Maker : Teams(q) /\ step[q] = "commit" /\ lastTeams \in before[q] \cup {None} =>
       had[q] = grants

LastInv ==
    /\ lastTeams = None \/ (Teams(lastTeams) /\ step[lastTeams] = "done")
    /\ ~unsettled /\ lastTeams # None => grants = given.with[lastTeams]

IInv == Types /\ BeforeInv /\ ReadInv /\ LastInv

-----------------------------------------------------------------------------
LEMMA InitIInv == ASSUME Init PROVE IInv
BY DEF Init, IInv, Types, BeforeInv, ReadInv, LastInv

(* A step of some m that leaves the teams alone. *)
LEMMA OtherKeeps ==
    ASSUME IInv, NEW m \in Maker, step[m] # "done",
           NEW label \in {"deal", "commit", "done", "refused"},
           step' = [step EXCEPT ![m] = label],
           UNCHANGED <<given, grants, lastTeams, unsettled>>,
           \/ UNCHANGED <<before, had>> /\ (Teams(m) => label # "commit")
           \/ /\ before' = [before EXCEPT ![m] = {x \in Maker : step[x] = "done"}]
              /\ had' = had /\ ~Teams(m)
           \/ /\ before' = [before EXCEPT ![m] = {x \in Maker : step[x] = "done"}]
              /\ had' = [had EXCEPT ![m] = grants]
    PROVE  IInv'
<1>1. Types /\ step'[m] = label /\ \A x \in Maker \ {m} : step'[x] = step[x]
  BY DEF IInv, Types
<1>2. Types'
  BY <1>1 DEF Types
<1>3. BeforeInv'
  BY <1>1 DEF IInv, Types, BeforeInv
<1>4. ReadInv'
  BY <1>1 DEF IInv, Types, ReadInv, Teams
<1>5. LastInv'
  BY <1>1 DEF IInv, LastInv, Teams, Maker
<1>6. QED
  BY <1>2, <1>3, <1>4, <1>5 DEF IInv

(* A request for teams commits: if the one before it was done when it      *)
(* began, all the grants there are are those it has read.                  *)
LEMMA ReplaceKeeps ==
    ASSUME IInv, NEW q \in Request, ReplaceGrants(q), given' = given
    PROVE  IInv'
<1>1. CASE Fail(q)
  BY <1>1, OtherKeeps DEF ReplaceGrants, Fail, Moves, committed, history, Maker
<1>2. CASE ~Fail(q)
  <2>1. /\ Types /\ BeforeInv /\ ReadInv /\ LastInv /\ q \in Maker /\ Teams(q)
        /\ step[q] = "commit" /\ step' = [step EXCEPT ![q] = "done"]
        /\ grants' = Kept(q) \cup given.with[q] /\ lastTeams' = q
        /\ unsettled' = (unsettled \/ lastTeams \notin before[q] \cup {None})
        /\ UNCHANGED <<had, before>>
    BY <1>2 DEF IInv, ReplaceGrants, Moves, Teams, Maker
  <2>2. Types'
    BY <2>1 DEF Types
  <2>3. BeforeInv' /\ \A m \in Maker : q \notin before[m]
    BY <2>1 DEF Types, BeforeInv
  <2>4. q # None
    BY DealsAssumption DEF Maker
  <2>5. ReadInv'
    BY <2>1, <2>3, <2>4 DEF ReadInv
  <2>6. ~unsettled' => grants' = given.with[q]
    BY <2>1 DEF ReadInv, Kept
  <2>7. LastInv'
    BY <2>1, <2>6 DEF Types, LastInv, Teams
  <2>8. QED
    BY <2>2, <2>3, <2>5, <2>7 DEF IInv
<1>3. QED
  BY <1>1, <1>2

LEMMA NextIInv == ASSUME IInv, [Next]_vars PROVE IInv'
<1> USE DEF Moves, Begin, committed, history, Maker, Fail
<1>1. ASSUME NEW s \in Submission, given' = given,
             UpsertContact(s) \/ ResolveDeal(s) \/ CommitSubmission(s)
      PROVE  IInv'
  <2>1. ~Teams(s)
    BY DealsAssumption DEF Teams
  <2>2. CASE UpsertContact(s)
    BY <1>1, <2>1, <2>2, OtherKeeps DEF UpsertContact, FindContact
  <2>3. CASE ResolveDeal(s)
    BY <1>1, <2>1, <2>3, OtherKeeps DEF ResolveDeal
  <2>4. CASE CommitSubmission(s)
    BY <1>1, <2>4, OtherKeeps DEF CommitSubmission, Store
  <2>5. QED
    BY <1>1, <2>2, <2>3, <2>4
<1>2. ASSUME NEW q \in Request, NEW c \in Maker, given' = given,
             CreateDeal(q, c) \/ ReadDeal(q, c)
      PROVE  IInv'
  BY <1>2, OtherKeeps DEF CreateDeal, ReadDeal, Teams
<1>3. ASSUME NEW q \in Request, given' = given, CreateContact(q) \/ ReadEvent(q)
      PROVE  IInv'
  BY <1>3, OtherKeeps DEF CreateContact, ReadEvent, FindContact, Teams
<1>4. ASSUME NEW q \in Request, given' = given, CommitRequest(q) \/ CommitEvent(q)
      PROVE  IInv'
  BY <1>4, OtherKeeps DEF CommitRequest, CommitEvent, Store
<1>5. ASSUME NEW q \in Request, given' = given, ReadGrants(q) PROVE IInv'
  BY <1>5, OtherKeeps DEF ReadGrants
<1>6. ASSUME NEW d \in Maker, given' = given, CloseDeal(d) PROVE IInv'
  BY <1>6 DEF CloseDeal, work, IInv, Types, BeforeInv, ReadInv, LastInv, Teams
<1>7. CASE UNCHANGED vars
  BY <1>7 DEF vars, work, IInv, Types, BeforeInv, ReadInv, LastInv, Teams
<1>8. QED
  BY <1>1, <1>2, <1>3, <1>4, <1>5, <1>6, <1>7, ReplaceKeeps DEF Next, Step

(* The inductive invariant holds in every reachable state. *)
THEOREM Invariance == Spec => []IInv
<1>1. Init => IInv
  BY InitIInv
<1>2. IInv /\ [Next]_vars => IInv'
  BY NextIInv
<1>3. QED
  BY <1>1, <1>2, PTL DEF Spec

(* However many administrators replace the teams of a pipeline: so long as *)
(* no two of them overlapped, it is seen by the teams the last one asked   *)
(* for, and by no others (contacts.py:303-311).                            *)
THEOREM LastTeamsSee == Spec => []GrantsAreTheLast
<1>1. IInv => GrantsAreTheLast
  BY DEF IInv, LastInv, GrantsAreTheLast, CanSeePipeline
<1>2. QED
  BY <1>1, Invariance, PTL

-----------------------------------------------------------------------------
(* Deals, contacts and audit rows                                          *)

Row == Deal \cup {NoDeal}
Arrow == (AnyStage \cup {None}) \X AnyStage
Made(d) == deals[d] # NoDeal

Shape ==
    /\ contacts \subseteq Maker /\ deals \in [Maker -> Row]
    /\ trail \in [Maker -> Seq(Arrow)] /\ grants \subseteq Team
    /\ who \in [Maker -> Maker \cup {None}] /\ on \in [Maker -> Maker \cup {None}]
    /\ saw \in [Maker -> Row] /\ had \in [Maker -> SUBSET Team]
    /\ began \in Seq(Maker)
    /\ crossed \subseteq Maker /\ lastTeams \in Request \cup {None}
    /\ unsettled \in BOOLEAN /\ closes \in 0..MaxCloses

(* A deal is made by the commit of its maker; no contact has two open. *)
MadeInv == \A d \in Maker : Made(d) => step[d] = "done"
OneOpen == \A c, d, e \in Maker : d \in OpenDeals(c) /\ e \in OpenDeals(c) => d = e

(* The deal that m has read is there, and still its contact's. *)
HoldsDeal(m) ==
    saw[m] # NoDeal /\ on[m] \in Maker /\ Made(on[m]) /\ deals[on[m]].contact = saw[m].contact

WorkInv(m) ==
    /\ step[m] = "new" => who[m] = None /\ saw[m] = NoDeal
    /\ step[m] = "deal" => m \in Submission /\ who[m] \in Maker
    /\ step[m] = "commit" /\ m \in Submission =>
          who[m] \in Maker /\ IF on[m] = m THEN saw[m] = NoDeal ELSE HoldsDeal(m)
    /\ step[m] = "commit" /\ m \in Request =>
          /\ given.op[m] # "contact"
          /\ given.op[m] = "create" => who[m] \in Maker /\ on[m] = m /\ saw[m] = NoDeal
          /\ given.op[m] \in {"move", "assign"} => HoldsDeal(m)

(* Where an open deal is reused, a submission that makes one has found     *)
(* none open, and whatever was there then is never opened again.           *)
ReuseInv(m) ==
    given.policy = "reuse_open_deal" /\ m \in Submission /\ step[m] = "commit" =>
       IF on[m] = m THEN OpenDeals(who[m]) \cap before[m] = {}
       ELSE saw[m].status = "open"

(* A contact that was not made by hand was made because there was none. *)
ByHandOf(c) == c \in Request /\ given.op[c] = "contact"
ContactInv == \A c \in contacts : step[c] = "done" /\ (ByHandOf(c) \/ who[c] = c)
FoundInv(m) == who[m] = m => before[m] \cap contacts = {}

(* What SubmissionsKept and TrailLeadsToStage say of one of them. *)
KeptInv(m) ==
    step[m] = "refused" /\ (m \in Submission \/ given.op[m] = "event") =>
       \/ \E x \in Maker \ {m} : During(m, x)
       \/ \E x \in contacts : \E y \in contacts \ {x} :
             (During(x, y) /\ During(y, x)) \/ (y \in ByHand /\ x \in before[y])
       \/ m \in Submission /\ given.policy # "reuse_open_deal" /\ before[m] # {}
       \/ m \in Request /\ EventRecorded(m)
TrailInv(d) ==
    d \notin crossed /\ trail[d] # <<>> =>
       /\ Last(trail[d])[2] = deals[d].stage
       /\ \A i \in 2..Len(trail[d]) : trail[d][i][1] \in {None, trail[d][i - 1][2]}
TrailMade == \A d \in Maker : trail[d] # <<>> => Made(d)

DealInv ==
    /\ IInv /\ Shape /\ MadeInv /\ OneOpen /\ ContactInv /\ TrailMade
    /\ \A m \in Maker : WorkInv(m) /\ ReuseInv(m) /\ FoundInv(m) /\ KeptInv(m) /\ TrailInv(m)

-----------------------------------------------------------------------------
LEMMA InitDealInv == ASSUME Init PROVE DealInv
<1> USE DEF Init
<1>1. IInv
  BY InitIInv
<1>2. Shape
  <2>1. <<>> \in Seq(Arrow) /\ <<>> \in Seq(Maker)
    OBVIOUS
  <2>2. trail \in [Maker -> Seq(Arrow)] /\ began \in Seq(Maker)
    BY <2>1
  <2>3. closes \in 0..MaxCloses
    BY DealsAssumption
  <2>4. QED
    BY <2>2, <2>3 DEF Shape, Row
<1>3. MadeInv /\ OneOpen /\ TrailMade
  BY DEF MadeInv, OneOpen, TrailMade, OpenDeals, Made, NoDeal
<1>4. ContactInv
  BY DEF ContactInv
<1>5. ASSUME NEW m \in Maker
      PROVE  WorkInv(m) /\ ReuseInv(m) /\ FoundInv(m) /\ KeptInv(m) /\ TrailInv(m)
  BY <1>5 DEF WorkInv, ReuseInv, FoundInv, KeptInv, TrailInv
<1>6. QED
  BY <1>1, <1>2, <1>3, <1>4, <1>5 DEF DealInv

-----------------------------------------------------------------------------
(* What every step leaves as it was: what is done, a deal's contact, where *)
(* open deals are reused a closed one; a new contact is one that was not.  *)
Steady ==
    /\ given' = given
    /\ \A x \in Maker : step[x] = "done" =>
          step'[x] = "done" /\ before'[x] = before[x] /\ who'[x] = who[x] /\ on'[x] = on[x]
    /\ \A d \in Maker : Made(d) => Made(d)' /\ deals'[d].contact = deals[d].contact
    /\ given.policy = "reuse_open_deal" =>
          \A d \in Maker : step[d] = "done" /\ deals'[d].status = "open" => deals[d].status = "open"
    /\ contacts \subseteq contacts' /\ \A c \in contacts' \ contacts : c \in Maker /\ step[c] # "done"

SameAt(x) ==
    /\ step'[x] = step[x] /\ who'[x] = who[x] /\ on'[x] = on[x]
    /\ saw'[x] = saw[x] /\ before'[x] = before[x]

(* NoDeal is no row, and not an open one. *)
LEMMA NoRow ==
    ASSUME NEW d \in Row
    PROVE  /\ d = NoDeal \/ d \in Deal
           /\ d \in Deal => d # NoDeal
           /\ d.status = "open" => d \in Deal
<1>1. NoDeal.status = "absent" /\ \A e \in Deal : e.status \in {"open", "closed"}
  BY DEF NoDeal, Deal
<1>2. QED
  BY <1>1 DEF Row

LEMMA DoneStays ==
    ASSUME DealInv, Steady, NEW x \in Maker, NEW y \in Maker, During(x, y), before'[x] = before[x]
    PROVE  During(x, y)'
BY DEF Steady, During

LEMMA RecordedStays ==
    ASSUME DealInv, Steady, NEW m \in Maker, m \in Request, SameAt(m), EventRecorded(m)
    PROVE  EventRecorded(m)'
<1>1. PICK p \in Request \ {m} : step[p] = "done" /\ given.op[p] = "event" /\ EventKey(p) = EventKey(m)
  BY DEF EventRecorded
<1>2. EventKey(p)' = EventKey(p) /\ EventKey(m)' = EventKey(m) /\ step'[p] = "done"
  BY <1>1 DEF Steady, SameAt, EventKey, Maker
<1>3. QED
  BY <1>1, <1>2 DEF EventRecorded, Steady

(* Two contacts: something was under way at once, or one was made by hand  *)
(* although the other was there.                                           *)
TwoContacts ==
    \E x \in contacts : \E y \in contacts \ {x} :
       (During(x, y) /\ During(y, x)) \/ (y \in ByHand /\ x \in before[y])

LEMMA TwoContactsStay ==
    ASSUME DealInv, Steady, TwoContacts
    PROVE  TwoContacts'
<1>0. PICK x \in contacts : \E y \in contacts \ {x} :
         (During(x, y) /\ During(y, x)) \/ (y \in ByHand /\ x \in before[y])
  BY DEF TwoContacts
<1>1. PICK y \in contacts \ {x} :
         (During(x, y) /\ During(y, x)) \/ (y \in ByHand /\ x \in before[y])
  BY <1>0
<1>2. x \in Maker /\ y \in Maker /\ step[x] = "done" /\ step[y] = "done"
  BY <1>1 DEF DealInv, Shape, ContactInv
<1>3. /\ x \in contacts' /\ y \in contacts' \ {x}
      /\ before'[x] = before[x] /\ before'[y] = before[y]
  BY <1>1, <1>2 DEF Steady
<1>4. During(x, y) => During(x, y)'
  BY <1>2, <1>3, DoneStays
<1>5. During(y, x) => During(y, x)'
  BY <1>2, <1>3, DoneStays
<1>6. y \in ByHand => y \in ByHand'
  BY <1>3 DEF ByHand, Steady
<1>7. QED
  BY <1>1, <1>3, <1>4, <1>5, <1>6 DEF TwoContacts

LEMMA TwoAreExplained ==
    ASSUME DealInv, Cardinality(contacts) > 1
    PROVE  TwoContacts
<1>1. contacts # {}
  BY FS_EmptySet
<1>2. PICK x \in contacts : TRUE
  BY <1>1
<1>3. contacts # {x}
  BY FS_Singleton
<1>4. PICK y \in contacts : y # x
  BY <1>2, <1>3
<1>5. /\ x \in Maker /\ y \in Maker /\ step[x] = "done" /\ step[y] = "done"
      /\ x \in ByHand \/ before[x] \cap contacts = {}
      /\ y \in ByHand \/ before[y] \cap contacts = {}
  BY <1>2, <1>4 DEF DealInv, Shape, ContactInv, FoundInv, ByHandOf, ByHand
<1>6. CASE x \in before[y]
  BY <1>2, <1>4, <1>5, <1>6 DEF TwoContacts
<1>7. CASE y \in before[x]
  BY <1>2, <1>4, <1>5, <1>7 DEF TwoContacts
<1>8. CASE x \notin before[y] /\ y \notin before[x]
  BY <1>2, <1>4, <1>5, <1>8 DEF TwoContacts, During
<1>9. QED
  BY <1>6, <1>7, <1>8

(* Whoever a step leaves alone stays as the invariant says. *)
LEMMA SameKeeps ==
    ASSUME DealInv, Steady, NEW x \in Maker, SameAt(x)
    PROVE  (WorkInv(x) /\ ReuseInv(x) /\ FoundInv(x) /\ KeptInv(x))'
<1>1. WorkInv(x)'
  BY DEF DealInv, Steady, SameAt, WorkInv, HoldsDeal
<1>2. FoundInv(x)'
  BY DEF DealInv, IInv, BeforeInv, Steady, SameAt, FoundInv
<1>3. ReuseInv(x)'
  <2>1. SUFFICES ASSUME given.policy = "reuse_open_deal", x \in Submission, step[x] = "commit",
                        on[x] = x, NEW d \in OpenDeals(who[x])', d \in before[x]
                 PROVE  FALSE
    BY DEF DealInv, ReuseInv, Steady, SameAt
  <2>2. /\ d \in Maker /\ step[d] = "done" /\ deals'[d].status = "open"
        /\ deals[d].status = "open"
    BY <2>1 DEF OpenDeals, DealInv, IInv, BeforeInv, Steady
  <2>3. Made(d)
    BY <2>2, NoRow DEF DealInv, Shape, Made
  <2>4. d \in OpenDeals(who[x])
    BY <2>1, <2>2, <2>3 DEF OpenDeals, Steady, SameAt
  <2>5. QED
    BY <2>1, <2>4 DEF DealInv, ReuseInv
<1>4. KeptInv(x)'
  <2>1. SUFFICES ASSUME step[x] = "refused", x \in Submission \/ given.op[x] = "event"
                 PROVE  KeptInv(x)'
    BY DEF KeptInv, Steady, SameAt
  <2>2. CASE \E y \in Maker \ {x} : During(x, y)
    BY <2>2, DoneStays DEF SameAt, KeptInv
  <2>3. CASE TwoContacts
    BY <2>3, TwoContactsStay DEF TwoContacts, KeptInv
  <2>4. CASE x \in Submission /\ given.policy # "reuse_open_deal" /\ before[x] # {}
    BY <2>4 DEF KeptInv, Steady, SameAt
  <2>5. CASE x \in Request /\ EventRecorded(x)
    BY <2>5, RecordedStays DEF KeptInv
  <2>6. QED
    BY <2>1, <2>2, <2>3, <2>4, <2>5 DEF DealInv, KeptInv, TwoContacts
<1>5. QED
  BY <1>1, <1>2, <1>3, <1>4

-----------------------------------------------------------------------------
(* Rows that are written                                                   *)

(* The row m has read, or none, and the one it leaves in its place. *)
Leaves(m, row) ==
    /\ row \in Deal
    /\ IF saw[m] = NoDeal THEN on[m] = m /\ ~Made(m) ELSE HoldsDeal(m) /\ row.contact = saw[m].contact

(* A commit writes what it has changed of the row, into the row as it is;  *)
(* if that is as it was read the row is the one meant.                     *)
LEMMA LeftRow ==
    ASSUME DealInv, NEW m \in Maker, NEW row, Leaves(m, row)
    PROVE  /\ Left(m, row) \in Deal /\ Left(m, row).contact = row.contact
           /\ on[m] \in Maker
           /\ Made(on[m]) => deals[on[m]].contact = row.contact
           /\ deals[on[m]] = saw[m] \/ saw[m] = NoDeal => Left(m, row) = row
           /\ saw[m] # NoDeal =>
                 \A c \in {"status", "stage"} :
                    Left(m, row)[c] = IF row[c] = saw[m][c] THEN deals[on[m]][c] ELSE row[c]
<1>1. CASE saw[m] = NoDeal
  BY <1>1 DEF Leaves, Left
<1>2. CASE saw[m] # NoDeal
  <2>1. /\ HoldsDeal(m) /\ row.contact = saw[m].contact /\ row \in Deal
        /\ saw[m] \in Deal /\ on[m] \in Maker /\ deals[on[m]] \in Deal
    BY <1>2 DEF Leaves, HoldsDeal, DealInv, Shape, Row, Made
  <2>2. Left(m, row) = Written(deals[on[m]], saw[m], row)
    BY <1>2 DEF Left
  <2>3. DOMAIN deals[on[m]] = {"contact", "status", "stage", "owner"}
    BY <2>1 DEF Deal
  <2>4. Left(m, row) = [c \in {"contact", "status", "stage", "owner"} |->
                           IF row[c] = saw[m][c] THEN deals[on[m]][c] ELSE row[c]]
    BY <2>2, <2>3 DEF Written
  <2>5. Left(m, row) \in Deal
    BY <2>1, <2>4 DEF Deal
  <2>6. deals[on[m]] = saw[m] => Left(m, row) = row
    <3>1. row = [c \in {"contact", "status", "stage", "owner"} |-> row[c]]
      BY <2>1 DEF Deal
    <3>2. QED
      BY <2>4, <3>1
  <2>7. Left(m, row).contact = row.contact /\ deals[on[m]].contact = row.contact
    BY <2>1, <2>4 DEF HoldsDeal
  <2>8. QED
    BY <1>2, <2>1, <2>4, <2>5, <2>6, <2>7
<1>3. QED
  BY <1>1, <1>2

(* The row L is written for d, and makes no second open deal.              *)
Writes(d, L) ==
    /\ d \in Maker /\ L \in Deal /\ deals' = [deals EXCEPT ![d] = L]
    /\ Made(d) => deals[d].contact = L.contact
    /\ L.status = "open" => OpenDeals(L.contact) \ {d} = {}

LEMMA RowWritten ==
    ASSUME DealInv, NEW d, NEW L, Writes(d, L)
    PROVE  /\ deals' \in [Maker -> Row] /\ OneOpen'
           /\ deals'[d] = L /\ Made(d)'
           /\ \A e \in Maker \ {d} : deals'[e] = deals[e]
           /\ \A e \in Maker : Made(e) => Made(e)' /\ deals'[e].contact = deals[e].contact
<1>1. /\ d \in Maker /\ deals \in [Maker -> Row] /\ L \in Row
      /\ deals'[d] = L /\ \A e \in Maker \ {d} : deals'[e] = deals[e]
  BY DEF Writes, DealInv, Shape, Row
<1>2. deals' \in [Maker -> Row]
  BY <1>1 DEF Writes
<1>3. Made(d)'
  BY <1>1, NoRow DEF Writes, Made
<1>4. ASSUME NEW e \in Maker, Made(e) PROVE Made(e)' /\ deals'[e].contact = deals[e].contact
  BY <1>1, <1>3, <1>4 DEF Writes, Made
<1>5. ASSUME NEW c \in Maker, NEW e \in Maker \ {d}
      PROVE  e \in OpenDeals(c)' <=> e \in OpenDeals(c)
  BY <1>1, <1>5 DEF OpenDeals
<1>6. ASSUME NEW c \in Maker, d \in OpenDeals(c)', NEW e \in Maker \ {d}, e \in OpenDeals(c)
      PROVE  FALSE
  BY <1>1, <1>6 DEF OpenDeals, Writes
<1>7. OneOpen'
  BY <1>1, <1>5, <1>6 DEF OneOpen, DealInv, OpenDeals
<1>8. QED
  BY <1>1, <1>2, <1>3, <1>4, <1>7

(* Of the audit rows, the last one follows on the one before.              *)
Followed(rows) == \A i \in 2..Len(rows) : rows[i][1] \in {None, rows[i - 1][2]}

LEMMA RowAdded ==
    ASSUME NEW rows \in Seq(Arrow), NEW e \in Arrow, Followed(rows),
           e[1] = None \/ (rows # <<>> => e[1] = Last(rows)[2])
    PROVE  /\ Append(rows, e) \in Seq(Arrow) /\ Append(rows, e) # <<>>
           /\ Last(Append(rows, e)) = e /\ Followed(Append(rows, e))
<1> DEFINE more == Append(rows, e)
<1>1. /\ more \in Seq(Arrow) /\ Len(more) = Len(rows) + 1 /\ Len(rows) \in Nat
      /\ more[Len(rows) + 1] = e /\ \A i \in 1..Len(rows) : more[i] = rows[i]
  OBVIOUS
<1>2. more # <<>> /\ Last(more) = e
  BY <1>1 DEF Last
<1>3. ASSUME NEW i \in 2..Len(more) PROVE more[i][1] \in {None, more[i - 1][2]}
  <2>1. CASE i \in 2..Len(rows)
    BY <1>1, <2>1 DEF Followed
  <2>2. CASE i = Len(rows) + 1
    <3>1. rows # <<>> /\ i - 1 = Len(rows) /\ i - 1 \in 1..Len(rows)
      BY <1>1, <1>3, <2>2
    <3>2. more[i] = e /\ more[i - 1] = Last(rows)
      BY <1>1, <2>2, <3>1 DEF Last
    <3>3. QED
      BY <3>1, <3>2
  <2>3. QED
    BY <1>1, <1>3, <2>1, <2>2
<1>4. QED
  BY <1>1, <1>2, <1>3 DEF Followed

(* The rest of what a step of m does: only m moves, and not for ever back. *)
Moved(m, label) ==
    /\ given' = given
    /\ step[m] \notin {"done", "refused"} /\ step' = [step EXCEPT ![m] = label]
    /\ \A x \in Maker \ {m} : /\ who'[x] = who[x] /\ on'[x] = on[x]
                              /\ saw'[x] = saw[x] /\ before'[x] = before[x]

Plain ==
    /\ who' \in [Maker -> Maker \cup {None}] /\ on' \in [Maker -> Maker \cup {None}]
    /\ saw' \in [Maker -> Row] /\ had' \in [Maker -> SUBSET Team] /\ began' \in Seq(Maker)
    /\ lastTeams' \in Request \cup {None} /\ unsettled' \in BOOLEAN /\ grants' \subseteq Team

(* A step of m that writes no deal: what is left to show is about m. *)
LEMMA QuietKeeps ==
    ASSUME DealInv, IInv', NEW m \in Maker, NEW label, Moved(m, label), Plain,
           UNCHANGED <<deals, trail, crossed, closes>>,
           contacts' = contacts \/ (contacts' = contacts \cup {m} /\ label = "done"
                                    /\ (ByHandOf(m) \/ who'[m] = m)),
           Steady => (WorkInv(m) /\ ReuseInv(m) /\ FoundInv(m) /\ KeptInv(m))'
    PROVE  DealInv'
<1>1. /\ step'[m] = label /\ \A x \in Maker \ {m} : step'[x] = step[x]
      /\ \A x \in Maker \ {m} : SameAt(x)
  BY DEF Moved, DealInv, IInv, Types, SameAt
<1>2. Steady
  BY <1>1 DEF Moved, Steady, SameAt, Made, DealInv, ContactInv
<1>3. Shape'
  BY DEF DealInv, Shape, Plain
<1>4. MadeInv' /\ OneOpen' /\ TrailMade'
  BY <1>1 DEF DealInv, MadeInv, OneOpen, TrailMade, OpenDeals, Made, Moved
<1>5. ContactInv'
  <2>1. ASSUME NEW c \in contacts PROVE (step[c] = "done" /\ (ByHandOf(c) \/ who[c] = c))'
    BY <1>2, <2>1 DEF DealInv, ContactInv, Shape, Steady, ByHandOf
  <2>2. QED
    BY <1>1, <2>1 DEF ContactInv, ByHandOf, Moved
<1>6. \A d \in Maker : TrailInv(d)'
  BY DEF DealInv, TrailInv
<1>7. \A x \in Maker : (WorkInv(x) /\ ReuseInv(x) /\ FoundInv(x) /\ KeptInv(x))'
  BY <1>1, <1>2, SameKeeps
<1>8. QED
  BY <1>3, <1>4, <1>5, <1>6, <1>7 DEF DealInv

-----------------------------------------------------------------------------
(* A commit that writes its deal: as the audit row says, or a row whose    *)
(* stage stays and no audit row.                                           *)
Audits(m, row) ==
    \E from \in AnyStage \cup {None} :
       /\ from # None => saw[m] # NoDeal /\ from = saw[m].stage
       /\ trail' = [trail EXCEPT ![on[m]] = Append(@, <<from, row.stage>>)]
       /\ crossed' = IF deals[on[m]] = saw[m] THEN crossed ELSE crossed \cup {on[m]}

Stores(m, row) ==
    /\ Leaves(m, row) /\ ~SecondOpen(m, row)
    /\ deals' = [deals EXCEPT ![on[m]] = Left(m, row)]
    /\ saw' = [saw EXCEPT ![m] = NoDeal]
    /\ given.policy = "reuse_open_deal" /\ saw[m] # NoDeal => row.status = saw[m].status
    /\ \/ Audits(m, row)
       \/ UNCHANGED <<trail, crossed>> /\ saw[m] # NoDeal /\ row.stage = saw[m].stage
    /\ contacts' = contacts \/ (contacts' = contacts \cup {m} /\ who[m] = m)
    /\ UNCHANGED <<who, on, before, had, began, grants, lastTeams, unsettled, closes>>

LEMMA StoreTrails ==
    ASSUME DealInv, NEW m \in Maker, NEW row, Stores(m, row), NEW d, d = on[m]
    PROVE  /\ trail' \in [Maker -> Seq(Arrow)] /\ crossed' \subseteq Maker
           /\ TrailMade' /\ \A e \in Maker : TrailInv(e)'
<1> DEFINE L == Left(m, row)
<1>1. /\ L \in Deal /\ d \in Maker /\ row \in Deal
      /\ deals[d] = saw[m] \/ saw[m] = NoDeal => L = row
      /\ saw[m] # NoDeal /\ row.stage = saw[m].stage => L.stage = deals[d].stage
  <2>1. saw[m] # NoDeal =>
           \A c \in {"status", "stage"} : L[c] = IF row[c] = saw[m][c] THEN deals[d][c] ELSE row[c]
    BY LeftRow DEF Stores
  <2>2. QED
    BY <2>1, LeftRow DEF Stores, Leaves
<1>2. deals \in [Maker -> Row] /\ deals' = [deals EXCEPT ![d] = L]
  BY DEF DealInv, Shape, Stores
<1>3. deals'[d] = L /\ Made(d)' /\ \A e \in Maker \ {d} : deals'[e] = deals[e]
  BY <1>1, <1>2, NoRow DEF Made, Row
<1> HIDE DEF L
<1>4. /\ trail \in [Maker -> Seq(Arrow)] /\ crossed \subseteq Maker /\ saw \in [Maker -> Row]
      /\ \A e \in Maker : TrailInv(e) /\ (trail[e] # <<>> => Made(e))
  BY DEF DealInv, Shape, TrailMade
<1>5. CASE Audits(m, row)
  <2>1. PICK from \in AnyStage \cup {None} :
             /\ from # None => saw[m] # NoDeal /\ from = saw[m].stage
             /\ trail' = [trail EXCEPT ![d] = Append(@, <<from, row.stage>>)]
             /\ crossed' = IF deals[d] = saw[m] THEN crossed ELSE crossed \cup {d}
    BY <1>5 DEF Audits
  <2>2. <<from, row.stage>> \in Arrow
    BY <1>1, <2>1 DEF Arrow, Deal
  <2>3. /\ trail[d] \in Seq(Arrow) /\ trail'[d] = Append(trail[d], <<from, row.stage>>)
        /\ \A e \in Maker \ {d} : trail'[e] = trail[e]
    BY <1>1, <1>4, <2>1
  <2>4. trail'[d] \in Seq(Arrow) /\ trail'[d] # <<>>
    BY <2>2, <2>3
  <2>5. trail' \in [Maker -> Seq(Arrow)] /\ crossed' \subseteq Maker
    BY <1>1, <1>4, <2>1, <2>3, <2>4
  <2>6. TrailMade'
    BY <1>3, <1>4, <2>3 DEF TrailMade, Made
  <2>7. TrailInv(d)'
    <3>1. SUFFICES ASSUME d \notin crossed' PROVE TrailInv(d)'
      BY DEF TrailInv
    <3>2. d \notin crossed /\ deals[d] = saw[m] /\ L = row
      BY <1>1, <2>1, <3>1
    <3>3. Followed(trail[d])
      <4>1. CASE trail[d] = <<>>
        <5>1. Len(trail[d]) = 0
          BY <4>1
        <5>2. QED
          BY <5>1 DEF Followed
      <4>2. CASE trail[d] # <<>>
        BY <1>1, <1>4, <3>2, <4>2 DEF TrailInv, Followed
      <4>3. QED
        BY <4>1, <4>2
    <3>4. from = None \/ (trail[d] # <<>> => from = Last(trail[d])[2])
      BY <1>1, <1>4, <2>1, <3>2 DEF TrailInv
    <3>5. /\ Last(trail'[d]) = <<from, row.stage>> /\ Followed(trail'[d])
      BY <2>2, <2>3, <3>3, <3>4, RowAdded
    <3>6. Last(trail'[d])[2] = deals'[d].stage
      BY <1>3, <3>2, <3>5
    <3>7. QED
      BY <3>5, <3>6 DEF TrailInv, Followed
  <2>8. ASSUME NEW e \in Maker \ {d} PROVE TrailInv(e)'
    BY <1>3, <1>4, <2>1, <2>3, <2>8 DEF TrailInv
  <2>9. QED
    BY <2>5, <2>6, <2>7, <2>8
<1>6. CASE UNCHANGED <<trail, crossed>> /\ saw[m] # NoDeal /\ row.stage = saw[m].stage
  <2>1. \A e \in Maker : deals'[e] = deals[e] \/ (e = d /\ deals'[e].stage = deals[e].stage)
    BY <1>1, <1>3, <1>6
  <2>2. TrailMade'
    BY <1>3, <1>4, <1>6 DEF TrailMade, Made
  <2>3. \A e \in Maker : TrailInv(e)'
    BY <1>4, <1>6, <2>1 DEF TrailInv
  <2>4. QED
    BY <1>4, <1>6, <2>2, <2>3
<1>7. QED
  BY <1>5, <1>6 DEF Stores

LEMMA StoreKeeps ==
    ASSUME DealInv, IInv', NEW m \in Maker, NEW row, Stores(m, row), Moved(m, "done"),
           NEW d, d = on[m]
    PROVE  DealInv'
<1> DEFINE L == Left(m, row)
<1>1. /\ L \in Deal /\ d \in Maker /\ L.contact = row.contact
      /\ Made(d) => deals[d].contact = row.contact
      /\ saw[m] # NoDeal /\ row.status = saw[m].status => L.status = deals[d].status
      /\ saw[m] = NoDeal => d = m
  <2>1. saw[m] # NoDeal =>
           \A c \in {"status", "stage"} : L[c] = IF row[c] = saw[m][c] THEN deals[d][c] ELSE row[c]
    BY LeftRow DEF Stores
  <2>2. QED
    BY <2>1, LeftRow DEF Stores, Leaves
<1>2. Writes(d, L)
  BY <1>1 DEF Writes, Stores, SecondOpen
<1>3. /\ deals' \in [Maker -> Row] /\ OneOpen'
      /\ deals'[d] = L /\ Made(d)'
      /\ \A e \in Maker \ {d} : deals'[e] = deals[e]
      /\ \A e \in Maker : Made(e) => Made(e)' /\ deals'[e].contact = deals[e].contact
  BY <1>2, RowWritten
<1> HIDE DEF L
<1>4. /\ step'[m] = "done" /\ \A x \in Maker \ {m} : step'[x] = step[x]
      /\ \A x \in Maker \ {m} : SameAt(x)
      /\ step[m] # "done"
  BY DEF Moved, DealInv, IInv, Types, SameAt
<1>5. Steady
  <2>1. given.policy = "reuse_open_deal" =>
          \A e \in Maker : step[e] = "done" /\ deals'[e].status = "open" => deals[e].status = "open"
    BY <1>1, <1>3, <1>4 DEF Stores
  <2>2. contacts \subseteq contacts' /\ \A c \in contacts' \ contacts : c \in Maker /\ step[c] # "done"
    BY <1>4 DEF Stores
  <2>3. QED
    BY <1>3, <1>4, <2>1, <2>2 DEF Steady, Moved, Stores
<1>6. Shape'
  <2>1. saw' \in [Maker -> Row]
    BY DEF DealInv, Shape, Stores, Row
  <2>2. QED
    BY <1>3, <2>1, StoreTrails DEF DealInv, Shape, Stores
<1>7. MadeInv'
  <2>1. step'[d] = "done"
    BY <1>1, <1>4 DEF Stores, Leaves, HoldsDeal, DealInv, MadeInv
  <2>2. QED
    BY <1>3, <1>4, <2>1 DEF DealInv, MadeInv, Made
<1>8. ContactInv'
  <2>1. ASSUME NEW c \in contacts PROVE (step[c] = "done" /\ (ByHandOf(c) \/ who[c] = c))'
    BY <1>5, <2>1 DEF DealInv, ContactInv, Shape, Steady, ByHandOf
  <2>2. QED
    BY <1>4, <2>1 DEF ContactInv, ByHandOf, Stores
<1>9. (WorkInv(m) /\ ReuseInv(m) /\ KeptInv(m))'
  BY <1>4 DEF WorkInv, ReuseInv, KeptInv
<1>10. FoundInv(m)'
  BY <1>4 DEF DealInv, IInv, BeforeInv, FoundInv, Stores
<1>11. \A x \in Maker \ {m} : (WorkInv(x) /\ ReuseInv(x) /\ FoundInv(x) /\ KeptInv(x))'
  BY <1>4, <1>5, SameKeeps
<1>12. QED
  BY <1>3, <1>6, <1>7, <1>8, <1>9, <1>10, <1>11, StoreTrails DEF DealInv

-----------------------------------------------------------------------------
(* Submissions                                                             *)

LEMMA BegunMoved ==
    ASSUME DealInv, NEW m \in Maker, NEW label, Begin(m), Moves(m, label), given' = given,
           \A x \in Maker \ {m} : who'[x] = who[x] /\ on'[x] = on[x] /\ saw'[x] = saw[x]
    PROVE  /\ Moved(m, label) /\ step'[m] = label /\ step[m] = "new" /\ who[m] = None /\ saw[m] = NoDeal
           /\ began' \in Seq(Maker) /\ m \notin contacts /\ ~Made(m)
           /\ before'[m] = {x \in Maker : step[x] = "done"}
<1>1. step[m] = "new" /\ step' = [step EXCEPT ![m] = label] /\ m \in DOMAIN step
  BY DEF Begin, Moves, DealInv, IInv, Types
<1>2. began \in Seq(Maker) /\ began' = Append(began, m)
  BY DEF Begin, DealInv, Shape
<1>3. /\ before' = [before EXCEPT ![m] = {x \in Maker : step[x] = "done"}]
      /\ before \in [Maker -> SUBSET Maker]
  BY DEF Begin, DealInv, IInv, Types
<1>4. began' \in Seq(Maker)
  BY <1>2
<1>5. who[m] = None /\ saw[m] = NoDeal /\ m \notin contacts /\ ~Made(m)
  BY <1>1 DEF DealInv, WorkInv, ContactInv, MadeInv
<1>6. QED
  BY <1>1, <1>3, <1>4, <1>5 DEF Moved

LEMMA FindKeeps ==
    ASSUME DealInv, IInv', NEW m \in Maker, NEW label \in {"deal", "commit"}, given' = given,
           FindContact(m, label),
           label = "deal" => m \in Submission,
           label = "commit" => m \in Request /\ given.op[m] = "event",
           on' \in [Maker -> Maker \cup {None}], \A x \in Maker \ {m} : on'[x] = on[x]
    PROVE  DealInv'
<1>1. /\ Begin(m) /\ UNCHANGED <<contacts, deals, trail, grants, saw, had, crossed,
                                 lastTeams, unsettled, closes>>
      /\ who \in [Maker -> Maker \cup {None}] /\ contacts \subseteq Maker
      /\ saw \in [Maker -> Row] /\ had \in [Maker -> SUBSET Team] /\ grants \subseteq Team
      /\ lastTeams \in Request \cup {None} /\ unsettled \in BOOLEAN
  BY DEF FindContact, committed, DealInv, Shape
<1>2. m \notin Submission \/ m \notin Request
  BY DealsAssumption
<1>3. CASE Cardinality(contacts) > 1 /\ Moves(m, "refused") /\ UNCHANGED who
  <2>1. Moved(m, "refused") /\ step'[m] = "refused" /\ who[m] = None /\ began' \in Seq(Maker)
    BY <1>1, <1>3, BegunMoved
  <2>2. Steady => KeptInv(m)'
    BY <1>3, TwoAreExplained, TwoContactsStay DEF TwoContacts, KeptInv
  <2>3. (WorkInv(m) /\ ReuseInv(m) /\ FoundInv(m))'
    BY <1>3, <2>1, DealsAssumption DEF WorkInv, ReuseInv, FoundInv
  <2>4. Plain
    BY <1>1, <1>3, <2>1 DEF Plain
  <2>5. QED
    BY <1>1, <2>1, <2>2, <2>3, <2>4, QuietKeeps
<1>4. CASE /\ Cardinality(contacts) <= 1 /\ Moves(m, label)
           /\ \E c \in IF contacts = {} THEN {m} ELSE contacts : who' = [who EXCEPT ![m] = c]
  <2>1. PICK c \in IF contacts = {} THEN {m} ELSE contacts : who' = [who EXCEPT ![m] = c]
    BY <1>4
  <2>2. c \in Maker /\ who'[m] = c /\ \A x \in Maker \ {m} : who'[x] = who[x]
    BY <1>1, <2>1
  <2>3. Moved(m, label) /\ step'[m] = label /\ m \notin contacts /\ began' \in Seq(Maker)
    BY <1>1, <1>4, <2>2, BegunMoved
  <2>4. FoundInv(m)'
    BY <1>1, <2>1, <2>2, <2>3 DEF FoundInv
  <2>5. (WorkInv(m) /\ ReuseInv(m) /\ KeptInv(m))'
    BY <1>2, <2>2, <2>3 DEF WorkInv, ReuseInv, KeptInv, Moved
  <2>6. Plain
    BY <1>1, <2>1, <2>2, <2>3 DEF Plain
  <2>7. QED
    BY <1>1, <2>3, <2>4, <2>5, <2>6, QuietKeeps
<1>5. QED
  BY <1>3, <1>4 DEF FindContact

(* A submission goes to its own new deal, or to one of its contact's: if   *)
(* open deals are reused, to one that is open whenever there is any.       *)
LEMMA LandingIs ==
    ASSUME DealInv, NEW s \in Submission, ~Made(s), NEW d, d = Landing(s)[1]
    PROVE  /\ d = s \/ (d \in Maker \ {s} /\ Made(d) /\ deals[d].contact = who[s])
           /\ given.policy = "reuse_open_deal" =>
                 IF d = s THEN OpenDeals(who[s]) = {} ELSE deals[d].status = "open"
<1> DEFINE open == OpenDeals(who[s])
           last == Latest(who[s])
           theOpen == CHOOSE m \in open : TRUE
           theLast == CHOOSE m \in last : TRUE
<1>1. /\ open # {} => theOpen \in open
      /\ last # {} => theLast \in last
  OBVIOUS
<1>2. ASSUME NEW e \in open PROVE e \in Maker /\ Made(e) /\ deals[e].contact = who[s] /\ deals[e].status = "open"
  BY <1>2, NoRow DEF OpenDeals, DealInv, Shape, Made
<1>3. ASSUME NEW e \in last PROVE e \in Maker /\ Made(e) /\ deals[e].contact = who[s]
  BY <1>3 DEF Latest, DealsOf, Made
<1>4. d = IF open # {} /\ given.policy = "reuse_open_deal" THEN theOpen
          ELSE IF given.policy = "reopen_latest" /\ open = {} /\ last # {} THEN theLast ELSE s
  BY DEF Landing
<1> HIDE DEF open, last, theOpen, theLast
<1>5. CASE open # {} /\ given.policy = "reuse_open_deal"
  BY <1>1, <1>2, <1>4, <1>5
<1>6. CASE ~(open # {} /\ given.policy = "reuse_open_deal")
           /\ given.policy = "reopen_latest" /\ open = {} /\ last # {}
  BY <1>1, <1>3, <1>4, <1>6
<1>7. CASE ~(open # {} /\ given.policy = "reuse_open_deal")
           /\ ~(given.policy = "reopen_latest" /\ open = {} /\ last # {})
  BY <1>4, <1>7 DEF open
<1>8. QED
  BY <1>5, <1>6, <1>7

LEMMA ResolveKeeps ==
    ASSUME DealInv, IInv', NEW s \in Submission, ResolveDeal(s), given' = given
    PROVE  DealInv'
<1>1. PICK d : d = Landing(s)[1]
  OBVIOUS
<1>2. /\ s \in Maker /\ step[s] = "deal" /\ who[s] \in Maker /\ s \notin Request
      /\ on' = [on EXCEPT ![s] = d]
      /\ saw' = [saw EXCEPT ![s] = IF d = s THEN NoDeal ELSE deals[d]]
      /\ step' = [step EXCEPT ![s] = "commit"]
      /\ UNCHANGED <<contacts, deals, trail, grants, who, had, began, before, crossed,
                     lastTeams, unsettled, closes>>
  BY <1>1, DealsAssumption
     DEF ResolveDeal, Moves, committed, history, DealInv, WorkInv, Maker
<1>3. ~Made(s)
  BY <1>2 DEF DealInv, MadeInv
<1>4. /\ d = s \/ (d \in Maker \ {s} /\ Made(d) /\ deals[d].contact = who[s])
      /\ given.policy = "reuse_open_deal" =>
            IF d = s THEN OpenDeals(who[s]) = {} ELSE deals[d].status = "open"
  BY <1>1, <1>3, LandingIs
<1>5. Shape
  BY DEF DealInv
<1>6. /\ on'[s] = d /\ saw'[s] = IF d = s THEN NoDeal ELSE deals[d]
      /\ step'[s] = "commit"
      /\ \A x \in Maker \ {s} : on'[x] = on[x] /\ saw'[x] = saw[x]
  BY <1>2, <1>5 DEF Shape, DealInv, IInv, Types
<1>7. Moved(s, "commit")
  BY <1>2, <1>6 DEF Moved
<1>8. Plain
  <2>1. saw' \in [Maker -> Row]
    BY <1>2, <1>4, <1>5 DEF Shape, Row
  <2>2. on' \in [Maker -> Maker \cup {None}]
    BY <1>2, <1>4, <1>5 DEF Shape
  <2>3. QED
    BY <1>2, <1>5, <2>1, <2>2 DEF Plain, Shape
<1>9. WorkInv(s)' /\ KeptInv(s)'
  <2>1. IF d = s THEN saw'[s] = NoDeal ELSE HoldsDeal(s)'
    BY <1>2, <1>4, <1>6 DEF HoldsDeal, Made
  <2>2. QED
    BY <1>2, <1>6, <2>1 DEF WorkInv, KeptInv
<1>10. FoundInv(s)'
  BY <1>2 DEF DealInv, FoundInv
<1>11. ReuseInv(s)'
  <2>1. OpenDeals(who[s])' = OpenDeals(who[s])
    BY <1>2 DEF OpenDeals
  <2>2. QED
    BY <1>2, <1>4, <1>6, <2>1 DEF ReuseInv
<1>12. QED
  BY <1>2, <1>7, <1>8, <1>9, <1>10, <1>11, QuietKeeps

(* Whoever fails, or commits without a deal, is done with; what it has to  *)
(* explain is why it was refused.                                          *)
LEMMA FailKeeps ==
    ASSUME DealInv, IInv', NEW m \in Maker, step[m] = "commit", Fail(m), given' = given,
           Steady => KeptInv(m)'
    PROVE  DealInv'
<1>1. /\ step' = [step EXCEPT ![m] = "refused"] /\ saw' = [saw EXCEPT ![m] = NoDeal]
      /\ UNCHANGED <<contacts, deals, trail, grants, who, on, had, began, before, crossed,
                     lastTeams, unsettled, closes>>
  BY DEF Fail, Moves, committed, history
<1>2. step'[m] = "refused" /\ \A x \in Maker \ {m} : saw'[x] = saw[x]
  BY <1>1 DEF DealInv, IInv, Types, Shape
<1>3. Moved(m, "refused")
  BY <1>1, <1>2 DEF Moved
<1>4. Plain
  <2>1. saw' \in [Maker -> Row]
    BY <1>1 DEF DealInv, Shape, Row
  <2>2. QED
    BY <1>1, <2>1 DEF Plain, DealInv, Shape
<1>5. (WorkInv(m) /\ ReuseInv(m) /\ FoundInv(m))'
  BY <1>1, <1>2 DEF WorkInv, ReuseInv, FoundInv, DealInv
<1>6. QED
  BY <1>1, <1>3, <1>4, <1>5, QuietKeeps

(* A submission fails only because of a deal that was opened while it was  *)
(* under way, or one that was there and its policy did not let it use.     *)
LEMMA SubmissionFails ==
    ASSUME DealInv, NEW s \in Submission, step[s] = "commit", SecondOpen(s, Submitted(s)),
           Leaves(s, Submitted(s))
    PROVE  \/ \E x \in Maker \ {s} : During(s, x)
           \/ given.policy # "reuse_open_deal" /\ before[s] # {}
<1> DEFINE row == Submitted(s)
<1>0. s \in Maker
  BY DEF Maker
<1>1. PICK d \in OpenDeals(row.contact) : d # on[s]
  BY DEF SecondOpen
<1>2. d \in Maker /\ deals[d].status = "open" /\ deals[d].contact = row.contact /\ Made(d)
  BY <1>1, NoRow DEF OpenDeals, DealInv, Shape, Made
<1>3. step[d] = "done" /\ d # s
  BY <1>2 DEF DealInv, MadeInv
<1>4. CASE d \notin before[s]
  BY <1>2, <1>3, <1>4 DEF During
<1>5. CASE d \in before[s] /\ given.policy # "reuse_open_deal"
  BY <1>5
<1>6. CASE d \in before[s] /\ given.policy = "reuse_open_deal" /\ on[s] = s
  <2>1. row.contact = who[s]
    BY <1>6 DEF Submitted, NewDeal
  <2>2. QED
    BY <1>0, <1>1, <1>6, <2>1 DEF DealInv, ReuseInv
<1>7. CASE d \in before[s] /\ given.policy = "reuse_open_deal" /\ on[s] # s
  <2>1. HoldsDeal(s) /\ saw[s].status = "open" /\ row = saw[s]
    BY <1>0, <1>7 DEF DealInv, WorkInv, ReuseInv, Submitted
  <2>2. saw[s] # NoDeal /\ on[s] \in Maker /\ deals[on[s]].contact = row.contact
    BY <2>1 DEF HoldsDeal
  <2>3. Left(s, row).status = deals[on[s]].status
    <3>1. \A c \in {"status", "stage"} :
             Left(s, row)[c] = IF row[c] = saw[s][c] THEN deals[on[s]][c] ELSE row[c]
      BY <1>0, <2>2, LeftRow
    <3>2. QED
      BY <2>1, <3>1
  <2>4. row.contact \in Maker
    BY DEF Leaves, Deal
  <2>5. on[s] \in OpenDeals(row.contact)
    BY <2>2, <2>3 DEF SecondOpen, OpenDeals
  <2>6. QED
    BY <1>1, <1>2, <2>2, <2>4, <2>5 DEF DealInv, OneOpen
<1>8. QED
  BY <1>4, <1>5, <1>6, <1>7

LEMMA SubmissionKeeps ==
    ASSUME DealInv, IInv', NEW s \in Submission, CommitSubmission(s), given' = given
    PROVE  DealInv'
<1> DEFINE row == Submitted(s)
<1>1. /\ s \in Maker /\ s \notin Request /\ step[s] = "commit" /\ who[s] \in Maker
      /\ IF on[s] = s THEN saw[s] = NoDeal ELSE HoldsDeal(s)
      /\ ~Made(s) /\ saw[s] \in Row
      /\ given.policy = "reuse_open_deal" /\ on[s] # s => saw[s].status = "open"
  BY DealsAssumption DEF CommitSubmission, DealInv, MadeInv, WorkInv, ReuseInv, Maker, Shape
<1>2. Leaves(s, row)
  <2>1. CASE on[s] = s
    BY <1>1, <2>1, DealsAssumption DEF Leaves, Submitted, NewDeal, Deal, AnyStage
  <2>2. CASE on[s] # s
    <3>1. saw[s] \in Deal /\ saw[s] # NoDeal
      BY <1>1, <2>2 DEF HoldsDeal, Row
    <3>2. row = saw[s] \/ row = [saw[s] EXCEPT !.status = "open", !.stage = Entry]
      BY <2>2 DEF Submitted
    <3>3. row \in Deal /\ row.contact = saw[s].contact
      BY <3>1, <3>2, DealsAssumption DEF Deal, AnyStage
    <3>4. QED
      BY <1>1, <2>2, <3>1, <3>3 DEF Leaves
  <2>3. QED
    BY <2>1, <2>2
<1>3. CASE SecondOpen(s, row) /\ Fail(s)
  <2>1. \/ \E x \in Maker \ {s} : During(s, x)
        \/ given.policy # "reuse_open_deal" /\ before[s] # {}
    BY <1>1, <1>2, <1>3, SubmissionFails
  <2>2. before' = before
    BY <1>3 DEF Fail, history
  <2>3. Steady => KeptInv(s)'
    BY <1>1, <2>1, <2>2, DoneStays DEF KeptInv
  <2>4. QED
    BY <1>1, <1>3, <2>3, FailKeeps
<1>4. CASE ~SecondOpen(s, row) /\ Store(s, row, None) /\ AddContact(s)
           /\ UNCHANGED <<grants, who, on, had, began, before, lastTeams, unsettled, closes>>
  <2>1. Audits(s, row)
    BY <1>4 DEF Audits, Store
  <2>2. given.policy = "reuse_open_deal" /\ saw[s] # NoDeal => row.status = saw[s].status
    BY <1>1 DEF Submitted
  <2>3. contacts' = contacts \/ (contacts' = contacts \cup {s} /\ who[s] = s)
    BY <1>4 DEF AddContact
  <2>4. Stores(s, row)
    BY <1>2, <1>4, <2>1, <2>2, <2>3 DEF Stores, Store
  <2>5. Moved(s, "done")
    <3>1. \A x \in Maker \ {s} : saw'[x] = saw[x]
      BY <1>4 DEF Store, DealInv, Shape
    <3>2. QED
      BY <1>1, <1>4, <3>1 DEF Moved, Store, Moves
  <2>6. QED
    BY <1>1, <2>4, <2>5, StoreKeeps
<1>5. QED
  BY <1>3, <1>4 DEF CommitSubmission

-----------------------------------------------------------------------------
(* Requests *)

LEMMA RequestGiven ==
    ASSUME DealInv, NEW q \in Request
    PROVE  /\ q \in Maker /\ q \notin Submission
           /\ given.op[q] \in {"create", "move"} => given.with[q] \in AnyStage
           /\ given.op[q] = "assign" => given.with[q] \in Agent \cup {Nobody}
           /\ given.op[q] = "teams" => given.with[q] \subseteq Team
BY DealsAssumption DEF DealInv, IInv, Types, Maker

LEMMA CreateKeeps ==
    ASSUME DealInv, IInv', NEW q \in Request, NEW c \in Maker, CreateDeal(q, c), given' = given
    PROVE  DealInv'
<1>1. /\ Begin(q) /\ Moves(q, "commit") /\ given.op[q] = "create" /\ c \in contacts
      /\ who' = [who EXCEPT ![q] = c] /\ on' = [on EXCEPT ![q] = q]
      /\ UNCHANGED <<contacts, deals, trail, grants, saw, had, crossed,
                     lastTeams, unsettled, closes>>
  BY DEF CreateDeal, committed
<1>2. Shape /\ q \in Maker /\ q \notin Submission
  BY RequestGiven DEF DealInv
<1>3. \A x \in Maker \ {q} : who'[x] = who[x] /\ on'[x] = on[x] /\ saw'[x] = saw[x]
  BY <1>1, <1>2 DEF Shape
<1>4. Moved(q, "commit") /\ began' \in Seq(Maker) /\ step'[q] = "commit" /\ q \notin contacts
      /\ saw[q] = NoDeal
  BY <1>1, <1>2, <1>3, BegunMoved
<1>5. who'[q] = c /\ on'[q] = q
  BY <1>1, <1>2 DEF Shape
<1>6. Plain
  BY <1>1, <1>2, <1>4 DEF Plain, Shape
<1>7. (WorkInv(q) /\ ReuseInv(q) /\ FoundInv(q) /\ KeptInv(q))'
  BY <1>1, <1>2, <1>4, <1>5 DEF WorkInv, ReuseInv, FoundInv, KeptInv, Moved
<1>8. QED
  BY <1>1, <1>2, <1>4, <1>6, <1>7, QuietKeeps

LEMMA ReadKeeps ==
    ASSUME DealInv, IInv', NEW q \in Request, NEW d \in Maker, ReadDeal(q, d), given' = given
    PROVE  DealInv'
<1>1. /\ Begin(q) /\ Moves(q, "commit") /\ given.op[q] \in {"move", "assign"} /\ Made(d)
      /\ on' = [on EXCEPT ![q] = d] /\ saw' = [saw EXCEPT ![q] = deals[d]]
      /\ UNCHANGED <<contacts, deals, trail, grants, who, had, crossed,
                     lastTeams, unsettled, closes>>
  BY DEF ReadDeal, committed, Made
<1>2. Shape /\ q \in Maker /\ q \notin Submission
  BY RequestGiven DEF DealInv
<1>3. \A x \in Maker \ {q} : who'[x] = who[x] /\ on'[x] = on[x] /\ saw'[x] = saw[x]
  BY <1>1, <1>2 DEF Shape
<1>4. /\ Moved(q, "commit") /\ began' \in Seq(Maker) /\ step'[q] = "commit" /\ who[q] = None
  BY <1>1, <1>2, <1>3, BegunMoved
<1>5. saw'[q] = deals[d] /\ on'[q] = d
  BY <1>1, <1>2 DEF Shape
<1>6. Plain
  BY <1>1, <1>2, <1>4 DEF Plain, Shape
<1>7. HoldsDeal(q)'
  BY <1>1, <1>5 DEF HoldsDeal, Made
<1>8. (WorkInv(q) /\ ReuseInv(q) /\ FoundInv(q) /\ KeptInv(q))'
  <2>1. q # None
    BY <1>2, DealsAssumption
  <2>2. QED
    BY <1>1, <1>2, <1>4, <1>7, <2>1 DEF WorkInv, ReuseInv, FoundInv, KeptInv, Moved
<1>9. QED
  BY <1>1, <1>2, <1>4, <1>6, <1>8, QuietKeeps

LEMMA RequestKeeps ==
    ASSUME DealInv, IInv', NEW q \in Request, CommitRequest(q), given' = given
    PROVE  DealInv'
<1> DEFINE row == Asked(q)
<1>1. /\ q \in Maker /\ q \notin Submission /\ step[q] = "commit" /\ saw[q] \in Row
      /\ given.op[q] \notin {"teams", "event"} /\ saw \in [Maker -> Row]
      /\ given.op[q] \in {"create", "move"} => given.with[q] \in AnyStage
      /\ given.op[q] = "assign" => given.with[q] \in Agent \cup {Nobody}
  BY RequestGiven DEF DealInv, CommitRequest, Shape
<1>2. CASE (KeyTaken(q) \/ SecondOpen(q, row)) /\ Fail(q)
  <2>1. KeptInv(q)' \/ given' # given
    BY <1>1 DEF KeptInv
  <2>2. QED
    BY <1>1, <1>2, <2>1, FailKeeps
<1>3. CASE /\ ~SecondOpen(q, row)
           /\ IF given.op[q] = "assign"
              THEN /\ deals' = [deals EXCEPT ![on[q]] = Left(q, row)]
                   /\ Moves(q, "done")
                   /\ saw' = [saw EXCEPT ![q] = NoDeal]
                   /\ UNCHANGED <<trail, crossed>>
              ELSE Store(q, row, IF saw[q] = NoDeal THEN None ELSE saw[q].stage)
           /\ UNCHANGED <<contacts, grants, who, on, had, began, before, lastTeams, unsettled, closes>>
  <2>1. given.op[q] \in {"create", "move", "assign"}
    <3>1. given \in Given /\ given.op[q] # "contact"
      BY <1>1 DEF DealInv, IInv, Types, WorkInv
    <3>2. QED
      BY <1>1, <3>1, DealsAssumption
  <2>2. /\ saw' = [saw EXCEPT ![q] = NoDeal] /\ Moves(q, "done")
        /\ deals' = [deals EXCEPT ![on[q]] = Left(q, row)]
    BY <1>3 DEF Store
  <2>3. Moved(q, "done")
    <3>1. \A x \in Maker \ {q} : saw'[x] = saw[x]
      BY <1>1, <2>2
    <3>2. QED
      BY <1>1, <1>3, <2>2, <3>1 DEF Moved, Moves
  <2>4. CASE given.op[q] = "create"
    <3>1. who[q] \in Maker /\ on[q] = q /\ saw[q] = NoDeal /\ ~Made(q)
      BY <1>1, <2>4 DEF DealInv, WorkInv, MadeInv
    <3>2. row = NewDeal(who[q], given.with[q])
      BY <2>4 DEF Asked
    <3>3. row \in Deal
      BY <1>1, <2>4, <3>1, <3>2 DEF NewDeal, Deal
    <3>4. Leaves(q, row)
      BY <3>1, <3>3 DEF Leaves
    <3>5. Audits(q, row)
      BY <1>3, <2>4, <3>1 DEF Audits, Store
    <3>6. Stores(q, row)
      BY <1>3, <2>2, <3>1, <3>4, <3>5 DEF Stores
    <3>7. QED
      BY <1>1, <2>3, <3>6, StoreKeeps
  <2>5. CASE given.op[q] = "move"
    <3>1. HoldsDeal(q) /\ saw[q] # NoDeal /\ saw[q] \in Deal
      BY <1>1, <2>5 DEF DealInv, WorkInv, HoldsDeal, Row
    <3>2. row = [saw[q] EXCEPT !.stage = given.with[q]]
      BY <2>5 DEF Asked
    <3>3. row \in Deal /\ row.contact = saw[q].contact /\ row.status = saw[q].status
      BY <1>1, <2>5, <3>1, <3>2 DEF Deal
    <3>4. Leaves(q, row)
      BY <3>1, <3>3 DEF Leaves
    <3>5. saw[q].stage \in AnyStage
      BY <3>1 DEF Deal
    <3>6. Audits(q, row)
      BY <1>3, <2>5, <3>1, <3>5 DEF Audits, Store
    <3>7. Stores(q, row)
      BY <1>3, <2>2, <3>3, <3>4, <3>6 DEF Stores
    <3>8. QED
      BY <1>1, <2>3, <3>7, StoreKeeps
  <2>6. CASE given.op[q] = "assign"
    <3>1. HoldsDeal(q) /\ saw[q] # NoDeal /\ saw[q] \in Deal
      BY <1>1, <2>6 DEF DealInv, WorkInv, HoldsDeal, Row
    <3>2. row = [saw[q] EXCEPT !.owner = given.with[q]]
      BY <2>6 DEF Asked
    <3>3. row \in Deal /\ row.contact = saw[q].contact /\ row.status = saw[q].status
          /\ row.stage = saw[q].stage
      BY <1>1, <2>6, <3>1, <3>2 DEF Deal
    <3>4. Leaves(q, row)
      BY <3>1, <3>3 DEF Leaves
    <3>5. Stores(q, row)
      BY <1>3, <2>2, <2>6, <3>1, <3>3, <3>4 DEF Stores
    <3>6. QED
      BY <1>1, <2>3, <3>5, StoreKeeps
  <2>7. QED
    BY <2>1, <2>4, <2>5, <2>6
<1>4. QED
  BY <1>2, <1>3 DEF CommitRequest

LEMMA ContactKeeps ==
    ASSUME DealInv, IInv', NEW q \in Request, CreateContact(q), given' = given
    PROVE  DealInv'
<1>1. /\ Begin(q) /\ Moves(q, "done") /\ given.op[q] = "contact"
      /\ contacts' = contacts \cup {q}
      /\ UNCHANGED <<deals, trail, grants, who, on, saw, had, crossed,
                     lastTeams, unsettled, closes>>
  BY DEF CreateContact
<1>2. Shape /\ q \in Maker /\ q \notin Submission /\ q # None
  BY RequestGiven, DealsAssumption DEF DealInv
<1>3. /\ Moved(q, "done") /\ began' \in Seq(Maker) /\ step'[q] = "done" /\ who[q] = None
  BY <1>1, <1>2, BegunMoved
<1>4. Plain
  BY <1>1, <1>2, <1>3 DEF Plain, Shape
<1>5. (WorkInv(q) /\ ReuseInv(q) /\ FoundInv(q) /\ KeptInv(q))'
  BY <1>1, <1>2, <1>3 DEF WorkInv, ReuseInv, FoundInv, KeptInv
<1>6. ByHandOf(q)
  BY <1>1 DEF ByHandOf
<1>7. QED
  BY <1>1, <1>2, <1>3, <1>4, <1>5, <1>6, QuietKeeps

LEMMA EventKeeps ==
    ASSUME DealInv, IInv', NEW q \in Request, CommitEvent(q), given' = given
    PROVE  DealInv'
<1>1. q \in Maker /\ q \notin Submission /\ step[q] = "commit" /\ Shape
  BY RequestGiven DEF DealInv, CommitEvent
<1>2. CASE EventRecorded(q) /\ Fail(q)
  <2>1. Steady => EventRecorded(q)'
    <3>1. SUFFICES ASSUME Steady PROVE EventRecorded(q)'
      OBVIOUS
    <3>2. PICK p \in Request \ {q} : step[p] = "done" /\ given.op[p] = "event" /\ EventKey(p) = EventKey(q)
      BY <1>2 DEF EventRecorded
    <3>3. EventKey(p)' = EventKey(p) /\ EventKey(q)' = EventKey(q) /\ step'[p] = "done"
      BY <1>2, <3>1, <3>2 DEF Steady, EventKey, Maker, Fail
    <3>4. QED
      BY <3>1, <3>2, <3>3 DEF EventRecorded, Steady
  <2>2. Steady => KeptInv(q)'
    BY <2>1 DEF KeptInv
  <2>3. QED
    BY <1>1, <1>2, <2>2, FailKeeps
<1>3. CASE /\ Moves(q, "done") /\ AddContact(q)
           /\ UNCHANGED <<deals, trail, grants, who, on, saw, had, began, history>>
  <2>1. Moved(q, "done") /\ step'[q] = "done"
    BY <1>1, <1>3 DEF Moved, Moves, history, DealInv, IInv, Types
  <2>2. Plain
    BY <1>1, <1>3 DEF Plain, Shape, history
  <2>3. contacts' = contacts \/ (contacts' = contacts \cup {q} /\ who'[q] = q)
    BY <1>3 DEF AddContact
  <2>4. (WorkInv(q) /\ ReuseInv(q) /\ KeptInv(q))'
    BY <2>1 DEF WorkInv, ReuseInv, KeptInv
  <2>5. FoundInv(q)'
    BY <1>1, <1>3, <2>3 DEF FoundInv, DealInv, IInv, BeforeInv, history
  <2>6. QED
    BY <1>1, <1>3, <2>1, <2>2, <2>3, <2>4, <2>5, QuietKeeps DEF history
<1>4. QED
  BY <1>2, <1>3 DEF CommitEvent

LEMMA GrantsKeep ==
    ASSUME DealInv, IInv', NEW q \in Request, ReadGrants(q) \/ ReplaceGrants(q), given' = given
    PROVE  DealInv'
<1>1. q \in Maker /\ q \notin Submission /\ Shape /\ q # None /\ given.op[q] = "teams"
      /\ given.with[q] \subseteq Team
  BY RequestGiven, DealsAssumption DEF DealInv, ReadGrants, ReplaceGrants
<1>2. CASE ReadGrants(q)
  <2>1. /\ Begin(q) /\ Moves(q, "commit") /\ had' = [had EXCEPT ![q] = grants]
        /\ UNCHANGED <<contacts, deals, trail, grants, who, on, saw, crossed,
                       lastTeams, unsettled, closes>>
    BY <1>2 DEF ReadGrants, committed
  <2>2. /\ Moved(q, "commit") /\ began' \in Seq(Maker) /\ step'[q] = "commit" /\ who[q] = None
    BY <1>1, <2>1, BegunMoved
  <2>3. Plain
    BY <1>1, <2>1, <2>2 DEF Plain, Shape
  <2>4. (WorkInv(q) /\ ReuseInv(q) /\ FoundInv(q) /\ KeptInv(q))'
    BY <1>1, <2>1, <2>2 DEF WorkInv, ReuseInv, FoundInv, KeptInv, Moved
  <2>5. QED
    BY <1>1, <2>1, <2>2, <2>3, <2>4, QuietKeeps
<1>3. CASE ReplaceGrants(q) /\ Fail(q)
  <2>1. KeptInv(q)'
    BY <1>1, <1>3 DEF KeptInv
  <2>2. QED
    BY <1>1, <1>3, <2>1, FailKeeps DEF ReplaceGrants
<1>4. CASE ReplaceGrants(q) /\ ~Fail(q)
  <2>1. /\ Moves(q, "done") /\ step[q] = "commit" /\ grants' = Kept(q) \cup given.with[q]
        /\ lastTeams' = q /\ unsettled' = (unsettled \/ lastTeams \notin before[q] \cup {None})
        /\ UNCHANGED <<contacts, deals, trail, who, on, saw, had, began, before, crossed, closes>>
    BY <1>4 DEF ReplaceGrants
  <2>2. Moved(q, "done") /\ step'[q] = "done"
    BY <1>1, <2>1 DEF Moved, Moves, DealInv, IInv, Types
  <2>3. unsettled' \in BOOLEAN
    BY <2>1
  <2>4. Plain
    BY <1>1, <2>1, <2>3 DEF Plain, Shape, Kept
  <2>5. (WorkInv(q) /\ ReuseInv(q) /\ KeptInv(q))'
    BY <2>2 DEF WorkInv, ReuseInv, KeptInv
  <2>6. FoundInv(q)'
    BY <1>1, <2>1 DEF FoundInv, DealInv
  <2>7. QED
    BY <1>1, <2>1, <2>2, <2>4, <2>5, <2>6, QuietKeeps
<1>5. QED
  BY <1>2, <1>3, <1>4

LEMMA CloseKeeps ==
    ASSUME DealInv, IInv', NEW d \in Maker, CloseDeal(d), given' = given
    PROVE  DealInv'
<1> DEFINE L == [deals[d] EXCEPT !.status = "closed"]
<1>1. /\ closes < MaxCloses /\ closes' = closes + 1
      /\ deals[d].status = "open" /\ deals' = [deals EXCEPT ![d] = L]
      /\ UNCHANGED <<contacts, trail, grants, step, who, on, saw, had, began, before, crossed,
                     lastTeams, unsettled>>
  BY DEF CloseDeal, work
<1>2. deals[d] \in Deal /\ Made(d) /\ Shape
  BY <1>1, NoRow DEF DealInv, Shape, Made
<1>3. L \in Deal /\ L.contact = deals[d].contact /\ L.stage = deals[d].stage /\ L.status # "open"
  BY <1>2 DEF Deal
<1>4. Writes(d, L)
  BY <1>1, <1>3 DEF Writes
<1>5. /\ deals' \in [Maker -> Row] /\ OneOpen'
      /\ deals'[d] = L
      /\ \A e \in Maker \ {d} : deals'[e] = deals[e]
      /\ \A e \in Maker : Made(e) => Made(e)' /\ deals'[e].contact = deals[e].contact
  BY <1>4, RowWritten
<1> HIDE DEF L
<1>6. Steady
  BY <1>1, <1>3, <1>5 DEF Steady
<1>7. Shape'
  <2>1. closes' \in 0..MaxCloses
    BY <1>1, <1>2, DealsAssumption DEF Shape
  <2>2. QED
    BY <1>1, <1>2, <1>5, <2>1 DEF Shape
<1>8. MadeInv' /\ TrailMade' /\ ContactInv'
  BY <1>1, <1>2, <1>5 DEF DealInv, MadeInv, TrailMade, ContactInv, Made, ByHandOf
<1>9. \A e \in Maker : TrailInv(e)'
  <2>1. \A e \in Maker : deals'[e].stage = deals[e].stage
    BY <1>3, <1>5
  <2>2. QED
    BY <1>1, <2>1 DEF DealInv, TrailInv
<1>10. \A x \in Maker : (WorkInv(x) /\ ReuseInv(x) /\ FoundInv(x) /\ KeptInv(x))'
  BY <1>1, <1>6, SameKeeps DEF SameAt
<1>11. QED
  BY <1>5, <1>7, <1>8, <1>9, <1>10 DEF DealInv

LEMMA StutterKeeps == ASSUME DealInv, IInv', UNCHANGED vars PROVE DealInv'
<1> USE DEF vars, committed, work, history
<1>1. Steady /\ \A x \in Maker : SameAt(x)
  BY DEF Steady, SameAt, Made
<1>2. \A x \in Maker : (WorkInv(x) /\ ReuseInv(x) /\ FoundInv(x) /\ KeptInv(x))'
  BY <1>1, SameKeeps
<1>3. Shape' /\ MadeInv' /\ OneOpen' /\ ContactInv' /\ TrailMade' /\ \A m \in Maker : TrailInv(m)'
  BY DEF DealInv, Shape, MadeInv, OneOpen, OpenDeals, ContactInv, ByHandOf, TrailMade, TrailInv, Made
<1>4. QED
  BY <1>2, <1>3 DEF DealInv

LEMMA NextDealInv == ASSUME DealInv, [Next]_vars PROVE DealInv'
<1>1. IInv'
  BY NextIInv DEF DealInv
<1>2. ASSUME NEW s \in Submission, given' = given,
             UpsertContact(s) \/ ResolveDeal(s) \/ CommitSubmission(s)
      PROVE  DealInv'
  <2>1. CASE UpsertContact(s)
    <3>1. s \in Maker /\ FindContact(s, "deal") /\ on' = on
      BY <2>1 DEF UpsertContact, Maker
    <3>2. on' \in [Maker -> Maker \cup {None}]
      BY <3>1 DEF DealInv, Shape
    <3>3. QED
      BY <1>1, <1>2, <3>1, <3>2, FindKeeps
  <2>2. QED
    BY <1>1, <1>2, <2>1, ResolveKeeps, SubmissionKeeps
<1>3. ASSUME NEW q \in Request, given' = given, ReadEvent(q) PROVE DealInv'
  <2>1. PICK d \in {m \in Maker : deals[m] # NoDeal} \cup {None} : on' = [on EXCEPT ![q] = d]
    BY <1>3 DEF ReadEvent
  <2>2. q \in Maker /\ FindContact(q, "commit") /\ given.op[q] = "event" /\ on \in [Maker -> Maker \cup {None}]
    BY <1>3 DEF ReadEvent, Maker, DealInv, Shape
  <2>3. on' \in [Maker -> Maker \cup {None}] /\ \A x \in Maker \ {q} : on'[x] = on[x]
    BY <2>1, <2>2
  <2>4. QED
    BY <1>1, <1>3, <2>2, <2>3, FindKeeps
<1>4. ASSUME NEW q \in Request, given' = given,
             \/ \E c \in Maker : CreateDeal(q, c)
             \/ CreateContact(q) \/ CommitEvent(q)
             \/ \E d \in Maker : ReadDeal(q, d)
             \/ CommitRequest(q) \/ ReadGrants(q) \/ ReplaceGrants(q)
      PROVE  DealInv'
  BY <1>1, <1>4, CreateKeeps, ContactKeeps, EventKeeps, ReadKeeps, RequestKeeps, GrantsKeep
<1>5. ASSUME NEW d \in Maker, given' = given, CloseDeal(d) PROVE DealInv'
  BY <1>1, <1>5, CloseKeeps
<1>6. CASE UNCHANGED vars
  BY <1>1, <1>6, StutterKeeps
<1>7. QED
  BY <1>2, <1>3, <1>4, <1>5, <1>6 DEF Next, Step

(* The inductive invariant of the deals holds in every reachable state.    *)
THEOREM DealInvariance == Spec => []DealInv
<1>1. Init => DealInv
  BY InitDealInv
<1>2. DealInv /\ [Next]_vars => DealInv'
  BY NextDealInv
<1>3. QED
  BY <1>1, <1>2, PTL DEF Spec

(* Everything keeps its type, and whatever submissions, events and agents  *)
(* do at once, no contact ever has two open deals (db/models.py:165-173).  *)
THEOREM TypeCorrect == Spec => []TypeOK
<1>1. ASSUME DealInv, NEW c \in Maker PROVE Cardinality(OpenDeals(c)) <= 1
  <2>1. CASE OpenDeals(c) = {}
    BY <2>1, FS_EmptySet
  <2>2. ASSUME NEW d \in OpenDeals(c) PROVE Cardinality(OpenDeals(c)) <= 1
    <3>1. OpenDeals(c) = {d}
      BY <1>1, <2>2 DEF DealInv, OneOpen, OpenDeals
    <3>2. QED
      BY <3>1, FS_Singleton
  <2>3. QED
    BY <2>1, <2>2
<1>2. ASSUME DealInv, NEW m \in Maker
      PROVE  \A e \in ToSet(trail[m]) : e \in (AnyStage \cup {None}) \X AnyStage
  <2>1. trail[m] \in Seq(Arrow)
    BY <1>2 DEF DealInv, Shape
  <2>2. QED
    BY <2>1 DEF ToSet, Arrow
<1>3. ASSUME DealInv PROVE ToSet(began) \subseteq Maker
  <2>1. began \in Seq(Maker)
    BY <1>3 DEF DealInv, Shape
  <2>2. QED
    BY <2>1 DEF ToSet
<1>4. DealInv => TypeOK
  BY <1>1, <1>2, <1>3 DEF DealInv, IInv, Types, Shape, Row, TypeOK
<1>5. QED
  BY <1>4, DealInvariance, PTL

(* Of any number of submissions and service events none is refused without *)
(* one of the reasons: something under way at once, a contact made by hand *)
(* or twice, a policy that reuses no open deal, an event that is recorded  *)
(* (intake.py:93-124, superhealth/webhooks.py:43-117).                     *)
THEOREM SubmissionsReasoned == Spec => []SubmissionsKept
<1>1. DealInv => SubmissionsKept
  BY DEF DealInv, KeptInv, SubmissionsKept
<1>2. QED
  BY <1>1, DealInvariance, PTL

(* However many requests move, assign and reopen deals, the audit rows of  *)
(* a deal lead from stage to stage to the one it is in, unless two of them *)
(* overlapped (contacts.py:439-449).                                       *)
THEOREM TrailsLead == Spec => []TrailLeadsToStage
<1>1. DealInv => TrailLeadsToStage
  BY DEF DealInv, TrailInv, TrailLeadsToStage
<1>2. QED
  BY <1>1, DealInvariance, PTL
=============================================================================
