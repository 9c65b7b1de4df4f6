--------------------------- MODULE SettingsProofs ---------------------------
(***************************************************************************)
(* Proofs about Settings, for any requests, accounts and settings: no      *)
(* account is left without its connector but for the two gaps              *)
(* AccountsHaveConnector names (IInv), saved settings stand, and the       *)
(* routing is made once (SettingsInv).                                     *)
(***************************************************************************)
EXTENDS Settings, TLAPS

ConnectorRow == [active: BOOLEAN, secrets: [Secret -> Setter]]
Connectors == [Owner -> ConnectorRow \cup {NoConnector}]

Types ==
    /\ given \in Given
    /\ connectors \in Connectors
    /\ accounts \in [Request -> {"absent", "on", "off"}]
    /\ step \in [Request -> {"new", "profile", "commit", "done", "refused"}]
    /\ DOMAIN read = Request
    /\ before \in [Request -> SUBSET Request]
    /\ log \in Seq(Request)

(* The log holds the requests that are done; a request began after others  *)
(* that are in it.                                                         *)
LogInv ==
    \A q \in Request : /\ q \in ToSet(log) <=> step[q] = "done"
                       /\ before[q] \subseteq ToSet(log)
                       /\ step[q] = "profile" => Is(q, "settings")

(* Who made a connector. *)
MadeBy(c, done) == c = Legacy \/ (c \in done /\ given.op[c] \in Creates)

ExistsInv == \A c \in Owner : Exists(c) <=> MadeBy(c, ToSet(log))

(* An account that is on was committed by a request that makes accounts.   *)
Makes(a) == given.op[a] \in Creates \cup {"account"}
AccountInv == \A a \in Request : accounts[a] = "on" => a \in ToSet(log) /\ Makes(a)

(* What a request that is about to commit has read: the connector was      *)
(* there, and accounts that were made before it and are on were on.        *)
ReadInv(q) ==
    step[q] = "commit" =>
       /\ given.op[q] \in {"connector", "delete", "account"} => MadeBy(given.on[q], before[q])
       /\ given.op[q] \in {"connector", "delete"} =>
             read[q].connectors \in Connectors /\ Had(q) \in ConnectorRow
       /\ given.op[q] = "delete" =>
             \A a \in before[q] : accounts[a] = "on" => read[q].accounts[a] = "on"

TurnedOff(c) == Of("connector", c) \cap given.off # {}

(* An account that is being created has found its connector on: who has    *)
(* switched it off since was not there when the account was begun.         *)
PendingInv(a) ==
    step[a] = "commit" /\ Is(a, "account") /\ ~connectors[Home(a)].active =>
       TurnedOff(Home(a)) \/ \E q \in Of("delete", Home(a)) : q \notin before[a]

OnInv(a) ==
    accounts[a] = "on" /\ ~connectors[Home(a)].active =>
       \/ TurnedOff(Home(a))
       \/ \E q \in Of("delete", Home(a)) : Is(a, "account") /\ Overlap(a, q)

IInv ==
    /\ Types /\ LogInv /\ ExistsInv /\ AccountInv
    /\ \A q \in Request : ReadInv(q) /\ PendingInv(q) /\ OnInv(q)

-----------------------------------------------------------------------------
LEMMA GivenTypes ==
    ASSUME Types
    PROVE  /\ given.op \in [Request -> Op] /\ given.on \in [Request -> Owner]
           /\ \A a \in Request : Home(a) \in Owner
           /\ Request \subseteq Owner /\ Request \subseteq Setter
BY SettingsAssumption DEF Types, Home, Owner, Setter

LEMMA LogGrows ==
    ASSUME log \in Seq(Request), NEW q \in Request, log' = Append(log, q)
    PROVE  log' \in Seq(Request) /\ ToSet(log') = ToSet(log) \cup {q}
<1>1. log' \in Seq(Request) /\ Len(log') = Len(log) + 1 /\ Len(log) \in Nat
  OBVIOUS
<1>2. \A i \in 1..Len(log) : log'[i] = log[i]
  OBVIOUS
<1>3. log'[Len(log) + 1] = q
  OBVIOUS
<1>4. ToSet(log') = {log'[i] : i \in 1..(Len(log) + 1)}
  BY <1>1 DEF ToSet
<1>5. ToSet(log) = {log[i] : i \in 1..Len(log)}
  BY DEF ToSet
<1>6. 1..(Len(log) + 1) = 1..Len(log) \cup {Len(log) + 1}
  BY <1>1
<1>7. QED
  BY <1>1, <1>2, <1>3, <1>4, <1>5, <1>6

LEMMA InitIInv == ASSUME Init PROVE IInv
<1> USE SettingsAssumption DEF Init
<1>1. ToSet(log) = {}
  BY DEF ToSet
<1>2. Types
  BY DEF Types, Connectors, ConnectorRow, NoConnector, Unset, Setter
<1>3. Exists(Legacy)
  BY DEF Exists, NoConnector, Owner
<1>4. ExistsInv
  BY <1>1, <1>3 DEF ExistsInv, MadeBy, Exists, Owner, NoConnector
<1>5. LogInv /\ AccountInv
  BY <1>1 DEF LogInv, AccountInv
<1>6. \A q \in Request : ReadInv(q) /\ PendingInv(q) /\ OnInv(q)
  BY DEF ReadInv, PendingInv, OnInv
<1>7. QED
  BY <1>2, <1>4, <1>5, <1>6 DEF IInv

-----------------------------------------------------------------------------
(* Steps that commit nothing *)

LEMMA BeginKeeps ==
    ASSUME IInv, NEW q \in Request, NEW label \in {"profile", "commit"},
           Begin(q, label), given' = given,
           given.op[q] \in {"connector", "delete", "account"} => Exists(given.on[q]),
           given.op[q] = "account" => connectors[given.on[q]].active,
           label = "profile" => Is(q, "settings")
    PROVE  IInv'
<1> USE DEF Begin, committed
<1>1. /\ Types /\ LogInv /\ ExistsInv /\ AccountInv
      /\ connectors' = connectors /\ accounts' = accounts /\ log' = log
      /\ step[q] = "new" /\ step'[q] = label
      /\ before'[q] = ToSet(log) /\ read'[q] = Now
      /\ \A p \in Request \ {q} : /\ step'[p] = step[p] /\ before'[p] = before[p]
                                  /\ read'[p] = read[p]
  BY DEF IInv, Types
<1>2. ToSet(log) \subseteq Request
  BY <1>1 DEF Types, ToSet
<1>3. Types'
  BY <1>1, <1>2 DEF Types
<1>4. LogInv' /\ ExistsInv' /\ AccountInv'
  BY <1>1 DEF LogInv, ExistsInv, AccountInv, Makes, MadeBy, Exists, Is
<1>5. ReadInv(q)'
  <2>1. given.op[q] \in {"connector", "delete", "account"} =>
           MadeBy(given.on[q], ToSet(log)) /\ connectors[given.on[q]] \in ConnectorRow
    BY <1>1, GivenTypes DEF ExistsInv, Types, Connectors, Exists
  <2>2. /\ read'[q].connectors = connectors /\ read'[q].accounts = accounts
    BY <1>1 DEF Now
  <2>3. QED
    BY <1>1, <2>1, <2>2 DEF ReadInv, MadeBy, Had, Types
<1>6. ASSUME NEW p \in Request \ {q} PROVE ReadInv(p)'
  BY <1>1, <1>6 DEF IInv, ReadInv, MadeBy, Had
<1>7. ASSUME NEW p \in Request PROVE PendingInv(p)'
  <2>1. CASE p = q
    BY <1>1, <2>1 DEF PendingInv, Home, Is
  <2>2. CASE p # q
    BY <1>1, <2>2 DEF IInv, PendingInv, Home, Is, TurnedOff, Of, Committed
  <2>3. QED
    BY <2>1, <2>2
<1>8. ASSUME NEW a \in Request PROVE OnInv(a)'
  <2>1. q \notin ToSet(log)
    BY <1>1 DEF LogInv
  <2>2. accounts[a] = "on" => a # q
    BY <1>1, <2>1 DEF AccountInv
  <2>3. OnInv(a)
    BY DEF IInv
  <2>4. \A p \in Request : Of("delete", Home(a))' = Of("delete", Home(a))
                           /\ TurnedOff(Home(a))' = TurnedOff(Home(a))
                           /\ Home(a)' = Home(a)
    BY <1>1 DEF TurnedOff, Of, Committed, Home, Is
  <2>5. \A p \in Of("delete", Home(a)) : p \in Request /\ p # q
    BY <1>2, <2>1 DEF Of, Committed
  <2>6. QED
    BY <1>1, <2>2, <2>3, <2>4, <2>5 DEF OnInv, Overlap, Is
<1>9. QED
  BY <1>3, <1>4, <1>5, <1>6, <1>7, <1>8 DEF IInv

(* A request that is refused, or that reads once more. *)
LEMMA QuietKeeps ==
    ASSUME IInv, NEW q \in Request, NEW label \in {"commit", "refused"},
           UNCHANGED <<given, committed, before, kept, log>>,
           step[q] \in {"new", "profile", "commit"}, step' = [step EXCEPT ![q] = label],
           DOMAIN read' = Request, \A p \in Request \ {q} : read'[p] = read[p],
           label = "commit" => given.op[q] \notin {"connector", "delete", "account"}
    PROVE  IInv'
<1> USE DEF committed
<1>1. /\ Types /\ LogInv /\ ExistsInv /\ AccountInv
      /\ step'[q] = label /\ \A p \in Request \ {q} : step'[p] = step[p]
      /\ step[q] # "done"
  BY DEF IInv, Types
<1>2. Types'
  BY <1>1 DEF Types
<1>3. LogInv' /\ ExistsInv' /\ AccountInv'
  BY <1>1 DEF LogInv, ExistsInv, AccountInv, Makes, MadeBy, Exists, Is
<1>4. ASSUME NEW p \in Request PROVE ReadInv(p)' /\ PendingInv(p)' /\ OnInv(p)'
  <2>1. ReadInv(p) /\ PendingInv(p) /\ OnInv(p)
    BY DEF IInv
  <2>2. OnInv(p)'
    BY <2>1 DEF OnInv, TurnedOff, Of, Committed, Home, Is, Overlap
  <2>3. CASE p = q
    BY <1>1, <2>2, <2>3 DEF ReadInv, PendingInv, Is
  <2>4. CASE p # q
    BY <1>1, <2>1, <2>2, <2>4
       DEF ReadInv, PendingInv, MadeBy, Had, TurnedOff, Of, Committed, Home, Is
  <2>5. QED
    BY <2>3, <2>4
<1>5. QED
  BY <1>2, <1>3, <1>4 DEF IInv

-----------------------------------------------------------------------------
(* Commits *)

(* What every commit adds to the log, and what that leaves alone. *)
LEMMA DoneGrows ==
    ASSUME IInv, NEW q \in Request, step[q] = "commit", Done(q), given' = given
    PROVE  /\ q \notin ToSet(log) /\ ToSet(log') = ToSet(log) \cup {q}
           /\ LogInv' /\ before' = before
           /\ step' \in [Request -> {"new", "profile", "commit", "done", "refused"}]
           /\ DOMAIN read' = Request /\ log' \in Seq(Request)
           /\ step'[q] = "done"
           /\ \A p \in Request \ {q} : step'[p] = step[p] /\ read'[p] = read[p]
           /\ \A p \in Request : q \notin before[p]
           /\ \A c \in Owner : /\ TurnedOff(c) => TurnedOff(c)'
                               /\ Of("delete", c) \subseteq Of("delete", c)'
<1>1. Types /\ LogInv
  BY DEF IInv
<1>2. ToSet(log') = ToSet(log) \cup {q} /\ log' \in Seq(Request)
  BY <1>1, LogGrows DEF Types, Done
<1>3. q \notin ToSet(log)
  BY <1>1 DEF LogInv
<1>4. /\ step' \in [Request -> {"new", "profile", "commit", "done", "refused"}]
      /\ DOMAIN read' = Request /\ step'[q] = "done" /\ before' = before
      /\ \A p \in Request \ {q} : step'[p] = step[p] /\ read'[p] = read[p]
  BY <1>1 DEF Types, Done
<1>5. LogInv'
  BY <1>1, <1>2, <1>4 DEF LogInv, Is
<1>6. \A p \in Request : q \notin before[p]
  BY <1>1, <1>3 DEF LogInv
<1>7. \A c \in Owner : /\ Of("delete", c) \subseteq Of("delete", c)'
                       /\ Of("connector", c) \subseteq Of("connector", c)'
  BY <1>2 DEF Of, Committed, Is
<1>8. QED
  BY <1>2, <1>3, <1>4, <1>5, <1>6, <1>7 DEF TurnedOff

(* A commit keeps the invariant if it makes no account but its own, and if *)
(* the connectors it switches off are named by an update that says so, or  *)
(* by a delete that leaves on no account but those made since it began.    *)
LEMMA CommitKeeps ==
    ASSUME IInv, NEW q \in Request, step[q] = "commit", Done(q), given' = given,
           connectors' \in Connectors, accounts' \in [Request -> {"absent", "on", "off"}],
           \A c \in Owner : Exists(c)' <=> Exists(c) \/ (c = q /\ given.op[q] \in Creates),
           \A a \in Request \ {q} : accounts'[a] = "on" => accounts[a] = "on",
           accounts'[q] = "on" =>
              Makes(q) /\ (\/ connectors'[Home(q)].active
                           \/ Is(q, "account") /\ connectors' = connectors),
           \A c \in Owner : connectors[c].active /\ ~connectors'[c].active =>
              TurnedOff(c)' \/ (Is(q, "delete") /\ given.on[q] = c),
           \A a \in Request \ {q} :
              Is(q, "delete") /\ accounts'[a] = "on" /\ Home(a) = given.on[q] =>
                 Is(a, "account") /\ a \notin before[q]
    PROVE  IInv'
<1>1. Types /\ ExistsInv /\ AccountInv
  BY DEF IInv
<1>2. /\ q \notin ToSet(log) /\ ToSet(log') = ToSet(log) \cup {q}
      /\ LogInv' /\ before' = before
      /\ step' \in [Request -> {"new", "profile", "commit", "done", "refused"}]
      /\ DOMAIN read' = Request /\ log' \in Seq(Request)
      /\ step'[q] = "done"
      /\ \A p \in Request \ {q} : step'[p] = step[p] /\ read'[p] = read[p]
      /\ \A p \in Request : q \notin before[p]
      /\ \A c \in Owner : /\ TurnedOff(c) => TurnedOff(c)'
                          /\ Of("delete", c) \subseteq Of("delete", c)'
  BY DoneGrows
<1>3. Types'
  BY <1>1, <1>2 DEF Types
<1>4. ExistsInv'
  BY <1>1, <1>2 DEF ExistsInv, MadeBy
<1>5. AccountInv'
  BY <1>1, <1>2 DEF AccountInv, Makes
<1>6. Is(q, "delete") => q \in Of("delete", given.on[q])'
  BY <1>2 DEF Of, Committed, Is
<1>7. \A a \in Request : Home(a)' = Home(a) /\ Home(a) \in Owner
  BY <1>1, GivenTypes DEF Home, Is
<1>8. ASSUME NEW p \in Request PROVE ReadInv(p)'
  <2>1. CASE p = q
    BY <1>2, <2>1 DEF ReadInv
  <2>2. CASE p # q
    <3>1. \A a \in before[p] : a \in Request /\ a # q
      BY <1>1, <1>2 DEF Types
    <3>2. ReadInv(p)
      BY DEF IInv
    <3>3. QED
      BY <1>2, <2>2, <3>1, <3>2 DEF ReadInv, MadeBy, Had
  <2>3. QED
    BY <2>1, <2>2
<1>9. ASSUME NEW p \in Request PROVE PendingInv(p)'
  <2>1. SUFFICES ASSUME p # q, step[p] = "commit", Is(p, "account"),
                        ~connectors'[Home(p)].active
                 PROVE  TurnedOff(Home(p))' \/ \E d \in Of("delete", Home(p))' : d \notin before[p]
    BY <1>2, <1>7 DEF PendingInv, Is
  <2>2. CASE connectors[Home(p)].active
    BY <1>2, <1>6, <1>7, <2>1, <2>2
  <2>3. CASE ~connectors[Home(p)].active
    BY <1>2, <1>7, <2>1, <2>3 DEF IInv, PendingInv
  <2>4. QED
    BY <2>2, <2>3
<1>10. ASSUME NEW a \in Request PROVE OnInv(a)'
  <2>1. SUFFICES ASSUME accounts'[a] = "on", ~connectors'[Home(a)].active
                 PROVE  \/ TurnedOff(Home(a))'
                        \/ \E d \in Of("delete", Home(a))' : Is(a, "account") /\ Overlap(a, d)
    BY <1>2, <1>7 DEF OnInv, Is, Overlap
  <2>2. CASE a = q
    <3>1. PendingInv(q) /\ Is(q, "account") /\ ~connectors[Home(q)].active
      BY <2>1, <2>2 DEF IInv
    <3>2. TurnedOff(Home(q)) \/ \E d \in Of("delete", Home(q)) : d \notin before[q]
      BY <3>1 DEF PendingInv
    <3>3. \A d \in Of("delete", Home(q)) : d \in Request
      BY <1>1 DEF Of, Committed, Types, ToSet
    <3>4. QED
      BY <1>2, <1>7, <2>2, <3>1, <3>2, <3>3 DEF Overlap
  <2>3. CASE a # q /\ connectors[Home(a)].active
    BY <1>2, <1>6, <1>7, <2>1, <2>3 DEF Overlap
  <2>4. CASE a # q /\ ~connectors[Home(a)].active
    BY <1>2, <1>7, <2>1, <2>4 DEF IInv, OnInv
  <2>5. QED
    BY <2>2, <2>3, <2>4
<1>11. QED
  BY <1>2, <1>3, <1>4, <1>5, <1>8, <1>9, <1>10 DEF IInv

LEMMA NewKeeps ==
    ASSUME IInv, NEW q \in Request, CommitNew(q), given' = given
    PROVE  IInv'
<1> USE DEF CommitNew
<1> DEFINE row == [active |-> TRUE, secrets |-> [k \in Secret |-> IF k \in Named(q) THEN q ELSE None]]
<1>1. Types /\ q \in Owner /\ step[q] = "commit" /\ Done(q)
  BY DEF IInv, Owner
<1>2. row \in ConnectorRow /\ row # NoConnector /\ row.active
  BY DEF ConnectorRow, Setter, NoConnector
<1>3. /\ connectors' \in Connectors /\ connectors'[q] = row
      /\ \A c \in Owner \ {q} : connectors'[c] = connectors[c]
  BY <1>1, <1>2 DEF Types, Connectors
<1>4. /\ accounts' \in [Request -> {"absent", "on", "off"}]
      /\ \A a \in Request \ {q} : accounts'[a] = accounts[a]
  BY <1>1 DEF Types
<1>5. Home(q) = q /\ Makes(q) /\ ~Is(q, "delete") /\ given.op[q] \in Creates
  BY DEF Home, Is, Makes, Creates
<1> HIDE DEF CommitNew, row
<1>6. QED
  BY <1>1, <1>2, <1>3, <1>4, <1>5, CommitKeeps DEF Exists

LEMMA RowUpdated ==
    ASSUME NEW r \in ConnectorRow, NEW a \in BOOLEAN, NEW s \in [Secret -> Setter]
    PROVE  LET row == [r EXCEPT !.active = a, !.secrets = s]
           IN  row \in ConnectorRow /\ row.active = a /\ row # NoConnector
BY DEF ConnectorRow, NoConnector

LEMMA ConnectorKeeps ==
    ASSUME IInv, NEW q \in Request, CommitConnector(q), given' = given
    PROVE  IInv'
<1> DEFINE o == given.on[q]
           now == connectors[o]
           secrets == IF Encrypts(q) THEN Merged(q) ELSE now.secrets
           row == [now EXCEPT !.active = Active(q, now.active), !.secrets = secrets]
<1>1. /\ Types /\ LogInv /\ ExistsInv /\ ReadInv(q) /\ o \in Owner
      /\ step[q] = "commit" /\ Done(q) /\ Is(q, "connector") /\ accounts' = accounts
      /\ connectors' = [connectors EXCEPT ![o].active = Active(q, @),
             ![o].secrets = IF Encrypts(q) THEN Merged(q) ELSE @]
  BY GivenTypes DEF IInv, CommitConnector
<1>2. Had(q) \in ConnectorRow /\ Exists(o)
  BY <1>1 DEF ReadInv, Is, LogInv, ExistsInv, MadeBy
<1>3. now \in ConnectorRow
  BY <1>1, <1>2 DEF Types, Connectors, Exists
<1>4. row \in ConnectorRow /\ row.active = Active(q, now.active) /\ row # NoConnector
  <2>1. Active(q, now.active) \in BOOLEAN
    BY <1>3 DEF Active, ConnectorRow
  <2>2. secrets \in [Secret -> Setter]
    BY <1>2, <1>3 DEF Merged, ConnectorRow, Setter
  <2> HIDE DEF now, secrets
  <2>3. QED
    BY <1>3, <2>1, <2>2, RowUpdated
<1>5. /\ connectors' \in Connectors /\ connectors'[o] = row
      /\ \A c \in Owner \ {o} : connectors'[c] = connectors[c]
  <2>1. connectors \in Connectors /\ o \in DOMAIN connectors
    BY <1>1 DEF Types, Connectors
  <2>2. now.secrets = [now EXCEPT !.active = Active(q, @)].secrets
    BY <1>3 DEF ConnectorRow
  <2>3. connectors' = [connectors EXCEPT ![o] = row]
    BY <1>1, <2>1, <2>2
  <2> HIDE DEF row, now
  <2>4. QED
    BY <1>1, <1>4, <2>1, <2>3 DEF Connectors
<1>6. now.active /\ ~row.active => q \in given.off
  BY <1>4 DEF Active
<1>7. q \in Of("connector", o)'
  BY <1>1, DoneGrows DEF Of, Committed, Is
<1>8. \A c \in Owner : connectors[c].active /\ ~connectors'[c].active => TurnedOff(c)'
  BY <1>1, <1>5, <1>6, <1>7 DEF TurnedOff
<1>9. \A c \in Owner : Exists(c)' <=> Exists(c)
  BY <1>2, <1>4, <1>5 DEF Exists
<1>10. accounts[q] # "on" /\ given.op[q] \notin Creates /\ ~Is(q, "delete")
  BY <1>1 DEF IInv, AccountInv, LogInv, Is, Creates
<1>11. QED
  BY <1>1, <1>5, <1>8, <1>9, <1>10, CommitKeeps DEF Types

LEMMA DeleteKeeps ==
    ASSUME IInv, NEW q \in Request, CommitDelete(q), given' = given
    PROVE  IInv'
<1> USE DEF CommitDelete
<1> DEFINE o == given.on[q]
           now == connectors[o]
           row == [now EXCEPT !.active = @ /\ ~Had(q).active]
<1>1. /\ Types /\ LogInv /\ ExistsInv /\ AccountInv /\ ReadInv(q) /\ o \in Owner
      /\ step[q] = "commit" /\ Done(q) /\ Is(q, "delete") /\ accounts' = SwitchedOff(q)
  BY GivenTypes DEF IInv
<1>2. Had(q) \in ConnectorRow /\ Exists(o) /\ MadeBy(o, before[q])
  BY <1>1 DEF ReadInv, Is, LogInv, ExistsInv, MadeBy
<1>3. now \in ConnectorRow
  BY <1>1, <1>2 DEF Types, Connectors, Exists
<1>4. row \in ConnectorRow /\ row # NoConnector
  BY <1>2, <1>3 DEF ConnectorRow, NoConnector
<1>5. /\ connectors' \in Connectors /\ connectors'[o] = row
      /\ \A c \in Owner \ {o} : connectors'[c] = connectors[c]
  <2>1. connectors' = [connectors EXCEPT ![o] = row]
    BY <1>1, <1>3 DEF Types, Connectors, ConnectorRow
  <2> HIDE DEF row
  <2>2. QED
    BY <1>1, <1>4, <2>1 DEF Types, Connectors
<1>6. /\ \A c \in Owner : Exists(c)' <=> Exists(c)
      /\ \A c \in Owner : connectors[c].active /\ ~connectors'[c].active => given.on[q] = c
  BY <1>2, <1>4, <1>5 DEF Exists
<1>7. /\ accounts' \in [Request -> {"absent", "on", "off"}]
      /\ \A a \in Request : accounts'[a] = "on" => accounts[a] = "on"
      /\ \A a \in Request :
            Home(a) = o /\ accounts'[a] = "on" => read[q].accounts[a] # "on"
  BY <1>1 DEF Types, SwitchedOff
<1>8. accounts[q] # "on" /\ given.op[q] \notin Creates
  BY <1>1 DEF AccountInv, LogInv, Is, Creates
<1>9. ASSUME NEW a \in Request, accounts'[a] = "on", Home(a) = o
      PROVE  Is(a, "account") /\ a \notin before[q]
  <2>1. accounts[a] = "on" /\ a \notin before[q]
    BY <1>1, <1>7, <1>9 DEF ReadInv, Is
  <2>2. CASE given.op[a] \in Creates
    <3>1. Home(a) = a
      BY <2>2 DEF Home, Is, Creates
    <3>2. a # Legacy
      BY SettingsAssumption DEF Setter
    <3>3. QED
      BY <1>2, <1>9, <2>1, <3>1, <3>2 DEF MadeBy
  <2>3. CASE given.op[a] \notin Creates
    BY <1>1, <2>1, <2>3 DEF AccountInv, Makes, Is
  <2>4. QED
    BY <2>2, <2>3
<1> HIDE DEF CommitDelete
<1>10. QED
  BY <1>1, <1>5, <1>6, <1>7, <1>8, <1>9, CommitKeeps

LEMMA AccountKeeps ==
    ASSUME IInv, NEW q \in Request, CommitAccount(q), given' = given
    PROVE  IInv'
<1>1. /\ Types /\ step[q] = "commit" /\ Done(q) /\ Is(q, "account")
      /\ connectors' = connectors /\ accounts' = [accounts EXCEPT ![q] = "on"]
  BY DEF IInv, CommitAccount
<1>2. given.op[q] \notin Creates /\ ~Is(q, "delete") /\ Makes(q)
  BY <1>1 DEF Is, Creates, Makes
<1>3. QED
  BY <1>1, <1>2, CommitKeeps DEF Types, Exists

LEMMA OtherKeeps ==
    ASSUME IInv, NEW q \in Request, CommitSettings(q) \/ CommitTeam(q) \/ CommitTier(q),
           given' = given, Done(q)
    PROVE  IInv'
<1>1. /\ Types /\ LogInv /\ AccountInv /\ step[q] = "commit"
      /\ connectors' = connectors /\ accounts' = accounts
      /\ Is(q, "settings") \/ Is(q, "team") \/ Is(q, "tier")
  BY DEF IInv, CommitSettings, CommitTeam, CommitTier, Refuse, committed, Done
<1>2. given.op[q] \notin Creates /\ ~Is(q, "delete") /\ accounts[q] # "on"
  BY <1>1 DEF Is, Creates, AccountInv, LogInv
<1>3. QED
  BY <1>1, <1>2, CommitKeeps DEF Types, Exists

LEMMA RefuseKeeps ==
    ASSUME IInv, NEW q \in Request, Refuse(q), given' = given,
           step[q] \in {"new", "profile", "commit"}
    PROVE  IInv'
BY QuietKeeps DEF IInv, Types, Refuse

LEMMA NextIInv == ASSUME IInv, [Next]_vars PROVE IInv'
<1> USE DEF Is
<1>1. ASSUME NEW q \in Request, given' = given,
             \/ CreateConnector(q) \/ UpdateConnector(q) \/ DeleteConnector(q)
             \/ CreateAccount(q) \/ ReadRouting(q) \/ CreateTeam(q) \/ CreateTier(q)
      PROVE  IInv'
  <2>1. CASE CreateConnector(q)
    BY <1>1, <2>1, BeginKeeps DEF CreateConnector, Creates
  <2>2. CASE UpdateConnector(q)
    BY <1>1, <2>2, BeginKeeps DEF UpdateConnector
  <2>3. CASE DeleteConnector(q)
    BY <1>1, <2>3, BeginKeeps, RefuseKeeps DEF DeleteConnector
  <2>4. CASE CreateAccount(q)
    BY <1>1, <2>4, BeginKeeps, RefuseKeeps DEF CreateAccount, Begin
  <2>5. CASE ReadRouting(q)
    BY <1>1, <2>5, BeginKeeps DEF ReadRouting
  <2>6. CASE CreateTeam(q) \/ CreateTier(q)
    BY <1>1, <2>6, BeginKeeps DEF CreateTeam, CreateTier
  <2>7. QED
    BY <1>1, <2>1, <2>2, <2>3, <2>4, <2>5, <2>6
<1>2. ASSUME NEW q \in Request, given' = given, ReadProfile(q) PROVE IInv'
  <2>1. CASE Refuse(q)
    BY <1>2, <2>1, RefuseKeeps DEF ReadProfile
  <2>2. CASE ~Refuse(q)
    <3>1. /\ read' = [read EXCEPT ![q].flags = flags, ![q].policy = policy]
          /\ step' = [step EXCEPT ![q] = "commit"] /\ step[q] = "profile"
          /\ UNCHANGED <<committed, before, kept, log>>
      BY <1>2, <2>2 DEF ReadProfile
    <3>2. given.op[q] \notin {"connector", "delete", "account"}
      BY <3>1 DEF IInv, LogInv
    <3>3. QED
      BY <1>2, <3>1, <3>2, QuietKeeps DEF IInv, Types
  <2>3. QED
    BY <2>1, <2>2
<1>3. ASSUME NEW q \in Request, given' = given,
             CommitSettings(q) \/ CommitTeam(q) \/ CommitTier(q)
      PROVE  IInv'
  <2>1. CASE Done(q)
    BY <1>3, <2>1, OtherKeeps
  <2>2. CASE ~Done(q)
    BY <1>3, <2>2, RefuseKeeps DEF CommitSettings, CommitTeam, CommitTier
  <2>3. QED
    BY <2>1, <2>2
<1>4. CASE UNCHANGED vars
  BY <1>4 DEF vars, committed, IInv, Types, LogInv, ExistsInv, AccountInv, Makes, MadeBy,
     Exists, ReadInv, PendingInv, OnInv, TurnedOff, Of, Committed, Home, Had, Overlap
<1>5. CASE Next
  BY <1>1, <1>2, <1>3, <1>5, NewKeeps, ConnectorKeeps, DeleteKeeps, AccountKeeps
     DEF Next, Step
<1>6. QED
  BY <1>4, <1>5

(* The inductive invariant holds in every reachable state. *)
THEOREM Invariance == Spec => []IInv
<1>1. Init => IInv
  BY InitIInv
<1>2. IInv /\ [Next]_vars => IInv'
  BY NextIInv
<1>3. QED
  BY <1>1, <1>2, PTL DEF Spec

(* An account that is on without its connector was left so by an update    *)
(* that switched the connector off, or by a delete that overlapped with    *)
(* the creation of the account, and by nothing else (connectors.py:168,    *)
(* 197-217, channels.py:68-75).                                            *)
THEOREM AccountsBacked == Spec => []AccountsHaveConnector
<1>1. IInv => AccountsHaveConnector
  BY DEF IInv, OnInv, TurnedOff, AccountsHaveConnector
<1>2. QED
  BY <1>1, Invariance, PTL

-----------------------------------------------------------------------------
(* Settings that stand, and routing that is made once                      *)

Flags == [Flag -> Setter] \cup {NoProfile}
Teams == [Slug -> Setter \cup {Legacy}]
Tier == [by: Request, position: {0, 1}]
Snapshot == [connectors: Connectors, accounts: [Request -> {"absent", "on", "off"}],
             flags: Flags, policy: [Column -> Setter], teams: Teams, tiers: SUBSET Tier]
Under(q) == step[q] \in {"profile", "commit"}

Shape ==
    /\ flags \in Flags /\ policy \in [Column -> Setter] /\ teams \in Teams /\ tiers \subseteq Tier
    /\ kept \in [Request -> SUBSET (Flag \cup Column)]
    /\ \A q \in Request : read[q] \in Snapshot \cup {Nothing} /\ (Under(q) => read[q] \in Snapshot)

(* Flags and columns are set, and read as set, by requests that are done;  *)
(* the flags of no profile by nobody.                                      *)
FlagOf(profile) == IF profile = NoProfile THEN Unset(Flag) ELSE profile
ValueInv ==
    /\ \A c \in Column : policy[c] \in ToSet(log) \cup {None}
    /\ \A f \in Flag : FlagOf(flags)[f] \in ToSet(log) \cup {None}
ReadValueInv(q) ==
    Under(q) => /\ \A c \in Column : read[q].policy[c] \in ToSet(log) \cup {None}
                /\ \A f \in Flag : FlagOf(read[q].flags)[f] \in ToSet(log) \cup {None}

(* A tier is of a request that is done; who began after that has read it,  *)
(* and makes no other for its position, but by hand.                       *)
TierInv ==
    /\ \A t \in tiers : t.by \in ToSet(log)
    /\ \A t, u \in tiers :
          t.position = u.position /\ t.by \in before[u.by] => Is(u.by, "tier")
FoundInv(q) ==
    Under(q) => /\ \A t \in tiers : t.by \in before[q] => t \in read[q].tiers
                /\ read[q].tiers \subseteq tiers

(* What a save leaves, and what those find who begin after one.            *)
Needed == {"support_agent", "support_admin"}
MadeInv ==
    Committed("settings") # {} =>
       /\ \A s \in Needed : teams[s] # None
       /\ flags # NoProfile
       /\ given.policy => \A p \in Positions : \E t \in tiers : t.position = p
SavedBefore(q) == Committed("settings") \cap before[q] # {}
ReadMadeInv(q) ==
    Under(q) => /\ \A s \in Needed : read[q].teams[s] # None => teams[s] = read[q].teams[s]
                /\ read[q].flags # NoProfile => flags # NoProfile
                /\ SavedBefore(q) => /\ \A s \in Needed : read[q].teams[s] # None
                                     /\ read[q].flags # NoProfile

(* Settings or a team have been saved since q began, or its teams and      *)
(* profile are as it has read them.                                        *)
SavedSince(q) == \E p \in Committed("settings") \cup Committed("team") : p \notin before[q]
SinceInv(q) ==
    Is(q, "settings") /\ Under(q) =>
       SavedSince(q) \/ (teams = read[q].teams /\ flags = read[q].flags)
RefusedInv(q) ==
    step[q] = "refused" /\ Is(q, "settings") =>
       \/ Column \cap given.names[q] # {} /\ ~given.policy
       \/ ~SavedBefore(q) /\ SavedSince(q)

(* LastWord in a log l of requests that began after b, where what those of *)
(* "pending" have read may be older still.                                 *)
Places(l, setting, writers) ==
    {i \in DOMAIN l : l[i] \in writers /\ setting \in Named(l[i])}
Stands(l, b, kp, value, setting, writers, rewriters, pending, i) ==
    \/ value = l[i]
    \/ \E j \in DOMAIN l : j > i /\ l[j] \in rewriters /\ l[i] \notin b[l[j]]
    \/ /\ setting \in kp[l[i]]
       /\ \/ Same(setting, value, l[i])
          \/ \E j \in DOMAIN l :
                /\ j < i /\ l[j] \notin b[l[i]]
                /\ l[j] \in rewriters \/ j \in Places(l, setting, writers)
    \/ \E p \in pending : l[i] \notin b[p]
Word(l, b, kp, value, setting, writers, rewriters, pending) ==
    \/ Places(l, setting, writers) = {} /\ value = None
    \/ \E i \in Places(l, setting, writers) :
          /\ \A j \in Places(l, setting, writers) : j <= i
          /\ Stands(l, b, kp, value, setting, writers, rewriters, pending, i)

Updates(c) == Of("connector", c)
Setters(c) == Updates(c) \cup ({c} \cap Creators)
Savers == Committed("settings")

SecretWord(c, k) == Word(log, before, kept, SecretsOf(c)[k], k, Setters(c), Updates(c), {})
FlagWord(f) == Word(log, before, kept, FlagOf(flags)[f], f, Savers, Savers, {})
ColumnWord(c) == Word(log, before, kept, policy[c], c, Savers, {}, {})

SecretRead(q) ==
    step[q] = "commit" /\ Is(q, "connector") => \A k \in Secret :
       Word(log, before, kept, Had(q).secrets[k], k, Setters(given.on[q]), Updates(given.on[q]), {q})
FlagRead(q) ==
    step[q] = "commit" /\ Is(q, "settings") => \A f \in Flag :
       Word(log, before, kept, FlagOf(read[q].flags)[f], f, Savers, Savers, {q})

(* What has changed since q read it was saved by others since it began.    *)
ChangedInv(q) ==
    step[q] = "commit" /\ Is(q, "settings") =>
       /\ \A f \in Flag : \/ FlagOf(flags)[f] = FlagOf(read[q].flags)[f]
                          \/ \E p \in Savers : p \notin before[q]
       /\ \A c \in Column : \/ policy[c] = read[q].policy[c]
                            \/ \E p \in Savers : p \notin before[q] /\ c \in Named(p)

OfRequest(q) ==
    /\ ReadValueInv(q) /\ FoundInv(q) /\ ReadMadeInv(q)
    /\ SinceInv(q) /\ RefusedInv(q) /\ ChangedInv(q)
RoutingInv ==
    /\ Shape /\ ValueInv /\ TierInv /\ MadeInv
    /\ \A q \in Request : OfRequest(q)
WordInv ==
    /\ \A c \in Owner, k \in Secret : SecretWord(c, k)
    /\ \A f \in Flag : FlagWord(f)
    /\ \A c \in Column : ColumnWord(c)
    /\ \A q \in Request : SecretRead(q) /\ FlagRead(q)

-----------------------------------------------------------------------------
(* Words                                                                   *)

LEMMA LogAppended ==
    ASSUME NEW l \in Seq(Request), NEW q \in Request, NEW l2, l2 = Append(l, q)
    PROVE  /\ l2 \in Seq(Request) /\ Len(l) \in Nat
           /\ DOMAIN l = 1..Len(l) /\ DOMAIN l2 = 1..(Len(l) + 1)
           /\ l2[Len(l) + 1] = q
           /\ \A i \in DOMAIN l : i \in DOMAIN l2 /\ l2[i] = l[i] /\ i \in Int /\ i < Len(l) + 1
           /\ \A i \in DOMAIN l2 : i \in DOMAIN l \/ i = Len(l) + 1
OBVIOUS

(* A word stands while nobody commits, and stands as one that is pending.  *)
LEMMA WordStays ==
    ASSUME NEW l \in Seq(Request), NEW b, NEW b2, NEW kp, NEW kp2, NEW v, NEW k,
           NEW W, NEW R, NEW P, NEW P2,
           Word(l, b, kp, v, k, W, R, P), P \subseteq P2,
           \A x \in ToSet(l) \cup P : b2[x] = b[x], \A x \in ToSet(l) : kp2[x] = kp[x]
    PROVE  Word(l, b2, kp2, v, k, W, R, P2)
<1>1. \A i \in DOMAIN l : l[i] \in ToSet(l)
  BY DEF ToSet
<1>2. CASE Places(l, k, W) = {} /\ v = None
  BY <1>2 DEF Word
<1>3. ASSUME NEW i \in Places(l, k, W), \A j \in Places(l, k, W) : j <= i,
             Stands(l, b, kp, v, k, W, R, P, i)
      PROVE  Word(l, b2, kp2, v, k, W, R, P2)
  <2>1. l[i] \in ToSet(l) /\ b2[l[i]] = b[l[i]] /\ kp2[l[i]] = kp[l[i]]
    BY <1>1, <1>3 DEF Places
  <2>2. Stands(l, b2, kp2, v, k, W, R, P2, i)
    <3>1. CASE \E j \in DOMAIN l : j > i /\ l[j] \in R /\ l[i] \notin b[l[j]]
      BY <1>1, <3>1 DEF Stands
    <3>2. CASE \E p \in P : l[i] \notin b[p]
      BY <3>2 DEF Stands
    <3>3. QED
      BY <1>3, <2>1, <3>1, <3>2 DEF Stands
  <2>3. QED
    BY <1>3, <2>2 DEF Word
<1>4. QED
  BY <1>2, <1>3 DEF Word

(* The word of a setting when q commits, one of the writers now if it is   *)
(* in W2: what q writes if it names the setting, what was there or, if q   *)
(* is one of the rewriters, what q had read if it does not.                *)
LEMMA PlacesGrow ==
    ASSUME NEW l \in Seq(Request), NEW q \in Request, NEW k,
           NEW W, NEW W2, \A x \in ToSet(l) : x \in W2 <=> x \in W
    PROVE  \A i : i \in Places(Append(l, q), k, W2) <=>
                      i \in Places(l, k, W) \/ (q \in W2 /\ k \in Named(q) /\ i = Len(l) + 1)
<1>1. \A i \in DOMAIN l : l[i] \in ToSet(l)
  BY DEF ToSet
<1>2. /\ Append(l, q)[Len(l) + 1] = q /\ Len(l) + 1 \in DOMAIN Append(l, q) /\ Len(l) + 1 \notin DOMAIN l
      /\ \A i \in DOMAIN l : i \in DOMAIN Append(l, q) /\ Append(l, q)[i] = l[i]
      /\ \A i \in DOMAIN Append(l, q) : i \in DOMAIN l \/ i = Len(l) + 1
  BY LogAppended
<1>3. QED
  BY <1>1, <1>2 DEF Places

LEMMA WordNamed ==
    ASSUME NEW l \in Seq(Request), NEW q \in Request, NEW b, NEW kp, NEW k,
           NEW W, NEW W2, NEW R2, NEW P, NEW v,
           \A x \in ToSet(l) : x \in W2 <=> x \in W,
           q \in W2, k \in Named(q),
           \/ v = q \/ \E p \in P : q \notin b[p]
           \/ /\ k \in kp[q]
              /\ \/ Same(k, v, q)
                 \/ \E x \in ToSet(l) : /\ x \notin b[q]
                                        /\ x \in R2 \/ (x \in W /\ k \in Named(x))
    PROVE  Word(Append(l, q), b, kp, v, k, W2, R2, P)
<1> DEFINE n == Len(l) + 1
           l2 == Append(l, q)
<1>0. \A i : i \in Places(l2, k, W2) <=>
                i \in Places(l, k, W) \/ (q \in W2 /\ k \in Named(q) /\ i = Len(l) + 1)
  BY PlacesGrow
<1>1. Places(l2, k, W2) = Places(l, k, W) \cup {n}
  BY <1>0
<1>2. /\ l2[n] = q /\ n \in Int
      /\ \A j \in DOMAIN l : j < n /\ j \in Int /\ j \in DOMAIN l2 /\ l2[j] = l[j]
  BY LogAppended
<1>3. ASSUME NEW x \in ToSet(l), x \notin b[q], x \in R2 \/ (x \in W /\ k \in Named(x))
      PROVE  \E j \in DOMAIN l2 : /\ j < n /\ l2[j] \notin b[q]
                                  /\ l2[j] \in R2 \/ j \in Places(l2, k, W2)
  <2>1. PICK j \in DOMAIN l : l[j] = x
    BY <1>3 DEF ToSet
  <2>2. x \in W /\ k \in Named(x) => j \in Places(l2, k, W2)
    BY <1>1, <2>1 DEF Places
  <2>3. QED
    BY <1>2, <1>3, <2>1, <2>2
<1> HIDE DEF n, l2
<1>4. \A j \in Places(l2, k, W2) : j <= n
  BY <1>1, <1>2 DEF Places
<1>5. Stands(l2, b, kp, v, k, W2, R2, P, n)
  <2>1. CASE v = q \/ \E p \in P : q \notin b[p]
    BY <1>2, <2>1 DEF Stands
  <2>2. CASE k \in kp[q] /\ Same(k, v, q)
    BY <1>2, <2>2 DEF Stands
  <2>3. CASE /\ k \in kp[q]
             /\ \E x \in ToSet(l) : x \notin b[q] /\ (x \in R2 \/ (x \in W /\ k \in Named(x)))
    <3>1. \E j \in DOMAIN l2 : /\ j < n /\ l2[j] \notin b[q]
                               /\ l2[j] \in R2 \/ j \in Places(l2, k, W2)
      BY <1>3, <2>3
    <3>2. QED
      BY <1>2, <2>3, <3>1 DEF Stands
  <2>4. QED
    BY <2>1, <2>2, <2>3
<1>6. n \in Places(l2, k, W2)
  BY <1>1
<1>7. QED
  BY <1>4, <1>5, <1>6 DEF Word, l2

LEMMA WordUnnamed ==
    ASSUME NEW l \in Seq(Request), NEW q \in Request, NEW b, NEW kp, NEW k,
           NEW W, NEW W2, NEW R, NEW R2, NEW P, NEW P2, NEW v,
           \A x \in ToSet(l) : x \in W2 <=> x \in W,
           R \subseteq R2, Word(l, b, kp, v, k, W, R, P),
           ~(q \in W2 /\ k \in Named(q)),
           P \subseteq P2 \/ (P = {q} /\ q \in R2)
    PROVE  Word(Append(l, q), b, kp, v, k, W2, R2, P2)
<1> DEFINE n == Len(l) + 1
           l2 == Append(l, q)
<1>0. \A i : i \in Places(l2, k, W2) <=>
                i \in Places(l, k, W) \/ (q \in W2 /\ k \in Named(q) /\ i = Len(l) + 1)
  BY PlacesGrow
<1>1. Places(l2, k, W2) = Places(l, k, W)
  BY <1>0
<1>2. /\ l2[n] = q /\ n \in DOMAIN l2 /\ n \in Int
      /\ \A j \in DOMAIN l : j \in DOMAIN l2 /\ l2[j] = l[j] /\ j < n /\ j \in Int
  BY LogAppended
<1> HIDE DEF n, l2
<1>3. CASE Places(l, k, W) = {} /\ v = None
  BY <1>1, <1>3 DEF Word, l2
<1>4. ASSUME NEW i \in Places(l, k, W), \A j \in Places(l, k, W) : j <= i,
             Stands(l, b, kp, v, k, W, R, P, i)
      PROVE  Word(l2, b, kp, v, k, W2, R2, P2)
  <2>1. i \in DOMAIN l /\ l2[i] = l[i] /\ n > i
    BY <1>2, <1>4 DEF Places
  <2>2. Stands(l2, b, kp, v, k, W2, R2, P2, i)
    <3>1. CASE v = l[i]
      BY <2>1, <3>1 DEF Stands
    <3>2. CASE \E j \in DOMAIN l : j > i /\ l[j] \in R /\ l[i] \notin b[l[j]]
      BY <1>2, <2>1, <3>2 DEF Stands
    <3>3. CASE k \in kp[l[i]] /\ Same(k, v, l[i])
      BY <2>1, <3>3 DEF Stands
    <3>4. CASE /\ k \in kp[l[i]]
               /\ \E j \in DOMAIN l : /\ j < i /\ l[j] \notin b[l[i]]
                                      /\ l[j] \in R \/ j \in Places(l, k, W)
      BY <1>1, <1>2, <2>1, <3>4 DEF Stands
    <3>5. CASE \E p \in P : l[i] \notin b[p]
      BY <1>2, <2>1, <3>5 DEF Stands
    <3>6. QED
      BY <1>4, <3>1, <3>2, <3>3, <3>4, <3>5 DEF Stands
  <2>3. QED
    BY <1>1, <1>4, <2>2 DEF Word
<1>5. QED
  BY <1>3, <1>4 DEF Word, l2

(* Who sets what, when q commits. *)
LEMMA SettersGrow ==
    ASSUME IInv, NEW q \in Request, step[q] = "commit", Done(q), given' = given
    PROVE  /\ \A x \in ToSet(log) : x \in Savers' <=> x \in Savers
           /\ Savers \subseteq Savers' /\ (q \in Savers' <=> Is(q, "settings"))
           /\ \A c \in Owner :
                 /\ \A x \in ToSet(log) : x \in Setters(c)' <=> x \in Setters(c)
                 /\ Updates(c) \subseteq Updates(c)'
                 /\ q \in Updates(c)' <=> Is(q, "connector") /\ given.on[q] = c
                 /\ q \in Setters(c)' <=> \/ Is(q, "connector") /\ given.on[q] = c
                                          \/ q = c /\ given.op[q] \in Creates
<1>1. q \notin ToSet(log) /\ ToSet(log') = ToSet(log) \cup {q}
  BY DoneGrows
<1>2. Creators' = Creators
  BY DEF Creators
<1>3. /\ Savers' = Savers \cup {x \in {q} : Is(x, "settings")}
  BY <1>1 DEF Savers, Committed, Is
<1>4. \A c \in Owner :
         Updates(c)' = Updates(c) \cup {x \in {q} : Is(x, "connector") /\ given.on[x] = c}
  BY <1>1 DEF Updates, Of, Committed, Is
<1>5. \A c \in Owner : q \notin Updates(c)
  BY <1>1 DEF Updates, Of, Committed
<1>6. q \notin Savers
  BY <1>1 DEF Savers, Committed
<1>7. \A c \in Owner :
         q \in Setters(c)' <=> q \in Updates(c)' \/ (q = c /\ given.op[q] \in Creates)
  BY <1>2 DEF Setters, Creators
<1>8. \A c \in Owner : \A x \in ToSet(log) : x \in Setters(c)' <=> x \in Setters(c)
  BY <1>1, <1>2, <1>4 DEF Setters
<1>9. QED
  BY <1>1, <1>3, <1>4, <1>5, <1>6, <1>7, <1>8

(* Steps that commit nothing. *)
LEMMA QuietWords ==
    ASSUME IInv, WordInv, NEW q \in Request, step[q] # "done",
           UNCHANGED <<given, committed, kept, log>>,
           \A p \in Request \ {q} : step'[p] = step[p] /\ read'[p] = read[p] /\ before'[p] = before[p],
           SecretRead(q)' /\ FlagRead(q)'
    PROVE  WordInv'
<1>1. log \in Seq(Request) /\ \A x \in ToSet(log) : x \in Request /\ before'[x] = before[x]
  BY DEF IInv, Types, LogInv, ToSet
<1>2. /\ log' = log /\ Savers' = Savers
      /\ \A c \in Owner : Setters(c)' = Setters(c) /\ Updates(c)' = Updates(c)
                          /\ SecretsOf(c)' = SecretsOf(c)
      /\ flags' = flags /\ policy' = policy /\ kept' = kept
  BY DEF Savers, Setters, Updates, Of, Committed, Creators, Is, SecretsOf, Exists, committed
<1>3. ASSUME NEW c \in Owner, NEW k \in Secret PROVE SecretWord(c, k)'
  <2>1. Word(log, before, kept, SecretsOf(c)[k], k, Setters(c), Updates(c), {})
    BY <1>3 DEF WordInv, SecretWord
  <2>2. Word(log, before', kept, SecretsOf(c)[k], k, Setters(c), Updates(c), {})
    BY <1>1, <2>1, WordStays
  <2>3. QED
    BY <1>2, <2>2 DEF SecretWord, Word, Stands, Same, Places, Named, Is
<1>4. ASSUME NEW f \in Flag PROVE FlagWord(f)'
  <2>1. Word(log, before, kept, FlagOf(flags)[f], f, Savers, Savers, {})
    BY <1>4 DEF WordInv, FlagWord
  <2>2. Word(log, before', kept, FlagOf(flags)[f], f, Savers, Savers, {})
    BY <1>1, <2>1, WordStays
  <2>3. QED
    BY <1>2, <2>2 DEF FlagWord, Word, Stands, Same, Places, Named, Is
<1>5. ASSUME NEW c \in Column PROVE ColumnWord(c)'
  <2>1. Word(log, before, kept, policy[c], c, Savers, {}, {})
    BY <1>5 DEF WordInv, ColumnWord
  <2>2. Word(log, before', kept, policy[c], c, Savers, {}, {})
    BY <1>1, <2>1, WordStays
  <2>3. QED
    BY <1>2, <2>2 DEF ColumnWord, Word, Stands, Same, Places, Named, Is
<1>6. ASSUME NEW p \in Request \ {q} PROVE SecretRead(p)' /\ FlagRead(p)'
  <2>0. \A x \in ToSet(log) \cup {p} : before'[x] = before[x]
    BY <1>1, <1>6
  <2>1. ASSUME step[p] = "commit", Is(p, "connector"), NEW k \in Secret
        PROVE  Word(log', before', kept', Had(p).secrets[k], k, Setters(given.on[p])', Updates(given.on[p])', {p})
    <3>1. Word(log, before, kept, Had(p).secrets[k], k, Setters(given.on[p]), Updates(given.on[p]), {p})
      BY <2>1, <1>6 DEF WordInv, SecretRead
    <3>2. given.on[p] \in Owner
      BY <1>6, GivenTypes DEF IInv
    <3>3. Word(log, before', kept, Had(p).secrets[k], k, Setters(given.on[p]), Updates(given.on[p]), {p})
      BY <1>1, <2>0, <3>1, WordStays
    <3>4. QED
      BY <1>2, <3>2, <3>3
  <2>2. ASSUME step[p] = "commit", Is(p, "settings"), NEW f \in Flag
        PROVE  Word(log', before', kept', FlagOf(read[p].flags)[f], f, Savers', Savers', {p})
    <3>1. Word(log, before, kept, FlagOf(read[p].flags)[f], f, Savers, Savers, {p})
      BY <2>2, <1>6 DEF WordInv, FlagRead
    <3>2. Word(log, before', kept, FlagOf(read[p].flags)[f], f, Savers, Savers, {p})
      BY <1>1, <2>0, <3>1, WordStays
    <3>3. QED
      BY <1>2, <3>2
  <2>3. SecretRead(p)'
    <3>1. SUFFICES ASSUME step[p] = "commit", Is(p, "connector"), NEW k \in Secret
                   PROVE  Word(log, before, kept, Had(p).secrets[k], k,
                               Setters(given.on[p]), Updates(given.on[p]), {p})'
      BY <1>6 DEF SecretRead, Is
    <3>2. Word(log', before', kept', Had(p).secrets[k], k,
               Setters(given.on[p])', Updates(given.on[p])', {p})
      BY <2>1, <3>1
    <3>3. Had(p)' = Had(p)
      BY <1>6 DEF Had
    <3>4. QED
      BY <3>2, <3>3 DEF Word, Stands, Same, Places, Named, Is
  <2>4. QED
    BY <1>6, <2>2, <2>3 DEF FlagRead, Word, Stands, Same, Places, Named, Is
<1>7. QED
  BY <1>3, <1>4, <1>5, <1>6 DEF WordInv

(* What a commit of q leaves in a setting: its own name if it names it,    *)
(* and otherwise what there is, or what it has read.                       *)

NamesSecret(q, c, k) ==
    /\ k \in Named(q)
    /\ (Is(q, "connector") /\ given.on[q] = c) \/ (q = c /\ given.op[q] \in Creates)
Saves(q, f) == Is(q, "settings") /\ f \in Named(q)

(* It has written nothing, for it had read what it wanted.                 *)
Finds(q, setting, value, others) ==
    /\ setting \in kept'[q]
    /\ Same(setting, value, q) \/ \E p \in others : p \in Savers /\ p \notin before[q]

Sets(q) ==
    /\ \A p \in Request \ {q} : kept'[p] = kept[p]
    /\ \A c \in Owner, k \in Secret :
          \/ NamesSecret(q, c, k) /\ SecretsOf(c)'[k] = q
          \/ ~NamesSecret(q, c, k) /\ SecretsOf(c)'[k] = SecretsOf(c)[k]
          \/ /\ ~NamesSecret(q, c, k) /\ Is(q, "connector") /\ given.on[q] = c
             /\ SecretsOf(c)'[k] = Had(q).secrets[k]
    /\ \A f \in Flag :
          \/ Saves(q, f) /\ FlagOf(flags')[f] = q
          \/ Saves(q, f) /\ Finds(q, f, FlagOf(flags')[f], Savers)
          \/ ~Saves(q, f) /\ FlagOf(flags')[f] = FlagOf(flags)[f]
          \/ /\ ~Saves(q, f) /\ Is(q, "settings")
             /\ FlagOf(flags')[f] = FlagOf(read[q].flags)[f]
    /\ \A c \in Column :
          \/ Saves(q, c) /\ policy'[c] = q
          \/ Saves(q, c) /\ Finds(q, c, policy'[c], {p \in Savers : c \in Named(p)})
          \/ ~Saves(q, c) /\ policy'[c] = policy[c]

LEMMA CommitWords ==
    ASSUME IInv, WordInv, NEW q \in Request, step[q] = "commit", Done(q), given' = given, Sets(q)
    PROVE  WordInv'
<1>1. /\ log \in Seq(Request) /\ log' = Append(log, q) /\ before' = before
      /\ \A p \in Request : q \notin before[p]
      /\ \A p \in Request \ {q} : step'[p] = step[p] /\ read'[p] = read[p]
      /\ step'[q] = "done"
  BY DoneGrows DEF IInv, Types, Done
<1>2. /\ \A x \in ToSet(log) : x \in Savers' <=> x \in Savers
      /\ Savers \subseteq Savers' /\ (q \in Savers' <=> Is(q, "settings"))
  BY SettersGrow
<1>3. ASSUME NEW c \in Owner
      PROVE  /\ \A x \in ToSet(log) : x \in Setters(c)' <=> x \in Setters(c)
             /\ Updates(c) \subseteq Updates(c)'
             /\ q \in Updates(c)' <=> Is(q, "connector") /\ given.on[q] = c
             /\ q \in Setters(c)' <=> \/ Is(q, "connector") /\ given.on[q] = c
                                      \/ q = c /\ given.op[q] \in Creates
  BY <1>3, SettersGrow
<1>0. /\ \A x \in ToSet(log) : x \in Request /\ x # q /\ kept'[x] = kept[x]
      /\ Savers \subseteq ToSet(log)
  BY DoneGrows DEF IInv, Types, ToSet, Sets, Savers, Committed
<1>4. ASSUME NEW c \in Owner, NEW k \in Secret PROVE SecretWord(c, k)'
  <2> DEFINE v == SecretsOf(c)'[k]
             W2 == Setters(c)'
             R2 == Updates(c)'
  <2>1. NamesSecret(q, c, k) <=> q \in W2 /\ k \in Named(q)
    BY <1>3 DEF NamesSecret
  <2>2. Word(log, before, kept', SecretsOf(c)[k], k, Setters(c), Updates(c), {})
    <3>1. Word(log, before, kept, SecretsOf(c)[k], k, Setters(c), Updates(c), {})
      BY <1>4 DEF WordInv, SecretWord
    <3>2. QED
      BY <1>0, <1>1, <3>1, WordStays
  <2>3. /\ \A x \in ToSet(log) : x \in W2 <=> x \in Setters(c)
        /\ Updates(c) \subseteq R2
    BY <1>3
  <2>4. Word(Append(log, q), before, kept', v, k, W2, R2, {})
    <3>1. CASE NamesSecret(q, c, k) /\ v = q
      <4> HIDE DEF v, W2, R2
      <4>1. QED
        BY <1>1, <2>1, <2>3, <3>1, WordNamed
    <3>2. CASE ~NamesSecret(q, c, k) /\ v = SecretsOf(c)[k]
      <4> HIDE DEF v, W2, R2
      <4>1. QED
        BY <1>1, <2>1, <2>2, <2>3, <3>2, WordUnnamed
    <3>3. CASE ~NamesSecret(q, c, k) /\ Is(q, "connector") /\ given.on[q] = c /\ v = Had(q).secrets[k]
      <4>1. Word(log, before, kept', v, k, Setters(c), Updates(c), {q})
        <5>1. Word(log, before, kept, v, k, Setters(c), Updates(c), {q})
          BY <1>4, <3>3 DEF WordInv, SecretRead
        <5>2. QED
          BY <1>0, <1>1, <5>1, WordStays
      <4>2. q \in R2
        BY <1>3, <3>3
      <4> HIDE DEF v, W2, R2
      <4>3. QED
        BY <1>1, <2>1, <2>3, <3>3, <4>1, <4>2, WordUnnamed
    <3>4. QED
      BY <1>4, <3>1, <3>2, <3>3 DEF Sets
  <2>5. QED
    BY <1>1, <2>4 DEF SecretWord, Word, Stands, Same, Places, Named, Is
<1>5. ASSUME NEW f \in Flag PROVE FlagWord(f)'
  <2> DEFINE v == FlagOf(flags')[f]
             W2 == Savers'
  <2>1. Saves(q, f) <=> q \in W2 /\ f \in Named(q)
    BY <1>2 DEF Saves
  <2>2. Word(log, before, kept', FlagOf(flags)[f], f, Savers, Savers, {})
    <3>1. Word(log, before, kept, FlagOf(flags)[f], f, Savers, Savers, {})
      BY <1>5 DEF WordInv, FlagWord
    <3>2. QED
      BY <1>0, <1>1, <3>1, WordStays
  <2>3. /\ \A x \in ToSet(log) : x \in W2 <=> x \in Savers
        /\ Savers \subseteq W2
    BY <1>2
  <2>4. Word(Append(log, q), before, kept', v, f, W2, W2, {})
    <3>1. CASE Saves(q, f) /\ v = q
      <4> HIDE DEF v, W2
      <4>1. QED
        BY <1>1, <2>1, <2>3, <3>1, WordNamed
    <3>5. CASE Saves(q, f) /\ Finds(q, f, v, Savers)
      <4>1. /\ f \in kept'[q]
            /\ Same(f, v, q) \/ \E x \in ToSet(log) : x \in W2 /\ x \notin before[q]
        BY <1>0, <2>3, <3>5 DEF Finds
      <4> HIDE DEF v, W2
      <4>2. QED
        BY <1>1, <2>1, <2>3, <3>5, <4>1, WordNamed
    <3>2. CASE ~Saves(q, f) /\ v = FlagOf(flags)[f]
      <4> HIDE DEF v, W2
      <4>1. QED
        BY <1>1, <2>1, <2>2, <2>3, <3>2, WordUnnamed
    <3>3. CASE ~Saves(q, f) /\ Is(q, "settings") /\ v = FlagOf(read[q].flags)[f]
      <4>1. Word(log, before, kept', v, f, Savers, Savers, {q})
        <5>1. Word(log, before, kept, v, f, Savers, Savers, {q})
          BY <1>5, <3>3 DEF WordInv, FlagRead
        <5>2. QED
          BY <1>0, <1>1, <5>1, WordStays
      <4>2. q \in W2
        BY <1>2, <3>3
      <4> HIDE DEF v, W2
      <4>3. QED
        BY <1>1, <2>1, <2>3, <3>3, <4>1, <4>2, WordUnnamed
    <3>4. QED
      BY <1>5, <3>1, <3>2, <3>3, <3>5 DEF Sets
  <2>5. QED
    BY <1>1, <2>4 DEF FlagWord, Word, Stands, Same, Places, Named, Is, FlagOf, Unset
<1>6. ASSUME NEW c \in Column PROVE ColumnWord(c)'
  <2> DEFINE v == policy'[c]
             W2 == Savers'
  <2>1. Saves(q, c) <=> q \in W2 /\ c \in Named(q)
    BY <1>2 DEF Saves
  <2>2. Word(log, before, kept', policy[c], c, Savers, {}, {})
    <3>1. Word(log, before, kept, policy[c], c, Savers, {}, {})
      BY <1>6 DEF WordInv, ColumnWord
    <3>2. QED
      BY <1>0, <1>1, <3>1, WordStays
  <2>3. \A x \in ToSet(log) : x \in W2 <=> x \in Savers
    BY <1>2
  <2>4. Word(Append(log, q), before, kept', v, c, W2, {}, {})
    <3>1. CASE Saves(q, c) /\ v = q
      <4> HIDE DEF v, W2
      <4>1. QED
        BY <1>1, <2>1, <2>3, <3>1, WordNamed
    <3>4. CASE Saves(q, c) /\ Finds(q, c, v, {p \in Savers : c \in Named(p)})
      <4>1. /\ c \in kept'[q]
            /\ Same(c, v, q) \/ \E x \in ToSet(log) :
                  x \notin before[q] /\ x \in Savers /\ c \in Named(x)
        BY <1>0, <3>4 DEF Finds
      <4> HIDE DEF v, W2
      <4>2. QED
        BY <1>1, <2>1, <2>3, <3>4, <4>1, WordNamed
    <3>2. CASE ~Saves(q, c) /\ v = policy[c]
      <4> HIDE DEF v, W2
      <4>1. QED
        BY <1>1, <2>1, <2>2, <2>3, <3>2, WordUnnamed
    <3>3. QED
      BY <1>6, <3>1, <3>2, <3>4 DEF Sets
  <2>5. QED
    BY <1>1, <2>4 DEF ColumnWord, Word, Stands, Same, Places, Named, Is
<1>7. ASSUME NEW p \in Request \ {q}, step[p] = "commit", Is(p, "connector"), NEW k \in Secret
      PROVE  Word(log', before, kept', Had(p).secrets[k], k, Setters(given.on[p])', Updates(given.on[p])', {p})
  <2>1. given.on[p] \in Owner
    BY <1>7, GivenTypes DEF IInv
  <2> DEFINE v == Had(p).secrets[k]
             c == given.on[p]
  <2>2. Word(log, before, kept', v, k, Setters(c), Updates(c), {p})
    <3>1. Word(log, before, kept, v, k, Setters(c), Updates(c), {p})
      BY <1>7 DEF WordInv, SecretRead
    <3>2. QED
      BY <1>0, <1>1, <3>1, WordStays
  <2>3. ASSUME NEW W2, W2 = Setters(c)', NEW R2, R2 = Updates(c)'
        PROVE  Word(Append(log, q), before, kept', v, k, W2, R2, {p})
    <3>1. /\ \A x \in ToSet(log) : x \in W2 <=> x \in Setters(c)
          /\ Updates(c) \subseteq R2
      BY <1>3, <2>1, <2>3
    <3> HIDE DEF v, c
    <3>2. CASE q \in W2 /\ k \in Named(q)
      BY <1>1, <1>7, <3>1, <3>2, WordNamed
    <3>3. CASE ~(q \in W2 /\ k \in Named(q))
      BY <1>1, <2>2, <3>1, <3>3, WordUnnamed
    <3>4. QED
      BY <3>2, <3>3
  <2>4. QED
    BY <1>1, <2>3
<1>8. ASSUME NEW p \in Request \ {q}, step[p] = "commit", Is(p, "settings"), NEW f \in Flag
      PROVE  Word(log', before, kept', FlagOf(read[p].flags)[f], f, Savers', Savers', {p})
  <2> DEFINE v == FlagOf(read[p].flags)[f]
  <2>1. Word(log, before, kept', v, f, Savers, Savers, {p})
    <3>1. Word(log, before, kept, v, f, Savers, Savers, {p})
      BY <1>8 DEF WordInv, FlagRead
    <3>2. QED
      BY <1>0, <1>1, <3>1, WordStays
  <2>2. ASSUME NEW W2, W2 = Savers'
        PROVE  Word(Append(log, q), before, kept', v, f, W2, W2, {p})
    <3>1. /\ \A x \in ToSet(log) : x \in W2 <=> x \in Savers
          /\ Savers \subseteq W2
      BY <1>2, <2>2
    <3> HIDE DEF v
    <3>2. CASE q \in W2 /\ f \in Named(q)
      BY <1>1, <1>8, <3>1, <3>2, WordNamed
    <3>3. CASE ~(q \in W2 /\ f \in Named(q))
      BY <1>1, <2>1, <3>1, <3>3, WordUnnamed
    <3>4. QED
      BY <3>2, <3>3
  <2>3. QED
    BY <1>1, <2>2
<1>9. ASSUME NEW p \in Request PROVE SecretRead(p)' /\ FlagRead(p)'
  <2>1. CASE p = q
    BY <1>1, <2>1 DEF SecretRead, FlagRead
  <2>2. CASE p # q
    <3>1. SecretRead(p)'
      <4>1. SUFFICES ASSUME step[p] = "commit", Is(p, "connector"), NEW k \in Secret
                     PROVE  Word(log, before, kept, Had(p).secrets[k], k,
                                 Setters(given.on[p]), Updates(given.on[p]), {p})'
        BY <1>1, <2>2 DEF SecretRead, Is
      <4>2. Word(log', before, kept', Had(p).secrets[k], k, Setters(given.on[p])', Updates(given.on[p])', {p})
        BY <1>7, <2>2, <4>1
      <4>3. Had(p)' = Had(p) /\ before' = before
        BY <1>1, <2>2 DEF Had
      <4>4. QED
        BY <4>2, <4>3 DEF Word, Stands, Same, Places, Named, Is
    <3>2. FlagRead(p)'
      BY <1>1, <1>8, <2>2 DEF FlagRead, Word, Stands, Same, Places, Named, Is
    <3>3. QED
      BY <3>1, <3>2
  <2>3. QED
    BY <2>1, <2>2
<1>10. QED
  BY <1>4, <1>5, <1>6, <1>9 DEF WordInv

-----------------------------------------------------------------------------
(* Routing                                                                 *)

(* A step of q that commits nothing: what is left to show is about q. *)
LEMMA QuietRouting ==
    ASSUME IInv, RoutingInv, NEW q \in Request, step[q] # "done",
           UNCHANGED <<given, committed, kept, log>>,
           \A p \in Request \ {q} : step'[p] = step[p] /\ read'[p] = read[p] /\ before'[p] = before[p],
           read'[q] \in Snapshot \cup {Nothing}, Under(q)' => read'[q] \in Snapshot,
           OfRequest(q)'
    PROVE  RoutingInv'
<1>1. /\ flags' = flags /\ policy' = policy /\ teams' = teams /\ tiers' = tiers
      /\ log' = log /\ given' = given /\ kept' = kept /\ q \notin ToSet(log)
  BY DEF committed, IInv, LogInv
<1>2. Shape'
  BY <1>1 DEF RoutingInv, Shape, Under
<1>3. ValueInv' /\ MadeInv'
  BY <1>1 DEF RoutingInv, ValueInv, MadeInv, Committed, Is
<1>4. TierInv'
  <2>1. \A x \in ToSet(log) : x \in Request /\ before'[x] = before[x]
    BY <1>1 DEF IInv, Types, ToSet
  <2>2. QED
    BY <1>1, <2>1 DEF RoutingInv, TierInv, Is
<1>5. ASSUME NEW p \in Request \ {q} PROVE OfRequest(p)'
  <2>1. OfRequest(p)
    BY DEF RoutingInv
  <2>2. (ReadValueInv(p) /\ FoundInv(p))'
    BY <1>1, <2>1 DEF OfRequest, ReadValueInv, FoundInv, Under
  <2>3. (ReadMadeInv(p) /\ SinceInv(p) /\ RefusedInv(p))'
    BY <1>1, <2>1
       DEF OfRequest, ReadMadeInv, SinceInv, RefusedInv, SavedBefore, SavedSince, Committed, Is, Under
  <2>4. ChangedInv(p)'
    BY <1>1, <2>1 DEF OfRequest, ChangedInv, Savers, Committed, Named, Is
  <2>5. QED
    BY <2>2, <2>3, <2>4 DEF OfRequest
<1>6. QED
  BY <1>2, <1>3, <1>4, <1>5 DEF RoutingInv

(* A commit of q: the values it leaves are its own or were there, a tier   *)
(* of its own is for a position it has found no tier for, and a save       *)
(* leaves teams, profile and tiers that nothing removes.                   *)
LEMMA CommitRouting ==
    ASSUME IInv, RoutingInv, NEW q \in Request, step[q] = "commit", Done(q), given' = given,
           Shape',
           \A c \in Column : \/ policy'[c] = policy[c]
                             \/ policy'[c] = q /\ Is(q, "settings") /\ c \in Named(q),
           \A f \in Flag : FlagOf(flags')[f] \in {q, FlagOf(flags)[f], FlagOf(read[q].flags)[f]},
           ~Is(q, "settings") => flags' = flags,
           Is(q, "settings") \/ Is(q, "team") \/ teams' = teams,
           \A s \in Needed : teams[s] # None => teams'[s] = teams[s],
           Is(q, "settings") =>
              /\ \A s \in Needed : teams'[s] # None
              /\ flags' # NoProfile
              /\ given.policy => \A x \in Positions : \E t \in tiers' : t.position = x,
           \A t \in tiers' \ tiers :
              /\ t.by = q
              /\ Is(q, "tier") \/ \A u \in read[q].tiers : u.position # t.position,
           tiers \subseteq tiers'
    PROVE  RoutingInv'
<1>1. /\ q \notin ToSet(log) /\ ToSet(log') = ToSet(log) \cup {q} /\ before' = before
      /\ step'[q] = "done" /\ read'[q] = Nothing
      /\ \A p \in Request \ {q} : step'[p] = step[p] /\ read'[p] = read[p]
      /\ \A p \in Request : q \notin before[p]
  BY DoneGrows DEF Done, IInv, Types
<1>2. Committed("settings")' = Committed("settings") \cup {x \in {q} : Is(x, "settings")}
  BY <1>1 DEF Committed, Is
<1>3. Committed("team")' = Committed("team") \cup {x \in {q} : Is(x, "team")}
  BY <1>1 DEF Committed, Is
<1>4. ValueInv'
  BY <1>1 DEF RoutingInv, OfRequest, ValueInv, ReadValueInv, Under
<1>5. MadeInv'
  <2>1. CASE Is(q, "settings")
    BY <2>1 DEF MadeInv
  <2>2. CASE ~Is(q, "settings")
    BY <1>2, <2>2 DEF RoutingInv, MadeInv
  <2>3. QED
    BY <2>1, <2>2
<1>6. TierInv'
  <2>1. \A t \in tiers : t.by \in ToSet(log) /\ t.by \in Request
    BY DEF RoutingInv, TierInv, Shape, Tier
  <2>2. \A t \in tiers' : t.by \in ToSet(log') /\ t.by \in Request
    BY <1>1, <2>1
  <2>3. ASSUME NEW t \in tiers', NEW u \in tiers', t.position = u.position, t.by \in before[u.by]
        PROVE  Is(u.by, "tier")
    <3>1. t.by # q /\ t \in tiers
      BY <1>1, <2>2, <2>3
    <3>2. CASE u \in tiers
      BY <2>3, <3>1, <3>2 DEF RoutingInv, TierInv
    <3>3. CASE u \notin tiers
      <4>1. u.by = q /\ (Is(q, "tier") \/ \A v \in read[q].tiers : v.position # u.position)
        BY <2>3, <3>3
      <4>2. t \in read[q].tiers
        BY <2>3, <3>1, <4>1 DEF RoutingInv, OfRequest, FoundInv, Under
      <4>3. QED
        BY <2>3, <4>1, <4>2
    <3>4. QED
      BY <3>2, <3>3
  <2>4. QED
    BY <1>1, <2>2, <2>3 DEF TierInv, Is
<1>7. ASSUME NEW p \in Request PROVE OfRequest(p)'
  <2>1. CASE p = q
    BY <1>1, <2>1
       DEF OfRequest, ReadValueInv, FoundInv, ReadMadeInv, SinceInv, RefusedInv, ChangedInv, Under
  <2>2. CASE p # q
    <3>0. /\ OfRequest(p) /\ step'[p] = step[p] /\ read'[p] = read[p] /\ before'[p] = before[p]
          /\ q \notin before[p]
      BY <1>1, <2>2 DEF RoutingInv
    <3>1. ReadValueInv(p)'
      BY <1>1, <3>0 DEF OfRequest, ReadValueInv, Under
    <3>2. FoundInv(p)'
      BY <1>1, <3>0 DEF OfRequest, FoundInv, Under
    <3>3. SavedBefore(p)' <=> SavedBefore(p)
      BY <1>2, <3>0 DEF SavedBefore
    <3>4. SavedSince(p) => SavedSince(p)'
      BY <1>2, <1>3, <3>0 DEF SavedSince
    <3>5. Is(q, "settings") \/ Is(q, "team") => SavedSince(p)'
      BY <1>2, <1>3, <3>0 DEF SavedSince
    <3>6. ReadMadeInv(p)'
      <4>1. flags # NoProfile => flags' # NoProfile
        OBVIOUS
      <4>2. QED
        BY <3>0, <3>3, <4>1 DEF OfRequest, ReadMadeInv, Under
    <3>7. SinceInv(p)'
      BY <3>0, <3>4, <3>5 DEF OfRequest, SinceInv, Under, Is
    <3>8. RefusedInv(p)'
      BY <3>0, <3>3, <3>4 DEF OfRequest, RefusedInv, Is
    <3>9. ChangedInv(p)'
      <4>1. SUFFICES ASSUME step[p] = "commit", Is(p, "settings") PROVE ChangedInv(p)'
        BY <3>0 DEF ChangedInv, Is
      <4>2. Savers' = Savers \cup {x \in {q} : Is(x, "settings")}
        BY <1>2 DEF Savers
      <4>3. ASSUME NEW f \in Flag
            PROVE  \/ FlagOf(flags')[f] = FlagOf(read[p].flags)[f]
                   \/ \E x \in Savers' : x \notin before[p]
        <5>1. CASE Is(q, "settings")
          BY <3>0, <4>2, <5>1
        <5>2. CASE ~Is(q, "settings")
          BY <3>0, <4>1, <4>2, <5>2 DEF OfRequest, ChangedInv
        <5>3. QED
          BY <5>1, <5>2
      <4>4. ASSUME NEW c \in Column
            PROVE  \/ policy'[c] = read[p].policy[c]
                   \/ \E x \in Savers' : x \notin before[p] /\ c \in Named(x)
        BY <3>0, <4>1, <4>2 DEF OfRequest, ChangedInv
      <4>5. QED
        BY <3>0, <4>3, <4>4 DEF ChangedInv, Named, Is, FlagOf, Unset
    <3>10. QED
      BY <3>1, <3>2, <3>6, <3>7, <3>8, <3>9 DEF OfRequest
  <2>3. QED
    BY <2>1, <2>2
<1>8. QED
  BY <1>4, <1>5, <1>6, <1>7 DEF RoutingInv

(* The inductive invariant of the settings. *)
SettingsInv == IInv /\ RoutingInv /\ WordInv

-----------------------------------------------------------------------------
(* The actions                                                             *)

LEMMA InitSettingsInv == ASSUME Init PROVE SettingsInv
<1> USE SettingsAssumption DEF Init
<1>1. IInv /\ ToSet(log) = {} /\ DOMAIN log = {}
  BY InitIInv DEF ToSet
<1>2. given \in Given /\ given.teams \subseteq Slug
  OBVIOUS
<1>3. FlagOf(flags) = Unset(Flag)
  BY DEF FlagOf
<1>4. Shape
  BY <1>2 DEF Shape, Flags, Teams, Under, Unset, Setter
<1>5. RoutingInv
  <2>1. ValueInv /\ TierInv /\ MadeInv
    BY <1>1, <1>3 DEF ValueInv, TierInv, MadeInv, Committed, Unset
  <2>2. \A q \in Request : OfRequest(q)
    BY DEF OfRequest, ReadValueInv, FoundInv, ReadMadeInv, SinceInv, RefusedInv, ChangedInv, Under
  <2>3. QED
    BY <1>4, <2>1, <2>2 DEF RoutingInv
<1>6. \A k, W : Places(log, k, W) = {}
  BY <1>1 DEF Places
<1>7. \A c \in Owner, k \in Secret : SecretsOf(c)[k] = None
  BY DEF SecretsOf, Exists, Unset, NoConnector
<1>8. WordInv
  <2>1. \A c \in Owner, k \in Secret : SecretWord(c, k)
    BY <1>6, <1>7 DEF SecretWord, Word
  <2>2. \A f \in Flag : FlagWord(f)
    BY <1>3, <1>6 DEF FlagWord, Word, Unset
  <2>3. \A c \in Column : ColumnWord(c)
    BY <1>6 DEF ColumnWord, Word, Unset
  <2>4. \A q \in Request : SecretRead(q) /\ FlagRead(q)
    BY DEF SecretRead, FlagRead
  <2>5. QED
    BY <2>1, <2>2, <2>3, <2>4 DEF WordInv
<1>9. QED
  BY <1>1, <1>5, <1>8 DEF SettingsInv

(* Whoever begins has read everything as it is. *)
LEMMA BeginSettings ==
    ASSUME SettingsInv, NEW q \in Request, NEW label \in {"profile", "commit"},
           Begin(q, label), given' = given,
           Is(q, "connector") => Exists(given.on[q]),
           Is(q, "settings") => label = "profile"
    PROVE  (RoutingInv /\ WordInv)'
<1>1. /\ step[q] = "new" /\ step'[q] = label /\ read'[q] = Now /\ before'[q] = ToSet(log)
      /\ UNCHANGED <<committed, kept, log>>
      /\ \A p \in Request \ {q} : step'[p] = step[p] /\ read'[p] = read[p] /\ before'[p] = before[p]
  BY DEF Begin, SettingsInv, IInv, Types
<1>2. /\ connectors' = connectors /\ flags' = flags /\ policy' = policy /\ teams' = teams
      /\ tiers' = tiers /\ log' = log
  BY <1>1 DEF committed
<1>3. Now \in Snapshot
  BY DEF SettingsInv, RoutingInv, Shape, IInv, Types, Now, Snapshot
<1>4. Now.flags = flags /\ Now.policy = policy /\ Now.teams = teams /\ Now.tiers = tiers
      /\ Now.connectors = connectors
  BY DEF Now
<1>5. ReadValueInv(q)' /\ FoundInv(q)'
  BY <1>1, <1>2, <1>4 DEF SettingsInv, RoutingInv, ValueInv, ReadValueInv, FoundInv
<1>6. (ReadMadeInv(q) /\ SinceInv(q) /\ RefusedInv(q) /\ ChangedInv(q))'
  <2>1. SavedBefore(q)' => Committed("settings") # {}
    BY <1>2 DEF SavedBefore, Committed, Is
  <2>2. ReadMadeInv(q)'
    BY <1>1, <1>2, <1>4, <2>1 DEF SettingsInv, RoutingInv, MadeInv, ReadMadeInv
  <2>3. QED
    BY <1>1, <1>2, <1>4, <2>2 DEF SinceInv, RefusedInv, ChangedInv, Is
<1>7. RoutingInv'
  BY <1>1, <1>3, <1>5, <1>6, QuietRouting DEF SettingsInv, OfRequest
<1>8. SecretRead(q)'
  <2>1. SUFFICES ASSUME Is(q, "connector"), NEW k \in Secret
                 PROVE  Word(log, before, kept, Had(q).secrets[k], k,
                             Setters(given.on[q]), Updates(given.on[q]), {q})'
    BY DEF SecretRead, Is
  <2> DEFINE c == given.on[q]
  <2>2. c \in Owner /\ SecretsOf(c) = connectors[c].secrets
    BY <2>1, GivenTypes DEF SettingsInv, IInv, SecretsOf
  <2>3. Word(log, before, kept, SecretsOf(c)[k], k, Setters(c), Updates(c), {})
    BY <2>1, <2>2 DEF SettingsInv, WordInv, SecretWord
  <2>4. log \in Seq(Request) /\ \A x \in ToSet(log) : before'[x] = before[x]
    BY <1>1 DEF SettingsInv, IInv, LogInv, Types, ToSet
  <2> HIDE DEF c
  <2>5. Word(log, before', kept, SecretsOf(c)[k], k, Setters(c), Updates(c), {q})
    BY <2>3, <2>4, WordStays
  <2>6. Had(q)'.secrets = SecretsOf(c)
    BY <1>1, <1>2, <1>4, <2>2 DEF Had, c
  <2>7. Setters(given.on[q])' = Setters(c) /\ Updates(given.on[q])' = Updates(c)
    BY <1>2 DEF c, Setters, Updates, Of, Committed, Is, Creators
  <2>8. Word(log', before', kept', Had(q)'.secrets[k], k,
             Setters(given.on[q])', Updates(given.on[q])', {q})
    BY <1>1, <1>2, <2>5, <2>6, <2>7
  <2>9. QED
    BY <2>8 DEF Word, Stands, Same, Places, Named, Is
<1>9. FlagRead(q)'
  BY <1>1 DEF FlagRead, Is
<1>10. WordInv'
  BY <1>1, <1>8, <1>9, QuietWords DEF SettingsInv
<1>11. QED
  BY <1>7, <1>10

LEMMA RefuseSettings ==
    ASSUME SettingsInv, NEW q \in Request, Refuse(q), given' = given, step[q] # "done",
           Is(q, "settings") => \/ Column \cap given.names[q] # {} /\ ~given.policy
                                \/ ~SavedBefore(q) /\ SavedSince(q)
    PROVE  (RoutingInv /\ WordInv)'
<1>1. /\ step'[q] = "refused" /\ read'[q] = Nothing /\ UNCHANGED <<committed, log, before, kept>>
      /\ \A p \in Request \ {q} : step'[p] = step[p] /\ read'[p] = read[p] /\ before'[p] = before[p]
  BY DEF Refuse, SettingsInv, IInv, Types
<1>2. /\ SecretRead(q)' /\ FlagRead(q)'
      /\ (ReadValueInv(q) /\ FoundInv(q) /\ ReadMadeInv(q) /\ SinceInv(q) /\ ChangedInv(q))'
  BY <1>1 DEF ReadValueInv, FoundInv, ReadMadeInv, SinceInv, ChangedInv, SecretRead, FlagRead, Under
<1>3. RefusedInv(q)'
  BY <1>1 DEF RefusedInv, SavedBefore, SavedSince, Committed, Is
<1>4. ~Under(q)'
  BY <1>1 DEF Under
<1>5. RoutingInv'
  BY <1>1, <1>2, <1>3, <1>4, QuietRouting DEF SettingsInv, OfRequest
<1>6. WordInv'
  BY <1>1, <1>2, QuietWords DEF SettingsInv
<1>7. QED
  BY <1>5, <1>6

LEMMA ProfileSettings ==
    ASSUME SettingsInv, NEW q \in Request, ReadProfile(q), given' = given
    PROVE  (RoutingInv /\ WordInv)'
<1>1. CASE Refuse(q) /\ Column \cap given.names[q] # {} /\ ~given.policy
  BY <1>1, RefuseSettings DEF ReadProfile
<1>2. CASE /\ read' = [read EXCEPT ![q].flags = flags, ![q].policy = policy]
           /\ step' = [step EXCEPT ![q] = "commit"]
           /\ UNCHANGED <<committed, before, kept, log>>
  <2>1. step[q] = "profile" /\ Under(q) /\ read[q] \in Snapshot /\ Is(q, "settings")
    BY DEF ReadProfile, SettingsInv, RoutingInv, Shape, Under, IInv, LogInv
  <2>2. /\ step'[q] = "commit"
        /\ \A p \in Request \ {q} : step'[p] = step[p] /\ read'[p] = read[p] /\ before'[p] = before[p]
        /\ read'[q] = [read[q] EXCEPT !.flags = flags, !.policy = policy]
    BY <1>2 DEF SettingsInv, IInv, Types
  <2>3. /\ read'[q] \in Snapshot /\ read'[q].flags = flags /\ read'[q].policy = policy
        /\ read'[q].teams = read[q].teams /\ read'[q].tiers = read[q].tiers
    BY <2>1, <2>2 DEF SettingsInv, RoutingInv, Shape, Snapshot
  <2>4. /\ flags' = flags /\ policy' = policy /\ teams' = teams
        /\ tiers' = tiers /\ log' = log /\ before' = before
    BY <1>2 DEF committed
  <2>5. ReadValueInv(q)'
    BY <2>2, <2>3, <2>4 DEF SettingsInv, RoutingInv, ValueInv, ReadValueInv
  <2>6. (FoundInv(q) /\ ReadMadeInv(q) /\ SinceInv(q) /\ RefusedInv(q) /\ ChangedInv(q))'
    <3>1. OfRequest(q) /\ MadeInv
      BY DEF SettingsInv, RoutingInv
    <3>2. (FoundInv(q) /\ SinceInv(q) /\ RefusedInv(q))'
      BY <2>1, <2>2, <2>3, <2>4, <3>1
         DEF OfRequest, FoundInv, SinceInv, RefusedInv, SavedSince, Committed, Is, Under
    <3>3. SavedBefore(q)' => SavedBefore(q) /\ Committed("settings") # {}
      BY <2>4 DEF SavedBefore, Committed, Is
    <3>4. (ReadMadeInv(q))'
      BY <2>1, <2>3, <2>4, <3>1, <3>3 DEF OfRequest, ReadMadeInv, MadeInv
    <3>5. ChangedInv(q)'
      BY <2>3, <2>4 DEF ChangedInv, FlagOf, Unset
    <3>6. QED
      BY <3>2, <3>4, <3>5
  <2>7. RoutingInv'
    BY <1>2, <2>1, <2>2, <2>3, <2>5, <2>6, QuietRouting DEF SettingsInv, OfRequest
  <2>8. FlagRead(q)'
    <3>1. SUFFICES ASSUME NEW f \in Flag
                   PROVE  Word(log, before, kept, FlagOf(read[q].flags)[f], f, Savers, Savers, {q})'
      BY DEF FlagRead
    <3>2. Word(log, before, kept, FlagOf(flags)[f], f, Savers, Savers, {})
      BY <3>1 DEF SettingsInv, WordInv, FlagWord
    <3>3. Word(log, before, kept, FlagOf(flags)[f], f, Savers, Savers, {q})
      BY <3>2, WordStays DEF SettingsInv, IInv, Types
    <3>4. Savers' = Savers /\ kept' = kept /\ FlagOf(read[q].flags)' = FlagOf(flags)
      BY <1>2, <2>3, <2>4 DEF Savers, Committed, Is, FlagOf, Unset
    <3>5. Word(log', before', kept', FlagOf(read[q].flags)'[f], f, Savers', Savers', {q})
      BY <2>4, <3>3, <3>4
    <3>6. QED
      BY <3>5 DEF Word, Stands, Same, Places, Named, Is
  <2>9. SecretRead(q)'
    BY <2>1 DEF SecretRead, Is
  <2>10. WordInv'
    BY <1>2, <2>1, <2>2, <2>8, <2>9, QuietWords DEF SettingsInv
  <2>11. QED
    BY <2>7, <2>10
<1>3. QED
  BY <1>1, <1>2 DEF ReadProfile

LEMMA DoneShape ==
    ASSUME SettingsInv, NEW q \in Request, step[q] = "commit", Done(q), given' = given,
           flags' \in Flags, policy' \in [Column -> Setter], teams' \in Teams,
           tiers' \subseteq Tier, kept' \in [Request -> SUBSET (Flag \cup Column)]
    PROVE  Shape'
<1>1. /\ step'[q] = "done" /\ read'[q] = Nothing
      /\ \A p \in Request \ {q} : step'[p] = step[p] /\ read'[p] = read[p]
  BY DoneGrows DEF SettingsInv, Done, IInv, Types
<1>2. ASSUME NEW p \in Request
      PROVE  read'[p] \in Snapshot \cup {Nothing} /\ (Under(p)' => read'[p] \in Snapshot)
  BY <1>1 DEF SettingsInv, RoutingInv, Shape, Under
<1>3. QED
  BY <1>2 DEF Shape

(* A commit that sets nothing. *)
LEMMA OtherSettings ==
    ASSUME SettingsInv, NEW q \in Request, step[q] = "commit", Done(q), given' = given,
           given.op[q] \notin {"connector", "settings"}, UNCHANGED <<flags, policy, kept>>,
           \/ teams' = teams
           \/ /\ Is(q, "team") /\ teams' \in Teams
              /\ \A s \in Slug : teams[s] # None => teams'[s] = teams[s],
           given.op[q] \in Creates \/ \A c \in Owner : SecretsOf(c)' = SecretsOf(c),
           given.op[q] \in Creates => \A c \in Owner, k \in Secret :
              IF c = q /\ k \in Named(q) THEN SecretsOf(c)'[k] = q
              ELSE SecretsOf(c)'[k] = SecretsOf(c)[k],
           tiers' = tiers \/ (Is(q, "tier") /\ tiers' = tiers \cup {[by |-> q, position |-> 0]})
    PROVE  (RoutingInv /\ WordInv)'
<1>1. ~Is(q, "connector") /\ ~Is(q, "settings")
  BY DEF Is
<1>2. FlagOf(flags') = FlagOf(flags)
  BY DEF FlagOf, Unset
<1>3. Sets(q)
  BY <1>1, <1>2 DEF Sets, NamesSecret, Saves
<1>4. WordInv'
  BY <1>3, CommitWords DEF SettingsInv
<1>5. Shape'
  <2>1. tiers' \subseteq Tier /\ teams' \in Teams
    BY DEF SettingsInv, RoutingInv, Shape, Tier
  <2>2. QED
    BY <2>1, DoneShape DEF SettingsInv, RoutingInv, Shape
<1>6. /\ tiers \subseteq tiers'
      /\ \A t \in tiers' \ tiers : t.by = q /\ Is(q, "tier")
      /\ \A s \in Needed : teams[s] # None => teams'[s] = teams[s]
  BY DEF Needed, Slug
<1>7. RoutingInv'
  BY <1>1, <1>2, <1>5, <1>6, CommitRouting DEF SettingsInv
<1>8. QED
  BY <1>4, <1>7

LEMMA NewSettings ==
    ASSUME SettingsInv, NEW q \in Request, CommitNew(q), given' = given
    PROVE  (RoutingInv /\ WordInv)'
<1> DEFINE secrets == [k \in Secret |-> IF k \in Named(q) THEN q ELSE None]
<1>1. /\ given.op[q] \in Creates /\ step[q] = "commit" /\ Done(q)
      /\ connectors' = [connectors EXCEPT ![q] = [active |-> TRUE, secrets |-> secrets]]
      /\ UNCHANGED <<flags, policy, teams, tiers, kept>>
      /\ connectors \in Connectors /\ q \in Owner
  BY DEF CommitNew, SettingsInv, IInv, Types, Owner
<1>2. ~Exists(q)
  <2>1. q # Legacy /\ q \notin ToSet(log)
    BY <1>1, SettingsAssumption DEF SettingsInv, IInv, LogInv, Setter
  <2>2. QED
    BY <1>1, <2>1 DEF SettingsInv, IInv, ExistsInv, MadeBy
<1>3. SecretsOf(q) = Unset(Secret)
  BY <1>2 DEF SecretsOf
<1>4. SecretsOf(q)' = secrets
  <2>1. [active |-> TRUE, secrets |-> secrets] # NoConnector
    BY DEF NoConnector
  <2>2. connectors'[q] = [active |-> TRUE, secrets |-> secrets]
    BY <1>1 DEF Connectors
  <2> HIDE DEF secrets
  <2>3. QED
    BY <2>1, <2>2 DEF SecretsOf, Exists
<1>5. \A c \in Owner \ {q} : SecretsOf(c)' = SecretsOf(c)
  BY <1>1 DEF SecretsOf, Exists, Connectors, Unset, NoConnector
<1>6. ASSUME NEW c \in Owner, NEW k \in Secret
      PROVE  IF c = q /\ k \in Named(q) THEN SecretsOf(c)'[k] = q
             ELSE SecretsOf(c)'[k] = SecretsOf(c)[k]
  <2>1. CASE c = q
    BY <1>3, <1>4, <1>6, <2>1 DEF Unset
  <2>2. CASE c # q
    BY <1>5, <1>6, <2>2
  <2>3. QED
    BY <2>1, <2>2
<1>7. given.op[q] \notin {"connector", "settings"}
  BY <1>1 DEF Creates
<1>8. QED
  BY <1>1, <1>6, <1>7, OtherSettings

LEMMA ConnectorSettings ==
    ASSUME SettingsInv, NEW q \in Request, CommitConnector(q), given' = given
    PROVE  (RoutingInv /\ WordInv)'
<1> DEFINE o == given.on[q]
<1>1. /\ Is(q, "connector") /\ step[q] = "commit" /\ Done(q) /\ o \in Owner
      /\ connectors' = [connectors EXCEPT
            ![o].active = Active(q, @), ![o].secrets = IF Encrypts(q) THEN Merged(q) ELSE @]
      /\ UNCHANGED <<flags, policy, teams, tiers, kept>>
      /\ connectors \in Connectors
  BY GivenTypes DEF CommitConnector, SettingsInv, IInv, Types
<1>2. /\ given.op[q] \notin Creates /\ ~Is(q, "settings") /\ Named(q) = given.names[q]
  BY <1>1 DEF Is, Creates, Named
<1>3. Exists(o) /\ connectors[o] \in ConnectorRow
  BY <1>1 DEF SettingsInv, IInv, ReadInv, Is, LogInv, ExistsInv, MadeBy, Exists, Connectors
<1>4. /\ \A c \in Owner \ {o} : connectors'[c] = connectors[c]
      /\ connectors'[o].secrets = IF Encrypts(q) THEN Merged(q) ELSE connectors[o].secrets
      /\ connectors'[o] # NoConnector
  <2> DEFINE now == connectors[o]
             secrets == IF Encrypts(q) THEN Merged(q) ELSE now.secrets
             row == [now EXCEPT !.active = Active(q, now.active), !.secrets = secrets]
  <2>1. o \in DOMAIN connectors
    BY <1>1 DEF Connectors
  <2>2. now.secrets = [now EXCEPT !.active = Active(q, @)].secrets
    BY <1>3 DEF ConnectorRow
  <2>3. connectors' = [connectors EXCEPT ![o] = row]
    BY <1>1, <2>1, <2>2
  <2>4. row.secrets = secrets /\ DOMAIN row = {"active", "secrets"}
    BY <1>3 DEF ConnectorRow
  <2>5. row # NoConnector
    BY <2>4 DEF NoConnector
  <2> HIDE DEF row
  <2>6. connectors'[o] = row /\ \A c \in Owner \ {o} : connectors'[c] = connectors[c]
    BY <1>1, <2>1, <2>3 DEF Connectors
  <2>7. QED
    BY <2>4, <2>5, <2>6
<1> HIDE DEF o
<1>5. \A c \in Owner \ {o} : SecretsOf(c)' = SecretsOf(c)
  BY <1>4 DEF SecretsOf, Exists, Unset, NoConnector
<1>6. ASSUME NEW c, c = o
      PROVE  /\ SecretsOf(c)' = IF Encrypts(q) THEN Merged(q) ELSE connectors[o].secrets
             /\ SecretsOf(c) = connectors[o].secrets
  <2>1. o' = o
    BY DEF o
  <2>2. QED
    BY <1>3, <1>4, <1>6, <2>1 DEF SecretsOf, Exists, NoConnector
<1>7. ASSUME NEW c \in Owner, NEW k \in Secret
      PROVE  \/ NamesSecret(q, c, k) /\ SecretsOf(c)'[k] = q
             \/ ~NamesSecret(q, c, k) /\ SecretsOf(c)'[k] = SecretsOf(c)[k]
             \/ /\ ~NamesSecret(q, c, k) /\ Is(q, "connector") /\ given.on[q] = c
                /\ SecretsOf(c)'[k] = Had(q).secrets[k]
  <2>1. CASE c # o
    BY <1>2, <1>5, <1>7, <2>1 DEF NamesSecret, o
  <2>2. CASE c = o /\ Encrypts(q)
    <3>1. SecretsOf(c)' = Merged(q)
      BY <1>6, <2>2
    <3>2. NamesSecret(q, c, k) <=> k \in given.names[q]
      BY <1>1, <1>2, <2>2 DEF NamesSecret, o
    <3>3. Merged(q)[k] = IF k \in given.names[q] THEN q ELSE Had(q).secrets[k]
      BY <1>7 DEF Merged
    <3>4. QED
      BY <1>1, <2>2, <3>1, <3>2, <3>3 DEF o
  <2>3. CASE c = o /\ ~Encrypts(q)
    <3>1. k \notin given.names[q]
      BY <1>7, <2>3 DEF Encrypts
    <3>2. SecretsOf(c)' = SecretsOf(c)
      BY <1>6, <2>3
    <3>3. QED
      BY <1>2, <3>1, <3>2 DEF NamesSecret
  <2>4. QED
    BY <2>1, <2>2, <2>3
<1>8. FlagOf(flags') = FlagOf(flags)
  BY <1>1 DEF FlagOf, Unset
<1>9. Sets(q)
  BY <1>1, <1>2, <1>7, <1>8 DEF Sets, Saves
<1>10. WordInv'
  BY <1>1, <1>9, CommitWords DEF SettingsInv
<1>11. Shape'
  BY <1>1, DoneShape DEF SettingsInv, RoutingInv, Shape
<1>12. RoutingInv'
  BY <1>1, <1>2, <1>8, <1>11, CommitRouting DEF SettingsInv
<1>13. QED
  BY <1>10, <1>12

LEMMA DeleteSettings ==
    ASSUME SettingsInv, NEW q \in Request, CommitDelete(q), given' = given
    PROVE  (RoutingInv /\ WordInv)'
<1> DEFINE o == given.on[q]
           row == [connectors[o] EXCEPT !.active = @ /\ ~Had(q).active]
<1>1. /\ Is(q, "delete") /\ step[q] = "commit" /\ Done(q) /\ o \in Owner
      /\ connectors' = [connectors EXCEPT ![o].active = @ /\ ~Had(q).active]
      /\ UNCHANGED <<flags, policy, teams, tiers, kept>>
      /\ connectors \in Connectors
  BY GivenTypes DEF CommitDelete, SettingsInv, IInv, Types
<1>2. given.op[q] \notin Creates /\ given.op[q] \notin {"connector", "settings"}
  BY <1>1 DEF Is, Creates
<1>3. Exists(o) /\ connectors[o] \in ConnectorRow
  BY <1>1 DEF SettingsInv, IInv, ReadInv, Is, LogInv, ExistsInv, MadeBy, Exists, Connectors
<1>4. row.secrets = connectors[o].secrets /\ row # NoConnector
  BY <1>3 DEF ConnectorRow, NoConnector
<1>5. connectors' = [connectors EXCEPT ![o] = row]
  BY <1>1 DEF Connectors
<1> HIDE DEF row
<1>6. /\ \A c \in Owner \ {o} : connectors'[c] = connectors[c]
      /\ connectors'[o] = row
  BY <1>1, <1>5 DEF Connectors
<1>7. \A c \in Owner : SecretsOf(c)' = SecretsOf(c)
  BY <1>3, <1>4, <1>6 DEF SecretsOf, Exists, Unset, NoConnector
<1>8. QED
  BY <1>1, <1>2, <1>7, OtherSettings

LEMMA AccountSettings ==
    ASSUME SettingsInv, NEW q \in Request, CommitAccount(q) \/ CommitTier(q), given' = given
    PROVE  (RoutingInv /\ WordInv)'
<1>1. /\ given.op[q] \in {"account", "tier"} /\ step[q] = "commit" /\ Done(q)
      /\ UNCHANGED <<connectors, flags, policy, teams, kept>>
      /\ tiers' = tiers \/ (Is(q, "tier") /\ tiers' = tiers \cup {[by |-> q, position |-> 0]})
  BY DEF CommitAccount, CommitTier, Is
<1>2. \A c \in Owner : SecretsOf(c)' = SecretsOf(c)
  BY <1>1 DEF SecretsOf, Exists, Unset, NoConnector
<1>3. given.op[q] \notin Creates
  BY <1>1 DEF Creates
<1>4. QED
  BY <1>1, <1>2, <1>3, OtherSettings

LEMMA TeamSettings ==
    ASSUME SettingsInv, NEW q \in Request, CommitTeam(q), given' = given, ~Refuse(q)
    PROVE  (RoutingInv /\ WordInv)'
<1>1. /\ Is(q, "team") /\ step[q] = "commit" /\ Done(q) /\ teams[given.slug[q]] = None
      /\ teams' = [teams EXCEPT ![given.slug[q]] = q]
      /\ UNCHANGED <<connectors, flags, policy, tiers, kept>>
  BY DEF CommitTeam
<1>2. teams' \in Teams /\ \A s \in Slug : teams[s] # None => teams'[s] = teams[s]
  BY <1>1 DEF SettingsInv, RoutingInv, Shape, Teams, Setter
<1>3. \A c \in Owner : SecretsOf(c)' = SecretsOf(c)
  BY <1>1 DEF SecretsOf, Exists, Unset, NoConnector
<1>4. given.op[q] \notin Creates /\ given.op[q] \notin {"connector", "settings"}
  BY <1>1 DEF Is, Creates
<1>5. QED
  BY <1>1, <1>2, <1>3, <1>4, OtherSettings

(* What ensure_support_routing makes of the teams it has read.             *)
LEMMA EnsuredTeams ==
    ASSUME NEW q \in Request, read[q].teams \in Teams
    PROVE  /\ Ensured(q) \in Teams
           /\ \A s \in Needed : /\ Ensured(q)[s] # None
                                /\ read[q].teams[s] # None => Ensured(q)[s] = read[q].teams[s]
           /\ Ensured(q)["support_l1"] \in {None, read[q].teams["support_l1"]}
BY SettingsAssumption DEF Ensured, Teams, Setter, Slug, Needed

(* Settings are saved: nobody else has taken a team or the profile, and    *)
(* its flags and columns are the ones it names and those it has read.      *)
LEMMA SaveSettings ==
    ASSUME SettingsInv, NEW q \in Request, CommitSettings(q), given' = given, ~Refuse(q)
    PROVE  (RoutingInv /\ WordInv)'
<1>1. /\ Is(q, "settings") /\ step[q] = "commit" /\ Done(q) /\ Under(q)
      /\ teams' = Saved(q)
      /\ tiers' = IF given.policy THEN tiers \cup {[by |-> q, position |-> p] : p \in Missing(q)}
                  ELSE tiers
      /\ flags' = IF NewFlags(q) = read[q].flags THEN flags ELSE NewFlags(q)
      /\ policy' = Written(policy, read[q].policy, NewPolicy(q))
      /\ kept' = [kept EXCEPT ![q] = Kept(q)]
      /\ connectors' = connectors
  BY DEF CommitSettings, Under
<1>2. /\ flags \in Flags /\ policy \in [Column -> Setter] /\ teams \in Teams
      /\ read[q] \in Snapshot /\ q \notin ToSet(log) /\ q # None
      /\ ReadValueInv(q) /\ FoundInv(q) /\ ReadMadeInv(q) /\ ChangedInv(q)
      /\ kept \in [Request -> SUBSET (Flag \cup Column)]
  BY <1>1, SettingsAssumption DEF SettingsInv, RoutingInv, OfRequest, Shape, IInv, LogInv
<1>3. Named(q) = given.names[q] /\ given.op[q] \notin Creates /\ ~Is(q, "connector")
  BY <1>1 DEF Named, Is, Creates
<1>4. /\ read[q].flags \in Flags /\ read[q].policy \in [Column -> Setter] /\ read[q].teams \in Teams
  BY <1>2 DEF Snapshot
<1>5. FlagOf(read[q].flags) \in [Flag -> Setter] /\ FlagOf(flags) \in [Flag -> Setter]
  BY <1>2, <1>4 DEF FlagOf, Flags, Unset, Setter
<1>6. HadFlags(q) = FlagOf(read[q].flags)
  BY DEF HadFlags, FlagOf
<1>7. NewFlags(q) \in [Flag -> Setter] /\ NewFlags(q) # NoProfile
  <2>1. NewFlags(q) \in [Flag -> Setter]
    BY <1>5, <1>6 DEF NewFlags, Setter
  <2>2. DOMAIN NewFlags(q) # DOMAIN NoProfile
    BY <2>1, SettingsAssumption DEF NoProfile
  <2>3. QED
    BY <2>1, <2>2
<1>8. /\ kept' \in [Request -> SUBSET (Flag \cup Column)] /\ kept'[q] = Kept(q)
      /\ \A p \in Request \ {q} : kept'[p] = kept[p]
  BY <1>1, <1>2 DEF Kept
<1>9. ASSUME NEW f \in Flag
      PROVE  \/ Saves(q, f) /\ FlagOf(flags')[f] = q
             \/ /\ Saves(q, f) /\ Finds(q, f, FlagOf(flags')[f], Savers)
                /\ FlagOf(flags')[f] \in {FlagOf(flags)[f], FlagOf(read[q].flags)[f]}
             \/ ~Saves(q, f) /\ FlagOf(flags')[f] = FlagOf(flags)[f]
             \/ ~Saves(q, f) /\ FlagOf(flags')[f] = FlagOf(read[q].flags)[f]
  <2> DEFINE had == FlagOf(read[q].flags)[f]
  <2>1. Saves(q, f) <=> f \in given.names[q]
    BY <1>1, <1>3 DEF Saves
  <2>2. NewFlags(q)[f] = IF f \in Changed(q) THEN q ELSE had
    BY <1>6, <1>9 DEF NewFlags
  <2>3. \/ flags' = flags /\ NewFlags(q)[f] = had
        \/ FlagOf(flags')[f] = NewFlags(q)[f]
    BY <1>1, <1>7 DEF FlagOf
  <2>4. had # q
    BY <1>1, <1>2, <1>9 DEF ReadValueInv
  <2>5. CASE f \in Changed(q)
    BY <2>1, <2>2, <2>3, <2>4, <2>5 DEF Changed
  <2>6. CASE f \in given.names[q] /\ f \in Kept(q)
    <3>1. Same(f, had, q)
      BY <1>6, <1>9, <2>6, SettingsAssumption DEF Kept
    <3>2. f \in kept'[q] /\ f \notin Changed(q)
      BY <1>8, <2>6 DEF Changed
    <3>3. FlagOf(flags')[f] = had \/ FlagOf(flags')[f] = FlagOf(flags)[f]
      BY <2>2, <2>3, <3>2
    <3>4. FlagOf(flags)[f] = had \/ \E p \in Savers : p \notin before[q]
      BY <1>1, <1>2, <1>9 DEF ChangedInv
    <3>5. QED
      BY <2>1, <2>6, <3>1, <3>2, <3>3, <3>4 DEF Finds
  <2>7. CASE f \notin given.names[q]
    BY <2>1, <2>2, <2>3, <2>7 DEF Changed
  <2>8. QED
    BY <2>5, <2>6, <2>7 DEF Changed
<1>10. ASSUME NEW c \in Column
       PROVE  \/ Saves(q, c) /\ policy'[c] = q
              \/ /\ Saves(q, c) /\ Finds(q, c, policy'[c], {p \in Savers : c \in Named(p)})
                 /\ policy'[c] = policy[c]
              \/ ~Saves(q, c) /\ policy'[c] = policy[c]
  <2> DEFINE had == read[q].policy[c]
  <2>1. Saves(q, c) <=> c \in given.names[q]
    BY <1>1, <1>3 DEF Saves
  <2>2. policy'[c] = IF NewPolicy(q)[c] = had THEN policy[c] ELSE NewPolicy(q)[c]
    BY <1>1, <1>2 DEF Written
  <2>3. NewPolicy(q)[c] = IF c \in Changed(q) THEN q ELSE had
    BY DEF NewPolicy
  <2>4. had # q
    BY <1>1, <1>2 DEF ReadValueInv
  <2>5. CASE c \in Changed(q)
    BY <2>1, <2>2, <2>3, <2>4, <2>5 DEF Changed
  <2>6. CASE c \in given.names[q] /\ c \in Kept(q)
    <3>1. Same(c, had, q)
      BY <1>10, <2>6, SettingsAssumption DEF Kept
    <3>2. c \in kept'[q] /\ policy'[c] = policy[c]
      BY <1>8, <2>2, <2>3, <2>6 DEF Changed
    <3>3. policy[c] = had \/ \E p \in Savers : p \notin before[q] /\ c \in Named(p)
      BY <1>1, <1>2 DEF ChangedInv
    <3>4. QED
      BY <2>1, <2>6, <3>1, <3>2, <3>3 DEF Finds
  <2>7. CASE c \notin given.names[q]
    BY <2>1, <2>2, <2>3, <2>7 DEF Changed
  <2>8. QED
    BY <2>5, <2>6, <2>7 DEF Changed
<1>11. \A c \in Owner, k \in Secret : ~NamesSecret(q, c, k) /\ SecretsOf(c)'[k] = SecretsOf(c)[k]
  BY <1>1, <1>3 DEF NamesSecret, SecretsOf, Exists, Unset, NoConnector
<1>12. Sets(q)
  BY <1>1, <1>8, <1>9, <1>10, <1>11 DEF Sets
<1>13. WordInv'
  BY <1>1, <1>12, CommitWords DEF SettingsInv
<1>14. /\ Ensured(q) \in Teams
       /\ \A s \in Needed : /\ Ensured(q)[s] # None
                            /\ read[q].teams[s] # None => Ensured(q)[s] = read[q].teams[s]
  BY <1>4, EnsuredTeams
<1>15. /\ teams' \in Teams
       /\ \A s \in Needed : (teams[s] # None => teams'[s] = teams[s]) /\ teams'[s] # None
  <2>1. teams' \in Teams /\ Needed \subseteq Slug
    BY <1>1, <1>2, <1>14 DEF Saved, Teams, Needed, Slug
  <2>2. ASSUME NEW s \in Needed
        PROVE  (teams[s] # None => teams'[s] = teams[s]) /\ teams'[s] # None
    <3>1. teams'[s] = IF teams[s] = read[q].teams[s] THEN Ensured(q)[s] ELSE teams[s]
      BY <1>1, <2>1, <2>2 DEF Saved
    <3>2. read[q].teams[s] # None => teams[s] = read[q].teams[s]
      BY <1>1, <1>2, <2>2 DEF ReadMadeInv
    <3>3. QED
      BY <1>14, <2>2, <3>1, <3>2
  <2>3. QED
    BY <2>1, <2>2
<1>16. /\ tiers \subseteq tiers' /\ tiers' \subseteq Tier
       /\ \A t \in tiers' \ tiers :
             /\ t.by = q
             /\ \A u \in read[q].tiers : u.position # t.position
       /\ given.policy => \A x \in Positions : \E t \in tiers' : t.position = x
  <2>1. \A p \in Missing(q) : p \in {0, 1} /\ \A u \in read[q].tiers : u.position # p
    BY DEF Missing, Positions
  <2>2. read[q].tiers \subseteq tiers /\ tiers \subseteq Tier
    BY <1>1, <1>2 DEF FoundInv, SettingsInv, RoutingInv, Shape
  <2>3. ASSUME given.policy, NEW x \in Positions PROVE \E t \in tiers' : t.position = x
    <3>1. CASE x \in Missing(q)
      <4>1. [by |-> q, position |-> x] \in tiers'
        BY <1>1, <2>3, <3>1
      <4>2. QED
        BY <4>1
    <3>2. CASE x \notin Missing(q)
      <4>1. PICK t \in read[q].tiers : t.position = x
        BY <2>3, <3>2 DEF Missing
      <4>2. QED
        BY <1>1, <2>2, <4>1
    <3>3. QED
      BY <3>1, <3>2
  <2>4. QED
    BY <1>1, <2>1, <2>2, <2>3 DEF Tier
<1>17. /\ \A c \in Column : \/ policy'[c] = policy[c]
                            \/ policy'[c] = q /\ Is(q, "settings") /\ c \in Named(q)
       /\ \A f \in Flag : FlagOf(flags')[f] \in {q, FlagOf(flags)[f], FlagOf(read[q].flags)[f]}
  BY <1>9, <1>10 DEF Saves
<1>18. flags' \in Flags /\ flags' # NoProfile
  BY <1>1, <1>2, <1>7 DEF Flags, ReadMadeInv
<1>19. Shape'
  <2>1. policy' \in [Column -> Setter]
    <3>1. DOMAIN policy' = Column
      BY <1>1, <1>2 DEF Written
    <3>2. \A c \in Column : policy'[c] \in Setter
      BY <1>2, <1>17 DEF Setter
    <3>3. policy' = [c \in Column |-> policy'[c]]
      BY <1>1, <1>2, <3>1 DEF Written
    <3>4. QED
      BY <3>2, <3>3
  <2>2. QED
    BY <1>1, <1>8, <1>15, <1>16, <1>18, <2>1, DoneShape
<1>20. RoutingInv'
  BY <1>1, <1>15, <1>16, <1>17, <1>18, <1>19, CommitRouting DEF SettingsInv
<1>21. QED
  BY <1>13, <1>20

(* Saving fails only if settings or a team have been saved since: until    *)
(* then teams and profile are as they were read; and never if settings had *)
(* been saved before, for then it has found what it needs.                 *)
LEMMA SettingsFail ==
    ASSUME SettingsInv, NEW q \in Request, CommitSettings(q), Refuse(q), given' = given
    PROVE  (RoutingInv /\ WordInv)'
<1>1. /\ Is(q, "settings") /\ step[q] = "commit" /\ Under(q)
      /\ step \in [Request -> {"new", "profile", "commit", "done", "refused"}]
  BY DEF CommitSettings, Under, SettingsInv, IInv, Types
<1>2. SlugTaken(q) \/ ProfileTaken(q)
  <2>1. step'[q] = "refused"
    BY <1>1 DEF Refuse
  <2>2. ~Done(q)
    BY <1>1, <2>1 DEF Done
  <2>3. QED
    BY <2>2 DEF CommitSettings
<1>3. /\ ReadMadeInv(q) /\ SinceInv(q) /\ read[q].teams \in Teams
  BY <1>1 DEF SettingsInv, RoutingInv, OfRequest, Shape, Snapshot
<1>4. ASSUME SlugTaken(q)
      PROVE  \E s \in Needed : read[q].teams[s] = None /\ teams[s] # None
  <2>1. PICK s \in Slug : /\ Ensured(q)[s] \notin {None, read[q].teams[s]}
                          /\ teams[s] \notin {None, Ensured(q)[s]}
    BY <1>4 DEF SlugTaken
  <2>2. s \in Needed
    BY <1>3, <2>1, EnsuredTeams DEF Slug, Needed
  <2>3. QED
    BY <1>3, <2>1, <2>2, EnsuredTeams
<1>5. SavedSince(q)
  <2>1. ~(teams = read[q].teams /\ flags = read[q].flags)
    BY <1>2, <1>4 DEF ProfileTaken
  <2>2. QED
    BY <1>1, <1>3, <2>1 DEF SinceInv
<1>6. ~SavedBefore(q)
  BY <1>1, <1>2, <1>3, <1>4 DEF ReadMadeInv, ProfileTaken
<1>7. QED
  BY <1>1, <1>5, <1>6, RefuseSettings

LEMMA StutterSettings == ASSUME SettingsInv, UNCHANGED vars PROVE SettingsInv'
<1> USE DEF vars, committed
<1>1. IInv'
  BY NextIInv DEF SettingsInv
<1>2. RoutingInv'
  <2>1. Shape'
    BY DEF SettingsInv, RoutingInv, Shape, Under
  <2>2. ValueInv' /\ TierInv' /\ MadeInv'
    BY DEF SettingsInv, RoutingInv, ValueInv, TierInv, MadeInv, Committed, Is
  <2>3. ASSUME NEW q \in Request PROVE OfRequest(q)'
    <3>1. OfRequest(q)
      BY DEF SettingsInv, RoutingInv
    <3>2. (ReadValueInv(q) /\ FoundInv(q))'
      BY <3>1 DEF OfRequest, ReadValueInv, FoundInv, Under
    <3>3. (ReadMadeInv(q) /\ SinceInv(q) /\ RefusedInv(q))'
      BY <3>1 DEF OfRequest, ReadMadeInv, SinceInv, RefusedInv, SavedBefore, SavedSince,
         Committed, Is, Under
    <3>4. ChangedInv(q)'
      BY <3>1 DEF OfRequest, ChangedInv, Savers, Committed, Named, Is
    <3>5. QED
      BY <3>2, <3>3, <3>4 DEF OfRequest
  <2>4. QED
    BY <2>1, <2>2, <2>3 DEF RoutingInv
<1>3. WordInv'
  <2>1. Savers' = Savers /\ \A c : Setters(c)' = Setters(c) /\ Updates(c)' = Updates(c)
                                   /\ SecretsOf(c)' = SecretsOf(c)
    BY DEF Savers, Setters, Updates, Of, Committed, Creators, Is, SecretsOf, Exists
  <2>2. \A c \in Owner, k \in Secret : SecretWord(c, k)'
    BY <2>1 DEF SettingsInv, WordInv, SecretWord, Word, Stands, Same, Places, Named, Is
  <2>3. (\A f \in Flag : FlagWord(f)') /\ \A c \in Column : ColumnWord(c)'
    BY <2>1 DEF SettingsInv, WordInv, FlagWord, ColumnWord, Word, Stands, Same, Places, Named, Is
  <2>4. ASSUME NEW q \in Request PROVE SecretRead(q)' /\ FlagRead(q)'
    <3>1. FlagRead(q)'
      BY <2>1 DEF SettingsInv, WordInv, FlagRead, Word, Stands, Same, Places, Named, Is
    <3>2. SUFFICES ASSUME step[q] = "commit", Is(q, "connector"), NEW k \in Secret
                   PROVE  Word(log, before, kept, Had(q).secrets[k], k,
                               Setters(given.on[q]), Updates(given.on[q]), {q})'
      BY <3>1 DEF SecretRead, Is
    <3>3. Word(log, before, kept, Had(q).secrets[k], k, Setters(given.on[q]), Updates(given.on[q]), {q})
      BY <3>2 DEF SettingsInv, WordInv, SecretRead
    <3>4. Had(q)' = Had(q) /\ Setters(given.on[q])' = Setters(given.on[q])
          /\ Updates(given.on[q])' = Updates(given.on[q])
      BY DEF Had, Setters, Updates, Of, Committed, Creators, Is
    <3>5. Word(log', before', kept', Had(q)'.secrets[k], k,
               Setters(given.on[q])', Updates(given.on[q])', {q})
      BY <3>3, <3>4
    <3>6. QED
      BY <3>5 DEF Word, Stands, Same, Places, Named, Is
  <2>5. QED
    BY <2>2, <2>3, <2>4 DEF WordInv
<1>4. QED
  BY <1>1, <1>2, <1>3 DEF SettingsInv

LEMMA NextSettingsInv == ASSUME SettingsInv, [Next]_vars PROVE SettingsInv'
<1> USE DEF Is
<1>1. IInv'
  BY NextIInv DEF SettingsInv
<1>2. ASSUME NEW q \in Request, given' = given,
             \/ CreateConnector(q) \/ UpdateConnector(q) \/ DeleteConnector(q)
             \/ CreateAccount(q) \/ ReadRouting(q) \/ CreateTeam(q) \/ CreateTier(q)
      PROVE  (RoutingInv /\ WordInv)'
  <2>1. CASE CreateConnector(q)
    BY <1>2, <2>1, BeginSettings DEF CreateConnector, Creates
  <2>2. CASE UpdateConnector(q)
    BY <1>2, <2>2, BeginSettings DEF UpdateConnector
  <2>3. CASE DeleteConnector(q)
    BY <1>2, <2>3, BeginSettings, RefuseSettings DEF DeleteConnector
  <2>4. CASE CreateAccount(q)
    BY <1>2, <2>4, BeginSettings, RefuseSettings DEF CreateAccount
  <2>5. CASE ReadRouting(q)
    BY <1>2, <2>5, BeginSettings DEF ReadRouting
  <2>6. CASE CreateTeam(q) \/ CreateTier(q)
    BY <1>2, <2>6, BeginSettings DEF CreateTeam, CreateTier
  <2>7. QED
    BY <1>2, <2>1, <2>2, <2>3, <2>4, <2>5, <2>6
<1>3. ASSUME NEW q \in Request, given' = given,
             \/ CommitNew(q) \/ CommitConnector(q) \/ CommitDelete(q) \/ CommitAccount(q)
             \/ ReadProfile(q) \/ CommitSettings(q) \/ CommitTeam(q) \/ CommitTier(q)
      PROVE  (RoutingInv /\ WordInv)'
  <2>1. CASE CommitTeam(q) /\ Refuse(q)
    BY <1>3, <2>1, RefuseSettings DEF CommitTeam
  <2>2. QED
    BY <1>3, <2>1, NewSettings, ConnectorSettings, DeleteSettings, AccountSettings,
       ProfileSettings, SaveSettings, SettingsFail, TeamSettings
<1>4. CASE UNCHANGED vars
  BY <1>4, StutterSettings
<1>5. CASE Next
  BY <1>1, <1>2, <1>3, <1>5 DEF Next, Step, SettingsInv
<1>6. QED
  BY <1>4, <1>5

(* The invariant of the settings holds in every reachable state.           *)
THEOREM SettingsInvariance == Spec => []SettingsInv
<1>1. Init => SettingsInv
  BY InitSettingsInv
<1>2. SettingsInv /\ [Next]_vars => SettingsInv'
  BY NextSettingsInv
<1>3. QED
  BY <1>1, <1>2, PTL DEF Spec

(* Everything keeps its type: settings, teams and tiers, and what requests *)
(* have read of them, whoever commits in between.                          *)
THEOREM TypeCorrect == Spec => []TypeOK
<1>1. ASSUME NEW r \in Snapshot PROVE DOMAIN r = DOMAIN Now
  BY <1>1 DEF Snapshot, Now
<1>2. SettingsInv => TypeOK
  BY <1>1 DEF SettingsInv, IInv, Types, Connectors, ConnectorRow, RoutingInv, Shape, Flags,
     Teams, Tier, TypeOK
<1>3. QED
  BY <1>2, SettingsInvariance, PTL

(* Of any number of administrators who save settings at once: what one has *)
(* saved changes only when somebody names it, or goes with the rest of its *)
(* column when a request that had read the column before saves another, or *)
(* never was written, for the request had read the value it gave: then     *)
(* what others saved since it began may stand instead                      *)
(* (connectors.py:173-179, support_settings.py:277-331).                   *)
THEOREM SettingsStand == Spec => []SavedSettingsStand
<1>1. ASSUME SettingsInv, NEW c \in Owner, NEW k \in Secret
      PROVE  LastWord(SecretsOf(c)[k], k, Of("connector", c) \cup ({c} \cap Creators),
                      Of("connector", c))
  <2>1. Word(log, before, kept, SecretsOf(c)[k], k, Setters(c), Updates(c), {})
    BY <1>1 DEF SettingsInv, WordInv, SecretWord
  <2>2. QED
    BY <2>1 DEF Word, Stands, Places, LastWord, Naming, Setters, Updates
<1>2. ASSUME SettingsInv, flags # NoProfile, NEW f \in Flag
      PROVE  LastWord(flags[f], f, Committed("settings"), Committed("settings"))
  <2>1. Word(log, before, kept, flags[f], f, Savers, Savers, {})
    BY <1>2 DEF SettingsInv, WordInv, FlagWord, FlagOf
  <2>2. QED
    BY <2>1 DEF Word, Stands, Places, LastWord, Naming, Savers
<1>3. ASSUME SettingsInv, NEW c \in Column
      PROVE  LastWord(policy[c], c, Committed("settings"), {})
  <2>1. Word(log, before, kept, policy[c], c, Savers, {}, {})
    BY <1>3 DEF SettingsInv, WordInv, ColumnWord
  <2>2. QED
    BY <2>1 DEF Word, Stands, Places, LastWord, Naming, Savers
<1>4. SettingsInv => SavedSettingsStand
  BY <1>1, <1>2, <1>3 DEF SavedSettingsStand
<1>5. QED
  BY <1>4, SettingsInvariance, PTL

(* Of any number of requests that find the routing of a workspace unmade   *)
(* and make it, each that is done leaves both teams and, with a policy, a  *)
(* tier for each position.  Those that overlap may each make a tier, and   *)
(* fail at each other's teams or profile; who began after one was done     *)
(* makes no tier, but by hand, and fails only for lack of a policy         *)
(* (support_teams.py:26-88, support_settings.py:119-128).                  *)
THEOREM RoutingOnce == Spec => []RoutingMadeOnce
<1>1. ASSUME SettingsInv
      PROVE  /\ Committed("settings") # {} =>
                   /\ teams["support_agent"] # None /\ teams["support_admin"] # None
                   /\ given.policy => Positions \subseteq {t.position : t \in tiers}
             /\ \A q \in Request : RefusedInv(q)
  BY <1>1 DEF SettingsInv, RoutingInv, MadeInv, Needed, OfRequest
<1>2. SettingsInv => RoutingMadeOnce
  BY <1>1 DEF SettingsInv, RoutingInv, TierInv, RefusedInv, SavedBefore, SavedSince, RoutingMadeOnce
<1>3. QED
  BY <1>2, SettingsInvariance, PTL
=============================================================================
