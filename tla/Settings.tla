------------------------------ MODULE Settings ------------------------------
(***************************************************************************)
(* The settings of a workspace: connectors and the channel accounts that   *)
(* use them (api/routes/connectors.py, channels.py), the support settings  *)
(* (support_settings.py) and the teams and routing tiers that go with them *)
(* (modules/routing/support_teams.py, teams.py, routing_settings.py).      *)
(*                                                                         *)
(* Every request reads, and commits later.  The secrets of a connector and *)
(* the flags of the profile are one column each, which is read whole and   *)
(* written whole; the routing policy has a column per setting.  A setting, *)
(* a connector, an account, a team and a tier have the name of the request *)
(* that made them, and two requests may give a setting the same value;     *)
(* "Legacy" has made what is there at the start, None is the default.      *)
(***************************************************************************)
EXTENDS SequencesExt, Rows

CONSTANTS
    Request,
    Secret,     \* keys of a connector's secrets
    Token,      \* the key that a voice channel is given if none is submitted
    Flag,       \* settings in the profile's flags: agents, reuse window, ...
    Reuse,      \* those of ticket reuse, which are one key of the flags
    Column,     \* settings in the routing policy's row
    Given,      \* what a behaviour may be given, see "given"
    Legacy, None

Creates == {"create", "channel", "voice"}
Op == Creates \cup {"connector", "delete", "account", "settings", "team", "tier"}
Owner == Request \cup {Legacy}
Slug == {"support_l1", "support_agent", "support_admin"}
Setter == Request \cup {None}

ASSUME SettingsAssumption ==
    /\ None \notin Request /\ Legacy \notin Setter /\ Token \in Secret
    /\ Flag # {} /\ Reuse \subseteq Flag /\ Flag \cap Column = {}
    /\ \A g \in Given :
          /\ g.active \subseteq Request /\ g.op \in [Request -> Op]
          /\ g.on \in [Request -> Owner]
          /\ g.names \in [Request -> SUBSET (Secret \cup Flag \cup Column)]
          /\ DOMAIN g.value = Setter /\ g.slug \in [Request -> Slug]
          /\ \A o \in {"blank", "off", "revive", "force"} : g[o] \subseteq Request
          /\ g.teams \subseteq Slug /\ g.policy \in BOOLEAN

VARIABLES
    \* fixed at the start: who is "active", each request's "op", the connector
    \* it is "on", the settings it "names", the "value" it gives each and the
    \* "slug" of its team, those that submit "blank" secrets too, switch the
    \* connector "off" or "revive" it, or use "force"; the "teams" at the start,
    \* and whether there is a routing "policy"
    given,
    \* committed
    connectors, \* Owner -> [active, secrets: Secret -> who set it], or NoConnector
    accounts,   \* Request -> "absent", "on" or "off"
    flags,      \* Flag -> who set it, or NoProfile
    policy,     \* Column -> who set it
    teams,      \* Slug -> who made the team, or None
    tiers,      \* tiers, [by, position]
    \* requests
    step,
    read,       \* Request -> what it has read
    \* history
    before,     \* Request -> those that had committed when it began
    kept,       \* Request -> the settings it had read with the value it gives them
    log         \* requests that have committed, in that order

committed == <<connectors, accounts, flags, policy, teams, tiers>>
vars == <<given, committed, step, read, before, kept, log>>

NoProfile == [f \in {} |-> None]
Unset(fields) == [f \in fields |-> None]
NoConnector == [active |-> FALSE]
Nothing == [connectors |-> None]
Now == [connectors |-> connectors, accounts |-> accounts, flags |-> flags,
        policy |-> policy, teams |-> teams, tiers |-> tiers]

(* Type invariant. *)
TypeOK ==
    /\ given \in Given
    /\ connectors \in [Owner -> [active: BOOLEAN, secrets: [Secret -> Setter]] \cup {NoConnector}]
    /\ accounts \in [Request -> {"absent", "on", "off"}]
    /\ flags \in [Flag -> Setter] \cup {NoProfile}
    /\ policy \in [Column -> Setter]
    /\ teams \in [Slug -> Setter \cup {Legacy}]
    /\ tiers \subseteq [by: Request, position: {0, 1}]
    /\ step \in [Request -> {"new", "profile", "commit", "done", "refused"}]
    /\ \A q \in Request : read[q] = Nothing \/ DOMAIN read[q] = DOMAIN Now
    /\ before \in [Request -> SUBSET Request] /\ log \in Seq(Request)
    /\ kept \in [Request -> SUBSET (Flag \cup Column)]

Init ==
    /\ given \in Given
    /\ connectors = [c \in Owner |-> IF c = Legacy THEN [active |-> TRUE, secrets |-> Unset(Secret)]
                                     ELSE NoConnector]
    /\ accounts = [q \in Request |-> "absent"]
    /\ flags = NoProfile /\ policy = Unset(Column)
    /\ teams = [s \in Slug |-> IF s \in given.teams THEN Legacy ELSE None]
    /\ tiers = {}
    /\ step = [q \in Request |-> "new"] /\ read = [q \in Request |-> Nothing]
    /\ before = [q \in Request |-> {}] /\ kept = [q \in Request |-> {}] /\ log = <<>>

-----------------------------------------------------------------------------
Is(q, op) == given.op[q] = op

Begin(q, label) ==
    /\ step[q] = "new" /\ q \in given.active
    /\ step' = [step EXCEPT ![q] = label]
    /\ read' = [read EXCEPT ![q] = Now]
    /\ before' = [before EXCEPT ![q] = ToSet(log)]
    /\ UNCHANGED <<committed, kept, log>>

Refuse(q) ==
    /\ step' = [step EXCEPT ![q] = "refused"]
    /\ read' = [read EXCEPT ![q] = Nothing]
    /\ UNCHANGED <<committed, before, kept, log>>

Done(q) ==
    /\ step' = [step EXCEPT ![q] = "done"]
    /\ read' = [read EXCEPT ![q] = Nothing]
    /\ log' = Append(log, q)
    /\ UNCHANGED before

-----------------------------------------------------------------------------
(* Connectors and their accounts *)

Exists(c) == connectors[c] # NoConnector
SecretsOf(c) == IF Exists(c) THEN connectors[c].secrets ELSE Unset(Secret)

(* The connector an account uses. *)
Home(a) == IF Is(a, "account") THEN given.on[a] ELSE a

Named(q) == given.names[q] \cup IF Is(q, "voice") THEN {Token} ELSE {}

(* A connector alone, or with its mail, messaging or voice account. *)
CreateConnector(q) == given.op[q] \in Creates /\ Begin(q, "commit")

CommitNew(q) ==
    /\ given.op[q] \in Creates /\ step[q] = "commit"
    /\ connectors' = [connectors EXCEPT ![q] =
           [active |-> TRUE, secrets |-> [k \in Secret |-> IF k \in Named(q) THEN q ELSE None]]]
    /\ accounts' = IF Is(q, "create") THEN accounts ELSE [accounts EXCEPT ![q] = "on"]
    /\ Done(q)
    /\ UNCHANGED <<flags, policy, teams, tiers, kept>>

UpdateConnector(q) == Is(q, "connector") /\ Exists(given.on[q]) /\ Begin(q, "commit")

Had(q) == read[q].connectors[given.on[q]]

(* Mutant: what is submitted replaces what there is.                       *)
MergedOver(q) == [k \in Secret |-> IF k \in given.names[q] THEN q ELSE None]

(* A key that is left out or blank keeps the value that was read. *)
Merged(q) == [k \in Secret |-> IF k \in given.names[q] THEN q ELSE Had(q).secrets[k]]

(* is_active, written if it was changed. *)
Active(q, now) ==
    IF q \in given.off /\ Had(q).active THEN FALSE
    ELSE IF q \in given.revive /\ ~Had(q).active THEN TRUE ELSE now

(* The ciphertext is new even when no value is. *)
Encrypts(q) ==
    \/ Secret \cap given.names[q] # {}
    \/ q \in given.blank /\ Had(q).secrets # Unset(Secret)

CommitConnector(q) ==
    /\ Is(q, "connector") /\ step[q] = "commit"
    /\ connectors' = [connectors EXCEPT
          ![given.on[q]].active = Active(q, @),
          ![given.on[q]].secrets = IF Encrypts(q) THEN Merged(q) ELSE @]
    /\ Done(q)
    /\ UNCHANGED <<accounts, flags, policy, teams, tiers, kept>>

Dependents(c) == {a \in Request : accounts[a] = "on" /\ Home(a) = c}

DeleteConnector(q) ==
    /\ Is(q, "delete") /\ Exists(given.on[q])
    /\ IF step[q] = "new" /\ q \in given.active /\ Dependents(given.on[q]) # {} /\ q \notin given.force
       THEN Refuse(q)
       ELSE Begin(q, "commit")

(* Mutant: the accounts stay as they are.                                  *)
SwitchedOffNone(q) == accounts

(* The accounts it has read go with the connector. *)
SwitchedOff(q) ==
    [a \in Request |-> IF read[q].accounts[a] = "on" /\ Home(a) = given.on[q] THEN "off"
                       ELSE accounts[a]]

CommitDelete(q) ==
    /\ Is(q, "delete") /\ step[q] = "commit"
    /\ accounts' = SwitchedOff(q)
    /\ connectors' = [connectors EXCEPT ![given.on[q]].active = @ /\ ~Had(q).active]
    /\ Done(q)
    /\ UNCHANGED <<flags, policy, teams, tiers, kept>>

CreateAccount(q) ==
    /\ Is(q, "account") /\ Exists(given.on[q])
    /\ IF step[q] = "new" /\ q \in given.active /\ ~connectors[given.on[q]].active
       THEN Refuse(q)
       ELSE Begin(q, "commit")

CommitAccount(q) ==
    /\ Is(q, "account") /\ step[q] = "commit"
    /\ accounts' = [accounts EXCEPT ![q] = "on"]
    /\ Done(q)
    /\ UNCHANGED <<connectors, flags, policy, teams, tiers, kept>>

-----------------------------------------------------------------------------
(* Support settings, and the teams and tiers that are kept with them.  To  *)
(* look at the settings makes teams and tiers too, and rolls them back.    *)

(* ensure_support_routing: its teams and tiers, as they are read. *)
ReadRouting(q) == Is(q, "settings") /\ Begin(q, "profile")

(* _get_or_create_profile and _default_policy; 404 without a policy. *)
ReadProfile(q) ==
    /\ step[q] = "profile"
    /\ \/ /\ Column \cap given.names[q] # {} /\ ~given.policy
          /\ Refuse(q)
       \/ /\ Column \cap given.names[q] = {} \/ given.policy
          /\ read' = [read EXCEPT ![q].flags = flags, ![q].policy = policy]
          /\ step' = [step EXCEPT ![q] = "commit"]
          /\ UNCHANGED <<committed, before, kept, log>>

(* Its teams: support_l1 is renamed (support_l2 likewise, and left out),   *)
(* what is missing is made.                                                *)
Ensured(q) ==
    LET had == read[q].teams
        renamed == had["support_l1"] # None /\ had["support_agent"] = None
    IN  [s \in Slug |->
           IF s = "support_l1" THEN IF renamed THEN None ELSE had[s]
           ELSE IF had[s] # None THEN had[s]
           ELSE IF s = "support_agent" /\ renamed THEN had["support_l1"] ELSE q]

(* Another row has taken a slug it gives. *)
SlugTaken(q) ==
    \E s \in Slug : /\ Ensured(q)[s] \notin {None, read[q].teams[s]}
                    /\ teams[s] \notin {None, Ensured(q)[s]}

(* The rows it renames and makes; a row that has moved since stays there.  *)
Saved(q) ==
    [s \in Slug |-> IF teams[s] = read[q].teams[s] THEN Ensured(q)[s] ELSE teams[s]]

(* Mutant: positions count from one.                                       *)
PositionsFromOne == {1, 2}

Positions == {0, 1}

(* Mutant: a tier is made for every position.                              *)
MissingAny(q) == Positions

(* Positions it has found no tier for. *)
Missing(q) == Positions \ {t.position : t \in read[q].tiers}

HadFlags(q) == IF read[q].flags = NoProfile THEN Unset(Flag) ELSE read[q].flags

(* The flags have the key the setting is in. *)
HasKey(q, f) ==
    \/ HadFlags(q)[f] # None
    \/ f \in Reuse /\ \E g \in Reuse : HadFlags(q)[g] # None

Same(setting, p, q) == given.value[p][setting] = given.value[q][setting]

(* What it names and finds to be as it wants it. *)
Kept(q) ==
    {f \in Flag \cap given.names[q] : HasKey(q, f) /\ Same(f, HadFlags(q)[f], q)}
      \cup {c \in Column \cap given.names[q] : Same(c, read[q].policy[c], q)}

Changed(q) == given.names[q] \ Kept(q)

(* The flags are written whole if a setting differs. *)
NewFlags(q) == [f \in Flag |-> IF f \in Changed(q) THEN q ELSE HadFlags(q)[f]]
NewPolicy(q) == [c \in Column |-> IF c \in Changed(q) THEN q ELSE read[q].policy[c]]

ProfileTaken(q) == read[q].flags = NoProfile /\ flags # NoProfile

CommitSettings(q) ==
    /\ Is(q, "settings") /\ step[q] = "commit"
    /\ \/ (SlugTaken(q) \/ ProfileTaken(q)) /\ Refuse(q)
       \/ /\ ~SlugTaken(q) /\ ~ProfileTaken(q)
          /\ teams' = Saved(q)
          /\ tiers' = IF given.policy
                      THEN tiers \cup {[by |-> q, position |-> p] : p \in Missing(q)}
                      ELSE tiers
          /\ flags' = IF NewFlags(q) = read[q].flags THEN flags ELSE NewFlags(q)
          /\ policy' = Written(policy, read[q].policy, NewPolicy(q))
          /\ kept' = [kept EXCEPT ![q] = Kept(q)]
          /\ Done(q)
          /\ UNCHANGED <<connectors, accounts>>

(* POST /teams: a slug that is taken is refused by the unique constraint. *)
CreateTeam(q) == Is(q, "team") /\ Begin(q, "commit")
CommitTeam(q) ==
    /\ Is(q, "team") /\ step[q] = "commit"
    /\ IF teams[given.slug[q]] # None THEN Refuse(q)
       ELSE /\ teams' = [teams EXCEPT ![given.slug[q]] = q]
            /\ Done(q)
            /\ UNCHANGED <<connectors, accounts, flags, policy, tiers, kept>>

(* POST /routing/tiers looks at no tier there is. *)
CreateTier(q) == Is(q, "tier") /\ given.policy /\ Begin(q, "commit")
CommitTier(q) ==
    /\ Is(q, "tier") /\ step[q] = "commit"
    /\ tiers' = tiers \cup {[by |-> q, position |-> 0]}
    /\ Done(q)
    /\ UNCHANGED <<connectors, accounts, flags, policy, teams, kept>>

-----------------------------------------------------------------------------
Step ==
    \E q \in Request :
       \/ CreateConnector(q) \/ CommitNew(q)
       \/ UpdateConnector(q) \/ CommitConnector(q)
       \/ DeleteConnector(q) \/ CommitDelete(q)
       \/ CreateAccount(q) \/ CommitAccount(q)
       \/ ReadRouting(q) \/ ReadProfile(q) \/ CommitSettings(q)
       \/ CreateTeam(q) \/ CommitTeam(q) \/ CreateTier(q) \/ CommitTier(q)

Next == Step /\ UNCHANGED given

Spec == Init /\ [][Next]_vars

-----------------------------------------------------------------------------
(* Properties *)

Committed(op) == {q \in ToSet(log) : Is(q, op)}
Overlap(p, q) == p \notin before[q] /\ q \notin before[p]

Creators == {q \in Request : given.op[q] \in Creates}
Of(op, c) == {q \in Committed(op) : given.on[q] = c}

(* Where in the log one of the writers names the setting. *)
Naming(setting, writers) ==
    {i \in DOMAIN log : log[i] \in writers /\ setting \in Named(log[i])}

(* The last of the writers to name the setting set "value", or a later one *)
(* of "rewriters" that had not read that wrote another back, or the last   *)
(* one wrote nothing, for it had read what it wanted: then there is a      *)
(* setter of the same value, or one who had set or written back another    *)
(* since it began.                                                         *)
LastWord(value, setting, writers, rewriters) ==
    \/ Naming(setting, writers) = {} /\ value = None
    \/ \E i \in Naming(setting, writers) :
          /\ \A j \in Naming(setting, writers) : j <= i
          /\ \/ value = log[i]
             \/ \E j \in DOMAIN log : j > i /\ log[j] \in rewriters /\ log[i] \notin before[log[j]]
             \/ /\ setting \in kept[log[i]]
                /\ \/ Same(setting, value, log[i])
                   \/ \E j \in DOMAIN log :
                         /\ j < i /\ log[j] \notin before[log[i]]
                         /\ log[j] \in rewriters \/ j \in Naming(setting, writers)

(* A setting that somebody has saved changes only when somebody names it,  *)
(* or when another setting of the same column is saved by a request that   *)
(* had read the column before (connectors.py:173-179,                      *)
(* support_settings.py:277-331); a setting of the routing policy is a      *)
(* column of its own, and no other setting undoes it.  A request that      *)
(* names a flag or a policy setting with the value it has read writes no   *)
(* column, and a value saved since it read stands; a secret is encrypted   *)
(* anew and always written.                                                *)
SavedSettingsStand ==
    /\ \A c \in Owner, k \in Secret :
          LastWord(SecretsOf(c)[k], k, Of("connector", c) \cup ({c} \cap Creators), Of("connector", c))
    /\ flags # NoProfile =>
          \A f \in Flag : LastWord(flags[f], f, Committed("settings"), Committed("settings"))
    /\ \A c \in Column : LastWord(policy[c], c, Committed("settings"), {})

(* No account is left on with its connector off, unless the connector was  *)
(* switched off by an update, which looks for no account, or deleted while *)
(* the account was being created (connectors.py:168, 197-217,              *)
(* channels.py:68-75).                                                     *)
AccountsHaveConnector ==
    \A a \in Request : accounts[a] = "on" /\ ~connectors[Home(a)].active =>
       \/ Of("connector", Home(a)) \cap given.off # {}
       \/ \E q \in Of("delete", Home(a)) : Is(a, "account") /\ Overlap(a, q)

(* Once settings have been saved both teams are there, and both tiers if   *)
(* there is a policy.  Nobody who began after a tier was made makes        *)
(* another for its position, but by hand; requests that overlap do.  A     *)
(* save fails for lack of a policy, or at a team or a profile made since   *)
(* it began, and that only as long as it had found no settings saved       *)
(* (support_teams.py:26-88, support_settings.py:110-126).                  *)
RoutingMadeOnce ==
    /\ Committed("settings") # {} =>
          /\ teams["support_agent"] # None /\ teams["support_admin"] # None
          /\ given.policy => Positions \subseteq {t.position : t \in tiers}
    /\ \A t, u \in tiers :
          t.position = u.position /\ t.by \in before[u.by] => Is(u.by, "tier")
    /\ \A q \in Request : step[q] = "refused" /\ Is(q, "settings") =>
          \/ Column \cap given.names[q] # {} /\ ~given.policy
          \/ /\ Committed("settings") \cap before[q] = {}
             /\ \E p \in Committed("settings") \cup Committed("team") : p \notin before[q]

(* "every submitted value blank -> keep existing secrets_encrypted         *)
(* untouched" (connectors.py:180): a request that submits only blanks      *)
(* changes no secret.                                                      *)
BlankKeepsSecrets ==
    [][\A q \in given.blank :
          step[q] = "commit" /\ step'[q] = "done" /\ Secret \cap given.names[q] = {}
             => SecretsOf(given.on[q])' = SecretsOf(given.on[q])]_vars
=============================================================================
