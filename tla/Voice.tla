-------------------------------- MODULE Voice --------------------------------
(***************************************************************************)
(* Inbound calls (api/routes/voice_hooks.py), click-to-call (calls.py),    *)
(* the choice of an agent (modules/routing/engine.py), presence            *)
(* (inbox.py) and telephony identities (telephony.py).                     *)
(*                                                                         *)
(* The provider asks where to put a call through, and repeats the question *)
(* when the answer is late; what becomes of the call it reports in any     *)
(* order and more than once.  Each handler reads, and later commits the    *)
(* columns it changed.  A caller's contact and voice ticket are there      *)
(* already (see Inbound for how they are made), and the policy reopens it. *)
(* The worker transcribes a recorded call that has ended (transcription/   *)
(* job.py) and then writes the status of the call as well.                 *)
(***************************************************************************)
EXTENDS SequencesExt

CONSTANTS
    Agent, Caller,
    Call,          \* CallSids of the provider
    CallerOf,      \* Call -> its caller
    Job,           \* requests and webhooks handled at once
    Given,         \* what a behaviour may be given, see "given"
    FocusOnVoice,  \* the routing policy passes over agents on a call
    Newcomers,     \* agents who have no presence row yet
    Nobody

ASSUME VoiceAssumption ==
    /\ CallerOf \in [Call -> Caller] /\ Nobody \notin Agent
    /\ FocusOnVoice \in BOOLEAN /\ Newcomers \subseteq Agent
    /\ Given \subseteq SUBSET (Call \cup {"dial", "presence", "identity", "assign", "resolve", "toQueue",
                                    "recording", "unclear"})

VARIABLES
    given,      \* fixed at the start: the calls made, what else is done and
                \* reported, and whether a reopened ticket goes "toQueue"
    \* committed
    owner,      \* Caller -> assignee of the ticket, or Nobody
    resolved,   \* callers whose ticket is resolved or closed
    calls,      \* Call -> row, or NoCall
    presence,   \* Agent -> row, or NoPresence
    turns,      \* agents by last_assigned_at, those without one left out
    identity,   \* agents with an active telephony identity
    queued,     \* calls with a call.ended event in the outbox
    dialled,    \* <<agent, caller>> with a row of the stub provider
    transcribed,\* calls that have a transcript
    \* handlers
    job,        \* Job -> what it is and has read, or Idle
    \* the provider
    rung,       \* Call -> agents it was put through to
    \* history
    moved,      \* callers whose ticket was taken from an agent
    told,       \* Call -> the last report that it was answered or had ended
    late,       \* calls whose recording came alone after their end
    crossed     \* agents whose presence, and calls whose recording, came
                \* while a report was handled that had read the old one

committed == <<owner, resolved, calls, presence, turns, identity, queued, dialled, transcribed>>
history == <<moved, told, late, crossed>>
vars == <<given, committed, job, rung, history>>

(* _lifecycle_event_type: what a report says of the call.  "other": it is  *)
(* ringing, or the status is not known; "none": the report has no status.  *)
Turning == {"answered", "ended"}
Reports == Turning \cup {"other", "none"}
Statuses == {"routing", "answered", "ended", "other"}
NoCall == [status |-> "absent"]
NoPresence == [status |-> "absent", busy |-> FALSE]
Idle == [kind |-> "idle"]
CallRow == [agent: Agent, status: Statuses, recorded: BOOLEAN]
(* "busy" is on_voice_call. *)
PresenceRow == [status: {"absent", "available", "offline"}, busy: BOOLEAN]

(* Type invariant. *)
TypeOK ==
    /\ given \in Given
    /\ owner \in [Caller -> Agent \cup {Nobody}]
    /\ resolved \subseteq Caller
    /\ calls \in [Call -> CallRow \cup {NoCall}]
    /\ presence \in [Agent -> PresenceRow]
    /\ turns \in Seq(Agent) /\ IsInjective(turns)
    /\ identity \subseteq Agent
    /\ queued \subseteq {c \in Call : calls[c] # NoCall /\ calls[c].recorded}
    /\ dialled \subseteq Agent \X Caller /\ transcribed \subseteq queued
    /\ \A j \in Job : job[j].kind \in {"idle", "route", "dial", "transcribe"} \cup Reports
    /\ rung \in [Call -> SUBSET Agent]
    /\ told \in [Call -> Turning \cup {"nothing"}]
    /\ moved \subseteq Caller /\ late \subseteq Call /\ crossed \subseteq Agent \cup Call

Init ==
    /\ given \in Given
    /\ owner = [k \in Caller |-> Nobody]
    /\ resolved = {} /\ calls = [c \in Call |-> NoCall]
    /\ presence = [a \in Agent |-> IF a \in Newcomers THEN NoPresence ELSE
                      [status |-> "available", busy |-> FALSE]]
    /\ turns = <<>> /\ identity = Agent /\ queued = {} /\ dialled = {}
    /\ transcribed = {} /\ told = [c \in Call |-> "nothing"]
    /\ job = [j \in Job |-> Idle]
    /\ rung = [c \in Call |-> {}]
    /\ moved = {} /\ late = {} /\ crossed = {}

-----------------------------------------------------------------------------
(* Routing *)

Eligible ==
    {a \in identity : /\ presence[a].status = "available"
                      /\ FocusOnVoice => ~presence[a].busy}

(* Longest without a call; null first, then by id (any, here). *)
SelectAgent ==
    IF Eligible \subseteq ToSet(turns)
    THEN {a \in Eligible : \A b \in Eligible \ {a} : <<a, b>> = SelectSeq(turns, LAMBDA x : x \in {a, b})}
    ELSE Eligible \ ToSet(turns)

(* Mutant: an agent keeps his former turn.                                 *)
TakeTurnTwice(a) == turns' = Append(turns, a)

TakeTurn(a) ==
    LET others == IF a \in ToSet(turns)
                  THEN RemoveAt(turns, CHOOSE i \in DOMAIN turns : turns[i] = a)
                  ELSE turns
    IN  turns' = Append(others, a)

(* resolve_call_ticket: the assignee it leaves in the ticket of k. *)
Assignee(k) == IF k \in resolved /\ "toQueue" \in given THEN Nobody ELSE owner[k]

RouteRead(j, c) ==
    LET k == CallerOf[c]
        picks == Assignee(k) = Nobody /\ SelectAgent # {}
    IN  /\ job[j] = Idle /\ c \in given
        /\ \E a \in IF picks THEN SelectAgent ELSE {Assignee(k)} :
              job' = [job EXCEPT ![j] = [kind |-> "route", call |-> c, had |-> owner[k],
                                         reopens |-> k \in resolved, picks |-> picks, target |-> a]]
        /\ UNCHANGED <<committed, rung, history>>

(* Mutant: the agent is not kept as the ticket's assignee.                 *)
AssignNever(k, had, a) == UNCHANGED <<owner, moved>>

(* The assignee column is written if it was changed, whatever it is now. *)
Assign(k, had, a) ==
    /\ owner' = IF a = had THEN owner ELSE [owner EXCEPT ![k] = a]
    /\ moved' = IF owner[k] # Nobody /\ owner'[k] # owner[k] THEN moved \cup {k} ELSE moved

(* The row of a new call.  A call that has a row, or whose row another     *)
(* handler has just made, keeps that row and its agent.                    *)
Called(c, a) ==
    IF calls[c] # NoCall THEN calls[c]
    ELSE [agent |-> a, status |-> "routing", recorded |-> FALSE]

(* The answer names the target whatever the row says.  Without a target,   *)
(* or without an identity of his, the answer is empty.                     *)
RouteCommit(j) ==
    LET r == job[j]
        k == CallerOf[r.call]
    IN  /\ r.kind = "route"
        /\ Assign(k, r.had, r.target)
        /\ resolved' = IF r.reopens THEN resolved \ {k} ELSE resolved
        /\ IF r.picks THEN TakeTurn(r.target) ELSE UNCHANGED turns
        /\ IF r.target \in identity
           THEN /\ calls' = [calls EXCEPT ![r.call] = Called(r.call, r.target)]
                /\ rung' = [rung EXCEPT ![r.call] = @ \cup {r.target}]
           ELSE UNCHANGED <<calls, rung>>
        /\ job' = [job EXCEPT ![j] = Idle]
        /\ UNCHANGED <<presence, identity, queued, dialled, transcribed, told, late, crossed>>

-----------------------------------------------------------------------------
(* What becomes of a call.  A report of a call without a row is answered   *)
(* 404.                                                                    *)

EventRead(j, c, kind, recorded) ==
    /\ job[j] = Idle
    /\ calls[c] # NoCall
    /\ recorded => "recording" \in given
    /\ kind \in Turning \/ "unclear" \in given
    /\ job' = [job EXCEPT ![j] = [kind |-> kind, call |-> c, row |-> calls[c],
                                  recorded |-> recorded, seen |-> presence[calls[c].agent]]]
    /\ UNCHANGED <<committed, rung, history>>

(* The provider has more words than one for a kind of status: the column   *)
(* is written unless the new word is the very one that was read.           *)
StatusWritten(now, read, new) == IF new = read THEN {now, new} ELSE {new}

(* Mutant: the end of a call leaves the agent busy.                        *)
MarkBusy(e, a) ==
    presence' = IF e.kind # "answered" \/ e.seen = NoPresence THEN presence
                ELSE [presence EXCEPT ![a].busy = TRUE]

(* on_voice_call is written if it was changed against the reading. *)
Mark(e, a) ==
    LET busy == e.kind = "answered"
    IN  presence' = IF e.kind \notin Turning \/ e.seen = NoPresence \/ busy = e.seen.busy
                    THEN presence ELSE [presence EXCEPT ![a].busy = busy]

(* Mutant: a recording that came before the end is not looked for.         *)
EnqueueForgetful(e) ==
    queued' = IF e.kind = "ended" /\ e.recorded THEN queued \cup {e.call} ELSE queued

Enqueue(e) ==
    queued' = IF e.kind = "ended" /\ (e.recorded \/ e.row.recorded)
              THEN queued \cup {e.call} ELSE queued

(* What the handling of a report leaves behind for the properties. *)
Remember(e, a) ==
    /\ told' = IF e.kind \in Turning THEN [told EXCEPT ![e.call] = e.kind] ELSE told
    /\ late' = IF e.kind \notin Turning /\ e.recorded /\ told[e.call] = "ended"
               THEN late \cup {e.call} ELSE late
    /\ crossed' = crossed
          \cup {b \in {a} : e.kind \in Turning /\ presence[a].busy # e.seen.busy}
          \cup {c \in {e.call} : e.kind = "ended" /\ calls[c].recorded # e.row.recorded}

EventCommit(j) ==
    LET e == job[j]
        a == e.row.agent
    IN  /\ e.kind \in Reports
        /\ \E status \in IF e.kind = "none" THEN {calls[e.call].status}
                         ELSE StatusWritten(calls[e.call].status, e.row.status, e.kind) :
              calls' = [calls EXCEPT ![e.call].status = status,
                                     ![e.call].recorded = @ \/ e.recorded]
        /\ Mark(e, a) /\ Enqueue(e) /\ Remember(e, a)
        /\ job' = [job EXCEPT ![j] = Idle]
        /\ UNCHANGED <<owner, resolved, turns, identity, dialled, transcribed, rung, moved>>

(* The dispatch of call.ended (see Outbox) reads the call; a transcript    *)
(* that is there is left alone.                                            *)
TranscribeRead(j, c) ==
    /\ job[j] = Idle
    /\ c \in queued \ transcribed
    /\ job' = [job EXCEPT ![j] = [kind |-> "transcribe", call |-> c, row |-> calls[c]]]
    /\ UNCHANGED <<committed, rung, history>>

(* The transcript is unique to its call: where another has added one       *)
(* meanwhile, only the savepoint is undone.                                *)
TranscribeCommit(j) ==
    LET t == job[j]
    IN  /\ t.kind = "transcribe"
        /\ IF t.call \in transcribed THEN UNCHANGED <<calls, transcribed>>
           ELSE /\ \E status \in StatusWritten(calls[t.call].status, t.row.status, "ended") :
                      calls' = [calls EXCEPT ![t.call].status = status]
                /\ transcribed' = transcribed \cup {t.call}
        /\ job' = [job EXCEPT ![j] = Idle]
        /\ UNCHANGED <<owner, resolved, presence, turns, identity, queued, dialled, rung, history>>

-----------------------------------------------------------------------------
(* Agents and administrators *)

DialRead(j, a, k) ==
    /\ job[j] = Idle /\ "dial" \in given
    /\ job' = [job EXCEPT ![j] = [kind |-> "dial", by |-> a, to |-> k, had |-> owner[k]]]
    /\ UNCHANGED <<committed, rung, history>>

(* The stub names a call after agent and number: the second such call      *)
(* violates the unique key and is refused.                                 *)
DialCommit(j) ==
    LET d == job[j]
    IN  /\ d.kind = "dial"
        /\ IF <<d.by, d.to>> \in dialled THEN UNCHANGED <<owner, moved, dialled>>
           ELSE /\ Assign(d.to, d.had, IF d.had = Nobody THEN d.by ELSE d.had)
                /\ dialled' = dialled \cup {<<d.by, d.to>>}
        /\ job' = [job EXCEPT ![j] = Idle]
        /\ UNCHANGED <<resolved, calls, presence, turns, identity, queued, transcribed, rung,
                       told, late, crossed>>

SetPresence(a, status) ==
    /\ "presence" \in given
    /\ presence' = [presence EXCEPT ![a].status = status]
    /\ UNCHANGED <<owner, resolved, calls, turns, identity, queued, dialled, transcribed, job,
                   rung, history>>

UpsertIdentity(a) ==
    /\ "identity" \in given
    /\ identity' = identity \cup {a}
    /\ UNCHANGED <<owner, resolved, calls, presence, turns, queued, dialled, transcribed, job,
                   rung, history>>

DeleteIdentity(a) ==
    /\ "identity" \in given /\ a \in identity
    /\ identity' = identity \ {a}
    /\ UNCHANGED <<owner, resolved, calls, presence, turns, queued, dialled, transcribed, job,
                   rung, history>>

(* update_ticket with the status resolved or closed (see Desk). *)
Resolve(k) ==
    /\ "resolve" \in given
    /\ resolved' = resolved \cup {k}
    /\ UNCHANGED <<owner, calls, presence, turns, identity, queued, dialled, transcribed, job,
                   rung, history>>

(* assign_ticket (see Desk). *)
Reassign(k, a) ==
    /\ "assign" \in given
    /\ owner' = [owner EXCEPT ![k] = a]
    /\ moved' = IF owner[k] \notin {Nobody, a} THEN moved \cup {k} ELSE moved
    /\ UNCHANGED <<resolved, calls, presence, turns, identity, queued, dialled, transcribed, job,
                   rung, told, late, crossed>>

Step ==
    \/ \E j \in Job, c \in Call :
          \/ RouteRead(j, c) \/ TranscribeRead(j, c)
          \/ \E kind \in Reports, recorded \in BOOLEAN :
                EventRead(j, c, kind, recorded)
    \/ \E j \in Job : RouteCommit(j) \/ EventCommit(j) \/ TranscribeCommit(j) \/ DialCommit(j)
    \/ \E j \in Job, a \in Agent, k \in Caller : DialRead(j, a, k)
    \/ \E a \in Agent : \/ \E status \in {"available", "offline"} : SetPresence(a, status)
                        \/ UpsertIdentity(a) \/ DeleteIdentity(a)
    \/ \E k \in Caller : Resolve(k) \/ \E a \in Agent \cup {Nobody} : Reassign(k, a)

Next == Step /\ UNCHANGED given

Spec == Init /\ [][Next]_vars

-----------------------------------------------------------------------------
(* Properties *)

(* However often the provider asks, it is told the agent the call is       *)
(* recorded for, unless the ticket changed hands: by an agent, by a policy *)
(* that empties a resolved ticket, or because two requests found it        *)
(* without assignee (voice_hooks.py:151-154, :297, inbound.py:310-315).    *)
RightPhoneRings ==
    \A c \in Call : calls[c] # NoCall /\ rung[c] # {calls[c].agent} => CallerOf[c] \in moved

InCall(a, c) == calls[c] # NoCall /\ calls[c].agent = a

(* An agent is marked as being on a call exactly when the last word about  *)
(* one of his calls is that it was answered, whatever status is shown of   *)
(* it since; but of two reports handled at once the later may leave the    *)
(* mark as it read it, the end of one call frees him from another, and an  *)
(* agent without a presence row is not marked (voice_hooks.py:349-352).    *)
BusyExplained ==
    \A a \in Agent \ crossed :
       LET answered == {c \in Call : InCall(a, c) /\ told[c] = "answered"}
           ended == {c \in Call : InCall(a, c) /\ told[c] = "ended"}
       IN  /\ presence[a].busy => answered # {}
           /\ answered # {} /\ ~presence[a].busy => ended # {} \/ a \in Newcomers

(* A recorded call that has ended has its call.ended event, and with it    *)
(* its transcription, unless the recording came alone after the end, or    *)
(* while the end was being handled (voice_hooks.py:354).                   *)
RecordingsQueued ==
    \A c \in Call :
       calls[c] # NoCall /\ calls[c].recorded /\ told[c] = "ended" =>
          c \in queued \cup late \cup crossed
=============================================================================
