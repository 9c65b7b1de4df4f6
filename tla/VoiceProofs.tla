----------------------------- MODULE VoiceProofs -----------------------------
(***************************************************************************)
(* Proofs about the voice handlers, for any calls, agents, webhooks and    *)
(* repetitions: a call rings with the agent it is recorded for as long as  *)
(* its ticket does not change hands; presence follows the reports unless   *)
(* two of them crossed; a recorded call gets its event.                    *)
(***************************************************************************)
EXTENDS Voice, SequenceTheorems, TLAPS

Rows == [Call -> CallRow \cup {NoCall}]

Types ==
    /\ owner \in [Caller -> Agent \cup {Nobody}]
    /\ calls \in Rows
    /\ identity \subseteq Agent
    /\ rung \in [Call -> SUBSET Agent]
    /\ DOMAIN job = Job
    /\ queued \subseteq {c \in Call : calls[c] # NoCall}

(* What a handler has read; the assignee it read is still the assignee     *)
(* unless there was none or the ticket has changed hands.                  *)
JobInv(j) ==
    /\ job[j].kind = "route" =>
          /\ job[j].call \in Call /\ job[j].target \in Agent \cup {Nobody}
          /\ job[j].had \notin {Nobody, owner[CallerOf[job[j].call]]} =>
                CallerOf[job[j].call] \in moved
    /\ job[j].kind = "dial" =>
          /\ job[j].to \in Caller /\ job[j].by \in Agent
          /\ job[j].had \notin {Nobody, owner[job[j].to]} => job[j].to \in moved
    /\ job[j].kind \in Reports =>
          /\ job[j].call \in Call /\ job[j].recorded \in BOOLEAN
          /\ calls[job[j].call] # NoCall
    /\ job[j].kind = "transcribe" =>
          job[j].call \in Call /\ calls[job[j].call] # NoCall

(* A call of a ticket that has not changed hands belongs to its assignee,  *)
(* and rang with nobody else.                                              *)
CallInv(c) ==
    IF calls[c] = NoCall THEN rung[c] = {}
    ELSE CallerOf[c] \notin moved =>
            rung[c] = {calls[c].agent} /\ owner[CallerOf[c]] = calls[c].agent

IInv ==
    /\ Types
    /\ \A j \in Job : JobInv(j)
    /\ \A c \in Call : CallInv(c)

-----------------------------------------------------------------------------
LEMMA Rowed ==
    ASSUME Types, NEW c \in Call, calls[c] # NoCall
    PROVE  calls[c] \in CallRow /\ calls[c].agent \in Agent /\ calls[c].agent # Nobody
BY VoiceAssumption DEF Types, Rows, CallRow

LEMMA InitIInv == ASSUME Init PROVE IInv
<1> USE VoiceAssumption DEF Init
<1>1. Types
  BY DEF Types, Rows
<1>2. QED
  BY <1>1 DEF IInv, JobInv, CallInv, Idle, Reports, Turning

(* The ticket of k gets another assignee: from nobody, or it has moved.    *)
LEMMA OwnerKeeps ==
    ASSUME IInv, NEW k \in Caller, NEW a \in Agent \cup {Nobody},
           owner' = owner \/ owner' = [owner EXCEPT ![k] = a],
           moved \subseteq moved',
           owner[k] # Nobody /\ owner'[k] # owner[k] => k \in moved',
           UNCHANGED <<calls, identity, rung, queued>>, DOMAIN job' = Job,
           \A j \in Job : job'[j] = job[j] \/ job'[j] = Idle
    PROVE  IInv'
<1>1. /\ Types /\ \A i \in Caller \ {k} : owner'[i] = owner[i]
      /\ \A c \in Call : CallerOf[c] \in Caller
  BY VoiceAssumption DEF IInv, Types
<1>2. Types'
  BY <1>1 DEF Types
<1>3. \A i \in Caller : owner[i] # Nobody /\ owner'[i] # owner[i] => i \in moved'
  BY <1>1
<1>4. ASSUME NEW j \in Job PROVE JobInv(j)'
  <2>1. CASE job'[j] = Idle
    BY <2>1 DEF JobInv, Idle, Reports, Turning
  <2>2. CASE job'[j] = job[j]
    BY <1>1, <1>3, <2>2 DEF IInv, JobInv
  <2>3. QED
    BY <2>1, <2>2
<1>5. ASSUME NEW c \in Call PROVE CallInv(c)'
  BY <1>1, <1>3, Rowed DEF IInv, CallInv
<1>6. QED
  BY <1>2, <1>4, <1>5 DEF IInv

(* A handler has read, or presence, turns, identities and tickets change   *)
(* without a change of hands.                                              *)
LEMMA QuietKeeps ==
    ASSUME IInv, UNCHANGED <<owner, calls, rung, moved, queued>>, identity' \subseteq Agent,
           DOMAIN job' = Job, \A j \in Job : job'[j] = job[j] \/ JobInv(j)'
    PROVE  IInv'
<1>1. Types'
  BY DEF IInv, Types
<1>2. \A j \in Job : JobInv(j)'
  BY DEF IInv, JobInv
<1>3. \A c \in Call : CallInv(c)'
  BY DEF IInv, CallInv
<1>4. QED
  BY <1>1, <1>2, <1>3 DEF IInv

LEMMA ReadKeeps ==
    ASSUME IInv, NEW j \in Job, UNCHANGED <<committed, rung, history>>,
           NEW x, job' = [job EXCEPT ![j] = x],
           x.kind = "route" =>
              /\ x.call \in Call /\ x.target \in Agent \cup {Nobody}
              /\ x.had = owner[CallerOf[x.call]],
           x.kind = "dial" => x.to \in Caller /\ x.by \in Agent /\ x.had = owner[x.to],
           x.kind \in Reports =>
              x.call \in Call /\ x.recorded \in BOOLEAN /\ calls[x.call] # NoCall,
           x.kind = "transcribe" => x.call \in Call /\ calls[x.call] # NoCall
    PROVE  IInv'
<1>1. job'[j] = x /\ \A i \in Job \ {j} : job'[i] = job[i]
  BY DEF IInv, Types
<1>2. UNCHANGED <<owner, calls, rung, moved, identity, queued>>
  BY DEF committed, history
<1>3. JobInv(j)'
  BY <1>1, <1>2 DEF JobInv
<1>4. DOMAIN job' = Job /\ identity' \subseteq Agent
  BY <1>2 DEF IInv, Types
<1>5. QED
  BY <1>1, <1>2, <1>3, <1>4, QuietKeeps

LEMMA RouteReadKeeps ==
    ASSUME IInv, NEW j \in Job, NEW c \in Call, RouteRead(j, c)
    PROVE  IInv'
<1> DEFINE k == CallerOf[c]
           picks == Assignee(k) = Nobody /\ SelectAgent # {}
<1>1. PICK a \in IF picks THEN SelectAgent ELSE {Assignee(k)} :
         job' = [job EXCEPT ![j] = [kind |-> "route", call |-> c, had |-> owner[k],
                                    reopens |-> k \in resolved, picks |-> picks, target |-> a]]
  BY DEF RouteRead
<1>2. a \in Agent \cup {Nobody}
  <2>1. SelectAgent \subseteq Agent
    BY DEF SelectAgent, Eligible, IInv, Types
  <2>2. Assignee(k) \in Agent \cup {Nobody}
    BY VoiceAssumption DEF Assignee, IInv, Types
  <2>3. QED
    BY <2>1, <2>2
<1>3. UNCHANGED <<committed, rung, history>>
  BY DEF RouteRead
<1> HIDE DEF picks
<1> DEFINE x == [kind |-> "route", call |-> c, had |-> owner[k],
                 reopens |-> k \in resolved, picks |-> picks, target |-> a]
<1>4. /\ x.call \in Call /\ x.target \in Agent \cup {Nobody}
      /\ x.had = owner[CallerOf[x.call]] /\ x.kind = "route"
  BY <1>2
<1> HIDE DEF x
<1>5. job' = [job EXCEPT ![j] = x]
  BY <1>1 DEF x
<1>6. QED
  BY <1>3, <1>4, <1>5, ReadKeeps DEF Reports, Turning

LEMMA EventReadKeeps ==
    ASSUME IInv, NEW j \in Job, NEW c \in Call, NEW kind \in Reports,
           NEW recorded \in BOOLEAN, EventRead(j, c, kind, recorded)
    PROVE  IInv'
<1> DEFINE x == [kind |-> kind, call |-> c, row |-> calls[c],
                 recorded |-> recorded, seen |-> presence[calls[c].agent]]
<1>1. /\ calls[c] # NoCall /\ job' = [job EXCEPT ![j] = x]
      /\ UNCHANGED <<committed, rung, history>>
  BY DEF EventRead
<1>2. x.call = c /\ x.recorded \in BOOLEAN /\ x.kind \in Reports
  OBVIOUS
<1> HIDE DEF x
<1>3. QED
  BY <1>1, <1>2, ReadKeeps DEF Reports, Turning

LEMMA DialReadKeeps ==
    ASSUME IInv, NEW j \in Job, NEW a \in Agent, NEW k \in Caller, DialRead(j, a, k)
    PROVE  IInv'
<1> DEFINE x == [kind |-> "dial", by |-> a, to |-> k, had |-> owner[k]]
<1>1. job' = [job EXCEPT ![j] = x] /\ UNCHANGED <<committed, rung, history>>
  BY DEF DialRead
<1>2. x.kind = "dial" /\ x.by = a /\ x.to = k /\ x.had = owner[k]
  OBVIOUS
<1> HIDE DEF x
<1>3. QED
  BY <1>1, <1>2, ReadKeeps DEF Reports, Turning

(* Putting a call through: if the ticket still has not changed hands, the  *)
(* target is its assignee, old or new, and so whom the call is recorded    *)
(* for, if it is.                                                          *)
LEMMA RouteKeeps ==
    ASSUME IInv, NEW j \in Job, RouteCommit(j)
    PROVE  IInv'
<1> DEFINE r == job[j]
           k == CallerOf[r.call]
<1>1. /\ Types /\ JobInv(j) /\ r.kind = "route" /\ Assign(k, r.had, r.target)
      /\ job' = [job EXCEPT ![j] = Idle] /\ identity' = identity /\ queued' = queued
      /\ IF r.target \in identity
         THEN /\ calls' = [calls EXCEPT ![r.call] = Called(r.call, r.target)]
              /\ rung' = [rung EXCEPT ![r.call] = @ \cup {r.target}]
         ELSE UNCHANGED <<calls, rung>>
  BY DEF RouteCommit, IInv
<1>2. r.call \in Call /\ k \in Caller /\ r.target \in Agent \cup {Nobody}
  BY <1>1, VoiceAssumption DEF JobInv
<1>3. /\ owner' = owner \/ owner' = [owner EXCEPT ![k] = r.target]
      /\ moved \subseteq moved'
      /\ owner[k] # Nobody /\ owner'[k] # owner[k] => k \in moved'
  BY <1>1 DEF Assign
<1>4. DOMAIN job' = Job /\ \A i \in Job : job'[i] = job[i] \/ job'[i] = Idle
  BY <1>1 DEF Types
<1>5. CASE r.target \notin identity
  <2>1. calls' = calls /\ rung' = rung
    BY <1>1, <1>5
  <2>2. QED
    BY <1>1, <1>2, <1>3, <1>4, <2>1, OwnerKeeps
<1>6. CASE r.target \in identity
  <2>1. /\ r.target \in Agent /\ r.target # Nobody
        /\ calls' = [calls EXCEPT ![r.call] = Called(r.call, r.target)]
        /\ rung' = [rung EXCEPT ![r.call] = @ \cup {r.target}]
    BY <1>1, <1>6, VoiceAssumption DEF Types
  <2>2. Called(r.call, r.target) \in CallRow
    BY <1>1, <1>2, <2>1, Rowed DEF Called, CallRow, Statuses
  <2>3. Called(r.call, r.target) # NoCall
    BY <2>1 DEF Called, NoCall
  <2>4. k \notin moved' => owner'[k] = r.target
    <3>1. CASE r.target = r.had
      BY <1>1, <1>2, <1>3, <2>1, <3>1 DEF JobInv
    <3>2. CASE r.target # r.had
      BY <1>1, <1>2, <3>2 DEF Assign, Types
    <3>3. QED
      BY <3>1, <3>2
  <2>5. Types'
    <3>1. calls' \in Rows /\ \A c \in Call : calls[c] # NoCall => calls'[c] # NoCall
      BY <1>1, <1>2, <2>1, <2>2, <2>3 DEF Types, Rows
    <3>2. QED
      BY <1>1, <1>2, <1>3, <1>4, <2>1, <3>1 DEF Types
  <2>6. \A i \in Caller : owner[i] # Nobody /\ owner'[i] # owner[i] => i \in moved'
    BY <1>1, <1>2, <1>3 DEF Types
  <2>7. ASSUME NEW i \in Job PROVE JobInv(i)'
    <3>1. CASE job'[i] = Idle
      BY <3>1 DEF JobInv, Idle, Reports, Turning
    <3>2. CASE job'[i] = job[i]
      <4>1. \A c \in Call : calls[c] # NoCall => calls'[c] # NoCall
        BY <1>1, <1>2, <2>1, <2>3 DEF Types, Rows
      <4>2. JobInv(i) /\ \A c \in Call : CallerOf[c] \in Caller
        BY VoiceAssumption DEF IInv
      <4>3. QED
        BY <1>1, <1>3, <2>6, <3>2, <4>1, <4>2 DEF JobInv, Types
    <3>3. QED
      BY <1>4, <3>1, <3>2
  <2>8. ASSUME NEW c \in Call PROVE CallInv(c)'
    <3>1. CallInv(c) /\ CallerOf[c] \in Caller
      BY VoiceAssumption DEF IInv
    <3>2. CASE c = r.call
      <4>1. /\ calls'[c] = Called(c, r.target) /\ rung'[c] = rung[c] \cup {r.target}
            /\ calls'[c] # NoCall
        BY <1>1, <1>2, <2>1, <2>3, <3>2 DEF Types, Rows
      <4>2. CASE calls[c] = NoCall
        <5>1. calls'[c].agent = r.target /\ rung'[c] = {r.target}
          BY <3>1, <4>1, <4>2 DEF CallInv, Called
        <5>2. QED
          BY <2>4, <3>2, <4>1, <5>1 DEF CallInv
      <4>3. CASE calls[c] # NoCall
        <5>1. calls'[c] = calls[c] /\ calls[c].agent # Nobody
          BY <1>1, <4>1, <4>3, Rowed DEF Called
        <5>2. CallerOf[c] \notin moved' =>
                 rung[c] = {calls[c].agent} /\ owner[CallerOf[c]] = calls[c].agent
          BY <1>3, <3>1, <4>3 DEF CallInv
        <5>3. CallerOf[c] \notin moved' =>
                 owner'[CallerOf[c]] = calls[c].agent /\ r.target = calls[c].agent
          BY <2>4, <2>6, <3>1, <3>2, <5>1, <5>2
        <5>4. QED
          BY <4>1, <5>1, <5>2, <5>3 DEF CallInv
      <4>4. QED
        BY <4>2, <4>3
    <3>3. CASE c # r.call
      <4>1. calls'[c] = calls[c] /\ rung'[c] = rung[c]
        BY <1>1, <1>2, <2>1, <3>3 DEF Types, Rows
      <4>2. calls[c] # NoCall => calls[c].agent # Nobody
        BY <1>1, Rowed
      <4>3. QED
        BY <1>3, <2>6, <3>1, <4>1, <4>2 DEF CallInv
    <3>4. QED
      BY <3>2, <3>3
  <2>9. QED
    BY <2>5, <2>7, <2>8 DEF IInv
<1>7. QED
  BY <1>5, <1>6

(* What is said of a call changes, not whose call it is.                   *)
LEMMA WordKeeps ==
    ASSUME IInv, NEW j \in Job, NEW k \in Call, calls[k] # NoCall,
           calls'[k] \in CallRow, calls'[k].agent = calls[k].agent,
           calls' \in Rows, \A c \in Call \ {k} : calls'[c] = calls[c],
           job' = [job EXCEPT ![j] = Idle], UNCHANGED <<owner, identity, rung, moved>>,
           queued' \subseteq queued \cup {k}
    PROVE  IInv'
<1>1. calls'[k] # NoCall
  BY DEF CallRow, NoCall
<1>2. DOMAIN job' = Job /\ \A i \in Job : job'[i] = job[i] \/ job'[i] = Idle
  BY DEF IInv, Types
<1>3. Types'
  BY <1>1, <1>2 DEF IInv, Types
<1>4. ASSUME NEW i \in Job PROVE JobInv(i)'
  <2>1. CASE job'[i] = Idle
    BY <2>1 DEF JobInv, Idle, Reports, Turning
  <2>2. CASE job'[i] = job[i]
    <3>1. \A c \in Call : calls[c] # NoCall => calls'[c] # NoCall
      BY <1>1
    <3>2. JobInv(i) /\ UNCHANGED <<owner, moved>>
      BY DEF IInv
    <3>3. QED
      BY ONLY <2>2, <3>1, <3>2, SMT DEF JobInv
  <2>3. QED
    BY <1>2, <2>1, <2>2
<1>5. ASSUME NEW c \in Call PROVE CallInv(c)'
  <2>1. CASE c = k
    BY <1>1, <2>1 DEF IInv, CallInv
  <2>2. CASE c # k
    BY <2>2 DEF IInv, CallInv
  <2>3. QED
    BY <2>1, <2>2
<1>6. QED
  BY <1>3, <1>4, <1>5 DEF IInv

(* What is written of the status is a status. *)
LEMMA Written ==
    ASSUME NEW now \in Statuses, NEW read, NEW new \in Statuses
    PROVE  StatusWritten(now, read, new) \subseteq Statuses
BY DEF StatusWritten

(* A report. *)
LEMMA Row ==
    ASSUME calls \in Rows, NEW c \in Call, calls[c] \in CallRow, NEW s \in Statuses,
           NEW r \in BOOLEAN,
           calls' = [calls EXCEPT ![c].status = s, ![c].recorded = r]
    PROVE  /\ calls' \in Rows
           /\ calls'[c] \in CallRow /\ calls'[c].agent = calls[c].agent
           /\ calls'[c].status = s /\ calls'[c].recorded = r
           /\ \A d \in Call \ {c} : calls'[d] = calls[d]
<1>1. calls' = [calls EXCEPT ![c] = [calls[c] EXCEPT !.status = s, !.recorded = r]]
  BY DEF Rows
<1>2. /\ calls'[c] = [calls[c] EXCEPT !.status = s, !.recorded = r]
      /\ \A d \in Call \ {c} : calls'[d] = calls[d]
  BY <1>1 DEF Rows
<1>3. /\ calls'[c] \in CallRow /\ calls'[c].agent = calls[c].agent
      /\ calls'[c].status = s /\ calls'[c].recorded = r
  <2> DEFINE old == calls[c]
             row == [old EXCEPT !.status = s, !.recorded = r]
  <2> HIDE DEF old
  <2>1. old \in CallRow
    BY DEF old
  <2>2. row \in CallRow /\ row.agent = old.agent /\ row.status = s /\ row.recorded = r
    BY <2>1 DEF CallRow
  <2> HIDE DEF row
  <2>3. calls'[c] = row
    BY <1>2 DEF row, old
  <2>4. QED
    BY <2>2, <2>3 DEF old
<1>4. calls' \in Rows
  BY <1>1, <1>2, <1>3 DEF Rows
<1>5. QED
  BY <1>2, <1>3, <1>4

(* What a report writes. *)
LEMMA ReportWrites ==
    ASSUME IInv, NEW j \in Job, EventCommit(j)
    PROVE  LET e == job[j]
               c == job[j].call
           IN  /\ e.kind \in Reports /\ e.recorded \in BOOLEAN
               /\ c \in Call /\ calls[c] # NoCall /\ calls[c] \in CallRow
               /\ calls' \in Rows /\ calls'[c] \in CallRow
               /\ calls'[c].agent = calls[c].agent
               /\ calls'[c].recorded = (calls[c].recorded \/ e.recorded)
               /\ \A d \in Call \ {c} : calls'[d] = calls[d]
               /\ job' = [job EXCEPT ![j] = Idle]
               /\ UNCHANGED <<owner, identity, rung, moved, transcribed>>
               /\ queued' \subseteq queued \cup {c}
<1> DEFINE e == job[j]
           c == e.call
           written == IF e.kind = "none" THEN {calls[c].status}
                      ELSE StatusWritten(calls[c].status, e.row.status, e.kind)
<1>1. /\ Types /\ JobInv(j) /\ e.kind \in Reports
      /\ job' = [job EXCEPT ![j] = Idle]
      /\ UNCHANGED <<owner, identity, rung, moved, transcribed>>
      /\ queued' \subseteq queued \cup {c}
  BY DEF EventCommit, Enqueue, IInv
<1>2. /\ c \in Call /\ e.recorded \in BOOLEAN /\ calls[c] # NoCall /\ calls[c] \in CallRow
  BY <1>1, Rowed DEF JobInv
<1>3. written \subseteq Statuses
  <2>1. calls[c].status \in Statuses /\ (e.kind # "none" => e.kind \in Statuses)
    BY <1>1, <1>2 DEF CallRow, Reports, Turning, Statuses
  <2>2. QED
    BY <2>1, Written
<1>4. PICK s \in written :
         calls' = [calls EXCEPT ![c].status = s, ![c].recorded = @ \/ e.recorded]
  BY DEF EventCommit
<1> HIDE DEF written
<1> DEFINE both == calls[c].recorded \/ e.recorded
<1>5. both \in BOOLEAN /\ s \in Statuses /\ calls \in Rows
  BY <1>1, <1>2, <1>3, <1>4 DEF CallRow, Types
<1>6. calls' = [calls EXCEPT ![c].status = s, ![c].recorded = both]
  BY <1>2, <1>4, <1>5 DEF Rows
<1> HIDE DEF both
<1>7. /\ calls' \in Rows /\ calls'[c] \in CallRow /\ calls'[c].agent = calls[c].agent
      /\ calls'[c].recorded = both /\ \A d \in Call \ {c} : calls'[d] = calls[d]
  BY <1>2, <1>5, <1>6, Row
<1>8. QED
  BY <1>1, <1>2, <1>7 DEF both

LEMMA EventKeeps ==
    ASSUME IInv, NEW j \in Job, EventCommit(j)
    PROVE  IInv'
BY ReportWrites, WordKeeps

(* What a transcription writes. *)
LEMMA TranscriptWrites ==
    ASSUME IInv, NEW j \in Job, TranscribeCommit(j)
    PROVE  LET c == job[j].call
           IN  /\ c \in Call /\ calls[c] # NoCall
               /\ calls' \in Rows /\ calls'[c] \in CallRow
               /\ calls'[c].agent = calls[c].agent
               /\ calls'[c].recorded = calls[c].recorded
               /\ \A d \in Call \ {c} : calls'[d] = calls[d]
               /\ job' = [job EXCEPT ![j] = Idle]
               /\ transcribed' \in {transcribed, transcribed \cup {c}}
               /\ UNCHANGED <<owner, resolved, presence, turns, identity, queued, dialled,
                              rung, history>>
<1> DEFINE t == job[j]
           c == t.call
           written == StatusWritten(calls[c].status, t.row.status, "ended")
<1>1. /\ Types /\ JobInv(j) /\ t.kind = "transcribe"
      /\ job' = [job EXCEPT ![j] = Idle]
      /\ UNCHANGED <<owner, resolved, presence, turns, identity, queued, dialled,
                     rung, history>>
  BY DEF TranscribeCommit, IInv
<1>2. c \in Call /\ calls[c] # NoCall /\ calls[c] \in CallRow /\ calls \in Rows
  BY <1>1, Rowed DEF JobInv, Types
<1>3. CASE c \in transcribed
  BY <1>1, <1>2, <1>3 DEF TranscribeCommit
<1>4. CASE c \notin transcribed
  <2>1. written \subseteq Statuses
    BY <1>2, Written DEF CallRow, Statuses
  <2>2. PICK s \in written : calls' = [calls EXCEPT ![c].status = s]
    BY <1>4 DEF TranscribeCommit
  <2>3. transcribed' = transcribed \cup {c}
    BY <1>4 DEF TranscribeCommit
  <2> HIDE DEF written
  <2>4. s \in Statuses /\ calls[c].recorded \in BOOLEAN
    BY <1>2, <2>1, <2>2 DEF CallRow
  <2>5. calls' = [calls EXCEPT ![c].status = s, ![c].recorded = calls[c].recorded]
    BY <1>2, <2>2 DEF Rows, CallRow
  <2>6. /\ calls' \in Rows /\ calls'[c] \in CallRow /\ calls'[c].agent = calls[c].agent
        /\ calls'[c].recorded = calls[c].recorded /\ \A d \in Call \ {c} : calls'[d] = calls[d]
    BY <1>2, <2>4, <2>5, Row
  <2>7. QED
    BY <1>1, <1>2, <2>3, <2>6
<1>5. QED
  BY <1>3, <1>4

LEMMA TranscribeKeeps ==
    ASSUME IInv, NEW j \in Job, TranscribeCommit(j)
    PROVE  IInv'
BY TranscriptWrites, WordKeeps DEF history

(* A transcription is begun of a call that has a row. *)
LEMMA TranscribeReadKeeps ==
    ASSUME IInv, NEW j \in Job, NEW c \in Call, TranscribeRead(j, c)
    PROVE  IInv'
<1> DEFINE x == [kind |-> "transcribe", call |-> c, row |-> calls[c]]
<1>1. /\ job' = [job EXCEPT ![j] = x] /\ UNCHANGED <<committed, rung, history>>
      /\ calls[c] # NoCall
  BY DEF TranscribeRead, IInv, Types
<1>2. x.kind = "transcribe" /\ x.call = c
  OBVIOUS
<1> HIDE DEF x
<1>3. QED
  BY <1>1, <1>2, ReadKeeps DEF Reports, Turning

(* A call out of the console takes a ticket without assignee, as its agent *)
(* read it; another may have taken it meanwhile, and then it moves.        *)
LEMMA DialKeeps ==
    ASSUME IInv, NEW j \in Job, DialCommit(j)
    PROVE  IInv'
<1> DEFINE d == job[j]
<1>1. /\ d.to \in Caller /\ d.by \in Agent
      /\ job' = [job EXCEPT ![j] = Idle]
      /\ UNCHANGED <<calls, identity, rung, queued>>
  BY DEF DialCommit, IInv, JobInv
<1>2. DOMAIN job' = Job /\ \A i \in Job : job'[i] = job[i] \/ job'[i] = Idle
  BY <1>1 DEF IInv, Types
<1>3. /\ owner' = owner \/ owner' = [owner EXCEPT ![d.to] = d.by]
      /\ moved \subseteq moved'
      /\ owner[d.to] # Nobody /\ owner'[d.to] # owner[d.to] => d.to \in moved'
  <2>1. CASE <<d.by, d.to>> \in dialled
    BY <2>1 DEF DialCommit
  <2>2. CASE <<d.by, d.to>> \notin dialled
    BY <2>2 DEF DialCommit, Assign
  <2>3. QED
    BY <2>1, <2>2
<1>4. QED
  BY <1>1, <1>2, <1>3, OwnerKeeps

LEMMA ReassignKeeps ==
    ASSUME IInv, NEW k \in Caller, NEW a \in Agent \cup {Nobody}, Reassign(k, a)
    PROVE  IInv'
<1>1. /\ owner' = [owner EXCEPT ![k] = a] /\ moved \subseteq moved'
      /\ UNCHANGED <<calls, identity, rung, job, queued>>
  BY DEF Reassign
<1>2. owner[k] # Nobody /\ owner'[k] # owner[k] => k \in moved'
  BY DEF Reassign, IInv, Types
<1>3. DOMAIN job' = Job
  BY <1>1 DEF IInv, Types
<1>4. QED
  BY <1>1, <1>2, <1>3, OwnerKeeps

LEMMA NextIInv == ASSUME IInv, [Next]_vars PROVE IInv'
<1>1. CASE Next
  <2>1. ASSUME NEW j \in Job, NEW c \in Call, RouteRead(j, c) PROVE IInv'
    BY <2>1, RouteReadKeeps
  <2>2. ASSUME NEW j \in Job, NEW c \in Call, NEW kind \in Reports,
               NEW recorded \in BOOLEAN, EventRead(j, c, kind, recorded)
        PROVE  IInv'
    BY <2>2, EventReadKeeps
  <2>3. ASSUME NEW j \in Job, RouteCommit(j) PROVE IInv'
    BY <2>3, RouteKeeps
  <2>4. ASSUME NEW j \in Job, EventCommit(j) PROVE IInv'
    BY <2>4, EventKeeps
  <2>5. ASSUME NEW j \in Job, DialCommit(j) PROVE IInv'
    BY <2>5, DialKeeps
  <2>6. ASSUME NEW j \in Job, NEW a \in Agent, NEW k \in Caller, DialRead(j, a, k)
        PROVE  IInv'
    BY <2>6, DialReadKeeps
  <2>7. ASSUME NEW a \in Agent,
               \/ \E status \in {"available", "offline"} : SetPresence(a, status)
               \/ UpsertIdentity(a) \/ DeleteIdentity(a)
        PROVE  IInv'
    <3>1. /\ UNCHANGED <<owner, calls, rung, moved, job, queued>>
          /\ identity' \subseteq identity \cup {a}
      BY <2>7 DEF SetPresence, UpsertIdentity, DeleteIdentity, history
    <3>2. identity' \subseteq Agent /\ DOMAIN job' = Job
      BY <3>1 DEF IInv, Types
    <3>3. QED
      BY <3>1, <3>2, QuietKeeps
  <2>8. ASSUME NEW k \in Caller, Resolve(k) PROVE IInv'
    <3>1. UNCHANGED <<owner, calls, rung, moved, job, identity, queued>>
      BY <2>8 DEF Resolve, history
    <3>2. identity' \subseteq Agent /\ DOMAIN job' = Job
      BY <3>1 DEF IInv, Types
    <3>3. QED
      BY <3>1, <3>2, QuietKeeps
  <2>9. ASSUME NEW k \in Caller, NEW a \in Agent \cup {Nobody}, Reassign(k, a)
        PROVE  IInv'
    BY <2>9, ReassignKeeps
  <2>10. ASSUME NEW j \in Job, NEW c \in Call, TranscribeRead(j, c) PROVE IInv'
    BY <2>10, TranscribeReadKeeps
  <2>11. ASSUME NEW j \in Job, TranscribeCommit(j) PROVE IInv'
    BY <2>11, TranscribeKeeps
  <2>12. QED
    BY <1>1, <2>1, <2>2, <2>3, <2>4, <2>5, <2>6, <2>7, <2>8, <2>9, <2>10, <2>11 DEF Next, Step
<1>2. CASE UNCHANGED vars
  <2>1. UNCHANGED <<owner, calls, rung, moved, job, identity, queued>>
    BY <1>2 DEF vars, committed, history
  <2>2. identity' \subseteq Agent /\ DOMAIN job' = Job
    BY <2>1 DEF IInv, Types
  <2>3. QED
    BY <2>1, <2>2, QuietKeeps
<1>3. QED
  BY <1>1, <1>2

(* The strengthened invariant of the voice handlers holds in every state.  *)
THEOREM Invariance == Spec => []IInv
<1>1. Init => IInv
  BY InitIInv
<1>2. IInv /\ [Next]_vars => IInv'
  BY NextIInv
<1>3. QED
  BY <1>1, <1>2, PTL DEF Spec

(* However often the provider asks about a call, and whatever else is      *)
(* handled at once, only the agent the call is recorded for is rung, as    *)
(* long as the ticket has not been taken from anybody (voice_hooks.py:151).*)
THEOREM SamePhoneRings == Spec => []RightPhoneRings
<1>1. IInv => RightPhoneRings
  BY DEF IInv, CallInv, RightPhoneRings
<1>2. QED
  BY <1>1, Invariance, PTL

-----------------------------------------------------------------------------
(* Presence and recordings *)

(* What a handler has read of a call is of a row that is there still, with *)
(* the same agent, and whose recording is not taken back.                  *)
ReadInv(j) ==
    /\ job[j].kind \in {"idle", "route", "dial", "transcribe"} \cup Reports
    /\ job[j].kind = "transcribe" => job[j].call \in queued
    /\ job[j].kind = "route" /\ job[j].picks => job[j].target \in Agent
    /\ job[j].kind \in Reports =>
          /\ job[j].row \in CallRow /\ job[j].seen \in PresenceRow
          /\ job[j].seen.status = "absent" => job[j].row.agent \in Newcomers
          /\ job[j].row.agent = calls[job[j].call].agent
          /\ job[j].row.recorded => calls[job[j].call].recorded

PresenceInv ==
    /\ presence \in [Agent -> PresenceRow]
    /\ \A a \in Agent \ Newcomers : presence[a].status # "absent"

(* Nothing is said of a call without a row. *)
ToldInv == \A c \in Call : calls[c] = NoCall => told[c] = "nothing"

VoiceInv ==
    /\ IInv /\ TypeOK /\ PresenceInv /\ ToldInv
    /\ \A j \in Job : ReadInv(j)
    /\ BusyExplained /\ RecordingsQueued

-----------------------------------------------------------------------------
LEMMA RemovedTurn ==
    ASSUME turns \in Seq(Agent), IsInjective(turns), NEW i \in DOMAIN turns
    PROVE  /\ RemoveAt(turns, i) \in Seq(Agent)
           /\ IsInjective(RemoveAt(turns, i))
           /\ \A n \in DOMAIN RemoveAt(turns, i) : RemoveAt(turns, i)[n] # turns[i]
<1> DEFINE front == SubSeq(turns, 1, i - 1)
           back == SubSeq(turns, i + 1, Len(turns))
<1>1. i \in 1..Len(turns) /\ Len(turns) \in Nat
  OBVIOUS
<1>2. /\ front \in Seq(Agent) /\ Len(front) = i - 1
      /\ \A n \in 1..(i - 1) : front[n] = turns[n]
  BY <1>1
<1>3. /\ back \in Seq(Agent) /\ Len(back) = Len(turns) - i
      /\ \A n \in 1..(Len(turns) - i) : back[n] = turns[n + i]
  BY <1>1
<1> HIDE DEF front, back
<1>4. /\ front \o back \in Seq(Agent) /\ Len(front \o back) = Len(turns) - 1
      /\ \A n \in 1..(Len(turns) - 1) :
            (front \o back)[n] = IF n < i THEN turns[n] ELSE turns[n + 1]
  <2>1. /\ front \o back \in Seq(Agent) /\ Len(front \o back) = Len(front) + Len(back)
        /\ \A n \in 1..(Len(front) + Len(back)) :
              (front \o back)[n] = IF n <= Len(front) THEN front[n] ELSE back[n - Len(front)]
    BY <1>2, <1>3, ConcatProperties
  <2>2. Len(front) + Len(back) = Len(turns) - 1
    BY <1>1, <1>2, <1>3
  <2>3. ASSUME NEW n \in 1..(Len(turns) - 1)
        PROVE  (front \o back)[n] = IF n < i THEN turns[n] ELSE turns[n + 1]
    <3>1. CASE n < i
      BY <1>1, <1>2, <2>1, <2>2, <3>1
    <3>2. CASE ~(n < i)
      <4>1. n - Len(front) \in 1..(Len(turns) - i) /\ n - Len(front) + i = n + 1 /\ ~(n <= Len(front))
        BY ONLY <1>1, <1>2, <3>2, n \in 1..(Len(turns) - 1), SMT
      <4>2. (front \o back)[n] = back[n - Len(front)]
        BY <2>1, <2>2, <4>1
      <4>3. QED
        BY <1>3, <3>2, <4>1, <4>2
    <3>3. QED
      BY <3>1, <3>2
  <2>4. QED
    BY <2>1, <2>2, <2>3
<1>5. RemoveAt(turns, i) = front \o back
  BY DEF RemoveAt, front, back
<1> DEFINE s == RemoveAt(turns, i)
<1>6. /\ s \in Seq(Agent) /\ DOMAIN s = 1..(Len(turns) - 1) /\ DOMAIN turns = 1..Len(turns)
      /\ \A n \in 1..(Len(turns) - 1) : s[n] = IF n < i THEN turns[n] ELSE turns[n + 1]
  BY <1>4, <1>5
<1> HIDE DEF s
<1>7. ASSUME NEW n \in DOMAIN s PROVE s[n] # turns[i]
  BY <1>1, <1>6 DEF IsInjective
<1>8. ASSUME NEW m \in DOMAIN s, NEW n \in DOMAIN s, s[m] = s[n] PROVE m = n
  BY <1>1, <1>6, <1>8 DEF IsInjective
<1>9. QED
  BY <1>6, <1>7, <1>8 DEF IsInjective, s

LEMMA TurnTaken ==
    ASSUME turns \in Seq(Agent), IsInjective(turns), NEW a \in Agent, TakeTurn(a)
    PROVE  turns' \in Seq(Agent) /\ IsInjective(turns')
<1>1. ASSUME NEW s \in Seq(Agent), IsInjective(s), \A n \in DOMAIN s : s[n] # a, turns' = Append(s, a)
      PROVE  turns' \in Seq(Agent) /\ IsInjective(turns')
  BY <1>1 DEF IsInjective
<1>2. CASE a \in ToSet(turns)
  <2> DEFINE i == CHOOSE i \in DOMAIN turns : turns[i] = a
  <2>1. i \in DOMAIN turns /\ turns[i] = a
    BY <1>2 DEF ToSet
  <2>2. turns' = Append(RemoveAt(turns, i), a)
    BY <1>2 DEF TakeTurn
  <2> HIDE DEF i
  <2>3. QED
    BY <1>1, <2>1, <2>2, RemovedTurn
<1>3. CASE a \notin ToSet(turns)
  <2>1. turns' = Append(turns, a)
    BY <1>3 DEF TakeTurn
  <2>2. \A n \in DOMAIN turns : turns[n] # a
    BY <1>3 DEF ToSet
  <2>3. QED
    BY <1>1, <2>1, <2>2
<1>4. QED
  BY <1>2, <1>3

-----------------------------------------------------------------------------
(* What a report does to its call, and what is remembered of it.           *)
LEMMA Reported ==
    ASSUME VoiceInv, NEW j \in Job, EventCommit(j)
    PROVE  LET e == job[j]
               c == job[j].call
               a == job[j].row.agent
           IN  /\ e.kind \in Reports /\ e.row \in CallRow /\ e.recorded \in BOOLEAN
               /\ e.seen \in PresenceRow /\ (e.seen.status = "absent" => a \in Newcomers)
               /\ c \in Call /\ calls[c] # NoCall /\ calls[c] \in CallRow
               /\ calls'[c] # NoCall /\ calls'[c] \in CallRow
               /\ a = calls[c].agent /\ calls'[c].agent = calls[c].agent /\ a \in Agent
               /\ calls'[c].recorded <=> calls[c].recorded \/ e.recorded
               /\ e.row.recorded => calls[c].recorded
               /\ \A d \in Call \ {c} : calls'[d] = calls[d] /\ told'[d] = told[d]
               /\ told'[c] = IF e.kind \in Turning THEN e.kind ELSE told[c]
               /\ told' \in [Call -> Turning \cup {"nothing"}]
               /\ job' = [job EXCEPT ![j] = Idle]
<1> DEFINE e == job[j]
           c == e.call
<1>1. /\ ReadInv(j) /\ IInv /\ Types /\ told \in [Call -> Turning \cup {"nothing"}]
      /\ told' = IF e.kind \in Turning THEN [told EXCEPT ![c] = e.kind] ELSE told
      /\ e.kind \in Reports
  BY DEF VoiceInv, IInv, TypeOK, EventCommit, Remember
<1>2. /\ e.recorded \in BOOLEAN /\ c \in Call /\ calls[c] # NoCall /\ calls[c] \in CallRow
      /\ calls'[c] \in CallRow /\ calls'[c].agent = calls[c].agent
      /\ calls'[c].recorded = (calls[c].recorded \/ e.recorded)
      /\ \A d \in Call \ {c} : calls'[d] = calls[d]
      /\ job' = [job EXCEPT ![j] = Idle]
  BY <1>1, ReportWrites
<1>3. calls[c].agent \in Agent /\ NoCall \notin CallRow
  BY <1>1, <1>2, Rowed DEF NoCall, CallRow
<1>4. /\ e.row \in CallRow /\ e.seen \in PresenceRow
      /\ e.seen.status = "absent" => e.row.agent \in Newcomers
      /\ e.row.agent = calls[c].agent /\ (e.row.recorded => calls[c].recorded)
  BY <1>1 DEF ReadInv
<1>5. /\ told'[c] = IF e.kind \in Turning THEN e.kind ELSE told[c]
      /\ told' \in [Call -> Turning \cup {"nothing"}]
      /\ \A d \in Call \ {c} : told'[d] = told[d]
  BY <1>1, <1>2
<1>6. QED
  BY <1>1, <1>2, <1>3, <1>4, <1>5

(* A step makes rows, and reports and transcriptions change them; a row    *)
(* keeps its agent and its recording.                                      *)
CallStep ==
    \/ calls' = calls /\ UNCHANGED <<queued, transcribed, told, late, crossed>>
    \/ /\ \E j \in Job : RouteCommit(j)
       /\ \A c \in Call : \/ calls'[c] = calls[c]
                          \/ /\ calls[c] = NoCall /\ calls'[c] \in CallRow
                             /\ calls'[c] # NoCall /\ ~calls'[c].recorded
       /\ UNCHANGED <<presence, queued, transcribed, told, late, crossed>>
    \/ /\ \E j \in Job : TranscribeCommit(j)
       /\ \A c \in Call : \/ calls'[c] = calls[c]
                          \/ /\ calls[c] # NoCall /\ calls'[c] \in CallRow
                             /\ calls'[c] # NoCall
                             /\ calls'[c].agent = calls[c].agent
                             /\ calls'[c].recorded = calls[c].recorded
       /\ UNCHANGED <<presence, queued, told, late, crossed>>
    \/ \E j \in Job : EventCommit(j)

LEMMA CallSteps == ASSUME VoiceInv, [Next]_vars PROVE CallStep /\ given' = given
<1>1. CASE UNCHANGED vars
  BY <1>1 DEF CallStep, vars, committed, history
<1>2. ASSUME NEW j \in Job, RouteCommit(j) PROVE CallStep
  <2> DEFINE r == job[j]
  <2>1. /\ Types /\ r.call \in Call /\ UNCHANGED <<presence, queued, transcribed, told, late, crossed>>
        /\ IF r.target \in identity
           THEN calls' = [calls EXCEPT ![r.call] = Called(r.call, r.target)]
           ELSE calls' = calls
    BY <1>2 DEF RouteCommit, VoiceInv, IInv, JobInv
  <2>2. CASE r.target \notin identity
    BY <1>2, <2>1, <2>2 DEF CallStep
  <2>3. CASE r.target \in identity
    <3>1. r.target \in Agent /\ calls' = [calls EXCEPT ![r.call] = Called(r.call, r.target)]
      BY <2>1, <2>3 DEF Types
    <3>2. ASSUME NEW c \in Call
          PROVE  \/ calls'[c] = calls[c]
                 \/ /\ calls[c] = NoCall /\ calls'[c] \in CallRow
                    /\ calls'[c] # NoCall /\ ~calls'[c].recorded
      <4>1. CASE c = r.call /\ calls[c] = NoCall
        BY <2>1, <3>1, <4>1 DEF Called, CallRow, NoCall, Types, Rows, Statuses
      <4>2. CASE ~(c = r.call /\ calls[c] = NoCall)
        BY <2>1, <3>1, <4>2 DEF Called, Types, Rows
      <4>3. QED
        BY <4>1, <4>2
    <3>3. QED
      BY <1>2, <2>1, <3>2 DEF CallStep
  <2>4. QED
    BY <2>2, <2>3
<1>3. CASE Next
  <2>1. ASSUME NEW j \in Job, NEW c \in Call, RouteRead(j, c) PROVE CallStep
    BY <2>1 DEF RouteRead, committed, history, CallStep
  <2>2. ASSUME NEW j \in Job, NEW c \in Call, NEW kind \in Reports,
               NEW recorded \in BOOLEAN, EventRead(j, c, kind, recorded)
        PROVE  CallStep
    BY <2>2 DEF EventRead, committed, history, CallStep
  <2>3. ASSUME NEW j \in Job, EventCommit(j) PROVE CallStep
    BY <2>3 DEF CallStep
  <2>4. ASSUME NEW j \in Job, DialCommit(j) PROVE CallStep
    BY <2>4 DEF DialCommit, CallStep
  <2>5. ASSUME NEW j \in Job, NEW a \in Agent, NEW k \in Caller, DialRead(j, a, k)
        PROVE  CallStep
    BY <2>5 DEF DialRead, committed, history, CallStep
  <2>6. ASSUME NEW a \in Agent,
               \/ \E status \in {"available", "offline"} : SetPresence(a, status)
               \/ UpsertIdentity(a) \/ DeleteIdentity(a)
        PROVE  CallStep
    BY <2>6 DEF SetPresence, UpsertIdentity, DeleteIdentity, history, CallStep
  <2>7. ASSUME NEW k \in Caller, Resolve(k) \/ \E a \in Agent \cup {Nobody} : Reassign(k, a)
        PROVE  CallStep
    BY <2>7 DEF Resolve, Reassign, history, CallStep
  <2>8. ASSUME NEW j \in Job, NEW c \in Call, TranscribeRead(j, c) PROVE CallStep
    BY <2>8 DEF TranscribeRead, committed, history, CallStep
  <2>9. ASSUME NEW j \in Job, TranscribeCommit(j) PROVE CallStep
    <3>1. \A c \in Call : \/ calls'[c] = calls[c]
                          \/ /\ calls[c] # NoCall /\ calls'[c] \in CallRow
                             /\ calls'[c].agent = calls[c].agent
                             /\ calls'[c].recorded = calls[c].recorded
      BY <2>9, TranscriptWrites DEF VoiceInv
    <3>2. UNCHANGED <<presence, queued, told, late, crossed>>
      BY <2>9 DEF TranscribeCommit, history
    <3>3. NoCall \notin CallRow
      BY DEF NoCall, CallRow
    <3>4. QED
      BY <2>9, <3>1, <3>2, <3>3 DEF CallStep
  <2>10. QED
    BY <1>2, <1>3, <2>1, <2>2, <2>3, <2>4, <2>5, <2>6, <2>7, <2>8, <2>9 DEF Next, Step
<1>4. given' = given
  BY DEF Next, vars
<1>5. QED
  BY <1>1, <1>3, <1>4

LEMMA CallsStay ==
    ASSUME VoiceInv, [Next]_vars, NEW c \in Call, calls[c] # NoCall
    PROVE  /\ calls'[c] \in CallRow /\ calls'[c].agent = calls[c].agent
           /\ calls[c].recorded => calls'[c].recorded
<1>1. calls[c] \in CallRow
  BY Rowed DEF VoiceInv, IInv
<1>2. ASSUME NEW j \in Job, EventCommit(j)
      PROVE  /\ calls'[c] \in CallRow /\ calls'[c].agent = calls[c].agent
             /\ calls[c].recorded => calls'[c].recorded
  BY <1>1, <1>2, Reported
<1>3. QED
  BY <1>1, <1>2, CallSteps DEF CallStep

(* Events stay in the outbox, and nothing is said of calls without a row.  *)
LEMMA QueueGrows == ASSUME VoiceInv, [Next]_vars PROVE queued \subseteq queued'
BY CallSteps DEF CallStep, EventCommit, Enqueue

LEMMA ToldKeeps == ASSUME VoiceInv, [Next]_vars PROVE ToldInv'
<1>1. ToldInv /\ CallStep
  BY CallSteps DEF VoiceInv
<1>2. ASSUME NEW j \in Job, EventCommit(j) PROVE ToldInv'
  BY <1>1, <1>2, Reported DEF ToldInv
<1>3. QED
  BY <1>1, <1>2 DEF CallStep, ToldInv

(* A recorded call that has ended has its event, or the reports crossed.   *)
LEMMA RecordingsKeep ==
    ASSUME VoiceInv, [Next]_vars PROVE RecordingsQueued'
<1>1. RecordingsQueued /\ CallStep
  BY CallSteps DEF VoiceInv
<1>2. ASSUME NEW j \in Job, EventCommit(j) PROVE RecordingsQueued'
  <2> DEFINE e == job[j]
  <2>1. /\ queued' = IF e.kind = "ended" /\ (e.recorded \/ e.row.recorded)
                     THEN queued \cup {e.call} ELSE queued
        /\ late' = IF e.kind \notin Turning /\ e.recorded /\ told[e.call] = "ended"
                   THEN late \cup {e.call} ELSE late
        /\ crossed \subseteq crossed'
        /\ e.kind = "ended" /\ calls[e.call].recorded # e.row.recorded => e.call \in crossed'
    BY <1>2 DEF EventCommit, Enqueue, Remember
  <2>2. ASSUME NEW c \in Call, c # e.call, calls'[c] # NoCall,
               calls'[c].recorded, told'[c] = "ended"
        PROVE  c \in queued' \cup late' \cup crossed'
    <3>1. calls'[c] = calls[c] /\ told'[c] = told[c]
      BY <1>2, <2>2, Reported
    <3>2. QED
      BY <1>1, <2>1, <2>2, <3>1 DEF RecordingsQueued
  <2>3. ASSUME calls'[e.call].recorded, told'[e.call] = "ended"
        PROVE  e.call \in queued' \cup late' \cup crossed'
    <3>1. /\ e.call \in Call /\ calls[e.call] # NoCall
          /\ told'[e.call] = IF e.kind \in Turning THEN e.kind ELSE told[e.call]
          /\ calls'[e.call].recorded <=> calls[e.call].recorded \/ e.recorded
          /\ e.recorded \in BOOLEAN /\ e.row \in CallRow /\ calls[e.call] \in CallRow
      BY <1>2, Reported
    <3>2. calls[e.call].recorded \in BOOLEAN /\ e.row.recorded \in BOOLEAN
      BY <3>1 DEF CallRow
    <3>3. CASE e.kind = "ended"
      BY <2>1, <2>3, <3>1, <3>2, <3>3
    <3>4. CASE e.kind \notin Turning
      <4>1. told[e.call] = "ended"
        BY <2>3, <3>1, <3>4
      <4>2. CASE e.recorded
        BY <2>1, <3>4, <4>1, <4>2
      <4>3. CASE ~e.recorded
        BY <1>1, <2>1, <2>3, <3>1, <3>4, <4>1, <4>3 DEF RecordingsQueued, Turning
      <4>4. QED
        BY <4>2, <4>3
    <3>5. CASE e.kind = "answered"
      BY <2>3, <3>1, <3>5 DEF Turning
    <3>6. QED
      BY <3>3, <3>4, <3>5 DEF Turning
  <2>4. QED
    BY <2>2, <2>3 DEF RecordingsQueued
<1>3. CASE calls' = calls /\ UNCHANGED <<queued, told, late, crossed>>
  BY <1>1, <1>3 DEF RecordingsQueued
<1>4. CASE /\ \A c \in Call : \/ calls'[c] = calls[c]
                              \/ /\ calls[c] = NoCall
                                 /\ calls'[c] # NoCall /\ ~calls'[c].recorded
                              \/ /\ calls[c] # NoCall
                                 /\ calls'[c].recorded = calls[c].recorded
           /\ UNCHANGED <<queued, told, late, crossed>>
  BY <1>1, <1>4 DEF RecordingsQueued
<1>5. QED
  BY <1>1, <1>2, <1>3, <1>4 DEF CallStep

-----------------------------------------------------------------------------
(* What a step does to the presence of agents: a report marks its agent,   *)
(* and an agent sets his own status.                                       *)
PresenceStep ==
    \/ presence' = presence
    \/ \E j \in Job : EventCommit(j)
    \/ /\ \E a \in Agent, status \in {"available", "offline"} :
             presence' = [presence EXCEPT ![a].status = status]
       /\ UNCHANGED <<calls, told, crossed>>

LEMMA PresenceSteps == ASSUME [Next]_vars PROVE PresenceStep
<1>1. CASE UNCHANGED vars
  BY <1>1 DEF PresenceStep, vars, committed
<1>2. CASE Next
  <2>1. ASSUME NEW a \in Agent, NEW status \in {"available", "offline"}, SetPresence(a, status)
        PROVE  PresenceStep
    BY <2>1 DEF SetPresence, history, PresenceStep
  <2>2. ASSUME NEW j \in Job, NEW c \in Call,
               \/ RouteRead(j, c) \/ TranscribeRead(j, c)
               \/ \E kind \in Reports, recorded \in BOOLEAN : EventRead(j, c, kind, recorded)
        PROVE  PresenceStep
    BY <2>2 DEF RouteRead, TranscribeRead, EventRead, committed, PresenceStep
  <2>3. ASSUME NEW j \in Job,
               RouteCommit(j) \/ EventCommit(j) \/ TranscribeCommit(j) \/ DialCommit(j)
        PROVE  PresenceStep
    BY <2>3 DEF RouteCommit, TranscribeCommit, DialCommit, PresenceStep
  <2>4. ASSUME NEW j \in Job, NEW a \in Agent, NEW k \in Caller, DialRead(j, a, k)
        PROVE  PresenceStep
    BY <2>4 DEF DialRead, committed, PresenceStep
  <2>5. ASSUME NEW a \in Agent, UpsertIdentity(a) \/ DeleteIdentity(a) PROVE PresenceStep
    BY <2>5 DEF UpsertIdentity, DeleteIdentity, PresenceStep
  <2>6. ASSUME NEW k \in Caller, Resolve(k) \/ \E a \in Agent \cup {Nobody} : Reassign(k, a)
        PROVE  PresenceStep
    BY <2>6 DEF Resolve, Reassign, PresenceStep
  <2>7. QED
    BY <1>2, <2>1, <2>2, <2>3, <2>4, <2>5, <2>6 DEF Next, Step
<1>3. QED
  BY <1>1, <1>2

LEMMA Marked ==
    ASSUME VoiceInv, NEW j \in Job, EventCommit(j)
    PROVE  LET e == job[j]
               a == job[j].row.agent
           IN  /\ a \in Agent
               /\ presence' = [b \in Agent |-> presence'[b]]
               /\ \A b \in Agent : presence'[b] \in PresenceRow /\ presence'[b].status = presence[b].status
               /\ \A b \in Agent \ {a} : presence'[b] = presence[b]
               /\ e.seen.busy = presence[a].busy =>
                     /\ e.kind \notin Turning => presence'[a].busy = presence[a].busy
                     /\ e.kind = "ended" => ~presence'[a].busy
                     /\ e.kind = "answered" => presence'[a].busy \/ a \in Newcomers
               /\ e.kind \notin Turning => presence' = presence
<1> DEFINE e == job[j]
           a == e.row.agent
           busy == e.kind = "answered"
<1>1. /\ a \in Agent /\ e.seen \in PresenceRow /\ presence \in [Agent -> PresenceRow]
      /\ (e.seen.status = "absent" => a \in Newcomers)
  BY Reported DEF VoiceInv, PresenceInv
<1>2. presence' = IF e.kind \notin Turning \/ e.seen = NoPresence \/ busy = e.seen.busy
                  THEN presence ELSE [presence EXCEPT ![a].busy = busy]
  BY DEF EventCommit, Mark
<1>3. e.seen = NoPresence => e.seen.busy = FALSE /\ a \in Newcomers
  BY <1>1 DEF NoPresence
<1>4. e.seen.busy \in BOOLEAN /\ presence[a].busy \in BOOLEAN
  BY <1>1 DEF PresenceRow
<1>5. CASE e.kind \notin Turning
  BY <1>1, <1>2, <1>5 DEF Turning
<1>6. CASE e.kind \in Turning /\ e.seen = NoPresence
  BY <1>1, <1>2, <1>3, <1>6
<1>7. CASE e.kind = "answered" /\ e.seen # NoPresence
  <2>1. presence' = IF e.seen.busy = TRUE THEN presence ELSE [presence EXCEPT ![a].busy = TRUE]
    BY <1>2, <1>7 DEF Turning
  <2>2. QED
    BY <1>1, <1>4, <1>7, <2>1 DEF PresenceRow, Turning
<1>8. CASE e.kind = "ended" /\ e.seen # NoPresence
  <2>1. presence' = IF e.seen.busy = FALSE THEN presence ELSE [presence EXCEPT ![a].busy = FALSE]
    BY <1>2, <1>8 DEF Turning
  <2>2. QED
    BY <1>1, <1>4, <1>8, <2>1 DEF PresenceRow, Turning
<1>9. QED
  BY <1>5, <1>6, <1>7, <1>8 DEF Turning

LEMMA PresenceKeeps ==
    ASSUME VoiceInv, [Next]_vars PROVE PresenceInv'
<1>1. PresenceInv /\ PresenceStep
  BY PresenceSteps DEF VoiceInv
<1>2. CASE presence' = presence
  BY <1>1, <1>2 DEF PresenceInv
<1>3. ASSUME NEW j \in Job, EventCommit(j) PROVE PresenceInv'
  <2>1. presence' \in [Agent -> PresenceRow]
    BY <1>3, Marked
  <2>2. QED
    BY <1>1, <1>3, <2>1, Marked DEF PresenceInv
<1>4. ASSUME NEW a \in Agent, NEW status \in {"available", "offline"},
             presence' = [presence EXCEPT ![a].status = status]
      PROVE  PresenceInv'
  BY <1>1, <1>4 DEF PresenceInv, PresenceRow
<1>5. QED
  BY <1>1, <1>2, <1>3, <1>4 DEF PresenceStep

(* Busy means a call that was answered, by the last word about it.         *)
Answered(a) == \E c \in Call : InCall(a, c) /\ told[c] = "answered"
Ended(a) == \E c \in Call : InCall(a, c) /\ told[c] = "ended"
BusyInv(a) ==
    a \notin crossed =>
       /\ presence[a].busy => Answered(a)
       /\ Answered(a) /\ ~presence[a].busy => Ended(a) \/ a \in Newcomers

LEMMA BusyIs == BusyExplained <=> \A a \in Agent : BusyInv(a)
BY DEF BusyExplained, BusyInv, Answered, Ended

(* The same is said of the calls of an agent as before.                    *)
LEMMA CallsStand ==
    ASSUME NEW a \in Agent, BusyInv(a), crossed \subseteq crossed',
           presence'[a].busy = presence[a].busy,
           \A c \in Call : \/ told'[c] = told[c] /\ (InCall(a, c)' <=> InCall(a, c))
                           \/ told[c] = "nothing" /\ told'[c] = "nothing"
                           \/ ~InCall(a, c) /\ ~InCall(a, c)'
    PROVE  BusyInv(a)'
<1>1. Answered(a)' <=> Answered(a)
  BY DEF Answered
<1>2. Ended(a)' <=> Ended(a)
  BY DEF Ended
<1>3. QED
  BY <1>1, <1>2 DEF BusyInv

LEMMA BusyKeeps ==
    ASSUME VoiceInv, [Next]_vars, NEW a \in Agent PROVE BusyInv(a)'
<1>1. /\ BusyInv(a) /\ CallStep /\ PresenceStep /\ PresenceInv /\ ToldInv
  BY CallSteps, PresenceSteps, BusyIs DEF VoiceInv
<1>2. ASSUME NEW j \in Job, EventCommit(j) PROVE BusyInv(a)'
  <2> DEFINE e == job[j]
             c == e.call
             b == e.row.agent
  <2>1. /\ crossed \subseteq crossed'
        /\ e.kind \in Turning /\ presence[b].busy # e.seen.busy => b \in crossed'
    BY <1>2 DEF EventCommit, Remember
  <2>2. /\ c \in Call /\ b = calls[c].agent /\ calls'[c].agent = b /\ b \in Agent
        /\ calls[c] # NoCall /\ calls'[c] # NoCall
        /\ \A d \in Call \ {c} : calls'[d] = calls[d] /\ told'[d] = told[d]
        /\ told'[c] = IF e.kind \in Turning THEN e.kind ELSE told[c]
    BY <1>2, Reported
  <2>3. CASE a # b
    <3>1. presence'[a].busy = presence[a].busy
      BY <1>2, <2>3, Marked
    <3>2. \A d \in Call : \/ told'[d] = told[d] /\ (InCall(a, d)' <=> InCall(a, d))
                          \/ ~InCall(a, d) /\ ~InCall(a, d)'
      BY <2>2, <2>3 DEF InCall
    <3>3. QED
      BY <1>1, <2>1, <3>1, <3>2, CallsStand
  <2>4. CASE a = b /\ e.kind \notin Turning
    <3>1. presence' = presence
      BY <1>2, <2>4, Marked
    <3>2. \A d \in Call : told'[d] = told[d] /\ (InCall(a, d)' <=> InCall(a, d))
      BY <2>2, <2>4 DEF InCall
    <3>3. QED
      BY <1>1, <2>1, <3>1, <3>2, CallsStand
  <2>5. CASE a = b /\ e.kind \in Turning /\ a \notin crossed'
    <3>1. presence[b].busy = e.seen.busy
      <4>1. b \notin crossed' /\ e.kind \in Turning
        BY <2>5
      <4>2. QED
        BY <2>1, <4>1, Zenon
    <3>2. calls'[c] # NoCall /\ calls'[c].agent = a /\ told'[c] = e.kind
      BY <2>2, <2>5
    <3>3. CASE e.kind = "ended"
      <4>1. ~presence'[b].busy
        BY <1>2, <3>1, <3>3, Marked
      <4>2. Ended(a)'
        BY <2>2, <3>2, <3>3 DEF Ended, InCall
      <4>3. QED
        BY <2>5, <4>1, <4>2 DEF BusyInv
    <3>4. CASE e.kind = "answered"
      <4>1. presence'[b].busy \/ b \in Newcomers
        BY <1>2, <3>1, <3>4, Marked
      <4>2. Answered(a)'
        BY <2>2, <3>2, <3>4 DEF Answered, InCall
      <4>3. QED
        BY <2>5, <4>1, <4>2 DEF BusyInv
    <3>5. QED
      BY <2>5, <3>3, <3>4 DEF Turning
  <2>6. CASE a \in crossed'
    BY <2>6 DEF BusyInv
  <2>7. QED
    BY <2>3, <2>4, <2>5, <2>6
<1>3. CASE \A j \in Job : ~EventCommit(j)
  <2>1. presence'[a].busy = presence[a].busy
    BY <1>1, <1>3 DEF PresenceStep, PresenceInv, PresenceRow
  <2>2. crossed' = crossed /\ told' = told
    BY <1>1, <1>3 DEF CallStep
  <2>3. ASSUME NEW c \in Call
        PROVE  \/ InCall(a, c)' <=> InCall(a, c)
               \/ told[c] = "nothing"
    BY <1>1, <1>3 DEF CallStep, InCall, ToldInv
  <2>4. QED
    BY <1>1, <2>1, <2>2, <2>3, CallsStand
<1>4. QED
  BY <1>2, <1>3

-----------------------------------------------------------------------------
(* What handlers have read *)

LEMMA ReadStays ==
    ASSUME VoiceInv, [Next]_vars, NEW j \in Job, job'[j] = job[j] \/ job'[j] = Idle
    PROVE  ReadInv(j)'
<1>1. ReadInv(j) /\ JobInv(j)
  BY DEF VoiceInv, IInv
<1>2. CASE job'[j] = job[j] /\ job[j].kind \in Reports
  <2>1. job[j].call \in Call /\ calls[job[j].call] # NoCall
    BY <1>1, <1>2 DEF JobInv
  <2>2. QED
    BY <1>1, <1>2, <2>1, CallsStay DEF ReadInv, Reports, Turning
<1>3. CASE job'[j] = job[j] /\ job[j].kind \notin Reports
  BY <1>1, <1>3, QueueGrows DEF ReadInv
<1>4. CASE job'[j] = Idle
  BY <1>4 DEF ReadInv, Idle, Reports, Turning
<1>5. QED
  BY <1>2, <1>3, <1>4

LEMMA ReadKeepsAll ==
    ASSUME VoiceInv, [Next]_vars, NEW i \in Job PROVE ReadInv(i)'
<1>1. /\ DOMAIN job = Job /\ identity \subseteq Agent
      /\ presence \in [Agent -> PresenceRow]
  BY DEF VoiceInv, IInv, Types, PresenceInv
<1>2. ASSUME NEW j \in Job, job' = [job EXCEPT ![j] = Idle] PROVE ReadInv(i)'
  BY <1>1, <1>2, ReadStays
<1>3. ASSUME NEW j \in Job, NEW x, job' = [job EXCEPT ![j] = x], i = j => ReadInv(i)'
      PROVE  ReadInv(i)'
  BY <1>1, <1>3, ReadStays
<1>4. ASSUME NEW j \in Job, NEW c \in Call, RouteRead(j, c) PROVE ReadInv(i)'
  <2> DEFINE k == CallerOf[c]
             picks == Assignee(k) = Nobody /\ SelectAgent # {}
  <2>1. PICK a \in IF picks THEN SelectAgent ELSE {Assignee(k)} :
           job' = [job EXCEPT ![j] = [kind |-> "route", call |-> c, had |-> owner[k],
                                      reopens |-> k \in resolved, picks |-> picks, target |-> a]]
    BY <1>4 DEF RouteRead
  <2>2. picks => a \in Agent
    BY <1>1, <2>1 DEF SelectAgent, Eligible
  <2> HIDE DEF picks
  <2> DEFINE x == [kind |-> "route", call |-> c, had |-> owner[k],
                   reopens |-> k \in resolved, picks |-> picks, target |-> a]
  <2>3. x.kind = "route" /\ x.target = a /\ (x.picks <=> picks)
    OBVIOUS
  <2>4. job' = [job EXCEPT ![j] = x]
    BY <2>1
  <2> HIDE DEF x
  <2>5. job'[j] = x
    BY <1>1, <2>4
  <2>6. ReadInv(j)'
    BY <2>2, <2>3, <2>5 DEF ReadInv, Reports, Turning
  <2>7. QED
    BY <1>3, <2>4, <2>6
<1>5. ASSUME NEW j \in Job, NEW c \in Call, NEW kind \in Reports,
             NEW recorded \in BOOLEAN, EventRead(j, c, kind, recorded)
      PROVE  ReadInv(i)'
  <2> DEFINE x == [kind |-> kind, call |-> c, row |-> calls[c],
                   recorded |-> recorded, seen |-> presence[calls[c].agent]]
  <2>1. /\ calls[c] # NoCall /\ job' = [job EXCEPT ![j] = x] /\ calls' = calls
    BY <1>5 DEF EventRead, committed
  <2>2. x.kind = kind /\ x.call = c /\ x.row = calls[c] /\ x.seen = presence[calls[c].agent]
    OBVIOUS
  <2>3. /\ calls[c] \in CallRow /\ presence[calls[c].agent] \in PresenceRow
        /\ presence[calls[c].agent].status = "absent" => calls[c].agent \in Newcomers
    BY <1>1, <2>1, Rowed DEF VoiceInv, IInv, PresenceInv
  <2> HIDE DEF x
  <2>4. job'[j] = x
    BY <1>1, <2>1
  <2>5. ReadInv(j)'
    BY <2>1, <2>2, <2>3, <2>4 DEF ReadInv, Reports, Turning
  <2>6. QED
    BY <1>3, <2>1, <2>5
<1>6. ASSUME NEW j \in Job, NEW a \in Agent, NEW k \in Caller, DialRead(j, a, k)
      PROVE  ReadInv(i)'
  <2> DEFINE x == [kind |-> "dial", by |-> a, to |-> k, had |-> owner[k]]
  <2>1. job' = [job EXCEPT ![j] = x] /\ x.kind = "dial"
    BY <1>6 DEF DialRead
  <2> HIDE DEF x
  <2>2. ReadInv(j)'
    BY <1>1, <2>1 DEF ReadInv, Reports, Turning
  <2>3. QED
    BY <1>3, <2>1, <2>2
<1>7. ASSUME job' = job PROVE ReadInv(i)'
  BY <1>7, ReadStays
<1>11. ASSUME NEW j \in Job, NEW c \in Call, TranscribeRead(j, c) PROVE ReadInv(i)'
  <2> DEFINE x == [kind |-> "transcribe", call |-> c, row |-> calls[c]]
  <2>1. /\ job' = [job EXCEPT ![j] = x] /\ x.kind = "transcribe" /\ x.call = c
        /\ c \in queued /\ queued' = queued
    BY <1>11 DEF TranscribeRead, committed
  <2> HIDE DEF x
  <2>2. ReadInv(j)'
    BY <1>1, <2>1 DEF ReadInv, Reports, Turning
  <2>3. QED
    BY <1>3, <2>1, <2>2
<1>8. CASE Next
  <2>1. ASSUME NEW j \in Job,
               RouteCommit(j) \/ EventCommit(j) \/ DialCommit(j) \/ TranscribeCommit(j)
        PROVE  ReadInv(i)'
    BY <1>2, <2>1 DEF RouteCommit, EventCommit, DialCommit, TranscribeCommit
  <2>2. ASSUME NEW a \in Agent,
               \/ \E status \in {"available", "offline"} : SetPresence(a, status)
               \/ UpsertIdentity(a) \/ DeleteIdentity(a)
        PROVE  ReadInv(i)'
    BY <1>7, <2>2 DEF SetPresence, UpsertIdentity, DeleteIdentity
  <2>3. ASSUME NEW k \in Caller, Resolve(k) \/ \E a \in Agent \cup {Nobody} : Reassign(k, a)
        PROVE  ReadInv(i)'
    BY <1>7, <2>3 DEF Resolve, Reassign
  <2>4. QED
    BY <1>4, <1>5, <1>6, <1>8, <1>11, <2>1, <2>2, <2>3 DEF Next, Step
<1>9. CASE UNCHANGED vars
  BY <1>7, <1>9 DEF vars
<1>10. QED
  BY <1>8, <1>9

-----------------------------------------------------------------------------
(* Types *)

OtherTypes ==
    /\ resolved \subseteq Caller /\ dialled \subseteq Agent \X Caller
    /\ turns \in Seq(Agent) /\ IsInjective(turns)
    /\ moved \subseteq Caller

LEMMA OtherTypesKeep == ASSUME VoiceInv, [Next]_vars PROVE OtherTypes'
<1> USE DEF OtherTypes
<1>1. OtherTypes /\ \A j \in Job : JobInv(j) /\ ReadInv(j)
  BY DEF VoiceInv, TypeOK, IInv
<1>2. ASSUME UNCHANGED <<resolved, dialled, turns, moved>> PROVE OtherTypes'
  BY <1>1, <1>2
<1>3. ASSUME NEW j \in Job, RouteCommit(j) PROVE OtherTypes'
  <2> DEFINE r == job[j]
             k == CallerOf[r.call]
  <2>1. k \in Caller /\ (r.picks => r.target \in Agent)
    BY <1>1, <1>3, VoiceAssumption DEF RouteCommit, JobInv, ReadInv
  <2>2. /\ moved' \in {moved, moved \cup {k}} /\ resolved' \in {resolved, resolved \ {k}}
        /\ dialled' = dialled
    BY <1>3 DEF RouteCommit, Assign
  <2>3. (r.picks /\ TakeTurn(r.target)) \/ turns' = turns
    BY <1>3 DEF RouteCommit
  <2>4. turns' \in Seq(Agent) /\ IsInjective(turns')
    BY <1>1, <2>1, <2>3, TurnTaken
  <2>5. QED
    BY <1>1, <2>1, <2>2, <2>4
<1>4. ASSUME NEW j \in Job, DialCommit(j) PROVE OtherTypes'
  <2>1. job[j].to \in Caller /\ job[j].by \in Agent
    BY <1>1, <1>4 DEF DialCommit, JobInv
  <2>2. /\ moved' \in {moved, moved \cup {job[j].to}} /\ UNCHANGED <<resolved, turns>>
        /\ dialled' \in {dialled, dialled \cup {<<job[j].by, job[j].to>>}}
    <3>1. CASE <<job[j].by, job[j].to>> \in dialled
      BY <1>4, <3>1 DEF DialCommit
    <3>2. CASE <<job[j].by, job[j].to>> \notin dialled
      BY <1>4, <3>2 DEF DialCommit, Assign
    <3>3. QED
      BY <3>1, <3>2
  <2>3. QED
    BY <1>1, <2>1, <2>2
<1>5. ASSUME NEW k \in Caller, Resolve(k) \/ \E a \in Agent \cup {Nobody} : Reassign(k, a)
      PROVE  OtherTypes'
  BY <1>1, <1>5 DEF Resolve, Reassign, history
<1>6. CASE Next
  <2>1. ASSUME NEW j \in Job, NEW c \in Call, RouteRead(j, c) PROVE OtherTypes'
    BY <1>2, <2>1 DEF RouteRead, committed, history
  <2>2. ASSUME NEW j \in Job, NEW c \in Call, NEW kind \in Reports,
               NEW recorded \in BOOLEAN, EventRead(j, c, kind, recorded)
        PROVE  OtherTypes'
    BY <1>2, <2>2 DEF EventRead, committed, history
  <2>3. ASSUME NEW j \in Job, EventCommit(j) PROVE OtherTypes'
    BY <1>2, <2>3 DEF EventCommit
  <2>4. ASSUME NEW j \in Job, NEW a \in Agent, NEW k \in Caller, DialRead(j, a, k) PROVE OtherTypes'
    BY <1>2, <2>4 DEF DialRead, committed, history
  <2>5. ASSUME NEW a \in Agent,
               \/ \E status \in {"available", "offline"} : SetPresence(a, status)
               \/ UpsertIdentity(a) \/ DeleteIdentity(a)
        PROVE  OtherTypes'
    BY <1>2, <2>5 DEF SetPresence, UpsertIdentity, DeleteIdentity, history
  <2>6. ASSUME NEW j \in Job, TranscribeCommit(j) \/ \E c \in Call : TranscribeRead(j, c)
        PROVE  OtherTypes'
    BY <1>2, <2>6 DEF TranscribeRead, TranscribeCommit, committed, history
  <2>7. QED
    BY <1>3, <1>4, <1>5, <1>6, <2>1, <2>2, <2>3, <2>4, <2>5, <2>6 DEF Next, Step
<1>7. CASE UNCHANGED vars
  BY <1>2, <1>7 DEF vars, committed, history
<1>8. QED
  BY <1>6, <1>7

(* The event of a call that has ended is of a recorded one.                *)
QueueTypes ==
    /\ queued \subseteq {c \in Call : calls[c] # NoCall /\ calls[c].recorded}
    /\ transcribed \subseteq queued
    /\ told \in [Call -> Turning \cup {"nothing"}]
    /\ late \subseteq Call /\ crossed \subseteq Agent \cup Call

LEMMA QueueTypesKeep == ASSUME VoiceInv, [Next]_vars PROVE QueueTypes'
<1>1. QueueTypes /\ CallStep /\ queued \subseteq queued'
  BY CallSteps, QueueGrows DEF VoiceInv, TypeOK, QueueTypes
<1>2. ASSUME NEW c \in queued PROVE c \in Call /\ calls'[c] # NoCall /\ calls'[c].recorded
  <2>1. c \in Call /\ calls[c] # NoCall /\ calls[c].recorded
    BY <1>1 DEF QueueTypes
  <2>2. calls'[c] \in CallRow /\ calls'[c].recorded /\ NoCall \notin CallRow
    BY <2>1, CallsStay DEF NoCall, CallRow
  <2>3. QED
    BY <2>1, <2>2
<1>3. CASE UNCHANGED <<queued, transcribed, told, late, crossed>>
  BY <1>1, <1>2, <1>3 DEF QueueTypes
<1>4. ASSUME NEW j \in Job, EventCommit(j) PROVE QueueTypes'
  <2> DEFINE e == job[j]
  <2>1. /\ queued' = IF e.kind = "ended" /\ (e.recorded \/ e.row.recorded)
                     THEN queued \cup {e.call} ELSE queued
        /\ late' \in {late, late \cup {e.call}}
        /\ crossed' \subseteq crossed \cup {e.row.agent, e.call}
        /\ transcribed' = transcribed
    BY <1>4 DEF EventCommit, Enqueue, Remember
  <2>2. /\ e.call \in Call /\ e.row.agent \in Agent
        /\ told' \in [Call -> Turning \cup {"nothing"}]
    BY <1>4, Reported
  <2>3. e.recorded \/ e.row.recorded => calls'[e.call] # NoCall /\ calls'[e.call].recorded
    BY <1>4, Reported
  <2>4. QED
    BY <1>1, <1>2, <2>1, <2>2, <2>3 DEF QueueTypes
<1>5. ASSUME NEW j \in Job, TranscribeCommit(j) PROVE QueueTypes'
  <2>1. /\ transcribed' \in {transcribed, transcribed \cup {job[j].call}}
        /\ UNCHANGED <<queued, told, late, crossed>>
    BY <1>5, TranscriptWrites DEF VoiceInv, history
  <2>2. job[j].call \in queued
    BY <1>5 DEF VoiceInv, ReadInv, TranscribeCommit
  <2>3. QED
    BY <1>1, <1>2, <2>1, <2>2 DEF QueueTypes
<1>6. QED
  BY <1>1, <1>3, <1>4, <1>5 DEF CallStep

LEMMA VoiceTypesKeep == ASSUME VoiceInv, [Next]_vars PROVE TypeOK'
<1>1. /\ IInv' /\ OtherTypes' /\ QueueTypes' /\ PresenceInv' /\ given' = given /\ given \in Given
  BY NextIInv, OtherTypesKeep, QueueTypesKeep, PresenceKeeps, CallSteps DEF VoiceInv, TypeOK
<1>2. \A j \in Job : job'[j].kind \in {"idle", "route", "dial", "transcribe"} \cup Reports
  BY ReadKeepsAll DEF ReadInv
<1>3. QED
  BY <1>1, <1>2 DEF IInv, Types, Rows, OtherTypes, QueueTypes, PresenceInv, TypeOK

LEMMA InitVoiceInv == ASSUME Init PROVE VoiceInv
<1>1. IInv
  BY InitIInv
<1>2. PresenceInv
  BY DEF Init, PresenceInv, PresenceRow, NoPresence
<1>3. turns \in Seq(Agent) /\ IsInjective(turns)
  BY DEF Init, IsInjective
<1>4. TypeOK
  BY <1>1, <1>2, <1>3 DEF IInv, Types, Rows, PresenceInv, Init, TypeOK, Idle, Reports, Turning
<1>5. \A j \in Job : ReadInv(j)
  BY DEF Init, ReadInv, Idle, Reports, Turning
<1>6. BusyExplained
  BY DEF Init, BusyExplained, InCall, NoPresence
<1>7. RecordingsQueued
  BY DEF Init, RecordingsQueued, NoCall
<1>8. ToldInv
  BY DEF Init, ToldInv
<1>9. QED
  BY <1>1, <1>2, <1>4, <1>5, <1>6, <1>7, <1>8 DEF VoiceInv

LEMMA NextVoiceInv == ASSUME VoiceInv, [Next]_vars PROVE VoiceInv'
<1>1. IInv' /\ TypeOK' /\ PresenceInv' /\ ToldInv' /\ RecordingsQueued'
  BY NextIInv, VoiceTypesKeep, PresenceKeeps, ToldKeeps, RecordingsKeep DEF VoiceInv
<1>2. \A j \in Job : ReadInv(j)'
  BY ReadKeepsAll
<1>3. BusyExplained'
  <2>1. \A a \in Agent : BusyInv(a)'
    BY BusyKeeps
  <2>2. QED
    BY <2>1 DEF BusyExplained, BusyInv, Answered, Ended
<1>4. QED
  BY <1>1, <1>2, <1>3 DEF VoiceInv

(* What handlers have read of calls, agents and turns fits what is there   *)
(* when they commit, in every reachable state.                             *)
THEOREM VoiceInvariance == Spec => []VoiceInv
BY InitVoiceInv, NextVoiceInv, PTL DEF Spec

(* Every variable of the voice handlers has its type: no agent has two     *)
(* turns, and only recorded calls have an event.                           *)
THEOREM TypeCorrect == Spec => []TypeOK
BY VoiceInvariance, PTL DEF VoiceInv

(* An agent is marked as being on a call exactly when the last word about  *)
(* one of his calls is that it was answered, but for the causes named, for *)
(* any calls and any number of reports, recordings and transcriptions at   *)
(* once (voice_hooks.py:337-352, transcription/job.py:58).                 *)
THEOREM BusyReasoned == Spec => []BusyExplained
BY VoiceInvariance, PTL DEF VoiceInv

(* A recorded call that has ended is queued for its transcription, unless  *)
(* the recording came alone after the end or while the end was handled     *)
(* (voice_hooks.py:354).                                                   *)
THEOREM RecordingsKept == Spec => []RecordingsQueued
BY VoiceInvariance, PTL DEF VoiceInv
=============================================================================
