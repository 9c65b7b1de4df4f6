------------------------------ MODULE EmailPoll ------------------------------
(***************************************************************************)
(* Polling one IMAP mailbox (modules/tickets/email_poll.py and             *)
(* ImapSmtpEmailProvider) from several workers that serve email_poll.      *)
(*                                                                         *)
(* A worker reads the mailbox's EmailPollState, claims it with an UPDATE   *)
(* that it commits at once, and only then talks to the server.  The object *)
(* it read is not refreshed: since_uid is the watermark of the reading,    *)
(* not that of the claim.                                                  *)
(*                                                                         *)
(* The tickets and contacts an ingested mail leads to are not modelled     *)
(* here, only the Message row of each and its provider_message_id.         *)
(***************************************************************************)
EXTENDS Naturals, FiniteSetsExt

CONSTANTS
    Worker,        \* workers that serve email_poll
    MaxMail,       \* bound: mails the mailbox receives
    IdOf,          \* uid -> Message-ID of that mail, or NoId
    Own,           \* uids of copies of what the channel itself sent
    Rejected,      \* uids that ingest_inbound_message raises ValueError for
    MaxExpunged,   \* bound: mails deleted from the mailbox
    MaxErrors,     \* bound: fetches that fail
    MaxOmissions,  \* bound: fetches answered without the body of some mail
    MaxAborts,     \* bound: iterations cut short while they poll
    NoId

Uid == 1..MaxMail

ASSUME MailAssumption ==
    /\ {MaxMail, MaxExpunged, MaxErrors, MaxOmissions, MaxAborts} \subseteq Nat
    /\ DOMAIN IdOf = Uid
    /\ Own \cup Rejected \subseteq Uid

VARIABLES
    \* the mail server
    arrived,    \* UIDNEXT - 1: the uids 1..arrived have been given out
    gone,       \* uids deleted from the folder
    \* committed
    status,     \* EmailPollState.status, or "absent" without a row
    lastUid,    \* EmailPollState.last_uid
    resting,    \* last_polled_at is less than the interval ago
    stored,     \* uid -> Message rows made of that mail
    \* worker iterations
    pc,         \* Worker -> where its poll stands
    since,      \* Worker -> state.last_uid as it was read
    batch,      \* Worker -> fetched mails not yet ingested
    mark,       \* Worker -> new_watermark
    \* history
    looked,     \* a poll has taken note of where the mailbox stands
    first,      \* where it stood the first time
    base,       \* the highest watermark set without looking at any mail
    overtaken,  \* one was set by a worker although another had set one
    passed,     \* uids left behind by a watermark, their body not delivered
    omissions, errors, aborts

server == <<arrived, gone>>
mailboxState == <<status, lastUid, resting>>
polls == <<pc, since, batch, mark>>
bearings == <<looked, first, base, overtaken>>
counts == <<omissions, errors, aborts>>
vars == <<server, mailboxState, stored, polls, bearings, passed, counts>>

(* Type invariant. *)
TypeOK ==
    /\ arrived \in 0..MaxMail
    /\ gone \subseteq 1..arrived
    /\ status \in {"absent", "idle", "running", "error"}
    /\ lastUid \in 0..arrived
    /\ resting \in BOOLEAN
    /\ stored \in [Uid -> Nat]
    /\ pc \in [Worker -> {"idle", "insert", "first", "claim", "fetch", "ingest"}]
    /\ since \in [Worker -> 0..arrived]
    /\ batch \in [Worker -> SUBSET (1..arrived)]
    /\ mark \in [Worker -> 0..arrived]
    /\ {looked, overtaken} \subseteq BOOLEAN
    /\ first \in 0..arrived /\ base \in 0..arrived
    /\ passed \subseteq 1..arrived
    /\ omissions \in 0..MaxOmissions
    /\ errors \in 0..MaxErrors /\ aborts \in 0..MaxAborts

Init ==
    /\ arrived \in 0..MaxMail /\ gone = {}
    /\ status = "absent" /\ lastUid = 0 /\ resting = FALSE
    /\ stored = [u \in Uid |-> 0]
    /\ pc = [w \in Worker |-> "idle"]
    /\ since = [w \in Worker |-> 0]
    /\ batch = [w \in Worker |-> {}]
    /\ mark = [w \in Worker |-> 0]
    /\ looked = FALSE /\ first = 0 /\ base = 0 /\ overtaken = FALSE
    /\ passed = {}
    /\ omissions = 0 /\ errors = 0 /\ aborts = 0

-----------------------------------------------------------------------------
(* The world *)

Arrive ==
    /\ arrived < MaxMail
    /\ arrived' = arrived + 1
    /\ UNCHANGED <<gone, mailboxState, stored, polls, bearings, passed, counts>>

Expunge(u) ==
    /\ u <= arrived /\ u \notin gone
    /\ Cardinality(gone) < MaxExpunged
    /\ gone' = gone \cup {u}
    /\ UNCHANGED <<arrived, mailboxState, stored, polls, bearings, passed, counts>>

IntervalElapses ==
    /\ resting
    /\ resting' = FALSE
    /\ UNCHANGED <<server, status, lastUid, stored, polls, bearings, passed, counts>>

-----------------------------------------------------------------------------
(* poll_one_email_account *)

(* Without a row the worker goes on to insert one; a row that is running,  *)
(* or was polled less than the interval ago, is left alone.                *)
ReadState(w) ==
    /\ pc[w] = "idle"
    /\ status # "running" /\ ~resting
    /\ pc' = [pc EXCEPT ![w] = IF status = "absent" THEN "insert" ELSE "claim"]
    /\ since' = [since EXCEPT ![w] = lastUid]
    /\ UNCHANGED <<server, mailboxState, stored, batch, mark, bearings, passed, counts>>

(* An insert of the same key waits for one that is not committed yet.      *)
InsertState(w) ==
    /\ pc[w] = "insert"
    /\ status = "absent"
    /\ \A v \in Worker : pc[v] # "first"
    /\ pc' = [pc EXCEPT ![w] = "first"]
    /\ UNCHANGED <<server, mailboxState, stored, since, batch, mark, bearings, passed, counts>>

Leave(w) ==
    /\ pc' = [pc EXCEPT ![w] = "idle"]
    /\ since' = [since EXCEPT ![w] = 0]
    /\ batch' = [batch EXCEPT ![w] = {}]
    /\ mark' = [mark EXCEPT ![w] = 0]

(* begin_nested flushes the row, pending since it was added, before it     *)
(* sets the savepoint (short_id.py:67-73 tells why that matters): the      *)
(* failure undoes the whole transaction, and the next query ends the       *)
(* iteration.                                                              *)
InsertClash(w) ==
    /\ pc[w] = "insert"
    /\ status # "absent"
    /\ Leave(w)
    /\ UNCHANGED <<server, mailboxState, stored, bearings, passed, counts>>

(* Mutant: the claim trusts what ReadState saw.                            *)
ClaimBlindly(w) ==
    /\ pc[w] \in {"first", "claim"}
    /\ status' = "running"
    /\ pc' = [pc EXCEPT ![w] = "fetch"]
    /\ UNCHANGED <<server, lastUid, resting, stored, since, batch, mark, bearings, passed, counts>>

(* Whoever inserted the row claims it in the same transaction; anybody     *)
(* else needs it not to be running by now.                                 *)
Claim(w) ==
    /\ pc[w] \in {"first", "claim"}
    /\ status # "running"
    /\ status' = "running"
    /\ pc' = [pc EXCEPT ![w] = "fetch"]
    /\ UNCHANGED <<server, lastUid, resting, stored, since, batch, mark, bearings, passed, counts>>

ClaimLost(w) ==
    /\ pc[w] = "claim"
    /\ status = "running"
    /\ Leave(w)
    /\ UNCHANGED <<server, mailboxState, stored, bearings, passed, counts>>

(* Mutant: a poll that failed does not give the mailbox back.              *)
FetchFailsClaimed(w) ==
    /\ pc[w] = "fetch"
    /\ errors < MaxErrors
    /\ errors' = errors + 1
    /\ resting' = TRUE
    /\ Leave(w)
    /\ UNCHANGED <<server, lastUid, status, stored, bearings, passed, omissions,
                   aborts>>

(* The connector is not configured, or the server cannot be reached.       *)
FetchFails(w) ==
    /\ pc[w] = "fetch"
    /\ errors < MaxErrors
    /\ errors' = errors + 1
    /\ status' = "error"
    /\ resting' = TRUE
    /\ Leave(w)
    /\ UNCHANGED <<server, lastUid, stored, bearings, passed, omissions, aborts>>

(* No watermark: the poll only takes note of where the mailbox stands.  A  *)
(* watermark of 0 reads the same: the mailbox was empty.                   *)
Baseline(w) ==
    /\ pc[w] = "fetch"
    /\ since[w] = 0
    /\ mark' = [mark EXCEPT ![w] = arrived]
    /\ pc' = [pc EXCEPT ![w] = "ingest"]
    /\ looked' = TRUE
    /\ first' = IF looked THEN first ELSE arrived
    /\ base' = arrived
    /\ overtaken' = (overtaken \/ lastUid # 0)
    /\ UNCHANGED <<server, mailboxState, stored, since, batch, passed, counts>>

(* A mail whose body the server does not deliver is skipped: it is fetched *)
(* again, unless the body of a later one moves the watermark past it.      *)
FetchNew(w) ==
    /\ pc[w] = "fetch"
    /\ since[w] > 0
    /\ \E omitted \in SUBSET {u \in 1..arrived \ gone : u > since[w]} :
         LET new == {u \in 1..arrived \ gone : u > since[w]} \ omitted
         IN /\ \/ omitted = {} /\ omissions' = omissions
               \/ omissions < MaxOmissions /\ omissions' = omissions + 1
            /\ batch' = [batch EXCEPT ![w] = new]
            /\ mark' = [mark EXCEPT ![w] = Max(new \cup {since[w]})]
            /\ passed' = passed \cup {u \in omitted : u < Max(new \cup {since[w]})}
    /\ pc' = [pc EXCEPT ![w] = "ingest"]
    /\ UNCHANGED <<server, mailboxState, stored, since, bearings, errors, aborts>>

SameId(u, v) == u = v \/ (IdOf[u] # NoId /\ IdOf[u] = IdOf[v])

(* Mutant: no message is looked for.                                       *)
DuplicateNever(u) == FALSE

Duplicate(u) == IdOf[u] # NoId /\ \E v \in Uid : SameId(u, v) /\ stored[v] > 0

(* One round of the loop; ingest_inbound_message commits its own row.      *)
IngestNext(w, u) ==
    /\ pc[w] = "ingest"
    /\ u \in batch[w]
    /\ batch' = [batch EXCEPT ![w] = @ \ {u}]
    /\ stored' = IF u \in Own \cup Rejected \/ Duplicate(u)
                 THEN stored
                 ELSE [stored EXCEPT ![u] = @ + 1]
    /\ UNCHANGED <<server, mailboxState, pc, since, mark, bearings, passed, counts>>

(* Mutant: the poll is over before the last mail is ingested.              *)
FinishPollEarly(w) ==
    /\ pc[w] = "ingest" /\ Cardinality(batch[w]) <= 1
    /\ lastUid' = IF mark[w] = since[w] THEN lastUid ELSE mark[w]
    /\ status' = "idle"
    /\ resting' = TRUE
    /\ Leave(w)
    /\ UNCHANGED <<server, stored, bearings, passed, counts>>

(* Mutant: the watermark is the number of the next mail.                   *)
FinishPollAhead(w) ==
    /\ pc[w] = "ingest" /\ batch[w] = {}
    /\ lastUid' = IF mark[w] = since[w] THEN lastUid ELSE mark[w] + 1
    /\ status' = "idle"
    /\ resting' = TRUE
    /\ Leave(w)
    /\ UNCHANGED <<server, stored, bearings, passed, counts>>

(* last_uid is written only if it differs from the one that was read.      *)
FinishPoll(w) ==
    /\ pc[w] = "ingest" /\ batch[w] = {}
    /\ lastUid' = IF mark[w] = since[w] THEN lastUid ELSE mark[w]
    /\ status' = "idle"
    /\ resting' = TRUE
    /\ Leave(w)
    /\ UNCHANGED <<server, stored, bearings, passed, counts>>

(* The process dies, or ingesting raises something else than ValueError.   *)
Abandon(w) ==
    /\ pc[w] # "idle"
    /\ aborts < MaxAborts
    /\ aborts' = aborts + 1
    /\ Leave(w)
    /\ UNCHANGED <<server, mailboxState, stored, bearings, passed, omissions,
                   errors>>

Poll(w) ==
    \/ ReadState(w) \/ InsertState(w) \/ InsertClash(w)
    \/ Claim(w) \/ ClaimLost(w)
    \/ FetchFails(w) \/ Baseline(w) \/ FetchNew(w)
    \/ \E u \in Uid : IngestNext(w, u)
    \/ FinishPoll(w)

Next ==
    \/ Arrive \/ IntervalElapses
    \/ \E u \in Uid : Expunge(u)
    \/ \E w \in Worker : Poll(w) \/ Abandon(w)

Spec == Init /\ [][Next]_vars

(* Time passes and the worker loops go on.                                 *)
FairSpec ==
    /\ Spec
    /\ WF_vars(IntervalElapses)
    /\ \A w \in Worker : WF_vars(Poll(w))

-----------------------------------------------------------------------------
(* Properties *)

Polling(w) == pc[w] \in {"fetch", "ingest"}

(* Only one worker talks to the server, and the row says so: the guarantee *)
(* of the conditional UPDATE (email_poll.py:79-82).                        *)
OnePoller ==
    \A w \in Worker : Polling(w) =>
       /\ status = "running"
       /\ \A v \in Worker \ {w} : ~Polling(v)

(* A mail becomes one message, whatever stale watermark it is fetched from *)
(* again and however many copies of it the mailbox holds, if it carries a  *)
(* Message-ID (inbound.py:338-348).                                        *)
OneMessagePerId ==
    \A u \in Uid : IdOf[u] # NoId =>
       /\ stored[u] <= 1
       /\ \A v \in Uid \ {u} : SameId(u, v) => stored[u] + stored[v] <= 1

(* What became of a mail the mailbox has passed on. *)
Answered(u) ==
    u \in Own \cup Rejected \/ \E v \in Uid : SameId(u, v) /\ stored[v] > 0

(* Mail a second baseline was set over: the first one found the mailbox    *)
(* empty, or two workers had read a mailbox without a watermark.           *)
Overlooked(u) == u <= base /\ (first = 0 \/ overtaken)

AccountedFor(u) ==
    \/ Answered(u) \/ u \in gone
    \/ u <= first
    \/ u \in passed
    \/ Overlooked(u)

(* The watermark passes no mail but one that was ingested, deleted, in the *)
(* mailbox before the first poll, passed by a later mail while its body    *)
(* was missing (imap_smtp.py:132-137), or caught between two baselines.    *)
(* The last is lost although nothing failed (email_poll.py:103).           *)
MailAccountedFor == \A u \in 1..lastUid : AccountedFor(u)

(* What a worker has fetched but not ingested is all that is missing up to *)
(* the watermark it is about to set.                                       *)
BatchIsWhatIsMissing ==
    \A w \in Worker :
       /\ \A u \in 1..since[w] : AccountedFor(u)
       /\ pc[w] = "ingest" =>
             \A u \in 1..mark[w] : u \in batch[w] \/ AccountedFor(u)

(* A second baseline is set only by a worker that found no watermark:     *)
(* none was needed, or there was one by the time it looked.                *)
BaselinesKnown ==
    /\ ~looked => base = 0 /\ first = 0
    /\ first <= base
    /\ base > first => first = 0 \/ overtaken
    /\ first > 0 /\ lastUid = 0 =>
          /\ status = "running"
          /\ \A w \in Worker : Polling(w) => pc[w] = "ingest" /\ mark[w] > 0
    /\ lastUid > 0 => looked
    /\ \A w \in Worker : since[w] > 0 => lastUid > 0
    /\ \A w \in Worker : pc[w] = "ingest" => looked /\ mark[w] >= since[w]

(* The inductive invariant: the properties above, together.                *)
IInv ==
    /\ TypeOK
    /\ OnePoller
    /\ OneMessagePerId
    /\ MailAccountedFor
    /\ BatchIsWhatIsMissing
    /\ BaselinesKnown

(* Every mail is dealt with in the end, but for those MailAccountedFor     *)
(* excuses: neither a failing fetch nor a body that was missing when the   *)
(* newest mail was fetched nor a race of workers keeps a mailbox from      *)
(* being polled to its end.  Only a poll that was cut short does, for ever *)
(* (email_poll.py:79-112).                                                 *)
MailIsDealtWith ==
    \A u \in Uid : arrived >= u ~> AccountedFor(u) \/ aborts > 0
=============================================================================
