-------------------------- MODULE EmailPollProofs --------------------------
(***************************************************************************)
(* Proofs about the mail poll, for any number of workers, any mailbox and  *)
(* any bounds on what may go wrong.                                        *)
(***************************************************************************)
EXTENDS EmailPoll, WellFoundedInduction, TLAPS

(* A set of numbers with an upper bound has a greatest element, and Max    *)
(* returns it: the numbers' distances from the bound have a least one.     *)
LEMMA MaxOfBounded ==
    ASSUME NEW n \in Nat, NEW S \in SUBSET (0..n), S # {}
    PROVE  Max(S) \in S /\ \A x \in S : x <= Max(S)
<1> DEFINE T == {k \in Nat : n - k \in S}
<1>1. T \subseteq Nat /\ T # {}
  <2>1. PICK x \in S : TRUE
    OBVIOUS
  <2>2. n - x \in Nat /\ n - (n - x) = x
    BY <2>1
  <2>3. QED
    BY <2>1, <2>2
<1>2. PICK k \in T : \A j \in T : ~(<<j, k>> \in OpToRel(<, Nat))
  BY <1>1, NatLessThanWellFounded, WFMin, Zenon
<1>3. \A j \in T : ~(j < k)
  BY <1>1, <1>2 DEF OpToRel
<1>4. n - k \in S /\ \A x \in S : n - k >= x
  <2>1. SUFFICES ASSUME NEW x \in S PROVE n - k >= x
    OBVIOUS
  <2>2. n - x \in T
    BY <2>1
  <2>3. k \in Nat /\ x \in Nat
    OBVIOUS
  <2>4. ~(n - x < k)
    BY <1>3, <2>2
  <2>5. QED
    BY <2>3, <2>4
<1>5. Max(S) \in S /\ \A x \in S : Max(S) >= x
  BY <1>4 DEF Max
<1>6. QED
  BY <1>5

-----------------------------------------------------------------------------
(* Type correctness *)

(* Uids and bounds are natural numbers. *)
LEMMA Bounds ==
    {MaxMail, MaxExpunged, MaxErrors, MaxOmissions, MaxAborts} \subseteq Nat
  BY MailAssumption

(* A fetch takes the maximum of numbers up to UIDNEXT - 1. *)
LEMMA FetchRange ==
    ASSUME NEW a \in Nat, NEW s \in 0..a, NEW new \in SUBSET (1..a)
    PROVE  new \cup {s} \in SUBSET (0..a)
OBVIOUS

(* The watermark of a fetch is one of the uids given out. *)
LEMMA NewWatermark ==
    ASSUME NEW a \in Nat, NEW s \in 0..a, NEW new \in SUBSET (1..a)
    PROVE  Max(new \cup {s}) \in 0..a
<1>1. new \cup {s} \in SUBSET (0..a)
  BY FetchRange
<1>2. QED
  BY <1>1, MaxOfBounded

(* What a fetch returns: all mail there is above the watermark it started  *)
(* from, but for mail without a body; and the watermark it will set leaves *)
(* none of that behind without a note.                                     *)
LEMMA FetchedMail ==
    ASSUME NEW w \in Worker, FetchNew(w)
    PROVE  \E new \in SUBSET (1..arrived) :
              /\ batch' = [batch EXCEPT ![w] = new]
              /\ mark' = [mark EXCEPT ![w] = Max(new \cup {since[w]})]
              /\ \A u \in 1..arrived \ gone :
                    u > since[w] /\ u < Max(new \cup {since[w]}) =>
                       u \in new \/ u \in passed'
              /\ passed \subseteq passed'
              /\ \/ omissions' = omissions
                 \/ omissions < MaxOmissions /\ omissions' = omissions + 1
<1> DEFINE above == {u \in 1..arrived \ gone : u > since[w]}
<1>1. PICK omitted \in SUBSET above :
         /\ batch' = [batch EXCEPT ![w] = above \ omitted]
         /\ mark' = [mark EXCEPT ![w] = Max((above \ omitted) \cup {since[w]})]
         /\ passed' = passed \cup
                {u \in omitted : u < Max((above \ omitted) \cup {since[w]})}
         /\ \/ omissions' = omissions
            \/ omissions < MaxOmissions /\ omissions' = omissions + 1
  BY DEF FetchNew
<1>2. WITNESS above \ omitted \in SUBSET (1..arrived)
<1>3. QED
  BY <1>1

(* The world keeps the types: uids given out stay within bounds. *)
LEMMA WorldKeepsType ==
    ASSUME TypeOK, Arrive \/ IntervalElapses \/ \E u \in Uid : Expunge(u)
    PROVE  TypeOK'
<1> USE Bounds DEF TypeOK, mailboxState, polls, bearings, counts
<1>1. CASE Arrive
  <2>1. 0..arrived \subseteq 0..arrived' /\ 1..arrived \subseteq 1..arrived'
    BY <1>1 DEF Arrive
  <2>2. /\ since' \in [Worker -> 0..arrived'] /\ mark' \in [Worker -> 0..arrived']
        /\ batch' \in [Worker -> SUBSET (1..arrived')]
    BY <1>1, <2>1 DEF Arrive
  <2>3. QED
    BY <1>1, <2>1, <2>2 DEF Arrive
<1>2. CASE IntervalElapses
  BY <1>2 DEF IntervalElapses, server
<1>3. CASE \E u \in Uid : Expunge(u)
  BY <1>3 DEF Expunge, Uid
<1>4. QED
  BY <1>1, <1>2, <1>3

(* So does every step of a poll. *)
LEMMA PollKeepsType ==
    ASSUME TypeOK, NEW w \in Worker, Poll(w) \/ Abandon(w)
    PROVE  TypeOK'
<1> USE Bounds DEF TypeOK, server, mailboxState, polls, bearings, counts
<1>1. CASE ReadState(w)
  BY <1>1 DEF ReadState
<1>2. CASE InsertState(w)
  BY <1>2 DEF InsertState
<1>3. CASE InsertClash(w)
  BY <1>3 DEF InsertClash, Leave
<1>4. CASE Claim(w)
  BY <1>4 DEF Claim
<1>5. CASE ClaimLost(w)
  BY <1>5 DEF ClaimLost, Leave
<1>6. CASE FetchFails(w)
  BY <1>6 DEF FetchFails, Leave
<1>7. CASE Baseline(w)
  BY <1>7 DEF Baseline
<1>8. CASE FetchNew(w)
  <2>1. PICK new \in SUBSET (1..arrived) :
           /\ batch' = [batch EXCEPT ![w] = new]
           /\ mark' = [mark EXCEPT ![w] = Max(new \cup {since[w]})]
    BY <1>8, FetchedMail
  <2>2. Max(new \cup {since[w]}) \in 0..arrived
    <3>1. arrived \in Nat /\ since[w] \in 0..arrived
      OBVIOUS
    <3>2. QED
      BY <3>1, NewWatermark
  <2>3. batch' \in [Worker -> SUBSET (1..arrived)] /\ mark' \in [Worker -> 0..arrived]
    BY <2>1, <2>2
  <2>4. passed' \subseteq 1..arrived /\ omissions' \in 0..MaxOmissions
    <3>1. passed' \subseteq 1..arrived
      BY <1>8 DEF FetchNew
    <3>2. \/ omissions' = omissions
          \/ omissions < MaxOmissions /\ omissions' = omissions + 1
      BY <1>8, FetchedMail
    <3>3. QED
      BY <3>1, <3>2
  <2>5. QED
    BY <1>8, <2>3, <2>4 DEF FetchNew
<1>9. CASE \E u \in Uid : IngestNext(w, u)
  BY <1>9 DEF IngestNext
<1>10. CASE FinishPoll(w)
  BY <1>10 DEF FinishPoll, Leave
<1>11. CASE Abandon(w)
  BY <1>11 DEF Abandon, Leave
<1>12. QED
  BY <1>1, <1>2, <1>3, <1>4, <1>5, <1>6, <1>7, <1>8, <1>9, <1>10, <1>11 DEF Poll

-----------------------------------------------------------------------------
(* The conditional UPDATE excludes all but one worker: a worker can only   *)
(* claim a row that is not running, and only the worker polling makes it   *)
(* something else.                                                         *)
LEMMA OnePollerKept ==
    ASSUME TypeOK, OnePoller, [Next]_vars
    PROVE  OnePoller'
<1> USE DEF TypeOK, OnePoller, Polling, server, mailboxState, polls
<1>1. CASE Arrive \/ IntervalElapses \/ \E u \in Uid : Expunge(u)
  BY <1>1 DEF Arrive, IntervalElapses, Expunge
<1>2. ASSUME NEW w \in Worker, Poll(w) \/ Abandon(w)
      PROVE  OnePoller'
  <2>1. CASE ReadState(w) \/ InsertState(w)
    BY <2>1 DEF ReadState, InsertState
  <2>2. CASE InsertClash(w) \/ ClaimLost(w) \/ Abandon(w)
    BY <2>2 DEF InsertClash, ClaimLost, Abandon, Leave
  <2>3. CASE Claim(w)
    BY <2>3 DEF Claim
  <2>4. CASE FetchFails(w)
    BY <2>4 DEF FetchFails, Leave
  <2>5. CASE Baseline(w) \/ FetchNew(w)
    BY <2>5 DEF Baseline, FetchNew
  <2>6. CASE \E u \in Uid : IngestNext(w, u)
    BY <2>6 DEF IngestNext
  <2>7. CASE FinishPoll(w)
    BY <2>7 DEF FinishPoll, Leave
  <2>8. QED
    BY <1>2, <2>1, <2>2, <2>3, <2>4, <2>5, <2>6, <2>7 DEF Poll
<1>3. CASE UNCHANGED vars
  BY <1>3 DEF vars
<1>4. QED
  BY <1>1, <1>2, <1>3 DEF Next

-----------------------------------------------------------------------------
(* A mail with a Message-ID is stored only while no mail of that ID is.    *)
LEMMA OneMessagePerIdKept ==
    ASSUME TypeOK, OneMessagePerId, [Next]_vars
    PROVE  OneMessagePerId'
<1> USE DEF TypeOK, OneMessagePerId, SameId
<1>1. CASE UNCHANGED stored
  BY <1>1
<1>2. ASSUME NEW w \in Worker, NEW m \in Uid, IngestNext(w, m)
      PROVE  OneMessagePerId'
  <2>1. CASE stored' = stored
    BY <2>1
  <2>2. CASE stored' # stored
    <3>1. ~Duplicate(m) /\ stored' = [stored EXCEPT ![m] = @ + 1]
      BY <1>2, <2>2 DEF IngestNext
    <3>2. IdOf[m] # NoId => \A v \in Uid : SameId(m, v) => stored[v] = 0
      BY <3>1 DEF Duplicate
    <3>3. QED
      BY <3>1, <3>2
  <2>3. QED
    BY <2>1, <2>2
<1>3. UNCHANGED stored \/ \E w \in Worker, m \in Uid : IngestNext(w, m)
  BY DEF Next, Poll, Arrive, IntervalElapses, Expunge, ReadState, InsertState,
         InsertClash, Claim, ClaimLost, FetchFails, Baseline, FetchNew,
         FinishPoll, Abandon, vars
<1>4. QED
  BY <1>1, <1>2, <1>3

-----------------------------------------------------------------------------
(* Nothing that happened to a mail is taken back. *)
LEMMA HistoryGrows ==
    ASSUME TypeOK, [Next]_vars
    PROVE  /\ \A u \in Uid : stored'[u] >= stored[u]
           /\ gone \subseteq gone' /\ passed \subseteq passed'
           /\ base' >= base /\ (overtaken => overtaken')
<1> USE DEF TypeOK, server, bearings
<1>1. CASE Arrive \/ IntervalElapses \/ \E u \in Uid : Expunge(u)
  BY <1>1 DEF Arrive, IntervalElapses, Expunge
<1>2. ASSUME NEW w \in Worker, Poll(w) \/ Abandon(w)
      PROVE  /\ \A u \in Uid : stored'[u] >= stored[u]
             /\ gone \subseteq gone' /\ passed \subseteq passed'
             /\ base' >= base /\ (overtaken => overtaken')
  <2>1. CASE \E u \in Uid : IngestNext(w, u)
    BY <2>1 DEF IngestNext
  <2>2. CASE Baseline(w)
    BY <2>2 DEF Baseline
  <2>3. CASE FetchNew(w)
    BY <2>3, FetchedMail DEF FetchNew
  <2>4. CASE UNCHANGED <<stored, gone, passed, base, overtaken>>
    BY <2>4
  <2>5. QED
    BY <1>2, <2>1, <2>2, <2>3, <2>4 DEF Poll, ReadState, InsertState, InsertClash,
       Claim, ClaimLost, FetchFails, FinishPoll, Abandon
<1>3. CASE UNCHANGED vars
  BY <1>3 DEF vars
<1>4. QED
  BY <1>1, <1>2, <1>3 DEF Next

(* Where the mailbox stood at first is noted once: before it is, nobody    *)
(* has set a baseline.                                                     *)
LEMMA FirstStays ==
    ASSUME TypeOK, BaselinesKnown, [Next]_vars
    PROVE  looked => first' = first
BY DEF Next, Poll, Arrive, IntervalElapses, Expunge, ReadState, InsertState,
       InsertClash, Claim, ClaimLost, FetchFails, Baseline, FetchNew, IngestNext,
       FinishPoll, Abandon, vars, bearings

LEMMA AccountedForStays ==
    ASSUME TypeOK, TypeOK', BaselinesKnown, [Next]_vars,
           NEW u \in Uid, AccountedFor(u)
    PROVE  AccountedFor(u)'
<1>1. /\ \A v \in Uid : stored'[v] >= stored[v]
      /\ gone \subseteq gone' /\ passed \subseteq passed'
      /\ base' >= base /\ (overtaken => overtaken')
  BY HistoryGrows
<1>2. /\ stored \in [Uid -> Nat] /\ stored' \in [Uid -> Nat]
      /\ base \in Nat /\ base' \in Nat /\ u \in Nat /\ u > 0
      /\ first \in Nat /\ first' \in Nat
  <2>1. MaxMail \in Nat /\ arrived \in 0..MaxMail /\ arrived' \in 0..MaxMail
    BY Bounds DEF TypeOK
  <2>2. first \in 0..arrived /\ first' \in 0..arrived' /\ base \in 0..arrived
        /\ base' \in 0..arrived'
    BY DEF TypeOK
  <2>3. stored \in [Uid -> Nat] /\ stored' \in [Uid -> Nat]
    BY DEF TypeOK
  <2>4. QED
    BY <2>1, <2>2, <2>3 DEF Uid
<1>3. CASE Answered(u)
  BY <1>1, <1>2, <1>3 DEF AccountedFor, Answered, SameId
<1>4. CASE u \in gone \/ u \in passed
  BY <1>1, <1>4 DEF AccountedFor
<1>5. CASE u <= first \/ Overlooked(u)
  <2>1. looked
    BY <1>2, <1>5 DEF BaselinesKnown, Overlooked
  <2>2. first' = first
    BY <2>1, FirstStays
  <2>3. QED
    BY <1>1, <1>2, <1>5, <2>2 DEF AccountedFor, Overlooked
<1>6. QED
  BY <1>3, <1>4, <1>5 DEF AccountedFor

(* The mail a round of the loop takes is accounted for afterwards. *)
LEMMA IngestAccounts ==
    ASSUME TypeOK, NEW w \in Worker, NEW u \in Uid, IngestNext(w, u)
    PROVE  AccountedFor(u)'
<1> USE DEF TypeOK, AccountedFor, Answered, SameId
<1>1. CASE u \in Own \cup Rejected
  BY <1>1
<1>2. CASE u \notin Own \cup Rejected /\ Duplicate(u)
  BY <1>2 DEF IngestNext, Duplicate
<1>3. CASE u \notin Own \cup Rejected /\ ~Duplicate(u)
  <2>1. stored' = [stored EXCEPT ![u] = @ + 1]
    BY <1>3 DEF IngestNext
  <2>2. stored'[u] > 0
    BY <2>1
  <2>3. QED
    BY <2>2
<1>4. QED
  BY <1>1, <1>2, <1>3

-----------------------------------------------------------------------------
(* The baselines.  Until the worker that sets the first one is through,    *)
(* nobody else polls; so a second one is set by somebody who read no       *)
(* watermark, because it was 0 or because he read it before.               *)
LEMMA BaselinesKept ==
    ASSUME TypeOK, TypeOK', OnePoller, BaselinesKnown, [Next]_vars
    PROVE  BaselinesKnown'
<1> USE DEF TypeOK, BaselinesKnown, Polling, server, mailboxState, polls, bearings
<1>1. CASE Arrive \/ IntervalElapses \/ \E u \in Uid : Expunge(u)
  BY <1>1 DEF Arrive, IntervalElapses, Expunge
<1>2. ASSUME NEW w \in Worker, Poll(w) \/ Abandon(w)
      PROVE  BaselinesKnown'
  <2>1. CASE ReadState(w) \/ InsertState(w)
    BY <2>1 DEF ReadState, InsertState
  <2>2. CASE InsertClash(w) \/ ClaimLost(w) \/ Abandon(w)
    BY <2>2 DEF InsertClash, ClaimLost, Abandon, Leave
  <2>3. CASE Claim(w)
    BY <2>3 DEF Claim
  <2>4. CASE FetchFails(w)
    BY <2>4 DEF FetchFails, Leave
  <2>5. CASE Baseline(w)
    <3>1. \A v \in Worker : Polling(v) => v = w
      BY <2>5 DEF Baseline, OnePoller
    <3>2. first > 0 => lastUid # 0
      BY <2>5 DEF Baseline
    <3>3. status = "running"
      BY <2>5 DEF Baseline, OnePoller
    <3>4. QED
      BY <2>5, <3>1, <3>2, <3>3 DEF Baseline
  <2>6. CASE FetchNew(w)
    <3>1. lastUid > 0
      BY <2>6 DEF FetchNew
    <3>2. /\ lastUid' = lastUid /\ since' = since /\ status' = status
          /\ looked' = looked /\ first' = first /\ base' = base
          /\ overtaken' = overtaken /\ pc' = [pc EXCEPT ![w] = "ingest"]
      BY <2>6 DEF FetchNew
    <3>3. PICK new \in SUBSET (1..arrived) :
             mark' = [mark EXCEPT ![w] = Max(new \cup {since[w]})]
      BY <2>6, FetchedMail
    <3>4. Max(new \cup {since[w]}) >= since[w]
      <4>1. arrived \in Nat /\ since[w] \in 0..arrived
        <5>1. MaxMail \in Nat /\ arrived \in 0..MaxMail
          BY ONLY Bounds, TypeOK DEF TypeOK
        <5>2. QED
          BY <5>1
      <4>2. new \cup {since[w]} \in SUBSET (0..arrived)
        BY <4>1, FetchRange
      <4>3. QED
        BY <4>1, <4>2, MaxOfBounded
    <3>5. mark' = [mark EXCEPT ![w] = mark'[w]] /\ mark'[w] >= since[w]
      BY <3>3, <3>4
    <3>6. looked
      BY <3>1
    <3> HIDE DEF TypeOK, OnePoller
    <3>7. since \in [Worker -> 0..arrived] /\ mark \in [Worker -> 0..arrived]
          /\ pc \in [Worker -> {"idle", "insert", "first", "claim", "fetch", "ingest"}]
      BY DEF TypeOK
    <3>8. \A v \in Worker : pc'[v] = "ingest" => mark'[v] >= since'[v]
      BY <3>2, <3>5, <3>7
    <3>9. QED
      BY <3>1, <3>2, <3>6, <3>8
  <2>7. CASE \E u \in Uid : IngestNext(w, u)
    BY <2>7 DEF IngestNext
  <2>8. CASE FinishPoll(w)
    <3>1. lastUid' \in {lastUid, mark[w]} /\ (lastUid > 0 => lastUid' > 0)
      <4>1. mark[w] \in Nat /\ since[w] \in Nat /\ lastUid \in Nat
        OBVIOUS
      <4>2. mark[w] >= since[w]
        BY <2>8 DEF FinishPoll
      <4>3. lastUid' = IF mark[w] = since[w] THEN lastUid ELSE mark[w]
        BY <2>8 DEF FinishPoll
      <4>4. QED
        BY ONLY <4>1, <4>2, <4>3
    <3>2. first > 0 => lastUid' > 0
      BY <2>8, <3>1 DEF FinishPoll
    <3>3. /\ pc' = [pc EXCEPT ![w] = "idle"] /\ since' = [since EXCEPT ![w] = 0]
          /\ mark' = [mark EXCEPT ![w] = 0]
          /\ looked' = looked /\ first' = first /\ base' = base
          /\ overtaken' = overtaken /\ looked
      BY <2>8 DEF FinishPoll, Leave
    <3>4. \A v \in Worker : pc'[v] = "ingest" => v # w /\ mark'[v] >= since'[v]
      BY <2>8, <3>3
    <3>5. \A v \in Worker : since'[v] > 0 => lastUid' > 0
      BY <3>1, <3>3
    <3> HIDE DEF TypeOK, OnePoller
    <3>6. lastUid' \in Nat /\ first \in Nat
      BY DEF TypeOK
    <3>7. QED
      BY <3>2, <3>3, <3>4, <3>5, <3>6
  <2>9. QED
    BY <1>2, <2>1, <2>2, <2>3, <2>4, <2>5, <2>6, <2>7, <2>8 DEF Poll
<1>3. CASE UNCHANGED vars
  BY <1>3 DEF vars
<1>4. QED
  BY <1>1, <1>2, <1>3 DEF Next

-----------------------------------------------------------------------------
(* The watermark.  While a poll is under way, all that is missing below    *)
(* the watermark it will set is in its batch; so when the batch is empty,  *)
(* nothing is missing.                                                     *)
LEMMA WatermarkKept ==
    ASSUME TypeOK, TypeOK', MailAccountedFor, BatchIsWhatIsMissing,
           BaselinesKnown, BaselinesKnown', [Next]_vars
    PROVE  MailAccountedFor' /\ BatchIsWhatIsMissing'
<1>1. \A u \in Uid : AccountedFor(u) => AccountedFor(u)'
  BY AccountedForStays
<1>2. \A n \in 0..arrived : 1..n \subseteq Uid
  <2>1. MaxMail \in Nat /\ arrived \in 0..MaxMail
    BY Bounds DEF TypeOK
  <2>2. QED
    BY <2>1 DEF Uid
<1>3. /\ lastUid \in 0..arrived
      /\ since \in [Worker -> 0..arrived] /\ mark \in [Worker -> 0..arrived]
      /\ batch \in [Worker -> SUBSET (1..arrived)]
      /\ pc \in [Worker -> {"idle", "insert", "first", "claim", "fetch", "ingest"}]
  BY DEF TypeOK
<1> USE DEF MailAccountedFor, BatchIsWhatIsMissing
<1>4. \A u \in 1..lastUid : AccountedFor(u)'
  BY <1>1, <1>2, <1>3
<1>5. \A v \in Worker : \A u \in 1..since[v] : AccountedFor(u)'
  BY <1>1, <1>2, <1>3
<1>6. \A v \in Worker : pc[v] = "ingest" =>
         \A u \in 1..mark[v] : u \in batch[v] \/ AccountedFor(u)'
  BY <1>1, <1>2, <1>3
<1>7. CASE UNCHANGED <<lastUid, pc, since, batch, mark>>
  BY <1>4, <1>5, <1>6, <1>7
<1>8. ASSUME NEW w \in Worker, Poll(w) \/ Abandon(w)
      PROVE  MailAccountedFor' /\ BatchIsWhatIsMissing'
  <2>1. CASE ReadState(w)
    BY <2>1, <1>3, <1>4, <1>5, <1>6 DEF ReadState, mailboxState
  <2>2. CASE InsertState(w) \/ Claim(w)
    BY <2>2, <1>3, <1>4, <1>5, <1>6 DEF InsertState, Claim, mailboxState
  <2>3. CASE InsertClash(w) \/ ClaimLost(w) \/ FetchFails(w) \/ Abandon(w)
    <3>1. /\ lastUid' = lastUid
          /\ pc' = [pc EXCEPT ![w] = "idle"] /\ since' = [since EXCEPT ![w] = 0]
          /\ batch' = [batch EXCEPT ![w] = {}] /\ mark' = [mark EXCEPT ![w] = 0]
      BY <2>3 DEF InsertClash, ClaimLost, FetchFails, Abandon, Leave, mailboxState
    <3>2. QED
      BY <3>1, <1>3, <1>4, <1>5, <1>6
  <2>4. CASE Baseline(w)
    <3>1. /\ lastUid' = lastUid /\ since' = since /\ batch' = batch
          /\ pc' = [pc EXCEPT ![w] = "ingest"]
          /\ mark' = [mark EXCEPT ![w] = arrived] /\ base' = arrived
      BY <2>4 DEF Baseline, mailboxState
    <3>2. \A u \in 1..arrived : AccountedFor(u)'
      <4>1. base' > first' => first' = 0 \/ overtaken'
        BY DEF BaselinesKnown
      <4>2. base' = arrived /\ base' \in Nat /\ first' \in Nat
        BY <3>1 DEF TypeOK
      <4>3. SUFFICES ASSUME NEW u \in 1..arrived PROVE AccountedFor(u)'
        OBVIOUS
      <4>4. CASE base' > first'
        BY <4>1, <4>2, <4>4 DEF AccountedFor, Overlooked
      <4>5. CASE ~(base' > first')
        BY <4>2, <4>5 DEF AccountedFor
      <4>6. QED
        BY <4>4, <4>5
    <3>3. QED
      BY <3>1, <3>2, <1>3, <1>4, <1>5, <1>6
  <2>5. CASE FetchNew(w)
    <3>1. /\ lastUid' = lastUid /\ since' = since /\ gone' = gone
          /\ arrived' = arrived /\ pc' = [pc EXCEPT ![w] = "ingest"]
      BY <2>5, <1>3 DEF FetchNew, mailboxState, server
    <3>2. PICK new \in SUBSET (1..arrived) :
             /\ batch' = [batch EXCEPT ![w] = new]
             /\ mark' = [mark EXCEPT ![w] = Max(new \cup {since[w]})]
             /\ \A u \in 1..arrived \ gone :
                   u > since[w] /\ u < Max(new \cup {since[w]}) =>
                      u \in new \/ u \in passed'
      BY <2>5, FetchedMail
    <3> DEFINE m == Max(new \cup {since[w]})
    <3>3. arrived \in Nat /\ since[w] \in 0..arrived
      BY <1>3, Bounds DEF TypeOK
    <3>4. m \in new \cup {since[w]} /\ m \in 0..arrived
      <4>1. new \cup {since[w]} \in SUBSET (0..arrived)
        BY <3>3, FetchRange
      <4>2. QED
        BY <3>3, <4>1, MaxOfBounded
    <3>5. mark' = [mark EXCEPT ![w] = m]
      BY <3>2
    <3>6. \A u \in 1..arrived \ gone : u > since[w] /\ u < m => u \in new \/ u \in passed'
      BY <3>2
    <3> HIDE DEF m
    <3>7. ASSUME NEW u \in 1..m PROVE u \in batch'[w] \/ AccountedFor(u)'
      <4>1. u \in 1..arrived
        BY <3>3, <3>4
      <4>2. CASE u \in gone
        BY <4>2, <3>1 DEF AccountedFor
      <4>3. CASE u <= since[w]
        BY <4>1, <4>3, <1>5, <3>3
      <4>4. CASE u \notin gone /\ u > since[w] /\ u < m
        BY <4>1, <4>4, <3>6, <3>2, <1>3 DEF AccountedFor
      <4>5. CASE u > since[w] /\ u = m
        BY <4>1, <4>5, <3>4, <3>2, <1>3, <3>3
      <4>6. QED
        BY <4>2, <4>3, <4>4, <4>5, <3>3, <3>4
    <3>8. QED
      BY <3>1, <3>2, <3>5, <3>7, <1>3, <1>4, <1>5, <1>6
  <2>6. ASSUME NEW m \in Uid, IngestNext(w, m)
        PROVE  MailAccountedFor' /\ BatchIsWhatIsMissing'
    <3>1. AccountedFor(m)'
      BY <2>6, IngestAccounts
    <3>2. /\ UNCHANGED <<lastUid, pc, since, mark>>
          /\ batch' = [batch EXCEPT ![w] = @ \ {m}]
      BY <2>6 DEF IngestNext, mailboxState
    <3>3. QED
      BY <3>1, <3>2, <1>3, <1>4, <1>5, <1>6
  <2>7. CASE FinishPoll(w)
    <3>1. /\ pc[w] = "ingest" /\ batch[w] = {}
          /\ lastUid' \in {lastUid, mark[w]}
          /\ pc' = [pc EXCEPT ![w] = "idle"] /\ since' = [since EXCEPT ![w] = 0]
          /\ batch' = [batch EXCEPT ![w] = {}] /\ mark' = [mark EXCEPT ![w] = 0]
      BY <2>7 DEF FinishPoll, Leave
    <3>2. \A u \in 1..mark[w] : AccountedFor(u)'
      BY <3>1, <1>6
    <3>3. QED
      BY <3>1, <3>2, <1>3, <1>4, <1>5, <1>6
  <2>8. QED
    BY <1>8, <2>1, <2>2, <2>3, <2>4, <2>5, <2>6, <2>7 DEF Poll
<1>9. QED
  BY <1>7, <1>8 DEF Next, Arrive, IntervalElapses, Expunge, vars, polls, mailboxState

-----------------------------------------------------------------------------
(* The invariant *)

(* It holds before the first poll. *)
LEMMA InitIInv == Init => IInv
<1> SUFFICES ASSUME Init PROVE IInv
  OBVIOUS
<1>1. TypeOK
  <2>1. /\ arrived \in 0..MaxMail /\ arrived \in Nat
        /\ {0} \subseteq 0..arrived /\ {} \subseteq 1..arrived
    BY Bounds DEF Init
  <2>2. 0 \in 0..MaxErrors /\ 0 \in 0..MaxOmissions /\ 0 \in 0..MaxAborts
    BY Bounds
  <2>3. /\ since \in [Worker -> 0..arrived] /\ mark \in [Worker -> 0..arrived]
        /\ batch \in [Worker -> SUBSET (1..arrived)]
    BY <2>1 DEF Init
  <2>4. stored \in [Uid -> Nat]
    BY DEF Init
  <2>5. QED
    BY <2>1, <2>2, <2>3, <2>4 DEF Init, TypeOK
<1>2. OnePoller /\ OneMessagePerId
  BY DEF Init, OnePoller, Polling, OneMessagePerId
<1>3. MailAccountedFor /\ BatchIsWhatIsMissing /\ BaselinesKnown
  BY DEF Init, MailAccountedFor, BatchIsWhatIsMissing, BaselinesKnown
<1>4. QED
  BY <1>1, <1>2, <1>3 DEF IInv

(* Every step keeps it. *)
LEMMA NextKeepsIInv == IInv /\ [Next]_vars => IInv'
<1> SUFFICES ASSUME IInv, [Next]_vars
             PROVE  IInv'
  OBVIOUS
<1>1. TypeOK'
  <2>1. CASE UNCHANGED vars
    BY <2>1 DEF IInv, TypeOK, vars, server, mailboxState, polls, bearings, counts
  <2>2. QED
    BY <2>1, WorldKeepsType, PollKeepsType DEF IInv, Next
<1>2. OnePoller' /\ OneMessagePerId'
  BY OnePollerKept, OneMessagePerIdKept DEF IInv
<1>3. BaselinesKnown'
  BY <1>1, BaselinesKept DEF IInv
<1>4. MailAccountedFor' /\ BatchIsWhatIsMissing'
  BY <1>1, <1>3, WatermarkKept DEF IInv
<1>5. QED
  BY <1>1, <1>2, <1>3, <1>4 DEF IInv

(* IInv is an invariant of every mailbox and any number of workers.        *)
THEOREM PollInvariance == Spec => []IInv
<1>1. Init => IInv
  BY InitIInv
<1>2. IInv /\ [Next]_vars => IInv'
  BY NextKeepsIInv
<1>3. QED
  BY <1>1, <1>2, PTL DEF Spec

(* Type correctness: the baseline and every watermark a worker holds are   *)
(* numbers of mails the mailbox has had.                                   *)
THEOREM TypeCorrect == Spec => []TypeOK
<1>1. IInv => TypeOK
  BY DEF IInv
<1>2. QED
  BY <1>1, PollInvariance, PTL

(* At most one worker talks to the mail server, while the row is running:  *)
(* the guarantee the conditional UPDATE is there for.                      *)
THEOREM PollsExclude == Spec => []OnePoller
<1>1. IInv => OnePoller
  BY DEF IInv
<1>2. QED
  BY <1>1, PollInvariance, PTL

(* One mail with a Message-ID never becomes two messages, although a       *)
(* worker may fetch from a watermark that is no longer the mailbox's.      *)
THEOREM IngestedOnce == Spec => []OneMessagePerId
<1>1. IInv => OneMessagePerId
  BY DEF IInv
<1>2. QED
  BY <1>1, PollInvariance, PTL

(* The watermark passes a mail nobody dealt with for the reasons named     *)
(* only: it was there before the first poll, or between two baselines, or  *)
(* a later mail was delivered while its body was not.                      *)
THEOREM WatermarkSound == Spec => []MailAccountedFor
<1>1. IInv => MailAccountedFor
  BY DEF IInv
<1>2. QED
  BY <1>1, PollInvariance, PTL
=============================================================================
