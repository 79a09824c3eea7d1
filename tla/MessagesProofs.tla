---------------------------- MODULE MessagesProofs ----------------------------
(***************************************************************************)
(* Proofs about the messages of the restaurant.                            *)
(*                                                                         *)
(* SmsOutbox, for any number of messages, of attempts, of rows in a batch, *)
(* of restarts and of errors. That a message is sound needs neither the    *)
(* order of the due rows nor the list of the sweep, as deliver() looks its *)
(* row up; how often it is tried depends on both.                          *)
(*                                                                         *)
(* Campaigns, for any number of campaigns, customers and months and any    *)
(* allowance: one send() at a time reaches nobody twice, keeps every month *)
(* within the allowance and reports what it did, wherever it breaks off    *)
(* and whenever the month turns.                                           *)
(***************************************************************************)
EXTENDS SmsOutbox, Campaigns, FiniteSetTheorems, SequenceTheorems, TLAPS

-----------------------------------------------------------------------------
(* SmsOutbox: the inductive invariant                                      *)

\* A job has the fields of a job. Its message may be anything: a row that is
\* not there ends the attempt.
IsJob(j) ==
  /\ j = [stage |-> j.stage, message |-> j.message, attempts |-> j.attempts, ok |-> j.ok]
  /\ j.stage \in {"idle", "reading", "sending", "recording"}
  /\ j.attempts \in Nat
  /\ j.ok \in BOOLEAN

\* What a job brings home from the provider is true.
Honest(j, taken) == j.stage = "recording" /\ j.ok = TRUE => j.message \in taken

JobsOK ==
  /\ job = [w \in Jobs |-> job[w]]
  /\ \A w \in Jobs : IsJob(job[w]) /\ Honest(job[w], accepted)

RowsOK == outbox \in Seq(Row)

\* reconcile() asks about messages the provider has.
AskedIsTaken == receipts \subseteq accepted

OutboxInv == JobsOK /\ RowsOK /\ AskedIsTaken /\ PendingIsScheduled /\ StatusIsTrue

LEMMA JobAt ==
  ASSUME NEW s \in {"idle", "reading", "sending", "recording"}, NEW m, NEW n \in Nat,
         NEW ok \in BOOLEAN, NEW taken, s = "recording" /\ ok = TRUE => m \in taken
  PROVE  IsJob(At(s, m, n, ok)) /\ Honest(At(s, m, n, ok), taken)
BY DEF IsJob, Honest, At

LEMMA NewJobs ==
  /\ \A taken : IsJob(Idle) /\ Honest(Idle, taken)
  /\ \A m, taken : IsJob(Deliver(m)) /\ Honest(Deliver(m), taken)
<1>1. ASSUME NEW taken PROVE IsJob(Idle) /\ Honest(Idle, taken)
  BY JobAt DEF Idle
<1>2. ASSUME NEW m, NEW taken PROVE IsJob(Deliver(m)) /\ Honest(Deliver(m), taken)
  BY JobAt DEF Deliver
<1> QED
  BY <1>1, <1>2

LEMMA OutboxInitHolds == Init => OutboxInv
<1> SUFFICES ASSUME Init PROVE OutboxInv
  OBVIOUS
<1>1. job = [w \in Jobs |-> Idle]
  BY DEF Init
<1>2. JobsOK
  BY <1>1, NewJobs DEF JobsOK
<1>3. RowsOK /\ AskedIsTaken /\ PendingIsScheduled /\ StatusIsTrue
  BY DEF Init, RowsOK, AskedIsTaken, PendingIsScheduled, StatusIsTrue
<1> QED
  BY <1>2, <1>3 DEF OutboxInv

-----------------------------------------------------------------------------
(* What a step may do to a row and to a job                                *)

\* One job moves on and the provider has forgotten nothing.
LEMMA JobWritten ==
  ASSUME JobsOK, accepted \subseteq accepted', NEW w \in Jobs,
         NEW j, IsJob(j), Honest(j, accepted'),
         job' = [job EXCEPT ![w] = j]
  PROVE  JobsOK'
<1>1. \A v \in Jobs : job'[v] = IF v = w THEN j ELSE job[v]
  BY DEF JobsOK
<1>2. job' = [v \in Jobs |-> job'[v]]
  BY DEF JobsOK
<1>3. \A v \in Jobs : IsJob(job'[v]) /\ Honest(job'[v], accepted')
  BY <1>1 DEF JobsOK, Honest
<1> QED
  BY <1>2, <1>3 DEF JobsOK

LEMMA JobsKept ==
  ASSUME JobsOK, accepted \subseteq accepted', job' = job
  PROVE  JobsOK'
BY DEF JobsOK, Honest

\* A row that says what the invariants ask of it.
SoundRow(m, row, taken) ==
  /\ row \in Row
  /\ row.status = "PENDING" => row.next # "never" /\ row.attempts < MaxAttempts
  /\ row.status \in {"SENT", "DELIVERED"} => m \in taken
  /\ row.status = "FAILED" => m \in taken \/ row.attempts >= MaxAttempts

LEMMA RowsAreSound ==
  ASSUME RowsOK, PendingIsScheduled, StatusIsTrue
  PROVE  \A m \in DOMAIN outbox : SoundRow(m, outbox[m], accepted)
BY DEF RowsOK, PendingIsScheduled, StatusIsTrue, SoundRow

\* One row is rewritten and the provider has forgotten nothing.
LEMMA MessageWritten ==
  ASSUME RowsOK, PendingIsScheduled, StatusIsTrue, accepted \subseteq accepted',
         NEW m, NEW r, m \in DOMAIN outbox => SoundRow(m, r, accepted'),
         outbox' = [outbox EXCEPT ![m] = r]
  PROVE  RowsOK' /\ PendingIsScheduled' /\ StatusIsTrue'
<1>1. DOMAIN outbox' = DOMAIN outbox /\ Len(outbox) \in Nat /\ DOMAIN outbox = 1 .. Len(outbox)
  BY DEF RowsOK
<1>2. \A n \in DOMAIN outbox : outbox'[n] = IF n = m THEN r ELSE outbox[n]
  BY DEF RowsOK
<1>3. \A n \in DOMAIN outbox : SoundRow(n, outbox'[n], accepted')
  BY <1>2, RowsAreSound DEF SoundRow
<1>4. outbox' \in Seq(Row)
  <2>1. CASE m \in DOMAIN outbox
    BY <1>1, <2>1, ExceptSeq DEF RowsOK, SoundRow
  <2>2. CASE m \notin DOMAIN outbox
    <3>1. outbox \in [DOMAIN outbox -> Row]
      BY LenProperties DEF RowsOK
    <3>2. outbox' = outbox
      BY <2>2, <3>1
    <3> QED
      BY <3>2 DEF RowsOK
  <2> QED
    BY <2>1, <2>2
<1> QED
  BY <1>1, <1>3, <1>4 DEF RowsOK, PendingIsScheduled, StatusIsTrue, SoundRow

LEMMA MessagesKept ==
  ASSUME RowsOK, PendingIsScheduled, StatusIsTrue, accepted \subseteq accepted', outbox' = outbox
  PROVE  RowsOK' /\ PendingIsScheduled' /\ StatusIsTrue'
BY DEF RowsOK, PendingIsScheduled, StatusIsTrue

-----------------------------------------------------------------------------
(* Every step keeps the invariant                                          *)

LEMMA EnqueueKeeps == ASSUME OutboxInv, Enqueue PROVE OutboxInv'
<1> USE DEF OutboxInv
<1> DEFINE m == Len(outbox) + 1
           fresh == [status |-> "PENDING", attempts |-> 0, next |-> "due"]
<1>1. m \in Jobs
  BY LimitsAreCounts DEF Enqueue, Jobs, RowsOK
<1>2. job' = [job EXCEPT ![m] = Deliver(m)] /\ accepted' = accepted
  BY DEF Enqueue
<1>3. JobsOK'
  BY <1>1, <1>2, NewJobs, JobWritten
<1>4. AskedIsTaken'
  BY DEF Enqueue, AskedIsTaken
<1>5. fresh \in Row
  BY DEF Row, Statuses
<1>6. outbox' = Append(outbox, fresh)
  BY DEF Enqueue
<1>7. /\ RowsOK'
      /\ DOMAIN outbox' = DOMAIN outbox \cup {m}
      /\ outbox'[m] = fresh
      /\ \A n \in DOMAIN outbox : outbox'[n] = outbox[n]
  <2> HIDE DEF fresh
  <2> QED
    BY <1>5, <1>6 DEF RowsOK
<1>8. fresh.status = "PENDING" /\ fresh.next = "due" /\ fresh.attempts = 0 /\ 0 < MaxAttempts
  BY LimitsAreCounts
<1>9. PendingIsScheduled' /\ StatusIsTrue'
  <2> HIDE DEF fresh, m
  <2> QED
    BY <1>2, <1>7, <1>8 DEF PendingIsScheduled, StatusIsTrue
<1> QED
  BY <1>3, <1>4, <1>7, <1>9

LEMMA ReadKeeps == ASSUME OutboxInv, NEW w \in Jobs, Read(w) PROVE OutboxInv'
<1> USE DEF OutboxInv
<1>1. RowsOK' /\ PendingIsScheduled' /\ StatusIsTrue' /\ AskedIsTaken'
  BY MessagesKept DEF Read, AskedIsTaken
<1>2. accepted' = accepted
  BY DEF Read
<1>3. CASE job' = [job EXCEPT ![w] = Idle]
  BY <1>1, <1>2, <1>3, NewJobs, JobWritten
<1>4. CASE job' # [job EXCEPT ![w] = Idle]
  <2> DEFINE m == job[w].message
             n == outbox[m].attempts + 1
             j == At("sending", m, n, FALSE)
  <2>1. m \in DOMAIN outbox /\ job' = [job EXCEPT ![w] = j]
    BY <1>4 DEF Read
  <2>2. n \in Nat
    <3>1. outbox[m] \in Row
      BY <2>1 DEF RowsOK
    <3> QED
      BY <3>1 DEF Row
  <2>3. IsJob(j) /\ Honest(j, accepted')
    <3> HIDE DEF n, m
    <3> QED
      BY <2>2, JobAt
  <2> HIDE DEF j
  <2> QED
    BY <1>1, <1>2, <2>1, <2>3, JobWritten
<1> QED
  BY <1>3, <1>4

LEMMA SendKeeps == ASSUME OutboxInv, NEW w \in Jobs, Send(w) PROVE OutboxInv'
<1> USE DEF OutboxInv
<1> PICK taken \in BOOLEAN, heard \in BOOLEAN :
      /\ job' = [job EXCEPT ![w] = At("recording", @.message, @.attempts, taken /\ heard)]
      /\ accepted' = IF taken THEN accepted \cup {job[w].message} ELSE accepted
  BY DEF Send
<1>1. accepted \subseteq accepted'
  OBVIOUS
<1>2. RowsOK' /\ PendingIsScheduled' /\ StatusIsTrue' /\ AskedIsTaken'
  BY <1>1, MessagesKept DEF Send, AskedIsTaken
<1> DEFINE ok == taken /\ heard
           m == job[w].message
           n == job[w].attempts
           j == At("recording", m, n, ok)
<1>3. ok \in BOOLEAN /\ (ok = TRUE => m \in accepted')
  OBVIOUS
<1>4. n \in Nat
  BY DEF JobsOK, IsJob
<1>5. job' = [job EXCEPT ![w] = j]
  OBVIOUS
<1>6. IsJob(j) /\ Honest(j, accepted')
  <2> HIDE DEF ok, m, n
  <2> QED
    BY <1>3, <1>4, JobAt
<1>7. JobsOK'
  <2> HIDE DEF j
  <2> QED
    BY <1>1, <1>5, <1>6, JobWritten
<1> QED
  BY <1>2, <1>7

LEMMA RecordKeeps == ASSUME OutboxInv, NEW w \in Jobs, Record(w) PROVE OutboxInv'
<1> USE DEF OutboxInv
<1> DEFINE m == job[w].message
           r == Recorded(outbox[m], job[w])
<1>1. job' = [job EXCEPT ![w] = Idle] /\ accepted' = accepted /\ receipts' = receipts
  BY DEF Record
<1>2. JobsOK' /\ AskedIsTaken'
  BY <1>1, NewJobs, JobWritten DEF AskedIsTaken
<1>3. ASSUME m \in DOMAIN outbox PROVE SoundRow(m, r, accepted')
  <2> DEFINE n == job[w].attempts
             row == [outbox[m] EXCEPT !.attempts = n]
  <2>1. outbox[m] \in Row
    BY <1>3 DEF RowsOK
  <2>2. n \in Nat /\ job[w].ok \in BOOLEAN /\ (job[w].ok = TRUE => m \in accepted')
    BY <1>1 DEF JobsOK, IsJob, Honest, Record
  <2>3. row \in Row /\ row.attempts = n /\ row = Counted(outbox[m], job[w])
    BY <2>1, <2>2 DEF Row, Counted
  <2>4. MaxAttempts \in Nat
    BY LimitsAreCounts
  <2>5. CASE job[w].ok = TRUE
    <3>1. r = Sent(row)
      BY <2>3, <2>5 DEF Recorded
    <3> HIDE DEF row, r
    <3> QED
      BY <2>2, <2>3, <2>5, <3>1 DEF SoundRow, Sent, Row, Statuses
  <2>6. CASE job[w].ok = FALSE /\ n >= MaxAttempts
    <3>1. r = GivenUp(row)
      BY <2>3, <2>6 DEF Recorded
    <3> HIDE DEF row, r
    <3> QED
      BY <2>3, <2>6, <3>1 DEF SoundRow, GivenUp, Row, Statuses
  <2>7. CASE job[w].ok = FALSE /\ ~ (n >= MaxAttempts)
    <3>1. r = Retried(row)
      BY <2>3, <2>7 DEF Recorded
    <3>2. n < MaxAttempts
      BY <2>2, <2>4, <2>7
    <3> HIDE DEF row, r
    <3> QED
      BY <2>3, <3>1, <3>2 DEF SoundRow, Retried, Row, Statuses
  <2> QED
    BY <2>2, <2>5, <2>6, <2>7
<1>4. outbox' = [outbox EXCEPT ![m] = r]
  BY DEF Record
<1>5. RowsOK' /\ PendingIsScheduled' /\ StatusIsTrue'
  <2> HIDE DEF r, m
  <2> QED
    BY <1>1, <1>3, <1>4, MessageWritten
<1> QED
  BY <1>2, <1>5

LEMMA StumbleKeeps == ASSUME OutboxInv, NEW w \in Jobs, Stumble(w) PROVE OutboxInv'
<1> USE DEF OutboxInv
<1>1. /\ job' = [job EXCEPT ![w] = Idle]
      /\ accepted' = accepted /\ receipts' = receipts /\ outbox' = outbox
  BY DEF Stumble
<1>2. JobsOK' /\ AskedIsTaken'
  BY <1>1, NewJobs, JobWritten DEF AskedIsTaken
<1> QED
  BY <1>1, <1>2, MessagesKept

\* SweepStart, SweepEnd and stuttering touch neither rows nor jobs.
LEMMA NothingTouched ==
  ASSUME OutboxInv, UNCHANGED <<outbox, accepted, job, receipts>>
  PROVE  OutboxInv'
<1>1. JobsOK' /\ AskedIsTaken'
  BY JobsKept DEF OutboxInv, AskedIsTaken
<1> QED
  BY <1>1, MessagesKept DEF OutboxInv

LEMMA SweepNextKeeps == ASSUME OutboxInv, SweepNext PROVE OutboxInv'
<1> USE DEF OutboxInv
<1>1. Sweeper \in Jobs
  BY LimitsAreCounts DEF Sweeper, Jobs
<1>2. /\ job' = [job EXCEPT ![Sweeper] = Deliver(Head(sweep.list))]
      /\ accepted' = accepted /\ receipts' = receipts /\ outbox' = outbox
  BY DEF SweepNext
<1>3. JobsOK' /\ AskedIsTaken'
  BY <1>1, <1>2, NewJobs, JobWritten DEF AskedIsTaken
<1> QED
  BY <1>2, <1>3, MessagesKept

LEMMA ElapseKeeps == ASSUME OutboxInv, NEW m \in DOMAIN outbox, Elapse(m) PROVE OutboxInv'
<1> USE DEF OutboxInv
<1>1. JobsOK' /\ AskedIsTaken'
  BY JobsKept DEF Elapse, AskedIsTaken
<1> DEFINE r == [outbox[m] EXCEPT !.next = "due"]
<1>2. outbox[m] \in Row /\ SoundRow(m, outbox[m], accepted)
  BY RowsAreSound DEF RowsOK
<1>3. SoundRow(m, r, accepted')
  BY <1>2 DEF SoundRow, Row, Elapse
<1>4. outbox' = [outbox EXCEPT ![m] = r] /\ accepted \subseteq accepted'
  BY DEF Elapse
<1>5. RowsOK' /\ PendingIsScheduled' /\ StatusIsTrue'
  BY <1>3, <1>4, MessageWritten
<1> QED
  BY <1>1, <1>5

LEMMA AskKeeps == ASSUME OutboxInv, NEW m \in DOMAIN outbox, Ask(m) PROVE OutboxInv'
<1> USE DEF OutboxInv
<1>1. JobsOK' /\ AskedIsTaken'
  BY JobsKept DEF Ask, AskedIsTaken, StatusIsTrue
<1> QED
  BY <1>1, MessagesKept DEF Ask

LEMMA AnswerKeeps == ASSUME OutboxInv, NEW m \in DOMAIN outbox, Answer(m) PROVE OutboxInv'
<1> USE DEF OutboxInv
<1>1. JobsOK' /\ AskedIsTaken'
  BY JobsKept DEF Answer, AskedIsTaken
<1>2. accepted' = accepted /\ m \in accepted
  BY DEF Answer, AskedIsTaken
<1>3. CASE UNCHANGED outbox
  BY <1>1, <1>2, <1>3, MessagesKept
<1>4. ASSUME NEW verdict \in Verdicts, outbox' = [outbox EXCEPT ![m].status = verdict]
      PROVE  OutboxInv'
  <2> DEFINE r == [outbox[m] EXCEPT !.status = verdict]
  <2>1. SoundRow(m, outbox[m], accepted)
    BY RowsAreSound
  <2>2. SoundRow(m, r, accepted')
    BY <1>2, <2>1 DEF SoundRow, Row, Statuses, Verdicts
  <2>3. outbox' = [outbox EXCEPT ![m] = r]
    BY <1>4
  <2>4. RowsOK' /\ PendingIsScheduled' /\ StatusIsTrue'
    BY <1>2, <2>2, <2>3, MessageWritten
  <2> QED
    BY <1>1, <2>4
<1> QED
  BY <1>3, <1>4 DEF Answer

LEMMA RestartKeeps == ASSUME OutboxInv, Restart PROVE OutboxInv'
<1> USE DEF OutboxInv
<1>1. job' = [w \in Jobs |-> Idle]
  BY DEF Restart
<1>2. JobsOK'
  BY <1>1, NewJobs DEF JobsOK
<1>3. AskedIsTaken'
  BY DEF Restart, AskedIsTaken
<1> QED
  BY <1>2, <1>3, MessagesKept DEF Restart

LEMMA OutboxNextKeeps == OutboxInv /\ [Next]_vars => OutboxInv'
<1> SUFFICES ASSUME OutboxInv, [Next]_vars PROVE OutboxInv'
  OBVIOUS
<1>1. CASE Enqueue
  BY <1>1, EnqueueKeeps
<1>2. ASSUME NEW w \in Jobs, Attempt(w) \/ Stumble(w) PROVE OutboxInv'
  BY <1>2, ReadKeeps, SendKeeps, RecordKeeps, StumbleKeeps DEF Attempt
<1>3. CASE SweepStart \/ SweepEnd
  BY <1>3, NothingTouched DEF SweepStart, SweepEnd
<1>4. CASE SweepNext
  BY <1>4, SweepNextKeeps
<1>5. ASSUME NEW m \in DOMAIN outbox, Elapse(m) \/ Ask(m) \/ Answer(m) PROVE OutboxInv'
  BY <1>5, ElapseKeeps, AskKeeps, AnswerKeeps
<1>6. CASE Restart
  BY <1>6, RestartKeeps
<1>7. CASE UNCHANGED vars
  BY <1>7, NothingTouched DEF vars
<1> QED
  BY <1>1, <1>2, <1>3, <1>4, <1>5, <1>6, <1>7 DEF Next

-----------------------------------------------------------------------------
(* The theorems                                                            *)

LEMMA OutboxInvHolds == Spec => []OutboxInv
BY OutboxInitHolds, OutboxNextKeeps, PTL DEF Spec

\* However the attempts of a message overlap, fail and overwrite each other,
\* and wherever the process dies, a row that is PENDING is one queryDue() will
\* find: "an outage can delay a message but never lose it". And the status of a
\* row is never more than what happened to the message, with late writes of
\* deliver() and of reconcile() in any order.
THEOREM OutboxStaysSound == Spec => []OutboxIsSound
<1>1. OutboxInv => OutboxIsSound
  BY DEF OutboxInv, OutboxIsSound
<1> QED
  BY <1>1, OutboxInvHolds, PTL

-----------------------------------------------------------------------------
(* What queryDue() and the write of deliver() leave of the line            *)

\* The members of a finite set of numbers have ranks 1, 2, ... without a gap.
LEMMA RanksHaveNoGap ==
  ASSUME NEW S \in SUBSET Nat, IsFiniteSet(S)
  PROVE  /\ Cardinality(S) \in Nat
         /\ \A j \in 1 .. Cardinality(S) : \E i \in S : Cardinality({h \in S : h <= i}) = j
<1> DEFINE Upto(i) == {h \in S : h <= i}
           n == Cardinality(S)
           rank == [i \in S |-> Cardinality(Upto(i))]
<1>1. n \in Nat
  BY FS_CardinalityType
<1>2. ASSUME NEW i \in S
      PROVE  IsFiniteSet(Upto(i)) /\ Cardinality(Upto(i)) \in 1 .. n
  <2>1. Upto(i) \in SUBSET S /\ i \in Upto(i)
    OBVIOUS
  <2> HIDE DEF Upto
  <2>2. IsFiniteSet(Upto(i)) /\ Cardinality(Upto(i)) <= n
    BY <2>1, FS_Subset
  <2>3. Cardinality(Upto(i)) \in Nat /\ Cardinality(Upto(i)) # 0
    BY <2>1, <2>2, FS_CardinalityType, FS_EmptySet
  <2> QED
    BY <1>1, <2>2, <2>3
<1>3. ASSUME NEW h \in S, NEW i \in S, h < i
      PROVE  Cardinality(Upto(h)) # Cardinality(Upto(i))
  <2>1. \A g \in S : g \in Nat
    OBVIOUS
  <2>2. h \in Nat /\ i \in Nat
    OBVIOUS
  <2>3. Upto(h) \in SUBSET Upto(i) /\ i \in Upto(i) /\ i \notin Upto(h)
    <3>1. \A g \in S : g <= h => g <= i
      BY <1>3, <2>1, <2>2
    <3>2. i <= i /\ ~ (i <= h)
      BY <1>3, <2>2
    <3> QED
      BY <3>1, <3>2
  <2> HIDE DEF Upto
  <2> QED
    BY <1>2, <2>3, FS_Subset
<1>4. rank \in [S -> 1 .. n]
  BY <1>2
<1>5. \A h, i \in S : rank[h] = rank[i] => h = i
  BY <1>3
<1>6. rank \in Injection(S, 1 .. n)
  <2> HIDE DEF rank
  <2> QED
    BY <1>4, <1>5 DEF Injection, IsInjective
<1>7. IsFiniteSet(1 .. n) /\ Cardinality(1 .. n) = n
  BY <1>1, FS_Interval
<1>8. rank \in Surjection(S, 1 .. n)
  <2> HIDE DEF rank
  <2> QED
    BY <1>6, <1>7, FS_Injection
<1>9. \A j \in 1 .. n : \E i \in S : rank[i] = j
  <2> HIDE DEF rank
  <2> QED
    BY <1>8 DEF Surjection
<1> QED
  BY <1>1, <1>9

\* Some members of a line without repetitions, without repetitions.
IsChoice(c, s, S, T) ==
  /\ c \in Seq(T \cap S)
  /\ IsInjective(c)
  /\ \A j \in DOMAIN c : \E i \in DOMAIN s : c[j] = s[i]

LEMMA PickedIsALine ==
  \A T, S, s : s \in Seq(T) /\ IsInjective(s) => IsChoice(Picked(s, S), s, S, T)
<1> SUFFICES ASSUME NEW T, NEW S, NEW s \in Seq(T), IsInjective(s)
             PROVE  IsChoice(Picked(s, S), s, S, T)
  OBVIOUS
<1> DEFINE places == {i \in DOMAIN s : s[i] \in S}
           n == Cardinality(places)
           Rank(i) == Cardinality({h \in places : h <= i})
           Place(j) == CHOOSE i \in places : Rank(i) = j
           line == [j \in 1 .. n |-> s[Place(j)]]
<1>1. places \in SUBSET (1 .. Len(s)) /\ Len(s) \in Nat
  BY LenProperties
<1>2. IsFiniteSet(places) /\ places \in SUBSET Nat
  <2> HIDE DEF places
  <2>1. IsFiniteSet(1 .. Len(s)) /\ 1 .. Len(s) \subseteq Nat
    BY <1>1, FS_Interval
  <2> QED
    BY <1>1, <2>1, FS_Subset
<1>3. n \in Nat /\ \A j \in 1 .. n : \E i \in places : Rank(i) = j
  <2> HIDE DEF places
  <2> QED
    BY <1>2, RanksHaveNoGap
<1>4. \A j \in 1 .. n : Place(j) \in places /\ Rank(Place(j)) = j
  <2> HIDE DEF places, n, Rank
  <2> QED
    BY <1>3
<1>5. line = Picked(s, S)
  BY DEF Picked
<1>6. \A j \in 1 .. n : line[j] \in T \cap S /\ Place(j) \in DOMAIN s /\ line[j] = s[Place(j)]
  <2>1. \A i \in places : i \in DOMAIN s /\ s[i] \in S /\ s[i] \in T
    OBVIOUS
  <2> HIDE DEF places, n, Place
  <2> QED
    BY <1>4, <2>1
<1>7. line \in [1 .. n -> T \cap S]
  <2> HIDE DEF places, n, Place
  <2> QED
    BY <1>6
<1>8. line \in Seq(T \cap S)
  <2> HIDE DEF line, n
  <2> QED
    BY <1>3, <1>7
<1>9. \A j, k \in 1 .. n : line[j] = line[k] => j = k
  <2>1. SUFFICES ASSUME NEW j \in 1 .. n, NEW k \in 1 .. n, line[j] = line[k] PROVE j = k
    OBVIOUS
  <2> HIDE DEF places, n, Place, Rank, line
  <2>2. Place(j) = Place(k)
    BY <1>6, <2>1 DEF IsInjective
  <2> QED
    BY <1>4, <2>2
<1>10. DOMAIN line = 1 .. n
  OBVIOUS
<1> QED
  <2> HIDE DEF line, n, Place
  <2> QED
    BY <1>5, <1>6, <1>8, <1>9, <1>10 DEF IsInjective, IsChoice

-----------------------------------------------------------------------------
(* How far the count of a row can go                                       *)

Queued(s, m) == \E i \in DOMAIN s : s[i] = m

InFlight(j) == j.stage \in {"sending", "recording"}

\* Row m with count a, the attempt j that enqueue() fired for it, the attempt k
\* of the sweep and the rows the sweep has yet to try. While both are at the
\* row its count has two to spare, while one is it has one; only an attempt of
\* enqueue() that has read the row before a sweep gave it up, or a sweep that
\* listed it before, carries a count past the limit.
SpareAt(m, a, j, k, list) ==
  LET theirs == Queued(list, m) \/ (k.stage # "idle" /\ k.message = m)
  IN  /\ a <= MaxAttempts + 1
      /\ j.stage # "idle" \/ theirs => a <= MaxAttempts
      /\ j.stage # "idle" /\ theirs => a < MaxAttempts
      /\ InFlight(j) =>
           /\ j.attempts <= MaxAttempts + 1
           /\ j.attempts <= MaxAttempts \/ a >= MaxAttempts
      /\ InFlight(k) /\ k.message = m =>
           /\ k.attempts <= MaxAttempts + 1
           /\ j.stage # "idle" => k.attempts <= MaxAttempts

TurnOK ==
  /\ turn \in Seq(DOMAIN outbox)
  /\ IsInjective(turn)
  /\ \A i \in DOMAIN turn : outbox[turn[i]].next = "due"

SweepOK ==
  /\ sweep = [running |-> sweep.running, list |-> sweep.list]
  /\ sweep.running \in BOOLEAN
  /\ sweep.list \in Seq(DOMAIN outbox)
  /\ IsInjective(sweep.list)
  /\ sweep.running = FALSE => sweep.list = <<>> /\ job[Sweeper].stage = "idle"
  /\ job[Sweeper].stage # "idle" =>
       job[Sweeper].message \in DOMAIN outbox /\ ~ Queued(sweep.list, job[Sweeper].message)

OwnJobsOK ==
  /\ \A w \in Jobs : job[w].message \in Nat
  /\ \A w \in Jobs \ {Sweeper} :
       job[w].stage # "idle" => w \in DOMAIN outbox /\ job[w].message = w

SparesOK ==
  \A m \in DOMAIN outbox : SpareAt(m, outbox[m].attempts, job[m], job[Sweeper], sweep.list)

Written ==
  /\ Len(outbox) <= MaxMessages
  /\ accepted \subseteq DOMAIN outbox
  /\ troubles \in 0 .. MaxTroubles

QueueInv == TurnOK /\ SweepOK /\ OwnJobsOK /\ SparesOK /\ Written

LEMMA OwnDrops ==
  ASSUME NEW m, NEW a \in Nat, NEW j, NEW k, NEW list, SpareAt(m, a, j, k, list)
  PROVE  SpareAt(m, a, Idle, k, list)
BY LimitsAreCounts DEF SpareAt, InFlight, Idle, At

LEMMA OwnReads ==
  ASSUME NEW m, NEW a \in Nat, NEW j, NEW k, NEW list, SpareAt(m, a, j, k, list),
         j.stage = "reading"
  PROVE  SpareAt(m, a, At("sending", m, a + 1, FALSE), k, list)
BY LimitsAreCounts DEF SpareAt, InFlight, At

LEMMA OwnSends ==
  ASSUME NEW m, NEW a \in Nat, NEW j, NEW k, NEW list, SpareAt(m, a, j, k, list),
         j.stage = "sending", NEW ok
  PROVE  SpareAt(m, a, At("recording", j.message, j.attempts, ok), k, list)
BY LimitsAreCounts DEF SpareAt, InFlight, At

LEMMA OwnRecords ==
  ASSUME NEW m, NEW a \in Nat, NEW j, NEW k, NEW list, SpareAt(m, a, j, k, list),
         j.stage = "recording", j.attempts \in Nat
  PROVE  SpareAt(m, j.attempts, Idle, k, list)
BY LimitsAreCounts DEF SpareAt, InFlight, Idle, At

LEMMA TheirsDrops ==
  ASSUME NEW m, NEW a \in Nat, NEW j, NEW k, NEW list, SpareAt(m, a, j, k, list)
  PROVE  SpareAt(m, a, j, Idle, list)
BY LimitsAreCounts DEF SpareAt, InFlight, Idle, At

LEMMA TheirsReads ==
  ASSUME NEW m, NEW a \in Nat, NEW j, NEW k, NEW list, SpareAt(m, a, j, k, list),
         k.stage = "reading", NEW n, k.message = m => n = a + 1
  PROVE  SpareAt(m, a, j, At("sending", k.message, n, FALSE), list)
BY LimitsAreCounts DEF SpareAt, InFlight, At

LEMMA TheirsSends ==
  ASSUME NEW m, NEW a \in Nat, NEW j, NEW k, NEW list, SpareAt(m, a, j, k, list),
         k.stage = "sending", NEW ok
  PROVE  SpareAt(m, a, j, At("recording", k.message, k.attempts, ok), list)
BY LimitsAreCounts DEF SpareAt, InFlight, At

LEMMA TheirsRecords ==
  ASSUME NEW m, NEW a \in Nat, NEW j, NEW k, NEW list, SpareAt(m, a, j, k, list),
         k.stage = "recording", k.attempts \in Nat, j.attempts \in Nat, ~ Queued(list, k.message)
  PROVE  SpareAt(m, IF m = k.message THEN k.attempts ELSE a, j, Idle, list)
<1>1. CASE m = k.message
  BY <1>1, LimitsAreCounts DEF SpareAt, InFlight, Idle, At
<1>2. CASE m # k.message
  BY <1>2, TheirsDrops
<1> QED
  BY <1>1, <1>2

\* A list is made of rows with attempts to spare, out of nothing.
LEMMA TheirsListed ==
  ASSUME NEW m, NEW a \in Nat, NEW j, NEW k, NEW new, SpareAt(m, a, j, k, <<>>),
         k.stage = "idle", Queued(new, m) => a < MaxAttempts
  PROVE  SpareAt(m, a, j, k, new)
BY LimitsAreCounts DEF SpareAt, InFlight, Queued

LEMMA TheirsBegins ==
  ASSUME NEW T, NEW list \in Seq(T), list # <<>>,
         NEW m, NEW a \in Nat, NEW j, NEW k, SpareAt(m, a, j, k, list), k.stage = "idle"
  PROVE  SpareAt(m, a, j, Deliver(Head(list)), Tail(list))
<1>1. Queued(Tail(list), m) \/ Head(list) = m => Queued(list, m)
  <2>1. Head(list) = list[1] /\ 1 \in DOMAIN list
    OBVIOUS
  <2>2. \A i \in DOMAIN Tail(list) : Tail(list)[i] = list[i + 1] /\ i + 1 \in DOMAIN list
    OBVIOUS
  <2> QED
    BY <2>1, <2>2 DEF Queued
<1> QED
  BY <1>1, LimitsAreCounts DEF SpareAt, InFlight, Deliver, At

LEMMA QueueInitHolds == Init => QueueInv
<1> SUFFICES ASSUME Init PROVE QueueInv
  OBVIOUS
<1>1. job = [w \in Jobs |-> Idle] /\ Sweeper \in Jobs
  BY LimitsAreCounts DEF Init, Jobs, Sweeper
<1>2. TurnOK
  BY DEF Init, TurnOK, IsInjective
<1>3. SweepOK
  <2>1. sweep = [running |-> FALSE, list |-> <<>>]
    BY DEF Init
  <2> QED
    BY <1>1, <2>1 DEF SweepOK, IsInjective, Idle, At
<1>4. OwnJobsOK
  BY <1>1 DEF OwnJobsOK, Idle, At
<1>5. SparesOK /\ Written
  BY LimitsAreCounts DEF Init, SparesOK, Written
<1> QED
  BY <1>2, <1>3, <1>4, <1>5 DEF QueueInv

-----------------------------------------------------------------------------
(* Every step keeps it                                                     *)

RowsCount(rows) == \A m \in DOMAIN rows : rows[m].attempts \in Nat

LEMMA CountsAreNat ==
  ASSUME OutboxInv
  PROVE  /\ RowsCount(outbox)
         /\ \A w \in Jobs : job[w].attempts \in Nat
         /\ DOMAIN outbox = 1 .. Len(outbox) /\ Len(outbox) \in Nat
<1>1. outbox \in Seq(Row)
  BY DEF OutboxInv, RowsOK
<1>2. \A m \in DOMAIN outbox : outbox[m] \in Row
  BY <1>1
<1> QED
  BY <1>1, <1>2, LenProperties DEF RowsCount, Row, OutboxInv, JobsOK, IsJob

\* An attempt of enqueue() moves on, and writes no row but its own.
LEMMA OwnWritten ==
  ASSUME OutboxInv, QueueInv, NEW w \in Jobs \ {Sweeper}, NEW j,
         job' = [job EXCEPT ![w] = j], sweep' = sweep,
         DOMAIN outbox' = DOMAIN outbox,
         \A m \in DOMAIN outbox \ {w} : outbox'[m].attempts = outbox[m].attempts,
         j.message \in Nat,
         j.stage # "idle" => w \in DOMAIN outbox /\ j.message = w,
         w \in DOMAIN outbox =>
           SpareAt(w, outbox'[w].attempts, j, job[Sweeper], sweep.list)
  PROVE  SweepOK' /\ OwnJobsOK' /\ SparesOK'
<1>1. job'[w] = j /\ \A v \in Jobs : v # w => job'[v] = job[v]
  BY DEF OutboxInv, JobsOK
<1>2. job'[Sweeper] = job[Sweeper] /\ Sweeper \in Jobs
  BY <1>1, LimitsAreCounts DEF Jobs, Sweeper
<1>3. SweepOK'
  BY <1>2 DEF QueueInv, SweepOK
<1>4. OwnJobsOK'
  BY <1>1 DEF QueueInv, OwnJobsOK
<1>5. DOMAIN outbox \subseteq Jobs
  BY CountsAreNat, LimitsAreCounts DEF QueueInv, Written, Jobs
<1>6. SparesOK'
  <2> SUFFICES ASSUME NEW m \in DOMAIN outbox
               PROVE  SpareAt(m, outbox'[m].attempts, job'[m], job'[Sweeper], sweep'.list)
    BY DEF SparesOK
  <2>1. CASE m = w
    BY <1>1, <1>2, <2>1
  <2>2. CASE m # w
    BY <1>1, <1>2, <1>5, <2>2 DEF QueueInv, SparesOK
  <2> QED
    BY <2>1, <2>2
<1> QED
  BY <1>3, <1>4, <1>6

\* The attempt of the sweep moves on, at the same row or to its end.
LEMMA TheirsWritten ==
  ASSUME OutboxInv, QueueInv, NEW k,
         job' = [job EXCEPT ![Sweeper] = k], sweep' = sweep,
         DOMAIN outbox' = DOMAIN outbox,
         k.message \in Nat,
         k.stage # "idle" =>
           job[Sweeper].stage # "idle" /\ k.message = job[Sweeper].message,
         \A m \in DOMAIN outbox : SpareAt(m, outbox'[m].attempts, job[m], k, sweep.list)
  PROVE  SweepOK' /\ OwnJobsOK' /\ SparesOK'
<1>0. Sweeper \in Jobs
  BY LimitsAreCounts DEF Jobs, Sweeper
<1>1. job'[Sweeper] = k /\ \A v \in Jobs : v # Sweeper => job'[v] = job[v]
  BY <1>0 DEF OutboxInv, JobsOK
<1>3. SweepOK'
  BY <1>1 DEF QueueInv, SweepOK
<1>4. OwnJobsOK'
  BY <1>1 DEF QueueInv, OwnJobsOK
<1>5. DOMAIN outbox \subseteq Jobs \ {Sweeper}
  BY CountsAreNat, LimitsAreCounts DEF QueueInv, Written, Jobs, Sweeper
<1>6. SparesOK'
  BY <1>1, <1>5 DEF SparesOK
<1> QED
  BY <1>3, <1>4, <1>6

\* Neither the rows nor their order change.
LEMMA RowsStay ==
  ASSUME QueueInv, UNCHANGED <<outbox, turn>>, accepted' \subseteq DOMAIN outbox,
         troubles' \in 0 .. MaxTroubles
  PROVE  TurnOK' /\ Written'
BY DEF QueueInv, TurnOK, Written

LEMMA ReadQueues == ASSUME OutboxInv, QueueInv, NEW w \in Jobs, Read(w) PROVE QueueInv'
<1> DEFINE m == job[w].message
           n == outbox[m].attempts + 1
<1>1. UNCHANGED <<outbox, turn, accepted, sweep, troubles>> /\ job[w].stage = "reading"
  BY DEF Read
<1>2. TurnOK' /\ Written'
  BY <1>1, RowsStay DEF QueueInv, Written
<1>3. PICK j : /\ job' = [job EXCEPT ![w] = j]
               /\ j = Idle \/ (m \in DOMAIN outbox /\ j = At("sending", m, n, FALSE))
  BY DEF Read
<1>4. m \in Nat /\ j.message \in Nat /\ (j.stage # "idle" => j.message = m)
  BY <1>3 DEF QueueInv, OwnJobsOK, Idle, At
<1>5. CASE w = Sweeper
  <2>1. ASSUME NEW r \in DOMAIN outbox
        PROVE  SpareAt(r, outbox[r].attempts, job[r], j, sweep.list)
    <3>1. SpareAt(r, outbox[r].attempts, job[r], job[w], sweep.list) /\ outbox[r].attempts \in Nat
      BY <1>5, CountsAreNat DEF QueueInv, SparesOK, RowsCount
    <3> HIDE DEF n
    <3>2. CASE j = Idle
      BY <3>1, <3>2, TheirsDrops
    <3>3. CASE j = At("sending", m, n, FALSE)
      <4>1. m = r => n = outbox[r].attempts + 1
        BY DEF n
      <4> QED
        BY <1>1, <3>1, <3>3, <4>1, TheirsReads
    <3> QED
      BY <1>3, <3>2, <3>3
  <2> HIDE DEF m, n
  <2>2. j.stage # "idle" => job[Sweeper].stage # "idle" /\ j.message = job[Sweeper].message
    BY <1>1, <1>4, <1>5 DEF m
  <2>3. SweepOK' /\ OwnJobsOK' /\ SparesOK'
    BY <1>1, <1>3, <1>4, <1>5, <2>1, <2>2, TheirsWritten
  <2> QED
    BY <1>2, <2>3 DEF QueueInv
<1>6. CASE w # Sweeper
  <2>1. w \in DOMAIN outbox /\ m = w
    BY <1>1, <1>6 DEF QueueInv, OwnJobsOK
  <2>2. SpareAt(w, outbox[w].attempts, j, job[Sweeper], sweep.list)
    <3>1. SpareAt(w, outbox[w].attempts, job[w], job[Sweeper], sweep.list) /\ outbox[w].attempts \in Nat
      BY <2>1, CountsAreNat DEF QueueInv, SparesOK, RowsCount
    <3>2. CASE j = Idle
      BY <3>1, <3>2, OwnDrops
    <3>3. CASE j = At("sending", m, n, FALSE)
      BY <1>1, <2>1, <3>1, <3>3, OwnReads
    <3> QED
      BY <1>3, <3>2, <3>3
  <2> HIDE DEF m, n
  <2>3. SweepOK' /\ OwnJobsOK' /\ SparesOK'
    BY <1>1, <1>3, <1>4, <1>6, <2>1, <2>2, OwnWritten
  <2> QED
    BY <1>2, <2>3 DEF QueueInv
<1> QED
  BY <1>5, <1>6

LEMMA SendQueues == ASSUME OutboxInv, QueueInv, NEW w \in Jobs, Send(w) PROVE QueueInv'
<1> DEFINE m == job[w].message
           n == job[w].attempts
<1> PICK taken \in BOOLEAN, heard \in BOOLEAN :
      /\ job' = [job EXCEPT ![w] = At("recording", @.message, @.attempts, taken /\ heard)]
      /\ accepted' = IF taken THEN accepted \cup {job[w].message} ELSE accepted
  BY DEF Send
<1>1. UNCHANGED <<outbox, turn, sweep, troubles>> /\ job[w].stage = "sending"
  BY DEF Send
<1> DEFINE j == At("recording", m, n, taken /\ heard)
<1>2. job' = [job EXCEPT ![w] = j]
  OBVIOUS
<1>3. j.message = m /\ j.stage # "idle"
  BY DEF At
<1>4. m \in Nat /\ m \in DOMAIN outbox
  BY <1>1 DEF QueueInv, OwnJobsOK, SweepOK
<1>5. TurnOK' /\ Written'
  BY <1>1, <1>4, RowsStay DEF QueueInv, Written
<1>6. CASE w = Sweeper
  <2>1. ASSUME NEW r \in DOMAIN outbox
        PROVE  SpareAt(r, outbox[r].attempts, job[r], j, sweep.list)
    <3>1. SpareAt(r, outbox[r].attempts, job[r], job[w], sweep.list) /\ outbox[r].attempts \in Nat
      BY <1>6, CountsAreNat DEF QueueInv, SparesOK, RowsCount
    <3> QED
      BY <1>1, <3>1, TheirsSends
  <2> HIDE DEF j
  <2>2. SweepOK' /\ OwnJobsOK' /\ SparesOK'
    BY <1>1, <1>2, <1>3, <1>4, <1>6, <2>1, TheirsWritten
  <2> QED
    BY <1>5, <2>2 DEF QueueInv
<1>7. CASE w # Sweeper
  <2>1. w \in DOMAIN outbox /\ m = w
    BY <1>1, <1>7 DEF QueueInv, OwnJobsOK
  <2>2. SpareAt(w, outbox[w].attempts, job[w], job[Sweeper], sweep.list) /\ outbox[w].attempts \in Nat
    BY <2>1, CountsAreNat DEF QueueInv, SparesOK, RowsCount
  <2>3. SpareAt(w, outbox[w].attempts, j, job[Sweeper], sweep.list)
    BY <1>1, <2>2, OwnSends
  <2> HIDE DEF j
  <2>4. SweepOK' /\ OwnJobsOK' /\ SparesOK'
    BY <1>1, <1>2, <1>3, <1>4, <1>7, <2>1, <2>3, OwnWritten
  <2> QED
    BY <1>5, <2>4 DEF QueueInv
<1> QED
  BY <1>6, <1>7

LEMMA RecordQueues == ASSUME OutboxInv, QueueInv, NEW w \in Jobs, Record(w) PROVE QueueInv'
<1> DEFINE m == job[w].message
           n == job[w].attempts
           row == Recorded(outbox[m], job[w])
           rest == DOMAIN outbox \ {m}
<1>1. /\ UNCHANGED <<accepted, sweep, troubles>> /\ job[w].stage = "recording"
      /\ job' = [job EXCEPT ![w] = Idle]
      /\ outbox' = [outbox EXCEPT ![m] = row]
      /\ turn' = Picked(turn, rest)
  BY DEF Record
<1>2. m \in Nat /\ m \in DOMAIN outbox /\ n \in Nat
  BY <1>1, CountsAreNat DEF QueueInv, OwnJobsOK, SweepOK
<1>3. row.attempts = n
  <2>1. outbox[m] \in Row
    BY <1>2 DEF OutboxInv, RowsOK
  <2>2. Counted(outbox[m], job[w]).attempts = n
    BY <2>1 DEF Counted, Row
  <2>3. Counted(outbox[m], job[w]) \in Row
    BY <1>2, <2>1 DEF Counted, Row
  <2> DEFINE c == Counted(outbox[m], job[w])
  <2>4. row = Sent(c) \/ row = GivenUp(c) \/ row = Retried(c)
    BY DEF Recorded
  <2> HIDE DEF c, row
  <2>5. c.attempts = n /\ c \in Row
    BY <2>2, <2>3 DEF c
  <2> QED
    BY <2>4, <2>5 DEF Sent, GivenUp, Retried, Row
<1>4. /\ DOMAIN outbox' = DOMAIN outbox
      /\ outbox'[m] = row
      /\ \A r \in DOMAIN outbox \ {m} : outbox'[r] = outbox[r]
  BY <1>1, <1>2 DEF OutboxInv, RowsOK
<1>5. Len(outbox') = Len(outbox)
  <2>1. outbox \in Seq(Row) /\ outbox' \in Seq(Row)
    BY RecordKeeps DEF OutboxInv, RowsOK
  <2> QED
    BY <1>4, <2>1, LenProperties
<1>6. Written'
  BY <1>1, <1>4, <1>5 DEF QueueInv, Written
<1>7. TurnOK'
  <2> HIDE DEF row, m, rest
  <2>1. /\ turn' \in Seq(DOMAIN outbox \cap rest)
        /\ IsInjective(turn')
        /\ \A j \in DOMAIN turn' : \E i \in DOMAIN turn : turn'[j] = turn[i]
    <3>1. turn \in Seq(DOMAIN outbox) /\ IsInjective(turn) /\ turn' = Picked(turn, rest)
      BY <1>1 DEF QueueInv, TurnOK
    <3>2. IsChoice(turn', turn, rest, DOMAIN outbox)
      BY <3>1, PickedIsALine
    <3> QED
      BY <3>2 DEF IsChoice
  <2>2. \A j \in DOMAIN turn' : turn'[j] \in rest
    BY <2>1
  <2>3. turn' \in Seq(DOMAIN outbox')
    <3>1. DOMAIN outbox \cap rest \subseteq DOMAIN outbox'
      BY <1>4
    <3> QED
      BY <2>1, <3>1
  <2>4. ASSUME NEW j \in DOMAIN turn' PROVE outbox'[turn'[j]].next = "due"
    <3>1. turn'[j] \in DOMAIN outbox \ {m}
      BY <2>2 DEF rest
    <3>2. PICK i \in DOMAIN turn : turn'[j] = turn[i]
      BY <2>1
    <3> QED
      BY <1>4, <3>1, <3>2 DEF QueueInv, TurnOK
  <2> QED
    BY <2>1, <2>3, <2>4 DEF TurnOK
<1> HIDE DEF row
<1>8. Idle.message \in Nat /\ Idle.stage = "idle"
  BY DEF Idle, At
<1>9. CASE w = Sweeper
  <2>1. ASSUME NEW r \in DOMAIN outbox
        PROVE  SpareAt(r, outbox'[r].attempts, job[r], Idle, sweep.list)
    <3>1. SpareAt(r, outbox[r].attempts, job[r], job[w], sweep.list) /\ outbox[r].attempts \in Nat
      BY <1>9, CountsAreNat DEF QueueInv, SparesOK, RowsCount
    <3>2. job[r].attempts \in Nat
      BY CountsAreNat, LimitsAreCounts DEF QueueInv, Written, Jobs
    <3>3. ~ Queued(sweep.list, m)
      BY <1>1, <1>9 DEF QueueInv, SweepOK
    <3>4. SpareAt(r, IF r = m THEN n ELSE outbox[r].attempts, job[r], Idle, sweep.list)
      BY <1>1, <1>2, <3>1, <3>2, <3>3, TheirsRecords
    <3> QED
      BY <1>3, <1>4, <3>4
  <2> HIDE DEF m, n
  <2>2. SweepOK' /\ OwnJobsOK' /\ SparesOK'
    BY <1>1, <1>4, <1>8, <1>9, <2>1, TheirsWritten
  <2> QED
    BY <1>6, <1>7, <2>2 DEF QueueInv
<1>10. CASE w # Sweeper
  <2>1. w \in DOMAIN outbox /\ m = w
    BY <1>1, <1>10 DEF QueueInv, OwnJobsOK
  <2>2. SpareAt(w, outbox[w].attempts, job[w], job[Sweeper], sweep.list) /\ outbox[w].attempts \in Nat
    BY <2>1, CountsAreNat DEF QueueInv, SparesOK, RowsCount
  <2>3. SpareAt(w, outbox'[w].attempts, Idle, job[Sweeper], sweep.list)
    BY <1>1, <1>2, <1>3, <1>4, <2>1, <2>2, OwnRecords
  <2> HIDE DEF m, n
  <2>4. SweepOK' /\ OwnJobsOK' /\ SparesOK'
    BY <1>1, <1>4, <1>8, <1>10, <2>1, <2>3, OwnWritten
  <2> QED
    BY <1>6, <1>7, <2>4 DEF QueueInv
<1> QED
  BY <1>9, <1>10

LEMMA EnqueueQueues == ASSUME OutboxInv, QueueInv, Enqueue PROVE QueueInv'
<1> DEFINE m == Len(outbox) + 1
           fresh == [status |-> "PENDING", attempts |-> 0, next |-> "due"]
<1>1. /\ UNCHANGED <<accepted, sweep, troubles>> /\ m <= MaxMessages
      /\ job' = [job EXCEPT ![m] = Deliver(m)]
      /\ outbox' = Append(outbox, fresh)
      /\ turn' = Append(turn, m)
  BY DEF Enqueue
<1>2. /\ outbox \in Seq(Row) /\ Len(outbox) \in Nat
      /\ DOMAIN outbox = 1 .. Len(outbox)
  BY CountsAreNat DEF OutboxInv, RowsOK
<1>3. m \in Jobs \ {Sweeper} /\ m \in Nat /\ m \notin DOMAIN outbox
  BY <1>1, <1>2, LimitsAreCounts DEF Jobs, Sweeper
<1>4. /\ DOMAIN outbox' = DOMAIN outbox \cup {m}
      /\ Len(outbox') = m
      /\ outbox'[m] = fresh
      /\ \A r \in DOMAIN outbox : outbox'[r] = outbox[r]
  <2> HIDE DEF fresh
  <2> QED
    BY <1>1, <1>2
<1>5. fresh.attempts = 0 /\ fresh.next = "due"
  OBVIOUS
<1>6. /\ Deliver(m).message = m /\ Deliver(m).stage = "reading"
  BY DEF Deliver, At
<1> HIDE DEF m, fresh
<1>7. job'[m] = Deliver(m) /\ \A v \in Jobs : v # m => job'[v] = job[v]
  BY <1>1, <1>3 DEF OutboxInv, JobsOK
<1>8. job'[Sweeper] = job[Sweeper]
  BY <1>3, <1>7, LimitsAreCounts DEF Jobs, Sweeper
<1>9. TurnOK'
  <2>1. turn \in Seq(DOMAIN outbox) /\ IsInjective(turn)
    BY DEF QueueInv, TurnOK
  <2>2. /\ turn' \in Seq(DOMAIN outbox')
        /\ DOMAIN turn' = DOMAIN turn \cup {Len(turn) + 1}
        /\ turn'[Len(turn) + 1] = m
        /\ \A i \in DOMAIN turn : turn'[i] = turn[i] /\ turn[i] \in DOMAIN outbox
    <3> DEFINE T == DOMAIN outbox \cup {m}
    <3>1. turn \in Seq(T) /\ m \in T /\ T = DOMAIN outbox'
      BY <2>1, <1>4
    <3>2. \A i \in DOMAIN turn : turn[i] \in DOMAIN outbox
      BY <2>1
    <3> HIDE DEF T
    <3> QED
      BY <1>1, <3>1, <3>2
  <2>3. IsInjective(turn')
    BY <1>3, <2>1, <2>2 DEF IsInjective
  <2>4. \A i \in DOMAIN turn' : outbox'[turn'[i]].next = "due"
    BY <1>4, <1>5, <2>2 DEF QueueInv, TurnOK
  <2> QED
    BY <2>2, <2>3, <2>4 DEF TurnOK
<1>10. SweepOK'
  <2>1. sweep.list \in Seq(DOMAIN outbox')
    <3>1. sweep.list \in Seq(DOMAIN outbox) /\ DOMAIN outbox \subseteq DOMAIN outbox'
      BY <1>4 DEF QueueInv, SweepOK
    <3> QED
      BY <3>1
  <2> QED
    BY <1>1, <1>4, <1>8, <2>1 DEF QueueInv, SweepOK
<1>11. OwnJobsOK'
  BY <1>3, <1>4, <1>6, <1>7 DEF QueueInv, OwnJobsOK
<1>12. SparesOK'
  <2> SUFFICES ASSUME NEW r \in DOMAIN outbox'
               PROVE  SpareAt(r, outbox'[r].attempts, job'[r], job'[Sweeper], sweep'.list)
    BY DEF SparesOK
  <2>1. CASE r = m
    <3>1. ~ Queued(sweep.list, m)
      BY <1>3 DEF QueueInv, SweepOK, Queued
    <3>2. job[Sweeper].stage # "idle" => job[Sweeper].message # m
      BY <1>3 DEF QueueInv, SweepOK
    <3> QED
      BY <1>1, <1>4, <1>5, <1>6, <1>7, <1>8, <2>1, <3>1, <3>2, LimitsAreCounts DEF SpareAt, InFlight
  <2>2. CASE r # m
    <3>1. r \in DOMAIN outbox /\ r \in Jobs
      BY <1>2, <1>4, <2>2, LimitsAreCounts DEF QueueInv, Written, Jobs
    <3> QED
      BY <1>1, <1>4, <1>7, <1>8, <2>2, <3>1 DEF QueueInv, SparesOK
  <2> QED
    BY <2>1, <2>2
<1>13. Written'
  BY <1>1, <1>4 DEF QueueInv, Written
<1> QED
  BY <1>9, <1>10, <1>11, <1>12, <1>13 DEF QueueInv

LEMMA StumbleQueues == ASSUME OutboxInv, QueueInv, NEW w \in Jobs, Stumble(w) PROVE QueueInv'
<1>1. /\ UNCHANGED <<outbox, turn, accepted, sweep>> /\ job[w].stage # "idle"
      /\ troubles < MaxTroubles /\ troubles' = troubles + 1
      /\ job' = [job EXCEPT ![w] = Idle]
  BY DEF Stumble
<1>2. TurnOK' /\ Written'
  <2>1. troubles' \in 0 .. MaxTroubles
    BY <1>1, LimitsAreCounts DEF QueueInv, Written
  <2> QED
    BY <1>1, <2>1, RowsStay DEF QueueInv, Written
<1>3. Idle.message \in Nat /\ Idle.stage = "idle"
  BY DEF Idle, At
<1>4. CASE w = Sweeper
  <2>1. ASSUME NEW r \in DOMAIN outbox
        PROVE  SpareAt(r, outbox[r].attempts, job[r], Idle, sweep.list)
    BY <1>4, CountsAreNat, TheirsDrops DEF QueueInv, SparesOK, RowsCount
  <2>2. SweepOK' /\ OwnJobsOK' /\ SparesOK'
    BY <1>1, <1>3, <1>4, <2>1, TheirsWritten
  <2> QED
    BY <1>2, <2>2 DEF QueueInv
<1>5. CASE w # Sweeper
  <2>1. w \in DOMAIN outbox
    BY <1>1, <1>5 DEF QueueInv, OwnJobsOK
  <2>2. SpareAt(w, outbox[w].attempts, Idle, job[Sweeper], sweep.list)
    BY <2>1, CountsAreNat, OwnDrops DEF QueueInv, SparesOK, RowsCount
  <2>3. SweepOK' /\ OwnJobsOK' /\ SparesOK'
    BY <1>1, <1>3, <1>5, <2>1, <2>2, OwnWritten
  <2> QED
    BY <1>2, <2>3 DEF QueueInv
<1> QED
  BY <1>4, <1>5

LEMMA SweepStartQueues == ASSUME OutboxInv, QueueInv, SweepStart PROVE QueueInv'
<1> DEFINE n == IF Len(Due) < Batch THEN Len(Due) ELSE Batch
           list == SubSeq(Due, 1, n)
           ready == {m \in DOMAIN outbox : IsDue(m)}
<1>1. /\ UNCHANGED <<outbox, turn, accepted, job, troubles>>
      /\ sweep.running = FALSE
      /\ sweep' = [running |-> TRUE, list |-> list]
  BY DEF SweepStart, QueueInv, SweepOK
<1>2. sweep.list = <<>> /\ job[Sweeper].stage = "idle"
  BY <1>1 DEF QueueInv, SweepOK
<1>3. TurnOK' /\ Written'
  BY <1>1, RowsStay DEF QueueInv, Written
<1>4. IsChoice(Due, turn, ready, DOMAIN outbox)
  <2>1. turn \in Seq(DOMAIN outbox) /\ IsInjective(turn) /\ Due = Picked(turn, ready)
    BY DEF QueueInv, TurnOK, Due
  <2> HIDE DEF ready
  <2> QED
    BY <2>1, PickedIsALine
<1>5. Due \in Seq(DOMAIN outbox) /\ IsInjective(Due) /\ \A i \in DOMAIN Due : Due[i] \in ready
  <2> HIDE DEF ready
  <2>1. Due \in Seq(DOMAIN outbox \cap ready) /\ IsInjective(Due)
    BY <1>4 DEF IsChoice
  <2>2. DOMAIN outbox \cap ready \subseteq DOMAIN outbox
    OBVIOUS
  <2> QED
    BY <2>1, <2>2
<1>6. /\ list \in Seq(DOMAIN outbox)
      /\ DOMAIN list = 1 .. n
      /\ \A i \in 1 .. n : i \in DOMAIN Due /\ list[i] = Due[i]
  <2> DEFINE T == DOMAIN outbox
             s == Due
  <2>1. s \in Seq(T) /\ Len(s) \in Nat /\ n \in Nat /\ n <= Len(s)
    BY <1>5, LimitsAreCounts
  <2> HIDE DEF T, s, n
  <2>2. /\ SubSeq(s, 1, n) \in Seq(T)
        /\ DOMAIN SubSeq(s, 1, n) = 1 .. n
        /\ \A i \in 1 .. n : i \in DOMAIN s /\ SubSeq(s, 1, n)[i] = s[i]
    BY <2>1
  <2> QED
    BY <2>2 DEF T, s
<1> HIDE DEF list, n
<1>7. IsInjective(list) /\ \A i \in DOMAIN list : list[i] \in ready
  <2> HIDE DEF ready
  <2> QED
    BY <1>5, <1>6 DEF IsInjective
<1>8. sweep'.list = list /\ sweep'.running = TRUE
  BY <1>1
<1>9. SweepOK'
  BY <1>1, <1>2, <1>6, <1>7, <1>8 DEF SweepOK
<1>10. OwnJobsOK'
  BY <1>1 DEF QueueInv, OwnJobsOK
<1>11. SparesOK'
  <2> SUFFICES ASSUME NEW r \in DOMAIN outbox
               PROVE  SpareAt(r, outbox[r].attempts, job[r], job[Sweeper], list)
    BY <1>1, <1>8 DEF SparesOK
  <2>1. SpareAt(r, outbox[r].attempts, job[r], job[Sweeper], <<>>)
    BY <1>2 DEF QueueInv, SparesOK
  <2>2. Queued(list, r) => outbox[r].attempts < MaxAttempts
    BY <1>7 DEF Queued, IsDue
  <2> QED
    BY <1>2, <2>1, <2>2, CountsAreNat, TheirsListed DEF RowsCount
<1> QED
  BY <1>3, <1>9, <1>10, <1>11 DEF QueueInv

LEMMA SweepNextQueues == ASSUME OutboxInv, QueueInv, SweepNext PROVE QueueInv'
<1> DEFINE list == sweep.list
           k == Deliver(Head(list))
<1>1. /\ UNCHANGED <<outbox, turn, accepted, troubles>>
      /\ sweep.running = TRUE /\ list # <<>> /\ job[Sweeper].stage = "idle"
      /\ job' = [job EXCEPT ![Sweeper] = k]
      /\ sweep' = [sweep EXCEPT !.list = Tail(list)]
  BY DEF SweepNext, QueueInv, SweepOK
<1>2. TurnOK' /\ Written'
  BY <1>1, RowsStay DEF QueueInv, Written
<1>3. /\ list \in Seq(DOMAIN outbox) /\ IsInjective(list)
      /\ sweep = [running |-> sweep.running, list |-> list]
  BY DEF QueueInv, SweepOK
<1>4. /\ sweep'.running = TRUE /\ sweep'.list = Tail(list)
      /\ sweep' = [running |-> sweep'.running, list |-> sweep'.list]
  BY <1>1, <1>3
<1>5. Sweeper \in Jobs /\ DOMAIN outbox \subseteq Jobs \ {Sweeper} /\ DOMAIN outbox \subseteq Nat
  BY CountsAreNat, LimitsAreCounts DEF QueueInv, Written, Jobs, Sweeper
<1>6. job'[Sweeper] = k /\ \A v \in Jobs : v # Sweeper => job'[v] = job[v]
  BY <1>1, <1>5 DEF OutboxInv, JobsOK
<1>7. k.stage = "reading" /\ k.message = Head(list)
  BY DEF Deliver, At
<1> DEFINE T == DOMAIN outbox
<1> HIDE DEF list, T, k
<1>8. list \in Seq(T)
  BY <1>3 DEF T
<1>9. /\ Head(list) \in T /\ Tail(list) \in Seq(T)
      /\ Head(list) = list[1] /\ 1 \in DOMAIN list
      /\ \A i \in DOMAIN Tail(list) : Tail(list)[i] = list[i + 1] /\ i + 1 \in DOMAIN list /\ i \in 1 .. Len(list)
  BY <1>1, <1>8
<1>10. IsInjective(Tail(list))
  BY <1>3, <1>9 DEF IsInjective
<1>11. ~ Queued(Tail(list), Head(list))
  BY <1>3, <1>9 DEF Queued, IsInjective
<1>12. SweepOK'
  BY <1>1, <1>4, <1>6, <1>7, <1>9, <1>10, <1>11 DEF SweepOK, T
<1>13. OwnJobsOK'
  BY <1>1, <1>5, <1>6, <1>7, <1>9 DEF QueueInv, OwnJobsOK, T
<1>14. SparesOK'
  <2> SUFFICES ASSUME NEW r \in DOMAIN outbox
               PROVE  SpareAt(r, outbox[r].attempts, job[r], k, Tail(list))
    BY <1>1, <1>4, <1>5, <1>6 DEF SparesOK
  <2>1. SpareAt(r, outbox[r].attempts, job[r], job[Sweeper], list) /\ outbox[r].attempts \in Nat
    BY CountsAreNat DEF QueueInv, SparesOK, RowsCount, list
  <2> QED
    BY <1>1, <1>8, <2>1, TheirsBegins DEF k
<1> QED
  BY <1>2, <1>12, <1>13, <1>14 DEF QueueInv

LEMMA SweepEndQueues == ASSUME OutboxInv, QueueInv, SweepEnd PROVE QueueInv'
<1>1. /\ UNCHANGED <<outbox, turn, accepted, troubles, job>>
      /\ sweep.list = <<>> /\ job[Sweeper].stage = "idle"
      /\ sweep' = [sweep EXCEPT !.running = FALSE]
  BY DEF SweepEnd
<1>2. sweep'.running = FALSE /\ sweep'.list = sweep.list /\ sweep' = [running |-> sweep'.running, list |-> sweep'.list]
  BY <1>1 DEF QueueInv, SweepOK
<1>3. TurnOK' /\ Written'
  BY <1>1, RowsStay DEF QueueInv, Written
<1> QED
  BY <1>1, <1>2, <1>3 DEF QueueInv, SweepOK, OwnJobsOK, SparesOK

LEMMA ElapseQueues == ASSUME OutboxInv, QueueInv, NEW m \in DOMAIN outbox, Elapse(m) PROVE QueueInv'
<1> DEFINE r == [outbox[m] EXCEPT !.next = "due"]
<1>1. /\ UNCHANGED <<accepted, job, sweep, troubles>> /\ outbox[m].next = "later"
      /\ outbox' = [outbox EXCEPT ![m] = r] /\ turn' = Append(turn, m)
  BY DEF Elapse
<1>2. r.next = "due" /\ r.attempts = outbox[m].attempts
  <2>1. outbox[m] \in Row
    BY DEF OutboxInv, RowsOK
  <2> QED
    BY <2>1 DEF Row
<1> HIDE DEF r
<1>3. /\ DOMAIN outbox' = DOMAIN outbox
      /\ outbox'[m] = r
      /\ \A s \in DOMAIN outbox \ {m} : outbox'[s] = outbox[s]
  BY <1>1 DEF OutboxInv, RowsOK
<1>4. Len(outbox') = Len(outbox)
  <2>1. outbox \in Seq(Row) /\ outbox' \in Seq(Row)
    BY ElapseKeeps DEF OutboxInv, RowsOK
  <2> QED
    BY <1>3, <2>1, LenProperties
<1>5. TurnOK'
  <2>1. turn \in Seq(DOMAIN outbox) /\ IsInjective(turn) /\ \A i \in DOMAIN turn : turn[i] # m
    BY <1>1 DEF QueueInv, TurnOK
  <2>2. /\ turn' \in Seq(DOMAIN outbox')
        /\ DOMAIN turn' = DOMAIN turn \cup {Len(turn) + 1}
        /\ turn'[Len(turn) + 1] = m
        /\ \A i \in DOMAIN turn : turn'[i] = turn[i] /\ turn[i] \in DOMAIN outbox
    <3> DEFINE T == DOMAIN outbox
    <3>1. turn \in Seq(T) /\ m \in T /\ T = DOMAIN outbox'
      BY <2>1, <1>3
    <3>2. \A i \in DOMAIN turn : turn[i] \in DOMAIN outbox
      BY <2>1
    <3> HIDE DEF T
    <3> QED
      BY <1>1, <3>1, <3>2
  <2>3. IsInjective(turn')
    BY <2>1, <2>2 DEF IsInjective
  <2>4. \A i \in DOMAIN turn' : outbox'[turn'[i]].next = "due"
    BY <1>2, <1>3, <2>1, <2>2 DEF QueueInv, TurnOK
  <2> QED
    BY <2>2, <2>3, <2>4 DEF TurnOK
<1>6. SweepOK' /\ OwnJobsOK' /\ Written'
  BY <1>1, <1>3, <1>4 DEF QueueInv, SweepOK, OwnJobsOK, Written
<1>7. SparesOK'
  BY <1>1, <1>2, <1>3 DEF QueueInv, SparesOK
<1> QED
  BY <1>5, <1>6, <1>7 DEF QueueInv

LEMMA AskQueues == ASSUME OutboxInv, QueueInv, NEW m \in DOMAIN outbox, Ask(m) PROVE QueueInv'
<1>1. UNCHANGED <<outbox, turn, accepted, job, sweep, troubles>>
  BY DEF Ask
<1> QED
  BY <1>1 DEF QueueInv, TurnOK, SweepOK, OwnJobsOK, SparesOK, Written

LEMMA AnswerQueues == ASSUME OutboxInv, QueueInv, NEW m \in DOMAIN outbox, Answer(m) PROVE QueueInv'
<1>1. UNCHANGED <<turn, accepted, job, sweep, troubles>>
  BY DEF Answer
<1>2. CASE UNCHANGED outbox
  BY <1>1, <1>2 DEF QueueInv, TurnOK, SweepOK, OwnJobsOK, SparesOK, Written
<1>3. ASSUME NEW verdict \in Verdicts, outbox' = [outbox EXCEPT ![m].status = verdict]
      PROVE  QueueInv'
  <2> DEFINE r == [outbox[m] EXCEPT !.status = verdict]
  <2>1. outbox[m] \in Row
    BY DEF OutboxInv, RowsOK
  <2>2. r.next = outbox[m].next /\ r.attempts = outbox[m].attempts /\ outbox' = [outbox EXCEPT ![m] = r]
    BY <1>3, <2>1 DEF Row
  <2> HIDE DEF r
  <2>3. /\ DOMAIN outbox' = DOMAIN outbox
        /\ \A s \in DOMAIN outbox : outbox'[s].next = outbox[s].next /\ outbox'[s].attempts = outbox[s].attempts
    BY <2>2 DEF OutboxInv, RowsOK
  <2>4. Len(outbox') = Len(outbox)
    <3>1. outbox \in Seq(Row) /\ outbox' \in Seq(Row)
      BY AnswerKeeps DEF OutboxInv, RowsOK
    <3> QED
      BY <2>3, <3>1, LenProperties
  <2>5. TurnOK'
    <3>1. \A i \in DOMAIN turn : turn[i] \in DOMAIN outbox
      BY DEF QueueInv, TurnOK
    <3> QED
      BY <1>1, <2>3, <3>1 DEF QueueInv, TurnOK
  <2> QED
    BY <1>1, <2>3, <2>4, <2>5 DEF QueueInv, SweepOK, OwnJobsOK, SparesOK, Written
<1> QED
  BY <1>2, <1>3 DEF Answer

LEMMA RestartQueues == ASSUME OutboxInv, QueueInv, Restart PROVE QueueInv'
<1>1. /\ UNCHANGED <<outbox, turn, accepted>>
      /\ troubles < MaxTroubles /\ troubles' = troubles + 1
      /\ job' = [w \in Jobs |-> Idle]
      /\ sweep' = [running |-> FALSE, list |-> <<>>]
  BY DEF Restart
<1>2. TurnOK' /\ Written'
  <2>1. troubles' \in 0 .. MaxTroubles
    BY <1>1, LimitsAreCounts DEF QueueInv, Written
  <2> QED
    BY <1>1, <2>1, RowsStay DEF QueueInv, Written
<1>3. Sweeper \in Jobs /\ DOMAIN outbox \subseteq Jobs
  BY CountsAreNat, LimitsAreCounts DEF QueueInv, Written, Jobs, Sweeper
<1>4. Idle.message \in Nat /\ Idle.stage = "idle"
  BY DEF Idle, At
<1>5. SweepOK'
  BY <1>1, <1>3, <1>4 DEF SweepOK, IsInjective
<1>6. OwnJobsOK'
  BY <1>1, <1>4 DEF OwnJobsOK
<1>7. SparesOK'
  <2> SUFFICES ASSUME NEW r \in DOMAIN outbox
               PROVE  SpareAt(r, outbox[r].attempts, Idle, Idle, <<>>)
    BY <1>1, <1>3 DEF SparesOK
  <2>1. outbox[r].attempts <= MaxAttempts + 1
    BY DEF QueueInv, SparesOK, SpareAt
  <2> QED
    BY <1>4, <2>1 DEF SpareAt, InFlight, Queued
<1> QED
  BY <1>2, <1>5, <1>6, <1>7 DEF QueueInv

LEMMA QueueNextKeeps == OutboxInv /\ QueueInv /\ [Next]_vars => QueueInv'
<1> SUFFICES ASSUME OutboxInv, QueueInv, [Next]_vars PROVE QueueInv'
  OBVIOUS
<1>1. CASE Enqueue
  BY <1>1, EnqueueQueues
<1>2. ASSUME NEW w \in Jobs, Attempt(w) \/ Stumble(w) PROVE QueueInv'
  BY <1>2, ReadQueues, SendQueues, RecordQueues, StumbleQueues DEF Attempt
<1>3. CASE SweepStart \/ SweepNext \/ SweepEnd
  BY <1>3, SweepStartQueues, SweepNextQueues, SweepEndQueues
<1>4. ASSUME NEW m \in DOMAIN outbox, Elapse(m) \/ Ask(m) \/ Answer(m) PROVE QueueInv'
  BY <1>4, ElapseQueues, AskQueues, AnswerQueues
<1>5. CASE Restart
  BY <1>5, RestartQueues
<1>6. CASE UNCHANGED vars
  BY <1>6 DEF vars, QueueInv, TurnOK, SweepOK, OwnJobsOK, SparesOK, Written
<1> QED
  BY <1>1, <1>2, <1>3, <1>4, <1>5, <1>6 DEF Next

LEMMA OutboxTyped == OutboxInv /\ QueueInv => TypeOK
<1> SUFFICES ASSUME OutboxInv, QueueInv PROVE TypeOK
  OBVIOUS
<1>1. outbox \in Seq(Row) /\ accepted \subseteq DOMAIN outbox /\ receipts \subseteq accepted
  BY DEF OutboxInv, RowsOK, AskedIsTaken, QueueInv, Written
<1>2. \A m \in DOMAIN outbox : outbox[m].attempts <= MaxAttempts + 1
  BY DEF QueueInv, SparesOK, SpareAt
<1>3. turn \in Seq(DOMAIN outbox) /\ IsInjective(turn)
  BY DEF QueueInv, TurnOK
<1>4. job \in [Jobs -> Job]
  <2>1. job = [w \in Jobs |-> job[w]]
    BY DEF OutboxInv, JobsOK
  <2>2. ASSUME NEW w \in Jobs PROVE job[w] \in Job
    <3>1. IsJob(job[w]) /\ job[w].message \in Nat
      BY DEF OutboxInv, JobsOK, QueueInv, OwnJobsOK
    <3> DEFINE j == job[w]
    <3>2. IsJob(j) /\ j.message \in Nat
      BY <3>1
    <3> HIDE DEF j
    <3>3. j \in Job
      BY <3>2 DEF IsJob, Job
    <3> QED
      BY <3>3 DEF j
  <2> QED
    BY <2>1, <2>2
<1>5. sweep \in [running: BOOLEAN, list: Seq(DOMAIN outbox)]
  BY DEF QueueInv, SweepOK
<1>6. troubles \in 0 .. MaxTroubles
  BY DEF QueueInv, Written
<1> QED
  BY <1>1, <1>2, <1>3, <1>4, <1>5, <1>6 DEF TypeOK

\* The count of attempts passes SMS_MAX_ATTEMPTS by one at most, however the
\* attempt that enqueue() fires and those of the sweeps overlap, late or lost.
THEOREM OutboxIsTyped == Spec => []TypeOK
BY OutboxInitHolds, OutboxNextKeeps, QueueInitHolds, QueueNextKeeps, OutboxTyped, PTL DEF Spec

-----------------------------------------------------------------------------
(* Campaigns                                                               *)

\* At most one request is inside send().
OneSender == \A s, t \in Senders : s = t

-----------------------------------------------------------------------------
(* The rows of the outbox                                                  *)

LEMMA PostingsAreFinite ==
  ASSUME postings \in Seq(Posting)
  PROVE  /\ \A c : IsFiniteSet(PostingsOf(c)) /\ Cardinality(PostingsOf(c)) \in Nat
         /\ \A m : IsFiniteSet(PostingsIn(m)) /\ Cardinality(PostingsIn(m)) \in Nat
<1>1. IsFiniteSet(DOMAIN postings)
  <2>1. DOMAIN postings = 1 .. Len(postings) /\ Len(postings) \in Nat
    OBVIOUS
  <2> QED
    BY <2>1, FS_Interval
<1>2. ASSUME NEW c PROVE IsFiniteSet(PostingsOf(c)) /\ Cardinality(PostingsOf(c)) \in Nat
  <2>1. PostingsOf(c) \subseteq DOMAIN postings
    BY DEF PostingsOf
  <2> QED
    BY <1>1, <2>1, FS_Subset, FS_CardinalityType
<1>3. ASSUME NEW m PROVE IsFiniteSet(PostingsIn(m)) /\ Cardinality(PostingsIn(m)) \in Nat
  <2>1. PostingsIn(m) \subseteq DOMAIN postings
    BY DEF PostingsIn
  <2> QED
    BY <1>1, <2>1, FS_Subset, FS_CardinalityType
<1> QED
  BY <1>2, <1>3

LEMMA Appended ==
  ASSUME postings \in Seq(Posting), NEW p \in Posting, postings' = Append(postings, p)
  PROVE  /\ postings' \in Seq(Posting)
         /\ DOMAIN postings' = DOMAIN postings \cup {Len(postings) + 1}
         /\ Len(postings) + 1 \notin DOMAIN postings
         /\ \A n \in DOMAIN postings : postings'[n] = postings[n]
         /\ postings'[Len(postings) + 1] = p
OBVIOUS

LEMMA OneMoreOf ==
  ASSUME postings \in Seq(Posting), NEW p \in Posting, postings' = Append(postings, p)
  PROVE  /\ PostingsOf(p.campaign)' = PostingsOf(p.campaign) \cup {Len(postings) + 1}
         /\ Cardinality(PostingsOf(p.campaign)') = Cardinality(PostingsOf(p.campaign)) + 1
         /\ \A c : c # p.campaign => PostingsOf(c)' = PostingsOf(c)
<1>1. PostingsOf(p.campaign)' = PostingsOf(p.campaign) \cup {Len(postings) + 1}
  BY Appended DEF PostingsOf
<1>2. Len(postings) + 1 \notin PostingsOf(p.campaign)
  BY Appended DEF PostingsOf
<1>3. Cardinality(PostingsOf(p.campaign)') = Cardinality(PostingsOf(p.campaign)) + 1
  BY <1>1, <1>2, PostingsAreFinite, FS_AddElement
<1>4. ASSUME NEW c, c # p.campaign PROVE PostingsOf(c)' = PostingsOf(c)
  BY <1>4, Appended DEF PostingsOf
<1> QED
  BY <1>1, <1>3, <1>4

LEMMA OneMoreIn ==
  ASSUME postings \in Seq(Posting), NEW p \in Posting, postings' = Append(postings, p)
  PROVE  /\ Cardinality(PostingsIn(p.month)') = Cardinality(PostingsIn(p.month)) + 1
         /\ \A m : m # p.month => PostingsIn(m)' = PostingsIn(m)
<1>1. PostingsIn(p.month)' = PostingsIn(p.month) \cup {Len(postings) + 1}
  BY Appended DEF PostingsIn
<1>2. Len(postings) + 1 \notin PostingsIn(p.month)
  BY Appended DEF PostingsIn
<1>3. Cardinality(PostingsIn(p.month)') = Cardinality(PostingsIn(p.month)) + 1
  BY <1>1, <1>2, PostingsAreFinite, FS_AddElement
<1>4. ASSUME NEW m, m # p.month PROVE PostingsIn(m)' = PostingsIn(m)
  BY <1>4, Appended DEF PostingsIn
<1> QED
  BY <1>3, <1>4

-----------------------------------------------------------------------------
(* The inductive invariant                                                 *)

\* What has not been marked has reached nobody.
UnmarkedIsUnsent ==
  \A c \in CampaignIds : campaign[c].status \in {"ABSENT", "DRAFT"} => PostingsOf(c) = {}

NoneFromTheFuture == \A n \in DOMAIN postings : postings[n].month <= month

\* What is yet to be queued fits into the month, whichever it is by now.
Fits(s) ==
  sender[s].stage # "away" =>
    /\ IsFiniteSet(sender[s].todo)
    /\ Cardinality(PostingsIn(month)) + Cardinality(sender[s].todo) <= Allowance

Marks(s) ==
  sender[s].stage = "marking" =>
    /\ campaign[sender[s].campaign].status = "DRAFT"
    /\ sender[s].sent = 0
    /\ sender[s].failed = 0

\* A send() at work has reached those it has counted and no one of its list.
Counts(s) ==
  sender[s].stage = "queueing" =>
    /\ campaign[sender[s].campaign].status = "SENDING"
    /\ \A n \in PostingsOf(sender[s].campaign) : postings[n].customer \notin sender[s].todo
    /\ sender[s].sent = Cardinality(PostingsOf(sender[s].campaign))
    /\ sender[s].sent + sender[s].failed + Cardinality(sender[s].todo)
         = campaign[sender[s].campaign].recipients

SendersOK == \A s \in Senders : Fits(s) /\ Marks(s) /\ Counts(s)

CampInv ==
  /\ CampTypeOK
  /\ UnmarkedIsUnsent
  /\ NoneFromTheFuture
  /\ SendersOK
  /\ NobodyTwice
  /\ AllowanceKept
  /\ ReportIsTrue

LEMMA CampInitHolds == CampInit => CampInv
<1> SUFFICES ASSUME CampInit PROVE CampInv
  OBVIOUS
<1>1. CampTypeOK
  BY AllowanceIsACount DEF CampInit, CampTypeOK, Campaign, Fresh, Tallied, Sender, Away, Progress
<1>2. DOMAIN postings = {}
  BY DEF CampInit
<1>3. UnmarkedIsUnsent /\ NoneFromTheFuture /\ NobodyTwice
  BY <1>2 DEF UnmarkedIsUnsent, NoneFromTheFuture, NobodyTwice, PostingsOf
<1>4. SendersOK
  BY DEF CampInit, SendersOK, Fits, Marks, Counts, Away, Progress
<1>5. AllowanceKept
  <2>1. \A m : PostingsIn(m) = {}
    BY <1>2 DEF PostingsIn
  <2> QED
    BY <2>1, FS_EmptySet, AllowanceIsACount DEF AllowanceKept
<1>6. ReportIsTrue
  BY DEF CampInit, ReportIsTrue, Fresh, Tallied
<1> QED
  BY <1>1, <1>3, <1>4, <1>5, <1>6 DEF CampInv

-----------------------------------------------------------------------------
(* Steps that queue nothing                                                *)

LEMMA SamePostings ==
  ASSUME postings' = postings
  PROVE  /\ \A c : PostingsOf(c)' = PostingsOf(c)
         /\ \A m : PostingsIn(m)' = PostingsIn(m)
BY DEF PostingsOf, PostingsIn

LEMMA CampaignsStay ==
  ASSUME CampInv, postings' = postings
  PROVE  NobodyTwice' /\ AllowanceKept'
BY SamePostings DEF CampInv, NobodyTwice, AllowanceKept

LEMMA MonthTurnsKeeps == ASSUME CampInv, MonthTurns PROVE CampInv'
<1>1. campaign' = campaign /\ postings' = postings /\ sender' = sender /\ month' = month + 1 /\ month < MaxMonths
  BY DEF MonthTurns
<1>2. CampTypeOK'
  BY <1>1, AllowanceIsACount DEF CampInv, CampTypeOK
<1>3. month \in Nat /\ \A n \in DOMAIN postings : postings[n].month \in Nat
  <2>1. \A n \in DOMAIN postings : postings[n] \in Posting
    BY DEF CampInv, CampTypeOK
  <2>2. \A n \in DOMAIN postings : postings[n].month \in 0 .. MaxMonths
    BY <2>1 DEF Posting
  <2> QED
    BY <2>2, AllowanceIsACount DEF CampInv, CampTypeOK
<1>4. UnmarkedIsUnsent' /\ ReportIsTrue'
  BY <1>1, SamePostings DEF CampInv, UnmarkedIsUnsent, ReportIsTrue
<1>5. NoneFromTheFuture'
  BY <1>1, <1>3 DEF CampInv, NoneFromTheFuture
<1>6. SendersOK'
  <2>1. PostingsIn(month') = {}
    BY <1>1, <1>3 DEF CampInv, NoneFromTheFuture, PostingsIn
  <2>2. PostingsIn(month)' = {}
    BY <1>1, <2>1 DEF PostingsIn
  <2>3. Cardinality(PostingsIn(month)') = 0
    BY <2>2, FS_EmptySet
  <2>4. ASSUME NEW s \in Senders PROVE Fits(s)'
    <3> SUFFICES ASSUME sender[s].stage # "away"
                 PROVE  /\ IsFiniteSet(sender[s].todo)
                        /\ 0 + Cardinality(sender[s].todo) <= Allowance
      BY <1>1, <2>3 DEF Fits
    <3>1. Cardinality(PostingsIn(month)) \in Nat
      BY PostingsAreFinite DEF CampInv, CampTypeOK
    <3>2. /\ IsFiniteSet(sender[s].todo)
          /\ Cardinality(PostingsIn(month)) + Cardinality(sender[s].todo) <= Allowance
      BY DEF CampInv, SendersOK, Fits
    <3> QED
      BY <3>1, <3>2, FS_CardinalityType, AllowanceIsACount
  <2>5. \A s \in Senders : Marks(s)' /\ Counts(s)'
    BY <1>1, SamePostings DEF CampInv, SendersOK, Marks, Counts
  <2> QED
    BY <2>4, <2>5 DEF SendersOK
<1> QED
  BY <1>1, <1>2, <1>4, <1>5, <1>6, CampaignsStay DEF CampInv

\* What stays true of the other parts when the rows and the month stay.
LEMMA QuietStep ==
  ASSUME CampInv, postings' = postings, month' = month, CampTypeOK', SendersOK',
         UnmarkedIsUnsent', ReportIsTrue'
  PROVE  CampInv'
<1>1. NoneFromTheFuture'
  BY DEF CampInv, NoneFromTheFuture
<1> QED
  BY <1>1, CampaignsStay DEF CampInv

LEMMA CreateCampaignKeeps == ASSUME CampInv, NEW c \in CampaignIds, Create(c) PROVE CampInv'
<1>1. /\ campaign[c].status = "ABSENT"
      /\ campaign' = [campaign EXCEPT ![c] = Fresh("DRAFT")]
      /\ postings' = postings /\ month' = month /\ sender' = sender
  BY DEF Create
<1>2. CampTypeOK'
  BY <1>1 DEF CampInv, CampTypeOK, Campaign, Fresh, Tallied
<1>3. \A d \in CampaignIds : campaign'[d] = IF d = c THEN Fresh("DRAFT") ELSE campaign[d]
  BY <1>1 DEF CampInv, CampTypeOK
<1>4. UnmarkedIsUnsent'
  BY <1>1, <1>3, SamePostings DEF CampInv, UnmarkedIsUnsent
<1>5. ReportIsTrue'
  BY <1>1, <1>3, SamePostings DEF CampInv, ReportIsTrue, Fresh, Tallied
<1>6. SendersOK'
  <2>1. ASSUME NEW s \in Senders PROVE Fits(s)' /\ Marks(s)' /\ Counts(s)'
    <3>1. Fits(s)'
      BY <1>1, SamePostings DEF CampInv, SendersOK, Fits
    <3>2. sender[s].stage # "away" => campaign'[sender[s].campaign] = campaign[sender[s].campaign]
      BY <1>1, <1>3 DEF CampInv, CampTypeOK, Sender, SendersOK, Marks, Counts
    <3> QED
      BY <1>1, <3>1, <3>2, SamePostings DEF CampInv, SendersOK, Marks, Counts
  <2> QED
    BY <2>1 DEF SendersOK
<1> QED
  BY <1>1, <1>2, <1>4, <1>5, <1>6, QuietStep

\* One send() at a time: what holds of the sender that moved holds of all.
LEMMA OnlySender ==
  ASSUME OneSender, NEW s \in Senders, CampTypeOK, NEW j, sender' = [sender EXCEPT ![s] = j],
         Fits(s)', Marks(s)', Counts(s)'
  PROVE  SendersOK' /\ sender'[s] = j
<1>1. \A t \in Senders : t = s
  BY DEF OneSender
<1> QED
  BY <1>1 DEF SendersOK, CampTypeOK

\* A sender moves on, and its campaign may be written.
LEMMA SenderMoves ==
  ASSUME CampTypeOK, NEW s \in Senders, NEW j \in Sender, j.stage # "away" => j.campaign \in CampaignIds,
         sender' = [sender EXCEPT ![s] = j],
         campaign' \in [CampaignIds -> Campaign], postings' = postings, month' = month
  PROVE  CampTypeOK'
<1>1. \A t \in Senders : sender'[t] = IF t = s THEN j ELSE sender[t]
  BY DEF CampTypeOK
<1>2. sender' \in [Senders -> Sender]
  BY DEF CampTypeOK
<1> QED
  BY <1>1, <1>2 DEF CampTypeOK

LEMMA AwayIsSender == Away \in Sender /\ Away.stage = "away"
BY DEF Away, Progress, Sender

LEMMA BeginSendKeeps ==
  ASSUME CampInv, OneSender, NEW s \in Senders, NEW c \in CampaignIds, NEW R \in SUBSET Customers,
         BeginSend(s, c, R)
  PROVE  CampInv'
<1> DEFINE j == Progress("marking", c, R, 0, 0)
<1>1. /\ campaign[c].status = "DRAFT"
      /\ HasCapacity(Cardinality(R))
      /\ sender' = [sender EXCEPT ![s] = j]
      /\ campaign' = campaign /\ postings' = postings /\ month' = month
  BY DEF BeginSend
<1>2. sender'[s] = j
  BY <1>1 DEF CampInv, CampTypeOK
<1>3. CampTypeOK'
  <2>1. j \in Sender /\ j.stage = "marking" /\ j.campaign = c
    BY DEF Progress, Sender
  <2>2. CampTypeOK /\ campaign' \in [CampaignIds -> Campaign]
    BY <1>1 DEF CampInv, CampTypeOK
  <2> QED
    BY <1>1, <2>1, <2>2, SenderMoves
<1>4. Fits(s)' /\ Marks(s)' /\ Counts(s)'
  <2>1. IsFiniteSet(R)
    BY AllowanceIsACount, FS_Subset
  <2> QED
    BY <1>1, <1>2, <2>1, SamePostings DEF Fits, Marks, Counts, HasCapacity, MarketingSms, Progress
<1>5. SendersOK'
  BY <1>1, <1>4, OnlySender DEF CampInv
<1>6. UnmarkedIsUnsent' /\ ReportIsTrue'
  BY <1>1, SamePostings DEF CampInv, UnmarkedIsUnsent, ReportIsTrue
<1> QED
  BY <1>1, <1>3, <1>5, <1>6, QuietStep

LEMMA MarkSendingKeeps ==
  ASSUME CampInv, OneSender, NEW s \in Senders, MarkSending(s)
  PROVE  CampInv'
<1> PICK c \in CampaignIds : c = sender[s].campaign
  BY DEF CampInv, CampTypeOK, MarkSending
<1> DEFINE old == sender[s]
           n == Cardinality(old.todo)
           j == Progress("queueing", c, old.todo, 0, 0)
           row == Tallied("SENDING", n, campaign[c].sent, campaign[c].failed)
<1>1. old \in Sender /\ campaign[c] \in Campaign /\ old.stage = "marking"
  BY DEF CampInv, CampTypeOK, MarkSending
<1>2. /\ campaign' = [campaign EXCEPT ![c] = row]
      /\ sender' = [sender EXCEPT ![s] = j]
      /\ postings' = postings /\ month' = month
  BY DEF MarkSending
<1>3. sender'[s] = j /\ campaign'[c] = row
  BY <1>2 DEF CampInv, CampTypeOK
<1>4. campaign[c].status = "DRAFT" /\ old.sent = 0 /\ old.failed = 0 /\ Fits(s) /\ PostingsOf(c) = {}
  BY <1>1 DEF CampInv, SendersOK, Marks, UnmarkedIsUnsent
<1>5. n \in Nat
  BY <1>1, <1>4, FS_CardinalityType DEF Fits
<1>6. CampTypeOK'
  <2>1. j \in Sender /\ j.campaign \in CampaignIds
    BY <1>1 DEF Sender, Progress
  <2>2. row \in Campaign
    BY <1>1, <1>5 DEF Campaign, Tallied
  <2>3. CampTypeOK /\ campaign' \in [CampaignIds -> Campaign]
    BY <1>2, <2>2 DEF CampInv, CampTypeOK
  <2> QED
    BY <1>2, <2>1, <2>3, SenderMoves
<1>7. \A d \in CampaignIds : campaign'[d] = IF d = c THEN row ELSE campaign[d]
  BY <1>2 DEF CampInv, CampTypeOK
<1>8. Fits(s)' /\ Marks(s)'
  BY <1>1, <1>2, <1>3, <1>4, SamePostings DEF Fits, Marks, Progress
<1>9. Counts(s)'
  <2>1. PostingsOf(c)' = {}
    BY <1>2, <1>4, SamePostings
  <2>2. Cardinality(PostingsOf(c)') = 0
    BY <2>1, FS_EmptySet
  <2>3. PostingsOf(sender[s].campaign)' = {} /\ Cardinality(PostingsOf(sender[s].campaign)') = 0
    BY <1>2, <1>3, <2>1, <2>2 DEF PostingsOf, Progress
  <2> QED
    BY <1>3, <1>4, <1>5, <2>3 DEF Counts, Progress, Tallied
<1>10. SendersOK'
  BY <1>2, <1>8, <1>9, OnlySender DEF CampInv
<1>11. UnmarkedIsUnsent' /\ ReportIsTrue'
  BY <1>2, <1>7, SamePostings DEF CampInv, UnmarkedIsUnsent, ReportIsTrue, Tallied
<1> QED
  BY <1>2, <1>6, <1>10, <1>11, QuietStep

LEMMA FinishSendKeeps ==
  ASSUME CampInv, OneSender, NEW s \in Senders, FinishSend(s)
  PROVE  CampInv'
<1> PICK c \in CampaignIds : c = sender[s].campaign
  BY DEF CampInv, CampTypeOK, FinishSend
<1> DEFINE old == sender[s]
           row == Tallied("SENT", campaign[c].recipients, old.sent, old.failed)
<1>1. old \in Sender /\ campaign[c] \in Campaign /\ old.stage = "queueing" /\ old.todo = {}
  BY DEF CampInv, CampTypeOK, FinishSend
<1>2. /\ campaign' = [campaign EXCEPT ![c] = row]
      /\ sender' = [sender EXCEPT ![s] = Away]
      /\ postings' = postings /\ month' = month
  BY DEF FinishSend
<1>3. /\ old.sent = Cardinality(PostingsOf(c))
      /\ old.sent + old.failed = campaign[c].recipients
  <2>1. old.sent + old.failed + Cardinality({}) = campaign[c].recipients
    BY <1>1 DEF CampInv, SendersOK, Counts
  <2>2. old.sent \in Nat /\ old.failed \in Nat /\ Cardinality({}) = 0
    BY <1>1, FS_EmptySet DEF Sender
  <2> QED
    BY <1>1, <2>1, <2>2 DEF CampInv, SendersOK, Counts
<1>4. CampTypeOK'
  <2>1. row \in Campaign
    BY <1>1 DEF Campaign, Sender, Tallied
  <2>2. CampTypeOK /\ campaign' \in [CampaignIds -> Campaign]
    BY <1>2, <2>1 DEF CampInv, CampTypeOK
  <2> QED
    BY <1>2, <2>2, SenderMoves, AwayIsSender
<1>5. \A d \in CampaignIds : campaign'[d] = IF d = c THEN row ELSE campaign[d]
  BY <1>2 DEF CampInv, CampTypeOK
<1>6. SendersOK'
  <2>1. sender'[s] = Away
    BY <1>2 DEF CampInv, CampTypeOK
  <2>2. Fits(s)' /\ Marks(s)' /\ Counts(s)'
    BY <2>1 DEF Fits, Marks, Counts, Away, Progress
  <2> QED
    BY <1>2, <2>2, OnlySender DEF CampInv
<1>7. UnmarkedIsUnsent' /\ ReportIsTrue'
  BY <1>2, <1>3, <1>5, SamePostings DEF CampInv, UnmarkedIsUnsent, ReportIsTrue, Tallied
<1> QED
  BY <1>2, <1>4, <1>6, <1>7, QuietStep

LEMMA BreakOffKeeps ==
  ASSUME CampInv, OneSender, NEW s \in Senders, BreakOff(s)
  PROVE  CampInv'
<1>1. /\ sender' = [sender EXCEPT ![s] = Away]
      /\ campaign' = campaign /\ postings' = postings /\ month' = month
  BY DEF BreakOff
<1>2. CampTypeOK'
  <2>1. CampTypeOK /\ campaign' \in [CampaignIds -> Campaign]
    BY <1>1 DEF CampInv, CampTypeOK
  <2> QED
    BY <1>1, <2>1, SenderMoves, AwayIsSender
<1>3. SendersOK'
  <2>1. sender'[s] = Away
    BY <1>1 DEF CampInv, CampTypeOK
  <2>2. Fits(s)' /\ Marks(s)' /\ Counts(s)'
    BY <2>1 DEF Fits, Marks, Counts, Away, Progress
  <2> QED
    BY <1>1, <2>2, OnlySender DEF CampInv
<1>4. UnmarkedIsUnsent' /\ ReportIsTrue'
  BY <1>1, SamePostings DEF CampInv, UnmarkedIsUnsent, ReportIsTrue
<1> QED
  BY <1>1, <1>2, <1>3, <1>4, QuietStep

-----------------------------------------------------------------------------
(* The next recipient                                                      *)

\* A sender is typed whatever becomes of its next recipient.
LEMMA NextRecipient ==
  ASSUME CampInv, NEW s \in Senders, NEW r \in Customers, sender[s].stage = "queueing", r \in sender[s].todo
  PROVE  /\ sender[s] \in Sender
         /\ sender[s].campaign \in CampaignIds
         /\ IsFiniteSet(sender[s].todo \ {r})
         /\ Cardinality(sender[s].todo) \in Nat
         /\ Cardinality(sender[s].todo \ {r}) = Cardinality(sender[s].todo) - 1
         /\ Fits(s) /\ Counts(s)
<1>1. Fits(s) /\ Counts(s)
  BY DEF CampInv, SendersOK
<1>2. IsFiniteSet(sender[s].todo)
  BY <1>1 DEF Fits
<1> QED
  BY <1>1, <1>2, FS_RemoveElement, FS_CardinalityType DEF CampInv, CampTypeOK

LEMMA RefuseKeeps ==
  ASSUME CampInv, OneSender, NEW s \in Senders, NEW r \in Customers, Refuse(s, r)
  PROVE  CampInv'
<1> PICK c \in CampaignIds : c = sender[s].campaign
  BY NextRecipient DEF Refuse
<1> DEFINE old == sender[s]
           j == Progress("queueing", c, old.todo \ {r}, old.sent, old.failed + 1)
<1>1. old.stage = "queueing" /\ r \in old.todo
  BY DEF Refuse
<1>2. /\ old \in Sender
      /\ IsFiniteSet(old.todo \ {r})
      /\ Cardinality(old.todo) \in Nat
      /\ Cardinality(old.todo \ {r}) = Cardinality(old.todo) - 1
      /\ Fits(s) /\ Counts(s)
  BY <1>1, NextRecipient
<1>3. /\ sender' = [sender EXCEPT ![s] = j]
      /\ campaign' = campaign /\ postings' = postings /\ month' = month
  BY DEF Refuse
<1>4. sender'[s] = j
  BY <1>3 DEF CampInv, CampTypeOK
<1>5. CampTypeOK'
  <2>1. j \in Sender /\ j.campaign \in CampaignIds
    BY <1>2 DEF Sender, Progress
  <2>2. CampTypeOK /\ campaign' \in [CampaignIds -> Campaign]
    BY <1>3 DEF CampInv, CampTypeOK
  <2> QED
    BY <1>3, <2>1, <2>2, SenderMoves
<1>6. old.sent \in Nat /\ old.failed \in Nat /\ Cardinality(PostingsIn(month)) \in Nat
  BY <1>2, PostingsAreFinite DEF Sender, CampInv, CampTypeOK
<1>7. Fits(s)' /\ Marks(s)'
  <2>1. sender'[s].stage = "queueing" /\ sender'[s].todo = old.todo \ {r}
    BY <1>4 DEF Progress
  <2>2. Cardinality(PostingsIn(month)) + Cardinality(old.todo) <= Allowance
    BY <1>1, <1>2 DEF Fits
  <2>3. PostingsIn(month)' = PostingsIn(month)
    BY <1>3, SamePostings
  <2>4. Cardinality(PostingsIn(month)) + (Cardinality(old.todo) - 1) <= Allowance
    BY <1>2, <1>6, <2>2, AllowanceIsACount
  <2> QED
    BY <1>2, <2>1, <2>3, <2>4 DEF Fits, Marks
<1>8. Counts(s)'
  <2>1. PostingsOf(sender[s].campaign)' = PostingsOf(c)
    BY <1>3, <1>4 DEF PostingsOf, Progress
  <2>2. /\ sender'[s].campaign = c /\ sender'[s].todo = old.todo \ {r}
        /\ sender'[s].sent = old.sent /\ sender'[s].failed = old.failed + 1
    BY <1>4 DEF Progress
  <2>3. /\ campaign[c].status = "SENDING"
        /\ \A n \in PostingsOf(c) : postings[n].customer \notin old.todo
        /\ old.sent = Cardinality(PostingsOf(c))
        /\ old.sent + old.failed + Cardinality(old.todo) = campaign[c].recipients
    BY <1>1, <1>2 DEF Counts
  <2>4. old.sent + (old.failed + 1) + (Cardinality(old.todo) - 1) = campaign[c].recipients
    BY <1>2, <1>6, <2>3
  <2> QED
    BY <1>2, <1>3, <2>1, <2>2, <2>3, <2>4 DEF Counts
<1>9. SendersOK'
  BY <1>3, <1>7, <1>8, OnlySender DEF CampInv
<1>10. UnmarkedIsUnsent' /\ ReportIsTrue'
  BY <1>3, SamePostings DEF CampInv, UnmarkedIsUnsent, ReportIsTrue
<1> QED
  BY <1>3, <1>5, <1>9, <1>10, QuietStep

LEMMA PostKeeps ==
  ASSUME CampInv, OneSender, NEW s \in Senders, NEW r \in Customers, Post(s, r)
  PROVE  CampInv'
<1> PICK c \in CampaignIds : c = sender[s].campaign
  BY NextRecipient DEF Post
<1> PICK m \in 0 .. MaxMonths : m = month
  BY DEF CampInv, CampTypeOK
<1> DEFINE old == sender[s]
           p == [campaign |-> c, customer |-> r, month |-> m]
           j == Progress("queueing", c, old.todo \ {r}, old.sent + 1, old.failed)
<1>1. old.stage = "queueing" /\ r \in old.todo
  BY DEF Post
<1>2. /\ old \in Sender
      /\ IsFiniteSet(old.todo \ {r})
      /\ Cardinality(old.todo) \in Nat
      /\ Cardinality(old.todo \ {r}) = Cardinality(old.todo) - 1
      /\ Fits(s) /\ Counts(s)
  BY <1>1, NextRecipient
<1>3. /\ sender' = [sender EXCEPT ![s] = j]
      /\ campaign' = campaign /\ month' = month
      /\ postings' = Append(postings, p)
  BY DEF Post
<1>4. sender'[s] = j
  BY <1>3 DEF CampInv, CampTypeOK
<1>5. p \in Posting /\ postings \in Seq(Posting) /\ p.campaign = c /\ p.month = m /\ p.customer = r
  BY DEF Posting, CampInv, CampTypeOK
<1>6. /\ PostingsOf(c)' = PostingsOf(c) \cup {Len(postings) + 1}
      /\ Cardinality(PostingsOf(c)') = Cardinality(PostingsOf(c)) + 1
      /\ \A d : d # c => PostingsOf(d)' = PostingsOf(d)
  BY <1>3, <1>5, OneMoreOf
<1>7. /\ Cardinality(PostingsIn(m)') = Cardinality(PostingsIn(m)) + 1
      /\ \A k : k # m => PostingsIn(k)' = PostingsIn(k)
  BY <1>3, <1>5, OneMoreIn
<1>8. /\ DOMAIN postings' = DOMAIN postings \cup {Len(postings) + 1}
      /\ Len(postings) + 1 \notin DOMAIN postings
      /\ \A n \in DOMAIN postings : postings'[n] = postings[n]
      /\ postings'[Len(postings) + 1] = p
      /\ postings' \in Seq(Posting)
  BY <1>3, <1>5, Appended
<1>9. /\ campaign[c].status = "SENDING"
      /\ \A n \in PostingsOf(c) : postings[n].customer \notin old.todo
      /\ old.sent = Cardinality(PostingsOf(c))
      /\ old.sent + old.failed + Cardinality(old.todo) = campaign[c].recipients
  BY <1>1, <1>2 DEF Counts
<1>10. /\ old.sent \in Nat /\ old.failed \in Nat
       /\ Cardinality(PostingsIn(m)) \in Nat
       /\ Cardinality(PostingsIn(m)) + Cardinality(old.todo) <= Allowance
  BY <1>1, <1>2, <1>5, PostingsAreFinite DEF Sender, Fits
<1>11. /\ sender'[s].campaign = c /\ sender'[s].todo = old.todo \ {r}
       /\ sender'[s].sent = old.sent + 1 /\ sender'[s].failed = old.failed
       /\ sender'[s].stage = "queueing"
  BY <1>4 DEF Progress
<1>12. CampTypeOK'
  <2>1. j \in Sender /\ j.campaign \in CampaignIds
    BY <1>2 DEF Sender, Progress
  <2>2. sender' \in [Senders -> Sender]
    BY <1>3, <2>1 DEF CampInv, CampTypeOK
  <2>3. \A t \in Senders : sender'[t] = IF t = s THEN j ELSE sender[t]
    BY <1>3 DEF CampInv, CampTypeOK
  <2> QED
    BY <1>3, <1>8, <2>1, <2>2, <2>3 DEF CampInv, CampTypeOK
<1>13. UnmarkedIsUnsent'
  BY <1>3, <1>6, <1>9 DEF CampInv, UnmarkedIsUnsent
<1>14. NoneFromTheFuture'
  BY <1>3, <1>5, <1>8 DEF CampInv, NoneFromTheFuture
<1>15. NobodyTwice'
  <2>1. \A n \in DOMAIN postings : ~ (postings[n].campaign = c /\ postings[n].customer = r)
    BY <1>1, <1>9 DEF PostingsOf
  <2> QED
    BY <1>5, <1>8, <2>1 DEF CampInv, NobodyTwice
<1>16. AllowanceKept'
  <2>1. Cardinality(PostingsIn(m)) + 1 <= Allowance
    BY <1>1, <1>2, <1>10, FS_CardinalityType, FS_EmptySet, AllowanceIsACount
  <2> QED
    BY <1>7, <2>1 DEF CampInv, AllowanceKept
<1>17. ReportIsTrue'
  BY <1>3, <1>6, <1>9 DEF CampInv, ReportIsTrue
<1>18. SendersOK'
  <2>1. PostingsIn(month)' = PostingsIn(m)' /\ PostingsOf(sender[s].campaign)' = PostingsOf(c)'
    BY <1>3, <1>11 DEF PostingsIn, PostingsOf
  <2>2. Fits(s)'
    BY <1>2, <1>7, <1>10, <1>11, <2>1, AllowanceIsACount DEF Fits
  <2>3. \A n \in PostingsOf(c)' : postings'[n].customer \notin old.todo \ {r}
    <3>1. \A n \in PostingsOf(c) : postings'[n] = postings[n]
      BY <1>8 DEF PostingsOf
    <3> QED
      BY <1>5, <1>6, <1>8, <1>9, <3>1
  <2>4. (old.sent + 1) + old.failed + (Cardinality(old.todo) - 1) = campaign[c].recipients
    BY <1>2, <1>9, <1>10
  <2>5. Marks(s)' /\ Counts(s)'
    BY <1>2, <1>3, <1>6, <1>9, <1>11, <2>1, <2>3, <2>4 DEF Marks, Counts
  <2> QED
    BY <1>3, <2>2, <2>5, OnlySender DEF CampInv
<1> QED
  BY <1>12, <1>13, <1>14, <1>15, <1>16, <1>17, <1>18 DEF CampInv

LEMMA CampStutterKeeps == ASSUME CampInv, UNCHANGED campVars PROVE CampInv'
<1>1. campaign' = campaign /\ postings' = postings /\ month' = month /\ sender' = sender
  BY DEF campVars
<1>2. CampTypeOK' /\ UnmarkedIsUnsent' /\ ReportIsTrue'
  BY <1>1, SamePostings DEF CampInv, CampTypeOK, UnmarkedIsUnsent, ReportIsTrue
<1>3. SendersOK'
  BY <1>1, SamePostings DEF CampInv, SendersOK, Fits, Marks, Counts
<1> QED
  BY <1>1, <1>2, <1>3, QuietStep

LEMMA CampNextKeeps == OneSender /\ CampInv /\ [CampNext]_campVars => CampInv'
<1> SUFFICES ASSUME OneSender, CampInv, [CampNext]_campVars PROVE CampInv'
  OBVIOUS
<1>1. CASE MonthTurns
  BY <1>1, MonthTurnsKeeps
<1>2. ASSUME NEW c \in CampaignIds, Create(c) PROVE CampInv'
  BY <1>2, CreateCampaignKeeps
<1>3. ASSUME NEW s \in Senders, NEW c \in CampaignIds, NEW R \in SUBSET Customers, BeginSend(s, c, R)
      PROVE  CampInv'
  BY <1>3, BeginSendKeeps
<1>4. ASSUME NEW s \in Senders, NEW r \in Customers, Post(s, r) \/ Refuse(s, r) PROVE CampInv'
  BY <1>4, PostKeeps, RefuseKeeps
<1>5. ASSUME NEW s \in Senders, MarkSending(s) \/ FinishSend(s) \/ BreakOff(s) PROVE CampInv'
  BY <1>5, MarkSendingKeeps, FinishSendKeeps, BreakOffKeeps
<1> QED
  BY <1>1, <1>2, <1>3, <1>4, <1>5, CampStutterKeeps DEF CampNext

-----------------------------------------------------------------------------
LEMMA CampInvHolds == OneSender => (CampSpec => []CampInv)
<1> SUFFICES ASSUME OneSender PROVE CampSpec => []CampInv
  OBVIOUS
<1>1. CampInv /\ [CampNext]_campVars => CampInv'
  BY CampNextKeeps
<1> QED
  BY CampInitHolds, <1>1, PTL DEF CampSpec

\* No customer gets a campaign twice, for one send() at a time: the campaign
\* is marked before the first message is queued, and no list holds anybody
\* who was reached.
THEOREM NobodyIsReachedTwice == OneSender => (CampSpec => []NobodyTwice)
<1>1. CampInv => NobodyTwice
  BY DEF CampInv
<1> QED
  BY <1>1, CampInvHolds, PTL

\* Every month stays within the allowance, for one send() at a time, though it
\* is looked at once: what is yet to be queued still fits, in the month it was
\* measured in and in every later one.
THEOREM AllowanceIsKept == OneSender => (CampSpec => []AllowanceKept)
<1>1. CampInv => AllowanceKept
  BY DEF CampInv
<1> QED
  BY <1>1, CampInvHolds, PTL

\* A SENT campaign reports the rows it wrote, and every recipient is in its
\* counts.
THEOREM ReportStaysTrue == OneSender => (CampSpec => []ReportIsTrue)
<1>1. CampInv => ReportIsTrue
  BY DEF CampInv
<1> QED
  BY <1>1, CampInvHolds, PTL
=============================================================================
