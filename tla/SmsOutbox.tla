------------------------------ MODULE SmsOutbox ------------------------------
(***************************************************************************)
(* The SMS outbox: sms.service.ts and sms.worker.ts. A message is a row    *)
(* before it is anything else. enqueue() writes the row and fires one      *)
(* attempt that nobody waits for; a sweep every minute retries the rows    *)
(* whose time has come, one after the other; a second sweep asks the       *)
(* provider what became of the messages it took. All three run in one      *)
(* process, interleave at every await and share nothing but the rows.      *)
(*                                                                         *)
(* Time is abstracted to what queryDue() compares: the next attempt of a   *)
(* row is "due", "later" or "never", and turn holds the due rows in the    *)
(* order of their nextAttemptAt.                                           *)
(***************************************************************************)
EXTENDS Integers, Sequences, FiniteSets, SequencesExt

CONSTANTS
    MaxMessages,    \* bound: rows ever written
    MaxAttempts,    \* SMS_MAX_ATTEMPTS
    Batch,          \* rows one sweep takes (25 in the worker)
    MaxTroubles     \* bound: restarts of the process and errors of the database

ASSUME LimitsAreCounts ==
    /\ MaxMessages \in Nat
    /\ MaxAttempts \in Nat \ {0}
    /\ Batch \in Nat \ {0}
    /\ MaxTroubles \in Nat

VARIABLES
    outbox,      \* the table sms_messages, a row per message in order of creation
    turn,        \* the due rows, oldest nextAttemptAt first
    accepted,    \* messages the provider took, whatever the API heard of it
    job,         \* the deliver() running for each message, and the sweep's under 0
    sweep,       \* the worker: its running flag and the ids it has yet to try
    receipts,    \* messages whose delivery reconcile() is asking about
    troubles     \* restarts and database errors so far

vars == <<outbox, turn, accepted, job, sweep, receipts, troubles>>

Statuses == {"PENDING", "SENT", "DELIVERED", "FAILED"}
Row == [status: Statuses, attempts: Nat, next: {"due", "later", "never"}]

\* Jobs 1, 2, ... are the attempts fired by enqueue(), job 0 the sweep's.
Sweeper == 0
Jobs == 0 .. MaxMessages
At(stage, m, n, ok) == [stage |-> stage, message |-> m, attempts |-> n, ok |-> ok]
Idle == At("idle", 0, 0, FALSE)
Deliver(m) == At("reading", m, 0, FALSE)
Job == [stage: {"idle", "reading", "sending", "recording"},
        message: Nat, attempts: Nat, ok: BOOLEAN]

Init ==
    /\ outbox = <<>>
    /\ turn = <<>>
    /\ accepted = {}
    /\ job = [w \in Jobs |-> Idle]
    /\ sweep = [running |-> FALSE, list |-> <<>>]
    /\ receipts = {}
    /\ troubles = 0

-----------------------------------------------------------------------------
(* enqueue(): the row, due at once, and the attempt that is fired with it.  *)
(* Its callers are the order events and the campaigns. That it returns null, *)
(* for an unreadable number or a failed insert, changes nothing here.       *)

Enqueue ==
    LET m == Len(outbox) + 1
    IN  /\ m <= MaxMessages
        /\ outbox' = Append(outbox, [status |-> "PENDING", attempts |-> 0, next |-> "due"])
        /\ turn' = Append(turn, m)
        /\ job' = [job EXCEPT ![m] = Deliver(m)]
        /\ UNCHANGED <<accepted, sweep, receipts, troubles>>

-----------------------------------------------------------------------------
(* deliver(), from its read over the provider to its write.                 *)

\* The members of s that are in S, in the order they have in s.
Picked(s, S) ==
    LET places == {i \in DOMAIN s : s[i] \in S}
        Place(j) == CHOOSE i \in places : Cardinality({h \in places : h <= i}) = j
    IN  [j \in 1 .. Cardinality(places) |-> s[Place(j)]]

Read(w) ==
    LET m == job[w].message
    IN  /\ job[w].stage = "reading"
        /\ IF m \notin DOMAIN outbox \/ outbox[m].status \in {"SENT", "DELIVERED"}
             THEN job' = [job EXCEPT ![w] = Idle]
             ELSE job' = [job EXCEPT ![w] = At("sending", m, outbox[m].attempts + 1, FALSE)]
        /\ UNCHANGED <<outbox, turn, accepted, sweep, receipts, troubles>>

\* The provider takes the message or not, and the API hears of it or not: a
\* timeout of 15 seconds reads as a refusal.
Send(w) ==
    /\ job[w].stage = "sending"
    /\ \E taken, heard \in BOOLEAN :
         /\ job' = [job EXCEPT ![w] = At("recording", @.message, @.attempts, taken /\ heard)]
         /\ accepted' = IF taken THEN accepted \cup {job[w].message} ELSE accepted
    /\ UNCHANGED <<outbox, turn, sweep, receipts, troubles>>

Sent(row) == [row EXCEPT !.status = "SENT", !.next = "never"]
GivenUp(row) == [row EXCEPT !.status = "FAILED", !.next = "never"]
Retried(row) == [row EXCEPT !.status = "PENDING", !.next = "later"]
Counted(row, j) == [row EXCEPT !.attempts = j.attempts]

\* Mutant: exhausted is attempts > SMS_MAX_ATTEMPTS.
RecordedOneMore(row, j) ==
    CASE j.ok -> Sent(Counted(row, j))
      [] ~ j.ok /\ j.attempts > MaxAttempts -> GivenUp(Counted(row, j))
      [] OTHER -> Retried(Counted(row, j))

\* The update deliver() makes of the row, whatever the row holds by now.
Recorded(row, j) ==
    CASE j.ok -> Sent(Counted(row, j))
      [] ~ j.ok /\ j.attempts >= MaxAttempts -> GivenUp(Counted(row, j))
      [] OTHER -> Retried(Counted(row, j))

Record(w) ==
    LET m == job[w].message
    IN  /\ job[w].stage = "recording"
        /\ outbox' = [outbox EXCEPT ![m] = Recorded(@, job[w])]
        /\ turn' = Picked(turn, DOMAIN outbox \ {m})
        /\ job' = [job EXCEPT ![w] = Idle]
        /\ UNCHANGED <<accepted, sweep, receipts, troubles>>

\* Any of its queries throws: the error is logged and the row stays as it is.
Stumble(w) ==
    /\ troubles < MaxTroubles
    /\ job[w].stage \in {"reading", "recording"}
    /\ job' = [job EXCEPT ![w] = Idle]
    /\ troubles' = troubles + 1
    /\ UNCHANGED <<outbox, turn, accepted, sweep, receipts>>

Attempt(w) == Read(w) \/ Send(w) \/ Record(w)

-----------------------------------------------------------------------------
(* processQueue(), every minute.                                            *)

\* Mutant: only a row that has been tried is tried again.
IsDueAgain(m) ==
    /\ outbox[m].status = "PENDING"
    /\ outbox[m].next = "due"
    /\ outbox[m].attempts \in 1 .. MaxAttempts - 1

IsDue(m) ==
    /\ outbox[m].status = "PENDING"
    /\ outbox[m].next = "due"
    /\ outbox[m].attempts < MaxAttempts

Due == Picked(turn, {m \in DOMAIN outbox : IsDue(m)})

SweepStart ==
    /\ ~ sweep.running
    /\ Due # <<>>
    /\ sweep' = [running |-> TRUE, list |-> SubSeq(Due, 1, IF Len(Due) < Batch THEN Len(Due) ELSE Batch)]
    /\ UNCHANGED <<outbox, turn, accepted, job, receipts, troubles>>

SweepNext ==
    /\ sweep.running
    /\ sweep.list # <<>>
    /\ job[Sweeper].stage = "idle"
    /\ job' = [job EXCEPT ![Sweeper] = Deliver(Head(sweep.list))]
    /\ sweep' = [sweep EXCEPT !.list = Tail(@)]
    /\ UNCHANGED <<outbox, turn, accepted, receipts, troubles>>

SweepEnd ==
    /\ sweep.running
    /\ sweep.list = <<>>
    /\ job[Sweeper].stage = "idle"
    /\ sweep' = [sweep EXCEPT !.running = FALSE]
    /\ UNCHANGED <<outbox, turn, accepted, job, receipts, troubles>>

\* The backoff of a row runs out.
Elapse(m) ==
    /\ outbox[m].next = "later"
    /\ outbox' = [outbox EXCEPT ![m].next = "due"]
    /\ turn' = Append(turn, m)
    /\ UNCHANGED <<accepted, job, sweep, receipts, troubles>>

-----------------------------------------------------------------------------
(* reconcile(), every five minutes and without a guard against overlap. The *)
(* row is found SENT, and written after the provider has answered.          *)

\* Mutant: every row is asked about.
AskAboutAny(m) ==
    /\ receipts' = receipts \cup {m}
    /\ UNCHANGED <<outbox, turn, accepted, job, sweep, troubles>>

Ask(m) ==
    /\ outbox[m].status = "SENT"
    /\ receipts' = receipts \cup {m}
    /\ UNCHANGED <<outbox, turn, accepted, job, sweep, troubles>>

Verdicts == {"DELIVERED", "FAILED"}

\* Rows whose verdict is still pending, or cannot be had, are left alone.
Answer(m) ==
    /\ m \in receipts
    /\ \/ \E verdict \in Verdicts : outbox' = [outbox EXCEPT ![m].status = verdict]
       \/ UNCHANGED outbox
    /\ receipts' = receipts \ {m}
    /\ UNCHANGED <<turn, accepted, job, sweep, troubles>>

-----------------------------------------------------------------------------
(* The process dies and comes back: the rows are all that is left.          *)

Restart ==
    /\ troubles < MaxTroubles
    /\ troubles' = troubles + 1
    /\ job' = [w \in Jobs |-> Idle]
    /\ sweep' = [running |-> FALSE, list |-> <<>>]
    /\ receipts' = {}
    /\ UNCHANGED <<outbox, turn, accepted>>

Next ==
    \/ Enqueue
    \/ \E w \in Jobs : Attempt(w) \/ Stumble(w)
    \/ SweepStart
    \/ SweepNext
    \/ SweepEnd
    \/ \E m \in DOMAIN outbox : Elapse(m) \/ Ask(m) \/ Answer(m)
    \/ Restart

(***************************************************************************)
(* Fairness. A promise that was fired goes on until it ends, and a send    *)
(* ends in 15 seconds at the latest. The cron fires every minute and a     *)
(* backoff is a date that comes. Nothing is asked of the order events, of  *)
(* the provider's verdicts or of reconcile(), which may starve: it takes   *)
(* the 25 oldest rows, and 25 rows without a verdict are enough to hide    *)
(* the others.                                                             *)
(***************************************************************************)
Fairness ==
    /\ \A w \in Jobs : WF_vars(Attempt(w))
    /\ WF_vars(SweepStart)
    /\ WF_vars(SweepNext)
    /\ WF_vars(SweepEnd)
    /\ \A m \in 1 .. MaxMessages : WF_vars(m \in DOMAIN outbox /\ Elapse(m))

Spec == Init /\ [][Next]_vars /\ Fairness

-----------------------------------------------------------------------------
\* Type invariant. The count of attempts passes SMS_MAX_ATTEMPTS by one at
\* most: when the sweep has listed a row that the attempt of enqueue() then
\* gives up, deliver() does not look for FAILED and tries it once more.
TypeOK ==
    /\ outbox \in Seq(Row)
    /\ \A m \in DOMAIN outbox : outbox[m].attempts <= MaxAttempts + 1
    /\ turn \in Seq(DOMAIN outbox)
    /\ IsInjective(turn)
    /\ accepted \subseteq DOMAIN outbox
    /\ job \in [Jobs -> Job]
    /\ sweep \in [running: BOOLEAN, list: Seq(DOMAIN outbox)]
    /\ receipts \subseteq accepted
    /\ troubles \in 0 .. MaxTroubles

\* A queued message is never lost (ARCHITECTURE.md, "an outage can delay a
\* message but never lose it"): a row that is PENDING has a next attempt ahead
\* of it and attempts to spare, so that queryDue() can find it, however the
\* fired attempt and the sweep overwrite each other and wherever the process
\* died.
PendingIsScheduled ==
    \A m \in DOMAIN outbox :
        outbox[m].status = "PENDING" =>
            /\ outbox[m].next # "never"
            /\ outbox[m].attempts < MaxAttempts

\* A row never says more than what happened: SENT and DELIVERED are messages
\* the provider took, and FAILED is one that was tried as often as the limit
\* allows or one that the provider took and could not deliver. The writes of
\* deliver() and reconcile() are unconditional and may come late.
StatusIsTrue ==
    \A m \in DOMAIN outbox :
        /\ outbox[m].status \in {"SENT", "DELIVERED"} => m \in accepted
        /\ outbox[m].status = "FAILED" =>
             m \in accepted \/ outbox[m].attempts >= MaxAttempts

\* Both: no message is lost, and none is said to be further than it is.
OutboxIsSound == PendingIsScheduled /\ StatusIsTrue

\* Every message is sent or given up in the end, and stays so: retries run
\* out, no row waits behind the others of a batch for ever, and neither a lost
\* attempt nor a sweep that died with its flag up leaves a row behind.
Settled(m) == m \in DOMAIN outbox => outbox[m].status # "PENDING"
EveryMessageSettles == \A m \in 1 .. MaxMessages : <>[]Settled(m)

=============================================================================
