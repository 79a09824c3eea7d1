------------------------------ MODULE Campaigns ------------------------------
(***************************************************************************)
(* Marketing campaigns: campaigns.service.ts with the monthly allowance of *)
(* plans.service.ts. send() reads the campaign and its recipients, asks    *)
(* whether they all fit into what the month has left, marks the campaign   *)
(* SENDING, queues one message per recipient and writes the counts. Each   *)
(* step is a query of its own, outside any transaction; the process may    *)
(* end, and the month may turn, between any two.                           *)
(***************************************************************************)
EXTENDS Integers, Sequences, FiniteSets

CONSTANTS
    Senders,        \* requests that can be inside send() at once
    CampaignIds,
    Customers,      \* customers who consent, of some segment or other
    NoCampaign,
    Allowance,      \* smsAllowance of the plan, marketing messages a month
    MaxRecipients,  \* MAX_RECIPIENTS
    MaxMonths       \* bound: the last month

ASSUME AllowanceIsACount ==
    /\ Allowance \in Nat
    /\ MaxRecipients \in Nat
    /\ MaxMonths \in Nat
    /\ NoCampaign \notin CampaignIds
    /\ IsFiniteSet(Customers)

VARIABLES
    campaign,       \* the table campaigns; "ABSENT" is no row
    postings,       \* the MARKETING rows of sms_messages, in order of creation
    month,          \* the month it is in Tehran
    sender          \* where each send() is

campVars == <<campaign, postings, month, sender>>

Campaign == [status: {"ABSENT", "DRAFT", "SENDING", "SENT"}, recipients: Nat, sent: Nat, failed: Nat]
Tallied(status, recipients, sent, failed) ==
    [status |-> status, recipients |-> recipients, sent |-> sent, failed |-> failed]
Fresh(status) == Tallied(status, 0, 0, 0)

Posting == [campaign: CampaignIds, customer: Customers, month: 0 .. MaxMonths]

Sender == [stage: {"away", "marking", "queueing"}, campaign: CampaignIds \cup {NoCampaign},
           todo: SUBSET Customers, sent: Nat, failed: Nat]
Progress(stage, c, todo, sent, failed) ==
    [stage |-> stage, campaign |-> c, todo |-> todo, sent |-> sent, failed |-> failed]
Away == Progress("away", NoCampaign, {}, 0, 0)

CampInit ==
    /\ campaign = [c \in CampaignIds |-> Fresh("ABSENT")]
    /\ postings = <<>>
    /\ month = 0
    /\ sender = [s \in Senders |-> Away]

PostingsOf(c) == {n \in DOMAIN postings : postings[n].campaign = c}
PostingsIn(m) == {n \in DOMAIN postings : postings[n].month = m}

\* monthlyMarketingSms: rows since the first of the month, whatever became of them.
MarketingSms == Cardinality(PostingsIn(month))

-----------------------------------------------------------------------------
MonthTurns ==
    /\ month < MaxMonths
    /\ month' = month + 1
    /\ UNCHANGED <<campaign, postings, sender>>

Create(c) ==
    /\ campaign[c].status = "ABSENT"
    /\ campaign' = [campaign EXCEPT ![c] = Fresh("DRAFT")]
    /\ UNCHANGED <<postings, month, sender>>

\* Mutant: the allowance is asked for one message.
HasCapacityForOne(count) == MarketingSms + 1 <= Allowance

\* requireCapacity()
HasCapacity(count) == MarketingSms + count <= Allowance

\* The reads of send(): the campaign, its recipients, the capacity for them.
BeginSend(s, c, R) ==
    /\ sender[s].stage = "away"
    /\ campaign[c].status = "DRAFT"
    /\ R # {}
    /\ Cardinality(R) <= MaxRecipients
    /\ HasCapacity(Cardinality(R))
    /\ sender' = [sender EXCEPT ![s] = Progress("marking", c, R, 0, 0)]
    /\ UNCHANGED <<campaign, postings, month>>

\* Mutant: the campaign is marked when it is through.
MarkLater(s) ==
    LET c == sender[s].campaign
    IN  /\ sender[s].stage = "marking"
        /\ campaign' = [campaign EXCEPT ![c].recipients = Cardinality(sender[s].todo)]
        /\ sender' = [sender EXCEPT ![s].stage = "queueing"]
        /\ UNCHANGED <<postings, month>>

MarkSending(s) ==
    LET c == sender[s].campaign
    IN  /\ sender[s].stage = "marking"
        /\ campaign' = [campaign EXCEPT ![c] =
                Tallied("SENDING", Cardinality(sender[s].todo), @.sent, @.failed)]
        /\ sender' = [sender EXCEPT ![s] = Progress("queueing", c, @.todo, 0, 0)]
        /\ UNCHANGED <<postings, month>>

\* Mutant: a message that could not be queued counts as sent.
RefuseUnnoticed(s, r) ==
    /\ sender[s].stage = "queueing"
    /\ r \in sender[s].todo
    /\ sender' = [sender EXCEPT ![s] = Progress("queueing", @.campaign, @.todo \ {r}, @.sent + 1, @.failed)]
    /\ UNCHANGED <<campaign, postings, month>>

\* enqueue() of the next recipient returns null: a number it cannot read, an
\* insert that failed ...
Refuse(s, r) ==
    /\ sender[s].stage = "queueing"
    /\ r \in sender[s].todo
    /\ sender' = [sender EXCEPT ![s] = Progress("queueing", @.campaign, @.todo \ {r}, @.sent, @.failed + 1)]
    /\ UNCHANGED <<campaign, postings, month>>

\* ... or the row is written. Its delivery is SmsOutbox.
Post(s, r) ==
    /\ sender[s].stage = "queueing"
    /\ r \in sender[s].todo
    /\ postings' = Append(postings, [campaign |-> sender[s].campaign, customer |-> r, month |-> month])
    /\ sender' = [sender EXCEPT ![s] = Progress("queueing", @.campaign, @.todo \ {r}, @.sent + 1, @.failed)]
    /\ UNCHANGED <<campaign, month>>

FinishSend(s) ==
    LET c == sender[s].campaign
    IN  /\ sender[s].stage = "queueing"
        /\ sender[s].todo = {}
        /\ campaign' = [campaign EXCEPT ![c] =
                Tallied("SENT", @.recipients, sender[s].sent, sender[s].failed)]
        /\ sender' = [sender EXCEPT ![s] = Away]
        /\ UNCHANGED <<postings, month>>

\* A query of send() throws, or the process ends. What was queued stays queued,
\* and the campaign stays what it is: SENDING, most of the time, for ever.
BreakOff(s) ==
    /\ sender[s].stage # "away"
    /\ sender' = [sender EXCEPT ![s] = Away]
    /\ UNCHANGED <<campaign, postings, month>>

CampNext ==
    \/ MonthTurns
    \/ \E c \in CampaignIds : Create(c)
    \/ \E s \in Senders :
         \/ \E c \in CampaignIds, R \in SUBSET Customers : BeginSend(s, c, R)
         \/ \E r \in Customers : Post(s, r) \/ Refuse(s, r)
         \/ MarkSending(s) \/ FinishSend(s) \/ BreakOff(s)

CampSpec == CampInit /\ [][CampNext]_campVars

-----------------------------------------------------------------------------
\* Type invariant.
CampTypeOK ==
    /\ campaign \in [CampaignIds -> Campaign]
    /\ postings \in Seq(Posting)
    /\ month \in 0 .. MaxMonths
    /\ sender \in [Senders -> Sender]
    /\ \A s \in Senders : sender[s].stage # "away" => sender[s].campaign \in CampaignIds

\* No customer gets a campaign twice: wherever send() was cut off, a campaign
\* that reached anybody cannot be sent again. It holds for one send() at a
\* time; two of them both find the DRAFT.
NobodyTwice ==
    \A m, n \in DOMAIN postings :
        /\ postings[m].campaign = postings[n].campaign
        /\ postings[m].customer = postings[n].customer
        => m = n

\* The marketing messages of each month stay within the allowance, which send()
\* looks at once and then queues for as long as it takes: over several
\* campaigns, sends that broke off, and a month that turned while one was at
\* work. Again for one send() at a time.
AllowanceKept == \A m \in 0 .. MaxMonths : Cardinality(PostingsIn(m)) <= Allowance

\* What a campaign reports is what was done: the counts of a SENT campaign are
\* those of its rows in the outbox, and account for every recipient.
ReportIsTrue ==
    \A c \in CampaignIds :
        campaign[c].status = "SENT" =>
            /\ campaign[c].sent = Cardinality(PostingsOf(c))
            /\ campaign[c].sent + campaign[c].failed = campaign[c].recipients

=============================================================================
