--------------------------- MODULE EmailDelivery ---------------------------
(***************************************************************************)
(* The email channel end to end: the IMAP mailbox shared with people, the  *)
(* polling adapter (app/channels/email.py), the event pipeline it calls    *)
(* for every message (app/channels/dispatch.py), the audit trail and the   *)
(* conversation checkpoint the turn writes (app/graph.py: run_turn).       *)
(*                                                                         *)
(* One adapter task handles one message at a time. A step ends where the   *)
(* code awaits something that can fail or be interrupted: an IMAP session, *)
(* a database commit, the model, the SMTP session. People and admins act   *)
(* between any two steps; a crash forgets what the process kept in memory  *)
(* and leaves the mailbox and both databases as they are.                  *)
(***************************************************************************)
EXTENDS AuditTrail

LOCAL INSTANCE Functions

CONSTANTS
    Mails,       \* IMAP UIDs: mail arrives, and is searched, in this order
    MaxArrivals, \* how many of them are ever used
    Kind,        \* what a mail is: no tag, automated, nothing to answer, a message
    Sender,      \* its From address
    Text,        \* its body
    Addresses,   \* email identities
    Users,       \* their owners
    Owner,       \* the user an address belongs to
    Agents,      \* agent names every user has here
    Default,     \* the agent used until one is selected
    Texts,
    MaxAttempts, \* MAX_ATTEMPTS
    LookBack,    \* _UNDELIVERED_LOOKBACK
    Filing,      \* is EMAIL_AGENT_FOLDER set?
    Budget,      \* how often each fault or outside intervention happens
    MaxIncidents \* how many of them happen in all

Kinds == {"ordinary", "automated", "blank", "message"}

\* What can go wrong, or be changed from outside:
\*   crash  the process dies and is started again
\*   db     a commit to the application database fails (locked, disk full)
\*   model  the model or the checkpoint file fails during a turn
\*   smtp   the mail server refuses a reply
\*   lost   a reply is accepted, but the session ends in an error
\*   imap   an IMAP session fails
\*   admin  an admin changes an access right or an agent
\*   human  a person opens a mail in the shared INBOX
Faults == {"crash", "db", "model", "smtp", "lost", "imap", "admin", "human"}

ASSUME ConstantsAssumption ==
    /\ Mails \subseteq Nat
    /\ Kind \in [Mails -> Kinds]
    /\ Sender \in [Mails -> Addresses]
    /\ Text \in [Mails -> Texts]
    /\ Owner \in [Addresses -> Users]
    /\ Default \in Agents
    /\ MaxAttempts \in Nat \ {0}
    /\ LookBack \in Nat \ {0}
    /\ Filing \in BOOLEAN
    /\ Budget \in [Faults -> Nat]
    /\ MaxArrivals \in Nat /\ MaxIncidents \in Nat

VARIABLES
    \* the mail server
    place,       \* where each mail is: "away" until it arrives, then a folder
    seen,        \* the mails flagged \Seen
    \* the application database
    access,      \* what authorize() finds for an address
    request,     \* status of the access request of an address
    selected,    \* the agent an address talks to
    disabled,    \* deactivated agents, as <<user, agent>>
    log,         \* action_logs
    \* the checkpoint database
    thread,      \* the stored messages of an (address, agent) conversation
    \* the process
    pc,          \* what the adapter task does next
    found,       \* SEARCH results not fetched yet
    batch,       \* fetched messages not handled yet
    attempts,    \* _attempts
    cur,         \* message being handled
    retry,       \* is it handled again?
    agent,       \* agent of the turn
    entry,       \* the outbound entry at stake
    target,      \* folder the message goes to
    \* what the outside world saw
    received,    \* <<m, i>>: the sender of m got the text of entry i of the log
    copies,      \* answers the sender of m got, repetitions included
    turns,       \* turns of the model that succeeded for m
    left         \* faults and interventions that may still happen

mailboxVars == <<place, seen>>
adminVars   == <<access, request, selected, disabled>>
storeVars   == <<log, thread>>
memoryVars  == <<pc, found, batch, attempts, cur, retry, agent, entry, target>>
worldVars   == <<received, copies, turns>>
vars == <<mailboxVars, adminVars, storeVars, memoryVars, worldVars, left>>

User(m) == Owner[Sender[m]]
Key(m, g) == <<Sender[m], g>>
Spent(f) == Budget[f] - left[f]
Incidents == SumFunction([f \in Faults |-> Spent(f)])

Spend(f) ==
    /\ left[f] > 0 /\ Incidents < MaxIncidents
    /\ left' = [left EXCEPT ![f] = @ - 1]

PCs == {"idle", "fetch", "batch", "admit", "lookup", "start", "model", "note",
        "record", "reply", "markfailed", "resend", "markok", "file"}

Human(m) == [role |-> "human", mail |-> m]
Reply(m) == [role |-> "ai", mail |-> m]

\* Rows of action_logs, messages of a checkpoint.
LogEntry == [dir : {"in", "out"}, user : Users, agent : Agents, mail : Mails, text : Texts,
             answer : BOOLEAN, status : {"ok", "failed", "denied"}]
Message == [role : {"human", "ai"}, mail : Mails]

TypeOK ==
    /\ place \in [Mails -> {"away", "inbox", "agent", "failed"}]
    /\ seen \subseteq Mails
    /\ access \in [Addresses -> {"unknown", "inactive", "known", "allowed"}]
    /\ request \in [Addresses -> {"none", "pending", "approved", "denied"}]
    /\ selected \in [Addresses -> Agents]
    /\ disabled \subseteq Users \X Agents
    /\ log \in Seq(LogEntry)
    /\ thread \in [Addresses \X Agents -> Seq(Message)]
    /\ pc \in PCs
    /\ found \subseteq Mails
    /\ batch \subseteq Mails
    /\ attempts \in [Mails -> Nat]
    /\ pc \notin {"idle", "fetch", "batch"} => cur \in Mails
    /\ retry \in BOOLEAN
    /\ agent \in Agents
    /\ pc \in {"reply", "markfailed", "resend", "markok"} => entry \in DOMAIN log
    /\ target \in {"agent", "failed"}
    /\ received \subseteq Mails \X DOMAIN log
    /\ copies \in [Mails -> Nat]
    /\ turns \in [Mails -> Nat]
    /\ left \in [Faults -> Nat]

\* The adapter task starts with an empty memory.
FreshProcess ==
    /\ pc = "idle"
    /\ found = {} /\ batch = {}
    /\ attempts = [m \in Mails |-> 0]
    /\ cur = 0 /\ retry = FALSE /\ agent = Default /\ entry = 0 /\ target = "agent"

Init ==
    /\ place = [m \in Mails |-> "away"]
    /\ seen = {}
    /\ access \in [Addresses -> {"unknown", "allowed"}]
    /\ request = [a \in Addresses |-> "none"]
    /\ selected = [a \in Addresses |-> Default]
    /\ disabled = {}
    /\ log = <<>>
    /\ thread = [k \in Addresses \X Agents |-> <<>>]
    /\ FreshProcess
    /\ received = {}
    /\ copies = [m \in Mails |-> 0]
    /\ turns = [m \in Mails |-> 0]
    /\ left = Budget

-----------------------------------------------------------------------------
(* The environment *)

\* UIDs grow, not always by one: a mail gets a greater UID than those before it.
Arrive(m) ==
    /\ place[m] = "away" /\ \A k \in Mails : place[k] # "away" => k < m
    /\ Cardinality({k \in Mails : place[k] # "away"}) < MaxArrivals
    /\ place' = [place EXCEPT ![m] = "inbox"]
    /\ UNCHANGED <<seen, adminVars, storeVars, memoryVars, worldVars, left>>

\* Somebody opens the mail in a mail client.
HumanReads(m) ==
    /\ place[m] = "inbox" /\ m \notin seen
    /\ Spend("human")
    /\ seen' = seen \cup {m}
    /\ UNCHANGED <<place, adminVars, storeVars, memoryVars, worldVars>>

\* An admin links the address or gives it the CHAT permission; a pending request
\* is thereby approved.
Grant(a) ==
    /\ access[a] \in {"unknown", "known"}
    /\ Spend("admin")
    /\ access' = [access EXCEPT ![a] = "allowed"]
    /\ request' = [request EXCEPT ![a] = IF @ = "pending" THEN "approved" ELSE @]
    /\ UNCHANGED <<selected, disabled, mailboxVars, storeVars, memoryVars, worldVars>>

Deny(a) ==
    /\ request[a] = "pending"
    /\ Spend("admin")
    /\ request' = [request EXCEPT ![a] = "denied"]
    /\ UNCHANGED <<access, selected, disabled, mailboxVars, storeVars, memoryVars, worldVars>>

\* The address is unlinked, its permission revoked or its user deactivated.
Withdraw(a) ==
    /\ access[a] = "allowed"
    /\ Spend("admin")
    /\ \E v \in {"unknown", "known", "inactive"} : access' = [access EXCEPT ![a] = v]
    /\ UNCHANGED <<request, selected, disabled, mailboxVars, storeVars, memoryVars, worldVars>>

\* The user is activated again, which settles no request.
Reactivate(a) ==
    /\ access[a] = "inactive"
    /\ Spend("admin")
    /\ access' = [access EXCEPT ![a] = "allowed"]
    /\ UNCHANGED <<request, selected, disabled, mailboxVars, storeVars, memoryVars, worldVars>>

SelectAgent(a, g) ==
    /\ selected[a] # g
    /\ Spend("admin")
    /\ selected' = [selected EXCEPT ![a] = g]
    /\ UNCHANGED <<access, request, disabled, mailboxVars, storeVars, memoryVars, worldVars>>

\* set_agent_active, both ways.
ToggleAgent(u, g) ==
    /\ Spend("admin")
    /\ disabled' = IF <<u, g>> \in disabled THEN disabled \ {<<u, g>>}
                                            ELSE disabled \cup {<<u, g>>}
    /\ UNCHANGED <<access, request, selected, mailboxVars, storeVars, memoryVars, worldVars>>

Environment ==
    \/ \E m \in Mails : Arrive(m) \/ HumanReads(m)
    \/ \E a \in Addresses : Grant(a) \/ Deny(a) \/ Withdraw(a) \/ Reactivate(a)
    \/ \E a \in Addresses, g \in Agents : SelectAgent(a, g)
    \/ \E u \in Users, g \in Agents : ToggleAgent(u, g)

-----------------------------------------------------------------------------
(* The adapter: one poll *)

Least(S, m) == m \in S /\ \A k \in S : m <= k

\* SEARCH UNSEEN SUBJECT "<tag>": servers differ in how they match a subject,
\* so some mail without the tag may be in the result.
StartPoll ==
    /\ pc = "idle"
    /\ \E loose \in SUBSET {m \in Mails : Kind[m] = "ordinary"} :
          found' = {m \in Mails : /\ place[m] = "inbox" /\ m \notin seen
                                  /\ Kind[m] # "ordinary" \/ m \in loose}
    /\ pc' = "fetch"
    /\ UNCHANGED <<mailboxVars, adminVars, storeVars, worldVars, left,
                   batch, attempts, cur, retry, agent, entry, target>>

\* _mark_seen_and_file: flagged, then moved when there is a folder to move to.
MarkSeenAndFile(m, folder) ==
    /\ seen' = seen \cup {m}
    /\ place' = [place EXCEPT ![m] = IF Filing THEN folder ELSE @]

\* The move fails (no such folder, no MOVE capability, IMAP error): the mail
\* stays in the INBOX, flagged.
MarkSeenOnly(m) ==
    /\ Spend("imap")
    /\ seen' = seen \cup {m}
    /\ UNCHANGED place

\* The flag is refused, which nothing looks at: the move goes on without it.
FlagRefused(m, folder) ==
    /\ Spend("imap")
    /\ place' = [place EXCEPT ![m] = IF Filing THEN folder ELSE @]
    /\ UNCHANGED seen

\* What the fetch does with a message it has read.
Taken(m) == Kind[m] = "message"

BugFiledIfAutomated(m) == Kind[m] = "automated"
FiledUnread(m) == Kind[m] \in {"automated", "blank"}

\* A message the server does not return is passed over.
FetchNext ==
    /\ pc = "fetch"
    /\ \E m \in Mails :
          /\ Least(found, m)
          /\ found' = found \ {m}
          /\ \/ /\ FiledUnread(m)
                /\ \/ MarkSeenAndFile(m, "agent") /\ UNCHANGED left
                   \/ MarkSeenOnly(m)
                   \/ FlagRefused(m, "agent")
                /\ UNCHANGED batch
             \/ /\ ~FiledUnread(m)
                /\ batch' = IF Taken(m) THEN batch \cup {m} ELSE batch
                /\ UNCHANGED <<mailboxVars, left>>
             \/ /\ Spend("imap")
                /\ UNCHANGED <<mailboxVars, batch>>
    /\ UNCHANGED <<adminVars, storeVars, worldVars,
                   pc, attempts, cur, retry, agent, entry, target>>

EndFetch ==
    /\ pc = "fetch" /\ found = {}
    /\ pc' = "batch"
    /\ UNCHANGED <<mailboxVars, adminVars, storeVars, worldVars, left,
                   found, batch, attempts, cur, retry, agent, entry, target>>

\* The IMAP session breaks: the poll is given up, with what it had fetched.
PollFails ==
    /\ pc = "fetch"
    /\ Spend("imap")
    /\ pc' = "idle" /\ found' = {} /\ batch' = {}
    /\ UNCHANGED <<mailboxVars, adminVars, storeVars, worldVars,
                   attempts, cur, retry, agent, entry, target>>

NextMail ==
    /\ pc = "batch"
    /\ \E m \in Mails :
          /\ Least(batch, m)
          /\ cur' = m
          /\ retry' = (attempts[m] > 0)
          /\ batch' = batch \ {m}
    /\ pc' = "admit"
    /\ UNCHANGED <<mailboxVars, adminVars, storeVars, worldVars, left,
                   found, attempts, agent, entry, target>>

EndPoll ==
    /\ pc = "batch" /\ batch = {}
    /\ pc' = "idle"
    /\ UNCHANGED <<mailboxVars, adminVars, storeVars, worldVars, left,
                   found, batch, attempts, cur, retry, agent, entry, target>>

\* What _poll_once does with the outcome of dispatch_event; an exception that
\* escapes from it counts as "failed".
BugUnlessDenied(outcome) == outcome # "denied"
BugOnlyFailed(outcome) == outcome = "failed"
Unsuccessful(outcome) == outcome \in {"failed", "undelivered"}

GivesUp(outcome) == attempts[cur] + 1 >= MaxAttempts

Conclude(outcome) ==
    \/ /\ Unsuccessful(outcome) /\ ~GivesUp(outcome)
       /\ attempts' = [attempts EXCEPT ![cur] = @ + 1]
       /\ pc' = "batch"
       /\ UNCHANGED target
    \/ /\ Unsuccessful(outcome) => GivesUp(outcome)
       /\ attempts' = [attempts EXCEPT ![cur] = 0]
       /\ pc' = "file"
       /\ target' = IF Unsuccessful(outcome) THEN "failed" ELSE "agent"

\* _finalize_message, in an IMAP session of its own. If it cannot be opened, or
\* breaks, the mail stays as it was and that is only logged.
File ==
    /\ pc = "file"
    /\ pc' = "batch"
    /\ \/ MarkSeenAndFile(cur, target) /\ UNCHANGED left
       \/ MarkSeenOnly(cur)
       \/ FlagRefused(cur, target)
       \/ Spend("imap") /\ UNCHANGED mailboxVars
    /\ UNCHANGED <<adminVars, storeVars, worldVars,
                   found, batch, attempts, cur, retry, agent, entry, target>>

-----------------------------------------------------------------------------
(* The event pipeline: dispatch_event *)

\* ensure_access_request: a new or reopened request is announced to the admins.
Ensured(status) == IF status \in {"none", "approved"} THEN "pending" ELSE status

\* No access: the request is recorded, a known identity also leaves an inbound
\* entry. Email senders get no reply. Telling the admins reads the database
\* again, after the commit.
AdmitDenied ==
    /\ pc = "admit" /\ access[Sender[cur]] # "allowed"
    /\ request' = [request EXCEPT ![Sender[cur]] = Ensured(@)]
    /\ log' = IF access[Sender[cur]] = "known"
              THEN Append(log, Inbound(User(cur), Default, cur, Text[cur], "denied"))
              ELSE log
    /\ \/ Conclude("denied") /\ UNCHANGED left
       \/ Ensured(request[Sender[cur]]) # request[Sender[cur]] /\ Spend("db") /\ Conclude("failed")
    /\ UNCHANGED <<mailboxVars, access, selected, disabled, thread, worldVars,
                   found, batch, cur, retry, agent, entry>>

\* A deactivated agent does not answer; the notice it sends is not an answer.
AdmitDisabled ==
    /\ pc = "admit" /\ access[Sender[cur]] = "allowed"
    /\ <<User(cur), selected[Sender[cur]]>> \in disabled
    /\ log' = Append(log, Inbound(User(cur), selected[Sender[cur]], cur, Text[cur], "denied"))
    /\ Conclude("denied")
    /\ UNCHANGED <<mailboxVars, adminVars, thread, worldVars, left,
                   found, batch, cur, retry, agent, entry>>

\* The inbound entry of a message that is not a retry.
InboundRecorded(m, g) ==
    IF retry THEN log ELSE Append(log, Inbound(User(m), g, m, Text[m], "ok"))

AdmitAllowed ==
    /\ pc = "admit" /\ access[Sender[cur]] = "allowed"
    /\ <<User(cur), selected[Sender[cur]]>> \notin disabled
    /\ agent' = selected[Sender[cur]]
    /\ log' = InboundRecorded(cur, selected[Sender[cur]])
    /\ pc' = IF retry THEN "lookup" ELSE "start"
    /\ UNCHANGED <<mailboxVars, adminVars, thread, worldVars, left,
                   found, batch, attempts, cur, retry, entry, target>>

\* The database cannot be read or written: nothing is recorded.
AdmitFails ==
    /\ pc = "admit"
    /\ Spend("db")
    /\ Conclude("failed")
    /\ UNCHANGED <<mailboxVars, adminVars, storeVars, worldVars,
                   found, batch, cur, retry, agent, entry>>

\* find_undelivered_answer, on a retry only.
LookUp ==
    /\ pc = "lookup"
    /\ LET kept == UndeliveredAnswer(log, User(cur), agent, Text[cur], LookBack)
       IN  \/ /\ entry' \in kept
              /\ pc' = "resend"
           \/ /\ kept = {}
              /\ pc' = "start"
              /\ UNCHANGED entry
    /\ UNCHANGED <<mailboxVars, adminVars, storeVars, worldVars, left,
                   found, batch, attempts, cur, retry, agent, target>>

\* run_turn: is the last stored message this very question?
BugNeverAsked(history, m) == FALSE
AlreadyAsked(history, m) ==
    /\ retry
    /\ history # <<>>
    /\ LET last == history[Len(history)]
       IN  last.role = "human" /\ Text[last.mail] = Text[m]

\* The input checkpoint is written before the model is called.
StartTurn ==
    /\ pc = "start"
    /\ thread' = [thread EXCEPT ![Key(cur, agent)] =
                     IF AlreadyAsked(@, cur) THEN @ ELSE Append(@, Human(cur))]
    /\ pc' = "model"
    /\ UNCHANGED <<mailboxVars, adminVars, log, worldVars, left,
                   found, batch, attempts, cur, retry, agent, entry, target>>

\* The reply is stored with the rest of the conversation, then returned.
ModelAnswers ==
    /\ pc = "model"
    /\ thread' = [thread EXCEPT ![Key(cur, agent)] = Append(@, Reply(cur))]
    /\ turns' = [turns EXCEPT ![cur] = @ + 1]
    /\ pc' = "record"
    /\ UNCHANGED <<mailboxVars, adminVars, log, received, copies, left,
                   found, batch, attempts, cur, retry, agent, entry, target>>

\* An exception out of run_turn, before or after the question was stored.
TurnFails ==
    /\ pc \in {"start", "model"}
    /\ Spend("model")
    /\ pc' = "note"
    /\ UNCHANGED <<mailboxVars, adminVars, storeVars, worldVars,
                   found, batch, attempts, cur, retry, agent, entry, target>>

\* The failed turn is recorded; email sends no apology.
RecordNote ==
    /\ pc = "note"
    /\ \/ /\ log' = Append(log, Outbound(User(cur), agent, cur, Text[cur], FALSE, "failed"))
          /\ UNCHANGED left
       \/ /\ Spend("db")
          /\ UNCHANGED log
    /\ Conclude("failed")
    /\ UNCHANGED <<mailboxVars, adminVars, thread, worldVars,
                   found, batch, cur, retry, agent, entry>>

\* The answer is committed as delivered before it is sent.
RecordAnswer ==
    /\ pc = "record"
    /\ \/ /\ log' = Append(log, Outbound(User(cur), agent, cur, Text[cur], TRUE, "ok"))
          /\ entry' = Len(log) + 1
          /\ pc' = "reply"
          /\ UNCHANGED <<left, attempts, target>>
       \/ /\ Spend("db")
          /\ Conclude("failed")
          /\ UNCHANGED <<log, entry>>
    /\ UNCHANGED <<mailboxVars, adminVars, thread, worldVars,
                   found, batch, cur, retry, agent>>

\* The text of entry i reaches the sender of m.
Delivered(m, i) ==
    /\ received' = received \cup {<<m, i>>}
    /\ copies' = [copies EXCEPT ![m] = @ + 1]
    /\ UNCHANGED turns

SendReply ==
    /\ pc = "reply"
    /\ \/ /\ Delivered(cur, entry)
          /\ Conclude("ok")
          /\ UNCHANGED left
       \/ /\ Spend("smtp")
          /\ pc' = "markfailed"
          /\ UNCHANGED <<worldVars, attempts, target>>
       \/ /\ Spend("lost")
          /\ Delivered(cur, entry)
          /\ pc' = "markfailed"
          /\ UNCHANGED <<attempts, target>>
    /\ UNCHANGED <<mailboxVars, adminVars, storeVars, found, batch, cur, retry, agent, entry>>

BugOutcomeAsStatus(i, status) ==
    [log EXCEPT ![i].status = IF status = "failed" THEN "undelivered" ELSE status]
StatusSet(i, status) ==
    [log EXCEPT ![i] = Outbound(@.user, @.agent, @.mail, @.text, @.answer, status)]

BugNotMarked(i) == log
MarkedFailed(i) == StatusSet(i, "failed")

\* The answer is kept for a later attempt.
MarkFailed ==
    /\ pc = "markfailed"
    /\ \/ /\ log' = MarkedFailed(entry)
          /\ Conclude("undelivered")
          /\ UNCHANGED left
       \/ /\ Spend("db")
          /\ Conclude("failed")
          /\ UNCHANGED log
    /\ UNCHANGED <<mailboxVars, adminVars, thread, worldVars,
                   found, batch, cur, retry, agent, entry>>

\* _redeliver: the kept text is sent again.
Resend ==
    /\ pc = "resend"
    /\ \/ /\ Delivered(cur, entry)
          /\ pc' = "markok"
          /\ UNCHANGED <<left, attempts, target>>
       \/ /\ Spend("smtp")
          /\ Conclude("undelivered")
          /\ UNCHANGED worldVars
       \/ /\ Spend("lost")
          /\ Delivered(cur, entry)
          /\ Conclude("undelivered")
    /\ UNCHANGED <<mailboxVars, adminVars, storeVars, found, batch, cur, retry, agent, entry>>

MarkOk ==
    /\ pc = "markok"
    /\ \/ /\ log' = StatusSet(entry, "ok")
          /\ Conclude("ok")
          /\ UNCHANGED left
       \/ /\ Spend("db")
          /\ Conclude("failed")
          /\ UNCHANGED log
    /\ UNCHANGED <<mailboxVars, adminVars, thread, worldVars,
                   found, batch, cur, retry, agent, entry>>

-----------------------------------------------------------------------------

\* The process dies at any point and is started again.
Crash ==
    /\ Spend("crash")
    /\ pc' = "idle"
    /\ found' = {} /\ batch' = {}
    /\ attempts' = [m \in Mails |-> 0]
    /\ cur' = 0 /\ retry' = FALSE /\ agent' = Default /\ entry' = 0 /\ target' = "agent"
    /\ UNCHANGED <<mailboxVars, adminVars, storeVars, worldVars>>

Pipeline ==
    \/ AdmitDenied \/ AdmitDisabled \/ AdmitAllowed \/ AdmitFails
    \/ LookUp \/ StartTurn \/ ModelAnswers \/ TurnFails
    \/ RecordNote \/ RecordAnswer \/ SendReply \/ MarkFailed \/ Resend \/ MarkOk

Adapter ==
    \/ StartPoll \/ FetchNext \/ EndFetch \/ PollFails \/ NextMail \/ EndPoll
    \/ Pipeline \/ File

Next == Adapter \/ Environment \/ Crash

Spec == Init /\ [][Next]_vars

\* The adapter loops for ever and everything it awaits has a timeout (IMAP and
\* SMTP 10 s, the model 120 s, SQLite's own): it always takes a next step,
\* successful or not. Nobody owes it an intervention, nor a fault.
FairSpec == Spec /\ WF_vars(Adapter)

-----------------------------------------------------------------------------
(* Properties *)

Unread(m) == place[m] = "inbox" /\ m \notin seen

\* The entries of a user are all of one agent, and none is of a mail that was turned away.
Unmixed(u) ==
    \A i, j \in DOMAIN log :
        log[i].user = u /\ log[j].user = u =>
            log[i].agent = log[j].agent /\ log[i].status # "denied"

\* A sender gets an answer to one of their own mails (of any of their addresses), and to
\* nothing but what they wrote: find_undelivered_answer goes by text and position in the
\* audit trail, so the retry of one mail could pick up the answer of another. It does when an
\* entry is missing because its commit failed, and when another mail with the same text left
\* an entry that no answer follows: one that was turned away, or one a crash cut short under
\* another agent.
AnswersMatchTheirMail ==
    \A p \in received :
        /\ log[p[2]].user = User(p[1])
        /\ Spent("db") = 0 /\ Unmixed(User(p[1])) => log[p[2]].text = Text[p[1]]

\* Every repeated delivery has a cause outside the retry logic: a crash, an IMAP
\* session lost after the answer went out, a reply the mail server took although
\* the session failed, or a commit that failed. Refused replies, failed turns and
\* admin changes never make the adapter answer twice (email.py: _poll_once).
RepeatsAreAccountedFor ==
    \A m \in Mails :
        copies[m] <= 1 + Spent("crash") + Spent("imap") + Spent("lost") + Spent("db")

\* The model is not called again because an answer could not be delivered (#64): a second
\* successful turn for a mail needs a crash, a lost IMAP session, another mail of the user
\* with the same text, or more mail than is looked back at. A failed turn or a failed commit is
\* another matter: it shifts the entries the retry goes by (so does AnswersMatchTheirMail);
\* and once the address talks to another agent, where the mail has no inbound entry, every
\* retry asks the model.
Unmistakable(m) ==
    \A k \in Mails \ {m} : place[k] # "away" /\ User(k) = User(m) => Text[k] # Text[m]
InSight(u) == \A g \in Agents : Cardinality(Entries(log, "in", u, g)) <= LookBack

UndeliveredIsNotRegenerated ==
    Spent("model") + Spent("db") + Spent("admin") = 0 =>
        \A m \in Mails :
            Unmistakable(m) /\ InSight(User(m)) => turns[m] <= 1 + Spent("crash") + Spent("imap")

\* The folder of a mail says what became of it. It is filed as failed only after MAX_ATTEMPTS
\* failures (#51), whatever happened to the mails around it and however often the process
\* restarted. A message is filed as handled only when its sender, if entitled to one, has got an
\* answer: a turn that failed, a refused reply or a lost commit never loses it (_poll_once).
FiledAs(m, folder) == place[m] = folder \/ (pc = "file" /\ cur = m /\ target = folder)
Entitled(m) == Kind[m] = "message" /\ access[Sender[m]] = "allowed" /\ Spent("admin") = 0

FoldersTellTheEnd ==
    \A m \in Mails :
        /\ FiledAs(m, "failed") =>
             Spent("model") + Spent("smtp") + Spent("lost") + Spent("db") >= MaxAttempts
        /\ FiledAs(m, "agent") /\ Entitled(m) => copies[m] > 0

\* A retried question is not stored a second time right after itself (#93), however its
\* attempts fail. Only a message that is taken for a new one can be: after a restart, or
\* because an IMAP session failed to mark it when it was done with or given up.
Twice(history, m) ==
    {i \in 1..(Len(history) - 1) : history[i] = Human(m) /\ history[i + 1] = Human(m)}
Repetitions(m) == UNION {{g} \X Twice(thread[Key(m, g)], m) : g \in Agents}

NoRepeatedQuestion ==
    \A m \in Mails : Cardinality(Repetitions(m)) <= Spent("crash") + Spent("imap")

\* No tagged mail stays unread for ever: it is handled, given up or taken by a
\* person, however its retries end.
EveryTaggedMailIsSettled ==
    \A m \in Mails : (Kind[m] # "ordinary" /\ Unread(m)) ~> ~Unread(m)
=============================================================================
