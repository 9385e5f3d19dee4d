--------------------------- MODULE Conversations ---------------------------
(***************************************************************************)
(* Conversations and the users they belong to. A turn (app/channels/       *)
(* dispatch.py, app/graph.py: run_turn) works on two databases with no     *)
(* transaction in common: the rows of the application, and the checkpoints *)
(* where a thread is named after an identity and an agent. Administrators  *)
(* reset conversations and delete users meanwhile (app/admin/service.py:   *)
(* reset_conversation, delete_user), identity by identity, file by file.   *)
(*                                                                         *)
(* SQLite gives the id of a deleted row to the next one. A life is what an *)
(* id stands for between a creation and a deletion; the code has no name   *)
(* for it. Retries and deliveries of answers are in EmailDelivery, rights  *)
(* in AccessDesk.                                                          *)
(***************************************************************************)
EXTENDS Naturals, Sequences, FiniteSets

CONSTANTS
    Keys,        \* identities: channel and external id
    MaxUsers,    \* user ids
    MaxAgents,   \* agent ids
    MaxLives,    \* users ever created
    MaxMessages,
    MaxTasks,    \* resets and deletions
    MaxChanges   \* other changes made by administrators

UserIds  == 1..MaxUsers
AgentIds == 1..MaxAgents
Threads  == Keys \X AgentIds

ASSUME ConstantsAssumption ==
    /\ MaxUsers \in Nat /\ MaxAgents \in Nat /\ MaxLives \in Nat
    /\ MaxMessages \in Nat /\ MaxTasks \in Nat /\ MaxChanges \in Nat

VARIABLES
    \* the application database
    users,      \* the life of each user id in use
    owner,      \* the user an identity is linked to, 0 if it is not
    chosen,     \* active_agent_id of the identity, 0 if none
    agents,     \* owner of each agent id in use, and whether it is the default one
    logs,       \* action_logs: message, user, agent
    \* the checkpoint database
    thread,
    \* the processes
    turn,       \* the message of an identity being answered
    desk,       \* the reset or deletion under way
    \* history
    lives,      \* users created so far
    writer,     \* the life that wrote each message
    erased,     \* messages that were in a conversation when it was erased
    held,       \* those a turn under way had read before
    tasks, changes

rowVars == <<users, owner, chosen, agents, logs>>
historyVars == <<lives, writer, erased, held, tasks, changes>>
vars == <<rowVars, thread, turn, desk, historyVars>>

Message == [n : Nat \ {0}, role : {"human", "ai"}]

Stages == {"idle", "admitted", "loaded", "asked", "answered", "failed"}
NoTurn == [stage |-> "idle", user |-> 0, agent |-> 0, n |-> 0, state |-> <<>>]
Turn == [stage : Stages, user : UserIds \cup {0}, agent : AgentIds \cup {0}, n : Nat, state : Seq(Message)]

NoTask == [op |-> "idle", user |-> 0, purge |-> FALSE, since |-> 0, todo |-> {}, locked |-> FALSE]
Task == [op : {"idle", "reset", "delete"}, user : UserIds \cup {0}, purge : BOOLEAN, since : Nat,
         todo : SUBSET Threads, locked : BOOLEAN]

TypeOK ==
    /\ DOMAIN users \subseteq UserIds /\ \A u \in DOMAIN users : users[u] \in 1..lives
    /\ owner \in [Keys -> UserIds \cup {0}]
    /\ \A k \in Keys : owner[k] # 0 => owner[k] \in DOMAIN users
    /\ chosen \in [Keys -> AgentIds \cup {0}]
    /\ \A k \in Keys : chosen[k] # 0 => chosen[k] \in DOMAIN agents /\ agents[chosen[k]].user = owner[k]
    /\ DOMAIN agents \subseteq AgentIds
    /\ \A a \in DOMAIN agents : agents[a] \in [user : DOMAIN users, default : BOOLEAN]
    /\ \A row \in logs : row \in [n : Nat \ {0}, user : DOMAIN users, agent : DOMAIN agents, dir : {"in", "out"}]
    /\ thread \in [Threads -> Seq(Message)]
    /\ turn \in [Keys -> Turn]
    /\ desk \in Task
    /\ lives \in Nat /\ writer \in Seq(1..lives)
    /\ erased \subseteq Nat /\ held \subseteq erased
    /\ tasks \in Nat /\ changes \in Nat

NextId(used, last) ==
    CHOOSE i \in 1..(last + 1) : (\A j \in used : j < i) /\ (i = 1 \/ i - 1 \in used)

Put(table, id, row) == [i \in DOMAIN table \cup {id} |-> IF i = id THEN row ELSE table[i]]
Without(table, ids) == [i \in DOMAIN table \ ids |-> table[i]]

Living == {users[u] : u \in DOMAIN users}
MessagesOf(messages) == {messages[i].n : i \in DOMAIN messages}

Init ==
    /\ users = [u \in {} |-> 0]
    /\ owner = [k \in Keys |-> 0] /\ chosen = [k \in Keys |-> 0]
    /\ agents = [a \in {} |-> [user |-> 0, default |-> TRUE]]
    /\ logs = {}
    /\ thread = [t \in Threads |-> <<>>]
    /\ turn = [k \in Keys |-> NoTurn]
    /\ desk = NoTask
    /\ lives = 0 /\ writer = <<>> /\ erased = {} /\ held = {}
    /\ tasks = 0 /\ changes = 0

-----------------------------------------------------------------------------
(* A message of somebody admitted: dispatch_event. The adapter of a channel *)
(* handles one message at a time. Writing rows waits for SQLite's lock.     *)

Defaults(u) == {a \in DOMAIN agents : agents[a] = [user |-> u, default |-> TRUE]}

\* resolve_agent: the chosen agent, or the default one, created when first needed.
BugAnyDefault(k) ==
    IF chosen[k] # 0 THEN {chosen[k]}
    ELSE IF {a \in DOMAIN agents : agents[a].default} # {} THEN {a \in DOMAIN agents : agents[a].default}
    ELSE {NextId(DOMAIN agents, MaxAgents)} \cap AgentIds
Reached(k) ==
    IF chosen[k] # 0 THEN {chosen[k]}
    ELSE IF Defaults(owner[k]) # {} THEN Defaults(owner[k])
    ELSE {NextId(DOMAIN agents, MaxAgents)} \cap AgentIds

\* The agent, and the inbound entry, are committed before the turn.
Write(k) ==
    LET n == Len(writer) + 1 IN
    /\ turn[k] = NoTurn /\ owner[k] # 0 /\ n <= MaxMessages
    /\ ~desk.locked
    /\ \E a \in Reached(k) :
          /\ agents' = IF a \in DOMAIN agents THEN agents
                       ELSE Put(agents, a, [user |-> owner[k], default |-> TRUE])
          /\ logs' = logs \cup {[n |-> n, user |-> owner[k], agent |-> a, dir |-> "in"]}
          /\ turn' = [turn EXCEPT ![k] = [stage |-> "admitted", user |-> owner[k], agent |-> a,
                                          n |-> n, state |-> <<>>]]
    /\ writer' = Append(writer, users[owner[k]])
    /\ UNCHANGED <<users, owner, chosen, thread, desk, lives, erased, held, tasks, changes>>

At(k, stage) == turn[k].stage = stage
BugThreadNow(k) == <<k, IF chosen[k] # 0 THEN chosen[k] ELSE turn[k].agent>>
Thread(k) == <<k, turn[k].agent>>
TurnOnly == UNCHANGED <<rowVars, desk, historyVars>>

\* ainvoke reads the whole conversation once ...
Load(k) ==
    /\ At(k, "admitted")
    /\ turn' = [turn EXCEPT ![k].stage = "loaded", ![k].state = thread[Thread(k)]]
    /\ UNCHANGED thread /\ TurnOnly

Question(k) == [n |-> turn[k].n, role |-> "human"]
Answer(k)   == [n |-> turn[k].n, role |-> "ai"]

\* ... and writes it back, whole, with the question before the model is called ...
Extended(state, messages) == state \o messages

Ask(k) ==
    /\ At(k, "loaded")
    /\ thread' = [thread EXCEPT ![Thread(k)] = Extended(turn[k].state, <<Question(k)>>)]
    /\ turn' = [turn EXCEPT ![k].stage = "asked"]
    /\ TurnOnly

\* ... and with the answer after.
Reply(k) ==
    /\ At(k, "asked")
    /\ thread' = [thread EXCEPT ![Thread(k)] = Extended(turn[k].state, <<Question(k), Answer(k)>>)]
    /\ turn' = [turn EXCEPT ![k].stage = "answered"]
    /\ TurnOnly

\* The checkpoint or the model fails.
TurnFails(k) ==
    /\ turn[k].stage \in {"admitted", "loaded", "asked"}
    /\ turn' = [turn EXCEPT ![k].stage = "failed"]
    /\ UNCHANGED thread /\ TurnOnly

Answered(k) == [n |-> turn[k].n, user |-> turn[k].user, agent |-> turn[k].agent, dir |-> "out"]

\* The answer, or the note of the failure, is committed. The database refuses it when
\* the user or the agent is gone, or when it stays locked too long.
Record(k) ==
    LET row == Answered(k) IN
    /\ turn[k].stage \in {"answered", "failed"}
    /\ \/ /\ ~desk.locked
          /\ row.user \in DOMAIN users /\ row.agent \in DOMAIN agents
          /\ logs' = logs \cup {row}
       \/ /\ desk.locked \/ row.user \notin DOMAIN users \/ row.agent \notin DOMAIN agents
          /\ UNCHANGED logs
    /\ turn' = [turn EXCEPT ![k] = NoTurn]
    /\ UNCHANGED <<users, owner, chosen, agents, thread, desk, historyVars>>

\* The process dies, with the turns it was running.
Crash ==
    /\ \E k \in Keys : turn[k] # NoTurn
    /\ turn' = [k \in Keys |-> NoTurn]
    /\ UNCHANGED <<rowVars, thread, desk, historyVars>>

-----------------------------------------------------------------------------
(* Administrators: changes of one transaction *)

Change ==
    /\ changes < MaxChanges /\ ~desk.locked
    /\ changes' = changes + 1
    /\ UNCHANGED <<logs, thread, turn, desk, writer, erased, held, tasks>>

\* create_user and add_channel_identity, or approve_request.
Link(k) ==
    /\ owner[k] = 0
    /\ \/ /\ owner' \in {[owner EXCEPT ![k] = u] : u \in DOMAIN users}
          /\ UNCHANGED <<users, lives>>
       \/ LET u == NextId(DOMAIN users, MaxUsers) IN
          /\ u <= MaxUsers /\ lives < MaxLives
          /\ lives' = lives + 1
          /\ users' = Put(users, u, lives + 1)
          /\ owner' = [owner EXCEPT ![k] = u]
    /\ UNCHANGED <<chosen, agents>> /\ Change

\* remove_channel_identity
Unlink(k) ==
    /\ owner[k] # 0
    /\ owner' = [owner EXCEPT ![k] = 0] /\ chosen' = [chosen EXCEPT ![k] = 0]
    /\ UNCHANGED <<users, agents, lives>> /\ Change

\* create_agent
NewAgent(u) ==
    LET a == NextId(DOMAIN agents, MaxAgents) IN
    /\ a <= MaxAgents
    /\ agents' = Put(agents, a, [user |-> u, default |-> FALSE])
    /\ UNCHANGED <<users, owner, chosen, lives>> /\ Change

\* set_identity_agent; the sender does the same with /agent.
Choose(k) ==
    /\ \E a \in {b \in DOMAIN agents : agents[b].user = owner[k]} \ {chosen[k]} :
          chosen' = [chosen EXCEPT ![k] = a]
    /\ UNCHANGED <<users, owner, agents, lives>> /\ Change

-----------------------------------------------------------------------------
(* Resets and deletions *)

\* _thread_ids_of_user
BugEveryAgent(u, among) == {k \in Keys : owner[k] = u} \X among
ThreadsOf(u, among) == {k \in Keys : owner[k] = u} \X {a \in among : agents[a].user = u}

Begin(task) ==
    /\ desk = NoTask /\ tasks < MaxTasks
    /\ desk' = [task EXCEPT !.since = Len(writer)] /\ tasks' = tasks + 1
    /\ UNCHANGED <<rowVars, thread, turn, lives, writer, erased, held, changes>>

\* reset_conversation, of one agent or of all.
StartReset(u) ==
    \E among \in {DOMAIN agents} \cup {{a} : a \in {b \in DOMAIN agents : agents[b].user = u}} :
        Begin([NoTask EXCEPT !.op = "reset", !.user = u, !.todo = ThreadsOf(u, among)])

BugNoCheck(u) ==
    \E purge \in BOOLEAN : Begin([NoTask EXCEPT !.op = "delete", !.user = u, !.purge = purge])
\* delete_user: without purge, a user who has a history is refused.
StartDelete(u) ==
    \/ Begin([NoTask EXCEPT !.op = "delete", !.user = u, !.purge = TRUE,
                            !.todo = ThreadsOf(u, DOMAIN agents)])
    \/ (\A row \in logs : row.user # u) /\ Begin([NoTask EXCEPT !.op = "delete", !.user = u])

DeskOnly == UNCHANGED <<rowVars, turn, lives, writer, tasks, changes>>

\* The rows are deleted, in a transaction that waits for its commit. The database
\* refuses while the trail of another user names one of the agents.
BugNoForeignKeys ==
    /\ desk.op = "delete" /\ ~desk.locked
    /\ desk' = [desk EXCEPT !.locked = TRUE]
    /\ UNCHANGED <<thread, erased, held>> /\ DeskOnly
DeleteRows ==
    /\ desk.op = "delete" /\ ~desk.locked
    /\ \A row \in logs : agents[row.agent].user = desk.user => row.user = desk.user
    /\ desk' = [desk EXCEPT !.locked = TRUE]
    /\ UNCHANGED <<thread, erased, held>> /\ DeskOnly

\* What is in a conversation, except the question being answered; what of it the turn
\* under way, if any, has read.
Asking(t) == {turn[k].n : k \in {j \in Keys : turn[j] # NoTurn /\ Thread(j) = t}}
Known(t) == MessagesOf(thread[t]) \ Asking(t)
Read(t) == UNION {MessagesOf(turn[k].state) : k \in {j \in Keys : turn[j] # NoTurn /\ Thread(j) = t}}

\* delete_threads, one after the other.
Erase ==
    /\ desk.op = "reset" \/ desk.locked
    /\ \E t \in desk.todo :
          /\ thread' = [thread EXCEPT ![t] = <<>>]
          /\ desk' = [desk EXCEPT !.todo = @ \ {t}]
          /\ erased' = erased \cup Known(t)
          /\ held' = held \cup (Known(t) \cap Read(t))
    /\ DeskOnly

\* The event of the reset is committed.
CommitReset ==
    /\ desk.op = "reset" /\ desk.todo = {}
    /\ desk' = NoTask
    /\ UNCHANGED <<thread, erased, held>> /\ DeskOnly

CommitDelete ==
    LET u == desk.user IN
    /\ desk.locked /\ desk.todo = {}
    /\ users' = Without(users, {u})
    /\ owner' = [k \in Keys |-> IF owner[k] = u THEN 0 ELSE owner[k]]
    /\ chosen' = [k \in Keys |-> IF owner[k] = u THEN 0 ELSE chosen[k]]
    /\ agents' = Without(agents, {a \in DOMAIN agents : agents[a].user = u})
    /\ logs' = {row \in logs : row.user # u}
    /\ desk' = NoTask
    /\ UNCHANGED <<thread, turn, historyVars>>

\* It fails: rows come back, threads do not.
Abandon ==
    /\ desk # NoTask
    /\ desk' = NoTask
    /\ UNCHANGED <<thread, erased, held>> /\ DeskOnly

TurnStep(k) ==
    \/ Write(k) \/ Load(k) \/ Ask(k) \/ Reply(k) \/ TurnFails(k) \/ Record(k)

Desk ==
    \/ \E u \in DOMAIN users : StartReset(u) \/ StartDelete(u) \/ NewAgent(u)
    \/ \E k \in Keys : Link(k) \/ Unlink(k) \/ Choose(k)
    \/ DeleteRows \/ Erase \/ CommitReset \/ CommitDelete \/ Abandon

Next == (\E k \in Keys : TurnStep(k)) \/ Crash \/ Desk

Spec == Init /\ [][Next]_vars

-----------------------------------------------------------------------------
(* Properties *)

\* Two users who are there at the same time never share a conversation, and the trail of
\* a user holds what that user wrote and was answered (#38), although ids are given again
\* and a turn may outlive its user: only somebody deleted during a turn can be continued,
\* or recorded, by the next one.
LivingAreSeparate ==
    /\ \A t \in Threads : \A i, j \in DOMAIN thread[t] :
          {writer[thread[t][i].n], writer[thread[t][j].n]} \subseteq Living
              => writer[thread[t][i].n] = writer[thread[t][j].n]
    /\ \A row \in logs : writer[row.n] \in Living => users[row.user] = writer[row.n]

\* Erasing the conversations of one user spares those of every other, whatever was
\* linked, unlinked and created since the threads were listed.
OthersAreSpared ==
    [][\A t \in Threads :
          thread[t] # <<>> /\ thread'[t] = <<>> =>
              \A i \in DOMAIN thread[t] :
                  writer[thread[t][i].n] \in Living => writer[thread[t][i].n] = users[desk.user]]_vars

\* What was erased comes back with a turn that had read it, and with nothing else: no
\* other conversation, restart or later user brings it back.
OnlyTurnsBringBack ==
    \A t \in Threads : MessagesOf(thread[t]) \cap erased \subseteq held

\* What the documentation says of a reset: the conversation starts afresh. What was
\* said before does not come back.
ResetForgets ==
    \A t \in Threads : MessagesOf(thread[t]) \cap erased = {}

\* A user with a history is only deleted by a purge (#50): without one, nothing of
\* theirs that was in the trail when the deletion looked is lost.
HistoryNeedsPurge ==
    [][\A row \in logs :
          writer[row.n] \in Living => row \in logs' \/ desk.purge \/ row.n > desk.since]_vars
=============================================================================
