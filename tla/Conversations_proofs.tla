------------------------ MODULE Conversations_proofs ------------------------
(***************************************************************************)
(* What holds of conversations for every number of identities, users,      *)
(* agents, messages, resets and deletions.                                 *)
(***************************************************************************)
EXTENDS Conversations, FiniteSetTheorems, WellFoundedInduction, TLAPS

----------------------------------------------------------------------------
\* Ids.

\* The next id is one more than the highest: there is one, and nobody has it.
LEMMA NextIdIsFree ==
    ASSUME NEW last \in Nat, NEW used \in SUBSET (1..last)
    PROVE  NextId(used, last) \in 1..(last + 1) /\ NextId(used, last) \notin used
<1> DEFINE Above    == {i \in 1..(last + 1) : \A j \in used : j < i}
           Below(i) == {x \in 1..(last + 1) : x < i}
           Cuts     == {Below(i) : i \in Above}
           R        == StrictSubsetOrdering(1..(last + 1))
           Good(i)  == (\A j \in used : j < i) /\ (i = 1 \/ i - 1 \in used)
<1>1. last + 1 \in Above
  OBVIOUS
<1>2. PICK i \in Above : \A other \in Above : ~(other < i)
  <2>1. IsFiniteSet(1..(last + 1))
    BY FS_Interval
  <2>2. FiniteSubsetsOf(1..(last + 1)) = SUBSET (1..(last + 1))
    BY <2>1, FS_FiniteSubsetsOfFinite
  <2>3. IsWellFoundedOn(R, SUBSET (1..(last + 1)))
    BY <2>2, FS_StrictSubsetOrderingWellFounded
  <2>4. Cuts \subseteq SUBSET (1..(last + 1)) /\ Cuts # {}
    BY <1>1
  <2>5. PICK cut \in Cuts : \A other \in Cuts : <<other, cut>> \notin R
    <3> HIDE DEF Cuts, R
    <3> QED BY <2>3, <2>4, WFMin, Zenon
  <2>6. PICK i \in Above : cut = Below(i)
    OBVIOUS
  <2>7. ASSUME NEW other \in Above, other < i PROVE FALSE
    <3>1. Below(other) \subseteq Below(i) /\ other \in Below(i) /\ other \notin Below(other)
      BY <2>7
    <3>2. /\ Below(other) \in SUBSET (1..(last + 1)) /\ Below(i) \in SUBSET (1..(last + 1))
          /\ Below(other) \in Cuts
      OBVIOUS
    <3> HIDE DEF Below, Cuts
    <3>3. <<Below(other), Below(i)>> \in R
      BY <3>1, <3>2 DEF StrictSubsetOrdering
    <3>4. QED BY <2>5, <2>6, <3>2, <3>3
  <2>8. QED BY <2>7
<1>3. Good(i)
  <2>1. CASE i # 1 /\ i - 1 \notin used
    <3>1. i - 1 \in Above /\ i - 1 < i
      BY <1>2, <2>1
    <3>2. QED BY <1>2, <3>1
  <2>2. QED BY <2>1
<1>4. i \in 1..(last + 1)
  OBVIOUS
<1>5. NextId(used, last) = CHOOSE j \in 1..(last + 1) : Good(j)
  BY DEF NextId
<1> HIDE DEF Good
<1>6. NextId(used, last) \in 1..(last + 1) /\ Good(NextId(used, last))
  BY <1>3, <1>4, <1>5
<1>7. QED BY <1>6 DEF Good

----------------------------------------------------------------------------
\* Messages.

LEMMA Extends ==
    ASSUME NEW state \in Seq(Message), NEW q \in Message, NEW a \in Message, a.n = q.n
    PROVE  /\ Extended(state, <<q>>) \in Seq(Message) /\ Extended(state, <<q, a>>) \in Seq(Message)
           /\ Extended(state, <<q>>) # <<>> /\ Extended(state, <<q, a>>) # <<>>
           /\ MessagesOf(Extended(state, <<q>>)) \subseteq {q.n} \cup MessagesOf(state)
           /\ MessagesOf(Extended(state, <<q, a>>)) \subseteq {q.n} \cup MessagesOf(state)
<1>1. ASSUME NEW more \in {<<q>>, <<q, a>>}
      PROVE  /\ Extended(state, more) \in Seq(Message) /\ Extended(state, more) # <<>>
             /\ MessagesOf(Extended(state, more)) \subseteq {q.n} \cup MessagesOf(state)
  <2> DEFINE all == state \o more
  <2>1. /\ more \in Seq(Message) /\ Len(more) \in Nat \ {0}
        /\ \A i \in 1..Len(more) : more[i].n = q.n
    <3>1. CASE more = <<q>>
      <4>1. more \in Seq(Message) /\ Len(more) = 1 /\ more[1] = q
        BY <3>1
      <4>2. QED BY <4>1
    <3>2. CASE more = <<q, a>>
      <4>1. more \in Seq(Message) /\ Len(more) = 2 /\ more[1] = q /\ more[2] = a
        BY <3>2
      <4>2. QED BY <4>1
    <3>3. QED BY <3>1, <3>2
  <2>2. all \in Seq(Message) /\ Len(all) = Len(state) + Len(more)
    BY <2>1
  <2>3. ASSUME NEW i \in DOMAIN all PROVE all[i].n \in {q.n} \cup MessagesOf(state)
    <3>1. CASE i <= Len(state)
      BY <2>1, <2>2, <3>1 DEF MessagesOf
    <3>2. CASE i > Len(state)
      BY <2>1, <2>2, <3>2
    <3>3. QED BY <2>2, <3>1, <3>2
  <2>4. all # <<>>
    BY <2>1, <2>2
  <2>5. QED BY <2>2, <2>3, <2>4 DEF Extended, MessagesOf
<1>2. QED BY <1>1

----------------------------------------------------------------------------
\* The inductive invariant.

\* A message that is said somewhere: stored in a thread, or known to a turn that may store it.
TurnSays(k, n) == turn[k] # NoTurn /\ n \in {turn[k].n} \cup MessagesOf(turn[k].state)
Says(t, n)     == n \in MessagesOf(thread[t]) \/ \E k \in Keys : Thread(k) = t /\ TurnSays(k, n)

Alive(n) == writer[n] \in Living

\* An agent with messages of somebody who is there is theirs.
Belongs(n, a) == Alive(n) => a \in DOMAIN agents /\ users[agents[a].user] = writer[n]

OneLifeEach == \A u, v \in DOMAIN users : users[u] = users[v] => u = v

AllBelong ==
    \A t \in Threads, n \in Nat : Says(t, n) => n \in 1..Len(writer) /\ Belongs(n, t[2])

\* A message is said in one thread, that of its identity and agent.
OneHome == \A t1, t2 \in Threads, n \in Nat : Says(t1, n) /\ Says(t2, n) => t1 = t2

\* What was erased and is still known was known to a turn; the question of a turn is not erased.
Forgotten ==
    /\ \A t \in Threads, n \in Nat : Says(t, n) /\ n \in erased => n \in held
    /\ \A k \in Keys : turn[k] # NoTurn => turn[k].n \notin erased
    /\ \A n \in erased : n <= Len(writer)

Inbound(k) == [n |-> turn[k].n, user |-> turn[k].user, agent |-> turn[k].agent, dir |-> "in"]

\* A turn knows the user it is for, and its question is in the trail, as long as they are there.
TurnsKnow ==
    \A k \in Keys : turn[k] # NoTurn =>
        /\ turn[k].user \in UserIds /\ turn[k].agent \in AgentIds
        /\ Alive(turn[k].n) => /\ turn[k].user \in DOMAIN users
                               /\ users[turn[k].user] = writer[turn[k].n]
                               /\ Inbound(k) \in logs

TrailKnows ==
    \A row \in logs : row.n \in 1..Len(writer) /\ (Alive(row.n) => users[row.user] = writer[row.n])

DeskKnows ==
    /\ desk.op = "idle" => desk = NoTask
    /\ desk.locked => desk.op = "delete" /\ \A row \in logs :
                        agents[row.agent].user = desk.user => row.user = desk.user
    /\ desk.op # "idle" => desk.user \in DOMAIN users /\ desk.since <= Len(writer)
    /\ \A t \in desk.todo : t[2] \in DOMAIN agents /\ agents[t[2]].user = desk.user

\* A deletion without purge that goes on has found no history.
NoHistory ==
    desk.op = "delete" /\ ~desk.purge =>
        /\ \A row \in logs : row.user = desk.user /\ Alive(row.n) => row.n > desk.since
        /\ \A k \in Keys : turn[k] # NoTurn /\ turn[k].user = desk.user /\ Alive(turn[k].n)
                             => turn[k].n > desk.since

Inv ==
    /\ TypeOK /\ OneLifeEach /\ AllBelong /\ OneHome /\ Forgotten
    /\ TurnsKnow /\ TrailKnows /\ DeskKnows /\ NoHistory

LEMMA InvInit == Init => Inv
<1> SUFFICES ASSUME Init PROVE Inv
  OBVIOUS
<1>1. \A t \in Threads, n \in Nat : ~Says(t, n)
  BY DEF Init, Says, TurnSays, MessagesOf
<1>2. NoTurn \in Turn /\ NoTask \in Task
  BY DEF NoTurn, Turn, Stages, NoTask, Task
<1>3. TypeOK
  <2>1. /\ DOMAIN users = {} /\ DOMAIN agents = {} /\ logs = {} /\ thread \in [Threads -> Seq(Message)]
        /\ turn \in [Keys -> Turn] /\ desk \in Task /\ writer \in Seq(1..lives)
    BY <1>2 DEF Init
  <2>2. QED BY <2>1 DEF Init, TypeOK
<1>4. OneLifeEach /\ AllBelong /\ OneHome
  BY <1>1 DEF Init, OneLifeEach, AllBelong, OneHome
<1>5. Forgotten
  BY <1>1 DEF Init, Forgotten
<1>6. TurnsKnow /\ TrailKnows
  BY DEF Init, TurnsKnow, TrailKnows
<1>7. DeskKnows /\ NoHistory
  BY DEF Init, DeskKnows, NoHistory, NoTask
<1>8. QED BY <1>3, <1>4, <1>5, <1>6, <1>7 DEF Inv

----------------------------------------------------------------------------
\* What a step that says nothing new, and takes nothing from who stays, preserves.

\* Who is there after the step was there before, with the same ids.
Persist ==
    /\ Len(writer) <= Len(writer') /\ \A n \in 1..Len(writer) : writer'[n] = writer[n]
    /\ \A n \in 1..Len(writer) : Alive(n)' => Alive(n)
    /\ \A u \in DOMAIN users : users[u] \in Living' => u \in DOMAIN users' /\ users'[u] = users[u]
    /\ \A a \in DOMAIN agents : users[agents[a].user] \in Living' =>
          a \in DOMAIN agents' /\ agents'[a].user = agents[a].user

NothingNew == \A t \in Threads, n \in Nat : Says(t, n)' => Says(t, n)

LEMMA SamePeoplePersist ==
    ASSUME users' = users, writer' = writer, TypeOK,
           \A a \in DOMAIN agents : a \in DOMAIN agents' /\ agents'[a].user = agents[a].user
    PROVE  Persist
<1>1. Living' = Living /\ \A n \in 1..Len(writer) : Alive(n)' = Alive(n)
  BY DEF Living, Alive
<1>2. Len(writer) <= Len(writer')
  BY DEF TypeOK
<1>3. QED BY <1>1, <1>2 DEF Persist

LEMMA BelongsOn ==
    ASSUME Inv, Persist, NEW n \in 1..Len(writer), NEW a, Belongs(n, a)
    PROVE  Belongs(n, a)'
<1>1. SUFFICES ASSUME Alive(n)' PROVE a \in DOMAIN agents' /\ users'[agents'[a].user] = writer'[n]
  BY DEF Belongs
<1>2. a \in DOMAIN agents /\ users[agents[a].user] = writer[n] /\ writer'[n] = writer[n]
  BY <1>1 DEF Persist, Belongs
<1>3. agents[a].user \in DOMAIN users /\ writer[n] \in Living'
  BY <1>1, <1>2 DEF Inv, TypeOK, Alive
<1>4. QED BY <1>2, <1>3 DEF Persist

LEMMA SilenceKeeps ==
    ASSUME Inv, Persist, NothingNew
    PROVE  AllBelong' /\ OneHome'
<1>1. ASSUME NEW t \in Threads, NEW n \in Nat, Says(t, n)'
      PROVE  n \in 1..Len(writer)' /\ Belongs(n, t[2])'
  <2>1. n \in 1..Len(writer) /\ Belongs(n, t[2])
    BY <1>1 DEF NothingNew, Inv, AllBelong
  <2>2. Len(writer) \in Nat /\ Len(writer') >= Len(writer)
    BY DEF Persist, Inv, TypeOK
  <2>3. QED BY <2>1, <2>2, BelongsOn
<1>2. AllBelong'
  BY <1>1 DEF AllBelong
<1>3. OneHome'
  BY DEF NothingNew, Inv, OneHome
<1>4. QED BY <1>2, <1>3

----------------------------------------------------------------------------
\* The steps of a turn.

\* A turn under way knows where it is, and that its question is a message.
LEMMA TurnIs ==
    ASSUME Inv, NEW k \in Keys, turn[k] # NoTurn
    PROVE  /\ turn[k] \in Turn /\ Thread(k) \in Threads /\ Says(Thread(k), turn[k].n)
           /\ turn[k].n \in 1..Len(writer) /\ turn[k].n \in Nat \ {0}
           /\ Question(k) \in Message /\ Answer(k) \in Message
<1>1. turn[k] \in Turn /\ turn[k].agent \in AgentIds /\ turn[k].n \in Nat
  BY DEF Inv, TypeOK, TurnsKnow, Turn
<1>2. Thread(k) \in Threads
  BY <1>1 DEF Thread, Threads
<1>3. Says(Thread(k), turn[k].n)
  BY <1>2 DEF Says, TurnSays
<1>4. turn[k].n \in 1..Len(writer)
  BY <1>1, <1>2, <1>3 DEF Inv, AllBelong
<1>5. Len(writer) \in Nat
  BY DEF Inv, TypeOK
<1>6. turn[k].n \in Nat \ {0}
  BY <1>4, <1>5
<1>7. QED BY <1>1, <1>2, <1>3, <1>4, <1>6 DEF Question, Answer, Message

GoesOn(k) == Load(k) \/ Ask(k) \/ Reply(k) \/ TurnFails(k)

\* A turn that goes on keeps who it is for, and only what it knows moves.
LEMMA GoingOnMoves ==
    ASSUME Inv, NEW k \in Keys, GoesOn(k)
    PROVE  /\ UNCHANGED <<rowVars, desk, historyVars>>
           /\ turn[k] # NoTurn /\ turn' \in [Keys -> Turn] /\ thread' \in [Threads -> Seq(Message)]
           /\ \A j \in Keys : j # k => turn'[j] = turn[j]
           /\ turn'[k] # NoTurn /\ turn'[k].n = turn[k].n /\ turn'[k].user = turn[k].user
           /\ turn'[k].agent = turn[k].agent
           /\ \A n \in MessagesOf(turn'[k].state) : Says(Thread(k), n)
           /\ \A t \in Threads : t # Thread(k) => thread'[t] = thread[t]
           /\ \A n \in MessagesOf(thread'[Thread(k)]) : Says(Thread(k), n)
           /\ \A t \in Threads : thread[t] # <<>> => thread'[t] # <<>>
<1>1. turn[k] # NoTurn /\ turn[k].stage \in {"admitted", "loaded", "asked"}
  BY DEF GoesOn, Load, Ask, Reply, TurnFails, At, NoTurn
<1>2. /\ turn \in [Keys -> Turn] /\ turn[k] \in Turn /\ thread \in [Threads -> Seq(Message)]
      /\ Thread(k) \in Threads /\ Says(Thread(k), turn[k].n)
      /\ Question(k) \in Message /\ Answer(k) \in Message
  BY <1>1, TurnIs DEF Inv, TypeOK
<1>3. turn[k].state \in Seq(Message) /\ thread[Thread(k)] \in Seq(Message)
  BY <1>2 DEF Turn
<1>4. UNCHANGED <<rowVars, desk, historyVars>>
  BY DEF GoesOn, Load, Ask, Reply, TurnFails, TurnOnly
<1>5. /\ \A n \in MessagesOf(turn[k].state) : Says(Thread(k), n)
      /\ \A n \in MessagesOf(thread[Thread(k)]) : Says(Thread(k), n)
  BY <1>1 DEF Says, TurnSays
<1>6. \/ turn' = [turn EXCEPT ![k].stage = "loaded", ![k].state = thread[Thread(k)]]
      \/ turn' = [turn EXCEPT ![k].stage = "asked"]
      \/ turn' = [turn EXCEPT ![k].stage = "answered"]
      \/ turn' = [turn EXCEPT ![k].stage = "failed"]
  BY DEF GoesOn, Load, Ask, Reply, TurnFails
<1>7. PICK stage \in {"loaded", "asked", "answered", "failed"},
           state \in {turn[k].state, thread[Thread(k)]} :
        turn' = [turn EXCEPT ![k] = [turn[k] EXCEPT !.stage = stage, !.state = state]]
  BY <1>2, <1>6 DEF Turn
<1>8. [turn[k] EXCEPT !.stage = stage, !.state = state] \in Turn
  BY <1>2, <1>3 DEF Turn, Stages
<1>9. /\ turn' \in [Keys -> Turn] /\ \A j \in Keys : j # k => turn'[j] = turn[j]
      /\ turn'[k] = [turn[k] EXCEPT !.stage = stage, !.state = state]
  BY <1>2, <1>7, <1>8
<1>10. /\ turn'[k].stage # "idle" /\ turn'[k].n = turn[k].n /\ turn'[k].user = turn[k].user
       /\ turn'[k].agent = turn[k].agent /\ turn'[k].state = state
  BY <1>2, <1>9 DEF Turn
<1>11. turn'[k] # NoTurn
  BY <1>10 DEF NoTurn
<1>12. \A n \in MessagesOf(turn'[k].state) : Says(Thread(k), n)
  BY <1>5, <1>10
<1>13. /\ Extended(turn[k].state, <<Question(k)>>) \in Seq(Message)
       /\ Extended(turn[k].state, <<Question(k), Answer(k)>>) \in Seq(Message)
       /\ Extended(turn[k].state, <<Question(k)>>) # <<>>
       /\ Extended(turn[k].state, <<Question(k), Answer(k)>>) # <<>>
       /\ \A n \in MessagesOf(Extended(turn[k].state, <<Question(k)>>)) : Says(Thread(k), n)
       /\ \A n \in MessagesOf(Extended(turn[k].state, <<Question(k), Answer(k)>>)) : Says(Thread(k), n)
  <2>1. Question(k).n = turn[k].n /\ Answer(k).n = Question(k).n
    BY DEF Question, Answer
  <2> DEFINE q     == Question(k)
             a     == Answer(k)
             known == turn[k].state
  <2>2. q \in Message /\ a \in Message /\ known \in Seq(Message) /\ a.n = q.n
    BY <1>2, <1>3, <2>1
  <2> HIDE DEF q, a, known
  <2>3. /\ Extended(known, <<q>>) \in Seq(Message) /\ Extended(known, <<q, a>>) \in Seq(Message)
        /\ Extended(known, <<q>>) # <<>> /\ Extended(known, <<q, a>>) # <<>>
        /\ MessagesOf(Extended(known, <<q>>)) \subseteq {q.n} \cup MessagesOf(known)
        /\ MessagesOf(Extended(known, <<q, a>>)) \subseteq {q.n} \cup MessagesOf(known)
    BY <2>2, Extends
  <2>4. \A n \in {q.n} \cup MessagesOf(known) : Says(Thread(k), n)
    BY <1>2, <1>5, <2>1 DEF q, known
  <2>5. QED BY <2>3, <2>4 DEF q, a, known
<1>14. \/ thread' = thread
       \/ thread' = [thread EXCEPT ![Thread(k)] = Extended(turn[k].state, <<Question(k)>>)]
       \/ thread' = [thread EXCEPT ![Thread(k)] = Extended(turn[k].state, <<Question(k), Answer(k)>>)]
  BY DEF GoesOn, Load, Ask, Reply, TurnFails
<1>15. /\ thread' \in [Threads -> Seq(Message)]
       /\ \A t \in Threads : t # Thread(k) => thread'[t] = thread[t]
       /\ \A n \in MessagesOf(thread'[Thread(k)]) : Says(Thread(k), n)
       /\ \A t \in Threads : thread[t] # <<>> => thread'[t] # <<>>
  <2>1. CASE thread' = thread
    BY <1>2, <1>5, <2>1
  <2>2. CASE thread' = [thread EXCEPT ![Thread(k)] = Extended(turn[k].state, <<Question(k)>>)]
    BY <1>2, <1>13, <2>2
  <2>3. CASE thread' = [thread EXCEPT ![Thread(k)] =
                          Extended(turn[k].state, <<Question(k), Answer(k)>>)]
    BY <1>2, <1>13, <2>3
  <2>4. QED BY <1>14, <2>1, <2>2, <2>3
<1>16. QED BY <1>1, <1>4, <1>9, <1>10, <1>11, <1>12, <1>15

\* The rows and the erased stay: what is left of the invariant is about what is said.
LEMMA GoingOnKeeps ==
    ASSUME Inv, NEW k \in Keys, GoesOn(k)
    PROVE  Inv'
<1>1. /\ UNCHANGED <<rowVars, desk, historyVars>>
      /\ turn[k] # NoTurn /\ turn' \in [Keys -> Turn] /\ thread' \in [Threads -> Seq(Message)]
      /\ \A j \in Keys : j # k => turn'[j] = turn[j]
      /\ turn'[k] # NoTurn /\ turn'[k].n = turn[k].n /\ turn'[k].user = turn[k].user
      /\ turn'[k].agent = turn[k].agent
      /\ \A n \in MessagesOf(turn'[k].state) : Says(Thread(k), n)
      /\ \A t \in Threads : t # Thread(k) => thread'[t] = thread[t]
      /\ \A n \in MessagesOf(thread'[Thread(k)]) : Says(Thread(k), n)
  BY GoingOnMoves
<1>2. /\ users' = users /\ owner' = owner /\ chosen' = chosen /\ agents' = agents /\ logs' = logs
      /\ desk' = desk /\ lives' = lives /\ writer' = writer /\ erased' = erased /\ held' = held
      /\ tasks' = tasks /\ changes' = changes
  BY <1>1 DEF rowVars, historyVars
<1>3. Persist
  BY <1>2, SamePeoplePersist DEF Inv
<1>4. \A j \in Keys : /\ Thread(j)' = Thread(j)
                      /\ turn'[j] # NoTurn <=> turn[j] # NoTurn
                      /\ turn'[j].n = turn[j].n /\ turn'[j].user = turn[j].user
                      /\ turn'[j].agent = turn[j].agent
  BY <1>1 DEF Thread
<1>5. NothingNew
  <2>1. SUFFICES ASSUME NEW t \in Threads, NEW n \in Nat, Says(t, n)' PROVE Says(t, n)
    BY DEF NothingNew
  <2>2. CASE n \in MessagesOf(thread'[t])
    BY <1>1, <2>2 DEF Says
  <2>3. ASSUME NEW j \in Keys, Thread(j)' = t, TurnSays(j, n)' PROVE Says(t, n)
    <3>1. Thread(j) = t /\ turn[j] # NoTurn
      BY <1>4, <2>3 DEF TurnSays
    <3>2. CASE n = turn'[j].n
      BY <1>4, <3>1, <3>2 DEF Says, TurnSays
    <3>3. CASE n \in MessagesOf(turn'[j].state)
      BY <1>1, <3>1, <3>3 DEF Says, TurnSays
    <3>4. QED BY <2>3, <3>2, <3>3 DEF TurnSays
  <2>4. QED BY <2>1, <2>2, <2>3 DEF Says
<1>6. TypeOK'
  BY <1>1, <1>2 DEF Inv, TypeOK
<1>7. AllBelong' /\ OneHome'
  BY <1>3, <1>5, SilenceKeeps
<1>8. Forgotten'
  BY <1>2, <1>4, <1>5 DEF Inv, Forgotten, NothingNew
<1>9. \A n : Alive(n)' = Alive(n)
  BY <1>2 DEF Alive, Living
<1>10. TurnsKnow'
  <2>1. \A j \in Keys : Inbound(j)' = Inbound(j)
    BY <1>4 DEF Inbound
  <2>2. QED BY <1>2, <1>4, <1>9, <2>1 DEF Inv, TurnsKnow
<1>11. TrailKnows' /\ DeskKnows' /\ OneLifeEach'
  BY <1>2, <1>9 DEF Inv, TrailKnows, DeskKnows, OneLifeEach
<1>12. NoHistory'
  BY <1>2, <1>4, <1>9 DEF Inv, NoHistory
<1>13. QED BY <1>6, <1>7, <1>8, <1>10, <1>11, <1>12 DEF Inv

\* A turn that ends, recorded or not, knows nothing any more.
LEMMA EndingMoves ==
    ASSUME Inv, NEW ended \in SUBSET Keys,
           turn' = [k \in Keys |-> IF k \in ended THEN NoTurn ELSE turn[k]],
           UNCHANGED <<users, owner, chosen, agents, thread, desk, historyVars>>
    PROVE  /\ AllBelong' /\ OneHome' /\ Forgotten' /\ OneLifeEach' /\ turn' \in [Keys -> Turn]
           /\ \A k \in Keys : turn'[k] # NoTurn => turn'[k] = turn[k] /\ Inbound(k)' = Inbound(k)
           /\ \A n : Alive(n)' = Alive(n)
<1>1. NoTurn \in Turn
  BY DEF NoTurn, Turn, Stages
<1>2. turn' \in [Keys -> Turn] /\ \A k \in Keys : turn'[k] # NoTurn => turn'[k] = turn[k]
  BY <1>1 DEF Inv, TypeOK
<1>3. /\ users' = users /\ agents' = agents /\ thread' = thread
      /\ writer' = writer /\ erased' = erased /\ held' = held
  BY DEF historyVars
<1>4. Persist
  BY <1>3, SamePeoplePersist DEF Inv
<1>5. NothingNew
  <2>1. ASSUME NEW t \in Threads, NEW n \in Nat, NEW j \in Keys, Thread(j)' = t, TurnSays(j, n)'
        PROVE  Says(t, n)
    BY <1>2, <2>1 DEF Says, TurnSays, Thread
  <2>2. QED BY <1>3, <2>1 DEF Says, NothingNew
<1>6. AllBelong' /\ OneHome'
  BY <1>4, <1>5, SilenceKeeps
<1>7. Forgotten'
  BY <1>2, <1>3, <1>5 DEF Inv, Forgotten, NothingNew
<1>8. QED BY <1>2, <1>3, <1>6, <1>7 DEF Inv, OneLifeEach, Inbound, Alive, Living

LEMMA CrashKeeps ==
    ASSUME Inv, Crash
    PROVE  Inv'
<1>1. turn' = [k \in Keys |-> IF k \in Keys THEN NoTurn ELSE turn[k]]
      /\ UNCHANGED <<users, owner, chosen, agents, thread, desk, historyVars>> /\ logs' = logs
  BY DEF Crash, rowVars
<1>2. /\ AllBelong' /\ OneHome' /\ Forgotten' /\ OneLifeEach' /\ turn' \in [Keys -> Turn]
      /\ \A n : Alive(n)' = Alive(n)
  BY <1>1, EndingMoves
<1>3. \A k \in Keys : turn'[k] = NoTurn
  BY <1>1
<1>4. TypeOK'
  BY <1>1, <1>2 DEF Inv, TypeOK, historyVars
<1>5. TurnsKnow'
  BY <1>3 DEF TurnsKnow
<1>6. TrailKnows' /\ DeskKnows'
  BY <1>1, <1>2 DEF Inv, TrailKnows, DeskKnows, historyVars
<1>7. NoHistory'
  BY <1>1, <1>2, <1>3 DEF Inv, NoHistory, historyVars
<1>8. QED BY <1>2, <1>4, <1>5, <1>6, <1>7 DEF Inv

LEMMA RecordKeeps ==
    ASSUME Inv, NEW k \in Keys, Record(k)
    PROVE  Inv'
<1> DEFINE row == Answered(k)
<1>1. /\ turn[k] # NoTurn
      /\ turn' = [j \in Keys |-> IF j \in {k} THEN NoTurn ELSE turn[j]]
      /\ UNCHANGED <<users, owner, chosen, agents, thread, desk, historyVars>>
  <2>1. turn[k] # NoTurn /\ turn' = [turn EXCEPT ![k] = NoTurn] /\ turn \in [Keys -> Turn]
    BY DEF Record, NoTurn, Inv, TypeOK
  <2>2. turn' = [j \in Keys |-> IF j \in {k} THEN NoTurn ELSE turn[j]]
    BY <2>1
  <2>3. UNCHANGED <<users, owner, chosen, agents, thread, desk, historyVars>>
    BY DEF Record
  <2>4. QED BY <2>1, <2>2, <2>3
<1>2. /\ AllBelong' /\ OneHome' /\ Forgotten' /\ OneLifeEach' /\ turn' \in [Keys -> Turn]
      /\ \A j \in Keys : turn'[j] # NoTurn => turn'[j] = turn[j] /\ Inbound(j)' = Inbound(j)
      /\ \A n : Alive(n)' = Alive(n)
  BY <1>1, EndingMoves
<1>3. \/ logs' = logs
      \/ /\ ~desk.locked /\ logs' = logs \cup {row}
         /\ turn[k].user \in DOMAIN users /\ turn[k].agent \in DOMAIN agents
  BY DEF Record, Answered
<1>4. /\ row = [n |-> turn[k].n, user |-> turn[k].user, agent |-> turn[k].agent, dir |-> "out"]
      /\ turn[k].n \in 1..Len(writer) /\ turn[k].n \in Nat \ {0}
      /\ Alive(turn[k].n) => users[turn[k].user] = writer[turn[k].n]
  BY <1>1, TurnIs DEF Answered, Inv, TurnsKnow
<1> HIDE DEF row
<1>5. /\ users' = users /\ agents' = agents /\ desk' = desk /\ writer' = writer
      /\ owner' = owner /\ chosen' = chosen /\ thread' = thread /\ lives' = lives
      /\ erased' = erased /\ held' = held /\ tasks' = tasks /\ changes' = changes
  BY <1>1 DEF historyVars
<1>6. TypeOK'
  <2>1. \A r \in logs' : r \in [n : Nat \ {0}, user : DOMAIN users, agent : DOMAIN agents,
                                dir : {"in", "out"}]
    BY <1>3, <1>4 DEF Inv, TypeOK
  <2>2. QED BY <1>2, <1>5, <2>1 DEF Inv, TypeOK
<1>7. TurnsKnow'
  BY <1>2, <1>3, <1>5 DEF Inv, TurnsKnow
<1>8. TrailKnows'
  BY <1>2, <1>3, <1>4, <1>5 DEF Inv, TrailKnows
<1>9. DeskKnows'
  BY <1>3, <1>5 DEF Inv, DeskKnows
<1>10. NoHistory'
  BY <1>1, <1>2, <1>3, <1>4, <1>5 DEF Inv, NoHistory
<1>11. QED BY <1>2, <1>6, <1>7, <1>8, <1>9, <1>10 DEF Inv

----------------------------------------------------------------------------
\* A new message.

\* The agent it is for is one of the user's, or a new one.
LEMMA ReachedIs ==
    ASSUME TypeOK, ConstantsAssumption, NEW k \in Keys, owner[k] # 0, NEW a \in Reached(k)
    PROVE  /\ a \in AgentIds
           /\ a \in DOMAIN agents => agents[a].user = owner[k]
<1>1. CASE chosen[k] # 0
  BY <1>1 DEF TypeOK, Reached
<1>2. CASE chosen[k] = 0 /\ Defaults(owner[k]) # {}
  BY <1>2 DEF TypeOK, Reached, Defaults
<1>3. CASE chosen[k] = 0 /\ Defaults(owner[k]) = {}
  <2>1. a = NextId(DOMAIN agents, MaxAgents) /\ a \in AgentIds
    BY <1>3 DEF Reached
  <2>2. a \notin DOMAIN agents
    BY <2>1, NextIdIsFree, ConstantsAssumption DEF TypeOK, AgentIds
  <2>3. QED BY <2>1, <2>2
<1>4. QED BY <1>1, <1>2, <1>3

LEMMA WriteKeeps ==
    ASSUME Inv, ConstantsAssumption, NEW k \in Keys, Write(k)
    PROVE  Inv'
<1>0. PICK n : n = Len(writer) + 1
  OBVIOUS
<1>1. PICK a \in Reached(k) :
        /\ agents' = IF a \in DOMAIN agents THEN agents
                     ELSE Put(agents, a, [user |-> owner[k], default |-> TRUE])
        /\ logs' = logs \cup {[n |-> n, user |-> owner[k], agent |-> a, dir |-> "in"]}
        /\ turn' = [turn EXCEPT ![k] = [stage |-> "admitted", user |-> owner[k], agent |-> a,
                                        n |-> n, state |-> <<>>]]
  BY <1>0 DEF Write
<1>2. /\ turn[k] = NoTurn /\ owner[k] # 0 /\ ~desk.locked
      /\ writer' = Append(writer, users[owner[k]])
      /\ users' = users /\ owner' = owner /\ chosen' = chosen /\ thread' = thread
      /\ desk' = desk /\ lives' = lives /\ erased' = erased /\ held' = held
      /\ tasks' = tasks /\ changes' = changes
  BY DEF Write
<1>3. TypeOK /\ a \in AgentIds /\ (a \in DOMAIN agents => agents[a].user = owner[k])
  BY <1>2, ReachedIs DEF Inv
<1>4. owner[k] \in DOMAIN users /\ owner[k] \in UserIds /\ users[owner[k]] \in 1..lives
  BY <1>2, <1>3 DEF TypeOK
<1>5. /\ Len(writer) \in Nat /\ n \in Nat \ {0} /\ writer' \in Seq(1..lives) /\ Len(writer') = n
      /\ \A m \in 1..Len(writer) : writer'[m] = writer[m]
      /\ writer'[n] = users[owner[k]]
  BY <1>0, <1>2, <1>3, <1>4 DEF TypeOK
<1>6. /\ DOMAIN agents' = DOMAIN agents \cup {a} /\ agents'[a].user = owner[k]
      /\ \A b \in DOMAIN agents : agents'[b] = agents[b]
      /\ agents'[a] \in [user : DOMAIN users, default : BOOLEAN]
  <2>1. CASE a \in DOMAIN agents
    BY <1>1, <1>3, <2>1 DEF TypeOK
  <2>2. CASE a \notin DOMAIN agents
    <3>1. PICK fresh : fresh = [user |-> owner[k], default |-> TRUE]
      OBVIOUS
    <3>2. fresh.user = owner[k] /\ fresh \in [user : DOMAIN users, default : BOOLEAN]
      BY <1>4, <3>1
    <3>3. agents' = Put(agents, a, fresh)
      BY <1>1, <2>2, <3>1
    <3>4. /\ DOMAIN agents' = DOMAIN agents \cup {a} /\ agents'[a] = fresh
          /\ \A b \in DOMAIN agents : b # a => agents'[b] = agents[b]
      BY <3>3 DEF Put
    <3>5. QED BY <2>2, <3>2, <3>4
  <2>3. QED BY <2>1, <2>2
<1>7. Persist
  <2>1. \A m \in 1..Len(writer) : Alive(m)' = Alive(m)
    BY <1>2, <1>5 DEF Alive, Living
  <2>2. Len(writer) <= Len(writer')
    BY <1>0, <1>5
  <2>3. QED BY <1>2, <1>5, <1>6, <2>1, <2>2 DEF Persist
<1>8. \A t \in Threads, m \in Nat : Says(t, m)' => Says(t, m) \/ (t = <<k, a>> /\ m = n)
  <2>1. ASSUME NEW t \in Threads, NEW m \in Nat, NEW j \in Keys, Thread(j)' = t, TurnSays(j, m)'
        PROVE  Says(t, m) \/ (t = <<k, a>> /\ m = n)
    <3>1. CASE j = k
      <4>1. turn'[k].agent = a /\ turn'[k].n = n /\ turn'[k].state = <<>>
        BY <1>1, <1>3 DEF TypeOK
      <4>2. QED BY <2>1, <3>1, <4>1 DEF Thread, TurnSays, MessagesOf
    <3>2. CASE j # k
      <4>1. turn'[j] = turn[j]
        BY <1>1, <1>3, <3>2 DEF TypeOK
      <4>2. QED BY <2>1, <4>1 DEF Thread, TurnSays, Says
    <3>3. QED BY <3>1, <3>2
  <2>2. QED BY <1>2, <2>1 DEF Says
<1>9. ASSUME NEW t \in Threads, NEW m \in Nat, Says(t, m)
      PROVE  m \in 1..Len(writer) /\ m # n /\ m \in 1..Len(writer') /\ Belongs(m, t[2])'
  <2>1. m \in 1..Len(writer) /\ Belongs(m, t[2])
    BY <1>9 DEF Inv, AllBelong
  <2>2. m # n /\ m \in 1..Len(writer')
    BY <1>0, <1>5, <2>1
  <2>3. QED BY <1>7, <2>1, <2>2, BelongsOn
<1>10. AllBelong'
  <2>1. n \in 1..Len(writer')
    BY <1>5
  <2>2. Belongs(n, a)'
    BY <1>2, <1>5, <1>6 DEF Belongs
  <2>3. ASSUME NEW t \in Threads, NEW m \in Nat, Says(t, m)'
        PROVE  m \in 1..Len(writer') /\ Belongs(m, t[2])'
    BY <1>8, <1>9, <2>1, <2>2, <2>3
  <2>4. QED BY <2>3 DEF AllBelong
<1>11. OneHome'
  BY <1>8, <1>9 DEF Inv, OneHome
<1>12. n \notin erased /\ \A m \in erased : m <= Len(writer')
  BY <1>0, <1>3, <1>5 DEF Inv, Forgotten, TypeOK
<1>13. /\ \A j \in Keys : j # k => turn'[j] = turn[j]
       /\ turn'[k] = [stage |-> "admitted", user |-> owner[k], agent |-> a, n |-> n, state |-> <<>>]
       /\ turn'[k].n = n /\ turn'[k].user = owner[k] /\ turn'[k].agent = a
  BY <1>1, <1>3 DEF TypeOK
<1>14. Forgotten'
  <2>1. \A t \in Threads, m \in Nat : Says(t, m)' /\ m \in erased => m \in held
    BY <1>8, <1>12 DEF Inv, Forgotten
  <2>2. \A j \in Keys : turn'[j] # NoTurn => turn'[j].n \notin erased
    BY <1>12, <1>13 DEF Inv, Forgotten
  <2>3. QED BY <1>2, <1>12, <2>1, <2>2 DEF Forgotten
<1>15. TypeOK'
  <2>1. turn'[k] \in Turn
    BY <1>3, <1>4, <1>5, <1>13 DEF Turn, Stages
  <2>2. turn' \in [Keys -> Turn]
    BY <1>1, <1>3, <1>13, <2>1 DEF TypeOK
  <2>3. \A row \in logs' : row \in [n : Nat \ {0}, user : DOMAIN users, agent : DOMAIN agents',
                                    dir : {"in", "out"}]
    <3>1. PICK new : new = [n |-> n, user |-> owner[k], agent |-> a, dir |-> "in"]
      OBVIOUS
    <3>2. new \in [n : Nat \ {0}, user : DOMAIN users, agent : DOMAIN agents', dir : {"in", "out"}]
      BY <1>4, <1>5, <1>6, <3>1
    <3>3. \A row \in logs : row \in [n : Nat \ {0}, user : DOMAIN users, agent : DOMAIN agents',
                                     dir : {"in", "out"}]
      BY <1>3, <1>6 DEF TypeOK
    <3>4. QED BY <1>1, <3>1, <3>2, <3>3
  <2>4. \A b \in DOMAIN agents' : agents'[b] \in [user : DOMAIN users, default : BOOLEAN]
    BY <1>3, <1>6 DEF TypeOK
  <2>5. \A j \in Keys : chosen[j] # 0 => chosen[j] \in DOMAIN agents'
                                         /\ agents'[chosen[j]].user = owner[j]
    BY <1>3, <1>6 DEF TypeOK
  <2>6. DOMAIN agents' \subseteq AgentIds
    BY <1>3, <1>6 DEF TypeOK
  <2>7. QED BY <1>2, <1>3, <1>5, <2>2, <2>3, <2>4, <2>5, <2>6 DEF TypeOK
<1>16. \A m \in 1..Len(writer) : Alive(m)' = Alive(m)
  BY <1>2, <1>5 DEF Alive, Living
<1>17. TurnsKnow'
  <2>1. ASSUME NEW j \in Keys, turn'[j] # NoTurn, j # k
        PROVE  /\ turn'[j].user \in UserIds /\ turn'[j].agent \in AgentIds
               /\ Alive(turn[j].n)' => /\ turn[j].user \in DOMAIN users
                                       /\ users[turn[j].user] = writer'[turn[j].n]
                                       /\ Inbound(j)' \in logs'
    <3>1. turn'[j] = turn[j] /\ turn[j] # NoTurn /\ Inbound(j)' = Inbound(j)
      BY <1>13, <2>1 DEF Inbound
    <3>2. turn[j].n \in 1..Len(writer)
      BY <3>1, TurnIs
    <3>3. QED BY <1>1, <1>5, <1>16, <3>1, <3>2 DEF Inv, TurnsKnow
  <2>2. /\ turn'[k].user \in UserIds /\ turn'[k].agent \in AgentIds
        /\ turn'[k].user \in DOMAIN users /\ users[turn'[k].user] = writer'[turn'[k].n]
        /\ Inbound(k)' \in logs'
    BY <1>1, <1>3, <1>4, <1>5, <1>13 DEF Inbound
  <2>3. QED BY <1>2, <1>13, <2>1, <2>2 DEF TurnsKnow
<1>18. TrailKnows'
  <2>1. ASSUME NEW row \in logs
        PROVE  row.n \in 1..Len(writer') /\ (Alive(row.n)' => users[row.user] = writer'[row.n])
    <3>1. row.n \in 1..Len(writer) /\ (Alive(row.n) => users[row.user] = writer[row.n])
      BY DEF Inv, TrailKnows
    <3>2. row.n \in 1..Len(writer')
      BY <1>0, <1>5, <3>1
    <3>3. QED BY <1>5, <1>16, <3>1, <3>2
  <2>2. n \in 1..Len(writer')
    BY <1>5
  <2>3. QED BY <1>1, <1>2, <1>5, <2>1, <2>2 DEF TrailKnows
<1>19. DeskKnows'
  <2>1. desk.since <= Len(writer) => desk.since <= Len(writer')
    BY <1>0, <1>3, <1>5 DEF TypeOK, Task
  <2>2. QED BY <1>2, <1>6, <2>1 DEF Inv, DeskKnows
<1>20. NoHistory'
  <2>1. SUFFICES ASSUME desk.op = "delete", ~desk.purge
        PROVE  /\ \A row \in logs' : row.user = desk.user /\ Alive(row.n)' => row.n > desk.since
               /\ \A j \in Keys : turn'[j] # NoTurn /\ turn'[j].user = desk.user /\ Alive(turn[j].n)'
                                    => turn'[j].n > desk.since
    BY <1>2 DEF NoHistory
  <2>2. n > desk.since
    BY <1>0, <1>3, <1>5, <2>1 DEF Inv, DeskKnows, TypeOK, Task
  <2>3. \A row \in logs : row.n \in 1..Len(writer)
    BY DEF Inv, TrailKnows
  <2>4. \A j \in Keys : j # k /\ turn'[j] # NoTurn => turn[j] # NoTurn /\ turn[j].n \in 1..Len(writer)
    BY <1>13, TurnIs
  <2>5. \A row \in logs' : row.user = desk.user /\ Alive(row.n)' => row.n > desk.since
    BY <1>1, <1>16, <2>1, <2>2, <2>3 DEF Inv, NoHistory
  <2>6. QED BY <1>13, <1>16, <2>1, <2>2, <2>4, <2>5 DEF Inv, NoHistory
<1>21. OneLifeEach'
  BY <1>2 DEF Inv, OneLifeEach
<1>22. QED
  BY <1>10, <1>11, <1>14, <1>15, <1>17, <1>18, <1>19, <1>20, <1>21 DEF Inv

----------------------------------------------------------------------------
\* Changes of administrators that add users and agents, and take none away.

LEMMA GrowingKeeps ==
    ASSUME Inv, Change, TypeOK', OneLifeEach',
           \A u \in DOMAIN users : u \in DOMAIN users' /\ users'[u] = users[u],
           \A a \in DOMAIN agents : a \in DOMAIN agents' /\ agents'[a] = agents[a],
           \A n \in 1..Len(writer) : Alive(n)' => Alive(n)
    PROVE  Inv'
<1>1. /\ logs' = logs /\ thread' = thread /\ turn' = turn /\ desk' = desk /\ ~desk.locked
      /\ writer' = writer /\ erased' = erased /\ held' = held
  BY DEF Change
<1>2. \A row \in logs : row.n \in 1..Len(writer)
  BY DEF Inv, TrailKnows
<1>3. \A k \in Keys : turn[k] # NoTurn => turn[k].n \in 1..Len(writer)
  BY TurnIs
<1>4. \A a \in DOMAIN agents : agents[a].user \in DOMAIN users
  BY DEF Inv, TypeOK
<1>5. Persist
  <2>1. Len(writer) <= Len(writer')
    BY <1>1 DEF Inv, TypeOK
  <2>2. QED BY <1>1, <1>4, <2>1 DEF Persist
<1>6. \A t \in Threads, n \in Nat : Says(t, n)' = Says(t, n)
  BY <1>1 DEF Says, TurnSays, Thread
<1>7. AllBelong' /\ OneHome'
  BY <1>5, <1>6, SilenceKeeps DEF NothingNew
<1>8. Forgotten'
  BY <1>1, <1>6 DEF Inv, Forgotten
<1>9. TurnsKnow'
  BY <1>1, <1>3 DEF Inv, TurnsKnow, Inbound
<1>10. TrailKnows'
  <2>1. \A row \in logs : row.user \in DOMAIN users
    BY DEF Inv, TypeOK
  <2>2. QED BY <1>1, <1>2, <2>1 DEF Inv, TrailKnows
<1>11. DeskKnows'
  BY <1>1 DEF Inv, DeskKnows
<1>12. NoHistory'
  BY <1>1, <1>2, <1>3 DEF Inv, NoHistory
<1>13. QED BY <1>7, <1>8, <1>9, <1>10, <1>11, <1>12 DEF Inv

LEMMA SameLivesLive ==
    ASSUME users' = users, writer' = writer
    PROVE  \A n : Alive(n)' = Alive(n)
BY DEF Alive, Living

LEMMA LinkKeeps ==
    ASSUME Inv, ConstantsAssumption, NEW k \in Keys, Link(k)
    PROVE  Inv'
<1>1. /\ owner[k] = 0 /\ chosen' = chosen /\ agents' = agents /\ Change
      /\ logs' = logs /\ thread' = thread /\ turn' = turn /\ desk' = desk /\ writer' = writer
      /\ erased' = erased /\ held' = held /\ tasks' = tasks /\ changes' = changes + 1
  BY DEF Link, Change
<1>2. chosen[k] = 0
  BY <1>1 DEF Inv, TypeOK, UserIds
<1>3. CASE owner' \in {[owner EXCEPT ![k] = u] : u \in DOMAIN users} /\ users' = users /\ lives' = lives
  <2>1. PICK u \in DOMAIN users : owner' = [owner EXCEPT ![k] = u]
    BY <1>3
  <2>2. TypeOK'
    BY <1>1, <1>2, <1>3, <2>1 DEF Inv, TypeOK
  <2>3. OneLifeEach'
    BY <1>3 DEF Inv, OneLifeEach
  <2>4. QED BY <1>1, <1>3, <2>2, <2>3, SameLivesLive, GrowingKeeps
<1>4. ASSUME NEW u, u = NextId(DOMAIN users, MaxUsers), u <= MaxUsers, lives' = lives + 1,
             users' = Put(users, u, lives + 1), owner' = [owner EXCEPT ![k] = u]
      PROVE  Inv'
  <2>1. u \in UserIds /\ u \notin DOMAIN users
    <3>1. MaxUsers \in Nat /\ DOMAIN users \in SUBSET (1..MaxUsers)
      BY ConstantsAssumption DEF Inv, TypeOK, UserIds
    <3>2. u \in 1..(MaxUsers + 1) /\ u \notin DOMAIN users
      BY <1>4, <3>1, NextIdIsFree
    <3>3. QED BY <1>4, <3>1, <3>2 DEF UserIds
  <2>2. /\ DOMAIN users' = DOMAIN users \cup {u} /\ users'[u] = lives + 1
        /\ \A v \in DOMAIN users : users'[v] = users[v]
    BY <1>4, <2>1 DEF Put
  <2>3. /\ lives \in Nat /\ \A v \in DOMAIN users : users[v] \in 1..lives
        /\ writer \in Seq(1..lives)
    BY DEF Inv, TypeOK
  <2>4. writer' \in Seq(1..lives')
    BY <1>1, <1>4, <2>3
  <2>5. /\ DOMAIN users' \subseteq UserIds /\ \A v \in DOMAIN users' : users'[v] \in 1..lives'
        /\ owner' \in [Keys -> UserIds \cup {0}]
        /\ \A j \in Keys : owner'[j] # 0 => owner'[j] \in DOMAIN users'
        /\ \A j \in Keys : chosen[j] # 0 => chosen[j] \in DOMAIN agents /\ agents[chosen[j]].user = owner'[j]
    BY <1>2, <1>4, <2>1, <2>2, <2>3 DEF Inv, TypeOK
  <2>6. \A a \in DOMAIN agents : agents[a] \in [user : DOMAIN users', default : BOOLEAN]
    BY <2>2 DEF Inv, TypeOK
  <2>7. \A row \in logs : row \in [n : Nat \ {0}, user : DOMAIN users', agent : DOMAIN agents,
                                   dir : {"in", "out"}]
    BY <2>2 DEF Inv, TypeOK
  <2>8. TypeOK'
    BY <1>1, <1>4, <2>4, <2>5, <2>6, <2>7 DEF Inv, TypeOK
  <2>9. OneLifeEach'
    BY <2>1, <2>2, <2>3 DEF Inv, OneLifeEach
  <2>10. \A n \in 1..Len(writer) : Alive(n)' => Alive(n)
    <3>1. ASSUME NEW n \in 1..Len(writer), Alive(n)' PROVE Alive(n)
      <4>1. writer'[n] = writer[n] /\ writer[n] \in 1..lives /\ writer[n] # lives + 1
        BY <1>1, <2>3
      <4>2. PICK v \in DOMAIN users' : users'[v] = writer[n]
        BY <3>1, <4>1 DEF Alive, Living
      <4>3. v \in DOMAIN users /\ users[v] = writer[n]
        BY <2>2, <4>1, <4>2
      <4>4. QED BY <4>3 DEF Alive, Living
    <3>2. QED BY <3>1
  <2>11. QED BY <1>1, <2>2, <2>8, <2>9, <2>10, GrowingKeeps
<1>5. QED BY <1>3, <1>4 DEF Link

LEMMA UnlinkKeeps ==
    ASSUME Inv, NEW k \in Keys, Unlink(k)
    PROVE  Inv'
<1>1. /\ owner' = [owner EXCEPT ![k] = 0] /\ chosen' = [chosen EXCEPT ![k] = 0]
      /\ users' = users /\ agents' = agents /\ lives' = lives /\ Change
      /\ logs' = logs /\ thread' = thread /\ turn' = turn /\ desk' = desk /\ writer' = writer
      /\ erased' = erased /\ held' = held /\ tasks' = tasks /\ changes' = changes + 1
  BY DEF Unlink, Change
<1>2. TypeOK'
  BY <1>1 DEF Inv, TypeOK
<1>3. OneLifeEach'
  BY <1>1 DEF Inv, OneLifeEach
<1>4. QED BY <1>1, <1>2, <1>3, SameLivesLive, GrowingKeeps

LEMMA NewAgentKeeps ==
    ASSUME Inv, ConstantsAssumption, NEW u \in DOMAIN users, NewAgent(u)
    PROVE  Inv'
<1>1. PICK a, fresh :
        /\ a = NextId(DOMAIN agents, MaxAgents) /\ a <= MaxAgents
        /\ fresh = [user |-> u, default |-> FALSE] /\ agents' = Put(agents, a, fresh)
  BY DEF NewAgent
<1>2. /\ users' = users /\ owner' = owner /\ chosen' = chosen /\ lives' = lives /\ Change
      /\ logs' = logs /\ thread' = thread /\ turn' = turn /\ desk' = desk /\ writer' = writer
      /\ erased' = erased /\ held' = held /\ tasks' = tasks /\ changes' = changes + 1
  BY DEF NewAgent, Change
<1>3. a \in AgentIds /\ a \notin DOMAIN agents
  BY <1>1, NextIdIsFree, ConstantsAssumption DEF Inv, TypeOK, AgentIds
<1>4. /\ DOMAIN agents' = DOMAIN agents \cup {a} /\ agents'[a] = fresh
      /\ \A b \in DOMAIN agents : agents'[b] = agents[b]
  BY <1>1, <1>3 DEF Put
<1>5. fresh \in [user : DOMAIN users, default : BOOLEAN]
  BY <1>1
<1>6. \A row \in logs : row \in [n : Nat \ {0}, user : DOMAIN users, agent : DOMAIN agents',
                                 dir : {"in", "out"}]
  BY <1>4 DEF Inv, TypeOK
<1>7. /\ DOMAIN agents' \subseteq AgentIds
      /\ \A b \in DOMAIN agents' : agents'[b] \in [user : DOMAIN users, default : BOOLEAN]
      /\ \A j \in Keys : chosen[j] # 0 => chosen[j] \in DOMAIN agents' /\ agents'[chosen[j]].user = owner[j]
  BY <1>3, <1>4, <1>5 DEF Inv, TypeOK
<1>8. TypeOK'
  BY <1>2, <1>6, <1>7 DEF Inv, TypeOK
<1>9. OneLifeEach'
  BY <1>2 DEF Inv, OneLifeEach
<1>10. QED BY <1>2, <1>4, <1>8, <1>9, SameLivesLive, GrowingKeeps

LEMMA ChooseKeeps ==
    ASSUME Inv, NEW k \in Keys, Choose(k)
    PROVE  Inv'
<1>1. PICK a \in DOMAIN agents : agents[a].user = owner[k] /\ chosen' = [chosen EXCEPT ![k] = a]
  BY DEF Choose
<1>2. /\ users' = users /\ owner' = owner /\ agents' = agents /\ lives' = lives /\ Change
      /\ logs' = logs /\ thread' = thread /\ turn' = turn /\ desk' = desk /\ writer' = writer
      /\ erased' = erased /\ held' = held /\ tasks' = tasks /\ changes' = changes + 1
  BY DEF Choose, Change
<1>3. TypeOK'
  BY <1>1, <1>2 DEF Inv, TypeOK
<1>4. OneLifeEach'
  BY <1>2 DEF Inv, OneLifeEach
<1>5. QED BY <1>2, <1>3, <1>4, SameLivesLive, GrowingKeeps

----------------------------------------------------------------------------
\* Resets and deletions.

\* A step of the desk that only writes down where it is.
LEMMA DeskKeeps ==
    ASSUME Inv, desk' \in Task, tasks' \in Nat, DeskKnows', NoHistory',
           UNCHANGED <<rowVars, thread, turn, lives, writer, erased, held, changes>>
    PROVE  Inv'
<1>1. /\ users' = users /\ owner' = owner /\ chosen' = chosen /\ agents' = agents /\ logs' = logs
      /\ thread' = thread /\ turn' = turn /\ lives' = lives /\ writer' = writer
      /\ erased' = erased /\ held' = held /\ changes' = changes
  BY DEF rowVars
<1>2. TypeOK'
  BY <1>1 DEF Inv, TypeOK
<1>3. Persist /\ NothingNew
  <2>1. Persist
    BY <1>1, SamePeoplePersist DEF Inv
  <2>2. NothingNew
    BY <1>1 DEF NothingNew, Says, TurnSays, Thread
  <2>3. QED BY <2>1, <2>2
<1>4. AllBelong' /\ OneHome'
  BY <1>3, SilenceKeeps
<1>5. Forgotten'
  BY <1>1, <1>3 DEF Inv, Forgotten, NothingNew
<1>6. \A n : Alive(n)' = Alive(n)
  BY <1>1 DEF Alive, Living
<1>7. TurnsKnow'
  BY <1>1, <1>6 DEF Inv, TurnsKnow, Inbound
<1>8. TrailKnows' /\ OneLifeEach'
  BY <1>1, <1>6 DEF Inv, TrailKnows, OneLifeEach
<1>9. QED BY <1>2, <1>4, <1>5, <1>7, <1>8 DEF Inv

LEMMA BeginKeeps ==
    ASSUME Inv, NEW task \in Task, Begin(task), task.op # "idle", ~task.locked,
           task.user \in DOMAIN users,
           \A t \in task.todo : t[2] \in DOMAIN agents /\ agents[t[2]].user = task.user,
           task.op = "delete" /\ ~task.purge => \A row \in logs : row.user # task.user
    PROVE  Inv'
<1>1. /\ desk' = [task EXCEPT !.since = Len(writer)] /\ tasks' = tasks + 1
      /\ UNCHANGED <<rowVars, thread, turn, lives, writer, erased, held, changes>>
  BY DEF Begin
<1>2. Len(writer) \in Nat /\ tasks' \in Nat
  BY <1>1 DEF Inv, TypeOK
<1>3. /\ desk' \in Task /\ desk'.op = task.op /\ desk'.user = task.user /\ desk'.purge = task.purge
      /\ desk'.since = Len(writer) /\ desk'.todo = task.todo /\ desk'.locked = task.locked
  BY <1>1, <1>2 DEF Task
<1>4. /\ users' = users /\ agents' = agents /\ logs' = logs /\ turn' = turn /\ writer' = writer
  BY <1>1 DEF rowVars
<1>5. DeskKnows'
  BY <1>2, <1>3, <1>4 DEF DeskKnows
<1>6. NoHistory'
  <2>1. SUFFICES ASSUME task.op = "delete", ~task.purge
        PROVE  /\ \A row \in logs : row.user # task.user
               /\ \A k \in Keys : turn[k] # NoTurn /\ turn[k].user = task.user => ~Alive(turn[k].n)
    BY <1>3, <1>4 DEF NoHistory, Alive, Living
  <2>2. \A row \in logs : row.user # task.user
    BY <2>1
  <2>3. \A k \in Keys : Inbound(k).user = turn[k].user
    BY DEF Inbound
  <2>4. QED BY <2>2, <2>3 DEF Inv, TurnsKnow
<1>7. QED BY <1>1, <1>2, <1>3, <1>5, <1>6, DeskKeeps

LEMMA StartKeeps ==
    ASSUME Inv, NEW u \in DOMAIN users, StartReset(u) \/ StartDelete(u)
    PROVE  Inv'
<1>1. u \in UserIds /\ NoTask \in Task
  BY DEF Inv, TypeOK, NoTask, Task
<1>2. ASSUME NEW among \in SUBSET DOMAIN agents
      PROVE  /\ ThreadsOf(u, among) \in SUBSET Threads
             /\ \A t \in ThreadsOf(u, among) : t[2] \in DOMAIN agents /\ agents[t[2]].user = u
  BY DEF ThreadsOf, Threads, Inv, TypeOK
<1>3. CASE StartReset(u)
  <2>1. PICK among \in SUBSET DOMAIN agents :
          Begin([NoTask EXCEPT !.op = "reset", !.user = u, !.todo = ThreadsOf(u, among)])
    BY <1>3 DEF StartReset
  <2>2. PICK task : task = [NoTask EXCEPT !.op = "reset", !.user = u, !.todo = ThreadsOf(u, among)]
    OBVIOUS
  <2>3. /\ task \in Task /\ task.op = "reset" /\ task.user = u /\ ~task.locked
        /\ task.todo = ThreadsOf(u, among)
    BY <1>1, <1>2, <2>2 DEF NoTask, Task
  <2>4. Begin(task)
    BY <2>1, <2>2
  <2>5. QED BY <1>2, <2>3, <2>4, BeginKeeps
<1>4. CASE Begin([NoTask EXCEPT !.op = "delete", !.user = u, !.purge = TRUE,
                                !.todo = ThreadsOf(u, DOMAIN agents)])
  <2>1. PICK task : task = [NoTask EXCEPT !.op = "delete", !.user = u, !.purge = TRUE,
                                          !.todo = ThreadsOf(u, DOMAIN agents)]
    OBVIOUS
  <2>2. /\ task \in Task /\ task.op = "delete" /\ task.user = u /\ task.purge /\ ~task.locked
        /\ task.todo = ThreadsOf(u, DOMAIN agents)
    BY <1>1, <1>2, <2>1 DEF NoTask, Task
  <2>3. Begin(task)
    BY <1>4, <2>1
  <2>4. QED BY <1>2, <2>2, <2>3, BeginKeeps
<1>5. CASE /\ \A row \in logs : row.user # u
           /\ Begin([NoTask EXCEPT !.op = "delete", !.user = u])
  <2>1. PICK task : task = [NoTask EXCEPT !.op = "delete", !.user = u]
    OBVIOUS
  <2>2. /\ task \in Task /\ task.op = "delete" /\ task.user = u /\ ~task.locked /\ task.todo = {}
    BY <1>1, <2>1 DEF NoTask, Task
  <2>3. Begin(task)
    BY <1>5, <2>1
  <2>4. QED BY <1>5, <2>2, <2>3, BeginKeeps
<1>6. QED BY <1>3, <1>4, <1>5 DEF StartDelete

LEMMA DeleteRowsKeeps ==
    ASSUME Inv, DeleteRows
    PROVE  Inv'
<1>1. /\ desk.op = "delete" /\ desk \in Task /\ desk' = [desk EXCEPT !.locked = TRUE]
      /\ \A row \in logs : agents[row.agent].user = desk.user => row.user = desk.user
      /\ UNCHANGED <<rowVars, thread, turn, lives, writer, erased, held, tasks, changes>>
  BY DEF DeleteRows, DeskOnly, Inv, TypeOK
<1>2. /\ desk' \in Task /\ desk'.op = desk.op /\ desk'.user = desk.user /\ desk'.purge = desk.purge
      /\ desk'.since = desk.since /\ desk'.todo = desk.todo
  BY <1>1 DEF Task
<1>3. /\ users' = users /\ agents' = agents /\ logs' = logs /\ turn' = turn /\ writer' = writer
  BY <1>1 DEF rowVars
<1>4. DeskKnows'
  BY <1>1, <1>2, <1>3 DEF Inv, DeskKnows
<1>5. NoHistory'
  BY <1>1, <1>2, <1>3 DEF Inv, NoHistory, Alive, Living
<1>6. QED BY <1>1, <1>2, <1>4, <1>5, DeskKeeps DEF Inv, TypeOK

LEMMA StopKeeps ==
    ASSUME Inv, CommitReset \/ Abandon
    PROVE  Inv'
<1>1. desk' = NoTask /\ UNCHANGED <<rowVars, thread, turn, lives, writer, erased, held, tasks, changes>>
  BY DEF CommitReset, Abandon, DeskOnly
<1>2. desk' \in Task /\ desk'.op = "idle" /\ ~desk'.locked /\ desk'.todo = {}
  BY <1>1 DEF NoTask, Task
<1>3. DeskKnows' /\ NoHistory'
  BY <1>1, <1>2 DEF DeskKnows, NoHistory
<1>4. QED BY <1>1, <1>2, <1>3, DeskKeeps DEF Inv, TypeOK

\* What is erased was said in one thread only, so a turn that brings it back read it there.
LEMMA EraseKeeps ==
    ASSUME Inv, Erase
    PROVE  Inv'
<1>1. PICK t \in desk.todo :
        /\ thread' = [thread EXCEPT ![t] = <<>>]
        /\ desk' = [desk EXCEPT !.todo = @ \ {t}]
        /\ erased' = erased \cup Known(t)
        /\ held' = held \cup (Known(t) \cap Read(t))
  BY DEF Erase
<1>2. /\ users' = users /\ owner' = owner /\ chosen' = chosen /\ agents' = agents /\ logs' = logs
      /\ turn' = turn /\ lives' = lives /\ writer' = writer /\ tasks' = tasks /\ changes' = changes
  BY DEF Erase, DeskOnly, rowVars
<1>3. t \in Threads /\ desk \in Task /\ thread \in [Threads -> Seq(Message)]
  BY DEF Inv, TypeOK, Task
<1>4. /\ desk' \in Task /\ desk'.op = desk.op /\ desk'.user = desk.user /\ desk'.purge = desk.purge
      /\ desk'.since = desk.since /\ desk'.todo \subseteq desk.todo /\ desk'.locked = desk.locked
  BY <1>1, <1>3 DEF Task
<1>5. /\ thread' \in [Threads -> Seq(Message)] /\ MessagesOf(thread'[t]) = {}
      /\ \A other \in Threads : MessagesOf(thread'[other]) \subseteq MessagesOf(thread[other])
  <2>1. thread'[t] = <<>> /\ \A other \in Threads : other # t => thread'[other] = thread[other]
    BY <1>1, <1>3
  <2>2. QED BY <1>1, <1>3, <2>1 DEF MessagesOf
<1>6. \A other \in Threads, n \in Nat : Says(other, n)' => Says(other, n)
  BY <1>2, <1>5 DEF Says, TurnSays, Thread
<1>7. ASSUME NEW n \in Known(t)
      PROVE  n \in Nat /\ Says(t, n) /\ n \in 1..Len(writer) /\ n \notin Asking(t)
  <2>1. n \in MessagesOf(thread[t]) /\ n \notin Asking(t)
    BY DEF Known
  <2>2. PICK i \in DOMAIN thread[t] : n = thread[t][i].n
    BY <2>1 DEF MessagesOf
  <2>3. thread[t][i] \in Message
    BY <1>3, <2>2
  <2>4. n \in Nat
    BY <2>2, <2>3 DEF Message
  <2>5. Says(t, n)
    BY <2>1 DEF Says
  <2>6. QED BY <1>3, <2>1, <2>4, <2>5 DEF Inv, AllBelong
<1>8. ASSUME NEW k \in Keys, turn[k] # NoTurn PROVE turn[k].n \notin Known(t)
  <2>1. SUFFICES ASSUME turn[k].n \in Known(t) PROVE FALSE
    OBVIOUS
  <2>2. Thread(k) \in Threads /\ Says(Thread(k), turn[k].n) /\ turn[k].n \in Nat
    BY <1>8, TurnIs
  <2>3. Thread(k) = t
    BY <1>3, <1>7, <2>1, <2>2 DEF Inv, OneHome
  <2>4. turn[k].n \in Asking(t)
    BY <1>8, <2>3 DEF Asking
  <2>5. QED BY <1>7, <2>1, <2>4
<1>9. ASSUME NEW other \in Threads, NEW n \in Known(t), Says(other, n)' PROVE n \in Read(t)
  <2>1. other = t
    BY <1>3, <1>6, <1>7, <1>9 DEF Inv, OneHome
  <2>2. PICK k \in Keys : Thread(k) = t /\ TurnSays(k, n)
    BY <1>2, <1>5, <1>9, <2>1 DEF Says, TurnSays, Thread
  <2>3. n # turn[k].n /\ turn[k] # NoTurn
    BY <1>8, <2>2 DEF TurnSays
  <2>4. QED BY <2>2, <2>3 DEF TurnSays, Read
<1>10. Forgotten'
  <2>1. \A other \in Threads, n \in Nat : Says(other, n)' /\ n \in erased' => n \in held'
    BY <1>1, <1>6, <1>9 DEF Inv, Forgotten
  <2>2. \A k \in Keys : turn[k] # NoTurn => turn[k].n \notin erased'
    BY <1>1, <1>8 DEF Inv, Forgotten
  <2>3. \A n \in erased' : n <= Len(writer)
    BY <1>1, <1>7 DEF Inv, Forgotten
  <2>4. QED BY <1>2, <2>1, <2>2, <2>3 DEF Forgotten
<1>11. TypeOK'
  <2>1. erased' \subseteq Nat /\ held' \subseteq erased'
    BY <1>1, <1>7 DEF Inv, TypeOK
  <2>2. QED BY <1>2, <1>4, <1>5, <2>1 DEF Inv, TypeOK
<1>12. AllBelong' /\ OneHome'
  <2>1. Persist
    BY <1>2, SamePeoplePersist DEF Inv
  <2>2. QED BY <1>6, <2>1, SilenceKeeps DEF NothingNew
<1>13. \A n : Alive(n)' = Alive(n)
  BY <1>2 DEF Alive, Living
<1>14. TurnsKnow' /\ TrailKnows' /\ OneLifeEach'
  <2>1. TurnsKnow'
    BY <1>2, <1>13 DEF Inv, TurnsKnow, Inbound
  <2>2. QED BY <1>2, <1>13, <2>1 DEF Inv, TrailKnows, OneLifeEach
<1>15. DeskKnows'
  <2>1. desk.op # "idle"
    BY DEF Erase, Inv, DeskKnows
  <2>2. QED BY <1>2, <1>4, <2>1 DEF Inv, DeskKnows
<1>16. NoHistory'
  BY <1>2, <1>4, <1>13 DEF Inv, NoHistory
<1>17. QED BY <1>10, <1>11, <1>12, <1>14, <1>15, <1>16 DEF Inv

LEMMA CommitDeleteKeeps ==
    ASSUME Inv, CommitDelete
    PROVE  Inv'
<1>1. PICK u : u = desk.user
  OBVIOUS
<1>2. /\ desk.locked /\ users' = Without(users, {u})
      /\ owner' = [k \in Keys |-> IF owner[k] = u THEN 0 ELSE owner[k]]
      /\ chosen' = [k \in Keys |-> IF owner[k] = u THEN 0 ELSE chosen[k]]
      /\ agents' = Without(agents, {a \in DOMAIN agents : agents[a].user = u})
      /\ logs' = {row \in logs : row.user # u} /\ desk' = NoTask
      /\ thread' = thread /\ turn' = turn /\ lives' = lives /\ writer' = writer
      /\ erased' = erased /\ held' = held /\ tasks' = tasks /\ changes' = changes
  BY <1>1 DEF CommitDelete, historyVars
<1>3. /\ DOMAIN users' = DOMAIN users \ {u} /\ \A v \in DOMAIN users' : users'[v] = users[v]
      /\ DOMAIN agents' = {a \in DOMAIN agents : agents[a].user # u}
      /\ \A a \in DOMAIN agents' : agents'[a] = agents[a]
  BY <1>2 DEF Without
<1>4. \A row \in logs : agents[row.agent].user = u => row.user = u
  BY <1>1, <1>2 DEF Inv, DeskKnows
<1>5. \A n : Alive(n)' => Alive(n)
  BY <1>2, <1>3 DEF Alive, Living
<1>6. Persist
  <2>1. \A v \in DOMAIN users : users[v] \in Living' => v \in DOMAIN users' /\ users'[v] = users[v]
    BY <1>3 DEF Inv, OneLifeEach, Living
  <2>2. \A a \in DOMAIN agents : agents[a].user \in DOMAIN users
    BY DEF Inv, TypeOK
  <2>3. \A a \in DOMAIN agents : users[agents[a].user] \in Living' =>
          a \in DOMAIN agents' /\ agents'[a].user = agents[a].user
    BY <1>3, <2>1, <2>2
  <2>4. Len(writer) <= Len(writer')
    BY <1>2 DEF Inv, TypeOK
  <2>5. QED BY <1>2, <1>5, <2>1, <2>3, <2>4 DEF Persist
<1>7. \A t \in Threads, n \in Nat : Says(t, n)' = Says(t, n)
  BY <1>2 DEF Says, TurnSays, Thread
<1>8. AllBelong' /\ OneHome'
  BY <1>6, <1>7, SilenceKeeps DEF NothingNew
<1>9. Forgotten'
  BY <1>2, <1>7 DEF Inv, Forgotten
<1>10. OneLifeEach'
  BY <1>3 DEF Inv, OneLifeEach
<1>11. TypeOK'
  <2>1. NoTask \in Task
    BY DEF NoTask, Task
  <2>2. DOMAIN users' \subseteq UserIds /\ \A v \in DOMAIN users' : users'[v] \in 1..lives'
    BY <1>2, <1>3 DEF Inv, TypeOK
  <2>3. /\ owner' \in [Keys -> UserIds \cup {0}]
        /\ \A k \in Keys : owner'[k] # 0 => owner'[k] \in DOMAIN users'
    BY <1>2, <1>3 DEF Inv, TypeOK
  <2>4. chosen' \in [Keys -> AgentIds \cup {0}]
    BY <1>2 DEF Inv, TypeOK
  <2>5. ASSUME NEW k \in Keys, chosen'[k] # 0
        PROVE  chosen'[k] \in DOMAIN agents' /\ agents'[chosen'[k]].user = owner'[k]
    <3>1. owner[k] # u /\ chosen'[k] = chosen[k] /\ owner'[k] = owner[k]
      BY <1>2, <2>5
    <3>2. chosen[k] \in DOMAIN agents /\ agents[chosen[k]].user = owner[k]
      BY <2>5, <3>1 DEF Inv, TypeOK
    <3>3. QED BY <1>3, <3>1, <3>2
  <2>6. DOMAIN agents' \subseteq AgentIds
    BY <1>3 DEF Inv, TypeOK
  <2>7. \A a \in DOMAIN agents' : agents'[a] \in [user : DOMAIN users', default : BOOLEAN]
    <3>1. \A a \in DOMAIN agents : agents[a] \in [user : DOMAIN users, default : BOOLEAN]
      BY DEF Inv, TypeOK
    <3>2. QED BY <1>3, <3>1
  <2>8. \A row \in logs' : row \in [n : Nat \ {0}, user : DOMAIN users', agent : DOMAIN agents',
                                    dir : {"in", "out"}]
    <3>1. \A row \in logs : row \in [n : Nat \ {0}, user : DOMAIN users, agent : DOMAIN agents,
                                     dir : {"in", "out"}]
      BY DEF Inv, TypeOK
    <3>2. QED BY <1>2, <1>3, <1>4, <3>1
  <2>9. QED BY <1>2, <2>1, <2>2, <2>3, <2>4, <2>5, <2>6, <2>7, <2>8 DEF Inv, TypeOK
<1>12. TurnsKnow'
  <2>1. ASSUME NEW k \in Keys, turn[k] # NoTurn, NEW n, n = turn[k].n, Alive(n)'
        PROVE  /\ turn[k].user \in DOMAIN users' /\ users'[turn[k].user] = writer[n]
               /\ Inbound(k) \in logs'
    <3>1. /\ turn[k].user \in DOMAIN users /\ users[turn[k].user] = writer[n]
          /\ Inbound(k) \in logs
      BY <1>5, <2>1 DEF Inv, TurnsKnow
    <3>2. users[turn[k].user] \in Living'
      BY <1>2, <2>1, <3>1 DEF Alive
    <3>3. turn[k].user \in DOMAIN users' /\ users'[turn[k].user] = writer[n]
      BY <1>6, <3>1, <3>2 DEF Persist
    <3>4. Inbound(k).user = turn[k].user
      BY DEF Inbound
    <3>5. QED BY <1>2, <1>3, <3>1, <3>3, <3>4
  <2>2. QED BY <1>2, <2>1 DEF Inv, TurnsKnow, Inbound
<1>13. TrailKnows'
  <2>1. ASSUME NEW row \in logs', Alive(row.n)' PROVE users'[row.user] = writer[row.n]
    <3>1. row \in logs /\ row.user # u /\ row.user \in DOMAIN users
      BY <1>2, <2>1 DEF Inv, TypeOK
    <3>2. QED BY <1>3, <1>5, <2>1, <3>1 DEF Inv, TrailKnows
  <2>2. QED BY <1>2, <2>1 DEF Inv, TrailKnows
<1>14. DeskKnows' /\ NoHistory'
  BY <1>2 DEF DeskKnows, NoHistory, NoTask
<1>15. QED BY <1>8, <1>9, <1>10, <1>11, <1>12, <1>13, <1>14 DEF Inv

----------------------------------------------------------------------------
\* The theorems.

LEMMA InvKept ==
    ASSUME Inv, [Next]_vars
    PROVE  Inv'
<1>1. CASE UNCHANGED vars
  BY <1>1 DEF vars, rowVars, historyVars, Inv, TypeOK, OneLifeEach, AllBelong, OneHome, Forgotten,
              TurnsKnow, TrailKnows, DeskKnows, NoHistory, Says, TurnSays, Thread, Belongs, Alive,
              Living, Inbound
<1>2. ASSUME NEW k \in Keys, TurnStep(k) PROVE Inv'
  BY <1>2, WriteKeeps, GoingOnKeeps, RecordKeeps, ConstantsAssumption DEF TurnStep, GoesOn
<1>3. CASE Crash
  BY <1>3, CrashKeeps
<1>4. CASE Desk
  <2>1. ASSUME NEW u \in DOMAIN users, StartReset(u) \/ StartDelete(u) \/ NewAgent(u) PROVE Inv'
    BY <2>1, StartKeeps, NewAgentKeeps, ConstantsAssumption
  <2>2. ASSUME NEW k \in Keys, Link(k) \/ Unlink(k) \/ Choose(k) PROVE Inv'
    BY <2>2, LinkKeeps, UnlinkKeeps, ChooseKeeps, ConstantsAssumption
  <2>3. CASE DeleteRows \/ Erase \/ CommitReset \/ CommitDelete \/ Abandon
    BY <2>3, DeleteRowsKeeps, EraseKeeps, StopKeeps, CommitDeleteKeeps
  <2>4. QED BY <1>4, <2>1, <2>2, <2>3 DEF Desk
<1>5. QED BY <1>1, <1>2, <1>3, <1>4 DEF Next

\* What is known of conversations, turns, trail and desk at every moment: whatever a thread
\* or a turn says was written by whoever has the agent, or by somebody deleted since.
THEOREM InvHolds == Spec => []Inv
<1>1. Init => Inv
  BY InvInit
<1>2. Inv /\ [Next]_vars => Inv'
  BY InvKept
<1>3. QED BY <1>1, <1>2, PTL DEF Spec

\* Rows, threads, turns and tasks have the form the code gives them: a row of the trail
\* names a user and an agent that are there, a chosen agent is one of the user's.
THEOREM TypeCorrect == Spec => []TypeOK
<1>1. Inv => TypeOK
  BY DEF Inv
<1>2. QED BY <1>1, InvHolds, PTL

\* Two users who are there never share a conversation, nor does the trail of one hold what
\* another wrote, although SQLite gives ids again and a turn may outlive its user.
THEOREM UsersStayApart == Spec => []LivingAreSeparate
<1>1. ASSUME Inv PROVE LivingAreSeparate
  <2>1. ASSUME NEW t \in Threads, NEW i \in DOMAIN thread[t], Alive(thread[t][i].n)
        PROVE  users[agents[t[2]].user] = writer[thread[t][i].n]
    <3>1. thread[t] \in Seq(Message) /\ thread[t][i] \in Message
      BY <1>1 DEF Inv, TypeOK
    <3>2. thread[t][i].n \in Nat /\ Says(t, thread[t][i].n)
      BY <3>1 DEF Message, Says, MessagesOf
    <3>3. QED BY <1>1, <2>1, <3>2 DEF Inv, AllBelong, Belongs
  <2>2. \A row \in logs : Alive(row.n) => users[row.user] = writer[row.n]
    BY <1>1 DEF Inv, TrailKnows
  <2>3. QED BY <2>1, <2>2 DEF LivingAreSeparate, Alive
<1>2. QED BY <1>1, InvHolds, PTL

\* What a reset or a deletion erased comes back with a turn that had read it before
\* (ainvoke reads the thread once, and writes it back whole), and with nothing else.
THEOREM ErasedComesBackByTurns == Spec => []OnlyTurnsBringBack
<1>1. ASSUME Inv PROVE OnlyTurnsBringBack
  <2>1. SUFFICES ASSUME NEW t \in Threads, NEW n \in MessagesOf(thread[t]), n \in erased
                 PROVE  n \in held
    BY DEF OnlyTurnsBringBack
  <2>2. n \in Nat /\ Says(t, n)
    BY <1>1, <2>1 DEF Inv, TypeOK, Says
  <2>3. QED BY <1>1, <2>1, <2>2 DEF Inv, Forgotten
<1>2. QED BY <1>1, InvHolds, PTL

\* Erasing the threads of one user (delete_threads) spares those of every other who is
\* there, whatever changed since the threads were listed.
THEOREM ErasingSparesOthers == Spec => OthersAreSpared
<1> DEFINE Spared == \A t \in Threads :
                        thread[t] # <<>> /\ thread'[t] = <<>> =>
                            \A i \in DOMAIN thread[t] :
                                writer[thread[t][i].n] \in Living
                                    => writer[thread[t][i].n] = users[desk.user]
<1>1. ASSUME Inv, [Next]_vars PROVE Spared
  <2>1. ASSUME NEW t \in Threads, thread[t] # <<>>, thread'[t] = <<>>,
               NEW i \in DOMAIN thread[t], writer[thread[t][i].n] \in Living
        PROVE  writer[thread[t][i].n] = users[desk.user]
    <3>1. thread \in [Threads -> Seq(Message)] /\ thread[t] \in Seq(Message) /\ thread[t][i] \in Message
      BY <1>1 DEF Inv, TypeOK
    <3>2. thread[t][i].n \in Nat /\ Says(t, thread[t][i].n) /\ Alive(thread[t][i].n)
      BY <2>1, <3>1 DEF Message, Says, MessagesOf, Alive
    <3>3. ~\E k \in Keys : GoesOn(k)
      BY <1>1, <2>1, GoingOnMoves
    <3>4. thread' = thread \/ Erase
      BY <1>1, <3>3 DEF Next, TurnStep, Desk, GoesOn, Write, Record, Crash, StartReset, StartDelete,
                        Begin, NewAgent, Link, Unlink, Choose, Change, DeleteRows, CommitReset,
                        CommitDelete, Abandon, vars
    <3>5. PICK s \in desk.todo : thread' = [thread EXCEPT ![s] = <<>>]
      BY <2>1, <3>4 DEF Erase
    <3>6. s = t
      BY <2>1, <3>1, <3>5
    <3>7. agents[t[2]].user = desk.user
      BY <1>1, <3>5, <3>6 DEF Inv, DeskKnows
    <3>8. QED BY <1>1, <3>2, <3>7 DEF Inv, AllBelong, Belongs
  <2>2. QED BY <2>1
<1>2. QED BY <1>1, InvHolds, PTL DEF Spec, OthersAreSpared

\* A user with a history is deleted by a purge only: otherwise nothing that was in the
\* trail when delete_user looked is lost, and later messages are refused or kept.
THEOREM PurgeOrKeep == Spec => HistoryNeedsPurge
<1> DEFINE Kept == \A row \in logs :
                      writer[row.n] \in Living => row \in logs' \/ desk.purge \/ row.n > desk.since
<1>1. ASSUME Inv, [Next]_vars PROVE Kept
  <2>1. ASSUME NEW row \in logs, Alive(row.n), row \notin logs', ~desk.purge
        PROVE  row.n > desk.since
    <3>1. logs \subseteq logs' \/ CommitDelete
      BY <1>1 DEF Next, TurnStep, Desk, Load, Ask, Reply, TurnFails, TurnOnly, Write, Record, Crash,
                  StartReset, StartDelete, Begin, NewAgent, Link, Unlink, Choose, Change, DeleteRows,
                  Erase, CommitReset, Abandon, DeskOnly, vars, rowVars
    <3>2. desk.op = "delete" /\ row.user = desk.user
      BY <1>1, <2>1, <3>1 DEF CommitDelete, Inv, DeskKnows
    <3>3. QED BY <1>1, <2>1, <3>2 DEF Inv, NoHistory
  <2>2. QED BY <2>1 DEF Alive
<1>2. QED BY <1>1, InvHolds, PTL DEF Spec, HistoryNeedsPurge
=============================================================================
