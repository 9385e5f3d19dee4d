------------------------ MODULE EmailDelivery_proofs ------------------------
(***************************************************************************)
(* What holds of the email channel for every mailbox, every number of      *)
(* attempts and every number of faults: the types, where a mail ends, what *)
(* a repeated copy has cost, which answer a sender gets, when a question   *)
(* is stored again, and when the model is asked again.                     *)
(***************************************************************************)
EXTENDS EmailDelivery, Integers, FiniteSetTheorems, TLAPS

-----------------------------------------------------------------------------
(* Steps and their parts *)

LEMMA SpendEffect ==
  ASSUME left \in [Faults -> Nat], NEW f \in Faults, Spend(f)
  PROVE  /\ left' \in [Faults -> Nat]
         /\ Spent(f)' = Spent(f) + 1
         /\ \A h \in Faults : h # f => Spent(h)' = Spent(h)
<1>1. Budget[f] \in Nat
  BY ConstantsAssumption
<1>2. left' = [left EXCEPT ![f] = left[f] - 1] /\ left[f] > 0
  BY DEF Spend
<1> QED BY <1>1, <1>2 DEF Spent

\* Every way dispatch_event can end leaves the counters and the next step well formed.
LEMMA ConcludeEffect ==
  ASSUME TypeOK, cur \in Mails, NEW outcome, Conclude(outcome)
  PROVE  /\ attempts' \in [Mails -> Nat]
         /\ pc' \in {"batch", "file"}
         /\ target' \in {"agent", "failed"}
<1>1. CASE Unsuccessful(outcome) /\ ~GivesUp(outcome) /\ attempts' = [attempts EXCEPT ![cur] = @ + 1]
            /\ pc' = "batch" /\ UNCHANGED target
  BY <1>1 DEF TypeOK
<1>2. CASE attempts' = [attempts EXCEPT ![cur] = 0] /\ pc' = "file"
            /\ target' = IF Unsuccessful(outcome) THEN "failed" ELSE "agent"
  BY <1>2 DEF TypeOK
<1> QED BY <1>1, <1>2 DEF Conclude

LEMMA AppendedEntry ==
  ASSUME log \in Seq(LogEntry), NEW e \in LogEntry
  PROVE  /\ Append(log, e) \in Seq(LogEntry)
         /\ Len(Append(log, e)) = Len(log) + 1
         /\ DOMAIN log \subseteq DOMAIN Append(log, e)
         /\ Len(log) + 1 \in DOMAIN Append(log, e)
OBVIOUS

LEMMA EntryTypes ==
  ASSUME TypeOK, NEW m \in Mails, NEW g \in Agents
  PROVE  /\ User(m) \in Users /\ Text[m] \in Texts /\ Key(m, g) \in Addresses \X Agents
         /\ \A s \in {"ok", "failed", "denied"} : Inbound(User(m), g, m, Text[m], s) \in LogEntry
         /\ \A s \in {"ok", "failed", "denied"}, b \in BOOLEAN :
               Outbound(User(m), g, m, Text[m], b, s) \in LogEntry
BY ConstantsAssumption DEF User, Key, Inbound, Outbound, LogEntry

LEMMA StatusEffect ==
  ASSUME log \in Seq(LogEntry), NEW i \in DOMAIN log, NEW s \in {"ok", "failed", "denied"}
  PROVE  StatusSet(i, s) \in Seq(LogEntry) /\ DOMAIN StatusSet(i, s) = DOMAIN log
<1> DEFINE e == log[i]
           new == Outbound(e.user, e.agent, e.mail, e.text, e.answer, s)
<1>1. e \in LogEntry
  OBVIOUS
<1>2. new \in LogEntry
  BY <1>1 DEF LogEntry, Outbound
<1> HIDE DEF new
<1>3. [log EXCEPT ![i] = new] \in Seq(LogEntry) /\ DOMAIN [log EXCEPT ![i] = new] = DOMAIN log
  BY <1>2
<1>4. StatusSet(i, s) = [log EXCEPT ![i] = new]
  BY DEF StatusSet, new
<1> QED BY <1>3, <1>4

-----------------------------------------------------------------------------
(* Type correctness *)

LEMMA InitType == Init => TypeOK
<1> SUFFICES ASSUME Init PROVE TypeOK
  OBVIOUS
<1> USE DEF Init, FreshProcess
<1>1. log \in Seq(LogEntry) /\ thread \in [Addresses \X Agents -> Seq(Message)]
  OBVIOUS
<1>2. left \in [Faults -> Nat] /\ selected \in [Addresses -> Agents] /\ agent \in Agents
  BY ConstantsAssumption
<1>3. access \in [Addresses -> {"unknown", "inactive", "known", "allowed"}]
  OBVIOUS
<1> QED BY <1>1, <1>2, <1>3 DEF TypeOK, PCs

LEMMA EnvironmentType == TypeOK /\ Environment => TypeOK'
<1> SUFFICES ASSUME TypeOK, Environment PROVE TypeOK'
  OBVIOUS
<1> USE DEF TypeOK, mailboxVars, adminVars, storeVars, memoryVars, worldVars
<1>1. ASSUME NEW m \in Mails, Arrive(m) PROVE TypeOK'
  BY <1>1 DEF Arrive
<1>2. ASSUME NEW m \in Mails, HumanReads(m) PROVE TypeOK'
  BY <1>2, SpendEffect DEF HumanReads, Faults
<1>3. ASSUME NEW a \in Addresses, Grant(a) PROVE TypeOK'
  BY <1>3, SpendEffect DEF Grant, Faults
<1>4. ASSUME NEW a \in Addresses, Deny(a) PROVE TypeOK'
  BY <1>4, SpendEffect DEF Deny, Faults
<1>5. ASSUME NEW a \in Addresses, Withdraw(a) PROVE TypeOK'
  <2>1. left' \in [Faults -> Nat]
    BY <1>5, SpendEffect DEF Withdraw, Faults
  <2>2. access' \in [Addresses -> {"unknown", "inactive", "known", "allowed"}]
    BY <1>5 DEF Withdraw
  <2> QED BY <1>5, <2>1, <2>2 DEF Withdraw
<1>8. ASSUME NEW a \in Addresses, Reactivate(a) PROVE TypeOK'
  BY <1>8, SpendEffect DEF Reactivate, Faults
<1>6. ASSUME NEW a \in Addresses, NEW g \in Agents, SelectAgent(a, g) PROVE TypeOK'
  BY <1>6, SpendEffect DEF SelectAgent, Faults
<1>7. ASSUME NEW u \in Users, NEW g \in Agents, ToggleAgent(u, g) PROVE TypeOK'
  <2>1. disabled' \subseteq Users \X Agents
    BY <1>7 DEF ToggleAgent
  <2>2. left' \in [Faults -> Nat]
    BY <1>7, SpendEffect DEF ToggleAgent, Faults
  <2> QED BY <1>7, <2>1, <2>2 DEF ToggleAgent
<1> QED BY <1>1, <1>2, <1>3, <1>4, <1>5, <1>6, <1>7, <1>8 DEF Environment

LEMMA PollType ==
  ASSUME TypeOK, StartPoll \/ FetchNext \/ EndFetch \/ PollFails \/ NextMail \/ EndPoll \/ File
  PROVE  TypeOK'
<1> USE DEF TypeOK, PCs, mailboxVars, adminVars, storeVars, worldVars
<1>1. CASE StartPoll
  BY <1>1 DEF StartPoll
<1>2. CASE FetchNext
  <2>1. PICK m \in Mails :
           /\ Least(found, m)
           /\ found' = found \ {m}
           /\ batch' \subseteq batch \cup {m}
           /\ \/ MarkSeenAndFile(m, "agent") /\ UNCHANGED left
              \/ MarkSeenOnly(m)
              \/ FlagRefused(m, "agent")
              \/ UNCHANGED mailboxVars /\ (Spend("imap") \/ UNCHANGED left)
    BY <1>2 DEF FetchNext
  <2>2. /\ place' \in [Mails -> {"away", "inbox", "agent", "failed"}]
        /\ seen' \subseteq Mails
        /\ left' \in [Faults -> Nat]
    BY <2>1, SpendEffect DEF MarkSeenAndFile, MarkSeenOnly, FlagRefused, Faults
  <2> QED BY <1>2, <2>1, <2>2 DEF FetchNext
<1>3. CASE EndFetch
  BY <1>3 DEF EndFetch
<1>4. CASE PollFails
  BY <1>4, SpendEffect DEF PollFails, Faults
<1>5. CASE NextMail
  BY <1>5 DEF NextMail, Least
<1>6. CASE EndPoll
  BY <1>6 DEF EndPoll
<1>7. CASE File
  <2>1. /\ place' \in [Mails -> {"away", "inbox", "agent", "failed"}]
        /\ seen' \subseteq Mails
        /\ left' \in [Faults -> Nat]
    <3>1. /\ place' \in [Mails -> {"away", "inbox", "agent", "failed"}]
          /\ seen' \subseteq Mails
      BY <1>7 DEF File, MarkSeenAndFile, MarkSeenOnly, FlagRefused
    <3>2. UNCHANGED left \/ Spend("imap")
      BY <1>7 DEF File, MarkSeenAndFile, MarkSeenOnly, FlagRefused
    <3> QED BY <3>1, <3>2, SpendEffect DEF Faults
  <2> QED BY <1>7, <2>1 DEF File
<1> QED BY <1>1, <1>2, <1>3, <1>4, <1>5, <1>6, <1>7

LEMMA DeliveredType ==
  ASSUME TypeOK, NEW m \in Mails, NEW i \in DOMAIN log, Delivered(m, i) \/ UNCHANGED worldVars
  PROVE  received' \subseteq Mails \X DOMAIN log /\ copies' \in [Mails -> Nat] /\ UNCHANGED turns
<1>1. received \subseteq Mails \X DOMAIN log /\ copies \in [Mails -> Nat]
  BY DEF TypeOK
<1>2. CASE Delivered(m, i)
  <2>1. received' = received \cup {<<m, i>>} /\ copies' = [copies EXCEPT ![m] = copies[m] + 1]
        /\ UNCHANGED turns
    BY <1>2 DEF Delivered
  <2> QED BY <1>1, <2>1
<1>3. CASE UNCHANGED worldVars
  BY <1>1, <1>3 DEF worldVars
<1> QED BY <1>2, <1>3

LEMMA PipelineType == ASSUME TypeOK, Pipeline PROVE TypeOK'
<1> USE DEF PCs, mailboxVars, adminVars, storeVars, worldVars
<1>a. ASSUME pc \notin {"idle", "fetch", "batch"}
      PROVE  cur \in Mails /\ Sender[cur] \in Addresses
  BY <1>a, ConstantsAssumption DEF TypeOK
<1>b. selected \in [Addresses -> Agents] /\ Default \in Agents /\ agent \in Agents
      /\ log \in Seq(LogEntry) /\ left \in [Faults -> Nat]
  BY ConstantsAssumption DEF TypeOK
<1>1. CASE AdmitDenied
  <2>1. log' \in Seq(LogEntry) /\ DOMAIN log \subseteq DOMAIN log'
    BY <1>1, <1>a, <1>b, EntryTypes, AppendedEntry DEF AdmitDenied
  <2>2. request' \in [Addresses -> {"none", "pending", "approved", "denied"}]
    BY <1>1 DEF AdmitDenied, Ensured, TypeOK
  <2>3. left' \in [Faults -> Nat]
    BY <1>1, <1>b, SpendEffect DEF AdmitDenied, Faults
  <2>4. cur \in Mails /\ \E o : Conclude(o)
    BY <1>1, <1>a DEF AdmitDenied
  <2>5. attempts' \in [Mails -> Nat] /\ pc' \in {"batch", "file"} /\ target' \in {"agent", "failed"}
    BY <2>4, ConcludeEffect
  <2> QED BY <1>1, <2>1, <2>2, <2>3, <2>4, <2>5 DEF AdmitDenied, TypeOK
<1>2. CASE AdmitDisabled
  <2>1. log' \in Seq(LogEntry) /\ DOMAIN log \subseteq DOMAIN log'
    BY <1>2, <1>a, <1>b, EntryTypes, AppendedEntry DEF AdmitDisabled
  <2>2. cur \in Mails /\ Conclude("denied")
    BY <1>2, <1>a DEF AdmitDisabled
  <2>3. attempts' \in [Mails -> Nat] /\ pc' \in {"batch", "file"} /\ target' \in {"agent", "failed"}
    BY <2>2, ConcludeEffect
  <2> QED BY <1>2, <2>1, <2>2, <2>3 DEF AdmitDisabled, TypeOK
<1>3. CASE AdmitAllowed
  <2>1. log' \in Seq(LogEntry) /\ DOMAIN log \subseteq DOMAIN log'
    BY <1>3, <1>a, <1>b, EntryTypes, AppendedEntry DEF AdmitAllowed, InboundRecorded
  <2>2. cur \in Mails /\ agent' \in Agents
    BY <1>3, <1>a, <1>b DEF AdmitAllowed
  <2> QED BY <1>3, <2>1, <2>2 DEF AdmitAllowed, TypeOK
<1>4. CASE AdmitFails
  <2>1. left' \in [Faults -> Nat]
    BY <1>4, <1>b, SpendEffect DEF AdmitFails, Faults
  <2>2. cur \in Mails /\ Conclude("failed")
    BY <1>4, <1>a DEF AdmitFails
  <2>3. attempts' \in [Mails -> Nat] /\ pc' \in {"batch", "file"} /\ target' \in {"agent", "failed"}
    BY <2>2, ConcludeEffect
  <2> QED BY <1>4, <2>1, <2>2, <2>3 DEF AdmitFails, TypeOK
<1>5. CASE LookUp
  <2>1. pc' = "resend" => entry' \in DOMAIN log
    BY <1>5 DEF LookUp, UndeliveredAnswer
  <2> QED BY <1>5, <2>1 DEF LookUp, TypeOK
<1>6. CASE StartTurn
  <2>1. cur \in Mails
    BY <1>6, <1>a DEF StartTurn
  <2>2. Human(cur) \in Message /\ Key(cur, agent) \in Addresses \X Agents
    BY <2>1, <1>b, EntryTypes DEF Human, Message
  <2>3. thread' \in [Addresses \X Agents -> Seq(Message)]
    <3>1. thread \in [Addresses \X Agents -> Seq(Message)]
      BY DEF TypeOK
    <3>2. thread[Key(cur, agent)] \in Seq(Message)
      BY <3>1, <2>2
    <3>3. Append(thread[Key(cur, agent)], Human(cur)) \in Seq(Message)
      BY <3>2, <2>2
    <3> QED BY <1>6, <3>1, <3>2, <3>3 DEF StartTurn
  <2> QED BY <1>6, <2>1, <2>3 DEF StartTurn, TypeOK
<1>7. CASE ModelAnswers
  <2>1. cur \in Mails
    BY <1>7, <1>a DEF ModelAnswers
  <2>2. Reply(cur) \in Message /\ Key(cur, agent) \in Addresses \X Agents
    BY <2>1, <1>b, EntryTypes DEF Reply, Message
  <2>3. thread' \in [Addresses \X Agents -> Seq(Message)]
    <3>1. thread \in [Addresses \X Agents -> Seq(Message)]
      BY DEF TypeOK
    <3>2. Append(thread[Key(cur, agent)], Reply(cur)) \in Seq(Message)
      BY <3>1, <2>2
    <3> QED BY <1>7, <3>1, <3>2 DEF ModelAnswers
  <2>4. turns' \in [Mails -> Nat]
    BY <1>7, <2>1 DEF ModelAnswers, TypeOK
  <2> QED BY <1>7, <2>1, <2>3, <2>4 DEF ModelAnswers, TypeOK
<1>8. CASE TurnFails
  <2>1. left' \in [Faults -> Nat]
    BY <1>8, <1>b, SpendEffect DEF TurnFails, Faults
  <2>2. cur \in Mails
    BY <1>8, <1>a DEF TurnFails
  <2> QED BY <1>8, <2>1, <2>2 DEF TurnFails, TypeOK
<1>9. CASE RecordNote
  <2>1. cur \in Mails /\ Conclude("failed")
    BY <1>9, <1>a DEF RecordNote
  <2>2. log' \in Seq(LogEntry) /\ DOMAIN log \subseteq DOMAIN log'
    BY <1>9, <1>b, <2>1, EntryTypes, AppendedEntry DEF RecordNote
  <2>3. left' \in [Faults -> Nat]
    BY <1>9, <1>b, SpendEffect DEF RecordNote, Faults
  <2>4. attempts' \in [Mails -> Nat] /\ pc' \in {"batch", "file"} /\ target' \in {"agent", "failed"}
    BY <2>1, ConcludeEffect
  <2> QED BY <1>9, <2>1, <2>2, <2>3, <2>4 DEF RecordNote, TypeOK
<1>10. CASE RecordAnswer
  <2>1. cur \in Mails
    BY <1>10, <1>a DEF RecordAnswer
  <2>2. CASE log' = Append(log, Outbound(User(cur), agent, cur, Text[cur], TRUE, "ok"))
             /\ entry' = Len(log) + 1 /\ pc' = "reply" /\ UNCHANGED <<left, attempts, target>>
    <3>1. log' \in Seq(LogEntry) /\ DOMAIN log \subseteq DOMAIN log' /\ entry' \in DOMAIN log'
      BY <2>1, <2>2, <1>b, EntryTypes, AppendedEntry
    <3> QED BY <1>10, <2>1, <2>2, <3>1 DEF RecordAnswer, TypeOK
  <2>3. CASE Spend("db") /\ Conclude("failed") /\ UNCHANGED <<log, entry>>
    <3>1. left' \in [Faults -> Nat]
      BY <2>3, <1>b, SpendEffect DEF Faults
    <3>2. attempts' \in [Mails -> Nat] /\ pc' \in {"batch", "file"} /\ target' \in {"agent", "failed"}
      BY <2>1, <2>3, ConcludeEffect
    <3> QED BY <1>10, <2>1, <2>3, <3>1, <3>2 DEF RecordAnswer, TypeOK
  <2> QED BY <1>10, <2>2, <2>3 DEF RecordAnswer
<1>11. CASE SendReply
  <2>1. cur \in Mails /\ entry \in DOMAIN log
    BY <1>11, <1>a DEF SendReply, TypeOK
  <2>2. received' \subseteq Mails \X DOMAIN log /\ copies' \in [Mails -> Nat] /\ UNCHANGED turns
    <3>1. Delivered(cur, entry) \/ UNCHANGED worldVars
      BY <1>11 DEF SendReply, worldVars
    <3> QED BY <2>1, <3>1, DeliveredType
  <2>3. left' \in [Faults -> Nat]
    BY <1>11, <1>b, SpendEffect DEF SendReply, Faults
  <2>4. /\ attempts' \in [Mails -> Nat] /\ target' \in {"agent", "failed"}
        /\ pc' \in {"batch", "file", "markfailed"}
    <3>1. CASE Conclude("ok")
      BY <2>1, <3>1, ConcludeEffect
    <3>2. CASE pc' = "markfailed" /\ UNCHANGED <<attempts, target>>
      BY <3>2 DEF TypeOK
    <3> QED BY <1>11, <3>1, <3>2 DEF SendReply
  <2> QED BY <1>11, <2>1, <2>2, <2>3, <2>4 DEF SendReply, TypeOK
<1>12. CASE MarkFailed
  <2>1. cur \in Mails /\ entry \in DOMAIN log /\ \E o : Conclude(o)
    BY <1>12, <1>a DEF MarkFailed, TypeOK
  <2>2. log' \in Seq(LogEntry) /\ DOMAIN log' = DOMAIN log
    BY <1>12, <2>1, <1>b, StatusEffect DEF MarkFailed, MarkedFailed
  <2>3. left' \in [Faults -> Nat]
    BY <1>12, <1>b, SpendEffect DEF MarkFailed, Faults
  <2>4. attempts' \in [Mails -> Nat] /\ pc' \in {"batch", "file"} /\ target' \in {"agent", "failed"}
    BY <2>1, ConcludeEffect
  <2> QED BY <1>12, <2>1, <2>2, <2>3, <2>4 DEF MarkFailed, TypeOK
<1>13. CASE Resend
  <2>1. cur \in Mails /\ entry \in DOMAIN log
    BY <1>13, <1>a DEF Resend, TypeOK
  <2>2. received' \subseteq Mails \X DOMAIN log /\ copies' \in [Mails -> Nat] /\ UNCHANGED turns
    <3>1. Delivered(cur, entry) \/ UNCHANGED worldVars
      BY <1>13 DEF Resend, worldVars
    <3> QED BY <2>1, <3>1, DeliveredType
  <2>3. left' \in [Faults -> Nat]
    BY <1>13, <1>b, SpendEffect DEF Resend, Faults
  <2>4. /\ attempts' \in [Mails -> Nat] /\ target' \in {"agent", "failed"}
        /\ pc' \in {"batch", "file", "markok"}
    <3>1. CASE Conclude("undelivered")
      BY <2>1, <3>1, ConcludeEffect
    <3>2. CASE pc' = "markok" /\ UNCHANGED <<left, attempts, target>>
      BY <3>2 DEF TypeOK
    <3> QED BY <1>13, <3>1, <3>2 DEF Resend
  <2> QED BY <1>13, <2>1, <2>2, <2>3, <2>4 DEF Resend, TypeOK
<1>14. CASE MarkOk
  <2>1. cur \in Mails /\ entry \in DOMAIN log /\ \E o : Conclude(o)
    BY <1>14, <1>a DEF MarkOk, TypeOK
  <2>2. log' \in Seq(LogEntry) /\ DOMAIN log' = DOMAIN log
    BY <1>14, <2>1, <1>b, StatusEffect DEF MarkOk
  <2>3. left' \in [Faults -> Nat]
    BY <1>14, <1>b, SpendEffect DEF MarkOk, Faults
  <2>4. attempts' \in [Mails -> Nat] /\ pc' \in {"batch", "file"} /\ target' \in {"agent", "failed"}
    BY <2>1, ConcludeEffect
  <2> QED BY <1>14, <2>1, <2>2, <2>3, <2>4 DEF MarkOk, TypeOK
<1> QED
  BY <1>1, <1>2, <1>3, <1>4, <1>5, <1>6, <1>7, <1>8, <1>9, <1>10, <1>11, <1>12, <1>13, <1>14
  DEF Pipeline

LEMMA CrashType == ASSUME TypeOK, Crash PROVE TypeOK'
<1>1. left' \in [Faults -> Nat]
  BY SpendEffect DEF Crash, TypeOK, Faults
<1>2. agent' \in Agents
  BY ConstantsAssumption DEF Crash
<1> QED BY <1>1, <1>2 DEF Crash, TypeOK, PCs, mailboxVars, adminVars, storeVars, worldVars

LEMMA TypeStep == ASSUME TypeOK, [Next]_vars PROVE TypeOK'
<1>1. CASE Adapter
  BY <1>1, PollType, PipelineType DEF Adapter
<1>2. CASE Environment
  BY <1>2, EnvironmentType
<1>3. CASE Crash
  BY <1>3, CrashType
<1>4. CASE UNCHANGED vars
  BY <1>4 DEF TypeOK, vars, mailboxVars, adminVars, storeVars, memoryVars, worldVars
<1> QED BY <1>1, <1>2, <1>3, <1>4 DEF Next

\* Every reachable state is well typed; in particular the entry a reply or a
\* status update is about exists, and deliveries name entries of the log.
THEOREM TypeCorrect == Spec => []TypeOK
<1> QED BY InitType, TypeStep, PTL DEF Spec

-----------------------------------------------------------------------------
(* Giving up. The counters of the process never exceed the failures there have *)
(* been, and a message at the point of failing has one failure more than its   *)
(* counter says: both are needed, since the counter is raised a step later.    *)

Failures == Spent("model") + Spent("smtp") + Spent("lost") + Spent("db")

CountsFailures ==
    /\ \A m \in Mails : attempts[m] <= Failures
    /\ pc \in {"note", "markfailed"} => attempts[cur] + 1 <= Failures
    /\ pc = "file" /\ target = "failed" => MaxAttempts <= Failures
    /\ \A m \in Mails : place[m] = "failed" => MaxAttempts <= Failures

LEMMA CountersAreNumbers ==
  ASSUME TypeOK
  PROVE  /\ MaxAttempts \in Nat /\ Failures \in Int
         /\ \A f \in Faults : Spent(f) \in Int
<1>1. left \in [Faults -> Nat] /\ Budget \in [Faults -> Nat] /\ MaxAttempts \in Nat
  BY ConstantsAssumption DEF TypeOK
<1>2. \A f \in Faults : Spent(f) \in Int
  BY <1>1 DEF Spent
<1> QED BY <1>1, <1>2 DEF Failures, Faults

LEMMA FailureCounted ==
  ASSUME TypeOK, NEW f \in {"model", "smtp", "lost", "db"}, Spend(f)
  PROVE  Failures' = Failures + 1
<1>1. left \in [Faults -> Nat] /\ f \in Faults
  BY DEF TypeOK, Faults
<1>2. Spent(f)' = Spent(f) + 1 /\ \A h \in Faults : h # f => Spent(h)' = Spent(h)
  BY <1>1, SpendEffect
<1>3. \A h \in {"model", "smtp", "lost", "db"} : Spent(h) \in Int /\ (h # f => Spent(h)' = Spent(h))
  BY <1>2, CountersAreNumbers DEF Faults
<1> QED BY <1>2, <1>3 DEF Failures

LEMMA NoFailureCounted ==
  ASSUME TypeOK, UNCHANGED left \/ \E f \in {"crash", "imap", "admin", "human"} : Spend(f)
  PROVE  Failures' = Failures
<1>1. CASE UNCHANGED left
  BY <1>1 DEF Failures, Spent
<1>2. ASSUME NEW f \in {"crash", "imap", "admin", "human"}, Spend(f) PROVE Failures' = Failures
  BY <1>2, SpendEffect DEF TypeOK, Failures, Faults
<1> QED BY <1>1, <1>2

\* A message that ends well, or whose failure has been counted, is concluded soundly.
LEMMA ConcludeCounts ==
  ASSUME TypeOK, CountsFailures, cur \in Mails, NEW outcome, Conclude(outcome),
         Failures' \in Int, Failures <= Failures', UNCHANGED place,
         Unsuccessful(outcome) => attempts[cur] + 1 <= Failures'
  PROVE  CountsFailures'
<1> USE CountersAreNumbers DEF CountsFailures
<1>1. \A m \in Mails : attempts'[m] <= Failures'
  <2>1. attempts \in [Mails -> Nat]
    BY DEF TypeOK
  <2>2. \A m \in Mails : attempts[m] <= Failures'
    BY <2>1
  <2>3. 0 <= Failures'
    BY <2>1, <2>2
  <2> QED BY <2>1, <2>2, <2>3 DEF Conclude
<1>2. pc' = "file" /\ target' = "failed" => MaxAttempts <= Failures'
  BY DEF Conclude, GivesUp, TypeOK
<1>3. pc' \in {"batch", "file"}
  BY DEF Conclude
<1>4. ASSUME NEW m \in Mails, place[m] = "failed" PROVE MaxAttempts <= Failures'
  <2>1. MaxAttempts \in Nat /\ Failures \in Int /\ MaxAttempts <= Failures
    BY <1>4
  <2> QED BY <2>1
<1> QED BY <1>1, <1>2, <1>3, <1>4

LEMMA InitFailures == Init => CountsFailures
<1> SUFFICES ASSUME Init PROVE CountsFailures
  OBVIOUS
<1>1. Failures = 0
  BY ConstantsAssumption DEF Init, Failures, Spent, Faults
<1> QED BY <1>1 DEF Init, FreshProcess, CountsFailures

LEMMA StepFailures == ASSUME TypeOK, CountsFailures, [Next]_vars PROVE CountsFailures'
<1> USE CountersAreNumbers
<1>t. TypeOK'
  BY TypeStep
<1>n. Failures' \in Int
  <2>1. \A f \in Faults : left'[f] \in Nat /\ Budget[f] \in Nat
    BY <1>t, ConstantsAssumption DEF TypeOK
  <2> QED BY <2>1 DEF Failures, Spent, Faults
<1>c. pc \notin {"idle", "fetch", "batch"} => cur \in Mails /\ attempts[cur] \in Nat
  BY DEF TypeOK
<1> USE DEF mailboxVars, adminVars, storeVars, memoryVars, worldVars
<1>1. CASE Environment
  <2>1. Failures' = Failures
    <3>1. UNCHANGED left \/ \E f \in {"crash", "imap", "admin", "human"} : Spend(f)
      BY <1>1 DEF Environment, Arrive, HumanReads, Grant, Deny, Withdraw, Reactivate, SelectAgent, ToggleAgent
    <3> QED BY <3>1, NoFailureCounted
  <2>2. UNCHANGED memoryVars
    BY <1>1 DEF Environment, Arrive, HumanReads, Grant, Deny, Withdraw, Reactivate, SelectAgent, ToggleAgent
  <2>3. \A m \in Mails : place'[m] = "failed" => place[m] = "failed"
    BY <1>1 DEF Environment, Arrive, HumanReads, Grant, Deny, Withdraw, Reactivate, SelectAgent, ToggleAgent,
                TypeOK
  <2> QED BY <2>1, <2>2, <2>3 DEF CountsFailures
<1>2. CASE StartPoll \/ EndFetch \/ PollFails \/ NextMail \/ EndPoll
  <2>1. Failures' = Failures
    <3>1. UNCHANGED left \/ \E f \in {"crash", "imap", "admin", "human"} : Spend(f)
      BY <1>2 DEF StartPoll, EndFetch, PollFails, NextMail, EndPoll
    <3> QED BY <3>1, NoFailureCounted
  <2>2. UNCHANGED <<attempts, place>> /\ pc' \in {"idle", "fetch", "batch", "admit"}
    BY <1>2 DEF StartPoll, EndFetch, PollFails, NextMail, EndPoll
  <2> QED BY <2>1, <2>2 DEF CountsFailures
<1>3. CASE FetchNext \/ File
  <2>1. Failures' = Failures
    <3>1. UNCHANGED left \/ \E f \in {"crash", "imap", "admin", "human"} : Spend(f)
      BY <1>3 DEF FetchNext, File, MarkSeenOnly, FlagRefused
    <3> QED BY <3>1, NoFailureCounted
  <2>2. UNCHANGED attempts /\ pc' \in {"fetch", "batch"}
    BY <1>3 DEF FetchNext, File
  <2>3. \A m \in Mails : place'[m] = "failed" =>
           place[m] = "failed" \/ (pc = "file" /\ target = "failed")
    BY <1>3 DEF FetchNext, File, MarkSeenAndFile, MarkSeenOnly, FlagRefused, TypeOK
  <2> QED BY <2>1, <2>2, <2>3 DEF CountsFailures
<1>4. CASE AdmitDenied \/ AdmitDisabled \/ AdmitFails
  <2>1. CASE Conclude("denied") /\ UNCHANGED left
    BY <1>4, <2>1, <1>c, <1>n, NoFailureCounted, ConcludeCounts
    DEF AdmitDenied, AdmitDisabled, AdmitFails, Unsuccessful
  <2>2. CASE Conclude("failed") /\ Spend("db")
    <3>1. Failures' = Failures + 1 /\ attempts[cur] <= Failures
      BY <1>4, <2>2, <1>c, FailureCounted DEF AdmitDenied, AdmitDisabled, AdmitFails, CountsFailures
    <3> QED BY <1>4, <2>2, <3>1, <1>c, <1>n, ConcludeCounts DEF AdmitDenied, AdmitDisabled, AdmitFails
  <2> QED BY <1>4, <2>1, <2>2 DEF AdmitDenied, AdmitDisabled, AdmitFails
<1>5. CASE AdmitAllowed \/ LookUp \/ StartTurn \/ ModelAnswers
  <2>1. Failures' = Failures
    BY <1>5, NoFailureCounted DEF AdmitAllowed, LookUp, StartTurn, ModelAnswers
  <2>2. UNCHANGED <<attempts, place>>
        /\ pc' \in {"lookup", "start", "resend", "model", "record"}
    BY <1>5 DEF AdmitAllowed, LookUp, StartTurn, ModelAnswers
  <2> QED BY <2>1, <2>2 DEF CountsFailures
<1>6. CASE TurnFails
  <2>1. Failures' = Failures + 1 /\ attempts[cur] <= Failures
    BY <1>6, <1>c, FailureCounted DEF TurnFails, CountsFailures
  <2>2. /\ \A m \in Mails : attempts[m] \in Nat
        /\ UNCHANGED <<attempts, cur, place>> /\ pc' = "note" /\ cur \in Mails
    BY <1>6, <1>c DEF TurnFails, TypeOK
  <2>3. Failures \in Int /\ MaxAttempts \in Int /\ Failures' \in Int
    BY <1>n
  <2>4. \A m \in Mails : attempts[m] <= Failures'
    BY <2>1, <2>2, <2>3 DEF CountsFailures
  <2> QED BY <2>1, <2>2, <2>3, <2>4 DEF CountsFailures
<1>7. CASE RecordNote \/ MarkFailed
  <2>1. Failures <= Failures' /\ attempts[cur] + 1 <= Failures
    <3>1. UNCHANGED left \/ Spend("db")
      BY <1>7 DEF RecordNote, MarkFailed
    <3>2. Failures' = Failures \/ Failures' = Failures + 1
      BY <3>1, FailureCounted, NoFailureCounted
    <3>3. attempts[cur] + 1 <= Failures
      BY <1>7 DEF RecordNote, MarkFailed, CountsFailures
    <3> QED BY <3>2, <3>3, <1>n
  <2>2. attempts[cur] + 1 <= Failures'
    <3>1. attempts[cur] \in Nat
      BY <1>7, <1>c DEF RecordNote, MarkFailed
    <3> QED BY <2>1, <3>1, <1>n
  <2> QED BY <1>7, <2>1, <2>2, <1>c, <1>n, ConcludeCounts DEF RecordNote, MarkFailed
<1>8. CASE RecordAnswer
  <2>1. CASE pc' = "reply" /\ UNCHANGED <<left, attempts, target>>
    BY <1>8, <2>1, NoFailureCounted DEF RecordAnswer, CountsFailures
  <2>2. CASE Spend("db") /\ Conclude("failed")
    <3>1. Failures' = Failures + 1 /\ attempts[cur] <= Failures
      BY <1>8, <2>2, <1>c, FailureCounted DEF RecordAnswer, CountsFailures
    <3> QED BY <1>8, <2>2, <3>1, <1>c, <1>n, ConcludeCounts DEF RecordAnswer
  <2> QED BY <1>8, <2>1, <2>2 DEF RecordAnswer
<1>9. CASE SendReply
  <2>1. CASE Conclude("ok") /\ UNCHANGED left
    BY <1>9, <2>1, <1>c, <1>n, NoFailureCounted, ConcludeCounts DEF SendReply, Unsuccessful
  <2>2. CASE (Spend("smtp") \/ Spend("lost")) /\ pc' = "markfailed" /\ UNCHANGED <<attempts, target>>
    <3>1. Failures' = Failures + 1 /\ attempts[cur] <= Failures /\ UNCHANGED <<cur, place>>
      BY <1>9, <2>2, <1>c, FailureCounted DEF SendReply, CountsFailures
    <3>2. \A m \in Mails : attempts[m] \in Nat
      BY DEF TypeOK
    <3>3. \A m \in Mails : attempts[m] <= Failures'
      BY <3>1, <3>2, <1>n DEF CountsFailures
    <3>4. attempts[cur] + 1 <= Failures'
      BY <1>9, <3>1, <1>c, <1>n DEF SendReply
    <3>5. attempts' = attempts /\ cur' = cur /\ place' = place /\ pc' = "markfailed"
      BY <2>2, <3>1
    <3>6. \A m \in Mails : place[m] = "failed" => MaxAttempts <= Failures'
      BY <3>1, <1>n DEF CountsFailures
    <3> QED BY <3>3, <3>4, <3>5, <3>6 DEF CountsFailures
  <2> QED BY <1>9, <2>1, <2>2 DEF SendReply
<1>10. CASE Resend
  <2>1. CASE pc' = "markok" /\ UNCHANGED <<left, attempts, target>>
    BY <1>10, <2>1, NoFailureCounted DEF Resend, CountsFailures
  <2>2. CASE (Spend("smtp") \/ Spend("lost")) /\ Conclude("undelivered")
    <3>1. Failures' = Failures + 1 /\ attempts[cur] <= Failures
      BY <1>10, <2>2, <1>c, FailureCounted DEF Resend, CountsFailures
    <3> QED BY <1>10, <2>2, <3>1, <1>c, <1>n, ConcludeCounts DEF Resend
  <2> QED BY <1>10, <2>1, <2>2 DEF Resend
<1>11. CASE MarkOk
  <2>1. CASE Conclude("ok") /\ UNCHANGED left
    BY <1>11, <2>1, <1>c, <1>n, NoFailureCounted, ConcludeCounts DEF MarkOk, Unsuccessful
  <2>2. CASE Spend("db") /\ Conclude("failed")
    <3>1. Failures' = Failures + 1 /\ attempts[cur] <= Failures
      BY <1>11, <2>2, <1>c, FailureCounted DEF MarkOk, CountsFailures
    <3> QED BY <1>11, <2>2, <3>1, <1>c, <1>n, ConcludeCounts DEF MarkOk
  <2> QED BY <1>11, <2>1, <2>2 DEF MarkOk
<1>12. CASE Crash
  <2>1. Failures' = Failures
    BY <1>12, NoFailureCounted DEF Crash
  <2>2. \A m \in Mails : attempts[m] \in Nat
    BY DEF TypeOK
  <2> QED BY <1>12, <2>1, <2>2, <1>n DEF Crash, CountsFailures
<1>13. CASE UNCHANGED vars
  BY <1>13, NoFailureCounted DEF vars, CountsFailures
<1> QED
  BY <1>1, <1>2, <1>3, <1>4, <1>5, <1>6, <1>7, <1>8, <1>9, <1>10, <1>11, <1>12, <1>13
  DEF Next, Adapter, Pipeline

-----------------------------------------------------------------------------
(* Repetitions. An answer may still be sent for a mail only while it is "open"; *)
(* each of its copies so far then has a cause of its own.                       *)

Paid == Spent("crash") + Spent("imap") + Spent("lost") + Spent("db")

Answering == {"admit", "lookup", "start", "model", "note", "record", "reply",
              "markfailed", "resend"}
Closing   == {"file", "markok"}

Open(m) ==
    \/ place[m] \in {"away", "inbox"} /\ m \notin seen /\ ~(cur = m /\ pc \in Closing)
    \/ m \in found \cup batch
    \/ cur = m /\ pc \in Answering

CountsCopies ==
    /\ pc # "fetch" => found = {}
    /\ pc \in Answering \cup Closing => cur \notin batch
    /\ \A m \in Mails : copies[m] <= Paid + 1
    /\ \A m \in Mails : Open(m) => copies[m] <= Paid

LEMMA PaidIsANumber == ASSUME TypeOK PROVE Paid \in Int
BY CountersAreNumbers DEF Paid, Faults

LEMMA PaidCounted ==
  ASSUME TypeOK, NEW f \in {"crash", "imap", "lost", "db"}, Spend(f)
  PROVE  Paid' = Paid + 1
<1>1. left \in [Faults -> Nat] /\ f \in Faults
  BY DEF TypeOK, Faults
<1>2. Spent(f)' = Spent(f) + 1 /\ \A h \in Faults : h # f => Spent(h)' = Spent(h)
  BY <1>1, SpendEffect
<1>3. \A h \in {"crash", "imap", "lost", "db"} : Spent(h) \in Int /\ (h # f => Spent(h)' = Spent(h))
  BY <1>2, CountersAreNumbers DEF Faults
<1> QED BY <1>2, <1>3 DEF Paid

LEMMA NothingPaid ==
  ASSUME TypeOK, UNCHANGED left \/ \E f \in {"model", "smtp", "admin", "human"} : Spend(f)
  PROVE  Paid' = Paid
<1>1. CASE UNCHANGED left
  BY <1>1 DEF Paid, Spent
<1>2. ASSUME NEW f \in {"model", "smtp", "admin", "human"}, Spend(f) PROVE Paid' = Paid
  BY <1>2, SpendEffect DEF TypeOK, Paid, Faults
<1> QED BY <1>1, <1>2

\* The message at hand is neither waiting in the batch nor among the search results.
HandledApart ==
    /\ pc # "fetch" => found = {}
    /\ pc \in Answering \cup Closing => cur \notin batch

\* A step that sends nothing opens a mail again only at a price.
LEMMA NothingSent ==
  ASSUME TypeOK, CountsCopies, UNCHANGED copies, HandledApart',
         \/ Paid' = Paid + 1
         \/ Paid' = Paid /\ \A m \in Mails : Open(m)' => Open(m)
  PROVE  CountsCopies'
<1>1. Paid \in Int /\ copies \in [Mails -> Nat]
  BY PaidIsANumber DEF TypeOK
<1>2. \A m \in Mails : copies[m] <= Paid + 1 /\ (Open(m) => copies[m] <= Paid)
  BY DEF CountsCopies
<1>3. \A m \in Mails : copies'[m] <= Paid' + 1 /\ (Open(m)' => copies'[m] <= Paid')
  BY <1>1, <1>2
<1> QED BY <1>3 DEF CountsCopies, HandledApart

\* An answer is sent while its mail is open; afterwards the mail is closed, or the
\* delivery has been paid for.
LEMMA OneSent ==
  ASSUME TypeOK, CountsCopies, HandledApart', cur \in Mails, UNCHANGED cur, Open(cur),
         copies' = [copies EXCEPT ![cur] = @ + 1],
         \A m \in Mails : m # cur /\ Open(m)' => Open(m),
         \/ Paid' = Paid + 1
         \/ Paid' = Paid /\ ~Open(cur)'
  PROVE  CountsCopies'
<1>1. Paid \in Int /\ copies \in [Mails -> Nat]
  BY PaidIsANumber DEF TypeOK
<1>2. \A m \in Mails : copies[m] <= Paid + 1 /\ (Open(m) => copies[m] <= Paid)
  BY DEF CountsCopies
<1>3. copies'[cur] <= Paid' + 1 /\ (Open(cur)' => copies'[cur] <= Paid')
  <2>1. copies'[cur] = copies[cur] + 1 /\ copies[cur] <= Paid /\ copies[cur] \in Nat
    BY <1>1, <1>2
  <2> QED BY <1>1, <2>1
<1>4. \A m \in Mails : m # cur => copies'[m] <= Paid' + 1 /\ (Open(m)' => copies'[m] <= Paid')
  BY <1>1, <1>2
<1>5. \A m \in Mails : copies'[m] <= Paid' + 1 /\ (Open(m)' => copies'[m] <= Paid')
  BY <1>3, <1>4
<1> QED BY <1>5 DEF CountsCopies, HandledApart

LEMMA InitCopies == Init => CountsCopies
<1> SUFFICES ASSUME Init PROVE CountsCopies
  OBVIOUS
<1>1. Paid = 0
  BY ConstantsAssumption DEF Init, Paid, Spent, Faults
<1> QED BY <1>1 DEF Init, FreshProcess, CountsCopies, Answering, Closing

\* Wherever the pipeline ends, only the message at hand can change: it is closed when
\* it goes to a folder, and it was open before if it did not come from a delivery.
LEMMA ConcludedApart ==
  ASSUME CountsCopies, pc \in Answering \cup Closing, UNCHANGED <<found, batch, cur>>,
         pc' \in (Answering \cup Closing \cup {"batch"}) \ {"fetch"}
  PROVE  HandledApart'
BY DEF CountsCopies, HandledApart, Answering, Closing

LEMMA StepCopies == ASSUME TypeOK, CountsCopies, [Next]_vars PROVE CountsCopies'
<1> USE DEF mailboxVars, adminVars, storeVars, memoryVars, worldVars
<1>1. CASE Environment
  <2>1. UNCHANGED <<copies, pc, found, batch, cur>>
    BY <1>1 DEF Environment, Arrive, HumanReads, Grant, Deny, Withdraw, Reactivate, SelectAgent, ToggleAgent
  <2>2. \E f \in {"model", "smtp", "admin", "human"} : UNCHANGED left \/ Spend(f)
    BY <1>1 DEF Environment, Arrive, HumanReads, Grant, Deny, Withdraw, Reactivate, SelectAgent, ToggleAgent
  <2>3. \A m \in Mails : Open(m)' => Open(m)
    <3>1. seen \subseteq seen'
      BY <1>1 DEF Environment, Arrive, HumanReads, Grant, Deny, Withdraw, Reactivate, SelectAgent, ToggleAgent
    <3>2. \A m \in Mails : place'[m] \in {"away", "inbox"} => place[m] \in {"away", "inbox"}
      BY <1>1 DEF Environment, Arrive, HumanReads, Grant, Deny, Withdraw, Reactivate, SelectAgent, ToggleAgent, TypeOK
    <3> QED BY <2>1, <3>1, <3>2 DEF Open
  <2>4. HandledApart'
    BY <2>1 DEF CountsCopies, HandledApart
  <2> QED BY <2>1, <2>2, <2>3, <2>4, NothingPaid, NothingSent
<1>2. CASE StartPoll
  <2>1. found' \subseteq {m \in Mails : place[m] = "inbox" /\ m \notin seen}
    BY <1>2 DEF StartPoll
  <2>2. \A m \in Mails : Open(m)' => Open(m)
    BY <1>2, <2>1 DEF StartPoll, Open, Answering, Closing
  <2> QED BY <1>2, <2>2, NothingPaid, NothingSent DEF StartPoll, HandledApart, Answering, Closing
<1>3. CASE FetchNext
  <2>1. PICK m \in Mails :
           /\ Least(found, m)
           /\ found' = found \ {m}
           /\ batch' \subseteq batch \cup {m}
           /\ \/ MarkSeenAndFile(m, "agent") /\ UNCHANGED left
              \/ MarkSeenOnly(m)
              \/ FlagRefused(m, "agent")
              \/ UNCHANGED mailboxVars /\ (Spend("imap") \/ UNCHANGED left)
    BY <1>3 DEF FetchNext
  <2>2. pc = "fetch" /\ pc' = "fetch" /\ UNCHANGED <<copies, cur>> /\ m \in found
    BY <1>3, <2>1 DEF FetchNext, Least
  <2>3. \A k \in Mails :
           /\ k \notin seen' => k \notin seen
           /\ place'[k] \in {"away", "inbox"} => place[k] \in {"away", "inbox"}
    BY <2>1 DEF MarkSeenAndFile, MarkSeenOnly, FlagRefused, TypeOK
  <2>4. \A k \in Mails : Open(k)' => Open(k)
    <3>1. \A k \in Mails : k \in found' \cup batch' => k \in found \cup batch
      BY <2>1, <2>2
    <3>2. pc \notin Answering \cup Closing /\ pc' \notin Answering \cup Closing
      BY <2>2 DEF Answering, Closing
    <3> SUFFICES ASSUME NEW k \in Mails, Open(k)' PROVE Open(k)
      OBVIOUS
    <3>3. CASE k \in found' \cup batch'
      BY <3>1, <3>3 DEF Open
    <3>4. CASE place'[k] \in {"away", "inbox"} /\ k \notin seen'
      BY <2>3, <3>2, <3>4 DEF Open
    <3> QED BY <3>2, <3>3, <3>4 DEF Open
  <2>5. Paid' = Paid \/ Paid' = Paid + 1
    BY <2>1, NothingPaid, PaidCounted DEF MarkSeenOnly, FlagRefused
  <2> QED BY <2>2, <2>4, <2>5, NothingSent DEF HandledApart, Answering, Closing
<1>4. CASE EndFetch \/ EndPoll
  BY <1>4, NothingPaid, NothingSent
  DEF EndFetch, EndPoll, Open, CountsCopies, HandledApart, Answering, Closing
<1>5. CASE PollFails
  BY <1>5, PaidCounted, NothingSent DEF PollFails, HandledApart, Answering, Closing
<1>6. CASE NextMail
  <2>1. PICK m \in Mails : Least(batch, m) /\ cur' = m /\ batch' = batch \ {m}
    BY <1>6 DEF NextMail
  <2>2. pc = "batch" /\ pc' = "admit" /\ UNCHANGED <<place, seen, copies, found, left>>
    BY <1>6 DEF NextMail
  <2>3. \A k \in Mails : Open(k)' => Open(k)
    BY <2>1, <2>2 DEF Open, Least, Answering, Closing
  <2> QED BY <2>1, <2>2, <2>3, NothingPaid, NothingSent
          DEF CountsCopies, HandledApart, Answering, Closing
<1>7. CASE File
  <2>1. CASE MarkSeenAndFile(cur, target) /\ UNCHANGED left
    <3>1. \A k \in Mails : Open(k)' => Open(k)
      <4>1. /\ pc = "file" /\ pc' = "batch" /\ UNCHANGED <<cur, found, batch>>
            /\ seen' = seen \cup {cur} /\ target \in {"agent", "failed"}
        BY <1>7, <2>1 DEF File, MarkSeenAndFile, TypeOK
      <4>2. \A k \in Mails : place'[k] \in {"away", "inbox"} => place[k] \in {"away", "inbox"}
        BY <2>1, <4>1 DEF MarkSeenAndFile, TypeOK
      <4> QED BY <4>1, <4>2 DEF Open, Answering, Closing
    <3> QED BY <1>7, <2>1, <3>1, NothingPaid, NothingSent
            DEF File, CountsCopies, HandledApart, Answering, Closing
  <2>2. CASE Spend("imap")
    BY <1>7, <2>2, PaidCounted, NothingSent DEF File, CountsCopies, HandledApart, Answering, Closing
  <2> QED BY <1>7, <2>1, <2>2 DEF File, MarkSeenOnly, FlagRefused
<1>8. CASE Pipeline /\ UNCHANGED copies /\ ~MarkOk
  <2>1. /\ pc \in Answering /\ UNCHANGED <<place, seen, found, batch, cur>>
        /\ pc' \in {"lookup", "start", "resend", "model", "note", "record", "reply",
                   "markfailed", "batch", "file"}
    <3>1. \A o : Conclude(o) => pc' \in {"batch", "file"}
      BY DEF Conclude
    <3>2. CASE AdmitDenied \/ AdmitDisabled \/ AdmitAllowed \/ AdmitFails
      BY <3>1, <3>2 DEF AdmitDenied, AdmitDisabled, AdmitAllowed, AdmitFails, Answering
    <3>3. CASE LookUp \/ StartTurn \/ ModelAnswers \/ TurnFails
      BY <3>3 DEF LookUp, StartTurn, ModelAnswers, TurnFails, Answering
    <3>4. CASE RecordNote \/ RecordAnswer \/ MarkFailed
      BY <3>1, <3>4 DEF RecordNote, RecordAnswer, MarkFailed, Answering
    <3>5. CASE SendReply \/ Resend
      <4>1. ~(pc' = "markok")
        <5>1. cur \in Mails /\ copies \in [Mails -> Nat]
          BY <3>5 DEF SendReply, Resend, TypeOK
        <5>2. copies' # [copies EXCEPT ![cur] = @ + 1]
          BY <1>8, <5>1
        <5>3. \A o : Conclude(o) => pc' # "markok"
          BY <3>1
        <5> QED BY <3>5, <5>2, <5>3 DEF SendReply, Resend, Delivered
      <4> QED BY <3>1, <3>5, <4>1 DEF SendReply, Resend, Answering
    <3> QED BY <1>8, <3>2, <3>3, <3>4, <3>5 DEF Pipeline
  <2>2. Paid' = Paid \/ Paid' = Paid + 1
    <3>1. \/ UNCHANGED left
          \/ \E f \in {"model", "smtp"} : Spend(f)
          \/ \E f \in {"lost", "db"} : Spend(f)
      BY <1>8 DEF Pipeline, AdmitDenied, AdmitDisabled, AdmitAllowed, AdmitFails, LookUp, StartTurn,
         ModelAnswers, TurnFails, RecordNote, RecordAnswer, SendReply, MarkFailed, Resend
    <3> QED BY <3>1, NothingPaid, PaidCounted
  <2>3. \A m \in Mails : Open(m)' => Open(m)
    BY <2>1 DEF Open, Answering, Closing
  <2>4. HandledApart'
    BY <2>1, ConcludedApart DEF Answering, Closing
  <2> QED BY <1>8, <2>2, <2>3, <2>4, NothingSent
<1>9. CASE MarkOk
  <2>1. pc = "markok" /\ UNCHANGED <<place, seen, found, batch, cur, copies>> /\ pc' \in {"batch", "file"}
    BY <1>9 DEF MarkOk, Conclude
  <2>2. HandledApart'
    BY <2>1, ConcludedApart DEF Answering, Closing
  <2>3. CASE Conclude("ok") /\ UNCHANGED left
    <3>1. pc' = "file"
      BY <2>3 DEF Conclude, Unsuccessful
    <3>2. \A m \in Mails : Open(m)' => Open(m)
      BY <2>1, <3>1 DEF Open, Answering, Closing
    <3> QED BY <2>1, <2>2, <2>3, <3>2, NothingPaid, NothingSent
  <2>4. CASE Spend("db")
    BY <2>1, <2>2, <2>4, PaidCounted, NothingSent
  <2> QED BY <1>9, <2>3, <2>4 DEF MarkOk
<1>10. CASE (SendReply \/ Resend) /\ Delivered(cur, entry)
  <2>1. /\ pc \in {"reply", "resend"} /\ UNCHANGED <<place, seen, found, batch, cur>>
        /\ pc' \in {"markok", "markfailed", "batch", "file"}
    BY <1>10 DEF SendReply, Resend, Conclude
  <2>2. cur \in Mails /\ cur \notin batch /\ found = {} /\ Open(cur)
    BY <2>1 DEF TypeOK, CountsCopies, Open, Answering, Closing
  <2>3. HandledApart'
    BY <2>1, ConcludedApart DEF Answering, Closing
  <2>4. \A m \in Mails : m # cur /\ Open(m)' => Open(m)
    BY <2>1 DEF Open, Answering, Closing
  <2>5. CASE Spend("lost")
    BY <1>10, <2>1, <2>2, <2>3, <2>4, <2>5, PaidCounted, OneSent DEF Delivered
  <2>6. CASE pc' \in Closing /\ UNCHANGED left
    <3>1. ~Open(cur)'
      BY <2>1, <2>2, <2>6 DEF Open, Answering, Closing
    <3> QED BY <1>10, <2>1, <2>2, <2>3, <2>4, <2>6, <3>1, NothingPaid, OneSent DEF Delivered
  <2>7. \/ Spend("lost") \/ (pc' \in Closing /\ UNCHANGED left) \/ UNCHANGED copies
    BY <1>10 DEF SendReply, Resend, Conclude, Unsuccessful, Closing
  <2>8. ~UNCHANGED copies
    BY <1>10, <2>2 DEF Delivered, TypeOK
  <2> QED BY <2>5, <2>6, <2>7, <2>8
<1>11. CASE Crash
  BY <1>11, PaidCounted, NothingSent DEF Crash, HandledApart, Answering, Closing
<1>12. CASE UNCHANGED vars
  BY <1>12, NothingPaid, NothingSent DEF vars, CountsCopies, HandledApart, Open, Answering, Closing
<1>13. Pipeline => (UNCHANGED copies /\ ~MarkOk) \/ MarkOk \/ ((SendReply \/ Resend) /\ Delivered(cur, entry))
  BY DEF Pipeline, AdmitDenied, AdmitDisabled, AdmitAllowed, AdmitFails, LookUp, StartTurn,
     ModelAnswers, TurnFails, RecordNote, RecordAnswer, SendReply, MarkFailed, Resend
<1> QED
  BY <1>1, <1>2, <1>3, <1>4, <1>5, <1>6, <1>7, <1>8, <1>9, <1>10, <1>11, <1>12, <1>13
  DEF Next, Adapter

\* A sender gets a further copy of an answer only for a crash, a lost IMAP session, a
\* reply accepted in spite of an error, or a failed commit: refused replies, failed
\* turns and admin changes never repeat one (_poll_once, _redeliver, _finalize_message).
THEOREM RepeatsHaveCauses == Spec => []RepeatsAreAccountedFor
<1>1. TypeOK /\ CountsCopies => RepeatsAreAccountedFor
  <2> SUFFICES ASSUME TypeOK, CountsCopies, NEW m \in Mails
               PROVE  copies[m] <= 1 + Spent("crash") + Spent("imap") + Spent("lost") + Spent("db")
    BY DEF RepeatsAreAccountedFor
  <2>1. /\ Spent("crash") \in Int /\ Spent("imap") \in Int /\ Spent("lost") \in Int
        /\ Spent("db") \in Int /\ copies[m] \in Nat
    BY CountersAreNumbers DEF Faults, TypeOK
  <2>2. copies[m] <= Paid + 1
    BY DEF CountsCopies
  <2> QED BY <2>1, <2>2 DEF Paid
<1> QED BY InitCopies, StepCopies, TypeCorrect, <1>1, PTL DEF Spec

-----------------------------------------------------------------------------
(* Which answer is sent. While no commit fails, the entry of a message and the *)
(* entry of its answer, or of its failure, are neighbours; so a retry that     *)
(* finds its own entry, or a later one with its text, finds an answer to that  *)
(* text right after it. A crash can separate them, but a process that starts   *)
(* forgets its retries: those of the new one have their entries after it.      *)

SpentInv == \A f \in Faults : Spent(f) \in Nat

\* The entry i of an incoming text of the sender of m that is the text of m.
Own(i, m) == log[i].dir = "in" /\ log[i].user = User(m) /\ log[i].text = Text[m]

Followed(i) ==
    /\ i + 1 \in DOMAIN log /\ log[i + 1].dir = "out"
    /\ log[i + 1].user = log[i].user /\ log[i + 1].agent = log[i].agent
    /\ log[i + 1].text = log[i].text

\* The message at hand is a new one, and its turn is not recorded yet.
Asking == {"start", "model", "note", "record"}
Pending(i) ==
    /\ i = Len(log) /\ pc \in Asking /\ ~retry
    /\ log[i].user = User(cur) /\ log[i].agent = agent /\ log[i].text = Text[cur]

Settled(i) == log[i].dir = "in" /\ log[i].status # "denied" => Followed(i) \/ Pending(i)

HasOwn(m) == \E i \in DOMAIN log : Own(i, m) /\ \A j \in DOMAIN log : i <= j => Settled(j)

AtStake == {"reply", "markfailed", "resend", "markok"}

TrailInv ==
    /\ pc \in Answering \cup {"markok"} => (retry <=> attempts[cur] > 0)
    /\ pc \in {"lookup", "resend", "markok"} => retry
    /\ pc \in AtStake =>
         log[entry].dir = "out" /\ log[entry].user = User(cur) /\ log[entry].status # "denied"
    /\ \A p \in received : log[p[2]].user = User(p[1])
    /\ Spent("db") = 0 =>
         /\ \A m \in Mails : attempts[m] > 0 => HasOwn(m)
         /\ pc \in {"lookup"} \cup Asking \cup AtStake => HasOwn(cur)
         /\ pc \in {"reply", "markfailed"} => log[entry].text = Text[cur]
         /\ pc \in {"resend", "markok"} /\ Unmixed(User(cur)) => log[entry].text = Text[cur]
         /\ \A p \in received : Unmixed(User(p[1])) => log[p[2]].text = Text[p[1]]

LEMMA InitSpent == Init => SpentInv
BY ConstantsAssumption DEF Init, SpentInv, Spent

LEMMA StepSpent == ASSUME TypeOK, SpentInv, [Next]_vars PROVE SpentInv'
<1>1. UNCHANGED left \/ \E f \in Faults : Spend(f)
  <2>1. Environment => UNCHANGED left \/ Spend("human") \/ Spend("admin")
    BY DEF Environment, Arrive, HumanReads, Grant, Deny, Withdraw, Reactivate, SelectAgent, ToggleAgent
  <2>2. Pipeline => UNCHANGED left \/ Spend("db") \/ Spend("model") \/ Spend("smtp") \/ Spend("lost")
    BY DEF Pipeline, AdmitDenied, AdmitDisabled, AdmitAllowed, AdmitFails, LookUp, StartTurn,
       ModelAnswers, TurnFails, RecordNote, RecordAnswer, SendReply, MarkFailed, Resend, MarkOk
  <2>3. StartPoll \/ FetchNext \/ EndFetch \/ PollFails \/ NextMail \/ EndPoll \/ File
          => UNCHANGED left \/ Spend("imap")
    BY DEF StartPoll, FetchNext, EndFetch, PollFails, NextMail, EndPoll, File, MarkSeenOnly, FlagRefused
  <2>4. Crash => Spend("crash")
    BY DEF Crash
  <2>5. UNCHANGED vars => UNCHANGED left
    BY DEF vars
  <2> QED BY <2>1, <2>2, <2>3, <2>4, <2>5 DEF Next, Adapter, Faults
<1>2. CASE UNCHANGED left
  BY <1>2 DEF SpentInv, Spent
<1>3. ASSUME NEW f \in Faults, Spend(f) PROVE SpentInv'
  <2>1. Spent(f)' = Spent(f) + 1 /\ \A h \in Faults : h # f => Spent(h)' = Spent(h)
    BY <1>3, SpendEffect DEF TypeOK
  <2> QED BY <2>1 DEF SpentInv
<1> QED BY <1>1, <1>2, <1>3

\* While no fault of a sort has happened, none of it has happened before, nor happens now.
LEMMA NoneYet ==
  ASSUME TypeOK, SpentInv, [Next]_vars, NEW f \in Faults, Spent(f)' = 0
  PROVE  Spent(f) = 0 /\ ~Spend(f)
<1>1. ~Spend(f)
  <2> SUFFICES ASSUME Spend(f) PROVE FALSE
    OBVIOUS
  <2>1. Spent(f)' = Spent(f) + 1
    BY SpendEffect DEF TypeOK
  <2> QED BY <2>1 DEF SpentInv
<1>2. UNCHANGED left \/ \E h \in Faults : h # f /\ Spend(h)
  <2>1. Environment => UNCHANGED left \/ Spend("human") \/ Spend("admin")
    BY DEF Environment, Arrive, HumanReads, Grant, Deny, Withdraw, Reactivate, SelectAgent, ToggleAgent
  <2>2. Pipeline => UNCHANGED left \/ Spend("db") \/ Spend("model") \/ Spend("smtp") \/ Spend("lost")
    BY DEF Pipeline, AdmitDenied, AdmitDisabled, AdmitAllowed, AdmitFails, LookUp, StartTurn,
       ModelAnswers, TurnFails, RecordNote, RecordAnswer, SendReply, MarkFailed, Resend, MarkOk
  <2>3. StartPoll \/ FetchNext \/ EndFetch \/ PollFails \/ NextMail \/ EndPoll \/ File
          => UNCHANGED left \/ Spend("imap")
    BY DEF StartPoll, FetchNext, EndFetch, PollFails, NextMail, EndPoll, File, MarkSeenOnly, FlagRefused
  <2>4. Crash => Spend("crash")
    BY DEF Crash
  <2>5. UNCHANGED vars => UNCHANGED left
    BY DEF vars
  <2> QED BY <1>1, <2>1, <2>2, <2>3, <2>4, <2>5 DEF Next, Adapter, Faults
<1>3. Spent(f)' = Spent(f)
  BY <1>2, SpendEffect DEF TypeOK, Spent
<1> QED BY <1>1, <1>3

\* What the log keeps of an entry: all of it, but for the status of an answer.
Same(e, f) ==
    /\ e.dir = f.dir /\ e.user = f.user /\ e.agent = f.agent /\ e.text = f.text
    /\ e.answer = f.answer /\ (e.status = "denied" <=> f.status = "denied")

Grows == DOMAIN log \subseteq DOMAIN log' /\ \A i \in DOMAIN log : Same(log'[i], log[i])

LEMMA AppendGrows ==
  ASSUME TypeOK, NEW e \in LogEntry, log' = Append(log, e)
  PROVE  /\ Grows /\ Len(log) \in Nat /\ Len(log') = Len(log) + 1 /\ log'[Len(log) + 1] = e
         /\ DOMAIN log = 1..Len(log) /\ DOMAIN log' = 1..Len(log) + 1
<1>1. log \in Seq(LogEntry)
  BY DEF TypeOK
<1>2. /\ Len(log) \in Nat /\ Len(log') = Len(log) + 1 /\ log'[Len(log) + 1] = e
      /\ DOMAIN log = 1..Len(log) /\ DOMAIN log' = 1..Len(log) + 1
      /\ \A i \in 1..Len(log) : log'[i] = log[i]
  BY <1>1
<1>3. DOMAIN log \subseteq DOMAIN log' /\ \A i \in DOMAIN log : log'[i] = log[i]
  BY <1>2
<1> QED BY <1>2, <1>3 DEF Grows, Same

LEMMA StatusGrows ==
  ASSUME TypeOK, NEW i \in DOMAIN log, NEW s \in {"ok", "failed"}, log' = StatusSet(i, s),
         log[i].dir = "out", log[i].status # "denied"
  PROVE  /\ Grows /\ DOMAIN log' = DOMAIN log /\ Len(log') = Len(log)
         /\ log'[i].status = s /\ \A j \in DOMAIN log : j # i => log'[j] = log[j]
<1> DEFINE new == Outbound(log[i].user, log[i].agent, log[i].mail, log[i].text, log[i].answer, s)
<1>1. log' = [log EXCEPT ![i] = new]
  BY DEF StatusSet
<1>2. Same(new, log[i]) /\ new.status = s
  BY DEF Same, Outbound
<1> HIDE DEF new
<1>3. log \in Seq(LogEntry)
  BY DEF TypeOK
<1>4. log'[i] = new /\ DOMAIN log' = DOMAIN log /\ \A j \in DOMAIN log : j # i => log'[j] = log[j]
  BY <1>1
<1>5. \A j \in DOMAIN log : Same(log'[j], log[j])
  BY <1>2, <1>4 DEF Same
<1>6. log' \in Seq(LogEntry)
  BY StatusEffect, <1>3
<1>7. Len(log') = Len(log)
  BY <1>3, <1>4, <1>6
<1> QED BY <1>2, <1>4, <1>5, <1>7 DEF Grows

LEMMA UnchangedGrows == ASSUME UNCHANGED log PROVE Grows
BY DEF Grows, Same

LEMMA UnmixedBefore ==
  ASSUME Grows, NEW u, Unmixed(u)'
  PROVE  Unmixed(u)
BY DEF Grows, Same, Unmixed

LEMMA FollowedAfter ==
  ASSUME Grows, NEW i \in DOMAIN log, Followed(i)
  PROVE  Followed(i)'
BY DEF Grows, Same, Followed

\* A step that leaves no new message without its entry, nor a new entry alone.
Carries ==
    /\ Grows
    /\ \A i \in DOMAIN log : Pending(i) => Pending(i)' \/ Followed(i)'
    /\ \A i \in DOMAIN log' : i \notin DOMAIN log => Settled(i)'

LEMMA OwnAfter ==
  ASSUME Carries, NEW m \in Mails, HasOwn(m)
  PROVE  HasOwn(m)'
<1>1. PICK i \in DOMAIN log : Own(i, m) /\ \A j \in DOMAIN log : i <= j => Settled(j)
  BY DEF HasOwn
<1>2. i \in DOMAIN log' /\ Own(i, m)'
  BY <1>1 DEF Carries, Grows, Same, Own, User
<1>3. ASSUME NEW j \in DOMAIN log', i <= j PROVE Settled(j)'
  <2>1. CASE j \notin DOMAIN log
    BY <2>1, <1>3 DEF Carries
  <2>2. CASE j \in DOMAIN log
    <3>1. Settled(j)
      BY <1>1, <1>3, <2>2
    <3>2. Same(log'[j], log[j])
      BY <2>2 DEF Carries, Grows
    <3> QED BY <2>2, <3>1, <3>2, FollowedAfter DEF Carries, Settled, Same
  <2> QED BY <2>1, <2>2
<1> QED BY <1>2, <1>3 DEF HasOwn

LEMMA QuietCarries ==
  ASSUME UNCHANGED log, pc \in Asking => pc' \in Asking /\ UNCHANGED <<cur, retry, agent>>
  PROVE  Carries
<1>1. \A i \in DOMAIN log : Pending(i) => Pending(i)'
  BY DEF Pending, User
<1> QED BY <1>1, UnchangedGrows DEF Carries

\* Outside of the turn nothing is pending.
LEMMA NoneLeftAlone ==
  ASSUME TypeOK, pc \notin Asking, Grows, \A i \in DOMAIN log' : i \notin DOMAIN log => Settled(i)'
  PROVE  Carries
BY DEF Carries, Pending

\* A turned away message leaves an entry that stands alone.
LEMMA DenialCarries ==
  ASSUME TypeOK, pc \notin Asking, NEW m \in Mails, NEW g \in Agents,
         log' = Append(log, Inbound(User(m), g, m, Text[m], "denied"))
  PROVE  Carries
<1> DEFINE e == Inbound(User(m), g, m, Text[m], "denied")
<1>1. e \in LogEntry /\ e.status = "denied"
  BY EntryTypes DEF Inbound
<1> HIDE DEF e
<1>2. /\ Grows /\ Len(log) \in Nat /\ log'[Len(log) + 1] = e
      /\ DOMAIN log = 1..Len(log) /\ DOMAIN log' = 1..Len(log) + 1
  BY <1>1, AppendGrows DEF e
<1>3. \A i \in DOMAIN log' : i \notin DOMAIN log => i = Len(log) + 1
  BY <1>2
<1>4. \A i \in DOMAIN log' : i \notin DOMAIN log => Settled(i)'
  BY <1>1, <1>2, <1>3 DEF Settled
<1> QED BY <1>2, <1>4, NoneLeftAlone

\* The entry of what became of a message follows the entry of the message, if it is new.
LEMMA OutcomeCarries ==
  ASSUME TypeOK, cur \in Mails, NEW b \in BOOLEAN, NEW s \in {"ok", "failed"},
         log' = Append(log, Outbound(User(cur), agent, cur, Text[cur], b, s))
  PROVE  Carries
<1> DEFINE e == Outbound(User(cur), agent, cur, Text[cur], b, s)
<1>1. e \in LogEntry /\ e.dir = "out" /\ e.user = User(cur) /\ e.agent = agent /\ e.text = Text[cur]
  BY EntryTypes DEF Outbound, TypeOK
<1> HIDE DEF e
<1>2. /\ Grows /\ Len(log) \in Nat /\ log'[Len(log) + 1] = e
      /\ DOMAIN log = 1..Len(log) /\ DOMAIN log' = 1..Len(log) + 1
  BY <1>1, AppendGrows DEF e
<1>3. \A i \in DOMAIN log' : i \notin DOMAIN log => i = Len(log) + 1
  BY <1>2
<1>4. \A i \in DOMAIN log' : i \notin DOMAIN log => Settled(i)'
  BY <1>1, <1>2, <1>3 DEF Settled
<1>5. ASSUME NEW i \in DOMAIN log, Pending(i) PROVE Followed(i)'
  <2>1. i = Len(log) /\ i + 1 \in DOMAIN log' /\ log'[i + 1] = e
    BY <1>2, <1>5 DEF Pending
  <2>2. Same(log'[i], log[i])
    BY <1>2 DEF Grows
  <2> QED BY <1>1, <1>5, <2>1, <2>2 DEF Pending, Followed, Same
<1> QED BY <1>2, <1>4, <1>5 DEF Carries

\* The entry of a new message, which its turn follows.
LEMMA MessageCarries ==
  ASSUME TypeOK, pc = "admit", cur \in Mails, NEW g \in Agents, ~retry,
         log' = Append(log, Inbound(User(cur), g, cur, Text[cur], "ok")),
         agent' = g, pc' = "start", UNCHANGED <<cur, retry>>
  PROVE  Carries /\ HasOwn(cur)'
<1> DEFINE e == Inbound(User(cur), g, cur, Text[cur], "ok")
<1>1. e \in LogEntry /\ e.dir = "in" /\ e.user = User(cur) /\ e.agent = g /\ e.text = Text[cur]
  BY EntryTypes DEF Inbound
<1> HIDE DEF e
<1>2. /\ Grows /\ Len(log) \in Nat /\ log'[Len(log) + 1] = e /\ Len(log') = Len(log) + 1
      /\ DOMAIN log = 1..Len(log) /\ DOMAIN log' = 1..Len(log) + 1
  BY <1>1, AppendGrows DEF e
<1>3. PICK n \in Nat : n = Len(log) + 1
  BY <1>2
<1>4. Settled(n)'
  <2>1. Pending(n)'
    BY <1>1, <1>2, <1>3 DEF Pending, Asking, User
  <2> QED BY <2>1 DEF Settled
<1>5. \A i \in DOMAIN log' : i \notin DOMAIN log => i = n
  BY <1>2, <1>3
<1>6. Carries
  BY <1>2, <1>4, <1>5, NoneLeftAlone DEF Asking
<1>7. HasOwn(cur)'
  <2>1. n \in DOMAIN log' /\ Own(n, cur)'
    BY <1>1, <1>2, <1>3 DEF Own, User
  <2>2. \A j \in DOMAIN log' : n <= j => j = n
    BY <1>2, <1>3
  <2> QED BY <1>4, <2>1, <2>2 DEF HasOwn
<1> QED BY <1>6, <1>7

LEMMA StatusCarries ==
  ASSUME TypeOK, TrailInv, pc \in AtStake, NEW s \in {"ok", "failed"}, log' = StatusSet(entry, s)
  PROVE  Carries
<1>1. entry \in DOMAIN log /\ log[entry].dir = "out" /\ log[entry].status # "denied"
  BY DEF TypeOK, TrailInv, AtStake
<1>2. Grows /\ DOMAIN log' = DOMAIN log
  BY <1>1, StatusGrows
<1> QED BY <1>2, NoneLeftAlone DEF Asking, AtStake

LEMMA StepCarries ==
  ASSUME TypeOK, TrailInv, SpentInv, [Next]_vars, ~Crash, Spent("db")' = 0
  PROVE  Carries
<1> USE DEF mailboxVars, adminVars, storeVars, memoryVars, worldVars
<1>s. Spent("db") = 0 /\ ~Spend("db")
  BY NoneYet DEF Faults
<1>a. pc \notin {"idle", "fetch", "batch"} => cur \in Mails /\ Sender[cur] \in Addresses
  BY ConstantsAssumption DEF TypeOK
<1>b. selected \in [Addresses -> Agents] /\ Default \in Agents
  BY ConstantsAssumption DEF TypeOK
<1>1. CASE Environment
  <2>1. UNCHANGED <<log, pc, cur, retry, agent>>
    BY <1>1 DEF Environment, Arrive, HumanReads, Grant, Deny, Withdraw, Reactivate, SelectAgent, ToggleAgent
  <2> QED BY <2>1, QuietCarries
<1>2. CASE StartPoll \/ FetchNext \/ EndFetch \/ PollFails \/ NextMail \/ EndPoll \/ File
  <2>1. UNCHANGED log /\ pc \notin Asking
    BY <1>2 DEF StartPoll, FetchNext, EndFetch, PollFails, NextMail, EndPoll, File, Asking
  <2> QED BY <2>1, QuietCarries
<1>3. CASE AdmitDenied
  <2>1. CASE UNCHANGED log
    BY <1>3, <2>1, QuietCarries DEF AdmitDenied, Asking
  <2>2. CASE log' = Append(log, Inbound(User(cur), Default, cur, Text[cur], "denied"))
    BY <1>3, <1>a, <1>b, <2>2, DenialCarries DEF AdmitDenied, Asking
  <2> QED BY <1>3, <2>1, <2>2 DEF AdmitDenied
<1>4. CASE AdmitDisabled
  BY <1>4, <1>a, <1>b, DenialCarries DEF AdmitDisabled, Asking
<1>5. CASE AdmitAllowed
  <2>1. CASE retry
    BY <1>5, <2>1, QuietCarries DEF AdmitAllowed, InboundRecorded, Asking
  <2>2. CASE ~retry
    BY <1>5, <1>a, <1>b, <2>2, MessageCarries DEF AdmitAllowed, InboundRecorded
  <2> QED BY <2>1, <2>2
<1>6. CASE AdmitFails \/ LookUp
  BY <1>6, QuietCarries DEF AdmitFails, LookUp, Asking
<1>7. CASE StartTurn \/ ModelAnswers \/ TurnFails
  <2>1. UNCHANGED <<log, cur, retry, agent>> /\ pc' \in Asking
    BY <1>7 DEF StartTurn, ModelAnswers, TurnFails, Asking
  <2> QED BY <2>1, QuietCarries
<1>8. CASE RecordNote
  <2>1. cur \in Mails /\ log' = Append(log, Outbound(User(cur), agent, cur, Text[cur], FALSE, "failed"))
    BY <1>8, <1>a, <1>s DEF RecordNote
  <2> QED BY <2>1, OutcomeCarries
<1>9. CASE RecordAnswer
  <2>1. cur \in Mails /\ log' = Append(log, Outbound(User(cur), agent, cur, Text[cur], TRUE, "ok"))
    BY <1>9, <1>a, <1>s DEF RecordAnswer
  <2> QED BY <2>1, OutcomeCarries
<1>10. CASE SendReply \/ Resend
  BY <1>10, QuietCarries DEF SendReply, Resend, Asking
<1>11. CASE MarkFailed
  BY <1>11, <1>s, StatusCarries DEF MarkFailed, MarkedFailed, AtStake
<1>12. CASE MarkOk
  BY <1>12, <1>s, StatusCarries DEF MarkOk, AtStake
<1>13. CASE UNCHANGED vars
  BY <1>13, QuietCarries DEF vars
<1> QED
  BY <1>1, <1>2, <1>3, <1>4, <1>5, <1>6, <1>7, <1>8, <1>9, <1>10, <1>11, <1>12, <1>13
  DEF Next, Adapter, Pipeline

\* Whatever fails, the log only grows.
LEMMA StepGrows == ASSUME TypeOK, TrailInv, [Next]_vars PROVE Grows
<1> USE DEF mailboxVars, adminVars, storeVars, memoryVars, worldVars
<1>a. pc \notin {"idle", "fetch", "batch"} => cur \in Mails /\ Sender[cur] \in Addresses
  BY ConstantsAssumption DEF TypeOK
<1>b. selected \in [Addresses -> Agents] /\ Default \in Agents /\ agent \in Agents
  BY ConstantsAssumption DEF TypeOK
<1>c. pc \in AtStake => entry \in DOMAIN log /\ log[entry].dir = "out" /\ log[entry].status # "denied"
  BY DEF TypeOK, TrailInv, AtStake
<1>1. CASE UNCHANGED log
  BY <1>1, UnchangedGrows
<1>2. CASE AdmitDenied \/ AdmitDisabled
  BY <1>2, <1>a, <1>b, UnchangedGrows, EntryTypes, AppendGrows DEF AdmitDenied, AdmitDisabled
<1>3. CASE AdmitAllowed
  BY <1>3, <1>a, <1>b, UnchangedGrows, EntryTypes, AppendGrows DEF AdmitAllowed, InboundRecorded
<1>4. CASE RecordNote
  BY <1>4, <1>a, <1>b, UnchangedGrows, EntryTypes, AppendGrows DEF RecordNote
<1>5. CASE RecordAnswer
  BY <1>5, <1>a, <1>b, UnchangedGrows, EntryTypes, AppendGrows DEF RecordAnswer
<1>6. CASE MarkFailed
  BY <1>6, <1>c, UnchangedGrows, StatusGrows DEF MarkFailed, MarkedFailed, AtStake
<1>7. CASE MarkOk
  BY <1>7, <1>c, UnchangedGrows, StatusGrows DEF MarkOk, AtStake
<1>8. Environment => UNCHANGED log
  BY DEF Environment, Arrive, HumanReads, Grant, Deny, Withdraw, Reactivate, SelectAgent, ToggleAgent
<1>9. Adapter => UNCHANGED log \/ AdmitDenied \/ AdmitDisabled \/ AdmitAllowed \/ RecordNote
                 \/ RecordAnswer \/ MarkFailed \/ MarkOk
  BY DEF Adapter, Pipeline, StartPoll, FetchNext, EndFetch, PollFails, NextMail, EndPoll, File,
     AdmitFails, LookUp, StartTurn, ModelAnswers, TurnFails, SendReply, Resend
<1>10. Crash \/ UNCHANGED vars => UNCHANGED log
  BY DEF Crash, vars
<1> QED BY <1>1, <1>2, <1>3, <1>4, <1>5, <1>6, <1>7, <1>8, <1>9, <1>10 DEF Next

\* On a retry, the entry looked up comes right after an entry of the text, which was written
\* no earlier than the message's own.
LEMMA LookUpFinds ==
  ASSUME TypeOK, TrailInv, pc = "lookup", Spent("db") = 0, Unmixed(User(cur)),
         NEW k \in UndeliveredAnswer(log, User(cur), agent, Text[cur], LookBack)
  PROVE  log[k].text = Text[cur]
<1> DEFINE inbound == Entries(log, "in", User(cur), agent)
           near == Recent(log, User(cur), agent, LookBack)
<1>1. log \in Seq(LogEntry) /\ LookBack \in Nat /\ k \in DOMAIN log /\ Len(log) \in Nat
      /\ DOMAIN log = 1..Len(log)
  BY ConstantsAssumption DEF TypeOK, UndeliveredAnswer
<1>2. PICK i \in DOMAIN log :
         /\ IsNewestInbound(log, User(cur), agent, Text[cur], LookBack, i)
         /\ IsFirstOutboundAfter(log, User(cur), agent, i, k)
  BY DEF UndeliveredAnswer
<1>3. PICK o \in DOMAIN log : Own(o, cur) /\ \A j \in DOMAIN log : o <= j => Settled(j)
  BY DEF TrailInv, HasOwn
<1>4. i \in near /\ i \in inbound /\ log[i].text = Text[cur]
      /\ \A j \in near : log[j].text = Text[cur] => j <= i
  BY <1>2 DEF IsNewestInbound, Recent
<1>5. log[i].dir = "in" /\ log[i].user = User(cur) /\ log[i].agent = agent
  BY <1>4 DEF Entries
<1>6. log[o].agent = agent /\ o \in inbound /\ log[i].status # "denied"
  BY <1>3, <1>5 DEF Unmixed, Own, Entries
<1>7. o <= i
  <2> SUFFICES ASSUME i < o PROVE FALSE
    BY <1>1
  <2>1. o \notin near
    BY <1>1, <1>3, <1>4 DEF Own
  <2>2. {j \in inbound : j > o} \subseteq {j \in inbound : j > i}
    BY <1>1 DEF Entries
  <2>3. IsFiniteSet({j \in inbound : j > i})
    <3>1. IsFiniteSet(1..Len(log))
      BY <1>1, FS_Interval
    <3>2. {j \in inbound : j > i} \subseteq 1..Len(log)
      BY <1>1 DEF Entries
    <3> QED BY <3>1, <3>2, FS_Subset
  <2>4. /\ Cardinality({j \in inbound : j > o}) <= Cardinality({j \in inbound : j > i})
        /\ Cardinality({j \in inbound : j > o}) \in Nat /\ Cardinality({j \in inbound : j > i}) \in Nat
    BY <2>2, <2>3, FS_Subset, FS_CardinalityType
  <2>5. Cardinality({j \in inbound : j > i}) < LookBack
    BY <1>4 DEF Recent
  <2>6. Cardinality({j \in inbound : j > o}) < LookBack
    BY <1>1, <2>4, <2>5
  <2> QED BY <1>6, <2>1, <2>6 DEF Recent
<1>8. Followed(i)
  <2>1. Settled(i) /\ ~Pending(i)
    BY <1>3, <1>7 DEF Pending, Asking
  <2> QED BY <1>5, <1>6, <2>1 DEF Settled
<1>9. k = i + 1
  <2>1. k \in Entries(log, "out", User(cur), agent) /\ i < k
        /\ \A j \in Entries(log, "out", User(cur), agent) : i < j => k <= j
    BY <1>2 DEF IsFirstOutboundAfter
  <2>2. i + 1 \in Entries(log, "out", User(cur), agent)
    BY <1>5, <1>8 DEF Followed, Entries
  <2> QED BY <1>1, <2>1, <2>2
<1> QED BY <1>4, <1>8, <1>9 DEF Followed

LEMMA InitTrail == Init => TrailInv
<1> SUFFICES ASSUME Init PROVE TrailInv
  OBVIOUS
<1> QED BY DEF Init, FreshProcess, TrailInv, Answering, AtStake, Asking

\* The part of the invariant that no fault touches.
Control ==
    /\ pc \in Answering \cup {"markok"} => (retry <=> attempts[cur] > 0)
    /\ pc \in {"lookup", "resend", "markok"} => retry
    /\ pc \in AtStake =>
         log[entry].dir = "out" /\ log[entry].user = User(cur) /\ log[entry].status # "denied"

LEMMA StepControl == ASSUME TypeOK, TrailInv, [Next]_vars PROVE Control'
<1> USE DEF mailboxVars, adminVars, storeVars, memoryVars, worldVars
<1>a. pc \notin {"idle", "fetch", "batch"} => cur \in Mails
  BY DEF TypeOK
<1>c. \A o : Conclude(o) => pc' \in {"batch", "file"}
  BY DEF Conclude
<1>d. pc' \in {"idle", "fetch", "batch", "file"} => Control'
  BY DEF Control, Answering, AtStake
<1>1. CASE Environment \/ UNCHANGED vars
  <2>1. UNCHANGED <<log, memoryVars>>
    BY <1>1 DEF Environment, Arrive, HumanReads, Grant, Deny, Withdraw, Reactivate, SelectAgent,
       ToggleAgent, vars
  <2> QED BY <2>1 DEF TrailInv, Control, User
<1>2. CASE StartPoll \/ FetchNext \/ EndFetch \/ PollFails \/ EndPoll \/ File \/ Crash
  BY <1>2, <1>d DEF StartPoll, FetchNext, EndFetch, PollFails, EndPoll, File, Crash
<1>3. CASE NextMail
  <2>1. PICK m \in Mails : cur' = m /\ retry' = (attempts[m] > 0)
    BY <1>3 DEF NextMail
  <2> QED BY <1>3, <2>1 DEF NextMail, Control, AtStake
<1>4. CASE AdmitDenied \/ AdmitDisabled \/ AdmitFails \/ RecordNote \/ MarkFailed \/ MarkOk
  BY <1>4, <1>c, <1>d DEF AdmitDenied, AdmitDisabled, AdmitFails, RecordNote, MarkFailed, MarkOk
<1>5. CASE AdmitAllowed
  <2>1. /\ pc = "admit" /\ UNCHANGED <<attempts, cur, retry>>
        /\ pc' = IF retry THEN "lookup" ELSE "start"
    BY <1>5 DEF AdmitAllowed
  <2> QED BY <2>1 DEF TrailInv, Control, Answering, AtStake
<1>6. CASE LookUp
  <2>1. UNCHANGED <<log, attempts, cur, retry>> /\ pc = "lookup"
    BY <1>6 DEF LookUp
  <2>2. CASE pc' = "start"
    BY <2>1, <2>2 DEF TrailInv, Control, Answering, AtStake
  <2>3. CASE pc' = "resend" /\ entry' \in UndeliveredAnswer(log, User(cur), agent, Text[cur], LookBack)
    <3>1. log[entry'].dir = "out" /\ log[entry'].user = User(cur) /\ log[entry'].status = "failed"
      BY <2>3 DEF UndeliveredAnswer, IsFirstOutboundAfter, Entries
    <3> QED BY <2>1, <2>3, <3>1 DEF TrailInv, Control, Answering, AtStake, User
  <2> QED BY <1>6, <2>2, <2>3 DEF LookUp
<1>7. CASE StartTurn \/ ModelAnswers \/ TurnFails
  <2>1. UNCHANGED <<attempts, cur, retry>> /\ pc \in {"start", "model"} /\ pc' \in Asking
    BY <1>7 DEF StartTurn, ModelAnswers, TurnFails, Asking
  <2> QED BY <2>1 DEF TrailInv, Control, Answering, AtStake, Asking
<1>8. CASE RecordAnswer
  <2>1. CASE \E o : Conclude(o)
    BY <1>c, <1>d, <2>1
  <2>2. CASE /\ log' = Append(log, Outbound(User(cur), agent, cur, Text[cur], TRUE, "ok"))
             /\ entry' = Len(log) + 1 /\ pc' = "reply" /\ UNCHANGED <<left, attempts, target>>
    <3> DEFINE e == Outbound(User(cur), agent, cur, Text[cur], TRUE, "ok")
    <3>1. e \in LogEntry /\ e.dir = "out" /\ e.user = User(cur) /\ e.status = "ok"
      BY <1>8, <1>a, EntryTypes DEF RecordAnswer, Outbound, TypeOK
    <3> HIDE DEF e
    <3>2. log'[Len(log) + 1] = e
      BY <2>2, <3>1, AppendGrows DEF e
    <3>3. pc = "record" /\ UNCHANGED <<cur, retry>>
      BY <1>8 DEF RecordAnswer
    <3> QED BY <2>2, <3>1, <3>2, <3>3 DEF TrailInv, Control, Answering, AtStake, User
  <2> QED BY <1>8, <2>1, <2>2 DEF RecordAnswer
<1>9. CASE SendReply \/ Resend
  <2>1. /\ UNCHANGED <<log, cur, retry, entry>> /\ pc \in AtStake
        /\ \/ pc' \in {"batch", "file"}
           \/ pc = "reply" /\ pc' = "markfailed" /\ UNCHANGED attempts
           \/ pc = "resend" /\ pc' = "markok" /\ UNCHANGED attempts
    BY <1>9, <1>c DEF SendReply, Resend, AtStake
  <2> QED BY <1>d, <2>1 DEF TrailInv, Control, Answering, AtStake, User
<1> QED
  BY <1>1, <1>2, <1>3, <1>4, <1>5, <1>6, <1>7, <1>8, <1>9 DEF Next, Adapter, Pipeline

\* What is delivered in a step: nothing, or the entry at stake to the sender at hand.
LEMMA DeliveredOnly ==
  ASSUME [Next]_vars
  PROVE  \/ UNCHANGED received
         \/ /\ pc \in {"reply", "resend"} /\ UNCHANGED log
            /\ received' = received \cup {<<cur, entry>>}
<1> USE DEF mailboxVars, adminVars, storeVars, memoryVars, worldVars
<1>1. Environment => UNCHANGED received
  BY DEF Environment, Arrive, HumanReads, Grant, Deny, Withdraw, Reactivate, SelectAgent, ToggleAgent
<1>2. StartPoll \/ FetchNext \/ EndFetch \/ PollFails \/ NextMail \/ EndPoll \/ File \/ Crash
        => UNCHANGED received
  BY DEF StartPoll, FetchNext, EndFetch, PollFails, NextMail, EndPoll, File, Crash
<1>3. Pipeline /\ ~SendReply /\ ~Resend => UNCHANGED received
  BY DEF Pipeline, AdmitDenied, AdmitDisabled, AdmitAllowed, AdmitFails, LookUp, StartTurn,
     ModelAnswers, TurnFails, RecordNote, RecordAnswer, MarkFailed, MarkOk
<1>4. SendReply \/ Resend =>
        \/ UNCHANGED received
        \/ pc \in {"reply", "resend"} /\ UNCHANGED log /\ received' = received \cup {<<cur, entry>>}
  BY DEF SendReply, Resend, Delivered
<1>5. UNCHANGED vars => UNCHANGED received
  BY DEF vars
<1> QED BY <1>1, <1>2, <1>3, <1>4, <1>5 DEF Next, Adapter

\* A retry is counted only for a message that has its entry.
LEMMA CountedAfter ==
  ASSUME TypeOK, TrailInv, SpentInv, [Next]_vars, Spent("db")' = 0, NEW m \in Mails, attempts'[m] > 0
  PROVE  HasOwn(m)'
<1> USE DEF mailboxVars, adminVars, storeVars, memoryVars, worldVars
<1>s. Spent("db") = 0 /\ ~Spend("db")
  BY NoneYet DEF Faults
<1>a. attempts \in [Mails -> Nat] /\ (pc \notin {"idle", "fetch", "batch"} => cur \in Mails)
  BY DEF TypeOK
<1>1. ~Crash
  BY DEF Crash
<1>2. Carries
  BY <1>1, <1>s, StepCarries
<1>3. attempts[m] > 0 \/ (m = cur /\ pc \in Asking \cup AtStake)
  <2>1. Environment \/ UNCHANGED vars => UNCHANGED attempts
    BY DEF Environment, Arrive, HumanReads, Grant, Deny, Withdraw, Reactivate, SelectAgent,
       ToggleAgent, vars
  <2>2. StartPoll \/ FetchNext \/ EndFetch \/ PollFails \/ NextMail \/ EndPoll \/ File => UNCHANGED attempts
    BY DEF StartPoll, FetchNext, EndFetch, PollFails, NextMail, EndPoll, File
  <2>3. ASSUME NEW o, Conclude(o), cur \in Mails PROVE attempts[m] > 0 \/ (m = cur /\ Unsuccessful(o))
    BY <1>a, <2>3 DEF Conclude
  <2>4. CASE AdmitDenied \/ AdmitDisabled
    BY <1>a, <1>s, <2>3, <2>4 DEF AdmitDenied, AdmitDisabled, Unsuccessful
  <2>5. CASE AdmitAllowed \/ LookUp \/ StartTurn \/ ModelAnswers \/ TurnFails
    BY <2>5 DEF AdmitAllowed, LookUp, StartTurn, ModelAnswers, TurnFails
  <2>6. CASE RecordNote \/ RecordAnswer \/ SendReply \/ MarkFailed \/ Resend \/ MarkOk
    <3>1. pc \in Asking \cup AtStake /\ (UNCHANGED attempts \/ \E o : Conclude(o))
      BY <2>6 DEF RecordNote, RecordAnswer, SendReply, MarkFailed, Resend, MarkOk, Asking, AtStake
    <3> QED BY <1>a, <2>3, <3>1 DEF Asking, AtStake
  <2> QED BY <1>1, <1>s, <2>1, <2>2, <2>4, <2>5, <2>6 DEF Next, Adapter, Pipeline, AdmitFails
<1>4. HasOwn(m)
  BY <1>3, <1>s DEF TrailInv
<1> QED BY <1>2, <1>4, OwnAfter

\* So has the message at hand, from the moment it is admitted.
LEMMA AskedAfter ==
  ASSUME TypeOK, TrailInv, SpentInv, [Next]_vars, Spent("db")' = 0,
         pc' \in {"lookup"} \cup Asking \cup AtStake
  PROVE  HasOwn(cur)'
<1> USE DEF mailboxVars, adminVars, storeVars, memoryVars, worldVars
<1>s. Spent("db") = 0 /\ ~Spend("db")
  BY NoneYet DEF Faults
<1>a. (pc \notin {"idle", "fetch", "batch"} => cur \in Mails) /\ selected \in [Addresses -> Agents]
      /\ Sender \in [Mails -> Addresses]
  BY ConstantsAssumption DEF TypeOK
<1>1. ~Crash /\ ~NextMail
  BY DEF Crash, NextMail, Asking, AtStake
<1>2. Carries
  BY <1>1, <1>s, StepCarries
<1>3. ASSUME cur \in Mails, UNCHANGED cur, HasOwn(cur) PROVE HasOwn(cur)'
  <2>1. PICK m \in Mails : m = cur
    BY <1>3
  <2>2. HasOwn(m)'
    BY <1>2, <1>3, <2>1, OwnAfter
  <2> QED BY <1>3, <2>1, <2>2 DEF HasOwn, Own, User
<1>4. CASE AdmitAllowed
  <2>1. CASE retry
    <3>1. attempts[cur] > 0 /\ cur \in Mails
      BY <1>4, <1>a, <2>1 DEF AdmitAllowed, TrailInv, Answering
    <3> QED BY <1>3, <1>4, <1>s, <3>1 DEF AdmitAllowed, TrailInv
  <2>2. CASE ~retry
    BY <1>4, <1>a, <2>2, MessageCarries DEF AdmitAllowed, InboundRecorded
  <2> QED BY <2>1, <2>2
<1>5. CASE ~AdmitAllowed
  <2>1. UNCHANGED cur /\ pc \in {"lookup"} \cup Asking \cup AtStake
    <3>1. Environment \/ UNCHANGED vars => UNCHANGED <<cur, pc>>
      BY DEF Environment, Arrive, HumanReads, Grant, Deny, Withdraw, Reactivate, SelectAgent,
         ToggleAgent, vars
    <3>2. StartPoll \/ FetchNext \/ EndFetch \/ PollFails \/ EndPoll \/ File
            => pc' \in {"idle", "fetch", "batch"}
      BY DEF StartPoll, FetchNext, EndFetch, PollFails, EndPoll, File
    <3>3. AdmitDenied \/ AdmitDisabled \/ AdmitFails => pc' \in {"batch", "file"}
      BY DEF AdmitDenied, AdmitDisabled, AdmitFails, Conclude
    <3>4. LookUp \/ StartTurn \/ ModelAnswers \/ TurnFails \/ RecordNote \/ RecordAnswer \/ SendReply
            \/ MarkFailed \/ Resend \/ MarkOk
            => UNCHANGED cur /\ pc \in {"lookup"} \cup Asking \cup AtStake
      BY DEF LookUp, StartTurn, ModelAnswers, TurnFails, RecordNote, RecordAnswer, SendReply,
         MarkFailed, Resend, MarkOk, Asking, AtStake
    <3> QED BY <1>1, <1>5, <3>1, <3>2, <3>3, <3>4 DEF Next, Adapter, Pipeline, Asking, AtStake
  <2> QED BY <1>3, <1>a, <1>s, <2>1 DEF TrailInv, Asking, AtStake
<1> QED BY <1>4, <1>5

\* The entry at stake is an answer to the text at hand.
LEMMA StakeAfter ==
  ASSUME TypeOK, TrailInv, SpentInv, [Next]_vars, Spent("db")' = 0
  PROVE  /\ pc' \in {"reply", "markfailed"} => log'[entry'].text = Text[cur']
         /\ pc' \in {"resend", "markok"} /\ Unmixed(User(cur))' => log'[entry'].text = Text[cur']
<1> USE DEF mailboxVars, adminVars, storeVars, memoryVars, worldVars
<1>s. Spent("db") = 0 /\ ~Spend("db")
  BY NoneYet DEF Faults
<1>a. pc \notin {"idle", "fetch", "batch"} => cur \in Mails
  BY DEF TypeOK
<1>g. Grows
  BY StepGrows
<1>1. CASE Environment \/ UNCHANGED vars
  <2>1. UNCHANGED <<log, memoryVars>>
    BY <1>1 DEF Environment, Arrive, HumanReads, Grant, Deny, Withdraw, Reactivate, SelectAgent,
       ToggleAgent, vars
  <2>2. Unmixed(User(cur))' => Unmixed(User(cur))
    BY <2>1 DEF Unmixed, User
  <2> QED BY <1>s, <2>1, <2>2 DEF TrailInv
<1>2. CASE LookUp /\ pc' = "resend"
  <2>1. /\ pc = "lookup" /\ UNCHANGED <<log, cur>>
        /\ entry' \in UndeliveredAnswer(log, User(cur), agent, Text[cur], LookBack)
    BY <1>2 DEF LookUp
  <2>2. Unmixed(User(cur))' => Unmixed(User(cur))
    BY <2>1 DEF Unmixed, User
  <2>3. Unmixed(User(cur)) => log[entry'].text = Text[cur]
    BY <1>s, <2>1, LookUpFinds
  <2> QED BY <1>2, <2>1, <2>2, <2>3
<1>3. CASE RecordAnswer /\ pc' = "reply"
  <2> DEFINE e == Outbound(User(cur), agent, cur, Text[cur], TRUE, "ok")
  <2>1. e \in LogEntry /\ e.text = Text[cur]
    BY <1>3, <1>a, EntryTypes DEF RecordAnswer, Outbound, TypeOK
  <2>2. log' = Append(log, e) /\ entry' = Len(log) + 1 /\ UNCHANGED cur
    BY <1>3, <1>s DEF RecordAnswer
  <2> HIDE DEF e
  <2> QED BY <1>3, <2>1, <2>2, AppendGrows
<1>4. CASE SendReply \/ Resend
  <2>1. /\ UNCHANGED <<log, cur, entry>>
        /\ \/ pc' \in {"batch", "file"}
           \/ pc = "reply" /\ pc' = "markfailed"
           \/ pc = "resend" /\ pc' = "markok"
    BY <1>4 DEF SendReply, Resend, Conclude
  <2>2. Unmixed(User(cur))' => Unmixed(User(cur))
    BY <2>1 DEF Unmixed, User
  <2> QED BY <1>s, <2>1, <2>2 DEF TrailInv
<1>5. CASE pc' \notin AtStake
  BY <1>5 DEF AtStake
<1>6. Next => Environment \/ (LookUp /\ pc' = "resend") \/ (RecordAnswer /\ pc' = "reply")
               \/ SendReply \/ Resend \/ pc' \notin AtStake
  BY DEF Next, Adapter, Pipeline, StartPoll, FetchNext, EndFetch, PollFails, NextMail, EndPoll, File,
     AdmitDenied, AdmitDisabled, AdmitAllowed, AdmitFails, LookUp, StartTurn, ModelAnswers, TurnFails,
     RecordNote, RecordAnswer, MarkFailed, MarkOk, Crash, Conclude, AtStake
<1> QED BY <1>1, <1>2, <1>3, <1>4, <1>5, <1>6

LEMMA StepTrail == ASSUME TypeOK, TrailInv, SpentInv, [Next]_vars PROVE TrailInv'
<1>c. Control'
  BY StepControl
<1>g. Grows
  BY StepGrows
<1>t. received \subseteq Mails \X DOMAIN log
  BY DEF TypeOK
<1>r. ASSUME NEW p \in received' PROVE p \in received \/ (p = <<cur, entry>> /\ UNCHANGED log
                                         /\ pc \in {"reply", "resend"} /\ entry \in DOMAIN log)
  BY <1>r, DeliveredOnly DEF TypeOK
<1>1. ASSUME NEW p \in received' PROVE log'[p[2]].user = User(p[1])
  <2>1. CASE p \in received
    <3>1. log[p[2]].user = User(p[1]) /\ p[2] \in DOMAIN log
      BY <1>t, <2>1 DEF TrailInv
    <3> QED BY <1>g, <3>1 DEF Grows, Same
  <2>2. CASE p = <<cur, entry>> /\ UNCHANGED log /\ pc \in {"reply", "resend"}
    BY <2>2 DEF TrailInv, AtStake
  <2> QED BY <1>1, <1>r, <2>1, <2>2
<1>2. ASSUME Spent("db")' = 0, NEW p \in received', Unmixed(User(p[1]))'
      PROVE  log'[p[2]].text = Text[p[1]]
  <2>s. Spent("db") = 0
    BY <1>2, NoneYet DEF Faults
  <2>u. Unmixed(User(p[1]))
    <3>1. User(p[1])' = User(p[1])
      BY DEF User
    <3>2. \A u : Unmixed(u)' => Unmixed(u)
      BY <1>g, UnmixedBefore
    <3> QED BY <1>2, <3>1, <3>2 DEF Unmixed
  <2>1. CASE p \in received
    <3>1. log[p[2]].text = Text[p[1]] /\ p[2] \in DOMAIN log
      BY <1>t, <2>s, <2>u, <2>1 DEF TrailInv
    <3> QED BY <1>g, <3>1 DEF Grows, Same
  <2>2. CASE p = <<cur, entry>> /\ UNCHANGED log /\ pc \in {"reply", "resend"}
    <3>1. Unmixed(User(cur))
      BY <2>u, <2>2
    <3> QED BY <2>s, <2>2, <3>1 DEF TrailInv
  <2> QED BY <1>2, <1>r, <2>1, <2>2
<1>3. ASSUME Spent("db")' = 0, NEW m \in Mails, attempts'[m] > 0 PROVE HasOwn(m)'
  BY <1>3, CountedAfter
<1>4. Spent("db")' = 0 /\ pc' \in {"lookup"} \cup Asking \cup AtStake => HasOwn(cur)'
  BY AskedAfter
<1>5. Spent("db")' = 0 =>
        /\ pc' \in {"reply", "markfailed"} => log'[entry'].text = Text[cur']
        /\ pc' \in {"resend", "markok"} /\ Unmixed(User(cur))' => log'[entry'].text = Text[cur']
  BY StakeAfter
<1> QED BY <1>c, <1>1, <1>2, <1>3, <1>4, <1>5 DEF TrailInv, Control, User

LEMMA TrailHolds == Spec => [](TypeOK /\ SpentInv /\ TrailInv)
<1> QED BY InitType, TypeStep, InitSpent, StepSpent, InitTrail, StepTrail, PTL DEF Spec

\* A sender gets answers to mail of their own only, and, while no commit fails and the trail
\* of the user is unmixed, to nothing but what they wrote (find_undelivered_answer).
THEOREM AnswersGoHome == Spec => []AnswersMatchTheirMail
<1>1. TrailInv => AnswersMatchTheirMail
  BY DEF TrailInv, AnswersMatchTheirMail
<1> QED BY TrailHolds, <1>1, PTL

-----------------------------------------------------------------------------
(* The folders. While no right changes, the handling of a message whose sender *)
(* is entitled to an answer ends with an answer, or in giving up.              *)

Handled(m) == FiledAs(m, "agent") /\ Kind[m] = "message" /\ access[Sender[m]] = "allowed"

HandledInv ==
    Spent("admin") = 0 =>
        /\ disabled = {}
        /\ pc = "markok" => copies[cur] > 0
        /\ \A m \in Mails : Handled(m) => copies[m] > 0

LEMMA InitHandled == Init => HandledInv
BY DEF Init, FreshProcess, HandledInv, Handled, FiledAs

\* What changes a right is counted.
LEMMA RightsCounted ==
  ASSUME TypeOK, SpentInv, [Next]_vars, Spent("admin")' = 0
  PROVE  Spent("admin") = 0 /\ UNCHANGED <<access, disabled>>
<1>a. left \in [Faults -> Nat] /\ Spent("admin") \in Nat
  BY DEF TypeOK, SpentInv, Faults
<1>1. ~Spend("admin")
  <2>1. Spend("admin") => Spent("admin")' = Spent("admin") + 1
    BY <1>a, SpendEffect DEF Faults
  <2> QED BY <1>a, <2>1
<1>2. UNCHANGED left \/ (\E f \in Faults : Spend(f)) => Spent("admin") = 0
  <2>1. ASSUME NEW f \in Faults, Spend(f) PROVE Spent("admin") = 0
    <3>1. f # "admin"
      BY <1>1, <2>1
    <3> QED BY <1>a, <2>1, <3>1, SpendEffect DEF Faults
  <2> QED BY <2>1 DEF Spent
<1>3. UNCHANGED left \/ \E f \in Faults : Spend(f)
  <2>1. Environment => UNCHANGED left \/ Spend("human") \/ Spend("admin")
    BY DEF Environment, Arrive, HumanReads, Grant, Deny, Withdraw, Reactivate, SelectAgent, ToggleAgent
  <2>2. Crash => Spend("crash")
    BY DEF Crash
  <2>3. StartPoll \/ FetchNext \/ EndFetch \/ PollFails \/ NextMail \/ EndPoll \/ File
          => UNCHANGED left \/ Spend("imap")
    BY DEF StartPoll, FetchNext, EndFetch, PollFails, NextMail, EndPoll, File, MarkSeenOnly, FlagRefused
  <2>4. Pipeline => UNCHANGED left \/ \E f \in {"db", "model", "smtp", "lost"} : Spend(f)
    BY DEF Pipeline, AdmitDenied, AdmitDisabled, AdmitAllowed, AdmitFails, LookUp, StartTurn, ModelAnswers,
       TurnFails, RecordNote, RecordAnswer, SendReply, MarkFailed, Resend, MarkOk
  <2>5. UNCHANGED vars => UNCHANGED left
    BY DEF vars
  <2> QED BY <2>1, <2>2, <2>3, <2>4, <2>5 DEF Next, Adapter, Faults
<1>4. UNCHANGED <<access, disabled>>
  <2> USE DEF adminVars
  <2>1. Environment => UNCHANGED <<access, disabled>>
    BY <1>1 DEF Environment, Arrive, HumanReads, Grant, Deny, Withdraw, Reactivate, SelectAgent, ToggleAgent
  <2>2. Crash \/ UNCHANGED vars => UNCHANGED <<access, disabled>>
    BY DEF Crash, vars
  <2>3. StartPoll \/ FetchNext \/ EndFetch \/ PollFails \/ NextMail \/ EndPoll \/ File
          => UNCHANGED <<access, disabled>>
    BY DEF StartPoll, FetchNext, EndFetch, PollFails, NextMail, EndPoll, File
  <2>4. Pipeline => UNCHANGED <<access, disabled>>
    BY DEF Pipeline, AdmitDenied, AdmitDisabled, AdmitAllowed, AdmitFails, LookUp, StartTurn, ModelAnswers,
       TurnFails, RecordNote, RecordAnswer, SendReply, MarkFailed, Resend, MarkOk
  <2> QED BY <2>1, <2>2, <2>3, <2>4 DEF Next, Adapter
<1> QED BY <1>2, <1>3, <1>4

\* An outcome that files a message as handled is a success or a refusal.
LEMMA Concluded ==
  ASSUME NEW outcome, Conclude(outcome)
  PROVE  /\ pc' \in {"batch", "file"}
         /\ pc' = "file" /\ target' = "agent" => outcome \notin {"failed", "undelivered"}
BY DEF Conclude, Unsuccessful

\* Deliveries add copies.
LEMMA MoreCopies ==
  ASSUME TypeOK, cur \in Mails, NEW i, Delivered(cur, i)
  PROVE  copies'[cur] > 0 /\ \A m \in Mails : copies'[m] >= copies[m]
BY DEF TypeOK, Delivered

LEMMA StepHandled == ASSUME TypeOK, SpentInv, HandledInv, [Next]_vars PROVE HandledInv'
<1> SUFFICES ASSUME Spent("admin")' = 0
             PROVE  /\ disabled' = {}
                    /\ pc' = "markok" => copies'[cur'] > 0
                    /\ \A m \in Mails : Handled(m)' => copies'[m] > 0
  BY DEF HandledInv
<1>r. Spent("admin") = 0 /\ UNCHANGED <<access, disabled>>
  BY RightsCounted
<1>i. disabled = {} /\ (pc = "markok" => copies[cur] > 0) /\ \A m \in Mails : Handled(m) => copies[m] > 0
  BY <1>r DEF HandledInv
<1>t. copies \in [Mails -> Nat] /\ (pc \notin {"idle", "fetch", "batch"} => cur \in Mails)
      /\ place \in [Mails -> {"away", "inbox", "agent", "failed"}]
  BY DEF TypeOK
<1>n. copies' \in [Mails -> Nat]
  BY TypeStep DEF TypeOK
\* Steps that move no mail.
<1>q. ASSUME UNCHANGED place, \A m \in Mails : copies'[m] >= copies[m],
             pc' = "markok" => copies'[cur'] > 0,
             pc' = "file" /\ target' = "agent" =>
                \/ cur' = cur /\ pc = "file" /\ target = "agent"
                \/ access[Sender[cur']] # "allowed"
                \/ copies'[cur'] > 0
      PROVE  /\ disabled' = {}
             /\ pc' = "markok" => copies'[cur'] > 0
             /\ \A m \in Mails : Handled(m)' => copies'[m] > 0
  <2>1. ASSUME NEW m \in Mails, Handled(m)' PROVE copies'[m] > 0
    <3>1. copies[m] \in Nat /\ copies'[m] >= copies[m]
      BY <1>q, <1>t
    <3>2. CASE Handled(m)
      <4>1. copies[m] > 0
        BY <1>i, <3>2
      <4>2. copies'[m] \in Nat
        BY <1>n
      <4> QED BY <3>1, <4>1, <4>2
    <3>3. CASE ~Handled(m)
      BY <1>q, <1>r, <2>1, <3>3 DEF Handled, FiledAs
    <3> QED BY <3>2, <3>3
  <2> QED BY <1>i, <1>q, <1>r, <2>1
\* Steps that end the handling, or go on with it, and send nothing.
<1>p. ASSUME UNCHANGED <<place, copies>>, pc' # "markok", pc' # "file"
      PROVE  /\ disabled' = {}
             /\ pc' = "markok" => copies'[cur'] > 0
             /\ \A m \in Mails : Handled(m)' => copies'[m] > 0
  BY <1>p, <1>q, <1>t
<1>c. ASSUME UNCHANGED <<place, copies, cur>>, NEW outcome, Conclude(outcome),
             outcome \in {"failed", "undelivered"} \/ access[Sender[cur]] # "allowed" \/ copies[cur] > 0
      PROVE  /\ disabled' = {}
             /\ pc' = "markok" => copies'[cur'] > 0
             /\ \A m \in Mails : Handled(m)' => copies'[m] > 0
  <2>1. pc' # "markok" /\ (pc' = "file" /\ target' = "agent" => outcome \notin {"failed", "undelivered"})
    BY <1>c, Concluded
  <2>2. \A m \in Mails : copies'[m] >= copies[m]
    BY <1>c, <1>t
  <2>3. copies' = copies /\ cur' = cur /\ place' = place
    BY <1>c
  <2> QED BY <1>c, <1>q, <2>1, <2>2, <2>3
<1> USE DEF mailboxVars, worldVars
<1>1. CASE UNCHANGED vars
  BY <1>1, <1>q, <1>i, <1>t DEF vars, memoryVars
<1>2. CASE Environment
  <2>1. UNCHANGED <<copies, pc, cur, target>> /\ \A m \in Mails : place'[m] = "agent" => place[m] = "agent"
    BY <1>2, <1>t DEF Environment, Arrive, HumanReads, Grant, Deny, Withdraw, Reactivate, SelectAgent,
       ToggleAgent, memoryVars
  <2> QED BY <1>i, <1>r, <2>1 DEF Handled, FiledAs
<1>3. CASE Crash
  BY <1>3, <1>p DEF Crash
<1>4. CASE StartPoll \/ EndFetch \/ PollFails \/ NextMail \/ EndPoll
  BY <1>4, <1>p DEF StartPoll, EndFetch, PollFails, NextMail, EndPoll
<1>5. CASE FetchNext
  <2>1. UNCHANGED <<copies, pc, cur, target>> /\ pc = "fetch"
    BY <1>5 DEF FetchNext
  <2>2. ASSUME NEW m \in Mails, place'[m] = "agent" PROVE place[m] = "agent" \/ Kind[m] # "message"
    BY <1>5, <1>t, <2>2 DEF FetchNext, MarkSeenAndFile, MarkSeenOnly, FlagRefused, FiledUnread
  <2> QED BY <1>i, <1>r, <2>1, <2>2 DEF Handled, FiledAs
<1>6. CASE File
  <2>1. UNCHANGED <<copies, cur, target>> /\ pc = "file" /\ pc' = "batch"
        /\ (UNCHANGED place \/ place' = [place EXCEPT ![cur] = target])
    <3>1. place' = [place EXCEPT ![cur] = IF Filing THEN target ELSE @] => UNCHANGED place \/ place' = [place EXCEPT ![cur] = target]
      BY <1>t
    <3> QED BY <1>6, <3>1 DEF File, MarkSeenAndFile, MarkSeenOnly, FlagRefused
  <2>2. \A m \in Mails : place'[m] = "agent" => place[m] = "agent" \/ (m = cur /\ target = "agent")
    BY <1>t, <2>1
  <2> QED BY <1>i, <1>r, <2>1, <2>2 DEF Handled, FiledAs
<1>7. CASE AdmitDenied
  <2>1. UNCHANGED <<place, copies, cur>> /\ access[Sender[cur]] # "allowed"
        /\ (Conclude("denied") \/ Conclude("failed"))
    BY <1>7 DEF AdmitDenied
  <2> QED BY <1>c, <2>1
<1>8. CASE AdmitDisabled
  BY <1>8, <1>i DEF AdmitDisabled
<1>9. CASE AdmitAllowed \/ LookUp \/ StartTurn \/ ModelAnswers \/ TurnFails
  BY <1>9, <1>p DEF AdmitAllowed, LookUp, StartTurn, ModelAnswers, TurnFails
<1>10. CASE AdmitFails \/ RecordNote
  <2>1. UNCHANGED <<place, copies, cur>> /\ Conclude("failed")
    BY <1>10 DEF AdmitFails, RecordNote
  <2> QED BY <1>c, <2>1
<1>11. CASE RecordAnswer
  <2>1. UNCHANGED <<place, copies, cur>> /\ (pc' = "reply" \/ Conclude("failed"))
    BY <1>11 DEF RecordAnswer
  <2> QED BY <1>c, <1>p, <2>1
<1>12. CASE SendReply
  <2>1. UNCHANGED <<place, cur>> /\ cur \in Mails
        /\ \/ Delivered(cur, entry) /\ Conclude("ok")
           \/ UNCHANGED copies /\ pc' = "markfailed"
           \/ Delivered(cur, entry) /\ pc' = "markfailed"
    BY <1>12, <1>t DEF SendReply
  <2>2. CASE UNCHANGED copies /\ pc' = "markfailed"
    BY <1>p, <2>1, <2>2
  <2>3. CASE Delivered(cur, entry)
    <3>1. copies'[cur] > 0 /\ \A m \in Mails : copies'[m] >= copies[m]
      BY <2>1, <2>3, MoreCopies
    <3>2. pc' # "markok"
      BY <2>1, Concluded
    <3> QED BY <1>q, <2>1, <3>1, <3>2
  <2> QED BY <2>1, <2>2, <2>3
<1>13. CASE MarkFailed
  <2>1. UNCHANGED <<place, copies, cur>> /\ (Conclude("undelivered") \/ Conclude("failed"))
    BY <1>13 DEF MarkFailed
  <2> QED BY <1>c, <2>1
<1>14. CASE Resend
  <2>1. UNCHANGED <<place, cur>> /\ cur \in Mails
        /\ (Delivered(cur, entry) \/ (UNCHANGED copies /\ Conclude("undelivered")))
    BY <1>14, <1>t DEF Resend
  <2>2. CASE UNCHANGED copies /\ Conclude("undelivered")
    BY <1>c, <2>1, <2>2
  <2>3. CASE Delivered(cur, entry)
    <3>1. copies'[cur] > 0 /\ \A m \in Mails : copies'[m] >= copies[m]
      BY <2>1, <2>3, MoreCopies
    <3> QED BY <1>q, <2>1, <3>1
  <2> QED BY <2>1, <2>2, <2>3
<1>15. CASE MarkOk
  <2>1. UNCHANGED <<place, copies, cur>> /\ copies[cur] > 0 /\ (Conclude("ok") \/ Conclude("failed"))
    BY <1>15, <1>i DEF MarkOk
  <2> QED BY <1>c, <2>1
<1> QED BY <1>1, <1>2, <1>3, <1>4, <1>5, <1>6, <1>7, <1>8, <1>9, <1>10, <1>11, <1>12, <1>13, <1>14, <1>15
    DEF Next, Adapter, Pipeline

\* A mail is filed as failed only after MAX_ATTEMPTS failures, and a message as handled only when
\* its sender, if entitled to one, has an answer: whatever fails in between, and however often
\* the process restarts, none is lost (_poll_once, dispatch_event).
THEOREM FoldersAreTrue == Spec => []FoldersTellTheEnd
<1>1. TypeOK /\ CountsFailures /\ HandledInv => FoldersTellTheEnd
  BY CountersAreNumbers DEF CountsFailures, HandledInv, Handled, Entitled, FiledAs, FoldersTellTheEnd, Failures
<1> QED BY TrailHolds, InitFailures, StepFailures, InitHandled, StepHandled, <1>1, PTL DEF Spec

-----------------------------------------------------------------------------
(* Taken for new. A message is handled as a new one while none of its attempts *)
(* is counted. Once it is past some stage of that, only a restart or a failed  *)
(* IMAP session brings it back to an earlier one.                              *)

Slips == Spent("crash") + Spent("imap")

Early    == {"admit", "lookup", "start"}
UpToTurn == Early \cup {"model"}

\* m is still to be handled as a new message, or is so now and no further than the stages.
Anew(m, stages) ==
    /\ attempts[m] = 0
    /\ \/ m \in found \cup batch
       \/ cur = m /\ pc \in stages
       \/ /\ place[m] \in {"away", "inbox"} /\ m \notin seen
          /\ ~(cur = m /\ pc \in Answering \cup Closing)

\* A question is repeated when its message is taken for new again, and not before.
NeverAsked(m) ==
    \A g \in Agents : \A i \in DOMAIN thread[Key(m, g)] : thread[Key(m, g)][i] # Human(m)

RepeatInv ==
    \A m \in Mails :
        /\ IsFiniteSet(Repetitions(m)) /\ Cardinality(Repetitions(m)) <= Slips
        /\ Anew(m, Early) => NeverAsked(m) \/ Cardinality(Repetitions(m)) + 1 <= Slips

LEMMA SlipsAreNumbers == ASSUME SpentInv PROVE Slips \in Nat
BY DEF SpentInv, Slips, Faults

LEMMA SlipCounted ==
  ASSUME TypeOK, SpentInv, Spend("crash") \/ Spend("imap")
  PROVE  Slips' = Slips + 1
<1>1. CASE Spend("crash")
  <2>1. Spent("crash")' = Spent("crash") + 1 /\ Spent("imap")' = Spent("imap")
    BY <1>1, SpendEffect DEF TypeOK, Faults
  <2> QED BY <2>1 DEF Slips, SpentInv, Faults
<1>2. CASE Spend("imap")
  <2>1. Spent("imap")' = Spent("imap") + 1 /\ Spent("crash")' = Spent("crash")
    BY <1>2, SpendEffect DEF TypeOK, Faults
  <2> QED BY <2>1 DEF Slips, SpentInv, Faults
<1> QED BY <1>1, <1>2

LEMMA NoSlip ==
  ASSUME TypeOK, UNCHANGED left \/ \E f \in Faults \ {"crash", "imap"} : Spend(f)
  PROVE  Slips' = Slips
<1>1. CASE UNCHANGED left
  BY <1>1 DEF Slips, Spent
<1>2. ASSUME NEW f \in Faults \ {"crash", "imap"}, Spend(f) PROVE Slips' = Slips
  BY <1>2, SpendEffect DEF TypeOK, Slips, Faults
<1> QED BY <1>1, <1>2

\* Nothing becomes new again, but for a slip.
LEMMA AnewAfter ==
  ASSUME TypeOK, SpentInv, TrailInv, HandledApart, [Next]_vars, NEW stages \in {Early, UpToTurn}
  PROVE  \/ Slips' = Slips + 1
         \/ Slips' = Slips /\ \A m \in Mails : Anew(m, stages)' => Anew(m, stages)
<1> USE DEF mailboxVars, adminVars, storeVars, memoryVars, worldVars
<1>p. {"admit", "lookup", "start"} \subseteq stages /\ stages \subseteq {"admit", "lookup", "start", "model"}
  BY DEF Early, UpToTurn
<1>a. attempts \in [Mails -> Nat] /\ (pc \notin {"idle", "fetch", "batch"} => cur \in Mails)
  BY DEF TypeOK
<1>1. CASE Environment
  <2>1. UNCHANGED memoryVars /\ (UNCHANGED left \/ Spend("human") \/ Spend("admin"))
    BY <1>1 DEF Environment, Arrive, HumanReads, Grant, Deny, Withdraw, Reactivate, SelectAgent, ToggleAgent
  <2>2. seen \subseteq seen'
    BY <1>1 DEF Environment, Arrive, HumanReads, Grant, Deny, Withdraw, Reactivate, SelectAgent, ToggleAgent
  <2>3. \A m \in Mails : place'[m] \in {"away", "inbox"} => place[m] \in {"away", "inbox"}
    BY <1>1 DEF Environment, Arrive, HumanReads, Grant, Deny, Withdraw, Reactivate, SelectAgent, ToggleAgent, TypeOK
  <2>4. \A m \in Mails : Anew(m, stages)' => Anew(m, stages)
    BY <2>1, <2>2, <2>3 DEF Anew
  <2> QED BY <2>1, <2>4, NoSlip DEF Faults
<1>2. CASE StartPoll
  <2>1. found' \subseteq {m \in Mails : place[m] = "inbox" /\ m \notin seen} /\ pc = "idle" /\ pc' = "fetch"
        /\ UNCHANGED <<left, attempts, batch, cur, place, seen>>
    BY <1>2 DEF StartPoll
  <2>2. \A m \in Mails : Anew(m, stages)' => Anew(m, stages)
    BY <1>p, <2>1 DEF Anew, Answering, Closing
  <2> QED BY <2>1, <2>2, NoSlip
<1>3. CASE FetchNext
  <2>1. PICK m \in Mails :
           /\ Least(found, m)
           /\ found' = found \ {m}
           /\ batch' \subseteq batch \cup {m}
           /\ \/ MarkSeenAndFile(m, "agent") /\ UNCHANGED left
              \/ MarkSeenOnly(m)
              \/ FlagRefused(m, "agent")
              \/ UNCHANGED mailboxVars /\ (Spend("imap") \/ UNCHANGED left)
    BY <1>3 DEF FetchNext
  <2>2. pc = "fetch" /\ pc' = "fetch" /\ UNCHANGED <<attempts, cur>> /\ m \in found
    BY <1>3, <2>1 DEF FetchNext, Least
  <2>3. \A k \in Mails :
           /\ k \notin seen' => k \notin seen
           /\ place'[k] \in {"away", "inbox"} => place[k] \in {"away", "inbox"}
    BY <2>1 DEF MarkSeenAndFile, MarkSeenOnly, FlagRefused, TypeOK
  <2>4. \A k \in Mails : k \in found' \cup batch' => k \in found \cup batch
    BY <2>1, <2>2
  <2>5. \A k \in Mails : Anew(k, stages)' => Anew(k, stages)
    BY <1>p, <2>2, <2>3, <2>4 DEF Anew, Answering, Closing
  <2> QED BY <2>1, <2>5, NoSlip, SlipCounted DEF MarkSeenOnly, FlagRefused
<1>4. CASE EndFetch \/ EndPoll
  <2>1. /\ UNCHANGED <<left, attempts, found, batch, cur, place, seen>>
        /\ pc \in {"idle", "fetch", "batch"} /\ pc' \in {"idle", "fetch", "batch"}
    BY <1>4 DEF EndFetch, EndPoll
  <2>2. \A m \in Mails : Anew(m, stages)' => Anew(m, stages)
    BY <1>p, <2>1 DEF Anew, Answering, Closing
  <2> QED BY <2>1, <2>2, NoSlip
<1>5. CASE PollFails \/ Crash
  BY <1>5, SlipCounted DEF PollFails, Crash
<1>6. CASE NextMail
  <2>1. PICK m \in Mails : Least(batch, m) /\ cur' = m /\ batch' = batch \ {m}
    BY <1>6 DEF NextMail
  <2>2. pc = "batch" /\ pc' = "admit" /\ UNCHANGED <<place, seen, attempts, found, left>> /\ m \in batch
    BY <1>6, <2>1 DEF NextMail, Least
  <2>3. \A k \in Mails : Anew(k, stages)' => Anew(k, stages)
    BY <1>p, <2>1, <2>2 DEF Anew, Answering, Closing
  <2> QED BY <2>2, <2>3, NoSlip
<1>7. CASE File
  <2>1. CASE MarkSeenAndFile(cur, target) /\ UNCHANGED left
    <3>1. /\ pc = "file" /\ pc' = "batch" /\ UNCHANGED <<cur, found, batch, attempts>>
          /\ seen' = seen \cup {cur} /\ target \in {"agent", "failed"}
      BY <1>7, <2>1 DEF File, MarkSeenAndFile, TypeOK
    <3>2. \A k \in Mails : place'[k] \in {"away", "inbox"} => place[k] \in {"away", "inbox"}
      BY <2>1, <3>1 DEF MarkSeenAndFile, TypeOK
    <3>3. \A k \in Mails : Anew(k, stages)' => Anew(k, stages)
      BY <1>p, <3>1, <3>2 DEF Anew, Answering, Closing
    <3> QED BY <2>1, <3>3, NoSlip
  <2>2. CASE Spend("imap")
    BY <2>2, SlipCounted
  <2> QED BY <1>7, <2>1, <2>2 DEF File, MarkSeenOnly, FlagRefused
<1>8. CASE Pipeline
  <2>1. /\ pc \in Answering \cup {"markok"} /\ cur \in Mails
        /\ UNCHANGED <<place, seen, found, batch, cur>>
        /\ \/ UNCHANGED attempts /\ pc' \in Answering \cup {"markok"} /\ (pc' \in stages => pc \in stages)
           \/ \E o : Conclude(o)
    <3>1. CASE AdmitDenied \/ AdmitDisabled \/ AdmitAllowed \/ AdmitFails
      BY <1>a, <1>p, <3>1 DEF AdmitDenied, AdmitDisabled, AdmitAllowed, AdmitFails, Answering
    <3>2. CASE LookUp \/ StartTurn \/ ModelAnswers \/ TurnFails
      BY <1>a, <1>p, <3>2 DEF LookUp, StartTurn, ModelAnswers, TurnFails, Answering
    <3>3. CASE RecordNote \/ RecordAnswer \/ SendReply
      BY <1>a, <1>p, <3>3 DEF RecordNote, RecordAnswer, SendReply, Answering
    <3>4. CASE MarkFailed \/ Resend \/ MarkOk
      BY <1>a, <1>p, <3>4 DEF MarkFailed, Resend, MarkOk, Answering
    <3> QED BY <1>8, <3>1, <3>2, <3>3, <3>4 DEF Pipeline
  <2>2. UNCHANGED left \/ Spend("db") \/ Spend("model") \/ Spend("smtp") \/ Spend("lost")
    BY <1>8 DEF Pipeline, AdmitDenied, AdmitDisabled, AdmitAllowed, AdmitFails, LookUp, StartTurn,
       ModelAnswers, TurnFails, RecordNote, RecordAnswer, SendReply, MarkFailed, Resend, MarkOk
  <2>3. ASSUME NEW m \in Mails, Anew(m, stages)' PROVE Anew(m, stages)
    <3>1. CASE m # cur
      <4>1. attempts'[m] = attempts[m]
        BY <1>a, <2>1, <3>1 DEF Conclude
      <4> QED BY <2>1, <2>3, <3>1, <4>1 DEF Anew
    <3>2. CASE m = cur
      <4>1. m \notin found \cup batch
        BY <2>1, <3>2 DEF HandledApart, Answering, Closing
      <4>2. CASE UNCHANGED attempts /\ pc' \in Answering \cup {"markok"} /\ (pc' \in stages => pc \in stages)
        BY <2>1, <2>3, <3>2, <4>1, <4>2 DEF Anew, Closing
      <4>3. CASE \E o : Conclude(o)
        <5>1. attempts'[cur] > 0 \/ pc' = "file"
          BY <1>a, <2>1, <4>3 DEF Conclude
        <5>2. ~Anew(m, stages)'
          BY <1>a, <1>p, <2>1, <3>2, <4>1, <5>1 DEF Anew, Closing
        <5> QED BY <2>3, <5>2
      <4> QED BY <2>1, <4>2, <4>3
    <3> QED BY <3>1, <3>2
  <2> QED BY <2>2, <2>3, NoSlip DEF Faults
<1>9. CASE UNCHANGED vars
  BY <1>9, NoSlip DEF vars, Anew
<1> QED
  BY <1>1, <1>2, <1>3, <1>4, <1>5, <1>6, <1>7, <1>8, <1>9 DEF Next, Adapter

LEMMA TwiceKept ==
  ASSUME NEW s \in Seq(Message), NEW e \in Message, NEW m \in Mails, e # Human(m)
  PROVE  Twice(Append(s, e), m) = Twice(s, m)
<1>1. /\ Len(s) \in Nat /\ Len(Append(s, e)) = Len(s) + 1 /\ Append(s, e)[Len(s) + 1] = e
      /\ \A i \in 1..Len(s) : Append(s, e)[i] = s[i]
  OBVIOUS
<1> DEFINE t == Append(s, e)
<1> HIDE DEF t
<1>2. Len(t) = Len(s) + 1 /\ t[Len(s) + 1] # Human(m) /\ \A i \in 1..Len(s) : t[i] = s[i]
  BY <1>1 DEF t
<1>3. \A i : i \in Twice(t, m) <=> i \in Twice(s, m)
  BY <1>1, <1>2 DEF Twice
<1>4. Twice(t, m) = Twice(s, m)
  BY <1>3
<1> QED BY <1>4 DEF t

LEMMA TwiceMore ==
  ASSUME NEW s \in Seq(Message), NEW m \in Mails
  PROVE  /\ Twice(Append(s, Human(m)), m) \subseteq Twice(s, m) \cup {Len(s)}
         /\ s = <<>> \/ s[Len(s)] # Human(m) => Twice(Append(s, Human(m)), m) = Twice(s, m)
<1>0. Human(m) \in Message
  BY DEF Human, Message
<1> DEFINE t == Append(s, Human(m))
<1>1. /\ Len(s) \in Nat /\ Len(t) = Len(s) + 1 /\ \A i \in 1..Len(s) : t[i] = s[i]
  BY <1>0
<1> HIDE DEF t
<1>2. \A i : i \in Twice(t, m) => i \in Twice(s, m) \/ i = Len(s)
  BY <1>1 DEF Twice
<1>3. \A i : i \in Twice(s, m) => i \in Twice(t, m)
  BY <1>1 DEF Twice
<1>4. ASSUME s = <<>> \/ s[Len(s)] # Human(m), NEW i \in Twice(t, m) PROVE i \in Twice(s, m)
  <2>1. i \in 1..Len(s) /\ t[i] = Human(m)
    BY <1>1 DEF Twice
  <2>2. s # <<>>
    BY <2>1
  <2>3. i # Len(s)
    BY <1>1, <1>4, <2>1, <2>2
  <2> QED BY <1>2, <2>3
<1>5. s = <<>> \/ s[Len(s)] # Human(m) => Twice(t, m) = Twice(s, m)
  BY <1>3, <1>4
<1> QED BY <1>2, <1>5 DEF t

LEMMA AppendAvoids ==
  ASSUME NEW s \in Seq(Message), NEW e \in Message, NEW x, e # x, \A i \in DOMAIN s : s[i] # x
  PROVE  \A i \in DOMAIN Append(s, e) : Append(s, e)[i] # x
OBVIOUS

LEMMA RepetitionsAfter ==
  ASSUME NEW m \in Mails
  PROVE  Repetitions(m)' = UNION {{g} \X Twice(thread'[Key(m, g)], m) : g \in Agents}
BY DEF Repetitions, Key, Twice, Human

LEMMA SameRepetitions ==
  ASSUME NEW m \in Mails,
         \A g \in Agents : Twice(thread'[Key(m, g)], m) = Twice(thread[Key(m, g)], m)
  PROVE  Repetitions(m)' = Repetitions(m)
<1>1. \A g \in Agents : {g} \X Twice(thread'[Key(m, g)], m) = {g} \X Twice(thread[Key(m, g)], m)
  OBVIOUS
<1>2. {{g} \X Twice(thread'[Key(m, g)], m) : g \in Agents} = {{g} \X Twice(thread[Key(m, g)], m) : g \in Agents}
  BY <1>1
<1> QED BY <1>2, RepetitionsAfter DEF Repetitions

LEMMA InitRepeats == Init => RepeatInv
<1> SUFFICES ASSUME Init, NEW m \in Mails PROVE
        /\ IsFiniteSet(Repetitions(m)) /\ Cardinality(Repetitions(m)) <= Slips
        /\ NeverAsked(m)
  BY DEF RepeatInv
<1>1. \A g \in Agents : thread[Key(m, g)] = <<>>
  BY ConstantsAssumption DEF Init, Key
<1>2. \A g \in Agents : Twice(thread[Key(m, g)], m) = {}
  BY <1>1 DEF Twice
<1>3. Repetitions(m) = {}
  BY <1>2 DEF Repetitions
<1>4. Slips \in Nat
  BY InitSpent, SlipsAreNumbers
<1> QED BY <1>1, <1>3, <1>4, FS_EmptySet DEF NeverAsked

\* No step but StartTurn asks anything.
LEMMA ThreadsOnly ==
  ASSUME TypeOK, [Next]_vars, ~StartTurn, NEW m \in Mails
  PROVE  Repetitions(m)' = Repetitions(m) /\ (NeverAsked(m) => NeverAsked(m)')
<1> USE DEF mailboxVars, adminVars, storeVars, memoryVars, worldVars
<1>k. Sender \in [Mails -> Addresses] /\ thread \in [Addresses \X Agents -> Seq(Message)] /\ agent \in Agents
  BY ConstantsAssumption DEF TypeOK
<1>1. CASE UNCHANGED thread
  <2>1. \A g \in Agents : thread'[Key(m, g)] = thread[Key(m, g)]
    BY <1>1
  <2>2. Repetitions(m)' = Repetitions(m)
    BY <2>1, SameRepetitions
  <2>3. NeverAsked(m) => NeverAsked(m)'
    BY <2>1 DEF NeverAsked, Key, Human
  <2> QED BY <2>2, <2>3
<1>2. CASE ModelAnswers
  <2>1. cur \in Mails /\ Reply(cur) \in Message /\ Reply(cur) # Human(m) /\ Key(cur, agent) \in Addresses \X Agents
    BY <1>2, <1>k DEF ModelAnswers, TypeOK, Reply, Human, Message, Key
  <2>2. thread' = [thread EXCEPT ![Key(cur, agent)] = Append(thread[Key(cur, agent)], Reply(cur))]
    BY <1>2 DEF ModelAnswers
  <2>3. ASSUME NEW g \in Agents
        PROVE  /\ thread[Key(m, g)] \in Seq(Message)
               /\ \/ thread'[Key(m, g)] = thread[Key(m, g)]
                  \/ thread'[Key(m, g)] = Append(thread[Key(m, g)], Reply(cur))
    <3>1. Key(m, g) \in Addresses \X Agents
      BY <1>k DEF Key
    <3> QED BY <1>k, <2>1, <2>2, <3>1
  <2>4. \A g \in Agents : Twice(thread'[Key(m, g)], m) = Twice(thread[Key(m, g)], m)
    BY <2>1, <2>3, TwiceKept
  <2>5. Repetitions(m)' = Repetitions(m)
    BY <2>4, SameRepetitions
  <2>6. ASSUME NeverAsked(m), NEW g \in Agents, NEW i \in DOMAIN thread'[Key(m, g)]
        PROVE  thread'[Key(m, g)][i] # Human(m)
    <3> DEFINE s == thread[Key(m, g)]
    <3>1. s \in Seq(Message) /\ \A j \in DOMAIN s : s[j] # Human(m)
      BY <2>3, <2>6 DEF NeverAsked
    <3>2. thread'[Key(m, g)] = s \/ thread'[Key(m, g)] = Append(s, Reply(cur))
      BY <2>3
    <3> HIDE DEF s
    <3> QED BY <2>1, <2>6, <3>1, <3>2, AppendAvoids
  <2> QED BY <2>5, <2>6 DEF NeverAsked, Key, Human
<1>3. [Next]_vars => UNCHANGED thread \/ StartTurn \/ ModelAnswers
  BY DEF Next, vars, Adapter, Environment, Pipeline, Crash, Arrive, HumanReads, Grant, Deny, Withdraw,
     Reactivate, SelectAgent, ToggleAgent, StartPoll, FetchNext, EndFetch, PollFails, NextMail, EndPoll,
     File, AdmitDenied, AdmitDisabled, AdmitAllowed, AdmitFails, LookUp, TurnFails, RecordNote,
     RecordAnswer, SendReply, MarkFailed, Resend, MarkOk
<1> QED BY <1>1, <1>2, <1>3

\* A question is stored again right after itself only if it was asked before and its
\* message is taken for new.
LEMMA TurnRepeats ==
  ASSUME TypeOK, TrailInv, StartTurn, NEW m \in Mails, IsFiniteSet(Repetitions(m))
  PROVE  /\ IsFiniteSet(Repetitions(m)')
         /\ m # cur \/ retry \/ NeverAsked(m) => Repetitions(m)' = Repetitions(m)
         /\ m # cur /\ NeverAsked(m) => NeverAsked(m)'
         /\ Cardinality(Repetitions(m)') <= Cardinality(Repetitions(m)) + 1
<1> DEFINE K == Key(cur, agent)
           h == thread[K]
<1>k. /\ Sender \in [Mails -> Addresses] /\ thread \in [Addresses \X Agents -> Seq(Message)]
      /\ agent \in Agents /\ cur \in Mails /\ K \in Addresses \X Agents /\ h \in Seq(Message)
      /\ Human(cur) \in Message
  BY ConstantsAssumption DEF TypeOK, StartTurn, Key, Human, Message
<1>1. thread' = [thread EXCEPT ![K] = IF AlreadyAsked(h, cur) THEN h ELSE Append(h, Human(cur))]
  BY DEF StartTurn
<1>u. UNCHANGED <<cur, agent>>
  BY DEF StartTurn
<1> HIDE DEF K, h
<1>2. ASSUME NEW g \in Agents
      PROVE  /\ thread[Key(m, g)] \in Seq(Message)
             /\ \/ thread'[Key(m, g)] = thread[Key(m, g)]
                \/ /\ Key(m, g) = K /\ g = agent /\ ~AlreadyAsked(h, cur)
                   /\ thread'[Key(m, g)] = Append(thread[Key(m, g)], Human(cur))
  <2>1. Key(m, g) \in Addresses \X Agents
    BY <1>k DEF Key
  <2>2. Key(m, g) = K => g = agent
    BY DEF Key, K
  <2>3. thread[Key(m, g)] \in Seq(Message)
    BY <1>k, <2>1
  <2>4. CASE Key(m, g) # K
    BY <1>k, <1>1, <2>1, <2>3, <2>4
  <2>5. CASE Key(m, g) = K
    <3>1. thread'[K] = IF AlreadyAsked(h, cur) THEN h ELSE Append(h, Human(cur))
      BY <1>k, <1>1
    <3> QED BY <2>2, <2>3, <2>5, <3>1 DEF h
  <2> QED BY <2>4, <2>5
<1>3. CASE m # cur
  <2>1. Human(cur) # Human(m)
    BY <1>3 DEF Human
  <2>2. \A g \in Agents : Twice(thread'[Key(m, g)], m) = Twice(thread[Key(m, g)], m)
    <3> SUFFICES ASSUME NEW g \in Agents
                 PROVE  Twice(thread'[Key(m, g)], m) = Twice(thread[Key(m, g)], m)
      OBVIOUS
    <3> DEFINE s == thread[Key(m, g)]
    <3>1. s \in Seq(Message) /\ (thread'[Key(m, g)] = s \/ thread'[Key(m, g)] = Append(s, Human(cur)))
      BY <1>2
    <3> HIDE DEF s
    <3>2. Twice(Append(s, Human(cur)), m) = Twice(s, m)
      BY <1>k, <2>1, <3>1, TwiceKept
    <3>3. Twice(thread'[Key(m, g)], m) = Twice(s, m)
      BY <3>1, <3>2
    <3> QED BY <3>3 DEF s
  <2>3. Repetitions(m)' = Repetitions(m)
    BY <2>2, SameRepetitions
  <2>4. ASSUME NeverAsked(m), NEW g \in Agents, NEW i \in DOMAIN thread'[Key(m, g)]
        PROVE  thread'[Key(m, g)][i] # Human(m)
    <3> DEFINE s == thread[Key(m, g)]
    <3>1. s \in Seq(Message) /\ \A j \in DOMAIN s : s[j] # Human(m)
      BY <1>2, <2>4 DEF NeverAsked
    <3>2. thread'[Key(m, g)] = s \/ thread'[Key(m, g)] = Append(s, Human(cur))
      BY <1>2
    <3> HIDE DEF s
    <3> QED BY <1>k, <2>1, <2>4, <3>1, <3>2, AppendAvoids
  <2>5. Cardinality(Repetitions(m)) \in Nat
    BY FS_CardinalityType
  <2> QED BY <1>3, <2>3, <2>4, <2>5 DEF NeverAsked, Key, Human
<1>4. CASE m = cur
  <2>1. \A g \in Agents : Twice(thread'[Key(m, g)], m) \subseteq
                            Twice(thread[Key(m, g)], m) \cup (IF g = agent THEN {Len(h)} ELSE {})
    <3> SUFFICES ASSUME NEW g \in Agents
                 PROVE  Twice(thread'[Key(m, g)], m) \subseteq
                            Twice(thread[Key(m, g)], m) \cup (IF g = agent THEN {Len(h)} ELSE {})
      OBVIOUS
    <3>1. CASE thread'[Key(m, g)] = thread[Key(m, g)]
      BY <3>1
    <3>2. CASE Key(m, g) = K /\ g = agent /\ thread'[Key(m, g)] = Append(thread[Key(m, g)], Human(cur))
      <4>1. thread[Key(m, g)] = h
        BY <3>2 DEF h
      <4> QED BY <1>4, <1>k, <3>2, <4>1, TwiceMore
    <3> QED BY <1>2, <3>1, <3>2
  <2>2. Repetitions(m)' \subseteq Repetitions(m) \cup {<<agent, Len(h)>>}
    <3>1. Repetitions(m)' = UNION {{g} \X Twice(thread'[Key(m, g)], m) : g \in Agents}
      BY RepetitionsAfter
    <3> SUFFICES ASSUME NEW g \in Agents, NEW p \in {g} \X Twice(thread'[Key(m, g)], m)
                 PROVE  p \in Repetitions(m) \cup {<<agent, Len(h)>>}
      BY <3>1
    <3>2. p = <<g, p[2]>> /\ p[2] \in Twice(thread'[Key(m, g)], m)
      OBVIOUS
    <3>3. CASE p[2] \in Twice(thread[Key(m, g)], m)
      <4>1. p \in {g} \X Twice(thread[Key(m, g)], m)
        BY <3>2, <3>3
      <4> QED BY <4>1 DEF Repetitions
    <3>4. CASE g = agent /\ p[2] = Len(h)
      BY <3>2, <3>4
    <3> QED BY <2>1, <3>2, <3>3, <3>4
  <2>3. /\ IsFiniteSet(Repetitions(m)')
        /\ Cardinality(Repetitions(m)') <= Cardinality(Repetitions(m)) + 1
    <3> DEFINE x == <<agent, Len(h)>>
               R == Repetitions(m)
               Rp == Repetitions(m)'
    <3>1. Rp \subseteq R \cup {x}
      BY <2>2
    <3> HIDE DEF x, R, Rp
    <3>2. IsFiniteSet(R)
      BY DEF R
    <3>3. IsFiniteSet(R \cup {x}) /\ Cardinality(R \cup {x}) <= Cardinality(R) + 1 /\ Cardinality(R) \in Nat
      <4>1. Cardinality(R) \in Nat
        BY <3>2, FS_CardinalityType
      <4>2. /\ IsFiniteSet(R \cup {x})
            /\ Cardinality(R \cup {x}) = IF x \in R THEN Cardinality(R) ELSE Cardinality(R) + 1
        BY <3>2, FS_AddElement
      <4> QED BY <4>1, <4>2
    <3>4. IsFiniteSet(Rp) /\ Cardinality(Rp) <= Cardinality(R \cup {x})
          /\ Cardinality(Rp) \in Nat /\ Cardinality(R \cup {x}) \in Nat
      BY <3>1, <3>3, FS_Subset, FS_CardinalityType
    <3> QED BY <3>3, <3>4 DEF R, Rp
  <2>4. ASSUME retry \/ NeverAsked(m) PROVE Repetitions(m)' = Repetitions(m)
    <3>1. ~AlreadyAsked(h, cur) => h = <<>> \/ h[Len(h)] # Human(cur)
      <4>1. CASE retry
        <5>1. ~AlreadyAsked(h, cur) => h = <<>> \/ ~(h[Len(h)].role = "human" /\ Text[h[Len(h)].mail] = Text[cur])
          BY <4>1 DEF AlreadyAsked
        <5>2. Human(cur).role = "human" /\ Human(cur).mail = cur
          BY DEF Human
        <5> QED BY <5>1, <5>2
      <4>2. CASE NeverAsked(m)
        <5>1. \A i \in DOMAIN h : h[i] # Human(cur)
          BY <1>4, <1>k, <4>2 DEF NeverAsked, h, K
        <5>2. h # <<>> => Len(h) \in DOMAIN h
          BY <1>k
        <5> QED BY <5>1, <5>2
      <4> QED BY <2>4, <4>1, <4>2
    <3>2. \A g \in Agents : Twice(thread'[Key(m, g)], m) = Twice(thread[Key(m, g)], m)
      <4> SUFFICES ASSUME NEW g \in Agents
                   PROVE  Twice(thread'[Key(m, g)], m) = Twice(thread[Key(m, g)], m)
        OBVIOUS
      <4>1. CASE thread'[Key(m, g)] = thread[Key(m, g)]
        BY <4>1
      <4>2. CASE /\ Key(m, g) = K /\ ~AlreadyAsked(h, cur)
                 /\ thread'[Key(m, g)] = Append(thread[Key(m, g)], Human(cur))
        <5>1. thread[Key(m, g)] = h
          BY <4>2 DEF h
        <5> QED BY <1>4, <1>k, <3>1, <4>2, <5>1, TwiceMore
      <4> QED BY <1>2, <4>1, <4>2
    <3> QED BY <3>2, SameRepetitions
  <2> QED BY <1>4, <2>3, <2>4
<1> QED BY <1>3, <1>4

LEMMA StepRepeats ==
  ASSUME TypeOK, SpentInv, TrailInv, CountsCopies, RepeatInv, [Next]_vars
  PROVE  RepeatInv'
<1> SUFFICES ASSUME NEW m \in Mails
             PROVE  /\ IsFiniteSet(Repetitions(m)') /\ Cardinality(Repetitions(m)') <= Slips'
                    /\ Anew(m, Early)' => NeverAsked(m)' \/ Cardinality(Repetitions(m)') + 1 <= Slips'
  BY DEF RepeatInv, Early
<1>h. HandledApart
  BY DEF CountsCopies, HandledApart
<1>s. \/ Slips' = Slips + 1
      \/ Slips' = Slips /\ (Anew(m, Early)' => Anew(m, Early))
  BY <1>h, AnewAfter
<1>n. Slips \in Nat
  BY SlipsAreNumbers
<1>r. /\ IsFiniteSet(Repetitions(m)) /\ Cardinality(Repetitions(m)) <= Slips
      /\ Cardinality(Repetitions(m)) \in Nat
      /\ Anew(m, Early) => NeverAsked(m) \/ Cardinality(Repetitions(m)) + 1 <= Slips
  BY FS_CardinalityType DEF RepeatInv
<1>1. CASE ~StartTurn
  <2>1. Repetitions(m)' = Repetitions(m) /\ (NeverAsked(m) => NeverAsked(m)')
    BY <1>1, ThreadsOnly
  <2> QED BY <1>s, <1>n, <1>r, <2>1
<1>2. CASE StartTurn /\ m # cur
  <2>1. Repetitions(m)' = Repetitions(m) /\ (NeverAsked(m) => NeverAsked(m)')
    BY <1>2, <1>r, TurnRepeats
  <2> QED BY <1>s, <1>n, <1>r, <2>1
<1>3. CASE StartTurn /\ m = cur
  <2>1. /\ pc = "start" /\ pc' = "model" /\ UNCHANGED <<left, attempts, found, batch, cur>>
    BY <1>3 DEF StartTurn
  <2>2. ~Anew(m, Early)'
    BY <1>3, <1>h, <2>1 DEF HandledApart, Anew, Early, Answering, Closing
  <2>3. Slips' = Slips
    BY <2>1, NoSlip
  <2>4. IsFiniteSet(Repetitions(m)')
    BY <1>3, <1>r, TurnRepeats
  <2>5. CASE retry \/ NeverAsked(m)
    <3>1. Repetitions(m)' = Repetitions(m)
      BY <1>3, <1>r, <2>5, TurnRepeats
    <3> QED BY <1>n, <1>r, <2>2, <2>3, <2>4, <3>1
  <2>6. CASE ~retry /\ ~NeverAsked(m)
    <3>1. attempts[m] = 0
      BY <1>3, <2>1, <2>6 DEF TrailInv, Answering, TypeOK
    <3>2. Anew(m, Early)
      BY <1>3, <2>1, <3>1 DEF Anew, Early
    <3>3. Cardinality(Repetitions(m)) + 1 <= Slips
      BY <1>r, <2>6, <3>2
    <3>4. Cardinality(Repetitions(m)') <= Cardinality(Repetitions(m)) + 1
          /\ Cardinality(Repetitions(m)') \in Nat
      BY <1>3, <1>r, <2>4, TurnRepeats, FS_CardinalityType
    <3> QED BY <1>n, <1>r, <2>2, <2>3, <2>4, <3>3, <3>4
  <2> QED BY <2>5, <2>6
<1> QED BY <1>1, <1>2, <1>3

LEMMA RepeatsHold == Spec => [](TypeOK /\ SpentInv /\ TrailInv /\ CountsCopies /\ RepeatInv)
<1> QED BY InitType, TypeStep, InitSpent, StepSpent, InitTrail, StepTrail, InitCopies, StepCopies,
           InitRepeats, StepRepeats, PTL DEF Spec

\* However its attempts fail, a question is stored right after itself at most once for each
\* restart and each IMAP session that failed (run_turn, _finalize_message).
THEOREM QuestionsAreAskedOnce == Spec => []NoRepeatedQuestion
<1>1. SpentInv /\ RepeatInv => NoRepeatedQuestion
  BY DEF RepeatInv, NoRepeatedQuestion, Slips
<1> QED BY RepeatsHold, <1>1, PTL

-----------------------------------------------------------------------------
(* The kept answer. While turns and commits succeed and nobody changes a       *)
(* right, the attempts of a message that no other can be mistaken for fail in  *)
(* its delivery only: its newest entry is followed by its answer, marked as    *)
(* failed, and the retry finds it.                                             *)

Known(m) == Unmistakable(m) /\ InSight(User(m))

Newest(i, m) ==
    /\ Own(i, m) /\ log[i].agent = Default
    /\ \A j \in DOMAIN log : i < j => ~Own(j, m)

Answer(k, m) ==
    /\ k \in DOMAIN log /\ log[k].dir = "out" /\ log[k].user = User(m)
    /\ log[k].agent = Default /\ log[k].text = Text[m] /\ log[k].answer

Kept(m) ==
    \E i \in DOMAIN log : Newest(i, m) /\ Answer(i + 1, m) /\ log[i + 1].status = "failed"

Arrived ==
    /\ \A m \in found \cup batch : place[m] # "away"
    /\ pc \in Answering \cup Closing => place[cur] # "away"

Calm == Spent("model") = 0 /\ Spent("db") = 0 /\ Spent("admin") = 0

Unchanged ==
    /\ \A a \in Addresses : selected[a] = Default /\ access[a] \in {"unknown", "allowed"}
    /\ disabled = {} /\ agent = Default
    /\ pc # "note"
    /\ \A i \in DOMAIN log : log[i].agent = Default /\ log[i].status # "denied"

KeptInv ==
    Calm =>
        /\ Unchanged
        /\ pc \in {"start", "model", "record"} /\ Known(cur) =>
             ~retry /\ Len(log) \in DOMAIN log /\ Newest(Len(log), cur)
        /\ pc \in {"reply", "markfailed"} /\ Known(cur) =>
             \E i \in DOMAIN log : entry = i + 1 /\ Newest(i, cur) /\ Answer(i + 1, cur)
        /\ \A m \in Mails : attempts[m] > 0 /\ Known(m) => Kept(m)

TurnInv ==
    Calm => \A m \in Mails : Known(m) =>
        /\ turns[m] <= Slips + 1
        /\ Anew(m, UpToTurn) => turns[m] <= Slips

LEMMA InitKept == Init => Arrived /\ KeptInv /\ TurnInv
<1> SUFFICES ASSUME Init PROVE Arrived /\ KeptInv /\ TurnInv
  OBVIOUS
<1>1. Arrived
  BY DEF Init, FreshProcess, Arrived, Answering, Closing
<1>2. Unchanged
  BY ConstantsAssumption DEF Init, FreshProcess, Unchanged
<1>3. KeptInv
  BY <1>2 DEF Init, FreshProcess, KeptInv
<1>4. Slips \in Nat
  BY InitSpent, SlipsAreNumbers
<1>5. TurnInv
  BY <1>4 DEF Init, TurnInv
<1> QED BY <1>1, <1>3, <1>5

LEMMA StepArrived ==
  ASSUME TypeOK, HandledApart, Arrived, [Next]_vars
  PROVE  Arrived' /\ \A m \in Mails : place[m] # "away" => place'[m] # "away"
<1> USE DEF mailboxVars, adminVars, storeVars, memoryVars, worldVars
<1>p. place \in [Mails -> {"away", "inbox", "agent", "failed"}] /\ target \in {"agent", "failed"}
      /\ found \subseteq Mails /\ batch \subseteq Mails
      /\ (pc \notin {"idle", "fetch", "batch"} => cur \in Mails)
  BY DEF TypeOK
<1>1. \A m \in Mails : place[m] # "away" => place'[m] # "away"
  <2>1. Environment => UNCHANGED place \/ \E k \in Mails : place' = [place EXCEPT ![k] = "inbox"]
    BY DEF Environment, Arrive, HumanReads, Grant, Deny, Withdraw, Reactivate, SelectAgent, ToggleAgent
  <2>2. FetchNext => UNCHANGED place \/ \E k \in Mails : place' = [place EXCEPT ![k] = IF Filing THEN "agent" ELSE @]
    BY DEF FetchNext, MarkSeenAndFile, MarkSeenOnly, FlagRefused
  <2>3. File => UNCHANGED place \/ place' = [place EXCEPT ![cur] = IF Filing THEN target ELSE @]
    BY DEF File, MarkSeenAndFile, MarkSeenOnly, FlagRefused
  <2>4. StartPoll \/ EndFetch \/ PollFails \/ NextMail \/ EndPoll \/ Crash => UNCHANGED place
    BY DEF StartPoll, EndFetch, PollFails, NextMail, EndPoll, Crash
  <2>5. Pipeline => UNCHANGED place
    BY DEF Pipeline, AdmitDenied, AdmitDisabled, AdmitAllowed, AdmitFails, LookUp, StartTurn,
       ModelAnswers, TurnFails, RecordNote, RecordAnswer, SendReply, MarkFailed, Resend, MarkOk
  <2>6. UNCHANGED vars => UNCHANGED place
    BY DEF vars
  <2> QED BY <1>p, <2>1, <2>2, <2>3, <2>4, <2>5, <2>6 DEF Next, Adapter
<1>2. \A m \in found' \cup batch' : place'[m] # "away"
  <2>1. \/ found' \cup batch' \subseteq found \cup batch
        \/ found' \subseteq {m \in Mails : place[m] = "inbox"} /\ UNCHANGED batch
    <3>1. Environment \/ UNCHANGED vars => UNCHANGED <<found, batch>>
      BY DEF Environment, Arrive, HumanReads, Grant, Deny, Withdraw, Reactivate, SelectAgent,
         ToggleAgent, vars
    <3>2. Pipeline \/ EndFetch \/ EndPoll \/ File => UNCHANGED <<found, batch>>
      BY DEF Pipeline, AdmitDenied, AdmitDisabled, AdmitAllowed, AdmitFails, LookUp, StartTurn,
         ModelAnswers, TurnFails, RecordNote, RecordAnswer, SendReply, MarkFailed, Resend, MarkOk,
         EndFetch, EndPoll, File
    <3>3. StartPoll => found' \subseteq {m \in Mails : place[m] = "inbox"} /\ UNCHANGED batch
      BY DEF StartPoll
    <3>4. FetchNext \/ NextMail \/ PollFails \/ Crash => found' \cup batch' \subseteq found \cup batch
      BY DEF FetchNext, NextMail, PollFails, Crash, Least
    <3> QED BY <3>1, <3>2, <3>3, <3>4 DEF Next, Adapter
  <2> QED BY <1>1, <1>p, <2>1 DEF Arrived
<1>3. pc' \in Answering \cup Closing => place'[cur'] # "away"
  <2>1. pc' \in Answering \cup Closing =>
           \/ pc \in Answering \cup Closing /\ UNCHANGED cur
           \/ cur' \in batch
    <3>1. Environment \/ UNCHANGED vars => UNCHANGED <<pc, cur>>
      BY DEF Environment, Arrive, HumanReads, Grant, Deny, Withdraw, Reactivate, SelectAgent,
         ToggleAgent, vars
    <3>2. Pipeline => pc \in Answering \cup Closing /\ UNCHANGED cur
      BY DEF Pipeline, AdmitDenied, AdmitDisabled, AdmitAllowed, AdmitFails, LookUp, StartTurn,
         ModelAnswers, TurnFails, RecordNote, RecordAnswer, SendReply, MarkFailed, Resend, MarkOk,
         Answering, Closing
    <3>3. NextMail => cur' \in batch
      BY DEF NextMail, Least
    <3>4. StartPoll \/ FetchNext \/ EndFetch \/ PollFails \/ EndPoll \/ File \/ Crash
            => pc' \notin Answering \cup Closing
      BY DEF StartPoll, FetchNext, EndFetch, PollFails, EndPoll, File, Crash, Answering, Closing
    <3> QED BY <3>1, <3>2, <3>3, <3>4 DEF Next, Adapter
  <2> QED BY <1>1, <1>p, <2>1 DEF Arrived, Answering, Closing
<1> QED BY <1>1, <1>2, <1>3 DEF Arrived

\* What is known of a message was known before.
LEMMA KnownBefore ==
  ASSUME TypeOK, TypeOK', Grows, \A k \in Mails : place[k] # "away" => place'[k] # "away",
         NEW m \in Mails, Known(m)'
  PROVE  Known(m)
<1>1. Unmistakable(m)
  BY DEF Known, Unmistakable, User
<1>2. ASSUME NEW g \in Agents PROVE Cardinality(Entries(log, "in", User(m), g)) <= LookBack
  <2> DEFINE A == Entries(log, "in", User(m), g)
             B == Entries(log', "in", User(m), g)
  <2>1. A \subseteq B
    BY DEF Grows, Same, Entries
  <2>2. IsFiniteSet(B)
    <3>1. log' \in Seq(LogEntry)
      BY DEF TypeOK
    <3>2. DOMAIN log' = 1..Len(log') /\ Len(log') \in Nat
      BY <3>1
    <3>3. B \subseteq 1..Len(log') /\ IsFiniteSet(1..Len(log'))
      BY <3>2, FS_Interval DEF Entries
    <3> QED BY <3>3, FS_Subset
  <2>3. Cardinality(B) <= LookBack
    BY DEF Known, InSight, User, Entries
  <2> HIDE DEF A, B
  <2>4. Cardinality(A) <= Cardinality(B) /\ Cardinality(A) \in Nat /\ Cardinality(B) \in Nat
    BY <2>1, <2>2, FS_Subset, FS_CardinalityType
  <2>5. Cardinality(A) <= LookBack
    BY <2>3, <2>4, ConstantsAssumption
  <2> QED BY <2>5 DEF A
<1> QED BY <1>1, <1>2 DEF Known, InSight

\* A kept answer is found.
LEMMA KeptIsFound ==
  ASSUME TypeOK, NEW m \in Mails, Kept(m), Known(m)
  PROVE  UndeliveredAnswer(log, User(m), Default, Text[m], LookBack) # {}
<1>1. PICK i \in DOMAIN log : Newest(i, m) /\ Answer(i + 1, m) /\ log[i + 1].status = "failed"
  BY DEF Kept
<1> DEFINE inbound == Entries(log, "in", User(m), Default)
<1>2. log \in Seq(LogEntry) /\ LookBack \in Nat /\ Len(log) \in Nat /\ DOMAIN log = 1..Len(log)
  BY ConstantsAssumption DEF TypeOK
<1>3. i \in inbound /\ log[i].text = Text[m]
  BY <1>1 DEF Newest, Own, Entries
<1>4. i \in Recent(log, User(m), Default, LookBack)
  <2> DEFINE later == {j \in inbound : j > i}
  <2>1. IsFiniteSet(inbound)
    <3>1. inbound \subseteq 1..Len(log)
      BY <1>2 DEF Entries
    <3>2. IsFiniteSet(1..Len(log))
      BY <1>2, FS_Interval
    <3> QED BY <3>1, <3>2, FS_Subset
  <2>2. later \subseteq inbound /\ i \notin later
    BY <1>2, <1>3
  <2>3. Cardinality(inbound) <= LookBack
    BY ConstantsAssumption DEF Known, InSight
  <2> HIDE DEF inbound, later
  <2>4. later # inbound
    BY <1>3, <2>2
  <2>5. Cardinality(later) < Cardinality(inbound)
    <3>1. /\ Cardinality(later) <= Cardinality(inbound)
          /\ (Cardinality(later) = Cardinality(inbound) => later = inbound)
          /\ IsFiniteSet(later)
      BY <2>1, <2>2, FS_Subset
    <3>2. Cardinality(later) \in Nat /\ Cardinality(inbound) \in Nat
      BY <2>1, <3>1, FS_CardinalityType
    <3> QED BY <2>4, <3>1, <3>2
  <2>6. Cardinality(later) < LookBack
    <3>1. Cardinality(later) \in Nat /\ Cardinality(inbound) \in Nat
      BY <2>1, <2>2, FS_Subset, FS_CardinalityType
    <3> QED BY <1>2, <2>3, <2>5, <3>1
  <2> QED BY <1>3, <2>6 DEF Recent, inbound, later
<1>5. IsNewestInbound(log, User(m), Default, Text[m], LookBack, i)
  <2> SUFFICES ASSUME NEW j \in Recent(log, User(m), Default, LookBack), log[j].text = Text[m]
               PROVE  j <= i
    BY <1>3, <1>4 DEF IsNewestInbound
  <2>1. j \in DOMAIN log /\ Own(j, m)
    BY DEF Recent, Entries, Own
  <2> QED BY <1>1, <1>2, <2>1 DEF Newest
<1>6. IsFirstOutboundAfter(log, User(m), Default, i, i + 1)
  BY <1>1, <1>2 DEF IsFirstOutboundAfter, Entries, Answer
<1>7. i + 1 \in DOMAIN log /\ log[i + 1].answer
  BY <1>1 DEF Answer
<1> QED BY <1>1, <1>5, <1>6, <1>7 DEF UndeliveredAnswer

\* The log grows by no further entry with the text of m from its sender.
LEMMA NewestAfter ==
  ASSUME TypeOK, Grows, NEW m \in Mails, NEW i \in DOMAIN log, Newest(i, m),
         \A j \in DOMAIN log' : j \notin DOMAIN log => ~Own(j, m)'
  PROVE  Newest(i, m)'
<1>1. Own(i, m)' /\ log'[i].agent = Default /\ i \in DOMAIN log'
  BY DEF Newest, Grows, Same, Own, User
<1>2. \A j \in DOMAIN log' : i < j => ~Own(j, m)'
  BY DEF Newest, Grows, Same, Own, User
<1> QED BY <1>1, <1>2 DEF Newest

LEMMA AnswerAfter ==
  ASSUME Grows, NEW m \in Mails, NEW k, Answer(k, m)
  PROVE  Answer(k, m)'
BY DEF Answer, Grows, Same, User

\* Where new entries come from.
LEMMA NewEntry ==
  ASSUME TypeOK, TrailInv, [Next]_vars, NEW j \in DOMAIN log', j \notin DOMAIN log
  PROVE  /\ cur \in Mails
         /\ \/ AdmitDenied /\ access[Sender[cur]] = "known"
            \/ AdmitDisabled
            \/ /\ AdmitAllowed /\ ~retry /\ log'[j].agent = selected[Sender[cur]] /\ log'[j].dir = "in"
               /\ log'[j].user = User(cur) /\ log'[j].text = Text[cur] /\ log'[j].status = "ok"
               /\ Len(log) \in Nat /\ j = Len(log) + 1
            \/ RecordNote
            \/ /\ RecordAnswer /\ pc' = "reply" /\ entry' = j /\ j = Len(log) + 1 /\ Len(log) \in Nat
               /\ log'[j].dir = "out" /\ log'[j].user = User(cur) /\ log'[j].agent = agent
               /\ log'[j].text = Text[cur] /\ log'[j].status = "ok" /\ log'[j].answer
<1> USE DEF mailboxVars, adminVars, storeVars, memoryVars, worldVars
<1>a. pc \notin {"idle", "fetch", "batch"} => cur \in Mails /\ Sender[cur] \in Addresses
  BY ConstantsAssumption DEF TypeOK
<1>b. selected \in [Addresses -> Agents] /\ agent \in Agents
  BY DEF TypeOK
<1>c. pc \in AtStake => entry \in DOMAIN log /\ log[entry].dir = "out" /\ log[entry].status # "denied"
  BY DEF TypeOK, TrailInv, AtStake
<1>1. ~UNCHANGED log
  OBVIOUS
<1>2. CASE AdmitDenied \/ AdmitDisabled \/ RecordNote
  BY <1>1, <1>2, <1>a DEF AdmitDenied, AdmitDisabled, RecordNote
<1>3. CASE AdmitAllowed
  <2> DEFINE e == Inbound(User(cur), selected[Sender[cur]], cur, Text[cur], "ok")
  <2>1. ~retry /\ log' = Append(log, e) /\ cur \in Mails
    BY <1>1, <1>3, <1>a DEF AdmitAllowed, InboundRecorded
  <2>2. e \in LogEntry /\ e.agent = selected[Sender[cur]] /\ e.dir = "in" /\ e.user = User(cur)
        /\ e.text = Text[cur] /\ e.status = "ok"
    BY <1>3, <1>a, <1>b, EntryTypes DEF AdmitAllowed, Inbound
  <2> HIDE DEF e
  <2>3. Len(log) \in Nat /\ log'[Len(log) + 1] = e /\ DOMAIN log = 1..Len(log) /\ DOMAIN log' = 1..Len(log) + 1
    BY <2>1, <2>2, AppendGrows
  <2>4. j = Len(log) + 1
    BY <2>3
  <2> QED BY <1>3, <2>1, <2>2, <2>3, <2>4
<1>4. CASE RecordAnswer
  <2> DEFINE e == Outbound(User(cur), agent, cur, Text[cur], TRUE, "ok")
  <2>1. log' = Append(log, e) /\ cur \in Mails /\ pc' = "reply" /\ entry' = Len(log) + 1
    BY <1>1, <1>4, <1>a DEF RecordAnswer
  <2>2. e \in LogEntry /\ e.agent = agent /\ e.dir = "out" /\ e.user = User(cur)
        /\ e.text = Text[cur] /\ e.status = "ok" /\ e.answer
    BY <1>4, <1>a, <1>b, EntryTypes DEF RecordAnswer, Outbound
  <2> HIDE DEF e
  <2>3. Len(log) \in Nat /\ log'[Len(log) + 1] = e /\ DOMAIN log = 1..Len(log) /\ DOMAIN log' = 1..Len(log) + 1
    BY <2>1, <2>2, AppendGrows
  <2>4. j = Len(log) + 1
    BY <2>3
  <2> QED BY <1>4, <2>1, <2>2, <2>3, <2>4
<1>5. CASE MarkFailed \/ MarkOk
  <2>1. DOMAIN log' = DOMAIN log
    BY <1>1, <1>5, <1>c, StatusGrows DEF MarkFailed, MarkedFailed, MarkOk, AtStake
  <2> QED BY <2>1
<1>6. Environment \/ Crash \/ UNCHANGED vars => UNCHANGED log
  BY DEF Environment, Arrive, HumanReads, Grant, Deny, Withdraw, Reactivate, SelectAgent, ToggleAgent,
     Crash, vars
<1>7. Adapter => UNCHANGED log \/ AdmitDenied \/ AdmitDisabled \/ AdmitAllowed \/ RecordNote
                 \/ RecordAnswer \/ MarkFailed \/ MarkOk
  BY DEF Adapter, Pipeline, StartPoll, FetchNext, EndFetch, PollFails, NextMail, EndPoll, File,
     AdmitFails, LookUp, StartTurn, ModelAnswers, TurnFails, SendReply, Resend
<1> QED BY <1>1, <1>2, <1>3, <1>4, <1>5, <1>6, <1>7 DEF Next

LEMMA StepUnchanged ==
  ASSUME TypeOK, TrailInv, Unchanged, [Next]_vars, ~Spend("admin"), ~Spend("model")
  PROVE  Unchanged'
<1> USE DEF mailboxVars, adminVars, storeVars, memoryVars, worldVars
<1>a. Sender \in [Mails -> Addresses] /\ (pc \notin {"idle", "fetch", "batch"} => cur \in Mails)
  BY ConstantsAssumption DEF TypeOK
<1>g. Grows
  BY StepGrows
<1>1. UNCHANGED <<selected, access, disabled>>
  BY DEF Next, vars, Adapter, Environment, Pipeline, Crash, Arrive, HumanReads, Grant, Deny, Withdraw,
     Reactivate, SelectAgent, ToggleAgent, StartPoll, FetchNext, EndFetch, PollFails, NextMail, EndPoll,
     File, AdmitDenied, AdmitDisabled, AdmitAllowed, AdmitFails, LookUp, StartTurn, ModelAnswers,
     TurnFails, RecordNote, RecordAnswer, SendReply, MarkFailed, Resend, MarkOk
<1>2. agent' = Default
  <2>1. UNCHANGED agent \/ AdmitAllowed \/ Crash
    BY DEF Next, vars, Adapter, Environment, Pipeline, Arrive, HumanReads, Grant, Deny, Withdraw,
       Reactivate, SelectAgent, ToggleAgent, StartPoll, FetchNext, EndFetch, PollFails, NextMail, EndPoll,
       File, AdmitDenied, AdmitDisabled, AdmitFails, LookUp, StartTurn, ModelAnswers,
       TurnFails, RecordNote, RecordAnswer, SendReply, MarkFailed, Resend, MarkOk
  <2> QED BY <1>a, <2>1 DEF AdmitAllowed, Crash, Unchanged
<1>3. pc' # "note"
  <2>1. pc' = "note" => UNCHANGED pc \/ TurnFails
    BY DEF Next, vars, Adapter, Environment, Pipeline, Arrive, HumanReads, Grant, Deny, Withdraw,
       Reactivate, SelectAgent, ToggleAgent, StartPoll, FetchNext, EndFetch, PollFails, NextMail, EndPoll,
       File, AdmitDenied, AdmitDisabled, AdmitAllowed, AdmitFails, LookUp, StartTurn, ModelAnswers,
       RecordNote, RecordAnswer, SendReply, MarkFailed, Resend, MarkOk, Conclude, Crash
  <2> QED BY <2>1 DEF TurnFails, Unchanged
<1>4. ASSUME NEW j \in DOMAIN log' PROVE log'[j].agent = Default /\ log'[j].status # "denied"
  <2>1. CASE j \in DOMAIN log
    BY <1>g, <2>1 DEF Grows, Same, Unchanged
  <2>2. CASE j \notin DOMAIN log
    <3>1. cur \in Mails /\ Sender[cur] \in Addresses
      BY <1>a, <1>4, <2>2, NewEntry
    <3>2. ~AdmitDisabled /\ ~RecordNote /\ access[Sender[cur]] # "known"
      BY <3>1 DEF Unchanged, AdmitDisabled, RecordNote
    <3>3. log'[j].status = "ok" /\ (log'[j].agent = selected[Sender[cur]] \/ log'[j].agent = agent)
      BY <1>4, <2>2, <3>2, NewEntry
    <3> QED BY <3>1, <3>3 DEF Unchanged
  <2> QED BY <2>1, <2>2
<1> QED BY <1>1, <1>2, <1>3, <1>4 DEF Unchanged

\* Only a new message leaves an entry with its text, and no other message does.
LEMMA OwnEntry ==
  ASSUME TypeOK, TrailInv, Arrived, Unchanged, [Next]_vars, NEW m \in Mails, Unmistakable(m),
         NEW j \in DOMAIN log', j \notin DOMAIN log, Own(j, m)'
  PROVE  /\ AdmitAllowed /\ ~retry /\ cur = m /\ attempts[m] = 0
         /\ log'[j].agent = Default /\ Len(log) \in Nat /\ j = Len(log) + 1
<1>a. cur \in Mails /\ Sender[cur] \in Addresses
  BY NewEntry, ConstantsAssumption
<1>1. log'[j].dir = "in" /\ log'[j].user = User(m) /\ log'[j].text = Text[m]
  BY DEF Own, User
<1>2. ~AdmitDisabled /\ ~RecordNote /\ access[Sender[cur]] # "known"
  BY <1>a DEF Unchanged, AdmitDisabled, RecordNote
<1>3. /\ AdmitAllowed /\ ~retry /\ log'[j].agent = selected[Sender[cur]]
      /\ log'[j].user = User(cur) /\ log'[j].text = Text[cur]
      /\ Len(log) \in Nat /\ j = Len(log) + 1
  BY <1>1, <1>2, NewEntry
<1>4. pc = "admit"
  BY <1>3 DEF AdmitAllowed
<1>5. place[cur] # "away"
  BY <1>4 DEF Arrived, Answering
<1>6. cur = m
  BY <1>1, <1>3, <1>5, <1>a DEF Unmistakable
<1>7. attempts[m] = 0
  BY <1>3, <1>4, <1>6 DEF TrailInv, Answering, TypeOK
<1> QED BY <1>3, <1>6, <1>7, <1>a DEF Unchanged

\* What happens to the status of an entry.
LEMMA StatusAfter ==
  ASSUME TypeOK, TrailInv, [Next]_vars, NEW k \in DOMAIN log
  PROVE  \/ log'[k].status = log[k].status
         \/ MarkFailed /\ k = entry /\ log'[k].status = "failed"
         \/ MarkOk /\ k = entry /\ Conclude("ok")
<1> USE DEF mailboxVars, adminVars, storeVars, memoryVars, worldVars
<1>a. pc \notin {"idle", "fetch", "batch"} => cur \in Mails /\ Sender[cur] \in Addresses
  BY ConstantsAssumption DEF TypeOK
<1>b. selected \in [Addresses -> Agents] /\ Default \in Agents /\ agent \in Agents /\ log \in Seq(LogEntry)
  BY ConstantsAssumption DEF TypeOK
<1>c. pc \in AtStake => entry \in DOMAIN log /\ log[entry].dir = "out" /\ log[entry].status # "denied"
  BY DEF TypeOK, TrailInv, AtStake
<1>0. ASSUME NEW e \in LogEntry, log' = Append(log, e) PROVE log'[k] = log[k]
  BY <1>0, <1>b
<1>1. CASE UNCHANGED log
  BY <1>1
<1>2. CASE AdmitDenied \/ AdmitDisabled
  BY <1>2, <1>0, <1>a, <1>b, EntryTypes DEF AdmitDenied, AdmitDisabled
<1>3. CASE AdmitAllowed
  BY <1>3, <1>0, <1>a, <1>b, EntryTypes DEF AdmitAllowed, InboundRecorded
<1>4. CASE RecordNote
  BY <1>4, <1>0, <1>a, <1>b, EntryTypes DEF RecordNote
<1>5. CASE RecordAnswer
  BY <1>5, <1>0, <1>a, <1>b, EntryTypes DEF RecordAnswer
<1>6. CASE MarkFailed
  <2>1. CASE UNCHANGED log
    BY <2>1
  <2>2. CASE log' = StatusSet(entry, "failed")
    <3>1. entry \in DOMAIN log /\ log[entry].dir = "out" /\ log[entry].status # "denied"
      BY <1>6, <1>c DEF MarkFailed, AtStake
    <3>2. log'[entry].status = "failed" /\ \A j \in DOMAIN log : j # entry => log'[j] = log[j]
      BY <2>2, <3>1, StatusGrows
    <3> QED BY <1>6, <3>2
  <2> QED BY <1>6, <2>1, <2>2 DEF MarkFailed, MarkedFailed
<1>7. CASE MarkOk
  <2>1. CASE UNCHANGED log
    BY <2>1
  <2>2. CASE log' = StatusSet(entry, "ok") /\ Conclude("ok")
    <3>1. entry \in DOMAIN log /\ log[entry].dir = "out" /\ log[entry].status # "denied"
      BY <1>7, <1>c DEF MarkOk, AtStake
    <3>2. \A j \in DOMAIN log : j # entry => log'[j] = log[j]
      BY <2>2, <3>1, StatusGrows
    <3> QED BY <1>7, <2>2, <3>2
  <2> QED BY <1>7, <2>1, <2>2 DEF MarkOk
<1>8. Environment \/ Crash \/ UNCHANGED vars => UNCHANGED log
  BY DEF Environment, Arrive, HumanReads, Grant, Deny, Withdraw, Reactivate, SelectAgent, ToggleAgent,
     Crash, vars
<1>9. Adapter => UNCHANGED log \/ AdmitDenied \/ AdmitDisabled \/ AdmitAllowed \/ RecordNote
                 \/ RecordAnswer \/ MarkFailed \/ MarkOk
  BY DEF Adapter, Pipeline, StartPoll, FetchNext, EndFetch, PollFails, NextMail, EndPoll, File,
     AdmitFails, LookUp, StartTurn, ModelAnswers, TurnFails, SendReply, Resend
<1> QED BY <1>1, <1>2, <1>3, <1>4, <1>5, <1>6, <1>7, <1>8, <1>9 DEF Next

\* A kept answer stays, as long as its message is retried.
LEMMA KeptAfter ==
  ASSUME TypeOK, TrailInv, Arrived, Unchanged, [Next]_vars, Spent("db") = 0,
         NEW m \in Mails, Unmistakable(m), Kept(m), attempts[m] > 0, attempts'[m] > 0
  PROVE  Kept(m)'
<1>g. Grows
  BY StepGrows
<1>1. PICK i \in DOMAIN log : Newest(i, m) /\ Answer(i + 1, m) /\ log[i + 1].status = "failed"
  BY DEF Kept
<1>2. Newest(i, m)'
  <2>1. attempts[m] # 0
    BY DEF TypeOK
  <2>2. \A j \in DOMAIN log' : j \notin DOMAIN log => ~Own(j, m)'
    BY <2>1, OwnEntry
  <2> QED BY <1>1, <1>g, <2>2, NewestAfter
<1>3. PICK k : k = i + 1
  OBVIOUS
<1>4. Answer(k, m)' /\ k \in DOMAIN log
  BY <1>1, <1>3, <1>g, AnswerAfter DEF Answer
<1>5. log'[k].status = "failed"
  <2> SUFFICES ASSUME MarkOk, k = entry, Conclude("ok") PROVE FALSE
    BY <1>1, <1>3, <1>4, StatusAfter
  <2>1. pc = "markok" /\ cur \in Mails
    BY DEF MarkOk, TypeOK
  <2>2. Unmixed(User(cur))
    BY DEF Unchanged, Unmixed
  <2>3. log[entry].text = Text[cur] /\ log[entry].user = User(cur)
    BY <2>1, <2>2 DEF TrailInv, AtStake
  <2>4. log[entry].text = Text[m] /\ log[entry].user = User(m)
    BY <1>1, <1>3 DEF Answer
  <2>5. place[cur] # "away"
    BY <2>1 DEF Arrived, Closing
  <2>6. cur = m
    BY <2>1, <2>3, <2>4, <2>5 DEF Unmistakable
  <2>7. attempts'[m] = 0
    BY <2>1, <2>6 DEF Conclude, Unsuccessful, TypeOK
  <2> QED BY <2>7
<1>6. i \in DOMAIN log'
  BY <1>g DEF Grows
<1> QED BY <1>2, <1>3, <1>4, <1>5, <1>6 DEF Kept

\* The first failure that is counted is that of a delivery.
LEMMA FirstFailure ==
  ASSUME TypeOK, TrailInv, Unchanged, [Next]_vars, ~Spend("db"),
         NEW m \in Mails, attempts[m] = 0, attempts'[m] > 0
  PROVE  MarkFailed /\ log' = MarkedFailed(entry) /\ cur = m
<1> USE DEF mailboxVars, adminVars, storeVars, memoryVars, worldVars
<1>a. attempts \in [Mails -> Nat] /\ (pc \notin {"idle", "fetch", "batch"} => cur \in Mails)
  BY DEF TypeOK
<1>1. ~UNCHANGED attempts
  BY <1>a
<1>2. \A o : Conclude(o) /\ cur \in Mails => cur = m /\ Unsuccessful(o)
  BY <1>a DEF Conclude
<1>3. ~Environment /\ ~Crash /\ ~UNCHANGED vars
  <2>1. Environment \/ UNCHANGED vars => UNCHANGED attempts
    BY DEF Environment, Arrive, HumanReads, Grant, Deny, Withdraw, Reactivate, SelectAgent,
       ToggleAgent, vars
  <2>2. Crash => attempts'[m] = 0
    BY DEF Crash
  <2> QED BY <1>1, <2>1, <2>2
<1>4. ~(StartPoll \/ FetchNext \/ EndFetch \/ PollFails \/ NextMail \/ EndPoll \/ File)
  BY <1>1 DEF StartPoll, FetchNext, EndFetch, PollFails, NextMail, EndPoll, File
<1>5. ~(AdmitAllowed \/ LookUp \/ StartTurn \/ ModelAnswers \/ TurnFails)
  BY <1>1 DEF AdmitAllowed, LookUp, StartTurn, ModelAnswers, TurnFails
<1>6. ~(AdmitDenied \/ AdmitDisabled \/ AdmitFails \/ RecordAnswer \/ SendReply)
  <2>1. cur \in Mails => ~Conclude("denied") /\ ~Conclude("ok")
    BY <1>2 DEF Unsuccessful
  <2>2. ~AdmitDenied /\ ~AdmitDisabled /\ ~AdmitFails
    BY <1>a, <2>1 DEF AdmitDenied, AdmitDisabled, AdmitFails
  <2>3. ~RecordAnswer /\ ~SendReply
    BY <1>1, <1>a, <2>1 DEF RecordAnswer, SendReply
  <2> QED BY <2>2, <2>3
<1>7. ~RecordNote
  BY DEF RecordNote, Unchanged
<1>8. ~MarkOk
  BY <1>2, <1>a DEF MarkOk, Unsuccessful
<1>9. ~Resend
  <2> SUFFICES ASSUME Resend PROVE FALSE
    OBVIOUS
  <2>1. pc = "resend" /\ cur \in Mails
    BY <1>a DEF Resend
  <2>2. attempts[cur] > 0
    BY <2>1 DEF TrailInv, Answering
  <2>3. cur = m
    BY <1>1, <1>2, <2>1 DEF Resend
  <2> QED BY <2>2, <2>3
<1>10. MarkFailed
  BY <1>3, <1>4, <1>5, <1>6, <1>7, <1>8, <1>9 DEF Next, Adapter, Pipeline
<1> QED BY <1>2, <1>10, <1>a DEF MarkFailed

\* The entry a new turn goes by is the newest with its text.
LEMMA TurnKept ==
  ASSUME TypeOK, TrailInv, SpentInv, Arrived, Calm, KeptInv, Unchanged', [Next]_vars, ~Spend("model"),
         pc' \in {"start", "model", "record"}, Known(cur')
  PROVE  ~retry' /\ Len(log') \in DOMAIN log' /\ Newest(Len(log), cur)'
<1> USE DEF mailboxVars, adminVars, storeVars, memoryVars, worldVars
<1>k. /\ Unchanged
      /\ pc \in {"start", "model", "record"} /\ Known(cur) =>
           ~retry /\ Len(log) \in DOMAIN log /\ Newest(Len(log), cur)
      /\ \A m \in Mails : attempts[m] > 0 /\ Known(m) => Kept(m)
  BY DEF KeptInv
<1>1. CASE UNCHANGED <<log, cur, retry>> /\ pc \in {"start", "model", "record"}
  BY <1>1, <1>k DEF Newest, Own, User
<1>2. CASE AdmitAllowed
  <2>1. ~retry /\ UNCHANGED <<cur, retry>> /\ cur \in Mails /\ Sender[cur] \in Addresses
        /\ log' = Append(log, Inbound(User(cur), selected[Sender[cur]], cur, Text[cur], "ok"))
    BY <1>2, ConstantsAssumption DEF AdmitAllowed, InboundRecorded, TypeOK
  <2> DEFINE e == Inbound(User(cur), selected[Sender[cur]], cur, Text[cur], "ok")
  <2>2. e \in LogEntry /\ e.dir = "in" /\ e.user = User(cur) /\ e.text = Text[cur] /\ e.agent = Default
    BY <1>k, <2>1, EntryTypes, ConstantsAssumption DEF Inbound, Unchanged
  <2>3. log' = Append(log, e)
    BY <2>1
  <2> HIDE DEF e
  <2>4. /\ Len(log) \in Nat /\ Len(log') = Len(log) + 1 /\ log'[Len(log) + 1] = e
        /\ DOMAIN log' = 1..Len(log) + 1
    BY <2>2, <2>3, AppendGrows
  <2>5. PICK n \in Nat : n = Len(log) + 1
    BY <2>4
  <2>6. n = Len(log') /\ n \in DOMAIN log' /\ log'[n] = e /\ \A j \in DOMAIN log' : ~(n < j)
    BY <2>4, <2>5
  <2>7. Newest(n, cur)'
    BY <2>1, <2>2, <2>6 DEF Newest, Own, User
  <2> QED BY <2>1, <2>6, <2>7
<1>3. ~(LookUp /\ pc' = "start")
  <2> SUFFICES ASSUME LookUp, pc' = "start" PROVE FALSE
    OBVIOUS
  <2>1. pc = "lookup" /\ cur \in Mails /\ UNCHANGED cur
        /\ UndeliveredAnswer(log, User(cur), agent, Text[cur], LookBack) = {}
    BY DEF LookUp, TypeOK
  <2>2. attempts[cur] > 0
    BY <2>1 DEF TrailInv, Answering
  <2>3. Known(cur)
    BY <2>1
  <2>4. Kept(cur)
    BY <1>k, <2>1, <2>2, <2>3
  <2>5. agent = Default
    BY <1>k DEF Unchanged
  <2> QED BY <2>1, <2>3, <2>4, <2>5, KeptIsFound
<1>4. Environment \/ UNCHANGED vars => UNCHANGED <<log, cur, retry, pc>>
  BY DEF Environment, Arrive, HumanReads, Grant, Deny, Withdraw, Reactivate, SelectAgent,
     ToggleAgent, vars
<1>5. Next => Environment \/ AdmitAllowed \/ (LookUp /\ pc' = "start") \/ StartTurn \/ ModelAnswers
  BY DEF Next, Adapter, Pipeline, StartPoll, FetchNext, EndFetch, PollFails, NextMail, EndPoll, File,
     AdmitDenied, AdmitDisabled, AdmitFails, LookUp, TurnFails,
     RecordNote, RecordAnswer, SendReply, MarkFailed, Resend, MarkOk, Crash, Conclude
<1>6. StartTurn \/ ModelAnswers => UNCHANGED <<log, cur, retry>> /\ pc \in {"start", "model", "record"}
  BY DEF StartTurn, ModelAnswers
<1> QED BY <1>1, <1>2, <1>3, <1>4, <1>5, <1>6

\* Its answer is written right after it.
LEMMA ReplyKept ==
  ASSUME TypeOK, TrailInv, SpentInv, Arrived, Calm, KeptInv, [Next]_vars, ~Spend("db"),
         pc' \in {"reply", "markfailed"}, Known(cur')
  PROVE  \E i \in DOMAIN log' : entry' = i + 1 /\ Newest(i, cur)' /\ Answer(i + 1, cur)'
<1> USE DEF mailboxVars, adminVars, storeVars, memoryVars, worldVars
<1>k. /\ Unchanged
      /\ pc \in {"start", "model", "record"} /\ Known(cur) =>
           ~retry /\ Len(log) \in DOMAIN log /\ Newest(Len(log), cur)
      /\ pc \in {"reply", "markfailed"} /\ Known(cur) =>
           \E i \in DOMAIN log : entry = i + 1 /\ Newest(i, cur) /\ Answer(i + 1, cur)
  BY DEF KeptInv
<1>1. CASE UNCHANGED <<log, cur, entry>> /\ pc \in {"reply", "markfailed"}
  <2>1. PICK i \in DOMAIN log : entry = i + 1 /\ Newest(i, cur) /\ Answer(i + 1, cur)
    BY <1>1, <1>k
  <2>2. Newest(i, cur)' /\ Answer(i + 1, cur)'
    BY <1>1, <2>1 DEF Newest, Answer, Own, User
  <2> QED BY <1>1, <2>1, <2>2
<1>2. CASE RecordAnswer
  <2>1. pc = "record" /\ UNCHANGED cur /\ cur \in Mails
    BY <1>2 DEF RecordAnswer, TypeOK
  <2>2. log' = Append(log, Outbound(User(cur), agent, cur, Text[cur], TRUE, "ok")) /\ entry' = Len(log) + 1
    BY <1>2 DEF RecordAnswer
  <2> DEFINE e == Outbound(User(cur), agent, cur, Text[cur], TRUE, "ok")
  <2>3. e \in LogEntry /\ e.dir = "out" /\ e.user = User(cur) /\ e.text = Text[cur] /\ e.agent = Default /\ e.answer
    BY <1>k, <2>1, EntryTypes, ConstantsAssumption DEF Outbound, Unchanged
  <2>4. log' = Append(log, e)
    BY <2>2
  <2> HIDE DEF e
  <2>5. PICK i \in DOMAIN log : i = Len(log) /\ Newest(i, cur)
    BY <1>k, <2>1
  <2>6. /\ Grows /\ Len(log) \in Nat /\ log'[Len(log) + 1] = e
        /\ DOMAIN log = 1..Len(log) /\ DOMAIN log' = 1..Len(log) + 1
    BY <2>3, <2>4, AppendGrows
  <2>7. PICK k : k = i + 1
    OBVIOUS
  <2>8. k \in DOMAIN log' /\ log'[k] = e /\ \A j \in DOMAIN log' : j \notin DOMAIN log => j = k
    BY <2>5, <2>6, <2>7
  <2>9. Answer(k, cur)'
    BY <2>1, <2>3, <2>8 DEF Answer, User
  <2>10. PICK m \in Mails : m = cur
    BY <2>1
  <2>11. \A j \in DOMAIN log' : j \notin DOMAIN log => ~Own(j, m)'
    BY <2>3, <2>8 DEF Own
  <2>12. Newest(i, m)'
    BY <2>5, <2>6, <2>10, <2>11, NewestAfter
  <2>13. Newest(i, cur)'
    BY <2>1, <2>10, <2>12 DEF Newest, Own, User
  <2> QED BY <2>2, <2>5, <2>6, <2>7, <2>9, <2>13
<1>3. Environment \/ UNCHANGED vars => UNCHANGED <<log, cur, entry, pc>>
  BY DEF Environment, Arrive, HumanReads, Grant, Deny, Withdraw, Reactivate, SelectAgent,
     ToggleAgent, vars
<1>4. Next => Environment \/ RecordAnswer \/ (SendReply /\ pc' = "markfailed")
  BY DEF Next, Adapter, Pipeline, StartPoll, FetchNext, EndFetch, PollFails, NextMail, EndPoll, File,
     AdmitDenied, AdmitDisabled, AdmitAllowed, AdmitFails, LookUp, StartTurn, ModelAnswers, TurnFails,
     RecordNote, SendReply, MarkFailed, Resend, MarkOk, Crash, Conclude
<1>5. SendReply => UNCHANGED <<log, cur, entry>> /\ pc \in {"reply", "markfailed"}
  BY DEF SendReply
<1> QED BY <1>1, <1>2, <1>3, <1>4, <1>5

LEMMA StepKept ==
  ASSUME TypeOK, TypeOK', TrailInv, SpentInv, HandledApart, Arrived, KeptInv, [Next]_vars
  PROVE  KeptInv'
<1> SUFFICES ASSUME Calm'
             PROVE  /\ Unchanged'
                    /\ pc' \in {"start", "model", "record"} /\ Known(cur)' =>
                         ~retry' /\ Len(log') \in DOMAIN log' /\ Newest(Len(log), cur)'
                    /\ pc' \in {"reply", "markfailed"} /\ Known(cur)' =>
                         \E i \in DOMAIN log' : entry' = i + 1 /\ Newest(i, cur)' /\ Answer(i + 1, cur)'
                    /\ \A m \in Mails : attempts'[m] > 0 /\ Known(m)' => Kept(m)'
  BY DEF KeptInv
<1>s. Calm /\ ~Spend("model") /\ ~Spend("db") /\ ~Spend("admin")
  BY NoneYet DEF Calm, Faults
<1>k. /\ Unchanged
      /\ pc \in {"reply", "markfailed"} /\ Known(cur) =>
           \E i \in DOMAIN log : entry = i + 1 /\ Newest(i, cur) /\ Answer(i + 1, cur)
      /\ \A m \in Mails : attempts[m] > 0 /\ Known(m) => Kept(m)
  BY <1>s DEF KeptInv
<1>u. Unchanged'
  BY <1>k, <1>s, StepUnchanged
<1>g. Grows /\ \A k \in Mails : place[k] # "away" => place'[k] # "away"
  BY StepGrows, StepArrived
<1>b. \A m \in Mails : Known(m)' => Known(m)
  BY <1>g, KnownBefore
<1>c. pc' \notin {"idle", "fetch", "batch"} => cur' \in Mails
  BY DEF TypeOK
<1>d. cur' \in Mails /\ Known(cur)' => Known(cur')
  <2> SUFFICES ASSUME cur' \in Mails, Known(cur)' PROVE Known(cur')
    OBVIOUS
  <2>1. PICK m \in Mails : m = cur'
    OBVIOUS
  <2>2. Known(m)'
    BY <2>1 DEF Known, Unmistakable, InSight, User, Entries
  <2> QED BY <1>b, <2>1, <2>2
<1>1. pc' \in {"start", "model", "record"} /\ Known(cur)' =>
        ~retry' /\ Len(log') \in DOMAIN log' /\ Newest(Len(log), cur)'
  BY <1>c, <1>d, <1>s, <1>u, TurnKept
<1>2. pc' \in {"reply", "markfailed"} /\ Known(cur)' =>
        \E i \in DOMAIN log' : entry' = i + 1 /\ Newest(i, cur)' /\ Answer(i + 1, cur)'
  BY <1>c, <1>d, <1>s, ReplyKept
<1>3. ASSUME NEW m \in Mails, attempts'[m] > 0, Known(m)' PROVE Kept(m)'
  <2>1. Known(m) /\ Unmistakable(m)
    BY <1>3, <1>b DEF Known
  <2>2. CASE attempts[m] > 0
    BY <1>3, <1>k, <1>s, <2>1, <2>2, KeptAfter DEF Calm
  <2>3. CASE attempts[m] = 0
    <3>1. MarkFailed /\ log' = StatusSet(entry, "failed") /\ cur = m
      BY <1>3, <1>k, <1>s, <2>3, FirstFailure DEF MarkedFailed
    <3>2. pc = "markfailed"
      BY <3>1 DEF MarkFailed
    <3>3. PICK i \in DOMAIN log : entry = i + 1 /\ Newest(i, m) /\ Answer(i + 1, m)
      BY <1>k, <2>1, <3>1, <3>2
    <3>4. entry \in DOMAIN log /\ log[entry].dir = "out" /\ log[entry].status # "denied"
      BY <3>2 DEF TypeOK, TrailInv, AtStake
    <3>5. DOMAIN log' = DOMAIN log /\ log'[entry].status = "failed"
      BY <3>1, <3>4, StatusGrows
    <3>6. Newest(i, m)'
      BY <1>g, <3>3, <3>5, NewestAfter
    <3>7. PICK k : k = i + 1
      OBVIOUS
    <3>8. Answer(k, m)'
      BY <1>g, <3>3, <3>7, AnswerAfter
    <3> QED BY <3>3, <3>5, <3>6, <3>7, <3>8 DEF Kept
  <2> QED BY <2>2, <2>3 DEF TypeOK
<1> QED BY <1>u, <1>1, <1>2, <1>3

LEMMA StepTurns ==
  ASSUME TypeOK, TypeOK', TrailInv, SpentInv, HandledApart, Arrived, KeptInv, TurnInv, [Next]_vars
  PROVE  TurnInv'
<1> SUFFICES ASSUME Calm', NEW m \in Mails, Known(m)'
             PROVE  /\ turns'[m] <= Slips' + 1
                    /\ Anew(m, UpToTurn)' => turns'[m] <= Slips'
  BY DEF TurnInv, UpToTurn, Early
<1>s. Calm
  BY NoneYet DEF Calm, Faults
<1>b. Known(m)
  BY StepGrows, StepArrived, KnownBefore
<1>t. turns[m] <= Slips + 1 /\ (Anew(m, UpToTurn) => turns[m] <= Slips)
  BY <1>s, <1>b DEF TurnInv
<1>n. Slips \in Nat /\ turns \in [Mails -> Nat] /\ turns[m] \in Nat
  BY SlipsAreNumbers DEF TypeOK
<1>1. CASE turns'[m] = turns[m]
  <2>1. \/ Slips' = Slips + 1
        \/ Slips' = Slips /\ (Anew(m, UpToTurn)' => Anew(m, UpToTurn))
    BY AnewAfter
  <2> QED BY <1>1, <1>t, <1>n, <2>1
<1>2. CASE ModelAnswers /\ cur = m
  <2>1. /\ pc = "model" /\ pc' = "record" /\ UNCHANGED <<cur, found, batch, attempts, left>>
        /\ turns'[m] = turns[m] + 1
    BY <1>2, <1>n DEF ModelAnswers
  <2>2. ~retry
    BY <1>2, <1>b, <1>s, <2>1 DEF KeptInv
  <2>3. attempts[m] = 0
    BY <1>2, <2>1, <2>2 DEF TrailInv, Answering, TypeOK
  <2>4. Anew(m, UpToTurn)
    BY <1>2, <2>1, <2>3 DEF Anew, UpToTurn
  <2>5. ~Anew(m, UpToTurn)'
    BY <1>2, <2>1 DEF HandledApart, Anew, UpToTurn, Early, Answering, Closing
  <2>6. Slips' = Slips
    BY <2>1, NoSlip
  <2> QED BY <1>n, <1>t, <2>1, <2>4, <2>5, <2>6
<1>3. turns'[m] = turns[m] \/ (ModelAnswers /\ cur = m)
  <2> USE DEF mailboxVars, adminVars, storeVars, memoryVars, worldVars
  <2>1. UNCHANGED turns \/ ModelAnswers
    BY DEF Next, vars, Adapter, Environment, Pipeline, Arrive, HumanReads, Grant, Deny, Withdraw,
       Reactivate, SelectAgent, ToggleAgent, StartPoll, FetchNext, EndFetch, PollFails, NextMail, EndPoll,
       File, AdmitDenied, AdmitDisabled, AdmitAllowed, AdmitFails, LookUp, StartTurn, TurnFails,
       RecordNote, RecordAnswer, SendReply, MarkFailed, Resend, MarkOk, Delivered, Crash
  <2>2. ModelAnswers /\ cur # m => turns'[m] = turns[m]
    BY <1>n DEF ModelAnswers
  <2> QED BY <2>1, <2>2
<1> QED BY <1>1, <1>2, <1>3

LEMMA StepApart == ASSUME TypeOK, CountsCopies, [Next]_vars PROVE HandledApart /\ HandledApart'
BY StepCopies DEF CountsCopies, HandledApart

KeptAll == TypeOK /\ SpentInv /\ TrailInv /\ CountsCopies /\ Arrived /\ KeptInv /\ TurnInv

LEMMA KeptHolds == Spec => []KeptAll
<1>1. Init => KeptAll
  BY InitType, InitSpent, InitTrail, InitCopies, InitKept DEF KeptAll
<1>2. KeptAll /\ [Next]_vars => KeptAll'
  BY TypeStep, StepSpent, StepTrail, StepCopies, StepApart, StepArrived, StepKept, StepTurns DEF KeptAll
<1> QED BY <1>1, <1>2, PTL DEF Spec

\* While no turn and no commit fails and nobody changes a right, a message that no other can
\* be mistaken for is answered by the model once for each time it is taken for new: a delivery
\* that fails is repaired from the audit trail (find_undelivered_answer).
THEOREM KeptAnswersAreSent == Spec => []UndeliveredIsNotRegenerated
<1>1. KeptAll => UndeliveredIsNotRegenerated
  <2> SUFFICES ASSUME KeptAll, Spent("model") + Spent("db") + Spent("admin") = 0,
                      NEW m \in Mails, Unmistakable(m), InSight(User(m))
               PROVE  turns[m] <= 1 + Spent("crash") + Spent("imap")
    BY DEF UndeliveredIsNotRegenerated
  <2>1. Spent("model") \in Nat /\ Spent("db") \in Nat /\ Spent("admin") \in Nat
        /\ Spent("crash") \in Nat /\ Spent("imap") \in Nat
    BY DEF KeptAll, SpentInv, Faults
  <2>2. Calm
    BY <2>1 DEF Calm
  <2>3. turns[m] <= Slips + 1 /\ turns[m] \in Nat
    BY <2>2 DEF KeptAll, TurnInv, Known, TypeOK
  <2> QED BY <2>1, <2>3 DEF Slips
<1> QED BY <1>1, KeptHolds, PTL
=============================================================================
