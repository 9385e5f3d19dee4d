------------------------- MODULE AccessDesk_proofs -------------------------
(***************************************************************************)
(* What one administrator at a time is worth: with a single desk, and      *)
(* however many senders write meanwhile, a request is resolved once and a  *)
(* denial stands, the trail tells who has access, and every operation is   *)
(* one change of a list (AccessList). AccessDesk_resolved shows that two   *)
(* desks that overlap lose the first. Types hold for any number of desks.  *)
(***************************************************************************)
EXTENDS AccessDesk, FiniteSetTheorems, WellFoundedInduction, TLAPS

OneDesk == \A d, e \in Desks : d = e

-----------------------------------------------------------------------------
(* The inductive invariant: what was read is still so when it is written *)

\* The types the argument needs.
Shapes ==
    /\ request \in [Keys -> Statuses]
    /\ visit \in [Keys -> {"away", "refused"} \cup Statuses]
    /\ DOMAIN task = Desks

\* A request that a desk has open is pending.
OpenIsPending ==
    \A d \in Desks : task[d].op \in {"approve", "deny"} =>
        task[d].key \in Keys /\ request[task[d].key] = "pending"

\* A sender about to file a request has read its present status, unless that status
\* is one the sender leaves alone.
VisitIsFresh ==
    \A k \in Keys : visit[k] \in {"none", "approved"} => request[k] = visit[k]

Sound == Shapes /\ OpenIsPending /\ VisitIsFresh

LEMMA IdleHasNoRequest == Idle.op \notin {"approve", "deny"}
BY DEF Idle

LEMMA SoundAtStart == Init => Sound
BY IdleHasNoRequest DEF Init, Sound, Shapes, OpenIsPending, VisitIsFresh, Statuses

\* A step that leaves requests and visits alone and opens no request keeps the invariant.
LEMMA QuietStep ==
    ASSUME Sound, UNCHANGED <<request, visit>>,
           NEW d \in Desks, NEW t,
           t.op \in {"approve", "deny"} => t.key \in Keys /\ request[t.key] = "pending",
           task' = [task EXCEPT ![d] = t]
    PROVE  Sound'
<1>1. Shapes'  BY DEF Sound, Shapes
<1>2. OpenIsPending'
  <2>1. \A e \in Desks : task'[e] = IF e = d THEN t ELSE task[e]  BY DEF Sound, Shapes
  <2> QED  BY <2>1 DEF Sound, OpenIsPending
<1>3. VisitIsFresh'  BY DEF Sound, VisitIsFresh
<1> QED  BY <1>1, <1>2, <1>3 DEF Sound

\* The only desk has finished: no request is open, whatever becomes of the statuses, as
\* long as a sender's reading stays good.
LEMMA LastDeskDone ==
    ASSUME Sound, OneDesk, UNCHANGED visit,
           NEW d \in Desks, task' = [task EXCEPT ![d] = Idle],
           request' \in [Keys -> Statuses],
           \A k \in Keys : request'[k] # request[k] => request[k] = "pending"
    PROVE  Sound'
<1>1. Shapes'  BY DEF Sound, Shapes
<1>2. OpenIsPending'
  <2>1. \A e \in Desks : task'[e] = Idle  BY DEF Sound, Shapes, OneDesk
  <2> QED  BY <2>1, IdleHasNoRequest DEF OpenIsPending
<1>3. VisitIsFresh'
  <2> SUFFICES ASSUME NEW k \in Keys, visit[k] \in {"none", "approved"}
               PROVE  request'[k] = visit[k]
    BY DEF VisitIsFresh
  <2>1. request[k] = visit[k] /\ request[k] # "pending"  BY DEF Sound, VisitIsFresh
  <2> QED  BY <2>1
<1> QED  BY <1>1, <1>2, <1>3 DEF Sound

-----------------------------------------------------------------------------
(* What a step may do to a request *)

\* Only a pending request is approved or denied, and a denied one stays.
Lawful ==
    \A k \in Keys :
        /\ request'[k] # request[k] /\ request'[k] \in {"approved", "denied"} => request[k] = "pending"
        /\ request[k] = "denied" => request'[k] = "denied"

\* A desk that resolves the request it has open.
LEMMA DecisionIsLawful ==
    ASSUME Sound, NEW d \in Desks, NEW status \in {"approved", "denied"},
           task[d].op \in {"approve", "deny"},
           request' = [request EXCEPT ![task[d].key] = status]
    PROVE  /\ request' \in [Keys -> Statuses]
           /\ \A j \in Keys : request'[j] # request[j] => request[j] = "pending"
           /\ Lawful
<1>1. request \in [Keys -> Statuses]  BY DEF Sound, Shapes
<1>2. task[d].key \in Keys /\ request[task[d].key] = "pending"  BY DEF Sound, OpenIsPending
<1> QED  BY <1>1, <1>2 DEF Lawful, Statuses

-----------------------------------------------------------------------------
(* Every step keeps the invariant and is lawful *)

Kept == Sound' /\ Lawful

LEMMA StutterKeeps ==
    ASSUME Sound, UNCHANGED <<request, visit, task>>
    PROVE  Kept
BY DEF Sound, Shapes, OpenIsPending, VisitIsFresh, Kept, Lawful

LEMMA SenderKeeps ==
    ASSUME Sound, Sender
    PROVE  Kept
<1>1. PICK k \in Keys : Knock(k) \/ LookUpRequest(k) \/ FileRequest(k)  BY DEF Sender
<1>2. CASE Knock(k)
  BY <1>2 DEF Knock, rowVars, Sound, Shapes, OpenIsPending, VisitIsFresh, Kept, Lawful
<1>3. CASE LookUpRequest(k)
  BY <1>3 DEF LookUpRequest, rowVars, Sound, Shapes, OpenIsPending, VisitIsFresh, Kept, Lawful
<1>4. CASE FileRequest(k)
  <2>1. /\ request' = [request EXCEPT ![k] = IF Opens(visit[k]) THEN "pending" ELSE request[k]]
        /\ visit' = [visit EXCEPT ![k] = "away"]
        /\ UNCHANGED task
    BY <1>4 DEF FileRequest
  \* What the sender overwrites was not pending, approved meanwhile or denied.
  <2>2. Opens(visit[k]) => request[k] \in {"none", "approved"}
    BY DEF Opens, Sound, VisitIsFresh
  <2>3. Shapes'  BY <2>1 DEF Sound, Shapes, Statuses
  <2>4. OpenIsPending'  BY <2>1 DEF Sound, Shapes, OpenIsPending
  <2>5. VisitIsFresh'  BY <2>1 DEF Sound, Shapes, VisitIsFresh
  <2>6. Lawful  BY <2>1, <2>2 DEF Sound, Shapes, Lawful
  <2> QED  BY <2>3, <2>4, <2>5, <2>6 DEF Sound, Kept
<1> QED  BY <1>1, <1>2, <1>3, <1>4

LEMMA OpeningKeeps ==
    ASSUME Sound, NEW d \in Desks,
           \/ OpenRequest(d) \/ OpenLink(d) \/ OpenUnlink(d)
           \/ OpenGrant(d) \/ OpenRevoke(d) \/ OpenActive(d)
    PROVE  Kept
<1>1. ASSUME NEW t, Start(d, t),
             t.op \in {"approve", "deny"} => t.key \in Keys /\ request[t.key] = "pending"
      PROVE  Kept
  <2>1. UNCHANGED <<request, visit>> /\ task' = [task EXCEPT ![d] = t]
    BY <1>1 DEF Start, rowVars
  <2>2. Sound'  BY <1>1, <2>1, QuietStep
  <2> QED  BY <2>1, <2>2 DEF Kept, Lawful
<1>2. CASE OpenRequest(d)
  BY <1>1, <1>2 DEF OpenRequest, Resolvable
<1>3. CASE OpenLink(d)  BY <1>1, <1>3 DEF OpenLink
<1>4. CASE OpenUnlink(d)  BY <1>1, <1>4 DEF OpenUnlink
<1>5. CASE OpenGrant(d)  BY <1>1, <1>5 DEF OpenGrant
<1>6. CASE OpenRevoke(d)  BY <1>1, <1>6 DEF OpenRevoke
<1>7. CASE OpenActive(d)  BY <1>1, <1>7 DEF OpenActive
<1> QED  BY <1>2, <1>3, <1>4, <1>5, <1>6, <1>7

LEMMA WritingKeeps ==
    ASSUME Sound, OneDesk, NEW d \in Desks,
           \/ Approve(d) \/ Deny(d) \/ Link(d) \/ Unlink(d)
           \/ Grant(d) \/ Revoke(d) \/ SetActive(d) \/ Abandon(d)
    PROVE  Kept
<1>1. CASE Approve(d)
  <2>1. /\ task[d].op \in {"approve", "deny"} /\ task' = [task EXCEPT ![d] = Idle]
        /\ UNCHANGED visit /\ request' = [request EXCEPT ![task[d].key] = "approved"]
    BY <1>1 DEF Approve, Done
  <2> QED  BY <2>1, DecisionIsLawful, LastDeskDone DEF Kept
<1>2. CASE Deny(d)
  <2>1. /\ task[d].op \in {"approve", "deny"} /\ task' = [task EXCEPT ![d] = Idle]
        /\ UNCHANGED visit /\ request' = [request EXCEPT ![task[d].key] = "denied"]
    BY <1>2 DEF Deny, Done
  <2> QED  BY <2>1, DecisionIsLawful, LastDeskDone DEF Kept
<1>3. CASE Link(d) \/ Grant(d)
  <2>1. /\ task' = [task EXCEPT ![d] = Idle] /\ UNCHANGED visit
        /\ request' = Resolved(task[d].key)
    BY <1>3 DEF Link, Grant, Done
  <2>2. /\ request' \in [Keys -> Statuses]
        /\ \A j \in Keys : request'[j] # request[j] => request[j] = "pending"
        /\ Lawful
    BY <2>1 DEF Resolved, Sound, Shapes, Statuses, Lawful
  <2> QED  BY <2>1, <2>2, LastDeskDone DEF Kept
<1>4. CASE Unlink(d) \/ Revoke(d) \/ SetActive(d) \/ Abandon(d)
  <2>1. UNCHANGED <<request, visit>> /\ task' = [task EXCEPT ![d] = Idle]
    BY <1>4 DEF Unlink, Revoke, SetActive, Abandon, Done, rowVars
  <2>2. Sound'  BY <2>1, IdleHasNoRequest, QuietStep
  <2> QED  BY <2>1, <2>2 DEF Kept, Lawful
<1> QED  BY <1>1, <1>2, <1>3, <1>4

LEMMA StepKeeps ==
    ASSUME Sound, OneDesk, [Next]_vars
    PROVE  Kept
<1>1. CASE Sender  BY <1>1, SenderKeeps
<1>2. CASE CreateUser  BY <1>2, StutterKeeps DEF CreateUser
<1>3. CASE \E d \in Desks : Desk(d)
  BY <1>3, OpeningKeeps, WritingKeeps DEF Desk
<1>4. CASE UNCHANGED vars  BY <1>4, StutterKeeps DEF vars, rowVars
<1> QED  BY <1>1, <1>2, <1>3, <1>4 DEF Next

LEMMA AlwaysKept ==
    ASSUME OneDesk
    PROVE  Spec => [][Lawful]_vars
<1>1. Init => Sound  BY SoundAtStart
<1>2. Sound /\ [Next]_vars => Kept  BY OneDesk, StepKeeps
<1>3. Kept => Sound' /\ Lawful  BY DEF Kept
<1> QED  BY <1>1, <1>2, <1>3, PTL DEF Spec

\* One administrator at a time never resolves a request twice, whatever else that
\* administrator and the senders do (_pending_request, service.py).
LEMMA OneDeskResolvesOnce ==
    ASSUME OneDesk
    PROVE  Spec => ResolvedOnce
<1>1. Lawful => \A k \in Keys :
          request'[k] # request[k] /\ request'[k] \in {"approved", "denied"}
             => request[k] = "pending"
  BY DEF Lawful
<1> QED  BY <1>1, AlwaysKept, PTL DEF ResolvedOnce

\* With one administrator at a time, no message of the sender and no operation on the
\* identity takes a denial back (ensure_access_request, resolve_requests_for_identity).
LEMMA OneDeskDenialStands ==
    ASSUME OneDesk
    PROVE  Spec => DenialStands
<1>1. Lawful => \A k \in Keys : request[k] = "denied" => request'[k] = "denied"
  BY DEF Lawful
<1> QED  BY <1>1, AlwaysKept, PTL DEF DenialStands

\* With one administrator at a time, what was decided on a request stands.
THEOREM OneDeskDecides ==
    ASSUME OneDesk
    PROVE  Spec => DecisionsStand
<1> QED  BY OneDeskResolvesOnce, OneDeskDenialStands, PTL DEF DecisionsStand

-----------------------------------------------------------------------------
(* Tables, for any number of desks *)

\* The id a row is given: there is one, and no other row has it.
LEMMA NextIdIsNew ==
    ASSUME ConstantsAssumption, NEW last \in {MaxUsers, MaxRows}, NEW table, DOMAIN table \subseteq Ids(last)
    PROVE  NextId(table) \in 1..(last + 1) /\ NextId(table) \notin DOMAIN table
<1> DEFINE used     == DOMAIN table
           top      == Cardinality(used) + MaxUsers + MaxRows + 1
           Above    == {i \in 1..(last + 1) : \A j \in used : j < i}
           Below(i) == {x \in 1..(last + 1) : x < i}
           Cuts     == {Below(i) : i \in Above}
           R        == StrictSubsetOrdering(1..(last + 1))
           Good(i)  == (\A j \in used : j < i) /\ (i = 1 \/ i - 1 \in used)
<1>1. last \in Nat /\ used \subseteq 1..last /\ last + 1 \in Above
  BY DEF ConstantsAssumption, Ids
<1>2. PICK i \in Above : \A other \in Above : ~(other < i)
  <2>1. IsFiniteSet(1..(last + 1))  BY <1>1, FS_Interval
  <2>2. IsWellFoundedOn(R, SUBSET (1..(last + 1)))
    BY <2>1, FS_FiniteSubsetsOfFinite, FS_StrictSubsetOrderingWellFounded
  <2>3. Cuts \subseteq SUBSET (1..(last + 1)) /\ Cuts # {}  BY <1>1
  <2>4. PICK cut \in Cuts : \A other \in Cuts : <<other, cut>> \notin R
    <3> HIDE DEF Cuts, R
    <3> QED  BY <2>2, <2>3, WFMin, Zenon
  <2>5. PICK i \in Above : cut = Below(i)  OBVIOUS
  <2>6. ASSUME NEW other \in Above, other < i PROVE FALSE
    <3>1. Below(other) \subseteq Below(i) /\ other \in Below(i) /\ other \notin Below(other)
      BY <1>1, <2>6
    <3>2. /\ Below(other) \in SUBSET (1..(last + 1)) /\ Below(i) \in SUBSET (1..(last + 1))
          /\ Below(other) \in Cuts
      OBVIOUS
    <3> HIDE DEF Below, Cuts
    <3>3. <<Below(other), Below(i)>> \in R  BY <3>1, <3>2 DEF StrictSubsetOrdering
    <3> QED  BY <2>4, <2>5, <3>2, <3>3
  <2> QED  BY <2>6
<1>3. Good(i) /\ i \in 1..(last + 1)
  <2>1. CASE i # 1 /\ i - 1 \notin used
    <3>1. i - 1 \in Above /\ i - 1 < i  BY <1>1, <1>2, <2>1
    <3> QED  BY <1>2, <3>1
  <2> QED  BY <2>1
<1>4. top \in Nat /\ i \in 1..top
  <2>1. IsFiniteSet(used)
    <3>1. IsFiniteSet(1..last) /\ used \in SUBSET (1..last)  BY <1>1, FS_Interval
    <3> HIDE DEF used
    <3> QED  BY <3>1, FS_Subset
  <2>2. Cardinality(used) \in Nat  BY <2>1, FS_CardinalityType
  <2> HIDE DEF used
  <2> QED  BY <1>1, <1>3, <2>2 DEF ConstantsAssumption
<1>5. NextId(table) = CHOOSE j \in 1..top : Good(j)  BY DEF NextId
<1>6. NextId(table) \in 1..top /\ Good(NextId(table))
  <2> HIDE DEF Good, top
  <2> QED  BY <1>3, <1>4, <1>5
<1>7. NextId(table) <= last + 1
  <2>1. NextId(table) = 1 \/ NextId(table) - 1 \in 1..last  BY <1>1, <1>6
  <2> HIDE DEF top
  <2> QED  BY <1>1, <1>4, <1>6, <2>1
<1>8. NextId(table) \in 1..(last + 1)
  <2> HIDE DEF top, Good
  <2> QED  BY <1>1, <1>4, <1>6, <1>7
<1>9. NextId(table) \notin used
  <2> HIDE DEF top
  <2> QED  BY <1>6, <1>8
<1> QED  BY <1>8, <1>9

\* What a table is after an insertion.
IsWith(new, table, id, row) ==
    /\ DOMAIN new = DOMAIN table \cup {id} /\ new[id] = row
    /\ \A i \in DOMAIN table : new[i] = table[i]

LEMMA InsertedIs ==
    ASSUME ConstantsAssumption, NEW last \in {MaxUsers, MaxRows}, NEW table, DOMAIN table \subseteq Ids(last),
           NEW row
    PROVE  /\ NextId(table) \in 1..(last + 1) /\ NextId(table) \notin DOMAIN table
           /\ IsWith(Inserted(table, row), table, NextId(table), row)
<1>1. NextId(table) \in 1..(last + 1) /\ NextId(table) \notin DOMAIN table  BY NextIdIsNew
<1> QED  BY <1>1 DEF Inserted, IsWith

-----------------------------------------------------------------------------
(* What a desk has read *)

\* A user who was chosen for a link is not deleted.
KnowsUser(t) == t.op = "link" => t.user \in DOMAIN users

Typed == TypeOK /\ \A d \in Desks : KnowsUser(task[d])

\* What was read is still so.
Fresh(t) ==
    /\ t.op \in {"unlink", "grant", "revoke"} => t.id \in DOMAIN ident /\ ident[t.id][1] = t.key
    /\ t.op = "grant" => (t.held <=> PermissionRows(t.id, t.kind) # {})
    /\ t.op = "revoke" => t.row \in DOMAIN perms /\ perms[t.row] = <<t.id, t.kind>>
    /\ t.op \in {"activate", "deactivate"} => t.user \in DOMAIN users /\ t.active = users[t.user]

Opening(d) ==
    \/ OpenRequest(d) \/ OpenLink(d) \/ OpenUnlink(d) \/ OpenGrant(d) \/ OpenRevoke(d) \/ OpenActive(d)

LEMMA OpeningReads ==
    ASSUME TypeOK, NEW d \in Desks, Opening(d)
    PROVE  \E t \in Task : Start(d, t) /\ Fresh(t) /\ KnowsUser(t)
<1> DEFINE Read(t) == t \in Task /\ Fresh(t) /\ KnowsUser(t)
<1>1. CASE OpenRequest(d)
  <2>1. PICK k \in Keys, op \in {"approve", "deny"} : Start(d, [op |-> op, key |-> k])
    BY <1>1 DEF OpenRequest
  <2>2. Read([op |-> op, key |-> k])  BY DEF Task, Fresh, KnowsUser
  <2> QED  BY <2>1, <2>2
<1>2. CASE OpenLink(d)
  <2>1. PICK k \in Keys, u \in DOMAIN users : Start(d, [op |-> "link", key |-> k, user |-> u])
    BY <1>2 DEF OpenLink
  <2>2. Read([op |-> "link", key |-> k, user |-> u])  BY DEF Task, Fresh, KnowsUser, TypeOK
  <2> QED  BY <2>1, <2>2
<1>3. CASE OpenUnlink(d)
  <2>1. PICK i \in DOMAIN ident : Start(d, [op |-> "unlink", id |-> i, key |-> ident[i][1]])
    BY <1>3 DEF OpenUnlink
  <2>2. Read([op |-> "unlink", id |-> i, key |-> ident[i][1]])
    BY DEF Task, Fresh, KnowsUser, TypeOK
  <2> QED  BY <2>1, <2>2
<1>4. CASE OpenGrant(d)
  <2>1. PICK i \in DOMAIN ident, kind \in Kinds :
          Start(d, [op |-> "grant", id |-> i, key |-> ident[i][1], kind |-> kind,
                    held |-> PermissionRows(i, kind) # {}])
    BY <1>4 DEF OpenGrant
  <2>2. i \in Ids(MaxRows) /\ ident[i][1] \in Keys  BY DEF TypeOK
  <2>3. Read([op |-> "grant", id |-> i, key |-> ident[i][1], kind |-> kind,
              held |-> PermissionRows(i, kind) # {}])
    BY <2>2 DEF Task, Fresh, KnowsUser
  <2> QED  BY <2>1, <2>3
<1>5. CASE OpenRevoke(d)
  <2>1. PICK i \in DOMAIN ident, kind \in Kinds : \E p \in PermissionRows(i, kind) :
          Start(d, [op |-> "revoke", id |-> i, key |-> ident[i][1], kind |-> kind, row |-> p])
    BY <1>5 DEF OpenRevoke
  <2>2. PICK p \in PermissionRows(i, kind) :
          Start(d, [op |-> "revoke", id |-> i, key |-> ident[i][1], kind |-> kind, row |-> p])
    BY <2>1
  <2>3. i \in Ids(MaxRows) /\ ident[i][1] \in Keys /\ p \in Ids(MaxRows)
    BY DEF TypeOK, PermissionRows
  <2>4. Read([op |-> "revoke", id |-> i, key |-> ident[i][1], kind |-> kind, row |-> p])
    BY <2>3 DEF Task, Fresh, KnowsUser, PermissionRows
  <2> QED  BY <2>2, <2>4
<1>6. CASE OpenActive(d)
  <2>1. PICK u \in DOMAIN users, op \in {"activate", "deactivate"} :
          Start(d, [op |-> op, user |-> u, active |-> users[u]])
    BY <1>6 DEF OpenActive
  <2>2. u \in Ids(MaxUsers) /\ users[u] \in BOOLEAN  BY DEF TypeOK
  <2>3. Read([op |-> op, user |-> u, active |-> users[u]])
    BY <2>2 DEF Task, Fresh, KnowsUser
  <2> QED  BY <2>1, <2>3
<1> QED  BY <1>1, <1>2, <1>3, <1>4, <1>5, <1>6 DEF Opening

LEMMA TaskIs ==
    ASSUME NEW t \in Task
    PROVE  /\ t.op \in {"approve", "deny", "link", "unlink", "grant", "revoke"} => t.key \in Keys
           /\ t.op \in {"unlink", "grant", "revoke"} => t.id \in Ids(MaxRows)
           /\ t.op \in {"grant", "revoke"} => t.kind \in Kinds
           /\ t.op \in {"link", "activate", "deactivate"} => t.user \in Ids(MaxUsers)
           /\ t.op = "grant" => t.held \in BOOLEAN
           /\ t.op \in {"activate", "deactivate"} => t.active \in BOOLEAN
BY DEF Task, Idle

-----------------------------------------------------------------------------
(* Types, for any number of desks *)

LEMMA TypesAtStart == Init => Typed
<1> SUFFICES ASSUME Init PROVE Typed  OBVIOUS
<1>1. Idle \in Task /\ Idle.op = "idle"  BY DEF Idle, Task
<1>2. DOMAIN users = {} /\ DOMAIN ident = {} /\ DOMAIN perms = {}  BY DEF Init, Empty
<1>3. TypeOK  BY <1>1, <1>2 DEF Init, TypeOK, Statuses
<1> QED  BY <1>1, <1>3 DEF Init, Typed, KnowsUser

\* The tables, as the database keeps them: a key is of an identity there is.
TablesOK ==
    /\ DOMAIN users \subseteq Ids(MaxUsers) /\ \A u \in DOMAIN users : users[u] \in BOOLEAN
    /\ DOMAIN ident \subseteq Ids(MaxRows) /\ \A i \in DOMAIN ident : ident[i] \in Keys \X (DOMAIN users)
    /\ DOMAIN perms \subseteq Ids(MaxRows) /\ \A p \in DOMAIN perms : perms[p] \in (DOMAIN ident) \X Kinds
    /\ request \in [Keys -> Statuses]
    /\ word \in [Keys \X Kinds -> {"none", "granted", "withdrawn"}]
    /\ said \in [Ids(MaxUsers) -> BOOLEAN]

\* A step that leaves the tables in order, and a desk with what it has read or with nothing.
LEMMA TablesAreEnough ==
    ASSUME Typed, TablesOK', DOMAIN users \subseteq DOMAIN users',
           visit' \in [Keys -> {"away", "refused"} \cup Statuses],
           tasks' \in Nat, visits' \in Nat,
           task' = task \/ \E d \in Desks, t \in Task : KnowsUser(t) /\ task' = [task EXCEPT ![d] = t]
    PROVE  Typed'
<1>1. /\ task' \in [Desks -> Task]
      /\ \A d \in Desks : task'[d].op = "link" => task'[d].user \in DOMAIN users
  <2>1. CASE task' = task  BY <2>1 DEF Typed, TypeOK, KnowsUser
  <2>2. ASSUME NEW d \in Desks, NEW t \in Task, KnowsUser(t), task' = [task EXCEPT ![d] = t]
        PROVE  <1>1!1 /\ <1>1!2
    BY <2>2 DEF Typed, TypeOK, KnowsUser
  <2> QED  BY <2>1, <2>2
<1>2. TypeOK'  BY <1>1 DEF TablesOK, TypeOK
<1> QED  BY <1>1, <1>2 DEF Typed, KnowsUser

LEMMA IdleKnows == Idle \in Task /\ KnowsUser(Idle)
BY DEF Idle, Task, KnowsUser

\* An identity gets a permission that it does not have.
LEMMA GivenIsTyped ==
    ASSUME TypeOK, ConstantsAssumption, NEW i \in DOMAIN ident, NEW kind \in Kinds,
           perms' = Inserted(perms, <<i, kind>>), DOMAIN perms' \subseteq Ids(MaxRows)
    PROVE  /\ NextId(perms) \notin DOMAIN perms
           /\ IsWith(perms', perms, NextId(perms), <<i, kind>>)
           /\ \A p \in DOMAIN perms' : perms'[p] \in (DOMAIN ident) \X Kinds
<1>1. DOMAIN perms \subseteq Ids(MaxRows)  BY DEF TypeOK
<1>2. NextId(perms) \notin DOMAIN perms /\ IsWith(perms', perms, NextId(perms), <<i, kind>>)
  BY <1>1, InsertedIs
<1> QED  BY <1>2 DEF IsWith, TypeOK

\* A user is created, and is active.
LEMMA CreatedIsTyped ==
    ASSUME TypeOK, ConstantsAssumption, NextId(users) <= MaxUsers, users' = Inserted(users, TRUE)
    PROVE  /\ NextId(users) \in Ids(MaxUsers) /\ NextId(users) \notin DOMAIN users
           /\ IsWith(users', users, NextId(users), TRUE)
           /\ DOMAIN users' \subseteq Ids(MaxUsers) /\ \A u \in DOMAIN users' : users'[u] \in BOOLEAN
<1>1. DOMAIN users \subseteq Ids(MaxUsers)  BY DEF TypeOK
<1>2. /\ NextId(users) \in 1..(MaxUsers + 1) /\ NextId(users) \notin DOMAIN users
      /\ IsWith(users', users, NextId(users), TRUE)
  BY <1>1, InsertedIs
<1>3. NextId(users) \in Ids(MaxUsers)  BY <1>2 DEF ConstantsAssumption, Ids
<1> QED  BY <1>1, <1>2, <1>3 DEF IsWith, TypeOK

\* An identity is created.
LEMMA LinkedIsTyped ==
    ASSUME TypeOK, ConstantsAssumption, NEW k \in Keys, NEW u,
           ident' = Inserted(ident, <<k, u>>)
    PROVE  /\ NextId(ident) \in Nat /\ NextId(ident) \notin DOMAIN ident
           /\ IsWith(ident', ident, NextId(ident), <<k, u>>)
           /\ NextId(ident) <= MaxRows => DOMAIN ident' \subseteq Ids(MaxRows)
<1>1. DOMAIN ident \subseteq Ids(MaxRows)  BY DEF TypeOK
<1>2. /\ NextId(ident) \in 1..(MaxRows + 1) /\ NextId(ident) \notin DOMAIN ident
      /\ IsWith(ident', ident, NextId(ident), <<k, u>>)
  BY <1>1, InsertedIs
<1>3. NextId(ident) \in Nat /\ (NextId(ident) <= MaxRows => NextId(ident) \in Ids(MaxRows))
  BY <1>2 DEF ConstantsAssumption, Ids
<1> QED  BY <1>1, <1>2, <1>3 DEF IsWith

LEMMA ApproveIsTyped ==
    ASSUME Typed, ConstantsAssumption, NEW d \in Desks, Approve(d)
    PROVE  TablesOK' /\ DOMAIN users \subseteq DOMAIN users'
<1> DEFINE k == task[d].key
<1>1. k \in Keys  BY TaskIs DEF Approve, Done, Typed, TypeOK
<1>2. "chat" \in Kinds  BY DEF Kinds
<1>3. /\ request' = [request EXCEPT ![k] = "approved"] /\ word' = [word EXCEPT ![<<k, "chat">>] = "granted"]
      /\ said' = said /\ DOMAIN ident' \subseteq Ids(MaxRows) /\ DOMAIN perms' \subseteq Ids(MaxRows)
  BY DEF Approve, Granted
<1>4. /\ request' \in [Keys -> Statuses] /\ said' \in [Ids(MaxUsers) -> BOOLEAN]
      /\ word' \in [Keys \X Kinds -> {"none", "granted", "withdrawn"}]
  <2> HIDE DEF k
  <2> QED  BY <1>1, <1>2, <1>3 DEF Typed, TypeOK, Statuses
<1>5. CASE IdentitiesOf(k) # {}
  <2>1. users' = users /\ ident' = ident  BY <1>5 DEF Approve
  <2>2. PICK i \in IdentitiesOf(k) :
          perms' = IF PermissionRows(i, "chat") = {} THEN Inserted(perms, <<i, "chat">>) ELSE perms
    BY <1>5 DEF Approve
  <2>3. i \in DOMAIN ident  BY DEF IdentitiesOf
  <2>4. \A p \in DOMAIN perms' : perms'[p] \in (DOMAIN ident) \X Kinds
    BY <1>2, <1>3, <2>2, <2>3, GivenIsTyped DEF Typed, TypeOK
  <2> QED  BY <1>3, <1>4, <2>1, <2>4 DEF Typed, TypeOK, TablesOK
<1>6. CASE IdentitiesOf(k) = {}
  <2> DEFINE i == NextId(ident)
             u == NextId(users)
  <2>1. /\ u <= MaxUsers /\ users' = Inserted(users, TRUE)
        /\ ident' = Inserted(ident, <<k, u>>) /\ perms' = Inserted(perms, <<i, "chat">>)
    BY <1>6 DEF Approve
  <2>2. /\ IsWith(users', users, u, TRUE)
        /\ DOMAIN users' \subseteq Ids(MaxUsers) /\ \A v \in DOMAIN users' : users'[v] \in BOOLEAN
    BY <2>1, CreatedIsTyped DEF Typed
  <2>3. IsWith(ident', ident, i, <<k, u>>)
    <3> HIDE DEF k, u
    <3> QED  BY <1>1, <2>1, LinkedIsTyped DEF Typed
  <2>4. IsWith(perms', perms, NextId(perms), <<i, "chat">>)
    BY <2>1, InsertedIs DEF Typed, TypeOK
  <2> HIDE DEF k, i, u
  <2>5. \A j \in DOMAIN ident' : ident'[j] \in Keys \X (DOMAIN users')
    <3>1. \A j \in DOMAIN ident : ident[j] \in Keys \X (DOMAIN users')
      BY <2>2 DEF IsWith, Typed, TypeOK
    <3>2. <<k, u>> \in Keys \X (DOMAIN users')  BY <1>1, <2>2 DEF IsWith
    <3> QED  BY <2>3, <3>1, <3>2 DEF IsWith
  <2>6. \A p \in DOMAIN perms' : perms'[p] \in (DOMAIN ident') \X Kinds
    <3>1. \A p \in DOMAIN perms : perms[p] \in (DOMAIN ident') \X Kinds
      BY <2>3 DEF IsWith, Typed, TypeOK
    <3>2. <<i, "chat">> \in (DOMAIN ident') \X Kinds  BY <1>2, <2>3 DEF IsWith
    <3> QED  BY <2>4, <3>1, <3>2 DEF IsWith
  <2> QED  BY <1>3, <1>4, <2>2, <2>5, <2>6 DEF TablesOK, IsWith
<1> QED  BY <1>5, <1>6

LEMMA LinkIsTyped ==
    ASSUME Typed, ConstantsAssumption, NEW d \in Desks, Link(d)
    PROVE  TablesOK' /\ DOMAIN users \subseteq DOMAIN users'
<1> DEFINE k == task[d].key
           u == task[d].user
           i == NextId(ident)
<1>1. k \in Keys /\ u \in DOMAIN users  BY TaskIs DEF Link, Done, Typed, TypeOK, KnowsUser
<1>2. /\ i <= MaxRows /\ ident' = Inserted(ident, <<k, u>>) /\ request' = Resolved(k)
      /\ users' = users /\ perms' = perms /\ word' = word /\ said' = said
  BY DEF Link
<1> HIDE DEF k, u
<1>3. IsWith(ident', ident, i, <<k, u>>) /\ DOMAIN ident' \subseteq Ids(MaxRows)
  BY <1>1, <1>2, LinkedIsTyped DEF Typed
<1> HIDE DEF i
<1>4. request' \in [Keys -> Statuses]  BY <1>2 DEF Resolved, Statuses, Typed, TypeOK
<1>5. \A j \in DOMAIN ident' : ident'[j] \in Keys \X (DOMAIN users)
  <2>1. \A j \in DOMAIN ident : ident[j] \in Keys \X (DOMAIN users)  BY DEF Typed, TypeOK
  <2>2. <<k, u>> \in Keys \X (DOMAIN users)  BY <1>1
  <2> QED  BY <1>3, <2>1, <2>2 DEF IsWith
<1>6. \A p \in DOMAIN perms : perms[p] \in (DOMAIN ident') \X Kinds
  BY <1>3 DEF IsWith, Typed, TypeOK
<1> QED  BY <1>2, <1>3, <1>4, <1>5, <1>6 DEF Typed, TypeOK, TablesOK

LEMMA GrantIsTyped ==
    ASSUME Typed, ConstantsAssumption, NEW d \in Desks, Grant(d)
    PROVE  TablesOK' /\ DOMAIN users \subseteq DOMAIN users'
<1> DEFINE t == task[d]
<1>1. t \in Task /\ t.key \in Keys /\ t.kind \in Kinds  BY TaskIs DEF Grant, Done, Typed, TypeOK
<1>2. /\ request' = Resolved(t.key) /\ word' = [word EXCEPT ![<<t.key, t.kind>>] = "granted"]
      /\ users' = users /\ ident' = ident /\ said' = said
      /\ \/ perms' = perms
         \/ /\ t.id \in DOMAIN ident /\ NextId(perms) <= MaxRows
            /\ perms' = Inserted(perms, <<t.id, t.kind>>)
  BY DEF Grant, Granted
<1> HIDE DEF t
<1>3. request' \in [Keys -> Statuses]  BY <1>2 DEF Resolved, Statuses, Typed, TypeOK
<1>4. word' \in [Keys \X Kinds -> {"none", "granted", "withdrawn"}]  BY <1>1, <1>2 DEF Typed, TypeOK
<1>5. DOMAIN perms' \subseteq Ids(MaxRows) /\ \A p \in DOMAIN perms' : perms'[p] \in (DOMAIN ident) \X Kinds
  <2>1. CASE perms' = perms  BY <2>1 DEF Typed, TypeOK
  <2>2. CASE t.id \in DOMAIN ident /\ NextId(perms) <= MaxRows /\ perms' = Inserted(perms, <<t.id, t.kind>>)
    <3>1. DOMAIN perms \subseteq Ids(MaxRows)  BY DEF Typed, TypeOK
    <3>2. /\ NextId(perms) \in 1..(MaxRows + 1)
          /\ IsWith(perms', perms, NextId(perms), <<t.id, t.kind>>)
      BY <2>2, <3>1, InsertedIs
    <3>3. DOMAIN perms' \subseteq Ids(MaxRows)
      BY <2>2, <3>1, <3>2 DEF IsWith, Ids, ConstantsAssumption
    <3> QED  BY <1>1, <2>2, <3>3, GivenIsTyped DEF Typed
  <2> QED  BY <1>2, <2>1, <2>2
<1> QED  BY <1>2, <1>3, <1>4, <1>5 DEF Typed, TypeOK, TablesOK

LEMMA OthersAreTyped ==
    ASSUME Typed, NEW d \in Desks, Deny(d) \/ Unlink(d) \/ Revoke(d) \/ SetActive(d) \/ Abandon(d)
    PROVE  TablesOK' /\ DOMAIN users \subseteq DOMAIN users'
<1> DEFINE t == task[d]
<1>1. t \in Task  BY DEF Typed, TypeOK
<1>2. CASE Deny(d)
  BY <1>2 DEF Deny, Statuses, Typed, TypeOK, TablesOK
<1>3. CASE Unlink(d)
  <2>1. /\ ident' = Without(ident, {t.id}) /\ perms' = PermissionsWithout(t.id)
        /\ word' = [w \in Keys \X Kinds |->
                      IF w[1] = t.key /\ word[w] = "granted" THEN "withdrawn" ELSE word[w]]
        /\ users' = users /\ request' = request /\ said' = said
    BY <1>3 DEF Unlink
  <2> HIDE DEF t
  <2>2. word' \in [Keys \X Kinds -> {"none", "granted", "withdrawn"}]
    BY <2>1 DEF Typed, TypeOK
  <2>3. DOMAIN ident' = DOMAIN ident \ {t.id} /\ \A i \in DOMAIN ident' : ident'[i] = ident[i]
    BY <2>1 DEF Without
  <2>4. /\ DOMAIN perms' = {p \in DOMAIN perms : perms[p][1] # t.id}
        /\ \A p \in DOMAIN perms' : perms'[p] = perms[p]
    BY <2>1 DEF PermissionsWithout, Without
  <2>5. \A p \in DOMAIN perms' : perms'[p] \in (DOMAIN ident') \X Kinds
    BY <2>3, <2>4 DEF Typed, TypeOK
  <2>6. \A i \in DOMAIN ident' : ident'[i] \in Keys \X (DOMAIN users)
    BY <2>3 DEF Typed, TypeOK
  <2> QED  BY <2>1, <2>2, <2>3, <2>4, <2>5, <2>6 DEF Typed, TypeOK, TablesOK
<1>4. CASE Revoke(d)
  <2>1. /\ perms' = Without(perms, {t.row}) /\ word' = [word EXCEPT ![<<t.key, t.kind>>] = "withdrawn"]
        /\ users' = users /\ ident' = ident /\ request' = request /\ said' = said
    BY <1>4 DEF Revoke, RevokedRows
  <2> HIDE DEF t
  <2>2. DOMAIN perms' \subseteq DOMAIN perms /\ \A p \in DOMAIN perms' : perms'[p] = perms[p]
    BY <2>1 DEF Without
  <2>3. word' \in [Keys \X Kinds -> {"none", "granted", "withdrawn"}]  BY <2>1 DEF Typed, TypeOK
  <2> QED  BY <2>1, <2>2, <2>3 DEF Typed, TypeOK, TablesOK
<1>5. CASE SetActive(d)
  <2>1. /\ users' = users \/ users' = [users EXCEPT ![t.user] = Activity(t)]
        /\ said' = [said EXCEPT ![t.user] = (t.op = "activate")]
        /\ ident' = ident /\ perms' = perms /\ request' = request /\ word' = word
    BY <1>5 DEF SetActive
  <2> HIDE DEF t
  <2>2. Activity(t) \in BOOLEAN  BY DEF Activity
  <2>3. DOMAIN users' = DOMAIN users /\ \A u \in DOMAIN users : users'[u] \in BOOLEAN
    BY <2>1, <2>2 DEF Typed, TypeOK
  <2>4. said' \in [Ids(MaxUsers) -> BOOLEAN]  BY <2>1 DEF Typed, TypeOK
  <2> QED  BY <2>1, <2>3, <2>4 DEF Typed, TypeOK, TablesOK
<1>6. CASE Abandon(d)
  BY <1>6 DEF Abandon, rowVars, Typed, TypeOK, TablesOK
<1> QED  BY <1>2, <1>3, <1>4, <1>5, <1>6

LEMMA TypesKept ==
    ASSUME Typed, ConstantsAssumption, [Next]_vars
    PROVE  Typed'
<1>1. TablesOK  BY DEF Typed, TypeOK, TablesOK
<1>2. CASE UNCHANGED vars
  BY <1>2 DEF vars, rowVars, Typed, TypeOK, KnowsUser
<1>3. CASE Sender
  <2>1. PICK k \in Keys : Knock(k) \/ LookUpRequest(k) \/ FileRequest(k)  BY <1>3 DEF Sender
  <2>2. request' \in [Keys -> Statuses]
    BY <2>1 DEF Knock, LookUpRequest, FileRequest, rowVars, Statuses, Typed, TypeOK
  <2>3. visit' \in [Keys -> {"away", "refused"} \cup Statuses]
    BY <2>1 DEF Knock, LookUpRequest, FileRequest, Typed, TypeOK
  <2>4. /\ users' = users /\ ident' = ident /\ perms' = perms /\ task' = task /\ word' = word
        /\ said' = said /\ tasks' \in Nat /\ visits' \in Nat
    BY <2>1 DEF Knock, LookUpRequest, FileRequest, rowVars, Typed, TypeOK
  <2>5. TablesOK'  BY <1>1, <2>2, <2>4 DEF TablesOK
  <2> QED  BY <2>3, <2>4, <2>5, TablesAreEnough
<1>4. CASE CreateUser
  <2>1. /\ NextId(users) <= MaxUsers /\ users' = Inserted(users, TRUE) /\ tasks' = tasks + 1
        /\ ident' = ident /\ perms' = perms /\ request' = request /\ visit' = visit
        /\ task' = task /\ word' = word /\ said' = said /\ visits' = visits
    BY <1>4 DEF CreateUser
  <2>2. /\ IsWith(users', users, NextId(users), TRUE)
        /\ DOMAIN users' \subseteq Ids(MaxUsers) /\ \A u \in DOMAIN users' : users'[u] \in BOOLEAN
    BY <2>1, CreatedIsTyped DEF Typed
  <2>3. DOMAIN users \subseteq DOMAIN users'  BY <2>2 DEF IsWith
  <2>4. TablesOK'  BY <1>1, <2>1, <2>2, <2>3 DEF TablesOK
  <2>5. visit' \in [Keys -> {"away", "refused"} \cup Statuses] /\ tasks' \in Nat /\ visits' \in Nat
    BY <2>1 DEF Typed, TypeOK
  <2> QED  BY <2>1, <2>3, <2>4, <2>5, TablesAreEnough
<1>5. ASSUME NEW d \in Desks, Opening(d) PROVE Typed'
  <2>1. PICK t \in Task : Start(d, t) /\ KnowsUser(t)  BY <1>5, OpeningReads DEF Typed
  <2>2. /\ task' = [task EXCEPT ![d] = t] /\ tasks' = tasks + 1
        /\ users' = users /\ ident' = ident /\ perms' = perms /\ request' = request /\ visit' = visit
        /\ word' = word /\ said' = said /\ visits' = visits
    BY <2>1 DEF Start, rowVars
  <2>3. TablesOK'  BY <1>1, <2>2 DEF TablesOK
  <2>4. visit' \in [Keys -> {"away", "refused"} \cup Statuses] /\ tasks' \in Nat /\ visits' \in Nat
    BY <2>2 DEF Typed, TypeOK
  <2> QED  BY <2>1, <2>2, <2>3, <2>4, TablesAreEnough
<1>6. ASSUME NEW d \in Desks,
             \/ Approve(d) \/ Deny(d) \/ Link(d) \/ Unlink(d)
             \/ Grant(d) \/ Revoke(d) \/ SetActive(d) \/ Abandon(d)
      PROVE  Typed'
  <2>1. TablesOK' /\ DOMAIN users \subseteq DOMAIN users'
    BY <1>6, ApproveIsTyped, LinkIsTyped, GrantIsTyped, OthersAreTyped
  <2>2. task' = [task EXCEPT ![d] = Idle] /\ visit' = visit /\ tasks' = tasks /\ visits' = visits
    BY <1>6 DEF Approve, Deny, Link, Unlink, Grant, Revoke, SetActive, Abandon, Done
  <2>3. visit' \in [Keys -> {"away", "refused"} \cup Statuses] /\ tasks' \in Nat /\ visits' \in Nat
    BY <2>2 DEF Typed, TypeOK
  <2> QED  BY <2>1, <2>2, <2>3, IdleKnows, TablesAreEnough
<1> QED  BY <1>2, <1>3, <1>4, <1>5, <1>6 DEF Next, Desk, Opening

LEMMA AlwaysTyped == Spec => []Typed
<1>1. Init => Typed  BY TypesAtStart
<1>2. Typed /\ [Next]_vars => Typed'  BY TypesKept, ConstantsAssumption
<1> QED  BY <1>1, <1>2, PTL DEF Spec

\* However many desks overlap, a permission is of an identity there is, and an identity of
\* a user there is: who removes one removes its permissions (remove_channel_identity), and
\* a grant that comes late is refused.
THEOREM TypeCorrect == Spec => []TypeOK
<1>1. Typed => TypeOK  BY DEF Typed
<1> QED  BY <1>1, AlwaysTyped, PTL

-----------------------------------------------------------------------------
(* The trail, with one desk *)

\* A key has one identity, and an identity a permission once.
LinkedOnce == \A i, j \in DOMAIN ident : ident[i][1] = ident[j][1] => i = j
HeldOnce   == \A p, q \in DOMAIN perms : perms[p] = perms[q] => p = q

\* A user is created active, and an id is not given again.
NewAreActive == \A u \in Ids(MaxUsers) \ DOMAIN users : said[u]

Tables == LinkedOnce /\ HeldOnce /\ NewAreActive /\ TrailTellsAccess

\* What the only desk has read is still so.
Told == Typed /\ Tables /\ \A d \in Desks : Fresh(task[d])

\* An identity has a permission, in terms of rows.
Has(i, kind) == \E p \in DOMAIN perms : perms[p] = <<i, kind>>

LEMMA HeldIsHas ==
    ASSUME Typed, LinkedOnce, NEW i \in DOMAIN ident, NEW kind
    PROVE  Held(ident[i][1], kind) <=> Has(i, kind)
<1>1. IdentitiesOf(ident[i][1]) = {i}  BY DEF IdentitiesOf, LinkedOnce
<1> QED  BY <1>1 DEF Held, PermissionRows, Has

\* An identity is given a permission, and the trail says so.
LEMMA GivingTells ==
    ASSUME Typed, Tables, ConstantsAssumption, NEW i \in DOMAIN ident, NEW kind \in Kinds,
           UNCHANGED <<users, ident, said>>,
           word' = [word EXCEPT ![<<ident[i][1], kind>>] = "granted"],
           \/ perms' = perms /\ Has(i, kind)
           \/ IsWith(perms', perms, NextId(perms), <<i, kind>>) /\ ~Has(i, kind)
              /\ NextId(perms) \notin DOMAIN perms
    PROVE  Tables'
<1>1. LinkedOnce' /\ NewAreActive'  BY DEF Tables, LinkedOnce, NewAreActive
<1>2. HeldOnce'
  <2>1. CASE perms' = perms  BY <2>1 DEF Tables, HeldOnce
  <2>2. CASE perms' # perms
    <3> DEFINE new == NextId(perms)
    <3>1. IsWith(perms', perms, new, <<i, kind>>) /\ ~Has(i, kind)  BY <2>2
    <3> HIDE DEF new
    <3> QED  BY <3>1 DEF IsWith, Has, Tables, HeldOnce
  <2> QED  BY <2>1, <2>2
<1>3. \A j, other : Has(j, other)' <=> Has(j, other) \/ (j = i /\ other = kind)
  <2>1. CASE perms' = perms /\ Has(i, kind)  BY <2>1 DEF Has
  <2>2. CASE IsWith(perms', perms, NextId(perms), <<i, kind>>) /\ NextId(perms) \notin DOMAIN perms
    <3> DEFINE new == NextId(perms)
    <3>1. IsWith(perms', perms, new, <<i, kind>>) /\ new \notin DOMAIN perms  BY <2>2
    <3> HIDE DEF new
    <3>2. ASSUME NEW j, NEW other, NEW p \in DOMAIN perms', perms'[p] = <<j, other>>
          PROVE  Has(j, other) \/ (j = i /\ other = kind)
      BY <3>1, <3>2 DEF IsWith, Has
    <3>3. ASSUME NEW j, NEW other, Has(j, other) PROVE Has(j, other)'
      BY <3>1, <3>3 DEF IsWith, Has
    <3>4. Has(i, kind)'  BY <3>1 DEF IsWith, Has
    <3> QED  BY <3>2, <3>3, <3>4 DEF Has
  <2> QED  BY <2>1, <2>2
<1>4. \A k, other : Held(k, other) <=> \E j \in IdentitiesOf(k) : Has(j, other)
  BY DEF Held, PermissionRows, Has
<1>5. \A k, other : Held(k, other)' <=> \E j \in IdentitiesOf(k) : Has(j, other)'
  BY DEF Held, PermissionRows, Has, IdentitiesOf
<1>6. \A k : i \in IdentitiesOf(k) <=> k = ident[i][1]  BY DEF IdentitiesOf
<1>7. \A k, other : Held(k, other)' <=> Held(k, other) \/ (k = ident[i][1] /\ other = kind)
  BY <1>3, <1>4, <1>5, <1>6
<1>8. ident[i][1] \in Keys /\ word \in [Keys \X Kinds -> {"none", "granted", "withdrawn"}]
  BY DEF Typed, TypeOK
<1>9. \A k \in Keys, other \in Kinds :
        word'[<<k, other>>] = IF k = ident[i][1] /\ other = kind THEN "granted" ELSE word[<<k, other>>]
  BY <1>8
<1>10. TrailTellsAccess'
  BY <1>7, <1>9 DEF Tables, TrailTellsAccess
<1> QED  BY <1>1, <1>2, <1>10 DEF Tables

\* Rows without permissions: a user is created, an identity linked to one.
LEMMA UserTells ==
    ASSUME Typed, Tables, UNCHANGED said,
           NEW u \in Ids(MaxUsers), u \notin DOMAIN users, IsWith(users', users, u, TRUE)
    PROVE  /\ \A v \in DOMAIN users' : users'[v] = said'[v]
           /\ NewAreActive'
<1>1. said[u] = TRUE  BY DEF Typed, TypeOK, Tables, NewAreActive
<1> QED  BY <1>1 DEF IsWith, Tables, TrailTellsAccess, NewAreActive

LEMMA HeldIs ==
    \A k, kind : Held(k, kind) <=> \E i \in IdentitiesOf(k) : Has(i, kind)
BY DEF Held, PermissionRows, Has

\* A key that had no identity gets one, with the permissions given.
LEMMA LinkingTells ==
    ASSUME Typed, Tables, NEW k \in Keys, IdentitiesOf(k) = {}, NEW i, NEW u, NEW given,
           i \notin DOMAIN ident, IsWith(ident', ident, i, <<k, u>>),
           \A j, kind : Has(j, kind)' <=> Has(j, kind) \/ (j = i /\ kind \in given),
           \A other \in Keys, kind \in Kinds :
              word'[<<other, kind>>] = IF other = k /\ kind \in given THEN "granted"
                                       ELSE word[<<other, kind>>]
    PROVE  /\ LinkedOnce'
           /\ \A other \in Keys, kind \in Kinds : Held(other, kind)' <=> word'[<<other, kind>>] = "granted"
<1>1. LinkedOnce'
  <2>1. \A j \in DOMAIN ident : ident[j][1] # k  BY DEF IdentitiesOf
  <2>2. <<k, u>>[1] = k  OBVIOUS
  <2> QED  BY <2>1, <2>2 DEF LinkedOnce, IsWith, Tables
<1>2. IdentitiesOf(k)' = {i} /\ \A other : other # k => IdentitiesOf(other)' = IdentitiesOf(other)
  BY DEF IsWith, IdentitiesOf
<1>3. \A kind : ~Has(i, kind)
  <2>1. \A p \in DOMAIN perms : perms[p][1] \in DOMAIN ident  BY DEF Typed, TypeOK
  <2> QED  BY <2>1 DEF Has
<1>4. \A other, kind : Held(other, kind)' <=> \E j \in IdentitiesOf(other)' : Has(j, kind)'
  BY DEF Held, PermissionRows, Has
<1>5. ASSUME NEW other \in Keys, NEW kind \in Kinds
      PROVE  Held(other, kind)' <=> word'[<<other, kind>>] = "granted"
  <2>1. Held(other, kind) <=> word[<<other, kind>>] = "granted"  BY DEF Tables, TrailTellsAccess
  <2>2. CASE other = k
    <3>1. ~Held(k, kind)  BY DEF Held
    <3>2. Held(k, kind)' <=> kind \in given  BY <1>2, <1>3, <1>4
    <3> QED  BY <2>1, <2>2, <3>1, <3>2
  <2>3. CASE other # k
    <3>1. i \notin IdentitiesOf(other)  BY DEF IdentitiesOf
    <3>2. Held(other, kind)' <=> \E j \in IdentitiesOf(other) : Has(j, kind)
      BY <1>2, <1>4, <2>3, <3>1
    <3> QED  BY <2>1, <2>3, <3>2, HeldIs
  <2> QED  BY <2>2, <2>3
<1> QED  BY <1>1, <1>5

LEMMA ApproveTells ==
    ASSUME Typed, Tables, ConstantsAssumption, NEW d \in Desks, Approve(d)
    PROVE  Tables'
<1>1. PICK k \in Keys : k = task[d].key  BY TaskIs DEF Approve, Done, Typed, TypeOK
<1>2. "chat" \in Kinds  BY DEF Kinds
<1>3. word' = [word EXCEPT ![<<k, "chat">>] = "granted"] /\ said' = said
  BY <1>1 DEF Approve, Granted
<1>4. CASE IdentitiesOf(k) # {}
  <2>1. users' = users /\ ident' = ident  BY <1>1, <1>4 DEF Approve
  <2>2. PICK i \in IdentitiesOf(k) :
          perms' = IF PermissionRows(i, "chat") = {} THEN Inserted(perms, <<i, "chat">>) ELSE perms
    BY <1>1, <1>4 DEF Approve
  <2>3. i \in DOMAIN ident /\ ident[i][1] = k  BY DEF IdentitiesOf
  <2>4. PermissionRows(i, "chat") = {} <=> ~Has(i, "chat")  BY DEF PermissionRows, Has
  <2>5. DOMAIN perms \subseteq Ids(MaxRows)  BY DEF Typed, TypeOK
  <2>6. /\ NextId(perms) \notin DOMAIN perms
        /\ IsWith(Inserted(perms, <<i, "chat">>), perms, NextId(perms), <<i, "chat">>)
    BY <2>5, InsertedIs
  <2> QED  BY <1>2, <1>3, <2>1, <2>2, <2>3, <2>4, <2>6, GivingTells
<1>5. CASE IdentitiesOf(k) = {}
  <2>1. PICK i, u, p : i = NextId(ident) /\ u = NextId(users) /\ p = NextId(perms)  OBVIOUS
  <2>2. /\ NextId(users) <= MaxUsers /\ users' = Inserted(users, TRUE)
        /\ ident' = Inserted(ident, <<k, u>>) /\ perms' = Inserted(perms, <<i, "chat">>)
    BY <1>1, <1>5, <2>1 DEF Approve
  <2>3. u \in Ids(MaxUsers) /\ u \notin DOMAIN users /\ IsWith(users', users, u, TRUE)
    BY <2>1, <2>2, CreatedIsTyped DEF Typed
  <2>4. i \notin DOMAIN ident /\ IsWith(ident', ident, i, <<k, u>>)
    BY <2>1, <2>2, LinkedIsTyped DEF Typed
  <2>5. p \notin DOMAIN perms /\ IsWith(perms', perms, p, <<i, "chat">>)
    <3>1. DOMAIN perms \subseteq Ids(MaxRows)  BY DEF Typed, TypeOK
    <3> QED  BY <2>1, <2>2, <3>1, InsertedIs
  <2>6. \A j, kind : Has(j, kind)' <=> Has(j, kind) \/ (j = i /\ kind \in {"chat"})
    <3>1. ASSUME NEW j, NEW kind, NEW q \in DOMAIN perms', perms'[q] = <<j, kind>>
          PROVE  Has(j, kind) \/ (j = i /\ kind = "chat")
      BY <2>5, <3>1 DEF IsWith, Has
    <3>2. ASSUME NEW j, NEW kind, Has(j, kind) PROVE Has(j, kind)'
      BY <2>5, <3>2 DEF IsWith, Has
    <3>3. Has(i, "chat")'  BY <2>5 DEF IsWith, Has
    <3> QED  BY <3>1, <3>2, <3>3 DEF Has
  <2>7. \A other \in Keys, kind \in Kinds :
          word'[<<other, kind>>] = IF other = k /\ kind \in {"chat"} THEN "granted"
                                   ELSE word[<<other, kind>>]
    BY <1>2, <1>3 DEF Typed, TypeOK
  <2>8. LinkedOnce' /\ \A other \in Keys, kind \in Kinds :
                          Held(other, kind)' <=> word'[<<other, kind>>] = "granted"
    <3>1. PICK given : given = {"chat"}  OBVIOUS
    <3>2. \A j, kind : Has(j, kind)' <=> Has(j, kind) \/ (j = i /\ kind \in given)
      BY <2>6, <3>1
    <3>3. \A other \in Keys, kind \in Kinds :
            word'[<<other, kind>>] = IF other = k /\ kind \in given THEN "granted"
                                     ELSE word[<<other, kind>>]
      BY <2>7, <3>1
    <3> QED  BY <1>5, <2>4, <3>2, <3>3, LinkingTells
  <2>9. HeldOnce'
    <3>1. \A q \in DOMAIN perms : perms[q] # <<i, "chat">>  BY <2>4 DEF Typed, TypeOK
    <3> QED  BY <2>5, <3>1 DEF IsWith, Tables, HeldOnce
  <2>10. NewAreActive' /\ \A v \in DOMAIN users' : users'[v] = said'[v]
    BY <1>3, <2>3, UserTells
  <2> QED  BY <2>8, <2>9, <2>10 DEF Tables, TrailTellsAccess
<1> QED  BY <1>4, <1>5

LEMMA LinkTells ==
    ASSUME Typed, Tables, ConstantsAssumption, NEW d \in Desks, Link(d)
    PROVE  Tables'
<1>1. PICK k \in Keys : k = task[d].key  BY TaskIs DEF Link, Done, Typed, TypeOK
<1>2. PICK i, u : i = NextId(ident) /\ u = task[d].user  OBVIOUS
<1>3. /\ IdentitiesOf(k) = {} /\ ident' = Inserted(ident, <<k, u>>)
      /\ users' = users /\ perms' = perms /\ word' = word /\ said' = said
  BY <1>1, <1>2 DEF Link
<1>4. i \notin DOMAIN ident /\ IsWith(ident', ident, i, <<k, u>>)
  BY <1>2, <1>3, LinkedIsTyped DEF Typed
<1>5. \A j, kind : Has(j, kind)' <=> Has(j, kind) \/ (j = i /\ kind \in {})  BY <1>3 DEF Has
<1>6. \A other \in Keys, kind \in Kinds :
        word'[<<other, kind>>] = IF other = k /\ kind \in {} THEN "granted" ELSE word[<<other, kind>>]
  BY <1>3
<1>7. LinkedOnce' /\ \A other \in Keys, kind \in Kinds :
                        Held(other, kind)' <=> word'[<<other, kind>>] = "granted"
  BY <1>3, <1>4, <1>5, <1>6, LinkingTells
<1>8. HeldOnce' /\ NewAreActive'  BY <1>3 DEF Tables, HeldOnce, NewAreActive
<1> QED  BY <1>3, <1>7, <1>8 DEF Tables, TrailTellsAccess

LEMMA GrantTells ==
    ASSUME Typed, Tables, ConstantsAssumption, NEW d \in Desks, Fresh(task[d]), Grant(d)
    PROVE  Tables'
<1>1. PICK t \in Task : t = task[d]  BY DEF Typed, TypeOK
<1>2. /\ t.op = "grant" /\ t.kind \in Kinds /\ t.id \in DOMAIN ident /\ ident[t.id][1] = t.key
      /\ t.held <=> PermissionRows(t.id, t.kind) # {}
  BY <1>1, TaskIs DEF Grant, Done, Fresh
<1>3. PICK i \in DOMAIN ident, kind \in Kinds : i = t.id /\ kind = t.kind  BY <1>2
<1>4. /\ word' = [word EXCEPT ![<<ident[i][1], kind>>] = "granted"]
      /\ users' = users /\ ident' = ident /\ said' = said
      /\ \/ t.held /\ perms' = perms
         \/ ~t.held /\ perms' = Inserted(perms, <<i, kind>>)
  BY <1>1, <1>2, <1>3 DEF Grant, Granted
<1>5. t.held <=> Has(i, kind)  BY <1>2, <1>3 DEF PermissionRows, Has
<1>6. DOMAIN perms \subseteq Ids(MaxRows)  BY DEF Typed, TypeOK
<1>7. /\ NextId(perms) \notin DOMAIN perms
      /\ IsWith(Inserted(perms, <<i, kind>>), perms, NextId(perms), <<i, kind>>)
  BY <1>6, InsertedIs
<1> QED  BY <1>4, <1>5, <1>7, GivingTells

LEMMA RevokeTells ==
    ASSUME Typed, Tables, NEW d \in Desks, Fresh(task[d]), Revoke(d)
    PROVE  Tables'
<1>1. PICK t \in Task : t = task[d]  BY DEF Typed, TypeOK
<1>2. /\ t.op = "revoke" /\ t.kind \in Kinds /\ t.id \in DOMAIN ident /\ ident[t.id][1] = t.key
      /\ t.row \in DOMAIN perms /\ perms[t.row] = <<t.id, t.kind>>
  BY <1>1, TaskIs DEF Revoke, Done, Fresh
<1>3. PICK i \in DOMAIN ident, kind \in Kinds, row \in DOMAIN perms :
        i = t.id /\ kind = t.kind /\ row = t.row
  BY <1>2
<1>4. /\ perms' = Without(perms, {row}) /\ word' = [word EXCEPT ![<<ident[i][1], kind>>] = "withdrawn"]
      /\ users' = users /\ ident' = ident /\ said' = said
  BY <1>1, <1>2, <1>3 DEF Revoke, RevokedRows
<1>5. DOMAIN perms' = DOMAIN perms \ {row} /\ \A p \in DOMAIN perms' : perms'[p] = perms[p]
  BY <1>4 DEF Without
<1>6. perms[row] = <<i, kind>>  BY <1>2, <1>3
<1>7. \A j, other : Has(j, other)' <=> Has(j, other) /\ ~(j = i /\ other = kind)
  <2>1. ASSUME NEW j, NEW other, NEW p \in DOMAIN perms', perms'[p] = <<j, other>>
        PROVE  Has(j, other) /\ ~(j = i /\ other = kind)
    <3>1. p \in DOMAIN perms /\ p # row /\ perms[p] = <<j, other>>  BY <1>5, <2>1
    <3>2. perms[p] # perms[row]  BY <3>1 DEF Tables, HeldOnce
    <3> QED  BY <1>6, <3>1, <3>2 DEF Has
  <2>2. ASSUME NEW j, NEW other, NEW p \in DOMAIN perms, perms[p] = <<j, other>>,
               ~(j = i /\ other = kind)
        PROVE  Has(j, other)'
    <3>1. p # row  BY <1>6, <2>2
    <3> QED  BY <1>5, <2>2, <3>1 DEF Has
  <2> QED  BY <2>1, <2>2 DEF Has
<1>8. \A k, other : Held(k, other)' <=> \E j \in IdentitiesOf(k) : Has(j, other)'
  BY <1>4 DEF Held, PermissionRows, Has, IdentitiesOf
<1>9. ASSUME NEW k \in Keys, NEW other \in Kinds
      PROVE  Held(k, other)' <=> word'[<<k, other>>] = "granted"
  <2>1. Held(k, other) <=> word[<<k, other>>] = "granted"  BY DEF Tables, TrailTellsAccess
  <2>2. word'[<<k, other>>] = IF k = ident[i][1] /\ other = kind THEN "withdrawn" ELSE word[<<k, other>>]
    BY <1>4 DEF Typed, TypeOK
  <2>3. CASE k = ident[i][1]
    <3>1. IdentitiesOf(k) = {i}  BY <2>3 DEF IdentitiesOf, Tables, LinkedOnce
    <3> QED  BY <1>7, <1>8, <2>1, <2>2, <2>3, <3>1, HeldIs
  <2>4. CASE k # ident[i][1]
    <3>1. i \notin IdentitiesOf(k)  BY <2>4 DEF IdentitiesOf
    <3> QED  BY <1>7, <1>8, <2>1, <2>2, <2>4, <3>1, HeldIs
  <2> QED  BY <2>3, <2>4
<1>10. LinkedOnce' /\ HeldOnce' /\ NewAreActive'
  BY <1>4, <1>5 DEF Tables, LinkedOnce, HeldOnce, NewAreActive
<1> QED  BY <1>4, <1>9, <1>10 DEF Tables, TrailTellsAccess

LEMMA UnlinkTells ==
    ASSUME Typed, Tables, NEW d \in Desks, Fresh(task[d]), Unlink(d)
    PROVE  Tables'
<1>1. PICK i \in DOMAIN ident : i = task[d].id /\ ident[i][1] = task[d].key
  BY DEF Unlink, Done, Fresh
<1>2. /\ ident' = Without(ident, {i}) /\ perms' = PermissionsWithout(i)
      /\ word' = [w \in Keys \X Kinds |->
                    IF w[1] = ident[i][1] /\ word[w] = "granted" THEN "withdrawn" ELSE word[w]]
      /\ users' = users /\ said' = said
  BY <1>1 DEF Unlink
<1>3. DOMAIN ident' = DOMAIN ident \ {i} /\ \A j \in DOMAIN ident' : ident'[j] = ident[j]
  BY <1>2 DEF Without
<1>4. /\ DOMAIN perms' = {p \in DOMAIN perms : perms[p][1] # i}
      /\ \A p \in DOMAIN perms' : perms'[p] = perms[p]
  BY <1>2 DEF PermissionsWithout, Without
<1>5. \A j, kind : j # i => (Has(j, kind)' <=> Has(j, kind))
  <2>1. ASSUME NEW j, NEW kind, j # i, NEW p \in DOMAIN perms, perms[p] = <<j, kind>>
        PROVE  Has(j, kind)'
    BY <1>4, <2>1 DEF Has
  <2> QED  BY <1>4, <2>1 DEF Has
<1>6. \A k, kind : Held(k, kind)' <=> \E j \in IdentitiesOf(k)' : Has(j, kind)'
  BY DEF Held, PermissionRows, Has
<1>7. \A k : IdentitiesOf(k)' = IdentitiesOf(k) \ {i}  BY <1>3 DEF IdentitiesOf
<1>8. ASSUME NEW k \in Keys, NEW kind \in Kinds
      PROVE  Held(k, kind)' <=> word'[<<k, kind>>] = "granted"
  <2>1. Held(k, kind) <=> word[<<k, kind>>] = "granted"  BY DEF Tables, TrailTellsAccess
  <2>2. word'[<<k, kind>>] =
          IF k = ident[i][1] /\ word[<<k, kind>>] = "granted" THEN "withdrawn" ELSE word[<<k, kind>>]
    BY <1>2
  <2>3. CASE k = ident[i][1]
    <3>1. IdentitiesOf(k)' = {}  BY <1>7, <2>3 DEF IdentitiesOf, Tables, LinkedOnce
    <3> QED  BY <1>6, <2>2, <2>3, <3>1
  <2>4. CASE k # ident[i][1]
    <3>1. IdentitiesOf(k)' = IdentitiesOf(k) /\ i \notin IdentitiesOf(k)
      BY <1>7, <2>4 DEF IdentitiesOf
    <3> QED  BY <1>5, <1>6, <2>1, <2>2, <2>4, <3>1, HeldIs
  <2> QED  BY <2>3, <2>4
<1>9. LinkedOnce' /\ HeldOnce' /\ NewAreActive'
  <2>1. LinkedOnce'  BY <1>3 DEF Tables, LinkedOnce
  <2>2. HeldOnce'  BY <1>4 DEF Tables, HeldOnce
  <2> QED  BY <1>2, <2>1, <2>2 DEF Tables, NewAreActive
<1> QED  BY <1>2, <1>8, <1>9 DEF Tables, TrailTellsAccess

LEMMA SetActiveTells ==
    ASSUME Typed, Tables, NEW d \in Desks, Fresh(task[d]), SetActive(d)
    PROVE  Tables'
<1>1. PICK t \in Task : t = task[d]  BY DEF Typed, TypeOK
<1>2. t.user \in DOMAIN users /\ t.active = users[t.user] /\ t.op \in {"activate", "deactivate"}
  BY <1>1 DEF SetActive, Done, Fresh
<1>3. /\ users' = IF Activity(t) # t.active THEN [users EXCEPT ![t.user] = Activity(t)] ELSE users
      /\ said' = [said EXCEPT ![t.user] = Activity(t)]
      /\ ident' = ident /\ perms' = perms /\ word' = word
  BY <1>1 DEF SetActive, Activity
<1>4. PICK u \in DOMAIN users : u = t.user  BY <1>2
<1>5. PICK now : now = Activity(t)  OBVIOUS
<1>6. /\ DOMAIN users' = DOMAIN users
      /\ \A v \in DOMAIN users : users'[v] = IF v = u THEN now ELSE users[v]
  BY <1>2, <1>3, <1>4, <1>5
<1>7. \A v \in Ids(MaxUsers) : said'[v] = IF v = u THEN now ELSE said[v]
  BY <1>3, <1>4, <1>5 DEF Typed, TypeOK
<1>8. \A v \in DOMAIN users' : users'[v] = said'[v]
  BY <1>6, <1>7 DEF Typed, TypeOK, Tables, TrailTellsAccess
<1>9. NewAreActive'  BY <1>6, <1>7 DEF Tables, NewAreActive
<1>10. LinkedOnce' /\ HeldOnce' /\ \A k \in Keys, kind \in Kinds :
                                      Held(k, kind)' <=> word'[<<k, kind>>] = "granted"
  BY <1>3 DEF Tables, LinkedOnce, HeldOnce, TrailTellsAccess, Held, PermissionRows, IdentitiesOf
<1> QED  BY <1>8, <1>9, <1>10 DEF Tables, TrailTellsAccess

LEMMA SameRowsTell ==
    ASSUME Tables, UNCHANGED <<users, ident, perms, word, said>>
    PROVE  Tables'
BY DEF Tables, LinkedOnce, HeldOnce, NewAreActive, TrailTellsAccess, Held, PermissionRows, IdentitiesOf

LEMMA ToldAtStart == Init => Told
<1> SUFFICES ASSUME Init PROVE Told  OBVIOUS
<1>1. DOMAIN users = {} /\ DOMAIN ident = {} /\ DOMAIN perms = {}  BY DEF Init, Empty
<1>2. \A k, kind : ~Held(k, kind)  BY <1>1 DEF Held, IdentitiesOf
<1>3. Tables
  BY <1>1, <1>2 DEF Init, Tables, LinkedOnce, HeldOnce, NewAreActive, TrailTellsAccess
<1>4. \A d \in Desks : Fresh(task[d])  BY DEF Init, Fresh, Idle
<1> QED  BY <1>3, <1>4, TypesAtStart DEF Told

LEMMA StepTells ==
    ASSUME Told, OneDesk, ConstantsAssumption, [Next]_vars
    PROVE  Told'
<1>1. Typed'  BY TypesKept DEF Told
<1>2. ASSUME UNCHANGED <<users, ident, perms, word, said>>, NEW t, Fresh(t) PROVE Tables' /\ Fresh(t)'
  <2>1. Tables'  BY <1>2, SameRowsTell DEF Told
  <2> QED  BY <1>2, <2>1 DEF Fresh, PermissionRows
<1>3. CASE UNCHANGED vars \/ Sender
  <2>1. UNCHANGED <<users, ident, perms, word, said>> /\ task' = task
    BY <1>3 DEF vars, rowVars, Sender, Knock, LookUpRequest, FileRequest
  <2>2. Tables'  BY <2>1, SameRowsTell DEF Told
  <2>3. \A d \in Desks : Fresh(task[d])'  BY <2>1 DEF Told, Fresh, PermissionRows
  <2> QED  BY <1>1, <2>1, <2>2, <2>3 DEF Told
<1>4. CASE CreateUser
  <2>1. /\ NextId(users) <= MaxUsers /\ users' = Inserted(users, TRUE)
        /\ ident' = ident /\ perms' = perms /\ task' = task /\ word' = word /\ said' = said
    BY <1>4 DEF CreateUser
  <2>2. PICK u \in Ids(MaxUsers) : u \notin DOMAIN users /\ IsWith(users', users, u, TRUE)
    BY <2>1, CreatedIsTyped DEF Told, Typed
  <2>3. NewAreActive' /\ \A v \in DOMAIN users' : users'[v] = said'[v]
    BY <2>1, <2>2, UserTells DEF Told
  <2>4. LinkedOnce' /\ HeldOnce' /\ \A k \in Keys, kind \in Kinds :
                                        Held(k, kind)' <=> word'[<<k, kind>>] = "granted"
    BY <2>1 DEF Told, Tables, LinkedOnce, HeldOnce, TrailTellsAccess, Held, PermissionRows, IdentitiesOf
  <2>5. Tables'  BY <2>3, <2>4 DEF Tables, TrailTellsAccess
  <2>6. ASSUME NEW d \in Desks PROVE Fresh(task[d])'
    <3>1. Fresh(task[d])  BY DEF Told
    <3>2. \A v \in DOMAIN users : v \in DOMAIN users' /\ users'[v] = users[v]
      BY <2>2 DEF IsWith
    <3> DEFINE t == task[d]
    <3>3. t' = t  BY <2>1
    <3> HIDE DEF t
    <3>4. Fresh(t)  BY <3>1 DEF t
    <3>5. Fresh(t)'  BY <2>1, <3>2, <3>3, <3>4 DEF Fresh, PermissionRows
    <3> QED  BY <3>5 DEF t
  <2> QED  BY <1>1, <2>1, <2>5, <2>6 DEF Told
<1>5. ASSUME NEW d \in Desks, Opening(d) PROVE Told'
  <2>1. PICK t \in Task : Start(d, t) /\ Fresh(t)  BY <1>5, OpeningReads DEF Told, Typed
  <2>2. UNCHANGED <<users, ident, perms, word, said>> /\ task' = [task EXCEPT ![d] = t]
    BY <2>1 DEF Start, rowVars
  <2>3. Tables' /\ Fresh(t)'  BY <1>2, <2>1, <2>2
  <2>4. \A e \in Desks : task'[e] = t  BY <2>2 DEF OneDesk, Told, Typed, TypeOK
  <2> QED  BY <1>1, <2>3, <2>4 DEF Told, Fresh
<1>6. ASSUME NEW d \in Desks,
             \/ Approve(d) \/ Deny(d) \/ Link(d) \/ Unlink(d)
             \/ Grant(d) \/ Revoke(d) \/ SetActive(d) \/ Abandon(d)
      PROVE  Told'
  <2>2. Tables'
    <3>1. CASE Deny(d) \/ Abandon(d)
      BY <3>1, SameRowsTell DEF Deny, Abandon, rowVars, Told
    <3> QED
      BY <1>6, <3>1, ApproveTells, LinkTells, GrantTells, RevokeTells, UnlinkTells, SetActiveTells DEF Told
  <2>3. task' = [task EXCEPT ![d] = Idle]
    BY <1>6 DEF Approve, Deny, Link, Unlink, Grant, Revoke, SetActive, Abandon, Done
  <2>4. \A e \in Desks : task'[e] = Idle  BY <2>3 DEF OneDesk, Told, Typed, TypeOK
  <2>5. \A e \in Desks : task'[e].op = "idle"  BY <2>4 DEF Idle
  <2> QED  BY <1>1, <2>2, <2>5 DEF Told, Fresh
<1> QED  BY <1>3, <1>4, <1>5, <1>6 DEF Next, Desk, Opening

\* With one administrator at a time, the trail of admin events tells who holds which
\* permission and who is active, whatever is linked, removed, approved, granted, revoked
\* or abandoned in between (service.py: each operation and its event in one transaction).
THEOREM OneDeskTells ==
    ASSUME OneDesk
    PROVE  Spec => []TrailTellsAccess
<1>1. Init => Told  BY ToldAtStart
<1>2. Told /\ [Next]_vars => Told'  BY OneDesk, StepTells, ConstantsAssumption
<1>3. Told => TrailTellsAccess  BY DEF Told, Tables
<1> QED  BY <1>1, <1>2, <1>3, PTL DEF Spec

-----------------------------------------------------------------------------
(* The list of access, with one desk *)

Once(rows) == \A i, j \in DOMAIN rows : rows[i][1] = rows[j][1] => i = j

LEMMA OwnersAre ==
    ASSUME NEW rows, Once(rows)
    PROVE  /\ DOMAIN OwnersIn(rows) = {rows[i][1] : i \in DOMAIN rows}
           /\ \A i \in DOMAIN rows : OwnersIn(rows)[rows[i][1]] = rows[i][2]
<1>1. ASSUME NEW i \in DOMAIN rows PROVE OwnersIn(rows)[rows[i][1]] = rows[i][2]
  <2>1. (CHOOSE j \in DOMAIN rows : rows[j][1] = rows[i][1]) = i  BY DEF Once
  <2> QED  BY <2>1 DEF OwnersIn
<1> QED  BY <1>1 DEF OwnersIn

\* A row for a new key links it, and leaves the others as they are.
LEMMA LinkedOwners ==
    ASSUME NEW rows, NEW new, Once(rows), Once(new), NEW i, NEW k, NEW u,
           i \notin DOMAIN rows, IsWith(new, rows, i, <<k, u>>),
           \A j \in DOMAIN rows : rows[j][1] # k
    PROVE  OwnersIn(new) = List!With(OwnersIn(rows), k, u)
<1> DEFINE old == OwnersIn(rows)
           now == OwnersIn(new)
<1>1. DOMAIN old = {rows[j][1] : j \in DOMAIN rows} /\ \A j \in DOMAIN rows : old[rows[j][1]] = rows[j][2]
  BY OwnersAre
<1>2. DOMAIN now = {new[j][1] : j \in DOMAIN new} /\ \A j \in DOMAIN new : now[new[j][1]] = new[j][2]
  BY OwnersAre
<1>3. now = [x \in DOMAIN now |-> now[x]]  BY DEF OwnersIn
<1> HIDE DEF old, now
<1>4. new[i][1] = k /\ new[i][2] = u /\ \A j \in DOMAIN rows : new[j] = rows[j]  BY DEF IsWith
<1>5. DOMAIN now = DOMAIN old \cup {k}
  BY <1>1, <1>2, <1>4 DEF IsWith
<1>6. ASSUME NEW x \in DOMAIN now PROVE now[x] = IF x = k THEN u ELSE old[x]
  <2>1. PICK j \in DOMAIN new : x = new[j][1]  BY <1>2
  <2>2. CASE j = i  BY <1>2, <1>4, <2>1, <2>2
  <2>3. CASE j # i
    <3>1. j \in DOMAIN rows /\ new[j] = rows[j]  BY <2>3 DEF IsWith
    <3> QED  BY <1>1, <1>2, <2>1, <3>1
  <2> QED  BY <2>2, <2>3
<1>7. now = List!With(old, k, u)
  BY <1>3, <1>5, <1>6 DEF List!With
<1> QED  BY <1>7 DEF old, now

\* A row that is removed takes its key with it.
LEMMA UnlinkedOwners ==
    ASSUME NEW rows, Once(rows), NEW i \in DOMAIN rows
    PROVE  OwnersIn(Without(rows, {i})) =
              [k \in DOMAIN OwnersIn(rows) \ {rows[i][1]} |-> OwnersIn(rows)[k]]
<1> DEFINE old == OwnersIn(rows)
           new == Without(rows, {i})
           now == OwnersIn(new)
<1>1. DOMAIN new = DOMAIN rows \ {i} /\ \A j \in DOMAIN new : new[j] = rows[j]  BY DEF Without
<1> HIDE DEF new
<1>2. Once(new)  BY <1>1 DEF Once
<1>3. DOMAIN old = {rows[j][1] : j \in DOMAIN rows} /\ \A j \in DOMAIN rows : old[rows[j][1]] = rows[j][2]
  BY OwnersAre
<1>4. DOMAIN now = {new[j][1] : j \in DOMAIN new} /\ \A j \in DOMAIN new : now[new[j][1]] = new[j][2]
  BY <1>2, OwnersAre
<1>5. now = [x \in DOMAIN now |-> now[x]]  BY DEF OwnersIn
<1> HIDE DEF old, now
<1>6. ASSUME NEW x PROVE x \in DOMAIN now <=> x \in DOMAIN old /\ x # rows[i][1]
  BY <1>1, <1>3, <1>4 DEF Once
<1>7. ASSUME NEW x \in DOMAIN now PROVE now[x] = old[x]
  BY <1>1, <1>3, <1>4
<1>8. now = [k \in DOMAIN old \ {rows[i][1]} |-> old[k]]
  <2>1. DOMAIN now = DOMAIN old \ {rows[i][1]}  BY <1>6
  <2> QED  BY <1>5, <1>7, <2>1
<1> QED  BY <1>8 DEF old, new, now

\* What a desk relies on when it writes; both hold as long as there is one desk.
OfOneDesk == Told /\ Sound

\* The rights are what the trail says they are, and a key is linked if it has an identity.
RightsInTrail == {w \in Keys \X Kinds : word[w] = "granted"}

LEMMA ListIs ==
    ASSUME OfOneDesk
    PROVE  /\ Rights = RightsInTrail /\ Once(ident)
           /\ \A k : k \in DOMAIN Owner <=> IdentitiesOf(k) # {}
<1>1. Once(ident)  BY DEF OfOneDesk, Told, Tables, LinkedOnce, Once
<1>2. DOMAIN Owner = {ident[i][1] : i \in DOMAIN ident}  BY <1>1, OwnersAre DEF Owner
<1>3. Rights = RightsInTrail
  BY DEF OfOneDesk, Told, Tables, TrailTellsAccess, Rights, RightsInTrail
<1> QED  BY <1>1, <1>2, <1>3 DEF IdentitiesOf

LEMMA NextListIs ==
    ASSUME OfOneDesk'
    PROVE  Rights' = RightsInTrail' /\ Once(ident')
BY DEF OfOneDesk, Told, Tables, LinkedOnce, Once, TrailTellsAccess, Rights, RightsInTrail, Held,
       PermissionRows, IdentitiesOf

\* What changes when an event on one permission is written.
LEMMA EventChanges ==
    ASSUME Typed, NEW k \in Keys, NEW kind \in Kinds
    PROVE  /\ Granted(k, kind) => RightsInTrail' = RightsInTrail \cup {<<k, kind>>}
           /\ word' = [word EXCEPT ![<<k, kind>>] = "withdrawn"]
                => RightsInTrail' = RightsInTrail \ {<<k, kind>>}
<1>1. word \in [Keys \X Kinds -> {"none", "granted", "withdrawn"}] /\ <<k, kind>> \in Keys \X Kinds
  BY DEF Typed, TypeOK
<1>2. ASSUME Granted(k, kind) PROVE RightsInTrail' = RightsInTrail \cup {<<k, kind>>}
  <2>1. \A w \in Keys \X Kinds : word'[w] = IF w = <<k, kind>> THEN "granted" ELSE word[w]
    BY <1>1, <1>2 DEF Granted
  <2> QED  BY <1>1, <2>1 DEF RightsInTrail
<1>3. ASSUME word' = [word EXCEPT ![<<k, kind>>] = "withdrawn"]
      PROVE  RightsInTrail' = RightsInTrail \ {<<k, kind>>}
  <2>1. \A w \in Keys \X Kinds : word'[w] = IF w = <<k, kind>> THEN "withdrawn" ELSE word[w]
    BY <1>1, <1>3
  <2> QED  BY <1>1, <2>1 DEF RightsInTrail
<1> QED  BY <1>2, <1>3

Changed == [List!Next]_(List!vars)

LEMMA ApproveAdmits ==
    ASSUME OfOneDesk, OfOneDesk', ConstantsAssumption, NEW d \in Desks, Approve(d)
    PROVE  Changed
<1>1. PICK k \in Keys : k = task[d].key /\ request[k] = "pending"
  BY DEF Approve, Done, OfOneDesk, Sound, OpenIsPending
<1>2. request' = [request EXCEPT ![k] = "approved"] /\ Granted(k, "chat")  BY <1>1 DEF Approve
<1>3. List!Settle(k)  BY <1>1, <1>2 DEF List!Settle
<1>4. Rights' = Rights \cup {<<k, "chat">>}
  <2>1. Typed /\ "chat" \in Kinds  BY DEF OfOneDesk, Told, Kinds
  <2> QED  BY <1>2, <2>1, ListIs, NextListIs, EventChanges
<1>5. CASE IdentitiesOf(k) # {}
  <2>1. users' = users /\ Owner' = Owner  BY <1>1, <1>5 DEF Approve, Owner
  <2>2. k \in DOMAIN Owner  BY <1>5, ListIs
  <2>3. List!Admit(k)  BY <1>1, <1>3, <1>4, <2>1, <2>2 DEF List!Admit
  <2> QED  BY <2>3 DEF Changed, List!Next
<1>6. CASE IdentitiesOf(k) = {}
  <2>1. PICK u, i : u = NextId(users) /\ i = NextId(ident)  OBVIOUS
  <2>2. u <= MaxUsers /\ users' = Inserted(users, TRUE) /\ ident' = Inserted(ident, <<k, u>>)
    BY <1>1, <1>6, <2>1 DEF Approve
  <2>3. Typed /\ TypeOK  BY DEF OfOneDesk, Told, Typed
  <2>4. u \in Ids(MaxUsers) \ DOMAIN users  BY <2>1, <2>2, <2>3, CreatedIsTyped
  <2>5. users' = List!With(users, u, TRUE)  BY <2>1, <2>2 DEF Inserted, List!With
  <2>6. i \notin DOMAIN ident /\ IsWith(ident', ident, i, <<k, u>>)
    BY <2>1, <2>2, <2>3, LinkedIsTyped
  <2>7. \A j \in DOMAIN ident : ident[j][1] # k  BY <1>6 DEF IdentitiesOf
  <2>8. OwnersIn(ident') = List!With(OwnersIn(ident), k, u)
    BY <2>6, <2>7, ListIs, NextListIs, LinkedOwners
  <2>9. Owner' = List!With(Owner, k, u)  BY <2>8 DEF Owner
  <2>10. k \notin DOMAIN Owner  BY <1>6, ListIs
  <2>11. List!Admit(k)  BY <1>1, <1>3, <1>4, <2>4, <2>5, <2>9, <2>10 DEF List!Admit
  <2> QED  BY <2>11 DEF Changed, List!Next
<1> QED  BY <1>5, <1>6

LEMMA LinkLinks ==
    ASSUME OfOneDesk, OfOneDesk', ConstantsAssumption, NEW d \in Desks, Link(d)
    PROVE  Changed
<1>1. Typed /\ TypeOK /\ task[d] \in Task  BY DEF OfOneDesk, Told, Typed, TypeOK
<1>2. PICK k \in Keys, u \in DOMAIN users : k = task[d].key /\ u = task[d].user
  BY <1>1, TaskIs DEF Link, Done, Typed, KnowsUser
<1>3. PICK i : i = NextId(ident)  OBVIOUS
<1>4. /\ IdentitiesOf(k) = {} /\ ident' = Inserted(ident, <<k, u>>) /\ request' = Resolved(k)
      /\ users' = users /\ perms' = perms /\ word' = word
  BY <1>2 DEF Link
<1>5. i \notin DOMAIN ident /\ IsWith(ident', ident, i, <<k, u>>)
  BY <1>1, <1>3, <1>4, LinkedIsTyped
<1>6. \A j \in DOMAIN ident : ident[j][1] # k  BY <1>4 DEF IdentitiesOf
<1>7. OwnersIn(ident') = List!With(OwnersIn(ident), k, u)
  BY <1>5, <1>6, ListIs, NextListIs, LinkedOwners
<1>8. Owner' = List!With(Owner, k, u)  BY <1>7 DEF Owner
<1>9. k \notin DOMAIN Owner  BY <1>4, ListIs
<1>10. Rights' = Rights  BY <1>4, ListIs, NextListIs DEF RightsInTrail
<1>11. u \in Ids(MaxUsers)  BY <1>1 DEF TypeOK
<1>12. List!Link(k, u)  BY <1>4, <1>8, <1>9, <1>10 DEF List!Link, List!Settle, Resolved
<1> QED  BY <1>11, <1>12 DEF Changed, List!Next

LEMMA UnlinkUnlinks ==
    ASSUME OfOneDesk, OfOneDesk', NEW d \in Desks, Unlink(d)
    PROVE  Changed
<1>1. Typed /\ task[d] \in Task /\ Fresh(task[d])  BY DEF OfOneDesk, Told, Typed, TypeOK
<1>2. PICK i \in DOMAIN ident, k \in Keys : i = task[d].id /\ k = task[d].key /\ ident[i][1] = k
  BY <1>1, TaskIs DEF Unlink, Done, Fresh
<1>3. /\ ident' = Without(ident, {i})
      /\ word' = [w \in Keys \X Kinds |->
                    IF w[1] = k /\ word[w] = "granted" THEN "withdrawn" ELSE word[w]]
      /\ users' = users /\ request' = request
  BY <1>2 DEF Unlink
<1>4. k \in DOMAIN Owner  BY <1>2, ListIs DEF IdentitiesOf
<1>5. OwnersIn(Without(ident, {i})) =
        [l \in DOMAIN OwnersIn(ident) \ {ident[i][1]} |-> OwnersIn(ident)[l]]
  <2>1. Once(ident)  BY ListIs
  <2> QED  BY <2>1, UnlinkedOwners
<1>6. Owner' = [l \in DOMAIN Owner \ {k} |-> Owner[l]]  BY <1>2, <1>3, <1>5 DEF Owner
<1>7. RightsInTrail' = RightsInTrail \ ({k} \X Kinds)
  BY <1>3 DEF RightsInTrail
<1>8. Rights' = Rights \ ({k} \X Kinds)  BY <1>7, ListIs, NextListIs
<1>9. List!Unlink(k)  BY <1>3, <1>4, <1>6, <1>8 DEF List!Unlink
<1> QED  BY <1>9 DEF Changed, List!Next

LEMMA GrantGrants ==
    ASSUME OfOneDesk, OfOneDesk', NEW d \in Desks, Grant(d)
    PROVE  Changed
<1>1. Typed /\ task[d] \in Task /\ Fresh(task[d])  BY DEF OfOneDesk, Told, Typed, TypeOK
<1>2. PICK i \in DOMAIN ident, k \in Keys, kind \in Kinds :
        k = task[d].key /\ kind = task[d].kind /\ ident[i][1] = k
  BY <1>1, TaskIs DEF Grant, Done, Fresh
<1>3. users' = users /\ ident' = ident /\ request' = Resolved(k) /\ Granted(k, kind)
  BY <1>2 DEF Grant
<1>4. k \in DOMAIN Owner  BY <1>2, ListIs DEF IdentitiesOf
<1>5. Rights' = Rights \cup {<<k, kind>>}  BY <1>1, <1>3, ListIs, NextListIs, EventChanges
<1>6. Owner' = Owner  BY <1>3 DEF Owner
<1>7. List!Grant(k, kind)  BY <1>3, <1>4, <1>5, <1>6 DEF List!Grant, List!Settle, Resolved
<1> QED  BY <1>7 DEF Changed, List!Next

LEMMA RevokeRevokes ==
    ASSUME OfOneDesk, OfOneDesk', NEW d \in Desks, Revoke(d)
    PROVE  Changed
<1>1. Typed /\ task[d] \in Task /\ Fresh(task[d])  BY DEF OfOneDesk, Told, Typed, TypeOK
<1>2. PICK i \in DOMAIN ident, k \in Keys, kind \in Kinds, row \in DOMAIN perms :
        /\ k = task[d].key /\ kind = task[d].kind /\ ident[i][1] = k
        /\ perms[row] = <<i, kind>>
  BY <1>1, TaskIs DEF Revoke, Done, Fresh
<1>3. /\ users' = users /\ ident' = ident /\ request' = request
      /\ word' = [word EXCEPT ![<<k, kind>>] = "withdrawn"]
  BY <1>2 DEF Revoke
<1>4. <<k, kind>> \in Rights
  <2>1. Held(k, kind)  BY <1>2 DEF Held, IdentitiesOf, PermissionRows
  <2> QED  BY <2>1 DEF Rights
<1>5. Rights' = Rights \ {<<k, kind>>}  BY <1>1, <1>3, ListIs, NextListIs, EventChanges
<1>6. Owner' = Owner  BY <1>3 DEF Owner
<1>7. List!Revoke(k, kind)  BY <1>3, <1>4, <1>5, <1>6 DEF List!Revoke
<1> QED  BY <1>7 DEF Changed, List!Next

LEMMA SetActiveSets ==
    ASSUME OfOneDesk, OfOneDesk', NEW d \in Desks, SetActive(d)
    PROVE  Changed
<1>1. Typed /\ task[d] \in Task /\ Fresh(task[d])  BY DEF OfOneDesk, Told, Typed, TypeOK
<1>2. PICK u \in DOMAIN users, is \in BOOLEAN : u = task[d].user /\ is = Activity(task[d])
  BY <1>1 DEF SetActive, Done, Fresh, Activity
<1>3. /\ users' = users \/ users' = [users EXCEPT ![u] = is]
      /\ ident' = ident /\ perms' = perms /\ request' = request /\ word' = word
  BY <1>2 DEF SetActive
<1>4. Rights' = Rights /\ Owner' = Owner
  BY <1>3, ListIs, NextListIs DEF RightsInTrail, Owner
<1>5. CASE users' = users  BY <1>3, <1>4, <1>5 DEF Changed, List!vars
<1>6. CASE users' = [users EXCEPT ![u] = is]
  <2>1. List!SetActive(u, is)  BY <1>3, <1>4, <1>6 DEF List!SetActive
  <2>2. u \in Ids(MaxUsers)  BY <1>1 DEF Typed, TypeOK
  <2>3. is = TRUE \/ is = FALSE  OBVIOUS
  <2> QED  BY <2>1, <2>2, <2>3 DEF Changed, List!Next
<1> QED  BY <1>3, <1>5, <1>6

LEMMA SenderAsks ==
    ASSUME OfOneDesk, OfOneDesk', Sender
    PROVE  Changed
<1>1. PICK k \in Keys : Knock(k) \/ LookUpRequest(k) \/ FileRequest(k)  BY DEF Sender
<1>2. users' = users /\ ident' = ident /\ perms' = perms /\ word' = word
  BY <1>1 DEF Knock, LookUpRequest, FileRequest, rowVars
<1>3. Rights' = Rights /\ Owner' = Owner
  BY <1>2, ListIs, NextListIs DEF RightsInTrail, Owner
<1>4. CASE request' = request  BY <1>2, <1>3, <1>4 DEF Changed, List!vars
<1>5. CASE FileRequest(k) /\ Opens(visit[k])
  <2>1. request[k] \in {"none", "approved"}  BY <1>5 DEF Opens, OfOneDesk, Sound, VisitIsFresh
  <2>2. request' = [request EXCEPT ![k] = "pending"]  BY <1>5 DEF FileRequest
  <2>3. List!Ask(k)  BY <1>2, <1>3, <2>1, <2>2 DEF List!Ask
  <2> QED  BY <2>3 DEF Changed, List!Next
<1>6. CASE FileRequest(k) /\ ~Opens(visit[k])
  <2>1. request \in [Keys -> Statuses]  BY DEF OfOneDesk, Sound, Shapes
  <2>2. request' = request  BY <1>6, <2>1 DEF FileRequest
  <2> QED  BY <1>4, <2>2
<1> QED  BY <1>1, <1>4, <1>5, <1>6 DEF Knock, LookUpRequest, rowVars

LEMMA StepChanges ==
    ASSUME OfOneDesk, OfOneDesk', ConstantsAssumption, [Next]_vars
    PROVE  Changed
<1>1. CASE Sender  BY <1>1, SenderAsks
<1>2. CASE CreateUser
  <2>1. PICK u : u = NextId(users)  OBVIOUS
  <2>2. /\ u <= MaxUsers /\ users' = Inserted(users, TRUE)
        /\ ident' = ident /\ perms' = perms /\ request' = request /\ word' = word
    BY <1>2, <2>1 DEF CreateUser
  <2>3. u \in Ids(MaxUsers) /\ u \notin DOMAIN users
    BY <2>1, <2>2, CreatedIsTyped DEF OfOneDesk, Told, Typed
  <2>4. users' = List!With(users, u, TRUE)  BY <2>1, <2>2 DEF Inserted, List!With
  <2>5. Rights' = Rights /\ Owner' = Owner
    BY <2>2, ListIs, NextListIs DEF RightsInTrail, Owner
  <2>6. List!Join(u)  BY <2>2, <2>3, <2>4, <2>5 DEF List!Join
  <2> QED  BY <2>3, <2>6 DEF Changed, List!Next
<1>3. ASSUME UNCHANGED <<rowVars, word>> PROVE Changed
  <2>1. users' = users /\ ident' = ident /\ request' = request /\ word' = word
    BY <1>3 DEF rowVars
  <2>2. Rights' = Rights /\ Owner' = Owner
    BY <2>1, ListIs, NextListIs DEF RightsInTrail, Owner
  <2> QED  BY <2>1, <2>2 DEF Changed, List!vars
<1>4. ASSUME NEW d \in Desks, Opening(d) \/ Abandon(d) PROVE Changed
  <2>1. CASE Abandon(d)  BY <1>3, <2>1 DEF Abandon
  <2>2. CASE Opening(d)
    <3>1. PICK t \in Task : Start(d, t)  BY <2>2, OpeningReads DEF OfOneDesk, Told, Typed
    <3> QED  BY <1>3, <3>1 DEF Start
  <2> QED  BY <1>4, <2>1, <2>2
<1>5. ASSUME NEW d \in Desks, Deny(d) PROVE Changed
  <2>1. PICK k \in Keys : k = task[d].key /\ request[k] = "pending"
    BY <1>5 DEF Deny, Done, OfOneDesk, Sound, OpenIsPending
  <2>2. /\ request' = [request EXCEPT ![k] = "denied"]
        /\ users' = users /\ ident' = ident /\ word' = word
    BY <1>5, <2>1 DEF Deny
  <2>3. Rights' = Rights /\ Owner' = Owner
    BY <2>2, ListIs, NextListIs DEF RightsInTrail, Owner
  <2>4. List!Deny(k)  BY <2>1, <2>2, <2>3 DEF List!Deny
  <2> QED  BY <2>4 DEF Changed, List!Next
<1>6. ASSUME NEW d \in Desks, Desk(d) PROVE Changed
  BY <1>4, <1>5, <1>6, ApproveAdmits, LinkLinks, UnlinkUnlinks, GrantGrants, RevokeRevokes, SetActiveSets
     DEF Desk, Opening
<1>7. CASE UNCHANGED vars  BY <1>3, <1>7 DEF vars
<1> QED  BY <1>1, <1>2, <1>6, <1>7 DEF Next

LEMMA ListAtStart ==
    ASSUME Init
    PROVE  List!Init
<1>1. DOMAIN users = {} /\ users = [u \in {} |-> FALSE] /\ DOMAIN ident = {}  BY DEF Init, Empty
<1>2. users = [u \in {} |-> u]  BY <1>1
<1>3. {ident[i][1] : i \in DOMAIN ident} = {}  BY <1>1
<1>4. Owner = [k \in {} |-> k]  BY <1>3 DEF Owner, OwnersIn
<1>5. Rights = {}  BY <1>1 DEF Rights, Held, IdentitiesOf
<1>6. request = [k \in Keys |-> "none"]  BY DEF Init
<1> QED  BY <1>2, <1>4, <1>5, <1>6 DEF List!Init

\* With one administrator at a time, the tables of requests, users, identities and permissions
\* implement the list of access (AccessList): although each operation reads in one step and
\* writes in a later one, and senders write in between, each acts as if it were a single change
\* of the list as it is at that moment (approve_request, deny_request, add_channel_identity,
\* remove_channel_identity, grant_ and revoke_identity_permission, update_user).
THEOREM OneDeskKeepsAList ==
    ASSUME OneDesk
    PROVE  Spec => ListIsKept
<1>1. Spec => []OfOneDesk
  <2>1. Init => OfOneDesk  BY ToldAtStart, SoundAtStart DEF OfOneDesk
  <2>2. OfOneDesk /\ [Next]_vars => OfOneDesk'
    BY OneDesk, StepTells, StepKeeps, ConstantsAssumption DEF OfOneDesk, Kept
  <2> QED  BY <2>1, <2>2, PTL DEF Spec
<1>2. Init => List!Init  BY ListAtStart
<1>3. OfOneDesk /\ OfOneDesk' /\ [Next]_vars => [List!Next]_(List!vars)
  BY StepChanges, ConstantsAssumption DEF Changed
<1> QED  BY <1>1, <1>2, <1>3, PTL DEF Spec, ListIsKept, List!Spec
=============================================================================
