----------------------------- MODULE AccessDesk -----------------------------
(***************************************************************************)
(* Who may talk to the agents: access requests raised by senders, channel  *)
(* identities and permissions changed by administrators (app/admin/        *)
(* service.py, app/security/auth.py), through the Admin API and the        *)
(* console at the same time.                                               *)
(*                                                                         *)
(* SQLite takes its write lock at the first INSERT, UPDATE or DELETE of a  *)
(* session and keeps it until the commit, but a SELECT before that is on   *)
(* its own: an operation is a read, then a write made from what was read.  *)
(* At the console a person types between the two. A task left unfinished   *)
(* stands for every way an operation ends without a commit.                *)
(***************************************************************************)
EXTENDS Naturals, FiniteSets

CONSTANTS
    Keys,      \* (channel, external id) of the people who write
    Desks,     \* sessions of administrators
    Ops,       \* what they do
    MaxUsers,  \* ids: users, identities, permissions
    MaxRows,
    MaxTasks,  \* how many operations administrators start
    MaxVisits  \* how many messages an outsider writes

AllOps == {"approve", "deny", "link", "unlink", "grant", "revoke", "activate", "deactivate"}
Kinds  == {"chat", "admin"}

ASSUME ConstantsAssumption ==
    /\ Ops \subseteq AllOps
    /\ MaxUsers \in Nat /\ MaxRows \in Nat /\ MaxTasks \in Nat /\ MaxVisits \in Nat

VARIABLES
    users,     \* rows of users: is_active by id
    ident,     \* rows of channel_identities: <<key, user>> by id
    perms,     \* rows of permissions: <<identity id, kind>> by id
    request,   \* status of the access request of a key
    visit,     \* a refused message: "refused", then the status its session read
    task,      \* the operation a desk has read for and not written yet
    \* history
    word,      \* last event of the trail on a permission of a key
    said,      \* last event of the trail on whether a user is active
    tasks,     \* operations started
    visits     \* messages written

rowVars == <<users, ident, perms, request>>
vars == <<rowVars, visit, task, word, said, tasks, visits>>

\* A table is a function from the ids in use; SQLite gives a new row the id after
\* the greatest one in use.
NextId(table) ==
    CHOOSE i \in 1..(Cardinality(DOMAIN table) + MaxUsers + MaxRows + 1) :
        /\ \A j \in DOMAIN table : j < i
        /\ i = 1 \/ i - 1 \in DOMAIN table
Inserted(table, row) ==
    [i \in DOMAIN table \cup {NextId(table)} |-> IF i = NextId(table) THEN row ELSE table[i]]
Without(table, ids) == [i \in DOMAIN table \ ids |-> table[i]]

IdentitiesOf(k) == {i \in DOMAIN ident : ident[i][1] = k}
PermissionRows(i, kind) == {p \in DOMAIN perms : perms[p] = <<i, kind>>}
Held(k, kind) == \E i \in IdentitiesOf(k) : PermissionRows(i, kind) # {}

\* authorize: the identity of an active user, holding one of the permissions.
Allowed(k) ==
    /\ \E i \in IdentitiesOf(k) : users[ident[i][2]]
    /\ \E kind \in Kinds : Held(k, kind)

Statuses == {"none", "pending", "approved", "denied"}
Idle == [op |-> "idle"]

Ids(n) == 1..n
Task ==
    {Idle}
    \cup [op : {"approve", "deny"}, key : Keys]
    \cup [op : {"link"}, key : Keys, user : Ids(MaxUsers)]
    \cup [op : {"unlink"}, id : Ids(MaxRows), key : Keys]
    \cup [op : {"grant"}, id : Ids(MaxRows), key : Keys, kind : Kinds, held : BOOLEAN]
    \cup [op : {"revoke"}, id : Ids(MaxRows), key : Keys, kind : Kinds, row : Ids(MaxRows)]
    \cup [op : {"activate", "deactivate"}, user : Ids(MaxUsers), active : BOOLEAN]

TypeOK ==
    /\ DOMAIN users \subseteq Ids(MaxUsers) /\ \A u \in DOMAIN users : users[u] \in BOOLEAN
    /\ DOMAIN ident \subseteq Ids(MaxRows) /\ \A i \in DOMAIN ident : ident[i] \in Keys \X (DOMAIN users)
    /\ DOMAIN perms \subseteq Ids(MaxRows) /\ \A p \in DOMAIN perms : perms[p] \in (DOMAIN ident) \X Kinds
    /\ request \in [Keys -> Statuses]
    /\ visit \in [Keys -> {"away", "refused"} \cup Statuses]
    /\ task \in [Desks -> Task]
    /\ word \in [Keys \X Kinds -> {"none", "granted", "withdrawn"}]
    /\ said \in [Ids(MaxUsers) -> BOOLEAN]
    /\ tasks \in Nat /\ visits \in Nat

Empty == [i \in {} |-> FALSE]

Init ==
    /\ users = Empty /\ ident = Empty /\ perms = Empty
    /\ request = [k \in Keys |-> "none"]
    /\ visit = [k \in Keys |-> "away"]
    /\ task = [d \in Desks |-> Idle]
    /\ word = [w \in Keys \X Kinds |-> "none"]
    /\ said = [u \in Ids(MaxUsers) |-> TRUE]
    /\ tasks = 0 /\ visits = 0

-----------------------------------------------------------------------------
(* Somebody without access writes: dispatch_event. The adapter of a channel *)
(* handles one message at a time.                                           *)

Knock(k) ==
    /\ visit[k] = "away" /\ ~Allowed(k)
    /\ visits < MaxVisits
    /\ visits' = visits + 1
    /\ visit' = [visit EXCEPT ![k] = "refused"]
    /\ UNCHANGED <<rowVars, task, word, said, tasks>>

\* ensure_access_request reads the request, and writes from what it read.
LookUpRequest(k) ==
    /\ visit[k] = "refused"
    /\ visit' = [visit EXCEPT ![k] = request[k]]
    /\ UNCHANGED <<rowVars, task, word, said, tasks, visits>>

Opens(status) == status \in {"none", "approved"}

FileRequest(k) ==
    /\ visit[k] \in Statuses
    /\ request' = [request EXCEPT ![k] = IF Opens(visit[k]) THEN "pending" ELSE @]
    /\ visit' = [visit EXCEPT ![k] = "away"]
    /\ UNCHANGED <<users, ident, perms, task, word, said, tasks, visits>>

Sender == \E k \in Keys : Knock(k) \/ LookUpRequest(k) \/ FileRequest(k)

-----------------------------------------------------------------------------
(* An administrator reads *)

Start(d, t) ==
    /\ task[d] = Idle /\ t.op \in Ops
    /\ tasks < MaxTasks
    /\ tasks' = tasks + 1
    /\ task' = [task EXCEPT ![d] = t]
    /\ UNCHANGED <<rowVars, visit, word, said, visits>>

BugUnchecked(k) == request[k] # "none"
\* _pending_request. The console has read the request with the list it shows;
\* the session does not read it again.
Resolvable(k) == request[k] = "pending"

OpenRequest(d) ==
    \E k \in Keys, op \in {"approve", "deny"} :
        Resolvable(k) /\ Start(d, [op |-> op, key |-> k])

OpenLink(d) ==
    \E k \in Keys, u \in DOMAIN users :
        IdentitiesOf(k) = {} /\ Start(d, [op |-> "link", key |-> k, user |-> u])

OpenUnlink(d) ==
    \E i \in DOMAIN ident : Start(d, [op |-> "unlink", id |-> i, key |-> ident[i][1]])

OpenGrant(d) ==
    \E i \in DOMAIN ident, kind \in Kinds :
        Start(d, [op |-> "grant", id |-> i, key |-> ident[i][1], kind |-> kind,
                  held |-> PermissionRows(i, kind) # {}])

\* A permission that is not held is refused.
OpenRevoke(d) ==
    \E i \in DOMAIN ident, kind \in Kinds : \E p \in PermissionRows(i, kind) :
        Start(d, [op |-> "revoke", id |-> i, key |-> ident[i][1], kind |-> kind, row |-> p])

OpenActive(d) ==
    \E u \in DOMAIN users, op \in {"activate", "deactivate"} :
        Start(d, [op |-> op, user |-> u, active |-> users[u]])

-----------------------------------------------------------------------------
(* ... and writes, with the event of the trail, in one transaction *)

Done(d, op) ==
    /\ task[d].op = op
    /\ task' = [task EXCEPT ![d] = Idle]
    /\ UNCHANGED <<visit, tasks, visits>>

\* resolve_requests_for_identity
Resolved(k) == [request EXCEPT ![k] = IF @ = "pending" THEN "approved" ELSE @]

Granted(k, kind)   == word' = [word EXCEPT ![<<k, kind>>] = "granted"]

\* create_user
CreateUser ==
    /\ NextId(users) <= MaxUsers /\ tasks < MaxTasks
    /\ tasks' = tasks + 1
    /\ users' = Inserted(users, TRUE)
    /\ UNCHANGED <<ident, perms, request, visit, task, word, said, visits>>

\* approve_request: an identity that exists meanwhile is given the permission,
\* otherwise a user and an identity are created.
Approve(d) ==
    /\ Done(d, "approve")
    /\ LET k == task[d].key IN
       /\ \/ /\ IdentitiesOf(k) # {}
             /\ UNCHANGED <<users, ident>>
             /\ \E i \in IdentitiesOf(k) :
                   perms' = IF PermissionRows(i, "chat") = {} THEN Inserted(perms, <<i, "chat">>)
                                                             ELSE perms
          \/ /\ IdentitiesOf(k) = {}
             /\ NextId(users) <= MaxUsers
             /\ users' = Inserted(users, TRUE)
             /\ ident' = Inserted(ident, <<k, NextId(users)>>)
             /\ perms' = Inserted(perms, <<NextId(ident), "chat">>)
       /\ DOMAIN ident' \cup DOMAIN perms' \subseteq Ids(MaxRows)
       /\ request' = [request EXCEPT ![k] = "approved"]
       /\ Granted(k, "chat")
    /\ UNCHANGED said

\* deny_request
Deny(d) ==
    /\ Done(d, "deny")
    /\ request' = [request EXCEPT ![task[d].key] = "denied"]
    /\ UNCHANGED <<users, ident, perms, word, said>>

\* add_channel_identity: a key is linked once.
Link(d) ==
    /\ Done(d, "link")
    /\ IdentitiesOf(task[d].key) = {}
    /\ NextId(ident) <= MaxRows
    /\ ident' = Inserted(ident, <<task[d].key, task[d].user>>)
    /\ request' = Resolved(task[d].key)
    /\ UNCHANGED <<users, perms, word, said>>

\* remove_channel_identity, with its permissions. The row may be gone already.
BugPermissionsStay(i) == perms
PermissionsWithout(i) == Without(perms, {p \in DOMAIN perms : perms[p][1] = i})

Unlink(d) ==
    /\ Done(d, "unlink")
    /\ ident' = Without(ident, {task[d].id})
    /\ perms' = PermissionsWithout(task[d].id)
    /\ word' = [w \in Keys \X Kinds |->
                   IF w[1] = task[d].key /\ word[w] = "granted" THEN "withdrawn" ELSE word[w]]
    /\ UNCHANGED <<users, request, said>>

\* grant_identity_permission: a permission already held is left as it is. The
\* identity must still exist, and the permission still be missing.
Grant(d) ==
    /\ Done(d, "grant")
    /\ \/ task[d].held /\ UNCHANGED perms
       \/ /\ ~task[d].held
          /\ task[d].id \in DOMAIN ident /\ PermissionRows(task[d].id, task[d].kind) = {}
          /\ NextId(perms) <= MaxRows
          /\ perms' = Inserted(perms, <<task[d].id, task[d].kind>>)
    /\ request' = Resolved(task[d].key)
    /\ Granted(task[d].key, task[d].kind)
    /\ UNCHANGED <<users, ident, said>>

\* revoke_identity_permission: the row that was read, which may be gone.
BugRevokedChat(t) == {p \in {t.row} : t.kind = "chat"}
RevokedRows(t) == {t.row}

Revoke(d) ==
    /\ Done(d, "revoke")
    /\ perms' = Without(perms, RevokedRows(task[d]))
    /\ word' = [word EXCEPT ![<<task[d].key, task[d].kind>>] = "withdrawn"]
    /\ UNCHANGED <<users, ident, request, said>>

\* update_user: the session writes only what differs from what it read.
Activity(t) == t.op = "activate"

SetActive(d) ==
    /\ \E op \in {"activate", "deactivate"} : Done(d, op)
    /\ LET t == task[d] IN
       /\ users' = IF Activity(t) # t.active THEN [users EXCEPT ![t.user] = Activity(t)] ELSE users
       /\ said' = [said EXCEPT ![t.user] = (t.op = "activate")]
    /\ UNCHANGED <<ident, perms, request, word>>

\* Refused by the database, cancelled, or simply left.
Abandon(d) ==
    /\ task[d] # Idle
    /\ task' = [task EXCEPT ![d] = Idle]
    /\ UNCHANGED <<rowVars, visit, word, said, tasks, visits>>

Desk(d) ==
    \/ OpenRequest(d) \/ OpenLink(d) \/ OpenUnlink(d) \/ OpenGrant(d) \/ OpenRevoke(d) \/ OpenActive(d)
    \/ Approve(d) \/ Deny(d) \/ Link(d) \/ Unlink(d) \/ Grant(d) \/ Revoke(d) \/ SetActive(d)
    \/ Abandon(d)

Next == Sender \/ CreateUser \/ \E d \in Desks : Desk(d)

Spec == Init /\ [][Next]_vars

-----------------------------------------------------------------------------
(* Properties *)

\* A request is resolved once: what an administrator decided is not overruled by a
\* decision taken on the same request (RequestAlreadyResolvedError).
ResolvedOnce ==
    [][\A k \in Keys :
          request'[k] # request[k] /\ request'[k] \in {"approved", "denied"}
             => request[k] = "pending"]_vars

\* A denied sender is not let in through the back door: the denial outlives their
\* further messages (#85), and whatever administrators do to the identity meanwhile.
DenialStands ==
    [][\A k \in Keys : request[k] = "denied" => request'[k] = "denied"]_vars

\* Both at once: the decisions of one desk are neither repeated nor taken back.
DecisionsStand == ResolvedOnce /\ DenialStands

\* The tables are a list of access: the user of each key, and what the key may do.
OwnersIn(rows) ==
    [k \in {rows[i][1] : i \in DOMAIN rows} |-> rows[CHOOSE i \in DOMAIN rows : rows[i][1] = k][2]]
Owner == OwnersIn(ident)
Rights == {w \in Keys \X Kinds : Held(w[1], w[2])}

List == INSTANCE AccessList WITH
            Users <- Ids(MaxUsers), owner <- Owner, rights <- Rights, active <- users

\* An operation reads first and writes later, and messages come in between; with one desk
\* every one of them acts as if it had done both at once, on what was there when it wrote: a
\* decision is taken on a pending request, once, a denied one stays denied, and a link, a
\* permission or an activity changes as the administrator meant it to.
ListIsKept == List!Spec

\* The trail of admin events tells who holds what, and who is active: a permission is held
\* exactly when the last event on it is an approval or a grant, the identity being still
\* linked, and a user is active or not as the last event on it says.
TrailTellsAccess ==
    /\ \A k \in Keys, kind \in Kinds : Held(k, kind) <=> word[<<k, kind>>] = "granted"
    /\ \A u \in DOMAIN users : users[u] = said[u]
=============================================================================
