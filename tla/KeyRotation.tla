---------------------------- MODULE KeyRotation -----------------------------
(***************************************************************************)
(* Rotation of ENCRYPTION_KEY: guided, ./start.sh --rekey                  *)
(* (app/admin/rekey_guided.py), which also writes .env, and by hand        *)
(* (app/admin/rekey.py), where the owner has changed .env first and names  *)
(* the old key. A file that is rewritten is empty in between. Any step may *)
(* fail: the guided rotation then looks at the data and decides which .env *)
(* to leave.                                                               *)
(***************************************************************************)
EXTENDS Databases

CopyKeys(c) == KeysOf(IF c.of = "app" THEN c.data.key ELSE c.data)
Kept == ({env} \cup net \cup safe) \ {NoKey}
Unreadable(old, new) == InUse \ {old, new}
BugLeft(old) == KeysOf(app.key) \cap {old}
Left(old) == InUse \cap {old}
Rekeyed(table, p) == [r \in DOMAIN table |-> IF table[r] = p.old THEN p.new ELSE table[r]]

KeysStay == UNCHANGED <<ownerVars, keys, crashes>>
DataStays == UNCHANGED <<app, chat, copies, clock>>
EnvStays == UNCHANGED <<env, net>>

\* main: nothing is written before the net; the second dry run is the same as the first.
StartGuided ==
    \E allow \in BOOLEAN :
        /\ env # NoKey /\ net = {} /\ keys < MaxKeys
        /\ Unreadable(env, keys + 1) = {} \/ allow
        /\ Launch("guided", "opennet", env, keys + 1, allow, app)
        /\ keys' = keys + 1 /\ said' = "nothing"
        /\ UNCHANGED <<fileVars, code, safe, clock, crashes>>

\* OLD_ENCRYPTION_KEY names a key the owner still has.
StartHand ==
    \E allow \in BOOLEAN, old \in Kept \ {env} :
        /\ env # NoKey
        /\ Launch("hand", "plan", old, env, allow, app)
        /\ said' = "nothing"
        /\ UNCHANGED <<fileVars, code, safe, keys, clock, crashes>>

\* _write_private(SAFETY_NET, previous_env), then _replace_key: each truncates its file first.
WriteFiles(p) ==
    /\ \/ At(p, "opennet") /\ Goes(p, "fillnet") /\ net' = {NoKey} /\ env' = env
       \/ At(p, "fillnet") /\ Goes(p, "openenv") /\ net' = {p.old} /\ env' = env
       \/ At(p, "openenv") /\ Goes(p, "fillenv") /\ env' = NoKey   /\ net' = net
       \/ At(p, "fillenv") /\ Goes(p, "plan")    /\ env' = p.new   /\ net' = net
    /\ DataStays /\ KeysStay /\ said' = said

\* run_rekey classifies every value before it writes.
Plan(p) ==
    /\ At(p, "plan")
    /\ Unreadable(p.old, p.new) = {} \/ p.allow
    /\ Goes(p, IF Left(p.old) = {} THEN "verify" ELSE "copyapp")
    /\ DataStays /\ EnvStays /\ KeysStay /\ said' = said

Copies(p) ==
    /\ \/ At(p, "copyapp")  /\ Goes(p, "copychat")  /\ Copied("app", "prerekey", app)
       \/ At(p, "copychat") /\ Goes(p, "commitapp") /\ Copied("chat", "prerekey", chat)
    /\ UNCHANGED <<app, chat>> /\ EnvStays /\ KeysStay /\ said' = said

\* One transaction for each database; both are prepared before the first is committed.
Commits(p) ==
    /\ \/ /\ At(p, "commitapp") /\ Goes(p, "commitchat")
          /\ app' = [app EXCEPT !.key = Rekeyed(@, p)] /\ chat' = chat
       \/ /\ At(p, "commitchat") /\ Goes(p, "verify")
          /\ chat' = Rekeyed(chat, p) /\ app' = app
    /\ UNCHANGED <<copies, clock>> /\ EnvStays /\ KeysStay /\ said' = said

\* _verify, over both databases.
Verify(p) ==
    /\ At(p, "verify")
    /\ Left(p.old) = {}
    /\ Unreadable(p.old, p.new) = {} \/ p.allow
    /\ IF p.run = "guided" THEN Goes(p, "readback") ELSE Ends
    /\ DataStays /\ EnvStays /\ KeysStay /\ said' = said

\* _read_back_unreadable: the application's own reading, of the application database.
ReadBack(p) ==
    /\ At(p, "readback") /\ Ends
    /\ \/ /\ KeysOf(app.key) \subseteq {env} \/ p.allow
          /\ said' = "done"
       \/ said' = said
    /\ DataStays /\ EnvStays /\ KeysStay

\* The disk is full, a database is locked, a check does not hold.
Fails(p) ==
    /\ p.at \in {"plan", "copyapp", "copychat", "commitapp", "commitchat", "verify"}
    /\ IF p.run = "guided" THEN Goes(p, "failed") ELSE Ends
    /\ DataStays /\ EnvStays /\ KeysStay /\ said' = said

BugAfterFailure(p) ==
    /\ At(p, "failed") /\ Goes(p, "putback")
    /\ DataStays /\ EnvStays /\ KeysStay /\ said' = said

\* _after_failure. Both files stay unless it is certain that nothing was rewritten.
AfterFailure(p) ==
    /\ At(p, "failed")
    /\ \/ p.new \notin InUse /\ Goes(p, "putback")
       \/ Ends
    /\ DataStays /\ EnvStays /\ KeysStay /\ said' = said

PutBack(p) ==
    /\ \/ At(p, "putback") /\ Goes(p, "refill") /\ env' = NoKey /\ net' = net
       \/ At(p, "refill")  /\ Goes(p, "unlink") /\ env' = p.old /\ net' = net
       \/ At(p, "unlink")  /\ Ends              /\ env' = env   /\ net' = {}
    /\ DataStays /\ KeysStay /\ said' = said

Rotation ==
    \/ StartGuided \/ StartHand
    \/ \E p \in proc : \/ WriteFiles(p) \/ Plan(p) \/ Copies(p) \/ Commits(p) \/ Verify(p)
                       \/ ReadBack(p) \/ Fails(p) \/ AfterFailure(p) \/ PutBack(p)

-----------------------------------------------------------------------------
(* The owner's hand, while nothing runs (external) *)

ByHand == proc = Nothing /\ Act /\ UNCHANGED <<app, chat, proc, keys, clock, crashes>>

\* "Move or delete it yourself first": the key goes to the password manager, an empty
\* file to the bin.
MoveNet ==
    /\ ByHand /\ net # {}
    /\ safe' = safe \cup (net \ {NoKey}) /\ net' = {}
    /\ UNCHANGED <<copies, env, code, said>>

\* Once the rotation said it was done, the new key is stored and the application ran
\* fine, the net and the prerekey copies may be deleted.
DeleteNets ==
    /\ ByHand /\ said = "fine"
    /\ safe' = safe \cup {env} /\ net' = {} /\ env # NoKey
    /\ copies' = {c \in copies : c.label # "prerekey"}
    /\ UNCHANGED <<env, code, said>>

\* ENCRYPTION_KEY is set to another key the owner has, the one it held is put aside.
SetKey ==
    /\ ByHand
    /\ \E k \in Kept \ {env} : env' = k
    /\ safe' = safe \cup ({env} \ {NoKey})
    /\ said' = "nothing"
    /\ UNCHANGED <<copies, net, code>>

Install ==
    /\ ByHand
    /\ \E v \in Revisions \ {code} : code' = v
    /\ UNCHANGED <<copies, env, net, safe, said>>

Owner == MoveNet \/ DeleteNets \/ SetKey \/ Install
=============================================================================
