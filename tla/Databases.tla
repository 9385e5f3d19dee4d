----------------------------- MODULE Databases ------------------------------
(***************************************************************************)
(* What is on the disk of a ChannelAgent host and the programs that change *)
(* it as a whole: the application database with its schema revision, the   *)
(* conversation checkpoints, copies of both, .env and .env.pre-rekey       *)
(* (app/db/session.py, app/db/backup.py, app/checkpoints.py).              *)
(*                                                                         *)
(* An encrypted value is the key it can be read with. The owner runs one   *)
(* program at a time, as the documentation asks: only the guided rotation  *)
(* and the restore look whether the application runs. A step ends where a  *)
(* file has been written or a transaction committed; the program may be    *)
(* killed between any two.                                                 *)
(***************************************************************************)
EXTENDS Naturals, FiniteSets

CONSTANTS
    AppRows,    \* encrypted values of the application database
    ChatRows,   \* payloads of the checkpoint database
    Head,       \* schema revisions there will ever be
    Keep,       \* MIGRATION_BACKUPS_KEEP
    MaxKeys,    \* keys ever generated
    MaxActs,    \* what the owner does: starts of programs, changes of files
    MaxCrashes

Revisions == 1..Head
Keys == 1..MaxKeys
NoKey == 0
Value == Keys \cup {NoKey}

ASSUME ConstantsAssumption ==
    /\ Head \in Nat \ {0} /\ MaxKeys \in Nat \ {0} /\ Keep \in Nat
    /\ MaxActs \in Nat /\ MaxCrashes \in Nat

VARIABLES
    app,      \* its revision, and the key of each value; NoKey where there is none
    chat,
    copies,   \* backups/
    env,      \* ENCRYPTION_KEY in .env; NoKey when the file is empty
    net,      \* .env.pre-rekey: {} when it does not exist
    code,     \* head revision of the installed version
    proc,     \* the program that runs
    \* history
    safe,     \* keys the owner has put aside
    keys,     \* keys generated so far
    clock,    \* copies made so far
    said,     \* a guided rotation said it was "done", the application then ran "fine"
    acts, crashes

fileVars == <<app, chat, copies, env, net>>
ownerVars == <<code, safe, acts>>
vars == <<fileVars, proc, ownerVars, keys, clock, said, crashes>>

AppData  == [rev : Revisions, key : [AppRows -> Value]]
ChatData == [ChatRows -> Value]
Copy == [of : {"app"}, label : {"migration", "prerekey", "before-restore"}, stamp : Nat, data : AppData]
        \cup [of : {"chat"}, label : {"prerekey"}, stamp : Nat, data : ChatData]

Stages == {"starting", "pruning", "migrating", "serving",
           "opennet", "fillnet", "openenv", "fillenv", "plan", "copyapp", "copychat",
           "commitapp", "commitchat", "verify", "readback", "failed", "putback", "refill", "unlink",
           "keeping", "swapping", "over"}
Program == [run : {"app", "guided", "hand", "restore"}, at : Stages,
            old : Value, new : Value,    \* the key of the application is its new one
            allow : BOOLEAN,             \* --allow-unreadable
            chosen : AppData,            \* the backup to restore
            base : AppData]              \* the database when the program started
Nothing == {}

TypeOK ==
    /\ app \in AppData /\ chat \in ChatData
    /\ copies \subseteq Copy
    /\ env \in Value /\ net \subseteq Value
    /\ code \in Revisions
    /\ proc \subseteq Program /\ (\A p, q \in proc : p = q)
    /\ safe \subseteq Keys
    /\ keys \in Keys /\ said \in {"nothing", "done", "fine"}
    /\ clock \in Nat /\ acts \in Nat /\ crashes \in Nat

KeysOf(table) == {table[r] : r \in DOMAIN table} \ {NoKey}
InUse == KeysOf(app.key) \cup KeysOf(chat)

Init ==
    /\ app \in [rev : {1}, key : [AppRows -> {NoKey, 1}]]
    /\ chat \in [ChatRows -> {NoKey, 1}]
    /\ copies = {} /\ env = 1 /\ net = {}
    /\ code \in Revisions
    /\ proc = Nothing
    /\ safe = {} /\ keys = 1 /\ said = "nothing" /\ clock = 0 /\ acts = 0 /\ crashes = 0

-----------------------------------------------------------------------------
(* Programs *)

Act == acts < MaxActs /\ acts' = acts + 1

BugLaunch(name, at, old, new, allow, chosen) ==
    /\ Act
    /\ proc' = proc \cup {[run |-> name, at |-> at, old |-> old, new |-> new, allow |-> allow,
                           chosen |-> chosen, base |-> app]}

Launch(name, at, old, new, allow, chosen) ==
    /\ proc = Nothing /\ Act
    /\ proc' = {[run |-> name, at |-> at, old |-> old, new |-> new, allow |-> allow,
                 chosen |-> chosen, base |-> app]}

At(p, stage) == p \in proc /\ p.at = stage
Goes(p, stage) == proc' = {[p EXCEPT !.at = stage]}
Ends == proc' = Nothing

\* make_backup: a verified copy, named after the time; a bad one is removed.
Copied(of, label, data) ==
    /\ copies' = copies \cup {[of |-> of, label |-> label, stamp |-> clock, data |-> data]}
    /\ clock' = clock + 1

\* Killed between two steps.
Crash ==
    /\ proc # Nothing /\ crashes < MaxCrashes
    /\ crashes' = crashes + 1 /\ Ends
    /\ UNCHANGED <<fileVars, ownerVars, keys, clock, said>>

-----------------------------------------------------------------------------
(* The application. init_db migrates the database at every start. *)

FilesOnly == UNCHANGED <<ownerVars, keys, said, crashes>>

\* start.sh refuses an empty ENCRYPTION_KEY; the process keeps the key it started with.
StartApp ==
    /\ env # NoKey
    /\ Launch("app", "starting", NoKey, env, FALSE, app)
    /\ UNCHANGED <<fileVars, code, safe, keys, clock, said, crashes>>

\* backup_before_migration
BackUp(p) ==
    /\ At(p, "starting")
    /\ \/ app.rev = code /\ Goes(p, "serving") /\ UNCHANGED <<copies, clock>>
       \/ app.rev # code /\ Keep = 0 /\ Goes(p, "migrating") /\ UNCHANGED <<copies, clock>>
       \/ app.rev # code /\ Keep > 0 /\ Goes(p, "pruning") /\ Copied("app", "migration", app)
       \/ app.rev # code /\ Keep > 0 /\ Ends /\ UNCHANGED <<copies, clock>>
    /\ UNCHANGED <<app, chat, env, net>> /\ FilesOnly

\* _prune: of the copies made for migrations the newest stay.
Newer(c) == {d \in copies : d.label = "migration" /\ d.stamp > c.stamp}
Older(c) == {d \in copies : d.label = "migration" /\ d.stamp < c.stamp}
BugNewestGo == {c \in copies : c.label = "migration" /\ Cardinality(Older(c)) >= Keep}
Surplus == {c \in copies : c.label = "migration" /\ Cardinality(Newer(c)) >= Keep}

Prune(p) ==
    /\ At(p, "pruning") /\ Goes(p, "migrating")
    /\ copies' = copies \ Surplus
    /\ UNCHANGED <<app, chat, env, net, clock>> /\ FilesOnly

\* alembic applies one revision after the other and keeps those that succeeded. A
\* database ahead of the code cannot be migrated.
Migrate(p) ==
    /\ At(p, "migrating")
    /\ \/ /\ app.rev < code
          /\ app' = [app EXCEPT !.rev = @ + 1]
          /\ Goes(p, IF app.rev + 1 = code THEN "serving" ELSE "migrating")
       \/ Ends /\ UNCHANGED app
    /\ UNCHANGED <<chat, copies, env, net, clock>> /\ FilesOnly

\* A value is stored where there was none.
Serve(p) ==
    /\ At(p, "serving")
    /\ \/ \E r \in AppRows : app.key[r] = NoKey /\ app' = [app EXCEPT !.key[r] = p.new] /\ UNCHANGED chat
       \/ \E r \in ChatRows : chat[r] = NoKey /\ chat' = [chat EXCEPT ![r] = p.new] /\ UNCHANGED app
    /\ UNCHANGED <<copies, env, net, proc, clock>> /\ FilesOnly

StopApp(p) ==
    /\ At(p, "serving") /\ Ends
    /\ said' = IF said = "done" THEN "fine" ELSE said
    /\ UNCHANGED <<fileVars, ownerVars, keys, clock, crashes>>

Application == StartApp \/ \E p \in proc : BackUp(p) \/ Prune(p) \/ Migrate(p) \/ Serve(p) \/ StopApp(p)
=============================================================================
