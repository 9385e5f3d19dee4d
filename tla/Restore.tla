------------------------------ MODULE Restore -------------------------------
(***************************************************************************)
(* ./start.sh --restore (app/admin/restore.py): a copy takes the place of  *)
(* the application database, which is copied first. The conversation       *)
(* checkpoints are left as they are.                                       *)
(***************************************************************************)
EXTENDS Databases

\* A copy this version of the code knows, readable with the key in .env unless the
\* owner allows it, which makes sense for a key that is at hand.
StartRestore ==
    \E c \in copies, allow \in BOOLEAN :
        /\ c.of = "app" /\ env # NoKey
        /\ c.data.rev <= code
        /\ \/ KeysOf(c.data.key) \subseteq {env}
           \/ allow /\ KeysOf(c.data.key) \subseteq {env} \cup net \cup safe
        /\ Launch("restore", "keeping", NoKey, env, allow, c.data)
        /\ said' = "nothing"
        /\ UNCHANGED <<fileVars, code, safe, keys, clock, crashes>>

KeepCurrent(p) ==
    /\ At(p, "keeping")
    /\ Goes(p, "swapping") /\ Copied("app", "before-restore", app)
    /\ UNCHANGED <<app, chat, env, net>> /\ FilesOnly

\* os.replace of the staged copy.
Swap(p) ==
    /\ At(p, "swapping")
    /\ app' = p.chosen /\ Goes(p, "over")
    /\ UNCHANGED <<chat, copies, env, net, clock>> /\ FilesOnly

\* It ends, or it gives up before the swap.
EndRestore(p) ==
    /\ p.run = "restore" /\ Ends
    /\ UNCHANGED <<fileVars, clock>> /\ FilesOnly

Restoring == StartRestore \/ \E p \in proc : KeepCurrent(p) \/ Swap(p) \/ EndRestore(p)
=============================================================================
