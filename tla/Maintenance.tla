---------------------------- MODULE Maintenance -----------------------------
(***************************************************************************)
(* The host's programs together: the application and its migrations, key   *)
(* rotations, restores, and what the owner does to the files in between.   *)
(***************************************************************************)
EXTENDS KeyRotation, Restore

Next == Application \/ Rotation \/ Restoring \/ Owner \/ Crash

Spec == Init /\ [][Next]_vars

-----------------------------------------------------------------------------
(* Properties *)

\* Whatever was interrupted or failed, no key that a stored value or a prerekey copy needs
\* is lost: it is in .env, in .env.pre-rekey or among the keys the owner put aside
\* (rekey_guided.py writes the net before .env and weighs a failure before it puts
\* anything back).
NothingLost ==
    /\ InUse \subseteq Kept
    /\ \A c \in copies : c.label = "prerekey" => CopyKeys(c) \subseteq Kept

\* When the guided rotation says "Done" every value of both databases can be read with
\* the key in .env, and the old key is still in the net; unreadable values are left over
\* only if they were allowed.
DoneMeansReadable ==
    [][\A p \in proc : said' = "done" /\ said # "done" =>
           /\ env' = p.new /\ net' = {p.old}
           /\ p.old \notin InUse' /\ (p.allow \/ InUse' \subseteq {p.new})]_vars

\* While a migration, a rotation or a restore changes the application database there is a
\* way back to what it was: itself, or a copy that the pruning has spared, which stays
\* while the migrated application runs
\* (backup_before_migration, run_rekey and run_restore copy first).
WayBack ==
    \A p \in proc :
        Keep > 0 =>
            \/ app = p.base
            \/ p.at = "serving" /\ app.rev = p.base.rev
            \/ \E c \in copies : c.of = "app" /\ c.data = p.base
=============================================================================
