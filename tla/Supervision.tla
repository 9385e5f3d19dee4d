---------------------------- MODULE Supervision ----------------------------
(***************************************************************************)
(* The process around the parts: app/main.py starts the channel adapters   *)
(* and the Admin API and outlives the failure of any of them, app/health.py*)
(* touches a file while they work, and the container's health check reads  *)
(* how old that file is.                                                   *)
(*                                                                         *)
(* Time is a clock of whole units. Whatever the event loop has to do now   *)
(* is done before time goes on, except while a call that does not yield    *)
(* holds the loop: nothing runs then, and the clock does not wait.         *)
(***************************************************************************)
EXTENDS Integers

CONSTANTS
    Enabled,    \* parts whose settings are complete
    BeatEvery,  \* INTERVAL_SECONDS
    Fresh,      \* MAX_AGE_SECONDS
    MaxSilence, \* LIVENESS_MAX_AGE_SECONDS of both adapters
    MaxTime,    \* bound on the clock
    MaxLives    \* bound on how often the container starts the process

Parts   == {"telegram", "email", "api"}
Watched == {"telegram", "email"}   \* the parts that report their successes

ASSUME ConstantsAssumption ==
    /\ Enabled \subseteq Parts
    /\ BeatEvery \in Nat \ {0} /\ Fresh \in Nat /\ MaxSilence \in Nat
    /\ BeatEvery <= Fresh
    /\ MaxTime \in Nat /\ MaxLives \in Nat

VARIABLES
    now,
    phase,     \* of the process: "boot", "run", or "over"
    task,      \* of each part: "off", "starting", "working" or "done"
    expected,  \* the names in health._components
    success,   \* and the time of their last success
    due,       \* when the heartbeat wakes up, Never once its loop has ended
    touched,   \* the modification time of the heartbeat file, Never without one
    loop,      \* whether a call holds the event loop: "free" or "held"
    \* history
    heldSince, \* when the loop was taken
    unwell,    \* the last time something was wrong
    lives      \* processes started

supervisionVars == <<now, phase, task, expected, success, due, touched, loop, heldSince, unwell, lives>>

Never == -1
Time  == 0..MaxTime

SupervisionTypeOK ==
    /\ now \in Time
    /\ phase \in {"boot", "run", "over"}
    /\ task \in [Parts -> {"off", "starting", "working", "done"}]
    /\ expected \subseteq Watched
    /\ success \in [Parts -> Time]
    /\ due \in Int /\ touched \in Time \cup {Never}
    /\ loop \in {"free", "held"}
    /\ heldSince \in Time /\ unwell \in Time
    /\ lives \in Nat

SupervisionInit ==
    /\ now = 0 /\ phase = "boot"
    /\ task = [p \in Parts |-> "off"]
    /\ expected = {} /\ success = [p \in Parts |-> 0]
    /\ due = Never /\ touched = Never
    /\ loop = "free"
    /\ heldSince = 0 /\ unwell = 0 /\ lives = 1

AllDone == Enabled # {} /\ \A p \in Enabled : task[p] = "done"

\* What the health check of the container answers.
Healthy == touched # Never /\ now - touched <= Fresh

----------------------------------------------------------------------------
\* The process.

\* main: the database, the first administrator, the checkpoints, then a task for each
\* part that is set up, and the heartbeat.
Boot ==
    /\ phase = "boot"
    /\ phase' = "run"
    /\ task' = [p \in Parts |-> IF p \in Enabled THEN "starting" ELSE "off"]
    /\ due' = now
    /\ UNCHANGED <<now, expected, success, touched, loop, heldSince, lives>>

\* Everything the process knew is gone: a failure to boot, a signal, or the end of main.
Gone ==
    /\ phase' = "over"
    /\ task' = [p \in Parts |-> "off"]
    /\ expected' = {} /\ success' = [p \in Parts |-> 0]
    /\ due' = Never /\ loop' = "free"
    /\ UNCHANGED <<now, touched, heldSince, lives>>

Dies == phase # "over" /\ Gone

\* gather returns when the last part has ended: main ends with 1.
EndsWithItsParts == phase = "run" /\ loop = "free" /\ AllDone /\ Gone

\* The container is started again, with the files it had.
Restart ==
    /\ phase = "over" /\ lives < MaxLives
    /\ phase' = "boot" /\ lives' = lives + 1
    /\ UNCHANGED <<now, task, expected, success, due, touched, loop, heldSince>>

----------------------------------------------------------------------------
\* The parts. Each runs until it is cancelled or fails.

Active(p) == phase = "run" /\ loop = "free" /\ task[p] \in {"starting", "working"}

BugStarts(p) ==
    /\ Active(p) /\ task[p] = "starting"
    /\ task' = [task EXCEPT ![p] = "working"]
    /\ expected' = expected \cup {p} /\ success' = [success EXCEPT ![p] = now]
    /\ UNCHANGED <<now, phase, due, touched, loop, heldSince, lives>>
\* The adapter is connected: it says that it is to be watched, which counts as a success.
Starts(p) ==
    /\ Active(p) /\ task[p] = "starting"
    /\ task' = [task EXCEPT ![p] = "working"]
    /\ IF p \in Watched
         THEN expected' = expected \cup {p} /\ success' = [success EXCEPT ![p] = now]
         ELSE UNCHANGED <<expected, success>>
    /\ UNCHANGED <<now, phase, due, touched, loop, heldSince, lives>>

\* A poll of the mailbox, or a getMe, came back.
Succeeds(p) ==
    /\ Active(p) /\ p \in expected
    /\ success' = [success EXCEPT ![p] = now]
    /\ UNCHANGED <<now, phase, task, expected, due, touched, loop, heldSince, lives>>

BugFails(p) ==
    /\ Active(p)
    /\ task' = [task EXCEPT ![p] = "done"]
    /\ UNCHANGED <<now, phase, expected, success, due, touched, loop, heldSince, lives>>
\* _supervised: the failure of a part, at its start or later, ends that part alone. Its own
\* clean-up takes it off the list.
Fails(p) ==
    /\ Active(p)
    /\ task' = [task EXCEPT ![p] = "done"]
    /\ expected' = expected \ {p} /\ success' = [success EXCEPT ![p] = 0]
    /\ UNCHANGED <<now, phase, due, touched, loop, heldSince, lives>>

\* A call that does not yield, and its end.
Hold ==
    /\ phase = "run" /\ loop = "free"
    /\ loop' = "held" /\ heldSince' = now
    /\ UNCHANGED <<now, phase, task, expected, success, due, touched, lives>>
Release ==
    /\ phase = "run" /\ loop = "held"
    /\ loop' = "free"
    /\ UNCHANGED <<now, phase, task, expected, success, due, touched, heldSince, lives>>

----------------------------------------------------------------------------
\* The heartbeat.

BugStale == IF \A p \in expected : now - success[p] > MaxSilence THEN expected ELSE {}
Stale == {p \in expected : now - success[p] > MaxSilence}

Beat ==
    /\ phase = "run" /\ loop = "free" /\ due # Never /\ now >= due
    /\ IF AllDone
         THEN due' = Never /\ UNCHANGED touched
         ELSE /\ due' = now + BeatEvery
              /\ touched' = IF Stale = {} THEN now ELSE touched
    /\ UNCHANGED <<now, phase, task, expected, success, loop, heldSince, lives>>

Tick ==
    /\ now < MaxTime
    /\ loop = "free" => phase # "boot" /\ ~AllDone /\ (due = Never \/ now < due)
    /\ now' = now + 1
    /\ UNCHANGED <<phase, task, expected, success, due, touched, loop, heldSince, lives>>

----------------------------------------------------------------------------
\* A part that works without success, a loop that is held, no part at all: one of these is
\* wrong, whatever health._components says.
Silent == {p \in Watched : task[p] = "working" /\ now - success[p] > MaxSilence}
Wrong  == phase # "run" \/ loop = "held" \/ Silent # {} \/ AllDone

PartsStep ==
    \/ Boot \/ Dies \/ EndsWithItsParts \/ Restart
    \/ \E p \in Enabled : Starts(p) \/ Succeeds(p) \/ Fails(p)
    \/ Hold \/ Release \/ Beat \/ Tick

SupervisionNext == PartsStep /\ unwell' = IF Wrong' THEN now' ELSE unwell

SupervisionSpec == SupervisionInit /\ [][SupervisionNext]_supervisionVars

----------------------------------------------------------------------------
\* Whatever stops working is seen: once an adapter has been without success, or the event
\* loop held, for longer than the two delays allow, the container is unhealthy (#48, #90).
SilenceShows ==
    /\ \A p \in Watched :
         task[p] = "working" /\ now - success[p] > MaxSilence + Fresh => ~Healthy
    /\ loop = "held" /\ now - heldSince > Fresh => ~Healthy

\* No false alarm: after one interval in which nothing was wrong with the parts that still
\* run, the container is healthy, whatever became of the parts that have ended (#83): one
\* adapter down does not get the others restarted.
WorkIsHealthy == ~Wrong /\ now - unwell > BeatEvery => Healthy
=============================================================================
