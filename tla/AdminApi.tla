------------------------------ MODULE AdminApi -------------------------------
(***************************************************************************)
(* The Admin API, from the arrival of a request to its answer: the key and *)
(* the limiter (app/api/deps.py), the time limit around the whole request  *)
(* (app/api/protect.py), the routes that change something through the      *)
(* service layer and record it in the same transaction (app/api/routes.py, *)
(* routing_routes.py), the route that writes the settings file             *)
(* (config_routes.py), and the search of the decrypted log.                *)
(*                                                                         *)
(* A request holds one session. Its first write takes the one write lock   *)
(* of SQLite, which its commit, its rollback or the loss of the process    *)
(* gives back. A handler that does not await holds the event loop: while   *)
(* the settings file is written no other request moves.                    *)
(***************************************************************************)
EXTENDS AttemptLimit, SettingsFile, LogSearch, FiniteSets

CONSTANTS
    Requests,   \* ids of requests, of which one at a time may be a search
    Steps       \* the service calls one change can be made of

ASSUME RequestsAssumption == Steps \cap {"change", "config", "search"} = {}

VARIABLES
    req,        \* each request: where it is, what it asks, what it still has to do
    made,       \* the calls whose change is in its transaction, not committed
    noted,      \* those whose event is
    rows,       \* the changes committed, as <<request, call>>
    events,     \* and the admin events
    writer,     \* who holds the write lock
    \* history
    written     \* the requests that have written the settings file

pipeVars == <<req, made, noted, rows, events, writer, written>>
vars     == <<limitVars, settingsVars, searchVars, pipeVars>>

Kinds   == {"change", "config", "search"}
Answers == {"none", "ok", "refused", "failed", "late", "cut"}
Free    == "free"

TypeOK ==
    /\ LimitTypeOK /\ SettingsTypeOK /\ SearchTypeOK
    /\ req \in [Requests -> [at : {"new", "handler", "saving", "reading", "committed", "over"},
                             kind : Kinds, todo : SUBSET (Steps \cup Kinds), answer : Answers]]
    /\ made \in [Requests -> SUBSET (Steps \cup Kinds)]
    /\ noted \in [Requests -> SUBSET (Steps \cup Kinds)]
    /\ rows \subseteq Requests \X Steps
    /\ events \subseteq Requests \X (Steps \cup Kinds)
    /\ writer \in Requests \cup {Free} /\ written \subseteq Requests

Init ==
    /\ LimitInit /\ SettingsInit /\ SearchInit
    /\ req = [r \in Requests |-> [at |-> "new", kind |-> "change", todo |-> {}, answer |-> "none"]]
    /\ made = [r \in Requests |-> {}] /\ noted = [r \in Requests |-> {}]
    /\ rows = {} /\ events = {} /\ writer = Free /\ written = {}

At(r, place) == req[r].at = place
Open(r)      == req[r].at \in {"handler", "saving", "reading", "committed"}
LoopIsFree   == ~Saving("api")
\* A purge commits under the same lock.
LockIsFree   == writer = Free

\* The transaction of a request is gone, and its session closed.
RollBack(r) ==
    /\ made' = [made EXCEPT ![r] = {}] /\ noted' = [noted EXCEPT ![r] = {}]
    /\ writer' = IF writer = r THEN Free ELSE writer
    /\ UNCHANGED <<rows, events>>

Ends(r, answer) ==
    /\ req' = [req EXCEPT ![r] = [@ EXCEPT !.at = "over", !.answer = answer]]
    /\ RollBack(r)
    /\ IF req[r].kind = "search" THEN DropSearch ELSE UNCHANGED searchVars
    /\ UNCHANGED <<limitVars, settingsVars, written>>

----------------------------------------------------------------------------
\* Arrival.

Guess(a) == LoopIsFree /\ WrongKey(a) /\ UNCHANGED <<settingsVars, searchVars, pipeVars>>

BugTurnAway(r, a) ==
    /\ LoopIsFree /\ At(r, "new") /\ Blocked(a)
    /\ LookUp(a)
    /\ req' = [req EXCEPT ![r].at = "refused"]
    /\ UNCHANGED <<settingsVars, searchVars, made, noted, rows, events, writer, written>>
TurnAway(r, a) ==
    /\ LoopIsFree /\ At(r, "new") /\ Blocked(a)
    /\ LookUp(a)
    /\ req' = [req EXCEPT ![r].at = "over", ![r].answer = "refused"]
    /\ UNCHANGED <<settingsVars, searchVars, made, noted, rows, events, writer, written>>

Accept(r, a, kind, todo) ==
    /\ LoopIsFree /\ At(r, "new") /\ ~Blocked(a)
    /\ LookUp(a)
    /\ req' = [req EXCEPT ![r].at = "handler", ![r].kind = kind, ![r].todo = todo]
    /\ UNCHANGED <<settingsVars, searchVars, made, noted, rows, events, writer, written>>

ArriveChange(r, a) == \E todo \in (SUBSET Steps) \ {{}} : Accept(r, a, "change", todo)
ArriveConfig(r, a) == Accept(r, a, "config", {"config"})

ArriveSearch(r, a) ==
    /\ LoopIsFree /\ At(r, "new") /\ ~Blocked(a)
    /\ search.at = "none"
    /\ LookUp(a)
    /\ req' = [req EXCEPT ![r].at = "reading", ![r].kind = "search", ![r].todo = {"search"}]
    /\ \E limit \in PageSizes, offset \in Offsets : BeginSearch(limit, offset)
    /\ UNCHANGED <<settingsVars, made, noted, rows, events, writer, written>>

----------------------------------------------------------------------------
\* The handlers. Whatever they write goes through the lock.

CanWrite(r) == LoopIsFree /\ At(r, "handler") /\ writer \in {Free, r}

\* A call of the service layer makes its change, then its event: both are flushed.
Change(r, step) ==
    /\ CanWrite(r) /\ req[r].kind = "change"
    /\ step \in req[r].todo \ made[r] /\ made[r] = noted[r]
    /\ made' = [made EXCEPT ![r] = @ \cup {step}] /\ writer' = r
    /\ UNCHANGED <<limitVars, settingsVars, searchVars, req, noted, rows, events, written>>

Record(r, call) ==
    /\ CanWrite(r)
    /\ call \in (IF req[r].kind = "change" THEN made[r] ELSE req[r].todo) \ noted[r]
    /\ req[r].kind = "config" => r \in written
    /\ noted' = [noted EXCEPT ![r] = @ \cup {call}] /\ writer' = r
    /\ UNCHANGED <<limitVars, settingsVars, searchVars, req, made, rows, events, written>>

BugCommit(r) ==
    /\ LoopIsFree /\ At(r, "handler") /\ noted[r] # {} /\ noted[r] \subseteq req[r].todo
    /\ rows' = rows \cup ({r} \X made[r])
    /\ events' = events \cup ({r} \X noted[r])
    /\ made' = [made EXCEPT ![r] = {}] /\ noted' = [noted EXCEPT ![r] = {}]
    /\ writer' = Free
    /\ req' = [req EXCEPT ![r].at = IF noted[r] = req[r].todo THEN "committed" ELSE "handler"]
    /\ UNCHANGED <<limitVars, settingsVars, searchVars, written>>
\* The commit, once every call has been made.
Commit(r) ==
    /\ LoopIsFree /\ At(r, "handler") /\ noted[r] = req[r].todo
    /\ rows' = rows \cup ({r} \X made[r])
    /\ events' = events \cup ({r} \X noted[r])
    /\ made' = [made EXCEPT ![r] = {}] /\ noted' = [noted EXCEPT ![r] = {}]
    /\ writer' = Free
    /\ req' = [req EXCEPT ![r].at = "committed"]
    /\ UNCHANGED <<limitVars, settingsVars, searchVars, written>>

Answer(r) == LoopIsFree /\ At(r, "committed") /\ Ends(r, "ok")

\* NotFoundError 404, ConflictError 409, InvalidInputError 422: raised by any call.
Refused(r) == LoopIsFree /\ req[r].kind = "change" /\ At(r, "handler")
                         /\ made[r] = noted[r] /\ made[r] # req[r].todo /\ Ends(r, "refused")

\* Anything else, such as a lock that another process or request does not give back in time.
Failed(r) == LoopIsFree /\ req[r].at \in {"handler", "reading"} /\ Ends(r, "failed")

\* ProtectMiddleware: the time is up, wherever the request is waiting. The commit may have
\* been made already.
TimeLimit(r) == LoopIsFree /\ req[r].at \in {"handler", "reading", "committed"} /\ Ends(r, "late")

\* PATCH /config writes the file first, without a break.
SaveBegins(r, name) ==
    /\ LoopIsFree /\ At(r, "handler") /\ req[r].kind = "config" /\ r \notin written
    /\ Begin("api", name)
    /\ req' = [req EXCEPT ![r].at = "saving"]
    /\ UNCHANGED <<limitVars, searchVars, made, noted, rows, events, writer, written>>

SaveGoesOn(r) ==
    /\ At(r, "saving") /\ Unfinished("api")
    /\ UNCHANGED <<limitVars, searchVars, pipeVars>>

SaveEnds(r) ==
    /\ At(r, "saving") /\ WriteFile("api")
    /\ req' = [req EXCEPT ![r].at = "handler"]
    /\ written' = written \cup {r}
    /\ UNCHANGED <<limitVars, searchVars, made, noted, rows, events, writer>>

SaveRefused(r) ==
    /\ At(r, "saving") /\ Refuse("api")
    /\ req' = [req EXCEPT ![r].at = "over", ![r].answer = "refused"]
    /\ UNCHANGED <<limitVars, searchVars, made, noted, rows, events, writer, written>>

SearchBatch(r) ==
    /\ LoopIsFree /\ At(r, "reading") /\ Batch
    /\ req' = IF search'.at = "read" THEN [req EXCEPT ![r].at = "handler"] ELSE req
    /\ UNCHANGED <<limitVars, settingsVars, made, noted, rows, events, writer, written>>

----------------------------------------------------------------------------
\* Around the API.

\* A turn of the same process, a purge.
Turn == LoopIsFree /\ LockIsFree /\ (\E o \in Owners, hit \in BOOLEAN : Log(o, hit))
                   /\ UNCHANGED <<limitVars, settingsVars, pipeVars>>
Purge == LoopIsFree /\ LockIsFree /\ (\E o \in Owners : PurgeRows(o))
                    /\ UNCHANGED <<limitVars, settingsVars, pipeVars>>

\* ./start.sh --set, and its end at any point.
Script ==
    /\ \/ \E name \in Names : Begin("script", name)
       \/ Refuse("script") \/ Unfinished("script") \/ WriteFile("script")
       \/ Saving("script") /\ CutShort("script")
    /\ UNCHANGED <<limitVars, searchVars, pipeVars>>

\* The application ends and is started again: every request under way is lost, with what it
\* had not committed, and the limiter forgets.
Restart ==
    /\ Forget /\ CutShort("api")
    /\ DropSearch
    /\ req' = [r \in Requests |->
                 IF Open(r) THEN [req[r] EXCEPT !.at = "over", !.answer = "cut"] ELSE req[r]]
    /\ made' = [r \in Requests |-> {}] /\ noted' = [r \in Requests |-> {}]
    /\ writer' = Free
    /\ UNCHANGED <<rows, events, written>>

Clock == LoopIsFree /\ TimePasses /\ UNCHANGED <<settingsVars, searchVars, pipeVars>>

Next ==
    \/ \E a \in Addresses : Guess(a) \/ \E r \in Requests : TurnAway(r, a)
         \/ ArriveChange(r, a) \/ ArriveConfig(r, a) \/ ArriveSearch(r, a)
    \/ \E r \in Requests :
         \/ \E call \in Steps \cup Kinds : Change(r, call) \/ Record(r, call)
         \/ Commit(r) \/ Answer(r) \/ Refused(r) \/ Failed(r) \/ TimeLimit(r)
         \/ (\E name \in Names : SaveBegins(r, name)) \/ SaveGoesOn(r) \/ SaveEnds(r)
         \/ SaveRefused(r) \/ SearchBatch(r)
    \/ Turn \/ Purge \/ Script \/ Restart \/ Clock

Spec == Init /\ [][Next]_vars

----------------------------------------------------------------------------
\* The API carries out each request at once or not at all, the change with its record, and
\* the answer tells which (#59, #109): after a success everything is done and on record, the
\* log is never read without the record of it, a setting is on record only once the file has
\* been written, and after a refusal or a failure nothing is in the database. Only a request
\* out of time, or whose process is gone, may have been carried out or not.
Atomic == INSTANCE AtomicRequests WITH
            Changes <- Steps, Others <- {"config", "search"},
            asked   <- [r \in Requests |-> req[r].todo],
            answer  <- [r \in Requests |-> req[r].answer]

RequestsAreAtomic == Atomic!Spec
=============================================================================
