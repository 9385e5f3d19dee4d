--------------------------- MODULE AtomicRequests ---------------------------
(***************************************************************************)
(* What a caller of the Admin API may rely on: a request is carried out at *)
(* once, whole and with its record in the admin events, or not at all, and *)
(* its answer tells which. Only "late" and "cut" leave it open.            *)
(***************************************************************************)
CONSTANTS
    Requests,
    Changes,    \* calls that change rows of the database
    Others      \* what is only recorded: a search, a setting in its file

VARIABLES
    asked,      \* what each request asks for, once it is accepted
    rows,       \* the changes in the database, as <<request, call>>
    events,     \* the admin events
    written,    \* the requests that have written the settings file
    answer

vars == <<asked, rows, events, written, answer>>

Init ==
    /\ asked = [r \in Requests |-> {}]
    /\ rows = {} /\ events = {} /\ written = {}
    /\ answer = [r \in Requests |-> "none"]

CarriedOut(r) == \E call \in Changes \cup Others : <<r, call>> \in events

Accept(r) ==
    /\ answer[r] = "none" /\ asked[r] = {}
    /\ \E calls \in (SUBSET Changes) \cup {{other} : other \in Others} :
          asked' = [asked EXCEPT ![r] = calls]
    /\ UNCHANGED <<rows, events, written, answer>>

\* The settings file is written before the record of it, and cannot be taken back.
Write(r) ==
    /\ answer[r] = "none" /\ asked[r] = {"config"}
    /\ written' = written \cup {r}
    /\ UNCHANGED <<asked, rows, events, answer>>

CarryOut(r) ==
    /\ answer[r] = "none" /\ asked[r] # {} /\ ~CarriedOut(r)
    /\ asked[r] = {"config"} => r \in written
    /\ rows' = rows \cup ({r} \X (asked[r] \cap Changes))
    /\ events' = events \cup ({r} \X asked[r])
    /\ UNCHANGED <<asked, written, answer>>

Reply(r, reply) ==
    /\ answer[r] = "none"
    /\ reply = "ok" => CarriedOut(r)
    /\ reply = "failed" => ~CarriedOut(r)
    /\ reply = "refused" => ~CarriedOut(r) /\ r \notin written
    /\ answer' = [answer EXCEPT ![r] = reply]
    /\ UNCHANGED <<asked, rows, events, written>>

\* The process ends, with the requests it was handling.
Cut(some) ==
    /\ \A r \in some : answer[r] = "none"
    /\ answer' = [r \in Requests |-> IF r \in some THEN "cut" ELSE answer[r]]
    /\ UNCHANGED <<asked, rows, events, written>>

Next ==
    \/ \E r \in Requests :
         \/ Accept(r) \/ Write(r) \/ CarryOut(r)
         \/ \E reply \in {"ok", "refused", "failed", "late"} : Reply(r, reply)
    \/ \E some \in SUBSET Requests : Cut(some)

Spec == Init /\ [][Next]_vars
=============================================================================
