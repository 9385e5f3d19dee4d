----------------------------- MODULE ToolCalls ------------------------------
(***************************************************************************)
(* The turns of agents that have tools (run_turn and call_llm of           *)
(* app/graph.py, app/tools.py, app/mcp/catalogue.py) over the manager of   *)
(* McpServer: read the declared servers, register them, find out whether   *)
(* the engine supports tools, list them, and run the calls it asks for.    *)
(* An agent without tools touches nothing of this. One server is declared. *)
(***************************************************************************)
EXTENDS McpServer, Sequences

CONSTANTS
    Keys,        \* (name, arguments) of a call
    MaxRounds,   \* MAX_TOOL_ROUNDS
    MaxCalls     \* calls in one answer of the engine

ASSUME ToolAssumption == MaxRounds \in Nat \ {0} /\ MaxCalls \in Nat \ {0}

VARIABLES
    checked,     \* _checked of app/tools.py
    supported,   \* _supported
    turn,        \* of each turn: where it is and what it holds
    rows,        \* table McpCall: the calls it has a row of
    runs,        \* history: how often each call of a turn was executed
    lost         \* history: calls cut off by the loop's timeout, or whose row failed to commit

turnVars == <<checked, supported, turn, rows, runs, lost>>
vars == <<mcpVars, turnVars>>

Requests == UNION {[1..n -> Keys] : n \in 1..MaxCalls}
Stages == {"idle", "register", "probe", "probing", "catalogue", "listing", "plain",
           "ask", "calls", "using", "record", "replied", "failed"}
Ended == {"replied", "failed"}
Turn == [at : Stages, read : Configs \cup {NoConfig}, round : 0..MaxRounds,
         todo : Requests \cup {<<>>}, seen : SUBSET Keys]

TypeOK ==
    /\ McpTypeOK
    /\ checked \in BOOLEAN /\ supported \in BOOLEAN
    /\ turn \in [Turns -> Turn]
    /\ rows \subseteq Turns \X Keys /\ lost \subseteq Turns \X Keys
    /\ runs \in [Turns -> [Keys -> Nat]]

Init ==
    /\ McpInit
    /\ checked = FALSE /\ supported = FALSE
    /\ turn = [t \in Turns |-> [at |-> "idle", read |-> NoConfig, round |-> 0,
                                todo |-> <<>>, seen |-> {}]]
    /\ rows = {} /\ lost = {}
    /\ runs = [t \in Turns |-> [k \in Keys |-> 0]]

At(t, stage) == turn[t].at = stage
Goes(t, stage) == turn' = [turn EXCEPT ![t].at = stage]
Kept == UNCHANGED <<rows, runs, lost>>
\* The turn takes what its use of the server came to.
Takes(t) ==
    /\ InPlace(t, "out") /\ caller' = [caller EXCEPT ![t] = Outside("ok")]
    /\ UNCHANGED <<declared, objectVars, connectionVars, events>>
ProbeKept == UNCHANGED <<checked, supported>>

-----------------------------------------------------------------------------
(* run_turn and call_llm, up to the tools of the turn *)

\* The rows of the servers are read ...
Begin(t) ==
    /\ At(t, "idle")
    /\ turn' = [turn EXCEPT ![t].at = "register", ![t].read = declared]
    /\ ProbeKept /\ Kept /\ UNCHANGED mcpVars

\* ... and given to the manager when the answer of the database is there.
Register(t) ==
    /\ At(t, "register") /\ Configure(turn[t].read)
    /\ turn' = [turn EXCEPT ![t].at = "probe", ![t].read = NoConfig]
    /\ ProbeKept /\ Kept /\ UNCHANGED <<declared, connectionVars, caller, events>>

\* tools_are_supported: the first turn asks the engine, the others read what is known so far.
Probe(t) ==
    /\ At(t, "probe")
    /\ IF checked THEN Goes(t, IF supported THEN "catalogue" ELSE "plain")
                  ELSE Goes(t, "probing")
    /\ checked' = TRUE
    /\ UNCHANGED supported /\ Kept /\ UNCHANGED mcpVars

Probed(t) ==
    /\ At(t, "probing") /\ supported' \in BOOLEAN
    /\ Goes(t, IF supported' THEN "catalogue" ELSE "plain")
    /\ UNCHANGED checked /\ Kept /\ UNCHANGED mcpVars

\* build_tools, over the servers known to the manager now.
Catalogue(t) ==
    /\ At(t, "catalogue")
    /\ IF server = None
       THEN Goes(t, "plain") /\ UNCHANGED mcpVars
       ELSE /\ Goes(t, "listing") /\ Use(t, server, "list")
            /\ UNCHANGED <<declared, objectVars, connectionVars, events>>
    /\ ProbeKept /\ Kept

\* A server that fails is left out; a tool is offered if it is allowed and not disabled.
Listed(t) ==
    /\ At(t, "listing") /\ Takes(t)
    /\ \/ caller[t].got = "ok" /\ Goes(t, "ask")
       \/ Goes(t, "plain")
    /\ ProbeKept /\ Kept

Plain(t) ==
    /\ At(t, "plain") /\ \E end \in Ended : Goes(t, end)
    /\ ProbeKept /\ Kept /\ UNCHANGED mcpVars

-----------------------------------------------------------------------------
(* run_tool_loop and the executor *)

BugAsk(t) ==
    /\ At(t, "ask")
    /\ \/ Goes(t, "failed")
       \/ turn[t].round <= MaxRounds /\ Goes(t, "replied")
       \/ turn[t].round <= MaxRounds /\ \E calls \in Requests :
            turn' = [turn EXCEPT ![t].at = "calls", ![t].todo = calls, ![t].round = @ + 1]
    /\ ProbeKept /\ Kept /\ UNCHANGED mcpVars

\* One request to the engine: it fails, answers, or asks for calls.
Ask(t) ==
    /\ At(t, "ask") /\ turn[t].round < MaxRounds
    /\ \/ \E end \in Ended : Goes(t, end)
       \/ \E calls \in Requests :
            turn' = [turn EXCEPT ![t].at = "calls", ![t].todo = calls, ![t].round = @ + 1]
    /\ ProbeKept /\ Kept /\ UNCHANGED mcpVars

\* TOOL_LIMIT_REACHED_MESSAGE
LimitReached(t) ==
    /\ At(t, "ask") /\ turn[t].round = MaxRounds /\ Goes(t, "replied")
    /\ ProbeKept /\ Kept /\ UNCHANGED mcpVars

Call(t) == Head(turn[t].todo)
\* The result joins the messages; after the last one of an answer the engine is asked again.
Settle(t) ==
    turn' = [turn EXCEPT ![t].at = IF Len(turn[t].todo) = 1 THEN "ask" ELSE "calls",
                         ![t].todo = Tail(@)]

Skip(t) ==
    /\ At(t, "calls") /\ Call(t) \in turn[t].seen /\ Settle(t)
    /\ ProbeKept /\ Kept /\ UNCHANGED mcpVars

\* The server is looked up now; without one, or with a name, arguments or a disabled tool that
\* make no call, the result is an error.
Dispatch(t, stage) ==
    \/ stage = "record" /\ UNCHANGED mcpVars
    \/ /\ stage = "using" /\ server # None /\ Use(t, server, "call")
       /\ UNCHANGED <<declared, objectVars, connectionVars, events>>

BugExecute(t) ==
    /\ At(t, "calls") /\ Call(t) \notin turn[t].seen
    /\ \E stage \in {"using", "record"} : Dispatch(t, stage) /\ Goes(t, stage)
    /\ runs' = [runs EXCEPT ![t][Call(t)] = @ + 1]
    /\ ProbeKept /\ UNCHANGED <<rows, lost>>

Execute(t) ==
    /\ At(t, "calls") /\ Call(t) \notin turn[t].seen
    /\ \E stage \in {"using", "record"} :
         /\ Dispatch(t, stage)
         /\ turn' = [turn EXCEPT ![t].at = stage, ![t].seen = @ \cup {Call(t)}]
    /\ runs' = [runs EXCEPT ![t][Call(t)] = @ + 1]
    /\ ProbeKept /\ UNCHANGED <<rows, lost>>

\* A call that is cut off leaves the executor as well: no row is written.
Returned(t) ==
    /\ At(t, "using") /\ Takes(t)
    /\ IF caller[t].got = "cut"
       THEN Settle(t) /\ lost' = lost \cup {<<t, Call(t)>>}
       ELSE Goes(t, "record") /\ UNCHANGED lost
    /\ ProbeKept /\ UNCHANGED <<rows, runs>>

\* The row of the call; the commit may fail, or be what the timeout cuts off.
Record(t) ==
    /\ At(t, "record") /\ Settle(t)
    /\ \/ rows' = rows \cup {<<t, Call(t)>>} /\ UNCHANGED lost
       \/ lost' = lost \cup {<<t, Call(t)>>} /\ UNCHANGED rows
    /\ ProbeKept /\ UNCHANGED runs /\ UNCHANGED mcpVars

TurnStep(t) ==
    \/ Begin(t) \/ Register(t) \/ Probe(t) \/ Probed(t) \/ Catalogue(t) \/ Listed(t) \/ Plain(t)
    \/ Ask(t) \/ LimitReached(t) \/ Skip(t) \/ Execute(t) \/ Returned(t) \/ Record(t)

Disconnects == \E i \in Objects : Disconnect(i) /\ UNCHANGED turnVars
Server(t) == Step(t) /\ UNCHANGED turnVars

Next ==
    \/ World /\ UNCHANGED turnVars
    \/ Disconnects
    \/ \E t \in Turns : TurnStep(t) \/ Server(t)

\* Every request has a timeout: httpx's for the engine, timeout_seconds and the tool loop's for
\* a server; a scheduled disconnection runs.
Fairness ==
    /\ WF_vars(Disconnects)
    /\ \A t \in Turns : WF_vars(~At(t, "idle") /\ (TurnStep(t) \/ Server(t)))

Spec == Init /\ [][Next]_vars /\ Fairness

-----------------------------------------------------------------------------
(* Properties *)

\* A call (name and arguments) is executed once in a turn, however it ends: skipped, failed, cut
\* off while the server may still be working on it (run_tool_loop's `seen`); and once it has
\* ended it has its row, unless it was cut off or its row could not be committed (make_executor,
\* whose docstring promises a row for every call).
CallsAreAccountedFor ==
    \A t \in Turns :
        /\ \A k \in Keys : runs[t][k] <= 1
        /\ \A k \in turn[t].seen :
             \/ <<t, k>> \in rows \cup lost
             \/ turn[t].at \in {"using", "record"} /\ k = Call(t)

\* A turn that has begun is answered or fails: no server, lock, backoff or permit, and no change
\* of the configuration, holds it for ever.
TurnsFinish == \A t \in Turns : ~At(t, "idle") ~> turn[t].at \in Ended
=============================================================================
