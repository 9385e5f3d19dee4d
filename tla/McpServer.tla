----------------------------- MODULE McpServer ------------------------------
(***************************************************************************)
(* The manager of MCP servers (app/mcp/manager.py), for the name of one    *)
(* server: the ManagedServer objects that have stood for it, one per       *)
(* configuration met, each with its session, its lock and its backoff, and *)
(* the turns that use one. Everything runs on one event loop: a step is    *)
(* what happens between two awaits.                                        *)
(***************************************************************************)
EXTENDS Naturals, FiniteSets

CONSTANTS
    Turns,        \* the turns that run at once
    Configs,      \* configurations an administrator declares
    NoConfig,     \* the server is removed or disabled
    AtStart,      \* what is declared when the process starts
    Concurrency,  \* concurrency_limit
    MaxObjects, MaxConnections, MaxEvents

None == 0
NoTurn == "none"

ASSUME McpAssumption ==
    /\ NoTurn \notin Turns
    /\ NoConfig \notin Configs /\ AtStart \in Configs \cup {NoConfig}
    /\ Concurrency \in Nat \ {0} /\ MaxObjects \in Nat
    /\ MaxConnections \in Nat /\ MaxEvents \in Nat

Objects == 1..MaxObjects
Connections == 1..MaxConnections

VARIABLES
    declared,    \* the row of the server
    server,      \* the object in Manager._servers
    made,        \* the configuration of each object, in the order they were made
    session,     \* of each object: its connection
    lock,        \* of each object: the turn that holds it
    backingOff,  \* of each object: a connection failed a moment ago
    rested,      \* of each object: its session was last asked for IDLE_TIMEOUT_SECONDS ago
    dropped,     \* objects with a disconnect() scheduled
    owner,       \* of each connection ever opened: the object
    open,        \* connections that nobody has closed
    up,          \* open connections whose other end lives
    caller,      \* of each turn: where it is in list_tools or call_tool
    events,      \* what administrators, servers and clocks have done
    late         \* history: connections opened for an object that was already dropped

objectVars == <<server, made, session, lock, backingOff, rested, dropped>>
connectionVars == <<owner, open, up, late>>
mcpVars == <<declared, objectVars, connectionVars, caller, events>>

Places == {"out", "lock", "closing", "connecting", "permit", "calling"}
Caller == [at : Places, obj : Objects \cup {None}, conn : Connections \cup {None},
           use : {"list", "call"}, got : {"ok", "error", "cut"}]
Outside(got) == [at |-> "out", obj |-> None, conn |-> None, use |-> "list", got |-> got]
Known(n) == [1..n -> Configs]

McpTypeOK ==
    /\ declared \in Configs \cup {NoConfig}
    /\ server \in Objects \cup {None}
    /\ \E n \in 0..MaxObjects : made \in Known(n)
    /\ session \in [Objects -> Connections \cup {None}]
    /\ lock \in [Objects -> Turns \cup {NoTurn}]
    /\ backingOff \subseteq Objects /\ rested \subseteq Objects /\ dropped \subseteq Objects
    /\ \E n \in 0..MaxConnections : owner \in [1..n -> Objects]
    /\ open \subseteq DOMAIN owner /\ up \subseteq DOMAIN owner /\ late \subseteq DOMAIN owner
    /\ caller \in [Turns -> Caller]
    /\ events \in 0..MaxEvents

McpInit ==
    /\ declared = AtStart /\ server = None /\ made = <<>>
    /\ session = [i \in Objects |-> None]
    /\ lock = [i \in Objects |-> NoTurn]
    /\ backingOff = {} /\ rested = {} /\ dropped = {}
    /\ owner = <<>> /\ open = {} /\ up = {} /\ late = {}
    /\ caller = [t \in Turns |-> Outside("ok")]
    /\ events = 0

-----------------------------------------------------------------------------
(* The world (external) *)

Event == events < MaxEvents /\ events' = events + 1

\* create_server, configure_server, delete_server, or a switch of enabled.
Declare ==
    /\ Event
    /\ \E c \in (Configs \cup {NoConfig}) \ {declared} : declared' = c
    /\ UNCHANGED <<objectVars, connectionVars, caller>>

PeerDies ==
    /\ Event
    /\ \E c \in up : up' = up \ {c}
    /\ UNCHANGED <<declared, objectVars, owner, open, late, caller>>

TimePasses ==
    /\ Event
    /\ \/ \E i \in backingOff : backingOff' = backingOff \ {i} /\ UNCHANGED rested
       \/ \E i \in Objects \ rested : session[i] # None /\ rested' = rested \cup {i} /\ UNCHANGED backingOff
    /\ UNCHANGED <<declared, server, made, session, lock, dropped, connectionVars, caller>>

World == Declare \/ PeerDies \/ TimePasses

-----------------------------------------------------------------------------
(* The manager *)

Replace(config) ==
    LET n == Cardinality(DOMAIN made) + 1 IN
        IF config = NoConfig
        THEN server' = None /\ made' = made
        ELSE server' = n /\ n \in Objects /\ made' = [i \in 1..n |-> IF i = n THEN config ELSE made[i]]

Unchanged(config) ==
    IF server = None THEN config = NoConfig ELSE made[server] = config

\* Manager.configure: a changed server is popped, and its disconnection scheduled.
Configure(config) ==
    /\ \/ Unchanged(config) /\ UNCHANGED <<server, made, dropped>>
       \/ /\ ~Unchanged(config) /\ Replace(config)
          /\ dropped' = dropped \cup ({server} \ {None})
    /\ UNCHANGED <<session, lock, backingOff, rested>>

\* disconnect()
Closes(i) ==
    /\ session' = [session EXCEPT ![i] = None]
    /\ open' = open \ {session[i]} /\ up' = up \ {session[i]}
    /\ UNCHANGED <<owner, late>>

\* The disconnect() that configure has scheduled, which takes no lock.
Disconnect(i) ==
    /\ i \in dropped /\ dropped' = dropped \ {i}
    /\ Closes(i) /\ rested' = rested \ {i}
    /\ UNCHANGED <<declared, server, made, lock, backingOff, caller, events>>

-----------------------------------------------------------------------------
(* One use of a server by turn t: _get_session, then the request *)

Me(t) == caller[t].obj
InPlace(t, place) == caller[t].at = place
To(t, place) == caller' = [caller EXCEPT ![t].at = place]
Leave(t, got) == caller' = [caller EXCEPT ![t] = Outside(got)]
Use(t, i, use) ==
    caller' = [caller EXCEPT ![t] = [at |-> "lock", obj |-> i, conn |-> None, use |-> use, got |-> "ok"]]
\* list_tools has no semaphore.
Proceed(t, c) ==
    caller' = [caller EXCEPT ![t] = [@ EXCEPT !.conn = c,
                  !.at = IF caller[t].use = "list" THEN "calling" ELSE "permit"]]

Fixed == UNCHANGED <<declared, server, made, dropped, events>>

BugFree(t) == InPlace(t, "lock")
Free(t) == InPlace(t, "lock") /\ lock[Me(t)] = NoTurn

Reuse(t) ==
    /\ Free(t) /\ session[Me(t)] # None /\ Me(t) \notin rested
    /\ Proceed(t, session[Me(t)])
    /\ UNCHANGED <<session, lock, backingOff, rested, connectionVars>> /\ Fixed

\* A session unused for too long is closed first.
CloseRested(t) ==
    /\ Free(t) /\ session[Me(t)] # None /\ Me(t) \in rested
    /\ Closes(Me(t)) /\ rested' = rested \ {Me(t)}
    /\ lock' = [lock EXCEPT ![Me(t)] = t] /\ To(t, "closing")
    /\ UNCHANGED backingOff /\ Fixed

\* Without a session: refused while backing off, else a connection is attempted under the lock.
Dial(t) ==
    /\ \/ Free(t) /\ session[Me(t)] = None
       \/ InPlace(t, "closing")
    /\ IF Me(t) \in backingOff
       THEN Leave(t, "error") /\ lock' = [lock EXCEPT ![Me(t)] = NoTurn]
       ELSE To(t, "connecting") /\ lock' = [lock EXCEPT ![Me(t)] = t]
    /\ UNCHANGED <<session, backingOff, rested, connectionVars>> /\ Fixed

Connected(t) ==
    LET c == Cardinality(DOMAIN owner) + 1 IN
        /\ InPlace(t, "connecting") /\ c \in Connections
        /\ owner' = [d \in 1..c |-> IF d = c THEN Me(t) ELSE owner[d]]
        /\ open' = open \cup {c} /\ up' = up \cup {c}
        /\ late' = IF Me(t) # server /\ Me(t) \notin dropped THEN late \cup {c} ELSE late
        /\ session' = [session EXCEPT ![Me(t)] = c]
        /\ lock' = [lock EXCEPT ![Me(t)] = NoTurn]
        /\ rested' = rested \ {Me(t)} /\ Proceed(t, c)
        /\ UNCHANGED backingOff /\ Fixed

BugConnectFails(t) ==
    /\ InPlace(t, "connecting") /\ Leave(t, "error")
    /\ backingOff' = backingOff \cup {Me(t)}
    /\ UNCHANGED <<session, lock, rested, connectionVars>> /\ Fixed

\* Refused, too slow, or cut off by the tool loop's own timeout, which is taken for a failure.
ConnectFails(t) ==
    /\ InPlace(t, "connecting") /\ Leave(t, "error")
    /\ backingOff' = backingOff \cup {Me(t)}
    /\ lock' = [lock EXCEPT ![Me(t)] = NoTurn]
    /\ UNCHANGED <<session, rested, connectionVars>> /\ Fixed

Running(i) == {u \in Turns : InPlace(u, "calling") /\ caller[u].use = "call" /\ Me(u) = i}

Permit(t) ==
    /\ InPlace(t, "permit") /\ Cardinality(Running(Me(t))) < Concurrency
    /\ To(t, "calling")
    /\ UNCHANGED <<session, lock, backingOff, rested, connectionVars>> /\ Fixed

\* The request is answered, fails or exceeds timeout_seconds; the session stays what it is.
Answered(t) ==
    /\ InPlace(t, "calling")
    /\ \/ caller[t].conn \in up /\ Leave(t, "ok")
       \/ Leave(t, "error")
    /\ UNCHANGED <<session, lock, backingOff, rested, connectionVars>> /\ Fixed

\* asyncio.wait_for of the tool loop cancels what does not swallow a cancellation.
CutOff(t) ==
    /\ caller[t].use = "call" /\ caller[t].at \in {"lock", "permit", "calling"}
    /\ Leave(t, "cut")
    /\ UNCHANGED <<session, lock, backingOff, rested, connectionVars>> /\ Fixed

Step(t) ==
    Reuse(t) \/ CloseRested(t) \/ Dial(t) \/ Connected(t) \/ ConnectFails(t) \/ Permit(t) \/ Answered(t) \/ CutOff(t)

-----------------------------------------------------------------------------
(* Properties *)

\* Nothing is left open that nobody will close (the lock of _get_session, Manager.configure): a
\* connection that is open is the session of its object, so an object never has two; and a
\* server whose configuration changed keeps none, but for one that a turn opens after the
\* object was disconnected, which is nobody's.
NothingLeftOpen ==
    \A c \in open :
        /\ session[owner[c]] = c
        /\ owner[c] = server \/ owner[c] \in dropped \/ c \in late
=============================================================================
