--------------------------- MODULE Process_proofs ---------------------------
(***************************************************************************)
(* Two parts of the one process that have no state in common: the turns of *)
(* agents with tools over the manager of MCP servers, for any number of    *)
(* turns, configurations, connections and calls, and the supervision of    *)
(* the parts, for every set of parts, all intervals and every length of    *)
(* time.                                                                   *)
(***************************************************************************)
EXTENDS ToolCalls, Supervision, FiniteSetTheorems, SequenceTheorems, TLAPS

-----------------------------------------------------------------------------
(* Tool calls. A connection is made under the lock of its object, while the    *)
(* object has none; so at most one is ever open for it.                        *)

LEMMA RequestParts ==
  ASSUME NEW r \in Requests
  PROVE  /\ r # <<>> /\ Head(r) \in Keys /\ Len(r) \in Nat
         /\ Tail(r) \in Requests \cup {<<>>}
         /\ Len(r) # 1 => Tail(r) # <<>>
<1>1. PICK n \in 1..MaxCalls : r \in [1..n -> Keys]
  BY DEF Requests
<1>2. n \in Nat /\ n >= 1 /\ MaxCalls \in Nat
  BY <1>1, ToolAssumption
<1>3. r \in Seq(Keys)
  BY <1>1, <1>2, SeqDef
<1>4. Len(r) = n
  BY <1>1, <1>2, <1>3, LenProperties
<1>5. r # <<>>
  BY <1>2, <1>4
<1>6. Head(r) \in Keys /\ Tail(r) \in Seq(Keys) /\ Len(Tail(r)) = n - 1
  BY <1>3, <1>4, <1>5, HeadTailProperties
<1>7. Tail(r) \in [1..(n - 1) -> Keys]
  BY <1>6, LenProperties
<1>8. Tail(r) = <<>> <=> n = 1
  <2>1. Tail(r) = <<>> => Len(Tail(r)) = 0
    BY EmptySeq
  <2>2. Tail(r) # <<>> => Len(Tail(r)) \in Nat \ {0}
    BY <1>6, EmptySeq
  <2> QED BY <1>2, <1>6, <2>1, <2>2
<1>9. ASSUME n # 1 PROVE Tail(r) \in Requests
  <2>1. n - 1 \in 1..MaxCalls
    BY <1>2, <1>9
  <2>2. \E m \in 1..MaxCalls : Tail(r) \in [1..m -> Keys]
    BY <1>7, <2>1, Zenon
  <2> QED BY <2>2 DEF Requests
<1> QED BY <1>2, <1>4, <1>5, <1>6, <1>8, <1>9

\* A turn that has calls to settle.
HasCall == \A t \in Turns : turn[t].at \in {"calls", "using", "record"} => turn[t].todo # <<>>

\* Whoever is inside the manager is there for an object.
HasObject == \A t \in Turns : caller[t].at # "out" => Me(t) \in Objects

ToolTypes == TypeOK /\ HasCall /\ HasObject

LEMMA ToolTypesInit == Init => ToolTypes
<1> SUFFICES ASSUME Init PROVE ToolTypes
  OBVIOUS
<1>a. NoConfig \notin Configs /\ AtStart \in Configs \cup {NoConfig} /\ MaxObjects \in Nat
      /\ MaxConnections \in Nat /\ MaxEvents \in Nat /\ MaxRounds \in Nat
  BY McpAssumption, ToolAssumption
<1>1. made = [i \in 1..0 |-> NoConfig] /\ owner = [i \in 1..0 |-> None] /\ DOMAIN owner = {}
  BY DEF Init, McpInit
<1>2. made \in Known(0) /\ owner \in [1..0 -> Objects]
  BY <1>1 DEF Known
<1>3. Outside("ok") \in Caller /\ Outside("ok").at = "out"
  BY DEF Outside, Caller, Places
<1>4. McpTypeOK
  <2>1. \E n \in 0..MaxObjects : made \in Known(n)
    BY <1>a, <1>2
  <2>2. \E n \in 0..MaxConnections : owner \in [1..n -> Objects]
    BY <1>a, <1>2
  <2>3. 0 \in 0..MaxEvents
    BY <1>a
  <2> QED BY <1>a, <1>3, <2>1, <2>2, <2>3 DEF Init, McpInit, McpTypeOK
<1>5. [at |-> "idle", read |-> NoConfig, round |-> 0, todo |-> <<>>, seen |-> {}] \in Turn
  <2>1. NoConfig \in Configs \cup {NoConfig} /\ 0 \in 0..MaxRounds /\ <<>> \in Requests \cup {<<>>}
        /\ {} \in SUBSET Keys /\ "idle" \in Stages
    BY <1>a DEF Stages
  <2> QED BY <2>1 DEF Turn
<1>6. TypeOK
  BY <1>4, <1>5 DEF Init, TypeOK
<1>7. HasCall /\ HasObject
  BY <1>3 DEF Init, McpInit, HasCall, HasObject
<1> QED BY <1>6, <1>7 DEF ToolTypes

LEMMA Objects0 == None \notin Objects /\ None \notin Connections /\ Objects \subseteq Nat /\ Connections \subseteq Nat
BY McpAssumption DEF None, Objects, Connections

\* Where a turn is in the manager after each of its moves.
LEMMA Leaves ==
  ASSUME caller \in [Turns -> Caller], NEW t \in Turns, NEW got \in {"ok", "error", "cut"}, Leave(t, got)
  PROVE  /\ caller' \in [Turns -> Caller] /\ caller'[t].at = "out"
         /\ \A u \in Turns : u # t => caller'[u] = caller[u]
<1>1. Outside(got) \in Caller /\ Outside(got).at = "out"
  BY DEF Outside, Caller, Places
<1> QED BY <1>1 DEF Leave

LEMMA Moves ==
  ASSUME caller \in [Turns -> Caller], NEW t \in Turns, NEW place \in Places, To(t, place)
  PROVE  /\ caller' \in [Turns -> Caller] /\ caller'[t].at = place /\ caller'[t].obj = caller[t].obj
         /\ \A u \in Turns : u # t => caller'[u] = caller[u]
<1>1. [caller[t] EXCEPT !.at = place] \in Caller
  BY DEF Caller
<1>2. caller' = [caller EXCEPT ![t] = [caller[t] EXCEPT !.at = place]]
  BY DEF To
<1>3. caller[t] \in Caller
  OBVIOUS
<1>4. caller' \in [Turns -> Caller] /\ caller'[t] = [caller[t] EXCEPT !.at = place]
      /\ \A u \in Turns : u # t => caller'[u] = caller[u]
  BY <1>1, <1>2
<1> QED BY <1>3, <1>4 DEF Caller

LEMMA Proceeds ==
  ASSUME caller \in [Turns -> Caller], NEW t \in Turns, NEW c \in Connections, Proceed(t, c)
  PROVE  /\ caller' \in [Turns -> Caller] /\ caller'[t].at \in {"calling", "permit"}
         /\ caller'[t].obj = caller[t].obj
         /\ \A u \in Turns : u # t => caller'[u] = caller[u]
<1> DEFINE p == IF caller[t].use = "list" THEN "calling" ELSE "permit"
           e == [caller[t] EXCEPT !.conn = c, !.at = p]
<1>1. caller[t] \in Caller /\ p \in Places /\ p \in {"calling", "permit"}
  BY DEF Places
<1>2. caller' = [caller EXCEPT ![t] = e]
  BY DEF Proceed
<1> HIDE DEF p
<1>3. e \in Caller /\ e.at = p /\ e.obj = caller[t].obj
  BY <1>1 DEF Caller
<1> HIDE DEF e
<1>4. caller' \in [Turns -> Caller] /\ caller'[t] = e /\ \A u \in Turns : u # t => caller'[u] = caller[u]
  BY <1>2, <1>3
<1> QED BY <1>1, <1>3, <1>4

LEMMA Uses ==
  ASSUME caller \in [Turns -> Caller], NEW t \in Turns, NEW i \in Objects, NEW use \in {"list", "call"},
         Use(t, i, use)
  PROVE  /\ caller' \in [Turns -> Caller] /\ caller'[t].at = "lock" /\ caller'[t].obj = i
         /\ \A u \in Turns : u # t => caller'[u] = caller[u]
<1> DEFINE e == [at |-> "lock", obj |-> i, conn |-> None, use |-> use, got |-> "ok"]
<1>1. e \in Caller /\ e.at = "lock" /\ e.obj = i
  BY DEF Caller, Places
<1>2. caller' = [caller EXCEPT ![t] = e]
  BY DEF Use
<1> HIDE DEF e
<1> QED BY <1>1, <1>2

\* The number given next.
LEMMA NextNumber ==
  ASSUME NEW S, NEW n \in Nat, NEW f \in [1..n -> S]
  PROVE  Cardinality(DOMAIN f) + 1 = n + 1
BY FS_Interval

LEMMA WorldTypes ==
  ASSUME McpTypeOK, HasObject, World
  PROVE  McpTypeOK' /\ HasObject' /\ UNCHANGED caller
<1> USE DEF objectVars, connectionVars
<1>1. MaxEvents \in Nat
  BY McpAssumption
<1>2. Event => events' \in 0..MaxEvents
  BY <1>1 DEF Event, McpTypeOK
<1>3. CASE Declare
  BY <1>2, <1>3 DEF Declare, McpTypeOK, HasObject, Me, Known
<1>4. CASE PeerDies
  BY <1>2, <1>4 DEF PeerDies, McpTypeOK, HasObject, Me, Known
<1>5. CASE TimePasses
  BY <1>2, <1>5 DEF TimePasses, McpTypeOK, HasObject, Me, Known
<1> QED BY <1>3, <1>4, <1>5 DEF World

LEMMA ConfigureTypes ==
  ASSUME McpTypeOK, NEW config \in Configs \cup {NoConfig}, Configure(config)
  PROVE  /\ server' \in Objects \cup {None}
         /\ \E n \in 0..MaxObjects : made' \in Known(n)
         /\ dropped' \subseteq Objects
         /\ UNCHANGED <<session, lock, backingOff, rested>>
<1>1. UNCHANGED <<session, lock, backingOff, rested>>
  BY DEF Configure
<1>2. CASE UNCHANGED <<server, made, dropped>>
  BY <1>1, <1>2 DEF McpTypeOK, Known
<1>3. CASE Replace(config) /\ dropped' = dropped \cup ({server} \ {None})
  <2>1. dropped' \subseteq Objects
    BY <1>3 DEF McpTypeOK
  <2>2. PICK n \in 0..MaxObjects : made \in [1..n -> Configs]
    BY DEF McpTypeOK, Known
  <2>3. MaxObjects \in Nat /\ n \in Nat
    BY <2>2, McpAssumption
  <2>4. Cardinality(DOMAIN made) + 1 = n + 1
    BY <2>2, <2>3, NextNumber
  <2>5. CASE config = NoConfig
    BY <1>1, <1>3, <2>1, <2>2, <2>5 DEF Replace, Known
  <2>6. CASE config # NoConfig
    <3>1. server' = n + 1 /\ n + 1 \in Objects
          /\ made' = [i \in 1..(n + 1) |-> IF i = n + 1 THEN config ELSE made[i]]
      BY <1>3, <2>4, <2>6 DEF Replace
    <3>2. PICK k \in 0..MaxObjects : k = n + 1
      BY <2>3, <3>1 DEF Objects
    <3>3. \A i \in 1..k : i = n + 1 \/ i \in 1..n
      BY <2>3, <3>2
    <3>4. made' \in [1..k -> Configs]
      BY <2>2, <2>6, <3>1, <3>2, <3>3
    <3> QED BY <1>1, <2>1, <3>1, <3>2, <3>4 DEF Known
  <2> QED BY <2>5, <2>6
<1> QED BY <1>2, <1>3 DEF Configure

\* What the objects and the connections are, apart from the turns.
Things ==
    /\ declared \in Configs \cup {NoConfig}
    /\ server \in Objects \cup {None}
    /\ \E n \in 0..MaxObjects : made \in Known(n)
    /\ session \in [Objects -> Connections \cup {None}]
    /\ lock \in [Objects -> Turns \cup {NoTurn}]
    /\ backingOff \subseteq Objects /\ rested \subseteq Objects /\ dropped \subseteq Objects
    /\ \E n \in 0..MaxConnections : owner \in [1..n -> Objects]
    /\ open \subseteq DOMAIN owner /\ up \subseteq DOMAIN owner /\ late \subseteq DOMAIN owner
    /\ events \in 0..MaxEvents

LEMMA ThingsAndTurns == McpTypeOK <=> Things /\ caller \in [Turns -> Caller]
BY DEF McpTypeOK, Things

\* A new connection has the next number.
LEMMA NewConnection ==
  ASSUME McpTypeOK, NEW t \in Turns, Me(t) \in Objects, Connected(t)
  PROVE  \E c \in Connections :
           /\ c \notin DOMAIN owner /\ DOMAIN owner' = DOMAIN owner \cup {c}
           /\ owner'[c] = Me(t) /\ \A d \in DOMAIN owner : owner'[d] = owner[d]
           /\ \E n \in 0..MaxConnections : owner' \in [1..n -> Objects]
           /\ open' = open \cup {c} /\ up' = up \cup {c}
           /\ late' = IF Me(t) # server /\ Me(t) \notin dropped THEN late \cup {c} ELSE late
           /\ session' = [session EXCEPT ![Me(t)] = c]
           /\ Proceed(t, c)
<1>1. PICK n \in 0..MaxConnections : owner \in [1..n -> Objects]
  BY DEF McpTypeOK
<1>2. MaxConnections \in Nat /\ n \in Nat
  BY <1>1, McpAssumption
<1>3. Cardinality(DOMAIN owner) + 1 = n + 1
  BY <1>1, <1>2, NextNumber
<1>4. PICK c : c = Cardinality(DOMAIN owner) + 1
  OBVIOUS
<1>5. /\ c \in Connections /\ c = n + 1
      /\ owner' = [d \in 1..c |-> IF d = c THEN Me(t) ELSE owner[d]]
      /\ open' = open \cup {c} /\ up' = up \cup {c}
      /\ late' = IF Me(t) # server /\ Me(t) \notin dropped THEN late \cup {c} ELSE late
      /\ session' = [session EXCEPT ![Me(t)] = c]
      /\ Proceed(t, c)
  BY <1>3, <1>4 DEF Connected
<1>6. c \in 0..MaxConnections /\ c \notin 1..n /\ 1..c = 1..n \cup {c}
  BY <1>2, <1>5 DEF Connections
<1>7. DOMAIN owner = 1..n /\ DOMAIN owner' = 1..c
  BY <1>1, <1>5
<1>8. owner'[c] = Me(t) /\ \A d \in 1..n : owner'[d] = owner[d]
  BY <1>2, <1>5, <1>6
<1>9. owner' \in [1..c -> Objects]
  BY <1>1, <1>5, <1>6
<1> QED BY <1>5, <1>6, <1>7, <1>8, <1>9

LEMMA StepTypes ==
  ASSUME McpTypeOK, HasObject, NEW t \in Turns, Step(t)
  PROVE  McpTypeOK' /\ HasObject'
<1> USE DEF connectionVars, Fixed
<1>o. caller \in [Turns -> Caller] /\ Things /\ \A u \in Turns : caller[u].at # "out" => caller[u].obj \in Objects
  BY ThingsAndTurns DEF HasObject, Me
<1>m. InPlace(t, "lock") \/ InPlace(t, "closing") \/ InPlace(t, "connecting") => Me(t) \in Objects
  BY <1>o DEF InPlace, Me
<1>h. ASSUME caller' \in [Turns -> Caller], \A u \in Turns : u # t => caller'[u] = caller[u],
             caller'[t].at = "out" \/ (caller'[t].obj = caller[t].obj /\ caller[t].at # "out")
      PROVE  HasObject'
  BY <1>h, <1>o DEF HasObject, Me
<1>t. ASSUME Things', caller' \in [Turns -> Caller] PROVE McpTypeOK'
  BY <1>t, ThingsAndTurns DEF McpTypeOK, Things
<1>0. ASSUME UNCHANGED <<server, made, session, lock, backingOff, rested, dropped, declared, events,
                         owner, open, up, late>>
      PROVE  Things'
  BY <1>0, <1>o DEF Things, Known
<1>1. CASE Reuse(t)
  <2>1. Proceed(t, session[Me(t)]) /\ session[Me(t)] \in Connections /\ caller[t].at = "lock"
    BY <1>1, <1>m, <1>o DEF Reuse, Free, InPlace, Things
  <2>2. Things'
    BY <1>0, <1>1 DEF Reuse
  <2>3. caller' \in [Turns -> Caller] /\ HasObject'
    BY <1>h, <1>o, <2>1, Proceeds
  <2> QED BY <1>t, <2>2, <2>3
<1>2. CASE CloseRested(t)
  <2>1. To(t, "closing") /\ caller[t].at = "lock" /\ Me(t) \in Objects
    BY <1>2, <1>m DEF CloseRested, Free, InPlace
  <2>2. Things'
    BY <1>2, <1>o, <2>1 DEF CloseRested, Closes, Things, Known
  <2>3. caller' \in [Turns -> Caller] /\ HasObject'
    BY <1>h, <1>o, <2>1, Moves DEF Places
  <2> QED BY <1>t, <2>2, <2>3
<1>3. CASE Dial(t)
  <2>1. /\ caller[t].at # "out" /\ Me(t) \in Objects /\ (Leave(t, "error") \/ To(t, "connecting"))
        /\ UNCHANGED <<session, backingOff, rested, connectionVars>> /\ Fixed
    BY <1>3, <1>m DEF Dial, Free, InPlace
  <2>2. lock' \in [Objects -> Turns \cup {NoTurn}]
    BY <1>3, <1>o DEF Dial, Things
  <2>3. Things'
    BY <1>o, <2>1, <2>2 DEF Things, Known
  <2>4. caller' \in [Turns -> Caller] /\ HasObject'
    BY <1>h, <1>o, <2>1, Moves, Leaves DEF Places
  <2> QED BY <1>t, <2>3, <2>4
<1>4. CASE Connected(t)
  <2>1. caller[t].at = "connecting" /\ Me(t) \in Objects
    BY <1>4, <1>m DEF Connected, InPlace
  <2>2. PICK c \in Connections :
           /\ DOMAIN owner' = DOMAIN owner \cup {c}
           /\ \E n \in 0..MaxConnections : owner' \in [1..n -> Objects]
           /\ open' = open \cup {c} /\ up' = up \cup {c}
           /\ late' = IF Me(t) # server /\ Me(t) \notin dropped THEN late \cup {c} ELSE late
           /\ session' = [session EXCEPT ![Me(t)] = c]
           /\ Proceed(t, c)
    BY <1>4, <2>1, NewConnection
  <2>3. /\ lock' = [lock EXCEPT ![Me(t)] = NoTurn] /\ rested' = rested \ {Me(t)}
        /\ UNCHANGED backingOff /\ Fixed
    BY <1>4 DEF Connected
  <2>4. open' \subseteq DOMAIN owner' /\ up' \subseteq DOMAIN owner' /\ late' \subseteq DOMAIN owner'
    BY <1>o, <2>2 DEF Things
  <2>5. session' \in [Objects -> Connections \cup {None}] /\ lock' \in [Objects -> Turns \cup {NoTurn}]
    BY <1>o, <2>2, <2>3 DEF Things
  <2>6. Things'
    BY <1>o, <2>2, <2>3, <2>4, <2>5 DEF Things, Known
  <2>7. caller' \in [Turns -> Caller] /\ HasObject'
    BY <1>h, <1>o, <2>1, <2>2, Proceeds
  <2> QED BY <1>t, <2>6, <2>7
<1>5. CASE ConnectFails(t)
  <2>1. Leave(t, "error") /\ Me(t) \in Objects
    BY <1>5, <1>m DEF ConnectFails
  <2>2. Things'
    BY <1>5, <1>o, <2>1 DEF ConnectFails, Things, Known
  <2>3. caller' \in [Turns -> Caller] /\ HasObject'
    BY <1>h, <1>o, <2>1, Leaves
  <2> QED BY <1>t, <2>2, <2>3
<1>6. CASE Permit(t) \/ Answered(t) \/ CutOff(t)
  <2>1. /\ caller[t].at # "out"
        /\ Leave(t, "ok") \/ Leave(t, "error") \/ Leave(t, "cut") \/ To(t, "calling")
    BY <1>6 DEF Permit, Answered, CutOff, InPlace
  <2>2. Things'
    BY <1>0, <1>6 DEF Permit, Answered, CutOff
  <2>3. caller' \in [Turns -> Caller] /\ HasObject'
    BY <1>h, <1>o, <2>1, Moves, Leaves DEF Places
  <2> QED BY <1>t, <2>2, <2>3
<1> QED BY <1>1, <1>2, <1>3, <1>4, <1>5, <1>6 DEF Step

LEMMA DisconnectTypes ==
  ASSUME McpTypeOK, HasObject, NEW i \in Objects, Disconnect(i)
  PROVE  McpTypeOK' /\ HasObject'
BY DEF Disconnect, Closes, McpTypeOK, HasObject, Me, Known

\* A turn that goes on to a stage with nothing new to settle.
LEMMA Goings ==
  ASSUME ToolTypes, NEW t \in Turns, NEW stage \in Stages, Goes(t, stage),
         stage \in {"calls", "using", "record"} => turn[t].at \in {"calls", "using", "record"}
  PROVE  turn' \in [Turns -> Turn] /\ HasCall'
<1> DEFINE e == [turn[t] EXCEPT !.at = stage]
<1>1. turn \in [Turns -> Turn] /\ turn[t] \in Turn
  BY DEF ToolTypes, TypeOK
<1>2. turn' = [turn EXCEPT ![t] = e]
  BY DEF Goes
<1>3. e \in Turn /\ e.at = stage /\ e.todo = turn[t].todo
  BY <1>1 DEF Turn
<1> HIDE DEF e
<1>4. turn' \in [Turns -> Turn] /\ turn'[t] = e /\ \A u \in Turns : u # t => turn'[u] = turn[u]
  BY <1>1, <1>2, <1>3
<1> QED BY <1>3, <1>4 DEF ToolTypes, HasCall

LEMMA Settles ==
  ASSUME ToolTypes, NEW t \in Turns, turn[t].at \in {"calls", "using", "record"}, Settle(t)
  PROVE  /\ Call(t) \in Keys
         /\ turn' \in [Turns -> Turn] /\ HasCall'
         /\ turn'[t].seen = turn[t].seen /\ turn'[t].at \in {"ask", "calls"}
         /\ \A u \in Turns : u # t => turn'[u] = turn[u]
<1> DEFINE r == turn[t].todo
           p == IF Len(turn[t].todo) = 1 THEN "ask" ELSE "calls"
           e == [turn[t] EXCEPT !.at = p, !.todo = Tail(turn[t].todo)]
<1>1. turn \in [Turns -> Turn] /\ turn[t] \in Turn
  BY DEF ToolTypes, TypeOK
<1>2. r \in Requests
  BY <1>1 DEF ToolTypes, HasCall, Turn
<1>3. Head(r) \in Keys /\ Tail(r) \in Requests \cup {<<>>} /\ (p = "calls" => Tail(r) # <<>>)
  BY <1>2, RequestParts
<1>4. turn' = [turn EXCEPT ![t] = e]
  BY DEF Settle
<1>5. p \in {"ask", "calls"}
  OBVIOUS
<1> HIDE DEF p
<1>6. e \in Turn /\ e.at = p /\ e.todo = Tail(r) /\ e.seen = turn[t].seen
  BY <1>1, <1>3, <1>5 DEF Turn, Stages
<1> HIDE DEF e
<1>7. turn' \in [Turns -> Turn] /\ turn'[t] = e /\ \A u \in Turns : u # t => turn'[u] = turn[u]
  BY <1>1, <1>4, <1>6
<1> HIDE DEF r
<1>8. HasCall'
  BY <1>3, <1>5, <1>6, <1>7 DEF ToolTypes, HasCall
<1> QED BY <1>3, <1>5, <1>6, <1>7, <1>8 DEF Call, r

LEMMA Asks ==
  ASSUME ToolTypes, NEW t \in Turns, NEW calls \in Requests, turn[t].round < MaxRounds,
         turn' = [turn EXCEPT ![t].at = "calls", ![t].todo = calls, ![t].round = @ + 1]
  PROVE  /\ turn' \in [Turns -> Turn] /\ HasCall'
         /\ turn'[t].seen = turn[t].seen /\ turn'[t].at = "calls"
         /\ \A u \in Turns : u # t => turn'[u] = turn[u]
<1> DEFINE e == [turn[t] EXCEPT !.at = "calls", !.todo = calls, !.round = turn[t].round + 1]
<1>1. turn \in [Turns -> Turn] /\ turn[t] \in Turn
  BY DEF ToolTypes, TypeOK
<1>2. turn[t].round + 1 \in 0..MaxRounds
  BY <1>1, ToolAssumption DEF Turn
<1>3. turn' = [turn EXCEPT ![t] = e]
  OBVIOUS
<1>4. e \in Turn /\ e.at = "calls" /\ e.todo = calls /\ e.seen = turn[t].seen
  BY <1>1, <1>2 DEF Turn, Stages
<1> HIDE DEF e
<1>5. turn' \in [Turns -> Turn] /\ turn'[t] = e /\ \A u \in Turns : u # t => turn'[u] = turn[u]
  <2>1. e \in Turn /\ turn \in [Turns -> Turn]
    BY <1>1, <1>4
  <2> QED BY <1>3, <2>1
<1>6. calls # <<>>
  BY RequestParts
<1>7. HasCall'
  BY <1>4, <1>5, <1>6 DEF ToolTypes, HasCall
<1> QED BY <1>4, <1>5, <1>7

LEMMA Executes ==
  ASSUME ToolTypes, NEW t \in Turns, turn[t].at = "calls", NEW stage \in {"using", "record"},
         turn' = [turn EXCEPT ![t].at = stage, ![t].seen = @ \cup {Call(t)}]
  PROVE  /\ Call(t) \in Keys
         /\ turn' \in [Turns -> Turn] /\ HasCall'
         /\ turn'[t].seen = turn[t].seen \cup {Call(t)} /\ turn'[t].at = stage
         /\ turn'[t].todo = turn[t].todo
         /\ \A u \in Turns : u # t => turn'[u] = turn[u]
<1> DEFINE e == [turn[t] EXCEPT !.at = stage, !.seen = turn[t].seen \cup {Call(t)}]
<1>1. turn \in [Turns -> Turn] /\ turn[t] \in Turn
  BY DEF ToolTypes, TypeOK
<1>2. turn[t].todo \in Requests
  BY <1>1 DEF ToolTypes, HasCall, Turn
<1>3. Call(t) \in Keys
  BY <1>2, RequestParts DEF Call
<1>4. turn' = [turn EXCEPT ![t] = e]
  OBVIOUS
<1>5. e \in Turn /\ e.at = stage /\ e.todo = turn[t].todo /\ e.seen = turn[t].seen \cup {Call(t)}
  BY <1>1, <1>3 DEF Turn, Stages
<1> HIDE DEF e
<1>6. turn' \in [Turns -> Turn] /\ turn'[t] = e /\ \A u \in Turns : u # t => turn'[u] = turn[u]
  BY <1>1, <1>4, <1>5
<1>7. HasCall'
  BY <1>5, <1>6 DEF ToolTypes, HasCall
<1> QED BY <1>3, <1>5, <1>6, <1>7

\* What a step of a turn does to the manager.
LEMMA TurnManager ==
  ASSUME ToolTypes, NEW t \in Turns, TurnStep(t)
  PROVE  \/ UNCHANGED mcpVars
         \/ Takes(t)
         \/ /\ server # None /\ \E use \in {"list", "call"} : Use(t, server, use)
            /\ UNCHANGED <<declared, objectVars, connectionVars, events>>
         \/ /\ \E config \in Configs \cup {NoConfig} : Configure(config)
            /\ UNCHANGED <<declared, connectionVars, caller, events>>
<1>1. turn[t].read \in Configs \cup {NoConfig}
  BY DEF ToolTypes, TypeOK, Turn
<1>2. Register(t) => \E config \in Configs \cup {NoConfig} :
                       Configure(config) /\ UNCHANGED <<declared, connectionVars, caller, events>>
  BY <1>1 DEF Register
<1>3. Begin(t) \/ Probe(t) \/ Probed(t) \/ Plain(t) \/ Ask(t) \/ LimitReached(t) \/ Skip(t) \/ Record(t)
        => UNCHANGED mcpVars
  BY DEF Begin, Probe, Probed, Plain, Ask, LimitReached, Skip, Record
<1>4. Listed(t) \/ Returned(t) => Takes(t)
  BY DEF Listed, Returned
<1>5. Catalogue(t) \/ Execute(t) =>
         \/ UNCHANGED mcpVars
         \/ /\ server # None /\ \E use \in {"list", "call"} : Use(t, server, use)
            /\ UNCHANGED <<declared, objectVars, connectionVars, events>>
  BY DEF Catalogue, Execute, Dispatch
<1> QED BY <1>2, <1>3, <1>4, <1>5 DEF TurnStep

LEMMA ManagerTypes ==
  ASSUME ToolTypes, NEW t \in Turns, TurnStep(t)
  PROVE  McpTypeOK' /\ HasObject'
<1> USE DEF mcpVars, objectVars, connectionVars
<1>o. McpTypeOK /\ HasObject /\ Things /\ caller \in [Turns -> Caller]
  BY ThingsAndTurns DEF ToolTypes, TypeOK
<1>t. ASSUME Things', caller' \in [Turns -> Caller] PROVE McpTypeOK'
  BY <1>t, ThingsAndTurns DEF McpTypeOK, Things
<1>1. CASE UNCHANGED mcpVars
  BY <1>1, <1>o DEF McpTypeOK, Known, HasObject, Me
<1>2. CASE Takes(t)
  <2>1. Outside("ok") \in Caller /\ Outside("ok").at = "out"
    BY DEF Outside, Caller, Places
  <2>2. caller' = [caller EXCEPT ![t] = Outside("ok")] /\ UNCHANGED <<declared, objectVars, connectionVars, events>>
    BY <1>2 DEF Takes
  <2>3. Things'
    BY <1>o, <2>2 DEF Things, Known
  <2>4. caller' \in [Turns -> Caller] /\ HasObject'
    BY <1>o, <2>1, <2>2 DEF HasObject, Me
  <2> QED BY <1>t, <2>3, <2>4
<1>3. ASSUME server # None, NEW use \in {"list", "call"}, Use(t, server, use),
             UNCHANGED <<declared, objectVars, connectionVars, events>>
      PROVE  McpTypeOK' /\ HasObject'
  <2>1. server \in Objects
    BY <1>3, <1>o DEF Things
  <2>2. Things'
    BY <1>o, <1>3 DEF Things, Known
  <2>3. /\ caller' \in [Turns -> Caller] /\ caller'[t].obj = server
        /\ \A u \in Turns : u # t => caller'[u] = caller[u]
    BY <1>o, <1>3, <2>1, Uses
  <2>4. HasObject'
    BY <1>o, <2>1, <2>3 DEF HasObject, Me
  <2> QED BY <1>t, <2>2, <2>3, <2>4
<1>4. ASSUME NEW config \in Configs \cup {NoConfig}, Configure(config),
             UNCHANGED <<declared, connectionVars, caller, events>>
      PROVE  McpTypeOK' /\ HasObject'
  BY <1>4, <1>o, ConfigureTypes DEF McpTypeOK, HasObject, Me
<1> QED BY <1>1, <1>2, <1>3, <1>4, TurnManager

\* What a step does to the turns.
LEMMA TurnTypes ==
  ASSUME ToolTypes, NEW t \in Turns, TurnStep(t)
  PROVE  turn' \in [Turns -> Turn] /\ HasCall'
<1>a. turn \in [Turns -> Turn] /\ turn[t] \in Turn /\ declared \in Configs \cup {NoConfig}
  BY DEF ToolTypes, TypeOK, McpTypeOK
<1>1. CASE Begin(t)
  <2> DEFINE e == [turn[t] EXCEPT !.at = "register", !.read = declared]
  <2>1. turn' = [turn EXCEPT ![t] = e]
    BY <1>1 DEF Begin
  <2>2. e \in Turn /\ e.at = "register"
    BY <1>a DEF Turn, Stages
  <2> HIDE DEF e
  <2> QED BY <1>a, <2>1, <2>2 DEF ToolTypes, HasCall
<1>2. CASE Register(t)
  <2> DEFINE e == [turn[t] EXCEPT !.at = "probe", !.read = NoConfig]
  <2>1. turn' = [turn EXCEPT ![t] = e]
    BY <1>2 DEF Register
  <2>2. e \in Turn /\ e.at = "probe"
    BY <1>a DEF Turn, Stages
  <2> HIDE DEF e
  <2> QED BY <1>a, <2>1, <2>2 DEF ToolTypes, HasCall
<1>3. CASE Probe(t) \/ Probed(t) \/ Catalogue(t) \/ Listed(t) \/ Plain(t) \/ LimitReached(t)
  <2>1. \E stage \in Stages \ {"calls", "using", "record"} : Goes(t, stage)
    BY <1>3 DEF Probe, Probed, Catalogue, Listed, Plain, LimitReached, Stages, Ended
  <2> QED BY <2>1, Goings
<1>4. CASE Ask(t)
  <2>1. turn[t].round < MaxRounds
    BY <1>4 DEF Ask
  <2>2. CASE \E end \in Ended : Goes(t, end)
    BY <2>2, Goings DEF Ended, Stages
  <2>3. CASE \E calls \in Requests :
               turn' = [turn EXCEPT ![t].at = "calls", ![t].todo = calls, ![t].round = @ + 1]
    BY <2>1, <2>3, Asks
  <2> QED BY <1>4, <2>2, <2>3 DEF Ask
<1>5. CASE Skip(t) \/ Record(t)
  BY <1>5, Settles DEF Skip, Record, At
<1>6. CASE Execute(t)
  BY <1>6, Executes DEF Execute, At
<1>7. CASE Returned(t)
  <2>1. turn[t].at = "using" /\ (Settle(t) \/ Goes(t, "record"))
    BY <1>7 DEF Returned, At
  <2> QED BY <2>1, Settles, Goings DEF Stages
<1> QED BY <1>1, <1>2, <1>3, <1>4, <1>5, <1>6, <1>7 DEF TurnStep

LEMMA BookTypes ==
  ASSUME ToolTypes, NEW t \in Turns, TurnStep(t)
  PROVE  /\ checked' \in BOOLEAN /\ supported' \in BOOLEAN
         /\ rows' \subseteq Turns \X Keys /\ lost' \subseteq Turns \X Keys
         /\ runs' \in [Turns -> [Keys -> Nat]]
<1>a. /\ checked \in BOOLEAN /\ supported \in BOOLEAN
      /\ rows \subseteq Turns \X Keys /\ lost \subseteq Turns \X Keys
      /\ runs \in [Turns -> [Keys -> Nat]]
  BY DEF ToolTypes, TypeOK
<1>c. turn[t].at \in {"calls", "using", "record"} => Call(t) \in Keys
  <2>1. turn[t].at \in {"calls", "using", "record"} => turn[t].todo \in Requests
    BY DEF ToolTypes, TypeOK, HasCall, Turn
  <2> QED BY <2>1, RequestParts DEF Call
<1>1. CASE Begin(t) \/ Register(t) \/ Probe(t) \/ Probed(t) \/ Catalogue(t) \/ Listed(t) \/ Plain(t)
  BY <1>1, <1>a DEF Begin, Register, Probe, Probed, Catalogue, Listed, Plain, Kept, ProbeKept
<1>2. CASE Ask(t) \/ LimitReached(t) \/ Skip(t)
  BY <1>2, <1>a DEF Ask, LimitReached, Skip, Kept, ProbeKept
<1>3. CASE Execute(t)
  <2>1. runs' = [runs EXCEPT ![t][Call(t)] = @ + 1] /\ Call(t) \in Keys /\ UNCHANGED <<checked, supported, rows, lost>>
    BY <1>3, <1>c DEF Execute, At, ProbeKept
  <2>2. [runs[t] EXCEPT ![Call(t)] = @ + 1] \in [Keys -> Nat]
    BY <1>a, <2>1
  <2> QED BY <1>a, <2>1, <2>2
<1>4. CASE Returned(t) \/ Record(t)
  BY <1>4, <1>a, <1>c DEF Returned, Record, At, ProbeKept
<1> QED BY <1>1, <1>2, <1>3, <1>4 DEF TurnStep

LEMMA ToolTypesStep == ASSUME ToolTypes, [Next]_vars PROVE ToolTypes'
<1>1. CASE UNCHANGED vars
  BY <1>1 DEF vars, mcpVars, turnVars, objectVars, connectionVars, ToolTypes, TypeOK, McpTypeOK, Known,
     HasCall, HasObject, Me
<1>q. ASSUME UNCHANGED turnVars, McpTypeOK', HasObject' PROVE ToolTypes'
  BY <1>q DEF turnVars, ToolTypes, TypeOK, HasCall
<1>2. CASE World /\ UNCHANGED turnVars
  BY <1>2, <1>q, WorldTypes DEF ToolTypes, TypeOK
<1>3. CASE Disconnects
  BY <1>3, <1>q, DisconnectTypes DEF ToolTypes, TypeOK, Disconnects
<1>4. ASSUME NEW t \in Turns, Server(t) PROVE ToolTypes'
  BY <1>4, <1>q, StepTypes DEF ToolTypes, TypeOK, Server
<1>5. ASSUME NEW t \in Turns, TurnStep(t) PROVE ToolTypes'
  BY <1>5, ManagerTypes, TurnTypes, BookTypes DEF ToolTypes, TypeOK
<1> QED BY <1>1, <1>2, <1>3, <1>4, <1>5 DEF Next

\* Who closes or opens a connection holds the lock of an object that has no session: nobody
\* else opens one meanwhile.
OneDials ==
    \A t \in Turns : caller[t].at \in {"closing", "connecting"} =>
        lock[Me(t)] = t /\ session[Me(t)] = None

\* A call that was executed was seen.
RunsAreSeen ==
    \A t \in Turns, k \in Keys : runs[t][k] <= 1 /\ (runs[t][k] # 0 => k \in turn[t].seen)

ToolInv == ToolTypes /\ OneDials /\ NothingLeftOpen /\ RunsAreSeen /\ CallsAreAccountedFor

LEMMA ToolInvInit == Init => ToolInv
<1> SUFFICES ASSUME Init PROVE ToolInv
  OBVIOUS
<1>1. OneDials /\ NothingLeftOpen
  BY DEF Init, McpInit, OneDials, NothingLeftOpen, Outside
<1>2. RunsAreSeen /\ CallsAreAccountedFor
  BY DEF Init, RunsAreSeen, CallsAreAccountedFor
<1> QED BY <1>1, <1>2, ToolTypesInit DEF ToolInv

\* Steps that leave the locks alone, and what a session is.
LEMMA Undisturbed ==
  ASSUME OneDials, NEW t \in Turns, UNCHANGED <<lock, session>>,
         caller'[t].at \notin {"closing", "connecting"},
         \A u \in Turns : u # t => caller'[u] = caller[u]
  PROVE  OneDials'
BY DEF OneDials, Me

LEMMA DialsKept ==
  ASSUME ToolTypes, OneDials, NothingLeftOpen, NEW t \in Turns, Step(t)
  PROVE  OneDials' /\ NothingLeftOpen'
<1> USE DEF connectionVars, Fixed
<1>o. McpTypeOK /\ HasObject /\ Things /\ caller \in [Turns -> Caller]
  BY ThingsAndTurns DEF ToolTypes, TypeOK
<1>n. None \notin Connections /\ NoTurn \notin Turns
  BY Objects0, McpAssumption
<1>m. InPlace(t, "lock") \/ InPlace(t, "closing") \/ InPlace(t, "connecting") => Me(t) \in Objects
  BY <1>o DEF InPlace, HasObject
<1>a. \A u \in Turns : caller[u].at \in {"closing", "connecting"} => Me(u) \in Objects
  BY <1>o DEF HasObject
\* Nobody dials for the object of a turn that finds it free or dials itself.
<1>x. ASSUME InPlace(t, "closing") \/ InPlace(t, "connecting") \/ lock[Me(t)] = NoTurn,
             NEW u \in Turns, u # t, caller[u].at \in {"closing", "connecting"}
      PROVE  Me(u) # Me(t)
  BY <1>x, <1>n DEF OneDials, InPlace
<1>0. ASSUME UNCHANGED <<server, session, dropped, owner, open, late>> PROVE NothingLeftOpen'
  BY <1>0 DEF NothingLeftOpen
<1>1. CASE Reuse(t)
  <2>1. /\ Proceed(t, session[Me(t)]) /\ session[Me(t)] \in Connections
        /\ UNCHANGED <<session, lock, server, dropped, owner, open, late>>
    BY <1>1, <1>m, <1>o DEF Reuse, Free, InPlace, Things
  <2>2. /\ caller'[t].at \in {"calling", "permit"}
        /\ \A u \in Turns : u # t => caller'[u] = caller[u]
    BY <1>o, <2>1, Proceeds
  <2>3. OneDials'
    BY <2>1, <2>2, Undisturbed
  <2> QED BY <1>0, <2>1, <2>3
<1>2. CASE CloseRested(t)
  <2>1. /\ To(t, "closing") /\ Me(t) \in Objects /\ lock[Me(t)] = NoTurn
        /\ lock' = [lock EXCEPT ![Me(t)] = t] /\ session' = [session EXCEPT ![Me(t)] = None]
        /\ open' = open \ {session[Me(t)]} /\ UNCHANGED <<owner, late, server, dropped>>
    BY <1>2, <1>m DEF CloseRested, Closes, Free
  <2>2. /\ caller'[t].obj = Me(t)
        /\ \A u \in Turns : u # t => caller'[u] = caller[u]
    BY <1>o, <2>1, Moves DEF Places, Me
  <2>3. ASSUME NEW u \in Turns, caller'[u].at \in {"closing", "connecting"}
        PROVE  lock'[Me(u)'] = u /\ session'[Me(u)'] = None
    <3>1. CASE u = t
      BY <1>o, <2>1, <2>2, <3>1 DEF Things, Me
    <3>2. CASE u # t
      <4>1. caller[u].at \in {"closing", "connecting"} /\ Me(u)' = Me(u)
        BY <2>2, <2>3, <3>2 DEF Me
      <4>2. Me(u) # Me(t) /\ Me(u) \in Objects /\ lock[Me(u)] = u /\ session[Me(u)] = None
        BY <1>a, <1>x, <2>1, <3>2, <4>1 DEF OneDials
      <4> QED BY <1>o, <2>1, <4>1, <4>2 DEF Things
    <3> QED BY <3>1, <3>2
  <2>4. OneDials'
    BY <2>3 DEF OneDials
  <2>5. ASSUME NEW c \in open' PROVE session'[owner'[c]] = c /\ (owner'[c] = server' \/ owner'[c] \in dropped' \/ c \in late')
    <3>1. c \in open /\ session[owner[c]] = c /\ owner[c] # Me(t)
      BY <2>1, <2>5 DEF NothingLeftOpen
    <3> QED BY <1>o, <2>1, <3>1 DEF NothingLeftOpen, Things
  <2>6. NothingLeftOpen'
    BY <2>5 DEF NothingLeftOpen
  <2> QED BY <2>4, <2>6
<1>3. CASE Dial(t)
  <2>1. /\ Me(t) \in Objects /\ session[Me(t)] = None
        /\ InPlace(t, "closing") \/ lock[Me(t)] = NoTurn
        /\ UNCHANGED <<session, server, dropped, owner, open, late>>
        /\ \/ Leave(t, "error") /\ lock' = [lock EXCEPT ![Me(t)] = NoTurn]
           \/ To(t, "connecting") /\ lock' = [lock EXCEPT ![Me(t)] = t]
    BY <1>3, <1>m DEF Dial, Free, InPlace, OneDials
  <2>2. /\ \/ caller'[t].at = "out"
           \/ caller'[t].obj = Me(t) /\ lock' = [lock EXCEPT ![Me(t)] = t]
        /\ \A u \in Turns : u # t => caller'[u] = caller[u]
    <3>1. CASE Leave(t, "error")
      BY <1>o, <3>1, Leaves
    <3>2. CASE To(t, "connecting") /\ lock' = [lock EXCEPT ![Me(t)] = t]
      BY <1>o, <3>2, Moves DEF Places, Me
    <3> QED BY <2>1, <3>1, <3>2
  <2>3. ASSUME NEW u \in Turns, caller'[u].at \in {"closing", "connecting"}
        PROVE  lock'[Me(u)'] = u /\ session'[Me(u)'] = None
    <3>1. CASE u = t
      BY <1>o, <2>1, <2>2, <2>3, <3>1 DEF Things, Me
    <3>2. CASE u # t
      <4>1. caller[u].at \in {"closing", "connecting"} /\ Me(u)' = Me(u)
        BY <2>2, <2>3, <3>2 DEF Me
      <4>2. Me(u) # Me(t) /\ Me(u) \in Objects /\ lock[Me(u)] = u /\ session[Me(u)] = None
        BY <1>a, <1>x, <2>1, <3>2, <4>1 DEF OneDials
      <4> QED BY <1>o, <2>1, <4>1, <4>2 DEF Things
    <3> QED BY <3>1, <3>2
  <2>4. OneDials'
    BY <2>3 DEF OneDials
  <2> QED BY <1>0, <2>1, <2>4
<1>4. CASE Connected(t)
  <2>1. InPlace(t, "connecting") /\ Me(t) \in Objects /\ session[Me(t)] = None
    BY <1>4, <1>m DEF Connected, InPlace, OneDials
  <2>2. PICK c \in Connections :
           /\ c \notin DOMAIN owner
           /\ owner'[c] = Me(t) /\ \A d \in DOMAIN owner : owner'[d] = owner[d]
           /\ open' = open \cup {c}
           /\ late' = IF Me(t) # server /\ Me(t) \notin dropped THEN late \cup {c} ELSE late
           /\ session' = [session EXCEPT ![Me(t)] = c]
           /\ Proceed(t, c)
    BY <1>4, <1>o, <2>1, NewConnection
  <2>3. lock' = [lock EXCEPT ![Me(t)] = NoTurn] /\ UNCHANGED <<server, dropped>>
    BY <1>4 DEF Connected
  <2>4. /\ caller'[t].at \in {"calling", "permit"}
        /\ \A u \in Turns : u # t => caller'[u] = caller[u]
    BY <1>o, <2>2, Proceeds
  <2>5. ASSUME NEW u \in Turns, caller'[u].at \in {"closing", "connecting"}
        PROVE  lock'[Me(u)'] = u /\ session'[Me(u)'] = None
    <3>1. u # t /\ caller[u].at \in {"closing", "connecting"} /\ Me(u)' = Me(u)
      BY <2>4, <2>5 DEF Me
    <3>2. Me(u) # Me(t) /\ Me(u) \in Objects /\ lock[Me(u)] = u /\ session[Me(u)] = None
      BY <1>a, <1>x, <2>1, <3>1 DEF OneDials
    <3> QED BY <1>o, <2>2, <2>3, <3>1, <3>2 DEF Things
  <2>6. OneDials'
    BY <2>5 DEF OneDials
  <2>7. ASSUME NEW d \in open' PROVE session'[owner'[d]] = d /\ (owner'[d] = server' \/ owner'[d] \in dropped' \/ d \in late')
    <3>1. CASE d = c
      BY <1>o, <2>1, <2>2, <2>3, <3>1 DEF Things
    <3>2. CASE d # c
      <4>1. d \in open /\ d \in DOMAIN owner /\ owner'[d] = owner[d]
        BY <1>o, <2>2, <2>7, <3>2 DEF Things
      <4>2. session[owner[d]] = d /\ d # None
        BY <1>o, <4>1, Objects0 DEF NothingLeftOpen, Things, None, Objects
      <4>3. owner[d] # Me(t)
        BY <2>1, <4>2
      <4> QED BY <1>o, <2>2, <2>3, <4>1, <4>2, <4>3 DEF NothingLeftOpen, Things
    <3> QED BY <3>1, <3>2
  <2>8. NothingLeftOpen'
    BY <2>7 DEF NothingLeftOpen
  <2> QED BY <2>6, <2>8
<1>5. CASE ConnectFails(t)
  <2>1. /\ InPlace(t, "connecting") /\ Me(t) \in Objects /\ Leave(t, "error")
        /\ lock' = [lock EXCEPT ![Me(t)] = NoTurn]
        /\ UNCHANGED <<session, server, dropped, owner, open, late>>
    BY <1>5, <1>m DEF ConnectFails
  <2>2. caller'[t].at = "out" /\ \A u \in Turns : u # t => caller'[u] = caller[u]
    BY <1>o, <2>1, Leaves
  <2>3. ASSUME NEW u \in Turns, caller'[u].at \in {"closing", "connecting"}
        PROVE  lock'[Me(u)'] = u /\ session'[Me(u)'] = None
    <3>1. u # t /\ caller[u].at \in {"closing", "connecting"} /\ Me(u)' = Me(u)
      BY <2>2, <2>3 DEF Me
    <3>2. Me(u) # Me(t) /\ Me(u) \in Objects /\ lock[Me(u)] = u /\ session[Me(u)] = None
      BY <1>a, <1>x, <2>1, <3>1 DEF OneDials
    <3> QED BY <1>o, <2>1, <3>1, <3>2 DEF Things
  <2>4. OneDials'
    BY <2>3 DEF OneDials
  <2> QED BY <1>0, <2>1, <2>4
<1>6. CASE Permit(t) \/ Answered(t) \/ CutOff(t)
  <2>1. /\ Leave(t, "ok") \/ Leave(t, "error") \/ Leave(t, "cut") \/ To(t, "calling")
        /\ UNCHANGED <<session, lock, server, dropped, owner, open, late>>
    BY <1>6 DEF Permit, Answered, CutOff
  <2>2. caller'[t].at \in {"out", "calling"} /\ \A u \in Turns : u # t => caller'[u] = caller[u]
    BY <1>o, <2>1, Moves, Leaves DEF Places
  <2>3. OneDials'
    BY <2>1, <2>2, Undisturbed
  <2> QED BY <1>0, <2>1, <2>3
<1> QED BY <1>1, <1>2, <1>3, <1>4, <1>5, <1>6 DEF Step

LEMMA DisconnectKept ==
  ASSUME ToolTypes, OneDials, NothingLeftOpen, NEW i \in Objects, Disconnect(i)
  PROVE  OneDials' /\ NothingLeftOpen'
<1>o. McpTypeOK /\ HasObject /\ Things /\ None \notin Connections
  BY ThingsAndTurns, Objects0 DEF ToolTypes, TypeOK
<1>1. /\ session' = [session EXCEPT ![i] = None] /\ open' = open \ {session[i]}
      /\ dropped' = dropped \ {i} /\ UNCHANGED <<owner, late, server, lock, caller>>
  BY DEF Disconnect, Closes
<1>2. OneDials'
  BY <1>o, <1>1 DEF OneDials, Me, Things, HasObject
<1>3. ASSUME NEW c \in open' PROVE session'[owner'[c]] = c /\ (owner'[c] = server' \/ owner'[c] \in dropped' \/ c \in late')
  <2>1. c \in open /\ session[owner[c]] = c /\ owner[c] # i
    BY <1>1, <1>3 DEF NothingLeftOpen
  <2> QED BY <1>o, <1>1, <2>1 DEF NothingLeftOpen, Things
<1> QED BY <1>2, <1>3 DEF NothingLeftOpen

LEMMA TurnDials ==
  ASSUME ToolTypes, OneDials, NothingLeftOpen, NEW t \in Turns, TurnStep(t)
  PROVE  OneDials' /\ NothingLeftOpen'
<1> USE DEF mcpVars, objectVars, connectionVars
<1>o. McpTypeOK /\ Things /\ caller \in [Turns -> Caller]
  BY ThingsAndTurns DEF ToolTypes, TypeOK
<1>1. CASE UNCHANGED mcpVars
  BY <1>1 DEF OneDials, NothingLeftOpen, Me
<1>2. CASE Takes(t)
  <2>1. /\ caller' = [caller EXCEPT ![t] = Outside("ok")]
        /\ UNCHANGED <<server, session, lock, dropped, owner, open, late>>
    BY <1>2 DEF Takes
  <2>2. caller'[t].at = "out" /\ \A u \in Turns : u # t => caller'[u] = caller[u]
    BY <1>o, <2>1 DEF Outside
  <2> QED BY <2>1, <2>2, Undisturbed DEF NothingLeftOpen
<1>3. ASSUME server # None, NEW use \in {"list", "call"}, Use(t, server, use),
             UNCHANGED <<declared, objectVars, connectionVars, events>>
      PROVE  OneDials' /\ NothingLeftOpen'
  <2>1. server \in Objects
    BY <1>3, <1>o DEF Things
  <2>2. caller'[t].at = "lock" /\ \A u \in Turns : u # t => caller'[u] = caller[u]
    BY <1>o, <1>3, <2>1, Uses
  <2> QED BY <1>3, <2>2, Undisturbed DEF NothingLeftOpen
<1>4. ASSUME NEW config \in Configs \cup {NoConfig}, Configure(config),
             UNCHANGED <<declared, connectionVars, caller, events>>
      PROVE  OneDials' /\ NothingLeftOpen'
  <2>1. UNCHANGED <<session, lock, owner, open, late, caller>>
    BY <1>4 DEF Configure
  <2>2. OneDials'
    BY <2>1 DEF OneDials, Me
  <2>3. dropped \subseteq dropped' /\ (server' = server \/ server = None \/ server \in dropped')
    BY <1>4 DEF Configure
  <2>4. \A c \in open : owner[c] \in Objects /\ owner[c] # None
    BY <1>o, Objects0 DEF Things
  <2> QED BY <2>1, <2>2, <2>3, <2>4 DEF NothingLeftOpen
<1> QED BY <1>1, <1>2, <1>3, <1>4, TurnManager

\* What a step leaves of the turns, of what they ran and of what became of it.
LEMMA OthersUntouched ==
  ASSUME ToolTypes, NEW t \in Turns, TurnStep(t)
  PROVE  /\ \A u \in Turns : u # t => turn'[u] = turn[u] /\ runs'[u] = runs[u]
         /\ rows \subseteq rows' /\ lost \subseteq lost'
<1>a. turn \in [Turns -> Turn] /\ runs \in [Turns -> [Keys -> Nat]]
  BY DEF ToolTypes, TypeOK
<1>1. ASSUME NEW stage, Goes(t, stage) PROVE \A u \in Turns : u # t => turn'[u] = turn[u]
  BY <1>1, <1>a DEF Goes
<1>2. Settle(t) => \A u \in Turns : u # t => turn'[u] = turn[u]
  BY <1>a DEF Settle
<1>3. CASE Begin(t) \/ Register(t) \/ Ask(t)
  BY <1>3, <1>1, <1>a DEF Begin, Register, Ask, Kept
<1>4. CASE Probe(t) \/ Probed(t) \/ Catalogue(t) \/ Listed(t) \/ Plain(t) \/ LimitReached(t)
  <2>1. \E stage \in Stages : Goes(t, stage)
    BY <1>4 DEF Probe, Probed, Catalogue, Listed, Plain, LimitReached, Stages, Ended
  <2>2. Kept
    BY <1>4 DEF Probe, Probed, Catalogue, Listed, Plain, LimitReached
  <2> QED BY <1>1, <2>1, <2>2 DEF Kept
<1>5. CASE Skip(t) \/ Returned(t) \/ Record(t)
  BY <1>5, <1>1, <1>2 DEF Skip, Returned, Record, Kept
<1>6. CASE Execute(t)
  BY <1>6, <1>a DEF Execute
<1> QED BY <1>3, <1>4, <1>5, <1>6 DEF TurnStep

\* The books of turn u.
Booked(u) ==
    /\ \A k \in Keys : runs[u][k] <= 1 /\ (runs[u][k] # 0 => k \in turn[u].seen)
    /\ \A k \in turn[u].seen :
         \/ <<u, k>> \in rows \cup lost
         \/ turn[u].at \in {"using", "record"} /\ k = Call(u)

LEMMA BooksAndTurns == RunsAreSeen /\ CallsAreAccountedFor <=> \A u \in Turns : Booked(u)
BY DEF RunsAreSeen, CallsAreAccountedFor, Booked

LEMMA BooksKept ==
  ASSUME ToolTypes, \A u \in Turns : Booked(u), NEW t \in Turns, TurnStep(t)
  PROVE  \A u \in Turns : Booked(u)'
<1>a. turn \in [Turns -> Turn] /\ turn[t] \in Turn /\ runs \in [Turns -> [Keys -> Nat]]
  BY DEF ToolTypes, TypeOK
<1>b. Booked(t)
  OBVIOUS
<1>u. ASSUME NEW u \in Turns, u # t PROVE Booked(u)'
  BY <1>u, OthersUntouched DEF Booked, Call
<1> SUFFICES Booked(t)'
  BY <1>u
<1>c. turn[t].at \in {"calls", "using", "record"} => Call(t) \in Keys
  <2>1. turn[t].at \in {"calls", "using", "record"} => turn[t].todo \in Requests
    BY <1>a DEF ToolTypes, HasCall, Turn
  <2> QED BY <2>1, RequestParts DEF Call
\* Steps that are not in the middle of a call.
<1>0. ASSUME turn[t].at \notin {"using", "record"}, turn'[t].seen = turn[t].seen,
             UNCHANGED <<rows, runs, lost>>
      PROVE  Booked(t)'
  BY <1>0, <1>b DEF Booked
<1>g. ASSUME NEW stage, Goes(t, stage) PROVE turn'[t].seen = turn[t].seen /\ turn'[t].todo = turn[t].todo /\ turn'[t].at = stage
  <2>1. turn' = [turn EXCEPT ![t] = [turn[t] EXCEPT !.at = stage]]
    BY <1>g DEF Goes
  <2>2. turn'[t] = [turn[t] EXCEPT !.at = stage]
    BY <1>a, <2>1
  <2> QED BY <1>a, <2>2 DEF Turn
<1>1. CASE Begin(t) \/ Register(t)
  <2>1. turn[t].at \notin {"using", "record"} /\ Kept
    BY <1>1 DEF Begin, Register, At
  <2>2. turn'[t].seen = turn[t].seen
    BY <1>1, <1>a DEF Begin, Register, Turn
  <2> QED BY <1>0, <2>1, <2>2 DEF Kept
<1>2. CASE Probe(t) \/ Probed(t) \/ Catalogue(t) \/ Listed(t) \/ Plain(t) \/ LimitReached(t)
  <2>1. \E stage \in Stages : Goes(t, stage)
    BY <1>2 DEF Probe, Probed, Catalogue, Listed, Plain, LimitReached, Stages, Ended
  <2>2. Kept /\ turn[t].at \notin {"using", "record"}
    BY <1>2 DEF Probe, Probed, Catalogue, Listed, Plain, LimitReached, At
  <2> QED BY <1>0, <1>g, <2>1, <2>2 DEF Kept
<1>3. CASE Ask(t)
  <2>1. turn[t].at = "ask" /\ turn[t].round < MaxRounds /\ Kept
    BY <1>3 DEF Ask, At
  <2>2. turn'[t].seen = turn[t].seen
    <3>1. CASE \E end \in Ended : Goes(t, end)
      BY <1>g, <3>1
    <3>2. CASE \E calls \in Requests :
                 turn' = [turn EXCEPT ![t].at = "calls", ![t].todo = calls, ![t].round = @ + 1]
      BY <2>1, <3>2, Asks
    <3> QED BY <1>3, <3>1, <3>2 DEF Ask
  <2> QED BY <1>0, <2>1, <2>2 DEF Kept
<1>4. CASE Skip(t)
  <2>1. turn[t].at = "calls" /\ Settle(t) /\ Kept
    BY <1>4 DEF Skip, At
  <2> QED BY <1>0, <2>1, Settles DEF Kept
<1>5. CASE Execute(t)
  <2>1. turn[t].at = "calls" /\ Call(t) \notin turn[t].seen /\ Call(t) \in Keys /\ UNCHANGED <<rows, lost>>
    BY <1>5, <1>c DEF Execute, At
  <2>2. PICK stage \in {"using", "record"} :
           turn' = [turn EXCEPT ![t].at = stage, ![t].seen = @ \cup {Call(t)}]
    BY <1>5 DEF Execute
  <2>3. /\ turn'[t].seen = turn[t].seen \cup {Call(t)} /\ turn'[t].at = stage
        /\ turn'[t].todo = turn[t].todo
    BY <2>1, <2>2, Executes
  <2>4. Call(t)' = Call(t)
    BY <2>3 DEF Call
  <2>5. runs'[t] = [runs[t] EXCEPT ![Call(t)] = @ + 1]
    BY <1>5, <1>a DEF Execute
  <2>6. runs[t] \in [Keys -> Nat] /\ runs[t][Call(t)] = 0
    BY <1>a, <1>b, <2>1 DEF Booked
  <2>7. runs'[t][Call(t)] = 1 /\ \A k \in Keys : k # Call(t) => runs'[t][k] = runs[t][k]
    BY <2>1, <2>5, <2>6
  <2>8. \A k \in Keys : runs'[t][k] <= 1 /\ (runs'[t][k] # 0 => k \in turn'[t].seen)
    <3>1. ASSUME NEW k \in Keys PROVE runs'[t][k] <= 1 /\ (runs'[t][k] # 0 => k \in turn'[t].seen)
      <4>1. CASE k = Call(t)
        BY <2>3, <2>7, <4>1
      <4>2. CASE k # Call(t)
        BY <1>b, <2>3, <2>7, <4>2 DEF Booked
      <4> QED BY <4>1, <4>2
    <3> QED BY <3>1
  <2>9. \A k \in turn'[t].seen :
          <<t, k>> \in rows' \cup lost' \/ (turn'[t].at \in {"using", "record"} /\ k = Call(t)')
    BY <1>b, <2>1, <2>3, <2>4 DEF Booked
  <2> QED BY <2>8, <2>9 DEF Booked
<1>6. CASE Returned(t) /\ caller[t].got # "cut"
  <2>1. turn[t].at = "using" /\ Goes(t, "record") /\ UNCHANGED <<rows, runs, lost>>
    BY <1>6 DEF Returned, At
  <2>2. /\ turn'[t].seen = turn[t].seen /\ turn'[t].at = "record" /\ turn'[t].todo = turn[t].todo
    BY <1>g, <2>1
  <2>3. Call(t)' = Call(t)
    BY <2>2 DEF Call
  <2> QED BY <1>b, <2>1, <2>2, <2>3 DEF Booked
<1>7. CASE (Returned(t) /\ caller[t].got = "cut") \/ Record(t)
  <2>1. /\ turn[t].at \in {"using", "record"} /\ Settle(t) /\ UNCHANGED runs
        /\ \/ rows' = rows \cup {<<t, Call(t)>>} /\ UNCHANGED lost
           \/ lost' = lost \cup {<<t, Call(t)>>} /\ UNCHANGED rows
    BY <1>7 DEF Returned, Record, At
  <2>2. turn'[t].seen = turn[t].seen
    BY <2>1, Settles
  <2>3. \A k \in turn[t].seen : <<t, k>> \in rows' \cup lost'
    BY <1>b, <2>1 DEF Booked
  <2> QED BY <1>b, <2>1, <2>2, <2>3 DEF Booked
<1> QED BY <1>1, <1>2, <1>3, <1>4, <1>5, <1>6, <1>7 DEF TurnStep

LEMMA ToolInvAlways == Spec => []ToolInv
<1>1. ASSUME ToolInv, [Next]_vars PROVE ToolInv'
  <2>t. ToolTypes' /\ (RunsAreSeen /\ CallsAreAccountedFor <=> \A u \in Turns : Booked(u))
    BY <1>1, ToolTypesStep, BooksAndTurns DEF ToolInv
  <2>b. (RunsAreSeen /\ CallsAreAccountedFor <=> \A u \in Turns : Booked(u))'
    BY BooksAndTurns, PTL
  <2>1. CASE UNCHANGED vars
    BY <1>1, <2>1, <2>t DEF vars, mcpVars, turnVars, objectVars, connectionVars, ToolInv, OneDials, Me,
       NothingLeftOpen, RunsAreSeen, CallsAreAccountedFor, Call
  <2>q. ASSUME UNCHANGED turnVars, OneDials', NothingLeftOpen' PROVE ToolInv'
    BY <1>1, <2>t, <2>q DEF turnVars, ToolInv, RunsAreSeen, CallsAreAccountedFor, Call
  <2>2. CASE World /\ UNCHANGED turnVars
    <3>1. UNCHANGED <<server, session, lock, dropped, owner, open, late, caller>>
      BY <2>2 DEF World, Declare, PeerDies, TimePasses, objectVars, connectionVars
    <3>2. OneDials' /\ NothingLeftOpen'
      BY <1>1, <3>1 DEF ToolInv, OneDials, NothingLeftOpen, Me
    <3> QED BY <2>2, <2>q, <3>2
  <2>3. CASE Disconnects
    BY <1>1, <2>3, <2>q, DisconnectKept DEF ToolInv, Disconnects
  <2>4. ASSUME NEW t \in Turns, Server(t) PROVE ToolInv'
    BY <1>1, <2>4, <2>q, DialsKept DEF ToolInv, Server
  <2>5. ASSUME NEW t \in Turns, TurnStep(t) PROVE ToolInv'
    <3>1. OneDials' /\ NothingLeftOpen'
      BY <1>1, <2>5, TurnDials DEF ToolInv
    <3>2. \A u \in Turns : Booked(u)'
      BY <1>1, <2>5, <2>t, BooksKept DEF ToolInv
    <3>3. RunsAreSeen' /\ CallsAreAccountedFor'
      BY <2>b, <3>2
    <3> QED BY <2>t, <3>1, <3>3 DEF ToolInv
  <2> QED BY <1>1, <2>1, <2>2, <2>3, <2>4, <2>5 DEF Next
<1> QED BY <1>1, ToolInvInit, PTL DEF Spec

\* The types hold in every state of the turns that have tools and of the manager of servers.
THEOREM ToolTypesHold == Spec => []TypeOK
<1>1. ToolInv => TypeOK
  BY DEF ToolInv, ToolTypes
<1> QED BY <1>1, ToolInvAlways, PTL

\* Whatever is configured, cut off or disconnected meanwhile, an object never has two open
\* connections, and none stays with an object that was replaced, but for one that was opened
\* after its disconnection (Manager.configure, _get_session).
THEOREM ConnectionsAreOwned == Spec => []NothingLeftOpen
<1>1. ToolInv => NothingLeftOpen
  BY DEF ToolInv
<1> QED BY <1>1, ToolInvAlways, PTL

\* However a call ends, the loop runs it once in a turn, and leaves a row of it unless it was
\* cut off or its row could not be committed (run_tool_loop, make_executor).
THEOREM CallsRunOnce == Spec => []CallsAreAccountedFor
<1>1. ToolInv => CallsAreAccountedFor
  BY DEF ToolInv
<1> QED BY <1>1, ToolInvAlways, PTL

\* A lock is held by a turn that is opening or closing a connection for its object, and by
\* nobody else: a turn that is refused, answered or cut off has let go of it, and nothing that
\* happens to the configuration leaves it behind (_get_session, Manager.configure).
LocksAreHeldToDial ==
    \A i \in Objects : lock[i] # NoTurn =>
        /\ caller[lock[i]].at \in {"closing", "connecting"}
        /\ Me(lock[i]) = i

\* The same, seen from the turns that hold none: what they do elsewhere takes no lock away.
LEMMA LocksUndisturbed ==
  ASSUME Things, LocksAreHeldToDial, NEW t \in Turns, UNCHANGED lock,
         caller[t].at \notin {"closing", "connecting"},
         \A u \in Turns : u # t => caller'[u] = caller[u]
  PROVE  LocksAreHeldToDial'
BY DEF Things, LocksAreHeldToDial, Me

\* The holder of a lock lets go of it, or keeps it and dials.
LEMMA LocksChange ==
  ASSUME Things, LocksAreHeldToDial, NEW t \in Turns, Me(t) \in Objects,
         caller[t].at \in {"closing", "connecting"} \/ lock[Me(t)] = NoTurn,
         \A u \in Turns : u # t => caller'[u] = caller[u],
         \/ lock' = [lock EXCEPT ![Me(t)] = NoTurn]
         \/ /\ lock' = [lock EXCEPT ![Me(t)] = t] /\ caller'[t].obj = caller[t].obj
            /\ caller'[t].at \in {"closing", "connecting"},
         caller[t].at \in {"closing", "connecting"} => lock[Me(t)] = t
  PROVE  LocksAreHeldToDial'
<1>o. lock \in [Objects -> Turns \cup {NoTurn}]
  BY DEF Things
<1>1. ASSUME NEW i \in Objects, NEW u, u = lock'[i], u # NoTurn
      PROVE  caller'[u].at \in {"closing", "connecting"} /\ caller'[u].obj = i
  <2>1. CASE i = Me(t)
    <3>1. u = t /\ caller'[t].obj = i /\ caller'[t].at \in {"closing", "connecting"}
      BY <1>o, <1>1, <2>1 DEF Me
    <3> QED BY <3>1
  <2>2. CASE i # Me(t)
    <3>1. u = lock[i] /\ u \in Turns
      BY <1>o, <1>1, <2>2
    <3>2. caller[u].at \in {"closing", "connecting"} /\ Me(u) = i /\ u # t
      BY <1>1, <2>2, <3>1 DEF LocksAreHeldToDial
    <3> QED BY <3>1, <3>2 DEF Me
  <2> QED BY <2>1, <2>2
<1> QED BY <1>1 DEF LocksAreHeldToDial, Me

LEMMA LocksKept ==
  ASSUME ToolTypes, OneDials, LocksAreHeldToDial, NEW t \in Turns, Step(t)
  PROVE  LocksAreHeldToDial'
<1> USE DEF connectionVars, Fixed
<1>o. McpTypeOK /\ HasObject /\ Things /\ caller \in [Turns -> Caller]
  BY ThingsAndTurns DEF ToolTypes, TypeOK
<1>m. InPlace(t, "lock") \/ InPlace(t, "closing") \/ InPlace(t, "connecting") => Me(t) \in Objects
  BY <1>o DEF InPlace, HasObject
<1>d. caller[t].at \in {"closing", "connecting"} => lock[Me(t)] = t
  BY DEF OneDials
<1>1. CASE Reuse(t)
  <2>1. /\ Proceed(t, session[Me(t)]) /\ session[Me(t)] \in Connections /\ UNCHANGED lock
        /\ caller[t].at = "lock"
    BY <1>1, <1>m, <1>o DEF Reuse, Free, InPlace, Things
  <2>2. \A u \in Turns : u # t => caller'[u] = caller[u]
    BY <1>o, <2>1, Proceeds
  <2> QED BY <1>o, <2>1, <2>2, LocksUndisturbed
<1>2. CASE CloseRested(t)
  <2>1. /\ To(t, "closing") /\ Me(t) \in Objects /\ lock[Me(t)] = NoTurn
        /\ lock' = [lock EXCEPT ![Me(t)] = t]
    BY <1>2, <1>m DEF CloseRested, Free
  <2>2. /\ caller'[t].obj = caller[t].obj /\ caller'[t].at = "closing"
        /\ \A u \in Turns : u # t => caller'[u] = caller[u]
    BY <1>o, <2>1, Moves DEF Places
  <2> QED BY <1>o, <1>d, <2>1, <2>2, LocksChange
<1>3. CASE Dial(t)
  <2>1. /\ Me(t) \in Objects
        /\ caller[t].at \in {"closing", "connecting"} \/ lock[Me(t)] = NoTurn
    BY <1>3, <1>m DEF Dial, Free, InPlace
  <2>2. CASE Leave(t, "error") /\ lock' = [lock EXCEPT ![Me(t)] = NoTurn]
    <3>1. \A u \in Turns : u # t => caller'[u] = caller[u]
      BY <1>o, <2>2, Leaves
    <3> QED BY <1>o, <1>d, <2>1, <2>2, <3>1, LocksChange
  <2>3. CASE To(t, "connecting") /\ lock' = [lock EXCEPT ![Me(t)] = t]
    <3>1. /\ caller'[t].obj = caller[t].obj /\ caller'[t].at = "connecting"
          /\ \A u \in Turns : u # t => caller'[u] = caller[u]
      BY <1>o, <2>3, Moves DEF Places
    <3> QED BY <1>o, <1>d, <2>1, <2>3, <3>1, LocksChange
  <2> QED BY <1>3, <2>2, <2>3 DEF Dial
<1>4. CASE Connected(t) \/ ConnectFails(t)
  <2>1. /\ caller[t].at = "connecting" /\ Me(t) \in Objects
        /\ lock' = [lock EXCEPT ![Me(t)] = NoTurn]
        /\ (\E c \in Connections : Proceed(t, c)) \/ Leave(t, "error")
    BY <1>4, <1>m DEF Connected, ConnectFails, InPlace
  <2>2. \A u \in Turns : u # t => caller'[u] = caller[u]
    BY <1>o, <2>1, Leaves, Proceeds
  <2> QED BY <1>o, <1>d, <2>1, <2>2, LocksChange
<1>5. CASE Permit(t) \/ Answered(t) \/ CutOff(t)
  <2>1. /\ Leave(t, "ok") \/ Leave(t, "error") \/ Leave(t, "cut") \/ To(t, "calling")
        /\ caller[t].at \notin {"closing", "connecting"} /\ UNCHANGED lock
    BY <1>5 DEF Permit, Answered, CutOff, InPlace
  <2>2. \A u \in Turns : u # t => caller'[u] = caller[u]
    BY <1>o, <2>1, Moves, Leaves DEF Places
  <2> QED BY <1>o, <2>1, <2>2, LocksUndisturbed
<1> QED BY <1>1, <1>2, <1>3, <1>4, <1>5 DEF Step

\* A turn is inside the manager while it lists tools or runs a call, and at no other time.
InsideToUse == \A t \in Turns : caller[t].at # "out" => turn[t].at \in {"listing", "using"}

LEMMA TurnInside ==
  ASSUME ToolTypes, InsideToUse, NEW t \in Turns, TurnStep(t)
  PROVE  /\ InsideToUse'
         /\ UNCHANGED caller \/ caller[t].at = "out"
         /\ \A u \in Turns : u # t => caller'[u] = caller[u]
<1> USE DEF mcpVars
<1>o. McpTypeOK /\ caller \in [Turns -> Caller] /\ turn \in [Turns -> Turn]
      /\ (server # None => server \in Objects)
  BY DEF ToolTypes, TypeOK, McpTypeOK
<1>u. \A u \in Turns : u # t => turn'[u] = turn[u]
  BY OthersUntouched
<1>q. ASSUME \A u \in Turns : u # t => caller'[u] = caller[u],
             caller'[t].at # "out" => turn'[t].at \in {"listing", "using"}
      PROVE  InsideToUse'
  BY <1>q, <1>u DEF InsideToUse
<1>n. ASSUME UNCHANGED caller, turn[t].at \notin {"listing", "using"}
      PROVE  InsideToUse'
  BY <1>n, <1>q DEF InsideToUse
<1>1. CASE Begin(t) \/ Register(t) \/ Probe(t) \/ Probed(t) \/ Plain(t) \/ Ask(t) \/ LimitReached(t)
           \/ Skip(t) \/ Record(t)
  <2>1. UNCHANGED caller /\ turn[t].at \notin {"listing", "using"}
    BY <1>1 DEF Begin, Register, Probe, Probed, Plain, Ask, LimitReached, Skip, Record, At
  <2> QED BY <1>n, <2>1
<1>2. CASE Listed(t) \/ Returned(t)
  <2>1. caller[t].at = "out" /\ caller' = [caller EXCEPT ![t] = Outside("ok")]
    BY <1>2 DEF Listed, Returned, Takes, InPlace
  <2>2. caller'[t].at = "out" /\ \A u \in Turns : u # t => caller'[u] = caller[u]
    BY <1>o, <2>1 DEF Outside
  <2> QED BY <1>q, <2>1, <2>2
<1>3. ASSUME turn[t].at \notin {"listing", "using"}, server # None, NEW use, Use(t, server, use),
             NEW stage \in {"listing", "using"}, turn'[t].at = stage
      PROVE  /\ InsideToUse' /\ caller[t].at = "out"
             /\ \A u \in Turns : u # t => caller'[u] = caller[u]
  <2>1. caller[t].at = "out" /\ \A u \in Turns : u # t => caller'[u] = caller[u]
    BY <1>3, <1>o DEF InsideToUse, Use
  <2> QED BY <1>3, <1>q, <2>1
<1>4. CASE Catalogue(t)
  <2>1. turn[t].at = "catalogue"
    BY <1>4 DEF Catalogue, At
  <2>2. CASE UNCHANGED caller
    BY <1>n, <2>1, <2>2
  <2>3. CASE server # None /\ Goes(t, "listing") /\ Use(t, server, "list")
    <3>1. turn'[t].at = "listing"
      BY <1>o, <2>3 DEF Goes, Turn
    <3> QED BY <1>3, <2>1, <2>3, <3>1
  <2> QED BY <1>4, <2>2, <2>3 DEF Catalogue
<1>5. CASE Execute(t)
  <2>1. turn[t].at = "calls"
    BY <1>5 DEF Execute, At
  <2>2. PICK stage \in {"using", "record"} :
          /\ Dispatch(t, stage)
          /\ turn' = [turn EXCEPT ![t].at = stage, ![t].seen = @ \cup {Call(t)}]
    BY <1>5 DEF Execute
  <2>3. turn'[t].at = stage
    BY <2>1, <2>2, Executes
  <2>4. CASE UNCHANGED caller
    BY <1>n, <2>1, <2>4
  <2>5. CASE stage = "using" /\ server # None /\ Use(t, server, "call")
    BY <1>3, <2>1, <2>3, <2>5
  <2> QED BY <2>2, <2>4, <2>5 DEF Dispatch
<1> QED BY <1>1, <1>2, <1>4, <1>5 DEF TurnStep

LEMMA TurnLocks ==
  ASSUME ToolTypes, LocksAreHeldToDial, InsideToUse, NEW t \in Turns, TurnStep(t)
  PROVE  LocksAreHeldToDial'
<1>o. Things
  BY ThingsAndTurns DEF ToolTypes, TypeOK
<1>1. UNCHANGED lock
  BY TurnManager DEF mcpVars, objectVars, Takes, Configure
<1>2. CASE UNCHANGED caller
  BY <1>1, <1>2 DEF LocksAreHeldToDial, Me
<1>3. CASE caller[t].at = "out"
  <2>1. \A u \in Turns : u # t => caller'[u] = caller[u]
    BY TurnInside
  <2> QED BY <1>o, <1>1, <1>3, <2>1, LocksUndisturbed
<1> QED BY <1>2, <1>3, TurnInside

LEMMA ServerInside ==
  ASSUME ToolTypes, InsideToUse, NEW t \in Turns, Server(t)
  PROVE  InsideToUse'
<1>o. McpTypeOK /\ HasObject /\ Things /\ caller \in [Turns -> Caller]
  BY ThingsAndTurns DEF ToolTypes, TypeOK
<1>1. Step(t) /\ UNCHANGED turn /\ caller[t].at # "out"
  BY DEF Server, turnVars, Step, Reuse, CloseRested, Dial, Free, Connected, ConnectFails, Permit, Answered,
     CutOff, InPlace
<1>2. \A u \in Turns : u # t => caller'[u] = caller[u]
  BY <1>1, <1>o DEF Step, Reuse, CloseRested, Dial, Connected, ConnectFails, Permit, Answered, CutOff,
     Proceed, To, Leave
<1> QED BY <1>1, <1>2 DEF InsideToUse

LEMMA LocksAlways == Spec => [](LocksAreHeldToDial /\ InsideToUse)
<1>1. Init => LocksAreHeldToDial /\ InsideToUse
  BY DEF Init, McpInit, LocksAreHeldToDial, InsideToUse, Outside
<1>2. ASSUME ToolInv, LocksAreHeldToDial /\ InsideToUse, [Next]_vars
      PROVE  (LocksAreHeldToDial /\ InsideToUse)'
  <2>t. ToolTypes /\ OneDials
    BY <1>2 DEF ToolInv
  <2>0. ASSUME UNCHANGED <<lock, caller, turn>> PROVE (LocksAreHeldToDial /\ InsideToUse)'
    BY <1>2, <2>0 DEF LocksAreHeldToDial, InsideToUse, Me
  <2>1. CASE UNCHANGED vars
    BY <2>0, <2>1 DEF vars, mcpVars, turnVars, objectVars
  <2>2. CASE World /\ UNCHANGED turnVars
    BY <2>0, <2>2 DEF World, Declare, PeerDies, TimePasses, objectVars, turnVars
  <2>3. CASE Disconnects
    BY <2>0, <2>3 DEF Disconnects, Disconnect, turnVars
  <2>4. ASSUME NEW t \in Turns, Server(t) PROVE (LocksAreHeldToDial /\ InsideToUse)'
    BY <1>2, <2>t, <2>4, LocksKept, ServerInside DEF Server
  <2>5. ASSUME NEW t \in Turns, TurnStep(t) PROVE (LocksAreHeldToDial /\ InsideToUse)'
    BY <1>2, <2>t, <2>5, TurnLocks, TurnInside
  <2> QED BY <1>2, <2>1, <2>2, <2>3, <2>4, <2>5 DEF Next
<1> QED BY <1>1, <1>2, ToolInvAlways, PTL DEF Spec

\* Nothing a turn does, and nothing that is done to it, leaves a lock of the manager behind: it is
\* held only by a turn that is opening or closing a connection, so whoever waits for a lock waits
\* for that turn to get or give up its connection.
THEOREM NoLockIsLeftBehind == Spec => []LocksAreHeldToDial
BY LocksAlways, PTL

-----------------------------------------------------------------------------
(* Supervision. The file is as old as the trouble allows, and no older.        *)

USE ConstantsAssumption

\* The parts that are watched are those that work, and nothing runs outside a process.
Watch ==
    /\ expected = {p \in Watched : task[p] = "working"}
    /\ phase # "run" => expected = {} /\ loop = "free"
    /\ phase = "run" /\ due = Never => AllDone

\* Nothing is later than now, and the file is no younger than the trouble allows.
Times ==
    /\ \A p \in Watched : success[p] <= now
    /\ touched <= now
    /\ \A p \in expected : touched <= success[p] + MaxSilence
    /\ loop = "held" => touched <= heldSince

\* The last beat touched the file, unless something was wrong then; and a beat is late only
\* where something is wrong.
Rhythm ==
    /\ unwell <= now /\ (Wrong => unwell = now)
    /\ due # Never =>
         /\ touched = due - BeatEvery \/ due - BeatEvery <= unwell
         /\ due < now => unwell = now
         /\ due >= 0

Inv == SupervisionTypeOK /\ Watch /\ Times /\ Rhythm

LEMMA InvInit == SupervisionInit => Inv
BY DEF SupervisionInit, Inv, SupervisionTypeOK, Watch, Times, Rhythm, Time, Parts, Watched, Never, Wrong, Silent, AllDone

LEMMA TypeKept ==
    ASSUME SupervisionTypeOK, [SupervisionNext]_supervisionVars
    PROVE  SupervisionTypeOK'
<1> USE DEF SupervisionTypeOK, Time, Parts, Watched, Never
<1> DEFINE Rest ==
      /\ now' \in Time /\ phase' \in {"boot", "run", "over"}
      /\ task' \in [Parts -> {"off", "starting", "working", "done"}]
      /\ expected' \subseteq Watched /\ success' \in [Parts -> Time]
      /\ due' \in Int /\ touched' \in Time \cup {Never}
      /\ loop' \in {"free", "held"} /\ heldSince' \in Time /\ lives' \in Nat
<1>1. CASE UNCHANGED supervisionVars
  BY <1>1 DEF supervisionVars
<1>2. CASE SupervisionNext
  <2>1. Boot \/ Restart => Rest
    <3>1. Boot => Rest
      BY DEF Boot
    <3>2. Restart => Rest
      BY DEF Restart
    <3>3. QED BY <3>1, <3>2
  <2>2. Dies \/ EndsWithItsParts => Rest
    BY DEF Dies, EndsWithItsParts, Gone
  <2>3. ASSUME NEW p \in Enabled, Starts(p) \/ Succeeds(p) \/ Fails(p)
        PROVE  Rest
    <3>1. Starts(p) => Rest
      <4>1. SUFFICES ASSUME Starts(p) PROVE Rest
        OBVIOUS
      <4>2. task' \in [Parts -> {"off", "starting", "working", "done"}]
        BY <4>1 DEF Starts
      <4>3. success' \in [Parts -> Time]
        BY <4>1 DEF Starts
      <4>4. expected' \subseteq Watched
        BY <4>1 DEF Starts
      <4>5. QED BY <4>1, <4>2, <4>3, <4>4 DEF Starts
    <3>2. Succeeds(p) => Rest
      BY DEF Succeeds, Active
    <3>3. Fails(p) => Rest
      <4>1. 0 \in Time
        OBVIOUS
      <4>2. SUFFICES ASSUME Fails(p) PROVE Rest
        OBVIOUS
      <4>3. success' \in [Parts -> Time]
        BY <4>1, <4>2 DEF Fails
      <4>4. task' \in [Parts -> {"off", "starting", "working", "done"}]
        BY <4>2 DEF Fails
      <4>5. QED BY <4>2, <4>3, <4>4 DEF Fails
    <3>4. QED BY <2>3, <3>1, <3>2, <3>3
  <2>4. Hold \/ Release => Rest
    BY DEF Hold, Release
  <2>5. Beat \/ Tick => Rest
    <3>1. Beat => Rest
      BY DEF Beat
    <3>2. Tick => Rest
      BY DEF Tick
    <3>3. QED BY <3>1, <3>2
  <2>6. Rest
    BY <1>2, <2>1, <2>2, <2>3, <2>4, <2>5 DEF SupervisionNext, PartsStep
  <2>7. unwell' \in Time
    BY <1>2, <2>6 DEF SupervisionNext
  <2>8. QED BY <2>6, <2>7
<1>3. QED BY <1>1, <1>2

LEMMA WatchKept ==
    ASSUME Inv, PartsStep
    PROVE  Watch'
<1> USE DEF Inv, SupervisionTypeOK, Watch, Time, Parts, Watched, Never
<1>1. CASE Boot
  BY <1>1 DEF Boot
<1>2. CASE Dies \/ EndsWithItsParts
  BY <1>2 DEF Dies, EndsWithItsParts, Gone
<1>3. CASE Restart
  BY <1>3 DEF Restart
<1>4. ASSUME NEW p \in Enabled, Starts(p) \/ Succeeds(p) \/ Fails(p)
      PROVE  Watch'
  BY <1>4 DEF Starts, Succeeds, Fails, Active, AllDone
<1>5. CASE Hold \/ Release
  BY <1>5 DEF Hold, Release, AllDone
<1>6. CASE Beat
  BY <1>6 DEF Beat, AllDone
<1>7. CASE Tick
  BY <1>7 DEF Tick, AllDone
<1>8. QED BY <1>1, <1>2, <1>3, <1>4, <1>5, <1>6, <1>7 DEF PartsStep

LEMMA TimesKept ==
    ASSUME Inv, PartsStep
    PROVE  Times'
<1> USE DEF Inv, SupervisionTypeOK, Watch, Times, Time, Parts, Watched, Never
<1>1. CASE Boot
  BY <1>1 DEF Boot
<1>2. CASE Dies \/ EndsWithItsParts
  BY <1>2 DEF Dies, EndsWithItsParts, Gone
<1>3. CASE Restart
  BY <1>3 DEF Restart
<1>4. ASSUME NEW p \in Enabled, Starts(p) \/ Succeeds(p) \/ Fails(p)
      PROVE  Times'
  BY <1>4 DEF Starts, Succeeds, Fails, Active
<1>5. CASE Hold \/ Release
  BY <1>5 DEF Hold, Release
<1>6. CASE Beat
  BY <1>6 DEF Beat, Stale
<1>7. CASE Tick
  BY <1>7 DEF Tick
<1>8. QED BY <1>1, <1>2, <1>3, <1>4, <1>5, <1>6, <1>7 DEF PartsStep

LEMMA RhythmKept ==
    ASSUME Inv, SupervisionNext
    PROVE  Rhythm'
<1> USE DEF Inv, SupervisionTypeOK, Rhythm, Time, Never
<1>1. PartsStep /\ unwell' = IF Wrong' THEN now' ELSE unwell
  BY DEF SupervisionNext
<1>2. (unwell' <= now' /\ (Wrong' => unwell' = now')) /\ now' \in Nat /\ now <= now'
  <2>1. now' \in Nat /\ now <= now'
    BY <1>1 DEF PartsStep, Boot, Dies, EndsWithItsParts, Gone, Restart, Starts, Succeeds, Fails,
                Hold, Release, Beat, Tick
  <2>2. QED BY <1>1, <2>1
<1>3. CASE UNCHANGED <<now, due, touched>>
  BY <1>1, <1>2, <1>3
<1>4. CASE Boot
  BY <1>1, <1>2, <1>4 DEF Boot, Wrong
<1>5. CASE Dies \/ EndsWithItsParts
  BY <1>2, <1>5 DEF Dies, EndsWithItsParts, Gone
<1>6. CASE Beat
  <2>1. CASE AllDone
    BY <2>1, <1>2, <1>6 DEF Beat
  <2>2. CASE ~AllDone /\ Stale = {}
    BY <2>2, <1>1, <1>2, <1>6 DEF Beat
  <2>3. CASE ~AllDone /\ Stale # {}
    <3>1. Wrong
      BY <2>3 DEF Watch, Stale, Silent, Wrong
    <3>2. unwell = now /\ unwell' = now /\ now' = now
      BY <1>1, <1>6, <3>1 DEF Beat
    <3>3. QED BY <1>2, <1>6, <2>3, <3>2 DEF Beat
  <2>4. QED BY <2>1, <2>2, <2>3
<1>7. CASE Tick
  <2>1. UNCHANGED <<due, touched, loop, phase>> /\ now' = now + 1
    BY <1>7 DEF Tick
  <2>2. CASE loop = "held"
    <3>1. Wrong'
      BY <2>1, <2>2 DEF Wrong
    <3>2. QED BY <1>1, <1>2, <2>1, <3>1
  <2>3. CASE loop # "held"
    <3>1. due = Never \/ now < due
      BY <1>7, <2>3 DEF Tick
    <3>2. QED BY <1>1, <1>2, <2>1, <3>1
  <2>4. QED BY <2>2, <2>3
<1>8. QED
  BY <1>1, <1>3, <1>4, <1>5, <1>6, <1>7
  DEF PartsStep, Restart, Starts, Succeeds, Fails, Hold, Release

LEMMA InvAlways == SupervisionSpec => []Inv
<1>1. ASSUME Inv, [SupervisionNext]_supervisionVars
      PROVE  Inv'
  <2>1. SupervisionTypeOK'
    BY <1>1, TypeKept DEF Inv
  <2>2. CASE UNCHANGED supervisionVars
    BY <1>1, <2>1, <2>2
    DEF supervisionVars, Inv, Watch, Times, Rhythm, Wrong, Silent, AllDone
  <2>3. CASE SupervisionNext
    BY <1>1, <2>1, <2>3, WatchKept, TimesKept, RhythmKept DEF SupervisionNext, Inv
  <2>4. QED BY <1>1, <2>2, <2>3
<1>2. QED BY <1>1, InvInit, PTL DEF SupervisionSpec

----------------------------------------------------------------------------
\* The types hold in every state.
THEOREM SupervisionTypes == SupervisionSpec => []SupervisionTypeOK
<1>1. Inv => SupervisionTypeOK
  BY DEF Inv
<1>2. QED BY <1>1, InvAlways, PTL

\* An adapter without success, or a held event loop, shows in the health of the container.
THEOREM SilenceIsSeen == SupervisionSpec => []SilenceShows
<1>1. Inv => SilenceShows
  BY DEF Inv, SupervisionTypeOK, Watch, Times, SilenceShows, Healthy, Time, Parts, Watched, Never
<1>2. QED BY <1>1, InvAlways, PTL

\* Parts that work keep the container healthy, whatever became of the others.
THEOREM WorkKeepsHealthy == SupervisionSpec => []WorkIsHealthy
<1>1. Inv => WorkIsHealthy
  BY DEF Inv, SupervisionTypeOK, Watch, Rhythm, WorkIsHealthy, Healthy, Wrong, Time, Never
<1>2. QED BY <1>1, InvAlways, PTL
=============================================================================
