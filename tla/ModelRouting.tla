---------------------------- MODULE ModelRouting ----------------------------
(***************************************************************************)
(* Which model answers a turn (app/admin/routing.py, app/graph.py): the    *)
(* agent's own, else that of the first rule that matches the message, else *)
(* the default. The table of rules is replaced as a whole; a turn reads it *)
(* with one SELECT for the default and the context sizes and another for   *)
(* the rules.                                                              *)
(***************************************************************************)
EXTENDS Integers, Sequences, FiniteSets

CONSTANTS
    Questions,   \* texts of users
    Models,
    EngineCtx,   \* LLAMA_CTX_SIZE
    Tables       \* the routing tables an administrator may set

NoModel == "none"

\* The first table is there when nothing was ever set. A rule is the set of the messages it
\* matches, by their length or by how they begin, and its model. A size of 0 is none.
ASSUME RoutingAssumption ==
    /\ NoModel \notin Models /\ EngineCtx \in Nat
    /\ \A t \in Tables :
         /\ t.default \in Models \cup {NoModel} /\ t.ctx \in [Models -> Nat]
         /\ t.rules \in Seq([matches : SUBSET Questions, model : Models])

VARIABLES
    table,       \* routing_config and routing_rules
    agentModel   \* agents.model

routingVars == <<table, agentModel>>

NothingSet == [default |-> NoModel, ctx |-> [m \in Models |-> 0], rules |-> <<>>]

RoutingTypeOK == table \in Tables \cup {NothingSet} /\ agentModel \in Models \cup {NoModel}
RoutingInit   == table = NothingSet /\ agentModel = NoModel

SetRouting == table' \in Tables /\ UNCHANGED agentModel
SetModel   == agentModel' \in Models \cup {NoModel} /\ UNCHANGED table

\* select_model.
Matching(rules, text) == {i \in DOMAIN rules : text \in rules[i].matches}
SelectModel(rules, default, text) ==
    IF Matching(rules, text) = {} THEN default
    ELSE rules[CHOOSE i \in Matching(rules, text) :
                 \A j \in Matching(rules, text) : i <= j].model

\* The context a model has: its own size only narrows the one of the engine.
CtxOf(ctx, model) ==
    IF model # NoModel /\ ctx[model] # 0 /\ ctx[model] < EngineCtx THEN ctx[model] ELSE EngineCtx

\* HISTORY_CONTEXT_SHARE.
TokenBudget(size) == (size * 3) \div 4
=============================================================================
