---------------------------- MODULE ContextWindow ----------------------------
(***************************************************************************)
(* What a turn sends to the model (app/graph.py): the most recent messages *)
(* that fit the model's context, behind a running summary of those that    *)
(* fell out of this window. The messages of a conversation all stay in its *)
(* checkpoint; the summary is written by the model itself, and that call   *)
(* may fail.                                                               *)
(*                                                                         *)
(* One conversation, whose turns come one after the other; each may fail   *)
(* at any call, or end with its process, and be tried again.               *)
(***************************************************************************)
EXTENDS ModelRouting

CONSTANTS
    Replies,      \* texts of the model
    Exact,        \* the tokens of a text, by the server's tokenizer
    Estimate,     \* and by the estimate
    PromptSize,   \* those of the agent's system prompt
    SummarySizes, \* those a summary may have
    SummaryBatch, \* SUMMARY_BATCH
    MaxMessages   \* bound on the conversation

Texts == Questions \cup Replies

ASSUME WindowAssumption ==
    /\ Questions \cap Replies = {}
    /\ Exact \in [Texts -> Nat \ {0}] /\ Estimate \in [Texts -> Nat \ {0}]
    /\ PromptSize \in Nat /\ SummarySizes \subseteq Nat \ {0}
    /\ SummaryBatch \in Nat \ {0} /\ MaxMessages \in Nat

VARIABLES
    messages,   \* the conversation in its checkpoint
    summary,    \* its summary: the size, 0 for none, and the messages told to it, in order
    covers,     \* summary_covers
    turn        \* the turn under way

vars == <<routingVars, messages, summary, covers, turn>>

NoSummary == [size |-> 0, told |-> <<>>]
Summaries == [size : SummarySizes \cup {0}, told : Seq(1..MaxMessages)]

\* start is the first message of the window. History: read is the context sizes of the table
\* when its rules were read, replaced says that the table was replaced while it was read.
Idle == [at |-> "idle", text |-> "", retry |-> FALSE, model |-> NoModel, default |-> NoModel,
         ctx |-> NothingSet.ctx, counter |-> Exact, start |-> 0,
         summary |-> NoSummary, covers |-> 0, fold |-> "none",
         read |-> NothingSet.ctx, replaced |-> FALSE]

TypeOK ==
    /\ RoutingTypeOK
    /\ messages \in Seq(Texts) /\ Len(messages) <= MaxMessages
    /\ summary \in Summaries /\ covers \in 0..MaxMessages
    /\ turn.at \in {"idle", "asked", "agent", "config", "routed", "stored", "fold", "send", "default"}
    /\ turn.model \in Models \cup {NoModel} /\ turn.default \in Models \cup {NoModel}
    /\ turn.counter \in {Exact, Estimate} /\ turn.start \in {0} \cup DOMAIN messages
    /\ turn.summary \in Summaries /\ turn.covers \in 0..MaxMessages
    /\ turn.fold \in {"none", "failed", "done"}

Init == RoutingInit /\ messages = <<>> /\ summary = NoSummary /\ covers = 0 /\ turn = Idle

----------------------------------------------------------------------------
\* The window.

TokensFrom(msgs, counter, i) ==
    LET sum[k \in 0..Len(msgs)] == IF k < i THEN 0 ELSE sum[k - 1] + counter[msgs[k]]
    IN  sum[Len(msgs)]

\* _prefix and its cost, always an estimate.
PrefixCost(size) == PromptSize + size

Budget(t)     == TokenBudget(CtxOf(t.ctx, t.model))
Room(t, size) ==
    IF Budget(t) - PrefixCost(size) > 1 THEN Budget(t) - PrefixCost(size) ELSE 1

BugWindowStart(msgs, counter, room) ==
    LET fits == {i \in DOMAIN msgs :
                   msgs[i] \in Questions /\ TokensFrom(msgs, counter, i) <= room}
    IN  IF fits = {} THEN Len(msgs) + 1 ELSE CHOOSE i \in fits : \A j \in fits : i <= j
\* window_messages: the longest end of the conversation that fits and starts on a message of
\* the user, else the last message alone.
WindowStart(msgs, counter, room) ==
    LET fits == {i \in DOMAIN msgs :
                   msgs[i] \in Questions /\ TokensFrom(msgs, counter, i) <= room}
    IN  IF fits = {} THEN Len(msgs) ELSE CHOOSE i \in fits : \A j \in fits : i <= j

----------------------------------------------------------------------------
\* run_turn.

Conversation == <<messages, summary, covers>>
Still        == UNCHANGED <<routingVars, Conversation>>

\* A message comes in; retry, if it is the one of a turn that failed.
Ask(text, retry) ==
    /\ turn.at = "idle" /\ Len(messages) + 2 <= MaxMessages
    /\ turn' = [Idle EXCEPT !.at = "asked", !.text = text, !.retry = retry]
    /\ Still

\* The agent, then what the routing table says: three readings.
ReadAgent ==
    /\ turn.at = "asked"
    /\ turn' = [turn EXCEPT !.at = "agent", !.model = agentModel]
    /\ Still
ReadConfig ==
    /\ turn.at = "agent"
    /\ turn' = [turn EXCEPT !.at = "config", !.default = table.default, !.ctx = table.ctx]
    /\ Still
ReadRules ==
    /\ turn.at = "config"
    /\ turn' = [turn EXCEPT !.at = "routed", !.read = table.ctx,
         !.model = IF turn.model # NoModel THEN turn.model
                   ELSE SelectModel(table.rules, turn.default, turn.text)]
    /\ Still

\* The question is stored, unless a failed turn has left it there.
Stored(text) == messages # <<>> /\ messages[Len(messages)] = text
Store ==
    /\ turn.at = "routed"
    /\ messages' = IF turn.retry /\ Stored(turn.text) THEN messages ELSE Append(messages, turn.text)
    /\ turn' = [turn EXCEPT !.at = "stored", !.summary = summary, !.covers = covers]
    /\ UNCHANGED <<routingVars, summary, covers>>

BugFit(counter) ==
    LET start   == WindowStart(messages, counter, Room(turn, summary.size))
        dropped == start - 1
    IN  /\ turn.at = "stored"
        /\ turn' = [turn EXCEPT
             !.at = IF dropped > covers /\ dropped - covers > SummaryBatch THEN "fold" ELSE "send",
             !.counter = counter, !.start = start]
        /\ Still
\* call_llm: the window, and whether enough has fallen out of it. The tokenizer of the
\* server answers or does not.
Fit(counter) ==
    LET start   == WindowStart(messages, counter, Room(turn, summary.size))
        dropped == start - 1
    IN  /\ turn.at = "stored"
        /\ turn' = [turn EXCEPT
             !.at = IF dropped > covers /\ dropped - covers >= SummaryBatch
                      THEN "fold" ELSE "send",
             !.counter = counter, !.start = start]
        /\ Still

BugFold(size) ==
    LET dropped == turn.start - 1
        batch   == [k \in 1..dropped - covers |-> covers + k]
    IN  /\ turn.at = "fold"
        /\ turn' = [turn EXCEPT !.at = "send", !.fold = "done",
             !.summary = [size |-> size, told |-> summary.told \o batch], !.covers = dropped]
        /\ Still
\* _summarize: the messages between the summary and the window are told to it, and the
\* window is fitted again beside the new one.
Fold(size) ==
    LET dropped == turn.start - 1
        batch   == [k \in 1..dropped - covers |-> covers + k]
    IN  /\ turn.at = "fold"
        /\ turn' = [turn EXCEPT !.at = "send", !.fold = "done",
             !.summary = [size |-> size, told |-> summary.told \o batch], !.covers = dropped,
             !.start = WindowStart(messages, turn.counter, Room(turn, size))]
        /\ Still
BugFoldFails ==
    /\ turn.at = "fold"
    /\ turn' = [turn EXCEPT !.at = "send", !.fold = "failed", !.covers = turn.start - 1]
    /\ Still
FoldFails ==
    /\ turn.at = "fold"
    /\ turn' = [turn EXCEPT !.at = "send", !.fold = "failed"]
    /\ Still

\* _chat_with_fallback: a model the engine does not have is replaced once by the default.
FallBack ==
    /\ turn.at = "send"
    /\ turn.model # NoModel /\ turn.default # NoModel /\ turn.model # turn.default
    /\ turn' = [turn EXCEPT !.at = "default"]
    /\ Still

\* The reply and the summary are stored together.
Reply(text) ==
    /\ turn.at \in {"send", "default"}
    /\ messages' = Append(messages, text)
    /\ summary' = turn.summary /\ covers' = turn.covers
    /\ turn' = Idle
    /\ UNCHANGED routingVars

\* Any call fails, or the process ends: what is stored stays.
TurnFails == turn.at # "idle" /\ turn' = Idle /\ Still

\* The administrator, meanwhile.
Administer ==
    /\ SetRouting \/ SetModel
    /\ turn' = IF table' # table /\ turn.at = "config" THEN [turn EXCEPT !.replaced = TRUE] ELSE turn
    /\ UNCHANGED Conversation

Next ==
    \/ \E text \in Questions : Ask(text, FALSE) \/ (Stored(text) /\ Ask(text, TRUE))
    \/ ReadAgent \/ ReadConfig \/ ReadRules \/ Store
    \/ Fit(Exact) \/ Fit(Estimate)
    \/ (\E size \in SummarySizes : Fold(size)) \/ FoldFails
    \/ FallBack \/ (\E text \in Replies : Reply(text)) \/ TurnFails
    \/ Administer

Spec == Init /\ [][Next]_vars

----------------------------------------------------------------------------
Sending == turn.at \in {"send", "default"}

\* The summary stands for the oldest messages, each told to it once and in order, whatever
\* failed on the way (#86): a turn that fails leaves no message told twice or counted untold.
SummaryIsThePast ==
    /\ summary.told = [k \in 1..covers |-> k]
    /\ covers <= Len(messages)
    /\ covers = 0 <=> summary.size = 0

\* What the model is sent leaves out less than a batch of messages between the summary and
\* the window, unless the summary could not be written this time, or has grown and takes
\* their room.
FewAreForgotten ==
    Sending /\ turn.start - 1 - turn.covers >= SummaryBatch =>
        turn.fold = "failed" \/ (turn.fold = "done" /\ turn.summary.size > summary.size)

\* What is sent ends with the question, starts on a message of the user and fits the share
\* of the context that the model asked for has in the table (#47, #105), unless the table was
\* replaced while the turn read it; only the question alone is sent without fitting.
PromptIsSound ==
    Sending =>
        /\ turn.start \in DOMAIN messages /\ messages[turn.start] \in Questions
        /\ messages[Len(messages)] = turn.text
        /\ turn.start = Len(messages)
           \/ turn.replaced
           \/ PrefixCost(turn.summary.size) + TokensFrom(messages, turn.counter, turn.start)
                <= TokenBudget(CtxOf(turn.read, turn.model))
=============================================================================
