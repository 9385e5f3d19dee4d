----------------------------- MODULE AuditTrail -----------------------------
(***************************************************************************)
(* The per-user, per-agent audit trail (table action_logs) as the event    *)
(* pipeline uses it: entries are appended in id order, only the status of  *)
(* an outbound entry changes afterwards, and a retry reads back from it    *)
(* the answer that was generated but not delivered.                        *)
(*                                                                         *)
(* An entry keeps the mail it was written for in a field of its own: the   *)
(* table has no such column (find_undelivered_answer has to go by text),   *)
(* the field is there for the properties to tell what the text stands for. *)
(***************************************************************************)
EXTENDS Naturals, Sequences, FiniteSets

\* The row of action_logs that an inbound message leaves.
Inbound(user, agent, mail, text, status) ==
    [dir |-> "in", user |-> user, agent |-> agent, mail |-> mail, text |-> text,
     answer |-> FALSE, status |-> status]

\* The row of an outbound text: an answer of the model, or the fixed note that
\* a failed turn leaves (text then stands for nothing the user wrote).
Outbound(user, agent, mail, text, answer, status) ==
    [dir |-> "out", user |-> user, agent |-> agent, mail |-> mail, text |-> text,
     answer |-> answer, status |-> status]

\* ids of the entries of one direction for a (user, agent) pair; one channel.
Entries(log, dir, user, agent) ==
    {i \in DOMAIN log : log[i].dir = dir /\ log[i].user = user /\ log[i].agent = agent}

\* The newest `lookback` inbound entries (ORDER BY id DESC LIMIT).
Recent(log, user, agent, lookback) ==
    LET inbound == Entries(log, "in", user, agent)
    IN  {i \in inbound : Cardinality({j \in inbound : j > i}) < lookback}

\* Is i the newest of them with this very text?
IsNewestInbound(log, user, agent, text, lookback, i) ==
    LET same == {j \in Recent(log, user, agent, lookback) : log[j].text = text}
    IN  i \in same /\ \A j \in same : j <= i

\* Is k the first outbound entry after i?
IsFirstOutboundAfter(log, user, agent, i, k) ==
    LET outbound == Entries(log, "out", user, agent)
    IN  /\ k \in outbound /\ i < k
        /\ \A j \in outbound : i < j => k <= j

BugAnyOutboundAfter(log, user, agent, text, lookback) ==
    {k \in DOMAIN log :
        /\ log[k].dir = "out" /\ log[k].user = user /\ log[k].agent = agent
        /\ \E i \in DOMAIN log :
              i < k /\ IsNewestInbound(log, user, agent, text, lookback, i)
        /\ log[k].answer}

\* find_undelivered_answer: the entry found, as a set of at most one index.
UndeliveredAnswer(log, user, agent, text, lookback) ==
    {k \in DOMAIN log :
        /\ \E i \in DOMAIN log :
              /\ IsNewestInbound(log, user, agent, text, lookback, i)
              /\ IsFirstOutboundAfter(log, user, agent, i, k)
        /\ log[k].status = "failed"
        /\ log[k].answer}
=============================================================================
