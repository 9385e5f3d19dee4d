------------------------ MODULE ContextWindow_proofs ------------------------
(***************************************************************************)
(* What holds of the window and the summary for every set of texts, every  *)
(* tokenizer and every length of a conversation.                           *)
(***************************************************************************)
EXTENDS ContextWindow, FiniteSetTheorems, WellFoundedInduction, TLAPS

----------------------------------------------------------------------------
\* Least elements, and with them induction: by the least counterexample.

\* Some of the numbers up to n have a least one among them. (The numbers below each of them
\* are subsets of a finite set, of which one has no other inside.)
LEMMA Least ==
    ASSUME NEW n \in Nat, NEW T \in SUBSET (0..n), T # {}
    PROVE  \E x \in T : \A y \in T : x <= y
<1> DEFINE Below(x) == {y \in 0..n : y < x}
           Cuts     == {Below(x) : x \in T}
           R        == StrictSubsetOrdering(0..n)
<1>1. IsFiniteSet(0..n)
  BY FS_Interval
<1>2. FiniteSubsetsOf(0..n) = SUBSET (0..n)
  BY <1>1, FS_FiniteSubsetsOfFinite
<1>3. IsWellFoundedOn(R, SUBSET (0..n))
  BY <1>2, FS_StrictSubsetOrderingWellFounded
<1>4. Cuts \subseteq SUBSET (0..n) /\ Cuts # {}
  OBVIOUS
<1>5. PICK cut \in Cuts : \A other \in Cuts : <<other, cut>> \notin R
  <2> HIDE DEF Cuts, R
  <2> QED BY <1>3, <1>4, WFMin, Zenon
<1>6. PICK x \in T : cut = Below(x)
  OBVIOUS
<1>7. ASSUME NEW y \in T, y < x PROVE FALSE
  <2>1. Below(y) \subseteq Below(x) /\ y \in Below(x) /\ y \notin Below(y)
    BY <1>7
  <2>2. Below(y) \in SUBSET (0..n) /\ Below(x) \in SUBSET (0..n) /\ Below(y) \in Cuts
    OBVIOUS
  <2> HIDE DEF Below, Cuts
  <2>3. <<Below(y), Below(x)>> \in R
    BY <2>1, <2>2 DEF StrictSubsetOrdering
  <2>4. QED BY <1>5, <1>6, <2>2, <2>3
<1>8. QED BY <1>7

----------------------------------------------------------------------------
\* What the messages cost.

\* The sum is defined: its recursion has a solution.
LEMMA SumExists ==
    ASSUME NEW n \in Nat, NEW i \in Nat \ {0}, NEW cost \in [1..n -> Nat]
    PROVE  \E f : f = [k \in 0..n |-> IF k < i THEN 0 ELSE f[k - 1] + cost[k]]
<1> DEFINE Sum(f, m) == f = [k \in 0..m |-> IF k < i THEN 0 ELSE f[k - 1] + cost[k]]
           Missing   == {m \in 0..n : ~\E f : Sum(f, m)}
<1>1. SUFFICES Missing = {}
  <2>1. n \in 0..n
    OBVIOUS
  <2>2. \E f : Sum(f, n)
    BY <1>1, <2>1
  <2>3. QED BY <2>2
<1>2. SUFFICES ASSUME Missing # {} PROVE FALSE
  OBVIOUS
<1>3. PICK m \in Missing : \A other \in Missing : m <= other
  <2> HIDE DEF Sum
  <2> QED BY <1>2, Least
<1>4. m # 0
  <2> DEFINE f == [k \in 0..0 |-> 0]
  <2>1. Sum(f, 0)
    OBVIOUS
  <2>2. QED BY <2>1
<1>5. m - 1 \in 0..n /\ m - 1 \notin Missing
  <2> DEFINE Fails(j) == ~\E f : Sum(f, j)
  <2>1. Missing = {j \in 0..n : Fails(j)}
    OBVIOUS
  <2> HIDE DEF Fails, Missing
  <2>2. m \in 0..n /\ m - 1 \in 0..n
    BY <1>3, <1>4, <2>1
  <2>3. m - 1 \in Missing => m <= m - 1
    BY <1>3
  <2>4. QED BY <2>2, <2>3
<1>6. PICK g : Sum(g, m - 1)
  BY <1>5
<1> DEFINE f == [k \in 0..m |-> IF k < m THEN g[k] ELSE IF m < i THEN 0 ELSE g[m - 1] + cost[m]]
<1>7. ASSUME NEW k \in 0..m PROVE f[k] = IF k < i THEN 0 ELSE f[k - 1] + cost[k]
  <2>1. CASE k < m
    <3>1. f[k] = IF k < i THEN 0 ELSE g[k - 1] + cost[k]
      BY <1>4, <1>6, <2>1
    <3>2. k >= i => k - 1 \in 0..m /\ f[k - 1] = g[k - 1]
      BY <2>1
    <3>3. QED BY <3>1, <3>2
  <2>2. CASE k = m
    BY <1>4, <2>2
  <2>3. QED BY <2>1, <2>2
<1>8. Sum(f, m)
  BY <1>7
<1>9. QED
  <2> HIDE DEF f
  <2> QED BY <1>8

\* The tokens of the end of the conversation from message i on: a number, and one at least
\* for every message.
LEMMA TokensAreCounted ==
    ASSUME NEW msgs \in Seq(Texts), NEW counter \in {Exact, Estimate}, NEW i \in DOMAIN msgs
    PROVE  /\ TokensFrom(msgs, counter, i) \in Nat
           /\ TokensFrom(msgs, counter, i) >= Len(msgs) - i + 1
<1> DEFINE n      == Len(msgs)
           cost   == [k \in 1..n |-> counter[msgs[k]]]
           Sum(f) == f = [k \in 0..n |-> IF k < i THEN 0 ELSE f[k - 1] + counter[msgs[k]]]
           sum    == CHOOSE f : Sum(f)
<1>1. n \in Nat /\ i \in 1..n /\ i \in Nat \ {0} /\ counter \in [Texts -> Nat \ {0}]
  BY WindowAssumption
<1>2. \A k \in 1..n : counter[msgs[k]] \in Nat \ {0}
  BY <1>1
<1>3. cost \in [1..n -> Nat]
  BY <1>2
<1>4. \E f : Sum(f)
  <2>1. PICK f : f = [k \in 0..n |-> IF k < i THEN 0 ELSE f[k - 1] + cost[k]]
    <3> HIDE DEF n, cost
    <3> QED BY <1>1, <1>3, SumExists, Zenon
  <2>2. \A k \in 0..n : k >= i => cost[k] = counter[msgs[k]]
    BY <1>1
  <2> HIDE DEF n, cost
  <2>3. [k \in 0..n |-> IF k < i THEN 0 ELSE f[k - 1] + cost[k]]
          = [k \in 0..n |-> IF k < i THEN 0 ELSE f[k - 1] + counter[msgs[k]]]
    BY <1>1, <2>2
  <2>4. Sum(f)
    BY <2>1, <2>3
  <2>5. QED BY <2>4
<1>5. Sum(sum)
  <2> HIDE DEF Sum
  <2> QED BY <1>4
<1>6. TokensFrom(msgs, counter, i) = sum[n]
  BY DEF TokensFrom
<1>7. ASSUME NEW k \in 0..n
      PROVE  sum[k] = IF k < i THEN 0 ELSE sum[k - 1] + counter[msgs[k]]
  <2> HIDE DEF sum, n
  <2> QED BY <1>5
<1> HIDE DEF sum, n, Sum
<1> DEFINE Counted(k) == sum[k] \in Nat /\ sum[k] >= k - i + 1
           Wrongs     == {k \in 0..n : ~Counted(k)}
<1>8. Wrongs = {}
  <2>1. SUFFICES ASSUME Wrongs # {} PROVE FALSE
    OBVIOUS
  <2>2. PICK k \in Wrongs : \A other \in Wrongs : k <= other
    <3> HIDE DEF Counted
    <3> QED BY <1>1, <2>1, Least
  <2>3. k \in 0..n /\ k \in Int /\ ~Counted(k)
    BY <1>1, <2>2
  <2>4. CASE k < i
    <3>1. sum[k] = 0
      BY <1>7, <2>3, <2>4
    <3>2. QED BY <1>1, <2>3, <2>4, <3>1
  <2>5. CASE k >= i
    <3>1. k - 1 \in 0..n /\ ~(k <= k - 1)
      BY <1>1, <2>3, <2>5
    <3>2. Counted(k - 1)
      <4> HIDE DEF Counted
      <4> QED BY <2>2, <3>1
    <3>3. sum[k] = sum[k - 1] + counter[msgs[k]]
      BY <1>1, <1>7, <2>3, <2>5
    <3>4. counter[msgs[k]] \in Nat \ {0}
      BY <1>1, <1>2, <2>3, <2>5
    <3>5. QED
      <4> DEFINE before == sum[k - 1]
                 now    == counter[msgs[k]]
      <4>1. before \in Nat /\ before >= k - 1 - i + 1 /\ now \in Nat \ {0} /\ sum[k] = before + now
        BY <3>2, <3>3, <3>4
      <4> HIDE DEF before, now
      <4>2. QED BY <1>1, <2>3, <4>1
  <2>6. QED BY <1>1, <2>3, <2>4, <2>5
<1>9. sum[n] \in Nat /\ sum[n] >= n - i + 1
  <2>1. n \in 0..n
    BY <1>1
  <2>2. n \notin Wrongs
    <3> HIDE DEF Wrongs
    <3> QED BY <1>8
  <2>3. QED BY <2>1, <2>2
<1>10. QED BY <1>6, <1>9 DEF n

----------------------------------------------------------------------------
\* The window.

Fits(msgs, counter, room) ==
    {i \in DOMAIN msgs : msgs[i] \in Questions /\ TokensFrom(msgs, counter, i) <= room}

\* It is there, it starts where it may, and there is none that starts before.
LEMMA WindowIsThere ==
    ASSUME NEW msgs \in Seq(Texts), msgs # <<>>, NEW counter, NEW room
    PROVE  /\ WindowStart(msgs, counter, room) \in DOMAIN msgs
           /\ \/ WindowStart(msgs, counter, room) = Len(msgs) /\ Fits(msgs, counter, room) = {}
              \/ WindowStart(msgs, counter, room) \in Fits(msgs, counter, room)
           /\ \A i \in Fits(msgs, counter, room) : WindowStart(msgs, counter, room) <= i
<1> DEFINE fits == Fits(msgs, counter, room)
<1>1. Len(msgs) \in Nat \ {0} /\ DOMAIN msgs = 1..Len(msgs)
  OBVIOUS
<1>2. fits \subseteq DOMAIN msgs
  BY DEF Fits
<1>3. WindowStart(msgs, counter, room) =
        IF fits = {} THEN Len(msgs) ELSE CHOOSE i \in fits : \A j \in fits : i <= j
  BY DEF WindowStart, Fits
<1> HIDE DEF fits
<1>4. CASE fits = {}
  BY <1>1, <1>3, <1>4 DEF fits
<1>5. CASE fits # {}
  <2>1. fits \in SUBSET (0..Len(msgs))
    BY <1>1, <1>2
  <2>2. \E i \in fits : \A j \in fits : i <= j
    BY <1>1, <1>5, <2>1, Least
  <2>3. /\ WindowStart(msgs, counter, room) \in fits
        /\ \A j \in fits : WindowStart(msgs, counter, room) <= j
    BY <1>3, <1>5, <2>2
  <2>4. QED BY <1>2, <2>3 DEF fits
<1>6. QED BY <1>4, <1>5

\* More room, no shorter a window.
LEMMA RoomHelps ==
    ASSUME NEW msgs \in Seq(Texts), msgs # <<>>, NEW counter \in {Exact, Estimate},
           NEW less \in Int, NEW more \in Int, less <= more
    PROVE  WindowStart(msgs, counter, more) <= WindowStart(msgs, counter, less)
<1>1. Fits(msgs, counter, less) \subseteq Fits(msgs, counter, more)
  <2>1. ASSUME NEW i \in DOMAIN msgs, TokensFrom(msgs, counter, i) <= less
        PROVE  TokensFrom(msgs, counter, i) <= more
    <3>1. TokensFrom(msgs, counter, i) \in Nat
      BY TokensAreCounted
    <3>2. QED BY <2>1, <3>1
  <2>2. QED BY <2>1 DEF Fits
<1>2. CASE WindowStart(msgs, counter, less) \in Fits(msgs, counter, less)
  BY <1>1, <1>2, WindowIsThere
<1>3. CASE WindowStart(msgs, counter, less) = Len(msgs)
  <2>1. WindowStart(msgs, counter, more) \in DOMAIN msgs
    BY WindowIsThere
  <2>2. QED BY <1>3, <2>1
<1>4. QED BY <1>2, <1>3, WindowIsThere

\* The model a turn is routed to is one there is, or none.
LEMMA SelectsModels ==
    ASSUME NEW rules \in Seq([matches : SUBSET Questions, model : Models]),
           NEW default \in Models \cup {NoModel}, NEW text
    PROVE  SelectModel(rules, default, text) \in Models \cup {NoModel}
<1> DEFINE matching == Matching(rules, text)
<1>1. Len(rules) \in Nat /\ matching \in SUBSET (0..Len(rules)) /\ matching \subseteq DOMAIN rules
  BY DEF Matching
<1>2. CASE matching = {}
  BY <1>2 DEF SelectModel
<1>3. CASE matching # {}
  <2> DEFINE first == CHOOSE i \in matching : \A j \in matching : i <= j
  <2>1. SelectModel(rules, default, text) = rules[first].model
    BY <1>3 DEF SelectModel
  <2> HIDE DEF matching
  <2>2. \E i \in matching : \A j \in matching : i <= j
    BY <1>1, <1>3, Least
  <2>3. first \in DOMAIN rules
    BY <1>1, <2>2
  <2> HIDE DEF first
  <2> DEFINE Rule == [matches : SUBSET Questions, model : Models]
  <2>4. rules[first] \in [matches : SUBSET Questions, model : Models]
    <3>1. rules \in Seq(Rule)
      OBVIOUS
    <3> HIDE DEF Rule
    <3>2. rules[first] \in Rule
      BY <2>3, <3>1
    <3>3. QED BY <3>2 DEF Rule
  <2>5. rules[first].model \in Models
    BY <2>4
  <2>6. QED BY <2>1, <2>5
<1>4. QED BY <1>2, <1>3

\* The share of a context is a number.
LEMMA BudgetIsNat ==
    ASSUME NEW ctx \in [Models -> Nat], NEW model \in Models \cup {NoModel}
    PROVE  TokenBudget(CtxOf(ctx, model)) \in Nat
<1>1. CtxOf(ctx, model) \in Nat
  BY RoutingAssumption DEF CtxOf
<1>2. QED BY <1>1 DEF TokenBudget

\* A batch told to a summary continues it.
LEMMA BatchContinues ==
    ASSUME NEW c \in Nat, NEW d \in Nat, c <= d, NEW told, told = [k \in 1..c |-> k]
    PROVE  told \o [k \in 1..d - c |-> c + k] = [k \in 1..d |-> k]
<1> DEFINE batch == [k \in 1..d - c |-> c + k]
           all   == [k \in 1..d |-> k]
<1>1. told \in Seq(Nat) /\ Len(told) = c
  OBVIOUS
<1>2. batch \in Seq(Nat) /\ Len(batch) = d - c
  OBVIOUS
<1>3. all \in Seq(Nat) /\ Len(all) = d
  OBVIOUS
<1>4. told \o batch \in Seq(Nat) /\ Len(told \o batch) = d
  <2> HIDE DEF batch
  <2> QED BY <1>1, <1>2
<1>5. ASSUME NEW k \in 1..d PROVE (told \o batch)[k] = all[k]
  <2>1. CASE k <= c
    BY <1>1, <1>2, <2>1
  <2>2. CASE k > c
    <3>1. (told \o batch)[k] = batch[k - c]
      <4> HIDE DEF batch
      <4> QED BY <1>1, <1>2, <2>2
    <3>2. QED BY <2>2, <3>1
  <2>3. QED BY <2>1, <2>2
<1>6. QED
  <2> HIDE DEF batch, all
  <2>1. told \o batch = all
    BY <1>3, <1>4, <1>5
  <2>2. QED BY <2>1 DEF batch, all

----------------------------------------------------------------------------
\* The inductive invariant: what a turn knows at each place.

Before == {"asked", "agent", "config", "routed"}
After  == {"stored", "fold", "send", "default"}

Turn == [at : {"idle"} \cup Before \cup After, text : Questions \cup {""}, retry : BOOLEAN,
         model : Models \cup {NoModel}, default : Models \cup {NoModel},
         ctx : [Models -> Nat], counter : {Exact, Estimate}, start : Nat,
         summary : Summaries, covers : 0..MaxMessages, fold : {"none", "failed", "done"},
         read : [Models -> Nat], replaced : BOOLEAN]

Typed == TypeOK /\ turn \in Turn

\* The question is of a user, ends the conversation once it is stored, and leaves room for
\* itself and the reply.
Asked ==
    /\ turn.at # "idle" => turn.text \in Questions
    /\ turn.at \in Before => Len(messages) + 2 <= MaxMessages
    /\ turn.at \in After => /\ messages # <<>> /\ messages[Len(messages)] = turn.text
                            /\ Len(messages) + 1 <= MaxMessages

\* The sizes are those of one table, unless it was replaced in between.
Routed ==
    /\ turn.at = "config" /\ ~turn.replaced => turn.ctx = table.ctx
    /\ turn.at \in After \cup {"routed"} /\ ~turn.replaced => turn.read = turn.ctx

\* A summary of the oldest messages up to the number that it covers.
Told(sum, upto) ==
    /\ sum.told = [k \in 1..upto |-> k]
    /\ upto <= Len(messages)
    /\ upto = 0 <=> sum.size = 0

Window(size) == WindowStart(messages, turn.counter, Room(turn, size))

\* Where the window is, and how far from the summary.
Cut ==
    /\ turn.at \in Before \cup {"stored", "fold"} => turn.fold = "none"
    /\ turn.at \in {"stored", "fold"} => turn.summary = summary /\ turn.covers = covers
    /\ turn.at = "fold" => /\ turn.start = Window(summary.size)
                           /\ turn.start - 1 - covers >= SummaryBatch
    /\ Sending =>
         /\ turn.start = Window(turn.summary.size)
         /\ turn.fold # "done" => turn.summary = summary /\ turn.covers = covers
         /\ turn.fold = "none" => turn.start - 1 - covers < SummaryBatch
         /\ turn.fold = "done" => /\ Told(turn.summary, turn.covers)
                                  /\ turn.covers = Window(summary.size) - 1

Inv == Typed /\ Asked /\ Routed /\ Told(summary, covers) /\ Cut

LEMMA IdleIsATurn == Idle \in Turn
<1>1. NothingSet.ctx \in [Models -> Nat]
  BY DEF NothingSet
<1>2. NoSummary \in Summaries /\ MaxMessages \in Nat
  BY WindowAssumption DEF NoSummary, Summaries
<1>3. QED BY <1>1, <1>2 DEF Idle, Turn

LEMMA InvInit == Init => Inv
<1> SUFFICES ASSUME Init PROVE Inv
  OBVIOUS
<1>1. Typed
  <2>1. TypeOK
    <3>1. RoutingTypeOK
      BY DEF Init, RoutingInit, RoutingTypeOK
    <3>2. messages \in Seq(Texts) /\ Len(messages) <= MaxMessages /\ covers \in 0..MaxMessages
      BY WindowAssumption DEF Init
    <3>3. Idle \in Turn /\ Idle.start = 0 /\ Idle.at = "idle"
      BY IdleIsATurn DEF Idle
    <3>4. summary \in Summaries
      BY DEF Init, NoSummary, Summaries
    <3>5. QED BY <3>1, <3>2, <3>3, <3>4 DEF Init, TypeOK, Turn, Before, After
  <2>2. QED BY <2>1, IdleIsATurn DEF Init, Typed
<1>2. Told(summary, covers)
  BY DEF Init, Told, NoSummary
<1>3. Asked /\ Routed /\ Cut
  BY DEF Init, Asked, Routed, Cut, Idle, Before, After, Sending
<1>4. QED BY <1>1, <1>2, <1>3 DEF Inv

\* Where there is a conversation, there is a window for every size of a summary.
LEMMA WindowStarts ==
    ASSUME messages \in Seq(Texts), messages # <<>>, turn \in Turn, NEW size \in Nat
    PROVE  Room(turn, size) \in Int /\ Window(size) \in DOMAIN messages
<1>1. Budget(turn) \in Nat
  BY BudgetIsNat DEF Budget, Turn
<1>2. Room(turn, size) \in Int
  BY <1>1, WindowAssumption DEF Room, PrefixCost
<1>3. QED BY <1>2, WindowIsThere DEF Window

\* Before the question is stored a turn only reads.
LEMMA ReadingKeeps ==
    ASSUME Inv, NEW text \in Questions, NEW retry \in BOOLEAN,
           Ask(text, retry) \/ ReadAgent \/ ReadConfig \/ ReadRules
    PROVE  Inv'
<1> USE DEF Inv, Typed
<1>1. UNCHANGED <<routingVars, messages, summary, covers>>
  BY DEF Ask, ReadAgent, ReadConfig, ReadRules, Still, Conversation
<1>2. table.ctx \in [Models -> Nat] /\ table.default \in Models \cup {NoModel}
      /\ table.rules \in Seq([matches : SUBSET Questions, model : Models])
  <2> DEFINE Rule == [matches : SUBSET Questions, model : Models]
  <2>1. CASE table \in Tables
    BY <2>1, RoutingAssumption
  <2>2. CASE table = NothingSet
    <3>1. <<>> \in Seq(Rule)
      <4> HIDE DEF Rule
      <4> QED OBVIOUS
    <3>2. QED BY <2>2, <3>1 DEF NothingSet
  <2>3. QED BY <2>1, <2>2 DEF TypeOK, RoutingTypeOK
<1>3. turn' \in Turn /\ turn'.at \in Before /\ turn'.start \in {0} \cup DOMAIN messages
  <2>1. CASE Ask(text, retry)
    <3>1. Idle \in Turn /\ Idle.start = 0
      BY IdleIsATurn DEF Idle
    <3>2. QED BY <2>1, <3>1 DEF Ask, Turn, Before
  <2>2. CASE ReadAgent
    BY <2>2 DEF ReadAgent, Turn, Before, TypeOK, RoutingTypeOK
  <2>3. CASE ReadConfig
    BY <1>2, <2>3 DEF ReadConfig, Turn, Before, TypeOK
  <2>4. CASE ReadRules
    <3> DEFINE model == IF turn.model # NoModel THEN turn.model
                        ELSE SelectModel(table.rules, turn.default, turn.text)
    <3>1. model \in Models \cup {NoModel}
      BY <1>2, SelectsModels DEF Turn
    <3>2. turn' = [turn EXCEPT !.at = "routed", !.read = table.ctx, !.model = model]
      BY <2>4 DEF ReadRules
    <3> HIDE DEF model
    <3>3. QED BY <1>2, <3>1, <3>2 DEF Turn, Before, TypeOK
  <2>5. QED BY <2>1, <2>2, <2>3, <2>4
<1>4. TypeOK'
  BY <1>1, <1>3 DEF TypeOK, RoutingTypeOK, routingVars, Turn, Before
<1>5. Asked'
  <2>1. turn'.text \in Questions /\ Len(messages) + 2 <= MaxMessages
    <3>1. CASE Ask(text, retry)
      BY <3>1, IdleIsATurn DEF Ask, Turn, Idle
    <3>2. CASE ReadAgent \/ ReadConfig \/ ReadRules
      BY <3>2 DEF ReadAgent, ReadConfig, ReadRules, Asked, Before, Turn
    <3>3. QED BY <3>1, <3>2
  <2>2. QED BY <1>1, <1>3, <2>1 DEF Asked, Before, After
<1>6. Routed'
  <2>1. CASE Ask(text, retry) \/ ReadAgent
    <3>1. turn'.at \in {"asked", "agent"}
      BY <2>1, IdleIsATurn DEF Ask, ReadAgent, Turn
    <3>2. QED BY <3>1 DEF Routed, After
  <2>2. CASE ReadConfig
    BY <1>1, <2>2 DEF ReadConfig, Turn, Routed, After, routingVars
  <2>3. CASE ReadRules
    BY <1>1, <2>3 DEF ReadRules, Turn, Routed, After, routingVars
  <2>4. QED BY <2>1, <2>2, <2>3
<1>7. Cut'
  <2>1. turn'.fold = "none"
    <3>1. CASE Ask(text, retry)
      BY <3>1 DEF Ask, Idle
    <3>2. CASE ReadAgent \/ ReadConfig \/ ReadRules
      BY <3>2 DEF ReadAgent, ReadConfig, ReadRules, Cut, Before, Turn
    <3>3. QED BY <3>1, <3>2
  <2>2. QED BY <1>3, <2>1 DEF Cut, Before, Sending
<1>8. Told(summary, covers)'
  BY <1>1 DEF Told
<1>9. QED BY <1>3, <1>4, <1>5, <1>6, <1>7, <1>8

LEMMA StoreKeeps ==
    ASSUME Inv, Store
    PROVE  Inv'
<1> USE DEF Inv, Typed
<1>1. turn.at = "routed" /\ turn \in Turn /\ turn.text \in Questions
  BY DEF Store, Asked
<1>2. UNCHANGED <<routingVars, summary, covers>> /\ summary \in Summaries /\ covers \in 0..MaxMessages
  BY DEF Store, TypeOK
<1>3. turn' = [turn EXCEPT !.at = "stored", !.summary = summary, !.covers = covers]
  BY DEF Store
<1>4. turn' \in Turn /\ turn'.at = "stored" /\ turn'.text = turn.text
  BY <1>1, <1>2, <1>3 DEF Turn, After
<1>5. /\ messages' \in Seq(Texts) /\ messages' # <<>> /\ messages'[Len(messages')] = turn.text
      /\ Len(messages') \in {Len(messages), Len(messages) + 1}
      /\ turn.start \in DOMAIN messages => turn.start \in DOMAIN messages'
  <2>1. CASE messages' = messages /\ Stored(turn.text)
    BY <2>1 DEF Stored, TypeOK
  <2>2. CASE messages' = Append(messages, turn.text)
    BY <1>1, <2>2 DEF TypeOK, Texts
  <2>3. messages' = IF turn.retry /\ Stored(turn.text) THEN messages ELSE Append(messages, turn.text)
    BY DEF Store
  <2>4. QED BY <2>1, <2>2, <2>3
<1>6. Len(messages) + 2 <= MaxMessages /\ Len(messages) \in Nat /\ MaxMessages \in Nat
  BY <1>1, WindowAssumption DEF Asked, Before, TypeOK
<1>7. TypeOK'
  <2>1. turn'.start \in {0} \cup DOMAIN messages'
    BY <1>1, <1>3, <1>5 DEF TypeOK, Turn
  <2>2. Len(messages') <= MaxMessages
    BY <1>5, <1>6
  <2>3. RoutingTypeOK'
    BY <1>2 DEF TypeOK, RoutingTypeOK, routingVars
  <2>4. messages' \in Seq(Texts)
    BY <1>5
  <2>5. QED BY <1>2, <1>4, <2>1, <2>2, <2>3, <2>4 DEF TypeOK, Turn, Before, After
<1>8. Asked'
  BY <1>1, <1>4, <1>5, <1>6 DEF Asked, Before, After
<1>9. Routed'
  BY <1>1, <1>3, <1>4 DEF Routed, Turn, After
<1>10. Told(summary, covers)'
  BY <1>2, <1>5, <1>6 DEF Told, TypeOK
<1>11. Cut'
  <2>1. turn'.summary = summary /\ turn'.covers = covers /\ turn'.fold = "none"
    BY <1>1, <1>3 DEF Cut, Turn, Before
  <2>2. QED BY <1>2, <1>4, <2>1 DEF Cut, Sending
<1>12. QED BY <1>4, <1>7, <1>8, <1>9, <1>10, <1>11

LEMMA FitKeeps ==
    ASSUME Inv, NEW counter \in {Exact, Estimate}, Fit(counter)
    PROVE  Inv'
<1> USE DEF Inv, Typed
<1> DEFINE start == WindowStart(messages, counter, Room(turn, summary.size))
           where == IF start - 1 > covers /\ start - 1 - covers >= SummaryBatch
                      THEN "fold" ELSE "send"
<1>1. turn.at = "stored" /\ turn \in Turn /\ summary.size \in Nat /\ covers \in Nat
  BY WindowAssumption DEF Fit, TypeOK, Summaries
<1>2. UNCHANGED <<routingVars, messages, summary, covers>>
  BY DEF Fit, Still, Conversation
<1>3. turn' = [turn EXCEPT !.at = where, !.counter = counter, !.start = start]
  BY DEF Fit
<1>4. messages \in Seq(Texts) /\ messages # <<>>
  BY <1>1 DEF TypeOK, Asked, After
<1>5. start \in DOMAIN messages
  <2>1. Room(turn, summary.size) \in Int
    BY <1>1, <1>4, WindowStarts
  <2>2. QED BY <1>4, WindowIsThere
<1>6. where \in {"fold", "send"} /\ start \in Nat
  BY <1>4, <1>5
<1> HIDE DEF where, start
<1>7. turn' \in Turn /\ turn'.at = where /\ turn'.start = start /\ turn'.counter = counter
  BY <1>1, <1>3, <1>6 DEF Turn, After
<1>8. /\ turn'.text = turn.text /\ turn'.ctx = turn.ctx /\ turn'.model = turn.model
      /\ turn'.summary = turn.summary /\ turn'.covers = turn.covers /\ turn'.fold = turn.fold
      /\ turn'.read = turn.read /\ turn'.replaced = turn.replaced
  BY <1>1, <1>3 DEF Turn
<1>9. TypeOK'
  BY <1>2, <1>5, <1>7 DEF TypeOK, RoutingTypeOK, routingVars, Turn, Before, After
<1>10. Asked'
  BY <1>1, <1>2, <1>6, <1>7, <1>8 DEF Asked, Before, After
<1>11. Routed'
  BY <1>1, <1>6, <1>7, <1>8 DEF Routed, After
<1>12. Told(summary, covers)'
  BY <1>2 DEF Told
<1>13. Cut'
  <2>1. turn.summary = summary /\ turn.covers = covers /\ turn.fold = "none"
    BY <1>1 DEF Cut
  <2>2. start = Window(summary.size)'
    BY <1>2, <1>7, <1>8 DEF Window, Room, Budget, start
  <2>3. where = "fold" => start - 1 - covers >= SummaryBatch
    BY DEF where
  <2>4. where = "send" => start - 1 - covers < SummaryBatch
    BY <1>1, <1>6, WindowAssumption DEF where
  <2>5. Window(summary.size)' = Window(turn.summary.size)'
    BY <1>2, <1>8, <2>1
  <2>6. QED BY <1>2, <1>6, <1>7, <1>8, <2>1, <2>2, <2>3, <2>4, <2>5 DEF Cut, Sending
<1>14. QED BY <1>7, <1>9, <1>10, <1>11, <1>12, <1>13

LEMMA FoldKeeps ==
    ASSUME Inv, NEW size \in SummarySizes, Fold(size)
    PROVE  Inv'
<1> USE DEF Inv, Typed
<1> DEFINE dropped == turn.start - 1
           batch   == [k \in 1..dropped - covers |-> covers + k]
           told    == summary.told \o batch
           start   == WindowStart(messages, turn.counter, Room(turn, size))
<1>1. /\ turn.at = "fold" /\ turn \in Turn /\ messages \in Seq(Texts) /\ messages # <<>>
      /\ covers \in Nat /\ Len(messages) \in Nat /\ Len(messages) <= MaxMessages
      /\ size \in Nat \ {0} /\ MaxMessages \in Nat
  BY WindowAssumption DEF Fold, TypeOK, Asked, After
<1>2. UNCHANGED <<routingVars, messages, summary, covers>>
  BY DEF Fold, Still, Conversation
<1>3. turn' = [turn EXCEPT !.at = "send", !.fold = "done",
                 !.summary = [size |-> size, told |-> told], !.covers = dropped, !.start = start]
  BY DEF Fold
<1>4. turn.start = Window(summary.size) /\ dropped - covers >= SummaryBatch
  BY <1>1 DEF Cut
<1>5. start \in DOMAIN messages /\ start \in Nat
  <2>1. Room(turn, size) \in Int
    BY <1>1, WindowStarts
  <2>2. QED BY <1>1, <2>1, WindowIsThere
<1>6. dropped \in Nat /\ covers < dropped /\ dropped < Len(messages)
  <2>1. turn.start \in DOMAIN messages
    BY <1>1, <1>4, WindowStarts, WindowAssumption DEF TypeOK, Summaries
  <2>2. turn.start \in 1..Len(messages) /\ SummaryBatch \in Nat \ {0}
    BY <1>1, <2>1, WindowAssumption
  <2>3. dropped = turn.start - 1
    OBVIOUS
  <2> HIDE DEF dropped
  <2>4. QED BY <1>1, <1>4, <2>2, <2>3
<1> HIDE DEF start, dropped
<1>7. told = [k \in 1..dropped |-> k]
  BY <1>1, <1>6, BatchContinues DEF Told
<1> HIDE DEF told
<1>8. told \in Seq(1..MaxMessages)
  <2>1. \A k \in 1..dropped : k \in 1..MaxMessages
    BY <1>1, <1>6
  <2>2. QED BY <1>6, <1>7, <2>1
<1>9. [size |-> size, told |-> told] \in Summaries /\ dropped \in 0..MaxMessages
  BY <1>1, <1>6, <1>8 DEF Summaries
<1>10. turn' \in Turn /\ turn'.at = "send" /\ turn'.start = start
  BY <1>1, <1>3, <1>5, <1>9 DEF Turn, After
<1>11. /\ turn'.text = turn.text /\ turn'.ctx = turn.ctx /\ turn'.model = turn.model
       /\ turn'.summary = [size |-> size, told |-> told] /\ turn'.covers = dropped
       /\ turn'.counter = turn.counter /\ turn'.fold = "done"
       /\ turn'.read = turn.read /\ turn'.replaced = turn.replaced
  BY <1>1, <1>3 DEF Turn
<1>12. TypeOK'
  BY <1>2, <1>5, <1>10 DEF TypeOK, RoutingTypeOK, routingVars, Turn, Before, After
<1>13. Asked'
  BY <1>1, <1>2, <1>10, <1>11 DEF Asked, Before, After
<1>14. Routed'
  BY <1>1, <1>10, <1>11 DEF Routed, After
<1>15. Told(summary, covers)'
  BY <1>2 DEF Told
<1>16. Cut'
  <2>1. Told(turn.summary, turn.covers)'
    BY <1>1, <1>2, <1>6, <1>7, <1>11 DEF Told
  <2>2. start = Window(turn.summary.size)'
    BY <1>2, <1>11 DEF Window, Room, Budget, start
  <2>3. Window(summary.size)' = Window(summary.size)
    BY <1>2, <1>11 DEF Window, Room, Budget
  <2>4. turn'.covers = Window(summary.size)' - 1
    BY <1>4, <1>11, <2>3 DEF dropped
  <2>5. QED BY <1>10, <1>11, <2>1, <2>2, <2>4 DEF Cut, Before, Sending
<1>17. QED BY <1>10, <1>12, <1>13, <1>14, <1>15, <1>16

\* A summary that cannot be written, and the second attempt, change where the turn is.
LEMMA MovingKeeps ==
    ASSUME Inv, FoldFails \/ FallBack
    PROVE  Inv'
<1> USE DEF Inv, Typed
<1>1. turn \in Turn /\ turn.at \in {"fold", "send"}
  BY DEF FoldFails, FallBack
<1>2. UNCHANGED <<routingVars, messages, summary, covers>>
  BY DEF FoldFails, FallBack, Still, Conversation
<1>3. /\ turn' \in Turn /\ turn'.at \in {"send", "default"}
      /\ turn'.fold = IF turn.at = "fold" THEN "failed" ELSE turn.fold
      /\ turn'.text = turn.text /\ turn'.ctx = turn.ctx /\ turn'.model = turn.model
      /\ turn'.summary = turn.summary /\ turn'.covers = turn.covers
      /\ turn'.counter = turn.counter /\ turn'.start = turn.start
      /\ turn'.read = turn.read /\ turn'.replaced = turn.replaced
  BY <1>1 DEF FoldFails, FallBack, Turn, After
<1>4. TypeOK'
  BY <1>2, <1>3 DEF TypeOK, RoutingTypeOK, routingVars, Turn, Before, After
<1>5. Asked'
  BY <1>1, <1>2, <1>3 DEF Asked, Before, After
<1>6. Routed'
  BY <1>1, <1>3 DEF Routed, After
<1>7. Told(summary, covers)' /\ (Told(turn.summary, turn.covers) => Told(turn.summary, turn.covers)')
  BY <1>2, <1>3 DEF Told
<1>8. Cut'
  <2>1. Window(turn.summary.size)' = Window(turn.summary.size)
        /\ Window(summary.size)' = Window(summary.size)
    BY <1>2, <1>3 DEF Window, Room, Budget
  <2>2. CASE turn.at = "fold"
    <3>1. turn.summary = summary /\ turn.covers = covers /\ turn.start = Window(summary.size)
      BY <2>2 DEF Cut
    <3>2. QED BY <1>2, <1>3, <2>1, <2>2, <3>1 DEF Cut, Before
  <2>3. CASE turn.at = "send"
    BY <1>2, <1>3, <1>7, <2>1, <2>3 DEF Cut, Sending, Before
  <2>4. QED BY <1>1, <2>2, <2>3
<1>9. QED BY <1>3, <1>4, <1>5, <1>6, <1>7, <1>8

\* A turn that ends, with its reply or without.
LEMMA EndingKeeps ==
    ASSUME Inv, (\E text \in Replies : Reply(text)) \/ TurnFails
    PROVE  Inv'
<1> USE DEF Inv, Typed
<1>1. turn' = Idle /\ Idle \in Turn /\ Idle.at = "idle" /\ Idle.start = 0 /\ UNCHANGED routingVars
  BY IdleIsATurn DEF Reply, TurnFails, Still, Idle
<1>2. /\ messages' \in Seq(Texts) /\ Len(messages') <= MaxMessages
      /\ summary' \in Summaries /\ covers' \in 0..MaxMessages /\ Told(summary, covers)'
  <2>1. ASSUME NEW text \in Replies, Reply(text)
        PROVE  /\ messages' \in Seq(Texts) /\ Len(messages') <= MaxMessages
               /\ summary' \in Summaries /\ covers' \in 0..MaxMessages /\ Told(summary, covers)'
    <3>1. /\ Sending /\ turn \in Turn /\ messages' = Append(messages, text)
          /\ summary' = turn.summary /\ covers' = turn.covers
      BY <2>1 DEF Reply, Sending
    <3>2. Len(messages) + 1 <= MaxMessages /\ messages \in Seq(Texts) /\ MaxMessages \in Nat
      BY <3>1, WindowAssumption DEF Asked, After, Sending, TypeOK
    <3>3. Told(turn.summary, turn.covers)
      BY <3>1 DEF Cut, Turn
    <3>4. messages' \in Seq(Texts) /\ Len(messages') = Len(messages) + 1
      BY <3>1, <3>2 DEF Texts
    <3>5. Told(summary, covers)'
      <4>1. turn.covers \in 0..MaxMessages
        BY <3>1 DEF Turn
      <4>2. turn.covers \in Nat /\ Len(messages) \in Nat
        BY <3>2, <4>1
      <4>3. turn.covers <= Len(messages)
        BY <3>3 DEF Told
      <4>4. turn.covers <= Len(messages')
        BY <3>4, <4>2, <4>3
      <4>5. QED BY <3>1, <3>3, <4>4 DEF Told
    <3>6. QED BY <3>1, <3>2, <3>4, <3>5 DEF Turn
  <2>2. CASE TurnFails
    BY <2>2 DEF TurnFails, Still, Conversation, TypeOK, Told
  <2>3. QED BY <2>1, <2>2
<1>3. TypeOK'
  BY <1>1, <1>2 DEF TypeOK, RoutingTypeOK, routingVars, Turn, Before, After
<1>4. Asked' /\ Routed' /\ Cut'
  BY <1>1 DEF Asked, Routed, Cut, Before, After, Sending, Idle
<1>5. QED BY <1>1, <1>2, <1>3, <1>4

LEMMA AdministerKeeps ==
    ASSUME Inv, Administer
    PROVE  Inv'
<1> USE DEF Inv, Typed
<1>1. turn \in Turn /\ UNCHANGED <<messages, summary, covers>>
  BY DEF Administer, Conversation
<1>2. RoutingTypeOK'
  BY DEF Administer, SetRouting, SetModel, TypeOK, RoutingTypeOK
<1>3. turn' = turn \/ turn' = [turn EXCEPT !.replaced = TRUE]
  BY DEF Administer
<1>4. /\ turn' \in Turn /\ turn'.at = turn.at /\ turn'.fold = turn.fold
      /\ turn'.text = turn.text /\ turn'.ctx = turn.ctx /\ turn'.model = turn.model
      /\ turn'.summary = turn.summary /\ turn'.covers = turn.covers
      /\ turn'.counter = turn.counter /\ turn'.start = turn.start /\ turn'.read = turn.read
      /\ turn.replaced => turn'.replaced
  BY <1>1, <1>3 DEF Turn
<1>5. TypeOK'
  BY <1>1, <1>2, <1>4 DEF TypeOK, Turn, Before, After
<1>6. Asked'
  BY <1>1, <1>4 DEF Asked
<1>7. Routed'
  <2>1. turn.at = "config" /\ ~turn'.replaced => table' = table
    BY <1>1 DEF Administer, Turn
  <2>2. QED BY <1>4, <2>1 DEF Routed
<1>8. Told(summary, covers)' /\ (Told(turn.summary, turn.covers) => Told(turn.summary, turn.covers)')
  BY <1>1, <1>4 DEF Told
<1>9. Cut'
  <2>1. Window(turn.summary.size)' = Window(turn.summary.size)
        /\ Window(summary.size)' = Window(summary.size)
    BY <1>1, <1>4 DEF Window, Room, Budget
  <2>2. QED BY <1>1, <1>4, <1>8, <2>1 DEF Cut, Sending
<1>10. QED BY <1>4, <1>5, <1>6, <1>7, <1>8, <1>9

LEMMA InvKept == Inv /\ [Next]_vars => Inv'
<1> SUFFICES ASSUME Inv, [Next]_vars PROVE Inv'
  OBVIOUS
<1>1. CASE Next
  <2>1. ASSUME NEW text \in Questions, Ask(text, FALSE) \/ Ask(text, TRUE)
        PROVE  Inv'
    BY <2>1, ReadingKeeps
  <2>2. ASSUME ReadAgent \/ ReadConfig \/ ReadRules
        PROVE  Inv'
    <3>1. turn.text \in Questions
      BY <2>2 DEF Inv, Asked, ReadAgent, ReadConfig, ReadRules
    <3>2. QED BY <2>2, <3>1, ReadingKeeps
  <2>3. CASE Fit(Exact) \/ Fit(Estimate)
    BY <2>3, FitKeeps
  <2>4. CASE \E size \in SummarySizes : Fold(size)
    BY <2>4, FoldKeeps
  <2>5. QED
    BY <1>1, <2>1, <2>2, <2>3, <2>4, StoreKeeps, MovingKeeps, EndingKeeps, AdministerKeeps DEF Next
<1>2. CASE UNCHANGED vars
  <2>1. /\ messages' = messages /\ summary' = summary /\ covers' = covers /\ turn' = turn
        /\ table' = table /\ agentModel' = agentModel
    BY <1>2 DEF vars, routingVars
  <2>2. TypeOK' /\ (turn \in Turn)'
    BY <2>1 DEF Inv, Typed, TypeOK, RoutingTypeOK
  <2>3. Asked' /\ Routed' /\ Told(summary, covers)' /\ Cut'
    BY <2>1 DEF Inv, Asked, Routed, Told, Cut, Window, Sending
  <2>4. QED BY <2>2, <2>3 DEF Inv, Typed
<1>3. QED BY <1>1, <1>2

\* Where a turn stands, with what it has read, routed and folded (run_turn, call_llm), at every moment.
THEOREM InvHolds == Spec => []Inv
BY InvInit, InvKept, PTL DEF Spec

----------------------------------------------------------------------------
\* What follows from the invariant.

LEMMA PastFollows == Inv => SummaryIsThePast
BY DEF Inv, Told, SummaryIsThePast

LEMMA SizeIsNat ==
    ASSUME NEW sum \in Summaries
    PROVE  sum.size \in Nat
<1> DEFINE size == sum.size
<1>1. size \in SummarySizes \cup {0}
  BY DEF Summaries
<1>2. SummarySizes \subseteq Nat
  BY WindowAssumption
<1> HIDE DEF size
<1>3. size \in Nat
  BY <1>1, <1>2
<1>4. QED BY <1>3 DEF size

LEMMA WhenSending ==
    ASSUME Inv, Sending
    PROVE  /\ turn \in Turn /\ messages \in Seq(Texts) /\ messages # <<>>
           /\ turn.summary.size \in Nat /\ summary.size \in Nat
           /\ turn.counter \in {Exact, Estimate} /\ turn.start \in Nat
           /\ turn.covers \in 0..MaxMessages
           /\ messages[Len(messages)] = turn.text /\ turn.text \in Questions
           /\ Budget(turn) \in Nat
<1>1. turn \in Turn /\ messages \in Seq(Texts) /\ summary \in Summaries
  BY DEF Inv, Typed, TypeOK
<1>2. /\ turn.summary \in Summaries /\ turn.counter \in {Exact, Estimate} /\ turn.start \in Nat
      /\ turn.covers \in 0..MaxMessages
      /\ turn.ctx \in [Models -> Nat] /\ turn.model \in Models \cup {NoModel}
  BY <1>1 DEF Turn
<1>3. messages # <<>> /\ messages[Len(messages)] = turn.text /\ turn.text \in Questions
  BY DEF Inv, Asked, After, Sending
<1>4. Budget(turn) \in Nat
  BY <1>2, BudgetIsNat DEF Budget
<1>5. QED BY <1>1, <1>2, <1>3, <1>4, SizeIsNat

\* The window moves back towards the summary as the summary gets shorter, and starts right
\* behind it for the size the summary had when it was told the messages.
LEMMA FewFollow == Inv => FewAreForgotten
<1> SUFFICES ASSUME Inv, Sending, turn.start - 1 - turn.covers >= SummaryBatch, turn.fold # "failed"
             PROVE  turn.fold = "done" /\ turn.summary.size > summary.size
  BY DEF FewAreForgotten
<1>1. /\ turn \in Turn /\ messages \in Seq(Texts) /\ messages # <<>>
      /\ turn.summary.size \in Nat /\ summary.size \in Nat
      /\ SummaryBatch \in Nat \ {0} /\ turn.counter \in {Exact, Estimate}
  BY WhenSending, WindowAssumption
<1>2. turn.start \in Int /\ turn.covers \in Int
  <2>1. turn.start \in Nat /\ turn.covers \in 0..MaxMessages
    BY WhenSending
  <2>2. QED BY <2>1, WindowAssumption
<1>3. turn.fold = "done"
  <2>1. turn.fold \in {"none", "failed", "done"}
    BY <1>1 DEF Turn
  <2>2. turn.fold # "none"
    BY <1>1, <1>2 DEF Inv, Cut
  <2>3. QED BY <2>1, <2>2
<1>4. turn.start = Window(turn.summary.size) /\ turn.covers = Window(summary.size) - 1
  BY <1>3 DEF Inv, Cut
<1>5. ~(Window(turn.summary.size) <= Window(summary.size))
  <2>1. Window(summary.size) \in DOMAIN messages /\ Window(turn.summary.size) \in DOMAIN messages
    BY <1>1, WindowStarts
  <2>2. Window(summary.size) \in Int /\ Window(turn.summary.size) \in Int
    BY <1>1, <2>1
  <2> HIDE DEF Window
  <2>3. QED BY <1>1, <1>4, <2>2
<1>6. /\ Room(turn, summary.size) \in Int /\ Room(turn, turn.summary.size) \in Int
      /\ ~(Room(turn, summary.size) <= Room(turn, turn.summary.size))
  BY <1>1, <1>5, RoomHelps, WindowStarts DEF Window
<1>7. Budget(turn) \in Nat
  BY WhenSending
<1>8. turn.summary.size > summary.size
  <2>1. PromptSize \in Int /\ turn.summary.size \in Int /\ summary.size \in Int /\ Budget(turn) \in Int
    BY <1>1, <1>7, WindowAssumption
  <2> HIDE DEF Budget
  <2>2. QED BY <1>6, <2>1 DEF Room, PrefixCost
<1>9. QED BY <1>3, <1>8

\* With so little room that only one token is allowed, two messages do not fit.
LEMMA PromptFollows == Inv => PromptIsSound
<1> SUFFICES ASSUME Inv, Sending PROVE PromptIsSound
  BY DEF PromptIsSound
<1> DEFINE size == turn.summary.size
           cost == TokensFrom(messages, turn.counter, turn.start)
<1>1. /\ turn \in Turn /\ messages \in Seq(Texts) /\ messages # <<>> /\ size \in Nat
      /\ turn.counter \in {Exact, Estimate} /\ messages[Len(messages)] = turn.text
      /\ turn.text \in Questions /\ Budget(turn) \in Nat
  BY WhenSending
<1>2. turn.start = WindowStart(messages, turn.counter, Room(turn, size))
  BY DEF Inv, Cut, Window
<1>3. /\ turn.start \in DOMAIN messages
      /\ turn.start = Len(messages) \/ turn.start \in Fits(messages, turn.counter, Room(turn, size))
  BY <1>1, <1>2, WindowIsThere
<1>4. messages[turn.start] \in Questions
  BY <1>1, <1>3 DEF Fits
<1>5. ASSUME turn.start # Len(messages), ~turn.replaced
      PROVE  PrefixCost(size) + cost <= TokenBudget(CtxOf(turn.read, turn.model))
  <2>1. cost \in Nat /\ cost >= Len(messages) - turn.start + 1
    BY <1>1, <1>3, TokensAreCounted
  <2>2. cost >= 2
    <3> HIDE DEF cost
    <3>1. Len(messages) \in Nat /\ turn.start \in 1..Len(messages)
      BY <1>1, <1>3
    <3>2. QED BY <1>5, <2>1, <3>1
  <2>3. cost <= Room(turn, size)
    BY <1>3, <1>5 DEF Fits
  <2>4. Budget(turn) \in Nat /\ PrefixCost(size) \in Nat
    <3> HIDE DEF size
    <3> QED BY <1>1, WindowAssumption DEF PrefixCost
  <2>5. cost <= Budget(turn) - PrefixCost(size)
    <3> HIDE DEF cost, size
    <3> QED BY <2>1, <2>2, <2>3, <2>4 DEF Room
  <2>6. Budget(turn) = TokenBudget(CtxOf(turn.read, turn.model))
    BY <1>5 DEF Inv, Routed, Sending, After, Budget
  <2> HIDE DEF cost, size
  <2>7. QED BY <2>1, <2>4, <2>5, <2>6
<1>6. QED BY <1>1, <1>3, <1>4, <1>5 DEF PromptIsSound

----------------------------------------------------------------------------
\* Type correctness, of run_turn and call_llm.
THEOREM WindowTypes == Spec => []TypeOK
<1>1. Inv => TypeOK
  BY DEF Inv, Typed
<1>2. QED BY <1>1, InvHolds, PTL

\* The summary stands for the oldest messages, each told to it once and in order, whatever
\* failed on the way (call_llm, _summarize).
THEOREM SummariesTellThePast == Spec => []SummaryIsThePast
BY InvHolds, PastFollows, PTL

\* Less than a batch of messages is in neither the summary nor the window, but for a summary
\* that failed or has grown (call_llm).
THEOREM FewFallBetween == Spec => []FewAreForgotten
BY InvHolds, FewFollow, PTL

\* What is sent ends with the question, starts on a message of the user and fits the context
\* the model has in the table that was read (call_llm, window_messages, get_routing).
THEOREM PromptsFit == Spec => []PromptIsSound
BY InvHolds, PromptFollows, PTL
=============================================================================
