---------------------------- MODULE AttemptLimit ----------------------------
(***************************************************************************)
(* The failed-attempt limiter of the Admin API (app/api/deps.py): a table  *)
(* in memory of the wrong keys each source address has sent, and 429 for   *)
(* an address with too many of them inside a window.                       *)
(*                                                                         *)
(* Times are kept as ages, in whole units, so that no clock is needed, and *)
(* only how many failures there are of each age: the deque of an address   *)
(* is counted and shortened at its old end, nothing else.                  *)
(***************************************************************************)
EXTENDS Integers, Sequences, SequencesExt

CONSTANTS
    Addresses,
    FailureLimit,   \* FAILURE_LIMIT
    Window,         \* FAILURE_WINDOW_SECONDS
    MaxTracked,     \* MAX_TRACKED_ADDRESSES
    MaxGuesses      \* bound on the wrong keys inside a window, per address

ASSUME LimitAssumption ==
    /\ FailureLimit \in Nat \ {0} /\ Window \in Nat
    /\ MaxTracked \in Nat \ {0} /\ MaxGuesses \in Nat

VARIABLES
    tracked,    \* the keys of _failures, in the order they were put in
    failures,   \* of each address: how many of the failures kept are at most so old
    \* history
    guesses,    \* how many of the wrong keys looked at
    evictions   \* how many of the losses of an address's failures

limitVars == <<tracked, failures, guesses, evictions>>

\* Counts are cumulative: entry g is for whatever is at most g old, the last of all is for
\* everything kept.
Inside == 0..Window
Ages   == 0..Window + 1
None   == [g \in Ages |-> 0]
More(counts) == [g \in Ages |-> counts[g] + 1]

LimitTypeOK ==
    /\ tracked \in Seq(Addresses) /\ IsInjective(tracked) /\ Len(tracked) <= MaxTracked
    /\ failures \in [Addresses -> [Ages -> Nat]]
    /\ \A a \in Addresses : failures[a] # None <=> a \in ToSet(tracked)
    /\ guesses \in [Addresses -> [Ages -> Nat]] /\ evictions \in [Addresses -> [Ages -> Nat]]

Nothing   == [a \in Addresses |-> None]
LimitInit == tracked = <<>> /\ failures = Nothing /\ guesses = Nothing /\ evictions = Nothing

\* _recent_failures: what is left of the failures of an address, which loses its place in
\* the table with the last of them.
Recent(a) == [failures[a] EXCEPT ![Window + 1] = failures[a][Window]]
BugBlocked(a) == failures[a][Window] > FailureLimit
Blocked(a) == failures[a][Window] >= FailureLimit
Without(a) == RemoveAt(tracked, CHOOSE i \in DOMAIN tracked : tracked[i] = a)
Kept(a) ==
    IF failures[a][Window] = 0 /\ a \in ToSet(tracked) THEN Without(a) ELSE tracked

\* verify_api_key, with the right key or for a blocked address: the table is only looked at.
LookUp(a) ==
    /\ failures' = [failures EXCEPT ![a] = Recent(a)]
    /\ tracked' = Kept(a)
    /\ UNCHANGED <<guesses, evictions>>

\* _record_failure: a wrong key of an address that is not blocked. The address keeps its
\* place or takes the last, and the first in line makes room.
WrongKey(a) ==
    LET line  == IF failures[a][Window] = 0 THEN Append(Kept(a), a) ELSE tracked
        full  == Len(line) > MaxTracked
        after == [failures EXCEPT ![a] = More(Recent(a))]
    IN  /\ guesses[a][Window] < MaxGuesses
        /\ ~Blocked(a)
        /\ tracked' = IF full THEN Tail(line) ELSE line
        /\ failures' = IF full THEN [after EXCEPT ![Head(line)] = None] ELSE after
        /\ guesses' = [guesses EXCEPT ![a] = More(@)]
        /\ evictions' = IF full THEN [evictions EXCEPT ![Head(line)] = More(@)] ELSE evictions

\* A restart clears the table.
Forget ==
    /\ tracked' = <<>> /\ failures' = Nothing
    /\ evictions' = [a \in Addresses |->
                       IF failures[a] = None THEN evictions[a] ELSE More(evictions[a])]
    /\ UNCHANGED guesses

\* Time goes on. The table is cleaned when it is looked at, the history at once.
Older(counts) ==
    [g \in Ages |-> CASE g = 0 -> 0 [] g \in Inside \ {0} -> counts[g - 1] [] OTHER -> counts[g]]
Clean(counts) == [counts EXCEPT ![Window + 1] = counts[Window]]
TimePasses ==
    /\ failures' = [a \in Addresses |-> Older(failures[a])]
    /\ guesses' = [a \in Addresses |-> Clean(Older(guesses[a]))]
    /\ evictions' = [a \in Addresses |-> Clean(Older(evictions[a]))]
    /\ UNCHANGED tracked

----------------------------------------------------------------------------
\* An address has at most the limit of wrong keys looked at in any window, and as many again
\* each time the table lost its failures, to a full table or to a restart (#58). And it is
\* shut out for its own failures only: there are that many of them, and no old one.
GuessesAreLimited ==
    \A a \in Addresses :
        /\ guesses[a][Window] <= FailureLimit * (1 + evictions[a][Window])
        /\ Blocked(a) => guesses[a][Window] >= FailureLimit
=============================================================================
