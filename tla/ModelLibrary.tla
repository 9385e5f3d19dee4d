---------------------------- MODULE ModelLibrary ----------------------------
(***************************************************************************)
(* What the models directory promises to whoever uses it: under each name  *)
(* there is nothing or one whole file, the one that was ordered. An order  *)
(* is met in one step or given up without a trace, and replaces a model    *)
(* only if it was told to.                                                 *)
(***************************************************************************)
CONSTANTS Names, InUse, Files, Clients

VARIABLES
    shelf,  \* the file by name
    open    \* the orders that are neither met nor given up

vars == <<shelf, open>>

Order == [by : Clients, file : Files, name : Names, force : BOOLEAN]

Init == shelf = [n \in {} |-> n] /\ open = {}

Wanted(o) == o.force \/ o.name \notin DOMAIN shelf

\* A client has one order at a time.
Place(o) ==
    /\ Wanted(o) /\ \A p \in open : p.by # o.by
    /\ open' = open \cup {o}
    /\ UNCHANGED shelf

Meet(o) ==
    /\ o \in open /\ Wanted(o)
    /\ shelf' = [n \in DOMAIN shelf \cup {o.name} |-> IF n = o.name THEN o.file ELSE shelf[n]]
    /\ open' = open \ {o}

\* A failure or a cancellation of one, the end of the process for all.
GiveUp(some) == open' = open \ some /\ UNCHANGED shelf

Delete(n) ==
    /\ n \in DOMAIN shelf \ InUse
    /\ shelf' = [m \in DOMAIN shelf \ {n} |-> shelf[m]]
    /\ UNCHANGED open

Next ==
    \/ \E o \in Order : Place(o) \/ Meet(o)
    \/ \E o \in open : GiveUp({o})
    \/ GiveUp(open)
    \/ \E n \in Names : Delete(n)

Spec == Init /\ [][Next]_vars
=============================================================================
