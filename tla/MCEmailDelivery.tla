-------------------------- MODULE MCEmailDelivery --------------------------
(***************************************************************************)
(* Instances of EmailDelivery for TLC: one user with two addresses, and a  *)
(* mail of each sort to choose the arrivals from. A .cfg says how often    *)
(* each fault happens.                                                     *)
(***************************************************************************)
EXTENDS EmailDelivery

CONSTANTS crash, db, model, smtp, lost, imap, admin, human

MCBudget == [f \in Faults |->
    CASE f = "crash" -> crash [] f = "db" -> db [] f = "model" -> model
      [] f = "smtp" -> smtp [] f = "lost" -> lost [] f = "imap" -> imap
      [] f = "admin" -> admin [] f = "human" -> human]

\* The sort, sender and text of every mail that may arrive.
Catalogue == <<[kind |-> "message",   from |-> "home", text |-> "t1"],
               [kind |-> "ordinary",  from |-> "home", text |-> "t1"],
               [kind |-> "automated", from |-> "home", text |-> "t1"],
               [kind |-> "message",   from |-> "work", text |-> "t1"],
               [kind |-> "blank",     from |-> "home", text |-> "t1"],
               [kind |-> "message",   from |-> "home", text |-> "t2"]>>

MCKind   == [m \in Mails |-> Catalogue[m].kind]
MCSender == [m \in Mails |-> Catalogue[m].from]
MCText   == [m \in Mails |-> Catalogue[m].text]
MCOwner  == [a \in Addresses |-> "ann"]

\* What two mails can do to each other is looked at with the first of the catalogue and each
\* of the others.
FirstComes == \A m \in Mails : place[m] # "away" => place[1] # "away"

\* Mail that comes is noticed by the next poll, and what an administrator changes by the next
\* message admitted: when exactly it happens before that makes no difference.
InTime ==
    /\ (\E m \in Mails : place[m] = "away" /\ place'[m] # "away") => pc = "idle"
    /\ adminVars' # adminVars => pc \in {"idle", "admit"}
=============================================================================
