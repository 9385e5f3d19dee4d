----------------------------- MODULE AccessList -----------------------------
(***************************************************************************)
(* What the administration of access promises to whoever asks for it: a    *)
(* list of who is linked to which user, who is active and who may do what, *)
(* in which every change is made at once, from what the list says then.    *)
(***************************************************************************)
CONSTANTS Keys, Kinds, Users

VARIABLES
    owner,   \* the user a key is linked to
    rights,  \* <<key, kind>>
    active,  \* of each user
    request  \* status of the access request of a key

vars == <<owner, rights, active, request>>

Init ==
    /\ owner = [k \in {} |-> k] /\ rights = {} /\ active = [u \in {} |-> u]
    /\ request = [k \in Keys |-> "none"]

With(f, x, y) == [z \in DOMAIN f \cup {x} |-> IF z = x THEN y ELSE f[z]]

\* A request is pending until it is decided; only a denial is for good.
Ask(k) ==
    /\ request[k] \in {"none", "approved"}
    /\ request' = [request EXCEPT ![k] = "pending"]
    /\ UNCHANGED <<owner, rights, active>>

Settle(k) == request' = [request EXCEPT ![k] = IF @ = "pending" THEN "approved" ELSE @]

Admit(k) ==
    /\ request[k] = "pending" /\ Settle(k)
    /\ rights' = rights \cup {<<k, "chat">>}
    /\ \/ k \in DOMAIN owner /\ UNCHANGED <<owner, active>>
       \/ /\ k \notin DOMAIN owner
          /\ \E u \in Users \ DOMAIN active : owner' = With(owner, k, u) /\ active' = With(active, u, TRUE)

Deny(k) ==
    /\ request[k] = "pending"
    /\ request' = [request EXCEPT ![k] = "denied"]
    /\ UNCHANGED <<owner, rights, active>>

Join(u) ==
    /\ u \notin DOMAIN active
    /\ active' = With(active, u, TRUE)
    /\ UNCHANGED <<owner, rights, request>>

Link(k, u) ==
    /\ k \notin DOMAIN owner /\ u \in DOMAIN active
    /\ owner' = With(owner, k, u) /\ Settle(k)
    /\ UNCHANGED <<rights, active>>

Unlink(k) ==
    /\ k \in DOMAIN owner
    /\ owner' = [l \in DOMAIN owner \ {k} |-> owner[l]]
    /\ rights' = rights \ ({k} \X Kinds)
    /\ UNCHANGED <<active, request>>

Grant(k, kind) ==
    /\ k \in DOMAIN owner
    /\ rights' = rights \cup {<<k, kind>>} /\ Settle(k)
    /\ UNCHANGED <<owner, active>>

Revoke(k, kind) ==
    /\ <<k, kind>> \in rights
    /\ rights' = rights \ {<<k, kind>>}
    /\ UNCHANGED <<owner, active, request>>

SetActive(u, is) ==
    /\ u \in DOMAIN active
    /\ active' = [active EXCEPT ![u] = is]
    /\ UNCHANGED <<owner, rights, request>>

Next ==
    \/ \E k \in Keys : Ask(k) \/ Admit(k) \/ Deny(k) \/ Unlink(k)
    \/ \E k \in Keys, kind \in Kinds : Grant(k, kind) \/ Revoke(k, kind)
    \/ \E k \in Keys, u \in Users : Link(k, u)
    \/ \E u \in Users : Join(u) \/ SetActive(u, TRUE) \/ SetActive(u, FALSE)

Spec == Init /\ [][Next]_vars
=============================================================================
