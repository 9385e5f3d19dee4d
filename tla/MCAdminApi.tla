----------------------------- MODULE MCAdminApi -----------------------------
(***************************************************************************)
(* Instances of AdminApi for TLC. Wrong keys, saves of the settings file   *)
(* and the log are three stories that touch the requests but not one       *)
(* another: every behaviour explored tells one of them, with all that the  *)
(* requests can do; only the story of the file with several requests. It   *)
(* ends where two saves have met, or one has begun from a file without the *)
(* key, as nothing is promised of the file from then on.                   *)
(***************************************************************************)
EXTENDS AdminApi

CONSTANTS a, b, r, s

OneStory ==
    LET keys == <<tracked, guesses, evictions>> # <<<<>>, Nothing, Nothing>>
        file == env # {SecretKey} \/ bak # {} \/ \E x \in Savers : Saving(x)
        text == log # {} \/ search # NoSearch
    IN  /\ ~(keys /\ file) /\ ~(keys /\ text) /\ ~(file /\ text)
        /\ keys \/ text => \E q \in Requests : At(q, "new")
        /\ ~blind /\ ~overlap

Symmetry == Permutations(Addresses) \cup Permutations(Requests)
=============================================================================
