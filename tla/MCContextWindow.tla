--------------------------- MODULE MCContextWindow ---------------------------
(* Instances of ContextWindow for TLC. *)
EXTENDS ContextWindow

MCTables ==
    LET sizes == [m \in Models |-> IF m = "small" THEN 6 ELSE 0]
    IN  {[default |-> "large", ctx |-> sizes,
          rules |-> <<[matches |-> {"short"}, model |-> "small"]>>],
         [default |-> "small", ctx |-> [m \in Models |-> 0], rules |-> <<>>]}

\* The estimate is too low for long texts and too high for short ones.
MCExact    == [t \in Texts |-> IF t = "long" THEN 2 ELSE 1]
MCEstimate == [t \in Texts |-> IF t = "short" THEN 2 ELSE 1]
=============================================================================
