----------------------------- MODULE MCTraining -----------------------------
(***************************************************************************)
(* Jobs in a row, so that RLCD may follow SFT and be evaluated, with       *)
(* loaders whose last window is not full, with patience and without.       *)
(***************************************************************************)
EXTENDS Training

Configured(batches, accum, epochs, patience, freeze, own) ==
  [batches |-> batches, accum |-> accum, epochs |-> epochs, patience |-> patience,
   freeze |-> freeze, own |-> own]

MCConfs ==
  {Configured(3, 2, 3, 1, TRUE, TRUE),
   Configured(1, 2, 5, 2, FALSE, FALSE),
   Configured(2, 2, 1, NoPatience, FALSE, TRUE),
   Configured(1, 1, 2, 0, TRUE, FALSE),
   Configured(0, 1, 1, NoPatience, FALSE, TRUE),
   Configured(1, 1, 0, NoPatience, TRUE, TRUE)}

MCParams ==
  {[top |-> "backbone", embedding |-> TRUE], [top |-> "backbone", embedding |-> FALSE],
   [top |-> "choice_head", embedding |-> FALSE], [top |-> "sab", embedding |-> FALSE]}
=============================================================================
