------------------------------- MODULE Gating -------------------------------
(***************************************************************************)
(* How far an answer may be acted upon: the rules of                       *)
(* crates/sokuto-core/src/gating.rs for the answers of the engine, those   *)
(* of the hierarchical router for its own, the demotion of a score whose   *)
(* distribution has two opposite peaks, and the verdict on a whole reply.  *)
(*                                                                         *)
(* Probabilities, confidences and margins are integers between 0 and Unit. *)
(* A reading is what these rules look at of a distribution.                *)
(***************************************************************************)
EXTENDS Integers

CONSTANTS Unit,            \* 1.0
          Eps,             \* EPSILON, the tolerance of the thresholds
          NoEnergy,        \* an energy that was not computed
          VarianceLimit,   \* BimodalConfig::var_ratio_threshold
          BimodalCeiling,  \* the confidence left to a bimodal score, 0.20
          EarlyExitBelow,  \* escalate_confidence_threshold of the router
          DefaultHigh,     \* DEFAULT_HIGH_CONFIDENCE_THRESHOLD
          DefaultLow       \* DEFAULT_LOW_CONFIDENCE_THRESHOLD

ASSUME UnitAssumption == Unit \in Nat
ASSUME EpsAssumption == Eps \in Nat
ASSUME NoEnergyAssumption == NoEnergy \in Int
ASSUME LimitsAssumption ==
  /\ VarianceLimit \in 0..Unit
  /\ BimodalCeiling \in 0..Unit
  /\ EarlyExitBelow \in 0..Unit

Share == 0..Unit

\* DecisionRoute, from the most to the least automatic.
Routes == {"auto", "confirm", "fallback"}
Severity == [auto |-> 0, confirm |-> 1, fallback |-> 2]

\* GatingConfig.  The three limits of the hybrid rule only count when all of
\* them are given: hybrid holds one record then, none otherwise.
Hybrid == [loose : Int, conf : Int, margin : Int]
GatingConfig ==
  [enabled : BOOLEAN, high : Int, low : Int, margin : Int,
   ood : BOOLEAN, energy : Int, hybrid : SUBSET Hybrid]

ValidConfig(c) ==
  /\ c.high \in Share
  /\ c.low \in Share
  /\ c.low <= c.high
  /\ c.margin \in Share
  /\ \A h \in c.hybrid : h.conf \in Share /\ h.margin \in Share

Reading == [conf : Share, margin : Share, energy : Int, bimodal : BOOLEAN]

\* What the formulas of the confidence allow.  A choice has the margin times
\* a factor of at most 1, a noul is as confident as its margin is wide, and a
\* score has the share of the greatest variance that it does not use, so that
\* it cannot be both bimodal and very confident.
Possible(type, r) ==
  CASE type = "choice" -> r.conf <= r.margin /\ ~r.bimodal
    [] type = "noul"   -> r.conf = r.margin /\ r.energy = NoEnergy /\ ~r.bimodal
    [] type = "score"  -> r.energy = NoEnergy /\ (r.bimodal => r.conf < Unit - VarianceLimit)

-----------------------------------------------------------------------------
(* The answers of the engine.                                              *)

Reaches(x, threshold) == x >= threshold - Eps

\* The input fits none of the candidates.
IsOod(type, r, c) ==
  /\ c.ood
  /\ type = "choice"
  /\ \/ r.energy > c.energy
     \/ \E h \in c.hybrid :
          r.energy > h.loose /\ (r.conf < h.conf \/ r.margin < h.margin)

RouteFor(type, r, c) ==
  IF IsOod(type, r, c) THEN "fallback"
  ELSE IF Reaches(r.conf, c.high)
       THEN IF Reaches(r.margin, c.margin) THEN "auto" ELSE "confirm"
  ELSE IF Reaches(r.conf, c.low) THEN "confirm"
  ELSE "fallback"

\* GatingMetadata; escalation says whether there is an EscalationContext.
Metadata == [route : Routes, conf : Share, ood : BOOLEAN, escalation : BOOLEAN]

Evaluate(type, r, c) ==
  LET route == RouteFor(type, r, c)
  IN  [route |-> route, conf |-> r.conf, ood |-> IsOod(type, r, c),
       escalation |-> route # "auto"]

-----------------------------------------------------------------------------
(* The answers of the hierarchical router: the same thresholds without the *)
(* tolerance, no energy, no context.                                       *)

RouterRoute(r, c) ==
  IF r.conf >= c.high /\ r.margin >= c.margin THEN "auto"
  ELSE IF r.conf < c.low THEN "fallback"
  ELSE "confirm"

RouterMetadata(r, c) ==
  [route |-> RouterRoute(r, c), conf |-> r.conf, ood |-> FALSE, escalation |-> FALSE]

EarlyExitMetadata(r) ==
  [route |-> "confirm", conf |-> r.conf, ood |-> FALSE, escalation |-> FALSE]

-----------------------------------------------------------------------------
(* The demotion of a bimodal score.                                        *)

Capped(conf) == IF conf < BimodalCeiling THEN conf ELSE BimodalCeiling

\* Mutation of Demote: whatever the route was, it is to be confirmed.
DemoteToConfirm(g) ==
  [route |-> "confirm", conf |-> Capped(g.conf), ood |-> g.ood, escalation |-> g.escalation]

Demote(g) ==
  [route |-> IF g.route = "auto" THEN "confirm" ELSE g.route,
   conf |-> Capped(g.conf), ood |-> g.ood, escalation |-> g.escalation]

-----------------------------------------------------------------------------
(* The verdict on a reply, from the number of answers of each route.       *)

\* The route that counts for an answer that was not gated.
UngatedRoute(conf) ==
  IF conf >= DefaultHigh THEN "auto"
  ELSE IF conf >= DefaultLow THEN "confirm"
  ELSE "fallback"

Aggregate(count) ==
  IF count["fallback"] > 0 THEN "fallback"
  ELSE IF count["confirm"] > 0 THEN "confirm"
  ELSE "auto"

=============================================================================
