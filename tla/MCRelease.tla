------------------------------ MODULE MCRelease ------------------------------
(***************************************************************************)
(* Validation sets on both sides of every gate, graphs with unnamed nodes  *)
(* in the heads, questions around every threshold.                         *)
(***************************************************************************)
EXTENDS Release

MCNoEnergy == -100

It(type, count, right) == [type |-> type, count |-> count, right |-> right]

\* With the boundaries 2, 3, 5, 6, 10 and 11 of the buckets; one option only;
\* better than chance, at the gate and below it; too few; cut at the bound.
MCSamples ==
  {<<It("choice", 3, TRUE), It("choice", 5, TRUE), It("choice", 2, TRUE), It("choice", 1, TRUE),
     It("score", 5, TRUE), It("score", 6, TRUE), It("score", 10, TRUE), It("noul", 2, FALSE)>>,
   <<It("choice", 2, TRUE), It("choice", 2, FALSE), It("noul", 2, TRUE), It("noul", 2, TRUE),
     It("choice", 11, TRUE), It("choice", 12, FALSE), It("choice", 6, TRUE), It("choice", 10, TRUE),
     It("score", 2, TRUE)>>}

\* 1: MatMul of the backbone, 2: what the heads share, 3: a matrix of the heads
\* whose name says nothing, 4: the logits, 5: a node with a telling name aside.
MCNets ==
  {[nodes |-> 1..4, inputs |-> <<{}, {1}, {2}, {3}>>, backbone |-> {1}, named |-> {},
    matmul |-> {1, 3}, logits |-> 4],
   [nodes |-> 1..5, inputs |-> <<{}, {1}, {1, 2}, {2, 3}, {1}>>, backbone |-> {1}, named |-> {2, 5},
    matmul |-> {1, 2, 3, 5}, logits |-> 4]}

R(conf, margin, energy, bimodal) ==
  [conf |-> conf, margin |-> margin, energy |-> energy, bimodal |-> bimodal]
G(high, low, margin, ood) ==
  [enabled |-> TRUE, high |-> high, low |-> low, margin |-> margin, ood |-> ood,
   energy |-> -10, hybrid |-> {}]
Ask(type, count, r) == [type |-> type, count |-> count, reading |-> r]

\* All plain; input that does not fit beside a score of two peaks; a margin above
\* the confidence a Noul needs; thresholds so low that a demotion is seen.
MCScenarios ==
  {[gating |-> G(70, 35, 15, TRUE),
    questions |-> <<Ask("choice", 3, R(70, 72, -20, FALSE)), Ask("noul", 2, R(69, 69, MCNoEnergy, FALSE)),
                    Ask("score", 3, R(75, 10, MCNoEnergy, FALSE))>>],
   [gating |-> G(70, 35, 15, TRUE),
    questions |-> <<Ask("choice", 2, R(90, 95, 0, FALSE)), Ask("score", 5, R(60, 5, MCNoEnergy, TRUE)),
                    Ask("choice", 16, R(20, 30, -20, FALSE))>>],
   [gating |-> G(5, 2, 30, FALSE), questions |-> <<Ask("noul", 2, R(6, 6, MCNoEnergy, FALSE))>>],
   [gating |-> G(1, 1, 1, TRUE),
    questions |-> <<Ask("choice", 3, R(20, 25, -20, FALSE)), Ask("score", 5, R(64, 40, MCNoEnergy, TRUE))>>]}
=============================================================================
