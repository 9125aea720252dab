----------------------------- MODULE SampleStore -----------------------------
(***************************************************************************)
(* What the common file of the synthetic pipeline promises a reader: a set *)
(* of samples, no two of them with the same id or with similar texts, that *)
(* only grows, but for a sample whose line was not ended: it is loose, and *)
(* the next write may spoil it.                                            *)
(***************************************************************************)
CONSTANT Similar  \* pairs of texts taken for the same
VARIABLES store, loose

Init == store = {} /\ loose = {}

Fresh(s) == \A o \in store : s.id # o.id /\ <<s.state, o.state>> \notin Similar

Add(s) ==
  /\ loose = {} /\ Fresh(s)
  /\ store' = store \cup {s}
  /\ loose' \in {{}, {s}}

Spoil ==
  /\ loose # {}
  /\ store' = store \ loose
  /\ loose' = {}

Next == Spoil \/ \E s \in store' \ store : Add(s)

Spec == Init /\ [][Next]_<<store, loose>>
=============================================================================
