---------------------------- MODULE MCHierarchy ----------------------------
(***************************************************************************)
(* A preset with two categories, files that edit it by hand, and one with  *)
(* three categories, on a small corpus and on none.                        *)
(***************************************************************************)
EXTENDS Hierarchy

Category(key, fine) == [key |-> key, fine |-> fine]
Bank == Preset(<<Category("card", <<"pin", "other">>), Category("money", <<"fee">>)>>)
Wide == Preset(<<Category("card", <<"pin", "lost", "other", "block">>), Category("money", <<"fee">>),
                 Category("none", <<"rate">>)>>)

\* One mistake each that validate refuses, then edits it does not look at.
Refused ==
  {[Bank EXCEPT !.coarse = <<>>, !.allCoarse = <<>>],
   [Bank EXCEPT !.blank = {"money"}],
   [Bank EXCEPT !.children["money"] = <<"fee", "pin">>],
   [Bank EXCEPT !.children["money"] = <<>>],
   [Bank EXCEPT !.children["money"] = <<"fee", "rate">>],
   [Bank EXCEPT !.children["card"] = <<"pin">>],
   [Bank EXCEPT !.parent["other"] = "money"],
   [Bank EXCEPT !.fine = <<"pin", "other", "fee", "rate">>]}
Edited ==
  {[Bank EXCEPT !.allCoarse = <<>>],
   [Wide EXCEPT !.allCoarse = <<"money", "card", "cash">>],
   [Wide EXCEPT !.allCoarse = <<"card">>]}

RowOf(text, target, lower) == [text |-> text, target |-> target, lower |-> lower]
None == <<>>
Some == <<RowOf("p", "lost", "lost"), RowOf("q", "PIN ", "pin"), RowOf("p", "spam", "spam"), RowOf("p", "fee", "fee")>>
Long == <<RowOf("p", "other", "other"), RowOf("long", "fee", "fee")>>
One == <<RowOf("p", "pin", "pin")>>

Setup(ontologies, datasets) == [ontology : ontologies, rows : datasets]
MCSetups ==
  Setup({Bank}, {None, One, Long}) \cup Setup(Refused, {None}) \cup Setup({Wide}, {Some}) \cup Setup(Edited, {Some})
MCKey == {"card", "money", "cash", "none", "pin", "lost", "other", "block", "fee", "rate"}
MCText == {"description", "p", "q", "long"}
MCLower == [k \in MCKey |-> k]
MCUnfit == {<<"long", 3>>}

\* Turns of one to four places and of their reversal stand for every shuffle.
Turned(p, k) == SubSeq(p, k + 1, Len(p)) \o SubSeq(p, 1, k)
Places(n) == [i \in 1..n |-> i]
MCShuffle ==
  UNION {{Turned(p, k) : p \in {Places(n), Reverse(Places(n))}, k \in 0..(n - 1)} : n \in 1..4}
=============================================================================
