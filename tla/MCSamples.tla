------------------------------ MODULE MCSamples ------------------------------
(***************************************************************************)
(* Seven configurations of one to three datasets over corpora of one or two  *)
(* rows per split, with unlabelled, named, out-of-range and incomplete     *)
(* rows, texts that fill the sequence and lines that do not parse.         *)
(***************************************************************************)
EXTENDS Samples, SequencesExt

Row(text, label) == [text |-> text, label |-> label, name |-> "", whole |-> TRUE]
Named(text, name) == [text |-> text, label |-> -9, name |-> name, whole |-> TRUE]
Splits(t, v, e) == [train |-> t, validation |-> v, test |-> e]

MCHub ==
  [ag_news   |-> Splits(<<Row("p", 0), Row("q", 3)>>, <<>>, <<Row("long", 1)>>),
   banking77 |-> Splits(<<Row("p", 1), Named("q", "fee")>>, <<>>, <<Row("p", 9)>>),
   clinc150  |-> Splits(<<Row("p", 0)>>, <<Row("q", 2), Row("r", 7)>>, <<>>),
   mnli      |-> [train |-> <<Row("p", 0), Row("q", -1)>>, validation_matched |-> <<Row("r", 1)>>,
                  test |-> <<Row("r", -1)>>],
   jnli      |-> Splits(<<Row("p", 1), Named("q", "neutral")>>, <<Row("r", 7), Row("p", 0)>>, <<>>),
   marc_ja   |-> Splits(<<Row("p", 0), Row("q", 2)>>, <<Named("r", "negative")>>, <<>>),
   jcqa      |-> Splits(<<[Row("p", 4) EXCEPT !.whole = FALSE], Row("q", 4)>>, <<Row("r", 0), Row("marked", 1)>>, <<>>),
   jsts      |-> Splits(<<Row("p", 25), Row("q", 52)>>, <<Row("r", -3)>>, <<>>),
   sst5      |-> Splits(<<Row("p", 4), Row("q", 5)>>, <<Row("r", 0)>>, <<>>)]

Line(id, type, criteria, target) ==
  [id |-> id, parses |-> TRUE, type |-> type, text |-> "p", criteria |-> criteria, target |-> target]
MCLines ==
  <<Line("c1", "choice", <<"none", "other", "refund">>, "refund"),
    Line("c2", "choice", <<"keep", "refund">>, "keep"),
    [Line("n1", "noul", <<>>, "true") EXCEPT !.parses = FALSE],
    Line("n2", "noul", <<>>, "false")>>

MCIntents == <<"card", "fee", "oos">>
MCLength == [t \in {"p", "q", "r"} |-> 2] @@ [t \in {"long"} |-> 9] @@ [t \in {"marked"} |-> 3]
MCMarker == [t \in {"p", "q", "r"} |-> 0] @@ [t \in {"long"} |-> 8] @@ [t \in {"marked"} |-> 2]
MCSetups ==
  {<<"ag_news", "jglue_jnli_noul">>, <<"banking77", "jglue_jsts", "unknown">>,
   <<"synthetic_all", "synthetic_noul">>, <<"jglue_jnli", "jglue_jnli_noul", "sst5">>,
   <<"mnli_choice", "mnli_noul", "jglue_marc_ja">>,
   <<"jglue_marc_ja_choice", "clinc150">>, <<"jglue_jcommonsenseqa">>}

\* Turns of one to five places and of their reversal stand for every shuffle.
Turned(p, k) == SubSeq(p, k + 1, Len(p)) \o SubSeq(p, 1, k)
Places(n) == [i \in 1..n |-> i]
MCShuffle ==
  UNION {{Turned(p, k) : p \in {Places(n), Reverse(Places(n))}, k \in 0..(n - 1)} : n \in 1..5}
=============================================================================
