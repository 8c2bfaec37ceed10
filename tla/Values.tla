------------------------------- MODULE Values -------------------------------
(***************************************************************************)
(* The data of a check: maps from keywords to numbers and texts.           *)
(***************************************************************************)
EXTENDS Integers, Sequences, FiniteSets, SequencesExt, TLC

Num(i) == [n |-> i]
Text(t) == [s |-> t]
IsNum(v) == "n" \in DOMAIN v
IsText(v) == "s" \in DOMAIN v
Has(data, kw) == kw \in DOMAIN data
With(data, kw, v) == [k \in DOMAIN data \union {kw} |-> IF k = kw THEN v ELSE data[k]]

\* The entry a map is a copy of, which is the same map in the code, is known
\* by its _id.
Id(data) == IF Has(data, "_id") THEN {data["_id"]} ELSE {}
=============================================================================
