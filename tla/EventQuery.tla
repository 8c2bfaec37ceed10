----------------------------- MODULE EventQuery -----------------------------
(***************************************************************************)
(* What of a filter becomes part of the WMI query of check_eventlog.  The  *)
(* filter itself is applied to what the query returns, so the query must   *)
(* not withhold an event that the filter keeps.                            *)
(***************************************************************************)
EXTENDS Matching

\* conditionLeafToWQL: the tests one leaf turns into, {} if it cannot be done.
LeafToWQL(c) ==
    LET column == CASE c.kw = "id" -> "id" [] c.kw = "level" -> "level"
                    [] c.kw \in {"source", "provider"} -> "source" [] OTHER -> ""
        values == CASE c.op = "=" -> {c.val} [] c.op = "in" -> c.val.l [] OTHER -> {}
        likes == IF c.op \in {"like", "slike"} /\ column # "id" /\ c.val # Text("")
                 THEN {c.val} ELSE {}
        plain == \A v \in values : IF column = "id" THEN IsNum(v) ELSE v # Text("")
    IN IF column = "" \/ ~plain THEN {}
       ELSE {[col |-> column, op |-> "=", val |-> v] : v \in values}
            \union {[col |-> column, op |-> "like", val |-> v] : v \in likes}

\* The conditions at the top of a filter are alternatives.
ManyTop(filter) ==
    \E i, j \in DOMAIN filter : i # j /\ filter[i].kind # "none" /\ filter[j].kind # "none"

\* buildFilterQueryWhereLine: the tests of all leaves, joined by OR, {} for no
\* restriction.  With an "or" in the filter every leaf must have its test.
QueryOf(leaves, or) ==
    IF or /\ \E c \in leaves : LeafToWQL(c) = {} THEN {}
    ELSE UNION {LeafToWQL(c) : c \in leaves}

Queried(e, tests) ==
    tests = {} \/ \E t \in tests : IF t.op = "=" THEN e[t.col] = t.val ELSE HasTextFold(e[t.col], t.val)
=============================================================================
