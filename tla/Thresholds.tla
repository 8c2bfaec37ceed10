----------------------------- MODULE Thresholds -----------------------------
(***************************************************************************)
(* The range in the performance data: what the comparisons of a threshold  *)
(* with a number become in the notation of the plugin guidelines, bounds   *)
(* [greater |-> {g}, lower |-> {l}] that alert above g and below l.        *)
(***************************************************************************)
EXTENDS Values

\* matchSingle, of numbers: does v match the comparison op with p?
CompareNumbers(op, v, p) ==
    /\ op \in {"<", "<="} => v <= p
    /\ op \in {">", ">="} => v >= p
    /\ op \in {"<", ">"} => v # p

NoBounds == [greater |-> {}, lower |-> {}]
Greatest(S) == CHOOSE x \in S : \A y \in S : y <= x
Least(S) == CHOOSE x \in S : \A y \in S : x <= y

\* A plausible slip: the limit itself is taken for inclusive.
LeafBoundsInclusive(c) ==
    IF ~IsNum(c.val) THEN NoBounds
    ELSE IF c.op \in {">", ">="} THEN [greater |-> {c.val.n}, lower |-> {}]
    ELSE IF c.op \in {"<", "<="} THEN [greater |-> {}, lower |-> {c.val.n}] ELSE NoBounds

LeafThresholdBounds(c) ==
    IF ~IsNum(c.val) THEN NoBounds
    ELSE LET n == c.val.n IN
         CASE c.op \in {">", "=", "!="} -> [greater |-> {n}, lower |-> {}]
           [] c.op = ">=" -> [greater |-> {IF n > 0 THEN n - 1 ELSE n}, lower |-> {}]
           [] c.op = "<" -> [greater |-> {}, lower |-> {n}]
           [] c.op = "<=" -> [greater |-> {}, lower |-> {n + 1}]
           [] OTHER -> NoBounds

\* "and" tightens, "or" loosens.
MergeThresholdBounds(bounds, gop) ==
    LET gs == UNION {b.greater : b \in bounds}
        ls == UNION {b.lower : b \in bounds}
    IN [greater |-> IF gs = {} THEN {}
                    ELSE {IF gop = "and" THEN Greatest(gs) ELSE Least(gs)},
        lower |-> IF ls = {} THEN {}
                  ELSE {IF gop = "and" THEN Least(ls) ELSE Greatest(ls)}]

\* conditionToBounds, of a node whose members have the given bounds: only the
\* leaves about the metric count.
BoundsOfNode(names, c, bounds) ==
    IF c.group # <<>> THEN MergeThresholdBounds(bounds, c.gop)
    ELSE IF c.kw \in names THEN LeafThresholdBounds(c) ELSE NoBounds

\* The conditions of a list are alternatives.
ComputeThresholdBounds(bounds) == MergeThresholdBounds(bounds, "or")

\* The text as the plugin guidelines read it ...
RangeOf(b) ==
    LET g == Least(b.greater)  l == Least(b.lower)
    IN CASE b = NoBounds -> [form |-> "none"]
         [] b.lower # {} /\ b.greater = {} -> [form |-> "min", lo |-> l]
         [] b.lower = {} /\ b.greater # {} -> [form |-> "max", hi |-> g]
         [] b.lower # {} /\ b.greater # {} ->
              IF l = 0 THEN [form |-> "max", hi |-> g]
              ELSE IF l <= g THEN [form |-> "outside", lo |-> l, hi |-> g]
              ELSE [form |-> "inside", lo |-> g, hi |-> l]

\* ... and whether the value x alerts.
RangeAlerts(r, x) ==
    CASE r.form = "none" -> FALSE
      [] r.form = "min" -> x < r.lo
      [] r.form = "max" -> x < 0 \/ x > r.hi
      [] r.form = "outside" -> x < r.lo \/ x > r.hi
      [] r.form = "inside" -> r.lo <= x /\ x <= r.hi
=============================================================================
