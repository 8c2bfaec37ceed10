---------------------------- MODULE Checks_proofs ----------------------------
(***************************************************************************)
(* What the check pipeline promises, whatever the conditions are and       *)
(* however they match:                                                     *)
(*   - Finalize loses no problem (NothingIsHidden);                        *)
(*   - an early filter changes no answer (PrecheckChangesNothing), and why *)
(*     what it drops would have been dropped (DecidedStays);               *)
(*   - the range in the performance data alerts where the conditions do    *)
(*     (RangeOfAlternatives, RangeOfConjunction, RangeTellsMatches);       *)
(*   - a threshold for one entry replaces the general ones for it and for  *)
(*     nothing else (SpecificDecides);                                     *)
(*   - the query of check_eventlog withholds nothing the filter keeps      *)
(*     (QueryKeepsMatches).                                                *)
(* A fold is the last element of the run of its loop (FoldRuns): the loop  *)
(* over the filter, over the entries, over the metrics and over the counts *)
(* are each followed from round to round.                                  *)
(***************************************************************************)
EXTENDS Finalize, EventQuery, TLAPS, WellFoundedInduction

----------------------------------------------------------------------------
(* Folds.                                                                   *)

\* Induction, for a set of numbers.
LEMMA LeastNat ==
    ASSUME NEW P \in SUBSET Nat, 0 \in P, \A n \in P : n + 1 \in P
    PROVE  P = Nat
<1> DEFINE T == Nat \ P
<1> SUFFICES ASSUME T # {} PROVE FALSE
  OBVIOUS
<1>1. PICK x \in T : \A y \in T : <<y, x>> \notin OpToRel(<, Nat)
  <2> HIDE DEF T
  <2>1. T \subseteq Nat BY DEF T
  <2> QED BY <2>1, NatLessThanWellFounded, WFMin
<1>2. x \in Nat /\ x # 0 /\ x - 1 \in Nat /\ (x - 1) + 1 = x
  OBVIOUS
<1>3. x - 1 \in P
  <2> DEFINE R == OpToRel(<, Nat)
  <2>1. R = {p \in Nat \X Nat : p[1] < p[2]}
    BY DEF OpToRel
  <2>2. <<x - 1, x>> \in R
    <3> HIDE DEF R
    <3> QED BY <1>2, <2>1
  <2> QED BY <1>1, <1>2, <2>2
<1> QED BY <1>2, <1>3

\* The steps of the loops of Finalize, by name.
Step(kind, par, a, x) ==
    CASE kind = "filter" -> IF MatchMapCondition(par, x, FALSE) THEN Append(a, x) ELSE a
      [] kind = "entry" -> CheckEntry(a, x)
      [] kind = "metric" -> CheckMetric(a, x)
      [] kind = "count" -> IF Has(x, "_state") /\ StateOf(x) \in par[1]
                           THEN a + Weight(x, par[2]) ELSE a

IsFold(kind, par, b, q, S, f) ==
    f = [t \in SUBSET S |->
            IF t = {} THEN b ELSE Step(kind, par, f[t \ {Max(t)}], q[Max(t)])]

LEMMA FoldExists ==
    ASSUME NEW kind, NEW par, NEW b, NEW q, NEW n \in Nat
    PROVE  \E f : IsFold(kind, par, b, q, 1..n, f)
<1> DEFINE P == {m \in Nat : \E f : IsFold(kind, par, b, q, 1..m, f)}
<1>1. 0 \in P
  <2> DEFINE f == [t \in SUBSET (1..0) |-> b]
  <2>1. \A t \in SUBSET (1..0) : t = {}
    OBVIOUS
  <2>2. IsFold(kind, par, b, q, 1..0, f)
    BY <2>1 DEF IsFold
  <2> QED BY <2>2
<1>2. ASSUME NEW m \in P PROVE m + 1 \in P
  <2>1. PICK f : IsFold(kind, par, b, q, 1..m, f)
    OBVIOUS
  <2> DEFINE D == SUBSET (1..(m + 1))
             F(h, t) == IF t = {} THEN b ELSE Step(kind, par, h[t \ {Max(t)}], q[Max(t)])
             h == [t \in D |-> IF m + 1 \in t
                               THEN Step(kind, par, f[t \ {m + 1}], q[m + 1]) ELSE f[t]]
  <2>2. ASSUME NEW t \in D PROVE h[t] = F(h, t)
    <3>1. CASE m + 1 \in t
      <4>1. Max(t) = m + 1
        <5>1. t \subseteq 1..(m + 1) /\ \A y \in t : m + 1 >= y
          OBVIOUS
        <5>2. \A x \in t : (\A y \in t : x >= y) => x = m + 1
          BY <3>1, <5>1
        <5> QED BY <3>1, <5>1, <5>2 DEF Max
      <4>2. t \ {m + 1} \in D /\ m + 1 \notin t \ {m + 1} /\ t # {}
        BY <3>1
      <4>3. h[t \ {m + 1}] = f[t \ {m + 1}]
        BY <4>2
      <4>4. h[t] = Step(kind, par, f[t \ {m + 1}], q[m + 1])
        BY <3>1
      <4> HIDE DEF h, D
      <4> QED BY <4>1, <4>2, <4>3, <4>4
    <3>2. CASE m + 1 \notin t
      <4> DEFINE u == t \ {Max(t)}
      <4>1. t \in SUBSET (1..m) /\ u \in D /\ m + 1 \notin u
        <5>1. \A x \in 1..(m + 1) : x # m + 1 => x \in 1..m
          OBVIOUS
        <5>2. t \in SUBSET (1..m)
          BY <3>2, <5>1
        <5> QED BY <3>2, <5>2
      <4>2. h[t] = f[t] /\ h[u] = f[u]
        BY <3>2, <4>1
      <4>3. f[t] = F(f, t)
        BY <2>1, <4>1 DEF IsFold
      <4> HIDE DEF h
      <4> QED BY <4>2, <4>3
    <3> QED BY <3>1, <3>2
  <2>3. h = [t \in D |-> F(h, t)]
    <3>1. h = [t \in D |-> h[t]]
      OBVIOUS
    <3> HIDE DEF h
    <3> QED BY <2>2, <3>1
  <2> HIDE DEF h
  <2>4. IsFold(kind, par, b, q, 1..(m + 1), h)
    BY <2>3 DEF IsFold
  <2> QED BY <2>4
<1> HIDE DEF P
<1>3. P \in SUBSET Nat
  BY DEF P
<1>4. P = Nat
  BY <1>1, <1>2, <1>3, LeastNat
<1> QED BY <1>4 DEF P

\* A fold goes through the sequence from its beginning.
Runs(kind, par, b, q, g) ==
    /\ g[0] = b
    /\ \A m \in 1..Len(q) : g[m] = Step(kind, par, g[m - 1], q[m])

LEMMA FoldRuns ==
    ASSUME NEW kind, NEW par, NEW b, NEW q, Len(q) \in Nat,
           NEW f, IsFold(kind, par, b, q, 1..Len(q), f)
    PROVE  \E g : Runs(kind, par, b, q, g) /\ f[1..Len(q)] = g[Len(q)]
<1> DEFINE g == [m \in 0..Len(q) |-> f[1..m]]
<1>1. g[0] = b
  BY DEF IsFold
<1>2. ASSUME NEW m \in 1..Len(q) PROVE g[m] = Step(kind, par, g[m - 1], q[m])
  <2>1. Max(1..m) = m
    BY DEF Max
  <2>2. (1..m) \ {m} = 1..(m - 1)
    OBVIOUS
  <2>3. 1..m \in SUBSET (1..Len(q)) /\ 1..m # {}
    OBVIOUS
  <2>4. f[1..m] = Step(kind, par, f[1..(m - 1)], q[m])
    BY <2>1, <2>2, <2>3 DEF IsFold
  <2>5. m \in 0..Len(q) /\ m - 1 \in 0..Len(q)
    OBVIOUS
  <2> QED BY <2>4, <2>5
<1>3. f[1..Len(q)] = g[Len(q)]
  OBVIOUS
<1> HIDE DEF g
<1> QED BY <1>1, <1>2, <1>3 DEF Runs

\* Filter is such a fold.
LEMMA FilterRuns ==
    ASSUME NEW S, NEW list \in Seq(S), NEW conds, conds # <<>>
    PROVE  \E g : Runs("filter", conds, <<>>, list, g) /\ Filter(conds, list) = g[Len(list)]
<1> DEFINE Keep(kept, e) == IF MatchMapCondition(conds, e, FALSE) THEN Append(kept, e) ELSE kept
           D == DOMAIN list
           It == CHOOSE f : f = [t \in SUBSET D |->
                    IF t = {} THEN <<>> ELSE Keep(f[t \ {Max(t)}], list[Max(t)])]
<1>1. Filter(conds, list) = It[D]
  BY DEF Filter, FoldLeft, MapThenFoldSet
<1>2. D = 1..Len(list) /\ Len(list) \in Nat
  OBVIOUS
<1>3. PICK f : IsFold("filter", conds, <<>>, list, 1..Len(list), f)
  BY <1>2, FoldExists
<1>4. f = [t \in SUBSET D |->
                    IF t = {} THEN <<>> ELSE Keep(f[t \ {Max(t)}], list[Max(t)])]
  BY <1>2, <1>3 DEF IsFold, Step
<1>5. It = [t \in SUBSET D |->
                    IF t = {} THEN <<>> ELSE Keep(It[t \ {Max(t)}], list[Max(t)])]
  BY <1>4
<1> HIDE DEF It, D
<1>6. IsFold("filter", conds, <<>>, list, 1..Len(list), It)
  BY <1>2, <1>5 DEF IsFold, Step
<1>7. PICK g : Runs("filter", conds, <<>>, list, g) /\ It[1..Len(list)] = g[Len(list)]
  BY <1>2, <1>6, FoldRuns
<1> QED BY <1>1, <1>2, <1>7

LEMMA AppendKeeps ==
    ASSUME NEW S, NEW q \in Seq(S), NEW e \in S
    PROVE  /\ Append(q, e) \in Seq(S)
           /\ \A j \in DOMAIN q : j \in DOMAIN Append(q, e) /\ Append(q, e)[j] = q[j]
           /\ \E j \in DOMAIN Append(q, e) : Append(q, e)[j] = e
<1>1. Len(q) \in Nat /\ DOMAIN q = 1..Len(q)
  OBVIOUS
<1>2. Append(q, e) \in Seq(S) /\ DOMAIN Append(q, e) = 1..(Len(q) + 1)
  OBVIOUS
<1>3. Len(q) + 1 \in DOMAIN Append(q, e) /\ Append(q, e)[Len(q) + 1] = e
  BY <1>1, <1>2
<1> QED BY <1>1, <1>2, <1>3

\* What passes the filter is in what Filter returns, and nothing else is.
Kept(conds, e) == conds = <<>> \/ MatchMapCondition(conds, e, FALSE)

LEMMA FilterKeeps ==
    ASSUME NEW S, NEW list \in Seq(S), NEW conds
    PROVE  /\ Filter(conds, list) \in Seq(S)
           /\ \A i \in DOMAIN list :
                Kept(conds, list[i]) =>
                    \E j \in DOMAIN Filter(conds, list) : Filter(conds, list)[j] = list[i]
<1>1. CASE conds = <<>>
  BY <1>1 DEF Filter, Kept
<1>2. CASE conds # <<>>
  <2>1. PICK g : Runs("filter", conds, <<>>, list, g) /\ Filter(conds, list) = g[Len(list)]
    BY <1>2, FilterRuns
  <2> DEFINE Keep(i) == MatchMapCondition(conds, list[i], FALSE)
             Found(m, i) == \E j \in DOMAIN g[m] : g[m][j] = list[i]
             Good(m) == g[m] \in Seq(S) /\ \A i \in 1..m : Keep(i) => Found(m, i)
             P == {m \in Nat : m <= Len(list) => Good(m)}
  <2>2. Len(list) \in Nat /\ DOMAIN list = 1..Len(list)
    OBVIOUS
  <2>3. 0 \in P
    <3>1. g[0] = <<>> /\ <<>> \in Seq(S) /\ 1..0 = {}
      BY <2>1 DEF Runs
    <3> QED BY <3>1
  <2>4. ASSUME NEW m \in Nat, Good(m), m + 1 <= Len(list) PROVE Good(m + 1)
    <3>1. m + 1 \in 1..Len(list) /\ (m + 1) - 1 = m /\ list[m + 1] \in S
      BY <2>2, <2>4
    <3>2. g[m + 1] = IF Keep(m + 1) THEN Append(g[m], list[m + 1]) ELSE g[m]
      BY <2>1, <3>1 DEF Runs, Step
    <3>3. \A i \in 1..(m + 1) : i = m + 1 \/ i \in 1..m
      OBVIOUS
    <3>4. /\ g[m + 1] \in Seq(S)
          /\ \A j \in DOMAIN g[m] : j \in DOMAIN g[m + 1] /\ g[m + 1][j] = g[m][j]
          /\ Keep(m + 1) => Found(m + 1, m + 1)
      <4>1. CASE Keep(m + 1)
        <5> DEFINE q == g[m]  e == list[m + 1]  r == g[m + 1]
        <5>1. q \in Seq(S) /\ e \in S /\ r = Append(q, e)
          BY <2>4, <3>1, <3>2, <4>1
        <5> HIDE DEF q, e, r
        <5>2. /\ r \in Seq(S)
              /\ \A j \in DOMAIN q : j \in DOMAIN r /\ r[j] = q[j]
              /\ \E j \in DOMAIN r : r[j] = e
          BY <5>1, AppendKeeps
        <5> QED BY <5>2 DEF q, e, r
      <4>2. CASE ~Keep(m + 1)
        <5> HIDE DEF Keep
        <5> QED BY <2>4, <3>1, <3>2, <4>2
      <4> QED BY <4>1, <4>2
    <3> HIDE DEF Keep
    <3>5. \A i \in 1..m : Found(m, i) => Found(m + 1, i)
      BY <3>4
    <3> HIDE DEF Found
    <3> QED BY <2>4, <3>3, <3>4, <3>5
  <2>5. \A m \in P : m + 1 \in P
    <3> HIDE DEF Good
    <3> SUFFICES ASSUME NEW m \in P, m + 1 <= Len(list) PROVE Good(m + 1)
      OBVIOUS
    <3>1. m \in Nat /\ m <= Len(list)
      BY <2>2
    <3> QED BY <2>4, <3>1
  <2>6. P \in SUBSET Nat
    OBVIOUS
  <2> HIDE DEF P, Good
  <2>7. P = Nat
    BY <2>3, <2>5, <2>6, LeastNat
  <2>8. Good(Len(list))
    BY <2>2, <2>7 DEF P
  <2> QED BY <1>2, <2>1, <2>2, <2>8 DEF Good, Kept
<1> QED BY <1>1, <1>2

----------------------------------------------------------------------------
(* The loop over the entries.                                               *)

JudgedEntry(cd, e) == IF Field(e, "_skip") = Num(1) THEN e ELSE Check(cd, e)
Going(cd, s, list) == [cd |-> cd, stop |-> FALSE, err |-> "", state |-> s, list |-> list]

LEMMA EntriesRun ==
    ASSUME NEW S, NEW list \in Seq(S), NEW b
    PROVE  \E g : Runs("entry", <<>>, b, list, g) /\ FoldLeft(CheckEntry, b, list) = g[Len(list)]
<1> DEFINE D == DOMAIN list
           It == CHOOSE f : f = [t \in SUBSET D |->
                    IF t = {} THEN b ELSE CheckEntry(f[t \ {Max(t)}], list[Max(t)])]
<1>1. FoldLeft(CheckEntry, b, list) = It[D]
  BY DEF FoldLeft, MapThenFoldSet
<1>2. D = 1..Len(list) /\ Len(list) \in Nat
  OBVIOUS
<1>3. PICK f : IsFold("entry", <<>>, b, list, 1..Len(list), f)
  BY <1>2, FoldExists
<1>4. f = [t \in SUBSET D |->
                    IF t = {} THEN b ELSE CheckEntry(f[t \ {Max(t)}], list[Max(t)])]
  BY <1>2, <1>3 DEF IsFold, Step
<1>5. It = [t \in SUBSET D |->
                    IF t = {} THEN b ELSE CheckEntry(It[t \ {Max(t)}], list[Max(t)])]
  BY <1>4
<1> HIDE DEF It, D
<1>6. IsFold("entry", <<>>, b, list, 1..Len(list), It)
  BY <1>2, <1>5 DEF IsFold, Step
<1>7. PICK g : Runs("entry", <<>>, b, list, g) /\ It[1..Len(list)] = g[Len(list)]
  BY <1>2, <1>6, FoldRuns
<1> QED BY <1>1, <1>2, <1>7

LEMMA AppendNext ==
    ASSUME NEW f, NEW n \in Nat
    PROVE  Append([i \in 1..n |-> f[i]], f[n + 1]) = [i \in 1..(n + 1) |-> f[i]]
<1> DEFINE q == [i \in 1..n |-> f[i]]
           T == {f[i] : i \in 1..(n + 1)}
<1>1. q \in Seq(T) /\ f[n + 1] \in T /\ Len(q) = n
  OBVIOUS
<1>2. Append(q, f[n + 1]) = [i \in 1..(Len(q) + 1) |-> IF i = Len(q) + 1 THEN f[n + 1] ELSE q[i]]
  BY <1>1
<1> QED BY <1>1, <1>2

LEMMA UpTo ==
    ASSUME NEW n \in Nat, NEW P, 0 \in P, \A m \in 0..(n - 1) : m \in P => m + 1 \in P
    PROVE  n \in P
<1> DEFINE Q == {m \in Nat : m <= n => m \in P}
<1>1. 0 \in Q /\ Q \in SUBSET Nat
  OBVIOUS
<1>2. ASSUME NEW m \in Q PROVE m + 1 \in Q
  OBVIOUS
<1> HIDE DEF Q
<1>3. Q = Nat
  BY <1>1, <1>2, LeastNat
<1> QED BY <1>3 DEF Q

Ended(r) == r.stop = TRUE /\ r.err = "entry error"

LEMMA EntryStep ==
    ASSUME NEW cd, NEW s, NEW q, NEW e, ~IsNum(Field(e, "_exit"))
    PROVE  LET r == CheckEntry(Going(cd, s, q), e)
           IN r = Going(cd, s, Append(q, JudgedEntry(cd, e))) \/ Ended(r)
BY DEF CheckEntry, Going, JudgedEntry, Ended

\* Unless an entry ends the loop all of them are judged, each by itself.
LEMMA EntriesJudged ==
    ASSUME NEW S, NEW list \in Seq(S), NEW cd,
           \A i \in DOMAIN list : ~IsNum(Field(list[i], "_exit"))
    PROVE  LET r == FoldLeft(CheckEntry, Going(cd, cd.state, <<>>), list)
           IN \/ r = Going(cd, cd.state, [i \in DOMAIN list |-> JudgedEntry(cd, list[i])])
              \/ Ended(r)
<1> DEFINE n == Len(list)
           b == Going(cd, cd.state, <<>>)
           f == [i \in 1..n |-> JudgedEntry(cd, list[i])]
<1>1. PICK g : Runs("entry", <<>>, b, list, g) /\ FoldLeft(CheckEntry, b, list) = g[n]
  BY EntriesRun
<1>2. n \in Nat /\ DOMAIN list = 1..n
  OBVIOUS
<1> DEFINE Upto(m) == [i \in 1..m |-> f[i]]
           Good(m) == g[m] = Going(cd, cd.state, Upto(m)) \/ Ended(g[m])
           P == {m \in 0..n : Good(m)}
<1>3. Good(0)
  <2>1. g[0] = b
    BY <1>1 DEF Runs
  <2>2. Upto(0) = <<>>
    OBVIOUS
  <2> HIDE DEF Upto
  <2> QED BY <2>1, <2>2
<1>4. ASSUME NEW m \in 0..(n - 1), Good(m) PROVE Good(m + 1)
  <2>1. m + 1 \in 1..n /\ (m + 1) - 1 = m /\ m \in Nat
    BY <1>2
  <2>2. g[m + 1] = CheckEntry(g[m], list[m + 1])
    BY <1>1, <2>1 DEF Runs, Step
  <2>3. CASE Ended(g[m])
    BY <2>2, <2>3 DEF CheckEntry, Ended
  <2>4. CASE g[m] = Going(cd, cd.state, Upto(m))
    <3>1. f[m + 1] = JudgedEntry(cd, list[m + 1])
      BY <2>1
    <3>2. ~IsNum(Field(list[m + 1], "_exit"))
      BY <1>2, <2>1
    <3>3. Append(Upto(m), f[m + 1]) = Upto(m + 1)
      <4> HIDE DEF f
      <4> QED BY <2>1, AppendNext
    <3> HIDE DEF Upto, f
    <3> QED BY <2>2, <2>4, <3>1, <3>2, <3>3, EntryStep
  <2> QED BY <1>4, <2>3, <2>4
<1>5. Upto(n) = [i \in DOMAIN list |-> JudgedEntry(cd, list[i])]
  BY <1>2
<1> HIDE DEF Good, n
<1>6. n \in P
  <2>1. 0 \in P /\ \A m \in 0..(n - 1) : m \in P => m + 1 \in P
    BY <1>2, <1>3, <1>4
  <2> HIDE DEF P
  <2> QED BY <1>2, <2>1, UpTo
<1> QED BY <1>1, <1>5, <1>6 DEF Good

----------------------------------------------------------------------------
(* The loop over the metrics.                                               *)

Marked(e, s) == With(e, "_state", Num(s))

LEMMA MarkedFacts ==
    ASSUME NEW e, NEW a, NEW b
    PROVE  /\ Marked(Marked(e, a), b) = Marked(e, b)
           /\ Id(Marked(e, a)) = Id(e)
           /\ Has(Marked(e, a), "_state") /\ StateOf(Marked(e, a)) = a
           /\ \A k : k # "_state" => Has(Marked(e, a), k) = Has(e, k)
           /\ \A k : k # "_state" /\ Has(e, k) => Marked(e, a)[k] = e[k]
<1>1. DOMAIN Marked(e, a) = {"_state"} \union DOMAIN e
  BY DEF Marked, With
<1>2. Marked(e, a)["_state"] = Num(a)
  BY DEF Marked, With
<1>3. \A k \in DOMAIN e : k # "_state" => Marked(e, a)[k] = e[k]
  BY DEF Marked, With
<1>4. Marked(Marked(e, a), b) = Marked(e, b)
  BY DEF Marked, With
<1> QED BY <1>1, <1>2, <1>3, <1>4 DEF Id, Has, StateOf, Num

LEMMA VerdictRange == ASSUME NEW M PROVE Verdict(M) \in 0..3
BY DEF Verdict

LEMMA MetricsRun ==
    ASSUME NEW S, NEW list \in Seq(S), NEW b
    PROVE  \E g : Runs("metric", <<>>, b, list, g) /\ FoldLeft(CheckMetric, b, list) = g[Len(list)]
<1> DEFINE D == DOMAIN list
           It == CHOOSE f : f = [t \in SUBSET D |->
                    IF t = {} THEN b ELSE CheckMetric(f[t \ {Max(t)}], list[Max(t)])]
<1>1. FoldLeft(CheckMetric, b, list) = It[D]
  BY DEF FoldLeft, MapThenFoldSet
<1>2. D = 1..Len(list) /\ Len(list) \in Nat
  OBVIOUS
<1>3. PICK f : IsFold("metric", <<>>, b, list, 1..Len(list), f)
  BY <1>2, FoldExists
<1>4. f = [t \in SUBSET D |->
                    IF t = {} THEN b ELSE CheckMetric(f[t \ {Max(t)}], list[Max(t)])]
  BY <1>2, <1>3 DEF IsFold, Step
<1>5. It = [t \in SUBSET D |->
                    IF t = {} THEN b ELSE CheckMetric(It[t \ {Max(t)}], list[Max(t)])]
  BY <1>4
<1> HIDE DEF It, D
<1>6. IsFold("metric", <<>>, b, list, 1..Len(list), It)
  BY <1>2, <1>5 DEF IsFold, Step
<1>7. PICK g : Runs("metric", <<>>, b, list, g) /\ It[1..Len(list)] = g[Len(list)]
  BY <1>2, <1>6, FoldRuns
<1> QED BY <1>1, <1>2, <1>7

\* What the first m metrics make of entry e: nothing, or the state of one of
\* them that concerns it.
Source(cd, ms, e, m, x) ==
    \/ x = e
    \/ \E k \in 1..m : /\ Concerns(ms[k], e) /\ MetricState(cd, ms[k]) \in 1..3
                       /\ x = Marked(e, MetricState(cd, ms[k]))

\* The first m metrics turn the entries J into L and the state into s.
Carried(cd, ms, J, m, s, L) ==
    /\ s \in Nat
    /\ L = [i \in DOMAIN J |-> L[i]]
    /\ \A k \in 1..m : MetricState(cd, ms[k]) <= s
    /\ \A i \in DOMAIN J : Source(cd, ms, J[i], m, L[i])

MarkedBy(cd, m, e) ==
    IF MetricState(cd, m) # 0 /\ Concerns(m, e) THEN Marked(e, MetricState(cd, m)) ELSE e

LEMMA SourceStep ==
    ASSUME NEW cd, NEW ms, NEW e, NEW m \in Nat, NEW x, Source(cd, ms, e, m, x)
    PROVE  Source(cd, ms, e, m + 1, MarkedBy(cd, ms[m + 1], x))
<1> DEFINE t == MetricState(cd, ms[m + 1])
<1>1. t \in 0..3
  BY VerdictRange DEF MetricState
<1>2. Id(x) = Id(e) /\ Marked(x, t) = Marked(e, t)
  BY MarkedFacts DEF Source
<1>3. m + 1 \in 1..(m + 1) /\ 1..m \subseteq 1..(m + 1)
  OBVIOUS
<1>4. CASE t # 0 /\ Concerns(ms[m + 1], x)
  <2>1. t \in 1..3 /\ Concerns(ms[m + 1], e) /\ MarkedBy(cd, ms[m + 1], x) = Marked(e, t)
    BY <1>1, <1>2, <1>4 DEF Concerns, MarkedBy
  <2> QED BY <1>3, <2>1 DEF Source
<1>5. CASE ~(t # 0 /\ Concerns(ms[m + 1], x))
  BY <1>3, <1>5 DEF Source, MarkedBy
<1> QED BY <1>4, <1>5

LEMMA OverwriteGoing ==
    ASSUME NEW cd, NEW s, NEW L, NEW m, NEW t, t # 0
    PROVE  Overwrite(Going(cd, s, L), m, t) =
             Going(cd, Escalate(s, t),
                   [i \in DOMAIN L |-> IF Concerns(m, L[i]) THEN Marked(L[i], t) ELSE L[i]])
<1> DEFINE a == Going(cd, s, L)
           N == [i \in DOMAIN L |-> IF Concerns(m, L[i]) THEN Marked(L[i], t) ELSE L[i]]
           b == Overwrite(a, m, t)
           c == Going(cd, Escalate(s, t), N)
           D == {"cd", "stop", "err", "state", "list"}
<1>1. a.stop = FALSE /\ a.cd = cd /\ a.err = "" /\ a.state = s /\ a.list = L /\ DOMAIN a = D
  BY DEF Going
<1> HIDE DEF a, N
<1>2. b = [a EXCEPT !.state = Escalate(s, t), !.list = N]
  BY <1>1 DEF Overwrite, Marked, N
<1>3. DOMAIN b = D /\ b = [k \in D |-> b[k]]
  BY <1>1, <1>2
<1>4. DOMAIN c = D /\ c = [k \in D |-> c[k]]
  BY DEF Going
<1>5. b["cd"] = c["cd"] /\ b["stop"] = c["stop"] /\ b["err"] = c["err"]
  BY <1>1, <1>2 DEF Going
<1>6. b["state"] = c["state"]
  BY <1>1, <1>2 DEF Going
<1>7. b["list"] = c["list"]
  BY <1>1, <1>2 DEF Going
<1>8. b = c
  <2> HIDE DEF b, c
  <2> QED BY <1>3, <1>4, <1>5, <1>6, <1>7
<1> QED BY <1>8 DEF a, N

LEMMA MetricStep ==
    ASSUME NEW cd, NEW s \in Nat, NEW L, NEW m
    PROVE  CheckMetric(Going(cd, s, L), m) =
             IF MetricState(cd, m) = 0 THEN Going(cd, s, L)
             ELSE Going(cd, Escalate(s, MetricState(cd, m)), [i \in DOMAIN L |-> MarkedBy(cd, m, L[i])])
<1> DEFINE a == Going(cd, s, L)
           t == MetricState(cd, m)
           N == [i \in DOMAIN L |-> MarkedBy(cd, m, L[i])]
<1>1. a.stop = FALSE /\ a.cd = cd
  BY DEF Going
<1>2. CheckMetric(a, m) = Overwrite(a, m, t)
  BY <1>1 DEF CheckMetric
<1>3. CASE t = 0
  BY <1>2, <1>3 DEF Overwrite
<1>4. CASE t # 0
  <2>1. N = [i \in DOMAIN L |-> IF Concerns(m, L[i]) THEN Marked(L[i], t) ELSE L[i]]
    BY <1>4 DEF MarkedBy
  <2>2. Overwrite(a, m, t) = Going(cd, Escalate(s, t), N)
    <3> HIDE DEF t, N
    <3> QED BY <1>4, <2>1, OverwriteGoing
  <2> QED BY <1>2, <1>4, <2>2
<1> QED BY <1>3, <1>4

LEMMA CarriedStep ==
    ASSUME NEW cd, NEW ms, NEW J, NEW m \in Nat, NEW s, NEW L, Carried(cd, ms, J, m, s, L)
    PROVE  \E s2, L2 : /\ CheckMetric(Going(cd, s, L), ms[m + 1]) = Going(cd, s2, L2)
                       /\ Carried(cd, ms, J, m + 1, s2, L2)
<1> DEFINE t == MetricState(cd, ms[m + 1])
           L2 == [i \in DOMAIN L |-> MarkedBy(cd, ms[m + 1], L[i])]
<1>1. t \in 0..3 /\ s \in Nat /\ DOMAIN L = DOMAIN J /\ L = [i \in DOMAIN J |-> L[i]]
  BY VerdictRange DEF MetricState, Carried
<1>2. \A k \in 1..(m + 1) : k = m + 1 \/ k \in 1..m
  OBVIOUS
<1>3. \A i \in DOMAIN J : Source(cd, ms, J[i], m + 1, MarkedBy(cd, ms[m + 1], L[i]))
  BY SourceStep DEF Carried
<1>4. \A k \in 1..m : MetricState(cd, ms[k]) <= s
  BY DEF Carried
<1>5. \A k : MetricState(cd, ms[k]) \in 0..3
  BY VerdictRange DEF MetricState
<1>6. CASE t = 0
  <2>1. CheckMetric(Going(cd, s, L), ms[m + 1]) = Going(cd, s, L)
    BY <1>1, <1>6, MetricStep
  <2>2. \A i \in DOMAIN J : MarkedBy(cd, ms[m + 1], L[i]) = L[i]
    BY <1>6 DEF MarkedBy
  <2>3. Carried(cd, ms, J, m + 1, s, L)
    BY <1>1, <1>2, <1>3, <1>4, <1>6, <2>2 DEF Carried
  <2> QED BY <2>1, <2>3
<1>7. CASE t # 0
  <2> DEFINE s2 == Escalate(s, t)
  <2>1. CheckMetric(Going(cd, s, L), ms[m + 1]) = Going(cd, s2, L2)
    BY <1>1, <1>7, MetricStep
  <2>2. s2 \in Nat /\ t <= s2 /\ s <= s2
    BY <1>1 DEF Escalate
  <2>3. \A k \in 1..(m + 1) : MetricState(cd, ms[k]) <= s2
    <3> HIDE DEF s2
    <3> QED BY <1>1, <1>2, <1>4, <1>5, <2>2
  <2>4. L2 = [i \in DOMAIN J |-> L2[i]] /\ \A i \in DOMAIN J : L2[i] = MarkedBy(cd, ms[m + 1], L[i])
    BY <1>1
  <2> HIDE DEF s2, L2
  <2>5. Carried(cd, ms, J, m + 1, s2, L2)
    BY <1>3, <2>2, <2>3, <2>4 DEF Carried
  <2> QED BY <2>1, <2>5
<1> QED BY <1>6, <1>7

\* From entries that were judged, the metrics come to an end.
LEMMA MetricsJudged ==
    ASSUME NEW S, NEW ms \in Seq(S), NEW cd, NEW s \in Nat, NEW J, J = [i \in DOMAIN J |-> J[i]]
    PROVE  \E s2, L : /\ FoldLeft(CheckMetric, Going(cd, s, J), ms) = Going(cd, s2, L)
                      /\ Carried(cd, ms, J, Len(ms), s2, L)
<1> DEFINE n == Len(ms)
<1>1. PICK g : Runs("metric", <<>>, Going(cd, s, J), ms, g)
               /\ FoldLeft(CheckMetric, Going(cd, s, J), ms) = g[n]
  BY MetricsRun
<1>2. n \in Nat
  OBVIOUS
<1> DEFINE Good(m) == \E s2, L : g[m] = Going(cd, s2, L) /\ Carried(cd, ms, J, m, s2, L)
           P == {m \in 0..n : Good(m)}
<1>3. Good(0)
  <2>1. g[0] = Going(cd, s, J)
    BY <1>1 DEF Runs
  <2>2. Carried(cd, ms, J, 0, s, J)
    BY DEF Carried, Source
  <2> QED BY <2>1, <2>2
<1>4. ASSUME NEW m \in 0..(n - 1), Good(m) PROVE Good(m + 1)
  <2>1. m \in Nat /\ m + 1 \in 1..n /\ (m + 1) - 1 = m
    BY <1>2
  <2>2. g[m + 1] = CheckMetric(g[m], ms[m + 1])
    BY <1>1, <2>1 DEF Runs, Step
  <2> QED BY <1>4, <2>1, <2>2, CarriedStep
<1> HIDE DEF Good, n
<1>5. n \in P
  <2>1. 0 \in P /\ \A m \in 0..(n - 1) : m \in P => m + 1 \in P
    BY <1>2, <1>3, <1>4
  <2> HIDE DEF P
  <2> QED BY <1>2, <2>1, UpTo
<1> QED BY <1>1, <1>5 DEF Good, n

LEMMA EndedStays ==
    ASSUME NEW S, NEW ms \in Seq(S), NEW a, Ended(a)
    PROVE  FoldLeft(CheckMetric, a, ms) = a
<1> DEFINE n == Len(ms)
<1>1. PICK g : Runs("metric", <<>>, a, ms, g) /\ FoldLeft(CheckMetric, a, ms) = g[n]
  BY MetricsRun
<1>2. n \in Nat
  OBVIOUS
<1> DEFINE P == {m \in 0..n : g[m] = a}
<1>3. 0 \in P
  BY <1>1, <1>2 DEF Runs
<1>4. \A m \in 0..(n - 1) : m \in P => m + 1 \in P
  <2> SUFFICES ASSUME NEW m \in 0..(n - 1), g[m] = a PROVE g[m + 1] = a
    BY <1>2
  <2>1. m + 1 \in 1..n /\ (m + 1) - 1 = m
    BY <1>2
  <2> QED BY <1>1, <2>1 DEF Runs, Step, CheckMetric, Ended
<1> HIDE DEF P, n
<1>5. n \in P
  BY <1>2, <1>3, <1>4, UpTo
<1> QED BY <1>1, <1>5 DEF P, n

----------------------------------------------------------------------------
(* The counts.                                                              *)

LEMMA CountRuns ==
    ASSUME NEW S, NEW list \in Seq(S), NEW states
    PROVE  \E g : /\ Runs("count", <<states, Len(list) = 1>>, 0, list, g)
                  /\ CountOf(states, list) = g[Len(list)]
<1> DEFINE Add(n, e) == IF Has(e, "_state") /\ StateOf(e) \in states
                        THEN n + Weight(e, Len(list) = 1) ELSE n
           D == DOMAIN list
           par == <<states, Len(list) = 1>>
           It == CHOOSE f : f = [t \in SUBSET D |->
                    IF t = {} THEN 0 ELSE Add(f[t \ {Max(t)}], list[Max(t)])]
<1>1. CountOf(states, list) = It[D]
  BY DEF CountOf, FoldLeft, MapThenFoldSet
<1>2. D = 1..Len(list) /\ Len(list) \in Nat
  OBVIOUS
<1>3. PICK f : IsFold("count", par, 0, list, 1..Len(list), f)
  BY <1>2, FoldExists
<1>4. f = [t \in SUBSET D |->
                    IF t = {} THEN 0 ELSE Add(f[t \ {Max(t)}], list[Max(t)])]
  BY <1>2, <1>3 DEF IsFold, Step
<1>5. It = [t \in SUBSET D |->
                    IF t = {} THEN 0 ELSE Add(It[t \ {Max(t)}], list[Max(t)])]
  BY <1>4
<1> HIDE DEF It, D
<1>6. IsFold("count", par, 0, list, 1..Len(list), It)
  BY <1>2, <1>5 DEF IsFold, Step
<1>7. PICK g : Runs("count", par, 0, list, g) /\ It[1..Len(list)] = g[Len(list)]
  <2> HIDE DEF par
  <2> QED BY <1>2, <1>6, FoldRuns
<1> QED BY <1>1, <1>2, <1>7

CountsAtLeastOne(e) == Has(e, "_count") => e["_count"].n \in Nat \ {0}

\* What is there counts.
LEMMA CountPositive ==
    ASSUME NEW S, NEW list \in Seq(S), \A i \in DOMAIN list : CountsAtLeastOne(list[i]),
           NEW states, NEW j \in DOMAIN list,
           Has(list[j], "_state"), StateOf(list[j]) \in states
    PROVE  CountOf(states, list) \in Nat \ {0}
<1> DEFINE n == Len(list)
           par == <<states, Len(list) = 1>>
<1>1. PICK g : Runs("count", par, 0, list, g) /\ CountOf(states, list) = g[n]
  BY CountRuns
<1>2. n \in Nat /\ DOMAIN list = 1..n
  OBVIOUS
<1>3. \A i \in DOMAIN list : Weight(list[i], par[2]) \in Nat \ {0}
  BY DEF Weight, CountsAtLeastOne
<1> DEFINE Good(m) == g[m] \in Nat /\ (j <= m => g[m] # 0)
           P == {m \in 0..n : Good(m)}
<1>4. Good(0)
  BY <1>1, <1>2 DEF Runs
<1>5. ASSUME NEW m \in 0..(n - 1), Good(m) PROVE Good(m + 1)
  <2> DEFINE e == list[m + 1]  w == Weight(e, par[2])
  <2>1. m \in Nat /\ m + 1 \in 1..n /\ (m + 1) - 1 = m
    BY <1>2
  <2>2. g[m + 1] = IF Has(e, "_state") /\ StateOf(e) \in par[1] THEN g[m] + w ELSE g[m]
    <3> HIDE DEF par
    <3> QED BY <1>1, <2>1 DEF Runs, Step
  <2>3. w \in Nat \ {0}
    BY <1>2, <1>3, <2>1
  <2>4. m + 1 = j => Has(e, "_state") /\ StateOf(e) \in par[1]
    OBVIOUS
  <2>5. j \in Nat /\ (j <= m + 1 => j <= m \/ m + 1 = j)
    BY <1>2, <2>1
  <2> HIDE DEF e, w, par
  <2> QED BY <1>5, <2>1, <2>2, <2>3, <2>4, <2>5
<1> HIDE DEF Good, n
<1>6. n \in P
  <2>1. 0 \in P /\ \A m \in 0..(n - 1) : m \in P => m + 1 \in P
    BY <1>2, <1>4, <1>5
  <2> HIDE DEF P
  <2> QED BY <1>2, <2>1, UpTo
<1>7. j <= n
  BY <1>2
<1> QED BY <1>1, <1>6, <1>7 DEF Good

Keywords == {"warn", "warning", "warn+", "warning+", "crit", "critical", "crit+", "critical+",
             "unknown", "unknown+"}

\* The state of the whole is the worst of what it is made of.
LEMMA WorstOfAll ==
    ASSUME NEW cd, NEW s \in Nat, NEW L, NEW details
    PROVE  LET v == SetStateFromMaps(cd, s, Check(cd, Counts(L)), Check(cd, details))
           IN /\ v \in Nat /\ s <= v
              /\ cd.supplied \intersect Keywords = {} =>
                    \A k \in 1..3 : CountOf({k}, L) # 0 => k <= v
<1> DEFINE c == Counts(L)
           macros == Check(cd, c)
           a == Escalate(s, StateOf(macros))
           b == EscalateFromCounts(cd, a, macros)
           t == StateOf(Check(cd, details))
<1>1. \A d : StateOf(Check(cd, d)) \in 0..3
  BY MarkedFacts, VerdictRange DEF Check, Marked, StateFor
<1>2. a \in Nat /\ s <= a
  BY <1>1 DEF Escalate
<1>3. /\ macros["warn_count"] = Num(CountOf({1}, L))
      /\ macros["crit_count"] = Num(CountOf({2}, L))
      /\ macros["unknown_count"] = Num(CountOf({3}, L))
  <2>1. /\ c["warn_count"] = Num(CountOf({1}, L)) /\ "warn_count" \in DOMAIN c
        /\ c["crit_count"] = Num(CountOf({2}, L)) /\ "crit_count" \in DOMAIN c
        /\ c["unknown_count"] = Num(CountOf({3}, L)) /\ "unknown_count" \in DOMAIN c
    BY DEF Counts
  <2> HIDE DEF c
  <2> QED BY <2>1, MarkedFacts DEF Check, Marked, Has
<1>4. \A x, y : Num(x) = Num(y) => x = y
  BY DEF Num
<1> HIDE DEF macros, a
<1>5. b \in Nat /\ a <= b
  BY <1>2 DEF EscalateFromCounts, Escalate
<1>6. ASSUME cd.supplied \intersect Keywords = {}
      PROVE  \A k \in 1..3 : CountOf({k}, L) # 0 => k <= b
  <2>1. /\ {"warn", "warning", "warn+", "warning+"} \intersect cd.supplied = {}
        /\ {"crit", "critical", "crit+", "critical+"} \intersect cd.supplied = {}
        /\ {"unknown", "unknown+"} \intersect cd.supplied = {}
    BY <1>6 DEF Keywords
  <2>2. /\ CountOf({1}, L) # 0 => macros["warn_count"] # Num(0)
        /\ CountOf({2}, L) # 0 => macros["crit_count"] # Num(0)
        /\ CountOf({3}, L) # 0 => macros["unknown_count"] # Num(0)
    BY <1>3, <1>4
  <2>3. /\ CountOf({1}, L) # 0 => 1 <= b
        /\ CountOf({2}, L) # 0 => 2 <= b
        /\ CountOf({3}, L) # 0 => 3 <= b
    BY <1>2, <2>1, <2>2 DEF EscalateFromCounts, Escalate
  <2> HIDE DEF b
  <2> QED BY <2>3
<1> DEFINE v == Escalate(b, t)
<1>7. t \in 0..3
  BY <1>1
<1> HIDE DEF b, t
<1>8. v \in Nat /\ b <= v
  BY <1>5, <1>7 DEF Escalate
<1> HIDE DEF v
<1>9. SetStateFromMaps(cd, s, Check(cd, Counts(L)), Check(cd, details)) = v
  BY DEF SetStateFromMaps, v, b, t, a, macros
<1> QED BY <1>2, <1>5, <1>6, <1>8, <1>9

----------------------------------------------------------------------------
(* The whole.                                                               *)

\* A check that judges its list: it is no inventory, and no entry ends it with
\* a state of its own (_exit, which only check_ntp_offset knows).  Thresholds
\* take the place of the counts only in check_multi (checkdata.go 504-521),
\* whose entries are not judged.
Judges(cd) ==
    /\ cd.state \in Nat /\ ~cd.inventory
    /\ \A i \in DOMAIN cd.list :
          CountsAtLeastOne(cd.list[i]) /\ ~IsNum(Field(cd.list[i], "_exit"))
    /\ \/ cd.supplied \intersect Keywords = {}
       \/ \A i \in DOMAIN cd.list : Field(cd.list[i], "_skip") = Num(1)

\* The loops come to an end with all entries judged, or with an error.
LEMMA ListIsChecked ==
    ASSUME NEW S, NEW ms \in Seq(S), NEW T, NEW F \in Seq(T), NEW cd,
           cd.metrics = ms, Filter(cd.filter, cd.list) = F, cd.state \in Nat,
           \A i \in DOMAIN F : ~IsNum(Field(F[i], "_exit"))
    PROVE  \/ Ended(CheckList(cd))
           \/ \E s, L : /\ CheckList(cd) = Going(cd, s, L)
                        /\ Carried(cd, ms, [i \in DOMAIN F |-> JudgedEntry(cd, F[i])],
                                   Len(ms), s, L)
<1> DEFINE start == Going(cd, cd.state, <<>>)
           acc == FoldLeft(CheckEntry, start, F)
           J == [i \in DOMAIN F |-> JudgedEntry(cd, F[i])]
<1>1. CheckList(cd) = FoldLeft(CheckMetric, acc, ms)
  BY DEF CheckList, Going
<1>2. acc = Going(cd, cd.state, J) \/ Ended(acc)
  BY EntriesJudged
<1>3. J = [i \in DOMAIN J |-> J[i]]
  OBVIOUS
<1> HIDE DEF acc, J
<1>4. CASE Ended(acc)
  BY <1>1, <1>4, EndedStays
<1>5. CASE acc = Going(cd, cd.state, J)
  BY <1>1, <1>3, <1>5, MetricsJudged DEF J
<1> QED BY <1>2, <1>4, <1>5

LEMMA MarkedCounts ==
    ASSUME NEW e, NEW x, CountsAtLeastOne(e)
    PROVE  CountsAtLeastOne(Marked(e, x))
<1> SUFFICES ASSUME Has(Marked(e, x), "_count")
             PROVE  Marked(e, x)["_count"].n \in Nat \ {0}
  BY DEF CountsAtLeastOne
<1>1. "_count" # "_state"
  OBVIOUS
<1>2. Has(e, "_count")
  BY <1>1, MarkedFacts
<1>3. Marked(e, x)["_count"] = e["_count"]
  BY <1>1, <1>2, MarkedFacts
<1>4. e["_count"].n \in Nat \ {0}
  BY <1>2 DEF CountsAtLeastOne
<1> QED BY <1>3, <1>4

\* Judging takes no entry's weight.
LEMMA JudgedCounts ==
    ASSUME NEW cd, NEW ms, NEW m, NEW s, NEW L, NEW T, NEW F \in Seq(T),
           \A i \in DOMAIN F : CountsAtLeastOne(F[i]),
           Carried(cd, ms, [i \in DOMAIN F |-> JudgedEntry(cd, F[i])], m, s, L)
    PROVE  /\ L \in Seq({L[i] : i \in DOMAIN L})
           /\ \A i \in DOMAIN L : CountsAtLeastOne(L[i])
<1> DEFINE J == [i \in DOMAIN F |-> JudgedEntry(cd, F[i])]
<1>1. DOMAIN J = DOMAIN F /\ L = [i \in DOMAIN F |-> L[i]]
  BY DEF Carried
<1>2. \A e, x : CountsAtLeastOne(e) => CountsAtLeastOne(Marked(e, x))
  BY MarkedCounts
<1>3. \A i \in DOMAIN F : CountsAtLeastOne(J[i])
  BY <1>2 DEF JudgedEntry, Check, Marked
<1>4. \A i \in DOMAIN F : Source(cd, ms, J[i], m, L[i])
  BY DEF Carried
<1> HIDE DEF J
<1>5. \A i \in DOMAIN F : CountsAtLeastOne(L[i])
  BY <1>2, <1>3, <1>4 DEF Source
<1>6. DOMAIN F = 1..Len(F) /\ Len(F) \in Nat /\ DOMAIN L = DOMAIN F
  BY <1>1
<1>7. L \in Seq({L[i] : i \in DOMAIN L})
  BY <1>1, <1>6
<1> QED BY <1>5, <1>6, <1>7

LEMMA GoingGoesOn ==
    ASSUME NEW cd, NEW s, NEW L
    PROVE  ~Going(cd, s, L).stop
BY DEF Going

\* What finalizeOutput makes of a list without error.
LEMMA OutputOfJudged ==
    ASSUME NEW cd, NEW s, NEW L, CheckList(cd) = Going(cd, s, L),
           ~cd.inventory, Finalize(cd).err = ""
    PROVE  LET v == SetStateFromMaps(cd, s, Check(cd, Counts(L)), Check(cd, cd.details))
           IN /\ Finalize(cd).list = L
              /\ L # <<>> => Finalize(cd).state = v
<1> DEFINE judged == CheckList(cd)
           macros == Check(cd, Counts(judged.list))
           details == Check(cd, cd.details)
           out == FinalizeOutput(cd, judged, macros, details)
<1>1. judged.err = "" /\ ~judged.stop /\ judged.list = L /\ judged.state = s
  <2>1. judged = Going(cd, s, L)
    OBVIOUS
  <2> HIDE DEF judged
  <2>3. judged.err = "" /\ judged.list = L /\ judged.state = s
    <3> HIDE DEF macros, details, out
    <3>1. judged.list = L
      BY <2>1 DEF Going
    <3>2. judged.state = s
      BY <2>1 DEF Going
    <3>3. judged.err = ""
      BY <2>1 DEF Going
    <3> QED BY <3>1, <3>2, <3>3
  <2>4. ~judged.stop
    BY <2>1, GoingGoesOn
  <2> QED BY <2>3, <2>4
<1>2. Finalize(cd) = out
  BY DEF Finalize, JudgeCounts
<1> HIDE DEF judged, macros, details
<1>3. out.list = judged.list
  BY DEF FinalizeOutput
<1>4. cd.err = ""
  <2>1. cd.err # "" => out.err = cd.err
    BY DEF FinalizeOutput
  <2>2. out.err = ""
    BY <1>2
  <2> QED BY <2>1, <2>2
<1>5. out.state = EmptyState(cd, judged.list, SetStateFromMaps(cd, judged.state, macros, details))
  BY <1>1, <1>4 DEF FinalizeOutput
<1>6. L # <<>> => out.state = SetStateFromMaps(cd, s, macros, details)
  BY <1>1, <1>5 DEF EmptyState
<1> QED BY <1>1, <1>2, <1>3, <1>6 DEF macros, details

LEMMA NoErrorNotEnded ==
    ASSUME NEW cd, ~cd.inventory, Finalize(cd).err = ""
    PROVE  ~Ended(CheckList(cd))
<1> SUFFICES ASSUME Ended(CheckList(cd)) PROVE FALSE
  OBVIOUS
<1> DEFINE judged == CheckList(cd)
           macros == Check(cd, Counts(judged.list))
           details == Check(cd, cd.details)
           out == FinalizeOutput(cd, judged, macros, details)
<1>1. judged.err = "entry error"
  BY DEF Ended
<1>2. Finalize(cd) = out
  BY DEF Finalize, JudgeCounts
<1> HIDE DEF judged, macros, details
<1>3. out.err # ""
  BY <1>1 DEF FinalizeOutput
<1> QED BY <1>2, <1>3

\* What a list holds is what stands at its places.
LEMMA PlaceOf ==
    ASSUME NEW S, NEW q \in Seq(S), NEW x \in Range(q)
    PROVE  \E k \in 1..Len(q) : x = q[k]
<1>1. DOMAIN q = 1..Len(q)
  OBVIOUS
<1> QED BY <1>1 DEF Range

LEMMA PlaceNotEmpty ==
    ASSUME NEW L, NEW k \in DOMAIN L
    PROVE  L # <<>>
<1>1. DOMAIN <<>> = {}
  OBVIOUS
<1> QED BY <1>1

\* A filtered list holds what the filter keeps, and only entries of the list.
Filtered(F, conds, given) ==
    /\ F = Filter(conds, given)
    /\ F \in Seq({given[i] : i \in DOMAIN given})
    /\ \A j \in DOMAIN F : \E i \in DOMAIN given : F[j] = given[i]
    /\ \A i \in DOMAIN given : Kept(conds, given[i]) => \E j \in DOMAIN F : F[j] = given[i]

LEMMA FilteredFrom ==
    ASSUME NEW S, NEW given \in Seq(S), NEW conds
    PROVE  Filtered(Filter(conds, given), conds, given)
<1> DEFINE T == {given[i] : i \in DOMAIN given}
<1>1. given \in Seq(T)
  OBVIOUS
<1>2. \A x \in T : \E i \in DOMAIN given : x = given[i]
  OBVIOUS
<1> HIDE DEF T
<1>3. /\ Filter(conds, given) \in Seq(T)
       /\ \A i \in DOMAIN given :
            Kept(conds, given[i]) =>
                \E j \in DOMAIN Filter(conds, given) : Filter(conds, given)[j] = given[i]
  BY <1>1, FilterKeeps
<1>4. PICK F \in Seq(T) :
        /\ F = Filter(conds, given)
        /\ \A i \in DOMAIN given :
              Kept(conds, given[i]) =>
                  \E j \in DOMAIN F : F[j] = given[i]
  BY <1>3
<1>5. \A j \in DOMAIN F : F[j] \in T
  OBVIOUS
<1>6. \A j \in DOMAIN F : \E i \in DOMAIN given : F[j] = given[i]
  BY <1>2, <1>5
<1>7. T = {given[i] : i \in DOMAIN given}
  BY DEF T
<1> QED BY <1>4, <1>6, <1>7 DEF Filtered

\* A metric's state is a number that none of the states after it undercuts.
LEMMA MetricUnder ==
    ASSUME NEW cd, NEW m, NEW s \in Nat, NEW v \in Nat, s <= v, MetricState(cd, m) <= s
    PROVE  MetricState(cd, m) <= v
<1> DEFINE t == MetricState(cd, m)
<1>1. t \in 0..3
  BY VerdictRange DEF MetricState
<1>2. t <= s
  OBVIOUS
<1> HIDE DEF t
<1>3. t <= v
  BY <1>1, <1>2
<1> QED BY <1>3 DEF t

\* An entry of those the metrics leave behind.
LEMMA EntryIsCovered ==
    ASSUME NEW cd, NEW e, NEW M, NEW ms \in Seq(M), cd.metrics = ms,
           NEW s \in Nat, NEW v \in Nat, s <= v,
           \A k \in 1..Len(ms) : MetricState(cd, ms[k]) <= s,
           NEW x, Source(cd, ms, Marked(e, StateFor(cd, e)), Len(ms), x),
           x = Marked(e, StateFor(cd, e)) => StateFor(cd, e) <= v
    PROVE  StateFor(cd, e) <= v \/ Replaced(cd, e)
<1> DEFINE q == StateFor(cd, e)
<1>1. q \in 0..3
  BY VerdictRange DEF StateFor
<1>2. CASE x = Marked(e, q)
  BY <1>2
<1>3. CASE x # Marked(e, q)
  <2>1. PICK k \in 1..Len(ms) : /\ Concerns(ms[k], Marked(e, q))
                               /\ MetricState(cd, ms[k]) \in 1..3
    <3> HIDE DEF q
    <3> QED BY <1>3 DEF Source, q
  <2> DEFINE m == ms[k]  t == MetricState(cd, m)
  <2>2. Concerns(m, e)
    <3> HIDE DEF q, m
    <3>1. Concerns(m, Marked(e, q))
      BY <2>1 DEF m
    <3>2. Id(Marked(e, q)) = Id(e)
      BY MarkedFacts
    <3> QED BY <3>1, <3>2 DEF Concerns
  <2>3. m \in Range(cd.metrics)
    <3>1. k \in DOMAIN ms
      OBVIOUS
    <3> QED BY <3>1 DEF Range
  <2>4. t \in 1..3 /\ t <= s
    BY <2>1
  <2>5. t \in 1..(q - 1) => Replaced(cd, e)
    BY <2>2, <2>3 DEF Replaced
  <2> HIDE DEF q, t
  <2>6. q <= v \/ t \in 1..(q - 1)
    BY <1>1, <2>4
  <2> QED BY <2>5, <2>6 DEF q
<1> QED BY <1>2, <1>3

\* The entries once they are judged, against a state that is the worst of all.
LEMMA EntriesAreCovered ==
    ASSUME NEW cd, NEW M, NEW ms \in Seq(M), cd.metrics = ms, NEW T, NEW F \in Seq(T),
           \A i \in DOMAIN F : CountsAtLeastOne(F[i]),
           NEW s, NEW L,
           Carried(cd, ms, [i \in DOMAIN F |-> JudgedEntry(cd, F[i])], Len(ms), s, L),
           NEW v \in Nat, s <= v,
           cd.supplied \intersect Keywords = {}, \A k \in 1..3 : CountOf({k}, L) # 0 => k <= v,
           NEW j \in DOMAIN F, Field(F[j], "_skip") # Num(1)
    PROVE  StateFor(cd, F[j]) <= v \/ Replaced(cd, F[j])
<1> DEFINE e == F[j]
           q == StateFor(cd, e)
           J == [i \in DOMAIN F |-> JudgedEntry(cd, F[i])]
<1>1. DOMAIN J = DOMAIN F /\ J[j] = Marked(e, q)
  BY DEF JudgedEntry, Check, Marked
<1>2. L \in Seq({L[i] : i \in DOMAIN L}) /\ \A i \in DOMAIN L : CountsAtLeastOne(L[i])
  BY JudgedCounts
<1>3. j \in DOMAIN L
  BY <1>1 DEF Carried
<1>4. Source(cd, ms, J[j], Len(ms), L[j])
  BY <1>1 DEF Carried
<1>5. s \in Nat /\ \A k \in 1..Len(ms) : MetricState(cd, ms[k]) <= s
  BY DEF Carried
<1>6. q \in 0..3
  BY VerdictRange DEF StateFor
<1>7. ASSUME L[j] = Marked(e, q) PROVE q <= v
  <2> HIDE DEF e, q, J
  <2>1. Has(Marked(e, q), "_state") /\ StateOf(Marked(e, q)) = q
    BY MarkedFacts
  <2>2. Has(L[j], "_state") /\ StateOf(L[j]) = q
    BY <1>7, <2>1
  <2>3. CountOf({q}, L) \in Nat \ {0}
    BY <1>2, <1>3, <2>2, CountPositive
  <2>4. CountOf({q}, L) # 0
    BY <2>3
  <2>5. q \in 1..3 => q <= v
    BY <2>4
  <2>6. q = 0 \/ q \in 1..3
    BY <1>6
  <2>7. 0 <= v
    OBVIOUS
  <2> QED BY <2>5, <2>6, <2>7
<1>8. Source(cd, ms, Marked(e, q), Len(ms), L[j])
  BY <1>1, <1>4
<1> HIDE DEF e, J
<1> QED BY <1>5, <1>7, <1>8, EntryIsCovered DEF e

\* Finalize loses no problem, whatever the conditions of the check are and
\* however they match (checkdata.go 162-293): of the entries that the filter
\* keeps, and of the metrics, none is worse than the state that is returned,
\* except an entry whose state one of its metrics has replaced.
THEOREM NothingIsHidden ==
    ASSUME NEW Entries, NEW Metrics, NEW cd,
           cd.list \in Seq(Entries), cd.metrics \in Seq(Metrics),
           Judges(cd), Finalize(cd).err = ""
    PROVE  HidesNothing(cd, Finalize(cd))
<1>1. PICK ms \in Seq(Metrics) : ms = cd.metrics
  OBVIOUS
<1>2. PICK given \in Seq(Entries) : given = cd.list
  OBVIOUS
<1>3. PICK r : r = Finalize(cd)
  OBVIOUS
<1>4. PICK T : T = {given[i] : i \in DOMAIN given}
  OBVIOUS
<1>5. PICK F \in Seq(T) :
        /\ F = Filter(cd.filter, given)
        /\ \A j \in DOMAIN F : \E i \in DOMAIN given : F[j] = given[i]
        /\ \A i \in DOMAIN given : PassesFilter(cd, given[i]) =>
              \E j \in DOMAIN F : F[j] = given[i]
  <2>1. Filtered(Filter(cd.filter, given), cd.filter, given)
    BY FilteredFrom
  <2> QED BY <1>4, <2>1 DEF Filtered, PassesFilter, Kept
<1>6. \A i \in DOMAIN given : CountsAtLeastOne(given[i]) /\ ~IsNum(Field(given[i], "_exit"))
  BY <1>2 DEF Judges
<1>7. \A i \in DOMAIN F : CountsAtLeastOne(F[i]) /\ ~IsNum(Field(F[i], "_exit"))
  BY <1>5, <1>6
<1>8. cd.state \in Nat /\ ~cd.inventory
  BY DEF Judges
<1>9. PICK s, L : /\ CheckList(cd) = Going(cd, s, L)
                   /\ Carried(cd, ms, [i \in DOMAIN F |-> JudgedEntry(cd, F[i])], Len(ms), s, L)
  <2>1. ~Ended(CheckList(cd))
    BY <1>8, NoErrorNotEnded
  <2>2. Filter(cd.filter, cd.list) = F
    BY <1>2, <1>5
  <2> QED BY <1>1, <1>7, <1>8, <2>1, <2>2, ListIsChecked
<1>10. PICK v : v = SetStateFromMaps(cd, s, Check(cd, Counts(L)), Check(cd, cd.details))
  OBVIOUS
<1>11. r.list = L /\ (L # <<>> => r.state = v)
  BY <1>3, <1>8, <1>9, <1>10, OutputOfJudged
<1>12. s \in Nat /\ \A k \in 1..Len(ms) : MetricState(cd, ms[k]) <= s
  BY <1>9 DEF Carried
<1>13. /\ v \in Nat /\ s <= v
       /\ cd.supplied \intersect Keywords = {} =>
             \A k \in 1..3 : CountOf({k}, L) # 0 => k <= v
  BY <1>10, <1>12, WorstOfAll
<1>14. ASSUME NEW m \in Range(ms), L # <<>> PROVE MetricState(cd, m) <= r.state
  <2>1. PICK k \in 1..Len(ms) : m = ms[k]
    BY <1>14, PlaceOf
  <2>2. MetricState(cd, m) <= s
    BY <1>12, <2>1
  <2>3. MetricState(cd, m) <= v
    BY <1>12, <1>13, <2>2, MetricUnder
  <2>4. r.state = v
    BY <1>11, <1>14
  <2> QED BY <2>3, <2>4
<1>15. ASSUME NEW i \in DOMAIN given, PassesFilter(cd, given[i]), Field(given[i], "_skip") # Num(1)
       PROVE  StateFor(cd, given[i]) <= r.state \/ Replaced(cd, given[i])
  <2>1. PICK j \in DOMAIN F : F[j] = given[i]
    BY <1>5, <1>15
  <2>2. cd.supplied \intersect Keywords = {}
    BY <1>2, <1>15 DEF Judges
  <2>3. L # <<>>
    <3>1. DOMAIN L = DOMAIN F
      BY <1>9 DEF Carried
    <3> QED BY <2>1, <3>1, PlaceNotEmpty
  <2>4. StateFor(cd, F[j]) <= v \/ Replaced(cd, F[j])
    BY <1>1, <1>7, <1>9, <1>13, <1>15, <2>1, <2>2, EntriesAreCovered
  <2> QED BY <1>11, <2>1, <2>3, <2>4
<1>16. \A e \in Range(cd.list) :
         PassesFilter(cd, e) /\ Field(e, "_skip") # Num(1) =>
             StateFor(cd, e) <= r.state \/ Replaced(cd, e)
  BY <1>2, <1>15 DEF Range
<1>17. \A m \in Range(cd.metrics) : MetricState(cd, m) <= r.state \/ r.list = <<>>
  BY <1>1, <1>11, <1>14
<1> QED BY <1>3, <1>16, <1>17 DEF HidesNothing

----------------------------------------------------------------------------
(* Ranges.                                                                  *)

\* A finite collection of numbers has a greatest and a least.
LEMMA Extremes ==
    ASSUME NEW n \in Nat, NEW f \in [1..n -> Int], NEW I \in SUBSET (1..n), I # {}
    PROVE  /\ \E i \in I : \A j \in I : f[j] <= f[i]
           /\ \E i \in I : \A j \in I : f[i] <= f[j]
<1> DEFINE Top(J) == \E i \in J : \A j \in J : f[j] <= f[i]
           Low(J) == \E i \in J : \A j \in J : f[i] <= f[j]
           P == {m \in Nat : m <= n => \A J \in SUBSET (1..m) : J # {} => Top(J) /\ Low(J)}
<1>1. 0 \in P
  <2>1. \A J \in SUBSET (1..0) : J = {}
    OBVIOUS
  <2> HIDE DEF Top, Low
  <2> QED BY <2>1
<1>2. ASSUME NEW m \in P PROVE m + 1 \in P
  <2> SUFFICES ASSUME m + 1 <= n, NEW J \in SUBSET (1..(m + 1)), J # {}
               PROVE  Top(J) /\ Low(J)
    OBVIOUS
  <2> DEFINE K == J \ {m + 1}
  <2>1. K \in SUBSET (1..m) /\ m + 1 \in 1..n /\ m <= n /\ J \subseteq 1..n
    OBVIOUS
  <2>2. \A j \in 1..n : f[j] \in Int
    OBVIOUS
  <2>3. CASE m + 1 \notin J
    <3>1. J = K
      BY <2>3
    <3>2. J \in SUBSET (1..m)
      BY <3>1, <2>1
    <3> QED BY <2>1, <3>2
  <2>4. CASE J = {m + 1}
    BY <2>1, <2>2, <2>4
  <2>5. CASE m + 1 \in J /\ J # {m + 1}
    <3>1. K # {} /\ J = K \union {m + 1}
      BY <2>5
    <3>2. Top(K) /\ Low(K)
      BY <2>1, <3>1
    <3>3. PICK a \in K : \A j \in K : f[j] <= f[a]
      BY <3>2
    <3>4. PICK b \in K : \A j \in K : f[b] <= f[j]
      BY <3>2
    <3>5. \A j \in J : f[j] \in Int
      BY <2>1, <2>2
    <3> HIDE DEF K
    <3>6. Top(J)
      <4>1. CASE f[a] <= f[m + 1]
        <5>1. \A j \in J : f[j] <= f[m + 1]
          BY <4>1, <3>1, <3>3, <3>5
        <5> QED BY <5>1, <3>1
      <4>2. CASE ~(f[a] <= f[m + 1])
        <5>1. \A j \in J : f[j] <= f[a]
          BY <4>2, <3>1, <3>3, <3>5
        <5> QED BY <5>1, <3>1
      <4> QED BY <4>1, <4>2
    <3>7. Low(J)
      <4>1. CASE f[m + 1] <= f[b]
        <5>1. \A j \in J : f[m + 1] <= f[j]
          BY <4>1, <3>1, <3>4, <3>5
        <5> QED BY <5>1, <3>1
      <4>2. CASE ~(f[m + 1] <= f[b])
        <5>1. \A j \in J : f[b] <= f[j]
          BY <4>2, <3>1, <3>4, <3>5
        <5> QED BY <5>1, <3>1
      <4> QED BY <4>1, <4>2
    <3> QED BY <3>6, <3>7
  <2> QED BY <2>3, <2>4, <2>5
<1> HIDE DEF P
<1>3. P = Nat
  <2>1. P \in SUBSET Nat
    BY DEF P
  <2> QED BY <1>1, <1>2, <2>1, LeastNat
<1>4. n \in P
  BY <1>3
<1> QED BY <1>4 DEF P

\* The comparison is one with a number that can be the bound of a range: up to
\* the nearest whole number, so from 1 on for "at least".
LimitsNumber(c) ==
    /\ c.op \in {">", ">=", "<", "<="}
    /\ IsNum(c.val) /\ c.val.n \in Nat
    /\ c.op \in {">=", "<"} => c.val.n > 0
Upward(c) == c.op \in {">", ">="}
Bound(c) ==
    CASE c.op = ">=" -> c.val.n - 1 [] c.op = "<=" -> c.val.n + 1 [] OTHER -> c.val.n

\* A comparison holds of a number beyond its bound.
LEMMA LeafIsBound ==
    ASSUME NEW c, LimitsNumber(c)
    PROVE  /\ Bound(c) \in Nat /\ (~Upward(c) => Bound(c) > 0)
           /\ LeafThresholdBounds(c) =
                IF Upward(c) THEN [greater |-> {Bound(c)}, lower |-> {}]
                ELSE [greater |-> {}, lower |-> {Bound(c)}]
           /\ \A x \in Int : CompareNumbers(c.op, x, c.val.n) <=>
                                IF Upward(c) THEN x > Bound(c) ELSE x < Bound(c)
<1> DEFINE v == c.val.n
<1>1. /\ v \in Nat /\ IsNum(c.val) /\ c.op \in {">", ">=", "<", "<="}
      /\ c.op \in {">=", "<"} => v > 0
  BY DEF LimitsNumber
<1>2. Bound(c) = IF c.op = ">=" THEN v - 1 ELSE IF c.op = "<=" THEN v + 1 ELSE v
  BY <1>1 DEF Bound
<1>3. Bound(c) \in Nat /\ (~Upward(c) => Bound(c) > 0)
  BY <1>1, <1>2 DEF Upward
<1>4. LeafThresholdBounds(c) =
        CASE c.op \in {">", "=", "!="} -> [greater |-> {v}, lower |-> {}]
          [] c.op = ">=" -> [greater |-> {IF v > 0 THEN v - 1 ELSE v}, lower |-> {}]
          [] c.op = "<" -> [greater |-> {}, lower |-> {v}]
          [] c.op = "<=" -> [greater |-> {}, lower |-> {v + 1}]
          [] OTHER -> NoBounds
  BY <1>1 DEF LeafThresholdBounds
<1> HIDE DEF v
<1>5. LeafThresholdBounds(c) =
        IF Upward(c) THEN [greater |-> {Bound(c)}, lower |-> {}]
        ELSE [greater |-> {}, lower |-> {Bound(c)}]
  <2>1. CASE c.op = ">"
    BY <1>1, <1>2, <1>4, <2>1 DEF Upward
  <2>2. CASE c.op = ">="
    BY <1>1, <1>2, <1>4, <2>2 DEF Upward
  <2>3. CASE c.op = "<"
    BY <1>1, <1>2, <1>4, <2>3 DEF Upward
  <2>4. CASE c.op = "<="
    BY <1>1, <1>2, <1>4, <2>4 DEF Upward
  <2> QED BY <1>1, <2>1, <2>2, <2>3, <2>4
<1>6. ASSUME NEW x \in Int
      PROVE  CompareNumbers(c.op, x, v) <=>
                IF Upward(c) THEN x > Bound(c) ELSE x < Bound(c)
  BY <1>1, <1>2 DEF CompareNumbers, Upward
<1> QED BY <1>3, <1>5, <1>6 DEF v

\* The comparisons of a list, by their direction.
Ups(list) == {i \in DOMAIN list : Upward(list[i])}
Downs(list) == {i \in DOMAIN list : ~Upward(list[i])}
Bounds(list, I) == {Bound(list[i]) : i \in I}
Leaves(list) == {LeafThresholdBounds(list[i]) : i \in DOMAIN list}

LEMMA BoundsAreExtreme ==
    ASSUME NEW n \in Nat, NEW list, DOMAIN list = 1..n,
           \A i \in 1..n : LimitsNumber(list[i]),
           NEW I \in SUBSET (1..n), I # {}
    PROVE  /\ \E i \in I : /\ Greatest(Bounds(list, I)) = Bound(list[i])
                          /\ \A j \in I : Bound(list[j]) <= Bound(list[i])
           /\ \E i \in I : /\ Least(Bounds(list, I)) = Bound(list[i])
                          /\ \A j \in I : Bound(list[i]) <= Bound(list[j])
<1> DEFINE f == [i \in 1..n |-> Bound(list[i])]
<1>1. f \in [1..n -> Int] /\ \A i \in 1..n : f[i] = Bound(list[i]) /\ f[i] \in Int
  BY LeafIsBound
<1>2. Bounds(list, I) = {f[i] : i \in I}
  BY <1>1 DEF Bounds
<1> HIDE DEF f
<1>3. PICK a \in I : \A j \in I : f[j] <= f[a]
  BY <1>1, Extremes
<1>4. PICK b \in I : \A j \in I : f[b] <= f[j]
  BY <1>1, Extremes
<1>5. Greatest(Bounds(list, I)) = f[a]
  <2>1. f[a] \in Bounds(list, I) /\ \A y \in Bounds(list, I) : y <= f[a]
    BY <1>2, <1>3
  <2>2. \A x \in Bounds(list, I) : (\A y \in Bounds(list, I) : y <= x) => x = f[a]
    <3>1. \A x \in Bounds(list, I) : x \in Int
      BY <1>1, <1>2
    <3> QED BY <2>1, <3>1
  <2> QED BY <2>1, <2>2 DEF Greatest
<1>6. Least(Bounds(list, I)) = f[b]
  <2>1. f[b] \in Bounds(list, I) /\ \A y \in Bounds(list, I) : f[b] <= y
    BY <1>2, <1>4
  <2>2. \A x \in Bounds(list, I) : (\A y \in Bounds(list, I) : x <= y) => x = f[b]
    <3>1. \A x \in Bounds(list, I) : x \in Int
      BY <1>1, <1>2
    <3> QED BY <2>1, <3>1
  <2> QED BY <2>1, <2>2 DEF Least
<1> QED BY <1>1, <1>3, <1>4, <1>5, <1>6

\* What merging the leaves of a list gives.
LEMMA MergedBounds ==
    ASSUME NEW n \in Nat, NEW list, DOMAIN list = 1..n,
           \A i \in 1..n : LimitsNumber(list[i]), NEW gop
    PROVE  /\ MergeThresholdBounds(Leaves(list), gop).greater =
                 IF Ups(list) = {} THEN {}
                 ELSE {IF gop = "and" THEN Greatest(Bounds(list, Ups(list)))
                       ELSE Least(Bounds(list, Ups(list)))}
           /\ MergeThresholdBounds(Leaves(list), gop).lower =
                 IF Downs(list) = {} THEN {}
                 ELSE {IF gop = "and" THEN Least(Bounds(list, Downs(list)))
                       ELSE Greatest(Bounds(list, Downs(list)))}
<1> DEFINE gs == UNION {b.greater : b \in Leaves(list)}
           ls == UNION {b.lower : b \in Leaves(list)}
<1>1. ASSUME NEW i \in 1..n
      PROVE  /\ LeafThresholdBounds(list[i]).greater =
                    IF Upward(list[i]) THEN {Bound(list[i])} ELSE {}
             /\ LeafThresholdBounds(list[i]).lower =
                    IF Upward(list[i]) THEN {} ELSE {Bound(list[i])}
  <2>1. LeafThresholdBounds(list[i]) =
                IF Upward(list[i]) THEN [greater |-> {Bound(list[i])}, lower |-> {}]
                ELSE [greater |-> {}, lower |-> {Bound(list[i])}]
    BY LeafIsBound
  <2> QED BY <2>1
<1>2. gs = Bounds(list, Ups(list))
  <2>1. \A x : x \in gs <=> \E i \in 1..n : x \in LeafThresholdBounds(list[i]).greater
    BY DEF Leaves
  <2>2. \A x : x \in Bounds(list, Ups(list))
                  <=> \E i \in 1..n : Upward(list[i]) /\ x = Bound(list[i])
    BY DEF Bounds, Ups
  <2>3. \A i \in 1..n : \A x : x \in LeafThresholdBounds(list[i]).greater
                              <=> Upward(list[i]) /\ x = Bound(list[i])
    BY <1>1
  <2> HIDE DEF gs
  <2> QED BY <2>1, <2>2, <2>3
<1>3. ls = Bounds(list, Downs(list))
  <2>1. \A x : x \in ls <=> \E i \in 1..n : x \in LeafThresholdBounds(list[i]).lower
    BY DEF Leaves
  <2>2. \A x : x \in Bounds(list, Downs(list))
                  <=> \E i \in 1..n : ~Upward(list[i]) /\ x = Bound(list[i])
    BY DEF Bounds, Downs
  <2>3. \A i \in 1..n : \A x : x \in LeafThresholdBounds(list[i]).lower
                              <=> ~Upward(list[i]) /\ x = Bound(list[i])
    BY <1>1
  <2> HIDE DEF ls
  <2> QED BY <2>1, <2>2, <2>3
<1> HIDE DEF gs, ls
<1>4. (gs = {} <=> Ups(list) = {}) /\ (ls = {} <=> Downs(list) = {})
  <2>1. \A I : Bounds(list, I) = {} <=> I = {}
    BY DEF Bounds
  <2> QED BY <1>2, <1>3, <2>1
<1>5. MergeThresholdBounds(Leaves(list), gop) =
        [greater |-> IF gs = {} THEN {}
                     ELSE {IF gop = "and" THEN Greatest(gs) ELSE Least(gs)},
         lower |-> IF ls = {} THEN {}
                   ELSE {IF gop = "and" THEN Least(ls) ELSE Greatest(ls)}]
  BY DEF MergeThresholdBounds, gs, ls
<1> QED BY <1>2, <1>3, <1>4, <1>5

\* What a range says, form by form: of a bound above and a bound below, where
\* there are any.
AtMostOne(B, S) == B = {} \/ \E b \in S : B = {b}
Beyond(G, L, x) == (\E g \in G : x > g) \/ (\E l \in L : x < l)
Says(r, G, L, x) ==
    /\ r.form = "inside" => \E g \in G, l \in L :
          g < l /\ r.lo = g /\ r.hi = l /\ (RangeAlerts(r, x) <=> g <= x /\ x <= l)
    /\ r.form = "outside" => \E g \in G, l \in L : l <= g
    /\ r.form \notin {"inside", "outside"} => G = {} \/ L = {}
    /\ r.form # "inside" => (RangeAlerts(r, x) <=> Beyond(G, L, x))

LEMMA SaysNothing == ASSUME NEW x PROVE Says([form |-> "none"], {}, {}, x)
<1> DEFINE r == [form |-> "none"]
<1>1. r.form = "none"
  OBVIOUS
<1> HIDE DEF r
<1>2. Says(r, {}, {}, x)
  BY <1>1 DEF Says, Beyond, RangeAlerts
<1> QED BY <1>2 DEF r

LEMMA SaysMin ==
    ASSUME NEW l \in Nat, NEW x \in Nat
    PROVE  Says([form |-> "min", lo |-> l], {}, {l}, x)
<1> DEFINE r == [form |-> "min", lo |-> l]
<1>1. r.form = "min" /\ r.lo = l
  OBVIOUS
<1> HIDE DEF r
<1>2. RangeAlerts(r, x) <=> x < l
  BY <1>1 DEF RangeAlerts
<1>3. Says(r, {}, {l}, x)
  BY <1>1, <1>2 DEF Says, Beyond
<1> QED BY <1>3 DEF r

LEMMA SaysMax ==
    ASSUME NEW g \in Nat, NEW x \in Nat
    PROVE  Says([form |-> "max", hi |-> g], {g}, {}, x)
<1> DEFINE r == [form |-> "max", hi |-> g]
<1>1. r.form = "max" /\ r.hi = g
  OBVIOUS
<1> HIDE DEF r
<1>2. RangeAlerts(r, x) <=> x < 0 \/ x > g
  BY <1>1 DEF RangeAlerts
<1>3. RangeAlerts(r, x) <=> x > g
  BY <1>2
<1>4. Says(r, {g}, {}, x)
  BY <1>1, <1>3 DEF Says, Beyond
<1> QED BY <1>4 DEF r

LEMMA SaysOutside ==
    ASSUME NEW g \in Nat, NEW l \in Nat, l <= g, NEW x \in Nat
    PROVE  Says([form |-> "outside", lo |-> l, hi |-> g], {g}, {l}, x)
<1> DEFINE r == [form |-> "outside", lo |-> l, hi |-> g]
<1>1. r.form = "outside" /\ r.lo = l /\ r.hi = g
  OBVIOUS
<1> HIDE DEF r
<1>2. RangeAlerts(r, x) <=> x < l \/ x > g
  BY <1>1 DEF RangeAlerts
<1>3. Says(r, {g}, {l}, x)
  BY <1>1, <1>2 DEF Says, Beyond
<1> QED BY <1>3 DEF r

LEMMA SaysInside ==
    ASSUME NEW g \in Nat, NEW l \in Nat, g < l, NEW x \in Nat
    PROVE  Says([form |-> "inside", lo |-> g, hi |-> l], {g}, {l}, x)
<1> DEFINE r == [form |-> "inside", lo |-> g, hi |-> l]
<1>1. r.form = "inside" /\ r.lo = g /\ r.hi = l
  OBVIOUS
<1> HIDE DEF r
<1>2. RangeAlerts(r, x) <=> g <= x /\ x <= l
  BY <1>1 DEF RangeAlerts
<1>3. Says(r, {g}, {l}, x)
  BY <1>1, <1>2 DEF Says, Beyond
<1> QED BY <1>3 DEF r

LEMMA RangeMeaning ==
    ASSUME NEW G, AtMostOne(G, Nat), NEW L, AtMostOne(L, Nat \ {0}), NEW x \in Nat
    PROVE  Says(RangeOf([greater |-> G, lower |-> L]), G, L, x)
<1> DEFINE b == [greater |-> G, lower |-> L]
           r == RangeOf(b)
<1> SUFFICES Says(r, G, L, x)
  OBVIOUS
<1>1. \A i : Least({i}) = i
  BY DEF Least
<1>2. b.greater = G /\ b.lower = L
  OBVIOUS
<1>3. r = CASE b = NoBounds -> [form |-> "none"]
            [] L # {} /\ G = {} -> [form |-> "min", lo |-> Least(L)]
            [] L = {} /\ G # {} -> [form |-> "max", hi |-> Least(G)]
            [] L # {} /\ G # {} ->
                 IF Least(L) = 0 THEN [form |-> "max", hi |-> Least(G)]
                 ELSE IF Least(L) <= Least(G)
                      THEN [form |-> "outside", lo |-> Least(L), hi |-> Least(G)]
                 ELSE [form |-> "inside", lo |-> Least(G), hi |-> Least(L)]
  BY <1>2 DEF RangeOf
<1>4. b = NoBounds <=> G = {} /\ L = {}
  BY DEF NoBounds
<1> HIDE DEF b, r
<1>5. CASE G = {} /\ L = {}
  BY <1>3, <1>4, <1>5, SaysNothing
<1>6. CASE G = {} /\ L # {}
  <2>1. PICK l \in Nat \ {0} : L = {l}
    BY <1>6 DEF AtMostOne
  <2>2. r = [form |-> "min", lo |-> l]
    BY <1>1, <1>3, <1>4, <1>6, <2>1
  <2> QED BY <1>6, <2>1, <2>2, SaysMin
<1>7. CASE G # {} /\ L = {}
  <2>1. PICK g \in Nat : G = {g}
    BY <1>7 DEF AtMostOne
  <2>2. r = [form |-> "max", hi |-> g]
    BY <1>1, <1>3, <1>4, <1>7, <2>1
  <2> QED BY <1>7, <2>1, <2>2, SaysMax
<1>8. CASE G # {} /\ L # {}
  <2>1. PICK g \in Nat : G = {g}
    BY <1>8 DEF AtMostOne
  <2>2. PICK l \in Nat \ {0} : L = {l}
    BY <1>8 DEF AtMostOne
  <2>3. r = IF Least(L) = 0 THEN [form |-> "max", hi |-> Least(G)]
            ELSE IF Least(L) <= Least(G)
                 THEN [form |-> "outside", lo |-> Least(L), hi |-> Least(G)]
            ELSE [form |-> "inside", lo |-> Least(G), hi |-> Least(L)]
    BY <1>3, <1>4, <1>8
  <2>4. Least(G) = g /\ Least(L) = l /\ l # 0
    BY <1>1, <2>1, <2>2
  <2>5. r = IF l <= g THEN [form |-> "outside", lo |-> l, hi |-> g]
            ELSE [form |-> "inside", lo |-> g, hi |-> l]
    BY <2>3, <2>4
  <2>6. CASE l <= g
    BY <2>1, <2>2, <2>5, <2>6, SaysOutside
  <2>7. CASE ~(l <= g)
    <3>1. g < l /\ l \in Nat
      BY <2>2, <2>7
    <3> QED BY <2>1, <2>2, <2>5, <2>7, <3>1, SaysInside
  <2> QED BY <2>6, <2>7
<1> QED BY <1>5, <1>6, <1>7, <1>8

\* The comparison at place i of a list, for the value x.
Compares(list, i, x) == CompareNumbers(list[i].op, x, list[i].val.n)

\* The merged bounds stand for the comparisons they come from: any of them, or
\* all of them.
LEMMA BoundsStandFor ==
    ASSUME NEW n \in Nat, NEW list, DOMAIN list = 1..n,
           \A i \in 1..n : LimitsNumber(list[i]), NEW gop, NEW x \in Nat,
           NEW b, b = MergeThresholdBounds(Leaves(list), gop)
    PROVE  /\ AtMostOne(b.greater, Nat) /\ AtMostOne(b.lower, Nat \ {0})
           /\ b.greater = {} <=> Ups(list) = {}
           /\ b.lower = {} <=> Downs(list) = {}
           /\ gop # "and" =>
                /\ (\E g \in b.greater : x > g) <=> \E i \in Ups(list) : Compares(list, i, x)
                /\ (\E l \in b.lower : x < l) <=> \E i \in Downs(list) : Compares(list, i, x)
           /\ gop = "and" =>
                /\ (\A g \in b.greater : x > g) <=> \A i \in Ups(list) : Compares(list, i, x)
                /\ (\A l \in b.lower : x < l) <=> \A i \in Downs(list) : Compares(list, i, x)
<1>1. ASSUME NEW i \in 1..n
      PROVE  /\ Bound(list[i]) \in Nat /\ (~Upward(list[i]) => Bound(list[i]) > 0)
             /\ Compares(list, i, x) <=> IF Upward(list[i]) THEN x > Bound(list[i])
                                        ELSE x < Bound(list[i])
  BY LeafIsBound DEF Compares
<1>2. /\ Ups(list) \in SUBSET (1..n) /\ Downs(list) \in SUBSET (1..n)
      /\ \A i \in Ups(list) : /\ Bound(list[i]) \in Nat
                              /\ Compares(list, i, x) <=> x > Bound(list[i])
      /\ \A i \in Downs(list) : /\ Bound(list[i]) \in Nat \ {0}
                                /\ Compares(list, i, x) <=> x < Bound(list[i])
  BY <1>1 DEF Ups, Downs
<1>3. /\ AtMostOne(b.greater, Nat) /\ (b.greater = {} <=> Ups(list) = {})
      /\ gop # "and" =>
           ((\E g \in b.greater : x > g) <=> \E j \in Ups(list) : Compares(list, j, x))
      /\ gop = "and" =>
           ((\A g \in b.greater : x > g) <=> \A j \in Ups(list) : Compares(list, j, x))
  <2>1. CASE Ups(list) = {}
    <3>1. b.greater = {}
      BY <2>1, MergedBounds
    <3> QED BY <2>1, <3>1 DEF AtMostOne
  <2>2. CASE Ups(list) # {}
    <3>1. PICK i \in Ups(list) : /\ Least(Bounds(list, Ups(list))) = Bound(list[i])
                                 /\ \A j \in Ups(list) : Bound(list[i]) <= Bound(list[j])
      BY <1>2, <2>2, BoundsAreExtreme
    <3>2. PICK k \in Ups(list) : /\ Greatest(Bounds(list, Ups(list))) = Bound(list[k])
                                 /\ \A j \in Ups(list) : Bound(list[j]) <= Bound(list[k])
      BY <1>2, <2>2, BoundsAreExtreme
    <3>3. b.greater = {IF gop = "and" THEN Bound(list[k]) ELSE Bound(list[i])}
      BY <2>2, <3>1, <3>2, MergedBounds
    <3>4. AtMostOne(b.greater, Nat) /\ b.greater # {}
      BY <1>2, <3>3 DEF AtMostOne
    <3>5. ASSUME gop # "and"
          PROVE  (\E g \in b.greater : x > g) <=> \E j \in Ups(list) : Compares(list, j, x)
      <4>1. (\E g \in b.greater : x > g) <=> x > Bound(list[i])
        BY <3>3, <3>5
      <4> QED BY <1>2, <3>1, <4>1
    <3>6. ASSUME gop = "and"
          PROVE  (\A g \in b.greater : x > g) <=> \A j \in Ups(list) : Compares(list, j, x)
      <4>1. (\A g \in b.greater : x > g) <=> x > Bound(list[k])
        BY <3>3, <3>6
      <4> QED BY <1>2, <3>2, <4>1
    <3> QED BY <2>2, <3>4, <3>5, <3>6
  <2> QED BY <2>1, <2>2
<1>4. /\ AtMostOne(b.lower, Nat \ {0}) /\ (b.lower = {} <=> Downs(list) = {})
      /\ gop # "and" =>
           ((\E l \in b.lower : x < l) <=> \E j \in Downs(list) : Compares(list, j, x))
      /\ gop = "and" =>
           ((\A l \in b.lower : x < l) <=> \A j \in Downs(list) : Compares(list, j, x))
  <2>1. CASE Downs(list) = {}
    <3>1. b.lower = {}
      BY <2>1, MergedBounds
    <3> QED BY <2>1, <3>1 DEF AtMostOne
  <2>2. CASE Downs(list) # {}
    <3>1. PICK i \in Downs(list) : /\ Least(Bounds(list, Downs(list))) = Bound(list[i])
                                   /\ \A j \in Downs(list) : Bound(list[i]) <= Bound(list[j])
      BY <1>2, <2>2, BoundsAreExtreme
    <3>2. PICK k \in Downs(list) : /\ Greatest(Bounds(list, Downs(list))) = Bound(list[k])
                                   /\ \A j \in Downs(list) : Bound(list[j]) <= Bound(list[k])
      BY <1>2, <2>2, BoundsAreExtreme
    <3>3. b.lower = {IF gop = "and" THEN Bound(list[i]) ELSE Bound(list[k])}
      BY <2>2, <3>1, <3>2, MergedBounds
    <3>4. AtMostOne(b.lower, Nat \ {0}) /\ b.lower # {}
      BY <1>2, <3>3 DEF AtMostOne
    <3>5. ASSUME gop # "and"
          PROVE  (\E l \in b.lower : x < l) <=> \E j \in Downs(list) : Compares(list, j, x)
      <4>1. (\E l \in b.lower : x < l) <=> x < Bound(list[k])
        BY <3>3, <3>5
      <4> QED BY <1>2, <3>2, <4>1
    <3>6. ASSUME gop = "and"
          PROVE  (\A l \in b.lower : x < l) <=> \A j \in Downs(list) : Compares(list, j, x)
      <4>1. (\A l \in b.lower : x < l) <=> x < Bound(list[i])
        BY <3>3, <3>6
      <4> QED BY <1>2, <3>1, <4>1
    <3> QED BY <2>2, <3>4, <3>5, <3>6
  <2> QED BY <2>1, <2>2
<1> QED BY <1>3, <1>4

(* The range of a threshold made of alternatives ("x > 90 or x < 10", or      *)
(* several thresholds) alerts for exactly the values the comparisons alert    *)
(* for, whatever the limits are; if the comparisons overlap, so that a range  *)
(* cannot say it, they alert for every value (ThresholdString,                *)
(* computeThresholdBounds and leafThresholdBounds, condition.go).             *)
THEOREM RangeOfAlternatives ==
    ASSUME NEW C, NEW list \in Seq(C), \A i \in DOMAIN list : LimitsNumber(list[i]),
           NEW x \in Nat
    PROVE  LET r == RangeOf(ComputeThresholdBounds(Leaves(list)))
               holds == \E i \in DOMAIN list : Compares(list, i, x)
           IN IF r.form = "inside" THEN holds ELSE RangeAlerts(r, x) <=> holds
<1> DEFINE b == ComputeThresholdBounds(Leaves(list))
           r == RangeOf(b)
           holds == \E i \in DOMAIN list : Compares(list, i, x)
<1>1. Len(list) \in Nat /\ DOMAIN list = 1..Len(list)
  OBVIOUS
<1>2. b = MergeThresholdBounds(Leaves(list), "or")
  BY DEF ComputeThresholdBounds
<1>3. b = [greater |-> b.greater, lower |-> b.lower]
  BY DEF ComputeThresholdBounds, MergeThresholdBounds
<1> SUFFICES IF r.form = "inside" THEN holds ELSE RangeAlerts(r, x) <=> holds
  OBVIOUS
<1> HIDE DEF b, r, holds
<1>4. /\ AtMostOne(b.greater, Nat) /\ AtMostOne(b.lower, Nat \ {0})
      /\ (\E g \in b.greater : x > g) <=> \E i \in Ups(list) : Compares(list, i, x)
      /\ (\E l \in b.lower : x < l) <=> \E i \in Downs(list) : Compares(list, i, x)
  <2>1. "or" # "and" /\ \A i \in 1..Len(list) : LimitsNumber(list[i])
    BY <1>1
  <2> QED BY <1>1, <1>2, <2>1, BoundsStandFor
<1>5. holds <=> Beyond(b.greater, b.lower, x)
  BY <1>4 DEF Ups, Downs, Beyond, holds
<1>6. Says(r, b.greater, b.lower, x)
  BY <1>3, <1>4, RangeMeaning DEF r
<1>7. CASE r.form = "inside"
  <2>1. PICK g \in b.greater, l \in b.lower : g < l
    BY <1>6, <1>7 DEF Says
  <2>2. g \in Nat /\ l \in Nat
    BY <1>4, <2>1 DEF AtMostOne
  <2>3. x > g \/ x < l
    BY <2>1, <2>2
  <2> QED BY <1>5, <1>7, <2>3 DEF Beyond
<1>8. CASE r.form # "inside"
  BY <1>5, <1>6, <1>8 DEF Says
<1> QED BY <1>7, <1>8

\* Bounds that are alone in the list stay what they are.
LEMMA MergedAlone ==
    ASSUME NEW b, b = [greater |-> b.greater, lower |-> b.lower],
           AtMostOne(b.greater, Nat), AtMostOne(b.lower, Nat)
    PROVE  ComputeThresholdBounds({b}) = b
<1>1. \A i : Least({i}) = i /\ Greatest({i}) = i
  BY DEF Least, Greatest
<1>2. UNION {a.greater : a \in {b}} = b.greater /\ UNION {a.lower : a \in {b}} = b.lower
  OBVIOUS
<1>3. ComputeThresholdBounds({b}) =
        [greater |-> IF b.greater = {} THEN {} ELSE {Least(b.greater)},
         lower |-> IF b.lower = {} THEN {} ELSE {Greatest(b.lower)}]
  BY <1>2 DEF ComputeThresholdBounds, MergeThresholdBounds
<1>4. b.greater = IF b.greater = {} THEN {} ELSE {Least(b.greater)}
  BY <1>1 DEF AtMostOne
<1>5. b.lower = IF b.lower = {} THEN {} ELSE {Greatest(b.lower)}
  BY <1>1 DEF AtMostOne
<1> QED BY <1>3, <1>4, <1>5

(* The range of one threshold whose comparisons must all hold ("x > 10 and     *)
(* x < 20") is the innermost one: it alerts for the values that satisfy the    *)
(* threshold and, as a range contains its ends, for its two ends; where no     *)
(* value can satisfy the threshold it is written as a range all the same       *)
(* (mergeThresholdBounds and ThresholdString, condition.go).                   *)
THEOREM RangeOfConjunction ==
    ASSUME NEW C, NEW list \in Seq(C), \A i \in DOMAIN list : LimitsNumber(list[i]),
           list # <<>>, NEW x \in Nat
    PROVE  LET and == MergeThresholdBounds(Leaves(list), "and")
               r == RangeOf(ComputeThresholdBounds({and}))
               holds == \A i \in DOMAIN list : Compares(list, i, x)
           IN CASE r.form = "inside" -> RangeAlerts(r, x) <=> holds \/ x \in {r.lo, r.hi}
                [] r.form = "outside" -> ~holds
                [] OTHER -> RangeAlerts(r, x) <=> holds
<1> DEFINE b == MergeThresholdBounds(Leaves(list), "and")
           r == RangeOf(ComputeThresholdBounds({b}))
           holds == \A i \in DOMAIN list : Compares(list, i, x)
<1>1. Len(list) \in Nat /\ DOMAIN list = 1..Len(list) /\ DOMAIN list # {}
  OBVIOUS
<1>2. b = [greater |-> b.greater, lower |-> b.lower]
  BY DEF MergeThresholdBounds
<1>3. /\ AtMostOne(b.greater, Nat) /\ AtMostOne(b.lower, Nat \ {0})
      /\ b.greater = {} <=> Ups(list) = {}
      /\ b.lower = {} <=> Downs(list) = {}
      /\ (\A g \in b.greater : x > g) <=> \A i \in Ups(list) : Compares(list, i, x)
      /\ (\A l \in b.lower : x < l) <=> \A i \in Downs(list) : Compares(list, i, x)
  BY <1>1, BoundsStandFor
<1> SUFFICES CASE r.form = "inside" -> RangeAlerts(r, x) <=> holds \/ x \in {r.lo, r.hi}
               [] r.form = "outside" -> ~holds
               [] OTHER -> RangeAlerts(r, x) <=> holds
  OBVIOUS
<1> HIDE DEF b
<1>4. AtMostOne(b.lower, Nat)
  BY <1>3 DEF AtMostOne
<1>5. r = RangeOf(b)
  BY <1>2, <1>3, <1>4, MergedAlone
<1>6. Says(r, b.greater, b.lower, x)
  BY <1>2, <1>3, <1>5, RangeMeaning
<1>7. holds <=> (\A g \in b.greater : x > g) /\ (\A l \in b.lower : x < l)
  BY <1>3 DEF Ups, Downs
<1> HIDE DEF r, holds
<1>8. CASE r.form = "inside"
  <2>1. PICK g \in b.greater, l \in b.lower :
             r.lo = g /\ r.hi = l /\ (RangeAlerts(r, x) <=> g <= x /\ x <= l)
    BY <1>6, <1>8 DEF Says
  <2>2. b.greater = {g} /\ b.lower = {l} /\ g \in Nat /\ l \in Nat
    BY <1>3, <2>1 DEF AtMostOne
  <2>3. holds <=> g < x /\ x < l
    BY <1>7, <2>2
  <2>4. g < l
    BY <1>6, <1>8, <2>2 DEF Says
  <2>5. g <= x /\ x <= l <=> (g < x /\ x < l) \/ x \in {g, l}
    BY <2>2, <2>4
  <2>6. RangeAlerts(r, x) <=> holds \/ x \in {r.lo, r.hi}
    BY <2>1, <2>3, <2>5
  <2> QED BY <1>8, <2>6
<1>9. CASE r.form = "outside"
  <2>1. PICK g \in b.greater, l \in b.lower : l <= g
    BY <1>6, <1>9 DEF Says
  <2>2. g \in Nat /\ l \in Nat
    BY <1>3, <2>1 DEF AtMostOne
  <2>3. ~(x > g /\ x < l)
    BY <2>1, <2>2
  <2> QED BY <1>7, <1>9, <2>1, <2>3
<1>10. CASE r.form \notin {"inside", "outside"}
  <2>1. RangeAlerts(r, x) <=> Beyond(b.greater, b.lower, x)
    BY <1>6, <1>10 DEF Says
  <2>2. b.greater = {} \/ b.lower = {}
    BY <1>6, <1>10 DEF Says
  <2>3. b.greater # {} \/ b.lower # {}
    BY <1>1, <1>3 DEF Ups, Downs
  <2>4. Beyond(b.greater, b.lower, x)
          <=> (\A g \in b.greater : x > g) /\ (\A l \in b.lower : x < l)
    BY <1>3, <2>2, <2>3 DEF Beyond, AtMostOne
  <2> QED BY <1>7, <1>10, <2>1, <2>4
<1> QED BY <1>8, <1>9, <1>10

----------------------------------------------------------------------------
(* Entries that are tried before they are complete.                         *)

\* One more element is one more step.
LEMMA RunOfAppend ==
    ASSUME NEW S, NEW q \in Seq(S), NEW x \in S, NEW kind, NEW par, NEW b,
           NEW g, Runs(kind, par, b, q, g),
           NEW h, Runs(kind, par, b, Append(q, x), h)
    PROVE  h[Len(Append(q, x))] = Step(kind, par, g[Len(q)], x)
<1> DEFINE n == Len(q)
           r == Append(q, x)
<1>1. /\ n \in Nat /\ Len(r) = n + 1 /\ r[n + 1] = x
      /\ \A m \in 1..n : r[m] = q[m]
  OBVIOUS
<1>2. g[0] = b /\ h[0] = b
  BY DEF Runs
<1>3. \A m \in 1..n : g[m] = Step(kind, par, g[m - 1], q[m])
  BY DEF Runs
<1>4. \A m \in 1..(n + 1) : h[m] = Step(kind, par, h[m - 1], r[m])
  BY <1>1 DEF Runs
<1> HIDE DEF n, r
<1> DEFINE P == {m \in 0..n : h[m] = g[m]}
<1>5. 0 \in P
  BY <1>1, <1>2
<1>6. \A m \in 0..(n - 1) : m \in P => m + 1 \in P
  <2> SUFFICES ASSUME NEW m \in 0..(n - 1), h[m] = g[m] PROVE h[m + 1] = g[m + 1]
    BY <1>1
  <2>1. m + 1 \in 1..n /\ m + 1 \in 1..(n + 1) /\ (m + 1) - 1 = m
    BY <1>1
  <2> QED BY <1>1, <1>3, <1>4, <2>1
<1> HIDE DEF P
<1>7. n \in P
  BY <1>1, <1>5, <1>6, UpTo
<1>8. n + 1 \in 1..(n + 1) /\ (n + 1) - 1 = n
  BY <1>1
<1>9. h[n + 1] = Step(kind, par, g[n], x)
  BY <1>1, <1>4, <1>7, <1>8 DEF P
<1> QED BY <1>1, <1>9 DEF n, r

LEMMA FilterOfAppend ==
    ASSUME NEW S, NEW q \in Seq(S), NEW x \in S, NEW conds
    PROVE  Filter(conds, Append(q, x)) =
             IF Kept(conds, x) THEN Append(Filter(conds, q), x) ELSE Filter(conds, q)
<1>1. CASE conds = <<>>
  BY <1>1 DEF Filter, Kept
<1>2. CASE conds # <<>>
  <2>1. PICK g : Runs("filter", conds, <<>>, q, g) /\ Filter(conds, q) = g[Len(q)]
    BY <1>2, FilterRuns
  <2>2. Append(q, x) \in Seq(S)
    OBVIOUS
  <2>3. PICK h : /\ Runs("filter", conds, <<>>, Append(q, x), h)
                 /\ Filter(conds, Append(q, x)) = h[Len(Append(q, x))]
    BY <1>2, <2>2, FilterRuns
  <2>4. h[Len(Append(q, x))] = Step("filter", conds, g[Len(q)], x)
    BY <2>1, <2>3, RunOfAppend
  <2>5. Step("filter", conds, g[Len(q)], x) =
          IF MatchMapCondition(conds, x, FALSE) THEN Append(g[Len(q)], x) ELSE g[Len(q)]
    BY DEF Step
  <2> QED BY <1>2, <2>1, <2>3, <2>4, <2>5 DEF Kept
<1> QED BY <1>1, <1>2

LEMMA MetricsOfAppend ==
    ASSUME NEW S, NEW q \in Seq(S), NEW x \in S, NEW b
    PROVE  FoldLeft(CheckMetric, b, Append(q, x)) = CheckMetric(FoldLeft(CheckMetric, b, q), x)
<1>1. PICK g : Runs("metric", <<>>, b, q, g) /\ FoldLeft(CheckMetric, b, q) = g[Len(q)]
  BY MetricsRun
<1>2. Append(q, x) \in Seq(S)
  OBVIOUS
<1>3. PICK h : /\ Runs("metric", <<>>, b, Append(q, x), h)
               /\ FoldLeft(CheckMetric, b, Append(q, x)) = h[Len(Append(q, x))]
  BY <1>2, MetricsRun
<1>4. h[Len(Append(q, x))] = Step("metric", <<>>, g[Len(q)], x)
  BY <1>1, <1>3, RunOfAppend
<1>5. Step("metric", <<>>, g[Len(q)], x) = CheckMetric(g[Len(q)], x)
  BY DEF Step
<1> QED BY <1>1, <1>3, <1>4, <1>5

\* part is what the places K leave of whole: q[j] of its first j.
Picks(whole, K, q) ==
    /\ q[0] = <<>>
    /\ \A j \in 1..Len(whole) :
          q[j] = IF j \in K THEN Append(q[j - 1], whole[j]) ELSE q[j - 1]

\* All that a filter says of an incomplete entry stays true of the complete one.
Stays(conds, e, full) ==
    \A i \in DOMAIN conds : Match(e, conds[i])[2] => Match(full, conds[i]) = Match(e, conds[i])

\* What is dropped early would be dropped at the end.
LEMMA DroppedAnyway ==
    ASSUME NEW conds, NEW e, NEW full, Stays(conds, e, full),
           ~MatchMapCondition(conds, e, TRUE)
    PROVE  ~Kept(conds, full)
<1> DEFINE real == {i \in DOMAIN conds : conds[i].kind # "none"}
<1>1. real # {} /\ \A i \in real : ~Passes(Match(e, conds[i]), conds[i], TRUE)
  BY DEF MatchMapCondition
<1>2. \A i \in real : Match(e, conds[i])[2] /\ ~Match(e, conds[i])[1]
  BY <1>1 DEF Passes
<1>3. \A i \in real : Match(full, conds[i]) = Match(e, conds[i])
  BY <1>2 DEF Stays
<1>4. \A i \in real : ~Passes(Match(full, conds[i]), conds[i], FALSE)
  BY <1>2, <1>3 DEF Passes
<1>5. conds # <<>>
  BY <1>1
<1> QED BY <1>1, <1>4, <1>5 DEF Kept, MatchMapCondition

\* The first m of a sequence, from the first m - 1 of it.
LEMMA PrefixStep ==
    ASSUME NEW S, NEW f \in Seq(S), NEW m \in Nat, m + 1 <= Len(f)
    PROVE  /\ [i \in 1..m |-> f[i]] \in Seq(S) /\ f[m + 1] \in S
           /\ [i \in 1..(m + 1) |-> f[i]] = Append([i \in 1..m |-> f[i]], f[m + 1])
<1>1. DOMAIN f = 1..Len(f) /\ Len(f) \in Nat
  OBVIOUS
<1>2. \A i \in 1..(m + 1) : f[i] \in S
  BY <1>1
<1>3. [i \in 1..m |-> f[i]] \in Seq(S) /\ f[m + 1] \in S
  BY <1>2
<1> QED BY <1>3, AppendNext

\* Every entry of all is the complete form of one of raw.
Completes(conds, raw, all) ==
    Len(all) = Len(raw) /\ \A i \in 1..Len(raw) : Stays(conds, raw[i], all[i])

\* The entries that are not dropped when they are tried early.
TriedEarly(conds, raw) == {i \in 1..Len(raw) : MatchMapCondition(conds, raw[i], TRUE)}

LEMMA EarlyFilter ==
    ASSUME NEW Raw, NEW raw \in Seq(Raw), NEW Entry, NEW all \in Seq(Entry),
           NEW conds, Completes(conds, raw, all),
           NEW q, Picks(all, TriedEarly(conds, raw), q)
    PROVE  Filter(conds, q[Len(all)]) = Filter(conds, all)
<1> DEFINE n == Len(all)
           Upto(m) == [i \in 1..m |-> all[i]]
           Tried(i) == MatchMapCondition(conds, raw[i], TRUE)
           Good(m) == q[m] \in Seq(Entry) /\ Filter(conds, q[m]) = Filter(conds, Upto(m))
           P == {m \in 0..n : Good(m)}
<1>1. n \in Nat /\ DOMAIN all = 1..n /\ all = Upto(n) /\ n = Len(raw)
  BY DEF Completes
<1>2. Good(0)
  <2>1. q[0] = <<>> /\ Upto(0) = <<>>
    BY DEF Picks
  <2> QED BY <2>1
<1>3. ASSUME NEW m \in 0..(n - 1), Good(m) PROVE Good(m + 1)
  <2> DEFINE x == all[m + 1]
             p == Upto(m)
  <2>1. m \in Nat /\ m + 1 \in 1..n /\ (m + 1) - 1 = m /\ m + 1 <= n
    BY <1>1
  <2>2. p \in Seq(Entry) /\ x \in Entry /\ Upto(m + 1) = Append(p, x)
    BY <2>1, PrefixStep
  <2>3. q[m + 1] = IF Tried(m + 1) THEN Append(q[m], x) ELSE q[m]
    BY <1>1, <2>1 DEF Picks, TriedEarly
  <2>4. ~Tried(m + 1) => ~Kept(conds, x)
    BY <1>1, <2>1, DroppedAnyway DEF Completes
  <2> HIDE DEF x, p, Tried
  <2>5. Filter(conds, Append(p, x)) =
           IF Kept(conds, x) THEN Append(Filter(conds, p), x) ELSE Filter(conds, p)
    BY <2>2, FilterOfAppend
  <2>6. q[m] \in Seq(Entry) /\ Filter(conds, q[m]) = Filter(conds, p)
    BY <1>3 DEF p
  <2>7. Filter(conds, Append(q[m], x)) =
           IF Kept(conds, x) THEN Append(Filter(conds, q[m]), x) ELSE Filter(conds, q[m])
    BY <2>2, <2>6, FilterOfAppend
  <2>8. q[m + 1] \in Seq(Entry)
    BY <2>2, <2>3, <2>6
  <2>9. Filter(conds, q[m + 1]) = Filter(conds, Append(p, x))
    BY <2>3, <2>4, <2>5, <2>6, <2>7
  <2> QED BY <2>2, <2>8, <2>9
<1> HIDE DEF Good
<1>4. 0 \in P /\ \A m \in 0..(n - 1) : m \in P => m + 1 \in P
  BY <1>1, <1>2, <1>3
<1> HIDE DEF P, n
<1>5. n \in P
  BY <1>1, <1>4, UpTo
<1> QED BY <1>1, <1>5 DEF P, Good, n

\* Two checks with the same thresholds.
SameRules(a, b) == \A f \in {"ok", "unknown", "crit", "warn"} : a[f] = b[f]
\* The accumulator of a loop that an entry has ended.
Stopped(cd, er, s, L) == [cd |-> cd, stop |-> TRUE, err |-> er, state |-> s, list |-> L]

LEMMA SameVerdicts ==
    ASSUME NEW a, NEW b, SameRules(a, b)
    PROVE  /\ \A d : Check(a, d) = Check(b, d)
           /\ \A m : MetricState(a, m) = MetricState(b, m)
<1>1. \A d : StateFor(a, d) = StateFor(b, d)
  BY DEF StateFor, SameRules
<1>2. a.ok = b.ok
  BY DEF SameRules
<1>3. \A m : MetricState(a, m) = MetricState(b, m)
  BY <1>2 DEF MetricState
<1> QED BY <1>1, <1>3 DEF Check

\* The entries as the loops leave them.
Judgeds(E) == E \union {Marked(e, s) : e \in E, s \in 0..3}

\* Before the metrics, the two checks have done the same.
Alike(a, b, E, s0, x, y) ==
    \E L \in Seq(Judgeds(E)) :
        \/ x = Going(a, s0, L) /\ y = Going(b, s0, L)
        \/ \E s \in Nat : \E er : x = Stopped(a, er, s, L) /\ y = Stopped(b, er, s, L)

\* What CheckEntry does to an accumulator.
LEMMA EntryOfStopped ==
    ASSUME NEW cd, NEW er, NEW s, NEW L, NEW e
    PROVE  CheckEntry(Stopped(cd, er, s, L), e) = Stopped(cd, er, s, L)
BY DEF CheckEntry, Stopped

\* The fields of the accumulators.
Fields == {"cd", "stop", "err", "state", "list"}

LEMMA ListGoesOn ==
    ASSUME NEW cd, NEW s, NEW L, NEW a, a = Going(cd, s, L), NEW M,
           NEW b, b = [a EXCEPT !.list = M]
    PROVE  b = Going(cd, s, M)
<1>1. PICK c : c = Going(cd, s, M)
  OBVIOUS
<1>2. DOMAIN a = Fields
  BY DEF Going, Fields
<1>3. b = [k \in Fields |-> b[k]]
  BY <1>2
<1>4. c = [k \in Fields |-> c[k]]
  BY <1>1 DEF Going, Fields
<1>5. b["cd"] = c["cd"]
  BY <1>1, <1>2 DEF Going, Fields
<1>6. b["err"] = c["err"]
  BY <1>1, <1>2 DEF Going, Fields
<1>7. b["state"] = c["state"]
  BY <1>1, <1>2 DEF Going, Fields
<1>8. b["list"] = c["list"]
  BY <1>1, <1>2 DEF Going, Fields
<1>9. b["stop"] = c["stop"]
  BY <1>1, <1>2 DEF Going, Fields
<1>10. \A k \in Fields : b[k] = c[k]
  BY <1>5, <1>6, <1>7, <1>8, <1>9 DEF Fields
<1>11. b = c
  BY <1>3, <1>4, <1>10
<1> QED BY <1>1, <1>11

LEMMA ExitStops ==
    ASSUME NEW cd, NEW s, NEW L, NEW a, a = Going(cd, s, L), NEW t,
           NEW b, b = [a EXCEPT !.stop = TRUE, !.state = t]
    PROVE  b = Stopped(cd, "", t, L)
<1>1. PICK c : c = Stopped(cd, "", t, L)
  OBVIOUS
<1>2. DOMAIN a = Fields
  BY DEF Going, Fields
<1>3. b = [k \in Fields |-> b[k]]
  BY <1>2
<1>4. c = [k \in Fields |-> c[k]]
  BY <1>1 DEF Stopped, Fields
<1>5. b["cd"] = c["cd"]
  BY <1>1, <1>2 DEF Going, Stopped, Fields
<1>6. b["err"] = c["err"]
  BY <1>1, <1>2 DEF Going, Stopped, Fields
<1>7. b["state"] = c["state"]
  BY <1>1, <1>2 DEF Going, Stopped, Fields
<1>8. b["list"] = c["list"]
  BY <1>1, <1>2 DEF Going, Stopped, Fields
<1>9. b["stop"] = c["stop"]
  BY <1>1, <1>2 DEF Going, Stopped, Fields
<1>10. \A k \in Fields : b[k] = c[k]
  BY <1>5, <1>6, <1>7, <1>8, <1>9 DEF Fields
<1>11. b = c
  BY <1>3, <1>4, <1>10
<1> QED BY <1>1, <1>11

LEMMA ErrorStops ==
    ASSUME NEW cd, NEW s, NEW L, NEW a, a = Going(cd, s, L),
           NEW b, b = [a EXCEPT !.stop = TRUE, !.err = "entry error"]
    PROVE  b = Stopped(cd, "entry error", s, L)
<1>1. PICK c : c = Stopped(cd, "entry error", s, L)
  OBVIOUS
<1>2. DOMAIN a = Fields
  BY DEF Going, Fields
<1>3. b = [k \in Fields |-> b[k]]
  BY <1>2
<1>4. c = [k \in Fields |-> c[k]]
  BY <1>1 DEF Stopped, Fields
<1>5. b["cd"] = c["cd"]
  BY <1>1, <1>2 DEF Going, Stopped, Fields
<1>6. b["err"] = c["err"]
  BY <1>1, <1>2 DEF Going, Stopped, Fields
<1>7. b["state"] = c["state"]
  BY <1>1, <1>2 DEF Going, Stopped, Fields
<1>8. b["list"] = c["list"]
  BY <1>1, <1>2 DEF Going, Stopped, Fields
<1>9. b["stop"] = c["stop"]
  BY <1>1, <1>2 DEF Going, Stopped, Fields
<1>10. \A k \in Fields : b[k] = c[k]
  BY <1>5, <1>6, <1>7, <1>8, <1>9 DEF Fields
<1>11. b = c
  BY <1>3, <1>4, <1>10
<1> QED BY <1>1, <1>11

LEMMA EntryOfGoing ==
    ASSUME NEW cd, NEW s, NEW L, NEW e
    PROVE  CheckEntry(Going(cd, s, L), e) =
                IF Field(e, "_skip") = Num(1) THEN Going(cd, s, Append(L, e))
                ELSE IF IsNum(Field(e, "_exit")) THEN Stopped(cd, "", e["_exit"].n, L)
                ELSE IF Field(e, "_error") # Text("") THEN Stopped(cd, "entry error", s, L)
                ELSE Going(cd, s, Append(L, Check(cd, e)))
<1> DEFINE a == Going(cd, s, L)
<1>1. ~a.stop /\ a.cd = cd /\ a.list = L
  BY DEF Going
<1>0. a = Going(cd, s, L)
  OBVIOUS
<1> HIDE DEF a
<1>2. /\ [a EXCEPT !.list = Append(L, e)] = Going(cd, s, Append(L, e))
      /\ [a EXCEPT !.list = Append(L, Check(cd, e))] = Going(cd, s, Append(L, Check(cd, e)))
  BY <1>0, ListGoesOn
<1>5. [a EXCEPT !.stop = TRUE, !.state = e["_exit"].n] = Stopped(cd, "", e["_exit"].n, L)
  BY <1>0, ExitStops
<1>6. [a EXCEPT !.stop = TRUE, !.err = "entry error"] = Stopped(cd, "entry error", s, L)
  BY <1>0, ErrorStops
<1>3. CheckEntry(a, e) =
        IF Field(e, "_skip") = Num(1) THEN [a EXCEPT !.list = Append(L, e)]
        ELSE IF IsNum(Field(e, "_exit"))
             THEN [a EXCEPT !.stop = TRUE, !.state = e["_exit"].n]
        ELSE IF Field(e, "_error") # Text("")
             THEN [a EXCEPT !.stop = TRUE, !.err = "entry error"]
        ELSE [a EXCEPT !.list = Append(L, Check(cd, e))]
  BY <1>1 DEF CheckEntry
<1>4. CheckEntry(a, e) =
        IF Field(e, "_skip") = Num(1) THEN Going(cd, s, Append(L, e))
        ELSE IF IsNum(Field(e, "_exit")) THEN Stopped(cd, "", e["_exit"].n, L)
        ELSE IF Field(e, "_error") # Text("") THEN Stopped(cd, "entry error", s, L)
        ELSE Going(cd, s, Append(L, Check(cd, e)))
  BY <1>2, <1>3, <1>5, <1>6, Zenon
<1> QED BY <1>4 DEF a

\* What an entry ends the check with is a state.
ExitIsState(e) == IsNum(Field(e, "_exit")) => e["_exit"].n \in Nat

LEMMA AlikeStep ==
    ASSUME NEW a, NEW b, SameRules(a, b), NEW E, NEW e \in E, ExitIsState(e), NEW s0 \in Nat,
           NEW x, NEW y, Alike(a, b, E, s0, x, y)
    PROVE  Alike(a, b, E, s0, CheckEntry(x, e), CheckEntry(y, e))
<1>1. PICK L \in Seq(Judgeds(E)) :
        \/ x = Going(a, s0, L) /\ y = Going(b, s0, L)
        \/ \E s \in Nat : \E er : x = Stopped(a, er, s, L) /\ y = Stopped(b, er, s, L)
  BY DEF Alike
<1>2. Check(a, e) = Check(b, e)
  BY SameVerdicts
<1>3. e \in Judgeds(E) /\ Check(a, e) \in Judgeds(E)
  BY VerdictRange DEF Judgeds, Check, Marked, StateFor
<1>4. /\ Append(L, e) \in Seq(Judgeds(E))
      /\ Append(L, Check(a, e)) \in Seq(Judgeds(E))
  BY <1>3
<1>5. CASE \E s \in Nat : \E er : x = Stopped(a, er, s, L) /\ y = Stopped(b, er, s, L)
  BY <1>5, EntryOfStopped DEF Alike
<1>6. CASE x = Going(a, s0, L) /\ y = Going(b, s0, L)
  <2> DEFINE X == CheckEntry(x, e)
             Y == CheckEntry(y, e)
  <2>1. X = IF Field(e, "_skip") = Num(1) THEN Going(a, s0, Append(L, e))
            ELSE IF IsNum(Field(e, "_exit")) THEN Stopped(a, "", e["_exit"].n, L)
            ELSE IF Field(e, "_error") # Text("") THEN Stopped(a, "entry error", s0, L)
            ELSE Going(a, s0, Append(L, Check(a, e)))
    BY <1>6, EntryOfGoing
  <2>2. Y = IF Field(e, "_skip") = Num(1) THEN Going(b, s0, Append(L, e))
            ELSE IF IsNum(Field(e, "_exit")) THEN Stopped(b, "", e["_exit"].n, L)
            ELSE IF Field(e, "_error") # Text("") THEN Stopped(b, "entry error", s0, L)
            ELSE Going(b, s0, Append(L, Check(a, e)))
    <3>1. Y = IF Field(e, "_skip") = Num(1) THEN Going(b, s0, Append(L, e))
            ELSE IF IsNum(Field(e, "_exit")) THEN Stopped(b, "", e["_exit"].n, L)
            ELSE IF Field(e, "_error") # Text("") THEN Stopped(b, "entry error", s0, L)
            ELSE Going(b, s0, Append(L, Check(b, e)))
      BY <1>6, EntryOfGoing
    <3> HIDE DEF Y
    <3> QED BY <1>2, <3>1
  <2> SUFFICES Alike(a, b, E, s0, X, Y)
    OBVIOUS
  <2> HIDE DEF X, Y
  <2>3. CASE Field(e, "_skip") = Num(1)
    BY <1>4, <2>1, <2>2, <2>3 DEF Alike
  <2>4. CASE Field(e, "_skip") # Num(1) /\ IsNum(Field(e, "_exit"))
    BY <2>1, <2>2, <2>4 DEF Alike, ExitIsState
  <2>5. CASE /\ Field(e, "_skip") # Num(1) /\ ~IsNum(Field(e, "_exit"))
             /\ Field(e, "_error") # Text("")
    BY <2>1, <2>2, <2>5 DEF Alike
  <2>6. CASE /\ Field(e, "_skip") # Num(1) /\ ~IsNum(Field(e, "_exit"))
             /\ Field(e, "_error") = Text("")
    BY <1>4, <2>1, <2>2, <2>6 DEF Alike
  <2> QED BY <2>3, <2>4, <2>5, <2>6
<1> QED BY <1>1, <1>5, <1>6

LEMMA EntriesAlike ==
    ASSUME NEW a, NEW b, SameRules(a, b), NEW E, NEW F \in Seq(E), NEW s0 \in Nat,
           \A e \in E : ExitIsState(e)
    PROVE  Alike(a, b, E, s0, FoldLeft(CheckEntry, Going(a, s0, <<>>), F),
                              FoldLeft(CheckEntry, Going(b, s0, <<>>), F))
<1> DEFINE n == Len(F)
<1>1. PICK g : /\ Runs("entry", <<>>, Going(a, s0, <<>>), F, g)
               /\ FoldLeft(CheckEntry, Going(a, s0, <<>>), F) = g[n]
  BY EntriesRun
<1>2. PICK h : /\ Runs("entry", <<>>, Going(b, s0, <<>>), F, h)
               /\ FoldLeft(CheckEntry, Going(b, s0, <<>>), F) = h[n]
  BY EntriesRun
<1>3. n \in Nat /\ \A m \in 1..n : F[m] \in E
  OBVIOUS
<1> DEFINE P == {m \in 0..n : Alike(a, b, E, s0, g[m], h[m])}
<1>4. 0 \in P
  <2>1. g[0] = Going(a, s0, <<>>) /\ h[0] = Going(b, s0, <<>>)
    BY <1>1, <1>2 DEF Runs
  <2>2. <<>> \in Seq(Judgeds(E)) /\ 0 \in 0..n
    BY <1>3
  <2>3. Alike(a, b, E, s0, g[0], h[0])
    BY <2>1, <2>2 DEF Alike
  <2> QED BY <2>2, <2>3
<1>5. \A m \in 0..(n - 1) : m \in P => m + 1 \in P
  <2> SUFFICES ASSUME NEW m \in 0..(n - 1), Alike(a, b, E, s0, g[m], h[m])
               PROVE  Alike(a, b, E, s0, g[m + 1], h[m + 1])
    BY <1>3
  <2>1. m + 1 \in 1..n /\ (m + 1) - 1 = m
    BY <1>3
  <2>2. g[m + 1] = CheckEntry(g[m], F[m + 1]) /\ h[m + 1] = CheckEntry(h[m], F[m + 1])
    BY <1>1, <1>2, <2>1 DEF Runs, Step
  <2> QED BY <1>3, <2>1, <2>2, AlikeStep
<1> HIDE DEF P, n
<1>6. n \in P
  BY <1>3, <1>4, <1>5, UpTo
<1> QED BY <1>1, <1>2, <1>6 DEF P

\* A metric leaves the entries among those the loops know, and one that
\* concerns none of them leaves them as they are.
LEMMA MarkedByStays ==
    ASSUME NEW E, NEW cd, NEW m, NEW L \in Seq(Judgeds(E))
    PROVE  /\ [i \in DOMAIN L |-> MarkedBy(cd, m, L[i])] \in Seq(Judgeds(E))
           /\ (\A e \in E : ~Concerns(m, e)) => [i \in DOMAIN L |-> MarkedBy(cd, m, L[i])] = L
<1>1. ASSUME NEW x \in Judgeds(E)
      PROVE  /\ MarkedBy(cd, m, x) \in Judgeds(E)
             /\ (\A e \in E : ~Concerns(m, e)) => MarkedBy(cd, m, x) = x
  <2> DEFINE t == MetricState(cd, m)
  <2>1. t \in 0..3
    BY VerdictRange DEF MetricState
  <2>2. PICK e \in E : x = e \/ \E k \in 0..3 : x = Marked(e, k)
    BY DEF Judgeds
  <2>3. Marked(x, t) = Marked(e, t) /\ Id(x) = Id(e)
    BY <2>2, MarkedFacts
  <2>4. Marked(x, t) \in Judgeds(E)
    BY <2>1, <2>3 DEF Judgeds
  <2>5. Concerns(m, x) <=> Concerns(m, e)
    BY <2>3 DEF Concerns
  <2> QED BY <2>4, <2>5 DEF MarkedBy
<1>2. DOMAIN L = 1..Len(L) /\ Len(L) \in Nat /\ \A i \in DOMAIN L : L[i] \in Judgeds(E)
  OBVIOUS
<1>3. [i \in DOMAIN L |-> MarkedBy(cd, m, L[i])] \in Seq(Judgeds(E))
  BY <1>1, <1>2
<1>4. ASSUME \A e \in E : ~Concerns(m, e)
      PROVE  [i \in DOMAIN L |-> MarkedBy(cd, m, L[i])] = L
  <2>1. \A i \in DOMAIN L : MarkedBy(cd, m, L[i]) = L[i]
    BY <1>1, <1>2, <1>4
  <2>2. L = [i \in DOMAIN L |-> L[i]]
    OBVIOUS
  <2> QED BY <2>1, <2>2
<1> QED BY <1>3, <1>4

LEMMA MetricOfStopped ==
    ASSUME NEW cd, NEW er, NEW s, NEW L, NEW m
    PROVE  CheckMetric(Stopped(cd, er, s, L), m) = Stopped(cd, er, s, L)
BY DEF CheckMetric, Stopped

\* One check has judged the same entries, and perhaps fewer metrics.
SideBySide(a, b, L, x, y) ==
    \/ \E s1, s2 \in Nat : s1 <= s2 /\ x = Going(a, s1, L) /\ y = Going(b, s2, L)
    \/ \E s \in Nat : \E er : x = Stopped(a, er, s, L) /\ y = Stopped(b, er, s, L)
Behind(a, b, E, x, y) == \E L \in Seq(Judgeds(E)) : SideBySide(a, b, L, x, y)

LEMMA BehindStep ==
    ASSUME NEW a, NEW b, SameRules(a, b), NEW E, NEW m, NEW x, NEW y, Behind(a, b, E, x, y)
    PROVE  /\ Behind(a, b, E, CheckMetric(x, m), CheckMetric(y, m))
           /\ (\A e \in E : ~Concerns(m, e)) => Behind(a, b, E, x, CheckMetric(y, m))
<1>1. PICK L \in Seq(Judgeds(E)) :
        \/ \E s1, s2 \in Nat : s1 <= s2 /\ x = Going(a, s1, L) /\ y = Going(b, s2, L)
        \/ \E s \in Nat : \E er : x = Stopped(a, er, s, L) /\ y = Stopped(b, er, s, L)
  BY DEF Behind, SideBySide
<1>2. CASE \E s \in Nat : \E er : x = Stopped(a, er, s, L) /\ y = Stopped(b, er, s, L)
  <2>1. CheckMetric(x, m) = x /\ CheckMetric(y, m) = y
    BY <1>2, MetricOfStopped
  <2> QED BY <2>1
<1>3. CASE \E s1, s2 \in Nat : s1 <= s2 /\ x = Going(a, s1, L) /\ y = Going(b, s2, L)
  <2>1. PICK s1 \in Nat, s2 \in Nat : s1 <= s2 /\ x = Going(a, s1, L) /\ y = Going(b, s2, L)
    BY <1>3
  <2> DEFINE t == MetricState(b, m)
             M == [i \in DOMAIN L |-> MarkedBy(b, m, L[i])]
             X == CheckMetric(x, m)
             Y == CheckMetric(y, m)
  <2>2. t \in 0..3 /\ MetricState(a, m) = t
    BY VerdictRange, SameVerdicts DEF MetricState
  <2>3. M = [i \in DOMAIN L |-> MarkedBy(a, m, L[i])]
    BY <2>2 DEF MarkedBy
  <2>4. M \in Seq(Judgeds(E)) /\ ((\A e \in E : ~Concerns(m, e)) => M = L)
    BY MarkedByStays
  <2>5. X = IF MetricState(a, m) = 0 THEN Going(a, s1, L)
            ELSE Going(a, Escalate(s1, MetricState(a, m)), [i \in DOMAIN L |-> MarkedBy(a, m, L[i])])
    BY <2>1, MetricStep
  <2>6. Y = IF t = 0 THEN Going(b, s2, L) ELSE Going(b, Escalate(s2, t), M)
    BY <2>1, MetricStep
  <2> HIDE DEF t, M, X, Y
  <2>7. X = IF t = 0 THEN Going(a, s1, L) ELSE Going(a, Escalate(s1, t), M)
    BY <2>2, <2>3, <2>5
  <2>8. /\ Escalate(s1, t) \in Nat /\ Escalate(s2, t) \in Nat
        /\ Escalate(s1, t) <= Escalate(s2, t) /\ s1 <= Escalate(s2, t)
    BY <2>1, <2>2 DEF Escalate
  <2>9. Behind(a, b, E, X, Y)
    <3>1. CASE t = 0
      BY <2>1, <2>6, <2>7, <3>1 DEF Behind, SideBySide
    <3>2. CASE t # 0
      BY <2>4, <2>6, <2>7, <2>8, <3>2 DEF Behind, SideBySide
    <3> QED BY <3>1, <3>2
  <2>10. ASSUME \A e \in E : ~Concerns(m, e) PROVE Behind(a, b, E, x, Y)
    <3>1. CASE t = 0
      BY <2>1, <2>6, <3>1 DEF Behind, SideBySide
    <3>2. CASE t # 0
      <4>1. Y = Going(b, Escalate(s2, t), L)
        BY <2>4, <2>6, <2>10, <3>2
      <4> QED BY <2>1, <2>8, <4>1 DEF Behind, SideBySide
    <3> QED BY <3>1, <3>2
  <2> QED BY <2>9, <2>10 DEF X, Y
<1> QED BY <1>1, <1>2, <1>3

LEMMA MetricsBehind ==
    ASSUME NEW a, NEW b, SameRules(a, b), NEW E, NEW x, NEW y, Behind(a, b, E, x, y),
           NEW M, NEW ms \in Seq(M), NEW K, NEW q, Picks(ms, K, q),
           \A j \in (1..Len(ms)) \ K : \A e \in E : ~Concerns(ms[j], e)
    PROVE  Behind(a, b, E, FoldLeft(CheckMetric, x, q[Len(ms)]), FoldLeft(CheckMetric, y, ms))
<1> DEFINE n == Len(ms)
           X(j) == FoldLeft(CheckMetric, x, q[j])
<1>1. PICK g : Runs("metric", <<>>, y, ms, g) /\ FoldLeft(CheckMetric, y, ms) = g[n]
  BY MetricsRun
<1>2. n \in Nat /\ \A j \in 1..n : ms[j] \in M
  OBVIOUS
<1> DEFINE Good(j) == q[j] \in Seq(M) /\ Behind(a, b, E, X(j), g[j])
           P == {j \in 0..n : Good(j)}
<1>3. Good(0)
  <2>1. q[0] = <<>> /\ <<>> \in Seq(M) /\ Len(<<>>) = 0
    BY DEF Picks
  <2>2. PICK h : Runs("metric", <<>>, x, q[0], h) /\ X(0) = h[Len(q[0])]
    BY <2>1, MetricsRun
  <2>3. X(0) = x
    <3> HIDE DEF X
    <3> QED BY <2>1, <2>2 DEF Runs
  <2>4. g[0] = y
    BY <1>1 DEF Runs
  <2> HIDE DEF X
  <2> QED BY <2>1, <2>3, <2>4
<1>4. ASSUME NEW j \in 0..(n - 1), Good(j) PROVE Good(j + 1)
  <2> DEFINE m == ms[j + 1]
  <2>1. j + 1 \in 1..n /\ (j + 1) - 1 = j /\ m \in M
    BY <1>2
  <2>2. q[j + 1] = IF j + 1 \in K THEN Append(q[j], m) ELSE q[j]
    BY <2>1 DEF Picks
  <2>3. g[j + 1] = CheckMetric(g[j], m)
    BY <1>1, <2>1 DEF Runs, Step
  <2>4. q[j] \in Seq(M) /\ Append(q[j], m) \in Seq(M)
    BY <1>4, <2>1
  <2>5. j + 1 \notin K => \A e \in E : ~Concerns(m, e)
    BY <2>1
  <2> HIDE DEF m
  <2>6. CASE j + 1 \in K
    <3>1. X(j + 1) = CheckMetric(X(j), m)
      <4>1. FoldLeft(CheckMetric, x, Append(q[j], m)) = CheckMetric(FoldLeft(CheckMetric, x, q[j]), m)
        BY <2>1, <2>4, MetricsOfAppend
      <4>2. q[j + 1] = Append(q[j], m)
        BY <2>2, <2>6
      <4> QED BY <4>1, <4>2
    <3> HIDE DEF X
    <3>2. Behind(a, b, E, X(j), g[j])
      BY <1>4
    <3>3. Behind(a, b, E, CheckMetric(X(j), m), CheckMetric(g[j], m))
      BY <3>2, BehindStep
    <3> QED BY <2>2, <2>3, <2>4, <2>6, <3>1, <3>3
  <2>7. CASE j + 1 \notin K
    <3>1. q[j + 1] = q[j]
      BY <2>2, <2>7
    <3>2. X(j + 1) = X(j)
      BY <3>1
    <3> HIDE DEF X
    <3>3. Behind(a, b, E, X(j), g[j])
      BY <1>4
    <3>4. Behind(a, b, E, X(j), CheckMetric(g[j], m))
      BY <2>5, <2>7, <3>3, BehindStep
    <3> QED BY <2>3, <2>4, <3>1, <3>2, <3>4
  <2> QED BY <2>6, <2>7
<1> HIDE DEF Good, n
<1>5. n \in P
  <2>1. 0 \in P /\ \A j \in 0..(n - 1) : j \in P => j + 1 \in P
    BY <1>2, <1>3, <1>4
  <2> HIDE DEF P
  <2> QED BY <1>2, <2>1, UpTo
<1>6. Good(n)
  BY <1>5
<1>7. Behind(a, b, E, X(n), g[n])
  BY <1>6 DEF Good
<1> QED BY <1>1, <1>7 DEF n

----------------------------------------------------------------------------
(* What the two checks answer.                                              *)

\* All that Finalize reads of a check besides its list and its metrics.
Settings == {"filter", "state", "ok", "unknown", "crit", "warn", "err", "inventory",
             "supplied", "emptyState", "emptyStateSet", "output", "hasArgsFilter", "details"}
SameSettings(a, b) ==
    /\ \A f \in Settings : a[f] = b[f]
    /\ HasThreshold(a, "count") = HasThreshold(b, "count")

LEMMA EscalateGrows ==
    ASSUME NEW s1 \in Nat, NEW s2 \in Nat, s1 <= s2, NEW t \in Nat
    PROVE  /\ Escalate(s1, t) \in Nat /\ Escalate(s2, t) \in Nat
           /\ Escalate(s1, t) <= Escalate(s2, t)
BY DEF Escalate

LEMMA CountsGrow ==
    ASSUME NEW a, NEW b, a.supplied = b.supplied, NEW macros,
           NEW s1 \in Nat, NEW s2 \in Nat, s1 <= s2
    PROVE  /\ EscalateFromCounts(a, s1, macros) \in Nat
           /\ EscalateFromCounts(b, s2, macros) \in Nat
           /\ EscalateFromCounts(a, s1, macros) <= EscalateFromCounts(b, s2, macros)
BY DEF EscalateFromCounts, Escalate

LEMMA StateGrows ==
    ASSUME NEW a, NEW b, a.supplied = b.supplied, NEW macros, NEW details,
           StateOf(macros) \in Nat, StateOf(details) \in Nat,
           NEW s1 \in Nat, NEW s2 \in Nat, s1 <= s2
    PROVE  /\ SetStateFromMaps(a, s1, macros, details) \in Nat
           /\ SetStateFromMaps(b, s2, macros, details) \in Nat
           /\ SetStateFromMaps(a, s1, macros, details) <= SetStateFromMaps(b, s2, macros, details)
<1> DEFINE u1 == Escalate(s1, StateOf(macros))
           u2 == Escalate(s2, StateOf(macros))
           v1 == EscalateFromCounts(a, u1, macros)
           v2 == EscalateFromCounts(b, u2, macros)
<1>1. u1 \in Nat /\ u2 \in Nat /\ u1 <= u2
  BY EscalateGrows
<1>2. v1 \in Nat /\ v2 \in Nat /\ v1 <= v2
  <2> HIDE DEF u1, u2
  <2> QED BY <1>1, CountsGrow
<1>3. /\ SetStateFromMaps(a, s1, macros, details) = Escalate(v1, StateOf(details))
      /\ SetStateFromMaps(b, s2, macros, details) = Escalate(v2, StateOf(details))
  BY DEF SetStateFromMaps
<1> HIDE DEF v1, v2
<1> QED BY <1>2, <1>3, EscalateGrows

\* What finalizeOutput answers, field by field.
Answers(out, cd, judged, macros, details) ==
    /\ out.list = judged.list
    /\ out.err = IF cd.err # "" THEN cd.err ELSE IF cd.inventory THEN "" ELSE judged.err
    /\ out.state =
         IF cd.err # "" THEN 3
         ELSE IF cd.inventory THEN cd.state
         ELSE IF judged.err # "" THEN 3
         ELSE IF judged.stop THEN judged.state
         ELSE EmptyState(cd, judged.list, SetStateFromMaps(cd, judged.state, macros, details))

LEMMA OutputFields ==
    ASSUME NEW cd, NEW judged, NEW macros, NEW details
    PROVE  Answers(FinalizeOutput(cd, judged, macros, details), cd, judged, macros, details)
<1> DEFINE out == FinalizeOutput(cd, judged, macros, details)
<1>1. out.list = judged.list
  BY DEF FinalizeOutput
<1>2. out.err = IF cd.err # "" THEN cd.err
                ELSE IF cd.inventory THEN "" ELSE judged.err
  BY DEF FinalizeOutput
<1>3. out.state =
        IF cd.err # "" THEN 3
        ELSE IF cd.inventory THEN cd.state
        ELSE IF judged.err # "" THEN 3
        ELSE IF judged.stop THEN judged.state
        ELSE EmptyState(cd, judged.list,
                        SetStateFromMaps(cd, judged.state, macros, details))
  BY DEF FinalizeOutput
<1> QED BY <1>1, <1>2, <1>3 DEF Answers

\* What the accumulators of two checks show of the same loop.
LEMMA BothHold ==
    ASSUME NEW a, NEW b, NEW L, NEW x, NEW y, SideBySide(a, b, L, x, y)
    PROVE  x.list = L /\ y.list = L /\ x.err = y.err
<1>1. CASE \E s1, s2 \in Nat : s1 <= s2 /\ x = Going(a, s1, L) /\ y = Going(b, s2, L)
  <2>1. PICK s1, s2 \in Nat : x = Going(a, s1, L) /\ y = Going(b, s2, L)
    BY <1>1
  <2>2. x.list = L /\ y.list = L
    BY <2>1 DEF Going
  <2>3. x.err = "" /\ y.err = ""
    BY <2>1 DEF Going
  <2> QED BY <2>2, <2>3
<1>2. CASE \E s \in Nat : \E er : x = Stopped(a, er, s, L) /\ y = Stopped(b, er, s, L)
  BY <1>2 DEF Stopped
<1> QED BY <1>1, <1>2 DEF SideBySide

\* An answer that is no worse, of the same entries.
NoWorse(r, t) == r.err = t.err /\ r.list = t.list /\ r.state <= t.state

LEMMA EmptyGrows ==
    ASSUME NEW a, NEW b, SameSettings(a, b), NEW L, a.emptyState \in Nat,
           NEW v1 \in Nat, NEW v2 \in Nat, v1 <= v2
    PROVE  EmptyState(a, L, v1) <= EmptyState(b, L, v2)
<1>1. /\ a.output = b.output /\ a.filter = b.filter /\ a.hasArgsFilter = b.hasArgsFilter
      /\ a.emptyStateSet = b.emptyStateSet /\ a.emptyState = b.emptyState
      /\ HasThreshold(a, "count") = HasThreshold(b, "count")
  BY DEF SameSettings, Settings
<1> DEFINE t == ~a.output /\ L = <<>> /\ (a.filter # <<>> \/ a.hasArgsFilter)
                /\ (a.emptyStateSet \/ ~HasThreshold(a, "count"))
<1>2. EmptyState(a, L, v1) = IF t THEN a.emptyState ELSE v1
  BY DEF EmptyState
<1>3. EmptyState(b, L, v2) = IF t THEN a.emptyState ELSE v2
  BY <1>1, Zenon DEF EmptyState
<1> HIDE DEF t
<1> QED BY <1>2, <1>3

LEMMA JudgedState ==
    ASSUME NEW cd, NEW d
    PROVE  StateOf(Check(cd, d)) \in Nat
<1>1. StateOf(Marked(d, StateFor(cd, d))) = StateFor(cd, d)
  BY MarkedFacts
<1> QED BY <1>1, VerdictRange DEF Check, Marked, StateFor

LEMMA OutputBehind ==
    ASSUME NEW a, NEW b, SameSettings(a, b), a.emptyState \in Nat, a.state \in Nat,
           NEW E, NEW x, NEW y, Behind(a, b, E, x, y)
    PROVE  NoWorse(JudgeCounts(a, x), JudgeCounts(b, y))
<1>1. PICK L \in Seq(Judgeds(E)) : SideBySide(a, b, L, x, y)
  BY DEF Behind
<1>2. PICK ma, de : ma = Check(a, Counts(L)) /\ de = Check(a, a.details)
  OBVIOUS
<1>3. /\ a.err = b.err /\ a.inventory = b.inventory /\ a.state = b.state
      /\ a.details = b.details /\ a.supplied = b.supplied /\ SameRules(a, b)
  BY DEF SameSettings, Settings, SameRules
<1>4. ma = Check(b, Counts(L)) /\ de = Check(b, b.details)
  BY <1>2, <1>3, SameVerdicts
<1>5. StateOf(ma) \in Nat /\ StateOf(de) \in Nat
  BY <1>2, JudgedState
<1>6. x.list = L /\ y.list = L /\ x.err = y.err
  BY <1>1, BothHold
<1> DEFINE r == FinalizeOutput(a, x, ma, de)
           t == FinalizeOutput(b, y, ma, de)
<1>7. JudgeCounts(a, x) = r /\ JudgeCounts(b, y) = t
  BY <1>2, <1>4, <1>6 DEF JudgeCounts
<1>8. Answers(r, a, x, ma, de) /\ Answers(t, b, y, ma, de)
  BY OutputFields
<1> HIDE DEF r, t
<1>9. r.state = IF a.err # "" THEN 3 ELSE IF a.inventory THEN a.state
                ELSE IF x.err # "" THEN 3 ELSE IF x.stop THEN x.state
                ELSE EmptyState(a, x.list, SetStateFromMaps(a, x.state, ma, de))
  BY <1>8 DEF Answers
<1>10. t.state = IF b.err # "" THEN 3 ELSE IF b.inventory THEN b.state
                 ELSE IF y.err # "" THEN 3 ELSE IF y.stop THEN y.state
                 ELSE EmptyState(b, y.list, SetStateFromMaps(b, y.state, ma, de))
  BY <1>8 DEF Answers
<1>11. r.err = t.err /\ r.list = t.list
  BY <1>3, <1>6, <1>8 DEF Answers
<1>12. r.state <= t.state
  <2>1. CASE a.err # ""
    <3>1. r.state = 3
      BY <1>9, <2>1
    <3>2. t.state = 3
      BY <1>3, <1>10, <2>1
    <3> QED BY <3>1, <3>2
  <2>2. CASE a.err = "" /\ a.inventory
    <3>1. r.state = a.state
      BY <1>9, <2>2
    <3>2. t.state = a.state
      BY <1>3, <1>10, <2>2
    <3> QED BY <3>1, <3>2
  <2>3. CASE a.err = "" /\ ~a.inventory /\ x.err # ""
    <3>1. r.state = 3
      BY <1>9, <2>3
    <3>2. t.state = 3
      BY <1>3, <1>6, <1>10, <2>3
    <3> QED BY <3>1, <3>2
  <2>4. CASE /\ a.err = "" /\ ~a.inventory /\ x.err = ""
             /\ \E s \in Nat : \E er : x = Stopped(a, er, s, L) /\ y = Stopped(b, er, s, L)
    <3>0. PICK s \in Nat : \E er : x = Stopped(a, er, s, L) /\ y = Stopped(b, er, s, L)
      BY <2>4
    <3>1. PICK er : x = Stopped(a, er, s, L) /\ y = Stopped(b, er, s, L)
      BY <3>0
    <3>2. x.stop /\ y.stop
      BY <3>1 DEF Stopped
    <3>3. x.state = s /\ y.state = s
      BY <3>1 DEF Stopped
    <3>4. r.state = x.state
      BY <1>9, <2>4, <3>2
    <3>5. t.state = y.state
      BY <1>3, <1>6, <1>10, <2>4, <3>2
    <3> QED BY <3>3, <3>4, <3>5
  <2>5. CASE /\ a.err = "" /\ ~a.inventory /\ x.err = ""
             /\ \E s1, s2 \in Nat : s1 <= s2 /\ x = Going(a, s1, L) /\ y = Going(b, s2, L)
    <3>1. PICK s1 \in Nat, s2 \in Nat : s1 <= s2 /\ x = Going(a, s1, L) /\ y = Going(b, s2, L)
      BY <2>5
    <3>2. ~x.stop /\ ~y.stop
      BY <3>1, GoingGoesOn
    <3>3. x.state = s1 /\ y.state = s2
      BY <3>1 DEF Going
    <3> DEFINE v1 == SetStateFromMaps(a, s1, ma, de)
               v2 == SetStateFromMaps(b, s2, ma, de)
    <3>4. v1 \in Nat /\ v2 \in Nat /\ v1 <= v2
      BY <1>3, <1>5, <3>1, StateGrows
    <3>5. r.state = EmptyState(a, L, v1)
      BY <1>6, <1>9, <2>5, <3>2, <3>3
    <3>6. t.state = EmptyState(b, L, v2)
      BY <1>3, <1>6, <1>10, <2>5, <3>2, <3>3
    <3> HIDE DEF v1, v2
    <3>7. EmptyState(a, L, v1) <= EmptyState(b, L, v2)
      BY <3>4, EmptyGrows
    <3> QED BY <3>5, <3>6, <3>7
  <2> QED BY <1>1, <2>1, <2>2, <2>3, <2>4, <2>5 DEF SideBySide
<1> QED BY <1>7, <1>11, <1>12 DEF NoWorse

\* Filter returns nothing that it does not keep.
LEMMA OnlyKept ==
    ASSUME NEW S, NEW list \in Seq(S), NEW conds
    PROVE  Filter(conds, list) \in Seq({e \in S : Kept(conds, e)})
<1> DEFINE n == Len(list)
           T == {e \in S : Kept(conds, e)}
           Upto(m) == [i \in 1..m |-> list[i]]
           Good(m) == Filter(conds, Upto(m)) \in Seq(T)
           P == {m \in 0..n : Good(m)}
<1>1. n \in Nat /\ DOMAIN list = 1..n /\ list = Upto(n)
  OBVIOUS
<1>2. Good(0)
  <2>1. Upto(0) = <<>> /\ <<>> \in Seq(S) /\ Len(<<>>) = 0 /\ <<>> \in Seq(T)
    OBVIOUS
  <2>2. Filter(conds, <<>>) = <<>>
    <3>1. CASE conds = <<>>
      BY <3>1 DEF Filter
    <3>2. CASE conds # <<>>
      <4>1. PICK g : Runs("filter", conds, <<>>, <<>>, g) /\ Filter(conds, <<>>) = g[Len(<<>>)]
        BY <2>1, <3>2, FilterRuns
      <4> QED BY <2>1, <4>1 DEF Runs
    <3> QED BY <3>1, <3>2
  <2> QED BY <2>1, <2>2
<1>3. ASSUME NEW m \in 0..(n - 1), Good(m) PROVE Good(m + 1)
  <2> DEFINE x == list[m + 1]
             p == Upto(m)
  <2>1. m \in Nat /\ m + 1 <= n
    BY <1>1
  <2>2. p \in Seq(S) /\ x \in S /\ Upto(m + 1) = Append(p, x)
    BY <2>1, PrefixStep
  <2> HIDE DEF x, p
  <2>3. Filter(conds, Append(p, x)) =
           IF Kept(conds, x) THEN Append(Filter(conds, p), x) ELSE Filter(conds, p)
    BY <2>2, FilterOfAppend
  <2>4. Filter(conds, p) \in Seq(T)
    BY <1>3 DEF p
  <2>5. Kept(conds, x) => x \in T
    BY <2>2
  <2> HIDE DEF T
  <2>6. Filter(conds, Append(p, x)) \in Seq(T)
    BY <2>3, <2>4, <2>5
  <2> QED BY <2>2, <2>6
<1> HIDE DEF Good
<1>4. 0 \in P /\ \A m \in 0..(n - 1) : m \in P => m + 1 \in P
  BY <1>1, <1>2, <1>3
<1> HIDE DEF P, n
<1>5. n \in P
  BY <1>1, <1>4, UpTo
<1> QED BY <1>1, <1>5 DEF P, Good

\* Two loops over the same entries start the loops over the metrics level.
LEMMA AlikeIsLevel ==
    ASSUME NEW a, NEW b, NEW E, NEW s0 \in Nat, NEW x, NEW y, Alike(a, b, E, s0, x, y)
    PROVE  Behind(a, b, E, x, y)
<1>1. PICK L \in Seq(Judgeds(E)) :
        \/ x = Going(a, s0, L) /\ y = Going(b, s0, L)
        \/ \E s \in Nat : \E er : x = Stopped(a, er, s, L) /\ y = Stopped(b, er, s, L)
  BY DEF Alike
<1>2. s0 <= s0
  OBVIOUS
<1>3. SideBySide(a, b, L, x, y)
  BY <1>1, <1>2 DEF SideBySide
<1> QED BY <1>3 DEF Behind

(* Trying an entry against the filter before its details are collected, and   *)
(* dropping it with its metrics if the filter already says no, changes        *)
(* nothing of the answer but the metrics nobody judges: the check ends with   *)
(* the entries and the error of a check that collects every detail (raw       *)
(* becomes slow.list) and filters once, and with a state that is no worse.    *)
(* It asks of the conditions that what they decide about an incomplete entry  *)
(* they say of the complete one, and of what is dropped that no metric of it  *)
(* concerns an entry that stays (MatchMapCondition, checkdata.go 618-668, and *)
(* Finalize, 162-304).                                                        *)
THEOREM PrecheckChangesNothing ==
    ASSUME NEW Raw, NEW raw \in Seq(Raw), NEW cd, NEW slow,
           SameSettings(cd, slow), cd.state \in Nat, cd.emptyState \in Nat,
           NEW Entry, slow.list \in Seq(Entry), Completes(cd.filter, raw, slow.list),
           \A e \in Entry : ExitIsState(e),
           NEW q, Picks(slow.list, TriedEarly(cd.filter, raw), q),
           cd.list = q[Len(raw)],
           NEW Metric, slow.metrics \in Seq(Metric), NEW K, NEW p, Picks(slow.metrics, K, p),
           cd.metrics = p[Len(slow.metrics)],
           \A j \in (1..Len(slow.metrics)) \ K : \A e \in Entry :
               Kept(cd.filter, e) => ~Concerns(slow.metrics[j], e)
    PROVE  NoWorse(Finalize(cd), Finalize(slow))
<1>1. PICK all \in Seq(Entry) : all = slow.list
  OBVIOUS
<1>2. PICK ms \in Seq(Metric) : ms = slow.metrics
  OBVIOUS
<1>3. PICK E : E = {e \in Entry : Kept(cd.filter, e)}
  OBVIOUS
<1>4. PICK F \in Seq(E) : F = Filter(cd.filter, all)
  BY <1>1, <1>3, OnlyKept
<1>5. Filter(cd.filter, cd.list) = F
  <2>1. Completes(cd.filter, raw, all) /\ Picks(all, TriedEarly(cd.filter, raw), q)
    BY <1>1
  <2>2. PICK conds : conds = cd.filter
    OBVIOUS
  <2>3. Filter(conds, q[Len(all)]) = Filter(conds, all)
    BY <2>1, <2>2, EarlyFilter
  <2>4. cd.list = q[Len(all)]
    BY <1>1, <2>1 DEF Completes
  <2> QED BY <1>4, <2>2, <2>3, <2>4
<1>6. cd.filter = slow.filter /\ cd.state = slow.state /\ SameRules(cd, slow)
  BY DEF SameSettings, Settings, SameRules
<1>7. PICK s0 \in Nat : s0 = cd.state
  OBVIOUS
<1>8. PICK x : x = FoldLeft(CheckEntry, Going(cd, s0, <<>>), F)
  OBVIOUS
<1>9. PICK y : y = FoldLeft(CheckEntry, Going(slow, s0, <<>>), F)
  OBVIOUS
<1>10. Behind(cd, slow, E, x, y)
  <2>1. \A e \in E : ExitIsState(e)
    BY <1>3
  <2>2. Alike(cd, slow, E, s0, x, y)
    BY <1>6, <1>8, <1>9, <2>1, EntriesAlike
  <2> QED BY <2>2, AlikeIsLevel
<1>11. CheckList(cd) = FoldLeft(CheckMetric, x, p[Len(ms)])
  BY <1>2, <1>5, <1>7, <1>8 DEF CheckList, Going
<1>12. CheckList(slow) = FoldLeft(CheckMetric, y, ms)
  BY <1>1, <1>2, <1>4, <1>6, <1>7, <1>9 DEF CheckList, Going
<1>13. \A j \in (1..Len(ms)) \ K : \A e \in E : ~Concerns(ms[j], e)
  BY <1>2, <1>3
<1>14. Behind(cd, slow, E, CheckList(cd), CheckList(slow))
  <2>1. Picks(ms, K, p)
    BY <1>2
  <2>2. Behind(cd, slow, E, FoldLeft(CheckMetric, x, p[Len(ms)]), FoldLeft(CheckMetric, y, ms))
    BY <1>6, <1>10, <1>13, <2>1, MetricsBehind
  <2> QED BY <1>11, <1>12, <2>2
<1>15. NoWorse(JudgeCounts(cd, CheckList(cd)), JudgeCounts(slow, CheckList(slow)))
  BY <1>14, OutputBehind
<1> QED BY <1>15 DEF Finalize

----------------------------------------------------------------------------
(* What is decided stays decided.                                           *)

\* An entry e and what becomes of it: what condition c reads of e is still
\* there, and no variant of its keyword that comes first is new.
Completion(e, full, c) ==
    /\ Id(full) = Id(e)
    /\ \A i \in DOMAIN VarKeys(c) :
          Has(e, VarKeys(c)[i]) =>
             /\ Has(full, VarKeys(c)[i]) /\ full[VarKeys(c)[i]] = e[VarKeys(c)[i]]
             /\ \A j \in 1..(i - 1) : Has(full, VarKeys(c)[j]) => Has(e, VarKeys(c)[j])

LEMMA VarKeysFacts ==
    ASSUME NEW c
    PROVE  /\ DOMAIN VarKeys(c) = 1..Len(VarKeys(c)) /\ Len(VarKeys(c)) \in Nat \ {0}
           /\ VarKeys(c)[Len(VarKeys(c))] = c.kw
<1>1. PICK p, b, v : p = c.kw \o "_pct" /\ b = c.kw \o "_bytes" /\ v = c.kw \o "_value"
  OBVIOUS
<1>2. PICK k : k = c.kw
  OBVIOUS
<1>3. VarKeys(c) = <<p, v, k>> \/ VarKeys(c) = <<b, v, k>> \/ VarKeys(c) = <<v, k>>
  BY <1>1, <1>2 DEF VarKeys
<1>4. ASSUME NEW x, VarKeys(c) = <<x, v, k>> \/ VarKeys(c) = <<v, k>>
      PROVE  /\ DOMAIN VarKeys(c) = 1..Len(VarKeys(c)) /\ Len(VarKeys(c)) \in Nat \ {0}
             /\ VarKeys(c)[Len(VarKeys(c))] = k
  <2>1. CASE VarKeys(c) = <<x, v, k>>
    <3>1. DOMAIN VarKeys(c) = 1..3 /\ Len(VarKeys(c)) = 3 /\ VarKeys(c)[3] = k
      BY <2>1
    <3> QED BY <3>1
  <2>2. CASE VarKeys(c) = <<v, k>>
    <3>1. DOMAIN VarKeys(c) = 1..2 /\ Len(VarKeys(c)) = 2 /\ VarKeys(c)[2] = k
      BY <2>2
    <3> QED BY <3>1
  <2> QED BY <1>4, <2>1, <2>2
<1> QED BY <1>2, <1>3, <1>4

LEMMA FirstStays ==
    ASSUME NEW e, NEW full, NEW n \in Nat, NEW keys, DOMAIN keys = 1..n,
           \A i \in DOMAIN keys :
              Has(e, keys[i]) =>
                 /\ Has(full, keys[i]) /\ full[keys[i]] = e[keys[i]]
                 /\ \A j \in 1..(i - 1) : Has(full, keys[j]) => Has(e, keys[j]),
           FirstOf(keys, e) # {}
    PROVE  FirstOf(keys, full) = FirstOf(keys, e)
<1> DEFINE First(d) == {j \in DOMAIN keys : Has(d, keys[j]) /\ \A k \in 1..(j - 1) : ~Has(d, keys[k])}
<1>1. PICK i \in DOMAIN keys : Has(e, keys[i]) /\ \A k \in 1..(i - 1) : ~Has(e, keys[k])
  BY DEF FirstOf
<1>2. Has(full, keys[i]) /\ full[keys[i]] = e[keys[i]] /\ \A k \in 1..(i - 1) : ~Has(full, keys[k])
  BY <1>1
<1>3. ASSUME NEW d, Has(d, keys[i]), \A k \in 1..(i - 1) : ~Has(d, keys[k])
      PROVE  First(d) = {i}
  <2>1. ASSUME NEW j \in DOMAIN keys, Has(d, keys[j]), \A k \in 1..(j - 1) : ~Has(d, keys[k])
        PROVE  j = i
    <3>1. ~(j < i)
      BY <1>3, <2>1
    <3>2. ~(i < j)
      BY <1>3, <2>1
    <3> QED BY <3>1, <3>2
  <2> QED BY <1>3, <2>1
<1>4. First(e) = {i} /\ First(full) = {i}
  BY <1>1, <1>2, <1>3
<1>5. \A d : FirstOf(keys, d) = {d[keys[j]] : j \in First(d)}
  BY DEF FirstOf
<1> HIDE DEF First
<1>6. FirstOf(keys, e) = {e[keys[i]]}
  BY <1>4, <1>5
<1>7. FirstOf(keys, full) = {full[keys[i]]}
  BY <1>4, <1>5
<1> QED BY <1>2, <1>6, <1>7

LEMMA LeafStays ==
    ASSUME NEW e, NEW full, NEW c, Completion(e, full, c), MatchSingle(e, c)[2]
    PROVE  MatchSingle(full, c) = MatchSingle(e, c)
<1>1. GetVarValue(e, c) # {}
  BY DEF MatchSingle
<1>2. PICK n \in Nat : DOMAIN VarKeys(c) = 1..n
  BY VarKeysFacts
<1>3. PICK keys : keys = VarKeys(c)
  OBVIOUS
<1>4. FirstOf(keys, full) = FirstOf(keys, e)
  BY <1>1, <1>2, <1>3, FirstStays DEF Completion, GetVarValue
<1> QED BY <1>3, <1>4 DEF MatchSingle, GetVarValue

\* The results g say all that the results f say.
Follows(I, f, g) == \A i \in I : f[i][2] => g[i] = f[i]

LEMMA GroupStays ==
    ASSUME NEW I, NEW f, NEW g, Follows(I, f, g), NEW gop,
           MatchGroup(gop, {f[i] : i \in I})[2]
    PROVE  MatchGroup(gop, {g[i] : i \in I}) = MatchGroup(gop, {f[i] : i \in I})
<1> DEFINE F == {f[i] : i \in I}
           G == {g[i] : i \in I}
<1> SUFFICES MatchGroup(gop, G) = MatchGroup(gop, F)
  OBVIOUS
<1>1. ASSUME NEW r \in F, r[2] PROVE r \in G
  BY <1>1 DEF Follows
<1>2. \A b : <<b, TRUE>>[2]
  OBVIOUS
<1>3. CASE \E r \in F : ~r[2]
  <2>1. MatchGroup(gop, F)[2]
    OBVIOUS
  <2> HIDE DEF F, G
  <2>2. \/ gop = "and" /\ <<FALSE, TRUE>> \in F
        \/ gop = "or" /\ <<TRUE, TRUE>> \in F
    BY <1>3, <2>1 DEF MatchGroup
  <2>3. CASE gop = "and" /\ <<FALSE, TRUE>> \in F
    <3>1. <<FALSE, TRUE>> \in G
      BY <1>1, <1>2, <2>3
    <3> QED BY <2>3, <3>1 DEF MatchGroup
  <2>4. CASE gop = "or" /\ <<TRUE, TRUE>> \in F
    <3>1. <<TRUE, TRUE>> \in G
      BY <1>1, <1>2, <2>4
    <3> QED BY <2>4, <3>1 DEF MatchGroup
  <2> QED BY <2>2, <2>3, <2>4
<1>4. CASE ~\E r \in F : ~r[2]
  <2>1. \A i \in I : f[i][2]
    BY <1>4
  <2>2. F = G
    BY <2>1 DEF Follows
  <2> QED BY <2>2
<1> QED BY <1>3, <1>4

\* One node, from its members.
LEMMA NodeStays ==
    ASSUME NEW e, NEW full, NEW c, Completion(e, full, c), NEW I, NEW f, NEW g,
           Follows(I, f, g),
           MatchNode(e, c, {f[i] : i \in I})[2]
    PROVE  MatchNode(full, c, {g[i] : i \in I}) = MatchNode(e, c, {f[i] : i \in I})
<1>1. CASE c.kind = "none"
  BY <1>1 DEF MatchNode
<1>2. CASE c.kind # "none"
  <2>1. BlacklistWhitelistCheck(full, c) <=> BlacklistWhitelistCheck(e, c)
    BY DEF Completion, BlacklistWhitelistCheck
  <2>2. BlacklistWhitelistCheck(e, c)
    BY <1>2 DEF MatchNode
  <2>3. CASE c.group = <<>>
    <3>1. \A d, res : BlacklistWhitelistCheck(d, c) => MatchNode(d, c, res) = MatchSingle(d, c)
      BY <1>2, <2>3 DEF MatchNode
    <3> QED BY <2>1, <2>2, <3>1, LeafStays
  <2>4. CASE c.group # <<>>
    <3>1. \A d, res : BlacklistWhitelistCheck(d, c) => MatchNode(d, c, res) = MatchGroup(c.gop, res)
      BY <1>2, <2>4 DEF MatchNode
    <3>2. /\ MatchNode(e, c, {f[i] : i \in I}) = MatchGroup(c.gop, {f[i] : i \in I})
          /\ MatchNode(full, c, {g[i] : i \in I}) = MatchGroup(c.gop, {g[i] : i \in I})
      BY <2>1, <2>2, <3>1
    <3>3. MatchGroup(c.gop, {f[i] : i \in I})[2]
      BY <3>2
    <3>4. MatchGroup(c.gop, {g[i] : i \in I}) = MatchGroup(c.gop, {f[i] : i \in I})
      <4>1. PICK gop : gop = c.gop
        OBVIOUS
      <4> QED BY <3>3, <4>1, GroupStays
    <3> QED BY <3>2, <3>4
  <2> QED BY <2>3, <2>4
<1> QED BY <1>1, <1>2

\* Match says of the node c what MatchNode makes of its members.
MatchesAlong(d, c) ==
    Match(d, c) = MatchNode(d, c, {Match(d, c.group[i]) : i \in DOMAIN c.group})

\* A set of conditions with all their members; depth counts the groups below.
Trees(S, depth) ==
    /\ depth \in [S -> Nat]
    /\ \A c \in S : \A i \in DOMAIN c.group :
          c.group[i] \in S /\ depth[c.group[i]] < depth[c]

Decided(e, full, c) == Match(e, c)[2] => Match(full, c) = Match(e, c)

LEMMA TreeStays ==
    ASSUME NEW e, NEW full, NEW c, Completion(e, full, c),
           MatchesAlong(e, c), MatchesAlong(full, c),
           \A i \in DOMAIN c.group : Decided(e, full, c.group[i])
    PROVE  Decided(e, full, c)
<1> SUFFICES ASSUME Match(e, c)[2] PROVE Match(full, c) = Match(e, c)
  BY DEF Decided
<1>1. PICK I : I = DOMAIN c.group
  OBVIOUS
<1>2. PICK f : f = [i \in I |-> Match(e, c.group[i])]
  OBVIOUS
<1>3. PICK g : g = [i \in I |-> Match(full, c.group[i])]
  OBVIOUS
<1>4. Follows(I, f, g)
  BY <1>1, <1>2, <1>3 DEF Decided, Follows
<1>5. Match(e, c) = MatchNode(e, c, {f[i] : i \in I})
  <2>1. {Match(e, c.group[i]) : i \in DOMAIN c.group} = {f[i] : i \in I}
    BY <1>1, <1>2
  <2> QED BY <2>1 DEF MatchesAlong
<1>6. Match(full, c) = MatchNode(full, c, {g[i] : i \in I})
  <2>1. {Match(full, c.group[i]) : i \in DOMAIN c.group} = {g[i] : i \in I}
    BY <1>1, <1>3
  <2> QED BY <2>1 DEF MatchesAlong
<1>7. MatchNode(e, c, {f[i] : i \in I})[2]
  BY <1>5
<1> QED BY <1>4, <1>5, <1>6, <1>7, NodeStays

(* What a condition decides about an incomplete entry it says of the complete *)
(* one, however deep its groups are nested, unless a variant of a keyword     *)
(* that goes first is added to the entry (Condition.Match, matchSingle and    *)
(* getVarValue, condition.go): this is what PrecheckChangesNothing asks of a  *)
(* filter.                                                                    *)
THEOREM DecidedStays ==
    ASSUME NEW S, NEW depth, Trees(S, depth), NEW conds \in Seq(S), NEW e, NEW full,
           \A c \in S : Completion(e, full, c) /\ MatchesAlong(e, c) /\ MatchesAlong(full, c)
    PROVE  Stays(conds, e, full)
<1> DEFINE Below(n) == \A c \in S : depth[c] < n => Decided(e, full, c)
           P == {n \in Nat : Below(n)}
<1>1. \A c \in S : depth[c] \in Nat
  BY DEF Trees
<1>2. Below(0)
  BY <1>1
<1>3. ASSUME NEW n \in Nat, Below(n) PROVE Below(n + 1)
  <2> SUFFICES ASSUME NEW c \in S, depth[c] < n + 1 PROVE Decided(e, full, c)
    OBVIOUS
  <2>1. ASSUME NEW i \in DOMAIN c.group PROVE Decided(e, full, c.group[i])
    <3>1. c.group[i] \in S /\ depth[c.group[i]] < depth[c]
      BY DEF Trees
    <3>2. depth[c.group[i]] < n
      BY <1>1, <3>1
    <3> QED BY <1>3, <3>1, <3>2
  <2> QED BY <2>1, TreeStays
<1> HIDE DEF Below
<1>4. P = Nat
  <2>1. P \in SUBSET Nat /\ 0 \in P /\ \A n \in P : n + 1 \in P
    BY <1>2, <1>3
  <2> HIDE DEF P
  <2> QED BY <2>1, LeastNat
<1>5. \A c \in S : Decided(e, full, c)
  <2> SUFFICES ASSUME NEW c \in S PROVE Decided(e, full, c)
    OBVIOUS
  <2>1. depth[c] + 1 \in P /\ depth[c] < depth[c] + 1
    BY <1>1, <1>4
  <2> QED BY <2>1 DEF Below
<1>6. \A i \in DOMAIN conds : conds[i] \in S
  OBVIOUS
<1> QED BY <1>5, <1>6 DEF Stays, Decided

----------------------------------------------------------------------------
(* The range and the conditions.                                            *)

\* A comparison of the metric's value with a number, not part of a group.
Plain(c, names) ==
    c.kind # "none" /\ c.group = <<>> /\ c.kw \in names /\ LimitsNumber(c)

NamesOf(m) == {m.name} \union ({m.tname} \ {""})

\* By whatever name a condition asks, it gets the value of the metric.
LEMMA MetricValue ==
    ASSUME NEW m, NEW c, c.kw \in NamesOf(m)
    PROVE  GetVarValue(MetricData(m), c) = {m.val}
<1> DEFINE data == MetricData(m)
<1>1. \A k : Has(data, k) => data[k] = m.val
  BY DEF MetricData, Has
<1>2. Has(data, c.kw)
  BY DEF MetricData, Has, NamesOf
<1> SUFFICES GetVarValue(data, c) = {m.val}
  OBVIOUS
<1> HIDE DEF data
<1>3. PICK keys : keys = VarKeys(c)
  OBVIOUS
<1>4. PICK n \in Nat \ {0} : DOMAIN keys = 1..n /\ keys[n] = c.kw
  BY <1>3, VarKeysFacts
<1> DEFINE J == {j \in 1..n : Has(data, keys[j])}
<1>5. n \in J
  BY <1>2, <1>4
<1>6. PICK i \in J : \A j \in J : i <= j
  <2> DEFINE f == [j \in 1..n |-> j]
  <2>1. f \in [1..n -> Int] /\ \A j \in 1..n : f[j] = j
    OBVIOUS
  <2>2. J \in SUBSET (1..n) /\ J # {}
    BY <1>5
  <2> HIDE DEF f, J
  <2>3. \E j \in J : \A k \in J : f[j] <= f[k]
    BY <2>1, <2>2, Extremes
  <2> QED BY <2>1, <2>2, <2>3
<1>7. \A k \in 1..(i - 1) : ~Has(data, keys[k])
  <2> SUFFICES ASSUME NEW k \in 1..(i - 1), Has(data, keys[k]) PROVE FALSE
    OBVIOUS
  <2>1. k \in J /\ k < i
    OBVIOUS
  <2> QED BY <1>6, <2>1
<1>8. i \in DOMAIN keys /\ Has(data, keys[i])
  BY <1>4
<1>9. m.val \in FirstOf(keys, data)
  <2>1. data[keys[i]] = m.val
    BY <1>1, <1>8
  <2> QED BY <1>7, <1>8, <2>1 DEF FirstOf
<1>10. \A x \in FirstOf(keys, data) : x = m.val
  BY <1>1 DEF FirstOf
<1>11. FirstOf(keys, data) = {m.val}
  BY <1>9, <1>10
<1> QED BY <1>3, <1>11 DEF GetVarValue

LEMMA PlainMatches ==
    ASSUME NEW m, IsNum(m.val), "_id" \notin NamesOf(m), NEW c, Plain(c, NamesOf(m)),
           MatchesAlong(MetricData(m), c)
    PROVE  Match(MetricData(m), c)[1] <=> CompareNumbers(c.op, m.val.n, c.val.n)
<1> DEFINE data == MetricData(m)
<1>1. GetVarValue(data, c) = {m.val}
  BY MetricValue DEF Plain
<1>2. BlacklistWhitelistCheck(data, c)
  BY DEF BlacklistWhitelistCheck, Id, Has, MetricData, NamesOf
<1>3. Match(data, c) = MatchSingle(data, c)
  <2>1. \A res : MatchNode(data, c, res) = MatchSingle(data, c)
    BY <1>2 DEF MatchNode, Plain
  <2> QED BY <2>1 DEF MatchesAlong
<1>4. MatchSingle(data, c)[1] <=> Compare(c.op, m.val, c.val)
  BY <1>1 DEF MatchSingle
<1>5. Compare(c.op, m.val, c.val) <=> CompareNumbers(c.op, m.val.n, c.val.n)
  BY DEF Plain, LimitsNumber, Compare
<1> QED BY <1>3, <1>4, <1>5

\* A metric's own thresholds and its range agree (RangesAgree): the range that
\* the performance data shows for a list of plain comparisons alerts for the
\* value of the metric exactly if one of the conditions matches it; only a range
\* that overlapping comparisons would make an interval says less, and one of
\* them matches every value then (CheckMetrics, checkdata.go, and
\* ThresholdString, condition.go).
THEOREM RangeTellsMatches ==
    ASSUME NEW m, IsNum(m.val), m.val.n \in Nat, "_id" \notin NamesOf(m),
           NEW C, NEW list \in Seq(C),
           \A i \in DOMAIN list :
              Plain(list[i], NamesOf(m)) /\ MatchesAlong(MetricData(m), list[i])
    PROVE  LET bounds == {BoundsOfNode(NamesOf(m), list[i], {}) : i \in DOMAIN list}
               r == RangeOf(ComputeThresholdBounds(bounds))
           IN IF r.form = "inside" THEN AnyMatch(MetricData(m), list)
              ELSE RangeAlerts(r, m.val.n) <=> AnyMatch(MetricData(m), list)
<1> DEFINE bounds == {BoundsOfNode(NamesOf(m), list[i], {}) : i \in DOMAIN list}
           holds == \E i \in DOMAIN list : Compares(list, i, m.val.n)
<1>1. bounds = Leaves(list)
  <2>1. \A i \in DOMAIN list :
          BoundsOfNode(NamesOf(m), list[i], {}) = LeafThresholdBounds(list[i])
    BY DEF BoundsOfNode, Plain
  <2> QED BY <2>1 DEF Leaves
<1>2. AnyMatch(MetricData(m), list) <=> holds
  <2>1. \A i \in DOMAIN list : Match(MetricData(m), list[i])[1] <=> Compares(list, i, m.val.n)
    BY PlainMatches DEF Compares
  <2> QED BY <2>1 DEF AnyMatch
<1>3. \A i \in DOMAIN list : LimitsNumber(list[i])
  BY DEF Plain
<1> HIDE DEF bounds
<1>4. PICK r : r = RangeOf(ComputeThresholdBounds(bounds))
  OBVIOUS
<1>5. IF r.form = "inside" THEN holds ELSE RangeAlerts(r, m.val.n) <=> holds
  BY <1>1, <1>3, <1>4, RangeOfAlternatives
<1> QED BY <1>2, <1>4, <1>5 DEF bounds

----------------------------------------------------------------------------
(* General conditions beside specific ones.                                 *)

IsNode(c) ==
    c = [kind |-> c.kind, kw |-> c.kw, op |-> c.op, val |-> c.val, unit |-> c.unit,
         gop |-> c.gop, group |-> c.group, black |-> c.black]

LEMMA NoMatch ==
    ~<<FALSE, TRUE>>[1] /\ ~<<FALSE, FALSE>>[1] /\ <<TRUE, TRUE>>[1]
OBVIOUS

\* A condition that is switched off for an entry says nothing of it, and of all
\* others what it has always said.
LEMMA SwitchedOff ==
    ASSUME NEW c, IsNode(c), NEW entry, NEW d,
           MatchesAlong(d, c), MatchesAlong(d, SwitchOff(c, entry))
    PROVE  /\ Id(d) \intersect Id(entry) # {} => ~Match(d, SwitchOff(c, entry))[1]
           /\ Id(d) \intersect Id(entry) = {} => Match(d, SwitchOff(c, entry)) = Match(d, c)
<1>1. PICK off : off = SwitchOff(c, entry)
  OBVIOUS
<1>2. /\ off.kind = c.kind /\ off.kw = c.kw /\ off.op = c.op /\ off.val = c.val
      /\ off.unit = c.unit /\ off.gop = c.gop /\ off.group = c.group
      /\ off.black = c.black \union Id(entry)
  BY <1>1 DEF IsNode, SwitchOff
<1>3. PICK res : res = {Match(d, c.group[i]) : i \in DOMAIN c.group}
  OBVIOUS
<1>4. Match(d, c) = MatchNode(d, c, res)
  BY <1>3 DEF MatchesAlong
<1>5. Match(d, off) = MatchNode(d, off, res)
  <2>1. {Match(d, off.group[i]) : i \in DOMAIN off.group} = res
    BY <1>2, <1>3
  <2> QED BY <1>1, <2>1 DEF MatchesAlong
<1>6. ASSUME Id(d) \intersect Id(entry) # {} PROVE ~Match(d, off)[1]
  <2>1. ~BlacklistWhitelistCheck(d, off)
    BY <1>2, <1>6 DEF BlacklistWhitelistCheck
  <2>2. Match(d, off) \in {<<FALSE, TRUE>>, <<FALSE, FALSE>>}
    BY <1>5, <2>1 DEF MatchNode
  <2>3. CASE Match(d, off) = <<FALSE, TRUE>>
    BY <2>3, NoMatch
  <2>4. CASE Match(d, off) = <<FALSE, FALSE>>
    BY <2>4, NoMatch
  <2> QED BY <2>2, <2>3, <2>4
<1>7. ASSUME Id(d) \intersect Id(entry) = {} PROVE Match(d, off) = Match(d, c)
  <2>1. BlacklistWhitelistCheck(d, off) <=> BlacklistWhitelistCheck(d, c)
    BY <1>2, <1>7 DEF BlacklistWhitelistCheck
  <2>2. VarKeys(off) = VarKeys(c)
    BY <1>2 DEF VarKeys
  <2>3. MatchSingle(d, off) = MatchSingle(d, c)
    BY <1>2, <2>2 DEF MatchSingle, GetVarValue
  <2> QED BY <1>2, <1>4, <1>5, <2>1, <2>3 DEF MatchNode
<1> QED BY <1>1, <1>6, <1>7

\* If the conditions of a list that are meant for an entry are preferred, then
\* the entry is judged by them alone, and every other entry and metric by the
\* whole list as before
\* (blacklistConditionsNotUsingKeywordIfKeywordIsActive and
\* blacklistWhitelistCheck, condition.go).
THEOREM SpecificDecides ==
    ASSUME NEW C, \A c \in C : IsNode(c), NEW list \in Seq(C), NEW I \in SUBSET DOMAIN list,
           NEW entry, Id(entry) # {}, NEW other, Id(other) \intersect Id(entry) = {},
           \A i \in DOMAIN list : \A d \in {entry, other} :
              MatchesAlong(d, list[i]) /\ MatchesAlong(d, SwitchOff(list[i], entry))
    PROVE  LET off == Prefer(list, I, entry)
           IN /\ Decisive(off, entry) <=> \E i \in I : Match(entry, list[i]) = <<TRUE, TRUE>>
              /\ AnyMatch(entry, off) <=> \E i \in I : Match(entry, list[i])[1]
              /\ Decisive(off, other) <=> Decisive(list, other)
              /\ AnyMatch(other, off) <=> AnyMatch(other, list)
<1> DEFINE off == Prefer(list, I, entry)
<1>1. DOMAIN off = DOMAIN list
  BY DEF Prefer
<1>2. \A i \in I : off[i] = list[i]
  BY DEF Prefer
<1>3. \A i \in DOMAIN list \ I : off[i] = SwitchOff(list[i], entry)
  BY DEF Prefer
<1>4. \A i \in DOMAIN list : IsNode(list[i])
  OBVIOUS
<1>5. \A i \in DOMAIN list \ I : ~Match(entry, off[i])[1]
  <2>1. Id(entry) \intersect Id(entry) # {}
    OBVIOUS
  <2> QED BY <1>3, <1>4, <2>1, SwitchedOff
<1>6. \A i \in DOMAIN list : Match(other, off[i]) = Match(other, list[i])
  <2>1. \A i \in DOMAIN list \ I : Match(other, off[i]) = Match(other, list[i])
    BY <1>3, <1>4, SwitchedOff
  <2> QED BY <1>2, <2>1
<1>7. \A i \in DOMAIN list \ I : Match(entry, off[i]) # <<TRUE, TRUE>>
  BY <1>5, NoMatch
<1> HIDE DEF off
<1>8. Decisive(off, entry) <=> \E i \in I : Match(entry, list[i]) = <<TRUE, TRUE>>
  BY <1>1, <1>2, <1>7 DEF Decisive
<1>9. AnyMatch(entry, off) <=> \E i \in I : Match(entry, list[i])[1]
  BY <1>1, <1>2, <1>5 DEF AnyMatch
<1>10. Decisive(off, other) <=> Decisive(list, other)
  BY <1>1, <1>6 DEF Decisive
<1>11. AnyMatch(other, off) <=> AnyMatch(other, list)
  BY <1>1, <1>6 DEF AnyMatch
<1> QED BY <1>8, <1>9, <1>10, <1>11 DEF off

----------------------------------------------------------------------------
(* What the event log is asked for.                                         *)

\* A condition as it is parsed: it is switched off for nothing, and a group has
\* an operator.
Parsed(c) == c.black = {} /\ (c.group # <<>> => c.gop \in {"and", "or"})

\* An event has all columns of the query, each under its plain name.
IsEvent(e) ==
    /\ {"id", "level", "source", "provider"} \subseteq DOMAIN e
    /\ e.provider = e.source
PlainNames(e, c) == \A i \in DOMAIN VarKeys(c) : Has(e, VarKeys(c)[i]) => VarKeys(c)[i] = c.kw

\* The leaves below a condition, and whether there is an "or".
LeavesFrom(leaves, c) ==
    leaves[c] = IF c.kind = "none" THEN {}
                ELSE IF c.group = <<>> THEN {c} ELSE UNION {leaves[c.group[i]] : i \in DOMAIN c.group}
OrFrom(hasOr, c) ==
    hasOr[c] <=> c.group # <<>> /\ (c.gop = "or" \/ \E i \in DOMAIN c.group : hasOr[c.group[i]])

\* The condition c does not say no to e.
Allows(e, c) == Match(e, c) # <<FALSE, TRUE>>

LEMMA SameTuple ==
    ASSUME NEW a, NEW b PROVE <<a, b>>[1] = a /\ <<a, b>>[2] = b
OBVIOUS

LEMMA Smallest ==
    ASSUME NEW J \in SUBSET Nat, J # {}
    PROVE  \E j \in J : \A k \in J : j <= k
<1>1. PICK j \in J : \A k \in J : <<k, j>> \notin OpToRel(<, Nat)
  BY NatLessThanWellFounded, WFMin
<1>2. \A k \in J : ~(k < j)
  <2> SUFFICES ASSUME NEW k \in J, k < j PROVE FALSE
    OBVIOUS
  <2> DEFINE R == OpToRel(<, Nat)
  <2>1. R = {p \in Nat \X Nat : p[1] < p[2]}
    BY DEF OpToRel
  <2>2. <<k, j>> \in R
    <3> HIDE DEF R
    <3> QED BY <2>1
  <2> QED BY <1>1, <2>2
<1> QED BY <1>2

\* An event that a leaf does not refuse passes one of the tests of the leaf.
LEMMA LeafIsAsked ==
    ASSUME NEW e, IsEvent(e), NEW c, PlainNames(e, c), LeafToWQL(c) # {},
           Allows(e, c), Match(e, c) = MatchSingle(e, c)
    PROVE  \E t \in LeafToWQL(c) :
              IF t.op = "=" THEN e[t.col] = t.val ELSE HasTextFold(e[t.col], t.val)
<1> DEFINE column == CASE c.kw = "id" -> "id" [] c.kw = "level" -> "level"
                       [] c.kw \in {"source", "provider"} -> "source" [] OTHER -> ""
           values == CASE c.op = "=" -> {c.val} [] c.op = "in" -> c.val.l [] OTHER -> {}
           v == e[column]
           Eq == {[col |-> column, op |-> "=", val |-> w] : w \in values}
           likes == IF c.op \in {"like", "slike"} /\ column # "id" /\ c.val # Text("")
                    THEN {c.val} ELSE {}
           Like == {[col |-> column, op |-> "like", val |-> w] : w \in likes}
<1>1. column # "" /\ LeafToWQL(c) = Eq \union Like
  <2> DEFINE plain == \A w \in values : IF column = "id" THEN IsNum(w) ELSE w # Text("")
  <2>1. LeafToWQL(c) = IF column = "" \/ ~plain THEN {} ELSE Eq \union Like
    BY Zenon DEF LeafToWQL
  <2> HIDE DEF column, values, likes, plain, Eq, Like
  <2> QED BY <2>1
<1>2. c.kw \in {"id", "level", "source", "provider"} /\ e[c.kw] = v /\ c.kw \in DOMAIN e
  BY <1>1 DEF IsEvent
<1>3. GetVarValue(e, c) = {v}
  <2> DEFINE keys == VarKeys(c)
  <2>1. \E n \in Nat : n > 0 /\ DOMAIN keys = 1..n /\ keys[n] = c.kw
    <3>1. CASE c.unit = "%" \/ c.unit \in {"B", "B/s"}
      <4>1. DOMAIN keys = 1..3 /\ keys[3] = c.kw
        BY <3>1 DEF VarKeys
      <4> QED BY <4>1
    <3>2. CASE ~(c.unit = "%" \/ c.unit \in {"B", "B/s"})
      <4>1. DOMAIN keys = 1..2 /\ keys[2] = c.kw
        BY <3>2 DEF VarKeys
      <4> QED BY <4>1
    <3> QED BY <3>1, <3>2
  <2>2. \A i \in DOMAIN keys : Has(e, keys[i]) => keys[i] = c.kw
    BY DEF PlainNames
  <2> HIDE DEF keys, v
  <2>3. FirstOf(keys, e) \subseteq {v}
    BY <1>2, <2>2 DEF FirstOf
  <2>4. \E j \in DOMAIN keys : Has(e, keys[j]) /\ \A k \in 1..(j - 1) : ~Has(e, keys[k])
    <3>1. PICK n \in Nat : n > 0 /\ DOMAIN keys = 1..n /\ keys[n] = c.kw
      BY <2>1
    <3> DEFINE J == {j \in 1..n : Has(e, keys[j])}
    <3>2. J # {} /\ J \subseteq Nat
      BY <1>2, <3>1 DEF Has
    <3>3. PICK j \in J : \A k \in J : j <= k
      <4> HIDE DEF J
      <4> QED BY <3>2, Smallest
    <3> QED BY <3>1, <3>3
  <2>5. FirstOf(keys, e) # {}
    BY <2>4 DEF FirstOf
  <2> QED BY <2>3, <2>5 DEF GetVarValue, keys
<1> HIDE DEF column, values, v
<1>4. Compare(c.op, v, c.val)
  <2>1. MatchSingle(e, c) = <<\E x \in {v} : Compare(c.op, x, c.val), TRUE>>
    BY <1>3 DEF MatchSingle
  <2>2. (\E x \in {v} : Compare(c.op, x, c.val)) \/ MatchSingle(e, c) = <<FALSE, TRUE>>
    BY <2>1
  <2> QED BY <2>2 DEF Allows
<1>5. values # {} \/ likes # {}
  <2>1. Eq \union Like # {}
    BY <1>1
  <2> HIDE DEF likes
  <2> QED BY <2>1
<1>6. CASE values # {}
  <2>1. v \in values
    <3>1. CASE c.op = "=" /\ values = {c.val}
      BY <1>4, <3>1 DEF Compare
    <3>2. CASE c.op = "in" /\ values = c.val.l
      BY <1>4, <3>2 DEF Compare
    <3> QED BY <1>6, <3>1, <3>2 DEF values
  <2>2. PICK t : t = [col |-> column, op |-> "=", val |-> v]
    OBVIOUS
  <2>3. t \in LeafToWQL(c)
    BY <1>1, <2>1, <2>2
  <2>4. e[t.col] = t.val /\ t.op = "="
    BY <2>2 DEF v
  <2> QED BY <2>3, <2>4
<1>7. CASE likes # {}
  <2>1. c.op \in {"like", "slike"} /\ likes = {c.val}
    BY <1>7
  <2>2. HasTextFold(v, c.val)
    BY <1>4, <2>1 DEF Compare, HasTextFold
  <2>3. PICK t : t = [col |-> column, op |-> "like", val |-> c.val]
    OBVIOUS
  <2> HIDE DEF likes
  <2>4. t \in LeafToWQL(c)
    BY <1>1, <2>1, <2>3
  <2>5. t.op # "=" /\ HasTextFold(e[t.col], t.val)
    BY <2>2, <2>3 DEF v
  <2> QED BY <2>4, <2>5
<1> QED BY <1>5, <1>6, <1>7

LEMMA GroupAllows ==
    ASSUME NEW gop \in {"and", "or"}, NEW res, MatchGroup(gop, res) # <<FALSE, TRUE>>, res # {}
    PROVE  /\ \E r \in res : r # <<FALSE, TRUE>>
           /\ gop = "and" => <<FALSE, TRUE>> \notin res
<1>1. CASE gop = "and"
  BY <1>1 DEF MatchGroup
<1>2. CASE gop = "or"
  <2>1. CASE <<TRUE, TRUE>> \in res
    <3>1. <<TRUE, TRUE>> # <<FALSE, TRUE>>
      BY SameTuple
    <3> QED BY <1>2, <2>1, <3>1
  <2>2. CASE <<TRUE, TRUE>> \notin res
    <3>1. PICK r \in res : ~r[2]
      BY <1>2, <2>2 DEF MatchGroup
    <3>2. r # <<FALSE, TRUE>>
      BY <3>1, SameTuple
    <3> QED BY <1>2, <3>2
  <2> QED BY <2>1, <2>2
<1> QED BY <1>1, <1>2

\* If a condition allows an event, so does a leaf below it, and so do all of
\* them if it has no "or".
LeavesAllow(e, leaves, hasOr, c) ==
    Allows(e, c) => /\ \E l \in leaves[c] : Allows(e, l)
                    /\ hasOr[c] \/ \A l \in leaves[c] : Allows(e, l)

LEMMA NodeAllows ==
    ASSUME NEW e, NEW c, Parsed(c), MatchesAlong(e, c), Allows(e, c),
           NEW res, res = {Match(e, c.group[i]) : i \in DOMAIN c.group}
    PROVE  /\ c.kind # "none"
           /\ c.group = <<>> => Match(e, c) = MatchSingle(e, c)
           /\ c.group # <<>> =>
                 c.gop \in {"and", "or"} /\ MatchGroup(c.gop, res) # <<FALSE, TRUE>>
<1>1. BlacklistWhitelistCheck(e, c)
  BY DEF Parsed, BlacklistWhitelistCheck
<1>2. Match(e, c) = MatchNode(e, c, res)
  BY DEF MatchesAlong
<1>3. c.kind # "none"
  BY <1>2 DEF MatchNode, Allows
<1>4. c.group = <<>> => Match(e, c) = MatchSingle(e, c)
  BY <1>1, <1>2, <1>3 DEF MatchNode
<1>5. c.group # <<>> => Match(e, c) = MatchGroup(c.gop, res)
  BY <1>1, <1>2, <1>3 DEF MatchNode
<1> QED BY <1>3, <1>4, <1>5 DEF Parsed, Allows

LEMMA TreeAllows ==
    ASSUME NEW e, NEW c, Parsed(c), MatchesAlong(e, c),
           NEW leaves, LeavesFrom(leaves, c), NEW hasOr, OrFrom(hasOr, c),
           c.group = <<>> \/ DOMAIN c.group # {},
           \A i \in DOMAIN c.group : LeavesAllow(e, leaves, hasOr, c.group[i])
    PROVE  LeavesAllow(e, leaves, hasOr, c)
<1> SUFFICES ASSUME Allows(e, c)
             PROVE  /\ \E l \in leaves[c] : Allows(e, l)
                    /\ hasOr[c] \/ \A l \in leaves[c] : Allows(e, l)
  BY DEF LeavesAllow
<1>0. PICK res : res = {Match(e, c.group[i]) : i \in DOMAIN c.group}
  OBVIOUS
<1>1. c.kind # "none"
  BY <1>0, NodeAllows
<1>2. CASE c.group = <<>>
  BY <1>1, <1>2 DEF LeavesFrom
<1>3. CASE c.group # <<>>
  <2>1. leaves[c] = UNION {leaves[c.group[i]] : i \in DOMAIN c.group}
    BY <1>1, <1>3 DEF LeavesFrom
  <2>3. c.gop \in {"and", "or"} /\ MatchGroup(c.gop, res) # <<FALSE, TRUE>>
    BY <1>3, <1>0, NodeAllows
  <2>4. res # {}
    BY <1>3, <1>0
  <2>5. /\ \E r \in res : r # <<FALSE, TRUE>>
        /\ c.gop = "and" => <<FALSE, TRUE>> \notin res
    BY <2>3, <2>4, GroupAllows
  <2>6. \E i \in DOMAIN c.group : Allows(e, c.group[i])
    BY <1>0, <2>5 DEF Allows
  <2>7. \E l \in leaves[c] : Allows(e, l)
    BY <2>1, <2>6 DEF LeavesAllow
  <2>8. ASSUME ~hasOr[c] PROVE \A l \in leaves[c] : Allows(e, l)
    <3>1. c.gop = "and" /\ \A i \in DOMAIN c.group : ~hasOr[c.group[i]]
      BY <1>3, <2>3, <2>8 DEF OrFrom
    <3>2. \A i \in DOMAIN c.group : Allows(e, c.group[i])
      BY <1>0, <2>5, <3>1 DEF Allows
    <3> QED BY <2>1, <3>1, <3>2 DEF LeavesAllow
  <2> QED BY <2>7, <2>8
<1> QED BY <1>2, <1>3

\* What a tree of conditions is and what is known of each of its nodes.
Asked(e, S, depth, leaves, hasOr) ==
    /\ Trees(S, depth)
    /\ \A c \in S : /\ Parsed(c) /\ MatchesAlong(e, c)
                    /\ LeavesFrom(leaves, c) /\ OrFrom(hasOr, c)
                    /\ PlainNames(e, c)
                    /\ c.group = <<>> \/ DOMAIN c.group # {}

LEMMA AllLeavesAllow ==
    ASSUME NEW e, NEW S, NEW depth, NEW leaves, NEW hasOr, Asked(e, S, depth, leaves, hasOr)
    PROVE  \A c \in S : LeavesAllow(e, leaves, hasOr, c)
<1> DEFINE Below(n) == \A c \in S : depth[c] < n => LeavesAllow(e, leaves, hasOr, c)
           P == {n \in Nat : Below(n)}
<1>1. \A c \in S : depth[c] \in Nat
  BY DEF Asked, Trees
<1>2. Below(0)
  BY <1>1
<1>3. ASSUME NEW n \in Nat, Below(n) PROVE Below(n + 1)
  <2> SUFFICES ASSUME NEW c \in S, depth[c] < n + 1 PROVE LeavesAllow(e, leaves, hasOr, c)
    OBVIOUS
  <2>1. ASSUME NEW i \in DOMAIN c.group PROVE LeavesAllow(e, leaves, hasOr, c.group[i])
    <3>1. c.group[i] \in S /\ depth[c.group[i]] < depth[c]
      BY DEF Asked, Trees
    <3>2. depth[c.group[i]] < n
      BY <1>1, <3>1
    <3> QED BY <1>3, <3>1, <3>2
  <2>2. /\ Parsed(c) /\ MatchesAlong(e, c) /\ LeavesFrom(leaves, c) /\ OrFrom(hasOr, c)
        /\ c.group = <<>> \/ DOMAIN c.group # {}
    BY DEF Asked
  <2> QED BY <2>1, <2>2, TreeAllows
<1> HIDE DEF Below
<1>4. P = Nat
  <2>1. P \in SUBSET Nat /\ 0 \in P /\ \A n \in P : n + 1 \in P
    BY <1>2, <1>3
  <2> HIDE DEF P
  <2> QED BY <2>1, LeastNat
<1>5. ASSUME NEW c \in S PROVE LeavesAllow(e, leaves, hasOr, c)
  <2>1. depth[c] + 1 \in P /\ depth[c] < depth[c] + 1
    BY <1>1, <1>4
  <2> QED BY <2>1 DEF Below
<1> QED BY <1>5

\* All leaves are conditions without members.
LEMMA LeavesAreLeaves ==
    ASSUME NEW e, NEW S, NEW depth, NEW leaves, NEW hasOr, Asked(e, S, depth, leaves, hasOr)
    PROVE  \A c \in S : leaves[c] \subseteq {l \in S : l.kind # "none" /\ l.group = <<>>}
<1> DEFINE L == {l \in S : l.kind # "none" /\ l.group = <<>>}
           Below(n) == \A c \in S : depth[c] < n => leaves[c] \subseteq L
           P == {n \in Nat : Below(n)}
<1>1. \A c \in S : depth[c] \in Nat
  BY DEF Asked, Trees
<1>2. Below(0)
  BY <1>1
<1>3. ASSUME NEW n \in Nat, Below(n) PROVE Below(n + 1)
  <2> SUFFICES ASSUME NEW c \in S, depth[c] < n + 1 PROVE leaves[c] \subseteq L
    OBVIOUS
  <2>1. ASSUME NEW i \in DOMAIN c.group PROVE leaves[c.group[i]] \subseteq L
    <3>1. c.group[i] \in S /\ depth[c.group[i]] < depth[c]
      BY DEF Asked, Trees
    <3>2. depth[c.group[i]] < n
      BY <1>1, <3>1
    <3> HIDE DEF L
    <3> QED BY <1>3, <3>1, <3>2
  <2>2. LeavesFrom(leaves, c)
    BY DEF Asked
  <2> QED BY <2>1, <2>2 DEF LeavesFrom
<1> HIDE DEF Below
<1>4. P = Nat
  <2>1. P \in SUBSET Nat /\ 0 \in P /\ \A n \in P : n + 1 \in P
    BY <1>2, <1>3
  <2> HIDE DEF P
  <2> QED BY <2>1, LeastNat
<1> HIDE DEF L
<1>5. ASSUME NEW c \in S PROVE leaves[c] \subseteq L
  <2>1. depth[c] + 1 \in P /\ depth[c] < depth[c] + 1
    BY <1>1, <1>4
  <2> QED BY <2>1 DEF Below
<1> QED BY <1>5 DEF L

\* The query that check_eventlog makes of its filter withholds no event that
\* the filter keeps, however the filter is nested and whatever of it the query
\* language cannot say (MatchingEventsFound; buildFilterQueryWhereLine,
\* check_eventlog_query_windows.go).
THEOREM QueryKeepsMatches ==
    ASSUME NEW e, IsEvent(e), NEW S, NEW depth, NEW leaves, NEW hasOr,
           Asked(e, S, depth, leaves, hasOr), NEW filter \in Seq(S),
           MatchMapCondition(filter, e, FALSE)
    PROVE  LET all == UNION {leaves[filter[i]] : i \in DOMAIN filter}
               or == ManyTop(filter) \/ \E i \in DOMAIN filter : hasOr[filter[i]]
           IN Queried(e, QueryOf(all, or))
<1> DEFINE all == UNION {leaves[filter[i]] : i \in DOMAIN filter}
           or == ManyTop(filter) \/ \E i \in DOMAIN filter : hasOr[filter[i]]
           real == {i \in DOMAIN filter : filter[i].kind # "none"}
           Passed(t) == IF t.op = "=" THEN e[t.col] = t.val ELSE HasTextFold(e[t.col], t.val)
<1>1. \A i \in DOMAIN filter : filter[i] \in S
  OBVIOUS
<1>2. \A i \in DOMAIN filter : LeavesAllow(e, leaves, hasOr, filter[i])
  BY <1>1, AllLeavesAllow
<1>3. \A l \in all : l \in S /\ l.kind # "none" /\ l.group = <<>>
  BY <1>1, LeavesAreLeaves
<1>4. ASSUME NEW i \in DOMAIN filter \ real PROVE leaves[filter[i]] = {}
  <2>1. LeavesFrom(leaves, filter[i]) /\ filter[i].kind = "none"
    BY <1>1 DEF Asked
  <2> QED BY <2>1 DEF LeavesFrom
<1>5. ASSUME NEW l \in all, Allows(e, l), LeafToWQL(l) # {}
      PROVE  \E t \in LeafToWQL(l) : Passed(t)
  <2>1. Parsed(l) /\ MatchesAlong(e, l) /\ PlainNames(e, l) /\ l.group = <<>>
    BY <1>3 DEF Asked
  <2>2. Match(e, l) = MatchSingle(e, l)
    BY <1>5, <2>1, NodeAllows
  <2> QED BY <1>5, <2>1, <2>2, LeafIsAsked
<1> HIDE DEF all, Passed
<1>6. QueryOf(all, or) = {} \/ \E t \in QueryOf(all, or) : Passed(t)
  <2>1. CASE or /\ \E c \in all : LeafToWQL(c) = {}
    BY <2>1 DEF QueryOf
  <2>2. CASE ~(or /\ \E c \in all : LeafToWQL(c) = {})
    <3>1. QueryOf(all, or) = UNION {LeafToWQL(c) : c \in all}
      BY <2>2 DEF QueryOf
    <3>2. CASE real = {}
      <4>1. all = {}
        BY <1>4, <3>2 DEF all
      <4> QED BY <3>1, <4>1
    <3>3. CASE real # {}
      <4>1. PICK i \in real : Passes(Match(e, filter[i]), filter[i], FALSE)
        BY <3>3 DEF MatchMapCondition
      <4>2. Allows(e, filter[i])
        <5> SUFFICES ASSUME Match(e, filter[i]) = <<FALSE, TRUE>> PROVE FALSE
          BY DEF Allows
        <5>1. Match(e, filter[i])[2] /\ ~Match(e, filter[i])[1]
          BY SameTuple
        <5> QED BY <4>1, <5>1 DEF Passes
      <4>3. PICK l \in leaves[filter[i]] : Allows(e, l)
        BY <1>2, <4>2 DEF LeavesAllow
      <4>4. l \in all
        BY DEF all
      <4>5. CASE or
        <5>1. LeafToWQL(l) # {}
          BY <2>2, <4>4, <4>5
        <5> QED BY <1>5, <3>1, <4>3, <4>4, <5>1
      <4>6. CASE ~or
        <5>1. real = {i}
          BY <4>6 DEF ManyTop
        <5>2. all = leaves[filter[i]]
          BY <1>4, <5>1 DEF all
        <5>3. \A c \in all : Allows(e, c)
          BY <1>2, <4>2, <4>6, <5>2 DEF LeavesAllow
        <5>4. CASE \A c \in all : LeafToWQL(c) = {}
          BY <3>1, <5>4
        <5>5. CASE \E c \in all : LeafToWQL(c) # {}
          BY <1>5, <3>1, <5>3, <5>5
        <5> QED BY <5>4, <5>5
      <4> QED BY <4>5, <4>6
    <3> QED BY <3>2, <3>3
  <2> QED BY <2>1, <2>2
<1> HIDE DEF or
<1> QED BY <1>6 DEF Queried, Passed, all, or
=============================================================================
