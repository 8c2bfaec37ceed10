------------------------------ MODULE Finalize ------------------------------
(***************************************************************************)
(* CheckData.Finalize: thresholds are tried on the details, on every entry *)
(* that passes the filter, on every metric and on the counts of the list;  *)
(* the worst of it is the state of the check.                              *)
(***************************************************************************)
EXTENDS Values

CONSTANTS
    Match(_, _),        \* of a condition with data: whether, and if that is decided
    CompareEmpty(_),    \* of a condition: what a missing value counts as
    HasThreshold(_, _)  \* whether a threshold of the check uses the keyword

\* A plausible slip: what cannot be decided is dropped at once.
MatchMapEager(conds, entry, preCheck) ==
    \/ \A i \in DOMAIN conds : conds[i].kind = "none"
    \/ \E i \in DOMAIN conds : Match(entry, conds[i])[1]
    \/ ~preCheck /\ \E i \in DOMAIN conds :
            ~Match(entry, conds[i])[2] /\ CompareEmpty(conds[i])

\* MatchMapCondition: before the entry is complete a filter that cannot be
\* decided keeps it; at the end a missing value decides.
Passes(r, c, preCheck) == IF r[2] THEN r[1] ELSE preCheck \/ CompareEmpty(c)
MatchMapCondition(conds, entry, preCheck) ==
    LET real == {i \in DOMAIN conds : conds[i].kind # "none"}
    IN real = {} \/ \E i \in real : Passes(Match(entry, conds[i]), conds[i], preCheck)

\* MatchFilterMap, which takes the first condition that decides.
MatchFilterMap(conds, data) ==
    LET res == {IF conds[i].kind = "none" THEN <<TRUE, TRUE>> ELSE Match(data, conds[i]) :
                i \in DOMAIN conds}
    IN IF <<TRUE, TRUE>> \in res THEN <<TRUE, TRUE>>
       ELSE <<FALSE, \A r \in res : r[2]>>

Filter(conds, list) ==
    LET Keep(kept, e) == IF MatchMapCondition(conds, e, FALSE) THEN Append(kept, e) ELSE kept
    IN IF conds = <<>> THEN list ELSE FoldLeft(Keep, <<>>, list)

\* Check: the last of warning, critical, unknown and ok that matches.
Decisive(list, data) == \E i \in DOMAIN list : Match(data, list[i]) = <<TRUE, TRUE>>
Verdict(matching) ==
    IF "ok" \in matching THEN 0
    ELSE IF "unknown" \in matching THEN 3
    ELSE IF "crit" \in matching THEN 2
    ELSE IF "warn" \in matching THEN 1 ELSE 0
StateFor(cd, data) ==
    Verdict({f \in {"ok", "unknown", "crit", "warn"} : Decisive(cd[f], data)})
Check(cd, data) == With(data, "_state", Num(StateFor(cd, data)))

Escalate(state, s) == IF s > state THEN s ELSE state
StateOf(data) == IF Has(data, "_state") THEN data["_state"].n ELSE 0
Field(data, k) == IF Has(data, k) THEN data[k] ELSE Text("")

\* The loop over the entries: the first one that exited or errored ends it.
CheckEntry(acc, e) ==
    IF acc.stop THEN acc
    ELSE IF Field(e, "_skip") = Num(1) THEN [acc EXCEPT !.list = Append(@, e)]
    ELSE IF IsNum(Field(e, "_exit"))
         THEN [acc EXCEPT !.stop = TRUE, !.state = e["_exit"].n]
    ELSE IF Field(e, "_error") # Text("")
         THEN [acc EXCEPT !.stop = TRUE, !.err = "entry error"]
    ELSE [acc EXCEPT !.list = Append(@, Check(acc.cd, e))]

\* CheckMetrics.  A metric that is not OK overwrites the state of its entry,
\* a worse one included.
MetricData(m) == [k \in {m.name} \union ({m.tname} \ {""}) |-> m.val]
\* performMatches and its callers: the first of each pair.
AnyMatch(data, list) == \E i \in DOMAIN list : Match(data, list[i])[1]
MetricState(cd, m) ==
    Verdict({f \in {"ok", "crit", "warn"} :
                AnyMatch(MetricData(m), IF f = "ok" THEN cd.ok ELSE m[f])})
Concerns(m, e) == Id(e) # {} /\ Id(e) \subseteq m.entry
Overwrite(acc, m, s) ==
    LET Mark(e) == IF Concerns(m, e) THEN With(e, "_state", Num(s)) ELSE e
    IN IF s = 0 THEN acc
       ELSE [acc EXCEPT !.state = Escalate(@, s),
                        !.list = [i \in DOMAIN @ |-> Mark(@[i])]]
CheckMetric(acc, m) == IF acc.stop THEN acc ELSE Overwrite(acc, m, MetricState(acc.cd, m))

\* buildListMacros: what can be counted.  A single entry always counts one,
\* and an entry without a state counts nowhere.
Weight(e, single) == IF ~single /\ Has(e, "_count") THEN e["_count"].n ELSE 1
CountOf(states, list) ==
    LET Add(n, e) == IF Has(e, "_state") /\ StateOf(e) \in states
                     THEN n + Weight(e, Len(list) = 1) ELSE n
    IN FoldLeft(Add, 0, list)
Counts(list) ==
    LET In(states) == CountOf(states, list)
        total == FoldLeft(LAMBDA n, e : n + Weight(e, Len(list) = 1), 0, list)
        value == [count |-> total, ok_count |-> In({0}),
                  warn_count |-> In({1}), warning_count |-> In({1}),
                  crit_count |-> In({2}), critical_count |-> In({2}),
                  unknown_count |-> In({3}), problem_count |-> In({1, 2, 3})]
    IN [k \in DOMAIN value |-> Num(value[k])]

\* A plausible slip: the state of the counts replaces what was found so far.
EscalateFromLast(cd, state, macros) ==
    IF macros["crit_count"] # Num(0) THEN 2 ELSE IF macros["warn_count"] # Num(0) THEN 1 ELSE 0

\* escalateFromCount is off for a threshold the user gave, in the checks
\* that say so.
EscalateFromCounts(cd, state, macros) ==
    LET Given(keys) == keys \intersect cd.supplied # {}
        Up(s, k, keys, to) == IF Given(keys) \/ macros[k] = Num(0) THEN s
                              ELSE Escalate(s, to)
    IN Up(Up(Up(state, "warn_count", {"warn", "warning", "warn+", "warning+"}, 1),
             "crit_count", {"crit", "critical", "crit+", "critical+"}, 2),
          "unknown_count", {"unknown", "unknown+"}, 3)

\* setStateFromMaps
SetStateFromMaps(cd, state, macros, details) ==
    Escalate(EscalateFromCounts(cd, Escalate(state, StateOf(macros)), macros),
             StateOf(details))

\* A plausible slip: only a filter makes an empty list suspicious.
EmptyStateOfFilter(cd, list, state) ==
    IF list = <<>> /\ cd.filter # <<>> THEN cd.emptyState ELSE state

\* What finalizeOutput makes of an empty list.
EmptyState(cd, list, state) ==
    IF ~cd.output /\ list = <<>> /\ (cd.filter # <<>> \/ cd.hasArgsFilter)
       /\ (cd.emptyStateSet \/ ~HasThreshold(cd, "count"))
    THEN cd.emptyState ELSE state

CheckList(cd) ==
    LET start == [cd |-> cd, stop |-> FALSE, err |-> "", state |-> cd.state, list |-> <<>>]
    IN FoldLeft(CheckMetric, FoldLeft(CheckEntry, start, Filter(cd.filter, cd.list)),
                cd.metrics)

\* finalizeOutput, from the entries and metrics judged, the counts and details.
FinalizeOutput(cd, judged, macros, details) ==
    LET Shown(m) == m.name \notin cd.perfIgnore
        Result(err, s) == [err |-> err, state |-> s, list |-> judged.list,
                           macros |-> macros, details |-> details,
                           metrics |-> SelectSeq(cd.metrics, Shown)]
    IN IF cd.err # "" THEN Result(cd.err, 3)
       ELSE IF cd.inventory THEN Result("", cd.state)
       ELSE IF judged.err # "" THEN Result(judged.err, 3)
       ELSE IF judged.stop THEN Result("", judged.state)
       ELSE Result("", EmptyState(cd, judged.list,
                           SetStateFromMaps(cd, judged.state, macros, details)))
JudgeCounts(cd, judged) ==
    FinalizeOutput(cd, judged, Check(cd, Counts(judged.list)), Check(cd, cd.details))
Finalize(cd) == JudgeCounts(cd, CheckList(cd))

----------------------------------------------------------------------------
\* The state r says is at least that of each entry the filter keeps and of
\* each metric.  Where a metric of the entry is not OK either, it has replaced
\* the state of its entry.
PassesFilter(cd, e) == cd.filter = <<>> \/ MatchMapCondition(cd.filter, e, FALSE)
Replaced(cd, e) ==
    \E m \in Range(cd.metrics) :
        Concerns(m, e) /\ MetricState(cd, m) \in 1..(StateFor(cd, e) - 1)
HidesNothing(cd, r) ==
    /\ \A e \in Range(cd.list) :
          PassesFilter(cd, e) /\ Field(e, "_skip") # Num(1) =>
              StateFor(cd, e) <= r.state \/ Replaced(cd, e)
    /\ \A m \in Range(cd.metrics) : MetricState(cd, m) <= r.state \/ r.list = <<>>
=============================================================================
