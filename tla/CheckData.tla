----------------------------- MODULE CheckData -----------------------------
(***************************************************************************)
(* The pipeline every built-in check runs through: arguments and defaults  *)
(* become conditions (ParseArgs), the check fills list and metrics, and    *)
(* Finalize filters the list and decides the state.                        *)
(*                                                                         *)
(* cd is the CheckData object.  An entry is data of module Condition; _id  *)
(* stands for the identity of its map.  ran is not part of it: it notes    *)
(* what a check_multi has run.  Texts the templates build are left out,    *)
(* what they count is not.                                                 *)
(***************************************************************************)
EXTENDS Condition

\* A check's own argument; the thresholds replace the defaults of the check.
Arg(typ, isFilter) ==
    [typ |-> typ, isFilter |-> isFilter, warn |-> <<>>, crit |-> <<>>, unknown |-> <<>>]

\* The fields of CheckData a check's Build() may set, with their zero values.
Blank ==
    [name |-> "", args |-> << >>, given |-> << >>, supplied |-> {}, err |-> "",
     help |-> FALSE, passthrough |-> FALSE, attr |-> << >>, extraAttr |-> {},
     filter |-> <<>>, warn |-> <<>>, crit |-> <<>>, unknown |-> <<>>, ok |-> <<>>,
     defFilter |-> <<>>, defWarn |-> <<>>, defCrit |-> <<>>, defUnknown |-> <<>>,
     colAlias |-> << >>, alias |-> << >>, useDefFilter |-> TRUE,
     hasArgsFilter |-> FALSE, emptyState |-> 0, emptyStateSet |-> FALSE,
     overrideCounts |-> FALSE, inventory |-> FALSE, perfIgnore |-> {},
     details |-> << >>, list |-> <<>>, metrics |-> <<>>, state |-> 0,
     output |-> FALSE, ran |-> << >>]

Failed(cd) == cd.err # ""
Fail(cd, why) == [cd EXCEPT !.err = why]

----------------------------------------------------------------------------
(* Arguments.  One is [key |-> .., val |-> <<token, ..>>]; a bare word has  *)
(* no val and takes the next one if its key wants a value.                 *)

IsBare(a) == "val" \notin DOMAIN a
\* fetchNextArg for the argument at index i: how many it takes, and which.
FetchNextArg(cd, args, i) ==
    LET a == args[i] IN
    IF ~IsBare(a) THEN [arg |-> a, next |-> i + 1]
    ELSE IF a.key \notin DOMAIN cd.args \/ cd.args[a.key].typ = "bool"
         THEN [arg |-> [a EXCEPT !.key = @] @@ [val |-> <<>>], next |-> i + 1]
    ELSE IF i = Len(args) THEN [arg |-> a, next |-> 0]
    ELSE [arg |-> [key |-> a.key, val |-> <<[w |-> args[i + 1].key]>>], next |-> i + 2]

\* preParseArgs: an argument that selects objects disables the default
\* filter, and may bring thresholds of its own.
RECURSIVE PreParseArgs(_, _, _, _)
PreParseArgs(cd, args, i, sanitized) ==
    IF i > Len(args) THEN [cd |-> cd, args |-> sanitized]
    ELSE LET f == FetchNextArg(cd, args, i)
             def == cd.args[f.arg.key]
             Own(own, default) == IF own # <<>> THEN own ELSE default
             next == IF f.arg.key \in DOMAIN cd.args /\ def.isFilter
                     THEN [cd EXCEPT !.useDefFilter = FALSE, !.hasArgsFilter = TRUE,
                            !.defWarn = Own(def.warn, @), !.defCrit = Own(def.crit, @),
                            !.defUnknown = Own(def.unknown, @)]
                     ELSE cd
         IN IF f.next = 0 THEN [cd |-> Fail(cd, "argument value expected"), args |-> <<>>]
            ELSE PreParseArgs(next, args, f.next, Append(sanitized, f.arg))

AddCondition(cd, field, c) == [cd EXCEPT ![field] = Append(@, c.cond)]
\* appendDefaultThreshold: "and" with the default; only filter+ may repeat.
AppendDefaultThreshold(cd, field, default, c) ==
    IF cd[field] # <<>>
    THEN IF field # "filter" THEN Fail(cd, "used multiple times")
         ELSE [cd EXCEPT !.filter = <<Group("and", Append(@, c.cond))>>]
    ELSE [cd EXCEPT ![field] = IF default = <<>> THEN <<c.cond>>
                               ELSE <<Group("and", <<NewCondition(cd.attr, default).cond, c.cond>>)>>]

ThresholdField(key) ==
    CASE key \in {"warn", "warning", "warn+", "warning+"} -> "warn"
      [] key \in {"crit", "critical", "crit+", "critical+"} -> "crit"
      [] key \in {"unknown", "unknown+"} -> "unknown"
      [] key \in {"filter", "filter+"} -> "filter"
      [] key = "ok" -> "ok"
      [] OTHER -> ""
PlusKeys == {"warn+", "warning+", "crit+", "critical+", "unknown+", "filter+"}
DefaultOf(cd, field) ==
    CASE field = "warn" -> cd.defWarn [] field = "crit" -> cd.defCrit
      [] field = "unknown" -> cd.defUnknown [] field = "filter" -> cd.defFilter

ParseStateString(t) ==
    CASE t \in {[n |-> 0, u |-> ""], [w |-> "ok"]} -> 0
      [] t \in {[n |-> 1, u |-> ""], [w |-> "warn"], [w |-> "warning"]} -> 1
      [] t \in {[n |-> 2, u |-> ""], [w |-> "crit"], [w |-> "critical"]} -> 2
      [] OTHER -> 3

\* parseAnyArg and parseArgValue: the first value of a list replaces its
\* default; a tag must be unique among commands and is a name for variables.
Store(cd, key, val) ==
    [cd EXCEPT !.given = (key :> val) @@ @, !.supplied = @ \union {key}]
ParseArgValue(cd, a) ==
    LET typ == cd.args[a.key].typ
        old == IF a.key \in cd.supplied THEN cd.given[a.key] ELSE <<>>
        tagged == "tag" \in DOMAIN a
    IN CASE tagged /\ typ \notin {"tagged", "vars"} -> Fail(cd, "no tags")
         [] typ \in {"tagged", "vars"} ->
              IF ~tagged THEN Fail(cd, "tag required")
              ELSE IF typ = "tagged" /\ \E i \in DOMAIN old : old[i].tag = a.tag
              THEN Fail(cd, "duplicate tag")
              ELSE Store(cd, a.key, Append(old, a))
         [] typ = "list" /\ ~tagged -> Store(cd, a.key, old \o a.val)
         [] typ = "int" /\ ~tagged ->
              IF a.val = <<>> \/ \A i \in DOMAIN a.val : "n" \notin DOMAIN a.val[i]
              THEN Fail(cd, "parseInt") ELSE Store(cd, a.key, a.val)
         [] typ = "bool" /\ ~tagged ->
              LET v == IF a.val = <<>> THEN <<[w |-> "true"]>> ELSE a.val
                  b == ExpandUnitByType([x \in {a.key} |-> "bool"], a.key, v[1])
              IN IF ~b.ok THEN Fail(cd, "parseBool") ELSE Store(cd, a.key, <<[w |-> b.val.s]>>)
         [] OTHER -> Store(cd, a.key, a.val)

\* A filter or threshold; thresholds are marked as supplied.
ConditionArg(cd, field, key, c) ==
    LET marked == cd.overrideCounts /\ field \notin {"filter", "ok"}
        next == [cd EXCEPT !.useDefFilter = @ /\ field # "filter",
                           !.supplied = IF marked THEN @ \union {key} ELSE @]
    IN IF ~c.ok THEN Fail(cd, "condition")
       ELSE IF key \in PlusKeys
       THEN AppendDefaultThreshold(next, field, DefaultOf(cd, field), c)
       ELSE AddCondition(next, field, c)

\* One step of the loop of processArgs; what only formats texts is left out.
ProcessArg(cd, a) ==
    LET field == ThresholdField(a.key)
    IN IF Failed(cd) \/ cd.help THEN cd ELSE
       CASE field # "" -> ConditionArg(cd, field, a.key, NewCondition(cd.attr, a.val))
         [] a.key = "empty-state" ->
              [cd EXCEPT !.emptyState = ParseStateString(a.val[1]), !.emptyStateSet = TRUE]
         [] a.key = "perf-config" ->
              [cd EXCEPT !.perfIgnore = @ \union {t.w : t \in Range(a.val)}]
         [] a.key = "output" ->
              IF a.val = <<[w |-> "inventory_json"]>> THEN [cd EXCEPT !.inventory = TRUE]
              ELSE Fail(cd, "unknown output mode")
         [] OTHER ->
              IF a.key \in {"debug", "detail-syntax", "top-syntax", "ok-syntax", "show-all"}
              THEN cd
              ELSE IF a.key \in DOMAIN cd.args THEN ParseArgValue(cd, a)
              ELSE IF cd.passthrough \/ a.key = "-a" THEN cd
              ELSE Fail(cd, "unknown argument")

----------------------------------------------------------------------------
(* Defaults and aliases.                                                   *)

ApplyDefault(cd, field) ==
    LET default == DefaultOf(cd, field)
    IN IF cd[field] # <<>> \/ default = <<>> \/ (field = "filter" /\ ~cd.useDefFilter) THEN cd
       ELSE [cd EXCEPT ![field] = <<NewCondition(cd.attr, default).cond>>]
SetFallbacks(cd) == FoldLeft(ApplyDefault, cd, <<"filter", "warn", "crit", "unknown">>)

\* applyConditionColAlias: a condition on one column becomes one on all of
\* its aliases, joined by "or", a negated one by "and".
ColAlias(cd, c) ==
    IF c.group # <<>> \/ c.kw \notin DOMAIN cd.colAlias THEN c
    ELSE LET names == cd.colAlias[c.kw]
         IN Group(IF CompareEmpty(c) THEN "and" ELSE "or",
                  [i \in DOMAIN names |-> [Clone(c) EXCEPT !.kw = names[i]]])
\* applyConditionAlias: another word for a value.
ValueAlias(cd, c) ==
    IF c.kw \in DOMAIN cd.alias /\ c.val \in DOMAIN cd.alias[c.kw]
    THEN [c EXCEPT !.val = cd.alias[c.kw][c.val]] ELSE c

\* The alias group is not visited again: its leaves are made here.
RECURSIVE Aliased(_, _)
Aliased(cd, c) ==
    IF c.group = <<>> THEN
        LET g == ColAlias(cd, c)
        IN [ValueAlias(cd, g) EXCEPT
              !.group = [i \in DOMAIN @ |-> ValueAlias(cd, @[i])]]
    ELSE [c EXCEPT !.group = [i \in DOMAIN @ |-> Aliased(cd, @[i])]]

Lists == {"filter", "warn", "crit", "unknown", "ok"}
OnLists(cd, fields, F(_)) ==
    [f \in DOMAIN cd |-> IF f \in fields THEN F(cd[f]) ELSE cd[f]]
ApplyAliases(cd) ==
    LET All(list) == [i \in DOMAIN list |-> Aliased(cd, list[i])]
    IN OnLists(cd, Lists, All)

\* parseArgs.  help ends it before the other arguments are looked at.
Completed(cd) == IF Failed(cd) THEN cd ELSE ApplyAliases(SetFallbacks(cd))
ProcessArgs(pre) ==
    LET help == \E i \in DOMAIN pre.args : pre.args[i].key \in {"help", "-h", "--help"}
    IN FoldLeft(ProcessArg, [pre.cd EXCEPT !.help = help], pre.args)
ParseArgs(cd, args) == Completed(ProcessArgs(PreParseArgs(cd, args, 1, <<>>)))

\* checkFilterKeywordsAgainstAttributeNames, called by most checks; attrNames
\* are the attributes and what contains their names.
CheckFilterKeywords(cd, attrNames) ==
    IF ListKeywords(cd.filter) \subseteq attrNames THEN cd
    ELSE Fail(cd, "unknown attribute")

\* hasThresholdCond: the first group decides, whatever follows it.
RECURSIVE HasThresholdCond(_, _)
HasThresholdCond(list, name) ==
    IF list = <<>> THEN FALSE
    ELSE IF Head(list).group # <<>> THEN HasThresholdCond(Head(list).group, name)
    ELSE Head(list).kw = name \/ HasThresholdCond(Tail(list), name)

HasFilter(cd, name) == HasThresholdCond(cd.filter, name)
HasThreshold(cd, name) ==
    \E f \in {"warn", "crit", "unknown", "ok"} : HasThresholdCond(cd[f], name)

----------------------------------------------------------------------------
(* What the checks use to derive thresholds for their metrics.             *)

OnLeaves(F(_), list) ==
    LET G(c) == IF c.group = <<>> THEN F(c) ELSE c
    IN [i \in DOMAIN list |-> MapNodes(G, list[i])]

SetDefaultThresholdUnit(cd, unit, names) ==
    LET F(c) == IF c.unit = "" /\ c.kw \in names THEN [c EXCEPT !.unit = unit] ELSE c
        All(list) == OnLeaves(F, list)
    IN OnLists(cd, Lists, All)

\* Between percents and an amount; the name changes even if the unit stays.
\* Amounts are rounded half away from zero.
TransformThreshold(list, src, target, srcUnit, targetUnit, total) ==
    LET New(v) == IF srcUnit = "%" THEN (v * total + 50) \div 100
                  ELSE IF total = 0 THEN v ELSE (v * 100) \div total
        F(c) == IF c.kw # src THEN c
                ELSE IF c.unit # srcUnit THEN [c EXCEPT !.kw = target]
                ELSE [c EXCEPT !.kw = target, !.unit = targetUnit,
                               !.val = IF IsNum(@) THEN Num(New(@.n)) ELSE Num(0)]
    IN OnLeaves(F, list)

TransformMultipleKeywords(list, srcs, target, pct, bytes) ==
    LET F(c) == Retarget(c, srcs, target, pct, bytes) IN OnLeaves(F, list)

Metric(name, tname, val, warn, crit, entry) ==
    [name |-> name, tname |-> tname, val |-> val, warn |-> warn, crit |-> crit,
     entry |-> entry]
AddMetric(cd, m) == [cd EXCEPT !.metrics = Append(@, m)]

\* An amount and its percentage, each with the thresholds of both units.
AddBytePercentMetrics(cd, thr, label, val, total, entry) ==
    LET pct == IF total > 0 THEN (val * 100) \div total
               ELSE IF thr = "used" THEN 100 ELSE 0
        pctName == label \o " %"
        B(list) == TransformThreshold(list, thr, label, "%", "B", total)
        P(list) == TransformThreshold(list, thr, pctName, "B", "%", total)
    IN AddMetric(AddMetric(cd,
          Metric(label, "", Num(val), B(cd.warn), B(cd.crit), entry)),
          Metric(pctName, "", Num(pct), P(cd.warn), P(cd.crit), entry))

AddPercentMetrics(cd, thr, label, val, total, full, entry) ==
    AddMetric(cd, Metric(label \o " %", thr,
                         Num(IF total > 0 THEN (val * 100) \div total
                             ELSE IF full THEN 100 ELSE 0),
                         cd.warn, cd.crit, entry))

\* processMetricsWithSpecializedKeyword for the metrics of one entry.
SpecializeMetrics(cd, kw, names, entry) ==
    [cd EXCEPT !.metrics = [i \in DOMAIN @ |->
        IF @[i].name \notin names THEN @[i]
        ELSE [@[i] EXCEPT !.entry = Id(entry),
                          !.warn = FilterForSpecializedKeyword(@, kw, entry),
                          !.crit = FilterForSpecializedKeyword(@, kw, entry)]]]
=============================================================================
