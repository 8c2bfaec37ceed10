---------------------------- MODULE ChecksSystem ----------------------------
(***************************************************************************)
(* The checks of the machine itself: check_cpu, check_cpu_utilization,     *)
(* check_load, check_memory, check_swap_io, check_pagefile,                *)
(* check_temperature, check_uptime, check_kernel_stats, check_os_version,  *)
(* check_os_updates, check_mailq and check_omd.  Measured values are whole *)
(* numbers.                                                                *)
(***************************************************************************)
EXTENDS ChecksProc

Args(keys, typ, isFilter) == [k \in keys |-> Arg(typ, isFilter)]
Cond(kw, op, n, u) == <<W(kw), W(op), N(n, u)>>
AddEntry(cd, e) == [cd EXCEPT !.list = Append(@, e)]
AddMetrics(cd, ms) == [cd EXCEPT !.metrics = @ \o ms]
Each(F(_), s) == FlattenSeq([i \in DOMAIN s |-> F(s[i])])
CoresMetric(cd, n) ==
    IF HasThreshold(cd, "cores") \/ HasFilter(cd, "cores")
    THEN <<Plain("cores", "cores", Num(n), cd)>> ELSE <<>>

----------------------------------------------------------------------------
(* check_cpu: env.cores are the counters, [name, nr, avg], avg by time.    *)

CPUBuild ==
    [Blank EXCEPT !.name = "check_cpu", !.emptyState = 3,
        !.args = Args({"time"}, "list", FALSE),
        !.defFilter = Lit("core", "=", "total"),
        !.defWarn = Cond("load", ">", 80, ""), !.defCrit = Cond("load", ">", 90, "")]

CPUGather(cd, env, pre) ==
    LET times == IF Given(cd, "time") = <<>> THEN env.times
                 ELSE [i \in DOMAIN Given(cd, "time") |-> Given(cd, "time")[i].w]
        Shown(c) == LET r == MatchFilterMap(cd.filter, [core |-> Text(c.name),
                                 core_id |-> Text(c.name), core_nr |-> Num(c.nr)])
                    IN ~pre \/ r[1] \/ ~r[2]
        cores == SelectSeq(env.cores, Shown)
        E(c, t) == [time |-> Text(t), core |-> Text(c.name), core_id |-> Text(c.name),
                    core_nr |-> Num(c.nr), load |-> Num(c.avg[t]), cores |-> Num(env.numCPU)]
        M(c, t) == Plain(c.name \o " " \o t, "load", Num(c.avg[t]), cd)
        Entries(c) == [i \in DOMAIN times |-> E(c, times[i])]
        Metrics(c) == [i \in DOMAIN times |-> M(c, times[i])]
    IN IF env.cores = <<>> THEN Fail(cd, "no cpu counter available")
       ELSE [cd EXCEPT !.list = Each(Entries, cores),
                       !.metrics = Each(Metrics, cores) \o CoresMetric(cd, env.numCPU),
                       !.details = [cores |-> Num(env.numCPU)]]

(* check_cpu_utilization: without a result the entry keeps its zeros and    *)
(* there are no metrics.                                                    *)
UtilKeys == <<"total", "user", "system", "iowait", "steal", "guest", "idle">>
CPUUtilizationBuild ==
    [Blank EXCEPT !.name = "check_cpu_utilization", !.args = Args({"range"}, "text", FALSE),
        !.attr = Units(Range(UtilKeys), "percent"),
        !.defWarn = Cond("total", ">", 90, ""), !.defCrit = Cond("total", ">", 95, "")]

CPUUtilizationGather(cd, env, pre) ==
    LET known == DOMAIN env.util # {}
        V(k) == Num(IF known THEN env.util[k] ELSE 0)
        e == ("cores" :> Num(env.numCPU)) @@ [k \in Range(UtilKeys) |-> V(k)]
    IN IF env.cores = <<>> THEN Fail(cd, "no cpu counter available")
       ELSE IF WordOr(cd, "range", "1m") \notin env.ranges THEN Fail(cd, "couldn't parse range")
       ELSE AddMetrics(AddEntry(cd, e),
              IF ~known THEN <<>>
              ELSE [i \in DOMAIN UtilKeys |-> Plain(UtilKeys[i], "", V(UtilKeys[i]), cd)]
                   \o CoresMetric(cd, env.numCPU))

----------------------------------------------------------------------------
(* check_load: env.load are the three averages, times 100.                 *)

LoadKeys == <<"load1", "load5", "load15">>
LoadBuild ==
    [Blank EXCEPT !.name = "check_load", !.defFilter = <<W("none")>>,
        !.args = Args({"warning", "critical"}, "text", FALSE)
                 @@ Args({"-w", "-c"}, "list", FALSE) @@ Args({"-r"}, "bool", FALSE)]

\* transformPluginThresholds: one number stands for all three.
TransformPluginThresholds(cd, field, arg, typename) ==
    LET given == Given(cd, arg)
        three == IF Len(given) = 1 THEN <<given[1], given[1], given[1]>> ELSE given
        G(i) == Group("and", <<Leaf("type", "=", Text(typename), ""),
                               Leaf(LoadKeys[i], ">", Num(three[i].n), "")>>)
    IN IF given = <<>> \/ Failed(cd) THEN cd
       ELSE IF Len(three) # 3 THEN Fail(cd, "threshold must be three numbers")
       ELSE [cd EXCEPT ![field] = @ \o <<G(1), G(2), G(3)>>]

LoadGather(cd, env, pre) ==
    LET perCPU == IsOn(cd, "-r", FALSE)
        typename == IF perCPU THEN "scaled" ELSE "total"
        scaled == [i \in 1..3 |-> env.load[i] \div env.numCPU]
        E(t, v) == [type |-> Text(t), load |-> Num(Greatest(Range(v))), load1 |-> Num(v[1]),
                    load5 |-> Num(v[2]), load15 |-> Num(v[3]), cores |-> Num(env.numCPU)]
        M(c, prefix, v) ==
            [i \in 1..3 |->
                LET T(list) == TransformMultipleKeywords(list, {"load"}, LoadKeys[i], {}, {})
                IN Metric(prefix \o LoadKeys[i], LoadKeys[i], Num(v[i]), T(c.warn), T(c.crit), {})]
        list == <<E("total", env.load)>> \o (IF perCPU THEN <<E("scaled", scaled)>> ELSE <<>>)
        warned == TransformPluginThresholds([cd EXCEPT !.list = list], "warn", "-w", typename)
        judged == TransformPluginThresholds(warned, "crit", "-c", typename)
    IN IF ~env.listable THEN Fail(cd, "load.Avg()")
       ELSE IF perCPU /\ env.numCPU = 0 THEN Fail(cd, "cpu count is zero")
       ELSE IF Failed(judged) THEN judged
       ELSE [AddMetrics(judged,
                (IF perCPU THEN M(judged, "scaled_", scaled) \o
                                [i \in 1..3 |-> Bare(LoadKeys[i], Num(env.load[i]))]
                 ELSE M(judged, "", env.load)) \o CoresMetric(judged, env.numCPU))
             EXCEPT !.details = [cores |-> Num(env.numCPU)]]

----------------------------------------------------------------------------
(* check_memory: env.memory are [total, used] of each type.                *)

MemoryBuild ==
    [Blank EXCEPT !.name = "check_memory", !.args = Args({"type"}, "list", FALSE),
        !.attr = Units({"used", "used_bytes", "free", "free_bytes", "size"}, "byte")
                 @@ Units({"used_pct", "free_pct"}, "percent"),
        !.extraAttr = {"physical", "swap", "committed", "virtual"},
        !.defWarn = Cond("used", ">", 80, "%"), !.defCrit = Cond("used", ">", 90, "%")]

\* An amount as text and its numbers.
Amounts(name, v, total) ==
    (name :> Text("human")) @@ ((name \o "_bytes") :> Num(v))
    @@ ((name \o "_pct") :> Num(Pct(v, total)))

\* addMemType.  The entry is the map the metrics write their state to.
AddMemType(cd, name, m) ==
    LET free == m.total - m.used
        e == Amounts("used", m.used, m.total) @@ Amounts("free", free, m.total)
             @@ ("type" :> Text(name)) @@ ("size_bytes" :> Num(m.total)) @@ ("_id" :> Text(name))
        Amount(c, k, label, v) ==
            LET R(list) == TransformMultipleKeywords(list, {k \o "_pct"}, k, {k \o "_pct"}, {})
            IN IF ~(HasThreshold(c, k) \/ HasThreshold(c, k \o "_pct")) THEN c
               ELSE AddBytePercentMetrics([c EXCEPT !.warn = R(@), !.crit = R(@)],
                                          k, label, v, m.total, Id(e))
    IN Amount(Amount(AddEntry(cd, e), "free", name \o "_free", free), "used", name, m.used)

MemoryGather(cd, env, pre) ==
    LET start == SetDefaultThresholdUnit(cd, "%", {"used", "free"})
        asked == "type" \in cd.supplied
        types == IF asked THEN [i \in DOMAIN Given(cd, "type") |-> Given(cd, "type")[i].w]
                 ELSE IF env.os = "windows" THEN <<"physical", "committed">>
                 ELSE <<"physical", "swap">>
        Add(acc, t) ==
            CASE Failed(acc) -> acc
              [] t = "virtual" /\ env.os # "windows" -> Fail(acc, "only supported on windows")
              [] t \notin DOMAIN env.memory -> Fail(acc, "unknown type")
              [] t \in {"swap", "committed"} /\ env.memory[t].total = 0 /\ ~asked -> acc
              [] OTHER -> AddMemType(acc, t, env.memory[t])
    IN IF env.memory["physical"].total = 0 THEN Fail(cd, "total physical memory is zero")
       ELSE FoldLeft(Add, start, types)

----------------------------------------------------------------------------
(* check_swap_io: env.swap has swp_in and swp_out while their counters are  *)
(* there, each with its last value, its rate and its retention.             *)

SwapIOBuild ==
    [Blank EXCEPT !.name = "check_swap_io", !.args = Args({"lookback"}, "int", TRUE),
        !.attr = Units({"swap_in", "swap_in_rate", "swap_in_rate_bytes", "swap_out",
                        "swap_out_rate", "swap_out_rate_bytes"}, "byte")]

\* addSwapRate: without one of the counters the entry is given up.
SwapIOGather(cd, env, pre) ==
    LET lookback == NumberOr(cd, "lookback", 300)
        Part(k) == LET c == env.swap[k]
                   IN [err |-> c.last = -1 \/ c.holds < lookback, rate |-> c.rate,
                       metric |-> IF c.last = -1 THEN <<>> ELSE <<Bare(k, Num(c.last))>>]
        in == Part("swap_in")  out == Part("swap_out")
        e == [swap_count |-> Num(env.swaps), swap_in_rate_bytes |-> Num(in.rate),
              swap_out_rate_bytes |-> Num(out.rate), swap_in_rate |-> Text("human"),
              swap_out_rate |-> Text("human")]
             @@ (IF in.err \/ out.err THEN "_error" :> Text("no value") ELSE << >>)
    IN IF ~env.enabled THEN Fail(cd, "module CheckSwapIO is not enabled")
       ELSE IF env.os = "windows" THEN Fail(cd, "not supported on windows")
       ELSE IF "swap_in" \notin DOMAIN env.swap THEN cd
       ELSE IF "swap_out" \notin DOMAIN env.swap THEN AddMetrics(cd, in.metric)
       ELSE AddMetrics(AddEntry(cd, e), in.metric \o out.metric)

----------------------------------------------------------------------------
(* check_pagefile, for Windows: env.pagefiles are [name, total, used, peak].*)

PagefileBuild ==
    [Blank EXCEPT !.name = "check_pagefile",
        !.attr = Units({"used", "used_bytes", "free", "free_bytes", "peak", "peak_bytes",
                        "size"}, "byte")
                 @@ Units({"used_pct", "free_pct", "peak_pct"}, "percent"),
        !.defFilter = Lit("name", "=", "total"),
        !.defWarn = Cond("used", ">", 60, "%"), !.defCrit = Cond("used", ">", 80, "%")]

\* addPagefile.  used_pct and peak_pct are computed from what is not used.
AddPagefile(cd, p) ==
    LET free == p.total - p.used
        e == Amounts("used", p.used, p.total) @@ Amounts("free", free, p.total)
             @@ Amounts("peak", p.peak, p.total) @@ ("name" :> Text(p.name))
             @@ ("size_bytes" :> Num(p.total)) @@ ("_id" :> Text(p.name))
        B(c, k, v) == IF HasThreshold(c, k)
                      THEN AddBytePercentMetrics(c, k, p.name, v, p.total, Id(e)) ELSE c
        P(c, k, as, v) == IF HasThreshold(c, k)
                          THEN AddPercentMetrics(c, as, p.name, v, p.total, FALSE, Id(e)) ELSE c
        bytes == B(B(B(AddEntry(cd, e), "free", free), "used", p.used), "peak", p.peak)
    IN IF p.total = 0
       THEN AddEntry(cd, [name |-> Text(p.name), _error |-> Text("no data")])
       ELSE IF ~MatchMapCondition(cd.filter, e, FALSE) THEN cd
       ELSE P(P(P(bytes, "free_pct", "free_pct", free), "used_pct", "used_pct", free),
              "peak_pct", "used_pct", p.total - p.peak)

PagefileGather(cd, env, pre) ==
    LET start == SetDefaultThresholdUnit(cd, "%", {"used", "used_pct", "free", "free_pct"})
        Sum(k) == FoldLeft(LAMBDA n, p : n + p[k], 0, env.pagefiles)
        total == [name |-> "total", total |-> Sum("total"), used |-> Sum("used"),
                  peak |-> Sum("peak")]
    IN IF env.os # "windows" THEN Fail(cd, "windows only")
       ELSE IF ~env.listable THEN Fail(cd, "wmi query failed")
       ELSE FoldLeft(AddPagefile, start, Append(env.pagefiles, total))

----------------------------------------------------------------------------
(* check_temperature: env.sensors are [key, name, label, temp, crit, high,  *)
(* min]; a value may be a macro, which only the metrics expand.             *)

Macro(k) == W(k)
TemperatureBad ==
    Bracket(Cond("min", "!=", 0, "") \o <<W("&&"), W("temperature"), W("<"), Macro("%(min)")>>)
    \o <<W("||")>> \o
    Bracket(Cond("crit", "!=", 0, "") \o <<W("&&"), W("temperature"), W(">"), Macro("%(crit)")>>)
TemperatureBuild ==
    [Blank EXCEPT !.name = "check_temperature", !.emptyState = 3,
        !.args = Args({"sensor"}, "list", TRUE),
        !.defFilter = Cond("temperature", "!=", 0, "") \o <<W("and")>>
                      \o Cond("temperature", "!=", 1, ""),
        !.defWarn = TemperatureBad, !.defCrit = TemperatureBad]

ExpandMetricMacros(list, e) ==
    LET F(c) == CASE c.val = Text("%(min)") -> [c EXCEPT !.val = e.min]
                  [] c.val = Text("%(crit)") -> [c EXCEPT !.val = e.crit]
                  [] OTHER -> c
    IN OnLeaves(F, list)

\* addSensor: a label seen before gets a number.
AddSensor(acc, s, pre) ==
    LET asked == WordsOf(acc.cd, {"sensor"})
        seen == IF s.label \in DOMAIN acc.seen THEN acc.seen[s.label] ELSE 0
        suffix == IF seen = 0 THEN "" ELSE "." \o ToString(seen)
        key == s.key \o suffix
        e == [sensor |-> Text(key), name |-> Text(s.name), label |-> Text(s.label \o suffix),
              temperature |-> Num(s.temp), crit |-> Num(s.crit), min |-> Num(s.min),
              max |-> Num(IF s.high >= 65262 THEN 0 ELSE s.high)]
        T(list) == ExpandMetricMacros(
                     TransformMultipleKeywords(list, {"temp", "temperature"}, key, {}, {}), e)
        next == [acc EXCEPT !.seen = (s.label :> seen + 1) @@ @]
    IN IF asked # {} /\ {s.name, s.label \o suffix} \intersect asked = {} THEN next
       ELSE IF pre /\ ~MatchMapCondition(acc.cd.filter, e, TRUE) THEN next
       ELSE [next EXCEPT !.cd = AddMetric(AddEntry(@, e),
                Metric(key, key, Num(s.temp), T(@.warn), T(@.crit), {}))]

TemperatureGather(cd, env, pre) ==
    FoldLeft(LAMBDA acc, s : AddSensor(acc, s, pre), [cd |-> cd, seen |-> << >>], env.sensors).cd

----------------------------------------------------------------------------
UptimeBuild ==
    [Blank EXCEPT !.name = "check_uptime", !.attr = Units({"uptime"}, "duration")
                                                    @@ Units({"boot"}, "date"),
        !.defWarn = Cond("uptime", "<", 2, "d"), !.defCrit = Cond("uptime", "<", 1, "d")]
UptimeGather(cd, env, pre) ==
    LET up == Num(Now - env.boot)
    IN IF ~env.listable THEN Fail(cd, "failed to retrieve uptime")
       ELSE [AddMetric(AddEntry(cd, [uptime |-> Text("human"), uptime_value |-> up,
                                     boot |-> Num(env.boot)]), Plain("uptime", "", up, cd))
             EXCEPT !.details = [uptime |-> up]]

\* check_kernel_stats: a counter that is missing has the rate 0.
KernelStatsBuild ==
    [Blank EXCEPT !.name = "check_kernel_stats", !.emptyState = 3,
        !.args = Args({"type"}, "list", FALSE),
        !.defWarn = Cond("threads", ">", 8000, ""), !.defCrit = Cond("threads", ">", 10000, "")]
KernelStatsGather(cd, env, pre) ==
    LET shown == SelectSeq(<<"ctxt", "processes", "threads">>,
                    LAMBDA k : Given(cd, "type") = <<>> \/ k \in WordsOf(cd, {"type"}))
        V(k) == Num(IF k \in DOMAIN env.kernel THEN env.kernel[k] ELSE 0)
        E(k) == [name |-> Text(k), current |-> V(k),
                 rate |-> IF k = "threads" THEN Text("") ELSE V(k)]
    IN [cd EXCEPT !.list = [i \in DOMAIN shown |-> E(shown[i])],
                  !.metrics = [i \in DOMAIN shown |-> Plain(shown[i], "", V(shown[i]), cd)]]

OSVersionBuild == [Blank EXCEPT !.name = "check_os_version"]
OSVersionGather(cd, env, pre) ==
    LET filled == AddEntry(cd, [platform |-> Text(env.platform), version |-> Num(env.version)])
    IN IF ~env.listable THEN Fail(cd, "failed to get platform information")
       ELSE IF env.version > 0
       THEN AddMetric(filled, Plain("version", "", Num(env.version), cd)) ELSE filled

----------------------------------------------------------------------------
(* check_os_updates: env.backends has apt and yum where they are installed, *)
(* each [refresh, age, commands, security, all]: whether the update of the  *)
(* lists and the queries work, how old the metadata is, -1 if there is none,*)
(* and the packages [package, arch, security] the queries print; commands counts the queries *)
(* that work.                                                               *)

OSUpdatesBuild ==
    [Blank EXCEPT !.name = "check_os_updates", !.emptyState = 0,
        !.args = Args({"system", "max-metadata-age"}, "text", FALSE)
                 @@ Args({"update"}, "bool", FALSE),
        !.defWarn = Cond("count", ">", 0, ""), !.defCrit = Cond("count_security", ">", 0, "")]

\* checkMetadataAge; env.ages are the durations that can be parsed.
MetadataTooOld(cd, env, backend) ==
    LET limit == WordOr(cd, "max-metadata-age", "24h")
    IN /\ limit # ""
       /\ \/ limit \notin DOMAIN env.ages
          \/ env.ages[limit] > 0 /\ (backend.age = -1 \/ backend.age > env.ages[limit])

\* addAPT and addYUM; yum skips by name what it has listed as security.
Backend(acc, name, cd, env) ==
    LET b == env.backends[name]
        known == {b.security[i].package : i \in DOMAIN b.security}
        rest == SelectSeq(b.all, LAMBDA u : name = "apt" \/ u.package \notin known)
        security == IF name = "yum" THEN b.security ELSE <<>>
        asked == WordOr(cd, "system", "auto")
    IN CASE (asked = "auto" /\ name \notin DOMAIN env.backends) \/ asked \notin {"auto", name} -> acc
         [] name \notin DOMAIN env.backends -> [acc EXCEPT !.added = TRUE, !.err = "command failed"]
         [] OTHER ->
              LET refused == (IsOn(cd, "update", FALSE) /\ ~b.refresh)
                             \/ MetadataTooOld(cd, env, b)
                  answered == IF refused THEN 0 ELSE b.commands
              IN [added |-> TRUE, err |-> IF refused \/ answered < 2 THEN "backend failed" ELSE acc.err,
                  list |-> acc.list \o (IF answered >= 1 THEN security ELSE <<>>)
                                    \o (IF answered >= 2 THEN rest ELSE <<>>)]

\* dedupeListData: one entry for each package and architecture, a security
\* update before any other.
Dedupe(list) ==
    LET Same(a, b) == a.package = b.package /\ a.arch = b.arch
        First(i) == \A j \in 1..(i - 1) : ~Same(list[i], list[j])
        Best(u) == LET security == {v \in Range(list) : Same(u, v) /\ v.security = Num(1)}
                   IN IF u.security = Num(1) \/ security = {} THEN u ELSE CHOOSE v \in security : TRUE
    IN FlattenSeq([i \in DOMAIN list |-> IF First(i) THEN <<Best(list[i])>> ELSE <<>>])

OSUpdatesGather(cd, env, pre) ==
    LET found == Backend(Backend([added |-> FALSE, err |-> "", list |-> <<>>], "apt", cd, env),
                         "yum", cd, env)
        list == Dedupe(found.list)
        security == SelectSeq(list, LAMBDA u : u.security = Num(1))
        other == SelectSeq(list, LAMBDA u : u.security # Num(1))
        n == Num(Len(other))  m == Num(Len(security))
    IN IF ~found.added THEN Fail(cd, "no suitable package system found")
       ELSE IF found.err # "" THEN Fail(cd, found.err)
       ELSE [cd EXCEPT !.list = Filter(cd.filter, security \o other),
                       !.details = [count |-> n, count_security |-> m],
                       !.metrics = <<Plain("security", "count_security", m, cd),
                                     Plain("updates", "count", n, cd)>>]

----------------------------------------------------------------------------
(* check_mailq: env.queues are active and deferred where the folder exists, *)
(* each [count, size, ok]; env.as is root, capable or user.                 *)

MailqBuild ==
    LET B(a, s, d, t) == Cond("active", ">", a, "") \o <<W("||")>> \o
                         Cond("active_size", ">", s, "MB") \o <<W("||")>> \o
                         Cond("deferred", ">", d, "") \o <<W("||")>> \o
                         Cond("deferred_size", ">", t, "MB")
    IN [Blank EXCEPT !.name = "check_mailq", !.emptyState = 3,
          !.args = Args({"mta"}, "text", TRUE), !.defFilter = <<W("none")>>,
          !.attr = Units({"active_size", "deferred_size"}, "byte"),
          !.defWarn = B(5, 10, 0, 10), !.defCrit = B(10, 20, 10, 20)]

\* postfixWalkQueueFolder and postfixRunFindQueueFolder: as root a folder that
\* cannot be read marks the entry, with capabilities the check fails.
MailqGather(cd, env, pre) ==
    LET queues == <<"active", "deferred">>
        Ok(q) == q \in DOMAIN env.queues /\ env.queues[q].ok
        V(q, k) == Num(IF Ok(q) THEN env.queues[q][k] ELSE 0)
        bad == \E q \in DOMAIN env.queues : ~env.queues[q].ok
        e == [active |-> V("active", "count"), active_size |-> V("active", "size"), 
              deferred |-> V("deferred", "count"), deferred_size |-> V("deferred", "size"),
              mta |-> Text("postfix")]
             @@ (IF bad THEN "_error" :> Text("error walking directory") ELSE << >>)
        names == <<"active", "active_size", "deferred", "deferred_size">>
    IN IF WordOr(cd, "mta", "auto") \notin {"auto", "postfix"} THEN cd
       ELSE IF ~env.listable THEN Fail(cd, "postconf failed")
       ELSE IF env.as = "user" THEN cd
       ELSE IF env.as = "capable" /\ bad THEN Fail(cd, "find failed")
       ELSE AddMetrics(AddEntry(cd, e), [i \in DOMAIN names |-> Plain(names[i], "", e[names[i]], cd)])

----------------------------------------------------------------------------
(* check_omd: env.sites has, for each site, autostart, whether its commands *)
(* work and the state of its services, OVERALL among them, and the rates    *)
(* its socket reports, if it answers.                                       *)

OMDBuild ==
    [Blank EXCEPT !.name = "check_omd", !.emptyState = 3,
        !.args = Args({"site"}, "list", TRUE) @@ Args({"exclude"}, "list", FALSE),
        !.defFilter = Cond("autostart", "=", 1, ""), !.defWarn = Cond("state", "==", 1, ""),
        !.defCrit = Cond("state", ">=", 2, "")]

\* addOmdSite and setAutostart.  OVERALL counts as a service but never as one
\* that failed.
AddOmdSite(cd, site, env) ==
    LET s == env.sites[site]
        named == DOMAIN s.services \ WordsOf(cd, {"exclude"})
        failed == {x \in named \ {"OVERALL"} : s.services[x] > 0}
        state == IF failed = {} THEN 0 ELSE IF Cardinality(failed) = Cardinality(named) THEN 2 ELSE 1
        E(auto, n) == [site |-> Text(site), autostart |-> Num(auto), state |-> Num(n)]
        Broken(auto) == ("_error" :> Text("omd failed")) @@ E(auto, 3)
        auto == IF s.autostart THEN 1 ELSE 0
        AddLivestatusMetrics(c) ==
            AddMetrics(c, [i \in DOMAIN s.live |-> Plain(s.live[i][1], "", Num(s.live[i][2]), cd)])
    IN IF env.as = "user" \/ site \notin DOMAIN env.sites \/ s.commands = 0
       THEN AddEntry(cd, Broken(1))
       ELSE IF s.commands = 1 THEN AddEntry(cd, Broken(auto))
       ELSE AddLivestatusMetrics(AddEntry(cd, E(auto, state)))

OMDGather(cd, env, pre) ==
    LET sites == IF Given(cd, "site") = <<>> THEN env.order
                 ELSE [i \in DOMAIN Given(cd, "site") |-> Given(cd, "site")[i].w]
        Add(acc, site) == IF Failed(acc) THEN acc
                          ELSE IF site \in env.nasty THEN Fail(acc, "nasty characters")
                          ELSE AddOmdSite(acc, site, env)
    IN IF Given(cd, "site") = <<>> /\ ~env.listable THEN Fail(cd, "failed to fetch omd sites")
       ELSE FoldLeft(Add, cd, sites)
=============================================================================
