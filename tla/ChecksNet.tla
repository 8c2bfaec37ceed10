------------------------------ MODULE ChecksNet -----------------------------
(***************************************************************************)
(* The checks of the network, and those that pass a query on: connections, *)
(* interfaces, clocks, pings, the Windows event log, WMI and PDH.          *)
(***************************************************************************)
EXTENDS ChecksSystem, EventQuery

(* check_connections: env.tcp has, for a family, the numbers of its states. *)

TcpStates == <<"total", "established", "listen">>
ConnectionsBuild ==
    [Blank EXCEPT !.name = "check_connections", !.args = Args({"inet"}, "text", TRUE),
        !.defFilter = <<W("inet"), W("="), W("total")>>,
        !.defWarn = Cond("total", ">", 1000, ""), !.defCrit = Cond("total", ">", 2000, "")]

ConnectionsGather(cd, env, pre) ==
    LET inet == WordOr(cd, "inet", "all")
        Entry1(f, n) == [k \in Range(TcpStates) |-> Num(n[k])] @@ ("inet" :> Text(f))
        families == SelectSeq(<<"ipv4", "ipv6">>,
                              LAMBDA f : inet \notin {"ipv4", "ipv6"} \ {f})
        each == [i \in DOMAIN families |-> Entry1(families[i], env.tcp[families[i]])]
        total == Entry1("total", [k \in Range(TcpStates) |->
                                    FoldLeft(LAMBDA n, e : n + e[k].n, 0, each)])
        list == CASE inet = "total" -> <<total>> [] inet = "all" -> <<total>> \o each
                  [] OTHER -> each
        M(e) == [i \in DOMAIN TcpStates |->
                    Plain((IF inet = "any" THEN e.inet.s \o "_" ELSE "") \o TcpStates[i],
                          TcpStates[i], e[TcpStates[i]], cd)]
    IN IF inet \notin {"all", "total", "any", "ipv4", "ipv6"} THEN Fail(cd, "option inet")
       ELSE IF ~env.listable THEN Fail(cd, "cannot read the connections")
       ELSE [cd EXCEPT !.list = list,
                !.metrics = Each(M, SelectSeq(list, LAMBDA e : MatchMapCondition(cd.filter, e, FALSE)))]

----------------------------------------------------------------------------
(* check_network: env.ifaces are [name, up, recv, sent, speed], the rates   *)
(* and the speed -1 while unknown; env.io are the totals, in an order of    *)
(* their own, which the check takes for that of the interfaces.  The default *)
(* limits of 80 and 90 GB are scaled down.                                   *)

NetworkBuild ==
    [Blank EXCEPT !.name = "check_network", !.emptyState = 3,
        !.args = Args({"device", "dev", "name", "exclude"}, "list", FALSE),
        !.attr = Units({"received", "received_bytes", "sent", "sent_bytes", "total", "speed",
                        "total_sent", "total_received", "speed_bytes"}, "byte"),
        !.defWarn = Cond("total", ">", 800, "MB"), !.defCrit = Cond("total", ">", 900, "MB")]

NetworkGather(cd, env, pre) ==
    LET asked == WordsOf(cd, {"device", "dev", "name"})
        Wanted(name) == name \notin WordsOf(cd, {"exclude"}) /\ (asked = {} \/ name \in asked)
        Known(n) == IF n < 0 THEN 0 ELSE n
        E(name, up, recv, sent, speed) ==
            [name |-> Text(name), device |-> Text(name), enabled |-> Bool(up),
             received_bytes |-> Num(recv), sent_bytes |-> Num(sent), total_bytes |-> Num(recv + sent),
             received |-> Text("human"), sent |-> Text("human"), total |-> Text("human"),
             speed_bytes |-> IF speed < 0 THEN Text("") ELSE Num(speed)]
        Add(acc, i) ==
            LET f == env.ifaces[i]
                io == IF i \in DOMAIN env.io THEN env.io[i] ELSE [recv |-> 0, sent |-> 0]
                e == E(f.name, f.up, Known(f.recv), Known(f.sent), f.speed)
            IN IF ~Wanted(f.name) \/ (pre /\ ~MatchMapCondition(acc.filter, e, TRUE)) THEN acc
               ELSE AddMetrics(AddEntry(acc, e),
                       <<Plain(f.name \o "_traffic_in", f.name, Num(io.recv), cd),
                         Plain(f.name \o "_traffic_out", f.name, Num(io.sent), cd)>>)
        found == {env.ifaces[i].name : i \in {j \in DOMAIN env.ifaces : Wanted(env.ifaces[j].name)}}
        Gone(name) == ("_error" :> Text("no device found")) @@ E(name, FALSE, 0, 0, -1)
        missing == Pick(env.order, asked \ found)
    IN IF ~env.listable THEN Fail(cd, "net.Interfaces")
       ELSE LET all == FoldLeft(Add, cd, [i \in DOMAIN env.ifaces |-> i])
            IN [all EXCEPT !.list = @ \o [i \in DOMAIN missing |-> Gone(missing[i])]]

----------------------------------------------------------------------------
(* check_ntp_offset: env.ntp has the programs that run, each [valid,        *)
(* offset, stratum, jitter, alarm], and env.servers the servers that answer.*)

NtpSources == <<"timedatectl", "chronyc", "ntpq", "w32tm", "macos">>
NtpBuild ==
    LET Both(n) == Cond("offset", ">", n, "") \o <<W("||")>> \o Cond("offset", "<", -n, "")
    IN [Blank EXCEPT !.name = "check_ntp_offset", !.emptyState = 3,
           !.args = Args({"source"}, "text", TRUE) @@ Args({"server"}, "list", FALSE),
           !.defFilter = <<W("none")>>, !.attr = Units({"offset_seconds"}, "duration"),
           !.defWarn = Both(50), !.defCrit = Both(100)]

\* addW32TM: an alarm of the service leaves its values unread.
W32Valid(r) == r.valid /\ ~r.alarm

\* addTimeDateCtl, addChronyc and addNTPQ, and the other two, on what their
\* program prints.
NtpEntry(source, r) ==
    LET known == IF source = "w32tm" THEN W32Valid(r) ELSE r.valid
        error == IF r.valid /\ ~r.alarm THEN << >>
                 ELSE ("_error" :> Text("no usable offset")) @@
                      (IF r.alarm \/ source \in {"ntpq", "w32tm"} THEN "_exit" :> Num(2) ELSE << >>)
    IN [source |-> Text(source), offset |-> IF known THEN Num(r.offset) ELSE Text(""),
        offset_seconds |-> IF known THEN Num(r.offset \div 1000) ELSE Text(""),
        stratum |-> IF known THEN Num(r.stratum) ELSE Text(""),
        jitter |-> IF known /\ r.jitter >= 0 THEN Num(r.jitter) ELSE Text("")] @@ error

\* addOSX and addW32TM: a program that fails is an entry, not an error.
NtpDown(source) ==
    [source |-> Text(source), offset |-> Text(""), _error |-> Text("failed")] @@
    (IF source = "macos" THEN "_exit" :> Num(2) ELSE << >>)

\* convertOffsetSecondOperandToOffset, for the thresholds only.
OffsetInMs(cd) ==
    LET F(c) == IF c.kw # "offset_seconds" THEN c
                ELSE [c EXCEPT !.kw = "offset",
                               !.val = IF IsNum(@) THEN Num(1000 * @.n) ELSE Text("bad")]
    IN [cd EXCEPT !.warn = OnLeaves(F, @), !.crit = OnLeaves(F, @)]

NtpGather(cd, env, pre) ==
    LET c == OffsetInMs(cd)
        source == WordOr(cd, "source", "auto")
        Here(s) == source = s \/ CASE s \in {"timedatectl", "chronyc"} -> env.os = "linux"
                                   [] s = "ntpq" -> env.os # "windows"
                                   [] s = "w32tm" -> env.os = "windows"
                                   [] s = "macos" -> env.os = "darwin"
        Answers(s) == Here(s) /\ (s \in DOMAIN env.ntp \/ s \in {"w32tm", "macos"})
        tried == SelectSeq(NtpSources, LAMBDA s : source \in {"auto", s} /\ Answers(s))
        M(e) == IF Has(e, "_error") THEN <<>>
                ELSE <<Plain("offset", "", e.offset, c), Plain("stratum", "", e.stratum, c)>> \o
                     (IF IsNum(e.jitter) THEN <<Plain("jitter", "", e.jitter, c)>> ELSE <<>>)
        Add(e) == AddMetrics(AddEntry(c, e), M(e))
        servers == SelectSeq(Given(cd, "server"), LAMBDA t : t.w \in DOMAIN env.servers)
    IN IF \E x \in Range(c.warn \o c.crit) : Text("bad") \in {x.val} THEN Fail(cd, "offset_seconds")
       ELSE IF Given(cd, "server") # <<>>
       THEN IF servers = <<>> THEN Fail(cd, "ntp query failed")
            ELSE Add(NtpEntry("ntp", env.servers[servers[1].w]))
       ELSE IF source \notin Range(NtpSources) \union {"auto"} THEN cd
       ELSE IF tried = <<>> THEN Fail(cd, "no source of the offset")
       ELSE LET s == tried[1]
            IN Add(IF s \in DOMAIN env.ntp THEN NtpEntry(s, env.ntp[s]) ELSE NtpDown(s))

----------------------------------------------------------------------------
(* check_ping: env.ping has what can be read from the output, -1 for what   *)
(* cannot.                                                                  *)

PingBuild ==
    LET Worse(rta, pl) == Cond("rta", ">", rta, "") \o <<W("||")>> \o Cond("pl", ">", pl, "")
    IN [Blank EXCEPT !.name = "check_ping", !.emptyState = 3, !.defFilter = <<W("none")>>,
           !.args = Args({"host"}, "text", FALSE), !.attr = Units({"pl"}, "percent"),
           !.defWarn = Worse(1000, 30), !.defCrit = Worse(5000, 80)]

\* parsePingOutput: no answer at all is a loss of everything.
PingEntry(out) ==
    LET V(n) == IF n < 0 THEN Text("") ELSE Num(n)
        lost == out.sent < 0 \/ (out.rta < 0 /\ out.pl = 0)
    IN [rta |-> V(out.rta), ttl |-> V(out.ttl), sent |-> V(out.sent), received |-> V(out.received),
        pl |-> IF lost THEN Num(100) ELSE V(out.pl)]
       @@ (IF out.sent < 0 THEN "_error" :> Text("failed to resolve hostname") ELSE << >>)

PingGather(cd, env, pre) ==
    LET e == PingEntry(env.ping)
        host == WordOr(cd, "host", "")
    IN IF host = "" \/ host \in env.nasty THEN Fail(cd, "host name is required")
       ELSE IF ~env.listable THEN Fail(cd, "ping failed")
       ELSE AddMetrics(AddEntry(cd, e),
               <<Plain("rta", "", IF IsNum(e.rta) THEN e.rta ELSE Text("U"), cd),
                 Plain("pl", "", IF IsNum(e.pl) THEN e.pl ELSE Num(0), cd)>>)

----------------------------------------------------------------------------
(* check_eventlog: env.logs has the events [id, source, level, message,     *)
(* age] of each log.  What of the filter WMI can evaluate becomes part of   *)
(* the query; the filter itself is applied to what the query returns.       *)

EventlogBuild ==
    LET Level(words) == <<W("level"), W("in"), Open>> \o words \o <<Close>>
    IN [Blank EXCEPT !.name = "check_eventlog", 
           !.args = Args({"file", "log"}, "list", FALSE) @@ Args({"scan-range", "unique-index"}, "text", FALSE)
                    @@ Args({"event-codes"}, "list", TRUE),
           !.attr = Units({"written"}, "date"),
           !.defFilter = Level(<<Q("warning"), Comma, Q("error"), Comma, Q("critical")>>),
           !.defWarn = Grouped(Lit("level", "=", "warning"), "or", Cond("problem_count", ">", 0, "")),
           !.defCrit = Level(<<Q("error"), Comma, Q("critical")>>)]

RECURSIVE LeavesOf(_), HasOr(_)
LeavesOf(c) == IF c.kind = "none" THEN {}
               ELSE IF c.group = <<>> THEN {c} ELSE UNION {LeavesOf(c.group[i]) : i \in DOMAIN c.group}
HasOr(c) == c.group # <<>> /\ (c.gop = "or" \/ \E i \in DOMAIN c.group : HasOr(c.group[i]))

\* A plausible slip: what WMI cannot evaluate is left out of an "or".
FilterQueryOfSome(filter) ==
    UNION {LeafToWQL(c) : c \in UNION {LeavesOf(filter[i]) : i \in DOMAIN filter}}

\* buildFilterQueryWhereLine.
FilterQuery(filter) ==
    LET leaves == UNION {LeavesOf(filter[i]) : i \in DOMAIN filter}
        or == ManyTop(filter) \/ \E i \in DOMAIN filter : HasOr(filter[i])
    IN QueryOf(leaves, or)

EventEntry(file, ev) ==
    [log |-> Text(file), file |-> Text(file), id |-> Num(ev.id), level |-> Text(ev.level),
     source |-> Text(ev.source), provider |-> Text(ev.source), message |-> Text(ev.message),
     written |-> Num(Now - ev.age)]

\* Of the events with one unique index only the first is listed.
EventlogGather(cd, env, pre) ==
    LET codes == UNION {Range(Given(cd, "event-codes"))}
        files == IF WordsOf(cd, {"file", "log"}) = {} THEN env.order
                 ELSE Pick(env.order, WordsOf(cd, {"file", "log"}))
        range == WordOr(cd, "scan-range", "24h")
        unique == WordOr(cd, "unique-index", "1") \notin {"0", "false", "no"}
        Tests == FilterQuery(cd.filter)
        Kept(file) ==
            LET Hit(ev) == /\ ev.age <= env.ranges[range]
                           /\ codes = {} \/ N(ev.id, "") \in codes
                           /\ Queried(EventEntry(file, ev), Tests)
                hits == SelectSeq(env.logs[file], Hit)
            IN [i \in DOMAIN hits |-> EventEntry(file, hits[i])]
        all == FlattenSeq([i \in DOMAIN files |-> Kept(files[i])])
        Same(a, b) == a.log = b.log /\ a.source = b.source /\ a.id = b.id
        First(i) == ~\E j \in 1..(i - 1) : Same(all[i], all[j])
        Count(i) == Cardinality({j \in DOMAIN all : Same(all[i], all[j])})
    IN IF \E c \in codes : "n" \notin DOMAIN c THEN Fail(cd, "invalid event code")
       ELSE IF range \notin DOMAIN env.ranges THEN Fail(cd, "couldn't parse scan-range")
       ELSE IF \E f \in WordsOf(cd, {"file", "log"}) : f \notin DOMAIN env.logs \/ ~env.listable
       THEN Fail(cd, "wmi query failed")
       ELSE [cd EXCEPT !.list =
               IF ~unique THEN all
               ELSE FlattenSeq([i \in DOMAIN all |->
                       IF First(i) THEN <<("_count" :> Num(Count(i))) @@ all[i]>> ELSE <<>>])]

----------------------------------------------------------------------------
(* check_wmi: env.rows are the rows of the result, each a sequence of pairs.*)

WmiBuild ==
    [Blank EXCEPT !.name = "check_wmi", !.emptyState = 3, !.hasArgsFilter = TRUE,
        !.args = Args({"query"}, "text", FALSE)]
WmiGather(cd, env, pre) ==
    LET E(row) == [k \in {row[i][1] : i \in DOMAIN row} |->
                      (CHOOSE p \in Range(row) : p[1] = k)[2]]
        PerfData(row) ==
            LET numbers == SelectSeq(Tail(row), LAMBDA p : IsNum(p[2]))
                prefix == IF IsText(row[1][2]) THEN row[1][2].s \o " " ELSE ""
            IN IF Len(row) < 2 THEN <<>>
               ELSE [i \in DOMAIN numbers |->
                        Plain(prefix \o numbers[i][1], numbers[i][1], numbers[i][2], cd)]
    IN IF env.os # "windows" \/ ~env.enabled \/ Given(cd, "query") = <<>> THEN Fail(cd, "not enabled")
       ELSE IF ~env.listable THEN Fail(cd, "wmi query failed")
       ELSE [cd EXCEPT !.list = [i \in DOMAIN env.rows |-> E(env.rows[i])],
                       !.metrics = Each(PerfData, env.rows)]

(* check_pdh: env.pdh has the paths that exist, each with its instances, as *)
(* pairs of a name and a value; env.expand what a wildcard stands for.  The *)
(* instances of one path share one map, so all of its entries end as the    *)
(* last one.                                                                *)
PdhBuild ==
    [Blank EXCEPT !.name = "check_pdh", !.emptyState = 3, !.passthrough = TRUE,
        !.args = Args({"counter"}, "text", FALSE) @@ Args({"instances"}, "bool", FALSE)]
PdhGather(cd, env, pre) ==
    LET path == WordOr(cd, "counter", "")
        paths == IF IsOn(cd, "instances", FALSE) /\ path \in DOMAIN env.expand THEN env.expand[path]
                 ELSE <<path>>
        E(x) == [name |-> Text(x[1]), value |-> Num(x[2])]
        Entries(p) == LET all == env.pdh[p]
                          kept == SelectSeq(all, LAMBDA x : ~pre \/ MatchMapCondition(cd.filter, E(x), TRUE))
                      IN [i \in DOMAIN kept |-> E(all[Len(all)])]
        Metrics(p) == [i \in DOMAIN env.pdh[p] |->
                          Plain(env.pdh[p][i][1] \o "_value", "value", Num(env.pdh[p][i][2]), cd)]
    IN IF path = "" THEN Fail(cd, "no counter defined")
       ELSE IF \E p \in Range(paths) : p \notin DOMAIN env.pdh THEN Fail(cd, "could not add the path")
       ELSE [cd EXCEPT !.list = Each(Entries, paths), !.metrics = Each(Metrics, paths)]

----------------------------------------------------------------------------
\* check_snclient_version and check_index, over env.checks [name, here].
VersionBuild == [Blank EXCEPT !.name = "check_snclient_version"]
VersionGather(cd, env, pre) ==
    LET one == AddEntry(cd, [name |-> Text("SNClient"), version |-> Num(env.version)])
    IN IF env.version > 0 THEN AddMetrics(one, <<Plain("version", "", Num(env.version), cd)>>) ELSE one
IndexBuild ==
    [Blank EXCEPT !.name = "check_index", !.emptyState = 3,
        !.defFilter = Cond("implemented", "=", 1, "")]
IndexGather(cd, env, pre) ==
    [cd EXCEPT !.list = [i \in DOMAIN env.checks |->
        [name |-> Text(env.checks[i].name), implemented |-> Num(IF env.checks[i].here THEN 1 ELSE 0),
         alias |-> Num(IF env.checks[i].alias THEN 1 ELSE 0)]]]
=============================================================================
