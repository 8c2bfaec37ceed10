------------------------------ MODULE MCChecks ------------------------------
(***************************************************************************)
(* Calls of the built-in checks: for every check some states of its system *)
(* and combinations of filters, thresholds and selecting arguments.        *)
(***************************************************************************)
EXTENDS CheckRun

MCHolds == {<<"*", "a">>, <<"*", "b">>, <<"*", "c">>, <<"a*", "a">>,
            <<"not mounted", "not mounted">>, <<"snc", "snclient">>}
MCHoldsFold == MCHolds
MCBadRegex == {"("}

A(k, v) == [key |-> k, val |-> v]
C1(kw, op, v) == <<W(kw), W(op), v>>
C2(a, op, b) == a \o <<W(op)>> \o b
\* Calls of a check: what they select, filter and alert for, in which systems.
Calls(check, select, filter, threshold, envs, missing) ==
    [check |-> check, select |-> select, filter |-> filter, threshold |-> threshold,
     envs |-> envs, missing |-> missing]
Join(S, T) == {s \o t : s \in S, t \in T}
Give(key, words) == {<<A(key, [i \in DOMAIN w |-> W(w[i])])>> : w \in words}
Filters(conds) == {<<>>} \union {<<A("filter", c)>> : c \in conds}
Warn(c) == <<A("warn", c)>>
Crit(c) == <<A("crit", c)>>

----------------------------------------------------------------------------
Dir(i) == [type |-> "dir", target |-> <<>>, inode |-> i, ok |-> TRUE,
           size |-> 0, age |-> 0, sum |-> ""]
File(i, s) == [Dir(i) EXCEPT !.type = "file", !.size = s, !.age = 10 * i, !.sum = "x"]
Link(i, t) == [Dir(i) EXCEPT !.type = "link", !.target = t]
Tree == (<<1>> :> Dir(1)) @@ (<<1, 1>> :> File(2, 3)) @@ (<<1, 2>> :> Dir(3)) @@
        (<<1, 2, 1>> :> File(4, 5)) @@ (<<1, 3>> :> Link(5, <<2>>)) @@
        (<<2>> :> Dir(6)) @@ (<<2, 1>> :> File(7, 8)) @@ (<<2, 2>> :> Link(8, <<1, 1>>))
        @@ (<<2, 3>> :> File(4, 5))
Loop == (<<2, 2>> :> Link(8, <<1>>)) @@ Tree
Cross == (<<2, 2>> :> Link(8, <<1, 2>>)) @@ Tree
Locked == (<<2>> :> [Dir(6) EXCEPT !.ok = FALSE]) @@
          (<<1, 1>> :> [File(2, 3) EXCEPT !.ok = FALSE]) @@ Tree
\* A link to a link to a directory, a link to a link to a file, a broken link,
\* and links as roots.
Chain == (<<1, 3>> :> Link(5, <<2, 2>>)) @@ (<<2, 2>> :> Link(8, <<2>>)) @@
         (<<1, 2, 2>> :> Link(9, <<1, 2, 3>>)) @@ (<<1, 2, 3>> :> Link(10, <<2, 1>>)) @@
         (<<1, 2, 1>> :> Link(11, <<2, 1, 1>>)) @@ Tree
Rooted == (<<2, 1>> :> Link(7, <<1, 1>>)) @@ (<<2, 2>> :> Link(8, <<1, 3>>)) @@ Tree
FilesEnv(fs) == [fs |-> fs, paths |-> [top |-> <<1>>, gone |-> <<3>>, link |-> <<1, 3>>,
                                       toFile |-> <<2, 1>>, toLink |-> <<2, 2>>],
                 names |-> <<"a", "b", "c">>, fuel |-> FollowDepth + 2, maxFilesLimit |-> 10000]
FilesCalls ==
    <<Calls("check_files",
            Join(Give("paths", {<<"top">>, <<"link">>, <<"top", "link", "top">>}),
                 {<<>>, <<A("follow-symlinks", <<W("false")>>)>>,
                  <<A("add-files-only-once", <<W("true")>>)>>,
                  <<A("max-depth", <<N(2, "")>>)>>, <<A("pattern", <<W("a*")>>)>>}),
            Filters({C1("size", ">", N(3, "")), C1("filename", "!=", W("a")),
                     C2(C1("type", "=", W("file")), "and", C1("age", "<=", N(40, "s")))}),
            {Warn(C1("count", ">", N(2, ""))) \o Crit(C1("size", ">=", N(5, "B"))),
             Crit(C1("md5_checksum", "!=", Q("x"))),
             Warn(C1("total_size", ">", N(9, "B"))) \o
             <<A("calculate-subdirectory-sizes", <<W("true")>>)>>},
            {FilesEnv(Tree), FilesEnv(Loop), FilesEnv(Cross), FilesEnv(Locked), FilesEnv(Chain)},
            FALSE),
      Calls("check_files",
            Join(Give("paths", {<<"toFile">>, <<"toLink">>, <<"link">>}),
                 {<<>>, <<A("follow-symlinks", <<W("false")>>)>>,
                  <<A("add-files-only-once", <<W("true")>>)>>}),
            Filters({C1("size", ">", N(3, ""))}), {<<>>, Warn(C1("count", ">", N(2, "")))},
            {FilesEnv(Rooted), FilesEnv(Chain)}, FALSE),
      Calls("check_files", Join(Give("path", {<<"gone">>}), {<<>>, <<A("max-depth", <<N(1, "")>>)>>}),
            Filters({C1("size", ">", N(3, ""))}), {<<>>, Warn(C1("size", ">", N(2, "")))},
            {FilesEnv(Tree)}, TRUE)>>

----------------------------------------------------------------------------
Mount(fstype, used, ok) ==
    [fstype |-> fstype, total |-> 100, used |-> used, inodes |-> 50, iused |-> used \div 4,
     ok |-> ok, opts |-> {"rw"}]
DriveEnv(a, b) ==
    [mounts |-> [x \in {"/", "/srv", "/proc"} |->
                    CASE x = "/" -> Mount("ext4", a, TRUE)
                      [] x = "/srv" -> Mount("xfs", b, b < 99)
                      [] x = "/proc" -> Mount("proc", 0, TRUE)],
     paths |-> {"/", "/srv", "/srv/", "/srv/www"},
     inside |-> {<<"/srv/www", "/srv">>, <<"/srv/www", "/">>, <<"/srv", "/">>},
     listable |-> TRUE, enabled |-> TRUE, order |-> <<"/", "/proc", "/srv", "/srv/", "/srv/www">>,
     lower |-> [XFS |-> "xfs"]]
DriveCalls ==
    <<Calls("check_drivesize",
            {<<>>, <<A("exclude", <<W("/")>>), A("total", <<W("true")>>)>>} \union
            Give("drive", {<<"/srv">>, <<"/", "/srv/">>}) \union Give("folder", {<<"/srv/www">>}),
            Filters({C1("fstype", "=", W("xfs"))}) \union {<<A("filter+", C1("used", ">", N(50, "%")))>>},
            Join({<<>>, Warn(C1("used", ">", N(60, "%"))), Warn(C1("free", "<", N(20, "B"))),
                  Warn(C2(C1("used_pct", ">", N(60, "")), "or", C1("inodes_used_pct", ">", N(30, ""))))},
                 {<<>>, Crit(C1("/ used_pct", ">", N(95, ""))),
                  Crit(C1("used_pct", ">", N(70, ""))) \o
                  Crit(C2(C1("drive", "=", W("/")), "and", C1("used_pct", ">", N(95, ""))))}),
            {DriveEnv(75, 92), DriveEnv(97, 65), DriveEnv(80, 99)}, FALSE),
      Calls("check_drivesize", Give("drive", {<<"/gone">>, <<"/srv/www">>}), {<<>>},
            {<<>>, Warn(C1("used", ">", N(60, "%")))}, {DriveEnv(75, 92)}, TRUE),
      Calls("check_mount", {<<>>} \union Give("mount", {<<"/srv">>}),
            Give("options", {<<"rw">>, <<"rw", "nosuid">>}) \union Give("fstype", {<<"ext4">>}),
            {<<>>}, {DriveEnv(75, 92)}, FALSE),
      Calls("check_mount", Give("mount", {<<"/gone">>, <<"/", "/gone">>}),
            {<<>>} \union Give("options", {<<"rw">>}), {<<>>}, {DriveEnv(75, 92)}, TRUE)>>

IoEnv(rate) ==
    [io |-> [sda |-> [reads |-> 5, bytes |-> 7000, io_time_rate |-> rate],
             sdb |-> [reads |-> 1, bytes |-> 2, io_time_rate |-> 10],
             sdc |-> [reads |-> 1, bytes |-> 2]],
     watched |-> {"sda", "sdb", "sdc"}, order |-> <<"sda", "sdb", "sdc">>,
     listable |-> TRUE, enabled |-> TRUE]
IoCalls ==
    <<Calls("check_drive_io", {<<>>} \union Give("drive", {<<"sda">>, <<"sda", "sdb">>}),
            Filters({C1("utilization", ">", N(5, ""))}),
            {<<>>, Warn(C1("read_bytes", ">", N(5, "KB"))) \o Crit(C1("utilization", ">=", N(97, "")))},
            {IoEnv(970), IoEnv(20)}, FALSE),
      Calls("check_drive_io", Give("drive", {<<"sdx">>}),
            Filters({C1("utilization", ">", N(5, ""))}), {<<>>}, {IoEnv(970)}, TRUE)>>

----------------------------------------------------------------------------
Proc(exe, state, rss, age) ==
    [exe |-> exe, state |-> state, rss |-> rss, virtual |-> 2 * rss, cpu |-> 1, age |-> age,
     checker |-> exe = "plugin", gone |-> FALSE, threads |-> IF state = "running" THEN 1 ELSE 0]
ProcEnv(os) ==
    [os |-> os, listable |-> TRUE,
     procs |-> <<Proc("httpd", "running", 500, 9000), Proc("httpd", "stop", 90, 100),
                 Proc("plugin", "running", 5, 100), Proc("cron", "blocked", 5, 100)>>]
ProcCalls ==
    <<Calls("check_process", {<<>>} \union Give("process", {<<"httpd">>, <<"cron", "plugin">>}),
            Filters({C1("rss", ">", N(50, "B")), C1("state", "=", W("started"))}),
            {<<>>, Warn(C1("rss", ">", N(400, "B"))) \o Crit(C1("count", ">", N(2, ""))),
             Crit(C1("state", "!=", W("started"))) \o <<A("empty-state", <<W("ok")>>)>>},
            {ProcEnv("linux"), ProcEnv("windows")}, FALSE),
      Calls("check_process", Give("process", {<<"gone">>}), Filters({C1("rss", ">", N(50, "B"))}),
            {<<>>}, {ProcEnv("linux"), ProcEnv("windows")}, TRUE)>>

Svc(name, display, state, active, pids) ==
    [name |-> name, display |-> display, state |-> state, active |-> active,
     preset |-> IF name = "ntp" THEN "disabled" ELSE "enabled", static |-> name = "tmp",
     start |-> "auto", delayed |-> name = "ntp", pids |-> pids, tasks |-> 3, ok |-> TRUE]
SvcEnv(os) ==
    [os |-> os, listable |-> TRUE, nasty |-> {"x;"}, lower |-> [SNClient |-> "snclient"],
     pids |-> [x \in {"1", "2"} |-> [rss |-> 100, vms |-> 300, cpu |-> 5, age |-> 60]],
     services |->
        IF os = "linux"
        THEN <<Svc("snclient", "Monitoring", "active (running)", "active", {"1", "2"}),
               Svc("ntp", "Clock", "failed", "failed", {}),
               Svc("tmp", "Scratch", "inactive (dead)", "inactive", {}),
               Svc("db", "Store", "active (running)", "active", {"9"})>>
        ELSE <<Svc("snclient", "Monitoring", "running", "", {"1"}),
               Svc("ntp", "Clock", "stopped", "", {}),
               [Svc("db", "Store", "running", "", {}) EXCEPT !.ok = FALSE]>>]
SvcCalls ==
    <<Calls("check_service",
            {<<>>, <<A("service", <<W("*")>>), A("exclude", <<W("ntp")>>)>>} \union
            Give("service", {<<"snclient">>, <<"SNClient", "ntp">>, <<"db">>}),
            Filters({C1("state", "=", W("started")), C1("rss", ">", N(150, "B")),
                     C1("name", "!=", W("ntp"))}),
            {<<>>, Warn(C1("rss", ">", N(150, "B"))),
             Crit(C2(C1("state", "=", W("stopped")), "or", C1("tasks", ">", N(2, ""))))},
            {SvcEnv("linux"), SvcEnv("windows")}, FALSE),
      Calls("check_service", Give("service", {<<"gone">>, <<"ntp", "gone">>}),
            Filters({C1("state", "=", W("started"))}), {<<>>},
            {SvcEnv("linux"), SvcEnv("windows")}, TRUE)>>

Task(title, folder, outcome, lastRun) ==
    [title |-> title, folder |-> folder, parent |-> "\\", enabled |-> title # "off",
     hidden |-> title = "hid", lastRun |-> lastRun, result |-> outcome, code |-> 7, missed |-> 1]
TaskEnv == [os |-> "windows", listable |-> TRUE, nasty |-> {"x;"},
            tasks |-> <<Task("backup", "\\", "success", 90), Task("sync", "\\sub", "error", 10),
                        Task("off", "\\", "error", 0), Task("hid", "\\", "ready", 0)>>]
TaskCalls ==
    <<Calls("check_tasksched",
            {<<>>, <<A("hidden", <<W("true")>>), A("recursive", <<W("false")>>)>>} \union
            Give("title", {<<"sync">>}) \union Give("folder", {<<"\\sub">>}),
            Filters({C1("has_run", "=", W("yes"))}), {<<>>, Crit(C1("exit_code", ">=", N(7, "")))},
            {TaskEnv}, FALSE),
      Calls("check_tasksched", Give("title", {<<"gone">>}), Filters({C1("has_run", "=", W("yes"))}),
            {<<>>}, {TaskEnv}, TRUE)>>

----------------------------------------------------------------------------
Core(name, nr, l) == [name |-> name, nr |-> nr, avg |-> [x \in {"1m", "5m"} |->
                                                            IF x = "1m" THEN l ELSE l \div 2]]
CpuEnv(l) == [cores |-> IF l < 0 THEN <<>> ELSE <<Core("total", 0, l), Core("core0", 1, 2 * l)>>,
              times |-> <<"1m", "5m">>, numCPU |-> 2, ranges |-> {"1m"},
              util |-> IF l > 90 THEN << >> ELSE [k \in Range(UtilKeys) |-> l]]
LoadEnv(cpus) == [load |-> <<400, 300, 90>>, numCPU |-> cpus, listable |-> cpus # 1]
MemoryEnv(os, swap) == [os |-> os, memory |-> [physical |-> [total |-> 200, used |-> 170],
                          swap |-> [total |-> swap, used |-> swap \div 2],
                          committed |-> [total |-> 200, used |-> 190]]]
Swap(known, last) == [enabled |-> TRUE, os |-> "linux", swaps |-> 1,
                      swap |-> [k \in known |-> [last |-> last, rate |-> 30, holds |-> 400]]]
Pages(used) == [os |-> "windows", listable |-> TRUE,
                pagefiles |-> <<[name |-> "a", total |-> 100, used |-> used, peak |-> 95],
                                [name |-> "b", total |-> IF used = 70 THEN 0 ELSE 50, used |-> 10,
                                 peak |-> 10]>>]
Sensor(label, temp) == [key |-> label, name |-> "coretemp", label |-> label, temp |-> temp,
                        crit |-> 90, high |-> 65300, min |-> 0]
OwnEnv == [boot |-> 900000, listable |-> TRUE, kernel |-> [ctxt |-> 700, threads |-> 9000],
           platform |-> "debian", version |-> 12]
CpuCalls ==
    <<Calls("check_cpu", {<<>>} \union Give("time", {<<"5m">>}),
            Filters({C1("core", "!=", W("total")), C1("load", ">", N(60, ""))}),
            {<<>>, Warn(C1("load", ">=", N(50, ""))) \o Crit(C1("cores", ">", N(1, "")))},
            {CpuEnv(40), CpuEnv(95), CpuEnv(-1)}, FALSE),
      Calls("check_cpu_utilization", {<<>>} \union Give("range", {<<"1m">>, <<"x">>}),
            Filters({C1("user", ">", N(50, ""))}), {<<>>, Warn(C1("idle", "<=", N(40, "")))},
            {CpuEnv(40), CpuEnv(95), CpuEnv(-1)}, FALSE),
      Calls("check_load", {<<>>, <<A("-r", <<W("true")>>)>>},
            Filters({C1("type", "=", W("scaled"))}),
            {<<>>, <<A("-w", <<N(350, "")>>), A("-c", <<N(500, ""), N(200, ""), N(100, "")>>)>>,
             <<A("-c", <<N(1, ""), N(2, "")>>)>>, Warn(C1("load", ">", N(150, "")))},
            {LoadEnv(0), LoadEnv(1), LoadEnv(2)}, FALSE)>>
MemoryCalls ==
    <<Calls("check_memory", {<<>>} \union Give("type", {<<"physical", "committed">>, <<"swap">>,
                                                        <<"virtual">>}),
            Filters({C1("used", ">", N(50, "%"))}),
            {<<>>, Warn(C1("free", "<", N(40, "B"))), Crit(C1("used_pct", ">=", N(85, ""))),
             Warn(C2(C1("used", ">", N(60, "%")), "and", C1("type", "=", W("swap"))))},
            {MemoryEnv("linux", 40), MemoryEnv("linux", 0), MemoryEnv("windows", 40)}, FALSE),
      Calls("check_swap_io", {<<>>} \union {<<A("lookback", <<N(600, "")>>)>>}, {<<>>},
            {<<>>, Warn(C1("swap_in_rate_bytes", ">", N(20, "B")))},
            {Swap({"swap_in", "swap_out"}, 500), Swap({"swap_in"}, 500),
             Swap({"swap_in", "swap_out"}, -1), [Swap({}, 1) EXCEPT !.enabled = FALSE]}, FALSE),
      Calls("check_pagefile", {<<>>}, Filters({C1("name", "!=", W("total")),
                                               C1("used", ">", N(30, "%"))}),
            {<<>>, Warn(C1("free", "<", N(40, "B"))), Crit(C1("peak", ">", N(90, "%")))},
            {Pages(70), Pages(90), [Pages(1) EXCEPT !.listable = FALSE]}, FALSE)>>
MachineCalls ==
    <<Calls("check_temperature", {<<>>} \union Give("sensor", {<<"core">>}),
            Filters({C1("temperature", ">", N(60, ""))}),
            {<<>>, Warn(C1("temp", ">", N(70, ""))) \o Crit(C1("temperature", ">=", N(80, "")))},
            {[sensors |-> <<Sensor("core", 50), Sensor("core", 80), Sensor("gpu", 95)>>]}, FALSE),
      Calls("check_temperature", Give("sensor", {<<"gone">>}), {<<>>}, {<<>>},
            {[sensors |-> <<Sensor("core", 50)>>]}, TRUE),
      Calls("check_uptime", {<<>>}, {<<>>}, {<<>>, Warn(C1("uptime", "<=", N(100000, "s")))},
            {OwnEnv, [OwnEnv EXCEPT !.listable = FALSE]}, FALSE),
      Calls("check_kernel_stats", {<<>>} \union Give("type", {<<"threads">>, <<"none">>}),
            Filters({C1("name", "=", W("ctxt"))}), {<<>>, Warn(C1("rate", ">", N(500, "")))},
            {OwnEnv}, FALSE),
      Calls("check_os_version", {<<>>}, {<<>>}, {<<>>, Warn(C1("version", "<", N(13, "")))},
            {OwnEnv, [OwnEnv EXCEPT !.version = 0]}, FALSE)>>

Update(p, security) == [package |-> p, arch |-> "amd64", security |-> Num(security)]
Apt(list, age) == [refresh |-> TRUE, age |-> age, commands |-> 2, security |-> <<>>, all |-> list]
Yum(sec, list, n) == [refresh |-> n > 1, age |-> 10, commands |-> n, security |-> sec, all |-> list]
Ages == [d \in {"24h", "2h", "0"} |-> CASE d = "24h" -> 86400 [] d = "2h" -> 7200 [] d = "0" -> 0]
UpdateEnv(b) == [backends |-> b, ages |-> Ages]
Queue(n, ok) == [count |-> n, size |-> 1000 * n, ok |-> ok]
MailEnv(as, a, d) == [listable |-> TRUE, as |-> as, queues |-> [active |-> a, deferred |-> d]]
Site(n, auto) == [autostart |-> auto, commands |-> n, live |-> <<<<"num_hosts", 7>>>>,
                  services |-> [x \in {"apache", "nagios", "OVERALL"} |->
                                  IF n = 3 /\ x # "apache" THEN 1 ELSE 0]]
Down(auto) == [Site(2, auto) EXCEPT !.services = [x \in DOMAIN @ |-> 1]]
OmdEnv(as) == [as |-> as, listable |-> TRUE, nasty |-> {"x;"},
               order |-> <<"prod", "test", "old", "off">>,
               sites |-> [prod |-> Site(2, TRUE), test |-> Site(3, TRUE), old |-> Down(TRUE),
                          off |-> Down(FALSE), cut |-> Site(1, TRUE)]]
PackageCalls ==
    <<Calls("check_os_updates",
            {<<>>, <<A("update", <<W("true")>>)>>} \union Give("system", {<<"apt">>})
            \union Give("max-metadata-age", {<<"2h">>, <<"0">>, <<"soon">>}),
            Filters({C1("security", "=", N(1, ""))}), {<<>>, Warn(C1("count", ">", N(1, "")))},
            {UpdateEnv(b) : b \in {[apt |-> Apt(<<Update("a", 0), Update("a", 1), Update("b", 0)>>, 10)],
                                   [apt |-> Apt(<<>>, 9000)], [apt |-> Apt(<<>>, -1)],
                                   [yum |-> Yum(<<Update("a", 1)>>, <<Update("a", 0), Update("b", 0)>>, 2)],
                                   [yum |-> Yum(<<Update("a", 1)>>, <<>>, 1)]}}, FALSE),
      Calls("check_mailq", {<<>>} \union Give("mta", {<<"postfix">>, <<"exim">>}), {<<>>},
            {<<>>, Warn(C1("deferred", ">=", N(2, "")))},
            {MailEnv(as, Queue(7, TRUE), Queue(2, ok)) : as \in {"root", "capable", "user"},
                                                        ok \in BOOLEAN}, FALSE),
      Calls("check_omd", {<<>>, <<A("exclude", <<W("OVERALL")>>)>>} \union
                         Give("site", {<<"test">>, <<"cut", "old">>, <<"x;">>}),
            Filters({C1("state", ">", N(0, ""))}), {<<>>, Warn(C1("num_hosts", ">", N(5, "")))},
            {OmdEnv("root"), OmdEnv("user")}, FALSE),
      Calls("check_omd", Give("site", {<<"gone">>}), {<<>>}, {<<>>}, {OmdEnv("root")}, TRUE)>>

----------------------------------------------------------------------------
Family1(total) == [k \in Range(TcpStates) |-> IF k = "total" THEN total ELSE 3]
TcpEnv(a, b) == [listable |-> TRUE, tcp |-> [ipv4 |-> Family1(a), ipv6 |-> Family1(b)]]
Iface(name, up, recv, sent, speed) ==
    [name |-> name, up |-> up, recv |-> recv, sent |-> sent, speed |-> speed]
NetEnv == [listable |-> TRUE, order |-> <<"eth0", "eth1", "eth9">>,
           ifaces |-> <<Iface("lo", TRUE, 10, 10, -1), Iface("eth0", TRUE, 700, 900, 1000),
                        Iface("eth1", FALSE, -1, -1, 100)>>,
           io |-> <<[recv |-> 5, sent |-> 5], [recv |-> 600, sent |-> 8]>>]
Clock(valid, offset, alarm) ==
    [valid |-> valid, offset |-> offset, stratum |-> 3, jitter |-> IF alarm THEN -1 ELSE 2, alarm |-> alarm]
NtpEnv(os, ntp) == [os |-> os, ntp |-> ntp, servers |-> [pool |-> Clock(TRUE, 70, FALSE)]]
PingEnv(sent, received, pl, rta, ok) ==
    [listable |-> ok, nasty |-> {"x;"},
     ping |-> [sent |-> sent, received |-> received, pl |-> pl, rta |-> rta, ttl |-> 64]]
NetCalls ==
    <<Calls("check_connections", {<<>>} \union Give("inet", {<<"any">>, <<"ipv6">>, <<"total">>, <<"x">>}),
            Filters({C1("total", ">", N(900, ""))}),
            {<<>>, Warn(C1("established", ">=", N(6, ""))) \o Crit(C1("total", ">", N(1800, "")))},
            {TcpEnv(1200, 900), TcpEnv(20, 30)}, FALSE),
      Calls("check_network", {<<>>, <<A("exclude", <<W("lo")>>)>>} \union Give("dev", {<<"eth0", "eth1">>}),
            Filters({C1("enabled", "=", W("true")), C1("total", ">", N(100, "B"))}),
            {<<>>, Warn(C1("total", ">", N(1000, "B"))), Crit(C1("received", ">=", N(600, "B")))},
            {NetEnv}, FALSE),
      Calls("check_network", Give("device", {<<"eth9">>}),
            Filters({C1("enabled", "=", W("true"))}), {<<>>}, {NetEnv}, TRUE),
      Calls("check_ntp_offset", {<<>>} \union Give("source", {<<"ntpq">>, <<"w32tm">>, <<"sundial">>})
                                \union Give("server", {<<"gone", "pool">>, <<"gone">>}),
            {<<>>}, {<<>>, Warn(C1("offset_seconds", ">", N(60, ""))) \o Crit(C1("stratum", ">=", N(3, "")))},
            {NtpEnv("linux", [chronyc |-> Clock(TRUE, 120, FALSE), ntpq |-> Clock(TRUE, 1, FALSE)]),
             NtpEnv("linux", [timedatectl |-> Clock(FALSE, 0, FALSE)]), NtpEnv("linux", << >>),
             NtpEnv("linux", [chronyc |-> Clock(TRUE, 1, TRUE)]), NtpEnv("windows", << >>),
             NtpEnv("windows", [w32tm |-> Clock(TRUE, 60, TRUE)]), NtpEnv("darwin", << >>)}, FALSE),
      Calls("check_ping", {<<>>} \union Give("host", {<<"localhost">>, <<"x;">>}), {<<>>},
            {<<>>, Warn(C1("rta", ">", N(5, ""))), Crit(C1("received", "<", N(4, "")))},
            {PingEnv(5, 5, 0, 7, TRUE), PingEnv(5, 3, 40, 9, TRUE), PingEnv(5, 0, 100, -1, TRUE),
             PingEnv(5, 5, 0, -1, TRUE), PingEnv(-1, -1, -1, -1, TRUE), PingEnv(5, 5, 0, 7, FALSE)}, FALSE)>>

Event(id, source, level, message, age) ==
    [id |-> id, source |-> source, level |-> level, message |-> message, age |-> age]
LogEnv == [listable |-> TRUE, order |-> <<"System", "App">>,
           ranges |-> [x \in {"24h", "1h"} |-> IF x = "24h" THEN 86400 ELSE 3600],
           logs |-> [System |-> <<Event(7, "disk", "error", "a", 50), Event(7, "disk", "information", "b", 40),
                                  Event(8, "net", "warning", "a", 9000)>>,
                     App |-> <<Event(9, "snclient", "warning", "b", 60), Event(9, "snclient", "error", "a", 10)>>]]
QueryCalls ==
    <<Calls("check_eventlog",
            {<<>>, <<A("unique-index", <<W("0")>>)>>} \union Give("log", {<<"App">>, <<"Gone">>})
            \union Give("scan-range", {<<"1h">>, <<"x">>}) \union {<<A("event-codes", <<N(7, "")>>)>>},
            Filters({C1("id", "=", N(9, "")), C1("id", ">", N(7, "")),
                     C2(C1("level", "=", W("error")), "and", C1("message", "=", W("a"))),
                     C2(C1("source", "=", W("disk")), "or", C1("message", "=", W("a"))),
                     C2(C1("source", "like", W("snc")), "or", C1("id", "=", N(8, "")))}),
            {<<>>, Crit(C1("count", ">", N(1, "")))}, {LogEnv}, FALSE),
      Calls("check_wmi", {<<>>} \union Give("query", {<<"select">>}), Filters({C1("FreeSpace", ">", N(10, ""))}),
            {<<>>, Crit(C1("FreeSpace", "<", N(6, "")))},
            {[os |-> os, enabled |-> TRUE, listable |-> TRUE, rows |-> rows] :
                os \in {"windows", "linux"},
                rows \in {<<>>, <<<<<<"Id", Text("C:")>>, <<"FreeSpace", Num(5)>>, <<"Label", Text("a")>>>>,
                                  <<<<"Id", Text("D:")>>, <<"FreeSpace", Num(50)>>>>>>}}, FALSE),
      Calls("check_pdh", {<<>>} \union Give("counter", {<<"cpu">>, <<"disk(*)">>, <<"gone">>})
                         \union {<<A("counter", <<W("disk(*)")>>), A("instances", <<W("true")>>)>>},
            Filters({C1("value", ">", N(10, ""))}), {<<>>, Crit(C1("value", ">=", N(50, "")))},
            {[pdh |-> ("cpu" :> <<<<"cpu", 50>>>>) @@ ("disk(*)" :> <<<<"C", 5>>, <<"D", 60>>>>) @@
                      ("disk(C)" :> <<<<"C", 5>>>>) @@ ("disk(D)" :> <<<<"D", 60>>>>),
              expand |-> ("disk(*)" :> <<"disk(C)", "disk(D)">>)]}, FALSE),
      Calls("check_snclient_version", {<<>>}, {<<>>}, {<<>>, Warn(C1("version", "<", N(13, "")))},
            {OwnEnv}, FALSE),
      Calls("check_index", {<<>>}, Filters({C1("alias", "=", N(1, ""))}), {<<>>},
            {[checks |-> <<[name |-> "check_a", here |-> TRUE, alias |-> FALSE],
                           [name |-> "check_b", here |-> FALSE, alias |-> TRUE]>>]}, FALSE)>>

----------------------------------------------------------------------------
Command(name, args) == [name |-> name, args |-> args]
Child(tag, name, args) == [tag |-> tag] @@ Command(name, args)
Inline(tag, name, args) == <<[key |-> "command", tag |-> tag, val |-> Command(name, args)]>>
Config(name) == <<A("config", <<W(name)>>)>>
Section(checks) == [checks |-> checks, required |-> {}]
Program(takes, exit) == [takes |-> takes, exit |-> exit, dies |-> 2]
Script(takes, exit, allow) ==
    [timeout |-> 3, allowArgs |-> allow, wrapping |-> takes # 0] @@ Program(takes, exit)
Alias(command, args, takesArgs) ==
    [command |-> command, args |-> args, takesArgs |-> takesArgs, allowArgs |-> takesArgs]
MultiEnv(timeout, maxChecks, scriptTimeout) ==
    [enabled |-> maxChecks > 1, timeout |-> timeout, maxChecks |-> maxChecks,
     scriptTimeout |-> scriptTimeout,
     builtins |-> [fine |-> [takes |-> 1, exit |-> 0], slow |-> [takes |-> 6, exit |-> 0],
                   bad |-> [takes |-> 1, exit |-> 2]],
     wraps |-> [plug |-> Script(4, 0, FALSE), quick |-> Script(2, 0, TRUE),
                killed |-> Script(1, -9, FALSE), unwrapped |-> Script(0, 0, FALSE)],
     programs |-> [prog |-> Program(3, 1), clean |-> Program(2, 0), gone |-> Program(0, 127)],
     aliases |-> [own |-> Alias("check_multi", Config("base"), FALSE),
                  again |-> Alias("check_multi", Inline("a", "again", <<>>)
                                                 \o Inline("b", "fine", <<>>), FALSE),
                  plug2 |-> Alias("plug", <<>>, FALSE), quick2 |-> Alias("quick", <<>>, TRUE)],
     configs |->
        [base |-> Section(<<Child("a", "fine", <<>>), Child("b", "clean", <<>>)>>),
         mixed |-> Section(<<Child("a", "prog", <<>>), Child("b", "bad", <<>>), Child("c", "gone", <<>>)>>),
         warns |-> Section(<<Child("a", "prog", <<>>), Child("b", "fine", <<>>)>>),
         nested |-> Section(<<Child("x", "check_multi", Config("base")), Child("y", "own", <<>>),
                              Child("z", "check_multi", Config("mixed"))>>),
         twice |-> Section(<<Child("x", "check_multi", Config("base")), Child("y", "own", <<>>)>>),
         loop |-> Section(<<Child("x", "fine", <<>>), Child("y", "check_multi", Config("back"))>>),
         back |-> Section(<<Child("x", "check_multi", Config("loop")), Child("y", "fine", <<>>)>>),
         scripts |-> Section(<<Child("x", "quick", <<A("arg", <<W("a")>>)>>), Child("y", "plug2", <<>>)>>),
         limited |-> Section(<<Child("x", "check_multi", Config("scripts") \o Warn(C1("state", "=", N(3, ""))))>>),
         variable |-> [Section(<<Child("a", "fine", <<>>)>>) EXCEPT !.required = {"V"}],
         empty |-> Section(<<>>)]]
PlainEnv(timeout, maxChecks, scriptTimeout) ==
    [MultiEnv(timeout, maxChecks, scriptTimeout) EXCEPT
        !.configs.limited = Section(<<>>), !.configs.scripts.checks[1].args = <<>>]
MultiEnvs == {PlainEnv(30, 20, 5), PlainEnv(5, 20, 5), PlainEnv(30, 4, 2), PlainEnv(30, 1, 5)}
Var == <<[key |-> "var", tag |-> "V", val |-> <<W("a")>>]>>
MultiCalls ==
    <<Calls("check_multi",
            {Config(n) : n \in {"base", "mixed", "warns", "nested", "twice", "loop", "scripts", "variable"}} \union
            {Config("variable") \o Var, Config("base") \o Inline("c", "plug", <<>>),
             Inline("a", "again", <<>>), Inline("a", "fine", <<>>) \o Inline("b", "slow", <<>>),
             Inline("a", "killed", <<>>) \o Inline("b", "unwrapped", <<>>),
             Inline("a", "plug2", <<>>) \o Inline("b", "check_multi", Config("twice"))},
            {<<>>}, {<<>>}, MultiEnvs, FALSE),
      Calls("check_multi",
            {Config(n) : n \in {"mixed", "warns", "nested", "scripts", "limited"}} \union
            {Inline("a", "bad", <<>>) \o Inline("b", "quick2", <<A("arg", <<W("a")>>)>>)
                                      \o Inline("c", "plug2", <<A("arg", <<W("a")>>)>>)},
            Filters({C1("state", "!=", N(0, "")), C1("tag", "=", W("b"))}),
            {<<>>, Warn(C1("warn_count", ">", N(0, ""))), Crit(C1("problem_count", ">", N(1, ""))),
             Crit(C2(C1("tag", "=", W("a")), "and", C1("state", ">=", N(1, "")))),
             <<A("ok", C1("unknown_count", ">", N(0, "")))>>},
            {MultiEnv(30, 20, 5), MultiEnv(6, 20, 5)}, FALSE),
      Calls("check_multi",
            {Config("gone"), Config("empty"), Inline("a", "gone", <<>>),
             Config("base") \o Inline("a", "fine", <<>>),
             Inline("a", "fine", <<>>) \o Inline("a", "fine", <<>>)},
            {<<>>}, {<<>>}, {PlainEnv(30, 20, 5)}, TRUE)>>

MCFamilies == MultiCalls \o FilesCalls \o DriveCalls \o IoCalls \o ProcCalls \o SvcCalls \o TaskCalls
              \o CpuCalls \o MemoryCalls \o MachineCalls \o PackageCalls
              \o NetCalls \o QueryCalls
=============================================================================
