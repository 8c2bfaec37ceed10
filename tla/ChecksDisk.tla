----------------------------- MODULE ChecksDisk -----------------------------
(***************************************************************************)
(* check_files, check_drivesize, check_mount and check_drive_io: what they *)
(* make of the arguments in cd and of env, which is what the operating     *)
(* system answers.  pre tells if an entry is tried against the filter      *)
(* before it is complete, which is meant to save work and nothing else.    *)
(***************************************************************************)
EXTENDS FileWalk

\* The given value of an argument, its texts and its first number.
Given(cd, key) == IF key \in cd.supplied THEN cd.given[key] ELSE <<>>
WordsOf(cd, keys) ==
    UNION {{Given(cd, k)[i].w : i \in DOMAIN Given(cd, k)} : k \in keys}
WordOr(cd, key, default) == IF Given(cd, key) = <<>> THEN default ELSE Given(cd, key)[1].w
NumberOr(cd, key, default) == IF Given(cd, key) = <<>> THEN default ELSE Given(cd, key)[1].n
IsOn(cd, key, default) == WordOr(cd, key, IF default THEN "true" ELSE "false") = "true"

W(x) == [w |-> x]
Q(x) == [q |-> x]
N(n, u) == [n |-> n, u |-> u]
Units(names, unit) == [n \in names |-> unit]
Pick(order, S) == SelectSeq(order, LAMBDA x : x \in S)

----------------------------------------------------------------------------
(* check_files                                                             *)

FilesBuild ==
    [Blank EXCEPT !.name = "check_files", !.emptyState = 3,
        !.args = [k \in {"path", "file", "pattern"} |-> Arg("text", TRUE)]
                 @@ [paths |-> Arg("list", TRUE)]
                 @@ [k \in {"max-depth", "max-files"} |-> Arg("int", FALSE)]
                 @@ [k \in {"follow-symlinks", "add-files-only-once",
                            "calculate-subdirectory-sizes"} |-> Arg("bool", FALSE)],
        !.attr = Units({"size", "total_size", "total_bytes"}, "byte")
                 @@ Units({"age"}, "duration") @@ Units({"written"}, "date")]

FileOptions(cd, env, pre) ==
    LET follow == IsOn(cd, "follow-symlinks", TRUE)
        once == IsOn(cd, "add-files-only-once", FALSE)
        free == follow /\ ~once /\ "max-depth" \notin cd.supplied
    IN [follow |-> follow, once |-> once,
        maxDepth |-> IF free THEN FollowDepth ELSE NumberOr(cd, "max-depth", -1),
        maxFiles |-> NumberOr(cd, "max-files", 10000),
        star |-> Given(cd, "pattern") = <<>>,
        pattern |-> {n \in DOMAIN env.names :
                        <<WordOr(cd, "pattern", "*"), env.names[n]>> \in Holds},
        filter |-> cd.filter, pre |-> pre,
        hash |-> HasThreshold(cd, "md5_checksum"), names |-> env.names]

\* addSubdirectorySizes, but for the paths the check was called with.
AddSubdirectorySizes(cd, list, paths) ==
    IF ~IsOn(cd, "calculate-subdirectory-sizes", FALSE) THEN list
    ELSE [i \in DOMAIN list |->
            IF list[i].type # Text("dir") \/ list[i].path.p \in Range(paths) THEN list[i]
            ELSE ("size" :> Num(SubdirectorySize(list, list[i].path.p))) @@ list[i]]

\* addFileMetrics, for every file and each of its numbers with a threshold.
FileMetrics(cd) ==
    LET wanted == SelectSeq(<<"size", "age">>, LAMBDA k : HasThreshold(cd, k))
        ValueOf(e, k) == IF Has(e, k) THEN e[k] ELSE Num(0)
        Of(e) == [i \in DOMAIN wanted |->
                    Metric(e.filename.s \o " " \o wanted[i], wanted[i],
                           ValueOf(e, wanted[i]), cd.warn, cd.crit, {})]
    IN [cd EXCEPT !.metrics = FlattenSeq([i \in DOMAIN cd.list |-> Of(cd.list[i])])]

\* addGeneralMetrics: an empty list has no details, but it has metrics.
GeneralMetrics(cd) ==
    LET files == SelectSeq(cd.list, LAMBDA e : e.type = Text("file"))
        total == Num(FoldLeft(LAMBDA n, e : n + SizeOf(e), 0, files))
        M(name, v) == IF HasThreshold(cd, name)
                      THEN <<Metric(name, name, v, cd.warn, cd.crit, {})>> ELSE <<>>
    IN [cd EXCEPT
          !.details = IF cd.list = <<>> THEN @
                      ELSE [total_bytes |-> total, total_size |-> total],
          !.metrics = @ \o M("count", Num(Len(cd.list))) \o M("total_size", total)]

\* addSearchPathMetrics, from the third path on.
SearchPathMetrics(cd, paths) ==
    LET Under(p) == SelectSeq(cd.list, LAMBDA e : e.type = Text("file")
                                                  /\ e.check_path = Path(p))
        M(p) == Metric("size of path", "size of path",
                       Num(FoldLeft(LAMBDA n, e : n + SizeOf(e), 0, Under(p))),
                       cd.warn, cd.crit, {})
    IN IF Len(paths) <= 2 THEN cd
       ELSE [cd EXCEPT !.metrics = @ \o [i \in DOMAIN paths |-> M(paths[i])]]

\* addSubDirMetrics, when only some names were asked for.
SubDirMetrics(cd) ==
    LET dirs == SelectSeq(cd.list, LAMBDA e : e.type = Text("dir"))
        M(e) == Metric("size of directory", "size of directory",
                       IF Has(e, "size") THEN e.size ELSE Text(""), cd.warn, cd.crit, {})
    IN IF ~IsOn(cd, "calculate-subdirectory-sizes", FALSE) \/ Given(cd, "pattern") = <<>>
       THEN cd
       ELSE [cd EXCEPT !.metrics = @ \o [i \in DOMAIN dirs |-> M(dirs[i])]]

FilesFound(cd, walk, paths) ==
    IF walk.err # "" THEN Fail(cd, walk.err)
    ELSE SubDirMetrics(SearchPathMetrics(GeneralMetrics(FileMetrics(
           [cd EXCEPT !.list = AddSubdirectorySizes(cd, walk.list, paths)])), paths))
FilesIn(cd, env, pre, paths) ==
    IF paths = <<>> THEN Fail(cd, "no path specified")
    ELSE IF NumberOr(cd, "max-files", 10000) > env.maxFilesLimit
    THEN Fail(cd, "max-files exceeds limit")
    ELSE FilesFound(cd, Scan(FileOptions(cd, env, pre), env.fs, paths, env.fuel), paths)
FilesGather(cd, env, pre) ==
    LET words == Given(cd, "path") \o Given(cd, "file") \o Given(cd, "paths")
    IN FilesIn(cd, env, pre, [i \in DOMAIN words |-> env.paths[words[i].w]])

----------------------------------------------------------------------------
(* check_drivesize: a mount is [fstype, total, used, inodes, iused, ok].   *)

DrivesizeBuild ==
    [Blank EXCEPT !.name = "check_drivesize", !.emptyState = 3,
        !.args = [k \in {"drive", "folder"} |-> Arg("list", TRUE)]
                 @@ [exclude |-> Arg("list", FALSE), total |-> Arg("bool", FALSE)],
        !.defFilter = <<W("fstype"), W("not"), W("in"), Open, Q("proc"), Close>>,
        !.defWarn = <<W("used_pct"), W(">"), N(80, "")>>,
        !.defCrit = <<W("used_pct"), W(">"), N(90, "")>>,
        !.attr = Units({"free", "free_bytes", "used", "used_bytes", "size"}, "byte")
                 @@ Units({"free_pct", "used_pct", "inodes_free_pct",
                           "inodes_used_pct"}, "percent")
                 @@ Units({"mounted"}, "bool")]

DriveNames(path) ==
    [k \in {"drive", "drive_or_id", "drive_or_name", "drive_or_name_or_id", "_id"}
        |-> Text(path)]
\* setDisks
SetDisks(env) ==
    [d \in DOMAIN env.mounts |-> ("fstype" :> Text(env.mounts[d].fstype)) @@ DriveNames(d)]

\* setCustomPath: a mount point, with or without a slash at its end, or the
\* closest one above it; under <<folder, mount>> every mount a folder is in,
\* the longest name last.
SetCustomPath(env, path, fallback) ==
    LET direct == {d \in DOMAIN env.mounts : path \in {d, d \o "/"}}
        above == IF fallback THEN {d \in DOMAIN env.mounts : <<path, d>> \in env.inside}
                 ELSE {}
        longest == CHOOSE d \in above : \A e \in above : <<d, e>> \in env.inside \/ d = e
        name == IF direct = {} THEN path ELSE CHOOSE d \in direct : TRUE
        vol == IF direct = {} THEN longest ELSE name
    IN name :> IF direct \union above = {}
               THEN ("_error" :> Text("not mounted")) @@ DriveNames(path)
               ELSE ("_vol" :> Text(vol)) @@ ("fstype" :> Text(env.mounts[vol].fstype))
                    @@ DriveNames(name)

\* getRequiredDrives
AllNames == {"*", "all", "all-drives"}
GetRequiredDrives(env, names, fallback) ==
    LET all == names \intersect AllNames
        custom == names \ (AllNames \union {"all-volumes"})
        gone == {p \in custom : p \notin env.paths}
        paths == [p \in custom |-> SetCustomPath(env, p, fallback)]
    IN IF gone # {} THEN [err |-> "not found", drives |-> << >>]
       ELSE IF all \union custom # {} /\ ~env.listable
       THEN [err |-> "discovery", drives |-> << >>]
       ELSE [err |-> "",
             drives |-> FoldSet(LAMBDA p, acc : paths[p] @@ acc,
                                IF all = {} THEN << >> ELSE SetDisks(env), custom)]

\* disk.Usage answers for every path of a file system.
Usage(env, drive) ==
    LET vol == IF Has(drive, "_vol") THEN drive["_vol"].s ELSE drive.drive.s
    IN env.mounts[vol]
Pct(a, b) == IF b = 0 THEN 0 ELSE (a * 100) \div b

SizeDetails(u) ==
    LET free == u.total - u.used
        used_pct == IF u.total = 0 THEN 100 ELSE Pct(u.used, u.total)
        v == [size |-> u.total, size_bytes |-> u.total, used |-> u.used,
              used_bytes |-> u.used, used_pct |-> used_pct, free |-> free,
              free_bytes |-> free, free_pct |-> Pct(free, u.total),
              inodes_used |-> u.iused, inodes_free |-> u.inodes - u.iused,
              inodes_used_pct |-> Pct(u.iused, u.inodes),
              inodes_free_pct |-> 100 - Pct(u.iused, u.inodes)]
              @@ ("used %" :> used_pct) @@ ("free %" :> Pct(free, u.total))
    IN [k \in DOMAIN v |-> Num(v[k])]

DrivePcts == <<"free", "used", "inodes_free", "inodes_used">>

\* transformDrivePctMetrics: "/ used_pct" names the metric "/ used %".
TransformDrivePct(cd, name) ==
    FoldLeft(LAMBDA acc, k :
        LET F(list) == TransformMultipleKeywords(list, {name \o " " \o k \o "_pct"},
                           name \o " " \o k \o " %",
                           {name \o " " \o k \o "_pct"}, {})
        IN OnLists(acc, {"warn", "crit", "ok"}, F), cd, DrivePcts)

\* disableGenerallizedConditionsForDrive
DisableForDrive(cd, name, drive) ==
    LET One(acc, k) ==
            LET F(list) == DisableGeneral(list, drive, {name \o " " \o k \o " %"},
                                          {k \o "_pct", k \o "_pct %", k})
            IN OnLists(acc, {"warn", "crit", "ok"}, F)
        General(list) == BlacklistGeneral(list, "drive", drive)
    IN OnLists(FoldLeft(One, cd, DrivePcts), {"warn", "crit", "ok"}, General)

\* addMetrics for one of the four amounts.  The thresholds that name it in
\* another way are renamed for all that follows.
OtherNames(kw) ==
    CASE kw = "free" -> {"free_pct", "free_bytes", "free %"}
      [] kw = "used" -> {"used_pct", "used_bytes", "used %"}
      [] kw = "inodes_used" -> {"inodes", "inodes_used_pct", "inodes_used %"}
      [] kw = "inodes_free" -> {"inodes_free_pct", "inodes_free %"}
RenameAmount(cd, kw) ==
    LET Renamed(list) == TransformMultipleKeywords(list, OtherNames(kw) \ {"inodes"}, kw,
                             {kw \o "_pct", kw \o " %"}, {kw \o "_bytes"})
    IN OnLists(cd, {"warn", "crit"}, Renamed)
AddAmount(cd, kw, label, u, id) ==
    LET val == CASE kw = "free" -> u.total - u.used [] kw = "used" -> u.used
                 [] kw = "inodes_used" -> u.iused [] kw = "inodes_free" -> u.inodes - u.iused
    IN IF kw \in {"free", "used"} THEN AddBytePercentMetrics(cd, kw, label, val, u.total, id)
       ELSE AddPercentMetrics(cd, kw, label, val, u.inodes, kw = "inodes_used", id)
DriveMetric(cd, kw, label, drive, u) ==
    IF \E n \in OtherNames(kw) \union {kw, label \o " %"} : HasThreshold(cd, n)
    THEN SpecializeMetrics(AddAmount(RenameAmount(cd, kw), kw, label, u, Id(drive)),
                           "drive", {label, label \o " %"}, drive)
    ELSE cd
DriveMetrics(cd, prefix, drive, u) ==
    FoldLeft(LAMBDA acc, kw : DriveMetric(acc, kw, prefix \o " " \o kw, drive, u), cd,
             <<"free", "used", "inodes_used", "inodes_free">>)

Admitted(cd, entry, pre) == ~pre \/ MatchMapCondition(cd.filter, entry, TRUE)

\* addDiskDetails and addDriveSizeDetails: a complete entry that the filter
\* leaves out has no metrics, but is in the total.
AddDriveSize(cd, full, usage, pre) ==
    LET name == full.drive_or_name_or_id.s
        listed == [cd EXCEPT !.list = Append(@, full)]
    IN IF ~Admitted(cd, full, TRUE) THEN listed
       ELSE DriveMetrics(DisableForDrive(TransformDrivePct(listed, name), name, full),
                         name, full, usage)
AddDiskDetails(cd, env, drive, pre) ==
    LET u == Usage(env, drive)
        usage == IF u.ok THEN u
                 ELSE [u EXCEPT !.total = 0, !.used = 0, !.inodes = 0, !.iused = 0]
        known == ("mounted" :> Num(IF u.ok THEN 1 ELSE 0)) @@ drive
        failed == IF u.ok THEN << >> ELSE "_error" :> Text("usage")
    IN IF ~Admitted(cd, drive, pre) THEN [cd EXCEPT !.list = Append(@, drive)]
       ELSE AddDriveSize(cd, SizeDetails(usage) @@ failed @@ known, usage, pre)

\* addTotal, whose metrics come first.
TotalMetrics(cd, u, others) ==
    LET Asked(k) == HasThreshold(cd, k) \/ HasThreshold(cd, k \o "_bytes")
        T(c, k) == AddAmount(c, k, "total " \o k, u, {})
        all == FoldLeft(T, [cd EXCEPT !.metrics = <<>>], SelectSeq(<<"free", "used">>, Asked))
    IN [all EXCEPT !.metrics = @ \o others]
TotalEntry(d) ==
    [k \in {"size", "size_bytes", "used", "used_bytes", "used_pct", "free",
            "free_bytes", "free_pct"} |-> d[k]]
    @@ ("fstype" :> Text("total")) @@ DriveNames("total")
TotalUsage(sized) ==
    LET Sum(k) == FoldLeft(LAMBDA n, e : n + e[k].n, 0, sized)
    IN [total |-> Sum("size_bytes"), used |-> Sum("used_bytes"), inodes |-> 0, iused |-> 0]
AddTotalOf(cd, u, drive, pre) ==
    LET listed == [cd EXCEPT !.list = Append(@, drive)]
    IN IF u.total = 0 THEN cd
       ELSE IF ~Admitted(cd, drive, pre) THEN listed
       ELSE TotalMetrics(listed, u, cd.metrics)
AddTotal(cd, pre) ==
    LET u == TotalUsage(SelectSeq(cd.list, LAMBDA e : Has(e, "size_bytes")))
    IN AddTotalOf(cd, u, TotalEntry(SizeDetails(u)), pre)

AddDrives(cd, env, pre, required) ==
    LET excluded == WordsOf(cd, {"exclude"})
        Each(acc, drive) ==
            IF drive.drive.s \in excluded THEN acc
            ELSE IF Has(drive, "_error") THEN [acc EXCEPT !.list = Append(@, drive)]
            ELSE AddDiskDetails(acc, env, drive, pre)
        order == Pick(env.order, DOMAIN required)
    IN FoldLeft(Each, SetDefaultThresholdUnit(cd, "%",
                   {"used_pct", "used", "free", "free_pct", "inodes", "inodes_free"}),
                [i \in DOMAIN order |-> required[order[i]]])
WithTotal(cd, pre) == IF IsOn(cd, "total", FALSE) THEN AddTotal(cd, pre) ELSE cd
\* Names of file systems are compared in lower case; drives nobody asked for
\* by name may be broken.
Presented(cd, env, custom) ==
    LET Lower(e) == IF Has(e, "fstype") /\ e.fstype.s \in DOMAIN env.lower
                    THEN [e EXCEPT !.fstype = Text(env.lower[@.s])] ELSE e
        Skip(e) == IF custom = {} /\ Has(e, "_error") THEN ("_skip" :> Num(1)) @@ e ELSE e
    IN [cd EXCEPT !.list = [i \in DOMAIN @ |-> Lower(Skip(@[i]))]]
ListDrives(cd, env, pre, custom, drives, below) ==
    IF ~cd.emptyStateSet /\ drives.err = "discovery" THEN Fail(cd, "discovery")
    ELSE IF ~cd.emptyStateSet /\ below.err # "" THEN Fail(cd, below.err)
    ELSE Presented(WithTotal(AddDrives(cd, env, pre, below.drives @@ drives.drives), pre),
                   env, custom)
DrivesizeGather(cd, env, pre) ==
    LET asked == WordsOf(cd, {"drive"})
        folders == WordsOf(cd, {"folder"})
        names == IF asked \union folders = {} THEN {"all"} ELSE asked
    IN IF ~env.enabled THEN Fail(cd, "module CheckDisk is not enabled")
       ELSE ListDrives(cd, env, pre, (asked \union folders) \ (AllNames \union {"all-volumes"}),
                       GetRequiredDrives(env, names, FALSE),
                       GetRequiredDrives(env, folders, TRUE))

----------------------------------------------------------------------------
(* check_mount: a mount here also has its options, as a set.               *)

MountBuild ==
    [Blank EXCEPT !.name = "check_mount", !.emptyState = 3,
        !.args = [mount |-> Arg("list", FALSE), options |-> Arg("list", FALSE),
                  fstype |-> Arg("text", FALSE)],
        !.defWarn = <<W("issues"), W("!="), Q("")>>,
        !.defCrit = <<W("issues"), W("like"), Q("not mounted")>>]

\* getDrives: without a mount= argument the file systems of the system itself
\* are left out.
MountedDrives(env, points) ==
    IF points # {} THEN DOMAIN env.mounts \intersect points
    ELSE {d \in DOMAIN env.mounts : env.mounts[d].fstype \notin {"proc", "tmpfs"}}

MountIssues(m, options) ==
    IF options = {} THEN ""
    ELSE (IF options \subseteq m.opts THEN "" ELSE "missing options")
         \o (IF m.opts \subseteq options THEN "" ELSE "exceeding options")

MountGather(cd, env, pre) ==
    LET points == WordsOf(cd, {"mount"})
        options == WordsOf(cd, {"options"})
        fstype == WordOr(cd, "fstype", "")
        E(d, fs, issues) == [mount |-> Text(d), fstype |-> Text(fs), issues |-> Text(issues)]
        shown == {d \in MountedDrives(env, points) : fstype \in {"", env.mounts[d].fstype}}
        found == [i \in DOMAIN Pick(env.order, shown) |->
                    LET d == Pick(env.order, shown)[i]
                    IN E(d, env.mounts[d].fstype, MountIssues(env.mounts[d], options))]
        lost == SelectSeq([i \in DOMAIN Given(cd, "mount") |-> Given(cd, "mount")[i].w],
                          LAMBDA d : d \notin DOMAIN env.mounts)
    IN IF ~cd.inventory /\ points = {} /\ options = {} /\ fstype = ""
       THEN Fail(cd, "must specify at least one of mount/options/fstype")
       ELSE IF ~env.listable THEN Fail(cd, "failed to get mounts")
       ELSE [cd EXCEPT !.list = found \o [i \in DOMAIN lost |->
                                            E(lost[i], "", "not mounted")]]

----------------------------------------------------------------------------
(* check_drive_io: env.io are the kernel's numbers of each device, with the *)
(* rate of its io_time, which is missing while the counter is young;        *)
(* env.watched are the devices the CheckSystem task chose.                  *)

DriveIoBuild ==
    [Blank EXCEPT !.name = "check_drive_io", !.emptyState = 3,
        !.args = [drive |-> Arg("list", TRUE), lookback |-> Arg("int", TRUE)],
        !.defWarn = <<W("utilization"), W(">"), N(95, "")>>,
        !.attr = Units({"read_bytes", "write_bytes", "read_bytes_rate",
                        "write_bytes_rate"}, "byte")]

DriveIoKeys == <<"read_count", "read_bytes", "write_count", "write_bytes", "utilization">>

\* buildEntry and addUtilizationFromIoTime; a rate that is an error is 0, one
\* without a counter is missing and makes the entry an error.
DriveIoEntry(env, d) ==
    LET c == env.io[d]
        rate == IF "io_time_rate" \in DOMAIN c THEN c.io_time_rate ELSE 0
    IN [read_count |-> Num(c.reads), read_bytes |-> Num(c.bytes),
        write_count |-> Num(c.reads), write_bytes |-> Num(c.bytes),
        drive |-> Text(d), utilization |-> Num(rate \div 10)]
       @@ (IF "io_time_rate" \in DOMAIN c THEN << >> ELSE "_error" :> Text("no counter"))

DriveIoMetrics(cd, e) ==
    [i \in DOMAIN DriveIoKeys |->
        Metric(e.drive.s \o "_" \o DriveIoKeys[i], DriveIoKeys[i],
               e[DriveIoKeys[i]], cd.warn, cd.crit, {})]

\* A drive that is not watched, or has no numbers, is left out.
DriveIoGather(cd, env, pre) ==
    LET asked == IF Given(cd, "drive") = <<>> THEN env.watched ELSE WordsOf(cd, {"drive"})
        here == Pick(env.order, asked \intersect env.watched \intersect DOMAIN env.io)
        list == [i \in DOMAIN here |-> DriveIoEntry(env, here[i])]
        Of(e) == DriveIoMetrics(cd, e)
    IN IF ~env.enabled THEN Fail(cd, "module CheckDriveIO is not enabled")
       ELSE IF ~env.listable THEN Fail(cd, "error when getting disk io counters")
       ELSE [cd EXCEPT !.list = list,
                       !.metrics = FlattenSeq([i \in DOMAIN list |-> Of(list[i])])]
=============================================================================
