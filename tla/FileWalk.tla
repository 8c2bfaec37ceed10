------------------------------ MODULE FileWalk ------------------------------
(***************************************************************************)
(* The directory walk of check_files.  fs is a function from paths, which  *)
(* are sequences of numbers (the order of names is theirs), to nodes; a    *)
(* link names its target path.  A walk runs on real paths and registers    *)
(* what it finds under the path it was reached by.                         *)
(*                                                                         *)
(* o holds the arguments: maxDepth (-1: unlimited), follow, once, maxFiles,*)
(* pattern (the names that match), star (it is the pattern that matches    *)
(* all), the filter, pre (it is tried before an entry is complete), hash   *)
(* (a threshold needs the contents) and the texts of the names.            *)
(***************************************************************************)
EXTENDS CheckData

INSTANCE Finalize

CONSTANTS
    LinkFuel,    \* bound: links os.Stat follows before it gives up
    NameCount,   \* bound: the names of files are 1..NameCount
    FollowDepth  \* CheckFilesFollowSymlinkMaxDepth, which is 50

Missing == [type |-> "none", target |-> <<>>, inode |-> 0, ok |-> FALSE,
            size |-> 0, age |-> 0, sum |-> ""]
At(fs, p) == IF p \in DOMAIN fs THEN fs[p] ELSE Missing

\* os.Stat: the node at the end of all links.
RECURSIVE EndOf(_, _, _)
EndOf(fs, p, fuel) ==
    IF At(fs, p).type # "link" THEN p
    ELSE IF fuel = 0 THEN <<>> ELSE EndOf(fs, fs[p].target, fuel - 1)
Stat(fs, p) == At(fs, EndOf(fs, p, LinkFuel))

\* What ReadDir returns, sorted by name.
Children(fs, dir) ==
    LET names == {p[Len(p)] : p \in {q \in DOMAIN fs :
                    Len(q) = Len(dir) + 1 /\ IsPrefix(dir, q)}}
    IN SelectSeq([i \in 1..NameCount |-> i], LAMBDA i : i \in names)

GetDepth(path, base) == Len(path) - Len(base)

\* What is known without asking for the file, then its details, then what
\* only its contents tell.
Path(p) == [p |-> p]
Entry(o, cp, path, node, isLink) ==
    [path |-> Path(path), check_path |-> Path(cp),
     filename |-> Text(o.names[path[Len(path)]]),
     type |-> Text(IF node.type = "dir" THEN "dir" ELSE "file"),
     is_symlink |-> Text(IF isLink THEN "true" ELSE "false"),
     inode |-> Num(node.inode)]
EntryDetails(node) == [size |-> Num(node.size), age |-> Num(node.age)]
Contents(node) == [md5_checksum |-> Text(node.sum)]

Admits(o, entry) == ~o.pre \/ MatchMapCondition(o.filter, entry, TRUE)
MatchAndAdd(o, st, entry) ==
    IF MatchMapCondition(o.filter, entry, FALSE)
    THEN [st EXCEPT !.list = Append(@, entry)] ELSE st

Ret(st, ret) == [st |-> st, ret |-> ret]
Stop(st, why) == [st |-> [st EXCEPT !.err = why], ret |-> "error"]

----------------------------------------------------------------------------
\* A plausible slip: a file below a link is left to the walk of its directory.
AddFileNoLinks(o, st, cp, path, node, isLink, err) ==
    IF isLink THEN Ret(st, "nil") ELSE Ret(MatchAndAdd(o, st, Entry(o, cp, path, node, isLink)), "nil")

\* What becomes of a node: whether it is recorded, and how the walk goes on.
Decision(added, ret, err) == [added |-> added, ret |-> ret, err |-> err]
Leave(ret) == Decision(<<>>, ret, "")
Record(e, ret) == Decision(<<e>>, ret, "")
\* The contents of a file that cannot be read, and the limit, end the walk.
\* The limit is compared before this entry is added.
RecordFile(o, st, node, full, slow) ==
    LET done == IF slow THEN Contents(node) @@ full ELSE full
    IN IF slow /\ (node.type = "dir" \/ ~node.ok)
       THEN Decision(<<full>>, "error", "could not open file")
       ELSE IF Len(st.list) > o.maxFiles
       THEN Decision(<<done>>, "error", "maximum number of files reached")
       ELSE Record(done, "nil")
AddRegular(o, st, node, plain, err) ==
    LET full == EntryDetails(node) @@ plain
    IN IF ~Admits(o, plain) THEN Leave("nil")
       ELSE IF err THEN Record(("_error" :> Text("unreadable")) @@ plain, "nil")
       ELSE RecordFile(o, st, node, full, o.hash /\ Admits(o, full))
Decide(o, st, cp, path, node, plain, err) ==
    LET isDir == node.type = "dir"
        depth == GetDepth(path, cp)
        limited == o.maxDepth # -1 /\ depth >= 2
    IN CASE isDir /\ path = cp -> Leave("nil")
         [] isDir /\ path # cp /\ err -> Leave("skip")
         [] isDir /\ path # cp /\ ~err /\ limited ->
              IF depth < o.maxDepth THEN Record(plain, "nil")
              ELSE IF depth = o.maxDepth THEN Record(plain, "skip") ELSE Leave("skip")
         [] ~isDir /\ limited /\ depth > o.maxDepth -> Leave("nil")
         [] ~isDir /\ ~o.star /\ path[Len(path)] \notin o.pattern -> Leave("nil")
         [] OTHER -> AddRegular(o, st, node, plain, err)

\* CheckFiles.addFile: "skip" is fs.SkipDir.
Apply(o, st, d) ==
    LET next == IF d.added = <<>> THEN st ELSE MatchAndAdd(o, st, d.added[1])
    IN Ret([next EXCEPT !.err = IF d.err = "" THEN @ ELSE d.err], d.ret)
AddFile(o, st, cp, path, node, isLink, err) ==
    Apply(o, st, Decide(o, st, cp, path, node, Entry(o, cp, path, node, isLink), err))

RECURSIVE Walk(_, _, _, _, _, _, _, _), Visit(_, _, _, _, _, _, _, _),
          VisitAll(_, _, _, _, _, _, _, _, _), VisitRest(_, _, _, _, _, _, _, _, _),
          WalkBelow(_, _, _, _, _, _, _), Follow(_, _, _, _, _, _, _, _)
\* handleSymlink.  Only one level of the link is resolved for the walk, so a
\* link to a link to a directory is recorded but not entered.
Follow(o, fs, rec, isDir, cp, target, display, fuel) ==
    IF ~isDir \/ rec.ret = "error" \/ (o.follow /\ o.once /\ target \in rec.st.visited)
    THEN rec
    ELSE IF rec.ret = "skip" THEN Ret(rec.st, "nil")
    ELSE Walk(o, fs, rec.st, cp, target, display, TRUE, fuel)
HandleSymlink(o, fs, st, cp, real, display, fuel) ==
    LET info == Stat(fs, real)
    IN Follow(o, fs, AddFile(o, st, cp, display, info, TRUE, info.type = "none"),
              info.type = "dir", cp, fs[real].target, display, fuel)

\* The function walk gives to WalkDir, for the node at real, shown as display.
Visit(o, fs, st, cp, root, real, display, fuel) ==
    LET node == fs[real]
        track == o.follow /\ o.once
        seenDir == track /\ node.type = "dir" /\ real \in st.visited
        seenFile == track /\ node.type # "dir" /\ node.inode \in st.inodes
        marked == IF ~track THEN st
                  ELSE IF node.type = "dir" THEN [st EXCEPT !.visited = @ \union {real}]
                  ELSE [st EXCEPT !.inodes = @ \union {node.inode}]
        isLink == IF real = root.path THEN o.follow /\ root.viaLink ELSE node.type = "link"
        near == o.maxDepth = -1 \/ GetDepth(display, cp) < o.maxDepth
    IN IF seenDir \/ seenFile THEN Ret(st, "nil")
       ELSE IF real = root.path /\ root.viaLink THEN Ret(marked, "nil")
       ELSE IF isLink /\ o.follow /\ near
            THEN HandleSymlink(o, fs, marked, cp, real, display, fuel)
       ELSE AddFile(o, marked, cp, display, node, isLink, FALSE)

\* filepath.WalkDir below real, child by child; an unreadable directory is
\* visited once more, with the error, and skipped.
Below(o, fs, v, cp, root, child, shown, fuel) ==
    IF v.ret = "nil" /\ fs[child].type = "dir" /\ fs[child].ok
    THEN VisitAll(o, fs, v.st, cp, root, child, shown, Children(fs, child), fuel)
    ELSE v.st
VisitRest(o, fs, v, cp, root, real, display, names, fuel) ==
    LET child == Append(real, Head(names))
        skipsRest == v.ret = "skip" /\ fs[child].type # "dir"
    IN VisitAll(o, fs, Below(o, fs, v, cp, root, child, Append(display, Head(names)), fuel),
                cp, root, real, display, IF skipsRest THEN <<>> ELSE Tail(names), fuel)
VisitAll(o, fs, st, cp, root, real, display, names, fuel) ==
    IF names = <<>> \/ st.err # "" THEN st
    ELSE VisitRest(o, fs, Visit(o, fs, st, cp, root, Append(real, Head(names)),
                                Append(display, Head(names)), fuel),
                   cp, root, real, display, names, fuel)

Walked(st) == Ret(st, IF st.err = "" THEN "nil" ELSE "error")
WalkBelow(o, fs, v, cp, root, display, fuel) ==
    IF v.ret # "nil" \/ fs[root.path].type # "dir" \/ ~fs[root.path].ok
    THEN Ret(v.st, IF v.ret = "error" THEN "error" ELSE "nil")
    ELSE Walked(VisitAll(o, fs, v.st, cp, root, root.path, display,
                         Children(fs, root.path), fuel))
Walk(o, fs, st, cp, real, display, viaLink, fuel) ==
    LET root == [path |-> real, viaLink |-> viaLink]
    IN IF real \notin DOMAIN fs
       THEN IF viaLink THEN Ret(st, "nil")
            ELSE AddFile(o, st, cp, display, Missing, FALSE, TRUE)
       ELSE IF fuel = 0 THEN Stop(st, "canceled")
       ELSE WalkBelow(o, fs, Visit(o, fs, st, cp, root, real, display, fuel - 1),
                      cp, root, display, fuel - 1)

----------------------------------------------------------------------------
\* The loop of CheckFiles.Check over the paths: a root that is a link is
\* entered through it, one level, and lists nothing unless that is a directory.
\* fuel stands for the time limit of the check, which only a loop that is
\* followed without a limit of the depth reaches.
ScanPath(o, fs, acc, cp, fuel) ==
    LET link == o.follow /\ At(fs, cp).type = "link"
        real == IF link THEN fs[cp].target ELSE cp
        fresh == [acc EXCEPT !.visited = {}, !.inodes = {}]
    IN IF acc.err # "" THEN acc
       ELSE Walk(o, fs, fresh, cp, real, cp, link, fuel).st

Scan(o, fs, paths, fuel) ==
    LET st == [list |-> <<>>, visited |-> {}, inodes |-> {}, err |-> ""]
        all == FoldLeft(LAMBDA acc, cp : ScanPath(o, fs, acc, cp, fuel), st, paths)
        Keeps(e) == \/ o.star \/ e.type = Text("file")
                    \/ e.path.p[Len(e.path.p)] \in o.pattern
    IN [all EXCEPT !.list = SelectSeq(@, Keeps)]

SizeOf(e) == IF Has(e, "size") THEN e.size.n ELSE 0
\* addSubdirectorySizes: the files below it, by the path they are shown at.
SubdirectorySize(list, dir) ==
    FoldLeft(LAMBDA n, e : IF e.type = Text("file") /\ IsStrictPrefix(dir, e.path.p)
                           THEN n + SizeOf(e) ELSE n, 0, list)
=============================================================================
