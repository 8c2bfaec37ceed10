------------------------------- MODULE Update -------------------------------
(***************************************************************************)
(* Updates: a newer version is downloaded beside the executable, verified, *)
(* started, and copies itself over the executable, which removes it.  The  *)
(* service, an admin request and the update command all do this with the   *)
(* same file, and each may die at any step.                                *)
(*                                                                         *)
(* A file is the version it holds, the processes that still write it,      *)
(* whether what was written is complete, and the processes that run it.    *)
(***************************************************************************)
EXTENDS Naturals, FiniteSets

CONSTANTS
    None,
    First,       \* the version that is installed first
    MaxVersion,  \* bound on the versions that are published
    Sizes,       \* of a version: the size of its file
    Channels,    \* kinds of channel: "release" lists versions, "url" is a file
    Fetchers,    \* who looks for updates: "auto", "admin", "command"
    MaxManual,   \* bound on the updates an administrator asks for
    MaxCrashes   \* bound on crashes and on failed downloads

ASSUME UpdateAssumption ==
    /\ First \in Nat /\ MaxVersion \in Nat /\ First <= MaxVersion
    /\ Sizes \in [First..MaxVersion -> Nat]
    /\ Channels \subseteq {"release", "url"} /\ Channels # {}
    /\ Fetchers \subseteq {"auto", "admin", "command"} /\ "auto" \in Fetchers
    /\ MaxManual \in Nat /\ MaxCrashes \in Nat

Version == First..MaxVersion
File == [v : Version, ok : BOOLEAN,
         by : SUBSET (Fetchers \union {"service", "helper"}), run : SUBSET {"service", "helper"}]
ASSUME NoneAssumption == None \notin File /\ None \notin Version

\* What is asked for: a version newer than the one that runs, the newest one
\* even if it is not (--force), a certain one (--downgrade), a local file.
Wish == [kind : {"newer", "force"}, v : {First}] \union [kind : {"version", "file"}, v : Version]
Newer == [kind |-> "newer", v |-> First]

VARIABLES
    offer,     \* the newest version of the channel
    channel,   \* what kind of channel it is
    restart,   \* the option automatic restart
    exe, upd, tmp,  \* the executable, the downloaded file, the copy of it
    service,   \* the agent
    helper,    \* the process of an update without a restart of the agent
    fetch,     \* the update checks: of the main loop, an admin request, a command
    urlCache,  \* the version the agent remembers for the url, with its size
    wished,    \* the versions that somebody asked for by name or by file
    met,       \* two of them were updating at the same time
    manual, crashes
vars == <<offer, channel, restart, exe, upd, tmp, service, helper, fetch, urlCache, wished,
          met, manual, crashes>>
disk == <<exe, upd, tmp>>
given == <<offer, channel, restart>>

OfService == {"auto", "admin"}

Gone == [pc |-> "gone", img |-> "exe", v |-> First]
\* v is the version of the file to fetch, None for the file at the url.
NoFetch == [pc |-> "idle", probe |-> FALSE, size |-> 0, wish |-> Newer, v |-> None]
New(v, p) == [v |-> v, ok |-> TRUE, by |-> {p}, run |-> {}]
Whole(f) == f # None /\ f.ok /\ f.by = {}

Init ==
    /\ offer = First
    /\ channel \in Channels
    /\ restart \in BOOLEAN
    /\ exe = [v |-> First, ok |-> TRUE, by |-> {}, run |-> {}]
    /\ upd = None /\ tmp = None
    /\ service = Gone /\ helper = Gone
    /\ fetch = [f \in Fetchers |-> NoFetch]
    /\ urlCache = None /\ wished = {}
    /\ met = FALSE /\ manual = 0 /\ crashes = 0

----------------------------------------------------------------------------
(* What the processes do to a file.                                        *)

\* os.Create: the file is truncated, also under those who write it.
Truncated(f, v, p) ==
    IF f = None THEN New(v, p)
    ELSE [f EXCEPT !.v = v, !.ok = (f.by = {} \/ f.v = v), !.by = f.by \union {p}]
Written(f, p) == IF f = None THEN None ELSE [f EXCEPT !.by = @ \ {p}]
\* The processes of P are gone: what they were writing stays as it is.
Left(f, P) ==
    IF f = None THEN None
    ELSE [f EXCEPT !.ok = @ /\ f.by \intersect P = {}, !.by = @ \ P, !.run = @ \ P]
Exits(P) == exe' = Left(exe, P) /\ upd' = Left(upd, P) /\ tmp' = Left(tmp, P)

Installing == {"boot", "copy", "rename", "exec"}
Busy ==
    {f \in Fetchers : fetch'[f].pc # "idle"}
    \union (IF service'.pc \in Installing THEN {"service"} ELSE {})
    \union (IF helper'.pc # "gone" THEN {"helper"} ELSE {})
Meets == met' = (met \/ Cardinality(Busy) > 1)

----------------------------------------------------------------------------
(* The check for updates.                                                  *)

Publish ==
    /\ offer < MaxVersion /\ offer' = offer + 1
    /\ UNCHANGED <<channel, restart, disk, service, helper, fetch, urlCache, wished, manual, crashes>>

Current(f) == IF f \in OfService THEN service.v ELSE exe.v
MayFetch(f) ==
    IF f = "command" THEN Whole(exe) ELSE
    /\ service.pc = "run"
    /\ f = "auto" => service.img = "exe"   \* updatePreChecks

\* A plausible slip: the comparison is with the installed version.
NotInstalled(f, w, v) == w.kind = "newer" => v > exe.v
\* chooseBestUpdate, of what the channel has: the version v is taken.
IsBetter(f, w, v) ==
    \/ w.kind = "newer" /\ v > Current(f)
    \/ w.kind = "version" /\ v = w.v
    \/ w.kind = "force"
\* What a channel that lists its versions has to offer.
Best(w) == IF w.kind = "version" /\ w.v <= offer THEN w.v ELSE offer

\* checkUpdateCustomURL: what the cache has for the url is outdated.  The
\* modification time is compared with the time of this very check, so it
\* never is the reason.
Cached(f) == IF f \in OfService THEN urlCache ELSE None
SeemsCurrent == Sizes[offer] = Sizes[exe.v]
Refresh(f) ==
    ~SeemsCurrent /\ (Cached(f) = None \/ (Cached(f) # None /\ Cached(f).size # Sizes[offer]))
\* The version it takes the file at the url for.
TakenFor(f) == IF SeemsCurrent THEN Current(f) ELSE Cached(f).v

Fetches(f, probe, w, v) ==
    fetch' = [fetch EXCEPT ![f] = [pc |-> "create", probe |-> probe, size |-> Sizes[offer],
                                   wish |-> w, v |-> v]]

\* CheckUpdates up to the download; a local file is not compared at all.
FromFile(f, w) == w.kind = "file" /\ Fetches(f, FALSE, Newer, w.v)
FromChannel(f, w) ==
    /\ channel = "release" /\ w.kind # "file"
    /\ IsBetter(f, w, Best(w))
    /\ Fetches(f, FALSE, Newer, Best(w))
FromURL(f, w) ==
    /\ channel = "url" /\ w.kind # "file"
    /\ IF Refresh(f) THEN Fetches(f, TRUE, w, None)
       ELSE IsBetter(f, w, TakenFor(f)) /\ Fetches(f, FALSE, Newer, None)

Check(f) ==
    /\ fetch[f].pc = "idle" /\ MayFetch(f)
    /\ \E w \in IF f = "auto" THEN {Newer} ELSE Wish :
        /\ FromFile(f, w) \/ FromChannel(f, w) \/ FromURL(f, w)
        /\ wished' = IF w.kind \in {"file", "version"} THEN wished \union {w.v} ELSE wished
    /\ IF f = "auto" THEN UNCHANGED manual ELSE manual < MaxManual /\ manual' = manual + 1
    /\ UNCHANGED <<given, disk, service, helper, urlCache, crashes>>

Ends(f) == fetch' = [fetch EXCEPT ![f] = NoFetch]
Goto(f, pc) == fetch' = [fetch EXCEPT ![f].pc = pc]

Target(f) == IF fetch[f].v = None THEN offer ELSE fetch[f].v
\* downloadUpdate: a file that is being executed cannot be written.
Create(f) ==
    /\ fetch[f].pc = "create"
    /\ IF upd # None /\ upd.run # {}
       THEN Ends(f) /\ UNCHANGED upd
       ELSE /\ Goto(f, "download")
            /\ upd' = Truncated(upd, Target(f), f)
    /\ UNCHANGED <<given, exe, tmp, service, helper, urlCache, wished, manual, crashes>>

Download(f) ==
    /\ fetch[f].pc = "download"
    /\ upd' = Written(upd, f)
    /\ IF upd = None THEN Ends(f) ELSE Goto(f, "verify")
    /\ UNCHANGED <<given, exe, tmp, service, helper, urlCache, wished, manual, crashes>>

\* A download that fails leaves what it has got so far.
DownloadFails(f) ==
    /\ fetch[f].pc = "download"
    /\ crashes < MaxCrashes /\ crashes' = crashes + 1
    /\ upd' = Left(upd, {f})
    /\ Ends(f)
    /\ UNCHANGED <<given, exe, tmp, service, helper, urlCache, wished, manual>>

\* verifyUpdate runs the new file; getVersionFromURL only wants to know its
\* version and removes it again.
Verify(f) ==
    /\ fetch[f].pc = "verify"
    /\ IF ~Whole(upd)
       THEN upd' = None /\ Ends(f) /\ UNCHANGED urlCache
       ELSE IF fetch[f].probe
       THEN /\ upd' = None
            /\ urlCache' = IF f \in OfService THEN [v |-> upd.v, size |-> fetch[f].size] ELSE urlCache
            /\ IF IsBetter(f, fetch[f].wish, upd.v)
               THEN fetch' = [fetch EXCEPT ![f] = [NoFetch EXCEPT !.pc = "create"]]
               ELSE Ends(f)
       ELSE Goto(f, "apply") /\ UNCHANGED <<upd, urlCache>>
    /\ UNCHANGED <<given, exe, tmp, service, helper, wished, manual, crashes>>

ServiceEnds == fetch' = [f \in Fetchers |-> IF f \in OfService THEN NoFetch ELSE fetch[f]]

\* ApplyRestart: the agent stops and becomes the new file.  If that fails the
\* process lives on without listeners and tasks.
ApplyRestart(f) ==
    /\ fetch[f].pc = "apply"
    /\ f = "admin" \/ (f = "auto" /\ restart)
    /\ IF Whole(upd)
       THEN /\ service' = [pc |-> "boot", img |-> "upd", v |-> upd.v]
            /\ exe' = Left(exe, {"service"} \union OfService)
            /\ upd' = [upd EXCEPT !.run = @ \union {"service"}]
            /\ tmp' = Left(tmp, {"service"} \union OfService)
            /\ ServiceEnds
            /\ urlCache' = None
       ELSE /\ service' = [service EXCEPT !.pc = "deaf"]
            /\ Ends(f)
            /\ UNCHANGED <<disk, urlCache>>
    /\ UNCHANGED <<given, helper, wished, manual, crashes>>

\* Apply: the new file is started beside the agent.
Apply(f) ==
    /\ fetch[f].pc = "apply"
    /\ f \in {"admin", "command"} \/ ~restart
    /\ helper.pc = "gone"
    /\ Ends(f)
    /\ IF Whole(upd)
       THEN /\ helper' = [pc |-> "boot", img |-> "upd", v |-> upd.v]
            /\ upd' = [upd EXCEPT !.run = @ \union {"helper"}]
       ELSE UNCHANGED <<helper, upd>>
    /\ UNCHANGED <<given, exe, tmp, service, urlCache, wished, manual, crashes>>

----------------------------------------------------------------------------
(* CheckUpdateBinary: the service at its start, the helper as its only job.  *)

Start ==
    /\ service.pc = "gone" /\ Whole(exe)
    /\ service' = [pc |-> "boot", img |-> "exe", v |-> exe.v]
    /\ UNCHANGED <<given, disk, helper, fetch, urlCache, wished, manual, crashes>>

\* The process p goes on in state s; both have the same steps.
Me(p) == IF p = "service" THEN service ELSE helper
Becomes(p, s) ==
    IF p = "service" THEN service' = s /\ UNCHANGED helper ELSE helper' = s /\ UNCHANGED service
\* Without anything left to do the service starts, the helper is done.
GoesOn(p) == Becomes(p, IF p = "service" THEN [service EXCEPT !.pc = "run"] ELSE Gone)
\* finishUpdate: the installed file is executed, or started as the new helper.
Finishes(p) == Becomes(p, IF Whole(exe) THEN [pc |-> "boot", img |-> "exe", v |-> exe.v] ELSE Gone)

\* Started from the executable: the downloaded file is not needed any more.
BootInstalled(p) ==
    /\ Me(p).pc = "boot" /\ Me(p).img = "exe"
    /\ upd' = None
    /\ GoesOn(p)
    /\ UNCHANGED <<given, exe, tmp, fetch, urlCache, wished, manual, crashes>>

\* Started from a downloaded file that is gone.
BootOrphaned(p) ==
    /\ Me(p).pc = "boot" /\ Me(p).img = "upd" /\ upd = None
    /\ Finishes(p)
    /\ UNCHANGED <<given, disk, fetch, urlCache, wished, manual, crashes>>

\* A plausible slip: the file is copied over the executable itself.
BootInPlace(p) ==
    /\ Me(p).pc = "boot" /\ Me(p).img = "upd" /\ upd # None
    /\ exe' = [Truncated(exe, upd.v, p) EXCEPT !.ok = @ /\ Whole(upd)]
    /\ tmp' = [exe' EXCEPT !.by = {}]
    /\ Becomes(p, [Me(p) EXCEPT !.pc = "copy"])
    /\ UNCHANGED <<given, upd, fetch, urlCache, wished, manual, crashes>>

\* The downloaded file is copied beside the executable.
BootDownloaded(p) ==
    /\ Me(p).pc = "boot" /\ Me(p).img = "upd" /\ upd # None
    /\ tmp' = [Truncated(tmp, upd.v, p) EXCEPT !.ok = @ /\ Whole(upd)]
    /\ Becomes(p, [Me(p) EXCEPT !.pc = "copy"])
    /\ UNCHANGED <<given, exe, upd, fetch, urlCache, wished, manual, crashes>>

\* A failure ends the update; the process goes on as it is.
Copy(p) ==
    /\ Me(p).pc = "copy"
    /\ tmp' = Written(tmp, p) /\ exe' = Written(exe, p)
    /\ IF tmp = None THEN GoesOn(p) ELSE Becomes(p, [Me(p) EXCEPT !.pc = "rename"])
    /\ UNCHANGED <<given, upd, fetch, urlCache, wished, manual, crashes>>

Rename(p) ==
    /\ Me(p).pc = "rename"
    /\ tmp' = None
    /\ IF tmp = None
       THEN GoesOn(p) /\ UNCHANGED exe
       ELSE exe' = tmp /\ Becomes(p, [Me(p) EXCEPT !.pc = "exec"])
    /\ UNCHANGED <<given, upd, fetch, urlCache, wished, manual, crashes>>

Execute(p) ==
    /\ Me(p).pc = "exec"
    /\ upd' = Left(upd, {p})
    /\ tmp' = IF p = "helper" THEN None ELSE tmp
    /\ Finishes(p)
    /\ UNCHANGED <<given, exe, fetch, urlCache, wished, manual, crashes>>

----------------------------------------------------------------------------
(* Every process may die; the service manager starts the agent again.      *)
Crash(p) ==
    /\ crashes < MaxCrashes /\ crashes' = crashes + 1
    /\ CASE p = "service" ->
              /\ service.pc # "gone"
              /\ service' = Gone /\ Exits({"service"} \union OfService)
              /\ ServiceEnds /\ urlCache' = None
              /\ UNCHANGED helper
         [] p = "helper" ->
              /\ helper.pc # "gone"
              /\ helper' = Gone /\ Exits({"helper"})
              /\ UNCHANGED <<service, fetch, urlCache>>
         [] OTHER ->
              /\ fetch[p].pc # "idle"
              /\ Ends(p) /\ Exits({p})
              /\ UNCHANGED <<service, helper, urlCache>>
    /\ UNCHANGED <<given, wished, manual>>

FetchStep(f) ==
    Create(f) \/ Download(f) \/ Verify(f) \/ ApplyRestart(f) \/ Apply(f)
BootStep(p) ==
    BootInstalled(p) \/ BootOrphaned(p) \/ BootDownloaded(p) \/ Copy(p) \/ Rename(p) \/ Execute(p)

Step ==
    \/ Publish \/ Start
    \/ \E f \in Fetchers : Check(f) \/ FetchStep(f) \/ DownloadFails(f)
    \/ \E p \in {"service", "helper"} : BootStep(p)
    \/ \E p \in {"service", "helper"} \union (Fetchers \ OfService) : Crash(p)
Next == Step /\ Meets

Spec == Init /\ [][Next]_vars

----------------------------------------------------------------------------
TypeOK ==
    /\ offer \in Version /\ channel \in Channels /\ restart \in BOOLEAN
    /\ exe \in File /\ upd \in File \union {None} /\ tmp \in File \union {None}
    /\ service \in [pc : {"gone", "boot", "copy", "rename", "exec", "run", "deaf"},
                    img : {"exe", "upd"}, v : Version]
    /\ helper \in [pc : {"gone", "boot", "copy", "rename", "exec"},
                   img : {"exe", "upd"}, v : Version]
    /\ fetch \in [Fetchers -> [pc : {"idle", "create", "download", "verify", "apply"},
                               probe : BOOLEAN, size : Nat, wish : Wish,
                               v : Version \union {None}]]
    /\ urlCache \in [v : Version, size : Nat] \union {None}
    /\ wished \subseteq Version
    /\ met \in BOOLEAN /\ manual \in 0..MaxManual /\ crashes \in 0..MaxCrashes

\* The states an agent cannot leave by itself: the executable is not a complete
\* file, the process has stopped everything and failed to become another one,
\* or it runs the downloaded file, which never looks for updates.
Stuck ==
    \/ ~Whole(exe)
    \/ service.pc = "deaf"
    \/ service.pc = "run" /\ service.img = "upd"

(* Whatever dies when and whichever download fails, the executable stays a  *)
(* complete file and the agent gets back to serve from it.  Two updates at  *)
(* the same time use the same two files and are left out                    *)
(* (CheckUpdateBinary, snclient.go 1138-1201, and ApplyRestart,             *)
(* task_updates.go 829-879).                                                *)
NeverStuckAlone == met \/ ~Stuck

FairSpec ==
    /\ Spec
    /\ WF_vars(Start /\ Meets)
    /\ WF_vars(Check("auto") /\ Meets)
    /\ \A f \in Fetchers : WF_vars(FetchStep(f) /\ Meets)
    /\ \A p \in {"service", "helper"} : WF_vars(BootStep(p) /\ Meets)

(* A new version reaches the executable, and with automatic restart the     *)
(* agent, after any crashes, failed downloads and updates by others that do *)
(* not leave it stuck; unless the file at the url is as large as the one    *)
(* that is installed, or as the one that was seen last                      *)
(* (checkUpdateCustomURL, task_updates.go 579-649), or an administrator, or *)
(* two updates at a time, have put an older file under the running agent,   *)
(* which compares with itself (chooseBestUpdate, 365).                      *)
SeenAs(v, size) == urlCache # None /\ urlCache.v = v /\ urlCache.size = size
Hidden ==
    channel = "url" /\ ( Sizes[offer] = Sizes[exe.v]
                       \/ \E v \in First..(offer - 1) : SeenAs(v, Sizes[offer]) )
Downgraded == exe.v < service.v /\ (met \/ exe.v \in wished)
UpdateArrives ==
    <>[]( Stuck \/ Hidden \/ Downgraded
        \/ (exe.v >= offer /\ (restart => service.v >= offer)) )

(* The executable is replaced by an older version only if the administrator *)
(* asked for the older one, or had asked for the newer one, while there is  *)
(* one update at a time (CheckUpdates, task_updates.go 235-380).            *)
DowngradesOnlyAsked ==
    [][ met' \/ exe.v <= exe'.v \/ exe'.v \in wished \/ exe.v \in wished ]_vars
=============================================================================
