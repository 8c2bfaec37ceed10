---------------------------- MODULE Update_proofs ----------------------------
(***************************************************************************)
(* For all versions, channels and bounds: as long as no two updates are    *)
(* under way at the same time, a crash at any step and any failed download *)
(* leave a complete executable and an agent that serves from it; and only  *)
(* what an administrator asked for lowers its version.                     *)
(***************************************************************************)
EXTENDS Update, FiniteSetTheorems, TLAPS

Procs == {"service", "helper"}
Actors == Fetchers \union Procs

\* Who is updating: what Busy says of the next state.
Updates ==
    {f \in Fetchers : fetch[f].pc # "idle"}
    \union (IF service.pc \in Installing THEN {"service"} ELSE {})
    \union (IF helper.pc # "gone" THEN {"helper"} ELSE {})
Alone == \A x, y \in Updates : x = y

\* The files are complete at the steps that use them.
Applied == \A f \in Fetchers : fetch[f].pc = "apply" => Whole(upd)
Booted == \A p \in Procs :
    Me(p).pc = "boot" /\ Me(p).img = "upd" /\ upd # None => Whole(upd)
Copied == \A p \in Procs :
    /\ Me(p).pc = "copy" => tmp # None /\ tmp.ok /\ tmp.by \subseteq {p}
    /\ Me(p).pc = "rename" => Whole(tmp)
\* Only a process that copies writes the copy.
Quiet == tmp # None /\ (\A p \in Procs : Me(p).pc # "copy") => tmp.by = {}

AloneInv == Alone /\ ~Stuck /\ Applied /\ Booted /\ Copied /\ Quiet
IInv == TypeOK /\ (met \/ AloneInv)

\* What may replace the executable: a version that is not older, or one that
\* was asked for, or any if the installed one was asked for.
Offered(v) == v <= offer \/ v \in wished
Right(v) == Offered(v) /\ (exe.v <= v \/ v \in wished \/ exe.v \in wished)
\* Everything on its way to the executable may replace it.
InOrder ==
    /\ Offered(exe.v)
    /\ \A f \in Fetchers :
        /\ fetch[f].pc = "create" /\ fetch[f].v # None => Right(fetch[f].v)
        /\ fetch[f].pc \in {"download", "verify", "apply"} /\ upd # None => Right(upd.v)
    /\ \A p \in Procs :
        /\ Me(p).pc = "boot" /\ Me(p).img = "upd" /\ upd # None => Right(upd.v)
        /\ Me(p).pc \in {"copy", "rename"} /\ tmp # None => Right(tmp.v)

----------------------------------------------------------------------------
(* Types.                                                                   *)

MaybeFile == File \union {None}
LEMMA TruncatedType ==
    ASSUME NEW f \in MaybeFile, NEW v \in Version, NEW p \in Actors
    PROVE  Truncated(f, v, p) \in File
BY DEF Truncated, New, MaybeFile, File, Actors, Procs

LEMMA WrittenType ==
    ASSUME NEW f \in MaybeFile, NEW p
    PROVE  Written(f, p) \in MaybeFile /\ (f # None => Written(f, p) \in File)
BY DEF Written, MaybeFile, File

LEMMA LeftType ==
    ASSUME NEW f \in MaybeFile, NEW P
    PROVE  Left(f, P) \in MaybeFile /\ (f # None => Left(f, P) \in File)
BY DEF Left, MaybeFile, File

ProcType == [pc : {"gone", "boot", "copy", "rename", "exec", "run", "deaf"},
             img : {"exe", "upd"}, v : Version]
HelperType == [pc : {"gone", "boot", "copy", "rename", "exec"},
               img : {"exe", "upd"}, v : Version]
FetchType == [pc : {"idle", "create", "download", "verify", "apply"},
              probe : BOOLEAN, size : Nat, wish : Wish, v : Version \union {None}]

LEMMA TypeInit == Init => TypeOK
<1> SUFFICES ASSUME Init PROVE TypeOK
  OBVIOUS
<1>1. First \in Version
  BY UpdateAssumption DEF Version
<1>2. exe \in File
  BY <1>1 DEF Init, File
<1>3. Gone \in ProcType /\ Gone \in HelperType /\ NoFetch \in FetchType
  BY <1>1 DEF Gone, NoFetch, Newer, Wish, ProcType, HelperType, FetchType
<1>4. service \in ProcType /\ helper \in HelperType /\ fetch \in [Fetchers -> FetchType]
  BY <1>3 DEF Init
<1>5. manual \in 0..MaxManual /\ crashes \in 0..MaxCrashes
  BY UpdateAssumption DEF Init
<1> QED BY <1>1, <1>2, <1>4, <1>5 DEF Init, TypeOK, ProcType, HelperType, FetchType

\* What the steps of a process p make of it, and of the other one.
LEMMA BecomesType ==
    ASSUME TypeOK, NEW p \in Procs, NEW s \in ProcType,
           Becomes(p, s), p = "helper" => s \in HelperType
    PROVE  service' \in ProcType /\ helper' \in HelperType
BY DEF Becomes, TypeOK, ProcType, HelperType, Procs

LEMMA GoneType == Gone \in ProcType /\ Gone \in HelperType
BY UpdateAssumption DEF Gone, ProcType, HelperType, Version

LEMMA MovesType ==
    ASSUME TypeOK, NEW p \in Procs, NEW pc \in {"boot", "copy", "rename", "exec"},
           Becomes(p, [Me(p) EXCEPT !.pc = pc])
    PROVE  service' \in ProcType /\ helper' \in HelperType
<1>1. [Me(p) EXCEPT !.pc = pc] \in ProcType
  BY DEF Me, TypeOK, ProcType, HelperType, Procs
<1>2. p = "helper" => [Me(p) EXCEPT !.pc = pc] \in HelperType
  BY DEF Me, TypeOK, ProcType, HelperType, Procs
<1> QED BY <1>1, <1>2, BecomesType

LEMMA GoesOnType ==
    ASSUME TypeOK, NEW p \in Procs, GoesOn(p)
    PROVE  service' \in ProcType /\ helper' \in HelperType
<1>1. [service EXCEPT !.pc = "run"] \in ProcType
  BY DEF TypeOK, ProcType
<1> QED BY <1>1, GoneType, BecomesType DEF GoesOn, Procs

LEMMA FinishesType ==
    ASSUME TypeOK, NEW p \in Procs, Finishes(p)
    PROVE  service' \in ProcType /\ helper' \in HelperType
<1> DEFINE s == [pc |-> "boot", img |-> "exe", v |-> exe.v]
<1>1. s \in ProcType /\ s \in HelperType
  BY DEF TypeOK, ProcType, HelperType, File
<1> QED BY <1>1, GoneType, BecomesType DEF Finishes

LEMMA FilesLeft ==
    ASSUME TypeOK, NEW P
    PROVE  Left(exe, P) \in File /\ Left(upd, P) \in MaybeFile /\ Left(tmp, P) \in MaybeFile
BY LeftType, NoneAssumption DEF TypeOK, MaybeFile

\* The types of the variables but met, which no step needs.
StepType ==
    /\ offer \in Version /\ channel \in Channels /\ restart \in BOOLEAN
    /\ exe \in File /\ upd \in MaybeFile /\ tmp \in MaybeFile
    /\ service \in ProcType /\ helper \in HelperType
    /\ fetch \in [Fetchers -> FetchType]
    /\ urlCache \in [v : Version, size : Nat] \union {None}
    /\ wished \subseteq Version
    /\ manual \in 0..MaxManual /\ crashes \in 0..MaxCrashes
LEMMA TypeIs == TypeOK <=> StepType /\ met \in BOOLEAN
BY DEF TypeOK, StepType, MaybeFile, ProcType, HelperType, FetchType

LEMMA NoFetchType == NoFetch \in FetchType
BY UpdateAssumption DEF NoFetch, FetchType, Newer, Wish, Version

LEMMA EndsType ==
    ASSUME TypeOK, NEW f \in Fetchers, Ends(f) PROVE fetch' \in [Fetchers -> FetchType]
BY NoFetchType, TypeIs DEF Ends, StepType

LEMMA GotoType ==
    ASSUME TypeOK, NEW f \in Fetchers, NEW pc \in {"create", "download", "verify", "apply"},
           Goto(f, pc)
    PROVE  fetch' \in [Fetchers -> FetchType]
<1> DEFINE r == [fetch[f] EXCEPT !.pc = pc]
<1>1. r \in FetchType
  BY TypeIs DEF StepType, FetchType
<1>2. fetch' = [fetch EXCEPT ![f] = r]
  BY DEF Goto
<1> HIDE DEF r
<1> QED BY <1>1, <1>2, TypeIs DEF StepType

LEMMA ServiceEndsType == TypeOK /\ ServiceEnds => fetch' \in [Fetchers -> FetchType]
BY NoFetchType, TypeIs DEF ServiceEnds, StepType

LEMMA CheckStepType == ASSUME TypeOK, NEW f \in Fetchers, Check(f) PROVE StepType'
<1>1. PICK w \in Wish :
        /\ FromFile(f, w) \/ FromChannel(f, w) \/ FromURL(f, w)
        /\ wished' = IF w.kind \in {"file", "version"} THEN wished \union {w.v} ELSE wished
  BY UpdateAssumption DEF Check, Newer, Wish, Version
<1>2. w.v \in Version /\ Newer \in Wish /\ Best(w) \in Version
  BY UpdateAssumption, TypeIs DEF Wish, Newer, Version, Best, StepType
<1>3. \E probe \in BOOLEAN, x \in Wish, v \in Version \union {None} : Fetches(f, probe, x, v)
  BY <1>1, <1>2 DEF FromFile, FromChannel, FromURL
<1>4. PICK probe \in BOOLEAN, x \in Wish, v \in Version \union {None} : Fetches(f, probe, x, v)
  BY <1>3
<1>5. Sizes[offer] \in Nat
  BY UpdateAssumption, TypeIs DEF StepType, Version
<1>6. fetch' \in [Fetchers -> FetchType]
  BY <1>4, <1>5, TypeIs DEF StepType, FetchType, Fetches
<1>7. manual' \in 0..MaxManual
  BY UpdateAssumption DEF Check, TypeOK
<1>8. wished' \subseteq Version
  BY <1>1, <1>2, TypeIs DEF StepType
<1> QED BY <1>6, <1>7, <1>8, TypeIs DEF Check, given, disk, StepType

LEMMA TargetType == ASSUME TypeOK, NEW f \in Fetchers PROVE Target(f) \in Version
BY TypeIs DEF StepType, FetchType, Target

LEMMA FetchStepType ==
    ASSUME TypeOK, NEW f \in Fetchers, FetchStep(f) \/ DownloadFails(f)
    PROVE  StepType'
<1> USE DEF given, disk
<1>1. CASE Create(f)
  <2>1. Truncated(upd, Target(f), f) \in File
    BY TargetType, TruncatedType, TypeIs DEF StepType, Actors
  <2> QED BY <1>1, <2>1, EndsType, GotoType, TypeIs DEF Create, StepType, MaybeFile
<1>2. CASE Download(f)
  BY <1>2, WrittenType, EndsType, GotoType, TypeIs DEF Download, StepType
<1>3. CASE DownloadFails(f)
  <2>1. crashes' \in 0..MaxCrashes
    BY <1>3, UpdateAssumption DEF DownloadFails, TypeOK
  <2> QED BY <1>3, <2>1, FilesLeft, EndsType, TypeIs DEF DownloadFails, StepType
<1>4. CASE Verify(f)
  <2>1. upd' \in MaybeFile
    BY <1>4, TypeIs DEF Verify, StepType, MaybeFile
  <2>2. urlCache' \in [v : Version, size : Nat] \union {None}
    BY <1>4 DEF Verify, TypeOK, File, Whole
  <2>3. fetch' \in [Fetchers -> FetchType]
    <3>1. CASE fetch' = [fetch EXCEPT ![f] = [NoFetch EXCEPT !.pc = "create"]]
      <4>1. [NoFetch EXCEPT !.pc = "create"] \in FetchType
        BY NoFetchType DEF FetchType
      <4> QED BY <3>1, <4>1, TypeIs DEF StepType
    <3> QED BY <1>4, <3>1, EndsType, GotoType DEF Verify
  <2> QED BY <1>4, <2>1, <2>2, <2>3, TypeIs DEF Verify, StepType
<1>5. CASE ApplyRestart(f)
  <2>1. CASE Whole(upd)
    <3>1. upd \in File /\ upd.v \in Version
      BY <2>1, TypeIs DEF Whole, StepType, MaybeFile, File
    <3>2. upd' \in File
      BY <1>5, <2>1, <3>1 DEF ApplyRestart, File
    <3>3. service' \in ProcType
      BY <1>5, <2>1, <3>1 DEF ApplyRestart, ProcType
    <3> QED BY <1>5, <2>1, <3>2, <3>3, FilesLeft, ServiceEndsType, TypeIs
            DEF ApplyRestart, StepType, MaybeFile
  <2>2. CASE ~Whole(upd)
    <3>1. service' \in ProcType
      BY <1>5, <2>2, TypeIs DEF ApplyRestart, StepType, ProcType
    <3> QED BY <1>5, <2>2, <3>1, EndsType, TypeIs DEF ApplyRestart, StepType
  <2> QED BY <2>1, <2>2
<1>6. CASE Apply(f)
  <2>1. CASE Whole(upd)
    <3>1. upd \in File /\ upd.v \in Version
      BY <2>1, TypeIs DEF Whole, StepType, MaybeFile, File
    <3>2. upd' \in File
      BY <1>6, <2>1, <3>1 DEF Apply, File
    <3>3. helper' \in HelperType
      BY <1>6, <2>1, <3>1 DEF Apply, HelperType
    <3> QED BY <1>6, <2>1, <3>2, <3>3, EndsType, TypeIs DEF Apply, StepType, MaybeFile
  <2>2. CASE ~Whole(upd)
    BY <1>6, <2>2, EndsType, TypeIs DEF Apply, StepType
  <2> QED BY <2>1, <2>2
<1> QED BY <1>1, <1>2, <1>3, <1>4, <1>5, <1>6 DEF FetchStep

LEMMA BootStepType ==
    ASSUME TypeOK, NEW p \in Procs, BootStep(p) PROVE StepType'
<1> USE DEF given, disk
<1>1. CASE BootInstalled(p)
  BY <1>1, GoesOnType, TypeIs DEF BootInstalled, StepType, MaybeFile
<1>2. CASE BootOrphaned(p)
  BY <1>2, FinishesType, TypeIs DEF BootOrphaned, StepType
<1>3. CASE BootDownloaded(p)
  <2>1. upd \in File /\ upd.v \in Version
    BY <1>3, TypeIs DEF BootDownloaded, StepType, MaybeFile, File
  <2>2. Truncated(tmp, upd.v, p) \in File
    BY <2>1, TruncatedType, TypeIs DEF StepType, Actors
  <2>3. tmp' \in File
    BY <1>3, <2>1, <2>2 DEF BootDownloaded, File, Whole
  <2> QED BY <1>3, <2>3, MovesType, TypeIs DEF BootDownloaded, StepType, MaybeFile
<1>4. CASE Copy(p)
  <2>1. tmp' \in MaybeFile /\ exe' \in File
    BY <1>4, WrittenType, NoneAssumption, TypeIs DEF Copy, StepType, MaybeFile
  <2> QED BY <1>4, <2>1, GoesOnType, MovesType, TypeIs DEF Copy, StepType
<1>5. CASE Rename(p)
  <2>1. tmp' \in MaybeFile /\ exe' \in File
    BY <1>5, TypeIs DEF Rename, StepType, MaybeFile
  <2> QED BY <1>5, <2>1, GoesOnType, MovesType, TypeIs DEF Rename, StepType
<1>6. CASE Execute(p)
  <2>1. tmp' \in MaybeFile
    BY <1>6, TypeIs DEF Execute, StepType, MaybeFile
  <2> QED BY <1>6, <2>1, FilesLeft, FinishesType, TypeIs DEF Execute, StepType
<1> QED BY <1>1, <1>2, <1>3, <1>4, <1>5, <1>6 DEF BootStep

LEMMA CrashType ==
    ASSUME TypeOK, NEW p \in Procs \union (Fetchers \ OfService), Crash(p) PROVE StepType'
<1>1. crashes' \in 0..MaxCrashes
  BY UpdateAssumption DEF Crash, TypeOK
<1>2. PICK P : Exits(P)
  BY DEF Crash, Procs, Exits
<1>3. exe' \in File /\ upd' \in MaybeFile /\ tmp' \in MaybeFile
  BY <1>2, FilesLeft DEF Exits
<1>4. /\ service' \in ProcType /\ helper' \in HelperType
      /\ fetch' \in [Fetchers -> FetchType]
      /\ urlCache' \in [v : Version, size : Nat] \union {None}
  BY GoneType, EndsType, ServiceEndsType, TypeIs DEF Crash, Procs, StepType
<1> QED BY <1>1, <1>3, <1>4, TypeIs DEF Crash, StepType, given

LEMMA TypeNext == TypeOK /\ [Next]_vars => TypeOK'
<1> SUFFICES ASSUME TypeOK, [Next]_vars PROVE TypeOK'
  OBVIOUS
<1>1. CASE UNCHANGED vars
  BY <1>1 DEF vars, TypeOK
<1>2. ASSUME Step, Meets PROVE StepType'
  <2>1. CASE Publish
    <3>1. offer' \in Version
      BY <2>1, UpdateAssumption DEF Publish, TypeOK, Version
    <3> QED BY <2>1, <3>1, TypeIs DEF Publish, StepType, disk
  <2>2. CASE Start
    <3>1. service' \in ProcType
      BY <2>2, TypeIs DEF Start, StepType, ProcType, File
    <3> QED BY <2>2, <3>1, TypeIs DEF Start, StepType, given, disk
  <2> QED BY <1>2, <2>1, <2>2, CheckStepType, FetchStepType, BootStepType, CrashType
          DEF Step, Procs
<1>3. ASSUME Meets PROVE met' \in BOOLEAN
  BY <1>3, TypeIs DEF Meets
<1>4. TypeOK' <=> (StepType /\ met \in BOOLEAN)'
  BY DEF TypeOK, StepType, MaybeFile, ProcType, HelperType, FetchType
<1> QED BY <1>1, <1>2, <1>3, <1>4 DEF Next

(* Theorem: every variable keeps its type, whatever is published, asked for *)
(* and killed.                                                              *)
THEOREM TypesHold == Spec => []TypeOK
BY TypeInit, TypeNext, PTL DEF Spec

----------------------------------------------------------------------------
(* Versions.                                                                *)

\* Of all that happens to a file only its truncation changes the version.
LEMMA VersionKept ==
    ASSUME NEW f \in MaybeFile, NEW p, NEW P
    PROVE  /\ Written(f, p) = None <=> f = None
           /\ Left(f, P) = None <=> f = None
           /\ f # None => Written(f, p).v = f.v /\ Left(f, P).v = f.v
BY NoneAssumption, WrittenType, LeftType DEF Written, Left, MaybeFile, File

LEMMA VersionTruncated ==
    ASSUME NEW f \in MaybeFile, NEW v \in Version, NEW p \in Actors
    PROVE  Truncated(f, v, p) # None /\ Truncated(f, v, p).v = v
<1>1. Truncated(f, v, p) # None
  BY NoneAssumption, TruncatedType
<1>2. New(v, p).v = v
  BY DEF New
<1>3. ASSUME NEW g \in File PROVE [g EXCEPT !.v = v, !.ok = (g.by = {} \/ g.v = v),
                                            !.by = g.by \union {p}].v = v
  BY DEF File
<1> QED BY <1>1, <1>2, <1>3 DEF Truncated, MaybeFile

----------------------------------------------------------------------------
(* One update at a time.                                                    *)

LEMMA TwoMembers ==
    ASSUME NEW S, IsFiniteSet(S), NEW x \in S, NEW y \in S, x # y
    PROVE  Cardinality(S) > 1
<1>1. IsFiniteSet({x}) /\ Cardinality({x}) = 1
  BY FS_Singleton
<1>2. IsFiniteSet({x} \union {y}) /\ Cardinality({x} \union {y}) = 2
  <2> DEFINE X == {x}
  <2>1. IsFiniteSet(X) /\ Cardinality(X) = 1 /\ y \notin X
    BY <1>1
  <2> HIDE DEF X
  <2>2. IsFiniteSet(X \union {y}) /\ Cardinality(X \union {y}) = 2
    BY <2>1, FS_AddElement
  <2> QED BY <2>2 DEF X
<1>3. Cardinality({x} \union {y}) <= Cardinality(S)
  BY <1>2, FS_Subset
<1> QED BY <1>2, <1>3, FS_CardinalityType

LEMMA FinitelyMany == ASSUME NEW S, S \subseteq Actors PROVE IsFiniteSet(S)
<1> DEFINE one == {"auto"}
           two == one \union {"admin"}
           three == two \union {"command"}
           four == three \union {"service"}
<1>0. IsFiniteSet(one)
  BY FS_Singleton
<1> HIDE DEF one
<1>0a. IsFiniteSet(two)
  BY <1>0, FS_AddElement
<1> HIDE DEF two
<1>0b. IsFiniteSet(three)
  BY <1>0a, FS_AddElement
<1> HIDE DEF three
<1>0c. IsFiniteSet(four)
  BY <1>0b, FS_AddElement
<1> HIDE DEF four
<1>1. IsFiniteSet(four \union {"helper"})
  BY <1>0c, FS_AddElement
<1>2. S \subseteq four \union {"helper"}
  BY UpdateAssumption DEF Actors, Procs, one, two, three, four
<1> QED BY <1>1, <1>2, FS_Subset

\* The step notices when it makes a second one busy.
LEMMA MeetsAlone == Meets /\ ~met' => ~met /\ Alone'
<1> SUFFICES ASSUME Meets, ~met' PROVE ~met /\ Alone'
  OBVIOUS
<1>1. ~met /\ ~(Cardinality(Busy) > 1)
  BY DEF Meets
<1>2. IsFiniteSet(Busy)
  BY FinitelyMany DEF Busy, Actors, Procs
<1>3. Updates' = Busy
  BY DEF Updates, Busy
<1> QED BY <1>1, <1>2, <1>3, TwoMembers DEF Alone

LEMMA OnlyFetch ==
    ASSUME Alone, NEW f \in Fetchers, fetch[f].pc # "idle"
    PROVE  /\ \A g \in Fetchers : g # f => fetch[g].pc = "idle"
           /\ \A p \in Procs : Me(p).pc \notin Installing
           /\ helper.pc = "gone"
<1>1. f # "service" /\ f # "helper"
  BY UpdateAssumption
<1> QED BY <1>1 DEF Alone, Updates, Procs, Me, Installing

LEMMA OnlyProc ==
    ASSUME TypeOK, Alone, NEW p \in Procs, Me(p).pc \in Installing
    PROVE  /\ \A f \in Fetchers : fetch[f].pc = "idle"
           /\ \A q \in Procs : q # p => Me(q).pc \notin Installing
<1>1. \A f \in Fetchers : f # "service" /\ f # "helper"
  BY UpdateAssumption
<1>2. helper.pc # "gone" <=> helper.pc \in Installing
  BY TypeIs DEF StepType, HelperType, Installing
<1> QED BY <1>1, <1>2 DEF Alone, Updates, Procs, Me

----------------------------------------------------------------------------
(* What is complete stays complete.                                         *)

LEMMA WholeKept ==
    ASSUME NEW f \in MaybeFile, Whole(f), NEW p, NEW P
    PROVE  Whole(Left(f, P)) /\ Whole(Written(f, p))
<1>1. f # None /\ f \in File /\ f.ok /\ f.by = {}
  BY DEF Whole, MaybeFile
<1>2. Left(f, P) # None /\ Written(f, p) # None
  BY <1>1, VersionKept
<1>3. Left(f, P).ok /\ Left(f, P).by = {}
  BY <1>1 DEF Left, File
<1>4. Written(f, p).ok /\ Written(f, p).by = {}
  BY <1>1 DEF Written, File
<1> QED BY <1>2, <1>3, <1>4 DEF Whole

LEMMA ByKept ==
    ASSUME NEW f \in MaybeFile, f # None, NEW p, NEW P
    PROVE  /\ Left(f, P).by = f.by \ P
           /\ f.ok /\ f.by \intersect P = {} => Left(f, P).ok
           /\ Written(f, p).by = f.by \ {p} /\ Written(f, p).ok = f.ok
BY DEF Left, Written, MaybeFile, File

\* A file that nobody writes is created anew as a complete one.
LEMMA TruncatedWhole ==
    ASSUME NEW f \in MaybeFile, NEW v \in Version, NEW p \in Actors, f # None => f.by = {}
    PROVE  Truncated(f, v, p).ok /\ Truncated(f, v, p).by = {p}
<1>1. New(v, p).ok /\ New(v, p).by = {p}
  BY DEF New
<1>2. ASSUME NEW g \in File, g.by = {}
      PROVE  LET t == [g EXCEPT !.v = v, !.ok = (g.by = {} \/ g.v = v), !.by = g.by \union {p}]
             IN t.ok /\ t.by = {p}
  BY <1>2 DEF File
<1> QED BY <1>1, <1>2 DEF Truncated, MaybeFile

\* What a process becomes, and that the other one stays.
LEMMA BecomesMe ==
    ASSUME NEW p \in Procs, NEW s, Becomes(p, s)
    PROVE  \A q \in Procs : Me(q)' = IF q = p THEN s ELSE Me(q)
BY DEF Becomes, Me, Procs

Good == ~Stuck /\ Applied /\ Booted /\ Copied /\ Quiet
LEMMA AloneInvIs == AloneInv <=> Alone /\ Good
BY DEF AloneInv, Good

LEMMA FilesTyped ==
    TypeOK => exe \in MaybeFile /\ upd \in MaybeFile /\ tmp \in MaybeFile /\ exe # None
BY NoneAssumption DEF TypeOK, MaybeFile

LEMMA FetchGood ==
    ASSUME TypeOK, Alone, Good, NEW f \in Fetchers, FetchStep(f) \/ DownloadFails(f)
    PROVE  Good'
<1> USE DEF given, disk
<1>1. fetch[f].pc # "idle"
  BY DEF FetchStep, DownloadFails, Create, Download, Verify, ApplyRestart, Apply
<1>2. /\ \A g \in Fetchers : g # f => fetch[g].pc = "idle"
      /\ \A p \in Procs : Me(p).pc \notin Installing
      /\ helper.pc = "gone"
  BY <1>1, OnlyFetch
<1>3. tmp # None => tmp.by = {}
  BY <1>2 DEF Good, Quiet, Installing
<1>4. Whole(exe) /\ service.pc # "deaf" /\ ~(service.pc = "run" /\ service.img = "upd")
  BY DEF Good, Stuck
<1>5. fetch \in [Fetchers -> FetchType]
  BY TypeIs DEF StepType
<1>6. ASSUME UNCHANGED <<exe, tmp, service, helper>>, Applied' PROVE Good'
  <2>1. \A p \in Procs : Me(p)' = Me(p)
    BY <1>6 DEF Me
  <2>2. (Booted /\ Copied)'
    BY <1>2, <2>1 DEF Booted, Copied, Installing
  <2>3. Stuck' <=> Stuck
    BY <1>6 DEF Stuck, Whole
  <2>4. Quiet'
    BY <1>3, <1>6 DEF Quiet
  <2> QED BY <1>6, <2>2, <2>3, <2>4 DEF Good
<1>7. ASSUME Ends(f) PROVE \A g \in Fetchers : fetch'[g].pc = "idle"
  BY <1>2, <1>5, <1>7 DEF Ends, NoFetch
<1>8. ASSUME NEW pc, Goto(f, pc), pc # "apply" \/ Whole(upd)' PROVE Applied'
  BY <1>2, <1>5, <1>8 DEF Goto, Applied, FetchType
<1>9. Ends(f) => Applied'
  BY <1>7 DEF Applied
<1>10. CASE Create(f)
  BY <1>6, <1>8, <1>9, <1>10 DEF Create
<1>11. CASE Download(f)
  BY <1>6, <1>8, <1>9, <1>11 DEF Download
<1>12. CASE DownloadFails(f)
  BY <1>6, <1>9, <1>12 DEF DownloadFails
<1>13. CASE Verify(f)
  <2>1. CASE Goto(f, "apply") /\ UNCHANGED upd /\ Whole(upd)
    <3>1. Whole(upd)'
      BY <2>1 DEF Whole
    <3> QED BY <1>6, <1>8, <1>13, <2>1, <3>1 DEF Verify
  <2>2. CASE fetch' = [fetch EXCEPT ![f] = [NoFetch EXCEPT !.pc = "create"]]
    <3>1. fetch'[f].pc = "create" /\ \A g \in Fetchers : g # f => fetch'[g].pc = "idle"
      BY <1>2, <1>5, <2>2 DEF NoFetch
    <3>2. Applied'
      BY <3>1 DEF Applied
    <3> QED BY <1>6, <1>13, <3>2 DEF Verify
  <2> QED BY <1>6, <1>9, <1>13, <2>1, <2>2 DEF Verify
<1>14. CASE ApplyRestart(f)
  <2>1. Whole(upd)
    BY <1>14 DEF ApplyRestart, Good, Applied
  <2>2. \A g \in Fetchers : fetch'[g].pc = "idle"
    BY <1>2, <1>14, <2>1, UpdateAssumption DEF ApplyRestart, ServiceEnds, NoFetch, OfService
  <2>3. Whole(exe)' /\ Whole(upd)'
    <3>1. Whole(exe)'
      BY <1>4, <1>14, <2>1, WholeKept, FilesTyped DEF ApplyRestart, Whole
    <3>2. upd \in File
      BY <2>1, FilesTyped DEF Whole, MaybeFile
    <3>3. Whole([upd EXCEPT !.run = @ \union {"service"}])
      <4>1. [upd EXCEPT !.run = @ \union {"service"}] \in File
        BY <3>2 DEF File
      <4> QED BY <2>1, <3>2, <4>1, NoneAssumption DEF Whole, File
    <3> QED BY <1>14, <2>1, <3>1, <3>3 DEF ApplyRestart, Whole
  <2>4. service'.pc = "boot" /\ helper'.pc = "gone"
    BY <1>2, <1>14, <2>1 DEF ApplyRestart
  <2>5. tmp' # None => tmp'.by = {}
    BY <1>3, <1>14, <2>1, FilesTyped, VersionKept, ByKept DEF ApplyRestart
  <2>6. ~Stuck'
    BY <2>3, <2>4 DEF Stuck
  <2>7. Applied' /\ Booted' /\ Quiet'
    BY <2>2, <2>3, <2>5 DEF Applied, Booted, Quiet
  <2>8. Copied'
    BY <2>4 DEF Copied, Me, Procs
  <2> QED BY <2>6, <2>7, <2>8 DEF Good
<1>15. CASE Apply(f)
  <2>1. Whole(upd)
    BY <1>15 DEF Apply, Good, Applied
  <2>2. upd \in File
    BY <2>1, FilesTyped DEF Whole, MaybeFile
  <2>3. Whole([upd EXCEPT !.run = @ \union {"helper"}])
    <3>1. [upd EXCEPT !.run = @ \union {"helper"}] \in File
      BY <2>2 DEF File
    <3> QED BY <2>1, <2>2, <3>1, NoneAssumption DEF Whole, File
  <2>4. Whole(upd)'
    BY <1>15, <2>1, <2>3 DEF Apply, Whole
  <2>5. /\ helper'.pc = "boot" /\ service' = service /\ exe' = exe /\ tmp' = tmp
        /\ \A g \in Fetchers : fetch'[g].pc = "idle"
    BY <1>7, <1>15, <2>1 DEF Apply
  <2>6. ~Stuck'
    BY <1>4, <2>5 DEF Stuck, Whole
  <2>7. Applied' /\ Booted' /\ Quiet'
    BY <1>3, <2>4, <2>5 DEF Applied, Booted, Quiet
  <2>8. Copied'
    BY <1>2, <2>5 DEF Copied, Me, Procs, Installing
  <2> QED BY <2>6, <2>7, <2>8 DEF Good
<1> QED BY <1>10, <1>11, <1>12, <1>13, <1>14, <1>15 DEF FetchStep

LEMMA BootGood ==
    ASSUME TypeOK, Alone, Good, NEW p \in Procs, BootStep(p)
    PROVE  Good'
<1> USE DEF given, disk
<1>1. Me(p).pc \in Installing
  BY DEF BootStep, BootInstalled, BootOrphaned, BootDownloaded, Copy, Rename, Execute, Installing
<1>2. /\ \A f \in Fetchers : fetch[f].pc = "idle"
      /\ \A q \in Procs : q # p => Me(q).pc \notin Installing
  BY <1>1, OnlyProc
<1>3. Applied'
  BY <1>2 DEF BootStep, BootInstalled, BootOrphaned, BootDownloaded, Copy, Rename, Execute, Applied
<1>4. Whole(exe) /\ service.pc # "deaf" /\ ~(service.pc = "run" /\ service.img = "upd")
  BY DEF Good, Stuck
<1>5. Me(p).pc # "copy" /\ tmp # None => tmp.by = {}
  BY <1>2 DEF Good, Quiet, Installing
<1> DEFINE Fit == /\ Me(p)'.pc = "boot" /\ Me(p)'.img = "upd" /\ upd' # None => Whole(upd)'
                  /\ Me(p)'.pc = "copy" => tmp' # None /\ tmp'.ok /\ tmp'.by \subseteq {p}
                  /\ Me(p)'.pc = "rename" => Whole(tmp)'
                  /\ tmp' # None /\ Me(p)'.pc # "copy" => tmp'.by = {}
                  /\ p = "service" => ~(Me(p)'.pc = "run" /\ Me(p)'.img = "upd")
                  /\ Me(p)'.pc # "deaf"
\* It is enough to look at the process that moves.
<1>6. ASSUME Whole(exe)', NEW s, Becomes(p, s), Fit PROVE Good'
  <2>1. \A q \in Procs : q # p => Me(q)' = Me(q)
    BY <1>6, BecomesMe
  <2>2. Booted' /\ Copied'
    BY <1>2, <1>6, <2>1 DEF Booted, Copied, Installing
  <2>3. Quiet'
    BY <1>6 DEF Quiet
  <2>4. ~Stuck'
    <3>1. CASE p = "service"
      BY <1>6, <3>1 DEF Stuck, Me
    <3>2. CASE p = "helper"
      BY <1>4, <1>6, <3>2 DEF Stuck, Becomes
    <3> QED BY <3>1, <3>2 DEF Procs
  <2> QED BY <1>3, <2>2, <2>3, <2>4 DEF Good
<1> DEFINE gone == IF p = "service" THEN [service EXCEPT !.pc = "run"] ELSE Gone
           new == [pc |-> "boot", img |-> "exe", v |-> exe.v]
<1>7. /\ gone.pc \in {"run", "gone"}
      /\ p = "service" => gone.img = service.img
      /\ new.pc = "boot" /\ new.img = "exe"
  BY TypeIs DEF StepType, ProcType, Gone
<1>8. /\ GoesOn(p) => Becomes(p, gone) /\ Me(p)' = gone
      /\ Finishes(p) => Becomes(p, new) /\ Me(p)' = new
  BY <1>4, BecomesMe DEF GoesOn, Finishes
<1>9. ASSUME NEW pc, Becomes(p, [Me(p) EXCEPT !.pc = pc])
      PROVE  Me(p)'.pc = pc /\ Me(p)'.img = Me(p).img
  <2>1. Me(p)' = [Me(p) EXCEPT !.pc = pc]
    BY <1>9, BecomesMe
  <2> QED BY <2>1, TypeIs DEF Me, StepType, ProcType, HelperType
<1>10. CASE BootInstalled(p)
  <2>1. Whole(exe)' /\ Becomes(p, gone) /\ Me(p)' = gone /\ upd' = None /\ tmp' = tmp
    BY <1>4, <1>8, <1>10 DEF BootInstalled, Whole
  <2>2. p = "service" => service.img = "exe"
    BY <1>10 DEF BootInstalled, Me
  <2> HIDE DEF gone
  <2>3. Me(p)'.pc \in {"run", "gone"} /\ (p = "service" => Me(p)'.img = "exe")
    BY <1>7, <2>1, <2>2
  <2>4. Fit
    BY <1>5, <1>10, <2>1, <2>3 DEF BootInstalled
  <2> QED BY <1>6, <2>1, <2>4
<1>11. CASE BootOrphaned(p)
  <2>1. Whole(exe)' /\ Becomes(p, new) /\ Me(p)' = new /\ tmp' = tmp
    BY <1>4, <1>8, <1>11 DEF BootOrphaned, Whole
  <2> HIDE DEF new
  <2>2. Fit
    BY <1>5, <1>7, <1>11, <2>1 DEF BootOrphaned
  <2> QED BY <1>6, <2>1, <2>2
<1>12. CASE BootDownloaded(p)
  <2>1. Whole(upd)
    BY <1>12 DEF BootDownloaded, Good, Booted
  <2>2. upd.v \in Version
    BY <2>1, FilesTyped DEF Whole, MaybeFile, File
  <2> DEFINE t == Truncated(tmp, upd.v, p)
  <2>3. t \in File /\ t.ok /\ t.by = {p}
    BY <1>5, <1>12, <2>2, FilesTyped, TruncatedType, TruncatedWhole DEF BootDownloaded, Actors
  <2>4. tmp' = [t EXCEPT !.ok = @ /\ Whole(upd)] /\ exe' = exe
    BY <1>12 DEF BootDownloaded
  <2> HIDE DEF t
  <2>5. tmp' # None /\ tmp'.ok /\ tmp'.by = {p}
    BY <2>1, <2>3, <2>4, NoneAssumption DEF File
  <2>6. Me(p)'.pc = "copy"
    BY <1>9, <1>12 DEF BootDownloaded
  <2>7. Fit
    BY <2>5, <2>6
  <2> QED BY <1>4, <1>6, <1>12, <2>4, <2>7 DEF BootDownloaded, Whole
<1>13. CASE Copy(p)
  <2>1. tmp # None /\ tmp.ok /\ tmp.by \subseteq {p} /\ tmp \in MaybeFile
    BY <1>13, FilesTyped DEF Copy, Good, Copied
  <2>2. Whole(Written(tmp, p))
    BY <2>1, ByKept, VersionKept DEF Whole
  <2>3. Whole(exe)' /\ Whole(tmp)'
    BY <1>4, <1>13, <2>2, FilesTyped, WholeKept DEF Copy, Whole
  <2>4. Me(p)'.pc = "rename"
    BY <1>9, <1>13, <2>1 DEF Copy
  <2>5. Fit
    BY <2>3, <2>4 DEF Whole
  <2> QED BY <1>6, <1>13, <2>1, <2>3, <2>5 DEF Copy
<1>14. CASE Rename(p)
  <2>1. Whole(tmp) /\ tmp # None
    BY <1>14 DEF Rename, Good, Copied, Whole
  <2>2. Whole(exe)' /\ tmp' = None
    BY <1>14, <2>1 DEF Rename, Whole
  <2>3. Me(p)'.pc = "exec"
    BY <1>9, <1>14, <2>1 DEF Rename
  <2>4. Fit
    BY <2>2, <2>3
  <2> QED BY <1>6, <1>14, <2>1, <2>2, <2>4 DEF Rename
<1>15. CASE Execute(p)
  <2>1. Whole(exe)' /\ Becomes(p, new) /\ Me(p)' = new /\ tmp' \in {tmp, None}
    BY <1>4, <1>8, <1>15 DEF Execute, Whole
  <2>2. Me(p).pc # "copy"
    BY <1>15 DEF Execute
  <2> HIDE DEF new
  <2>3. Fit
    BY <1>5, <1>7, <2>1, <2>2
  <2> QED BY <1>6, <2>1, <2>3
<1> QED BY <1>10, <1>11, <1>12, <1>13, <1>14, <1>15 DEF BootStep

LEMMA CrashGood ==
    ASSUME TypeOK, Alone, Good, NEW p \in Procs \union (Fetchers \ OfService), Crash(p)
    PROVE  Good'
<1>1. PICK P : /\ Exits(P) /\ p \in P
               /\ P \in {{"service"} \union OfService, {"helper"}, {p}}
               /\ p \in Procs => Me(p)'.pc = "gone"
               /\ \A q \in Procs : q # p => Me(q)' = Me(q)
               /\ \A f \in Fetchers : fetch'[f].pc = "idle" \/ fetch'[f] = fetch[f]
  <2>1. fetch \in [Fetchers -> FetchType] /\ \A f \in Fetchers : f \notin Procs
    BY TypeIs, UpdateAssumption DEF StepType, Procs
  <2>2. CASE p = "service"
    BY <2>1, <2>2 DEF Crash, Procs, Me, Gone, ServiceEnds, NoFetch
  <2>3. CASE p = "helper"
    BY <2>1, <2>3 DEF Crash, Procs, Me, Gone
  <2>4. CASE p \in Fetchers \ OfService
    BY <2>1, <2>4 DEF Crash, Procs, Me, Ends, NoFetch
  <2> QED BY <2>2, <2>3, <2>4 DEF Procs
<1>2. Whole(exe)'
  BY <1>1, FilesTyped, WholeKept DEF Exits, Good, Stuck, Whole
<1>3. ASSUME Whole(upd) PROVE Whole(upd)'
  BY <1>1, <1>3, FilesTyped, WholeKept DEF Exits, Whole
<1>4. ASSUME Whole(tmp) PROVE Whole(tmp)'
  BY <1>1, <1>4, FilesTyped, WholeKept DEF Exits, Whole
<1>5. (upd' # None <=> upd # None) /\ (tmp' # None <=> tmp # None)
  BY <1>1, FilesTyped, VersionKept DEF Exits
<1>6. Applied'
  BY <1>1, <1>3 DEF Good, Applied
<1>7. Booted'
  BY <1>1, <1>3, <1>5 DEF Good, Booted
<1>8. tmp # None => tmp'.by = tmp.by \ P /\ (tmp.ok /\ tmp.by \intersect P = {} => tmp'.ok)
  BY <1>1, FilesTyped, ByKept DEF Exits
<1>9. ASSUME NEW q \in Procs, Me(q)'.pc = "copy" PROVE tmp' # None /\ tmp'.ok /\ tmp'.by \subseteq {q}
  <2>1. q # p /\ Me(q).pc = "copy"
    BY <1>1, <1>9
  <2>2. tmp # None /\ tmp.ok /\ tmp.by \subseteq {q}
    BY <2>1 DEF Good, Copied
  <2>3. q \notin P
    BY <1>1, <2>1 DEF OfService, Procs
  <2> QED BY <1>5, <1>8, <2>2, <2>3
<1>10. Copied'
  BY <1>1, <1>4, <1>9 DEF Good, Copied
<1>11. Quiet'
  <2> SUFFICES ASSUME tmp' # None, \A q \in Procs : Me(q)'.pc # "copy" PROVE tmp'.by = {}
    BY DEF Quiet
  <2>1. CASE \A q \in Procs : Me(q).pc # "copy"
    BY <1>5, <1>8, <2>1 DEF Good, Quiet
  <2>2. CASE p \in Procs /\ Me(p).pc = "copy"
    BY <1>1, <1>5, <1>8, <2>2 DEF Good, Copied
  <2> QED BY <1>1, <2>1, <2>2
<1>12. ~Stuck'
  <2>1. p = "service" => service'.pc = "gone"
    BY <1>1 DEF Procs, Me
  <2>2. p # "service" => service' = service
    BY <1>1 DEF Procs, Me
  <2> QED BY <1>2, <2>1, <2>2 DEF Good, Stuck
<1> QED BY <1>6, <1>7, <1>10, <1>11, <1>12 DEF Good

LEMMA GoodNext == TypeOK /\ Alone /\ Good /\ Step => Good'
<1> SUFFICES ASSUME TypeOK, Alone, Good, Step PROVE Good'
  OBVIOUS
<1> USE DEF given, disk
<1>1. CASE Publish
  BY <1>1 DEF Publish, Good, Stuck, Applied, Booted, Copied, Quiet, Whole, Me
<1>2. CASE Start
  <2>1. service.pc = "gone" /\ service'.pc = "boot" /\ service'.img = "exe"
    BY <1>2 DEF Start
  <2> QED BY <1>2, <2>1
          DEF Start, Good, Stuck, Applied, Booted, Copied, Quiet, Whole, Me, Procs
<1>3. ASSUME NEW f \in Fetchers, Check(f) PROVE Good'
  <2>1. \A g \in Fetchers : fetch'[g].pc = "create" \/ fetch'[g] = fetch[g]
    BY <1>3, TypeIs DEF Check, FromFile, FromChannel, FromURL, Fetches, StepType
  <2>2. Applied'
    BY <1>3, <2>1 DEF Check, Good, Applied, Whole
  <2> QED BY <1>3, <2>2 DEF Check, Good, Stuck, Booted, Copied, Quiet, Whole, Me
<1> QED BY <1>1, <1>2, <1>3, FetchGood, BootGood, CrashGood DEF Step, Procs

LEMMA AloneInit == Init => AloneInv
<1> SUFFICES ASSUME Init PROVE AloneInv
  OBVIOUS
<1>1. service.pc = "gone" /\ helper.pc = "gone"
  BY DEF Init, Gone
<1>2. \A f \in Fetchers : fetch[f].pc = "idle"
  BY DEF Init, NoFetch
<1>3. Updates = {}
  BY <1>1, <1>2 DEF Updates, Installing
<1>4. Whole(exe)
  BY FilesTyped, TypeInit DEF Init, Whole
<1>5. tmp = None
  BY DEF Init
<1> QED BY <1>1, <1>2, <1>3, <1>4, <1>5
        DEF AloneInv, Alone, Stuck, Applied, Booted, Copied, Quiet, Me, Procs

LEMMA AloneNext == TypeOK /\ (met \/ AloneInv) /\ [Next]_vars => (met \/ AloneInv)'
<1> SUFFICES ASSUME TypeOK, met \/ AloneInv, [Next]_vars PROVE met' \/ AloneInv'
  OBVIOUS
<1>1. CASE UNCHANGED vars
  BY <1>1 DEF vars, AloneInv, Alone, Updates, Stuck, Applied, Booted, Copied, Quiet, Whole, Me
<1>2. CASE Next /\ ~met'
  <2>1. ~met /\ Alone'
    BY <1>2, MeetsAlone DEF Next
  <2>2. Good'
    BY <1>2, <2>1, GoodNext, AloneInvIs DEF Next
  <2> QED BY <2>1, <2>2 DEF AloneInv, Good
<1> QED BY <1>1, <1>2

(* Theorem: whatever dies when, and whichever download fails, the           *)
(* executable stays a complete file and the agent neither ends up deaf nor  *)
(* serves from the downloaded file, as long as one update is under way at a *)
(* time (CheckUpdateBinary, snclient.go 1138-1201, and ApplyRestart,        *)
(* task_updates.go 829-879).                                                *)
THEOREM CrashesNeverStick == Spec => []NeverStuckAlone
<1>1. (met \/ AloneInv) => NeverStuckAlone
  BY DEF AloneInv, NeverStuckAlone
<1> QED BY <1>1, AloneInit, AloneNext, TypeInit, TypeNext, PTL DEF Spec
----------------------------------------------------------------------------
(* What replaces the executable.                                            *)

LEMMA Numbers ==
    ASSUME TypeOK
    PROVE  /\ exe.v \in Nat /\ exe.v \in Version /\ offer \in Nat /\ offer \in Version
           /\ \A v \in Version : v \in Nat
           /\ upd # None => upd \in File /\ upd.v \in Version
           /\ tmp # None => tmp \in File /\ tmp.v \in Version
           /\ \A f \in Fetchers : fetch[f].v # None => fetch[f].v \in Version
<1>1. StepType
  BY TypeIs
<1>2. \A v \in Version : v \in Nat
  BY UpdateAssumption DEF Version
<1>3. offer \in Version /\ exe \in File /\ upd \in MaybeFile /\ tmp \in MaybeFile
      /\ fetch \in [Fetchers -> FetchType]
  BY <1>1 DEF StepType
<1>4. \A x \in File : x.v \in Version
  BY DEF File
<1>5. \A f \in Fetchers : fetch[f].v # None => fetch[f].v \in Version
  <2> SUFFICES ASSUME NEW f \in Fetchers PROVE fetch[f].v \in Version \union {None}
    OBVIOUS
  <2>1. fetch[f] \in FetchType
    BY <1>3
  <2> QED BY <2>1 DEF FetchType
<1>6. \A x \in MaybeFile : x # None => x \in File
  BY DEF MaybeFile
<1> QED BY <1>2, <1>3, <1>4, <1>5, <1>6

LEMMA OfferIsRight ==
    ASSUME TypeOK, InOrder PROVE Right(offer)
<1>1. offer \in Nat
  BY Numbers
<1>2. exe.v <= offer \/ exe.v \in wished
  BY DEF InOrder, Offered
<1> QED BY <1>1, <1>2 DEF Right, Offered

\* What may replace the executable may do so until it is replaced.
LEMMA RightKept ==
    ASSUME TypeOK, offer' \in Version, offer <= offer', wished \subseteq wished', exe'.v = exe.v,
           NEW v \in Version
    PROVE  /\ Offered(v) => Offered(v)'
           /\ Right(v) => Right(v)'
<1>1. offer' \in Nat /\ v \in Nat
  BY UpdateAssumption DEF Version
<1> QED BY <1>1, Numbers DEF Right, Offered

\* A step after which the same files, or none, are on their way.
LEMMA InOrderKept ==
    ASSUME TypeOK, InOrder, offer' \in Version, offer <= offer', wished \subseteq wished',
           exe'.v = exe.v,
           tmp' # None => tmp # None /\ tmp'.v = tmp.v,
           upd' # None => upd # None /\ upd'.v = upd.v,
           \A f \in Fetchers :
               \/ fetch'[f].pc = fetch[f].pc /\ fetch'[f].v = fetch[f].v
               \/ fetch'[f].pc = "idle"
               \/ fetch'[f].pc = "create" /\ (fetch'[f].v # None => Right(fetch[f].v)')
               \/ /\ fetch[f].pc \in {"download", "verify", "apply"}
                  /\ fetch'[f].pc \in {"download", "verify", "apply"},
           \A p \in Procs :
               \/ Me(p)' = Me(p)
               \/ Me(p)'.pc \notin {"boot", "copy", "rename"}
               \/ Me(p)'.pc = "boot" /\ Me(p)'.img = "exe"
               \/ /\ Me(p)'.pc = "boot"
                  /\ \E f \in Fetchers : fetch[f].pc = "apply"
               \/ Me(p)'.pc = "rename" /\ Me(p).pc = "copy"
    PROVE  InOrder'
<1>1. \A v \in Version : (Offered(v) => Offered(v)') /\ (Right(v) => Right(v)')
  BY RightKept
<1>2. Offered(exe.v)'
  <2>1. Offered(exe.v)'
    BY <1>1, Numbers DEF InOrder
  <2> QED BY <2>1
<1>3. upd' # None /\ Right(upd.v) => Right(upd.v)'
  <2>1. upd' # None => upd'.v = upd.v /\ upd.v \in Version
    BY Numbers
  <2>2. upd' # None /\ Right(upd.v) => Right(upd.v)'
    BY <1>1, <2>1
  <2> QED BY <2>1, <2>2 DEF Right, Offered
<1>4. tmp' # None /\ Right(tmp.v) => Right(tmp.v)'
  <2>1. tmp' # None => tmp'.v = tmp.v /\ tmp.v \in Version
    BY Numbers
  <2>2. tmp' # None /\ Right(tmp.v) => Right(tmp.v)'
    BY <1>1, <2>1
  <2> QED BY <2>1, <2>2 DEF Right, Offered
<1>5. ASSUME NEW f \in Fetchers, fetch'[f].pc = "create", fetch'[f].v # None
      PROVE  Right(fetch[f].v)'
  <2>1. CASE fetch'[f].pc = fetch[f].pc /\ fetch'[f].v = fetch[f].v
    <3>1. fetch[f].v \in Version /\ Right(fetch[f].v)
      BY <1>5, <2>1, Numbers DEF InOrder
    <3>2. \A v \in Version : Right(v) => Right(v)'
      BY <1>1
    <3>3. PICK w \in Version : w = fetch[f].v
      BY <3>1
    <3>4. Right(w)
      BY <3>1, <3>3
    <3>5. Right(w)'
      BY <3>2, <3>4
    <3> QED BY <2>1, <3>3, <3>5 DEF Right, Offered
  <2>2. CASE fetch'[f].pc = "create" /\ (fetch'[f].v # None => Right(fetch[f].v)')
    BY <1>5, <2>2
  <2> QED BY <1>5, <2>1, <2>2
<1>6. ASSUME NEW f \in Fetchers, fetch'[f].pc \in {"download", "verify", "apply"}, upd' # None
      PROVE  Right(upd.v)'
  <2>1. fetch[f].pc \in {"download", "verify", "apply"}
    BY <1>6
  <2> QED BY <1>3, <1>6, <2>1 DEF InOrder
<1>7. ASSUME NEW p \in Procs, Me(p)'.pc = "boot", Me(p)'.img = "upd", upd' # None
      PROVE  Right(upd.v)'
  <2>1. upd # None
    BY <1>7
  <2>2. Right(upd.v)
    BY <1>7, <2>1 DEF InOrder
  <2> QED BY <1>3, <1>7, <2>2
<1>8. ASSUME NEW p \in Procs, Me(p)'.pc \in {"copy", "rename"}, tmp' # None
      PROVE  Right(tmp.v)'
  <2>1. tmp # None /\ Me(p).pc \in {"copy", "rename"}
    BY <1>8
  <2>2. Right(tmp.v)
    BY <2>1 DEF InOrder
  <2> QED BY <1>4, <1>8, <2>2
<1> QED BY <1>2, <1>5, <1>6, <1>7, <1>8 DEF InOrder

LEMMA CheckOrder ==
    ASSUME TypeOK, InOrder, NEW f \in Fetchers, Check(f)
    PROVE  InOrder' /\ exe'.v = exe.v
<1> USE DEF given, disk
<1>1. PICK w \in Wish :
        /\ FromFile(f, w) \/ FromChannel(f, w) \/ FromURL(f, w)
        /\ wished' = IF w.kind \in {"file", "version"} THEN wished \union {w.v} ELSE wished
  BY UpdateAssumption DEF Check, Newer, Wish, Version
<1>2. /\ UNCHANGED <<offer, exe, upd, tmp, service, helper>> /\ wished \subseteq wished'
      /\ offer <= offer'
  BY <1>1, Numbers DEF Check
<1>3. w.v \in Version
  BY <1>1, UpdateAssumption DEF Wish, Version
<1>4. Right(offer)'
  BY <1>2, OfferIsRight, RightKept, Numbers
<1>5. ASSUME w.kind \in {"file", "version"} PROVE Right(w.v)'
  BY <1>1, <1>5 DEF Right, Offered
<1>6. /\ \A g \in Fetchers : g # f => fetch'[g] = fetch[g]
      /\ fetch'[f].pc = "create"
      /\ fetch'[f].v # None => Right(fetch[f].v)'
  <2>0. fetch \in [Fetchers -> FetchType]
    BY TypeIs DEF StepType
  <2>1. CASE FromFile(f, w)
    <3>1. fetch'[f].v = w.v
      BY <2>0, <2>1 DEF FromFile, Fetches
    <3>2. Right(fetch[f].v)'
      BY <1>5, <2>1, <3>1 DEF FromFile, Right, Offered
    <3> QED BY <2>0, <2>1, <3>2 DEF FromFile, Fetches
  <2>2. CASE FromChannel(f, w)
    <3>1. fetch'[f].v = Best(w)
      BY <2>0, <2>2 DEF FromChannel, Fetches
    <3>2. Best(w) = offer' \/ (Best(w) = w.v /\ w.kind = "version")
      BY <1>2 DEF Best
    <3>3. Right(fetch[f].v)'
      BY <1>4, <1>5, <3>1, <3>2 DEF Right, Offered
    <3> QED BY <2>0, <2>2, <3>3 DEF FromChannel, Fetches
  <2>3. CASE FromURL(f, w)
    BY <2>0, <2>3 DEF FromURL, Fetches
  <2> QED BY <1>1, <2>1, <2>2, <2>3
<1>7. \A p \in Procs : Me(p)' = Me(p)
  BY <1>2 DEF Me
<1> QED BY <1>2, <1>6, <1>7, InOrderKept, Numbers

LEMMA FetchOrder ==
    ASSUME TypeOK, Alone, InOrder, NEW f \in Fetchers, FetchStep(f) \/ DownloadFails(f)
    PROVE  InOrder' /\ exe'.v = exe.v
<1> USE DEF given, disk
<1>1. fetch[f].pc # "idle"
  BY DEF FetchStep, DownloadFails, Create, Download, Verify, ApplyRestart, Apply
<1>2. /\ \A g \in Fetchers : g # f => fetch[g].pc = "idle"
      /\ \A p \in Procs : Me(p).pc \notin Installing
  BY <1>1, OnlyFetch
<1>3. fetch \in [Fetchers -> FetchType] /\ offer' = offer /\ wished' = wished /\ offer <= offer'
      /\ offer' \in Version
  BY TypeIs, Numbers
     DEF StepType, FetchStep, DownloadFails, Create, Download, Verify, ApplyRestart, Apply
\* The steps that leave the processes alone and the version of the file.
<1>4. ASSUME UNCHANGED <<exe, tmp, service, helper>>, upd' # None => upd # None /\ upd'.v = upd.v,
             \/ Ends(f)
             \/ fetch' = [fetch EXCEPT ![f] = [NoFetch EXCEPT !.pc = "create"]]
             \/ /\ fetch[f].pc \in {"download", "verify", "apply"}
                /\ Goto(f, "verify") \/ Goto(f, "apply")
      PROVE  InOrder' /\ exe'.v = exe.v
  <2>1. \A p \in Procs : Me(p)' = Me(p)
    BY <1>4 DEF Me
  <2>2. \A g \in Fetchers : g # f => fetch'[g] = fetch[g]
    BY <1>3, <1>4 DEF Ends, Goto
  <2>3. \/ fetch'[f].pc = "idle"
        \/ fetch'[f].pc = "create" /\ fetch'[f].v = None
        \/ /\ fetch[f].pc \in {"download", "verify", "apply"}
           /\ fetch'[f].pc \in {"download", "verify", "apply"}
    BY <1>3, <1>4 DEF Ends, Goto, NoFetch, FetchType
  <2> QED BY <1>3, <1>4, <2>1, <2>2, <2>3, InOrderKept
<1>5. CASE Create(f)
  <2>1. CASE Ends(f) /\ UNCHANGED upd
    BY <1>4, <1>5, <2>1 DEF Create
  <2>2. CASE Goto(f, "download") /\ upd' = Truncated(upd, Target(f), f)
    <3>1. Target(f) \in Version /\ Right(Target(f))
      BY <1>5, TargetType, OfferIsRight DEF Create, Target, InOrder
    <3>2. upd' # None /\ upd'.v = Target(f)
      BY <2>2, <3>1, VersionTruncated, FilesTyped DEF Actors
    <3>3. UNCHANGED <<exe, tmp, service, helper>>
      BY <1>5 DEF Create
    <3>4. Right(upd.v)' /\ Offered(exe.v)'
      BY <1>3, <3>1, <3>2, <3>3 DEF Right, Offered, InOrder
    <3>5. \A g \in Fetchers : fetch'[g].pc # "create"
      BY <1>2, <1>3, <2>2 DEF Goto, FetchType
    <3>6. \A p \in Procs : Me(p)'.pc \notin {"boot", "copy", "rename"}
      BY <1>2, <3>3 DEF Me, Installing
    <3> QED BY <3>3, <3>4, <3>5, <3>6 DEF InOrder
  <2> QED BY <1>5, <2>1, <2>2 DEF Create
<1>6. CASE Download(f)
  BY <1>4, <1>6, FilesTyped, VersionKept DEF Download
<1>7. CASE DownloadFails(f)
  BY <1>4, <1>7, FilesTyped, VersionKept DEF DownloadFails
<1>8. CASE Verify(f)
  BY <1>4, <1>8 DEF Verify
<1>9. CASE ApplyRestart(f)
  <2>1. CASE Whole(upd)
    <3>1. upd' # None => upd # None /\ upd'.v = upd.v
      BY <1>9, <2>1, FilesTyped DEF ApplyRestart, Whole, MaybeFile, File
    <3>2. exe'.v = exe.v /\ (tmp' # None => tmp # None /\ tmp'.v = tmp.v)
      BY <1>9, <2>1, FilesTyped, VersionKept DEF ApplyRestart
    <3>3. \A g \in Fetchers : fetch'[g] = fetch[g] \/ fetch'[g].pc = "idle"
      BY <1>9, <2>1 DEF ApplyRestart, ServiceEnds, NoFetch
    <3>4. \A p \in Procs : Me(p)' = Me(p) \/ (Me(p)'.pc = "boot" /\ fetch[f].pc = "apply")
      BY <1>9, <2>1 DEF ApplyRestart, Me
    <3> QED BY <1>3, <3>1, <3>2, <3>3, <3>4, InOrderKept
  <2>2. CASE ~Whole(upd)
    <3>1. UNCHANGED disk
      BY <1>9, <2>2 DEF ApplyRestart
    <3>2. \A g \in Fetchers : fetch'[g] = fetch[g] \/ fetch'[g].pc = "idle"
      BY <1>3, <1>9, <2>2 DEF ApplyRestart, Ends, NoFetch
    <3>3. \A p \in Procs : Me(p)' = Me(p) \/ Me(p)'.pc = "deaf"
      BY <1>9, <2>2, TypeIs DEF ApplyRestart, Me, StepType, ProcType
    <3> QED BY <1>3, <3>1, <3>2, <3>3, InOrderKept
  <2> QED BY <2>1, <2>2
<1>10. CASE Apply(f)
  <2>1. upd' # None => upd # None /\ upd'.v = upd.v
    BY <1>10, FilesTyped DEF Apply, Whole, MaybeFile, File
  <2>2. UNCHANGED <<exe, tmp>>
    BY <1>10 DEF Apply
  <2>3. \A g \in Fetchers : fetch'[g] = fetch[g] \/ fetch'[g].pc = "idle"
    BY <1>3, <1>10 DEF Apply, Ends, NoFetch
  <2>4. \A p \in Procs : Me(p)' = Me(p) \/ (Me(p)'.pc = "boot" /\ fetch[f].pc = "apply")
    BY <1>10 DEF Apply, Me
  <2> QED BY <1>3, <2>1, <2>2, <2>3, <2>4, InOrderKept
<1> QED BY <1>5, <1>6, <1>7, <1>8, <1>9, <1>10 DEF FetchStep

\* The fall of the version that a step may bring about.
Asked == exe.v <= exe'.v \/ exe'.v \in wished \/ exe.v \in wished

LEMMA BootOrder ==
    ASSUME TypeOK, Alone, InOrder, NEW p \in Procs, BootStep(p)
    PROVE  InOrder' /\ Asked
<1> USE DEF given, disk
<1>1. Me(p).pc \in Installing
  BY DEF BootStep, BootInstalled, BootOrphaned, BootDownloaded, Copy, Rename, Execute, Installing
<1>2. /\ \A f \in Fetchers : fetch[f].pc = "idle"
      /\ \A q \in Procs : q # p => Me(q).pc \notin Installing
  BY <1>1, OnlyProc
<1>3. /\ fetch' = fetch /\ offer' = offer /\ wished' = wished /\ offer <= offer'
      /\ offer' \in Version
  BY Numbers DEF BootStep, BootInstalled, BootOrphaned, BootDownloaded, Copy, Rename, Execute
<1> DEFINE gone == IF p = "service" THEN [service EXCEPT !.pc = "run"] ELSE Gone
           new == IF Whole(exe) THEN [pc |-> "boot", img |-> "exe", v |-> exe.v] ELSE Gone
           Others == \A q \in Procs : q # p => Me(q)' = Me(q)
           Ended == Others /\ ( Me(p)'.pc \in {"run", "gone"}
                               \/ (Me(p)'.pc = "boot" /\ Me(p)'.img = "exe"))
<1>4. GoesOn(p) \/ Finishes(p) => Ended
  <2>1. gone.pc \in {"run", "gone"}
    BY TypeIs DEF StepType, ProcType, Gone
  <2>2. new.pc = "gone" \/ (new.pc = "boot" /\ new.img = "exe")
    BY DEF Gone
  <2>3. GoesOn(p) => Becomes(p, gone)
    BY DEF GoesOn
  <2>4. Finishes(p) => Becomes(p, new)
    BY DEF Finishes
  <2> HIDE DEF gone, new
  <2>5. GoesOn(p) => Me(p)' = gone /\ Others
    BY <2>3, BecomesMe
  <2>6. Finishes(p) => Me(p)' = new /\ Others
    BY <2>4, BecomesMe
  <2> QED BY <2>1, <2>2, <2>5, <2>6
<1>5. ASSUME NEW pc, Becomes(p, [Me(p) EXCEPT !.pc = pc]) PROVE Others /\ Me(p)'.pc = pc
  <2>1. Me(p)' = [Me(p) EXCEPT !.pc = pc] /\ Others
    BY <1>5, BecomesMe
  <2> QED BY <2>1, TypeIs DEF Me, StepType, ProcType, HelperType
\* The steps that leave the executable and what is on its way.
<1>6. ASSUME exe'.v = exe.v, tmp' # None => tmp # None /\ tmp'.v = tmp.v,
             upd' # None => upd # None /\ upd'.v = upd.v,
             Ended \/ (Others /\ Me(p).pc = "copy" /\ Me(p)'.pc = "rename")
                   \/ (Others /\ Me(p)'.pc = "exec")
      PROVE  InOrder' /\ Asked
  <2>1. Asked
    BY <1>6, Numbers DEF Asked
  <2>2. \A q \in Procs :
               \/ Me(q)' = Me(q)
               \/ Me(q)'.pc \notin {"boot", "copy", "rename"}
               \/ Me(q)'.pc = "boot" /\ Me(q)'.img = "exe"
               \/ Me(q)'.pc = "rename" /\ Me(q).pc = "copy"
    BY <1>6
  <2> QED BY <1>3, <1>6, <2>1, <2>2, InOrderKept
<1>7. CASE BootInstalled(p)
  BY <1>4, <1>6, <1>7 DEF BootInstalled
<1>8. CASE BootOrphaned(p)
  BY <1>4, <1>6, <1>8 DEF BootOrphaned
<1>9. CASE BootDownloaded(p)
  <2>1. upd \in File /\ upd.v \in Version /\ Right(upd.v) /\ exe' = exe /\ upd' = upd
    BY <1>9, Numbers DEF BootDownloaded, InOrder
  <2>2. Truncated(tmp, upd.v, p) \in File /\ Truncated(tmp, upd.v, p).v = upd.v
    BY <2>1, FilesTyped, TruncatedType, VersionTruncated DEF Actors
  <2>3. tmp' # None /\ tmp'.v = upd.v
    BY <1>9, <2>1, <2>2, NoneAssumption, BootStepType
       DEF BootDownloaded, StepType, MaybeFile, File
  <2>4. Others /\ Me(p)'.pc = "copy"
    BY <1>5, <1>9 DEF BootDownloaded
  <2>5. Right(tmp.v)' /\ Offered(exe.v)'
    BY <1>3, <2>1, <2>3 DEF Right, Offered, InOrder
  <2>6. \A q \in Procs : Me(q)'.pc # "boot"
    BY <1>2, <2>4 DEF Installing
  <2>7. InOrder'
    BY <1>2, <1>3, <2>5, <2>6 DEF InOrder
  <2>8. Asked
    BY <2>1, Numbers DEF Asked
  <2> QED BY <2>7, <2>8
<1>10. CASE Copy(p)
  <2>1. exe'.v = exe.v /\ (tmp' # None => tmp # None /\ tmp'.v = tmp.v) /\ upd' = upd
    BY <1>10, FilesTyped, VersionKept DEF Copy
  <2>2. Ended \/ (Others /\ Me(p).pc = "copy" /\ Me(p)'.pc = "rename")
    BY <1>4, <1>5, <1>10 DEF Copy
  <2> QED BY <1>6, <2>1, <2>2
<1>11. CASE Rename(p)
  <2>1. CASE tmp = None
    BY <1>4, <1>6, <1>11, <2>1 DEF Rename
  <2>2. CASE tmp # None
    <3>1. Right(tmp.v) /\ exe' = tmp /\ tmp.v \in Version
      BY <1>11, <2>2, Numbers DEF Rename, InOrder
    <3>2. Asked
      BY <3>1 DEF Asked, Right
    <3>3. Offered(exe.v)'
      BY <1>3, <3>1 DEF Right, Offered
    <3>4. Others /\ Me(p)'.pc = "exec"
      BY <1>5, <1>11, <2>2 DEF Rename
    <3>5. \A q \in Procs : Me(q)'.pc \notin {"boot", "copy", "rename"}
      BY <1>2, <3>4 DEF Installing
    <3>6. InOrder'
      BY <1>2, <1>3, <3>3, <3>5 DEF InOrder
    <3> QED BY <3>2, <3>6
  <2> QED BY <2>1, <2>2
<1>12. CASE Execute(p)
  <2>1. exe' = exe /\ tmp' \in {tmp, None} /\ (upd' # None => upd # None /\ upd'.v = upd.v)
    BY <1>12, FilesTyped, VersionKept DEF Execute
  <2> QED BY <1>4, <1>6, <1>12, <2>1 DEF Execute
<1> QED BY <1>7, <1>8, <1>9, <1>10, <1>11, <1>12 DEF BootStep

LEMMA CrashOrder ==
    ASSUME TypeOK, InOrder, NEW p \in Procs \union (Fetchers \ OfService), Crash(p)
    PROVE  InOrder' /\ exe'.v = exe.v
<1>1. PICK P : Exits(P)
  BY DEF Crash, Procs, Exits
<1>2. /\ exe'.v = exe.v
      /\ tmp' # None => tmp # None /\ tmp'.v = tmp.v
      /\ upd' # None => upd # None /\ upd'.v = upd.v
  BY <1>1, FilesTyped, VersionKept DEF Exits
<1>3. /\ offer' = offer /\ wished' = wished /\ offer <= offer' /\ offer' \in Version
  BY Numbers DEF Crash, given
<1>4. \A f \in Fetchers : fetch'[f].pc = "idle" \/ fetch'[f] = fetch[f]
  BY TypeIs DEF StepType, Crash, ServiceEnds, Ends, NoFetch
<1>5. \A q \in Procs : Me(q)' = Me(q) \/ Me(q)'.pc = "gone"
  BY DEF Crash, Procs, Me, Gone
<1> QED BY <1>2, <1>3, <1>4, <1>5, InOrderKept

LEMMA OrderNext ==
    TypeOK /\ Alone /\ InOrder /\ Step => InOrder' /\ Asked
<1> SUFFICES ASSUME TypeOK, Alone, InOrder, Step PROVE InOrder' /\ Asked
  OBVIOUS
<1>0. ASSUME exe'.v = exe.v PROVE Asked
  BY <1>0, Numbers DEF Asked
<1> USE DEF given, disk
<1>1. CASE Publish
  <2>1. offer' \in Version /\ offer <= offer'
    BY <1>1, Numbers, UpdateAssumption DEF Publish, Version
  <2>2. \A p \in Procs : Me(p)' = Me(p)
    BY <1>1 DEF Publish, Me
  <2> QED BY <1>0, <1>1, <2>1, <2>2, InOrderKept DEF Publish
<1>2. CASE Start
  <2>1. \A p \in Procs : Me(p)' = Me(p) \/ (Me(p)'.pc = "boot" /\ Me(p)'.img = "exe")
    BY <1>2 DEF Start, Me, Procs
  <2>2. offer' = offer /\ offer <= offer' /\ offer' \in Version
    BY <1>2, Numbers DEF Start
  <2> QED BY <1>0, <1>2, <2>1, <2>2, InOrderKept DEF Start
<1> QED BY <1>0, <1>1, <1>2, CheckOrder, FetchOrder, BootOrder, CrashOrder DEF Step, Procs

(* Theorem: only an administrator lowers the version of the executable: as  *)
(* long as one update is under way at a time, it is replaced by an older    *)
(* one only if somebody asked for the older one by name or by file, or had  *)
(* asked for the newer one, which the channel need not have; whatever is    *)
(* published, dies or is left over (CheckUpdates and chooseBestUpdate,      *)
(* task_updates.go 235-380; CheckUpdateBinary, snclient.go 1138-1201).      *)
THEOREM DowngradesAreAskedFor == Spec => DowngradesOnlyAsked
<1>1. Init => InOrder
  <2> SUFFICES ASSUME Init PROVE InOrder
    OBVIOUS
  <2>1. \A p \in Procs : Me(p).pc = "gone"
    BY DEF Init, Me, Gone
  <2>2. \A f \in Fetchers : fetch[f].pc = "idle"
    BY DEF Init, NoFetch
  <2>3. exe.v <= offer
    BY UpdateAssumption DEF Init
  <2> QED BY <2>1, <2>2, <2>3 DEF InOrder, Offered
<1>2. TypeOK /\ (met \/ (AloneInv /\ InOrder)) /\ [Next]_vars
      => (met \/ (AloneInv /\ InOrder))' /\ [met' \/ Asked]_vars
  <2> SUFFICES ASSUME TypeOK, met \/ (AloneInv /\ InOrder), [Next]_vars
               PROVE  (met' \/ (AloneInv /\ InOrder)') /\ (UNCHANGED vars \/ met' \/ Asked)
    OBVIOUS
  <2>1. CASE UNCHANGED vars
    <3>1. met' = met /\ (AloneInv => AloneInv')
      BY <2>1 DEF vars, AloneInv, Alone, Updates, Stuck, Applied, Booted, Copied, Quiet, Whole, Me
    <3>2. InOrder => InOrder'
      BY <2>1 DEF vars, InOrder, Right, Offered, Me
    <3> QED BY <2>1, <3>1, <3>2
  <2>2. CASE Next /\ ~met'
    <3>1. ~met /\ Alone'
      BY <2>2, MeetsAlone DEF Next
    <3>2. Alone /\ AloneInv /\ InOrder
      BY <3>1 DEF AloneInv
    <3>3. AloneInv'
      BY <2>2, <3>1, <3>2, AloneNext
    <3>4. InOrder' /\ Asked
      BY <2>2, <3>2, OrderNext DEF Next
    <3> QED BY <3>3, <3>4
  <2> QED BY <2>1, <2>2
<1>3. Init => AloneInv
  BY AloneInit
<1>4. [met' \/ Asked]_vars => [ met' \/ exe.v <= exe'.v \/ exe'.v \in wished \/ exe.v \in wished ]_vars
  BY DEF Asked
<1> QED BY <1>1, <1>2, <1>3, <1>4, TypeInit, TypeNext, PTL DEF Spec, DowngradesOnlyAsked
=============================================================================
