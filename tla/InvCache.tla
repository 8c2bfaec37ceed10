------------------------------ MODULE InvCache ------------------------------
(***************************************************************************)
(* The inventory cache.  InvCache.Get serves a fresh inventory from the    *)
(* cache; otherwise one caller builds it outside of the lock while the     *)
(* others wait on the condition variable.  buildInventory visits every     *)
(* check, and looks each name up again in the run set, which a reload may  *)
(* have replaced meanwhile.                                                *)
(*                                                                         *)
(* An inventory is represented by the time of its publication; a time of   *)
(* zero is the nil pointer of a cache that was never filled.               *)
(***************************************************************************)
EXTENDS Integers, FiniteSets

CONSTANTS
    Request,   \* goroutines that call Get
    Free,      \* nobody holds the mutex
    Alias,     \* names only a configuration defines: aliases and wraps
    FreshFor,  \* InventoryCacheDuration
    MaxNow,    \* bound: largest time
    MaxCalls   \* bound: calls of Get

ASSUME CacheAssumption ==
    /\ Free \notin Request
    /\ FreshFor \in Nat \ {0}
    /\ MaxNow \in Nat /\ MaxCalls \in Nat

VARIABLES
    mutex,     \* who holds InvCache.mutex
    updating,  \* InvCache.updating
    inv,       \* InvCache.inventory and lastUpdate
    runSet,    \* names in the run set's cmdAliases and cmdWraps
    now,       \* monotonic time
    calls,     \* number of calls of Get so far
    pc,        \* where each goroutine is
    todo,      \* names its buildInventory has not visited
    since,     \* time of its call
    got,       \* what Get returned
    failed     \* a build it waited for, or its own, panicked

vars == <<mutex, updating, inv, runSet, now, calls, pc, todo, since, got, failed>>
cacheVars == <<updating, inv>>
envVars == <<runSet, now, calls>>
callVars == <<todo, since, got, failed>>

Init ==
    /\ mutex = Free /\ updating = FALSE /\ inv = 0
    /\ runSet \in SUBSET Alias
    /\ now = 1 /\ calls = 0
    /\ pc = [r \in Request |-> "idle"]
    /\ todo = [r \in Request |-> {}]
    /\ since = [r \in Request |-> 0]
    /\ got = [r \in Request |-> 0]
    /\ failed = [r \in Request |-> FALSE]

Fresh == inv # 0 /\ now - inv < FreshFor

Goto(r, l) == pc' = [pc EXCEPT ![r] = l]

\* Broadcast: every waiter may go on once it gets the mutex.
Waiting == {q \in Request : pc[q] = "wait"}
WakeAll(r, l) ==
    pc' = [q \in Request |-> IF q = r THEN l
                             ELSE IF pc[q] = "wait" THEN "wake" ELSE pc[q]]

----------------------------------------------------------------------------
Call(r) ==
    /\ pc[r] = "idle" /\ calls < MaxCalls
    /\ calls' = calls + 1
    /\ Goto(r, "lock")
    /\ since' = [since EXCEPT ![r] = now]
    /\ got' = [got EXCEPT ![r] = 0]
    /\ failed' = [failed EXCEPT ![r] = FALSE]
    /\ UNCHANGED <<mutex, cacheVars, runSet, now, todo>>

Lock(r) ==
    /\ pc[r] = "lock" /\ mutex = Free
    /\ mutex' = r
    /\ Goto(r, "head")
    /\ UNCHANGED <<cacheVars, envVars, callVars>>

\* A plausible slip: whatever was built once is served.
ReturnCached(r) ==
    /\ pc[r] = "head" /\ inv # 0
    /\ got' = [got EXCEPT ![r] = inv]
    /\ Goto(r, "unlock")
    /\ UNCHANGED <<mutex, cacheVars, envVars, todo, since, failed>>

ReturnFresh(r) ==
    /\ pc[r] = "head" /\ Fresh
    /\ got' = [got EXCEPT ![r] = inv]
    /\ Goto(r, "unlock")
    /\ UNCHANGED <<mutex, cacheVars, envVars, todo, since, failed>>

\* Cond.Wait: enqueued before the mutex is released.
Wait(r) ==
    /\ pc[r] = "head" /\ ~Fresh /\ updating
    /\ mutex' = Free
    /\ Goto(r, "wait")
    /\ UNCHANGED <<cacheVars, envVars, callVars>>

\* Woken, but somebody builds again: the loop waits once more.
WaitAgain(r) ==
    /\ pc[r] = "wake" /\ mutex = Free /\ updating
    /\ Goto(r, "wait")
    /\ UNCHANGED <<mutex, cacheVars, envVars, callVars>>

WaitReturn(r) ==
    /\ pc[r] = "wake" /\ mutex = Free /\ ~updating
    /\ mutex' = r
    /\ got' = [got EXCEPT ![r] = inv]
    /\ Goto(r, "unlock")
    /\ UNCHANGED <<cacheVars, envVars, todo, since, failed>>

\* A plausible slip: nobody looks at the flag.
BuildAnyway(r) ==
    /\ pc[r] = "head" /\ ~Fresh
    /\ updating' = TRUE /\ mutex' = Free
    /\ todo' = [todo EXCEPT ![r] = runSet]
    /\ Goto(r, "build")
    /\ UNCHANGED <<inv, envVars, since, got, failed>>

BuildBegin(r) ==
    /\ pc[r] = "head" /\ ~Fresh /\ ~updating
    /\ updating' = TRUE /\ mutex' = Free
    /\ todo' = [todo EXCEPT ![r] = runSet]
    /\ Goto(r, "build")
    /\ UNCHANGED <<inv, envVars, since, got, failed>>

\* The next name is looked up; one that is gone from the run set has no
\* entry, and calling its Handler panics.
Visit(r, k) ==
    /\ pc[r] = "build" /\ k \in todo[r]
    /\ IF k \in runSet
       THEN todo' = [todo EXCEPT ![r] = @ \ {k}] /\ UNCHANGED pc
       ELSE Goto(r, "panic") /\ UNCHANGED todo
    /\ UNCHANGED <<mutex, cacheVars, envVars, since, got, failed>>

\* One of the checks itself panics.
CheckPanics(r) ==
    /\ pc[r] = "build"
    /\ Goto(r, "panic")
    /\ UNCHANGED <<mutex, cacheVars, envVars, callVars>>

Built(r) ==
    /\ pc[r] = "build" /\ todo[r] = {}
    /\ Goto(r, "publish")
    /\ UNCHANGED <<mutex, cacheVars, envVars, callVars>>

\* The lock again, the result, and the deferred Broadcast.
Publish(r) ==
    /\ pc[r] = "publish" /\ mutex = Free
    /\ mutex' = r /\ updating' = FALSE
    /\ inv' = now
    /\ got' = [got EXCEPT ![r] = now]
    /\ WakeAll(r, "unlock")
    /\ UNCHANGED <<envVars, todo, since, failed>>

\* A plausible slip: a panic leaves the waiters where they are.
RecoverSilently(r) ==
    /\ pc[r] = "panic" /\ mutex = Free
    /\ mutex' = r /\ updating' = FALSE
    /\ todo' = [todo EXCEPT ![r] = {}]
    /\ failed' = [failed EXCEPT ![r] = TRUE]
    /\ Goto(r, "unlock")
    /\ UNCHANGED <<inv, envVars, since, got>>

\* A plausible slip: the deferred function of a panic does not lock again.
RecoverUnlocked(r) ==
    /\ pc[r] = "panic" /\ mutex = Free
    /\ updating' = FALSE
    /\ todo' = [todo EXCEPT ![r] = {}]
    /\ failed' = [q \in Request |-> failed[q] \/ q = r \/ q \in Waiting]
    /\ WakeAll(r, "unlock")
    /\ UNCHANGED <<mutex, inv, envVars, since, got>>

\* The deferred function of a build that panics, which panics again.
Recover(r) ==
    /\ pc[r] = "panic" /\ mutex = Free
    /\ mutex' = r /\ updating' = FALSE
    /\ todo' = [todo EXCEPT ![r] = {}]
    /\ failed' = [q \in Request |-> failed[q] \/ q = r \/ q \in Waiting]
    /\ WakeAll(r, "unlock")
    /\ UNCHANGED <<inv, envVars, since, got>>

\* The deferred Unlock.  Go ends the process if the mutex is not locked.
Unlock(r) ==
    /\ pc[r] = "unlock"
    /\ mutex' = Free
    /\ Goto(r, "done")
    /\ UNCHANGED <<cacheVars, envVars, callVars>>

\* The caller has written its answer, or its panic handler has run.
Leave(r) ==
    /\ pc[r] = "done"
    /\ Goto(r, "idle")
    /\ UNCHANGED <<mutex, cacheVars, envVars, callVars>>

\* The last step of startModules: another run set.
Reload ==
    /\ runSet' \in SUBSET Alias
    /\ UNCHANGED <<mutex, cacheVars, now, calls, pc, callVars>>

Tick ==
    /\ now < MaxNow
    /\ now' = now + 1
    /\ UNCHANGED <<mutex, cacheVars, runSet, calls, pc, callVars>>

\* What the goroutine of request r does by itself.
Step(r) ==
    \/ Lock(r) \/ ReturnFresh(r) \/ Wait(r) \/ WaitAgain(r) \/ WaitReturn(r)
    \/ BuildBegin(r) \/ (\E k \in Alias : Visit(r, k)) \/ Built(r)
    \/ Publish(r) \/ Recover(r) \/ Unlock(r) \/ Leave(r)

Next ==
    \/ \E r \in Request : Call(r) \/ Step(r) \/ CheckPanics(r)
    \/ Reload \/ Tick

Spec == Init /\ [][Next]_vars

\* Goroutines that can go on do; sync.Mutex hands itself over to one that
\* has waited for long, so no goroutine is kept out of it for ever.
FairSpec == Spec /\ \A r \in Request : SF_vars(Step(r))
----------------------------------------------------------------------------
(* Properties.                                                             *)

Building == {r \in Request : pc[r] \in {"build", "publish", "panic"}}

\* The types of the variables.
TypeOK ==
    /\ mutex \in Request \union {Free}
    /\ updating \in BOOLEAN
    /\ inv \in Nat /\ now \in Nat /\ inv <= now
    /\ runSet \subseteq Alias
    /\ calls \in 0..MaxCalls
    /\ pc \in [Request -> {"idle", "lock", "head", "wait", "wake", "build",
                           "publish", "panic", "unlock", "done"}]
    /\ todo \in [Request -> SUBSET Alias]
    /\ since \in [Request -> Nat] /\ got \in [Request -> Nat]
    /\ failed \in [Request -> BOOLEAN]

\* However requests, panics and timeouts of the cache interleave, no two of
\* them build an inventory at the same time, and the flag tells.
AtMostOneBuild ==
    /\ \A q, r \in Building : q = r
    /\ updating <=> Building # {}

\* Exactly the goroutine in the critical section holds the mutex, on the
\* panic path too, so the deferred Unlock never hits an unlocked mutex.
LockHeld ==
    \A r \in Request : pc[r] \in {"head", "unlock"} <=> mutex = r

\* Nobody waits while nobody builds: no wake-up is lost, the one of a build
\* that panics included.
WaitersHaveBuilder == Waiting # {} => Building # {}

\* An answer is not older than the cache allows at the time of the call; it
\* may be older, or nil, only if a build the request waited for panicked.
ServedIsFresh ==
    \A r \in Request : pc[r] = "done" /\ ~failed[r] =>
        got[r] # 0 /\ got[r] > since[r] - FreshFor

\* Every call of Get comes back.
GetReturns == \A r \in Request : pc[r] = "lock" ~> pc[r] = "done"
=============================================================================
