--------------------------- MODULE InvCache_proofs ---------------------------
(***************************************************************************)
(* Safety of the inventory cache for any number of requests, names and     *)
(* calls.  The invariants of one step support each other, so they are      *)
(* proved together, as one inductive invariant:                            *)
(*                                                                         *)
(*  - CacheTypes: the types, and that time starts after zero;              *)
(*  - LockHeld:   the program counter of the mutex owner;                  *)
(*  - FlagTells:  AtMostOneBuild, which needs that a request can begin a   *)
(*                build only from the critical section;                    *)
(*  - Waiters:    a waiter has a builder, because both ways to end a build *)
(*                wake all waiters;                                        *)
(*  - AgeBound:   what a woken waiter and a leaving request know about the *)
(*                age of the inventory.                                    *)
(***************************************************************************)
EXTENDS InvCache, TLAPS

\* The types without the bound on the calls, which nothing else relies on.
CacheTypes ==
    /\ TypeOK
    /\ now # 0

\* The age of the inventory as the requests on their way out see it.
AgeBound ==
    \A r \in Request :
        /\ since[r] <= now
        /\ pc[r] = "wake" /\ ~failed[r] => inv # 0 /\ inv >= since[r]
        /\ pc[r] \in {"unlock", "done"} /\ ~failed[r] =>
              got[r] # 0 /\ got[r] > since[r] - FreshFor

IInv ==
    /\ CacheTypes
    /\ LockHeld
    /\ AtMostOneBuild
    /\ WaitersHaveBuilder
    /\ AgeBound

Local(r) ==
    \/ Lock(r) \/ ReturnFresh(r) \/ Wait(r) \/ WaitAgain(r) \/ WaitReturn(r)
    \/ BuildBegin(r) \/ (\E k \in Alias : Visit(r, k)) \/ Built(r)
    \/ Publish(r) \/ Recover(r) \/ Unlock(r) \/ Leave(r) \/ Call(r) \/ CheckPanics(r)

----------------------------------------------------------------------------
\* The initial states satisfy the inductive invariant.
LEMMA InitIInv == Init => IInv
<1> SUFFICES ASSUME Init PROVE IInv
  OBVIOUS
<1> USE CacheAssumption DEF Init
<1>1. Building = {} /\ Waiting = {}
  BY DEF Building, Waiting
<1>2. CacheTypes
  <2>1. failed \in [Request -> BOOLEAN]
    BY Zenon
  <2>2. now \in Nat /\ now # 0 /\ inv \in Nat /\ inv <= now /\ calls \in 0..MaxCalls
    OBVIOUS
  <2>3. updating \in BOOLEAN /\ todo \in [Request -> SUBSET Alias]
    OBVIOUS
  <2>4. since \in [Request -> Nat] /\ got \in [Request -> Nat]
    OBVIOUS
  <2>5. pc \in [Request -> {"idle", "lock", "head", "wait", "wake", "build",
                           "publish", "panic", "unlock", "done"}]
    OBVIOUS
  <2> QED BY <2>1, <2>2, <2>3, <2>4, <2>5 DEF CacheTypes, TypeOK
<1>3. LockHeld
  BY DEF LockHeld
<1>4. AgeBound
  BY DEF AgeBound
<1> QED
  BY <1>1, <1>2, <1>3, <1>4 DEF IInv, AtMostOneBuild, WaitersHaveBuilder

\* Every request that leaves the waiting room at once, and nobody else moves.
LEMMA WakeAllFacts ==
    ASSUME TypeOK, NEW r \in Request, NEW l, WakeAll(r, l)
    PROVE  /\ pc'[r] = l
           /\ \A q \in Request \ {r} :
                 /\ pc[q] = "wait" => pc'[q] = "wake"
                 /\ pc[q] # "wait" => pc'[q] = pc[q]
  BY DEF TypeOK, WakeAll

\* The same for a step that moves one request.
LEMMA GotoFacts ==
    ASSUME TypeOK, NEW r \in Request, NEW l, Goto(r, l)
    PROVE  /\ pc'[r] = l
           /\ \A q \in Request \ {r} : pc'[q] = pc[q]
  BY DEF TypeOK, Goto

\* Types are preserved by every step of a request.
LEMMA TypesStep ==
    ASSUME CacheTypes, NEW r \in Request, Local(r)
    PROVE  CacheTypes'
<1> USE CacheAssumption DEF CacheTypes, TypeOK
<1>1. CASE Call(r)
  BY <1>1 DEF Call, Goto, cacheVars
<1>2. CASE Lock(r) \/ Wait(r) \/ WaitAgain(r)
  BY <1>2 DEF Lock, Wait, WaitAgain, Goto, cacheVars, envVars, callVars
<1>3. CASE ReturnFresh(r) \/ WaitReturn(r)
  BY <1>3 DEF ReturnFresh, WaitReturn, Goto, cacheVars, envVars, callVars
<1>4. CASE BuildBegin(r)
  BY <1>4 DEF BuildBegin, Goto, cacheVars, envVars
<1>5. ASSUME NEW k \in Alias, Visit(r, k) PROVE CacheTypes'
  <2>1. CASE k \in runSet
    BY <1>5, <2>1 DEF Visit, cacheVars, envVars
  <2>2. CASE k \notin runSet
    BY <1>5, <2>2 DEF Visit, Goto, cacheVars, envVars
  <2> QED BY <2>1, <2>2
<1>6. CASE Built(r) \/ CheckPanics(r) \/ Unlock(r) \/ Leave(r)
  BY <1>6 DEF Built, CheckPanics, Unlock, Leave, Goto, cacheVars, envVars, callVars
<1>7. CASE Publish(r)
  <2>1. /\ mutex' = r /\ updating' = FALSE /\ inv' = now /\ WakeAll(r, "unlock")
        /\ got' = [got EXCEPT ![r] = now]
        /\ UNCHANGED <<runSet, now, calls, todo, since, failed>>
    BY <1>7 DEF Publish, envVars
  <2>2. pc' \in [Request -> {"idle", "lock", "head", "wait", "wake", "build",
                            "publish", "panic", "unlock", "done"}]
    BY <2>1 DEF WakeAll
  <2>3. failed' \in [Request -> BOOLEAN]
    BY <2>1
  <2>4. inv' \in Nat /\ now' \in Nat /\ inv' <= now' /\ now' # 0
    BY <2>1
  <2> QED BY <2>1, <2>2, <2>3, <2>4
<1>8. CASE Recover(r)
  <2>1. failed' \in [Request -> BOOLEAN]
    BY <1>8, Zenon DEF Recover
  <2> QED BY <1>8, <2>1 DEF Recover, WakeAll, envVars
<1> QED
  BY <1>1, <1>2, <1>3, <1>4, <1>5, <1>6, <1>7, <1>8 DEF Local

\* A request enters the critical section when the mutex is free and frees it
\* when it leaves, so the owner and the program counters agree.
LEMMA LockStep ==
    ASSUME TypeOK, LockHeld, NEW r \in Request, Local(r)
    PROVE  LockHeld'
<1> USE CacheAssumption DEF TypeOK, LockHeld
<1>1. CASE Call(r) \/ Lock(r) \/ ReturnFresh(r) \/ Wait(r)
  BY <1>1 DEF Call, Lock, ReturnFresh, Wait, Goto
<1>2. CASE WaitAgain(r) \/ WaitReturn(r) \/ BuildBegin(r)
  BY <1>2 DEF WaitAgain, WaitReturn, BuildBegin, Goto
<1>3. CASE \E k \in Alias : Visit(r, k)
  BY <1>3 DEF Visit, Goto
<1>4. CASE Built(r) \/ CheckPanics(r) \/ Unlock(r) \/ Leave(r)
  BY <1>4 DEF Built, CheckPanics, Unlock, Leave, Goto
<1>5. CASE Publish(r) \/ Recover(r)
  <2>1. WakeAll(r, "unlock") /\ mutex = Free /\ mutex' = r
    BY <1>5 DEF Publish, Recover
  <2> QED BY <2>1, WakeAllFacts
<1> QED
  BY <1>1, <1>2, <1>3, <1>4, <1>5 DEF Local

\* A build begins only while the flag is down, and the flag goes down only
\* with the one build there is.
LEMMA BuildStep ==
    ASSUME TypeOK, AtMostOneBuild, NEW r \in Request, Local(r)
    PROVE  AtMostOneBuild'
<1> USE DEF TypeOK, AtMostOneBuild, Building
<1>1. CASE Call(r) \/ Lock(r) \/ ReturnFresh(r) \/ Wait(r) \/ WaitAgain(r)
           \/ WaitReturn(r) \/ Unlock(r) \/ Leave(r)
  BY <1>1, GotoFacts
  DEF Call, Lock, ReturnFresh, Wait, WaitAgain, WaitReturn, Unlock, Leave, cacheVars
<1>2. CASE BuildBegin(r)
  BY <1>2, GotoFacts DEF BuildBegin
<1>3. CASE (\E k \in Alias : Visit(r, k)) \/ Built(r) \/ CheckPanics(r)
  <2>1. /\ r \in Building /\ r \in Building'
        /\ \A q \in Request \ {r} : pc'[q] = pc[q]
        /\ updating' = updating
    BY <1>3, GotoFacts DEF Visit, Built, CheckPanics, cacheVars
  <2> QED BY <2>1
<1>4. CASE Publish(r) \/ Recover(r)
  <2>1. r \in Building /\ updating' = FALSE /\ WakeAll(r, "unlock")
    BY <1>4 DEF Publish, Recover
  <2>2. \A q \in Request \ {r} : q \notin Building
    BY <2>1
  <2>3. Building' = {}
    BY <2>1, <2>2, WakeAllFacts
  <2> QED BY <2>1, <2>3
<1> QED
  BY <1>1, <1>2, <1>3, <1>4 DEF Local

\* Waiting begins only next to a build, and a build never ends quietly.
LEMMA WaitersStep ==
    ASSUME TypeOK, AtMostOneBuild, WaitersHaveBuilder, NEW r \in Request, Local(r)
    PROVE  WaitersHaveBuilder'
<1> USE DEF TypeOK, WaitersHaveBuilder, Waiting, Building
<1>1. CASE Call(r) \/ Lock(r) \/ ReturnFresh(r) \/ WaitReturn(r) \/ Unlock(r) \/ Leave(r)
  BY <1>1, GotoFacts DEF Call, Lock, ReturnFresh, WaitReturn, Unlock, Leave
<1>2. CASE Wait(r) \/ WaitAgain(r)
  <2>1. Building # {}
    BY <1>2 DEF Wait, WaitAgain, AtMostOneBuild
  <2>2. /\ r \notin Building
        /\ \A q \in Request \ {r} : pc'[q] = pc[q]
    BY <1>2, GotoFacts DEF Wait, WaitAgain
  <2> QED BY <2>1, <2>2
<1>3. CASE BuildBegin(r) \/ (\E k \in Alias : Visit(r, k)) \/ Built(r) \/ CheckPanics(r)
  <2>1. r \in Building'
    BY <1>3, GotoFacts DEF BuildBegin, Visit, Built, CheckPanics
  <2> QED BY <2>1
<1>4. CASE Publish(r) \/ Recover(r)
  <2>1. WakeAll(r, "unlock")
    BY <1>4 DEF Publish, Recover
  <2>2. Waiting' = {}
    BY <2>1, WakeAllFacts
  <2> QED BY <2>2
<1> QED
  BY <1>1, <1>2, <1>3, <1>4 DEF Local

\* Ages: the cache only gets younger, and a waiter is woken by a publication
\* after its call unless the build failed.
LEMMA AgeStep ==
    ASSUME CacheTypes, AgeBound, NEW r \in Request, Local(r)
    PROVE  AgeBound'
<1> USE CacheAssumption DEF CacheTypes, TypeOK, AgeBound
<1>1. CASE Call(r)
  BY <1>1, GotoFacts DEF Call, cacheVars
<1>2. CASE Lock(r) \/ Wait(r) \/ WaitAgain(r)
  BY <1>2, GotoFacts DEF Lock, Wait, WaitAgain, cacheVars, envVars, callVars
<1>3. CASE ReturnFresh(r)
  BY <1>3, GotoFacts DEF ReturnFresh, Fresh, cacheVars, envVars
<1>4. CASE WaitReturn(r)
  BY <1>4, GotoFacts DEF WaitReturn, cacheVars, envVars
<1>5. CASE BuildBegin(r)
  BY <1>5, GotoFacts DEF BuildBegin, envVars
<1>6. CASE (\E k \in Alias : Visit(r, k)) \/ Built(r) \/ CheckPanics(r)
  BY <1>6, GotoFacts DEF Visit, Built, CheckPanics, cacheVars, envVars, callVars
<1>7. CASE Publish(r)
  <2>1. /\ inv' = now /\ now' = now /\ since' = since /\ failed' = failed
        /\ got' = [got EXCEPT ![r] = now] /\ WakeAll(r, "unlock")
    BY <1>7 DEF Publish, envVars
  <2> QED BY <2>1, WakeAllFacts
<1>8. CASE Recover(r)
  <2>1. /\ inv' = inv /\ now' = now /\ since' = since /\ got' = got
        /\ WakeAll(r, "unlock")
    BY <1>8 DEF Recover, envVars
  <2>2. \A q \in Request : failed'[q] <=> (failed[q] \/ q = r \/ pc[q] = "wait")
    BY <1>8, Zenon DEF Recover, Waiting
  <2> QED BY <2>1, <2>2, WakeAllFacts
<1>9. CASE Unlock(r) \/ Leave(r)
  BY <1>9, GotoFacts DEF Unlock, Leave, cacheVars, envVars, callVars
<1> QED
  BY <1>1, <1>2, <1>3, <1>4, <1>5, <1>6, <1>7, <1>8, <1>9 DEF Local

\* The invariant is inductive.
LEMMA NextIInv == IInv /\ [Next]_vars => IInv'
<1> SUFFICES ASSUME IInv, [Next]_vars PROVE IInv'
  OBVIOUS
<1>1. ASSUME NEW r \in Request, Local(r) PROVE IInv'
  BY <1>1, TypesStep, LockStep, BuildStep, WaitersStep, AgeStep DEF IInv, CacheTypes
<1>2. CASE Reload
  BY <1>2 DEF Reload, IInv, CacheTypes, TypeOK, LockHeld, AtMostOneBuild, Building,
              WaitersHaveBuilder, Waiting, AgeBound, cacheVars, callVars
<1>3. CASE Tick
  BY <1>3 DEF Tick, IInv, CacheTypes, TypeOK, LockHeld, AtMostOneBuild, Building,
              WaitersHaveBuilder, Waiting, AgeBound, cacheVars, callVars
<1>4. CASE UNCHANGED vars
  BY <1>4 DEF vars, IInv, CacheTypes, TypeOK, LockHeld, AtMostOneBuild, Building,
              WaitersHaveBuilder, Waiting, AgeBound
<1> QED
  BY <1>1, <1>2, <1>3, <1>4 DEF Next, Step, Local

\* All states satisfy it.
THEOREM CacheInvariant == Spec => []IInv
  BY InitIInv, NextIInv, PTL DEF Spec

\* The variables keep their types; the cached inventory is never from the future.
THEOREM TypesHold == Spec => []TypeOK
<1>1. IInv => TypeOK
  BY DEF IInv, CacheTypes
<1> QED BY <1>1, CacheInvariant, PTL

\* InvCache.Get runs one build at a time, and its flag says so.
THEOREM SingleFlight == Spec => []AtMostOneBuild
<1>1. IInv => AtMostOneBuild
  BY DEF IInv
<1> QED BY <1>1, CacheInvariant, PTL

\* The deferred Unlock of Get always unlocks a mutex its caller holds.
THEOREM UnlockBalanced == Spec => []LockHeld
<1>1. IInv => LockHeld
  BY DEF IInv
<1> QED BY <1>1, CacheInvariant, PTL

\* No Cond.Wait sleeps through the end of the build it waits for.
THEOREM NoLostWakeup == Spec => []WaitersHaveBuilder
<1>1. IInv => WaitersHaveBuilder
  BY DEF IInv
<1> QED BY <1>1, CacheInvariant, PTL

\* A call is answered with an inventory no older than InventoryCacheDuration,
\* or a build it waited for has panicked.
THEOREM AnswersAreFresh == Spec => []ServedIsFresh
<1>1. IInv => ServedIsFresh
  BY DEF IInv, AgeBound, ServedIsFresh
<1> QED BY <1>1, CacheInvariant, PTL
=============================================================================
