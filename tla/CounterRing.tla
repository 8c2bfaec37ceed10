---------------------------- MODULE CounterRing ----------------------------
(***************************************************************************)
(* One Counter of pkg/counter: a ring buffer of time stamped values that   *)
(* the CheckSystem task fills and the checks look up.                      *)
(*                                                                         *)
(* Set() runs under the write lock; what is visible outside of the lock is *)
(* each of its stores, because GetLast, GetFirst and GetAt return a        *)
(* pointer into the ring and their callers read through it after the lock  *)
(* was released.  The n-th call of Set stores the value n, and history[n]  *)
(* is the time it stored, so a slot tells which call it belongs to.        *)
(***************************************************************************)
EXTENDS Integers, Sequences, FiniteSets

CONSTANTS
    Size,      \* number of slots, retention / interval
    Reader,    \* checks that hold a pointer
    MaxNow,    \* bound: largest time, in milliseconds
    MaxSets    \* bound: calls of Set

ASSUME RingAssumption ==
    /\ Size \in Nat \ {0}
    /\ MaxNow \in Nat \ {0}
    /\ MaxSets \in Nat

Slot == 0..(Size - 1)
Time == 1..MaxNow

VARIABLES
    data,      \* Counter.data
    current,   \* Counter.current, -1 before the first Set
    oldest,    \* Counter.oldest, -1 before the first Set
    timesSet,  \* Counter.timesSet
    wpc,       \* the writer: outside of Set, or before its next store
    now,       \* the wall clock, which may be set back
    history,   \* times stored by all calls of Set so far
    reader     \* what each check knows

vars == <<data, current, oldest, timesSet, wpc, now, history, reader>>

Empty == [ts |-> 0, val |-> 0]
NoRead == [st |-> "none", slot |-> 0, entry |-> 0, ts |-> 0, val |-> 0]

Init ==
    /\ data = [i \in Slot |-> Empty]
    /\ current = -1 /\ oldest = -1 /\ timesSet = 0
    /\ wpc = "idle"
    /\ now \in Time
    /\ history = <<>>
    /\ reader = [r \in Reader |-> NoRead]

----------------------------------------------------------------------------
(* Set().                                                                  *)

\* A plausible slip: the last slot is never used.
NextSlotShort(i) == IF i + 2 >= Size THEN 0 ELSE i + 1

\* The ring comes round after the last slot.
NextSlot(i) == IF i + 1 = Size THEN 0 ELSE i + 1

\* The lock is taken and the position advanced.
SetBegin ==
    /\ wpc = "idle" /\ timesSet < MaxSets
    /\ oldest' = IF oldest = -1 THEN 0 ELSE oldest
    /\ current' = NextSlot(current)
    /\ wpc' = "stamp"
    /\ UNCHANGED <<data, timesSet, now, history, reader>>

SetStamp ==
    /\ wpc = "stamp"
    /\ data' = [data EXCEPT ![current].ts = now]
    /\ history' = Append(history, now)
    /\ wpc' = "value"
    /\ UNCHANGED <<current, oldest, timesSet, now, reader>>

\* A plausible slip: the count is compared before it is incremented.
SetValueLate ==
    /\ wpc = "value"
    /\ data' = [data EXCEPT ![current].val = Len(history)]
    /\ timesSet' = timesSet + 1
    /\ oldest' = IF timesSet > Size THEN NextSlot(current) ELSE oldest
    /\ wpc' = "idle"
    /\ UNCHANGED <<current, now, history, reader>>

\* The value, the index of the oldest entry, and the lock is released.
SetValue ==
    /\ wpc = "value"
    /\ data' = [data EXCEPT ![current].val = Len(history)]
    /\ timesSet' = timesSet + 1
    /\ oldest' = IF timesSet' > Size THEN NextSlot(current) ELSE oldest
    /\ wpc' = "idle"
    /\ UNCHANGED <<current, now, history, reader>>

----------------------------------------------------------------------------
(* The lookups.  They all hold the read lock while they walk.              *)

\* The slot k steps before the last one, as the loops of the lookups go.
Back(k) == IF current - k < 0 THEN current - k + Size ELSE current - k

\* A plausible slip: the walk stops at the start of the array.
InRunNoWrap(k, bound) ==
    \A j \in 0..k : current >= j /\ data[Back(j)].ts >= bound

\* The walk of getAt() gets past the entry k steps back: neither it nor a
\* later one is older than bound.  AvgForDuration() walks with bound - 1.
InRun(k, bound) == \A j \in 0..k : data[Back(j)].ts >= bound

Run(bound) == {k \in Slot : InRun(k, bound)}

\* Indexes that GetLast, GetFirst and getAt point to, -1 for nil.
LastSlot == current
FirstSlot == oldest
AtSlot(bound) ==
    IF current = -1 \/ Run(bound) = {} THEN -1
    ELSE Back(CHOOSE k \in Run(bound) : \A j \in Run(bound) : j <= k)

\* The calls whose values AvgForDuration(duration) averages.
AvgEntries(useAfter) ==
    IF current = -1 THEN {} ELSE {data[Back(k)].val : k \in Run(useAfter + 1)}

\* GetRate(now - bound) has an answer: two entries with time between them.
RateOk(bound) ==
    /\ current # -1 /\ AtSlot(bound) # -1
    /\ data[current].ts > data[AtSlot(bound)].ts

----------------------------------------------------------------------------
(* Checks that read through a pointer.                                     *)

\* A plausible slip: a lookup without the read lock.
TakeUnlocked(r, slot) ==
    /\ reader[r].st = "none" /\ slot # -1
    /\ reader' = [reader EXCEPT ![r] =
                    [st |-> "ptr", slot |-> slot, entry |-> data[slot].val,
                     ts |-> 0, val |-> 0]]
    /\ UNCHANGED <<data, current, oldest, timesSet, wpc, now, history>>

\* GetLast, GetFirst or GetAt under the read lock; entry is a ghost.
Take(r, slot) ==
    /\ wpc = "idle" /\ reader[r].st = "none" /\ slot # -1
    /\ reader' = [reader EXCEPT ![r] =
                    [st |-> "ptr", slot |-> slot, entry |-> data[slot].val,
                     ts |-> 0, val |-> 0]]
    /\ UNCHANGED <<data, current, oldest, timesSet, wpc, now, history>>

\* getMetrics() reads UnixMilli, and later Value, without the lock.
ReadTs(r) ==
    /\ reader[r].st = "ptr"
    /\ reader' = [reader EXCEPT ![r].st = "ts", ![r].ts = data[reader[r].slot].ts]
    /\ UNCHANGED <<data, current, oldest, timesSet, wpc, now, history>>

ReadVal(r) ==
    /\ reader[r].st = "ts"
    /\ reader' = [reader EXCEPT ![r].st = "read", ![r].val = data[reader[r].slot].val]
    /\ UNCHANGED <<data, current, oldest, timesSet, wpc, now, history>>

Forget(r) ==
    /\ reader[r].st = "read"
    /\ reader' = [reader EXCEPT ![r] = NoRead]
    /\ UNCHANGED <<data, current, oldest, timesSet, wpc, now, history>>

ClockMoves ==
    /\ now' \in Time \ {now}
    /\ UNCHANGED <<data, current, oldest, timesSet, wpc, history, reader>>

Next ==
    \/ SetBegin \/ SetStamp \/ SetValue
    \/ ClockMoves
    \/ \E r \in Reader :
          \/ Take(r, LastSlot) \/ Take(r, FirstSlot)
          \/ \E bound \in Time : Take(r, AtSlot(bound))
          \/ ReadTs(r) \/ ReadVal(r) \/ Forget(r)

Spec == Init /\ [][Next]_vars
----------------------------------------------------------------------------
(* Reference: the same questions asked of the whole history.               *)

Count == Len(history)

\* The calls the ring can still hold.
Kept == {n \in 1..Count : n > Count - Size}

\* Kept calls since the last one that is older than bound.
Since(bound) == {n \in Kept : \A m \in n..Count : history[m] >= bound}

Least(S) == CHOOSE x \in S : \A y \in S : x <= y

----------------------------------------------------------------------------
(* Properties.                                                             *)

TypeOK ==
    /\ data \in [Slot -> [ts : 0..MaxNow, val : Nat]]
    /\ current \in Slot \union {-1}
    /\ oldest \in Slot \union {-1}
    /\ timesSet \in Nat
    /\ wpc \in {"idle", "stamp", "value"}
    /\ now \in Time
    /\ history \in Seq(Time)
    /\ reader \in [Reader -> [st : {"none", "ptr", "ts", "read"}, slot : Slot,
                              entry : Nat, ts : 0..MaxNow, val : Nat]]

\* Steps from slot j forward to the current slot.
Age(j) == IF j <= current THEN current - j ELSE current + Size - j

\* Number of the call whose entry belongs into the current slot.
Newest == IF wpc = "stamp" THEN Len(history) + 1 ELSE Len(history)

\* Slot j holds what the call so many calls ago stored, or nothing yet.
SlotIs(j) ==
    IF Age(j) < Newest
    THEN data[j] = [ts |-> history[Newest - Age(j)], val |-> Newest - Age(j)]
    ELSE data[j] = Empty

\* Outside of Set the ring is the end of the history, and the two indexes
\* mark its newest and its oldest entry, before and after the first wrap.
RingIsHistory ==
    wpc = "idle" =>
        /\ timesSet = Count
        /\ Count = 0 => current = -1 /\ oldest = -1
        /\ Count > 0 =>
              /\ current # -1 /\ oldest # -1
              /\ data[current] = [ts |-> history[Count], val |-> Count]
              /\ data[oldest].val = IF Count <= Size THEN 1 ELSE Count - Size + 1
              /\ \A j \in Slot : SlotIs(j)

\* What the lookups walk to in the ring is what the history says, whether
\* the ring is partly filled or wrapped, and however the clock was moved:
\* GetAt returns the first entry of the run that reaches the present, and
\* AvgForDuration averages exactly the entries of such a run; GetRate has an
\* answer unless the clock stood still or went back between its two entries.
LookupsMatchHistory ==
    wpc = "idle" => \A bound \in Time :
        /\ AtSlot(bound) = -1 <=> Since(bound) = {}
        /\ AtSlot(bound) # -1 => data[AtSlot(bound)].val = Least(Since(bound))
        /\ AvgEntries(bound - 1) = Since(bound)
        /\ RateOk(bound) <=> /\ Since(bound) # {}
                             /\ history[Least(Since(bound))] < history[Count]

\* A check that reads through a pointer sees one entry, the one the lookup
\* found, as long as the ring has not come round to it again.
PointerReadsOneEntry ==
    \A r \in Reader :
        /\ reader[r].st = "read"
        /\ Newest < reader[r].entry + Size
        => /\ reader[r].val = reader[r].entry
           /\ reader[r].ts = history[reader[r].entry]
=============================================================================
