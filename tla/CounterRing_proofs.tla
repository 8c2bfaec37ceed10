-------------------------- MODULE CounterRing_proofs --------------------------
(***************************************************************************)
(* The ring buffer for every size, number of calls and clock.              *)
(*                                                                         *)
(* The indexes of the ring are related to the history by the age of a      *)
(* slot, the number of steps from it forward to the current one: advancing *)
(* the current slot makes every other slot one older, and the call that is *)
(* in progress is one newer, so what a slot should hold does not change.   *)
(* This needs no modulus, and both the partly filled and the wrapped ring  *)
(* are instances of it.                                                    *)
(***************************************************************************)
EXTENDS CounterRing, WellFoundedInduction, TLAPS

\* The variables Set writes have their types, apart from the readers.
RingTypes ==
    /\ data \in [Slot -> [ts : 0..MaxNow, val : Nat]]
    /\ current \in Slot \union {-1}
    /\ oldest \in Slot \union {-1}
    /\ timesSet \in Nat
    /\ wpc \in {"idle", "stamp", "value"}
    /\ now \in Time
    /\ history \in Seq(Time)

\* What the two indexes are, before and after the ring is full.
Indexes ==
    /\ Newest = 0 <=> current = -1
    /\ Newest \in 1..Size => current = Newest - 1
    /\ timesSet = IF wpc = "value" THEN Len(history) - 1 ELSE Len(history)
    /\ wpc = "idle" /\ timesSet = 0 => oldest = -1
    /\ wpc # "idle" => current # -1
    /\ timesSet <= Size /\ (wpc # "idle" \/ timesSet # 0) => oldest = 0
    /\ wpc = "idle" /\ timesSet > Size => oldest = NextSlot(current)

\* Every slot but the one that is being written is what its age says; that
\* one has at least its new time before it gets its new value.
Slots ==
    /\ \A j \in Slot : j # current \/ wpc = "idle" => SlotIs(j)
    /\ wpc = "value" => data[current].ts = history[Len(history)]

RInv == RingTypes /\ Indexes /\ Slots

----------------------------------------------------------------------------
\* Every non-empty set of natural numbers has a least element.
LEMMA LeastElement ==
    ASSUME NEW T, T \subseteq Nat, T # {}
    PROVE  \E x \in T : \A y \in T : x <= y
<1> DEFINE Less == OpToRel(<, Nat)
<1>1. \A x, y \in Nat : x < y => <<x, y>> \in Less
  BY DEF OpToRel
<1>2. IsWellFoundedOn(Less, Nat)
  BY NatLessThanWellFounded
<1> HIDE DEF Less
<1>3. PICK x \in T : \A y \in T : ~ (<<y, x>> \in Less)
  BY <1>2, WFMin
<1>4. \A y \in T : ~(y < x)
  BY <1>1, <1>3
<1> QED BY <1>4

\* And a greatest one if it is bounded.
LEMMA GreatestElement ==
    ASSUME NEW n \in Nat, NEW T, T \subseteq 0..n, T # {}
    PROVE  \E x \in T : \A y \in T : y <= x
<1> DEFINE D == {n - t : t \in T}
<1>1. D \subseteq Nat
  OBVIOUS
<1>a. D # {}
  OBVIOUS
<1>2. PICK d \in D : \A e \in D : d <= e
  BY <1>1, <1>a, LeastElement
<1>3. PICK x \in T : d = n - x
  BY <1>2
<1>4. \A y \in T : n - x <= n - y
  BY <1>2, <1>3
<1> QED BY <1>4

\* Walking k steps back from the current slot leads to the slot of age k.
LEMMA BackAge ==
    ASSUME Size \in Nat \ {0}, current \in Slot, NEW k \in Slot
    PROVE  Back(k) \in Slot /\ Age(Back(k)) = k
  BY DEF Slot, Back, Age

\* The age of a slot is a number of steps, and only the slot itself is young.
LEMMA AgeRange ==
    ASSUME Size \in Nat \ {0}, current \in Slot, NEW j \in Slot
    PROVE  Age(j) \in Slot /\ (Age(j) = 0 <=> j = current) /\ Back(Age(j)) = j
  BY DEF Slot, Back, Age

\* Advancing the current slot ages all other slots by one.
LEMMA AgeAdvance ==
    ASSUME Size \in Nat \ {0}, current \in Slot \union {-1},
           current' = NextSlot(current), NEW j \in Slot, j # current'
    PROVE  Age(j)' = Age(j) + 1
  BY DEF Slot, Age, NextSlot

----------------------------------------------------------------------------
\* An empty ring.
LEMMA InitRInv == Init => RInv
<1> SUFFICES ASSUME Init PROVE RInv
  OBVIOUS
<1> USE RingAssumption DEF Init
<1>1. RingTypes
  BY DEF RingTypes, Slot, Empty
<1>2. Newest = 0 /\ Len(history) = 0
  BY DEF Newest
<1>3. Indexes
  BY <1>2 DEF Indexes
<1>4. Slots
  <2> SUFFICES ASSUME NEW j \in Slot PROVE SlotIs(j)
    BY DEF Slots
  <2>1. ~(Age(j) < 0)
    BY DEF Age, Slot
  <2> QED BY <1>2, <2>1 DEF SlotIs
<1> QED BY <1>1, <1>3, <1>4 DEF RInv

\* The first of Set's three stores moves current: the slots age by one.
LEMMA BeginRInv == RInv /\ SetBegin => RInv'
<1> SUFFICES ASSUME RInv, SetBegin PROVE RInv'
  OBVIOUS
<1> USE RingAssumption DEF RInv, RingTypes, SetBegin
<1>1. current' \in Slot
  BY DEF NextSlot, Slot
<1>2. Newest = Len(history) /\ Newest' = Len(history) + 1 /\ Len(history) \in Nat
  BY DEF Newest
<1>3. RingTypes'
  BY <1>1 DEF Slot
<1>4. Indexes'
  <2>1. Newest' \in 1..Size => current' = Newest' - 1
    BY <1>2 DEF Indexes, NextSlot, Slot
  <2>2. Newest' # 0 /\ current' # -1
    BY <1>1, <1>2 DEF Slot
  <2>3. timesSet' = Len(history')
    BY DEF Indexes
  <2>4. timesSet' <= Size => oldest' = 0
    BY DEF Indexes
  <2> QED BY <2>1, <2>2, <2>3, <2>4 DEF Indexes
<1>5. Slots'
  <2> SUFFICES ASSUME NEW j \in Slot, j # current' PROVE SlotIs(j)'
    BY DEF Slots, Slot
  <2>1. SlotIs(j)
    BY DEF Slots
  <2>2. Age(j)' = Age(j) + 1
    BY AgeAdvance
  <2>3. Age(j) \in Int
    BY DEF Age, Slot
  <2> QED BY <1>2, <2>1, <2>2, <2>3 DEF SlotIs
<1> QED BY <1>3, <1>4, <1>5

\* The second store stamps the newest slot; the other slots keep their entries.
LEMMA StampRInv == RInv /\ SetStamp => RInv'
<1> SUFFICES ASSUME RInv, SetStamp PROVE RInv'
  OBVIOUS
<1> USE RingAssumption DEF RInv, RingTypes, SetStamp
<1>1. current \in Slot
  BY DEF Indexes
<1>2. /\ Newest = Len(history) + 1 /\ Newest' = Newest /\ Len(history) \in Nat
      /\ Len(history') = Len(history) + 1
      /\ history'[Len(history')] = now
      /\ \A n \in 1..Len(history) : history'[n] = history[n]
  BY DEF Newest
<1>3. RingTypes'
  <2>1. data' = [data EXCEPT ![current] = [data[current] EXCEPT !.ts = now]]
    OBVIOUS
  <2>2. [data[current] EXCEPT !.ts = now] \in [ts : 0..MaxNow, val : Nat]
    <3>1. data[current] \in [ts : 0..MaxNow, val : Nat] /\ now \in 0..MaxNow
      BY <1>1 DEF Time
    <3> QED BY <3>1
  <2> QED BY <1>1, <2>1, <2>2
<1>4. Indexes'
  BY <1>1, <1>2 DEF Indexes
<1>5. Slots'
  <2>1. ASSUME NEW j \in Slot, j # current PROVE SlotIs(j)'
    <3>1. SlotIs(j) /\ Age(j)' = Age(j) /\ data'[j] = data[j]
      BY <2>1 DEF Slots, Age
    <3>2. Age(j) \in Slot \ {0}
      BY <1>1, <2>1, AgeRange
    <3>3. CASE Age(j) < Newest
      <4>1. Newest - Age(j) \in 1..Len(history)
        <5>1. Age(j) \in Nat \ {0}
          BY <3>2 DEF Slot
        <5> QED BY <1>2, <3>3, <5>1
      <4>2. history'[Newest - Age(j)] = history[Newest - Age(j)]
        BY <1>2, <4>1
      <4> QED BY <1>2, <3>1, <3>3, <4>2 DEF SlotIs
    <3>4. CASE ~(Age(j) < Newest)
      BY <1>2, <3>1, <3>4 DEF SlotIs
    <3> QED BY <3>3, <3>4
  <2>2. data'[current].ts = now
    BY <1>1
  <2> QED BY <1>2, <2>1, <2>2 DEF Slots
<1> QED BY <1>3, <1>4, <1>5

\* The third store completes the newest entry; the other slots keep theirs.
LEMMA ValueRInv == RInv /\ SetValue => RInv'
<1> SUFFICES ASSUME RInv, SetValue PROVE RInv'
  OBVIOUS
<1> USE RingAssumption DEF RInv, RingTypes, SetValue
<1>1. current \in Slot
  BY DEF Indexes
<1>2. Newest = Len(history) /\ Newest' = Newest /\ Len(history) \in Nat \ {0}
  BY <1>1 DEF Newest, Indexes, Slot
<1>3. RingTypes'
  <2>1. NextSlot(current) \in Slot
    BY <1>1 DEF NextSlot, Slot
  <2>2. data' = [data EXCEPT ![current] = [data[current] EXCEPT !.val = Len(history)]]
    OBVIOUS
  <2>3. [data[current] EXCEPT !.val = Len(history)] \in [ts : 0..MaxNow, val : Nat]
    BY <1>1, <1>2
  <2> QED BY <1>1, <2>1, <2>2, <2>3
<1>4. Indexes'
  BY <1>1, <1>2 DEF Indexes, NextSlot, Slot
<1>5. Slots'
  <2> SUFFICES ASSUME NEW j \in Slot PROVE SlotIs(j)'
    BY DEF Slots, Slot
  <2>1. Age(j)' = Age(j)
    BY DEF Age
  <2>2. CASE j # current
    <3>1. SlotIs(j) /\ data'[j] = data[j]
      BY <2>2 DEF Slots
    <3> QED BY <1>2, <2>1, <3>1 DEF SlotIs
  <2>3. CASE j = current
    <3>1. Age(j) = 0
      BY <1>1, <2>3, AgeRange
    <3>2. data[j].ts = history[Len(history)]
      BY <2>3 DEF Slots
    <3>3. data'[j] = [ts |-> history[Len(history)], val |-> Len(history)]
      BY <2>3, <3>2, <1>1
    <3> QED BY <1>2, <2>1, <3>1, <3>3 DEF SlotIs
  <2> QED BY <2>2, <2>3
<1> QED BY <1>3, <1>4, <1>5

\* The invariant is inductive.
LEMMA NextRInv == RInv /\ [Next]_vars => RInv'
<1> SUFFICES ASSUME RInv, [Next]_vars PROVE RInv'
  OBVIOUS
<1>1. ASSUME UNCHANGED <<data, current, oldest, timesSet, wpc, history>>, now' \in Time
      PROVE  RInv'
  BY <1>1 DEF RInv, RingTypes, Indexes, Slots, Newest, SlotIs, Age
<1>2. CASE ClockMoves
  BY <1>1, <1>2 DEF ClockMoves
<1>3. ASSUME NEW r \in Reader, NEW slot, Take(r, slot) \/ ReadTs(r) \/ ReadVal(r) \/ Forget(r)
      PROVE  RInv'
  BY <1>1, <1>3 DEF Take, ReadTs, ReadVal, Forget, RInv, RingTypes
<1>4. CASE UNCHANGED vars
  BY <1>1, <1>4 DEF vars, RInv, RingTypes
<1> QED
  BY <1>2, <1>3, <1>4, BeginRInv, StampRInv, ValueRInv DEF Next

\* All states satisfy it.
THEOREM RingInvariant == Spec => []RInv
  BY InitRInv, NextRInv, PTL DEF Spec

\* Between two calls of Set the ring is the end of the history, and its two
\* indexes are the newest and the oldest entry.
LEMMA RInvRing == RInv => RingIsHistory
<1> SUFFICES ASSUME RInv, wpc = "idle"
             PROVE  /\ timesSet = Count
                    /\ Count = 0 => current = -1 /\ oldest = -1
                    /\ Count > 0 =>
                          /\ current # -1 /\ oldest # -1
                          /\ data[current] = [ts |-> history[Count], val |-> Count]
                          /\ data[oldest].val = IF Count <= Size THEN 1
                                                ELSE Count - Size + 1
                          /\ \A j \in Slot : SlotIs(j)
  BY DEF RingIsHistory
<1> USE RingAssumption DEF RInv, RingTypes, Count
<1>1. Newest = Count /\ timesSet = Count /\ Count \in Nat
  BY DEF Newest, Indexes
<1>2. Count = 0 => current = -1 /\ oldest = -1
  BY <1>1 DEF Indexes
<1>3. ASSUME Count > 0 PROVE current \in Slot /\ oldest \in Slot
  BY <1>1, <1>3 DEF Indexes, NextSlot, Slot
<1>4. \A j \in Slot : SlotIs(j)
  BY DEF Slots
<1>5. ASSUME Count > 0 PROVE data[current] = [ts |-> history[Count], val |-> Count]
  <2>1. Age(current) = 0 /\ SlotIs(current)
    BY <1>3, <1>4, <1>5, AgeRange
  <2> QED BY <1>1, <1>5, <2>1 DEF SlotIs
<1>6. ASSUME Count > 0
      PROVE  data[oldest].val = IF Count <= Size THEN 1 ELSE Count - Size + 1
  <2>1. Age(oldest) = IF Count <= Size THEN Count - 1 ELSE Size - 1
    <3>1. CASE Count <= Size
      <4>1. oldest = 0 /\ current = Count - 1
        BY <1>1, <1>6, <3>1 DEF Indexes
      <4> QED BY <1>1, <1>6, <3>1, <4>1 DEF Age
    <3>2. CASE ~(Count <= Size)
      <4>1. wpc = "idle" /\ timesSet > Size
        BY <1>1, <3>2
      <4>2. oldest = NextSlot(current)
        BY <4>1 DEF Indexes
      <4> QED BY <1>3, <1>6, <3>2, <4>2 DEF NextSlot, Slot, Age
    <3> QED BY <3>1, <3>2
  <2>2. Age(oldest) < Newest /\ SlotIs(oldest)
    BY <1>1, <1>3, <1>4, <1>6, <2>1
  <2> QED BY <1>1, <2>1, <2>2 DEF SlotIs
<1> QED BY <1>1, <1>2, <1>3, <1>4, <1>5, <1>6 DEF Slot

\* The ring is the end of the history in every state of the counter.
THEOREM RingHoldsHistory == Spec => []RingIsHistory
  BY RInvRing, RingInvariant, PTL

\* The entry k steps back is the one of the call k calls ago, and the walk
\* gets past it exactly if that call belongs to the reference's run.
LEMMA RunIsSince ==
    ASSUME RInv, wpc = "idle", current # -1, NEW bound \in Time, NEW k \in Slot
    PROVE  /\ k < Count => data[Back(k)] = [ts |-> history[Count - k], val |-> Count - k]
           /\ k \in Run(bound) <=> (k < Count /\ Count - k \in Since(bound))
<1> USE RingAssumption DEF RInv, RingTypes
<1>1. Newest = Count /\ Count \in Nat \ {0} /\ current \in Slot
  BY DEF Newest, Count, Indexes
<1>2. ASSUME NEW j \in Slot
      PROVE  data[Back(j)] = IF j < Count THEN [ts |-> history[Count - j], val |-> Count - j]
                             ELSE Empty
  <2>1. Back(j) \in Slot /\ Age(Back(j)) = j
    BY <1>1, BackAge
  <2>2. SlotIs(Back(j))
    BY <2>1 DEF Slots
  <2> QED BY <1>1, <2>1, <2>2 DEF SlotIs
<1>3. ASSUME NEW j \in Slot
      PROVE  data[Back(j)].ts >= bound <=> (j < Count /\ history[Count - j] >= bound)
  <2>1. CASE j < Count
    <3>1. data[Back(j)] = [ts |-> history[Count - j], val |-> Count - j]
      BY <1>2, <2>1
    <3>2. data[Back(j)].ts = history[Count - j]
      BY <3>1
    <3> QED BY <2>1, <3>2
  <2>2. CASE ~(j < Count)
    <3>1. data[Back(j)] = Empty
      BY <1>2, <2>2
    <3>2. data[Back(j)].ts = 0
      BY <3>1 DEF Empty
    <3> QED BY <2>2, <3>2 DEF Time
  <2> QED BY <2>1, <2>2
<1>4. k \in Run(bound) <=> \A j \in 0..k : j < Count /\ history[Count - j] >= bound
  <2>1. 0..k \subseteq Slot
    BY DEF Slot
  <2> QED BY <1>3, <2>1 DEF Run, InRun
<1>5. Count - k \in Since(bound) <=>
        (k < Count /\ \A m \in (Count - k)..Count : history[m] >= bound)
  BY <1>1 DEF Since, Kept, Slot
<1>6. ASSUME k < Count
      PROVE  (\A j \in 0..k : history[Count - j] >= bound)
               <=> \A m \in (Count - k)..Count : history[m] >= bound
  <2>1. ASSUME NEW m \in (Count - k)..Count
        PROVE  Count - m \in 0..k /\ Count - (Count - m) = m
    BY <1>1 DEF Slot
  <2>2. ASSUME NEW j \in 0..k PROVE Count - j \in (Count - k)..Count
    BY <1>1 DEF Slot
  <2> QED BY <2>1, <2>2
<1>7. (\A j \in 0..k : j < Count) <=> k < Count
  <2>1. k \in 0..k /\ k \in Nat
    BY DEF Slot
  <2>2. \A j \in 0..k : k < Count => j < Count
    BY <1>1, <2>1
  <2> QED BY <2>1, <2>2
<1> QED BY <1>2, <1>4, <1>5, <1>6, <1>7

\* getAt stops at the first entry of the reference's run.
LEMMA AtSlotIsLeast ==
    ASSUME RInv, wpc = "idle", current # -1, NEW bound \in Time, Run(bound) # {}
    PROVE  /\ AtSlot(bound) \in Slot
           /\ Since(bound) # {}
           /\ Least(Since(bound)) \in 1..Count
           /\ data[AtSlot(bound)] = [ts |-> history[Least(Since(bound))],
                                     val |-> Least(Since(bound))]
<1> USE RingAssumption
<1>1. Count \in Nat \ {0} /\ current \in Slot
  BY DEF RInv, RingTypes, Count, Indexes, Newest
<1>2. Run(bound) \subseteq 0..(Size - 1) /\ Size - 1 \in Nat
  BY DEF Run, Slot
<1> DEFINE k == CHOOSE x \in Run(bound) : \A j \in Run(bound) : j <= x
<1>3. k \in Run(bound) /\ \A j \in Run(bound) : j <= k
  BY <1>2, GreatestElement
<1>4. AtSlot(bound) = Back(k) /\ k \in Slot
  BY <1>3 DEF AtSlot, Run
<1> HIDE DEF k
<1>5. k < Count /\ Count - k \in Since(bound)
      /\ data[Back(k)] = [ts |-> history[Count - k], val |-> Count - k]
  BY <1>3, <1>4, RunIsSince
<1>6. ASSUME NEW n \in Since(bound) PROVE Count - k <= n
  <2>1. n \in 1..Count /\ n > Count - Size
    BY DEF Since, Kept
  <2>2. Count - n \in Slot /\ Count - n < Count /\ Count - (Count - n) = n
    BY <1>1, <2>1 DEF Slot
  <2>3. Count - n \in Run(bound)
    BY <2>2, RunIsSince
  <2> QED BY <1>1, <1>3, <1>4, <2>1, <2>3 DEF Slot
<1>7. Least(Since(bound)) = Count - k
  <2>1. Since(bound) \subseteq Int
    BY DEF Since, Kept
  <2>2. \A x \in Since(bound) :
            (\A y \in Since(bound) : x <= y) => x = Count - k
    BY <1>1, <1>4, <1>5, <1>6, <2>1 DEF Slot
  <2> QED BY <1>5, <1>6, <2>2 DEF Least
<1>8. Back(k) \in Slot
  BY <1>1, <1>4, BackAge
<1> QED BY <1>1, <1>4, <1>5, <1>7, <1>8 DEF Slot

\* What GetAt, AvgForDuration and GetRate find is what the history says.
LEMMA RInvLookups == RInv => LookupsMatchHistory
<1> SUFFICES ASSUME RInv, wpc = "idle", NEW bound \in Time
             PROVE  /\ AtSlot(bound) = -1 <=> Since(bound) = {}
                    /\ AtSlot(bound) # -1 =>
                          data[AtSlot(bound)].val = Least(Since(bound))
                    /\ AvgEntries(bound - 1) = Since(bound)
                    /\ RateOk(bound) <=>
                          /\ Since(bound) # {}
                          /\ history[Least(Since(bound))] < history[Count]
  BY DEF LookupsMatchHistory
<1> USE RingAssumption
<1>1. CASE current = -1
  <2>1. Count = 0
    BY <1>1 DEF RInv, RingTypes, Indexes, Newest, Count
  <2>2. Since(bound) = {}
    BY <2>1 DEF Since, Kept
  <2> QED BY <1>1, <2>2 DEF AtSlot, AvgEntries, RateOk
<1>2. CASE current # -1
  <2>1. Count \in Nat \ {0} /\ current \in Slot
    BY <1>2 DEF RInv, RingTypes, Count, Indexes, Newest
  <2>2. ASSUME NEW n \in Since(bound)
        PROVE  /\ Count - n \in Run(bound) /\ Count - n \in Slot
               /\ data[Back(Count - n)].val = n
    <3>1. n \in 1..Count /\ n > Count - Size
      BY DEF Since, Kept
    <3>2. Count - n \in Slot /\ Count - n < Count /\ Count - (Count - n) = n
      BY <2>1, <3>1 DEF Slot
    <3>3. Count - n \in Run(bound)
      BY <1>2, <3>2, RunIsSince
    <3>4. data[Back(Count - n)] = [ts |-> history[n], val |-> n]
      BY <1>2, <3>2, RunIsSince
    <3> QED BY <3>2, <3>3, <3>4
  <2>3. ASSUME NEW k \in Run(bound)
        PROVE  k \in Slot /\ Count - k \in Since(bound) /\ data[Back(k)].val = Count - k
    <3>1. k \in Slot
      BY DEF Run
    <3>2. k < Count /\ Count - k \in Since(bound)
      BY <1>2, <3>1, RunIsSince
    <3>3. data[Back(k)] = [ts |-> history[Count - k], val |-> Count - k]
      BY <1>2, <3>1, <3>2, RunIsSince
    <3> QED BY <3>1, <3>2, <3>3
  <2>4. Run(bound) = {} <=> Since(bound) = {}
    BY <2>2, <2>3
  <2>5. AvgEntries(bound - 1) = Since(bound)
    <3>1. AvgEntries(bound - 1) = {data[Back(k)].val : k \in Run(bound)}
      <4>1. bound - 1 + 1 = bound
        BY DEF Time
      <4> QED BY <1>2, <4>1 DEF AvgEntries
    <3>2. ASSUME NEW n \in Since(bound) PROVE n \in AvgEntries(bound - 1)
      BY <2>2, <3>1
    <3>3. ASSUME NEW n \in AvgEntries(bound - 1) PROVE n \in Since(bound)
      BY <2>3, <3>1
    <3> QED BY <3>2, <3>3
  <2>6. CASE Run(bound) = {}
    BY <2>4, <2>5, <2>6 DEF AtSlot, RateOk
  <2>7. CASE Run(bound) # {}
    <3>1. /\ AtSlot(bound) \in Slot /\ Since(bound) # {}
          /\ data[AtSlot(bound)] = [ts |-> history[Least(Since(bound))],
                                    val |-> Least(Since(bound))]
          /\ Least(Since(bound)) \in 1..Count
      BY <1>2, <2>7, AtSlotIsLeast
    <3>2. data[current].ts = history[Count]
      BY <2>1, RInvRing DEF RingIsHistory
    <3>3. AtSlot(bound) # -1
      BY <3>1 DEF Slot
    <3>4. history[Count] \in Int /\ history[Least(Since(bound))] \in Int
      BY <2>1, <3>1 DEF RInv, RingTypes, Count, Time
    <3>5. RateOk(bound) <=> history[Least(Since(bound))] < history[Count]
      BY <1>2, <3>1, <3>2, <3>3, <3>4 DEF RateOk
    <3> QED BY <2>5, <3>1, <3>3, <3>5
  <2> QED BY <2>6, <2>7
<1> QED BY <1>1, <1>2

\* So every lookup of a check is exact, whatever the clock did.
THEOREM LookupsAreExact == Spec => []LookupsMatchHistory
  BY RInvLookups, RingInvariant, PTL

----------------------------------------------------------------------------
\* What a check that holds a pointer knows until the ring comes round to it.
Pointer(r) ==
    LET p == reader[r]
    IN  /\ p.slot \in Slot
        /\ p.entry \in 1..timesSet
        /\ Newest < p.entry + Size =>
              /\ Age(p.slot) = Newest - p.entry
              /\ p.st \in {"ts", "read"} => p.ts = history[p.entry]
              /\ p.st = "read" => p.val = p.entry

ReaderTypes ==
    reader \in [Reader -> [st : {"none", "ptr", "ts", "read"}, slot : Slot,
                           entry : Nat, ts : 0..MaxNow, val : Nat]]

PInv ==
    /\ RInv
    /\ ReaderTypes
    /\ \A r \in Reader : reader[r].st # "none" => Pointer(r)

\* Set moves to the slot that is one step short of a full turn behind.
LEMMA NextIsOldest ==
    ASSUME Size \in Nat \ {0}, current \in Slot
    PROVE  Age(NextSlot(current)) = Size - 1
  BY DEF Slot, Age, NextSlot

\* The slot of a pointer is not the one being written, and holds its entry.
LEMMA PointerSlot ==
    ASSUME PInv, NEW r \in Reader, Pointer(r), Newest < reader[r].entry + Size
    PROVE  data[reader[r].slot] =
              [ts |-> history[reader[r].entry], val |-> reader[r].entry]
<1> DEFINE p == reader[r]
<1> USE RingAssumption DEF PInv, RInv, RingTypes
<1>1. /\ p.slot \in Slot /\ p.entry \in 1..timesSet
      /\ Age(p.slot) = Newest - p.entry
  BY DEF Pointer
<1>2. /\ Newest \in Nat /\ timesSet \in Nat /\ timesSet <= Newest
      /\ wpc # "idle" => timesSet < Newest
      /\ current \in Slot
  <2>1. timesSet \in Nat /\ timesSet > 0 /\ Len(history) \in Nat
    BY <1>1
  <2>2. timesSet = IF wpc = "value" THEN Len(history) - 1 ELSE Len(history)
    BY DEF Indexes
  <2>3. Newest = IF wpc = "stamp" THEN Len(history) + 1 ELSE Len(history)
    BY DEF Newest
  <2>4. Newest # 0
    BY <2>1, <2>2, <2>3
  <2>5. current \in Slot
    BY <2>4 DEF Indexes
  <2> QED BY <2>1, <2>2, <2>3, <2>5
<1>3. Age(p.slot) < Newest
  BY <1>1, <1>2
<1>4. p.slot # current \/ wpc = "idle"
  <2>1. wpc # "idle" => Age(p.slot) # 0
    BY <1>1, <1>2
  <2> QED BY <1>1, <1>2, <2>1, AgeRange
<1>5. SlotIs(p.slot)
  BY <1>1, <1>4 DEF Slots
<1>6. Newest - Age(p.slot) = p.entry
  BY <1>1, <1>2
<1> QED BY <1>3, <1>5, <1>6 DEF SlotIs

\* A lookup that found an entry: its slot has the age of that entry.
LEMMA TakenAge ==
    ASSUME RInv, wpc = "idle", NEW slot \in Slot, data[slot].val # 0
    PROVE  data[slot].val \in 1..timesSet /\ Age(slot) = Newest - data[slot].val
<1> USE RingAssumption DEF RInv, RingTypes
<1>1. SlotIs(slot) /\ Newest = Len(history) /\ timesSet = Newest /\ Newest \in Nat
  BY DEF Slots, Newest, Indexes
<1>2. Age(slot) < Newest
  BY <1>1 DEF SlotIs, Empty
<1>3. current \in Slot
  BY <1>1, <1>2 DEF Indexes, Age, Slot
<1>4. Age(slot) \in Nat
  <2>1. Age(slot) \in Slot
    BY <1>3, AgeRange
  <2> QED BY <2>1 DEF Slot
<1>5. data[slot] = [ts |-> history[Newest - Age(slot)], val |-> Newest - Age(slot)]
  BY <1>1, <1>2 DEF SlotIs
<1>6. data[slot].val = Newest - Age(slot)
  BY <1>5
<1> QED BY <1>1, <1>2, <1>4, <1>6

\* All three lookups find an entry.
LEMMA TakenSlot ==
    ASSUME RInv, wpc = "idle", NEW slot, slot # -1,
           \/ slot = LastSlot \/ slot = FirstSlot
           \/ \E bound \in Time : slot = AtSlot(bound)
    PROVE  slot \in Slot /\ data[slot].val # 0
<1> USE RingAssumption DEF RInv, RingTypes
<1>1. Newest = Count /\ timesSet = Count /\ Count \in Nat
  BY DEF Newest, Count, Indexes
<1>2. CASE slot = LastSlot \/ slot = FirstSlot
  <2>1. slot \in Slot /\ Count > 0
    BY <1>1, <1>2 DEF LastSlot, FirstSlot, Indexes
  <2>2. /\ data[current] = [ts |-> history[Count], val |-> Count]
        /\ data[oldest].val = IF Count <= Size THEN 1 ELSE Count - Size + 1
    BY <1>1, <2>1, RInvRing DEF RingIsHistory
  <2>3. data[current].val # 0 /\ data[oldest].val # 0
    BY <1>1, <2>1, <2>2
  <2> QED BY <1>2, <2>1, <2>3 DEF LastSlot, FirstSlot
<1>3. ASSUME NEW bound \in Time, slot = AtSlot(bound)
      PROVE  slot \in Slot /\ data[slot].val # 0
  <2>1. current # -1 /\ Run(bound) # {}
    BY <1>3 DEF AtSlot
  <2>2. /\ AtSlot(bound) \in Slot /\ Least(Since(bound)) \in 1..Count
        /\ data[AtSlot(bound)] = [ts |-> history[Least(Since(bound))],
                                  val |-> Least(Since(bound))]
    BY <2>1, AtSlotIsLeast
  <2>3. data[AtSlot(bound)].val = Least(Since(bound))
    BY <2>2
  <2> QED BY <1>1, <1>3, <2>2, <2>3
<1> QED BY <1>2, <1>3

----------------------------------------------------------------------------
LEMMA InitPInv == Init => PInv
<1> SUFFICES ASSUME Init PROVE PInv
  OBVIOUS
<1>1. RInv
  BY InitRInv
<1>2. \A r \in Reader : reader[r].st = "none"
  BY DEF Init, NoRead
<1>3. NoRead \in [st : {"none", "ptr", "ts", "read"}, slot : Slot,
                  entry : Nat, ts : 0..MaxNow, val : Nat]
  BY RingAssumption DEF NoRead, Slot
<1>4. ReaderTypes
  BY <1>3 DEF ReaderTypes, Init
<1> QED BY <1>1, <1>2, <1>4 DEF PInv

\* Set: the pointers age with their slots.
LEMMA BeginPointer ==
    ASSUME PInv, SetBegin, NEW r \in Reader, Pointer(r)
    PROVE  Pointer(r)'
<1> DEFINE p == reader[r]
<1> USE RingAssumption DEF PInv, RInv, RingTypes
<1>1. p.slot \in Slot /\ p.entry \in 1..timesSet /\ UNCHANGED <<reader, timesSet, history>>
  BY DEF Pointer, SetBegin
<1>2. /\ Newest \in Nat /\ Newest' = Newest + 1 /\ current \in Slot
      /\ wpc = "idle" /\ timesSet = Newest
  <2>1. wpc = "idle" /\ wpc' = "stamp" /\ Len(history) \in Nat /\ timesSet > 0
    BY <1>1 DEF SetBegin
  <2>2. Newest = Len(history) /\ Newest' = Len(history) + 1
    BY <1>1, <2>1 DEF Newest
  <2>3. timesSet = Len(history)
    BY <2>1 DEF Indexes
  <2> QED BY <2>1, <2>2, <2>3 DEF Indexes
<1>3. ASSUME Newest' < p.entry + Size
      PROVE  /\ Age(p.slot)' = Newest' - p.entry
             /\ p.st \in {"ts", "read"} => p.ts = history[p.entry]
             /\ p.st = "read" => p.val = p.entry
  <2>1. Newest < p.entry + Size
    BY <1>1, <1>2, <1>3
  <2>2. /\ Age(p.slot) = Newest - p.entry
        /\ p.st \in {"ts", "read"} => p.ts = history[p.entry]
        /\ p.st = "read" => p.val = p.entry
    BY <2>1 DEF Pointer
  <2>3. p.slot # NextSlot(current)
    <3>1. Age(NextSlot(current)) = Size - 1
      BY <1>2, NextIsOldest
    <3>2. Age(p.slot) # Size - 1
      BY <1>1, <1>2, <1>3, <2>2
    <3> QED BY <3>1, <3>2
  <2>4. Age(p.slot)' = Age(p.slot) + 1
    <3>1. current' = NextSlot(current) /\ p.slot # current'
      BY <2>3 DEF SetBegin
    <3>2. PICK j \in Slot : j = p.slot
      BY <1>1
    <3>3. Age(j)' = Age(j) + 1
      BY <1>2, <3>1, <3>2, AgeAdvance
    <3>4. Age(p.slot)' = Age(j)' /\ Age(p.slot) = Age(j)
      BY <1>1, <3>2 DEF Age
    <3> QED BY <3>3, <3>4
  <2> HIDE DEF PInv, RInv, RingTypes
  <2>5. Newest' = Newest + 1 /\ Newest \in Int /\ p.entry \in Int
    BY <1>1, <1>2
  <2>6. Age(p.slot)' = Newest' - p.entry
    BY <2>2, <2>4, <2>5
  <2> QED BY <2>2, <2>6
<1> QED BY <1>1, <1>3 DEF Pointer

\* The stores of Set that do not move current leave a valid pointer as it is.
LEMMA StorePointer ==
    ASSUME PInv, SetStamp \/ SetValue, NEW r \in Reader, Pointer(r)
    PROVE  Pointer(r)'
<1> DEFINE p == reader[r]
<1> USE RingAssumption DEF PInv, RInv, RingTypes
<1>1. /\ p.slot \in Slot /\ p.entry \in 1..timesSet
      /\ UNCHANGED <<reader, current>>
      /\ timesSet \in Nat /\ timesSet' \in Nat /\ timesSet' >= timesSet
  BY DEF Pointer, SetStamp, SetValue
<1>2. Newest' = Newest /\ timesSet <= Len(history) /\ Len(history) \in Nat
  BY DEF Newest, Indexes, SetStamp, SetValue
<1>3. \A n \in 1..Len(history) : history'[n] = history[n]
  BY DEF SetStamp, SetValue
<1>4. history'[p.entry] = history[p.entry]
  BY <1>1, <1>2, <1>3
<1>5. Age(p.slot)' = Age(p.slot)
  BY <1>1 DEF Age
<1> QED BY <1>1, <1>2, <1>4, <1>5 DEF Pointer

\* A step of the check itself.
LEMMA ReadPointer ==
    ASSUME PInv, NEW r \in Reader, reader[r].st # "none", ReadTs(r) \/ ReadVal(r)
    PROVE  Pointer(r)'
<1> DEFINE p == reader[r]
<1>1. Pointer(r)
  BY DEF PInv
<1>2. /\ UNCHANGED <<data, current, timesSet, wpc, history>>
      /\ reader'[r].slot = p.slot /\ reader'[r].entry = p.entry
      /\ \/ /\ reader'[r].st = "ts" /\ reader'[r].ts = data[p.slot].ts
         \/ /\ reader'[r].st = "read" /\ reader'[r].ts = p.ts /\ p.st = "ts"
            /\ reader'[r].val = data[p.slot].val
  <2>1. CASE ReadTs(r)
    BY <2>1 DEF PInv, ReaderTypes, ReadTs
  <2>2. CASE ReadVal(r)
    BY <2>2 DEF PInv, ReaderTypes, ReadVal
  <2> QED BY <2>1, <2>2
<1>3. Newest' = Newest /\ Age(p.slot)' = Age(p.slot)
  BY <1>2 DEF Newest, Age
<1>4. ASSUME Newest < p.entry + Size
      PROVE  data[p.slot].ts = history[p.entry] /\ data[p.slot].val = p.entry
  <2>1. data[p.slot] = [ts |-> history[p.entry], val |-> p.entry]
    BY <1>1, <1>4, PointerSlot
  <2> QED BY <2>1
<1>5. Age(reader[r].slot)' = Age(p.slot)
  BY <1>2, <1>3 DEF Age
<1> QED BY <1>1, <1>2, <1>3, <1>4, <1>5 DEF Pointer

\* A pointer a check obtains between two calls of Set is a valid one.
LEMMA TakePointer ==
    ASSUME PInv, NEW r \in Reader, NEW slot, Take(r, slot),
           \/ slot = LastSlot \/ slot = FirstSlot
           \/ \E bound \in Time : slot = AtSlot(bound)
    PROVE  Pointer(r)'
<1>1. /\ wpc = "idle" /\ slot # -1
      /\ UNCHANGED <<data, current, timesSet, wpc, history>>
      /\ reader'[r] = [st |-> "ptr", slot |-> slot, entry |-> data[slot].val,
                       ts |-> 0, val |-> 0]
  BY DEF Take, PInv, ReaderTypes
<1>2. slot \in Slot /\ data[slot].val # 0
  BY <1>1, TakenSlot DEF PInv
<1>3. data[slot].val \in 1..timesSet /\ Age(slot) = Newest - data[slot].val
  BY <1>1, <1>2, TakenAge DEF PInv
<1>4. /\ reader'[r].slot = slot /\ reader'[r].entry = data[slot].val
      /\ reader'[r].st = "ptr"
  BY <1>1
<1>5. Newest' = Newest /\ Age(reader[r].slot)' = Age(slot)
  BY <1>1, <1>4 DEF Newest, Age
<1> QED BY <1>1, <1>2, <1>3, <1>4, <1>5 DEF Pointer

\* A step of a check keeps the types of what the checks know.
LEMMA ReaderTypesStep ==
    ASSUME RInv, ReaderTypes, NEW q \in Reader,
           ReadTs(q) \/ ReadVal(q) \/ Forget(q)
           \/ (\E slot : /\ Take(q, slot)
                         /\ \/ slot = LastSlot \/ slot = FirstSlot
                            \/ \E bound \in Time : slot = AtSlot(bound))
    PROVE  ReaderTypes'
<1> USE RingAssumption DEF ReaderTypes, RInv, RingTypes
<1> DEFINE R == [st : {"none", "ptr", "ts", "read"}, slot : Slot,
                 entry : Nat, ts : 0..MaxNow, val : Nat]
<1>1. /\ reader \in [Reader -> R] /\ reader[q] \in R /\ reader[q].slot \in Slot
      /\ data[reader[q].slot] \in [ts : 0..MaxNow, val : Nat]
  OBVIOUS
<1>2. CASE ReadTs(q)
  <2>1. reader' = [reader EXCEPT ![q] = [[reader[q] EXCEPT !.st = "ts"]
                                          EXCEPT !.ts = data[reader[q].slot].ts]]
    BY <1>2 DEF ReadTs
  <2>2. [[reader[q] EXCEPT !.st = "ts"] EXCEPT !.ts = data[reader[q].slot].ts] \in R
    BY <1>1
  <2> QED BY <1>1, <2>1, <2>2
<1>3. CASE ReadVal(q)
  <2>1. reader' = [reader EXCEPT ![q] = [[reader[q] EXCEPT !.st = "read"]
                                          EXCEPT !.val = data[reader[q].slot].val]]
    BY <1>3 DEF ReadVal
  <2>2. [[reader[q] EXCEPT !.st = "read"] EXCEPT !.val = data[reader[q].slot].val] \in R
    BY <1>1
  <2> QED BY <1>1, <2>1, <2>2
<1>4. CASE Forget(q)
  <2>1. NoRead \in R
    BY DEF NoRead, Slot
  <2> QED BY <1>1, <1>4, <2>1 DEF Forget
<1>5. ASSUME NEW slot, Take(q, slot),
             \/ slot = LastSlot \/ slot = FirstSlot
             \/ \E bound \in Time : slot = AtSlot(bound)
      PROVE  ReaderTypes'
  <2>1. slot \in Slot /\ data[slot].val \in Nat
    BY <1>5, TakenSlot DEF Take
  <2>2. [st |-> "ptr", slot |-> slot, entry |-> data[slot].val, ts |-> 0, val |-> 0] \in R
    BY <2>1
  <2> QED BY <1>1, <1>5, <2>2 DEF Take
<1> QED BY <1>2, <1>3, <1>4, <1>5

\* Every step keeps the ring and every pointer into it in order.
LEMMA NextPInv == PInv /\ [Next]_vars => PInv'
<1> SUFFICES ASSUME PInv, [Next]_vars PROVE PInv'
  OBVIOUS
<1>1. RInv'
  BY NextRInv DEF PInv
<1>2. ASSUME NEW q \in Reader,
             ReadTs(q) \/ ReadVal(q) \/ Forget(q)
             \/ (\E slot : /\ Take(q, slot)
                           /\ \/ slot = LastSlot \/ slot = FirstSlot
                              \/ \E bound \in Time : slot = AtSlot(bound))
      PROVE  PInv'
  <2>0. ReaderTypes'
    BY <1>2, ReaderTypesStep DEF PInv
  <2>1. /\ \A r \in Reader \ {q} : reader'[r] = reader[r]
        /\ UNCHANGED <<data, current, timesSet, wpc, history>>
    BY <1>2 DEF PInv, ReaderTypes, ReadTs, ReadVal, Forget, Take
  <2>2. ASSUME NEW r \in Reader \ {q}, reader'[r].st # "none" PROVE Pointer(r)'
    BY <2>1, <2>2 DEF PInv, Pointer, Age, Newest
  <2>3. ASSUME reader'[q].st # "none" PROVE Pointer(q)'
    <3>1. CASE ReadTs(q) \/ ReadVal(q)
      <4>1. reader[q].st # "none"
        BY <3>1 DEF ReadTs, ReadVal
      <4> QED BY <3>1, <4>1, ReadPointer
    <3>2. CASE Forget(q)
      BY <2>3, <3>2 DEF Forget, NoRead, PInv, ReaderTypes
    <3>3. CASE \E slot : /\ Take(q, slot)
                         /\ \/ slot = LastSlot \/ slot = FirstSlot
                            \/ \E bound \in Time : slot = AtSlot(bound)
      BY <3>3, TakePointer
    <3> QED BY <1>2, <3>1, <3>2, <3>3
  <2> QED BY <1>1, <2>0, <2>2, <2>3 DEF PInv
<1>3. CASE SetBegin \/ SetStamp \/ SetValue
  <2>1. reader' = reader
    BY <1>3 DEF SetBegin, SetStamp, SetValue
  <2> QED BY <1>1, <1>3, <2>1, BeginPointer, StorePointer DEF PInv, ReaderTypes
<1>4. CASE ClockMoves \/ UNCHANGED vars
  BY <1>1, <1>4 DEF PInv, ReaderTypes, ClockMoves, vars, Pointer, Age, Newest
<1>5. CASE \E r \in Reader :
             \/ Take(r, LastSlot) \/ Take(r, FirstSlot)
             \/ \E bound \in Time : Take(r, AtSlot(bound))
             \/ ReadTs(r) \/ ReadVal(r) \/ Forget(r)
  BY <1>2, <1>5
<1> QED BY <1>3, <1>4, <1>5 DEF Next

\* All states satisfy the invariant of the readers.
LEMMA PointerInvariant == Spec => []PInv
  BY InitPInv, NextPInv, PTL DEF Spec

\* All variables keep their types.
THEOREM TypesHold == Spec => []TypeOK
<1>1. PInv => TypeOK
  BY DEF PInv, RInv, RingTypes, ReaderTypes, TypeOK
<1> QED BY <1>1, PointerInvariant, PTL

\* A check that dereferences the pointer of a lookup outside of the lock gets
\* the time and the value of one call of Set, the one the lookup found, as
\* long as fewer than Size calls have begun since that one.
THEOREM PointerIsIntact == Spec => []PointerReadsOneEntry
<1>1. PInv => PointerReadsOneEntry
  BY DEF PInv, Pointer, PointerReadsOneEntry
<1> QED BY <1>1, PointerInvariant, PTL
=============================================================================
