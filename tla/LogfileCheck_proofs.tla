------------------------ MODULE LogfileCheck_proofs -------------------------
(***************************************************************************)
(* For all files, calls and bounds: types, and that a call skips only what *)
(* others listed or gave up on (SkipsOnlyAccounted).  The invariant says of*)
(* every saved position what SkipsOnlyAccounted says of a call, and that a *)
(* call at the end of its file has passed the size it is going to save.    *)
(***************************************************************************)
EXTENDS LogfileCheck, TLAPS

\* A saved position has nothing unaccounted for in front of it.
ParsedOK ==
    \A n \in Names :
        LET p == parsed[n]
        IN p # None =>
             /\ p.epoch <= epoch[p.real]
             /\ p.ino = p.real /\ p.real \notin lost /\ p.epoch = epoch[p.real]
                => Bytes(p.real, 0, p.offset) \subseteq Accounted

\* What an open file, as long as it is not truncated, means to its call.
RecordOK(r) ==
    /\ r.pc = "idle" => r.list = {}
    /\ Opened(r) =>
         /\ r.epoch <= epoch[r.inode]
         /\ r.epoch = epoch[r.inode] => /\ r.size <= size[r.inode]
                                        /\ r.pc = "eof" => r.size <= r.pos
         /\ r.pc \in {"scan", "eof"} => r.start <= r.pos
CallOK == \A c \in Calls : RecordOK(call[c])

IInv == TypeOK /\ ParsedOK /\ CallOK /\ SkipsOnlyAccounted

----------------------------------------------------------------------------
(* Types. *)

LEMMA BytesType == ASSUME NEW i \in Inodes, NEW a \in Nat, NEW b \in Nat
                   PROVE  Bytes(i, a, b) \subseteq Inodes \X Nat
BY DEF Bytes

LEMMA IdleType == Idle \in CallType
BY DEF Idle, Inode, CallType

LEMMA TypeInit == Init => TypeOK
<1> SUFFICES ASSUME Init PROVE TypeOK
  OBVIOUS
<1>1. call \in [Calls -> CallType] /\ \A c \in Calls : ~Opened(call[c])
  <2>1. Idle \in CallType /\ ~Opened(Idle)
    BY IdleType DEF Idle, Opened
  <2> QED BY <2>1 DEF Init
<1> QED BY <1>1, LogfileAssumption DEF Init, TypeOK, Inode

LEMMA CallUpdate ==
    ASSUME TypeOK, NEW c \in Calls, NEW r \in CallType, call' = [call EXCEPT ![c] = r],
           Opened(r) => r.name # None /\ r.inode # None
    PROVE  /\ call' \in [Calls -> CallType]
           /\ \A d \in Calls : Opened(call'[d]) => call'[d].name # None /\ call'[d].inode # None
BY DEF TypeOK

LEMMA FileOf ==
    ASSUME TypeOK, NEW c \in Calls, Opened(call[c])
    PROVE  /\ call[c].name \in Names /\ call[c].inode \in Inodes
           /\ call[c].epoch \in Nat /\ call[c].size \in Nat /\ call[c].ino \in Inode
           /\ call[c].start \in Nat /\ call[c].pos \in Nat
BY DEF TypeOK, CallType, Inode

\* What the end of a call adds to seen and missed.
LEMMA ReturnType ==
    ASSUME TypeOK, NEW c \in Calls, Return(c)
    PROVE  /\ seen' \subseteq Inodes \X Nat /\ missed' \subseteq Inodes \X Nat
           /\ call' = [call EXCEPT ![c] = Idle]
BY DEF Return, TypeOK, CallType

LEMMA FailType ==
    ASSUME TypeOK, NEW c \in Calls, NEW rest \in SUBSET (Inodes \X Nat), Fail(c, rest)
    PROVE  /\ seen' \subseteq Inodes \X Nat /\ missed' \subseteq Inodes \X Nat
           /\ call' = [call EXCEPT ![c] = Idle]
BY DEF Fail, TypeOK, CallType

LEMMA ClaimType ==
    ASSUME TypeOK, NEW c \in Calls, call[c].inode # None, NEW a \in Nat, NEW b \in Nat
    PROVE  Claim(c, a, b) \subseteq Inodes \X Nat
BY BytesType DEF Claim, TypeOK, CallType, Inode

LEMMA SavedType ==
    ASSUME TypeOK, NEW c \in Calls, call[c].pc = "load"
    PROVE  SavedOffset(c, parsed[call[c].name]) \in Nat
BY FileOf DEF SavedOffset, TypeOK, Opened

LEMMA PositionType ==
    ASSUME TypeOK, NEW c \in Calls, Opened(call[c]), Save(c)
    PROVE  /\ parsed' \in [Names -> {None} \union
                             [offset : Nat, ino : Inode, real : Inodes, epoch : Nat]]
           /\ parsed' = [parsed EXCEPT ![call[c].name] = Position(c)]
BY DEF Save, Position, TypeOK, CallType, Inode, Opened

\* A call that goes on to its next file.
LEMMA OnwardType ==
    ASSUME TypeOK, NEW c \in Calls, NEW told \in SUBSET (Inodes \X Nat), Onward(c, told)
    PROVE  /\ call' \in [Calls -> CallType]
           /\ \A d \in Calls : Opened(call'[d]) => call'[d].name # None /\ call'[d].inode # None
<1> DEFINE r == [Idle EXCEPT !.pc = "next", !.todo = call[c].todo,
                     !.offset = call[c].offset, !.list = call[c].list \union told]
<1>1. r \in CallType
  BY DEF Idle, Inode, TypeOK, CallType
<1>2. call' = [call EXCEPT ![c] = r] /\ r.pc = "next"
  BY DEF Onward, Idle
<1> HIDE DEF r
<1> QED BY <1>1, <1>2, CallUpdate DEF Opened

LEMMA AbortType ==
    ASSUME TypeOK, NEW c \in Calls, call[c].pc = "scan", Abort(c), faults' \in 0..MaxFaults
    PROVE  TypeOK'
<1>1. Claim(c, call[c].start, call[c].size) \subseteq Inodes \X Nat
  BY ClaimType, FileOf, LogfileAssumption DEF Opened
<1>2. seen' \subseteq Inodes \X Nat /\ missed' \subseteq Inodes \X Nat /\ call' = [call EXCEPT ![c] = Idle]
  BY <1>1, FailType DEF Abort
<1>3. parsed' \in [Names -> {None} \union
                        [offset : Nat, ino : Inode, real : Inodes, epoch : Nat]]
  BY PositionType DEF Abort, Opened
<1>4. \A d \in Calls : Opened(call'[d]) => call'[d].name # None /\ call'[d].inode # None
  BY <1>2 DEF TypeOK, Idle, Opened
<1> QED BY <1>2, <1>3, <1>4, IdleType DEF TypeOK, Abort

LEMMA TypeNext == TypeOK /\ [Next]_vars => TypeOK'
<1> SUFFICES ASSUME TypeOK, [Next]_vars PROVE TypeOK'
  OBVIOUS
<1> USE LogfileAssumption
<1>1. ASSUME NEW c \in Calls, Glob(c) PROVE TypeOK'
  <2>1. PICK o \in Offsets[c] \union {None} :
          call' = [call EXCEPT ![c] = [Idle EXCEPT !.pc = "next",
                      !.todo = {n \in Names : inodeOf[n] # None}, !.offset = o]]
    BY <1>1 DEF Glob
  <2>2. o \in Nat \union {None}
    OBVIOUS
  <2>3. [Idle EXCEPT !.pc = "next", !.todo = {n \in Names : inodeOf[n] # None}, !.offset = o]
          \in CallType
    BY <2>2 DEF Idle, Inode, CallType
  <2>4. \A d \in Calls : Opened(call'[d]) => call'[d].name # None /\ call'[d].inode # None
    BY <2>1 DEF TypeOK, Idle, Opened
  <2> QED BY <1>1, <2>1, <2>3, <2>4 DEF Glob, TypeOK
<1>2. ASSUME NEW c \in Calls, Open(c) PROVE TypeOK'
  <2>1. PICK n \in call[c].todo :
          IF inodeOf[n] = None
          THEN Fail(c, {})
          ELSE /\ call' = [call EXCEPT ![c] = [call[c] EXCEPT !.pc = "stat", !.todo = call[c].todo \ {n},
                              !.name = n, !.inode = inodeOf[n],
                              !.epoch = epoch[inodeOf[n]], !.size = size[inodeOf[n]]]]
               /\ UNCHANGED <<seen, missed>>
    BY <1>2 DEF Open
  <2>2. n \in Names
    BY DEF TypeOK, CallType
  <2>3. CASE inodeOf[n] = None
    <3>1. seen' \subseteq Inodes \X Nat /\ missed' \subseteq Inodes \X Nat /\ call' = [call EXCEPT ![c] = Idle]
      BY <2>1, <2>3, FailType
    <3>2. \A d \in Calls : Opened(call'[d]) => call'[d].name # None /\ call'[d].inode # None
      BY <3>1 DEF TypeOK, Idle, Opened
    <3> QED BY <1>2, <3>1, <3>2, IdleType DEF Open, TypeOK
  <2>4. CASE inodeOf[n] # None
    <3>1. inodeOf[n] \in Inodes
      BY <2>2, <2>4 DEF TypeOK, Inode
    <3> DEFINE r == [call[c] EXCEPT !.pc = "stat", !.todo = call[c].todo \ {n},
                        !.name = n, !.inode = inodeOf[n],
                        !.epoch = epoch[inodeOf[n]], !.size = size[inodeOf[n]]]
    <3>2. r \in CallType /\ r.name = n /\ r.inode = inodeOf[n]
      <4>1. call[c] \in CallType
        BY DEF TypeOK
      <4>2. epoch[inodeOf[n]] \in Nat /\ size[inodeOf[n]] \in Nat
        BY <3>1 DEF TypeOK
      <4> QED BY <2>2, <3>1, <4>1, <4>2 DEF CallType, Inode
    <3>3. call' = [call EXCEPT ![c] = r] /\ UNCHANGED <<seen, missed>>
      BY <2>1, <2>4
    <3> HIDE DEF r
    <3>4. UNCHANGED <<inodeOf, size, epoch, parsed, lost, writes, faults>>
      BY <1>2 DEF Open
    <3>5. r.name # None /\ r.inode # None
      BY <2>2, <2>4, <3>2
    <3> QED BY <3>2, <3>3, <3>4, <3>5, CallUpdate DEF TypeOK
  <2> QED BY <2>3, <2>4
<1>3. ASSUME NEW c \in Calls, GetInode(c) PROVE TypeOK'
  <2> DEFINE r == [call[c] EXCEPT !.pc = "load", !.ino = inodeOf[call[c].name]]
  <2>1. call[c].name \in Names /\ call[c].inode \in Inodes
    BY <1>3, FileOf DEF GetInode, Opened
  <2>2. r \in CallType /\ r.name = call[c].name /\ r.inode = call[c].inode
    <3>1. call[c] \in CallType /\ inodeOf[call[c].name] \in Inode
      BY <2>1 DEF TypeOK
    <3> QED BY <3>1 DEF CallType
  <2>3. call' = [call EXCEPT ![c] = r]
    BY <1>3 DEF GetInode
  <2> HIDE DEF r
  <2> QED BY <1>3, <2>1, <2>2, <2>3, CallUpdate DEF GetInode, TypeOK
<1>4. ASSUME NEW c \in Calls, Start(c) PROVE TypeOK'
  <2> DEFINE p == parsed[call[c].name]
             given == call[c].offset # None
             from == IF given THEN call[c].offset ELSE SavedOffset(c, p)
             skipped == IF given THEN Claim(c, 0, from) ELSE {}
  <2>1. from \in Nat
    BY <1>4, SavedType DEF Start, TypeOK, CallType
  <2>2. skipped \in SUBSET (Inodes \X Nat)
    <3>1. call[c].inode # None
      BY <1>4 DEF Start, TypeOK, Opened
    <3>2. from \in Nat => Claim(c, 0, from) \subseteq Inodes \X Nat
      BY <3>1, ClaimType
    <3> QED BY <2>1, <3>2
  <2>3. CASE from > call[c].size
    <3>1. Onward(c, skipped) /\ Save(c) /\ UNCHANGED lost
      BY <1>4, <2>3 DEF Start
    <3> HIDE DEF skipped, from, given, p
    <3>2. call[c].pc = "load" /\ UNCHANGED <<inodeOf, size, epoch, seen, missed, writes, faults>>
      BY <1>4 DEF Start
    <3> QED BY <2>2, <3>1, <3>2, OnwardType, PositionType DEF TypeOK, Opened
  <2>4. CASE ~(from > call[c].size)
    <3>1. /\ call' = [call EXCEPT ![c] = [call[c] EXCEPT !.pc = "scan", !.start = from,
                              !.pos = from, !.lines = 0, !.list = call[c].list \union skipped]]
          /\ lost' \in {lost, lost \union {call[c].inode}}
          /\ UNCHANGED parsed
      BY <1>4, <2>4 DEF Start
    <3> HIDE DEF skipped, from, given, p
    <3>2. call[c].pc = "load" /\ UNCHANGED <<inodeOf, size, epoch, seen, missed, writes, faults>>
      BY <1>4 DEF Start
    <3>3. call[c].name \in Names /\ call[c].inode \in Inodes
      BY <3>2, FileOf DEF Opened
    <3> DEFINE r == [call[c] EXCEPT !.pc = "scan", !.start = from,
                        !.pos = from, !.lines = 0, !.list = call[c].list \union skipped]
    <3>4. r \in CallType /\ r.name = call[c].name /\ r.inode = call[c].inode
      <4>1. call[c] \in CallType
        BY DEF TypeOK
      <4>2. call[c].list \union skipped \in SUBSET (Inodes \X Nat)
        BY <2>2, <4>1 DEF CallType
      <4> QED BY <2>1, <4>1, <4>2 DEF CallType
    <3>5. call' = [call EXCEPT ![c] = r]
      BY <3>1
    <3> HIDE DEF r
    <3>6. lost' \subseteq Inodes
      BY <3>1, <3>3 DEF TypeOK
    <3> QED BY <3>1, <3>2, <3>3, <3>4, <3>5, <3>6, CallUpdate DEF TypeOK
  <2> QED BY <2>3, <2>4
<1>5. ASSUME NEW c \in Calls, Scan(c) PROVE TypeOK'
  <2>1. PICK end \in 0..size[call[c].inode] :
          call' = [call EXCEPT ![c] = [call[c] EXCEPT
                        !.pc = IF end \in LineEnds THEN "scan" ELSE "eof",
                        !.pos = end, !.lines = call[c].lines + 1,
                        !.list = call[c].list \union Bytes(call[c].inode, call[c].pos, end)]]
    BY <1>5 DEF Scan
  <2>2. call[c].inode \in Inodes
    BY <1>5, FileOf DEF Scan, Opened
  <2>3. end \in Nat
    BY <2>2 DEF TypeOK
  <2>4. Bytes(call[c].inode, call[c].pos, end) \subseteq Inodes \X Nat
    BY <1>5, <2>2, <2>3, BytesType, FileOf DEF Scan, Opened
  <2> DEFINE r == [call[c] EXCEPT !.pc = IF end \in LineEnds THEN "scan" ELSE "eof",
                      !.pos = end, !.lines = call[c].lines + 1,
                      !.list = call[c].list \union Bytes(call[c].inode, call[c].pos, end)]
  <2>5. r \in CallType /\ r.name = call[c].name /\ r.inode = call[c].inode
    <3>1. call[c] \in CallType
      BY DEF TypeOK
    <3>2. call[c].list \union Bytes(call[c].inode, call[c].pos, end) \in SUBSET (Inodes \X Nat)
      BY <2>4, <3>1 DEF CallType
    <3>3. call[c].lines + 1 \in Nat
      BY <3>1 DEF CallType
    <3> QED BY <2>3, <3>1, <3>2, <3>3 DEF CallType
  <2>6. call' = [call EXCEPT ![c] = r]
    BY <2>1
  <2>7. call[c].name # None /\ call[c].inode # None
    BY <1>5 DEF Scan, TypeOK, Opened
  <2> HIDE DEF r
  <2> QED BY <1>5, <2>5, <2>6, <2>7, CallUpdate DEF Scan, TypeOK
<1>6. ASSUME NEW c \in Calls, TooManyLines(c) PROVE TypeOK'
  BY <1>6, AbortType DEF TooManyLines, TypeOK
<1>7. ASSUME NEW c \in Calls, EndOfFile(c) PROVE TypeOK'
  BY <1>7, OnwardType, PositionType DEF EndOfFile, TypeOK, Opened
<1>8. ASSUME NEW c \in Calls, Answer(c) PROVE TypeOK'
  <2>1. seen' \subseteq Inodes \X Nat /\ missed' \subseteq Inodes \X Nat /\ call' = [call EXCEPT ![c] = Idle]
    BY <1>8, ReturnType DEF Answer
  <2>2. \A d \in Calls : Opened(call'[d]) => call'[d].name # None /\ call'[d].inode # None
    BY <2>1 DEF TypeOK, Idle, Opened
  <2> QED BY <1>8, <2>1, <2>2, IdleType DEF Answer, TypeOK
<1>9. ASSUME NEW c \in Calls, Canceled(c) PROVE TypeOK'
  <2>1. faults' \in 0..MaxFaults
    BY <1>9 DEF Canceled, TypeOK
  <2>2. CASE Fail(c, {}) /\ UNCHANGED <<inodeOf, size, epoch, parsed, lost, writes>>
    <3>1. seen' \subseteq Inodes \X Nat /\ missed' \subseteq Inodes \X Nat /\ call' = [call EXCEPT ![c] = Idle]
      BY <2>2, FailType
    <3>2. \A d \in Calls : Opened(call'[d]) => call'[d].name # None /\ call'[d].inode # None
      BY <3>1 DEF TypeOK, Idle, Opened
    <3> QED BY <2>1, <2>2, <3>1, <3>2, IdleType DEF TypeOK
  <2>3. CASE call[c].pc = "scan" /\ Abort(c)
    BY <2>1, <2>3, AbortType
  <2> QED BY <1>9, <2>2, <2>3 DEF Canceled
<1>10. CASE Restart
  <2>1. Idle \in CallType /\ ~Opened(Idle)
    BY IdleType DEF Idle, Opened
  <2> QED BY <1>10, <2>1 DEF Restart, TypeOK
<1>11. ASSUME NEW n \in Names, Write(n) PROVE TypeOK'
  BY <1>11 DEF Write, WriterMoves, TypeOK, Inode
<1>12. ASSUME NEW n \in Names, Truncate(n) PROVE TypeOK'
  <2>1. inodeOf[n] \in Inodes
    BY <1>12 DEF Truncate, TypeOK, Inode
  <2>2. \A c \in Calls : LET r == [call[c] EXCEPT !.list = {b \in call[c].list : b[1] # inodeOf[n]}]
                        IN r \in CallType /\ r.pc = call[c].pc
                           /\ r.name = call[c].name /\ r.inode = call[c].inode
    BY DEF TypeOK, CallType
  <2>3. call' \in [Calls -> CallType]
        /\ \A d \in Calls : Opened(call'[d]) => call'[d].name # None /\ call'[d].inode # None
    BY <1>12, <2>2 DEF Truncate, TypeOK, Opened
  <2> QED BY <1>12, <2>1, <2>3 DEF Truncate, WriterMoves, TypeOK
<1>13. ASSUME NEW n \in Names, Unlink(n) PROVE TypeOK'
  BY <1>13 DEF Unlink, WriterMoves, TypeOK, Inode
<1>14. ASSUME NEW n \in Names, Create(n) PROVE TypeOK'
  <2>1. (CHOOSE i \in Fresh : TRUE) \in Inodes
    BY <1>14 DEF Create, Fresh
  <2> QED BY <1>14, <2>1 DEF Create, WriterMoves, TypeOK, Inode
<1>15. CASE UNCHANGED vars
  BY <1>15 DEF vars, TypeOK
<1> QED BY <1>1, <1>2, <1>3, <1>4, <1>5, <1>6, <1>7, <1>8, <1>9, <1>10, <1>11, <1>12, <1>13,
           <1>14, <1>15 DEF Next, CallStep

(* Theorem: every variable keeps its type, whatever files, calls and bounds. *)
THEOREM TypesHold == Spec => []TypeOK
BY TypeInit, TypeNext, PTL DEF Spec

----------------------------------------------------------------------------
(* What was accounted for stays so, except in a truncated file.             *)

LEMMA AccountedKept ==
    ASSUME TypeOK, NEW c \in Calls, NEW r, call' = [call EXCEPT ![c] = r],
           seen \union missed \subseteq seen' \union missed',
           call[c].list \subseteq r.list \union seen' \union missed'
    PROVE  /\ Accounted \subseteq Accounted'
           /\ seen' \union missed' \subseteq Accounted' /\ r.list \subseteq Accounted'
<1>1. \A d \in Calls : call'[d] = IF d = c THEN r ELSE call[d]
  BY DEF TypeOK
<1> QED BY <1>1 DEF Accounted

LEMMA ReturnTells ==
    ASSUME TypeOK, NEW c \in Calls, Return(c)
    PROVE  Accounted \subseteq Accounted'
<1>1. /\ call' = [call EXCEPT ![c] = Idle]
      /\ seen \union missed \subseteq seen' \union missed'
      /\ call[c].list \subseteq Idle.list \union seen' \union missed'
  BY DEF Return
<1> QED BY <1>1, AccountedKept

LEMMA FailTells ==
    ASSUME TypeOK, NEW c \in Calls, NEW rest, Fail(c, rest)
    PROVE  Accounted \subseteq Accounted' /\ rest \subseteq Accounted'
<1>1. /\ call' = [call EXCEPT ![c] = Idle]
      /\ seen \union missed \subseteq seen' \union missed'
      /\ call[c].list \subseteq Idle.list \union seen' \union missed'
      /\ rest \subseteq seen' \union missed'
  BY DEF Fail
<1> QED BY <1>1, AccountedKept

LEMMA OnwardTells ==
    ASSUME TypeOK, NEW c \in Calls, NEW told, Onward(c, told), UNCHANGED <<seen, missed>>
    PROVE  Accounted \subseteq Accounted' /\ told \subseteq Accounted'
<1> DEFINE r == [Idle EXCEPT !.pc = "next", !.todo = call[c].todo,
                     !.offset = call[c].offset, !.list = call[c].list \union told]
<1>1. call' = [call EXCEPT ![c] = r] /\ r.list = call[c].list \union told
  BY DEF Onward, Idle
<1> HIDE DEF r
<1> QED BY <1>1, AccountedKept

LEMMA ParsedKept ==
    ASSUME TypeOK, ParsedOK, UNCHANGED <<parsed, epoch>>, lost \subseteq lost', Accounted \subseteq Accounted'
    PROVE  ParsedOK'
BY DEF ParsedOK, TypeOK

\* Saving the size of a file of which everything up to it is told.
LEMMA SaveKeeps ==
    ASSUME TypeOK, ParsedOK, CallOK, NEW c \in Calls, Opened(call[c]), Save(c),
           UNCHANGED <<epoch, lost>>, Accounted \subseteq Accounted',
           call[c].inode \notin lost /\ call[c].epoch = epoch[call[c].inode]
             => Bytes(call[c].inode, 0, call[c].size) \subseteq Accounted'
    PROVE  ParsedOK'
<1>1. parsed' = [parsed EXCEPT ![call[c].name] = Position(c)]
  BY DEF Save
<1>2. call[c].epoch <= epoch[call[c].inode]
  BY DEF CallOK, RecordOK
<1>3. ASSUME NEW n \in Names, parsed'[n] # None
      PROVE  /\ parsed'[n].epoch <= epoch'[parsed'[n].real]
             /\ parsed'[n].ino = parsed'[n].real /\ parsed'[n].real \notin lost'
                  /\ parsed'[n].epoch = epoch'[parsed'[n].real]
                => Bytes(parsed'[n].real, 0, parsed'[n].offset) \subseteq Accounted'
  <2>1. CASE n = call[c].name
    BY <1>1, <1>2, <2>1 DEF TypeOK, Position
  <2>2. CASE n # call[c].name
    <3>1. parsed'[n] = parsed[n]
      BY <1>1, <2>2 DEF TypeOK
    <3> QED BY <3>1, <1>3 DEF ParsedOK
  <2> QED BY <2>1, <2>2
<1> QED BY <1>3 DEF ParsedOK, Bytes

\* A call changes its own record only.
LEMMA CallMoves ==
    ASSUME TypeOK, CallOK, SkipsOnlyAccounted, NEW c \in Calls, NEW r, call' = [call EXCEPT ![c] = r],
           UNCHANGED <<size, epoch>>, lost \subseteq lost', Accounted \subseteq Accounted', RecordOK(r),
           r.pc \in {"scan", "eof"} /\ r.inode \notin lost' /\ r.epoch = epoch[r.inode]
             => Bytes(r.inode, 0, r.pos) \subseteq Accounted'
    PROVE  CallOK' /\ SkipsOnlyAccounted'
<1>1. \A d \in Calls : call'[d] = IF d = c THEN r ELSE call[d]
  BY DEF TypeOK
<1>2. CallOK'
  <2> SUFFICES ASSUME NEW d \in Calls PROVE RecordOK(call[d])'
    BY DEF CallOK
  <2> QED BY <1>1 DEF CallOK, RecordOK, Opened
<1>3. SkipsOnlyAccounted'
  <2> SUFFICES ASSUME NEW d \in Calls,
                      call'[d].pc \in {"scan", "eof"}, call'[d].inode \notin lost',
                      call'[d].epoch = epoch'[call'[d].inode]
               PROVE  Bytes(call'[d].inode, 0, call'[d].pos) \subseteq Accounted'
    BY DEF SkipsOnlyAccounted, Bytes
  <2>1. CASE d = c
    BY <1>1, <2>1
  <2>2. CASE d # c
    <3>1. call'[d] = call[d]
      BY <1>1, <2>2
    <3> QED BY <3>1 DEF SkipsOnlyAccounted
  <2> QED BY <2>1, <2>2
<1> QED BY <1>2, <1>3

LEMMA ClosedMoves ==
    ASSUME TypeOK, CallOK, SkipsOnlyAccounted, NEW c \in Calls, NEW r, call' = [call EXCEPT ![c] = r],
           UNCHANGED <<size, epoch>>, lost \subseteq lost', Accounted \subseteq Accounted', ~Opened(r),
           r.pc = "idle" => r.list = {}
    PROVE  CallOK' /\ SkipsOnlyAccounted'
<1>1. RecordOK(r) /\ ~(r.pc \in {"scan", "eof"})
  BY DEF RecordOK, Opened
<1> QED BY <1>1, CallMoves

LEMMA AbortKeeps ==
    ASSUME IInv, NEW c \in Calls, call[c].pc = "scan", Abort(c)
    PROVE  ParsedOK' /\ CallOK' /\ SkipsOnlyAccounted'
<1> DEFINE claim == Claim(c, call[c].start, call[c].size)
<1>1. Fail(c, claim) /\ Save(c) /\ UNCHANGED <<inodeOf, size, epoch, lost, writes>>
  BY DEF Abort
<1>2. Accounted \subseteq Accounted' /\ claim \subseteq Accounted'
  BY <1>1, FailTells DEF IInv
<1>3. Opened(call[c])
  BY DEF Opened
<1>4. call[c].inode \notin lost /\ call[c].epoch = epoch[call[c].inode]
        => Bytes(call[c].inode, 0, call[c].size) \subseteq Accounted'
  <2> SUFFICES ASSUME call[c].inode \notin lost, call[c].epoch = epoch[call[c].inode]
               PROVE  Bytes(call[c].inode, 0, call[c].size) \subseteq Accounted'
    OBVIOUS
  <2>1. Bytes(call[c].inode, 0, call[c].pos) \subseteq Accounted
    BY DEF IInv, SkipsOnlyAccounted
  <2>2. call[c].start <= call[c].pos
    BY <1>3 DEF IInv, CallOK, RecordOK
  <2>3. claim = Bytes(call[c].inode, call[c].start, call[c].size)
    BY DEF Claim
  <2>4. call[c].pos \in Nat /\ call[c].start \in Nat /\ call[c].size \in Nat
    BY <1>3, FileOf DEF IInv
  <2> QED BY <1>2, <2>1, <2>2, <2>3, <2>4 DEF Bytes
<1>5. ParsedOK'
  BY <1>1, <1>2, <1>3, <1>4, SaveKeeps DEF IInv
<1>6. call' = [call EXCEPT ![c] = Idle] /\ ~Opened(Idle) /\ Idle.list = {}
  BY <1>1 DEF Fail, Idle, Opened
<1> QED BY <1>1, <1>2, <1>5, <1>6, ClosedMoves DEF IInv

----------------------------------------------------------------------------
LEMMA InvNext == IInv /\ TypeOK' /\ [Next]_vars => IInv'
<1> SUFFICES ASSUME IInv, TypeOK', [Next]_vars PROVE ParsedOK' /\ CallOK' /\ SkipsOnlyAccounted'
  BY DEF IInv
<1> USE LogfileAssumption
<1>1. ASSUME NEW c \in Calls, Glob(c) PROVE ParsedOK' /\ CallOK' /\ SkipsOnlyAccounted'
  <2>1. PICK o \in Offsets[c] \union {None} :
          call' = [call EXCEPT ![c] = [Idle EXCEPT !.pc = "next",
                      !.todo = {n \in Names : inodeOf[n] # None}, !.offset = o]]
    BY <1>1 DEF Glob
  <2> DEFINE r == [Idle EXCEPT !.pc = "next", !.todo = {n \in Names : inodeOf[n] # None},
                       !.offset = o]
  <2>2. ~Opened(r) /\ call' = [call EXCEPT ![c] = r]
    BY <2>1 DEF Opened, Idle
  <2>3. call[c].list \subseteq r.list \union seen' \union missed'
    <3>1. call[c].pc = "idle"
      BY <1>1 DEF Glob
    <3> QED BY <3>1 DEF IInv, CallOK, RecordOK
  <2>4. r.pc # "idle"
    BY DEF Idle
  <2>5. UNCHANGED <<size, epoch, parsed, seen, missed, lost>>
    BY <1>1 DEF Glob
  <2> HIDE DEF r
  <2>6. Accounted \subseteq Accounted'
    BY <2>2, <2>3, <2>5, AccountedKept DEF IInv
  <2> QED BY <2>2, <2>4, <2>5, <2>6, ClosedMoves, ParsedKept DEF IInv
<1>2. ASSUME NEW c \in Calls, Open(c) PROVE ParsedOK' /\ CallOK' /\ SkipsOnlyAccounted'
  <2>1. PICK n \in call[c].todo :
          IF inodeOf[n] = None
          THEN Fail(c, {})
          ELSE /\ call' = [call EXCEPT ![c] = [call[c] EXCEPT !.pc = "stat",
                              !.todo = call[c].todo \ {n},
                              !.name = n, !.inode = inodeOf[n],
                              !.epoch = epoch[inodeOf[n]], !.size = size[inodeOf[n]]]]
               /\ UNCHANGED <<seen, missed>>
    BY <1>2 DEF Open
  <2>2. UNCHANGED <<size, epoch, parsed, lost>>
    BY <1>2 DEF Open
  <2>3. CASE inodeOf[n] = None
    <3>1. Fail(c, {})
      BY <2>1, <2>3
    <3>2. Accounted \subseteq Accounted'
      BY <3>1, FailTells DEF IInv
    <3>3. call' = [call EXCEPT ![c] = Idle] /\ ~Opened(Idle) /\ Idle.list = {}
      BY <3>1 DEF Fail, Idle, Opened
    <3> QED BY <2>2, <3>2, <3>3, ClosedMoves, ParsedKept DEF IInv
  <2>4. CASE inodeOf[n] # None
    <3>1. inodeOf[n] \in Inodes
      <4>1. n \in Names
        BY DEF IInv, TypeOK, CallType
      <4> QED BY <2>4, <4>1 DEF IInv, TypeOK, Inode
    <3> DEFINE r == [call[c] EXCEPT !.pc = "stat", !.todo = call[c].todo \ {n},
                        !.name = n, !.inode = inodeOf[n],
                        !.epoch = epoch[inodeOf[n]], !.size = size[inodeOf[n]]]
    <3>2. call[c] \in CallType
      BY DEF IInv, TypeOK
    <3>3. /\ r.pc = "stat" /\ r.list = call[c].list /\ r.inode = inodeOf[n]
          /\ r.epoch = epoch[inodeOf[n]] /\ r.size = size[inodeOf[n]]
      BY <3>2 DEF CallType
    <3>4. call' = [call EXCEPT ![c] = r] /\ UNCHANGED <<seen, missed>>
      BY <2>1, <2>4
    <3> HIDE DEF r
    <3>5. epoch[inodeOf[n]] \in Nat /\ size[inodeOf[n]] \in Nat
      BY <3>1 DEF IInv, TypeOK
    <3>6. RecordOK(r)
      BY <3>3, <3>5 DEF RecordOK, Opened
    <3>7. Accounted \subseteq Accounted'
      BY <3>3, <3>4, AccountedKept DEF IInv
    <3> QED BY <2>2, <3>3, <3>4, <3>6, <3>7, CallMoves, ParsedKept DEF IInv
  <2> QED BY <2>3, <2>4
<1>3. ASSUME NEW c \in Calls, GetInode(c) PROVE ParsedOK' /\ CallOK' /\ SkipsOnlyAccounted'
  <2> DEFINE r == [call[c] EXCEPT !.pc = "load", !.ino = inodeOf[call[c].name]]
  <2>1. call[c] \in CallType
    BY DEF IInv, TypeOK
  <2>2. /\ r.pc = "load" /\ r.list = call[c].list /\ r.inode = call[c].inode
        /\ r.epoch = call[c].epoch /\ r.size = call[c].size
    BY <2>1 DEF CallType
  <2>3. call' = [call EXCEPT ![c] = r] /\ UNCHANGED <<size, epoch, parsed, seen, missed, lost>>
    BY <1>3 DEF GetInode
  <2> HIDE DEF r
  <2>4. RecordOK(r)
    <3>1. Opened(call[c])
      BY <1>3 DEF GetInode, Opened
    <3> QED BY <2>2, <3>1 DEF IInv, CallOK, RecordOK, Opened
  <2>5. Accounted \subseteq Accounted'
    BY <2>2, <2>3, AccountedKept DEF IInv
  <2> QED BY <2>2, <2>3, <2>4, <2>5, CallMoves, ParsedKept DEF IInv
<1>4. ASSUME NEW c \in Calls, Start(c) PROVE ParsedOK' /\ CallOK' /\ SkipsOnlyAccounted'
  <2> DEFINE p == parsed[call[c].name]
             given == call[c].offset # None
             from == IF given THEN call[c].offset ELSE SavedOffset(c, p)
             skipped == IF given THEN Claim(c, 0, from) ELSE {}
  <2>1. call[c].pc = "load" /\ UNCHANGED <<inodeOf, size, epoch, seen, missed, writes, faults>>
    BY <1>4 DEF Start
  <2>2. Opened(call[c])
    BY <2>1 DEF Opened
  <2>3. /\ call[c].inode \in Inodes /\ call[c].name \in Names
        /\ call[c].size \in Nat /\ call[c].epoch \in Nat /\ from \in Nat
    <3>1. call[c].offset \in Nat \union {None}
      BY DEF IInv, TypeOK, CallType
    <3> QED BY <2>1, <2>2, <3>1, SavedType, FileOf DEF IInv
  \* What is in front of the start is told.
  <2>4. ASSUME call[c].epoch = epoch[call[c].inode],
               ~given => call[c].inode \notin lost /\ ~Misled(c, p)
        PROVE  Bytes(call[c].inode, 0, from) \subseteq Accounted \union skipped
    <3>1. CASE given
      BY <2>4, <3>1 DEF Claim
    <3>2. CASE ~given /\ from = 0
      BY <3>2 DEF Bytes
    <3>3. CASE ~given /\ from # 0
      <4>1. /\ p # None /\ p.offset <= call[c].size /\ from = p.offset
            /\ call[c].ino = None \/ p.ino = None \/ call[c].ino = p.ino
        <5>1. from = SavedOffset(c, p)
          BY <3>3
        <5>2. p # None => p.offset \in Nat
          BY <2>3 DEF IInv, TypeOK
        <5> HIDE DEF from, p
        <5> QED BY <2>3, <3>3, <5>1, <5>2 DEF SavedOffset
      <4>2. p.ino = p.real /\ call[c].ino = call[c].inode /\ p.epoch = call[c].epoch
        BY <2>4, <3>3, <4>1 DEF Misled
      <4>3. p.real \in Inodes
        BY <2>3, <4>1 DEF IInv, TypeOK
      <4>4. p.real = call[c].inode
        BY <2>3, <4>1, <4>2, <4>3
      <4>5. Bytes(p.real, 0, p.offset) \subseteq Accounted
        BY <2>3, <2>4, <3>3, <4>1, <4>2, <4>4 DEF IInv, ParsedOK
      <4> QED BY <4>1, <4>4, <4>5
    <3> QED BY <3>1, <3>2, <3>3
  <2>5. CASE from > call[c].size
    <3>1. Onward(c, skipped) /\ Save(c) /\ UNCHANGED lost
      BY <1>4, <2>5 DEF Start
    <3>2. given
      BY <2>3, <2>5 DEF SavedOffset, IInv, TypeOK
    <3>3. call[c].epoch = epoch[call[c].inode]
            => Bytes(call[c].inode, 0, call[c].size) \subseteq skipped
      BY <2>3, <2>5, <3>2 DEF Claim, Bytes
    <3> DEFINE r == [Idle EXCEPT !.pc = "next", !.todo = call[c].todo,
                        !.offset = call[c].offset, !.list = call[c].list \union skipped]
    <3>4. call' = [call EXCEPT ![c] = r] /\ ~Opened(r) /\ r.pc # "idle"
      BY <3>1 DEF Onward, Opened, Idle
    <3> HIDE DEF skipped, from, given, p, r
    <3>5. Accounted \subseteq Accounted' /\ skipped \subseteq Accounted'
      BY <2>1, <3>1, OnwardTells DEF IInv
    <3>6. ParsedOK'
      BY <2>1, <2>2, <3>1, <3>3, <3>5, SaveKeeps DEF IInv
    <3> QED BY <2>1, <3>1, <3>4, <3>5, <3>6, ClosedMoves DEF IInv
  <2>6. CASE ~(from > call[c].size)
    <3> DEFINE r == [call[c] EXCEPT !.pc = "scan", !.start = from,
                        !.pos = from, !.lines = 0, !.list = call[c].list \union skipped]
    <3>1. /\ call' = [call EXCEPT ![c] = r]
          /\ lost' = IF ~given /\ Misled(c, p) THEN lost \union {call[c].inode} ELSE lost
          /\ UNCHANGED parsed
      BY <1>4, <2>6 DEF Start
    <3>2. /\ r.pc = "scan" /\ r.start = from /\ r.pos = from /\ r.inode = call[c].inode
          /\ r.epoch = call[c].epoch /\ r.size = call[c].size
          /\ r.list = call[c].list \union skipped
      <4>1. call[c] \in CallType
        BY DEF IInv, TypeOK
      <4> HIDE DEF skipped, from
      <4> QED BY <4>1 DEF CallType
    <3>3. ~given /\ call[c].inode \notin lost' => call[c].inode \notin lost /\ ~Misled(c, p)
      BY <3>1
    <3>4. call[c].inode \notin lost' /\ call[c].epoch = epoch[call[c].inode]
            => Bytes(call[c].inode, 0, from) \subseteq Accounted \union skipped
      BY <2>4, <3>3
    <3>5. lost \subseteq lost'
      BY <3>1
    <3> HIDE DEF skipped, from, given, p, r
    <3>6. Accounted \subseteq Accounted' /\ skipped \subseteq Accounted'
      BY <2>1, <3>1, <3>2, AccountedKept DEF IInv
    <3>7. RecordOK(r)
      BY <2>2, <2>3, <3>2 DEF IInv, CallOK, RecordOK, Opened
    <3> QED BY <2>1, <3>1, <3>2, <3>4, <3>5, <3>6, <3>7, CallMoves, ParsedKept DEF IInv
  <2> QED BY <2>5, <2>6
<1>5. ASSUME NEW c \in Calls, Scan(c) PROVE ParsedOK' /\ CallOK' /\ SkipsOnlyAccounted'
  <2>1. PICK end \in 0..size[call[c].inode] :
          /\ LineEnd(call[c].inode, call[c].pos, end)
          /\ call' = [call EXCEPT ![c] = [call[c] EXCEPT
                        !.pc = IF end \in LineEnds THEN "scan" ELSE "eof",
                        !.pos = end, !.lines = call[c].lines + 1,
                        !.list = call[c].list \union Bytes(call[c].inode, call[c].pos, end)]]
    BY <1>5 DEF Scan
  <2> DEFINE r == [call[c] EXCEPT !.pc = IF end \in LineEnds THEN "scan" ELSE "eof",
                      !.pos = end, !.lines = call[c].lines + 1,
                      !.list = call[c].list \union Bytes(call[c].inode, call[c].pos, end)]
  <2>2. Opened(call[c]) /\ call[c].pc = "scan" /\ UNCHANGED <<size, epoch, parsed, seen, missed, lost>>
    BY <1>5 DEF Scan, Opened
  <2>3. /\ call[c].inode \in Inodes /\ call[c].epoch \in Nat /\ call[c].size \in Nat
        /\ call[c].pos \in Nat /\ call[c].start \in Nat
    BY <2>2, FileOf DEF IInv
  <2>4. size[call[c].inode] \in Nat /\ end \in Nat
    BY <2>3 DEF IInv, TypeOK
  <2>5. /\ r.pc \in {"scan", "eof"} /\ (r.pc = "eof" => end \notin LineEnds)
        /\ r.start = call[c].start /\ r.pos = end /\ r.inode = call[c].inode
        /\ r.epoch = call[c].epoch /\ r.size = call[c].size
        /\ r.list = call[c].list \union Bytes(call[c].inode, call[c].pos, end)
    <3>1. call[c] \in CallType
      BY DEF IInv, TypeOK
    <3> QED BY <3>1 DEF CallType
  <2>6. call' = [call EXCEPT ![c] = r]
    BY <2>1
  <2> HIDE DEF r
  <2>7. Accounted \subseteq Accounted' /\ Bytes(call[c].inode, call[c].pos, end) \subseteq Accounted'
    BY <2>2, <2>5, <2>6, AccountedKept DEF IInv
  <2>8. RecordOK(r)
    <3>1. call[c].pos <= end
      BY <2>1, <2>3, <2>4 DEF LineEnd
    <3>2. r.pc = "eof" => end = size[call[c].inode]
      BY <2>1, <2>5 DEF LineEnd
    <3>3. RecordOK(call[c])
      BY DEF IInv, CallOK
    <3> QED BY <2>2, <2>3, <2>4, <2>5, <3>1, <3>2, <3>3 DEF RecordOK, Opened
  <2>9. call[c].inode \notin lost /\ call[c].epoch = epoch[call[c].inode]
          => Bytes(call[c].inode, 0, end) \subseteq Accounted'
    <3> SUFFICES ASSUME call[c].inode \notin lost, call[c].epoch = epoch[call[c].inode]
                 PROVE  Bytes(call[c].inode, 0, end) \subseteq Accounted'
      OBVIOUS
    <3>1. Bytes(call[c].inode, 0, call[c].pos) \subseteq Accounted
      BY <2>2 DEF IInv, SkipsOnlyAccounted
    <3> QED BY <2>3, <2>4, <2>7, <3>1 DEF Bytes
  <2> QED BY <2>2, <2>5, <2>6, <2>7, <2>8, <2>9, CallMoves, ParsedKept DEF IInv
<1>6. ASSUME NEW c \in Calls, TooManyLines(c) PROVE ParsedOK' /\ CallOK' /\ SkipsOnlyAccounted'
  BY <1>6, AbortKeeps DEF TooManyLines
<1>7. ASSUME NEW c \in Calls, EndOfFile(c) PROVE ParsedOK' /\ CallOK' /\ SkipsOnlyAccounted'
  <2>1. /\ Save(c) /\ Onward(c, {}) /\ UNCHANGED <<size, epoch, seen, missed, lost>>
        /\ Opened(call[c]) /\ call[c].pc \in {"scan", "eof"}
        /\ call[c].pc = "scan" => call[c].pos >= size[call[c].inode]
    BY <1>7 DEF EndOfFile, Opened
  <2> DEFINE r == [Idle EXCEPT !.pc = "next", !.todo = call[c].todo,
                       !.offset = call[c].offset, !.list = call[c].list \union {}]
  <2>2. call' = [call EXCEPT ![c] = r] /\ ~Opened(r) /\ r.pc # "idle"
    BY <2>1 DEF Onward, Opened, Idle
  <2> HIDE DEF r
  <2>3. Accounted \subseteq Accounted'
    BY <2>1, OnwardTells DEF IInv
  <2>4. call[c].inode \notin lost /\ call[c].epoch = epoch[call[c].inode]
          => Bytes(call[c].inode, 0, call[c].size) \subseteq Accounted'
    <3> SUFFICES ASSUME call[c].inode \notin lost, call[c].epoch = epoch[call[c].inode]
                 PROVE  Bytes(call[c].inode, 0, call[c].size) \subseteq Accounted'
      OBVIOUS
    <3>1. Bytes(call[c].inode, 0, call[c].pos) \subseteq Accounted
      BY <2>1 DEF IInv, SkipsOnlyAccounted
    <3>2. /\ call[c].inode \in Inodes /\ call[c].size \in Nat /\ call[c].pos \in Nat
          /\ size[call[c].inode] \in Nat
      BY <2>1, FileOf DEF IInv, TypeOK
    <3>3. call[c].size <= call[c].pos
      <4>1. RecordOK(call[c])
        BY DEF IInv, CallOK
      <4>2. CASE call[c].pc = "eof"
        BY <2>1, <4>1, <4>2 DEF RecordOK, Opened
      <4>3. CASE call[c].pc = "scan"
        BY <2>1, <3>2, <4>1, <4>3 DEF RecordOK, Opened
      <4> QED BY <2>1, <4>2, <4>3
    <3> QED BY <2>3, <3>1, <3>2, <3>3 DEF Bytes
  <2>5. ParsedOK'
    BY <2>1, <2>3, <2>4, SaveKeeps DEF IInv
  <2> QED BY <2>1, <2>2, <2>3, <2>5, ClosedMoves DEF IInv
<1>8. ASSUME NEW c \in Calls, Return(c) \/ Fail(c, {}), UNCHANGED <<inodeOf, size, epoch, parsed, lost>>
      PROVE  ParsedOK' /\ CallOK' /\ SkipsOnlyAccounted'
  <2>1. Accounted \subseteq Accounted'
    BY <1>8, ReturnTells, FailTells DEF IInv
  <2>2. call' = [call EXCEPT ![c] = Idle] /\ ~Opened(Idle) /\ Idle.list = {}
    BY <1>8 DEF Return, Fail, Idle, Opened
  <2> QED BY <1>8, <2>1, <2>2, ClosedMoves, ParsedKept DEF IInv
<1>9. ASSUME NEW c \in Calls, Answer(c) PROVE ParsedOK' /\ CallOK' /\ SkipsOnlyAccounted'
  BY <1>8, <1>9 DEF Answer
<1>10. ASSUME NEW c \in Calls, Canceled(c) PROVE ParsedOK' /\ CallOK' /\ SkipsOnlyAccounted'
  BY <1>8, <1>10, AbortKeeps DEF Canceled
<1>11. CASE Restart
  <2>1. \A c \in Calls : call'[c] = Idle
    BY <1>11 DEF Restart
  <2>2. RecordOK(Idle)' /\ ~(Idle.pc \in {"scan", "eof"})
    BY DEF RecordOK, Idle, Opened
  <2>3. CallOK' /\ SkipsOnlyAccounted'
    BY <2>1, <2>2 DEF CallOK, SkipsOnlyAccounted, RecordOK, Opened
  <2> QED BY <1>11, <2>3 DEF Restart, ParsedOK
<1>12. ASSUME NEW n \in Names, Write(n) PROVE ParsedOK' /\ CallOK' /\ SkipsOnlyAccounted'
  <2>1. UNCHANGED <<epoch, parsed, call, seen, missed, lost>>
    BY <1>12 DEF Write
  <2>2. \A i \in Inodes : size[i] \in Nat /\ size[i] <= size'[i] /\ size'[i] \in Nat
    BY <1>12 DEF Write, IInv, TypeOK, Inode
  <2>3. Accounted' = Accounted
    BY <2>1 DEF Accounted
  <2>4. CallOK'
    <3> SUFFICES ASSUME NEW c \in Calls PROVE RecordOK(call[c])'
      BY DEF CallOK
    <3>1. RecordOK(call[c])
      BY DEF IInv, CallOK
    <3>2. Opened(call[c]) => call[c].inode \in Inodes /\ call[c].size \in Nat
      BY FileOf DEF IInv
    <3>3. call' = call /\ epoch' = epoch
      BY <2>1
    <3>4. Opened(call[c]) /\ call[c].size <= size[call[c].inode]
            => call[c].size <= size'[call[c].inode]
      BY <2>2, <3>2
    <3>5. Opened(call[c]) =>
            /\ call[c].epoch <= epoch'[call[c].inode]
            /\ call[c].epoch = epoch'[call[c].inode] =>
                 /\ call[c].size <= size'[call[c].inode]
                 /\ call[c].pc = "eof" => call[c].size <= call[c].pos
            /\ call[c].pc \in {"scan", "eof"} => call[c].start <= call[c].pos
      BY <3>1, <3>3, <3>4 DEF RecordOK
    <3> QED BY <3>1, <3>3, <3>5 DEF RecordOK, Opened
  <2> QED BY <2>1, <2>3, <2>4 DEF IInv, ParsedOK, SkipsOnlyAccounted
<1>13. ASSUME NEW n \in Names, Truncate(n) PROVE ParsedOK' /\ CallOK' /\ SkipsOnlyAccounted'
  <2> DEFINE i == inodeOf[n]
  <2>1. /\ i \in Inodes /\ size' = [size EXCEPT ![i] = 0]
        /\ epoch' = [epoch EXCEPT ![i] = epoch[i] + 1]
        /\ seen' = {b \in seen : b[1] # i} /\ missed' = {b \in missed : b[1] # i}
        /\ UNCHANGED <<parsed, lost>>
        /\ call' = [c \in Calls |-> [call[c] EXCEPT !.list = {b \in call[c].list : b[1] # i}]]
    BY <1>13 DEF Truncate, IInv, TypeOK, Inode
  <2> HIDE DEF i
  <2>2. \A c \in Calls :
          /\ call'[c].list = {b \in call[c].list : b[1] # i}
          /\ call'[c].pc = call[c].pc /\ call'[c].inode = call[c].inode
          /\ call'[c].epoch = call[c].epoch /\ call'[c].size = call[c].size
          /\ call'[c].start = call[c].start /\ call'[c].pos = call[c].pos
    <3> SUFFICES ASSUME NEW c \in Calls
                 PROVE  /\ call'[c].list = {b \in call[c].list : b[1] # i}
                        /\ call'[c].pc = call[c].pc /\ call'[c].inode = call[c].inode
                        /\ call'[c].epoch = call[c].epoch /\ call'[c].size = call[c].size
                        /\ call'[c].start = call[c].start /\ call'[c].pos = call[c].pos
      OBVIOUS
    <3>1. call[c] \in CallType
      BY DEF IInv, TypeOK
    <3> QED BY <2>1, <3>1 DEF CallType
  <2>3. \A j \in Inodes \ {i} : size'[j] = size[j] /\ epoch'[j] = epoch[j]
    BY <2>1 DEF IInv, TypeOK
  <2>4. epoch'[i] = epoch[i] + 1 /\ epoch[i] \in Nat
    BY <2>1 DEF IInv, TypeOK
  <2>5. ASSUME NEW j \in Inodes \ {i}, NEW a, NEW b, Bytes(j, a, b) \subseteq Accounted
        PROVE  Bytes(j, a, b) \subseteq Accounted'
    BY <2>1, <2>2, <2>5 DEF Accounted, Bytes
  <2>6. ParsedOK'
    <3> SUFFICES ASSUME NEW m \in Names, parsed[m] # None
                 PROVE  /\ parsed[m].epoch <= epoch'[parsed[m].real]
                        /\ parsed[m].ino = parsed[m].real /\ parsed[m].real \notin lost
                             /\ parsed[m].epoch = epoch'[parsed[m].real]
                           => Bytes(parsed[m].real, 0, parsed[m].offset) \subseteq Accounted'
      BY <2>1 DEF ParsedOK, Bytes
    <3>1. parsed[m].real \in Inodes /\ parsed[m].epoch \in Nat
      BY DEF IInv, TypeOK
    <3>2. parsed[m].epoch <= epoch[parsed[m].real]
      BY DEF IInv, ParsedOK
    <3>3. CASE parsed[m].real = i
      BY <2>4, <3>1, <3>2, <3>3
    <3>4. CASE parsed[m].real # i
      BY <2>3, <2>5, <3>1, <3>4 DEF IInv, ParsedOK
    <3> QED BY <3>3, <3>4
  <2>7. CallOK'
    <3> SUFFICES ASSUME NEW c \in Calls PROVE RecordOK(call[c])'
      BY DEF CallOK
    <3>1. RecordOK(call[c])
      BY DEF IInv, CallOK
    <3>2. Opened(call[c]) => call[c].inode \in Inodes /\ call[c].epoch \in Nat
      BY FileOf DEF IInv
    <3>3. CASE call[c].inode = i
      BY <2>2, <2>4, <3>1, <3>2, <3>3 DEF RecordOK, Opened
    <3>4. CASE call[c].inode # i
      BY <2>2, <2>3, <3>1, <3>2, <3>4 DEF RecordOK, Opened
    <3> QED BY <3>3, <3>4
  <2>8. SkipsOnlyAccounted'
    <3> SUFFICES ASSUME NEW c \in Calls,
                        call[c].pc \in {"scan", "eof"}, call[c].inode \notin lost,
                        call[c].epoch = epoch'[call[c].inode]
                 PROVE  Bytes(call[c].inode, 0, call[c].pos) \subseteq Accounted'
      <4>1. SUFFICES ASSUME NEW c \in Calls,
                            call'[c].pc \in {"scan", "eof"}, call'[c].inode \notin lost',
                            call'[c].epoch = epoch'[call'[c].inode]
                     PROVE  Bytes(call'[c].inode, 0, call'[c].pos) \subseteq Accounted'
        BY DEF SkipsOnlyAccounted, Bytes
      <4>2. /\ call'[c].pc = call[c].pc /\ call'[c].inode = call[c].inode
            /\ call'[c].epoch = call[c].epoch /\ call'[c].pos = call[c].pos /\ lost' = lost
        BY <2>1, <2>2
      <4> QED BY <4>1, <4>2
    <3>1. Opened(call[c])
      BY DEF Opened
    <3>2. /\ call[c].inode \in Inodes /\ call[c].epoch \in Nat
          /\ call[c].epoch <= epoch[call[c].inode]
      BY <3>1, FileOf DEF IInv, CallOK, RecordOK
    <3>3. call[c].inode # i
      BY <2>4, <3>2
    <3> QED BY <2>3, <2>5, <3>2, <3>3 DEF IInv, SkipsOnlyAccounted
  <2> QED BY <2>6, <2>7, <2>8
<1>14. ASSUME UNCHANGED <<size, epoch, parsed, call, seen, missed, lost>>
       PROVE  ParsedOK' /\ CallOK' /\ SkipsOnlyAccounted'
  <2>1. Accounted' = Accounted
    BY <1>14 DEF Accounted
  <2> QED BY <1>14, <2>1 DEF IInv, ParsedOK, CallOK, RecordOK, Opened, SkipsOnlyAccounted
<1>15. ASSUME NEW n \in Names, Unlink(n) \/ Create(n)
       PROVE  ParsedOK' /\ CallOK' /\ SkipsOnlyAccounted'
  BY <1>14, <1>15 DEF Unlink, Create
<1>16. CASE UNCHANGED vars
  BY <1>14, <1>16 DEF vars
<1> QED BY <1>1, <1>2, <1>3, <1>4, <1>5, <1>6, <1>7, <1>9, <1>10, <1>11, <1>12, <1>13, <1>15,
           <1>16 DEF Next, CallStep

LEMMA InvInit == Init => IInv
<1> SUFFICES ASSUME Init PROVE IInv
  OBVIOUS
<1>1. TypeOK
  BY TypeInit
<1>2. \A c \in Calls : call[c] = Idle
  BY DEF Init
<1>3. CallOK /\ SkipsOnlyAccounted
  BY <1>2 DEF CallOK, RecordOK, SkipsOnlyAccounted, Opened, Idle
<1> QED BY <1>1, <1>3 DEF IInv, ParsedOK, Init

(* Theorem: whatever the number of calls, files and names, however they     *)
(* overlap with rotations and truncations, a call skips only what another   *)
(* call has listed or gave up on when it ended with an error, or what its   *)
(* own offset tells it to (getStartOffset and addFile, check_logfile.go).   *)
THEOREM NothingSkipped == Spec => []SkipsOnlyAccounted
<1>1. IInv /\ [Next]_vars => IInv'
  BY TypeNext, InvNext DEF IInv
<1>2. IInv => SkipsOnlyAccounted
  BY DEF IInv
<1> QED BY <1>1, <1>2, InvInit, PTL DEF Spec
=============================================================================
