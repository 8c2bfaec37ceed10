---------------------------- MODULE LogfileCheck ----------------------------
(***************************************************************************)
(* check_logfile: calls that overlap read files others append to, rotate   *)
(* and truncate, and continue where the last call has left each file.      *)
(*                                                                         *)
(* A file is its inode; a name refers to an inode, and a rotation lets it  *)
(* refer to another one.  Of the content only matters how long it is and   *)
(* where lines end; the epoch of a file is the number of its truncations.  *)
(***************************************************************************)
EXTENDS Naturals

CONSTANTS
    Names,          \* the names the pattern may match
    Rank,           \* of a name: its place in the order of Glob
    Inodes,
    FirstInodes,    \* of a name: its file at the beginning, or None
    None,           \* no file, no inode, no saved state
    Calls,          \* calls of the check that may overlap
    Offsets,        \* of a call: the values it may have for offset, apart from none
    MaxLines,       \* max-lines
    IgnoreMissing,  \* ignore-missing
    LineEnds,       \* the sizes at which a file ends with a whole line
    MaxWrites,      \* bound on what the writers do
    MaxFaults       \* bound on restarts of the agent and on timeouts

ASSUME LogfileAssumption ==
    /\ None \notin Inodes /\ FirstInodes \in [Names -> Inodes \union {None}]
    /\ Offsets \in [Calls -> SUBSET Nat] /\ None \notin Nat
    /\ LineEnds \subseteq Nat
    /\ MaxLines \in Nat /\ MaxWrites \in Nat /\ MaxFaults \in Nat
    /\ IgnoreMissing \in BOOLEAN
    /\ Rank \in [Names -> Nat] /\ None \notin Names

VARIABLES
    inodeOf,   \* the inode a name refers to
    size,      \* of an inode
    epoch,     \* of an inode
    parsed,    \* alreadyParsedLogfiles, with the file that was really read
    call,
    seen,      \* the bytes <<inode, position>> that answered calls have reported
    missed,    \* the bytes that only calls which ended with an error got hold of
    lost,      \* the inodes of which nothing could tell a call where to start
    writes, faults

vars == <<inodeOf, size, epoch, parsed, call, seen, missed, lost, writes, faults>>

Idle == [pc |-> "idle", todo |-> {}, name |-> None, offset |-> None, inode |-> None, epoch |-> 0,
         size |-> 0, ino |-> None, start |-> 0, pos |-> 0, lines |-> 0,
         list |-> {}]

Init ==
    /\ inodeOf = FirstInodes
    /\ size = [i \in Inodes |-> 0]
    /\ epoch = [i \in Inodes |-> 0]
    /\ parsed = [n \in Names |-> None]
    /\ call = [c \in Calls |-> Idle]
    /\ seen = {} /\ missed = {}
    /\ lost = {}
    /\ writes = 0
    /\ faults = 0

Bytes(i, from, to) == {i} \X (from..(to - 1))

\* Bytes of the file a call has opened, unless they have been truncated.
Claim(c, from, to) ==
    IF call[c].epoch = epoch[call[c].inode] THEN Bytes(call[c].inode, from, to) ELSE {}

----------------------------------------------------------------------------
(* A call.                                                                 *)

\* The call ends with an answer, which reports all it has listed.
Return(c) ==
    /\ call' = [call EXCEPT ![c] = Idle]
    /\ seen' = seen \union call[c].list
    /\ missed' = missed \ call[c].list

\* The call ends with an error and no result: what it had listed, of its
\* earlier files too, and the rest it gives up on are reported to nobody.
Fail(c, rest) ==
    /\ call' = [call EXCEPT ![c] = Idle]
    /\ missed' = missed \union ((call[c].list \union rest) \ seen)
    /\ UNCHANGED seen

\* addFile returns, with nothing of it left but what it has listed.
Onward(c, told) ==
    call' = [call EXCEPT ![c] = [Idle EXCEPT !.pc = "next", !.todo = call[c].todo,
                !.offset = call[c].offset, !.list = call[c].list \union told]]

\* Glob: nothing to read is an error unless ignore-missing is given.
Glob(c) ==
    LET found == {n \in Names : inodeOf[n] # None}
    IN /\ call[c].pc = "idle"
       /\ found # {} \/ IgnoreMissing
       /\ \E o \in Offsets[c] \union {None} :
            call' = [call EXCEPT ![c] = [Idle EXCEPT !.pc = "next", !.todo = found, !.offset = o]]
       /\ UNCHANGED <<inodeOf, size, epoch, parsed, seen, missed, lost, writes, faults>>

\* os.Open and Stat of the open file, which may be gone by now.
Open(c) ==
    /\ call[c].pc = "next"
    /\ \E n \in call[c].todo :
          /\ \A m \in call[c].todo : Rank[n] <= Rank[m]
          /\ IF inodeOf[n] = None
             THEN Fail(c, {})
             ELSE /\ call' = [call EXCEPT ![c] = [call[c] EXCEPT !.pc = "stat", !.todo = call[c].todo \ {n},
                                 !.name = n, !.inode = inodeOf[n],
                                 !.epoch = epoch[inodeOf[n]], !.size = size[inodeOf[n]]]]
                  /\ UNCHANGED <<seen, missed>>
    /\ UNCHANGED <<inodeOf, size, epoch, parsed, lost, writes, faults>>

\* getInode: by the name, which may refer to another file by now.
GetInode(c) ==
    /\ call[c].pc = "stat"
    /\ call' = [call EXCEPT ![c] = [call[c] EXCEPT !.pc = "load", !.ino = inodeOf[call[c].name]]]
    /\ UNCHANGED <<inodeOf, size, epoch, parsed, seen, missed, lost, writes, faults>>

\* A plausible slip: the saved offset is kept when the inode has changed.
OffsetOfName(c, p) == IF p = None \/ p.offset > call[c].size THEN 0 ELSE p.offset

\* getStartOffset without the argument: the saved offset, unless the file is
\* another one or shorter.
SavedOffset(c, p) ==
    IF p = None \/ p.offset > call[c].size
         \/ (call[c].ino # None /\ p.ino # None /\ call[c].ino # p.ino)
    THEN 0 ELSE p.offset


\* What a call saves for the file it reads; real and epoch say which one it was.
Position(c) ==
    [offset |-> call[c].size, ino |-> call[c].ino,
     real |-> call[c].inode, epoch |-> call[c].epoch]
Save(c) == parsed' = [parsed EXCEPT ![call[c].name] = Position(c)]

\* The position was saved for another file than the name stood for, or the
\* file has been truncated and has grown beyond it: nothing tells the call.
Misled(c, p) ==
    /\ p # None
    /\ \/ p.ino # p.real \/ call[c].ino # call[c].inode
       \/ p.epoch # call[c].epoch /\ p.offset <= call[c].size

\* A start behind the end of the file, which only an argument can ask for,
\* reads nothing and saves the size.
Start(c) ==
    /\ call[c].pc = "load"
    /\ LET p == parsed[call[c].name]
           given == call[c].offset # None
           from == IF given THEN call[c].offset ELSE SavedOffset(c, p)
           skipped == IF given THEN Claim(c, 0, from) ELSE {}
       IN IF from > call[c].size
          THEN /\ Onward(c, skipped)
               /\ Save(c)
               /\ UNCHANGED lost
          ELSE /\ call' = [call EXCEPT ![c] = [call[c] EXCEPT !.pc = "scan", !.start = from,
                              !.pos = from, !.lines = 0, !.list = call[c].list \union skipped]]
               /\ lost' = IF ~given /\ Misled(c, p) THEN lost \union {call[c].inode} ELSE lost
               /\ UNCHANGED parsed
    /\ UNCHANGED <<inodeOf, size, epoch, seen, missed, writes, faults>>

\* The line at from ends at end; the last line may lack its end.
LineEnd(i, from, end) ==
    /\ from < end /\ end <= size[i]
    /\ end \in LineEnds \/ end = size[i]
    /\ \A p \in LineEnds : from < p => end <= p

\* The loop: one line, with the limit tested after the line was read.  Lines
\* behind the size that was taken before are read as well; a line without an
\* end is the last one, even if it grows.
Scan(c) ==
    /\ call[c].pc = "scan" /\ call[c].pos < size[call[c].inode]
    /\ call[c].lines <= MaxLines
    /\ \E end \in 0..size[call[c].inode] :
          /\ LineEnd(call[c].inode, call[c].pos, end)
          /\ call' = [call EXCEPT ![c] = [call[c] EXCEPT
                        !.pc = IF end \in LineEnds THEN "scan" ELSE "eof",
                        !.pos = end, !.lines = call[c].lines + 1,
                        !.list = call[c].list \union Bytes(call[c].inode, call[c].pos, end)]]
    /\ UNCHANGED <<inodeOf, size, epoch, parsed, seen, missed, lost, writes, faults>>

\* An error while a file is read ends the call.  The deferred function saves
\* the position anyway: no later call reads what lies before it.
Abort(c) ==
    /\ Save(c)
    /\ Fail(c, Claim(c, call[c].start, call[c].size))
    /\ UNCHANGED <<inodeOf, size, epoch, lost, writes>>

TooManyLines(c) ==
    /\ call[c].pc = "scan" /\ call[c].pos < size[call[c].inode]
    /\ call[c].lines > MaxLines
    /\ Abort(c)
    /\ UNCHANGED faults

EndOfFile(c) ==
    /\ call[c].pc = "eof" \/ (call[c].pc = "scan" /\ call[c].pos >= size[call[c].inode])
    /\ Save(c)
    /\ Onward(c, {})
    /\ UNCHANGED <<inodeOf, size, epoch, seen, missed, lost, writes, faults>>

\* The deadline of the check is noticed between two files and between two
\* lines; a line the scanner cannot read ends the call like the latter.
Canceled(c) ==
    /\ faults < MaxFaults /\ faults' = faults + 1
    /\ \/ call[c].pc = "next" /\ call[c].todo # {} /\ Fail(c, {})
          /\ UNCHANGED <<inodeOf, size, epoch, parsed, lost, writes>>
       \/ call[c].pc = "scan" /\ call[c].pos < size[call[c].inode] /\ Abort(c)

Answer(c) ==
    /\ call[c].pc = "next" /\ call[c].todo = {}
    /\ Return(c)
    /\ UNCHANGED <<inodeOf, size, epoch, parsed, lost, writes, faults>>

\* The positions are only kept in memory.
Restart ==
    /\ faults < MaxFaults /\ faults' = faults + 1
    /\ parsed' = [n \in Names |-> None]
    /\ call' = [c \in Calls |-> Idle]
    /\ UNCHANGED <<inodeOf, size, epoch, seen, missed, lost, writes>>

----------------------------------------------------------------------------
(* The programs that write the files.                                       *)

WriterMoves == writes < MaxWrites /\ writes' = writes + 1

Write(n) ==
    LET i == inodeOf[n]
    IN /\ WriterMoves
       /\ i # None
       /\ size' = [size EXCEPT ![i] = @ + 1]
       /\ UNCHANGED <<inodeOf, epoch, parsed, call, seen, missed, lost, faults>>

Truncate(n) ==
    LET i == inodeOf[n]
    IN /\ WriterMoves
       /\ i # None /\ size[i] > 0
       /\ size' = [size EXCEPT ![i] = 0]
       /\ epoch' = [epoch EXCEPT ![i] = @ + 1]
       /\ seen' = {b \in seen : b[1] # i}
       /\ missed' = {b \in missed : b[1] # i}
       /\ call' = [c \in Calls |-> [call[c] EXCEPT !.list = {b \in call[c].list : b[1] # i}]]
       /\ UNCHANGED <<inodeOf, parsed, lost, faults>>

\* The file is renamed or removed; its readers keep it open.
Unlink(n) ==
    /\ WriterMoves
    /\ inodeOf[n] # None
    /\ inodeOf' = [inodeOf EXCEPT ![n] = None]
    /\ UNCHANGED <<size, epoch, parsed, call, seen, missed, lost, faults>>

Fresh == {i \in Inodes : size[i] = 0 /\ epoch[i] = 0 /\ \A m \in Names : inodeOf[m] # i}
Create(n) ==
    /\ WriterMoves
    /\ inodeOf[n] = None
    /\ Fresh # {}
    /\ inodeOf' = [inodeOf EXCEPT ![n] = CHOOSE i \in Fresh : TRUE]
    /\ UNCHANGED <<size, epoch, parsed, call, seen, missed, lost, faults>>

CallStep(c) ==
    \/ Open(c) \/ GetInode(c) \/ Start(c) \/ Scan(c) \/ TooManyLines(c)
    \/ EndOfFile(c) \/ Answer(c)

Next ==
    \/ \E c \in Calls : Glob(c) \/ CallStep(c) \/ Canceled(c)
    \/ Restart
    \/ \E n \in Names : Write(n) \/ Truncate(n) \/ Unlink(n) \/ Create(n)

Spec == Init /\ [][Next]_vars

----------------------------------------------------------------------------
(* Types; a call that has opened a file knows its name and its inode.       *)
Inode == Inodes \union {None}
CallType ==
    [pc : {"idle", "next", "stat", "load", "scan", "eof"},
     todo : SUBSET Names, name : Names \union {None}, offset : Nat \union {None},
     inode : Inode, epoch : Nat, size : Nat, ino : Inode,
     start : Nat, pos : Nat, lines : Nat, list : SUBSET (Inodes \X Nat)]
Opened(r) == r.pc \in {"stat", "load", "scan", "eof"}
TypeOK ==
    /\ inodeOf \in [Names -> Inode]
    /\ size \in [Inodes -> Nat]
    /\ epoch \in [Inodes -> Nat]
    /\ parsed \in [Names -> {None} \union
                      [offset : Nat, ino : Inode, real : Inodes, epoch : Nat]]
    /\ call \in [Calls -> CallType]
    /\ \A c \in Calls : Opened(call[c]) => call[c].name # None /\ call[c].inode # None
    /\ seen \subseteq Inodes \X Nat /\ missed \subseteq Inodes \X Nat
    /\ lost \subseteq Inodes
    /\ writes \in 0..MaxWrites /\ faults \in 0..MaxFaults

\* The bytes that were reported, that running calls have listed, and that
\* calls which failed gave up on.
Accounted == seen \union missed \union UNION {call[c].list : c \in Calls}

(* A call that continues a file skips only what another call has listed, or *)
(* gave up on with an error, or was told to skip by its offset: rotation,   *)
(* truncation and overlapping calls lose nothing, unless a name was rotated *)
(* between opening it and looking up its inode or a truncated file has grown*)
(* again beyond the old position (getStartOffset, check_logfile.go 383-426).*)
SkipsOnlyAccounted ==
    \A c \in Calls :
        LET i == call[c].inode
        IN call[c].pc \in {"scan", "eof"} /\ i \notin lost /\ call[c].epoch = epoch[i]
           => Bytes(i, 0, call[c].pos) \subseteq Accounted

\* The monitoring system calls again and again, without an offset.
Again(c) == Glob(c) /\ call'[c].offset = None
FairSpec == Spec /\ \A c \in Calls : WF_vars(CallStep(c)) /\ WF_vars(Again(c))

=============================================================================
