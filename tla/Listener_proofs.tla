--------------------------- MODULE Listener_proofs ---------------------------
(***************************************************************************)
(* For all modules, connections, requests and packet sizes: an answer can  *)
(* be read back, a tcp listener that nobody stops keeps listening, and one *)
(* that was stopped is closed for good.                                    *)
(***************************************************************************)
EXTENDS Listener, TLAPS

\* Until the first Stop() the field and the socket go together.
UpUntilStopped ==
    stopped = {} => /\ ~closing
                    /\ open <=> started # {}
                    /\ listen = "socket" <=> started # {}

\* A Stop() has closed the socket, and only it can be between the two steps.
StoppedIsClosed == stopped # {} => ~open /\ (listen = "socket" => closing)

\* A request that is run gets an answer of its own version, and one answer.
RunningIsAnswerable ==
    \A c \in Conn : kind = "tcp" /\ conn[c].st = "running" => conn[c].req.pkt.ver \in {2, 4}
AnsweredOnce == \A c \in Conn : conn[c].st # "closed" => conn[c].ans = NoAnswer

SocketInv == UpUntilStopped /\ StoppedIsClosed /\ TcpKeepsListening
ConnInv == RunningIsAnswerable /\ AnsweredOnce /\ AnswerIsReadable
IInv == TypeOK /\ SocketInv /\ ConnInv

----------------------------------------------------------------------------
(* Packets.                                                                 *)

\* What is built can be read, and holds what the limit of its version allows.
LEMMA BuiltIsReadable ==
    ASSUME NEW v \in {2, 4}, NEW n \in Nat
    PROVE  /\ Build(v, n) \in PacketType /\ Build(v, n).ver = v
           /\ Readable(Build(v, n))
           /\ Build(v, n).nul = Kept(v, n)
<1>1. CASE v = 2
  BY <1>1, NrpeAssumption DEF Build, BuildV2, Packet, PacketType, Readable, Remaining, DataArea,
       Kept, V2Length, V4Header
<1>2. CASE v = 4
  <2> DEFINE dlen == IF n + 1 > V4Data THEN V4Data
                     ELSE IF n + 1 < V2Data THEN V2Data ELSE n + 1
             kept == IF n + 1 > V4Data THEN V4Data - 1 ELSE n
  <2>1. /\ dlen \in Nat /\ kept \in Nat
        /\ V2Data <= dlen /\ dlen <= V4Data /\ kept < dlen
        /\ kept = Kept(4, n)
    BY NrpeAssumption DEF Kept
  <2>2. Build(v, n) = [ver |-> 4, size |-> 16 + dlen, dlen |-> dlen, nul |-> kept]
    BY <1>2 DEF Build, BuildV4, Packet, V4Header
  <2> HIDE DEF dlen, kept
  <2> QED BY <1>2, <2>1, <2>2, NrpeAssumption
          DEF PacketType, Readable, Remaining, DataArea, V2Length, V4Header
<1> QED BY <1>1, <1>2

\* A packet of a version that is not known has no data area to be read from.
LEMMA ReadableVersion ==
    ASSUME NEW p \in PacketType, Readable(p)
    PROVE  p.ver \in {2, 3, 4}
BY DEF PacketType, Readable, DataArea

----------------------------------------------------------------------------
(* Types.                                                                   *)

ReqType == [pkt : PacketType, whole : BOOLEAN, query : BOOLEAN, crc : BOOLEAN]
ConnType == [st : {"none", "backlog", "accepted", "reading", "running", "closed"},
             req : ReqType, out : Nat, ans : PacketType]

LEMMA NewConnType == NewConn \in ConnType /\ NewConn.st = "none" /\ NewConn.ans = NoAnswer
BY DEF NewConn, NoRequest, NoAnswer, Packet, PacketType, ReqType, ConnType

LEMMA ConnTyped == TypeOK => conn \in [Conn -> ConnType]
BY DEF TypeOK, ConnType, ReqType


LEMMA TypeInit == Init => TypeOK
<1> SUFFICES ASSUME Init PROVE TypeOK
  OBVIOUS
<1>1. conn \in [Conn -> ConnType]
  BY NewConnType DEF Init
<1> QED BY <1>1, ListenerAssumption DEF Init, TypeOK, ConnType, ReqType

LEMMA TypeNext == TypeOK /\ [Next]_vars => TypeOK'
<1> SUFFICES ASSUME TypeOK, [Next]_vars PROVE TypeOK'
  OBVIOUS
<1> USE DEF mainVars
<1>1. ASSUME NEW m \in Module, Start(m) PROVE TypeOK'
  BY <1>1 DEF Start, TypeOK
<1>2. ASSUME NEW m \in Module, StopClose(m) PROVE TypeOK'
  <2>1. conn' \in [Conn -> ConnType]
    BY <1>2, ConnTyped, NewConnType DEF StopClose
  <2> QED BY <1>2, <2>1 DEF StopClose, TypeOK, ConnType, ReqType
<1>3. CASE StopNil
  BY <1>3 DEF StopNil, TypeOK
<1>4. CASE TcpCheck \/ HttpCheck \/ Load \/ AcceptClosed \/ AcceptError
  BY <1>4 DEF TcpCheck, HttpCheck, Load, AcceptClosed, AcceptError, TypeOK
<1>5. ASSUME NEW c \in Conn, conn' \in [Conn -> ConnType],
             UNCHANGED <<mainVars, failed>>, loop' \in {loop, "check", "accept"},
             crashed' \in BOOLEAN
      PROVE  TypeOK'
  BY <1>5 DEF TypeOK, ConnType, ReqType
<1>6. ASSUME NEW c \in Conn, NEW st \in {"backlog", "accepted", "reading", "running", "closed"},
             conn' = [conn EXCEPT ![c].st = st]
      PROVE  conn' \in [Conn -> ConnType]
  <2>1. [conn[c] EXCEPT !.st = st] \in ConnType
    BY ConnTyped DEF ConnType
  <2>2. conn' = [conn EXCEPT ![c] = [conn[c] EXCEPT !.st = st]]
    BY <1>6
  <2> QED BY <2>1, <2>2, ConnTyped
<1>7. ASSUME NEW c \in Conn, Accept(c) \/ HostCheck(c) \/ ReadTimeout(c) \/ WebAnswer(c)
                             \/ Connect(c) \/ WebRequest(c)
      PROVE  TypeOK'
  <2>1. /\ UNCHANGED <<mainVars, failed, crashed>> /\ loop' \in {loop, "check", "accept"}
        /\ \E st \in {"backlog", "accepted", "reading", "running", "closed"} :
             conn' = [conn EXCEPT ![c].st = st]
    BY <1>7 DEF Accept, HostCheck, ReadTimeout, WebAnswer, Connect, WebRequest, Step
  <2> QED BY <1>5, <1>6, <2>1 DEF TypeOK
<1>8. ASSUME NEW c \in Conn, Panic(c) PROVE TypeOK'
  <2>1. CASE kind = "tcp"
    BY <1>5, <1>6, <1>8, <2>1 DEF Panic, TypeOK
  <2>2. CASE kind # "tcp"
    BY <1>8, <2>2 DEF Panic, TypeOK
  <2> QED BY <2>1, <2>2
<1>9. ASSUME NEW c \in Conn, NEW n \in OutLen, Answer(c, n) PROVE TypeOK'
  <2> DEFINE r == [conn[c] EXCEPT !.st = "closed", !.out = n,
                                  !.ans = Build(conn[c].req.pkt.ver, n)]
  <2>1. Build(conn[c].req.pkt.ver, n) \in PacketType
    BY BuiltIsReadable, ListenerAssumption DEF Build
  <2>2. r \in ConnType
    BY <2>1, ConnTyped, ListenerAssumption DEF ConnType
  <2>3. conn' = [conn EXCEPT ![c] = r]
    BY <1>9, ConnTyped DEF Answer, ConnType
  <2>4. conn' \in [Conn -> ConnType]
    BY <2>2, <2>3, ConnTyped
  <2> QED BY <1>5, <1>9, <2>4 DEF Answer, TypeOK
<1>10. ASSUME NEW c \in Conn, NEW q \in Requests, Receive(c, q) PROVE TypeOK'
  <2>1. q \in ReqType
    BY ListenerAssumption DEF ReqType
  <2>2. PICK st \in {"running", "closed"} : conn' = [conn EXCEPT ![c].req = q, ![c].st = st]
    BY <1>10 DEF Receive
  <2> DEFINE r == [conn[c] EXCEPT !.req = q, !.st = st]
  <2>3. r \in ConnType
    BY <2>1, ConnTyped DEF ConnType
  <2>4. conn' = [conn EXCEPT ![c] = r]
    BY <2>2, ConnTyped DEF ConnType
  <2>5. conn' \in [Conn -> ConnType]
    BY <2>3, <2>4, ConnTyped
  <2> QED BY <1>5, <1>10, <2>5 DEF Receive, TypeOK
<1>11. CASE UNCHANGED vars
  BY <1>11 DEF vars, TypeOK
<1> QED BY <1>1, <1>2, <1>3, <1>4, <1>7, <1>8, <1>9, <1>10, <1>11 DEF Next, AcceptLoop, Serve

(* Theorem: every variable keeps its type, whatever clients send.           *)
THEOREM TypesHold == Spec => []TypeOK
BY TypeInit, TypeNext, PTL DEF Spec

----------------------------------------------------------------------------
(* The socket and the goroutine that serves it.                             *)

LEMMA SocketNext == TypeOK /\ SocketInv /\ [Next]_vars => SocketInv'
<1> SUFFICES ASSUME TypeOK, SocketInv, [Next]_vars PROVE SocketInv'
  OBVIOUS
<1> USE DEF SocketInv, UpUntilStopped, StoppedIsClosed, TcpKeepsListening, KeepsListening
<1>1. ASSUME NEW m \in Module, Start(m) PROVE SocketInv'
  BY <1>1 DEF Start, TypeOK
<1>2. ASSUME NEW m \in Module, StopClose(m) PROVE SocketInv'
  BY <1>2 DEF StopClose, TypeOK
<1>3. CASE StopNil
  BY <1>3 DEF StopNil, TypeOK
<1>4. CASE TcpCheck \/ HttpCheck \/ Load
  BY <1>4 DEF TcpCheck, HttpCheck, Load, TypeOK, mainVars
<1>5. CASE AcceptClosed \/ AcceptError
  BY <1>5 DEF AcceptClosed, AcceptError, TypeOK, mainVars
<1>6. ASSUME NEW c \in Conn, Accept(c) PROVE SocketInv'
  BY <1>6 DEF Accept, TypeOK, mainVars
<1>7. ASSUME UNCHANGED <<mainVars, loop, failed>>, kind = "http" \/ UNCHANGED crashed
      PROVE  SocketInv'
  BY <1>7 DEF mainVars
<1>8. ASSUME NEW c \in Conn, HostCheck(c) \/ ReadTimeout(c) \/ WebAnswer(c) \/ Connect(c)
                             \/ WebRequest(c) \/ Panic(c)
      PROVE  SocketInv'
  BY <1>7, <1>8 DEF HostCheck, ReadTimeout, WebAnswer, Connect, WebRequest, Panic, Step, TypeOK
<1>9. ASSUME NEW c \in Conn, NEW n \in OutLen, Answer(c, n) PROVE SocketInv'
  BY <1>7, <1>9 DEF Answer
<1>10. ASSUME NEW c \in Conn, NEW r \in Requests, Receive(c, r) PROVE SocketInv'
  BY <1>7, <1>10 DEF Receive
<1>11. CASE UNCHANGED vars
  BY <1>7, <1>11 DEF vars, mainVars
<1> QED BY <1>1, <1>2, <1>3, <1>4, <1>5, <1>6, <1>8, <1>9, <1>10, <1>11 DEF Next, AcceptLoop, Serve

----------------------------------------------------------------------------
(* The connections.                                                         *)

\* What the invariant says of one connection.
ConnOK(r) ==
    /\ kind = "tcp" /\ r.st = "running" => r.req.pkt.ver \in {2, 4}
    /\ r.st # "closed" => r.ans = NoAnswer
    /\ r.ans # NoAnswer => /\ Readable(r.ans)
                           /\ r.ans.nul = Kept(r.ans.ver, r.out)
                           /\ r.ans.ver = r.req.pkt.ver
LEMMA ConnInvIs == ConnInv <=> \A c \in Conn : ConnOK(conn[c])
BY DEF ConnInv, RunningIsAnswerable, AnsweredOnce, AnswerIsReadable, ConnOK

LEMMA ConnUpdate ==
    ASSUME TypeOK, ConnInv, UNCHANGED kind,
           NEW c \in Conn, NEW r, conn' = [conn EXCEPT ![c] = r], ConnOK(r)
    PROVE  ConnInv'
<1>1. \A d \in Conn : ConnOK(conn'[d])
  BY ConnInvIs, ConnTyped
<1>2. \A d \in Conn : ConnOK(conn[d])'
  BY <1>1 DEF ConnOK
<1> QED BY <1>2 DEF ConnInv, RunningIsAnswerable, AnsweredOnce, AnswerIsReadable, ConnOK

\* A connection that is not answered goes on without a request to run.
LEMMA ConnMoves ==
    ASSUME TypeOK, ConnInv, UNCHANGED kind, NEW c \in Conn,
           NEW st \in {"backlog", "accepted", "reading", "running", "closed"},
           conn' = [conn EXCEPT ![c].st = st],
           conn[c].st # "closed", st = "running" => kind = "http"
    PROVE  ConnInv'
<1> DEFINE r == [conn[c] EXCEPT !.st = st]
<1>1. r.st = st /\ r.req = conn[c].req /\ r.ans = conn[c].ans /\ r.out = conn[c].out
  BY ConnTyped DEF ConnType
<1>2. ConnOK(r)
  BY <1>1, ConnInvIs DEF ConnOK
<1> HIDE DEF r
<1>3. conn' = [conn EXCEPT ![c] = r]
  BY DEF r
<1> QED BY <1>2, <1>3, ConnUpdate

LEMMA ConnNext == TypeOK /\ ConnInv /\ [Next]_vars => ConnInv'
<1> SUFFICES ASSUME TypeOK, ConnInv, [Next]_vars PROVE ConnInv'
  OBVIOUS
<1>1. ASSUME UNCHANGED <<kind, conn>> PROVE ConnInv'
  BY <1>1 DEF ConnInv, RunningIsAnswerable, AnsweredOnce, AnswerIsReadable
<1>2. ASSUME NEW m \in Module, Start(m) PROVE ConnInv'
  BY <1>1, <1>2 DEF Start
<1>3. ASSUME NEW m \in Module, StopClose(m) PROVE ConnInv'
  <2>1. UNCHANGED kind /\ \A c \in Conn : conn'[c] \in {conn[c], NewConn}
    BY <1>3, ConnTyped DEF StopClose
  <2>2. ConnOK(NewConn)
    BY NewConnType DEF ConnOK
  <2>3. \A c \in Conn : ConnOK(conn'[c])
    BY <2>1, <2>2, ConnInvIs
  <2>4. \A c \in Conn : ConnOK(conn[c])'
    BY <2>1, <2>3 DEF ConnOK
  <2> QED BY <2>4 DEF ConnInv, RunningIsAnswerable, AnsweredOnce, AnswerIsReadable, ConnOK
<1>4. CASE StopNil \/ TcpCheck \/ HttpCheck \/ Load \/ AcceptClosed \/ AcceptError
  BY <1>1, <1>4 DEF StopNil, TcpCheck, HttpCheck, Load, AcceptClosed, AcceptError, mainVars
<1>5. ASSUME NEW c \in Conn, Accept(c) \/ HostCheck(c) \/ ReadTimeout(c) \/ WebAnswer(c)
                             \/ Connect(c) \/ WebRequest(c)
      PROVE  ConnInv'
  BY <1>5, ConnMoves DEF Accept, HostCheck, ReadTimeout, WebAnswer, Connect, WebRequest, Step,
       mainVars
<1>6. ASSUME NEW c \in Conn, Panic(c) PROVE ConnInv'
  <2>1. CASE kind = "tcp"
    BY <1>6, <2>1, ConnMoves DEF Panic, Step, mainVars
  <2>2. CASE kind # "tcp"
    BY <1>1, <1>6, <2>2 DEF Panic, mainVars
  <2> QED BY <2>1, <2>2
<1>7. ASSUME NEW c \in Conn, NEW n \in OutLen, Answer(c, n) PROVE ConnInv'
  <2> DEFINE v == conn[c].req.pkt.ver
             r == [conn[c] EXCEPT !.st = "closed", !.out = n, !.ans = Build(v, n)]
  <2>1. v \in {2, 4} /\ n \in Nat
    BY <1>7, ListenerAssumption DEF Answer, Step, ConnInv, RunningIsAnswerable
  <2>2. r.st = "closed" /\ r.req.pkt.ver = v /\ r.out = n /\ r.ans = Build(v, n)
    BY ConnTyped DEF ConnType
  <2>3. ConnOK(r)
    BY <2>1, <2>2, BuiltIsReadable DEF ConnOK
  <2>4. conn' = [conn EXCEPT ![c] = r] /\ UNCHANGED kind
    BY <1>7, ConnTyped DEF Answer, ConnType, mainVars
  <2> HIDE DEF r
  <2> QED BY <2>3, <2>4, ConnUpdate
<1>8. ASSUME NEW c \in Conn, NEW q \in Requests, Receive(c, q) PROVE ConnInv'
  <2>1. PICK st \in {"running", "closed"} :
          /\ conn' = [conn EXCEPT ![c].req = q, ![c].st = st]
          /\ st = "running" => Readable(q.pkt) /\ q.pkt.ver # 3
    BY <1>8 DEF Receive
  <2> DEFINE r == [conn[c] EXCEPT !.req = q, !.st = st]
  <2>2. q.pkt \in PacketType
    BY ListenerAssumption
  <2>3. r.st = st /\ r.req = q /\ r.ans = NoAnswer
    BY <1>8, ConnTyped DEF Receive, Step, ConnType, ConnInv, AnsweredOnce
  <2>4. ConnOK(r)
    BY <2>1, <2>2, <2>3, ReadableVersion DEF ConnOK
  <2>5. conn' = [conn EXCEPT ![c] = r] /\ UNCHANGED kind
    BY <1>8, <2>1, ConnTyped DEF Receive, ConnType, mainVars
  <2> HIDE DEF r
  <2> QED BY <2>4, <2>5, ConnUpdate
<1>9. CASE UNCHANGED vars
  BY <1>1, <1>9 DEF vars
<1> QED BY <1>2, <1>3, <1>4, <1>5, <1>6, <1>7, <1>8, <1>9 DEF Next, AcceptLoop, Serve

----------------------------------------------------------------------------
LEMMA InvInit == Init => IInv
<1> SUFFICES ASSUME Init PROVE IInv
  OBVIOUS
<1>1. TypeOK
  BY TypeInit
<1>2. SocketInv
  BY DEF Init, SocketInv, UpUntilStopped, StoppedIsClosed, TcpKeepsListening, KeepsListening
<1>3. ConnInv
  BY NewConnType DEF Init, ConnInv, RunningIsAnswerable, AnsweredOnce, AnswerIsReadable
<1> QED BY <1>1, <1>2, <1>3 DEF IInv

LEMMA InvHolds == Spec => []IInv
<1>1. IInv /\ [Next]_vars => IInv'
  BY TypeNext, SocketNext, ConnNext DEF IInv
<1> QED BY <1>1, InvInit, PTL DEF Spec

(* Theorem: no panic and no connection ends the tcp server, as long as no   *)
(* module was stopped and no accept call has failed (startListenerTCP,      *)
(* listener.go).                                                            *)
THEOREM TcpServerSurvives == Spec => []TcpKeepsListening
BY InvHolds, PTL DEF IInv, SocketInv

(* Theorem: for every request that is run and every length of output the    *)
(* answer is a packet that ReadNrpePacket accepts, of the version of the    *)
(* request, with the output up to the limit (BuildPacket, nrpe.go).         *)
THEOREM AnswersAreReadable == Spec => []AnswerIsReadable
BY InvHolds, PTL DEF IInv, ConnInv

(* Theorem: once a module was stopped the socket is closed, whatever other  *)
(* modules share the object, and between the two steps of Stop() only is    *)
(* the field still set (Stop, listener.go).                                 *)
THEOREM StopClosesPort == Spec => []StoppedIsClosed
BY InvHolds, PTL DEF IInv, SocketInv
=============================================================================
