------------------------------ MODULE Listener ------------------------------
(***************************************************************************)
(* One Listener object: the main goroutine starts and stops it through the *)
(* modules that share it, its accept goroutine hands out connections, and  *)
(* each connection is served by a goroutine of its own.  The field listen  *)
(* is read and written by two goroutines without a lock.                   *)
(***************************************************************************)
EXTENDS Integers, NrpePacket

CONSTANTS
    Module,     \* modules that share the object
    Conn,       \* client connections
    Kinds,      \* kinds of the first handler to explore: "tcp", "http"
    Allowed,    \* connections that come from an allowed host
    Requests,   \* packets and reads a client may send: [pkt, whole, query, crc]
    OutLen,     \* lengths of plugin output to explore
    AcceptFails \* the accept call may return an error (descriptors used up)

PacketType == [ver : Nat, size : Nat, dlen : Nat, nul : Nat]
ASSUME ListenerAssumption ==
    /\ Kinds \subseteq {"tcp", "http"}
    /\ Requests \subseteq [pkt : PacketType, whole : BOOLEAN, query : BOOLEAN, crc : BOOLEAN]
    /\ OutLen \subseteq Nat

VARIABLES
    kind,     \* what the first handler implements: "tcp" or "http"
    listen,   \* Listener.listen: "nil" or "socket"
    open,     \* the socket itself
    started,  \* modules whose Start() was called
    stopped,  \* modules whose Stop() was called
    closing,  \* Stop() has closed the socket, listen is not yet nil
    loop,     \* the accept goroutine
    crashed,  \* a panic reached logPanicExit: the process is gone
    failed,   \* accept has returned an error other than "closed"
    conn      \* conn[c]: a connection, the request on it and the answer sent

vars == <<kind, listen, open, started, stopped, closing, loop, crashed, failed,
          conn>>
mainVars == <<kind, listen, open, started, stopped, closing>>

NoAnswer == Packet(0, 0, 0, 0)
NoRequest == [pkt |-> NoAnswer, whole |-> FALSE, query |-> FALSE, crc |-> FALSE]
NewConn == [st |-> "none", req |-> NoRequest, out |-> 0, ans |-> NoAnswer]

Init ==
    /\ kind \in Kinds
    /\ listen = "nil" /\ open = FALSE
    /\ started = {} /\ stopped = {} /\ closing = FALSE
    /\ loop = "none" /\ crashed = FALSE /\ failed = FALSE
    /\ conn = [c \in Conn |-> NewConn]

----------------------------------------------------------------------------
(* The main goroutine.                                                     *)

\* Start(): binds and launches the accept goroutine unless already running.
Start(m) ==
    /\ ~crashed /\ ~closing /\ stopped = {} /\ m \notin started
    /\ started' = started \union {m}
    /\ IF listen = "socket"
       THEN UNCHANGED <<listen, open, loop>>
       ELSE /\ listen' = "socket" /\ open' = TRUE
            /\ loop' = IF kind = "tcp" THEN "check" ELSE "mux"
    /\ UNCHANGED <<kind, stopped, closing, crashed, failed, conn>>

\* A plausible slip: the last module of a shared listener closes it, counted
\* over the modules that exist and not over those that were started.
StopCloseLast(m) ==
    /\ ~crashed /\ ~closing /\ m \in started \ stopped
    /\ stopped' = stopped \union {m}
    /\ IF listen = "socket" /\ stopped' = Module
       THEN /\ open' = FALSE /\ closing' = TRUE
            /\ conn' = [c \in Conn |->
                  IF conn[c].st = "backlog" THEN NewConn ELSE conn[c]]
       ELSE UNCHANGED <<open, closing, conn>>
    /\ UNCHANGED <<kind, listen, started, loop, crashed, failed>>

\* Stop(), first half: Close() wakes the accept goroutine and resets what is
\* still in the backlog.
StopClose(m) ==
    /\ ~crashed /\ ~closing /\ m \in started \ stopped
    /\ stopped' = stopped \union {m}
    /\ IF listen = "socket"
       THEN /\ open' = FALSE /\ closing' = TRUE
            /\ conn' = [c \in Conn |->
                  IF conn[c].st = "backlog" THEN NewConn ELSE conn[c]]
       ELSE UNCHANGED <<open, closing, conn>>
    /\ UNCHANGED <<kind, listen, started, loop, crashed, failed>>

StopNil ==
    /\ ~crashed /\ closing
    /\ closing' = FALSE /\ listen' = "nil"
    /\ UNCHANGED <<kind, open, started, stopped, loop, crashed, failed, conn>>

----------------------------------------------------------------------------
(* The accept goroutine.                                                   *)

\* startListenerTCP: the test of l.listen at the head of the loop.
TcpCheck ==
    /\ ~crashed /\ loop = "check"
    /\ loop' = IF listen = "nil" THEN "gone" ELSE "load"
    /\ UNCHANGED <<mainVars, crashed, failed, conn>>

\* startListenerHTTP: builds the routes, then tests l.listen.
HttpCheck ==
    /\ ~crashed /\ loop = "mux"
    /\ loop' = IF listen = "nil" THEN "gone" ELSE "load"
    /\ UNCHANGED <<mainVars, crashed, failed, conn>>

\* l.listen is read again for the call; nil by now is a nil dereference, and
\* the goroutine's logPanicExit ends the process.
Load ==
    /\ ~crashed /\ loop = "load"
    /\ IF listen = "nil"
       THEN crashed' = TRUE /\ loop' = "gone"
       ELSE loop' = "accept" /\ UNCHANGED crashed
    /\ UNCHANGED <<mainVars, failed, conn>>

\* http.Server.Serve keeps the listener it was given.
Accept(c) ==
    /\ ~crashed /\ loop = "accept" /\ open /\ conn[c].st = "backlog"
    /\ conn' = [conn EXCEPT ![c].st = "accepted"]
    /\ loop' = IF kind = "tcp" THEN "check" ELSE "accept"
    /\ UNCHANGED <<mainVars, crashed, failed>>

AcceptClosed ==
    /\ ~crashed /\ loop = "accept" /\ ~open
    /\ loop' = "gone"
    /\ UNCHANGED <<mainVars, crashed, failed, conn>>

\* Any error but a timeout ends startListenerTCP; Serve retries temporary ones.
AcceptError ==
    /\ ~crashed /\ loop = "accept" /\ open /\ AcceptFails
    /\ failed' = TRUE
    /\ loop' = IF kind = "tcp" THEN "gone" ELSE "accept"
    /\ UNCHANGED <<mainVars, crashed, conn>>

----------------------------------------------------------------------------
(* The goroutine of a connection.                                          *)

Step(c, from) == ~crashed /\ conn[c].st = from

\* AllowedHostConfig.Check: a tcp connection is closed, a web request refused.
HostCheck(c) ==
    /\ Step(c, "accepted")
    /\ conn' = [conn EXCEPT ![c].st =
                  IF c \in Allowed \/ kind = "http" THEN "reading" ELSE "closed"]
    /\ UNCHANGED <<mainVars, loop, crashed, failed>>

\* The request arrives, in one piece or not.  The read of the nrpe handler is
\* a single Read call, which returns what is there.
Receive(c, r) ==
    /\ Step(c, "reading")
    /\ kind = "tcp"
    /\ conn' = [conn EXCEPT ![c].req = r,
          ![c].st = IF r.whole /\ Readable(r.pkt) /\ r.query /\ r.crc /\ r.pkt.ver # 3
                    THEN "running" ELSE "closed"]
    /\ UNCHANGED <<mainVars, loop, crashed, failed>>

\* WrappedCheckHTTPHandler: a web request from elsewhere is refused (403), the
\* connection stays.
WebRequest(c) ==
    /\ Step(c, "reading") /\ kind = "http" /\ c \in Allowed
    /\ conn' = [conn EXCEPT ![c].st = "running"]
    /\ UNCHANGED <<mainVars, loop, crashed, failed>>

\* A plausible slip: no read deadline on the connection.
NoReadTimeout(c) == FALSE /\ Step(c, "reading") /\ UNCHANGED vars

\* The read deadline of the socket, or the client went away.
ReadTimeout(c) ==
    /\ Step(c, "reading")
    /\ conn' = [conn EXCEPT ![c].st = "closed"]
    /\ UNCHANGED <<mainVars, loop, crashed, failed>>

\* The check returns n bytes of output, the answer is written, con is closed.
Answer(c, n) ==
    /\ Step(c, "running") /\ kind = "tcp"
    /\ conn' = [conn EXCEPT ![c].st = "closed", ![c].out = n,
                            ![c].ans = Build(conn[c].req.pkt.ver, n)]
    /\ UNCHANGED <<mainVars, loop, crashed, failed>>

\* A web connection waits for the next request.
WebAnswer(c) ==
    /\ Step(c, "running") /\ kind = "http"
    /\ conn' = [conn EXCEPT ![c].st = "reading"]
    /\ UNCHANGED <<mainVars, loop, crashed, failed>>

\* A plausible slip: the tcp goroutine exits on a panic like the accept loop.
PanicExits(c) ==
    /\ Step(c, "running")
    /\ crashed' = TRUE
    /\ UNCHANGED <<mainVars, loop, failed, conn>>

\* A panic in the request.  The tcp goroutine recovers, and ServeTCP's deferred
\* Close runs.  The web route's own deferred logPanicExit comes first.
Panic(c) ==
    /\ Step(c, "running")
    /\ IF kind = "tcp"
       THEN conn' = [conn EXCEPT ![c].st = "closed"] /\ UNCHANGED crashed
       ELSE crashed' = TRUE /\ UNCHANGED conn
    /\ UNCHANGED <<mainVars, loop, failed>>

\* A client connects: the kernel completes the handshake.
Connect(c) ==
    /\ ~crashed /\ open /\ conn[c].st = "none"
    /\ conn' = [conn EXCEPT ![c].st = "backlog"]
    /\ UNCHANGED <<mainVars, loop, crashed, failed>>

----------------------------------------------------------------------------
AcceptLoop == TcpCheck \/ HttpCheck \/ Load \/ (\E c \in Conn : Accept(c)) \/ AcceptClosed

Serve(c) ==
    \/ HostCheck(c) \/ ReadTimeout(c)
    \/ WebAnswer(c) \/ \E n \in OutLen : Answer(c, n)

Next ==
    \/ \E m \in Module : Start(m) \/ StopClose(m)
    \/ StopNil
    \/ AcceptLoop \/ AcceptError
    \/ \E c \in Conn :
          \/ Serve(c) \/ Panic(c) \/ Connect(c) \/ WebRequest(c)
          \/ \E r \in Requests : Receive(c, r)

\* The goroutines run, the read deadline fires and a check ends (it has a
\* timeout of its own).  Nobody has to connect, to start or to stop anything.
Fairness ==
    /\ WF_vars(AcceptLoop) /\ WF_vars(StopNil)
    /\ \A c \in Conn : WF_vars(Serve(c))

Spec == Init /\ [][Next]_vars /\ Fairness

----------------------------------------------------------------------------
TypeOK ==
    /\ kind \in {"tcp", "http"} /\ listen \in {"nil", "socket"} /\ open \in BOOLEAN
    /\ started \subseteq Module /\ stopped \subseteq started /\ closing \in BOOLEAN
    /\ loop \in {"none", "mux", "check", "load", "accept", "gone"}
    /\ crashed \in BOOLEAN /\ failed \in BOOLEAN
    /\ conn \in [Conn -> [
          st : {"none", "backlog", "accepted", "reading", "running", "closed"},
          req : [pkt : PacketType, whole : BOOLEAN, query : BOOLEAN, crc : BOOLEAN],
          out : Nat, ans : PacketType]]

\* While no module was stopped and no accept call failed, the accept goroutine
\* is there to serve the socket, whatever happens on the connections it has
\* handed out: listener.go "log panics during request, but continue listening".
KeepsListening ==
    started # {} /\ stopped = {} /\ ~failed
        => ~crashed /\ loop \in {"mux", "check", "load", "accept"}

\* The tcp server keeps that promise.
TcpKeepsListening == kind = "tcp" => KeepsListening

\* However Stop() interleaves with the accept goroutine, the goroutine ends
\* and the port is closed, even if another module of the object was never
\* stopped or started.
StopEndsLoop == stopped # {} ~> (crashed \/ (loop = "gone" /\ ~open))

\* No nrpe connection stays open for ever: not if the client is silent, sends
\* half a packet, is refused or runs into a panic.
ConnectionsEnd ==
    \A c \in Conn : kind = "tcp" /\ conn[c].st = "accepted"
                       ~> (conn[c].st = "closed" \/ crashed)

\* An answer on the wire is one the other end can read back: the same bytes up
\* to the limit of the protocol version, with the NUL inside the data area.
AnswerIsReadable ==
    \A c \in Conn : conn[c].ans # NoAnswer =>
        /\ Readable(conn[c].ans)
        /\ conn[c].ans.nul = Kept(conn[c].ans.ver, conn[c].out)
        /\ conn[c].ans.ver = conn[c].req.pkt.ver
=============================================================================
