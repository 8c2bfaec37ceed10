---------------------------- MODULE AgentService ----------------------------
(***************************************************************************)
(* What the agent promises to those who connect to it, whatever the order  *)
(* in which its modules are stopped and started: one configuration is in   *)
(* force at a time, a port that is open serves that configuration, and the *)
(* next configuration is put in force only while no port is open.          *)
(***************************************************************************)
EXTENDS Naturals

CONSTANT Port

VARIABLES
    active,   \* number of the configuration in force, 0 before the first
    svc       \* svc[p]: number of the configuration port p serves, 0 if closed

Init == active = 0 /\ svc = [p \in Port |-> 0]

Activate ==
    /\ \A p \in Port : svc[p] = 0
    /\ active' = active + 1
    /\ UNCHANGED svc

Open(p) ==
    /\ active > 0 /\ svc[p] = 0
    /\ svc' = [svc EXCEPT ![p] = active]
    /\ UNCHANGED active

Close(p) ==
    /\ svc' = [svc EXCEPT ![p] = 0]
    /\ UNCHANGED active

Next == Activate \/ \E p \in Port : Open(p) \/ Close(p)

Spec == Init /\ [][Next]_<<active, svc>>

----------------------------------------------------------------------------
\* What the promise means to a client: a port that is open serves the
\* configuration in force (startModules() opens ports only after the switch).
OneInForce == active \in Nat /\ \A p \in Port : svc[p] \in {0, active}

\* Between two configurations a port is closed: no connection is accepted by
\* a listener of one and served by the other (stopModules() before
\* startModules(), snclient.go).
ClosesBetween ==
    [][\A p \in Port : svc[p] # 0 /\ svc'[p] # 0 => svc'[p] = svc[p]]_<<active, svc>>

\* The configurations in force only go forward, one at a time.
OneByOne == [][active' \in {active, active + 1}]_<<active, svc>>
=============================================================================
