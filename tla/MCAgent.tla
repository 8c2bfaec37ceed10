------------------------------ MODULE MCAgent ------------------------------
(* Values of the constants of Agent for TLC.                               *)
EXTENDS Agent

MCRank == [h \in Handler |->
    CASE h = "exporter" -> 1 [] h = "nrpe" -> 2 [] OTHER -> 3]

\* "one": nrpe alone, the exporter proxy and the admin server share a port.
\* "two": the proxy is gone, nrpe moves and the admin server is given its port.
\* "three": the admin server alone, the other two want the same port.
\* "bad" does not load.
MCBind == [c \in Config |->
    CASE c = "one" -> [h \in Handler |-> IF h = "nrpe" THEN "p1" ELSE "p2"]
      [] c = "two" -> [h \in Handler |-> IF h = "exporter" THEN NoPort ELSE "p2"]
      [] OTHER -> [h \in Handler |-> IF h = "admin" THEN "p2" ELSE "p1"]]

MCEnabled == [c \in Config |->
    IF c = "two" THEN {"CheckSystem"} ELSE Task]
============================================================================
