------------------------------ MODULE MCUpdate ------------------------------
EXTENDS Update
\* The third version happens to be as large as the second one.
MCSizes == [v \in First..MaxVersion |-> IF v = 3 THEN 2 ELSE v]
=============================================================================
