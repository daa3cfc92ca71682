------------------------------ MODULE MCStream ------------------------------
(* Two threads that put and three that take, three elements.                  *)
EXTENDS Stream

CONSTANTS p1, p2, t1, t2, t3

MCPutters == {p1, p2}
MCTakers == {t1, t2, t3}
=============================================================================
