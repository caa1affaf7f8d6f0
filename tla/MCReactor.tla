----------------------------- MODULE MCReactor -----------------------------
(* Instances of the reactor for TLC: one client waits for its answer, the  *)
(* other writes two lines as it likes.                                     *)
EXTENDS Reactor

CONSTANTS waits, hasty

LinesOf == [k \in Clients |-> IF k = waits THEN 1 ELSE 2]

=============================================================================
