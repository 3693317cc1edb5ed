----------------------------- MODULE MCRevertTrap -----------------------------
(* Finite instances of RevertTrap.  The source's 30 s, 120 s and 15 min are   *)
(* kept in order, not in proportion: Cycle < Fresh < Window.                  *)
EXTENDS RevertTrap
===============================================================================
