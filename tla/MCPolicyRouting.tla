--------------------------- MODULE MCPolicyRouting ---------------------------
(* A finite instance of PolicyRouting: a rule and a route without interface   *)
(* of a table that is ours to name, and a rule of a table that rt_tables has  *)
(* under another name.  Others have installed an entry like our rule.         *)
EXTENDS PolicyRouting, TLC

CONSTANTS r1, r2, ours, theirs

MCTableOf == [e \in Entry |-> IF e = "alias" THEN theirs ELSE ours]
Symmetric == Permutations({r1, r2})
==============================================================================
