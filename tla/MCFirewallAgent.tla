-------------------------- MODULE MCFirewallAgent --------------------------
(* Finite instances of FirewallAgent: two rulesets that load and one that   *)
(* nft rejects, two handlers, and an older snapshot that may lack a file.   *)
EXTENDS FirewallAgent, TLC

CONSTANTS r1, r2, g1, g2, b1, d1, d2

Symmetric == Permutations({g1, g2}) \cup Permutations({r1, r2})
             \cup Permutations({d1, d2})

Fresh == {None}
Older ==
  {None, [v4 |-> d1, v6 |-> d2], [v4 |-> d1, v6 |-> Missing],
   [v4 |-> Corrupt, v6 |-> d1]}
============================================================================
