-------------------------- MODULE MCFirewallGateway --------------------------
(* Finite instances of FirewallGateway: two firewall rules and a third to be  *)
(* created, a policy-routing rule and another to be created, and a NAT rule   *)
(* to be created.                                                             *)
EXTENDS FirewallGateway
==============================================================================
