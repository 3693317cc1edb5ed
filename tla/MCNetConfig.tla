----------------------------- MODULE MCNetConfig -----------------------------
(* Finite instances of NetConfig: the uplink with the WAN address and a second *)
(* interface, each with some of the rows an administrator may write.           *)
EXTENDS NetConfig, TLC

CONSTANTS wan, lan

MCBase == [i \in Iface |-> IF i = "eth0" THEN {wan} ELSE {}]
Static(i, a, gw) == [iface |-> i, dhcp |-> FALSE, addr |-> a, gw |-> gw, enabled |-> TRUE]
MCWanted ==
  {Static("eth0", wan, TRUE), Static("eth0", lan, TRUE),
   Static("eth1", lan, FALSE), Static("eth1", lan, TRUE), Static("eth1", None, TRUE),
   [Static("eth0", wan, FALSE) EXCEPT !.enabled = FALSE],
   [Static("eth1", lan, FALSE) EXCEPT !.enabled = FALSE],
   [Static("eth1", None, FALSE) EXCEPT !.dhcp = TRUE]}
Symmetric == Permutations(Req)
===============================================================================
