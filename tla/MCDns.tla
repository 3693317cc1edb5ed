--------------------------------- MODULE MCDns ---------------------------------
(* Finite instances of Dns.                                                   *)
EXTENDS Dns
===============================================================================
