--------------------------------- MODULE MCVpn ---------------------------------
(* Finite instances of Vpn: two servers, a child of theirs, a configuration    *)
(* that is running, one that could be and one that cannot.  Requests are       *)
(* interchangeable, and so are the servers, and the configurations that work.  *)
EXTENDS Vpn, TLC

Symmetry == Permutations(Req) \cup Permutations(Server) \cup Permutations(Good)
===============================================================================
