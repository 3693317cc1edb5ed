------------------------------- MODULE MCRuleset -------------------------------
(* Finite instances of Ruleset and Simulator: rows of every kind the renderer  *)
(* tells apart, alone and in pairs, and packets of every kind the rows and the  *)
(* chains tell apart.                                                           *)
EXTENDS Simulator

CONSTANTS host, lo, peer, container, host6, peer6

Plain == [tag |-> "none", src |-> "any", dst |-> "any", proto |-> "tcp", ports |-> {7},
          action |-> "accept", limit |-> FALSE, bridge |-> None]
MCRow ==
  {Plain,
   [Plain EXCEPT !.action = "drop", !.proto = "any", !.ports = {}],
   [Plain EXCEPT !.action = "reject", !.src = peer],
   [Plain EXCEPT !.src = peer, !.ports = {7, 8080}, !.limit = TRUE],
   [Plain EXCEPT !.src = "range"], [Plain EXCEPT !.ports = {0}, !.action = "drop"],
   [Plain EXCEPT !.proto = "udp", !.dst = host], [Plain EXCEPT !.src = peer6, !.ports = {}],
   [Plain EXCEPT !.proto = "any", !.src = peer], [Plain EXCEPT !.ports = {22}, !.limit = TRUE],
   [Plain EXCEPT !.src = peer, !.dst = host6], [Plain EXCEPT !.proto = "icmp"],
   [Plain EXCEPT !.dst = lo, !.action = "drop"],
   [Plain EXCEPT !.tag = "anti-spoof", !.dst = container, !.bridge = "br-1", !.action = "drop"],
   [Plain EXCEPT !.tag = "anti-spoof", !.dst = host, !.bridge = "br-1", !.action = "drop"],
   [Plain EXCEPT !.tag = "internal-port"]}

One(rows) == [rows |-> rows, nat |-> <<>>, wan |-> {"wan"}]
Redirect(port, to, toPort) ==
  [type |-> "dnat", proto |-> "tcp", port |-> port, to |-> to, toPort |-> toPort]
MCNat == {Redirect(22, container, None), Redirect(22, None, None), Redirect(22, "range", None),
          Redirect(22, host, 7), Redirect(7, host, 22), Redirect(None, container, 8080)}
MCPayload ==
  {One(<<>>)} \cup {One(<<r>>) : r \in MCRow} \cup {One(<<r, s>>) : r, s \in MCRow}
  \cup UNION {{[One(<<r>>) EXCEPT !.wan = {}]} \cup
              {[One(<<r>>) EXCEPT !.nat = <<n>>] : n \in MCNat} : r \in MCRow}
================================================================================
