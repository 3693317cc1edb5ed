------------------------------- MODULE Simulator -------------------------------
(***************************************************************************)
(* The gateway's simulator: what it tells an administrator of rows before   *)
(* they are pushed, next to what the agent makes of them (Ruleset).  It has  *)
(* no part of the chains but the rows, and it goes on after an accept.       *)
(***************************************************************************)
EXTENDS Ruleset

\* The row as a request gives it to the simulator.
RuleSpec(row) ==
  [chain |-> RuleChain(row), src |-> row.src, dst |-> row.dst, proto |-> row.proto,
   ports |-> row.ports, action |-> row.action]

\* A text that is no address is the address of no packet.
SimMatches(s, p) ==
  /\ s.src \in {"any", p.src} /\ s.dst \in {"any", p.dst}
  /\ s.proto \in {"any", p.proto}
  /\ s.ports = {} \/ p.port \in s.ports

\* By the types that the request gives the interfaces.
DetermineChain(types, p, out) ==
  IF types[p.in] = "wan" THEN "input"
  ELSE IF types[p.in] = "lan" /\ types[out] = "wan" THEN "forward" ELSE "output"

BrokenStops(actions) == FALSE
\* An accept is overruled by a row further down; drop and reject are not.
Stops(action) == action \in {"drop", "reject"}

\* The rows of the packet's chain that match it.
Hits(rows, types, p, out) ==
  {i \in DOMAIN rows : LET r == RuleSpec(rows[i])
                       IN  r.chain = DetermineChain(types, p, out) /\ SimMatches(r, p)}

\* The action of the first row that stops, or else of the last one that matches.
SimulatePacket(rows, types, p, out) ==
  LET hits == Hits(rows, types, p, out)
      final == {i \in hits : Stops(rows[i].action)}
  IN IF hits = {} THEN "accept"
     ELSE IF final = {} THEN rows[CHOOSE i \in hits : \A j \in hits : j <= i].action
     ELSE rows[CHOOSE i \in final : \A j \in final : i <= j].action

\* A test is a packet with the action, and perhaps the chain, that is expected.
RunSingleTest(rows, types, test) ==
  /\ SimulatePacket(rows, types, test.packet, test.out) = test.expected
  /\ test.chain \in {None, DetermineChain(types, test.packet, test.out)}
Failed(rows, types, tests) == {test \in tests : ~RunSingleTest(rows, types, test)}
CanDeploy(rows, types, tests) == Failed(rows, types, tests) = {}

-----------------------------------------------------------------------------
(* Property.                                                                *)

\* The rows' own verdict on a packet to the host: before any DNAT, and in the
\* input chain.
RowVerdict(p) ==
  IF Verdict(RawPrerouting(table.rows), p, "none") = "drop" THEN "drop"
  ELSE Verdict(UserRules(table.rows), p, "none")
Types == [i \in Iface |-> IF i \in table.wan THEN "wan" ELSE "lan"]
Expects(p) == {[packet |-> p, out |-> "lo", expected |-> "accept", chain |-> None]}

\* "Simulates network traffic against firewall rules to validate configurations
\* before deployment": if a suite expects a packet to one of the host's addresses
\* to be accepted and passes, the rows, once pushed, do not drop that packet,
\* unless an anti-spoof row claims its very address for a container: that one is
\* of the forward chain, which the simulator does not ask, and drops before any
\* chain.  (It does not know of redirections, Docker's and a NAT row's, or of
\* texts that the renderer leaves out.)
SimulatorSeesDrops ==
  InForce /\ (\A r \in RangeOf(table.rows) : Exact(r)) =>
    \A p \in New :
      /\ p.in \in table.wan /\ p.dst \in Host /\ Arrives(table, p) = p
      /\ CanDeploy(table.rows, Types, Expects(p))
      => \/ RowVerdict(p) \in {"accept", "none"}
         \/ \E r \in RangeOf(table.rows) : r.tag = "anti-spoof" /\ r.dst = p.dst
================================================================================
