-------------------------------- MODULE Ruleset --------------------------------
(***************************************************************************)
(* What the firewall agent makes of the gateway's rows: the chains of       *)
(* `table inet viswall' and the verdict they give a packet, through the      *)
(* swaps of the table and the blocks that come and go between them.          *)
(*                                                                          *)
(* A rendered rule is what it asks of each field of a packet (a set of       *)
(* values) and its verdict; a chain is a sequence of rules, and the first     *)
(* rule that matches decides.  A rate is kept as one fact of a packet: it is  *)
(* over the rates in force or it is not.  FirewallAgent has the commands      *)
(* of a swap one by one, for opaque rulesets.                                *)
(***************************************************************************)
EXTENDS Naturals, Sequences, FiniteSets

CONSTANTS
  V4, V6,              \* addresses
  Host, Loopback,      \* the host's own ones, and 127.0.0.1
  Container,           \* where Docker's DNAT leads
  Port,
  Published,           \* ports that Docker publishes
  Iface, Bridges,      \* interfaces, with "lo" and "docker0"; br-* of Docker
  DefaultWan,
  Payload,             \* what the gateway may push: rows, NAT rows, WAN interfaces
  None,
  Sources,             \* the addresses that get blocked
  MaxApplies           \* bound of a behaviour

Address == V4 \cup V6
Family == {"v4", "v6"}
Protocol == {"tcp", "udp", "icmp"}
State == {"new", "established", "invalid"}

ASSUME RulesetAssumption ==
  /\ V4 \cap V6 = {} /\ Host \subseteq Address /\ Loopback \in V4 \ Host
  /\ Container \in V4 \ Host /\ Container # Loopback
  /\ Port \subseteq Nat \ {0} /\ Published \subseteq Port
  /\ {"lo", "docker0", DefaultWan} \cup Bridges \subseteq Iface
  /\ None \notin Address \cup Iface /\ Sources \subseteq Address /\ MaxApplies \in Nat

\* A packet as it arrives: where from, where to, on which interface.
Packet ==
  {p \in [fam : Family, src : Address, dst : Address, in : Iface, proto : Protocol,
          port : Port, state : State, over : BOOLEAN] :
     \A a \in {p.src, p.dst} : a \in (IF p.fam = "v4" THEN V4 ELSE V6)}

\* A rule for every packet, to be narrowed.
Every(verdict) ==
  [fam |-> Family, src |-> Address, dst |-> Address, in |-> Iface, proto |-> Protocol,
   port |-> Port, state |-> State, over |-> BOOLEAN, does |-> verdict]

Matches(r, p) == \A field \in DOMAIN p : p[field] \in r[field]

\* The first rule that matches decides, or the chain's policy.
Verdict(chain, p, policy) ==
  LET hits == {i \in DOMAIN chain : Matches(chain[i], p)}
  IN IF hits = {} THEN policy ELSE chain[CHOOSE i \in hits : \A j \in hits : i <= j].does

-----------------------------------------------------------------------------
(* Rows.  A source or destination is an address, "any", or "range": a text   *)
(* that is not an address.  Ports are a set; 0 stands for a range of more    *)
(* than 256 ports, or a text that is no port.  A tag is a word in its name,  *)
(* and so is the bridge of an anti-spoof row.                                *)

Text == Address \cup {"any", "range"}
Row == [tag : {"none", "anti-spoof", "internal-port"}, bridge : Iface \cup {None},
        src : Text, dst : Text, proto : Protocol \cup {"any"}, ports : SUBSET (Port \cup {0}),
        action : {"accept", "drop", "reject"}, limit : BOOLEAN]
NatRow == [type : {"dnat", "snat", "masquerade"}, proto : Protocol \cup {"any"},
           port : Port \cup {None}, to : Address \cup {"range", None},
           toPort : Port \cup {None}]

RangeOf(s) == {s[i] : i \in DOMAIN s}
ASSUME PayloadAssumption ==
  \A x \in Payload : x.rows \in Seq(Row) /\ x.nat \in Seq(NatRow) /\ x.wan \subseteq Iface

\* The table in force: what it was rendered from, and the sources it blocks.
TableRecord ==
  [rows : Seq(Row), nat : Seq(NatRow), wan : SUBSET Iface, blocked : SUBSET Address,
   validation : BOOLEAN]
ASSUME NoTableAssumption == None \notin TableRecord

ServicePorts(row) == row.ports \ {0}

\* Tagged rows are the only ones of the forward chain.
RuleChain(row) == IF row.tag = "none" THEN "input" ELSE "forward"

MeterSpecs == {<<"tcp", 22>>, <<"tcp", 80>>, <<"tcp", 443>>, <<"udp", 51820>>}
IsLoopbackGuard(row) ==
  /\ RuleChain(row) = "input" /\ row.action = "drop" /\ row.dst = Loopback
  /\ row.proto = "tcp" /\ ServicePorts(row) # {}
\* One rule per port, and only those of a metered port are the meter's.
MeterPorts(row) ==
  IF RuleChain(row) = "input" /\ row.limit
    THEN {n \in ServicePorts(row) : <<row.proto, n>> \in MeterSpecs} ELSE {}

LoopbackPorts(rows) == UNION {ServicePorts(r) : r \in {x \in rows : IsLoopbackGuard(x)}}

DefaultInternal == {5000, 5055, 5678, 8000, 8001, 8080, 8089, 8090, 8091, 8096, 8100,
                    8201, 8502, 8888, 9090, 10000, 11434} \cap Port
\* The ports of the tagged rows, and the built-in ones only if there is none.
InternalPorts(rows) ==
  LET given == UNION {ServicePorts(r) : r \in {x \in rows : x.tag = "internal-port" /\ x.proto = "tcp"}}
  IN IF given = {} THEN DefaultInternal ELSE given

FamilyOf(a) == IF a \in V6 THEN "v6" ELSE "v4"
RowFamily(row) == IF "v6" \in {FamilyOf(row.src), FamilyOf(row.dst)} THEN "v6" ELSE "v4"
\* ICMP is IPv4's: no packet of the other family has it as next header.
Protocols(row) ==
  IF row.proto = "any" THEN Protocol
  ELSE IF row.proto = "icmp" /\ RowFamily(row) = "v6" THEN {} ELSE {row.proto}
Addresses(a) == IF a \in Address THEN {a} ELSE Address

BrokenConvert(row) ==
  [Every(row.action) EXCEPT !.src = Addresses(row.src), !.dst = Addresses(row.dst),
     !.port = IF ServicePorts(row) # {} THEN ServicePorts(row) ELSE Port]
\* What cannot be parsed is left out of the rule, ports without a protocol too.
\* A protocol is asked for in one family: IPv4, unless an address says otherwise.
Convert(row) ==
  [Every(row.action) EXCEPT
     !.src = Addresses(row.src), !.dst = Addresses(row.dst),
     !.fam = IF row.proto = "any" THEN Family ELSE {RowFamily(row)},
     !.proto = Protocols(row),
     !.port = IF row.proto # "any" /\ ServicePorts(row) # {}
                THEN ServicePorts(row) \ MeterPorts(row) ELSE Port,
     !.over = IF row.limit THEN {FALSE} ELSE BOOLEAN]

\* For a row that renders to no rule: one that no packet matches.
Absent == [Every("none") EXCEPT !.fam = {}]
\* The rows of a chain that no section of their own has.
UserRules(rows) ==
  LET plain(row) == /\ RuleChain(row) = "input" /\ ~IsLoopbackGuard(row)
                    /\ (MeterPorts(row) = {} \/ MeterPorts(row) # ServicePorts(row))
  IN [i \in DOMAIN rows |-> IF plain(rows[i]) THEN Convert(rows[i]) ELSE Absent]

-----------------------------------------------------------------------------
(* The chains.                                                              *)

Mgmt == MeterSpecs \cup {<<"tcp", n>> : n \in {25, 53, 110, 143, 993, 995} \cup 21114 .. 21119}
                   \cup {<<"udp", 53>>, <<"udp", 21116>>}
Opened(f) == IF f = "v4" THEN Mgmt ELSE MeterSpecs
PortsOf(pairs, proto) == {n \in Port : <<proto, n>> \in pairs}

\* Both before any DNAT.
LoopbackGuards(rows) ==
  LET guarded == LoopbackPorts(RangeOf(rows)) IN
  IF guarded = {} THEN <<>>
  ELSE <<[Every("drop") EXCEPT !.in = Iface \ {"lo"}, !.dst = {Loopback},
                               !.proto = {"tcp"}, !.port = guarded]>>
AntiSpoof(rows) ==
  LET named(r) == r.tag = "anti-spoof" /\ r.bridge # None /\ r.dst \in Address
  IN [i \in DOMAIN rows |->
        IF named(rows[i])
          THEN [Every("drop") EXCEPT !.in = Iface \ {rows[i].bridge}, !.dst = {rows[i].dst}]
          ELSE Absent]
RawPrerouting(rows) == LoopbackGuards(rows) \o AntiSpoof(rows)

Tracked == [Every("accept") EXCEPT !.state = {"established"}]
Blacklisted(blocked) == [Every("drop") EXCEPT !.src = blocked]
Icmp == [Every("accept") EXCEPT !.proto = {"icmp"}, !.over = {FALSE}]
\* Only what is over its rate is dropped.
Meter(proto) ==
  [Every("drop") EXCEPT !.proto = {proto}, !.port = PortsOf(MeterSpecs, proto), !.over = {TRUE}]
Accepts(f, proto) ==
  [Every("accept") EXCEPT !.fam = {f}, !.proto = {proto}, !.port = PortsOf(Opened(f), proto)]
AgentPorts == {8081, 8083, 8085} \cap Port
Agents == [Every("accept") EXCEPT !.in = Bridges, !.proto = {"tcp"}, !.port = AgentPorts]
Database == [Every("drop") EXCEPT !.proto = {"tcp"}, !.port = {5432} \cap Port]
AcceptsFrom(ifaces) == [Every("accept") EXCEPT !.in = ifaces]

Mandatory(blocked) ==
  <<Tracked, Blacklisted(blocked), AcceptsFrom({"lo"}), Icmp, Meter("tcp"), Meter("udp"),
    Accepts("v4", "tcp"), Accepts("v4", "udp"), Accepts("v6", "tcp"), Accepts("v6", "udp"),
    AcceptsFrom({"docker0"}), Agents, Database>>

BrokenInput(t) == <<Tracked>> \o UserRules(t.rows) \o Tail(Mandatory(t.blocked)) \o <<Every("drop")>>
BrokenBlacklist(t) ==
  Mandatory({}) \o UserRules(t.rows) \o <<Blacklisted(t.blocked), Every("drop")>>
\* User rules come after every mandatory accept, and the rest is dropped.
Input(t) == Mandatory(t.blocked) \o UserRules(t.rows) \o <<Every("drop")>>

WanIfaces(t) == IF t.wan = {} THEN {DefaultWan} ELSE t.wan
InternalDrops(t) ==
  [Every("drop") EXCEPT !.in = WanIfaces(t), !.proto = {"tcp"},
                        !.port = InternalPorts(RangeOf(t.rows))]
ToContainer == [Every("accept") EXCEPT !.dst = {Container}]
BrokenForward(t) ==
  <<Tracked, AcceptsFrom(Bridges \cup {"docker0"}), ToContainer, InternalDrops(t), Every("accept")>>
\* The port is the one the packet came with, whatever DNAT made of it.  What is
\* routed to a container leaves on its bridge.
Forward(t) ==
  <<Tracked, InternalDrops(t), AcceptsFrom(Bridges \cup {"docker0"}), ToContainer, Every("accept")>>

ConvertNat(n) ==
  [Every([dst |-> n.to, port |-> n.toPort]) EXCEPT
     !.fam = {"v4"}, !.proto = {n.proto}, !.port = IF n.port = None THEN Port ELSE {n.port}]
\* A target is an address, one of IPv6 in brackets, and perhaps a port.
ValidToAddr(to) == to \in Address
\* NAT rows: only DNAT to an address counts, at a hook before Docker's.
Dnat(nat) ==
  [i \in DOMAIN nat |-> IF nat[i].type = "dnat" /\ ValidToAddr(nat[i].to)
                          THEN ConvertNat(nat[i]) ELSE Absent]
\* No rule asks for the container's port.
DockerDnat(p) ==
  [dst |-> IF p.dst \in Host /\ p.port \in Published THEN Container ELSE p.dst, port |-> None]
\* The packet as DNAT leaves it.
Arrives(t, p) ==
  LET to == Verdict(Dnat(t.nat), p, DockerDnat(p))
  IN [p EXCEPT !.dst = to.dst, !.port = IF to.port = None THEN p.port ELSE to.port]

\* The hooks in their order.  In validation every chain accepts.
Traverse(t, p) ==
  IF t = None \/ t.validation THEN "accept"
  ELSE IF Verdict(RawPrerouting(t.rows), p, "accept") = "drop" THEN "drop"
  ELSE LET q == Arrives(t, p)
       IN IF q.dst \in Host \cup {Loopback} THEN Verdict(Input(t), q, "drop")
          ELSE Verdict(Forward(t), [p EXCEPT !.dst = q.dst], "drop")

-----------------------------------------------------------------------------
(* The table's life.                                                        *)

VARIABLES
  validation,  \* the agent's environment: VALIDATION_MODE=1
  table,       \* the kernel's table, None if there is none
  conf,        \* the last ruleset that was written
  good,        \* the one before it, in the middle of a swap
  asked,       \* sources that were added, and the gateway has not answered yet
  promised,    \* history: sources whose block was answered with success, until
               \* they are unblocked or their time is over
  swept,       \* history: sources whose element went with its table, since they
               \* were added last
  nApplies

blockVars == <<asked, promised, swept>>
vars == <<validation, table, conf, good, blockVars, nApplies>>

\* Every rendering declares the blacklist's sets anew.
Render(x) ==
  [rows |-> x.rows, nat |-> x.nat, wan |-> x.wan, blocked |-> {}, validation |-> validation]

Init ==
  /\ validation \in BOOLEAN
  /\ \E x \in Payload : x.rows = <<>> /\ conf = Render(x)
  /\ table = conf /\ good = None /\ nApplies = 0
  /\ asked = {} /\ promised = {} /\ swept = {}

\* The agent refuses a redirection whose target it cannot parse.
Convertible(x) == \A n \in RangeOf(x.nat) : n.to = None \/ ValidToAddr(n.to)
\* nft refuses a rule of two families, ports of a protocol that has none, and a
\* redirection from one family into the other, or from both.
\* (A refused ruleset leaves the table as it is.)
Mixed(row) == {row.src, row.dst} \cap V4 # {} /\ {row.src, row.dst} \cap V6 # {}
Loads(x) ==
  x.validation \/
  /\ \A r \in RangeOf(x.rows) :
        RuleChain(r) = "input" =>
          /\ ~Mixed(r) /\ (r.proto = "icmp" => ServicePorts(r) = {})
  /\ \A n \in RangeOf(x.nat) :
        ValidToAddr(n.to) => /\ n.to \in V4 /\ n.proto # "any"
                             /\ n.proto = "icmp" => n.port = None /\ n.toPort = None

Blocked == IF table = None THEN {} ELSE table.blocked
\* The sets of blocked sources go with their table.
DropTable ==
  /\ table' = None /\ swept' = swept \cup Blocked
  /\ UNCHANGED <<asked, promised>>

Apply(x) ==
  /\ good = None /\ nApplies < MaxApplies /\ Convertible(x) /\ Loads(Render(x))
  /\ good' = conf /\ conf' = Render(x)
  /\ DropTable /\ nApplies' = nApplies + 1
  /\ UNCHANGED validation

\* The new table is loaded, or the last good one, or neither.
EndOfSwap ==
  /\ good # None /\ good' = None
  /\ \/ conf' = conf /\ table' \in {conf, None}
     \/ conf' = good /\ table' = good
  /\ UNCHANGED <<validation, blockVars, nApplies>>

\* The legacy firewall takes over.
Rollback ==
  /\ good = None /\ table # None /\ DropTable
  /\ UNCHANGED <<validation, conf, good, nApplies>>

\* nft add element fails without its table, and has nothing to do for an element
\* that is there.
AddToBlacklist(a) ==
  /\ table # None
  /\ table' = [table EXCEPT !.blocked = @ \cup {a}]
\* nft delete element fails without its element.
RemoveFromBlacklist(a) ==
  /\ table # None /\ a \in table.blocked
  /\ table' = [table EXCEPT !.blocked = @ \ {a}]

\* The agent's half of a block.
BlockIp(a) ==
  /\ AddToBlacklist(a)
  /\ asked' = asked \cup {a} /\ swept' = swept \ {a}
  /\ UNCHANGED <<validation, conf, good, promised, nApplies>>
\* The gateway's half, whatever has become of the table since.  If the agent's
\* answer gets lost, it never comes.
BlockAnswered(a) ==
  /\ a \in asked /\ asked' = asked \ {a} /\ promised' = promised \cup {a}
  /\ UNCHANGED <<validation, table, conf, good, swept, nApplies>>

\* A block that is taken back before its answer promises nothing.
Release(a) ==
  /\ RemoveFromBlacklist(a)
  /\ asked' = asked \ {a} /\ promised' = promised \ {a}
  /\ UNCHANGED <<validation, conf, good, swept, nApplies>>
UnblockIp(a) == Release(a)
Expire(a) == Release(a)

\* The agent waits for requests.
Waiting == nApplies = MaxApplies /\ good = None /\ UNCHANGED vars

Next ==
  \/ \E x \in Payload : Apply(x)
  \/ EndOfSwap \/ Rollback \/ Waiting
  \/ \E a \in Sources : BlockIp(a) \/ BlockAnswered(a) \/ UnblockIp(a) \/ Expire(a)

Spec == Init /\ [][Next]_vars

-----------------------------------------------------------------------------
(* Properties.                                                              *)

New == {p \in Packet : p.state = "new"}
InForce == table # None /\ ~table.validation

\* "a console rule can never override SSH/WG/established/lo access": whatever
\* rows were pushed, a packet to a management port of the host, within its rate
\* and not from a blocked source, is accepted, unless a row redirects its port
\* or declares the host's own address a container's.
ToManagement == {p \in New : p.dst \in Host /\ ~p.over /\ <<p.proto, p.port>> \in Opened(p.fam)}
ManagementOpen ==
  InForce =>
    \A p \in ToManagement :
      \/ p.src \in table.blocked
      \/ Arrives(table, p) # p
      \/ \E r \in RangeOf(table.rows) : r.tag = "anti-spoof" /\ r.dst = p.dst
      \/ Traverse(table, p) = "accept"

\* "a blocked source IP reaches NO host INPUT service": whoever was told that a
\* source is blocked finds nothing new from it accepted by the host, whatever row
\* accepts it and wherever it is redirected, until it is unblocked, its time is
\* over, or the table it was added to is replaced or removed, before the answer
\* or after it.
BlockedStayOut ==
  InForce =>
    \A p \in {x \in New : x.src \in promised \ swept} :
      Arrives(table, p).dst \in Host \cup {Loopback} => Traverse(table, p) # "accept"

\* "a bridge accept first would let WAN->published internal ports through": from
\* a WAN interface nothing new on an internal port gets past the host, although
\* it looks like container traffic once its destination is rewritten.
InternalPortsClosed ==
  InForce =>
    \A p \in New :
      /\ p.in \in WanIfaces(table) /\ p.proto = "tcp"
      /\ p.port \in InternalPorts(RangeOf(table.rows))
      /\ Arrives(table, p).dst \notin Host \cup {Loopback}
      => Traverse(table, p) # "accept"

\* Every text and every port of the row is rendered.
Exact(r) == /\ r.src # "range" /\ r.dst # "range" /\ 0 \notin r.ports
            /\ (r.proto = "any" => r.ports = {})
\* A row accepts a packet by all that can be rendered of it.
Covers(r, p) ==
  /\ r.action = "accept" /\ r.src \in {"any", "range", p.src} /\ r.dst \in {"any", "range", p.dst}
  /\ r.proto \in {"any", p.proto}
  /\ r.proto = "any" \/ ServicePorts(r) = {} \/ p.port \in r.ports
\* A NAT row makes q of p.
Redirects(n, p, q) ==
  /\ n.type = "dnat" /\ n.proto = p.proto /\ n.port \in {None, p.port}
  /\ q = [p EXCEPT !.dst = n.to, !.port = IF n.toPort = None THEN p.port ELSE n.toPort]

\* From a WAN interface the host accepts what is open by design and what a row
\* accepts, of the packet as it arrives: on its own, or as a NAT row redirects it,
\* address and port.  A row is never wider than the part of it that the renderer
\* has to leave out: a text that is no address, a wide range of ports, ports
\* without a protocol (see the README).
OnlyWritten ==
  InForce =>
    \A p \in New :
      LET q == Arrives(table, p) IN
      /\ p.in \in WanIfaces(table) /\ q.dst \in Host \cup {Loopback}
      /\ Traverse(table, p) = "accept"
      => /\ q = p \/ \E n \in RangeOf(table.nat) : Redirects(n, p, q)
         /\ \/ p.proto = "icmp" \/ <<q.proto, q.port>> \in Opened(q.fam)
            \/ \E r \in RangeOf(table.rows) : Covers(r, q)
================================================================================
