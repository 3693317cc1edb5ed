-------------------------- MODULE ReachabilityProofs --------------------------
(***************************************************************************)
(* Theorems about what keeps the host reachable, in three parts: the        *)
(* ruleset and the simulator of it, for every payload, every set of         *)
(* addresses, ports and interfaces and every order of swaps and blocks;     *)
(* policy routing, for every number of concurrent applies, of rules, routes *)
(* and tables; the dead-man switch, for every window, age, number of        *)
(* snapshots, losses, failures and crashes.                                 *)
(***************************************************************************)
EXTENDS Simulator, PolicyRouting, RevertTrap, SequenceTheorems, WellFoundedInduction, TLAPS

-----------------------------------------------------------------------------
(* Chains.                                                                     *)

LEMMA FirstMatch ==
  ASSUME NEW chain, NEW p, NEW policy, DOMAIN chain \subseteq Nat,
         NEW n \in DOMAIN chain, Matches(chain[n], p),
         \A j \in DOMAIN chain : j < n => ~Matches(chain[j], p)
  PROVE  Verdict(chain, p, policy) = chain[n].does
<1> DEFINE hits == {i \in DOMAIN chain : Matches(chain[i], p)}
           first == CHOOSE i \in hits : \A j \in hits : i <= j
<1>1. n \in hits /\ \A j \in hits : n <= j
  OBVIOUS
<1>2. first \in hits /\ \A j \in hits : first <= j
  BY <1>1
<1>3. first = n
  BY <1>1, <1>2
<1> QED
  BY <1>1, <1>3 DEF Verdict

LEMMA Least ==
  ASSUME NEW H, H \subseteq Nat, H # {}
  PROVE  \E m \in H : \A j \in H : m <= j
<1> DEFINE R == OpToRel(<, Nat)
<1>1. IsWellFoundedOn(R, Nat)
  BY NatLessThanWellFounded
<1>2. PICK m \in H : \A j \in H : ~(<<j, m>> \in R)
  <2> HIDE DEF R
  <2> QED
    BY <1>1, WFMin
<1>3. \A j \in H : ~(j < m)
  BY <1>2 DEF OpToRel
<1> QED
  BY <1>3

LEMMA SomeMatch ==
  ASSUME NEW chain, NEW p, NEW policy, DOMAIN chain \subseteq Nat,
         NEW k \in DOMAIN chain, Matches(chain[k], p)
  PROVE  \E n \in DOMAIN chain :
            /\ n <= k /\ Matches(chain[n], p)
            /\ \A j \in DOMAIN chain : j < n => ~Matches(chain[j], p)
            /\ Verdict(chain, p, policy) = chain[n].does
<1> DEFINE H == {i \in DOMAIN chain : Matches(chain[i], p)}
<1>1. PICK n \in H : \A j \in H : n <= j
  BY Least
<1>2. n \in DOMAIN chain /\ n <= k /\ Matches(chain[n], p)
  BY <1>1
<1>3. \A j \in DOMAIN chain : j < n => ~Matches(chain[j], p)
  BY <1>1
<1> QED
  BY <1>2, <1>3, FirstMatch

LEMMA NoMatch ==
  ASSUME NEW chain, NEW p, NEW policy, \A i \in DOMAIN chain : ~Matches(chain[i], p)
  PROVE  Verdict(chain, p, policy) = policy
BY DEF Verdict

Fields == [fam : Family, src : Address, dst : Address, in : Iface, proto : Protocol,
           port : Port, state : State, over : BOOLEAN]

LEMMA MatchesField ==
  ASSUME NEW p \in Fields, NEW r
  PROVE  Matches(r, p) <=> /\ p.fam \in r.fam /\ p.src \in r.src /\ p.dst \in r.dst
                           /\ p.in \in r.in /\ p.proto \in r.proto /\ p.port \in r.port
                           /\ p.state \in r.state /\ p.over \in r.over
<1>1. DOMAIN p = {"fam", "src", "dst", "in", "proto", "port", "state", "over"}
  BY DEF Fields
<1> QED
  BY <1>1 DEF Matches

LEMMA AbsentMatchesNone ==
  ASSUME NEW p \in Fields
  PROVE  ~Matches(Absent, p)
BY MatchesField DEF Absent, Every

-----------------------------------------------------------------------------
(* The head of the input chain.                                                *)

LEMMA UserRulesSequence ==
  ASSUME NEW rows \in Seq(Row)
  PROVE  UserRules(rows) \in Seq({Convert(row) : row \in Row} \cup {Absent})
<1>1. DOMAIN rows = 1 .. Len(rows) /\ Len(rows) \in Nat /\ \A i \in 1 .. Len(rows) : rows[i] \in Row
  OBVIOUS
<1> QED
  BY <1>1 DEF UserRules

LEMMA Prefix ==
  ASSUME NEW S, NEW s \in Seq(S), NEW t \in Seq(S)
  PROVE  /\ s \o t \in Seq(S) /\ Len(s) <= Len(s \o t)
         /\ \A i \in 1 .. Len(s) : (s \o t)[i] = s[i]
<1>1. Len(s) \in Nat /\ Len(t) \in Nat
  OBVIOUS
<1>2. Len(s \o t) = Len(s) + Len(t)
  BY ConcatProperties
<1>3. \A i \in 1 .. Len(s) + Len(t) : (s \o t)[i] = IF i <= Len(s) THEN s[i] ELSE t[i - Len(s)]
  BY ConcatProperties
<1> QED
  BY <1>1, <1>2, <1>3

LEMMA InputHead ==
  ASSUME NEW t, t.rows \in Seq(Row)
  PROVE  /\ DOMAIN Input(t) \subseteq Nat \ {0} /\ 1 .. 13 \subseteq DOMAIN Input(t)
         /\ \A i \in 1 .. 13 : Input(t)[i] = Mandatory(t.blocked)[i]
<1> DEFINE M == Mandatory(t.blocked)
           U == UserRules(t.rows)
           D == <<Every("drop")>>
           C == {Convert(row) : row \in Row} \cup {Absent}
           S == {M[i] : i \in 1 .. 13} \cup C \cup {Every("drop")}
<1>1. M \in Seq(S) /\ Len(M) = 13
  <2>1. M = [i \in 1 .. 13 |-> M[i]]
    BY DEF Mandatory
  <2>2. \A i \in 1 .. 13 : M[i] \in S
    OBVIOUS
  <2> HIDE DEF M, S
  <2> QED
    BY <2>1, <2>2
<1>2. U \in Seq(S)
  <2>1. U \in Seq(C)
    BY UserRulesSequence
  <2>2. C \subseteq S
    OBVIOUS
  <2> HIDE DEF U, C, S
  <2> QED
    BY <2>1, <2>2
<1>3. D \in Seq(S)
  <2>1. Every("drop") \in S
    OBVIOUS
  <2> HIDE DEF S
  <2> QED
    BY <2>1
<1> HIDE DEF M, U, D, S
<1> DEFINE MU == M \o U
           I == MU \o D
<1>4. MU \in Seq(S) /\ Len(M) <= Len(MU) /\ \A i \in 1 .. Len(M) : MU[i] = M[i]
  BY <1>1, <1>2, Prefix, Zenon
<1> HIDE DEF MU
<1>5. I \in Seq(S) /\ Len(MU) <= Len(I) /\ \A i \in 1 .. Len(MU) : I[i] = MU[i]
  BY <1>3, <1>4, Prefix, Zenon
<1>6. Input(t) = I
  BY DEF Input, M, U, D, MU
<1> HIDE DEF I
<1>7. Len(MU) \in Nat /\ 13 <= Len(MU) /\ \A i \in 1 .. 13 : MU[i] = M[i]
  <2>1. Len(MU) \in Nat
    BY <1>4
  <2>2. Len(M) = 13 /\ Len(M) <= Len(MU) /\ \A i \in 1 .. Len(M) : MU[i] = M[i]
    BY <1>1, <1>4
  <2> QED
    BY <2>1, <2>2
<1>8. Len(I) \in Nat /\ DOMAIN I = 1 .. Len(I)
  BY <1>5
<1>9. 13 <= Len(I) /\ \A i \in 1 .. 13 : I[i] = M[i]
  <2>1. Len(MU) <= Len(I) /\ \A i \in 1 .. Len(MU) : I[i] = MU[i]
    BY <1>5
  <2>2. \A i \in 1 .. 13 : i \in 1 .. Len(MU)
    BY <1>7
  <2>3. \A i \in 1 .. 13 : I[i] = M[i]
    BY <1>7, <2>1, <2>2
  <2> QED
    BY <1>7, <1>8, <2>1, <2>3
<1>10. DOMAIN I \subseteq Nat \ {0} /\ 1 .. 13 \subseteq DOMAIN I
  <2>1. 13 <= Len(I)
    BY <1>9
  <2> QED
    BY <1>8, <2>1
<1>11. \A i \in 1 .. 13 : I[i] = Mandatory(t.blocked)[i]
  BY <1>9 DEF M
<1> QED
  BY <1>6, <1>10, <1>11, Zenon

\* Which packets the rules of the host itself match, and what they do.
LEMMA MandatoryTuple ==
  ASSUME NEW blocked, NEW M, M = Mandatory(blocked)
  PROVE  /\ M[1] = Tracked /\ M[2] = Blacklisted(blocked)
         /\ M[3] = AcceptsFrom({"lo"}) /\ M[4] = Icmp
         /\ M[5] = Meter("tcp") /\ M[6] = Meter("udp")
         /\ M[7] = Accepts("v4", "tcp") /\ M[8] = Accepts("v4", "udp")
         /\ M[9] = Accepts("v6", "tcp") /\ M[10] = Accepts("v6", "udp")
         /\ M[11] = AcceptsFrom({"docker0"}) /\ M[12] = Agents
         /\ M[13] = Database
BY Zenon DEF Mandatory

LEMMA MandatoryRules ==
  ASSUME NEW p \in Fields, NEW blocked, NEW M, M = Mandatory(blocked)
  PROVE  /\ Matches(M[1], p) <=> p.state = "established"
         /\ Matches(M[2], p) <=> p.src \in blocked
         /\ \A i \in {5, 6} : Matches(M[i], p) => p.over
         /\ M[2].does = "drop"
         /\ \A i \in {1, 3, 4, 7, 8, 9, 10, 11, 12} : M[i].does = "accept"
<1>1. Matches(Tracked, p) <=> p.state = "established"
  BY MatchesField DEF Tracked, Every, Fields
<1>2. Matches(Blacklisted(blocked), p) <=> p.src \in blocked
  BY MatchesField DEF Blacklisted, Every, Fields
<1>3. \A proto : Matches(Meter(proto), p) => p.over
  <2>1. \A proto : Meter(proto).over = {TRUE}
    BY DEF Meter, Every
  <2>2. \A proto : Matches(Meter(proto), p) => p.over \in {TRUE}
    BY <2>1, MatchesField
  <2> QED
    BY <2>2
<1>4. /\ Tracked.does = "accept" /\ Blacklisted(blocked).does = "drop" /\ Icmp.does = "accept"
      /\ Agents.does = "accept" /\ \A ifaces : AcceptsFrom(ifaces).does = "accept"
      /\ \A f, proto : Accepts(f, proto).does = "accept"
  BY DEF Tracked, Blacklisted, Icmp, Agents, AcceptsFrom, Accepts, Every
<1>5. /\ Matches(M[1], p) <=> p.state = "established"
      /\ Matches(M[2], p) <=> p.src \in blocked
      /\ Matches(M[5], p) => p.over
      /\ Matches(M[6], p) => p.over
  BY <1>1, <1>2, <1>3, MandatoryTuple, Zenon
<1>6. /\ M[1] = Tracked /\ M[2] = Blacklisted(blocked) /\ M[3] = AcceptsFrom({"lo"}) /\ M[4] = Icmp
      /\ M[7] = Accepts("v4", "tcp") /\ M[8] = Accepts("v4", "udp")
      /\ M[9] = Accepts("v6", "tcp") /\ M[10] = Accepts("v6", "udp")
      /\ M[11] = AcceptsFrom({"docker0"}) /\ M[12] = Agents
  BY MandatoryTuple
<1>7. M[2].does = "drop"
  BY <1>4, <1>6, Zenon
<1>8. ASSUME NEW i \in {1, 3, 4, 7, 8, 9, 10, 11, 12} PROVE M[i].does = "accept"
  <2>1. M[1].does = "accept" /\ M[3].does = "accept" /\ M[4].does = "accept"
    BY <1>4, <1>6
  <2>2. M[7].does = "accept" /\ M[8].does = "accept"
    BY <1>4, <1>6
  <2>3. M[9].does = "accept" /\ M[10].does = "accept"
    BY <1>4, <1>6
  <2>4. M[11].does = "accept" /\ M[12].does = "accept"
    BY <1>4, <1>6
  <2> QED
    BY <2>1, <2>2, <2>3, <2>4, Zenon
<1>9. \A i \in {5, 6} : Matches(M[i], p) => p.over
  BY <1>5, Zenon
<1> QED
  BY <1>5, <1>7, <1>8, <1>9, Zenon

LEMMA ManagementRule ==
  ASSUME NEW p \in Fields, <<p.proto, p.port>> \in Opened(p.fam),
         NEW blocked, NEW M, M = Mandatory(blocked)
  PROVE  \E k \in 7 .. 10 : Matches(M[k], p)
<1>1. p.proto \in {"tcp", "udp"} /\ p.port \in PortsOf(Opened(p.fam), p.proto)
  BY DEF Opened, Mgmt, MeterSpecs, PortsOf, Fields
<1>2. Matches(Accepts(p.fam, p.proto), p)
  <2> DEFINE A == Accepts(p.fam, p.proto)
  <2>1. /\ A.fam = {p.fam} /\ A.proto = {p.proto} /\ A.port = PortsOf(Opened(p.fam), p.proto)
        /\ A.src = Address /\ A.dst = Address /\ A.in = Iface
        /\ A.state = State /\ A.over = BOOLEAN
    BY DEF Accepts, Every
  <2>2. p.src \in Address /\ p.dst \in Address /\ p.in \in Iface /\ p.state \in State
        /\ p.over \in BOOLEAN
    BY DEF Fields
  <2> HIDE DEF A
  <2>3. Matches(A, p)
    BY <1>1, <2>1, <2>2, MatchesField
  <2> QED
    BY <2>3 DEF A
<1>3. p.fam \in {"v4", "v6"}
  BY DEF Fields, Family
<1>4. \/ Matches(Accepts("v4", "tcp"), p) \/ Matches(Accepts("v4", "udp"), p)
      \/ Matches(Accepts("v6", "tcp"), p) \/ Matches(Accepts("v6", "udp"), p)
  <2>1. CASE p.fam = "v4"
    BY <1>1, <1>2, <2>1
  <2>2. CASE p.fam = "v6"
    BY <1>1, <1>2, <2>2
  <2> QED
    BY <1>3, <2>1, <2>2
<1>5. Matches(M[7], p) \/ Matches(M[8], p) \/ Matches(M[9], p) \/ Matches(M[10], p)
  BY <1>4, MandatoryTuple
<1> QED
  BY <1>5

LEMMA InputAccepts ==
  ASSUME NEW t \in TableRecord, NEW p \in Fields, p.state = "new", ~p.over,
         <<p.proto, p.port>> \in Opened(p.fam), p.src \notin t.blocked
  PROVE  Verdict(Input(t), p, "drop") = "accept"
<1> DEFINE M == Mandatory(t.blocked)
           C == Input(t)
<1>1. /\ DOMAIN C \subseteq Nat \ {0} /\ 1 .. 13 \subseteq DOMAIN C
      /\ \A i \in 1 .. 13 : C[i] = M[i]
  BY InputHead DEF TableRecord
<1>2. PICK k \in 7 .. 10 : Matches(M[k], p)
  BY ManagementRule
<1>3. /\ Matches(M[1], p) <=> p.state = "established"
      /\ Matches(M[2], p) <=> p.src \in t.blocked
      /\ \A i \in {5, 6} : Matches(M[i], p) => p.over
      /\ \A i \in {1, 3, 4, 7, 8, 9, 10, 11, 12} : M[i].does = "accept"
  BY MandatoryRules
<1> HIDE DEF M, C
<1>4. k \in DOMAIN C /\ Matches(C[k], p) /\ DOMAIN C \subseteq Nat
  <2>1. k \in 1 .. 13
    BY <1>2
  <2>2. k \in DOMAIN C /\ C[k] = M[k]
    BY <1>1, <2>1
  <2> QED
    BY <1>1, <1>2, <2>2
<1>5. PICK n \in DOMAIN C : n <= k /\ Matches(C[n], p) /\ Verdict(C, p, "drop") = C[n].does
  BY <1>4, SomeMatch
<1>6. n \in 1 .. 10 /\ C[n] = M[n]
  <2>1. n \in Nat \ {0} /\ n <= k
    BY <1>1, <1>5
  <2>2. n \in 1 .. 10 /\ n \in 1 .. 13
    BY <1>2, <2>1
  <2> QED
    BY <1>1, <2>2
<1>7. n \notin {2, 5, 6}
  BY <1>3, <1>5, <1>6
<1>8. C[n].does = "accept"
  BY <1>3, <1>6, <1>7
<1> QED
  BY <1>5, <1>8 DEF C

LEMMA InputDrops ==
  ASSUME NEW t \in TableRecord, NEW p \in Fields, p.state = "new", p.src \in t.blocked
  PROVE  Verdict(Input(t), p, "drop") = "drop"
<1> DEFINE M == Mandatory(t.blocked)
           C == Input(t)
<1>1. /\ DOMAIN C \subseteq Nat \ {0} /\ 1 .. 13 \subseteq DOMAIN C
      /\ \A i \in 1 .. 13 : C[i] = M[i]
  BY InputHead DEF TableRecord
<1>2. ~Matches(M[1], p) /\ Matches(M[2], p) /\ M[2].does = "drop"
  BY MandatoryRules
<1> HIDE DEF M, C
<1>3. /\ 2 \in DOMAIN C /\ DOMAIN C \subseteq Nat /\ Matches(C[2], p) /\ C[2].does = "drop"
      /\ \A j \in DOMAIN C : j < 2 => ~Matches(C[j], p)
  <2>1. 1 \in 1 .. 13 /\ 2 \in 1 .. 13
    OBVIOUS
  <2>2. 2 \in DOMAIN C /\ C[1] = M[1] /\ C[2] = M[2]
    BY <1>1, <2>1
  <2>3. \A j \in DOMAIN C : j < 2 => j = 1
    BY <1>1
  <2> QED
    BY <1>1, <1>2, <2>2, <2>3
<1> QED
  BY <1>3, FirstMatch DEF C

-----------------------------------------------------------------------------
(* The chains in front of it, and the forward chain.                           *)

LEMMA RawSpares ==
  ASSUME NEW t \in TableRecord, NEW p \in Fields, p.dst # Loopback, NEW policy,
         \A r \in RangeOf(t.rows) : ~(r.tag = "anti-spoof" /\ r.dst = p.dst)
  PROVE  Verdict(RawPrerouting(t.rows), p, policy) = policy
<1> DEFINE L == LoopbackGuards(t.rows)
           A == AntiSpoof(t.rows)
           Guard == [Every("drop") EXCEPT !.in = Iface \ {"lo"}, !.dst = {Loopback},
                       !.proto = {"tcp"}, !.port = LoopbackPorts(RangeOf(t.rows))]
           S == {r \in {Guard} \cup {A[i] : i \in DOMAIN A} : ~Matches(r, p)}
<1>1. t.rows \in Seq(Row)
  BY DEF TableRecord
<1>2. L \in Seq(S)
  <2>1. Guard.dst = {Loopback}
    BY DEF Every
  <2> HIDE DEF Guard
  <2>2. ~Matches(Guard, p)
    BY <2>1, MatchesField
  <2>3. Guard \in S
    BY <2>2
  <2> HIDE DEF S
  <2>4. L \in {<<>>, <<Guard>>}
    BY DEF LoopbackGuards, Guard
  <2>5. <<Guard>> \in Seq(S)
    BY <2>3
  <2>6. <<>> \in Seq(S)
    OBVIOUS
  <2> QED
    BY <2>4, <2>5, <2>6, Zenon
<1>3. A \in Seq(S)
  <2>1. DOMAIN A = 1 .. Len(t.rows) /\ Len(t.rows) \in Nat
    BY <1>1 DEF AntiSpoof
  <2>2. \A i \in DOMAIN A : ~Matches(A[i], p)
    <3> SUFFICES ASSUME NEW i \in DOMAIN A PROVE ~Matches(A[i], p)
      OBVIOUS
    <3> DEFINE r == t.rows[i]
    <3>1. r \in RangeOf(t.rows)
      BY <1>1, <2>1 DEF RangeOf
    <3>2. CASE A[i] = Absent
      BY <3>2, AbsentMatchesNone
    <3>3. CASE A[i] # Absent
      <4>1. /\ r.tag = "anti-spoof"
            /\ A[i] = [Every("drop") EXCEPT !.in = Iface \ {r.bridge}, !.dst = {r.dst}]
        BY <3>3 DEF AntiSpoof
      <4>2. A[i].dst = {r.dst}
        BY <4>1 DEF Every
      <4>3. p.dst # r.dst
        BY <3>1, <4>1
      <4> HIDE DEF A, r
      <4> QED
        BY <4>2, <4>3, MatchesField
    <3> QED
      BY <3>2, <3>3
  <2>3. A = [i \in 1 .. Len(t.rows) |-> A[i]]
    BY <2>1 DEF AntiSpoof
  <2>4. \A i \in 1 .. Len(t.rows) : A[i] \in S
    BY <2>1, <2>2
  <2> HIDE DEF A, S
  <2> QED
    BY <2>1, <2>3, <2>4
<1> DEFINE R == L \o A
<1>4. R \in Seq(S)
  <2> HIDE DEF L, A, S
  <2> QED
    BY <1>2, <1>3, ConcatProperties
<1>5. \A i \in DOMAIN R : ~Matches(R[i], p)
  <2>1. \A r \in S : ~Matches(r, p)
    OBVIOUS
  <2> HIDE DEF R, S
  <2> QED
    BY <1>4, <2>1
<1>6. RawPrerouting(t.rows) = R
  BY DEF RawPrerouting
<1> HIDE DEF R
<1> QED
  BY <1>5, <1>6, NoMatch

\* DNAT leaves a packet, and one that a NAT row, Docker, or nothing redirects.
LEMMA ArrivesType ==
  ASSUME RulesetAssumption, NEW t \in TableRecord, NEW p \in Fields
  PROVE  /\ \E d \in Address, n \in Port : Arrives(t, p) = [p EXCEPT !.dst = d, !.port = n]
         /\ \/ Arrives(t, p) = p \/ Arrives(t, p).dst = Container
            \/ \E n \in RangeOf(t.nat) : Redirects(n, p, Arrives(t, p))
<1> DEFINE D == Dnat(t.nat)
           to == Verdict(D, p, DockerDnat(p))
           port == IF to.port = None THEN p.port ELSE to.port
           q == Arrives(t, p)
<1>1. t.nat \in Seq(NatRow) /\ p.dst \in Address /\ p.port \in Port /\ Container \in Address
  BY RulesetAssumption DEF TableRecord, Fields, Address
<1>2. q = [p EXCEPT !.dst = to.dst, !.port = port]
  BY DEF Arrives
<1>3. DOMAIN D \subseteq Nat
  BY <1>1 DEF Dnat
<1>4. CASE \A i \in DOMAIN D : ~Matches(D[i], p)
  <2>1. to = DockerDnat(p)
    BY <1>4, NoMatch
  <2>2. to.port = None /\ to.dst \in {Container, p.dst}
    BY <2>1 DEF DockerDnat
  <2> HIDE DEF to
  <2>3. q = [p EXCEPT !.dst = to.dst, !.port = p.port]
    BY <1>2, <2>2
  <2>4. to.dst \in Address
    BY <1>1, <2>2
  <2>5. q = p \/ q.dst = Container
    BY <2>2, <2>3 DEF Fields
  <2> QED
    BY <1>1, <2>3, <2>4, <2>5
<1>5. CASE \E i \in DOMAIN D : Matches(D[i], p)
  <2>1. PICK i \in DOMAIN D : Matches(D[i], p)
    BY <1>5
  <2>2. PICK n \in DOMAIN D : Matches(D[n], p) /\ to = D[n].does
    <3> HIDE DEF D
    <3> QED
      BY <1>3, <2>1, SomeMatch
  <2>3. D[n] # Absent
    BY <2>2, AbsentMatchesNone
  <2> DEFINE row == t.nat[n]
  <2>4. /\ row.type = "dnat" /\ row.to \in Address /\ D[n] = ConvertNat(row)
        /\ n \in DOMAIN t.nat
    BY <2>3 DEF Dnat, ValidToAddr
  <2>5. row \in NatRow /\ row \in RangeOf(t.nat)
    BY <1>1, <2>4 DEF RangeOf
  <2>6. /\ ConvertNat(row).does = [dst |-> row.to, port |-> row.toPort]
        /\ ConvertNat(row).proto = {row.proto}
        /\ ConvertNat(row).port = IF row.port = None THEN Port ELSE {row.port}
    BY DEF ConvertNat, Every
  <2>7. to.dst = row.to /\ to.port = row.toPort
    BY <2>2, <2>4, <2>6
  <2>8. p.proto = row.proto /\ row.port \in {None, p.port}
    <3>1. Matches(ConvertNat(row), p)
      BY <2>2, <2>4, Zenon
    <3>2. p.proto \in ConvertNat(row).proto /\ p.port \in ConvertNat(row).port
      <4> DEFINE r == ConvertNat(row)
      <4> HIDE DEF r
      <4>1. Matches(r, p) => p.proto \in r.proto /\ p.port \in r.port
        BY MatchesField
      <4> QED
        BY <3>1, <4>1 DEF r
    <3> QED
      BY <2>6, <3>2
  <2> HIDE DEF to, row, D
  <2>9. q = [p EXCEPT !.dst = row.to, !.port = IF row.toPort = None THEN p.port ELSE row.toPort]
    BY <1>2, <2>7
  <2>10. row.toPort \in Port \cup {None}
    BY <2>5 DEF NatRow
  <2>11. Redirects(row, p, q)
    BY <2>4, <2>8, <2>9 DEF Redirects
  <2>12. port \in Port
    BY <1>1, <2>7, <2>10
  <2>13. to.dst \in Address /\ row \in RangeOf(t.nat)
    BY <2>4, <2>5, <2>7
  <2> HIDE DEF port
  <2>14. \E d \in Address, n0 \in Port : q = [p EXCEPT !.dst = d, !.port = n0]
    BY <1>2, <2>12, <2>13
  <2> QED
    BY <2>11, <2>13, <2>14, Zenon
<1> QED
  BY <1>4, <1>5

LEMMA ArrivesFields ==
  ASSUME RulesetAssumption, NEW t \in TableRecord, NEW p \in Fields
  PROVE  LET q == Arrives(t, p) IN
         /\ q \in Fields /\ q.src = p.src /\ q.in = p.in /\ q.state = p.state
         /\ q.proto = p.proto /\ q.fam = p.fam /\ q.over = p.over
<1>1. PICK d \in Address, n \in Port : Arrives(t, p) = [p EXCEPT !.dst = d, !.port = n]
  BY ArrivesType
<1> QED
  BY <1>1 DEF Fields

LEMMA ForwardDrops ==
  ASSUME NEW t \in TableRecord, NEW p \in Fields, p.state = "new", p.in \in WanIfaces(t),
         p.proto = "tcp", p.port \in InternalPorts(RangeOf(t.rows))
  PROVE  Verdict(Forward(t), p, "drop") = "drop"
<1> DEFINE C == Forward(t)
<1>1. C[1] = Tracked /\ C[2] = InternalDrops(t)
  BY Zenon DEF Forward
<1>2. DOMAIN C = 1 .. 5
  BY DEF Forward
<1>3. ~Matches(Tracked, p)
  BY MatchesField DEF Tracked, Every, Fields
<1>4. /\ InternalDrops(t).in = WanIfaces(t) /\ InternalDrops(t).proto = {"tcp"}
      /\ InternalDrops(t).port = InternalPorts(RangeOf(t.rows))
      /\ InternalDrops(t).fam = Family /\ InternalDrops(t).src = Address
      /\ InternalDrops(t).dst = Address /\ InternalDrops(t).state = State
      /\ InternalDrops(t).over = BOOLEAN /\ InternalDrops(t).does = "drop"
  BY DEF InternalDrops, Every
<1>5. p.fam \in Family /\ p.src \in Address /\ p.dst \in Address /\ p.state \in State
      /\ p.over \in BOOLEAN
  BY DEF Fields
<1>6. Matches(InternalDrops(t), p)
  BY <1>4, <1>5, MatchesField
<1> HIDE DEF C
<1>7. \A j \in DOMAIN C : j < 2 => ~Matches(C[j], p)
  BY <1>1, <1>2, <1>3
<1>8. 2 \in DOMAIN C /\ Matches(C[2], p) /\ C[2].does = "drop" /\ DOMAIN C \subseteq Nat
  BY <1>1, <1>2, <1>4, <1>6
<1> QED
  BY <1>7, <1>8, FirstMatch DEF C

-----------------------------------------------------------------------------
(* The table's life.                                                           *)

\* What is promised or about to be is in the table's set, or has gone with a table.
TableInv ==
  /\ conf \in TableRecord
  /\ good # None => good \in TableRecord /\ table = None
  /\ table # None => table \in TableRecord
  /\ (asked \cup promised) \ swept \subseteq Blocked

LEMMA RenderType ==
  ASSUME PayloadAssumption, validation \in BOOLEAN, NEW x \in Payload
  PROVE  Render(x) \in TableRecord /\ Render(x).blocked = {}
BY DEF PayloadAssumption, Render, TableRecord

LEMMA TableInit == Init => TableInv
<1> SUFFICES ASSUME Init PROVE TableInv
  OBVIOUS
<1>1. conf \in TableRecord
  BY PayloadAssumption, RenderType DEF Init
<1> QED
  BY <1>1 DEF Init, TableInv

LEMMA BlacklistType ==
  ASSUME TableInv, NEW b \in SUBSET Address, table # None,
         table' = [table EXCEPT !.blocked = b], (asked' \cup promised') \ swept' \subseteq b,
         UNCHANGED <<conf, good>>
  PROVE  TableInv'
<1>1. table' \in TableRecord /\ table'.blocked = b
  BY DEF TableInv, TableRecord
<1>2. good = None
  BY DEF TableInv
<1>3. Blocked' \in {{}, b} /\ (table' # None => Blocked' = b)
  BY <1>1 DEF Blocked
<1>4. table' # None
  BY <1>1, NoTableAssumption
<1> QED
  BY <1>1, <1>2, <1>3, <1>4 DEF TableInv

LEMMA DropKeeps ==
  ASSUME TableInv, DropTable
  PROVE  (asked' \cup promised') \ swept' \subseteq Blocked'
BY DEF DropTable, TableInv

LEMMA TableStep ==
  ASSUME TableInv, validation \in BOOLEAN, [Next]_vars
  PROVE  TableInv' /\ validation' \in BOOLEAN
<1>1. ASSUME NEW x \in Payload, Apply(x) PROVE TableInv'
  <2>1. Render(x) \in TableRecord
    BY PayloadAssumption, RenderType
  <2>2. /\ good' = conf /\ conf' = Render(x) /\ table' = None
        /\ (asked' \cup promised') \ swept' \subseteq Blocked'
    BY <1>1, DropKeeps DEF Apply, DropTable
  <2> QED
    BY <2>1, <2>2 DEF TableInv
<1>2. ASSUME EndOfSwap PROVE TableInv'
  <2>1. /\ good' = None /\ conf' \in TableRecord /\ table' \in {conf', None}
        /\ table = None /\ UNCHANGED <<asked, promised, swept>>
    BY <1>2 DEF EndOfSwap, TableInv, blockVars
  <2>2. (asked \cup promised) \ swept = {}
    BY <2>1 DEF TableInv, Blocked
  <2> QED
    BY <2>1, <2>2 DEF TableInv
<1>3. ASSUME Rollback PROVE TableInv'
  <2>1. /\ table' = None /\ UNCHANGED <<conf, good>>
        /\ (asked' \cup promised') \ swept' \subseteq Blocked'
    BY <1>3, DropKeeps DEF Rollback, DropTable
  <2> QED
    BY <2>1 DEF TableInv
<1>4. ASSUME NEW a \in Address, BlockIp(a) PROVE TableInv'
  <2>1. /\ table.blocked \in SUBSET Address /\ table # None
        /\ (asked \cup promised) \ swept \subseteq table.blocked
    BY <1>4 DEF BlockIp, AddToBlacklist, TableInv, TableRecord, Blocked
  <2>2. /\ table' = [table EXCEPT !.blocked = table.blocked \cup {a}]
        /\ (asked' \cup promised') \ swept' \subseteq table.blocked \cup {a}
        /\ UNCHANGED <<conf, good>>
    BY <1>4, <2>1 DEF BlockIp, AddToBlacklist
  <2> QED
    BY <2>1, <2>2, BlacklistType
<1>5. ASSUME NEW a \in Address, UnblockIp(a) \/ Expire(a) PROVE TableInv'
  <2>1. /\ table.blocked \in SUBSET Address /\ table # None
        /\ (asked \cup promised) \ swept \subseteq table.blocked
    BY <1>5 DEF UnblockIp, Expire, Release, RemoveFromBlacklist, TableInv, TableRecord, Blocked
  <2>2. /\ table' = [table EXCEPT !.blocked = table.blocked \ {a}]
        /\ (asked' \cup promised') \ swept' \subseteq table.blocked \ {a}
        /\ UNCHANGED <<conf, good>>
    BY <1>5, <2>1 DEF UnblockIp, Expire, Release, RemoveFromBlacklist
  <2> QED
    BY <2>1, <2>2, BlacklistType
<1>6. ASSUME NEW a \in Address, BlockAnswered(a) PROVE TableInv'
  BY <1>6 DEF BlockAnswered, TableInv, Blocked
<1>7. CASE UNCHANGED vars
  BY <1>7 DEF vars, blockVars, TableInv, Blocked
<1>8. validation' = validation
  BY DEF Next, Apply, EndOfSwap, Rollback, Waiting, BlockIp, BlockAnswered, UnblockIp, Expire,
         Release, vars
<1>9. Sources \subseteq Address
  BY RulesetAssumption DEF RulesetAssumption
<1> QED
  BY <1>1, <1>2, <1>3, <1>4, <1>5, <1>6, <1>7, <1>8, <1>9 DEF Next, Waiting

LEMMA TableCorrect == Spec => []TableInv
<1> DEFINE I == TableInv /\ validation \in BOOLEAN
<1>1. Init => I
  BY TableInit DEF Init
<1>2. I /\ [Next]_vars => I'
  BY TableStep
<1> QED
  BY <1>1, <1>2, PTL DEF Spec

-----------------------------------------------------------------------------
(* Theorems.                                                                   *)

LEMMA PacketFields == ASSUME NEW p \in Packet PROVE p \in Fields
BY DEF Packet, Fields

\* "a console rule can never override SSH/WG/established/lo access": whatever
\* rows, redirections and blocks there are, the rows come after the accepts of
\* the management ports in the input chain (_render_input), and nothing in front
\* of that chain drops the packet.
THEOREM ManagementStaysOpen == Spec => []ManagementOpen
<1>1. ASSUME RulesetAssumption, TableInv PROVE ManagementOpen
  <2> SUFFICES ASSUME InForce, NEW p \in ToManagement, p.src \notin table.blocked,
                      Arrives(table, p) = p,
                      \A r \in RangeOf(table.rows) : ~(r.tag = "anti-spoof" /\ r.dst = p.dst)
               PROVE  Traverse(table, p) = "accept"
    BY DEF ManagementOpen
  <2>1. table \in TableRecord /\ table # None /\ ~table.validation
    BY <1>1 DEF InForce, TableInv
  <2>2. /\ p \in Fields /\ p.state = "new" /\ ~p.over /\ p.dst \in Host
        /\ <<p.proto, p.port>> \in Opened(p.fam)
    BY PacketFields DEF ToManagement, New
  <2>3. p.dst # Loopback
    BY <1>1, <2>2 DEF RulesetAssumption
  <2>4. Verdict(RawPrerouting(table.rows), p, "accept") # "drop"
    BY <2>1, <2>2, <2>3, RawSpares
  <2>5. Verdict(Input(table), p, "drop") = "accept"
    BY <2>1, <2>2, InputAccepts
  <2> QED
    BY <2>1, <2>2, <2>4, <2>5, Zenon DEF Traverse
<1> QED
  BY <1>1, TableCorrect, RulesetAssumption, PTL

\* "a blocked source IP reaches NO host INPUT service": no row can accept what a
\* block keeps out, since the blacklist is asked before all rows (_render_input),
\* and what the agent has added (add_to_blacklist) is in the table's set when the
\* gateway answers and after, however applies, rollbacks and other blocks come in
\* between, unless one of them took its table away (apply_ruleset).
THEOREM BlockedSourcesStayOut == Spec => []BlockedStayOut
<1>1. ASSUME RulesetAssumption, TableInv PROVE BlockedStayOut
  <2> SUFFICES ASSUME InForce, NEW p \in New, p.src \in promised \ swept,
                      Arrives(table, p).dst \in Host \cup {Loopback}
               PROVE  Traverse(table, p) # "accept"
    BY DEF BlockedStayOut
  <2> DEFINE q == Arrives(table, p)
  <2>1. table \in TableRecord /\ table # None /\ ~table.validation /\ p.src \in table.blocked
    BY <1>1 DEF InForce, TableInv, Blocked
  <2>2. p \in Fields /\ p.state = "new"
    BY PacketFields DEF New
  <2>3. q \in Fields /\ q.state = "new" /\ q.src \in table.blocked
    BY <1>1, <2>1, <2>2, ArrivesFields
  <2>4. Verdict(Input(table), q, "drop") = "drop"
    <3> HIDE DEF q
    <3> QED
      BY <2>1, <2>3, InputDrops
  <2>5. Traverse(table, p) = "drop"
    BY <2>1, <2>4, Zenon DEF Traverse
  <2> QED
    BY <2>5
<1> QED
  BY <1>1, TableCorrect, RulesetAssumption, PTL

\* "a bridge accept first would let WAN->published internal ports through": the
\* drops of the internal ports come first (_render_forward), so nothing new on
\* such a port is forwarded from a WAN interface, wherever a redirection leads.
THEOREM InternalPortsStayClosed == Spec => []InternalPortsClosed
<1>1. ASSUME RulesetAssumption, TableInv PROVE InternalPortsClosed
  <2> SUFFICES ASSUME InForce, NEW p \in New, p.in \in WanIfaces(table), p.proto = "tcp",
                      p.port \in InternalPorts(RangeOf(table.rows)),
                      Arrives(table, p).dst \notin Host \cup {Loopback}
               PROVE  Traverse(table, p) # "accept"
    BY DEF InternalPortsClosed
  <2> DEFINE q == [p EXCEPT !.dst = Arrives(table, p).dst]
  <2>1. table \in TableRecord /\ table # None /\ ~table.validation
    BY <1>1 DEF InForce, TableInv
  <2>2. p \in Fields /\ p.state = "new"
    BY PacketFields DEF New
  <2>3. Arrives(table, p).dst \in Address
    <3>1. Arrives(table, p) \in Fields
      BY <1>1, <2>1, <2>2, ArrivesFields
    <3> QED
      BY <3>1 DEF Fields
  <2>4. /\ q \in Fields /\ q.state = "new" /\ q.in \in WanIfaces(table) /\ q.proto = "tcp"
        /\ q.port \in InternalPorts(RangeOf(table.rows))
    BY <2>2, <2>3 DEF Fields
  <2>5. Verdict(Forward(table), q, "drop") = "drop"
    <3> HIDE DEF q
    <3> QED
      BY <2>1, <2>4, ForwardDrops
  <2>6. Traverse(table, p) = "drop"
    BY <2>1, <2>5, Zenon DEF Traverse
  <2> QED
    BY <2>6
<1> QED
  BY <1>1, TableCorrect, RulesetAssumption, PTL

-----------------------------------------------------------------------------
(* What the host accepts from outside is written somewhere.                    *)

Inside == {"lo", "docker0"} \cup Bridges
\* What is named as WAN is not one of the host's own interfaces.
WansApart == DefaultWan \notin Inside /\ \A x \in Payload : x.wan \cap Inside = {}
WanInv == \A t \in {conf, good, table} : t # None => t.wan \cap Inside = {}

LEMMA WanCorrect == ASSUME WansApart PROVE Spec => []WanInv
<1>1. ASSUME NEW x \in Payload PROVE Render(x).wan \cap Inside = {}
  BY DEF WansApart, Render
<1>2. Init => WanInv
  BY <1>1 DEF Init, WanInv
<1>3. TableInv /\ WanInv /\ [Next]_vars => WanInv'
  <2> SUFFICES ASSUME TableInv, WanInv, [Next]_vars PROVE WanInv'
    OBVIOUS
  <2>1. ASSUME NEW x \in Payload, Apply(x) PROVE WanInv'
    BY <1>1, <2>1 DEF Apply, DropTable, WanInv
  <2>2. CASE EndOfSwap
    BY <2>2 DEF EndOfSwap, WanInv
  <2>3. CASE Rollback
    BY <2>3 DEF Rollback, DropTable, WanInv
  <2>4. ASSUME NEW a, BlockIp(a) \/ UnblockIp(a) \/ Expire(a) PROVE WanInv'
    <3>1. PICK b : table' = [table EXCEPT !.blocked = b]
      BY <2>4 DEF BlockIp, UnblockIp, Expire, Release, AddToBlacklist, RemoveFromBlacklist
    <3>2. table \in TableRecord /\ table # None /\ UNCHANGED <<conf, good>>
      BY <2>4 DEF BlockIp, UnblockIp, Expire, Release, AddToBlacklist, RemoveFromBlacklist, TableInv
    <3>3. table'.wan = table.wan
      BY <3>1, <3>2 DEF TableRecord
    <3> QED
      BY <3>2, <3>3 DEF WanInv
  <2>5. ASSUME NEW a, BlockAnswered(a) PROVE WanInv'
    BY <2>5 DEF BlockAnswered, WanInv
  <2>6. CASE UNCHANGED vars
    BY <2>6 DEF vars, WanInv
  <2> QED
    BY <2>1, <2>2, <2>3, <2>4, <2>5, <2>6 DEF Next, Waiting
<1> QED
  BY <1>2, <1>3, TableCorrect, PTL DEF Spec

\* What a rule matches is what the rendered parts of its row say.
LEMMA ConvertWithin ==
  ASSUME NEW r \in Row, NEW p \in Fields, Matches(Convert(r), p)
  PROVE  /\ r.src \in {"any", "range", p.src} /\ r.dst \in {"any", "range", p.dst}
         /\ r.proto \in {"any", p.proto}
         /\ r.proto = "any" \/ ServicePorts(r) = {} \/ p.port \in r.ports
         /\ Convert(r).does = r.action
<1> DEFINE C == Convert(r)
<1>1. /\ C.src = Addresses(r.src) /\ C.dst = Addresses(r.dst) /\ C.proto = Protocols(r)
      /\ C.port = IF r.proto # "any" /\ ServicePorts(r) # {}
                    THEN ServicePorts(r) \ MeterPorts(r) ELSE Port
      /\ C.does = r.action
  BY DEF Convert, Every
<1>2. p.src \in C.src /\ p.dst \in C.dst /\ p.proto \in C.proto /\ p.port \in C.port
  BY MatchesField
<1> HIDE DEF C
<1>3. r.src \in {"any", "range", p.src} /\ r.dst \in {"any", "range", p.dst}
  BY <1>1, <1>2 DEF Addresses, Row, Text
<1>4. r.proto \in {"any", p.proto}
  BY <1>1, <1>2 DEF Protocols
<1>5. r.proto = "any" \/ ServicePorts(r) = {} \/ p.port \in r.ports
  BY <1>1, <1>2 DEF ServicePorts
<1> QED
  BY <1>1, <1>3, <1>4, <1>5 DEF C

\* If its row says exactly what is rendered, it is what was written.
LEMMA ConvertExact ==
  ASSUME NEW r \in Row, Exact(r), NEW p \in Fields, Matches(Convert(r), p)
  PROVE  /\ r.src \in {"any", p.src} /\ r.dst \in {"any", p.dst}
         /\ r.proto \in {"any", p.proto} /\ (r.ports = {} \/ p.port \in r.ports)
         /\ Convert(r).does = r.action
BY ConvertWithin DEF Exact, ServicePorts

LEMMA ConvertCovers ==
  ASSUME NEW r \in Row, NEW p \in Fields, Matches(Convert(r), p), Convert(r).does = "accept"
  PROVE  Covers(r, p)
BY ConvertWithin DEF Covers

LEMMA InputElements ==
  ASSUME NEW t \in TableRecord, NEW i \in DOMAIN Input(t)
  PROVE  \/ \E k \in 1 .. 13 : Input(t)[i] = Mandatory(t.blocked)[k]
         \/ \E r \in RangeOf(t.rows) : Input(t)[i] = Convert(r)
         \/ Input(t)[i] \in {Absent, Every("drop")}
<1> DEFINE M == Mandatory(t.blocked)
           U == UserRules(t.rows)
           D == <<Every("drop")>>
           S == {M[k] : k \in 1 .. 13} \cup {Convert(r) : r \in RangeOf(t.rows)}
                \cup {Absent, Every("drop")}
<1>1. M \in Seq(S)
  <2>1. M = [k \in 1 .. 13 |-> M[k]]
    BY DEF Mandatory
  <2>2. \A k \in 1 .. 13 : M[k] \in S
    OBVIOUS
  <2> HIDE DEF M, S
  <2> QED
    BY <2>1, <2>2
<1>2. U \in Seq(S)
  <2>1. DOMAIN t.rows = 1 .. Len(t.rows) /\ Len(t.rows) \in Nat
    BY DEF TableRecord
  <2>2. U = [k \in 1 .. Len(t.rows) |-> U[k]]
    BY <2>1 DEF UserRules
  <2>3. \A k \in 1 .. Len(t.rows) : U[k] \in {Convert(r) : r \in RangeOf(t.rows)} \cup {Absent}
    BY <2>1 DEF UserRules, RangeOf
  <2>4. \A k \in 1 .. Len(t.rows) : U[k] \in S
    BY <2>3
  <2> HIDE DEF U, S
  <2>5. PICK n \in Nat : n = Len(t.rows)
    BY <2>1
  <2>6. U \in [1 .. n -> S]
    BY <2>2, <2>4, <2>5
  <2> QED
    BY <2>6
<1>3. D \in Seq(S)
  <2>1. Every("drop") \in S
    OBVIOUS
  <2> HIDE DEF S
  <2> QED
    BY <2>1
<1> DEFINE MU == M \o U
           I == MU \o D
<1> HIDE DEF M, U, D, S
<1>4. MU \in Seq(S)
  BY <1>1, <1>2, ConcatProperties, Zenon
<1> HIDE DEF MU
<1>5. I \in Seq(S)
  BY <1>3, <1>4, ConcatProperties, Zenon
<1>6. Input(t) = I
  BY DEF Input, M, U, D, MU
<1> HIDE DEF I
<1>7. I[i] \in S
  BY <1>5, <1>6
<1> QED
  BY <1>6, <1>7, Zenon DEF S, M

LEMMA MandatoryWritten ==
  ASSUME NEW p \in Fields, p.state = "new", p.in \notin Inside, NEW blocked,
         NEW k \in 1 .. 13, Matches(Mandatory(blocked)[k], p),
         Mandatory(blocked)[k].does = "accept"
  PROVE  p.proto = "icmp" \/ <<p.proto, p.port>> \in Opened(p.fam)
<1> DEFINE M == Mandatory(blocked)
<1>1. ~Matches(Tracked, p)
  BY MatchesField DEF Tracked, Every, Fields
<1>2. ~Matches(AcceptsFrom({"lo"}), p) /\ ~Matches(AcceptsFrom({"docker0"}), p)
  BY MatchesField DEF AcceptsFrom, Every, Inside
<1>3. ~Matches(Agents, p)
  <2>1. Agents.in = Bridges
    BY DEF Agents, Every
  <2> QED
    BY <2>1, MatchesField DEF Inside
<1>4. Matches(Icmp, p) => p.proto = "icmp"
  <2>1. Icmp.proto = {"icmp"}
    BY DEF Icmp, Every
  <2> QED
    BY <2>1, MatchesField
<1>5. Blacklisted(blocked).does = "drop" /\ Database.does = "drop"
      /\ Meter("tcp").does = "drop" /\ Meter("udp").does = "drop"
  BY DEF Blacklisted, Database, Meter, Every
<1>6. ASSUME NEW f, NEW proto, Matches(Accepts(f, proto), p)
      PROVE  <<p.proto, p.port>> \in Opened(p.fam)
  <2>1. /\ Accepts(f, proto).fam = {f} /\ Accepts(f, proto).proto = {proto}
        /\ Accepts(f, proto).port = PortsOf(Opened(f), proto)
    BY DEF Accepts, Every
  <2>2. p.fam = f /\ p.proto = proto /\ p.port \in PortsOf(Opened(f), proto)
    BY <1>6, <2>1, MatchesField
  <2> QED
    BY <2>2 DEF PortsOf
<1>7. CASE k \in {1, 2, 3}
  BY <1>1, <1>2, <1>5, <1>7, MandatoryTuple
<1>8. CASE k \in {4, 5, 6}
  BY <1>4, <1>5, <1>8, MandatoryTuple
<1>9. CASE k \in {7, 8}
  BY <1>6, <1>9, MandatoryTuple
<1>10. CASE k \in {9, 10}
  BY <1>6, <1>10, MandatoryTuple
<1>11. CASE k \in {11, 12, 13}
  BY <1>2, <1>3, <1>5, <1>11, MandatoryTuple
<1> QED
  BY <1>7, <1>8, <1>9, <1>10, <1>11

\* Nothing else is open: what the host accepts from a WAN interface arrives as it
\* was sent or as a NAT row redirects it (_convert_nat_rule_to_nft), and is then
\* open by design or accepted by a row, no wider than what cannot be rendered of
\* the row (_convert_rule_to_nft), as long as no interface of the host itself is
\* called WAN.
THEOREM NothingElseOpen ==
  ASSUME WansApart
  PROVE  Spec => []OnlyWritten
<1>1. ASSUME RulesetAssumption, TableInv, WanInv PROVE OnlyWritten
  <2> SUFFICES ASSUME InForce, NEW p \in New, p.in \in WanIfaces(table),
                      Arrives(table, p).dst \in Host \cup {Loopback},
                      Traverse(table, p) = "accept"
               PROVE  LET q == Arrives(table, p) IN
                      /\ q = p \/ \E n \in RangeOf(table.nat) : Redirects(n, p, q)
                      /\ \/ p.proto = "icmp" \/ <<q.proto, q.port>> \in Opened(q.fam)
                         \/ \E r \in RangeOf(table.rows) : Covers(r, q)
    BY DEF OnlyWritten
  <2> DEFINE C == Input(table)
             q == Arrives(table, p)
             Open == \/ q.proto = "icmp" \/ <<q.proto, q.port>> \in Opened(q.fam)
                     \/ \E r \in RangeOf(table.rows) : Covers(r, q)
  <2>1. table \in TableRecord /\ table # None /\ ~table.validation
    BY <1>1 DEF InForce, TableInv
  <2>2. p \in Fields /\ p.state = "new"
    BY PacketFields DEF New
  <2>3. p.in \notin Inside
    BY <1>1, <2>1 DEF WanInv, WanIfaces, WansApart
  <2>4. /\ q \in Fields /\ q.state = "new" /\ q.in \notin Inside /\ q.proto = p.proto
        /\ q = p \/ \E n \in RangeOf(table.nat) : Redirects(n, p, q)
    <3>1. q \in Fields /\ q.state = "new" /\ q.in = p.in /\ q.proto = p.proto
      BY <1>1, <2>1, <2>2, ArrivesFields
    <3>2. q.dst # Container
      BY <1>1 DEF RulesetAssumption
    <3>3. q = p \/ \E n \in RangeOf(table.nat) : Redirects(n, p, q)
      BY <1>1, <2>1, <2>2, <3>2, ArrivesType
    <3> QED
      BY <2>3, <3>1, <3>3
  <2>5. Verdict(C, q, "drop") = "accept"
    BY <2>1, Zenon DEF Traverse
  <2>6. DOMAIN C \subseteq Nat
    BY <2>1, InputHead DEF TableRecord
  <2>7. PICK i \in DOMAIN C : Matches(C[i], q) /\ C[i].does = "accept"
    <3> HIDE DEF C, q
    <3>1. PICK k \in DOMAIN C : Matches(C[k], q)
      BY <2>5, NoMatch
    <3>2. PICK n \in DOMAIN C : Matches(C[n], q) /\ Verdict(C, q, "drop") = C[n].does
      BY <2>6, <3>1, SomeMatch
    <3> QED
      BY <2>5, <3>2
  <2>8. ASSUME \E k \in 1 .. 13 : C[i] = Mandatory(table.blocked)[k] PROVE Open
    <3>1. PICK k \in 1 .. 13 : C[i] = Mandatory(table.blocked)[k]
      BY <2>8
    <3> HIDE DEF C, q
    <3> QED
      BY <2>4, <2>7, <3>1, MandatoryWritten
  <2>9. ASSUME \E r \in RangeOf(table.rows) : C[i] = Convert(r) PROVE Open
    <3>1. PICK r \in RangeOf(table.rows) : C[i] = Convert(r)
      BY <2>9
    <3>2. r \in Row
      BY <2>1 DEF TableRecord, RangeOf
    <3>3. Matches(Convert(r), q) /\ Convert(r).does = "accept"
      BY <2>7, <3>1, Zenon
    <3> HIDE DEF C, q
    <3> QED
      BY <2>4, <3>2, <3>3, ConvertCovers
  <2>10. C[i] # Absent
    BY <2>4, <2>7, AbsentMatchesNone
  <2>11. C[i] # Every("drop")
    <3>1. Every("drop").does = "drop"
      BY DEF Every
    <3> HIDE DEF C, q
    <3> QED
      BY <2>7, <3>1
  <2>12. Open
    BY <2>1, <2>4, <2>8, <2>9, <2>10, <2>11, InputElements
  <2> QED
    BY <2>4, <2>12
<1> QED
  BY <1>1, TableCorrect, WanCorrect, RulesetAssumption, PTL

-----------------------------------------------------------------------------
(* The simulator.                                                              *)

\* What a rule of the input chain matches, the simulator's row matches too.
LEMMA HitsRule ==
  ASSUME NEW rows \in Seq(Row), NEW types, NEW p \in Fields, NEW out, types[p.in] = "wan",
         NEW n \in DOMAIN rows, Exact(rows[n]), Matches(UserRules(rows)[n], p)
  PROVE  /\ n \in Hits(rows, types, p, out)
         /\ UserRules(rows)[n].does = rows[n].action
<1> DEFINE plain == /\ RuleChain(rows[n]) = "input" /\ ~IsLoopbackGuard(rows[n])
                    /\ (MeterPorts(rows[n]) = {} \/ MeterPorts(rows[n]) # ServicePorts(rows[n]))
<1>1. UserRules(rows)[n] = IF plain THEN Convert(rows[n]) ELSE Absent
  BY DEF UserRules
<1>2. plain /\ UserRules(rows)[n] = Convert(rows[n]) /\ Matches(Convert(rows[n]), p)
  BY <1>1, AbsentMatchesNone, Zenon
<1>3. rows[n] \in Row
  OBVIOUS
<1> DEFINE r == rows[n]
<1>4. /\ r.src \in {"any", p.src} /\ r.dst \in {"any", p.dst}
      /\ r.proto \in {"any", p.proto} /\ (r.ports = {} \/ p.port \in r.ports)
      /\ Convert(r).does = r.action
  BY <1>2, <1>3, ConvertExact
<1>5. RuleSpec(r).chain = "input" /\ SimMatches(RuleSpec(r), p)
  BY <1>2, <1>4 DEF RuleSpec, SimMatches
<1>6. DetermineChain(types, p, out) = "input"
  BY DEF DetermineChain
<1> QED
  BY <1>2, <1>4, <1>5, <1>6 DEF Hits

\* A row that drops the packet stops the simulation, if none does so before.
LEMMA StopsSimulation ==
  ASSUME NEW rows \in Seq(Row), NEW types, NEW p \in Fields, NEW out,
         NEW n \in Hits(rows, types, p, out), Stops(rows[n].action)
  PROVE  Stops(SimulatePacket(rows, types, p, out))
<1> DEFINE hits == Hits(rows, types, p, out)
           final == {i \in hits : Stops(rows[i].action)}
           first == CHOOSE i \in final : \A j \in final : i <= j
<1>1. n \in final
  OBVIOUS
<1>2. final \subseteq Nat
  BY DEF Hits
<1> HIDE DEF final
<1>3. \E m \in final : \A j \in final : m <= j
  BY <1>1, <1>2, Least
<1>4. first \in final
  BY <1>3
<1>5. Stops(rows[first].action)
  BY <1>4 DEF final
<1>6. SimulatePacket(rows, types, p, out) = rows[first].action
  BY <1>1, Zenon DEF SimulatePacket, final
<1> QED
  BY <1>5, <1>6

\* "Simulates network traffic against firewall rules to validate configurations
\* before deployment": although the simulator lets a later row overrule an accept
\* and knows of no other part of the chains, a suite that passes (run_tests)
\* promises that no row drops a packet to the host that it expects to be accepted,
\* before DNAT or in the input chain, unless an anti-spoof row has that address.
THEOREM SimulationSound == Spec => []SimulatorSeesDrops
<1>1. ASSUME RulesetAssumption, TableInv PROVE SimulatorSeesDrops
  <2> SUFFICES ASSUME InForce, \A r \in RangeOf(table.rows) : Exact(r), NEW p \in New,
                      p.in \in table.wan, p.dst \in Host,
                      CanDeploy(table.rows, Types, Expects(p)),
                      ~\E r \in RangeOf(table.rows) : r.tag = "anti-spoof" /\ r.dst = p.dst
               PROVE  RowVerdict(p) \in {"accept", "none"}
    BY DEF SimulatorSeesDrops
  <2> DEFINE rows == table.rows
             chain == UserRules(rows)
  <2>1. rows \in Seq(Row) /\ DOMAIN chain = DOMAIN rows /\ DOMAIN rows \subseteq Nat
    <3>1. table \in TableRecord
      BY <1>1 DEF InForce, TableInv
    <3>2. rows \in Seq(Row)
      BY <3>1 DEF TableRecord
    <3> HIDE DEF rows
    <3> QED
      BY <3>2 DEF UserRules
  <2>2. p \in Fields /\ Types[p.in] = "wan"
    <3>1. p \in Packet
      BY DEF New
    <3>2. p.in \in Iface
      BY <3>1 DEF Packet
    <3> QED
      BY <3>1, <3>2, PacketFields DEF Types
  <2>3. SimulatePacket(rows, Types, p, "lo") = "accept"
    <3> DEFINE test == [packet |-> p, out |-> "lo", expected |-> "accept", chain |-> None]
    <3>1. RunSingleTest(rows, Types, test)
      BY DEF CanDeploy, Failed, Expects
    <3> QED
      BY <3>1 DEF RunSingleTest
  <2>4. \A n \in DOMAIN rows : Exact(rows[n]) /\ rows[n] \in Row
    BY <2>1 DEF RangeOf
  <2> HIDE DEF rows, chain
  <2>5. ASSUME NEW n \in DOMAIN rows, Matches(chain[n], p)
        PROVE  chain[n].does = "accept"
    <3>1. n \in Hits(rows, Types, p, "lo") /\ chain[n].does = rows[n].action
      BY <2>1, <2>2, <2>4, <2>5, HitsRule DEF chain
    <3>2. ~Stops(rows[n].action)
      <4>1. ~Stops("accept")
        BY DEF Stops
      <4> QED
        BY <2>1, <2>2, <2>3, <3>1, <4>1, StopsSimulation
    <3> QED
      BY <2>4, <3>1, <3>2 DEF Stops, Row
  <2>6. RowVerdict(p) = Verdict(chain, p, "none")
    <3>1. table \in TableRecord
      BY <1>1 DEF InForce, TableInv
    <3>2. p.dst # Loopback
      BY <1>1 DEF RulesetAssumption
    <3>3. Verdict(RawPrerouting(table.rows), p, "none") = "none"
      BY <2>2, <3>1, <3>2, RawSpares
    <3> QED
      BY <3>3 DEF RowVerdict, chain, rows
  <2>7. CASE \E k \in DOMAIN chain : Matches(chain[k], p)
    <3>1. PICK n \in DOMAIN chain : Matches(chain[n], p) /\ Verdict(chain, p, "none") = chain[n].does
      BY <2>1, <2>7, SomeMatch
    <3> QED
      BY <2>1, <2>5, <2>6, <3>1
  <2>8. CASE ~\E k \in DOMAIN chain : Matches(chain[k], p)
    BY <2>6, <2>8, NoMatch
  <2> QED
    BY <2>7, <2>8
<1> QED
  BY <1>1, TableCorrect, RulesetAssumption, PTL

-----------------------------------------------------------------------------
(* Types.                                                                     *)

LEMMA RoutingInitType == RoutingInit => RoutingTypeOK
<1> SUFFICES ASSUME RoutingInit PROVE RoutingTypeOK
  OBVIOUS
<1>1. live \subseteq Live
  BY RoutingAssumption DEF RoutingInit, Live
<1>2. ok \in [Req -> BOOLEAN] /\ {silent, mutated, exact} \subseteq BOOLEAN
  BY DEF RoutingInit
<1>3. /\ seen \in [Req -> SUBSET Live] /\ dels \in [Req -> SUBSET Live]
      /\ want \in [Req -> SUBSET Entry] /\ adds \in [Req -> SUBSET Entry]
      /\ pc \in [Req -> {"idle", "rules", "routes", "commands"}]
  BY DEF RoutingInit
<1>4. named \subseteq Table \ Aliased /\ errors \subseteq Req \X Kind /\ reply \subseteq Req \X Kind
  BY DEF RoutingInit
<1>5. /\ solo \in Req \cup {Nil} /\ goal \subseteq Entry
      /\ nArrivals \in 0 .. MaxArrivals /\ nFaults \in 0 .. MaxFaults /\ nRestarts \in 0 .. MaxRestarts
  BY RoutingAssumption DEF RoutingInit
<1> QED
  BY <1>1, <1>2, <1>3, <1>4, <1>5 DEF RoutingTypeOK

LEMMA ArriveType ==
  ASSUME RoutingTypeOK, NEW r \in Req, NEW w \in SUBSET Entry, NEW malformed \in BOOLEAN,
         Arrive(r, w, malformed)
  PROVE  RoutingTypeOK'
<1> USE DEF RoutingTypeOK
<1>1. named' \subseteq Table \ Aliased
  <2>1. Tables(w) \subseteq Table
    BY RoutingAssumption DEF Tables
  <2> QED
    BY <2>1 DEF Arrive, Unregistered
<1>2. errors' \subseteq Req \X Kind /\ nFaults' \in 0 .. MaxFaults
  BY RoutingAssumption DEF Arrive, Cleared, Kind, Works, Fails
<1>3. ok' \in [Req -> BOOLEAN]
  BY DEF Arrive
<1>4. {silent', mutated', exact'} \subseteq BOOLEAN
  BY Zenon DEF Arrive
<1>5. solo' \in Req \cup {Nil} /\ goal' \subseteq Entry
  BY DEF Arrive
<1>6. nArrivals' \in 0 .. MaxArrivals
  BY RoutingAssumption DEF Arrive
<1>7. /\ pc' \in [Req -> {"idle", "rules", "routes", "commands"}]
      /\ want' \in [Req -> SUBSET Entry]
      /\ UNCHANGED <<live, seen, dels, adds, reply, nRestarts>>
  BY DEF Arrive
<1> QED
  BY <1>1, <1>2, <1>3, <1>4, <1>5, <1>6, <1>7

LEMMA ReadType ==
  ASSUME RoutingTypeOK, NEW r \in Req, ReadRules(r) \/ ReadRoutes(r)
  PROVE  RoutingTypeOK'
<1> USE DEF RoutingTypeOK
<1>1. PICK from \in {"rules", "routes"}, to \in {"routes", "commands"}, kind \in {Rule, Route} :
        Read(r, from, to, kind)
  BY DEF ReadRules, ReadRoutes
<1>2. seen' \in [Req -> SUBSET Live]
  BY <1>1 DEF Read
<1>3. dels' \in [Req -> SUBSET Live] /\ adds' \in [Req -> SUBSET Entry]
  BY <1>2 DEF ReadRules, ReadRoutes, Unwanted, Unseen
<1>4. errors' \subseteq Req \X Kind /\ nFaults' \in 0 .. MaxFaults
  BY <1>1, RoutingAssumption DEF Read, Kind, Works, Fails
<1>5. {silent', mutated', exact'} \subseteq BOOLEAN
  BY Zenon, <1>1 DEF Read, history
<1>6. /\ pc' \in [Req -> {"idle", "rules", "routes", "commands"}]
      /\ UNCHANGED <<live, named, want, ok, reply, solo, goal, nArrivals, nRestarts>>
  BY <1>1 DEF Read, history
<1> QED
  BY <1>2, <1>3, <1>4, <1>5, <1>6

\* What one command does.
LEMMA DeleteEffect ==
  ASSUME NEW r \in Req, Delete(r)
  PROVE  \E l \in dels[r] :
           /\ dels' = [dels EXCEPT ![r] = @ \ {l}] /\ adds' = adds
           /\ \/ Found(l.entry) # {} /\ live' = live \ Found(l.entry) /\ UNCHANGED <<ok, errors>>
              \/ Refused(r)
           /\ Works \/ Fails
BY Zenon DEF Delete

LEMMA AddEffect ==
  ASSUME NEW r \in Req, Add(r)
  PROVE  \E e \in adds[r] :
           /\ dels[r] = {} /\ adds' = [adds EXCEPT ![r] = @ \ {e}] /\ dels' = dels
           /\ \/ live' = live \cup {[entry |-> e, tagged |-> TRUE]} /\ UNCHANGED <<ok, errors>>
              \/ Refused(r)
           /\ Works \/ Fails
BY Zenon DEF Add

LEMMA CommandType ==
  ASSUME RoutingTypeOK, NEW r \in Req, Delete(r) \/ Add(r)
  PROVE  RoutingTypeOK'
<1> USE DEF RoutingTypeOK
<1>1. /\ UNCHANGED <<named, pc, want, seen, reply, silent, solo, goal, exact, nArrivals, nRestarts>>
      /\ mutated' = (solo = r \/ mutated)
  BY DEF Delete, Add, Command, history
<1>2. {silent', mutated', exact'} \subseteq BOOLEAN
  BY Zenon, <1>1
<1>3. nFaults' \in 0 .. MaxFaults
  <2>1. Works \/ Fails
    BY DeleteEffect, AddEffect
  <2> QED
    BY <2>1, RoutingAssumption DEF Works, Fails
<1>4. errors' \subseteq Req \X Kind /\ ok' \in [Req -> BOOLEAN]
  <2>1. UNCHANGED <<ok, errors>> \/ Refused(r)
    BY DeleteEffect, AddEffect
  <2> QED
    <3>1. errors' = errors \/ errors' = errors \cup {<<r, "command">>}
      BY <2>1 DEF Refused
    <3>2. ok' = ok \/ ok' = [ok EXCEPT ![r] = FALSE]
      BY <2>1 DEF Refused
    <3>3. <<r, "command">> \in Req \X Kind
      BY DEF Kind
    <3> QED
      BY <3>1, <3>2, <3>3
<1>5. /\ dels' \in [Req -> SUBSET Live] /\ adds' \in [Req -> SUBSET Entry]
      /\ live' \subseteq Live
  <2>1. CASE Delete(r)
    BY <2>1, DeleteEffect DEF Refused
  <2>2. CASE Add(r)
    <3>1. PICK e \in adds[r] :
            /\ adds' = [adds EXCEPT ![r] = @ \ {e}] /\ dels' = dels
            /\ live' = live \cup {[entry |-> e, tagged |-> TRUE]} \/ live' = live
      BY <2>2, AddEffect DEF Refused
    <3>2. [entry |-> e, tagged |-> TRUE] \in Live
      BY DEF Live
    <3> QED
      BY <3>1, <3>2
  <2> QED
    BY <2>1, <2>2
<1> QED
  BY <1>1, <1>2, <1>3, <1>4, <1>5

LEMMA AnswerType ==
  ASSUME RoutingTypeOK, NEW r \in Req, Answer(r)
  PROVE  RoutingTypeOK'
<1> USE DEF RoutingTypeOK
<1>1. reply' \subseteq Req \X Kind
  BY DEF Answer, Reported
<1>2. {silent', mutated', exact'} \subseteq BOOLEAN
  BY DEF Answer, history
<1>3. ok' \in [Req -> BOOLEAN]
  BY DEF Answer
<1> QED
  BY <1>1, <1>2, <1>3 DEF Answer, history

LEMMA RestartType == ASSUME RoutingTypeOK, Restart PROVE RoutingTypeOK'
<1> USE DEF RoutingTypeOK
<1>1. ok' \in [Req -> BOOLEAN] /\ {silent', mutated', exact'} \subseteq BOOLEAN
  BY DEF Restart
<1> QED
  BY <1>1, RoutingAssumption DEF Restart

LEMMA RoutingTypeStep == RoutingTypeOK /\ [RoutingNext]_routingVars => RoutingTypeOK'
<1> SUFFICES ASSUME RoutingTypeOK, [RoutingNext]_routingVars PROVE RoutingTypeOK'
  OBVIOUS
<1>1. CASE UNCHANGED routingVars
  BY <1>1 DEF routingVars, RoutingTypeOK
<1> QED
  BY <1>1, ArriveType, ReadType, CommandType, AnswerType, RestartType DEF RoutingNext, RoutingIdle

\* Every reachable state is well typed.
THEOREM RoutingTypeCorrect == RoutingSpec => []RoutingTypeOK
BY RoutingInitType, RoutingTypeStep, PTL DEF RoutingSpec

\* No step of any apply touches what others have installed.
THEOREM ForeignEntriesKept == RoutingSpec => ForeignKept
<1>1. [RoutingNext]_routingVars => {l \in live : ~l.tagged} = {l \in live' : ~l.tagged}
  <2> SUFFICES ASSUME [RoutingNext]_routingVars PROVE {l \in live : ~l.tagged} = {l \in live' : ~l.tagged}
    OBVIOUS
  <2>1. ASSUME live' = live PROVE {l \in live : ~l.tagged} = {l \in live' : ~l.tagged}
    BY <2>1
  <2>2. ASSUME NEW r \in Req, Delete(r)
        PROVE  {l \in live : ~l.tagged} = {l \in live' : ~l.tagged}
    BY <2>2, DeleteEffect DEF Refused, Found
  <2>3. ASSUME NEW r \in Req, Add(r)
        PROVE  {l \in live : ~l.tagged} = {l \in live' : ~l.tagged}
    BY <2>3, AddEffect DEF Refused
  <2> QED
    BY <2>1, <2>2, <2>3
    DEF RoutingNext, RoutingIdle, routingVars, Arrive, ReadRules, ReadRoutes, Read, Answer, Restart
<1> QED
  BY <1>1, PTL DEF RoutingSpec, ForeignKept

-----------------------------------------------------------------------------
(* An apply that no other one runs beside.                                    *)

\* The commands it has left turn the live state into its own.
Delta(s) ==
  /\ adds[s] \subseteq goal
  /\ \A e \in goal : e \in adds[s] \/ \E l \in live : l.entry = e
  /\ dels[s] # {} => \A e \in goal : ReadBack(e) \/ e \in adds[s]
  /\ \A l \in live : l.tagged => l.entry \in goal \/ l \in dels[s]
  /\ \A l \in dels[s] : ~(Recognised(l) /\ l.entry \in goal)

\* There is nothing that it has to change.
Fixed ==
  /\ exact /\ ~silent
  /\ \A e \in goal : ReadBack(e)
  /\ \A e \in Foreign : e \in goal \/ TableOf[e] \notin named

Under(s) ==
  /\ errors \subseteq {s} \X Kind /\ (ok[s] \/ errors # {}) /\ want[s] = goal
  /\ pc[s] = "routes" /\ ~silent => seen[s] = {l \in live : l.entry \in Rule}
  /\ pc[s] = "commands" /\ ok[s] /\ ~silent => Delta(s)
  /\ pc[s] \in {"rules", "routes"} => ~mutated /\ (exact => Installed(goal))
  /\ pc[s] = "commands" /\ Fixed => ~mutated /\ dels[s] = {} /\ adds[s] = {}

Done(s) ==
  /\ reply \subseteq {s} \X Kind
  /\ reply = {} /\ ~silent => Installed(goal)
  /\ Fixed => ~mutated

Lone ==
  solo \in Req =>
    /\ \A r \in Req \ {solo} : pc[r] = "idle"
    /\ pc[solo] # "idle" => Under(solo)
    /\ pc[solo] = "idle" => Done(solo)

RoutingInv ==
  /\ RoutingTypeOK
  /\ \A r \in Req : pc[r] \in {"idle", "rules"} => seen[r] = {}
  /\ \A l \in live : ~l.tagged => l.entry \in Foreign
  /\ Lone

LEMMA RoutingInitInv == RoutingInit => RoutingInv
<1> SUFFICES ASSUME RoutingInit PROVE RoutingInv
  OBVIOUS
<1>1. \A r \in Req : seen[r] = {}
  BY DEF RoutingInit
<1>2. \A l \in live : ~l.tagged => l.entry \in Foreign
  BY DEF RoutingInit
<1>3. Lone
  BY RoutingAssumption DEF RoutingInit, Lone
<1> QED
  BY <1>1, <1>2, <1>3, RoutingInitType DEF RoutingInv

LEMMA ArriveKeeps ==
  ASSUME RoutingInv, NEW r \in Req, NEW w \in SUBSET Entry, NEW malformed \in BOOLEAN,
         Arrive(r, w, malformed), RoutingTypeOK'
  PROVE  RoutingInv'
<1> USE DEF RoutingInv, RoutingTypeOK
<1>1. /\ pc[r] = "idle" /\ pc' = [pc EXCEPT ![r] = "rules"] /\ want'[r] = w
      /\ UNCHANGED <<live, seen, dels, adds>>
  BY DEF Arrive
<1>2. \A p \in Req : pc'[p] \in {"idle", "rules"} => seen'[p] = {}
  BY <1>1
<1>3. Lone'
  <2>1. CASE Running = {}
    <3>1. solo' = r /\ goal' = w /\ (exact' => Installed(w)) /\ ~mutated'
      <4>1. /\ solo' = (IF Running = {} THEN r ELSE Nil) /\ goal' = (IF Running = {} THEN w ELSE {})
            /\ exact' = (Running = {} /\ Installed(w)) /\ mutated' = FALSE
        BY Zenon DEF Arrive
      <4> HIDE DEF RoutingInv, RoutingTypeOK
      <4> QED
        BY Zenon, <2>1, <4>1
    <3>2. errors' \subseteq {r} \X Kind /\ (ok'[r] \/ errors' # {})
      <4>1. PICK rows \in SUBSET {<<r, "malformed">>} :
              \/ ok' = [ok EXCEPT ![r] = TRUE] /\ errors' = rows
              \/ errors' = {<<r, "table">>} \cup rows
        <5>1. PICK rows \in {{<<r, "malformed">>}, {}} :
                \/ ok' = [ok EXCEPT ![r] = TRUE] /\ errors' = {} \cup rows
                \/ errors' = {} \cup {<<r, "table">>} \cup rows
          <6> DEFINE given == IF malformed THEN {<<r, "malformed">>} ELSE {}
          <6>1. \/ ok' = [ok EXCEPT ![r] = TRUE] /\ errors' = {} \cup given
                \/ errors' = {} \cup {<<r, "table">>} \cup given
            BY Zenon DEF Arrive, Cleared
          <6>2. given \in {{<<r, "malformed">>}, {}}
            OBVIOUS
          <6> HIDE DEF given
          <6> QED
            BY <6>1, <6>2
        <5> QED
          BY <5>1
      <4>2. <<r, "malformed">> \in {r} \X Kind /\ <<r, "table">> \in {r} \X Kind
        BY DEF Kind
      <4> QED
        BY <4>1, <4>2
    <3>3. Installed(goal)' <=> Installed(w)
      BY <1>1, <3>1 DEF Installed
    <3>4. \A p \in Req \ {r} : pc'[p] = "idle"
      BY <1>1, <2>1 DEF Running
    <3> QED
      BY <1>1, <3>1, <3>2, <3>3, <3>4 DEF Lone, Under
  <2>2. CASE Running # {}
    BY <2>2, RoutingAssumption DEF Arrive, Lone
  <2> QED
    BY <2>1, <2>2
<1> QED
  BY <1>1, <1>2, <1>3

\* A step of an apply that another one runs beside, or ran.
LEMMA NotAlone ==
  ASSUME RoutingInv, RoutingTypeOK', NEW r \in Req, pc[r] # "idle", solo # r, solo' = solo
  PROVE  Lone'
BY DEF RoutingInv, Lone

LEMMA ReadRulesKeeps ==
  ASSUME RoutingInv, NEW r \in Req, ReadRules(r), RoutingTypeOK'
  PROVE  RoutingInv'
<1> USE DEF RoutingInv, RoutingTypeOK
<1>1. /\ pc[r] = "rules" /\ pc' = [pc EXCEPT ![r] = "routes"]
      /\ UNCHANGED <<live, named, want, ok, mutated, solo, goal, exact>>
      /\ \A p \in Req \ {r} : seen'[p] = seen[p]
  BY DEF ReadRules, Read, history
<1>2. \A p \in Req : pc'[p] \in {"idle", "rules"} => seen'[p] = {}
  BY <1>1
<1>3. Lone'
  <2>1. CASE solo = r
    <3>1. Under(r) /\ \A p \in Req \ {r} : pc'[p] = "idle"
      BY <1>1, <2>1 DEF Lone
    <3>2. errors' \subseteq {r} \X Kind /\ (ok'[r] \/ errors' # {})
      BY <1>1, <3>1 DEF Under, ReadRules, Read, Kind
    <3>3. ~silent' => seen'[r] = {l \in live : l.entry \in Rule}
      BY <1>1, <2>1 DEF ReadRules, Read
    <3>4. Installed(goal)' = Installed(goal)
      BY <1>1 DEF Installed
    <3> QED
      BY <1>1, <2>1, <3>1, <3>2, <3>3, <3>4 DEF Lone, Under
  <2>2. CASE solo # r
    BY <1>1, <2>2, NotAlone
  <2> QED
    BY <2>1, <2>2
<1> QED
  BY <1>1, <1>2, <1>3

LEMMA ReadRoutesKeeps ==
  ASSUME RoutingInv, NEW r \in Req, ReadRoutes(r), RoutingTypeOK'
  PROVE  RoutingInv'
<1> USE DEF RoutingInv, RoutingTypeOK
<1>1. /\ pc[r] = "routes" /\ pc' = [pc EXCEPT ![r] = "commands"]
      /\ UNCHANGED <<live, named, want, ok, mutated, solo, goal, exact>>
      /\ \A p \in Req \ {r} : seen'[p] = seen[p]
      /\ dels'[r] = Unwanted(r, seen'[r]) /\ adds'[r] = Unseen(r, seen'[r])
  BY DEF ReadRoutes, Read, history
<1>2. \A p \in Req : pc'[p] \in {"idle", "rules"} => seen'[p] = {}
  BY <1>1
<1>3. Lone'
  <2>1. CASE solo = r
    <3>1. Under(r) /\ \A p \in Req \ {r} : pc'[p] = "idle"
      BY <1>1, <2>1 DEF Lone
    <3>2. errors' \subseteq {r} \X Kind /\ (ok'[r] \/ errors' # {})
      BY <1>1, <3>1 DEF Under, ReadRoutes, Read, Kind
    <3>3. ~silent' => seen'[r] = live /\ ~silent
      <4>1. ~silent' => /\ ~silent
                        /\ seen'[r] = seen[r] \cup {l \in live : l.entry \in Route}
        BY <2>1 DEF ReadRoutes, Read
      <4>2. \A l \in live : l.entry \in Rule \cup Route
        BY DEF Live, Entry
      <4>3. ~silent => seen[r] = {l \in live : l.entry \in Rule}
        BY <1>1, <3>1 DEF Under
      <4> HIDE DEF RoutingInv, RoutingTypeOK
      <4> QED
        BY <4>1, <4>2, <4>3
    <3>4. ASSUME ~silent'
          PROVE  /\ dels'[r] = {l \in live : Owned(l) /\ ~(Recognised(l) /\ l.entry \in goal)}
                 /\ adds'[r] = goal \ {l.entry : l \in {k \in live : Recognised(k)}}
      BY <1>1, <3>1, <3>3, <3>4 DEF Under, Unwanted, Unseen
    <3>5. ~silent' => Delta(r)'
      BY <1>1, <3>4 DEF Delta, Owned, Recognised, ReadBack
    <3>6. Fixed' => dels'[r] = {} /\ adds'[r] = {} /\ ~mutated'
      <4> SUFFICES ASSUME Fixed' PROVE dels'[r] = {} /\ adds'[r] = {} /\ ~mutated'
        OBVIOUS
      <4>1. /\ exact /\ ~silent' /\ \A e \in goal : ReadBack(e)
            /\ \A e \in Foreign : e \in goal \/ TableOf[e] \notin named
        BY <1>1 DEF Fixed, ReadBack
      <4>2. Installed(goal) /\ ~mutated'
        BY <1>1, <3>1, <4>1 DEF Under
      <4>3. \A l \in live : Owned(l) => l.entry \in goal
        BY <4>1, <4>2 DEF Installed, Owned
      <4> QED
        BY <3>4, <4>1, <4>2, <4>3 DEF Installed, Recognised
    <3> QED
      BY <1>1, <2>1, <3>1, <3>2, <3>5, <3>6 DEF Lone, Under
  <2>2. CASE solo # r
    BY <1>1, <2>2, NotAlone
  <2> QED
    BY <2>1, <2>2
<1> QED
  BY <1>1, <1>2, <1>3

LEMMA DeleteKeeps ==
  ASSUME RoutingInv, NEW r \in Req, Delete(r), RoutingTypeOK'
  PROVE  RoutingInv'
<1> USE DEF RoutingInv, RoutingTypeOK
<1>1. /\ pc[r] = "commands"
      /\ UNCHANGED <<named, pc, want, seen, reply, silent, solo, goal, exact>>
  BY DEF Delete, Command, history
<1>2. PICK l \in dels[r] :
        /\ dels'[r] = dels[r] \ {l} /\ adds' = adds
        /\ \/ live' = live \ Found(l.entry) /\ UNCHANGED <<ok, errors>>
           \/ Refused(r)
  BY DeleteEffect
<1>3. \A k \in live' : k \in live
  BY <1>2 DEF Refused
<1>4. Lone'
  <2>1. CASE solo = r
    <3>1. Under(r) /\ \A p \in Req \ {r} : pc[p] = "idle"
      BY <1>1, <2>1 DEF Lone
    <3>2. errors' \subseteq {r} \X Kind /\ (ok'[r] \/ errors' # {})
      <4>1. \/ UNCHANGED <<ok, errors>>
            \/ errors' = errors \cup {<<r, "command">>}
        BY <1>2 DEF Refused
      <4>2. <<r, "command">> \in {r} \X Kind
        BY DEF Kind
      <4> QED
        BY <3>1, <4>1, <4>2 DEF Under
    <3>3. ASSUME ok'[r], ~silent PROVE Delta(r)'
      <4>1. live' = live \ Found(l.entry) /\ ok[r]
        BY <1>2, <3>3 DEF Refused
      <4>2. Delta(r)
        BY <1>1, <3>1, <3>3, <4>1 DEF Under
      <4>3. ASSUME NEW e \in goal, e \notin adds[r] PROVE \E k \in live' : k.entry = e
        <5>1. l.entry # e
          BY <4>2, <4>3 DEF Delta, Recognised
        <5> QED
          BY <4>1, <4>2, <4>3, <5>1 DEF Delta, Found
      <4>4. \A k \in live' : k.tagged => k.entry \in goal \/ k \in dels'[r]
        BY <1>2, <4>1, <4>2 DEF Delta, Found
      <4>5. /\ dels'[r] # {} => \A e \in goal : ReadBack(e) \/ e \in adds[r]
            /\ \A k \in dels'[r] : ~(Recognised(k) /\ k.entry \in goal)
        BY <1>2, <4>2 DEF Delta
      <4>6. adds[r] \subseteq goal
        BY <4>2 DEF Delta
      <4> QED
        BY <1>1, <1>2, <4>3, <4>4, <4>5, <4>6 DEF Delta, Recognised, ReadBack
    <3>4. ~Fixed
      BY <1>1, <3>1 DEF Under
    <3>5. ~Fixed'
      BY <1>1, <3>4 DEF Fixed, ReadBack
    <3> QED
      BY <1>1, <2>1, <3>1, <3>2, <3>3, <3>5 DEF Lone, Under
  <2>2. CASE solo # r
    BY <1>1, <2>2, NotAlone
  <2> QED
    BY <2>1, <2>2
<1> QED
  BY <1>1, <1>3, <1>4

LEMMA AddKeeps ==
  ASSUME RoutingInv, NEW r \in Req, Add(r), RoutingTypeOK'
  PROVE  RoutingInv'
<1> USE DEF RoutingInv, RoutingTypeOK
<1>1. /\ pc[r] = "commands"
      /\ UNCHANGED <<named, pc, want, seen, reply, silent, solo, goal, exact>>
  BY DEF Add, Command, history
<1>2. PICK e \in adds[r] :
        /\ dels[r] = {} /\ dels' = dels /\ adds'[r] = adds[r] \ {e}
        /\ \/ live' = live \cup {[entry |-> e, tagged |-> TRUE]} /\ UNCHANGED <<ok, errors>>
           \/ Refused(r)
  BY AddEffect
<1>3. \A k \in live' : k \in live \/ k.tagged
  BY <1>2 DEF Refused
<1>4. Lone'
  <2>1. CASE solo = r
    <3>1. Under(r) /\ \A p \in Req \ {r} : pc[p] = "idle"
      BY <1>1, <2>1 DEF Lone
    <3>2. errors' \subseteq {r} \X Kind /\ (ok'[r] \/ errors' # {})
      <4>1. \/ UNCHANGED <<ok, errors>>
            \/ errors' = errors \cup {<<r, "command">>}
        BY <1>2 DEF Refused
      <4>2. <<r, "command">> \in {r} \X Kind
        BY DEF Kind
      <4> QED
        BY <3>1, <4>1, <4>2 DEF Under
    <3>3. ASSUME ok'[r], ~silent PROVE Delta(r)'
      <4>1. live' = live \cup {[entry |-> e, tagged |-> TRUE]} /\ ok[r]
        BY <1>2, <3>3 DEF Refused
      <4>2. Delta(r)
        BY <1>1, <3>1, <3>3, <4>1 DEF Under
      <4>3. ASSUME NEW d \in goal, d \notin adds'[r] PROVE \E k \in live' : k.entry = d
        <5>1. CASE d = e
          <6>1. [entry |-> e, tagged |-> TRUE] \in live' /\ [entry |-> e, tagged |-> TRUE].entry = d
            BY <4>1, <5>1
          <6> QED
            BY <6>1
        <5>2. CASE d # e
          BY <1>2, <4>1, <4>2, <4>3, <5>2 DEF Delta
        <5> QED
          BY <5>1, <5>2
      <4>4. \A k \in live' : k.tagged => k.entry \in goal
        BY <1>2, <4>1, <4>2 DEF Delta
      <4>5. adds'[r] \subseteq goal
        BY <1>2, <4>2 DEF Delta
      <4> QED
        BY <1>1, <1>2, <4>3, <4>4, <4>5 DEF Delta
    <3>4. ~Fixed'
      BY <1>1, <1>2, <3>1 DEF Under, Fixed, ReadBack
    <3> QED
      BY <1>1, <2>1, <3>1, <3>2, <3>3, <3>4 DEF Lone, Under
  <2>2. CASE solo # r
    BY <1>1, <2>2, NotAlone
  <2> QED
    BY <2>1, <2>2
<1> QED
  BY <1>1, <1>3, <1>4

LEMMA AnswerKeeps ==
  ASSUME RoutingInv, NEW r \in Req, Answer(r), RoutingTypeOK'
  PROVE  RoutingInv'
<1> USE DEF RoutingInv, RoutingTypeOK
<1>1. /\ pc[r] = "commands" /\ dels[r] = {} /\ adds[r] = {}
      /\ pc' = [pc EXCEPT ![r] = "idle"] /\ seen' = [seen EXCEPT ![r] = {}]
      /\ reply' = IF ok[r] THEN {} ELSE errors
      /\ UNCHANGED <<live, named, silent, mutated, solo, goal, exact>>
  BY DEF Answer, Reported, history
<1>2. \A p \in Req : pc'[p] \in {"idle", "rules"} => seen'[p] = {}
  BY <1>1
<1>3. Lone'
  <2>1. CASE solo = r
    <3>1. Under(r) /\ \A p \in Req \ {r} : pc'[p] = "idle"
      BY <1>1, <2>1 DEF Lone
    <3>2. reply' \subseteq {r} \X Kind
      BY <1>1, <3>1 DEF Under
    <3>3. reply' = {} /\ ~silent => Installed(goal)
      BY <1>1, <3>1 DEF Under, Delta, Installed
    <3>4. Installed(goal)' = Installed(goal)
      BY <1>1 DEF Installed
    <3>5. Fixed' => ~mutated
      BY <1>1, <3>1 DEF Under, Fixed, ReadBack
    <3> QED
      BY <1>1, <2>1, <3>1, <3>2, <3>3, <3>4, <3>5 DEF Lone, Done
  <2>2. CASE solo # r
    BY <1>1, <2>2, NotAlone
  <2> QED
    BY <2>1, <2>2
<1> QED
  BY <1>1, <1>2, <1>3

LEMMA RoutingInvStep == RoutingInv /\ [RoutingNext]_routingVars => RoutingInv'
<1> SUFFICES ASSUME RoutingInv, [RoutingNext]_routingVars PROVE RoutingInv'
  OBVIOUS
<1>1. RoutingTypeOK'
  BY RoutingTypeStep DEF RoutingInv
<1>2. CASE Restart
  <2>1. Lone'
    BY <1>2, RoutingAssumption DEF Restart, Lone
  <2> QED
    BY <1>1, <1>2, <2>1 DEF RoutingInv, RoutingTypeOK, Restart
<1>3. CASE UNCHANGED routingVars
  <2>1. Lone'
    BY <1>3
    DEF RoutingInv, Lone, Under, Done, Delta, Fixed, ReadBack, Installed, Recognised, routingVars
  <2> QED
    BY <1>1, <1>3, <2>1 DEF RoutingInv, routingVars
<1> QED
  BY <1>1, <1>2, <1>3, ArriveKeeps, ReadRulesKeeps, ReadRoutesKeeps, DeleteKeeps, AddKeeps,
     AnswerKeeps
  DEF RoutingNext, RoutingIdle

LEMMA RoutingInvariant == RoutingSpec => []RoutingInv
BY RoutingInitInv, RoutingInvStep, PTL DEF RoutingSpec

LEMMA AnsweredIsDone == ASSUME RoutingInv, Answered PROVE solo \in Req /\ Done(solo)
BY DEF RoutingInv, RoutingTypeOK, Lone, Answered, Running

\* An apply that ran alone and reports no error has installed its rows, from
\* every state that interleaved applies, failures and restarts can leave.
THEOREM CleanAnswerCorrect == RoutingSpec => []CleanAnswer
<1>1. RoutingInv => CleanAnswer
  BY AnsweredIsDone DEF CleanAnswer, Done
<1> QED
  BY <1>1, RoutingInvariant, PTL

\* The errors of other applies do not reach the answer of a lone one.
THEOREM OwnErrorsCorrect == RoutingSpec => []OwnErrors
<1>1. RoutingInv => OwnErrors
  BY AnsweredIsDone DEF OwnErrors, Done
<1> QED
  BY <1>1, RoutingInvariant, PTL

\* A lone apply of rows that are installed already, and that the kernel shows as
\* they were written, issues no command.
THEOREM QuietCorrect == RoutingSpec => []Quiet
<1>1. RoutingInv => Quiet
  BY AnsweredIsDone DEF Quiet, Done, Fixed
<1> QED
  BY <1>1, RoutingInvariant, PTL

-----------------------------------------------------------------------------
(* Types.                                                                  *)

\* The counter of faults stays in its bound.
LEMMA FaultType ==
  ASSUME nFailures \in 0 .. MaxFailures, NEW c, Succeeds \/ Breaks(c)
  PROVE  nFailures' \in 0 .. MaxFailures
BY TrapAssumption DEF Succeeds, Breaks

LEMMA ProberType ==
  ASSUME TrapTypeOK, ProberStep
  PROVE  TrapTypeOK'
<1> USE DEF TrapTypeOK, ProberStep, LookForCommit, Probe, TouchAlive, StopTrap, Arm,
            Verify, Sleep, WdGoto
<1>1. ProberTyped'
  BY TrapAssumption DEF ProberTyped, prober
<1>2. TrapTyped'
  BY TrapAssumption DEF TrapTyped, trap
<1>3. HostTyped' /\ SnapshotsTyped'
  BY DEF HostTyped, host, SnapshotsTyped, snapshots
<1>4. OthersTyped'
  <2>1. UNCHANGED <<op, commit, down>>
    BY DEF operator, outside
  <2>2. armed' \in BOOLEAN
    BY Zenon DEF OthersTyped, trapHistory
  <2>3. slides' \in Nat
    BY DEF OthersTyped, trapHistory
  <2> QED
    BY <2>1, <2>2, <2>3 DEF OthersTyped
<1>5. CountersTyped'
  BY FaultType DEF CountersTyped, outside
<1> QED
  BY <1>1, <1>2, <1>3, <1>4, <1>5

LEMMA ClockType ==
  ASSUME TrapTypeOK, Tick \/ Fire
  PROVE  TrapTypeOK'
<1> USE DEF TrapTypeOK, Tick, Fire
<1>1. ProberTyped'
  BY TrapAssumption DEF ProberTyped, prober, Older
<1>2. TrapTyped'
  <2>1. CASE Tick
    BY <2>1, TrapAssumption DEF TrapTyped, trap, Sooner
  <2>2. CASE Fire
    BY <2>2 DEF TrapTyped, Guards, SnapshotsTyped
  <2> QED
    BY <2>1, <2>2
<1>3. HostTyped' /\ SnapshotsTyped'
  BY DEF HostTyped, host, SnapshotsTyped, snapshots
<1>4. OthersTyped'
  BY DEF OthersTyped, operator, outside, trapHistory
<1>5. CountersTyped'
  BY DEF CountersTyped, outside
<1> QED
  BY <1>1, <1>2, <1>3, <1>4, <1>5

\* What a restore loads is a capture that is there.
LEMMA RestoreType ==
  ASSUME TrapTypeOK, RestoreStep, rs \in IpVersion => Complete(target)
  PROVE  TrapTypeOK'
<1> USE DEF TrapTypeOK, RestoreStep, CommitGuard, AliveGuard, DisablePersist,
            DeleteTable, TestCaptures, CopyFiles, RestoreFamily, RestartServices,
            RsGoto
<1>1. ProberTyped'
  BY DEF ProberTyped, prober
<1>2. TrapTyped'
  BY DEF TrapTyped, Guards, Mutating
<1>3. HostTyped'
  <2>1. loaded' \in BOOLEAN /\ persist' \in BOOLEAN /\ legacy' \in BOOLEAN
    BY Zenon DEF HostTyped, host
  <2>2. rules' \in [IpVersion -> RuleSet]
    <3>1. ASSUME NEW f \in IpVersion, NEW next, RestoreFamily(f, next)
          PROVE  rules' \in [IpVersion -> RuleSet]
      <4>1. CASE UNCHANGED rules
        BY <4>1 DEF HostTyped
      <4>2. CASE rs = f /\ rules' = [rules EXCEPT ![f] = shots[target][f]]
        <5>1. shots[target][f] \in RuleSet
          BY <4>2 DEF TrapTyped, SnapshotsTyped, Capture, Complete
        <5> QED
          BY <4>2, <5>1 DEF HostTyped
      <4> QED
        BY <3>1, <4>1, <4>2 DEF RestoreFamily
    <3>2. CASE UNCHANGED rules
      BY <3>2 DEF HostTyped
    <3> QED
      BY <3>1, <3>2 DEF host, IpVersion
  <2> QED
    BY <2>1, <2>2 DEF HostTyped
<1>4. SnapshotsTyped'
  BY DEF SnapshotsTyped, snapshots
<1>5. OthersTyped'
  <2>1. UNCHANGED <<op, commit, slides>> /\ down' \subseteq down
    BY DEF operator, outside, trapHistory
  <2>2. armed' \in BOOLEAN
    BY Zenon DEF OthersTyped, trapHistory, StillAlive
  <2> QED
    BY <2>1, <2>2 DEF OthersTyped
<1>6. CountersTyped'
  BY FaultType DEF CountersTyped, outside
<1> QED
  BY <1>1, <1>2, <1>3, <1>4, <1>5, <1>6

LEMMA NextSnapshot ==
  ASSUME NEW n \in 1 .. MaxSnaps, n < MaxSnaps
  PROVE  n + 1 \in 1 .. MaxSnaps
BY TrapAssumption

LEMMA Later ==
  ASSUME NEW i \in 1 .. MaxSnaps, NEW n \in 1 .. MaxSnaps, i > n
  PROVE  i # n
OBVIOUS

LEMMA AgentType ==
  ASSUME TrapTypeOK, AgentStep
  PROVE  TrapTypeOK'
<1> USE DEF TrapTypeOK, AgentStep, AgentApply, AgentCapture, AgentSwap, AgGoto
<1>1. ProberTyped' /\ TrapTyped'
  BY DEF ProberTyped, prober, TrapTyped, trap
<1>2. HostTyped'
  BY DEF HostTyped, host
<1>3. SnapshotsTyped'
  <2>1. nSnaps' \in 1 .. MaxSnaps
    <3>1. CASE nSnaps < MaxSnaps /\ nSnaps' = nSnaps + 1
      <4>1. nSnaps \in 1 .. MaxSnaps
        BY DEF SnapshotsTyped
      <4> QED
        BY <3>1, <4>1, NextSnapshot
    <3>2. CASE nSnaps' = nSnaps
      BY <3>2 DEF SnapshotsTyped
    <3> QED
      BY <3>1, <3>2, Zenon
  <2>2. agent' \in {"idle", "capture v4", "capture v6", "swap"}
    BY DEF SnapshotsTyped
  <2>3. shots' \in [1 .. MaxSnaps -> [IpVersion -> Capture]]
    <3>1. CASE UNCHANGED shots
      BY <3>1 DEF SnapshotsTyped
    <3>2. ASSUME NEW f \in IpVersion, shots' = [shots EXCEPT ![nSnaps][f] = rules[f]]
          PROVE  shots' \in [1 .. MaxSnaps -> [IpVersion -> Capture]]
      <4>1. [shots[nSnaps] EXCEPT ![f] = rules[f]] \in [IpVersion -> Capture]
        BY DEF SnapshotsTyped, HostTyped, Capture
      <4> QED
        BY <3>2, <4>1 DEF SnapshotsTyped
    <3> QED
      BY <3>1, <3>2 DEF IpVersion
  <2> QED
    BY <2>1, <2>2, <2>3 DEF SnapshotsTyped
<1>4. OthersTyped'
  BY DEF OthersTyped, operator, outside, trapHistory
<1>5. CountersTyped'
  BY FaultType DEF CountersTyped, outside
<1> QED
  BY <1>1, <1>2, <1>3, <1>4, <1>5

LEMMA CrashType ==
  ASSUME TrapTypeOK, ProberDies \/ AgentDies
  PROVE  TrapTypeOK'
<1> USE DEF TrapTypeOK, ProberDies, AgentDies
<1>1. ProberTyped' /\ TrapTyped'
  BY DEF ProberTyped, prober, TrapTyped, trap
<1>2. HostTyped' /\ SnapshotsTyped'
  BY DEF HostTyped, host, SnapshotsTyped, snapshots
<1>3. OthersTyped'
  BY DEF OthersTyped, operator, outside, trapHistory
<1>4. CountersTyped'
  BY TrapAssumption DEF CountersTyped, outside
<1> QED
  BY <1>1, <1>2, <1>3, <1>4

LEMMA OperatorType ==
  ASSUME TrapTypeOK, Strip \/ SwitchBoot \/ WriteCommit \/ Disarm
  PROVE  TrapTypeOK'
<1> USE DEF TrapTypeOK, Strip, SwitchBoot, WriteCommit, Disarm, OpGoto
<1>1. ProberTyped' /\ TrapTyped'
  BY DEF ProberTyped, prober, TrapTyped, trap
<1>2. HostTyped' /\ SnapshotsTyped'
  BY DEF HostTyped, host, RuleSet, SnapshotsTyped, snapshots
<1>3. OthersTyped'
  BY DEF OthersTyped, outside, trapHistory
<1>4. CountersTyped'
  BY DEF CountersTyped, outside
<1> QED
  BY <1>1, <1>2, <1>3, <1>4

LEMMA OutsideType ==
  ASSUME TrapTypeOK, NEW l \in Loss, Lose(l) \/ Recover(l)
  PROVE  TrapTypeOK'
<1> USE DEF TrapTypeOK, Lose, Recover
<1>1. ProberTyped' /\ TrapTyped'
  BY DEF ProberTyped, prober, TrapTyped, trap
<1>2. HostTyped' /\ SnapshotsTyped'
  BY DEF HostTyped, host, SnapshotsTyped, snapshots
<1>3. OthersTyped'
  BY DEF OthersTyped, operator, trapHistory
<1>4. CountersTyped'
  BY TrapAssumption DEF CountersTyped
<1> QED
  BY <1>1, <1>2, <1>3, <1>4

-----------------------------------------------------------------------------
(* A restore and the snapshot it loads.                                    *)

\* A timer that has fired is used up until its service has ended.
OneShot == rs # "off" => timer = Off

\* The agent fills the newest directory in order, and later ones are empty.
Empty(i) == \A f \in IpVersion : shots[i][f] = "missing"
Filling ==
  /\ agent = "capture v4" => Empty(nSnaps)
  /\ agent = "capture v6" => shots[nSnaps]["v6"] = "missing"
  /\ \A i \in 1 .. MaxSnaps : i > nSnaps => Empty(i)

\* What a restore past its validation has chosen, put back and loaded.
Consistent ==
  /\ rs \in {"files", "v4", "v6", "services"} => Complete(target)
  /\ rs \in {"v4", "v6", "services"} => legacy
  /\ rs \in {"v6", "services"} => rules["v4"] = shots[target]["v4"]
  /\ rs = "services" => rules["v6"] = shots[target]["v6"]

RestoreInv == OneShot /\ Filling /\ Consistent

\* Steps that touch neither the restore nor what it reads.
LEMMA AsideInv ==
  ASSUME RestoreInv, UNCHANGED <<rs, timer, target, rules, legacy, shots, nSnaps>>,
         agent' = agent \/ agent' = "idle" \/ agent' = "swap"
  PROVE  RestoreInv'
BY DEF RestoreInv, OneShot, Filling, Consistent, Empty, Complete

\* A restore that is off promises nothing but the order of the captures.
LEMMA OffInv ==
  ASSUME RestoreInv, rs' = "off", UNCHANGED <<shots, nSnaps, agent>>
  PROVE  RestoreInv'
BY DEF RestoreInv, OneShot, Filling, Consistent, Empty

LEMMA ProberInv ==
  ASSUME TrapTypeOK, RestoreInv, ProberStep
  PROVE  RestoreInv'
<1>1. CASE LookForCommit \/ Probe \/ TouchAlive \/ Verify \/ Sleep
  <2>1. UNCHANGED <<rs, timer, target, rules, legacy, shots, nSnaps, agent>>
    BY <1>1 DEF LookForCommit, Probe, TouchAlive, Verify, Sleep, trap, host,
                snapshots
  <2> QED
    BY <2>1, AsideInv
<1>2. CASE StopTrap
  <2>1. UNCHANGED <<target, rules, legacy, shots, nSnaps, agent>>
    BY <1>2 DEF StopTrap, host, snapshots
  <2>2. rs' = "off" \/ UNCHANGED <<rs, timer>>
    BY <1>2 DEF StopTrap
  <2> QED
    BY <2>1, <2>2, AsideInv, OffInv
<1>3. CASE Arm
  <2>1. UNCHANGED <<rs, target, rules, legacy, shots, nSnaps, agent>>
    BY <1>3 DEF Arm, host, snapshots
  <2>2. rs = "off" \/ UNCHANGED timer
    BY <1>3 DEF Arm
  <2> QED
    BY <2>1, <2>2, AsideInv, OffInv
<1> QED
  BY <1>1, <1>2, <1>3 DEF ProberStep

LEMMA ClockInv ==
  ASSUME TrapTypeOK, RestoreInv, Tick \/ Fire
  PROVE  RestoreInv'
<1>1. CASE Tick
  <2>1. UNCHANGED <<rs, target, rules, legacy, shots, nSnaps, agent>>
    BY <1>1 DEF Tick, host, snapshots
  <2>2. timer = Off => timer' = timer
    BY <1>1 DEF Tick, Sooner
  <2> QED
    BY <2>1, <2>2 DEF RestoreInv, OneShot, Filling, Consistent, Empty, Complete
<1>2. CASE Fire
  <2>1. UNCHANGED <<rules, legacy, shots, nSnaps, agent>>
    BY <1>2 DEF Fire, host, snapshots
  <2>2. rs' = "commit" /\ timer' = Off
    BY <1>2 DEF Fire
  <2> QED
    BY <2>1, <2>2 DEF RestoreInv, OneShot, Filling, Consistent, Empty
<1> QED
  BY <1>1, <1>2

LEMMA RestoreStepInv ==
  ASSUME TrapTypeOK, RestoreInv, RestoreStep
  PROVE  RestoreInv'
<1>1. UNCHANGED <<timer, target, shots, nSnaps, agent>> /\ rs # "off"
  BY DEF RestoreStep, CommitGuard, AliveGuard, DisablePersist, DeleteTable,
         TestCaptures, CopyFiles, RestoreFamily, RestartServices, RsGoto, snapshots
<1>2. OneShot'
  BY <1>1 DEF RestoreInv, OneShot
<1>3. Filling'
  BY <1>1 DEF RestoreInv, Filling, Empty
<1>4. CASE rs' = "off"
  BY <1>1, <1>4, OffInv
<1>5. CASE CommitGuard \/ AliveGuard \/ DisablePersist \/ DeleteTable
  <2>1. rs' \in {"off", "alive", "persist", "table", "test"}
    BY <1>5 DEF CommitGuard, AliveGuard, DisablePersist, DeleteTable, RsGoto
  <2> QED
    BY <1>2, <1>3, <2>1 DEF RestoreInv, Consistent
<1>6. CASE TestCaptures
  <2>1. rs' = "off" \/ (rs' = "files" /\ Complete(target))
    BY <1>6 DEF TestCaptures, RsGoto
  <2> QED
    BY <1>1, <1>2, <1>3, <1>4, <2>1 DEF RestoreInv, Consistent, Complete
<1>7. CASE CopyFiles /\ rs' # "off"
  <2>1. rs = "files" /\ rs' = "v4" /\ legacy'
    BY <1>7 DEF CopyFiles, RsGoto
  <2> QED
    BY <1>1, <1>2, <1>3, <2>1 DEF RestoreInv, Consistent, Complete
<1>8. CASE RestoreFamily("v4", "v6") /\ rs' # "off"
  <2>1. /\ rs = "v4" /\ rs' = "v6" /\ UNCHANGED legacy
        /\ rules' = [rules EXCEPT !["v4"] = shots[target]["v4"]]
    BY <1>8 DEF RestoreFamily, RsGoto
  <2>2. rules'["v4"] = shots[target]["v4"]
    BY <2>1 DEF TrapTypeOK, HostTyped, IpVersion
  <2> QED
    BY <1>1, <1>2, <1>3, <2>1, <2>2 DEF RestoreInv, Consistent, Complete
<1>9. CASE RestoreFamily("v6", "services") /\ rs' # "off"
  <2>1. /\ rs = "v6" /\ rs' = "services" /\ UNCHANGED legacy
        /\ rules' = [rules EXCEPT !["v6"] = shots[target]["v6"]]
    BY <1>9 DEF RestoreFamily, RsGoto
  <2>2. rules'["v4"] = rules["v4"] /\ rules'["v6"] = shots[target]["v6"]
    BY <2>1 DEF TrapTypeOK, HostTyped, IpVersion
  <2> QED
    BY <1>1, <1>2, <1>3, <2>1, <2>2 DEF RestoreInv, Consistent, Complete
<1>10. CASE RestartServices
  BY <1>4, <1>10 DEF RestartServices, RsGoto
<1> QED
  BY <1>4, <1>5, <1>6, <1>7, <1>8, <1>9, <1>10 DEF RestoreStep

\* A capture goes into a directory that was incomplete, and so is no target.
LEMMA AgentInv ==
  ASSUME TrapTypeOK, RestoreInv, AgentStep
  PROVE  RestoreInv'
<1>1. UNCHANGED <<rs, timer, target, rules, legacy>>
  BY DEF AgentStep, AgentApply, AgentCapture, AgentSwap, trap, host
<1>2. OneShot'
  BY <1>1 DEF RestoreInv, OneShot
<1>3. CASE AgentApply
  <2>1. UNCHANGED shots /\ agent' = "capture v4" /\ nSnaps' = nSnaps + 1
    BY <1>3 DEF AgentApply, AgGoto
  <2>2. nSnaps \in 1 .. MaxSnaps /\ nSnaps + 1 \in 1 .. MaxSnaps
    BY <1>3, NextSnapshot DEF AgentApply, TrapTypeOK, SnapshotsTyped
  <2>3. Filling'
    <3>1. \A i \in 1 .. MaxSnaps : i > nSnaps => Empty(i)
      BY DEF RestoreInv, Filling
    <3>2. \A i \in 1 .. MaxSnaps : i > nSnaps + 1 => i > nSnaps
      BY <2>2
    <3>3. nSnaps + 1 > nSnaps
      BY <2>2
    <3>4. \A i : Empty(i)' <=> Empty(i)
      BY <2>1 DEF Empty
    <3>5. Empty(nSnaps + 1)
      BY <2>2, <3>1, <3>3
    <3> QED
      BY <2>1, <3>1, <3>2, <3>4, <3>5 DEF Filling
  <2> QED
    BY <1>1, <1>2, <2>1, <2>3 DEF RestoreInv, Consistent, Complete
<1>4. ASSUME NEW f \in IpVersion, NEW next \in {"capture v6", "swap"},
             \/ f = "v4" /\ next = "capture v6" /\ AgentCapture(f, "capture v4", next)
             \/ f = "v6" /\ next = "swap" /\ AgentCapture(f, "capture v6", next)
      PROVE  RestoreInv'
  <2>1. agent' = next /\ UNCHANGED nSnaps
    BY <1>4 DEF AgentCapture, AgGoto
  <2>2. nSnaps \in 1 .. MaxSnaps /\ target \in 1 .. MaxSnaps
    BY DEF TrapTypeOK, SnapshotsTyped, TrapTyped
  <2>3. shots[nSnaps][f] = "missing" /\ (f = "v4" => shots[nSnaps]["v6"] = "missing")
    BY <1>4 DEF AgentCapture, AgGoto, RestoreInv, Filling, Empty, IpVersion
  <2>4. \A i \in 1 .. MaxSnaps : i # nSnaps => shots'[i] = shots[i]
    BY <1>4 DEF AgentCapture, TrapTypeOK, SnapshotsTyped
  <2>5. f = "v4" => shots'[nSnaps]["v6"] = shots[nSnaps]["v6"]
    BY <1>4, <2>2 DEF AgentCapture, TrapTypeOK, SnapshotsTyped, IpVersion
  <2>6. Filling'
    <3>1. agent' # "capture v4" /\ (agent' = "capture v6" => f = "v4")
      BY <1>4, <2>1
    <3>2. agent' = "capture v6" => shots'[nSnaps']["v6"] = "missing"
      BY <2>1, <2>3, <2>5, <3>1
    <3>3. ASSUME NEW i \in 1 .. MaxSnaps, i > nSnaps PROVE Empty(i)'
      <4>1. i # nSnaps
        BY <2>2, <3>3, Later
      <4>2. Empty(i)
        BY <3>3 DEF RestoreInv, Filling
      <4> QED
        BY <2>4, <4>1, <4>2 DEF Empty
    <3> QED
      BY <2>1, <3>1, <3>2, <3>3 DEF Filling
  <2>7. Complete(target) => target # nSnaps
    BY <2>3 DEF Complete
  <2> QED
    BY <1>1, <1>2, <2>2, <2>4, <2>6, <2>7 DEF RestoreInv, Consistent, Complete
<1>5. CASE AgentSwap
  <2>1. UNCHANGED <<shots, nSnaps>> /\ agent' = "idle"
    BY <1>5 DEF AgentSwap, AgGoto
  <2> QED
    BY <1>1, <2>1, AsideInv
<1> QED
  BY <1>3, <1>4, <1>5 DEF AgentStep, IpVersion

LEMMA OthersInv ==
  ASSUME TrapTypeOK, RestoreInv,
         \/ ProberDies \/ AgentDies
         \/ Strip \/ SwitchBoot \/ WriteCommit \/ Disarm
         \/ \E l \in Loss : Lose(l) \/ Recover(l)
  PROVE  RestoreInv'
<1>1. CASE ProberDies \/ AgentDies \/ WriteCommit
           \/ \E l \in Loss : Lose(l) \/ Recover(l)
  <2>1. UNCHANGED <<rs, timer, target, rules, legacy, shots, nSnaps>>
    BY <1>1 DEF ProberDies, AgentDies, WriteCommit, Lose, Recover, trap, host,
                snapshots
  <2>2. agent' = agent \/ agent' = "idle"
    BY <1>1 DEF ProberDies, AgentDies, WriteCommit, Lose, Recover, snapshots
  <2> QED
    BY <2>1, <2>2, AsideInv
<1>2. CASE Strip \/ SwitchBoot \/ Disarm
  <2>1. rs' = "off" /\ UNCHANGED <<shots, nSnaps, agent>>
    BY <1>2 DEF Strip, SwitchBoot, Disarm, trap, snapshots
  <2> QED
    BY <2>1, OffInv
<1> QED
  BY <1>1, <1>2

-----------------------------------------------------------------------------
(* The theorems.                                                           *)

LEMMA TrapInitInv == TrapInit => TrapTypeOK /\ RestoreInv
<1> SUFFICES ASSUME TrapInit PROVE TrapTypeOK /\ RestoreInv
  OBVIOUS
<1> USE DEF TrapInit
<1>1. TrapTypeOK
  <2>1. ProberTyped /\ TrapTyped
    BY TrapAssumption DEF ProberTyped, TrapTyped
  <2>2. HostTyped /\ SnapshotsTyped
    <3>1. HostTyped
      BY DEF HostTyped, RuleSet
    <3>2. shots \in [1 .. MaxSnaps -> [IpVersion -> Capture]]
      BY DEF RuleSet, Capture
    <3>3. nSnaps \in 1 .. MaxSnaps
      BY TrapAssumption
    <3> QED
      BY <3>1, <3>2, <3>3 DEF SnapshotsTyped
  <2>3. OthersTyped /\ CountersTyped
    <3>1. OthersTyped
      BY DEF OthersTyped
    <3>2. CountersTyped
      BY TrapAssumption DEF CountersTyped
    <3> QED
      BY <3>1, <3>2
  <2> QED
    BY <2>1, <2>2, <2>3 DEF TrapTypeOK
<1>2. RestoreInv
  BY TrapAssumption DEF RestoreInv, OneShot, Filling, Empty, Consistent
<1> QED
  BY <1>1, <1>2

LEMMA TrapStepInv == TrapTypeOK /\ RestoreInv /\ [TrapNext]_trapVars => TrapTypeOK' /\ RestoreInv'
<1> SUFFICES ASSUME TrapTypeOK, RestoreInv, [TrapNext]_trapVars
             PROVE  TrapTypeOK' /\ RestoreInv'
  OBVIOUS
<1>1. CASE ProberStep
  BY <1>1, ProberType, ProberInv
<1>2. CASE Tick \/ Fire
  BY <1>2, ClockType, ClockInv
<1>3. CASE RestoreStep
  <2>1. rs \in IpVersion => Complete(target)
    BY DEF RestoreInv, Consistent, IpVersion
  <2> QED
    BY <1>3, <2>1, RestoreType, RestoreStepInv
<1>4. CASE AgentStep
  BY <1>4, AgentType, AgentInv
<1>5. CASE ProberDies \/ AgentDies
  BY <1>5, CrashType, OthersInv
<1>6. CASE Strip \/ SwitchBoot \/ WriteCommit \/ Disarm
  BY <1>6, OperatorType, OthersInv
<1>7. CASE \E l \in Loss : Lose(l) \/ Recover(l)
  BY <1>7, OutsideType, OthersInv
<1>8. CASE UNCHANGED trapVars
  <2>1. TrapTypeOK'
    <3>1. ProberTyped' /\ TrapTyped' /\ CountersTyped'
      BY <1>8 DEF trapVars, TrapTypeOK, ProberTyped, TrapTyped, CountersTyped
    <3>2. HostTyped' /\ SnapshotsTyped' /\ OthersTyped'
      BY <1>8 DEF trapVars, TrapTypeOK, HostTyped, SnapshotsTyped, OthersTyped
    <3> QED
      BY <3>1, <3>2 DEF TrapTypeOK
  <2>2. UNCHANGED <<rs, timer, target, rules, legacy, shots, nSnaps, agent>>
    BY <1>8 DEF trapVars
  <2> QED
    BY <2>1, <2>2, AsideInv
<1> QED
  BY <1>1, <1>2, <1>3, <1>4, <1>5, <1>6, <1>7, <1>8 DEF TrapNext

LEMMA TrapInvariants == TrapSpec => [](TrapTypeOK /\ RestoreInv)
BY TrapInitInv, TrapStepInv, PTL DEF TrapSpec

\* Types, for every instance of the switch.  They rest on RestoreInv: what a
\* restore loads is a capture that is there.
THEOREM TrapTypeCorrect == TrapSpec => []TrapTypeOK
BY TrapInvariants, PTL

\* A restore that has come to its last commands has loaded both families of
\* one complete snapshot, however the agent's captures interleave with it.
THEOREM RestoresOneSnapshotCorrect == TrapSpec => []RestoresOneSnapshot
<1>1. TrapTypeOK /\ RestoreInv => RestoresOneSnapshot
  <2> SUFFICES ASSUME TrapTypeOK, RestoreInv, rs = "services"
               PROVE  /\ \A f \in IpVersion : rules[f] = shots[target][f] /\ rules[f] \in RuleSet
                      /\ legacy
    BY DEF RestoresOneSnapshot
  <2> QED
    BY DEF RestoreInv, Consistent, TrapTypeOK, HostTyped, IpVersion
<1> QED
  BY <1>1, TrapInvariants, PTL

-----------------------------------------------------------------------------
(* The deadline slides once: a prober that re-armed after the loss is past   *)
(* its checks, and does not pass them again before the host has recovered.   *)

Rearming == {"touch", "stop", "arm"}
SlideInv == "local" \in down => slides = 0 \/ (slides = 1 /\ wd \notin Rearming)

LEMMA AsideSlides ==
  ASSUME SlideInv, UNCHANGED slides, "local" \in down' => "local" \in down,
         wd' = wd \/ wd' \notin Rearming
  PROVE  SlideInv'
BY DEF SlideInv

LEMMA ProberSlides ==
  ASSUME SlideInv, ProberStep
  PROVE  SlideInv'
<1>1. UNCHANGED down
  BY DEF ProberStep, LookForCommit, Probe, TouchAlive, StopTrap, Arm, Verify,
         Sleep, outside
<1>2. CASE LookForCommit \/ Verify \/ Sleep
  <2>1. UNCHANGED slides /\ wd' \notin Rearming
    BY <1>2 DEF LookForCommit, Verify, Sleep, WdGoto, Rearming, trapHistory
  <2> QED
    BY <1>1, <2>1, AsideSlides
<1>3. CASE Probe
  <2>1. UNCHANGED slides /\ ("local" \in down => wd' \notin Rearming)
    BY <1>3 DEF Probe, ProofOfLife, WdGoto, Rearming, trapHistory
  <2> QED
    BY <1>1, <2>1 DEF SlideInv
<1>4. CASE TouchAlive \/ StopTrap
  <2>1. UNCHANGED slides /\ wd \in Rearming
    BY <1>4 DEF TouchAlive, StopTrap, WdGoto, Rearming, trapHistory
  <2> QED
    BY <1>1, <2>1 DEF SlideInv
<1>5. CASE Arm
  <2>1. wd \in Rearming /\ wd' \notin Rearming
    BY <1>5 DEF Arm, WdGoto, Rearming
  <2>2. "local" \in down => slides' = slides + 1 \/ slides' = slides
    BY <1>5 DEF Arm, trapHistory
  <2> QED
    BY <1>1, <2>1, <2>2 DEF SlideInv
<1> QED
  BY <1>2, <1>3, <1>4, <1>5 DEF ProberStep

LEMMA StepSlides == SlideInv /\ [TrapNext]_trapVars => SlideInv'
<1> SUFFICES ASSUME SlideInv, [TrapNext]_trapVars PROVE SlideInv'
  OBVIOUS
<1>1. CASE ProberStep
  BY <1>1, ProberSlides
<1>2. CASE Tick \/ Fire
  BY <1>2, AsideSlides DEF Tick, Fire, prober, outside, trapHistory
<1>3. CASE RestoreStep
  <2>1. UNCHANGED <<wd, slides>> /\ ("local" \in down' => "local" \in down)
    BY <1>3 DEF RestoreStep, CommitGuard, AliveGuard, DisablePersist, DeleteTable,
                TestCaptures, CopyFiles, RestoreFamily, RestartServices, prober,
                outside, trapHistory
  <2> QED
    BY <2>1, AsideSlides
<1>4. CASE AgentStep \/ AgentDies
  BY <1>4, AsideSlides DEF AgentStep, AgentApply, AgentCapture, AgentSwap,
           AgentDies, prober, outside, trapHistory
<1>5. CASE ProberDies
  BY <1>5, AsideSlides DEF ProberDies, Rearming, outside, trapHistory
<1>6. CASE Strip \/ SwitchBoot \/ WriteCommit \/ Disarm
  BY <1>6, AsideSlides DEF Strip, SwitchBoot, WriteCommit, Disarm, prober,
           outside, trapHistory
<1>7. ASSUME NEW l \in Loss, Lose(l) PROVE SlideInv'
  <2>1. UNCHANGED wd /\ ("local" \in down => UNCHANGED slides)
        /\ ("local" \notin down => slides' = 0)
    BY <1>7 DEF Lose, prober
  <2> QED
    BY <2>1 DEF SlideInv
<1>8. ASSUME NEW l \in Loss, Recover(l) PROVE SlideInv'
  BY <1>8, AsideSlides DEF Recover, prober, trapHistory
<1>9. CASE UNCHANGED trapVars
  BY <1>9, AsideSlides DEF trapVars
<1> QED
  BY <1>1, <1>2, <1>3, <1>4, <1>5, <1>6, <1>7, <1>8, <1>9 DEF TrapNext

\* "the deadline slides ONLY with proof-of-life": from the loss of what the
\* probes see until its recovery the prober re-arms at most once.
THEOREM SlidesOnceCorrect == TrapSpec => []SlidesOnce
<1>1. TrapInit => SlideInv
  BY DEF TrapInit, SlideInv
<1>2. SlideInv => SlidesOnce
  BY DEF SlideInv, SlidesOnce
<1> QED
  BY <1>1, <1>2, StepSlides, PTL DEF TrapSpec

-----------------------------------------------------------------------------
(* A committed host is left alone.                                           *)

\* "committed cutover is never auto-reverted": a restore that finds COMMIT
\* ends at its guard, and no other step takes one past it.
THEOREM CommitFreezesCorrect == TrapSpec => CommitFreezes
<1>1. ASSUME [TrapNext]_trapVars, commit, rs \in {"off", "commit"}
      PROVE  rs' \in {"off", "commit"}
  <2>1. CASE RestoreStep
    BY <1>1, <2>1 DEF RestoreStep, CommitGuard, AliveGuard, DisablePersist,
                      DeleteTable, TestCaptures, CopyFiles, RestoreFamily,
                      RestartServices, RsGoto
  <2>2. CASE ProberStep \/ ProberDies \/ Tick \/ Fire
    BY <1>1, <2>2 DEF ProberStep, LookForCommit, Probe, TouchAlive, StopTrap, Arm,
                      Verify, Sleep, ProberDies, Tick, Fire, trap
  <2>3. CASE AgentStep \/ AgentDies
    BY <1>1, <2>3 DEF AgentStep, AgentApply, AgentCapture, AgentSwap, AgentDies,
                      trap
  <2>4. CASE Strip \/ SwitchBoot \/ WriteCommit \/ Disarm
             \/ \E l \in Loss : Lose(l) \/ Recover(l)
    BY <1>1, <2>4 DEF Strip, SwitchBoot, WriteCommit, Disarm, Lose, Recover, trap
  <2>5. CASE UNCHANGED trapVars
    BY <1>1, <2>5 DEF trapVars
  <2> QED
    BY <1>1, <2>1, <2>2, <2>3, <2>4, <2>5 DEF TrapNext
<1>2. [TrapNext]_trapVars => [(commit /\ rs \in {"off", "commit"}) => rs' \in {"off", "commit"}]_trapVars
  BY <1>1
<1> QED
  BY <1>2, PTL DEF TrapSpec, CommitFreezes

-----------------------------------------------------------------------------
(* How timely the prober has to be for a healthy host to be left alone.     *)
(* One cycle, from its look for COMMIT to the next one, takes at most       *)
(* Cycle ticks.  ALIVE is then at most two cycles old when a timer fires,   *)
(* and one more for each time the prober died before it touched the file.   *)

Slack == nCrashes * Cycle

LEMMA SlackGrows ==
  ASSUME TrapTypeOK, nCrashes' = nCrashes + 1
  PROVE  Slack' = Slack + Cycle
<1>1. nCrashes \in Nat /\ Cycle \in Nat
  BY TrapAssumption DEF TrapTypeOK, CountersTyped
<1>2. \A n, c \in Nat : (n + 1) * c = n * c + c
  OBVIOUS
<1> QED
  BY <1>1, <1>2 DEF Slack

LEMMA SlackBound ==
  ASSUME TrapTypeOK
  PROVE  /\ Slack \in Nat
         /\ (MaxCrashes + 2) * Cycle \in Nat
         /\ Slack + Cycle + Cycle =< (MaxCrashes + 2) * Cycle
<1>1. nCrashes \in Nat /\ MaxCrashes \in Nat /\ nCrashes =< MaxCrashes /\ Cycle \in Nat
  BY TrapAssumption DEF TrapTypeOK, CountersTyped
<1>2. \A n, m, c \in Nat : n =< m => n * c =< m * c
  OBVIOUS
<1>3. \A m, c \in Nat : (m + 2) * c = m * c + c + c
  OBVIOUS
<1>4. \A m, c \in Nat : m * c \in Nat
  OBVIOUS
<1>5. Slack \in Nat /\ MaxCrashes * Cycle \in Nat
  BY <1>1, <1>4 DEF Slack
<1>6. Slack =< MaxCrashes * Cycle
  BY <1>1, <1>2 DEF Slack
<1>7. (MaxCrashes + 2) * Cycle = MaxCrashes * Cycle + Cycle + Cycle
  BY <1>1, <1>3
<1> QED
  BY <1>1, <1>5, <1>6, <1>7

\* The instances the theorem is about.
ProberTimely == Timely /\ "touch" \notin Faulty /\ (MaxCrashes + 2) * Cycle < Fresh

\* A timer is set, or will be without another touch.
Due == timer # Off \/ rs = "commit" \/ wd \in {"stop", "arm"}

\* Whether the cycle has begun, and not yet touched the file.
Untouched == wd \in {"probe", "touch"}

Young == alive =< lag + Slack + (IF Untouched THEN Cycle ELSE 0)

Timing ==
  /\ down = {}
  /\ rs \notin Mutating
  /\ rs = "alive" => StillAlive
  /\ ~commit /\ Due => Young

HealthyInv == nLosses = 0 => Timing

\* Young files are fresh.
LEMMA YoungIsFresh ==
  ASSUME TrapTypeOK, ProberTimely, Young
  PROVE  StillAlive
<1>1. lag \in Nat /\ lag =< Cycle /\ Cycle \in Nat /\ alive \in Nat /\ Fresh \in Nat
  BY TrapAssumption DEF TrapTypeOK, ProberTyped
<1>2. alive =< Cycle + Slack + Cycle
  BY <1>1, SlackBound DEF Young
<1> QED
  BY <1>1, <1>2, SlackBound DEF ProberTimely, StillAlive

\* Steps that change neither clock nor prober, and start no new restore.
LEMMA AsideTiming ==
  ASSUME Timing, UNCHANGED <<wd, lag, alive, nCrashes>>, down' \subseteq down,
         rs' = rs \/ rs' = "off", timer' = timer \/ timer' = Off,
         commit => commit'
  PROVE  Timing'
<1>1. down' = {}
  BY DEF Timing
<1>2. rs' \notin Mutating /\ (rs' = "alive" => StillAlive')
  BY DEF Timing, Mutating, StillAlive
<1>3. Due' => Due
  BY DEF Due
<1>4. Young' = Young
  BY DEF Young, Untouched, Slack
<1> QED
  BY <1>1, <1>2, <1>3, <1>4 DEF Timing

LEMMA ProberTiming ==
  ASSUME TrapTypeOK, ProberTimely, Timing, ProberStep
  PROVE  Timing'
<1>1. UNCHANGED <<down, commit, nCrashes>>
  BY DEF ProberStep, LookForCommit, Probe, TouchAlive, StopTrap, Arm, Verify,
         Sleep, outside, operator
<1>2. rs' = rs \/ rs' = "off"
  BY DEF ProberStep, LookForCommit, Probe, TouchAlive, StopTrap, Arm, Verify,
         Sleep, trap
<1>3. alive' = alive \/ alive' = 0
  BY DEF ProberStep, LookForCommit, Probe, TouchAlive, StopTrap, Arm, Verify,
         Sleep
<1>4. down' = {} /\ rs' \notin Mutating
  BY <1>1, <1>2 DEF Timing, Mutating
<1>5. rs' = "alive" => StillAlive'
  BY <1>2, <1>3, TrapAssumption DEF Timing, StillAlive
<1>6. /\ lag \in Nat /\ lag =< Cycle /\ Cycle \in Nat /\ alive \in Nat
      /\ Slack \in Nat /\ Slack' = Slack
  BY <1>1, SlackBound, TrapAssumption DEF TrapTypeOK, ProberTyped, Slack
<1>7. ASSUME ~commit', Due' PROVE Young'
  <2>1. ~commit
    BY <1>1, <1>7
  <2>2. CASE LookForCommit
    <3>1. wd = "commit" /\ Untouched' /\ lag' = 0 /\ alive' = alive
      BY <2>1, <2>2 DEF LookForCommit, WdGoto, Untouched
    <3>2. Due
      BY <1>7, <2>2, <3>1 DEF LookForCommit, trap, Due, Untouched
    <3>3. alive =< lag + Slack
      BY <1>6, <2>1, <3>1, <3>2 DEF Timing, Young, Untouched
    <3> QED
      BY <1>6, <3>1, <3>3 DEF Young
  <2>3. CASE Probe
    <3>1. Untouched /\ Untouched' /\ UNCHANGED <<lag, alive, timer, rs>> /\ wd' = "touch"
      BY <2>3 DEF Probe, WdGoto, ProofOfLife, Timing, Untouched, trap
    <3>2. Due
      BY <1>7, <3>1 DEF Due
    <3> QED
      BY <1>6, <2>1, <3>1, <3>2 DEF Timing, Young
  <2>4. CASE TouchAlive
    <3>1. alive' = 0 /\ lag' = lag /\ ~Untouched'
      BY <2>4 DEF TouchAlive, WdGoto, Breaks, ProberTimely, Untouched
    <3> QED
      BY <1>6, <3>1 DEF Young
  <2>5. CASE StopTrap \/ Arm
    <3>1. wd \in {"stop", "arm"} /\ ~Untouched /\ ~Untouched' /\ UNCHANGED <<lag, alive>>
      BY <2>5 DEF StopTrap, Arm, WdGoto, Untouched
    <3> QED
      BY <1>6, <2>1, <3>1 DEF Timing, Young, Due
  <2>6. CASE Verify \/ Sleep
    <3>1. ~Untouched /\ ~Untouched' /\ UNCHANGED <<lag, alive, timer, rs>>
          /\ wd' \notin {"stop", "arm"}
      BY <2>6 DEF Verify, Sleep, WdGoto, Untouched, trap
    <3>2. Due
      BY <1>7, <3>1 DEF Due
    <3> QED
      BY <1>6, <2>1, <3>1, <3>2 DEF Timing, Young
  <2> QED
    BY <2>2, <2>3, <2>4, <2>5, <2>6 DEF ProberStep
<1> QED
  BY <1>4, <1>5, <1>7 DEF Timing

LEMMA ClockTiming ==
  ASSUME TrapTypeOK, ProberTimely, Timing, Tick \/ Fire
  PROVE  Timing'
<1>1. UNCHANGED <<wd, down, commit, nCrashes>>
  BY DEF Tick, Fire, prober, outside, operator
<1>2. Slack' = Slack /\ Slack \in Nat /\ Cycle \in Nat
  BY <1>1, SlackBound, TrapAssumption DEF Slack
<1>3. CASE Tick
  <2>1. lag < Cycle /\ rs \notin Guards /\ UNCHANGED rs
    BY <1>3 DEF Tick, ProberTimely
  <2>2. lag' = lag + 1 /\ (alive' = alive + 1 \/ alive' = alive)
    BY <1>3, <2>1, <1>2 DEF Tick, Older, TrapTypeOK, ProberTyped
  <2>3. Due' => Due
    BY <1>1, <1>3, <2>1 DEF Tick, Sooner, Due
  <2>4. Young => Young'
    BY <1>1, <1>2, <2>2 DEF Young, Untouched, TrapTypeOK, ProberTyped
  <2> QED
    BY <1>1, <2>1, <2>3, <2>4 DEF Timing, Guards
<1>4. CASE Fire
  <2>1. Due /\ rs' = "commit" /\ UNCHANGED <<lag, alive>>
    BY <1>4, TrapAssumption DEF Fire, prober, Due
  <2>2. Young' = Young
    BY <1>1, <2>1 DEF Young, Untouched, Slack
  <2> QED
    BY <1>1, <2>1, <2>2 DEF Timing, Mutating
<1> QED
  BY <1>3, <1>4

LEMMA RestoreTiming ==
  ASSUME TrapTypeOK, ProberTimely, Timing, RestoreStep
  PROVE  Timing'
<1>1. CASE CommitGuard
  <2>1. rs = "commit" /\ (rs' = "off" \/ (rs' = "alive" /\ ~commit))
        /\ UNCHANGED <<wd, lag, alive, timer, down, commit, nCrashes>>
    BY <1>1 DEF CommitGuard, RsGoto, prober, operator, outside
  <2>2. rs' = "alive" => StillAlive
    BY <2>1, YoungIsFresh DEF Timing, Due
  <2>3. Due /\ Young' = Young /\ StillAlive' = StillAlive
    BY <2>1 DEF Due, Young, Untouched, Slack, StillAlive
  <2> QED
    BY <2>1, <2>2, <2>3 DEF Timing, Mutating
<1>2. CASE AliveGuard
  <2>1. rs' = "off" /\ UNCHANGED <<wd, lag, alive, timer, down, commit, nCrashes>>
    BY <1>2 DEF AliveGuard, RsGoto, Timing, prober, operator, outside
  <2> QED
    BY <2>1, AsideTiming
<1>3. CASE rs \in Mutating
  BY <1>3 DEF Timing
<1> QED
  BY <1>1, <1>2, <1>3 DEF RestoreStep, DisablePersist, DeleteTable, TestCaptures,
     CopyFiles, RestoreFamily, RestartServices, RsGoto, Mutating

LEMMA CrashTiming ==
  ASSUME TrapTypeOK, Timing, ProberDies \/ AgentDies
  PROVE  Timing'
<1>1. /\ UNCHANGED <<lag, alive, timer, rs, down, commit>>
      /\ nCrashes' = nCrashes + 1 /\ wd' \in {wd, "commit"}
  BY DEF ProberDies, AgentDies, prober, trap, outside, operator
<1>2. Slack' = Slack + Cycle /\ Slack \in Nat /\ Cycle \in Nat
  BY <1>1, SlackGrows, SlackBound, TrapAssumption
<1>3. Due' => Due
  BY <1>1 DEF Due
<1>4. Young => Young'
  BY <1>1, <1>2 DEF Young, Untouched, TrapTypeOK, ProberTyped
<1>5. StillAlive' = StillAlive
  BY <1>1 DEF StillAlive
<1> QED
  BY <1>1, <1>3, <1>4, <1>5 DEF Timing

LEMMA StepTiming ==
  ASSUME ProberTimely
  PROVE  TrapTypeOK /\ HealthyInv /\ [TrapNext]_trapVars => HealthyInv'
<1> SUFFICES ASSUME TrapTypeOK, HealthyInv, [TrapNext]_trapVars PROVE HealthyInv'
  OBVIOUS
<1>1. ASSUME NEW l \in Loss, Lose(l) PROVE HealthyInv'
  BY <1>1 DEF Lose, HealthyInv, TrapTypeOK, CountersTyped
<1>2. CASE UNCHANGED nLosses /\ nLosses # 0
  BY <1>2 DEF HealthyInv
<1>3. CASE nLosses = 0 /\ UNCHANGED nLosses
  <2>1. Timing
    BY <1>3 DEF HealthyInv
  <2>2. CASE ProberStep \/ Tick \/ Fire \/ RestoreStep \/ ProberDies \/ AgentDies
    BY <2>1, <2>2, ProberTiming, ClockTiming, RestoreTiming, CrashTiming DEF HealthyInv
  <2>3. CASE AgentStep
    <3>1. UNCHANGED <<prober, trap, operator, outside, nCrashes>>
      BY <2>3 DEF AgentStep, AgentApply, AgentCapture, AgentSwap
    <3> QED
      BY <2>1, <3>1, AsideTiming DEF prober, trap, operator, outside, HealthyInv
  <2>4. CASE Strip \/ SwitchBoot \/ WriteCommit \/ Disarm
    BY <2>1, <2>4, AsideTiming DEF Strip, SwitchBoot, WriteCommit, Disarm, prober,
             trap, outside, HealthyInv
  <2>5. CASE \E l \in Loss : Lose(l) \/ Recover(l)
    <3>1. PICK l \in Loss : Lose(l) \/ Recover(l)
      BY <2>5
    <3>2. CASE Recover(l)
      BY <2>1, <3>2, AsideTiming DEF Recover, prober, trap, operator, HealthyInv
    <3> QED
      BY <1>1, <3>1, <3>2
  <2>6. CASE UNCHANGED trapVars
    BY <2>1, <2>6, AsideTiming DEF trapVars, HealthyInv
  <2>7. TrapNext \/ UNCHANGED trapVars
    OBVIOUS
  <2> QED
    BY <2>2, <2>3, <2>4, <2>5, <2>6, <2>7, Zenon DEF TrapNext
<1>4. UNCHANGED nLosses \/ \E l \in Loss : Lose(l)
  BY DEF TrapNext, ProberStep, LookForCommit, Probe, TouchAlive, StopTrap, Arm, Verify,
         Sleep, ProberDies, Tick, Fire, RestoreStep, CommitGuard, AliveGuard,
         DisablePersist, DeleteTable, TestCaptures, CopyFiles, RestoreFamily,
         RestartServices, AgentStep, AgentApply, AgentCapture, AgentSwap, AgentDies,
         Strip, SwitchBoot, WriteCommit, Disarm, Recover, outside, trapVars
<1> QED
  BY <1>1, <1>2, <1>3, <1>4

\* A host that loses nothing is never reverted, if a cycle of the prober takes
\* at most Cycle ticks, touching ALIVE does not fail, and two cycles, and one
\* for each crash, are shorter than ALIVE stays fresh: whatever else fails.
THEOREM HealthyKeptCorrect ==
  ASSUME ProberTimely
  PROVE  TrapSpec => []HealthyKept
<1>1. TrapInit => HealthyInv
  BY TrapAssumption DEF TrapInit, HealthyInv, Timing, Mutating, Due
<1>2. TrapTypeOK /\ HealthyInv /\ [TrapNext]_trapVars => HealthyInv'
  BY StepTiming
<1>3. HealthyInv => HealthyKept
  BY DEF HealthyInv, Timing, HealthyKept
<1> QED
  BY <1>1, <1>2, <1>3, TrapTypeCorrect, PTL DEF TrapSpec
-----------------------------------------------------------------------------
(* Refinement: the trap is a dead-man switch.                               *)

\* The operator disarms what he has committed.
Committed == op \in {"disarm", "done"} => commit

LEMMA StepCommitted == Committed /\ [TrapNext]_trapVars => Committed'
<1> SUFFICES ASSUME Committed, [TrapNext]_trapVars PROVE Committed'
  OBVIOUS
<1>1. ASSUME UNCHANGED operator PROVE Committed'
  BY <1>1 DEF operator, Committed
<1>2. CASE Strip \/ SwitchBoot \/ WriteCommit \/ Disarm
  BY <1>2 DEF Strip, SwitchBoot, WriteCommit, Disarm, OpGoto, Committed
<1>3. CASE ProberStep \/ ProberDies \/ Tick \/ Fire
  BY <1>1, <1>3 DEF ProberStep, LookForCommit, Probe, TouchAlive, StopTrap, Arm, Verify,
     Sleep, ProberDies, Tick, Fire
<1>4. CASE RestoreStep
  BY <1>1, <1>4 DEF RestoreStep, CommitGuard, AliveGuard, DisablePersist, DeleteTable,
     TestCaptures, CopyFiles, RestoreFamily, RestartServices
<1>5. CASE AgentStep \/ AgentDies
  BY <1>1, <1>5 DEF AgentStep, AgentApply, AgentCapture, AgentSwap, AgentDies
<1>6. CASE \E l \in Loss : Lose(l) \/ Recover(l)
  BY <1>1, <1>6 DEF Lose, Recover
<1>7. CASE UNCHANGED trapVars
  BY <1>1, <1>7 DEF trapVars, operator
<1> QED
  BY <1>2, <1>3, <1>4, <1>5, <1>6, <1>7 DEF TrapNext

\* What is neither the prober's cycle, nor the timer's, nor COMMIT leaves the switch.
LEMMA OutsideSwitch ==
  ASSUME UNCHANGED <<wd, alive, timer, rs, commit>>
  PROVE  [Switch!Next]_(Switch!vars)
<1>1. UNCHANGED <<timer, alive, Word, Phase, commit>>
  BY DEF Word, Phase
<1> QED
  BY <1>1 DEF Switch!Next, Switch!Outside

LEMMA ProberSwitch ==
  ASSUME TrapTypeOK, ProberStep
  PROVE  [Switch!Next]_(Switch!vars)
<1> USE DEF WdGoto
<1>1. UNCHANGED <<commit, down, down \cap {"local"}>>
  BY DEF ProberStep, LookForCommit, Probe, TouchAlive, StopTrap, Arm, Verify, Sleep,
         operator, outside
<1>2. ASSUME UNCHANGED <<timer, alive, rs>>, Word' = "none" PROVE Switch!DropWord
  <2>1. Phase' = Phase
    BY <1>2 DEF Phase
  <2> QED
    BY <1>1, <1>2, <2>1 DEF Switch!DropWord
<1>3. CASE LookForCommit \/ Verify \/ Sleep
  <2>1. UNCHANGED <<timer, alive, rs>> /\ Word' = "none"
    BY <1>3 DEF LookForCommit, Verify, Sleep, trap, Word
  <2> QED
    BY <1>2, <2>1 DEF Switch!Next
<1>4. CASE Probe
  <2>1. UNCHANGED <<timer, alive, rs>>
    BY <1>4 DEF Probe, trap
  <2>2. Phase' = Phase
    BY <2>1 DEF Phase
  <2>3. CASE ProofOfLife
    <3>1. down \cap {"local"} = {} /\ Word = "none" /\ Word' = "given"
      BY <1>4, <2>3 DEF Probe, ProofOfLife, Word
    <3> QED
      BY <1>1, <2>1, <2>2, <3>1 DEF Switch!Next, Switch!GiveWord
  <2>4. CASE ~ProofOfLife
    <3>1. Word' = "none"
      BY <1>4, <2>4 DEF Probe, Word
    <3> QED
      BY <1>2, <2>1, <3>1 DEF Switch!Next
  <2> QED
    BY <2>3, <2>4
<1>5. CASE TouchAlive
  <2>1. UNCHANGED <<timer, rs>> /\ Word = "given"
    BY <1>5 DEF TouchAlive, trap, Word
  <2>2. Phase' = Phase
    BY <2>1 DEF Phase
  <2>3. CASE wd' = "stop" /\ alive' = 0
    <3>1. Word' = "filed"
      BY <2>3 DEF Word
    <3> QED
      BY <1>1, <2>1, <2>2, <2>3, <3>1 DEF Switch!Next, Switch!FileWord
  <2>4. CASE wd' = "sleep" /\ UNCHANGED alive
    <3>1. Word' = "none"
      BY <2>4 DEF Word
    <3> QED
      BY <1>2, <2>1, <2>4, <3>1 DEF Switch!Next
  <2> QED
    BY <1>5, <2>3, <2>4 DEF TouchAlive
<1>6. CASE StopTrap
  <2>1. UNCHANGED alive /\ Word = "filed" /\ Word' = "filed"
    BY <1>6 DEF StopTrap, Word
  <2>2. CASE timer' = Off /\ rs' = "off"
    <3>1. Phase' = "rest"
      BY <2>2 DEF Phase
    <3> QED
      BY <1>1, <2>1, <2>2, <3>1 DEF Switch!Next, Switch!Stop
  <2>3. CASE UNCHANGED <<timer, rs>>
    <3>1. Phase' = Phase
      BY <2>3 DEF Phase
    <3> QED
      BY <1>1, <2>1, <2>3, <3>1 DEF Switch!vars
  <2> QED
    BY <1>6, <2>2, <2>3 DEF StopTrap
<1>7. CASE Arm
  <2>1. UNCHANGED <<alive, rs>> /\ Word = "filed" /\ Word' = "none"
    BY <1>7 DEF Arm, Word
  <2>2. CASE timer = Off /\ rs = "off" /\ timer' = Window
    <3>1. Phase = "rest" /\ Phase' = "rest"
      BY <2>1, <2>2 DEF Phase
    <3> QED
      BY <1>1, <2>1, <2>2, <3>1 DEF Switch!Next, Switch!PutOff
  <2>3. CASE UNCHANGED timer
    BY <1>2, <2>1, <2>3 DEF Switch!Next
  <2> QED
    BY <1>7, <2>2, <2>3 DEF Arm
<1> QED
  BY <1>3, <1>4, <1>5, <1>6, <1>7 DEF ProberStep

LEMMA ClockSwitch ==
  ASSUME OneShot, Tick \/ Fire
  PROVE  Switch!Next
<1>1. UNCHANGED <<wd, commit, down \cap {"local"}>>
  BY DEF Tick, Fire, prober, operator, outside
<1>2. Word' = Word
  BY <1>1 DEF Word
<1>3. CASE Tick
  <2>1. Phase' = Phase
    BY <1>3 DEF Tick, Phase
  <2>2. /\ timer' = IF timer \in {0, Off} THEN timer ELSE timer - 1
        /\ alive' = IF alive = Fresh THEN alive ELSE alive + 1
    BY <1>3 DEF Tick, Sooner, Older
  <2> QED
    BY <1>1, <1>2, <2>1, <2>2 DEF Switch!Next, Switch!Pass
<1>4. CASE Fire
  <2>1. timer = 0 /\ timer' = Off /\ rs' = "commit" /\ UNCHANGED alive
    BY <1>4 DEF Fire, prober
  <2>2. rs = "off"
    BY <2>1, TrapAssumption DEF OneShot
  <2>3. Phase = "rest" /\ Phase' = "released?"
    BY <2>1, <2>2 DEF Phase
  <2> QED
    BY <1>1, <1>2, <2>1, <2>3 DEF Switch!Next, Switch!GoOff
<1> QED
  BY <1>3, <1>4

LEMMA RestoreSwitch ==
  ASSUME TrapTypeOK, RestoreStep
  PROVE  [Switch!Next]_(Switch!vars)
<1> USE DEF RsGoto
<1>1. UNCHANGED <<wd, alive, timer, commit>>
  BY DEF RestoreStep, CommitGuard, AliveGuard, DisablePersist, DeleteTable, TestCaptures,
         CopyFiles, RestoreFamily, RestartServices, prober, operator
<1>2. Word' = Word
  BY <1>1 DEF Word
<1>3. CASE CommitGuard
  <2>1. UNCHANGED (down \cap {"local"}) /\ Phase = "released?"
        /\ Phase' = IF commit THEN "rest" ELSE "fresh?"
    BY <1>3 DEF CommitGuard, Phase, outside
  <2> QED
    BY <1>1, <1>2, <2>1 DEF Switch!Next, Switch!Ask, Switch!GiveWay, Switch!Goto
<1>4. CASE AliveGuard
  <2>1. UNCHANGED (down \cap {"local"}) /\ Phase = "fresh?"
        /\ Phase' = IF alive < Fresh THEN "rest" ELSE "undo"
    BY <1>4 DEF AliveGuard, StillAlive, Phase, outside
  <2>2. ~(alive < Fresh) => alive = Fresh
    BY TrapAssumption DEF TrapTypeOK, ProberTyped
  <2> QED
    BY <1>1, <1>2, <2>1, <2>2 DEF Switch!Next, Switch!Undo, Switch!GiveWay, Switch!Goto
<1>5. CASE \/ DisablePersist \/ DeleteTable \/ TestCaptures \/ CopyFiles
           \/ RestoreFamily("v4", "v6") \/ RestoreFamily("v6", "services")
           \/ RestartServices
  <2>1. down' \cap {"local"} \in {{}, down \cap {"local"}} /\ Phase = "undo"
    BY <1>5 DEF DisablePersist, DeleteTable, TestCaptures, CopyFiles, RestoreFamily,
       RestartServices, Phase, outside
  <2>2. Phase' \in {"undo", "rest"} /\ (Phase' = "undo" => UNCHANGED down)
    BY <1>5 DEF DisablePersist, DeleteTable, TestCaptures, CopyFiles, RestoreFamily,
       RestartServices, Phase, outside
  <2>3. CASE Phase' = "rest"
    BY <1>1, <1>2, <2>1, <2>3 DEF Switch!Next, Switch!Undone
  <2>4. CASE Phase' = "undo"
    BY <1>1, <1>2, <2>1, <2>2, <2>4 DEF Switch!vars
  <2> QED
    BY <2>2, <2>3, <2>4
<1> QED
  BY <1>3, <1>4, <1>5 DEF RestoreStep

LEMMA OperatorSwitch ==
  ASSUME Committed, Strip \/ SwitchBoot \/ WriteCommit \/ Disarm
  PROVE  [Switch!Next]_(Switch!vars)
<1>1. CASE Strip \/ SwitchBoot
  BY <1>1, OutsideSwitch DEF Strip, SwitchBoot, prober, trap
<1>2. CASE WriteCommit
  <2>1. UNCHANGED <<wd, rs, timer, alive, down>> /\ commit' = TRUE
    BY <1>2 DEF WriteCommit, prober, trap, outside
  <2>2. UNCHANGED <<timer, alive, Word, Phase, down \cap {"local"}>>
    BY <2>1 DEF Word, Phase
  <2> QED
    BY <2>1, <2>2 DEF Switch!Next, Switch!Release
<1>3. CASE Disarm
  <2>1. /\ timer' = Off /\ rs' = "off" /\ UNCHANGED <<wd, alive, commit, down>>
        /\ commit
    BY <1>3 DEF Disarm, OpGoto, Committed, prober, outside
  <2>2. UNCHANGED <<Word, down \cap {"local"}>> /\ Phase' = "rest"
    BY <2>1 DEF Word, Phase
  <2> QED
    BY <2>1, <2>2 DEF Switch!Next, Switch!Stop
<1> QED
  BY <1>1, <1>2, <1>3

LEMMA StepSwitch ==
  ASSUME TrapTypeOK, RestoreInv, Committed, [TrapNext]_trapVars
  PROVE  [Switch!Next]_(Switch!vars)
<1>1. CASE ProberStep
  BY <1>1, ProberSwitch
<1>2. CASE Tick \/ Fire
  BY <1>2, ClockSwitch DEF RestoreInv
<1>3. CASE RestoreStep
  BY <1>3, RestoreSwitch
<1>4. CASE AgentStep \/ AgentDies \/ UNCHANGED trapVars
  BY <1>4, OutsideSwitch DEF AgentStep, AgentApply, AgentCapture, AgentSwap, AgentDies,
     prober, trap, operator, trapVars
<1>5. CASE ProberDies
  <2>1. UNCHANGED <<alive, timer, rs, commit, down>> /\ wd' = "commit"
    BY <1>5 DEF ProberDies, trap, operator, outside
  <2>2. UNCHANGED <<Phase, down \cap {"local"}>> /\ Word' = "none"
    BY <2>1 DEF Phase, Word
  <2> QED
    BY <2>1, <2>2 DEF Switch!Next, Switch!DropWord
<1>6. CASE Strip \/ SwitchBoot \/ WriteCommit \/ Disarm
  BY <1>6, OperatorSwitch
<1>7. CASE \E l \in Loss : Lose(l) \/ Recover(l)
  BY <1>7, OutsideSwitch DEF Lose, Recover, prober, trap, operator
<1> QED
  BY <1>1, <1>2, <1>3, <1>4, <1>5, <1>6, <1>7 DEF TrapNext

\* The prober, the timer, the restore script and the operator implement a dead-man
\* switch, whatever fails or dies between their commands: it is stopped or put off only
\* on a proof of life that ALIVE has, once for each proof, or after COMMIT; and what
\* has fired undoes nothing before it has missed COMMIT and found ALIVE stale.
THEOREM TrapIsDeadManSwitch == TrapSpec => IsDeadManSwitch
<1>1. TrapInit => Switch!Init
  BY DEF TrapInit, Switch!Init, Word, Phase
<1>2. TrapInit => TrapTypeOK /\ RestoreInv /\ Committed
  BY TrapInitInv DEF TrapInit, Committed
<1>3. TrapTypeOK /\ RestoreInv /\ Committed /\ [TrapNext]_trapVars
        => (TrapTypeOK /\ RestoreInv /\ Committed)'
  BY TrapStepInv, StepCommitted
<1>4. TrapTypeOK /\ RestoreInv /\ Committed /\ [TrapNext]_trapVars
        => [Switch!Next]_(Switch!vars)
  BY StepSwitch
<1> QED
  BY <1>1, <1>2, <1>3, <1>4, PTL DEF TrapSpec, IsDeadManSwitch, Switch!Spec
===============================================================================
