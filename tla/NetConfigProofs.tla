---------------------------- MODULE NetConfigProofs ----------------------------
(***************************************************************************)
(* Theorems about NetConfig, for every set of interfaces, addresses and     *)
(* rows, any number of requests, faults and reboots: its types, that the    *)
(* WAN address stays, and what an apply or a try that ran alone has done.   *)
(***************************************************************************)
EXTENDS NetConfig, FiniteSetTheorems, TLAPS

-----------------------------------------------------------------------------
(* The inductive invariants.                                                *)

\* What a request has with it, where it is.
Carries(q) ==
  /\ pc[q] = "check" => op[q].kind \in {"create", "update"}
  /\ pc[q] = "commit" => op[q].kind \in {"create", "update", "delete"}
  /\ pc[q] \in {"check", "commit"} =>
       /\ op[q].kind \in {"create", "update"} => op[q].new \in NetworkInterface
       /\ op[q].kind # "create" => op[q].id \in Row
       /\ op[q].kind = "update" => op[q].seen # {}
  /\ pc[q] \in {"addresses", "route"} => op[q].kind \in {"refresh", "apply"}
  /\ pc[q] \in {"upsert", "rows"} => op[q].kind = "refresh"
  /\ pc[q] \in {"plan", "steps", "file", "try", "probe", "confirm", "wait"} =>
       op[q].kind = "apply"
  /\ pc[q] \in {"route", "plan", "steps", "file", "try", "probe", "confirm", "wait",
                 "upsert", "rows"} => op[q].live \in Hosts
  /\ \A s \in op[q].plan : s.action \in {"address", "stale"} => s.addr \in Address

Typed == TypeOK /\ (\A q \in Req : Carries(q))

\* What an apply has read is possible, neither its guard nor the guardrails had
\* anything against what it planned, and what it has left to do is of that plan.
Planned(q) ==
  /\ pc[q] \in {"steps", "file", "try"} =>
       /\ ~Impossible(q) /\ op[q].plan \subseteq Plan(q)
       /\ \A s \in Plan(q) : ~op[q].force => s.iface # op[q].live.default
       /\ \A s \in Plan(q) : s.action # "nogateway" /\ (s.action = "stale" => s.addr # Wan)
       /\ pc[q] = "file" /\ ~op[q].try => op[q].plan = {}
  /\ pc[q] = "steps" => ~op[q].try
  /\ pc[q] \in {"try", "probe", "confirm", "wait"} => op[q].try

\* The WAN address was on the host that a try may go back to.
WanInv ==
  /\ WanKept
  /\ \A q \in Req : Tries(q) /\ op[q].trial = "waiting" =>
       \A i \in Iface : Wan \in Base[i] => Wan \in op[q].live.addrs[i]

\* Beside the request that runs alone no other runs.
Alone == \A q \in Req : solo # None /\ q # solo => pc[q] = "idle"

\* While netplan has the new networks in place the host is as the file makes it,
\* and as it was before and after; netplan goes on only with probes that passed, on
\* the old networks if they were early and on the new ones if not.
InPlace(q) == op[q].trial \in {"waiting", "accepted"}
Trying(q) ==
  /\ IF InPlace(q) THEN IsAs(Networks(file)) ELSE Host = before
  /\ pc[q] \in {"confirm", "wait"} /\ op[q].ok =>
       /\ op[q].early => Online(before)
       /\ op[q].trial = "starting" => op[q].early
       /\ InPlace(q) => op[q].early \/ Online(Host)
  /\ op[q].trial = "accepted" => pc[q] = "wait" /\ op[q].ok

\* What TryIsSafe says of a try that has its answer.
Answered(q) ==
  IF op[q].told = "ok"
  THEN IsAs(Networks(file)) /\ Online(IF op[q].early THEN before ELSE Host)
  ELSE op[q].trial = "waiting" \/ Host = before

\* An apply that runs alone has seen the host as it was when it began; and so
\* the host is before its first command.
Still(q) ==
  /\ pc[q] \in {"addresses", "route", "plan", "try"} => Host = before
  /\ pc[q] = "file" /\ op[q].try => Host = before
  /\ pc[q] \in {"route", "plan", "steps", "file", "try"} => op[q].live = before
  /\ Tries(q) => op[q].live = before /\ Trying(q)
  /\ pc[q] = "idle" /\ op[q].try => Answered(q)

\* No command of an unforced apply is on the interface of the default route,
\* be it the one there was or one that the apply has put there.
Spared(q) ==
  pc[q] \in {"steps", "file", "idle"} /\ ~op[q].try /\ ~op[q].force =>
    /\ \A i \in Iface : i = before.default =>
         addrs[i] = before.addrs[i] /\ up[i] = before.up[i]
    /\ Connected(before) => Connected(Host) /\ \A s \in op[q].plan : s.iface # default

\* What the host has of a row, or a command of the plan will bring it.
Pending(q, c, action, addr) ==
  [iface |-> c.iface, action |-> action, addr |-> addr] \in op[q].plan
Nearing(q, c) ==
  /\ Managed(c) /\ c.addr # None =>
       /\ c.addr \in addrs[c.iface] \/ Pending(q, c, "address", c.addr)
       /\ \A a \in addrs[c.iface] : a = c.addr \/ Pending(q, c, "stale", a)
  /\ ~c.dhcp /\ ~c.enabled => \A a \in addrs[c.iface] : Pending(q, c, "stale", a)
  /\ IF c.enabled THEN up[c.iface] \/ Pending(q, c, "up", None)
     ELSE ~up[c.iface] \/ Pending(q, c, "down", None)
Routing(q) ==
  (\E c \in Desired(q) : Managed(c) /\ c.gw) =>
    \E c \in Desired(q) :
      Managed(c) /\ c.gw /\ (default = c.iface \/ Pending(q, c, "gateway", None))
Reaching(q) ==
  pc[q] \in {"steps", "file"} /\ ~op[q].try /\ op[q].ok =>
    (\A c \in Desired(q) : Nearing(q, c)) /\ Routing(q)

LoneApply(q) == solo = q /\ op[q].kind = "apply" => Still(q) /\ Spared(q) /\ Reaching(q)
AllLone == \A q \in Req : LoneApply(q)

\* While an apply runs there is no goal; a goal's addresses are on the host and
\* in the file.
GoalInv ==
  /\ \A q \in Req : goal # {} /\ op[q].kind = "apply" => pc[q] = "idle"
  /\ \A c \in goal : Managed(c) /\ c.addr # None =>
       /\ c.addr \in addrs[c.iface] /\ up[c.iface]
       /\ file # None /\ file[c.iface] # None /\ file[c.iface].addr = c.addr
  /\ Ended(FALSE) # {} =>
       /\ \A c \in goal : Brought(c)
       /\ (\E c \in goal : Managed(c) /\ c.gw) =>
            \E c \in goal : Managed(c) /\ c.gw /\ c.iface = default

AllPlanned == \A q \in Req : Planned(q)

-----------------------------------------------------------------------------
(* Types.                                                                   *)

LEMMA RestType == Rest \in Operation
BY DEF Rest, Operation, Kind, Trial

LEMMA HostTyped ==
  ASSUME Host \in Hosts
  PROVE  /\ addrs \in [Iface -> SUBSET Address] /\ up \in [Iface -> BOOLEAN]
         /\ default \in Iface \cup {None}
BY DEF Host, Hosts

LEMMA HostType ==
  ASSUME addrs' \in [Iface -> SUBSET Address], up' \in [Iface -> BOOLEAN],
         default' \in Iface \cup {None}
  PROVE  Host' \in Hosts
BY DEF Host, Hosts

\* A finite set as a sequence of its members.
LEMMA SequenceType ==
  ASSUME NEW S, IsFiniteSet(S)
  PROVE  /\ SetToSeq(S) \in [1 .. Cardinality(S) -> S] /\ Cardinality(S) \in Nat
         /\ Len(SetToSeq(S)) = Cardinality(S)
<1>1. /\ Cardinality(S) \in Nat
      /\ ExistsBijection(1 .. Cardinality(S), S)
  BY FS_CardinalityType
<1>2. \E f \in [1 .. Cardinality(S) -> S] : IsInjective(f)
  BY <1>1 DEF ExistsBijection, Bijection, Injection
<1>3. SetToSeq(S) \in [1 .. Cardinality(S) -> S]
  BY <1>2 DEF SetToSeq
<1> QED
  BY <1>1, <1>3

LEMMA RowType == Row \subseteq Nat
<1> DEFINE k == (MaxRequests + 1) * Cardinality(Iface)
<1>1. Cardinality(Iface) \in Nat
  BY RowsAssumption, FS_CardinalityType
<1>2. k \in Int
  BY <1>1, NetAssumption
<1>3. Row = 1 .. k
  BY DEF Row
<1> HIDE DEF k
<1> QED
  BY <1>2, <1>3

LEMMA EmittedType ==
  ASSUME NEW seen \in NetworkInterface, NEW new \in NetworkInterface,
         NEW row \in NetworkInterface
  PROVE  Emitted(seen, new, row) \in NetworkInterface
<1>1. DOMAIN row = {"iface", "dhcp", "addr", "gw", "enabled"}
  BY DEF NetworkInterface
<1> QED
  BY <1>1 DEF Emitted, NetworkInterface

LEMMA KnownType ==
  ASSUME TypeOK, NEW ids \in SUBSET Ids
  PROVE  Known(ids) \in SUBSET [id : Row, row : NetworkInterface]
<1>1. \A n \in ids : n \in Row /\ rows[n] \in NetworkInterface
  BY DEF TypeOK, Ids
<1> QED
  BY <1>1 DEF Known

LEMMA NetworksType ==
  ASSUME NEW f \in File \cup {None}
  PROVE  /\ Networks(f).addrs \in [Iface -> SUBSET Address]
         /\ Networks(f).up \in [Iface -> BOOLEAN]
         /\ Networks(f).default \subseteq Iface
<1> DEFINE own(i) == IF f = None \/ f[i] = None \/ f[i].addr = None THEN {} ELSE {f[i].addr}
           routers == IF f = None THEN {} ELSE {i \in Listed(f) : f[i].gw}
<1>1. \A i \in Iface : own(i) \subseteq Address
  BY DEF File, Stanza
<1>2. routers \subseteq Iface
  BY DEF Listed
<1>3. Networks(f) = [addrs |-> [i \in Iface |-> Base[i] \cup own(i)],
                     up |-> [i \in Iface |-> Base[i] \cup own(i) # {}],
                     default |-> {Uplink} \cup routers]
  BY DEF Networks
<1> HIDE DEF own, routers
<1> QED
  BY <1>1, <1>2, <1>3, NetAssumption

LEMMA RenderedType ==
  ASSUME TypeOK, NEW q \in Req
  PROVE  Rendered(q) \in File
<1> DEFINE of(i) == CHOOSE c \in Desired(q) : c.iface = i
           static(c) == Managed(c) /\ c.addr # None
           stanza(c) == [dhcp |-> c.enabled /\ c.dhcp,
                         addr |-> IF static(c) THEN c.addr ELSE None,
                         gw |-> static(c) /\ c.gw]
<1>1. Desired(q) \subseteq NetworkInterface
  <2>1. op[q] \in Operation
    BY DEF TypeOK
  <2> QED
    BY <2>1 DEF Desired, Operation
<1>2. ASSUME NEW c \in NetworkInterface PROVE stanza(c) \in Stanza
  BY DEF Stanza, NetworkInterface, Managed
<1>3. \A i \in Iface : (\E c \in Desired(q) : c.iface = i) => of(i) \in NetworkInterface
  BY <1>1
<1>4. Rendered(q) = [i \in Iface |-> IF ~\E c \in Desired(q) : c.iface = i THEN None
                                     ELSE stanza(of(i))]
  BY DEF Rendered
<1> HIDE DEF of, stanza
<1> QED
  BY <1>2, <1>3, <1>4 DEF File

LEMMA OperationTyped ==
  ASSUME TypeOK, NEW q \in Req
  PROVE  /\ op[q] \in Operation /\ pc[q] \in Stage
         /\ op[q].seen \subseteq [id : Row, row : NetworkInterface]
         /\ Desired(q) \subseteq NetworkInterface
         /\ op[q].plan \subseteq Step
<1>1. op[q] \in Operation /\ pc[q] \in Stage
  BY DEF TypeOK
<1> QED
  BY <1>1 DEF Operation, Desired

LEMMA ChangesType ==
  ASSUME NEW c \in NetworkInterface, NEW live \in Hosts
  PROVE  Changes(live, c) \subseteq {s \in Step : s.iface = c.iface
           /\ (s.action \in {"address", "stale"} => s.addr \in Address)}
<1>1. live.addrs[c.iface] \subseteq Address /\ c.iface \in Iface /\ c.addr \in Address \cup {None}
  BY DEF NetworkInterface, Hosts
<1>2. DOMAIN Order = {"address", "stale", "up", "down", "gateway", "nogateway"}
  BY DEF Order
<1> QED
  BY <1>1, <1>2 DEF Changes, When, Step

LEMMA PlanType ==
  ASSUME TypeOK, NEW q \in Req, op[q].live \in Hosts
  PROVE  /\ Plan(q) \subseteq Step
         /\ \A s \in Plan(q) : s.action \in {"address", "stale"} => s.addr \in Address
BY OperationTyped, ChangesType DEF Plan
-----------------------------------------------------------------------------
(* A request that goes on to another stage, or that is answered.            *)

LEMMA MoveTyped ==
  ASSUME Typed, NEW q \in Req, NEW stage \in Stage, NEW o \in Operation,
         pc' = [pc EXCEPT ![q] = stage], op' = [op EXCEPT ![q] = o], Carries(q)'
  PROVE  /\ pc' \in [Req -> Stage] /\ op' \in [Req -> Operation]
         /\ \A r \in Req : Carries(r)'
<1>1. pc \in [Req -> Stage] /\ op \in [Req -> Operation]
  BY DEF Typed, TypeOK
<1>2. ASSUME NEW r \in Req, r # q PROVE Carries(r)'
  <2>1. pc'[r] = pc[r] /\ op'[r] = op[r] /\ Carries(r)
    BY <1>1, <1>2 DEF Typed
  <2> QED
    BY <2>1 DEF Carries
<1> QED
  BY <1>1, <1>2

LEMMA FinishTyped ==
  ASSUME Typed, NEW q \in Req, NEW word \in {"nothing", "ok", "error", "reverted"},
         Finish(q, word)
  PROVE  /\ pc' \in [Req -> Stage] /\ op' \in [Req -> Operation]
         /\ \A r \in Req : Carries(r)'
<1> DEFINE o == IF solo # q THEN Rest
                ELSE [Rest EXCEPT !.kind = op[q].kind, !.force = op[q].force,
                                  !.try = op[q].try, !.trial = op[q].trial,
                                  !.early = op[q].early, !.told = word]
<1>1. op[q] \in Operation
  BY DEF Typed, TypeOK
<1>2. o \in Operation /\ o.plan = {}
  <2>1. /\ op[q].kind \in Kind /\ op[q].force \in BOOLEAN /\ op[q].try \in BOOLEAN
        /\ op[q].trial \in Trial /\ op[q].early \in BOOLEAN
    BY <1>1 DEF Operation
  <2>2. CASE solo # q
    BY <2>2, RestType DEF Rest
  <2>3. CASE solo = q
    <3>1. o = [kind |-> op[q].kind, id |-> None, new |-> None, seen |-> {}, live |-> None,
               force |-> op[q].force, try |-> op[q].try, plan |-> {}, at |-> None,
               ok |-> TRUE, trial |-> op[q].trial, early |-> op[q].early, told |-> word]
      BY <2>3 DEF Rest
    <3> HIDE DEF o
    <3> QED
      BY <2>1, <3>1 DEF Operation
  <2> QED
    BY <2>2, <2>3
<1>3. pc' = [pc EXCEPT ![q] = "idle"] /\ op' = [op EXCEPT ![q] = o]
  BY DEF Finish, Goto
<1>4. pc'[q] = "idle" /\ op'[q] = o
  BY <1>3 DEF Typed, TypeOK
<1> HIDE DEF o
<1>5. Carries(q)'
  BY <1>2, <1>4 DEF Carries
<1> QED
  BY <1>2, <1>3, <1>5, MoveTyped DEF Stage

\* A request in the middle of its work leaves everything else as it is.
LEMMA StayTyped ==
  ASSUME Typed, NEW q \in Req,
         pc' \in [Req -> Stage], op' \in [Req -> Operation], \A r \in Req : Carries(r)',
         rows' \in [Row -> NetworkInterface \cup {None}], nRows' \in Nat,
         Host' \in Hosts, file' \in File \cup {None},
         solo' \in Req \cup {None}, before' \in Hosts, goal' \subseteq NetworkInterface,
         nRequests' \in 0 .. MaxRequests, nFaults' \in 0 .. MaxFaults,
         nReboots' \in 0 .. MaxReboots
  PROVE  Typed'
BY DEF Typed, TypeOK

LEMMA FaultTyped ==
  ASSUME Typed, Fault \/ Works
  PROVE  nFaults' \in 0 .. MaxFaults
BY NetAssumption DEF Typed, TypeOK, Fault, Works

LEMMA Unchanged ==
  ASSUME Typed, UNCHANGED vars
  PROVE  Typed'
<1>1. TypeOK'
  BY DEF Typed, TypeOK, Host, vars
<1>2. ASSUME NEW q \in Req PROVE Carries(q)'
  <2>1. Carries(q) /\ pc'[q] = pc[q] /\ op'[q] = op[q]
    BY DEF Typed, vars
  <2> QED
    BY <2>1 DEF Carries
<1> QED
  BY <1>1, <1>2 DEF Typed

-----------------------------------------------------------------------------
(* What begins.                                                             *)

LEMMA BeginTyped ==
  ASSUME Typed, NEW q \in Req, NEW o \in Operation, NEW stage \in Stage,
         Begin(q, o, stage), nRequests < MaxRequests, o.plan = {},
         \/ stage = "check" /\ o.kind \in {"create", "update"} /\ o.new \in NetworkInterface
         \/ stage = "commit" /\ o.kind = "update" /\ o.new \in NetworkInterface
         \/ stage = "commit" /\ o.kind = "delete"
         \/ stage = "addresses" /\ o.kind \in {"refresh", "apply"},
         o.kind = "update" => o.seen # {} /\ o.id \in Row,
         o.kind = "delete" => o.id \in Row
  PROVE  Typed'
<1>1. pc \in [Req -> Stage] /\ op \in [Req -> Operation]
  BY DEF Typed, TypeOK
<1>2. pc' = [pc EXCEPT ![q] = stage] /\ pc' \in [Req -> Stage]
  BY <1>1 DEF Begin, Goto
<1>3. op' = [r \in Req |-> IF r = q THEN o ELSE IF r \in Running THEN op[r] ELSE Rest]
  BY DEF Begin
<1>4. op' \in [Req -> Operation]
  BY <1>1, <1>3, RestType
<1>5. ASSUME NEW r \in Req PROVE Carries(r)'
  <2>1. CASE r = q
    <3>1. pc'[r] = stage /\ op'[r] = o
      BY <1>1, <1>2, <1>3, <2>1
    <3> QED
      BY <3>1 DEF Carries
  <2>2. CASE r # q /\ r \in Running
    <3>1. pc'[r] = pc[r] /\ op'[r] = op[r] /\ Carries(r)
      BY <1>1, <1>2, <1>3, <2>2 DEF Typed
    <3> QED
      BY <3>1 DEF Carries
  <2>3. CASE r # q /\ r \notin Running
    <3>1. pc'[r] = "idle" /\ op'[r] = Rest
      BY <1>1, <1>2, <1>3, <2>3 DEF Running
    <3>2. Rest.plan = {}
      BY DEF Rest
    <3> QED
      BY <3>1, <3>2 DEF Carries
  <2> QED
    BY <2>1, <2>2, <2>3
<1>6. /\ rows' = rows /\ nRows' = nRows /\ Host' = Host /\ file' = file
      /\ solo' \in {q, None} /\ before' = Host /\ goal' \in {{}, goal}
      /\ nFaults' = nFaults /\ nReboots' = nReboots /\ nRequests' = nRequests + 1
  BY DEF Begin, table, host, Host
<1>7. nRequests' \in 0 .. MaxRequests
  BY <1>6, NetAssumption DEF Typed, TypeOK
<1>8. goal' \subseteq NetworkInterface /\ solo' \in Req \cup {None}
  BY <1>6 DEF Typed, TypeOK
<1>9. /\ rows' \in [Row -> NetworkInterface \cup {None}] /\ nRows' \in Nat
      /\ Host' \in Hosts /\ before' \in Hosts /\ file' \in File \cup {None}
      /\ nFaults' \in 0 .. MaxFaults /\ nReboots' \in 0 .. MaxReboots
  BY <1>6 DEF Typed, TypeOK
<1> QED
  BY <1>2, <1>4, <1>5, <1>7, <1>8, <1>9, StayTyped

LEMMA RequestTyped ==
  ASSUME Typed, NEW q \in Req, nRequests < MaxRequests, Request(q)
  PROVE  Typed'
<1>1. ASSUME NEW new \in Wanted, CreateInterface(q, new) PROVE Typed'
  <2>1. new \in NetworkInterface
    BY RowsAssumption
  <2> DEFINE o == [Rest EXCEPT !.kind = "create", !.new = new]
  <2>2. o \in Operation /\ o.kind = "create" /\ o.new = new /\ o.plan = {}
    BY <2>1 DEF Rest, Operation, Kind, Trial
  <2>3. Begin(q, o, "check")
    BY <1>1 DEF CreateInterface
  <2> HIDE DEF o
  <2> QED
    BY <2>1, <2>2, <2>3, BeginTyped DEF Stage
<1>2. ASSUME NEW new \in Wanted, NEW n \in Row, UpdateInterface(q, n, new) PROVE Typed'
  <2>1. new \in NetworkInterface
    BY RowsAssumption
  <2> DEFINE o == [Rest EXCEPT !.id = n, !.new = new, !.seen = Known({n})]
             stage == IF new.iface = rows[n].iface THEN "commit" ELSE "check"
  <2>2. Known({n}) \in SUBSET [id : Row, row : NetworkInterface] /\ Known({n}) # {}
    <3>1. n \in Ids
      BY <1>2 DEF UpdateInterface
    <3>2. Known({n}) # {}
      BY DEF Known
    <3> QED
      BY <3>1, <3>2, KnownType DEF Typed
  <2>3. /\ o \in Operation /\ o.kind = "update" /\ o.new = new /\ o.plan = {}
        /\ o.seen = Known({n}) /\ o.id = n
    BY <2>1, <2>2 DEF Rest, Operation, Kind, Trial
  <2>4. Begin(q, o, stage)
    BY <1>2 DEF UpdateInterface
  <2>5. stage \in {"check", "commit"}
    OBVIOUS
  <2> HIDE DEF o, stage
  <2> QED
    BY <2>1, <2>2, <2>3, <2>4, <2>5, BeginTyped DEF Stage
<1>3. ASSUME NEW n \in Row, DeleteInterface(q, n) PROVE Typed'
  <2> DEFINE o == [Rest EXCEPT !.kind = "delete", !.id = n]
  <2>1. o \in Operation /\ o.kind = "delete" /\ o.plan = {} /\ o.id = n
    BY DEF Rest, Operation, Kind, Trial
  <2>2. Begin(q, o, "commit")
    BY <1>3 DEF DeleteInterface
  <2> HIDE DEF o
  <2> QED
    BY <2>1, <2>2, BeginTyped DEF Stage
<1>4. ASSUME RefreshInterfaces(q) PROVE Typed'
  <2> DEFINE o == [Rest EXCEPT !.kind = "refresh"]
  <2>1. o \in Operation /\ o.kind = "refresh" /\ o.plan = {}
    BY DEF Rest, Operation, Kind, Trial
  <2>2. Begin(q, o, "addresses")
    BY <1>4 DEF RefreshInterfaces
  <2> HIDE DEF o
  <2> QED
    BY <2>1, <2>2, BeginTyped DEF Stage
<1>5. ASSUME NEW force \in BOOLEAN, ApplyInterfaces(q, force) \/ ApplyOfAgent(q, force)
      PROVE Typed'
  <2> DEFINE a == [Rest EXCEPT !.kind = "apply", !.force = force, !.seen = Known(Ids)]
             b == [Rest EXCEPT !.kind = "apply", !.force = force, !.try = TRUE,
                               !.seen = Known(Ids)]
  <2>1. Known(Ids) \in SUBSET [id : Row, row : NetworkInterface]
    BY KnownType DEF Typed
  <2>2. /\ a \in Operation /\ a.kind = "apply" /\ a.plan = {}
        /\ b \in Operation /\ b.kind = "apply" /\ b.plan = {}
    BY <2>1 DEF Rest, Operation, Kind, Trial
  <2>3. Begin(q, a, "addresses") \/ Begin(q, b, "addresses")
    BY <1>5 DEF ApplyInterfaces, ApplyOfAgent
  <2> HIDE DEF a, b
  <2> QED
    BY <2>2, <2>3, BeginTyped DEF Stage
<1> QED
  BY <1>1, <1>2, <1>3, <1>4, <1>5 DEF Request
-----------------------------------------------------------------------------
(* What goes on.                                                            *)

\* The rest of the state of a request that only finishes or moves.
LEMMA OthersTyped ==
  ASSUME Typed, NEW q \in Req,
         pc' \in [Req -> Stage], op' \in [Req -> Operation], \A r \in Req : Carries(r)',
         UNCHANGED <<table, host, file, history, goal, nRequests, nReboots>>,
         Fault \/ Works
  PROVE  Typed'
<1>1. /\ rows' = rows /\ nRows' = nRows /\ Host' = Host /\ file' = file /\ solo' = solo
      /\ before' = before /\ goal' = goal /\ nRequests' = nRequests /\ nReboots' = nReboots
  BY DEF table, host, history, Host
<1>2. /\ rows' \in [Row -> NetworkInterface \cup {None}] /\ nRows' \in Nat
      /\ Host' \in Hosts /\ before' \in Hosts /\ file' \in File \cup {None}
      /\ solo' \in Req \cup {None} /\ goal' \subseteq NetworkInterface
      /\ nRequests' \in 0 .. MaxRequests /\ nReboots' \in 0 .. MaxReboots
  BY <1>1 DEF Typed, TypeOK
<1> QED
  BY <1>2, FaultTyped, StayTyped

LEMMA CheckTyped ==
  ASSUME Typed, NEW q \in Req, Check(q)
  PROVE  Typed'
<1>1. Works
  BY DEF Check, Works
<1>2. UNCHANGED <<table, host, file, history, goal, nRequests, nReboots>>
  BY DEF Check
<1>3. CASE Finish(q, "error")
  BY <1>1, <1>2, <1>3, FinishTyped, OthersTyped
<1>4. CASE Goto(q, "commit") /\ UNCHANGED op
  <2>1. op[q] \in Operation /\ pc' = [pc EXCEPT ![q] = "commit"] /\ op' = [op EXCEPT ![q] = op[q]]
    BY <1>4 DEF Goto, Typed, TypeOK
  <2>2. pc'[q] = "commit" /\ op'[q] = op[q] /\ pc[q] = "check" /\ Carries(q)
    BY <2>1 DEF Check, Typed, TypeOK
  <2>3. Carries(q)'
    BY <2>2 DEF Carries
  <2> QED
    BY <1>1, <1>2, <2>1, <2>3, MoveTyped, OthersTyped DEF Stage
<1> QED
  BY <1>3, <1>4 DEF Check

LEMMA CommitTyped ==
  ASSUME Typed, NEW q \in Req, Commit(q)
  PROVE  Typed'
<1> DEFINE n == IF op[q].kind = "create" THEN nRows + 1 ELSE op[q].id
           seen == (CHOOSE c \in op[q].seen : TRUE).row
           value == CASE op[q].kind = "create" -> op[q].new
                      [] op[q].kind = "delete" -> None
                      [] OTHER -> Emitted(seen, op[q].new, rows[n])
<1>1. /\ Works /\ pc[q] = "commit" /\ op[q] \in Operation /\ nRows \in Nat
      /\ rows \in [Row -> NetworkInterface \cup {None}]
      /\ UNCHANGED <<host, file, history, goal, nRequests, nReboots>>
  BY DEF Commit, Works, Typed, TypeOK
<1>2. /\ op[q].kind \in {"create", "update", "delete"}
      /\ op[q].kind \in {"create", "update"} => op[q].new \in NetworkInterface
      /\ op[q].kind # "create" => op[q].id \in Row
      /\ op[q].kind = "update" => op[q].seen # {}
  BY <1>1 DEF Typed, Carries
<1>3. ASSUME rows' \in [Row -> NetworkInterface \cup {None}], nRows' \in Nat,
             Finish(q, "ok")
      PROVE  Typed'
  <2>1. /\ Host' = Host /\ file' = file /\ solo' = solo
        /\ before' = before /\ goal' = goal /\ nRequests' = nRequests /\ nReboots' = nReboots
    BY <1>1 DEF host, history, Host
  <2>2. /\ Host' \in Hosts /\ before' \in Hosts /\ file' \in File \cup {None}
        /\ solo' \in Req \cup {None} /\ goal' \subseteq NetworkInterface
        /\ nRequests' \in 0 .. MaxRequests /\ nReboots' \in 0 .. MaxReboots
    BY <2>1 DEF Typed, TypeOK
  <2>3. nFaults' \in 0 .. MaxFaults
    BY <1>1, FaultTyped
  <2> QED
    BY <1>3, <2>2, <2>3, FinishTyped, StayTyped
<1>4. CASE /\ op[q].kind = "update" => n \in Ids
           /\ rows' = [rows EXCEPT ![n] = value]
           /\ nRows' = IF n > nRows THEN n ELSE nRows
           /\ Finish(q, "ok")
  <2>1. n \in Row => value \in NetworkInterface \cup {None}
    <3>1. CASE op[q].kind = "create"
      BY <1>2, <3>1
    <3>2. CASE op[q].kind = "delete"
      BY <3>2
    <3>3. CASE op[q].kind = "update"
      <4>1. seen \in NetworkInterface
        BY <1>1, <1>2, <3>3 DEF Operation
      <4>2. rows[n] \in NetworkInterface
        BY <1>1, <1>4, <3>3 DEF Ids
      <4>3. value = Emitted(seen, op[q].new, rows[n])
        BY <3>3
      <4> HIDE DEF value, seen
      <4> QED
        BY <1>2, <3>3, <4>1, <4>2, <4>3, EmittedType
    <3> QED
      BY <1>2, <3>1, <3>2, <3>3
  <2>2. rows' \in [Row -> NetworkInterface \cup {None}]
    <3> HIDE DEF value, n
    <3> QED
      BY <1>1, <1>4, <2>1
  <2>3. nRows' \in Nat
    <3>1. n \in Nat
      <4> HIDE DEF value, seen
      <4>1. CASE op[q].kind = "create"
        BY <1>1, <4>1
      <4>2. CASE op[q].kind # "create"
        <5>1. n = op[q].id /\ op[q].id \in Row
          BY <1>2, <4>2
        <5> HIDE DEF n
        <5> QED
          BY <5>1, RowType
      <4> QED
        BY <4>1, <4>2
    <3> QED
      BY <1>1, <1>4, <3>1
  <2> QED
    BY <1>3, <1>4, <2>2, <2>3
<1>5. CASE Finish(q, "error") /\ UNCHANGED table
  BY <1>1, <1>5, FinishTyped, OthersTyped
<1> QED
  BY <1>4, <1>5 DEF Commit

LEMMA DiscoverTyped ==
  ASSUME Typed, NEW q \in Req, Discover(q)
  PROVE  Typed'
<1>1. UNCHANGED <<table, host, file, history, goal, nRequests, nReboots>> /\ op[q] \in Operation
  BY DEF Discover, Typed, TypeOK
<1>2. CASE Works /\ pc[q] = "addresses" /\ Goto(q, "route") /\ op' = [op EXCEPT ![q].live = Host]
  <2> DEFINE o == [op[q] EXCEPT !.live = Host]
  <2>1. Host \in Hosts /\ op[q].kind \in {"refresh", "apply"}
    BY <1>2 DEF Typed, TypeOK, Carries
  <2>2. o \in Operation /\ o.live = Host /\ o.kind = op[q].kind /\ o.plan = op[q].plan
    BY <1>1, <2>1 DEF Operation
  <2>3. pc' = [pc EXCEPT ![q] = "route"] /\ op' = [op EXCEPT ![q] = o]
    BY <1>2 DEF Goto, Typed, TypeOK
  <2>4. pc'[q] = "route" /\ op'[q] = o /\ Carries(q)
    BY <2>3 DEF Typed, TypeOK
  <2> HIDE DEF o
  <2>5. Carries(q)'
    BY <2>1, <2>2, <2>4 DEF Carries
  <2> QED
    BY <1>1, <1>2, <2>2, <2>3, <2>5, MoveTyped, OthersTyped DEF Stage
<1>3. CASE /\ Works /\ pc[q] = "route"
           /\ Goto(q, IF op[q].kind = "apply" THEN "plan" ELSE "upsert")
           /\ op' = [op EXCEPT ![q].live.default = default]
  <2> DEFINE o == [op[q] EXCEPT !.live = [op[q].live EXCEPT !.default = default]]
             stage == IF op[q].kind = "apply" THEN "plan" ELSE "upsert"
  <2>1. op[q].live \in Hosts /\ op[q].kind \in {"refresh", "apply"}
    BY <1>3 DEF Typed, Carries
  <2>2. [op[q].live EXCEPT !.default = default] \in Hosts
    BY <2>1, HostTyped DEF Hosts, Typed, TypeOK
  <2>3. o \in Operation /\ o.live \in Hosts /\ o.kind = op[q].kind /\ o.plan = op[q].plan
    BY <1>1, <2>2 DEF Operation
  <2>4. pc' = [pc EXCEPT ![q] = stage] /\ op' = [op EXCEPT ![q] = o]
    BY <1>3 DEF Goto, Typed, TypeOK
  <2>5. pc'[q] = stage /\ op'[q] = o /\ Carries(q)
    BY <2>4 DEF Typed, TypeOK
  <2> HIDE DEF o
  <2>6. Carries(q)'
    BY <2>1, <2>3, <2>5 DEF Carries
  <2> QED
    BY <1>1, <1>3, <2>3, <2>4, <2>6, MoveTyped, OthersTyped DEF Stage
<1>4. CASE Fault /\ Finish(q, "error")
  BY <1>1, <1>4, FinishTyped, OthersTyped
<1> QED
  BY <1>2, <1>3, <1>4 DEF Discover

LEMMA ReadRowsTyped ==
  ASSUME Typed, NEW q \in Req, ReadRows(q)
  PROVE  Typed'
<1> DEFINE o == [op[q] EXCEPT !.seen = Known(Ids)]
<1>1. /\ UNCHANGED <<table, host, file, history, goal, nRequests, nReboots>> /\ Works
      /\ op[q] \in Operation /\ pc[q] = "upsert"
  BY DEF ReadRows, Works, Typed, TypeOK
<1>2. Known(Ids) \in SUBSET [id : Row, row : NetworkInterface]
  BY KnownType DEF Typed
<1>3. o \in Operation /\ o.kind = op[q].kind /\ o.plan = op[q].plan /\ o.live = op[q].live
  BY <1>1, <1>2 DEF Operation
<1>4. pc' = [pc EXCEPT ![q] = "rows"] /\ op' = [op EXCEPT ![q] = o]
  BY DEF ReadRows, Goto, Typed, TypeOK
<1>5. pc'[q] = "rows" /\ op'[q] = o /\ Carries(q)
  BY <1>4 DEF Typed, TypeOK
<1> HIDE DEF o
<1>6. Carries(q)'
  BY <1>1, <1>3, <1>5 DEF Carries
<1> QED
  BY <1>1, <1>3, <1>4, <1>6, MoveTyped, OthersTyped DEF Stage
LEMMA UpsertRowsTyped ==
  ASSUME Typed, NEW q \in Req, UpsertRows(q)
  PROVE  Typed'
<1>1. /\ Works /\ pc[q] = "rows" /\ op[q] \in Operation /\ op[q].live \in Hosts
      /\ rows \in [Row -> NetworkInterface \cup {None}] /\ nRows \in Nat
      /\ UNCHANGED <<host, file, history, goal, nRequests, nReboots>>
  BY DEF UpsertRows, Works, Typed, TypeOK, Carries
<1>2. PICK known \in ByName(op[q].seen) :
        LET new   == SetToSeq(Iface \ {c.row.iface : c \in known})
            Found(n) == {c.row : c \in {d \in known : d.id = n}}
            Differs(n) == \E row \in Found(n) : Refreshed(q, row) # row
            Fresh(i) == Refreshed(q, [iface |-> i, dhcp |-> TRUE, addr |-> None, gw |-> FALSE,
                                      enabled |-> TRUE])
        IN
        IF \E n \in Row \ Ids : Differs(n)
        THEN Finish(q, "error") /\ UNCHANGED table
        ELSE /\ Finish(q, "ok")
             /\ nRows' = nRows + Len(new)
             /\ rows' = [n \in Row |->
                  IF n - nRows \in DOMAIN new THEN Fresh(new[n - nRows])
                  ELSE IF n \in Ids /\ Differs(n)
                  THEN LET row == CHOOSE c \in Found(n) : TRUE
                       IN  Emitted(row, Refreshed(q, row), rows[n])
                  ELSE rows[n]]
  BY DEF UpsertRows
<1> DEFINE left == Iface \ {c.row.iface : c \in known}
           new  == SetToSeq(left)
           Found(n) == {c.row : c \in {d \in known : d.id = n}}
           Differs(n) == \E row \in Found(n) : Refreshed(q, row) # row
           Fresh(i) == Refreshed(q, [iface |-> i, dhcp |-> TRUE, addr |-> None, gw |-> FALSE,
                                     enabled |-> TRUE])
           Old(n) == CHOOSE c \in Found(n) : TRUE
           Value(n) == IF n - nRows \in DOMAIN new THEN Fresh(new[n - nRows])
                       ELSE IF n \in Ids /\ Differs(n)
                       THEN Emitted(Old(n), Refreshed(q, Old(n)), rows[n])
                       ELSE rows[n]
<1>3. known \subseteq [id : Row, row : NetworkInterface]
  BY <1>1 DEF ByName, Operation
<1>4. ASSUME NEW row \in NetworkInterface PROVE Refreshed(q, row) \in NetworkInterface
  <2> DEFINE here == op[q].live.addrs[row.iface]
             addr == IF here = {} THEN None ELSE CHOOSE a \in here : TRUE
             gw == (op[q].live.default = row.iface)
  <2>1. here \subseteq Address
    BY <1>1 DEF Hosts, NetworkInterface
  <2>2. addr \in Address \cup {None} /\ gw \in BOOLEAN
    BY <2>1
  <2>3. Refreshed(q, row) = [row EXCEPT !.addr = addr, !.gw = gw]
    BY DEF Refreshed
  <2> HIDE DEF addr, gw
  <2> QED
    BY <2>2, <2>3 DEF NetworkInterface
<1>5. \A n : Found(n) \subseteq NetworkInterface
  BY <1>3
<1>6. new \in [1 .. Cardinality(left) -> left] /\ Len(new) \in Nat
  <2>1. IsFiniteSet(left)
    BY RowsAssumption, FS_Subset
  <2> HIDE DEF left
  <2> QED
    BY <2>1, SequenceType
<1>7. ASSUME NEW i \in Iface PROVE Fresh(i) \in NetworkInterface
  <2>1. [iface |-> i, dhcp |-> TRUE, addr |-> None, gw |-> FALSE, enabled |-> TRUE]
          \in NetworkInterface
    BY DEF NetworkInterface
  <2> QED
    BY <2>1, <1>4
<1>8. ASSUME NEW n \in Row PROVE Value(n) \in NetworkInterface \cup {None}
  <2>1. CASE n - nRows \notin DOMAIN new /\ n \in Ids /\ Differs(n)
    <3>1. Old(n) \in NetworkInterface /\ rows[n] \in NetworkInterface
      BY <1>1, <1>5, <2>1 DEF Ids
    <3>2. Refreshed(q, Old(n)) \in NetworkInterface
      BY <1>4, <3>1
    <3>3. Value(n) = Emitted(Old(n), Refreshed(q, Old(n)), rows[n])
      BY <2>1
    <3> HIDE DEF Old, Value
    <3> QED
      BY <3>1, <3>2, <3>3, EmittedType
  <2>2. CASE n - nRows \in DOMAIN new
    <3>1. Value(n) = Fresh(new[n - nRows])
      BY <2>2
    <3>2. new[n - nRows] \in Iface
      <4> HIDE DEF new
      <4>1. new[n - nRows] \in left
        BY <1>6, <2>2
      <4> QED
        BY <4>1
    <3> HIDE DEF Value, Fresh, new
    <3> QED
      BY <1>7, <3>1, <3>2
  <2>3. CASE ~(n \in Ids /\ Differs(n)) /\ n - nRows \notin DOMAIN new
    <3>1. Value(n) = rows[n]
      BY <2>3
    <3> QED
      BY <1>1, <3>1
  <2> QED
    BY <2>1, <2>2, <2>3
<1>9. CASE Finish(q, "error") /\ UNCHANGED table
  BY <1>1, <1>9, FinishTyped, OthersTyped
<1>10. CASE Finish(q, "ok") /\ nRows' = nRows + Len(new) /\ rows' = [n \in Row |-> Value(n)]
  <2> HIDE DEF Value, new
  <2>1. rows' \in [Row -> NetworkInterface \cup {None}] /\ nRows' \in Nat
    BY <1>1, <1>6, <1>8, <1>10
  <2>2. /\ Host' = Host /\ file' = file /\ solo' = solo
        /\ before' = before /\ goal' = goal /\ nRequests' = nRequests /\ nReboots' = nReboots
    BY <1>1 DEF host, history, Host
  <2>3. /\ Host' \in Hosts /\ before' \in Hosts /\ file' \in File \cup {None}
        /\ solo' \in Req \cup {None} /\ goal' \subseteq NetworkInterface
        /\ nRequests' \in 0 .. MaxRequests /\ nReboots' \in 0 .. MaxReboots
    BY <2>2 DEF Typed, TypeOK
  <2>4. nFaults' \in 0 .. MaxFaults
    BY <1>1, FaultTyped
  <2> QED
    BY <1>10, <2>1, <2>3, <2>4, FinishTyped, StayTyped
<1> QED
  BY <1>2, <1>9, <1>10
LEMMA PlanChangesTyped ==
  ASSUME Typed, NEW q \in Req, PlanChanges(q)
  PROVE  Typed'
<1> DEFINE refused(old) == Impossible(q) \/ GuardPlan(q, Plan(q)) \/ Guardrails(q, Plan(q), old)
           stage == IF op[q].try \/ Plan(q) = {} THEN "file" ELSE "steps"
           o == [op[q] EXCEPT !.plan = Plan(q)]
<1>1. /\ pc[q] = "plan" /\ op[q] \in Operation /\ op[q].live \in Hosts /\ op[q].kind = "apply"
      /\ UNCHANGED <<table, host, file, history, goal, nRequests, nReboots>>
  BY DEF PlanChanges, Typed, TypeOK, Carries
<1>2. PICK old \in {file, None} :
        \/ /\ ReadExisting(old)
           /\ IF refused(old) THEN Finish(q, "error")
              ELSE op' = [op EXCEPT ![q].plan = Plan(q)] /\ Goto(q, stage)
        \/ ~refused(old) /\ SnapshotFails(q)
  BY DEF PlanChanges
<1>3. Fault \/ Works
  BY <1>2 DEF ReadExisting, SnapshotFails
<1>4. CASE Finish(q, "error")
  BY <1>1, <1>3, <1>4, FinishTyped, OthersTyped
<1>5. CASE op' = [op EXCEPT ![q].plan = Plan(q)] /\ Goto(q, stage)
  <2>1. /\ Plan(q) \subseteq Step
        /\ \A s \in Plan(q) : s.action \in {"address", "stale"} => s.addr \in Address
    BY <1>1, PlanType DEF Typed
  <2>2. o \in Operation /\ o.kind = "apply" /\ o.plan = Plan(q) /\ o.live = op[q].live
    BY <1>1, <2>1 DEF Operation
  <2>3. pc' = [pc EXCEPT ![q] = stage] /\ op' = [op EXCEPT ![q] = o]
    BY <1>5 DEF Goto, Typed, TypeOK
  <2>4. pc'[q] = stage /\ op'[q] = o /\ stage \in {"file", "steps"}
    BY <2>3 DEF Typed, TypeOK
  <2> HIDE DEF o, stage
  <2>5. Carries(q)'
    BY <1>1, <2>1, <2>2, <2>4 DEF Carries
  <2> QED
    BY <1>1, <1>3, <2>2, <2>3, <2>4, <2>5, MoveTyped, OthersTyped DEF Stage
<1> QED
  BY <1>2, <1>4, <1>5 DEF SnapshotFails

\* A command leaves a host.
LEMMA KernelType ==
  ASSUME Typed, NEW s \in Step, Kernel(s),
         s.action \in {"address", "stale"} => s.addr \in Address
  PROVE  Host' \in Hosts
<1>1. /\ addrs \in [Iface -> SUBSET Address] /\ up \in [Iface -> BOOLEAN]
      /\ default \in Iface \cup {None} /\ s.iface \in Iface
  BY HostTyped DEF Typed, TypeOK, Step
<1>2. addrs' \in [Iface -> SUBSET Address]
  BY <1>1 DEF Kernel
<1>3. up' \in [Iface -> BOOLEAN]
  BY <1>1 DEF Kernel
<1>4. default' \in Iface \cup {None}
  BY <1>1 DEF Kernel, Flushed
<1> QED
  BY <1>2, <1>3, <1>4, HostType

\* The rest of the state when the host or the file may change too.
LEMMA ChangedTyped ==
  ASSUME Typed, NEW q \in Req,
         pc' \in [Req -> Stage], op' \in [Req -> Operation], \A r \in Req : Carries(r)',
         UNCHANGED <<table, nRequests>>, Host' \in Hosts, file' \in File \cup {None},
         solo' \in Req \cup {None}, before' = before, goal' \subseteq NetworkInterface,
         Fault \/ Works, nReboots' \in 0 .. MaxReboots
  PROVE  Typed'
<1>1. rows' = rows /\ nRows' = nRows /\ nRequests' = nRequests
  BY DEF table
<1>2. /\ rows' \in [Row -> NetworkInterface \cup {None}] /\ nRows' \in Nat
      /\ before' \in Hosts /\ nRequests' \in 0 .. MaxRequests
  BY <1>1 DEF Typed, TypeOK
<1> QED
  BY <1>2, FaultTyped, StayTyped

LEMMA HostUnchanged ==
  ASSUME Typed, UNCHANGED host
  PROVE  Host' = Host /\ Host' \in Hosts
BY DEF host, Host, Typed, TypeOK

LEMMA RunStepTyped ==
  ASSUME Typed, NEW q \in Req, RunStep(q)
  PROVE  Typed'
<1>1. /\ pc[q] = "steps" /\ op[q] \in Operation /\ op[q].live \in Hosts /\ op[q].kind = "apply"
      /\ UNCHANGED <<table, file, history, goal, nRequests, nReboots>> /\ op[q].plan \subseteq Step
  BY OperationTyped DEF RunStep, Typed, TypeOK, Carries
<1>2. PICK s \in Due(q), ok \in BOOLEAN :
        /\ IF ok THEN Possible(s) /\ Works /\ Kernel(s)
           ELSE (IF Possible(s) THEN Fault ELSE Works) /\ UNCHANGED host
        /\ op' = [op EXCEPT ![q].plan = @ \ {s}, ![q].at = s.iface, ![q].ok = @ /\ ok]
        /\ IF op[q].plan = {s} THEN Goto(q, "file") ELSE UNCHANGED pc
  BY DEF RunStep
<1>3. s \in op[q].plan /\ s \in Step /\ s.iface \in Iface
  BY <1>1 DEF Due, Step
<1> DEFINE stage == IF op[q].plan = {s} THEN "file" ELSE "steps"
           o == [op[q] EXCEPT !.plan = op[q].plan \ {s}, !.at = s.iface, !.ok = op[q].ok /\ ok]
<1>4. o \in Operation /\ o.kind = "apply" /\ o.plan \subseteq op[q].plan /\ o.live = op[q].live
  <2>1. (op[q].ok /\ ok) \in BOOLEAN /\ op[q].plan \ {s} \in SUBSET Step
    BY <1>1
  <2> QED
    BY <1>1, <1>3, <2>1 DEF Operation
<1>5. pc' = [pc EXCEPT ![q] = stage] /\ op' = [op EXCEPT ![q] = o]
  BY <1>1, <1>2 DEF Goto, Typed, TypeOK
<1>6. pc'[q] = stage /\ op'[q] = o /\ stage \in {"file", "steps"}
  BY <1>5 DEF Typed, TypeOK
<1>7. Host' \in Hosts
  <2>1. s.action \in {"address", "stale"} => s.addr \in Address
    BY <1>3 DEF Typed, Carries
  <2> QED
    BY <1>2, <1>3, <2>1, KernelType, HostUnchanged
<1>8. Fault \/ Works
  BY <1>2
<1> HIDE DEF o, stage
<1>9. Carries(q)'
  BY <1>1, <1>4, <1>6 DEF Carries, Typed
<1>10. /\ file' \in File \cup {None} /\ before' = before /\ solo' \in Req \cup {None}
       /\ goal' \subseteq NetworkInterface /\ nReboots' \in 0 .. MaxReboots
       /\ UNCHANGED <<table, nRequests>>
  BY <1>1 DEF Typed, TypeOK, history
<1> QED
  BY <1>4, <1>5, <1>6, <1>7, <1>8, <1>9, <1>10, MoveTyped, ChangedTyped DEF Stage

LEMMA WriteNetplanTyped ==
  ASSUME Typed, NEW q \in Req, WriteNetplan(q)
  PROVE  Typed'
<1>1. UNCHANGED <<table, host, history, nRequests, nReboots>> /\ (Fault \/ Works)
  BY DEF WriteNetplan
<1>2. Finish(q, "ok") \/ Finish(q, "error")
  BY DEF WriteNetplan
<1>3. file' \in File \cup {None}
  BY RenderedType DEF WriteNetplan, Persisted, Typed, TypeOK
<1>4. goal' \subseteq NetworkInterface
  BY OperationTyped DEF WriteNetplan, Typed, TypeOK
<1>5. /\ before' = before /\ solo' \in Req \cup {None} /\ nReboots' \in 0 .. MaxReboots
      /\ UNCHANGED <<table, nRequests>>
  BY <1>1 DEF Typed, TypeOK, history
<1> QED
  BY <1>1, <1>2, <1>3, <1>4, <1>5, FinishTyped, HostUnchanged, ChangedTyped

LEMMA TryWriteTyped ==
  ASSUME Typed, NEW q \in Req, TryWrite(q)
  PROVE  Typed'
<1>1. /\ UNCHANGED <<table, host, history, goal, nRequests, nReboots>> /\ (Fault \/ Works)
      /\ pc[q] = "file" /\ op[q] \in Operation
  BY DEF TryWrite, Typed, TypeOK
<1>2. file' \in File \cup {None}
  BY RenderedType DEF TryWrite, Persisted, Typed, TypeOK
<1>3. /\ before' = before /\ solo' \in Req \cup {None} /\ nReboots' \in 0 .. MaxReboots
      /\ UNCHANGED <<table, nRequests>> /\ goal' \subseteq NetworkInterface
  BY <1>1 DEF Typed, TypeOK, history
<1>4. CASE Finish(q, "error")
  BY <1>1, <1>2, <1>3, <1>4, FinishTyped, HostUnchanged, ChangedTyped
<1>5. CASE Goto(q, "try") /\ UNCHANGED op
  <2>1. pc' = [pc EXCEPT ![q] = "try"] /\ op' = [op EXCEPT ![q] = op[q]]
    BY <1>5 DEF Goto, Typed, TypeOK
  <2>2. pc'[q] = "try" /\ op'[q] = op[q] /\ Carries(q)
    BY <2>1 DEF Typed, TypeOK
  <2>3. Carries(q)'
    BY <1>1, <2>2 DEF Carries
  <2> QED
    BY <1>1, <1>2, <1>3, <2>1, <2>3, MoveTyped, HostUnchanged, ChangedTyped DEF Stage
<1> QED
  BY <1>4, <1>5 DEF TryWrite

LEMMA BecomesType ==
  ASSUME Typed, Becomes(Networks(file))
  PROVE  Host' \in Hosts
BY NetworksType, HostType DEF Becomes, Typed, TypeOK

LEMMA NetplanTryTyped ==
  ASSUME Typed, NEW q \in Req, NetplanTry(q)
  PROVE  Typed'
<1> DEFINE o == [op[q] EXCEPT !.trial = "starting"]
<1>1. /\ UNCHANGED <<table, host, file, history, goal, nRequests, nReboots>>
      /\ pc[q] = "try" /\ op[q] \in Operation /\ Carries(q) /\ (Fault \/ Works)
  BY DEF NetplanTry, Typed, TypeOK
<1>2. CASE Finish(q, "error")
  BY <1>1, <1>2, FinishTyped, OthersTyped
<1>3. CASE Works /\ Goto(q, "probe") /\ op' = [op EXCEPT ![q].trial = "starting"]
  <2>1. o \in Operation /\ o.live = op[q].live /\ o.kind = op[q].kind /\ o.plan = op[q].plan
    BY <1>1 DEF Operation, Trial
  <2>2. pc' = [pc EXCEPT ![q] = "probe"] /\ op' = [op EXCEPT ![q] = o]
    BY <1>3 DEF Goto, Typed, TypeOK
  <2>3. pc'[q] = "probe" /\ op'[q] = o
    BY <2>2 DEF Typed, TypeOK
  <2> HIDE DEF o
  <2>4. Carries(q)'
    BY <1>1, <2>1, <2>3 DEF Carries
  <2> QED
    BY <1>1, <1>3, <2>1, <2>2, <2>4, MoveTyped, OthersTyped DEF Stage
<1> QED
  BY <1>2, <1>3 DEF NetplanTry

\* The steps of a try, by its request and by netplan: what none of them changes.
TrialStep(q) ==
  \/ Probe(q) \/ Confirm(q)
  \/ NetplanApplies(q) \/ NetplanAccepts(q) \/ NetplanReverts(q)

LEMMA TrialIs ==
  ASSUME Typed, NEW q \in Req, TrialStep(q)
  PROVE  /\ Tries(q) /\ pc'[q] \in {"confirm", "wait", pc[q]} /\ Tries(q)'
         /\ pc' = [pc EXCEPT ![q] = pc'[q]] /\ op' = [op EXCEPT ![q] = op'[q]]
         /\ op[q] \in Operation /\ op'[q] \in Operation
         /\ op'[q].kind = op[q].kind /\ op'[q].try = op[q].try /\ op'[q].plan = op[q].plan
         /\ op'[q].live \in {op[q].live, Host}
         /\ \/ UNCHANGED host
            \/ Becomes(Networks(file))
            \/ /\ op[q].trial = "waiting" /\ addrs' = op[q].live.addrs
               /\ up' = op[q].live.up /\ default' = op[q].live.default
         /\ op'[q].trial = "waiting" =>
              \/ op[q].trial = "waiting" /\ UNCHANGED host /\ op'[q].live = op[q].live
              \/ Becomes(Networks(file)) /\ op'[q].live = Host
         /\ UNCHANGED <<table, file, history, goal, nRequests, nReboots>>
         /\ Fault \/ Works
<1>1. /\ pc \in [Req -> Stage] /\ op \in [Req -> Operation] /\ op[q] \in Operation
      /\ Host \in Hosts
  BY DEF Typed, TypeOK
<1>2. CASE Probe(q)
  <2>1. PICK pass \in BOOLEAN :
          op' = [op EXCEPT ![q].ok = pass, ![q].early = (op[q].trial = "starting")]
    BY <1>2 DEF Probe
  <2> DEFINE o == [op[q] EXCEPT !.ok = pass, !.early = (op[q].trial = "starting")]
  <2>2. op' = [op EXCEPT ![q] = o] /\ op'[q] = o
    BY <1>1, <2>1
  <2>3. /\ o \in Operation /\ o.kind = op[q].kind /\ o.try = op[q].try
        /\ o.plan = op[q].plan /\ o.live = op[q].live /\ o.trial = op[q].trial
    BY <1>1 DEF Operation
  <2>4. /\ pc[q] = "probe" /\ pc' = [pc EXCEPT ![q] = "confirm"] /\ UNCHANGED host
        /\ UNCHANGED <<table, file, history, goal, nRequests, nReboots>> /\ (Fault \/ Works)
    BY <1>2 DEF Probe, Goto
  <2>5. pc'[q] = "confirm"
    BY <1>1, <2>4
  <2> HIDE DEF o
  <2> QED
    BY <1>1, <2>2, <2>3, <2>4, <2>5 DEF Tries
<1>3. CASE Confirm(q)
  <2>1. /\ pc[q] = "confirm" /\ pc' = [pc EXCEPT ![q] = "wait"] /\ pc'[q] = "wait"
        /\ op' = op /\ UNCHANGED host
        /\ UNCHANGED <<table, file, history, goal, nRequests, nReboots>> /\ Works
    BY <1>1, <1>3 DEF Confirm, Goto, Works
  <2> QED
    BY <1>1, <2>1 DEF Tries
<1>4. CASE NetplanApplies(q)
  <2>1. /\ Tries(q) /\ pc' = pc /\ (Fault \/ Works)
        /\ UNCHANGED <<table, file, history, goal, nRequests, nReboots>>
    BY <1>4 DEF NetplanApplies
  <2>2. CASE /\ Becomes(Networks(file))
             /\ op' = [op EXCEPT ![q].trial = "waiting", ![q].live = Host]
    <3> DEFINE o == [op[q] EXCEPT !.trial = "waiting", !.live = Host]
    <3>1. op' = [op EXCEPT ![q] = o] /\ op'[q] = o
      BY <1>1, <2>2
    <3>2. /\ o \in Operation /\ o.kind = op[q].kind /\ o.try = op[q].try
          /\ o.plan = op[q].plan /\ o.live = Host
      BY <1>1 DEF Operation, Trial
    <3> HIDE DEF o
    <3> QED
      BY <1>1, <2>1, <2>2, <3>1, <3>2 DEF Tries
  <2>3. CASE UNCHANGED host /\ op' = [op EXCEPT ![q].trial = "failed"]
    <3> DEFINE o == [op[q] EXCEPT !.trial = "failed"]
    <3>1. op' = [op EXCEPT ![q] = o] /\ op'[q] = o
      BY <1>1, <2>3
    <3>2. /\ o \in Operation /\ o.kind = op[q].kind /\ o.try = op[q].try
          /\ o.plan = op[q].plan /\ o.live = op[q].live /\ o.trial = "failed"
      BY <1>1 DEF Operation, Trial
    <3> HIDE DEF o
    <3> QED
      BY <1>1, <2>1, <2>3, <3>1, <3>2 DEF Tries
  <2> QED
    BY <1>4, <2>2, <2>3 DEF NetplanApplies
<1>5. CASE NetplanAccepts(q)
  <2> DEFINE o == [op[q] EXCEPT !.trial = "accepted"]
  <2>1. /\ pc[q] = "wait" /\ pc' = pc /\ Works /\ UNCHANGED host
        /\ UNCHANGED <<table, file, history, goal, nRequests, nReboots>>
    BY <1>5 DEF NetplanAccepts, Works
  <2>2. op' = [op EXCEPT ![q] = o] /\ op'[q] = o
    BY <1>1, <1>5 DEF NetplanAccepts
  <2>3. /\ o \in Operation /\ o.kind = op[q].kind /\ o.try = op[q].try
        /\ o.plan = op[q].plan /\ o.live = op[q].live /\ o.trial = "accepted"
    BY <1>1 DEF Operation, Trial
  <2> HIDE DEF o
  <2> QED
    BY <1>1, <2>1, <2>2, <2>3 DEF Tries
<1>6. CASE NetplanReverts(q)
  <2> DEFINE o == [op[q] EXCEPT !.trial = "reverted"]
  <2>1. /\ Tries(q) /\ pc' = pc /\ (Fault \/ Works) /\ op[q].trial = "waiting"
        /\ addrs' = op[q].live.addrs /\ up' = op[q].live.up /\ default' = op[q].live.default
        /\ UNCHANGED <<table, file, history, goal, nRequests, nReboots>>
    BY <1>6 DEF NetplanReverts
  <2>2. op' = [op EXCEPT ![q] = o] /\ op'[q] = o
    BY <1>1, <1>6 DEF NetplanReverts
  <2>3. /\ o \in Operation /\ o.kind = op[q].kind /\ o.try = op[q].try
        /\ o.plan = op[q].plan /\ o.live = op[q].live /\ o.trial = "reverted"
    BY <1>1 DEF Operation, Trial
  <2> HIDE DEF o
  <2> QED
    BY <1>1, <2>1, <2>2, <2>3 DEF Tries
<1> QED
  BY <1>2, <1>3, <1>4, <1>5, <1>6 DEF TrialStep

LEMMA TrialTyped ==
  ASSUME Typed, NEW q \in Req, TrialStep(q)
  PROVE  Typed'
<1> DEFINE stage == pc'[q]
           o == op'[q]
<1>1. /\ pc' = [pc EXCEPT ![q] = stage] /\ op' = [op EXCEPT ![q] = o]
      /\ o \in Operation /\ pc[q] \in {"probe", "confirm", "wait"} /\ (Fault \/ Works)
      /\ stage \in {"probe", "confirm", "wait"} /\ o.kind = op[q].kind
      /\ o.plan = op[q].plan /\ o.live \in {op[q].live, Host}
      /\ UNCHANGED <<table, file, history, goal, nRequests, nReboots>>
  BY TrialIs DEF Tries
<1>2. Carries(q) /\ op[q].live \in Hosts /\ Host \in Hosts
  BY <1>1 DEF Typed, TypeOK, Carries
<1>3. Carries(q)'
  BY <1>1, <1>2 DEF Carries
<1>4. /\ before' = before /\ solo' \in Req \cup {None} /\ nReboots' \in 0 .. MaxReboots
      /\ UNCHANGED <<table, nRequests>> /\ goal' \subseteq NetworkInterface
      /\ file' \in File \cup {None}
  BY <1>1 DEF Typed, TypeOK, history
<1>5. Host' \in Hosts
  <2>1. CASE UNCHANGED host
    BY <2>1, HostUnchanged
  <2>2. CASE Becomes(Networks(file))
    BY <2>2, BecomesType
  <2>3. CASE addrs' = op[q].live.addrs /\ up' = op[q].live.up /\ default' = op[q].live.default
    BY <1>2, <2>3, HostType DEF Hosts
  <2> QED
    BY <2>1, <2>2, <2>3, TrialIs
<1>6. stage \in Stage
  BY <1>1 DEF Stage
<1> HIDE DEF stage, o
<1> QED
  BY <1>1, <1>3, <1>4, <1>5, <1>6, MoveTyped, ChangedTyped

LEMMA VerdictIs ==
  ASSUME NEW q \in Req, Verdict(q)
  PROVE  /\ pc[q] = "wait" /\ (Fault \/ Works)
         /\ \/ op[q].ok /\ op[q].trial = "accepted" /\ Finish(q, "ok")
            \/ ~op[q].ok /\ Finish(q, "reverted")
            \/ op[q].trial # "accepted" /\ Finish(q, "error")
         /\ UNCHANGED <<table, host, file, history, goal, nRequests, nReboots>>
BY DEF Verdict

LEMMA VerdictTyped ==
  ASSUME Typed, NEW q \in Req, Verdict(q)
  PROVE  Typed'
BY VerdictIs, FinishTyped, OthersTyped

LEMMA RebootTyped ==
  ASSUME Typed, Reboot
  PROVE  Typed'
<1>1. /\ pc' = [q \in Req |-> "idle"]
      /\ op' = [q \in Req |-> IF q \in Running THEN Rest ELSE op[q]]
      /\ UNCHANGED <<table, file, before, goal, nRequests, nFaults>> /\ solo' = None
  BY DEF Reboot
<1>2. pc' \in [Req -> Stage] /\ op' \in [Req -> Operation]
  BY <1>1, RestType DEF Stage, Typed, TypeOK
<1>3. ASSUME NEW q \in Req PROVE Carries(q)'
  <2>1. pc'[q] = "idle" /\ op'[q] \in {Rest, op[q]} /\ Carries(q)
    BY <1>1 DEF Typed
  <2>2. Rest.plan = {}
    BY DEF Rest
  <2>3. \A s \in op'[q].plan : s.action \in {"address", "stale"} => s.addr \in Address
    BY <2>1, <2>2 DEF Carries
  <2> QED
    BY <2>1, <2>3 DEF Carries
<1>4. nReboots' \in 0 .. MaxReboots
  BY NetAssumption DEF Reboot, Typed, TypeOK
<1>5. /\ rows' \in [Row -> NetworkInterface \cup {None}] /\ nRows' \in Nat
      /\ file' \in File \cup {None} /\ before' \in Hosts /\ goal' \subseteq NetworkInterface
      /\ nRequests' \in 0 .. MaxRequests /\ nFaults' \in 0 .. MaxFaults
  BY <1>1 DEF table, Typed, TypeOK
<1>6. Host' \in Hosts
  BY BecomesType DEF Reboot
<1> QED
  BY <1>1, <1>2, <1>3, <1>4, <1>5, <1>6 DEF Typed, TypeOK

LEMMA InitTyped ==
  ASSUME Init
  PROVE  Typed
<1>1. PICK old \in SUBSET Wanted :
        /\ \A c, d \in old : c.iface = d.iface => c = d
        /\ nRows = Cardinality(old)
        /\ rows = [n \in Row |-> IF n \in 1 .. nRows THEN SetToSeq(old)[n] ELSE None]
  BY DEF Init
<1>2. IsFiniteSet(old)
  <2> DEFINE f == [c \in old |-> c.iface]
  <2>1. f \in Injection(old, Iface)
    BY <1>1, RowsAssumption DEF Injection, IsInjective, NetworkInterface
  <2> QED
    BY <2>1, RowsAssumption, FS_Injection
<1>3. SetToSeq(old) \in [1 .. nRows -> old] /\ nRows \in Nat
  BY <1>1, <1>2, SequenceType
<1>4. rows \in [Row -> NetworkInterface \cup {None}]
  BY <1>1, <1>3, RowsAssumption
<1>5. Host \in Hosts
  BY NetAssumption DEF Init, Host, Hosts
<1>6. pc \in [Req -> Stage] /\ op \in [Req -> Operation]
  BY RestType DEF Init, Stage
<1>7. TypeOK
  BY <1>3, <1>4, <1>5, <1>6, NetAssumption DEF Init, TypeOK
<1>8. ASSUME NEW q \in Req PROVE Carries(q)
  <2>1. pc[q] = "idle" /\ op[q].plan = {}
    BY DEF Init, Rest
  <2> QED
    BY <2>1 DEF Carries
<1> QED
  BY <1>7, <1>8 DEF Typed

LEMMA NextTyped ==
  ASSUME Typed, [Next]_vars
  PROVE  Typed'
<1>1. ASSUME NEW q \in Req, pc[q] = "idle", nRequests < MaxRequests, Request(q) PROVE Typed'
  BY <1>1, RequestTyped
<1>2. ASSUME NEW q \in Req, Serve(q) PROVE Typed'
  BY <1>2, CheckTyped, CommitTyped, DiscoverTyped, ReadRowsTyped, UpsertRowsTyped,
     PlanChangesTyped, RunStepTyped, WriteNetplanTyped, TryWriteTyped, NetplanTryTyped,
     TrialTyped, VerdictTyped DEF Serve, TrialStep
<1>3. CASE Waiting \/ UNCHANGED vars
  BY <1>3, Unchanged DEF Waiting
<1> QED
  BY <1>1, <1>2, <1>3, RebootTyped DEF Next

\* TypeOK: the rows, the host, the netplan file and what every request has read
\* keep their types, whatever the interleaving.
THEOREM TypeCorrect == Spec => []TypeOK
<1>1. Init => Typed
  BY InitTyped
<1>2. Typed /\ [Next]_vars => Typed'
  BY NextTyped
<1>3. Typed => TypeOK
  BY DEF Typed
<1> QED
  BY <1>1, <1>2, <1>3, PTL DEF Spec
-----------------------------------------------------------------------------
(* The step of one request, and the others.                                 *)

\* An answer keeps of a lone request what it was.
LEMMA FinishIs ==
  ASSUME Typed, NEW q \in Req, NEW word, Finish(q, word)
  PROVE  /\ pc'[q] = "idle" /\ op'[q].plan = {}
         /\ solo = q => /\ op'[q].kind = op[q].kind /\ op'[q].try = op[q].try
                        /\ op'[q].force = op[q].force /\ op'[q].told = word
                        /\ op'[q].trial = op[q].trial /\ op'[q].early = op[q].early
         /\ solo # q => op'[q].kind = "update"
         /\ \A r \in Req : r # q => pc'[r] = pc[r] /\ op'[r] = op[r]
<1> DEFINE o == IF solo # q THEN Rest
                ELSE [Rest EXCEPT !.kind = op[q].kind, !.force = op[q].force,
                                  !.try = op[q].try, !.trial = op[q].trial,
                                  !.early = op[q].early, !.told = word]
<1>1. /\ pc' = [pc EXCEPT ![q] = "idle"] /\ op' = [op EXCEPT ![q] = o]
      /\ pc \in [Req -> Stage] /\ op \in [Req -> Operation]
  BY DEF Finish, Goto, Typed, TypeOK
<1>2. /\ o.plan = {} /\ (solo # q => o.kind = "update")
      /\ solo = q => /\ o.kind = op[q].kind /\ o.try = op[q].try
                     /\ o.force = op[q].force /\ o.told = word
                     /\ o.trial = op[q].trial /\ o.early = op[q].early
  BY DEF Rest
<1> HIDE DEF o
<1> QED
  BY <1>1, <1>2

\* A step of one request leaves the others, and what is known of the lone one.
LEMMA ServeFrame ==
  ASSUME Typed, NEW q \in Req, Serve(q)
  PROVE  /\ pc[q] # "idle" /\ solo' = solo /\ before' = before
         /\ \A r \in Req : r # q => pc'[r] = pc[r] /\ op'[r] = op[r]
<1>1. /\ pc \in [Req -> Stage] /\ op \in [Req -> Operation]
  BY DEF Typed, TypeOK
<1>2. ASSUME NEW word, Finish(q, word)
      PROVE  \A r \in Req : r # q => pc'[r] = pc[r] /\ op'[r] = op[r]
  BY <1>2, FinishIs
<1>3. ASSUME NEW stage, Goto(q, stage)
      PROVE  \A r \in Req : r # q => pc'[r] = pc[r]
  BY <1>1, <1>3 DEF Goto
<1>4. CASE Check(q)
  BY <1>2, <1>3, <1>4 DEF Check, history
<1>5. CASE Commit(q)
  BY <1>2, <1>3, <1>5 DEF Commit, history
<1>6. CASE Discover(q)
  BY <1>1, <1>2, <1>3, <1>6 DEF Discover, history
<1>7. CASE ReadRows(q)
  BY <1>1, <1>2, <1>3, <1>7 DEF ReadRows, history
<1>8. CASE UpsertRows(q)
  BY <1>2, <1>8 DEF UpsertRows, history
<1>9. CASE PlanChanges(q)
  BY <1>1, <1>2, <1>3, <1>9 DEF PlanChanges, SnapshotFails, history
<1>10. CASE RunStep(q)
  BY <1>1, <1>3, <1>10 DEF RunStep, history
<1>11. CASE WriteNetplan(q)
  BY <1>2, <1>11 DEF WriteNetplan, history
<1>12. CASE TryWrite(q)
  BY <1>2, <1>3, <1>12 DEF TryWrite, history
<1>13. CASE NetplanTry(q)
  BY <1>1, <1>2, <1>3, <1>13 DEF NetplanTry, history
<1>14. CASE TrialStep(q)
  <2>1. /\ pc[q] # "idle" /\ UNCHANGED history
        /\ pc' = [pc EXCEPT ![q] = pc'[q]] /\ op' = [op EXCEPT ![q] = op'[q]]
    BY <1>14, TrialIs DEF Tries
  <2> QED
    BY <1>1, <2>1 DEF history
<1>15. CASE Verdict(q)
  BY <1>2, <1>15, VerdictIs DEF history
<1> QED
  BY <1>4, <1>5, <1>6, <1>7, <1>8, <1>9, <1>10, <1>11, <1>12, <1>13, <1>14, <1>15
     DEF Serve, TrialStep

\* What begins, beside the others.
LEMMA BeginIs ==
  ASSUME Typed, NEW q \in Req, pc[q] = "idle", Request(q)
  PROVE  /\ UNCHANGED <<host, file>> /\ before' = Host
         /\ solo' = IF Running = {} THEN q ELSE None
         /\ \/ pc'[q] = "addresses" /\ op'[q].kind = "apply" /\ goal' = {}
            \/ op'[q].kind # "apply" /\ goal' = goal
         /\ pc'[q] \in {"check", "commit", "addresses"}
         /\ \A r \in Req : r # q => pc'[r] = pc[r] /\ op'[r] \in {Rest, op[r]}
                                  /\ (pc[r] # "idle" => op'[r] = op[r])
<1>1. /\ pc \in [Req -> Stage] /\ op \in [Req -> Operation]
  BY DEF Typed, TypeOK
<1>2. PICK o, stage :
        /\ Begin(q, o, stage) /\ stage \in {"check", "commit", "addresses"}
        /\ o.kind = "apply" => stage = "addresses"
  <2>1. ASSUME NEW new \in Wanted, CreateInterface(q, new)
        PROVE  Begin(q, [Rest EXCEPT !.kind = "create", !.new = new], "check")
    BY <2>1 DEF CreateInterface
  <2>2. ASSUME NEW new \in Wanted, NEW n \in Row, UpdateInterface(q, n, new)
        PROVE  Begin(q, [Rest EXCEPT !.id = n, !.new = new, !.seen = Known({n})],
                     IF new.iface = rows[n].iface THEN "commit" ELSE "check")
    BY <2>2 DEF UpdateInterface
  <2>3. ASSUME NEW n \in Row, DeleteInterface(q, n)
        PROVE  Begin(q, [Rest EXCEPT !.kind = "delete", !.id = n], "commit")
    BY <2>3 DEF DeleteInterface
  <2>4. ASSUME RefreshInterfaces(q)
        PROVE  Begin(q, [Rest EXCEPT !.kind = "refresh"], "addresses")
    BY <2>4 DEF RefreshInterfaces
  <2>5. ASSUME NEW force \in BOOLEAN, ApplyInterfaces(q, force) \/ ApplyOfAgent(q, force)
        PROVE  \E o : Begin(q, o, "addresses")
    BY <2>5 DEF ApplyInterfaces, ApplyOfAgent
  <2>6. /\ \A new : [Rest EXCEPT !.kind = "create", !.new = new].kind # "apply"
        /\ \A n, new : [Rest EXCEPT !.id = n, !.new = new, !.seen = Known({n})].kind # "apply"
        /\ \A n : [Rest EXCEPT !.kind = "delete", !.id = n].kind # "apply"
    BY DEF Rest
  <2>7. ASSUME NEW o, NEW stage, Begin(q, o, stage),
               stage \in {"check", "commit", "addresses"}, o.kind = "apply" => stage = "addresses"
        PROVE  \E x, y : /\ Begin(q, x, y) /\ y \in {"check", "commit", "addresses"}
                         /\ x.kind = "apply" => y = "addresses"
    BY <2>7
  <2>8. CASE \E new \in Wanted : CreateInterface(q, new)
    BY <2>1, <2>6, <2>7, <2>8
  <2>9. CASE \E new \in Wanted, n \in Row : UpdateInterface(q, n, new)
    <3>1. PICK new \in Wanted, n \in Row : UpdateInterface(q, n, new)
      BY <2>9
    <3> DEFINE o == [Rest EXCEPT !.id = n, !.new = new, !.seen = Known({n})]
               stage == IF new.iface = rows[n].iface THEN "commit" ELSE "check"
    <3>2. Begin(q, o, stage)
      BY <2>2, <3>1
    <3>3. stage \in {"check", "commit"} /\ o.kind # "apply"
      BY <2>6
    <3> HIDE DEF o, stage
    <3> QED
      BY <2>7, <3>2, <3>3
  <2>10. CASE \E n \in Row : DeleteInterface(q, n)
    BY <2>3, <2>6, <2>7, <2>10
  <2>11. CASE RefreshInterfaces(q)
    BY <2>4, <2>7, <2>11
  <2>12. CASE \E force \in BOOLEAN : ApplyInterfaces(q, force) \/ ApplyOfAgent(q, force)
    BY <2>5, <2>7, <2>12
  <2> QED
    BY <2>8, <2>9, <2>10, <2>11, <2>12 DEF Request
<1>3. /\ pc' = [pc EXCEPT ![q] = stage] /\ before' = Host
      /\ op' = [r \in Req |-> IF r = q THEN o ELSE IF r \in Running THEN op[r] ELSE Rest]
      /\ solo' = IF Running = {} THEN q ELSE None
      /\ goal' = IF o.kind = "apply" THEN {} ELSE goal
      /\ UNCHANGED <<host, file>>
  BY <1>2 DEF Begin, Goto
<1> QED
  BY <1>1, <1>2, <1>3 DEF Running

-----------------------------------------------------------------------------
(* What is planned.                                                         *)

LEMMA PlannedKept ==
  ASSUME NEW q \in Req, Planned(q), pc'[q] = pc[q], op'[q] = op[q]
  PROVE  Planned(q)'
BY DEF Planned, Plan, Desired, Impossible

LEMMA RequestPlanned ==
  ASSUME Typed, AllPlanned, NEW q \in Req, pc[q] = "idle", Request(q)
  PROVE  AllPlanned'
<1>1. /\ pc'[q] \in {"check", "commit", "addresses"}
      /\ \A r \in Req : r # q => pc'[r] = pc[r] /\ (pc[r] # "idle" => op'[r] = op[r])
  BY BeginIs
<1>2. ASSUME NEW r \in Req PROVE Planned(r)'
  <2>1. CASE pc'[r] \in {"idle", "check", "commit", "addresses"}
    BY <2>1 DEF Planned
  <2>2. CASE r # q /\ pc[r] # "idle"
    BY <1>1, <2>2, PlannedKept DEF AllPlanned
  <2> QED
    BY <1>1, <2>1, <2>2
<1> QED
  BY <1>2 DEF AllPlanned

\* What is left of a plan when one of its commands has run.
RunsStep(q, s, ok) ==
  /\ pc[q] = "steps" /\ s \in op[q].plan
  /\ IF ok THEN Possible(s) /\ Kernel(s) ELSE UNCHANGED host
  /\ op'[q].plan = op[q].plan \ {s} /\ (op'[q].ok <=> op[q].ok /\ ok)
  /\ op'[q].seen = op[q].seen /\ op'[q].live = op[q].live /\ op'[q].kind = op[q].kind
  /\ op'[q].force = op[q].force /\ op'[q].try = op[q].try
  /\ pc'[q] = IF op[q].plan = {s} THEN "file" ELSE "steps"
  /\ UNCHANGED <<file, goal>>

LEMMA RunStepIs ==
  ASSUME Typed, NEW q \in Req, RunStep(q)
  PROVE  \E s \in Due(q), ok \in BOOLEAN : RunsStep(q, s, ok)
<1>1. /\ pc \in [Req -> Stage] /\ op \in [Req -> Operation] /\ op[q] \in Operation
      /\ pc[q] = "steps" /\ UNCHANGED <<file, goal>>
  BY DEF Typed, TypeOK, RunStep
<1>2. PICK s \in Due(q), ok \in BOOLEAN :
        /\ IF ok THEN Possible(s) /\ Works /\ Kernel(s)
           ELSE (IF Possible(s) THEN Fault ELSE Works) /\ UNCHANGED host
        /\ op' = [op EXCEPT ![q].plan = @ \ {s}, ![q].at = s.iface, ![q].ok = @ /\ ok]
        /\ IF op[q].plan = {s} THEN Goto(q, "file") ELSE UNCHANGED pc
  BY DEF RunStep
<1>3. pc'[q] = IF op[q].plan = {s} THEN "file" ELSE "steps"
  BY <1>1, <1>2 DEF Goto
<1>4. op'[q] = [op[q] EXCEPT !.plan = op[q].plan \ {s}, !.at = s.iface, !.ok = op[q].ok /\ ok]
  BY <1>1, <1>2
<1>5. /\ op'[q].plan = op[q].plan \ {s} /\ op'[q].seen = op[q].seen
      /\ op'[q].live = op[q].live /\ op'[q].kind = op[q].kind
      /\ op'[q].force = op[q].force /\ op'[q].try = op[q].try
  BY <1>1, <1>4 DEF Operation
<1>6. op'[q].ok <=> op[q].ok /\ ok
  BY <1>1, <1>4 DEF Operation
<1>7. s \in op[q].plan
  BY DEF Due
<1> QED
  BY <1>1, <1>2, <1>3, <1>5, <1>6, <1>7 DEF RunsStep

\* What makes a plan: the host as it was seen, and nothing refused.
PlansSteps(q) ==
  /\ ~Impossible(q)
  /\ \A s \in Plan(q) : ~op[q].force => s.iface # op[q].live.default
  /\ \A s \in Plan(q) : s.action # "nogateway" /\ (s.action = "stale" => s.addr # Wan)
  /\ op'[q] = [op[q] EXCEPT !.plan = Plan(q)]
  /\ pc'[q] = IF op[q].try \/ Plan(q) = {} THEN "file" ELSE "steps"

LEMMA PlanChangesIs ==
  ASSUME Typed, NEW q \in Req, PlanChanges(q)
  PROVE  /\ pc[q] = "plan" /\ UNCHANGED <<host, file, goal>>
         /\ Finish(q, "error") \/ PlansSteps(q)
<1>1. /\ pc \in [Req -> Stage] /\ op \in [Req -> Operation]
      /\ pc[q] = "plan" /\ UNCHANGED <<host, file, goal>>
  BY DEF Typed, TypeOK, PlanChanges
<1>2. PICK old \in {file, None} :
        LET refused == \/ Impossible(q) \/ GuardPlan(q, Plan(q))
                       \/ Guardrails(q, Plan(q), old)
        IN  \/ IF refused THEN Finish(q, "error")
               ELSE /\ op' = [op EXCEPT ![q].plan = Plan(q)]
                    /\ Goto(q, IF op[q].try \/ Plan(q) = {} THEN "file" ELSE "steps")
            \/ Finish(q, "error")
  BY DEF PlanChanges, SnapshotFails
<1> QED
  BY <1>1, <1>2 DEF PlansSteps, GuardPlan, Guardrails, Goto

LEMMA ServePlanned ==
  ASSUME Typed, AllPlanned, NEW q \in Req, Serve(q)
  PROVE  AllPlanned'
<1>1. pc \in [Req -> Stage] /\ op \in [Req -> Operation] /\ op[q] \in Operation
  BY DEF Typed, TypeOK
<1>2. \A r \in Req : r # q => Planned(r)'
  BY ServeFrame, PlannedKept DEF AllPlanned
<1>3. SUFFICES Planned(q)'
  BY <1>2 DEF AllPlanned
<1>4. ASSUME NEW word, Finish(q, word) PROVE Planned(q)'
  BY <1>4, FinishIs DEF Planned
<1>5. ASSUME NEW stage, stage \notin {"steps", "file", "try", "probe", "confirm", "wait"},
             Goto(q, stage)
      PROVE  Planned(q)'
  BY <1>1, <1>5 DEF Planned, Goto
<1>6. CASE Check(q) \/ Commit(q) \/ Discover(q) \/ ReadRows(q) \/ UpsertRows(q)
  BY <1>4, <1>5, <1>6 DEF Check, Commit, Discover, ReadRows, UpsertRows
<1>7. CASE WriteNetplan(q) \/ Verdict(q)
  BY <1>4, <1>7, VerdictIs DEF WriteNetplan
<1>11. CASE NetplanTry(q)
  <2>1. CASE Goto(q, "probe") /\ op' = [op EXCEPT ![q].trial = "starting"]
    <3>1. pc'[q] = "probe" /\ op'[q].try = op[q].try /\ pc[q] = "try"
      BY <1>1, <1>11, <2>1 DEF NetplanTry, Goto, Operation
    <3> QED
      BY <3>1 DEF Planned, AllPlanned
  <2> QED
    BY <1>4, <1>11, <2>1 DEF NetplanTry
<1>12. CASE TrialStep(q)
  <2>1. /\ pc[q] \in {"probe", "confirm", "wait"} /\ op'[q].try = op[q].try
        /\ pc'[q] \in {"probe", "confirm", "wait"}
    BY <1>12, TrialIs DEF Tries
  <2> QED
    BY <2>1 DEF Planned, AllPlanned
<1>8. CASE PlanChanges(q)
  <2>1. CASE PlansSteps(q)
    <3>1. /\ op'[q].plan = Plan(q) /\ op'[q].seen = op[q].seen /\ op'[q].live = op[q].live
          /\ op'[q].force = op[q].force /\ op'[q].try = op[q].try
      BY <1>1, <2>1 DEF PlansSteps, Operation
    <3>2. Plan(q)' = Plan(q) /\ (Impossible(q)' <=> Impossible(q))
      BY <3>1 DEF Plan, Desired, Impossible
    <3> QED
      BY <2>1, <3>1, <3>2 DEF Planned, PlansSteps
  <2> QED
    BY <1>4, <1>8, <2>1, PlanChangesIs
<1>9. CASE RunStep(q)
  <2>1. PICK s \in Due(q), ok \in BOOLEAN : RunsStep(q, s, ok)
    BY <1>9, RunStepIs
  <2>2. Plan(q)' = Plan(q) /\ (Impossible(q)' <=> Impossible(q))
    BY <2>1 DEF RunsStep, Plan, Desired, Impossible
  <2>3. Planned(q) /\ pc[q] = "steps"
    BY <2>1 DEF RunsStep, AllPlanned
  <2> QED
    BY <2>1, <2>2, <2>3 DEF Planned, RunsStep
<1>10. CASE TryWrite(q)
  <2>1. CASE Goto(q, "try") /\ UNCHANGED op
    <3>1. pc[q] = "file" /\ pc'[q] = "try" /\ op'[q] = op[q] /\ Planned(q) /\ op[q].try
      BY <1>1, <1>10, <2>1 DEF TryWrite, Goto, AllPlanned
    <3> QED
      BY <3>1 DEF Planned, Plan, Desired, Impossible
  <2> QED
    BY <1>4, <1>10, <2>1 DEF TryWrite
<1> QED
  BY <1>6, <1>7, <1>8, <1>9, <1>10, <1>11, <1>12 DEF Serve, TrialStep

LEMMA NextPlanned ==
  ASSUME Typed, AllPlanned, [Next]_vars
  PROVE  AllPlanned'
<1>1. CASE Reboot
  BY <1>1 DEF Reboot, AllPlanned, Planned
<1>2. CASE Waiting \/ UNCHANGED vars
  BY <1>2, PlannedKept DEF Waiting, vars, AllPlanned
<1> QED
  BY <1>1, <1>2, RequestPlanned, ServePlanned DEF Next
-----------------------------------------------------------------------------
(* The commands of a plan, and what they do.                                *)

LEMMA OrderIs ==
  /\ Order["address"] = 1 /\ Order["stale"] = 2 /\ Order["up"] = 3
  /\ Order["down"] = 3 /\ Order["gateway"] = 4 /\ Order["nogateway"] = 4
  /\ DOMAIN Order = {"address", "stale", "up", "down", "gateway", "nogateway"}
BY DEF Order

\* Rows that are possible are of different interfaces, and a gateway has an address.
LEMMA Distinct ==
  ASSUME NEW q \in Req, ~Impossible(q)
  PROVE  /\ \A c, d \in Desired(q) : c.iface = d.iface => c = d
         /\ \A c \in Desired(q) : Managed(c) /\ c.gw => c.addr # None
BY DEF Impossible, Desired

\* The row a command is for, and why it is in the plan.
For(c, s) ==
  /\ s.iface = c.iface /\ s = [iface |-> s.iface, action |-> s.action, addr |-> s.addr]
  /\ s.action = "address" => Managed(c) /\ c.addr # None /\ s.addr = c.addr
  /\ s.action = "stale" =>
       (Managed(c) /\ c.addr # None /\ s.addr # c.addr) \/ (~c.dhcp /\ ~c.enabled)
  /\ s.action = "up" => c.enabled /\ s.addr = None
  /\ s.action = "down" => ~c.enabled /\ s.addr = None
  /\ s.action = "gateway" => Managed(c) /\ c.gw /\ s.addr = None

LEMMA ChangeIs ==
  ASSUME NEW c, NEW live, NEW s \in Changes(live, c)
  PROVE  For(c, s)
<1> DEFINE here == live.addrs[c.iface]
           stale == CASE Managed(c) /\ c.addr # None -> here \ {c.addr}
                      [] ~c.dhcp /\ ~c.enabled -> here
                      [] OTHER -> {}
<1>1. ASSUME NEW action, NEW addr, s = [iface |-> c.iface, action |-> action, addr |-> addr]
      PROVE  /\ s.iface = c.iface /\ s.action = action /\ s.addr = addr
             /\ s = [iface |-> s.iface, action |-> s.action, addr |-> s.addr]
  BY <1>1
<1>2. CASE s \in When(Managed(c) /\ c.addr # None /\ c.addr \notin here, c, "address", c.addr)
  <2>1. /\ Managed(c) /\ c.addr # None
        /\ s = [iface |-> c.iface, action |-> "address", addr |-> c.addr]
    BY <1>2 DEF When
  <2> QED
    BY <1>1, <2>1 DEF For
<1>3. CASE s \in {[iface |-> c.iface, action |-> "stale", addr |-> a] : a \in stale}
  <2>1. PICK a \in stale : s = [iface |-> c.iface, action |-> "stale", addr |-> a]
    BY <1>3
  <2>2. (Managed(c) /\ c.addr # None /\ a # c.addr) \/ (~c.dhcp /\ ~c.enabled)
    BY <2>1
  <2>3. /\ s.iface = c.iface /\ s.action = "stale" /\ s.addr = a
        /\ s = [iface |-> s.iface, action |-> s.action, addr |-> s.addr]
    BY <2>1
  <2> HIDE DEF stale
  <2> QED
    BY <2>2, <2>3 DEF For
<1>4. CASE s \in When(c.enabled /\ ~live.up[c.iface], c, "up", None)
  <2>1. c.enabled /\ s = [iface |-> c.iface, action |-> "up", addr |-> None]
    BY <1>4 DEF When
  <2> QED
    BY <1>1, <2>1 DEF For
<1>5. CASE s \in When(~c.enabled /\ live.up[c.iface], c, "down", None)
  <2>1. ~c.enabled /\ s = [iface |-> c.iface, action |-> "down", addr |-> None]
    BY <1>5 DEF When
  <2> QED
    BY <1>1, <2>1 DEF For
<1>6. CASE s \in When(Managed(c) /\ c.gw /\ live.default # c.iface, c, "gateway", None)
  <2>1. Managed(c) /\ c.gw /\ s = [iface |-> c.iface, action |-> "gateway", addr |-> None]
    BY <1>6 DEF When
  <2> QED
    BY <1>1, <2>1 DEF For
<1>7. CASE s \in When(Managed(c) /\ ~c.gw /\ live.default = c.iface, c, "nogateway", None)
  <2>1. s = [iface |-> c.iface, action |-> "nogateway", addr |-> None]
    BY <1>7 DEF When
  <2> QED
    BY <1>1, <2>1 DEF For
<1> QED
  BY <1>2, <1>3, <1>4, <1>5, <1>6, <1>7 DEF Changes

LEMMA PlanIs ==
  ASSUME NEW q \in Req, NEW s \in Plan(q)
  PROVE  \E c \in Desired(q) : For(c, s)
BY ChangeIs DEF Plan

\* A command that is due has nothing of its interface before it in the plan.
LEMMA DueIs ==
  ASSUME Typed, AllPlanned, NEW q \in Req, pc[q] = "steps", NEW s \in Due(q)
  PROVE  /\ s \in op[q].plan /\ s \in Step /\ \E c \in Desired(q) : For(c, s)
         /\ s.action \in {"address", "stale", "up", "down", "gateway"}
         /\ s.action # "address" => \A t \in op[q].plan :
              t.iface = s.iface => t.action # "address"
         /\ s.action = "gateway" => \A t \in op[q].plan : t.iface = s.iface => t = s
<1>1. Planned(q) /\ op[q].plan \subseteq Step
  BY OperationTyped DEF AllPlanned, Typed
<1>2. /\ s \in op[q].plan /\ op[q].plan \subseteq Plan(q)
      /\ \A t \in op[q].plan : t.action # "nogateway" /\ t.action \in DOMAIN Order
      /\ \A t \in op[q].plan : t.iface = s.iface => Order[s.action] <= Order[t.action]
  BY <1>1 DEF Due, Planned, Step
<1>3. s.action # "address" => \A t \in op[q].plan :
        t.iface = s.iface => t.action # "address"
  BY <1>2, OrderIs
<1>4. ASSUME s.action = "gateway", NEW t \in op[q].plan, t.iface = s.iface PROVE t = s
  <2>1. t.action = "gateway"
    BY <1>2, <1>4, OrderIs
  <2>2. /\ t = [iface |-> t.iface, action |-> t.action, addr |-> t.addr] /\ t.addr = None
        /\ s = [iface |-> s.iface, action |-> s.action, addr |-> s.addr] /\ s.addr = None
    BY <1>2, <1>4, <2>1, PlanIs DEF For
  <2> QED
    BY <1>4, <2>1, <2>2
<1>5. \E c \in Desired(q) : For(c, s)
  BY <1>2, PlanIs
<1> QED
  BY <1>1, <1>2, <1>3, <1>4, <1>5, OrderIs

\* A command changes the interface it is for, and the default route.
LEMMA KernelIs ==
  ASSUME Typed, NEW s \in Step, Possible(s), Kernel(s)
  PROVE  /\ \A i \in Iface : i # s.iface => addrs'[i] = addrs[i] /\ up'[i] = up[i]
         /\ s.action = "address" => addrs'[s.iface] = addrs[s.iface] \cup {s.addr}
         /\ s.action = "stale" => addrs'[s.iface] = addrs[s.iface] \ {s.addr}
         /\ s.action \notin {"address", "stale"} => addrs' = addrs
         /\ s.action = "up" => up'[s.iface] = TRUE
         /\ s.action = "down" => up'[s.iface] = FALSE
         /\ s.action \notin {"up", "down"} => up' = up
         /\ s.action = "gateway" => default' = s.iface /\ up[s.iface] /\ addrs[s.iface] # {}
         /\ s.action # "gateway" => default' = default
              \/ (default = s.iface /\ (s.action = "down" \/ addrs'[s.iface] = {}))
<1>1. /\ addrs \in [Iface -> SUBSET Address] /\ up \in [Iface -> BOOLEAN] /\ s.iface \in Iface
  BY HostTyped DEF Typed, TypeOK, Step
<1>2. /\ \A i \in Iface : i # s.iface => addrs'[i] = addrs[i]
      /\ s.action = "address" => addrs'[s.iface] = addrs[s.iface] \cup {s.addr}
      /\ s.action = "stale" => addrs'[s.iface] = addrs[s.iface] \ {s.addr}
      /\ s.action \notin {"address", "stale"} => addrs' = addrs
  BY <1>1 DEF Kernel
<1>3. /\ \A i \in Iface : i # s.iface => up'[i] = up[i]
      /\ s.action = "up" => up'[s.iface] = TRUE
      /\ s.action = "down" => up'[s.iface] = FALSE
      /\ s.action \notin {"up", "down"} => up' = up
  BY <1>1 DEF Kernel
<1>4. s.action = "gateway" => default' = s.iface /\ up[s.iface] /\ addrs[s.iface] # {}
  <2>1. s.action = "gateway" => addrs'[s.iface] # {}
    BY <1>2 DEF Possible
  <2> QED
    BY <2>1 DEF Kernel, Possible
<1>5. s.action # "gateway" => default' = default
        \/ (default = s.iface /\ (s.action = "down" \/ addrs'[s.iface] = {}))
  <2>1. default' = CASE s.action = "gateway" -> s.iface
                     [] s.action = "down" \/ addrs'[s.iface] = {} -> Flushed(s.iface)
                     [] OTHER -> default
    BY DEF Kernel
  <2>2. s.action # "gateway" /\ default' # default => default' = Flushed(s.iface)
    BY <2>1
  <2>3. s.action # "gateway" /\ ~(s.action = "down" \/ addrs'[s.iface] = {}) => default' = default
    BY <2>1
  <2> QED
    BY <2>2, <2>3 DEF Flushed
<1> QED
  BY <1>2, <1>3, <1>4, <1>5

-----------------------------------------------------------------------------
(* The WAN address.                                                         *)

LEMMA ServeWan ==
  ASSUME Typed, AllPlanned, WanInv, NEW q \in Req, Serve(q)
  PROVE  WanInv'
<1>1. addrs \in [Iface -> SUBSET Address] /\ pc \in [Req -> Stage] /\ op \in [Req -> Operation]
  BY HostTyped DEF Typed, TypeOK
<1>2. \A r \in Req : r # q => pc'[r] = pc[r] /\ op'[r] = op[r]
  BY ServeFrame
<1>3. ASSUME WanKept', Tries(q)' /\ op'[q].trial = "waiting" =>
               \A i \in Iface : Wan \in Base[i] => Wan \in op'[q].live.addrs[i]
      PROVE  WanInv'
  BY <1>2, <1>3 DEF WanInv, Tries
<1>4. ASSUME UNCHANGED host, ~Tries(q)' PROVE WanInv'
  BY <1>3, <1>4 DEF host, WanInv, WanKept
<1>5. ASSUME NEW word, Finish(q, word) PROVE ~Tries(q)'
  BY <1>5, FinishIs DEF Tries
<1>6. ASSUME NEW stage, stage \notin {"probe", "confirm", "wait"}, Goto(q, stage)
      PROVE  ~Tries(q)'
  BY <1>1, <1>6 DEF Goto, Tries
<1>7. CASE Check(q) \/ Commit(q) \/ Discover(q) \/ ReadRows(q) \/ UpsertRows(q)
  BY <1>4, <1>5, <1>6, <1>7 DEF Check, Commit, Discover, ReadRows, UpsertRows
<1>8. CASE PlanChanges(q)
  BY <1>4, <1>5, <1>8, PlanChangesIs DEF PlansSteps, Tries
<1>9. CASE WriteNetplan(q) \/ TryWrite(q)
  BY <1>4, <1>5, <1>6, <1>9 DEF WriteNetplan, TryWrite
<1>10. CASE RunStep(q)
  <2>1. PICK s \in Due(q), ok \in BOOLEAN : RunsStep(q, s, ok)
    BY <1>10, RunStepIs
  <2>2. ~Tries(q)'
    BY <2>1 DEF RunsStep, Tries
  <2>3. CASE ~ok
    BY <1>4, <2>1, <2>2, <2>3 DEF RunsStep
  <2>4. CASE ok
    <3>1. s \in Step /\ Possible(s) /\ Kernel(s) /\ (s.action = "stale" => s.addr # Wan)
      BY <2>1, <2>4, DueIs DEF RunsStep, AllPlanned, Planned
    <3>2. ASSUME NEW i \in Iface, Wan \in addrs[i] PROVE Wan \in addrs'[i]
      BY <3>1, <3>2, KernelIs
    <3> QED
      BY <1>3, <2>2, <3>2 DEF WanInv, WanKept
  <2> QED
    BY <2>3, <2>4
<1>11. CASE NetplanTry(q)
  <2>1. CASE Goto(q, "probe") /\ op' = [op EXCEPT ![q].trial = "starting"]
    <3>1. op'[q].trial = "starting"
      BY <1>1, <2>1 DEF Operation
    <3> QED
      BY <1>3, <1>11, <3>1 DEF NetplanTry, host, WanInv, WanKept
  <2> QED
    BY <1>4, <1>5, <1>11, <2>1 DEF NetplanTry
<1>12. CASE TrialStep(q)
  <2>1. WanKept'
    <3>1. CASE UNCHANGED host
      BY <3>1 DEF host, WanInv, WanKept
    <3>2. CASE Becomes(Networks(file))
      BY <3>2 DEF Becomes, Networks, WanKept
    <3>3. CASE Tries(q) /\ op[q].trial = "waiting" /\ addrs' = op[q].live.addrs
      BY <3>3 DEF WanInv, WanKept
    <3> QED
      BY <1>12, <3>1, <3>2, <3>3, TrialIs
  <2>2. ASSUME op'[q].trial = "waiting"
        PROVE  \A i \in Iface : Wan \in Base[i] => Wan \in op'[q].live.addrs[i]
    <3>1. CASE Tries(q) /\ op[q].trial = "waiting" /\ op'[q].live = op[q].live
      BY <3>1 DEF WanInv
    <3>2. CASE op'[q].live = Host
      BY <3>2 DEF WanInv, WanKept, Host
    <3> QED
      BY <1>12, <2>2, <3>1, <3>2, TrialIs
  <2> QED
    BY <1>3, <2>1, <2>2
<1>13. CASE Verdict(q)
  BY <1>4, <1>5, <1>13, VerdictIs
<1> QED
  BY <1>7, <1>8, <1>9, <1>10, <1>11, <1>12, <1>13 DEF Serve, TrialStep

LEMMA NextWan ==
  ASSUME Typed, AllPlanned, WanInv, [Next]_vars
  PROVE  WanInv'
<1>1. ASSUME NEW q \in Req, pc[q] = "idle", Request(q) PROVE WanInv'
  <2>1. /\ addrs' = addrs /\ ~Tries(q)'
        /\ \A r \in Req : r # q => pc'[r] = pc[r] /\ (pc[r] # "idle" => op'[r] = op[r])
    BY <1>1, BeginIs DEF host, Tries
  <2>2. \A r \in Req : Tries(r)' => Tries(r) /\ op'[r] = op[r]
    BY <2>1 DEF Tries
  <2> QED
    BY <2>1, <2>2 DEF WanInv, WanKept
<1>2. CASE Reboot
  <2>1. addrs' = Networks(file).addrs /\ \A q \in Req : pc'[q] = "idle"
    BY <1>2 DEF Reboot, Becomes
  <2> QED
    BY <2>1 DEF WanInv, WanKept, Networks, Tries
<1>3. CASE Waiting \/ UNCHANGED vars
  BY <1>3 DEF Waiting, vars, WanInv, WanKept, Tries
<1> QED
  BY <1>1, <1>2, <1>3, ServeWan DEF Next

\* WanKept: no apply, try, reverted try or reboot takes the WAN address of the
\* base files off the host, however stale what was planned from has become.
THEOREM WanStays == Spec => []WanKept
<1>1. Init => Typed /\ AllPlanned /\ WanInv
  BY InitTyped DEF Init, AllPlanned, Planned, WanInv, WanKept, Tries
<1>2. Typed /\ AllPlanned /\ WanInv /\ [Next]_vars => (Typed /\ AllPlanned /\ WanInv)'
  BY NextTyped, NextPlanned, NextWan
<1>3. WanInv => WanKept
  BY DEF WanInv
<1> QED
  BY <1>1, <1>2, <1>3, PTL DEF Spec
-----------------------------------------------------------------------------
(* An apply that runs alone.                                                *)

LEMMA NextAlone ==
  ASSUME Typed, Alone, [Next]_vars
  PROVE  Alone'
<1>1. ASSUME NEW q \in Req, pc[q] = "idle", Request(q) PROVE Alone'
  <2>1. /\ solo' = IF Running = {} THEN q ELSE None
        /\ \A r \in Req : r # q => pc'[r] = pc[r]
    BY <1>1, BeginIs
  <2> QED
    BY <2>1 DEF Alone, Running
<1>2. ASSUME NEW q \in Req, Serve(q) PROVE Alone'
  BY <1>2, ServeFrame DEF Alone
<1>3. CASE Reboot
  BY <1>3 DEF Reboot, Alone
<1>4. CASE Waiting \/ UNCHANGED vars
  BY <1>4 DEF Waiting, vars, Alone
<1> QED
  BY <1>1, <1>2, <1>3, <1>4 DEF Next

LEMMA RequestLone ==
  ASSUME Typed, AllLone, NEW q \in Req, pc[q] = "idle", Request(q)
  PROVE  AllLone'
<1>1. /\ UNCHANGED host /\ before' = Host /\ solo' \in {q, None}
      /\ op'[q].kind = "apply" => pc'[q] = "addresses"
  BY BeginIs
<1>2. Host' = Host
  BY <1>1 DEF host, Host
<1>3. ASSUME op'[q].kind = "apply" PROVE LoneApply(q)'
  BY <1>1, <1>2, <1>3 DEF LoneApply, Still, Spared, Reaching, Tries
<1>4. ASSUME NEW r \in Req, r # q PROVE solo' # r
  BY <1>1, <1>4, NetAssumption
<1> QED
  BY <1>3, <1>4 DEF AllLone, LoneApply

\* It fails before its first command, or at its file, or to start netplan.
LEMMA LoneFails ==
  ASSUME Typed, NEW q \in Req, LoneApply(q), solo = q, op[q].kind = "apply",
         pc[q] \in {"addresses", "route", "plan", "file"} \/ (pc[q] = "try" /\ op[q].try),
         Finish(q, "error"),
         UNCHANGED <<host, solo, before>>
  PROVE  LoneApply(q)'
<1>1. /\ pc'[q] = "idle" /\ op'[q].plan = {} /\ op'[q].try = op[q].try
      /\ op'[q].force = op[q].force /\ op'[q].told = "error"
  BY FinishIs
<1>2. addrs' = addrs /\ up' = up /\ default' = default /\ before' = before
  BY DEF host
<1>3. Still(q) /\ Spared(q)
  BY DEF LoneApply
<1>4. CASE op[q].try
  <2>1. Host' = Host /\ Host = before
    BY <1>2, <1>3, <1>4 DEF Still, Host
  <2> QED
    BY <1>1, <1>2, <1>4, <2>1 DEF LoneApply, Still, Spared, Reaching, Tries, Answered
<1>5. CASE ~op[q].try
  <2>1. Still(q)' /\ Reaching(q)'
    BY <1>1, <1>5 DEF Still, Reaching, Tries
  <2>2. Spared(q)'
    <3>1. CASE pc[q] = "file"
      BY <1>1, <1>2, <1>3, <3>1 DEF Spared, Connected, Host
    <3>2. CASE pc[q] # "file"
      <4>1. Host = before
        BY <1>3, <3>2 DEF Still
      <4>2. before.addrs = addrs /\ before.up = up /\ before.default = default
        BY <4>1 DEF Host
      <4> QED
        BY <1>1, <1>2, <4>2 DEF Spared, Connected, Host
    <3> QED
      BY <3>1, <3>2
  <2> QED
    BY <2>1, <2>2 DEF LoneApply
<1> QED
  BY <1>4, <1>5 DEF Typed, TypeOK, Operation

LEMMA DiscoverLone ==
  ASSUME Typed, NEW q \in Req, LoneApply(q), solo = q, op[q].kind = "apply", Discover(q)
  PROVE  LoneApply(q)'
<1>1. /\ pc[q] \in {"addresses", "route"} /\ UNCHANGED host /\ solo' = solo /\ before' = before
      /\ pc \in [Req -> Stage] /\ op \in [Req -> Operation] /\ op[q] \in Operation
  BY DEF Discover, history, Typed, TypeOK
<1>2. Host = before /\ Host' = Host /\ Host \in Hosts
  BY <1>1 DEF LoneApply, Still, host, Host, Typed, TypeOK
<1>3. CASE pc[q] = "addresses" /\ Goto(q, "route") /\ op' = [op EXCEPT ![q].live = Host]
  <2>1. pc'[q] = "route" /\ op'[q].live = Host
    BY <1>1, <1>3 DEF Goto, Operation
  <2> QED
    BY <1>1, <1>2, <2>1 DEF LoneApply, Still, Spared, Reaching, Tries
<1>4. CASE /\ pc[q] = "route" /\ Goto(q, IF op[q].kind = "apply" THEN "plan" ELSE "upsert")
           /\ op' = [op EXCEPT ![q].live.default = default]
  <2>1. op[q].live = before /\ default = before.default /\ before \in Hosts
    BY <1>2, <1>4 DEF LoneApply, Still, Host
  <2>2. op'[q].live = [op[q].live EXCEPT !.default = default] /\ pc'[q] = "plan"
    BY <1>1, <1>4 DEF Goto, Operation
  <2>3. op'[q].live = before
    BY <2>1, <2>2 DEF Hosts
  <2> QED
    BY <1>1, <1>2, <2>2, <2>3 DEF LoneApply, Still, Spared, Reaching, Tries
<1>5. CASE Finish(q, "error")
  BY <1>1, <1>5, LoneFails
<1> QED
  BY <1>3, <1>4, <1>5 DEF Discover

\* What is planned from the host as it is has all that is missing.
LEMMA PlanReaches ==
  ASSUME Typed, NEW q \in Req, Host = op[q].live, ~Impossible(q)
  PROVE  /\ \A c \in Desired(q) :
              /\ Managed(c) /\ c.addr # None =>
                   /\ \/ c.addr \in addrs[c.iface]
                      \/ [iface |-> c.iface, action |-> "address", addr |-> c.addr] \in Plan(q)
                   /\ \A a \in addrs[c.iface] :
                        a = c.addr \/ [iface |-> c.iface, action |-> "stale", addr |-> a] \in Plan(q)
              /\ ~c.dhcp /\ ~c.enabled => \A a \in addrs[c.iface] :
                   [iface |-> c.iface, action |-> "stale", addr |-> a] \in Plan(q)
              /\ c.enabled => up[c.iface]
                   \/ [iface |-> c.iface, action |-> "up", addr |-> None] \in Plan(q)
              /\ ~c.enabled => ~up[c.iface]
                   \/ [iface |-> c.iface, action |-> "down", addr |-> None] \in Plan(q)
              /\ Managed(c) /\ c.gw => default = c.iface
                   \/ [iface |-> c.iface, action |-> "gateway", addr |-> None] \in Plan(q)
<1> SUFFICES ASSUME NEW c \in Desired(q)
    PROVE  /\ Managed(c) /\ c.addr # None =>
                /\ \/ c.addr \in addrs[c.iface]
                   \/ [iface |-> c.iface, action |-> "address", addr |-> c.addr] \in Plan(q)
                /\ \A a \in addrs[c.iface] :
                     a = c.addr \/ [iface |-> c.iface, action |-> "stale", addr |-> a] \in Plan(q)
           /\ ~c.dhcp /\ ~c.enabled => \A a \in addrs[c.iface] :
                [iface |-> c.iface, action |-> "stale", addr |-> a] \in Plan(q)
           /\ c.enabled => up[c.iface]
                \/ [iface |-> c.iface, action |-> "up", addr |-> None] \in Plan(q)
           /\ ~c.enabled => ~up[c.iface]
                \/ [iface |-> c.iface, action |-> "down", addr |-> None] \in Plan(q)
           /\ Managed(c) /\ c.gw => default = c.iface
                \/ [iface |-> c.iface, action |-> "gateway", addr |-> None] \in Plan(q)
  OBVIOUS
<1>1. op[q].live.addrs = addrs /\ op[q].live.up = up /\ op[q].live.default = default
  BY DEF Host
<1> DEFINE here == op[q].live.addrs[c.iface]
           stale == CASE Managed(c) /\ c.addr # None -> here \ {c.addr}
                      [] ~c.dhcp /\ ~c.enabled -> here
                      [] OTHER -> {}
<1>2. \A s \in Changes(op[q].live, c) : s \in Plan(q)
  BY DEF Plan
<1>3. \A s : \/ s \in When(Managed(c) /\ c.addr # None /\ c.addr \notin here, c, "address", c.addr)
            \/ s \in {[iface |-> c.iface, action |-> "stale", addr |-> a] : a \in stale}
            \/ s \in When(c.enabled /\ ~op[q].live.up[c.iface], c, "up", None)
            \/ s \in When(~c.enabled /\ op[q].live.up[c.iface], c, "down", None)
            \/ s \in When(Managed(c) /\ c.gw /\ op[q].live.default # c.iface, c, "gateway", None)
              => s \in Plan(q)
  BY <1>2 DEF Changes
<1>4. \A a \in stale : [iface |-> c.iface, action |-> "stale", addr |-> a] \in Plan(q)
  <2> HIDE DEF stale
  <2> QED
    BY <1>3
<1>5. /\ Managed(c) /\ c.addr # None => stale = addrs[c.iface] \ {c.addr}
      /\ ~c.dhcp /\ ~c.enabled => stale = addrs[c.iface]
  BY <1>1 DEF Managed
<1> HIDE DEF stale
<1>6. Managed(c) /\ c.addr # None =>
        \/ c.addr \in addrs[c.iface]
        \/ [iface |-> c.iface, action |-> "address", addr |-> c.addr] \in Plan(q)
  BY <1>1, <1>3 DEF When
<1>7. /\ c.enabled => up[c.iface]
           \/ [iface |-> c.iface, action |-> "up", addr |-> None] \in Plan(q)
      /\ ~c.enabled => ~up[c.iface]
           \/ [iface |-> c.iface, action |-> "down", addr |-> None] \in Plan(q)
  BY <1>1, <1>3 DEF When
<1>8. Managed(c) /\ c.gw => default = c.iface
        \/ [iface |-> c.iface, action |-> "gateway", addr |-> None] \in Plan(q)
  BY <1>1, <1>3 DEF When
<1> QED
  BY <1>4, <1>5, <1>6, <1>7, <1>8

LEMMA PlanChangesLone ==
  ASSUME Typed, NEW q \in Req, LoneApply(q), solo = q, op[q].kind = "apply", PlanChanges(q)
  PROVE  LoneApply(q)'
<1>1. /\ pc[q] = "plan" /\ UNCHANGED host /\ solo' = solo /\ before' = before
      /\ op[q] \in Operation /\ Still(q)
  BY DEF PlanChanges, history, Typed, TypeOK, LoneApply
<1>2. Host = before /\ op[q].live = before /\ addrs' = addrs /\ up' = up /\ default' = default
  BY <1>1 DEF Still, host
<1>3. CASE Finish(q, "error")
  BY <1>1, <1>3, LoneFails
<1>4. CASE PlansSteps(q)
  <2>1. /\ op'[q].plan = Plan(q) /\ op'[q].seen = op[q].seen /\ op'[q].live = op[q].live
        /\ op'[q].force = op[q].force /\ op'[q].try = op[q].try /\ op'[q].ok = op[q].ok
    BY <1>1, <1>4 DEF PlansSteps, Operation
  <2>2. pc'[q] \in {"steps", "file"} /\ before.addrs = addrs /\ before.up = up /\ before.default = default
    BY <1>2, <1>4 DEF PlansSteps, Host
  <2>3. Still(q)'
    BY <1>1, <1>2, <2>1, <2>2 DEF Still, Host, Tries
  <2>4. Spared(q)'
    <3>1. ~op[q].force => \A s \in Plan(q) : s.iface # default
      BY <1>2, <1>4, <2>2 DEF PlansSteps
    <3> QED
      BY <1>1, <1>2, <2>1, <2>2, <3>1 DEF Spared, Connected, Host
  <2>5. Reaching(q)'
    <3>1. Desired(q)' = Desired(q)
      BY <2>1 DEF Desired
    <3>2. ASSUME NEW c \in Desired(q) PROVE Nearing(q, c)'
      <4>1. ~Impossible(q) /\ Host = op[q].live
        BY <1>2, <1>4 DEF PlansSteps
      <4>2. /\ Managed(c) /\ c.addr # None =>
                 /\ \/ c.addr \in addrs[c.iface]
                    \/ [iface |-> c.iface, action |-> "address", addr |-> c.addr] \in Plan(q)
                 /\ \A a \in addrs[c.iface] :
                      a = c.addr \/ [iface |-> c.iface, action |-> "stale", addr |-> a] \in Plan(q)
            /\ ~c.dhcp /\ ~c.enabled => \A a \in addrs[c.iface] :
                 [iface |-> c.iface, action |-> "stale", addr |-> a] \in Plan(q)
        BY <4>1, PlanReaches
      <4>3. /\ c.enabled => up[c.iface]
                 \/ [iface |-> c.iface, action |-> "up", addr |-> None] \in Plan(q)
            /\ ~c.enabled => ~up[c.iface]
                 \/ [iface |-> c.iface, action |-> "down", addr |-> None] \in Plan(q)
        BY <4>1, PlanReaches
      <4> QED
        BY <1>2, <2>1, <4>2, <4>3 DEF Nearing, Pending
    <3>3. Routing(q)'
      <4>1. ~Impossible(q) /\ Host = op[q].live
        BY <1>2, <1>4 DEF PlansSteps
      <4>2. \A c \in Desired(q) : Managed(c) /\ c.gw =>
              \/ default = c.iface
              \/ [iface |-> c.iface, action |-> "gateway", addr |-> None] \in Plan(q)
        BY <4>1, PlanReaches
      <4> QED
        BY <1>2, <2>1, <3>1, <4>2 DEF Routing, Pending
    <3> QED
      BY <3>1, <3>2, <3>3 DEF Reaching
  <2> QED
    BY <2>3, <2>4, <2>5 DEF LoneApply
<1> QED
  BY <1>3, <1>4, PlanChangesIs
LEMMA StepSpares ==
  ASSUME Typed, AllPlanned, NEW q \in Req, Still(q), Spared(q), pc[q] = "steps",
         NEW s \in Due(q), NEW ok \in BOOLEAN, RunsStep(q, s, ok), before' = before
  PROVE  Spared(q)'
<1>1. /\ ~op[q].try /\ op'[q].force = op[q].force /\ op'[q].plan = op[q].plan \ {s}
      /\ s \in op[q].plan /\ s \in Step
  BY DueIs DEF RunsStep, AllPlanned, Planned
<1>2. SUFFICES ASSUME ~op[q].force PROVE Spared(q)'
  BY <1>1 DEF Spared
<1>3. /\ \A i \in Iface : i = before.default => addrs[i] = before.addrs[i] /\ up[i] = before.up[i]
      /\ Connected(before) => Connected(Host) /\ \A t \in op[q].plan : t.iface # default
  BY <1>1, <1>2 DEF Spared
<1>4. s.iface # before.default
  <2>1. op[q].live = before /\ s \in Plan(q)
    BY <1>1 DEF Still, AllPlanned, Planned
  <2> QED
    BY <1>2, <2>1 DEF AllPlanned, Planned
<1>5. CASE ~ok
  BY <1>1, <1>3, <1>5 DEF RunsStep, host, Spared, Connected, Host
<1>6. CASE ok
  <2>1. Possible(s) /\ Kernel(s)
    BY <1>6 DEF RunsStep
  <2>2. \A i \in Iface : i # s.iface => addrs'[i] = addrs[i] /\ up'[i] = up[i]
    BY <1>1, <2>1, KernelIs
  <2>3. ASSUME Connected(before)
        PROVE  Connected(Host)' /\ \A t \in op'[q].plan : t.iface # default'
    <3>1. /\ default \in Iface /\ up[default] /\ addrs[default] # {}
          /\ \A t \in op[q].plan : t.iface # default
      BY <1>3, <2>3, HostTyped DEF Connected, Host, Typed, TypeOK
    <3>2. CASE s.action = "gateway"
      <4>1. default' = s.iface /\ up[s.iface] /\ addrs[s.iface] # {} /\ addrs' = addrs /\ up' = up
        BY <1>1, <2>1, <3>2, KernelIs
      <4>2. \A t \in op[q].plan : t.iface = s.iface => t = s
        BY <3>2, DueIs
      <4>3. s.iface # None
        BY <1>1, NetAssumption DEF Step
      <4> QED
        BY <1>1, <4>1, <4>2, <4>3 DEF Connected, Host
    <3>3. CASE s.action # "gateway"
      <4>1. s.iface # default
        BY <1>1, <3>1
      <4>2. default' = default
        BY <1>1, <2>1, <3>3, <4>1, KernelIs
      <4>3. addrs'[default] = addrs[default] /\ up'[default] = up[default]
        BY <2>2, <3>1, <4>1
      <4> QED
        BY <1>1, <3>1, <4>2, <4>3, NetAssumption DEF Connected, Host
    <3> QED
      BY <3>2, <3>3
  <2> QED
    BY <1>3, <1>4, <2>2, <2>3 DEF Spared
<1> QED
  BY <1>5, <1>6

LEMMA StepReaches ==
  ASSUME Typed, AllPlanned, NEW q \in Req, pc[q] = "steps", ~op[q].try, op[q].ok, Reaching(q),
         NEW s \in Due(q), RunsStep(q, s, TRUE)
  PROVE  (\A c \in Desired(q) : Nearing(q, c)') /\ Routing(q)'
<1>1. /\ s \in Step /\ s \in op[q].plan /\ s.iface \in Iface /\ Possible(s) /\ Kernel(s)
      /\ op'[q].plan = op[q].plan \ {s} /\ Desired(q)' = Desired(q) /\ ~Impossible(q)
      /\ Desired(q) \subseteq NetworkInterface
  BY DueIs, OperationTyped DEF RunsStep, Step, Desired, AllPlanned, Planned, Typed
<1>2. PICK d \in Desired(q) : For(d, s)
  BY DueIs
<1>3. /\ \A c, e \in Desired(q) : c.iface = e.iface => c = e
      /\ \A c \in Desired(q) : Managed(c) /\ c.gw => c.addr # None
  BY <1>1, Distinct
<1>4. ASSUME NEW c, NEW action, NEW addr, Pending(q, c, action, addr),
             c.iface # s.iface \/ action # s.action \/ addr # s.addr
      PROVE  Pending(q, c, action, addr)'
  <2>1. [iface |-> c.iface, action |-> action, addr |-> addr] # s
    BY <1>4
  <2> QED
    BY <1>1, <1>4, <2>1 DEF Pending
<1>5. (\A c \in Desired(q) : Nearing(q, c)) /\ Routing(q)
  BY DEF Reaching
<1>6. s.action \in {"address", "stale", "up", "down", "gateway"}
  BY DueIs
<1>7. ASSUME NEW c \in Desired(q), c # d PROVE Nearing(q, c)'
  <2>1. c.iface # s.iface /\ c.iface \in Iface
    BY <1>1, <1>2, <1>3, <1>7 DEF For, NetworkInterface
  <2>2. addrs'[c.iface] = addrs[c.iface] /\ up'[c.iface] = up[c.iface]
    BY <1>1, <2>1, KernelIs
  <2>3. \A action, addr : Pending(q, c, action, addr) => Pending(q, c, action, addr)'
    BY <1>4, <2>1
  <2> QED
    BY <1>5, <2>2, <2>3 DEF Nearing
<1>8. Nearing(q, d)'
  <2>1. Nearing(q, d) /\ d.iface = s.iface
    BY <1>2, <1>5 DEF For
  <2>2. /\ s.action = "address" => addrs'[d.iface] = addrs[d.iface] \cup {d.addr}
        /\ s.action = "stale" => addrs'[d.iface] = addrs[d.iface] \ {s.addr}
        /\ s.action \notin {"address", "stale"} => addrs'[d.iface] = addrs[d.iface]
    BY <1>1, <1>2, <2>1, KernelIs DEF For
  <2>3. ASSUME Managed(d), d.addr # None
        PROVE  d.addr \in addrs'[d.iface] \/ Pending(q, d, "address", d.addr)'
    <3>1. CASE s.action = "address"
      BY <2>2, <3>1
    <3>2. CASE s.action # "address"
      <4>1. d.addr \in addrs[d.iface] \/ Pending(q, d, "address", d.addr)'
        BY <1>4, <2>1, <2>3, <3>2 DEF Nearing
      <4>2. s.action = "stale" => s.addr # d.addr
        BY <1>2, <2>3 DEF For, Managed
      <4> QED
        BY <2>2, <3>2, <4>1, <4>2
    <3> QED
      BY <3>1, <3>2
  <2>4. ASSUME NEW a \in addrs'[d.iface], Managed(d), d.addr # None
        PROVE  a = d.addr \/ Pending(q, d, "stale", a)'
    <3>1. CASE a \in addrs[d.iface]
      <4>1. a = d.addr \/ Pending(q, d, "stale", a)
        BY <2>1, <2>4, <3>1 DEF Nearing
      <4>2. s.action = "stale" => a # s.addr
        BY <2>2, <2>4
      <4> QED
        BY <1>4, <4>1, <4>2
    <3>2. CASE a \notin addrs[d.iface]
      BY <2>2, <2>4, <3>2
    <3> QED
      BY <3>1, <3>2
  <2>5. ASSUME NEW a \in addrs'[d.iface], ~d.dhcp, ~d.enabled
        PROVE  Pending(q, d, "stale", a)'
    <3>1. s.action # "address"
      BY <1>2, <2>5 DEF For, Managed
    <3>2. a \in addrs[d.iface] /\ (s.action = "stale" => a # s.addr)
      BY <2>2, <2>5, <3>1
    <3>3. Pending(q, d, "stale", a)
      BY <2>1, <2>5, <3>2 DEF Nearing
    <3> QED
      BY <1>4, <3>2, <3>3
  <2>6. ASSUME d.enabled PROVE up'[d.iface] \/ Pending(q, d, "up", None)'
    <3>1. s.action # "down"
      BY <1>2, <2>6 DEF For
    <3>2. CASE s.action = "up"
      BY <1>1, <2>1, <3>2, KernelIs
    <3>3. CASE s.action # "up"
      BY <1>1, <1>4, <2>1, <2>6, <3>1, <3>3, KernelIs DEF Nearing
    <3> QED
      BY <3>2, <3>3
  <2>7. ASSUME ~d.enabled PROVE ~up'[d.iface] \/ Pending(q, d, "down", None)'
    <3>1. s.action # "up"
      BY <1>2, <2>7 DEF For
    <3>2. CASE s.action = "down"
      BY <1>1, <2>1, <3>2, KernelIs
    <3>3. CASE s.action # "down"
      BY <1>1, <1>4, <2>1, <2>7, <3>1, <3>3, KernelIs DEF Nearing
    <3> QED
      BY <3>2, <3>3
  <2> QED
    BY <2>3, <2>4, <2>5, <2>6, <2>7 DEF Nearing
<1>9. Routing(q)'
  <2>1. SUFFICES ASSUME \E c \in Desired(q) : Managed(c) /\ c.gw
        PROVE  \E c \in Desired(q) : Managed(c) /\ c.gw
                 /\ (default' = c.iface \/ Pending(q, c, "gateway", None)')
    BY <1>1 DEF Routing
  <2>2. PICK c \in Desired(q) : /\ Managed(c) /\ c.gw
                               /\ (default = c.iface \/ Pending(q, c, "gateway", None))
    BY <1>5, <2>1 DEF Routing
  <2>3. CASE s.action = "gateway"
    <3>1. Managed(d) /\ d.gw /\ default' = d.iface
      BY <1>1, <1>2, <2>3, KernelIs DEF For
    <3> QED
      BY <3>1
  <2>4. CASE s.action # "gateway" /\ Pending(q, c, "gateway", None)
    BY <1>4, <2>2, <2>4
  <2>5. CASE s.action # "gateway" /\ default = c.iface
    <3>1. CASE s.iface # c.iface
      BY <1>1, <2>2, <2>5, <3>1, KernelIs
    <3>2. CASE s.iface = c.iface
      <4>1. c = d /\ c.addr # None
        BY <1>2, <1>3, <2>2, <3>2 DEF For
      <4>2. s.action # "down"
        BY <1>2, <2>2, <4>1 DEF For, Managed
      <4>3. c.addr \in addrs'[c.iface]
        <5>1. CASE s.action = "address"
          BY <1>1, <1>2, <3>2, <4>1, <5>1, KernelIs DEF For
        <5>2. CASE s.action # "address"
          <6>1. ~Pending(q, c, "address", c.addr)
            BY <3>2, <5>2, DueIs DEF Pending
          <6>2. c.addr \in addrs[c.iface]
            BY <1>5, <2>2, <4>1, <6>1 DEF Nearing
          <6>3. s.action = "stale" => s.addr # c.addr
            BY <1>2, <2>2, <4>1 DEF For, Managed
          <6>4. s.action = "stale" => addrs'[c.iface] = addrs[c.iface] \ {s.addr}
            BY <1>1, <3>2, KernelIs
          <6>5. s.action # "stale" => addrs'[c.iface] = addrs[c.iface]
            BY <1>1, <3>2, <5>2, KernelIs
          <6> QED
            BY <6>2, <6>3, <6>4, <6>5
        <5> QED
          BY <5>1, <5>2
      <4>4. default' = default
        BY <1>1, <2>5, <3>2, <4>2, <4>3, KernelIs
      <4> QED
        BY <2>2, <2>5, <4>4
    <3> QED
      BY <3>1, <3>2
  <2> QED
    BY <2>2, <2>3, <2>4, <2>5
<1> QED
  BY <1>7, <1>8, <1>9
LEMMA RunStepLone ==
  ASSUME Typed, AllPlanned, NEW q \in Req, LoneApply(q), solo = q, op[q].kind = "apply", RunStep(q)
  PROVE  LoneApply(q)'
<1>1. PICK s \in Due(q), ok \in BOOLEAN : RunsStep(q, s, ok)
  BY RunStepIs
<1>2. /\ Still(q) /\ Spared(q) /\ Reaching(q) /\ before' = before
      /\ pc[q] = "steps" /\ pc'[q] \in {"steps", "file"} /\ ~op[q].try /\ ~op'[q].try
      /\ op'[q].live = op[q].live
  BY <1>1 DEF RunStep, RunsStep, history, LoneApply, AllPlanned, Planned
<1>3. Still(q)'
  BY <1>2 DEF Still, Tries
<1>4. Spared(q)'
  BY <1>1, <1>2, StepSpares
<1>5. Reaching(q)'
  <2>1. SUFFICES ASSUME op'[q].ok PROVE (\A c \in Desired(q)' : Nearing(q, c)') /\ Routing(q)'
    BY DEF Reaching
  <2>2. op[q].ok /\ ok
    BY <1>1, <2>1 DEF RunsStep
  <2>3. Desired(q)' = Desired(q)
    BY <1>1 DEF RunsStep, Desired
  <2>4. ok = TRUE
    BY <2>2
  <2> QED
    BY <1>1, <1>2, <2>2, <2>3, <2>4, StepReaches
<1> QED
  BY <1>3, <1>4, <1>5 DEF LoneApply

LEMMA WriteNetplanLone ==
  ASSUME Typed, NEW q \in Req, LoneApply(q), solo = q, op[q].kind = "apply", WriteNetplan(q)
  PROVE  LoneApply(q)'
<1>1. /\ pc[q] = "file" /\ ~op[q].try /\ UNCHANGED <<host, solo, before>>
      /\ Finish(q, "ok") \/ Finish(q, "error")
  BY DEF WriteNetplan, history
<1>2. CASE Finish(q, "error")
  BY <1>1, <1>2, LoneFails
<1>3. CASE Finish(q, "ok")
  <2>1. /\ pc'[q] = "idle" /\ op'[q].plan = {} /\ ~op'[q].try /\ op'[q].force = op[q].force
    BY <1>1, <1>3, FinishIs
  <2>2. addrs' = addrs /\ up' = up /\ default' = default /\ before' = before
    BY <1>1 DEF host
  <2> QED
    BY <1>1, <2>1, <2>2 DEF LoneApply, Still, Spared, Reaching, Connected, Host, Tries
<1> QED
  BY <1>1, <1>2, <1>3

LEMMA TryWriteLone ==
  ASSUME Typed, NEW q \in Req, LoneApply(q), solo = q, op[q].kind = "apply", TryWrite(q)
  PROVE  LoneApply(q)'
<1>1. /\ pc[q] = "file" /\ op[q].try /\ UNCHANGED <<host, solo, before>>
      /\ pc \in [Req -> Stage] /\ op \in [Req -> Operation]
  BY DEF TryWrite, history, Typed, TypeOK
<1>2. CASE Finish(q, "error")
  BY <1>1, <1>2, LoneFails
<1>3. CASE Goto(q, "try") /\ UNCHANGED op
  <2>1. pc'[q] = "try" /\ op' = op /\ Host' = Host
    BY <1>1, <1>3 DEF Goto, host, Host
  <2> QED
    BY <1>1, <2>1 DEF LoneApply, Still, Spared, Reaching, Tries
<1> QED
  BY <1>2, <1>3 DEF TryWrite

LEMMA NetplanTryLone ==
  ASSUME Typed, AllPlanned, NEW q \in Req, LoneApply(q), solo = q, op[q].kind = "apply",
         NetplanTry(q)
  PROVE  LoneApply(q)'
<1>1. /\ pc[q] = "try" /\ UNCHANGED <<host, solo, before, file>> /\ op[q].try
      /\ Host = before /\ op[q].live = before
      /\ pc \in [Req -> Stage] /\ op \in [Req -> Operation] /\ op[q] \in Operation
  BY DEF NetplanTry, history, Typed, TypeOK, LoneApply, Still, AllPlanned, Planned
<1>2. CASE Finish(q, "error")
  BY <1>1, <1>2, LoneFails
<1>3. CASE Goto(q, "probe") /\ op' = [op EXCEPT ![q].trial = "starting"]
  <2>1. /\ pc'[q] = "probe" /\ op'[q].trial = "starting" /\ op'[q].live = op[q].live
        /\ op'[q].try = op[q].try
    BY <1>1, <1>3 DEF Goto, Operation
  <2>2. Host' = before /\ before' = before
    BY <1>1 DEF host, Host
  <2>3. Trying(q)'
    BY <2>1, <2>2 DEF Trying, InPlace
  <2> QED
    BY <1>1, <2>1, <2>2, <2>3 DEF LoneApply, Still, Spared, Reaching, Tries
<1> QED
  BY <1>2, <1>3 DEF NetplanTry

\* The pause, the probes and the newline, and what netplan does meanwhile.
LEMMA TrialTries ==
  ASSUME Typed, NEW q \in Req, TrialStep(q), Trying(q), op[q].live = before
  PROVE  Trying(q)' /\ op'[q].live = before
<1>1. /\ pc \in [Req -> Stage] /\ op \in [Req -> Operation] /\ op[q] \in Operation
      /\ before' = before /\ file' = file /\ before \in Hosts
  BY TrialIs DEF Typed, TypeOK, history
<1>2. IF InPlace(q) THEN IsAs(Networks(file)) ELSE Host = before
  BY DEF Trying
<1>3. ASSUME UNCHANGED host
      PROVE  /\ Host' = Host /\ (Online(Host)' <=> Online(Host))
             /\ (IsAs(Networks(file))' <=> IsAs(Networks(file)))
  BY <1>1, <1>3 DEF host, Host, Online, Connected, IsAs
<1>4. Online(before)' <=> Online(before)
  BY <1>1 DEF Online, Connected
<1>5. CASE Probe(q)
  <2>1. PICK pass \in BOOLEAN :
          /\ pass => ProbesPass(q)
          /\ op' = [op EXCEPT ![q].ok = pass, ![q].early = (op[q].trial = "starting")]
    BY <1>5 DEF Probe
  <2>2. op'[q] = [op[q] EXCEPT !.ok = pass, !.early = (op[q].trial = "starting")]
    BY <1>1, <2>1
  <2>3. /\ op'[q].ok = pass /\ op'[q].early = (op[q].trial = "starting")
        /\ op'[q].trial = op[q].trial /\ op'[q].live = op[q].live
    BY <1>1, <2>2 DEF Operation
  <2>4. pc[q] = "probe" /\ UNCHANGED host
    BY <1>5 DEF Probe
  <2>5. op[q].trial # "accepted" /\ op'[q].trial # "accepted"
    BY <2>3, <2>4 DEF Trying
  <2>6. InPlace(q)' <=> InPlace(q)
    BY <2>3 DEF InPlace
  <2>7. op[q].trial = "starting" => Host = before
    BY <1>2 DEF InPlace
  <2>8. pass => Online(Host)
    BY <2>1 DEF ProbesPass
  <2>9. /\ op'[q].ok /\ op'[q].early => Online(before)
        /\ op'[q].ok => Online(Host)
        /\ op'[q].trial = "starting" => op'[q].early
    BY <2>3, <2>7, <2>8
  <2> QED
    BY <1>1, <1>2, <1>3, <1>4, <2>3, <2>4, <2>5, <2>6, <2>9 DEF Trying
<1>6. CASE Confirm(q)
  <2>1. /\ pc[q] = "confirm" /\ pc'[q] = "wait" /\ op'[q] = op[q] /\ UNCHANGED host
    BY <1>1, <1>6 DEF Confirm, Goto
  <2>2. InPlace(q)' <=> InPlace(q)
    BY <2>1 DEF InPlace
  <2>3. IF InPlace(q)' THEN IsAs(Networks(file))' ELSE Host' = before'
    BY <1>1, <1>2, <1>3, <2>1, <2>2
  <2>4. op[q].ok => /\ op[q].early => Online(before)
                    /\ op[q].trial = "starting" => op[q].early
                    /\ InPlace(q) => op[q].early \/ Online(Host)
    BY <2>1 DEF Trying
  <2>5. op[q].trial # "accepted"
    BY <2>1 DEF Trying
  <2> QED
    BY <1>1, <1>3, <1>4, <2>1, <2>2, <2>3, <2>4, <2>5 DEF Trying
<1>7. CASE NetplanApplies(q)
  <2>1. pc' = pc /\ op[q].trial = "starting" /\ Host = before
    BY <1>2, <1>7 DEF NetplanApplies, InPlace
  <2>2. CASE /\ Becomes(Networks(file))
             /\ op' = [op EXCEPT ![q].trial = "waiting", ![q].live = Host]
    <3>1. op'[q] = [op[q] EXCEPT !.trial = "waiting", !.live = Host]
      BY <1>1, <2>2
    <3>2. /\ op'[q].trial = "waiting" /\ op'[q].live = before
          /\ op'[q].ok = op[q].ok /\ op'[q].early = op[q].early
      BY <1>1, <2>1, <3>1 DEF Operation
    <3>3. IsAs(Networks(file))'
      BY <1>1, <2>2 DEF Becomes, IsAs
    <3> QED
      BY <1>4, <2>1, <3>2, <3>3 DEF Trying, InPlace
  <2>3. CASE UNCHANGED host /\ op' = [op EXCEPT ![q].trial = "failed"]
    <3>1. op'[q] = [op[q] EXCEPT !.trial = "failed"]
      BY <1>1, <2>3
    <3>2. /\ op'[q].trial = "failed" /\ op'[q].live = op[q].live
          /\ op'[q].ok = op[q].ok /\ op'[q].early = op[q].early
      BY <1>1, <3>1 DEF Operation
    <3> QED
      BY <1>1, <1>3, <1>4, <2>1, <2>3, <3>2 DEF Trying, InPlace
  <2> QED
    BY <1>7, <2>2, <2>3 DEF NetplanApplies
<1>8. CASE NetplanAccepts(q)
  <2>1. /\ pc' = pc /\ pc[q] = "wait" /\ op[q].ok /\ op[q].trial = "waiting" /\ UNCHANGED host
        /\ op'[q] = [op[q] EXCEPT !.trial = "accepted"]
    BY <1>1, <1>8 DEF NetplanAccepts
  <2>2. /\ op'[q].trial = "accepted" /\ op'[q].live = op[q].live
        /\ op'[q].ok = op[q].ok /\ op'[q].early = op[q].early
    BY <1>1, <2>1 DEF Operation
  <2> QED
    BY <1>2, <1>3, <1>4, <2>1, <2>2 DEF Trying, InPlace
<1>9. CASE NetplanReverts(q)
  <2>1. /\ pc' = pc /\ op'[q] = [op[q] EXCEPT !.trial = "reverted"]
        /\ addrs' = before.addrs /\ up' = before.up /\ default' = before.default
    BY <1>1, <1>9 DEF NetplanReverts
  <2>2. /\ op'[q].trial = "reverted" /\ op'[q].live = op[q].live
        /\ op'[q].ok = op[q].ok /\ op'[q].early = op[q].early
    BY <1>1, <2>1 DEF Operation
  <2>3. Host' = before
    BY <1>1, <2>1 DEF Host, Hosts
  <2> QED
    BY <1>1, <1>4, <2>1, <2>2, <2>3 DEF Trying, InPlace
<1> QED
  BY <1>5, <1>6, <1>7, <1>8, <1>9 DEF TrialStep

LEMMA TrialLone ==
  ASSUME Typed, AllPlanned, NEW q \in Req, LoneApply(q), solo = q, op[q].kind = "apply",
         TrialStep(q)
  PROVE  LoneApply(q)'
<1>1. /\ Tries(q) /\ pc'[q] \in {"probe", "confirm", "wait"} /\ op'[q].try = op[q].try
      /\ before' = before
  BY TrialIs DEF Tries, history
<1>2. op[q].try /\ Trying(q) /\ op[q].live = before
  BY <1>1 DEF LoneApply, Still, AllPlanned, Planned, Tries
<1>3. Trying(q)' /\ op'[q].live = before
  BY <1>2, TrialTries
<1> QED
  BY <1>1, <1>2, <1>3 DEF LoneApply, Still, Spared, Reaching

LEMMA VerdictLone ==
  ASSUME Typed, AllPlanned, NEW q \in Req, LoneApply(q), solo = q, op[q].kind = "apply",
         Verdict(q)
  PROVE  LoneApply(q)'
<1>1. /\ pc[q] = "wait" /\ UNCHANGED host /\ file' = file /\ before' = before
  BY VerdictIs DEF history
<1>2. op[q].try /\ Trying(q)
  BY <1>1 DEF LoneApply, Still, AllPlanned, Planned, Tries
<1>3. /\ (Online(Host)' <=> Online(Host)) /\ (Online(before)' <=> Online(before))
      /\ Host' = Host /\ (IsAs(Networks(file))' <=> IsAs(Networks(file)))
  BY <1>1 DEF host, Host, Online, Connected, IsAs
<1>4. ASSUME NEW word, Finish(q, word), Answered(q)' PROVE LoneApply(q)'
  <2>1. pc'[q] = "idle" /\ op'[q].try
    BY <1>2, <1>4, FinishIs
  <2> QED
    BY <1>4, <2>1 DEF LoneApply, Still, Spared, Reaching, Tries
<1>5. ASSUME NEW word, Finish(q, word)
      PROVE  /\ op'[q].told = word /\ op'[q].trial = op[q].trial
             /\ op'[q].early = op[q].early
  BY <1>5, FinishIs
<1>6. CASE op[q].ok /\ op[q].trial = "accepted" /\ Finish(q, "ok")
  <2>1. IsAs(Networks(file)) /\ (op[q].early \/ Online(Host)) /\ (op[q].early => Online(before))
    BY <1>1, <1>2, <1>6 DEF Trying, InPlace
  <2>2. Answered(q)'
    BY <1>3, <1>5, <1>6, <2>1 DEF Answered
  <2> QED
    BY <1>4, <1>6, <2>2
<1>7. ASSUME NEW word \in {"reverted", "error"}, Finish(q, word), op[q].trial # "accepted"
      PROVE  LoneApply(q)'
  <2>1. op[q].trial = "waiting" \/ Host = before
    BY <1>2, <1>7 DEF Trying, InPlace
  <2>2. Answered(q)'
    BY <1>1, <1>3, <1>5, <1>7, <2>1 DEF Answered
  <2> QED
    BY <1>4, <1>7, <2>2
<1>8. ~op[q].ok => op[q].trial # "accepted"
  BY <1>2 DEF Trying
<1> QED
  BY <1>6, <1>7, <1>8, VerdictIs

LEMMA ServeLone ==
  ASSUME Typed, AllPlanned, Alone, AllLone, NEW q \in Req, Serve(q)
  PROVE  AllLone'
<1>1. pc[q] # "idle" /\ solo' = solo
  BY ServeFrame
<1>2. ASSUME NEW r \in Req, solo' = r, op'[r].kind = "apply" PROVE LoneApply(r)'
  <2>1. r = q /\ solo = q
    BY <1>1, <1>2, NetAssumption DEF Alone
  <2>2. LoneApply(q) /\ Carries(q) /\ op \in [Req -> Operation] /\ op[q] \in Operation
    BY DEF AllLone, Typed, TypeOK
  <2>3. ASSUME NEW word, Finish(q, word) PROVE op[q].kind = "apply"
    BY <1>2, <2>1, <2>3, FinishIs
  <2>4. CASE Check(q) \/ Commit(q) \/ ReadRows(q) \/ UpsertRows(q)
    <3>1. op[q].kind # "apply"
      BY <2>2, <2>4 DEF Carries, Check, Commit, ReadRows, UpsertRows
    <3>2. op'[q].kind = op[q].kind
      <4>1. ASSUME NEW word, Finish(q, word) PROVE op'[q].kind = op[q].kind
        BY <2>1, <4>1, FinishIs
      <4>2. CASE ReadRows(q)
        BY <2>2, <4>2 DEF ReadRows, Operation
      <4> QED
        BY <2>4, <4>1, <4>2 DEF Check, Commit, UpsertRows
    <3> QED
      BY <1>2, <2>1, <3>1, <3>2
  <2>5. CASE Discover(q)
    <3>1. op[q].kind = "apply"
      <4>1. CASE op' = [op EXCEPT ![q].live = Host]
        BY <1>2, <2>1, <2>2, <4>1 DEF Operation
      <4>2. CASE op' = [op EXCEPT ![q].live.default = default]
        BY <1>2, <2>1, <2>2, <4>2 DEF Operation
      <4> QED
        BY <2>3, <2>5, <4>1, <4>2 DEF Discover
    <3> QED
      BY <2>1, <2>2, <2>5, <3>1, DiscoverLone
  <2>6. CASE PlanChanges(q) \/ RunStep(q) \/ WriteNetplan(q) \/ TryWrite(q) \/ NetplanTry(q)
             \/ TrialStep(q) \/ Verdict(q)
    <3>1. pc[q] \in {"plan", "steps", "file", "try", "probe", "confirm", "wait"}
      BY <2>6, TrialIs, VerdictIs
         DEF PlanChanges, RunStep, WriteNetplan, TryWrite, NetplanTry, Tries
    <3>2. op[q].kind = "apply"
      BY <2>2, <3>1 DEF Carries
    <3> QED
      BY <2>1, <2>2, <2>6, <3>2, PlanChangesLone, RunStepLone, WriteNetplanLone, TryWriteLone,
         NetplanTryLone, TrialLone, VerdictLone
  <2> QED
    BY <2>4, <2>5, <2>6 DEF Serve, TrialStep
<1> QED
  BY <1>2 DEF AllLone, LoneApply

LEMMA NextLone ==
  ASSUME Typed, AllPlanned, Alone, AllLone, [Next]_vars
  PROVE  AllLone'
<1>1. CASE Reboot
  <2>1. \A q \in Req : solo' # q
    BY <1>1, NetAssumption DEF Reboot
  <2> QED
    BY <2>1 DEF AllLone, LoneApply
<1>2. CASE Waiting \/ UNCHANGED vars
  <2>1. /\ addrs' = addrs /\ up' = up /\ default' = default /\ before' = before
        /\ pc' = pc /\ op' = op /\ solo' = solo /\ file' = file
    BY <1>2 DEF Waiting, vars
  <2>2. ASSUME NEW q \in Req, LoneApply(q) PROVE LoneApply(q)'
    <3>1. Still(q)' <=> Still(q)
      BY <2>1 DEF Still, Trying, Answered, InPlace, IsAs, Tries, Online, Connected, Host
    <3>2. Spared(q)' <=> Spared(q)
      BY <2>1 DEF Spared, Connected, Host
    <3>3. Reaching(q)' <=> Reaching(q)
      <4>1. \A c : Nearing(q, c)' <=> Nearing(q, c)
        BY <2>1 DEF Nearing, Pending
      <4>2. Desired(q)' = Desired(q) /\ (Routing(q)' <=> Routing(q))
        BY <2>1 DEF Desired, Routing, Pending
      <4> QED
        BY <2>1, <4>1, <4>2 DEF Reaching
    <3> QED
      BY <2>1, <2>2, <3>1, <3>2, <3>3 DEF LoneApply
  <2> QED
    BY <2>2 DEF AllLone
<1> QED
  BY <1>1, <1>2, RequestLone, ServeLone DEF Next

LEMMA InitLone ==
  ASSUME Init
  PROVE  AllPlanned /\ Alone /\ AllLone
<1>1. /\ \A q \in Req : pc[q] = "idle" /\ solo # q
      /\ solo = None
  BY NetAssumption DEF Init
<1> QED
  BY <1>1 DEF AllPlanned, Planned, Alone, AllLone, LoneApply

Lone == Typed /\ AllPlanned /\ Alone /\ AllLone

LEMMA LoneInvariant == Spec => []Lone
<1>1. Init => Lone
  BY InitTyped, InitLone DEF Lone
<1>2. Lone /\ [Next]_vars => Lone'
  BY NextTyped, NextPlanned, NextAlone, NextLone DEF Lone
<1> QED
  BY <1>1, <1>2, PTL DEF Spec

\* UnforcedSpares: an apply that ran alone and was not forced has left the
\* interface of the default route as it was, and a default route if there was
\* one, whichever of its commands failed.
THEOREM DefaultSpared == Spec => []UnforcedSpares
<1>1. Lone => UnforcedSpares
  BY DEF Lone, UnforcedSpares, Ended, AllLone, LoneApply, Spared
<1> QED
  BY <1>1, LoneInvariant, PTL

\* TryIsSafe: a try that ran alone and was told ok has the networks of the file
\* in place, and the probes have passed on them, or on the old ones if they were
\* early; with any other answer the host is as it was, unless netplan was killed
\* with the new networks in place.  The probes, the newline, netplan's commands and
\* its time-out may come in any order.
THEOREM TrySafe == Spec => []TryIsSafe
<1>1. Lone => TryIsSafe
  BY DEF Lone, TryIsSafe, Ended, AllLone, LoneApply, Still, Answered
<1> QED
  BY <1>1, LoneInvariant, PTL
-----------------------------------------------------------------------------
(* What an apply was told it has done.                                      *)

LEMMA RenderedIs ==
  ASSUME TypeOK, NEW q \in Req, ~Impossible(q), NEW c \in Desired(q), Managed(c), c.addr # None
  PROVE  Rendered(q)[c.iface] # None /\ Rendered(q)[c.iface].addr = c.addr
<1> DEFINE of(i) == CHOOSE d \in Desired(q) : d.iface = i
           static(d) == Managed(d) /\ d.addr # None
           stanza(d) == [dhcp |-> d.enabled /\ d.dhcp,
                         addr |-> IF static(d) THEN d.addr ELSE None,
                         gw |-> static(d) /\ d.gw]
<1>1. c.iface \in Iface
  BY OperationTyped DEF NetworkInterface
<1>2. of(c.iface) = c
  <2>1. of(c.iface) \in Desired(q) /\ of(c.iface).iface = c.iface
    OBVIOUS
  <2> HIDE DEF of
  <2> QED
    BY <2>1, Distinct
<1>3. Rendered(q)[c.iface] = stanza(of(c.iface))
  BY <1>1 DEF Rendered
<1>4. stanza(c).addr = c.addr
  OBVIOUS
<1>5. Rendered(q)[c.iface] \in Stanza \cup {None} /\ stanza(c) \in Stanza
  <2>1. c \in NetworkInterface
    BY OperationTyped
  <2> QED
    BY <1>1, <2>1, RenderedType DEF File, Stanza, NetworkInterface, Managed
<1> HIDE DEF of, stanza
<1> QED
  BY <1>2, <1>3, <1>4, <1>5, RowsAssumption

LEMMA NoGoal ==
  ASSUME goal' = {}
  PROVE  GoalInv'
BY DEF GoalInv

\* It is not an apply that the last lone request was.
LEMMA GoalStays ==
  ASSUME Typed, GoalInv, goal' = goal, file' = file, UNCHANGED host, Ended(FALSE)' = {},
         \A q \in Req : op'[q].kind = "apply" => op[q].kind = "apply" /\ pc'[q] = pc[q]
  PROVE  GoalInv'
<1>1. addrs' = addrs /\ up' = up
  BY DEF host
<1> QED
  BY <1>1 DEF GoalInv

LEMMA RequestGoal ==
  ASSUME Typed, GoalInv, NEW q \in Req, pc[q] = "idle", Request(q)
  PROVE  GoalInv'
<1>1. /\ UNCHANGED <<host, file>> /\ solo' \in {q, None}
      /\ \A r \in Req : r # q => pc'[r] = pc[r] /\ op'[r] \in {Rest, op[r]}
  BY BeginIs
<1>2. CASE goal' = {}
  BY <1>2, NoGoal
<1>3. CASE op'[q].kind # "apply" /\ goal' = goal
  <2>1. Ended(FALSE)' = {}
    BY <1>1, <1>3, NetAssumption DEF Ended
  <2>2. Rest.kind = "update"
    BY DEF Rest
  <2>3. \A r \in Req : op'[r].kind = "apply" => op[r].kind = "apply" /\ pc'[r] = pc[r]
    BY <1>1, <1>3, <2>2
  <2> QED
    BY <1>1, <1>3, <2>1, <2>3, GoalStays
<1> QED
  BY <1>2, <1>3, BeginIs

LEMMA WriteNetplanGoal ==
  ASSUME Lone, GoalInv, NEW q \in Req, WriteNetplan(q)
  PROVE  GoalInv'
<1>1. /\ pc[q] = "file" /\ ~op[q].try /\ UNCHANGED host /\ op[q].kind = "apply"
      /\ Planned(q) /\ TypeOK /\ Typed
  BY DEF WriteNetplan, Lone, Typed, Carries, AllPlanned
<1>2. goal = {}
  BY <1>1 DEF GoalInv
<1>3. CASE goal' # {}
  <2>1. /\ file' = Rendered(q) /\ solo = q /\ op[q].ok /\ goal' = Desired(q) /\ Finish(q, "ok")
    BY <1>2, <1>3 DEF WriteNetplan, Persisted
  <2>2. /\ ~Impossible(q) /\ op[q].plan = {}
        /\ (\A c \in Desired(q) : Nearing(q, c)) /\ Routing(q)
    BY <1>1, <2>1 DEF Planned, Lone, AllLone, LoneApply, Reaching
  <2>3. addrs' = addrs /\ up' = up /\ default' = default /\ Rendered(q) \in File
    BY <1>1, RenderedType DEF host
  <2>4. \A r \in Req : pc'[r] = "idle"
    BY <1>1, <2>1, FinishIs, NetAssumption DEF Lone, Alone
  <2>5. ASSUME NEW c \in Desired(q), Managed(c), c.addr # None
        PROVE  /\ c.addr \in addrs[c.iface] /\ up[c.iface] /\ c.iface \in Iface
               /\ file' # None /\ file'[c.iface] # None /\ file'[c.iface].addr = c.addr
    <3>1. c.addr \in addrs[c.iface] /\ up[c.iface]
      BY <2>2, <2>5 DEF Nearing, Pending, Managed
    <3>2. file'[c.iface] # None /\ file'[c.iface].addr = c.addr /\ file' # None
      BY <1>1, <2>1, <2>2, <2>3, <2>5, RenderedIs, RowsAssumption
    <3> QED
      BY <1>1, <3>1, <3>2, OperationTyped DEF NetworkInterface
  <2>6. ASSUME NEW c \in Desired(q) PROVE Brought(c)'
    <3>1. Nearing(q, c) /\ op[q].plan = {}
      BY <2>2
    <3>2. CASE Managed(c) /\ c.addr # None
      <4>1. addrs[c.iface] = {c.addr} /\ up[c.iface]
        BY <2>5, <3>1, <3>2 DEF Nearing, Pending
      <4>2. ~(~c.dhcp /\ ~c.enabled)
        BY <3>2 DEF Managed
      <4> QED
        BY <2>3, <3>2, <4>1, <4>2 DEF Brought
    <3>3. CASE ~c.dhcp /\ ~c.enabled
      <4>1. addrs[c.iface] = {} /\ ~up[c.iface]
        BY <3>1, <3>3 DEF Nearing, Pending
      <4>2. ~Managed(c)
        BY <3>3 DEF Managed
      <4> QED
        BY <2>3, <3>3, <4>1, <4>2 DEF Brought
    <3>4. CASE ~(Managed(c) /\ c.addr # None) /\ ~(~c.dhcp /\ ~c.enabled)
      <4>1. c \in NetworkInterface
        BY <1>1, OperationTyped
      <4>2. up[c.iface] = c.enabled
        <5>1. c.enabled \in BOOLEAN /\ up[c.iface] \in BOOLEAN
          BY <1>1, <4>1, HostTyped DEF NetworkInterface, TypeOK
        <5>2. IF c.enabled THEN up[c.iface] ELSE ~up[c.iface]
          BY <3>1 DEF Nearing, Pending
        <5> QED
          BY <5>1, <5>2
      <4> QED
        BY <2>3, <3>4, <4>2 DEF Brought
    <3> QED
      BY <3>2, <3>3, <3>4
  <2>7. (\E c \in Desired(q) : Managed(c) /\ c.gw) =>
          \E c \in Desired(q) : Managed(c) /\ c.gw /\ c.iface = default'
    BY <2>2, <2>3 DEF Routing, Pending
  <2> QED
    BY <2>1, <2>3, <2>4, <2>5, <2>6, <2>7 DEF GoalInv
<1> QED
  BY <1>3, NoGoal

LEMMA ServeGoal ==
  ASSUME Lone, GoalInv, NEW q \in Req, Serve(q)
  PROVE  GoalInv'
<1>1. /\ Typed /\ pc[q] # "idle" /\ solo' = solo /\ Carries(q)
      /\ \A r \in Req : r # q => pc'[r] = pc[r] /\ op'[r] = op[r]
      /\ op \in [Req -> Operation] /\ op[q] \in Operation
  BY ServeFrame DEF Lone, Typed, TypeOK
<1>2. CASE WriteNetplan(q)
  BY <1>2, WriteNetplanGoal
<1>3. CASE ~WriteNetplan(q) /\ goal = {}
  <2>1. goal' = goal
    BY <1>3 DEF Serve, Check, Commit, Discover, ReadRows, UpsertRows, PlanChanges, RunStep,
       TryWrite, NetplanTry, Probe, Confirm, Verdict, NetplanApplies, NetplanAccepts,
       NetplanReverts
  <2> QED
    BY <1>3, <2>1, NoGoal
<1>4. CASE ~WriteNetplan(q) /\ goal # {}
  <2>1. op[q].kind # "apply"
    BY <1>1, <1>4 DEF GoalInv
  <2>2. Check(q) \/ Commit(q) \/ Discover(q) \/ ReadRows(q) \/ UpsertRows(q)
    <3>1. CASE PlanChanges(q) \/ RunStep(q) \/ TryWrite(q) \/ NetplanTry(q)
      BY <1>1, <2>1, <3>1 DEF Carries, PlanChanges, RunStep, TryWrite, NetplanTry
    <3>2. CASE TrialStep(q) \/ Verdict(q)
      <4>1. pc[q] \in {"probe", "confirm", "wait"}
        BY <1>1, <3>2, TrialIs, VerdictIs DEF Tries
      <4> QED
        BY <1>1, <2>1, <4>1 DEF Carries
    <3> QED
      BY <1>4, <3>1, <3>2 DEF Serve, TrialStep
  <2>3. goal' = goal /\ file' = file /\ UNCHANGED host
    BY <2>2 DEF Check, Commit, Discover, ReadRows, UpsertRows
  <2>4. op'[q].kind # "apply"
    <3>1. ASSUME NEW word, Finish(q, word) PROVE op'[q].kind # "apply"
      BY <1>1, <2>1, <3>1, FinishIs
    <3>2. CASE Check(q) \/ Commit(q) \/ UpsertRows(q)
      BY <2>1, <3>1, <3>2 DEF Check, Commit, UpsertRows
    <3>3. CASE ReadRows(q)
      BY <1>1, <2>1, <3>3 DEF ReadRows, Operation
    <3>4. CASE Discover(q)
      <4>1. CASE op' = [op EXCEPT ![q].live = Host]
        BY <1>1, <2>1, <4>1 DEF Operation
      <4>2. CASE op' = [op EXCEPT ![q].live.default = default]
        BY <1>1, <2>1, <4>2 DEF Operation
      <4> QED
        BY <3>1, <3>4, <4>1, <4>2 DEF Discover
    <3> QED
      BY <2>2, <3>2, <3>3, <3>4
  <2>5. Ended(FALSE)' = {}
    <3>1. \A r \in Req : solo = r => r = q
      BY <1>1, NetAssumption DEF Lone, Alone
    <3> QED
      BY <1>1, <2>4, <3>1 DEF Ended
  <2>6. \A r \in Req : op'[r].kind = "apply" => op[r].kind = "apply" /\ pc'[r] = pc[r]
    BY <1>1, <2>4
  <2> QED
    BY <1>1, <2>3, <2>5, <2>6, GoalStays
<1> QED
  BY <1>2, <1>3, <1>4

LEMMA NextGoal ==
  ASSUME Lone, GoalInv, [Next]_vars
  PROVE  GoalInv'
<1>1. Typed
  BY DEF Lone
<1>2. CASE Reboot
  <2>1. /\ goal' = goal /\ file' = file /\ addrs' = Networks(file).addrs
        /\ up' = Networks(file).up /\ Ended(FALSE)' = {} /\ \A q \in Req : pc'[q] = "idle"
    BY <1>2, NetAssumption DEF Reboot, Becomes, Ended
  <2>2. ASSUME NEW c \in goal, Managed(c), c.addr # None
        PROVE  c.addr \in addrs'[c.iface] /\ up'[c.iface]
    <3>1. c.iface \in Iface /\ file # None /\ file[c.iface] # None /\ file[c.iface].addr = c.addr
      BY <1>1, <2>2 DEF GoalInv, Typed, TypeOK, NetworkInterface
    <3> QED
      BY <2>1, <2>2, <3>1 DEF Networks
  <2> QED
    BY <2>1, <2>2 DEF GoalInv
<1>3. CASE Waiting \/ UNCHANGED vars
  <2>1. /\ addrs' = addrs /\ up' = up /\ default' = default /\ file' = file /\ goal' = goal
        /\ pc' = pc /\ op' = op /\ solo' = solo
    BY <1>3 DEF Waiting, vars
  <2> QED
    BY <2>1 DEF GoalInv, Ended, Brought
<1> QED
  BY <1>1, <1>2, <1>3, RequestGoal, ServeGoal DEF Next

\* Applied: an apply that ran alone and was told ok has brought the host to its
\* rows; after a reboot their addresses are there again.
THEOREM AppliesReach == Spec => []Applied
<1>1. Init => Lone /\ GoalInv
  BY InitTyped, InitLone DEF Lone, Init, GoalInv
<1>2. Lone /\ GoalInv /\ [Next]_vars => GoalInv'
  BY NextGoal
<1>3. GoalInv => Applied
  BY DEF GoalInv, Applied
<1> QED
  BY <1>1, <1>2, <1>3, LoneInvariant, PTL DEF Spec
===============================================================================
