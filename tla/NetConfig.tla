------------------------------ MODULE NetConfig ------------------------------
(***************************************************************************)
(* The interfaces of a host: the gateway keeps a row per interface, and     *)
(* refreshes the rows from the host or has the node agent apply them.  The  *)
(* agent discovers, plans, asks its guards, and then changes the host one   *)
(* command at a time, or lets `netplan try' do it.  Nothing serialises      *)
(* applies: every await lets the others in.                                 *)
(*                                                                          *)
(* An interface's gateway is in its row or not; the base netplan files are  *)
(* the administrator's.                                                     *)
(***************************************************************************)
EXTENDS Naturals, FiniteSets, SequencesExt

CONSTANTS
  Req,              \* requests that may be under way at once
  Iface, Address,
  Wan,              \* the address that is excluded from automation
  Base, Uplink,     \* what the base netplan files configure
  Routed,           \* the interfaces whose gateway reaches the Internet
  Wanted,           \* the rows an administrator writes
  None,
  MaxRequests, MaxFaults, MaxReboots    \* bounds of a behaviour

ASSUME NetAssumption ==
  /\ Wan \in Address /\ Base \in [Iface -> SUBSET Address]
  /\ Uplink \in Iface /\ Routed \subseteq Iface
  /\ None \notin Req /\ None \notin Iface
  /\ {MaxRequests, MaxFaults, MaxReboots} \subseteq Nat

\* A request makes a row of every interface at most.
Row == 1 .. (MaxRequests + 1) * Cardinality(Iface)

NetworkInterface ==
  [iface : Iface, dhcp : BOOLEAN, addr : Address \cup {None}, gw : BOOLEAN,
   enabled : BOOLEAN]
\* What the agent's netplan file says of an interface: None if it is not in it.
Stanza == [dhcp : BOOLEAN, addr : Address \cup {None}, gw : BOOLEAN]
File == [Iface -> Stanza \cup {None}]

ASSUME RowsAssumption ==
  /\ IsFiniteSet(Iface) /\ Wanted \subseteq NetworkInterface
  /\ None \notin NetworkInterface /\ None \notin Stanza /\ None \notin File

VARIABLES
  rows, nRows,          \* the rows; how many ids were given
  addrs, up, default,   \* the host: addresses, link states, default route
  file,                 \* the agent's netplan file
  pc, op,               \* where each request is, and what it does
  solo,                 \* history: the last request, if it ran beside no other
  before,               \* history: the host when the last request began
  goal,                 \* history: what the last lone apply was told it has done
  nRequests, nFaults, nReboots

vars == <<rows, nRows, addrs, up, default, file, pc, op, solo, before,
          goal, nRequests, nFaults, nReboots>>
table   == <<rows, nRows>>
host    == <<addrs, up, default>>
history == <<solo, before>>

Stage == {"idle", "check", "commit", "addresses", "route", "plan", "steps", "file",
          "try", "probe", "confirm", "wait", "upsert", "rows"}
\* Where a `netplan try' that was started is.
Trial == {"none", "starting", "waiting", "accepted", "reverted", "failed"}
Kind == {"create", "update", "delete", "refresh", "apply"}
\* The actions of a plan, in the order an interface takes them.
Order == [address |-> 1, stale |-> 2, up |-> 3, down |-> 3, gateway |-> 4, nogateway |-> 4]
Step == [iface : Iface, action : DOMAIN Order, addr : Address \cup {None}]
Host == [addrs |-> addrs, up |-> up, default |-> default]
Hosts == [addrs : [Iface -> SUBSET Address], up : [Iface -> BOOLEAN],
          default : Iface \cup {None}]

\* `seen' is what it has read of the rows, `live' of the host; `at' is the
\* interface whose steps it is running.  `trial' is its `netplan try', which goes
\* back to `live'; `early' is that the probes ran before it had put anything in
\* place.
Operation ==
  [kind : Kind, id : Row \cup {None}, new : NetworkInterface \cup {None},
   seen : SUBSET [id : Row, row : NetworkInterface], live : Hosts \cup {None},
   force : BOOLEAN, try : BOOLEAN, plan : SUBSET Step, at : Iface \cup {None},
   ok : BOOLEAN, trial : Trial, early : BOOLEAN,
   told : {"nothing", "ok", "error", "reverted"}]
Rest == [kind |-> "update", id |-> None, new |-> None, seen |-> {}, live |-> None,
         force |-> FALSE, try |-> FALSE, plan |-> {}, at |-> None, ok |-> TRUE,
         trial |-> "none", early |-> FALSE, told |-> "nothing"]

TypeOK ==
  /\ rows \in [Row -> NetworkInterface \cup {None}] /\ nRows \in Nat
  /\ Host \in Hosts /\ file \in File \cup {None}
  /\ pc \in [Req -> Stage] /\ op \in [Req -> Operation]
  /\ solo \in Req \cup {None} /\ before \in Hosts
  /\ goal \subseteq NetworkInterface
  /\ nRequests \in 0 .. MaxRequests /\ nFaults \in 0 .. MaxFaults
  /\ nReboots \in 0 .. MaxReboots

Ids == {n \in Row : rows[n] # None}

\* Rows of different interfaces, and a host as its base files have it.
Init ==
  /\ \E old \in SUBSET Wanted :
       /\ \A c, d \in old : c.iface = d.iface => c = d
       /\ nRows = Cardinality(old)
       /\ rows = [n \in Row |-> IF n \in 1 .. nRows THEN SetToSeq(old)[n] ELSE None]
  /\ addrs = Base /\ up = [i \in Iface |-> Base[i] # {}] /\ default = Uplink
  /\ file = None
  /\ pc = [q \in Req |-> "idle"] /\ op = [q \in Req |-> Rest]
  /\ solo = None /\ before = Host /\ goal = {}
  /\ nRequests = 0 /\ nFaults = 0 /\ nReboots = 0

Running == {q \in Req : pc[q] # "idle"}
Goto(q, stage) == pc' = [pc EXCEPT ![q] = stage]
Works == UNCHANGED nFaults
Fault == nFaults < MaxFaults /\ nFaults' = nFaults + 1

-----------------------------------------------------------------------------
(* The gateway's routes.                                                    *)

Begin(q, o, stage) ==
  /\ nRequests' = nRequests + 1
  /\ Goto(q, stage)
  /\ op' = [r \in Req |-> IF r = q THEN o ELSE IF r \in Running THEN op[r] ELSE Rest]
  /\ solo' = IF Running = {} THEN q ELSE None
  /\ before' = Host
  /\ goal' = IF o.kind = "apply" THEN {} ELSE goal
  /\ UNCHANGED <<table, host, file, nFaults, nReboots>>

Known(ids) == {[id |-> n, row |-> rows[n]] : n \in ids}

CreateInterface(q, new) ==
  Begin(q, [Rest EXCEPT !.kind = "create", !.new = new], "check")
UpdateInterface(q, n, new) ==
  /\ n \in Ids
  /\ Begin(q, [Rest EXCEPT !.id = n, !.new = new, !.seen = Known({n})],
           IF new.iface = rows[n].iface THEN "commit" ELSE "check")
DeleteInterface(q, n) ==
  n \in Ids /\ Begin(q, [Rest EXCEPT !.kind = "delete", !.id = n], "commit")
RefreshInterfaces(q) == Begin(q, [Rest EXCEPT !.kind = "refresh"], "addresses")
ApplyInterfaces(q, force) ==
  Begin(q, [Rest EXCEPT !.kind = "apply", !.force = force, !.seen = Known(Ids)], "addresses")

\* The gateway's schema has no try_mode; whoever has the agent's key has.
ApplyOfAgent(q, force) ==
  Begin(q, [Rest EXCEPT !.kind = "apply", !.force = force, !.try = TRUE, !.seen = Known(Ids)],
        "addresses")

\* What is kept of a finished request is what it was, if it ran alone.
Finish(q, word) ==
  /\ Goto(q, "idle")
  /\ op' = [op EXCEPT ![q] = IF solo # q THEN Rest
              ELSE [Rest EXCEPT !.kind = op[q].kind, !.force = op[q].force,
                                !.try = op[q].try, !.trial = op[q].trial,
                                !.early = op[q].early, !.told = word]]

Taken(i) == {n \in Ids : rows[n].iface = i}

\* 409 if the interface has a row.
Check(q) ==
  /\ pc[q] = "check"
  /\ IF Taken(op[q].new.iface) # {} THEN Finish(q, "error")
     ELSE Goto(q, "commit") /\ UNCHANGED op
  /\ UNCHANGED <<table, host, file, history, goal, nRequests, nFaults, nReboots>>

\* An UPDATE has the columns that differ from what was read.
Emitted(seen, new, row) ==
  [c \in DOMAIN row |-> IF seen[c] = new[c] THEN row[c] ELSE new[c]]

Commit(q) ==
  LET n == IF op[q].kind = "create" THEN nRows + 1 ELSE op[q].id IN
  /\ pc[q] = "commit"
  /\ \/ /\ op[q].kind = "update" => n \in Ids
        /\ rows' = [rows EXCEPT ![n] =
             CASE op[q].kind = "create" -> op[q].new
               [] op[q].kind = "delete" -> None
               [] OTHER -> Emitted((CHOOSE c \in op[q].seen : TRUE).row, op[q].new, @)]
        /\ nRows' = IF n > nRows THEN n ELSE nRows
        /\ Finish(q, "ok")
     \/ op[q].kind = "update" /\ n \notin Ids /\ Finish(q, "error") /\ UNCHANGED table
  /\ UNCHANGED <<host, file, history, goal, nRequests, nFaults, nReboots>>

-----------------------------------------------------------------------------
(* Discovery, by refresh and by apply: addresses and links, then the route. *)

Discover(q) ==
  /\ pc[q] \in {"addresses", "route"}
  /\ \/ /\ Works
        /\ \/ /\ pc[q] = "addresses" /\ Goto(q, "route")
              /\ op' = [op EXCEPT ![q].live = Host]
           \/ /\ pc[q] = "route" /\ Goto(q, IF op[q].kind = "apply" THEN "plan" ELSE "upsert")
              /\ op' = [op EXCEPT ![q].live.default = default]
     \/ Fault /\ Finish(q, "error")
  /\ UNCHANGED <<table, host, file, history, goal, nRequests, nReboots>>

\* _upsert_live_interfaces: the rows are read, and then written.
ReadRows(q) ==
  /\ pc[q] = "upsert" /\ Goto(q, "rows")
  /\ op' = [op EXCEPT ![q].seen = Known(Ids)]
  /\ UNCHANGED <<table, host, file, history, goal, nRequests, nFaults, nReboots>>

\* The values of one of the interface's addresses, and of the default route if
\* it is there: any other gateway that was asked for is forgotten.
Refreshed(q, row) ==
  LET here == op[q].live.addrs[row.iface] IN
  [row EXCEPT !.addr = IF here = {} THEN None ELSE CHOOSE a \in here : TRUE,
              !.gw = (op[q].live.default = row.iface)]

\* One row of every interface, whichever is the last to be read.
ByName(seen) ==
  {known \in SUBSET seen :
     /\ \A c, d \in known : c.row.iface = d.row.iface => c = d
     /\ \A c \in seen : \E d \in known : d.row.iface = c.row.iface}

UpsertRows(q) ==
  \E known \in ByName(op[q].seen) :
    LET new   == SetToSeq(Iface \ {c.row.iface : c \in known})
        Found(n) == {c.row : c \in {d \in known : d.id = n}}
        Differs(n) == \E row \in Found(n) : Refreshed(q, row) # row
        Fresh(i) == Refreshed(q, [iface |-> i, dhcp |-> TRUE, addr |-> None, gw |-> FALSE,
                                  enabled |-> TRUE])
    IN
    /\ pc[q] = "rows"
    /\ IF \E n \in Row \ Ids : Differs(n)      \* its UPDATE finds no row: 500
       THEN Finish(q, "error") /\ UNCHANGED table
       ELSE /\ Finish(q, "ok")
            /\ nRows' = nRows + Len(new)
            /\ rows' = [n \in Row |->
                 IF n - nRows \in DOMAIN new THEN Fresh(new[n - nRows])
                 ELSE IF n \in Ids /\ Differs(n)
                 THEN LET row == CHOOSE c \in Found(n) : TRUE
                      IN  Emitted(row, Refreshed(q, row), rows[n])
                 ELSE rows[n]]
    /\ UNCHANGED <<host, file, history, goal, nRequests, nFaults, nReboots>>

-----------------------------------------------------------------------------
(* plan_changes, guard_plan, check_wan_guardrails, render_netplan.          *)

Desired(q) == {c.row : c \in op[q].seen}
Managed(c) == c.enabled /\ ~c.dhcp

\* Two rows of an interface, or a gateway without an address: ValueError.
Impossible(q) ==
  \/ \E c, d \in op[q].seen : c # d /\ c.row.iface = d.row.iface
  \/ \E c \in Desired(q) : Managed(c) /\ c.gw /\ c.addr = None

When(condition, c, action, addr) ==
  IF condition THEN {[iface |-> c.iface, action |-> action, addr |-> addr]} ELSE {}

\* What brings an interface to its row: addresses, link and gateway.
Changes(live, c) ==
  LET here  == live.addrs[c.iface]
      stale == CASE Managed(c) /\ c.addr # None -> here \ {c.addr}
                 [] ~c.dhcp /\ ~c.enabled -> here
                 [] OTHER -> {}
  IN  When(Managed(c) /\ c.addr # None /\ c.addr \notin here, c, "address", c.addr)
      \cup {[iface |-> c.iface, action |-> "stale", addr |-> a] : a \in stale}
      \cup When(c.enabled /\ ~live.up[c.iface], c, "up", None)
      \cup When(~c.enabled /\ live.up[c.iface], c, "down", None)
      \cup When(Managed(c) /\ c.gw /\ live.default # c.iface, c, "gateway", None)
      \cup When(Managed(c) /\ ~c.gw /\ live.default = c.iface, c, "nogateway", None)
Plan(q) == UNION {Changes(op[q].live, c) : c \in Desired(q)}

BrokenGuardPlan(q, plan) ==
  ~op[q].force /\ \E s \in plan :
     s.iface = op[q].live.default /\ s.action \in {"address", "stale", "gateway"}
\* The interface of the default route is left alone, unless forced.
GuardPlan(q, plan) ==
  ~op[q].force /\ \E s \in plan : s.iface = op[q].live.default

Rendered(q) ==
  [i \in Iface |->
     IF ~\E c \in Desired(q) : c.iface = i THEN None
     ELSE LET c == CHOOSE c \in Desired(q) : c.iface = i
              static == Managed(c) /\ c.addr # None
          IN  [dhcp |-> c.enabled /\ c.dhcp, addr |-> IF static THEN c.addr ELSE None,
               gw |-> static /\ c.gw]]

Listed(f) == {i \in Iface : f[i] # None}
HasWan(f) == \E i \in Listed(f) : f[i].addr = Wan
HasDefault(f) == \E i \in Listed(f) : f[i].gw

BrokenGuardrails(q, plan, old) ==
  \E s \in plan : s.action = "nogateway"
\* force does not help here; `old' is what was read of the agent's file.
Guardrails(q, plan, old) ==
  \/ \E s \in plan : (s.action = "stale" /\ s.addr = Wan) \/ s.action = "nogateway"
  \/ old # None /\ (\/ HasWan(old) /\ ~HasWan(Rendered(q))
                    \/ HasDefault(old) /\ ~HasDefault(Rendered(q)))

\* A file that cannot be read is none.
ReadExisting(old) == IF old = file THEN Works ELSE old = None /\ Fault

\* The netplan directory is copied before anything changes, or nothing does.
SnapshotFails(q) == Fault /\ Finish(q, "error")

PlanChanges(q) ==
  /\ pc[q] = "plan"
  /\ \E old \in {file, None} :
       LET plan == Plan(q)
           refused == Impossible(q) \/ GuardPlan(q, plan) \/ Guardrails(q, plan, old) IN
       \/ /\ ReadExisting(old)
          /\ IF refused THEN Finish(q, "error")
             ELSE /\ op' = [op EXCEPT ![q].plan = plan]
                  /\ Goto(q, IF op[q].try \/ plan = {} THEN "file" ELSE "steps")
       \/ ~refused /\ SnapshotFails(q)
  /\ UNCHANGED <<table, host, file, history, goal, nRequests, nReboots>>

-----------------------------------------------------------------------------
(* The commands, and what the kernel does.                                  *)

\* An interface that goes down, or loses its last address, takes its routes along.
Flushed(i) == IF default = i THEN None ELSE default

Possible(s) ==
  CASE s.action = "stale" -> s.addr \in addrs[s.iface]
    [] s.action = "gateway" -> up[s.iface] /\ addrs[s.iface] # {}
    [] OTHER -> TRUE

Kernel(s) ==
  LET i == s.iface IN
  /\ addrs' = CASE s.action = "address" -> [addrs EXCEPT ![i] = @ \cup {s.addr}]
                [] s.action = "stale" -> [addrs EXCEPT ![i] = @ \ {s.addr}]
                [] OTHER -> addrs
  /\ up' = CASE s.action = "up" -> [up EXCEPT ![i] = TRUE]
             [] s.action = "down" -> [up EXCEPT ![i] = FALSE]
             [] OTHER -> up
  /\ default' = CASE s.action = "gateway" -> i
                  [] s.action = "down" \/ addrs'[i] = {} -> Flushed(i)
                  [] OTHER -> default

\* The steps of an interface follow each other; the interfaces come in the order
\* of the rows, which is none.
Due(q) ==
  {s \in op[q].plan :
     /\ s.iface = op[q].at \/ \A t \in op[q].plan : t.iface # op[q].at
     /\ \A t \in op[q].plan : t.iface = s.iface => Order[s.action] <= Order[t.action]}

\* A command that fails is noted, and the next one follows.
RunStep(q) ==
  /\ pc[q] = "steps"
  /\ \E s \in Due(q) :
       /\ \E ok \in BOOLEAN :
            /\ IF ok THEN Possible(s) /\ Works /\ Kernel(s)
               ELSE (IF Possible(s) THEN Fault ELSE Works) /\ UNCHANGED host
            /\ op' = [op EXCEPT ![q].plan = @ \ {s}, ![q].at = s.iface, ![q].ok = @ /\ ok]
       /\ IF op[q].plan = {s} THEN Goto(q, "file") ELSE UNCHANGED pc
  /\ UNCHANGED <<table, file, history, goal, nRequests, nReboots>>

\* The file has the interfaces of this request, and no others.
BrokenPersisted(q) == [i \in Iface |-> None]
Persisted(q) == Rendered(q)

\* `goal' is what a lone apply was told of.
WriteNetplan(q) ==
  /\ pc[q] = "file" /\ ~op[q].try
  /\ \/ /\ Works /\ file' = Persisted(q)
        /\ Finish(q, IF op[q].ok THEN "ok" ELSE "error")
        /\ goal' = IF solo = q /\ op[q].ok THEN Desired(q) ELSE {}
     \/ Fault /\ UNCHANGED <<file, goal>> /\ Finish(q, "error")
  /\ UNCHANGED <<table, host, history, nRequests, nReboots>>

-----------------------------------------------------------------------------
(* Try mode: the file first, then `netplan try' in a process of its own, a    *)
(* pause, the probes, a newline or none, and what the process made of it.     *)

\* What netplan makes of the base files and the agent's: addresses add up.
Networks(f) ==
  LET own(i) == IF f = None \/ f[i] = None \/ f[i].addr = None THEN {} ELSE {f[i].addr}
      routers == IF f = None THEN {} ELSE {i \in Listed(f) : f[i].gw}
  IN  [addrs |-> [i \in Iface |-> Base[i] \cup own(i)],
       up |-> [i \in Iface |-> Base[i] \cup own(i) # {}],
       default |-> {Uplink} \cup routers]

Becomes(n) == addrs' = n.addrs /\ up' = n.up /\ default' \in n.default
IsAs(n)    == addrs = n.addrs /\ up = n.up /\ default \in n.default

TryWrite(q) ==
  /\ pc[q] = "file" /\ op[q].try
  /\ \/ Works /\ file' = Persisted(q) /\ Goto(q, "try") /\ UNCHANGED op
     \/ Fault /\ UNCHANGED file /\ Finish(q, "error")
  /\ UNCHANGED <<table, host, history, goal, nRequests, nReboots>>

\* The process is started; if it cannot be, the new file stays.
NetplanTry(q) ==
  /\ pc[q] = "try"
  /\ \/ Works /\ Goto(q, "probe") /\ op' = [op EXCEPT ![q].trial = "starting"]
     \/ Fault /\ Finish(q, "error")
  /\ UNCHANGED <<table, host, file, history, goal, nRequests, nReboots>>

Connected(h) == h.default # None /\ h.up[h.default] /\ h.addrs[h.default] # {}
Online(h) == Connected(h) /\ h.default \in Routed

BrokenProbesPass(q) == TRUE
ProbesPass(q) == Online(Host)

\* The pause is of a fixed length: the probes see whatever is there by then.
Probe(q) ==
  /\ pc[q] = "probe" /\ Goto(q, "confirm")
  /\ \E pass \in BOOLEAN :
       /\ IF ProbesPass(q) /\ ~pass THEN Fault ELSE pass = ProbesPass(q) /\ Works
       /\ op' = [op EXCEPT ![q].ok = pass, ![q].early = (op[q].trial = "starting")]
  /\ UNCHANGED <<table, host, file, history, goal, nRequests, nReboots>>

\* A newline is written, or the pipe is closed, whether or not anybody reads it.
Confirm(q) ==
  /\ pc[q] = "confirm" /\ Goto(q, "wait")
  /\ UNCHANGED <<table, host, file, op, history, goal, nRequests, nFaults, nReboots>>

\* A newline that comes to a process that has ended, or ends with a failure, is an
\* error.  A process that does not end is killed: the host is as it has it.
Verdict(q) ==
  LET accepted == op[q].trial = "accepted" IN
  /\ pc[q] = "wait"
  /\ IF op[q].trial \in {"accepted", "reverted", "failed"} THEN Works ELSE Fault
  /\ Finish(q, CASE ~op[q].ok -> "reverted" [] op[q].ok /\ accepted -> "ok" [] OTHER -> "error")
  /\ UNCHANGED <<table, host, file, history, goal, nRequests, nReboots>>

\* `netplan try' itself: it puts the file's networks in place, or fails; it goes
\* on with them when it reads the newline, and goes back when the pipe is closed
\* or nothing has come in time: the host, and not the file.
Tries(q) == pc[q] \in {"probe", "confirm", "wait"}

NetplanApplies(q) ==
  /\ Tries(q) /\ op[q].trial = "starting"
  /\ \/ /\ Works /\ Becomes(Networks(file))
        /\ op' = [op EXCEPT ![q].trial = "waiting", ![q].live = Host]
     \/ Fault /\ UNCHANGED host /\ op' = [op EXCEPT ![q].trial = "failed"]
  /\ UNCHANGED <<table, file, pc, history, goal, nRequests, nReboots>>

NetplanAccepts(q) ==
  /\ pc[q] = "wait" /\ op[q].ok /\ op[q].trial = "waiting"
  /\ op' = [op EXCEPT ![q].trial = "accepted"]
  /\ UNCHANGED <<table, host, file, pc, history, goal, nRequests, nFaults, nReboots>>

NetplanReverts(q) ==
  /\ Tries(q) /\ op[q].trial = "waiting"
  /\ IF pc[q] = "wait" /\ ~op[q].ok THEN Works ELSE Fault
  /\ addrs' = op[q].live.addrs /\ up' = op[q].live.up /\ default' = op[q].live.default
  /\ op' = [op EXCEPT ![q].trial = "reverted"]
  /\ UNCHANGED <<table, file, pc, history, goal, nRequests, nReboots>>

-----------------------------------------------------------------------------
\* The host reboots.
Reboot ==
  /\ nReboots < MaxReboots /\ nReboots' = nReboots + 1
  /\ Becomes(Networks(file))
  /\ pc' = [q \in Req |-> "idle"]
  /\ op' = [q \in Req |-> IF q \in Running THEN Rest ELSE op[q]]
  /\ solo' = None
  /\ UNCHANGED <<table, file, before, goal, nRequests, nFaults>>

Request(q) ==
  \/ \E new \in Wanted : CreateInterface(q, new) \/ \E n \in Row : UpdateInterface(q, n, new)
  \/ \E n \in Row : DeleteInterface(q, n)
  \/ RefreshInterfaces(q)
  \/ \E force \in BOOLEAN : ApplyInterfaces(q, force) \/ ApplyOfAgent(q, force)

Serve(q) ==
  \/ Check(q) \/ Commit(q) \/ Discover(q) \/ ReadRows(q) \/ UpsertRows(q)
  \/ PlanChanges(q) \/ RunStep(q) \/ WriteNetplan(q)
  \/ TryWrite(q) \/ NetplanTry(q) \/ Probe(q) \/ Confirm(q) \/ Verdict(q)
  \/ NetplanApplies(q) \/ NetplanAccepts(q) \/ NetplanReverts(q)

Waiting == Running = {} /\ UNCHANGED vars

Next ==
  \/ \E q \in Req :
       \/ pc[q] = "idle" /\ nRequests < MaxRequests /\ Request(q)
       \/ Serve(q)
  \/ Reboot
  \/ Waiting

Spec == Init /\ [][Next]_vars

-----------------------------------------------------------------------------
(* Properties.                                                              *)

Ended(try) ==
  {q \in {solo} \cap Req : pc[q] = "idle" /\ op[q].kind = "apply" /\ op[q].try = try}

\* "Guardrails 1-4 ... apply to both live and try-mode applies.  force cannot
\* bypass them": the WAN address of the base files is never taken off the host,
\* however stale what an apply has planned from is when its commands run.
WanKept == \A i \in Iface : Wan \in Base[i] => Wan \in addrs[i]

\* "refuses anything that would cut the default route without force": an apply
\* that ran alone and was not forced leaves the interface of the default route
\* as it was, and a default route if there was one, on an interface that is up
\* and has an address, whichever of its commands fail.
UnforcedSpares ==
  \A q \in Ended(FALSE) : ~op[q].force =>
    /\ \A i \in Iface : i = before.default =>
         addrs[i] = before.addrs[i] /\ up[i] = before.up[i]
    /\ Connected(before) => Connected(Host)

\* An apply that ran alone and was told ok has brought the host to its rows,
\* whatever interleaved applies, failed commands and reverted tries had left;
\* after a reboot the addresses are there again.
Brought(c) ==
  CASE Managed(c) /\ c.addr # None -> addrs[c.iface] = {c.addr} /\ up[c.iface]
    [] ~c.dhcp /\ ~c.enabled -> addrs[c.iface] = {} /\ ~up[c.iface]
    [] OTHER -> up[c.iface] = c.enabled
Applied ==
  /\ Ended(FALSE) # {} =>
       /\ \A c \in goal : Brought(c)
       /\ (\E c \in goal : Managed(c) /\ c.gw) =>
            \E c \in goal : Managed(c) /\ c.gw /\ c.iface = default
  /\ \A c \in goal : Managed(c) /\ c.addr # None => c.addr \in addrs[c.iface] /\ up[c.iface]

\* "Only when ALL health probes pass is a newline written (accept); otherwise
\* stdin is closed and netplan auto-reverts", whichever of probes, newline,
\* netplan's time-out and its commands comes first: a try that ran alone and was
\* told ok has the networks of the file in place, and they let the probes pass,
\* unless these were early and passed on the old ones; with any other answer the
\* host is as it was, unless netplan was killed with the new ones in place.
TryIsSafe ==
  \A q \in Ended(TRUE) :
    IF op[q].told = "ok"
    THEN IsAs(Networks(file)) /\ Online(IF op[q].early THEN before ELSE Host)
    ELSE op[q].trial = "waiting" \/ Host = before
===============================================================================
