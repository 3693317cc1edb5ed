---------------------------- MODULE FirewallGateway ----------------------------
(***************************************************************************)
(* The gateway's firewall, NAT and policy-routing routes: a request commits *)
(* its rows and then pushes the whole desired state, which it reads back    *)
(* table by table, to the instance's agent.  Every await lets the others    *)
(* in; two workers serve requests; the database commits statement by        *)
(* statement.  The agent does the same: its applies go on side by side over *)
(* one /etc/nftables.conf, which one writes and another may load.           *)
(*                                                                          *)
(* A row is the pair of versions of its columns, its place in the order and *)
(* everything else; a deletion is a version too.  A session keeps the rows  *)
(* it has read: a later SELECT returns them as they were                    *)
(* (expire_on_commit=False), unless they were refreshed.                    *)
(***************************************************************************)
EXTENDS Naturals, FiniteSets

CONSTANTS
  Req,           \* requests that may be under way at once
  FirewallRule, NATRule, RoutingRule,   \* the rows
  Old,           \* the rows that are there from the start
  None,
  MaxRequests, MaxFaults   \* bounds of a behaviour

Row == FirewallRule \cup NATRule \cup RoutingRule
Cell == Row \X {"order", "body"}
Cells(rows) == {c \in Cell : c[1] \in rows}
Nothing == [c \in Cell |-> 0]

ASSUME GatewayAssumption ==
  /\ None \notin Row /\ Old \subseteq Row
  /\ FirewallRule \cap (NATRule \cup RoutingRule) = {} /\ NATRule \cap RoutingRule = {}
  /\ MaxRequests \in Nat /\ MaxFaults \in Nat

VARIABLES
  db, live,   \* the versions committed, and the rows that exist
  held,       \* the versions the agent has loaded last; none where it has no table
  file, undo, \* those of its nftables.conf, and of the copy for a failed load
  late,       \* the agent's jobs that the gateway no longer waits for
  pc, op,     \* where each request is, and what it does
  kept,       \* the cells of the rows its session keeps
  got,        \* what it has loaded of its payload
  job,        \* how far the agent is with it, or the agent's answer
  told,       \* what it has answered
  fresh,      \* history: nothing was committed since its session began to read
  owed, met,  \* history: the versions it committed; whether the agent had them
  lost,       \* history: whether the file had them, and has had older ones since
  nRequests, nFaults

vars == <<db, live, held, file, undo, late, pc, op, kept, got, job, told, fresh, owed,
          met, lost, nRequests, nFaults>>

Stage == {"idle", "neighbour", "commit", "after", "rules", "nat", "routing",
          "agent", "rollback"}
Kind == {"create", "update", "delete", "move", "apply", "rollback"}

\* What the agent does in an apply, and in a rollback, between two awaits.
Doing == {"none", "written", "deleted", "restoring", "loaded"} \cup {"rollback", "removed"}

Idle == [kind |-> "apply", row |-> None, other |-> None]

TypeOK ==
  /\ db \in [Cell -> Nat] /\ live \subseteq Row
  /\ held \in [Cell -> Nat] /\ file \in [Cell -> Nat] /\ undo \in [Cell -> Nat]
  /\ late \subseteq Doing \X [Cell -> Nat]
  /\ pc \in [Req -> Stage]
  /\ op \in [Req -> [kind : Kind, row : Row \cup {None}, other : Row \cup {None}]]
  /\ DOMAIN kept = Req
  /\ \A q \in Req : DOMAIN kept[q] \subseteq Cell /\ \A c \in DOMAIN kept[q] : kept[q][c] \in Nat
  /\ got \in [Req -> [Cell -> Nat]]
  /\ job \in [Req -> Doing \cup {"ok", "failed"}]
  /\ told \in [Req -> {"nothing", "ok", "queued", "error"}]
  /\ fresh \in [Req -> BOOLEAN] /\ owed \in [Req -> [Cell -> Nat]]
  /\ met \subseteq Req /\ lost \subseteq Req
  /\ nRequests \in 0 .. MaxRequests /\ nFaults \in 0 .. MaxFaults

Init ==
  /\ db = [c \in Cell |-> IF c[1] \in Old THEN 1 ELSE 0]
  /\ live = Old /\ held = db /\ file = db /\ undo = Nothing /\ late = {}
  /\ pc = [q \in Req |-> "idle"]
  /\ op = [q \in Req |-> Idle]
  /\ kept = [q \in Req |-> <<>>] /\ got = [q \in Req |-> Nothing]
  /\ job = [q \in Req |-> "none"] /\ told = [q \in Req |-> "nothing"]
  /\ fresh = [q \in Req |-> FALSE]
  /\ owed = [q \in Req |-> Nothing] /\ met = {} /\ lost = {}
  /\ nRequests = 0 /\ nFaults = 0

database == <<db, live>>
agent    == <<held, file, undo>>
due      == <<owed, met, lost>>
counters == <<nRequests, nFaults>>

Goto(q, stage) == pc' = [pc EXCEPT ![q] = stage]
Keep(q, cells) ==
  kept' = [kept EXCEPT ![q] = [c \in cells \cup DOMAIN @ |->
                                 IF c \in cells THEN db'[c] ELSE @[c]]]

Session(q, cells) == kept' = [kept EXCEPT ![q] = [c \in cells |-> db[c]]]

\* An answer; what was owed is settled with it.
Say(q, word) ==
  /\ told' = [told EXCEPT ![q] = word]
  /\ owed' = [owed EXCEPT ![q] = Nothing] /\ met' = met \ {q}
  /\ lost' = lost \ {q}

\* The end of a request, and of its background task if it had one.
Leave(q) ==
  /\ Goto(q, "idle") /\ Session(q, {})
  /\ op' = [op EXCEPT ![q] = Idle] /\ fresh' = [fresh EXCEPT ![q] = FALSE]
  /\ job' = [job EXCEPT ![q] = "none"] /\ got' = [got EXCEPT ![q] = Nothing]

Pushed(q) == op[q].row \in FirewallRule      \* before the answer

-----------------------------------------------------------------------------
(* The handlers.                                                           *)

Begin(q, kind, row, stage) ==
  /\ pc[q] = "idle" /\ nRequests < MaxRequests /\ nRequests' = nRequests + 1
  /\ op' = [op EXCEPT ![q] = [kind |-> kind, row |-> row, other |-> None]]
  /\ Goto(q, stage)
  /\ fresh' = [fresh EXCEPT ![q] = TRUE]
  /\ UNCHANGED <<database, agent, late, got, job, nFaults>>

Create(q, row) ==
  /\ row \notin live /\ db[<<row, "body">>] = 0     \* an id is never used again
  /\ Begin(q, "create", row, "commit")
  /\ Session(q, {})
  /\ UNCHANGED <<told, due>>

\* The row is read first, 404 if there is none.
Change(q, kind, row) ==
  /\ kind \in {"update", "delete"} \/ (kind = "move" /\ row \in FirewallRule)
  /\ row \in live
  /\ Begin(q, kind, row, IF kind = "move" THEN "neighbour" ELSE "commit")
  /\ Session(q, IF kind = "delete" THEN {} ELSE Cells({row}))
  /\ UNCHANGED <<told, due>>

\* NAT rules can only be created; policy-routing rules by two routes.
CreateFirewallRule(q, row) == row \in FirewallRule /\ Create(q, row)
UpdateFirewallRule(q, row) == row \in FirewallRule /\ Change(q, "update", row)
DeleteFirewallRule(q, row) == row \in FirewallRule /\ Change(q, "delete", row)
MoveRule(q, row) == Change(q, "move", row)
CreateNATRule(q, row) == row \in NATRule /\ Create(q, row)
CreateRoutingRule(q, row) == row \in RoutingRule /\ Create(q, row)
CreateRoutingRuleOfFirewall(q, row) == CreateRoutingRule(q, row)
UpdateRoutingRule(q, row) == row \in RoutingRule /\ Change(q, "update", row)
DeleteRoutingRule(q, row) == row \in RoutingRule /\ Change(q, "delete", row)

\* The rule above or below, if there is one: the places are swapped.
Neighbour(q) ==
  /\ pc[q] = "neighbour" /\ Goto(q, "commit")
  /\ \E other \in ((live \cap FirewallRule) \ {op[q].row}) \cup {None} :
       /\ op' = [op EXCEPT ![q].other = other]
       /\ UNCHANGED database /\ Keep(q, Cells({other}))
  /\ UNCHANGED <<agent, late, got, job, told, fresh, due, counters>>

Written(q) ==
  LET o == op[q] IN
  CASE o.kind = "update" -> {<<o.row, "body">>}
    [] o.kind = "move" -> {c \in Cells({o.row, o.other}) :
                             o.other # None /\ c[2] = "order"}
    [] OTHER -> Cells({o.row})

\* An UPDATE of a row that is gone matches nothing: StaleDataError, 500.
Commit(q) ==
  LET written == Written(q) IN
  /\ pc[q] = "commit" /\ Goto(q, "after")
  /\ op[q].kind \in {"update", "move"} => \A c \in written : c[1] \in live
  /\ db' = [c \in Cell |-> IF c \in written THEN db[c] + 1 ELSE db[c]]
  /\ live' = CASE op[q].kind = "create" -> live \cup {op[q].row}
               [] op[q].kind = "delete" -> live \ {op[q].row}
               [] OTHER -> live
  /\ Keep(q, IF op[q].kind \in {"update", "move"} THEN written ELSE {})
  /\ owed' = [owed EXCEPT ![q] = [c \in Cell |-> IF c \in written THEN db'[c] ELSE 0]]
  /\ met' = met \ {q} /\ lost' = lost \ {q}
  /\ fresh' = [p \in Req |-> fresh[p] /\ (p = q \/ written = {})]
  /\ UNCHANGED <<agent, late, op, got, job, told, counters>>

Stale(q) ==
  /\ pc[q] = "commit" /\ op[q].kind \in {"update", "move"}
  /\ \E c \in Written(q) : c[1] \notin live
  /\ Leave(q) /\ Say(q, "error")
  /\ UNCHANGED <<database, agent, late, counters>>

BrokenReread(q) == UNCHANGED kept
\* db.refresh of the row that was created or updated.
Reread(q) ==
  UNCHANGED database /\ Keep(q, IF op[q].kind \in {"create", "update"} THEN Cells({op[q].row}) ELSE {})

\* Audit and refresh, which fails for a row that is gone (500, nothing is
\* pushed); a background push answers here and has a session of its own.
After(q) ==
  LET reread == op[q].kind \in {"create", "update"} IN
  /\ pc[q] = "after"
  /\ \/ /\ reread => op[q].row \in live
        /\ Goto(q, "rules")
        /\ fresh' = [fresh EXCEPT ![q] = @ \/ op[q].kind # "move"]
        /\ \/ Pushed(q) /\ Reread(q) /\ UNCHANGED <<told, due>>
           \/ ~Pushed(q) /\ Session(q, {}) /\ Say(q, "queued")
        /\ UNCHANGED <<op, got, job>>
     \/ /\ reread /\ op[q].row \notin live
        /\ Leave(q) /\ Say(q, "error")
  /\ UNCHANGED <<database, agent, late, counters>>

\* POST /apply queues a push, POST /rollback is passed on to the agent.
Reload(q) ==
  /\ Begin(q, "apply", None, "rules")
  /\ Session(q, {}) /\ Say(q, "queued")

Rollback(q) ==
  /\ Begin(q, "rollback", None, "rollback")
  /\ Session(q, {})
  /\ UNCHANGED <<told, due>>

-----------------------------------------------------------------------------
(* The push: _load_rows, a SELECT per table, and agent_request.            *)

Table == [rules |-> FirewallRule, nat |-> NATRule, routing |-> RoutingRule]

BrokenFollowing == [rules |-> "nat", nat |-> "routing", routing |-> "sent"]
Following == [rules |-> "nat", nat |-> "routing", routing |-> "agent"]

\* A row that the session keeps is returned as it is kept.
Selected(q, c) ==
  IF c \in DOMAIN kept[q] /\ c[1] \in live THEN kept[q][c] ELSE db[c]

Load(q) ==
  /\ pc[q] \in DOMAIN Table
  /\ got' = [got EXCEPT ![q] = [c \in Cell |->
               IF c[1] \in Table[pc[q]] THEN Selected(q, c) ELSE @[c]]]
  /\ Goto(q, Following[pc[q]])
  /\ UNCHANGED <<database, agent, late, op, kept, job, told, fresh, due, counters>>

-----------------------------------------------------------------------------
(* The agent, as the gateway's requests see it (FirewallAgent has its rules   *)
(* in full): a job is the stage it is at and the versions it was sent.        *)

Covers(v, w) == \A c \in Cell : w[c] <= v[c]

\* A file is written; what of it nobody has loaded yet is lost.
Writes(versions) ==
  /\ file' = versions
  /\ lost' = lost \cup {p \in Req : Covers(file, owed[p]) /\ ~Covers(versions, owed[p])}
  /\ UNCHANGED <<held, met>>

\* The table holds the rules, policy routing the routes; there may be neither.
Holds(rules, routes) ==
  /\ held' = [c \in Cell |-> IF c[1] \in RoutingRule THEN routes[c] ELSE rules[c]]
  /\ met' = met \cup {p \in Req : Covers(held', owed[p])}
  /\ UNCHANGED <<file, lost>>

Stays == UNCHANGED <<held, file, met, lost>>

\* The file is written (its last contents are the undo point), checked, the
\* table deleted and the file loaded, as it is by then; policy routing is
\* applied from the job's own payload.  A rollback removes the table and
\* restores the legacy rules.
Proceeds(stage, versions, next) ==
  /\ \/ stage = "none" /\ next = "written" /\ Writes(versions)
     \/ stage = "written" /\ next = "loaded" /\ Holds(file, held)
     \/ stage = "loaded" /\ next = "ok" /\ Holds(held, versions)
     \/ stage = "rollback" /\ next = "ok" /\ Holds(Nothing, held)
  /\ undo' = (IF stage = "none" THEN file ELSE undo)
  /\ UNCHANGED nFaults

\* A failure before the table is deleted, or after it; errors of policy routing
\* fail nothing.
Fails(stage, next) ==
  /\ nFaults < MaxFaults /\ nFaults' = nFaults + 1
  /\ \/ next = "failed" /\ Stays
     \/ stage = "written" /\ next = "deleted" /\ Holds(Nothing, held)
     \/ stage = "rollback" /\ next = "removed" /\ Holds(Nothing, held)
     \/ stage = "loaded" /\ next = "ok" /\ Stays
  /\ UNCHANGED undo

\* An apply whose load has failed puts the undo point back and loads it; so does
\* a rollback, which leaves the file alone.
Restores(stage, next) ==
  /\ \/ stage = "deleted" /\ next = "restoring" /\ Writes(undo)
     \/ stage = "restoring" /\ next = "failed" /\ Holds(file, held)
     \/ stage = "removed" /\ next = "failed" /\ Holds(undo, held)
  /\ UNCHANGED <<undo, nFaults>>

AgentStep(stage, versions, next) ==
  \/ Proceeds(stage, versions, next) \/ Fails(stage, next) \/ Restores(stage, next)

\* The agent has not answered yet.
Asked(q) == pc[q] \in {"agent", "rollback"} /\ job[q] \notin {"ok", "failed"}

Does(q) == IF pc[q] = "rollback" /\ job[q] = "none" THEN "rollback" ELSE job[q]

AgentAnswers(q) ==
  /\ Asked(q)
  /\ \E next \in Doing \cup {"ok", "failed"} :
       AgentStep(Does(q), got[q], next) /\ job' = [job EXCEPT ![q] = next]
  /\ UNCHANGED <<database, late, pc, op, kept, got, told, fresh, owed, nRequests>>

Answer(q, word) ==
  /\ Leave(q)
  /\ IF Pushed(q) \/ op[q].kind = "rollback" THEN Say(q, word)
     ELSE UNCHANGED <<told, due>>
  /\ UNCHANGED <<database, agent, counters>>

BrokenOutcome(q) == "ok"
\* AgentClientError becomes 502; the row stays.
Outcome(q) == IF job[q] = "ok" THEN "ok" ELSE "error"

Finish(q) ==
  /\ pc[q] \in {"agent", "rollback"} /\ job[q] # "none"
  /\ Answer(q, Outcome(q)) /\ UNCHANGED late

BrokenTimedOut(q) == Asked(q) /\ nFaults < MaxFaults
TimedOut(q) == Asked(q)

\* The client gives up: the agent is not done yet, or was never reached, which
\* is a job that does not go on.
GiveUp(q) ==
  /\ TimedOut(q)
  /\ Answer(q, "error")
  /\ late' = late \cup {<<Does(q), got[q]>>}

AgentGoesOn ==
  \E j \in late, next \in Doing \cup {"ok", "failed"} :
    /\ AgentStep(j[1], j[2], next)
    /\ late' = (late \ {j}) \cup (IF next \in Doing THEN {<<next, j[2]>>} ELSE {})
    /\ UNCHANGED <<database, pc, op, kept, got, job, told, fresh, owed, nRequests>>

-----------------------------------------------------------------------------
Route(q) ==
  \E row \in Row :
    \/ CreateFirewallRule(q, row) \/ UpdateFirewallRule(q, row)
    \/ DeleteFirewallRule(q, row) \/ MoveRule(q, row)
    \/ CreateNATRule(q, row)
    \/ CreateRoutingRule(q, row) \/ CreateRoutingRuleOfFirewall(q, row)
    \/ UpdateRoutingRule(q, row) \/ DeleteRoutingRule(q, row)

Gateway(q) ==
  \/ Neighbour(q) \/ Commit(q) \/ Stale(q) \/ After(q) \/ Load(q)
  \/ Finish(q) \/ GiveUp(q)

\* The gateway waits for requests.
Waiting == (\A q \in Req : pc[q] = "idle") /\ late = {} /\ UNCHANGED vars

Next ==
  \/ \E q \in Req :
       \/ Route(q)
       \/ Reload(q) \/ Rollback(q)
       \/ Gateway(q)
       \/ AgentAnswers(q)
  \/ AgentGoesOn
  \/ Waiting

Spec == Init /\ [][Next]_vars

\* A handler goes on, and httpx gives up after its timeout.  Nothing is asked
\* of the agent.
FairSpec == Spec /\ \A q \in Req : WF_vars(Gateway(q))

-----------------------------------------------------------------------------
(* Properties.                                                             *)

\* "the DB keeps the desired state": whatever overtakes what, the agent holds
\* committed versions of every row, and a 200 is only told to a request whose
\* versions, or newer ones, the agent has loaded, or has had in its file when
\* another request's older ones were written over them.
Desired == INSTANCE DesiredState WITH
  Req <- Req, Cell <- Cell, db <- db, held <- held, file <- file, owed <- owed,
  met <- met, lost <- lost, told <- told
KeepsDesiredState == Desired!Spec

\* A payload none of whose reads, nor of the rows its session has kept, is
\* older than the last commit is the database: a session that changes a row
\* does not push back what others had changed in it before.
PushesCurrentRows == \A q \in Req : pc[q] = "agent" /\ fresh[q] => got[q] = db

\* Every request is answered, though the agent may never be.
Answers == \A q \in Req : pc[q] # "idle" ~> pc[q] = "idle"
===============================================================================
