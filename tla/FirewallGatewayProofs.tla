------------------------ MODULE FirewallGatewayProofs ------------------------
(* Theorems about FirewallGateway, for every number of requests and rows: it  *)
(* implements DesiredState, and a payload read without a commit in between is *)
(* the database.                                                              *)
EXTENDS FirewallGateway, TLAPS

-----------------------------------------------------------------------------
(* Sessions.                                                                  *)

\* What a session keeps after it has read or flushed cells.
LEMMA KeepCells ==
  ASSUME DOMAIN kept = Req, NEW q \in Req, NEW cells, Keep(q, cells)
  PROVE  /\ DOMAIN kept' = Req
         /\ \A p \in Req \ {q} : kept'[p] = kept[p]
         /\ DOMAIN kept'[q] = cells \cup DOMAIN kept[q]
         /\ \A c \in cells : kept'[q][c] = db'[c]
         /\ \A c \in DOMAIN kept[q] \ cells : kept'[q][c] = kept[q][c]
BY DEF Keep

LEMMA SessionCells ==
  ASSUME DOMAIN kept = Req, NEW q \in Req, NEW cells, Session(q, cells)
  PROVE  /\ DOMAIN kept' = Req
         /\ \A p \in Req \ {q} : kept'[p] = kept[p]
         /\ DOMAIN kept'[q] = cells
         /\ \A c \in cells : kept'[q][c] = db[c]
BY DEF Session

LEMMA CellsInCell == \A rows : Cells(rows) \subseteq Cell
BY DEF Cells

\* The versions that the sessions keep are numbers of cells.
KeptTyped ==
  /\ DOMAIN kept = Req
  /\ \A q \in Req : DOMAIN kept[q] \subseteq Cell /\ \A c \in DOMAIN kept[q] : kept[q][c] \in Nat

LEMMA KeepType ==
  ASSUME KeptTyped, db' \in [Cell -> Nat], NEW q \in Req, NEW cells \in SUBSET Cell, Keep(q, cells)
  PROVE  KeptTyped'
BY KeepCells DEF KeptTyped

LEMMA SessionType ==
  ASSUME KeptTyped, db \in [Cell -> Nat], NEW q \in Req, NEW cells \in SUBSET Cell, Session(q, cells)
  PROVE  KeptTyped'
BY SessionCells DEF KeptTyped

-----------------------------------------------------------------------------
(* Types.                                                                     *)

LEMMA InitType == Init => TypeOK
<1> SUFFICES ASSUME Init PROVE TypeOK
  OBVIOUS
<1>1. db \in [Cell -> Nat] /\ held = db /\ file = db /\ undo = Nothing /\ Nothing \in [Cell -> Nat]
  BY DEF Init, Nothing
<1>2. \A q \in Req : kept[q] = <<>> /\ DOMAIN kept[q] = {}
  BY DEF Init
<1>3. fresh \in [Req -> BOOLEAN]
  BY DEF Init
<1> QED
  BY <1>1, <1>2, <1>3, GatewayAssumption DEF Init, TypeOK, Idle, Stage, Kind, Doing

LEMMA NothingType == Nothing \in [Cell -> Nat]
BY DEF Nothing

LEMMA IdleType == Idle \in [kind : Kind, row : Row \cup {None}, other : Row \cup {None}]
BY DEF Idle, Kind

LEMMA SayType ==
  ASSUME TypeOK, NEW q \in Req, NEW word \in {"ok", "queued", "error"}, Say(q, word)
  PROVE  /\ told' \in [Req -> {"nothing", "ok", "queued", "error"}]
         /\ owed' \in [Req -> [Cell -> Nat]] /\ met' \subseteq Req /\ lost' \subseteq Req
BY NothingType DEF TypeOK, Say

LEMMA LeaveType ==
  ASSUME TypeOK, NEW q \in Req, Leave(q)
  PROVE  /\ pc' \in [Req -> Stage] /\ KeptTyped'
         /\ op' \in [Req -> [kind : Kind, row : Row \cup {None}, other : Row \cup {None}]]
         /\ fresh' \in [Req -> BOOLEAN]
         /\ job' \in [Req -> Doing \cup {"ok", "failed"}] /\ got' \in [Req -> [Cell -> Nat]]
<1>1. KeptTyped
  BY DEF TypeOK, KeptTyped
<1>2. KeptTyped'
  BY <1>1, SessionType DEF TypeOK, Leave
<1>3. fresh' \in [Req -> BOOLEAN]
  BY DEF TypeOK, Leave
<1> QED
  BY <1>2, <1>3, NothingType, IdleType DEF TypeOK, Leave, Goto, Stage, Doing

LEMMA BeginType ==
  ASSUME TypeOK, NEW q \in Req, NEW kind \in Kind, NEW row \in Row \cup {None},
         NEW stage \in Stage, Begin(q, kind, row, stage)
  PROVE  /\ pc' \in [Req -> Stage]
         /\ op' \in [Req -> [kind : Kind, row : Row \cup {None}, other : Row \cup {None}]]
         /\ fresh' \in [Req -> BOOLEAN]
         /\ nRequests' \in 0 .. MaxRequests
<1>1. fresh' \in [Req -> BOOLEAN]
  BY DEF TypeOK, Begin
<1> QED
  BY <1>1, GatewayAssumption DEF TypeOK, Begin, Goto

\* Every route of a row creates it, or changes one that is there.
LEMMA RouteForms ==
  ASSUME NEW q \in Req, Route(q)
  PROVE  \E row \in Row : Create(q, row) \/ \E kind \in Kind : Change(q, kind, row)
BY DEF Route, Kind, CreateFirewallRule, UpdateFirewallRule, DeleteFirewallRule, MoveRule,
   CreateNATRule, CreateRoutingRule, CreateRoutingRuleOfFirewall, UpdateRoutingRule,
   DeleteRoutingRule

LEMMA BeginningType ==
  ASSUME TypeOK, NEW q \in Req,
         \/ \E row \in Row : Create(q, row) \/ \E kind \in Kind : Change(q, kind, row)
         \/ Reload(q) \/ Rollback(q)
  PROVE  TypeOK'
<1> USE DEF TypeOK
<1>0. KeptTyped /\ {} \subseteq Cell
  BY DEF KeptTyped
<1>1. ASSUME NEW row \in Row, Create(q, row) PROVE TypeOK'
  <2>1. KeptTyped'
    BY <1>0, <1>1, SessionType DEF Create
  <2> QED
    BY <1>1, <2>1, BeginType DEF Create, Begin, KeptTyped, database, agent, due, Kind, Stage
<1>2. ASSUME NEW row \in Row, NEW kind \in Kind, Change(q, kind, row) PROVE TypeOK'
  <2>1. KeptTyped'
    BY <1>0, <1>2, SessionType, CellsInCell DEF Change
  <2>2. PICK stage \in {"neighbour", "commit"} : Begin(q, kind, row, stage)
    BY <1>2 DEF Change
  <2> QED
    BY <1>2, <2>1, <2>2, BeginType DEF Change, Begin, KeptTyped, database, agent, due, Kind, Stage
<1>3. CASE Reload(q)
  <2>1. KeptTyped'
    BY <1>0, <1>3, SessionType DEF Reload
  <2> QED
    BY <1>3, <2>1, BeginType, SayType DEF Reload, Begin, KeptTyped, database, agent, Kind, Stage
<1>4. CASE Rollback(q)
  <2>1. KeptTyped'
    BY <1>0, <1>4, SessionType DEF Rollback
  <2> QED
    BY <1>4, <2>1, BeginType DEF Rollback, Begin, KeptTyped, database, agent, due, Kind, Stage
<1> QED
  BY <1>1, <1>2, <1>3, <1>4

\* The neighbour is put into what the request does.
LEMMA OtherTyped ==
  ASSUME NEW K, NEW R, op \in [Req -> [kind : K, row : R, other : R]],
         NEW q \in Req, NEW other \in R, op' = [op EXCEPT ![q].other = other]
  PROVE  op' \in [Req -> [kind : K, row : R, other : R]]
<1>1. op[q] \in [kind : K, row : R, other : R]
  OBVIOUS
<1>2. [op[q] EXCEPT !.other = other] \in [kind : K, row : R, other : R]
  BY <1>1
<1>3. op' = [op EXCEPT ![q] = [op[q] EXCEPT !.other = other]]
  OBVIOUS
<1> QED
  BY <1>2, <1>3

\* What a request that has not committed yet is about.
Operands(q) ==
  /\ pc[q] = "neighbour" => op[q].kind = "move"
  /\ pc[q] \in {"neighbour", "commit", "after"} =>
       op[q].row \in Row /\ op[q].kind \in {"create", "update", "delete", "move"}
  /\ op[q].kind = "move" =>
       op[q].row \in FirewallRule /\ op[q].other \in FirewallRule \cup {None}

LEMMA HandlerType ==
  ASSUME TypeOK, NEW q \in Req, Operands(q), Neighbour(q) \/ Commit(q) \/ Stale(q) \/ After(q)
  PROVE  TypeOK'
<1> USE DEF TypeOK
<1>0. KeptTyped /\ {} \subseteq Cell
  BY DEF KeptTyped
<1>1. CASE Neighbour(q)
  <2>1. db' = db /\ live' = live /\ KeptTyped'
    BY <1>0, <1>1, KeepType, CellsInCell DEF Neighbour, database
  <2>2. op' \in [Req -> [kind : Kind, row : Row \cup {None}, other : Row \cup {None}]]
    <3>1. PICK other \in Row \cup {None} : op' = [op EXCEPT ![q].other = other]
      BY <1>1 DEF Neighbour, Row
    <3>2. op \in [Req -> [kind : Kind, row : Row \cup {None}, other : Row \cup {None}]]
      OBVIOUS
    <3> HIDE DEF TypeOK
    <3> QED
      BY <3>1, <3>2, OtherTyped
  <2> QED
    BY <1>1, <2>1, <2>2 DEF Neighbour, Goto, KeptTyped, agent, due, counters, Stage
<1>2. CASE Commit(q)
  <2>1. db' \in [Cell -> Nat]
    BY <1>2 DEF Commit
  <2>2. op[q].kind \in {"update", "move"} => Written(q) \subseteq Cell
    <3>1. ASSUME op[q].kind = "update" PROVE Written(q) \subseteq Cell
      BY <1>2, <3>1 DEF Commit, Written, Cell
    <3>2. ASSUME op[q].kind = "move" PROVE Written(q) \subseteq Cell
      BY <3>2, CellsInCell DEF Written
    <3> QED
      BY <3>1, <3>2
  <2>3. KeptTyped'
    BY <1>0, <1>2, <2>1, <2>2, KeepType DEF Commit
  <2>4. owed' \in [Req -> [Cell -> Nat]]
    BY <1>2, <2>1 DEF Commit
  <2>5. live' \subseteq Row
    BY <1>2 DEF Commit, Operands
  <2>6. fresh' \in [Req -> BOOLEAN]
    <3> HIDE DEF TypeOK
    <3> QED
      BY Zenon, <1>2 DEF Commit
  <2> QED
    BY <1>2, <2>1, <2>3, <2>4, <2>5, <2>6 DEF Commit, Goto, KeptTyped, agent, counters, Stage
<1>3. CASE Stale(q)
  BY <1>3, LeaveType, SayType DEF Stale, KeptTyped, database, agent, counters
<1>4. CASE After(q)
  <2>1. CASE Leave(q) /\ Say(q, "error")
    BY <1>4, <2>1, LeaveType, SayType DEF After, KeptTyped, database, agent, counters
  <2>2. CASE /\ Goto(q, "rules") /\ UNCHANGED <<op, got, job>>
             /\ fresh' = [fresh EXCEPT ![q] = @ \/ op[q].kind # "move"]
             /\ \/ Pushed(q) /\ Reread(q) /\ UNCHANGED <<told, due>>
                \/ ~Pushed(q) /\ Session(q, {}) /\ Say(q, "queued")
    <3>1. KeptTyped'
      BY <1>0, <2>2, KeepType, SessionType, CellsInCell DEF Reread, database
    <3>2. fresh' \in [Req -> BOOLEAN]
      BY <2>2
    <3>3. /\ told' \in [Req -> {"nothing", "ok", "queued", "error"}]
          /\ owed' \in [Req -> [Cell -> Nat]] /\ met' \subseteq Req /\ lost' \subseteq Req
      BY <2>2, SayType DEF due
    <3> QED
      BY <1>4, <2>2, <3>1, <3>2, <3>3 DEF After, Goto, KeptTyped, database, agent, counters, Stage
  <2>3. \/ Leave(q) /\ Say(q, "error")
        \/ /\ Goto(q, "rules") /\ UNCHANGED <<op, got, job>>
           /\ fresh' = [fresh EXCEPT ![q] = @ \/ op[q].kind # "move"]
           /\ \/ Pushed(q) /\ Reread(q) /\ UNCHANGED <<told, due>>
              \/ ~Pushed(q) /\ Session(q, {}) /\ Say(q, "queued")
    <3> HIDE DEF TypeOK
    <3> QED
      BY Zenon, <1>4 DEF After
  <2> QED
    BY <2>1, <2>2, <2>3
<1> QED
  BY <1>1, <1>2, <1>3, <1>4

\* A step of a job leaves versions of cells in the table and in the file.
LEMMA AgentStepType ==
  ASSUME TypeOK, NEW stage, NEW versions \in [Cell -> Nat], NEW next,
         AgentStep(stage, versions, next)
  PROVE  /\ {held', file', undo'} \subseteq [Cell -> Nat] /\ met' \subseteq Req /\ lost' \subseteq Req
         /\ nFaults' \in 0 .. MaxFaults
<1>1. nFaults' \in 0 .. MaxFaults
  BY GatewayAssumption DEF TypeOK, AgentStep, Proceeds, Fails, Restores
<1>2. ASSUME NEW v \in [Cell -> Nat], Writes(v)
      PROVE  held' \in [Cell -> Nat] /\ file' \in [Cell -> Nat] /\ met' \subseteq Req /\ lost' \subseteq Req
  BY <1>2 DEF TypeOK, Writes
<1>3. ASSUME NEW v \in [Cell -> Nat], NEW w \in [Cell -> Nat], Holds(v, w)
      PROVE  held' \in [Cell -> Nat] /\ file' \in [Cell -> Nat] /\ met' \subseteq Req /\ lost' \subseteq Req
  BY <1>3 DEF TypeOK, Holds
<1>4. {held, file, undo, versions, Nothing} \subseteq [Cell -> Nat]
  BY NothingType DEF TypeOK
<1>5. \/ \E v \in [Cell -> Nat] : Writes(v)
      \/ \E v, w \in [Cell -> Nat] : Holds(v, w)
      \/ Stays
  BY <1>4 DEF AgentStep, Proceeds, Fails, Restores
<1>6. undo' \in {undo, file}
  BY DEF AgentStep, Proceeds, Fails, Restores
<1>7. held' \in [Cell -> Nat] /\ file' \in [Cell -> Nat] /\ met' \subseteq Req /\ lost' \subseteq Req
  BY <1>2, <1>3, <1>5 DEF TypeOK, Stays
<1> QED
  BY <1>1, <1>4, <1>6, <1>7

LEMMA PushType ==
  ASSUME TypeOK,
         \/ \E q \in Req : Load(q) \/ AgentAnswers(q) \/ Finish(q) \/ GiveUp(q)
         \/ AgentGoesOn
  PROVE  TypeOK'
<1> USE DEF TypeOK
<1>1. ASSUME NEW q \in Req, Load(q) PROVE TypeOK'
  <2>1. got' \in [Req -> [Cell -> Nat]]
    BY <1>1 DEF Load, Selected
  <2>2. Following[pc[q]] \in Stage
    BY <1>1 DEF Load, Table, Following, Stage
  <2> QED
    BY <1>1, <2>1, <2>2 DEF Load, Goto, database, agent, due, counters
<1>2. ASSUME NEW q \in Req, AgentAnswers(q) PROVE TypeOK'
  <2>1. PICK next \in Doing \cup {"ok", "failed"} :
             AgentStep(Does(q), got[q], next) /\ job' = [job EXCEPT ![q] = next]
    BY <1>2 DEF AgentAnswers
  <2>2. /\ {held', file', undo'} \subseteq [Cell -> Nat] /\ met' \subseteq Req /\ lost' \subseteq Req
        /\ nFaults' \in 0 .. MaxFaults
    BY <2>1, AgentStepType
  <2>3. UNCHANGED <<db, live, late, pc, op, kept, got, told, fresh, owed, nRequests>>
    BY <1>2 DEF AgentAnswers, database
  <2>4. job' \in [Req -> Doing \cup {"ok", "failed"}]
    BY <2>1
  <2> QED
    BY <2>2, <2>3, <2>4
<1>3. ASSUME NEW q \in Req, NEW word \in {"ok", "error"}, Answer(q, word),
             late' \subseteq Doing \X [Cell -> Nat]
      PROVE  TypeOK'
  <2>1. /\ told' \in [Req -> {"nothing", "ok", "queued", "error"}]
        /\ owed' \in [Req -> [Cell -> Nat]] /\ met' \subseteq Req /\ lost' \subseteq Req
    <3>1. CASE Say(q, word)
      BY <3>1, SayType
    <3>2. CASE UNCHANGED <<told, due>>
      BY <3>2 DEF due
    <3> QED
      BY <1>3, <3>1, <3>2 DEF Answer
  <2> QED
    BY <1>3, <2>1, LeaveType DEF Answer, KeptTyped, database, agent, counters
<1>4. ASSUME NEW q \in Req, Finish(q) PROVE TypeOK'
  BY <1>3, <1>4 DEF Finish, Outcome
<1>5. ASSUME NEW q \in Req, GiveUp(q) PROVE TypeOK'
  <2>1. Does(q) \in Doing /\ got[q] \in [Cell -> Nat]
    BY <1>5 DEF GiveUp, TimedOut, Asked, Does, Doing
  <2>2. late' = late \cup {<<Does(q), got[q]>>}
    BY <1>5 DEF GiveUp
  <2>3. late' \subseteq Doing \X [Cell -> Nat]
    <3>1. late \subseteq Doing \X [Cell -> Nat]
      OBVIOUS
    <3> HIDE DEF TypeOK
    <3> QED
      BY <2>1, <2>2, <3>1
  <2> QED
    BY <1>3, <1>5, <2>3 DEF GiveUp
<1>6. CASE AgentGoesOn
  <2>1. PICK j \in late, next \in Doing \cup {"ok", "failed"} :
          /\ AgentStep(j[1], j[2], next)
          /\ late' = (late \ {j}) \cup (IF next \in Doing THEN {<<next, j[2]>>} ELSE {})
    BY <1>6 DEF AgentGoesOn
  <2>2. j[2] \in [Cell -> Nat]
    OBVIOUS
  <2>3. /\ {held', file', undo'} \subseteq [Cell -> Nat] /\ met' \subseteq Req /\ lost' \subseteq Req
        /\ nFaults' \in 0 .. MaxFaults
    BY <2>1, <2>2, AgentStepType
  <2>4. late' \subseteq Doing \X [Cell -> Nat]
    BY <2>1, <2>2
  <2> QED
    BY <1>6, <2>3, <2>4 DEF AgentGoesOn, database
<1> QED
  BY <1>1, <1>2, <1>4, <1>5, <1>6

LEMMA StutterType == ASSUME TypeOK, UNCHANGED vars PROVE TypeOK'
BY DEF TypeOK, vars

LEMMA OperandsKept ==
  ASSUME TypeOK, \A q \in Req : Operands(q), [Next]_vars
  PROVE  \A q \in Req : Operands(q)'
<1> USE DEF TypeOK, Operands
<1>1. ASSUME NEW q \in Req, Leave(q) PROVE \A p \in Req : Operands(p)'
  BY <1>1 DEF Leave, Goto, Idle
<1>2. ASSUME NEW q \in Req, NEW row \in Row, Create(q, row) PROVE \A p \in Req : Operands(p)'
  BY <1>2 DEF Create, Begin, Goto
<1>3. ASSUME NEW q \in Req, NEW row \in Row, NEW kind \in Kind, Change(q, kind, row)
      PROVE  \A p \in Req : Operands(p)'
  <2>1. op' = [op EXCEPT ![q] = [kind |-> kind, row |-> row, other |-> None]]
    BY <1>3 DEF Change, Begin
  <2>2. pc' = [pc EXCEPT ![q] = IF kind = "move" THEN "neighbour" ELSE "commit"]
    BY <1>3 DEF Change, Begin, Goto
  <2> QED
    BY <1>3, <2>1, <2>2 DEF Change
<1>4. ASSUME NEW q \in Req, Reload(q) \/ Rollback(q) PROVE \A p \in Req : Operands(p)'
  <2>1. PICK kind \in {"apply", "rollback"}, stage \in {"rules", "rollback"} :
            /\ op' = [op EXCEPT ![q] = [kind |-> kind, row |-> None, other |-> None]]
            /\ pc' = [pc EXCEPT ![q] = stage]
    BY Zenon, <1>4 DEF Reload, Rollback, Begin, Goto
  <2> QED
    BY <2>1
<1>5. ASSUME NEW q \in Req, Neighbour(q) PROVE \A p \in Req : Operands(p)'
  <2>1. PICK other \in FirewallRule \cup {None} : op' = [op EXCEPT ![q].other = other]
    BY <1>5 DEF Neighbour
  <2> QED
    BY <1>5, <2>1 DEF Neighbour, Goto
<1>6. ASSUME NEW q \in Req, Commit(q) PROVE \A p \in Req : Operands(p)'
  BY <1>6 DEF Commit, Goto
<1>7. ASSUME NEW q \in Req, UNCHANGED op, pc' = [pc EXCEPT ![q] = pc'[q]],
             pc'[q] \notin {"neighbour", "commit", "after"}
      PROVE  \A p \in Req : Operands(p)'
  BY <1>7
<1>8. ASSUME NEW q \in Req, After(q) PROVE \A p \in Req : Operands(p)'
  BY <1>1, <1>7, <1>8 DEF After, Goto
<1>9. ASSUME NEW q \in Req, Load(q) PROVE \A p \in Req : Operands(p)'
  BY <1>7, <1>9 DEF Load, Goto, Following, Table
<1>10. ASSUME NEW q \in Req, Stale(q) \/ Finish(q) \/ GiveUp(q) PROVE \A p \in Req : Operands(p)'
  BY <1>1, <1>10 DEF Stale, Finish, GiveUp, Answer
<1>11. ASSUME UNCHANGED <<pc, op>> PROVE \A p \in Req : Operands(p)'
  BY <1>11
<1> QED
  <2>1. CASE UNCHANGED vars
    BY <1>11, <2>1 DEF vars
  <2>2. ASSUME NEW q \in Req, AgentAnswers(q) PROVE \A p \in Req : Operands(p)'
    BY <1>11, <2>2 DEF AgentAnswers
  <2>3. CASE AgentGoesOn
    BY <1>11, <2>3 DEF AgentGoesOn
  <2> HIDE DEF TypeOK, Operands
  <2> QED
    BY <1>2, <1>3, <1>4, <1>5, <1>6, <1>8, <1>9, <1>10, <2>1, <2>2, <2>3, RouteForms
    DEF Next, Gateway, Waiting

LEMMA InitOperands == Init => \A q \in Req : Operands(q)
BY DEF Init, Operands, Idle

\* Every reachable state is well typed.
THEOREM TypeCorrect == Spec => []TypeOK
<1> DEFINE Typed == TypeOK /\ \A q \in Req : Operands(q)
<1>1. Init => Typed
  BY InitType, InitOperands
<1>2. ASSUME Typed, [Next]_vars PROVE Typed'
  <2>1. TypeOK'
    BY <1>2, RouteForms, BeginningType, HandlerType, PushType, StutterType DEF Next, Gateway, Waiting
  <2> QED
    BY <1>2, <2>1, OperandsKept
<1>3. Typed => TypeOK
  OBVIOUS
<1> HIDE DEF Typed
<1> QED
  BY <1>1, <1>2, <1>3, PTL DEF Spec

-----------------------------------------------------------------------------
(* The invariant: nothing that is carried about is newer than the database,  *)
(* and what a request carries covers what it owes.                           *)

Behind ==
  /\ \A c \in Cell : held[c] <= db[c] /\ file[c] <= db[c] /\ undo[c] <= db[c]
  /\ \A j \in late, c \in Cell : j[2][c] <= db[c]
  /\ \A q \in Req, c \in Cell : got[q][c] <= db[c]
  /\ \A q \in Req, c \in Cell : owed[q][c] <= db[c]
  /\ \A q \in Req : \A c \in DOMAIN kept[q] : kept[q][c] <= db[c]

\* A session has nothing of what a creation or a deletion writes, and only the
\* row of an update.
Keeps(q) ==
  pc[q] \in {"commit", "after"} =>
    /\ op[q].kind \in {"create", "delete"} => DOMAIN kept[q] = {}
    /\ op[q].kind = "update" => DOMAIN kept[q] \subseteq Cells({op[q].row})

Pushing == {"rules", "nat", "routing", "agent"}

\* Only a request that answers after its push owes anything while it pushes,
\* and what it has loaded covers it.
Owes(q) ==
  /\ pc[q] \in {"idle", "neighbour", "commit", "rollback"} => \A c \in Cell : owed[q][c] = 0
  /\ pc[q] \in Pushing \/ (pc[q] = "after" /\ Pushed(q)) =>
       \A c \in Cell : c[1] \notin FirewallRule => owed[q][c] = 0
  /\ pc[q] \in Pushing /\ ~Pushed(q) => \A c \in Cell : owed[q][c] = 0
  /\ pc[q] \in {"after", "rules", "nat", "routing"} =>
       \A c \in DOMAIN kept[q] : owed[q][c] <= kept[q][c]
  /\ pc[q] \in {"nat", "routing", "agent"} =>
       \A c \in Cell : c[1] \in FirewallRule => owed[q][c] <= got[q][c]
  /\ pc[q] \notin {"agent", "rollback"} => job[q] = "none"
  /\ pc[q] = "agent" => job[q] # "rollback"
  /\ pc[q] = "agent" /\ job[q] = "written" => Covers(file, owed[q]) \/ q \in lost
  /\ pc[q] = "agent" /\ job[q] \in {"loaded", "ok"} => q \in met \cup lost

\* A session that nothing was committed beside has the database.
Current(q) ==
  fresh[q] =>
    /\ \A c \in DOMAIN kept[q] : kept[q][c] = db[c]
    /\ pc[q] \in {"nat", "routing", "agent"} =>
         \A c \in Cell : c[1] \in FirewallRule => got[q][c] = db[c]
    /\ pc[q] \in {"routing", "agent"} =>
         \A c \in Cell : c[1] \in NATRule => got[q][c] = db[c]
    /\ pc[q] = "agent" =>
         \A c \in Cell : c[1] \in RoutingRule => got[q][c] = db[c]

Request(q) == Operands(q) /\ Keeps(q) /\ Owes(q) /\ Current(q)

IInv == TypeOK /\ Behind /\ \A q \in Req : Request(q)

LEMMA InitInv == Init => IInv
<1> SUFFICES ASSUME Init PROVE IInv
  OBVIOUS
<1>1. Behind
  BY InitType DEF Init, Behind, Nothing, TypeOK
<1>2. ASSUME NEW q \in Req PROVE Request(q)
  <2>1. pc[q] = "idle" /\ fresh[q] = FALSE /\ job[q] = "none"
    BY DEF Init
  <2>2. \A c \in Cell : owed[q][c] = 0
    BY DEF Init, Nothing
  <2> QED
    BY <2>1, <2>2, InitOperands DEF Request, Keeps, Owes, Current, Pushing
<1> QED
  BY <1>1, <1>2, InitType DEF IInv

\* A request that a step does not touch, while the database stays.
LEMMA Untouched ==
  ASSUME IInv, NEW p \in Req, db' = db,
         pc'[p] = pc[p], op'[p] = op[p], kept'[p] = kept[p], got'[p] = got[p],
         job'[p] = job[p], fresh'[p] = fresh[p], owed'[p] = owed[p],
         p \in met => p \in met', p \in lost => p \in lost',
         Covers(file, owed[p]) => Covers(file', owed[p]) \/ p \in lost'
  PROVE  Request(p)'
<1>1. Operands(p)'
  BY DEF IInv, Request, Operands
<1>2. Keeps(p)'
  BY DEF IInv, Request, Keeps
<1>3. Owes(p)'
  BY DEF IInv, Request, Owes, Pushed
<1>4. Current(p)'
  <2>1. Current(p)
    BY DEF IInv, Request
  <2> HIDE DEF IInv
  <2> QED
    BY <2>1 DEF Current
<1> QED
  BY <1>1, <1>2, <1>3, <1>4 DEF Request

\* A request that has been answered.
LEMMA LeaveKeeps ==
  ASSUME IInv, NEW q \in Req, Leave(q), db' = db, UNCHANGED agent,
         \A j \in late' : j \in late \/ j[2] = got[q],
         \/ \E word \in {"ok", "queued", "error"} : Say(q, word)
         \/ UNCHANGED <<told, due>> /\ \A c \in Cell : owed[q][c] = 0
  PROVE  Behind' /\ \A p \in Req : Request(p)'
<1> USE DEF IInv, TypeOK
<1>1. /\ pc'[q] = "idle" /\ job'[q] = "none" /\ fresh'[q] = FALSE
      /\ DOMAIN kept'[q] = {} /\ op'[q] = Idle /\ got'[q] = Nothing
  BY SessionCells DEF Leave, Goto
<1>2. (\A c \in Cell : owed'[q][c] = 0) /\ UNCHANGED <<held, file, undo>>
  BY DEF Say, Nothing, due, agent
<1>3. ASSUME NEW p \in Req \ {q}
      PROVE  /\ pc'[p] = pc[p] /\ op'[p] = op[p] /\ kept'[p] = kept[p] /\ got'[p] = got[p]
             /\ job'[p] = job[p] /\ fresh'[p] = fresh[p] /\ owed'[p] = owed[p]
             /\ (p \in met => p \in met') /\ (p \in lost => p \in lost')
  BY SessionCells DEF Leave, Goto, Say, due
<1>4. Behind'
  <2>1. \A c \in Cell : db[c] \in Nat /\ 0 <= db[c] /\ Nothing[c] = 0
    BY DEF Nothing
  <2>2. \A j \in late', c \in Cell : j[2][c] <= db'[c]
    BY <2>1 DEF Behind
  <2>3. \A p \in Req, c \in Cell : got'[p][c] <= db'[c]
    <3>1. \A c \in Cell : got'[q][c] <= db'[c]
      BY <1>1, <2>1
    <3>2. ASSUME NEW p \in Req \ {q} PROVE \A c \in Cell : got'[p][c] <= db'[c]
      BY <1>3 DEF Behind
    <3> QED
      BY <3>1, <3>2
  <2>4. \A p \in Req, c \in Cell : owed'[p][c] <= db'[c]
    <3>1. \A p \in Req, c \in Cell : owed[p][c] <= db[c]
      BY DEF Behind
    <3> HIDE DEF IInv, TypeOK
    <3> QED
      BY <1>2, <1>3, <2>1, <3>1
  <2>5. \A p \in Req : \A c \in DOMAIN kept'[p] : kept'[p][c] <= db'[c]
    BY <1>1, <1>3 DEF Behind
  <2>6. \A c \in Cell : held'[c] <= db'[c] /\ file'[c] <= db'[c] /\ undo'[c] <= db'[c]
    BY <1>2 DEF Behind
  <2> QED
    BY <2>2, <2>3, <2>4, <2>5, <2>6 DEF Behind
<1>5. Request(q)'
  BY <1>1, <1>2 DEF Request, Operands, Keeps, Owes, Current, Pushing, Idle
<1> QED
  BY <1>2, <1>3, <1>4, <1>5, Untouched

LEMMA BeginKeeps ==
  ASSUME IInv, NEW q \in Req, NEW kind, NEW row, NEW cells \in SUBSET Cell,
         NEW stage \in {"neighbour", "commit", "rules", "rollback"},
         Begin(q, kind, row, stage), Session(q, cells),
         Say(q, "queued") \/ UNCHANGED <<told, due>>,
         stage = "commit" => /\ kind \in {"create", "delete"} => cells = {}
                             /\ kind = "update" => cells \subseteq Cells({row}),
         Operands(q)'
  PROVE  Behind' /\ \A p \in Req : Request(p)'
<1> USE DEF IInv, TypeOK
<1>1. /\ pc[q] = "idle" /\ pc'[q] = stage /\ UNCHANGED <<db, held, file, undo, late>>
      /\ op'[q] = [kind |-> kind, row |-> row, other |-> None] /\ got' = got /\ job' = job
  BY DEF Begin, Goto, database, agent
<1>2. /\ DOMAIN kept'[q] = cells /\ \A c \in cells : kept'[q][c] = db[c]
      /\ \A p \in Req \ {q} : kept'[p] = kept[p]
  BY SessionCells
<1>3. /\ \A c \in Cell : owed'[q][c] = 0
      /\ \A p \in Req \ {q} :
           owed'[p] = owed[p] /\ (p \in met => p \in met') /\ (p \in lost => p \in lost')
  BY <1>1 DEF Request, Owes, Say, Nothing, due
<1>4. ASSUME NEW p \in Req \ {q} PROVE Request(p)'
  <2>1. /\ pc'[p] = pc[p] /\ op'[p] = op[p] /\ kept'[p] = kept[p] /\ got'[p] = got[p]
        /\ job'[p] = job[p] /\ fresh'[p] = fresh[p] /\ owed'[p] = owed[p] /\ file' = file
    BY <1>1, <1>2, <1>3 DEF Begin, Goto
  <2> HIDE DEF IInv, TypeOK
  <2> QED
    BY <1>1, <1>3, <2>1, Untouched
<1>5. \A c \in Cell : db[c] \in Nat /\ 0 <= db[c]
  OBVIOUS
<1>6. Behind'
  <2>1. \A p \in Req, c \in Cell : owed'[p][c] <= db'[c]
    <3>1. ASSUME NEW p \in Req \ {q} PROVE \A c \in Cell : owed'[p][c] <= db'[c]
      <4>1. \A c \in Cell : owed[p][c] <= db[c]
        BY DEF Behind
      <4> HIDE DEF IInv, TypeOK
      <4> QED
        BY <1>1, <1>3, <3>1, <4>1
    <3>2. \A c \in Cell : owed'[q][c] <= db'[c]
      <4>1. db' = db
        BY <1>1
      <4> HIDE DEF IInv, TypeOK
      <4> QED
        BY <1>3, <1>5, <4>1
    <3> QED
      BY <3>1, <3>2
  <2>2. \A p \in Req : \A c \in DOMAIN kept'[p] : kept'[p][c] <= db'[c]
    <3>1. ASSUME NEW p \in Req \ {q} PROVE \A c \in DOMAIN kept'[p] : kept'[p][c] <= db'[c]
      <4>0. Behind
        OBVIOUS
      <4> HIDE DEF IInv, TypeOK
      <4>1. \A c \in DOMAIN kept[p] : kept[p][c] <= db[c]
        BY <4>0 DEF Behind
      <4>2. db' = db /\ kept'[p] = kept[p]
        BY <1>1, <1>2
      <4> QED
        BY <4>1, <4>2
    <3>2. \A c \in DOMAIN kept'[q] : kept'[q][c] <= db'[c]
      <4>1. cells \subseteq Cell
        OBVIOUS
      <4>2. db' = db /\ DOMAIN kept'[q] = cells /\ \A c \in cells : kept'[q][c] = db[c]
        BY <1>1, <1>2
      <4> HIDE DEF IInv, TypeOK
      <4> QED
        BY <1>5, <4>1, <4>2
    <3> QED
      BY <3>1, <3>2
  <2> QED
    BY <1>1, <2>1, <2>2 DEF Behind
<1>7. Request(q)'
  <2>1. job[q] = "none"
    BY <1>1 DEF Request, Owes
  <2>2. Keeps(q)'
    <3>1. op'[q].kind = kind /\ op'[q].row = row /\ Cells({op'[q].row}) = Cells({row})
      BY <1>1
    <3> QED
      BY <1>1, <1>2, <3>1 DEF Keeps
  <2>3. Owes(q)'
    BY <1>1, <1>2, <1>3, <1>5, <2>1 DEF Owes, Pushing
  <2>4. Current(q)'
    BY <1>1, <1>2 DEF Current
  <2> QED
    BY <2>2, <2>3, <2>4 DEF Request
<1> QED
  BY <1>4, <1>6, <1>7

LEMMA NeighbourKeeps ==
  ASSUME IInv, NEW q \in Req, Neighbour(q), Operands(q)'
  PROVE  Behind' /\ \A p \in Req : Request(p)'
<1> USE DEF IInv, TypeOK
<1>1. PICK other \in FirewallRule \cup {None} :
        op' = [op EXCEPT ![q].other = other] /\ Keep(q, Cells({other}))
  BY DEF Neighbour
<1>2. /\ pc[q] = "neighbour" /\ pc' = [pc EXCEPT ![q] = "commit"] /\ op'[q].kind = op[q].kind
      /\ db' = db
      /\ UNCHANGED <<held, file, undo, late, got, job, fresh, owed, met, lost>>
  BY <1>1 DEF Neighbour, Goto, database, agent, due
<1>3. /\ DOMAIN kept'[q] \subseteq Cell
      /\ \A c \in DOMAIN kept'[q] : kept'[q][c] = db[c] \/ (c \in DOMAIN kept[q] /\ kept'[q][c] = kept[q][c])
      /\ \A p \in Req \ {q} : kept'[p] = kept[p]
  BY <1>1, <1>2, KeepCells, CellsInCell
<1>4. ASSUME NEW p \in Req \ {q} PROVE Request(p)'
  BY <1>1, <1>2, <1>3, Untouched
<1>5. \A c \in Cell : db[c] \in Nat /\ db[c] <= db[c]
  OBVIOUS
<1>6. Behind'
  <2>1. db' = db /\ UNCHANGED <<held, file, undo, late, got, owed>>
    BY <1>2
  <2>2. \A c \in DOMAIN kept'[q] : kept'[q][c] <= db[c]
    <3>1. \A c \in DOMAIN kept[q] : kept[q][c] <= db[c]
      BY DEF Behind
    <3> HIDE DEF IInv, TypeOK
    <3> QED
      BY <1>3, <1>5, <3>1
  <2>3. \A p \in Req : \A c \in DOMAIN kept'[p] : kept'[p][c] <= db[c]
    <3>1. ASSUME NEW p \in Req \ {q} PROVE \A c \in DOMAIN kept'[p] : kept'[p][c] <= db[c]
      BY <1>3 DEF Behind
    <3> HIDE DEF IInv, TypeOK
    <3> QED
      BY <2>2, <3>1
  <2>4. Behind
    OBVIOUS
  <2> HIDE DEF IInv, TypeOK
  <2> QED
    BY <2>1, <2>3, <2>4 DEF Behind
<1>7. Request(q)'
  <2>1. op[q].kind = "move"
    BY <1>2 DEF Request, Operands
  <2>2. Keeps(q)' /\ Owes(q)'
    BY <1>2, <2>1 DEF Request, Keeps, Owes, Pushing
  <2>3. Current(q)'
    BY <1>2, <1>3 DEF Request, Current
  <2> QED
    BY <2>2, <2>3 DEF Request
<1> QED
  BY <1>4, <1>6, <1>7

\* The cells that a request writes are those of its rows, and of firewall
\* rules if it answers after its push.
LEMMA WrittenIn ==
  ASSUME NEW q \in Req, Operands(q), pc[q] = "commit"
  PROVE  /\ Written(q) \subseteq Cell
         /\ Pushed(q) => \A c \in Written(q) : c[1] \in FirewallRule
<1> USE DEF Operands, Row
<1>1. CASE op[q].kind = "update"
  BY <1>1 DEF Written, Cell, Pushed
<1>2. CASE op[q].kind = "move"
  BY <1>2 DEF Written, Cells, Pushed
<1>3. CASE op[q].kind \notin {"update", "move"}
  BY <1>3 DEF Written, Cells, Pushed
<1> QED
  BY <1>1, <1>2, <1>3

LEMMA CommitKeeps ==
  ASSUME IInv, NEW q \in Req, Commit(q), Operands(q)'
  PROVE  Behind' /\ \A p \in Req : Request(p)'
<1> USE DEF IInv, TypeOK
<1> DEFINE written == Written(q)
           flushed == IF op[q].kind \in {"update", "move"} THEN written ELSE {}
<1>1. written \subseteq Cell /\ (Pushed(q) => \A c \in written : c[1] \in FirewallRule)
  BY WrittenIn DEF Commit, Request
<1>2. /\ pc[q] = "commit" /\ pc' = [pc EXCEPT ![q] = "after"]
      /\ UNCHANGED <<held, file, undo, late, op, got, job>>
      /\ met' = met \ {q} /\ lost' = lost \ {q}
      /\ Keep(q, flushed)
  BY DEF Commit, Goto, agent
<1>3. /\ \A c \in Cell : /\ db[c] \in Nat /\ db'[c] \in Nat /\ db[c] <= db'[c]
                         /\ c \notin written => db'[c] = db[c]
      /\ written = {} => db' = db
  BY <1>1 DEF Commit
<1>4. /\ \A c \in Cell : owed'[q][c] = IF c \in written THEN db'[c] ELSE 0
      /\ \A p \in Req \ {q} : owed'[p] = owed[p]
  BY DEF Commit
<1>5. /\ fresh'[q] => fresh[q]
      /\ \A p \in Req \ {q} : fresh'[p] => fresh[p] /\ written = {}
  BY DEF Commit
<1>6. /\ DOMAIN kept'[q] = flushed \cup DOMAIN kept[q]
      /\ \A c \in flushed : kept'[q][c] = db'[c]
      /\ \A c \in DOMAIN kept[q] \ flushed : kept'[q][c] = kept[q][c]
      /\ \A p \in Req \ {q} : kept'[p] = kept[p]
  BY <1>2, KeepCells
<1> HIDE DEF written, flushed
<1>7. Behind'
  <2>1. \A p \in Req, c \in Cell : owed'[p][c] <= db'[c]
    <3>1. ASSUME NEW p \in Req \ {q} PROVE \A c \in Cell : owed'[p][c] <= db'[c]
      BY <1>3, <1>4 DEF Behind
    <3>2. ASSUME NEW c \in Cell PROVE owed'[q][c] <= db'[c]
      <4> HIDE DEF IInv, TypeOK
      <4>1. db'[c] \in Nat /\ (owed'[q][c] = db'[c] \/ owed'[q][c] = 0)
        BY <1>3, <1>4
      <4> QED
        BY <4>1
    <3> QED
      BY <3>1, <3>2
  <2>2. \A p \in Req : \A c \in DOMAIN kept'[p] : kept'[p][c] <= db'[c]
    <3>1. ASSUME NEW p \in Req \ {q}, NEW c \in DOMAIN kept'[p] PROVE kept'[p][c] <= db'[c]
      BY <1>3, <1>6, <3>1 DEF Behind
    <3>2. ASSUME NEW c \in DOMAIN kept'[q] PROVE kept'[q][c] <= db'[c]
      BY <1>1, <1>3, <1>6, <3>2 DEF Behind, flushed
    <3> QED
      BY <3>1, <3>2
  <2>3. \A c \in Cell : held'[c] <= db'[c] /\ file'[c] <= db'[c] /\ undo'[c] <= db'[c]
    BY <1>2, <1>3 DEF Behind
  <2>4. \A j \in late', c \in Cell : j[2][c] <= db'[c]
    BY <1>2, <1>3 DEF Behind
  <2>5. \A p \in Req, c \in Cell : got'[p][c] <= db'[c]
    BY <1>2, <1>3 DEF Behind
  <2> QED
    BY <2>1, <2>2, <2>3, <2>4, <2>5 DEF Behind
<1>8. ASSUME NEW p \in Req \ {q} PROVE Request(p)'
  <2>1. /\ pc'[p] = pc[p] /\ op'[p] = op[p] /\ kept'[p] = kept[p] /\ got'[p] = got[p]
        /\ job'[p] = job[p] /\ owed'[p] = owed[p] /\ (p \in met => p \in met')
        /\ (p \in lost => p \in lost') /\ file' = file
    BY <1>2, <1>4, <1>6
  <2>2. Operands(p)' /\ Keeps(p)' /\ Owes(p)'
    <3>1. Operands(p)'
      BY <2>1 DEF Request, Operands
    <3>2. Keeps(p)'
      BY <2>1 DEF Request, Keeps
    <3>3. Owes(p)'
      BY <2>1 DEF Request, Owes, Pushed, Covers
    <3> QED
      BY <3>1, <3>2, <3>3
  <2>3. Current(p)'
    BY <1>3, <1>5, <2>1 DEF Request, Current
  <2> QED
    BY <2>2, <2>3 DEF Request
<1>9. Request(q)'
  <2>1. pc'[q] = "after" /\ op'[q] = op[q] /\ job'[q] = "none"
    BY <1>2 DEF Request, Owes
  <2>2. Keeps(q)'
    <3>1. op[q].kind = "update" => written \subseteq Cells({op[q].row})
      BY <1>1 DEF written, Written, Cells
    <3>2. /\ op[q].kind \in {"create", "delete"} => flushed = {} /\ DOMAIN kept[q] = {}
          /\ op[q].kind = "update" => flushed = written /\ DOMAIN kept[q] \subseteq Cells({op[q].row})
      BY <1>2 DEF flushed, Request, Keeps
    <3> QED
      BY <1>6, <2>1, <3>1, <3>2 DEF Keeps
  <2>3. \A c \in DOMAIN kept'[q] : owed'[q][c] <= kept'[q][c]
    <3>1. op[q].kind \in {"create", "delete"} => DOMAIN kept'[q] = {}
      BY <1>2, <1>6 DEF Request, Keeps, flushed
    <3>2. op[q].kind \in {"update", "move"} => flushed = written
      BY DEF flushed
    <3>3. op[q].kind \in {"create", "delete", "update", "move"}
      BY <1>2 DEF Request, Operands
    <3>4. \A c \in DOMAIN kept[q] : c \in Cell /\ kept[q][c] \in Nat
      OBVIOUS
    <3> QED
      BY <1>1, <1>3, <1>4, <1>6, <3>1, <3>2, <3>3, <3>4
  <2>4. Owes(q)'
    BY <1>1, <1>4, <2>1, <2>3 DEF Owes, Pushing, Pushed
  <2>5. Current(q)'
    <3>1. fresh'[q] => \A c \in DOMAIN kept'[q] : kept'[q][c] = db'[c]
      <4>1. op[q].kind \in {"create", "delete"} => DOMAIN kept'[q] = {}
        BY <1>2, <1>6 DEF Request, Keeps, flushed
      <4>2. op[q].kind \in {"update", "move"} => flushed = written
        BY DEF flushed
      <4>3. op[q].kind \in {"create", "delete", "update", "move"}
        BY <1>2 DEF Request, Operands
      <4> QED
        BY <1>3, <1>5, <1>6, <4>1, <4>2, <4>3 DEF Request, Current
    <3> QED
      BY <2>1, <3>1 DEF Current
  <2> QED
    BY <2>2, <2>4, <2>5 DEF Request
<1> QED
  BY <1>7, <1>8, <1>9

LEMMA AfterKeeps ==
  ASSUME IInv, NEW q \in Req, After(q), Operands(q)'
  PROVE  Behind' /\ \A p \in Req : Request(p)'
<1> USE DEF IInv, TypeOK
<1>0. pc[q] = "after" /\ UNCHANGED <<db, live, held, file, undo, late>>
  BY DEF After, database, agent
<1>1. CASE Leave(q) /\ Say(q, "error")
  BY <1>0, <1>1, LeaveKeeps DEF agent
<1>2. CASE /\ Goto(q, "rules") /\ UNCHANGED <<op, got, job>>
           /\ fresh' = [fresh EXCEPT ![q] = @ \/ op[q].kind # "move"]
           /\ \/ Pushed(q) /\ Reread(q) /\ UNCHANGED <<told, due>>
              \/ ~Pushed(q) /\ Session(q, {}) /\ Say(q, "queued")
  <2>1. /\ pc' = [pc EXCEPT ![q] = "rules"] /\ UNCHANGED <<op, got, job>>
        /\ fresh'[q] = (fresh[q] \/ op[q].kind # "move")
        /\ \A p \in Req \ {q} : fresh'[p] = fresh[p]
    BY <1>2 DEF Goto
  <2>2. /\ DOMAIN kept'[q] \subseteq Cell
        /\ \A c \in DOMAIN kept'[q] :
             \/ kept'[q][c] = db[c]
             \/ c \in DOMAIN kept[q] /\ kept'[q][c] = kept[q][c] /\ op[q].kind = "move"
        /\ \A p \in Req \ {q} : kept'[p] = kept[p]
    <3>1. CASE Reread(q)
      <4>1. Keep(q, IF op[q].kind \in {"create", "update"} THEN Cells({op[q].row}) ELSE {})
        BY <3>1 DEF Reread
      <4>2. op[q].kind \in {"create", "update", "delete", "move"}
        BY <1>0 DEF Request, Operands
      <4>3. /\ op[q].kind \in {"create", "delete"} => DOMAIN kept[q] = {}
            /\ op[q].kind = "update" => DOMAIN kept[q] \subseteq Cells({op[q].row})
        BY <1>0 DEF Request, Keeps
      <4> DEFINE cells == IF op[q].kind \in {"create", "update"} THEN Cells({op[q].row}) ELSE {}
      <4>4. /\ DOMAIN kept'[q] = cells \cup DOMAIN kept[q]
            /\ \A c \in cells : kept'[q][c] = db'[c]
            /\ \A c \in DOMAIN kept[q] \ cells : kept'[q][c] = kept[q][c]
            /\ \A p \in Req \ {q} : kept'[p] = kept[p]
        <5>1. Keep(q, cells) /\ DOMAIN kept = Req
          BY <4>1
        <5> HIDE DEF cells
        <5> QED
          BY <5>1, KeepCells
      <4>5. cells \subseteq Cell
        BY CellsInCell
      <4>6. \A c \in DOMAIN kept[q] : c \notin cells => op[q].kind = "move"
        <5>1. op[q].kind = "update" => DOMAIN kept[q] \subseteq cells
          BY <4>3
        <5> HIDE DEF cells, IInv, TypeOK
        <5> QED
          BY <4>2, <4>3, <5>1
      <4> HIDE DEF cells
      <4> QED
        <5>1. DOMAIN kept[q] \subseteq Cell
          OBVIOUS
        <5> HIDE DEF IInv, TypeOK
        <5> QED
          BY <1>0, <4>4, <4>5, <4>6, <5>1
    <3>2. CASE Session(q, {})
      BY <3>2, SessionCells
    <3> QED
      BY <1>2, <3>1, <3>2
  <2>3. /\ \A p \in Req \ {q} :
           owed'[p] = owed[p] /\ (p \in met => p \in met') /\ (p \in lost => p \in lost')
        /\ \/ Pushed(q) /\ owed' = owed
           \/ ~Pushed(q) /\ \A c \in Cell : owed'[q][c] = 0
    BY <1>2 DEF Say, Nothing, due
  <2>4. \A c \in Cell : db[c] \in Nat /\ 0 <= db[c] /\ owed[q][c] <= db[c]
    BY DEF Behind
  <2>5. ASSUME NEW p \in Req \ {q} PROVE Request(p)'
    <3>1. /\ pc'[p] = pc[p] /\ op'[p] = op[p] /\ kept'[p] = kept[p] /\ got'[p] = got[p]
          /\ job'[p] = job[p] /\ fresh'[p] = fresh[p]
      BY <2>1, <2>2
    <3> HIDE DEF IInv, TypeOK
    <3> QED
      BY <1>0, <2>3, <3>1, Untouched
  <2>6. Behind'
    <3>1. \A p \in Req, c \in Cell : owed'[p][c] <= db'[c]
      <4>1. ASSUME NEW p \in Req \ {q} PROVE \A c \in Cell : owed'[p][c] <= db'[c]
        <5>1. \A c \in Cell : owed[p][c] <= db[c]
          BY DEF Behind
        <5> HIDE DEF IInv, TypeOK
        <5> QED
          BY <1>0, <2>3, <4>1, <5>1
      <4>2. \A c \in Cell : owed'[q][c] <= db'[c]
        BY <1>0, <2>3, <2>4
      <4> QED
        BY <4>1, <4>2
    <3>2. \A p \in Req : \A c \in DOMAIN kept'[p] : kept'[p][c] <= db'[c]
      <4>1. ASSUME NEW p \in Req \ {q} PROVE \A c \in DOMAIN kept'[p] : kept'[p][c] <= db'[c]
        <5>1. \A c \in DOMAIN kept[p] : kept[p][c] <= db[c]
          BY DEF Behind
        <5>2. db' = db /\ kept'[p] = kept[p]
          BY <1>0, <2>2
        <5> HIDE DEF IInv, TypeOK
        <5> QED
          BY <5>1, <5>2
      <4>2. \A c \in DOMAIN kept'[q] : kept'[q][c] <= db'[c]
        <5>1. \A c \in DOMAIN kept[q] : kept[q][c] <= db[c]
          BY DEF Behind
        <5>2. \A c \in Cell : db[c] \in Nat /\ db[c] <= db[c]
          OBVIOUS
        <5> HIDE DEF IInv, TypeOK
        <5> QED
          BY <1>0, <2>2, <5>1, <5>2
      <4> QED
        BY <4>1, <4>2
    <3> QED
      BY <1>0, <2>1, <3>1, <3>2 DEF Behind
  <2>7. Request(q)'
    <3>1. Keeps(q)'
      BY <2>1 DEF Keeps
    <3>2. \A c \in DOMAIN kept'[q] : owed'[q][c] <= kept'[q][c]
      <4>1. \A c \in DOMAIN kept[q] : owed[q][c] <= kept[q][c]
        BY <1>0 DEF Request, Owes
      <4>2. CASE owed' = owed
        <5> HIDE DEF IInv, TypeOK
        <5> QED
          BY <2>2, <2>4, <4>1, <4>2
      <4>3. CASE \A c \in Cell : owed'[q][c] = 0
        <5>1. \A c \in DOMAIN kept[q] : kept[q][c] \in Nat
          OBVIOUS
        <5> HIDE DEF IInv, TypeOK
        <5> QED
          BY <2>2, <2>4, <4>3, <5>1
      <4> QED
        BY <2>3, <4>2, <4>3
    <3>3. Pushed(q)' = Pushed(q)
      BY <2>1 DEF Pushed
    <3>4. \A c \in Cell : c[1] \notin FirewallRule => owed'[q][c] = 0
      BY <1>0, <2>3 DEF Request, Owes
    <3>5. job'[q] = "none"
      BY <1>0, <2>1 DEF Request, Owes
    <3>6. Owes(q)'
      BY <2>1, <2>3, <3>2, <3>3, <3>4, <3>5 DEF Owes, Pushing
    <3>7. Current(q)'
      BY <1>0, <2>1, <2>2 DEF Request, Current
    <3> QED
      BY <3>1, <3>6, <3>7 DEF Request
  <2> QED
    BY <2>5, <2>6, <2>7
<1> QED
  <2> HIDE DEF IInv, TypeOK
  <2>1. \/ Leave(q) /\ Say(q, "error")
        \/ /\ Goto(q, "rules") /\ UNCHANGED <<op, got, job>>
           /\ fresh' = [fresh EXCEPT ![q] = @ \/ op[q].kind # "move"]
           /\ \/ Pushed(q) /\ Reread(q) /\ UNCHANGED <<told, due>>
              \/ ~Pushed(q) /\ Session(q, {}) /\ Say(q, "queued")
    BY Zenon DEF After
  <2> QED
    BY <1>1, <1>2, <2>1

\* A SELECT that is part of a push returns nothing newer than the database,
\* nothing older than what the request has committed, and the database itself
\* if nothing was committed since the session began to read.
LEMMA LoadKeeps ==
  ASSUME IInv, NEW q \in Req, Load(q), Operands(q)'
  PROVE  Behind' /\ \A p \in Req : Request(p)'
<1> USE DEF IInv, TypeOK
<1>1. /\ pc[q] \in {"rules", "nat", "routing"} /\ pc' = [pc EXCEPT ![q] = Following[pc[q]]]
      /\ UNCHANGED <<db, held, file, undo, late, op, kept, job, fresh, owed, met, lost>>
      /\ \A p \in Req \ {q} : got'[p] = got[p]
      /\ \A c \in Cell : got'[q][c] = IF c[1] \in Table[pc[q]] THEN Selected(q, c) ELSE got[q][c]
  BY DEF Load, Goto, database, agent, due, Table
<1>2. \A c \in Cell : /\ Selected(q, c) <= db[c]
                      /\ owed[q][c] <= Selected(q, c)
                      /\ fresh[q] => Selected(q, c) = db[c]
  <2>1. \A c \in Cell : db[c] \in Nat /\ db[c] <= db[c] /\ owed[q][c] <= db[c]
    BY DEF Behind
  <2>2. \A c \in DOMAIN kept[q] : /\ kept[q][c] <= db[c] /\ owed[q][c] <= kept[q][c]
                                  /\ fresh[q] => kept[q][c] = db[c]
    BY <1>1 DEF Behind, Request, Owes, Current
  <2> QED
    BY <2>1, <2>2 DEF Selected
<1>3. ASSUME NEW p \in Req \ {q} PROVE Request(p)'
  BY <1>1, Untouched
<1>4. Behind'
  <2>1. ASSUME NEW p \in Req \ {q} PROVE \A c \in Cell : got'[p][c] <= db'[c]
    BY <1>1 DEF Behind
  <2>2. \A c \in Cell : got'[q][c] <= db'[c]
    BY <1>1, <1>2 DEF Behind
  <2> QED
    BY <1>1, <2>1, <2>2 DEF Behind
<1>5. Request(q)'
  <2>1. /\ pc[q] = "rules" => pc'[q] = "nat" /\ Table[pc[q]] = FirewallRule
        /\ pc[q] = "nat" => pc'[q] = "routing" /\ Table[pc[q]] = NATRule
        /\ pc[q] = "routing" => pc'[q] = "agent" /\ Table[pc[q]] = RoutingRule
    BY <1>1 DEF Following, Table
  <2>2. Keeps(q)'
    BY <1>1, <2>1 DEF Keeps
  <2>3. Pushed(q)' = Pushed(q)
    BY <1>1 DEF Pushed
  <2>4. \A c \in Cell : c[1] \in FirewallRule => owed[q][c] <= got'[q][c]
    BY <1>1, <1>2, <2>1 DEF Request, Owes
  <2>5. Owes(q)'
    BY <1>1, <2>1, <2>3, <2>4 DEF Request, Owes, Pushing
  <2>6. Current(q)'
    BY <1>1, <1>2, <2>1 DEF Request, Current
  <2> QED
    BY <2>2, <2>5, <2>6 DEF Request
<1> QED
  BY <1>3, <1>4, <1>5

\* What a job leaves in the table and in the file is no newer than the
\* database, and what the file no longer covers is lost.
LEMMA AgentStepKeeps ==
  ASSUME IInv, NEW stage, NEW versions \in [Cell -> Nat], NEW next,
         \A c \in Cell : versions[c] <= db[c],
         AgentStep(stage, versions, next), UNCHANGED <<db, owed>>
  PROVE  /\ \A c \in Cell : held'[c] <= db[c] /\ file'[c] <= db[c] /\ undo'[c] <= db[c]
         /\ \A p \in Req : /\ (p \in met => p \in met') /\ (p \in lost => p \in lost')
                           /\ Covers(file, owed[p]) => Covers(file', owed[p]) \/ p \in lost'
<1> DEFINE Below(v) == v \in [Cell -> Nat] /\ \A c \in Cell : v[c] <= db[c]
<1>1. ASSUME NEW v, Below(v), Writes(v)
      PROVE  Below(held') /\ Below(file')
  BY <1>1 DEF IInv, TypeOK, Behind, Writes
<1>2. ASSUME NEW v, Below(v), NEW w, Below(w), Holds(v, w)
      PROVE  Below(held') /\ Below(file')
  BY <1>2 DEF IInv, TypeOK, Behind, Holds
<1>3. /\ Below(held) /\ Below(file) /\ Below(undo) /\ Below(versions) /\ Below(Nothing)
      /\ Nothing \in [Cell -> Nat]
  BY DEF IInv, TypeOK, Behind, Nothing
<1> HIDE DEF Below
<1>4. \/ \E v : Below(v) /\ Writes(v)
      \/ \E v, w : Below(v) /\ Below(w) /\ Holds(v, w)
      \/ Stays
  BY <1>3 DEF AgentStep, Proceeds, Fails, Restores
<1>5. Below(held') /\ Below(file')
  BY <1>1, <1>2, <1>3, <1>4 DEF Stays
<1>6. undo' \in {undo, file}
  BY DEF AgentStep, Proceeds, Fails, Restores
<1>7. ASSUME NEW p \in Req
      PROVE  /\ (p \in met => p \in met') /\ (p \in lost => p \in lost')
             /\ Covers(file, owed[p]) => Covers(file', owed[p]) \/ p \in lost'
  <2>1. ASSUME NEW v, Writes(v)
        PROVE  /\ (p \in met => p \in met') /\ (p \in lost => p \in lost')
               /\ Covers(file, owed[p]) => Covers(file', owed[p]) \/ p \in lost'
    BY <2>1 DEF Writes
  <2>2. ASSUME UNCHANGED <<file, lost>>, p \in met => p \in met'
        PROVE  /\ (p \in met => p \in met') /\ (p \in lost => p \in lost')
               /\ Covers(file, owed[p]) => Covers(file', owed[p]) \/ p \in lost'
    BY <2>2
  <2> QED
    BY <1>4, <2>1, <2>2 DEF Holds, Stays
<1>8. Below(undo')
  BY <1>3, <1>6
<1> QED
  BY <1>5, <1>7, <1>8 DEF Below

\* Of a job whose request still waits: what it writes it has in the file, and
\* what of that it loads the agent has had.
LEMMA OwnJob ==
  ASSUME IInv, NEW q \in Req, pc[q] = "agent", NEW next, AgentStep(job[q], got[q], next),
         UNCHANGED <<db, owed>>
  PROVE  /\ next # "rollback"
         /\ next = "written" => Covers(file', owed[q])
         /\ next \in {"loaded", "ok"} => q \in met' \cup lost'
<1> USE DEF IInv, TypeOK
<1>1. \A c \in Cell : c[1] \in FirewallRule => owed[q][c] <= got[q][c]
  BY DEF Request, Owes
<1>2. \A c \in Cell : c[1] \notin FirewallRule => owed[q][c] = 0
  BY DEF Request, Owes, Pushing
<1>3. /\ job[q] = "written" => Covers(file, owed[q]) \/ q \in lost
      /\ job[q] = "loaded" => q \in met \cup lost
      /\ job[q] # "rollback"
  BY DEF Request, Owes
<1>4. next # "rollback"
  BY DEF AgentStep, Proceeds, Fails, Restores
<1>5. ASSUME next = "written" PROVE Covers(file', owed[q])
  <2>1. file' = got[q]
    BY <1>5 DEF AgentStep, Proceeds, Fails, Restores, Writes
  <2>2. \A c \in Cell : got[q][c] \in Nat
    OBVIOUS
  <2> HIDE DEF IInv, TypeOK
  <2> QED
    BY <1>1, <1>2, <2>1, <2>2 DEF Covers
<1>6. ASSUME next = "loaded" PROVE q \in met' \cup lost'
  <2>1. job[q] = "written" /\ Holds(file, held)
    BY <1>6 DEF AgentStep, Proceeds, Fails, Restores
  <2>2. lost' = lost
    BY <2>1 DEF Holds
  <2>3. CASE Covers(file, owed[q])
    <3>1. \A c \in Cell : held[c] \in Nat /\ held'[c] = IF c[1] \in RoutingRule THEN held[c] ELSE file[c]
      BY <2>1 DEF Holds
    <3>2. \A c \in Cell : owed[q][c] <= file[c]
      BY <2>3 DEF Covers
    <3>3. \A c \in Cell : owed[q][c] <= held'[c]
      <4>1. ASSUME NEW c \in Cell, c[1] \in RoutingRule PROVE owed[q][c] = 0
        <5>1. c[1] \notin FirewallRule
          BY <4>1, GatewayAssumption
        <5> QED
          BY <1>2, <4>1, <5>1
      <4> HIDE DEF IInv, TypeOK
      <4> QED
        BY <3>1, <3>2, <4>1
    <3>4. Covers(held', owed[q])
      BY <3>3 DEF Covers
    <3> QED
      BY <2>1, <3>4 DEF Holds
  <2> QED
    BY <1>3, <2>1, <2>2, <2>3
<1>7. ASSUME next = "ok" PROVE q \in met' \cup lost'
  <2>1. job[q] = "loaded"
    BY <1>3, <1>7 DEF AgentStep, Proceeds, Fails, Restores
  <2>2. Holds(held, got[q]) \/ Stays
    BY <1>7, <2>1 DEF AgentStep, Proceeds, Fails, Restores
  <2> QED
    BY <1>3, <2>1, <2>2 DEF Holds, Stays
<1> QED
  BY <1>4, <1>5, <1>6, <1>7

LEMMA AgentAnswersKeeps ==
  ASSUME IInv, NEW q \in Req, AgentAnswers(q), Operands(q)'
  PROVE  Behind' /\ \A p \in Req : Request(p)'
<1> USE DEF IInv, TypeOK
<1>1. PICK next \in Doing \cup {"ok", "failed"} :
        AgentStep(Does(q), got[q], next) /\ job' = [job EXCEPT ![q] = next]
  BY DEF AgentAnswers
<1>2. /\ pc[q] \in {"agent", "rollback"} /\ (pc[q] = "agent" => Does(q) = job[q])
      /\ UNCHANGED <<db, late, pc, op, kept, got, fresh, owed>>
      /\ \A p \in Req \ {q} : job'[p] = job[p]
  BY <1>1 DEF AgentAnswers, Asked, Does, database
<1>3. /\ \A c \in Cell : held'[c] <= db[c] /\ file'[c] <= db[c] /\ undo'[c] <= db[c]
      /\ \A p \in Req : /\ (p \in met => p \in met') /\ (p \in lost => p \in lost')
                        /\ Covers(file, owed[p]) => Covers(file', owed[p]) \/ p \in lost'
  <2>1. got[q] \in [Cell -> Nat] /\ \A c \in Cell : got[q][c] <= db[c]
    BY DEF Behind
  <2> HIDE DEF IInv, TypeOK
  <2> QED
    BY <1>1, <1>2, <2>1, AgentStepKeeps
<1>4. ASSUME NEW p \in Req \ {q} PROVE Request(p)'
  BY <1>2, <1>3, Untouched
<1>5. Behind'
  BY <1>2, <1>3 DEF Behind
<1>6. Request(q)'
  <2>1. Keeps(q)' /\ Current(q)'
    <3>1. Keeps(q)'
      BY <1>2 DEF Keeps, Request
    <3>2. Current(q)'
      BY <1>2 DEF Request, Current
    <3> QED
      BY <3>1, <3>2
  <2>2. pc[q] = "agent" => /\ next # "rollback"
                           /\ next = "written" => Covers(file', owed[q])
                           /\ next \in {"loaded", "ok"} => q \in met' \cup lost'
    <3> HIDE DEF IInv, TypeOK
    <3> QED
      BY <1>1, <1>2, OwnJob
  <2>3. job'[q] = next /\ owed'[q] = owed[q] /\ Covers(file', owed'[q]) = Covers(file', owed[q])
    BY <1>1, <1>2
  <2>4. Owes(q)'
    BY <1>2, <2>2, <2>3 DEF Request, Owes, Pushing, Pushed
  <2> QED
    BY <2>1, <2>4 DEF Request
<1> QED
  BY <1>4, <1>5, <1>6

LEMMA AnswerKeeps ==
  ASSUME IInv, NEW q \in Req, Stale(q) \/ Finish(q) \/ GiveUp(q)
  PROVE  Behind' /\ \A p \in Req : Request(p)'
<1>1. ASSUME NEW word \in {"ok", "error"}, pc[q] \in {"agent", "rollback"}, Answer(q, word),
             \A j \in late' : j \in late \/ j[2] = got[q]
      PROVE  Behind' /\ \A p \in Req : Request(p)'
  <2>1. Leave(q) /\ db' = db /\ UNCHANGED agent
    BY <1>1 DEF Answer, database
  <2>2. \/ Say(q, word)
        \/ UNCHANGED <<told, due>> /\ \A c \in Cell : owed[q][c] = 0
    <3>1. ASSUME ~Pushed(q), op[q].kind # "rollback" PROVE \A c \in Cell : owed[q][c] = 0
      BY <1>1, <3>1 DEF IInv, Request, Owes, Pushing
    <3> QED
      BY <1>1, <3>1 DEF Answer
  <2> QED
    BY <1>1, <2>1, <2>2, LeaveKeeps
<1>2. CASE Stale(q)
  BY <1>2, LeaveKeeps DEF Stale, database
<1>3. CASE Finish(q)
  BY <1>1, <1>3 DEF Finish, Outcome
<1>4. CASE GiveUp(q)
  BY <1>1, <1>4 DEF GiveUp, TimedOut, Asked
<1> QED
  BY <1>2, <1>3, <1>4

LEMMA LateKeeps ==
  ASSUME IInv, AgentGoesOn
  PROVE  Behind' /\ \A p \in Req : Request(p)'
<1>1. PICK j \in late, next \in Doing \cup {"ok", "failed"} :
        /\ AgentStep(j[1], j[2], next)
        /\ \A k \in late' : k \in late \/ k[2] = j[2]
  BY DEF AgentGoesOn
<1>2. UNCHANGED <<db, pc, op, kept, got, job, fresh, owed>>
  BY DEF AgentGoesOn, database
<1>3. j[2] \in [Cell -> Nat] /\ \A c \in Cell : j[2][c] <= db[c]
  BY DEF IInv, TypeOK, Behind
<1>4. /\ \A c \in Cell : held'[c] <= db[c] /\ file'[c] <= db[c] /\ undo'[c] <= db[c]
      /\ \A p \in Req : /\ (p \in met => p \in met') /\ (p \in lost => p \in lost')
                        /\ Covers(file, owed[p]) => Covers(file', owed[p]) \/ p \in lost'
  BY <1>1, <1>2, <1>3, AgentStepKeeps
<1>5. Behind'
  BY <1>1, <1>2, <1>3, <1>4 DEF IInv, Behind
<1> QED
  BY <1>2, <1>4, <1>5, Untouched

LEMMA InvStep == IInv /\ [Next]_vars => IInv'
<1> SUFFICES ASSUME IInv, [Next]_vars PROVE IInv'
  OBVIOUS
<1> USE DEF IInv
<1>0. TypeOK /\ \A q \in Req : Operands(q)
  BY DEF Request
<1>1. \A q \in Req : Operands(q)'
  BY <1>0, OperandsKept
<1>2. TypeOK'
  BY <1>0, RouteForms, BeginningType, HandlerType, PushType, StutterType DEF Next, Gateway, Waiting
<1>3. ASSUME NEW q \in Req, NEW row \in Row, Create(q, row)
      PROVE  Behind' /\ \A p \in Req : Request(p)'
  BY <1>1, <1>3, BeginKeeps DEF Create
<1>4. ASSUME NEW q \in Req, NEW row \in Row, NEW kind \in Kind, Change(q, kind, row)
      PROVE  Behind' /\ \A p \in Req : Request(p)'
  <2>1. PICK stage \in {"neighbour", "commit"} : Begin(q, kind, row, stage)
    BY <1>4 DEF Change
  <2>2. Session(q, IF kind = "delete" THEN {} ELSE Cells({row})) /\ kind # "create"
    BY <1>4 DEF Change
  <2>3. (IF kind = "delete" THEN {} ELSE Cells({row})) \in SUBSET Cell
    BY CellsInCell
  <2>4. UNCHANGED <<told, due>>
    BY <1>4 DEF Change
  <2> QED
    BY <1>1, <2>1, <2>2, <2>3, <2>4, BeginKeeps
<1>5. ASSUME NEW q \in Req, Reload(q) \/ Rollback(q)
      PROVE  Behind' /\ \A p \in Req : Request(p)'
  BY <1>1, <1>5, BeginKeeps DEF Reload, Rollback
<1>6. CASE UNCHANGED vars
  <2>1. ASSUME NEW p \in Req PROVE Request(p)'
    BY <1>6, Untouched DEF vars
  <2>2. Behind'
    <3> USE <1>6 DEF vars, Behind
    <3>1. \A c \in Cell : held'[c] <= db'[c] /\ file'[c] <= db'[c] /\ undo'[c] <= db'[c]
      OBVIOUS
    <3>2. \A j \in late', c \in Cell : j[2][c] <= db'[c]
      OBVIOUS
    <3>3. \A q \in Req, c \in Cell : got'[q][c] <= db'[c] /\ owed'[q][c] <= db'[c]
      OBVIOUS
    <3>4. \A q \in Req : \A c \in DOMAIN kept'[q] : kept'[q][c] <= db'[c]
      OBVIOUS
    <3> QED
      BY <3>1, <3>2, <3>3, <3>4
  <2> QED
    BY <1>2, <2>1, <2>2
<1>7. Behind' /\ \A p \in Req : Request(p)'
  BY <1>1, <1>3, <1>4, <1>5, <1>6, NeighbourKeeps, CommitKeeps, AnswerKeeps, AfterKeeps, LoadKeeps,
     AgentAnswersKeeps, LateKeeps, RouteForms
  DEF Next, Gateway, Waiting
<1> QED
  BY <1>2, <1>7

LEMMA Invariant == Spec => []IInv
BY InitInv, InvStep, PTL DEF Spec

\* A payload none of whose reads is older than the last commit is the
\* database, however the requests overlap.
THEOREM CurrentRowsPushed == Spec => []PushesCurrentRows
<1>1. ASSUME IInv PROVE PushesCurrentRows
  <2> SUFFICES ASSUME NEW q \in Req, pc[q] = "agent", fresh[q] PROVE got[q] = db
    BY DEF PushesCurrentRows
  <2>1. \A c \in Cell : c[1] \in Row
    BY DEF Cell
  <2>2. \A c \in Cell : got[q][c] = db[c]
    BY <1>1, <2>1 DEF IInv, Request, Current, Row
  <2>3. got[q] \in [Cell -> Nat] /\ db \in [Cell -> Nat]
    BY <1>1 DEF IInv, TypeOK
  <2> QED
    BY <2>2, <2>3
<1> QED
  BY <1>1, Invariant, PTL

-----------------------------------------------------------------------------
(* Refinement: a commit is a commit, what the agent writes is written, what   *)
(* it loads or removes is delivered, and an answer of success is only given   *)
(* when the agent had what was owed, or had it in its file.                   *)

LEMMA InitRefines == Init => Desired!Init
BY GatewayAssumption DEF Init, Desired!Init, Desired!Nothing, Nothing

LEMMA SayRefines ==
  ASSUME NEW q \in Req, NEW word \in {"ok", "queued", "error"}, Say(q, word),
         word = "ok" => q \in met \cup lost \/ owed[q] = Nothing, UNCHANGED <<db, held, file>>
  PROVE  Desired!Next
BY DEF Say, Nothing, Desired!Next, Desired!Answer, Desired!Nothing

\* Every step of a job writes, delivers, or leaves both as they are.
LEMMA AgentStepRefines ==
  ASSUME IInv, NEW stage, NEW versions \in [Cell -> Nat], NEW next,
         \A c \in Cell : versions[c] <= db[c],
         AgentStep(stage, versions, next), UNCHANGED <<db, owed, told>>
  PROVE  [Desired!Next]_(Desired!vars)
<1>1. /\ {held', file', undo'} \subseteq [Cell -> Nat]
      /\ \A c \in Cell : held'[c] <= db[c] /\ file'[c] <= db[c]
  BY AgentStepType, AgentStepKeeps DEF IInv
<1>2. ASSUME NEW v, Writes(v) PROVE Desired!Next
  BY <1>1, <1>2 DEF Writes, Covers, Desired!Next, Desired!Write, Desired!Covers
<1>3. ASSUME NEW v, NEW w, Holds(v, w) PROVE Desired!Next
  BY <1>1, <1>3 DEF Holds, Covers, Desired!Next, Desired!Deliver, Desired!Covers
<1>4. (\E v : Writes(v)) \/ (\E v, w : Holds(v, w)) \/ Stays
  BY DEF AgentStep, Proceeds, Fails, Restores
<1> QED
  BY <1>2, <1>3, <1>4 DEF Stays, Desired!vars

LEMMA CommitRefines ==
  ASSUME IInv, NEW q \in Req, Commit(q)
  PROVE  Desired!Next
<1> DEFINE written == Written(q)
<1>1. \A c \in Cell : db[c] \in Nat /\ db[c] + 1 # db[c]
  BY DEF IInv, TypeOK
<1>2. /\ db' = [c \in Cell |-> IF c \in written THEN db[c] + 1 ELSE db[c]]
      /\ owed' = [owed EXCEPT ![q] = [c \in Cell |-> IF c \in written THEN db'[c] ELSE 0]]
      /\ met' = met \ {q} /\ lost' = lost \ {q} /\ UNCHANGED <<held, file, told>>
  BY DEF Commit, agent
<1> HIDE DEF written
<1>3. db' \in [Cell -> Nat] /\ \A c \in Cell : db'[c] \in {db[c], db[c] + 1}
  BY <1>1, <1>2
<1>4. \A c \in Cell : c \in written <=> db'[c] # db[c]
  BY <1>1, <1>2
<1>5. [c \in Cell |-> IF c \in written THEN db'[c] ELSE 0]
      = [c \in Cell |-> IF db'[c] # db[c] THEN db'[c] ELSE 0]
  BY <1>4
<1> QED
  BY <1>2, <1>3, <1>5 DEF Desired!Next, Desired!Commit

LEMMA StepRefines ==
  ASSUME IInv, [Next]_vars
  PROVE  [Desired!Next]_(Desired!vars)
<1>1. ASSUME UNCHANGED <<db, held, file, owed, met, lost, told>> PROVE [Desired!Next]_(Desired!vars)
  BY <1>1 DEF Desired!vars
<1>2. ASSUME NEW q \in Req,
             \/ \E row \in Row : Create(q, row) \/ \E kind \in Kind : Change(q, kind, row)
             \/ Rollback(q) \/ Neighbour(q) \/ Load(q)
      PROVE  [Desired!Next]_(Desired!vars)
  <2>1. UNCHANGED <<db, held, file, owed, met, lost, told>>
    BY <1>2 DEF Create, Change, Rollback, Begin, Neighbour, Load, database, agent, due
  <2> QED
    BY <1>1, <2>1
<1>3. ASSUME NEW q \in Req, Reload(q) \/ Stale(q) PROVE [Desired!Next]_(Desired!vars)
  BY <1>3, SayRefines DEF Reload, Begin, Stale, database, agent
<1>4. ASSUME NEW q \in Req, Commit(q) PROVE [Desired!Next]_(Desired!vars)
  BY <1>4, CommitRefines
<1>5. ASSUME NEW q \in Req, After(q) PROVE [Desired!Next]_(Desired!vars)
  <2>1. /\ UNCHANGED <<db, held, file>>
        /\ \/ UNCHANGED <<owed, met, lost, told>>
           \/ Say(q, "queued") \/ Say(q, "error")
    BY <1>5 DEF After, database, agent, due
  <2> QED
    BY <1>1, <2>1, SayRefines
<1>6. ASSUME NEW q \in Req, AgentAnswers(q) PROVE [Desired!Next]_(Desired!vars)
  <2>1. PICK next : AgentStep(Does(q), got[q], next)
    BY <1>6 DEF AgentAnswers
  <2>2. UNCHANGED <<db, owed, told>>
    BY <1>6 DEF AgentAnswers, database
  <2>3. got[q] \in [Cell -> Nat] /\ \A c \in Cell : got[q][c] <= db[c]
    BY DEF IInv, TypeOK, Behind
  <2> QED
    BY <2>1, <2>2, <2>3, AgentStepRefines
<1>7. ASSUME NEW q \in Req, NEW word \in {"ok", "error"}, Answer(q, word),
             word = "ok" => q \in met \cup lost \/ owed[q] = Nothing
      PROVE  [Desired!Next]_(Desired!vars)
  <2>1. UNCHANGED <<db, held, file>> /\ (Say(q, word) \/ UNCHANGED <<told, owed, met, lost>>)
    BY <1>7 DEF Answer, database, agent, due
  <2> QED
    BY <1>1, <1>7, <2>1, SayRefines
<1>8. ASSUME NEW q \in Req, Finish(q) PROVE [Desired!Next]_(Desired!vars)
  <2>1. pc[q] = "agent" /\ job[q] = "ok" => q \in met \cup lost
    BY DEF IInv, Request, Owes
  <2>2. pc[q] = "rollback" => owed[q] = Nothing
    <3>1. owed[q] \in [Cell -> Nat]
      BY DEF IInv, TypeOK
    <3>2. pc[q] = "rollback" => \A c \in Cell : owed[q][c] = 0
      BY DEF IInv, Request, Owes
    <3> QED
      BY <3>1, <3>2 DEF Nothing
  <2> QED
    BY <1>7, <1>8, <2>1, <2>2 DEF Finish, Outcome
<1>9. ASSUME NEW q \in Req, GiveUp(q) PROVE [Desired!Next]_(Desired!vars)
  BY <1>7, <1>9 DEF GiveUp
<1>10. CASE AgentGoesOn
  <2>1. PICK j \in late, next \in Doing \cup {"ok", "failed"} : AgentStep(j[1], j[2], next)
    BY <1>10 DEF AgentGoesOn
  <2>2. UNCHANGED <<db, owed, told>>
    BY <1>10 DEF AgentGoesOn, database
  <2>3. j[2] \in [Cell -> Nat] /\ \A c \in Cell : j[2][c] <= db[c]
    BY DEF IInv, TypeOK, Behind
  <2> QED
    BY <2>1, <2>2, <2>3, AgentStepRefines
<1>11. CASE UNCHANGED vars
  BY <1>1, <1>11 DEF vars
<1> QED
  BY <1>2, <1>3, <1>4, <1>5, <1>6, <1>8, <1>9, <1>10, <1>11, RouteForms DEF Next, Gateway, Waiting

\* The gateway and the agent behind it implement the abstract specification.
THEOREM Refines == Spec => KeepsDesiredState
<1>1. Init => Desired!Init
  BY InitRefines
<1>2. IInv /\ [Next]_vars => [Desired!Next]_(Desired!vars)
  BY StepRefines
<1> QED
  BY <1>1, <1>2, Invariant, PTL DEF Spec, KeepsDesiredState, Desired!Spec
==============================================================================
