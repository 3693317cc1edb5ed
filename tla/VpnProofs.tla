------------------------------- MODULE VpnProofs -------------------------------
(***************************************************************************)
(* Theorems about Vpn, for every number of requests, servers, clients and   *)
(* configurations, with faults anywhere: its types, that the keys of a      *)
(* client match, what a failed apply leaves, and what a start, a stop or a  *)
(* restart that was told ok has done.                                       *)
(***************************************************************************)
EXTENDS Vpn, TLAPS

-----------------------------------------------------------------------------
(* The inductive invariant.  A request that began while nothing ran, and    *)
(* beside which none began, is the only one that runs, so that each of its  *)
(* stages can rely on what the stages before it left.                       *)

Alone == solo # None => Running \subseteq {solo}

\* What an apply has established when its thread is at a stage.
Saved == before.conf # None => backup = before.conf
PutBack(q) ==
  before.conf # None =>
    /\ conf = before.conf
    /\ before.conf \in Good /\ "again" \notin faults =>
         active = IF Tried(q) THEN before.conf ELSE before.active
ApplyPhase(q) ==
  /\ op[q].text \in Config \cup Malformed
  /\ thread[q] \in {"none", "backup", "write", "restart", "restore", "restart2"}
  /\ pc[q] = "wait" \/ (pc[q] = "idle" /\ thread[q] = "none")
  /\ thread[q] # "none" =>
       /\ reply[q] = "nothing" /\ Valid(op[q].text)
       /\ "file" \notin faults /\ "again" \notin faults
  /\ thread[q] \in {"backup", "write"} => conf = before.conf /\ active = before.active
  /\ thread[q] \in {"write", "restart", "restore"} => Saved
  /\ thread[q] = "restart2" /\ before.conf # None => conf = before.conf
  /\ pc[q] = "wait" /\ reply[q] = "error" => PutBack(q)
  /\ pc[q] = "idle" /\ op[q].told = "error" => PutBack(q)

\* What a start, a stop or a restart has established.
UnitKinds == {"start", "stop", "restart"}
AtBoot(word) == "ignored" \notin faults => enabled = word
Up == AtBoot(TRUE) /\ active # None
Down == AtBoot(FALSE) /\ active = None
Starting(q) ==
  /\ thread[q] \in {"enable", "start", "none"}
  /\ thread[q] = "start" => AtBoot(TRUE)
  /\ thread[q] = "none" /\ reply[q] = "ok" => Up
Stopping(q) ==
  /\ thread[q] \in {"disable", "stop", "none"}
  /\ thread[q] = "stop" => AtBoot(FALSE)
  /\ thread[q] = "none" /\ reply[q] = "ok" => Down
RowSeen(q) ==
  /\ op[q].server \in Server /\ op[q].seen # None /\ servers[op[q].server] # None
  /\ servers[op[q].server].status =
       IF op[q].kind = "restart" /\ pc[q] # "commit" THEN "restarting"
       ELSE op[q].seen.status
UnitPhase(q) ==
  LET kind == op[q].kind IN
  /\ pc[q] # "idle" => RowSeen(q)
  /\ pc[q] \in {"idle", "commit", "call", "stopped", "wait", "status"}
  /\ pc[q] # "wait" => thread[q] = "none"
  /\ pc[q] = "commit" => kind = "restart"
  /\ pc[q] = "stopped" => kind = "restart" /\ op[q].stopped
  /\ pc[q] \in {"commit", "call"} => ~op[q].stopped
  /\ pc[q] = "wait" =>
       IF kind = "start" \/ (kind = "restart" /\ op[q].stopped) THEN Starting(q)
       ELSE Stopping(q)
  /\ pc[q] = "status" => IF kind = "stop" THEN Down ELSE Up
  /\ pc[q] = "idle" /\ op[q].told = "ok" =>
       /\ AtBoot(active # None)
       /\ servers[op[q].server].status = IF active # None THEN "running" ELSE "stopped"

\* A caller that gave up has been told so, whatever its thread still does.
GaveUp(q) == pc[q] = "idle" /\ op[q].told = "error"

Phase(q) ==
  /\ op[q].kind = "apply" /\ ~Lapse => ApplyPhase(q)
  /\ op[q].kind \in UnitKinds => IF "silence" \in faults THEN GaveUp(q) ELSE UnitPhase(q)

SoloInv == Alone /\ \A q \in Req : q = solo => Phase(q)

\* Something fails.
Fails == \E kind \in FaultKind : Fault(kind)

-----------------------------------------------------------------------------
(* Types.                                                                   *)

LEMMA RestType == Rest \in Operation
BY VpnAssumption DEF Rest, Operation, Kind, KeyId, Answers

LEMMA RowType ==
  ASSUME NEW wireguard \in BOOLEAN, NEW site \in BOOLEAN
  PROVE  NewServer(wireguard, site) \in ServerRow
BY DEF NewServer, ServerRow

LEMMA InitType == Init => TypeOK
<1> SUFFICES ASSUME Init PROVE TypeOK
  OBVIOUS
<1>1. servers \in [Server -> ServerRow \cup {None}]
  <2>1. PICK s \in Server :
          servers = [t \in Server |-> IF t = s THEN NewServer(TRUE, FALSE) ELSE None]
    BY DEF Init
  <2> QED
    BY <2>1, RowType
<1>2. children \in [Child -> ChildRow \cup {None}]
  BY DEF Init
<1>3. conf \in Config \cup {None} /\ backup \in Config \cup {None} /\ active \in Config \cup {None}
  BY VpnAssumption DEF Init
<1>4. enabled \in BOOLEAN
  BY Zenon DEF Init
<1>5. op \in [Req -> Operation]
  BY RestType DEF Init
<1>6. pc \in [Req -> Stage] /\ thread \in [Req -> ThreadStage] /\ reply \in [Req -> Answers]
  BY DEF Init, Stage, ThreadStage, Answers
<1>7. /\ solo \in Req \cup {None} /\ faults \subseteq FaultKind
      /\ before \in [conf : Config \cup {None}, active : Config \cup {None}]
  BY <1>3 DEF Init
<1>8. nRequests \in KeyId /\ nFaults \in 0 .. MaxFaults
  BY VpnAssumption DEF Init, KeyId
<1> QED
  BY <1>1, <1>2, <1>3, <1>4, <1>5, <1>6, <1>7, <1>8 DEF TypeOK

\* The counter of faults stays in its bound, and the kinds that came are kept.
LEMMA BudgetType ==
  ASSUME nFaults \in 0 .. MaxFaults, faults \subseteq FaultKind, Works \/ Fails
  PROVE  /\ nFaults' \in 0 .. MaxFaults /\ faults' \subseteq FaultKind
         /\ faults \subseteq faults'
BY VpnAssumption DEF Works, Fails, Fault, budget

LEMMA GotoType ==
  ASSUME pc \in [Req -> Stage], NEW q \in Req, NEW stage \in Stage, Goto(q, stage)
  PROVE  pc' \in [Req -> Stage]
BY DEF Goto

LEMMA FinishType ==
  ASSUME TypeOK, NEW q \in Req, NEW word \in Answers, Finish(q, word)
  PROVE  pc' \in [Req -> Stage] /\ op' \in [Req -> Operation]
<1>1. pc' \in [Req -> Stage]
  BY DEF TypeOK, Finish, Goto, Stage
<1>2. op[q] \in Operation
  BY DEF TypeOK
<1>3. [op[q] EXCEPT !.told = word, !.seen = None] \in Operation
  BY <1>2 DEF Operation
<1>4. op' \in [Req -> Operation]
  BY <1>3, RestType DEF TypeOK, Finish
<1> QED
  BY <1>1, <1>4

LEMMA StartType ==
  ASSUME TypeOK, NEW q \in Req, NEW o \in Operation, NEW stage \in Stage,
         NEW threadStage \in ThreadStage, Start(q, o, stage, threadStage)
  PROVE  TypeOK'
<1>1. nRequests' \in KeyId
  BY VpnAssumption DEF TypeOK, Start, KeyId
<1>2. [o EXCEPT !.n = nRequests + 1] \in Operation
  BY <1>1 DEF Operation, Start
<1>3. op' \in [Req -> Operation]
  <2> DEFINE next == [r \in Req |->
              IF r = q THEN [o EXCEPT !.n = nRequests + 1]
              ELSE IF r \in Running THEN op[r] ELSE Rest]
  <2>1. op' = next
    BY DEF Start
  <2>2. next \in [Req -> Operation]
    BY <1>2, RestType DEF TypeOK
  <2> QED
    BY <2>1, <2>2
<1>4. pc' \in [Req -> Stage]
  BY DEF TypeOK, Start, Goto
<1>5. thread' \in [Req -> ThreadStage] /\ reply' \in [Req -> Answers]
  BY DEF TypeOK, Start, Answers
<1>6. /\ solo' \in Req \cup {None}
      /\ before' \in [conf : Config \cup {None}, active : Config \cup {None}]
  BY DEF TypeOK, Start
<1>7. faults' \subseteq FaultKind /\ nFaults' \in 0 .. MaxFaults
  BY DEF TypeOK, Start
<1>8. /\ servers' \in [Server -> ServerRow \cup {None}]
      /\ children' \in [Child -> ChildRow \cup {None}]
      /\ conf' \in Config \cup {None} /\ backup' \in Config \cup {None}
      /\ active' \in Config \cup {None}
  BY DEF TypeOK, Start, rows, file, unit
<1>9. enabled' \in BOOLEAN
  BY Zenon DEF TypeOK, Start, unit
<1> QED
  BY <1>1, <1>3, <1>4, <1>5, <1>6, <1>7, <1>8, <1>9 DEF TypeOK

LEMMA RequestType ==
  ASSUME TypeOK, NEW q \in Req, Request(q)
  PROVE  TypeOK'
<1>1. ASSUME NEW s \in Server, NEW wireguard \in BOOLEAN, NEW site \in BOOLEAN,
             CreateServer(q, s, wireguard, site)
      PROVE  TypeOK'
  <2>1. [Rest EXCEPT !.kind = "create", !.server = s,
                     !.new = NewServer(wireguard, site)] \in Operation
    BY RestType, RowType DEF Operation, Kind
  <2> QED
    BY <1>1, <2>1, StartType DEF CreateServer, Stage, ThreadStage
<1>2. ASSUME NEW s \in Server, NEW kind \in Kind, NEW new \in ServerRow \cup {None},
             NEW stage \in Stage, OnServer(q, kind, s, new, stage)
      PROVE  TypeOK'
  <2>1. servers[s] \in ServerRow \cup {None}
    BY DEF TypeOK
  <2>2. [Rest EXCEPT !.kind = kind, !.server = s, !.seen = servers[s], !.new = new] \in Operation
    BY <2>1, RestType DEF Operation
  <2> QED
    BY <1>2, <2>2, StartType DEF OnServer, ThreadStage
<1>3. ASSUME NEW s \in Server, NEW site \in BOOLEAN, UpdateServer(q, s, site)
      PROVE  TypeOK'
  <2>1. servers[s] \in ServerRow
    BY <1>3 DEF UpdateServer, Servers, TypeOK
  <2>2. [servers[s] EXCEPT !.site = site] \in ServerRow
    BY <2>1 DEF ServerRow
  <2> QED
    BY <1>2, <1>3, <2>2 DEF UpdateServer, Kind, Stage
<1>4. ASSUME NEW s \in Server,
             DeleteServer(q, s) \/ StartServer(q, s) \/ StopServer(q, s) \/ RestartServer(q, s)
      PROVE  TypeOK'
  BY <1>2, <1>4 DEF DeleteServer, StartServer, StopServer, RestartServer, Kind, Stage
<1>5. ASSUME NEW s \in Server, NEW c, InitializeSiteToSite(q, s, c)
      PROVE  TypeOK'
  <2>1. [Rest EXCEPT !.kind = "initialize", !.server = s,
                     !.new = NewServer(TRUE, TRUE)] \in Operation
    BY RestType, RowType DEF Operation, Kind
  <2> QED
    BY <1>5, <2>1, StartType DEF InitializeSiteToSite, Stage, ThreadStage
<1>6. ASSUME NEW s \in Server, NEW c \in Child, NEW kind \in Kind, AddChild(q, kind, s, c)
      PROVE  TypeOK'
  <2>1. [Rest EXCEPT !.kind = kind, !.server = s, !.child = c] \in Operation
    BY RestType DEF Operation
  <2>2. (IF kind = "client" /\ servers[s].wireguard THEN "keys" ELSE "commit") \in Stage
    BY DEF Stage
  <2> QED
    BY <1>6, <2>1, <2>2, StartType DEF AddChild, ThreadStage
<1>7. ASSUME NEW s \in Server, NEW c \in Child,
             CreateClient(q, s, c) \/ BulkCreateClients(q, s, c) \/ CreateRoute(q, s, c)
      PROVE  TypeOK'
  BY <1>6, <1>7 DEF CreateClient, BulkCreateClients, CreateRoute, Kind
<1>8. ASSUME NEW c \in Child, NEW kind \in Kind, NEW stage \in Stage,
             OnChild(q, kind, c, stage)
      PROVE  TypeOK'
  <2>1. children[c].server \in Server
    BY <1>8 DEF OnChild, Children, TypeOK, ChildRow
  <2>2. [Rest EXCEPT !.kind = kind, !.child = c, !.server = children[c].server] \in Operation
    BY <2>1, RestType DEF Operation
  <2> QED
    BY <1>8, <2>2, StartType DEF OnChild, ThreadStage
<1>9. ASSUME NEW c \in Child,
             UpdateClient(q, c) \/ DeleteClient(q, c) \/ DeleteRoute(q, c)
               \/ RegenerateClientCredentials(q, c)
      PROVE  TypeOK'
  <2>1. (IF servers[children[c].server].wireguard THEN "keys" ELSE "commit") \in Stage
    BY DEF Stage
  <2> QED
    BY <1>8, <1>9, <2>1
    DEF UpdateClient, DeleteClient, DeleteRoute, RegenerateClientCredentials, Kind, Stage
<1>10. ASSUME NEW c \in Config \cup Malformed, VpnApply(q, c)
       PROVE  TypeOK'
  <2> DEFINE o == [Rest EXCEPT !.kind = "apply", !.text = c]
  <2>1. o \in Operation
    BY RestType DEF Operation, Kind
  <2>2. [o EXCEPT !.told = "error"] \in Operation
    BY <2>1 DEF Operation, Answers
  <2>3. "wait" \in Stage /\ "idle" \in Stage /\ "backup" \in ThreadStage /\ "none" \in ThreadStage
    BY DEF Stage, ThreadStage
  <2>4. Start(q, o, "wait", "backup") \/ Start(q, [o EXCEPT !.told = "error"], "idle", "none")
    BY <1>10 DEF VpnApply
  <2> HIDE DEF o
  <2> QED
    BY <2>1, <2>2, <2>3, <2>4, StartType
<1> QED
  BY <1>1, <1>3, <1>4, <1>5, <1>7, <1>9, <1>10 DEF Request


\* A step of the gateway that touches neither file nor unit.
LEMMA GatewayType ==
  ASSUME TypeOK, servers' \in [Server -> ServerRow \cup {None}],
         children' \in [Child -> ChildRow \cup {None}],
         pc' \in [Req -> Stage], op' \in [Req -> Operation],
         thread' \in [Req -> ThreadStage], reply' \in [Req -> Answers],
         Works \/ Fails, UNCHANGED <<file, unit, history, nRequests>>
  PROVE  TypeOK'
<1>1. nFaults' \in 0 .. MaxFaults /\ faults' \subseteq FaultKind
  BY BudgetType DEF TypeOK
<1>2. enabled' \in BOOLEAN
  BY Zenon DEF TypeOK, unit
<1> QED
  BY <1>1, <1>2 DEF TypeOK, file, unit, history

\* A step of a thread.
LEMMA ThreadType ==
  ASSUME TypeOK, thread' \in [Req -> ThreadStage], reply' \in [Req -> Answers],
         conf' \in Config \cup {None}, backup' \in Config \cup {None},
         enabled' \in BOOLEAN, active' \in Config \cup {None},
         Works \/ Fails, UNCHANGED <<rows, pc, op, history, nRequests>>
  PROVE  TypeOK'
<1>1. nFaults' \in 0 .. MaxFaults /\ faults' \subseteq FaultKind
  BY BudgetType DEF TypeOK
<1> QED
  BY <1>1 DEF TypeOK, rows, history

LEMMA GenerateKeysType ==
  ASSUME TypeOK, NEW q \in Req, GenerateKeys(q)
  PROVE  TypeOK'
<1>1. pc' \in [Req -> Stage] /\ op' \in [Req -> Operation]
  <2>1. CASE Goto(q, "commit") /\ op' = [op EXCEPT ![q].key = op[q].n]
    <3>1. pc' \in [Req -> Stage]
      BY <2>1, GotoType DEF TypeOK, Stage
    <3>2. op[q] \in Operation /\ op[q].n \in KeyId
      BY DEF TypeOK, Operation
    <3>3. [op[q] EXCEPT !.key = op[q].n] \in Operation
      BY <3>2 DEF Operation
    <3> QED
      BY <2>1, <3>1, <3>3 DEF TypeOK
  <2>2. CASE Finish(q, "error")
    BY <2>2, FinishType DEF Answers
  <2> QED
    BY <2>1, <2>2 DEF GenerateKeys
<1>2. Works \/ Fails
  BY DEF GenerateKeys, Fails, FaultKind
<1> QED
  BY <1>1, <1>2, GatewayType DEF GenerateKeys, rows, TypeOK

\* What a request has read for as long as it runs, and that no keys are made
\* for clients in bulk.
Read ==
  \A q \in Req : pc[q] # "idle" =>
    /\ op[q].kind \in {"create", "initialize", "update"} => op[q].new \in ServerRow
    /\ op[q].kind = "bulk" => pc[q] # "keys" /\ op[q].key = 0

\* What a write leaves of the rows.
LEMMA CommitRows ==
  ASSUME TypeOK, Read, NEW q \in Req, Commit(q)
  PROVE  /\ servers' \in [Server -> ServerRow \cup {None}]
         /\ children' \in [Child -> ChildRow \cup {None}]
<1> DEFINE o == op[q]
<1>1. CASE UNCHANGED rows
  BY <1>1 DEF rows, TypeOK
<1>2. CASE Writable(q)
           /\ servers' = [servers EXCEPT ![o.server] = ServerAfter(o, @)]
           /\ children' = IF o.child = None THEN children
                          ELSE [children EXCEPT ![o.child] = ChildAfter(q, @)]
  <2>1. o \in Operation
    BY DEF TypeOK
  <2>2. ASSUME o.server \in Server
        PROVE  ServerAfter(o, servers[o.server]) \in ServerRow \cup {None}
    <3> DEFINE old == servers[o.server]
    <3>1. old \in ServerRow \cup {None}
      BY <2>2 DEF TypeOK
    <3>2. o.kind \in {"restart", "update"} => old \in ServerRow
      <4>1. o.kind \in {"restart", "update"} => o.server \in Servers
        BY <1>2 DEF Writable
      <4> QED
        BY <4>1, <3>1 DEF Servers
    <3>3. o.kind = "restart" => [old EXCEPT !.status = "restarting"] \in ServerRow
      BY <3>2 DEF ServerRow
    <3>4. o.kind = "update" => [old EXCEPT !.site = o.new.site] \in ServerRow
      <4>1. pc[q] # "idle"
        BY DEF Commit
      <4>2. o.kind = "update" => o.new \in ServerRow
        BY <4>1 DEF Read
      <4> QED
        BY <3>2, <4>2 DEF ServerRow
    <3>5. o.new \in ServerRow \cup {None}
      BY <2>1 DEF Operation
    <3> QED
      BY <3>1, <3>3, <3>4, <3>5 DEF ServerAfter
  <2>3. ASSUME o.child \in Child
        PROVE  ChildAfter(q, children[o.child]) \in ChildRow \cup {None}
    <3>1. o.kind \in {"client", "bulk", "route"} => o.server \in Server
      BY <1>2 DEF Writable, Servers
    <3>2. o.server \in Server => Child1(q) \in ChildRow
      <4>1. o.key \in KeyId
        BY <2>1 DEF Operation
      <4> QED
        BY <4>1 DEF Child1, File, ChildRow
    <3>3. o.kind = "regenerate" => children[o.child] \in ChildRow
      BY <1>2, <2>3 DEF Writable, Children, TypeOK
    <3>4. o.kind = "regenerate" =>
            [children[o.child] EXCEPT !.key = o.key, !.config = File(q)] \in ChildRow
      BY <2>1, <3>3 DEF File, ChildRow, Operation
    <3> QED
      BY <2>3, <3>1, <3>2, <3>4 DEF ChildAfter, TypeOK
  <2> HIDE DEF o
  <2> QED
    BY <1>2, <2>1, <2>2, <2>3 DEF TypeOK
<1> QED
  BY <1>1, <1>2 DEF Commit

LEMMA CommitType ==
  ASSUME TypeOK, Read, NEW q \in Req, Commit(q)
  PROVE  TypeOK'
<1>1. pc' \in [Req -> Stage] /\ op' \in [Req -> Operation]
  <2>1. CASE \/ Goto(q, "call") /\ UNCHANGED op
             \/ Goto(q, "push") /\ UNCHANGED op
    BY <2>1, GotoType DEF TypeOK, Stage
  <2>2. CASE Finish(q, "ok") \/ Finish(q, "error")
    BY <2>2, FinishType DEF Answers
  <2> QED
    BY <2>1, <2>2 DEF Commit
<1>2. Works
  BY DEF Commit, Works
<1>3. UNCHANGED <<file, unit, thread, reply, history, nRequests>>
  BY DEF Commit
<1> QED
  BY <1>1, <1>2, <1>3, CommitRows, GatewayType DEF TypeOK

LEMMA GatewayStepType ==
  ASSUME TypeOK, NEW q \in Req, Push(q) \/ Call(q) \/ Answered(q) \/ GiveUp(q) \/ SetStatus(q)
  PROVE  TypeOK'
<1>1. CASE Push(q)
  <2>1. Finish(q, "error") /\ UNCHANGED thread
    BY <1>1 DEF Push, SessionFactoryBound
  <2>2. pc' \in [Req -> Stage] /\ op' \in [Req -> Operation]
    BY <2>1, FinishType DEF Answers
  <2> QED
    BY <1>1, <2>1, <2>2, GatewayType DEF Push, Works, rows, TypeOK
<1>2. CASE Call(q)
  <2>1. thread' \in [Req -> ThreadStage] /\ pc' \in [Req -> Stage] /\ op' \in [Req -> Operation]
    <3>1. CASE Finish(q, "error") /\ UNCHANGED thread
      BY <3>1, FinishType DEF Answers, TypeOK
    <3>2. CASE Goto(q, "wait") /\ UNCHANGED op
               /\ (thread' = [thread EXCEPT ![q] = "enable"]
                     \/ thread' = [thread EXCEPT ![q] = "disable"])
      BY <3>2, GotoType DEF TypeOK, Stage, ThreadStage
    <3> QED
      BY <1>2, <3>1, <3>2 DEF Call
  <2> QED
    BY <1>2, <2>1, GatewayType DEF Call, Works, rows, TypeOK
<1>3. CASE Answered(q)
  <2>1. reply' \in [Req -> Answers]
    BY <1>3 DEF Answered, TypeOK, Answers
  <2>2. pc' \in [Req -> Stage] /\ op' \in [Req -> Operation]
    <3>1. CASE Finish(q, reply[q])
      BY <3>1, FinishType DEF TypeOK
    <3>2. CASE /\ op' = [op EXCEPT ![q].stopped = op[q].kind = "restart"]
               /\ Goto(q, "stopped") \/ Goto(q, "status")
      <4>1. pc' \in [Req -> Stage]
        BY <3>2, GotoType DEF TypeOK, Stage
      <4>2. op[q] \in Operation /\ (op[q].kind = "restart") \in BOOLEAN
        BY DEF TypeOK
      <4>3. [op[q] EXCEPT !.stopped = op[q].kind = "restart"] \in Operation
        BY <4>2 DEF Operation
      <4> QED
        BY <3>2, <4>1, <4>3 DEF TypeOK
    <3> QED
      BY <1>3, <3>1, <3>2 DEF Answered
  <2> QED
    BY <1>3, <2>1, <2>2, GatewayType DEF Answered, Works, rows, TypeOK
<1>4. CASE GiveUp(q)
  <2>1. pc' \in [Req -> Stage] /\ op' \in [Req -> Operation]
    BY <1>4, FinishType DEF GiveUp, Answers
  <2>2. Works \/ Fails
    BY <1>4 DEF GiveUp, Fails, FaultKind
  <2> QED
    BY <1>4, <2>1, <2>2, GatewayType DEF GiveUp, rows, TypeOK
<1>5. CASE SetStatus(q)
  <2>1. pc' \in [Req -> Stage] /\ op' \in [Req -> Operation]
    BY <1>5, FinishType DEF SetStatus, Answers
  <2>2. servers' \in [Server -> ServerRow \cup {None}]
    <3> DEFINE s == op[q].server
               row == IF s \in Servers THEN [servers[s] EXCEPT !.status = Outcome(q)]
                      ELSE servers[s]
    <3>1. s \in Server => row \in ServerRow \cup {None}
      BY DEF TypeOK, Servers, ServerRow, Outcome
    <3>2. UNCHANGED servers \/ servers' = [servers EXCEPT ![s] = row]
      BY <1>5 DEF SetStatus
    <3> QED
      BY <3>1, <3>2 DEF TypeOK
  <2> QED
    BY <1>5, <2>1, <2>2, GatewayType DEF SetStatus, Works, TypeOK
<1> QED
  BY <1>1, <1>2, <1>3, <1>4, <1>5

LEMMA ReplyType ==
  ASSUME TypeOK, NEW q \in Req, NEW word \in Answers, Reply(q, word)
  PROVE  thread' \in [Req -> ThreadStage] /\ reply' \in [Req -> Answers]
BY DEF TypeOK, Reply, ThreadStage, Answers

LEMMA ThreadToType ==
  ASSUME TypeOK, NEW q \in Req, NEW stage \in ThreadStage, ThreadTo(q, stage)
  PROVE  thread' \in [Req -> ThreadStage] /\ reply' \in [Req -> Answers]
BY DEF TypeOK, ThreadTo


LEMMA AgentStepType ==
  ASSUME TypeOK, NEW q \in Req,
         \/ Backup(q) \/ (WriteConfig(q) /\ op[q].text \in Config) \/ Restart(q)
         \/ RestoreBackup(q) \/ RestartAgain(q)
  PROVE  TypeOK'
<1> DEFINE Configs == Config \cup {None}
<1>0. /\ conf \in Configs /\ backup \in Configs /\ active \in Configs /\ Restarted \in Configs
      /\ Restored \in Configs /\ CutShort \subseteq Configs
  BY DEF TypeOK, Restarted, Restored, CutShort
<1>1. enabled' \in BOOLEAN
  <2>1. enabled' = enabled
    BY DEF Backup, WriteConfig, Restart, RestoreBackup, RestartAgain, unit
  <2> QED
    BY <2>1, Zenon DEF TypeOK
<1>2. conf' \in Configs /\ backup' \in Configs /\ active' \in Configs
  BY <1>0 DEF Backup, WriteConfig, Restart, RestoreBackup, RestartAgain, unit, file
<1>3. thread' \in [Req -> ThreadStage] /\ reply' \in [Req -> Answers]
  <2>1. \/ \E stage \in {"write", "restart", "restore", "restart2"} : ThreadTo(q, stage)
        \/ \E word \in {"ok", "error"} : Reply(q, word)
    BY DEF Backup, WriteConfig, Restart, RestoreBackup, RestartAgain
  <2> QED
    BY <2>1, ReplyType, ThreadToType DEF ThreadStage, Answers
<1>4. Works \/ Fails
  BY DEF Backup, WriteConfig, Restart, RestoreBackup, RestartAgain, Fails, FaultKind
<1>5. UNCHANGED <<rows, pc, op, history, nRequests>>
  BY DEF Backup, WriteConfig, Restart, RestoreBackup, RestartAgain, Agent
<1> QED
  BY <1>1, <1>2, <1>3, <1>4, <1>5, ThreadType

LEMMA UnitStepType ==
  ASSUME TypeOK, NEW q \in Req, Enable(q) \/ StartUnit(q) \/ StopUnit(q)
  PROVE  TypeOK'
<1> DEFINE Configs == Config \cup {None}
<1>0. /\ conf \in Configs /\ backup \in Configs /\ active \in Configs /\ Restarted \in Configs
      /\ Started \in Configs
  BY DEF TypeOK, Restarted, Started
<1>1. enabled' \in BOOLEAN
  BY Zenon DEF TypeOK, Enable, StartUnit, StopUnit
<1>2. conf' \in Configs /\ backup' \in Configs /\ active' \in Configs
  BY <1>0 DEF Enable, StartUnit, StopUnit, file
<1>3. thread' \in [Req -> ThreadStage] /\ reply' \in [Req -> Answers]
  <2>1. \/ \E stage \in {"start", "stop"} : ThreadTo(q, stage)
        \/ \E word \in {"ok", "error"} : Reply(q, word)
    BY DEF Enable, StartUnit, StopUnit
  <2> QED
    BY <2>1, ReplyType, ThreadToType DEF ThreadStage, Answers
<1>4. Works \/ Fails
  BY DEF Enable, StartUnit, StopUnit, Fails, FaultKind
<1>5. UNCHANGED <<rows, pc, op, history, nRequests>>
  BY DEF Enable, StartUnit, StopUnit, Agent
<1> QED
  BY <1>1, <1>2, <1>3, <1>4, <1>5, ThreadType

LEMMA DeathType ==
  ASSUME TypeOK, AgentDies
  PROVE  TypeOK'
<1>1. thread' \in [Req -> ThreadStage] /\ reply' \in [Req -> Answers]
  BY DEF AgentDies, TypeOK, ThreadStage, Answers
<1>2. enabled' \in BOOLEAN
  BY Zenon DEF TypeOK, AgentDies, unit
<1>3. Works \/ Fails
  BY DEF AgentDies, Fails, FaultKind
<1> QED
  BY <1>1, <1>2, <1>3, ThreadType DEF AgentDies, TypeOK, file, unit

-----------------------------------------------------------------------------
(* What a request has read stays true of it: the text that a thread is to    *)
(* write is one that was accepted.                                           *)

Texts == \A q \in Req : thread[q] \in {"backup", "write"} => op[q].text \in Config

LEMMA StartReads ==
  ASSUME TypeOK, Read, Texts, NEW q \in Req, NEW o, NEW stage, NEW threadStage,
         Start(q, o, stage, threadStage), o \in Operation,
         stage # "idle" /\ o.kind \in {"create", "initialize", "update"} => o.new \in ServerRow,
         o.kind = "bulk" => stage # "keys" /\ o.key = 0,
         threadStage \in {"backup", "write"} => o.text \in Config
  PROVE  Read' /\ Texts'
<1>1. op'[q] = [o EXCEPT !.n = nRequests + 1] /\ pc'[q] = stage /\ thread'[q] = threadStage
  BY DEF Start, Goto, TypeOK
<1>2. /\ op'[q].kind = o.kind /\ op'[q].new = o.new /\ op'[q].server = o.server
      /\ op'[q].text = o.text /\ op'[q].key = o.key
  BY <1>1 DEF Operation
<1>3. ASSUME NEW r \in Req, r # q
      PROVE  /\ pc'[r] = pc[r] /\ thread'[r] = thread[r]
             /\ r \in Running => op'[r] = op[r]
  BY <1>3 DEF Start, Goto, TypeOK
<1>4. Read'
  <2> SUFFICES ASSUME NEW r \in Req, pc'[r] # "idle"
               PROVE  /\ op'[r].kind \in {"create", "initialize", "update"} =>
                           op'[r].new \in ServerRow
                      /\ op'[r].kind = "bulk" => pc'[r] # "keys" /\ op'[r].key = 0
    BY DEF Read
  <2>1. CASE r = q
    BY <1>1, <1>2, <2>1
  <2>2. CASE r # q
    BY <1>3, <2>2 DEF Read, Running
  <2> QED
    BY <2>1, <2>2
<1>5. Texts'
  <2> SUFFICES ASSUME NEW r \in Req, thread'[r] \in {"backup", "write"}
               PROVE  op'[r].text \in Config
    BY DEF Texts
  <2>1. CASE r = q
    BY <1>1, <1>2, <2>1
  <2>2. CASE r # q
    BY <1>3, <2>2 DEF Texts, Running
  <2> QED
    BY <2>1, <2>2
<1> QED
  BY <1>4, <1>5


LEMMA RequestReads ==
  ASSUME TypeOK, Read, Texts, NEW q \in Req, Request(q)
  PROVE  Read' /\ Texts'
<1>1. ASSUME NEW s \in Server, NEW wireguard \in BOOLEAN, NEW site \in BOOLEAN,
             CreateServer(q, s, wireguard, site)
      PROVE  Read' /\ Texts'
  <2> DEFINE o == [Rest EXCEPT !.kind = "create", !.server = s,
                               !.new = NewServer(wireguard, site)]
  <2>1. o \in Operation /\ o.kind = "create" /\ o.new \in ServerRow
    BY RestType, RowType DEF Operation, Kind
  <2>2. Start(q, o, "commit", "none")
    BY <1>1 DEF CreateServer
  <2> HIDE DEF o
  <2> QED
    BY <2>1, <2>2, StartReads
<1>2. ASSUME NEW s \in Server, NEW kind \in Kind, NEW new \in ServerRow \cup {None},
             NEW stage, OnServer(q, kind, s, new, stage),
             kind # "bulk", kind \in {"create", "initialize", "update"} => new \in ServerRow
      PROVE  Read' /\ Texts'
  <2> DEFINE o == [Rest EXCEPT !.kind = kind, !.server = s, !.seen = servers[s], !.new = new]
  <2>1. servers[s] \in ServerRow \cup {None}
    BY DEF TypeOK
  <2>2. o \in Operation /\ o.kind = kind /\ o.new = new
    BY <2>1, RestType DEF Operation
  <2>3. Start(q, o, stage, "none")
    BY <1>2 DEF OnServer
  <2> HIDE DEF o
  <2> QED
    BY <1>2, <2>2, <2>3, StartReads
<1>3. ASSUME NEW s \in Server, NEW site \in BOOLEAN, UpdateServer(q, s, site)
      PROVE  Read' /\ Texts'
  <2>1. servers[s] \in ServerRow
    BY <1>3 DEF UpdateServer, Servers, TypeOK
  <2>2. [servers[s] EXCEPT !.site = site] \in ServerRow
    BY <2>1 DEF ServerRow
  <2> QED
    BY <1>2, <1>3, <2>2 DEF UpdateServer, Kind
<1>4. ASSUME NEW s \in Server,
             DeleteServer(q, s) \/ StartServer(q, s) \/ StopServer(q, s) \/ RestartServer(q, s)
      PROVE  Read' /\ Texts'
  BY <1>2, <1>4 DEF DeleteServer, StartServer, StopServer, RestartServer, Kind
<1>5. ASSUME NEW s \in Server, NEW c, InitializeSiteToSite(q, s, c)
      PROVE  Read' /\ Texts'
  <2> DEFINE o == [Rest EXCEPT !.kind = "initialize", !.server = s,
                               !.new = NewServer(TRUE, TRUE)]
  <2>1. o \in Operation /\ o.kind = "initialize" /\ o.new \in ServerRow
    BY RestType, RowType DEF Operation, Kind
  <2>2. Start(q, o, "commit", "none")
    BY <1>5 DEF InitializeSiteToSite
  <2> HIDE DEF o
  <2> QED
    BY <2>1, <2>2, StartReads
<1>6. ASSUME NEW s \in Server, NEW c \in Child, NEW kind \in {"client", "bulk", "route"},
             AddChild(q, kind, s, c)
      PROVE  Read' /\ Texts'
  <2> DEFINE o == [Rest EXCEPT !.kind = kind, !.server = s, !.child = c]
             stage == IF kind = "client" /\ servers[s].wireguard THEN "keys" ELSE "commit"
  <2>1. o \in Operation /\ o.kind = kind /\ o.key = 0
    BY RestType DEF Operation, Kind, Rest
  <2>2. Start(q, o, stage, "none") /\ (kind = "bulk" => stage # "keys")
    BY <1>6 DEF AddChild
  <2> HIDE DEF o, stage
  <2> QED
    BY <2>1, <2>2, StartReads
<1>7. ASSUME NEW s \in Server, NEW c \in Child,
             CreateClient(q, s, c) \/ BulkCreateClients(q, s, c) \/ CreateRoute(q, s, c)
      PROVE  Read' /\ Texts'
  BY <1>6, <1>7 DEF CreateClient, BulkCreateClients, CreateRoute
<1>8. ASSUME NEW c \in Child, NEW kind \in {"edit", "remove", "regenerate"}, NEW stage,
             OnChild(q, kind, c, stage)
      PROVE  Read' /\ Texts'
  <2> DEFINE o == [Rest EXCEPT !.kind = kind, !.child = c, !.server = children[c].server]
  <2>1. children[c].server \in Server
    BY <1>8 DEF OnChild, Children, TypeOK, ChildRow
  <2>2. o \in Operation /\ o.kind = kind /\ o.server \in Server
    BY <2>1, RestType DEF Operation, Kind
  <2>3. Start(q, o, stage, "none")
    BY <1>8 DEF OnChild
  <2> HIDE DEF o
  <2> QED
    BY <2>2, <2>3, StartReads
<1>9. ASSUME NEW c \in Child,
             UpdateClient(q, c) \/ DeleteClient(q, c) \/ DeleteRoute(q, c)
               \/ RegenerateClientCredentials(q, c)
      PROVE  Read' /\ Texts'
  BY <1>8, <1>9 DEF UpdateClient, DeleteClient, DeleteRoute, RegenerateClientCredentials
<1>10. ASSUME NEW c \in Config \cup Malformed, VpnApply(q, c)
       PROVE  Read' /\ Texts'
  <2> DEFINE o == [Rest EXCEPT !.kind = "apply", !.text = c]
             refused == [o EXCEPT !.told = "error"]
  <2>1. o \in Operation /\ o.kind = "apply" /\ o.text = c
    BY RestType DEF Operation, Kind
  <2>2. refused \in Operation /\ refused.kind = "apply"
    BY <2>1 DEF Operation, Answers
  <2>3. (Valid(c) /\ Start(q, o, "wait", "backup")) \/ Start(q, refused, "idle", "none")
    BY <1>10 DEF VpnApply
  <2>4. Valid(c) => c \in Config
    BY DEF Valid
  <2> HIDE DEF o, refused
  <2> QED
    BY <2>1, <2>2, <2>3, <2>4, StartReads
<1> QED
  BY <1>1, <1>3, <1>4, <1>5, <1>7, <1>9, <1>10 DEF Request

\* The requests that a step is not about, and those that it keeps or ends.
LEMMA StepReads ==
  ASSUME TypeOK, Read, Texts, NEW q \in Req,
         \A r \in Req : r # q => pc'[r] = pc[r] /\ op'[r] = op[r] /\ thread'[r] = thread[r],
         pc'[q] # "idle" => /\ pc[q] # "idle" /\ op'[q].kind = op[q].kind
                            /\ op'[q].new = op[q].new /\ op'[q].server = op[q].server
                            /\ op[q].kind = "bulk" => pc'[q] # "keys" /\ op'[q].key = op[q].key,
         thread'[q] \in {"backup", "write"} =>
           thread[q] \in {"backup", "write"} /\ op'[q].text = op[q].text
  PROVE  Read' /\ Texts'
<1>1. Read'
  <2> SUFFICES ASSUME NEW r \in Req, pc'[r] # "idle"
               PROVE  /\ op'[r].kind \in {"create", "initialize", "update"} =>
                           op'[r].new \in ServerRow
                      /\ op'[r].kind = "bulk" => pc'[r] # "keys" /\ op'[r].key = 0
    BY DEF Read
  <2> QED
    BY DEF Read
<1>2. Texts'
  <2> SUFFICES ASSUME NEW r \in Req, thread'[r] \in {"backup", "write"}
               PROVE  op'[r].text \in Config
    BY DEF Texts
  <2> QED
    BY DEF Texts
<1> QED
  BY <1>1, <1>2

LEMMA FinishLeaves ==
  ASSUME TypeOK, NEW q \in Req, NEW word, Finish(q, word)
  PROVE  /\ pc'[q] = "idle"
         /\ thread[q] # "none" => op'[q] = [op[q] EXCEPT !.told = word, !.seen = None]
         /\ \A r \in Req : r # q => pc'[r] = pc[r] /\ op'[r] = op[r]
BY DEF TypeOK, Finish, Goto


LEMMA GatewayStepReads ==
  ASSUME TypeOK, Read, Texts, NEW q \in Req,
         \/ GenerateKeys(q) \/ Commit(q) \/ Push(q) \/ Call(q) \/ Answered(q) \/ GiveUp(q)
         \/ SetStatus(q)
  PROVE  Read' /\ Texts'
<1> DEFINE Others == \A r \in Req : r # q =>
                       pc'[r] = pc[r] /\ op'[r] = op[r] /\ thread'[r] = thread[r]
           Kept == /\ op'[q].kind = op[q].kind /\ op'[q].new = op[q].new
                   /\ op'[q].server = op[q].server /\ op'[q].text = op[q].text
                   /\ op[q].kind = "bulk" => pc'[q] # "keys" /\ op'[q].key = op[q].key
<1>0. op[q] \in Operation /\ pc[q] \in Stage /\ thread[q] \in ThreadStage
  BY DEF TypeOK
<1>1. ASSUME NEW word, Finish(q, word), UNCHANGED thread
      PROVE  Read' /\ Texts'
  <2>1. Others /\ pc'[q] = "idle"
    BY <1>1, FinishLeaves
  <2>2. thread[q] # "none" => op'[q].text = op[q].text
    BY <1>0, <1>1, FinishLeaves DEF Operation
  <2> QED
    BY <1>1, <2>1, <2>2, StepReads
<1>2. ASSUME Others, Kept, pc[q] # "idle",
             thread'[q] \notin {"backup", "write"}
      PROVE  Read' /\ Texts'
  BY <1>2, StepReads
<1>3. CASE GenerateKeys(q)
  <2>1. CASE Goto(q, "commit") /\ op' = [op EXCEPT ![q].key = op[q].n]
    <3>1. op[q].kind # "bulk" /\ pc[q] # "idle"
      BY <1>3 DEF GenerateKeys, Read
    <3>2. Others /\ Kept /\ thread' = thread
      BY <1>0, <1>3, <2>1, <3>1 DEF GenerateKeys, Goto, TypeOK, Operation
    <3> QED
      BY <3>1, <3>2, StepReads
  <2> QED
    BY <1>1, <1>3, <2>1 DEF GenerateKeys
<1>4. CASE Commit(q)
  <2>1. ASSUME NEW stage \in {"call", "push"}, Goto(q, stage), UNCHANGED op
        PROVE  Read' /\ Texts'
    <3>1. Others /\ Kept /\ pc[q] # "idle" /\ thread' = thread
      BY <1>4, <2>1 DEF Commit, Goto, TypeOK
    <3> QED
      BY <3>1, StepReads
  <2> QED
    BY <1>1, <1>4, <2>1 DEF Commit
<1>5. CASE Push(q)
  BY <1>1, <1>5 DEF Push, SessionFactoryBound
<1>6. CASE Call(q)
  <2>1. CASE Goto(q, "wait") /\ UNCHANGED op
             /\ (thread' = [thread EXCEPT ![q] = "enable"]
                   \/ thread' = [thread EXCEPT ![q] = "disable"])
    <3>1. Others /\ Kept /\ pc[q] # "idle" /\ thread'[q] \notin {"backup", "write"}
      BY <1>6, <2>1 DEF Call, Goto, TypeOK
    <3> QED
      BY <3>1, <1>2
  <2> QED
    BY <1>1, <1>6, <2>1 DEF Call
<1>7. CASE Answered(q)
  <2>1. ASSUME NEW stage \in {"stopped", "status"}, Goto(q, stage), UNCHANGED thread,
               op' = [op EXCEPT ![q].stopped = op[q].kind = "restart"]
        PROVE  Read' /\ Texts'
    <3>1. Others /\ Kept /\ pc[q] # "idle" /\ thread' = thread
      BY <1>0, <1>7, <2>1 DEF Answered, Goto, TypeOK, Operation
    <3> QED
      BY <3>1, StepReads
  <2> QED
    BY <1>1, <1>7, <2>1 DEF Answered
<1>8. CASE GiveUp(q)
  BY <1>1, <1>8 DEF GiveUp
<1>9. CASE SetStatus(q)
  BY <1>1, <1>9 DEF SetStatus
<1> QED
  BY <1>3, <1>4, <1>5, <1>6, <1>7, <1>8, <1>9

\* The stages of a thread, and the steps from one to the next.
AgentStep(q) ==
  \/ Backup(q) \/ WriteConfig(q) \/ Restart(q) \/ RestoreBackup(q) \/ RestartAgain(q)
  \/ Enable(q) \/ StartUnit(q) \/ StopUnit(q)

LEMMA AgentStepReads ==
  ASSUME TypeOK, Read, Texts, NEW q \in Req, AgentStep(q)
  PROVE  Read' /\ Texts'
<1>1. UNCHANGED <<pc, op>>
  BY DEF AgentStep, Backup, WriteConfig, Restart, RestoreBackup, RestartAgain, Enable,
         StartUnit, StopUnit, Agent
<1>2. thread[q] = "backup" \/ thread'[q] \notin {"backup", "write"}
  BY DEF AgentStep, Backup, WriteConfig, Restart, RestoreBackup, RestartAgain, Enable,
         StartUnit, StopUnit, Agent, ThreadTo, Reply, TypeOK
<1>3. \A r \in Req : r # q => thread'[r] = thread[r]
  BY DEF AgentStep, Backup, WriteConfig, Restart, RestoreBackup, RestartAgain, Enable,
         StartUnit, StopUnit, Agent, ThreadTo, Reply, TypeOK
<1>4. op[q].kind = "bulk" /\ pc[q] # "idle" => pc'[q] # "keys" /\ op'[q].key = op[q].key
  BY <1>1 DEF Read
<1> QED
  BY <1>1, <1>2, <1>3, <1>4, StepReads

LEMMA InitReads == Init => Read /\ Texts
<1> SUFFICES ASSUME Init PROVE Read /\ Texts
  OBVIOUS
<1>1. Read
  BY DEF Init, Read
<1>2. Texts
  BY DEF Init, Texts
<1> QED
  BY <1>1, <1>2

Typed == TypeOK /\ Read /\ Texts

LEMMA NextTyped == Typed /\ [Next]_vars => Typed'
<1> SUFFICES ASSUME Typed, [Next]_vars PROVE Typed'
  OBVIOUS
<1>0. TypeOK /\ Read /\ Texts
  BY DEF Typed
<1>1. ASSUME NEW q \in Req, Request(q)
      PROVE  Typed'
  BY <1>0, <1>1, RequestType, RequestReads DEF Typed
<1>2. ASSUME NEW q \in Req,
             \/ GenerateKeys(q) \/ Commit(q) \/ Push(q) \/ Call(q) \/ Answered(q) \/ GiveUp(q)
             \/ SetStatus(q)
      PROVE  Typed'
  <2>1. TypeOK'
    BY <1>0, <1>2, GenerateKeysType, CommitType, GatewayStepType
  <2> QED
    BY <1>0, <1>2, <2>1, GatewayStepReads DEF Typed
<1>3. ASSUME NEW q \in Req, AgentStep(q)
      PROVE  Typed'
  <2>1. WriteConfig(q) => op[q].text \in Config
    BY <1>0 DEF Texts, WriteConfig, Agent
  <2>2. CASE Enable(q) \/ StartUnit(q) \/ StopUnit(q)
    BY <1>0, <2>2, UnitStepType, <1>3, AgentStepReads DEF Typed
  <2>3. CASE ~(Enable(q) \/ StartUnit(q) \/ StopUnit(q))
    <3>1. \/ Backup(q) \/ (WriteConfig(q) /\ op[q].text \in Config) \/ Restart(q)
          \/ RestoreBackup(q) \/ RestartAgain(q)
      BY <1>3, <2>1, <2>3 DEF AgentStep
    <3> QED
      BY <1>0, <3>1, AgentStepType, <1>3, AgentStepReads DEF Typed
  <2> QED
    BY <2>2, <2>3
<1>4. CASE AgentDies
  <2>1. Read' /\ Texts'
    BY <1>0, <1>4 DEF AgentDies, Read, Texts
  <2> QED
    BY <1>0, <1>4, <2>1, DeathType DEF Typed
<1>5. CASE UNCHANGED vars
  <2>1. UNCHANGED <<pc, op, thread, reply, rows, file, unit, solo, before, faults, nRequests, nFaults>>
    BY <1>5 DEF vars, rows, file, unit
  <2>2. enabled' \in BOOLEAN
    BY <1>0, <2>1, Zenon DEF TypeOK, unit
  <2>3. TypeOK'
    BY <1>0, <2>1, <2>2 DEF TypeOK, rows, file, unit
  <2> QED
    BY <1>0, <2>1, <2>3 DEF Typed, Read, Texts
<1> QED
  BY <1>1, <1>2, <1>3, <1>4, <1>5 DEF Next, Step, AgentStep, Waiting

\* The rows, the requests, the threads and the files keep their types, and the
\* agent never writes a text that it would have refused.
THEOREM TypeCorrect == Spec => [](TypeOK /\ Texts)
<1>1. Init => Typed
  BY InitType, InitReads DEF Typed
<1>2. Typed /\ [Next]_vars => Typed'
  BY NextTyped
<1>3. Typed => TypeOK /\ Texts
  BY DEF Typed
<1> QED
  BY <1>1, <1>2, <1>3, PTL DEF Spec

-----------------------------------------------------------------------------
(* Keys.                                                                     *)

\* A client's server is there: it cannot be deleted before its clients.
Placed == \A c \in Children : children[c].server \in Servers
Matching ==
  \A c \in Children :
    children[c].config = IF children[c].key = None THEN 0 ELSE children[c].key

\* A write keeps the servers, but for one that has no client.
LEMMA ServersStay ==
  ASSUME TypeOK, Read, Placed, NEW q \in Req, Commit(q),
         NEW c \in Children
  PROVE  children[c].server \in Servers'
<1> DEFINE o == op[q]
           s == children[c].server
<1>0. s \in Servers /\ s \in Server /\ servers[s] \in ServerRow /\ o \in Operation
  BY DEF Placed, Servers, TypeOK
<1>1. CASE UNCHANGED rows \/ s # o.server
  <2>1. servers'[s] = servers[s]
    BY <1>0, <1>1 DEF Commit, rows, TypeOK
  <2> QED
    BY <1>0, <2>1 DEF Servers
<1>2. CASE s = o.server /\ Writable(q) /\ servers' = [servers EXCEPT ![o.server] = ServerAfter(o, @)]
  <2>1. o.kind # "delete"
    BY <1>2 DEF Writable, Below
  <2>2. o.kind \in {"create", "initialize", "update"} => o.new \in ServerRow
    BY DEF Commit, Read
  <2>3. ServerAfter(o, servers[s]) \in ServerRow
    <3>1. o.kind = "restart" => [servers[s] EXCEPT !.status = "restarting"] \in ServerRow
      BY <1>0 DEF ServerRow
    <3>2. o.kind = "update" => [servers[s] EXCEPT !.site = o.new.site] \in ServerRow
      BY <1>0, <2>2 DEF ServerRow
    <3> HIDE DEF o, s
    <3> QED
      BY <1>0, <2>1, <2>2, <3>1, <3>2 DEF ServerAfter
  <2>4. servers'[s] = ServerAfter(o, servers[s])
    BY <1>0, <1>2 DEF TypeOK
  <2> QED
    BY <1>0, <2>3, <2>4, NoRowAssumption DEF Servers
<1> QED
  BY <1>1, <1>2 DEF Commit

LEMMA CommitPlaces ==
  ASSUME TypeOK, Read, Placed, Matching, NEW q \in Req, Commit(q)
  PROVE  Placed' /\ Matching'
<1> DEFINE o == op[q]
<1> SUFFICES ASSUME NEW c \in Children'
             PROVE  /\ children'[c].server \in Servers'
                    /\ children'[c].config =
                         IF children'[c].key = None THEN 0 ELSE children'[c].key
  BY DEF Placed, Matching
<1>0. /\ c \in Child /\ children'[c] # None
      /\ o.key # None /\ (o.kind = "bulk" => o.key = 0)
  <2>1. o.key \in Nat
    BY DEF TypeOK, Operation, KeyId
  <2>2. o.key # None
    BY <2>1, VpnAssumption
  <2> QED
    BY <2>2 DEF Children, Commit, Read
<1>1. CASE children'[c] = children[c]
  <2>1. c \in Children
    BY <1>0, <1>1 DEF Children
  <2> QED
    BY <1>1, <2>1, ServersStay DEF Matching
<1>2. CASE children'[c] # children[c]
  <2>1. /\ Writable(q) /\ c = o.child /\ children'[c] = ChildAfter(q, children[c])
        /\ servers' = [servers EXCEPT ![o.server] = ServerAfter(o, @)]
    BY <1>0, <1>2 DEF Commit, rows, TypeOK
  <2>2. CASE o.kind \in {"client", "bulk", "route"}
    <3>1. children'[c] = Child1(q) /\ o.server \in Servers
      BY <2>1, <2>2 DEF ChildAfter, Writable
    <3>2. servers'[o.server] = servers[o.server]
      BY <2>1, <2>2, <3>1 DEF ServerAfter, Servers, TypeOK
    <3> QED
      BY <1>0, <3>1, <3>2 DEF Child1, File, Servers
  <2>3. CASE o.kind = "regenerate"
    <3>1. c \in Children /\ children[c] \in ChildRow
      BY <2>1, <2>3 DEF Writable, Children, TypeOK
    <3>2. children'[c] = [children[c] EXCEPT !.key = o.key, !.config = o.key]
      BY <2>1, <2>3 DEF ChildAfter, File
    <3>3. /\ children'[c].server = children[c].server
          /\ children'[c].key = o.key /\ children'[c].config = o.key
      BY <3>1, <3>2 DEF ChildRow
    <3> QED
      BY <1>0, <3>1, <3>3, ServersStay
  <2>4. o.kind \in {"client", "bulk", "route", "regenerate"}
    BY <1>0, <1>2, <2>1 DEF ChildAfter
  <2> QED
    BY <2>2, <2>3, <2>4
<1> QED
  BY <1>1, <1>2

\* What else is written of the rows is a status.
LEMMA StatusStays ==
  ASSUME TypeOK, NEW q \in Req, SetStatus(q)
  PROVE  Servers' = Servers
<1>1. ASSUME NEW s \in Server
      PROVE  servers'[s] = None <=> servers[s] = None
  <2>1. servers[s] \in ServerRow \cup {None}
    BY DEF TypeOK
  <2>2. Outcome(q) \in {"stopped", "running"}
    BY DEF Outcome
  <2>3. servers[s] \in ServerRow => [servers[s] EXCEPT !.status = Outcome(q)] \in ServerRow
    BY <2>2 DEF ServerRow
  <2>4. \/ servers'[s] = servers[s]
        \/ servers[s] # None /\ servers'[s] = [servers[s] EXCEPT !.status = Outcome(q)]
    BY DEF SetStatus, Servers, TypeOK
  <2> QED
    BY <2>1, <2>3, <2>4, NoRowAssumption
<1> QED
  BY <1>1 DEF Servers

LEMMA KeysStep ==
  ASSUME Typed, Placed, Matching, [Next]_vars
  PROVE  Placed' /\ Matching'
<1>0. TypeOK /\ Read
  BY DEF Typed
<1>1. ASSUME UNCHANGED children, Servers' = Servers
      PROVE  Placed' /\ Matching'
  BY <1>1 DEF Placed, Matching, Children
<1>2. ASSUME UNCHANGED rows
      PROVE  Placed' /\ Matching'
  BY <1>1, <1>2 DEF rows, Servers
<1>3. ASSUME NEW q \in Req, Commit(q)
      PROVE  Placed' /\ Matching'
  BY <1>0, <1>3, CommitPlaces
<1>4. ASSUME NEW q \in Req, SetStatus(q)
      PROVE  Placed' /\ Matching'
  BY <1>0, <1>1, <1>4, StatusStays DEF SetStatus
<1>5. ASSUME NEW q \in Req, Request(q)
      PROVE  UNCHANGED rows
  BY <1>5 DEF Request, CreateServer, UpdateServer, DeleteServer, StartServer, StopServer,
       RestartServer, OnServer, InitializeSiteToSite, CreateClient, BulkCreateClients,
       CreateRoute, AddChild, UpdateClient, DeleteClient, DeleteRoute,
       RegenerateClientCredentials, OnChild, VpnApply, Start
<1>6. ASSUME NEW q \in Req, Step(q), ~Commit(q), ~SetStatus(q)
      PROVE  UNCHANGED rows
  BY <1>6 DEF Step, GenerateKeys, Push, Call, Answered, GiveUp, Backup, WriteConfig,
       Restart, RestoreBackup, RestartAgain, Enable, StartUnit, StopUnit, Agent
<1> QED
  BY <1>2, <1>3, <1>4, <1>5, <1>6 DEF Next, AgentDies, Waiting, vars, rows

\* Every client can be given its configuration file, and that has the private
\* key of the public one in the row, or neither has a key (the clients made in
\* bulk, until theirs are made anew), whichever requests create, edit,
\* regenerate and delete it and its server side by side.
THEOREM KeysCorrect == Spec => []KeysMatch
<1>1. Init => Typed /\ Placed /\ Matching
  <2>1. Init => Typed
    BY InitType, InitReads DEF Typed
  <2>2. Init => Children = {}
    BY DEF Init, Children
  <2> QED
    BY <2>1, <2>2 DEF Placed, Matching
<1>2. Typed /\ Placed /\ Matching /\ [Next]_vars => (Typed /\ Placed /\ Matching)'
  BY NextTyped, KeysStep
<1>3. Placed /\ Matching => KeysMatch
  BY DEF Placed, Matching, KeysMatch, DownloadClientConfig
<1> QED
  BY <1>1, <1>2, <1>3, PTL DEF Spec


-----------------------------------------------------------------------------
(* A request that runs alone.                                                *)

\* What has failed is not forgotten while the request runs.
LEMMA FaultsStay ==
  ASSUME Works \/ Fails
  PROVE  faults \subseteq faults'
BY DEF Works, Fails, Fault, budget

\* What a step of a request has to show of it.
LEMMA SoloStep ==
  ASSUME TypeOK, SoloInv, NEW q \in Req, q \in Running, solo' = solo,
         \A r \in Req : r # q => pc'[r] = pc[r] /\ thread'[r] = thread[r],
         q = solo => Phase(q)'
  PROVE  SoloInv'
<1>1. Alone'
  <2>1. Running' \subseteq Running
    BY DEF Running
  <2> QED
    BY <2>1 DEF SoloInv, Alone
<1>2. ASSUME NEW r \in Req, r = solo'
      PROVE  Phase(r)'
  <2>1. solo # None
    BY <1>2, VpnAssumption
  <2>2. r = q
    BY <1>2, <2>1 DEF SoloInv, Alone
  <2> QED
    BY <1>2, <2>2
<1> QED
  BY <1>1, <1>2 DEF SoloInv

LEMMA FinishSolo ==
  ASSUME TypeOK, NEW q \in Req, q = solo, NEW word, Finish(q, word)
  PROVE  /\ pc'[q] = "idle" /\ op'[q].told = word
         /\ op'[q].kind = op[q].kind /\ op'[q].text = op[q].text
         /\ op'[q].server = op[q].server
<1>1. op[q] \in Operation
  BY DEF TypeOK
<1>2. op'[q] = [op[q] EXCEPT !.told = word, !.seen = None] /\ pc'[q] = "idle"
  BY DEF TypeOK, Finish, Goto
<1> QED
  BY <1>1, <1>2 DEF Operation

-----------------------------------------------------------------------------
(* An apply that runs alone.                                                 *)

LEMMA ApplyThread ==
  ASSUME TypeOK, NEW q \in Req, op[q].kind = "apply", ApplyPhase(q), ~Lapse', AgentStep(q)
  PROVE  ApplyPhase(q)'
<1>0. /\ thread[q] \in ThreadStage /\ reply[q] \in Answers /\ before' = before /\ pc' = pc
      /\ op' = op
  BY DEF TypeOK, AgentStep, Backup, WriteConfig, Restart, RestoreBackup, RestartAgain, Enable,
         StartUnit, StopUnit, Agent, history
<1>a. \A kind \in {"timeout", "restore"} : ~Fault(kind)
  BY DEF Lapse, Fault
<1>b. Works => faults' = faults
  BY DEF Works, budget
<1>1. CASE Backup(q)
  <2>1. thread[q] = "backup" /\ conf' = conf /\ active' = active
    BY <1>1 DEF Backup, Agent, unit
  <2>2. conf = before.conf /\ active = before.active /\ pc[q] = "wait"
    BY <2>1 DEF ApplyPhase
  <2>3. CASE Works /\ ThreadTo(q, "write") /\ backup' = IF conf = None THEN backup ELSE conf
    <3>1. thread'[q] = "write" /\ reply' = reply /\ faults' = faults
      BY <1>b, <2>3 DEF ThreadTo, TypeOK
    <3>2. Saved'
      BY <1>0, <2>2, <2>3 DEF Saved
    <3> QED
      BY <1>0, <2>1, <2>2, <3>1, <3>2 DEF ApplyPhase
  <2>4. CASE Fault("file") /\ Reply(q, "error")
    <3>1. thread'[q] = "none" /\ reply'[q] = "error" /\ "file" \in faults'
      BY <2>2, <2>4 DEF Reply, Fault, TypeOK
    <3>2. PutBack(q)'
      BY <1>0, <2>1, <2>2, <3>1 DEF PutBack, Tried
    <3> QED
      BY <1>0, <2>2, <3>1, <3>2 DEF ApplyPhase
  <2> QED
    BY <1>1, <2>3, <2>4 DEF Backup
<1>2. CASE WriteConfig(q)
  <2>1. thread[q] = "write" /\ backup' = backup /\ active' = active
    BY <1>2 DEF WriteConfig, Agent, unit
  <2>2. conf = before.conf /\ active = before.active /\ pc[q] = "wait"
    BY <2>1 DEF ApplyPhase
  <2>3. CASE Works /\ ThreadTo(q, "restart") /\ conf' = op[q].text
    <3>1. thread'[q] = "restart" /\ reply' = reply /\ faults' = faults
      BY <1>b, <2>3 DEF ThreadTo, TypeOK
    <3>2. Saved'
      BY <1>0, <2>1 DEF ApplyPhase, Saved
    <3> QED
      BY <1>0, <2>1, <2>2, <3>1, <3>2 DEF ApplyPhase
  <2>4. CASE Fault("file") /\ Reply(q, "error") /\ UNCHANGED conf
    <3>1. thread'[q] = "none" /\ reply'[q] = "error" /\ "file" \in faults'
      BY <2>2, <2>4 DEF Reply, Fault, TypeOK
    <3>2. PutBack(q)'
      BY <1>0, <2>1, <2>2, <2>4, <3>1 DEF PutBack, Tried
    <3> QED
      BY <1>0, <2>2, <3>1, <3>2 DEF ApplyPhase
  <2> QED
    BY <1>2, <2>3, <2>4 DEF WriteConfig
<1>3. CASE Restart(q)
  <2>1. /\ thread[q] = "restart" /\ backup' = backup
        /\ Works \/ Fault("exit")
        /\ \/ ThreadTo(q, "restore")
           \/ Reply(q, "ok")
    BY <1>a, <1>3 DEF Restart, Agent, file
  <2>2. /\ \/ thread'[q] = "restore" /\ reply' = reply
           \/ thread'[q] = "none" /\ reply'[q] = "ok"
        /\ pc[q] = "wait"
    BY <2>1 DEF ThreadTo, Reply, TypeOK, ApplyPhase
  <2>3. "file" \notin faults' /\ "again" \notin faults'
    BY <1>b, <2>1 DEF ApplyPhase, Fault
  <2> QED
    BY <1>0, <2>1, <2>2, <2>3 DEF ApplyPhase, Saved
<1>4. CASE RestoreBackup(q)
  <2>1. /\ thread[q] = "restore" /\ thread'[q] = "restart2" /\ reply' = reply
        /\ conf' = Restored /\ faults' = faults
    BY <1>a, <1>b, <1>4 DEF RestoreBackup, Agent, ThreadTo, TypeOK
  <2>2. before.conf # None => conf' = before.conf
    BY <1>0, <2>1 DEF ApplyPhase, Saved, Restored
  <2> QED
    BY <1>0, <2>1, <2>2 DEF ApplyPhase
<1>5. CASE RestartAgain(q)
  <2>1. /\ thread[q] = "restart2" /\ thread'[q] = "none" /\ conf' = conf
        /\ \/ Works /\ active' = Restarted
           \/ Fault("again")
    BY <1>5 DEF RestartAgain, Agent, Reply, TypeOK, file
  <2>2. Valid(op[q].text) /\ "file" \notin faults /\ (before.conf # None => conf = before.conf)
    BY <2>1 DEF ApplyPhase
  <2>3. PutBack(q)'
    <3>1. CASE Works /\ active' = Restarted
      BY <1>0, <1>b, <2>1, <2>2, <3>1 DEF PutBack, Restarted, Tried
    <3>2. CASE Fault("again")
      BY <1>0, <2>1, <2>2, <3>2 DEF PutBack, Fault
    <3> QED
      BY <2>1, <3>1, <3>2
  <2> QED
    BY <1>0, <2>1, <2>3 DEF ApplyPhase
<1>6. CASE Enable(q) \/ StartUnit(q) \/ StopUnit(q)
  BY <1>6 DEF ApplyPhase, Enable, StartUnit, StopUnit, Agent
<1> QED
  BY <1>1, <1>2, <1>3, <1>4, <1>5, <1>6 DEF AgentStep


LEMMA ApplyAnswered ==
  ASSUME TypeOK, NEW q \in Req, q = solo, op[q].kind = "apply", ApplyPhase(q), Answered(q)
  PROVE  ApplyPhase(q)'
<1>1. /\ Finish(q, reply[q]) /\ pc[q] = "wait" /\ thread[q] = "none"
      /\ UNCHANGED <<conf, active, thread, before, faults>>
  BY DEF Answered, file, unit, history, budget
<1>2. /\ pc'[q] = "idle" /\ thread'[q] = "none" /\ op'[q].text = op[q].text
      /\ op'[q].told = reply[q]
  BY <1>1, FinishSolo
<1>3. reply[q] = "error" => PutBack(q)'
  BY <1>1, <1>2 DEF ApplyPhase, PutBack, Tried
<1> QED
  BY <1>1, <1>2, <1>3 DEF ApplyPhase

-----------------------------------------------------------------------------
(* A start, a stop or a restart that runs alone.                             *)

LEMMA UnitThread ==
  ASSUME TypeOK, NEW q \in Req, op[q].kind \in UnitKinds, UnitPhase(q), AgentStep(q)
  PROVE  UnitPhase(q)'
<1>1. /\ thread[q] # "none" /\ pc' = pc /\ op' = op /\ servers' = servers
  BY DEF AgentStep, Backup, WriteConfig, Restart, RestoreBackup, RestartAgain, Enable,
         StartUnit, StopUnit, Agent, rows
<1>a. faults \subseteq faults'
  BY FaultsStay DEF AgentStep, Backup, WriteConfig, Restart, RestoreBackup, RestartAgain, Enable,
         StartUnit, StopUnit, Fails, FaultKind
<1>b. ASSUME NEW word \in BOOLEAN, AtBoot(word), enabled' = enabled
      PROVE  AtBoot(word)'
  BY <1>a, <1>b, Zenon DEF AtBoot
<1>2. pc[q] = "wait"
  BY <1>1 DEF UnitPhase
<1>3. RowSeen(q)'
  BY <1>1, <1>2 DEF UnitPhase, RowSeen
<1> DEFINE starts == op[q].kind = "start" \/ (op[q].kind = "restart" /\ op[q].stopped)
<1>4. IF starts THEN Starting(q) ELSE Stopping(q)
  BY <1>2 DEF UnitPhase
<1>5. CASE starts
  <2>1. Starting(q)
    BY <1>4, <1>5
  <2>2. CASE thread[q] = "enable"
    <3>0. Enable(q)
      BY <2>2 DEF AgentStep, Backup, WriteConfig, Restart, RestoreBackup, RestartAgain,
         StartUnit, StopUnit, Agent
    <3>a. \/ thread'[q] = "start" /\ (enabled' = TRUE \/ Fault("ignored"))
          \/ thread'[q] = "none" /\ reply'[q] = "error"
      BY <1>2, <2>2, <3>0 DEF Enable, ThreadTo, Reply, TypeOK
    <3>1. \/ thread'[q] = "start" /\ AtBoot(TRUE)'
          \/ thread'[q] = "none" /\ reply'[q] = "error"
      BY <3>a DEF AtBoot, Fault
    <3> QED
      BY <1>1, <1>2, <1>3, <1>5, <3>1 DEF UnitPhase, Starting
  <2>3. CASE thread[q] = "start"
    <3>1. StartUnit(q) /\ AtBoot(TRUE)
      BY <2>1, <2>3 DEF AgentStep, Enable, Backup, WriteConfig, Restart, RestoreBackup, RestartAgain,
         StartUnit, StopUnit, Agent, Starting
    <3>a. thread'[q] = "none" /\ enabled' = enabled /\ (reply'[q] = "ok" => active' # None)
      BY <1>2, <3>1 DEF StartUnit, Reply, TypeOK
    <3>2. thread'[q] = "none" /\ AtBoot(TRUE)' /\ (reply'[q] = "ok" => active' # None)
      BY <1>b, <3>1, <3>a
    <3> QED
      BY <1>1, <1>2, <1>3, <1>5, <3>2 DEF UnitPhase, Starting, Up
  <2> QED
    BY <1>1, <2>1, <2>2, <2>3 DEF Starting
<1>6. CASE ~starts
  <2>1. Stopping(q)
    BY <1>4, <1>6
  <2>2. CASE thread[q] = "disable"
    <3>0. Enable(q)
      BY <2>2 DEF AgentStep, Backup, WriteConfig, Restart, RestoreBackup, RestartAgain,
         StartUnit, StopUnit, Agent
    <3>a. \/ thread'[q] = "stop" /\ (enabled' = FALSE \/ Fault("ignored"))
          \/ thread'[q] = "none" /\ reply'[q] = "error"
      BY <1>2, <2>2, <3>0 DEF Enable, ThreadTo, Reply, TypeOK
    <3>1. \/ thread'[q] = "stop" /\ AtBoot(FALSE)'
          \/ thread'[q] = "none" /\ reply'[q] = "error"
      BY <3>a DEF AtBoot, Fault
    <3> QED
      BY <1>1, <1>2, <1>3, <1>6, <3>1 DEF UnitPhase, Stopping
  <2>3. CASE thread[q] = "stop"
    <3>1. StopUnit(q) /\ AtBoot(FALSE)
      BY <2>1, <2>3 DEF AgentStep, Enable, Backup, WriteConfig, Restart, RestoreBackup, RestartAgain,
         StartUnit, StopUnit, Agent, Stopping
    <3>a. thread'[q] = "none" /\ enabled' = enabled /\ (reply'[q] = "ok" => active' = None)
      BY <1>2, <3>1 DEF StopUnit, Reply, TypeOK
    <3>2. thread'[q] = "none" /\ AtBoot(FALSE)' /\ (reply'[q] = "ok" => active' = None)
      BY <1>b, <3>1, <3>a
    <3> QED
      BY <1>1, <1>2, <1>3, <1>6, <3>2 DEF UnitPhase, Stopping, Down
  <2> QED
    BY <1>1, <2>1, <2>2, <2>3 DEF Stopping
<1> QED
  BY <1>5, <1>6

LEMMA UnitCommit ==
  ASSUME TypeOK, NEW q \in Req, q = solo, op[q].kind \in UnitKinds, UnitPhase(q), Commit(q)
  PROVE  UnitPhase(q)'
<1> DEFINE s == op[q].server
<1>1. op[q].kind = "restart" /\ RowSeen(q) /\ thread[q] = "none" /\ ~op[q].stopped
  BY DEF UnitPhase, Commit
<1>2. s \in Server /\ servers[s] \in ServerRow /\ s \in Servers
  BY <1>1 DEF RowSeen, TypeOK, Servers
<1>3. Writable(q)
  BY <1>1, <1>2 DEF Writable
<1>4. /\ servers' = [servers EXCEPT ![s] = ServerAfter(op[q], @)]
      /\ pc' = [pc EXCEPT ![q] = "call"] /\ op' = op /\ thread' = thread
  BY <1>1, <1>3 DEF Commit, Goto
<1>5. pc'[q] = "call"
  BY <1>4 DEF TypeOK
<1>6. servers'[s] = [servers[s] EXCEPT !.status = "restarting"]
  BY <1>1, <1>2, <1>4 DEF ServerAfter, TypeOK
<1>7. servers'[s] \in ServerRow /\ servers'[s].status = "restarting"
  BY <1>2, <1>6 DEF ServerRow
<1>8. servers'[s] # None
  BY <1>7, NoRowAssumption
<1>9. RowSeen(q)'
  BY <1>1, <1>2, <1>4, <1>5, <1>7, <1>8 DEF RowSeen
<1> QED
  BY <1>1, <1>4, <1>5, <1>9 DEF UnitPhase


LEMMA UnitCall ==
  ASSUME TypeOK, NEW q \in Req, q = solo, op[q].kind \in UnitKinds, UnitPhase(q), Call(q)
  PROVE  UnitPhase(q)'
<1>1. RowSeen(q) /\ thread[q] = "none" /\ pc[q] \in {"call", "stopped"}
  BY DEF UnitPhase, Call
<1>2. servers' = servers /\ reply' = reply /\ enabled' = enabled /\ active' = active
  BY DEF Call, rows, unit
<1>3. CASE Finish(q, "error") /\ UNCHANGED thread
  <2>1. pc'[q] = "idle" /\ op'[q].told = "error" /\ thread'[q] = "none"
    BY <1>1, <1>3, FinishSolo
  <2> QED
    BY <2>1 DEF UnitPhase
<1>4. CASE /\ Goto(q, "wait") /\ UNCHANGED op
           /\ thread' = [thread EXCEPT ![q] =
                IF op[q].kind = "start" \/ pc[q] = "stopped" THEN "enable" ELSE "disable"]
  <2>1. /\ pc'[q] = "wait" /\ op' = op
        /\ thread'[q] = IF op[q].kind = "start" \/ pc[q] = "stopped" THEN "enable" ELSE "disable"
    BY <1>4 DEF Goto, TypeOK
  <2>2. RowSeen(q)'
    BY <1>1, <1>2, <2>1 DEF RowSeen
  <2>3. pc[q] = "stopped" => op[q].kind = "restart" /\ op[q].stopped
    BY DEF UnitPhase
  <2>4. pc[q] # "stopped" => ~op[q].stopped
    BY <1>1 DEF UnitPhase
  <2>5. IF op[q].kind = "start" \/ (op[q].kind = "restart" /\ op[q].stopped)
        THEN Starting(q)' ELSE Stopping(q)'
    BY <2>1, <2>3, <2>4 DEF Starting, Stopping
  <2> QED
    BY <2>1, <2>2, <2>5 DEF UnitPhase
<1> QED
  BY <1>3, <1>4 DEF Call

LEMMA UnitAnswered ==
  ASSUME TypeOK, NEW q \in Req, q = solo, op[q].kind \in UnitKinds, UnitPhase(q), Answered(q)
  PROVE  UnitPhase(q)'
<1> DEFINE starts == op[q].kind = "start" \/ (op[q].kind = "restart" /\ op[q].stopped)
<1>1. /\ pc[q] = "wait" /\ thread[q] = "none" /\ reply[q] # "nothing" /\ RowSeen(q)
      /\ IF starts THEN Starting(q) ELSE Stopping(q)
  BY DEF Answered, UnitPhase
<1>2. /\ servers' = servers /\ thread'[q] = "none" /\ enabled' = enabled /\ active' = active
      /\ faults' = faults
  BY <1>1 DEF Answered, rows, unit, budget
<1>3. CASE reply[q] = "error"
  <2>1. Finish(q, "error")
    BY <1>3 DEF Answered
  <2>2. pc'[q] = "idle" /\ op'[q].told = "error"
    BY <2>1, FinishSolo
  <2> QED
    BY <1>2, <2>2 DEF UnitPhase
<1>4. CASE reply[q] # "error"
  <2>1. reply[q] = "ok"
    BY <1>1, <1>4 DEF TypeOK, Answers
  <2>2. op[q].kind \notin {"apply", "initialize"}
    BY DEF UnitKinds
  <2>3. /\ op' = [op EXCEPT ![q].stopped = op[q].kind = "restart"]
        /\ Goto(q, IF op[q].kind = "restart" /\ ~op[q].stopped THEN "stopped" ELSE "status")
    BY <1>4, <2>2 DEF Answered
  <2>4. op[q] \in Operation
    BY DEF TypeOK
  <2>5. /\ op'[q].kind = op[q].kind /\ op'[q].server = op[q].server
        /\ op'[q].seen = op[q].seen /\ op'[q].stopped = (op[q].kind = "restart")
    BY <2>3, <2>4 DEF TypeOK, Operation
  <2>6. pc'[q] = IF op[q].kind = "restart" /\ ~op[q].stopped THEN "stopped" ELSE "status"
    BY <2>3 DEF Goto, TypeOK
  <2>7. RowSeen(q)'
    BY <1>1, <1>2, <2>5, <2>6 DEF RowSeen
  <2>8. CASE op[q].kind = "restart" /\ ~op[q].stopped
    BY <1>2, <2>5, <2>6, <2>7, <2>8 DEF UnitPhase
  <2>9. CASE ~(op[q].kind = "restart" /\ ~op[q].stopped)
    <3>1. IF op[q].kind = "stop" THEN Down ELSE Up
      BY <1>1, <2>1, <2>9 DEF Starting, Stopping, UnitKinds
    <3>2. IF op'[q].kind = "stop" THEN Down' ELSE Up'
      BY <1>2, <2>5, <3>1 DEF Up, Down, AtBoot
    <3> QED
      BY <1>2, <2>6, <2>7, <2>9, <3>2 DEF UnitPhase
  <2> QED
    BY <2>8, <2>9
<1> QED
  BY <1>3, <1>4

LEMMA UnitStatus ==
  ASSUME TypeOK, NEW q \in Req, q = solo, op[q].kind \in UnitKinds, UnitPhase(q), SetStatus(q)
  PROVE  UnitPhase(q)'
<1> DEFINE s == op[q].server
           known == IF op[q].kind = "restart" THEN "restarting" ELSE op[q].seen.status
<1>1. /\ pc[q] = "status" /\ thread[q] = "none" /\ RowSeen(q)
      /\ IF op[q].kind = "stop" THEN Down ELSE Up
  BY DEF SetStatus, UnitPhase
<1>2. s \in Server /\ servers[s] \in ServerRow /\ s \in Servers /\ servers[s].status = known
  BY <1>1 DEF RowSeen, TypeOK, Servers
<1>3. thread'[q] = "none" /\ enabled' = enabled /\ active' = active /\ faults' = faults
  BY <1>1 DEF SetStatus, unit, budget
<1>4. servers'[s].status = Outcome(q) /\ Finish(q, "ok")
  <2>1. CASE known = Outcome(q)
    BY <1>2, <2>1 DEF SetStatus
  <2>2. CASE known # Outcome(q)
    <3>1. servers'[s] = [servers[s] EXCEPT !.status = Outcome(q)] /\ Finish(q, "ok")
      BY <1>2, <2>2 DEF SetStatus, TypeOK
    <3> QED
      BY <1>2, <3>1 DEF ServerRow
  <2> QED
    BY <2>1, <2>2
<1>5. /\ pc'[q] = "idle" /\ op'[q].kind = op[q].kind /\ op'[q].server = s
  BY <1>4, FinishSolo
<1>6. /\ AtBoot(active # None)'
      /\ Outcome(q) = IF active' # None THEN "running" ELSE "stopped"
  <2>1. CASE op[q].kind = "stop"
    <3>1. AtBoot(FALSE) /\ active = None
      BY <1>1, <2>1 DEF Down
    <3>2. (active # None) = FALSE
      BY <3>1
    <3> QED
      BY <1>3, <2>1, <3>1, <3>2 DEF Outcome, AtBoot
  <2>2. CASE op[q].kind # "stop"
    <3>1. AtBoot(TRUE) /\ active # None
      BY <1>1, <2>2 DEF Up
    <3>2. (active # None) = TRUE
      BY <3>1
    <3> QED
      BY <1>3, <2>2, <3>1, <3>2 DEF Outcome, AtBoot
  <2> QED
    BY <2>1, <2>2
<1> HIDE DEF s, known
<1> QED
  BY <1>3, <1>4, <1>5, <1>6 DEF UnitPhase


-----------------------------------------------------------------------------
(* Every step.                                                               *)

GatewayStep(q) ==
  \/ GenerateKeys(q) \/ Commit(q) \/ Push(q) \/ Call(q) \/ Answered(q) \/ GiveUp(q)
  \/ SetStatus(q)

LEMMA GatewayFrame ==
  ASSUME TypeOK, NEW q \in Req, GatewayStep(q)
  PROVE  /\ q \in Running /\ solo' = solo
         /\ \A r \in Req : r # q => pc'[r] = pc[r] /\ thread'[r] = thread[r]
         /\ faults \subseteq faults'
         /\ ~Lapse' => ~Lapse
<1>1. pc[q] # "idle" /\ solo' = solo
  BY DEF GatewayStep, GenerateKeys, Commit, Push, Call, Answered, GiveUp, SetStatus, history
<1>2. \A r \in Req : r # q => pc'[r] = pc[r] /\ thread'[r] = thread[r]
  <2>1. (\E stage : Goto(q, stage)) \/ (\E word : Finish(q, word))
    BY DEF GatewayStep, GenerateKeys, Commit, Push, Call, Answered, GiveUp, SetStatus,
           SessionFactoryBound
  <2>2. \A r \in Req : r # q => pc'[r] = pc[r]
    BY <2>1 DEF Goto, Finish, TypeOK
  <2>3. thread' = thread \/ Call(q)
    BY DEF GatewayStep, GenerateKeys, Commit, Push, Answered, GiveUp, SetStatus,
           SessionFactoryBound
  <2>4. \A r \in Req : r # q => thread'[r] = thread[r]
    BY <2>3 DEF Call, TypeOK
  <2> QED
    BY <2>2, <2>4
<1>3. Works \/ Fails
  BY DEF GatewayStep, GenerateKeys, Commit, Push, Call, Answered, GiveUp, SetStatus, Works, Fails, FaultKind
<1>4. faults \subseteq faults'
  BY <1>3, FaultsStay
<1>5. ~Lapse' => ~Lapse
  BY <1>4 DEF Lapse
<1> QED
  BY <1>1, <1>2, <1>4, <1>5 DEF Running

LEMMA GatewaySolo ==
  ASSUME TypeOK, SoloInv, NEW q \in Req, GatewayStep(q)
  PROVE  SoloInv'
<1>1. ASSUME q = solo
      PROVE  Phase(q)'
  <2>1. Phase(q) /\ pc[q] # "idle"
    BY <1>1 DEF SoloInv, GatewayStep, GenerateKeys, Commit, Push, Call, Answered, GiveUp,
       SetStatus
  <2>2. op[q] \in Operation
    BY DEF TypeOK
  <2>3. op'[q].kind = op[q].kind
    <3>1. ASSUME NEW word, Finish(q, word)
          PROVE  op'[q].kind = op[q].kind
      BY <1>1, <3>1, FinishSolo
    <3>2. op' = op => op'[q].kind = op[q].kind
      OBVIOUS
    <3>3. GenerateKeys(q) => op'[q].kind = op[q].kind
      BY <3>1, <2>2 DEF GenerateKeys, TypeOK, Operation
    <3>4. Answered(q) => op'[q].kind = op[q].kind
      BY <3>1, <2>2 DEF Answered, TypeOK, Operation
    <3> QED
      BY <3>1, <3>2, <3>3, <3>4
      DEF GatewayStep, Commit, Push, Call, GiveUp, SetStatus, SessionFactoryBound
  <2>4. ASSUME op[q].kind = "apply", ~Lapse'
        PROVE  ApplyPhase(q)'
    <3>1. ApplyPhase(q)
      BY <2>1, <2>4, GatewayFrame DEF Phase
    <3>2. ~GiveUp(q)
      BY <2>4 DEF GiveUp, Fault, Lapse
    <3>3. Answered(q)
      BY <3>1, <3>2 DEF ApplyPhase, GatewayStep, GenerateKeys, Commit, Push, Call, SetStatus
    <3> QED
      BY <1>1, <2>4, <3>1, <3>3, ApplyAnswered
  <2>5. ASSUME op[q].kind \in UnitKinds
        PROVE  IF "silence" \in faults' THEN GaveUp(q)' ELSE UnitPhase(q)'
    <3>1. "silence" \notin faults /\ UnitPhase(q)
      BY <2>1, <2>5 DEF Phase, GaveUp
    <3>2. CASE GiveUp(q)
      <4>1. "silence" \in faults' /\ pc'[q] = "idle" /\ op'[q].told = "error"
        BY <1>1, <3>2, FinishSolo DEF GiveUp, Fault
      <4> QED
        BY <4>1 DEF GaveUp
    <3>3. CASE ~GiveUp(q)
      <4>1. Commit(q) \/ Call(q) \/ Answered(q) \/ SetStatus(q)
        BY <3>1, <3>3 DEF UnitPhase, GatewayStep, GenerateKeys, Push
      <4>2. faults' = faults
        BY <4>1 DEF Commit, Call, Answered, SetStatus, budget
      <4>3. UnitPhase(q)'
        BY <1>1, <2>5, <3>1, <4>1, UnitCommit, UnitCall, UnitAnswered, UnitStatus
      <4> QED
        BY <3>1, <4>2, <4>3
    <3> QED
      BY <3>2, <3>3
  <2> QED
    BY <2>3, <2>4, <2>5 DEF Phase
<1> QED
  BY <1>1, GatewayFrame, SoloStep

LEMMA AgentSolo ==
  ASSUME TypeOK, SoloInv, NEW q \in Req, AgentStep(q)
  PROVE  SoloInv'
<1>1. thread[q] # "none" /\ solo' = solo /\ pc' = pc /\ op' = op
  BY DEF AgentStep, Backup, WriteConfig, Restart, RestoreBackup, RestartAgain, Enable,
         StartUnit, StopUnit, Agent, history
<1>2. \A r \in Req : r # q => thread'[r] = thread[r]
  BY DEF AgentStep, Backup, WriteConfig, Restart, RestoreBackup, RestartAgain, Enable,
         StartUnit, StopUnit, Agent, ThreadTo, Reply, TypeOK
<1>3. faults \subseteq faults' /\ ("silence" \in faults' => "silence" \in faults)
  <2>1. Works \/ \E kind \in FaultKind \ {"silence"} : Fault(kind)
    BY DEF AgentStep, Backup, WriteConfig, Restart, RestoreBackup, RestartAgain, Enable,
         StartUnit, StopUnit, FaultKind
  <2> QED
    BY <2>1 DEF Works, Fault, budget
<1>4. ~Lapse' => ~Lapse
  BY <1>3 DEF Lapse
<1>5. ASSUME q = solo
      PROVE  Phase(q)'
  <2>1. Phase(q)
    BY <1>5 DEF SoloInv
  <2>2. op[q].kind = "apply" /\ ~Lapse' => ApplyPhase(q)'
    BY <1>4, <2>1, ApplyThread DEF Phase
  <2>3. op[q].kind \in UnitKinds =>
          IF "silence" \in faults' THEN GaveUp(q)' ELSE UnitPhase(q)'
    BY <1>1, <1>3, <2>1, UnitThread DEF Phase, GaveUp
  <2> QED
    BY <1>1, <2>2, <2>3 DEF Phase
<1>6. q \in Running
  BY <1>1 DEF Running
<1> QED
  BY <1>1, <1>2, <1>5, <1>6, SoloStep

\* A request that begins.
LEMMA StartSolo ==
  ASSUME TypeOK, SoloInv, NEW q \in Req, NEW o \in Operation, NEW stage, NEW threadStage,
         Start(q, o, stage, threadStage),
         o.kind = "apply" =>
           /\ o.text \in Config \cup Malformed
           /\ \/ stage = "wait" /\ threadStage = "backup" /\ Valid(o.text)
              \/ stage = "idle" /\ threadStage = "none" /\ ~Valid(o.text),
         o.kind \in UnitKinds =>
           /\ stage = (IF o.kind = "restart" THEN "commit" ELSE "call")
           /\ threadStage = "none" /\ ~o.stopped
           /\ o.server \in Servers /\ o.seen = servers[o.server]
  PROVE  SoloInv'
<1>1. op'[q] = [o EXCEPT !.n = nRequests + 1] /\ pc'[q] = stage /\ thread'[q] = threadStage
  BY DEF Start, Goto, TypeOK
<1>2. /\ op'[q].kind = o.kind /\ op'[q].told = o.told /\ op'[q].server = o.server
      /\ op'[q].text = o.text /\ op'[q].seen = o.seen /\ op'[q].stopped = o.stopped
  BY <1>1 DEF Operation
<1>3. /\ reply'[q] = "nothing" /\ conf' = conf /\ active' = active /\ faults' = {}
      /\ before'.conf = conf /\ before'.active = active
      /\ enabled' = enabled /\ servers' = servers
  BY DEF Start, TypeOK, rows, file, unit
<1>4. \A r \in Req : r # q => pc'[r] = pc[r] /\ thread'[r] = thread[r]
  BY DEF Start, Goto, TypeOK
<1>5. Running' \subseteq Running \cup {q}
  BY <1>4 DEF Running
<1>6. solo' = IF Running = {} THEN q ELSE None
  BY DEF Start
<1>7. Alone'
  BY <1>5, <1>6 DEF Alone
<1>8. ASSUME o.kind = "apply"
      PROVE  ApplyPhase(q)'
  <2>1. CASE stage = "wait" /\ threadStage = "backup" /\ Valid(o.text)
    BY <1>1, <1>2, <1>3, <1>8, <2>1 DEF ApplyPhase, Valid
  <2>2. CASE stage = "idle" /\ threadStage = "none" /\ ~Valid(o.text)
    <3>1. PutBack(q)'
      BY <1>2, <1>3, <2>2 DEF PutBack, Tried, Valid
    <3> QED
      BY <1>1, <1>2, <1>3, <1>8, <2>2, <3>1 DEF ApplyPhase
  <2> QED
    BY <1>8, <2>1, <2>2
<1>9. ASSUME o.kind \in UnitKinds
      PROVE  UnitPhase(q)'
  <2>1. /\ o.server \in Server /\ servers[o.server] # None
        /\ stage = (IF o.kind = "restart" THEN "commit" ELSE "call")
        /\ threadStage = "none" /\ ~o.stopped /\ o.seen = servers[o.server]
    BY <1>9 DEF Servers
  <2>2. RowSeen(q)'
    BY <1>1, <1>2, <1>3, <2>1 DEF RowSeen
  <2> QED
    BY <1>1, <1>2, <1>9, <2>1, <2>2 DEF UnitPhase, UnitKinds
<1>10. Phase(q)'
  BY <1>2, <1>3, <1>8, <1>9 DEF Phase
<1>11. ASSUME NEW r \in Req, r = solo'
       PROVE  r = q
  BY <1>6, <1>11, VpnAssumption
<1> QED
  BY <1>7, <1>10, <1>11 DEF SoloInv


LEMMA RequestSolo ==
  ASSUME TypeOK, SoloInv, NEW q \in Req, Request(q)
  PROVE  SoloInv'
<1>1. ASSUME NEW s \in Server, NEW wireguard \in BOOLEAN, NEW site \in BOOLEAN,
             CreateServer(q, s, wireguard, site)
      PROVE  SoloInv'
  <2> DEFINE o == [Rest EXCEPT !.kind = "create", !.server = s,
                               !.new = NewServer(wireguard, site)]
  <2>1. o \in Operation /\ o.kind = "create"
    BY RestType, RowType DEF Operation, Kind
  <2>2. Start(q, o, "commit", "none")
    BY <1>1 DEF CreateServer
  <2> HIDE DEF o
  <2> QED
    BY <2>1, <2>2, StartSolo DEF UnitKinds
<1>2. ASSUME NEW s \in Server, NEW kind \in Kind, NEW new \in ServerRow \cup {None},
             NEW stage, OnServer(q, kind, s, new, stage), kind # "apply",
             kind \in UnitKinds => stage = (IF kind = "restart" THEN "commit" ELSE "call")
      PROVE  SoloInv'
  <2> DEFINE o == [Rest EXCEPT !.kind = kind, !.server = s, !.seen = servers[s], !.new = new]
  <2>1. servers[s] \in ServerRow \cup {None}
    BY DEF TypeOK
  <2>2. /\ o \in Operation /\ o.kind = kind /\ o.server = s /\ o.seen = servers[s]
        /\ ~o.stopped
    BY <2>1, RestType DEF Operation, Rest
  <2>3. Start(q, o, stage, "none") /\ s \in Servers
    BY <1>2 DEF OnServer
  <2> HIDE DEF o
  <2> QED
    BY <1>2, <2>2, <2>3, StartSolo
<1>3. ASSUME NEW s \in Server, NEW site \in BOOLEAN, UpdateServer(q, s, site)
      PROVE  SoloInv'
  <2>1. servers[s] \in ServerRow
    BY <1>3 DEF UpdateServer, Servers, TypeOK
  <2>2. [servers[s] EXCEPT !.site = site] \in ServerRow
    BY <2>1 DEF ServerRow
  <2> QED
    BY <1>2, <1>3, <2>2 DEF UpdateServer, Kind, UnitKinds
<1>4. ASSUME NEW s \in Server,
             DeleteServer(q, s) \/ StartServer(q, s) \/ StopServer(q, s) \/ RestartServer(q, s)
      PROVE  SoloInv'
  BY <1>2, <1>4 DEF DeleteServer, StartServer, StopServer, RestartServer, Kind, UnitKinds
<1>5. ASSUME NEW s \in Server, NEW c, InitializeSiteToSite(q, s, c)
      PROVE  SoloInv'
  <2> DEFINE o == [Rest EXCEPT !.kind = "initialize", !.server = s,
                               !.new = NewServer(TRUE, TRUE)]
  <2>1. o \in Operation /\ o.kind = "initialize"
    BY RestType, RowType DEF Operation, Kind
  <2>2. Start(q, o, "commit", "none")
    BY <1>5 DEF InitializeSiteToSite
  <2> HIDE DEF o
  <2> QED
    BY <2>1, <2>2, StartSolo DEF UnitKinds
<1>6. ASSUME NEW s \in Server, NEW c \in Child, NEW kind \in {"client", "bulk", "route"},
             AddChild(q, kind, s, c)
      PROVE  SoloInv'
  <2> DEFINE o == [Rest EXCEPT !.kind = kind, !.server = s, !.child = c]
             stage == IF kind = "client" /\ servers[s].wireguard THEN "keys" ELSE "commit"
  <2>1. o \in Operation /\ o.kind = kind
    BY RestType DEF Operation, Kind
  <2>2. Start(q, o, stage, "none")
    BY <1>6 DEF AddChild
  <2> HIDE DEF o, stage
  <2> QED
    BY <2>1, <2>2, StartSolo DEF UnitKinds
<1>7. ASSUME NEW s \in Server, NEW c \in Child,
             CreateClient(q, s, c) \/ BulkCreateClients(q, s, c) \/ CreateRoute(q, s, c)
      PROVE  SoloInv'
  BY <1>6, <1>7 DEF CreateClient, BulkCreateClients, CreateRoute
<1>8. ASSUME NEW c \in Child, NEW kind \in {"edit", "remove", "regenerate"}, NEW stage,
             OnChild(q, kind, c, stage)
      PROVE  SoloInv'
  <2> DEFINE o == [Rest EXCEPT !.kind = kind, !.child = c, !.server = children[c].server]
  <2>1. children[c].server \in Server
    BY <1>8 DEF OnChild, Children, TypeOK, ChildRow
  <2>2. o \in Operation /\ o.kind = kind
    BY <2>1, RestType DEF Operation, Kind
  <2>3. Start(q, o, stage, "none")
    BY <1>8 DEF OnChild
  <2> HIDE DEF o
  <2> QED
    BY <2>2, <2>3, StartSolo DEF UnitKinds
<1>9. ASSUME NEW c \in Child,
             UpdateClient(q, c) \/ DeleteClient(q, c) \/ DeleteRoute(q, c)
               \/ RegenerateClientCredentials(q, c)
      PROVE  SoloInv'
  BY <1>8, <1>9 DEF UpdateClient, DeleteClient, DeleteRoute, RegenerateClientCredentials
<1>10. ASSUME NEW c \in Config \cup Malformed, VpnApply(q, c)
       PROVE  SoloInv'
  <2> DEFINE o == [Rest EXCEPT !.kind = "apply", !.text = c]
             refused == [o EXCEPT !.told = "error"]
  <2>1. o \in Operation /\ o.kind = "apply" /\ o.text = c
    BY RestType DEF Operation, Kind
  <2>2. refused \in Operation /\ refused.kind = "apply" /\ refused.text = c
    BY <2>1 DEF Operation, Answers
  <2>3. \/ Valid(c) /\ Start(q, o, "wait", "backup")
        \/ ~Valid(c) /\ Start(q, refused, "idle", "none")
    BY <1>10 DEF VpnApply
  <2> HIDE DEF o, refused
  <2> QED
    BY <2>1, <2>2, <2>3, StartSolo DEF UnitKinds
<1> QED
  BY <1>1, <1>3, <1>4, <1>5, <1>7, <1>9, <1>10 DEF Request

LEMMA QuietSolo ==
  ASSUME SoloInv, UNCHANGED vars
  PROVE  SoloInv'
<1>1. UNCHANGED <<pc, op, thread, reply, solo, before, faults, servers, conf, backup,
                  enabled, active>>
  BY DEF vars
<1>2. Alone'
  BY <1>1 DEF SoloInv, Alone, Running
<1>3. ASSUME NEW q \in Req, q = solo'
      PROVE  Phase(q)'
  <2>1. Phase(q)
    BY <1>1, <1>3 DEF SoloInv
  <2>2. op[q].kind = "apply" /\ ~Lapse' => ApplyPhase(q)'
    BY <1>1, <2>1 DEF Phase, ApplyPhase, Saved, PutBack, Tried, Lapse
  <2>3. op[q].kind \in UnitKinds =>
          IF "silence" \in faults' THEN GaveUp(q)' ELSE UnitPhase(q)'
    BY <1>1, <2>1
    DEF Phase, GaveUp, UnitPhase, RowSeen, Starting, Stopping, Up, Down, AtBoot
  <2> QED
    BY <1>1, <2>2, <2>3 DEF Phase
<1> QED
  BY <1>2, <1>3 DEF SoloInv

LEMMA SoloNext == TypeOK /\ SoloInv /\ [Next]_vars => SoloInv'
<1> SUFFICES ASSUME TypeOK, SoloInv, [Next]_vars PROVE SoloInv'
  OBVIOUS
<1>1. ASSUME NEW q \in Req, Request(q)
      PROVE  SoloInv'
  BY <1>1, RequestSolo
<1>2. ASSUME NEW q \in Req, Step(q)
      PROVE  SoloInv'
  <2>1. GatewayStep(q) \/ AgentStep(q)
    BY <1>2 DEF Step, GatewayStep, AgentStep
  <2> QED
    BY <2>1, GatewaySolo, AgentSolo
<1>3. CASE AgentDies
  <2>1. /\ solo' = solo /\ UNCHANGED <<pc, op, servers, enabled, active>>
        /\ faults' = faults \cup {"death"}
    BY <1>3 DEF AgentDies, Fault, history, rows, unit
  <2>2. \A r \in Req : thread'[r] = "none"
    BY <1>3 DEF AgentDies
  <2>3. Alone'
    BY <2>1, <2>2 DEF SoloInv, Alone, Running
  <2>4. ASSUME NEW q \in Req, q = solo
        PROVE  Phase(q)'
    <3>1. Phase(q) /\ Lapse'
      BY <2>1, <2>4 DEF SoloInv, Lapse
    <3>2. ASSUME op[q].kind \in UnitKinds, "silence" \in faults'
          PROVE  GaveUp(q)'
      BY <2>1, <3>1, <3>2 DEF Phase, GaveUp
    <3>3. ASSUME op[q].kind \in UnitKinds, "silence" \notin faults'
          PROVE  UnitPhase(q)'
      <4>1. UnitPhase(q)
        BY <2>1, <3>1, <3>3 DEF Phase
      <4>2. RowSeen(q)' = RowSeen(q) /\ Up' = Up /\ Down' = Down
        BY <2>1 DEF RowSeen, Up, Down, AtBoot
      <4>3. AtBoot(active # None)' = AtBoot(active # None)
        BY <2>1 DEF AtBoot
      <4>4. pc[q] = "wait" =>
              reply'[q] = IF thread[q] # "none" THEN "error" ELSE reply[q]
        BY <1>3 DEF AgentDies
      <4>5. pc[q] = "wait" /\ Starting(q) => Starting(q)'
        BY <2>2, <4>2, <4>4 DEF Starting
      <4>6. pc[q] = "wait" /\ Stopping(q) => Stopping(q)'
        BY <2>2, <4>2, <4>4 DEF Stopping
      <4>7. pc[q] # "idle" => RowSeen(q)'
        BY <4>1, <4>2 DEF UnitPhase
      <4> QED
        BY <2>1, <2>2, <4>1, <4>2, <4>3, <4>5, <4>6, <4>7 DEF UnitPhase
    <3> QED
      BY <2>1, <3>1, <3>2, <3>3 DEF Phase
  <2> QED
    BY <2>1, <2>3, <2>4 DEF SoloInv
<1>4. CASE UNCHANGED vars
  BY <1>4, QuietSolo
<1> QED
  BY <1>1, <1>2, <1>3, <1>4 DEF Next, Waiting

LEMMA SoloCorrect == Spec => [](TypeOK /\ SoloInv)
<1>1. Init => SoloInv
  BY VpnAssumption DEF Init, SoloInv, Alone
<1>2. TypeOK /\ SoloInv /\ [Next]_vars => SoloInv'
  BY SoloNext
<1>3. Spec => []TypeOK
  BY TypeCorrect, PTL
<1> QED
  BY <1>1, <1>2, <1>3, PTL DEF Spec

\* "after ANY failed apply: restore the .viswall-backup file AND restart the
\* unit": an apply that ran alone and failed has left the configuration it found,
\* and the tunnel up on it, whatever applies before it, and what the gateway gave
\* up on, had left in the one backup file; unless the failure was a restart that
\* did not come back, a copy of the backup that broke off, the death of the agent
\* or the patience of the caller (Lapse), which no line of the agent handles.
THEOREM FailedApplyCorrect == Spec => []FailedApplyRestores
<1>1. TypeOK /\ SoloInv => FailedApplyRestores
  <2> SUFFICES ASSUME TypeOK, SoloInv, NEW q \in Ended({"apply"}),
                      op[q].told = "error", ~Lapse, before.conf # None
               PROVE  /\ conf = before.conf
                      /\ before.conf \in Good /\ "again" \notin faults =>
                           active = IF Tried(q) THEN before.conf ELSE before.active
    BY DEF FailedApplyRestores
  <2>1. q \in Req /\ q = solo /\ pc[q] = "idle" /\ op[q].kind = "apply"
    BY DEF Ended, Running
  <2>2. ApplyPhase(q)
    BY <2>1 DEF SoloInv, Phase
  <2> QED
    BY <2>1, <2>2 DEF ApplyPhase, PutBack
<1> QED
  BY <1>1, SoloCorrect, PTL

\* After a start, a stop or a restart that ran alone and was told ok, the row
\* says what the unit does; and the unit does it at the next boot too, unless an
\* enable or a disable has failed, which the agent ignores.
THEOREM StatusCorrect == Spec => []StatusTrue
<1>1. TypeOK /\ SoloInv => StatusTrue
  <2> SUFFICES ASSUME TypeOK, SoloInv, NEW q \in Ended(UnitKinds), op[q].told = "ok"
               PROVE  /\ "ignored" \notin faults => enabled = (active # None)
                      /\ servers[op[q].server].status =
                           IF active # None THEN "running" ELSE "stopped"
    BY DEF StatusTrue, UnitKinds, SiteStatus, Status
  <2>1. q \in Req /\ q = solo /\ pc[q] = "idle" /\ op[q].kind \in UnitKinds
    BY DEF Ended, Running
  <2>2. UnitPhase(q)
    BY <2>1 DEF SoloInv, Phase, GaveUp
  <2> QED
    BY <2>1, <2>2 DEF UnitPhase, AtBoot
<1> QED
  BY <1>1, SoloCorrect, PTL

=============================================================================
