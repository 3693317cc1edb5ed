---------------------------------- MODULE Vpn ----------------------------------
(***************************************************************************)
(* The VPN routes of the gateway with the agent that owns the client tunnel *)
(* of a host: the gateway keeps servers, clients and routes, and asks the   *)
(* agent to start and stop the unit; the agent runs every call in a thread  *)
(* of its own, without a lock, and goes on when the gateway has given up.   *)
(*                                                                          *)
(* All servers of an instance drive the one unit wg-quick@client.  A key    *)
(* is the number of the request that had it made.                           *)
(***************************************************************************)
EXTENDS Naturals, FiniteSets

CONSTANTS
  Req,             \* requests, to the gateway or to the agent
  Server, Child,   \* row ids: VPN servers; their clients and routes
  Config, Good,    \* what client.conf may say; what wg-quick can bring up
  Malformed,       \* parameters that are no such text
  None,
  MaxRequests, MaxFaults     \* bounds of a behaviour

ASSUME VpnAssumption ==
  /\ Good \subseteq Config /\ Config \cap Malformed = {} /\ None \notin Req \cup Server \cup Child \cup Config \cup Nat
  /\ MaxRequests \in Nat /\ MaxFaults \in Nat

KeyId == 0 .. MaxRequests
ServerRow == [wireguard : BOOLEAN, site : BOOLEAN,
              status : {"stopped", "running", "restarting"}]
ASSUME NoRowAssumption == None \notin ServerRow
NewServer(wireguard, site) ==
  [wireguard |-> wireguard, site |-> site, status |-> "stopped"]
\* A client has a public key, which may be a placeholder (None), and a private
\* one in its configuration file, or none there (0).
ChildRow == [server : Server, key : KeyId \cup {None}, config : KeyId]
Answers == {"nothing", "ok", "error"}
\* A command that fails; enable or disable, whose failure nobody looks at; the
\* restart of the restored file; a command that does not come back in time;
\* files that cannot be written, or not be restored; a caller that gives up.
FaultKind == {"exit", "ignored", "again", "timeout", "file", "restore", "silence", "death"}

VARIABLES
  servers, children,   \* the rows
  conf, backup,        \* client.conf and its .viswall-backup
  enabled, active,     \* the unit: at boot; the configuration it runs with
  pc, op,              \* where each request is in the gateway, and what it does
  thread, reply,       \* the agent's thread for it, and what it has answered
  solo,                \* history: the last request, if it ran beside no other
  before, faults,      \* history: client.conf and the unit before it, and what
                       \* has failed in it
  nRequests, nFaults

vars == <<servers, children, conf, backup, enabled, active, pc, op, thread, reply,
          solo, before, faults, nRequests, nFaults>>
rows    == <<servers, children>>
file    == <<conf, backup>>
unit    == <<enabled, active>>
history == <<solo, before>>
budget  == <<faults, nFaults>>

Kind == {"create", "update", "delete", "start", "stop", "restart", "initialize",
         "client", "bulk", "route", "edit", "remove", "regenerate", "apply"}
\* What a request is about: the row as it was read and as it is to be, the
\* text of the file, and for a restart whether the unit has been stopped.
Operation ==
  [kind : Kind, server : Server \cup {None}, child : Child \cup {None},
   seen : ServerRow \cup {None}, new : ServerRow \cup {None},
   text : Config \cup Malformed \cup {None}, stopped : BOOLEAN,
   n : KeyId, key : KeyId, told : Answers]
Rest == [kind |-> "update", server |-> None, child |-> None, seen |-> None,
         new |-> None, text |-> None, stopped |-> FALSE,
         n |-> 0, key |-> 0, told |-> "nothing"]
Stage == {"idle", "keys", "commit", "call", "stopped", "wait", "status", "push"}
ThreadStage == {"none", "backup", "write", "restart", "restore", "restart2",
                "enable", "start", "disable", "stop"}

TypeOK ==
  /\ servers \in [Server -> ServerRow \cup {None}]
  /\ children \in [Child -> ChildRow \cup {None}]
  /\ conf \in Config \cup {None} /\ backup \in Config \cup {None}
  /\ enabled \in BOOLEAN /\ active \in Config \cup {None}
  /\ pc \in [Req -> Stage] /\ op \in [Req -> Operation]
  /\ thread \in [Req -> ThreadStage]
  /\ reply \in [Req -> Answers]
  /\ solo \in Req \cup {None} /\ faults \subseteq FaultKind
  /\ before \in [conf : Config \cup {None}, active : Config \cup {None}]
  /\ nRequests \in KeyId /\ nFaults \in 0 .. MaxFaults

Servers == {s \in Server : servers[s] # None}
Children == {c \in Child : children[c] # None}
Below(s) == {c \in Children : children[c].server = s}
Running == {q \in Req : pc[q] # "idle" \/ thread[q] # "none"}

\* A WireGuard server, and a tunnel that runs or not.
Init ==
  /\ \E s \in Server :
       servers = [t \in Server |-> IF t = s THEN NewServer(TRUE, FALSE) ELSE None]
  /\ children = [c \in Child |-> None]
  /\ conf \in Good \cup {None} /\ backup = None
  /\ active \in {conf, None} /\ enabled = (active # None)
  /\ pc = [q \in Req |-> "idle"] /\ op = [q \in Req |-> Rest]
  /\ thread = [q \in Req |-> "none"] /\ reply = [q \in Req |-> "nothing"]
  /\ solo = None /\ before = [conf |-> conf, active |-> active] /\ faults = {}
  /\ nRequests = 0 /\ nFaults = 0

Works == UNCHANGED budget
Fault(kind) ==
  nFaults < MaxFaults /\ nFaults' = nFaults + 1 /\ faults' = faults \cup {kind}
Goto(q, stage) == pc' = [pc EXCEPT ![q] = stage]

-----------------------------------------------------------------------------
(* The routes: a request reads its row, 404 if there is none.               *)

Start(q, o, stage, threadStage) ==
  /\ q \notin Running /\ nRequests < MaxRequests /\ nRequests' = nRequests + 1
  /\ Goto(q, stage) /\ thread' = [thread EXCEPT ![q] = threadStage]
  /\ op' = [r \in Req |->
              IF r = q THEN [o EXCEPT !.n = nRequests + 1]
              ELSE IF r \in Running THEN op[r] ELSE Rest]
  /\ reply' = [reply EXCEPT ![q] = "nothing"]
  /\ solo' = IF Running = {} THEN q ELSE None
  /\ before' = [conf |-> conf, active |-> active] /\ faults' = {}
  /\ UNCHANGED <<rows, file, unit, nFaults>>

OnServer(q, kind, s, new, stage) ==
  /\ s \in Servers
  /\ Start(q, [Rest EXCEPT !.kind = kind, !.server = s, !.seen = servers[s], !.new = new],
           stage, "none")

CreateServer(q, s, wireguard, site) ==
  /\ servers[s] = None
  /\ Start(q, [Rest EXCEPT !.kind = "create", !.server = s,
                            !.new = NewServer(wireguard, site)], "commit", "none")

UpdateServer(q, s, site) ==
  s \in Servers /\ OnServer(q, "update", s, [servers[s] EXCEPT !.site = site], "commit")
DeleteServer(q, s) == OnServer(q, "delete", s, None, "commit")
StartServer(q, s) == OnServer(q, "start", s, None, "call")
StopServer(q, s) == OnServer(q, "stop", s, None, "call")
RestartServer(q, s) == OnServer(q, "restart", s, None, "commit")

\* Address, endpoint, keys and networks parse, and hold nothing that could end
\* a line of the file.
Valid(c) == c \notin Malformed

\* The gateway's copies of the same checks: 422.
ValidParameters(c) == c \notin Malformed

\* 409 if there is a tunnel.
InitializeSiteToSite(q, s, c) ==
  /\ ValidParameters(c)
  /\ servers[s] = None /\ \A t \in Servers : ~servers[t].site
  /\ Start(q, [Rest EXCEPT !.kind = "initialize", !.server = s,
                            !.new = NewServer(TRUE, TRUE)], "commit", "none")

\* WireGuard keys come from the agent, and none are made in bulk.
AddChild(q, kind, s, c) ==
  /\ s \in Servers /\ children[c] = None
  /\ Start(q, [Rest EXCEPT !.kind = kind, !.server = s, !.child = c],
           IF kind = "client" /\ servers[s].wireguard THEN "keys" ELSE "commit", "none")

CreateClient(q, s, c) == AddChild(q, "client", s, c)
BulkCreateClients(q, s, c) == AddChild(q, "bulk", s, c)
CreateRoute(q, s, c) == AddChild(q, "route", s, c)

OnChild(q, kind, c, stage) ==
  /\ c \in Children
  /\ Start(q, [Rest EXCEPT !.kind = kind, !.child = c, !.server = children[c].server],
           stage, "none")

UpdateClient(q, c) == OnChild(q, "edit", c, "commit")
DeleteClient(q, c) == OnChild(q, "remove", c, "commit")
DeleteRoute(q, c) == OnChild(q, "remove", c, "commit")
RegenerateClientCredentials(q, c) ==
  /\ c \in Children
  /\ OnChild(q, "regenerate", c,
             IF servers[children[c].server].wireguard THEN "keys" ELSE "commit")

\* What is kept of a finished request is what it was, if it ran alone, and what
\* its thread has still to do.
Finish(q, word) ==
  /\ Goto(q, "idle")
  /\ op' = [op EXCEPT ![q] = IF solo = q \/ thread[q] # "none"
                             THEN [@ EXCEPT !.told = word, !.seen = None] ELSE Rest]

\* wg genkey and wg pubkey, or 502.
GenerateKeys(q) ==
  /\ pc[q] = "keys"
  /\ \/ Works /\ Goto(q, "commit") /\ op' = [op EXCEPT ![q].key = op[q].n]
     \/ Fault("exit") /\ Finish(q, "error")
  /\ UNCHANGED <<rows, file, unit, thread, reply, history, nRequests>>

\* Nobody has deleted the row or its parent since it was read, and a row that is
\* deleted is nobody's parent: no relationship cascades from a VPN server.
Writable(q) ==
  LET o == op[q] IN
  CASE o.kind \in {"create", "initialize", "remove"} -> TRUE
    [] o.kind = "delete" -> Below(o.server) = {}
    [] o.kind \in {"edit", "regenerate"} -> o.child \in Children
    [] OTHER -> o.server \in Servers

BrokenFile(q) == 0
\* The configuration file has the private key of the pair; it is written anew
\* with the public one.
File(q) == op[q].key

\* In bulk: `placeholder_...', and `<generated>' for a key in the file.
Child1(q) ==
  [server |-> op[q].server, key |-> IF op[q].kind = "bulk" THEN None ELSE op[q].key,
   config |-> File(q)]

\* What a commit leaves of the rows that the request is about.
ServerAfter(o, row) ==
  CASE o.kind \in {"create", "initialize"} -> o.new
    [] o.kind = "delete" -> None
    [] o.kind = "restart" -> [row EXCEPT !.status = "restarting"]
    [] o.kind = "update" -> IF o.seen.site = o.new.site THEN row ELSE [row EXCEPT !.site = o.new.site]
    [] OTHER -> row
ChildAfter(q, row) ==
  CASE op[q].kind \in {"client", "bulk", "route"} -> Child1(q)
    [] op[q].kind = "regenerate" -> [row EXCEPT !.key = op[q].key, !.config = File(q)]
    [] op[q].kind = "remove" -> None
    [] OTHER -> row

Commit(q) ==
  LET o == op[q] IN
  /\ pc[q] = "commit"
  /\ \/ /\ Writable(q)
        /\ servers' = [servers EXCEPT ![o.server] = ServerAfter(o, @)]
        /\ children' = IF o.child = None THEN children
                       ELSE [children EXCEPT ![o.child] = ChildAfter(q, @)]
        /\ IF o.kind \in {"restart", "initialize"}
           THEN Goto(q, IF o.kind = "restart" THEN "call" ELSE "push") /\ UNCHANGED op
           ELSE Finish(q, "ok")
     \/ ~Writable(q) /\ Finish(q, "error") /\ UNCHANGED rows      \* 500
  /\ UNCHANGED <<file, unit, thread, reply, history, budget, nRequests>>

\* vpn.py takes AsyncSessionLocal when it is imported, before there is one: the
\* name stays None, and the route dies where it opens its session (500).
SessionFactoryBound == FALSE

Push(q) ==
  /\ pc[q] = "push"
  /\ IF SessionFactoryBound
     THEN /\ \E c \in Config : op' = [op EXCEPT ![q].text = c]
          /\ Goto(q, "wait") /\ thread' = [thread EXCEPT ![q] = "backup"]
     ELSE Finish(q, "error") /\ UNCHANGED thread
  /\ UNCHANGED <<rows, file, unit, reply, history, budget, nRequests>>

\* The agent refuses protocols that it has not.
Call(q) ==
  /\ pc[q] \in {"call", "stopped"}
  /\ \/ /\ op[q].seen.wireguard
        /\ thread' = [thread EXCEPT ![q] =
             IF op[q].kind = "start" \/ pc[q] = "stopped" THEN "enable" ELSE "disable"]
        /\ Goto(q, "wait") /\ UNCHANGED op
     \/ ~op[q].seen.wireguard /\ Finish(q, "error") /\ UNCHANGED thread
  /\ UNCHANGED <<rows, file, unit, reply, history, budget, nRequests>>

\* A restart stops and then starts.
Answered(q) ==
  /\ pc[q] = "wait" /\ thread[q] = "none" /\ reply[q] # "nothing"
  /\ reply' = [reply EXCEPT ![q] = "nothing"]
  /\ IF reply[q] = "error" \/ op[q].kind \in {"apply", "initialize"}
     THEN Finish(q, reply[q])
     ELSE /\ op' = [op EXCEPT ![q].stopped = op[q].kind = "restart"]
          /\ Goto(q, IF op[q].kind = "restart" /\ ~op[q].stopped THEN "stopped" ELSE "status")
  /\ UNCHANGED <<rows, file, unit, thread, history, budget, nRequests>>

\* 502 after the timeout, or because the agent is gone.
GiveUp(q) ==
  /\ pc[q] = "wait" /\ reply[q] = "nothing"
  /\ Fault("silence") /\ Finish(q, "error")
  /\ UNCHANGED <<rows, file, unit, thread, reply, history, nRequests>>

BrokenOutcome(q) == IF op[q].kind = "stop" THEN "stopped" ELSE op[q].seen.status
Outcome(q) == IF op[q].kind = "stop" THEN "stopped" ELSE "running"

\* The column is part of the UPDATE if it differs from what the session has.
SetStatus(q) ==
  LET s == op[q].server
      known == IF op[q].kind = "restart" THEN "restarting" ELSE op[q].seen.status
  IN
  /\ pc[q] = "status"
  /\ IF known = Outcome(q) THEN Finish(q, "ok") /\ UNCHANGED servers
     ELSE /\ Finish(q, IF s \in Servers THEN "ok" ELSE "error")
          /\ servers' = [servers EXCEPT ![s] =
               IF s \in Servers THEN [@ EXCEPT !.status = Outcome(q)] ELSE @]
  /\ UNCHANGED <<children, file, unit, thread, reply, history, budget, nRequests>>

-----------------------------------------------------------------------------
(* The agent's threads.                                                     *)

\* POST /vpn/apply, of the gateway or of whoever has the key: 422 before a file
\* is touched, or a thread.
VpnApply(q, c) ==
  LET o == [Rest EXCEPT !.kind = "apply", !.text = c] IN
  IF Valid(c) THEN Start(q, o, "wait", "backup")
  ELSE Start(q, [o EXCEPT !.told = "error"], "idle", "none")

ThreadTo(q, stage) == thread' = [thread EXCEPT ![q] = stage] /\ UNCHANGED reply
Reply(q, word) ==
  /\ thread' = [thread EXCEPT ![q] = "none"]
  /\ reply' = [reply EXCEPT ![q] = IF pc[q] = "wait" THEN word ELSE "nothing"]

Agent(q, stage) ==
  thread[q] = stage /\ UNCHANGED <<rows, pc, op, history, nRequests>>

\* What a copy that breaks off can leave.
CutShort == Config \ Good

\* Copied in place; an OSError is no WgClientError either.
Backup(q) ==
  /\ Agent(q, "backup") /\ UNCHANGED <<conf, unit>>
  /\ \/ /\ Works /\ ThreadTo(q, "write")
        /\ backup' = IF conf = None THEN backup ELSE conf
     \/ /\ conf # None /\ Fault("file") /\ Reply(q, "error")
        /\ backup' \in {backup} \cup CutShort

\* Written beside the file, and moved over it.
WriteConfig(q) ==
  /\ Agent(q, "write") /\ UNCHANGED <<backup, unit>>
  /\ \/ Works /\ ThreadTo(q, "restart") /\ conf' = op[q].text
     \/ Fault("file") /\ Reply(q, "error") /\ UNCHANGED conf

\* What the unit runs with after `systemctl restart'.
Restarted == IF conf \in Good THEN conf ELSE None

\* A failure is restored; a timeout is not a WgClientError and leaves things
\* as they are, the job of the unit being under way.
Restart(q) ==
  /\ Agent(q, "restart") /\ UNCHANGED <<file, enabled>>
  /\ \/ /\ Works /\ active' = Restarted
        /\ IF conf \in Good THEN Reply(q, "ok") ELSE ThreadTo(q, "restore")
     \/ Fault("exit") /\ active' = None /\ ThreadTo(q, "restore")
     \/ Fault("timeout") /\ active' \in {active, Restarted, None} /\ Reply(q, "error")

BrokenRestored == conf
Restored == IF backup = None THEN conf ELSE backup

RestoreBackup(q) ==
  /\ Agent(q, "restore") /\ UNCHANGED <<backup, unit>>
  /\ \/ Works /\ ThreadTo(q, "restart2") /\ conf' = Restored
     \/ /\ backup # None /\ Fault("restore") /\ Reply(q, "error")
        /\ conf' \in {conf} \cup CutShort

RestartAgain(q) ==
  /\ Agent(q, "restart2") /\ Reply(q, "error") /\ UNCHANGED <<file, enabled>>
  /\ \/ Works /\ active' = Restarted
     \/ Fault("again") /\ active' \in {active, Restarted, None}

\* The exit of enable and disable is not looked at; a timeout ends the call.
Enable(q) ==
  /\ thread[q] \in {"enable", "disable"} /\ Agent(q, thread[q])
  /\ \/ /\ Works /\ enabled' = (thread[q] = "enable")
        /\ ThreadTo(q, IF thread[q] = "enable" THEN "start" ELSE "stop")
     \/ /\ Fault("ignored") /\ UNCHANGED enabled
        /\ ThreadTo(q, IF thread[q] = "enable" THEN "start" ELSE "stop")
     \/ /\ Fault("timeout") /\ enabled' \in {enabled, thread[q] = "enable"}
        /\ Reply(q, "error")
  /\ UNCHANGED <<file, active>>

Started == IF active = None THEN Restarted ELSE active

StartUnit(q) ==
  /\ Agent(q, "start") /\ UNCHANGED <<file, enabled>>
  /\ \/ /\ Works /\ active' = Started
        /\ Reply(q, IF active' = None THEN "error" ELSE "ok")
     \/ Fault("exit") /\ active' \in {active, Started} /\ Reply(q, "error")

StopUnit(q) ==
  /\ Agent(q, "stop") /\ UNCHANGED <<file, enabled>>
  /\ \/ Works /\ active' = None /\ Reply(q, "ok")
     \/ Fault("exit") /\ active' \in {active, None} /\ Reply(q, "error")

\* The agent's process dies, with its threads.
AgentDies ==
  /\ \E q \in Req : thread[q] # "none"
  /\ Fault("death") /\ thread' = [q \in Req |-> "none"]
  /\ reply' = [q \in Req |-> IF thread[q] # "none" /\ pc[q] = "wait" THEN "error" ELSE reply[q]]
  /\ UNCHANGED <<rows, file, unit, pc, op, history, nRequests>>

-----------------------------------------------------------------------------
(* What is read.                                                            *)

\* GET /vpn/status of the agent: there is an interface.
Status == [up |-> active # None]
\* What the gateway says of a tunnel when the agent answers.
SiteStatus(s) == [status |-> servers[s].status, live |-> Status]

\* The configuration file of a client, 404 without it or its server.
DownloadClientConfig(c) ==
  IF c \in Children /\ children[c].server \in Servers THEN children[c].config ELSE None

-----------------------------------------------------------------------------
Request(q) ==
  \/ \E s \in Server :
       \/ \E wireguard, site \in BOOLEAN : CreateServer(q, s, wireguard, site)
       \/ \E site \in BOOLEAN : UpdateServer(q, s, site)
       \/ DeleteServer(q, s)
       \/ StartServer(q, s) \/ StopServer(q, s) \/ RestartServer(q, s)
       \/ \E c \in Config \cup Malformed : InitializeSiteToSite(q, s, c)
       \/ \E c \in Child : CreateClient(q, s, c) \/ BulkCreateClients(q, s, c) \/ CreateRoute(q, s, c)
  \/ \E c \in Child :
       UpdateClient(q, c) \/ DeleteClient(q, c) \/ DeleteRoute(q, c) \/ RegenerateClientCredentials(q, c)
  \/ \E c \in Config \cup Malformed : VpnApply(q, c)

Step(q) ==
  \/ GenerateKeys(q) \/ Commit(q) \/ Push(q) \/ Call(q) \/ Answered(q) \/ GiveUp(q) \/ SetStatus(q)
  \/ Backup(q) \/ WriteConfig(q) \/ Restart(q) \/ RestoreBackup(q) \/ RestartAgain(q)
  \/ Enable(q) \/ StartUnit(q) \/ StopUnit(q)

\* The gateway and the agent wait for requests.
Waiting == Running = {} /\ UNCHANGED vars

Next == (\E q \in Req : Request(q) \/ Step(q)) \/ AgentDies \/ Waiting

Spec == Init /\ [][Next]_vars

-----------------------------------------------------------------------------
(* Properties.                                                              *)

Ended(kinds) == {q \in {solo} \cap Req : q \notin Running /\ op[q].kind \in kinds}

\* What ends an apply before the file is put back: the first restart does not
\* come back in 60 seconds, the copy fails, the agent dies, or the caller gives
\* up on an apply that goes on.
Lapse == faults \cap {"timeout", "restore", "death", "silence"} # {}
\* An apply that has come to the unit: its text was accepted and written.
Tried(q) == Valid(op[q].text) /\ "file" \notin faults

\* "after ANY failed apply: restore the .viswall-backup file AND restart the
\* unit", as far as the code keeps it: an apply that ran alone and failed, by a
\* refusal, by files that cannot be written, by a configuration that does not
\* come up or by a restart that exits with a failure, leaves the configuration
\* that was there before it, whatever interleaved applies had left in the
\* backup.  If it has come to the unit and the second restart does not fail too,
\* the tunnel is up on the old one; if it has not, the unit is as it was.
FailedApplyRestores ==
  \A q \in Ended({"apply"}) : op[q].told = "error" /\ ~Lapse /\ before.conf # None =>
    /\ conf = before.conf
    /\ before.conf \in Good /\ "again" \notin faults =>
         active = IF Tried(q) THEN before.conf ELSE before.active

\* The state-sync rule, and the status: after a start, stop or restart that ran
\* alone and was told ok the server's status is what the agent says of the
\* unit; and the unit comes back at boot if and only if it runs, unless it was
\* an enable or a disable that failed, which the agent answers ok.
StatusTrue ==
  \A q \in Ended({"start", "stop", "restart"}) : op[q].told = "ok" =>
    LET shown == SiteStatus(op[q].server) IN
    /\ "ignored" \notin faults => enabled = shown.live.up
    /\ shown.status = IF shown.live.up THEN "running" ELSE "stopped"

\* Every client can be given its configuration file, and it has the private key
\* of the public one in the row.  Clients made in bulk are the exception: until
\* their credentials are made anew they have a placeholder for a public key and
\* no private one in the file.
KeysMatch ==
  \A c \in Children :
    DownloadClientConfig(c) = IF children[c].key = None THEN 0 ELSE children[c].key
=============================================================================
