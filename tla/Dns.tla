---------------------------------- MODULE Dns ----------------------------------
(***************************************************************************)
(* Name service: the DNS routes of the gateway keep servers, zones, records *)
(* and keys; the dns agent writes BIND's files from them and reloads named. *)
(* Every await of the gateway lets the other requests in; the agent handles *)
(* one call at a time, since its handlers never await.                      *)
(*                                                                          *)
(* What the records of a zone say is a number, that of their changes, and   *)
(* so are the options and TSIG keys of a server.  Serials, which tell the   *)
(* hour of a change, are left out: named loads what is there.               *)
(***************************************************************************)
EXTENDS Naturals, FiniteSets

CONSTANTS
  Req,             \* requests, each with its background task
  Server, Zone,    \* row ids
  OldServer, OldZone,   \* the rows that are there from the start
  None,
  MaxRequests, MaxFaults     \* bounds of a behaviour

ASSUME DnsAssumption ==
  /\ None \notin Req \cup Server \cup Zone \cup Nat
  /\ OldServer \subseteq Server /\ OldZone \subseteq Zone
  /\ OldServer = {} => OldZone = {}
  /\ MaxRequests \in Nat /\ MaxFaults \in Nat

Count == 0 .. MaxRequests
ServerRow == [enabled : BOOLEAN, status : {"stopped", "running", "error"}, rev : Nat]
\* Zones of the other types are treated as masters.  rev: its records, 0 for
\* those of the system.
ZoneRow == [server : Server, type : {"master", "slave"}, enabled : BOOLEAN,
            signed : BOOLEAN, ds : Count \cup {None}, rev : Nat]
\* A key's id is the request that made it.
Key == [id : Count, zone : Zone, type : {"KSK", "ZSK"}, active : BOOLEAN]
\* What a zone file says.
Content == [rev : Nat, keys : SUBSET Key]
Options == SUBSET (Server \X Nat)
Conf == [zones : SUBSET Zone, options : Options]
Answers == {"nothing", "ok", "error"}

ASSUME NoRowAssumption == None \notin ServerRow /\ None \notin ZoneRow

VARIABLES
  servers, zones, keys,  \* the rows
  files, conf,           \* the agent's zone files and BIND's configuration
  served,                \* what named has loaded: contents and options
  pc, op,                \* where each request is, and what it does
  got,                   \* what it has loaded of its payload
  solo,                  \* history: the last request, if it ran beside no other
  nRequests, nFaults

vars == <<servers, zones, keys, files, conf, served, pc, op, got, solo,
          nRequests, nFaults>>
rows   == <<servers, zones, keys>>
disk   == <<files, conf>>
counts == <<nRequests, nFaults>>

Kind == {"serverAdd", "serverSet", "serverDrop", "start", "stop", "apply", "reload",
         "zoneAdd", "reverseAdd", "zoneSet", "zoneDrop", "sign", "unsign", "roll",
         "records", "push"}
Stage == {"idle", "keys", "commit", "soa", "task", "zones", "contents", "agent",
          "reload", "status"}
\* What a request is about: the row as it was read, what its columns are to be,
\* the zones below a server, and the types of keys with those that are retired.
Operation ==
  [kind : Kind, server : Server \cup {None}, zone : Zone \cup {None},
   seen : ZoneRow \cup ServerRow \cup {None}, enabled : BOOLEAN, signed : BOOLEAN,
   type : {"master", "slave"}, below : SUBSET Zone, types : SUBSET {"KSK", "ZSK"},
   retired : SUBSET Key, n : Count, told : Answers]
Rest == [kind |-> "push", server |-> None, zone |-> None, seen |-> None,
         enabled |-> FALSE, signed |-> FALSE, type |-> "master", below |-> {},
         types |-> {}, retired |-> {}, n |-> 0, told |-> "nothing"]
Payload ==
  [zones : [Zone -> ZoneRow \cup {None}], contents : [Zone -> Content \cup {None}],
   servers : SUBSET Server, options : Options]
Empty == [zones |-> [z \in Zone |-> None], contents |-> [z \in Zone |-> None],
          servers |-> {}, options |-> {}]

TypeOK ==
  /\ servers \in [Server -> ServerRow \cup {None}]
  /\ zones \in [Zone -> ZoneRow \cup {None}] /\ keys \subseteq Key
  /\ files \in [Zone -> Content \cup {None}] /\ conf \in Conf
  /\ served \in [zones : [Zone -> Content \cup {None}], options : Options]
  /\ pc \in [Req -> Stage] /\ op \in [Req -> Operation]
  /\ got \in [Req -> Payload]
  /\ solo \in Req \cup {None}
  /\ nRequests \in Count /\ nFaults \in 0 .. MaxFaults

Servers == {s \in Server : servers[s] # None}
Zones == {z \in Zone : zones[z] # None}
Active(z, types) == {k \in keys : k.zone = z /\ k.type \in types /\ k.active}

\* Some servers and master zones, and a host where nothing was applied yet.
Init ==
  /\ servers = [s \in Server |-> IF s \notin OldServer THEN None ELSE
                  [enabled |-> TRUE, status |-> "stopped", rev |-> 0]]
  /\ zones = [z \in Zone |-> IF z \notin OldZone THEN None ELSE
                [server |-> CHOOSE s \in OldServer : TRUE, type |-> "master",
                 enabled |-> TRUE, signed |-> FALSE, ds |-> None, rev |-> 0]]
  /\ keys = {}
  /\ files = [z \in Zone |-> None] /\ conf = [zones |-> {}, options |-> {}]
  /\ served = [zones |-> [z \in Zone |-> None], options |-> {}]
  /\ pc = [q \in Req |-> "idle"] /\ op = [q \in Req |-> Rest]
  /\ got = [q \in Req |-> Empty] /\ solo = None
  /\ nRequests = 0 /\ nFaults = 0

Running == {q \in Req : pc[q] # "idle"}
Goto(q, stage) == pc' = [pc EXCEPT ![q] = stage]

-----------------------------------------------------------------------------
(* The routes: the row is read, 404 if there is none, and then written.     *)

Begin(q, o, stage) ==
  /\ pc[q] = "idle" /\ nRequests < MaxRequests /\ nRequests' = nRequests + 1
  /\ Goto(q, stage)
  /\ op' = [r \in Req |->
       IF r = q THEN [o EXCEPT !.n = nRequests + 1]
       ELSE IF pc[r] = "idle" THEN Rest ELSE op[r]]
  /\ solo' = IF Running = {} THEN q ELSE None
  /\ UNCHANGED <<rows, disk, served, got, nFaults>>

OnServer(q, s, kind, enabled, stage) ==
  /\ s \in Servers
  /\ Begin(q, [Rest EXCEPT !.kind = kind, !.server = s, !.seen = servers[s],
                           !.enabled = enabled], stage)

CreateServer(q, s, enabled) ==
  /\ servers[s] = None
  /\ Begin(q, [Rest EXCEPT !.kind = "serverAdd", !.server = s, !.enabled = enabled], "commit")

UpdateServer(q, s, enabled) == OnServer(q, s, "serverSet", enabled, "commit")

\* The children are read, to be deleted with it.
DeleteServer(q, s) ==
  /\ s \in Servers
  /\ Begin(q, [Rest EXCEPT !.kind = "serverDrop", !.server = s,
                           !.below = {z \in Zones : zones[z].server = s}], "commit")

FirstStage(action) ==
  CASE action \in {"start", "stop"} -> "commit"
    [] action = "apply" -> "zones"
    [] action = "reload" -> "reload"
ServerAction(q, s, action) == OnServer(q, s, action, FALSE, FirstStage(action))

AddZone(q, s, z, kind, type, signed) ==
  /\ s \in Servers /\ zones[z] = None
  /\ Begin(q, [Rest EXCEPT !.kind = kind, !.server = s, !.zone = z, !.type = type,
                           !.signed = signed], "commit")

CreateZone(q, s, z, type, signed) == AddZone(q, s, z, "zoneAdd", type, signed)
CreateReverseZone(q, s, z) == AddZone(q, s, z, "reverseAdd", "master", FALSE)

OnZone(q, z, kind, stage) ==
  /\ z \in Zones
  /\ Begin(q, [Rest EXCEPT !.kind = kind, !.zone = z, !.seen = zones[z]], stage)

UpdateZone(q, z, enabled, signed) ==
  /\ z \in Zones
  /\ Begin(q, [Rest EXCEPT !.kind = "zoneSet", !.zone = z, !.seen = zones[z],
                           !.enabled = enabled, !.signed = signed], "commit")

DeleteZone(q, z) == OnZone(q, z, "zoneDrop", "commit")

\* A rollover is of one type of keys.
ChangeKeys(q, z, kind, types) ==
  /\ z \in Zones
  /\ Begin(q, [Rest EXCEPT !.kind = kind, !.zone = z, !.seen = zones[z],
                           !.types = types], "keys")
SignZone(q, z) == ChangeKeys(q, z, "sign", {"KSK", "ZSK"})
UnsignZone(q, z) == ChangeKeys(q, z, "unsign", {"KSK", "ZSK"})
DnssecRollover(q, z, type) == ChangeKeys(q, z, "roll", {type})

CreateRecord(q, z) == OnZone(q, z, "records", "commit")
BulkImportRecords(q, z) == CreateRecord(q, z)
\* Whether a zone is a reverse one is a flag of it.
CreatePtrRecord(q, z) == CreateRecord(q, z)
\* Not of system records, the only ones of a new zone.
UpdateRecord(q, z) == z \in Zones /\ zones[z].rev > 0 /\ CreateRecord(q, z)
DeleteRecord(q, z) == UpdateRecord(q, z)

\* DELETE deactivates a TSIG key.
ChangeTsigKey(q, s) == s \in Servers /\ OnServer(q, s, "serverSet", servers[s].enabled, "commit")
CreateTsigKey(q, s) == ChangeTsigKey(q, s)
RotateTsigKey(q, s) == ChangeTsigKey(q, s)
DeleteTsigKey(q, s) == ChangeTsigKey(q, s)

\* The active keys that will be retired.
ReadKeys(q) ==
  /\ pc[q] = "keys" /\ Goto(q, "commit")
  /\ op' = [op EXCEPT ![q].retired = Active(op[q].zone, op[q].types)]
  /\ UNCHANGED <<rows, disk, served, got, solo, counts>>

\* The column is part of the UPDATE if it differs from what was read.
Set(q, row, column, value) ==
  IF op[q].seen[column] = value THEN row[column] ELSE value

NewKeys(q) ==
  {[id |-> op[q].n, zone |-> op[q].zone, type |-> type, active |-> TRUE] :
     type \in IF op[q].kind = "unsign" THEN {} ELSE op[q].types}

BrokenRetire(q) == {[k EXCEPT !.active = @ /\ k.id # op[q].n - 1] : k \in keys}
\* Those that were read as active are retired.
Retire(q) == {[k EXCEPT !.active = @ /\ k \notin op[q].retired] : k \in keys}

\* The row after the request's UPDATE.
ZoneSet(q) ==
  LET o == op[q]
      z == zones[o.zone]
  IN  CASE o.kind = "records" -> [z EXCEPT !.rev = @ + 1]
        [] o.kind = "zoneSet" ->
             [z EXCEPT !.enabled = Set(q, z, "enabled", o.enabled),
                             !.signed = Set(q, z, "signed", o.signed)]
        [] o.kind = "unsign" ->
             [z EXCEPT !.signed = Set(q, z, "signed", FALSE),
                             !.ds = Set(q, z, "ds", None)]
        [] OTHER ->
             [z EXCEPT !.signed = Set(q, z, "signed", TRUE),
                             !.ds = IF "KSK" \in o.types THEN o.n ELSE @]

\* Nobody has deleted the row, or its parent, since it was read.  A server
\* whose zones are not all known cannot be deleted (foreign key); a DELETE of a
\* row that is gone does nothing.
Writable(q) ==
  LET o == op[q] IN
  CASE o.kind \in {"zoneAdd", "reverseAdd"} -> o.server \in Servers
    [] o.kind \in {"serverSet", "start", "stop"} -> o.server \in Servers
    [] o.kind \in {"zoneSet", "sign", "unsign", "roll", "records"} -> o.zone \in Zones
    [] o.kind = "serverDrop" -> {z \in Zones : zones[z].server = o.server} \subseteq o.below
    [] OTHER -> TRUE

ServerSet(q) ==
  LET o == op[q]
      s == servers[o.server]
  IN  CASE o.kind = "serverAdd" -> [enabled |-> o.enabled, status |-> "stopped", rev |-> 0]
        [] o.kind = "serverSet" ->
             [s EXCEPT !.enabled = Set(q, s, "enabled", o.enabled), !.rev = @ + 1]
        [] o.kind = "serverDrop" -> None
        [] OTHER -> [s EXCEPT !.status =
             Set(q, s, "status", IF o.kind = "start" THEN "running" ELSE "stopped")]

ServerWritten(q) ==
  LET dropped == IF op[q].kind = "serverDrop" THEN op[q].below ELSE {} IN
  /\ servers' = [servers EXCEPT ![op[q].server] = ServerSet(q)]
  /\ zones' = [z \in Zone |-> IF z \in dropped THEN None ELSE zones[z]]
  /\ keys' = {k \in keys : k.zone \notin dropped}

ZoneWritten(q) ==
  LET o == op[q] IN
  /\ UNCHANGED servers
  /\ zones' = [zones EXCEPT ![o.zone] =
       CASE o.kind = "zoneDrop" -> None
         [] o.kind \in {"zoneAdd", "reverseAdd"} ->
              [server |-> o.server, type |-> o.type, enabled |-> TRUE,
               signed |-> o.signed, ds |-> None, rev |-> 0]
         [] OTHER -> ZoneSet(q)]
  /\ keys' = CASE o.kind = "zoneDrop" -> {k \in keys : k.zone # o.zone}
               [] o.kind \in {"sign", "unsign", "roll"} -> Retire(q) \cup NewKeys(q)
               [] OTHER -> keys

\* What is kept of a finished request is what it was, if it ran alone.
Close(q, word) ==
  op' = [op EXCEPT ![q] =
    IF solo = q THEN [@ EXCEPT !.told = word, !.seen = None, !.retired = {}] ELSE Rest]

Finish(q, word) ==
  Goto(q, "idle") /\ Close(q, word) /\ got' = [got EXCEPT ![q] = Empty]

\* After the commit a push is queued, but for "stop".
Commit(q) ==
  /\ pc[q] = "commit" /\ Writable(q)
  /\ IF op[q].kind \in {"serverAdd", "serverSet", "serverDrop", "start", "stop"}
     THEN ServerWritten(q) ELSE ZoneWritten(q)
  /\ IF op[q].kind = "stop" THEN Finish(q, "ok")
     ELSE Goto(q, IF op[q].kind = "reverseAdd" THEN "soa" ELSE "task") /\ UNCHANGED <<op, got>>
  /\ UNCHANGED <<disk, served, solo, counts>>

\* 500, and nothing is written.
Fail(q) ==
  /\ pc[q] = "commit" /\ ~Writable(q) /\ Finish(q, "error")
  /\ UNCHANGED <<rows, disk, served, solo, counts>>

MoreRecords(row) == IF row = None THEN None ELSE [row EXCEPT !.rev = @ + 1]

\* A reverse zone gets its SOA record in a second transaction; the push is
\* queued already, whatever becomes of it.
AddSoa(q) ==
  /\ pc[q] = "soa" /\ Goto(q, "task")
  /\ zones' = [zones EXCEPT ![op[q].zone] = MoreRecords(@)]
  /\ UNCHANGED <<servers, keys, disk, served, op, got, solo, counts>>

\* dns_dispatch.py takes AsyncSessionLocal when it is imported, before there is
\* one: the name stays None, and the task dies where it opens its session.
SessionFactoryBound == FALSE

Task(q) ==
  /\ pc[q] = "task"
  /\ IF SessionFactoryBound
     THEN /\ Goto(q, "zones") /\ UNCHANGED got
          /\ op' = [op EXCEPT ![q] = [@ EXCEPT !.seen = None, !.retired = {}]]
     ELSE Finish(q, "ok")
  /\ UNCHANGED <<rows, disk, served, solo, counts>>

-----------------------------------------------------------------------------
(* The push: the enabled servers and their zones, then what is in them.     *)

Enabled == {s \in Servers : servers[s].enabled}
LoadZones(q) ==
  /\ pc[q] = "zones" /\ Goto(q, "contents")
  /\ got' = [got EXCEPT ![q].servers = Enabled,
                        ![q].zones = [z \in Zone |->
                          IF z \in Zones /\ zones[z].server \in Enabled THEN zones[z] ELSE None]]
  /\ UNCHANGED <<rows, disk, served, op, solo, counts>>

ContentOf(z, row) ==
  [rev |-> row.rev, keys |-> IF row.signed THEN Active(z, {"KSK", "ZSK"}) ELSE {}]

Chosen(q) == {z \in Zone : got[q].zones[z] # None}
\* The records of a zone that has been deleted meanwhile are none.
RowOf(q, z) == [got[q].zones[z] EXCEPT !.rev = IF z \in Zones THEN zones[z].rev ELSE 0]
LoadContents(q) ==
  /\ pc[q] = "contents" /\ Goto(q, "agent")
  /\ got' = [got EXCEPT ![q].contents = [z \in Zone |->
                          IF z \in Chosen(q) THEN ContentOf(z, RowOf(q, z)) ELSE None],
                        ![q].options = {<<s, servers[s].rev>> : s \in got[q].servers \cap Servers}]
  /\ UNCHANGED <<rows, disk, served, op, solo, counts>>

\* The zones of a payload that go to BIND.
BrokenWanted(q) == Chosen(q)
Wanted(q) == {z \in Chosen(q) : got[q].zones[z].enabled}
Slaves(q) == {z \in Wanted(q) : got[q].zones[z].type = "slave"}
FilesWith(q, some) ==
  [z \in Zone |-> IF z \in some THEN got[q].contents[z] ELSE files[z]]

\* What named loads with `rndc reload'.
Loaded == [zones |-> [z \in Zone |-> IF z \in conf.zones THEN files[z] ELSE None],
           options |-> conf.options]

Fault == nFaults < MaxFaults /\ nFaults' = nFaults + 1
NoFault == UNCHANGED nFaults
Reply(q, word) ==
  /\ Goto(q, "status")
  /\ op' = [op EXCEPT ![q].told = word]

\* No schema lets a slave zone have a master's address, and render_zone_block
\* raises for one that has none (400), the zones before it having been written;
\* the disk may fail between two files (500), named.conf.local the last of them.
WriteFails(q) ==
  /\ pc[q] = "agent" /\ Reply(q, "error")
  /\ IF Slaves(q) # {} THEN NoFault ELSE Fault
  /\ \/ /\ \E some \in SUBSET Wanted(q) : files' = FilesWith(q, some \ Slaves(q))
        /\ UNCHANGED conf
     \/ /\ Slaves(q) = {} /\ files' = FilesWith(q, Wanted(q))
        /\ conf' = [conf EXCEPT !.options = got[q].options]
  /\ UNCHANGED <<rows, served, got, solo, nRequests>>

\* Everything is written and named reloads, or says that it cannot; or the
\* gateway has stopped waiting.
WriteAll(q) ==
  /\ pc[q] = "agent" /\ Slaves(q) = {}
  /\ files' = FilesWith(q, Wanted(q))
  /\ conf' = [zones |-> Wanted(q), options |-> got[q].options]
  /\ \/ served' = Loaded' /\ NoFault /\ Reply(q, "ok")
     \/ served' = Loaded' /\ Fault /\ Reply(q, "error")
     \/ UNCHANGED served /\ Fault /\ Reply(q, "error")
  /\ UNCHANGED <<rows, got, solo, nRequests>>

\* POST /dns/sign-zone, which the gateway never calls: a new pair of keys, that
\* no row knows of, and the zone's two files; the configuration, which says
\* whether it is the signed one that is served, stays as it is.
DnssecMaterial(z, type) ==
  [id |-> nRequests + 1, zone |-> z, type |-> type, active |-> TRUE]
AgentSignZone(z) ==
  /\ nRequests < MaxRequests /\ nRequests' = nRequests + 1
  /\ \E signed \in {{}, {DnssecMaterial(z, "KSK"), DnssecMaterial(z, "ZSK")}} :
       files' = [files EXCEPT ![z] = [rev |-> zones[z].rev, keys |-> signed]]
  /\ UNCHANGED <<rows, conf, served, pc, op, got, solo, nFaults>>

\* The agent is not reached, or rndc fails.
Unreached(q) ==
  /\ pc[q] \in {"agent", "reload"} /\ Fault /\ Reply(q, "error")
  /\ UNCHANGED <<rows, disk, served, got, solo, nRequests>>

ReloadBind(q) ==
  /\ pc[q] = "reload" /\ served' = Loaded
  /\ Finish(q, "ok")
  /\ UNCHANGED <<rows, disk, solo, counts>>

StatusOf(word) == IF word = "ok" THEN "running" ELSE "error"

\* Success is written to every server of the instance, failure to the one the
\* action is about.
Status(q) ==
  LET o == op[q]
      hit == IF o.told = "ok" \/ o.kind # "apply" THEN Server ELSE {o.server}
  IN
  /\ pc[q] = "status" /\ Finish(q, o.told)
  /\ servers' = IF o.kind = "reload" THEN servers
                ELSE [s \in Server |-> IF s \in hit \cap Servers
                                        THEN [servers[s] EXCEPT !.status = StatusOf(o.told)]
                                        ELSE servers[s]]
  /\ UNCHANGED <<zones, keys, disk, served, solo, counts>>

-----------------------------------------------------------------------------
Step(q) ==
  \/ ReadKeys(q) \/ Commit(q) \/ Fail(q) \/ AddSoa(q) \/ Task(q)
  \/ LoadZones(q) \/ LoadContents(q)
  \/ WriteFails(q) \/ WriteAll(q) \/ Unreached(q) \/ ReloadBind(q) \/ Status(q)

Request(q) ==
  \/ \E s \in Server :
       \/ \E on \in BOOLEAN : CreateServer(q, s, on) \/ UpdateServer(q, s, on)
       \/ DeleteServer(q, s)
       \/ CreateTsigKey(q, s) \/ RotateTsigKey(q, s) \/ DeleteTsigKey(q, s)
       \/ \E action \in {"start", "stop", "apply", "reload"} : ServerAction(q, s, action)
       \/ \E z \in Zone :
            \/ \E type \in {"master", "slave"}, signed \in BOOLEAN : CreateZone(q, s, z, type, signed)
            \/ CreateReverseZone(q, s, z)
  \/ \E z \in Zone :
       \/ \E enabled, signed \in BOOLEAN : UpdateZone(q, z, enabled, signed)
       \/ DeleteZone(q, z) \/ SignZone(q, z) \/ UnsignZone(q, z)
       \/ \E type \in {"KSK", "ZSK"} : DnssecRollover(q, z, type)
       \/ CreateRecord(q, z) \/ BulkImportRecords(q, z) \/ CreatePtrRecord(q, z)
       \/ UpdateRecord(q, z) \/ DeleteRecord(q, z)

\* The gateway waits for requests.
Waiting == Running = {} /\ UNCHANGED vars

Next ==
  \/ \E q \in Req : Request(q) \/ Step(q)
  \/ \E z \in Zones : AgentSignZone(z)
  \/ Waiting

Spec == Init /\ [][Next]_vars

-----------------------------------------------------------------------------
(* Properties.                                                             *)

\* What named has to serve.
Desired ==
  [zones |-> [z \in Zone |->
      IF z \in Zones /\ zones[z].server \in Enabled /\ zones[z].enabled
      THEN ContentOf(z, zones[z]) ELSE None],
   options |-> {<<s, servers[s].rev>> : s \in Enabled}]

Ended(kinds) == {q \in {solo} \cap Req : pc[q] = "idle" /\ op[q].kind \in kinds}

\* An "apply" that ran alone and was told ok leaves named serving the database,
\* whatever half-written files and failed reloads there were before, and a
\* server's status says which of the two it was.
AppliesAll ==
  \A q \in Ended({"apply"}) :
    /\ op[q].told = "ok" => served = Desired
    /\ \A s \in Servers : s = op[q].server =>
         servers[s].status = IF op[q].told = "ok" THEN "running" ELSE "error"

\* One active key of each type, or none, and the DS record of the active KSK.
Healed(q) ==
  LET z == op[q].zone IN
  /\ \A type \in op[q].types :
       Cardinality(Active(z, {type})) = IF op[q].kind = "unsign" THEN 0 ELSE 1
  /\ op[q].kind # "unsign" /\ "KSK" \in op[q].types =>
       \A k \in Active(z, {"KSK"}) : zones[z].ds = k.id
  /\ op[q].kind = "unsign" => zones[z].ds = None

\* A lone signing, unsigning or rollover leaves one active key of each of its
\* types, or none, whatever overlapping ones had left, and the DS record is
\* that of the active KSK.
KeysHeal == \A q \in Ended({"sign", "unsign", "roll"}) : op[q].told = "ok" => Healed(q)
=============================================================================
