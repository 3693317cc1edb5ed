------------------------------- MODULE DnsProofs -------------------------------
(***************************************************************************)
(* Theorems about Dns, for every number of requests, servers and zones,     *)
(* with faults anywhere: its types, that an apply that ran alone leaves     *)
(* named serving the database, and what a signing, an unsigning or a        *)
(* rollover that ran alone leaves of the keys.                              *)
(***************************************************************************)
EXTENDS Dns, FiniteSetTheorems, TLAPS

-----------------------------------------------------------------------------
(* The inductive invariant.                                                 *)

\* The kinds of requests that write their row, and those of them that read the
\* zone's keys before.
KeyKinds == {"sign", "unsign", "roll"}
Writers == {"serverAdd", "serverSet", "serverDrop", "start", "stop", "zoneAdd", "reverseAdd",
            "zoneSet", "zoneDrop", "records"} \cup KeyKinds
Written ==
  \A q \in Req :
    /\ pc[q] = "keys" => op[q].kind \in KeyKinds
    /\ pc[q] = "commit" => op[q].kind \in Writers

\* A request that began while nothing ran, and beside which none began, is the
\* only one that runs: what it has read is still so.
Alone == solo # None => Running \subseteq {solo}

WantedZones == [z \in Zone |-> IF z \in Zones /\ zones[z].server \in Enabled THEN zones[z] ELSE None]
ApplyPhase(q) ==
  /\ pc[q] \in {"zones", "contents", "agent", "status", "idle"}
  /\ pc[q] \in {"contents", "agent"} => got[q].servers = Enabled /\ got[q].zones = WantedZones
  /\ pc[q] = "agent" =>
       /\ got[q].contents = [z \in Zone |-> IF WantedZones[z] # None THEN ContentOf(z, zones[z]) ELSE None]
       /\ got[q].options = Desired.options
  /\ pc[q] = "status" => op[q].told \in {"ok", "error"}
  /\ pc[q] \in {"status", "idle"} /\ op[q].told = "ok" => served = Desired
  /\ pc[q] = "idle" => \A s \in Servers : s = op[q].server =>
       servers[s].status = IF op[q].told = "ok" THEN "running" ELSE "error"

KeysPhase(q) ==
  /\ pc[q] \in {"keys", "commit", "task", "idle"}
  /\ pc[q] \in {"keys", "commit"} => op[q].zone \in Zone /\ op[q].seen = zones[op[q].zone]
  /\ pc[q] = "commit" => op[q].retired = Active(op[q].zone, op[q].types)
  /\ pc[q] = "task" \/ (pc[q] = "idle" /\ op[q].told = "ok") => Healed(q)

Phase(q) ==
  /\ op[q].kind = "apply" => ApplyPhase(q)
  /\ op[q].kind \in KeyKinds => KeysPhase(q)

SoloInv == Alone /\ (\A q \in Req : q = solo => Phase(q))


-----------------------------------------------------------------------------
(* Types.                                                                   *)

LEMMA RestType == Rest \in Operation
BY DnsAssumption DEF Rest, Operation, Kind, Count, Answers

LEMMA EmptyType == Empty \in Payload
BY DEF Empty, Payload, Options

LEMMA InitType == Init => TypeOK
<1> SUFFICES ASSUME Init PROVE TypeOK
  OBVIOUS
<1>1. servers \in [Server -> ServerRow \cup {None}]
  BY DEF Init, ServerRow
<1>2. zones \in [Zone -> ZoneRow \cup {None}]
  <2>1. ASSUME NEW z \in OldZone
        PROVE  (CHOOSE s \in OldServer : TRUE) \in Server
    BY DnsAssumption
  <2> DEFINE row == [server |-> CHOOSE s \in OldServer : TRUE, type |-> "master",
                     enabled |-> TRUE, signed |-> FALSE, ds |-> None, rev |-> 0]
  <2>2. ASSUME NEW z \in OldZone
        PROVE  row \in ZoneRow
    BY <2>1 DEF ZoneRow
  <2>3. zones = [z \in Zone |-> IF z \notin OldZone THEN None ELSE row]
    BY DEF Init
  <2> HIDE DEF row
  <2> QED
    BY <2>2, <2>3
<1>3. keys \subseteq Key /\ files \in [Zone -> Content \cup {None}] /\ conf \in Conf
  BY DEF Init, Conf, Options
<1>4. served \in [zones : [Zone -> Content \cup {None}], options : Options]
  BY DEF Init, Options
<1>5. pc \in [Req -> Stage] /\ op \in [Req -> Operation] /\ got \in [Req -> Payload]
  BY RestType, EmptyType DEF Init, Stage
<1>6. solo \in Req \cup {None} /\ nRequests \in Count /\ nFaults \in 0 .. MaxFaults
  BY DnsAssumption DEF Init, Count
<1> QED
  BY <1>1, <1>2, <1>3, <1>4, <1>5, <1>6 DEF TypeOK

LEMMA BeginType ==
  ASSUME TypeOK, NEW q \in Req, NEW o \in Operation, NEW stage \in Stage, Begin(q, o, stage)
  PROVE  TypeOK'
<1>1. nRequests' \in Count
  BY DnsAssumption DEF TypeOK, Begin, Count
<1>2. [o EXCEPT !.n = nRequests + 1] \in Operation
  BY <1>1 DEF Operation, Begin
<1>3. op' \in [Req -> Operation]
  <2> DEFINE next == [r \in Req |->
       IF r = q THEN [o EXCEPT !.n = nRequests + 1]
       ELSE IF pc[r] = "idle" THEN Rest ELSE op[r]]
  <2>1. op' = next
    BY DEF Begin
  <2>2. next \in [Req -> Operation]
    BY <1>2, RestType DEF TypeOK
  <2> QED
    BY <2>1, <2>2
<1>4. pc' \in [Req -> Stage]
  BY DEF TypeOK, Begin, Goto
<1>5. solo' \in Req \cup {None} /\ nFaults' \in 0 .. MaxFaults
  BY DEF TypeOK, Begin
<1> QED
  BY <1>1, <1>3, <1>4, <1>5 DEF TypeOK, Begin, rows, disk

\* What begins is a request of a kind that its stage is for.
LEMMA BeginWritten ==
  ASSUME TypeOK, Written, NEW q \in Req, NEW o \in Operation, NEW stage, Begin(q, o, stage),
         stage = "keys" => o.kind \in KeyKinds, stage = "commit" => o.kind \in Writers
  PROVE  Written'
<1>1. op'[q].kind = o.kind /\ pc'[q] = stage
  BY DEF TypeOK, Begin, Goto, Operation
<1>2. \A r \in Req : r # q => pc'[r] = pc[r] /\ (pc[r] # "idle" => op'[r] = op[r])
  BY DEF TypeOK, Begin, Goto
<1> QED
  BY <1>1, <1>2 DEF Written

Typed == TypeOK /\ Written

LEMMA RequestType ==
  ASSUME Typed, NEW q \in Req, Request(q)
  PROVE  Typed'
<1> USE DEF Typed
<1>0. ASSUME NEW o \in Operation, NEW stage \in {"commit", "keys", "zones", "reload"},
             Begin(q, o, stage),
             stage = "keys" => o.kind \in KeyKinds, stage = "commit" => o.kind \in Writers
      PROVE  Typed'
  BY <1>0, BeginType, BeginWritten DEF Stage
<1>1. ASSUME NEW s \in Server, NEW on \in BOOLEAN, CreateServer(q, s, on)
      PROVE  Typed'
  <2> DEFINE o == [Rest EXCEPT !.kind = "serverAdd", !.server = s, !.enabled = on]
  <2>1. o \in Operation /\ o.kind = "serverAdd"
    BY RestType DEF Operation, Kind
  <2>2. Begin(q, o, "commit")
    BY <1>1 DEF CreateServer
  <2> HIDE DEF o
  <2> QED
    BY <1>0, <2>1, <2>2 DEF Writers
<1>2. ASSUME NEW s \in Server, NEW kind \in Kind, NEW on \in BOOLEAN,
             NEW stage \in {"commit", "zones", "reload"}, OnServer(q, s, kind, on, stage),
             stage = "commit" => kind \in Writers
      PROVE  Typed'
  <2> DEFINE o == [Rest EXCEPT !.kind = kind, !.server = s, !.seen = servers[s],
                               !.enabled = on]
  <2>1. servers[s] \in ServerRow \cup {None}
    BY DEF TypeOK
  <2>2. o \in Operation /\ o.kind = kind
    BY <2>1, RestType DEF Operation
  <2>3. Begin(q, o, stage)
    BY <1>2 DEF OnServer
  <2> HIDE DEF o
  <2> QED
    BY <1>0, <1>2, <2>2, <2>3
<1>3. ASSUME NEW s \in Server, NEW on \in BOOLEAN, UpdateServer(q, s, on)
      PROVE  Typed'
  BY <1>2, <1>3 DEF UpdateServer, Kind, Writers
<1>4. ASSUME NEW s \in Server, DeleteServer(q, s)
      PROVE  Typed'
  <2> DEFINE below == {z \in Zones : zones[z].server = s}
             o == [Rest EXCEPT !.kind = "serverDrop", !.server = s, !.below = below]
  <2>1. below \subseteq Zone
    BY DEF Zones
  <2>2. o \in Operation /\ o.kind = "serverDrop"
    BY <2>1, RestType DEF Operation, Kind
  <2>3. Begin(q, o, "commit")
    BY <1>4 DEF DeleteServer
  <2> HIDE DEF o
  <2> QED
    BY <1>0, <2>2, <2>3 DEF Writers
<1>5. ASSUME NEW s \in Server, CreateTsigKey(q, s) \/ RotateTsigKey(q, s) \/ DeleteTsigKey(q, s)
      PROVE  Typed'
  <2>1. s \in Servers /\ OnServer(q, s, "serverSet", servers[s].enabled, "commit")
    BY <1>5 DEF CreateTsigKey, RotateTsigKey, DeleteTsigKey, ChangeTsigKey
  <2>2. servers[s].enabled \in BOOLEAN
    BY <2>1 DEF TypeOK, Servers, ServerRow
  <2> QED
    BY <1>2, <2>1, <2>2 DEF Kind, Writers
<1>6. ASSUME NEW s \in Server, NEW action \in {"start", "stop", "apply", "reload"},
             ServerAction(q, s, action)
      PROVE  Typed'
  <2>1. /\ FirstStage(action) \in {"commit", "zones", "reload"} /\ action \in Kind
        /\ FirstStage(action) = "commit" => action \in Writers
    BY DEF FirstStage, Kind, Writers
  <2> QED
    BY <1>2, <1>6, <2>1 DEF ServerAction
<1>7. ASSUME NEW s \in Server, NEW z \in Zone, NEW kind \in {"zoneAdd", "reverseAdd"},
             NEW type \in {"master", "slave"}, NEW signed \in BOOLEAN,
             AddZone(q, s, z, kind, type, signed)
      PROVE  Typed'
  <2> DEFINE o == [Rest EXCEPT !.kind = kind, !.server = s, !.zone = z, !.type = type,
                           !.signed = signed]
  <2>1. o \in Operation /\ o.kind = kind
    BY RestType DEF Operation, Kind
  <2>2. Begin(q, o, "commit")
    BY <1>7 DEF AddZone
  <2> HIDE DEF o
  <2> QED
    BY <1>0, <2>1, <2>2 DEF Writers
<1>8. ASSUME NEW s \in Server, NEW z \in Zone, NEW type \in {"master", "slave"},
             NEW signed \in BOOLEAN,
             CreateZone(q, s, z, type, signed) \/ CreateReverseZone(q, s, z)
      PROVE  Typed'
  BY <1>7, <1>8 DEF CreateZone, CreateReverseZone
<1>9. ASSUME NEW z \in Zone, NEW kind \in {"zoneDrop", "records"}, OnZone(q, z, kind, "commit")
      PROVE  Typed'
  <2> DEFINE o == [Rest EXCEPT !.kind = kind, !.zone = z, !.seen = zones[z]]
  <2>1. zones[z] \in ZoneRow \cup {None}
    BY DEF TypeOK
  <2>2. o \in Operation /\ o.kind = kind
    BY <2>1, RestType DEF Operation, Kind
  <2>3. Begin(q, o, "commit")
    BY <1>9 DEF OnZone
  <2> HIDE DEF o
  <2> QED
    BY <1>0, <2>2, <2>3 DEF Writers
<1>10. ASSUME NEW z \in Zone,
             \/ DeleteZone(q, z) \/ CreateRecord(q, z) \/ BulkImportRecords(q, z)
             \/ CreatePtrRecord(q, z) \/ UpdateRecord(q, z) \/ DeleteRecord(q, z)
       PROVE Typed'
  BY <1>9, <1>10 DEF DeleteZone, CreateRecord, BulkImportRecords, CreatePtrRecord,
                     UpdateRecord, DeleteRecord
<1>11. ASSUME NEW z \in Zone, NEW on \in BOOLEAN, NEW signed \in BOOLEAN,
              UpdateZone(q, z, on, signed)
       PROVE  Typed'
  <2> DEFINE o == [Rest EXCEPT !.kind = "zoneSet", !.zone = z, !.seen = zones[z],
                           !.enabled = on, !.signed = signed]
  <2>1. zones[z] \in ZoneRow \cup {None}
    BY DEF TypeOK
  <2>2. o \in Operation /\ o.kind = "zoneSet"
    BY <2>1, RestType DEF Operation, Kind
  <2>3. Begin(q, o, "commit")
    BY <1>11 DEF UpdateZone
  <2> HIDE DEF o
  <2> QED
    BY <1>0, <2>2, <2>3 DEF Writers
<1>12. ASSUME NEW z \in Zone, NEW kind \in KeyKinds, NEW types \in SUBSET {"KSK", "ZSK"},
              ChangeKeys(q, z, kind, types)
       PROVE  Typed'
  <2> DEFINE o == [Rest EXCEPT !.kind = kind, !.zone = z, !.seen = zones[z], !.types = types]
  <2>1. zones[z] \in ZoneRow \cup {None}
    BY DEF TypeOK
  <2>2. o \in Operation /\ o.kind = kind
    BY <2>1, RestType DEF Operation, Kind, KeyKinds
  <2>3. Begin(q, o, "keys")
    BY <1>12 DEF ChangeKeys
  <2> HIDE DEF o
  <2> QED
    BY <1>0, <2>2, <2>3
<1>13. ASSUME NEW z \in Zone, NEW type \in {"KSK", "ZSK"},
              SignZone(q, z) \/ UnsignZone(q, z) \/ DnssecRollover(q, z, type)
       PROVE  Typed'
  BY <1>12, <1>13 DEF SignZone, UnsignZone, DnssecRollover, KeyKinds
<1> QED
  BY <1>1, <1>3, <1>4, <1>5, <1>6, <1>8, <1>10, <1>11, <1>13 DEF Request


LEMMA FinishType ==
  ASSUME TypeOK, NEW q \in Req, NEW word \in Answers, Finish(q, word)
  PROVE  /\ pc' \in [Req -> Stage] /\ op' \in [Req -> Operation]
         /\ got' \in [Req -> Payload]
<1>1. op[q] \in Operation
  BY DEF TypeOK
<1>2. [op[q] EXCEPT !.told = word, !.seen = None, !.retired = {}] \in Operation
  BY <1>1 DEF Operation
<1>3. op' \in [Req -> Operation]
  BY <1>2, RestType DEF TypeOK, Finish, Close
<1>4. pc' \in [Req -> Stage] /\ got' \in [Req -> Payload]
  BY EmptyType DEF TypeOK, Finish, Goto, Stage
<1> QED
  BY <1>3, <1>4

LEMMA FaultType ==
  ASSUME TypeOK, Fault \/ NoFault
  PROVE  nFaults' \in 0 .. MaxFaults
BY DnsAssumption DEF TypeOK, Fault, NoFault

LEMMA SetType ==
  ASSUME NEW q \in Req, NEW row, NEW column, NEW S, NEW value \in S, row[column] \in S
  PROVE  Set(q, row, column, value) \in S
BY DEF Set

LEMMA RecordAdded ==
  ASSUME NEW z \in ZoneRow
  PROVE  [z EXCEPT !.rev = z.rev + 1] \in ZoneRow
BY DEF ZoneRow

\* What an UPDATE leaves of a zone's row.
LEMMA ZoneSetType ==
  ASSUME TypeOK, NEW q \in Req, op[q].zone \in Zones
  PROVE  ZoneSet(q) \in ZoneRow
<1> DEFINE o == op[q]
           z == zones[o.zone]
<1>1. o \in Operation /\ z \in ZoneRow
  BY DEF TypeOK, Zones
<1>2. [z EXCEPT !.rev = z.rev + 1] \in ZoneRow
  BY <1>1, RecordAdded
<1>3. Set(q, z, "enabled", o.enabled) \in BOOLEAN
  BY <1>1, SetType DEF ZoneRow, Operation
<1>4. Set(q, z, "signed", o.signed) \in BOOLEAN /\ Set(q, z, "signed", FALSE) \in BOOLEAN
      /\ Set(q, z, "signed", TRUE) \in BOOLEAN
  BY <1>1, SetType DEF ZoneRow, Operation
<1>5. Set(q, z, "ds", None) \in Count \cup {None}
  BY <1>1, SetType DEF ZoneRow
<1>6. (IF "KSK" \in o.types THEN o.n ELSE z.ds) \in Count \cup {None}
  BY <1>1 DEF ZoneRow, Operation
<1>7. ASSUME NEW enabled \in BOOLEAN, NEW signed \in BOOLEAN, NEW ds \in Count \cup {None}
      PROVE  /\ [z EXCEPT !.enabled = enabled, !.signed = signed] \in ZoneRow
             /\ [z EXCEPT !.signed = signed, !.ds = ds] \in ZoneRow
  BY <1>1, <1>7 DEF ZoneRow
<1> HIDE DEF z, o
<1> QED
  BY <1>2, <1>3, <1>4, <1>5, <1>6, <1>7 DEF ZoneSet, z, o

LEMMA ServerRowSet ==
  ASSUME NEW s \in ServerRow, NEW enabled \in BOOLEAN,
         NEW status \in {"stopped", "running", "error"}
  PROVE  /\ [s EXCEPT !.enabled = enabled, !.rev = s.rev + 1] \in ServerRow
         /\ [s EXCEPT !.status = status] \in ServerRow
<1>1. s.rev + 1 \in Nat
  BY DEF ServerRow
<1> QED
  BY <1>1 DEF ServerRow

LEMMA ServerSetType ==
  ASSUME TypeOK, Written, NEW q \in Req, pc[q] = "commit", Writable(q),
         op[q].kind \in {"serverAdd", "serverSet", "serverDrop", "start", "stop"}
  PROVE  ServerSet(q) \in ServerRow \cup {None}
<1> DEFINE o == op[q]
           s == servers[o.server]
<1>1. o \in Operation
  BY DEF TypeOK
<1>2. o.kind \in {"serverSet", "start", "stop"} => s \in ServerRow
  BY DEF TypeOK, Servers, Writable
<1>3. o.kind = "serverAdd" => [enabled |-> o.enabled, status |-> "stopped", rev |-> 0] \in ServerRow
  BY <1>1 DEF Operation, ServerRow
<1>4. ASSUME NEW enabled \in BOOLEAN, s \in ServerRow
      PROVE  [s EXCEPT !.enabled = enabled, !.rev = s.rev + 1] \in ServerRow
  BY <1>4, ServerRowSet
<1>5. ASSUME NEW status \in {"stopped", "running", "error"}, s \in ServerRow
      PROVE  [s EXCEPT !.status = status] \in ServerRow
  BY <1>5, ServerRowSet
<1>6. s \in ServerRow => Set(q, s, "enabled", o.enabled) \in BOOLEAN
  BY <1>1, SetType DEF ServerRow, Operation
<1>7. s \in ServerRow =>
        Set(q, s, "status", IF o.kind = "start" THEN "running" ELSE "stopped")
          \in {"stopped", "running", "error"}
  BY SetType DEF ServerRow
<1> HIDE DEF s, o
<1>8. CASE o.kind = "serverAdd"
  BY <1>3, <1>8 DEF ServerSet, o, s
<1>9. CASE o.kind = "serverSet"
  BY <1>2, <1>4, <1>6, <1>9 DEF ServerSet, o, s
<1>10. CASE o.kind = "serverDrop"
  BY <1>10 DEF ServerSet, o, s
<1>11. CASE o.kind \in {"start", "stop"}
  BY <1>2, <1>5, <1>7, <1>11 DEF ServerSet, o, s
<1> QED
  BY <1>8, <1>9, <1>10, <1>11 DEF o

LEMMA RetireType ==
  ASSUME TypeOK, NEW q \in Req, op[q].zone \in Zone
  PROVE  Retire(q) \subseteq Key /\ NewKeys(q) \subseteq Key
<1>1. op[q].n \in Count /\ op[q].types \subseteq {"KSK", "ZSK"}
  BY DEF TypeOK, Operation
<1>2. \A type \in op[q].types :
        [id |-> op[q].n, zone |-> op[q].zone, type |-> type, active |-> TRUE] \in Key
  BY <1>1 DEF Key
<1>3. NewKeys(q) \subseteq Key
  BY <1>2, Zenon DEF NewKeys
<1>4. ASSUME NEW k \in keys
      PROVE  [k EXCEPT !.active = k.active /\ k \notin op[q].retired] \in Key
  <2>1. k \in Key
    BY DEF TypeOK
  <2> QED
    BY <2>1 DEF Key
<1> QED
  BY <1>3, <1>4 DEF Retire

LEMMA CommitType ==
  ASSUME TypeOK, Written, NEW q \in Req, Commit(q)
  PROVE  TypeOK'
<1> DEFINE o == op[q]
<1>0. pc[q] = "commit" /\ Writable(q) /\ o.kind \in Writers /\ o \in Operation
  BY DEF Commit, Written, TypeOK
<1>1. /\ servers' \in [Server -> ServerRow \cup {None}]
      /\ zones' \in [Zone -> ZoneRow \cup {None}] /\ keys' \subseteq Key
  <2>1. CASE ServerWritten(q) /\ o.kind \in {"serverAdd", "serverSet", "serverDrop", "start", "stop"}
    <3>1. ServerSet(q) \in ServerRow \cup {None}
      BY <1>0, <2>1, ServerSetType
    <3>2. servers' \in [Server -> ServerRow \cup {None}]
      BY <2>1, <3>1 DEF ServerWritten, TypeOK
    <3>3. zones' \in [Zone -> ZoneRow \cup {None}]
      BY <2>1 DEF ServerWritten, TypeOK
    <3>4. keys' \subseteq Key
      BY <2>1 DEF ServerWritten, TypeOK
    <3> QED
      BY <3>2, <3>3, <3>4
  <2>2. CASE ZoneWritten(q) /\ o.kind \notin {"serverAdd", "serverSet", "serverDrop", "start", "stop"}
    <3>1. o.kind \in {"zoneAdd", "reverseAdd", "zoneSet", "zoneDrop", "records"} \cup KeyKinds
      BY <1>0, <2>2 DEF Writers
    <3>2. o.kind \in {"zoneSet", "records"} \cup KeyKinds => o.zone \in Zones
      BY <1>0 DEF Writable, KeyKinds
    <3>3. o.kind \in {"zoneSet", "records"} \cup KeyKinds => ZoneSet(q) \in ZoneRow
      BY <3>2, ZoneSetType
    <3>4. o.kind \in {"zoneAdd", "reverseAdd"} =>
            [server |-> o.server, type |-> o.type, enabled |-> TRUE,
             signed |-> o.signed, ds |-> None, rev |-> 0] \in ZoneRow
      BY <1>0 DEF Writable, Servers, ZoneRow, Operation
    <3>5. zones' \in [Zone -> ZoneRow \cup {None}]
      BY <2>2, <3>1, <3>3, <3>4 DEF ZoneWritten, TypeOK, KeyKinds
    <3>6. keys' \subseteq Key
      <4>1. o.kind \in KeyKinds => Retire(q) \subseteq Key /\ NewKeys(q) \subseteq Key
        BY <3>2, RetireType DEF Zones
      <4> QED
        BY <2>2, <4>1 DEF ZoneWritten, TypeOK, KeyKinds
    <3> QED
      BY <2>2, <3>5, <3>6 DEF ZoneWritten, TypeOK
  <2> QED
    BY <2>1, <2>2 DEF Commit
<1>2. /\ pc' \in [Req -> Stage] /\ op' \in [Req -> Operation] /\ got' \in [Req -> Payload]
  <2>1. CASE Finish(q, "ok")
    BY <2>1, FinishType DEF Answers
  <2>2. CASE (Goto(q, "soa") \/ Goto(q, "task")) /\ UNCHANGED <<op, got>>
    BY <2>2 DEF Goto, TypeOK, Stage
  <2> QED
    BY <2>1, <2>2 DEF Commit
<1> QED
  BY <1>1, <1>2 DEF Commit, TypeOK, disk, counts

LEMMA RouteType ==
  ASSUME TypeOK, NEW q \in Req, ReadKeys(q) \/ Fail(q) \/ AddSoa(q) \/ Task(q)
  PROVE  TypeOK'
<1>1. CASE ReadKeys(q)
  <2>1. Active(op[q].zone, op[q].types) \subseteq Key
    BY DEF Active, TypeOK
  <2>2. [op[q] EXCEPT !.retired = Active(op[q].zone, op[q].types)] \in Operation
    <3>1. op[q] \in Operation
      BY DEF TypeOK
    <3> QED
      BY <2>1, <3>1 DEF Operation
  <2>3. op' \in [Req -> Operation] /\ pc' \in [Req -> Stage]
    BY <1>1, <2>2 DEF ReadKeys, TypeOK, Goto, Stage
  <2> QED
    BY <1>1, <2>3 DEF ReadKeys, TypeOK, rows, disk, counts
<1>2. CASE Fail(q)
  <2>1. pc' \in [Req -> Stage] /\ op' \in [Req -> Operation] /\ got' \in [Req -> Payload]
    BY <1>2, FinishType DEF Fail, Answers
  <2> QED
    BY <1>2, <2>1 DEF Fail, TypeOK, rows, disk, counts
<1>3. CASE AddSoa(q)
  <2>1. \A row \in ZoneRow \cup {None} : MoreRecords(row) \in ZoneRow \cup {None}
    BY RecordAdded DEF MoreRecords
  <2>2. zones' \in [Zone -> ZoneRow \cup {None}]
    BY <1>3, <2>1 DEF AddSoa, TypeOK
  <2>3. pc' \in [Req -> Stage]
    BY <1>3 DEF AddSoa, Goto, TypeOK, Stage
  <2> QED
    BY <1>3, <2>2, <2>3 DEF AddSoa, TypeOK, disk, counts
<1>4. CASE Task(q)
  <2>1. Finish(q, "ok")
    BY <1>4 DEF Task, SessionFactoryBound
  <2>2. pc' \in [Req -> Stage] /\ op' \in [Req -> Operation] /\ got' \in [Req -> Payload]
    BY <2>1, FinishType DEF Answers
  <2> QED
    BY <1>4, <2>2 DEF Task, TypeOK, rows, disk, counts
<1> QED
  BY <1>1, <1>2, <1>3, <1>4


\* What a zone's file says of it.
LEMMA ContentType ==
  ASSUME TypeOK, NEW z \in Zone, NEW row \in ZoneRow
  PROVE  ContentOf(z, row) \in Content
BY DEF ContentOf, Content, ZoneRow, Active, TypeOK

LEMMA RowOfType ==
  ASSUME TypeOK, NEW q \in Req, NEW z \in Chosen(q)
  PROVE  RowOf(q, z) \in ZoneRow
<1>1. got[q].zones[z] \in ZoneRow
  BY DEF Chosen, TypeOK, Payload
<1>2. (IF z \in Zones THEN zones[z].rev ELSE 0) \in Nat
  BY DEF Zones, TypeOK, ZoneRow
<1> QED
  BY <1>1, <1>2 DEF RowOf, ZoneRow

LEMMA LoadType ==
  ASSUME TypeOK, NEW q \in Req, LoadZones(q) \/ LoadContents(q)
  PROVE  TypeOK'
<1>0. got[q] \in Payload
  BY DEF TypeOK
<1>1. got' \in [Req -> Payload]
  <2>1. CASE LoadZones(q)
    <3> DEFINE some == [z \in Zone |->
                 IF z \in Zones /\ zones[z].server \in Enabled THEN zones[z] ELSE None]
    <3>1. some \in [Zone -> ZoneRow \cup {None}] /\ Enabled \subseteq Server
      BY DEF TypeOK, Enabled, Servers
    <3>2. got' = [got EXCEPT ![q].servers = Enabled, ![q].zones = some]
      BY <2>1 DEF LoadZones
    <3> HIDE DEF some
    <3>3. [got[q] EXCEPT !.servers = Enabled, !.zones = some] \in Payload
      BY <1>0, <3>1 DEF Payload
    <3> QED
      BY <3>2, <3>3 DEF TypeOK
  <2>2. CASE LoadContents(q)
    <3> DEFINE some == [z \in Zone |->
                 IF z \in Chosen(q) THEN ContentOf(z, RowOf(q, z)) ELSE None]
               options == {<<s, servers[s].rev>> : s \in got[q].servers \cap Servers}
    <3>1. some \in [Zone -> Content \cup {None}]
      BY RowOfType, ContentType DEF Chosen
    <3>2. options \in Options
      <4>1. ASSUME NEW s \in got[q].servers \cap Servers
            PROVE  <<s, servers[s].rev>> \in Server \X Nat
        BY <4>1 DEF Servers, TypeOK, ServerRow
      <4> QED
        BY <4>1 DEF Options
    <3>3. got' = [got EXCEPT ![q].contents = some, ![q].options = options]
      BY <2>2 DEF LoadContents
    <3> HIDE DEF some, options
    <3>4. [got[q] EXCEPT !.contents = some, !.options = options] \in Payload
      BY <1>0, <3>1, <3>2 DEF Payload
    <3> QED
      BY <3>3, <3>4 DEF TypeOK
  <2> QED
    BY <2>1, <2>2
<1>2. pc' \in [Req -> Stage]
  BY DEF LoadZones, LoadContents, Goto, TypeOK, Stage
<1> QED
  BY <1>1, <1>2 DEF LoadZones, LoadContents, TypeOK, rows, disk, counts

LEMMA ReplyType ==
  ASSUME TypeOK, NEW q \in Req, NEW word \in Answers, Reply(q, word)
  PROVE  pc' \in [Req -> Stage] /\ op' \in [Req -> Operation]
<1>1. pc' \in [Req -> Stage]
  BY DEF Reply, Goto, TypeOK, Stage
<1>2. op[q] \in Operation
  BY DEF TypeOK
<1>3. [op[q] EXCEPT !.told = word] \in Operation
  BY <1>2 DEF Operation
<1> QED
  BY <1>1, <1>3 DEF Reply, TypeOK

LEMMA FilesType ==
  ASSUME TypeOK, NEW q \in Req, NEW some \in SUBSET Zone
  PROVE  FilesWith(q, some) \in [Zone -> Content \cup {None}]
BY DEF FilesWith, TypeOK, Payload

LEMMA LoadedType ==
  ASSUME TypeOK
  PROVE  Loaded \in [zones : [Zone -> Content \cup {None}], options : Options]
<1>1. [z \in Zone |-> IF z \in conf.zones THEN files[z] ELSE None] \in [Zone -> Content \cup {None}]
  BY DEF TypeOK
<1>2. conf.options \in Options
  BY DEF TypeOK, Conf
<1> QED
  BY <1>1, <1>2 DEF Loaded

LEMMA AgentType ==
  ASSUME TypeOK, NEW q \in Req,
         WriteFails(q) \/ WriteAll(q) \/ Unreached(q) \/ ReloadBind(q)
  PROVE  TypeOK'
<1>0. got[q] \in Payload /\ Wanted(q) \subseteq Zone
  BY DEF TypeOK, Wanted, Chosen
<1>1. CASE WriteFails(q)
  <2>1. pc' \in [Req -> Stage] /\ op' \in [Req -> Operation]
    BY <1>1, ReplyType DEF WriteFails, Answers
  <2>2. nFaults' \in 0 .. MaxFaults
    BY <1>1, FaultType DEF WriteFails
  <2>3. files' \in [Zone -> Content \cup {None}]
    <3>1. PICK some \in SUBSET Zone : files' = FilesWith(q, some)
      BY <1>0, <1>1 DEF WriteFails
    <3> QED
      BY <3>1, FilesType
  <2>4. conf' \in Conf
    <3>1. conf' = conf \/ conf' = [conf EXCEPT !.options = got[q].options]
      BY <1>1 DEF WriteFails
    <3> QED
      BY <1>0, <3>1 DEF TypeOK, Conf, Payload
  <2> QED
    BY <1>1, <2>1, <2>2, <2>3, <2>4 DEF WriteFails, TypeOK, rows
<1>2. CASE WriteAll(q)
  <2>1. pc' \in [Req -> Stage] /\ op' \in [Req -> Operation]
    BY <1>2, ReplyType DEF WriteAll, Answers
  <2>2. nFaults' \in 0 .. MaxFaults
    BY <1>2, FaultType DEF WriteAll
  <2>3. files' \in [Zone -> Content \cup {None}]
    BY <1>0, <1>2, FilesType DEF WriteAll
  <2>4. conf' \in Conf
    BY <1>0, <1>2 DEF WriteAll, Conf, Payload
  <2>5. Loaded' \in [zones : [Zone -> Content \cup {None}], options : Options]
    <3>1. [z \in Zone |-> IF z \in conf'.zones THEN files'[z] ELSE None]
             \in [Zone -> Content \cup {None}]
      BY <2>3
    <3>2. conf'.options \in Options
      BY <2>4 DEF Conf
    <3> QED
      BY <3>1, <3>2 DEF Loaded
  <2>6. served' \in [zones : [Zone -> Content \cup {None}], options : Options]
    BY <1>2, <2>5 DEF WriteAll, TypeOK
  <2> QED
    BY <1>2, <2>1, <2>2, <2>3, <2>4, <2>6 DEF WriteAll, TypeOK, rows
<1>3. CASE Unreached(q)
  <2>1. pc' \in [Req -> Stage] /\ op' \in [Req -> Operation]
    BY <1>3, ReplyType DEF Unreached, Answers
  <2>2. nFaults' \in 0 .. MaxFaults
    BY <1>3, FaultType DEF Unreached
  <2> QED
    BY <1>3, <2>1, <2>2 DEF Unreached, TypeOK, rows, disk
<1>4. CASE ReloadBind(q)
  <2>1. pc' \in [Req -> Stage] /\ op' \in [Req -> Operation] /\ got' \in [Req -> Payload]
    BY <1>4, FinishType DEF ReloadBind, Answers
  <2> QED
    BY <1>4, <2>1, LoadedType DEF ReloadBind, TypeOK, rows, disk, counts
<1> QED
  BY <1>1, <1>2, <1>3, <1>4

LEMMA StatusType ==
  ASSUME TypeOK, NEW q \in Req, Status(q)
  PROVE  TypeOK'
<1>1. pc' \in [Req -> Stage] /\ op' \in [Req -> Operation] /\ got' \in [Req -> Payload]
  <2>1. op[q].told \in Answers
    BY DEF TypeOK, Operation
  <2> QED
    BY <2>1, FinishType DEF Status
<1>2. \A s \in Servers : [servers[s] EXCEPT !.status = StatusOf(op[q].told)] \in ServerRow
  BY ServerRowSet DEF StatusOf, Servers, TypeOK
<1>3. servers' \in [Server -> ServerRow \cup {None}]
  BY <1>2 DEF Status, TypeOK
<1> QED
  BY <1>1, <1>3 DEF Status, TypeOK, disk, counts


\* A step of a request: where it goes, and that the others stay.
LEMMA StepFrame ==
  ASSUME TypeOK, NEW q \in Req, Step(q)
  PROVE  /\ pc[q] # "idle" /\ solo' = solo
         /\ \A r \in Req : r # q => pc'[r] = pc[r] /\ op'[r] = op[r] /\ got'[r] = got[r]
         /\ pc'[q] # "keys" /\ (pc'[q] = "commit" => ReadKeys(q))
<1>1. ASSUME NEW word, Finish(q, word)
      PROVE  /\ \A r \in Req : r # q => pc'[r] = pc[r] /\ op'[r] = op[r] /\ got'[r] = got[r]
             /\ pc'[q] = "idle"
  BY <1>1 DEF Finish, Close, Goto, TypeOK
<1>2. ASSUME NEW stage, Goto(q, stage),
             op' = op \/ (\E o : op' = [op EXCEPT ![q] = o]),
             got' = got \/ (\E o : got' = [got EXCEPT ![q] = o])
      PROVE  /\ \A r \in Req : r # q => pc'[r] = pc[r] /\ op'[r] = op[r] /\ got'[r] = got[r]
             /\ pc'[q] = stage
  BY <1>2 DEF Goto, TypeOK
<1>3. CASE Commit(q)
  <2>1. Finish(q, "ok") \/ ((Goto(q, "soa") \/ Goto(q, "task")) /\ UNCHANGED <<op, got>>)
    BY <1>3 DEF Commit
  <2>2. pc[q] # "idle" /\ solo' = solo
    BY <1>3 DEF Commit
  <2> QED
    BY <1>1, <1>2, <2>1, <2>2
<1>4. CASE Fail(q) \/ ReloadBind(q) \/ Status(q)
  BY <1>1, <1>4 DEF Fail, ReloadBind, Status
<1>5. CASE Task(q)
  BY <1>1, <1>5 DEF Task, SessionFactoryBound
<1>6. CASE ReadKeys(q)
  BY <1>6 DEF ReadKeys, Goto, TypeOK
<1>7. CASE AddSoa(q)
  BY <1>7 DEF AddSoa, Goto, TypeOK
<1>8. CASE LoadZones(q) \/ LoadContents(q)
  BY <1>8 DEF LoadZones, LoadContents, Goto, TypeOK
<1>9. CASE WriteFails(q) \/ WriteAll(q) \/ Unreached(q)
  <2>1. PICK word : Reply(q, word)
    BY <1>9 DEF WriteFails, WriteAll, Unreached
  <2>2. pc[q] # "idle" /\ solo' = solo /\ got' = got
    BY <1>9 DEF WriteFails, WriteAll, Unreached
  <2> QED
    BY <2>1, <2>2 DEF Reply, Goto, TypeOK
<1> QED
  BY <1>3, <1>4, <1>5, <1>6, <1>7, <1>8, <1>9 DEF Step

LEMMA StepWritten ==
  ASSUME TypeOK, Written, NEW q \in Req, Step(q)
  PROVE  Written'
<1>1. pc'[q] = "commit" => op'[q].kind \in Writers
  <2> SUFFICES ASSUME ReadKeys(q) PROVE op'[q].kind \in Writers
    BY StepFrame
  <2>1. op[q].kind \in KeyKinds
    BY DEF ReadKeys, Written
  <2>2. op'[q].kind = op[q].kind
    BY DEF ReadKeys, TypeOK, Operation
  <2> QED
    BY <2>1, <2>2 DEF Writers
<1> QED
  BY <1>1, StepFrame DEF Written

LEMMA SignType ==
  ASSUME Typed, NEW z \in Zones, AgentSignZone(z)
  PROVE  Typed'
<1>0. TypeOK /\ Written /\ z \in Zone /\ zones[z] \in ZoneRow
  BY DEF Typed, TypeOK, Zones
<1>1. nRequests' \in Count /\ nRequests + 1 \in Count
  BY <1>0, DnsAssumption DEF TypeOK, AgentSignZone, Count
<1>2. \A type \in {"KSK", "ZSK"} : DnssecMaterial(z, type) \in Key
  BY <1>0, <1>1 DEF DnssecMaterial, Key
<1>3. \A signed \in {{}, {DnssecMaterial(z, "KSK"), DnssecMaterial(z, "ZSK")}} :
        [rev |-> zones[z].rev, keys |-> signed] \in Content
  BY <1>0, <1>2 DEF Content, ZoneRow
<1>4. files' \in [Zone -> Content \cup {None}]
  BY <1>0, <1>3 DEF AgentSignZone, TypeOK
<1> QED
  BY <1>0, <1>1, <1>4 DEF Typed, AgentSignZone, TypeOK, Written, rows

LEMMA NextTyped == Typed /\ [Next]_vars => Typed'
<1> SUFFICES ASSUME Typed, [Next]_vars PROVE Typed'
  OBVIOUS
<1>0. TypeOK /\ Written
  BY DEF Typed
<1>1. ASSUME NEW q \in Req, Request(q)
      PROVE  Typed'
  BY <1>1, RequestType
<1>2. ASSUME NEW q \in Req, Step(q)
      PROVE  Typed'
  <2>1. TypeOK'
    BY <1>0, <1>2, CommitType, RouteType, LoadType, AgentType, StatusType DEF Step
  <2> QED
    BY <1>0, <1>2, <2>1, StepWritten DEF Typed
<1>3. CASE UNCHANGED vars
  BY <1>0, <1>3 DEF Typed, TypeOK, Written, vars
<1> QED
  BY <1>1, <1>2, <1>3, SignType DEF Next, Waiting

\* The rows, the keys, the files, what named serves and the requests keep their
\* types.
THEOREM TypeCorrect == Spec => []TypeOK
<1>1. Init => Typed
  <2>1. Init => Written
    BY DEF Init, Written
  <2> QED
    BY <2>1, InitType DEF Typed
<1>2. Typed /\ [Next]_vars => Typed'
  BY NextTyped
<1>3. Typed => TypeOK
  BY DEF Typed
<1> QED
  BY <1>1, <1>2, <1>3, PTL DEF Spec

-----------------------------------------------------------------------------
(* A request that runs alone.                                                *)

LEMMA FinishSolo ==
  ASSUME TypeOK, NEW q \in Req, q = solo, NEW word, Finish(q, word)
  PROVE  /\ pc'[q] = "idle" /\ op'[q].told = word
         /\ op'[q].kind = op[q].kind /\ op'[q].types = op[q].types
         /\ op'[q].server = op[q].server /\ op'[q].zone = op[q].zone
<1>1. op[q] \in Operation
  BY DEF TypeOK
<1>2. op'[q] = [op[q] EXCEPT !.told = word, !.seen = None, !.retired = {}] /\ pc'[q] = "idle"
  BY DEF TypeOK, Finish, Close, Goto
<1> QED
  BY <1>1, <1>2 DEF Operation

\* What a step of a request has to show of it.
LEMMA SoloStep ==
  ASSUME TypeOK, SoloInv, NEW q \in Req, Step(q), q = solo => Phase(q)'
  PROVE  SoloInv'
<1>1. Alone'
  <2>1. Running' \subseteq Running
    BY StepFrame DEF Running
  <2> QED
    BY <2>1, StepFrame DEF SoloInv, Alone
<1>2. ASSUME NEW r \in Req, r = solo'
      PROVE  Phase(r)'
  <2>1. solo # None /\ solo' = solo
    BY <1>2, StepFrame, DnsAssumption
  <2>2. q \in Running
    BY StepFrame DEF Running
  <2>3. r = q
    BY <1>2, <2>1, <2>2 DEF SoloInv, Alone
  <2> QED
    BY <1>2, <2>1, <2>3
<1> QED
  BY <1>1, <1>2 DEF SoloInv

\* What an answer and a finish leave of a request's kind.
LEMMA KindStays ==
  ASSUME TypeOK, NEW q \in Req, Step(q), q = solo
  PROVE  op'[q].kind = op[q].kind
<1>0. op[q] \in Operation
  BY DEF TypeOK
<1>1. ASSUME NEW word, Finish(q, word)
      PROVE  op'[q].kind = op[q].kind
  BY <1>1, FinishSolo
<1>2. ASSUME NEW word, Reply(q, word)
      PROVE  op'[q].kind = op[q].kind
  BY <1>0, <1>2 DEF Reply, TypeOK, Operation
<1>3. ReadKeys(q) => op'[q].kind = op[q].kind
  BY <1>0 DEF ReadKeys, TypeOK, Operation
<1>4. op' = op => op'[q].kind = op[q].kind
  OBVIOUS
<1>5. \/ op' = op \/ ReadKeys(q) \/ (\E word : Finish(q, word)) \/ (\E word : Reply(q, word))
  BY DEF Step, Commit, Fail, AddSoa, Task, SessionFactoryBound, LoadZones, LoadContents,
         WriteFails, WriteAll, Unreached, ReloadBind, Status
<1> QED
  BY <1>1, <1>2, <1>3, <1>4, <1>5


-----------------------------------------------------------------------------
(* An apply that runs alone.                                                 *)

LEMMA WantedRow ==
  ASSUME TypeOK, NEW z \in Zone
  PROVE  /\ WantedZones[z] # None <=> z \in Zones /\ zones[z].server \in Enabled
         /\ WantedZones[z] # None => WantedZones[z] = zones[z] /\ zones[z] \in ZoneRow
BY NoRowAssumption DEF WantedZones, Zones, TypeOK

LEMMA LoadSolo ==
  ASSUME TypeOK, NEW q \in Req, ApplyPhase(q), LoadZones(q) \/ LoadContents(q)
  PROVE  ApplyPhase(q)'
<1>0. got[q] \in Payload
  BY DEF TypeOK
<1>1. CASE LoadZones(q)
  <2>1. got' = [got EXCEPT ![q].servers = Enabled, ![q].zones = WantedZones]
    BY <1>1 DEF LoadZones, WantedZones
  <2>2. got'[q].servers = Enabled /\ got'[q].zones = WantedZones
    BY <1>0, <2>1 DEF TypeOK, Payload
  <2>3. pc'[q] = "contents" /\ servers' = servers /\ zones' = zones
    BY <1>1 DEF LoadZones, Goto, TypeOK, rows
  <2>4. Enabled' = Enabled /\ WantedZones' = WantedZones
    BY <2>3 DEF Enabled, Servers, Zones, WantedZones
  <2> QED
    BY <2>2, <2>3, <2>4 DEF ApplyPhase
<1>2. CASE LoadContents(q)
  <2>1. /\ got[q].servers = Enabled /\ got[q].zones = WantedZones
    BY <1>2 DEF LoadContents, ApplyPhase
  <2>2. /\ pc'[q] = "agent" /\ servers' = servers /\ zones' = zones /\ keys' = keys
    BY <1>2 DEF LoadContents, Goto, TypeOK, rows
  <2>3. /\ Enabled' = Enabled /\ WantedZones' = WantedZones /\ Desired' = Desired
    BY <2>2 DEF Enabled, Servers, Zones, WantedZones, Desired, ContentOf, Active
  <2> DEFINE some == [z \in Zone |->
               IF z \in Chosen(q) THEN ContentOf(z, RowOf(q, z)) ELSE None]
             wanted == [z \in Zone |->
               IF WantedZones[z] # None THEN ContentOf(z, zones[z]) ELSE None]
             options == {<<s, servers[s].rev>> : s \in got[q].servers \cap Servers}
  <2>4. got' = [got EXCEPT ![q].contents = some, ![q].options = options]
    BY <1>2 DEF LoadContents
  <2>5. some = wanted
    <3> SUFFICES ASSUME NEW z \in Zone PROVE some[z] = wanted[z]
      OBVIOUS
    <3>1. z \in Chosen(q) <=> WantedZones[z] # None
      BY <2>1 DEF Chosen
    <3>2. ASSUME WantedZones[z] # None
          PROVE  ContentOf(z, RowOf(q, z)) = ContentOf(z, zones[z])
      <4>1. got[q].zones[z] = zones[z] /\ z \in Zones /\ zones[z] \in ZoneRow
        BY <2>1, <3>2, WantedRow
      <4>2. RowOf(q, z) = [zones[z] EXCEPT !.rev = zones[z].rev]
        BY <4>1 DEF RowOf
      <4>3. RowOf(q, z).rev = zones[z].rev /\ RowOf(q, z).signed = zones[z].signed
        BY <4>1, <4>2 DEF ZoneRow
      <4> QED
        BY <4>3 DEF ContentOf
    <3> QED
      BY <3>1, <3>2
  <2>6. options = Desired.options
    <3>1. got[q].servers \cap Servers = Enabled
      BY <2>1 DEF Enabled
    <3> QED
      BY <3>1 DEF Desired
  <2> HIDE DEF some, wanted, options
  <2>7. /\ got'[q].servers = Enabled /\ got'[q].zones = WantedZones
        /\ got'[q].contents = wanted /\ got'[q].options = Desired.options
    BY <1>0, <2>1, <2>4, <2>5, <2>6 DEF TypeOK, Payload
  <2>8. got'[q].contents = [z \in Zone |->
               IF WantedZones'[z] # None THEN ContentOf(z, zones[z])' ELSE None]
    BY <2>2, <2>3, <2>7 DEF wanted, ContentOf, Active
  <2> QED
    BY <2>2, <2>3, <2>7, <2>8 DEF ApplyPhase
<1> QED
  BY <1>1, <1>2

\* What named loads when a whole payload is written and nothing has changed.
LEMMA LoadsDesired ==
  ASSUME TypeOK, NEW q \in Req, ApplyPhase(q), pc[q] = "agent",
         files' = FilesWith(q, Wanted(q)),
         conf' = [zones |-> Wanted(q), options |-> got[q].options]
  PROVE  Loaded' = Desired
<1>1. /\ got[q].zones = WantedZones /\ got[q].options = Desired.options
      /\ got[q].contents = [z \in Zone |->
           IF WantedZones[z] # None THEN ContentOf(z, zones[z]) ELSE None]
  BY DEF ApplyPhase
<1>2. conf'.zones = Wanted(q) /\ conf'.options = Desired.options
  BY <1>1
<1>3. ASSUME NEW z \in Zone
      PROVE  (IF z \in Wanted(q) THEN files'[z] ELSE None) = Desired.zones[z]
  <2>1. z \in Wanted(q) <=> z \in Zones /\ zones[z].server \in Enabled /\ zones[z].enabled
    BY <1>1, WantedRow DEF Wanted, Chosen
  <2>2. z \in Wanted(q) => files'[z] = ContentOf(z, zones[z])
    BY <1>1, <2>1, WantedRow DEF FilesWith
  <2>3. Desired.zones[z] =
          IF z \in Zones /\ zones[z].server \in Enabled /\ zones[z].enabled
          THEN ContentOf(z, zones[z]) ELSE None
    BY DEF Desired
  <2> QED
    BY <2>1, <2>2, <2>3
<1>4. Loaded'.zones = Desired.zones
  BY <1>2, <1>3 DEF Loaded, Desired
<1>5. Loaded'.options = Desired.options
  BY <1>2 DEF Loaded
<1> QED
  BY <1>4, <1>5 DEF Loaded, Desired

LEMMA AgentSolo ==
  ASSUME TypeOK, NEW q \in Req, ApplyPhase(q), WriteFails(q) \/ WriteAll(q) \/ Unreached(q)
  PROVE  ApplyPhase(q)'
<1>0. op[q] \in Operation
  BY DEF TypeOK
<1>1. /\ pc[q] = "agent" /\ servers' = servers /\ zones' = zones /\ keys' = keys
  BY DEF ApplyPhase, WriteFails, WriteAll, Unreached, rows
<1>2. Desired' = Desired
  BY <1>1 DEF Enabled, Servers, Zones, Desired, ContentOf, Active
<1>3. ASSUME NEW word, Reply(q, word)
      PROVE  pc'[q] = "status" /\ op'[q].told = word
  BY <1>0, <1>3 DEF Reply, Goto, TypeOK, Operation
<1>4. ASSUME Reply(q, "error")
      PROVE  ApplyPhase(q)'
  BY <1>3, <1>4 DEF ApplyPhase
<1>5. ASSUME Reply(q, "ok"), WriteAll(q), served' = Loaded'
      PROVE  ApplyPhase(q)'
  <2>1. served' = Desired
    BY <1>1, <1>5, LoadsDesired DEF WriteAll
  <2>2. pc'[q] = "status" /\ op'[q].told = "ok"
    BY <1>3, <1>5
  <2> QED
    BY <1>2, <2>1, <2>2 DEF ApplyPhase
<1> QED
  BY <1>4, <1>5 DEF WriteFails, WriteAll, Unreached

LEMMA StatusSolo ==
  ASSUME TypeOK, NEW q \in Req, q = solo, op[q].kind = "apply", ApplyPhase(q), Status(q)
  PROVE  ApplyPhase(q)'
<1> DEFINE o == op[q]
           hit == IF o.told = "ok" \/ o.kind # "apply" THEN Server ELSE {o.server}
<1>1. /\ pc[q] = "status" /\ o.told \in {"ok", "error"}
      /\ o.told = "ok" => served = Desired
  BY DEF Status, ApplyPhase
<1>2. /\ pc'[q] = "idle" /\ op'[q].told = o.told /\ op'[q].server = o.server
  BY FinishSolo DEF Status
<1>3. /\ zones' = zones /\ keys' = keys /\ served' = served
      /\ servers' = [s \in Server |-> IF s \in hit \cap Servers
                                      THEN [servers[s] EXCEPT !.status = StatusOf(o.told)]
                                      ELSE servers[s]]
  BY DEF Status
<1>4. ASSUME NEW s \in Server
      PROVE  /\ servers[s] = None => servers'[s] = None
             /\ servers[s] # None =>
                  /\ servers'[s] # None /\ servers'[s].enabled = servers[s].enabled
                  /\ servers'[s].rev = servers[s].rev
                  /\ s = o.server => servers'[s].status = StatusOf(o.told)
  <2>1. servers[s] = None => servers'[s] = None
    BY <1>3 DEF Servers
  <2>2. ASSUME servers[s] # None
        PROVE  /\ servers'[s] # None /\ servers'[s].enabled = servers[s].enabled
               /\ servers'[s].rev = servers[s].rev
               /\ s = o.server => servers'[s].status = StatusOf(o.told)
    <3>1. servers[s] \in ServerRow /\ s \in Servers
      BY <2>2 DEF TypeOK, Servers
    <3>2. /\ [servers[s] EXCEPT !.status = StatusOf(o.told)] \in ServerRow
          /\ [servers[s] EXCEPT !.status = StatusOf(o.told)].status = StatusOf(o.told)
          /\ [servers[s] EXCEPT !.status = StatusOf(o.told)].rev = servers[s].rev
          /\ [servers[s] EXCEPT !.status = StatusOf(o.told)].enabled = servers[s].enabled
      BY <3>1 DEF ServerRow, StatusOf
    <3>3. s = o.server => s \in hit
      BY <1>1
    <3> QED
      BY <1>3, <2>2, <3>1, <3>2, <3>3, NoRowAssumption
  <2> QED
    BY <2>1, <2>2
<1>5. Servers' = Servers /\ Zones' = Zones
  BY <1>3, <1>4 DEF Servers, Zones
<1>6. Enabled' = Enabled
  BY <1>4, <1>5 DEF Enabled, Servers
<1>7. Desired' = Desired
  <2>1. Desired'.options = Desired.options
    <3>1. \A s \in Enabled : servers'[s].rev = servers[s].rev
      BY <1>4 DEF Enabled, Servers
    <3>2. Desired'.options = {<<s, servers'[s].rev>> : s \in Enabled}
      BY <1>6 DEF Desired
    <3> QED
      BY <3>1, <3>2 DEF Desired
  <2>2. Desired'.zones = Desired.zones
    BY <1>3, <1>5, <1>6 DEF Desired, ContentOf, Active
  <2> QED
    BY <2>1, <2>2 DEF Desired
<1>8. \A s \in Servers' : s = op'[q].server =>
        servers'[s].status = IF op'[q].told = "ok" THEN "running" ELSE "error"
  BY <1>2, <1>4, <1>5 DEF Servers, StatusOf
<1> HIDE DEF hit
<1> QED
  BY <1>1, <1>2, <1>3, <1>7, <1>8 DEF ApplyPhase


-----------------------------------------------------------------------------
(* A signing, an unsigning or a rollover that runs alone.                    *)

NewKey(q, type) == [id |-> op[q].n, zone |-> op[q].zone, type |-> type, active |-> TRUE]

\* Of the types that a request is about, the keys that were active are not, and
\* the new ones are.
LEMMA ActiveAfter ==
  ASSUME TypeOK, NEW q \in Req, NEW type \in op[q].types,
         op[q].retired = Active(op[q].zone, op[q].types)
  PROVE  {k \in Retire(q) \cup NewKeys(q) : k.zone = op[q].zone /\ k.type \in {type} /\ k.active}
           = IF op[q].kind = "unsign" THEN {} ELSE {NewKey(q, type)}
<1> DEFINE z == op[q].zone
           now == {k \in Retire(q) \cup NewKeys(q) : k.zone = z /\ k.type \in {type} /\ k.active}
<1>1. ASSUME NEW k \in Retire(q), k.zone = z, k.type = type, k.active
      PROVE  FALSE
  <2>1. PICK old \in keys :
          k = [old EXCEPT !.active = old.active /\ old \notin op[q].retired]
    BY <1>1 DEF Retire
  <2>2. old \in Key
    BY <2>1 DEF TypeOK
  <2>3. /\ k.zone = old.zone /\ k.type = old.type
        /\ k.active = (old.active /\ old \notin op[q].retired)
    BY <2>1, <2>2 DEF Key
  <2>4. old \in Active(z, op[q].types)
    BY <1>1, <2>1, <2>3 DEF Active
  <2> QED
    BY <1>1, <2>3, <2>4
<1>2. op[q].kind = "unsign" => NewKeys(q) = {}
  BY DEF NewKeys
<1>3. op[q].kind # "unsign" => NewKeys(q) = {NewKey(q, t) : t \in op[q].types}
  BY Zenon DEF NewKeys, NewKey
<1>4. CASE op[q].kind = "unsign"
  BY <1>1, <1>2, <1>4
<1>5. CASE op[q].kind # "unsign"
  <2>1. NewKey(q, type) \in now
    BY <1>3, <1>5 DEF NewKey
  <2>2. ASSUME NEW k \in now
        PROVE  k = NewKey(q, type)
    <3>1. k \in NewKeys(q) /\ k.type = type
      BY <1>1
    <3>2. PICK t \in op[q].types : k = NewKey(q, t)
      BY <1>3, <1>5, <3>1
    <3>3. k.type = t
      BY <3>2 DEF NewKey
    <3> QED
      BY <3>1, <3>2, <3>3
  <2> QED
    BY <1>5, <2>1, <2>2
<1> QED
  BY <1>4, <1>5

LEMMA CommitHeals ==
  ASSUME TypeOK, NEW q \in Req, op[q].kind \in KeyKinds, KeysPhase(q), Commit(q)
  PROVE  Healed(q)' /\ pc'[q] = "task"
<1> DEFINE o == op[q]
           z == o.zone
<1>1. pc[q] = "commit" /\ z \in Zone /\ o.seen = zones[z] /\ o.retired = Active(z, o.types)
  BY DEF Commit, KeysPhase
<1>2. z \in Zones /\ zones[z] \in ZoneRow
  BY DEF Commit, Writable, KeyKinds, Zones, TypeOK
<1>3. ZoneWritten(q) /\ Goto(q, "task") /\ op' = op
  BY DEF Commit, KeyKinds
<1>4. keys' = Retire(q) \cup NewKeys(q) /\ zones'[z] = ZoneSet(q)
  BY <1>2, <1>3 DEF ZoneWritten, KeyKinds, TypeOK, Zones
<1>5. ASSUME NEW type \in o.types
      PROVE  Active(z, {type})' = IF o.kind = "unsign" THEN {} ELSE {NewKey(q, type)}
  <2>1. Active(z, {type})' =
          {k \in Retire(q) \cup NewKeys(q) : k.zone = z /\ k.type \in {type} /\ k.active}
    BY <1>3, <1>4 DEF Active
  <2> QED
    BY <1>1, <2>1, ActiveAfter
<1>6. ASSUME NEW type \in o.types
      PROVE  Cardinality(Active(z, {type})') = IF o.kind = "unsign" THEN 0 ELSE 1
  BY <1>5, FS_EmptySet, FS_Singleton
<1>7. ASSUME o.kind # "unsign", "KSK" \in o.types
      PROVE  \A k \in Active(z, {"KSK"})' : zones'[z].ds = k.id
  <2>1. ZoneSet(q).ds = o.n
    <3>1. ZoneSet(q) = [zones[z] EXCEPT !.signed = Set(q, zones[z], "signed", TRUE), !.ds = o.n]
      BY <1>7 DEF ZoneSet, KeyKinds
    <3> QED
      BY <1>2, <3>1 DEF ZoneRow
  <2>2. \A k \in Active(z, {"KSK"})' : k.id = o.n
    BY <1>5, <1>7 DEF NewKey
  <2> QED
    BY <1>4, <2>1, <2>2
<1>8. ASSUME o.kind = "unsign"
      PROVE  zones'[z].ds = None
  <2>1. ZoneSet(q) = [zones[z] EXCEPT !.signed = Set(q, zones[z], "signed", FALSE),
                                      !.ds = Set(q, zones[z], "ds", None)]
    BY <1>8 DEF ZoneSet
  <2>2. Set(q, zones[z], "ds", None) = None
    BY <1>1 DEF Set
  <2> QED
    BY <1>2, <1>4, <2>1, <2>2 DEF ZoneRow
<1>9. Healed(q)'
  BY <1>3, <1>6, <1>7, <1>8 DEF Healed
<1>10. pc'[q] = "task"
  BY <1>3 DEF Goto, TypeOK
<1> QED
  BY <1>9, <1>10

LEMMA KeysSolo ==
  ASSUME TypeOK, NEW q \in Req, q = solo, op[q].kind \in KeyKinds, KeysPhase(q), Step(q)
  PROVE  KeysPhase(q)'
<1>0. op[q] \in Operation
  BY DEF TypeOK
<1>1. CASE ReadKeys(q)
  <2>1. /\ pc[q] = "keys" /\ pc'[q] = "commit" /\ zones' = zones /\ keys' = keys
        /\ op'[q].retired = Active(op[q].zone, op[q].types)
        /\ op'[q].zone = op[q].zone /\ op'[q].types = op[q].types /\ op'[q].seen = op[q].seen
    BY <1>0, <1>1 DEF ReadKeys, Goto, TypeOK, Operation, rows
  <2> QED
    BY <2>1 DEF KeysPhase, Active
<1>2. CASE Commit(q)
  BY <1>2, CommitHeals DEF KeysPhase
<1>3. CASE Fail(q)
  BY <1>3, FinishSolo DEF Fail, KeysPhase
<1>4. CASE Task(q)
  <2>1. Finish(q, "ok") /\ pc[q] = "task" /\ zones' = zones /\ keys' = keys
    BY <1>4 DEF Task, SessionFactoryBound, rows
  <2>2. Healed(q)
    BY <2>1 DEF KeysPhase
  <2>3. /\ pc'[q] = "idle" /\ op'[q].zone = op[q].zone /\ op'[q].types = op[q].types
        /\ op'[q].kind = op[q].kind
    BY <2>1, FinishSolo
  <2>4. Healed(q)'
    BY <2>1, <2>2, <2>3 DEF Healed, Active
  <2> QED
    BY <2>3, <2>4 DEF KeysPhase
<1>5. Step(q) => ReadKeys(q) \/ Commit(q) \/ Fail(q) \/ Task(q)
  BY DEF KeysPhase, Step, AddSoa, LoadZones, LoadContents, WriteFails, WriteAll, Unreached,
         ReloadBind, Status
<1> QED
  BY <1>1, <1>2, <1>3, <1>4, <1>5


-----------------------------------------------------------------------------
(* Every step.                                                               *)

LEMMA StepSolo ==
  ASSUME TypeOK, SoloInv, NEW q \in Req, Step(q)
  PROVE  SoloInv'
<1>1. ASSUME q = solo
      PROVE  Phase(q)'
  <2>1. Phase(q)
    BY <1>1 DEF SoloInv
  <2>2. op'[q].kind = op[q].kind
    BY <1>1, KindStays
  <2>3. ASSUME op[q].kind = "apply"
        PROVE  ApplyPhase(q)'
    <3>1. ApplyPhase(q)
      BY <2>1, <2>3 DEF Phase
    <3>2. \/ LoadZones(q) \/ LoadContents(q) \/ WriteFails(q) \/ WriteAll(q) \/ Unreached(q)
          \/ Status(q)
      BY <3>1 DEF ApplyPhase, Step, ReadKeys, Commit, Fail, AddSoa, Task, ReloadBind
    <3> QED
      BY <1>1, <2>3, <3>1, <3>2, LoadSolo, AgentSolo, StatusSolo
  <2>4. ASSUME op[q].kind \in KeyKinds
        PROVE  KeysPhase(q)'
    BY <1>1, <2>1, <2>4, KeysSolo DEF Phase
  <2> QED
    BY <2>2, <2>3, <2>4 DEF Phase
<1> QED
  BY <1>1, SoloStep

\* A request that begins.
LEMMA BeginSolo ==
  ASSUME TypeOK, SoloInv, NEW q \in Req, NEW o \in Operation, NEW stage, Begin(q, o, stage),
         o.kind = "apply" => stage = "zones",
         o.kind \in KeyKinds => stage = "keys" /\ o.zone \in Zone /\ o.seen = zones[o.zone]
  PROVE  SoloInv'
<1>1. /\ pc'[q] = stage /\ zones' = zones
      /\ op'[q] = [o EXCEPT !.n = nRequests + 1]
  BY DEF Begin, Goto, TypeOK, rows
<1>2. op'[q].kind = o.kind /\ op'[q].zone = o.zone /\ op'[q].seen = o.seen
  BY <1>1 DEF Operation
<1>3. solo' = IF Running = {} THEN q ELSE None
  BY DEF Begin
<1>4. Running' \subseteq Running \cup {q}
  BY DEF Begin, Goto, TypeOK, Running
<1>5. Alone'
  BY <1>3, <1>4 DEF Alone
<1>6. Phase(q)'
  BY <1>1, <1>2 DEF Phase, ApplyPhase, KeysPhase, KeyKinds
<1>7. ASSUME NEW r \in Req, r = solo'
      PROVE  r = q
  BY <1>3, <1>7, DnsAssumption
<1> QED
  BY <1>5, <1>6, <1>7 DEF SoloInv

LEMMA RequestSolo ==
  ASSUME TypeOK, SoloInv, NEW q \in Req, Request(q)
  PROVE  SoloInv'
<1>0. ASSUME NEW o \in Operation, NEW stage, Begin(q, o, stage),
             o.kind \notin {"apply"} \cup KeyKinds
      PROVE  SoloInv'
  BY <1>0, BeginSolo
<1>1. ASSUME NEW s \in Server, NEW on \in BOOLEAN, CreateServer(q, s, on)
      PROVE  SoloInv'
  <2> DEFINE o == [Rest EXCEPT !.kind = "serverAdd", !.server = s, !.enabled = on]
  <2>1. o \in Operation /\ o.kind = "serverAdd"
    BY RestType DEF Operation, Kind
  <2>2. Begin(q, o, "commit")
    BY <1>1 DEF CreateServer
  <2> HIDE DEF o
  <2> QED
    BY <1>0, <2>1, <2>2 DEF KeyKinds
<1>2. ASSUME NEW s \in Server, NEW kind \in Kind \ KeyKinds, NEW on \in BOOLEAN, NEW stage,
             OnServer(q, s, kind, on, stage), kind = "apply" => stage = "zones"
      PROVE  SoloInv'
  <2> DEFINE o == [Rest EXCEPT !.kind = kind, !.server = s, !.seen = servers[s],
                               !.enabled = on]
  <2>1. servers[s] \in ServerRow \cup {None}
    BY DEF TypeOK
  <2>2. o \in Operation /\ o.kind = kind
    BY <2>1, RestType DEF Operation
  <2>3. Begin(q, o, stage)
    BY <1>2 DEF OnServer
  <2> HIDE DEF o
  <2> QED
    BY <1>2, <2>2, <2>3, BeginSolo
<1>3. ASSUME NEW s \in Server, NEW on \in BOOLEAN, UpdateServer(q, s, on)
      PROVE  SoloInv'
  BY <1>2, <1>3 DEF UpdateServer, Kind, KeyKinds
<1>4. ASSUME NEW s \in Server, DeleteServer(q, s)
      PROVE  SoloInv'
  <2> DEFINE below == {z \in Zones : zones[z].server = s}
             o == [Rest EXCEPT !.kind = "serverDrop", !.server = s, !.below = below]
  <2>1. below \subseteq Zone
    BY DEF Zones
  <2>2. o \in Operation /\ o.kind = "serverDrop"
    BY <2>1, RestType DEF Operation, Kind
  <2>3. Begin(q, o, "commit")
    BY <1>4 DEF DeleteServer
  <2> HIDE DEF o
  <2> QED
    BY <1>0, <2>2, <2>3 DEF KeyKinds
<1>5. ASSUME NEW s \in Server, CreateTsigKey(q, s) \/ RotateTsigKey(q, s) \/ DeleteTsigKey(q, s)
      PROVE  SoloInv'
  <2>1. s \in Servers /\ OnServer(q, s, "serverSet", servers[s].enabled, "commit")
    BY <1>5 DEF CreateTsigKey, RotateTsigKey, DeleteTsigKey, ChangeTsigKey
  <2>2. servers[s].enabled \in BOOLEAN
    BY <2>1 DEF TypeOK, Servers, ServerRow
  <2> QED
    BY <1>2, <2>1, <2>2 DEF Kind, KeyKinds
<1>6. ASSUME NEW s \in Server, NEW action \in {"start", "stop", "apply", "reload"},
             ServerAction(q, s, action)
      PROVE  SoloInv'
  <2>1. action \in Kind \ KeyKinds /\ (action = "apply" => FirstStage(action) = "zones")
    BY DEF FirstStage, Kind, KeyKinds
  <2> QED
    BY <1>2, <1>6, <2>1 DEF ServerAction
<1>7. ASSUME NEW s \in Server, NEW z \in Zone, NEW kind \in {"zoneAdd", "reverseAdd"},
             NEW type \in {"master", "slave"}, NEW signed \in BOOLEAN,
             AddZone(q, s, z, kind, type, signed)
      PROVE  SoloInv'
  <2> DEFINE o == [Rest EXCEPT !.kind = kind, !.server = s, !.zone = z, !.type = type,
                           !.signed = signed]
  <2>1. o \in Operation /\ o.kind = kind
    BY RestType DEF Operation, Kind
  <2>2. Begin(q, o, "commit")
    BY <1>7 DEF AddZone
  <2> HIDE DEF o
  <2> QED
    BY <1>0, <2>1, <2>2 DEF KeyKinds
<1>8. ASSUME NEW s \in Server, NEW z \in Zone, NEW type \in {"master", "slave"},
             NEW signed \in BOOLEAN,
             CreateZone(q, s, z, type, signed) \/ CreateReverseZone(q, s, z)
      PROVE  SoloInv'
  BY <1>7, <1>8 DEF CreateZone, CreateReverseZone
<1>9. ASSUME NEW z \in Zone, NEW kind \in {"zoneDrop", "records"}, OnZone(q, z, kind, "commit")
      PROVE  SoloInv'
  <2> DEFINE o == [Rest EXCEPT !.kind = kind, !.zone = z, !.seen = zones[z]]
  <2>1. zones[z] \in ZoneRow \cup {None}
    BY DEF TypeOK
  <2>2. o \in Operation /\ o.kind = kind
    BY <2>1, RestType DEF Operation, Kind
  <2>3. Begin(q, o, "commit")
    BY <1>9 DEF OnZone
  <2> HIDE DEF o
  <2> QED
    BY <1>0, <2>2, <2>3 DEF KeyKinds
<1>10. ASSUME NEW z \in Zone,
             \/ DeleteZone(q, z) \/ CreateRecord(q, z) \/ BulkImportRecords(q, z)
             \/ CreatePtrRecord(q, z) \/ UpdateRecord(q, z) \/ DeleteRecord(q, z)
       PROVE SoloInv'
  BY <1>9, <1>10 DEF DeleteZone, CreateRecord, BulkImportRecords, CreatePtrRecord,
                     UpdateRecord, DeleteRecord
<1>11. ASSUME NEW z \in Zone, NEW on \in BOOLEAN, NEW signed \in BOOLEAN,
              UpdateZone(q, z, on, signed)
       PROVE  SoloInv'
  <2> DEFINE o == [Rest EXCEPT !.kind = "zoneSet", !.zone = z, !.seen = zones[z],
                           !.enabled = on, !.signed = signed]
  <2>1. zones[z] \in ZoneRow \cup {None}
    BY DEF TypeOK
  <2>2. o \in Operation /\ o.kind = "zoneSet"
    BY <2>1, RestType DEF Operation, Kind
  <2>3. Begin(q, o, "commit")
    BY <1>11 DEF UpdateZone
  <2> HIDE DEF o
  <2> QED
    BY <1>0, <2>2, <2>3 DEF KeyKinds
<1>12. ASSUME NEW z \in Zone, NEW kind \in KeyKinds, NEW types \in SUBSET {"KSK", "ZSK"},
              ChangeKeys(q, z, kind, types)
       PROVE  SoloInv'
  <2> DEFINE o == [Rest EXCEPT !.kind = kind, !.zone = z, !.seen = zones[z], !.types = types]
  <2>1. zones[z] \in ZoneRow \cup {None}
    BY DEF TypeOK
  <2>2. o \in Operation /\ o.kind = kind /\ o.zone = z /\ o.seen = zones[z]
    BY <2>1, RestType DEF Operation, Kind, KeyKinds
  <2>3. Begin(q, o, "keys")
    BY <1>12 DEF ChangeKeys
  <2> HIDE DEF o
  <2> QED
    BY <2>2, <2>3, BeginSolo DEF KeyKinds
<1>13. ASSUME NEW z \in Zone, NEW type \in {"KSK", "ZSK"},
              SignZone(q, z) \/ UnsignZone(q, z) \/ DnssecRollover(q, z, type)
       PROVE  SoloInv'
  BY <1>12, <1>13 DEF SignZone, UnsignZone, DnssecRollover, KeyKinds
<1> QED
  BY <1>1, <1>3, <1>4, <1>5, <1>6, <1>8, <1>10, <1>11, <1>13 DEF Request

LEMMA SoloNext == TypeOK /\ SoloInv /\ [Next]_vars => SoloInv'
<1> SUFFICES ASSUME TypeOK, SoloInv, [Next]_vars PROVE SoloInv'
  OBVIOUS
<1>1. CASE UNCHANGED <<servers, zones, keys, served, pc, op, got, solo>>
  <2>1. ASSUME NEW q \in Req, q = solo'
        PROVE  Phase(q)'
    <3>1. Phase(q)
      BY <1>1, <2>1 DEF SoloInv
    <3>2. op[q].kind = "apply" => ApplyPhase(q)'
      BY <1>1, <3>1 DEF Phase, ApplyPhase, WantedZones, Desired, Enabled, Servers,
                        Zones, ContentOf, Active
    <3>3. op[q].kind \in KeyKinds => KeysPhase(q)'
      BY <1>1, <3>1 DEF Phase, KeysPhase, Healed, Active
    <3> QED
      BY <1>1, <3>2, <3>3 DEF Phase
  <2> QED
    BY <1>1, <2>1 DEF SoloInv, Alone, Running
\* A signing of the agent's own is of files only.
<1>2. (\E z \in Zones : AgentSignZone(z)) \/ UNCHANGED vars =>
        UNCHANGED <<servers, zones, keys, served, pc, op, got, solo>>
  BY DEF AgentSignZone, rows, vars
<1> QED
  BY <1>1, <1>2, StepSolo, RequestSolo DEF Next, Waiting

LEMMA SoloCorrect == Spec => [](TypeOK /\ SoloInv)
<1>1. Init => SoloInv
  BY DnsAssumption DEF Init, SoloInv, Alone
<1>2. TypeOK /\ SoloInv /\ [Next]_vars => SoloInv'
  BY SoloNext
<1>3. Spec => []TypeOK
  BY TypeCorrect
<1> QED
  BY <1>1, <1>2, <1>3, PTL DEF Spec

\* An apply that ran alone and was told ok leaves named serving what the
\* database says of every zone and server, whatever half-written files and
\* failed reloads came before it; the server's status says which it was.
THEOREM AppliesCorrect == Spec => []AppliesAll
<1>1. TypeOK /\ SoloInv => AppliesAll
  <2> SUFFICES ASSUME TypeOK, SoloInv, NEW q \in Ended({"apply"})
               PROVE  /\ op[q].told = "ok" => served = Desired
                      /\ \A s \in Servers : s = op[q].server =>
                           servers[s].status = IF op[q].told = "ok" THEN "running" ELSE "error"
    BY DEF AppliesAll
  <2>1. q \in Req /\ q = solo /\ pc[q] = "idle" /\ op[q].kind = "apply"
    BY DEF Ended
  <2>2. ApplyPhase(q)
    BY <2>1 DEF SoloInv, Phase
  <2> QED
    BY <2>1, <2>2 DEF ApplyPhase
<1> QED
  BY <1>1, SoloCorrect, PTL

\* A signing, an unsigning or a rollover that ran alone leaves one active key
\* of each of its types, or none, whatever overlapping ones had left, and the
\* DS record is that of the active key-signing key.
THEOREM KeysCorrect == Spec => []KeysHeal
<1>1. TypeOK /\ SoloInv => KeysHeal
  <2> SUFFICES ASSUME TypeOK, SoloInv, NEW q \in Ended(KeyKinds), op[q].told = "ok"
               PROVE  Healed(q)
    BY DEF KeysHeal, KeyKinds
  <2>1. q \in Req /\ q = solo /\ pc[q] = "idle" /\ op[q].kind \in KeyKinds
    BY DEF Ended
  <2>2. KeysPhase(q)
    BY <2>1 DEF SoloInv, Phase
  <2> QED
    BY <2>1, <2>2 DEF KeysPhase
<1> QED
  BY <1>1, SoloCorrect, PTL

=============================================================================
