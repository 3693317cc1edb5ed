-------------------------------- MODULE Records --------------------------------
(***************************************************************************)
(* The gateway's records: instances, users, DHCP servers with their subnets *)
(* and what is in them, mail domains with their boxes and messages, and the *)
(* registry of language models with what uses them.  The routes read rows,  *)
(* check what is asked against what they read, write, log the change and    *)
(* read the row again; every await between these lets other requests in,    *)
(* and nothing is locked.                                                   *)
(*                                                                          *)
(* A row has a parent and columns.  The columns are those that a route      *)
(* checks against each other or against other rows, and `fit': whether the  *)
(* others have values that the row's response takes.  A PATCH may set any   *)
(* of them to null, or a name to the empty one.  An UPDATE has only the     *)
(* columns that differ from what the session has read.                      *)
(***************************************************************************)
EXTENDS Naturals, Functions

CONSTANTS
  Req,                                  \* requests
  Instance, User, Server, Subnet, Leaf, \* row ids; Leaf: pools, reservations
  Domain, Mailbox, Alias, Message,      \*   and options
  Provider, Model, Config,              \* of language models; Config: of a use case
  Name, Time, Action,                   \* names, lease times, what to do with a mail
  None,
  MaxRequests                           \* bound of a behaviour

Id == Instance \cup User \cup Server \cup Subnet \cup Leaf \cup Domain \cup Mailbox \cup Alias
      \cup Message \cup Provider \cup Model \cup Config

ASSUME RecordsAssumption ==
  /\ Time \subseteq Nat /\ Time # {} /\ Name # {} /\ MaxRequests \in Nat
  /\ None \notin Req \cup Id
  /\ Action \cap {"pending", "classified"} = {}
  /\ {} \notin {Instance, User, Server, Subnet, Domain, Message, Provider, Model, Config}

\* An id is of one kind.
Kinds == <<Instance, User, Server, Subnet, Leaf, Domain, Mailbox, Alias, Message, Provider,
           Model, Config>>
ASSUME KindsAssumption == \A k, l \in DOMAIN Kinds : k # l => Kinds[k] \cap Kinds[l] = {}

NoWrite == [c \in {} |-> None]

Family == {"v4", "v6"}
InstanceRow == [status : {"inactive", "active"}, fit : BOOLEAN]
\* Users and language models.
NamedRow == [name : Name]
ServerRow == [v4 : BOOLEAN, v6 : BOOLEAN, ha : BOOLEAN, peer : BOOLEAN, fit : BOOLEAN]
SubnetRow == [type : Family, min : Time, default : Time, max : Time, fit : BOOLEAN]
LeafRow == [type : Family, fit : BOOLEAN]
\* Classification on or off; forwarding, and whether there is a host for it.
DomainRow == [name : Name, llm : BOOLEAN, forward : BOOLEAN, host : BOOLEAN, fit : BOOLEAN]
BoxRow == [name : Name, fit : BOOLEAN]
ProviderRow == [fit : BOOLEAN]
\* A use case may have a provider and a model; nothing makes the model its provider's.
ConfigRow == [name : Name, provider : Provider \cup {None}, model : Model \cup {None},
              fit : BOOLEAN]
MessageRow == [status : {"pending", "classified"} \cup Action, action : {"pending"} \cup Action]

Columns(i) ==
  CASE i \in Instance -> InstanceRow [] i \in User \cup Model -> NamedRow
    [] i \in Server -> ServerRow [] i \in Subnet -> SubnetRow [] i \in Leaf -> LeafRow
    [] i \in Domain -> DomainRow [] i \in Mailbox \cup Alias -> BoxRow
    [] i \in Provider -> ProviderRow [] i \in Config -> ConfigRow [] OTHER -> MessageRow
Parents(i) ==
  CASE i \in Instance \cup User \cup Provider \cup Config -> {None} [] i \in Server \cup Domain -> Instance
    [] i \in Subnet -> Server [] i \in Leaf -> Subnet [] i \in Model -> Provider
    [] OTHER -> Domain
Row(i) == [up : Parents(i), col : Columns(i)]
ASSUME RowAssumption == \A i \in Id : None \notin Row(i)

VARIABLES
  rows,        \* the rows: id -> [up, col], None if there is none
  used,        \* ids are not given twice
  pc, op,      \* where each request is, and what it does
  solo,        \* history: the last request, if it ran beside no other
  changed,     \* history: it has changed some row
  overlapped,  \* history: two requests have run at the same time
  nRequests

vars == <<rows, used, pc, op, solo, changed, overlapped, nRequests>>
history == <<solo, changed, overlapped>>

Kind == {"create", "update", "delete", "action", "classify", "sync"}
Rest == [kind |-> "update", id |-> None, up |-> None, seen |-> NoWrite,
         write |-> NoWrite, loaded |-> {}, told |-> "nothing"]

Rows == {i \in Id : rows[i] # None}
Below(i) == {j \in Rows : rows[j].up = i}
BelowAll(i) == Below(i) \cup UNION {Below(j) : j \in Below(i)}
Running == {q \in Req : pc[q] # "idle"}

TypeOK ==
  /\ DOMAIN rows = Id /\ Rows \subseteq used /\ used \subseteq Id
  /\ \A i \in Rows : rows[i] \in Row(i)
  /\ pc \in [Req -> {"idle", "check", "model", "commit", "after"}]
  /\ \A q \in Req :
       /\ op[q].kind \in Kind /\ op[q].id \in Id \cup {None} /\ op[q].up \in Id \cup {None}
       /\ op[q].loaded \subseteq Id /\ op[q].told \in {"nothing", "ok", "error"}
  /\ solo \in Req \cup {None} /\ changed \in BOOLEAN /\ overlapped \in BOOLEAN
  /\ nRequests \in 0 .. MaxRequests

Put(f, w) == [c \in DOMAIN f |-> IF c \in DOMAIN w THEN w[c] ELSE f[c]]

\* What the routes require of the columns of one row.
Valid(col) ==
  /\ {"v4", "v6"} \subseteq DOMAIN col => (col.v4 \/ col.v6) /\ (col.ha => col.peer)
  /\ "min" \in DOMAIN col => col.min <= col.default /\ col.default <= col.max
  /\ "host" \in DOMAIN col => (col.forward => col.host)

\* Rows as they are created, within the bounds of the model: further settings
\* come by updates.
NewInstance(status) == [status |-> status, fit |-> TRUE]
NewServer(v4, v6) == [v4 |-> v4, v6 |-> v6, ha |-> FALSE, peer |-> FALSE, fit |-> TRUE]
NewSubnet(type) == LET t == CHOOSE x \in Time : TRUE
                   IN [type |-> type, min |-> t, default |-> t, max |-> t, fit |-> TRUE]
NewDomain(name) == [name |-> name, llm |-> TRUE, forward |-> FALSE, host |-> FALSE, fit |-> TRUE]
NewBox(name) == [name |-> name, fit |-> TRUE]
NewConfig(name, p, o) == [name |-> name, provider |-> p, model |-> o, fit |-> TRUE]

\* An instance with a DHCP server that has a subnet, and a mail domain with a
\* message; a provider with a model and a use case of its.
Init ==
  /\ LET i == CHOOSE x \in Instance : TRUE  u == CHOOSE x \in User : TRUE
         s == CHOOSE x \in Server : TRUE    n == CHOOSE x \in Subnet : TRUE
         d == CHOOSE x \in Domain : TRUE    m == CHOOSE x \in Message : TRUE
         p == CHOOSE x \in Provider : TRUE  o == CHOOSE x \in Model : TRUE
         c == CHOOSE x \in Config : TRUE    name == CHOOSE x \in Name : TRUE
     IN  rows = [j \in Id |->
           CASE j = i -> [up |-> None, col |-> NewInstance("active")]
             [] j = u -> [up |-> None, col |-> [name |-> name]]
             [] j = s -> [up |-> i, col |-> NewServer(TRUE, TRUE)]
             [] j = n -> [up |-> s, col |-> NewSubnet("v4")]
             [] j = d -> [up |-> i, col |-> NewDomain(name)]
             [] j = m -> [up |-> d, col |-> [status |-> "pending", action |-> "pending"]]
             [] j = p -> [up |-> None, col |-> [fit |-> TRUE]]
             [] j = o -> [up |-> p, col |-> [name |-> name]]
             [] j = c -> [up |-> None, col |-> NewConfig(name, p, o)]
             [] OTHER -> None]
  /\ used = Rows
  /\ pc = [q \in Req |-> "idle"] /\ op = [q \in Req |-> Rest]
  /\ solo = None /\ changed = FALSE /\ overlapped = FALSE /\ nRequests = 0

Goto(q, stage) == pc' = [pc EXCEPT ![q] = stage]

-----------------------------------------------------------------------------
(* The routes, as far as their first await after the row they are about has *)
(* been read: 404 if there is none, and what was read is checked.           *)

Begin(q, o, stage) ==
  /\ nRequests' = nRequests + 1 /\ Goto(q, stage)
  /\ op' = [r \in Req |-> IF r = q THEN o ELSE IF pc[r] = "idle" THEN Rest ELSE op[r]]
  /\ solo' = IF Running = {} THEN q ELSE None
  /\ changed' = FALSE
  /\ overlapped' = (overlapped \/ Running # {})
  /\ used' = used \cup (IF o.kind = "create" THEN {o.id} ELSE {}) /\ UNCHANGED rows

\* Ids are taken from a sequence, and are gone if the row is not written after all.
Fresh(i) ==
  LET T == CHOOSE S \in Range(Kinds) : i \in S
  IN i \notin used /\ i = CHOOSE x \in T : x \notin used

Create(q, i, up, col, stage) ==
  /\ Fresh(i) /\ up \in Rows \cup {None} /\ Valid(col)
  /\ Begin(q, [Rest EXCEPT !.kind = "create", !.id = i, !.up = up, !.write = col], stage)

BrokenEffective(i, write) == rows[i].col
\* The row as it would be: what is given, and what was read.
Effective(i, write) == Put(rows[i].col, write)

Update(q, i, write, stage) ==
  /\ i \in Rows /\ Valid(Effective(i, write))
  /\ Begin(q, [Rest EXCEPT !.id = i, !.write = write, !.seen = rows[i].col], stage)

Delete(q, i, stage) ==
  /\ i \in Rows
  /\ Begin(q, [Rest EXCEPT !.kind = "delete", !.id = i, !.seen = rows[i].col], stage)

\* Requests that give one column or two.  A switch set to null is off, and unfit.
Patch(columns, values) == UNION {[{c, d} -> values] : c, d \in columns}
\* Requests that give columns that no route checks: a null or an empty name makes the
\* row unfit, a value for the last of these makes it fit again.
Others == {NoWrite} \cup [{"fit"} -> BOOLEAN]

CreateInstance(q, i) == Create(q, i, None, NewInstance("inactive"), "commit")
UpdateInstance(q, i, write) == i \in Instance /\ Update(q, i, write, "commit")
DeleteInstance(q, i) == i \in Instance /\ Delete(q, i, "commit")
Heartbeat(q, i) == i \in Instance /\ Update(q, i, [status |-> "active"], "commit")

CreateUser(q, i, name) == Create(q, i, None, [name |-> name], "check")
UpdateUser(q, i) == i \in User /\ Update(q, i, NoWrite, "commit")
DeleteUser(q, i) == i \in User /\ Delete(q, i, "commit")
\* Nothing is logged, and the row is not read again.
ChangePassword(q, i) ==
  /\ i \in User \cap Rows
  /\ Begin(q, [Rest EXCEPT !.kind = "action", !.id = i, !.seen = rows[i].col], "commit")

CreateServer(q, i, up, col) == up \in Instance /\ Create(q, i, up, col, "commit")
\* The subnets are looked at when a family is switched off.
UpdateServer(q, i, write) ==
  /\ i \in Server \cap Rows
  /\ Update(q, i, write, IF \E f \in Family \cap DOMAIN write : rows[i].col[f] /\ ~write[f]
                         THEN "check" ELSE "commit")
\* Its status alone is set, and nothing is checked.
ServerAction(q, i) ==
  /\ i \in Server \cap Rows
  /\ Begin(q, [Rest EXCEPT !.kind = "action", !.id = i, !.seen = rows[i].col], "commit")
DeleteServer(q, i) == i \in Server /\ Delete(q, i, "check")

CreateSubnet(q, i, up, col) ==
  /\ up \in Server \cap Rows /\ rows[up].col[col.type]
  /\ Create(q, i, up, col, "commit")
UpdateSubnet(q, i, write) == i \in Subnet /\ Update(q, i, write, "commit")
DeleteSubnet(q, i) == i \in Subnet /\ Delete(q, i, "check")

CreateLeaf(q, i, up, type) ==
  /\ up \in Subnet \cap Rows /\ rows[up].col.type = type
  /\ Create(q, i, up, [type |-> type, fit |-> TRUE], "commit")
CreatePool(q, i, up, type) == CreateLeaf(q, i, up, type)
CreateReservation(q, i, up, type) == CreateLeaf(q, i, up, type)
CreateOption(q, i, up, type) == CreateLeaf(q, i, up, type)
UpdateLeaf(q, i, write) == i \in Leaf /\ Update(q, i, write, "commit")
UpdatePool(q, i, write) == UpdateLeaf(q, i, write)
UpdateReservation(q, i, write) == UpdateLeaf(q, i, write)
UpdateOption(q, i, write) == UpdateLeaf(q, i, write)
DeleteLeaf(q, i) == i \in Leaf /\ Delete(q, i, "commit")
DeletePool(q, i) == DeleteLeaf(q, i)
DeleteReservation(q, i) == DeleteLeaf(q, i)
DeleteOption(q, i) == DeleteLeaf(q, i)

CreateDomain(q, i, up, col) == up \in Instance /\ Create(q, i, up, col, "check")
\* The classification's settings are changed inside the object that was read,
\* which is not a change of the column: they are never written.
UpdateDomain(q, i, write) == i \in Domain /\ Update(q, i, write, "commit")
DeleteDomain(q, i) == i \in Domain /\ Delete(q, i, "commit")
EnableGroupware(q, i) == i \in Domain /\ Update(q, i, NoWrite, "commit")
DisableGroupware(q, i) == i \in Domain /\ Update(q, i, NoWrite, "commit")

CreateMailUser(q, i, up, name) == up \in Domain /\ Create(q, i, up, NewBox(name), "check")
CreateAlias(q, i, up, name) == up \in Domain /\ Create(q, i, up, NewBox(name), "check")
UpdateMailUser(q, i, write) == i \in Mailbox /\ Update(q, i, write, "commit")
\* The other aliases are looked at when a source is given.
UpdateAlias(q, i, write) ==
  i \in Alias /\ Update(q, i, write, IF "name" \in DOMAIN write THEN "check" ELSE "commit")
DeleteMailUser(q, i) == i \in Mailbox /\ Delete(q, i, "commit")
DeleteAlias(q, i) == i \in Alias /\ Delete(q, i, "commit")

ClassifyInbound(q, i, up) ==
  /\ up \in Domain
  /\ Create(q, i, up, [status |-> "pending", action |-> "pending"],
            IF up \in Rows /\ rows[up].col.llm THEN "model" ELSE "commit")
\* 400 if classification is off.
ReclassifyMessage(q, i) ==
  /\ i \in Message \cap Rows /\ rows[rows[i].up].col.llm
  /\ Begin(q, [Rest EXCEPT !.kind = "classify", !.id = i, !.seen = rows[i].col], "model")
MessageAction(q, i, action) ==
  i \in Message /\ Update(q, i, [status |-> action, action |-> action], "commit")

CreateProvider(q, i) == Create(q, i, None, [fit |-> TRUE], "commit")
UpdateProvider(q, i, write) == i \in Provider /\ Update(q, i, write, "commit")
\* Its models are loaded first: they go with it.
DeleteProvider(q, i) == i \in Provider /\ Delete(q, i, "check")
CreateModel(q, i, up, name) == up \in Provider /\ Create(q, i, up, [name |-> name], "commit")
UpdateModel(q, i, name) == i \in Model /\ Update(q, i, [name |-> name], "commit")
DeleteModel(q, i) == i \in Model /\ Delete(q, i, "commit")
\* The provider is asked for its models before the rows are read.
SyncProviderModels(q, i) ==
  /\ i \in Provider \cap Rows
  /\ Begin(q, [Rest EXCEPT !.kind = "sync", !.id = i], "model")
CreateConfig(q, i, name) == Create(q, i, None, NewConfig(name, None, None), "commit")
UpdateConfig(q, i, write) == i \in Config /\ Update(q, i, write, "commit")
DeleteConfig(q, i) == i \in Config /\ Delete(q, i, "commit")

-----------------------------------------------------------------------------
(* The rest of a request.                                                   *)

\* What is kept of a finished request is what it was, if it ran alone.
Finish(q, word) ==
  /\ Goto(q, "idle")
  /\ op' = [op EXCEPT ![q] = IF solo = q THEN [@ EXCEPT !.told = word] ELSE Rest]

BrokenRefused(q) ==
  \E n \in Below(op[q].id) : rows[n].col.type = "v4" /\ ~Put(op[q].seen, op[q].write).v4
\* Some subnet is of a family that would be off.
Refused(q) ==
  \E n \in Below(op[q].id) : ~Put(op[q].seen, op[q].write)[rows[n].col.type]

\* The rows beside it that have the name asked for.
Table(i) == CHOOSE T \in {User, Domain, Mailbox, Alias} : i \in T
Namesakes(q) ==
  {j \in (Rows \cap Table(op[q].id)) \ {op[q].id} :
     rows[j].col.name = op[q].write.name /\
     rows[j].up = (IF op[q].id \in Rows THEN rows[op[q].id] ELSE op[q]).up}

\* The names of a provider's models in the registry.
ModelNames(i) == {rows[o].col.name : o \in Model \cap Below(i)}

\* The names of models that the provider has and the registry has not.
Missing(q) ==
  LET new == DOMAIN op[q].seen \ ModelNames(op[q].id) IN
  IF new = {} THEN Finish(q, "ok")
  ELSE Goto(q, "commit") /\ op' = [op EXCEPT ![q].write = [n \in new |-> n]]

\* The second read.  Two rows of a name are an error too, where one is expected.
Check(q) ==
  LET i == op[q].id IN
  /\ pc[q] = "check" /\ UNCHANGED <<rows, used, history, nRequests>>
  /\ \/ op[q].kind = "sync" /\ Missing(q)
     \/ /\ op[q].kind = "delete" /\ Goto(q, "commit")
        /\ op' = [op EXCEPT ![q].loaded = BelowAll(i)]
     \/ /\ op[q].kind # "delete" /\ i \in Server
        /\ IF Refused(q) THEN Finish(q, "error") ELSE Goto(q, "commit") /\ UNCHANGED op
     \/ /\ op[q].kind \notin {"delete", "sync"} /\ i \notin Server
        /\ IF Namesakes(q) # {} THEN Finish(q, "error") ELSE Goto(q, "commit") /\ UNCHANGED op

Verdict(a) == [status |-> "classified", action |-> a]

\* The language model's answer, or none: an inbound message is kept.  Only the
\* client's own errors count as no answer: any other, as of a malformed reply, ends
\* the request, and nothing is kept.
Classified(q) ==
  /\ pc[q] = "model" /\ op[q].kind # "sync" /\ UNCHANGED <<rows, used, history, nRequests>>
  /\ \/ /\ \E a \in Action :
             op' = [op EXCEPT ![q].write = Verdict(a)]
        /\ Goto(q, "commit")
     \/ /\ op[q].kind = "create" /\ Goto(q, "commit") /\ UNCHANGED op
     \/ Finish(q, "error")

\* The provider's answer, or 502.
Discovered(q) ==
  /\ pc[q] = "model" /\ op[q].kind = "sync" /\ UNCHANGED <<rows, used, history, nRequests>>
  /\ \/ /\ \E names \in SUBSET Name : op' = [op EXCEPT ![q].seen = [n \in names |-> n]]
        /\ Goto(q, "check")
     \/ Finish(q, "error")

Emitted(q) ==
  LET w == op[q].write IN
  [c \in {d \in DOMAIN w : w[d] # op[q].seen[d]} |-> w[c]]

\* What goes with a row: as loaded by the session, or what the database finds for mail.
Deleted(q) ==
  {op[q].id} \cup IF op[q].id \in Domain THEN BelowAll(op[q].id) ELSE op[q].loaded

\* A use case loses what it refers to.
Released(row, gone) ==
  IF row = None \/ "provider" \notin DOMAIN row.col THEN row
  ELSE [row EXCEPT !.col.provider = IF @ \in gone THEN None ELSE @,
                   !.col.model = IF @ \in gone THEN None ELSE @]

\* An UPDATE that finds no row changes none.
Amended(row, w) == IF row = None THEN None ELSE [row EXCEPT !.col = Put(@, w)]

\* Ids for new models, of each name one.
NewIds(names) == Injection(names, Model \ used)

\* Foreign keys and unique columns hold, there are ids, and an UPDATE finds its row, or 500.
Allowed(q) ==
  LET i == op[q].id IN
  CASE op[q].kind = "create" ->
         /\ op[q].up \in Rows \cup {None}
         /\ \A T \in {User, Config} :
              i \in T => \A j \in T \cap Rows : rows[j].col.name # op[q].write.name
    [] op[q].kind = "sync" -> i \in Rows /\ NewIds(DOMAIN op[q].write) # {}
    [] op[q].kind = "delete" ->
         LET gone == Deleted(q) IN \A j \in Rows : rows[j].up \in gone => j \in gone
    [] OTHER ->
         /\ DOMAIN Emitted(q) = {} \/ i \in Rows
         /\ i \in Config => \A c \in DOMAIN Emitted(q) :
              IF c = "name" THEN \A j \in Config \cap Rows : rows[j].col.name # Emitted(q).name
                            ELSE Emitted(q)[c] \in Rows \cup {None}

\* The rows that are added.
Inserted(q) ==
  IF op[q].kind = "create"
    THEN [j \in {op[q].id} |-> [up |-> op[q].up, col |-> op[q].write]]
  ELSE IF op[q].kind = "sync" THEN
    LET names == DOMAIN op[q].write
        id == CHOOSE f \in NewIds(names) : TRUE
        name(o) == CHOOSE n \in names : id[n] = o
    IN [o \in {id[n] : n \in names} |-> [up |-> op[q].id, col |-> [name |-> name(o)]]]
  ELSE NoWrite

\* Log entries, which are not kept here, may hold an instance or a user.  Some columns
\* take no null: the UPDATE fails.
Commit(q) ==
  LET i == op[q].id  new == Inserted(q) IN
  /\ pc[q] = "commit"
  /\ \/ /\ Allowed(q) /\ Goto(q, "after") /\ UNCHANGED op
        /\ rows' = CASE op[q].kind \in {"create", "sync"} ->
                          [j \in Id |-> IF j \in DOMAIN new THEN new[j] ELSE rows[j]]
                     [] op[q].kind = "delete" ->
                          LET gone == Deleted(q)
                          IN [j \in Id |-> IF j \in gone THEN None ELSE Released(rows[j], gone)]
                     [] OTHER ->
                          [rows EXCEPT ![i] = Amended(@, Emitted(q))]
        /\ used' = used \cup DOMAIN new /\ changed' = (solo = q)
     \/ /\ ~Allowed(q) \/ (op[q].kind = "delete" /\ i \in Instance \cup User) \/ op[q].kind = "update"
        /\ Finish(q, "error") /\ UNCHANGED <<rows, used, changed>>
  /\ UNCHANGED <<solo, overlapped, nRequests>>

\* users.py has no log_audit, and no name `user_id': its routes die here.  The log
\* entry of a deleted instance would refer to it.
LogsChange(q) ==
  /\ op[q].id \in User => op[q].kind = "action"
  /\ ~(op[q].id \in Instance /\ op[q].kind = "delete")

BrokenThere(q) == op[q].id \in Rows
\* The row is read again, unless it was to go.
There(q) ==
  \/ op[q].kind \in {"delete", "sync"} \/ (op[q].kind = "action" /\ op[q].id \in User)
  \/ op[q].kind = "create" /\ op[q].id \in Message
  \/ op[q].id \in Rows

\* A row that its response does not take.
Unfit(i) == i \in Rows /\ "fit" \in DOMAIN rows[i].col /\ ~rows[i].col.fit

\* The response is the row as it is now, but for the heartbeat's, which has no part of it.
Answers(q) ==
  Unfit(op[q].id) =>
    \/ op[q].kind \notin {"create", "update"}
    \/ op[q].kind = "update" /\ "status" \in DOMAIN op[q].write

After(q) ==
  /\ pc[q] = "after"
  /\ Finish(q, IF LogsChange(q) /\ There(q) /\ Answers(q) THEN "ok" ELSE "error")
  /\ UNCHANGED <<rows, used, history, nRequests>>

-----------------------------------------------------------------------------
Dhcp(q) ==
  \/ \E i \in Server :
       \/ \E up \in Instance, v6 \in BOOLEAN : CreateServer(q, i, up, NewServer(TRUE, v6))
       \/ \E w \in Patch({"v4", "v6", "ha", "peer", "fit"}, BOOLEAN) : UpdateServer(q, i, w)
       \/ DeleteServer(q, i) \/ ServerAction(q, i)
  \/ \E i \in Subnet :
       \/ \E up \in Server, type \in Family : CreateSubnet(q, i, up, NewSubnet(type))
       \/ \E w \in Patch({"min", "default", "max"}, Time) \cup Others : UpdateSubnet(q, i, w)
       \/ DeleteSubnet(q, i)
  \/ \E i \in Leaf :
       \/ \E up \in Subnet, type \in Family :
            CreatePool(q, i, up, type) \/ CreateReservation(q, i, up, type) \/ CreateOption(q, i, up, type)
       \/ \E w \in Others : UpdatePool(q, i, w) \/ UpdateReservation(q, i, w) \/ UpdateOption(q, i, w)
       \/ DeletePool(q, i) \/ DeleteReservation(q, i) \/ DeleteOption(q, i)

Mail(q) ==
  \/ \E i \in Domain :
       \/ \E up \in Instance, name \in Name : CreateDomain(q, i, up, NewDomain(name))
       \/ \E w \in Patch({"llm", "forward", "host", "fit"}, BOOLEAN) : UpdateDomain(q, i, w)
       \/ DeleteDomain(q, i) \/ EnableGroupware(q, i) \/ DisableGroupware(q, i)
  \/ \E i \in Mailbox :
       \/ \E up \in Domain, name \in Name : CreateMailUser(q, i, up, name)
       \/ \E w \in Others : UpdateMailUser(q, i, w)
       \/ DeleteMailUser(q, i)
  \/ \E i \in Alias :
       \/ \E up \in Domain, name \in Name : CreateAlias(q, i, up, name)
       \/ \E w \in [{"name"} -> Name] \cup Others : UpdateAlias(q, i, w)
       \/ DeleteAlias(q, i)
  \/ \E i \in Message :
       \/ \E up \in Domain : ClassifyInbound(q, i, up)
       \/ ReclassifyMessage(q, i)
       \/ \E a \in Action : MessageAction(q, i, a)

Accounts(q) ==
  \/ \E i \in Instance :
       \/ CreateInstance(q, i) \/ DeleteInstance(q, i) \/ Heartbeat(q, i)
       \/ \E w \in Others : UpdateInstance(q, i, w)
  \/ \E i \in User :
       UpdateUser(q, i) \/ DeleteUser(q, i) \/ ChangePassword(q, i) \/ \E name \in Name : CreateUser(q, i, name)

Llm(q) ==
  \/ \E i \in Provider :
       \/ CreateProvider(q, i) \/ DeleteProvider(q, i) \/ SyncProviderModels(q, i)
       \/ \E w \in Others : UpdateProvider(q, i, w)
  \/ \E i \in Model :
       \/ \E name \in Name : UpdateModel(q, i, name) \/ \E up \in Provider : CreateModel(q, i, up, name)
       \/ DeleteModel(q, i)
  \/ \E i \in Config :
       \/ \E name \in Name : CreateConfig(q, i, name) \/ UpdateConfig(q, i, [name |-> name])
       \/ \E w \in Others : UpdateConfig(q, i, w)
       \/ \E p \in Provider \cup {None} : UpdateConfig(q, i, [provider |-> p])
       \/ \E o \in Model \cup {None} : UpdateConfig(q, i, [model |-> o])
       \/ DeleteConfig(q, i)

Step(q) == Check(q) \/ Classified(q) \/ Discovered(q) \/ Commit(q) \/ After(q)

Waiting == Running = {} /\ UNCHANGED vars

Next ==
  \/ \E q \in Req :
       \/ pc[q] = "idle" /\ nRequests < MaxRequests /\ (Dhcp(q) \/ Mail(q) \/ Accounts(q) \/ Llm(q))
       \/ Step(q)
  \/ Waiting

Spec == Init /\ [][Next]_vars

-----------------------------------------------------------------------------
(* Properties.                                                              *)

Ended == {q \in {solo} \cap Req : pc[q] = "idle"}

\* Races leave rows that no route would have accepted: a lease window that is
\* upside down, no family at all, forwarding without a host, a message that is
\* in one state and was dealt with in another.  The next request that changes
\* such a row alone refuses or leaves it in order.  Syncs that overtook each other
\* leave models twice or not at all: one that runs alone leaves none out.
Coherent(col) ==
  CASE col.status = "pending" -> col.action = "pending"
    [] col.status = "classified" -> col.action # "pending"
    [] OTHER -> col.action = col.status
Heals ==
  \A q \in Ended : op[q].told = "ok" /\ op[q].id \in Rows /\ op[q].kind \notin {"delete", "action"} =>
    LET i == op[q].id IN
    /\ Valid(rows[i].col)
    /\ i \in Message => Coherent(rows[i].col)
    /\ op[q].kind = "sync" => DOMAIN op[q].seen \subseteq ModelNames(i)

\* One request at a time, no subnet is left without its family, its contents are
\* of its family, and no two boxes of a domain or domains of an instance have
\* one name.
OneByOne ==
  ~overlapped =>
    /\ \A n \in Subnet \cap Rows : rows[rows[n].up].col[rows[n].col.type]
    /\ \A l \in Leaf \cap Rows : rows[l].col.type = rows[rows[l].up].col.type
    /\ \A T \in {Domain, Mailbox, Alias} : \A i, j \in T \cap Rows :
         i # j /\ rows[i].up = rows[j].up => rows[i].col.name # rows[j].col.name

\* A request that ran alone and was told an error has changed nothing, or its row is
\* one that no response can show, and every later read of it fails too.  What is
\* refused is refused before the first write, and a delete that fails half way is
\* rolled back.  (The routes of LogsChange do die after their write.)
ErrorsChangeNothing ==
  \A q \in Ended : op[q].told = "error" /\ op[q].id \notin User \cup Instance =>
    ~changed \/ Unfit(op[q].id)
================================================================================
