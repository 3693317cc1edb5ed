----------------------------- MODULE RecordsProofs -----------------------------
(***************************************************************************)
(* What holds of the gateway's records for any number of requests, rows,    *)
(* names and times.  The invariant (IInv) follows one request at a time:    *)
(* nothing is said of what requests that overlap have read, for it may be   *)
(* stale, but what the one that runs alone has read is still so when it     *)
(* writes (Prepared, Fitting), and so what it leaves is in order (Written). *)
(***************************************************************************)
EXTENDS Records, TLAPS

-----------------------------------------------------------------------------
(* Ids, rows and columns.                                                   *)

\* Of two kinds, no id is of both.
LEMMA Disjoint ==
  /\ Instance \cap (User \cup Server \cup Subnet \cup Leaf \cup Domain \cup Mailbox \cup Alias
                      \cup Message \cup Provider \cup Model \cup Config) = {}
  /\ User \cap (Server \cup Subnet \cup Leaf \cup Domain \cup Mailbox \cup Alias
                  \cup Message \cup Provider \cup Model \cup Config) = {}
  /\ Server \cap (Subnet \cup Leaf \cup Domain \cup Mailbox \cup Alias \cup Message
                    \cup Provider \cup Model \cup Config) = {}
  /\ Subnet \cap (Leaf \cup Domain \cup Mailbox \cup Alias \cup Message \cup Provider
                    \cup Model \cup Config) = {}
  /\ Leaf \cap (Domain \cup Mailbox \cup Alias \cup Message \cup Provider \cup Model
                  \cup Config) = {}
  /\ Domain \cap (Mailbox \cup Alias \cup Message \cup Provider \cup Model \cup Config) = {}
  /\ Mailbox \cap (Alias \cup Message \cup Provider \cup Model \cup Config) = {}
  /\ Alias \cap (Message \cup Provider \cup Model \cup Config) = {}
  /\ Message \cap (Provider \cup Model \cup Config) = {}
  /\ Provider \cap (Model \cup Config) = {}
  /\ Model \cap Config = {}
<1>1. \A k, l \in 1 .. 12 : k # l => Kinds[k] \cap Kinds[l] = {}
  BY KindsAssumption DEF Kinds
<1>2. /\ Kinds[1] = Instance /\ Kinds[2] = User /\ Kinds[3] = Server /\ Kinds[4] = Subnet
      /\ Kinds[5] = Leaf /\ Kinds[6] = Domain /\ Kinds[7] = Mailbox /\ Kinds[8] = Alias
      /\ Kinds[9] = Message /\ Kinds[10] = Provider /\ Kinds[11] = Model /\ Kinds[12] = Config
  BY DEF Kinds
<1>3. Instance \cap (User \cup Server \cup Subnet \cup Leaf \cup Domain \cup Mailbox \cup Alias
                       \cup Message \cup Provider \cup Model \cup Config) = {}
  BY <1>1, <1>2
<1>4. User \cap (Server \cup Subnet \cup Leaf \cup Domain \cup Mailbox \cup Alias
                   \cup Message \cup Provider \cup Model \cup Config) = {}
  BY <1>1, <1>2
<1>5. Server \cap (Subnet \cup Leaf \cup Domain \cup Mailbox \cup Alias \cup Message
                     \cup Provider \cup Model \cup Config) = {}
  BY <1>1, <1>2
<1>6. Subnet \cap (Leaf \cup Domain \cup Mailbox \cup Alias \cup Message \cup Provider
                     \cup Model \cup Config) = {}
  BY <1>1, <1>2
<1>7. /\ Leaf \cap (Domain \cup Mailbox \cup Alias \cup Message \cup Provider \cup Model
                      \cup Config) = {}
      /\ Domain \cap (Mailbox \cup Alias \cup Message \cup Provider \cup Model \cup Config) = {}
  BY <1>1, <1>2
<1>8. /\ Mailbox \cap (Alias \cup Message \cup Provider \cup Model \cup Config) = {}
      /\ Alias \cap (Message \cup Provider \cup Model \cup Config) = {}
      /\ Message \cap (Provider \cup Model \cup Config) = {}
  BY <1>1, <1>2
<1>9. Provider \cap (Model \cup Config) = {} /\ Model \cap Config = {}
  BY <1>1, <1>2
<1> QED
  BY <1>3, <1>4, <1>5, <1>6, <1>7, <1>8, <1>9

\* The columns and the parents of each kind.
LEMMA KindColumns ==
  /\ \A i \in Instance : Columns(i) = InstanceRow /\ Parents(i) = {None}
  /\ \A i \in User : Columns(i) = NamedRow /\ Parents(i) = {None}
  /\ \A i \in Server : Columns(i) = ServerRow /\ Parents(i) = Instance
  /\ \A i \in Subnet : Columns(i) = SubnetRow /\ Parents(i) = Server
  /\ \A i \in Leaf : Columns(i) = LeafRow /\ Parents(i) = Subnet
  /\ \A i \in Domain : Columns(i) = DomainRow /\ Parents(i) = Instance
  /\ \A i \in Mailbox \cup Alias : Columns(i) = BoxRow /\ Parents(i) = Domain
  /\ \A i \in Message : Columns(i) = MessageRow /\ Parents(i) = Domain
  /\ \A i \in Provider : Columns(i) = ProviderRow /\ Parents(i) = {None}
  /\ \A i \in Model : Columns(i) = NamedRow /\ Parents(i) = Provider
  /\ \A i \in Config : Columns(i) = ConfigRow /\ Parents(i) = {None}
<1>1. \A i \in Instance : Columns(i) = InstanceRow /\ Parents(i) = {None}
  BY Disjoint DEF Columns, Parents
<1>2. \A i \in User : Columns(i) = NamedRow /\ Parents(i) = {None}
  BY Disjoint DEF Columns, Parents
<1>3. \A i \in Server : Columns(i) = ServerRow /\ Parents(i) = Instance
  BY Disjoint DEF Columns, Parents
<1>4. \A i \in Subnet : Columns(i) = SubnetRow /\ Parents(i) = Server
  BY Disjoint DEF Columns, Parents
<1>5. \A i \in Leaf : Columns(i) = LeafRow /\ Parents(i) = Subnet
  BY Disjoint DEF Columns, Parents
<1>6. \A i \in Domain : Columns(i) = DomainRow /\ Parents(i) = Instance
  BY Disjoint DEF Columns, Parents
<1>7. \A i \in Mailbox \cup Alias : Columns(i) = BoxRow /\ Parents(i) = Domain
  BY Disjoint DEF Columns, Parents
<1>8. \A i \in Message : Columns(i) = MessageRow /\ Parents(i) = Domain
  BY Disjoint DEF Columns, Parents
<1>9. \A i \in Provider : Columns(i) = ProviderRow /\ Parents(i) = {None}
  BY Disjoint DEF Columns, Parents
<1>10. \A i \in Model : Columns(i) = NamedRow /\ Parents(i) = Provider
  BY Disjoint DEF Columns, Parents
<1>11. \A i \in Config : Columns(i) = ConfigRow /\ Parents(i) = {None}
  BY Disjoint DEF Columns, Parents
<1> QED
  BY <1>1, <1>2, <1>3, <1>4, <1>5, <1>6, <1>7, <1>8, <1>9, <1>10, <1>11

\* Columns are a function.
IsColumns(x) == x = [c \in DOMAIN x |-> x[c]]

LEMMA ColumnsFunction == ASSUME NEW i \in Id, NEW x \in Columns(i) PROVE IsColumns(x)
<1>1. \A y \in InstanceRow \cup NamedRow \cup ServerRow \cup SubnetRow \cup LeafRow : IsColumns(y)
  BY DEF IsColumns, InstanceRow, NamedRow, ServerRow, SubnetRow, LeafRow
<1>2. \A y \in DomainRow \cup BoxRow \cup ConfigRow \cup MessageRow \cup ProviderRow : IsColumns(y)
  BY DEF IsColumns, DomainRow, BoxRow, ConfigRow, MessageRow, ProviderRow
<1> QED
  BY <1>1, <1>2, KindColumns DEF Id

\* What a write makes of columns of a kind are columns of that kind.
Fits(i, w) == \A x \in Columns(i) : Put(x, w) \in Columns(i)

LEMMA NothingWritten == ASSUME NEW i \in Id, NEW x \in Columns(i) PROVE Put(x, NoWrite) = x
<1>1. x = [c \in DOMAIN x |-> x[c]]
  BY ColumnsFunction DEF IsColumns
<1>2. Put(x, NoWrite) = [c \in DOMAIN x |-> x[c]]
  BY DEF Put, NoWrite
<1> QED
  BY <1>1, <1>2

LEMMA NothingFits == ASSUME NEW i \in Id PROVE Fits(i, NoWrite)
BY NothingWritten DEF Fits

LEMMA ServerFits ==
  ASSUME NEW i \in Server, NEW w, \A c \in DOMAIN w : w[c] \in BOOLEAN
  PROVE  Fits(i, w)
<1>1. \A x \in ServerRow : Put(x, w) \in ServerRow
  BY DEF Put, ServerRow
<1> QED
  BY <1>1, KindColumns DEF Fits

LEMMA SubnetFits ==
  ASSUME NEW i \in Subnet, NEW w, DOMAIN w \subseteq {"min", "default", "max"},
         \A c \in DOMAIN w : w[c] \in Time
  PROVE  Fits(i, w)
<1>1. \A x \in SubnetRow : Put(x, w) \in SubnetRow
  BY DEF Put, SubnetRow
<1> QED
  BY <1>1, KindColumns DEF Fits

LEMMA DomainFits ==
  ASSUME NEW i \in Domain, NEW w, "name" \notin DOMAIN w, \A c \in DOMAIN w : w[c] \in BOOLEAN
  PROVE  Fits(i, w)
<1>1. \A x \in DomainRow : Put(x, w) \in DomainRow
  BY DEF Put, DomainRow
<1> QED
  BY <1>1, KindColumns DEF Fits

LEMMA OthersFit ==
  ASSUME NEW i \in Id \ (User \cup Message \cup Model), NEW w \in Others
  PROVE  Fits(i, w) /\ DOMAIN w \subseteq {"fit"}
<1>1. CASE w = NoWrite
  BY <1>1, NothingFits DEF NoWrite
<1>2. CASE w \in [{"fit"} -> BOOLEAN]
  <2>1. DOMAIN w = {"fit"} /\ w["fit"] \in BOOLEAN
    BY <1>2
  <2>2. /\ \A x \in InstanceRow : Put(x, w) \in InstanceRow
        /\ \A x \in ServerRow : Put(x, w) \in ServerRow
        /\ \A x \in SubnetRow : Put(x, w) \in SubnetRow
        /\ \A x \in LeafRow : Put(x, w) \in LeafRow
    BY <2>1 DEF Put, InstanceRow, ServerRow, SubnetRow, LeafRow
  <2>3. /\ \A x \in DomainRow : Put(x, w) \in DomainRow
        /\ \A x \in BoxRow : Put(x, w) \in BoxRow
        /\ \A x \in ProviderRow : Put(x, w) \in ProviderRow
        /\ \A x \in ConfigRow : Put(x, w) \in ConfigRow
    BY <2>1 DEF Put, DomainRow, BoxRow, ProviderRow, ConfigRow
  <2> QED
    BY <2>1, <2>2, <2>3, KindColumns DEF Fits, Id
<1> QED
  BY <1>1, <1>2 DEF Others

\* A write of a message is one of all its columns.
LEMMA MessageFits ==
  ASSUME NEW i \in Message, NEW w \in MessageRow
  PROVE  Fits(i, w) /\ \A x \in Columns(i) : Put(x, w) = w
<1>1. \A x \in MessageRow : Put(x, w) = w
  BY DEF Put, MessageRow
<1> QED
  BY <1>1, KindColumns DEF Fits

LEMMA NamedFits ==
  ASSUME NEW i \in Alias \cup Model, NEW n \in Name
  PROVE  Fits(i, [name |-> n])
<1>1. \A x \in BoxRow : Put(x, [name |-> n]) \in BoxRow
  BY DEF Put, BoxRow
<1>2. \A x \in NamedRow : Put(x, [name |-> n]) \in NamedRow
  BY DEF Put, NamedRow
<1> QED
  BY <1>1, <1>2, KindColumns DEF Fits

LEMMA ConfigFits ==
  ASSUME NEW i \in Config
  PROVE  /\ \A n \in Name : Fits(i, [name |-> n])
         /\ \A p \in Provider \cup {None} : Fits(i, [provider |-> p])
         /\ \A o \in Model \cup {None} : Fits(i, [model |-> o])
<1>1. \A x \in ConfigRow :
        /\ \A n \in Name : Put(x, [name |-> n]) \in ConfigRow
        /\ \A p \in Provider \cup {None} : Put(x, [provider |-> p]) \in ConfigRow
        /\ \A o \in Model \cup {None} : Put(x, [model |-> o]) \in ConfigRow
  BY DEF Put, ConfigRow
<1> QED
  BY <1>1, KindColumns DEF Fits

LEMMA ActiveFits ==
  ASSUME NEW i \in Instance
  PROVE  Fits(i, [status |-> "active"])
<1>1. \A x \in InstanceRow : Put(x, [status |-> "active"]) \in InstanceRow
  BY DEF Put, InstanceRow
<1> QED
  BY <1>1, KindColumns DEF Fits

\* The columns that differ, written alone, are what the whole write is to the
\* columns that were read; and they fit where the whole write does.
Differing(w, x) == [c \in {d \in DOMAIN w : w[d] # x[d]} |-> w[c]]

LEMMA PutDiffering ==
  ASSUME NEW w, NEW x
  PROVE  Put(x, Differing(w, x)) = Put(x, w)
BY DEF Put, Differing

\* Columns of a kind may be mixed.
LEMMA Mixed ==
  ASSUME NEW i \in Id, NEW x \in Columns(i), NEW y \in Columns(i), NEW C
  PROVE  [c \in DOMAIN x |-> IF c \in C THEN y[c] ELSE x[c]] \in Columns(i)
<1> DEFINE Mix(a, b) == [c \in DOMAIN a |-> IF c \in C THEN b[c] ELSE a[c]]
<1>1. /\ \A a, b \in InstanceRow : Mix(a, b) \in InstanceRow
      /\ \A a, b \in NamedRow : Mix(a, b) \in NamedRow
      /\ \A a, b \in LeafRow : Mix(a, b) \in LeafRow
      /\ \A a, b \in BoxRow : Mix(a, b) \in BoxRow
  BY DEF InstanceRow, NamedRow, LeafRow, BoxRow
<1>2. /\ \A a, b \in ServerRow : Mix(a, b) \in ServerRow
      /\ \A a, b \in SubnetRow : Mix(a, b) \in SubnetRow
  BY DEF ServerRow, SubnetRow
<1>3. /\ \A a, b \in DomainRow : Mix(a, b) \in DomainRow
      /\ \A a, b \in ConfigRow : Mix(a, b) \in ConfigRow
  BY DEF DomainRow, ConfigRow
<1>4. /\ \A a, b \in MessageRow : Mix(a, b) \in MessageRow
      /\ \A a, b \in ProviderRow : Mix(a, b) \in ProviderRow
  BY DEF MessageRow, ProviderRow
<1> HIDE DEF Mix
<1>5. Mix(x, y) \in Columns(i)
  BY <1>1, <1>2, <1>3, <1>4, KindColumns DEF Id
<1> QED
  BY <1>5 DEF Mix

LEMMA DifferingFits ==
  ASSUME NEW i \in Id, NEW w, NEW x, Fits(i, w)
  PROVE  Fits(i, Differing(w, x))
<1> SUFFICES ASSUME NEW y \in Columns(i) PROVE Put(y, Differing(w, x)) \in Columns(i)
  BY DEF Fits
<1> DEFINE C == {d \in DOMAIN w : w[d] # x[d]}
<1>1. Put(y, w) \in Columns(i)
  BY DEF Fits
<1>2. Put(y, Differing(w, x)) = [c \in DOMAIN y |-> IF c \in C THEN Put(y, w)[c] ELSE y[c]]
  <2>1. \A c \in DOMAIN y : c \in C => Put(y, w)[c] = w[c]
    BY DEF Put
  <2>2. DOMAIN Differing(w, x) = C /\ \A c \in C : Differing(w, x)[c] = w[c]
    BY DEF Differing
  <2> HIDE DEF C
  <2> QED
    BY <2>1, <2>2 DEF Put
<1> HIDE DEF C
<1> QED
  BY <1>1, <1>2, Mixed

\* What a use case loses leaves it a use case.
LEMMA ReleasedRow ==
  ASSUME NEW i \in Id, NEW row \in Row(i), NEW gone
  PROVE  /\ Released(row, gone) \in Row(i) /\ Released(row, gone).up = row.up
         /\ i \notin Config => Released(row, gone) = row
<1>1. CASE i \notin Config
  <2>1. \A x \in InstanceRow \cup NamedRow \cup ServerRow \cup SubnetRow \cup LeafRow :
          "provider" \notin DOMAIN x
    BY DEF InstanceRow, NamedRow, ServerRow, SubnetRow, LeafRow
  <2>2. \A x \in DomainRow \cup BoxRow \cup MessageRow \cup ProviderRow : "provider" \notin DOMAIN x
    BY DEF DomainRow, BoxRow, MessageRow, ProviderRow
  <2>3. row.col \in Columns(i)
    BY DEF Row
  <2>4. "provider" \notin DOMAIN row.col
    BY <1>1, <2>1, <2>2, <2>3, KindColumns DEF Id
  <2> QED
    BY <2>4, <1>1 DEF Released
<1>2. CASE i \in Config
  <2>1. row \in [up : {None}, col : ConfigRow]
    BY <1>2, KindColumns DEF Row
  <2>2. PICK c \in ConfigRow : row = [up |-> None, col |-> c]
    BY <2>1
  <2> DEFINE p == IF c.provider \in gone THEN None ELSE c.provider
             o == IF c.model \in gone THEN None ELSE c.model
  <2>3. c = [name |-> c.name, provider |-> c.provider, model |-> c.model, fit |-> c.fit]
    BY DEF ConfigRow
  <2>4. row # None
    BY RowAssumption
  <2>5. Released(row, gone)
          = [up |-> None, col |-> [name |-> c.name, provider |-> p, model |-> o, fit |-> c.fit]]
    BY <2>2, <2>3, <2>4 DEF Released
  <2>6. [name |-> c.name, provider |-> p, model |-> o, fit |-> c.fit] \in ConfigRow
    BY DEF ConfigRow
  <2> QED
    BY <2>5, <2>6, <1>2, <2>2, KindColumns DEF Row
<1> QED
  BY <1>1, <1>2

-----------------------------------------------------------------------------
(* The inductive invariant.                                                 *)

\* A request's record has its fields.
Shaped(o) ==
  o = [kind |-> o.kind, id |-> o.id, up |-> o.up, seen |-> o.seen, write |-> o.write,
       loaded |-> o.loaded, told |-> o.told]

Shapes ==
  /\ rows = [i \in Id |-> rows[i]]
  /\ op = [q \in Req |-> op[q]] /\ \A q \in Req : Shaped(op[q])

\* What a request that runs has with it is of the kind of its row.
Carries(q) ==
  LET i == op[q].id IN
  /\ i \in Id
  /\ op[q].kind = "create" => op[q].up \in Parents(i) /\ op[q].write \in Columns(i)
  /\ op[q].kind \in {"update", "classify"} => Fits(i, op[q].write)
  /\ op[q].kind = "action" => op[q].write = NoWrite
  /\ op[q].kind = "classify" => i \in Message
  /\ op[q].kind = "sync" =>
       i \in Provider /\ DOMAIN op[q].seen \subseteq Name /\ DOMAIN op[q].write \subseteq Name
  /\ pc[q] = "model" =>
       op[q].kind = "sync" \/ (op[q].kind \in {"create", "classify"} /\ i \in Message)
  /\ pc[q] = "check" =>
       \/ op[q].kind \in {"delete", "sync"}
       \/ i \in Server /\ op[q].kind = "update"
       \/ i \in User \cup Domain \cup Mailbox \cup Alias /\ op[q].kind \in {"create", "update"}

Typed == TypeOK /\ Shapes /\ \A q \in Running : Carries(q)

\* Every row has its parent.
Held == \A j \in Rows : rows[j].up \in Rows \cup {None}

\* The request that ran beside no other runs alone, and there is no other kind of
\* request before any two have overlapped.
Alone == solo # None \/ ~overlapped => Running \subseteq {solo}

Sound(i, col) == Valid(col) /\ (i \in Message => Coherent(col))

\* What a request that runs alone has read is the row, until it writes, and what it
\* is to write leaves the row in order.
Prepared(q) ==
  LET i == op[q].id IN
  /\ ~changed
  /\ op[q].kind = "create" => i \notin Rows /\ Sound(i, op[q].write)
  /\ op[q].kind \in {"update", "action", "classify"} => i \in Rows /\ op[q].seen = rows[i].col
  /\ op[q].kind = "update" \/ (op[q].kind = "classify" /\ pc[q] = "commit") =>
       Sound(i, Put(op[q].seen, op[q].write))
  /\ op[q].kind = "sync" /\ pc[q] = "commit" =>
       DOMAIN op[q].seen \subseteq ModelNames(i) \cup DOMAIN op[q].write

\* What it has written is there and in order.
Written(q) ==
  LET i == op[q].id IN
  /\ op[q].kind \in {"create", "update", "action", "classify"} => i \in Rows
  /\ op[q].kind \in {"create", "update", "classify"} => Sound(i, rows[i].col)
  /\ op[q].kind = "sync" => DOMAIN op[q].seen \subseteq ModelNames(i)

Lone(q) == IF pc[q] = "after" THEN Written(q) ELSE Prepared(q)

\* What it is to write leaves the rows around it in order too.
Fitting(q) ==
  LET i == op[q].id IN
  /\ op[q].kind = "create" =>
       /\ i \in Subnet => op[q].up \in Rows /\ rows[op[q].up].col[op[q].write.type]
       /\ i \in Leaf => op[q].up \in Rows /\ rows[op[q].up].col.type = op[q].write.type
       /\ i \in Domain \cup Mailbox \cup Alias /\ pc[q] = "commit" => Namesakes(q) = {}
  /\ op[q].kind = "update" =>
       /\ i \in Server /\ pc[q] = "commit" => ~Refused(q)
       /\ i \in Subnet \cup Leaf => "type" \notin DOMAIN op[q].write
       /\ i \in Domain \cup Mailbox => "name" \notin DOMAIN op[q].write
       /\ i \in Alias /\ pc[q] = "commit" /\ "name" \in DOMAIN op[q].write => Namesakes(q) = {}

InOrder(q) == ~overlapped /\ pc[q] # "after" => Fitting(q)

IInv ==
  /\ Typed /\ Held /\ Alone /\ OneByOne /\ Heals /\ ErrorsChangeNothing
  /\ \A q \in Running : solo = q => Lone(q) /\ InOrder(q)

-----------------------------------------------------------------------------
(* The rows of a typed state.                                               *)

LEMMA RowsTyped ==
  ASSUME Typed, NEW j \in Rows
  PROVE  /\ j \in Id /\ j \in used /\ rows[j] \in Row(j)
         /\ rows[j].up \in Parents(j) /\ rows[j].col \in Columns(j)
<1>1. j \in Id /\ j \in used /\ rows[j] \in Row(j)
  BY DEF Typed, TypeOK, Rows
<1> QED
  BY <1>1 DEF Row

\* What is below a server is a subnet, and below a subnet one of its contents.
LEMMA BelowServer == ASSUME Typed, NEW i \in Server, NEW n \in Below(i)
                     PROVE  n \in Subnet \cap Rows /\ rows[n].up = i
<1>1. n \in Rows /\ n \in Id /\ rows[n].up \in Parents(n) /\ rows[n].up = i
  BY RowsTyped DEF Below
<1> QED
  BY <1>1, KindColumns, Disjoint, RecordsAssumption DEF Id

LEMMA ServerColumns ==
  ASSUME Typed, NEW i \in Server \cap Rows
  PROVE  /\ rows[i].col \in ServerRow /\ DOMAIN rows[i].col = {"v4", "v6", "ha", "peer", "fit"}
         /\ rows[i].up \in Instance
<1>1. rows[i].col \in ServerRow /\ rows[i].up \in Instance
  BY RowsTyped, KindColumns
<1> QED
  BY <1>1 DEF ServerRow

LEMMA SubnetColumns ==
  ASSUME Typed, NEW n \in Subnet \cap Rows
  PROVE  rows[n].col \in SubnetRow /\ rows[n].col.type \in Family /\ rows[n].up \in Server
<1>1. rows[n].col \in SubnetRow /\ rows[n].up \in Server
  BY RowsTyped, KindColumns
<1> QED
  BY <1>1 DEF SubnetRow

LEMMA LeafColumns ==
  ASSUME Typed, NEW l \in Leaf \cap Rows
  PROVE  rows[l].col \in LeafRow /\ rows[l].up \in Subnet
BY RowsTyped, KindColumns

-----------------------------------------------------------------------------
(* How a request begins.                                                    *)

LEMMA RunningTyped == ASSUME Typed PROVE Running \subseteq Req /\ None \notin Req /\ None \notin Id
BY RecordsAssumption DEF Running

\* What Begin leaves: the new request is what was asked for, those that run are what
\* they were, and the rows are untouched.
Begun(q, o, stage) ==
  /\ pc' = [r \in Req |-> IF r = q THEN stage ELSE pc[r]]
  /\ op' = [r \in Req |-> IF r = q THEN o ELSE IF pc[r] = "idle" THEN Rest ELSE op[r]]
  /\ rows' = rows /\ changed' = FALSE
  /\ solo' = (IF Running = {} THEN q ELSE None)
  /\ overlapped' = (overlapped \/ Running # {})
  /\ nRequests' = nRequests + 1
  /\ used' = used \cup (IF o.kind = "create" THEN {o.id} ELSE {})

LEMMA BeginIs ==
  ASSUME Typed, NEW q \in Req, pc[q] = "idle", NEW o, NEW stage, Begin(q, o, stage)
  PROVE  Begun(q, o, stage)
<1>1. pc \in [Req -> {"idle", "check", "model", "commit", "after"}]
  BY DEF Typed, TypeOK
<1> QED
  BY <1>1 DEF Begin, Goto, Begun

LEMMA BeginTyped ==
  ASSUME Typed, NEW q \in Req, pc[q] = "idle", nRequests < MaxRequests, NEW o,
         NEW stage \in {"check", "model", "commit"}, Begin(q, o, stage),
         Shaped(o), o.kind \in Kind, o.id \in Id, o.up \in Id \cup {None}, o.loaded = {},
         o.told = "nothing", Carries(q)'
  PROVE  Typed'
<1>0. Begun(q, o, stage)
  BY BeginIs
<1>1. DOMAIN rows' = Id /\ Rows' \subseteq used' /\ used' \subseteq Id
  BY <1>0 DEF Begun, Typed, TypeOK, Rows
<1>2. \A i \in Rows' : rows'[i] \in Row(i)
  BY <1>0 DEF Begun, Typed, TypeOK, Rows
<1>3. pc' \in [Req -> {"idle", "check", "model", "commit", "after"}]
  BY <1>0 DEF Begun, Typed, TypeOK
<1>4. \A r \in Req :
        /\ op'[r].kind \in Kind /\ op'[r].id \in Id \cup {None} /\ op'[r].up \in Id \cup {None}
        /\ op'[r].loaded \subseteq Id /\ op'[r].told \in {"nothing", "ok", "error"}
  <2>1. Rest.kind \in Kind /\ Rest.id \in Id \cup {None} /\ Rest.up \in Id \cup {None}
        /\ Rest.loaded \subseteq Id /\ Rest.told \in {"nothing", "ok", "error"}
    BY DEF Rest, Kind
  <2> TAKE r \in Req
  <2>2. op'[r] \in {o, Rest, op[r]}
    BY <1>0 DEF Begun
  <2>3. /\ op[r].kind \in Kind /\ op[r].id \in Id \cup {None} /\ op[r].up \in Id \cup {None}
        /\ op[r].loaded \subseteq Id /\ op[r].told \in {"nothing", "ok", "error"}
    BY DEF Typed, TypeOK
  <2>4. CASE op'[r] = o
    BY <2>4
  <2>5. CASE op'[r] = Rest
    BY <2>1, <2>5
  <2>6. CASE op'[r] = op[r]
    BY <2>3, <2>6
  <2> QED
    BY <2>2, <2>4, <2>5, <2>6
<1>5. solo' \in Req \cup {None} /\ changed' \in BOOLEAN /\ nRequests' \in 0 .. MaxRequests
  <2>1. nRequests \in 0 .. MaxRequests
    BY DEF Typed, TypeOK
  <2>2. nRequests' = nRequests + 1 /\ solo' \in {q, None} /\ changed' = FALSE
    BY <1>0 DEF Begun
  <2>3. nRequests' \in 0 .. MaxRequests
    BY <2>1, <2>2, RecordsAssumption
  <2> QED
    BY <2>2, <2>3
<1>6. overlapped' \in BOOLEAN
  BY <1>0, Zenon DEF Begun, Typed, TypeOK
<1>7. TypeOK'
  BY <1>1, <1>2, <1>3, <1>4, <1>5, <1>6 DEF TypeOK
<1>8. Shapes'
  <2>1. Shaped(Rest)
    BY DEF Shaped, Rest
  <2>2. op' = [r \in Req |-> op'[r]]
    BY <1>0 DEF Begun
  <2>3. \A r \in Req : Shaped(op'[r])
    BY <2>1, <1>0 DEF Begun, Typed, Shapes
  <2>4. rows' = [i \in Id |-> rows'[i]]
    BY <1>0 DEF Begun, Typed, Shapes
  <2> QED
    BY <2>2, <2>3, <2>4 DEF Shapes
<1>9. ASSUME NEW r \in Running' PROVE Carries(r)'
  <2>1. CASE r = q
    BY <2>1
  <2>2. CASE r # q
    <3>1. r \in Running /\ op'[r] = op[r] /\ pc'[r] = pc[r]
      BY <2>2, <1>0 DEF Begun, Running
    <3> QED
      BY <3>1 DEF Typed, Carries
  <2> QED
    BY <2>1, <2>2
<1> QED
  BY <1>7, <1>8, <1>9 DEF Typed

LEMMA BeginKeeps ==
  ASSUME IInv, NEW q \in Req, pc[q] = "idle", NEW o,
         NEW stage \in {"check", "model", "commit"}, Begin(q, o, stage), Typed',
         Prepared(q)', ~overlapped => Fitting(q)'
  PROVE  IInv'
<1>a. Typed /\ Held /\ Alone /\ OneByOne
  BY DEF IInv
<1>0. Begun(q, o, stage)
  BY <1>a, BeginIs
<1>1. Running' = Running \cup {q}
  BY <1>0 DEF Begun, Running
<1>2. Held' /\ OneByOne'
  <2>1. rows' = rows /\ (~overlapped' => ~overlapped)
    BY <1>0 DEF Begun
  <2>2. Rows' = Rows
    BY <2>1 DEF Rows
  <2>3. Held'
    BY <2>1, <2>2, <1>a DEF Held
  <2>4. OneByOne'
    BY <2>1, <2>2, <1>a DEF OneByOne
  <2> QED
    BY <2>3, <2>4
<1>3. Alone'
  BY <1>1, <1>0, <1>a DEF Begun, Alone
<1>4. ~(\E r \in Req : solo' = r /\ pc'[r] = "idle")
  BY <1>0, <1>a, RunningTyped DEF Begun
<1>5. Heals' /\ ErrorsChangeNothing'
  <2>1. Ended' = {}
    BY <1>4 DEF Ended
  <2> QED
    BY <2>1 DEF Heals, ErrorsChangeNothing
<1>6. ASSUME NEW r \in Running', solo' = r PROVE Lone(r)' /\ InOrder(r)'
  <2>1. r = q /\ pc'[q] # "after" /\ (~overlapped' => ~overlapped)
    BY <1>6, <1>0, <1>a, RunningTyped, <1>1 DEF Begun
  <2> QED
    BY <2>1 DEF Lone, InOrder
<1> QED
  BY <1>2, <1>3, <1>5, <1>6 DEF IInv

\* A request as a route makes it out of Rest.
Asks(kind, id, up, seen, write) ==
  [kind |-> kind, id |-> id, up |-> up, seen |-> seen, write |-> write, loaded |-> {},
   told |-> "nothing"]

LEMMA RestShape ==
  /\ DOMAIN Rest = {"kind", "id", "up", "seen", "write", "loaded", "told"}
  /\ Rest = Asks("update", None, None, NoWrite, NoWrite)
BY DEF Rest, Asks

LEMMA ShapedAsks ==
  ASSUME NEW e, e = [c \in DOMAIN Rest |-> e[c]], e.loaded = {}, e.told = "nothing"
  PROVE  e = Asks(e.kind, e.id, e.up, e.seen, e.write)
BY RestShape DEF Asks

LEMMA AsksCreate ==
  ASSUME NEW i, NEW up, NEW col
  PROVE  [Rest EXCEPT !.kind = "create", !.id = i, !.up = up, !.write = col]
           = Asks("create", i, up, NoWrite, col)
<1> DEFINE e == [Rest EXCEPT !.kind = "create", !.id = i, !.up = up, !.write = col]
<1>1. e = [c \in DOMAIN Rest |-> e[c]]
  OBVIOUS
<1>2. /\ e.kind = "create" /\ e.id = i /\ e.up = up /\ e.seen = NoWrite /\ e.write = col
      /\ e.loaded = {} /\ e.told = "nothing"
  BY RestShape DEF Asks
<1> HIDE DEF e
<1>3. e = Asks("create", i, up, NoWrite, col)
  BY <1>1, <1>2, ShapedAsks
<1> QED
  BY <1>3 DEF e

LEMMA AsksUpdate ==
  ASSUME NEW i, NEW w, NEW x
  PROVE  [Rest EXCEPT !.id = i, !.write = w, !.seen = x]
           = Asks("update", i, None, x, w)
<1> DEFINE e == [Rest EXCEPT !.id = i, !.write = w, !.seen = x]
<1>1. e = [c \in DOMAIN Rest |-> e[c]]
  OBVIOUS
<1>2. /\ e.kind = "update" /\ e.id = i /\ e.up = None /\ e.seen = x /\ e.write = w
      /\ e.loaded = {} /\ e.told = "nothing"
  BY RestShape DEF Asks
<1> HIDE DEF e
<1>3. e = Asks("update", i, None, x, w)
  BY <1>1, <1>2, ShapedAsks
<1> QED
  BY <1>3 DEF e

LEMMA AsksOther ==
  ASSUME NEW k, NEW i, NEW x
  PROVE  [Rest EXCEPT !.kind = k, !.id = i, !.seen = x]
           = Asks(k, i, None, x, NoWrite)
<1> DEFINE e == [Rest EXCEPT !.kind = k, !.id = i, !.seen = x]
<1>1. e = [c \in DOMAIN Rest |-> e[c]]
  OBVIOUS
<1>2. /\ e.kind = k /\ e.id = i /\ e.up = None /\ e.seen = x /\ e.write = NoWrite
      /\ e.loaded = {} /\ e.told = "nothing"
  BY RestShape DEF Asks
<1> HIDE DEF e
<1>3. e = Asks(k, i, None, x, NoWrite)
  BY <1>1, <1>2, ShapedAsks
<1> QED
  BY <1>3 DEF e

LEMMA AsksSync ==
  ASSUME NEW i
  PROVE  [Rest EXCEPT !.kind = "sync", !.id = i]
           = Asks("sync", i, None, NoWrite, NoWrite)
<1> DEFINE e == [Rest EXCEPT !.kind = "sync", !.id = i]
<1>1. e = [c \in DOMAIN Rest |-> e[c]]
  OBVIOUS
<1>2. /\ e.kind = "sync" /\ e.id = i /\ e.up = None /\ e.seen = NoWrite /\ e.write = NoWrite
      /\ e.loaded = {} /\ e.told = "nothing"
  BY RestShape DEF Asks
<1> HIDE DEF e
<1>3. e = Asks("sync", i, None, NoWrite, NoWrite)
  BY <1>1, <1>2, ShapedAsks
<1> QED
  BY <1>3 DEF e

\* What a new request has with it.
Asked(q, k, i, up, x, w, stage) ==
  /\ pc'[q] = stage /\ op'[q].kind = k /\ op'[q].id = i /\ op'[q].up = up
  /\ op'[q].seen = x /\ op'[q].write = w
  /\ rows' = rows /\ Rows' = Rows /\ changed' = FALSE
  /\ Carries(q)' /\ Prepared(q)' /\ (~overlapped => Fitting(q)') => IInv'

LEMMA AskedIs ==
  ASSUME IInv, NEW q \in Req, pc[q] = "idle", nRequests < MaxRequests, NEW k \in Kind, NEW i \in Id,
         NEW up \in Id \cup {None}, NEW x, NEW w, NEW stage \in {"check", "model", "commit"},
         Begin(q, Asks(k, i, up, x, w), stage)
  PROVE  Asked(q, k, i, up, x, w, stage)
<1> DEFINE o == Asks(k, i, up, x, w)
<1>1. Typed
  BY DEF IInv
<1>2. /\ Shaped(o) /\ o.kind \in Kind /\ o.id \in Id /\ o.up \in Id \cup {None} /\ o.loaded = {}
      /\ o.told = "nothing"
  BY DEF Shaped, Asks
<1>3. o.kind = k /\ o.id = i /\ o.up = up /\ o.seen = x /\ o.write = w
  BY DEF Asks
<1> HIDE DEF o
<1>4. Begun(q, o, stage)
  BY <1>1, BeginIs DEF o
<1>5. pc'[q] = stage /\ op'[q] = o /\ rows' = rows /\ changed' = FALSE
  BY <1>4 DEF Begun
<1>6. Rows' = Rows
  BY <1>5 DEF Rows
<1>7. Carries(q)' => Typed'
  BY <1>1, <1>2, BeginTyped DEF o
<1>8. ASSUME Carries(q)', Prepared(q)', ~overlapped => Fitting(q)' PROVE IInv'
  BY <1>7, <1>8, BeginKeeps DEF o
<1> QED
  BY <1>3, <1>5, <1>6, <1>8 DEF Asked

LEMMA CreateKeeps ==
  ASSUME IInv, NEW q \in Req, pc[q] = "idle", nRequests < MaxRequests,
         NEW i \in Id, NEW up \in Parents(i), NEW col \in Columns(i),
         NEW stage \in {"check", "model", "commit"}, Create(q, i, up, col, stage),
         i \in Message => Coherent(col),
         stage = "check" => i \in User \cup Domain \cup Mailbox \cup Alias,
         stage = "model" => i \in Message,
         stage = "commit" => i \notin Domain \cup Mailbox \cup Alias,
         i \in Subnet => up \in Rows /\ rows[up].col[col.type],
         i \in Leaf => up \in Rows /\ rows[up].col.type = col.type
  PROVE  IInv'
<1>1. Rows \subseteq used /\ Rows \subseteq Id
  BY DEF IInv, Typed, TypeOK, Rows
<1>2. /\ Begin(q, Asks("create", i, up, NoWrite, col), stage)
      /\ i \notin used /\ Valid(col) /\ up \in Rows \cup {None}
  <2>1. [Rest EXCEPT !.kind = "create", !.id = i, !.up = up, !.write = col]
          = Asks("create", i, up, NoWrite, col)
    BY AsksCreate
  <2> QED
    BY <2>1 DEF Create, Fresh
<1>3. Asked(q, "create", i, up, NoWrite, col, stage)
  <2>1. "create" \in Kind /\ up \in Id \cup {None}
    BY <1>1, <1>2 DEF Kind
  <2> QED
    BY <1>2, <2>1, AskedIs
<1>4. Carries(q)'
  BY <1>3 DEF Asked, Carries
<1>5. Prepared(q)'
  BY <1>1, <1>2, <1>3 DEF Asked, Prepared, Sound
<1>6. Fitting(q)'
  BY <1>3 DEF Asked, Fitting
<1> QED
  BY <1>3, <1>4, <1>5, <1>6 DEF Asked

LEMMA UpdateKeeps ==
  ASSUME IInv, NEW q \in Req, pc[q] = "idle", nRequests < MaxRequests,
         NEW i \in Id, NEW w, NEW stage \in {"check", "commit"}, Update(q, i, w, stage),
         Fits(i, w),
         i \in Message => Coherent(Put(rows[i].col, w)),
         stage = "check" => i \in Server \cup Alias,
         i \in Server /\ stage = "commit" =>
           \A f \in Family \cap DOMAIN w : rows[i].col[f] => w[f],
         i \in Subnet \cup Leaf => "type" \notin DOMAIN w,
         i \in Domain \cup Mailbox => "name" \notin DOMAIN w,
         i \in Alias /\ stage = "commit" => "name" \notin DOMAIN w
  PROVE  IInv'
<1>1. /\ Begin(q, Asks("update", i, None, rows[i].col, w), stage)
      /\ i \in Rows /\ Valid(Put(rows[i].col, w))
  <2>1. [Rest EXCEPT !.id = i, !.write = w, !.seen = rows[i].col]
          = Asks("update", i, None, rows[i].col, w)
    BY AsksUpdate
  <2> QED
    BY <2>1 DEF Update, Effective
<1>2. Asked(q, "update", i, None, rows[i].col, w, stage)
  <2>1. "update" \in Kind
    BY DEF Kind
  <2> QED
    BY <1>1, <2>1, AskedIs
<1>3. Carries(q)'
  BY <1>2 DEF Asked, Carries
<1>4. Prepared(q)'
  <2>1. i \in Rows' /\ op'[q].seen = rows'[i].col
    BY <1>1, <1>2 DEF Asked
  <2>2. Sound(i, Put(rows[i].col, w))
    BY <1>1 DEF Sound
  <2> QED
    BY <1>2, <2>1, <2>2 DEF Asked, Prepared
<1>5. ASSUME ~overlapped PROVE Fitting(q)'
  <2>1. i \in Server /\ stage = "commit" => ~Refused(q)'
    <3> SUFFICES ASSUME i \in Server, stage = "commit", NEW n \in Below(i)
                 PROVE  Put(rows[i].col, w)[rows[n].col.type]
      BY <1>2 DEF Asked, Refused, Below
    <3>1. n \in Subnet \cap Rows /\ rows[n].up = i
      BY BelowServer DEF IInv
    <3>2. rows[n].col.type \in Family
      BY <3>1, SubnetColumns DEF IInv
    <3>3. rows[i].col[rows[n].col.type]
      BY <3>1, <1>5, Zenon DEF IInv, OneByOne
    <3>4. DOMAIN rows[i].col = {"v4", "v6", "ha", "peer", "fit"}
      BY <1>1, ServerColumns DEF IInv
    <3> QED
      BY <3>2, <3>3, <3>4 DEF Put, Family
  <2> QED
    BY <1>2, <2>1 DEF Asked, Fitting
<1> QED
  BY <1>2, <1>3, <1>4, <1>5 DEF Asked

LEMMA OtherKeeps ==
  ASSUME IInv, NEW q \in Req, pc[q] = "idle", nRequests < MaxRequests,
         NEW k \in {"delete", "action", "classify"}, NEW i \in Rows, NEW stage,
         Begin(q, [Rest EXCEPT !.kind = k, !.id = i, !.seen = rows[i].col], stage),
         k = "delete" => stage \in {"check", "commit"},
         k = "action" => stage = "commit",
         k = "classify" => i \in Message /\ stage = "model"
  PROVE  IInv'
<1>1. i \in Id /\ stage \in {"check", "model", "commit"} /\ k \in Kind
  BY DEF Rows, Kind
<1>2. Begin(q, Asks(k, i, None, rows[i].col, NoWrite), stage)
  BY AsksOther
<1>3. Asked(q, k, i, None, rows[i].col, NoWrite, stage)
  BY <1>1, <1>2, AskedIs
<1>4. Carries(q)'
  BY <1>1, <1>3, NothingFits DEF Asked, Carries
<1>5. Prepared(q)'
  BY <1>1, <1>3 DEF Asked, Prepared
<1>6. Fitting(q)'
  BY <1>3 DEF Asked, Fitting
<1> QED
  BY <1>3, <1>4, <1>5, <1>6 DEF Asked

LEMMA SyncKeeps ==
  ASSUME IInv, NEW q \in Req, pc[q] = "idle", nRequests < MaxRequests, NEW i \in Provider,
         SyncProviderModels(q, i)
  PROVE  IInv'
<1>1. i \in Id /\ "sync" \in Kind
  BY DEF Id, Kind
<1>2. Begin(q, Asks("sync", i, None, NoWrite, NoWrite), "model")
  BY AsksSync DEF SyncProviderModels
<1>3. Asked(q, "sync", i, None, NoWrite, NoWrite, "model")
  BY <1>1, <1>2, AskedIs
<1>4. Carries(q)'
  BY <1>1, <1>3 DEF Asked, Carries, NoWrite
<1>5. Prepared(q)'
  BY <1>1, <1>3 DEF Asked, Prepared
<1>6. Fitting(q)'
  BY <1>3 DEF Asked, Fitting
<1> QED
  BY <1>3, <1>4, <1>5, <1>6 DEF Asked

LEMMA DeleteKeeps ==
  ASSUME IInv, NEW q \in Req, pc[q] = "idle", nRequests < MaxRequests, NEW i,
         NEW stage \in {"check", "commit"}, Delete(q, i, stage)
  PROVE  IInv'
BY OtherKeeps DEF Delete

\* An update that gives none of the columns that a route checks.
LEMMA TouchKeeps ==
  ASSUME IInv, NEW q \in Req, pc[q] = "idle", nRequests < MaxRequests,
         NEW i \in Id \ Message, NEW w, Update(q, i, w, "commit"),
         Fits(i, w), DOMAIN w \subseteq {"fit"}
  PROVE  IInv'
BY UpdateKeeps DEF Family

LEMMA OthersKeep ==
  ASSUME IInv, NEW q \in Req, pc[q] = "idle", nRequests < MaxRequests,
         NEW i \in Id \ (User \cup Message \cup Model), NEW w \in Others, Update(q, i, w, "commit")
  PROVE  IInv'
<1>1. Fits(i, w) /\ DOMAIN w \subseteq {"fit"}
  BY OthersFit
<1> QED
  BY <1>1, TouchKeeps

-----------------------------------------------------------------------------
(* The routes.                                                              *)

LEMMA InstanceRoutes ==
  ASSUME IInv, NEW q \in Req, pc[q] = "idle", nRequests < MaxRequests, NEW i \in Instance,
         \/ CreateInstance(q, i) \/ DeleteInstance(q, i) \/ Heartbeat(q, i)
         \/ \E w \in Others : UpdateInstance(q, i, w)
  PROVE  IInv'
<1>1. i \in Id \ (Server \cup Subnet \cup Leaf \cup Domain \cup Mailbox \cup Alias \cup Message \cup User \cup Model)
  BY Disjoint DEF Id
<1>2. CASE CreateInstance(q, i)
  <2>1. None \in Parents(i) /\ NewInstance("inactive") \in Columns(i)
    BY KindColumns DEF InstanceRow, NewInstance
  <2> QED
    BY <1>1, <1>2, <2>1, CreateKeeps DEF CreateInstance
<1>3. ASSUME NEW w \in Others, UpdateInstance(q, i, w) PROVE IInv'
  BY <1>1, <1>3, OthersKeep DEF UpdateInstance
<1>4. CASE DeleteInstance(q, i)
  BY <1>4, DeleteKeeps DEF DeleteInstance
<1>5. CASE Heartbeat(q, i)
  BY <1>1, <1>5, ActiveFits, UpdateKeeps DEF Heartbeat
<1> QED
  BY <1>2, <1>3, <1>4, <1>5

LEMMA UserRoutes ==
  ASSUME IInv, NEW q \in Req, pc[q] = "idle", nRequests < MaxRequests, NEW i \in User,
         \/ UpdateUser(q, i) \/ DeleteUser(q, i) \/ ChangePassword(q, i)
         \/ \E name \in Name : CreateUser(q, i, name)
  PROVE  IInv'
<1>1. i \in Id \ (Server \cup Subnet \cup Leaf \cup Domain \cup Mailbox \cup Alias \cup Message)
  BY Disjoint DEF Id
<1>2. ASSUME NEW name \in Name, CreateUser(q, i, name) PROVE IInv'
  <2>1. None \in Parents(i) /\ [name |-> name] \in Columns(i)
    BY KindColumns DEF NamedRow
  <2> QED
    BY <1>1, <1>2, <2>1, CreateKeeps DEF CreateUser
<1>3. CASE UpdateUser(q, i)
  BY <1>1, <1>3, NothingFits, TouchKeeps DEF UpdateUser, NoWrite
<1>4. CASE DeleteUser(q, i)
  BY <1>4, DeleteKeeps DEF DeleteUser
<1>5. CASE ChangePassword(q, i)
  BY <1>5, OtherKeeps DEF ChangePassword
<1> QED
  BY <1>2, <1>3, <1>4, <1>5

LEMMA ServerRoutes ==
  ASSUME IInv, NEW q \in Req, pc[q] = "idle", nRequests < MaxRequests, NEW i \in Server,
         \/ \E up \in Instance, v6 \in BOOLEAN : CreateServer(q, i, up, NewServer(TRUE, v6))
         \/ \E w \in Patch({"v4", "v6", "ha", "peer", "fit"}, BOOLEAN) : UpdateServer(q, i, w)
         \/ DeleteServer(q, i) \/ ServerAction(q, i)
  PROVE  IInv'
<1>1. i \in Id \ (Subnet \cup Leaf \cup Domain \cup Mailbox \cup Alias \cup Message \cup User)
  BY Disjoint DEF Id
<1>2. ASSUME NEW up \in Instance, NEW v6 \in BOOLEAN, CreateServer(q, i, up, NewServer(TRUE, v6))
      PROVE  IInv'
  <2>1. up \in Parents(i) /\ NewServer(TRUE, v6) \in Columns(i)
    BY KindColumns DEF ServerRow, NewServer
  <2> QED
    BY <1>1, <1>2, <2>1, CreateKeeps DEF CreateServer
<1>3. ASSUME NEW w \in Patch({"v4", "v6", "ha", "peer", "fit"}, BOOLEAN), UpdateServer(q, i, w)
      PROVE  IInv'
  <2>1. Fits(i, w)
    BY ServerFits DEF Patch
  <2>2. i \in Rows /\
        \/ Update(q, i, w, "check")
        \/ /\ Update(q, i, w, "commit")
           /\ \A f \in Family \cap DOMAIN w : rows[i].col[f] => w[f]
    BY <1>3 DEF UpdateServer
  <2>3. CASE Update(q, i, w, "check")
    BY <1>1, <2>1, <2>3, UpdateKeeps
  <2>4. CASE Update(q, i, w, "commit") /\ \A f \in Family \cap DOMAIN w : rows[i].col[f] => w[f]
    BY <1>1, <2>1, <2>4, UpdateKeeps
  <2> QED
    BY <2>2, <2>3, <2>4
<1>4. CASE DeleteServer(q, i)
  BY <1>4, DeleteKeeps DEF DeleteServer
<1>5. CASE ServerAction(q, i)
  BY <1>5, OtherKeeps DEF ServerAction
<1> QED
  BY <1>2, <1>3, <1>4, <1>5

LEMMA SubnetRoutes ==
  ASSUME IInv, NEW q \in Req, pc[q] = "idle", nRequests < MaxRequests, NEW i \in Subnet,
         \/ \E up \in Server, type \in Family : CreateSubnet(q, i, up, NewSubnet(type))
         \/ \E w \in Patch({"min", "default", "max"}, Time) \cup Others : UpdateSubnet(q, i, w)
         \/ DeleteSubnet(q, i)
  PROVE  IInv'
<1>1. i \in Id \ (Server \cup Leaf \cup Domain \cup Mailbox \cup Alias \cup Message \cup User \cup Model)
  BY Disjoint DEF Id
<1>2. ASSUME NEW up \in Server, NEW type \in Family, CreateSubnet(q, i, up, NewSubnet(type))
      PROVE  IInv'
  <2> DEFINE col == NewSubnet(type)
  <2>1. up \in Parents(i) /\ col \in Columns(i)
    <3>1. (CHOOSE x \in Time : TRUE) \in Time
      BY RecordsAssumption
    <3> QED
      BY <3>1, KindColumns DEF SubnetRow, NewSubnet
  <2>2. up \in Rows /\ rows[up].col[col.type] /\ Create(q, i, up, col, "commit")
    BY <1>2 DEF CreateSubnet
  <2> HIDE DEF col
  <2> QED
    BY <1>1, <2>1, <2>2, CreateKeeps
<1>3. ASSUME NEW w \in Patch({"min", "default", "max"}, Time), UpdateSubnet(q, i, w) PROVE IInv'
  <2>1. DOMAIN w \subseteq {"min", "default", "max"} /\ \A c \in DOMAIN w : w[c] \in Time
    BY DEF Patch
  <2>2. Fits(i, w)
    BY <2>1, SubnetFits
  <2> QED
    BY <1>1, <1>3, <2>1, <2>2, UpdateKeeps DEF UpdateSubnet
<1>5. ASSUME NEW w \in Others, UpdateSubnet(q, i, w) PROVE IInv'
  BY <1>1, <1>5, OthersKeep DEF UpdateSubnet
<1>4. CASE DeleteSubnet(q, i)
  BY <1>4, DeleteKeeps DEF DeleteSubnet
<1> QED
  BY <1>2, <1>3, <1>4, <1>5

LEMMA LeafRoutes ==
  ASSUME IInv, NEW q \in Req, pc[q] = "idle", nRequests < MaxRequests, NEW i \in Leaf,
         \/ \E up \in Subnet, type \in Family :
              CreatePool(q, i, up, type) \/ CreateReservation(q, i, up, type) \/ CreateOption(q, i, up, type)
         \/ \E w \in Others : UpdatePool(q, i, w) \/ UpdateReservation(q, i, w) \/ UpdateOption(q, i, w)
         \/ DeletePool(q, i) \/ DeleteReservation(q, i) \/ DeleteOption(q, i)
  PROVE  IInv'
<1>1. i \in Id \ (Server \cup Subnet \cup Domain \cup Mailbox \cup Alias \cup Message \cup User \cup Model)
  BY Disjoint DEF Id
<1>2. ASSUME NEW up \in Subnet, NEW type \in Family, CreateLeaf(q, i, up, type) PROVE IInv'
  <2> DEFINE col == [type |-> type, fit |-> TRUE]
  <2>1. up \in Parents(i) /\ col \in Columns(i)
    BY KindColumns DEF LeafRow
  <2>2. up \in Rows /\ rows[up].col.type = col.type /\ Create(q, i, up, col, "commit")
    BY <1>2 DEF CreateLeaf
  <2> HIDE DEF col
  <2> QED
    BY <1>1, <2>1, <2>2, CreateKeeps
<1>3. ASSUME NEW w \in Others, UpdateLeaf(q, i, w) PROVE IInv'
  BY <1>1, <1>3, OthersKeep DEF UpdateLeaf
<1>4. CASE DeleteLeaf(q, i)
  BY <1>4, DeleteKeeps DEF DeleteLeaf
<1> QED
  BY <1>2, <1>3, <1>4 DEF CreatePool, CreateReservation, CreateOption, UpdatePool,
       UpdateReservation, UpdateOption, DeletePool, DeleteReservation, DeleteOption

LEMMA DomainRoutes ==
  ASSUME IInv, NEW q \in Req, pc[q] = "idle", nRequests < MaxRequests, NEW i \in Domain,
         \/ \E up \in Instance, name \in Name : CreateDomain(q, i, up, NewDomain(name))
         \/ \E w \in Patch({"llm", "forward", "host", "fit"}, BOOLEAN) : UpdateDomain(q, i, w)
         \/ DeleteDomain(q, i) \/ EnableGroupware(q, i) \/ DisableGroupware(q, i)
  PROVE  IInv'
<1>1. i \in Id \ (Server \cup Subnet \cup Leaf \cup Mailbox \cup Alias \cup Message \cup User)
  BY Disjoint DEF Id
<1>2. ASSUME NEW up \in Instance, NEW name \in Name, CreateDomain(q, i, up, NewDomain(name))
      PROVE  IInv'
  <2>1. up \in Parents(i) /\ NewDomain(name) \in Columns(i)
    BY KindColumns DEF DomainRow, NewDomain
  <2> QED
    BY <1>1, <1>2, <2>1, CreateKeeps DEF CreateDomain
<1>3. ASSUME NEW w \in Patch({"llm", "forward", "host", "fit"}, BOOLEAN), UpdateDomain(q, i, w)
      PROVE  IInv'
  <2>1. DOMAIN w \subseteq {"llm", "forward", "host", "fit"} /\ \A c \in DOMAIN w : w[c] \in BOOLEAN
    BY DEF Patch
  <2>2. Fits(i, w)
    BY <2>1, DomainFits
  <2> QED
    BY <1>1, <1>3, <2>1, <2>2, UpdateKeeps DEF UpdateDomain
<1>4. CASE DeleteDomain(q, i)
  BY <1>4, DeleteKeeps DEF DeleteDomain
<1>5. CASE EnableGroupware(q, i) \/ DisableGroupware(q, i)
  BY <1>1, <1>5, NothingFits, TouchKeeps DEF EnableGroupware, DisableGroupware, NoWrite
<1> QED
  BY <1>2, <1>3, <1>4, <1>5

LEMMA BoxRoutes ==
  ASSUME IInv, NEW q \in Req, pc[q] = "idle", nRequests < MaxRequests, NEW i \in Mailbox \cup Alias,
         \/ i \in Mailbox /\ (\/ \E up \in Domain, name \in Name : CreateMailUser(q, i, up, name)
                              \/ \E w \in Others : UpdateMailUser(q, i, w)
                              \/ DeleteMailUser(q, i))
         \/ i \in Alias /\ (\/ \E up \in Domain, name \in Name : CreateAlias(q, i, up, name)
                            \/ \E w \in [{"name"} -> Name] \cup Others : UpdateAlias(q, i, w)
                            \/ DeleteAlias(q, i))
  PROVE  IInv'
<1>1. i \in Id \ (Server \cup Subnet \cup Leaf \cup Domain \cup Message \cup User \cup Model)
  BY Disjoint DEF Id
<1>2. ASSUME NEW up \in Domain, NEW name \in Name, Create(q, i, up, NewBox(name), "check") PROVE IInv'
  <2>1. up \in Parents(i) /\ NewBox(name) \in Columns(i)
    BY KindColumns DEF BoxRow, NewBox
  <2> QED
    BY <1>1, <1>2, <2>1, CreateKeeps
<1>3. ASSUME NEW w \in Others, UpdateMailUser(q, i, w) PROVE IInv'
  BY <1>1, <1>3, OthersKeep DEF UpdateMailUser
<1>4. ASSUME NEW w \in [{"name"} -> Name], UpdateAlias(q, i, w) PROVE IInv'
  <2>1. PICK n \in Name : w = [name |-> n]
    <3>1. w["name"] \in Name /\ w = [name |-> w["name"]]
      OBVIOUS
    <3> QED
      BY <3>1
  <2>2. i \in Alias \ Mailbox /\ Fits(i, w) /\ DOMAIN w = {"name"}
    BY <2>1, <1>4, Disjoint, NamedFits DEF UpdateAlias
  <2>3. Update(q, i, w, "check")
    BY <1>4, <2>2 DEF UpdateAlias
  <2> QED
    BY <1>1, <2>2, <2>3, UpdateKeeps
<1>6. ASSUME NEW w \in Others, UpdateAlias(q, i, w) PROVE IInv'
  <2>1. Update(q, i, w, "commit")
    BY <1>6, <1>1, OthersFit DEF UpdateAlias
  <2> QED
    BY <1>1, <2>1, OthersKeep
<1>5. CASE DeleteMailUser(q, i) \/ DeleteAlias(q, i)
  BY <1>5, DeleteKeeps DEF DeleteMailUser, DeleteAlias
<1> QED
  BY <1>2, <1>3, <1>4, <1>5, <1>6 DEF CreateMailUser, CreateAlias

LEMMA MessageRoutes ==
  ASSUME IInv, NEW q \in Req, pc[q] = "idle", nRequests < MaxRequests, NEW i \in Message,
         \/ \E up \in Domain : ClassifyInbound(q, i, up)
         \/ ReclassifyMessage(q, i)
         \/ \E a \in Action : MessageAction(q, i, a)
  PROVE  IInv'
<1>1. i \in Id \ (Server \cup Subnet \cup Leaf \cup Domain \cup Mailbox \cup Alias \cup User)
  BY Disjoint DEF Id
<1>2. ASSUME NEW up \in Domain, ClassifyInbound(q, i, up) PROVE IInv'
  <2> DEFINE col == [status |-> "pending", action |-> "pending"]
  <2>1. up \in Parents(i) /\ col \in Columns(i) /\ Coherent(col)
    BY KindColumns DEF MessageRow, Coherent
  <2>2. Create(q, i, up, col, "model") \/ Create(q, i, up, col, "commit")
    BY <1>2 DEF ClassifyInbound
  <2> HIDE DEF col
  <2> QED
    BY <1>1, <2>1, <2>2, CreateKeeps
<1>3. CASE ReclassifyMessage(q, i)
  BY <1>3, OtherKeeps DEF ReclassifyMessage
<1>4. ASSUME NEW a \in Action, MessageAction(q, i, a) PROVE IInv'
  <2> DEFINE w == [status |-> a, action |-> a]
  <2>1. w \in MessageRow /\ Coherent(w)
    BY RecordsAssumption DEF MessageRow, Coherent
  <2>2. Update(q, i, w, "commit") /\ i \in Rows
    BY <1>4 DEF MessageAction, Update
  <2> HIDE DEF w
  <2>3. Fits(i, w) /\ Put(rows[i].col, w) = w
    BY <2>1, <2>2, MessageFits, RowsTyped DEF IInv
  <2> QED
    BY <1>1, <2>1, <2>2, <2>3, UpdateKeeps
<1> QED
  BY <1>2, <1>3, <1>4

LEMMA LlmRoutes ==
  ASSUME IInv, NEW q \in Req, pc[q] = "idle", nRequests < MaxRequests, Llm(q)
  PROVE  IInv'
<1>1. \A i \in Provider \cup Model \cup Config :
        i \in Id \ (Server \cup Subnet \cup Leaf \cup Domain \cup Mailbox \cup Alias \cup Message \cup User)
  BY Disjoint DEF Id
<1>0. (Provider \cup Config) \cap Model = {}
  BY Disjoint
<1>2. ASSUME NEW i \in Provider,
             \/ CreateProvider(q, i) \/ DeleteProvider(q, i) \/ SyncProviderModels(q, i)
             \/ \E w \in Others : UpdateProvider(q, i, w)
      PROVE  IInv'
  <2>1. None \in Parents(i) /\ [fit |-> TRUE] \in Columns(i)
    BY KindColumns DEF ProviderRow
  <2>2. CASE CreateProvider(q, i)
    BY <1>1, <2>1, <2>2, CreateKeeps DEF CreateProvider
  <2>3. ASSUME NEW w \in Others, UpdateProvider(q, i, w) PROVE IInv'
    BY <1>1, <1>0, <2>3, OthersKeep DEF UpdateProvider
  <2>4. CASE DeleteProvider(q, i)
    BY <2>4, DeleteKeeps DEF DeleteProvider
  <2>5. CASE SyncProviderModels(q, i)
    BY <2>5, SyncKeeps
  <2> QED
    BY <1>2, <2>2, <2>3, <2>4, <2>5
<1>3. ASSUME NEW i \in Model,
             \/ \E name \in Name : UpdateModel(q, i, name) \/ \E up \in Provider : CreateModel(q, i, up, name)
             \/ DeleteModel(q, i)
      PROVE  IInv'
  <2>1. ASSUME NEW name \in Name, NEW up \in Provider, CreateModel(q, i, up, name) PROVE IInv'
    <3>1. up \in Parents(i) /\ [name |-> name] \in Columns(i)
      BY KindColumns DEF NamedRow
    <3> QED
      BY <1>1, <2>1, <3>1, CreateKeeps DEF CreateModel
  <2>2. ASSUME NEW name \in Name, UpdateModel(q, i, name) PROVE IInv'
    <3>1. Fits(i, [name |-> name])
      BY NamedFits
    <3> QED
      BY <1>1, <2>2, <3>1, UpdateKeeps DEF UpdateModel
  <2>3. CASE DeleteModel(q, i)
    BY <2>3, DeleteKeeps DEF DeleteModel
  <2> QED
    BY <1>3, <2>1, <2>2, <2>3
<1>4. ASSUME NEW i \in Config,
             \/ \E name \in Name : CreateConfig(q, i, name) \/ UpdateConfig(q, i, [name |-> name])
             \/ \E w \in Others : UpdateConfig(q, i, w)
             \/ \E p \in Provider \cup {None} : UpdateConfig(q, i, [provider |-> p])
             \/ \E o \in Model \cup {None} : UpdateConfig(q, i, [model |-> o])
             \/ DeleteConfig(q, i)
      PROVE  IInv'
  <2>1. ASSUME NEW name \in Name, CreateConfig(q, i, name) PROVE IInv'
    <3>1. None \in Parents(i) /\ NewConfig(name, None, None) \in Columns(i)
      BY KindColumns DEF ConfigRow, NewConfig
    <3> QED
      BY <1>1, <2>1, <3>1, CreateKeeps DEF CreateConfig
  <2>2. ASSUME NEW w, Fits(i, w), UpdateConfig(q, i, w) PROVE IInv'
    BY <1>1, <2>2, UpdateKeeps DEF UpdateConfig
  <2>3. CASE DeleteConfig(q, i)
    BY <2>3, DeleteKeeps DEF DeleteConfig
  <2>4. \A w \in Others : Fits(i, w)
    BY <1>0, <1>1, OthersFit
  <2> QED
    BY <1>4, <2>1, <2>2, <2>3, <2>4, ConfigFits
<1> QED
  BY <1>2, <1>3, <1>4 DEF Llm

\* Whatever a request asks for.
LEMMA RoutesKeep ==
  ASSUME IInv, NEW q \in Req, pc[q] = "idle", nRequests < MaxRequests,
         Dhcp(q) \/ Mail(q) \/ Accounts(q) \/ Llm(q)
  PROVE  IInv'
<1>1. CASE Dhcp(q)
  BY <1>1, ServerRoutes, SubnetRoutes, LeafRoutes DEF Dhcp
<1>2. CASE Mail(q)
  <2>1. CASE \E i \in Domain :
               \/ \E up \in Instance, name \in Name : CreateDomain(q, i, up, NewDomain(name))
               \/ \E w \in Patch({"llm", "forward", "host", "fit"}, BOOLEAN) : UpdateDomain(q, i, w)
               \/ DeleteDomain(q, i) \/ EnableGroupware(q, i) \/ DisableGroupware(q, i)
    BY <2>1, DomainRoutes
  <2>2. CASE \E i \in Message :
               \/ \E up \in Domain : ClassifyInbound(q, i, up)
               \/ ReclassifyMessage(q, i)
               \/ \E a \in Action : MessageAction(q, i, a)
    BY <2>2, MessageRoutes
  <2> QED
    BY <1>2, <2>1, <2>2, BoxRoutes DEF Mail
<1>3. CASE Accounts(q)
  BY <1>3, InstanceRoutes, UserRoutes DEF Accounts
<1> QED
  BY <1>1, <1>2, <1>3, LlmRoutes

-----------------------------------------------------------------------------
(* How a request goes on.                                                   *)

\* A request that runs either runs alone, or did not begin alone.
LEMMA Runner ==
  ASSUME IInv, NEW q \in Req, pc[q] # "idle"
  PROVE  /\ Typed /\ Carries(q) /\ q \in Running
         /\ solo = q \/ (solo = None /\ overlapped)
         /\ solo = q => Running = {q} /\ Lone(q) /\ InOrder(q) /\ solo # None
<1>1. q \in Running
  BY DEF Running
<1>2. Typed /\ Carries(q) /\ Alone
  BY <1>1 DEF IInv, Typed
<1>3. solo = q \/ (solo = None /\ overlapped)
  BY <1>1, <1>2 DEF Alone
<1>4. ASSUME solo = q PROVE Running = {q} /\ Lone(q) /\ InOrder(q) /\ solo # None
  <2>1. solo # None
    BY <1>4, <1>2, RunningTyped
  <2> QED
    BY <2>1, <1>4, <1>1, <1>2 DEF Alone, IInv
<1> QED
  BY <1>1, <1>2, <1>3, <1>4

\* A step of a request that leaves the rows alone.
Moved(q, o, stage) ==
  /\ pc' = [r \in Req |-> IF r = q THEN stage ELSE pc[r]]
  /\ op' = [r \in Req |-> IF r = q THEN o ELSE op[r]]
  /\ UNCHANGED <<rows, used, history, nRequests>>

LEMMA MovedTyped ==
  ASSUME Typed, NEW q \in Req, pc[q] # "idle", NEW o,
         NEW stage \in {"idle", "check", "model", "commit", "after"}, Moved(q, o, stage),
         Shaped(o), o.kind \in Kind, o.id \in Id \cup {None}, o.up \in Id \cup {None},
         o.loaded \subseteq Id, o.told \in {"nothing", "ok", "error"},
         stage # "idle" => Carries(q)'
  PROVE  Typed'
<1>1. DOMAIN rows' = Id /\ Rows' \subseteq used' /\ used' \subseteq Id
  BY DEF Moved, Typed, TypeOK, Rows
<1>2. \A i \in Rows' : rows'[i] \in Row(i)
  BY DEF Moved, Typed, TypeOK, Rows
<1>3. pc' \in [Req -> {"idle", "check", "model", "commit", "after"}]
  BY DEF Moved, Typed, TypeOK
<1>4. \A r \in Req :
        /\ op'[r].kind \in Kind /\ op'[r].id \in Id \cup {None} /\ op'[r].up \in Id \cup {None}
        /\ op'[r].loaded \subseteq Id /\ op'[r].told \in {"nothing", "ok", "error"}
  <2> TAKE r \in Req
  <2>1. CASE r = q
    BY <2>1 DEF Moved
  <2>2. CASE r # q
    <3>1. op'[r] = op[r]
      BY <2>2 DEF Moved
    <3> QED
      BY <3>1 DEF Typed, TypeOK
  <2> QED
    BY <2>1, <2>2
<1>5. solo' \in Req \cup {None} /\ changed' \in BOOLEAN /\ nRequests' \in 0 .. MaxRequests
  BY DEF Moved, history, Typed, TypeOK
<1>6. overlapped' \in BOOLEAN
  BY Zenon DEF Moved, history, Typed, TypeOK
<1>7. TypeOK'
  BY <1>1, <1>2, <1>3, <1>4, <1>5, <1>6 DEF TypeOK
<1>8. Shapes'
  <2>1. op' = [r \in Req |-> op'[r]] /\ \A r \in Req : Shaped(op'[r])
    BY DEF Moved, Typed, Shapes
  <2>2. rows' = [i \in Id |-> rows'[i]]
    BY DEF Moved, Typed, Shapes
  <2> QED
    BY <2>1, <2>2 DEF Shapes
<1>9. ASSUME NEW r \in Running' PROVE Carries(r)'
  <2>1. CASE r = q
    BY <2>1, <1>9 DEF Moved, Running
  <2>2. CASE r # q
    <3>1. r \in Running /\ op'[r] = op[r] /\ pc'[r] = pc[r]
      BY <2>2, <1>9 DEF Moved, Running
    <3> QED
      BY <3>1 DEF Typed, Carries
  <2> QED
    BY <2>1, <2>2
<1> QED
  BY <1>7, <1>8, <1>9 DEF Typed

\* What it leaves of the rows' order.
LEMMA MovedHeld ==
  ASSUME IInv, NEW q \in Req, pc[q] # "idle", NEW o, NEW stage, Moved(q, o, stage)
  PROVE  Held' /\ OneByOne' /\ Alone' /\ Rows' = Rows /\ Running' \subseteq Running
<1>1. rows' = rows /\ overlapped' = overlapped /\ solo' = solo
  BY DEF Moved, history
<1>2. Rows' = Rows
  BY <1>1 DEF Rows
<1>3. Held'
  BY <1>1, <1>2 DEF IInv, Held
<1>4. OneByOne'
  BY <1>1, <1>2 DEF IInv, OneByOne
<1>5. Running' \subseteq Running
  BY DEF Moved, Running
<1>6. Alone'
  BY <1>1, <1>5 DEF IInv, Alone
<1> QED
  BY <1>2, <1>3, <1>4, <1>5, <1>6

LEMMA MoveKeeps ==
  ASSUME IInv, NEW q \in Req, pc[q] # "idle", NEW o, NEW stage \in {"check", "commit"},
         Moved(q, o, stage), Typed', solo = q => Prepared(q)' /\ (~overlapped => Fitting(q)')
  PROVE  IInv'
<1>1. Held' /\ OneByOne' /\ Alone' /\ Running' \subseteq Running
  BY MovedHeld
<1>2. /\ Typed /\ (solo = q \/ (solo = None /\ overlapped))
      /\ solo = q => Running = {q} /\ solo # None
  BY Runner
<1>3. solo' = solo /\ pc'[q] = stage /\ overlapped' = overlapped
  BY DEF Moved, history
<1>4. Ended' = {}
  BY <1>2, <1>3, RunningTyped DEF Ended
<1>5. Heals' /\ ErrorsChangeNothing'
  BY <1>4 DEF Heals, ErrorsChangeNothing
<1>6. ASSUME NEW r \in Running', solo' = r PROVE Lone(r)' /\ InOrder(r)'
  <2>1. r = q /\ solo = q
    BY <1>6, <1>1, <1>2, <1>3, RunningTyped
  <2>2. Lone(q)' /\ InOrder(q)'
    BY <2>1, <1>3 DEF Lone, InOrder
  <2> QED
    BY <2>1, <2>2
<1> QED
  BY <1>1, <1>5, <1>6 DEF IInv

\* What must be so when a request that ran alone is told a word.
Tells(q, word) ==
  LET i == op[q].id IN
  /\ word = "ok" /\ i \in Rows /\ op[q].kind \notin {"delete", "action"} =>
       Sound(i, rows[i].col) /\ (op[q].kind = "sync" => DOMAIN op[q].seen \subseteq ModelNames(i))
  /\ word = "error" /\ i \notin User \cup Instance => ~changed \/ Unfit(i)

LEMMA FinishKeeps ==
  ASSUME IInv, NEW q \in Req, pc[q] # "idle", NEW word \in {"ok", "error"}, Finish(q, word),
         UNCHANGED <<rows, used, history, nRequests>>, solo = q => Tells(q, word)
  PROVE  IInv'
<1> DEFINE o == IF solo = q THEN [op[q] EXCEPT !.told = word] ELSE Rest
<1>0. /\ Typed /\ (solo = q \/ (solo = None /\ overlapped)) /\ Carries(q)
      /\ solo = q => Running = {q} /\ solo # None
  BY Runner
<1>1. op = [r \in Req |-> op[r]] /\ pc = [r \in Req |-> pc[r]]
  BY <1>0 DEF Typed, Shapes, TypeOK
<1>2. Moved(q, o, "idle")
  BY <1>1 DEF Moved, Finish, Goto
<1>3. ASSUME solo = q
      PROVE  /\ Shaped(o) /\ o.kind = op[q].kind /\ o.id = op[q].id /\ o.up = op[q].up
             /\ o.seen = op[q].seen /\ o.loaded = op[q].loaded /\ o.told = word
  <2>1. /\ DOMAIN op[q] = {"kind", "id", "up", "seen", "write", "loaded", "told"}
        /\ Shaped(op[q])
    BY <1>0 DEF Typed, Shapes, Shaped
  <2>2. o = [op[q] EXCEPT !.told = word]
    BY <1>3
  <2> HIDE DEF o
  <2>3. /\ o.kind = op[q].kind /\ o.id = op[q].id /\ o.up = op[q].up /\ o.write = op[q].write
        /\ o.seen = op[q].seen /\ o.loaded = op[q].loaded /\ o.told = word
    BY <2>1, <2>2
  <2>4. o = [kind |-> o.kind, id |-> o.id, up |-> o.up, seen |-> o.seen, write |-> o.write,
             loaded |-> o.loaded, told |-> o.told]
    BY <2>1, <2>2
  <2> QED
    BY <2>3, <2>4 DEF Shaped
<1>4. /\ Shaped(o) /\ o.kind \in Kind /\ o.id \in Id \cup {None} /\ o.up \in Id \cup {None}
      /\ o.loaded \subseteq Id /\ o.told \in {"nothing", "ok", "error"}
  <2>1. CASE solo = q
    <3>1. /\ op[q].kind \in Kind /\ op[q].id \in Id \cup {None} /\ op[q].up \in Id \cup {None}
          /\ op[q].loaded \subseteq Id
      BY <1>0 DEF Typed, TypeOK
    <3> HIDE DEF o
    <3> QED
      BY <2>1, <3>1, <1>3
  <2>2. CASE solo # q
    BY <2>2 DEF Rest, Kind, Shaped
  <2> QED
    BY <2>1, <2>2
<1> HIDE DEF o
<1>5. Typed'
  BY <1>0, <1>2, <1>4, MovedTyped
<1>6. Held' /\ OneByOne' /\ Alone' /\ Rows' = Rows /\ Running' \subseteq Running
  BY <1>2, MovedHeld
<1>7. /\ rows' = rows /\ solo' = solo /\ changed' = changed /\ op'[q] = o /\ pc'[q] = "idle"
  BY <1>2 DEF Moved, history
<1>8. ASSUME NEW r \in Ended' PROVE r = q /\ solo = q
  BY <1>8, <1>7, <1>0, RunningTyped DEF Ended
<1>9. Heals'
  <2>1. solo = q =>
          /\ op'[q].id = op[q].id /\ op'[q].kind = op[q].kind /\ op'[q].seen = op[q].seen
          /\ op'[q].told = word
    BY <1>3, <1>7
  <2> SUFFICES ASSUME NEW i, i = op[q].id, solo = q, word = "ok", i \in Rows,
                      op[q].kind \notin {"delete", "action"}
               PROVE  /\ Valid(rows[i].col)
                      /\ i \in Message => Coherent(rows[i].col)
                      /\ op[q].kind = "sync" => DOMAIN op[q].seen \subseteq ModelNames(i)'
    BY <2>1, <1>6, <1>7, <1>8 DEF Heals
  <2>2. Sound(i, rows[i].col) /\ (op[q].kind = "sync" => DOMAIN op[q].seen \subseteq ModelNames(i))
    BY DEF Tells
  <2>3. ModelNames(i)' = ModelNames(i)
    BY <1>6, <1>7 DEF ModelNames, Below
  <2> QED
    BY <2>2, <2>3 DEF Sound
<1>10. ErrorsChangeNothing'
  <2> SUFFICES ASSUME solo = q, op'[q].told = "error", op'[q].id \notin User \cup Instance
               PROVE  ~changed' \/ Unfit(op[q].id)'
    BY <1>3, <1>7, <1>8 DEF ErrorsChangeNothing
  <2>1. Unfit(op[q].id)' <=> Unfit(op[q].id)
    BY <1>3, <1>6, <1>7 DEF Unfit
  <2> QED
    BY <1>3, <1>7, <2>1 DEF Tells
<1>11. ASSUME NEW r \in Running', solo' = r PROVE FALSE
  BY <1>11, <1>6, <1>7, <1>0, RunningTyped DEF Running
<1> QED
  BY <1>5, <1>6, <1>9, <1>10, <1>11 DEF IInv

\* One field of a request set, the others are what they were.
LEMMA WriteSet ==
  ASSUME NEW o, Shaped(o), NEW x
  PROVE  LET p == [o EXCEPT !.write = x] IN
         /\ Shaped(p) /\ p.kind = o.kind /\ p.id = o.id /\ p.up = o.up /\ p.seen = o.seen
         /\ p.write = x /\ p.loaded = o.loaded /\ p.told = o.told
<1> DEFINE p == [o EXCEPT !.write = x]
<1>1. DOMAIN o = {"kind", "id", "up", "seen", "write", "loaded", "told"}
  BY DEF Shaped
<1>2. p = [c \in DOMAIN o |-> IF c = "write" THEN x ELSE o[c]]
  OBVIOUS
<1> HIDE DEF p
<1>3. /\ p.kind = o.kind /\ p.id = o.id /\ p.up = o.up /\ p.seen = o.seen /\ p.write = x
      /\ p.loaded = o.loaded /\ p.told = o.told
  BY <1>1, <1>2
<1>4. Shaped(p)
  BY <1>1, <1>2 DEF Shaped
<1> QED
  BY <1>3, <1>4 DEF p

LEMMA SeenSet ==
  ASSUME NEW o, Shaped(o), NEW x
  PROVE  LET p == [o EXCEPT !.seen = x] IN
         /\ Shaped(p) /\ p.kind = o.kind /\ p.id = o.id /\ p.up = o.up /\ p.seen = x
         /\ p.write = o.write /\ p.loaded = o.loaded /\ p.told = o.told
<1> DEFINE p == [o EXCEPT !.seen = x]
<1>1. DOMAIN o = {"kind", "id", "up", "seen", "write", "loaded", "told"}
  BY DEF Shaped
<1>2. p = [c \in DOMAIN o |-> IF c = "seen" THEN x ELSE o[c]]
  OBVIOUS
<1> HIDE DEF p
<1>3. /\ p.kind = o.kind /\ p.id = o.id /\ p.up = o.up /\ p.seen = x /\ p.write = o.write
      /\ p.loaded = o.loaded /\ p.told = o.told
  BY <1>1, <1>2
<1>4. Shaped(p)
  BY <1>1, <1>2 DEF Shaped
<1> QED
  BY <1>3, <1>4 DEF p

LEMMA LoadedSet ==
  ASSUME NEW o, Shaped(o), NEW x
  PROVE  LET p == [o EXCEPT !.loaded = x] IN
         /\ Shaped(p) /\ p.kind = o.kind /\ p.id = o.id /\ p.up = o.up /\ p.seen = o.seen
         /\ p.write = o.write /\ p.loaded = x /\ p.told = o.told
<1> DEFINE p == [o EXCEPT !.loaded = x]
<1>1. DOMAIN o = {"kind", "id", "up", "seen", "write", "loaded", "told"}
  BY DEF Shaped
<1>2. p = [c \in DOMAIN o |-> IF c = "loaded" THEN x ELSE o[c]]
  OBVIOUS
<1> HIDE DEF p
<1>3. /\ p.kind = o.kind /\ p.id = o.id /\ p.up = o.up /\ p.seen = o.seen /\ p.write = o.write
      /\ p.loaded = x /\ p.told = o.told
  BY <1>1, <1>2
<1>4. Shaped(p)
  BY <1>1, <1>2 DEF Shaped
<1> QED
  BY <1>3, <1>4 DEF p

\* A request that goes on with another record of the same kind and row.
Resumes(q, o, stage) ==
  /\ pc'[q] = stage /\ op'[q] = o /\ rows' = rows /\ Rows' = Rows /\ changed' = changed
  /\ Carries(q)' /\ (solo = q => Prepared(q)' /\ (~overlapped => Fitting(q)')) => IInv'

LEMMA ResumeIs ==
  ASSUME IInv, NEW q \in Req, pc[q] # "idle", NEW o, NEW stage \in {"check", "commit"},
         pc' = [pc EXCEPT ![q] = stage], op' = [op EXCEPT ![q] = o],
         UNCHANGED <<rows, used, history, nRequests>>,
         Shaped(o), o.kind = op[q].kind, o.id = op[q].id, o.up = op[q].up, o.told = op[q].told,
         o.loaded \subseteq Id
  PROVE  Resumes(q, o, stage)
<1>0. Typed
  BY Runner
<1>1. op = [r \in Req |-> op[r]] /\ pc = [r \in Req |-> pc[r]]
  BY <1>0 DEF Typed, Shapes, TypeOK
<1>2. Moved(q, o, stage)
  BY <1>1 DEF Moved
<1>3. /\ o.kind \in Kind /\ o.id \in Id \cup {None} /\ o.up \in Id \cup {None}
      /\ o.told \in {"nothing", "ok", "error"}
  BY <1>0 DEF Typed, TypeOK
<1>4. Carries(q)' => Typed'
  BY <1>0, <1>2, <1>3, MovedTyped
<1>5. ASSUME Carries(q)', solo = q => Prepared(q)' /\ (~overlapped => Fitting(q)') PROVE IInv'
  BY <1>2, <1>4, <1>5, MoveKeeps
<1>6. Rows' = Rows
  BY <1>2, MovedHeld
<1> QED
  BY <1>1, <1>2, <1>5, <1>6 DEF Resumes, Moved, history

\* The steps, one by one.  A request that runs alone and is refused has written nothing.
LEMMA ErrorTold ==
  ASSUME IInv, NEW q \in Req, pc[q] \notin {"idle", "after"}, Finish(q, "error"),
         UNCHANGED <<rows, used, history, nRequests>>
  PROVE  IInv'
<1>1. solo = q => ~changed
  BY Runner DEF Lone, Prepared
<1>2. solo = q => Tells(q, "error")
  BY <1>1 DEF Tells
<1> QED
  BY <1>2, FinishKeeps

LEMMA ClassifiedKeeps == ASSUME IInv, NEW q \in Req, Classified(q) PROVE IInv'
<1>0. /\ pc[q] = "model" /\ op[q].kind # "sync"
      /\ UNCHANGED <<rows, used, history, nRequests>>
  BY DEF Classified
<1>1. Typed /\ Carries(q) /\ (solo = q => Prepared(q))
  BY <1>0, Runner DEF Lone
<1>2. /\ op[q].kind \in {"create", "classify"} /\ op[q].id \in Message /\ op[q].loaded \subseteq Id
      /\ Shaped(op[q]) /\ op = [r \in Req |-> op[r]]
  BY <1>0, <1>1 DEF Carries, Typed, Shapes, TypeOK
<1>3. ASSUME NEW a \in Action, op' = [op EXCEPT ![q].write = Verdict(a)], Goto(q, "commit") PROVE IInv'
  <2> DEFINE o == [op[q] EXCEPT !.write = Verdict(a)]
  <2>1. /\ Shaped(o) /\ o.kind = op[q].kind /\ o.id = op[q].id /\ o.up = op[q].up
        /\ o.seen = op[q].seen /\ o.write = Verdict(a) /\ o.loaded = op[q].loaded
        /\ o.told = op[q].told
    BY <1>2, WriteSet
  <2>2. op' = [op EXCEPT ![q] = o]
    BY <1>3
  <2> HIDE DEF o
  <2>3. Resumes(q, o, "commit")
    BY <1>0, <1>2, <1>3, <2>1, <2>2, ResumeIs DEF Goto
  <2>4. Verdict(a) \in MessageRow /\ Verdict(a) \in Columns(op[q].id)
    <3>1. Verdict(a) \in MessageRow
      BY DEF Verdict, MessageRow
    <3> QED
      BY <3>1, <1>2, KindColumns
  <2>5. Sound(op[q].id, Verdict(a))
    <3>1. a # "pending"
      BY RecordsAssumption
    <3> QED
      BY <3>1 DEF Sound, Valid, Coherent, Verdict
  <2>6. Fits(op[q].id, Verdict(a)) /\ \A x \in Columns(op[q].id) : Put(x, Verdict(a)) = Verdict(a)
    BY <1>2, <2>4, MessageFits
  <2>7. Carries(q)'
    BY <1>1, <1>2, <2>1, <2>3, <2>4, <2>6 DEF Resumes, Carries
  <2>8. ASSUME solo = q PROVE Prepared(q)'
    <3>1. CASE op[q].kind = "create"
      BY <3>1, <2>8, <1>1, <2>1, <2>3, <2>5 DEF Resumes, Prepared
    <3>2. CASE op[q].kind = "classify"
      <4>1. op[q].id \in Rows /\ op[q].seen = rows[op[q].id].col /\ ~changed
        BY <3>2, <2>8, <1>1 DEF Prepared
      <4>2. Put(op[q].seen, Verdict(a)) = Verdict(a)
        BY <4>1, <2>6, <1>1, RowsTyped
      <4> QED
        BY <3>2, <4>1, <4>2, <2>1, <2>3, <2>5 DEF Resumes, Prepared
    <3> QED
      BY <3>1, <3>2, <1>2
  <2>9. Fitting(q)'
    BY <1>2, <2>1, <2>3, Disjoint DEF Resumes, Fitting
  <2> QED
    BY <2>3, <2>7, <2>8, <2>9 DEF Resumes
<1>4. CASE op[q].kind = "create" /\ Goto(q, "commit") /\ UNCHANGED op
  <2>1. op' = [op EXCEPT ![q] = op[q]]
    BY <1>2, <1>4
  <2>2. Resumes(q, op[q], "commit")
    BY <1>0, <1>2, <1>4, <2>1, ResumeIs DEF Goto
  <2>3. Carries(q)'
    BY <1>1, <1>2, <1>4, <2>2 DEF Resumes, Carries
  <2>4. solo = q => Prepared(q)'
    BY <1>1, <1>4, <2>2 DEF Resumes, Prepared
  <2>5. Fitting(q)'
    BY <1>2, <1>4, <2>2, Disjoint DEF Resumes, Fitting
  <2> QED
    BY <2>2, <2>3, <2>4, <2>5 DEF Resumes
<1>5. CASE Finish(q, "error")
  BY <1>0, <1>5, ErrorTold
<1> QED
  BY <1>3, <1>4, <1>5 DEF Classified

LEMMA DiscoveredKeeps == ASSUME IInv, NEW q \in Req, Discovered(q) PROVE IInv'
<1>0. /\ pc[q] = "model" /\ op[q].kind = "sync"
      /\ UNCHANGED <<rows, used, history, nRequests>>
  BY DEF Discovered
<1>1. Typed /\ Carries(q) /\ (solo = q => Prepared(q))
  BY <1>0, Runner DEF Lone
<1>2. op[q].loaded \subseteq Id /\ Shaped(op[q]) /\ op = [r \in Req |-> op[r]]
  BY <1>1 DEF Typed, Shapes, TypeOK
<1>3. ASSUME NEW names \in SUBSET Name, op' = [op EXCEPT ![q].seen = [n \in names |-> n]],
             Goto(q, "check")
      PROVE  IInv'
  <2> DEFINE o == [op[q] EXCEPT !.seen = [n \in names |-> n]]
  <2>1. /\ Shaped(o) /\ o.kind = op[q].kind /\ o.id = op[q].id /\ o.up = op[q].up
        /\ o.seen = [n \in names |-> n] /\ o.write = op[q].write /\ o.loaded = op[q].loaded
        /\ o.told = op[q].told
    BY <1>2, SeenSet
  <2>2. op' = [op EXCEPT ![q] = o]
    BY <1>3
  <2> HIDE DEF o
  <2>3. Resumes(q, o, "check")
    BY <1>0, <1>2, <1>3, <2>1, <2>2, ResumeIs DEF Goto
  <2>4. Carries(q)'
    BY <1>0, <1>1, <2>1, <2>3 DEF Resumes, Carries
  <2>5. solo = q => Prepared(q)'
    BY <1>0, <1>1, <2>1, <2>3 DEF Resumes, Prepared
  <2>6. Fitting(q)'
    BY <1>0, <2>1, <2>3 DEF Resumes, Fitting
  <2> QED
    BY <2>3, <2>4, <2>5, <2>6 DEF Resumes
<1>4. CASE Finish(q, "error")
  BY <1>0, <1>4, ErrorTold
<1> QED
  BY <1>3, <1>4 DEF Discovered

\* A sync compares what the provider has with the registry.
LEMMA MissingKeeps ==
  ASSUME IInv, NEW q \in Req, pc[q] = "check", op[q].kind = "sync", Missing(q),
         UNCHANGED <<rows, used, history, nRequests>>
  PROVE  IInv'
<1> DEFINE i == op[q].id  new == DOMAIN op[q].seen \ ModelNames(i)
<1>1. Typed /\ Carries(q) /\ (solo = q => Prepared(q))
  BY Runner DEF Lone
<1>2. op[q].loaded \subseteq Id /\ Shaped(op[q]) /\ op = [r \in Req |-> op[r]]
  BY <1>1 DEF Typed, Shapes, TypeOK
<1>3. CASE new = {} /\ Finish(q, "ok")
  <2>1. i \in Provider
    BY <1>1 DEF Carries
  <2>2. i \in Rows => Sound(i, rows[i].col)
    <3>1. i \in Rows => rows[i].col \in ProviderRow
      BY <1>1, <2>1, RowsTyped, KindColumns
    <3> QED
      BY <3>1, <2>1, Disjoint DEF Sound, Valid, ProviderRow
  <2>3. Tells(q, "ok")
    BY <1>3, <2>2 DEF Tells
  <2> QED
    BY <1>3, <2>3, FinishKeeps
<1>4. CASE Goto(q, "commit") /\ op' = [op EXCEPT ![q].write = [n \in new |-> n]]
  <2> DEFINE o == [op[q] EXCEPT !.write = [n \in new |-> n]]
  <2>1. /\ Shaped(o) /\ o.kind = op[q].kind /\ o.id = op[q].id /\ o.up = op[q].up
        /\ o.seen = op[q].seen /\ o.write = [n \in new |-> n] /\ o.loaded = op[q].loaded
        /\ o.told = op[q].told
    BY <1>2, WriteSet
  <2>2. op' = [op EXCEPT ![q] = o]
    BY <1>4
  <2> HIDE DEF o
  <2>3. Resumes(q, o, "commit")
    BY <1>2, <1>4, <2>1, <2>2, ResumeIs DEF Goto
  <2>4. Carries(q)'
    <3>1. i \in Provider /\ DOMAIN op[q].seen \subseteq Name
      BY <1>1 DEF Carries
    <3>2. DOMAIN o.write = new
      BY <2>1
    <3>3. DOMAIN o.write \subseteq Name
      BY <3>1, <3>2
    <3> HIDE DEF new, i
    <3>4. o.id \in Provider /\ o.kind = "sync" /\ DOMAIN o.seen \subseteq Name
      BY <3>1, <2>1 DEF i
    <3>5. o.id \in Id
      BY <3>4 DEF Id
    <3>6. op'[q] = o /\ pc'[q] = "commit"
      BY <2>3 DEF Resumes
    <3> QED
      BY <3>3, <3>4, <3>5, <3>6 DEF Carries
  <2>5. ModelNames(i)' = ModelNames(i)
    <3>1. op'[q].id = op[q].id /\ rows' = rows /\ Rows' = Rows
      BY <2>1, <2>3 DEF Resumes
    <3> QED
      BY <3>1 DEF ModelNames, Below
  <2>6. solo = q => Prepared(q)'
    <3>1. DOMAIN op[q].seen \subseteq ModelNames(i) \cup DOMAIN [n \in new |-> n]
      OBVIOUS
    <3> QED
      BY <3>1, <1>1, <2>1, <2>3, <2>5 DEF Resumes, Prepared
  <2>7. Fitting(q)'
    BY <2>1, <2>3 DEF Resumes, Fitting
  <2> QED
    BY <2>3, <2>4, <2>6, <2>7 DEF Resumes
<1> QED
  BY <1>3, <1>4 DEF Missing

\* What a delete loads are rows.
LEMMA LoadsKeeps ==
  ASSUME IInv, NEW q \in Req, pc[q] = "check", op[q].kind = "delete", Goto(q, "commit"),
         op' = [op EXCEPT ![q].loaded = BelowAll(op[q].id)],
         UNCHANGED <<rows, used, history, nRequests>>
  PROVE  IInv'
<1> DEFINE o == [op[q] EXCEPT !.loaded = BelowAll(op[q].id)]
<1>1. Typed /\ Carries(q) /\ (solo = q => Prepared(q))
  BY Runner DEF Lone
<1>2. Shaped(op[q]) /\ op = [r \in Req |-> op[r]]
  BY <1>1 DEF Typed, Shapes
<1>3. BelowAll(op[q].id) \subseteq Id
  BY DEF BelowAll, Below, Rows
<1>4. /\ Shaped(o) /\ o.kind = op[q].kind /\ o.id = op[q].id /\ o.up = op[q].up
      /\ o.seen = op[q].seen /\ o.write = op[q].write /\ o.loaded = BelowAll(op[q].id)
      /\ o.told = op[q].told
  BY <1>2, LoadedSet
<1>5. op' = [op EXCEPT ![q] = o]
  OBVIOUS
<1> HIDE DEF o
<1>6. Resumes(q, o, "commit")
  BY <1>3, <1>4, <1>5, ResumeIs DEF Goto
<1>7. Carries(q)'
  BY <1>1, <1>4, <1>6 DEF Resumes, Carries
<1>8. solo = q => Prepared(q)'
  BY <1>1, <1>4, <1>6 DEF Resumes, Prepared
<1>9. Fitting(q)'
  BY <1>4, <1>6 DEF Resumes, Fitting
<1> QED
  BY <1>6, <1>7, <1>8, <1>9 DEF Resumes

\* What has been compared with the rows around it is written next.
LEMMA PassesKeeps ==
  ASSUME IInv, NEW q \in Req, pc[q] = "check", op[q].kind \notin {"delete", "sync"},
         Goto(q, "commit"), UNCHANGED op, UNCHANGED <<rows, used, history, nRequests>>,
         op[q].id \in Server => ~Refused(q), op[q].id \notin Server => Namesakes(q) = {}
  PROVE  IInv'
<1>1. Typed /\ Carries(q) /\ (solo = q => Prepared(q) /\ (~overlapped => Fitting(q)))
  BY Runner DEF Lone, InOrder
<1>2. /\ Shaped(op[q]) /\ op = [r \in Req |-> op[r]] /\ op[q].loaded \subseteq Id
      /\ op[q].kind \in {"create", "update"}
      /\ op[q].id \in Server \cup User \cup Domain \cup Mailbox \cup Alias
  BY <1>1 DEF Typed, Shapes, TypeOK, Carries
<1>3. op' = [op EXCEPT ![q] = op[q]]
  BY <1>2
<1>4. Resumes(q, op[q], "commit")
  BY <1>2, <1>3, ResumeIs DEF Goto
<1>5. Carries(q)'
  BY <1>1, <1>2, <1>4 DEF Resumes, Carries
<1>6. solo = q => Prepared(q)'
  BY <1>1, <1>2, <1>4 DEF Resumes, Prepared
<1>7. ASSUME solo = q, ~overlapped PROVE Fitting(q)'
  <2>1. Refused(q)' = Refused(q)
    BY <1>4 DEF Resumes, Refused, Below
  <2>2. Namesakes(q)' = Namesakes(q)
    BY <1>4 DEF Resumes, Namesakes
  <2>3. pc[q] = "check" /\ Fitting(q)
    BY <1>1, <1>7
  <2>4. op'[q] = op[q] /\ rows' = rows /\ Rows' = Rows
    BY <1>4 DEF Resumes
  <2> QED
    BY <2>1, <2>2, <2>3, <2>4, <1>2, Disjoint DEF Fitting
<1> QED
  BY <1>4, <1>5, <1>6, <1>7 DEF Resumes

LEMMA CheckKeeps == ASSUME IInv, NEW q \in Req, Check(q) PROVE IInv'
<1>0. pc[q] = "check" /\ UNCHANGED <<rows, used, history, nRequests>>
  BY DEF Check
<1>1. Carries(q)
  BY <1>0, Runner
<1>2. CASE op[q].kind = "sync" /\ Missing(q)
  BY <1>0, <1>2, MissingKeeps
<1>3. CASE /\ op[q].kind = "delete" /\ Goto(q, "commit")
           /\ op' = [op EXCEPT ![q].loaded = BelowAll(op[q].id)]
  BY <1>0, <1>3, LoadsKeeps
<1>4. CASE Finish(q, "error")
  BY <1>0, <1>4, ErrorTold
<1>5. CASE /\ op[q].kind # "delete" /\ op[q].id \in Server /\ ~Refused(q)
           /\ Goto(q, "commit") /\ UNCHANGED op
  <2>1. op[q].kind # "sync"
    BY <1>1, <1>5, Disjoint DEF Carries
  <2> QED
    BY <1>0, <1>5, <2>1, PassesKeeps
<1>6. CASE /\ op[q].kind \notin {"delete", "sync"} /\ op[q].id \notin Server /\ Namesakes(q) = {}
           /\ Goto(q, "commit") /\ UNCHANGED op
  BY <1>0, <1>6, PassesKeeps
<1> QED
  BY <1>2, <1>3, <1>4, <1>5, <1>6 DEF Check

LEMMA AfterKeeps == ASSUME IInv, NEW q \in Req, After(q) PROVE IInv'
<1> DEFINE word == IF LogsChange(q) /\ There(q) /\ Answers(q) THEN "ok" ELSE "error"
<1>0. pc[q] = "after" /\ UNCHANGED <<rows, used, history, nRequests>> /\ Finish(q, word)
  BY DEF After
<1>1. Typed /\ Carries(q) /\ (solo = q => Written(q))
  BY <1>0, Runner DEF Lone
<1>2. op[q].kind \in Kind /\ op[q].id \in Id
  BY <1>1 DEF Typed, TypeOK, Carries
<1>3. ASSUME solo = q PROVE Tells(q, word)
  <2>1. Written(q)
    BY <1>1, <1>3
  <2>2. ASSUME op[q].id \notin User \cup Instance PROVE word = "ok" \/ Unfit(op[q].id)
    BY <1>2, <2>1, <2>2 DEF LogsChange, There, Answers, Written, Kind
  <2>3. ASSUME op[q].id \in Rows, op[q].kind \notin {"delete", "action"}
        PROVE  /\ Sound(op[q].id, rows[op[q].id].col)
               /\ op[q].kind = "sync" => DOMAIN op[q].seen \subseteq ModelNames(op[q].id)
    <3>1. CASE op[q].kind = "sync"
      <4>1. rows[op[q].id].col \in ProviderRow /\ op[q].id \notin Message
        BY <1>1, <2>3, <3>1, RowsTyped, KindColumns, Disjoint DEF Carries
      <4> QED
        BY <4>1, <2>1, <3>1 DEF Sound, Valid, ProviderRow, Written
    <3>2. CASE op[q].kind \in {"create", "update", "classify"}
      BY <3>2, <2>1 DEF Written
    <3> QED
      BY <3>1, <3>2, <2>3, <1>2 DEF Kind
  <2> HIDE DEF word
  <2> QED
    BY <2>2, <2>3 DEF Tells
<1>4. word \in {"ok", "error"}
  OBVIOUS
<1> HIDE DEF word
<1> QED
  BY <1>0, <1>3, <1>4, FinishKeeps

-----------------------------------------------------------------------------
(* The write.                                                               *)

\* A request that has written, whatever it was.
LEMMA WriteKeeps ==
  ASSUME IInv, NEW q \in Req, pc[q] = "commit", Goto(q, "after"), UNCHANGED op,
         changed' = (solo = q), UNCHANGED <<solo, overlapped, nRequests>>,
         rows' = [j \in Id |-> rows'[j]], Rows' \subseteq used', used' \subseteq Id,
         \A j \in Rows' : rows'[j] \in Row(j),
         Held', ~overlapped => OneByOne', solo = q => Written(q)'
  PROVE  IInv'
<1>0. /\ Typed /\ Carries(q) /\ (solo = q \/ (solo = None /\ overlapped))
      /\ solo = q => Running = {q} /\ solo # None
  BY Runner
<1>1. op = [r \in Req |-> op[r]] /\ pc = [r \in Req |-> pc[r]]
  BY <1>0 DEF Typed, Shapes, TypeOK
<1>2. /\ \A r \in Req : pc'[r] = (IF r = q THEN "after" ELSE pc[r])
      /\ Running' = Running /\ op' = op /\ solo' = solo /\ overlapped' = overlapped
  BY <1>1 DEF Goto, Running
<1>3. TypeOK'
  <2>1. DOMAIN rows' = Id /\ Rows' \subseteq used' /\ used' \subseteq Id
    OBVIOUS
  <2>2. pc' \in [Req -> {"idle", "check", "model", "commit", "after"}]
    BY <1>0 DEF Goto, Typed, TypeOK
  <2>3. \A r \in Req :
          /\ op'[r].kind \in Kind /\ op'[r].id \in Id \cup {None} /\ op'[r].up \in Id \cup {None}
          /\ op'[r].loaded \subseteq Id /\ op'[r].told \in {"nothing", "ok", "error"}
    BY <1>0 DEF Typed, TypeOK
  <2>4. solo' \in Req \cup {None} /\ nRequests' \in 0 .. MaxRequests
    BY <1>0 DEF Typed, TypeOK
  <2>5. changed' \in BOOLEAN
    OBVIOUS
  <2>6. overlapped' \in BOOLEAN
    BY <1>0, Zenon DEF Typed, TypeOK
  <2> QED
    BY <2>1, <2>2, <2>3, <2>4, <2>5, <2>6 DEF TypeOK
<1>4. Shapes'
  BY <1>0, <1>2 DEF Typed, Shapes
<1>5. ASSUME NEW r \in Running' PROVE Carries(r)'
  <2>1. r \in Running /\ Carries(r)
    BY <1>0, <1>2, <1>5 DEF Typed
  <2>2. pc'[r] \in {pc[r], "after"} /\ op'[r] = op[r]
    BY <1>2, <2>1 DEF Running
  <2> QED
    BY <2>1, <2>2 DEF Carries
<1>6. Typed'
  BY <1>3, <1>4, <1>5 DEF Typed
<1>7. Alone'
  BY <1>2 DEF IInv, Alone
<1>8. OneByOne'
  <2>1. CASE overlapped
    BY <2>1, <1>2 DEF OneByOne
  <2> QED
    BY <2>1
<1>9. Ended' = {}
  BY <1>0, <1>2, RunningTyped DEF Ended
<1>10. Heals' /\ ErrorsChangeNothing'
  BY <1>9 DEF Heals, ErrorsChangeNothing
<1>11. ASSUME NEW r \in Running', solo' = r PROVE Lone(r)' /\ InOrder(r)'
  <2>1. r = q /\ solo = q /\ pc'[q] = "after"
    BY <1>11, <1>0, <1>2, RunningTyped
  <2> QED
    BY <2>1 DEF Lone, InOrder
<1> QED
  BY <1>6, <1>7, <1>8, <1>10, <1>11 DEF IInv

\* What stands in front of a write: the request is in order.
LEMMA Writer ==
  ASSUME IInv, NEW q \in Req, pc[q] = "commit"
  PROVE  /\ Typed /\ Carries(q) /\ Held
         /\ solo = q => Prepared(q)
         /\ ~overlapped => solo = q /\ Prepared(q) /\ Fitting(q) /\ OneByOne
BY Runner DEF IInv, Lone, InOrder

\* The order among the rows, taken apart.
FamiliesKept == \A n \in Subnet \cap Rows : rows[rows[n].up].col[rows[n].col.type]
ContentsKept == \A l \in Leaf \cap Rows : rows[l].col.type = rows[rows[l].up].col.type
NamesKept ==
  \A T \in {Domain, Mailbox, Alias} : \A i, j \in T \cap Rows :
    i # j /\ rows[i].up = rows[j].up => rows[i].col.name # rows[j].col.name

LEMMA OneByOneIs == OneByOne <=> (~overlapped => FamiliesKept /\ ContentsKept /\ NamesKept)
BY DEF OneByOne, FamiliesKept, ContentsKept, NamesKept

\* The table of a row.
LEMMA TableIs ==
  ASSUME NEW T \in {User, Domain, Mailbox, Alias}, NEW i \in T
  PROVE  Table(i) = T
BY Disjoint DEF Table

\* Where what is left of these rows is what it was, they are in order as they were.
Ordered == Server \cup Subnet \cup Leaf \cup Domain \cup Mailbox \cup Alias

LEMMA OrderStays ==
  ASSUME Typed, OneByOne, ~overlapped, overlapped' = overlapped, Held',
         \A j \in Rows' : rows'[j] \in Row(j),
         \A j \in Rows' \cap Ordered : j \in Rows /\ rows'[j] = rows[j]
  PROVE  OneByOne'
<1>0. FamiliesKept /\ ContentsKept /\ NamesKept
  BY OneByOneIs
<1>1. ASSUME NEW n \in Subnet \cap Rows' PROVE rows'[rows'[n].up].col[rows'[n].col.type]
  <2>1. n \in Subnet \cap Rows /\ rows'[n] = rows[n]
    BY <1>1 DEF Ordered
  <2>2. rows[n].up \in Server
    BY <2>1, SubnetColumns
  <2>3. rows[n].up \in Rows'
    BY <2>1, <2>2, <1>1, RecordsAssumption DEF Held, Id
  <2>4. rows'[rows[n].up] = rows[rows[n].up]
    BY <2>2, <2>3 DEF Ordered
  <2>5. rows[rows[n].up].col[rows[n].col.type]
    BY <1>0, <2>1, Zenon DEF FamiliesKept
  <2> QED
    BY <2>1, <2>4, <2>5
<1>2. ASSUME NEW l \in Leaf \cap Rows' PROVE rows'[l].col.type = rows'[rows'[l].up].col.type
  <2>1. l \in Leaf \cap Rows /\ rows'[l] = rows[l]
    BY <1>2 DEF Ordered
  <2>2. rows[l].up \in Subnet
    BY <2>1, LeafColumns
  <2>3. rows[l].up \in Rows'
    BY <2>1, <2>2, <1>2, RecordsAssumption DEF Held, Id
  <2>4. rows'[rows[l].up] = rows[rows[l].up]
    BY <2>2, <2>3 DEF Ordered
  <2> QED
    BY <1>0, <2>1, <2>4 DEF ContentsKept
<1>3. ASSUME NEW T \in {Domain, Mailbox, Alias}, NEW i \in T \cap Rows', NEW j \in T \cap Rows',
             i # j, rows'[i].up = rows'[j].up
      PROVE  rows'[i].col.name # rows'[j].col.name
  <2>1. T \subseteq Ordered
    BY DEF Ordered
  <2>2. i \in Rows /\ j \in Rows /\ rows'[i] = rows[i] /\ rows'[j] = rows[j]
    BY <2>1
  <2> QED
    BY <1>0, <1>3, <2>2 DEF NamesKept
<1> QED
  BY <1>1, <1>2, <1>3 DEF OneByOne

\* A row is added, under one that is there.
LEMMA CreateWrites ==
  ASSUME IInv, NEW q \in Req, pc[q] = "commit", op[q].kind = "create", Allowed(q),
         Goto(q, "after"), UNCHANGED op,
         rows' = [j \in Id |-> IF j \in DOMAIN Inserted(q) THEN Inserted(q)[j] ELSE rows[j]],
         used' = used \cup DOMAIN Inserted(q), changed' = (solo = q),
         UNCHANGED <<solo, overlapped, nRequests>>
  PROVE  IInv'
<1> DEFINE i == op[q].id  new == [up |-> op[q].up, col |-> op[q].write]
<1>0. /\ Typed /\ Carries(q) /\ Held /\ (solo = q => Prepared(q))
      /\ ~overlapped => solo = q /\ Prepared(q) /\ Fitting(q) /\ OneByOne
  BY Writer
<1>1. /\ i \in Id /\ op[q].up \in Parents(i) /\ op[q].write \in Columns(i)
      /\ op[q].up \in Rows \cup {None}
  BY <1>0 DEF Carries, Allowed
<1>2. new \in Row(i) /\ new # None
  BY <1>1, RowAssumption DEF Row
<1>3. DOMAIN Inserted(q) = {i} /\ Inserted(q)[i] = new
  BY DEF Inserted
<1> HIDE DEF i, new
<1>4. /\ rows' = [j \in Id |-> IF j = i THEN new ELSE rows[j]] /\ used' = used \cup {i}
      /\ rows' = [j \in Id |-> rows'[j]]
  BY <1>3
<1>5. Rows' = Rows \cup {i} /\ Rows' \subseteq used' /\ used' \subseteq Id
  BY <1>0, <1>1, <1>2, <1>4 DEF Rows, Typed, TypeOK
<1>6. \A j \in Rows' : rows'[j] \in Row(j)
  BY <1>0, <1>2, <1>4, <1>5, RowsTyped
<1>7. Held'
  <2> SUFFICES ASSUME NEW j \in Rows' PROVE rows'[j].up \in Rows' \cup {None}
    BY DEF Held
  <2>1. CASE j = i
    BY <2>1, <1>1, <1>4, <1>5 DEF new
  <2>2. CASE j # i
    BY <2>2, <1>0, <1>4, <1>5 DEF Held, Rows
  <2> QED
    BY <2>1, <2>2
<1>8. ASSUME ~overlapped PROVE OneByOne'
  <2>0. /\ i \notin Rows /\ Fitting(q) /\ FamiliesKept /\ ContentsKept /\ NamesKept
    BY <1>0, <1>8, OneByOneIs DEF Prepared, i
  <2>1. \A j \in Rows : rows'[j] = rows[j] /\ j # i /\ j \in Id
    BY <2>0, <1>4 DEF Rows
  <2>2. rows'[i] = new
    BY <1>1, <1>4 DEF i
  <2>3. ASSUME NEW n \in Subnet \cap Rows' PROVE rows'[rows'[n].up].col[rows'[n].col.type]
    <3>1. CASE n = i
      <4>1. new.up \in Rows /\ rows[new.up].col[new.col.type]
        BY <2>0, <2>3, <3>1, Zenon DEF Fitting, i, new
      <4> QED
        BY <3>1, <4>1, <2>1, <2>2
    <3>2. CASE n # i
      <4>1. n \in Subnet \cap Rows
        BY <2>3, <3>2, <1>5
      <4>2. rows[n].up \in Rows
        BY <1>0, <4>1, SubnetColumns, RecordsAssumption DEF Held, Id
      <4>3. rows[rows[n].up].col[rows[n].col.type]
        BY <4>1, <2>0, Zenon DEF FamiliesKept
      <4> QED
        BY <4>1, <4>2, <4>3, <2>1
    <3> QED
      BY <3>1, <3>2
  <2>4. ASSUME NEW l \in Leaf \cap Rows' PROVE rows'[l].col.type = rows'[rows'[l].up].col.type
    <3>1. CASE l = i
      <4>1. new.up \in Rows /\ rows[new.up].col.type = new.col.type
        BY <2>0, <2>4, <3>1 DEF Fitting, i, new
      <4> QED
        BY <3>1, <4>1, <2>1, <2>2
    <3>2. CASE l # i
      <4>1. l \in Leaf \cap Rows
        BY <2>4, <3>2, <1>5
      <4>2. rows[l].up \in Rows
        BY <1>0, <4>1, LeafColumns, RecordsAssumption DEF Held, Id
      <4> QED
        BY <4>1, <4>2, <2>0, <2>1 DEF ContentsKept
    <3> QED
      BY <3>1, <3>2
  <2>5. ASSUME NEW T \in {Domain, Mailbox, Alias}, i \in T, NEW j \in T \cap Rows,
               rows[j].up = new.up
        PROVE  rows[j].col.name # new.col.name
    <3>1. Namesakes(q) = {}
      BY <2>0, <2>5 DEF Fitting, i
    <3>2. Table(i) = T
      BY <2>5, TableIs
    <3>3. j # i
      BY <2>0, <2>5
    <3> QED
      BY <3>1, <3>2, <3>3, <2>0, <2>5 DEF Namesakes, i, new
  <2>6. ASSUME NEW T \in {Domain, Mailbox, Alias}, NEW j \in T \cap Rows', NEW k \in T \cap Rows',
               j # k, rows'[j].up = rows'[k].up
        PROVE  rows'[j].col.name # rows'[k].col.name
    <3>1. CASE j = i
      BY <3>1, <2>1, <2>2, <2>5, <2>6, <1>5
    <3>2. CASE k = i
      BY <3>2, <2>1, <2>2, <2>5, <2>6, <1>5
    <3>3. CASE j # i /\ k # i
      BY <3>3, <2>0, <2>1, <2>6, <1>5 DEF NamesKept
    <3> QED
      BY <3>1, <3>2, <3>3
  <2> QED
    BY <2>3, <2>4, <2>6 DEF OneByOne
<1>9. ASSUME solo = q PROVE Written(q)'
  <2>1. Sound(i, new.col)
    BY <1>0, <1>9 DEF Prepared, i, new
  <2>2. i \in Rows' /\ rows'[i] = new
    BY <1>1, <1>4, <1>5 DEF i
  <2> QED
    BY <2>1, <2>2 DEF Written, i
<1> QED
  BY <1>4, <1>5, <1>6, <1>7, <1>8, <1>9, WriteKeeps

\* Models are added for the names that are missing, each with an id of its own.
LEMMA SyncWrites ==
  ASSUME IInv, NEW q \in Req, pc[q] = "commit", op[q].kind = "sync", Allowed(q),
         Goto(q, "after"), UNCHANGED op,
         rows' = [j \in Id |-> IF j \in DOMAIN Inserted(q) THEN Inserted(q)[j] ELSE rows[j]],
         used' = used \cup DOMAIN Inserted(q), changed' = (solo = q),
         UNCHANGED <<solo, overlapped, nRequests>>
  PROVE  IInv'
<1> DEFINE i == op[q].id
           names == DOMAIN op[q].write
           id == CHOOSE f \in NewIds(names) : TRUE
           New == {id[n] : n \in names}
           name(o) == CHOOSE n \in names : id[n] = o
<1>0. /\ Typed /\ Carries(q) /\ Held /\ (solo = q => Prepared(q))
      /\ ~overlapped => solo = q /\ Prepared(q) /\ Fitting(q) /\ OneByOne
  BY Writer
<1>1. i \in Provider /\ i \in Rows /\ names \subseteq Name /\ NewIds(names) # {}
  BY <1>0 DEF Carries, Allowed
<1>2. id \in NewIds(names)
  BY <1>1
<1>3. Inserted(q) = [o \in New |-> [up |-> i, col |-> [name |-> name(o)]]]
  BY DEF Inserted
<1> HIDE DEF i, names, id
<1>4. id \in [names -> Model \ used] /\ \A m, n \in names : id[m] = id[n] => m = n
  BY <1>2 DEF NewIds, Injection, IsInjective
<1>5. ASSUME NEW n \in names PROVE id[n] \in New /\ name(id[n]) = n
  BY <1>4
<1>6. New \subseteq Model \ used
  BY <1>4
<1>7. \A o \in New : name(o) \in Name
  BY <1>1
<1> HIDE DEF New, name
<1>8. Rows \subseteq used /\ used \subseteq Id /\ Model \subseteq Id
  BY <1>0 DEF Typed, TypeOK, Id
<1>9. /\ \A o \in New : rows'[o] = [up |-> i, col |-> [name |-> name(o)]]
      /\ \A j \in Id \ New : rows'[j] = rows[j]
      /\ rows' = [j \in Id |-> rows'[j]] /\ used' = used \cup New
  BY <1>3, <1>6, <1>8
<1>10. \A o \in New : rows'[o] \in Row(o) /\ rows'[o] # None
  <2> TAKE o \in New
  <2>1. o \in Model /\ o \in Id
    BY <1>6, <1>8
  <2>2. i \in Parents(o) /\ [name |-> name(o)] \in Columns(o)
    <3>1. Columns(o) = NamedRow /\ Parents(o) = Provider
      BY <2>1, KindColumns
    <3>2. PICK n \in Name : n = name(o)
      BY <1>7
    <3>3. [name |-> n] \in NamedRow
      BY DEF NamedRow
    <3>4. [name |-> name(o)] \in NamedRow
      BY <3>2, <3>3
    <3> QED
      BY <3>1, <3>4, <1>1
  <2>3. rows'[o] \in Row(o)
    <3>1. rows'[o] = [up |-> i, col |-> [name |-> name(o)]]
      BY <1>9
    <3>2. PICK c \in Columns(o) : c = [name |-> name(o)]
      BY <2>2
    <3>3. [up |-> i, col |-> c] \in Row(o)
      BY <2>2 DEF Row
    <3> QED
      BY <3>1, <3>2, <3>3
  <2> QED
    BY <2>1, <2>3, RowAssumption
<1>11. Rows' = Rows \cup New /\ Rows' \subseteq used' /\ used' \subseteq Id /\ Rows \cap New = {}
  <2>1. Rows \cap New = {} /\ New \subseteq Id
    BY <1>6, <1>8
  <2>2. Rows' = Rows \cup New
    BY <2>1, <1>9, <1>10 DEF Rows
  <2> QED
    BY <2>1, <2>2, <1>8, <1>9
<1>12. \A j \in Rows : rows'[j] = rows[j]
  BY <1>8, <1>9, <1>11
<1>13. \A j \in Rows' : rows'[j] \in Row(j)
  BY <1>0, <1>10, <1>11, <1>12, RowsTyped
<1>14. Held'
  <2> SUFFICES ASSUME NEW j \in Rows' PROVE rows'[j].up \in Rows' \cup {None}
    BY DEF Held
  <2>1. CASE j \in New
    <3>1. rows'[j] = [up |-> i, col |-> [name |-> name(j)]]
      BY <2>1, <1>9
    <3>2. rows'[j].up = i /\ i \in Rows'
      BY <3>1, <1>1, <1>11
    <3> QED
      BY <3>2
  <2>2. CASE j \in Rows
    BY <2>2, <1>0, <1>11, <1>12 DEF Held
  <2> QED
    BY <2>1, <2>2, <1>11
<1>15. ASSUME ~overlapped PROVE OneByOne'
  <2>1. \A j \in Rows' \cap Ordered : j \in Rows /\ rows'[j] = rows[j]
    BY <1>6, <1>11, <1>12, Disjoint DEF Ordered
  <2> QED
    BY <2>1, <1>0, <1>13, <1>14, <1>15, OrderStays
<1>16. ASSUME solo = q PROVE Written(q)'
  <2>1. DOMAIN op[q].seen \subseteq ModelNames(i) \cup names
    BY <1>0, <1>16 DEF Prepared, i, names
  <2>2. ModelNames(i) \subseteq ModelNames(i)'
    <3>1. i' = i
      BY DEF i
    <3>2. Below(i) \subseteq Below(i)'
      BY <3>1, <1>11, <1>12 DEF Below
    <3>3. \A o \in Below(i) : rows'[o] = rows[o]
      BY <1>12 DEF Below
    <3> QED
      BY <3>1, <3>2, <3>3 DEF ModelNames
  <2>3. names \subseteq ModelNames(i)'
    <3> SUFFICES ASSUME NEW n \in names PROVE n \in ModelNames(i)'
      OBVIOUS
    <3>1. i' = i
      BY DEF i
    <3>2. id[n] \in New /\ rows'[id[n]] = [up |-> i, col |-> [name |-> n]]
      BY <1>5, <1>9
    <3>3. id[n] \in Model /\ id[n] \in Rows'
      BY <3>2, <1>6, <1>11
    <3>4. id[n] \in Model \cap Below(i)' /\ rows'[id[n]].col.name = n
      BY <3>1, <3>2, <3>3 DEF Below
    <3> QED
      BY <3>1, <3>4 DEF ModelNames
  <2> QED
    BY <2>1, <2>2, <2>3 DEF Written, i
<1> QED
  BY <1>9, <1>11, <1>13, <1>14, <1>15, <1>16, WriteKeeps

\* Nothing is left without its parent: what goes is what is below.
LEMMA DeleteWrites ==
  ASSUME IInv, NEW q \in Req, pc[q] = "commit", op[q].kind = "delete", Allowed(q),
         Goto(q, "after"), UNCHANGED op,
         rows' = [j \in Id |-> IF j \in Deleted(q) THEN None ELSE Released(rows[j], Deleted(q))],
         used' = used \cup DOMAIN Inserted(q), changed' = (solo = q),
         UNCHANGED <<solo, overlapped, nRequests>>
  PROVE  IInv'
<1> DEFINE gone == Deleted(q)
<1>0. /\ Typed /\ Carries(q) /\ Held /\ (solo = q => Prepared(q))
      /\ ~overlapped => solo = q /\ Prepared(q) /\ Fitting(q) /\ OneByOne
  BY Writer
<1>1. \A j \in Rows : rows[j].up \in gone => j \in gone
  BY DEF Allowed
<1>2. used' = used
  BY DEF Inserted, NoWrite
<1> HIDE DEF gone
<1>3. rows' = [j \in Id |-> IF j \in gone THEN None ELSE Released(rows[j], gone)]
  BY DEF gone
<1>4. Released(None, gone) = None
  BY DEF Released
<1>5. ASSUME NEW j \in Rows, j \notin gone
      PROVE  /\ rows'[j] \in Row(j) /\ rows'[j] # None /\ rows'[j].up = rows[j].up
             /\ j \notin Config => rows'[j] = rows[j]
  <2>1. j \in Id /\ rows[j] \in Row(j)
    BY <1>0, RowsTyped
  <2>2. rows'[j] = Released(rows[j], gone)
    BY <2>1, <1>3, <1>5
  <2>3. Released(rows[j], gone) \in Row(j) /\ Released(rows[j], gone).up = rows[j].up
        /\ (j \notin Config => Released(rows[j], gone) = rows[j])
    BY <2>1, ReleasedRow
  <2> QED
    BY <2>1, <2>2, <2>3, RowAssumption
<1>6. Rows' = Rows \ gone
  BY <1>3, <1>4, <1>5 DEF Rows
<1>7. Rows' \subseteq used' /\ used' \subseteq Id /\ rows' = [j \in Id |-> rows'[j]]
  BY <1>0, <1>2, <1>3, <1>6 DEF Typed, TypeOK
<1>8. \A j \in Rows' : rows'[j] \in Row(j)
  BY <1>5, <1>6
<1>9. Held'
  <2> SUFFICES ASSUME NEW j \in Rows' PROVE rows'[j].up \in Rows' \cup {None}
    BY DEF Held
  <2>1. rows'[j].up = rows[j].up /\ rows[j].up \notin gone
    BY <1>1, <1>5, <1>6
  <2> QED
    BY <2>1, <1>0, <1>6 DEF Held
<1>10. ASSUME ~overlapped PROVE OneByOne'
  <2>1. \A j \in Rows' \cap Ordered : j \in Rows /\ rows'[j] = rows[j]
    BY <1>5, <1>6, Disjoint DEF Ordered
  <2> QED
    BY <2>1, <1>0, <1>8, <1>9, <1>10, OrderStays
<1>11. Written(q)'
  BY DEF Written
<1> QED
  BY <1>7, <1>8, <1>9, <1>10, <1>11, WriteKeeps

\* What a request writes to its row are the columns that differ from what it has
\* read: of a row that is still as it was read, it makes what was checked.
LEMMA EmittedIs == ASSUME NEW q \in Req PROVE Emitted(q) = Differing(op[q].write, op[q].seen)
BY DEF Emitted, Differing

\* The order that a change of one row's columns leaves.
LEMMA OrderPut ==
  ASSUME IInv, NEW q \in Req, pc[q] = "commit", ~overlapped, overlapped' = overlapped,
         op[q].kind \in {"update", "action", "classify"}, Rows' = Rows,
         \A j \in Rows : j # op[q].id => rows'[j] = rows[j],
         rows'[op[q].id].up = rows[op[q].id].up,
         rows'[op[q].id].col = Put(rows[op[q].id].col, op[q].write),
         \A j \in Rows' : rows'[j] \in Row(j), Held'
  PROVE  OneByOne'
<1> DEFINE i == op[q].id  w == op[q].write
<1>0. /\ Typed /\ Carries(q) /\ Held /\ Prepared(q) /\ Fitting(q)
      /\ FamiliesKept /\ ContentsKept /\ NamesKept
  BY Writer, OneByOneIs
<1>1. i \in Rows /\ op[q].seen = rows[i].col
  BY <1>0 DEF Prepared
<1>2. CASE i \notin Ordered
  <2>1. \A j \in Rows' \cap Ordered : j \in Rows /\ rows'[j] = rows[j]
    BY <1>2
  <2>2. Typed /\ OneByOne
    BY <1>0 DEF IInv
  <2> QED
    BY <2>1, <2>2, OrderStays
<1>3. CASE op[q].kind = "update" /\ i \in Ordered
  <2>0. /\ i \in Server => ~Refused(q)
        /\ i \in Subnet \cup Leaf => "type" \notin DOMAIN w
        /\ i \in Domain \cup Mailbox => "name" \notin DOMAIN w
        /\ i \in Alias /\ "name" \in DOMAIN w => Namesakes(q) = {}
    BY <1>0, <1>3 DEF Fitting
  <2>1. /\ \A j \in Rows : rows'[j].up = rows[j].up
        /\ \A j \in Rows : j # i => rows'[j].col = rows[j].col
        /\ rows'[i].col = Put(rows[i].col, w)
    OBVIOUS
  <2>t. \A n \in Rows \cap (Subnet \cup Leaf) : rows'[n].col.type = rows[n].col.type
    <3> SUFFICES ASSUME NEW n \in Rows \cap (Subnet \cup Leaf), n = i
                 PROVE  Put(rows[i].col, w).type = rows[i].col.type
      BY <2>1
    <3>1. rows[i].col \in SubnetRow \cup LeafRow
      BY <1>0, SubnetColumns, LeafColumns
    <3>2. "type" \in DOMAIN rows[i].col
      BY <3>1 DEF SubnetRow, LeafRow
    <3> QED
      BY <2>0, <3>2 DEF Put
  <2>2. ASSUME NEW n \in Subnet \cap Rows PROVE rows'[rows'[n].up].col[rows'[n].col.type]
    <3>1. /\ rows[n].up \in Server /\ rows[n].up \in Rows /\ rows'[n].up = rows[n].up
          /\ rows'[n].col.type = rows[n].col.type
      BY <1>0, <2>1, <2>t, SubnetColumns, RecordsAssumption DEF Held, Id
    <3>2. CASE rows[n].up = i
      <4>1. n \in Below(i)
        BY <3>2 DEF Below
      <4>2. Put(op[q].seen, w)[rows[n].col.type]
        BY <4>1, <3>1, <3>2, <2>0, Zenon DEF Refused
      <4>3. Put(rows[i].col, w)[rows[n].col.type]
        BY <4>2, <1>1, Zenon
      <4> HIDE DEF i, w
      <4> QED
        BY <4>3, <3>1, <3>2, <2>1, Zenon
    <3>3. CASE rows[n].up # i
      <4>1. rows'[rows[n].up].col = rows[rows[n].up].col
        BY <3>1, <3>3, <2>1
      <4>2. rows[rows[n].up].col[rows[n].col.type]
        BY <1>0, Zenon DEF FamiliesKept
      <4> QED
        BY <4>1, <4>2, <3>1, Zenon
    <3> QED
      BY <3>2, <3>3
  <2>3. ASSUME NEW l \in Leaf \cap Rows PROVE rows'[l].col.type = rows'[rows'[l].up].col.type
    <3>1. rows[l].up \in Subnet /\ rows[l].up \in Rows /\ rows'[l].up = rows[l].up
      BY <1>0, <2>1, LeafColumns, RecordsAssumption DEF Held, Id
    <3>2. rows[l].col.type = rows[rows[l].up].col.type
      BY <1>0 DEF ContentsKept
    <3> QED
      BY <3>1, <3>2, <2>t
  <2>4. ASSUME NEW T \in {Domain, Mailbox, Alias}, NEW j \in T \cap Rows, NEW k \in T \cap Rows,
               j # k, rows'[j].up = rows'[k].up
        PROVE  rows'[j].col.name # rows'[k].col.name
    <3>0. /\ rows[j].up = rows[k].up /\ rows[j].col.name # rows[k].col.name
      BY <1>0, <2>1, <2>4 DEF NamesKept
    <3>1. CASE i \in T /\ (T = Alias => "name" \notin DOMAIN w)
      <4>1. "name" \notin DOMAIN w
        BY <3>1, <2>0
      <4>2. \A x \in DomainRow \cup BoxRow : Put(x, w).name = x.name
        BY <4>1 DEF Put, DomainRow, BoxRow
      <4>3. rows[i].col \in DomainRow \cup BoxRow
        BY <3>1, <1>0, <1>1, RowsTyped, KindColumns
      <4>4. \A m \in Rows : rows'[m].col.name = rows[m].col.name
        BY <4>2, <4>3, <2>1
      <4> QED
        BY <4>4, <3>0
    <3>2. CASE T = Alias /\ i \in T /\ "name" \in DOMAIN w
      <4>1. rows'[i].col.name = w.name
        <5>1. rows[i].col \in BoxRow
          BY <3>2, <1>0, <1>1, RowsTyped, KindColumns
        <5>2. \A x \in BoxRow : Put(x, w).name = w.name
          BY <3>2 DEF Put, BoxRow
        <5> QED
          BY <5>1, <5>2, <2>1
      <4>2. Table(i) = T
        BY <3>2, TableIs
      <4>3. \A m \in T \cap Rows : m # i /\ rows[m].up = rows[i].up => rows[m].col.name # w.name
        BY <4>2, <2>0, <3>2, <1>1 DEF Namesakes
      <4>4. CASE j = i
        BY <4>1, <4>3, <4>4, <3>0, <2>1, <2>4
      <4>5. CASE k = i
        BY <4>1, <4>3, <4>5, <3>0, <2>1, <2>4
      <4>6. CASE j # i /\ k # i
        BY <4>6, <3>0, <2>1
      <4> QED
        BY <4>4, <4>5, <4>6
    <3>3. CASE i \notin T
      BY <3>3, <3>0, <2>1
    <3> QED
      BY <3>1, <3>2, <3>3
  <2> QED
    BY <2>2, <2>3, <2>4 DEF OneByOne
<1>4. CASE op[q].kind = "classify" /\ i \in Ordered
  BY <1>0, <1>4, Disjoint DEF Carries, Ordered
<1>5. CASE op[q].kind = "action" /\ i \in Ordered
  <2>1. w = NoWrite /\ i \in Id /\ rows[i] \in Row(i) /\ rows'[i] \in Row(i)
    BY <1>0, <1>1, <1>5, RowsTyped DEF Carries
  <2>2. rows'[i].col = rows[i].col
    BY <2>1, NothingWritten DEF Row
  <2>3. rows'[i] = rows[i]
    BY <2>1, <2>2 DEF Row
  <2>4. \A j \in Rows' \cap Ordered : j \in Rows /\ rows'[j] = rows[j]
    BY <2>3
  <2>5. Typed /\ OneByOne
    BY <1>0 DEF IInv
  <2> QED
    BY <2>4, <2>5, OrderStays
<1> QED
  BY <1>2, <1>3, <1>4, <1>5
\* The columns that differ are written, if the row is still there.
LEMMA UpdateWrites ==
  ASSUME IInv, NEW q \in Req, pc[q] = "commit", op[q].kind \in {"update", "action", "classify"},
         Goto(q, "after"), UNCHANGED op,
         rows' = [rows EXCEPT ![op[q].id] = Amended(@, Emitted(q))],
         used' = used \cup DOMAIN Inserted(q), changed' = (solo = q),
         UNCHANGED <<solo, overlapped, nRequests>>
  PROVE  IInv'
<1> DEFINE i == op[q].id  e == Emitted(q)
<1>0. /\ Typed /\ Carries(q) /\ Held /\ (solo = q => Prepared(q))
      /\ ~overlapped => solo = q /\ Prepared(q) /\ Fitting(q) /\ OneByOne
  BY Writer
<1>1. i \in Id /\ rows = [j \in Id |-> rows[j]] /\ Rows \subseteq used /\ used \subseteq Id
  BY <1>0 DEF Carries, Typed, Shapes, TypeOK
<1>2. used' = used
  BY DEF Inserted, NoWrite
<1>3. e = Differing(op[q].write, op[q].seen)
  BY EmittedIs
<1>4. Fits(i, e)
  <2>1. Fits(i, op[q].write)
    BY <1>0, NothingFits DEF Carries
  <2> QED
    BY <2>1, <1>1, <1>3, DifferingFits
<1> HIDE DEF e
<1>5. /\ \A j \in Id : j # i => rows'[j] = rows[j]
      /\ rows' = [j \in Id |-> rows'[j]]
      /\ rows'[i] = Amended(rows[i], e)
  <2>1. rows' = [rows EXCEPT ![i] = Amended(rows[i], e)]
    BY DEF e
  <2> HIDE DEF i
  <2>2. rows' = [j \in Id |-> IF j = i THEN Amended(rows[i], e) ELSE rows[j]]
    BY <1>1, <2>1
  <2> QED
    BY <1>1, <2>2
<1>6. ASSUME i \in Rows
      PROVE  /\ rows'[i] \in Row(i) /\ rows'[i] # None /\ rows'[i].up = rows[i].up
             /\ rows'[i].col = Put(rows[i].col, e)
  <2>1. rows[i] \in [up : Parents(i), col : Columns(i)] /\ rows[i] # None
    BY <1>0, <1>6, RowsTyped DEF Row, Rows
  <2>2. PICK u \in Parents(i), c \in Columns(i) : rows[i] = [up |-> u, col |-> c]
    BY <2>1
  <2>3. rows'[i] = [rows[i] EXCEPT !.col = Put(@, e)]
    BY <2>1, <1>5 DEF Amended
  <2> HIDE DEF i
  <2>4. rows'[i] = [up |-> u, col |-> Put(c, e)]
    BY <2>2, <2>3
  <2>5. Put(c, e) \in Columns(i)
    BY <1>4 DEF Fits
  <2>6. rows'[i] \in Row(i)
    BY <2>4, <2>5 DEF Row
  <2>7. rows'[i] # None
    BY <2>6, <1>1, RowAssumption
  <2> QED
    BY <2>2, <2>4, <2>6, <2>7
<1>7. Rows' = Rows
  BY <1>1, <1>5, <1>6 DEF Rows, Amended
<1>8. \A j \in Rows : rows'[j] \in Row(j) /\ rows'[j].up = rows[j].up
  <2> TAKE j \in Rows
  <2>1. CASE j = i
    BY <2>1, <1>6
  <2>2. CASE j # i
    BY <2>2, <1>0, <1>5, RowsTyped
  <2> QED
    BY <2>1, <2>2
<1>9. Held'
  BY <1>0, <1>7, <1>8 DEF Held
<1>10. ASSUME solo = q
       PROVE  i \in Rows /\ op[q].seen = rows[i].col /\ rows'[i].col = Put(rows[i].col, op[q].write)
  <2>1. i \in Rows /\ op[q].seen = rows[i].col
    BY <1>0, <1>10 DEF Prepared
  <2>2. Put(rows[i].col, e) = Put(rows[i].col, op[q].write)
    BY <2>1, <1>3, PutDiffering
  <2> QED
    BY <2>1, <2>2, <1>6
<1>11. ASSUME ~overlapped PROVE OneByOne'
  <2>1. \A j \in Rows : j # i => rows'[j] = rows[j]
    BY <1>0, <1>5, RowsTyped
  <2>2. /\ rows'[i].up = rows[i].up
        /\ rows'[i].col = Put(rows[i].col, op[q].write)
    BY <1>0, <1>6, <1>10, <1>11
  <2>3. \A j \in Rows' : rows'[j] \in Row(j)
    BY <1>7, <1>8
  <2> QED
    BY <2>1, <2>2, <2>3, <1>7, <1>9, <1>11, OrderPut
<1>12. ASSUME solo = q PROVE Written(q)'
  <2>1. i \in Rows' /\ rows'[i].col = Put(op[q].seen, op[q].write)
    BY <1>7, <1>10, <1>12
  <2>2. op[q].kind \in {"update", "classify"} => Sound(i, Put(op[q].seen, op[q].write))
    BY <1>0, <1>12 DEF Prepared
  <2> QED
    BY <2>1, <2>2 DEF Written
<1>13. Rows' \subseteq used' /\ used' \subseteq Id /\ \A j \in Rows' : rows'[j] \in Row(j)
  BY <1>1, <1>2, <1>7, <1>8
<1> QED
  BY <1>5, <1>9, <1>11, <1>12, <1>13, WriteKeeps

LEMMA CommitKeeps == ASSUME IInv, NEW q \in Req, Commit(q) PROVE IInv'
<1> DEFINE new == Inserted(q)
<1>0. pc[q] = "commit" /\ UNCHANGED <<solo, overlapped, nRequests>>
  BY DEF Commit
<1>1. op[q].kind \in Kind /\ Carries(q) /\ Typed
  BY <1>0, Runner DEF Carries, Typed, TypeOK
<1>2. CASE /\ Allowed(q) /\ Goto(q, "after") /\ UNCHANGED op
           /\ rows' = CASE op[q].kind \in {"create", "sync"} ->
                             [j \in Id |-> IF j \in DOMAIN new THEN new[j] ELSE rows[j]]
                        [] op[q].kind = "delete" ->
                             LET gone == Deleted(q)
                             IN [j \in Id |-> IF j \in gone THEN None ELSE Released(rows[j], gone)]
                        [] OTHER ->
                             [rows EXCEPT ![op[q].id] = Amended(@, Emitted(q))]
           /\ used' = used \cup DOMAIN new /\ changed' = (solo = q)
  <2>1. CASE op[q].kind = "create"
    <3>1. rows' = [j \in Id |-> IF j \in DOMAIN new THEN new[j] ELSE rows[j]]
      BY <1>2, <2>1
    <3> QED
      BY <1>0, <1>2, <2>1, <3>1, CreateWrites
  <2>2. CASE op[q].kind = "sync"
    <3>1. rows' = [j \in Id |-> IF j \in DOMAIN new THEN new[j] ELSE rows[j]]
      BY <1>2, <2>2
    <3> QED
      BY <1>0, <1>2, <2>2, <3>1, SyncWrites
  <2>3. CASE op[q].kind = "delete"
    <3>1. rows' = [j \in Id |-> IF j \in Deleted(q) THEN None ELSE Released(rows[j], Deleted(q))]
      BY <1>2, <2>3
    <3> QED
      BY <1>0, <1>2, <2>3, <3>1, DeleteWrites
  <2>4. CASE op[q].kind \in {"update", "action", "classify"}
    <3>1. rows' = [rows EXCEPT ![op[q].id] = Amended(@, Emitted(q))]
      BY <1>2, <2>4
    <3> QED
      BY <1>0, <1>2, <2>4, <3>1, UpdateWrites
  <2> QED
    BY <1>1, <2>1, <2>2, <2>3, <2>4 DEF Kind
<1>3. CASE Finish(q, "error") /\ UNCHANGED <<rows, used, changed>>
  <2>1. UNCHANGED <<rows, used, history, nRequests>>
    BY <1>0, <1>3 DEF history
  <2> QED
    BY <1>0, <1>3, <2>1, ErrorTold
<1> QED
  BY <1>0, <1>2, <1>3 DEF Commit

-----------------------------------------------------------------------------
(* The invariant, from the first state on.                                  *)

LEMMA StayKeeps == ASSUME IInv, UNCHANGED vars PROVE IInv'
<1>1. Rows' = Rows /\ Running' = Running /\ Ended' = Ended
  BY DEF vars, Rows, Running, Ended
<1>2. Typed'
  <2>1. TypeOK'
    BY <1>1 DEF IInv, Typed, vars, TypeOK
  <2>2. Shapes'
    BY DEF IInv, Typed, vars, Shapes
  <2>3. \A q \in Running : Carries(q)'
    BY DEF IInv, Typed, vars, Carries
  <2> QED
    BY <1>1, <2>1, <2>2, <2>3 DEF Typed
<1>3. Held' /\ Alone' /\ OneByOne' /\ ErrorsChangeNothing'
  BY <1>1 DEF IInv, vars, Held, Alone, OneByOne, ErrorsChangeNothing, Unfit
<1>4. \A i : Below(i)' = Below(i)
  BY <1>1 DEF vars, Below
<1>5. Heals'
  BY <1>1, <1>4 DEF IInv, vars, Heals, ModelNames
<1>6. \A q \in Running : solo = q => Lone(q)' /\ InOrder(q)'
  <2> SUFFICES ASSUME NEW q \in Running, solo = q PROVE Lone(q)' /\ InOrder(q)'
    OBVIOUS
  <2>1. Lone(q) /\ InOrder(q)
    BY DEF IInv
  <2>2. Refused(q)' = Refused(q) /\ Namesakes(q)' = Namesakes(q)
    BY <1>1, <1>4 DEF vars, Refused, Namesakes
  <2>3. Lone(q)'
    BY <1>1, <1>4, <2>1 DEF vars, Lone, Prepared, Written, ModelNames
  <2>4. InOrder(q)'
    BY <1>1, <2>1, <2>2 DEF vars, InOrder, Fitting
  <2> QED
    BY <2>3, <2>4
<1> QED
  BY <1>1, <1>2, <1>3, <1>5, <1>6 DEF IInv, vars

LEMMA StepInv == IInv /\ [Next]_vars => IInv'
<1> SUFFICES ASSUME IInv, [Next]_vars PROVE IInv'
  OBVIOUS
<1>1. ASSUME NEW q \in Req, pc[q] = "idle", nRequests < MaxRequests,
             Dhcp(q) \/ Mail(q) \/ Accounts(q) \/ Llm(q)
      PROVE  IInv'
  BY <1>1, RoutesKeep
<1>2. ASSUME NEW q \in Req, Step(q) PROVE IInv'
  BY <1>2, CheckKeeps, ClassifiedKeeps, DiscoveredKeeps, CommitKeeps, AfterKeeps DEF Step
<1>3. CASE UNCHANGED vars
  BY <1>3, StayKeeps
<1> QED
  BY <1>1, <1>2, <1>3 DEF Next, Waiting

\* The first rows: one of each kind, each under the one before it.
LEMMA InitInv == ASSUME Init PROVE IInv
<1> DEFINE i == CHOOSE x \in Instance : TRUE  u == CHOOSE x \in User : TRUE
           s == CHOOSE x \in Server : TRUE    n == CHOOSE x \in Subnet : TRUE
           d == CHOOSE x \in Domain : TRUE    m == CHOOSE x \in Message : TRUE
           p == CHOOSE x \in Provider : TRUE  o == CHOOSE x \in Model : TRUE
           c == CHOOSE x \in Config : TRUE    name == CHOOSE x \in Name : TRUE
<1>1. /\ i \in Instance /\ u \in User /\ s \in Server /\ n \in Subnet /\ d \in Domain
      /\ m \in Message /\ p \in Provider /\ o \in Model /\ c \in Config /\ name \in Name
  BY RecordsAssumption
<1>2. rows = [j \in Id |->
           CASE j = i -> [up |-> None, col |-> NewInstance("active")]
             [] j = u -> [up |-> None, col |-> [name |-> name]]
             [] j = s -> [up |-> i, col |-> NewServer(TRUE, TRUE)]
             [] j = n -> [up |-> s, col |-> NewSubnet("v4")]
             [] j = d -> [up |-> i, col |-> NewDomain(name)]
             [] j = m -> [up |-> d, col |-> [status |-> "pending", action |-> "pending"]]
             [] j = p -> [up |-> None, col |-> [fit |-> TRUE]]
             [] j = o -> [up |-> p, col |-> [name |-> name]]
             [] j = c -> [up |-> None, col |-> NewConfig(name, p, o)]
             [] OTHER -> None]
  BY DEF Init
<1>3. /\ pc = [q \in Req |-> "idle"] /\ op = [q \in Req |-> Rest] /\ used = Rows
      /\ solo = None /\ changed = FALSE /\ overlapped = FALSE /\ nRequests = 0
  BY DEF Init
<1> HIDE DEF i, u, s, n, d, m, p, o, c, name
<1>4. /\ i \in Id /\ u \in Id /\ s \in Id /\ n \in Id /\ d \in Id /\ m \in Id /\ p \in Id
      /\ o \in Id /\ c \in Id
  BY <1>1 DEF Id
<1>5. /\ i # u /\ i # s /\ i # n /\ i # d /\ i # m /\ i # p /\ i # o /\ i # c
      /\ u # s /\ u # n /\ u # d /\ u # m /\ u # p /\ u # o /\ u # c
      /\ s # n /\ s # d /\ s # m /\ s # p /\ s # o /\ s # c
      /\ n # d /\ n # m /\ n # p /\ n # o /\ n # c
      /\ d # m /\ d # p /\ d # o /\ d # c /\ m # p /\ m # o /\ m # c /\ p # o /\ p # c /\ o # c
  BY <1>1, Disjoint
<1>6. /\ rows[i] = [up |-> None, col |-> NewInstance("active")]
      /\ rows[u] = [up |-> None, col |-> [name |-> name]]
      /\ rows[s] = [up |-> i, col |-> NewServer(TRUE, TRUE)]
      /\ rows[n] = [up |-> s, col |-> NewSubnet("v4")]
      /\ rows[d] = [up |-> i, col |-> NewDomain(name)]
  BY <1>2, <1>4, <1>5
<1>7. /\ rows[m] = [up |-> d, col |-> [status |-> "pending", action |-> "pending"]]
      /\ rows[p] = [up |-> None, col |-> [fit |-> TRUE]]
      /\ rows[o] = [up |-> p, col |-> [name |-> name]]
      /\ rows[c] = [up |-> None, col |-> NewConfig(name, p, o)]
  BY <1>2, <1>4, <1>5
<1>8. \A j \in Id \ {i, u, s, n, d, m, p, o, c} : rows[j] = None
  BY <1>2
<1>9. /\ rows[i] \in Row(i) /\ rows[u] \in Row(u) /\ rows[s] \in Row(s) /\ rows[n] \in Row(n)
      /\ rows[d] \in Row(d) /\ rows[m] \in Row(m) /\ rows[p] \in Row(p) /\ rows[o] \in Row(o)
      /\ rows[c] \in Row(c)
  <2>1. rows[i] \in Row(i)
    <3>1. None \in Parents(i)
      BY <1>1, KindColumns
    <3>2. NewInstance("active") \in Columns(i)
      BY <1>1, KindColumns DEF InstanceRow, NewInstance
    <3>3. [up |-> None, col |-> NewInstance("active")] \in Row(i)
      BY <3>1, <3>2, Zenon DEF Row
    <3> QED
      BY <3>3, <1>6
  <2>2. rows[u] \in Row(u)
    <3>1. None \in Parents(u)
      BY <1>1, KindColumns
    <3>2. [name |-> name] \in Columns(u)
      BY <1>1, KindColumns DEF NamedRow
    <3>3. [up |-> None, col |-> [name |-> name]] \in Row(u)
      BY <3>1, <3>2, Zenon DEF Row
    <3> QED
      BY <3>3, <1>6
  <2>3. rows[s] \in Row(s)
    <3>1. i \in Parents(s)
      BY <1>1, KindColumns
    <3>2. NewServer(TRUE, TRUE) \in Columns(s)
      <4>1. Columns(s) = ServerRow
        BY <1>1, KindColumns
      <4>2. NewServer(TRUE, TRUE) \in ServerRow
        BY DEF ServerRow, NewServer
      <4> QED
        BY <4>1, <4>2
    <3>3. [up |-> i, col |-> NewServer(TRUE, TRUE)] \in Row(s)
      BY <3>1, <3>2, Zenon DEF Row
    <3> QED
      BY <3>3, <1>6
  <2>4. rows[n] \in Row(n)
    <3>1. (CHOOSE x \in Time : TRUE) \in Time
      BY RecordsAssumption
    <3>2. s \in Parents(n)
      BY <1>1, KindColumns
    <3>3. NewSubnet("v4") \in Columns(n)
      <4>1. Columns(n) = SubnetRow
        BY <1>1, KindColumns
      <4>2. NewSubnet("v4") \in SubnetRow
        BY <3>1 DEF SubnetRow, NewSubnet, Family
      <4> QED
        BY <4>1, <4>2
    <3>4. [up |-> s, col |-> NewSubnet("v4")] \in Row(n)
      BY <3>2, <3>3, Zenon DEF Row
    <3> QED
      BY <3>4, <1>6
  <2>5. rows[d] \in Row(d)
    <3>1. i \in Parents(d)
      BY <1>1, KindColumns
    <3>2. NewDomain(name) \in Columns(d)
      <4>1. Columns(d) = DomainRow
        BY <1>1, KindColumns
      <4>2. NewDomain(name) \in DomainRow
        BY <1>1 DEF DomainRow, NewDomain
      <4> QED
        BY <4>1, <4>2
    <3>3. [up |-> i, col |-> NewDomain(name)] \in Row(d)
      BY <3>1, <3>2, Zenon DEF Row
    <3> QED
      BY <3>3, <1>6
  <2>6. rows[m] \in Row(m)
    <3>1. d \in Parents(m)
      BY <1>1, KindColumns
    <3>2. [status |-> "pending", action |-> "pending"] \in Columns(m)
      <4>1. Columns(m) = MessageRow
        BY <1>1, KindColumns
      <4>2. [status |-> "pending", action |-> "pending"] \in MessageRow
        BY DEF MessageRow
      <4> QED
        BY <4>1, <4>2
    <3>3. [up |-> d, col |-> [status |-> "pending", action |-> "pending"]] \in Row(m)
      BY <3>1, <3>2, Zenon DEF Row
    <3> QED
      BY <3>3, <1>7
  <2>7. rows[p] \in Row(p)
    <3>1. None \in Parents(p)
      BY <1>1, KindColumns
    <3>2. [fit |-> TRUE] \in Columns(p)
      BY <1>1, KindColumns DEF ProviderRow
    <3>3. [up |-> None, col |-> [fit |-> TRUE]] \in Row(p)
      BY <3>1, <3>2, Zenon DEF Row
    <3> QED
      BY <3>3, <1>7
  <2>8. rows[o] \in Row(o)
    <3>1. p \in Parents(o)
      BY <1>1, KindColumns
    <3>2. [name |-> name] \in Columns(o)
      BY <1>1, KindColumns DEF NamedRow
    <3>3. [up |-> p, col |-> [name |-> name]] \in Row(o)
      BY <3>1, <3>2, Zenon DEF Row
    <3> QED
      BY <3>3, <1>7
  <2>9. rows[c] \in Row(c)
    <3>1. None \in Parents(c)
      BY <1>1, KindColumns
    <3>2. NewConfig(name, p, o) \in Columns(c)
      BY <1>1, KindColumns DEF ConfigRow, NewConfig
    <3>3. [up |-> None, col |-> NewConfig(name, p, o)] \in Row(c)
      BY <3>1, <3>2, Zenon DEF Row
    <3> QED
      BY <3>3, <1>7
  <2> QED
    BY <2>1, <2>2, <2>3, <2>4, <2>5, <2>6, <2>7, <2>8, <2>9
<1>10. Rows = {i, u, s, n, d, m, p, o, c}
  <2>1. \A j \in {i, u, s, n, d, m, p, o, c} : rows[j] # None
    BY <1>4, <1>9, RowAssumption
  <2> QED
    BY <2>1, <1>4, <1>8 DEF Rows
<1>11. Running = {} /\ Ended = {}
  BY <1>3, RecordsAssumption DEF Running, Ended
<1>12. Typed
  <2>1. DOMAIN rows = Id /\ Rows \subseteq used /\ used \subseteq Id
    BY <1>2, <1>3, <1>4, <1>10
  <2>2. \A j \in Rows : rows[j] \in Row(j)
    BY <1>9, <1>10
  <2>3. pc \in [Req -> {"idle", "check", "model", "commit", "after"}]
    BY <1>3
  <2>4. \A q \in Req :
          /\ op[q].kind \in Kind /\ op[q].id \in Id \cup {None} /\ op[q].up \in Id \cup {None}
          /\ op[q].loaded \subseteq Id /\ op[q].told \in {"nothing", "ok", "error"}
    BY <1>3 DEF Rest, Kind
  <2>5. solo \in Req \cup {None} /\ changed \in BOOLEAN /\ nRequests \in 0 .. MaxRequests
    <3>1. 0 \in 0 .. MaxRequests
      BY RecordsAssumption
    <3>2. solo \in Req \cup {None} /\ changed \in BOOLEAN
      BY <1>3
    <3> QED
      BY <1>3, <3>1, <3>2
  <2>6. overlapped \in BOOLEAN
    BY <1>3
  <2>7. TypeOK
    BY <2>1, <2>2, <2>3, <2>4, <2>5, <2>6 DEF TypeOK
  <2>8. Shapes
    <3>1. Shaped(Rest)
      BY DEF Shaped, Rest
    <3>2. rows = [j \in Id |-> rows[j]]
      BY <1>2
    <3> QED
      BY <1>3, <3>1, <3>2 DEF Shapes
  <2> QED
    BY <2>7, <2>8, <1>11 DEF Typed
<1>13. Held
  BY <1>6, <1>7, <1>10 DEF Held
<1>14. OneByOne
  <2>1. \A j \in Subnet \cap Rows : j = n
    BY <1>1, <1>10, Disjoint
  <2>2. rows[n].col.type = "v4" /\ rows[n].up = s /\ rows[s].col["v4"]
    BY <1>6 DEF NewSubnet, NewServer
  <2>3. Leaf \cap Rows = {} /\ Mailbox \cap Rows = {} /\ Alias \cap Rows = {}
    BY <1>1, <1>10, Disjoint
  <2>4. \A j \in Domain \cap Rows : j = d
    BY <1>1, <1>10, Disjoint
  <2> QED
    BY <2>1, <2>2, <2>3, <2>4 DEF OneByOne
<1> QED
  BY <1>11, <1>12, <1>13, <1>14 DEF IInv, Alone, Heals, ErrorsChangeNothing

THEOREM Invariant == Spec => []IInv
<1>1. Init => IInv
  BY InitInv
<1> QED
  BY <1>1, StepInv, PTL DEF Spec

-----------------------------------------------------------------------------
(* What the records promise.                                                *)

\* Every row has the columns and the parent of its kind, no id is given twice, and
\* every request has the fields of one, whatever the requests and however they overlap.
THEOREM TypeCorrect == Spec => []TypeOK
<1>1. IInv => TypeOK
  BY DEF IInv, Typed
<1> QED
  BY <1>1, Invariant, PTL

\* Requests that overlap leave rows that no route would have accepted (an update
\* writes only the columns that differ from what it has read); a request that changes
\* such a row alone, and is told that it has, leaves it in order, and a sync that runs
\* alone leaves out no model of the provider's.
THEOREM RacesHeal == Spec => []Heals
<1>1. IInv => Heals
  BY DEF IInv
<1> QED
  BY <1>1, Invariant, PTL

\* One request at a time, the routes keep what no constraint of the database does: a
\* subnet's server has its family, its contents are of its family, and domains,
\* mailboxes and aliases have their names alone.
THEOREM OrderKept == Spec => []OneByOne
<1>1. IInv => OneByOne
  BY DEF IInv
<1> QED
  BY <1>1, Invariant, PTL

\* A request that ran alone and was told an error has changed no row, whatever route,
\* whatever read refused it, and at whichever of its steps; or its row holds a null or
\* an empty name that its response does not take, and can be shown to nobody.
THEOREM ErrorsAreClean == Spec => []ErrorsChangeNothing
<1>1. IInv => ErrorsChangeNothing
  BY DEF IInv
<1> QED
  BY <1>1, Invariant, PTL

\* No row is left without its parent, although the routes look for the parent before
\* they write and lock nothing: a parent that went is an error of the write, and a
\* delete takes with it what is below the row or fails.
THEOREM ParentsStay == Spec => []Held
<1>1. IInv => Held
  BY DEF IInv
<1> QED
  BY <1>1, Invariant, PTL
===============================================================================
