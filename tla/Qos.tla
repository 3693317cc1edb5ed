---------------------------------- MODULE Qos ----------------------------------
(***************************************************************************)
(* Traffic shaping: the QoS routes of the gateway keep policies and, after  *)
(* the answer, have the agent rebuild the tc tree of an interface, one tc   *)
(* command at a time.  Every await of the gateway and of the agent lets the *)
(* others in.                                                               *)
(*                                                                          *)
(* A shape is what a policy asks tc for: its algorithm with the rates, and  *)
(* its classes.  A tree is the set of the commands that have built it.      *)
(***************************************************************************)
EXTENDS Naturals, FiniteSets

CONSTANTS
  Req,           \* requests, each with its background task
  Policy,        \* row ids
  Interface,
  Htb, Simple,   \* algorithms and rates: htb; cake and fq_codel
  Lists,         \* the classes a policy can have
  Refused,       \* shapes the agent answers 422: a port, a protocol or a rate
                 \* that it does not take, which the gateway's schema has let
                 \* through
  Leaves, Filters,   \* the commands that build the leaves of an htb tree,
                     \* and those that fill them
  None,
  MaxRequests, MaxFaults   \* bounds of a behaviour

Shape == [method : Htb \cup Simple, classes : Lists]

Row == [interface : Interface, enabled : BOOLEAN, shape : Shape]
Target == [id : Policy, interface : Interface, shape : Shape \cup {None}]

ASSUME QosAssumption ==
  /\ Policy \subseteq Nat
  /\ Htb \cap Simple = {} /\ Refused \subseteq Shape
  /\ None \notin Policy /\ None \notin Row /\ None \notin Shape
  /\ Leaves \in Nat /\ Filters \in Nat /\ MaxRequests \in Nat /\ MaxFaults \in Nat

\* The root and its class, the leaves with their queues, the filters.
Depth == 1 + Leaves + Filters
IsFilter(k) == k > 1 + Leaves

BrokenSteps(shape) == IF shape.method \in Htb THEN Depth + 1 ELSE 1
Steps(shape) == IF shape.method \in Htb THEN Depth ELSE 1
Whole(shape) == {<<shape, k>> : k \in 1 .. Steps(shape)}

VARIABLES
  policies,   \* the rows
  used,       \* the ids ever given
  pc,         \* where a request is
  op,         \* its kind, its policy and what it writes
  todo,       \* what the agent still has to set up or clear for it
  step,       \* the next tc command of the target it works on
  tree,       \* the kernel's tc trees
  solo,       \* history: the interfaces of the request that no other one has
              \* run beside, those with one policy at most
  faulted,    \* history: it has ended in a 500, or a command has failed
  nRequests, nFaults

vars == <<policies, used, pc, op, todo, step, tree, solo, faulted, nRequests,
          nFaults>>

Kind == {"create", "update", "newclass", "classes", "delete", "apply", "push"}
Rest == [kind |-> "apply", id |-> None, row |-> None]

TypeOK ==
  /\ policies \in [Policy -> Row \cup {None}] /\ used \subseteq Policy
  /\ pc \in [Req -> {"idle", "commit", "queue", "task", "agent"}]
  /\ op \in [Req -> [kind : Kind, id : Policy \cup {None}, row : Row \cup {None}]]
  /\ todo \in [Req -> SUBSET Target] /\ step \in [Req -> 0 .. Depth]
  /\ tree \in [Interface -> SUBSET (Shape \X (1 .. Depth))]
  /\ solo \subseteq Interface /\ faulted \in BOOLEAN
  /\ nRequests \in 0 .. MaxRequests /\ nFaults \in 0 .. MaxFaults

Running == {q \in Req : pc[q] # "idle"}
Ids == {p \in Policy : policies[p] # None}
Of(i) == {p \in Ids : policies[p].interface = i}
Single(i) == \A p, r \in Of(i) : p = r

\* Some rows, and a host that has just booted.
Init ==
  /\ policies \in [Policy -> Row \cup {None}] /\ used = Ids
  /\ \A i \in Interface : Single(i)
  /\ pc = [q \in Req |-> "idle"] /\ op = [q \in Req |-> Rest]
  /\ todo = [q \in Req |-> {}] /\ step = [q \in Req |-> 0]
  /\ tree = [i \in Interface |-> {}]
  /\ solo = {} /\ faulted = FALSE
  /\ nRequests = 0 /\ nFaults = 0

agent   == <<todo, step, tree>>
history == <<solo, faulted>>

Works == UNCHANGED <<faulted, nFaults>>
Fails == nFaults < MaxFaults /\ nFaults' = nFaults + 1 /\ faulted' = TRUE

-----------------------------------------------------------------------------
(* The routes.                                                             *)

Begin(q, kind, id, row, about, stage) ==
  /\ pc[q] = "idle" /\ nRequests < MaxRequests /\ nRequests' = nRequests + 1
  /\ pc' = [pc EXCEPT ![q] = stage]
  /\ op' = [op EXCEPT ![q] = [kind |-> kind, id |-> id, row |-> row]]
  /\ solo' = {i \in about : Running = {} /\ Single(i)}
  /\ faulted' = FALSE
  /\ UNCHANGED <<policies, agent, nFaults>>

\* 409 for an interface that has a policy: checked here, inserted later.
Create(q, id, row) ==
  /\ id \notin used /\ used' = used \cup {id}
  /\ Of(row.interface) = {}
  /\ Begin(q, "create", id, row, {row.interface}, "commit")

\* The fields given are set; the interface and the classes are not among them.
Update(q, id, row) ==
  /\ id \in Ids /\ row.interface = policies[id].interface
  /\ row.shape.classes = policies[id].shape.classes
  /\ Begin(q, "update", id, row, {row.interface}, "commit") /\ UNCHANGED used

Classes(q, kind, id, list) ==
  /\ id \in Ids
  /\ Begin(q, kind, id, [policies[id] EXCEPT !.shape.classes = list],
           {policies[id].interface}, "commit")
  /\ UNCHANGED used

CreateClass(q, id, list) ==
  policies[id] # None /\ policies[id].shape.method \in Htb /\ Classes(q, "newclass", id, list)
\* A policy that is no longer htb keeps its classes, and they can be changed.
UpdateClass(q, id, list) == Classes(q, "classes", id, list)
DeleteClass(q, id, list) == Classes(q, "classes", id, list)

Delete(q, id) ==
  /\ id \in Ids
  /\ Begin(q, "delete", id, policies[id], {policies[id].interface}, "commit")
  /\ UNCHANGED used

\* Apply now, enabled or not.
ApplyNow(q, id) ==
  /\ id \in Ids
  /\ Begin(q, "apply", id, None, {policies[id].interface}, "task")
  /\ UNCHANGED used

Finish(q) ==
  /\ pc' = [pc EXCEPT ![q] = "idle"] /\ op' = [op EXCEPT ![q] = Rest]

\* What a request makes of its row.  The classes have rows of their own.
Outcome(o, row) ==
  CASE o.kind = "delete" -> None
    [] o.kind = "create" -> o.row
    [] o.kind = "update" -> [o.row EXCEPT !.shape.classes = row.shape.classes]
    [] OTHER -> [row EXCEPT !.shape.classes = o.row.shape.classes]

\* Rows that are gone cannot be updated, nor get classes: 500.
Changes == {"update", "newclass", "classes"}

Commit(q) ==
  LET o == op[q] IN
  /\ pc[q] = "commit"
  /\ \/ /\ o.kind \in Changes => o.id \in Ids
        /\ policies' = [policies EXCEPT ![o.id] = Outcome(o, policies[o.id])]
        /\ pc' = [pc EXCEPT ![q] = "queue"] /\ UNCHANGED op
     \/ /\ o.kind \in Changes /\ o.id \notin Ids
        /\ Finish(q) /\ UNCHANGED policies
  /\ UNCHANGED <<used, agent, history, nRequests, nFaults>>

\* The row is read again, and pushed if it is enabled; for a new class it is
\* the row as read before the commit.  The interface of a deleted one is
\* cleared.
Queues(q) ==
  \/ op[q].kind = "delete"
  \/ op[q].kind = "newclass" /\ op[q].row.enabled
  \/ op[q].kind # "newclass" /\ op[q].id \in Ids /\ policies[op[q].id].enabled

\* The answer may fail after the commit (an explicit null the response's schema
\* does not take, a lost connection to the database): 500, and the task is gone
\* with it.
Queue(q) ==
  /\ pc[q] = "queue"
  /\ \/ /\ Works
        /\ IF Queues(q) THEN pc' = [pc EXCEPT ![q] = "task"] /\ UNCHANGED op
           ELSE Finish(q)
     \/ op[q].kind # "delete" /\ Fails /\ Finish(q)
  /\ UNCHANGED <<policies, used, agent, solo, nRequests>>

\* A push of the firewall carries the enabled policies as well.
Push(q) ==
  /\ Begin(q, "push", None, None, {policies[p].interface : p \in Ids}, "task")
  /\ UNCHANGED used

\* The task reads what it pushes when it runs.
Targets(q) ==
  LET o == op[q]
      Loaded(ids) == {[id |-> p, interface |-> policies[p].interface,
                       shape |-> policies[p].shape] : p \in ids}
  IN  CASE o.kind = "delete" ->
             {[id |-> o.id, interface |-> o.row.interface, shape |-> None]}
        [] o.kind = "push" -> Loaded({p \in Ids : policies[p].enabled})
        [] OTHER -> Loaded({o.id} \cap Ids)

\* The request reaches the agent, or is lost and logged.
Task(q) ==
  /\ pc[q] = "task"
  /\ \/ /\ Targets(q) # {} /\ Works
        /\ todo' = [todo EXCEPT ![q] = Targets(q)]
        /\ pc' = [pc EXCEPT ![q] = "agent"] /\ UNCHANGED op
     \/ /\ IF Targets(q) = {} THEN Works ELSE Fails
        /\ Finish(q) /\ UNCHANGED todo
  /\ UNCHANGED <<policies, used, step, tree, solo, nRequests>>

-----------------------------------------------------------------------------
(* The agent.                                                              *)

\* It works on one target at a time, in the order of the payload.
Target1(q) == CHOOSE t \in todo[q] : \A u \in todo[q] : t.id <= u.id

Next1(q) ==
  /\ step' = [step EXCEPT ![q] = 0]
  /\ todo' = [todo EXCEPT ![q] = @ \ {Target1(q)}]
  /\ IF todo[q] = {Target1(q)} THEN Finish(q) ELSE UNCHANGED <<pc, op>>

\* A class list is validated before anything is touched.
Refuse(q) ==
  /\ pc[q] = "agent" /\ step[q] = 0 /\ Target1(q).shape \in Refused
  /\ Next1(q)
  /\ UNCHANGED <<policies, used, tree, history, nRequests, nFaults>>

BrokenCleared(i, shape) == IF shape = None THEN {} ELSE tree[i]
\* `tc qdisc del ... root' takes the whole tree.
Cleared(i, shape) == {}

DeleteRoot(q) ==
  LET t == Target1(q) IN
  /\ pc[q] = "agent" /\ step[q] = 0 /\ t.shape \notin Refused
  /\ \/ Works /\ tree' = [tree EXCEPT ![t.interface] = Cleared(t.interface, t.shape)]
     \/ Fails /\ UNCHANGED tree        \* tolerated
  /\ IF t.shape = None THEN Next1(q)
     ELSE step' = [step EXCEPT ![q] = 1] /\ UNCHANGED <<todo, pc, op>>
  /\ UNCHANGED <<policies, used, solo, nRequests>>

\* A root needs an empty tree, a class an htb root and a free place, a filter
\* an htb root.
Accepted(i, shape, k) ==
  /\ IsFilter(k) \/ \A e \in tree[i] : e[2] # k
  /\ k > 1 => \E e \in tree[i] : e[2] = 1 /\ e[1].method \in Htb

\* A failed command ends the setup: the tree stays as far as it was built.
AddStep(q) ==
  LET t == Target1(q)
      k == step[q]
  IN
  /\ pc[q] = "agent" /\ k > 0
  /\ \/ /\ Accepted(t.interface, t.shape, k) /\ Works
        /\ tree' = [tree EXCEPT ![t.interface] = @ \cup {<<t.shape, k>>}]
        /\ IF k = Steps(t.shape) THEN Next1(q)
           ELSE step' = [step EXCEPT ![q] = k + 1] /\ UNCHANGED <<todo, pc, op>>
     \/ /\ IF Accepted(t.interface, t.shape, k) THEN Fails ELSE Works
        /\ Next1(q) /\ UNCHANGED tree
  /\ UNCHANGED <<policies, used, solo, nRequests>>

-----------------------------------------------------------------------------
\* The gateway waits for requests.
Waiting == Running = {} /\ UNCHANGED vars

Next ==
  \/ \E q \in Req :
       \/ \E id \in Policy :
            \/ \E row \in Row : Create(q, id, row) \/ Update(q, id, row)
            \/ \E list \in Lists :
                 CreateClass(q, id, list) \/ UpdateClass(q, id, list) \/ DeleteClass(q, id, list)
            \/ Delete(q, id) \/ ApplyNow(q, id)
       \/ Push(q)
       \/ Commit(q) \/ Queue(q) \/ Task(q)
       \/ Refuse(q) \/ DeleteRoot(q) \/ AddStep(q)
  \/ Waiting

Spec == Init /\ [][Next]_vars

-----------------------------------------------------------------------------
(* Properties.                                                             *)

\* A request that ran alone, ended in no error of the gateway and met no failing
\* command heals the interfaces it is about, whatever interleaved setups and
\* failed commands had left there: the tree is the whole one of the enabled
\* policy ("instead of silently reporting success on a half-installed tree"),
\* and gone with the policy.  A policy whose classes the agent refuses has no
\* such claim: the tree that was there stays ("a malformed class list must not
\* touch the qdisc"), and the request has been answered before that.
Heals ==
  Running = {} /\ ~faulted =>
    \A i \in solo :
      /\ Of(i) = {} => tree[i] = {}
      /\ \A p \in Of(i) :
           policies[p].enabled /\ policies[p].shape \notin Refused =>
             tree[i] = Whole(policies[p].shape)
=============================================================================
