------------------------------- MODULE QosProofs -------------------------------
(* Theorems about Qos, for any number of requests, rows, interfaces, shapes    *)
(* and failing commands.                                                       *)
EXTENDS Qos, WellFoundedInduction, TLAPS

-----------------------------------------------------------------------------
(* The inductive invariant.                                                *)

Writes == Changes \cup {"create", "delete"}

\* What a request carries at each stage.
Carries(q) ==
  /\ pc[q] \in {"commit", "queue"} => op[q].kind \in Writes
  /\ pc[q] # "idle" /\ op[q].kind \in Writes => op[q].row \in Row
  /\ pc[q] # "idle" /\ op[q].kind # "push" => op[q].id \in Policy
  /\ pc[q] = "agent" => todo[q] # {}
  /\ step[q] > 0 =>
       /\ pc[q] = "agent" /\ Target1(q).shape \in Shape
       /\ step[q] <= Steps(Target1(q).shape)

Healed(i) ==
  /\ Of(i) = {} => tree[i] = {}
  /\ \A p \in Of(i) :
       policies[p].enabled /\ policies[p].shape \notin Refused =>
         tree[i] = Whole(policies[p].shape)

\* A class is pushed if the policy was enabled before the commit.
SeesEnabled(q) ==
  op[q].kind = "newclass" => op[q].row.enabled = policies[op[q].id].enabled

\* Before its commit a request that runs alone has checked the rows of its
\* interface, and they are still as it has seen them.
Checked(q, i) ==
  /\ op[q].row.interface = i
  /\ op[q].kind = "create" => Of(i) = {}
  /\ op[q].kind # "create" => op[q].id \in Of(i)
  /\ SeesEnabled(q)

\* After it, the task will find the one policy of the interface, or none.
Written(q, i) ==
  /\ op[q].kind = "delete" => op[q].row.interface = i /\ Of(i) = {}
  /\ op[q].kind = "push" => Of(i) # {}
  /\ op[q].kind \notin {"delete", "push"} => op[q].id \in Of(i)
  /\ pc[q] = "queue" => SeesEnabled(q)

\* At the agent, the interface has one target at most, and the commands so far
\* have built a prefix of its tree; without a target the work is done.
Built(shape, k) == {<<shape, j>> : j \in 1 .. (k - 1)}

Asks(t, i) ==
  \/ Of(i) = {} /\ t.shape = None
  \/ \E p \in Of(i) : t.shape = policies[p].shape

Setup(q, i) ==
  \/ /\ \A t \in todo[q] : t.interface # i
     /\ Healed(i)
  \/ \E t \in todo[q] :
       /\ t.interface = i /\ Asks(t, i)
       /\ \A u \in todo[q] : u.interface = i => u = t
       /\ t = Target1(q) /\ step[q] > 0 => tree[i] = Built(t.shape, step[q])

Stage(q, i) ==
  /\ pc[q] = "commit" => Checked(q, i)
  /\ pc[q] \in {"queue", "task"} => Written(q, i)
  /\ pc[q] = "agent" => Setup(q, i)

Lone ==
  /\ solo # {} => \A q, r \in Running : q = r
  /\ ~faulted => \A i \in solo :
       /\ Single(i)
       /\ \A q \in Running : Stage(q, i)
       /\ Running = {} => Healed(i)

IInv == TypeOK /\ (\A q \in Req : Carries(q)) /\ Lone
-----------------------------------------------------------------------------
(* The least id, the rows and the next target.                             *)

LEMMA Least ==
  ASSUME NEW H, H \subseteq Nat, H # {}
  PROVE  \E m \in H : \A j \in H : m <= j
<1> DEFINE R == OpToRel(<, Nat)
<1>1. IsWellFoundedOn(R, Nat)
  BY NatLessThanWellFounded
<1>2. PICK m \in H : \A j \in H : ~(<<j, m>> \in R)
  <2> HIDE DEF R
  <2> QED
    BY <1>1, WFMin
<1>3. \A j \in H : ~(j < m)
  BY <1>2 DEF OpToRel
<1> QED
  BY <1>3

LEMMA TargetChosen ==
  ASSUME TypeOK, NEW q \in Req, todo[q] # {}
  PROVE  Target1(q) \in todo[q] /\ Target1(q) \in Target
<1> DEFINE H == {t.id : t \in todo[q]}
<1>1. todo[q] \subseteq Target
  BY DEF TypeOK
<1>2. H \subseteq Nat /\ H # {}
  BY <1>1, QosAssumption DEF Target
<1>3. PICK m \in H : \A j \in H : m <= j
  <2> HIDE DEF H
  <2> QED
    BY <1>2, Least
<1>4. PICK t \in todo[q] : t.id = m
  BY <1>3
<1>5. \A u \in todo[q] : t.id <= u.id
  BY <1>3, <1>4
<1>6. Target1(q) \in todo[q]
  BY <1>4, <1>5 DEF Target1
<1> QED
  BY <1>1, <1>6

\* A function that is changed at one place.
LEMMA ChangedTyped ==
  ASSUME NEW D, NEW R, NEW f \in [D -> R], NEW x \in D, NEW v \in R
  PROVE  /\ [f EXCEPT ![x] = v] \in [D -> R]
         /\ [f EXCEPT ![x] = v][x] = v
         /\ \A y \in D \ {x} : [f EXCEPT ![x] = v][y] = f[y]
OBVIOUS

LEMMA RestTyped == Rest \in [kind : Kind, id : Policy \cup {None}, row : Row \cup {None}]
BY DEF Rest, Kind

LEMMA RowOf ==
  ASSUME TypeOK
  PROVE  \A p \in Ids : /\ p \in Policy /\ policies[p] \in Row
                        /\ policies[p].interface \in Interface /\ policies[p].shape \in Shape
BY DEF TypeOK, Ids, Row

LEMMA InitInv == Init => IInv
<1> SUFFICES ASSUME Init PROVE IInv
  OBVIOUS
<1>1. TypeOK
  <2>1. used \subseteq Policy /\ policies \in [Policy -> Row \cup {None}]
    BY DEF Init, Ids
  <2>2. op \in [Req -> [kind : Kind, id : Policy \cup {None}, row : Row \cup {None}]]
    BY DEF Init, Rest, Kind
  <2>3. step \in [Req -> 0 .. Depth]
    BY QosAssumption DEF Init, Depth
  <2>4. pc \in [Req -> {"idle", "commit", "queue", "task", "agent"}]
    BY DEF Init
  <2>5. todo \in [Req -> SUBSET Target]
    BY DEF Init
  <2>6. tree \in [Interface -> SUBSET (Shape \X (1 .. Depth))]
    BY DEF Init
  <2>7. solo \subseteq Interface /\ faulted \in BOOLEAN
    BY DEF Init
  <2>8. nRequests \in 0 .. MaxRequests /\ nFaults \in 0 .. MaxFaults
    BY QosAssumption DEF Init
  <2> QED
    BY <2>1, <2>2, <2>3, <2>4, <2>5, <2>6, <2>7, <2>8 DEF TypeOK
<1>2. \A q \in Req : Carries(q)
  <2>1. \A q \in Req : pc[q] = "idle" /\ ~(step[q] > 0)
    <3>1. pc = [q \in Req |-> "idle"] /\ step = [q \in Req |-> 0]
      BY DEF Init
    <3> QED
      BY <3>1
  <2> QED
    BY <2>1 DEF Carries
<1>3. Lone
  BY DEF Init, Lone
<1> QED
  BY <1>1, <1>2, <1>3 DEF IInv

-----------------------------------------------------------------------------
(* What a step leaves alone.                                               *)

LEMMA CarriesFrame ==
  ASSUME NEW r, Carries(r), pc'[r] = pc[r], op'[r] = op[r], todo'[r] = todo[r],
         step'[r] = step[r]
  PROVE  Carries(r)'
BY DEF Carries, Target1

\* A step of a request that runs alone has to keep the stage of that one, or to
\* leave the interface healed.
LEMMA LoneStep ==
  ASSUME Lone, NEW q \in Req, pc[q] # "idle", solo' = solo,
         \A r \in Req \ {q} : pc'[r] = pc[r], ~faulted' => ~faulted,
         ~faulted' => \A i \in solo :
           /\ Single(i)'
           /\ pc'[q] # "idle" => Stage(q, i)'
           /\ pc'[q] = "idle" => Healed(i)'
  PROVE  Lone'
<1>1. solo # {} => \A r \in Req : pc'[r] # "idle" => r = q
  BY DEF Lone, Running
<1>2. solo' # {} => \A r, u \in Running' : r = u
  BY <1>1 DEF Running
<1>3. ~faulted' => \A i \in solo' :
        /\ Single(i)'
        /\ \A r \in Running' : Stage(r, i)'
        /\ Running' = {} => Healed(i)'
  BY <1>1 DEF Running
<1> QED
  BY <1>2, <1>3 DEF Lone

LEMMA HealedFrame ==
  ASSUME NEW i, Healed(i), UNCHANGED policies, tree'[i] = tree[i]
  PROVE  Healed(i)'
BY DEF Healed, Of, Ids

LEMMA BeginKeeps ==
  ASSUME IInv, NEW q \in Req, NEW kind \in Kind, NEW id \in Policy \cup {None},
         NEW row \in Row \cup {None}, NEW about \in SUBSET Interface,
         NEW stage \in {"commit", "task"}, used' \subseteq Policy,
         Begin(q, kind, id, row, about, stage),
         stage = "commit" <=> kind \in Writes,
         kind \in Writes => row \in Row, kind # "push" => id \in Policy,
         \A i \in about :
           /\ kind \in Writes => row.interface = i
           /\ kind = "create" => Of(i) = {}
           /\ kind = "push" => Of(i) # {}
           /\ kind \notin {"create", "push"} => id \in Of(i)
           /\ kind = "newclass" => row.enabled = policies[id].enabled
  PROVE  IInv'
<1> USE DEF IInv
<1>1. /\ pc[q] = "idle" /\ pc' = [pc EXCEPT ![q] = stage]
      /\ op' = [op EXCEPT ![q] = [kind |-> kind, id |-> id, row |-> row]]
      /\ solo' = {i \in about : Running = {} /\ Single(i)} /\ ~faulted'
      /\ UNCHANGED <<policies, todo, step, tree, nFaults>>
      /\ nRequests < MaxRequests /\ nRequests' = nRequests + 1
  BY DEF Begin, agent
<1>2. pc'[q] = stage /\ op'[q] = [kind |-> kind, id |-> id, row |-> row]
  BY <1>1 DEF TypeOK
<1>3. \A r \in Req \ {q} : pc'[r] = pc[r] /\ op'[r] = op[r]
  BY <1>1 DEF TypeOK
<1>4. TypeOK'
  <2>1. op' \in [Req -> [kind : Kind, id : Policy \cup {None}, row : Row \cup {None}]]
    BY <1>1 DEF TypeOK
  <2>2. pc' \in [Req -> {"idle", "commit", "queue", "task", "agent"}]
    BY <1>1 DEF TypeOK
  <2>3. solo' \subseteq Interface /\ faulted' \in BOOLEAN
    BY <1>1 DEF Begin
  <2>4. nRequests' \in 0 .. MaxRequests
    BY <1>1, QosAssumption DEF TypeOK
  <2> QED
    BY <1>1, <2>1, <2>2, <2>3, <2>4 DEF TypeOK
<1>5. \A r \in Req : Carries(r)'
  <2> TAKE r \in Req
  <2>1. CASE r # q
    BY <1>1, <1>3, <2>1, CarriesFrame
  <2>2. CASE r = q
    <3>1. step[q] = 0
      BY <1>1 DEF Carries, TypeOK
    <3> QED
      BY <1>1, <1>2, <2>2, <3>1 DEF Carries
  <2> QED
    BY <2>1, <2>2
<1>6. Lone'
  <2>1. CASE Running = {}
    <3>1. Running' = {q}
      BY <1>2, <1>3, <2>1 DEF Running
    <3>2. \A i \in solo' : i \in about /\ Single(i)' /\ Of(i)' = Of(i)
      BY <1>1 DEF Single, Of, Ids
    <3>3. \A i \in solo' : Stage(q, i)'
      <4> TAKE i \in solo'
      <4>1. CASE stage = "commit"
        BY <1>1, <1>2, <3>2, <4>1 DEF Stage, Checked, SeesEnabled, Writes, Changes
      <4>2. CASE stage = "task"
        BY <1>2, <3>2, <4>2 DEF Stage, Written, Writes, Changes
      <4> QED
        BY <4>1, <4>2
    <3> QED
      BY <3>1, <3>2, <3>3 DEF Lone
  <2>2. CASE Running # {}
    BY <1>1, <2>2 DEF Lone
  <2> QED
    BY <2>1, <2>2
<1> QED
  BY <1>4, <1>5, <1>6

-----------------------------------------------------------------------------
(* The gateway's steps.                                                    *)

LEMMA CommitKeeps ==
  ASSUME IInv, NEW q \in Req, Commit(q)
  PROVE  IInv'
<1> USE DEF IInv
<1>1. /\ pc[q] = "commit" /\ UNCHANGED <<used, todo, step, tree, solo, faulted, nRequests, nFaults>>
      /\ op[q].kind \in Writes /\ op[q].row \in Row
      /\ op[q].kind # "push" /\ op[q].id \in Policy
  BY DEF Commit, agent, history, Carries, Writes, Changes
<1>2. CASE op[q].kind \in Changes /\ op[q].id \notin Ids
  <2>1. /\ pc' = [pc EXCEPT ![q] = "idle"] /\ op' = [op EXCEPT ![q] = Rest]
        /\ UNCHANGED policies
    BY <1>2 DEF Commit, Finish
  <2>2. pc'[q] = "idle" /\ \A r \in Req \ {q} : pc'[r] = pc[r] /\ op'[r] = op[r]
    BY <2>1 DEF TypeOK
  <2>3. TypeOK'
    <3>1. Rest \in [kind : Kind, id : Policy \cup {None}, row : Row \cup {None}]
      BY DEF Rest, Kind
    <3> QED
      BY <1>1, <2>1, <3>1 DEF TypeOK
  <2>4. \A r \in Req : Carries(r)'
    <3> TAKE r \in Req
    <3>1. CASE r # q
      BY <1>1, <2>2, <3>1, CarriesFrame
    <3>2. CASE r = q
      <4>1. step[q] = 0
        BY <1>1 DEF Carries, TypeOK
      <4> QED
        BY <1>1, <2>2, <3>2, <4>1 DEF Carries
    <3> QED
      BY <3>1, <3>2
  <2>5. ~faulted => solo = {}
    BY <1>1, <1>2 DEF Lone, Running, Stage, Checked, Of, Changes
  <2>6. Lone'
    BY <1>1, <2>2, <2>5, LoneStep
  <2> QED
    BY <2>3, <2>4, <2>6
<1>3. CASE op[q].kind \in Changes => op[q].id \in Ids
  <2> DEFINE p == op[q].id
             written == Outcome(op[q], policies[p])
  <2>1. /\ policies' = [policies EXCEPT ![p] = written]
        /\ pc' = [pc EXCEPT ![q] = "queue"] /\ UNCHANGED op
    BY <1>3 DEF Commit
  <2>2. op[q].kind = "delete" => written = None
    BY DEF Outcome
  <2>3. op[q].kind \in {"newclass", "classes"} =>
          /\ written \in Row /\ written.interface = policies[p].interface
          /\ written.enabled = policies[p].enabled
    <3>1. op[q].kind \in {"newclass", "classes"} => written =
            [policies[p] EXCEPT !.shape.classes = op[q].row.shape.classes]
      BY DEF Outcome
    <3>2. op[q].row.shape.classes \in Lists
      BY <1>1 DEF Row, Shape
    <3>3. op[q].kind \in {"newclass", "classes"} => policies[p] \in Row
      BY <1>3, RowOf DEF Changes
    <3> QED
      BY <3>1, <3>2, <3>3 DEF Row, Shape
  <2>4. op[q].kind \in {"create", "update"} =>
          written \in Row /\ written.interface = op[q].row.interface
    <3>1. op[q].kind = "create" => written = op[q].row
      BY DEF Outcome
    <3>2. CASE op[q].kind = "update"
      <4>1. written = [op[q].row EXCEPT !.shape.classes = policies[p].shape.classes]
        BY <3>2 DEF Outcome
      <4>2. policies[p].shape.classes \in Lists
        BY <1>3, <3>2, RowOf DEF Changes, Shape
      <4> QED
        BY <1>1, <4>1, <4>2 DEF Row, Shape
    <3> QED
      BY <1>1, <3>1, <3>2
  <2> HIDE DEF written
  <2>5. written \in Row \cup {None}
    BY <1>1, <2>2, <2>3, <2>4 DEF Writes, Changes
  <2>6. pc'[q] = "queue" /\ \A r \in Req \ {q} : pc'[r] = pc[r]
    BY <2>1 DEF TypeOK
  <2>7. policies'[p] = written /\ \A r \in Policy \ {p} : policies'[r] = policies[r]
    BY <1>1, <2>1 DEF TypeOK
  <2>8. TypeOK'
    BY <1>1, <2>1, <2>5 DEF TypeOK
  <2>9. \A r \in Req : Carries(r)'
    <3> TAKE r \in Req
    <3>1. CASE r # q
      BY <1>1, <2>1, <2>6, <3>1, CarriesFrame
    <3>2. CASE r = q
      <4>1. step[q] = 0
        BY <1>1 DEF Carries, TypeOK
      <4> QED
        BY <1>1, <2>1, <2>6, <3>2, <4>1 DEF Carries
    <3> QED
      BY <3>1, <3>2
  <2>10. ASSUME ~faulted, NEW i \in solo
         PROVE  Single(i)' /\ Written(q, i)'
    <3>1. Single(i) /\ Checked(q, i)
      BY <1>1, <2>10 DEF Lone, Running, Stage
    <3>2. CASE op[q].kind = "delete"
      <4>1. Of(i) = {p} /\ op[q].row.interface = i
        BY <3>1, <3>2 DEF Checked, Single
      <4>2. Of(i)' = {}
        BY <2>2, <2>7, <3>2, <4>1 DEF Of, Ids
      <4> QED
        BY <2>1, <3>2, <4>1, <4>2 DEF Single, Written, SeesEnabled
    <3>3. CASE op[q].kind \in {"create", "update"}
      <4>1. written.interface = i /\ written # None
        BY <1>1, <2>4, <3>1, <3>3, QosAssumption DEF Checked
      <4>2. Of(i) \subseteq {p}
        BY <3>1, <3>3 DEF Checked, Single
      <4>3. Of(i)' = {p}
        BY <1>1, <2>7, <4>1, <4>2 DEF Of, Ids
      <4> QED
        BY <2>1, <3>3, <4>3 DEF Single, Written, SeesEnabled
    <3>4. CASE op[q].kind \in {"newclass", "classes"}
      <4>1. Of(i) = {p}
        BY <3>1, <3>4 DEF Checked, Single
      <4>2. written.interface = i /\ written # None
        BY <2>3, <3>4, <4>1, QosAssumption DEF Of
      <4>3. Of(i)' = {p}
        BY <1>1, <2>7, <4>1, <4>2 DEF Of, Ids
      <4> QED
        BY <1>1, <2>1, <2>3, <2>7, <3>1, <3>4, <4>3 DEF Single, Written, Checked, SeesEnabled
    <3> QED
      BY <1>1, <3>2, <3>3, <3>4 DEF Writes, Changes
  <2>11. Lone'
    <3>1. ~faulted' => \A i \in solo : Single(i)' /\ Stage(q, i)'
      BY <1>1, <2>6, <2>10 DEF Stage
    <3> QED
      BY <1>1, <2>6, <3>1, LoneStep
  <2> QED
    BY <2>8, <2>9, <2>11
<1> QED
  BY <1>2, <1>3

LEMMA QueueKeeps ==
  ASSUME IInv, NEW q \in Req, Queue(q)
  PROVE  IInv'
<1> USE DEF IInv
<1>1. /\ pc[q] = "queue" /\ op[q].kind \in Writes /\ op[q].row \in Row
      /\ op[q].kind # "push" /\ op[q].id \in Policy /\ step[q] = 0
      /\ UNCHANGED <<policies, used, todo, step, tree, solo, nRequests>>
      /\ \/ UNCHANGED <<faulted, nFaults>>
         \/ nFaults < MaxFaults /\ nFaults' = nFaults + 1 /\ faulted' = TRUE
  BY DEF Queue, agent, Works, Fails, Carries, Writes, Changes, TypeOK
<1>2. \/ pc' = [pc EXCEPT ![q] = "task"] /\ UNCHANGED op
      \/ /\ ~Queues(q) \/ faulted' = TRUE
         /\ pc' = [pc EXCEPT ![q] = "idle"] /\ op' = [op EXCEPT ![q] = Rest]
  BY DEF Queue, Finish, Fails
<1>3. \A r \in Req \ {q} : pc'[r] = pc[r] /\ op'[r] = op[r]
  BY <1>2 DEF TypeOK
<1>4. \/ pc'[q] = "task" /\ op'[q] = op[q]
      \/ pc'[q] = "idle" /\ (~Queues(q) \/ faulted' = TRUE)
  BY <1>2 DEF TypeOK
<1>5. TypeOK'
  <2>1. op' \in [Req -> [kind : Kind, id : Policy \cup {None}, row : Row \cup {None}]]
    <3>1. op \in [Req -> [kind : Kind, id : Policy \cup {None}, row : Row \cup {None}]]
      BY DEF TypeOK
    <3> HIDE DEF IInv
    <3> QED
      BY <1>2, <3>1, RestTyped, ChangedTyped
  <2>2. pc' \in [Req -> {"idle", "commit", "queue", "task", "agent"}]
    <3>1. pc \in [Req -> {"idle", "commit", "queue", "task", "agent"}]
      BY DEF TypeOK
    <3> HIDE DEF IInv
    <3> QED
      BY <1>2, <3>1
  <2>3. nFaults' \in 0 .. MaxFaults /\ faulted' \in BOOLEAN
    <3>1. nFaults \in 0 .. MaxFaults /\ faulted \in BOOLEAN /\ MaxFaults \in Nat
      BY QosAssumption DEF TypeOK
    <3>2. \/ faulted' = faulted /\ nFaults' = nFaults
          \/ nFaults < MaxFaults /\ nFaults' = nFaults + 1 /\ faulted' = TRUE
      BY <1>1
    <3>3. faulted' \in BOOLEAN
      BY <3>1, <3>2
    <3>4. nFaults' \in 0 .. MaxFaults
      <4> HIDE DEF IInv
      <4> QED
        BY <3>1, <3>2
    <3> QED
      BY <3>3, <3>4
  <2> QED
    BY <1>1, <2>1, <2>2, <2>3 DEF TypeOK
<1>6. \A r \in Req : Carries(r)'
  <2> TAKE r \in Req
  <2>1. CASE r # q
    BY <1>1, <1>3, <2>1, CarriesFrame
  <2>2. CASE r = q
    BY <1>1, <1>4, <2>2 DEF Carries
  <2> QED
    BY <2>1, <2>2
<1>7. ASSUME ~faulted, NEW i \in solo
      PROVE  /\ Single(i)' /\ Single(i)
             /\ Written(q, i)
             /\ pc'[q] = "task" => Written(q, i)'
  <2>1. Single(i) /\ Written(q, i)
    BY <1>1, <1>7 DEF Lone, Running, Stage
  <2> QED
    BY <1>1, <1>4, <2>1 DEF Single, Written, Of, Ids
<1>8. ASSUME ~faulted, ~faulted', NEW i \in solo, pc'[q] = "idle"
      PROVE  Healed(i)'
  <2>0. ~Queues(q)
    BY <1>4, <1>8
  <2>1. Single(i) /\ op[q].id \in Of(i) /\ ~policies[op[q].id].enabled
    <3>1. Single(i) /\ Written(q, i) /\ pc[q] = "queue"
      BY <1>1, <1>7, <1>8
    <3>2. op[q].kind # "delete" /\ op[q].id \in Of(i) /\ SeesEnabled(q)
      BY <1>1, <2>0, <3>1 DEF Queues, Written
    <3> HIDE DEF IInv
    <3> QED
      BY <2>0, <3>1, <3>2 DEF Queues, SeesEnabled, Of
  <2>2. Healed(i)
    BY <2>1 DEF Healed, Single
  <2> QED
    BY <1>1, <2>2, HealedFrame
<1>9. Lone'
  <2>1. ~faulted' => \A i \in solo :
          /\ Single(i)'
          /\ pc'[q] # "idle" => Stage(q, i)'
          /\ pc'[q] = "idle" => Healed(i)'
    BY <1>1, <1>4, <1>7, <1>8 DEF Stage
  <2>2. ~faulted' => ~faulted
    BY <1>1
  <2> QED
    BY <1>1, <1>3, <2>1, <2>2, LoneStep
<1> QED
  BY <1>5, <1>6, <1>9

LEMMA TaskKeeps ==
  ASSUME IInv, NEW q \in Req, Task(q)
  PROVE  IInv'
<1> USE DEF IInv
<1>1. /\ pc[q] = "task" /\ step[q] = 0
      /\ UNCHANGED <<policies, used, step, tree, solo, nRequests>>
  BY DEF Task, Carries, TypeOK
<1>2. \/ /\ Targets(q) # {} /\ UNCHANGED <<faulted, nFaults, op>>
         /\ todo' = [todo EXCEPT ![q] = Targets(q)]
         /\ pc' = [pc EXCEPT ![q] = "agent"]
      \/ /\ IF Targets(q) = {} THEN UNCHANGED <<faulted, nFaults>>
            ELSE faulted' = TRUE /\ nFaults < MaxFaults /\ nFaults' = nFaults + 1
         /\ pc' = [pc EXCEPT ![q] = "idle"] /\ op' = [op EXCEPT ![q] = Rest]
         /\ UNCHANGED todo
  BY DEF Task, Works, Fails, Finish
<1>3. \A r \in Req \ {q} : pc'[r] = pc[r] /\ op'[r] = op[r] /\ todo'[r] = todo[r]
  BY <1>2 DEF TypeOK
<1>4. \/ /\ pc'[q] = "agent" /\ todo'[q] = Targets(q) /\ Targets(q) # {}
         /\ op'[q] = op[q] /\ faulted' = faulted
      \/ /\ pc'[q] = "idle" /\ Targets(q) = {} /\ faulted' = faulted
      \/ pc'[q] = "idle" /\ faulted' = TRUE
  BY <1>2 DEF TypeOK
<1>5. /\ op[q].kind = "delete" => op[q].row \in Row /\ op[q].id \in Policy
      /\ op[q].kind \notin {"delete", "push"} => op[q].id \in Policy
  BY <1>1 DEF Carries, Writes
<1> DEFINE Loaded(ids) == {[id |-> p, interface |-> policies[p].interface,
                            shape |-> policies[p].shape] : p \in ids}
           Clear == [id |-> op[q].id, interface |-> op[q].row.interface, shape |-> None]
           Enabled == {p \in Ids : policies[p].enabled}
<1>6. /\ op[q].kind = "delete" => Targets(q) = {Clear}
      /\ op[q].kind = "push" => Targets(q) = Loaded(Enabled)
      /\ op[q].kind \notin {"delete", "push"} => Targets(q) = Loaded({op[q].id} \cap Ids)
  BY DEF Targets
<1>7. Targets(q) \subseteq Target
  <2>1. op[q].kind = "delete" => Clear \in Target
    BY <1>5 DEF Target, Row
  <2>2. \A ids \in SUBSET Ids : Loaded(ids) \subseteq Target
    BY RowOf DEF Target
  <2> QED
    BY <1>6, <2>1, <2>2
<1>8. TypeOK'
  <2>1. Rest \in [kind : Kind, id : Policy \cup {None}, row : Row \cup {None}]
    BY DEF Rest, Kind
  <2>2. op' \in [Req -> [kind : Kind, id : Policy \cup {None}, row : Row \cup {None}]]
    BY <1>2, <2>1 DEF TypeOK
  <2>3. pc' \in [Req -> {"idle", "commit", "queue", "task", "agent"}]
    BY <1>2 DEF TypeOK
  <2>4. todo' \in [Req -> SUBSET Target]
    BY <1>2, <1>7 DEF TypeOK
  <2>5. faulted' \in BOOLEAN
    BY <1>2 DEF TypeOK
  <2>6. nFaults' \in 0 .. MaxFaults
    BY <1>2, QosAssumption DEF TypeOK
  <2> QED
    BY <1>1, <2>2, <2>3, <2>4, <2>5, <2>6 DEF TypeOK
<1>9. \A r \in Req : Carries(r)'
  <2> TAKE r \in Req
  <2>1. CASE r # q
    BY <1>1, <1>3, <2>1, CarriesFrame
  <2>2. CASE r = q
    BY <1>1, <1>4, <2>2 DEF Carries
  <2> QED
    BY <2>1, <2>2
<1>10. ASSUME ~faulted', NEW i \in solo
       PROVE  /\ Single(i) /\ Single(i)'
              /\ pc'[q] = "agent" => Setup(q, i)'
              /\ pc'[q] = "idle" => Healed(i)'
  <2>1. /\ ~faulted
        /\ Targets(q) = todo'[q] \/ Targets(q) = {}
    <3>1. ~(faulted' = TRUE)
      BY <1>10
    <3>2. faulted' = faulted => ~faulted
      BY <1>10
    <3> QED
      BY <1>4, <3>1, <3>2
  <2>2. Single(i) /\ Written(q, i)
    BY <1>1, <2>1 DEF Lone, Running, Stage
  <2>3. Single(i)' /\ Of(i)' = Of(i)
    BY <1>1, <2>2 DEF Single, Of, Ids
  <2>4. CASE op[q].kind = "delete"
    <3>1. Targets(q) = {Clear} /\ Clear.interface = i /\ Clear.shape = None /\ Of(i) = {}
      BY <1>6, <2>2, <2>4 DEF Written
    <3>2. todo'[q] = {Clear} /\ pc'[q] = "agent"
      BY <1>4, <1>10, <3>1
    <3> HIDE DEF Clear
    <3>3. Setup(q, i)'
      BY <1>1, <2>3, <3>1, <3>2 DEF Setup, Asks
    <3> QED
      BY <2>2, <2>3, <3>2, <3>3
  <2>5. CASE op[q].kind # "delete"
    <3>1. PICK p \in Of(i) : TRUE
      BY <2>2, <2>5 DEF Written
    <3>2. Of(i) = {p} /\ p \in Ids /\ policies[p].interface = i
      BY <2>2, <3>1 DEF Single, Of
    <3>3. PICK ids \in SUBSET Ids :
            /\ Targets(q) = Loaded(ids)
            /\ p \notin ids => ~policies[p].enabled
      <4>1. CASE op[q].kind = "push"
        <5>1. Enabled \in SUBSET Ids /\ (p \notin Enabled => ~policies[p].enabled)
          BY <3>2
        <5>2. Targets(q) = Loaded(Enabled)
          BY <1>6, <4>1
        <5> HIDE DEF Enabled, Loaded
        <5> QED
          BY <5>1, <5>2
      <4>2. CASE op[q].kind # "push"
        BY <1>6, <2>2, <2>5, <3>2, <4>2 DEF Written
      <4> QED
        BY <4>1, <4>2
    <3>4. CASE p \in ids
      <4> DEFINE t == [id |-> p, interface |-> policies[p].interface, shape |-> policies[p].shape]
      <4>1. t \in Targets(q) /\ t.interface = i /\ t.shape = policies[p].shape
        BY <3>2, <3>3, <3>4
      <4>2. \A u \in Targets(q) : u.interface = i => u = t
        BY <3>2, <3>3 DEF Of
      <4>3. todo'[q] = Targets(q) /\ pc'[q] = "agent"
        BY <1>4, <1>10, <4>1
      <4> HIDE DEF t
      <4>4. Setup(q, i)'
        BY <1>1, <2>3, <3>2, <4>1, <4>2, <4>3 DEF Setup, Asks
      <4> QED
        BY <2>2, <2>3, <4>3, <4>4
    <3>5. CASE p \notin ids
      <4>1. \A u \in Targets(q) : u.interface # i
        BY <3>2, <3>3, <3>5 DEF Of
      <4>2. Healed(i)'
        BY <1>1, <2>3, <3>2, <3>3, <3>5 DEF Healed
      <4>3. pc'[q] = "agent" => Setup(q, i)'
        BY <1>4, <4>1, <4>2 DEF Setup
      <4> QED
        BY <2>2, <2>3, <4>2, <4>3
    <3> QED
      BY <3>4, <3>5
  <2> QED
    BY <2>4, <2>5
<1>11. Lone'
  <2>1. ~faulted' => \A i \in solo :
          /\ Single(i)'
          /\ pc'[q] # "idle" => Stage(q, i)'
          /\ pc'[q] = "idle" => Healed(i)'
    BY <1>4, <1>10 DEF Stage
  <2>2. ~faulted' => ~faulted
    BY <1>4
  <2> QED
    BY <1>1, <1>3, <2>1, <2>2, LoneStep
<1> QED
  BY <1>8, <1>9, <1>11

-----------------------------------------------------------------------------
(* The agent's steps.                                                      *)

\* A target on another interface changes nothing for this one.
LEMMA OtherInterface ==
  ASSUME NEW q \in Req, NEW i, Setup(q, i), Target1(q) \in todo[q],
         Target1(q).interface # i, tree'[i] = tree[i], UNCHANGED policies,
         \/ todo'[q] = todo[q]
         \/ todo'[q] = todo[q] \ {Target1(q)} /\ step'[q] = 0
  PROVE  Setup(q, i)' /\ (todo'[q] = {} => Healed(i)')
<1>1. Of(i)' = Of(i) /\ UNCHANGED policies
  BY DEF Of, Ids
<1>2. CASE (\A t \in todo[q] : t.interface # i) /\ Healed(i)
  <2>1. Healed(i)'
    BY <1>2, HealedFrame
  <2> QED
    BY <1>2, <2>1 DEF Setup
<1>3. CASE \E t \in todo[q] :
        /\ t.interface = i /\ Asks(t, i)
        /\ \A u \in todo[q] : u.interface = i => u = t
        /\ t = Target1(q) /\ step[q] > 0 => tree[i] = Built(t.shape, step[q])
  <2>1. PICK t \in todo[q] :
          t.interface = i /\ Asks(t, i) /\ \A u \in todo[q] : u.interface = i => u = t
    BY <1>3
  <2>2. Asks(t, i)' /\ t \in todo'[q] /\ \A u \in todo'[q] : u.interface = i => u = t
    BY <1>1, <2>1 DEF Asks
  <2>3. ~(t = Target1(q)' /\ step'[q] > 0)
    <3>1. CASE todo'[q] = todo[q]
      <4>1. Target1(q)' = Target1(q)
        BY <3>1 DEF Target1
      <4> QED
        BY <2>1, <4>1
    <3>2. CASE step'[q] = 0
      BY <3>2
    <3> QED
      BY <3>1, <3>2
  <2> QED
    BY <2>1, <2>2, <2>3 DEF Setup
<1> QED
  BY <1>2, <1>3 DEF Setup

\* The one target of an interface is the next one.
LEMMA ThisInterface ==
  ASSUME NEW q \in Req, Setup(q, Target1(q).interface), Target1(q) \in todo[q]
  PROVE  LET t == Target1(q)  i == t.interface IN
         /\ Asks(t, i) /\ \A u \in todo[q] : u.interface = i => u = t
         /\ step[q] > 0 => tree[i] = Built(t.shape, step[q])
<1> DEFINE t == Target1(q)
           i == t.interface
<1>1. PICK v \in todo[q] :
        /\ v.interface = i /\ Asks(v, i)
        /\ \A u \in todo[q] : u.interface = i => u = v
        /\ v = Target1(q) /\ step[q] > 0 => tree[i] = Built(v.shape, step[q])
  <2> HIDE DEF t
  <2> QED
    BY DEF Setup, t
<1>2. v = t
  <2> HIDE DEF t
  <2> QED
    BY <1>1 DEF t
<1> QED
  BY <1>1, <1>2

\* What both ways to leave a target behind have in common.
LEMMA NextTyped ==
  ASSUME TypeOK, NEW q \in Req, Next1(q), Target1(q) \in todo[q], pc[q] = "agent"
  PROVE  /\ step' \in [Req -> 0 .. Depth] /\ todo' \in [Req -> SUBSET Target]
         /\ pc' \in [Req -> {"idle", "commit", "queue", "task", "agent"}]
         /\ op' \in [Req -> [kind : Kind, id : Policy \cup {None}, row : Row \cup {None}]]
         /\ \A r \in Req \ {q} : /\ pc'[r] = pc[r] /\ op'[r] = op[r]
                                 /\ todo'[r] = todo[r] /\ step'[r] = step[r]
         /\ step'[q] = 0 /\ todo'[q] = todo[q] \ {Target1(q)}
         /\ todo'[q] = {} => pc'[q] = "idle"
         /\ todo'[q] # {} => pc'[q] = "agent" /\ op'[q] = op[q]
<1> DEFINE t == Target1(q)
<1>1. step' = [step EXCEPT ![q] = 0] /\ todo' = [todo EXCEPT ![q] = @ \ {t}]
  BY DEF Next1
<1>2. IF todo[q] = {t}
      THEN pc' = [pc EXCEPT ![q] = "idle"] /\ op' = [op EXCEPT ![q] = Rest]
      ELSE UNCHANGED <<pc, op>>
  BY DEF Next1, Finish
<1> HIDE DEF t
<1>4. 0 \in 0 .. Depth
  BY QosAssumption DEF Depth
<1>5. todo[q] = {t} <=> todo[q] \ {t} = {}
  BY DEF t
<1>6. step' \in [Req -> 0 .. Depth] /\ todo' \in [Req -> SUBSET Target]
  BY <1>1, <1>4 DEF TypeOK
<1>7. /\ pc' \in [Req -> {"idle", "commit", "queue", "task", "agent"}]
      /\ op' \in [Req -> [kind : Kind, id : Policy \cup {None}, row : Row \cup {None}]]
  <2>1. /\ pc \in [Req -> {"idle", "commit", "queue", "task", "agent"}]
        /\ op \in [Req -> [kind : Kind, id : Policy \cup {None}, row : Row \cup {None}]]
    BY DEF TypeOK
  <2>2. pc' \in [Req -> {"idle", "commit", "queue", "task", "agent"}]
    BY <1>2, <2>1
  <2>3. op' \in [Req -> [kind : Kind, id : Policy \cup {None}, row : Row \cup {None}]]
    BY <1>2, <2>1, RestTyped, ChangedTyped
  <2> QED
    BY <2>2, <2>3
<1>8. \A r \in Req \ {q} : /\ pc'[r] = pc[r] /\ op'[r] = op[r]
                           /\ todo'[r] = todo[r] /\ step'[r] = step[r]
  BY <1>1, <1>2 DEF TypeOK
<1>9. step'[q] = 0 /\ todo'[q] = todo[q] \ {t}
  BY <1>1 DEF TypeOK
<1>10. /\ todo'[q] = {} => pc'[q] = "idle"
       /\ todo'[q] # {} => pc'[q] = "agent" /\ op'[q] = op[q]
  BY <1>2, <1>5, <1>9 DEF TypeOK
<1> QED
  BY <1>6, <1>7, <1>8, <1>9, <1>10 DEF t

LEMMA NextCarries ==
  ASSUME IInv, NEW q \in Req, Next1(q), Target1(q) \in todo[q], pc[q] = "agent"
  PROVE  \A r \in Req : Carries(r)'
<1> USE DEF IInv
<1> TAKE r \in Req
<1>1. CASE r # q
  BY <1>1, NextTyped, CarriesFrame
<1>2. CASE r = q
  <2>1. /\ step'[q] = 0
        /\ pc'[q] # "idle" => pc'[q] = "agent" /\ op'[q] = op[q] /\ todo'[q] # {}
    BY NextTyped
  <2> QED
    BY <1>2, <2>1 DEF Carries
<1> QED
  BY <1>1, <1>2

\* A refused policy leaves the tree, and has no claim on it.
LEMMA RefuseKeeps ==
  ASSUME IInv, NEW q \in Req, Refuse(q)
  PROVE  IInv'
<1> USE DEF IInv
<1>1. /\ pc[q] = "agent" /\ Target1(q) \in todo[q] /\ Target1(q) \in Target /\ Next1(q)
      /\ Target1(q).shape \in Refused
      /\ UNCHANGED <<policies, used, tree, solo, faulted, nRequests, nFaults>>
  BY TargetChosen DEF Refuse, Carries, history
<1>2. PICK t \in todo[q] : t = Target1(q) /\ t \in Target /\ t.shape \in Refused
  BY <1>1
<1>3. /\ \A r \in Req \ {q} : pc'[r] = pc[r]
      /\ step'[q] = 0 /\ todo'[q] = todo[q] \ {t}
      /\ todo'[q] = {} => pc'[q] = "idle"
      /\ todo'[q] # {} => pc'[q] = "agent"
  BY <1>1, <1>2, NextTyped
<1>4. TypeOK'
  <2>1. /\ step' \in [Req -> 0 .. Depth] /\ todo' \in [Req -> SUBSET Target]
        /\ pc' \in [Req -> {"idle", "commit", "queue", "task", "agent"}]
        /\ op' \in [Req -> [kind : Kind, id : Policy \cup {None}, row : Row \cup {None}]]
    BY <1>1, NextTyped
  <2> QED
    BY <1>1, <2>1 DEF TypeOK
<1>5. \A r \in Req : Carries(r)'
  BY <1>1, NextCarries
<1>6. ASSUME ~faulted, NEW i \in solo
      PROVE  /\ Single(i)'
             /\ pc'[q] = "agent" => Setup(q, i)'
             /\ pc'[q] = "idle" => Healed(i)'
  <2>1. Single(i) /\ Setup(q, i)
    BY <1>1, <1>6 DEF Lone, Running, Stage
  <2>2. Single(i)' /\ Of(i)' = Of(i)
    BY <1>1, <2>1 DEF Single, Of, Ids
  <2>3. CASE t.interface # i
    <3>1. Setup(q, i)' /\ (todo'[q] = {} => Healed(i)')
      BY <1>1, <1>2, <1>3, <2>1, <2>3, OtherInterface
    <3> QED
      BY <1>3, <2>2, <3>1
  <2>4. CASE t.interface = i
    <3>1. Asks(t, i) /\ \A u \in todo[q] : u.interface = i => u = t
      BY <1>1, <1>2, <2>1, <2>4, ThisInterface
    <3>2. PICK p \in Of(i) : policies[p].shape \in Refused
      BY <1>2, <3>1, QosAssumption DEF Asks
    <3>3. Healed(i)
      BY <2>1, <3>2 DEF Healed, Single
    <3>4. Healed(i)'
      BY <1>1, <3>3, HealedFrame
    <3>5. Setup(q, i)'
      BY <1>3, <3>1, <3>4 DEF Setup
    <3> QED
      BY <2>2, <3>4, <3>5
  <2> QED
    BY <2>3, <2>4
<1>7. Lone'
  <2>1. ~faulted' => \A i \in solo :
          /\ Single(i)'
          /\ pc'[q] # "idle" => Stage(q, i)'
          /\ pc'[q] = "idle" => Healed(i)'
    BY <1>1, <1>3, <1>6 DEF Stage
  <2> QED
    BY <1>1, <1>3, <2>1, LoneStep
<1> QED
  BY <1>4, <1>5, <1>7

LEMMA DeleteRootKeeps ==
  ASSUME IInv, NEW q \in Req, DeleteRoot(q)
  PROVE  IInv'
<1> USE DEF IInv
<1>0. pc[q] = "agent" /\ Target1(q) \in todo[q] /\ Target1(q) \in Target
  BY TargetChosen DEF DeleteRoot, Carries
<1>3. PICK t \in todo[q] : t = Target1(q) /\ t \in Target
  BY <1>0
<1>1. /\ pc[q] = "agent" /\ step[q] = 0
      /\ UNCHANGED <<policies, used, solo, nRequests>>
      /\ \/ faulted' = faulted /\ nFaults' = nFaults /\ tree' = [tree EXCEPT ![t.interface] = {}]
         \/ /\ faulted' = TRUE /\ nFaults < MaxFaults /\ nFaults' = nFaults + 1
            /\ UNCHANGED tree
  BY <1>3 DEF DeleteRoot, Works, Fails, Cleared
<1>2. \/ t.shape = None /\ Next1(q)
      \/ /\ t.shape # None /\ step' = [step EXCEPT ![q] = 1]
         /\ UNCHANGED <<todo, pc, op>>
  BY <1>3 DEF DeleteRoot
<1>4. t.interface \in Interface /\ (t.shape = None \/ t.shape \in Shape)
  BY <1>3 DEF Target
<1>5. 1 \in 0 .. Depth /\ \A s \in Shape : 1 <= Steps(s)
  BY QosAssumption DEF Depth, Steps
<1>6. TypeOK'
  <2>1. tree' \in [Interface -> SUBSET (Shape \X (1 .. Depth))]
    BY <1>1 DEF TypeOK
  <2>2. nFaults' \in 0 .. MaxFaults
    BY <1>1, QosAssumption DEF TypeOK
  <2>3. faulted' \in BOOLEAN
    BY <1>1 DEF TypeOK
  <2>4. /\ step' \in [Req -> 0 .. Depth] /\ todo' \in [Req -> SUBSET Target]
        /\ pc' \in [Req -> {"idle", "commit", "queue", "task", "agent"}]
        /\ op' \in [Req -> [kind : Kind, id : Policy \cup {None}, row : Row \cup {None}]]
    <3>1. CASE Next1(q)
      BY <1>1, <1>3, <3>1, NextTyped
    <3>2. CASE step' = [step EXCEPT ![q] = 1] /\ UNCHANGED <<todo, pc, op>>
      BY <1>5, <3>2 DEF TypeOK
    <3> QED
      BY <1>2, <3>1, <3>2
  <2> QED
    BY <1>1, <2>1, <2>2, <2>3, <2>4 DEF TypeOK
<1>7. CASE t.shape = None /\ Next1(q)
  <2>1. \A r \in Req : Carries(r)'
    BY <1>1, <1>3, <1>7, NextCarries
  <2>2. /\ \A r \in Req \ {q} : pc'[r] = pc[r]
        /\ step'[q] = 0 /\ todo'[q] = todo[q] \ {t}
        /\ todo'[q] = {} => pc'[q] = "idle"
        /\ todo'[q] # {} => pc'[q] = "agent"
    BY <1>1, <1>3, <1>7, NextTyped
  <2>3. ASSUME ~faulted', NEW i \in solo
        PROVE  /\ Single(i)'
               /\ pc'[q] = "agent" => Setup(q, i)'
               /\ pc'[q] = "idle" => Healed(i)'
    <3>1. ~faulted /\ tree' = [tree EXCEPT ![t.interface] = {}]
      BY <1>1, <2>3
    <3>2. Single(i) /\ Setup(q, i) /\ i \in Interface
      BY <1>1, <3>1 DEF Lone, Running, Stage, TypeOK
    <3>3. Single(i)' /\ Of(i)' = Of(i)
      BY <1>1, <3>2 DEF Single, Of, Ids
    <3>4. CASE t.interface # i
      <4>1. tree'[i] = tree[i]
        BY <3>1, <3>2, <3>4 DEF TypeOK
      <4>2. Setup(q, i)' /\ (todo'[q] = {} => Healed(i)')
        BY <1>1, <1>3, <2>2, <3>2, <3>4, <4>1, OtherInterface
      <4> QED
        BY <2>2, <3>3, <4>2
    <3>5. CASE t.interface = i
      <4>1. Asks(t, i) /\ \A u \in todo[q] : u.interface = i => u = t
        BY <1>3, <3>2, <3>5, ThisInterface
      <4>2. Of(i) = {}
        BY <1>7, <4>1, RowOf, QosAssumption DEF Asks, Of
      <4>3. tree'[i] = {}
        BY <1>4, <3>1, <3>5 DEF TypeOK
      <4>4. Healed(i)'
        BY <3>3, <4>2, <4>3 DEF Healed
      <4>5. Setup(q, i)'
        BY <2>2, <4>1, <4>4 DEF Setup
      <4> QED
        BY <3>3, <4>4, <4>5
    <3> QED
      BY <3>4, <3>5
  <2>4. ~faulted' => \A i \in solo :
          /\ Single(i)'
          /\ pc'[q] # "idle" => Stage(q, i)'
          /\ pc'[q] = "idle" => Healed(i)'
    BY <2>2, <2>3 DEF Stage
  <2>5. ~faulted' => ~faulted
    BY <1>1
  <2>6. Lone'
    BY <1>1, <2>2, <2>4, <2>5, LoneStep
  <2> QED
    BY <1>6, <2>1, <2>6
<1>8. CASE /\ t.shape # None /\ step' = [step EXCEPT ![q] = 1]
           /\ UNCHANGED <<todo, pc, op>>
  <2>1. step'[q] = 1 /\ \A r \in Req \ {q} : step'[r] = step[r]
    BY <1>8 DEF TypeOK
  <2>2. \A r \in Req : Carries(r)'
    <3> TAKE r \in Req
    <3>1. CASE r # q
      BY <1>8, <2>1, <3>1, CarriesFrame
    <3>2. CASE r = q
      <4>1. Target1(q)' = t
        BY <1>3, <1>8 DEF Target1
      <4> QED
        BY <1>1, <1>4, <1>5, <1>8, <2>1, <3>2, <4>1 DEF Carries
    <3> QED
      BY <3>1, <3>2
  <2>3. ASSUME ~faulted', NEW i \in solo
        PROVE  Single(i)' /\ Setup(q, i)'
    <3>1. ~faulted /\ tree' = [tree EXCEPT ![t.interface] = {}]
      BY <1>1, <2>3
    <3>2. Single(i) /\ Setup(q, i) /\ i \in Interface
      BY <1>1, <3>1 DEF Lone, Running, Stage, TypeOK
    <3>3. Single(i)' /\ Of(i)' = Of(i)
      BY <1>1, <3>2 DEF Single, Of, Ids
    <3>4. CASE t.interface # i
      <4>1. tree'[i] = tree[i]
        BY <3>1, <3>2, <3>4 DEF TypeOK
      <4> QED
        BY <1>1, <1>3, <1>8, <3>2, <3>3, <3>4, <4>1, OtherInterface
    <3>5. CASE t.interface = i
      <4>1. Asks(t, i) /\ \A u \in todo[q] : u.interface = i => u = t
        BY <1>3, <3>2, <3>5, ThisInterface
      <4>2. tree'[i] = Built(t.shape, step'[q])
        <5>1. tree'[i] = {}
          BY <1>4, <3>1, <3>5 DEF TypeOK
        <5>2. Built(t.shape, 1) = {}
          BY DEF Built
        <5> QED
          BY <2>1, <5>1, <5>2
      <4>3. Asks(t, i)'
        BY <1>1, <3>3, <4>1 DEF Asks
      <4> QED
        <5>1. t \in todo'[q] /\ \A u \in todo'[q] : u.interface = i => u = t
          BY <1>3, <1>8, <4>1
        <5> QED
          BY <3>3, <3>5, <4>2, <4>3, <5>1 DEF Setup
    <3> QED
      BY <3>4, <3>5
  <2>4. ~faulted' => \A i \in solo :
          /\ Single(i)'
          /\ pc'[q] # "idle" => Stage(q, i)'
          /\ pc'[q] = "idle" => Healed(i)'
    BY <1>1, <1>8, <2>3 DEF Stage
  <2>5. ~faulted' => ~faulted
    BY <1>1
  <2>6. Lone'
    BY <1>1, <1>8, <2>4, <2>5, LoneStep
  <2> QED
    BY <1>6, <2>2, <2>6
<1> QED
  BY <1>2, <1>7, <1>8

\* A half-built prefix of a tree takes its next command.
LEMMA PrefixAccepted ==
  ASSUME NEW i, NEW shape \in Shape, NEW k \in 1 .. Steps(shape),
         tree[i] = Built(shape, k)
  PROVE  Accepted(i, shape, k)
<1>1. \A e \in tree[i] : e[1] = shape /\ e[2] # k
  BY DEF Built
<1>2. k > 1 => <<shape, 1>> \in tree[i] /\ shape.method \in Htb
  BY DEF Built, Steps
<1> QED
  BY <1>1, <1>2 DEF Accepted

LEMMA BuiltNext ==
  ASSUME NEW shape, NEW k \in Nat, k > 0
  PROVE  Built(shape, k + 1) = Built(shape, k) \cup {<<shape, k>>}
<1>1. 1 .. ((k + 1) - 1) = (1 .. (k - 1)) \cup {k}
  OBVIOUS
<1> QED
  BY <1>1 DEF Built

LEMMA AddStepKeeps ==
  ASSUME IInv, NEW q \in Req, AddStep(q)
  PROVE  IInv'
<1> USE DEF IInv
<1>0. pc[q] = "agent" /\ step[q] > 0 /\ Target1(q) \in todo[q] /\ Target1(q) \in Target
  BY TargetChosen DEF AddStep, Carries
<1>1. PICK t \in todo[q] : t = Target1(q) /\ t \in Target
  BY <1>0
<1> DEFINE k == step[q]
<1>2. /\ t.interface \in Interface /\ t.shape \in Shape
      /\ k \in 1 .. Steps(t.shape) /\ Steps(t.shape) \in 1 .. Depth
      /\ k \in 1 .. Depth
      /\ k # Steps(t.shape) => k + 1 \in 0 .. Depth
  <2>1. t.interface \in Interface /\ t.shape \in Shape /\ k <= Steps(t.shape)
    BY <1>0, <1>1 DEF Target, Carries
  <2>2. Depth \in Nat /\ Depth >= 1 /\ Steps(t.shape) \in {Depth, 1}
    BY QosAssumption DEF Depth, Steps
  <2>3. k \in 0 .. Depth
    BY DEF TypeOK
  <2> QED
    BY <1>0, <2>1, <2>2, <2>3
<1>3. UNCHANGED <<policies, used, solo, nRequests>>
  BY DEF AddStep
<1>4. \/ /\ faulted' = faulted /\ nFaults' = nFaults
         /\ tree' = [tree EXCEPT ![t.interface] = @ \cup {<<t.shape, k>>}]
         /\ IF k = Steps(t.shape) THEN Next1(q)
            ELSE step' = [step EXCEPT ![q] = k + 1] /\ UNCHANGED <<todo, pc, op>>
      \/ /\ IF Accepted(t.interface, t.shape, k)
            THEN faulted' = TRUE /\ nFaults < MaxFaults /\ nFaults' = nFaults + 1
            ELSE faulted' = faulted /\ nFaults' = nFaults
         /\ Next1(q) /\ UNCHANGED tree
  BY <1>1 DEF AddStep, Works, Fails
<1> HIDE DEF k
<1>5. TypeOK'
  <2>1. tree' \in [Interface -> SUBSET (Shape \X (1 .. Depth))]
    <3>1. CASE UNCHANGED tree
      BY <3>1 DEF TypeOK
    <3>2. CASE tree' = [tree EXCEPT ![t.interface] = @ \cup {<<t.shape, k>>}]
      <4>1. <<t.shape, k>> \in Shape \X (1 .. Depth)
        BY <1>2
      <4> QED
        BY <1>2, <3>2, <4>1 DEF TypeOK
    <3> QED
      BY <1>4, <3>1, <3>2
  <2>2. nFaults' \in 0 .. MaxFaults
    BY <1>4, QosAssumption DEF TypeOK
  <2>3. faulted' \in BOOLEAN
    BY <1>4 DEF TypeOK
  <2>4. /\ step' \in [Req -> 0 .. Depth] /\ todo' \in [Req -> SUBSET Target]
        /\ pc' \in [Req -> {"idle", "commit", "queue", "task", "agent"}]
        /\ op' \in [Req -> [kind : Kind, id : Policy \cup {None}, row : Row \cup {None}]]
    <3>1. CASE Next1(q)
      BY <1>0, <3>1, NextTyped
    <3>2. CASE k # Steps(t.shape) /\ step' = [step EXCEPT ![q] = k + 1] /\ UNCHANGED <<todo, pc, op>>
      BY <1>2, <3>2 DEF TypeOK
    <3> QED
      BY <1>4, <3>1, <3>2
  <2> QED
    BY <1>3, <2>1, <2>2, <2>3, <2>4 DEF TypeOK
<1>6. CASE Next1(q)
  <2>1. \A r \in Req : Carries(r)'
    BY <1>0, <1>6, NextCarries
  <2>2. /\ \A r \in Req \ {q} : pc'[r] = pc[r]
        /\ step'[q] = 0 /\ todo'[q] = todo[q] \ {t}
        /\ todo'[q] = {} => pc'[q] = "idle"
        /\ todo'[q] # {} => pc'[q] = "agent"
    BY <1>0, <1>1, <1>6, NextTyped
  <2>3. ASSUME ~faulted', NEW i \in solo
        PROVE  /\ Single(i)'
               /\ pc'[q] = "agent" => Setup(q, i)'
               /\ pc'[q] = "idle" => Healed(i)'
    <3>1. ~faulted
      BY <1>4, <2>3
    <3>2. Single(i) /\ Setup(q, i) /\ i \in Interface
      BY <1>0, <3>1 DEF Lone, Running, Stage, TypeOK
    <3>3. Single(i)' /\ Of(i)' = Of(i)
      BY <1>3, <3>2 DEF Single, Of, Ids
    <3>4. CASE t.interface # i
      <4>1. tree'[i] = tree[i]
        BY <1>4, <3>2, <3>4 DEF TypeOK
      <4>2. Setup(q, i)' /\ (todo'[q] = {} => Healed(i)')
        BY <1>0, <1>1, <1>3, <2>2, <3>2, <3>4, <4>1, OtherInterface
      <4> QED
        BY <2>2, <3>3, <4>2
    <3>5. CASE t.interface = i
      <4>1. /\ Asks(t, i) /\ \A u \in todo[q] : u.interface = i => u = t
            /\ tree[i] = Built(t.shape, k)
        BY <1>0, <1>1, <3>2, <3>5, ThisInterface DEF k
      <4>2. Accepted(i, t.shape, k)
        BY <1>2, <4>1, PrefixAccepted
      <4>3. /\ tree' = [tree EXCEPT ![i] = @ \cup {<<t.shape, k>>}]
            /\ k = Steps(t.shape)
        <5>1. ~(faulted' = TRUE)
          BY <2>3
        <5>2. k # Steps(t.shape) => ~(step' = [step EXCEPT ![q] = k + 1])
          BY <1>2, <2>2 DEF TypeOK
        <5> QED
          BY <1>4, <3>5, <4>2, <5>1, <5>2
      <4>4. tree'[i] = Built(t.shape, k + 1)
        BY <1>2, <3>2, <4>1, <4>3, BuiltNext DEF TypeOK
      <4>5. tree'[i] = Whole(t.shape)
        BY <1>2, <4>3, <4>4 DEF Built, Whole
      <4>6. PICK p \in Of(i) : t.shape = policies[p].shape
        BY <1>2, <4>1, QosAssumption DEF Asks
      <4>7. Of(i) = {p}
        BY <3>2, <4>6 DEF Single
      <4>8. Healed(i)'
        BY <1>3, <3>3, <4>5, <4>6, <4>7 DEF Healed
      <4>9. Setup(q, i)'
        BY <2>2, <4>1, <4>8 DEF Setup
      <4> QED
        BY <3>3, <4>8, <4>9
    <3> QED
      BY <3>4, <3>5
  <2>4. ~faulted' => \A i \in solo :
          /\ Single(i)'
          /\ pc'[q] # "idle" => Stage(q, i)'
          /\ pc'[q] = "idle" => Healed(i)'
    BY <2>2, <2>3 DEF Stage
  <2>5. ~faulted' => ~faulted
    BY <1>4
  <2>6. Lone'
    BY <1>0, <1>3, <2>2, <2>4, <2>5, LoneStep
  <2> QED
    BY <1>5, <2>1, <2>6
<1>7. CASE /\ faulted' = faulted /\ k # Steps(t.shape)
           /\ tree' = [tree EXCEPT ![t.interface] = @ \cup {<<t.shape, k>>}]
           /\ step' = [step EXCEPT ![q] = k + 1] /\ UNCHANGED <<todo, pc, op>>
  <2>1. step'[q] = k + 1 /\ \A r \in Req \ {q} : step'[r] = step[r]
    BY <1>7 DEF TypeOK
  <2>2. \A r \in Req : Carries(r)'
    <3> TAKE r \in Req
    <3>1. CASE r # q
      BY <1>7, <2>1, <3>1, CarriesFrame
    <3>2. CASE r = q
      <4>1. Target1(q)' = t
        BY <1>1, <1>7 DEF Target1
      <4>2. k + 1 <= Steps(t.shape)
        BY <1>2, <1>7
      <4> QED
        BY <1>0, <1>2, <1>7, <2>1, <3>2, <4>1, <4>2 DEF Carries
    <3> QED
      BY <3>1, <3>2
  <2>3. ASSUME ~faulted', NEW i \in solo
        PROVE  Single(i)' /\ Setup(q, i)'
    <3>1. ~faulted
      BY <1>7, <2>3
    <3>2. Single(i) /\ Setup(q, i) /\ i \in Interface
      BY <1>0, <3>1 DEF Lone, Running, Stage, TypeOK
    <3>3. Single(i)' /\ Of(i)' = Of(i)
      BY <1>3, <3>2 DEF Single, Of, Ids
    <3>4. CASE t.interface # i
      <4>1. tree'[i] = tree[i]
        BY <1>7, <3>2, <3>4 DEF TypeOK
      <4> QED
        BY <1>0, <1>1, <1>3, <1>7, <3>2, <3>3, <3>4, <4>1, OtherInterface
    <3>5. CASE t.interface = i
      <4>1. /\ Asks(t, i) /\ \A u \in todo[q] : u.interface = i => u = t
            /\ tree[i] = Built(t.shape, k)
        BY <1>0, <1>1, <3>2, <3>5, ThisInterface DEF k
      <4>2. tree'[i] = Built(t.shape, step'[q])
        BY <1>2, <1>7, <2>1, <3>2, <3>5, <4>1, BuiltNext DEF TypeOK
      <4>3. Asks(t, i)'
        BY <1>3, <3>3, <4>1 DEF Asks
      <4>4. t \in todo'[q] /\ \A u \in todo'[q] : u.interface = i => u = t
        BY <1>1, <1>7, <4>1
      <4> QED
        BY <3>3, <3>5, <4>2, <4>3, <4>4 DEF Setup
    <3> QED
      BY <3>4, <3>5
  <2>4. ~faulted' => \A i \in solo :
          /\ Single(i)'
          /\ pc'[q] # "idle" => Stage(q, i)'
          /\ pc'[q] = "idle" => Healed(i)'
    BY <1>0, <1>7, <2>3 DEF Stage
  <2>5. ~faulted' => ~faulted
    BY <1>7
  <2>6. Lone'
    BY <1>0, <1>3, <1>7, <2>4, <2>5, LoneStep
  <2> QED
    BY <1>5, <2>2, <2>6
<1> QED
  BY <1>4, <1>6, <1>7

-----------------------------------------------------------------------------
(* Every step keeps the invariant.                                         *)

LEMMA RoutesKeep ==
  ASSUME IInv, NEW q \in Req, NEW id \in Policy,
         \/ \E row \in Row : Create(q, id, row) \/ Update(q, id, row)
         \/ \E list \in Lists : Classes(q, "newclass", id, list) \/ Classes(q, "classes", id, list)
         \/ Delete(q, id) \/ ApplyNow(q, id)
  PROVE  IInv'
<1> USE DEF IInv
<1>1. used \subseteq Policy /\ \A row \in Row : row.interface \in Interface
  BY DEF TypeOK, Row
<1>2. ASSUME NEW row \in Row, Create(q, id, row) PROVE IInv'
  BY <1>1, <1>2, BeginKeeps DEF Create, Kind, Writes, Changes
<1>3. ASSUME NEW row \in Row, Update(q, id, row) PROVE IInv'
  <2>1. id \in Of(row.interface)
    BY <1>3 DEF Update, Of
  <2> QED
    BY <1>1, <1>3, <2>1, BeginKeeps DEF Update, Kind, Writes, Changes
<1>4. ASSUME NEW kind \in {"newclass", "classes"}, NEW list \in Lists, Classes(q, kind, id, list)
      PROVE  IInv'
  <2>1. id \in Ids /\ id \in Of(policies[id].interface)
    BY <1>4 DEF Classes, Of
  <2> DEFINE written == [policies[id] EXCEPT !.shape.classes = list]
  <2>2. /\ written \in Row /\ written.interface = policies[id].interface
        /\ written.enabled = policies[id].enabled
    BY <2>1, RowOf DEF Row, Shape
  <2>3. policies[id].interface \in Interface
    BY <2>1, RowOf
  <2>4. Begin(q, kind, id, written, {policies[id].interface}, "commit") /\ UNCHANGED used
    BY <1>4 DEF Classes
  <2> HIDE DEF written
  <2> QED
    BY <1>1, <2>1, <2>2, <2>3, <2>4, BeginKeeps DEF Kind, Writes, Changes
<1>5. CASE Delete(q, id)
  <2>1. id \in Ids /\ id \in Of(policies[id].interface)
    BY <1>5 DEF Delete, Of
  <2>2. policies[id] \in Row /\ policies[id].interface \in Interface
    BY <2>1, RowOf
  <2> QED
    BY <1>1, <1>5, <2>1, <2>2, BeginKeeps DEF Delete, Kind, Writes, Changes
<1>6. CASE ApplyNow(q, id)
  <2>1. id \in Ids /\ id \in Of(policies[id].interface)
    BY <1>6 DEF ApplyNow, Of
  <2> DEFINE about == {policies[id].interface}
  <2>2. about \subseteq Interface /\ \A i \in about : id \in Of(i)
    BY <2>1, RowOf
  <2>3. Begin(q, "apply", id, None, about, "task") /\ UNCHANGED used
    BY <1>6 DEF ApplyNow
  <2> HIDE DEF about
  <2> QED
    BY <1>1, <2>2, <2>3, BeginKeeps DEF Kind, Writes, Changes
<1> QED
  BY <1>2, <1>3, <1>4, <1>5, <1>6

LEMMA PushKeeps ==
  ASSUME IInv, NEW q \in Req, Push(q)
  PROVE  IInv'
<1> DEFINE about == {policies[p].interface : p \in Ids}
<1>1. used \subseteq Policy
  BY DEF IInv, TypeOK
<1>2. about \subseteq Interface /\ \A i \in about : Of(i) # {}
  BY RowOf DEF Of, IInv
<1>3. Begin(q, "push", None, None, about, "task") /\ UNCHANGED used
  BY DEF Push
<1> HIDE DEF about
<1> QED
  BY <1>1, <1>2, <1>3, BeginKeeps DEF Kind, Writes, Changes

LEMMA StutterKeeps ==
  ASSUME IInv, UNCHANGED vars
  PROVE  IInv'
<1> USE DEF IInv, vars
<1>1. TypeOK'
  BY DEF TypeOK
<1>2. \A q \in Req : Carries(q)'
  BY CarriesFrame
<1>3. \A i \in Interface : (Single(i) <=> Single(i)') /\ (Healed(i) <=> Healed(i)')
  BY DEF Single, Healed, Of, Ids
<1>4. Lone'
  BY DEF Lone, Running, Stage, Checked, Written, SeesEnabled, Setup, Asks, Single, Healed, Of, Ids, Target1
<1> QED
  BY <1>1, <1>2, <1>4

LEMMA NextKeeps == IInv /\ [Next]_vars => IInv'
<1> SUFFICES ASSUME IInv, [Next]_vars PROVE IInv'
  OBVIOUS
<1>1. CASE UNCHANGED vars
  BY <1>1, StutterKeeps
<1>2. CASE Next
  <2>1. CASE Waiting
    BY <2>1, StutterKeeps DEF Waiting
  <2>2. CASE \E q \in Req : \/ Commit(q) \/ Queue(q) \/ Task(q)
                           \/ Refuse(q) \/ DeleteRoot(q) \/ AddStep(q)
    BY <2>2, CommitKeeps, QueueKeeps, TaskKeeps, RefuseKeeps, DeleteRootKeeps, AddStepKeeps
  <2>3. CASE \E q \in Req : Push(q)
    BY <2>3, PushKeeps
  <2>4. CASE \E q \in Req, id \in Policy : Delete(q, id) \/ ApplyNow(q, id)
    BY <2>4, RoutesKeep
  <2>5. CASE \E q \in Req, id \in Policy, row \in Row : Create(q, id, row) \/ Update(q, id, row)
    BY <2>5, RoutesKeep
  <2>6. CASE \E q \in Req, id \in Policy, list \in Lists :
               Classes(q, "newclass", id, list) \/ Classes(q, "classes", id, list)
    BY <2>6, RoutesKeep
  <2> QED
    BY <1>2, <2>1, <2>2, <2>3, <2>4, <2>5, <2>6
       DEF Next, CreateClass, UpdateClass, DeleteClass
<1> QED
  BY <1>1, <1>2

-----------------------------------------------------------------------------
(* The theorems.                                                           *)

\* The state of the routes, of the requests and of the trees keeps its type:
\* a half-built tree never runs past the commands of its shape.
THEOREM TypeCorrect == Spec => []TypeOK
<1>1. IInv => TypeOK
  BY DEF IInv
<1> QED
  BY <1>1, InitInv, NextKeeps, PTL DEF Spec

\* However setups interleave and fail, a request that then runs alone, without an
\* error or a failing command, heals the interfaces it is about, but for the
\* policies whose classes the agent refuses.
THEOREM AloneHeals == Spec => []Heals
<1>1. IInv => Heals
  BY DEF IInv, Lone, Healed, Heals
<1> QED
  BY <1>1, InitInv, NextKeeps, PTL DEF Spec

=============================================================================
