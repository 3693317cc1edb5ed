------------------------- MODULE FirewallAgentProofs -------------------------
(* Theorems about FirewallAgent, for every number of handlers, rulesets and  *)
(* snapshots, and for callers that are serial or not.                        *)
EXTENDS FirewallAgent, TLAPS, FiniteSetTheorems

-----------------------------------------------------------------------------
(* Types.                                                                    *)

LEMMA InitType == Init => TypeOK
<1> SUFFICES ASSUME Init PROVE TypeOK
  OBVIOUS
<1>1. HandlersTyped
  BY ConstantsAssumption DEF Init, HandlersTyped, Reply, SnapId
<1>2. FilesTyped
  BY ConstantsAssumption DEF Init, FilesTyped, File, Image
<1>3. KernelTyped
  BY DEF Init, KernelTyped
<1>4. CountersTyped
  BY ConstantsAssumption DEF Init, CountersTyped
<1>5. marker \in BOOLEAN /\ disturbed \in BOOLEAN /\ rejected \in BOOLEAN
  BY Zenon DEF Init
<1> QED
  BY <1>1, <1>2, <1>3, <1>4, <1>5 DEF TypeOK

\* A handler's own steps keep its program counter and answer typed.
LEMMA GotoType ==
  ASSUME HandlersTyped, NEW r \in Req, NEW l \in ApplyPc \cup RollbackPc, Goto(r, l)
  PROVE  /\ pc' \in [Req -> {"idle"} \cup ApplyPc \cup RollbackPc]
         /\ reply' \in [Req -> Reply]
BY DEF HandlersTyped, Goto

LEMMA AnswerType ==
  ASSUME HandlersTyped, NEW r \in Req, NEW a \in Reply, Answer(r, a)
  PROVE  /\ pc' \in [Req -> {"idle"} \cup ApplyPc \cup RollbackPc]
         /\ reply' \in [Req -> Reply]
BY DEF HandlersTyped, Answer

LEMMA FaultType ==
  ASSUME CountersTyped, Works \/ Fails \/ Rejects
  PROVE  nFaults' \in 0 .. MaxFaults
BY ConstantsAssumption DEF CountersTyped, Works, Fails, Rejects

LEMMA DisturbedType ==
  ASSUME disturbed \in BOOLEAN, rejected \in BOOLEAN, Works \/ Fails \/ Rejects
  PROVE  disturbed' \in BOOLEAN /\ rejected' \in BOOLEAN
BY Zenon DEF Works, Fails, Rejects

LEMMA AfterType ==
  ASSUME KernelTyped, NEW c \in Loadable
  PROVE  After(c) \subseteq Good
BY DEF KernelTyped, Loadable, After

LEMMA ApplyArriveType ==
  ASSUME TypeOK, NEW r \in Req, NEW w \in Ruleset, ApplyArrive(r, w)
  PROVE  TypeOK'
<1>1. Stamp \in SnapId /\ nApplies + 1 \in 0 .. MaxApplies
  <2>1. nApplies \in 0 .. MaxApplies /\ nApplies < MaxApplies
    BY DEF TypeOK, CountersTyped, ApplyArrive
  <2>2. MaxApplies \in Nat
    BY ConstantsAssumption
  <2> QED
    BY <2>1, <2>2 DEF SnapId, Stamp
<1> USE DEF TypeOK, ApplyArrive
<1>2. HandlersTyped'
  <2>1. Goto(r, "capture v4") /\ "capture v4" \in ApplyPc
    BY DEF ApplyPc
  <2>2. pc' \in [Req -> {"idle"} \cup ApplyPc \cup RollbackPc] /\ reply' \in [Req -> Reply]
    BY <2>1, GotoType
  <2> QED
    BY <1>1, <2>2 DEF HandlersTyped, KernelTyped
<1>3. FilesTyped'
  <2>1. [f \in Family |-> Missing] \in Snapshot
    BY DEF Snapshot
  <2> QED
    BY <1>1, <2>1 DEF FilesTyped
<1>4. KernelTyped'
  BY DEF KernelTyped, kernelVars
<1>5. CountersTyped'
  BY <1>1 DEF CountersTyped
<1>6. marker' \in BOOLEAN /\ disturbed' \in BOOLEAN /\ rejected' \in BOOLEAN
  BY Zenon
<1> QED
  BY <1>2, <1>3, <1>4, <1>5, <1>6

LEMMA CaptureType ==
  ASSUME TypeOK, NEW r \in Req, NEW f \in Family,
         NEW here, NEW next \in ApplyPc, Capture(r, f, here, next)
  PROVE  TypeOK'
<1> USE DEF TypeOK, Capture
<1>1. HandlersTyped'
  <2>1. "invalid" \in Reply
    BY DEF Reply
  <2> QED
    BY <2>1, GotoType, AnswerType DEF HandlersTyped, handlerVars
<1>2. FilesTyped'
  <2>1. CASE UNCHANGED snaps
    BY <2>1 DEF FilesTyped
  <2>2. CASE snap[r] \in Dirs /\ snaps' = [snaps EXCEPT ![snap[r]][f] = ipt[f]]
    <3>1. snaps[snap[r]] \in Snapshot
      BY <2>2 DEF FilesTyped, Dirs
    <3>2. [snaps[snap[r]] EXCEPT ![f] = ipt[f]] \in Snapshot
      BY <3>1 DEF Snapshot, KernelTyped
    <3> QED
      BY <2>2, <3>2 DEF FilesTyped
  <2> QED
    BY <2>1, <2>2
<1>3. KernelTyped'
  BY DEF KernelTyped, kernelVars
<1>4. CountersTyped'
  BY FaultType DEF CountersTyped, arrivals
<1>5. marker' \in BOOLEAN /\ disturbed' \in BOOLEAN /\ rejected' \in BOOLEAN
  BY DisturbedType, Zenon
<1> QED
  BY <1>1, <1>2, <1>3, <1>4, <1>5

LEMMA ListStaleType ==
  ASSUME TypeOK, NEW r \in Req, ListStale(r)
  PROVE  TypeOK'
<1> USE DEF TypeOK, ListStale
<1>1. HandlersTyped'
  <2>1. Stale \subseteq SnapId
    BY DEF Stale, Dirs
  <2>2. "prune" \in ApplyPc
    BY DEF ApplyPc
  <2>3. pc' \in [Req -> {"idle"} \cup ApplyPc \cup RollbackPc] /\ reply' \in [Req -> Reply]
    BY <2>2, GotoType
  <2> QED
    BY <2>1, <2>3 DEF HandlersTyped
<1>2. FilesTyped' /\ KernelTyped'
  BY DEF FilesTyped, fileVars, KernelTyped, kernelVars
<1>3. CountersTyped'
  BY FaultType DEF CountersTyped, arrivals
<1>4. marker' \in BOOLEAN /\ disturbed' \in BOOLEAN /\ rejected' \in BOOLEAN
  BY DisturbedType, Zenon DEF fileVars
<1> QED
  BY <1>1, <1>2, <1>3, <1>4

LEMMA PruneStaleType ==
  ASSUME TypeOK, NEW r \in Req, PruneStale(r)
  PROVE  TypeOK'
<1> USE DEF TypeOK, PruneStale
<1>1. HandlersTyped'
  <2>1. "write" \in ApplyPc /\ "invalid" \in Reply
    BY DEF ApplyPc, Reply
  <2>2. pc' \in [Req -> {"idle"} \cup ApplyPc \cup RollbackPc] /\ reply' \in [Req -> Reply]
    BY <2>1, GotoType, AnswerType
  <2> QED
    BY <2>2 DEF HandlersTyped
<1>2. FilesTyped' /\ KernelTyped'
  BY DEF FilesTyped, KernelTyped, kernelVars
<1>3. CountersTyped'
  BY FaultType DEF CountersTyped, arrivals
<1>4. marker' \in BOOLEAN /\ disturbed' \in BOOLEAN /\ rejected' \in BOOLEAN
  BY DisturbedType, Zenon
<1> QED
  BY <1>1, <1>2, <1>3, <1>4

\* What the remaining handler steps have in common: they leave the handlers'
\* locals, the arrivals and the snapshots alone.
LEMMA StepType ==
  ASSUME TypeOK, NEW r \in Req,
         NEW l \in ApplyPc \cup RollbackPc, NEW a \in Reply,
         Goto(r, l) \/ Answer(r, a), UNCHANGED handlerVars, UNCHANGED arrivals,
         nFaults' \in 0 .. MaxFaults, disturbed' \in BOOLEAN, rejected' \in BOOLEAN,
         marker' \in BOOLEAN, FilesTyped', KernelTyped'
  PROVE  TypeOK'
<1>1. HandlersTyped'
  <2>1. pc' \in [Req -> {"idle"} \cup ApplyPc \cup RollbackPc] /\ reply' \in [Req -> Reply]
    BY GotoType, AnswerType DEF TypeOK
  <2> QED
    BY <2>1 DEF TypeOK, HandlersTyped, handlerVars
<1>2. CountersTyped'
  BY DEF TypeOK, CountersTyped, arrivals
<1> QED
  BY <1>1, <1>2 DEF TypeOK

LEMMA WriteType ==
  ASSUME TypeOK, NEW r \in Req, Write(r)
  PROVE  TypeOK'
<1> USE DEF Write
<1>1. "check" \in ApplyPc /\ "invalid" \in Reply
  BY DEF ApplyPc, Reply
<1>2. Goto(r, "check") \/ Answer(r, "invalid")
  OBVIOUS
<1>3. FilesTyped' /\ KernelTyped'
  BY DEF TypeOK, HandlersTyped, FilesTyped, File, Ruleset, Image, KernelTyped,
         kernelVars, Saved
<1>4. nFaults' \in 0 .. MaxFaults
  BY FaultType DEF TypeOK
<1>5. marker' \in BOOLEAN /\ disturbed' \in BOOLEAN /\ rejected' \in BOOLEAN
  BY DisturbedType, Zenon DEF TypeOK
<1> QED
  BY <1>1, <1>2, <1>3, <1>4, <1>5, StepType

LEMMA CheckType ==
  ASSUME TypeOK, NEW r \in Req, Check(r)
  PROVE  TypeOK'
<1> USE DEF Check
<1>1. "delete" \in ApplyPc /\ "invalid" \in Reply
  BY DEF ApplyPc, Reply
<1>2. Goto(r, "delete") \/ Answer(r, "invalid")
  OBVIOUS
<1>3. FilesTyped' /\ KernelTyped'
  BY DEF TypeOK, FilesTyped, fileVars, KernelTyped, kernelVars
<1>4. nFaults' \in 0 .. MaxFaults
  BY FaultType DEF TypeOK
<1>5. marker' \in BOOLEAN /\ disturbed' \in BOOLEAN /\ rejected' \in BOOLEAN
  BY DisturbedType, Zenon DEF TypeOK, fileVars
<1> QED
  BY <1>1, <1>2, <1>3, <1>4, <1>5, StepType

LEMMA DeleteTableType ==
  ASSUME TypeOK, NEW r \in Req, DeleteTable(r)
  PROVE  TypeOK'
<1> USE DEF DeleteTable
<1>1. "load" \in ApplyPc /\ "invalid" \in Reply
  BY DEF ApplyPc, Reply
<1>2. Goto(r, "load") \/ Answer(r, "invalid")
  OBVIOUS
<1>3. FilesTyped' /\ KernelTyped'
  BY DEF TypeOK, FilesTyped, fileVars, KernelTyped, Removed
<1>4. nFaults' \in 0 .. MaxFaults
  BY FaultType DEF TypeOK
<1>5. marker' \in BOOLEAN /\ disturbed' \in BOOLEAN /\ rejected' \in BOOLEAN
  BY DisturbedType, Zenon DEF TypeOK, fileVars
<1> QED
  BY <1>1, <1>2, <1>3, <1>4, <1>5, StepType

LEMMA LoadType ==
  ASSUME TypeOK, NEW r \in Req, Load(r)
  PROVE  TypeOK'
<1>1. CASE /\ Goto(r, "routing") /\ UNCHANGED <<conf, nFaults>>
           /\ marker' = TRUE /\ disturbed' = (disturbed /\ live # {})
           /\ rejected' = (rejected /\ live # {})
           /\ Loaded(r) \in Loadable /\ live' = After(Loaded(r))
  <2>1. "routing" \in ApplyPc /\ "failed" \in Reply
    BY DEF ApplyPc, Reply
  <2>2. FilesTyped' /\ KernelTyped'
    BY <1>1, AfterType DEF Load, TypeOK, FilesTyped, KernelTyped
  <2>3. nFaults' \in 0 .. MaxFaults
    BY FaultType DEF Load, TypeOK, CountersTyped, Works
  <2>4. marker' \in BOOLEAN /\ disturbed' \in BOOLEAN /\ rejected' \in BOOLEAN
    BY <1>1, Zenon
  <2>5. UNCHANGED handlerVars /\ UNCHANGED arrivals
    BY DEF Load
  <2> QED
    BY <1>1, <2>1, <2>2, <2>3, <2>4, <2>5, StepType
<1>2. CASE (Rejects \/ Fails) /\ UNCHANGED <<live, marker>>
           /\ (Goto(r, "restore") \/ Answer(r, "failed"))
           /\ (conf' = lastGood \/ UNCHANGED conf)
  <2>1. "restore" \in ApplyPc /\ "failed" \in Reply
    BY DEF ApplyPc, Reply
  <2>2. FilesTyped' /\ KernelTyped'
    BY <1>2 DEF Load, TypeOK, FilesTyped, KernelTyped
  <2>3. nFaults' \in 0 .. MaxFaults
    BY <1>2, FaultType DEF TypeOK
  <2>4. marker' \in BOOLEAN /\ disturbed' \in BOOLEAN /\ rejected' \in BOOLEAN
    BY <1>2, DisturbedType, Zenon DEF TypeOK
  <2>5. UNCHANGED handlerVars /\ UNCHANGED arrivals
    BY DEF Load
  <2> QED
    BY <1>2, <2>1, <2>2, <2>3, <2>4, <2>5, StepType
<1> QED
  BY <1>1, <1>2, Zenon DEF Load

LEMMA RestoreType ==
  ASSUME TypeOK, NEW r \in Req, Restore(r)
  PROVE  TypeOK'
<1> USE DEF Restore
<1>1. "restore" \in ApplyPc /\ "failed" \in Reply
  BY DEF ApplyPc, Reply
<1>2. FilesTyped' /\ KernelTyped'
  BY AfterType DEF TypeOK, FilesTyped, fileVars, KernelTyped
<1>3. nFaults' \in 0 .. MaxFaults
  BY FaultType DEF TypeOK
<1>4. marker' \in BOOLEAN /\ disturbed' \in BOOLEAN /\ rejected' \in BOOLEAN
  BY DisturbedType, Zenon DEF TypeOK, fileVars
<1> QED
  BY <1>1, <1>2, <1>3, <1>4, StepType

LEMMA RoutingAndQosType ==
  ASSUME TypeOK, NEW r \in Req, RoutingAndQos(r)
  PROVE  TypeOK'
<1> USE DEF RoutingAndQos
<1>1. "routing" \in ApplyPc /\ "applied" \in Reply
  BY DEF ApplyPc, Reply
<1>2. FilesTyped' /\ KernelTyped'
  BY DEF TypeOK, FilesTyped, fileVars, KernelTyped, kernelVars
<1>3. nFaults' \in 0 .. MaxFaults
  BY FaultType DEF TypeOK
<1>4. marker' \in BOOLEAN /\ disturbed' \in BOOLEAN /\ rejected' \in BOOLEAN
  BY DisturbedType, Zenon DEF TypeOK, fileVars
<1> QED
  BY <1>1, <1>2, <1>3, <1>4, StepType

LEMMA RollbackArriveType ==
  ASSUME TypeOK, NEW r \in Req, RollbackArrive(r)
  PROVE  TypeOK'
<1>1. HandlersTyped'
  <2>1. "test v4" \in RollbackPc /\ "not rolled back" \in Reply
    BY DEF RollbackPc, Reply
  <2>2. pc' \in [Req -> {"idle"} \cup ApplyPc \cup RollbackPc] /\ reply' \in [Req -> Reply]
    BY <2>1, GotoType, AnswerType DEF RollbackArrive, TypeOK
  <2>3. snap' \in [Req -> SnapId]
    <3>1. CASE Dirs = {}
      BY <3>1 DEF RollbackArrive, TypeOK, HandlersTyped
    <3>2. CASE Dirs # {}
      BY <3>2 DEF RollbackArrive, TypeOK, HandlersTyped, Dirs
    <3> QED
      BY <3>1, <3>2
  <2> QED
    BY <2>2, <2>3 DEF RollbackArrive, TypeOK, HandlersTyped, KernelTyped
<1>2. FilesTyped' /\ KernelTyped'
  BY DEF RollbackArrive, TypeOK, FilesTyped, fileVars, KernelTyped, kernelVars
<1>3. CountersTyped'
  <2>1. nRollbacks \in 0 .. MaxRollbacks /\ nRollbacks < MaxRollbacks
    BY DEF RollbackArrive, TypeOK, CountersTyped
  <2>2. nRollbacks + 1 \in 0 .. MaxRollbacks
    BY <2>1, ConstantsAssumption
  <2> QED
    BY <2>2 DEF RollbackArrive, TypeOK, CountersTyped
<1>4. marker' \in BOOLEAN /\ disturbed' \in BOOLEAN /\ rejected' \in BOOLEAN
  BY Zenon DEF RollbackArrive, TypeOK, fileVars
<1> QED
  BY <1>1, <1>2, <1>3, <1>4 DEF TypeOK

LEMMA TestType ==
  ASSUME TypeOK, NEW r \in Req, NEW f \in Family,
         NEW here, NEW next \in RollbackPc, Test(r, f, here, next)
  PROVE  TypeOK'
<1> USE DEF Test
<1>1. "not rolled back" \in Reply
  BY DEF Reply
<1>2. FilesTyped' /\ KernelTyped'
  BY DEF TypeOK, FilesTyped, fileVars, KernelTyped, kernelVars
<1>3. nFaults' \in 0 .. MaxFaults
  BY FaultType DEF TypeOK
<1>4. marker' \in BOOLEAN /\ disturbed' \in BOOLEAN /\ rejected' \in BOOLEAN
  BY DisturbedType, Zenon DEF TypeOK, fileVars
<1> QED
  BY <1>1, <1>2, <1>3, <1>4, StepType

LEMMA RemoveTableType ==
  ASSUME TypeOK, NEW r \in Req, RemoveTable(r)
  PROVE  TypeOK'
<1> USE DEF RemoveTable
<1>1. "restore v4" \in RollbackPc /\ "not rolled back" \in Reply
  BY DEF RollbackPc, Reply
<1>2. FilesTyped' /\ KernelTyped'
  BY DEF TypeOK, FilesTyped, fileVars, KernelTyped, Removed
<1>3. nFaults' \in 0 .. MaxFaults
  BY FaultType DEF TypeOK, CountersTyped, Works
<1>4. marker' \in BOOLEAN /\ disturbed' \in BOOLEAN /\ rejected' \in BOOLEAN
  BY Zenon DEF TypeOK, fileVars, Fails
<1> QED
  BY <1>1, <1>2, <1>3, <1>4, StepType

LEMMA RestoreFamilyType ==
  ASSUME TypeOK, NEW r \in Req, NEW f \in Family,
         NEW here, NEW next \in RollbackPc \cup {"done"},
         RestoreFamily(r, f, here, next)
  PROVE  TypeOK'
<1> USE DEF RestoreFamily
<1>1. /\ "reapply" \in RollbackPc
      /\ "rolled back" \in Reply /\ "rollback failed" \in Reply
  BY DEF RollbackPc, Reply
<1>2. FilesTyped'
  BY DEF TypeOK, FilesTyped, fileVars
<1>3. KernelTyped'
  BY DEF TypeOK, KernelTyped, Restorable
<1>4. nFaults' \in 0 .. MaxFaults
  BY FaultType DEF TypeOK
<1>5. marker' \in BOOLEAN /\ disturbed' \in BOOLEAN /\ rejected' \in BOOLEAN
  BY DisturbedType, Zenon DEF TypeOK, fileVars
<1>6. CASE Answer(r, "rolled back")
  BY <1>1, <1>2, <1>3, <1>4, <1>5, <1>6, StepType
<1>7. CASE next \in RollbackPc /\ Goto(r, next)
  BY <1>1, <1>2, <1>3, <1>4, <1>5, <1>7, StepType
<1>8. CASE Goto(r, "reapply") \/ Answer(r, "rollback failed")
  BY <1>1, <1>2, <1>3, <1>4, <1>5, <1>8, StepType
<1> QED
  BY <1>6, <1>7, <1>8

LEMMA ReapplyLastGoodType ==
  ASSUME TypeOK, NEW r \in Req, ReapplyLastGood(r)
  PROVE  TypeOK'
<1> USE DEF ReapplyLastGood
<1>1. "reapply" \in RollbackPc /\ "rollback failed" \in Reply
  BY DEF RollbackPc, Reply
<1>2. FilesTyped' /\ KernelTyped'
  BY AfterType DEF TypeOK, FilesTyped, fileVars, KernelTyped
<1>3. nFaults' \in 0 .. MaxFaults
  BY FaultType DEF TypeOK, CountersTyped
<1>4. marker' \in BOOLEAN /\ disturbed' \in BOOLEAN /\ rejected' \in BOOLEAN
  BY DisturbedType, Zenon DEF TypeOK, fileVars
<1> QED
  BY <1>1, <1>2, <1>3, <1>4, StepType

LEMMA RestartType ==
  ASSUME TypeOK, NEW c \in Image \cup {conf}, Restart(c)
  PROVE  TypeOK'
<1>1. HandlersTyped'
  BY DEF Restart, TypeOK, HandlersTyped, Reply
<1>2. FilesTyped' /\ KernelTyped'
  BY DEF Restart, TypeOK, FilesTyped, File, KernelTyped, kernelVars
<1>3. CountersTyped'
  BY ConstantsAssumption DEF Restart, TypeOK, CountersTyped
<1>4. marker' \in BOOLEAN /\ disturbed' \in BOOLEAN /\ rejected' \in BOOLEAN
  BY Zenon DEF Restart, TypeOK
<1> QED
  BY <1>1, <1>2, <1>3, <1>4 DEF TypeOK

LEMMA NextType == TypeOK /\ [Next]_vars => TypeOK'
<1> SUFFICES ASSUME TypeOK, [Next]_vars PROVE TypeOK'
  OBVIOUS
<1>1. ASSUME NEW r \in Req, ApplyStep(r) PROVE TypeOK'
  <2>1. {"v4", "v6"} = Family /\ {"capture v6", "list"} \subseteq ApplyPc
    BY DEF Family, ApplyPc
  <2> QED
    BY <1>1, <2>1, ApplyArriveType, CaptureType, ListStaleType, PruneStaleType,
       WriteType, CheckType, DeleteTableType, LoadType, RestoreType,
       RoutingAndQosType DEF ApplyStep
<1>2. ASSUME NEW r \in Req, RollbackStep(r) PROVE TypeOK'
  <2>1. /\ {"v4", "v6"} = Family
        /\ {"test v6", "remove", "restore v6"} \subseteq RollbackPc
    BY DEF Family, RollbackPc
  <2> QED
    BY <1>2, <2>1, RollbackArriveType, TestType, RemoveTableType,
       RestoreFamilyType, ReapplyLastGoodType DEF RollbackStep
<1>3. CASE UNCHANGED vars
  <2>1. HandlersTyped'
    BY <1>3 DEF vars, TypeOK, HandlersTyped
  <2>2. FilesTyped' /\ KernelTyped' /\ CountersTyped'
    BY <1>3 DEF vars, TypeOK, FilesTyped, KernelTyped, CountersTyped
  <2>3. marker' \in BOOLEAN /\ disturbed' \in BOOLEAN /\ rejected' \in BOOLEAN
    BY <1>3, Zenon DEF vars, TypeOK
  <2> QED
    BY <2>1, <2>2, <2>3 DEF TypeOK
<1> QED
  BY <1>1, <1>2, <1>3, RestartType DEF Next, Waiting

\* Every variable keeps its type, whatever the handlers do.
THEOREM TypeCorrect == Spec => []TypeOK
<1>1. Init => TypeOK
  BY InitType
<1>2. TypeOK /\ [Next]_vars => TypeOK'
  BY NextType
<1> QED
  BY <1>1, <1>2, PTL DEF Spec

-----------------------------------------------------------------------------
(* Interleaved applies: LastWriterWins is inductive given the types.         *)

\* A handler that is not loading, and steps to no load, hides no load.
LEMMA BystanderWins ==
  ASSUME HandlersTyped, LastWriterWins, NEW r \in Req, pc[r] \notin LoadingPc,
         NEW l, NEW a, Goto(r, l) \/ Answer(r, a),
         UNCHANGED <<conf, live>>, disturbed' \/ disturbed' = disturbed
  PROVE  LastWriterWins'
<1>1. Loading # {} => Loading' # {}
  BY DEF HandlersTyped, Loading, Goto, Answer
<1>2. conf' = conf /\ live' = live
  OBVIOUS
<1>3. CASE disturbed'
  BY <1>3, Zenon DEF LastWriterWins
<1>4. CASE disturbed' = disturbed
  BY <1>1, <1>2, <1>4, Zenon DEF LastWriterWins
<1> QED
  BY <1>3, <1>4

\* A step into, or within, a load.
LEMMA LoaderWins ==
  ASSUME HandlersTyped, NEW r \in Req, NEW l \in LoadingPc, Goto(r, l)
  PROVE  LastWriterWins'
<1>1. r \in Loading'
  BY DEF HandlersTyped, Loading, Goto
<1> QED
  BY <1>1, Zenon DEF LastWriterWins

\* A step after which the file is in force, does not load, or is disturbed.
LEMMA SettledWins ==
  ASSUME disturbed' \/ conf' \notin Good \/ conf' \in live'
  PROVE  LastWriterWins'
BY Zenon DEF LastWriterWins

LEMMA LoadedWins ==
  ASSUME conf' = conf, live' = After(conf)
  PROVE  LastWriterWins'
<1>1. conf' \notin Good \/ conf' \in live'
  BY ConstantsAssumption DEF After
<1> QED
  BY <1>1, SettledWins

LEMMA FaultDisturbs ==
  ASSUME Works \/ Fails \/ Rejects
  PROVE  disturbed' \/ disturbed' = disturbed
BY Zenon DEF Works, Fails, Rejects

LEMMA ApplyWins ==
  ASSUME TypeOK, LastWriterWins, NEW r \in Req, ApplyStep(r)
  PROVE  LastWriterWins'
<1> USE DEF TypeOK
<1>1. ASSUME NEW w \in Ruleset, ApplyArrive(r, w) PROVE LastWriterWins'
  <2>1. pc[r] \notin LoadingPc
    BY <1>1 DEF ApplyArrive, MayArrive, Idle, LoadingPc
  <2> QED
    BY <1>1, <2>1, BystanderWins DEF ApplyArrive, kernelVars
<1>2. ASSUME NEW f, NEW next, Capture(r, f, "capture v4", next)
             \/ Capture(r, f, "capture v6", next)
      PROVE  LastWriterWins'
  <2>1. pc[r] \notin LoadingPc
    BY <1>2 DEF Capture, LoadingPc
  <2>2. disturbed' \/ disturbed' = disturbed
    BY <1>2, FaultDisturbs, Zenon DEF Capture
  <2>3. UNCHANGED <<conf, live>>
    BY <1>2 DEF Capture, kernelVars
  <2>4. Goto(r, next) \/ Answer(r, "invalid")
    BY <1>2 DEF Capture
  <2> QED
    BY <2>1, <2>2, <2>3, <2>4, BystanderWins
<1>3. ASSUME ListStale(r) \/ PruneStale(r) PROVE LastWriterWins'
  <2>1. pc[r] \notin LoadingPc
    BY <1>3 DEF ListStale, PruneStale, LoadingPc
  <2>2. disturbed' \/ disturbed' = disturbed
    BY <1>3, FaultDisturbs, Zenon DEF ListStale, PruneStale
  <2>3. UNCHANGED <<conf, live>>
    BY <1>3 DEF ListStale, PruneStale, fileVars, kernelVars
  <2>4. Goto(r, "prune") \/ Goto(r, "write") \/ Answer(r, "invalid")
    BY <1>3 DEF ListStale, PruneStale
  <2> QED
    BY <2>1, <2>2, <2>3, <2>4, BystanderWins
<1>4. ASSUME Write(r) PROVE LastWriterWins'
  <2>1. CASE Answer(r, "invalid") /\ UNCHANGED <<conf, lastGood>>
    <3>1. pc[r] \notin LoadingPc
      BY <1>4 DEF Write, LoadingPc
    <3>2. disturbed' \/ disturbed' = disturbed
      BY <1>4, FaultDisturbs, Zenon DEF Write
    <3> QED
      BY <1>4, <2>1, <3>1, <3>2, BystanderWins DEF Write, kernelVars
  <2>2. CASE Goto(r, "check")
    BY <2>2, LoaderWins DEF LoadingPc
  <2>3. CASE Fails
    BY <2>3, SettledWins DEF Fails
  <2> QED
    BY <1>4, <2>1, <2>2, <2>3 DEF Write
<1>5. ASSUME Check(r) PROVE LastWriterWins'
  <2>1. CASE Goto(r, "delete")
    BY <2>1, LoaderWins DEF LoadingPc
  <2>2. CASE ~Accepted
    BY <1>5, <2>2, SettledWins DEF Check, fileVars, Accepted, Loadable
  <2>3. CASE Fails
    BY <2>3, SettledWins DEF Fails
  <2> QED
    BY <1>5, <2>1, <2>2, <2>3 DEF Check
<1>6. ASSUME DeleteTable(r) PROVE LastWriterWins'
  <2>1. CASE Goto(r, "load")
    BY <2>1, LoaderWins DEF LoadingPc
  <2>2. CASE Fails
    BY <2>2, SettledWins DEF Fails
  <2> QED
    BY <1>6, <2>1, <2>2 DEF DeleteTable
<1>7. ASSUME Load(r) PROVE LastWriterWins'
  <2>1. CASE live' = After(Loaded(r)) /\ UNCHANGED <<conf, nFaults>>
    BY <2>1, LoadedWins DEF Loaded
  <2>2. CASE Fails
    BY <2>2, SettledWins DEF Fails
  <2>3. CASE Goto(r, "restore")
    BY <2>3, LoaderWins DEF LoadingPc
  <2>4. CASE Loaded(r) \notin Loadable /\ UNCHANGED conf
    BY <2>4, SettledWins DEF Loaded, Loadable
  <2> QED
    BY <1>7, <2>1, <2>2, <2>3, <2>4 DEF Load
<1>8. ASSUME Restore(r) PROVE LastWriterWins'
  <2>1. conf' = conf
    BY <1>8 DEF Restore, fileVars
  <2>2. CASE live' = After(conf)
    BY <2>1, <2>2, LoadedWins
  <2>3. CASE Fails
    BY <2>3, SettledWins DEF Fails
  <2>4. CASE conf \notin Loadable
    BY <2>1, <2>4, SettledWins DEF Loadable
  <2> QED
    BY <1>8, <2>2, <2>3, <2>4 DEF Restore
<1>9. ASSUME RoutingAndQos(r) PROVE LastWriterWins'
  <2>1. pc[r] \notin LoadingPc
    BY <1>9 DEF RoutingAndQos, LoadingPc
  <2>2. disturbed' \/ disturbed' = disturbed
    BY <1>9, FaultDisturbs, Zenon DEF RoutingAndQos
  <2> QED
    BY <1>9, <2>1, <2>2, BystanderWins DEF RoutingAndQos, fileVars, kernelVars
<1> QED
  BY <1>1, <1>2, <1>3, <1>4, <1>5, <1>6, <1>7, <1>8, <1>9 DEF ApplyStep

LEMMA RollbackWins ==
  ASSUME TypeOK, LastWriterWins, NEW r \in Req, RollbackStep(r)
  PROVE  LastWriterWins'
<1> USE DEF TypeOK
<1>1. ASSUME RollbackArrive(r) PROVE LastWriterWins'
  <2>1. pc[r] \notin LoadingPc
    BY <1>1 DEF RollbackArrive, MayArrive, Idle, LoadingPc
  <2>2. Goto(r, "test v4") \/ Answer(r, "not rolled back")
    BY <1>1 DEF RollbackArrive
  <2> QED
    BY <1>1, <2>1, <2>2, BystanderWins DEF RollbackArrive, fileVars, kernelVars
<1>2. ASSUME NEW f, NEW next, Test(r, f, "test v4", next)
             \/ Test(r, f, "test v6", next)
      PROVE  LastWriterWins'
  <2>1. pc[r] \notin LoadingPc
    BY <1>2 DEF Test, LoadingPc
  <2>2. disturbed' \/ disturbed' = disturbed
    BY <1>2, FaultDisturbs, Zenon DEF Test
  <2>3. Goto(r, next) \/ Answer(r, "not rolled back")
    BY <1>2 DEF Test
  <2> QED
    BY <1>2, <2>1, <2>2, <2>3, BystanderWins DEF Test, fileVars, kernelVars
<1>3. ASSUME RemoveTable(r) PROVE LastWriterWins'
  BY <1>3, SettledWins DEF RemoveTable, Fails
<1>4. ASSUME NEW f, NEW next, RestoreFamily(r, f, "restore v4", next)
             \/ RestoreFamily(r, f, "restore v6", next)
      PROVE  LastWriterWins'
  <2>1. pc[r] \notin LoadingPc
    BY <1>4 DEF RestoreFamily, LoadingPc
  <2>2. disturbed' \/ disturbed' = disturbed
    BY <1>4, FaultDisturbs, Zenon DEF RestoreFamily
  <2>3. \/ Goto(r, next) \/ Goto(r, "reapply")
        \/ Answer(r, "rolled back") \/ Answer(r, "rollback failed")
    BY <1>4 DEF RestoreFamily
  <2>4. UNCHANGED <<conf, live>>
    BY <1>4 DEF RestoreFamily, fileVars
  <2> QED
    BY <2>1, <2>2, <2>3, <2>4, BystanderWins
<1>5. ASSUME ReapplyLastGood(r) PROVE LastWriterWins'
  <2>1. CASE disturbed'
    BY <2>1, SettledWins
  <2>2. CASE UNCHANGED live /\ (Rejects \/ Fails)
    <3>1. pc[r] \notin LoadingPc
      BY <1>5 DEF ReapplyLastGood, LoadingPc
    <3>2. disturbed' \/ disturbed' = disturbed
      BY <2>2, FaultDisturbs, Zenon
    <3> QED
      BY <1>5, <2>2, <3>1, <3>2, BystanderWins DEF ReapplyLastGood, fileVars
  <2> QED
    BY <1>5, <2>1, <2>2, Zenon DEF ReapplyLastGood
<1> QED
  BY <1>1, <1>2, <1>3, <1>4, <1>5 DEF RollbackStep

\* However applies and rollbacks interleave, the ruleset written last to
\* /etc/nftables.conf is in force once no handler will load it any more,
\* unless a command failed, the agent died or a rollback changed the table.
THEOREM LastWriterCorrect == Spec => []LastWriterWins
<1>1. Init => LastWriterWins
  BY ConstantsAssumption DEF Init, Image, LastWriterWins
<1>2. ASSUME TypeOK, LastWriterWins, [Next]_vars PROVE LastWriterWins'
  <2>1. CASE \E c \in Image \cup {conf} : Restart(c)
    BY <2>1, SettledWins DEF Restart
  <2>2. CASE UNCHANGED vars
    BY <1>2, <2>2, Zenon DEF vars, LastWriterWins, Loading
  <2> QED
    BY <1>2, <2>1, <2>2, ApplyWins, RollbackWins DEF Next, Waiting
<1> QED
  BY <1>1, <1>2, TypeCorrect, PTL DEF Spec

-----------------------------------------------------------------------------
(* Interleaved applies: a table with two rulesets will be swapped again.     *)

\* Handlers that will yet delete the table.
Settlers == {r \in Req : pc[r] \in {"check", "delete"}}

\* The table holds what the file says, or the handler that wrote the file has
\* still to swap it in.
Settling == ~disturbed /\ ~rejected => live \subseteq {conf} \/ Settlers # {}

\* A step after which the table is the file's, will be deleted, or may be mixed.
LEMMA Settled ==
  ASSUME disturbed' \/ rejected' \/ live' \subseteq {conf'} \/ Settlers' # {}
  PROVE  Settling'
BY Zenon DEF Settling

LEMMA HistoryGrows ==
  ASSUME Works \/ Fails \/ Rejects
  PROVE  (disturbed' \/ disturbed' = disturbed) /\ (rejected' \/ rejected' = rejected)
BY Zenon DEF Works, Fails, Rejects

\* A handler that is not about to delete the table adds no other ruleset than
\* the file's.
LEMMA BystanderSettles ==
  ASSUME HandlersTyped, Settling, NEW r \in Req, pc[r] \notin {"check", "delete"},
         NEW l, NEW a, Goto(r, l) \/ Answer(r, a),
         conf' = conf, live' \subseteq live \cup {conf},
         disturbed' \/ disturbed' = disturbed, rejected' \/ rejected' = rejected
  PROVE  Settling'
<1>1. Settlers # {} => Settlers' # {}
  BY DEF HandlersTyped, Settlers, Goto, Answer
<1>2. live \subseteq {conf} => live' \subseteq {conf'}
  OBVIOUS
<1>3. CASE disturbed' \/ rejected'
  BY <1>3, Settled
<1>4. CASE disturbed' = disturbed /\ rejected' = rejected
  <2>1. CASE disturbed \/ rejected
    BY <1>4, <2>1, Settled
  <2>2. CASE live \subseteq {conf} \/ Settlers # {}
    BY <1>1, <1>2, <2>2, Settled, Zenon
  <2> QED
    BY <2>1, <2>2, Zenon DEF Settling
<1> QED
  BY <1>3, <1>4, Zenon

LEMMA SwapperSettles ==
  ASSUME HandlersTyped, NEW r \in Req, Goto(r, "check") \/ Goto(r, "delete")
  PROVE  Settling'
<1>1. r \in Settlers'
  BY DEF HandlersTyped, Settlers, Goto
<1> QED
  BY <1>1, Settled, Zenon

LEMMA ApplySettles ==
  ASSUME TypeOK, Settling, NEW r \in Req, ApplyStep(r)
  PROVE  Settling'
<1> USE DEF TypeOK
<1>1. ASSUME NEW w \in Ruleset, ApplyArrive(r, w) PROVE Settling'
  <2>1. pc[r] \notin {"check", "delete"}
    BY <1>1 DEF ApplyArrive, MayArrive, Idle
  <2>2. disturbed' = disturbed /\ rejected' = rejected
    BY <1>1, Zenon DEF ApplyArrive
  <2>3. conf' = conf /\ live' \subseteq live \cup {conf} /\ Goto(r, "capture v4")
    BY <1>1 DEF ApplyArrive, kernelVars
  <2> QED
    BY <2>1, <2>2, <2>3, BystanderSettles
<1>2. ASSUME NEW f, NEW next, Capture(r, f, "capture v4", next)
             \/ Capture(r, f, "capture v6", next)
      PROVE  Settling'
  <2>1. pc[r] \notin {"check", "delete"}
    BY <1>2 DEF Capture
  <2>2. Works \/ Fails
    BY <1>2, Zenon DEF Capture
  <2>3. conf' = conf /\ live' \subseteq live \cup {conf}
    BY <1>2 DEF Capture, kernelVars
  <2>4. Goto(r, next) \/ Answer(r, "invalid")
    BY <1>2 DEF Capture
  <2> QED
    BY <2>1, <2>2, <2>3, <2>4, HistoryGrows, BystanderSettles
<1>3. ASSUME ListStale(r) \/ PruneStale(r) \/ RoutingAndQos(r) PROVE Settling'
  <2>1. pc[r] \notin {"check", "delete"}
    BY <1>3 DEF ListStale, PruneStale, RoutingAndQos
  <2>2. Works
    BY <1>3, Zenon DEF ListStale, PruneStale, RoutingAndQos
  <2>3. conf' = conf /\ live' \subseteq live \cup {conf}
    BY <1>3 DEF ListStale, PruneStale, RoutingAndQos, fileVars, kernelVars
  <2>4. Goto(r, "prune") \/ Goto(r, "write") \/ Answer(r, "invalid") \/ Answer(r, "applied")
    BY <1>3 DEF ListStale, PruneStale, RoutingAndQos
  <2> QED
    BY <2>1, <2>2, <2>3, <2>4, HistoryGrows, BystanderSettles
<1>4. ASSUME Write(r) PROVE Settling'
  <2>1. CASE Answer(r, "invalid") /\ UNCHANGED <<conf, lastGood>> /\ Works
    <3>1. pc[r] \notin {"check", "delete"} /\ live' \subseteq live \cup {conf}
      BY <1>4 DEF Write, kernelVars
    <3> QED
      BY <2>1, <3>1, HistoryGrows, BystanderSettles
  <2>2. CASE Goto(r, "check")
    BY <2>2, SwapperSettles
  <2>3. CASE Fails
    BY <2>3, Settled DEF Fails
  <2> QED
    BY <1>4, <2>1, <2>2, <2>3 DEF Write
<1>5. ASSUME Check(r) PROVE Settling'
  <2>1. CASE Goto(r, "delete")
    BY <2>1, SwapperSettles
  <2>2. CASE Rejects \/ Fails
    BY <2>2, Settled DEF Rejects, Fails
  <2> QED
    BY <1>5, <2>1, <2>2 DEF Check
<1>6. ASSUME DeleteTable(r) PROVE Settling'
  <2>1. CASE live' = Removed
    BY <2>1, Settled DEF Removed
  <2>2. CASE Fails
    BY <2>2, Settled DEF Fails
  <2> QED
    BY <1>6, <2>1, <2>2 DEF DeleteTable
<1>7. ASSUME Load(r) PROVE Settling'
  <2>1. CASE /\ live' = After(conf) /\ conf' = conf /\ Goto(r, "routing")
             /\ disturbed' = (disturbed /\ live # {}) /\ rejected' = (rejected /\ live # {})
    <3>1. CASE live = {}
      <4>1. live' \subseteq {conf'}
        BY <2>1, <3>1 DEF After
      <4> QED
        BY <4>1, Settled
    <3>2. CASE live # {}
      <4>1. disturbed' = disturbed /\ rejected' = rejected
        BY <2>1, <3>2, Zenon
      <4>2. live' \subseteq live \cup {conf}
        BY <2>1 DEF After
      <4>3. pc[r] \notin {"check", "delete"}
        BY <1>7 DEF Load
      <4> QED
        BY <2>1, <4>1, <4>2, <4>3, BystanderSettles
    <3> QED
      BY <3>1, <3>2
  <2>2. CASE Rejects \/ Fails
    BY <2>2, Settled DEF Rejects, Fails
  <2> QED
    BY <1>7, <2>1, <2>2, Zenon DEF Load, Loaded
<1>8. ASSUME Restore(r) PROVE Settling'
  <2>1. conf' = conf /\ Answer(r, "failed") /\ pc[r] \notin {"check", "delete"}
    BY <1>8 DEF Restore, fileVars
  <2>2. CASE live' = After(conf) /\ Works
    <3>1. live' \subseteq live \cup {conf}
      BY <2>2 DEF After
    <3> QED
      BY <2>1, <2>2, <3>1, HistoryGrows, BystanderSettles
  <2>3. CASE Rejects \/ Fails
    BY <2>3, Settled DEF Rejects, Fails
  <2> QED
    BY <1>8, <2>2, <2>3 DEF Restore
<1> QED
  BY <1>1, <1>2, <1>3, <1>4, <1>5, <1>6, <1>7, <1>8 DEF ApplyStep

LEMMA RollbackSettles ==
  ASSUME TypeOK, Settling, NEW r \in Req, RollbackStep(r)
  PROVE  Settling'
<1> USE DEF TypeOK
<1>1. ASSUME RollbackArrive(r) PROVE Settling'
  <2>1. pc[r] \notin {"check", "delete"}
    BY <1>1 DEF RollbackArrive, MayArrive, Idle
  <2>2. Goto(r, "test v4") \/ Answer(r, "not rolled back")
    BY <1>1 DEF RollbackArrive
  <2>3. conf' = conf /\ live' \subseteq live \cup {conf}
    BY <1>1 DEF RollbackArrive, fileVars, kernelVars
  <2>4. disturbed' = disturbed /\ rejected' = rejected
    BY <1>1, Zenon DEF RollbackArrive
  <2> QED
    BY <2>1, <2>2, <2>3, <2>4, BystanderSettles
<1>2. ASSUME NEW f, NEW next, Test(r, f, "test v4", next)
             \/ Test(r, f, "test v6", next)
      PROVE  Settling'
  <2>1. pc[r] \notin {"check", "delete"}
    BY <1>2 DEF Test
  <2>2. Works \/ Fails
    BY <1>2, Zenon DEF Test
  <2>3. conf' = conf /\ live' \subseteq live \cup {conf}
    BY <1>2 DEF Test, fileVars, kernelVars
  <2>4. Goto(r, next) \/ Answer(r, "not rolled back")
    BY <1>2 DEF Test
  <2> QED
    BY <2>1, <2>2, <2>3, <2>4, HistoryGrows, BystanderSettles
<1>3. ASSUME RemoveTable(r) PROVE Settling'
  BY <1>3, Settled DEF RemoveTable, Fails
<1>4. ASSUME NEW f, NEW next, RestoreFamily(r, f, "restore v4", next)
             \/ RestoreFamily(r, f, "restore v6", next)
      PROVE  Settling'
  <2>1. pc[r] \notin {"check", "delete"}
    BY <1>4 DEF RestoreFamily
  <2>2. Works \/ Fails
    BY <1>4, Zenon DEF RestoreFamily
  <2>3. \/ Goto(r, next) \/ Goto(r, "reapply")
        \/ Answer(r, "rolled back") \/ Answer(r, "rollback failed")
    BY <1>4 DEF RestoreFamily
  <2>4. conf' = conf /\ live' \subseteq live \cup {conf}
    BY <1>4 DEF RestoreFamily, fileVars
  <2> QED
    BY <2>1, <2>2, <2>3, <2>4, HistoryGrows, BystanderSettles
<1>5. ASSUME ReapplyLastGood(r) PROVE Settling'
  BY <1>5, Settled DEF ReapplyLastGood, Fails, Rejects
<1> QED
  BY <1>1, <1>2, <1>3, <1>4, <1>5 DEF RollbackStep

LEMMA SettlingInv == TypeOK /\ Settling /\ [Next]_vars => Settling'
<1> SUFFICES ASSUME TypeOK, Settling, [Next]_vars PROVE Settling'
  OBVIOUS
<1>1. CASE \E c \in Image \cup {conf} : Restart(c)
  BY <1>1, Settled DEF Restart
<1>2. CASE UNCHANGED vars
  BY <1>2, Zenon DEF vars, Settling, Settlers
<1> QED
  BY <1>1, <1>2, ApplySettles, RollbackSettles DEF Next, Waiting

\* However many applies and rollbacks interleave, the table does not end with
\* the rules of two rulesets, unless since its last clean load a command failed,
\* the agent died, a rollback changed the table or nft rejected a ruleset.
THEOREM SettlesCorrect == Spec => []SettlesOnOne
<1>1. Init => Settling
  BY DEF Init, Settling
<1>2. Settling => SettlesOnOne
  <2> SUFFICES ASSUME Settling, Quiet, ~disturbed, ~rejected PROVE SwapLeavesOne
    BY Zenon DEF SettlesOnOne
  <2>1. Settlers = {}
    BY DEF Quiet, Idle, Settlers
  <2>2. live \subseteq {conf}
    BY <2>1, Zenon DEF Settling
  <2> QED
    BY <2>2 DEF SwapLeavesOne
<1> QED
  BY <1>1, <1>2, SettlingInv, TypeCorrect, PTL DEF Spec

-----------------------------------------------------------------------------
(* One request at a time: the table is kept, and the answers are true.       *)

\* Callers that wait: no two handlers are under way.
One == \A p, q \in Req : pc[p] # "idle" /\ pc[q] # "idle" => p = q

UntouchedPc == {"capture v4", "capture v6", "list", "prune", "write", "check",
                "delete", "test v4", "test v6", "remove"}

\* What a handler knows of the files and the kernel, where it is.
Phase(r) ==
  /\ pc[r] \in UntouchedPc => live = before[r]
  /\ pc[r] \in ApplyPc => want[r] \in Ruleset
  /\ pc[r] \in {"check", "delete", "load"} => conf = want[r]
  /\ pc[r] \in {"delete", "load"} => conf \in Good
  /\ pc[r] = "load" => live = {} \/ (live = before[r] /\ disturbed)
  /\ pc[r] = "restore" => conf = lastGood /\ live \subseteq before[r] /\ disturbed
  /\ pc[r] = "routing" => want[r] \in live /\ (disturbed \/ live = {want[r]})
  /\ pc[r] \in {"restore v4", "restore v6"} => live = {} \/ (live = before[r] /\ nFaults > 0)
  /\ pc[r] = "restore v6" => ipt["v4"] = snaps[snap[r]]["v4"]
  /\ pc[r] = "reapply" => live \subseteq before[r]

SerialInv == One /\ (\A r \in Req : Phase(r)) /\ TableKept

LEMMA IdlePhase ==
  ASSUME NEW r \in Req, pc'[r] = "idle"
  PROVE  Phase(r)'
BY DEF Phase, UntouchedPc, ApplyPc

\* A step that neither changes the table nor leaves a swap keeps it.
LEMMA TableStays ==
  ASSUME HandlersTyped, TableKept, NEW r \in Req, pc[r] \notin {"load", "restore"},
         NEW l, NEW a, Goto(r, l) \/ Answer(r, a),
         live' = live, marker' = marker, disturbed' \/ disturbed' = disturbed
  PROVE  TableKept'
<1>1. Swapping # {} => Swapping' # {}
  BY DEF HandlersTyped, Swapping, Goto, Answer
<1>2. CASE disturbed'
  BY <1>2, Zenon DEF TableKept
<1>3. CASE disturbed' = disturbed
  BY <1>1, <1>3, Zenon DEF TableKept
<1> QED
  BY <1>2, <1>3

LEMMA TableDisturbed ==
  ASSUME disturbed' \/ live' # {} \/ Swapping' # {}
  PROVE  TableKept'
BY Zenon DEF TableKept

\* A handler that goes on has not ended, one that answers has.
LEMMA GoesOn ==
  ASSUME HandlersTyped, NEW r \in Req, NEW l, l # "idle", Goto(r, l)
  PROVE  pc'[r] = l /\ ~Ending(r)
BY DEF HandlersTyped, Goto, Ending, Idle

LEMMA Ends ==
  ASSUME HandlersTyped, NEW r \in Req, NEW a, Answer(r, a)
  PROVE  pc'[r] = "idle" /\ reply'[r] = a /\ Phase(r)'
<1>1. pc'[r] = "idle" /\ reply'[r] = a
  BY DEF HandlersTyped, Answer
<1> QED
  BY <1>1, IdlePhase

LEMMA ArrivalPhase ==
  ASSUME TypeOK, Serial, SerialInv, NEW r \in Req,
         (\E w \in Ruleset : ApplyArrive(r, w)) \/ RollbackArrive(r)
  PROVE  Phase(r)' /\ TableKept' /\ (Ending(r) => AnswerHolds(r))
<1> USE DEF TypeOK
<1>1. pc[r] = "idle" /\ live' = live /\ marker' = marker /\ conf' = conf /\ ipt' = ipt
  BY DEF ApplyArrive, RollbackArrive, MayArrive, Idle, kernelVars, fileVars
<1>2. before'[r] = live /\ disturbed' = disturbed
  BY DEF ApplyArrive, RollbackArrive, HandlersTyped
<1>3. ~Ending(r)
  BY <1>1 DEF Ending, Idle
<1>4. \/ Goto(r, "capture v4") /\ want'[r] \in Ruleset
      \/ Goto(r, "test v4") \/ Answer(r, "not rolled back")
  BY DEF ApplyArrive, RollbackArrive, HandlersTyped
<1>5. TableKept'
  BY <1>1, <1>2, <1>4, TableStays DEF SerialInv
<1>6. Phase(r)'
  <2>1. CASE Goto(r, "capture v4") /\ want'[r] \in Ruleset
    <3>1. pc'[r] = "capture v4"
      BY <2>1, GoesOn
    <3> QED
      BY <1>1, <1>2, <2>1, <3>1 DEF Phase
  <2>2. CASE Goto(r, "test v4")
    <3>1. pc'[r] = "test v4"
      BY <2>2, GoesOn
    <3> QED
      BY <1>1, <1>2, <3>1 DEF Phase, ApplyPc
  <2> QED
    BY <1>4, <2>1, <2>2, Ends
<1> QED
  BY <1>3, <1>5, <1>6

\* The steps of an apply before it writes, and of a rollback before it removes
\* the table, leave what they found.
LEMMA HarmlessPhase ==
  ASSUME TypeOK, SerialInv, NEW r \in Req, pc[r] \in UntouchedPc \ {"write", "check", "delete", "remove"},
         NEW l \in {"capture v6", "list", "prune", "write", "test v6", "remove"},
         pc[r] \in ApplyPc <=> l \in ApplyPc,
         NEW a \in {"invalid", "not rolled back"}, Goto(r, l) \/ Answer(r, a),
         UNCHANGED <<want, before, live, marker>>, Works \/ Fails
  PROVE  Phase(r)' /\ TableKept' /\ (Ending(r) => AnswerHolds(r))
<1> USE DEF TypeOK
<1>1. live = before[r] /\ (pc[r] \in ApplyPc => want[r] \in Ruleset)
  BY DEF SerialInv, Phase
<1>2. TableKept'
  BY FaultDisturbs, TableStays DEF SerialInv, UntouchedPc
<1>3. CASE Goto(r, l)
  <2>1. pc'[r] = l /\ ~Ending(r)
    BY <1>3, GoesOn
  <2>2. Phase(r)'
    BY <1>1, <2>1 DEF Phase, UntouchedPc
  <2> QED
    BY <1>2, <2>1, <2>2
<1>4. CASE Answer(r, a)
  <2>1. reply'[r] = a /\ Phase(r)'
    BY <1>4, Ends
  <2>2. AnswerHolds(r)
    BY <1>1, <2>1 DEF AnswerHolds
  <2> QED
    BY <1>2, <2>1, <2>2
<1> QED
  BY <1>3, <1>4

LEMMA WritePhase ==
  ASSUME TypeOK, SerialInv, NEW r \in Req, Write(r)
  PROVE  Phase(r)' /\ TableKept' /\ (Ending(r) => AnswerHolds(r))
<1> USE DEF TypeOK
<1>1. live = before[r] /\ want[r] \in Ruleset /\ pc[r] = "write"
  BY DEF Write, SerialInv, Phase, UntouchedPc, ApplyPc
<1>2. UNCHANGED <<want, before, live, marker>> /\ (Works \/ Fails)
  BY DEF Write, handlerVars, kernelVars
<1>3. TableKept'
  <2>1. Goto(r, "check") \/ Answer(r, "invalid")
    BY DEF Write
  <2> QED
    BY <1>1, <1>2, <2>1, FaultDisturbs, TableStays DEF SerialInv
<1>4. CASE Goto(r, "check") /\ conf' = want[r]
  <2>1. pc'[r] = "check" /\ ~Ending(r)
    BY <1>4, GoesOn
  <2>2. Phase(r)'
    BY <1>1, <1>2, <1>4, <2>1 DEF Phase
  <2> QED
    BY <1>3, <2>1, <2>2
<1>5. CASE Answer(r, "invalid")
  <2>1. reply'[r] = "invalid" /\ Phase(r)'
    BY <1>5, Ends
  <2>2. AnswerHolds(r)
    BY <1>1, <1>2, <2>1 DEF AnswerHolds
  <2> QED
    BY <1>3, <2>1, <2>2
<1> QED
  BY <1>4, <1>5 DEF Write

LEMMA CheckPhase ==
  ASSUME TypeOK, SerialInv, NEW r \in Req, Check(r)
  PROVE  Phase(r)' /\ TableKept' /\ (Ending(r) => AnswerHolds(r))
<1> USE DEF TypeOK
<1>1. live = before[r] /\ want[r] \in Ruleset /\ pc[r] = "check" /\ conf = want[r]
  BY DEF Check, SerialInv, Phase, UntouchedPc, ApplyPc
<1>2. UNCHANGED <<want, before, live, marker, conf>> /\ (Works \/ Fails \/ Rejects)
  BY DEF Check, handlerVars, kernelVars, fileVars
<1>3. TableKept'
  <2>1. Goto(r, "delete") \/ Answer(r, "invalid")
    BY DEF Check
  <2> QED
    BY <1>1, <1>2, <2>1, FaultDisturbs, TableStays DEF SerialInv
<1>4. CASE Goto(r, "delete") /\ Accepted
  <2>1. pc'[r] = "delete" /\ ~Ending(r)
    BY <1>4, GoesOn
  <2>2. conf \in Good
    BY <1>1, <1>4, ConstantsAssumption DEF Accepted, Loadable, Ruleset
  <2>3. Phase(r)'
    BY <1>1, <1>2, <2>1, <2>2 DEF Phase
  <2> QED
    BY <1>3, <2>1, <2>3
<1>5. CASE Answer(r, "invalid")
  <2>1. reply'[r] = "invalid" /\ Phase(r)'
    BY <1>5, Ends
  <2>2. AnswerHolds(r)
    BY <1>1, <1>2, <2>1 DEF AnswerHolds
  <2> QED
    BY <1>3, <2>1, <2>2
<1> QED
  BY <1>4, <1>5 DEF Check

LEMMA DeletePhase ==
  ASSUME TypeOK, SerialInv, NEW r \in Req, DeleteTable(r)
  PROVE  Phase(r)' /\ TableKept' /\ (Ending(r) => AnswerHolds(r))
<1> USE DEF TypeOK
<1>1. live = before[r] /\ want[r] \in Ruleset /\ conf = want[r] /\ conf \in Good
  BY DEF DeleteTable, SerialInv, Phase, UntouchedPc, ApplyPc
<1>2. UNCHANGED <<want, before, conf>>
  BY DEF DeleteTable, handlerVars, fileVars
<1>3. CASE Goto(r, "load") /\ (live' = {} \/ (live' = live /\ disturbed'))
  <2>1. pc'[r] = "load" /\ ~Ending(r)
    BY <1>3, GoesOn
  <2>2. r \in Swapping'
    BY <2>1 DEF Swapping
  <2>3. TableKept'
    BY <2>2, TableDisturbed
  <2>4. Phase(r)'
    BY <1>1, <1>2, <1>3, <2>1 DEF Phase, UntouchedPc
  <2> QED
    BY <2>1, <2>3, <2>4
<1>4. CASE Answer(r, "invalid") /\ Fails /\ live' = live
  <2>1. reply'[r] = "invalid" /\ Phase(r)'
    BY <1>4, Ends
  <2>2. AnswerHolds(r)
    BY <1>1, <1>2, <1>4, <2>1 DEF AnswerHolds
  <2>3. TableKept'
    BY <1>4, TableDisturbed DEF Fails
  <2> QED
    BY <2>1, <2>2, <2>3
<1> QED
  BY <1>3, <1>4 DEF DeleteTable, Removed, Fails

LEMMA LoadPhase ==
  ASSUME TypeOK, SerialInv, NEW r \in Req, Load(r)
  PROVE  Phase(r)' /\ TableKept' /\ (Ending(r) => AnswerHolds(r))
<1> USE DEF TypeOK
<1>1. want[r] \in Ruleset /\ conf = want[r] /\ conf \in Good /\ conf # Packaged
  <2>1. want[r] \in Ruleset /\ conf = want[r] /\ conf \in Good
    BY DEF Load, SerialInv, Phase, UntouchedPc, ApplyPc
  <2> QED
    BY <2>1, ConstantsAssumption
<1>2. live = {} \/ (live = before[r] /\ disturbed)
  BY DEF Load, SerialInv, Phase
<1>3. UNCHANGED <<want, before, lastGood>>
  BY DEF Load, handlerVars
<1>4. CASE /\ live' = After(conf) /\ Goto(r, "routing") /\ conf' = conf
           /\ disturbed' = (disturbed /\ live # {})
  <2>1. pc'[r] = "routing" /\ ~Ending(r)
    BY <1>4, GoesOn
  <2>2. live' = live \cup {want[r]}
    BY <1>1, <1>4 DEF After
  <2>3. TableKept'
    BY <2>2, TableDisturbed
  <2>4. disturbed' \/ live' = {want[r]}
    <3>1. CASE live = {}
      BY <2>2, <3>1
    <3>2. CASE live # {}
      BY <1>2, <1>4, <3>2, Zenon
    <3> QED
      BY <3>1, <3>2
  <2>5. Phase(r)'
    BY <1>1, <1>3, <2>1, <2>2, <2>4 DEF Phase, UntouchedPc, ApplyPc
  <2> QED
    BY <2>1, <2>3, <2>5
<1>5. CASE Fails /\ live' = live /\ conf' = lastGood /\ Goto(r, "restore")
  <2>1. pc'[r] = "restore" /\ ~Ending(r)
    BY <1>5, GoesOn
  <2>2. disturbed' = TRUE /\ live' \subseteq before[r]
    BY <1>2, <1>5 DEF Fails
  <2>3. TableKept'
    BY <2>2, TableDisturbed
  <2>4. Phase(r)'
    BY <1>1, <1>3, <1>5, <2>1, <2>2 DEF Phase, UntouchedPc
  <2> QED
    BY <2>1, <2>3, <2>4
<1>6. CASE Fails /\ live' = live /\ Answer(r, "failed")
  <2>1. reply'[r] = "failed" /\ Phase(r)'
    BY <1>6, Ends
  <2>2. AnswerHolds(r)
    BY <1>2, <1>6, <2>1 DEF AnswerHolds
  <2>3. TableKept'
    BY <1>6, TableDisturbed DEF Fails
  <2> QED
    BY <2>1, <2>2, <2>3
<1>7. conf \in Loadable
  BY <1>1 DEF Loadable
<1> QED
  BY <1>4, <1>5, <1>6, <1>7, Zenon DEF Load, Loaded

LEMMA RestorePhase ==
  ASSUME TypeOK, SerialInv, NEW r \in Req, Restore(r)
  PROVE  Phase(r)' /\ TableKept' /\ (Ending(r) => AnswerHolds(r))
<1> USE DEF TypeOK
<1>1. conf = lastGood /\ live \subseteq before[r] /\ disturbed
  BY DEF Restore, SerialInv, Phase
<1>2. disturbed'
  BY <1>1, Zenon DEF Restore, Works, Fails, Rejects
<1>3. TableKept'
  BY <1>2, TableDisturbed
<1>4. live' = live \/ live' = After(conf)
  BY DEF Restore
<1>5. live' \subseteq {lastGood} \cup before[r]
  BY <1>1, <1>4 DEF After
<1>6. reply'[r] = "failed" /\ Phase(r)'
  BY Ends DEF Restore
<1>7. AnswerHolds(r)
  BY <1>5, <1>6 DEF AnswerHolds
<1> QED
  BY <1>3, <1>6, <1>7

LEMMA RoutingPhase ==
  ASSUME TypeOK, SerialInv, NEW r \in Req, RoutingAndQos(r)
  PROVE  Phase(r)' /\ TableKept' /\ (Ending(r) => AnswerHolds(r))
<1> USE DEF TypeOK
<1>1. want[r] \in live /\ (disturbed \/ live = {want[r]}) /\ pc[r] = "routing"
  BY DEF RoutingAndQos, SerialInv, Phase
<1>2. UNCHANGED <<live, marker>> /\ disturbed' = disturbed /\ Answer(r, "applied")
  BY DEF RoutingAndQos, fileVars, kernelVars, Works
<1>3. TableKept'
  BY <1>1, <1>2, TableStays DEF SerialInv
<1>4. reply'[r] = "applied" /\ Phase(r)'
  BY <1>2, Ends
<1>5. AnswerHolds(r)
  <2>1. want[r] \in live' /\ (disturbed' \/ live' = {want[r]})
    BY <1>1, <1>2, Zenon
  <2> QED
    BY <1>4, <2>1 DEF AnswerHolds
<1> QED
  BY <1>3, <1>4, <1>5

LEMMA RemovePhase ==
  ASSUME TypeOK, SerialInv, NEW r \in Req, RemoveTable(r)
  PROVE  Phase(r)' /\ TableKept' /\ (Ending(r) => AnswerHolds(r))
<1> USE DEF TypeOK
<1>1. live = before[r]
  BY DEF RemoveTable, SerialInv, Phase, UntouchedPc
<1>2. before' = before /\ disturbed'
  BY DEF RemoveTable, handlerVars, Fails
<1>3. TableKept'
  BY <1>2, TableDisturbed
<1>4. CASE Goto(r, "restore v4") /\ (live' = {} \/ (live' = live /\ Fails))
  <2>1. pc'[r] = "restore v4" /\ ~Ending(r)
    BY <1>4, GoesOn
  <2>2. Fails => nFaults' > 0
    BY DEF Fails, CountersTyped
  <2>3. Phase(r)'
    BY <1>1, <1>2, <1>4, <2>1, <2>2 DEF Phase, UntouchedPc, ApplyPc
  <2> QED
    BY <1>3, <2>1, <2>3
<1>5. CASE Answer(r, "not rolled back") /\ live' = live
  <2>1. reply'[r] = "not rolled back" /\ Phase(r)'
    BY <1>5, Ends
  <2>2. AnswerHolds(r)
    BY <1>1, <1>5, <2>1 DEF AnswerHolds
  <2> QED
    BY <1>3, <2>1, <2>2
<1> QED
  BY <1>4, <1>5 DEF RemoveTable, Removed

\* Faults are counted, and never forgotten.
LEMMA FaultsCount ==
  ASSUME CountersTyped, Works \/ Fails
  PROVE  nFaults > 0 => nFaults' > 0
<1>1. nFaults \in Nat
  BY ConstantsAssumption DEF CountersTyped
<1>2. CASE Works
  BY <1>2 DEF Works
<1>3. CASE Fails
  BY <1>1, <1>3 DEF Fails
<1> QED
  BY <1>2, <1>3

\* The two families, one after the other.
LEMMA RestoreFamilyPhase ==
  ASSUME TypeOK, SerialInv, NEW r \in Req,
         RestoreFamily(r, "v4", "restore v4", "restore v6")
         \/ RestoreFamily(r, "v6", "restore v6", "done")
  PROVE  Phase(r)' /\ TableKept' /\ (Ending(r) => AnswerHolds(r))
<1> USE DEF TypeOK
<1>1. pc[r] \in {"restore v4", "restore v6"} /\ (live = {} \/ (live = before[r] /\ nFaults > 0))
  BY DEF RestoreFamily, SerialInv, Phase
<1>2. UNCHANGED <<before, snap, snaps, live, marker, lastGood>> /\ (Works \/ Fails)
  BY DEF RestoreFamily, handlerVars, fileVars
<1>3. nFaults > 0 => nFaults' > 0
  BY <1>2, FaultsCount
<1>4. TableKept'
  <2>1. \/ Goto(r, "restore v6") \/ Goto(r, "reapply")
        \/ Answer(r, "rolled back") \/ Answer(r, "rollback failed")
    BY DEF RestoreFamily
  <2> QED
    BY <1>1, <1>2, <2>1, FaultDisturbs, TableStays DEF SerialInv
<1>5. CASE Goto(r, "restore v6") /\ ipt' = [ipt EXCEPT !["v4"] = snaps[snap[r]]["v4"]]
  <2>1. pc'[r] = "restore v6" /\ ~Ending(r)
    BY <1>5, GoesOn
  <2>2. ipt'["v4"] = snaps'[snap'[r]]["v4"]
    BY <1>2, <1>5 DEF KernelTyped, Family
  <2>3. Phase(r)'
    BY <1>1, <1>2, <1>3, <2>1, <2>2 DEF Phase, UntouchedPc, ApplyPc
  <2> QED
    BY <1>4, <2>1, <2>3
<1>6. CASE /\ Answer(r, "rolled back") /\ pc[r] = "restore v6" /\ snap[r] \in Dirs
           /\ ipt' = [ipt EXCEPT !["v6"] = snaps[snap[r]]["v6"]]
  <2>1. reply'[r] = "rolled back" /\ Phase(r)'
    BY <1>6, Ends
  <2>2. ipt["v4"] = snaps[snap[r]]["v4"]
    BY <1>6 DEF SerialInv, Phase
  <2>3. snaps[snap[r]] \in Snapshot
    BY <1>6 DEF FilesTyped, HandlersTyped, Dirs
  <2>4. ipt' = snaps[snap[r]]
    BY <1>6, <2>2, <2>3 DEF KernelTyped, Family, Snapshot
  <2>5. live' = {} \/ (live' = before[r] /\ nFaults > 0)
    BY <1>1, <1>2
  <2>6. AnswerHolds(r)
    BY <2>1, <2>4, <2>5 DEF AnswerHolds
  <2> QED
    BY <1>4, <2>1, <2>6
<1>7. CASE Goto(r, "reapply")
  <2>1. pc'[r] = "reapply" /\ ~Ending(r)
    BY <1>7, GoesOn
  <2>2. Phase(r)'
    BY <1>1, <1>2, <2>1 DEF Phase, UntouchedPc, ApplyPc
  <2> QED
    BY <1>4, <2>1, <2>2
<1>8. CASE Answer(r, "rollback failed")
  <2>1. reply'[r] = "rollback failed" /\ Phase(r)'
    BY <1>8, Ends
  <2>2. AnswerHolds(r)
    BY <1>1, <1>2, <2>1 DEF AnswerHolds
  <2> QED
    BY <1>4, <2>1, <2>2
<1> QED
  BY <1>5, <1>6, <1>7, <1>8 DEF RestoreFamily, Restorable

LEMMA ReapplyPhase ==
  ASSUME TypeOK, SerialInv, NEW r \in Req, ReapplyLastGood(r)
  PROVE  Phase(r)' /\ TableKept' /\ (Ending(r) => AnswerHolds(r))
<1> USE DEF TypeOK
<1>1. live \subseteq before[r] /\ pc[r] = "reapply"
  BY DEF ReapplyLastGood, SerialInv, Phase
<1>2. Answer(r, "rollback failed") /\ marker' = marker
  BY DEF ReapplyLastGood, fileVars
<1>3. \/ live' = After(lastGood) /\ disturbed'
      \/ live' = live /\ (Rejects \/ Fails)
  BY DEF ReapplyLastGood
<1>4. TableKept'
  BY <1>1, <1>2, <1>3, TableDisturbed, FaultDisturbs, TableStays DEF SerialInv
<1>5. reply'[r] = "rollback failed" /\ Phase(r)'
  BY <1>2, Ends
<1>6. live' \subseteq {lastGood} \cup before[r]
  BY <1>1, <1>3 DEF After
<1>7. AnswerHolds(r)
  BY <1>5, <1>6 DEF AnswerHolds
<1> QED
  BY <1>4, <1>5, <1>7

LEMMA HandlerPhase ==
  ASSUME TypeOK, Serial, SerialInv, NEW r \in Req, ApplyStep(r) \/ RollbackStep(r)
  PROVE  Phase(r)' /\ TableKept' /\ (Ending(r) => AnswerHolds(r))
<1>1. CASE Capture(r, "v4", "capture v4", "capture v6")
  BY <1>1, HarmlessPhase DEF Capture, handlerVars, kernelVars, UntouchedPc, ApplyPc
<1>2. CASE Capture(r, "v6", "capture v6", "list")
  BY <1>2, HarmlessPhase DEF Capture, handlerVars, kernelVars, UntouchedPc, ApplyPc
<1>3. CASE ListStale(r)
  BY <1>3, HarmlessPhase DEF ListStale, fileVars, kernelVars, UntouchedPc, ApplyPc
<1>4. CASE PruneStale(r)
  BY <1>4, HarmlessPhase DEF PruneStale, kernelVars, UntouchedPc, ApplyPc
<1>5. CASE Test(r, "v4", "test v4", "test v6")
  BY <1>5, HarmlessPhase DEF Test, handlerVars, fileVars, kernelVars, UntouchedPc, ApplyPc
<1>6. CASE Test(r, "v6", "test v6", "remove")
  BY <1>6, HarmlessPhase DEF Test, handlerVars, fileVars, kernelVars, UntouchedPc, ApplyPc
<1> QED
  BY <1>1, <1>2, <1>3, <1>4, <1>5, <1>6, ArrivalPhase, WritePhase, CheckPhase,
     DeletePhase, LoadPhase, RestorePhase, RoutingPhase, RemovePhase,
     RestoreFamilyPhase, ReapplyPhase DEF ApplyStep, RollbackStep

\* The others are idle, and stay so.
LEMMA OthersIdle ==
  ASSUME TypeOK, Serial, One, NEW r \in Req, ApplyStep(r) \/ RollbackStep(r)
  PROVE  \A p \in Req \ {r} : pc[p] = "idle" /\ pc'[p] = "idle"
<1>1. pc[r] # "idle" \/ MayArrive(r)
  BY DEF ApplyStep, RollbackStep, ApplyArrive, Capture, ListStale, PruneStale, Write, Check,
         DeleteTable, Load, Restore, RoutingAndQos, RollbackArrive, Test, RemoveTable,
         RestoreFamily, ReapplyLastGood
<1>2. \A p \in Req \ {r} : pc[p] = "idle"
  BY <1>1 DEF One, MayArrive, Idle
<1>3. \E l, a : Goto(r, l) \/ Answer(r, a)
  <2>1. CASE ApplyStep(r)
    BY <2>1, Zenon DEF ApplyStep, ApplyArrive, Capture, ListStale, PruneStale, Write, Check,
           DeleteTable, Load, Restore, RoutingAndQos
  <2>2. CASE RollbackStep(r)
    BY <2>2, Zenon DEF RollbackStep, RollbackArrive, Test, RemoveTable, RestoreFamily, ReapplyLastGood
  <2> QED
    BY <2>1, <2>2
<1> QED
  BY <1>2, <1>3 DEF Goto, Answer, TypeOK, HandlersTyped

LEMMA SerialStep ==
  ASSUME TypeOK, Serial, SerialInv, [Next]_vars
  PROVE  SerialInv' /\ \A r \in Req : Ending(r) => AnswerHolds(r)
<1>1. ASSUME NEW r \in Req, ApplyStep(r) \/ RollbackStep(r)
      PROVE  SerialInv' /\ \A p \in Req : Ending(p) => AnswerHolds(p)
  <2>1. \A p \in Req \ {r} : pc[p] = "idle" /\ pc'[p] = "idle"
    BY <1>1, OthersIdle DEF SerialInv
  <2>2. Phase(r)' /\ TableKept' /\ (Ending(r) => AnswerHolds(r))
    BY <1>1, HandlerPhase
  <2>3. One'
    BY <2>1 DEF One
  <2>4. \A p \in Req \ {r} : Phase(p)' /\ ~Ending(p)
    BY <2>1, IdlePhase DEF Ending, Idle
  <2> QED
    BY <2>2, <2>3, <2>4 DEF SerialInv
<1>2. ASSUME NEW c \in Image \cup {conf}, Restart(c)
      PROVE  SerialInv' /\ \A p \in Req : Ending(p) => AnswerHolds(p)
  <2>1. \A p \in Req : pc'[p] = "idle" /\ reply'[p] = None
    BY <1>2 DEF Restart
  <2>2. One' /\ \A p \in Req : Phase(p)' /\ ~Ending(p)
    BY <2>1, IdlePhase DEF One, Ending
  <2>3. TableKept'
    BY <1>2, TableDisturbed DEF Restart
  <2> QED
    BY <2>2, <2>3 DEF SerialInv
<1>3. CASE UNCHANGED vars
  <2>1. One' /\ \A p \in Req : ~Ending(p)
    BY <1>3 DEF vars, SerialInv, One, Ending, Idle
  <2>2. TableKept'
    BY <1>3, Zenon DEF vars, SerialInv, TableKept, Swapping
  <2>3. ASSUME NEW p \in Req PROVE Phase(p)'
    <3>1. Phase(p)
      BY DEF SerialInv
    <3> QED
      BY <1>3, <3>1 DEF vars, Phase
  <2> QED
    BY <2>1, <2>2, <2>3 DEF SerialInv
<1> QED
  BY <1>1, <1>2, <1>3 DEF Next, Waiting

LEMMA SerialInit == Init => SerialInv
<1> SUFFICES ASSUME Init PROVE SerialInv
  OBVIOUS
<1>1. \A r \in Req : pc[r] = "idle"
  BY DEF Init
<1>2. One /\ \A r \in Req : Phase(r)
  BY <1>1 DEF One, Phase, UntouchedPc, ApplyPc
<1>3. TableKept
  BY Zenon DEF Init, TableKept
<1> QED
  BY <1>2, <1>3 DEF SerialInv

\* One request at a time, the table that was loaded is only ever absent inside a
\* swap: no rejected ruleset takes it away.
THEOREM TableKeptCorrect ==
  ASSUME Serial
  PROVE  Spec => []TableKept
<1>1. Init => SerialInv
  BY SerialInit
<1>2. TypeOK /\ SerialInv /\ [Next]_vars => SerialInv'
  BY SerialStep
<1>3. SerialInv => TableKept
  BY DEF SerialInv
<1> QED
  BY <1>1, <1>2, <1>3, TypeCorrect, PTL DEF Spec

\* One request at a time, whatever fails, crashes and was left behind: what the
\* agent answers of the kernel is so.
THEOREM AnswersCorrect ==
  ASSUME Serial
  PROVE  Spec => AnswersTrue
<1>1. Init => SerialInv
  BY SerialInit
<1>2. TypeOK /\ SerialInv /\ [Next]_vars
        => SerialInv' /\ [\A r \in Req : Ending(r) => AnswerHolds(r)]_vars
  BY SerialStep
<1> QED
  BY <1>1, <1>2, TypeCorrect, PTL DEF Spec, AnswersTrue

-----------------------------------------------------------------------------
(* Snapshots: what concurrent prunings keep, and what a rollback can rely    *)
(* on after its tests.                                                       *)

\* No directory is named after an apply that is still to come.
StampsPast == \A i \in Dirs : i <= nApplies

\* A listing of stale directories stays right while other applies arrive:
\* what was beyond the Keep newest never comes back among them.
StaleIsOld == \A r \in Req : \A i \in stale[r] : nApplies - i >= Keep

PruneInv == NewestKept /\ StampsPast /\ StaleIsOld

-----------------------------------------------------------------------------
(* NewestKept.                                                               *)

LEMMA AppliesNat ==
  ASSUME TypeOK
  PROVE  /\ nApplies \in Nat /\ nApplies <= MaxApplies
         /\ MaxApplies \in Nat /\ Keep \in Nat \ {0}
BY ConstantsAssumption DEF TypeOK, CountersTyped

\* Keep directories that are newer leave less than Keep applies behind them.
LEMMA StaleOld ==
  ASSUME TypeOK, StampsPast, NEW i \in Stale
  PROVE  nApplies - i >= Keep
<1> DEFINE Newer == {j \in Dirs : i <= j}
<1>1. nApplies \in Nat /\ Keep \in Nat
  BY AppliesNat
<1>2. i \in Dirs /\ Cardinality(Newer) > Keep
  BY DEF Stale
<1>3. i \in Nat /\ i <= nApplies /\ Newer \subseteq i .. nApplies
  BY <1>1, <1>2 DEF StampsPast, Dirs, SnapId
<1> HIDE DEF Newer
<1>4. IsFiniteSet(i .. nApplies) /\ Cardinality(i .. nApplies) = nApplies - i + 1
  BY <1>1, <1>3, FS_Interval
<1>5. Cardinality(Newer) <= nApplies - i + 1 /\ Cardinality(Newer) \in Nat
  BY <1>3, <1>4, FS_Subset, FS_CardinalityType
<1> QED
  BY <1>1, <1>2, <1>3, <1>5

LEMMA ApplyArriveKeeps ==
  ASSUME TypeOK, PruneInv, NEW r \in Req, NEW w \in Ruleset, ApplyArrive(r, w)
  PROVE  PruneInv'
<1>1. /\ nApplies \in Nat /\ nApplies < MaxApplies /\ nApplies' = nApplies + 1
      /\ MaxApplies \in Nat /\ Keep \in Nat /\ stale' = stale
  BY AppliesNat DEF ApplyArrive
<1>2. nApplies + 1 \in SnapId
  BY <1>1 DEF SnapId
<1>3. [f \in Family |-> Missing] # None
  BY ConstantsAssumption DEF Snapshot
<1>4. Dirs' = Dirs \cup {nApplies + 1}
  BY <1>2, <1>3 DEF ApplyArrive, Stamp, TypeOK, FilesTyped, Dirs
<1>5. NewestKept'
  BY <1>1, <1>4 DEF PruneInv, NewestKept
<1>6. StampsPast'
  BY <1>1, <1>4 DEF PruneInv, StampsPast, Dirs, SnapId
<1>7. StaleIsOld'
  <2> SUFFICES ASSUME NEW q \in Req, NEW i \in stale[q]
               PROVE  nApplies' - i >= Keep
    BY <1>1 DEF StaleIsOld
  <2>1. i \in Nat /\ nApplies - i >= Keep
    BY DEF PruneInv, StaleIsOld, TypeOK, HandlersTyped, SnapId
  <2> QED
    BY <1>1, <2>1
<1> QED
  BY <1>5, <1>6, <1>7 DEF PruneInv

LEMMA CaptureKeeps ==
  ASSUME TypeOK, PruneInv, NEW r \in Req, NEW f \in Family,
         NEW here, NEW next, Capture(r, f, here, next)
  PROVE  PruneInv'
<1>1. nApplies' = nApplies /\ stale' = stale
  BY DEF Capture, arrivals, handlerVars
<1>2. Dirs' = Dirs
  <2>1. CASE UNCHANGED snaps
    BY <2>1 DEF Dirs
  <2>2. CASE snap[r] \in Dirs /\ snaps' = [snaps EXCEPT ![snap[r]][f] = ipt[f]]
    <3>1. snaps[snap[r]] \in Snapshot /\ ipt[f] \in Dump
      BY <2>2 DEF TypeOK, FilesTyped, KernelTyped, Dirs
    <3>2. [snaps[snap[r]] EXCEPT ![f] = ipt[f]] # None
      BY <3>1, ConstantsAssumption DEF Snapshot
    <3> QED
      BY <2>2, <3>2 DEF Dirs, TypeOK, FilesTyped
  <2> QED
    BY <2>1, <2>2 DEF Capture
<1> QED
  BY <1>1, <1>2 DEF PruneInv, NewestKept, StampsPast, StaleIsOld

LEMMA ListStaleKeeps ==
  ASSUME TypeOK, PruneInv, NEW r \in Req, ListStale(r)
  PROVE  PruneInv'
<1>1. nApplies' = nApplies /\ Dirs' = Dirs /\ stale' = [stale EXCEPT ![r] = Stale]
  BY DEF ListStale, arrivals, fileVars, Dirs
<1>2. StaleIsOld'
  BY <1>1, StaleOld DEF PruneInv, StaleIsOld, TypeOK, HandlersTyped
<1> QED
  BY <1>1, <1>2 DEF PruneInv, NewestKept, StampsPast

LEMMA PruneStaleKeeps ==
  ASSUME TypeOK, PruneInv, NEW r \in Req, PruneStale(r)
  PROVE  PruneInv'
<1>1. nApplies' = nApplies /\ stale' = [stale EXCEPT ![r] = {}]
  BY DEF PruneStale, arrivals
<1>2. Dirs' \subseteq Dirs /\ Dirs \ stale[r] \subseteq Dirs'
  BY DEF PruneStale, Dirs
<1>3. StaleIsOld'
  BY <1>1 DEF PruneInv, StaleIsOld, TypeOK, HandlersTyped
<1>4. NewestKept'
  <2> SUFFICES ASSUME NEW i \in 1 .. nApplies, nApplies - i < Keep
               PROVE  i \in Dirs'
    BY <1>1 DEF NewestKept
  <2>1. i \in Dirs
    BY DEF PruneInv, NewestKept
  <2>2. i \notin stale[r]
    BY AppliesNat DEF PruneInv, StaleIsOld
  <2> QED
    BY <1>2, <2>1, <2>2
<1> QED
  BY <1>1, <1>2, <1>3, <1>4 DEF PruneInv, StampsPast

\* Every other step leaves the directories and the listings alone, or, like a
\* restart, drops the listings.
LEMMA OthersKeep ==
  ASSUME PruneInv, UNCHANGED <<snaps, nApplies>>,
         stale' = stale \/ stale' = [r \in Req |-> {}]
  PROVE  PruneInv'
BY DEF PruneInv, NewestKept, StampsPast, StaleIsOld, Dirs

LEMMA PruneInvStep ==
  ASSUME TypeOK, PruneInv, [Next]_vars
  PROVE  PruneInv'
<1>1. ASSUME NEW r \in Req, ApplyStep(r) PROVE PruneInv'
  <2>1. ASSUME Write(r) \/ Check(r) \/ DeleteTable(r) \/ Load(r) \/ Restore(r)
               \/ RoutingAndQos(r)
        PROVE  PruneInv'
    <3>1. UNCHANGED <<snaps, nApplies>> /\ stale' = stale
      BY <2>1 DEF Write, Check, DeleteTable, Load, Restore, RoutingAndQos,
                  fileVars, handlerVars, arrivals
    <3> QED
      BY <3>1, OthersKeep
  <2>2. Family = {"v4", "v6"}
    BY DEF Family
  <2> QED
    BY <1>1, <2>1, <2>2, ApplyArriveKeeps, CaptureKeeps, ListStaleKeeps,
       PruneStaleKeeps DEF ApplyStep
<1>2. ASSUME NEW r \in Req, RollbackStep(r) PROVE PruneInv'
  <2>1. UNCHANGED <<snaps, nApplies>> /\ stale' = stale
    BY <1>2 DEF RollbackStep, RollbackArrive, Test, RemoveTable, RestoreFamily,
                ReapplyLastGood, fileVars, handlerVars, arrivals
  <2> QED
    BY <2>1, OthersKeep
<1>3. ASSUME NEW c, Restart(c) PROVE PruneInv'
  BY <1>3, OthersKeep DEF Restart
<1>4. CASE UNCHANGED vars
  BY <1>4, OthersKeep DEF vars
<1> QED
  BY <1>1, <1>2, <1>3, <1>4 DEF Next, Waiting

LEMMA PruneInvInit == Init => PruneInv
<1> SUFFICES ASSUME Init PROVE PruneInv
  OBVIOUS
<1>1. nApplies = 0 /\ \A i \in SnapId : i # 0 => snaps[i] = None
  BY DEF Init
<1> QED
  BY <1>1 DEF Init, PruneInv, NewestKept, StampsPast, StaleIsOld, Dirs, SnapId

LEMMA PruneInvCorrect == Spec => []PruneInv
  BY PruneInvInit, PruneInvStep, TypeCorrect, PTL DEF Spec

\* Handlers that prune at the same time, each from a listing that may be old
\* by then, never remove one of the Keep newest snapshots.
THEOREM NewestKeptCorrect == Spec => []NewestKept
<1>1. PruneInv => NewestKept
  BY DEF PruneInv
<1> QED
  BY <1>1, PruneInvCorrect, PTL

-----------------------------------------------------------------------------
(* RollbackTargetHolds.                                                      *)

\* Where the capture of a family has passed `--test'.
TestedPc(f) == {"remove", "restore v4", "restore v6"}
               \cup (IF f = "v4" THEN {"test v6"} ELSE {})

TargetInv ==
  \A f \in Family : \A r \in Req :
    pc[r] \in TestedPc(f) /\ nApplies - snap[r] < Keep => Restorable(snap[r], f)

\* A capture that can be restored stays so while its directory is recent.
LEMMA CapturesStay ==
  ASSUME TypeOK, PruneInv, [Next]_vars, NEW i \in SnapId, NEW f \in Family,
         Restorable(i, f), nApplies' - i < Keep
  PROVE  Restorable(i, f)' /\ nApplies - i < Keep
<1>0. nApplies \in Nat /\ Keep \in Nat /\ i \in Nat /\ i <= nApplies
  BY AppliesNat DEF SnapId, PruneInv, StampsPast, Restorable
<1>1. CASE UNCHANGED <<snaps, nApplies>>
  BY <1>1 DEF Restorable, Dirs
<1>2. ASSUME NEW q \in Req, NEW w \in Ruleset, ApplyArrive(q, w)
      PROVE  Restorable(i, f)' /\ nApplies - i < Keep
  <2>1. nApplies' = nApplies + 1 /\ snaps'[i] = snaps[i]
    <3>1. i # nApplies + 1
      BY <1>0
    <3>2. nApplies' = nApplies + 1
      BY <1>2 DEF ApplyArrive
    <3> QED
      BY <1>2, <3>1, <3>2 DEF ApplyArrive, Stamp, TypeOK, FilesTyped
  <2> QED
    BY <1>0, <2>1 DEF Restorable, Dirs
<1>3. ASSUME NEW q \in Req, NEW g \in Family, NEW here, NEW next,
             Capture(q, g, here, next)
      PROVE  Restorable(i, f)' /\ nApplies - i < Keep
  <2>1. nApplies' = nApplies
    BY <1>3 DEF Capture, arrivals
  <2>2. CASE UNCHANGED snaps
    BY <1>1, <2>1, <2>2
  <2>3. CASE /\ snap[q] \in Dirs
             /\ snaps' = [snaps EXCEPT ![snap[q]][g] = ipt[g]]
    <3>1. ipt[g] \in Dump /\ snaps[i] \in Snapshot
      BY DEF TypeOK, KernelTyped, FilesTyped, Restorable, Dirs
    <3>2. snaps'[i] = snaps[i] \/ snaps'[i] = [snaps[i] EXCEPT ![g] = ipt[g]]
      BY <2>3 DEF TypeOK, FilesTyped
    <3>3. snaps'[i] \in Snapshot /\ snaps'[i][f] \in Dump
      BY <3>1, <3>2 DEF Restorable, Snapshot
    <3> QED
      BY <2>1, <3>3, ConstantsAssumption DEF Restorable, Dirs
  <2> QED
    BY <1>3, <2>2, <2>3 DEF Capture
<1>4. ASSUME NEW q \in Req, PruneStale(q)
      PROVE  Restorable(i, f)' /\ nApplies - i < Keep
  <2>1. nApplies' = nApplies
    BY <1>4 DEF PruneStale, arrivals
  <2>2. i \notin stale[q]
    BY <1>0, <2>1 DEF PruneInv, StaleIsOld
  <2>3. snaps'[i] = snaps[i]
    BY <1>4, <2>2 DEF PruneStale
  <2> QED
    BY <2>1, <2>3 DEF Restorable, Dirs
<1>5. ASSUME NEW q \in Req,
             ListStale(q) \/ Write(q) \/ Check(q) \/ DeleteTable(q) \/ Load(q)
             \/ Restore(q) \/ RoutingAndQos(q) \/ RollbackStep(q)
      PROVE  UNCHANGED <<snaps, nApplies>>
  BY <1>5 DEF ListStale, Write, Check, DeleteTable, Load, Restore, RoutingAndQos,
              RollbackStep, RollbackArrive, Test, RemoveTable, RestoreFamily,
              ReapplyLastGood, fileVars, arrivals
<1>6. ASSUME NEW c, Restart(c) PROVE UNCHANGED <<snaps, nApplies>>
  BY <1>6 DEF Restart
<1>7. Family = {"v4", "v6"}
  BY DEF Family
<1>8. ASSUME NEW q \in Req, ApplyStep(q)
      PROVE  Restorable(i, f)' /\ nApplies - i < Keep
  BY <1>1, <1>2, <1>3, <1>4, <1>5, <1>7, <1>8 DEF ApplyStep
<1> QED
  BY <1>1, <1>5, <1>6, <1>8 DEF Next, Waiting, vars

\* A handler is past a family's test only because it was, with the same
\* snapshot, or because the test has just been passed.
LEMMA TestedBefore ==
  ASSUME TypeOK, [Next]_vars, NEW r \in Req, NEW f \in Family,
         pc'[r] \in TestedPc(f)
  PROVE  /\ snap'[r] = snap[r]
         /\ pc[r] \in TestedPc(f) \/ Restorable(snap[r], f)
<1>1. CASE UNCHANGED <<pc, snap>>
  BY <1>1
<1>2. ASSUME NEW q \in Req, ApplyStep(q)
      PROVE  pc'[r] = pc[r] /\ snap'[r] = snap[r]
  <2>1. q # r
    BY <1>2 DEF ApplyStep, ApplyArrive, Capture, ListStale, PruneStale, Write,
                Check, DeleteTable, Load, Restore, RoutingAndQos, Goto, Answer,
                TypeOK, HandlersTyped, TestedPc
  <2>2. pc'[r] = pc[r]
    BY <1>2, <2>1 DEF ApplyStep, ApplyArrive, Capture, ListStale, PruneStale,
                Write, Check, DeleteTable, Load, Restore, RoutingAndQos, Goto,
                Answer, TypeOK, HandlersTyped
  <2>3. snap'[r] = snap[r]
    BY <1>2, <2>1 DEF ApplyStep, ApplyArrive, Capture, ListStale, PruneStale,
                Write, Check, DeleteTable, Load, Restore, RoutingAndQos,
                handlerVars, TypeOK, HandlersTyped
  <2> QED
    BY <2>2, <2>3
<1>3. ASSUME NEW q \in Req, RollbackArrive(q)
      PROVE  pc'[r] = pc[r] /\ snap'[r] = snap[r]
  <2>1. q # r
    BY <1>3 DEF RollbackArrive, Goto, Answer, TypeOK, HandlersTyped, TestedPc
  <2> QED
    BY <1>3, <2>1 DEF RollbackArrive, Goto, Answer, TypeOK, HandlersTyped
<1>4. ASSUME NEW q \in Req, RollbackStep(q), ~RollbackArrive(q)
      PROVE  /\ snap'[r] = snap[r]
             /\ pc[r] \in TestedPc(f) \/ Restorable(snap[r], f)
  <2>1. snap' = snap
    BY <1>4 DEF RollbackStep, Test, RemoveTable, RestoreFamily, ReapplyLastGood,
                handlerVars
  <2>2. CASE q # r
    <3>1. pc'[r] = pc[r]
      BY <1>4, <2>2 DEF RollbackStep, Test, RemoveTable, RestoreFamily,
                  ReapplyLastGood, Goto, Answer, TypeOK, HandlersTyped
    <3> QED
      BY <2>1, <3>1
  <2>3. CASE q = r
    <3>1. CASE Test(r, "v4", "test v4", "test v6")
      <4>1. f = "v4" /\ Restorable(snap[r], "v4")
        BY <3>1 DEF Test, Goto, Answer, TypeOK, HandlersTyped, TestedPc, Family
      <4> QED
        BY <2>1, <4>1
    <3>2. CASE Test(r, "v6", "test v6", "remove")
      <4>1. Restorable(snap[r], "v6") /\ pc[r] \in TestedPc("v4")
        BY <3>2 DEF Test, Goto, Answer, TypeOK, HandlersTyped, TestedPc
      <4> QED
        BY <2>1, <4>1 DEF Family
    <3>3. CASE \/ RemoveTable(r)
               \/ RestoreFamily(r, "v4", "restore v4", "restore v6")
               \/ RestoreFamily(r, "v6", "restore v6", "done")
      BY <2>1, <3>3 DEF RemoveTable, RestoreFamily, TestedPc
    <3>4. CASE ReapplyLastGood(r)
      BY <3>4 DEF ReapplyLastGood, Answer, TypeOK, HandlersTyped, TestedPc
    <3> QED
      BY <1>4, <2>3, <3>1, <3>2, <3>3, <3>4 DEF RollbackStep
  <2> QED
    BY <2>2, <2>3
<1>5. ASSUME NEW c, Restart(c) PROVE FALSE
  BY <1>5 DEF Restart, TestedPc
<1> QED
  BY <1>1, <1>2, <1>3, <1>4, <1>5 DEF Next, Waiting, vars

LEMMA AppliesGrow ==
  ASSUME [Next]_vars
  PROVE  nApplies' = nApplies \/ nApplies' = nApplies + 1
<1>1. ASSUME NEW r \in Req, ApplyStep(r)
      PROVE  nApplies' = nApplies \/ nApplies' = nApplies + 1
  BY <1>1 DEF ApplyStep, ApplyArrive, Capture, ListStale, PruneStale, Write,
              Check, DeleteTable, Load, Restore, RoutingAndQos, arrivals
<1>2. ASSUME NEW r \in Req, RollbackStep(r) PROVE nApplies' = nApplies
  BY <1>2 DEF RollbackStep, RollbackArrive, Test, RemoveTable, RestoreFamily,
              ReapplyLastGood, arrivals
<1>3. ASSUME NEW c, Restart(c) PROVE nApplies' = nApplies
  BY <1>3 DEF Restart
<1> QED
  BY <1>1, <1>2, <1>3 DEF Next, Waiting, vars

LEMMA TargetInvStep ==
  ASSUME TypeOK, PruneInv, TargetInv, [Next]_vars
  PROVE  TargetInv'
<1> SUFFICES ASSUME NEW f \in Family, NEW r \in Req, pc'[r] \in TestedPc(f),
                    nApplies' - snap'[r] < Keep
             PROVE  Restorable(snap[r], f)'
  BY DEF TargetInv
<1>1. snap'[r] = snap[r] /\ snap[r] \in SnapId
  BY TestedBefore DEF TypeOK, HandlersTyped
<1>2. PICK i \in SnapId : i = snap[r]
  BY <1>1
<1>3. nApplies - i < Keep
  <2>1. nApplies \in Nat /\ i \in Nat /\ Keep \in Nat
    BY <1>2, AppliesNat DEF SnapId
  <2> QED
    BY <1>1, <1>2, <2>1, AppliesGrow
<1>4. Restorable(i, f)
  BY <1>2, <1>3, TestedBefore DEF TargetInv
<1>5. Restorable(i, f)'
  BY <1>1, <1>2, <1>4, CapturesStay
<1> QED
  BY <1>1, <1>2, <1>5 DEF Restorable

\* A rollback that has passed its tests can read both captures, whatever is
\* pruned meanwhile, until Keep further applies have arrived.
THEOREM RollbackTargetCorrect == Spec => []RollbackTargetHolds
<1>1. Init => TargetInv
  BY DEF Init, TargetInv, TestedPc
<1>2. TargetInv => RollbackTargetHolds
  BY DEF TargetInv, RollbackTargetHolds, TestedPc
<1> QED
  BY <1>1, <1>2, TargetInvStep, TypeCorrect, PruneInvCorrect, PTL DEF Spec

=============================================================================
