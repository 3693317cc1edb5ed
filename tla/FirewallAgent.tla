---------------------------- MODULE FirewallAgent ----------------------------
(***************************************************************************)
(* The firewall agent of one host: POST /firewall/apply and POST           *)
(* /firewall/rollback (services/firewall-service/viswall_firewall_agent).  *)
(*                                                                         *)
(* The agent is one asyncio process.  A handler runs without interruption  *)
(* between two awaits, and every await (a subprocess, or the snapshot's    *)
(* worker thread) lets the other handlers in: one action is one such       *)
(* stretch.  Nothing in the agent serialises handlers, and they all share  *)
(* /etc/nftables.conf, nftables.conf.last-good, the snapshots directory    *)
(* and the kernel's tables.                                                *)
(*                                                                         *)
(* Rulesets are opaque: `Good' ones pass `nft -c' and load, `Bad' ones do  *)
(* neither.  `nft -f' adds to a table that is already there, so `live' is  *)
(* the set of rulesets the table holds; the empty set is an absent table.  *)
(***************************************************************************)
EXTENDS Naturals, FiniteSets

CONSTANTS
  Req,        \* concurrently running handlers
  Good, Bad,  \* rendered rulesets that nft accepts, and that it rejects
  Dump,       \* contents of an iptables-save dump
  None,       \* no file, no ruleset, no snapshot
  Packaged,   \* the /etc/nftables.conf a distribution ships: no viswall table
  Keep,       \* KEEP_SNAPSHOTS
  Serial,     \* TRUE: callers send one request at a time
  Preload,    \* the snapshot directories an earlier run may have left
  MaxApplies, \* bound on the apply requests of a behaviour
  MaxRollbacks, \* bound on its rollback requests
  MaxFaults,  \* bound on failing commands
  MaxCrashes  \* bound on agent restarts

Family == {"v4", "v6"}
Missing == "missing"
Corrupt == "corrupt"

\* A snapshot directory: the captured rules.v4 and rules.v6.
Snapshot == [Family -> Dump \cup {Missing, Corrupt}]

ASSUME ConstantsAssumption ==
  /\ Good \cap Bad = {}
  /\ None \notin Good \cup Bad \cup {Packaged}
  /\ Packaged \notin Good \cup Bad
  /\ None \notin Snapshot
  /\ {Missing, Corrupt} \cap Dump = {}
  /\ Keep \in Nat \ {0}
  /\ Serial \in BOOLEAN
  /\ Preload \subseteq Snapshot \cup {None}
  /\ MaxApplies \in Nat /\ MaxRollbacks \in Nat
  /\ MaxFaults \in Nat /\ MaxCrashes \in Nat

Ruleset == Good \cup Bad
Image   == {None, Packaged}       \* /etc/nftables.conf of a fresh container
File    == Ruleset \cup Image
SnapId == 0 .. MaxApplies

VARIABLES
  pc,         \* where each handler is
  want,       \* the ruleset an apply renders
  snap,       \* the snapshot a handler takes, or restores
  stale,      \* the directories a handler is about to prune
  reply,      \* the last answer of each handler
  conf,       \* /etc/nftables.conf
  lastGood,   \* $STATE_DIR/nftables.conf.last-good
  live,       \* the rulesets loaded in table inet viswall
  ipt,        \* the kernel's iptables and ip6tables rules
  snaps,      \* $STATE_DIR/snapshots, by age
  marker,     \* $STATE_DIR/last_applied_at exists
  nApplies, nRollbacks, nFaults, nCrashes,  \* bounds
  before,     \* history: live when a handler began
  disturbed,  \* history: since the last load into an absent table, a command
              \* failed, the agent died or a rollback changed the table
  rejected    \* history: since then, nft has rejected a ruleset

vars == <<pc, want, snap, stale, reply, conf, lastGood, live, ipt, snaps,
          marker, nApplies, nRollbacks, nFaults, nCrashes, before, disturbed,
          rejected>>

handlerVars == <<want, snap, stale, before>>
fileVars    == <<conf, lastGood, snaps, marker>>
kernelVars  == <<live, ipt>>
arrivals    == <<nApplies, nRollbacks, nCrashes>>

ApplyPc    == {"capture v4", "capture v6", "list", "prune", "write", "check",
               "delete", "load", "restore", "routing"}
RollbackPc == {"test v4", "test v6", "remove", "restore v4", "restore v6",
               "reapply"}
Reply      == {None, "applied", "invalid", "failed", "rolled back",
               "not rolled back", "rollback failed"}

HandlersTyped ==
  /\ pc \in [Req -> {"idle"} \cup ApplyPc \cup RollbackPc]
  /\ reply \in [Req -> Reply]
  /\ want \in [Req -> Ruleset \cup {None}]
  /\ snap \in [Req -> SnapId]
  /\ stale \in [Req -> SUBSET SnapId]
  /\ before \in [Req -> SUBSET Good]

FilesTyped ==
  /\ conf \in File
  /\ lastGood \in File
  /\ snaps \in [SnapId -> Snapshot \cup {None}]

KernelTyped == live \subseteq Good /\ ipt \in [Family -> Dump]

CountersTyped ==
  /\ nApplies \in 0 .. MaxApplies
  /\ nRollbacks \in 0 .. MaxRollbacks
  /\ nFaults \in 0 .. MaxFaults
  /\ nCrashes \in 0 .. MaxCrashes

TypeOK ==
  /\ HandlersTyped
  /\ FilesTyped
  /\ KernelTyped
  /\ CountersTyped
  /\ marker \in BOOLEAN
  /\ disturbed \in BOOLEAN /\ rejected \in BOOLEAN

\* A first start, or a start over a state directory with an older snapshot.
Init ==
  /\ pc = [r \in Req |-> "idle"]
  /\ want = [r \in Req |-> None]
  /\ snap = [r \in Req |-> 0]
  /\ stale = [r \in Req |-> {}]
  /\ reply = [r \in Req |-> None]
  /\ conf \in Image
  /\ lastGood = None
  /\ live = {}
  /\ ipt \in [Family -> Dump]
  /\ \E old \in Preload : snaps = [i \in SnapId |-> IF i = 0 THEN old ELSE None]
  /\ marker = FALSE
  /\ nApplies = 0 /\ nRollbacks = 0 /\ nFaults = 0 /\ nCrashes = 0
  /\ before = [r \in Req |-> {}]
  /\ disturbed = FALSE /\ rejected = FALSE

-----------------------------------------------------------------------------
(* Handlers.                                                               *)

Idle(r)    == pc[r] = "idle"
Goto(r, l) == pc' = [pc EXCEPT ![r] = l] /\ UNCHANGED reply
Answer(r, a) ==
  /\ pc' = [pc EXCEPT ![r] = "idle"]
  /\ reply' = [reply EXCEPT ![r] = a]

\* Callers that wait for one answer before the next request.
MayArrive(r) == Idle(r) /\ (Serial => \A q \in Req : Idle(q))

\* A command exits non-zero, or cannot be spawned at all (OSError).
Works == UNCHANGED <<nFaults, disturbed, rejected>>
Fails ==
  /\ nFaults < MaxFaults /\ nFaults' = nFaults + 1 /\ disturbed' = TRUE
  /\ UNCHANGED rejected
\* nft works, and says no.
Rejects == UNCHANGED <<nFaults, disturbed>> /\ rejected' = TRUE

Dirs == {i \in SnapId : snaps[i] # None}
Newest(i) == i \in Dirs /\ \A j \in Dirs : j <= i

\* `nft -f': rulesets add to the table, the packaged file flushes it.
Loadable == Good \cup {Packaged}
After(c) == IF c = Packaged THEN {} ELSE live \cup {c}

-----------------------------------------------------------------------------
(* POST /firewall/apply: snapshot_state in a worker thread.                *)

\* The time stamp that names the directory.
BrokenStamp == nApplies + 2
Stamp == nApplies + 1

\* The directory exists, and sorts as the newest, before anything is in it.
ApplyArrive(r, w) ==
  /\ MayArrive(r)
  /\ nApplies < MaxApplies
  /\ nApplies' = nApplies + 1
  /\ want' = [want EXCEPT ![r] = w]
  /\ snap' = [snap EXCEPT ![r] = Stamp]
  /\ snaps' = [snaps EXCEPT ![Stamp] = [f \in Family |-> Missing]]
  /\ before' = [before EXCEPT ![r] = live]
  /\ Goto(r, "capture v4")
  /\ UNCHANGED <<stale, conf, lastGood, kernelVars, marker, nRollbacks,
                 nCrashes, nFaults, disturbed, rejected>>

\* A failing tool only leaves its artifact out; a directory another handler
\* has pruned is an OSError, which ends the apply before nft is touched.
Capture(r, f, here, next) ==
  /\ pc[r] = here
  /\ \/ /\ snap[r] \in Dirs
        /\ Works
        /\ snaps' = [snaps EXCEPT ![snap[r]][f] = ipt[f]]
        /\ Goto(r, next)
     \/ /\ snap[r] \in Dirs
        /\ Fails
        /\ Goto(r, next)
        /\ UNCHANGED snaps
     \/ /\ snap[r] \notin Dirs
        /\ Works
        /\ Answer(r, "invalid")
        /\ UNCHANGED snaps
  /\ UNCHANGED <<handlerVars, conf, lastGood, marker, kernelVars, arrivals>>

\* Directories beyond the Keep newest.
BrokenStale == {i \in Dirs : Cardinality({j \in Dirs : i <= j}) >= Keep}
Stale == {i \in Dirs : Cardinality({j \in Dirs : i <= j}) > Keep}

\* The worker thread lists the directories, then removes the oldest ones.
ListStale(r) ==
  /\ pc[r] = "list"
  /\ stale' = [stale EXCEPT ![r] = Stale]
  /\ Goto(r, "prune")
  /\ Works
  /\ UNCHANGED <<want, snap, before, fileVars, kernelVars, arrivals>>

\* Oldest first; rmtree raises on one that another handler removed meanwhile.
PruneStale(r) ==
  /\ pc[r] = "prune"
  /\ LET gone == stale[r] \ Dirs
     IN /\ snaps' = [i \in SnapId |->
                       IF i \in stale[r] /\ \A g \in gone : i < g
                       THEN None ELSE snaps[i]]
        /\ IF gone = {} THEN Goto(r, "write") ELSE Answer(r, "invalid")
  /\ stale' = [stale EXCEPT ![r] = {}]
  /\ Works
  /\ UNCHANGED <<want, snap, before, conf, lastGood, marker, kernelVars,
                 arrivals>>

-----------------------------------------------------------------------------
(* POST /firewall/apply: apply_ruleset.                                    *)

\* The undo point of the swap: whatever /etc/nftables.conf holds.
Saved == IF conf # None THEN conf ELSE lastGood

\* Conversion and rendering, the last-good copy and the new file: no await.
Write(r) ==
  /\ pc[r] = "write"
  /\ \/ /\ Answer(r, "invalid")            \* the payload does not convert
        /\ UNCHANGED <<conf, lastGood>>
        /\ Works
     \/ /\ lastGood' = Saved
        /\ conf' = want[r]
        /\ Goto(r, "check")
        /\ Works
     \/ /\ lastGood' = Saved              \* the write fails half way
        /\ conf' \in Bad
        /\ Answer(r, "invalid")
        /\ Fails
  /\ UNCHANGED <<handlerVars, snaps, marker, kernelVars, arrivals>>

\* `nft -c' reads the file as it is by now.
Accepted == conf \in Loadable

\* The table removed before the check instead of after it.
BrokenCheck(r) ==
  /\ pc[r] = "check"
  /\ live' = {}
  /\ \/ Accepted /\ Goto(r, "delete") /\ Works
     \/ ~Accepted /\ Answer(r, "invalid") /\ Rejects
  /\ UNCHANGED <<handlerVars, fileVars, ipt, arrivals>>

Check(r) ==
  /\ pc[r] = "check"
  /\ \/ Accepted /\ Goto(r, "delete") /\ Works
     \/ ~Accepted /\ Answer(r, "invalid") /\ Rejects
     \/ Answer(r, "invalid") /\ Fails
  /\ UNCHANGED <<handlerVars, fileVars, kernelVars, arrivals>>

\* What is left of the table: nothing, and not what was there.
BrokenRemoved == live
Removed == {}

\* The exit status of `nft delete table' is ignored: there may be no table, or
\* one that could not be deleted.
DeleteTable(r) ==
  /\ pc[r] = "delete"
  /\ \/ live' = Removed /\ Goto(r, "load") /\ Works
     \/ Goto(r, "load") /\ Fails /\ UNCHANGED live
     \/ Answer(r, "invalid") /\ Fails /\ UNCHANGED live
  /\ UNCHANGED <<handlerVars, fileVars, ipt, arrivals>>

\* `nft -f' reads the shared file, and not the handler's own ruleset.
BrokenLoaded(r) == want[r]
Loaded(r) == conf

\* On a non-zero exit the last-good file comes back and is loaded next; when
\* nft cannot be spawned the handler gives up where it is.
Load(r) ==
  /\ pc[r] = "load"
  /\ \/ /\ Loaded(r) \in Loadable
        /\ live' = After(Loaded(r))
        /\ marker' = TRUE
        /\ disturbed' = (disturbed /\ live # {})
        /\ rejected' = (rejected /\ live # {})
        /\ Goto(r, "routing")
        /\ UNCHANGED <<conf, nFaults>>
     \/ /\ (Loaded(r) \notin Loadable /\ Rejects) \/ Fails
        /\ IF lastGood # None
             THEN conf' = lastGood /\ Goto(r, "restore")
             ELSE Answer(r, "failed") /\ UNCHANGED conf
        /\ UNCHANGED <<live, marker>>
     \/ /\ Fails
        /\ Answer(r, "failed")
        /\ UNCHANGED <<conf, live, marker>>
  /\ UNCHANGED <<handlerVars, lastGood, snaps, ipt, arrivals>>

Restore(r) ==
  /\ pc[r] = "restore"
  /\ \/ /\ conf \in Loadable
        /\ live' = After(conf)
        /\ Works
     \/ /\ (conf \notin Loadable /\ Rejects) \/ Fails
        /\ UNCHANGED live
  /\ Answer(r, "failed")
  /\ UNCHANGED <<handlerVars, fileVars, ipt, arrivals>>

\* Policy routing and QoS: their failures are listed in an "applied" answer.
RoutingAndQos(r) ==
  /\ pc[r] = "routing"
  /\ Answer(r, "applied")
  /\ Works
  /\ UNCHANGED <<handlerVars, fileVars, kernelVars, arrivals>>

-----------------------------------------------------------------------------
(* POST /firewall/rollback, restoring the snapshot's files directly.       *)

RollbackArrive(r) ==
  /\ MayArrive(r)
  /\ nRollbacks < MaxRollbacks
  /\ nRollbacks' = nRollbacks + 1
  /\ before' = [before EXCEPT ![r] = live]
  /\ IF Dirs = {}
       THEN Answer(r, "not rolled back") /\ UNCHANGED snap
       ELSE /\ \E i \in Dirs : Newest(i) /\ snap' = [snap EXCEPT ![r] = i]
            /\ Goto(r, "test v4")
  /\ want' = [want EXCEPT ![r] = None]
  /\ UNCHANGED <<stale, fileVars, kernelVars, nApplies, nCrashes, nFaults,
                 disturbed, rejected>>

\* The artifact is there and `iptables-restore --test' takes it.
Restorable(i, f) == i \in Dirs /\ snaps[i][f] \in Dump

\* Only the process is asked, with whatever the directory holds.
BrokenTest(r, f, here, next) ==
  /\ pc[r] = here
  /\ Goto(r, next)
  /\ Works
  /\ UNCHANGED <<handlerVars, fileVars, kernelVars, arrivals>>

Test(r, f, here, next) ==
  /\ pc[r] = here
  /\ \/ Restorable(snap[r], f) /\ Goto(r, next) /\ Works
     \/ ~Restorable(snap[r], f) /\ Answer(r, "not rolled back") /\ Works
     \/ Answer(r, "not rolled back") /\ Fails
  /\ UNCHANGED <<handlerVars, fileVars, kernelVars, arrivals>>

RemoveTable(r) ==
  /\ pc[r] = "remove"
  /\ \/ /\ live' = Removed
        /\ disturbed' = TRUE
        /\ Goto(r, "restore v4")
        /\ UNCHANGED <<nFaults, rejected>>
     \/ Goto(r, "restore v4") /\ Fails /\ UNCHANGED live
     \/ Answer(r, "not rolled back") /\ Fails /\ UNCHANGED live
  /\ UNCHANGED <<handlerVars, fileVars, ipt, arrivals>>

\* Only a non-zero exit leads to _reapply_last_good; an OSError (the file was
\* pruned under the rollback, the command cannot be spawned) does not.
RestoreFamily(r, f, here, next) ==
  /\ pc[r] = here
  /\ \/ /\ Restorable(snap[r], f)
        /\ ipt' = [ipt EXCEPT ![f] = snaps[snap[r]][f]]
        /\ IF next = "done" THEN Answer(r, "rolled back") ELSE Goto(r, next)
        /\ Works
     \/ /\ ~Restorable(snap[r], f)
        /\ Answer(r, "rollback failed")
        /\ Works
        /\ UNCHANGED ipt
     \/ /\ Goto(r, "reapply") \/ Answer(r, "rollback failed")
        /\ Fails
        /\ UNCHANGED ipt
  /\ UNCHANGED <<handlerVars, fileVars, live, arrivals>>

ReapplyLastGood(r) ==
  /\ pc[r] = "reapply"
  /\ \/ /\ lastGood \in Loadable
        /\ live' = After(lastGood)
        /\ disturbed' = TRUE
        /\ UNCHANGED <<nFaults, rejected>>
     \/ /\ (lastGood \notin Loadable /\ Rejects) \/ Fails
        /\ UNCHANGED live
  /\ Answer(r, "rollback failed")
  /\ UNCHANGED <<handlerVars, fileVars, ipt, arrivals>>

-----------------------------------------------------------------------------
(* The process.                                                            *)

\* The container dies; a recreated one starts from the image's nftables.conf,
\* while the state directory is mounted and the tables are the host's.
Restart(c) ==
  /\ nCrashes < MaxCrashes
  /\ nCrashes' = nCrashes + 1
  /\ pc' = [r \in Req |-> "idle"]
  /\ reply' = [r \in Req |-> None]
  /\ stale' = [r \in Req |-> {}]
  /\ conf' = c
  /\ disturbed' = TRUE
  /\ UNCHANGED <<want, snap, before, lastGood, snaps, marker, kernelVars,
                 nApplies, nRollbacks, nFaults, rejected>>

\* No request is being served: the agent waits for one.
Waiting == (\A r \in Req : Idle(r)) /\ UNCHANGED vars

ApplyStep(r) ==
  \/ \E w \in Ruleset : ApplyArrive(r, w)
  \/ Capture(r, "v4", "capture v4", "capture v6")
  \/ Capture(r, "v6", "capture v6", "list")
  \/ ListStale(r) \/ PruneStale(r)
  \/ Write(r) \/ Check(r) \/ DeleteTable(r) \/ Load(r) \/ Restore(r)
  \/ RoutingAndQos(r)

RollbackStep(r) ==
  \/ RollbackArrive(r)
  \/ Test(r, "v4", "test v4", "test v6")
  \/ Test(r, "v6", "test v6", "remove")
  \/ RemoveTable(r)
  \/ RestoreFamily(r, "v4", "restore v4", "restore v6")
  \/ RestoreFamily(r, "v6", "restore v6", "done")
  \/ ReapplyLastGood(r)

Next ==
  \/ \E r \in Req : ApplyStep(r) \/ RollbackStep(r)
  \/ \E c \in Image \cup {conf} : Restart(c)
  \/ Waiting

Spec == Init /\ [][Next]_vars

-----------------------------------------------------------------------------
(* Properties.                                                             *)

Quiet  == \A r \in Req : Idle(r)
Ending(r) == ~Idle(r) /\ Idle(r)' /\ reply'[r] # None

\* "Swap only the viswall table: delete it first, then load" (nft.py): the
\* table never holds the rules of two rulesets at once.
SwapLeavesOne == \A a, b \in live : a = b

\* The same, once no handler runs and nothing has gone wrong since the last
\* load: interleaved applies may mix two rulesets for a while, they do not
\* end with both.  (They do if one of three is rejected: the others' tables
\* are mixed by the time the last to be written fails its check.)
SettlesOnOne == Quiet /\ ~disturbed /\ ~rejected => SwapLeavesOne

\* What an answer says of the kernel is so: an apply that succeeded left its
\* own ruleset, and nothing else unless the old table could not be deleted; one
\* refused for its payload or its ruleset left the table it found; one that
\* failed to load left its undo point, what it found, or nothing.  A rollback
\* that succeeded left both families as its snapshot has them, and no viswall
\* table unless that could not be deleted; one that was refused changed nothing.
AnswerHolds(r) ==
  CASE reply'[r] = "applied"         -> /\ want[r] \in live'
                                        /\ disturbed' \/ live' = {want[r]}
    [] reply'[r] = "invalid"         -> live' = before[r]
    [] reply'[r] = "failed"          -> live' \subseteq {lastGood} \cup before[r]
    [] reply'[r] = "rolled back"     -> /\ ipt' = snaps[snap[r]]
                                        /\ \/ live' = {}
                                           \/ live' = before[r] /\ nFaults > 0
    [] reply'[r] = "not rolled back" -> live' = before[r]
    [] reply'[r] = "rollback failed" -> live' \subseteq {lastGood} \cup before[r]

AnswersTrue == [][\A r \in Req : Ending(r) => AnswerHolds(r)]_vars

\* Handlers that will still load what /etc/nftables.conf holds, if it loads.
LoadingPc == {"check", "delete", "load", "restore"}
Loading == {r \in Req : pc[r] \in LoadingPc}

\* However two applies interleave, the ruleset written last is in force once
\* both have ended, unless a command failed, the agent died or a rollback
\* changed the table: no apply is lost to another one's swap.
LastWriterWins ==
  ~disturbed /\ conf \in Good => conf \in live \/ Loading # {}

\* Handlers between `nft delete table' and the load that replaces it.
Swapping == {r \in Req : pc[r] \in {"load", "restore"}}

\* "a bad render leaves the previous table intact" (api.py): once a ruleset
\* was loaded, without a failing command, a crash or a rollback the table is
\* only ever absent inside a swap.
TableKept == marker /\ ~disturbed => live # {} \/ Swapping # {}

\* Applies that prune at the same time, each from its own listing, never
\* remove one of the Keep newest snapshots.
NewestKept == \A i \in 1 .. nApplies : nApplies - i < Keep => i \in Dirs

\* A rollback that has passed its tests, and may have removed the table, can
\* read both captures, however many handlers prune meanwhile, until Keep
\* further applies have arrived.
RollbackTargetHolds ==
  \A r \in Req : /\ pc[r] \in {"remove", "restore v4", "restore v6"}
                 /\ nApplies - snap[r] < Keep
                 => \A f \in Family : Restorable(snap[r], f)

=============================================================================
