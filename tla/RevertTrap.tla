------------------------------ MODULE RevertTrap ------------------------------
(***************************************************************************)
(* The dead-man switch of a cutover: the prober scripts/ssh_watchdog.sh,   *)
(* the transient timer vw-revert.timer it slides, and the restore script   *)
(* scripts/restore_firewall.sh the timer starts.  They run next to the     *)
(* firewall agent, which takes a snapshot before each apply, and next to   *)
(* the operator, who strips the legacy rules, switches the boot loader and *)
(* commits.                                                                *)
(*                                                                         *)
(* Every process moves one command at a time.  Time passes in ticks, for   *)
(* the timer and the age of the ALIVE file; a command may take arbitrarily *)
(* long, unless `Timely' bounds the prober and the restore's guards.       *)
(***************************************************************************)
EXTENDS Naturals

CONSTANTS
  Window,     \* REVERT_WINDOW, in ticks
  Fresh,      \* ALIVE_MAX_AGE_SEC, in ticks
  Off,        \* no timer
  Timely,     \* TRUE: a cycle of the prober takes at most Cycle ticks, and
  Cycle,      \*   the restore's guards less than one
  MaxSnaps,   \* bound on the snapshots taken
  MaxLosses,  \* bound on the failures of the host's own services
  Faulty,     \* the commands that may fail
  MaxFailures, \* bound on the failures of a behaviour
  MaxCrashes  \* bound on crashes of the prober and of the agent

ASSUME TrapAssumption ==
  /\ Fresh \in Nat \ {0} /\ Window \in Nat /\ Fresh < Window
  /\ Off \notin Nat
  /\ Timely \in BOOLEAN /\ Cycle \in Nat \ {0}
  /\ MaxSnaps \in Nat \ {0}
  /\ MaxLosses \in Nat /\ MaxFailures \in Nat /\ MaxCrashes \in Nat

IpVersion == {"v4", "v6"}

\* What can be lost: something a loopback probe sees (sshd, the gateway, the
\* tunnel), or only the path from the outside (policy routing, an interface).
Loss == {"local", "wan"}

VARIABLES
  wd,        \* the prober: its next command
  lag,       \* ticks since its cycle began, at most Cycle
  timer,     \* ticks vw-revert.timer has left, or Off
  alive,     \* age of $STATE_DIR/ALIVE in ticks, at most Fresh
  rs,        \* vw-revert.service: the restore's next command, or "off"
  target,    \* the snapshot a restore has chosen
  loaded,    \* the viswall table is loaded
  rules,     \* the kernel's iptables rules of each family
  persist,   \* viswall-firewall-persist is enabled for boot
  legacy,    \* netfilter-persistent is enabled for boot
  shots,     \* $STATE_DIR/snapshots: what each directory holds
  nSnaps,    \* the newest of them
  agent,     \* the agent's apply
  op,        \* the operator's next step
  commit,    \* $STATE_DIR/COMMIT exists
  down,      \* what is lost at present
  nLosses, nFailures, nCrashes,
  armed,     \* history: armed, and no restore has got past its guard since
  slides     \* history: re-arms since "local" was lost

trapVars == <<wd, lag, timer, alive, rs, target, loaded, rules, persist, legacy, shots,
          nSnaps, agent, op, commit, down, nLosses, nFailures, nCrashes, armed,
          slides>>

prober    == <<wd, lag, alive>>
trap      == <<timer, rs, target>>
host      == <<loaded, rules, persist, legacy>>
snapshots == <<shots, nSnaps, agent>>
operator  == <<op, commit>>
outside   == <<down, nLosses>>
trapHistory == <<armed, slides>>

RuleSet == {"legacy", "stripped"}
Capture == RuleSet \cup {"missing"}

\* The commands of a restore that change the host, and the ones before them.
Mutating == {"persist", "table", "test", "files", "v4", "v6", "services"}
Guards   == {"commit", "alive"}

ProberTyped ==
  /\ wd \in {"commit", "probe", "touch", "stop", "arm", "verify", "sleep"}
  /\ lag \in 0 .. Cycle
  /\ alive \in 0 .. Fresh

TrapTyped ==
  /\ timer \in (0 .. Window) \cup {Off}
  /\ rs \in {"off"} \cup Guards \cup Mutating
  /\ target \in 1 .. MaxSnaps

HostTyped ==
  /\ loaded \in BOOLEAN /\ persist \in BOOLEAN /\ legacy \in BOOLEAN
  /\ rules \in [IpVersion -> RuleSet]

SnapshotsTyped ==
  /\ shots \in [1 .. MaxSnaps -> [IpVersion -> Capture]]
  /\ nSnaps \in 1 .. MaxSnaps
  /\ agent \in {"idle", "capture v4", "capture v6", "swap"}

OthersTyped ==
  /\ op \in {"strip", "boot", "commit", "disarm", "done"}
  /\ commit \in BOOLEAN
  /\ down \subseteq Loss
  /\ armed \in BOOLEAN
  /\ slides \in Nat

CountersTyped ==
  /\ nLosses \in 0 .. MaxLosses
  /\ nFailures \in 0 .. MaxFailures
  /\ nCrashes \in 0 .. MaxCrashes

TrapTypeOK ==
  /\ ProberTyped
  /\ TrapTyped
  /\ HostTyped
  /\ SnapshotsTyped
  /\ OthersTyped
  /\ CountersTyped

\* The window opens with a snapshot of the legacy rules, a viswall table on
\* top of them, and no trap yet.
TrapInit ==
  /\ wd = "commit" /\ lag = 0 /\ timer = Off /\ alive = Fresh
  /\ rs = "off" /\ target = 1
  /\ loaded = TRUE /\ rules = [f \in IpVersion |-> "legacy"]
  /\ persist = FALSE /\ legacy = TRUE
  /\ shots = [i \in 1 .. MaxSnaps |->
                [f \in IpVersion |-> IF i = 1 THEN "legacy" ELSE "missing"]]
  /\ nSnaps = 1 /\ agent = "idle"
  /\ op = "strip" /\ commit = FALSE
  /\ down = {}
  /\ nLosses = 0 /\ nFailures = 0 /\ nCrashes = 0
  /\ armed = FALSE /\ slides = 0

Succeeds  == UNCHANGED nFailures
Breaks(c) == c \in Faulty /\ nFailures < MaxFailures /\ nFailures' = nFailures + 1

-----------------------------------------------------------------------------
(* The prober: run_cycle and rearm_trap of ssh_watchdog.sh.                *)

WdGoto(here, next) == wd = here /\ wd' = next

LookForCommit ==
  /\ WdGoto("commit", IF commit THEN "sleep" ELSE "probe")
  /\ lag' = 0
  /\ UNCHANGED <<alive, trap, host, snapshots, operator, outside, nFailures,
                 nCrashes, trapHistory>>

\* ssh over the loopback, the gateway's health and the tunnel's handshake.
\* Nothing writes the reference of the drift check, which then passes.
BrokenProofOfLife == TRUE
ProofOfLife == "local" \notin down

\* On a failed check: touch nothing.
Probe ==
  /\ WdGoto("probe", IF ProofOfLife THEN "touch" ELSE "sleep")
  /\ UNCHANGED <<lag, alive, trap, host, snapshots, operator, outside, nFailures,
                 nCrashes, trapHistory>>

BrokenTouchAlive ==
  /\ WdGoto("touch", "stop")
  /\ \/ alive' = 0 /\ Succeeds
     \/ UNCHANGED alive /\ Breaks("touch")
  /\ UNCHANGED <<lag, trap, host, snapshots, operator, outside, nCrashes,
                 trapHistory>>

\* No new timer without it.
TouchAlive ==
  /\ \/ WdGoto("touch", "stop") /\ alive' = 0 /\ Succeeds
     \/ WdGoto("touch", "sleep") /\ UNCHANGED alive /\ Breaks("touch")
  /\ UNCHANGED <<lag, trap, host, snapshots, operator, outside, nCrashes,
                 trapHistory>>

\* `systemctl stop vw-revert.timer vw-revert.service' also kills a restore
\* that is running; its own failure is ignored.
StopTrap ==
  /\ WdGoto("stop", "arm")
  /\ \/ timer' = Off /\ rs' = "off" /\ Succeeds
     \/ UNCHANGED <<timer, rs>> /\ Breaks("stop")
  /\ UNCHANGED <<lag, alive, target, host, snapshots, operator, outside, nCrashes,
                 trapHistory>>

\* systemd-run refuses a unit name that is in use, and may fail anyway.
Arm ==
  /\ \/ /\ timer = Off /\ rs = "off"
        /\ WdGoto("arm", "verify")
        /\ timer' = Window
        /\ armed' = TRUE
        /\ slides' = IF "local" \in down THEN slides + 1 ELSE slides
        /\ Succeeds
     \/ /\ timer # Off \/ rs # "off"
        /\ WdGoto("arm", "sleep")
        /\ Succeeds
        /\ UNCHANGED <<timer, trapHistory>>
     \/ /\ WdGoto("arm", "sleep")
        /\ Breaks("arm")
        /\ UNCHANGED <<timer, trapHistory>>
  /\ UNCHANGED <<lag, alive, rs, target, host, snapshots, operator, outside,
                 nCrashes>>

\* An inactive timer is only logged: the next cycle tries again.
Verify ==
  /\ WdGoto("verify", "sleep")
  /\ UNCHANGED <<lag, alive, trap, host, snapshots, operator, outside, nFailures,
                 nCrashes, trapHistory>>

Sleep ==
  /\ WdGoto("sleep", "commit")
  /\ UNCHANGED <<lag, alive, trap, host, snapshots, operator, outside, nFailures,
                 nCrashes, trapHistory>>

\* Restart=always: systemd starts the prober again at its first command.
ProberDies ==
  /\ nCrashes < MaxCrashes
  /\ nCrashes' = nCrashes + 1
  /\ wd' = "commit"
  /\ UNCHANGED <<lag, alive, trap, host, snapshots, operator, outside, nFailures,
                 trapHistory>>

ProberStep ==
  LookForCommit \/ Probe \/ TouchAlive \/ StopTrap \/ Arm \/ Verify \/ Sleep

-----------------------------------------------------------------------------
(* The timer.                                                              *)

Sooner(t) == IF t \in {0, Off} THEN t ELSE t - 1
Older(a, most) == IF a = most THEN a ELSE a + 1

Tick ==
  /\ Timely => lag < Cycle /\ rs \notin Guards
  /\ timer' = Sooner(timer)
  /\ alive' = Older(alive, Fresh)
  /\ lag' = Older(lag, Cycle)
  /\ UNCHANGED <<wd, rs, target, host, snapshots, operator, outside, nFailures,
                 nCrashes, trapHistory>>

\* One shot.  The script has chosen the newest snapshot before its guard.
Fire ==
  /\ timer = 0
  /\ timer' = Off
  /\ rs' = "commit"
  /\ target' = nSnaps
  /\ UNCHANGED <<prober, host, snapshots, operator, outside, nFailures,
                 nCrashes, trapHistory>>

-----------------------------------------------------------------------------
(* restore_firewall.sh.                                                    *)

RsGoto(here, next) == rs = here /\ rs' = next

BrokenCommitGuard ==
  /\ RsGoto("commit", "alive")
  /\ UNCHANGED <<prober, timer, target, host, snapshots, operator, outside,
                 nFailures, nCrashes, trapHistory>>

CommitGuard ==
  /\ RsGoto("commit", IF commit THEN "off" ELSE "alive")
  /\ UNCHANGED <<prober, timer, target, host, snapshots, operator, outside,
                 nFailures, nCrashes, trapHistory>>

\* A fire with fresh proof of life is a no-op, and uses the timer up.
BrokenAlive == alive <= Fresh
StillAlive == alive < Fresh

AliveGuard ==
  /\ RsGoto("alive", IF StillAlive THEN "off" ELSE "persist")
  /\ armed' = (armed /\ StillAlive)
  /\ UNCHANGED <<prober, timer, target, host, snapshots, operator, outside,
                 nFailures, nCrashes, slides>>

\* `disable --now' stops the unit, which removes the table when it is active.
\* The failure of either command is tolerated.
DisablePersist ==
  /\ RsGoto("persist", "table")
  /\ \/ persist' = FALSE /\ loaded' = (loaded /\ ~persist) /\ Succeeds
     \/ UNCHANGED <<persist, loaded>> /\ Breaks("persist")
  /\ UNCHANGED <<prober, timer, target, rules, legacy, snapshots, operator,
                 outside, nCrashes, trapHistory>>

DeleteTable ==
  /\ RsGoto("table", "test")
  /\ \/ loaded' = FALSE /\ Succeeds
     \/ UNCHANGED loaded /\ Breaks("table")
  /\ UNCHANGED <<prober, timer, target, rules, persist, legacy, snapshots,
                 operator, outside, nCrashes, trapHistory>>

\* Both captures are there and pass `--test'; otherwise the script exits.
BrokenComplete(i) == shots[i]["v4"] # "missing"
Complete(i) == \A f \in IpVersion : shots[i][f] # "missing"

TestCaptures ==
  /\ RsGoto("test", IF Complete(target) THEN "files" ELSE "off")
  /\ UNCHANGED <<prober, timer, target, host, snapshots, operator, outside,
                 nFailures, nCrashes, trapHistory>>

CopyFiles ==
  /\ \/ RsGoto("files", "v4") /\ legacy' = TRUE /\ Succeeds
     \/ RsGoto("files", "off") /\ UNCHANGED legacy /\ Breaks("files")
  /\ UNCHANGED <<prober, timer, target, loaded, rules, persist, snapshots,
                 operator, outside, nCrashes, trapHistory>>

RestoreFamily(f, next) ==
  /\ \/ /\ RsGoto(f, next)
        /\ rules' = [rules EXCEPT ![f] = shots[target][f]]
        /\ Succeeds
     \/ RsGoto(f, "off") /\ UNCHANGED rules /\ Breaks(f)
  /\ UNCHANGED <<prober, timer, target, loaded, persist, legacy, snapshots,
                 operator, outside, nCrashes, trapHistory>>

\* Docker, the tunnel and netplan; whether that repairs the host is open.
RestartServices ==
  /\ RsGoto("services", "off")
  /\ \/ Succeeds /\ down' \in {{}, down}
     \/ Breaks("services") /\ UNCHANGED down
  /\ UNCHANGED <<prober, timer, target, host, snapshots, operator, nLosses,
                 nCrashes, trapHistory>>

RestoreStep ==
  \/ CommitGuard \/ AliveGuard \/ DisablePersist \/ DeleteTable
  \/ TestCaptures \/ CopyFiles
  \/ RestoreFamily("v4", "v6") \/ RestoreFamily("v6", "services")
  \/ RestartServices

-----------------------------------------------------------------------------
(* The agent, the operator and the host.                                   *)

AgGoto(here, next) == agent = here /\ agent' = next

AgentApply ==
  /\ AgGoto("idle", "capture v4")
  /\ ~commit
  /\ nSnaps < MaxSnaps
  /\ nSnaps' = nSnaps + 1
  /\ UNCHANGED <<prober, trap, host, shots, operator, outside, nFailures,
                 nCrashes, trapHistory>>

AgentCapture(f, here, next) ==
  /\ AgGoto(here, next)
  /\ \/ shots' = [shots EXCEPT ![nSnaps][f] = rules[f]] /\ Succeeds
     \/ UNCHANGED shots /\ Breaks(here)
  /\ UNCHANGED <<prober, trap, host, nSnaps, operator, outside, nCrashes,
                 trapHistory>>

AgentSwap ==
  /\ AgGoto("swap", "idle")
  /\ loaded' = TRUE
  /\ UNCHANGED <<prober, trap, rules, persist, legacy, shots, nSnaps, operator,
                 outside, nFailures, nCrashes, trapHistory>>

AgentDies ==
  /\ agent # "idle"
  /\ nCrashes < MaxCrashes
  /\ nCrashes' = nCrashes + 1
  /\ agent' = "idle"
  /\ UNCHANGED <<prober, trap, host, shots, nSnaps, operator, outside, nFailures,
                 trapHistory>>

OpGoto(here, next) == op = here /\ op' = next

\* The runbook's steps 5, 7 and 9, each after a good probe battery; a restore
\* that runs is waited for.
Strip ==
  /\ OpGoto("strip", "boot")
  /\ down = {} /\ loaded /\ rs = "off"
  /\ rules' = [f \in IpVersion |-> "stripped"]
  /\ UNCHANGED <<prober, trap, loaded, persist, legacy, snapshots, commit,
                 outside, nFailures, nCrashes, trapHistory>>

SwitchBoot ==
  /\ OpGoto("boot", "commit")
  /\ down = {} /\ loaded /\ rs = "off"
  /\ persist' = TRUE /\ legacy' = FALSE
  /\ UNCHANGED <<prober, trap, loaded, rules, snapshots, commit, outside,
                 nFailures, nCrashes, trapHistory>>

WriteCommit ==
  /\ OpGoto("commit", "disarm")
  /\ down = {} /\ loaded
  /\ commit' = TRUE
  /\ UNCHANGED <<prober, trap, host, snapshots, outside, nFailures, nCrashes,
                 trapHistory>>

Disarm ==
  /\ OpGoto("disarm", "done")
  /\ timer' = Off /\ rs' = "off"
  /\ UNCHANGED <<prober, target, host, snapshots, commit, outside, nFailures,
                 nCrashes, trapHistory>>

Lose(l) ==
  /\ nLosses < MaxLosses
  /\ nLosses' = nLosses + 1
  /\ down' = down \cup {l}
  /\ slides' = IF "local" \in down THEN slides ELSE 0
  /\ UNCHANGED <<prober, trap, host, snapshots, operator, nFailures, nCrashes,
                 armed>>

Recover(l) ==
  /\ l \in down
  /\ down' = down \ {l}
  /\ UNCHANGED <<prober, trap, host, snapshots, operator, nLosses, nFailures,
                 nCrashes, trapHistory>>

AgentStep ==
  \/ AgentApply
  \/ AgentCapture("v4", "capture v4", "capture v6")
  \/ AgentCapture("v6", "capture v6", "swap")
  \/ AgentSwap

TrapNext ==
  \/ ProberStep \/ ProberDies
  \/ Tick \/ Fire
  \/ RestoreStep
  \/ AgentStep \/ AgentDies
  \/ Strip \/ SwitchBoot \/ WriteCommit \/ Disarm
  \/ \E l \in Loss : Lose(l) \/ Recover(l)

TrapSpec == TrapInit /\ [][TrapNext]_trapVars

\* The prober loops, time passes, systemd fires an elapsed timer and the
\* restore it started goes on.  Nothing is asked of the operator, of the
\* agent or of whatever broke the host.
FairSpec ==
  /\ TrapSpec
  /\ WF_trapVars(ProberStep)
  /\ WF_trapVars(Tick)
  /\ WF_trapVars(Fire)
  /\ WF_trapVars(RestoreStep)

-----------------------------------------------------------------------------
(* Properties.                                                             *)

Trapped(l) == armed /\ l \in down /\ ~commit
Released(l) == l \notin down \/ commit \/ rs \in Mutating

\* "guaranteeing the trap fires when SSH dies": once the trap has been armed,
\* a host that has lost what the probes see, stays so and is not committed is
\* restored, whatever the prober was doing when it was lost.
TrapFires == Trapped("local") ~> Released("local")

\* "the deadline slides ONLY with proof-of-life": after what the probes see
\* is lost, at most the cycle that had already passed its checks re-arms.
SlidesOnce == "local" \in down => slides <= 1

\* "committed cutover is never auto-reverted": once COMMIT is there, a restore
\* that had not looked for it yet goes no further, even one that a prober in
\* the middle of its cycle armed after the operator had disarmed the trap.
CommitFreezes ==
  [][(commit /\ rs \in {"off", "commit"}) => rs' \in {"off", "commit"}]_trapVars

\* A host that loses nothing is never reverted while the prober is timely,
\* even when a timer could not be stopped and fires: its proof of life turns
\* the fire into a no-op.
HealthyKept == nLosses = 0 => rs \notin Mutating

\* "emergency restore": a restore that has come to its last commands has both
\* families as one complete snapshot has them, although the agent may still
\* have been filling it when the restore chose it, and boot is legacy again.
RestoresOneSnapshot ==
  rs = "services" =>
    /\ \A f \in IpVersion : rules[f] = shots[target][f] /\ rules[f] \in RuleSet
    /\ legacy

\* The word that a cycle of the prober has to give, and what a restore is doing.
Word ==
  CASE wd = "touch" -> "given" [] wd \in {"stop", "arm"} -> "filed" [] OTHER -> "none"
Phase ==
  CASE rs = "off" -> "rest" [] rs = "commit" -> "released?" [] rs = "alive" -> "fresh?"
    [] OTHER -> "undo"

\* "Proof-gated sliding-window revert trap": the prober, the timer, the script and
\* the operator, each of which may fail or die between any two commands, make
\* together one dead-man switch.  A cycle's word is good for one new timer, and
\* only after ALIVE has it; the timer is stopped on a word, or after COMMIT; what
\* has fired undoes nothing before it has missed COMMIT and found ALIVE stale.
Switch == INSTANCE DeadManSwitch WITH
  left <- timer, age <- alive, word <- Word, stage <- Phase,
  lost <- down \cap {"local"}, released <- commit
IsDeadManSwitch == Switch!Spec

=============================================================================
