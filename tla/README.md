# viswall in TLA+

viswall replaces the hand-written firewall of a Linux router by a managed one.
An API gateway keeps the configuration in a database and pushes it to agents on
the router, which render it and load it into the kernel: firewall, policy
routing, QoS, interfaces, WireGuard, DNS. A mistake of an agent is felt at once,
in the worst case by locking the operator out, so the code is full of undo
points (snapshots, last-good copies, backups, `netplan try`, a revert trap that
restores the old firewall unless somebody proves that the host is still
reachable) and of diffs that are meant to repair whatever an earlier failure has
left. This directory models those mechanisms, checks them with TLC and proves
part of what they promise with TLAPS.

## The system

| part | state it keeps | operations | what is hard |
| --- | --- | --- | --- |
| firewall agent, apply and rollback (`services/firewall-service`: `api.py`, `nft.py`, `snapshots.py`) | `/etc/nftables.conf`, `nftables.conf.last-good`, `snapshots/<stamp>/`, `last_applied_at`; the kernel's `inet viswall` table and iptables rules | `POST /firewall/apply`, `POST /firewall/rollback`, `GET /firewall/status` | no lock: handlers interleave at every await on shared files; check, delete and load are three commands; restarts lose the file but not the table |
| renderer and blacklist (`nft.py`) | the blacklist's sets, in the table | payload to chains; block, unblock | order and completeness of rules; blocks end with the table |
| policy routing (`routing.py`) | the kernel's rules and routes, `rt_tables` | reconcile to a wanted set | partial failure, shared error list, diff against a moving live state |
| QoS (`routers/firewall.py`, `qos.py`) | policy rows; the kernel's tc tree | rows, background push, set up, clear | half-installed trees, overlapping pushes |
| dead-man switch (`scripts/ssh_watchdog.sh`, `scripts/restore_firewall.sh`, `viswall-ssh-watchdog.service`) | `ALIVE`, `COMMIT`, the transient timer and service `vw-revert` | probe and re-arm; restore | prober, timer, restore, agent and operator run side by side, each one command at a time; all of them may fail or die |
| gateway, firewall (`routers/firewall.py`, `routers/routing.py`, `utils/firewall_dispatch.py`, `utils/agent_client.py`) | rows of rules, NAT, routes | row change, then push of the full state | pushes that overtake each other, sessions that keep what they have read, timeouts, retries by the user |
| gateway and node agent, interfaces (`routers/network.py`, `netcfg.py`) | interface rows; addresses, links, default route, netplan file | refresh, discover, plan, guard, try, apply, persist | a revert racing a confirmation; guardrails checked on stale facts; reboots |
| gateway and VPN agent (`routers/vpn.py`, `wg_client.py`) | servers, clients, keys; `client.conf` and its backup, the unit | write, restart, restore; start, stop | handlers in threads without a lock |
| gateway and DNS agent (`routers/dns.py`, `agent.py`) | servers, zones, records, keys; zone files and BIND's configuration | render, check, reload; sign, roll | a sequence that fails half way; overlapping rollovers |
| other rows (`routers/dhcp.py`, `mail.py`, `users.py`, `instances.py`, `groupware.py`, `llm_admin.py`) | rows | read, check, write, log, read again | checks of rows that change before the commit |
| simulator (`shared/firewall_simulator.py`) | none | a packet through the rows | agreement with the renderer |
| assistant, DHCP agent, deploy, heartbeats, metrics, web interface, SDKs, migration scripts | none that another part reads back | pure or one-off | see Not modelled |

The parts meet in few places. The gateway calls the agents over HTTP and awaits
one answer; the agents keep no queue, so two calls of the gateway are two
handlers that interleave. The firewall agent and the restore script share the
snapshots directory and the kernel's tables; the prober and the restore script
share `ALIVE`, `COMMIT` and the service `vw-revert`; the operator's runbook
writes `COMMIT` and strips the legacy rules. What each part has to get right,
and which property covers it, is listed hazard by hazard in `PROJECT.json`.

## Modules

| module | extends | what it is |
| --- | --- | --- |
| `FirewallAgent` | | apply and rollback of the firewall agent |
| `FirewallAgentProofs` | `FirewallAgent`, `TLAPS` | types; the outcome of interleaved applies; what serial requests answer and leave; the snapshots that pruning and rollback rely on |
| `RevertTrap` | | the dead-man switch with its surroundings |
| `DeadManSwitch` | | the abstract specification that `RevertTrap` implements |
| `Ruleset` | | the chains that rows become, the verdict of a packet, swaps and blocks |
| `Simulator` | `Ruleset` | the gateway's simulator next to the renderer |
| `PolicyRouting` | | the reconcile of rules and routes |
| `ReachabilityProofs` | `Simulator`, `PolicyRouting`, `RevertTrap`, `TLAPS` | what is open and what is closed, for every payload, and what a passing suite is worth; what an answer of a reconcile is worth; what a restore loads, how far the deadline slides, what `COMMIT` stops, how timely the prober has to be, and the refinement |
| `FirewallGateway` | | row changes and pushes of the firewall's rows |
| `DesiredState` | | the abstract specification that `FirewallGateway` implements |
| `FirewallGatewayProofs` | `FirewallGateway`, `TLAPS` | the refinement |
| `Qos`, `NetConfig`, `Vpn`, `Dns` | | traffic shaping, interfaces, WireGuard, name service: gateway and agent together |
| `QosProofs` | `Qos`, `TLAPS` | a request that runs alone heals its interfaces |
| `VpnProofs` | `Vpn`, `TLAPS` | keys that match; what a failed apply and an answered start or stop leave |
| `DnsProofs` | `Dns`, `TLAPS` | what a lone apply serves, and a lone rollover leaves of the keys |
| `NetConfigProofs` | `NetConfig`, `TLAPS` | what no apply takes off the host; what a lone apply or try leaves |
| `Records` | | the gateway's other rows |
| `RecordsProofs` | `Records`, `TLAPS` | what a lone request leaves of rows that races have spoilt, and what one at a time keep |
| `MC...` | the module of the name | finite instances: payloads, rows, symmetry |

The three parts of `ReachabilityProofs` are about one thing, whether the host can
be reached, and share a module; that is why `RevertTrap` and `PolicyRouting`
have names of their own for what every module has (`TrapInit`, `TrapNext`,
`TrapTypeOK`, `RoutingSpec`, `routingVars`).

Most modules tell one story twice. What an operation does to state that nobody
else touches is easy and tested; what is left behind when it overlaps another
one, or fails half way, is not. No part of this code takes a lock, so races do
leave rows, files and trees that no single request would have made. What the
code can promise, and does, is that the next request that runs *alone* puts
right what it is about, and tells the truth about it. `solo` is the history
variable for that: the request that no other one has run beside.

### FirewallAgent

The agent is one asyncio process under uvicorn: a handler runs undisturbed
between two awaits, and every await lets the others in. One action is one such
stretch, and `pc[r]` names the await at which handler `r` is. An apply goes
through

    ApplyArrive  Capture v4, v6  ListStale  PruneStale        snapshots.py
    Write  Check  DeleteTable  Load  Restore  RoutingAndQos   nft.py, api.py

and a rollback through `RollbackArrive`, `Test` v4 and v6, `RemoveTable`,
`RestoreFamily` v4 and v6, and `ReapplyLastGood` when a restore exits non-zero
(`_rollback_direct`; the restore script is not part of the agent's image, so
`_rollback_via_script` does not run there). `Write` is the longest stretch:
payload conversion, rendering, the last-good copy and the overwriting of
`/etc/nftables.conf` have no await between them.

Abstractions. A ruleset is a value that `nft -c` and `nft -f` both accept
(`Good`) or both reject (`Bad`). `nft -f` adds to a table that exists, so `live`
is the *set* of rulesets the table holds: the empty set is an absent table, two
elements are a merge. A snapshot is its two captures. `conf` starts as what the
image has (nothing, or the distribution's file `Packaged`, which flushes), and a
recreated container starts from that again while `$STATE_DIR`, a mount, and the
kernel, the host's, stay. Every command may fail (`Fails`), and the agent may
die at any await (`Restart`). A write of `/etc/nftables.conf` may be cut off,
which leaves a file that `nft` rejects, and `nft delete table` may fail, which
the code ignores: the load that follows then adds to the table. `disturbed`
tells whether anything but a handler's own swap has left the table in a state
that the last written file does not determine, and `rejected` whether `nft` has
rejected a ruleset since the table was last loaded into an absent one.

### RevertTrap

Every cycle the prober looks for `COMMIT`, probes, and on success touches
`ALIVE`, stops the armed timer, arms a new one and verifies it. The timer starts
the restore script, which chooses the newest snapshot, gives way to `COMMIT` and
to a fresh `ALIVE`, removes the table, validates the snapshot, and loads it. One
action is one command of a script. `timer` and `alive` count ticks. `Loss` tells
what the probes can see from what only an outsider notices: the rendered ruleset
always accepts the loopback, which the ssh probe uses, and nothing in the
repository writes the reference of the drift check. The agent's apply appears as
far as it touches the shared state: a directory, two captures, the swap. The
operator follows the order of the runbook; its guards (`down = {}`, `loaded`) are
the probe batteries between its steps.

`DeadManSwitch` is what all of that amounts to, in six variables: a clock, the
age of the last word that the host can be reached, the word somebody has to
give, and what the switch does once it has gone off. A word can only be given by
one who sees nothing lost, is filed before it is used, and is good for one new
deadline; without a word, or its release, nobody stops the clock; and what has
gone off undoes nothing before it has asked twice. `Switch` instantiates it in
`RevertTrap`: the word is with the cycle of the prober that has passed its
probes (`Word`), `ALIVE` is where it is filed, `COMMIT` is the release, and the
commands of the restore script are asking, asking again, and undoing (`Phase`).
The agent, the snapshots, the operator's strip and boot, and every failure of a
command stutter.

### Ruleset and Simulator

Here rulesets have content. A rule is a record of sets, what it asks of each
field of a packet, with its verdict; a chain is a sequence of rules of which the
first that matches decides. `Mandatory`, `UserRules` and the final drop make the
input chain in the order of `_render_input`; `Forward`, `RawPrerouting` and
`Dnat` are the other chains, and `Traverse` takes a packet through the hooks in
the order of their priorities. `Convert` is `_convert_rule_to_nft` with what it
leaves out: texts that are no address, ports it cannot parse, ports without a
protocol. A row that renders to no rule is a rule that matches nothing
(`Absent`). The table's life is short here (swap, failed swap, rollback): the
commands are in `FirewallAgent`, the blacklist, which is a set *in* the table,
is here. A block is two steps of two programs: `BlockIp` is the agent's
`nft add element`, which leaves the address `asked` for, and `BlockAnswered` the
gateway's answer, which makes it `promised`; a swap or a rollback may come before
the first, between the two, or after both, and `swept` is what went with its table
since it was added. A rate is one fact of a packet, over the rate or not. `Docker`
appears as the DNAT and the bridges the rendered rules are written for. A
redirection leads to an address and perhaps a port (`toPort`), and `Arrives` is the
packet with both as DNAT leaves them; `ValidToAddr` is what the redirections' own
parser lets through. `Simulator` is what `firewall_simulator.py` makes of the same
rows; `Hits` is its test of one rule, and `RowVerdict`, to compare it with, what
the rendered rows say of the packet in the raw and in the input chain.

### PolicyRouting

`apply_routing` reads the live rules, then the routes, deletes what it owns and
does not want, adds what it did not see: one action per command. Entries are the
code's normalised keys; what the kernel holds is a key with or without the
`protocol 30` that marks viswall's own. Two kinds of entries are not read back
under the key they were written with (`ReadBack`): those of a table that has
another owner's name, and routes that name a gateway and no interface
(`Deviceless`), which the kernel shows with the device it chose. What is read of
those is wanted by no row, so an apply deletes them and adds them again. The list
of errors is the manager's, so
interleaved applies share it, and each clears it when it begins. `silent` marks
an apply whose payload had a malformed row or which could not read: the code
reports neither when everything else works.

### FirewallGateway and DesiredState

A request changes a row, commits, reads the whole desired state table by table
and pushes it. A row is two cells, its place in the order and the rest, because
`move` and `update` write different columns and because sessions keep the rows
they have read (`expire_on_commit=False`): what is pushed is partly what the
session knew before.

The agent of this module is `FirewallAgent` cut down to what an answer depends on.
A job is at a stage (`job`) with a payload (`got`): it writes the payload into the
one file all jobs share (`file`; what was there is `undo`), checks it, deletes the
table and loads the file *as it is by then*, and applies policy routing from its
own payload; or it fails at one of those steps and puts back what is in `undo`
(`Proceeds`, `Fails`, `Restores`). A rollback removes the table. `late` holds the
jobs the gateway no longer waits for, at whatever stage: they go on when they like,
or never. So the agent's "ok" means that a file was loaded, not whose.

`DesiredState` is what that amounts to: cells with the number of their commits; an
agent that holds *some committed version* of each, or none, and has one in its
file; and an answer "ok" that is only given when the agent has loaded the versions
the request committed, or newer ones (`met`), or has had them in its file when
another request's older ones were written over them before the load (`lost`).
`Desired` instantiates it in `FirewallGateway`, with the identity on `db`, `held`,
`file`, `owed`, `met`, `lost` and `told`: a commit is `Commit`, a job that writes
the file is `Write`, one that loads it or the routes is `Deliver`, an answer is
`Answer`, and every other step stutters. What it does *not* promise is that the
agent ends with the newest state, or that an "ok" is about one's own load: pushes
overtake each other, and so do the agent's applies (see Known divergences).

### Qos, NetConfig, Vpn, Dns

Each has the gateway's routes and the agent's commands in one module, since the
interesting order is the one between them.

- `Qos`: routes check, commit, read again and queue a background task, which
  reads what it pushes when it runs; the agent then works through `tc qdisc del`
  and the commands of the tree. A tree is the set of the commands that have built
  it, and a command is accepted by the kernel if its place is free and its root
  there. `Leaves` and `Filters` are the number of commands of an htb tree. A shape
  is an algorithm and a class list; those in `Refused` the agent answers with 422
  before its first command (`Refuse`), so the tree that was there stays, and the
  gateway, whose schema let them through, only logs it. `Queue` is what comes after
  the commit: the row is read again, except for a new class, which goes by
  `enabled` as read before it; or the answer fails and the task is gone with it.
- `NetConfig`: `Discover` in two awaits, `PlanChanges` with `plan_changes`,
  `guard_plan` and `check_wan_guardrails`, `RunStep` once per command, the netplan
  file; or, in try mode, the file first, then `netplan try` as a process of its
  own. That process (`trial`: `NetplanApplies`, `NetplanAccepts`,
  `NetplanReverts`) and the agent that has started it (`Probe`, `Confirm`,
  `Verdict`) interleave freely: the agent sleeps a fixed time and probes whatever
  network is there (`early` if it is still the old one), its newline waits in the
  pipe for whoever reads it, and netplan's time-out may come first. A plan is the
  *set* of its commands, what each row asks for that the host has not (`Changes`),
  and `Due` says which may come next: the commands of one interface follow each
  other in the code's order (`Order`), the interfaces come in that of the rows,
  which the database does not promise. The kernel takes a default route along with
  the last address or the link of its interface. A reboot brings what netplan
  makes of the base files and the agent's.
- `Vpn`: the agent's handlers are threads, so `client.conf`, its backup and the
  unit are touched command by command by several at a time; the gateway writes the
  status of a server by whoever answers last. A thread of the agent outlives the
  gateway's patience, so an answer given up on is still a change to come. A
  configuration is good, bad (`wg-quick` fails on it) or malformed (the agent
  refuses it). What fails has a name (`FaultKind`), since the code treats an exit,
  a time-out and a file that cannot be written differently, and ignores the exit
  of `systemctl enable`. A client made in bulk has a placeholder for a public key
  (`None`) and no private one in its file (0) until its credentials are made anew.
  `SiteStatus` and `DownloadClientConfig` are the two routes that only read: what
  they return is what the properties are about.
- `Dns`: the agent handles one call at a time, but in steps that may fail between
  files; the gateway's signings, rollovers and edits interleave at every await.
  What a zone says is the number of its changes and its keys. `AgentSignZone` is
  the agent's own signing, which no route of the gateway calls: it makes a pair of
  keys no row knows of and the zone's files, and reloads nothing.

### Records

The remaining routers have one shape: read, check against what was read, write
the columns that differ, log, read again. `Columns` and `Parents` say what a row
of each kind has, `Refused` what is checked, and the kinds of requests take the
steps of that shape. Rows that only carry text have one name of a few. An UPDATE
carries the columns that differ from what the session has read (`Emitted`) and
amends the row that is there by then (`Amended`). Columns that nothing checks are
one, `fit`: whether the row's response takes their values. A PATCH may set one to
null, or a name to the empty text, and is committed; the response, and every later
one that shows the row, then fails (`Unfit`, `Answers`). A sync of a provider's models
gives ids to the names the registry lacks (`Missing`, `NewIds`).

## Runs

| run | instance | what it shows |
| --- | --- | --- |
| `fw_serial` | one request at a time, 3 applies, 2 rollbacks, 2 faults, 1 restart, `Keep` 2, old snapshots that may be incomplete | `AnswersTrue`: what each answer claims of the kernel is so. `TableKept`: the table is absent only inside a swap |
| `fw_concurrent` | 2 handlers, 3 applies, 1 rollback, 1 fault, 1 restart, `Keep` 1, one rejected ruleset | `LastWriterWins`, `SettlesOnOne` (when nothing was rejected), `NewestKept`, `RollbackTargetHolds` under interleaving |
| `trap_live` | no fault, no crash, 2 losses | `TrapFires`, a liveness property |
| `trap_safe` | any one command fails, one crash, nothing is timely | `SlidesOnce`, `RestoresOneSnapshot`, `CommitFreezes`; `IsDeadManSwitch`: the refinement |
| `rules` | 16 kinds of rows, alone, in pairs, with 6 redirections of address and port; every kind of packet; one swap, a block and its answer anywhere, a rollback | `ManagementOpen`, `BlockedStayOut`, `InternalPortsClosed`, `OnlyWritten`; `SimulatorSeesDrops`: a suite that passes does not hide a drop |
| `routing` | 2 applies at a time, 3 in all, 1 fault, 1 restart, a foreign entry like one of ours, a table with another name, a route without an interface | `CleanAnswer`, `Quiet`, `OwnErrors`, `ForeignKept` |
| `gateway` | 2 requests over 3 firewall rows, 1 NAT row, 1 routing row, 1 fault | `KeepsDesiredState`: the refinement. `PushesCurrentRows`; `Answers`, a liveness property |
| `qos` | 2 requests at a time, 3 in all, 1 fault, 2 policies, 1 interface, one class list that the agent refuses | `Heals`: a request that ran alone leaves a whole tree or none, or was refused |
| `network` | 2 requests at a time, 3 in all, 1 fault, 1 reboot, 2 interfaces, 8 rows to write; probes, newline, time-out and netplan's commands in any order | `WanKept`, `UnforcedSpares`, `Applied`, `TryIsSafe` |
| `vpn` | 2 requests at a time, 3 in all, 1 fault, 2 servers, 1 client or route | `FailedApplyRestores`, `StatusTrue`, `KeysMatch` |
| `dns` | 2 requests at a time, 3 in all, 1 fault, 2 servers, 2 zones | `AppliesAll`, `KeysHeal` |
| `records` | 2 requests at a time, 3 in all, one or two rows of each of 12 kinds, fit for their responses or not | `Heals`, `OneByOne`, `ErrorsChangeNothing` |

The modules that keep state have a type invariant, but for `Ruleset`, whose state
is three tables and three sets of addresses. All of them are theorems; those of
`FirewallAgent`, `PolicyRouting`, `FirewallGateway` and `Qos` are checked by a
run as well.

Bounds, and why they are enough. Two handlers interleave in every pair of
awaits; a third adds no new pair. (It can add a case: that handlers settle on
one table was once stated without `~rejected`, which two handlers cannot refute
and three can. The proof, for any number of them, is what found it.) Three
requests let a pair race and a third one come after, alone: what the properties
about `solo` need is that something is left over from a race or a failure, and
one race and one failure together leave every kind of leftover the models tell
apart. Three applies let one be refused between two that succeed. `Keep` is 1 or
2 so that pruning happens; the code has 10. One leaf and one filter make an htb
tree of three commands, so that a setup can fail at its root, in its middle and
at its end. The prober's 30 s cycle, the 120 s of `ALIVE` and the 15 minute
window keep their order (`Cycle` < `Fresh` < `Window`) and not their proportion.
In `rules` one swap is enough because a rendering depends on nothing before it;
pairs of rows in both orders are what the order of rules can matter to. One source
is blocked (`Sources`), since blocks of two addresses have nothing in common but
their table.
Constants named `Max...` bound a behaviour in the guards of the actions they
count; nothing else is bounded.

Symmetry (requests, handlers, rulesets, dumps, servers, working configurations) is
used only in runs without liveness. Deadlock is checked everywhere: `Waiting` is
the idle loop of a service that waits for requests, and time passes in every state
of `RevertTrap` but while a timely process is due.

Fairness. `RevertTrap!FairSpec`: the prober loops for ever, time passes, systemd
starts an elapsed timer's service, and a script that runs goes on. None is
assumed of the operator, the agent, or whatever broke the host or may repair it.
`TrapFires` speaks of a host that stays lost: it is released by recovery, by
`COMMIT`, or by a restore that has passed its guards. `FirewallGateway!FairSpec`:
a handler goes on, and httpx gives up after its timeout (`agent_client.py`);
nothing is asked of the agent, which may never answer.

## Theorems

All are theorems of `Spec`, for every value of the constants that the assumption
of the module allows. Of `FirewallAgent` (`ConstantsAssumption`): any number of
handlers, rulesets and dumps, any `Keep`, any bounds.

| theorem | states | the argument |
| --- | --- | --- |
| `TypeCorrect` | `[]TypeOK` | `TypeOK` is inductive; one lemma per action |
| `LastWriterCorrect` | `[]LastWriterWins` | `/etc/nftables.conf` in `Good` and no disturbance means that the file is in the table, or that some handler still is at check, delete, load or restore. A write puts its own handler there; a check that fails saw a file that is not in `Good`; a delete leaves its handler at load; a load puts the file, whoever wrote it, into the table; a last-good copy keeps its handler at restore. Inductive with `TypeOK` |
| `NewestKeptCorrect` | `[]NewestKept` | needs two more facts: no directory is later than the number of applies, and everything in a handler's listing of stale directories has at least `Keep` later applies (`PruneInv`). The second is a counting argument over the directories at the moment of the listing, and stays true because applies only grow |
| `RollbackTargetCorrect` | `[]RollbackTargetHolds` | a rollback's target is a directory no apply is filling with anything but dumps, and pruning spares it by `PruneInv` until `Keep` more applies have come (`TargetInv`) |
| `SettlesCorrect` | `[]SettlesOnOne` | as long as nothing is disturbed or rejected, every load is of a file in `Good`, and a table with two rulesets still has a handler that will delete it: the one that wrote last has not swapped yet (`Settling`) |
| `TableKeptCorrect` | `Serial => []TableKept` | one handler at a time: between its delete and its load or undo it is the only one that can be there (`SerialInv`) |
| `AnswersCorrect` | `Serial => AnswersTrue` | the same invariant says what each await of the one handler has already done to the table and to the iptables rules |

`Serial`, a constant, is that callers send one request at a time; faults and
restarts come as they like. It is how `TableKept` and `AnswersTrue` are meant, since
overlapping applies do leave the table absent, or answer for each other's load
(see Known divergences).

`LastWriterWins` is stated for `conf \in Good`: when the last written ruleset is
rejected nothing can be promised (see Known divergences).

Of `RevertTrap` (`TrapAssumption`): any window, age and cycle with `Fresh` below
`Window`, any set of commands that may fail, any bounds.

| theorem | states | the argument |
| --- | --- | --- |
| `RestoresOneSnapshotCorrect` | `[]RestoresOneSnapshot` | a snapshot is complete or not for good once its captures are done, so what the script has tested stays what it loads: `RestoreInv` says that no second timer can choose another target under a restore that runs, that the agent fills no snapshot but the newest, that past the test both captures of the target are there, and that a family the script has passed is what the target holds |
| `TrapTypeCorrect` | `[]TrapTypeOK` | with `RestoreInv`: `RestoreFamily` loads a capture that is there, so the rules stay rules |
| `SlidesOnceCorrect` | `[]SlidesOnce` | with the loss the count starts at none; a prober that has not passed its probes cannot, so the one cycle that had is the only one to arm (`SlideInv`) |
| `CommitFreezesCorrect` | `CommitFreezes` | the timer starts a restore at its first guard, and with `COMMIT` there that guard only leads out |
| `HealthyKeptCorrect` | `ProberTimely => []HealthyKept` | while a timer is set or about to be, `ALIVE` is no older than the current cycle, one more cycle if it has not been touched in this one yet, and one for each crash of the prober (`Timing`). With two cycles and one for each crash shorter than `Fresh` every fire meets a fresh `ALIVE` |
| `TrapIsDeadManSwitch` | `IsDeadManSwitch` | every step of `TrapNext` is one of the switch or a stutter. It takes two facts beside the types: that a restore is not running while a timer is set (`OneShot` of `RestoreInv`), so that what goes off has been at rest, and that the operator disarms only what he has committed (`Committed`) |

`ProberTimely` is an assumption about the host, not a fact of the code: a cycle
takes at most `Cycle` ticks, touching `ALIVE` does not fail, and
`(MaxCrashes + 2) * Cycle < Fresh`. The prober sleeps 30 s between rounds of
probes; two cycles stay below the 120 s of `ALIVE` as long as probing, stopping,
arming and verifying take less than 30 s together, and nothing in the script but
the time limits of `ssh` and `curl` sees to that.

Of `Ruleset` (`RulesetAssumption`, `PayloadAssumption`): any payload of well
typed rows, any addresses, ports and interfaces, any order of swaps and blocks.

| theorem | states | the argument |
| --- | --- | --- |
| `ManagementStaysOpen` | `[]ManagementOpen` | nothing in the raw chain matches such a packet (`RawSpares`); the first thirteen rules of the input chain are the mandatory ones whatever rows follow (`InputHead`), one of the seventh to tenth matches, and those in front of it that match accept (`MandatoryRules`) |
| `BlockedSourcesStayOut` | `[]BlockedStayOut` | the second rule of the input chain drops; the invariant (`TableInv`) is that whatever is asked for or promised is in the set of the table in force, unless it was swept: only an unblock takes it out of the set, and the end of the table sweeps it |
| `InternalPortsStayClosed` | `[]InternalPortsClosed` | the second rule of the forward chain drops by the original port, and a redirection leads to an address (`ArrivesType`), so the rule applies to the packet as it is after DNAT, whatever port it has by then |
| `NothingElseOpen` | `WansApart => []OnlyWritten` | a rule that accepts the packet as it arrives is a mandatory one, which is open by design or for an inner interface, or a converted row, and what a rule of a row asks for is all of the row that can be rendered (`ConvertCovers`). A verdict of the DNAT chain is of Docker's rule or of a converted NAT row, which changes address and port as the row says |
| `SimulationSound` | `[]SimulatorSeesDrops` | a row that drops the packet in the input chain matches it in the simulator too (`HitsRule`), and of the rows that match there the first that does not accept ends the simulation (`StopsSimulation`): so a simulation that ends in an accept has met no drop. In the raw chain only anti-spoof rows drop, and only what is sent to their own address. It takes the rows as written, without what rendering leaves out |

`WansApart` says that what the payload calls WAN is neither the loopback, nor
`docker0`, nor a bridge. The rows' own content is not restricted in the first
three theorems: that is the point of "a console rule can never override
SSH/WG/established/lo access". The two ways around it that `ManagementOpen`
names, a redirection of the port and an anti-spoof row with the host's own
address, are real.

Of `PolicyRouting` (`RoutingAssumption`): any number of applies, rules, routes
and tables.

| theorem | states | the argument |
| --- | --- | --- |
| `RoutingTypeCorrect` | `[]RoutingTypeOK` | inductive |
| `ForeignEntriesKept` | `ForeignKept` | what is to be deleted is tagged, and a deletion takes the entry with that tag |
| `CleanAnswerCorrect` | `[]CleanAnswer` | of an apply that runs alone the live state is, at any time, what it has read with the commands it has run (`Lone`): what is left to delete and to add is the difference to its goal, and a command that fails is in the list of errors |
| `OwnErrorsCorrect` | `[]OwnErrors` | the list is cleared when an apply begins, and only one is running |
| `QuietCorrect` | `[]Quiet` | of rows that are all read back as written, what is read of our own is the rows themselves; if the goal was installed when the apply began, both differences are empty |

Of `FirewallGateway` (`GatewayAssumption`): any rows, any number of requests.

| theorem | states | the argument |
| --- | --- | --- |
| `TypeCorrect` | `[]TypeOK` | inductive |
| `CurrentRowsPushed` | `[]PushesCurrentRows` | as long as nothing has been committed since the session began to read, every cell it has loaded is the database's, table by table |
| `Refines` | `KeepsDesiredState` | `IInv`: types; versions in flight, kept by sessions, in the agent's file and its copy, or held are behind the database (`Behind`); and per request (`Request`), what it has committed and what its payload has of it agree: a payload that is read after the commit covers it. At stage "written" the file covers what is owed, or it was lost; from the load on it is met or lost. Then every step of `Next` is one of `DesiredState` or a stutter |

Of `Qos` (`QosAssumption`: ids are numbers, an htb tree has any number of leaves
and filters): any number of requests, policies, interfaces and shapes. The run
has one interface; the theorem also covers a push that works through several.

| theorem | states | the argument |
| --- | --- | --- |
| `TypeCorrect` | `[]TypeOK` | `Carries`: what a request has with it at each stage, and that the next command is one of its target's |
| `AloneHeals` | `[]Heals` | `Lone`: while a request runs alone, each interface it is about has one policy at most, and the request is in step with it: the rows it has checked are still there until its commit (`Checked`), the task will find what it has written (`Written`), and at the agent the interface is healed or has one target left, whose commands so far are a prefix of its tree (`Setup`). The kernel accepts the next command of a prefix, so the setup cannot stop half way without a fault; a target in `Refused` is passed over before its first command, and the property claims nothing of its interface |

Of `Vpn` (`VpnAssumption`, `NoRowAssumption`: no row is mistaken for its
absence): any number of requests, servers, clients and configurations.

| theorem | states | the argument |
| --- | --- | --- |
| `TypeCorrect` | `[](TypeOK /\ Texts)` | `Texts`: what a thread is about to write has passed the agent's check, also when the gateway has stopped waiting. A request's text must therefore stay with it for as long as its thread is there |
| `KeysCorrect` | `[]KeysMatch` | the commit that writes a client's key writes its file too (`Matching`), though an edit, a regeneration or a deletion may come between, and a client made in bulk has neither key in both; and a client's server cannot go while the client is there (`Placed`: a new client needs its server, and the foreign key refuses the deletion) |
| `FailedApplyCorrect` | `[]FailedApplyRestores` | `SoloInv`: of the request that runs alone each stage says what its thread has done so far to file, backup and tunnel, and which kinds of faults it can have met by then (`ApplyPhase`), whatever the threads of others had left. A refusal, a file that cannot be written, a restart that exits with a failure or a tunnel that does not come up all lead back to the old file; the four ways out before it is put back (`Lapse`) are what the property leaves out |
| `StatusCorrect` | `[]StatusTrue` | the same for start, stop and restart, from the first read of the row to the status that is written back (`UnitPhase`); an enable or disable that exits with a failure, which the agent answers ok, is the exception |

Of `Dns` (`DnsAssumption`, `NoRowAssumption`): any number of requests, servers
and zones.

| theorem | states | the argument |
| --- | --- | --- |
| `TypeCorrect` | `[]TypeOK` | with `Written`: only requests that write reach the commit |
| `AppliesCorrect` | `[]AppliesAll` | `SoloInv`: an apply that runs alone has loaded what is in the database, zones first and then their contents, and the agent writes all of that before it reloads (`ApplyPhase`). The agent's own signing in between changes zone files, not what `named` has loaded, and `WriteAll` writes every wanted file anew |
| `KeysCorrect` | `[]KeysHeal` | what a lone signing or rollover has read of the keys is all there is (`KeysPhase`), so retiring that leaves no other active key of its type, and the new number is no older key's |

Of `NetConfig` (`NetAssumption`, `RowsAssumption`: finitely many interfaces, and
no row, stanza or file is mistaken for its absence): any interfaces, addresses
and rows, any number of requests, failing commands and reboots.

| theorem | states | the argument |
| --- | --- | --- |
| `TypeCorrect` | `[]TypeOK` | with `Carries`: what a request has with it at each stage |
| `WanStays` | `[]WanKept` | only a command that takes an address away can take that one, and no plan that passes the guardrails has such a command for it (`Planned`), forced or not; so it does not matter what has happened to the host since the plan was made. A try that is reverted goes back to a host that had the address (`WanInv`), and a reboot to the base files |
| `DefaultSpared` | `[]UnforcedSpares` | `Lone`: an apply that runs alone has read the host as it was when it began (`Still`), its guard has seen that no command is on the interface of the default route, and whichever of its commands fail, that interface and the one the default route has gone to since are left alone by those that are to come (`Spared`) |
| `TrySafe` | `[]TryIsSafe` | `Trying`: of a lone try, while its netplan process has the new networks in place the host is as the file makes it, and as it was before otherwise, and what a revert puts back is what was there; a newline is written only after probes that passed, on the new networks or, early, on the old ones (`Lone`, `Still`) |
| `AppliesReach` | `[]Applied` | of each row, what the host does not have yet is a command of the plan that is still to come (`Nearing`, `Routing`), as long as no command has failed; so with the last command the host is at its rows. That it stays there until the next apply, through reboots and refreshes, is that the file has the addresses too (`GoalInv`). A gateway is set after the addresses and the link of its interface, so that what comes after it on that interface cannot take it away again |

Of `Records` (`RecordsAssumption`, `KindsAssumption`: an id is of one kind,
`RowAssumption`: no row is mistaken for its absence): any number of requests, of
rows of each kind, of names and lease times.

| theorem | states | the argument |
| --- | --- | --- |
| `Invariant` | `[]IInv` | of what requests that overlap have read nothing is said, for it may be stale. What the one that runs alone has read is still so when it writes, and what it is going to write makes, with that, a row in order (`Prepared`); after the write the row is there and in order (`Written`). If none has overlapped any other so far, what it writes also leaves its neighbours in order (`Fitting`): the server's families, the contents of the subnet, the names |
| `TypeCorrect` | `[]TypeOK` | in `IInv`. A row has the columns of its kind, and a write the columns of some route: that the one fits the other (`Fits`) has a lemma per kind, and `KindsAssumption` is what tells the kinds apart |
| `RacesHeal` | `[]Heals` | in `IInv`; at the end of a lone request `Written` says what the answer promises |
| `OrderKept` | `[]OneByOne` | in `IInv`; a commit of a request that none has overlapped writes what is `Fitting`, and a deletion takes what is below the row along |
| `ErrorsAreClean` | `[]ErrorsChangeNothing` | in `IInv`; before its write a lone request has changed nothing, and after it only `LogsChange`, `There` and `Answers` can fail: the first is what the property leaves out, the second cannot, since nobody else deletes the row, and the third only of a row that is `Unfit`, which the property names |
| `ParentsStay` | `[]Held` | every row's parent is there: the foreign keys at the commit, and deletions that take everything below or fail |

Every safety property that a run checks, invariant, action property or
refinement, is stated by a theorem. Only model-checked are the two liveness
properties, `TrapFires` and `Answers`: liveness under fairness, and anything
about `ENABLED`, is out of the prover's reach. `AnswersTrue` and `TableKept` are
proved for `Serial`, `OnlyWritten` for `WansApart`, `HealthyKept` for
`ProberTimely`, as said above. That a plan of `NetConfig` is a set, and new ids
are an injection, keeps induction over sequences out of the proofs; the counting
in `NewestKept` goes through the library's facts on cardinality.

## Known divergences

Met while modelling: places where the code does something else than a reader of
its docs or of a neighbouring part would expect. The models have them as they
are; properties are stated so that they hold beside them, and none is the
subject of a run. Paths are below `src/`, without the services' prefixes.

Firewall agent and trap.

- `nft.py:825`: an apply overwrites `/etc/nftables.conf` before it checks it, so
  another apply that is already past its `nft delete table` loads the rejected
  file, and no table is left. "A bad render leaves the previous table intact"
  (`api.py:435`) holds for one request at a time (`fw_serial`).
- `nft.py:821`: a rejected ruleset stays in the file, and becomes the undo point
  of the next apply.
- `nft.py:825`: four applies of three handlers may leave two rulesets in one table
  when the one that writes last is rejected: two handlers past their delete load
  what two others have written, `nft -f` adds the one to the other, and the
  handler that would swap them out finds the rejected file at its check and ends
  (hence `~rejected` in `SettlesOnOne`).
- `nft.py:821-865`: for the same reason two applies that overlap may both answer ok
  while one and the same file was loaded by both; the gateway passes the ok on
  (`lost` in `FirewallGateway`).
- `nft.py:872`: the last-good copy of a first apply may be the distribution's own
  file, whose load flushes what others have in the kernel.
- `ssh_watchdog.sh:305`: a prober that dies between stopping the armed timer and
  arming the next leaves none; and stopping `vw-revert.service` kills a restore
  that has already removed the table.
- `ssh_watchdog.sh:254`: nothing writes the reference of the WAN drift check, so
  what only that check would see fires nothing.
- `restore_firewall.sh:158`: the script removes the table before it validates the
  snapshot; `api.py:360` says the opposite of the shared procedure.
- `restore_firewall.sh:127`: the newest snapshot after the strip holds the
  stripped rules; `ssh_watchdog.sh:311`: a reboot loses the transient timer.

Renderer and simulator.

- A source or destination that is no address, a range of more than 256 ports,
  ports that do not parse, and ports without a protocol are left out of the
  rule, which then says more than the row (`nft.py:717`).
- A row with a protocol and without addresses is IPv4's only.
- An anti-spoof row with the host's own address closes SSH as well: it is rendered
  into the raw chain (`nft.py:379-393`, `551`), where it drops what the simulator
  says is accepted.
- Rows of the console never reach the forward chain, but for the tagged ones; one
  internal-port row replaces all the built-in internal ports.
- Rows of both families, ICMP with ports, and redirections to IPv6 make `nft -c`
  refuse the whole ruleset.
- Established flows of a blocked source go on; every apply or rollback empties
  the blacklist, while the gateway goes on listing the block
  (`routers/firewall.py:895`). One that comes between the agent's `nft add element`
  (`nft.py:919-937`) and the gateway's answer (`routers/firewall.py:904-918`) makes
  that answer untrue from the start. A repeated block of an address does not
  prolong its time-out.
- The simulator goes on after an accept, has no built-in chains and no final
  drop, and never matches a range. A simulation of several firewalls reads
  `.value` of a string and answers 500.

Gateway.

- Pushes overtake each other, also after a timeout that the agent outlives: the
  agent may end with an older state than the database (`firewall_dispatch.py:338`).
- `AsyncSessionLocal` is imported before it is bound (`dns_dispatch.py:18`,
  `routers/vpn.py:10`, `routers/routing.py:7`, `firewall_dispatch.py:147`):
  `POST /routing/apply` and the other users of the imported name answer 500.
- The docstring of `routing.py` promises that an apply of what is installed issues
  "zero mutation commands"; routes with a gateway and no interface, such as the
  one of `test_routing.py:109-117`, are deleted and added at every apply
  (`routing.py:279-304`, `342-372`). Applies that overlap report each other's
  errors, or clear them (`routing.py:401`).
- `qos.py:201` refuses a class list before it touches the qdisc; the gateway's
  schema lets such lists through (`schemas.py:1453-1478`), commits them and answers
  ok, and its background task only logs the 422: the interface keeps the tree of
  the previous rows. A PATCH of a policy with an explicit null is committed, answered
  500, and its task never runs. A null algorithm is refused by `/qos/apply` and set
  up as cake by a push; the model refuses it in both.
- Two policies of one interface can be created by two requests
  (`models.py:584`), as can a mail alias, and a model by two syncs
  (`llm_admin.py:260`). The model of a use case need not be its provider's
  (`models.py:708`).
- `delete_server` of the VPN says "and all its clients" (`routers/vpn.py:268`);
  the foreign key refuses a server with clients.
- `users.py:56` uses a name it does not import, so a change of a user is
  committed and answered 500; deleting an instance always is.
- A PATCH that sets a column to an explicit null, or a name to the empty text, which
  its response does not take (`dhcpv6_enabled`, `enabled`, `llm_enabled`,
  `is_enabled`) is committed and answered 500, and so is every later read or list of
  the row (`dhcp.py:213-229`, `mail.py:181`).
- A malformed reply of the language model is no `LLMError` (`llm_client.py:276-291`,
  `334`; `mail_classifier.py:133`): the classification answers 500 and the inbound
  message is not kept.
- A domain's `llm_config` is changed in place and never written (`mail.py:164`);
  saving the assistant's configuration ends with a 500 after its commit.
- `api.py:466`: malformed routing rows are reported only if something else fails.

Interfaces, DNS, VPN.

- `network.py:426` says an apply that would cut the default route is refused
  unless forced; one that sets a gateway on *another* interface is not, and moves
  the route.
- Guards look at a discovery that may be stale when the commands run
  (`netcfg.py:791`); an unreadable netplan file switches the guards on it off.
- A try that is reverted, ends in an error or cannot be started (`netcfg.py:692`,
  `715`) leaves the rejected file for the next boot; try mode cannot be asked for
  through the gateway.
- The probes of a try run a fixed 3 s after the process was started
  (`netcfg.py:709-721`, `config.py:84`), whether or not netplan has applied
  anything: they may pass on the old networks, and the newline that follows waits in
  the pipe and accepts the new ones unseen. A netplan that is killed leaves the host
  as it has it, while the answer is "reverted" or an error.
- A change of an MTU is a command like any other on its interface, and is left out.
- A refresh forgets gateways that are not the default route's. Two requests, or a
  refresh, may leave two rows of one interface, and every apply is refused from
  then on.
- DNS serials have the granularity of an hour; an enabled slave zone makes every
  apply of its server fail (`render.py:135`); overlapping signings leave two
  active key-signing keys until the next one.
- The gateway accepts endpoints with blanks that the VPN agent refuses.
- `wg_client.py:18` promises the old configuration after any failed apply; a restart
  that does not come back in time, or an `OSError`, raises past the restore
  (`wg_client.py:315-323`, `380-385`).
- A `systemctl enable` or `disable` that fails is answered 200 (`wg_client.py:327`,
  `334`), so the unit may not come back at boot although it runs, or may although
  it does not.
- Clients made in bulk have `placeholder_...` for a public key and
  `# PrivateKey = <generated>` in their file (`vpn.py:587`, `1322`) until their
  credentials are made anew.

## Not modelled

Wording, logging, layout, HTTP, authentication and the validation of single
fields. The tables of other owners in the kernel (Docker's chains, iptables-nft's
own), but for what the rendered rules say about them. The six artifacts of a
snapshot that no code reads back. No route asks for a row lock, so none is left out.

- DHCP leases, DKIM keys, connection records and statistics of the VPN, API keys
  that are revealed, lists: each a single read or write.
- The simulation of several firewalls, and the methods of `RoutingManager` that
  only its own older callers used.
- The DHCP agent: the gateway never calls it. The legacy VPN agent: nothing
  starts it.
- Metrics, heartbeats and the audit log: rows that no handler decides by.
- Deploy pipeline, boot loader, legacy strip, migration scripts: straight-line
  scripts around other programs; `RevertTrap` has what they do to the firewall.
- The assistant, mail and groupware services, web interface, SDKs, command line.

What runs outside the repository is external and modelled by how the code uses
it: `nft`, `tc`, `ip`, `netplan`, `wg-quick`, BIND, systemd, the kernel's packet
path, and the database, which commits statement by statement and takes no
predicate locks. One assumption about it deserves a name: `Qos` lets `tc` accept
all commands of a setup on an empty tree; a kernel that refuses an IPv6 filter at
the priority of an IPv4 one would fail every setup with both.

## Plan

Done: the firewall agent, the trap and the switch it implements, the renderer
with the simulator, policy routing, the gateway's dispatch with its abstract
specification, QoS, interfaces, VPN, DNS, the other rows; and proofs of all of
these. Left, in this order:

1. The shape that `NetConfig` and `Vpn` share with `DeadManSwitch`: undo point,
   change, proof, commit or undo.
2. The composition of `FirewallGateway` with `FirewallAgent`: what the agent
   ends with when pushes, time-outs and restarts of the agent come together.
3. Boot and reboot (`HostBoot`): which firewall a reboot at any point of the
   cutover comes up with.

## Running

    tlc -workers 4 -config fw_serial.cfg MCFirewallAgent.tla
    tlc -workers 4 -config rules.cfg MCRuleset.tla
    tlapm FirewallAgentProofs.tla
    tlapm ReachabilityProofs.tla
    tlapm FirewallGatewayProofs.tla
    tlapm QosProofs.tla
    tlapm VpnProofs.tla
    tlapm DnsProofs.tla
    tlapm NetConfigProofs.tla
    tlapm RecordsProofs.tla

Each `.cfg` belongs to the `MC` module that `PROJECT.json` names with its run.
