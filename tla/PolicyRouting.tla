---------------------------- MODULE PolicyRouting ----------------------------
(***************************************************************************)
(* Policy routing of the firewall agent (viswall_firewall_agent/routing.py) *)
(* as a diff: an apply reads the live `ip rule' and `ip route' entries,     *)
(* deletes the owned ones it does not want and adds the wanted ones it did  *)
(* not see, one command at a time.  Every command is an await, so applies   *)
(* interleave over one kernel, one rt_tables file and one list of errors.   *)
(*                                                                          *)
(* An entry is a normalised key (_rule_key, _route_key).  The kernel tells  *)
(* entries that carry `protocol 30' from those that do not.                 *)
(***************************************************************************)
EXTENDS Naturals, FiniteSets

CONSTANTS
  Req,        \* concurrently running applies
  Rule, Route,   \* the entries
  Table,      \* lookup tables that are not reserved
  TableOf,    \* the table of an entry, or Nil for a reserved one
  Aliased,    \* tables that rt_tables already has under another name
  Deviceless, \* routes that name a gateway and no interface
  Nil,
  Foreign,    \* entries that others have installed
  MaxArrivals, MaxFaults, MaxRestarts   \* bounds of a behaviour

Entry == Rule \cup Route
Live  == [entry : Entry, tagged : BOOLEAN]

ASSUME RoutingAssumption ==
  /\ Rule \cap Route = {}
  /\ Nil \notin Table \cup Req
  /\ TableOf \in [Entry -> Table \cup {Nil}]
  /\ Aliased \subseteq Table
  /\ Deviceless \subseteq Route
  /\ Foreign \subseteq Entry
  /\ MaxArrivals \in Nat /\ MaxFaults \in Nat /\ MaxRestarts \in Nat

VARIABLES
  live,       \* the kernel's rules and routes
  named,      \* tables rt_tables has as vw-table-<number>
  errors,     \* RoutingManager.errors: who appended what
  pc,         \* where each apply is
  want,       \* its desired entries
  seen,       \* the live entries it has read
  dels, adds, \* the commands it has left
  ok,         \* its result so far
  reply,      \* the errors of the last answer
  solo,       \* history: the apply no other one has run beside, or Nil
  goal,       \* history: its desired entries
  silent,     \* history: it dropped a malformed row or could not read
  mutated,    \* history: it issued a command that changes the kernel
  exact,      \* history: when it began its entries were installed already
  nArrivals, nFaults, nRestarts

routingVars == <<live, named, errors, pc, want, seen, dels, adds, ok, reply, solo,
          goal, silent, mutated, exact, nArrivals, nFaults, nRestarts>>

Kind == {"malformed", "table", "read", "command"}

RoutingTypeOK ==
  /\ live \subseteq Live
  /\ named \subseteq Table \ Aliased
  /\ errors \subseteq Req \X Kind
  /\ pc \in [Req -> {"idle", "rules", "routes", "commands"}]
  /\ want \in [Req -> SUBSET Entry]
  /\ seen \in [Req -> SUBSET Live] /\ dels \in [Req -> SUBSET Live]
  /\ adds \in [Req -> SUBSET Entry]
  /\ ok \in [Req -> BOOLEAN]
  /\ reply \subseteq Req \X Kind
  /\ solo \in Req \cup {Nil} /\ goal \subseteq Entry
  /\ {silent, mutated, exact} \subseteq BOOLEAN
  /\ nArrivals \in 0 .. MaxArrivals /\ nFaults \in 0 .. MaxFaults
  /\ nRestarts \in 0 .. MaxRestarts

RoutingInit ==
  /\ live = [entry : Foreign, tagged : {FALSE}]
  /\ named = {} /\ errors = {}
  /\ pc = [r \in Req |-> "idle"]
  /\ want = [r \in Req |-> {}] /\ seen = [r \in Req |-> {}]
  /\ dels = [r \in Req |-> {}] /\ adds = [r \in Req |-> {}]
  /\ ok = [r \in Req |-> TRUE]
  /\ reply = {}
  /\ solo = Nil /\ goal = {}
  /\ silent = FALSE /\ mutated = FALSE /\ exact = FALSE
  /\ nArrivals = 0 /\ nFaults = 0 /\ nRestarts = 0

-----------------------------------------------------------------------------
(* What an apply makes of the live state.                                  *)

\* A live entry is ours by its protocol, or by the name of its table.
Owned(l) == l.tagged \/ TableOf[l.entry] \in named

\* The kernel shows an entry under the key it was written with; but a table
\* that has a name not ours is shown by that name, and a route that left its
\* device to the kernel is shown with the one it was given.  Those are the keys
\* of no row.
ReadBack(e) == TableOf[e] \notin Aliased /\ e \notin Deviceless
Recognised(l) == ReadBack(l.entry)

BrokenUnwanted(r, s) ==
  {l \in s : Owned(l) /\ l.entry \in Rule \ want[r]}
Unwanted(r, s) ==
  {l \in s : Owned(l) /\ ~(Recognised(l) /\ l.entry \in want[r])}

BrokenUnseen(r, s) == want[r]
Unseen(r, s) == want[r] \ {l.entry : l \in {k \in s : Recognised(k)}}

Installed(w) ==
  /\ \A e \in w : \E l \in live : l.entry = e
  /\ \A l \in live : l.tagged => l.entry \in w

\* `ip' knows the table of an entry by its number or by a registered name.
Resolves(e) == TableOf[e] \in named \cup Aliased \cup {Nil}

Works == UNCHANGED nFaults
Fails == nFaults < MaxFaults /\ nFaults' = nFaults + 1
Running == {r \in Req : pc[r] # "idle"}

history == <<solo, goal, exact>>

-----------------------------------------------------------------------------
(* apply_routing, up to its first await: the list of errors is emptied, the *)
(* rows are parsed and the tables registered.                               *)

Tables(w) == {TableOf[e] : e \in w} \ {Nil}

BrokenUnregistered(w) == Tables(w) \ named
Unregistered(w) == Tables(w) \ (named \cup Aliased)

BrokenCleared == errors
Cleared == {}

Arrive(r, w, malformed) ==
  /\ pc[r] = "idle"
  /\ nArrivals < MaxArrivals /\ nArrivals' = nArrivals + 1
  /\ pc' = [pc EXCEPT ![r] = "rules"]
  /\ want' = [want EXCEPT ![r] = w]
  /\ LET first == Running = {}
     IN  /\ solo' = IF first THEN r ELSE Nil
         /\ goal' = IF first THEN w ELSE {}
         /\ silent' = (first /\ malformed)
         /\ exact' = (first /\ Installed(w))
         /\ mutated' = FALSE
  /\ \/ /\ named' = named \cup Unregistered(w)
        /\ ok' = [ok EXCEPT ![r] = TRUE]
        /\ errors' = Cleared \cup (IF malformed THEN {<<r, "malformed">>} ELSE {})
        /\ Works
     \/ /\ Unregistered(w) # {} /\ Fails      \* rt_tables cannot be written
        /\ ok' = [ok EXCEPT ![r] = FALSE]
        /\ errors' = Cleared \cup {<<r, "table">>} \cup
                     (IF malformed THEN {<<r, "malformed">>} ELSE {})
        /\ UNCHANGED named
  /\ UNCHANGED <<live, seen, dels, adds, reply, nRestarts>>

\* `ip -j' of the rules, then of the routes.  A failure is an empty list: it
\* is appended to the errors, and is no failure of the apply.
Read(r, from, to, kind) ==
  /\ pc[r] = from
  /\ pc' = [pc EXCEPT ![r] = to]
  /\ \E got \in {{l \in live : l.entry \in kind}, {}} :
       /\ seen' = [seen EXCEPT ![r] = @ \cup got]
       /\ \/ Works /\ got = {l \in live : l.entry \in kind}
             /\ UNCHANGED <<errors, silent>>
          \/ Fails /\ got = {}
             /\ errors' = errors \cup {<<r, "read">>}
             /\ silent' = (solo = r \/ silent)
  /\ UNCHANGED <<live, named, want, ok, reply, mutated, history, nArrivals, nRestarts>>

ReadRules(r) ==
  /\ Read(r, "rules", "routes", Rule)
  /\ UNCHANGED <<dels, adds>>

ReadRoutes(r) ==
  /\ Read(r, "routes", "commands", Route)
  /\ dels' = [dels EXCEPT ![r] = Unwanted(r, seen'[r])]
  /\ adds' = [adds EXCEPT ![r] = Unseen(r, seen'[r])]

-----------------------------------------------------------------------------
(* The commands: rules before routes, deletions before additions.          *)

RulesFirst(e, entries) == e \in Rule \/ entries \cap Rule = {}

Command(r) ==
  /\ pc[r] = "commands"
  /\ mutated' = (solo = r \/ mutated)
  /\ UNCHANGED <<named, pc, want, seen, reply, silent, history, nArrivals,
                 nRestarts>>

Refused(r) ==
  /\ ok' = [ok EXCEPT ![r] = FALSE]
  /\ errors' = errors \cup {<<r, "command">>}
  /\ UNCHANGED live

BrokenFound(e) == {l \in live : l.entry = e}
\* The deletion gives the key that was read, and `protocol 30', so it finds no
\* entry of others.
Found(e) == {l \in live : l.entry = e /\ l.tagged}

Delete(r) ==
  \E l \in dels[r] :
    /\ RulesFirst(l.entry, {k.entry : k \in dels[r]})
    /\ Command(r)
    /\ dels' = [dels EXCEPT ![r] = @ \ {l}]
    /\ \/ Found(l.entry) # {} /\ Works
          /\ live' = live \ Found(l.entry)
          /\ UNCHANGED <<ok, errors>>
       \/ Refused(r) /\ IF Found(l.entry) # {} THEN Fails ELSE Works
    /\ UNCHANGED adds

Add(r) ==
  \E e \in adds[r] :
    LET Accepted == Resolves(e) /\ ~\E l \in live : l.entry = e
    IN
    /\ dels[r] = {}
    /\ RulesFirst(e, adds[r])
    /\ Command(r)
    /\ adds' = [adds EXCEPT ![r] = @ \ {e}]
    /\ \/ Accepted /\ Works
          /\ live' = live \cup {[entry |-> e, tagged |-> TRUE]}
          /\ UNCHANGED <<ok, errors>>
       \/ Refused(r) /\ IF Accepted THEN Fails ELSE Works
    /\ UNCHANGED dels

\* deploy_firewall_config looks at the list only when the apply has failed.
Reported(r) == IF ok[r] THEN {} ELSE errors

Answer(r) ==
  /\ pc[r] = "commands" /\ dels[r] = {} /\ adds[r] = {}
  /\ pc' = [pc EXCEPT ![r] = "idle"]
  /\ reply' = Reported(r)
  /\ want' = [want EXCEPT ![r] = {}] /\ seen' = [seen EXCEPT ![r] = {}]
  /\ ok' = [ok EXCEPT ![r] = TRUE]
  /\ UNCHANGED <<live, named, errors, dels, adds, silent, mutated, history,
                 nArrivals, nFaults, nRestarts>>

\* The agent restarts, its container with or without the file it had.
Restart ==
  /\ nRestarts < MaxRestarts /\ nRestarts' = nRestarts + 1
  /\ pc' = [r \in Req |-> "idle"]
  /\ dels' = [r \in Req |-> {}] /\ adds' = [r \in Req |-> {}]
  /\ errors' = {}
  /\ named' \in {named, {}}
  /\ want' = [r \in Req |-> {}] /\ seen' = [r \in Req |-> {}]
  /\ ok' = [r \in Req |-> TRUE]
  /\ solo' = Nil /\ goal' = {} /\ reply' = {}
  /\ silent' = FALSE /\ mutated' = FALSE /\ exact' = FALSE
  /\ UNCHANGED <<live, nArrivals, nFaults>>

\* The agent waits for requests.
RoutingIdle == Running = {} /\ UNCHANGED routingVars

RoutingNext ==
  \/ \E r \in Req :
       \/ \E w \in SUBSET Entry, malformed \in BOOLEAN : Arrive(r, w, malformed)
       \/ ReadRules(r) \/ ReadRoutes(r)
       \/ Delete(r) \/ Add(r) \/ Answer(r)
  \/ Restart
  \/ RoutingIdle

RoutingSpec == RoutingInit /\ [][RoutingNext]_routingVars

-----------------------------------------------------------------------------
(* Properties.                                                             *)

\* An apply has been answered that ran alone.
Answered == solo # Nil /\ Running = {}

\* "mutates only the delta": an apply that ran alone and reports no error has
\* installed exactly its rows, whatever interleaved applies, failures and
\* restarts had left behind, unless it dropped a row or could not read.
CleanAnswer == Answered /\ reply = {} /\ ~silent => Installed(goal)

\* "Re-applying the same payload therefore produces zero mutation commands": so
\* it does for rows that are all read back as they were written, unless one of
\* our tables holds entries of others.
Quiet ==
  /\ Answered /\ exact /\ ~silent
  /\ \A e \in goal : ReadBack(e)
  /\ \A e \in Foreign : e \in goal \/ TableOf[e] \notin named
  => ~mutated

\* "so a previous apply's errors never leak into this call's report".
OwnErrors == Answered => reply \subseteq {solo} \X Kind

\* "may be removed when it is no longer in the payload" is said of what
\* viswall has tagged: entries of others stay, in its tables as elsewhere.
ForeignKept ==
  [][{l \in live : ~l.tagged} = {l \in live' : ~l.tagged}]_routingVars
=============================================================================
