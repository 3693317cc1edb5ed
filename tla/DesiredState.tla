----------------------------- MODULE DesiredState -----------------------------
(***************************************************************************)
(* What the gateway promises of an agent: the database keeps the desired    *)
(* state, the agent holds values that were committed there, and a request   *)
(* that is told of success has reached the agent.  Requests share the       *)
(* agent's file: one may overwrite what another has written, before it is   *)
(* loaded.                                                                  *)
(*                                                                          *)
(* The value of a cell is the number of its commits.                        *)
(***************************************************************************)
EXTENDS Naturals

CONSTANTS Req, Cell

VARIABLES
  db,     \* the committed version of every cell
  held,   \* the version the agent has
  file,   \* the version it has written to its file
  owed,   \* the versions a request has committed and not been answered for
  met,    \* requests whose versions, or newer ones, the agent has had
  lost,   \* requests whose versions the file had before older ones
  told    \* the last answer of each request

vars == <<db, held, file, owed, met, lost, told>>

Nothing == [c \in Cell |-> 0]
Covers(v, w) == \A c \in Cell : w[c] <= v[c]

Init ==
  /\ db \in [Cell -> Nat] /\ held = db /\ file = db
  /\ owed = [q \in Req |-> Nothing]
  /\ met = {} /\ lost = {}
  /\ told = [q \in Req |-> "nothing"]

Commit(q) ==
  /\ db' \in [Cell -> Nat]
  /\ \A c \in Cell : db'[c] \in {db[c], db[c] + 1}
  /\ owed' = [owed EXCEPT ![q] =
                [c \in Cell |-> IF db'[c] # db[c] THEN db'[c] ELSE 0]]
  /\ met' = met \ {q} /\ lost' = lost \ {q}
  /\ UNCHANGED <<held, file, told>>

Write ==
  /\ file' \in [Cell -> Nat] /\ Covers(db, file')
  /\ lost' = lost \cup {q \in Req : Covers(file, owed[q]) /\ ~Covers(file', owed[q])}
  /\ UNCHANGED <<db, held, owed, met, told>>

Deliver ==
  /\ held' \in [Cell -> Nat] /\ Covers(db, held')
  /\ met' = met \cup {q \in Req : Covers(held', owed[q])}
  /\ UNCHANGED <<db, file, owed, lost, told>>

Answer(q, word) ==
  /\ word = "ok" => q \in met \cup lost \/ owed[q] = Nothing
  /\ told' = [told EXCEPT ![q] = word]
  /\ owed' = [owed EXCEPT ![q] = Nothing]
  /\ met' = met \ {q} /\ lost' = lost \ {q}
  /\ UNCHANGED <<db, held, file>>

Next ==
  \/ \E q \in Req : Commit(q)
  \/ Write \/ Deliver
  \/ \E q \in Req, word \in {"ok", "queued", "error"} : Answer(q, word)

Spec == Init /\ [][Next]_vars
===============================================================================
