---------------------------- MODULE DeadManSwitch -----------------------------
(***************************************************************************)
(* What a dead-man switch promises, whoever turns it: it is put off only on *)
(* somebody's word that the host can be reached, the word is good once, and *)
(* nobody can give it who cannot see the host; a switch that nobody puts    *)
(* off goes off after its window; and it then undoes, unless it has been    *)
(* released, or the last word is fresh.                                     *)
(***************************************************************************)
EXTENDS Naturals

CONSTANTS Window, Fresh, Off

VARIABLES
  left,      \* ticks until it goes off, or Off
  age,       \* ticks since a word was filed, at most Fresh
  word,      \* "given", "filed", or used up: "none"
  stage,     \* at "rest", or what it does since it went off
  lost,      \* what the one who gives his word would see is lost
  released   \* it is not to undo any more

vars == <<left, age, word, stage, lost, released>>

Init ==
  /\ left = Off /\ age = Fresh /\ word = "none" /\ stage = "rest"
  /\ lost = {} /\ released = FALSE

GiveWord ==
  /\ word = "none" /\ lost = {} /\ word' = "given"
  /\ UNCHANGED <<left, age, stage, lost, released>>
FileWord ==
  /\ word = "given" /\ word' = "filed" /\ age' = 0
  /\ UNCHANGED <<left, stage, lost, released>>
\* Whoever had given it is gone, or does nothing with it.
DropWord == word' = "none" /\ UNCHANGED <<left, age, stage, lost, released>>

\* It is stopped, also in the middle of what it does, by a word or by its release.
Stop ==
  /\ word = "filed" \/ released
  /\ left' = Off /\ stage' = "rest"
  /\ UNCHANGED <<age, word, lost, released>>
PutOff ==
  /\ word = "filed" /\ left = Off /\ stage = "rest"
  /\ left' = Window /\ word' = "none"
  /\ UNCHANGED <<age, stage, lost, released>>

Pass ==
  /\ left' = IF left \in {0, Off} THEN left ELSE left - 1
  /\ age' = IF age = Fresh THEN age ELSE age + 1
  /\ UNCHANGED <<word, stage, lost, released>>
GoOff ==
  /\ left = 0 /\ stage = "rest" /\ left' = Off /\ stage' = "released?"
  /\ UNCHANGED <<age, word, lost, released>>

Goto(here, next) ==
  stage = here /\ stage' = next /\ UNCHANGED <<left, age, word, lost, released>>
Ask     == ~released /\ Goto("released?", "fresh?")
Undo    == age = Fresh /\ Goto("fresh?", "undo")
GiveWay ==
  \/ released /\ Goto("released?", "rest")
  \/ age < Fresh /\ Goto("fresh?", "rest")

\* What it has undone may bring back what was lost; or it has failed.
Undone ==
  /\ stage = "undo" /\ stage' = "rest" /\ lost' \in {{}, lost}
  /\ UNCHANGED <<left, age, word, released>>

Release == released' = TRUE /\ UNCHANGED <<left, age, word, stage, lost>>
\* Things break, and are repaired.
Outside == UNCHANGED <<left, age, word, stage, released>>

Next ==
  \/ GiveWord \/ FileWord \/ DropWord \/ Stop \/ PutOff
  \/ Pass \/ GoOff \/ Ask \/ Undo \/ GiveWay \/ Undone
  \/ Release \/ Outside

Spec == Init /\ [][Next]_vars
===============================================================================
