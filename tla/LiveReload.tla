----------------------------- MODULE LiveReload -----------------------------
(***************************************************************************)
(* What the dev server promises an author: builds follow the edits in      *)
(* order and are never ahead of them, and the answer to a browser is a     *)
(* build at least as new as the one that was published when it asked.      *)
(*                                                                         *)
(* Edits are counted; a build, and the page made from it, is the number of *)
(* edits that had been made when the build began to read.                  *)
(***************************************************************************)
EXTENDS Naturals

CONSTANT Tabs

VARIABLES
    source,   \* edits made
    built,    \* the last published build
    waiting,  \* the tabs whose request is not answered yet
    asked,    \* asked[t] : the build published when tab t last asked
    shown     \* shown[t] : the build tab t shows

vars == <<source, built, waiting, asked, shown>>

Init ==
    /\ source = 0
    /\ built = 0
    /\ waiting = {}
    /\ asked = [t \in Tabs |-> 0]
    /\ shown = [t \in Tabs |-> 0]

Edit ==
    /\ source' = source + 1
    /\ UNCHANGED <<built, waiting, asked, shown>>

Build ==
    /\ built' \in built .. source
    /\ UNCHANGED <<source, waiting, asked, shown>>

Ask(t) ==
    /\ t \notin waiting
    /\ waiting' = waiting \cup {t}
    /\ asked' = [asked EXCEPT ![t] = built]
    /\ UNCHANGED <<source, built, shown>>

Show(t) ==
    /\ t \in waiting
    /\ waiting' = waiting \ {t}
    /\ \E stamp \in asked[t] .. source : shown' = [shown EXCEPT ![t] = stamp]
    /\ UNCHANGED <<source, built, asked>>

Next ==
    \/ Edit
    \/ Build
    \/ \E t \in Tabs : Ask(t) \/ Show(t)

Spec == Init /\ [][Next]_vars
=============================================================================
