---------------------------- MODULE DoubleBuffer ----------------------------
(***************************************************************************)
(* What SketchBook promises its user: two pages, one on display.  Frames   *)
(* are drawn one after another on the hidden page; once a frame has been   *)
(* presented nothing is drawn until it is on display.                      *)
(***************************************************************************)
EXTENDS Integers

VARIABLES front,   \* the page on display
          shown,   \* frames that have been put on display
          asked,   \* frames whose display has been asked for
          drawn    \* for each page, the frame it was last drawn on for

bvars == <<front, shown, asked, drawn>>
Pages == {0, 1}

Init == front = 0 /\ shown = 0 /\ asked = 0 /\ drawn = [p \in Pages |-> -1]

Draw == /\ asked = shown
        /\ drawn' = [drawn EXCEPT ![1 - front] = shown]
        /\ UNCHANGED <<front, shown, asked>>

Present == /\ asked = shown
           /\ asked' = shown + 1
           /\ UNCHANGED <<front, shown, drawn>>

Show == /\ asked = shown + 1
        /\ shown' = asked /\ front' = 1 - front
        /\ UNCHANGED <<asked, drawn>>

Next == Draw \/ Present \/ Show

Spec     == Init /\ [][Next]_bvars
FairSpec == Spec /\ WF_bvars(Show)
=============================================================================
