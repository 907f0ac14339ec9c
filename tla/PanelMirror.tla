------------------------------ MODULE PanelMirror ------------------------------
(***************************************************************************)
(* What the refresh scheduler promises its callers: the panel shows some   *)
(* content that was asked for, never goes back to an older one, and        *)
(* catches up with the last one asked for.                                 *)
(***************************************************************************)
EXTENDS Naturals

VARIABLES
    wanted,     \* the last content asked for
    shown       \* the content on the panel

mirrorVars == <<wanted, shown>>

Init == wanted = 0 /\ shown = 0

Want == wanted' = wanted + 1 /\ UNCHANGED shown

\* contents may be skipped: the freshest one matters
Show ==
    /\ shown < wanted
    /\ shown' \in (shown + 1)..wanted
    /\ UNCHANGED wanted

Next == Want \/ Show

Safe == Init /\ [][Next]_mirrorVars
Spec == Safe /\ WF_mirrorVars(Show)
=============================================================================
