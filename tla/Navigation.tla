----------------------------- MODULE Navigation -----------------------------
(***************************************************************************)
(* What the router promises to the application that navigates with it,     *)
(* with nothing said about matches, loaders or overlapping loads:          *)
(*   - the page changes only to the latest location asked for;             *)
(*   - the router calls itself idle only when that location is shown;      *)
(*   - the latest location is eventually shown, and the promise returned   *)
(*     by navigate is eventually resolved.                                 *)
(* RouterCore implements it: see ImplementsNavigation there.               *)
(***************************************************************************)
CONSTANTS
  Loc,    \* locations
  Page,   \* [Loc -> what is rendered for a location]
  Home    \* the location shown at first

VARIABLES
  target, \* the latest location asked for
  shown,  \* what is rendered
  phase,  \* "idle" or "pending"
  owed    \* a promise returned by navigate is unresolved

vars == <<target, shown, phase, owed>>

Init == target = Home /\ shown = Page[Home] /\ phase = "idle" /\ owed = FALSE

\* A navigation, a redirect, a popstate (which owes no promise) or a reload.
Request(l) ==
  /\ target' = l /\ phase' = "pending" /\ owed' \in {owed, TRUE}
  /\ UNCHANGED shown

Show ==
  /\ phase = "pending" /\ shown # Page[target]
  /\ shown' = Page[target]
  /\ UNCHANGED <<target, phase, owed>>

Fulfil == owed /\ owed' = FALSE /\ UNCHANGED <<target, shown, phase>>

Rest ==
  /\ phase = "pending" /\ shown = Page[target]
  /\ phase' = "idle"
  /\ UNCHANGED <<target, shown, owed>>

Next == (\E l \in Loc : Request(l)) \/ Show \/ Fulfil \/ Rest

Spec == Init /\ [][Next]_vars /\ WF_vars(Show) /\ WF_vars(Fulfil)
=============================================================================
