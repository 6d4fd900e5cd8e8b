---------------------------- MODULE BillingTimer ----------------------------
(***************************************************************************)
(* What the billing timer promises (spec.md 4.2): a pausable stopwatch.   *)
(* The wall clock only moves forward; the billed time grows with it while *)
(* the timer runs and stands still while it is paused.  Pausing a paused  *)
(* timer or resuming a running one changes nothing.                       *)
(***************************************************************************)
EXTENDS Integers

CONSTANTS Start, TickSizes

VARIABLES clock, running, billed

vars == <<clock, running, billed>>

Init ==
  /\ clock = Start
  /\ running = TRUE
  /\ billed = 0

Tick(d) ==
  /\ clock' = clock + d
  /\ billed' = IF running THEN billed + d ELSE billed
  /\ UNCHANGED running

Pause ==
  /\ running
  /\ running' = FALSE
  /\ UNCHANGED <<clock, billed>>

Resume ==
  /\ ~running
  /\ running' = TRUE
  /\ UNCHANGED <<clock, billed>>

Next == (\E d \in TickSizes : Tick(d)) \/ Pause \/ Resume

Spec == Init /\ [][Next]_vars
=============================================================================
