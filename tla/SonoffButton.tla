---------------------------- MODULE SonoffButton ----------------------------
(***************************************************************************)
(* What the Sonoff sketch relies on when it puts two debouncers on one     *)
(* button: one with a short interval, whose falls toggle the relay, and    *)
(* one with a long interval, whose falls open the configuration portal.    *)
(* The slow one only ever follows the fast one, so a long press is always  *)
(* a short press first.                                                    *)
(***************************************************************************)

VARIABLES
  fast,   (* debouncer2.read(), TRUE is HIGH: the button is up *)
  slow    (* debouncer.read()                                  *)

Init == fast \in BOOLEAN /\ slow = fast

\* One round of the sketch's loop.
Round ==
  /\ fast' \in BOOLEAN
  /\ slow' \in {slow, fast'}

vars == <<fast, slow>>

Spec == Init /\ [][Round]_vars
=============================================================================
