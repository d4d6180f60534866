--------------------------- MODULE TwoDebouncers ----------------------------
(***************************************************************************)
(* The two Bounce objects of esp_mqtt_sonoff.ino, attached to one pin and  *)
(* updated one after the other in every round of loop().  The fast one,    *)
(* debouncer2, is the module Bounce this one extends; the slow one is an   *)
(* instance of it with variables of its own.  They share the pin.          *)
(* Together they implement the button of SonoffButton.                     *)
(***************************************************************************)
EXTENDS Bounce

CONSTANT SlowInterval   (* 5000 in the sketch, where Interval is 5 *)

ASSUME SlowAssumption == SlowInterval \in Nat /\ SlowInterval >= Interval

VARIABLES slowDebounced, slowUnstable, slowChanged, slowElapsed, slowSteady, slowQuiet

slowVars == <<slowDebounced, slowUnstable, slowChanged, slowElapsed, slowSteady, slowQuiet>>

Slow == INSTANCE Bounce WITH
  Interval <- SlowInterval,
  debounced <- slowDebounced, unstable <- slowUnstable, changed <- slowChanged,
  elapsed <- slowElapsed, steady <- slowSteady, quiet <- slowQuiet

BothInit == BounceInit /\ Slow!BounceInit

\* Seeded fault: loop() does not update the fast one.
UpdateBoth_SlowOnly ==
  Slow!Update /\ UNCHANGED <<debounced, unstable, changed, elapsed, steady, quiet>>

\* loop() updates both debouncers.  Their two readings of the pin, microseconds
\* apart, are taken as one: no bounce falls between them.
UpdateBoth == Update /\ Slow!Update

SwitchBoth == Switch /\ Slow!Switch
TickBoth == Tick /\ Slow!Tick

BothNext == UpdateBoth \/ SwitchBoth \/ TickBoth

allVars == <<bounceVars, slowVars>>

\* The sketch keeps calling update(), and time passes.
BothSpec ==
  BothInit /\ [][BothNext]_allVars /\ WF_allVars(UpdateBoth) /\ WF_allVars(TickBoth)

\* However the button bounces and however unevenly loop() comes round, the slow
\* debouncer only takes on a level the fast one shows, with the method the sketch is
\* compiled with (the default one).
Button == INSTANCE SonoffButton WITH fast <- debounced, slow <- slowDebounced
ImplementsButton == Button!Init /\ [][method = "stable" => [Button!Round]_Button!vars]_allVars
=============================================================================
