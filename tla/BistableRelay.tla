---------------------------- MODULE BistableRelay ----------------------------
(***************************************************************************)
(* The bistable relay of esp_mqtt_relay: one pin sets its contact, another *)
(* one resets it, and the contact keeps its place without power.           *)
(* relayState is what the program believes; it starts again with every     *)
(* restart, the contact does not.                                          *)
(***************************************************************************)
EXTENDS Sketch

VARIABLES
  relayState,
  pin,          (* the pin that is high: "on", "off" or "none"               *)
  contact,      (* the contact of the relay                                  *)
  pulsed        (* history: the relay was pulsed to its end since the start  *)

relay == <<relayState, pin, contact, pulsed>>

RelayTypeOK ==
  /\ relayState \in BOOLEAN /\ pin \in {"on", "off", "none"}
  /\ contact \in BOOLEAN /\ pulsed \in BOOLEAN

RelayInit ==
  /\ relayState = FALSE /\ pin = "none" /\ pulsed = FALSE
  /\ contact \in IF HasRelay THEN BOOLEAN ELSE {FALSE}

\* The relay is pulsed only when the program believes it has to move.
Moves(c) == (c = "relay on" /\ ~relayState) \/ (c = "relay off" /\ relayState)

PulseStarts ==
  \E c \in {"relay on", "relay off"} :
    /\ HasRelay /\ Moves(c)
    /\ Starts(c, "pulsing")
    /\ pin' = IF c = "relay on" THEN "on" ELSE "off"
    /\ UNCHANGED <<relayState, contact, pulsed>>

\* Seeded fault: relayState keeps its value.
PulseEnds_Forgotten ==
  /\ At("pulsing")
  /\ contact' = (pin = "on") /\ pin' = "none" /\ pulsed' = TRUE
  /\ UNCHANGED relayState
  /\ Replies

\* After delay(5) the contact has moved.
PulseEnds ==
  /\ At("pulsing")
  /\ contact' = (pin = "on") /\ relayState' = (pin = "on")
  /\ pin' = "none" /\ pulsed' = TRUE
  /\ Replies

AnswersRelay ==
  \E c \in RelayCommands :
    HasRelay /\ ~Moves(c) /\ Serves(c) /\ UNCHANGED relay

\* relayState starts again as FALSE and the pins are inputs; power lost in a pulse
\* may find the contact moved or not.
RelayLosesPower ==
  /\ contact' \in IF pin = "none" THEN {contact} ELSE {contact, pin = "on"}
  /\ relayState' = FALSE /\ pin' = "none" /\ pulsed' = FALSE

----------------------------------------------------------------------------
\* What the program says of the relay is right once it has pulsed it, and before
\* that it is at least not wrong in saying that the relay is on.
RelayKnown ==
  /\ relayState => contact
  /\ pulsed => relayState = contact
=============================================================================
