------------------------------- MODULE Bounce -------------------------------
(***************************************************************************)
(* The debouncer of libraries/Bounce2: update() samples a pin whenever the *)
(* sketch comes round, and read(), rose() and fell() report what it made   *)
(* of the samples.  The library is compiled with one of three methods.     *)
(*                                                                         *)
(* Time is counted in ticks.  elapsed is millis() - previous_millis, which *)
(* is compared with the interval only, so it saturates there.              *)
(***************************************************************************)
EXTENDS Naturals

CONSTANT Interval   (* interval_millis, in ticks *)

ASSUME IntervalAssumption == Interval \in Nat

VARIABLES
  method,     (* chosen when the library is compiled                         *)
  pin,        (* the level of the pin: TRUE is HIGH                          *)
  debounced,  (* the bit DEBOUNCED_STATE, what read() returns                *)
  unstable,   (* the bit UNSTABLE_STATE                                      *)
  changed,    (* the bit STATE_CHANGED                                       *)
  elapsed,
  sample,     (* history: the level the last update() or attach() read       *)
  steady,     (* history: ticks since the samples have shown that level      *)
  quiet       (* history: ticks since the debounced level changed            *)

bits == <<debounced, unstable, changed, elapsed>>
history == <<sample, steady, quiet>>
bounceVars == <<method, pin, bits, history>>

Methods == {"stable", "prompt", "lock-out"}

Older(a) == IF a < Interval THEN a + 1 ELSE a

BounceOK ==
  /\ method \in Methods
  /\ pin \in BOOLEAN /\ debounced \in BOOLEAN /\ unstable \in BOOLEAN
  /\ changed \in BOOLEAN /\ sample \in BOOLEAN
  /\ elapsed \in 0..Interval
  /\ steady \in 0..Interval
  /\ quiet \in 0..Interval

\* attach() reads the pin.  With lock-out it sets previous_millis to 0, so the
\* time since the start of the program counts.
BounceInit ==
  /\ method \in Methods
  /\ pin \in BOOLEAN
  /\ debounced = pin /\ unstable = pin /\ changed = FALSE
  /\ elapsed \in IF method = "lock-out" THEN 0..Interval ELSE {0}
  /\ sample = pin /\ steady = 0 /\ quiet = Interval

----------------------------------------------------------------------------
(* update(): a change is a sample that differs from the debounced level    *)
(* when the interval has passed.                                           *)

\* Seeded fault: one unit too early.
TimeUp_OneShort == elapsed + 1 >= Interval

TimeUp == elapsed >= Interval
Differs == pin # debounced

Flip(flip) ==
  /\ changed' = flip
  /\ debounced' = IF flip THEN pin ELSE debounced

\* Seeded fault: a level that differs restarts the clock at each sample.
UpdateStable_Restarts ==
  /\ unstable' = pin
  /\ Flip(pin = unstable /\ TimeUp /\ Differs)
  /\ elapsed' = IF Differs THEN 0 ELSE elapsed

\* Default: a reading that differs from the last one restarts the clock.
UpdateStable ==
  /\ unstable' = pin
  /\ Flip(pin = unstable /\ TimeUp /\ Differs)
  /\ elapsed' = IF pin # unstable \/ (TimeUp /\ Differs) THEN 0 ELSE elapsed

\* BOUNCE_WITH_PROMPT_DETECTION: a change is accepted at once when the reading
\* has not changed for the interval before.
UpdatePrompt ==
  /\ unstable' = pin
  /\ Flip(TimeUp /\ Differs)
  /\ elapsed' = IF pin # unstable THEN 0 ELSE elapsed

\* Seeded fault: a change does not restart the clock.
UpdateLockOut_NoReset ==
  /\ Flip(TimeUp /\ Differs)
  /\ UNCHANGED <<unstable, elapsed>>

\* BOUNCE_LOCK_OUT: everything is ignored for the interval after a change.
UpdateLockOut ==
  /\ Flip(TimeUp /\ Differs)
  /\ elapsed' = IF TimeUp /\ Differs THEN 0 ELSE elapsed
  /\ UNCHANGED unstable

\* What the samples have been, seen from outside.
Record ==
  /\ sample' = pin
  /\ steady' = IF pin # sample THEN 0 ELSE steady
  /\ quiet' = IF debounced' # debounced THEN 0 ELSE quiet

Update ==
  /\ \/ method = "stable" /\ UpdateStable
     \/ method = "prompt" /\ UpdatePrompt
     \/ method = "lock-out" /\ UpdateLockOut
  /\ Record
  /\ UNCHANGED <<method, pin>>

rose == debounced /\ changed
fell == ~debounced /\ changed

\* The switch moves or bounces at any time, also between two samples.
Switch ==
  /\ pin' = ~pin
  /\ UNCHANGED <<method, bits, history>>

Tick ==
  /\ elapsed' = Older(elapsed)
  /\ steady' = Older(steady)
  /\ quiet' = Older(quiet)
  /\ UNCHANGED <<method, pin, debounced, unstable, changed, sample>>

BounceNext == Update \/ Switch \/ Tick

BounceSpec == BounceInit /\ [][BounceNext]_bounceVars

----------------------------------------------------------------------------
(* Properties                                                              *)

\* A bounce never comes through: with the default method a change is reported
\* only after every sample of a whole interval has shown the new level, and with
\* prompt detection only after an interval without any change of the samples.
ChangeIsStable ==
  [][debounced' # debounced /\ method # "lock-out" =>
       /\ steady >= Interval
       /\ method = "stable" => sample = debounced']_bounceVars

\* Two changes are at least an interval apart, with the default method and with
\* lock-out (with prompt detection the second may follow the first at once).
ChangesApart ==
  [][debounced' # debounced /\ method # "prompt" => quiet >= Interval]_bounceVars

\* A switch that comes to rest is seen, whatever the bouncing before.
SwitchIsSeen ==
  \A level \in BOOLEAN : <>[](pin = level) => <>[](debounced = level)

\* previous_millis is never older than the run of samples it stands for or than
\* the last change, for all three ways update() sets it.  This is the inductive
\* invariant behind the two properties above.
ClockInv ==
  /\ BounceOK
  /\ method # "lock-out" => unstable = sample /\ elapsed <= steady
  /\ method # "prompt" => elapsed <= quiet
=============================================================================
