------------------------- MODULE ConfigPortalProofs -------------------------
(* What TLAPS proves of the configuration portal of WiFiManager, for every  *)
(* credentials, timeouts and parameter: type correctness, that the portal   *)
(* ends in time, which network the radio is left with, and which networks   *)
(* the page lists.                                                          *)
EXTENDS ConfigPortal, SequenceTheorems, WellFoundedInduction, TLAPS

\* Limits and attempts belong to the portal, and a page is listed only by it.
PortalInv ==
  /\ pc \in {"serving", "pausing"} => caller = "portal"
  /\ InPortal => ap # "off"
  /\ pc # "serving" => NoPage

LEMMA Constants ==
  /\ Good \subseteq Credentials /\ None \notin Credentials
  /\ \A c \in Configs : c.portalTimeout \in Nat /\ c.connectTimeout \in Nat
  /\ Texts \subseteq Nat /\ Length \in Nat /\ ScanTime \in Nat /\ Pause \in Nat /\ MaxQueue \in Nat
BY PortalAssumption DEF PortalAssumption, ConfigType

----------------------------------------------------------------------------
(* Type correctness.                                                       *)

\* The type invariant in three parts: times, the histories, and the rest.
TimesTyped ==
  /\ config \in Configs
  /\ elapsed \in 0..(Limit + 1) /\ waited \in Nat
FlagsTyped ==
  formTaken \in BOOLEAN /\ saved \in BOOLEAN /\ bailed \in BOOLEAN /\ result \in BOOLEAN
PlacesTyped ==
  /\ pc \in {"app", "serving", "pausing", "joining", "answered"}
  /\ caller \in {"autoConnect", "portal"}
  /\ entered \in Credentials \cup {None} /\ value \in 0..Length
  /\ status \in Status
  /\ queue \in Seq(Forms) /\ Len(queue) <= MaxQueue
  /\ ap \in {"off", "open", "protected"}
  /\ station \in Credentials \cup {None} /\ link \in Status
  /\ inRange \subseteq Good

LEMMA TypeSplit == TimesTyped /\ FlagsTyped /\ PlacesTyped /\ PortalInv => TypeOK
<1> SUFFICES ASSUME TimesTyped, FlagsTyped, PlacesTyped, PortalInv PROVE TypeOK
  OBVIOUS
<1>1. <<formTaken, saved, bailed, result>> \in BOOLEAN \X BOOLEAN \X BOOLEAN \X BOOLEAN
  BY DEF FlagsTyped
<1>2. (pc \in {"serving", "pausing"} => ap # "off") /\ (pc \in {"app", "joining"} => NoPage)
  BY DEF PortalInv, InPortal
<1> QED
  BY <1>1, <1>2 DEF TypeOK, TimesTyped, PlacesTyped

LEMMA Limits ==
  ASSUME config \in Configs
  PROVE  /\ Limit \in Nat /\ 0 \in 0..(Limit + 1)
         /\ \A d \in Nat : elapsed \in 0..(Limit + 1) => After(d) \in 0..(Limit + 1)
<1>1. Limit \in Nat
  BY Constants DEF Limit
<1> QED
  BY <1>1 DEF After

LEMMA TimesKept ==
  ASSUME TimesTyped, [Next]_vars
  PROVE  TimesTyped'
<1>1. config' = config /\ Limit' = Limit
  <2>1. config' = config
    BY DEF Next, Program, StatusRead, FirstAttemptEnds, PortalTimesOut, TakeForm, PauseEnds,
           AttemptSucceeds, AttemptFails, Calls, autoConnect, startConfigPortal, resetSettings,
           Radio, RadioSettles, RadioReturns, NetworkMoves, Tick, handleWifi, OtherPage,
           handleReset, PowerFails, Restart, UserSends, portal, vars
  <2> QED
    BY <2>1 DEF Limit
<1>2. elapsed' \in {0, elapsed, After(1), After(ScanTime)}
  BY DEF Next, Program, StatusRead, FirstAttemptEnds, PortalTimesOut, TakeForm, PauseEnds,
         AttemptSucceeds, AttemptFails, Calls, autoConnect, startConfigPortal, resetSettings,
         Radio, RadioSettles, RadioReturns, NetworkMoves, Tick, handleWifi, OtherPage,
         handleReset, PowerFails, Restart, Returns, UserSends, portal, vars
<1>3. waited' \in {0, waited, waited + 1}
  BY DEF Next, Program, StatusRead, FirstAttemptEnds, PortalTimesOut, TakeForm, PauseEnds,
         AttemptSucceeds, AttemptFails, Calls, autoConnect, startConfigPortal, resetSettings,
         Radio, RadioSettles, RadioReturns, NetworkMoves, Tick, handleWifi, OtherPage,
         handleReset, PowerFails, Restart, ConnectWifi, UserSends, portal, vars
<1> QED
  BY <1>1, <1>2, <1>3, Limits, Constants DEF TimesTyped

LEMMA FlagsKept ==
  ASSUME FlagsTyped, [Next]_vars
  PROVE  FlagsTyped'
<1>1. BailsOut \in BOOLEAN /\ (link = "connected") \in BOOLEAN
  BY DEF BailsOut
<1>2. CASE Program
  BY <1>1, <1>2 DEF Program, StatusRead, FirstAttemptEnds, PortalTimesOut, TakeForm, PauseEnds,
     AttemptSucceeds, AttemptFails, Returns, ConnectWifi, history, FlagsTyped
<1>3. CASE Calls
  BY <1>1, <1>3 DEF Calls, autoConnect, startConfigPortal, resetSettings, NewCall, ConnectWifi, FlagsTyped
<1>4. CASE Radio \/ Tick \/ handleWifi \/ OtherPage \/ (\E form \in Forms : UserSends(form)) \/ UNCHANGED vars
  BY <1>4 DEF Radio, RadioSettles, RadioReturns, NetworkMoves, Tick, handleWifi, OtherPage,
     UserSends, history, vars, FlagsTyped
<1>5. CASE handleReset \/ PowerFails
  BY <1>5 DEF handleReset, PowerFails, Restart, FlagsTyped
<1> QED
  BY <1>2, <1>3, <1>4, <1>5 DEF Next

LEMMA FormsTyped ==
  ASSUME queue \in Seq(Forms), queue # <<>>
  PROVE  /\ Head(queue) \in Forms /\ Tail(queue) \in Seq(Forms) /\ Len(Tail(queue)) < Len(queue)
         /\ Head(queue).who \in Credentials \cup {None} /\ Head(queue).text \in Nat
<1>1. Head(queue) \in Forms /\ Tail(queue) \in Seq(Forms) /\ Len(Tail(queue)) < Len(queue)
  OBVIOUS
<1> QED
  BY <1>1, Constants DEF Forms

LEMMA JoinTyped ==
  ASSUME PlacesTyped, NEW who \in Credentials \cup {None}, ConnectWifi(who)
  PROVE  /\ pc' \in {"joining", "answered"} /\ status' \in Status /\ link' \in Status
         /\ station' \in Credentials \cup {None}
BY DEF PlacesTyped, ConnectWifi, Begun, Status, radio

LEMMA PlacesKept ==
  ASSUME PlacesTyped, [Next]_vars
  PROVE  PlacesTyped'
<1>0. 0 \in 0..Length /\ <<>> \in Seq(Forms) /\ Len(<<>>) <= MaxQueue
  BY Constants
<1>1. CASE StatusRead \/ FirstAttemptEnds \/ AttemptFails
  BY <1>1 DEF StatusRead, FirstAttemptEnds, AttemptFails, Opened, AccessPoint, PlacesTyped, Status,
     portal, web, radio
<1>2. CASE PortalTimesOut \/ AttemptSucceeds
  BY <1>0, <1>2 DEF PortalTimesOut, AttemptSucceeds, Returns, PlacesTyped, Status, radio
<1>3. CASE TakeForm
  <2>1. value' \in 0..Length
    <3>1. Head(queue).text \in Nat /\ value' = Stored(Head(queue).text) /\ value \in 0..Length
      BY <1>3, FormsTyped DEF TakeForm, PlacesTyped
    <3> QED
      BY <3>1, Constants DEF Stored
  <2>2. /\ queue' = Tail(queue) /\ queue' \in Seq(Forms) /\ Len(queue') <= MaxQueue
        /\ entered' \in Credentials \cup {None}
    <3>1. queue' = Tail(queue) /\ queue # <<>> /\ entered' = Head(queue).who
      BY <1>3 DEF TakeForm
    <3> QED
      BY <3>1, FormsTyped, Constants DEF PlacesTyped
  <2> QED
    BY <1>3, <2>1, <2>2 DEF TakeForm, PlacesTyped, radio
<1>4. CASE PauseEnds
  BY <1>4, JoinTyped DEF PauseEnds, PlacesTyped, web
<1>5. CASE autoConnect
  BY <1>5, JoinTyped DEF autoConnect, PlacesTyped, web
<1>6. CASE startConfigPortal \/ resetSettings
  BY <1>6 DEF startConfigPortal, resetSettings, Opened, AccessPoint, PlacesTyped, Status,
     portal, web, radio
<1>7. CASE Radio \/ Tick \/ handleWifi \/ OtherPage
  BY <1>7 DEF Radio, RadioSettles, RadioReturns, NetworkMoves, Tick, handleWifi, OtherPage,
     PlacesTyped, Status, portal, web, radio
<1>8. CASE handleReset \/ PowerFails
  BY <1>0, <1>8 DEF handleReset, PowerFails, Restart, PlacesTyped, Status
<1>9. ASSUME NEW form \in Forms, UserSends(form)
      PROVE  PlacesTyped'
  <2>1. queue' \in Seq(Forms) /\ Len(queue') <= MaxQueue
    BY <1>9, Constants DEF UserSends, PlacesTyped
  <2> QED
    BY <1>9, <2>1 DEF UserSends, PlacesTyped, portal, radio
<1>10. CASE UNCHANGED vars
  BY <1>10 DEF vars, portal, web, radio, PlacesTyped
<1> QED
  BY <1>1, <1>2, <1>3, <1>4, <1>5, <1>6, <1>7, <1>8, <1>9, <1>10 DEF Next, Program, Calls

LEMMA PortalKept ==
  ASSUME PlacesTyped, PortalInv, [Next]_vars
  PROVE  PortalInv'
<1>1. Opened => ap' # "off"
  BY DEF Opened, AccessPoint
<1>2. CASE StatusRead \/ FirstAttemptEnds \/ AttemptFails
  BY <1>1, <1>2 DEF StatusRead, FirstAttemptEnds, AttemptFails, PortalInv, InPortal, NoPage, web, portal
<1>3. CASE PortalTimesOut \/ AttemptSucceeds \/ handleReset \/ PowerFails
  BY <1>3 DEF PortalTimesOut, AttemptSucceeds, Returns, handleReset, PowerFails, Restart,
     PortalInv, InPortal, NoPage
<1>4. CASE TakeForm
  BY <1>4 DEF TakeForm, Serving, PortalInv, InPortal, NoPage
<1>5. CASE PauseEnds \/ autoConnect
  BY <1>5 DEF PauseEnds, autoConnect, ConnectWifi, PortalInv, InPortal, NoPage, web
<1>6. CASE startConfigPortal \/ resetSettings
  BY <1>1, <1>6 DEF startConfigPortal, resetSettings, PortalInv, InPortal, NoPage, portal, web
<1>7. CASE Radio \/ Tick \/ handleWifi \/ OtherPage \/ (\E form \in Forms : UserSends(form))
           \/ UNCHANGED vars
  BY <1>7 DEF Radio, RadioSettles, RadioReturns, NetworkMoves, Tick, handleWifi, OtherPage, Serving,
     UserSends, PortalInv, InPortal, NoPage, portal, web, vars
<1> QED
  BY <1>2, <1>3, <1>4, <1>5, <1>6, <1>7 DEF Next, Program, Calls

LEMMA PortalInvariant == Spec => [](TimesTyped /\ FlagsTyped /\ PlacesTyped /\ PortalInv)
<1>1. Init => TimesTyped /\ FlagsTyped /\ PlacesTyped /\ PortalInv
  <2> SUFFICES ASSUME Init PROVE TimesTyped /\ FlagsTyped /\ PlacesTyped /\ PortalInv
    OBVIOUS
  <2>1. TimesTyped
    BY Limits DEF Init, TimesTyped
  <2>2. FlagsTyped
    BY DEF Init, FlagsTyped
  <2>3. PlacesTyped
    <3>1. <<>> \in Seq(Forms) /\ Len(<<>>) <= MaxQueue /\ 0 \in 0..Length
      BY Constants
    <3> QED
      BY <3>1 DEF Init, PlacesTyped, Status
  <2>4. PortalInv
    BY DEF Init, PortalInv, InPortal, NoPage
  <2> QED
    BY <2>1, <2>2, <2>3, <2>4
<1>2. TimesTyped /\ FlagsTyped /\ PlacesTyped /\ PortalInv /\ [Next]_vars
        => (TimesTyped /\ FlagsTyped /\ PlacesTyped /\ PortalInv)'
  BY TimesKept, FlagsKept, PlacesKept, PortalKept
<1> QED
  BY <1>1, <1>2, PTL DEF Spec

\* Every variable of the portal keeps its type; the text of the parameter fits in
\* its buffer (handleWifiSave()), and the pages are served by an access point that is on.
THEOREM TypeCorrect == Spec => []TypeOK
BY PortalInvariant, TypeSplit, PTL

----------------------------------------------------------------------------
(* The portal ends in time.                                                *)

\* Where the program can be at which time: the loop looks at its timeout only
\* when it takes a form, and a pause and an attempt follow.
TimeInv ==
  InPortal /\ config.portalTimeout # 0 /\ config.connectTimeout # 0 =>
    /\ pc = "serving" => elapsed <= Limit
    /\ pc = "pausing" => elapsed < config.portalTimeout + waited /\ waited <= Pause
    /\ pc = "joining" => /\ elapsed < config.portalTimeout + Pause + waited
                         /\ waited <= config.connectTimeout + 1
    /\ pc = "answered" => elapsed <= config.portalTimeout + Pause + config.connectTimeout

\* Both timeouts are set, in numbers.
Periods ==
  /\ config.portalTimeout \in Nat \ {0} /\ config.connectTimeout \in Nat \ {0}
  /\ elapsed \in Nat /\ waited \in Nat
  /\ Limit = config.portalTimeout + ScanTime + Pause + config.connectTimeout + 1

LEMMA PeriodsTyped ==
  ASSUME TimesTyped, config.portalTimeout # 0, config.connectTimeout # 0
  PROVE  Periods
BY Constants, Limits DEF TimesTyped, Periods, Limit

LEMMA AfterIs ==
  ASSUME Periods, NEW d \in Nat, elapsed + d <= Limit
  PROVE  After(d) = elapsed + d
BY Constants DEF Periods, After

LEMMA TimeKept ==
  ASSUME TimesTyped, PlacesTyped, PortalInv, TimeInv, [Next]_vars
  PROVE  TimeInv'
<1>1. config' = config /\ Limit' = Limit
  <2>1. config' = config
    BY DEF Next, Program, StatusRead, FirstAttemptEnds, PortalTimesOut, TakeForm, PauseEnds,
           AttemptSucceeds, AttemptFails, Calls, autoConnect, startConfigPortal, resetSettings,
           Radio, RadioSettles, RadioReturns, NetworkMoves, Tick, handleWifi, OtherPage,
           handleReset, PowerFails, Restart, UserSends, portal, vars
  <2> QED
    BY <2>1 DEF Limit
<1> SUFFICES ASSUME Periods, InPortal'
             PROVE  TimeInv'
  BY <1>1, PeriodsTyped DEF TimeInv
<1>2. CASE StatusRead
  BY <1>1, <1>2, Constants DEF StatusRead, TimeInv, InPortal, Periods
<1>3. CASE FirstAttemptEnds \/ startConfigPortal
  BY <1>1, <1>3, Constants DEF FirstAttemptEnds, startConfigPortal, TimeInv, InPortal, Periods
<1>4. CASE PortalTimesOut \/ AttemptSucceeds \/ handleReset \/ PowerFails \/ autoConnect \/ resetSettings
  BY <1>4 DEF PortalTimesOut, AttemptSucceeds, Returns, handleReset, PowerFails, Restart,
     autoConnect, resetSettings, InPortal
<1>5. CASE TakeForm
  BY <1>1, <1>5, Constants DEF TakeForm, Serving, Expired, PortalInv, TimeInv, InPortal, Periods
<1>6. CASE PauseEnds
  BY <1>1, <1>6, Constants DEF PauseEnds, ConnectWifi, PortalInv, TimeInv, InPortal, Periods
<1>7. CASE AttemptFails
  BY <1>1, <1>7, Constants DEF AttemptFails, TimeInv, InPortal, Periods
<1>8. CASE Radio \/ OtherPage \/ (\E form \in Forms : UserSends(form)) \/ UNCHANGED vars
  BY <1>1, <1>8 DEF Radio, RadioSettles, RadioReturns, NetworkMoves, OtherPage, UserSends,
     TimeInv, InPortal, portal, vars
<1>9. CASE handleWifi
  <2>1. elapsed < config.portalTimeout /\ pc' = "serving"
    BY <1>9 DEF handleWifi, Serving, Expired, Periods
  <2>2. elapsed' = elapsed + ScanTime /\ elapsed' <= Limit
    BY <1>9, <2>1, AfterIs, Constants DEF handleWifi, Periods
  <2> QED
    BY <1>1, <2>1, <2>2 DEF TimeInv
<1>10. CASE Tick
  <2>1. caller = "portal" /\ pc' = pc /\ elapsed' = After(1)
    BY <1>10 DEF Tick, InPortal
  <2>2. CASE pc = "serving"
    <3>1. elapsed < config.portalTimeout
      BY <1>10, <2>2 DEF Tick, Expired, Periods
    <3>2. elapsed' <= Limit
      BY <2>1, <3>1, AfterIs, Constants DEF Periods
    <3> QED
      BY <1>1, <2>1, <2>2, <3>2 DEF TimeInv
  <2>3. CASE pc = "pausing"
    <3>1. waited < Pause /\ waited' = waited + 1 /\ elapsed < config.portalTimeout + waited
      BY <1>10, <2>1, <2>3 DEF Tick, TimeInv, InPortal, Periods
    <3>2. elapsed' = elapsed + 1
      BY <2>1, <3>1, AfterIs, Constants DEF Periods
    <3>3. elapsed' < config.portalTimeout + waited' /\ waited' <= Pause
      BY <3>1, <3>2, Constants DEF Periods
    <3> QED
      BY <1>1, <2>1, <2>3, <3>3 DEF TimeInv
  <2>4. CASE pc = "joining"
    <3>1. /\ waited <= config.connectTimeout /\ waited' = waited + 1
          /\ elapsed < config.portalTimeout + Pause + waited
      BY <1>10, <2>1, <2>4 DEF Tick, Ends, TimeInv, InPortal, Periods
    <3>2. elapsed' = elapsed + 1
      BY <2>1, <3>1, AfterIs, Constants DEF Periods
    <3>3. elapsed' < config.portalTimeout + Pause + waited' /\ waited' <= config.connectTimeout + 1
      BY <3>1, <3>2, Constants DEF Periods
    <3> QED
      BY <1>1, <2>1, <2>4, <3>3 DEF TimeInv
  <2> QED
    BY <1>10, <2>2, <2>3, <2>4 DEF Tick
<1> QED
  BY <1>2, <1>3, <1>4, <1>5, <1>6, <1>7, <1>8, <1>9, <1>10 DEF Next, Program, Calls

\* With both timeouts set the portal is left within their sum, a scan and a pause:
\* a scan or a whole attempt may begin in the last round before the timeout
\* (startConfigPortal()).
THEOREM PortalEndsInTime == Spec => []EndsInTime
<1>1. Init => TimeInv
  BY DEF Init, TimeInv, InPortal
<1>2. TimesTyped /\ PlacesTyped /\ TimeInv => EndsInTime
  <2> SUFFICES ASSUME TimesTyped, TimeInv, InPortal, config.portalTimeout # 0, config.connectTimeout # 0,
                      pc \in {"serving", "pausing", "joining", "answered"}
               PROVE  elapsed <= Limit
    BY DEF EndsInTime, InPortal, PlacesTyped
  <2>1. Periods
    BY PeriodsTyped
  <2> QED
    BY <2>1, Constants DEF TimeInv, Periods
<1> QED
  BY <1>1, <1>2, TimeKept, PortalInvariant, PTL DEF Spec

----------------------------------------------------------------------------
(* The network the radio is left with.                                     *)

\* During an attempt for a form, and after the call it ended, the radio has the
\* network of that form.
FormInv ==
  /\ saved => pc = "app"
  /\ saved \/ (pc \in {"joining", "answered"} /\ caller = "portal") =>
       (~bailed /\ entered # None => station = entered)

LEMMA FormKept ==
  ASSUME PortalInv, FormInv, [Next]_vars
  PROVE  FormInv'
<1>1. CASE StatusRead \/ FirstAttemptEnds \/ AttemptFails
  BY <1>1 DEF StatusRead, FirstAttemptEnds, AttemptFails, FormInv, radio, history, portal
<1>2. CASE PortalTimesOut \/ AttemptSucceeds \/ TakeForm
  BY <1>2 DEF PortalTimesOut, AttemptSucceeds, Returns, TakeForm, Serving, FormInv, radio, PortalInv
<1>3. CASE PauseEnds
  BY <1>3 DEF PauseEnds, ConnectWifi, Begun, BailsOut, FormInv
<1>4. CASE Calls \/ handleReset \/ PowerFails
  BY <1>4 DEF Calls, autoConnect, startConfigPortal, resetSettings, NewCall, ConnectWifi,
     handleReset, PowerFails, Restart, FormInv
<1>5. CASE Radio \/ Tick \/ handleWifi \/ OtherPage \/ (\E form \in Forms : UserSends(form))
           \/ UNCHANGED vars
  BY <1>5 DEF Radio, RadioSettles, RadioReturns, NetworkMoves, Tick, handleWifi, OtherPage, UserSends,
     FormInv, radio, history, portal, vars
<1> QED
  BY <1>1, <1>2, <1>3, <1>4, <1>5 DEF Next, Program

\* A call that ends by an attempt for a form leaves the radio with the network of
\* that form, unless there was a connection already when the attempt began
\* (startConfigPortal(), connectWifi()).
THEOREM EnteredIsJoined == Spec => []JoinsTheEntered
<1>1. Init => FormInv
  BY DEF Init, FormInv
<1>2. FormInv => JoinsTheEntered
  BY DEF FormInv, JoinsTheEntered
<1> QED
  BY <1>1, <1>2, FormKept, PortalInvariant, PTL DEF Spec

----------------------------------------------------------------------------
(* The page of networks: what its loops compute, for every scan.           *)
(* A recursive function is chosen among the solutions of its equation, so  *)
(* that nothing is known of it until a solution is shown to exist; then    *)
(* what it holds after each turn follows by induction.                     *)

NatLess == OpToRel(<, Nat)

LEMMA NatLessIs ==
  /\ IsWellFoundedOn(NatLess, Nat)
  /\ \A x, y \in Nat : <<x, y>> \in NatLess <=> x < y
<1>1. IsWellFoundedOn(NatLess, Nat)
  BY NatLessThanWellFounded DEF NatLess
<1>2. \A x, y \in Nat : <<x, y>> \in NatLess <=> x < y
  BY DEF NatLess, OpToRel
<1> QED
  BY <1>1, <1>2

LEMMA Least ==
  ASSUME NEW T \in SUBSET Nat, T # {}
  PROVE  \E n \in T : \A m \in T : n <= m
<1>1. PICK n \in T : \A m \in T : ~(<<m, n>> \in NatLess)
  <2>1. IsWellFoundedOn(NatLess, Nat) /\ T \subseteq Nat
    BY NatLessIs
  <2> QED
    BY <2>1, WFMin
<1>2. n \in Nat /\ \A m \in T : m \in Nat
  OBVIOUS
<1>3. \A m \in T : ~(m < n)
  BY <1>1, <1>2, NatLessIs
<1> QED
  BY <1>2, <1>3

\* Induction over the turns of a loop, by a set in place of a predicate.
LEMMA EveryTurn ==
  ASSUME NEW N \in Nat, NEW S, 0 \in S, \A n \in 1..N : n - 1 \in S => n \in S
  PROVE  \A n \in 0..N : n \in S
<1> DEFINE T == {n \in 0..N : n \notin S}
<1>1. SUFFICES ASSUME T # {} PROVE FALSE
  OBVIOUS
<1>2. T \in SUBSET Nat
  OBVIOUS
<1>3. PICK n \in T : \A m \in T : n <= m
  <2> HIDE DEF T
  <2> QED
    BY <1>1, <1>2, Least
<1>4. n \in 0..N /\ n \notin S /\ n # 0
  BY <1>3
<1>5. n \in 1..N /\ n - 1 \in 0..N /\ ~(n <= n - 1)
  BY <1>4
<1>6. n - 1 \in S
  BY <1>3, <1>5
<1> QED
  BY <1>4, <1>5, <1>6

\* The values of a loop of N turns that starts with a, where g makes the next one.
IsLoop(f, N, V, a, g) ==
  f \in [0..N -> V] /\ f[0] = a /\ \A n \in 1..N : f[n] = g[<<n, f[n - 1]>>]

LEMMA LoopExists ==
  ASSUME NEW N \in Nat, NEW V, NEW a \in V, NEW g \in [(1..N) \X V -> V]
  PROVE  \E f : IsLoop(f, N, V, a, g)
<1> DEFINE Runs(h, n) == h[0] = a /\ \A k \in 1..n : h[k] = g[<<k, h[k - 1]>>]
           S == {n \in 0..N : \E h \in [0..N -> V] : Runs(h, n)}
<1>1. 0 \in S
  <2> DEFINE h == [k \in 0..N |-> a]
  <2>1. h \in [0..N -> V] /\ h[0] = a /\ 0 \in 0..N
    OBVIOUS
  <2> HIDE DEF h
  <2>2. \A k \in 1..0 : h[k] = g[<<k, h[k - 1]>>]
    OBVIOUS
  <2> QED
    BY <2>1, <2>2
<1>2. ASSUME NEW n \in 1..N, n - 1 \in S
      PROVE  n \in S
  <2>1. PICK h \in [0..N -> V] : Runs(h, n - 1)
    BY <1>2
  <2>2. n - 1 \in 0..N /\ h[n - 1] \in V /\ g[<<n, h[n - 1]>>] \in V
    OBVIOUS
  <2> DEFINE t == [k \in 0..N |-> IF k = n THEN g[<<n, h[n - 1]>>] ELSE h[k]]
  <2>3. t \in [0..N -> V]
    BY <2>2
  <2>4. t[n] = g[<<n, h[n - 1]>>] /\ \A k \in 0..N : k # n => t[k] = h[k]
    OBVIOUS
  <2>5. t[0] = a
    BY <2>1, <2>4
  <2>6. ASSUME NEW k \in 1..n
        PROVE  t[k] = g[<<k, t[k - 1]>>]
    <3>1. k \in 0..N /\ k - 1 \in 0..N /\ k - 1 # n
      OBVIOUS
    <3>2. t[k - 1] = h[k - 1]
      BY <2>4, <3>1
    <3>3. CASE k = n
      BY <2>4, <3>2, <3>3
    <3>4. CASE k # n
      <4>1. k \in 1..(n - 1)
        BY <3>4
      <4> QED
        BY <2>1, <2>4, <3>1, <3>2, <3>4, <4>1
    <3> QED
      BY <3>3, <3>4
  <2> HIDE DEF t
  <2> QED
    BY <2>3, <2>5, <2>6
<1>3. N \in S
  <2> HIDE DEF S
  <2>1. N \in 0..N
    OBVIOUS
  <2> QED
    BY <1>1, <1>2, <2>1, EveryTurn
<1> QED
  BY <1>3 DEF IsLoop

----------------------------------------------------------------------------
(* The sorting.                                                            *)

\* Scans of a length; what the loops keep: whom a sequence lists, and how far it is
\* in order, place i being settled against those up to j.
Sized(N) == [1..N -> Network]
Members(s, N) == {s[k] : k \in 1..N}
Ordered(s, i, N) == \A k \in 1..i, l \in 1..N : k < l => s[k].rssi >= s[l].rssi
Settled(s, i, j) == \A l \in (i + 1)..j : s[i].rssi >= s[l].rssi

LEMMA SizedIs ==
  ASSUME NEW N \in Nat, NEW s \in Sized(N)
  PROVE  /\ s \in Seq(Network) /\ Len(s) = N
         /\ \A k \in 1..N : s[k] \in Network /\ s[k].rssi \in Int
<1>1. \A k \in 1..N : s[k] \in Network /\ s[k].rssi \in Int
  BY DEF Sized, Network
<1>2. s \in Seq(Network)
  BY SeqDef DEF Sized
<1>3. DOMAIN s = 1..N /\ Len(s) \in Nat /\ DOMAIN s = 1..Len(s)
  BY <1>2, LenProperties DEF Sized
<1> QED
  BY <1>1, <1>2, <1>3

LEMMA SwapKeeps ==
  ASSUME NEW N \in Nat, NEW s \in Sized(N), NEW i \in 1..N, NEW j \in 1..N, i < j
  PROVE  /\ Swapped(s, i, j) \in Sized(N)
         /\ Members(Swapped(s, i, j), N) = Members(s, N)
         /\ Ordered(s, i - 1, N) => Ordered(Swapped(s, i, j), i - 1, N)
         /\ Settled(s, i, j - 1) => Settled(Swapped(s, i, j), i, j)
<1>1. \A k \in 1..N : s[k] \in Network /\ s[k].rssi \in Int
  BY SizedIs
<1>2. CASE ~(s[j].rssi > s[i].rssi)
  <2>1. Swapped(s, i, j) = s
    BY <1>2 DEF Swapped
  <2>2. ASSUME Settled(s, i, j - 1) PROVE Settled(s, i, j)
    <3>1. ASSUME NEW l \in (i + 1)..j PROVE s[i].rssi >= s[l].rssi
      <4>1. CASE l = j
        BY <1>1, <1>2, <4>1
      <4>2. CASE l # j
        <5>1. l \in (i + 1)..(j - 1)
          BY <4>2
        <5> QED
          BY <2>2, <5>1 DEF Settled
      <4> QED
        BY <4>1, <4>2
    <3> QED
      BY <3>1 DEF Settled
  <2> QED
    BY <2>1, <2>2
<1>3. CASE s[j].rssi > s[i].rssi
  <2> DEFINE t == Swapped(s, i, j)
  <2>1. t = [s EXCEPT ![i] = s[j], ![j] = s[i]]
    BY <1>3 DEF Swapped
  <2>2. /\ t \in Sized(N) /\ t[i] = s[j] /\ t[j] = s[i]
        /\ \A k \in 1..N : k # i /\ k # j => t[k] = s[k]
    BY <1>1, <2>1 DEF Sized
  <2> HIDE DEF t
  <2>3. Members(t, N) = Members(s, N)
    <3>1. ASSUME NEW k \in 1..N PROVE t[k] \in Members(s, N)
      BY <2>2 DEF Members
    <3>2. ASSUME NEW k \in 1..N PROVE s[k] \in Members(t, N)
      <4>1. \E l \in 1..N : t[l] = s[k]
        BY <2>2
      <4> QED
        BY <4>1 DEF Members
    <3> QED
      BY <3>1, <3>2 DEF Members
  <2>4. ASSUME Ordered(s, i - 1, N) PROVE Ordered(t, i - 1, N)
    <3>1. ASSUME NEW k \in 1..(i - 1), NEW l \in 1..N, k < l PROVE t[k].rssi >= t[l].rssi
      <4>1. k \in 1..N /\ k # i /\ k # j /\ k < i /\ k < j
        OBVIOUS
      <4>2. t[k] = s[k]
        BY <2>2, <4>1
      <4>3. \A m \in 1..N : k < m => s[k].rssi >= s[m].rssi
        BY <2>4 DEF Ordered
      <4>4. CASE l = i
        BY <2>2, <4>1, <4>2, <4>3, <4>4
      <4>5. CASE l = j
        BY <2>2, <4>1, <4>2, <4>3, <4>5
      <4>6. CASE l # i /\ l # j
        BY <2>2, <3>1, <4>2, <4>3, <4>6
      <4> QED
        BY <4>4, <4>5, <4>6
    <3> QED
      BY <3>1 DEF Ordered
  <2>5. ASSUME Settled(s, i, j - 1) PROVE Settled(t, i, j)
    <3>1. ASSUME NEW l \in (i + 1)..j PROVE t[i].rssi >= t[l].rssi
      <4>1. CASE l = j
        BY <1>1, <1>3, <2>2, <4>1
      <4>2. CASE l # j
        <5>1. l \in (i + 1)..(j - 1) /\ l \in 1..N /\ l # i
          BY <4>2
        <5>2. t[l] = s[l] /\ s[i].rssi >= s[l].rssi
          BY <2>2, <2>5, <4>2, <5>1 DEF Settled
        <5>3. s[i].rssi \in Int /\ s[j].rssi \in Int /\ s[l].rssi \in Int
          BY <1>1, <5>1
        <5> QED
          BY <1>3, <2>2, <5>2, <5>3
      <4> QED
        BY <4>1, <4>2
    <3> QED
      BY <3>1 DEF Settled
  <2> QED
    BY <2>2, <2>3, <2>4, <2>5 DEF t
<1> QED
  BY <1>2, <1>3

\* The loop over j.
IsInner(f, s, i) ==
  f = [j \in 0..Len(s) |-> IF j <= i THEN s ELSE Swapped(f[j - 1], i, j)]

LEMMA InnerIs ==
  ASSUME NEW N \in Nat, NEW s \in Sized(N), NEW i \in 1..N
  PROVE  \E f : /\ IsInner(f, s, i) /\ Compared(s, i) = f[N]
<1> DEFINE V == Sized(N)
           g == [p \in (1..N) \X V |-> IF p[1] <= i THEN s ELSE Swapped(p[2], i, p[1])]
<1>1. g \in [(1..N) \X V -> V]
  <2>1. ASSUME NEW p \in (1..N) \X V
        PROVE  (IF p[1] <= i THEN s ELSE Swapped(p[2], i, p[1])) \in V
    <3>1. p[1] \in 1..N /\ p[2] \in Sized(N)
      OBVIOUS
    <3> QED
      BY <3>1, SwapKeeps
  <2> QED
    BY <2>1
<1>2. PICK f : f \in [0..N -> V] /\ f[0] = s /\ \A n \in 1..N : f[n] = g[<<n, f[n - 1]>>]
  <2>1. s \in V
    OBVIOUS
  <2> HIDE DEF V, g
  <2>2. \E f : IsLoop(f, N, V, s, g)
    BY <1>1, <2>1, LoopExists, Zenon
  <2> QED
    BY <2>2 DEF IsLoop
<1>3. ASSUME NEW n \in 0..N
      PROVE  f[n] = IF n <= i THEN s ELSE Swapped(f[n - 1], i, n)
  <2>1. CASE n = 0
    BY <1>2, <2>1
  <2>2. CASE n # 0
    <3>1. n \in 1..N /\ n - 1 \in 0..N /\ f[n - 1] \in V
      BY <1>2, <2>2
    <3>2. <<n, f[n - 1]>> \in (1..N) \X V
      BY <3>1
    <3> QED
      BY <1>2, <3>1, <3>2
  <2> QED
    BY <2>1, <2>2
<1>4. Len(s) = N
  BY SizedIs
<1>5. IsInner(f, s, i)
  <2> HIDE DEF V
  <2> QED
    BY <1>2, <1>3, <1>4 DEF IsInner
<1>6. IsInner((CHOOSE h : IsInner(h, s, i)), s, i)
  BY <1>5
<1>7. Compared(s, i) = (CHOOSE h : IsInner(h, s, i))[N]
  BY <1>4 DEF Compared, IsInner
<1> QED
  BY <1>6, <1>7

LEMMA ComparedIs ==
  ASSUME NEW N \in Nat, NEW s \in Sized(N), NEW i \in 1..N, Ordered(s, i - 1, N)
  PROVE  /\ Compared(s, i) \in Sized(N) /\ Members(Compared(s, i), N) = Members(s, N)
         /\ Ordered(Compared(s, i), i, N)
<1>1. PICK f : IsInner(f, s, i) /\ Compared(s, i) = f[N]
  BY InnerIs
<1>2. \A n \in 0..N : f[n] = IF n <= i THEN s ELSE Swapped(f[n - 1], i, n)
  BY <1>1, SizedIs DEF IsInner
<1> DEFINE Right(t, n) == /\ t \in Sized(N) /\ Members(t, N) = Members(s, N)
                         /\ Ordered(t, i - 1, N) /\ Settled(t, i, n)
           S == {n \in 0..N : Right(f[n], n)}
<1>3. ASSUME NEW n \in 0..N, n <= i
      PROVE  n \in S
  <2>1. f[n] = s
    BY <1>2, <1>3
  <2>2. Settled(s, i, n)
    BY <1>3 DEF Settled
  <2> QED
    BY <2>1, <2>2
<1>4. 0 \in S
  BY <1>3
<1>5. ASSUME NEW n \in 1..N, n - 1 \in S
      PROVE  n \in S
  <2>1. CASE n <= i
    BY <1>3, <2>1
  <2>2. CASE ~(n <= i)
    <3>1. n \in 0..N /\ f[n] = Swapped(f[n - 1], i, n) /\ i < n
      BY <1>2, <2>2
    <3>2. Right(f[n - 1], n - 1)
      BY <1>5
    <3>3. Right(Swapped(f[n - 1], i, n), n)
      BY <3>1, <3>2, SwapKeeps
    <3> QED
      BY <3>1, <3>3
  <2> QED
    BY <2>1, <2>2
<1>6. Right(f[N], N)
  <2>1. N \in S
    <3> HIDE DEF S
    <3>1. N \in 0..N
      OBVIOUS
    <3> QED
      BY <1>4, <1>5, <3>1, EveryTurn
  <2> QED
    BY <2>1
<1>7. ASSUME NEW t \in Sized(N), Ordered(t, i - 1, N), Settled(t, i, N)
      PROVE  Ordered(t, i, N)
  <2>1. ASSUME NEW k \in 1..i, NEW l \in 1..N, k < l PROVE t[k].rssi >= t[l].rssi
    <3>1. CASE k = i
      <4>1. l \in (i + 1)..N
        BY <2>1, <3>1
      <4> QED
        BY <1>7, <3>1, <4>1 DEF Settled
    <3>2. CASE k # i
      <4>1. k \in 1..(i - 1)
        BY <3>2
      <4> QED
        BY <1>7, <2>1, <4>1 DEF Ordered
    <3> QED
      BY <3>1, <3>2
  <2> QED
    BY <2>1 DEF Ordered
<1> QED
  BY <1>1, <1>6, <1>7

\* The loop over i.
IsOuter(f, s) ==
  f = [i \in 0..Len(s) |-> IF i = 0 THEN s ELSE Compared(f[i - 1], i)]

\* What Compared() makes of a scan of the same length, in order so far or not.
LEMMA ComparedSized ==
  ASSUME NEW N \in Nat, NEW s \in Sized(N), NEW i \in 1..N
  PROVE  Compared(s, i) \in Sized(N)
<1>1. PICK f : IsInner(f, s, i) /\ Compared(s, i) = f[N]
  BY InnerIs
<1>2. \A n \in 0..N : f[n] = IF n <= i THEN s ELSE Swapped(f[n - 1], i, n)
  BY <1>1, SizedIs DEF IsInner
<1> DEFINE S == {n \in 0..N : f[n] \in Sized(N)}
<1>3. 0 \in S
  BY <1>2
<1>4. ASSUME NEW n \in 1..N, n - 1 \in S
      PROVE  n \in S
  BY <1>2, <1>4, SwapKeeps
<1>5. N \in S
  <2> HIDE DEF S
  <2>1. N \in 0..N
    OBVIOUS
  <2> QED
    BY <1>3, <1>4, <2>1, EveryTurn
<1> QED
  BY <1>1, <1>5

LEMMA OuterIs ==
  ASSUME NEW N \in Nat, NEW s \in Sized(N)
  PROVE  \E f : IsOuter(f, s) /\ ByStrength(s) = f[N]
<1> DEFINE V == Sized(N)
           g == [p \in (1..N) \X V |-> Compared(p[2], p[1])]
<1>1. g \in [(1..N) \X V -> V]
  <2>1. ASSUME NEW p \in (1..N) \X V
        PROVE  Compared(p[2], p[1]) \in V
    BY ComparedSized
  <2> QED
    BY <2>1
<1>2. PICK f : f \in [0..N -> V] /\ f[0] = s /\ \A n \in 1..N : f[n] = g[<<n, f[n - 1]>>]
  <2>1. s \in V
    OBVIOUS
  <2> HIDE DEF V, g
  <2>2. \E f : IsLoop(f, N, V, s, g)
    BY <1>1, <2>1, LoopExists, Zenon
  <2> QED
    BY <2>2 DEF IsLoop
<1>3. ASSUME NEW n \in 0..N
      PROVE  f[n] = IF n = 0 THEN s ELSE Compared(f[n - 1], n)
  <2>1. CASE n = 0
    BY <1>2, <2>1
  <2>2. CASE n # 0
    <3>1. n \in 1..N /\ n - 1 \in 0..N /\ f[n - 1] \in V
      BY <1>2, <2>2
    <3>2. <<n, f[n - 1]>> \in (1..N) \X V
      BY <3>1
    <3> QED
      BY <1>2, <3>1, <3>2
  <2> QED
    BY <2>1, <2>2
<1>4. Len(s) = N
  BY SizedIs
<1>5. IsOuter(f, s)
  <2> HIDE DEF V
  <2> QED
    BY <1>2, <1>3, <1>4 DEF IsOuter
<1>6. IsOuter((CHOOSE h : IsOuter(h, s)), s)
  BY <1>5
<1>7. ByStrength(s) = (CHOOSE h : IsOuter(h, s))[N]
  BY <1>4 DEF ByStrength, IsOuter
<1> QED
  BY <1>6, <1>7

\* The whole list, the strongest first.
LEMMA ByStrengthIs ==
  ASSUME NEW N \in Nat, NEW s \in Sized(N)
  PROVE  /\ ByStrength(s) \in Sized(N) /\ Members(ByStrength(s), N) = Members(s, N)
         /\ Ordered(ByStrength(s), N, N)
<1>1. PICK f : IsOuter(f, s) /\ ByStrength(s) = f[N]
  BY OuterIs
<1>2. \A n \in 0..N : f[n] = IF n = 0 THEN s ELSE Compared(f[n - 1], n)
  BY <1>1, SizedIs DEF IsOuter
<1> DEFINE Right(t, n) == t \in Sized(N) /\ Members(t, N) = Members(s, N) /\ Ordered(t, n, N)
           S == {n \in 0..N : Right(f[n], n)}
<1>3. 0 \in S
  <2>1. f[0] = s /\ Ordered(s, 0, N)
    BY <1>2 DEF Ordered
  <2> QED
    BY <2>1
<1>4. ASSUME NEW n \in 1..N, n - 1 \in S
      PROVE  n \in S
  <2>1. n \in 0..N /\ f[n] = Compared(f[n - 1], n) /\ Right(f[n - 1], n - 1)
    BY <1>2, <1>4
  <2>2. Right(Compared(f[n - 1], n), n)
    BY <2>1, ComparedIs
  <2> QED
    BY <2>1, <2>2
<1>5. N \in S
  <2> HIDE DEF S
  <2>1. N \in 0..N
    OBVIOUS
  <2> QED
    BY <1>3, <1>4, <2>1, EveryTurn
<1> QED
  BY <1>1, <1>5

----------------------------------------------------------------------------
(* What is written of it.                                                  *)

\* u shows what is at the given places up to n, all of it and in the same order.
Shows(u, s, places, n) ==
  /\ u \in Seq(Network)
  /\ \A a \in 1..Len(u) : \E k \in places : k <= n /\ u[a] = s[k]
  /\ \A a, b \in 1..Len(u) :
       a < b => \E k, l \in places : k < l /\ l <= n /\ u[a] = s[k] /\ u[b] = s[l]
  /\ \A k \in places : k <= n => \E a \in 1..Len(u) : u[a] = s[k]

LEMMA AppendIs ==
  ASSUME NEW u \in Seq(Network), NEW e \in Network
  PROVE  /\ Append(u, e) \in Seq(Network) /\ Len(Append(u, e)) = Len(u) + 1
         /\ Append(u, e)[Len(u) + 1] = e
         /\ \A a \in 1..Len(u) : Append(u, e)[a] = u[a]
OBVIOUS

LEMMA ShowsMore ==
  ASSUME NEW N \in Nat, NEW s \in Sized(N), NEW places \in SUBSET (1..N),
         NEW n \in 1..N, NEW u, Shows(u, s, places, n - 1)
  PROVE  Shows(IF n \in places THEN Append(u, s[n]) ELSE u, s, places, n)
<1>1. \A k \in places : k \in 1..N /\ (k <= n <=> k = n \/ k <= n - 1)
  OBVIOUS
<1>2. CASE n \notin places
  <2>1. \A k \in places : k <= n <=> k <= n - 1
    BY <1>1, <1>2
  <2>2. \A a \in 1..Len(u) : \E k \in places : k <= n /\ u[a] = s[k]
    BY <2>1 DEF Shows
  <2>3. \A a, b \in 1..Len(u) :
          a < b => \E k, l \in places : k < l /\ l <= n /\ u[a] = s[k] /\ u[b] = s[l]
    BY <2>1 DEF Shows
  <2>4. u \in Seq(Network) /\ \A k \in places : k <= n => \E a \in 1..Len(u) : u[a] = s[k]
    BY <2>1 DEF Shows
  <2>5. Shows(u, s, places, n)
    BY <2>2, <2>3, <2>4 DEF Shows
  <2> QED
    BY <1>2, <2>5
<1>3. CASE n \in places
  <2> DEFINE v == Append(u, s[n])
             L == Len(u)
  <2>1. u \in Seq(Network) /\ s[n] \in Network /\ L \in Nat
    BY SizedIs DEF Shows
  <2>2. /\ v \in Seq(Network) /\ Len(v) = L + 1 /\ v[L + 1] = s[n]
        /\ \A a \in 1..L : v[a] = u[a]
    BY <2>1, AppendIs
  <2> HIDE DEF v, L
  <2>3. \A a \in 1..(L + 1) : a \in 1..L \/ a = L + 1
    BY <2>1
  <2>4. \A a \in 1..L : \E k \in places : k <= n - 1 /\ v[a] = s[k]
    BY <2>2 DEF Shows, L
  <2>5. \A a \in 1..(L + 1) : \E k \in places : k <= n /\ v[a] = s[k]
    BY <1>1, <1>3, <2>2, <2>3, <2>4
  <2>6. ASSUME NEW a \in 1..(L + 1), NEW b \in 1..(L + 1), a < b
        PROVE  \E k, l \in places : k < l /\ l <= n /\ v[a] = s[k] /\ v[b] = s[l]
    <3>1. a \in 1..L
      BY <2>1, <2>6
    <3>2. CASE b \in 1..L
      <4>1. \E k, l \in places : k < l /\ l <= n - 1 /\ u[a] = s[k] /\ u[b] = s[l]
        BY <2>6, <3>1, <3>2 DEF Shows, L
      <4> QED
        BY <1>1, <2>2, <3>1, <3>2, <4>1
    <3>3. CASE b = L + 1
      <4>1. PICK k \in places : k <= n - 1 /\ v[a] = s[k]
        BY <2>4, <3>1
      <4>2. k < n /\ n <= n
        BY <1>1, <4>1
      <4> QED
        BY <1>3, <2>2, <3>3, <4>1, <4>2
    <3> QED
      BY <2>3, <3>2, <3>3
  <2>7. ASSUME NEW k \in places, k <= n
        PROVE  \E a \in 1..(L + 1) : v[a] = s[k]
    <3>1. L + 1 \in 1..(L + 1) /\ \A a \in 1..L : a \in 1..(L + 1)
      BY <2>1
    <3>2. CASE k = n
      BY <2>2, <3>1, <3>2
    <3>3. CASE k # n
      <4>1. \E a \in 1..L : u[a] = s[k]
        BY <1>1, <2>7, <3>3 DEF Shows, L
      <4> QED
        BY <2>2, <3>1, <4>1
    <3> QED
      BY <3>2, <3>3
  <2>8. Shows(v, s, places, n)
    BY <2>2, <2>5, <2>6, <2>7 DEF Shows
  <2> QED
    BY <1>3, <2>8 DEF v
<1> QED
  BY <1>2, <1>3

IsWriting(f, s, places) ==
  f = [n \in 0..Len(s) |->
         IF n = 0 THEN <<>>
         ELSE IF n \in places THEN Append(f[n - 1], s[n]) ELSE f[n - 1]]

LEMMA WritingIs ==
  ASSUME NEW N \in Nat, NEW s \in Sized(N), NEW places
  PROVE  \E f : IsWriting(f, s, places) /\ Written(s, places) = f[N]
<1> DEFINE V == Seq(Network)
           g == [p \in (1..N) \X V |-> IF p[1] \in places THEN Append(p[2], s[p[1]]) ELSE p[2]]
<1>1. g \in [(1..N) \X V -> V]
  <2>1. ASSUME NEW p \in (1..N) \X V
        PROVE  (IF p[1] \in places THEN Append(p[2], s[p[1]]) ELSE p[2]) \in V
    <3>1. p[1] \in 1..N /\ p[2] \in Seq(Network) /\ s[p[1]] \in Network
      BY SizedIs
    <3> QED
      BY <3>1, AppendIs
  <2> QED
    BY <2>1
<1>2. PICK f : f \in [0..N -> V] /\ f[0] = <<>> /\ \A n \in 1..N : f[n] = g[<<n, f[n - 1]>>]
  <2>1. <<>> \in V
    OBVIOUS
  <2> HIDE DEF V, g
  <2>2. \E f : IsLoop(f, N, V, <<>>, g)
    BY <1>1, <2>1, LoopExists, Zenon
  <2> QED
    BY <2>2 DEF IsLoop
<1>3. ASSUME NEW n \in 0..N
      PROVE  f[n] = IF n = 0 THEN <<>>
                    ELSE IF n \in places THEN Append(f[n - 1], s[n]) ELSE f[n - 1]
  <2>1. CASE n = 0
    BY <1>2, <2>1
  <2>2. CASE n # 0
    <3>1. n \in 1..N /\ n - 1 \in 0..N /\ f[n - 1] \in V
      BY <1>2, <2>2
    <3>2. <<n, f[n - 1]>> \in (1..N) \X V
      BY <3>1
    <3> QED
      BY <1>2, <2>2, <3>1, <3>2
  <2> QED
    BY <2>1, <2>2
<1>4. Len(s) = N
  BY SizedIs
<1>5. IsWriting(f, s, places)
  <2> HIDE DEF V
  <2> QED
    BY <1>2, <1>3, <1>4 DEF IsWriting
<1>6. IsWriting((CHOOSE h : IsWriting(h, s, places)), s, places)
  BY <1>5
<1>7. Written(s, places) = (CHOOSE h : IsWriting(h, s, places))[N]
  BY <1>4 DEF Written, IsWriting
<1> QED
  BY <1>6, <1>7

LEMMA WrittenIs ==
  ASSUME NEW N \in Nat, NEW s \in Sized(N), NEW places \in SUBSET (1..N)
  PROVE  Shows(Written(s, places), s, places, N)
<1>1. PICK f : IsWriting(f, s, places) /\ Written(s, places) = f[N]
  BY WritingIs
<1>2. \A n \in 0..N : f[n] = IF n = 0 THEN <<>>
                            ELSE IF n \in places THEN Append(f[n - 1], s[n]) ELSE f[n - 1]
  BY <1>1, SizedIs DEF IsWriting
<1> DEFINE S == {n \in 0..N : Shows(f[n], s, places, n)}
<1>3. 0 \in S
  <2>1. f[0] = <<>> /\ \A k \in places : ~(k <= 0)
    BY <1>2
  <2>2. Shows(<<>>, s, places, 0)
    BY <2>1 DEF Shows
  <2> QED
    BY <2>1, <2>2
<1>4. ASSUME NEW n \in 1..N, n - 1 \in S
      PROVE  n \in S
  <2>1. /\ n \in 0..N /\ Shows(f[n - 1], s, places, n - 1)
        /\ f[n] = IF n \in places THEN Append(f[n - 1], s[n]) ELSE f[n - 1]
    BY <1>2, <1>4
  <2> QED
    BY <2>1, ShowsMore
<1>5. N \in S
  <2> HIDE DEF S
  <2>1. N \in 0..N
    OBVIOUS
  <2> QED
    BY <1>3, <1>4, <2>1, EveryTurn
<1> QED
  BY <1>1, <1>5

----------------------------------------------------------------------------
(* The page.                                                               *)

\* The page is the list of the scan it was made from.
PageInv == scan \in Seq(Network) /\ page = Listed(scan)

\* The places of the sorted scan that are written.
Places(s) == {n \in 1..Len(s) : /\ config.removeDuplicates => n \notin Struck(s)
                                /\ Clear(s[n].rssi)}

LEMMA ListedIs ==
  ASSUME NEW N \in Nat, NEW r \in Sized(N)
  PROVE  \E s \in Sized(N) : /\ Members(s, N) = Members(r, N) /\ Ordered(s, N, N)
                             /\ Len(s) = N /\ Places(s) \subseteq 1..N
                             /\ Shows(Listed(r), s, Places(s), N)
<1> DEFINE s == ByStrength(r)
<1>1. s \in Sized(N) /\ Members(s, N) = Members(r, N) /\ Ordered(s, N, N)
  BY ByStrengthIs
<1>2. Listed(r) = Written(s, Places(s))
  BY DEF Listed, Places
<1> HIDE DEF s
<1>3. Len(s) = N /\ Places(s) \subseteq 1..N
  BY <1>1, SizedIs DEF Places
<1>4. Shows(Written(s, Places(s)), s, Places(s), N)
  BY <1>1, <1>3, WrittenIs
<1> QED
  BY <1>1, <1>2, <1>3, <1>4

LEMMA NothingListed == <<>> \in Seq(Network) /\ Listed(<<>>) = <<>>
<1>1. <<>> \in Sized(0)
  BY DEF Sized
<1>2. PICK s \in Sized(0) : Places(s) \subseteq 1..0 /\ Shows(Listed(<<>>), s, Places(s), 0)
  BY <1>1, ListedIs
<1>3. Listed(<<>>) \in Seq(Network) /\ \A a \in 1..Len(Listed(<<>>)) : FALSE
  BY <1>2 DEF Shows
<1> QED
  BY <1>3

LEMMA PageKept ==
  ASSUME PageInv, [Next]_vars
  PROVE  PageInv'
<1>1. config' = config
  BY DEF Next, Program, StatusRead, FirstAttemptEnds, PortalTimesOut, TakeForm, PauseEnds,
         AttemptSucceeds, AttemptFails, Calls, autoConnect, startConfigPortal, resetSettings,
         Radio, RadioSettles, RadioReturns, NetworkMoves, Tick, handleWifi, OtherPage,
         handleReset, PowerFails, Restart, UserSends, portal, vars
<1>2. \/ scan' = scan /\ page' = page
      \/ scan' = <<>> /\ page' = <<>>
      \/ scan' \in ScanLists /\ page' = Listed(scan)'
  <2>1. CASE handleWifi
    <3>1. page' = Listed(scan')
      BY <2>1 DEF handleWifi
    <3> QED
      BY <1>1, <2>1, <3>1 DEF handleWifi, Listed, Clear
  <2>2. CASE ~handleWifi
    BY <2>2 DEF Next, Program, StatusRead, FirstAttemptEnds, PortalTimesOut, TakeForm, PauseEnds,
       AttemptSucceeds, AttemptFails, Calls, autoConnect, startConfigPortal, resetSettings,
       Radio, RadioSettles, RadioReturns, NetworkMoves, Tick, OtherPage,
       handleReset, PowerFails, Restart, Returns, UserSends, web, vars
  <2> QED
    BY <2>1, <2>2
<1>3. Listed(scan)' = Listed(scan')
  BY <1>1 DEF Listed, Clear
<1> QED
  BY <1>2, <1>3, NothingListed, PortalAssumption DEF PageInv, PortalAssumption

LEMMA FirstOfName ==
  ASSUME NEW N \in Nat, NEW s \in Sized(N), NEW m \in 1..N, Len(s) = N
  PROVE  \E n \in 1..m : s[n].ssid = s[m].ssid /\ n \notin Struck(s)
<1> DEFINE T == {n \in 1..m : s[n].ssid = s[m].ssid}
<1>1. m \in T /\ T \in SUBSET Nat
  OBVIOUS
<1>2. PICK n \in T : \A k \in T : n <= k
  <2> HIDE DEF T
  <2> QED
    BY <1>1, Least
<1>3. ASSUME n \in Struck(s) PROVE FALSE
  <2>1. PICK i \in 1..(n - 1) : s[i].ssid = s[n].ssid
    BY <1>3 DEF Struck
  <2>2. i \in T /\ ~(n <= i)
    BY <2>1
  <2> QED
    BY <1>2, <2>2
<1> QED
  BY <1>2, <1>3

LEMMA PageOfScan ==
  ASSUME NEW r \in Seq(Network), config.removeDuplicates \in BOOLEAN
  PROVE  /\ \A a, b \in 1..Len(Listed(r)) : a < b => Listed(r)[a].rssi >= Listed(r)[b].rssi
         /\ config.removeDuplicates =>
              \A a, b \in 1..Len(Listed(r)) : Listed(r)[a].ssid = Listed(r)[b].ssid => a = b
         /\ \A k \in 1..Len(r) :
              (/\ \A i \in 1..Len(r) : r[i].ssid = r[k].ssid => r[i].rssi <= r[k].rssi
               /\ config.minimumQuality < getRSSIasQuality(r[k].rssi))
                => \E a \in 1..Len(Listed(r)) : Listed(r)[a] = r[k]
<1> DEFINE N == Len(r)
           u == Listed(r)
<1>1. N \in Nat /\ r \in Sized(N)
  BY LenProperties DEF Sized
<1> HIDE DEF N
<1>2. PICK s \in Sized(N) : /\ Members(s, N) = Members(r, N) /\ Ordered(s, N, N)
                            /\ Len(s) = N /\ Places(s) \subseteq 1..N
                            /\ Shows(u, s, Places(s), N)
  BY <1>1, ListedIs
<1>3. \A k \in 1..N : s[k] \in Network /\ s[k].rssi \in Int /\ r[k] \in Network /\ r[k].rssi \in Int
  BY <1>1, SizedIs
<1> HIDE DEF u
<1>4. ASSUME NEW a \in 1..Len(u), NEW b \in 1..Len(u), a < b
      PROVE  /\ u[a].rssi >= u[b].rssi
             /\ config.removeDuplicates => u[a].ssid # u[b].ssid
  <2>1. PICK k \in Places(s), l \in Places(s) : k < l /\ u[a] = s[k] /\ u[b] = s[l]
    BY <1>2, <1>4 DEF Shows
  <2>2. k \in 1..N /\ l \in 1..N
    BY <1>2
  <2>3. s[k].rssi >= s[l].rssi
    BY <1>2, <2>1, <2>2 DEF Ordered
  <2>4. ASSUME config.removeDuplicates PROVE s[k].ssid # s[l].ssid
    <3>1. l \notin Struck(s) /\ k \in 1..(l - 1)
      BY <2>1, <2>2, <2>4 DEF Places
    <3> QED
      BY <1>2, <2>2, <3>1 DEF Struck
  <2> QED
    BY <2>1, <2>3, <2>4
<1>5. ASSUME NEW k \in 1..N, \A i \in 1..N : r[i].ssid = r[k].ssid => r[i].rssi <= r[k].rssi,
             config.minimumQuality < getRSSIasQuality(r[k].rssi)
      PROVE  \E a \in 1..Len(u) : u[a] = r[k]
  <2>1. PICK m \in 1..N : s[m] = r[k]
    BY <1>2 DEF Members
  <2>2. PICK n \in 1..m : s[n].ssid = s[m].ssid /\ n \notin Struck(s)
    BY <1>2, FirstOfName
  <2>3. n \in 1..N /\ (n = m \/ n < m)
    BY <1>1
  <2>4. s[n].rssi >= s[m].rssi
    BY <1>2, <1>3, <2>3 DEF Ordered
  <2>5. PICK i \in 1..N : r[i] = s[n]
    BY <1>2, <2>3 DEF Members
  <2>6. s[n].rssi <= s[m].rssi
    BY <1>5, <2>1, <2>2, <2>5
  <2>7. s[n] = r[k]
    <3>1. s[n].rssi = s[m].rssi /\ s[n].ssid = s[m].ssid /\ s[n] \in Network /\ s[m] \in Network
      BY <1>3, <2>2, <2>3, <2>4, <2>6
    <3> QED
      BY <2>1, <3>1 DEF Network
  <2>8. n \in Places(s)
    BY <1>2, <1>5, <2>2, <2>3, <2>7 DEF Places, Clear
  <2>9. n <= N => \E a \in 1..Len(u) : u[a] = s[n]
    BY <1>2, <2>8 DEF Shows
  <2> QED
    BY <1>1, <2>3, <2>7, <2>9
<1>6. Len(u) \in Nat
  BY <1>2 DEF Shows
<1>7. \A a, b \in 1..Len(u) : a = b \/ a < b \/ b < a
  BY <1>6
<1> QED
  BY <1>4, <1>5, <1>7 DEF N, u

\* The page of networks has the strongest first, no name twice if that is asked for,
\* and every name whose strongest signal is clear enough, with that signal, whatever
\* the scan has found (handleWifi()).
THEOREM NetworksAreListed == Spec => []PageIsRight
<1>1. Init => PageInv
  BY NothingListed DEF Init, PageInv
<1>2. TimesTyped /\ PageInv => PageIsRight
  <2> SUFFICES ASSUME TimesTyped, PageInv PROVE PageIsRight
    OBVIOUS
  <2>1. config.removeDuplicates \in BOOLEAN /\ scan \in Seq(Network) /\ page = Listed(scan)
    BY PortalAssumption DEF PortalAssumption, TimesTyped, ConfigType, PageInv
  <2> QED
    BY <2>1, PageOfScan DEF PageIsRight
<1> QED
  BY <1>1, <1>2, PageKept, PortalInvariant, PTL DEF Spec
=============================================================================
