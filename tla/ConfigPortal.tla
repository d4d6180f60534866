---------------------------- MODULE ConfigPortal ----------------------------
(***************************************************************************)
(* WiFiManager: autoConnect() tries the credentials the radio remembers,   *)
(* startConfigPortal() opens an access point with a small web server until *)
(* somebody has entered credentials that work, or a timeout has passed.    *)
(*                                                                         *)
(* The program is one thread; pc says where it is:                         *)
(*   "app"       in the sketch, outside of both calls                      *)
(*   "serving"   the loop of startConfigPortal()                           *)
(*   "pausing"   its delay(2000) after a form was taken                    *)
(*   "joining"   waitForConnectResult(), with caller saying for whom       *)
(*   "answered"  the delay(100) after the status that ends the waiting     *)
(* The radio works by itself: it finishes an attempt, loses a network and  *)
(* comes back to it while the program waits or serves pages.               *)
(* Time is counted in seconds; a page or a poll takes none, a scan some.   *)
(* Credentials are pairs of a network and a password, as model values; a   *)
(* text entered for a custom parameter is its number of characters.        *)
(***************************************************************************)
EXTENDS Integers, Sequences

CONSTANTS
  Credentials,   (* what a user may enter                                    *)
  Good,          (* those a network accepts when it is in range              *)
  None,          (* an empty network name                                    *)
  Configs,       (* settings a sketch makes before its call, see ConfigType  *)
  Texts,         (* lengths of the texts a user may enter for the parameter  *)
  Length,        (* the length the parameter was declared with               *)
  ScanLists,     (* results of a scan: sequences of networks                 *)
  ScanTime,      (* time a scan takes                                        *)
  Pause,         (* delay(2000)                                              *)
  MaxQueue       (* bound on connections waiting for the web server          *)

ConfigType == [portalTimeout : Nat, connectTimeout : Nat, breakAfterConfig : BOOLEAN,
               minimumQuality : Int, removeDuplicates : BOOLEAN]
Network == [ssid : STRING, rssi : Int]

ASSUME PortalAssumption ==
  /\ Good \subseteq Credentials /\ None \notin Credentials
  /\ Configs \subseteq ConfigType
  /\ ScanLists \subseteq Seq(Network)
  /\ Texts \subseteq Nat /\ Length \in Nat
  /\ ScanTime \in Nat /\ Pause \in Nat /\ MaxQueue \in Nat

VARIABLES
  pc, caller,
  config,        (* the object's settings                                    *)
  elapsed,       (* millis() - _configPortalStart                            *)
  waited,        (* time spent in the current delay() or attempt             *)
  entered,       (* _ssid and _pass, from the last form                      *)
  value,         (* length of the custom parameter's _value                  *)
  status,        (* the status waitForConnectResult() is about to return     *)
  queue,         (* forms that wait for the web server                       *)
  scan, page,    (* the last scan and the networks the page lists for it     *)
  ap,            (* the access point: off, open or protected                 *)
  station,       (* the credentials the radio uses and remembers             *)
  link,          (* WiFi.status()                                            *)
  inRange,       (* the credentials that would work now                      *)
  formTaken,     (* history: a form was taken in this call                   *)
  saved,         (* history: _savecallback() ran in this call                *)
  bailed,        (* history: the attempt ended with "Already connected"      *)
  result         (* what the last call returned                              *)

portal  == <<config, elapsed, waited, entered, value, status>>
web     == <<queue, scan, page>>
radio   == <<station, link>>
history == <<formTaken, saved, bailed, result>>
vars    == <<pc, caller, portal, web, ap, radio, inRange, history>>

Forms  == [who : Credentials \cup {None}, text : Texts]
Status == {"idle", "trying", "missing", "refused", "connected"}
NoPage == scan = <<>>

\* Longest time in the portal with both timeouts set; elapsed stops one above.
Limit == config.portalTimeout + ScanTime + Pause + config.connectTimeout + 1
After(d) == IF elapsed + d > Limit THEN Limit + 1 ELSE elapsed + d

TypeOK ==
  /\ pc \in {"app", "serving", "pausing", "joining", "answered"}
  /\ caller \in {"autoConnect", "portal"}
  /\ config \in Configs
  /\ elapsed \in 0..(Limit + 1) /\ waited \in Nat
  /\ entered \in Credentials \cup {None} /\ value \in 0..Length
  /\ status \in Status
  /\ queue \in Seq(Forms) /\ Len(queue) <= MaxQueue
  /\ ap \in {"off", "open", "protected"}
  /\ station \in Credentials \cup {None} /\ link \in Status
  /\ inRange \subseteq Good
  /\ <<formTaken, saved, bailed, result>> \in BOOLEAN \X BOOLEAN \X BOOLEAN \X BOOLEAN
  /\ (pc \in {"serving", "pausing"} => ap # "off") /\ (pc \in {"app", "joining"} => NoPage)

Init ==
  /\ pc = "app" /\ caller = "autoConnect"
  /\ config \in Configs
  /\ elapsed = 0 /\ waited = 0
  /\ entered = None /\ value = 0 /\ status = "idle"
  /\ queue = <<>> /\ scan = <<>> /\ page = <<>>
  /\ ap = "off" /\ station = None /\ link = "idle" /\ inRange \in SUBSET Good
  /\ formTaken = FALSE /\ saved = FALSE /\ bailed = FALSE /\ result = FALSE

----------------------------------------------------------------------------
(* connectWifi()                                                           *)

\* An existing connection is taken as it is, whatever was asked for.
BailsOut == link = "connected"

\* Seeded fault: what the radio remembers goes first.
Begun_Remembered(who) == IF station = None THEN who ELSE station

\* WiFi.begin() uses and remembers what it is given; without a name it goes back
\* to what the radio remembers.
Begun(who) == IF who = None THEN station ELSE who

ConnectWifi(who) ==
  /\ waited' = 0
  /\ bailed' = BailsOut
  /\ IF BailsOut
     THEN pc' = "answered" /\ status' = "connected" /\ UNCHANGED radio
     ELSE /\ pc' = "joining" /\ UNCHANGED status
          /\ station' = Begun(who)
          /\ link' = IF Begun(who) = None THEN "idle" ELSE "trying"

\* Seeded fault: the timeout is forgotten.
Ends_NoTimeout(s) == s \in {"connected", "refused"}

\* One poll of waitForConnectResult(): the core's own ends when the radio is no
\* longer trying, the one with a timeout when it has succeeded or was refused.
Ends(s) ==
  IF config.connectTimeout = 0 THEN s # "trying"
  ELSE s \in {"connected", "refused"} \/ waited > config.connectTimeout

\* The status that was read is returned after a last delay(100).
StatusRead ==
  /\ pc = "joining" /\ Ends(link)
  /\ status' = link
  /\ pc' = "answered" /\ waited' = 0
  /\ UNCHANGED <<caller, config, elapsed, entered, value, web, ap, radio, inRange, history>>

----------------------------------------------------------------------------
(* The calls                                                               *)

NewCall == formTaken' = FALSE /\ saved' = FALSE /\ result' = FALSE

autoConnect ==
  /\ pc = "app"
  /\ caller' = "autoConnect"
  /\ ap' = "off"
  /\ NewCall
  /\ ConnectWifi(None)
  /\ UNCHANGED <<config, elapsed, entered, value, web, inRange>>

\* setupConfigPortal(): a password of the wrong length is ignored.
AccessPoint(password) == IF password = "fits" THEN "protected" ELSE "open"

Opened == \E password \in {"none", "short", "fits"} : ap' = AccessPoint(password)

startConfigPortal ==
  /\ pc = "app"
  /\ caller' = "portal"
  /\ NewCall /\ bailed' = FALSE
  /\ Opened
  /\ pc' = "serving" /\ elapsed' = 0
  /\ UNCHANGED <<config, waited, entered, value, status, web, radio, inRange>>

\* autoConnect() has its answer: it returns, or goes on to the portal.
FirstAttemptEnds ==
  /\ pc = "answered" /\ caller = "autoConnect"
  /\ IF status = "connected"
     THEN pc' = "app" /\ result' = TRUE /\ UNCHANGED <<caller, ap, elapsed>>
     ELSE /\ pc' = "serving" /\ caller' = "portal" /\ elapsed' = 0
          /\ Opened /\ UNCHANGED result
  /\ status' = "idle"
  /\ UNCHANGED <<config, waited, entered, value, web, radio, inRange, formTaken, saved, bailed>>

\* WiFi.disconnect(true): the radio forgets and is switched off.
resetSettings ==
  /\ pc = "app"
  /\ station' = None /\ link' = "idle" /\ ap' = "off"
  /\ NewCall
  /\ UNCHANGED <<pc, caller, portal, web, inRange, bailed>>

----------------------------------------------------------------------------
(* The loop of startConfigPortal()                                         *)

\* Seeded fault: a timeout that is stepped over is missed.
Expired_Exactly == config.portalTimeout # 0 /\ elapsed = config.portalTimeout

Expired == config.portalTimeout # 0 /\ elapsed >= config.portalTimeout
Serving == pc = "serving" /\ ~Expired

\* The servers are deleted, and with them whoever waits; what is returned is the
\* radio's status of this moment.
Returns(connected) ==
  /\ pc' = "app" /\ caller' = "autoConnect" /\ elapsed' = 0 /\ status' = "idle"
  /\ queue' = <<>> /\ scan' = <<>> /\ page' = <<>>
  /\ result' = connected

PortalTimesOut ==
  /\ pc = "serving" /\ Expired
  /\ Returns(link = "connected")
  /\ UNCHANGED <<config, waited, entered, value, ap, radio, inRange, formTaken, saved, bailed>>

\* Seeded fault: the text is copied whole.
Stored_Unlimited(text) == text

\* toCharArray() leaves room for the final zero in a buffer of the given size,
\* and without a buffer leaves the value alone.
Stored(text) ==
  IF Length = 0 THEN value ELSE IF text > Length - 1 THEN Length - 1 ELSE text

\* handleWifiSave(), and the head of the loop that finds connect set.
TakeForm ==
  /\ Serving /\ queue # <<>>
  /\ entered' = Head(queue).who
  /\ value' = Stored(Head(queue).text)
  /\ queue' = Tail(queue) /\ scan' = <<>> /\ page' = <<>>
  /\ formTaken' = TRUE
  /\ pc' = "pausing" /\ waited' = 0
  /\ UNCHANGED <<caller, config, elapsed, status, ap, radio, inRange, saved, bailed, result>>

PauseEnds ==
  /\ pc = "pausing" /\ waited >= Pause
  /\ ConnectWifi(entered)
  /\ UNCHANGED <<caller, config, elapsed, entered, value, web, ap, inRange, formTaken, saved, result>>

\* Whether the loop is left after an attempt, with the save callback.
Finishes == status = "connected" \/ config.breakAfterConfig

AttemptSucceeds ==
  /\ pc = "answered" /\ caller = "portal" /\ Finishes
  /\ ap' = IF status = "connected" THEN "off" ELSE ap
  /\ saved' = TRUE
  /\ Returns(link = "connected")
  /\ UNCHANGED <<config, waited, entered, value, radio, inRange, formTaken, bailed>>

AttemptFails ==
  /\ pc = "answered" /\ caller = "portal" /\ ~Finishes
  /\ pc' = "serving" /\ status' = "idle"
  /\ UNCHANGED <<caller, config, elapsed, waited, entered, value, web, ap, radio, inRange, history>>

----------------------------------------------------------------------------
(* The page of networks: handleWifi()                                      *)

getRSSIasQuality(rssi) ==
  IF rssi <= -100 THEN 0 ELSE IF rssi >= -50 THEN 100 ELSE 2 * (rssi + 100)

Swapped(s, i, j) ==
  IF s[j].rssi > s[i].rssi THEN [s EXCEPT ![i] = s[j], ![j] = s[i]] ELSE s

\* Seeded fault: each place is compared with its neighbour only.
Compared_Neighbour(s, i) == IF i < Len(s) THEN Swapped(s, i, i + 1) ELSE s

\* The loop over j > i, and the one over i: the sequence after each turn.
Compared(s, i) ==
  LET after[j \in 0..Len(s)] == IF j <= i THEN s ELSE Swapped(after[j - 1], i, j)
  IN  after[Len(s)]

ByStrength(s) ==
  LET after[i \in 0..Len(s)] == IF i = 0 THEN s ELSE Compared(after[i - 1], i)
  IN  after[Len(s)]

\* An entry is struck out when an earlier one has its name.
Struck(s) == {j \in 1..Len(s) : \E i \in 1..(j - 1) : s[i].ssid = s[j].ssid}

Clear(rssi) == config.minimumQuality = -1 \/ config.minimumQuality < getRSSIasQuality(rssi)

\* The loop that writes the page.
Written(s, places) ==
  LET after[n \in 0..Len(s)] ==
        IF n = 0 THEN <<>>
        ELSE IF n \in places THEN Append(after[n - 1], s[n]) ELSE after[n - 1]
  IN  after[Len(s)]

Listed(scanned) ==
  LET s == ByStrength(scanned)
  IN  Written(s, {n \in 1..Len(s) : /\ config.removeDuplicates => n \notin Struck(s)
                                    /\ Clear(s[n].rssi)})

handleWifi ==
  /\ Serving /\ NoPage
  /\ scan' \in ScanLists
  /\ page' = Listed(scan')
  /\ elapsed' = After(ScanTime)
  /\ UNCHANGED <<pc, caller, config, waited, entered, value, status, queue, ap, radio, inRange, history>>

\* The other pages change nothing; the browser shows one page at a time.
OtherPage ==
  /\ Serving /\ ~NoPage
  /\ scan' = <<>> /\ page' = <<>>
  /\ UNCHANGED <<pc, caller, portal, queue, ap, radio, inRange, history>>

----------------------------------------------------------------------------
(* Restarts, the user, the radio, time                                     *)

\* handleReset(), or a power failure: the radio starts again with what it
\* remembers, before the sketch asks it to.
Restart ==
  /\ pc' = "app" /\ caller' = "autoConnect"
  /\ elapsed' = 0 /\ waited' = 0 /\ entered' = None /\ value' = 0 /\ status' = "idle"
  /\ queue' = <<>> /\ scan' = <<>> /\ page' = <<>> /\ ap' = "off"
  /\ link' = IF station = None THEN "idle" ELSE "trying"
  /\ formTaken' = FALSE /\ saved' = FALSE /\ bailed' = FALSE /\ result' = FALSE
  /\ UNCHANGED <<config, station, inRange>>

handleReset == Serving /\ Restart
PowerFails  == Restart

UserSends(form) ==
  /\ pc \notin {"app"} /\ ap # "off" /\ caller = "portal" /\ Len(queue) < MaxQueue
  /\ queue' = Append(queue, form)
  /\ UNCHANGED <<pc, caller, portal, scan, page, ap, radio, inRange, history>>

\* What becomes of an attempt: wrong passwords are refused, missing networks
\* looked for further.
RadioSettles ==
  /\ link = "trying"
  /\ link' = IF station \in inRange THEN "connected"
             ELSE IF station \in Good THEN "missing" ELSE "refused"
  /\ UNCHANGED <<pc, caller, portal, web, ap, station, inRange, history>>

RadioReturns ==
  /\ link = "missing" /\ station \in inRange
  /\ link' = "connected"
  /\ UNCHANGED <<pc, caller, portal, web, ap, station, inRange, history>>

NetworkMoves ==
  /\ inRange' \in SUBSET Good /\ inRange' # inRange
  /\ link' = IF link = "connected" /\ station \notin inRange' THEN "missing" ELSE link
  /\ UNCHANGED <<pc, caller, portal, web, ap, station, history>>

Tick ==
  /\ \/ pc = "serving" /\ ~Expired /\ waited' = waited
     \/ pc = "pausing" /\ waited < Pause /\ waited' = waited + 1
     \/ pc = "joining" /\ ~Ends(link) /\ waited' = IF config.connectTimeout = 0 THEN 0 ELSE waited + 1
  /\ elapsed' = IF caller = "portal" THEN After(1) ELSE elapsed
  /\ UNCHANGED <<pc, caller, config, entered, value, status, web, ap, radio, inRange, history>>

Program ==
  \/ StatusRead \/ FirstAttemptEnds \/ PortalTimesOut \/ TakeForm \/ PauseEnds
  \/ AttemptSucceeds \/ AttemptFails

Calls == autoConnect \/ startConfigPortal \/ resetSettings
Radio == RadioSettles \/ RadioReturns \/ NetworkMoves

Next ==
  \/ Program \/ Calls \/ Radio \/ Tick
  \/ handleWifi \/ OtherPage \/ handleReset \/ PowerFails
  \/ \E form \in Forms : UserSends(form)

Spec == Init /\ [][Next]_vars
FairSpec == Spec /\ WF_vars(Program) /\ SF_vars(Tick) /\ WF_vars(RadioSettles)

----------------------------------------------------------------------------
(* Properties                                                              *)

InPortal == pc # "app" /\ caller = "portal"

\* With both timeouts set the portal is left in time: the loop looks at its
\* timeout only between two pages, so that a scan and one whole attempt may be
\* added to it.
EndsInTime ==
  InPortal /\ config.portalTimeout # 0 /\ config.connectTimeout # 0 => elapsed <= Limit

\* The list of networks has the strongest first, no name twice, and every name
\* whose strongest signal is clear enough, with that signal.
PageIsRight ==
  /\ \A i, j \in 1..Len(page) : i < j => page[i].rssi >= page[j].rssi
  /\ config.removeDuplicates =>
       \A i, j \in 1..Len(page) : page[i].ssid = page[j].ssid => i = j
  /\ \A k \in 1..Len(scan) :
       LET same == {i \in 1..Len(scan) : scan[i].ssid = scan[k].ssid}
       IN  (/\ \A i \in same : scan[i].rssi <= scan[k].rssi
            /\ config.minimumQuality < getRSSIasQuality(scan[k].rssi))
           => \E i \in 1..Len(page) : page[i] = scan[k]

\* A call that ends by an attempt for a form leaves the radio with the network of
\* that form, unless there was a connection already when the attempt began.
JoinsTheEntered ==
  pc = "app" /\ saved /\ ~bailed /\ entered # None => station = entered

\* setConfigPortalTimeout(): "When the time passes, the autoConnect function will
\* return, no matter the outcome."
PortalEnds == InPortal /\ config.portalTimeout # 0 ~> pc = "app"
=============================================================================
