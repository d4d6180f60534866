---------------------------- MODULE SonoffSwitch ----------------------------
(***************************************************************************)
(* The sketch esp_mqtt_sonoff.ino: a relay switched by a button and by     *)
(* MQTT commands, whose settings live in EEPROM and are changed in the     *)
(* configuration portal of WiFiManager.                                    *)
(*                                                                         *)
(* The parts that have modules of their own appear as what they promise:   *)
(* the MQTT client as a session that is there or not (PubSubClient,        *)
(* MqttSession), the two debouncers as SonoffButton.  The program is one   *)
(* thread; pc says where it is:                                            *)
(*   "off"         without power                                           *)
(*   "wifi"        the waiting loop of setup_wifi()                        *)
(*   "loop"        between two rounds of loop()                            *)
(*   "reconnect"   the head of the loop in reconnect()                     *)
(*   "connecting"  client.connect() in reconnect()                         *)
(*   "portal"      startConfigPortal(), serving its web pages              *)
(*   "joining"     startConfigPortal(), a form was sent: connectWifi()     *)
(*   "joined"      connectWifi() has reported a connection                 *)
(*   "saving"      EEPROM.commit() in saveCredentials()                    *)
(* captivePortal() is called from three places; caller says which.         *)
(***************************************************************************)
EXTENDS Naturals, Sequences

CONSTANTS
  Home,         (* the network that exists                                   *)
  Networks,     (* network names, with their passwords, a user may enter     *)
  Broker,       (* the server a broker runs on                               *)
  Servers,      (* servers a user may enter                                  *)
  Topics,       (* topics a user may enter                                   *)
  Blank,        (* an empty network name, and whatever else an unwritten     *)
                (* EEPROM holds                                              *)
  WifiTries,    (* 15 in the sketch                                          *)
  ConnectTries  (* 5 in the sketch                                           *)

ASSUME SettingsAssumption ==
  /\ Home \in Networks /\ Broker \in Servers
  /\ Blank \notin Networks \cup Servers \cup Topics
  /\ WifiTries \in Nat /\ ConnectTries \in Nat

VARIABLES
  pc, caller,
  tries,        (* i of setup_wifi() and reconnect()                         *)
  conf,         (* ssid, mqtt_server and mqtt_topic                          *)
  shouldSaveConfig,
  form,         (* what the portal's form was sent with                      *)
  flash,        (* the EEPROM: the settings and the mark OK                  *)
  written,      (* fields EEPROM.commit() has written                        *)
  station,      (* WiFi.SSID(), the network the radio uses and remembers in  *)
                (* flash memory of its own                                   *)
  wifi,         (* WiFi.status() == WL_CONNECTED                             *)
  target,       (* the server last given to client.setServer()               *)
  topics,       (* subscriptions of the MQTT session at the broker           *)
  mqtt,         (* client.connected()                                        *)
  relayState, relayPin,
  fast, slow,   (* what the debouncers read                                  *)
  netUp,        (* the network is in range                                   *)
  brokerUp,     (* the broker runs                                           *)
  entered       (* history: <<server, topic>> of the forms sent              *)

program == <<pc, caller, tries, conf, shouldSaveConfig, form, written>>
radio   == <<station, wifi>>
session == <<target, topics, mqtt>>
relay   == <<relayState, relayPin>>
button  == <<fast, slow>>
world   == <<netUp, brokerUp>>
vars    == <<program, flash, radio, session, relay, button, world, entered>>

Forms  == [ssid : Networks, server : Servers, topic : Topics]
NoForm == [ssid |-> Blank, server |-> Blank, topic |-> Blank]
Settings == [ssid : Networks \cup {Blank}, server : Servers \cup {Blank},
             topic : Topics \cup {Blank}]

TypeOK ==
  /\ pc \in {"off", "wifi", "loop", "reconnect", "connecting", "portal", "joining",
             "joined", "saving"}
  /\ caller \in {"setup_wifi", "reconnect", "loop"}
  /\ tries \in 0..((IF WifiTries > ConnectTries THEN WifiTries ELSE ConnectTries) + 1)
  /\ conf \in Settings /\ form \in Settings
  /\ shouldSaveConfig \in BOOLEAN
  /\ flash \in [settings : Settings, ok : BOOLEAN]
  /\ written \in 0..4
  /\ station \in Networks \cup {Blank} /\ wifi \in BOOLEAN
  /\ target \in Servers \cup {Blank} /\ topics \subseteq Topics \cup {Blank} /\ mqtt \in BOOLEAN
  /\ relayState \in BOOLEAN /\ relayPin \in BOOLEAN
  /\ fast \in BOOLEAN /\ slow \in BOOLEAN
  /\ netUp \in BOOLEAN /\ brokerUp \in BOOLEAN
  /\ entered \subseteq Servers \X Topics

\* A new device: nothing has ever been saved.
Init ==
  /\ pc = "off" /\ caller = "setup_wifi" /\ tries = 0
  /\ conf = NoForm /\ form = NoForm /\ shouldSaveConfig = FALSE
  /\ flash = [settings |-> NoForm, ok |-> FALSE] /\ written = 0
  /\ station = Blank /\ wifi = FALSE
  /\ target = Blank /\ topics = {} /\ mqtt = FALSE
  /\ relayState = FALSE /\ relayPin = FALSE
  /\ fast = TRUE /\ slow = TRUE
  /\ netUp \in BOOLEAN /\ brokerUp \in BOOLEAN
  /\ entered = {}

----------------------------------------------------------------------------
(* setup()                                                                 *)

\* loadCredentials(): without the mark OK the network name is cleared, and the
\* rest is used as it was read.
Loaded == IF flash.ok THEN flash.settings ELSE [flash.settings EXCEPT !.ssid = Blank]

\* The globals have their initial values; setup_wifi() starts with WiFi.begin(),
\* which refuses an empty name: then the radio goes on with the network it
\* remembers.
Begun(name) == IF name = Blank THEN station ELSE name

PowerOn ==
  /\ pc = "off"
  /\ conf' = Loaded
  /\ shouldSaveConfig' = FALSE
  /\ station' = Begun(Loaded.ssid)
  /\ relayState' = FALSE /\ relayPin' = FALSE
  /\ pc' = "wifi" /\ tries' = 0
  /\ UNCHANGED <<caller, form, written, flash, wifi, session, button, world, entered>>

OpenPortal(from) == pc' = "portal" /\ caller' = from

\* One round of the loop in setup_wifi() that finds no connection; tries stops
\* counting where it makes no more difference.
WifiWaits ==
  /\ pc = "wifi" /\ ~wifi
  /\ IF tries > WifiTries THEN OpenPortal("setup_wifi") /\ UNCHANGED tries
                          ELSE tries' = tries + 1 /\ UNCHANGED <<pc, caller>>
  /\ UNCHANGED <<conf, shouldSaveConfig, form, written, flash, radio, session, relay,
                 button, world, entered>>

\* The rest of setup(): the server is set and the debouncers read the button.
SetupEnds ==
  /\ pc = "wifi" /\ wifi
  /\ target' = conf.server
  /\ fast' \in BOOLEAN /\ slow' = fast'
  /\ pc' = "loop" /\ tries' = 0
  /\ UNCHANGED <<caller, conf, shouldSaveConfig, form, written, flash, radio, topics, mqtt,
                 relay, world, entered>>

----------------------------------------------------------------------------
(* loop() and reconnect()                                                  *)

LoopFindsNoSession ==
  /\ pc = "loop" /\ ~mqtt
  /\ pc' = "reconnect" /\ tries' = 0
  /\ UNCHANGED <<caller, conf, shouldSaveConfig, form, written, flash, radio, session,
                 relay, button, world, entered>>

\* callback(): a command sets relayState, or asks for it and leaves it alone.
Commanded == {relayState, TRUE, FALSE}

\* One round with a session: client.loop() may run the callback, both debouncers
\* are updated, a short press toggles the relay, a long one opens the portal
\* before the relay's pin is written.
Toggled(state) == IF fast /\ ~fast' THEN ~state ELSE state
LongPress == slow /\ ~slow'

Round ==
  /\ pc = "loop" /\ mqtt
  /\ fast' \in BOOLEAN /\ slow' \in {slow, fast'}
  /\ \E state \in IF topics # {} THEN Commanded ELSE {relayState} :
       relayState' = Toggled(state)
  /\ IF LongPress THEN OpenPortal("loop") /\ UNCHANGED relayPin
                  ELSE relayPin' = relayState' /\ UNCHANGED <<pc, caller>>
  /\ UNCHANGED <<tries, conf, shouldSaveConfig, form, written, flash, radio, session, world,
                 entered>>

\* The head of the loop in reconnect(): after ConnectTries + 1 failures the
\* portal opens before every further attempt.
ReconnectHead ==
  /\ pc = "reconnect"
  /\ IF mqtt THEN pc' = "loop" /\ UNCHANGED caller
     ELSE IF tries > ConnectTries THEN OpenPortal("reconnect")
     ELSE pc' = "connecting" /\ UNCHANGED caller
  /\ UNCHANGED <<tries, conf, shouldSaveConfig, form, written, flash, radio, session, relay,
                 button, world, entered>>

\* client.connect(), and when it succeeds the announcement and the subscription.
CanConnect == wifi /\ brokerUp /\ target = Broker

ConnectSucceeds ==
  /\ pc = "connecting" /\ CanConnect
  /\ mqtt' = TRUE /\ topics' = {conf.topic}
  /\ pc' = "reconnect"
  /\ UNCHANGED <<caller, tries, conf, shouldSaveConfig, form, written, flash, radio, target,
                 relay, button, world, entered>>

ConnectFails ==
  /\ pc = "connecting" /\ ~CanConnect
  /\ tries' = IF tries > ConnectTries THEN tries ELSE tries + 1
  /\ pc' = "reconnect"
  /\ UNCHANGED <<caller, conf, shouldSaveConfig, form, written, flash, radio, session,
                 relay, button, world, entered>>

----------------------------------------------------------------------------
(* captivePortal() and WiFiManager::startConfigPortal(), without a timeout *)

\* handleWifiSave(): the form's fields are taken over and connect is set.
SendForm(f) ==
  /\ pc = "portal"
  /\ form' = f
  /\ entered' = entered \cup {<<f.server, f.topic>>}
  /\ pc' = "joining"
  /\ UNCHANGED <<caller, tries, conf, shouldSaveConfig, written, flash, radio, session,
                 relay, button, world>>

UserSendsForm == \E f \in Forms : SendForm(f)

\* Seeded fault: only a new network is saved.
SaveWanted_NewNetworkOnly == ~wifi

\* connectWifi(): a radio that is connected already is left as it is, whatever
\* network was entered.  On success saveConfigCallback() is called.
SaveWanted == TRUE

Joins ==
  /\ pc = "joining"
  /\ \/ wifi /\ UNCHANGED radio
     \/ ~wifi /\ netUp /\ form.ssid = Home /\ station' = Home /\ wifi' = TRUE
  /\ shouldSaveConfig' = SaveWanted
  /\ pc' = "joined"
  /\ UNCHANGED <<caller, tries, conf, form, written, flash, session, relay, button, world,
                 entered>>

JoinFails ==
  /\ pc = "joining"
  /\ ~wifi /\ ~(netUp /\ form.ssid = Home)
  /\ station' = form.ssid
  /\ pc' = "portal"
  /\ UNCHANGED <<caller, tries, conf, shouldSaveConfig, form, written, flash, wifi, session,
                 relay, button, world, entered>>

\* The connection reported a moment ago is gone: the sketch resets the chip.
ResetAfterPortal ==
  /\ pc = "joined" /\ ~wifi
  /\ pc' = "off"
  /\ conf' = NoForm /\ form' = NoForm
  /\ topics' = {} /\ mqtt' = FALSE /\ target' = Blank
  /\ relayState' = FALSE /\ relayPin' = FALSE
  /\ UNCHANGED <<caller, tries, shouldSaveConfig, written, flash, radio, button, world,
                 entered>>

\* Seeded fault: the new topic is not subscribed to.
TopicsAfterPortal_NotSubscribed == topics

\* The parameters and the radio's network become the settings, the topic is
\* subscribed to if there is a session, and if they are to be saved EEPROM.commit()
\* begins: it erases the sector.
TopicsAfterPortal == IF mqtt THEN topics \cup {form.topic} ELSE topics

Fields == 4

PortalEnds ==
  /\ pc = "joined" /\ wifi
  /\ conf' = [ssid |-> station, server |-> form.server, topic |-> form.topic]
  /\ topics' = TopicsAfterPortal
  /\ IF shouldSaveConfig THEN flash' = [settings |-> NoForm, ok |-> FALSE] /\ written' = 0
                         ELSE written' = Fields /\ UNCHANGED flash
  /\ pc' = "saving"
  /\ UNCHANGED <<caller, tries, shouldSaveConfig, form, radio, target, mqtt, relay, button,
                 world, entered>>

\* Seeded fault: the mark comes first.
FieldOrder_MarkFirst == <<"ok", "ssid", "server", "topic">>

\* The sector is written from its first byte on; the mark comes last.
FieldOrder == <<"ssid", "server", "topic", "ok">>

WriteField ==
  /\ pc = "saving" /\ written < Fields
  /\ LET field == FieldOrder[written + 1] IN
     flash' = IF field = "ok" THEN [flash EXCEPT !.ok = TRUE]
                              ELSE [flash EXCEPT !.settings[field] = conf[field]]
  /\ written' = written + 1
  /\ UNCHANGED <<pc, caller, tries, conf, shouldSaveConfig, form, radio, session, relay,
                 button, world, entered>>

\* Seeded fault: nothing is tried after the portal.
AfterPortal_NoAttempt(from) ==
  CASE from = "setup_wifi" -> "wifi" [] from = "reconnect" -> "reconnect" [] from = "loop" -> "loop"

\* captivePortal() returns: setup_wifi() waits another round, reconnect() tries
\* to connect, loop() writes the pin.
AfterPortal(from) ==
  CASE from = "setup_wifi" -> "wifi" [] from = "reconnect" -> "connecting" [] from = "loop" -> "loop"

PortalReturns ==
  /\ pc = "saving" /\ written = Fields
  /\ pc' = AfterPortal(caller)
  /\ relayPin' = IF caller = "loop" THEN relayState ELSE relayPin
  /\ UNCHANGED <<caller, tries, conf, shouldSaveConfig, form, written, flash, radio,
                 session, relayState, button, world, entered>>

----------------------------------------------------------------------------
(* The world: power, network and broker.                                   *)

\* Power may fail at any moment, in the middle of a commit too.
PowerLoss ==
  /\ pc # "off"
  /\ pc' = "off"
  /\ conf' = NoForm /\ form' = NoForm
  /\ wifi' = FALSE
  /\ topics' = {} /\ mqtt' = FALSE /\ target' = Blank
  /\ relayState' = FALSE /\ relayPin' = FALSE
  /\ UNCHANGED <<caller, tries, shouldSaveConfig, written, flash, station, button, world,
                 entered>>

\* The radio finds its network again on its own.
WifiComes ==
  /\ pc # "off" /\ ~wifi /\ netUp /\ station = Home
  /\ wifi' = TRUE
  /\ UNCHANGED <<program, flash, station, session, relay, button, world, entered>>

SessionEnds == mqtt' = FALSE /\ topics' = {}

WifiGoes ==
  /\ wifi /\ ~netUp
  /\ wifi' = FALSE
  /\ SessionEnds
  /\ UNCHANGED <<program, flash, station, target, relay, button, world, entered>>

\* A broker that is gone takes the session with it, and so does one that has not
\* heard from the client during the portal or a wait.
SessionDrops ==
  /\ mqtt /\ (~brokerUp \/ pc # "loop")
  /\ SessionEnds
  /\ UNCHANGED <<program, flash, radio, target, relay, button, world, entered>>

WorldChanges ==
  /\ \/ netUp' = ~netUp /\ UNCHANGED brokerUp
     \/ brokerUp' = ~brokerUp /\ UNCHANGED netUp
  /\ UNCHANGED <<program, flash, radio, session, relay, button, entered>>

Program ==
  \/ WifiWaits \/ SetupEnds
  \/ LoopFindsNoSession \/ Round
  \/ ReconnectHead \/ ConnectSucceeds \/ ConnectFails
  \/ Joins \/ JoinFails \/ ResetAfterPortal \/ PortalEnds \/ WriteField \/ PortalReturns

Next ==
  \/ PowerOn \/ Program \/ UserSendsForm
  \/ PowerLoss \/ WifiComes \/ WifiGoes \/ SessionDrops \/ WorldChanges

Spec == Init /\ [][Next]_vars

\* The program runs whenever it can, power comes back, the radio finds a network
\* in range.
FairSpec == Spec /\ WF_vars(Program) /\ WF_vars(PowerOn) /\ WF_vars(WifiComes)

\* Besides, whenever a portal keeps opening, somebody in the end enters a form
\* with the right network and the right server.
AttendedSpec ==
  /\ FairSpec
  /\ SF_vars(\E t \in Topics : SendForm([ssid |-> Home, server |-> Broker, topic |-> t]))

----------------------------------------------------------------------------
(* Properties                                                              *)

InService == pc \in {"loop", "reconnect", "connecting"}

\* Whatever moment power fails at, settings that name a network are settings
\* somebody entered, server and topic together: neither an empty EEPROM nor one
\* whose commit was cut short is taken for them (loadCredentials() and
\* saveCredentials()).
SettingsWereEntered == conf.ssid # Blank => <<conf.server, conf.topic>> \in entered

\* In service such settings are always in the EEPROM too, so that a power cycle at
\* any moment brings the same ones back (captivePortal()).
SettingsArePersistent ==
  InService /\ conf.ssid # Blank => flash = [settings |-> conf, ok |-> TRUE]

\* A session in service listens to the topic that is configured, also when the
\* topic has changed while it lasted (captivePortal() and reconnect()).
ListensToConfigured == InService /\ mqtt => conf.topic \in topics

\* When network and broker come to stay, the power too, somebody attends to the
\* portals and setup() gave the client the broker's address, the device has a
\* session again and again, whatever went wrong before (setup_wifi(), reconnect()).
NetworkStays == <>[](netUp /\ brokerUp)
PowerStays   == <>[](pc # "off")
ServerKnown  == <>[](InService => target = Broker)
ComesBack == NetworkStays /\ PowerStays /\ ServerKnown => []<>mqtt
=============================================================================
