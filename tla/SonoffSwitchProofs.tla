------------------------- MODULE SonoffSwitchProofs -------------------------
(* What TLAPS proves of the Sonoff sketch.                                  *)
(* Of its settings, for every set of networks, servers and topics and every *)
(* number of tries: wherever the power fails, the settings in use are       *)
(* settings somebody entered, they are in the EEPROM too, and the session   *)
(* listens to their topic.                                                  *)
(* Of the two debouncers of its button, for all intervals and all three     *)
(* methods: the inductive invariant of one of them, from it the two action  *)
(* properties, and that both together implement the button.                 *)
EXTENDS SonoffSwitch, TwoDebouncers, TLAPS

----------------------------------------------------------------------------
(* Typing, a group of variables at a time.                                 *)

TryCap == (IF WifiTries > ConnectTries THEN WifiTries ELSE ConnectTries) + 1

CountersOK == tries \in 0..TryCap /\ written \in 0..4

FlagsOK ==
  /\ shouldSaveConfig \in BOOLEAN /\ wifi \in BOOLEAN /\ mqtt \in BOOLEAN
  /\ relayState \in BOOLEAN /\ relayPin \in BOOLEAN
  /\ fast \in BOOLEAN /\ slow \in BOOLEAN
  /\ netUp \in BOOLEAN /\ brokerUp \in BOOLEAN

PlacesOK ==
  /\ pc \in {"off", "wifi", "loop", "reconnect", "connecting", "portal", "joining",
             "joined", "saving"}
  /\ caller \in {"setup_wifi", "reconnect", "loop"}

SettingsOK ==
  /\ conf \in Settings /\ form \in Settings
  /\ flash \in [settings : Settings, ok : BOOLEAN]
  /\ entered \subseteq Servers \X Topics
  /\ station \in Networks \cup {Blank}

SessionOK == target \in Servers \cup {Blank} /\ topics \subseteq Topics \cup {Blank}

LEMMA TypeSplit == TypeOK <=> CountersOK /\ FlagsOK /\ PlacesOK /\ SettingsOK /\ SessionOK
BY DEF TypeOK, CountersOK, FlagsOK, PlacesOK, SettingsOK, SessionOK, TryCap

LEMMA NoFormTyped == NoForm \in Settings
BY DEF NoForm, Settings

LEMMA CountersNext == CountersOK /\ Next => CountersOK'
<1> SUFFICES ASSUME CountersOK, Next PROVE CountersOK'
  OBVIOUS
<1>1. /\ TryCap \in Nat
      /\ \A i \in 0..TryCap : i > WifiTries \/ i > ConnectTries \/ i + 1 \in 0..TryCap
  BY SettingsAssumption DEF SettingsAssumption, TryCap
<1>2. \A i \in 0..TryCap : (i > WifiTries \/ i + 1 \in 0..TryCap)
                        /\ (i > ConnectTries \/ i + 1 \in 0..TryCap)
  BY SettingsAssumption DEF SettingsAssumption, TryCap
<1>3. CASE WifiWaits \/ ConnectFails
  BY <1>2, <1>3 DEF WifiWaits, OpenPortal, ConnectFails, CountersOK
<1>4. CASE PortalEnds \/ WriteField
  BY <1>4 DEF PortalEnds, WriteField, Fields, CountersOK
<1>5. CASE PowerOn \/ SetupEnds \/ LoopFindsNoSession
  BY <1>1, <1>5 DEF PowerOn, SetupEnds, LoopFindsNoSession, CountersOK
<1>6. CASE UNCHANGED <<tries, written>>
  BY <1>6 DEF CountersOK
<1> QED
  BY <1>3, <1>4, <1>5, <1>6
  DEF Next, Program, Round, ReconnectHead, ConnectSucceeds, UserSendsForm, SendForm, Joins,
      JoinFails, ResetAfterPortal, PortalReturns, PowerLoss, WifiComes, WifiGoes, SessionDrops,
      WorldChanges, program

LEMMA FlagsNext == FlagsOK /\ Next => FlagsOK'
<1> SUFFICES ASSUME FlagsOK, Next PROVE FlagsOK'
  OBVIOUS
<1>1. CASE Program
  <2>1. CASE Round
    <3>1. relayState' \in BOOLEAN
      <4>1. PICK state \in BOOLEAN : relayState' = Toggled(state)
        BY <2>1 DEF Round, Commanded, FlagsOK
      <4> QED
        BY <4>1 DEF Toggled
    <3>2. relayPin' = relayPin \/ relayPin' = relayState'
      BY <2>1 DEF Round
    <3> QED
      BY <2>1, <3>1, <3>2 DEF FlagsOK, Round, session, radio, world
  <2>2. CASE SetupEnds \/ Joins \/ ResetAfterPortal
    BY <2>2 DEF FlagsOK, SetupEnds, Joins, SaveWanted, ResetAfterPortal, relay, button, world, radio, session
  <2>3. CASE WifiWaits \/ LoopFindsNoSession \/ ReconnectHead \/ ConnectFails \/ JoinFails
    BY <2>3 DEF FlagsOK, WifiWaits, LoopFindsNoSession, ReconnectHead, ConnectFails, JoinFails,
                relay, button, world, radio, session
  <2>4. CASE ConnectSucceeds \/ PortalEnds \/ WriteField \/ PortalReturns
    BY <2>4 DEF FlagsOK, ConnectSucceeds, PortalEnds, WriteField, PortalReturns,
                relay, button, world, radio, session
  <2> QED
    BY <1>1, <2>1, <2>2, <2>3, <2>4 DEF Program
<1>2. CASE ~Program
  BY <1>2 DEF FlagsOK, Next, PowerOn, UserSendsForm, SendForm, PowerLoss, WifiComes, WifiGoes,
              SessionDrops, SessionEnds, WorldChanges, program, relay, button, world, radio, session
<1> QED
  BY <1>1, <1>2

LEMMA PlacesNext == PlacesOK /\ Next => PlacesOK'
BY DEF PlacesOK, Next, Program, PowerOn, WifiWaits, SetupEnds, LoopFindsNoSession, Round, OpenPortal,
       ReconnectHead, ConnectSucceeds, ConnectFails, UserSendsForm, SendForm, Joins, JoinFails,
       ResetAfterPortal, PortalEnds, WriteField, PortalReturns, AfterPortal, PowerLoss, WifiComes,
       WifiGoes, SessionDrops, WorldChanges, program

LEMMA SettingsNext == CountersOK /\ SettingsOK /\ Next => SettingsOK'
<1> SUFFICES ASSUME CountersOK, SettingsOK, Next PROVE SettingsOK'
  OBVIOUS
<1>1. CASE PowerOn
  <2>1. Loaded \in Settings
    BY DEF SettingsOK, Loaded, Settings
  <2>2. Begun(Loaded.ssid) \in Networks \cup {Blank}
    BY <2>1 DEF Begun, Settings, SettingsOK
  <2> QED
    BY <1>1, <2>1, <2>2 DEF PowerOn, SettingsOK
<1>2. CASE UserSendsForm
  <2>1. PICK f \in Forms : SendForm(f)
    BY <1>2 DEF UserSendsForm
  <2>2. f \in Settings /\ <<f.server, f.topic>> \in Servers \X Topics
    BY DEF Forms, Settings
  <2> QED
    BY <2>1, <2>2 DEF SendForm, SettingsOK, radio
<1>3. CASE Joins \/ JoinFails
  <2>1. station' \in {station, Home, form.ssid}
    BY <1>3 DEF Joins, JoinFails, radio
  <2>2. form.ssid \in Networks \cup {Blank} /\ Home \in Networks
    BY SettingsAssumption DEF SettingsOK, Settings, SettingsAssumption
  <2> QED
    BY <1>3, <2>1, <2>2 DEF Joins, JoinFails, SettingsOK
<1>4. CASE ResetAfterPortal \/ PowerLoss
  BY <1>4, NoFormTyped DEF ResetAfterPortal, PowerLoss, SettingsOK, radio
<1>5. CASE PortalEnds
  <2>1. conf' \in Settings
    BY <1>5 DEF PortalEnds, SettingsOK, Settings
  <2>2. flash' \in [settings : Settings, ok : BOOLEAN]
    <3>1. [settings |-> NoForm, ok |-> FALSE] \in [settings : Settings, ok : BOOLEAN]
      BY NoFormTyped
    <3> QED
      BY <1>5, <3>1 DEF PortalEnds, SettingsOK
  <2> QED
    BY <1>5, <2>1, <2>2 DEF PortalEnds, SettingsOK, radio
<1>6. CASE WriteField
  <2>1. written + 1 \in 1..4
    BY <1>6 DEF WriteField, Fields, CountersOK
  <2>2. FieldOrder[written + 1] \in {"ssid", "server", "topic", "ok"}
    BY <2>1 DEF FieldOrder
  <2>3. PICK field \in {"ssid", "server", "topic", "ok"} :
          flash' = IF field = "ok" THEN [flash EXCEPT !.ok = TRUE]
                                   ELSE [flash EXCEPT !.settings[field] = conf[field]]
    BY <1>6, <2>2 DEF WriteField
  <2>4. flash' \in [settings : Settings, ok : BOOLEAN]
    BY <2>3 DEF SettingsOK, Settings
  <2> QED
    BY <1>6, <2>4 DEF WriteField, SettingsOK, radio
<1>7. CASE UNCHANGED <<conf, form, flash, entered, station>>
  BY <1>7 DEF SettingsOK
<1> QED
  BY <1>1, <1>2, <1>3, <1>4, <1>5, <1>6, <1>7
  DEF Next, Program, WifiWaits, SetupEnds, LoopFindsNoSession, Round, ReconnectHead,
      ConnectSucceeds, ConnectFails, PortalReturns, WifiComes, WifiGoes, SessionDrops,
      WorldChanges, program, radio

LEMMA SessionNext == SettingsOK /\ SessionOK /\ Next => SessionOK'
<1> SUFFICES ASSUME SettingsOK, SessionOK, Next PROVE SessionOK'
  OBVIOUS
<1>1. /\ conf.server \in Servers \cup {Blank} /\ conf.topic \in Topics \cup {Blank}
      /\ TopicsAfterPortal \subseteq Topics \cup {Blank}
  BY DEF SettingsOK, SessionOK, Settings, TopicsAfterPortal
<1> QED
  BY <1>1
  DEF SessionOK, Next, Program, PowerOn, WifiWaits, SetupEnds, LoopFindsNoSession, Round,
      ReconnectHead, ConnectSucceeds, ConnectFails, UserSendsForm, SendForm, Joins, JoinFails,
      ResetAfterPortal, PortalEnds, WriteField, PortalReturns, PowerLoss, WifiComes, WifiGoes,
      SessionDrops, SessionEnds, WorldChanges, session

\* Every variable keeps its type: the settings, the EEPROM and the subscriptions
\* hold what was entered, or nothing.
THEOREM TypeCorrect == Spec => []TypeOK
<1>1. Init => CountersOK
  BY SettingsAssumption DEF SettingsAssumption, Init, CountersOK, TryCap
<1>2. Init => FlagsOK /\ PlacesOK /\ SessionOK
  BY DEF Init, FlagsOK, PlacesOK, SessionOK
<1>3. Init => SettingsOK
  BY NoFormTyped DEF Init, SettingsOK
<1>4. TypeOK /\ [Next]_vars => TypeOK'
  <2>1. TypeOK /\ UNCHANGED vars => TypeOK'
    BY DEF TypeOK, vars, program, radio, session, relay, button, world
  <2>2. TypeOK /\ Next => TypeOK'
    BY CountersNext, FlagsNext, PlacesNext, SettingsNext, SessionNext, TypeSplit
    DEF TypeOK, CountersOK, FlagsOK, PlacesOK, SettingsOK, SessionOK, TryCap
  <2> QED
    BY <2>1, <2>2
<1> QED
  BY <1>1, <1>2, <1>3, <1>4, TypeSplit, PTL DEF Spec

----------------------------------------------------------------------------
(* The settings in use, in the form and in the EEPROM.                     *)

WasEntered(s) == <<s.server, s.topic>> \in entered

\* What the portal leaves behind is a form somebody sent, and it will be saved.
FormInv ==
  /\ pc \in {"joining", "joined"} => form \in Forms /\ WasEntered(form)
  /\ pc \in {"joined", "saving"} => shouldSaveConfig

\* Without power nothing is in use.
ConfInv == SettingsWereEntered /\ (pc = "off" => conf = NoForm)

\* What a commit has written of the settings s after n fields.
Partly(s, n) ==
  [settings |-> [ssid   |-> IF n >= 1 THEN s.ssid ELSE Blank,
                 server |-> IF n >= 2 THEN s.server ELSE Blank,
                 topic  |-> IF n >= 3 THEN s.topic ELSE Blank],
   ok       |-> IF n = Fields THEN TRUE ELSE FALSE]

\* The EEPROM with the mark names settings somebody entered, during a commit it
\* holds the fields written so far, and at any other time what is in use.
FlashInv ==
  /\ flash.ok /\ flash.settings.ssid # Blank => WasEntered(flash.settings)
  /\ pc = "saving" => WasEntered(conf) /\ flash = Partly(conf, written)
  /\ pc # "saving" /\ conf.ssid # Blank => flash = [settings |-> conf, ok |-> TRUE]

\* A session, in service or not, listens to the topic in use.
TopicInv == mqtt => pc # "off" /\ conf.topic \in topics

SettingsInv == FormInv /\ ConfInv /\ FlashInv /\ TopicInv

Eeprom(ssid, server, topic, ok) ==
  [settings |-> [ssid |-> ssid, server |-> server, topic |-> topic], ok |-> ok]

LEMMA PartlyIs ==
  ASSUME NEW s
  PROVE  /\ Partly(s, 0) = Eeprom(Blank, Blank, Blank, FALSE)
         /\ Partly(s, 1) = Eeprom(s.ssid, Blank, Blank, FALSE)
         /\ Partly(s, 2) = Eeprom(s.ssid, s.server, Blank, FALSE)
         /\ Partly(s, 3) = Eeprom(s.ssid, s.server, s.topic, FALSE)
         /\ Partly(s, 4) = Eeprom(s.ssid, s.server, s.topic, TRUE)
BY DEF Partly, Eeprom, Fields

\* A commit begins with nothing and ends with all the settings and the mark.
LEMMA CommitEnds ==
  ASSUME NEW s \in Settings
  PROVE  /\ Partly(s, 0) = [settings |-> NoForm, ok |-> FALSE]
         /\ Partly(s, Fields) = [settings |-> s, ok |-> TRUE]
<1>1. s = [ssid |-> s.ssid, server |-> s.server, topic |-> s.topic]
  BY DEF Settings
<1> QED
  BY <1>1, PartlyIs DEF Eeprom, NoForm, Fields

\* In between each step writes the next field of the settings in use.
LEMMA OneMoreWritten ==
  ASSUME written \in 0..4, flash = Partly(conf, written), WriteField
  PROVE  flash' = Partly(conf, written + 1)
<1>1. /\ written \in 0..3
      /\ flash' = IF FieldOrder[written + 1] = "ok"
                    THEN [flash EXCEPT !.ok = TRUE]
                    ELSE [flash EXCEPT !.settings[FieldOrder[written + 1]]
                                         = conf[FieldOrder[written + 1]]]
  BY DEF WriteField, Fields
<1>2. /\ FieldOrder[1] = "ssid" /\ FieldOrder[2] = "server"
      /\ FieldOrder[3] = "topic" /\ FieldOrder[4] = "ok"
  BY DEF FieldOrder
<1>3. CASE written = 0
  <2>1. flash' = [flash EXCEPT !.settings["ssid"] = conf["ssid"]]
    BY <1>1, <1>2, <1>3
  <2>2. flash = Eeprom(Blank, Blank, Blank, FALSE)
    BY <1>3, PartlyIs
  <2>3. \A a, b, c, k : flash = Eeprom(a, b, c, k) => flash' = Eeprom(conf.ssid, b, c, k)
    BY <2>1 DEF Eeprom
  <2>4. flash' = Eeprom(conf.ssid, Blank, Blank, FALSE)
    BY <2>2, <2>3
  <2>5. written + 1 = 1
    BY <1>3
  <2> QED
    BY <2>4, <2>5, PartlyIs
<1>4. CASE written = 1
  <2>1. flash' = [flash EXCEPT !.settings["server"] = conf["server"]]
    BY <1>1, <1>2, <1>4
  <2>2. flash = Eeprom(conf.ssid, Blank, Blank, FALSE)
    BY <1>4, PartlyIs
  <2>3. \A a, b, c, k : flash = Eeprom(a, b, c, k) => flash' = Eeprom(a, conf.server, c, k)
    BY <2>1 DEF Eeprom
  <2>4. flash' = Eeprom(conf.ssid, conf.server, Blank, FALSE)
    BY <2>2, <2>3
  <2>5. written + 1 = 2
    BY <1>4
  <2> QED
    BY <2>4, <2>5, PartlyIs
<1>5. CASE written = 2
  <2>1. flash' = [flash EXCEPT !.settings["topic"] = conf["topic"]]
    BY <1>1, <1>2, <1>5
  <2>2. flash = Eeprom(conf.ssid, conf.server, Blank, FALSE)
    BY <1>5, PartlyIs
  <2>3. \A a, b, c, k : flash = Eeprom(a, b, c, k) => flash' = Eeprom(a, b, conf.topic, k)
    BY <2>1 DEF Eeprom
  <2>4. flash' = Eeprom(conf.ssid, conf.server, conf.topic, FALSE)
    BY <2>2, <2>3
  <2>5. written + 1 = 3
    BY <1>5
  <2> QED
    BY <2>4, <2>5, PartlyIs
<1>6. CASE written = 3
  <2> DEFINE marked == TRUE
  <2>1. flash' = [flash EXCEPT !.ok = marked]
    BY <1>1, <1>2, <1>6
  <2> HIDE DEF marked
  <2>2. flash = Eeprom(conf.ssid, conf.server, conf.topic, FALSE)
    BY <1>6, PartlyIs
  <2>3. \A a, b, c, k : flash = Eeprom(a, b, c, k) => flash' = Eeprom(a, b, c, marked)
    BY <2>1 DEF Eeprom
  <2>4. flash' = Eeprom(conf.ssid, conf.server, conf.topic, marked)
    BY <2>2, <2>3
  <2>5. written + 1 = 4
    BY <1>6
  <2> QED
    BY <2>4, <2>5, PartlyIs DEF marked
<1> QED
  BY <1>1, <1>3, <1>4, <1>5, <1>6

\* Steps that leave the settings in use, the form and the EEPROM alone.
LEMMA QuietStep ==
  ASSUME SettingsInv, UNCHANGED <<conf, form, flash, entered, shouldSaveConfig, written>>,
         pc' # "off",
         pc' \in {"joining", "joined", "saving"} \/ pc = "saving" => pc' = pc,
         mqtt' => mqtt /\ topics' = topics
  PROVE  SettingsInv'
BY DEF SettingsInv, FormInv, ConfInv, SettingsWereEntered, WasEntered, FlashInv, TopicInv

\* What the settings in use may be after the power came back.
LEMMA PowerOnKeeps ==
  ASSUME TypeOK, SettingsInv, PowerOn
  PROVE  SettingsInv'
<1>1. /\ conf' = Loaded /\ pc' = "wifi"
      /\ UNCHANGED <<form, flash, entered, mqtt, topics>>
      /\ ~mqtt
  BY DEF PowerOn, session, SettingsInv, TopicInv
<1>2. CASE flash.ok
  <2>1. conf' = flash.settings /\ flash = [settings |-> flash.settings, ok |-> TRUE]
    BY <1>1, <1>2 DEF Loaded, TypeOK
  <2> QED
    BY <1>1, <1>2, <2>1
    DEF SettingsInv, FormInv, ConfInv, SettingsWereEntered, WasEntered, FlashInv, TopicInv
<1>3. CASE ~flash.ok
  <2>1. conf'.ssid = Blank
    BY <1>1, <1>3 DEF Loaded, TypeOK, Settings
  <2> QED
    BY <1>1, <1>3, <2>1
    DEF SettingsInv, FormInv, ConfInv, SettingsWereEntered, WasEntered, FlashInv, TopicInv
<1> QED
  BY <1>2, <1>3

LEMMA FormSentKeeps ==
  ASSUME SettingsInv, UserSendsForm
  PROVE  SettingsInv'
<1>1. PICK f \in Forms : SendForm(f)
  BY DEF UserSendsForm
<1> QED
  BY <1>1
  DEF SendForm, session, SettingsInv, FormInv, ConfInv, SettingsWereEntered, WasEntered, FlashInv, TopicInv

LEMMA SwitchedOffKeeps ==
  ASSUME SettingsInv, PowerLoss \/ ResetAfterPortal
  PROVE  SettingsInv'
<1>1. /\ pc' = "off" /\ conf' = NoForm /\ ~mqtt' /\ UNCHANGED <<flash, entered>>
      /\ conf'.ssid = Blank
  BY DEF PowerLoss, ResetAfterPortal, NoForm
<1>2. flash.ok /\ flash.settings.ssid # Blank => WasEntered(flash.settings)
  BY DEF SettingsInv, FlashInv
<1> QED
  BY <1>1, <1>2
  DEF SettingsInv, FormInv, ConfInv, SettingsWereEntered, WasEntered, FlashInv, TopicInv

\* The portal ends: the form becomes what is in use, the commit begins.
LEMMA PortalEndsKeeps ==
  ASSUME TypeOK, SettingsInv, PortalEnds
  PROVE  SettingsInv'
<1>1. /\ conf' = [ssid |-> station, server |-> form.server, topic |-> form.topic]
      /\ pc' = "saving" /\ written' = 0 /\ flash' = [settings |-> NoForm, ok |-> FALSE]
      /\ WasEntered(form) /\ shouldSaveConfig'
      /\ UNCHANGED <<form, entered, mqtt>>
  BY DEF PortalEnds, SettingsInv, FormInv
<1>2. conf'.server = form.server /\ conf'.topic = form.topic
  BY <1>1
<1>3. WasEntered(conf)'
  BY <1>1, <1>2 DEF WasEntered
<1>4. flash' = Partly(conf', written') /\ ~flash'.ok
  <2>1. Partly(conf', 0) = Eeprom(Blank, Blank, Blank, FALSE)
    BY PartlyIs
  <2> QED
    BY <1>1, <2>1 DEF Eeprom, NoForm
<1>5. mqtt' => conf'.topic \in topics'
  BY <1>1, <1>2 DEF PortalEnds, TopicsAfterPortal
<1> QED
  BY <1>1, <1>3, <1>4, <1>5
  DEF SettingsInv, FormInv, ConfInv, SettingsWereEntered, WasEntered, FlashInv, TopicInv

LEMMA CommitKeeps ==
  ASSUME TypeOK, SettingsInv, WriteField
  PROVE  SettingsInv'
<1>1. /\ pc = "saving" /\ pc' = pc /\ written' = written + 1
      /\ UNCHANGED <<conf, form, entered, shouldSaveConfig, topics, mqtt>>
      /\ WasEntered(conf) /\ flash = Partly(conf, written)
  BY DEF WriteField, session, SettingsInv, FlashInv
<1>2. flash' = Partly(conf, written')
  BY <1>1, OneMoreWritten DEF TypeOK
<1>3. flash'.ok => flash' = [settings |-> conf, ok |-> TRUE]
  <2>1. flash'.ok => written' = Fields
    BY <1>2 DEF Partly
  <2> QED
    BY <1>2, <2>1, CommitEnds DEF TypeOK
<1> QED
  BY <1>1, <1>2, <1>3
  DEF SettingsInv, FormInv, ConfInv, SettingsWereEntered, WasEntered, FlashInv, TopicInv

LEMMA PortalReturnsKeeps ==
  ASSUME TypeOK, SettingsInv, PortalReturns
  PROVE  SettingsInv'
<1>1. /\ pc = "saving" /\ pc' \in {"wifi", "connecting", "loop"}
      /\ UNCHANGED <<conf, form, flash, entered, topics, mqtt>>
      /\ flash = Partly(conf, Fields)
  BY DEF PortalReturns, AfterPortal, session, SettingsInv, FlashInv, TypeOK
<1>2. flash = [settings |-> conf, ok |-> TRUE]
  BY <1>1, CommitEnds DEF TypeOK
<1> QED
  BY <1>1, <1>2
  DEF SettingsInv, FormInv, ConfInv, SettingsWereEntered, WasEntered, FlashInv, TopicInv

LEMMA OthersKeep ==
  ASSUME SettingsInv,
         \/ WifiWaits \/ SetupEnds \/ LoopFindsNoSession \/ Round \/ ReconnectHead
         \/ ConnectSucceeds \/ ConnectFails \/ Joins \/ JoinFails
         \/ WifiComes \/ WifiGoes \/ SessionDrops \/ WorldChanges
  PROVE  SettingsInv'
<1>1. CASE WifiWaits \/ SetupEnds \/ LoopFindsNoSession \/ ReconnectHead \/ ConnectFails
  BY <1>1, QuietStep
  DEF WifiWaits, SetupEnds, LoopFindsNoSession, ReconnectHead, ConnectFails, OpenPortal, session
<1>2. CASE Round
  BY <1>2, QuietStep DEF Round, OpenPortal, session
<1>3. CASE ConnectSucceeds
  BY <1>3 DEF ConnectSucceeds, SettingsInv, FormInv, ConfInv, SettingsWereEntered, WasEntered,
              FlashInv, TopicInv
<1>4. CASE Joins
  BY <1>4 DEF Joins, SaveWanted, session, SettingsInv, FormInv, ConfInv, SettingsWereEntered,
              WasEntered, FlashInv, TopicInv
<1>5. CASE JoinFails
  BY <1>5, QuietStep DEF JoinFails, session
<1>6. CASE WifiComes \/ WifiGoes \/ SessionDrops \/ WorldChanges
  <2>1. UNCHANGED <<pc, conf, form, flash, entered, shouldSaveConfig, written>>
        /\ (mqtt' => mqtt /\ topics' = topics)
    BY <1>6 DEF WifiComes, WifiGoes, SessionDrops, SessionEnds, WorldChanges, program, session
  <2> QED
    BY <2>1
    DEF SettingsInv, FormInv, ConfInv, SettingsWereEntered, WasEntered, FlashInv, TopicInv
<1> QED
  BY <1>1, <1>2, <1>3, <1>4, <1>5, <1>6

LEMMA SettingsInvariant == Spec => []SettingsInv
<1>1. Init => SettingsInv
  <2>1. NoForm.ssid = Blank
    BY DEF NoForm
  <2> QED
    BY <2>1
    DEF Init, SettingsInv, FormInv, ConfInv, SettingsWereEntered, WasEntered, FlashInv, TopicInv
<1>2. TypeOK /\ SettingsInv /\ [Next]_vars => SettingsInv'
  <2> SUFFICES ASSUME TypeOK, SettingsInv, [Next]_vars PROVE SettingsInv'
    OBVIOUS
  <2>1. CASE Next
    BY <2>1, PowerOnKeeps, FormSentKeeps, SwitchedOffKeeps, PortalEndsKeeps, CommitKeeps,
       PortalReturnsKeeps, OthersKeep DEF Next, Program
  <2>2. CASE UNCHANGED vars
    BY <2>2 DEF vars, program, session, SettingsInv, FormInv, ConfInv, SettingsWereEntered,
                WasEntered, FlashInv, TopicInv
  <2> QED
    BY <2>1, <2>2
<1> QED
  BY <1>1, <1>2, TypeCorrect, PTL DEF Spec

\* Settings in use that name a network were entered, server and topic together,
\* whatever moment the power failed at, in the middle of a commit too.
THEOREM SettingsAreEntered == Spec => []SettingsWereEntered
<1>1. SettingsInv => SettingsWereEntered
  BY DEF SettingsInv, ConfInv
<1> QED
  BY <1>1, SettingsInvariant, PTL

\* In service the settings in use are in the EEPROM, mark and all.
THEOREM SettingsAreKept == Spec => []SettingsArePersistent
<1>1. SettingsInv => SettingsArePersistent
  BY DEF SettingsInv, FlashInv, SettingsArePersistent, InService
<1> QED
  BY <1>1, SettingsInvariant, PTL

\* A session in service listens to the topic that is configured, however the
\* portal was entered and whether the session outlived it or not.
THEOREM TopicIsListenedTo == Spec => []ListensToConfigured
<1>1. SettingsInv => ListensToConfigured
  BY DEF SettingsInv, TopicInv, ListensToConfigured
<1> QED
  BY <1>1, SettingsInvariant, PTL

----------------------------------------------------------------------------
(* The debouncer.                                                          *)

LEMMA Ages ==
  /\ Interval \in Nat /\ 0 \in 0..Interval /\ Interval \in 0..Interval
  /\ \A a \in 0..Interval : Older(a) \in 0..Interval
  /\ \A a, b \in 0..Interval : a <= b => Older(a) <= Older(b)
BY IntervalAssumption DEF IntervalAssumption, Older

LEMMA InitClock == BounceInit => ClockInv
<1> SUFFICES ASSUME BounceInit PROVE ClockInv
  OBVIOUS
<1>1. elapsed \in 0..Interval /\ (method # "lock-out" => elapsed = 0)
  BY Ages DEF BounceInit
<1>2. BounceOK
  BY <1>1, Ages DEF BounceInit, BounceOK
<1> QED
  BY <1>1, <1>2, Ages DEF BounceInit, ClockInv, BounceOK

\* update() leaves the types alone, and sets the clock back whenever the run of
\* samples or the debounced level is broken.
LEMMA UpdateClock ==
  ASSUME ClockInv, Update
  PROVE  ClockInv'
<1> USE Ages DEF ClockInv, BounceOK, Update, Record, Flip, TimeUp, Differs
<1>1. CASE method = "stable" /\ UpdateStable
  BY <1>1 DEF UpdateStable
<1>2. CASE method = "prompt" /\ UpdatePrompt
  BY <1>2 DEF UpdatePrompt
<1>3. CASE method = "lock-out" /\ UpdateLockOut
  BY <1>3 DEF UpdateLockOut
<1> QED
  BY <1>1, <1>2, <1>3

\* Time advances the clock and the two histories together.
LEMMA TickClock ==
  ASSUME ClockInv, Tick
  PROVE  ClockInv'
BY Ages DEF ClockInv, BounceOK, Tick

LEMMA NextClock == ClockInv /\ [BounceNext]_bounceVars => ClockInv'
<1> SUFFICES ASSUME ClockInv, [BounceNext]_bounceVars
             PROVE  ClockInv'
  OBVIOUS
<1>1. CASE Update
  BY <1>1, UpdateClock
<1>2. CASE Switch
  BY <1>2 DEF Switch, ClockInv, BounceOK, bits, history
<1>3. CASE Tick
  BY <1>3, TickClock
<1>4. CASE UNCHANGED bounceVars
  BY <1>4 DEF bounceVars, bits, history, ClockInv, BounceOK
<1> QED
  BY <1>1, <1>2, <1>3, <1>4 DEF BounceNext

\* The clock never runs ahead of the samples or of the last change.
THEOREM ClockCorrect == BounceSpec => []ClockInv
BY InitClock, NextClock, PTL DEF BounceSpec

\* With the default method a change of the debounced level follows an interval
\* of samples that all show the new level, with prompt detection an interval
\* without any change of the samples.
THEOREM NoBounceComesThrough == BounceSpec => ChangeIsStable
<1>1. ClockInv /\ [BounceNext]_bounceVars =>
        [debounced' # debounced /\ method # "lock-out" =>
           /\ steady >= Interval
           /\ method = "stable" => sample = debounced']_bounceVars
  <2> SUFFICES ASSUME ClockInv, BounceNext, debounced' # debounced, method # "lock-out"
               PROVE  steady >= Interval /\ (method = "stable" => sample = debounced')
    OBVIOUS
  <2>1. Update
    BY DEF BounceNext, Switch, Tick, bits
  <2>2. elapsed >= Interval /\ (method = "stable" => pin = unstable /\ debounced' = pin)
    BY <2>1 DEF Update, UpdateStable, UpdatePrompt, Flip, TimeUp
  <2> QED
    BY <2>2, Ages DEF ClockInv, BounceOK
<1> QED
  BY <1>1, ClockCorrect, PTL DEF BounceSpec, ChangeIsStable

\* With the default method and with lock-out, two changes are at least an
\* interval apart.
THEOREM ChangesStayApart == BounceSpec => ChangesApart
<1>1. ClockInv /\ [BounceNext]_bounceVars =>
        [debounced' # debounced /\ method # "prompt" => quiet >= Interval]_bounceVars
  <2> SUFFICES ASSUME ClockInv, BounceNext, debounced' # debounced, method # "prompt"
               PROVE  quiet >= Interval
    OBVIOUS
  <2>1. Update
    BY DEF BounceNext, Switch, Tick, bits
  <2>2. elapsed >= Interval
    BY <2>1 DEF Update, UpdateStable, UpdateLockOut, Flip, TimeUp
  <2> QED
    BY <2>2, Ages DEF ClockInv, BounceOK
<1> QED
  BY <1>1, ClockCorrect, PTL DEF BounceSpec, ChangesApart

----------------------------------------------------------------------------
(* The two debouncers of the Sonoff sketch.                                *)

\* They have read the same samples; while the fast one does not show the last one,
\* its clock is no younger than that of the slow one, or its interval is over.
PairInv ==
  /\ elapsed \in Nat /\ slowElapsed \in Nat
  /\ method = "stable" =>
       /\ unstable = slowUnstable
       /\ debounced # unstable => elapsed >= slowElapsed \/ elapsed >= Interval
LevelsTyped == pin \in BOOLEAN /\ debounced \in BOOLEAN /\ slowDebounced \in BOOLEAN

LEMMA Intervals ==
  Interval \in Nat /\ SlowInterval \in Nat /\ SlowInterval >= Interval
BY IntervalAssumption, SlowAssumption DEF IntervalAssumption, SlowAssumption

LEMMA PairInit == BothInit => PairInv /\ LevelsTyped
<1> SUFFICES ASSUME BothInit PROVE PairInv /\ LevelsTyped
  OBVIOUS
<1>1. /\ elapsed \in Nat /\ slowElapsed \in Nat
      /\ method = "stable" => elapsed = 0 /\ slowElapsed = 0
  BY Intervals DEF BothInit, BounceInit, Slow!BounceInit
<1>2. unstable = slowUnstable
  BY DEF BothInit, BounceInit, Slow!BounceInit
<1>3. LevelsTyped
  BY DEF BothInit, BounceInit, Slow!BounceInit, LevelsTyped
<1> QED
  BY <1>1, <1>2, <1>3, Intervals DEF PairInv

\* One round of loop(): when the slow one takes on a level, the fast one shows it.
LEMMA PairUpdates ==
  ASSUME PairInv, UpdateBoth, method = "stable"
  PROVE  /\ debounced' \in {debounced, pin}
         /\ slowDebounced' = slowDebounced \/ (slowDebounced' = pin /\ debounced' = pin)
         /\ unstable' = pin /\ slowUnstable' = pin
         /\ debounced' # unstable' => elapsed' >= slowElapsed' \/ elapsed' >= Interval
<1>1. UpdateStable /\ Slow!UpdateStable
  BY DEF UpdateBoth, Update, Slow!Update
<1>2. /\ unstable' = pin /\ slowUnstable' = pin
      /\ debounced' = IF pin = unstable /\ TimeUp /\ Differs THEN pin ELSE debounced
      /\ slowDebounced' = IF pin = slowUnstable /\ Slow!TimeUp /\ Slow!Differs THEN pin ELSE slowDebounced
      /\ elapsed' = IF pin # unstable \/ (TimeUp /\ Differs) THEN 0 ELSE elapsed
      /\ slowElapsed' = IF pin # slowUnstable \/ (Slow!TimeUp /\ Slow!Differs) THEN 0 ELSE slowElapsed
  BY <1>1 DEF UpdateStable, Slow!UpdateStable, Flip, Slow!Flip
<1>3. pin = slowUnstable /\ Slow!TimeUp => debounced' = pin
  <2> SUFFICES ASSUME pin = slowUnstable, Slow!TimeUp, debounced # pin PROVE debounced' = pin
    BY <1>2
  <2>1. pin = unstable /\ elapsed >= Interval
    BY Intervals DEF PairInv, Slow!TimeUp
  <2> QED
    BY <1>2, <2>1 DEF TimeUp, Differs
<1>4. debounced' # pin => elapsed' >= slowElapsed' \/ elapsed' >= Interval
  <2>1. CASE pin # unstable
    <3>1. elapsed' = 0 /\ slowElapsed' = 0
      BY <1>2, <2>1 DEF PairInv
    <3> QED
      BY <3>1
  <2>2. CASE pin = unstable /\ TimeUp /\ Differs
    BY <1>2, <2>2
  <2>3. CASE pin = unstable /\ ~(TimeUp /\ Differs)
    <3>1. elapsed' = elapsed /\ debounced' = debounced /\ slowElapsed' \in {0, slowElapsed}
      BY <1>2, <2>3
    <3> QED
      BY <2>3, <3>1, Intervals DEF PairInv
  <2> QED
    BY <2>1, <2>2, <2>3
<1> QED
  BY <1>2, <1>3, <1>4

LEMMA PairNext == PairInv /\ LevelsTyped /\ [BothNext]_allVars => (PairInv /\ LevelsTyped)'
<1> SUFFICES ASSUME PairInv, LevelsTyped, [BothNext]_allVars PROVE PairInv' /\ LevelsTyped'
  OBVIOUS
<1>1. CASE UpdateBoth
  <2>1. method' = method /\ pin' = pin
    BY <1>1 DEF UpdateBoth, Update
  <2>2. elapsed' \in Nat /\ slowElapsed' \in Nat
    <3>1. elapsed' \in {0, elapsed} /\ slowElapsed' \in {0, slowElapsed}
      BY <1>1 DEF UpdateBoth, Update, Slow!Update, UpdateStable, UpdatePrompt, UpdateLockOut,
                  Slow!UpdateStable, Slow!UpdatePrompt, Slow!UpdateLockOut
    <3> QED
      BY <3>1 DEF PairInv
  <2>3. LevelsTyped'
    <3>1. debounced' \in {debounced, pin} /\ slowDebounced' \in {slowDebounced, pin}
      BY <1>1 DEF UpdateBoth, Update, Slow!Update, UpdateStable, UpdatePrompt, UpdateLockOut,
                  Slow!UpdateStable, Slow!UpdatePrompt, Slow!UpdateLockOut, Flip, Slow!Flip
    <3> QED
      BY <2>1, <3>1 DEF LevelsTyped
  <2> QED
    BY <1>1, <2>1, <2>2, <2>3, PairUpdates DEF PairInv
<1>2. CASE SwitchBoth
  BY <1>2 DEF SwitchBoth, Switch, Slow!Switch, bits, Slow!bits, PairInv, LevelsTyped
<1>3. CASE TickBoth
  <2>1. /\ UNCHANGED <<method, pin, debounced, unstable, slowDebounced, slowUnstable>>
        /\ elapsed' = Older(elapsed) /\ slowElapsed' = Slow!Older(slowElapsed)
    BY <1>3 DEF TickBoth, Tick, Slow!Tick
  <2>2. /\ elapsed' = IF elapsed < Interval THEN elapsed + 1 ELSE elapsed
        /\ slowElapsed' = IF slowElapsed < SlowInterval THEN slowElapsed + 1 ELSE slowElapsed
    BY <2>1 DEF Older, Slow!Older
  <2>3. LevelsTyped'
    BY <2>1 DEF LevelsTyped
  <2>4. elapsed' \in Nat /\ slowElapsed' \in Nat
    BY <2>2, Intervals DEF PairInv
  <2>5. elapsed >= slowElapsed \/ elapsed >= Interval => elapsed' >= slowElapsed' \/ elapsed' >= Interval
    BY <2>2, Intervals DEF PairInv
  <2> QED
    BY <2>1, <2>3, <2>4, <2>5 DEF PairInv
<1>4. CASE UNCHANGED allVars
  BY <1>4 DEF allVars, bounceVars, slowVars, bits, PairInv, LevelsTyped
<1> QED
  BY <1>1, <1>2, <1>3, <1>4 DEF BothNext

\* The two debouncers implement the button of the sketch: the slow one only takes
\* on a level the fast one shows, so that a long press is a short press first
\* (loop() of esp_mqtt_sonoff.ino, with the default method of Bounce2).
THEOREM DebouncersImplementButton == BothSpec => ImplementsButton
<1>1. BothInit => Button!Init
  BY DEF BothInit, BounceInit, Slow!BounceInit, Button!Init
<1>2. PairInv /\ LevelsTyped /\ [BothNext]_allVars
        => (method = "stable" => [Button!Round]_(Button!vars))
  <2> SUFFICES ASSUME PairInv, LevelsTyped, [BothNext]_allVars, method = "stable"
               PROVE  Button!Round \/ UNCHANGED <<debounced, slowDebounced>>
    BY DEF Button!vars
  <2>1. CASE UpdateBoth
    <3>1. debounced' \in BOOLEAN
      BY PairNext DEF LevelsTyped
    <3>2. slowDebounced' \in {slowDebounced, debounced'}
      BY <2>1, PairUpdates
    <3> QED
      BY <3>1, <3>2 DEF Button!Round
  <2>2. CASE SwitchBoth \/ TickBoth \/ UNCHANGED allVars
    BY <2>2 DEF SwitchBoth, TickBoth, Switch, Slow!Switch, Tick, Slow!Tick, bits, Slow!bits,
       allVars, bounceVars, slowVars
  <2> QED
    BY <2>1, <2>2 DEF BothNext
<1> QED
  BY <1>1, <1>2, PairInit, PairNext, PTL DEF BothSpec, ImplementsButton
=============================================================================
