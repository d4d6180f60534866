# Verification of esp-stuff

TLA+ models of the sketches and libraries of this repository, model-checked with
TLC, with theorems proved by TLAPS.  Paths are relative to the repository; line
numbers refer to the commit the models were written from.

## 1. The system

The repository holds firmware for ESP8266 boards: sketches (`esp_*`,
`espdisplayhome`) and the libraries they use (`libraries/`).  Almost every sketch
is a node of one home automation: it joins a WiFi network, opens an MQTT session
with a broker, subscribes to a topic and carries out the commands it receives.

A sketch is one thread: `setup()` runs once, then `loop()` for ever.  What makes
it concurrent is the outside (broker, network, power, user, button), callbacks
that run inside library calls, and in a few sketches interrupts.  Everything that
waits blocks everything else.

### Components

| component | state it keeps | operations | talks to |
|---|---|---|---|
| `libraries/pubsubclient` (MQTT client 2.4) | `_state`, `lastInActivity`, `lastOutActivity`, `pingOutstanding`, `nextMsgId`, one packet buffer | connect, loop, publish, subscribe, unsubscribe, disconnect, connected | WiFiClient; runs the sketch's callback inside `loop()` |
| `libraries/pubsubclient.old` (older MQTT client) | the same without a state code; retries and nested waits live on the call stack; the bytes of a packet while it is read | the same, with QoS 0 to 2 and retries (`send_reliably`, `wait_for`, `_process_message`); `send` and `readPacket` of `MQTT.cpp` | WiFiClient; callback inside any call that waits |
| `libraries/Bounce2` | three state bits, `previous_millis` | attach, update, read, rose, fell | a pin |
| `esp_mqtt_sonoff` | settings (RAM and EEPROM), `relayState`, relay pin, `shouldSaveConfig` | setup, loop, callback, reconnect, captivePortal, load/saveCredentials | client 2.4, two Bounce objects, WiFiManager, EEPROM |
| `libraries/WiFiManager` | `connect`, entered network and texts, timeouts; the radio remembers its last network | autoConnect, startConfigPortal, connectWifi, the pages, resetSettings | radio, web server; callback when a form was used |
| NTP clocks (`esp_mqtt_rtc`, `esp_counter_clock`, `esp_mqtt_node`, `esp_http_node`) | the chip's time and validity, `rtc_start_time`, the UDP socket | setRTC by timer and by command, gettime | NTP server, RTC, old client or web server |
| bistable relay (`esp_mqtt_relay`, `esp_mqtt_node`, `esp_http_node`) | `relayState`, two pins; the contact itself | relay on, off, state | old client or web server |
| `libraries/DHT` with `esp_mqtt_dht` | `data[]`, `_lastreadtime`; the sketch's own values and time | read, readTemperature, readHumidity | sensor |
| `libraries/IRremoteESP8266` | `irparams` and `rawbuf`, shared by interrupt, timer and sketch | senders, decode, resume | pin interrupt |
| `libraries/Rtc` | registers of the chip | Get/SetDateTime, alarms, square wave, memory, date arithmetic | I2C; the chip changes its registers by itself |
| `libraries/PCF8574_HD44780_I2C` | display control bits | command, write, setCursor | I2C |
| button panel, daylight alarm, flow meter, displays | a few globals | callback or web handler | old client or web server |
| hardware trials | none beyond a round of loop() | | pins |

### What is hard, and what makes each component correct

* **MQTT clients**: packets are lost with the connection or cut by it, the broker
  refuses, hangs, is late or speaks in the middle of an exchange; callbacks
  re-enter; timers compare ages taken at different moments.  Correct means: the
  reported state is true of this connection, one ping is accounted for at a
  time, only a hung broker is given up and a hung one always is, every QoS
  exchange ends and is acknowledged with its own id, every call returns, and the
  bytes mean what was to be said.
* **Bounce2**: levels between samples are unseen and samples come at uneven times.
  Correct means: bounces never come through, a switch at rest always does.
* **Sonoff sketch**: power may fail inside an EEPROM commit; settings exist in four
  places (form, RAM, EEPROM, client) and change while a session lasts; portals
  block.  Correct means: only settings somebody entered are used, they survive a
  power cycle, the session listens to the configured topic, and the device
  comes back after outages.
* **WiFiManager**: the radio loses and finds networks while forms are filled in;
  timeouts are looked at between blocking calls.  Correct means: a portal ends
  in time, has joined what was entered, and shows the networks there are.
* **NTP clocks**: replies are lost or late, the battery fails, two triggers start
  the same synchronisation, power fails anywhere.  Correct means: a clock that is
  called valid shows the time.
* **Bistable relay**: the contact keeps its place without power, the variable does
  not.  Correct means: what is said of the relay is true.
* **DHT**: two caches, one above the other, with different clocks.  Correct
  means: a value reported as a measurement was measured, and not long ago.
* **IR receiver**: edges come between any two steps of the sketch, frames are cut,
  the buffer keeps what an earlier frame has left.  Correct means: what is decoded is
  one complete frame, as it was sent.
* **Rtc**: a register is read and written back in two transactions while the chip
  goes on.  Correct means: conversions agree with the calendar and with the chip,
  a call changes its own setting only, an alarm is not lost.

`PROJECT.json` lists the hazards line by line, each with the property that would
catch it or the reason why none does.

## 2. The modules

| module | models | kind |
|---|---|---|
| `MqttLink` | TCP connection and broker (external) | environment of both clients |
| `PubSubClient` | client 2.4 | detailed specification |
| `MqttSession` | what `state()` and the keepalive promise | abstract specification, implemented by `PubSubClient` |
| `ReliableClient` | old client, packets as records | detailed specification |
| `MqttWire` | old client, packets as bytes | detailed specification |
| `Bounce` | debouncer, three methods | detailed specification |
| `SonoffButton` | what two debouncers on one button promise | abstract specification |
| `TwoDebouncers` | two instances of `Bounce` on one pin | composition, implements `SonoffButton` |
| `SonoffSwitch` | Sonoff sketch with its portal | detailed specification, relies on `MqttSession` and `SonoffButton` |
| `ConfigPortal` | WiFiManager | detailed specification |
| `Sketch` | power, `setup()`, commands and the thread of the sketches with the old client | common part of the next three |
| `NtpClock`, `DhtSensor`, `BistableRelay` | clock set by NTP, sensor, relay | components |
| `SensorNode` | the devices built of them | composition |
| `IrProtocols` | senders and decoders | pure functions |
| `IrReceiver` | interrupt, timer, `decode()`, `resume()` | detailed specification |
| `RtcDateTime` | dates, BCD | pure functions |
| `RtcCalendar` | a running chip beside them; alarms | chip as the reference |
| `RtcDS3231` | control and status registers | detailed specification |
| `RtcSettings` | what the four settings promise | abstract specification, implemented by `RtcDS3231` |
| `RtcDS1307` | clock registers and memory | detailed specification |
| `Rtc` | the three parts of the library, one at a time | composition |
| `*Proofs` | | theorems |
| `MC*` | | instances for TLC |

A definition marked "Seeded fault" (`X_Something` beside `X`) is `X` with a
plausible mistake in it.  Each property is also run with such a fault in place
and must then fail; `PROJECT.json` says which.

### MqttLink

The link is two reliable ordered queues of whole packets.  `LinkDown` keeps a
prefix of what was under way to the client and may cut one packet in two
(`cut`).  `TcpConnected` is WiFiClient's `connected()`: a connection the peer has
closed counts as connected while unread data is left.  The broker answers within
`BrokerDelay`, treats malformed packets as protocol violations and closes the
connection, may refuse, may ping, may publish with `BrokerQos`, and may hang for
good with TCP still up.  Nothing of this is code of the repository; it is what
the calls the two clients make assume.

### PubSubClient

| action | code (`libraries/pubsubclient/src/PubSubClient.cpp`) |
|---|---|
| `NoticeLoss`, `CallOffline` | `connected()` 538-553, and calls without a connection |
| `ConnectFails`, `ConnectOpens` | `connect()` up to the wait, 116-177 and 200-203 |
| `ConnectTimesOut`, `ConnectAnswered`, `ConnectReadsTorn`, `ConnectGivesUpOnTorn` | the wait and CONNACK, 178-199, `readPacket()` |
| `LoopTimesOut`, `Loop`, `LoopGivesUpOnTorn`, `CallbackReturns` | `loop()` 282-345 |
| `Publish`, `Subscribe`, `Unsubscribe`, `Disconnect` | 359-522 |

A call is one step except where the code lets time pass; `pc` says where that is.
`lastInActivity` and `lastOutActivity` become ages that saturate above every
timeout they are compared with, so the state space is finite without a bound on
time.  The packet buffer is abstracted: a packet fits in it or does not.

### ReliableClient

Processing a packet may start another wait, so the module keeps the call stack as
a sequence of frames; a frame is a wait with the packet it sent, its retries and
the line it is at, or a callback.  The two loops of `wait_for()` are the phases
`poll` and `head`; `blocked` is `readPacket()` without data, `stuck` is
`readByte()` inside a packet whose rest will never come.  The three packets the
library builds wrongly are `UnsubscribePacket`, `PubAckPacket` and
`PubCompPacket`.  A packet cut behind its header is taken as complete with
whatever the heap held (`Parsed`), since the code does not look at how much it
has read.

### MqttWire

`Send` is `MQTT::Message::send()`: `FixedHeader` and one body per message, with `Room` bytes
for the body; a message that does not fit is not modelled.  `ReadType`, `ReadDigit`, `ReadBody`
and `ReadEnds` are `readPacket()`, `Arrives` lets TCP deliver the next bytes.  `pc = "hung"` is
the loop that copies a topic with a `uint8_t`, `"lost"` a reader that takes the middle of a
packet for the beginning of one.  `Understood` is what MQTT tells a broker of a body: the ids
and flags at their places, and texts one behind the other until the end (`AreTexts`).

The constructors read a packet through a position of one byte, `ByteAt` and `NumberAt`: behind the
last one the data starts over.  A topic of 252 to 255 characters (28 to 31 with the bytes of the
run) therefore loses its last characters, its id or its payload, and `ReadAsSent` says for each of
the three up to which length it is read as it was sent.

What the broker sends is `Packet`, with the type and the flags MQTT gives it; `InAssumption` says
that its lengths have two digits at most, and that no SUBACK has more codes than a byte counts
(there is one for a topic, and the topics were in one message of this client).

### Bounce, TwoDebouncers, SonoffButton

`Update` is one call of `update()`; `Switch` moves the pin at any time, `Tick` is
`millis()`.  `sample`, `steady` and `quiet` are history: what the samples have
been, independently of the code's own clock.  The methods are chosen by macros
when the library is compiled; the variable `method` is that choice.
`TwoDebouncers` instantiates the module twice, as the Sonoff sketch does (5 ms and
5 s).  Their two readings in one round are taken as one sample; a bounce in the
microseconds between them is the one thing `ImplementsButton` does not cover.

### SonoffSwitch

`pc` is the place in the sketch.  `PowerOn`, `WifiWaits`, `SetupEnds` are `setup()`;
`LoopFindsNoSession`, `Round` are `loop()` with `callback()`; `ReconnectHead`,
`ConnectSucceeds`, `ConnectFails` are `reconnect()`; `UserSendsForm`, `Joins`,
`JoinFails`, `ResetAfterPortal`, `PortalEnds`, `WriteField`, `PortalReturns` are
`captivePortal()` with WiFiManager below it and `saveCredentials()` at its end.
`EEPROM.commit()` erases the sector and writes it field by field (`WriteField`), and
power may fail between any two.  The radio remembers the last network it was
given, independently of the sketch's EEPROM (WiFiManager's `autoConnect` and its
README rely on that), and `WiFi.begin()` with an empty name changes nothing.
`entered` is history.

One behaviour deserves a word although no document promises otherwise: when
power fails inside a commit, the next boot clears the network name, but the radio
joins the network it remembers, `setup_wifi()` ends, and the sketch goes into
service with an unwritten server or topic until its portal opens.
`SettingsWereEntered` therefore speaks of settings that name a network.

### ConfigPortal

`startConfigPortal` opens the portal; one round of its loop is `Serving` and then
one of `handleWifi`, `OtherPage`, `TakeForm`, `handleReset` or nothing; `PauseEnds`
follows `delay(2000)`, `AttemptSucceeds` and `AttemptFails` are the ends of
`waitForConnectResult()`, `PortalTimesOut` the timeout.  `ByStrength`, `Struck` and `Written` are
the three loops of the list of networks in `handleWifi()`.  `ConnectWifi` is
`connectWifi()`, whoever calls it (`caller`).  The radio is a second process:
`RadioSettles`, `RadioReturns`, `NetworkMoves`.  `config` is a choice of the setters.

### Sketch, NtpClock, DhtSensor, BistableRelay, SensorNode

The sketches with the old client share their outline, which is `Sketch`: `Boots`,
`WifiJoined`, `Connects`, a `loop()` that serves one command at a time, and
`PowerLost` at any moment.  Each part adds the places where the thread may be busy,
as it is really one thread: while `setRTC()` waits for its second (`"syncing"`) or the
relay is pulsed for its 5 ms (`"pulsing"`), nothing else is served.  Which parts a
device has is the variable `sketch`.

* `NtpClock`: `SetupClock`, `SetupAge` are the tests of `setup()`; `TimerSets`,
  `CommandSets` send a request, `SetRTC` is what follows `delay(1000)`.  `socket` is the
  queue of unread replies, as ages; `behind` is the difference of the chip to the
  true time; `late` is history.
* `DhtSensor`: `Read` is the driver's `read()`; `AnswersOldReading`, `StartsReading`,
  `readHumidity`, `readTemperature` are the sketch.
* `BistableRelay`: `PulseStarts`, `PulseEnds`, `AnswersRelay`, `RelayLosesPower`.

### IrProtocols, IrReceiver

A signal is a sequence of durations.  `FirstEdge`, `NextEdge`, `IgnoredEdge` are the
interrupt handler by its state, `Timeout` the timer, `Decode` and
`DecodeFindsNothing` the sketch's call of `decode()`, `Resume` and `ResumeEnds` the two
assignments of `resume()`.  The decoders are functions of the whole buffer, its
stale entries included, and of `rawlen`, in the order in which `decode()` tries them.
The detector makes marks longer and spaces shorter by `lag` (`EdgesOf`); a space that is over by
then it never shows, and the marks on both sides are one (`Seen`).  `Init` is `enableIRIn()`, which
the sketch may call before a transmission or, for those in `Entered`, in the middle of it.

### Rtc

`RtcCalendar` sets a chip that then counts by itself, carrying from register to
register (`Later`, `Midnight`), and compares it with the library's divisions.
`RtcDS3231` splits every call at the bus: `Reads`, then `WritesStatus`, `WritesControl`
or `WritesTime`, with `AlarmFires`, `Converts`, `PowerFails` and `BatteryFails` between.
`RtcSettings` is the same calls as their user sees them: `Begins`, and one action for each of the
four that sets its own setting to the argument as it returns.  Its `call` is the `call` of `RtcDS3231`
while that is one of the four (`Pending`); all other calls are stutters.
`RtcDS1307` has the registers as one array of `Bytes` addresses, so that a run of
bytes may leave the memory at either end.

## 3. What is checked

Bounds are constants of the configurations; nothing else limits the models.

| run | shows |
|---|---|
| `client_safety` | `ConnectedMeansAccepted`, `PingAccounting`, `AckConservation`, `SilenceBounded`, `OnlyHungIsDropped`; `ImplementsSession`: client 2.4 implements `MqttSession` |
| `client_liveness` | `HungIsNoticed`, `ConnectReturns`, `EventuallyAcked` |
| `reliable_safety` | `SuccessMeansHandled`, `CopiesBounded`, with QoS 0 to 2 in both directions |
| `reliable_liveness` | `CallsReturn`, on the first connection and with publications of QoS 0 |
| `wire` | `SentIsUnderstood`, `ReadAsSent`, `ReadInTheEnd`: bytes out and in, with TCP segments cut anywhere |
| `debouncers` | `ChangeIsStable`, `ChangesApart`, `SwitchIsSeen`, for each method; `ImplementsButton`: two debouncers implement `SonoffButton` |
| `sonoff` | `SettingsWereEntered`, `SettingsArePersistent`, `ListensToConfigured`; `ComesBack` |
| `portal` | `TypeOK`, `EndsInTime`, `PageIsRight`, `JoinsTheEntered`; `PortalEnds` |
| `node` | `OnTimeMeansRight`, `RelayKnown`, `GarbageMeansFailure`, `FreshEnough`, for five kinds of devices |
| `ir` | `SentIsDecoded`, `PartIsNoCode` |
| `rtc` | `DatesAreRight`, `AlarmsFire`, `ValidMeansSet`, `AlarmsStay`, `MemoryAndClockApart`; `SettingsImplemented` |
| `rtc_evening` | a counterexample to `ReadsWhatWasSet`, see below |

`TypeOK` of `ConfigPortal` says more than types: a stored text fits its buffer
(`toCharArray`).  The `TypeOK` of the other modules tells the types the proofs start from.

`rtc_evening` ends in a counterexample: the hours from 20 to 23 are read back as 0
to 3.  `BcdToBin24Hour()` (RtcUtility.cpp:24) takes bit 5 for the flag of the 12 hour
mode, which both chips keep in bit 6; in 24 hour mode, the only one the library writes,
bit 5 is set from 20 o'clock on.  `esp_http_node` adds 20 hours in `getTime()` (359) to
get around it.  The other properties of the calendar tell exactly what is still right.

### What the code does that its documents do not say

These can be read off one definition and need no run.  They are in the models as
the code has them.

| definition | what the code does | what is said |
|---|---|---|
| `ReliableClient!Answers` | CONNACK answers `connect()` whatever its return code (PubSubClient.cpp:44-50) | "fails to connect if a bad return code is received" (tests/src/connect_spec.cpp:75) |
| `ReliableClient!ConnectOpens` | `connect()` keeps `pingOutstanding`: the next connection is dropped at its first keepalive (PubSubClient.cpp:171) | "keeps an idle connection alive" (tests/src/keepalive_spec.cpp:16) |
| `ReliableClient`, phase `stuck` | `readByte()` can wait for ever (MQTT.cpp:123), so `connect()` need not return | "fails to connect if no response received after 15 seconds" (tests/src/connect_spec.cpp:26) |
| `ReliableClient`, the nested waits | a wait inside a wait takes the packets the outer one waits for and discards them (PubSubClient.cpp:68) | "Wait for a certain type of packet to come back" (PubSubClient.h:35) |
| `ReliableClient!PubCompPacket` | PUBREC is sent in place of PUBCOMP, so an incoming QoS 2 exchange never ends (MQTT.cpp:413) | "Publish Complete (assured delivery part 3)" (MQTT.h:38) |
| `ReliableClient!WaitFails` | after the first timeout the retries follow at once: the wait counts from the last packet that came in (98) | "maximum number of retries when waiting" (PubSubClient.h:57) |
| `ReliableClient!UnsubscribePacket` | `unsubscribe()` sends a SUBSCRIBE without QoS bytes (MQTT.cpp:487) | the packet begins with 0xA2 (tests/src/subscribe_spec.cpp:114) |
| `ReliableClient!PubAckPacket` | PUBACK has no packet id (MQTT.h:226) | `{0x40,0x2,0x12,0x34}` (tests/src/receive_spec.cpp:221) |
| `SonoffSwitch!Joins`, `ConfigPortal!BailsOut` | a form sent while connected keeps the old network (WiFiManager.cpp:224) | "ESP will try to connect" (WiFiManager/README.md:40) |
| `SonoffSwitch!ConnectFails` | after six failures the portal waits for a user without a limit (esp_mqtt_sonoff.ino:163) | "It will reconnect to the server if the connection is lost" (same file, 14-15) |
| `SonoffSwitch`, the client's address | a newly entered server is saved, but the client keeps the address it was given in `setup()` (290) until the next start | the same line |
| `ConfigPortal!AttemptSucceeds`, with `Finishes` | with `setBreakAfterConfig` the save callback runs although the connection failed (WiFiManager.cpp:195) | "**AND** a connection has been established" (WiFiManager/README.md:138); "and connection was successful" (WiFiManager.h:99) |
| `ConfigPortal!Stored` | a text of the declared length loses its last character (WiFiManager.cpp:547), although the buffer has room for it (36) | the length that is declared |
| `NtpClock!ValidAfterSet` | a DS1307 that is halted stays so: `SetDateTime()` keeps the bit (RtcDS1307.cpp:63) | "it will also reset the valid flag internally" (esp_mqtt_rtc.ino:161) |
| `IrProtocols!decodePanasonic` | nothing looks at `rawlen` (IRremoteESP8266.cpp:1060): noise decodes as the last Panasonic frame | "Require at least 6 samples to prevent triggering on noise" (1272), of `decodeHash()` |
| `DhtSensor!Cached` | within two seconds of a failed reading `read()` reports success | "return last correct measurement" (DHT.cpp:108) |

More that a reader of the models may want to know, although nothing promises otherwise:

* *WiFiManager.*  Forms beyond ten parameters are written past `_params` (67).  The length
  of a parameter is shown with one digit (462, 474).  The access point stays on after the timeout.  Wrong
  credentials are kept by the radio.  A failed scan returns a negative number, which
  becomes the size of an array.
* *Clock.*  A reply that is late by more than its second is taken for the reply to the
  next request, and so on: the clock stays a whole period behind for ever
  (`OnTimeMeansRight` has `late`, and this is why).
* *Relay.*  After a restart "off" is told of a relay that is on, and `relay off` is
  refused, since `relayState` is 0.  The node's session is never opened again
  once it is lost (esp_mqtt_relay.ino:101, `Sketch!SessionLost`).
* *Sensor.*  In the first two seconds after the start the sketch answers 0.
* *IR.*  An NEC frame that breaks off may be read as LG or JVC; RC5, RC6 and SONY take any
  number of bits; SAMSUNG takes its last bit from the frame before (1203); DISH is
  read as a repetition of JVC; Mitsubishi may get one bit too many, and with a detector that
  is late it takes the end of other codes for one of its own, such as that of a Panasonic code
  with fifteen zeros or more.  `PartIsNoCode` is about NEC and Whynter, for which none
  of this happens.  A detector later than 50 microseconds makes one mark of the end of a JVC code and
  the beginning of the repetition the example sends behind it, and the stop bit is not found;
  `SentIsDecoded` excepts what the detector does not show.
* *Old client.*  The topic of an incoming publication is cut, or its id or payload wrong, when it
  has 252 to 255 characters (MQTT.cpp:51); one of 256 never ends (66).
* *Rtc.*  The weekday is written as 0 to 6 to a chip that counts from 1 to 7
  (`AlarmsFire` has the exception this makes).  An alarm that fires between the reading and
  the writing of the status register is lost.  The flag of the stopped oscillator is
  cleared before the time is written.  DS1307 addresses from 248 on wrap onto the
  clock.  `GetMemory()` reaches one byte less than there is.  2100 has a leap day.
  `SecondsIn()` computes in a signed `long`: from 2068 on it overflows.

### Bounds and why they are enough

* `client_*`: `KeepAlive` 8, `SocketTimeout` 2, `MaxGap`, `CallbackTime`, `BrokerDelay` 1: the
  answer to a ping needs a round of the application, a cut packet (the socket
  timeout), a callback and the broker's delay; the keepalive period must be longer
  than their sum, as it is in the code (15 s against 15 s and loops of
  milliseconds only just when a packet is cut), and 8 is the smallest such value
  for the packets the queues hold.  The liveness run of
  client 2.4 uses 2: timing is irrelevant there.
* `QueueCap` 2: two packets under way are enough for every overtaking (an answer
  behind a publication, two publications behind one another); replies are not
  subject to the cap, so queues grow beyond it.
* `MsgIds` two ids: acknowledgements of two publications can be confused.
  `IdSpace` 3 makes the 16 bit counter wrap.
* `reliable_*`: `MaxRetries` 1, `RequestCap` 2 or 3, `MaxConnections` 1: one retry is a
  duplicate, two requests are an answer that is not awaited.
* `debouncers`: `Interval` 4 and 7: room for a bounce inside the interval, at its end and
  just after; the theorems below hold for every value.
* `RefusalCodes` one code: what a client does with a refusal does not depend on which.
* `sonoff`: `WifiTries`, `ConnectTries` 1: the portal opens after a failure that opens none.
  Two servers and two topics: old and new.
* `portal`: right credentials of two networks and wrong ones, a text that is too long, no
  timeout, one or both (3 and 1 against scans and pauses of 1), three scan entries with one
  name twice in every order: what sorting, thinning and timeouts do to each other.
* `node`: `Period` 1, `Forever` 2: a reply is in time, late by one period, or older.
  `MaxFlying`, `MaxSocket` 1: one request under way beside the one waited for; the theorem
  holds for any number.  `Interval` 2, one reading: a value is fresh, at the edge or stale.
* `wire`: a byte has 32 values and the buffer 27 of the 123 bytes, so that a length takes one
  digit or two, a length byte wraps, and messages end just before, at and behind the buffer.
  Topics that arrive have 1, 28, 29, 31 or 32 characters: the position behind them, with an id
  or without, is within a byte, at its end or has started over, or the topic never ends.
* `ir`: three words (zeros, ones, mixed) of every protocol with the real durations and
  buffer, each alone, seven signals also before one of four others, the last one cut at any mark.
  The receiver is turned on before every code and at every edge of it, but for SHARP, which sends
  its word three times, 40 ms apart: there a late sketch comes into the middle by itself.
  A detector that is 0 or 120 µs late; at 150 µs a Panasonic frame is not decoded any more.
* `rtc`: the days 0 to 1500 and 36450 to 36600 at midnight, at 12:34:56, 20:00:00 and
  23:59:59: leap years, those between, and both sides of 2100.  The DS1307 has two
  registers, four bytes of memory and addresses of three bits; the theorem holds for
  every size.

`CHECK_DEADLOCK` is off in two configurations where the system may really stop: `rtc`
(after the last day nothing is left to look at) and `wire` (a reader that hangs).

### Fairness

* Clients: `WF(Proceed)`: the sketch goes on calling `loop()` (an Arduino sketch's
  `loop()` runs for ever) and waits inside the library end when their condition
  holds.  `WF(Tick)`: time passes.  `WF(BrokerReceive)`: a broker that does not hang
  processes what it gets.  Nothing is assumed of `connect()`, `publish()` and the other
  calls of the application, and no fairness keeps a connection up.
* `MqttWire`: `WF(Arrives)`, TCP delivers what it has taken; `WF(Read)`, the program reads.
* `Bounce`: `loop()` calls `update()` again and again, and time passes.
* `SonoffSwitch`: the program runs, power comes back (`WF(PowerOn)`), the radio
  rejoins a network in range.  `AttendedSpec` adds that a portal that keeps opening is
  filled in correctly in the end (strong fairness, since the form is only offered
  from time to time); `ComesBack` needs it, because the portal that opens after six
  failures has no timeout and would otherwise be the end although the broker is back.
  `ComesBack` also assumes that in service the client has the broker's address, since
  it keeps the one of `setup()`.
* `ConfigPortal`: `WF(Program)`, the loop of the portal runs; `WF(RadioSettles)`, an attempt of
  the radio ends; `SF(Tick)`, time passes also between two rounds.  Nothing is assumed of
  the user, who may go on sending forms: `PortalEnds` holds all the same.
* `SensorNode` has none: its properties are about safety.

## 4. What is proved

For all values of the constants that satisfy the modules' assumptions.  Each invariant
below was first checked by TLC, then proved: it holds at the start, every step keeps it,
and it implies the property.

**Client 2.4** (`MqttLinkProofs`, `PubSubClientProofs`)

* `TypeCorrect`: `Spec => []TypeOK`.
* `ConnectedIsAccepted`: `Spec => []ConnectedMeansAccepted`.  The property is not inductive:
  a CONNACK on its way could come from anywhere, and a connection could be opened with a
  leftover "Connected".  `AcceptanceInv` adds the two facts that exclude this:
  `AcceptanceOnWay` (an accepting CONNACK in the queue means the broker has accepted this
  very connection) and `Phases` (in the middle of `connect()` the code is never
  "Connected", outside of it a connection is open only with that code).  There is one
  lemma per group of actions; the network's steps are treated once for the link.
* `ClientImplementsSession`: `Spec => ImplementsSession`, the refinement of `MqttSession`.
  A step is matched with the abstract action it implements, or with a stutter.
  `AnswerInv` excludes the steps that match none: a connection that has been stopped
  holds no packets, and an acceptance that can still be read is this broker's.
* `PingsAreAccounted`: `Spec => []PingAccounting`.  `PingInv` adds where the count begins (a
  connection starts without a ping although `pingOutstanding` may be left over until
  CONNACK arrives) and that a packet is cut only when the connection goes down, so that
  no answer is lost on a connection that stands.
* `AcksAreConserved`: `ClientQos => (Spec => []AckConservation)`.  `AckInv` adds that no packet id
  is under way twice, in either direction, and that nothing but PUBACK acknowledges.
  `ClientQos` says that the broker publishes with QoS 0 and 1; this is what the broker
  of such a client does, as `subscribe()` refuses a higher one (PubSubClient.cpp:473)
  and a broker publishes with no more than was asked for.
* `OnlyHungAreDropped`: `Patience => (Spec => OnlyHungIsDropped)`.  Whether a ping is answered in time
  depends on how many packets are before it.  `RoomInv` bounds them: no queue outgrows `QueueCap`
  by more than what one round of `loop()` owes, an answer to a ping and a PUBACK.  `AgeInv` bounds
  the age of a ping by the places it still has to pass: `BrokerDelay` for each in the
  broker's queue, a round of the application for each in the client's.  `Patience`
  is what follows for the keepalive period: it is at least
  `(QueueCap + 2) * (BrokerDelay + MaxGap + CallbackTime)`.  The code states this relation nowhere; its
  15 s meet it for loops and callbacks of milliseconds.  The bound is sufficient, not tight:
  with the constants of the run it asks for 12, where TLC finds that 8 will do.
* `SilenceIsBounded`: `Spec => []SilenceBounded`.  The bound speaks of the broker's clock, the
  code looks at its own.  `SilenceInv` relates them: while nothing is on its way to the
  broker, it has heard the client no longer ago than the client has written, and that
  age is bounded by `loop()`; while something is on its way, `BrokerDelay` bounds the rest.

**Old client** (`ReliableClientProofs`)

* `TypeCorrect`: `Spec => []TypeOK`, with a call stack of any depth.
* `SuccessIsServed`: `Spec => SuccessMeansHandled`, by `ServedInv`.  `StackInv` says that only the
  innermost call can be a callback or hang in a packet that was cut, and that all others wait
  after a request this client writes.  `AnswersInv` says that while the connection stands no packet
  on its way to the client is cut, and each answer that carries an id answers a request in `handled`.
  Then `SameRequest` says that type and id of the answer leave only the one request.
* `CopiesAreBounded`: `NoWrap => (Spec => []CopiesBounded)`, by `CopyInv`.  A wait bounds the copies of its
  own request by its retries, but the exchange about a QoS 2 publication of the broker goes
  back and forth: the client answers PUBREL with a PUBREC (sent in place of PUBCOMP), the
  broker answers that with PUBREL.  So `Pairs` counts the PUBREC on their way together with the
  PUBREL, which these steps keep.  `Fresh` counts the publications with an id that are
  still unread: one at most, and none while a call is about that id (`AboutBounded`), since the
  broker takes an id that is in use no second time.  `Distinct` says that only the outermost call
  waits after a request with an id of the client's, and that no two calls are about the same
  id of the broker's.  `NoWrap` (`RequestCap < 65536`) is needed: `next_packet_id()`
  starts over after 65535, and a new request can then have the id of one on its way.

**Old client, bytes** (`MqttWireProofs`)

* `ReadsAsSent`: `Spec => []ReadAsSent`, for every set of messages, every (even) number of values of a
  byte and any number of packets under way.  `StreamInv` says what is on its way at each place of
  `readPacket()`: the rest of the packet being read (`InLength`, `InBody`) and behind it the packets not
  begun (`Follows`), wherever TCP has cut the stream.  `MessageIs` is what the constructors make of a
  whole packet; it rests on lemmas on remainders, since `size` and `pos` have lost what a
  byte does not hold (`PartOfLength`), and on which bytes stand where in a packet (`At`).
  `TopicInReach`, `IdInReach` and `PayloadInReach` say up to which topic a position has not started
  over; the bounds of the property are theirs, and none of them can be one higher.
* `SentMessagesAreUnderstood`: `Spec => []SentIsUnderstood`, for every message of `OutTypes` that fits in
  the buffer.  The reader of the property knows nothing of how a body was written: he goes from one
  length to the next (`Starts`), and the flags tell him which texts there should be.  `Holds`
  says that a run of bytes is made of texts, and where each begins; `HeldJoin` is that two such
  runs make one, `FlattenHeld` that a Subscribe makes one of any number of topics, and
  `TextsFollow` that who goes through a run comes to those places and to no others.
  `HeaderIs` finds the body behind one or two digits of its length.

**Bounce2** (`SonoffSwitchProofs`)

* `ClockCorrect`, `NoBounceComesThrough`, `ChangesStayApart`: `[]ClockInv` and from it the two action
  properties.  `ClockInv` says that `previous_millis` is never older than the run of equal
  samples, or the last change, it stands for; that is what the three ways of resetting
  it have to keep.
* `DebouncersImplementButton`: `BothSpec => ImplementsButton`.  Two debouncers see the same
  samples but restart their clocks at different times.  `PairInv` says that while the
  fast one does not show the last sample, its clock is no younger than the slow one's,
  or its interval is over: so the slow one never changes alone.  It needs
  `SlowInterval >= Interval`, as the sketch has it (5 ms and 5 s).

**Sonoff sketch** (`SonoffSwitchProofs`)

* `TypeCorrect`: `Spec => []TypeOK`.
* `SettingsAreEntered`, `SettingsAreKept`, `TopicIsListenedTo`: the three invariants of the run
  follow from one, `SettingsInv`, with a part for each place the settings are in.
  `FormInv`: a portal that is joining holds a form somebody has sent, and a joined one will save it;
  `FlashInv`: an EEPROM with its mark names entered settings, during a commit it holds the
  fields written so far and no mark, and at any other time what is in use; `ConfInv`: the
  settings in use were entered, and without power there are none; `TopicInv`: every
  session, in service or in the middle of a portal, listens to the topic in use.

**WiFiManager** (`ConfigPortalProofs`)

* `TypeCorrect`: `Spec => []TypeOK`, with the text that fits its buffer and the access point that is
  on in the portal.  `PortalInv` adds who called (`caller`) at each place and that a list of
  networks is only held while a page is served.
* `PortalEndsInTime`: `Spec => []EndsInTime`.  The loop looks at its timeout between two pages
  only, so the bound is not inductive: `TimeInv` says at each place how much of the limit may be
  spent by then (in the pause, in the attempt, after it).
* `EnteredIsJoined`: `Spec => []JoinsTheEntered`.  `FormInv` follows the form from the page to the
  radio, which may lose and find networks during the attempt.
* `NetworksAreListed`: `Spec => []PageIsRight`, for scans of any length.  `PageInv` says that the page lists the
  last scan; the rest is what the loops of `handleWifi()` compute.  After i turns of the outer loop
  the places 1 to i are in order and nothing behind them is stronger (`OuterIs`, by what a turn of
  the inner one does, `InnerIs`), the members stay the same, and writing keeps the order of the places
  it does not pass over (`WritingIs`).

**Clock, sensor and relay** (`SensorNodeProofs`)

* `RelayIsKnown`: `Spec => []RelayKnown`.  `RelayInv` adds that a pin is high exactly while the
  thread is in a pulse, so that nothing but the end of the pulse, or the loss of power in
  it, moves the contact.
* `ClockIsRight`: `Spec => []OnTimeMeansRight`.  A late reply spoils the next synchronisation only by
  being in the socket; the invariant `SyncInv` therefore says that, while none was late, the
  socket is empty but for the one reply that is waited for (`OneReply`), and that all other
  requests under way are older than the wait, so that none of them can answer in time.
* `GarbageIsOfAFailure`: `Spec => []GarbageMeansFailure`, by `GarbageInv`, which follows what a failed
  transaction leaves in `data[]` up to the next one that succeeds.
* `AnswersAreFresh`: `Spec => FreshEnough`.  Two caches lie above one another, each with its own
  interval; `FreshInv` says that a value is younger than the interval when the sketch takes it
  over, so that later it is at most that much older than the sketch's own clock says.

**Rtc** (`RtcProofs`)

* `ValidTimeWasSet`, `AlarmsAreNotLost`: `Spec => []ValidMeansSet` and `Spec => []AlarmsStay`.
  `ReadInv` relates the copy a call holds to the register as it is by now: a flag the chip
  has set since is the only thing they differ in.
* `SettingsAreKept`: `Spec => SettingsImplemented`, the refinement of `RtcSettings`: the step that returns
  from a call for a setting sets that one to the argument of the call and leaves the
  other three, and every other step but the failure of the battery leaves all four.
* `MemoryIsApart`: `Spec => []MemoryAndClockApart`, for every size of the chip and every run of bytes.
  `MemoryInv` adds where what was stored is kept.
* `DatesRight`: `Spec => []DatesAreRight`.  `CalendarInv` says that the registers hold the date the
  library makes of the day, with the weekday congruent to it and the century bit as it should be.
  It rests on what the library's loops over years and months find for a day
  and for the day after it.
* `AlarmsRight`: `Spec => []AlarmsFire`, one case for each control; the bits that choose it stand beside
  BCD numbers in the same registers, and lemmas take them apart again.
* `WhatIsReadAgain`: every date of the century that `SetDateTime()` writes is read again as it was,
  but for the hours from 20 on; by lemmas on BCD.

What a recursive function computes is proved in `DatesRight`, `NetworksAreListed` and
`SentMessagesAreUnderstood` by an induction written out, since the induction rules of the library take an operator.  TLA+ chooses such a
function among the solutions of its equation.  So first there is one (`LoopExists`: a set of
turns reached that holds 0 and, with i, i + 1; or the least argument, `Least`, for
which there is none), and then its values are what the lemma says, or there is a least
argument where they are not.

The proofs use nothing but the modules' named assumptions on constants, `ClientQos`, `NoWrap` and
`Patience` where it is said, and the library's facts on sequences, functions, finite sets and
the order of the natural numbers.  Two of the assumptions say where a theorem ends: the days of
`CalendarAssumption` are those whose seconds a `uint32_t` holds, and the messages of `InAssumption`
those with a length of two digits.  `OutAssumption` is the types of the fields of MQTT.h.

Only model-checked:

* Liveness, since fairness and ENABLED are out of the prover's reach: `HungIsNoticed`,
  `ConnectReturns`, `EventuallyAcked`, `CallsReturn`, `ComesBack`, `PortalEnds`, `ReadInTheEnd`,
  `SwitchIsSeen`.
* What the other recursions compute for every input: `SentIsDecoded` and `PartIsNoCode` (eleven
  decoders that walk through a signal by their own rules).

## 5. Not modelled

* Messages that overrun the old client's buffer, and layout and lengths of client 2.4's packets.
* The wrap of `millis()` after 49.7 days: ages saturate in the models.
* In WiFiManager: static addresses, WPS (never turned on), the text of the pages, more
  parameters than one.
* In the IR library: `decodeSanyo` (`decode()` does not call it), `disableIRIn`, the blinking
  LED; of the carrier only the rounding of marks.
* In Rtc: temperature, the aging offset, the square wave of the DS1307, the I2C bus itself.
* The components marked `not_modelled` in `PROJECT.json`, with their reasons there.
* `MQTT.cpp` and `MQTT.h` beside client 2.4: identical copies of the old client's files,
  which client 2.4 does not use.
* Library examples, HTML pages, tests.

## 6. Plan

Done, in this order: `MqttLink`, `PubSubClient`, `MqttSession` and their proofs;
`ReliableClient` and its proofs; `Bounce`, `SonoffButton`, `TwoDebouncers` and their proofs;
`SonoffSwitch` and its proofs; `ConfigPortal` and its proofs; `MqttWire`; `Sketch`, `NtpClock`, `DhtSensor`,
`BistableRelay`, `SensorNode` and their proofs; `IrProtocols`, `IrReceiver`; the Rtc
modules and their proofs.

Next models:

1. The nibbles of `PCF8574_HD44780_I2C` against a display that may be reset by itself.
2. The flow meter: two counters incremented by interrupts while the callback reads them.
3. The button panel over an abstract session of the old client.
4. More than one parameter in `ConfigPortal`.

Next proofs: of the decoders the one that most remote controls need, NEC, alone.
