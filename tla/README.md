# A formal model of sonyctl

sonyctl controls Sony headphones over Bluetooth. One daemon holds one RFCOMM
link to the headset and serves it to concurrent HTTP clients; a command-line
client and a Waybar script talk to the daemon. This directory holds TLA+ modules
that model the daemon, the clients' requests and the development tool, TLC
configurations that check them on small instances, and proofs that the TLA+
proof system checks for every instance.

Paths such as `connection.rs` are files of `src/` of the repository.

## 1. The system

| Part | Source | State it keeps | Operations | Uses |
|---|---|---|---|---|
| Frame codec | `protocol.rs` | none; works on the receive buffer | `Frame::encode`, `decode_frame`, `unescape`, `checksum` | |
| Connection | `connection.rs` | socket, receive buffer, `tx_seq`, `data_type`, timeout, `broken` | `open`, `send`, `recv`, `request`, `set_data_type`, `set_timeout` | codec |
| Commands | `commands.rs`, `types.rs` | none | payload builders, parsers, accepted opcodes, tables | |
| Session manager | `service.rs` | one optional session behind a tokio mutex | `connect`, `disconnect`, `session`, `exchange_on`, one getter and setter per feature, `status`, `device_info` | connection, commands, discovery |
| HTTP server | `server.rs` | none beyond the shared manager | one handler per route | manager |
| Discovery | `bluetooth.rs` | none; runs `bluetoothctl` and `sdptool` | `resolve_connected_device`, `detect_rfcomm_channel` | |
| CLI | `main.rs` | none | `api`, `connected`, one command per route | server |
| Probe | `probe.rs` | a connection of its own | `probe`, `listen` | connection, discovery |
| Waybar script | `contrib/waybar/sonyctl-waybar.sh` | time stamp, lock file, low-battery flag | status line, cycles, toggles, `reconnect` | server |

How they interact. A client's HTTP request becomes a handler on the tokio
runtime. The handler calls the manager, and each call takes the mutex on its
own, so other handlers run between two calls of one. Under the mutex
`exchange_on` writes one command and reads frames until the headset has
acknowledged it and answered it. The headset speaks at any time: it
acknowledges, it replies, and it pushes notifications that nobody asked for. A
handler whose client hangs up is dropped at the await it has reached, and with
it the mutex; what it sent is not called back.

What is hard, and what correct means, part by part:

* **Connection.** Acknowledgements carry no name of what they acknowledge and
  replies none of what they answer; both are matched by order and by opcode.
  Correct: an exchange is answered by a reading that is live, each data frame is
  acknowledged, sequence numbers alternate, a deadline ends every wait, and what
  an abandoned exchange leaves in flight is understood.
* **Manager.** Connects, disconnects, exchanges and cancellations of many
  clients meet on one session. Correct: one link at most, a dead session is
  dropped before anyone else sees it, nobody's exchange loses its session to
  another client, and every request ends and gives the mutex back.
* **Handlers.** `POST /api/noise-control`, `set_anc_mode` and `set_eq_bands`
  read, compute, and write in another exchange. Correct: what they write agrees
  with what the headset held, or the exception is understood.
* **Codec and commands.** Correct: `decode_frame` undoes `encode`, consumes one
  frame per call and resynchronises after noise; parsers undo builders.
* **Probe.** Correct: a late frame is not reported as the current reply.
* **Waybar.** Instances run concurrently. Correct: connects are throttled, one
  notification per discharge, toggles do not lose clicks.

The hazards of each part, with the source line where each bites and the property
that covers it, are listed in `PROJECT.json`.

## 2. The modules

| Module | Models | Extends, uses |
|---|---|---|
| `Exchange` | what a session promises: the abstract specification | |
| `Connection` | `SonyConnection`, the exchange run on it, the headset and the link | instance of `Exchange` |
| `ConnectionProofs` | theorems about `Connection` | `Connection` |
| `SharedSession` | what the server promises the clients of its session: the abstract specification | |
| `Manager` | the mutex, the session under it, the handlers of concurrent clients | instance of `SharedSession` |
| `ManagerProofs` | theorems about `Manager` | `Manager` |
| `Settings` | the values: what setters read, merge, write and answer, against a headset others change too | |
| `SettingsProofs` | theorems about `Settings` | `Settings` |
| `Framing` | the codec and the read loop that feeds it, byte for byte | |
| `FramingProofs` | theorems about `Framing` | `Framing`, `DataInduction` |
| `Commands` | opcodes, payload builders and parsers | |
| `CommandsProofs` | theorems about `Commands` | `Commands`, `DataInduction` |
| `DataInduction` | lemmas: induction over the naturals, and that a recursive function exists and is unique | |
| `Probe` | the development tool: the sweep and the capture | |
| `ProbeProofs` | theorems about `Probe` | `Probe` |
| `Waybar` | concurrent instances of the Waybar script and the files they share | |
| `WaybarProofs` | theorems about `Waybar` | `Waybar` |
| `MC...` | an instance of each for TLC | the module |

`Connection` and `Manager` meet at the exchange: `Manager` runs one as the pc
value `exchanging` and ends it with any result `exchange_on` can return, and
`Connection` says what happens in between, for one exchange after another of one
session. The other modules take up what `Connection` abstracts from. `Settings`
has the values, over exchanges of a session in sync (`InSync`). `Framing` has the
bytes: its verdicts are those that the reader of `Connection` comes to, an error
that drops the frame or one that leaves it in front. `Commands` has the payloads:
that a request takes only its own feature's answers is what lets `Connection`
and `Settings` speak of features. `Probe` shares the link with the daemon and
nothing else.

### Connection

| Code | Model |
|---|---|
| `tx_seq`, `data_type` | the variables of these names |
| the buffer, then what the socket holds | `inbox`, a sequence of frames |
| the deadline of the current `send` or `recv` | `expired`, set by `Expire`, cleared when a read starts a deadline |
| where `exchange_on` is | `phase`: `sending` (in `send`), `receiving` (in the loop around `recv`), `idle`, `closed` |
| the `accepts` opcodes | `accepts`, a set of features |
| `broken`, and `exchange_on` dropping the session for it | one step, `BeginFails` or `LinkFails`: there is no await between the two |
| the loop of `send` | `SendAcked`, `SendSkipsData` |
| the loops of `recv` and `exchange_on` | `RecvSkipsAck`, `RecvAnswers`, `RecvSkipsData` |
| an error of `decode_frame` | `BadFrame`; a frame whose unescape fails stays in front of the buffer (`"stuck"`), any other is dropped |
| `timeout_at` | `TimesOut`: it polls the read first, so it fires with an empty inbox only |
| a dropped handler | `Cancel`, at any moment of the exchange |

Opcodes are abstracted to the feature they belong to, values to a small set, and
a set to a command that carries a value. The headset is external. Its actions
follow `docs/protocol.md` and the comments of the code: it acknowledges a command
and acts on it later; it answers a read with its current value, notifies of a
change it was told to make, is silent about a value it already holds and about a
command on the wrong table; its user turns knobs, and it may or may not push a
notification. The link keeps order, loses commands, damages frames and dies.
Once the socket has closed the session is dropped with all that is in flight.

History variables (`clean`, `late`, `seen`, `unacked`, `lastSeq`) are read by
properties only.

### Manager

A request is a `plan`, a sequence of steps each of which takes the mutex once:
`GET /api/battery` is one exchange, `POST /api/noise-control` a read and a write,
`status` a look at the session and six optional readings. A write that meets
silence is followed by a read. `Ends` says whether a handler goes on after a
step, confirms it, or fails, from the `?` and `match` of each operation and from
`optional`. `lock` is the mutex with its first-come-first-served queue; hanging
up while queued leaves the queue. A write with a value out of range is refused
before it takes the mutex (`Refused`).

`connect` holds the mutex through `resolving` (`bluetoothctl`, `sdptool`),
`opening` and `settling`. With a session open it answers with that one
(`ConnectReuses`), whatever address it was given, although the CLI's help calls it
"Open a session with a specific device." (`main.rs:37`). A failing exchange passes through the pc value
`failing`, between setting `broken` and dropping the session; there is no await
there, so `Cancel` cannot happen then.

A CLI subcommand is a request too. `CliPlan` maps each to the route it calls
(`Serves`). All but four go through `connected` first: it asks for the session
(`EnsureSession`), and without one puts a `connect` in front of the rest. These
are requests of their own, with other clients in between.

`SharedSession` is the same without mutex, queue, plans or links: a session that
clients take in turn. The mapping is in `Manager`: the device of the session, the
client that is at the headset (`Talking`), and those who found no session
(`FoundNone`). A connect is one step there, taken when its session is installed;
an exchange is two, `Take` and `GiveBack`.

### Settings

Each client makes one request: a `get`, a `set`, or a `patch`, which reads the
setting, merges what the caller gave into it and writes the whole back in a
second exchange: `POST /api/noise-control` and `set_anc_mode` (level and voice
kept), `set_eq_bands` (bands go to the active preset, or to User 1 if that one is
fixed). `ToWrite` is what is written, `Accepted` the ranges of the payload
builders, checked before the mutex is taken (`Refuse`). An exchange is `sent`,
then `acked` or `lost`; its answer is the first reading of its feature pushed
after the ACK (`Pushed`), or silence (`TimesOut`), after which a set reads what the
headset holds, whether its command was acknowledged or lost. `agenda` holds what the headset has acknowledged and not acted
on, so that an abandoned set takes effect during a later request. `Applied` is
the headset of `docs/protocol.md`: level and voice are held in ambient mode
only, a level of 0 is held as 1, a preset brings its own bands. `Press` is
anything else that changes it. The six bands move as one.

### Framing

`Encode` is `Frame::encode`, `DecodeFrame` is `decode_frame` with `Judge` and
`Unescape`, as recursive functions over sequences of bytes; `Checksum` wraps at
256. `line` holds the bytes under way, `Read` appends any part of them to
`buffer` when it holds no whole frame, as `read_frame_until` does, and `Decode` is
a call that returns. At most one frame is damaged: a byte lost or misread, the
frame cut at either end. `OnTheWire` is what `Frames` must be: a type that is the
one its byte names (`DataType::from_byte`), bytes, and a payload whose length
fits the `u32` of the header, which `Frame::body` casts to without a check.

### Commands

The headset holds one feature as the bytes it would report, values out of range
included. `Write` sends what `Build` makes of a value, if anything, and `Stored` is
what it holds then. `Push` sends a return or a notification, whole or cut off
anywhere. `Take` is a request for any feature that meets it: `Accepts` decides,
`Parse` reads. A parser's or builder's refusal is the empty set. `Band` casts to
`i8` as the code does. `Utf8` is the check of `String::from_utf8` on the texts
(`TakeString`); one model name has a letter of two bytes. `Values` is what the types of the setters admit
(`types.rs`), in range or not.

### Probe

`phase` follows `probe` and `listen`; `at` is the payload of the sweep, `printed` the
line of each, `inbox` the receive buffer and the socket. Draining ends with
silence or any error; `send` takes any ACK; the next data frame is the reply,
whatever its opcode; silence goes on with the same link, another error prints
and opens a new one in place of the old. The new one is opened while the old is
still held, so a link that is alive is refused and the sweep ends
(`ConnectFails`). `holder` says who has the RFCOMM link; the daemon may have it.

### Waybar

Each instance is run for a command and run again when it has ended; `pc` follows
the script command by command, since two instances interleave at each. `stamp` is
the content of `last-connect`, empty without a file and while `echo` has truncated it
(`Truncates`); `lock` is the `flock`; `flag` is the file `low-battery`. The time is read
before the stamp (`ReadsClock`, `ReadsStamp`) and written after the lock (`Posts`).
`ToPost` is what a cycle or toggle writes given the status it read, a missing part
counting as no mode, zero or false. A menu is left by a choice (`Picks`) or without
one (`Dismisses`). The daemon is abstracted to whether it has a
session; a write may fail, or be given up by `curl` and take effect later
(`TakesLate`). Whether headphones are connected and the server runs is either
outcome of a step. `before`, `notices`, `crowded`, `missed` and `lastPost` are history variables.

## 3. What is checked

| Run | Instance | Result |
|---|---|---|
| `connection` | 2 features, one per table, 2 values, both kinds of damage, `MaxInFlight` = 2; 332 152 states | passes |
| `manager` | 2 clients, 2 devices, every request and subcommand, `StatusReadings` = 2; 78 665 states | passes |
| `settings` | 2 clients, 8 requests, 2 presets, levels to 3, `MaxAgenda` = 2, `MaxPresses` = 2; 3 786 022 states | passes |
| `framing` | sequences of up to 3 of 2 frames, one damaged anywhere; 121 265 states | passes |
| `commands` | 8 features, the edges of every range; 77 233 states | passes |
| `probe` | sweep of 3 payloads with 1 push, or capture with 3; 667 510 states | passes |
| `waybar` | 2 instances, 5 commands, `MaxTime` = 1, `MaxLate` = 1; 3 165 268 states | passes |
| `reading_is_live` | as `connection`, no damage, `MaxInFlight` = 3 | violated |
| `connect_replaces_dead` | as `manager` | violated |
| `silence_means_applied` | as `settings`, 1 client, nobody at the headset | violated |
| `keeps_omitted` | as `settings`, noise-control patches only | violated |
| `consumes_one_frame` | one frame with a reserved checksum, damaged | violated |

**connection.** `FreshReading`: an exchange that began with no ACK in flight is
answered with a reading the headset held at some moment of that exchange, though
older notifications of the same feature may be queued. It holds because `send`
throws away whatever was pushed before the ACK. `InSync`: as long as no exchange
was abandoned inside `send`, all of them begin that way. An exchange abandoned in
`recv` does no such harm: its ACK was read. `AckedMeansTaken`, `SeqAlternates`,
`EveryFrameAcked` and `CommandsRideTheirTable` say what the two sides know of
each other. `KeepsPromise` is the refinement of `Exchange`. `SendEnds` and
`ExchangeEnds` are the two deadlines: that of `send` covers its whole wait, that
of `recv` starts again with every unrelated frame.

**manager.** `OneLink`, `DeadSessionIsNeverFound`, `LockIsGivenBack`,
`ExchangeKeepsItsSession`, `NoSilentSwitch` and `RequestsEnd` hold with every
interleaving of handlers and cancellations. `TakesTurns` is the refinement of
`SharedSession`: a client has the session to itself while it talks to the headset;
it is opened or dropped only when nobody does, or by the exchange that fails; what
a client is told of the session is so at that step; and none is refused for want
of a session while there is one.

**settings.** `MergedFromOneReading`: the fields a patch leaves out are written as
they were at one moment since the request, never from two readings or an older
one; bands go to a preset that takes them. `AnswerWasHeld`: an answer is a value
the headset held since the request, after silence too. `RefusedForCause`: a
request is refused for its own values, with one exception that the model found:
a headset that holds a level above the range makes a patch without a level fail.
`UndisturbedSetTellsItsEffect`: a set that nobody disturbs and that is answered ok
is answered with what was asked for, by way of a notification, of silence and a
read, or of a headset slower than the deadline; but if its command was lost, with
the value held before. The setter cannot tell the two silences apart
(`silence_means_applied` below), so a client learns that its set was lost only by
comparing the answer with what it asked for.

**framing.** `IntactComesOut`: for every split into reads, undamaged frames come
out as they went in. `DamageStaysLocal`: once everything is read, a damaged
frame has cost itself and at most the next one (nothing is said of a reader stuck
on a bare escape), and nothing comes out in their place but one frame whose checksum is
that of one of them or the byte it is escaped to. There are such frames of both
kinds. The bytes 45 and 62 are sent as `2d 3d 2e`, and with `2d` misread as `3d` they
decode to 61 and 46, which have the same sum. A payload that ends in 77, in a frame
whose checksum is the reserved 60, ends in `4d 3d 2c`: with `4d` misread as `3d` that
is the byte 61 and the checksum 44, which fits. One frame of the run is of both
kinds. `ReadsOn`: damage does not keep the reader from what arrives later, but for
the bare escape below.

**commands.** `OwnAnswersOnly`: no opcode is taken by the request of another
feature. `ReadsBack`: what is set is what is read back, and whatever the headset
holds can be read. `NoPartialReading`: a payload that breaks off is refused or
reads as the whole one. `TypeOK` includes that bands fit their `i8`: a raw byte above
137 is read as a negative band.

**probe.** `OutOfStepOnlyAfterSilence`: a line shows the answer to another payload
only after a silence or a push taken for a reply, with no error in between.
The code says of the drain that stale frames "are never mistaken for the current
reply" (`probe.rs:76-77`): an answer later than the drain still is, and this is what
bounds it. `HearsEverything`: a capture misses no intact frame, repeats none and
keeps their order. `Ends`: both modes end, as long as the headset does not push
for ever.

**waybar.** `ThrottledAndSerialized`: two connects are never under way at once, and
one follows the look at the clock of the one before by the throttle, unless it
read the stamp before that one wrote it, or while the file was empty. The
exceptions are real: the check is outside the lock, and a slow instance writes
its older time over a newer one. `OneNoticePerDischarge`: a second notification in
one discharge takes two instances that look at the flag at once, or one that was
looking when the discharge began. `AloneClickTakesEffect`: a toggle or cycle
during which nothing else happens, given a whole status, has moved its setting on
as the usage says if it ends ok, and a reconnect is not held up by the throttle; of
a set it says nothing. Two clicks that overlap may
write the same value. The script says of these "Throttled and serialized"
(line 79) and "One notification per discharge" (line 214): both hold but for
instances that run at once, which line 80 expects.

The five violations are disagreements between code and documentation, and one
defect of the code (`consumes_one_frame`):

* `reading_is_live`: `send` takes any ACK (`connection.rs:71`). If an exchange is
  cancelled or times out before its ACK arrives, the next command consumes the
  late ACK, and a notification pushed before that command is returned as its
  answer. `docs/protocol.md:58-59` calls the reading "the live one".
* `connect_replaces_dead`: `broken` is never set while the mutex is free
  (`DeadSessionIsNeverFound`), so the replacement of a dead session in `connect`
  (`service.rs:47-48`) is unreachable, and a link that died between exchanges is
  answered as a live session.
* `silence_means_applied`: a setter takes every timeout for the silence of a set
  that changes nothing, also one without an ACK (`service.rs:162`). "Silence after a
  set therefore means the value was already applied, not that the write failed"
  (`docs/protocol.md:103-104`): a set whose command is lost is met with the same
  silence, and answered ok with the old value.
* `keeps_omitted`: between the read and the write of a patch another client or a
  button may change what the caller left out, and the write sets it back
  (`server.rs:146`). The README says "Anything left out keeps its current value."
* `consumes_one_frame`: when `unescape` fails, `decode_frame` returns before it
  drains the frame (`protocol.rs:116`), and every later call fails on it again.
  "Consume one complete frame from the front of `buf`." (`protocol.rs:102`)

**Bounds.** `MaxInFlight` bounds the frames and commands in flight when a command
or a change of value adds one; acknowledging and answering a command never add to
the count beyond one. Two are enough for an abandoned command's ACK and a stale
notification to meet the next command, which is the shortest path of every known
failure; the safety properties were also run at three (10.2 million states). Two
features are one per table, so that a stale table, an unrelated frame and an
answer all differ. Two clients put one handler between any two steps of another;
the safety properties were also run with three. `StatusReadings` = 2 stands for
six equal steps. In `settings` each client makes one request, so that the other's
fall between any two of its steps; `MaxAgenda` = 2 lets an abandoned command and
the current one wait together, and `MaxPresses` = 2 changes a value and changes it
back. The requests have each field given and left out, each range kept and
exceeded. In `framing` the frames have reserved bytes in payload and checksum and
none at all; three in a row put a damaged one in front, between and behind, and
a misread byte becomes any of `NoiseBytes`, among them every byte with a meaning.
In `commands` values lie at the ends of each range and just outside, raw bytes
where a sign or a limit changes. In `probe` three payloads are enough for a line
to be two out of step, and one push for a push to be taken for a reply; three in
a capture, so that order matters. In
`waybar` the clock has two values and the throttle is their distance, so that a
stamp is too recent, old enough, or older than the one it replaces; the jobs are
the timer's, one toggle, one set, the menu and the reconnect. Each of the other
clicks was also run together with the reconnect.

Deadlock is not checked in `settings`, `keeps_omitted`, `silence_means_applied`,
`framing`, `consumes_one_frame` and `probe`: each client is done after one
request, the bytes run out, and a sweep ends.

**Symmetry** of the instances is used in `waybar`, which treats them alike and
checks no liveness; the other runs check liveness or are small.

**Fairness.** `Connection`: weak fairness of the reader and of the timer, because
the runtime polls tasks that are ready. Strong fairness of `TimesOut`: the timer
fires only with an empty socket, and a headset that pushes without end opens and
closes that gap for ever; of infinitely many gaps one is long enough to be
polled. `SendEnds` states the premise that there are infinitely many gaps, and
`ExchangeEnds` the premise that the headset some day stops pushing; without the
second the mutex may be held for ever. Nothing is assumed of the headset or of
callers. `Manager`: weak fairness of each handler. The mutex is fair by its queue.
This takes for granted that an exchange ends (the conclusion of `ExchangeEnds`,
and so its premise) and that the external commands and the RFCOMM connect return,
which no timeout in the code sees to. No client needs to hang up. `Framing`: weak
fairness of `Read` and of `Decode`, written out with `CanRead` and `CanDecode` in
place of `ENABLED`: a caller goes on reading, and the runtime polls it. `Probe`:
weak fairness of the tool's own steps and of nothing else; that pushes are bounded
is the premise of `Ends`, as each is a frame that starts a wait anew.

Every property has a mutant in `PROJECT.json`: a definition of the module
replaced by a plausible bug (an operator under "Bugs this code could have had",
or marked "A bug"), under which TLC finds the property violated.

## 4. What is proved

Every safety property that a passing run checks is proved, for every value of the
constants that their named assumptions admit:

| Module | Theorems, and the properties they state | For every |
|---|---|---|
| `ConnectionProofs` | `TypeCorrect`, `SessionsStayInSync` (`InSync`), `AckedCommandsAreTaken` (`AckedMeansTaken`), `ReadFramesAreAcked` (`EveryFrameAcked`), `Freshness` (`FreshReading`), `SequenceAlternates` (`SeqAlternates`), `TablesAreFollowed` (`CommandsRideTheirTable`), `Refinement` (`KeepsPromise`) | features, values, damage, bound |
| `ManagerProofs` | `TypeCorrect`, `DeadSessionsAreDropped` (`DeadSessionIsNeverFound`), `LocksAreGivenBack` (`LockIsGivenBack`), `AtMostOneLink` (`OneLink`), `ExchangesKeepTheirSession` (`ExchangeKeepsItsSession`), `NoSwitchIsSilent` (`NoSilentSwitch`), `Refinement` (`TakesTurns`) | clients, devices, requests |
| `SettingsProofs` | `TypeCorrect`, `WritesMergeOneReading` (`MergedFromOneReading`), `AnswersWereHeld` (`AnswerWasHeld`), `RefusalsHaveCause` (`RefusedForCause`), `SetsTellTheirEffect` (`UndisturbedSetTellsItsEffect`) | clients, requests, buttons, presets, ranges, first settings |
| `FramingProofs` | `TypeCorrect`, `IntactFramesComeOut` (`IntactComesOut`), `DamageIsLocal` (`DamageStaysLocal`), `OnlyABareEscapeStays` | frames, damage, number of frames, size of reads |
| `CommandsProofs` | `TypeCorrect`, `OwnAnswers` (`OwnAnswersOnly`), `SetIsReadBack` (`ReadsBack`), `BrokenOffIsRefused` (`NoPartialReading`) | raw bytes, values written |
| `ProbeProofs` | `TypeCorrect`, `OutOfStepHasCause` (`OutOfStepOnlyAfterSilence`), `CapturesHearEverything` (`HearsEverything`) | length of a sweep, number of pushes |
| `WaybarProofs` | `TypeCorrect`, `NoticeOncePerDischarge` (`OneNoticePerDischarge`), `ConnectsAreThrottled` (`ThrottledAndSerialized`), `ClicksTakeEffect` (`AloneClickTakesEffect`) | instances, jobs, throttle, times |

Each module also has the theorem `Invariance`, `Spec => []IInv`, from which the
others follow. The proofs assume the named assumptions of the constants and
nothing else; TLC evaluates those in every run. They ask for no more than that
the constants have their type (requests are requests the code can be sent, a
headset's first settings are settings, bounds are numbers) and, in `Framing`, that
a payload's length fits its `u32`. `SecondTable` of `Connection` may hold any of the
features.

**The session.** `FreshReading` is not inductive: whether the reading that will be
accepted is live depends on what lies in front of it. `IInv` adds `Correlated`. A
clean exchange is in one of three states: its command is the only one on its way
and no ACK is in the inbox (`AckAwaited`); its ACK is the only one in the inbox, and
every accepted reading behind it is live (`AckArrived`); or the ACK has been read
and every accepted reading left is live (`AckRead`). Only the headset's taking the
command leads from the first to the second, and only `SendAcked`, which discards
all that is before the ACK, from the second to the third. `SeenIsCurrent` says that
what the headset holds now counts as live, so that a reading sent now is. `InSync`
is inductive with these. The refinement maps both busy phases to one, and every
step of the exchange in between to a stutter. `EveryFrameAcked` needs only how the
set of places of the data frames changes when a sequence grows at its end or
loses its first element.

**The manager.** `IInv` says that a client is queued once at most and that only the
head of the queue is past the mutex (`QueuedOnce`, `LockIsGivenBack`), that a
handler at work has steps left (`HasSteps`), and what the holder may count on
(`HolderFitsSession`: none while connecting, an unbroken one while exchanging).
Two lemmas carry the actions: one for a holder that hands the mutex on, one for a
holder that goes on under it. The refinement follows the same division. A step
that hands the mutex on is one of `SharedSession`, because whoever holds the mutex
is the only one that can be `Talking` (`HolderTalks`), and because the session it
finds is unbroken, so that the one the code looks for (`Live`) is the one there is.
A step that goes on under the mutex is a stutter, but for the one that begins an
exchange. It needs one fact more than `IInv`: a connect that has come to open a link
has found its device (`HasTarget`), so that what it installs is a session.

**The settings.** The first four properties follow from where a client is (`InPlace`:
a patch that is about to write has read, and the write under way is one that the
payload builders let through) and from `HeldSince`: the reply of the exchange
under way and what a patch has read were both held since the request.
`UndisturbedSetTellsItsEffect` needs `OnItsWay`: as long as nobody else has done
anything, the request asks for what was expected of it until its write is acted
on, its write is the first of its commands that the headset has yet to act on and
will bring about the expected reading, and from then on that reading is held. A
write that is lost leaves what is held as what is expected.
Without the part about the agenda, a write that timed out and takes effect during
the confirming read would be lost from sight.

**The codec.** The proof goes through the bytes. `EscapedBody` gives bytes without
a marker, and `Unescape` of it gives the body back (`BodyReadsBack`), one byte at a
time (`UnescapeAppend`, `EscapeReadsBack`); a length survives its four bytes
(`LengthReadsBack`); so `Judge` gives back the frame that `Encode` was given
(`JudgeReadsBack`). A buffer that begins with an encoded frame gives that frame and
keeps what is behind it (`DecodeWhole`); a buffer that holds a part of one gives
none (`DecodePart`). `InOrder` is the invariant on top: some k frames have come out,
and buffer and line together are exactly the encodings of the others. `IntactComesOut`
alone is not inductive, since it says nothing of the bytes still to be decoded.

`DamageStaysLocal` speaks of quiet states only, and `Local` is what holds in between:
unless the reader is stuck, either the damaged frame is not decoded yet, and some of
the frames before it have come out (`NotYet`), or it is, and what is left are frames
behind bytes without a START marker (`Passed`). What becomes of it in between depends
on its markers alone. Without a START it is noise, and goes with the next frame
(`NoStart`). With a START and no END it takes the next one along, up to the END of
that one (`Headed`). Else it ends at its own END, or sooner at a misread byte
(`Closed`), and what it leaves behind is noise again. In each case `Judge` can only
find a frame with a checksum of `SumBytes`: the last byte unescaped is one, and
`Judge` takes no frame but by the checksum it reads (`SafeLast`); or the damage is
further back than the bytes of the body, and then the header, which is intact,
asks for a payload as long as the one that was sent (`SafeFront`). The longest part
is what a lost or misread byte does to the bytes unescaped with it: its own byte of
the body and the one behind it may be read another way (`AfterOpen`), and the rest
are read as they were.

`OnlyABareEscapeStays` says that a verdict shortens the buffer unless the front of
it ends in a bare escape, so that `consumes_one_frame` shows the one case there is.

**The commands.** `IInv` says how the headset lays out each feature (`Laid`), that it
holds the encoding of what was written last (`HoldsWritten`), that a payload shows
what is held up to where it breaks off (`ShowsHeld`), and that what was read is
what the feature's own parser makes of it (`ReadByItsOwn`). The lengthiest part is
`BrokenOffIsRefused` for device information, whose texts carry their own lengths:
a payload that breaks off inside one text has no room for it, and the loop over
the firmware versions ends with the payload.

**The probe.** `OutOfStepOnlyAfterSilence` looks at lines that are printed; `LateForCause`
says the same of the answers that may still come, wherever they are (not sent yet,
owed by the headset, in the inbox), and needs that no payload is answered twice
(`PendingOnce`). `HeardSoFar` says that what a capture has printed and what it has
still to read are together what was pushed, in that order.

**The script.** `OneHoldsLock` ties the lock to its holder's place in the script.
`StampTells` and `HasWaited` tie the stamp to the last connect: who has compared
the stamp and goes on has waited, unless it looked before the last connect was
stamped (`missed`). `FlagTells` says that, while no two instances look at the flag
at once, a discharge that was notified keeps its flag until somebody has seen it
end. `AloneWithHeadset` says what an undisturbed click may rely on.

**Induction.** The library's induction theorems take an operator as a parameter,
which the provers cannot instantiate. `DataInduction` has them for sets instead:
a set that holds 0 and with each number the next holds all (`SetInduction`, from the
well-foundedness of `<` on the naturals), and from that the existence of the
function that a recursion defines (`RecursUpTo`) and that it is the only one
(`RecursOnce`). `LET f[i \in S] == ...` is a `CHOOSE` of a function that satisfies the
recursion; once one exists, the chosen one does. With this `Checksum`, `Unescape`
and `FlattenSeq` in `FramingProofs`, and the loop over the versions in
`CommandsProofs`, are proved about for inputs of every length.

**Only model-checked.** Liveness (`SendEnds`, `ExchangeEnds`, `RequestsEnd`, `ReadsOn`,
`Ends`) is out of the prover's reach.

## 5. What is not modelled

* Partial and blocked writes, and handlers dropped inside one; a write succeeds
  or fails at once.
* Real time: a deadline passes at any moment.
* Text: JSON, status codes, log lines, the output of `bluetoothctl` and `sdptool`,
  CLI arguments and printing. `parse_hex` is its three outcomes.
* `GET /api/detect`, which runs `sdptool` and touches no state of the daemon.
* Of the Waybar script the text it prints and the `last-mode` file, which it writes
  and never reads; an instance killed halfway.
* Packaging, tests and documents.

## 6. The plan

Done: every module of section 2, and proofs of every safety property. Open: that
the exchange of `Settings` is one that `Connection` in sync admits, its `Pushed` and
`TimesOut` against `Exchange`.
