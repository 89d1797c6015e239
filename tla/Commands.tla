------------------------------ MODULE Commands ------------------------------
(***************************************************************************)
(* The payloads (commands.rs, types.rs): what is sent for each feature,    *)
(* which opcodes are taken for its answer, and what a parser makes of the  *)
(* bytes, against a headset that stores and reports them as it was found   *)
(* to (docs/protocol.md).  Opcodes and bytes are those of the source.      *)
(***************************************************************************)
EXTENDS Integers, Sequences

CONSTANTS
    RawBytes,   \* the bytes a headset reports in place of a value
    Written     \* the values that are written, as records [feature, value]

Byte == 0 .. 255
Features == {"battery", "noise", "eq", "dsee", "voice_guidance", "volume",
             "model_name", "device_info"}

VARIABLES
    feature,    \* the one the headset is asked about or told to change
    held,       \* what it holds of that feature, as it reports it
    written,    \* history: the value last written, as a set
    pushed,     \* the payload it pushed last
    taken,      \* history: the feature whose request took that payload
    reading     \* what the request made of it, as a set

vars == <<feature, held, written, pushed, taken, reading>>

----------------------------------------------------------------------------
(* Opcodes *)

(* What asks for a feature: its get opcode and its inquired type.          *)
Request(f) ==
    CASE f = "battery" -> <<\h22, 0>>
      [] f = "noise" -> <<\h66, \h16>>
      [] f = "eq" -> <<\h56, 0>>
      [] f = "dsee" -> <<\hE6, 0>>
      [] f = "voice_guidance" -> <<\h46, 1>>
      [] f = "volume" -> <<\hA6, \h20>>
      [] f = "model_name" -> <<\h04, 1>>
      [] f = "device_info" -> <<\h4A, 1>>

(* A bug: returns only, and a notification of another feature. *)
AcceptsMistyped(f) == {Request(f)[1] + 1} \cup (IF f = "volume" THEN {\hE9} ELSE {})

(* The opcodes taken for an answer. *)
Accepts(f) ==
    CASE f = "battery" -> {\h23, \h24}
      [] f = "noise" -> {\h67, \h69}
      [] f = "eq" -> {\h57, \h59}
      [] f = "dsee" -> {\hE7, \hE9}
      [] f = "voice_guidance" -> {\h47, \h49}
      [] f = "volume" -> {\hA7, \hA9}
      [] f = "model_name" -> {\h05}
      [] f = "device_info" -> {\h4B}

Type(f) == Request(f)[2]

PresetByte ==
    [off |-> 0, bright |-> \h10, excited |-> \h11, mellow |-> \h12, relaxed |-> \h13,
     vocal |-> \h14, treble |-> \h15, bass |-> \h16, speech |-> \h17,
     custom |-> \hA0, user1 |-> \hA1, user2 |-> \hA2]
Presets == DOMAIN PresetByte
PresetOf(b) == {p \in Presets : PresetByte[p] = b}
Customizable == {"custom", "user1", "user2"}

(* The values that a feature's setter takes: what their types admit, in    *)
(* range or not.                                                           *)
Values(f) ==
    CASE f = "noise" -> [mode : {"off", "noise_cancelling", "ambient"}, voice : BOOLEAN,
                         level : Byte]
      [] f = "eq" -> [preset : Presets, bands : {<<>>} \cup [1 .. 6 -> -128 .. 127]]
      [] f \in {"dsee", "voice_guidance"} -> BOOLEAN
      [] f = "volume" -> Byte
      [] f \in {"battery", "model_name", "device_info"} -> {}

ASSUME RawAssumption == RawBytes \subseteq Byte
ASSUME WrittenAssumption ==
    \A w \in Written : w.feature \in Features /\ w.value \in Values(w.feature)

----------------------------------------------------------------------------
(* Building: {} when the value is refused *)

If(condition, payload) == IF condition THEN {payload} ELSE {}
Flag(b) == IF b THEN 1 ELSE 0

SetNoise(v) ==
    If(v.level <= 20,
       <<\h68, \h16, 1, Flag(v.mode # "off"), Flag(v.mode = "ambient"), 2,
         Flag(v.voice), v.level>>)

SetEqPreset(v) == {<<\h58, 0, PresetByte[v.preset], 0>>}
SetEqBands(v) ==
    If(v.preset \in Customizable /\ \A i \in DOMAIN v.bands : v.bands[i] \in -10 .. 10,
       <<\h58, 0, PresetByte[v.preset], 6>> \o [i \in 1 .. 6 |-> v.bands[i] + 10])

SetDsee(on) == {<<\hE8, 0, Flag(on)>>}

(* A bug: voice guidance written as the other toggles are. *)
SetVoiceGuidanceUpright(on) == {<<\h48, 1, Flag(on), 1>>}

(* 0x00 is written for voice guidance that is on. *)
SetVoiceGuidance(on) == {<<\h48, 1, Flag(~on), 1>>}
SetVolume(level) == If(level <= 30, <<\hA8, \h20, level>>)

Build(f, v) ==
    CASE f = "noise" -> SetNoise(v)
      [] f = "eq" -> IF v.bands = <<>> THEN SetEqPreset(v) ELSE SetEqBands(v)
      [] f = "dsee" -> SetDsee(v)
      [] f = "voice_guidance" -> SetVoiceGuidance(v)
      [] f = "volume" -> SetVolume(v)

----------------------------------------------------------------------------
(* Parsing: {} for InvalidFrame.  At counts from 0, as the code does. *)

At(p, i) == p[i + 1]
Answers(p, length, opcodes) == Len(p) >= length /\ At(p, 0) \in opcodes

ParseBattery(p) ==
    IF Answers(p, 4, {\h23}) THEN {[percent |-> At(p, 2), charging |-> At(p, 3) # 0]} ELSE {}

ParseNoise(p) ==
    IF Answers(p, 8, {\h67, \h69}) /\ At(p, 1) = \h16
    THEN {[mode |-> IF At(p, 3) = 0 THEN "off"
                    ELSE IF At(p, 4) = 0 THEN "noise_cancelling" ELSE "ambient",
           voice |-> At(p, 6) # 0,
           level |-> At(p, 7)]}
    ELSE {}

(* A bug: the offset is taken off without the cast. *)
BandWide(b) == b - 10

(* (byte as i16 - 10) as i8 *)
Band(b) == ((b - 10 + 128) % 256) - 128

ParseEq(p) ==
    IF Answers(p, 4, {\h57, \h59}) /\ At(p, 3) = 6 /\ Len(p) >= 10
    THEN {[preset |-> preset, bands |-> [i \in 1 .. 6 |-> Band(At(p, 3 + i))]] :
             preset \in PresetOf(At(p, 2))}
    ELSE {}

ParseDsee(p) == IF Answers(p, 3, {\hE7, \hE9}) THEN {At(p, 2) # 0} ELSE {}
ParseVoiceGuidance(p) == IF Answers(p, 3, {\h47, \h49}) THEN {At(p, 2) = 0} ELSE {}
ParseVolume(p) == IF Answers(p, 3, {\hA7, \hA9}) THEN {At(p, 2)} ELSE {}

(* The bytes of the character that a byte begins, 0 if it begins none, and *)
(* those that may come second and later.                                   *)
Width(b) ==
    CASE b <= 127 -> 1
      [] b \in \hC2 .. \hDF -> 2
      [] b \in \hE0 .. \hEF -> 3
      [] b \in \hF0 .. \hF4 -> 4
      [] OTHER -> 0
Later == \h80 .. \hBF
Second(b) ==
    CASE b = \hE0 -> \hA0 .. \hBF
      [] b = \hED -> \h80 .. \h9F
      [] b = \hF0 -> \h90 .. \hBF
      [] b = \hF4 -> \h80 .. \h8F
      [] OTHER -> Later

(* What String::from_utf8 takes: each byte begins a character that is all  *)
(* there, or belongs to one that began before.                             *)
Utf8(s) ==
    \A i \in DOMAIN s :
        \/ /\ Width(s[i]) > 0
           /\ \A k \in 1 .. Width(s[i]) - 1 :
                 /\ i + k \in DOMAIN s
                 /\ s[i + k] \in IF k = 1 THEN Second(s[i]) ELSE Later
        \/ /\ s[i] \in Later
           /\ \E k \in 1 .. 3 : i - k \in DOMAIN s /\ Width(s[i - k]) > k

(* A length-prefixed string and the place behind it.                       *)
TakeString(p, at) ==
    {[text |-> SubSeq(p, at + 2, end), next |-> end] :
        end \in {end \in {at + 1 + At(p, at) : x \in {at} \cap 0 .. Len(p) - 1} :
                   end <= Len(p) /\ Utf8(SubSeq(p, at + 2, end))}}

ParseModelName(p) ==
    IF Answers(p, 3, {\h05}) THEN {s.text : s \in TakeString(p, 2)} ELSE {}

(* A bug: a list that breaks off is taken as far as it goes. *)
VersionsSoFar(p, at) ==
    LET from[i \in Nat] ==
            IF i = 0 THEN {[list |-> <<>>, next |-> at + 1]}
            ELSE UNION {IF TakeString(p, before.next + 1) = {} THEN {before}
                        ELSE {[list |-> Append(before.list, s.text), next |-> s.next] :
                                s \in TakeString(p, before.next + 1)} : before \in from[i - 1]}
    IN  UNION {from[At(p, x)] : x \in {at} \cap 0 .. Len(p) - 1}

(* A count, and so many versions with an index in front of each. *)
Versions(p, at) ==
    LET from[i \in Nat] ==
            IF i = 0 THEN {[list |-> <<>>, next |-> at + 1]}
            ELSE UNION {{[list |-> Append(before.list, s.text), next |-> s.next] :
                           s \in TakeString(p, before.next + 1)} : before \in from[i - 1]}
    IN  UNION {from[At(p, x)] : x \in {at} \cap 0 .. Len(p) - 1}

(* Two bytes lie between the serial and the device id. *)
ParseDeviceInfo(p) ==
    IF ~Answers(p, 4, {\h4B}) THEN {}
    ELSE UNION {UNION {UNION {
            {[model_code |-> model.text, serial |-> serial.text, device_id |-> id.text,
              firmware |-> versions.list] : versions \in Versions(p, id.next)} :
            id \in TakeString(p, serial.next + 2)} :
            serial \in TakeString(p, model.next)} :
            model \in TakeString(p, 3)}

Parse(f, p) ==
    CASE f = "battery" -> ParseBattery(p)
      [] f = "noise" -> ParseNoise(p)
      [] f = "eq" -> ParseEq(p)
      [] f = "dsee" -> ParseDsee(p)
      [] f = "voice_guidance" -> ParseVoiceGuidance(p)
      [] f = "volume" -> ParseVolume(p)
      [] f = "model_name" -> ParseModelName(p)
      [] f = "device_info" -> ParseDeviceInfo(p)

----------------------------------------------------------------------------
(* The headset *)

Text(s) == <<Len(s)>> \o s

(* What it may hold of a feature, as it reports it behind opcode and type. *)
Raw(f) ==
    CASE f = "battery" -> {<<b, c>> : b \in RawBytes, c \in {0, 1}}
      [] f = "noise" ->
            {<<1, m[1], m[2], 2, v, b>> :
                m \in {<<0, 0>>, <<1, 0>>, <<1, 1>>}, v \in {0, 1}, b \in RawBytes}
      [] f = "eq" ->
            {<<PresetByte[p], 6, b, 10, 11, 12, 13, c>> :
                p \in Presets, b \in RawBytes, c \in RawBytes}
      [] f = "dsee" -> {<<0>>, <<1>>}
      [] f = "voice_guidance" -> {<<0, 1>>, <<1, 1>>}
      [] f = "volume" -> {<<b>> : b \in RawBytes}
      [] f = "model_name" -> {Text(<<>>), Text(<<87, 72>>), Text(<<87, \hC3, \hA4>>)}
      [] f = "device_info" ->
            {<<\h14>> \o Text(<<72, 80>>) \o Text(<<48>>) \o <<\h14, \h14>> \o Text(<<68>>)
                 \o versions :
                versions \in {<<0>>, <<2, 0>> \o Text(<<86, 49>>) \o <<1>> \o Text(<<86>>)}}

(* What it holds when a payload has been written to it. *)
Stored(p, now) ==
    LET ambient == p[5] = 1
    IN  CASE p[1] = \h68 -> <<1, p[4], p[5], 2, IF ambient THEN p[7] ELSE now[5],
                              IF ~ambient THEN now[6] ELSE IF p[8] = 0 THEN 1 ELSE p[8]>>
          [] p[1] = \h58 /\ p[4] = 0 -> <<p[3], 6>> \o SubSeq(now, 3, 8)
          [] p[1] = \h58 /\ p[4] # 0 -> SubSeq(p, 3, 10)
          [] p[1] = \hE8 -> <<p[3]>>
          [] p[1] = \h48 -> <<p[3], 1>>
          [] p[1] = \hA8 -> <<IF p[3] > 30 THEN 30 ELSE p[3]>>

(* Each family counts its opcodes from the get: a return, a set, a         *)
(* notification.                                                           *)
Opcodes(f) == {Request(f)[1] + 1, Request(f)[1] + 3}
Whole(op) == <<op, Type(feature)>> \o held

Unread == pushed' = <<>> /\ taken' = {} /\ reading' = {}

Init ==
    /\ feature \in Features
    /\ held \in Raw(feature)
    /\ written = {}
    /\ pushed = <<>>
    /\ taken = {}
    /\ reading = {}

Write(w) ==
    /\ w.feature = feature
    /\ \E p \in Build(feature, w.value) : held' = Stored(p, held)
    /\ written' = {w.value}
    /\ Unread
    /\ UNCHANGED feature

(* A return or a notification is pushed, by a model that says all this one *)
(* does or the first n bytes of it.                                        *)
Push(op, n) ==
    /\ pushed' = SubSeq(Whole(op), 1, n)
    /\ taken' = {}
    /\ reading' = {}
    /\ UNCHANGED <<feature, held, written>>

(* A request for g meets the payload: its opcode decides. *)
Take(g) ==
    /\ pushed # <<>>
    /\ At(pushed, 0) \in Accepts(g)
    /\ taken' = {g}
    /\ reading' = Parse(g, pushed)
    /\ UNCHANGED <<feature, held, written, pushed>>

Next ==
    \/ \E w \in Written : Write(w)
    \/ \E op \in Opcodes(feature) : \E n \in 1 .. Len(Whole(op)) : Push(op, n)
    \/ \E g \in Features : Take(g)

Spec == Init /\ [][Next]_vars

----------------------------------------------------------------------------
(* Properties *)

(* Every variable keeps its type: what is held and pushed are bytes, and   *)
(* the bands that were read fit the i8 they are kept in.                   *)
TypeOK ==
    /\ feature \in Features
    /\ held \in Seq(Byte) /\ pushed \in Seq(Byte)
    /\ written \subseteq Values(feature)
    /\ taken \subseteq Features
    /\ \A r \in reading : taken = {"eq"} =>
          r.preset \in Presets /\ r.bands \in [1 .. 6 -> -128 .. 127]

(* A request takes its own feature's answers only, whichever of the        *)
(* families of opcodes the headset speaks from.                            *)
OwnAnswersOnly == taken \subseteq {feature}

(* The part of the payload the reading was made from. *)
Complete == Len(pushed) = Len(held) + 2

(* What is set is what is read back, through two translations, an offset,  *)
(* an inversion and a clamp; and what the headset holds can be read,       *)
(* whatever it was set to elsewhere.                                       *)
ReadsBack ==
    taken = {feature} /\ Complete =>
        /\ reading # {}
        /\ \A v \in written, r \in reading :
              CASE feature = "noise" ->
                      /\ r.mode = v.mode
                      /\ r.mode = "ambient" =>
                            /\ r.voice = v.voice
                            /\ r.level = IF v.level = 0 THEN 1 ELSE v.level
                [] feature = "eq" ->
                      /\ r.preset = v.preset
                      /\ v.bands # <<>> => r.bands = v.bands
                [] OTHER -> r = v

(* A payload that breaks off is refused, or reads as the whole one does:   *)
(* no length and no count in it is trusted beyond its end.                 *)
NoPartialReading ==
    taken = {feature} =>
        reading \subseteq Parse(feature, Whole(At(pushed, 0)))
=============================================================================
