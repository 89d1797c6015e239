--------------------------- MODULE SettingsProofs ----------------------------
(* Proofs about module Settings, for any clients, requests and buttons. *)
EXTENDS Settings, SequenceTheorems, TLAPS

----------------------------------------------------------------------------
(* Requests and values *)

(* A request is a read, a set of one value, or a patch. *)
LEMMA RequestForms ==
    ASSUME NEW r \in Requests
    PROVE  /\ r.feature \in Features
           /\ \/ r.kind = "get" /\ r.value = {}
              \/ /\ r.kind = "set" /\ r.feature \in Toggles \cup {"volume"}
                 /\ \E v \in Readings[r.feature] : r.value = {v}
              \/ /\ r.kind = "set" /\ r.feature = "eq"
                 /\ \E p \in Presets : r.value = {[preset |-> p, bands |-> {}]}
              \/ /\ r.kind = "patch" /\ r.feature = "noise"
                 /\ r.mode \in AncModes
                 /\ r.level \in Optional(Levels) /\ r.voice \in Optional(BOOLEAN)
              \/ /\ r.kind = "patch" /\ r.feature = "eq" /\ r.bands \in Bands
<1>1. r \in AllRequests
  BY SettingsAssumption
<1>2. CASE r \in [kind : {"get"}, feature : Features, value : {{}}]
  BY <1>2
<1>3. CASE r \in UNION {[kind : {"set"}, feature : {f}, value : {{v} : v \in Readings[f]}] :
                            f \in Toggles \cup {"volume"}}
  <2>1. PICK f \in Toggles \cup {"volume"} :
            r \in [kind : {"set"}, feature : {f}, value : {{v} : v \in Readings[f]}]
    BY <1>3
  <2>2. r.kind = "set" /\ r.feature = f /\ r.value \in {{v} : v \in Readings[f]}
    BY <2>1
  <2> QED
    BY <2>2 DEF Toggles, Features
<1>4. CASE r \in [kind : {"set"}, feature : {"eq"},
                  value : {{[preset |-> p, bands |-> {}]} : p \in Presets}]
  <2>1. /\ r.kind = "set" /\ r.feature = "eq"
        /\ r.value \in {{[preset |-> p, bands |-> {}]} : p \in Presets}
    BY <1>4
  <2> QED
    BY <2>1 DEF Features
<1>5. CASE r \in [kind : {"patch"}, feature : {"noise"},
                  mode : AncModes, level : Optional(Levels), voice : Optional(BOOLEAN)]
  BY <1>5 DEF Features
<1>6. CASE r \in [kind : {"patch"}, feature : {"eq"}, bands : Bands]
  BY <1>6 DEF Features
<1> QED
  BY <1>1, <1>2, <1>3, <1>4, <1>5, <1>6 DEF AllRequests

(* A button or a slider changes anything but the equalizer. *)
LEMMA PressForms ==
    ASSUME NEW p \in Presses
    PROVE  /\ p.feature \in Features \ {"eq"}
           /\ \E v \in Readings[p.feature] : p.value = {v}
<1>1. PICK f \in Features \ {"eq"} :
          p \in [feature : {f}, value : {{v} : v \in Readings[f]}]
  BY SettingsAssumption DEF AllPresses
<1>2. p.feature = f /\ p.value \in {{v} : v \in Readings[f]}
  BY <1>1
<1> QED
  BY <1>2

(* What the payload builders let through is a reading, bands aside. *)
LEMMA WritableIsReadable ==
    ASSUME NEW f \in Features \ {"eq"}
    PROVE  Writable[f] \subseteq Readings[f]
<1>1. 0 .. MaxLevel \subseteq Levels /\ 0 .. MaxVolume \subseteq Volumes
  BY SettingsAssumption DEF Levels, Volumes
<1>2. CASE f = "noise"
  BY <1>1, <1>2 DEF Writable, Readings, Noise
<1>3. CASE f = "volume"
  BY <1>1, <1>3 DEF Writable, Readings
<1>4. CASE f \in Toggles
  BY <1>4 DEF Writable, Readings, Toggles
<1> QED
  BY <1>2, <1>3, <1>4 DEF Features, Toggles

LEMMA ReadingTyped ==
    ASSUME NEW h \in Settings, NEW f \in Features
    PROVE  Reading(f, h) \in Readings[f]
<1>1. CASE f = "noise"
  BY <1>1 DEF Settings, Readings, Reading
<1>2. CASE f = "eq"
  BY <1>2 DEF Settings, Readings, Reading
<1>3. CASE f = "volume"
  BY <1>3 DEF Settings, Readings, Reading
<1>4. CASE f = "dsee"
  BY <1>4 DEF Settings, Readings, Reading
<1>5. CASE f = "voice_guidance"
  BY <1>5 DEF Settings, Readings, Reading
<1> QED
  BY <1>1, <1>2, <1>3, <1>4, <1>5 DEF Features

(* Whatever it is sent, the headset holds settings. *)
LEMMA AppliedTyped ==
    ASSUME NEW h \in Settings, NEW f \in Features, NEW v,
           v \in IF f = "eq" THEN Writable[f] ELSE Readings[f]
    PROVE  Applied(h, f, v) \in Settings
<1>1. CASE f = "noise"
  <2>1. v \in Noise /\ h.noise \in Noise /\ h.noise.level # 0
    BY <1>1 DEF Readings, Settings
  <2>2. 1 \in Levels
    BY SettingsAssumption DEF Levels
  <2>3. CASE v.mode = "ambient"
    <3> DEFINE n == [v EXCEPT !.level = IF v.level = 0 THEN 1 ELSE v.level]
    <3>1. n \in Noise /\ n.level # 0
      BY <2>1, <2>2 DEF Noise
    <3>2. Applied(h, f, v) = [h EXCEPT !.noise = n]
      BY <1>1, <2>3 DEF Applied, Toggles
    <3> HIDE DEF n
    <3> QED
      BY <3>1, <3>2 DEF Settings
  <2>4. CASE v.mode # "ambient"
    <3>1. Applied(h, f, v) = [h EXCEPT !.noise.mode = v.mode]
      BY <1>1, <2>4 DEF Applied, Toggles
    <3> QED
      BY <2>1, <3>1 DEF Settings, Noise
  <2> QED
    BY <2>3, <2>4
<1>2. CASE f = "eq"
  <2>1. v.preset \in Presets /\ v.bands \in {{}} \cup {{b} : b \in -MaxBand .. MaxBand}
    BY <1>2, SettingsAssumption DEF Writable
  <2>2. h.eq.bands \in [Presets -> Bands]
    BY DEF Settings
  <2>3. OrElse(v.bands, h.eq.bands[v.preset]) \in Bands
    <3>1. CASE v.bands = {}
      BY <2>1, <2>2, <3>1 DEF OrElse
    <3>2. CASE v.bands # {}
      <4>1. PICK b \in -MaxBand .. MaxBand : v.bands = {b}
        BY <2>1, <3>2
      <4> QED
        BY <4>1, SettingsAssumption DEF OrElse, Bands
    <3> QED
      BY <3>1, <3>2
  <2>4. Applied(h, f, v) =
          [h EXCEPT !.eq = [preset |-> v.preset,
              bands |-> [h.eq.bands EXCEPT ![v.preset] = OrElse(v.bands, h.eq.bands[v.preset])]]]
    BY <1>2, <2>1, <2>2 DEF Applied, Toggles
  <2> QED
    BY <2>1, <2>2, <2>3, <2>4 DEF Settings
<1>3. CASE f = "volume"
  <2>1. Applied(h, f, v) = [h EXCEPT !.volume = IF v > MaxVolume THEN MaxVolume ELSE v]
    BY <1>3 DEF Applied, Toggles
  <2>2. v \in Volumes /\ MaxVolume \in Volumes
    BY <1>3, SettingsAssumption DEF Readings, Volumes
  <2> QED
    BY <2>1, <2>2 DEF Settings
<1>4. CASE f = "dsee"
  BY <1>4 DEF Applied, Toggles, Readings, Settings
<1>5. CASE f = "voice_guidance"
  BY <1>5 DEF Applied, Toggles, Readings, Settings
<1> QED
  BY <1>1, <1>2, <1>3, <1>4, <1>5 DEF Features

(* Commands and buttons are of a kind that the headset can act on. *)
LEMMA CommandForms ==
    ASSUME NEW cmd \in Commands
    PROVE  /\ cmd.feature \in Features
           /\ cmd.value \in Optional(Writable[cmd.feature])
           /\ \E c \in Clients : cmd.by = {c}
<1>1. PICK f \in Features :
          cmd \in [feature : {f}, value : Optional(Writable[f]), by : {{c} : c \in Clients}]
  BY DEF Commands
<1>2. cmd.feature = f /\ cmd.value \in Optional(Writable[f]) /\ cmd.by \in {{c} : c \in Clients}
  BY <1>1
<1> QED
  BY <1>2

LEMMA EffectTyped ==
    ASSUME NEW h \in Settings, NEW f \in Features, NEW value,
           \/ value \in Optional(Writable[f])
           \/ f # "eq" /\ \E v \in Readings[f] : value = {v}
    PROVE  Effect(h, f, value) \in Settings
<1>1. CASE value = {}
  BY <1>1 DEF Effect
<1>2. CASE value # {}
  <2>1. PICK v : value = {v} /\ v \in IF f = "eq" THEN Writable[f] ELSE Readings[f]
    BY <1>2, WritableIsReadable DEF Optional
  <2>2. Effect(h, f, value) = Applied(h, f, v)
    BY <1>2, <2>1 DEF Effect, OrElse
  <2> QED
    BY <2>1, <2>2, AppliedTyped
<1> QED
  BY <1>1, <1>2

----------------------------------------------------------------------------
(* The inductive invariant *)

(* Where a client is fits its request, and only an active one has an       *)
(* exchange or a reading to merge with.                                    *)
InPlace ==
    \A c \in Clients :
        /\ holder = {c} => Active(c)
        /\ ~Active(c) => current[c] = {}
        /\ pc[c] # "done" => answer[c].status = "none"
        /\ pc[c] = "read" => request[c].kind # "set"
        /\ pc[c] \in {"write", "confirm"} => request[c].kind # "get"
        /\ pc[c] = "write" /\ request[c].kind = "patch" => current[c] # {}
        /\ pc[c] = "write" /\ holder = {c} => Accepted(request[c].feature, ToWrite(c))

(* What a client works with was held since its request. *)
HeldSince ==
    \A c \in Clients :
        /\ holder = {c} => reply \subseteq seen[c]
        /\ current[c] \subseteq seen[c]

Functions == 
    /\ current = [c \in Clients |-> current[c]]
    /\ answer = [c \in Clients |-> [status |-> answer[c].status, reading |-> answer[c].reading]]
    /\ seen = [c \in Clients |-> seen[c]]
    /\ expected = [c \in Clients |-> expected[c]]

(* The commands of c that the headset has yet to act on, and the writes    *)
(* among them.                                                             *)
Own(c) == {i \in DOMAIN agenda : agenda[i].by = {c}}
OwnWrites(c) == {i \in Own(c) : agenda[i].value # {}}

Held(c) == {Reading(request[c].feature, headset)}

(* Its write has left it, to be acted on or lost.                          *)
Written(c) == pc[c] = "write" /\ holder = {c} /\ stage \in {"acked", "lost"}

(* While nobody else has done anything: the request asks for what was      *)
(* expected of it until its write is acted on, and that is what is held    *)
(* from then on, as it is once the write is lost.                          *)
OnItsWay(c) ==
    /\ request[c].kind # "get"
    /\ holder = {c} => reply \subseteq Held(c) /\ (stage = "lost" => pc[c] = "write")
    /\ \A i \in Own(c) : agenda[i].feature = request[c].feature
    /\ \A i \in OwnWrites(c) :
          /\ {Reading(request[c].feature, Effect(headset, request[c].feature, agenda[i].value))}
                = expected[c]
          /\ \A j \in Own(c) : i <= j
          /\ holder = {c} => reply = {}
          /\ pc[c] = "write" => holder = {c} /\ stage = "acked"
    /\ pc[c] = "read" =>
          /\ Asked(request[c], headset) = expected[c]
          /\ OwnWrites(c) = {}
          /\ \A i, j \in Own(c) : i = j
          /\ ~(holder = {c} /\ stage = "acked" /\ reply = {}) => Own(c) = {}
    /\ pc[c] = "write" /\ ~Written(c) =>
          /\ Asked(request[c], headset) = expected[c]
          /\ Own(c) = {}
          /\ request[c].kind = "patch" => current[c] = Held(c)
    /\ /\ pc[c] = "confirm" \/ Written(c)
       /\ OwnWrites(c) = {}
       => Held(c) = expected[c]

Undisturbed ==
    \A c \in Clients : Active(c) /\ expected[c] # {} => OnItsWay(c)

IInv ==
    /\ TypeOK
    /\ Functions
    /\ InPlace
    /\ HeldSince
    /\ AnswerWasHeld
    /\ RefusedForCause
    /\ Undisturbed
    /\ UndisturbedSetTellsItsEffect
----------------------------------------------------------------------------
(* What is written *)

(* A set writes its value; a patch merges with one reading that it has.    *)
LEMMA WriteForms ==
    ASSUME TypeOK, InPlace, NEW c \in Clients, pc[c] = "write"
    PROVE  \/ request[c].kind = "set" /\ request[c].value = {ToWrite(c)}
           \/ /\ request[c].kind = "patch" /\ request[c].feature = "noise"
              /\ \E now \in current[c] : ToWrite(c) = NoiseToWrite(request[c], now)
           \/ /\ request[c].kind = "patch" /\ request[c].feature = "eq"
              /\ \E now \in current[c] : ToWrite(c) = BandsToWrite(request[c], now)
<1>1. request[c] \in Requests
  BY DEF TypeOK
<1>2. CASE request[c].kind = "set"
  <2>1. PICK v : request[c].value = {v}
    BY <1>1, <1>2, RequestForms
  <2> QED
    BY <1>2, <2>1 DEF ToWrite
<1>3. CASE request[c].kind = "patch"
  <2> DEFINE now == CHOOSE x \in current[c] : TRUE
  <2>1. now \in current[c]
    BY <1>3 DEF InPlace
  <2>2. CASE request[c].feature = "noise"
    BY <1>3, <2>1, <2>2 DEF ToWrite
  <2>3. CASE request[c].feature = "eq"
    BY <1>3, <2>1, <2>3 DEF ToWrite
  <2> QED
    BY <1>1, <1>3, <2>2, <2>3, RequestForms
<1> QED
  BY <1>1, <1>2, <1>3, RequestForms DEF InPlace

(* A patch that has read what is held asks, with its write, for what its   *)
(* request asks for; so does a set.                                        *)
LEMMA WrittenAsAsked ==
    ASSUME TypeOK, InPlace, NEW c \in Clients, pc[c] = "write",
           request[c].kind = "patch" => current[c] = Held(c),
           Accepted(request[c].feature, ToWrite(c))
    PROVE  {Reading(request[c].feature, Effect(headset, request[c].feature, {ToWrite(c)}))}
               = Asked(request[c], headset)
<1> DEFINE r == request[c]
<1> DEFINE v == ToWrite(c)
<1>1. r \in Requests /\ headset \in Settings
  BY DEF TypeOK
<1>2. Effect(headset, r.feature, {v}) = Applied(headset, r.feature, v)
  BY DEF Effect, OrElse
<1>3. v \in Writable[r.feature]
  BY DEF Accepted
<1>4. CASE r.kind = "set" /\ r.feature \in Toggles \cup {"volume"}
  <2>1. r.value = {v}
    BY <1>4, WriteForms
  <2>2. Asked(r, headset) = {v}
    BY <1>4, <2>1 DEF Asked, Toggles
  <2>3. Reading(r.feature, Applied(headset, r.feature, v)) = v
    <3>1. CASE r.feature = "volume"
      <4>1. v \in 0 .. MaxVolume
        BY <1>3, <3>1 DEF Writable
      <4>2. ~(v > MaxVolume)
        BY <4>1, SettingsAssumption
      <4> QED
        BY <1>1, <3>1, <4>2 DEF Applied, Reading, Settings, Toggles
    <3>2. CASE r.feature = "dsee"
      BY <1>1, <3>2 DEF Applied, Reading, Settings, Toggles
    <3>3. CASE r.feature = "voice_guidance"
      BY <1>1, <3>3 DEF Applied, Reading, Settings, Toggles
    <3> QED
      BY <1>4, <3>1, <3>2, <3>3 DEF Toggles
  <2> QED
    BY <1>2, <2>2, <2>3
<1>5. CASE r.kind = "set" /\ r.feature = "eq"
  <2>1. PICK p \in Presets : v = [preset |-> p, bands |-> {}]
    BY <1>1, <1>5, WriteForms, RequestForms DEF Toggles
  <2>2. Asked(r, headset) = {[preset |-> p, bands |-> headset.eq.bands[p]]}
    BY <1>5, <2>1, WriteForms DEF Asked
  <2>3. headset.eq.bands \in [Presets -> Bands]
    BY <1>1 DEF Settings
  <2>4. Applied(headset, "eq", v) =
          [headset EXCEPT !.eq = [preset |-> p, bands |-> headset.eq.bands]]
    BY <2>1, <2>3 DEF Applied, OrElse, Toggles
  <2>5. Reading("eq", Applied(headset, "eq", v)) = [preset |-> p, bands |-> headset.eq.bands[p]]
    BY <1>1, <2>4 DEF Reading, Settings
  <2> QED
    BY <1>2, <1>5, <2>2, <2>5
<1>6. CASE r.kind = "patch" /\ r.feature = "noise"
  <2>1. v = NoiseToWrite(r, headset.noise)
    BY <1>6, WriteForms DEF Held, Reading
  <2>2. /\ headset.noise \in Noise /\ headset.noise.level # 0
        /\ r.mode \in AncModes
        /\ r.level \in Optional(Levels) /\ r.voice \in Optional(BOOLEAN)
    BY <1>1, <1>6, RequestForms DEF Settings
  <2>3. v.mode = r.mode
    BY <2>1 DEF NoiseToWrite
  <2>4. CASE r.mode = "ambient"
    <3>1. Applied(headset, "noise", v) =
            [headset EXCEPT !.noise = [v EXCEPT !.level = IF v.level = 0 THEN 1 ELSE v.level]]
      BY <2>3, <2>4 DEF Applied, Toggles
    <3>2. Reading("noise", Applied(headset, "noise", v)) =
            [mode |-> "ambient", level |-> IF v.level = 0 THEN 1 ELSE v.level, voice |-> v.voice]
      BY <1>1, <2>1, <2>4, <3>1 DEF Reading, Settings, NoiseToWrite
    <3>3. v.level = OrElse(r.level, headset.noise.level)
          /\ v.voice = OrElse(r.voice, headset.noise.voice)
      BY <2>1 DEF NoiseToWrite
    <3>4. (IF v.level = 0 THEN 1 ELSE v.level) =
            IF r.level = {0} THEN 1 ELSE OrElse(r.level, headset.noise.level)
      <4>1. CASE r.level = {}
        BY <2>2, <3>3, <4>1 DEF OrElse
      <4>2. CASE r.level # {}
        <5>1. PICK l : r.level = {l}
          BY <2>2, <4>2 DEF Optional
        <5> QED
          BY <3>3, <5>1 DEF OrElse
      <4> QED
        BY <4>1, <4>2
    <3>5. Asked(r, headset) =
            {[mode |-> "ambient",
              level |-> IF r.level = {0} THEN 1 ELSE OrElse(r.level, headset.noise.level),
              voice |-> OrElse(r.voice, headset.noise.voice)]}
      BY <1>6, <2>4 DEF Asked
    <3> QED
      BY <1>2, <1>6, <3>2, <3>3, <3>4, <3>5
  <2>5. CASE r.mode # "ambient"
    <3>1. Applied(headset, "noise", v) = [headset EXCEPT !.noise.mode = r.mode]
      BY <2>3, <2>5 DEF Applied, Toggles
    <3>2. Reading("noise", Applied(headset, "noise", v)) =
            [mode |-> r.mode, level |-> headset.noise.level, voice |-> headset.noise.voice]
      BY <1>1, <2>2, <3>1 DEF Reading, Settings, Noise
    <3>3. Asked(r, headset) =
            {[mode |-> r.mode, level |-> headset.noise.level, voice |-> headset.noise.voice]}
      BY <1>6, <2>5 DEF Asked
    <3> QED
      BY <1>2, <1>6, <3>2, <3>3
  <2> QED
    BY <2>4, <2>5
<1>7. CASE r.kind = "patch" /\ r.feature = "eq"
  <2> DEFINE p == IF headset.eq.preset \in Customizable THEN headset.eq.preset ELSE User1
  <2>1. PICK now \in current[c] : v = BandsToWrite(r, now)
    BY <1>7, WriteForms
  <2>2. now.preset = headset.eq.preset
    BY <1>7, <2>1 DEF Held, Reading
  <2>3. v = [preset |-> p, bands |-> {r.bands}] /\ p \in Presets
    BY <2>1, <2>2, SettingsAssumption DEF BandsToWrite
  <2> HIDE DEF p
  <2>4. headset.eq.bands \in [Presets -> Bands]
    BY <1>1 DEF Settings
  <2>5. Applied(headset, "eq", v) =
          [headset EXCEPT !.eq = [preset |-> p, bands |-> [headset.eq.bands EXCEPT ![p] = r.bands]]]
    BY <2>3, <2>4 DEF Applied, OrElse, Toggles
  <2>6. Reading("eq", Applied(headset, "eq", v)) = [preset |-> p, bands |-> r.bands]
    BY <1>1, <2>3, <2>4, <2>5 DEF Reading, Settings
  <2>7. Asked(r, headset) = {[preset |-> p, bands |-> r.bands]}
    BY <1>7 DEF Asked, p
  <2> QED
    BY <1>2, <1>7, <2>6, <2>7
<1> QED
  BY <1>1, <1>4, <1>5, <1>6, <1>7, WriteForms, RequestForms
----------------------------------------------------------------------------
(* The initial states and the types *)

LEMMA AskedTyped ==
    ASSUME NEW r \in Requests, NEW h \in Settings
    PROVE  Asked(r, h) \subseteq Readings[r.feature]
<1>1. CASE r.kind = "get"
  <2>1. r.value = {}
    BY <1>1, RequestForms
  <2>2. Asked(r, h) = r.value
    BY <1>1 DEF Asked
  <2> QED
    BY <2>1, <2>2
<1>2. CASE r.kind = "set" /\ r.feature \in Toggles \cup {"volume"}
  <2>1. Asked(r, h) = r.value
    BY <1>2 DEF Asked, Toggles
  <2> QED
    BY <1>2, <2>1, RequestForms DEF Toggles
<1>3. CASE r.kind = "set" /\ r.feature = "eq"
  <2>1. PICK p \in Presets : r.value = {[preset |-> p, bands |-> {}]}
    BY <1>3, RequestForms DEF Toggles
  <2>2. Asked(r, h) = {[preset |-> p, bands |-> h.eq.bands[p]]}
    BY <1>3, <2>1 DEF Asked
  <2>3. h.eq.bands[p] \in Bands
    BY DEF Settings
  <2> QED
    BY <1>3, <2>2, <2>3 DEF Readings
<1>4. CASE r.kind = "patch" /\ r.feature = "noise"
  <2>1. /\ r.mode \in AncModes
        /\ r.level \in Optional(Levels) /\ r.voice \in Optional(BOOLEAN)
        /\ h.noise \in Noise /\ 1 \in Levels
    BY <1>4, RequestForms, SettingsAssumption DEF Settings, Levels
  <2>2. OrElse(r.level, h.noise.level) \in Levels
    BY <2>1 DEF OrElse, Optional, Noise
  <2>3. OrElse(r.voice, h.noise.voice) \in BOOLEAN
    BY <2>1 DEF OrElse, Optional, Noise
  <2>4. Asked(r, h) \subseteq Noise
    BY <1>4, <2>1, <2>2, <2>3 DEF Asked, Noise
  <2> QED
    BY <1>4, <2>4 DEF Readings
<1>5. CASE r.kind = "patch" /\ r.feature = "eq"
  <2>1. r.bands \in Bands /\ h.eq.preset \in Presets /\ User1 \in Presets
    BY <1>5, RequestForms, SettingsAssumption DEF Settings
  <2>2. Asked(r, h) =
          {[preset |-> IF h.eq.preset \in Customizable THEN h.eq.preset ELSE User1,
            bands |-> r.bands]}
    BY <1>5 DEF Asked
  <2> QED
    BY <1>5, <2>1, <2>2 DEF Readings
<1> QED
  BY <1>1, <1>2, <1>3, <1>4, <1>5, RequestForms

LEMMA Initial == Init => IInv
<1> SUFFICES ASSUME Init PROVE IInv
  OBVIOUS
<1>1. TypeOK
  BY SettingsAssumption DEF Init, TypeOK, Optional, Statuses
<1>2. Functions /\ InPlace /\ HeldSince
  BY DEF Init, Functions, InPlace, HeldSince, Active
<1>3. AnswerWasHeld /\ RefusedForCause /\ Undisturbed /\ UndisturbedSetTellsItsEffect
  BY DEF Init, AnswerWasHeld, RefusedForCause, Undisturbed, UndisturbedSetTellsItsEffect
<1> QED
  BY <1>1, <1>2, <1>3 DEF IInv

LEMMA TypeStep ==
    ASSUME TypeOK, Functions, InPlace, Next
    PROVE  TypeOK'
<1> USE DEF TypeOK
<1>1. ASSUME NEW c \in Clients, Call(c)
      PROVE  TypeOK'
  <2>1. Reading(request[c].feature, headset) \in Readings[request[c].feature]
    BY ReadingTyped, RequestForms
  <2>2. Asked(request[c], headset) \subseteq Readings[request[c].feature]
    BY AskedTyped
  <2> QED
    BY <1>1, <2>1, <2>2 DEF Call, link, Functions
<1>2. ASSUME NEW c \in Clients, Refuse(c)
      PROVE  TypeOK'
  BY <1>2 DEF Refuse, Gives, link, history, Functions, Statuses
<1>3. ASSUME NEW c \in Clients, Begin(c)
      PROVE  TypeOK'
  BY <1>3 DEF Begin, clients, history, Optional
<1>4. ASSUME NEW c \in Clients, Answered(c)
      PROVE  TypeOK'
  <2>1. CASE request[c].kind = "patch" /\ pc[c] = "read"
    BY <1>4, <2>1, ZenonT(40) DEF Answered, Free, history, Functions, Optional
  <2>2. CASE ~(request[c].kind = "patch" /\ pc[c] = "read")
    <3>1. Free /\ Gives(c, "ok", reply)
      BY <1>4, <2>2 DEF Answered
    <3> QED
      BY <1>4, <3>1 DEF Answered, Free, Gives, history, Functions, Statuses, Optional
  <2> QED
    BY <2>1, <2>2
<1>5. ASSUME NEW c \in Clients, TimesOut(c)
      PROVE  TypeOK'
  <2>1. CASE pc[c] = "write"
    BY <1>5, <2>1 DEF TimesOut, Free, history, Optional
  <2>2. CASE pc[c] # "write"
    <3>1. Free /\ Gives(c, "timeout", {})
      BY <1>5, <2>2 DEF TimesOut
    <3> QED
      BY <1>5, <3>1 DEF TimesOut, Free, Gives, history, Functions, Statuses, Optional
  <2> QED
    BY <2>1, <2>2
<1>6. ASSUME NEW c \in Clients, Fails(c)
      PROVE  TypeOK'
  <2>1. agenda' \in Seq(Commands)
    <3>1. agenda' = agenda \/ agenda' = <<>>
      BY <1>6, Zenon DEF Fails
    <3>2. <<>> \in Seq(Commands)
      OBVIOUS
    <3> QED
      BY <3>1, <3>2, Zenon
  <2>2. \A d \in Clients : expected'[d] \subseteq Readings[request[d].feature]
    <3>1. expected' = expected \/ expected' = [d \in Clients |-> {}]
      BY <1>6, Zenon DEF Fails
    <3> QED
      BY <3>1
  <2>3. Free /\ Gives(c, "error", {}) /\ UNCHANGED <<headset, presses, request, seen>>
    BY <1>6, Zenon DEF Fails
  <2> QED
    BY <2>1, <2>2, <2>3 DEF Free, Gives, Functions, Statuses, Optional
<1>7. ASSUME NEW c \in Clients, Cancel(c)
      PROVE  TypeOK'
  BY <1>7 DEF Cancel, Free, Gives, history, Functions, Statuses, Optional
<1>8. ASSUME NEW c \in Clients, Receive(c)
      PROVE  TypeOK'
  <2> DEFINE f == request[c].feature
  <2> DEFINE value == IF pc[c] = "write" THEN {ToWrite(c)} ELSE {}
  <2>1. f \in Features /\ value \in Optional(Writable[f])
    BY <1>8, RequestForms DEF Receive, InPlace, Accepted, Optional
  <2>2. [feature |-> f, value |-> value, by |-> {c}]
           \in [feature : {f}, value : Optional(Writable[f]), by : {{d} : d \in Clients}]
    BY <2>1
  <2>3. [feature |-> f, value |-> value, by |-> {c}] \in Commands
    BY <2>1, <2>2 DEF Commands
  <2>4. agenda' \in Seq(Commands)
    BY <1>8, <2>3 DEF Receive
  <2> QED
    BY <1>8, <2>4 DEF Receive, clients, history
<1>9. ASSUME NEW c \in Clients, Lose(c)
      PROVE  TypeOK'
  <2>1. Reading(request[c].feature, headset) \in Readings[request[c].feature]
    BY ReadingTyped, RequestForms DEF TypeOK
  <2>2. \A d \in Clients : expected'[d] \subseteq Readings[request[d].feature]
    BY <1>9, <2>1 DEF Lose, Functions
  <2> QED
    BY <1>9, <2>2 DEF Lose, clients, Functions
<1>10. ASSUME NEW f \in Features, NEW value, NEW by, Changes(f, value, by),
              \/ value \in Optional(Writable[f])
              \/ f # "eq" /\ \E v \in Readings[f] : value = {v},
              UNCHANGED <<request>>, UNCHANGED <<stage, holder>>,
              Pushed(f) \/ UNCHANGED reply
       PROVE  /\ headset' \in Settings
              /\ \A c \in Clients : /\ seen'[c] \subseteq Readings[request[c].feature]
                                   /\ expected'[c] \subseteq Readings[request[c].feature]
              /\ reply' # {} => stage' = "acked"
              /\ \A c \in holder : reply' \subseteq Readings[request[c].feature]
  <2>1. headset' \in Settings
    BY <1>10, EffectTyped DEF Changes
  <2>2. \A c \in Clients : Reading(request[c].feature, headset') \in Readings[request[c].feature]
    BY <2>1, ReadingTyped, RequestForms
  <2>3. \A c \in Clients : /\ seen'[c] \subseteq Readings[request[c].feature]
                          /\ expected'[c] \subseteq Readings[request[c].feature]
    BY <1>10, <2>2 DEF Changes
  <2>4. reply' # {} => stage' = "acked"
    BY <1>10 DEF Pushed
  <2>5. \A c \in holder : reply' \subseteq Readings[request[c].feature]
    BY <1>10, <2>2 DEF Pushed, Optional
  <2> QED
    BY <2>1, <2>3, <2>4, <2>5
<1>11. CASE Act
  <2> DEFINE cmd == Head(agenda)
  <2>1. cmd \in Commands /\ Tail(agenda) \in Seq(Commands)
    BY <1>11 DEF Act
  <2>2. cmd.feature \in Features /\ cmd.value \in Optional(Writable[cmd.feature])
    BY <2>1, CommandForms
  <2>3. Changes(cmd.feature, cmd.value, cmd.by) /\ (Pushed(cmd.feature) \/ UNCHANGED reply)
    BY <1>11 DEF Act
  <2> QED
    BY <1>10, <1>11, <2>1, <2>2, <2>3 DEF Act, clients
<1>12. ASSUME NEW p \in Presses, Press(p)
       PROVE  TypeOK'
  <2>1. p.feature \in Features \ {"eq"} /\ \E v \in Readings[p.feature] : p.value = {v}
    BY PressForms
  <2>2. presses' \in 0 .. MaxPresses
    BY <1>12, SettingsAssumption DEF Press
  <2> QED
    BY <1>10, <1>12, <2>1, <2>2 DEF Press, clients
<1> QED
  BY <1>1, <1>2, <1>3, <1>4, <1>5, <1>6, <1>7, <1>8, <1>9, <1>11, <1>12 DEF Next
----------------------------------------------------------------------------
(* Where the clients are *)

(* A step of c leaves the others where they are. *)
Spares(c) ==
    \A d \in Clients \ {c} :
        /\ pc'[d] = pc[d] /\ current'[d] = current[d] /\ answer'[d] = answer[d]
        /\ holder' = {d} => holder = {d}

ClientStep(c) ==
    \/ Call(c) \/ Refuse(c) \/ Begin(c) \/ Answered(c) \/ TimesOut(c)
    \/ Fails(c) \/ Cancel(c) \/ Receive(c) \/ Lose(c)

(* The fields of one client, after each of its steps. *)
LEMMA StepForms ==
    ASSUME TypeOK, Functions, InPlace, NEW c \in Clients, ClientStep(c)
    PROVE  /\ Spares(c)
           /\ request' = request
           /\ \/ Call(c) \/ Begin(c) \/ Receive(c) \/ Lose(c)
              \/ /\ Answered(c) /\ request[c].kind = "patch" /\ pc[c] = "read"
                 /\ Free /\ pc'[c] = "write" /\ current'[c] = reply /\ answer' = answer
              \/ /\ TimesOut(c) /\ pc[c] = "write"
                 /\ Free /\ pc'[c] = "confirm" /\ current' = current /\ answer' = answer
              \/ /\ \/ Refuse(c) /\ answer'[c].status = "unsupported"
                    \/ Answered(c) /\ answer'[c].status = "ok" /\ answer'[c].reading = reply
                                   /\ (pc[c] = "write" \/ pc[c] = "confirm" \/ request[c].kind = "get")
                    \/ Cancel(c) /\ answer'[c].status = "error"
                    \/ TimesOut(c) /\ answer'[c].status = "timeout"
                    \/ Fails(c) /\ answer'[c].status = "error"
                 /\ Active(c) /\ pc'[c] = "done" /\ current'[c] = {} /\ holder' # {c}
<1> USE DEF Spares, Functions
<1>0. pc \in [Clients -> {"new", "done", "read", "write", "confirm"}] /\ holder \in Optional(Clients)
  BY DEF TypeOK
<1>1. CASE Call(c) \/ Begin(c) \/ Receive(c) \/ Lose(c)
  <2>1. \A d \in Clients \ {c} : /\ pc'[d] = pc[d] /\ current'[d] = current[d]
                                 /\ answer'[d] = answer[d]
    BY <1>0, <1>1 DEF Call, Begin, Receive, Lose, clients
  <2>2. \A d \in Clients \ {c} : holder' = {d} => holder = {d}
    BY <1>1 DEF Call, Begin, Receive, Lose, link
  <2>3. request' = request
    BY <1>1 DEF Call, Begin, Receive, Lose, clients
  <2> QED
    BY <1>1, <2>1, <2>2, <2>3
<1>2. ASSUME NEW status, NEW reading, Gives(c, status, reading), request' = request,
             Active(c), Free \/ (holder # {c} /\ holder' = holder)
      PROVE  /\ Spares(c) /\ request' = request
             /\ answer'[c].status = status /\ answer'[c].reading = reading
             /\ Active(c) /\ pc'[c] = "done" /\ current'[c] = {} /\ holder' # {c}
  BY <1>0, <1>2 DEF Gives, Free
<1>3. CASE Refuse(c)
  <2>1. /\ Gives(c, "unsupported", {}) /\ request' = request
        /\ Active(c) /\ holder # {c} /\ holder' = holder
    BY <1>3 DEF Refuse, Active, link
  <2>2. /\ Spares(c) /\ request' = request /\ answer'[c].status = "unsupported"
        /\ Active(c) /\ pc'[c] = "done" /\ current'[c] = {} /\ holder' # {c}
    BY <1>2, <2>1
  <2> QED
    BY <1>3, <2>2
<1>4. CASE Answered(c)
  <2>1. holder = {c} /\ Active(c) /\ Free /\ request' = request
    BY <1>4 DEF Answered, InPlace
  <2>2. CASE request[c].kind = "patch" /\ pc[c] = "read"
    BY <1>0, <1>4, <2>1, <2>2 DEF Answered, Free
  <2>3. CASE ~(request[c].kind = "patch" /\ pc[c] = "read")
    <3>1. Gives(c, "ok", reply)
      BY <1>4, <2>3 DEF Answered
    <3>2. pc[c] = "write" \/ pc[c] = "confirm" \/ request[c].kind = "get"
      <4>1. request[c].kind \in {"get", "set", "patch"}
        BY RequestForms DEF TypeOK
      <4> QED
        BY <1>0, <2>1, <2>3, <4>1 DEF InPlace, Active
    <3>3. /\ Spares(c) /\ answer'[c].status = "ok" /\ answer'[c].reading = reply
          /\ Active(c) /\ pc'[c] = "done" /\ current'[c] = {} /\ holder' # {c}
      BY <1>2, <2>1, <3>1
    <3> QED
      BY <1>4, <2>1, <3>2, <3>3
  <2> QED
    BY <2>2, <2>3
<1>5. CASE TimesOut(c)
  <2>1. holder = {c} /\ Active(c) /\ Free /\ request' = request
    BY <1>5 DEF TimesOut, InPlace
  <2>2. CASE pc[c] = "write"
    BY <1>0, <1>5, <2>1, <2>2 DEF TimesOut, Free
  <2>3. CASE pc[c] # "write"
    <3>1. Gives(c, "timeout", {})
      BY <1>5, <2>3 DEF TimesOut
    <3>2. /\ Spares(c) /\ answer'[c].status = "timeout"
          /\ Active(c) /\ pc'[c] = "done" /\ current'[c] = {} /\ holder' # {c}
      BY <1>2, <2>1, <3>1
    <3> QED
      BY <1>5, <2>1, <3>2
  <2> QED
    BY <2>2, <2>3
<1>6. CASE Fails(c)
  <2>1. holder = {c} /\ Active(c)
    BY <1>6 DEF Fails, InPlace
  <2>2. Free /\ Gives(c, "error", {}) /\ request' = request
    BY <1>6, Zenon DEF Fails
  <2>3. /\ Spares(c) /\ request' = request /\ answer'[c].status = "error"
        /\ Active(c) /\ pc'[c] = "done" /\ current'[c] = {} /\ holder' # {c}
    BY <1>2, <2>1, <2>2
  <2> QED
    BY <1>6, <2>3
<1>7. CASE Cancel(c)
  <2>1. /\ Gives(c, "error", {}) /\ request' = request /\ Active(c)
        /\ Free \/ (holder # {c} /\ holder' = holder)
    BY <1>7 DEF Cancel
  <2>2. /\ Spares(c) /\ request' = request /\ answer'[c].status = "error"
        /\ Active(c) /\ pc'[c] = "done" /\ current'[c] = {} /\ holder' # {c}
    BY <1>2, <2>1
  <2> QED
    BY <1>7, <2>2
<1> QED
  BY <1>1, <1>3, <1>4, <1>5, <1>6, <1>7 DEF ClientStep

(* A button, or the headset at work, leaves every client where it is.      *)
LEMMA WorldForms ==
    ASSUME TypeOK, Act \/ \E p \in Presses : Press(p)
    PROVE  /\ UNCHANGED <<clients, stage, holder>>
           /\ \E f \in Features : \E value, by :
                 /\ Changes(f, value, by)
                 /\ Pushed(f) \/ UNCHANGED reply
                 /\ \/ value \in Optional(Writable[f])
                    \/ f # "eq" /\ \E v \in Readings[f] : value = {v}
<1>1. CASE Act
  <2>1. Head(agenda) \in Commands
    BY <1>1 DEF Act, TypeOK
  <2>2. UNCHANGED <<clients, stage, holder>>
    BY <1>1 DEF Act
  <2>3. /\ Changes(Head(agenda).feature, Head(agenda).value, Head(agenda).by)
        /\ Pushed(Head(agenda).feature) \/ UNCHANGED reply
    BY <1>1 DEF Act
  <2> QED
    BY <2>1, <2>2, <2>3, CommandForms
<1>2. ASSUME NEW p \in Presses, Press(p)
      PROVE  /\ UNCHANGED <<clients, stage, holder>>
             /\ \E f \in Features : \E value, by :
                   /\ Changes(f, value, by)
                   /\ Pushed(f) \/ UNCHANGED reply
                   /\ \/ value \in Optional(Writable[f])
                      \/ f # "eq" /\ \E v \in Readings[f] : value = {v}
  <2>1. /\ UNCHANGED <<clients, stage, holder>>
        /\ Changes(p.feature, p.value, {})
        /\ Pushed(p.feature) \/ UNCHANGED reply
    BY <1>2 DEF Press
  <2> QED
    BY <2>1, PressForms
<1> QED
  BY <1>1, <1>2

LEMMA FunctionsStep ==
    ASSUME TypeOK, Functions, Next
    PROVE  Functions'
<1> USE DEF Functions
<1>1. ASSUME NEW c \in Clients, NEW status, NEW reading, Gives(c, status, reading),
             UNCHANGED <<seen, expected>>
      PROVE  Functions'
  BY <1>1 DEF Gives
<1>2. ASSUME NEW c \in Clients, Call(c) \/ Refuse(c) \/ Begin(c) \/ Receive(c) \/ Lose(c) \/ Cancel(c)
      PROVE  Functions'
  BY <1>1, <1>2 DEF Call, Refuse, Begin, Receive, Lose, Cancel, clients, history
<1>3. ASSUME NEW c \in Clients, Answered(c)
      PROVE  Functions'
  BY <1>1, <1>3 DEF Answered, history
<1>4. ASSUME NEW c \in Clients, TimesOut(c)
      PROVE  Functions'
  BY <1>1, <1>4 DEF TimesOut, history
<1>5. ASSUME NEW c \in Clients, Fails(c)
      PROVE  Functions'
  <2>1. Gives(c, "error", {}) /\ UNCHANGED seen
    BY <1>5, Zenon DEF Fails
  <2>2. expected' = expected \/ expected' = [d \in Clients |-> {}]
    BY <1>5, Zenon DEF Fails
  <2> QED
    BY <2>1, <2>2 DEF Gives
<1>6. CASE Act \/ \E p \in Presses : Press(p)
  BY <1>6, WorldForms DEF Changes, clients
<1> QED
  BY <1>2, <1>3, <1>4, <1>5, <1>6 DEF Next

LEMMA InPlaceStep ==
    ASSUME TypeOK, Functions, InPlace, Next
    PROVE  InPlace'
<1> USE DEF InPlace, Active
<1>1. request' = request
  BY StepForms, WorldForms DEF Next, ClientStep, clients
<1>2. ASSUME NEW d \in Clients, current'[d] = current[d]
      PROVE  ToWrite(d)' = ToWrite(d)
  BY <1>1, <1>2 DEF ToWrite
<1>3. ASSUME NEW c \in Clients, ClientStep(c), NEW d \in Clients \ {c}
      PROVE  /\ holder' = {d} => Active(d)'
             /\ ~Active(d)' => current'[d] = {}
             /\ pc'[d] # "done" => answer'[d].status = "none"
             /\ pc'[d] = "read" => request'[d].kind # "set"
             /\ pc'[d] \in {"write", "confirm"} => request'[d].kind # "get"
             /\ pc'[d] = "write" /\ request'[d].kind = "patch" => current'[d] # {}
             /\ pc'[d] = "write" /\ holder' = {d} => Accepted(request'[d].feature, ToWrite(d)')
  <2>1. /\ pc'[d] = pc[d] /\ current'[d] = current[d] /\ answer'[d] = answer[d]
        /\ holder' = {d} => holder = {d}
    BY <1>3, StepForms DEF Spares
  <2> QED
    BY <1>1, <1>2, <2>1
<1>4. ASSUME NEW c \in Clients, ClientStep(c)
      PROVE  /\ holder' = {c} => Active(c)'
             /\ ~Active(c)' => current'[c] = {}
             /\ pc'[c] # "done" => answer'[c].status = "none"
             /\ pc'[c] = "read" => request'[c].kind # "set"
             /\ pc'[c] \in {"write", "confirm"} => request'[c].kind # "get"
             /\ pc'[c] = "write" /\ request'[c].kind = "patch" => current'[c] # {}
             /\ pc'[c] = "write" /\ holder' = {c} => Accepted(request'[c].feature, ToWrite(c)')
  <2>1. CASE Call(c)
    <3>1. request[c].kind \in {"get", "set", "patch"}
      BY RequestForms DEF TypeOK
    <3>2. pc'[c] = IF request[c].kind = "set" THEN "write" ELSE "read"
      BY <2>1 DEF Call, TypeOK
    <3>3. holder # {c} /\ holder' = holder /\ current' = current /\ answer' = answer
          /\ answer[c].status = "none"
      BY <2>1 DEF Call, link
    <3> QED
      BY <1>1, <3>1, <3>2, <3>3
  <2>2. CASE Begin(c)
    BY <1>1, <1>2, <2>2 DEF Begin, clients
  <2>3. CASE Receive(c)
    BY <1>1, <1>2, <2>3 DEF Receive, clients
  <2>4. CASE Lose(c)
    BY <1>1, <1>2, <2>4 DEF Lose, clients
  <2>5. CASE /\ Answered(c) /\ request[c].kind = "patch" /\ pc[c] = "read"
             /\ Free /\ pc'[c] = "write" /\ current'[c] = reply /\ answer' = answer
    <3>1. reply # {} /\ holder' = {}
      BY <2>5 DEF Answered, Free
    <3> QED
      BY <1>1, <2>5, <3>1
  <2>6. CASE /\ TimesOut(c) /\ pc[c] = "write"
             /\ Free /\ pc'[c] = "confirm" /\ current' = current /\ answer' = answer
    <3>1. holder' = {}
      BY <2>6 DEF Free
    <3> QED
      BY <1>1, <2>6, <3>1
  <2>7. CASE Active(c) /\ pc'[c] = "done" /\ current'[c] = {} /\ holder' # {c}
    BY <2>7
  <2> QED
    BY <1>4, <2>1, <2>2, <2>3, <2>4, <2>5, <2>6, <2>7, StepForms
<1>5. ASSUME NEW c \in Clients, ClientStep(c)
      PROVE  InPlace'
  BY <1>3, <1>4, <1>5
<1>6. CASE Act \/ \E p \in Presses : Press(p)
  BY <1>1, <1>2, <1>6, WorldForms DEF clients
<1> QED
  BY <1>5, <1>6 DEF Next, ClientStep

----------------------------------------------------------------------------
(* What was held *)

(* A client's own steps add nothing to what was held, but that its request *)
(* starts anew; and make no reply.                                         *)
LEMMA ClientsSeeNothing ==
    ASSUME TypeOK, Functions, InPlace, NEW c \in Clients, ClientStep(c)
    PROVE  /\ \A d \in Clients : pc[d] # "new" => seen'[d] = seen[d]
           /\ pc[c] = "new" => Call(c)
           /\ \A d \in Clients \ {c} : seen'[d] = seen[d]
           /\ reply' = {} \/ UNCHANGED <<reply, holder>>
<1>0. pc[c] = "new" => ~Active(c)
  BY DEF Active
<1>1. CASE Call(c)
  BY <1>1 DEF Call, link, Functions
<1>2. CASE ~Call(c)
  <2>1. Active(c)
    BY <1>2 DEF ClientStep, Refuse, Begin, Answered, TimesOut, Fails, Cancel, Receive, Lose,
                InPlace, Active
  <2>2. seen' = seen
    <3>1. CASE Fails(c)
      BY <3>1, Zenon DEF Fails
    <3> QED
      BY <1>2, <3>1 DEF ClientStep, Refuse, Begin, Answered, TimesOut, Cancel, Receive, Lose,
                        history
  <2>3. reply' = {} \/ UNCHANGED <<reply, holder>>
    <3>1. CASE Refuse(c)
      BY <3>1 DEF Refuse, link
    <3>2. CASE Begin(c) \/ Receive(c) \/ Lose(c)
      BY <3>2 DEF Begin, Receive, Lose
    <3>3. CASE Answered(c) \/ TimesOut(c) \/ Fails(c)
      BY <3>3, Zenon DEF Answered, TimesOut, Fails, Free
    <3>4. CASE Cancel(c)
      BY <3>4, Zenon DEF Cancel, Free
    <3> QED
      BY <1>2, <3>1, <3>2, <3>3, <3>4 DEF ClientStep
  <2> QED
    BY <1>0, <1>2, <2>1, <2>2, <2>3
<1> QED
  BY <1>1, <1>2

(* The headset and its user only add to what was held, and a reply is the  *)
(* reading that was held when it was pushed.                               *)
LEMMA WorldAdds ==
    ASSUME TypeOK, Functions, Act \/ \E p \in Presses : Press(p)
    PROVE  /\ UNCHANGED <<clients, stage, holder>>
           /\ \A d \in Clients :
                 seen'[d] = IF Active(d) THEN seen[d] \cup {Reading(request[d].feature, headset')}
                            ELSE seen[d]
           /\ \A d \in Clients :
                 holder = {d} =>
                     \/ reply' = reply
                     \/ reply = {} /\ reply' = {Reading(request[d].feature, headset')}
<1>1. PICK f \in Features : \E value, by :
          Changes(f, value, by) /\ (Pushed(f) \/ UNCHANGED reply)
  BY WorldForms
<1> QED
  BY <1>1, WorldForms DEF Changes, Pushed

LEMMA HeldSinceStep ==
    ASSUME TypeOK, Functions, InPlace, HeldSince, Next
    PROVE  HeldSince'
<1> USE DEF HeldSince
<1>1. ASSUME NEW c \in Clients, ClientStep(c), NEW d \in Clients
      PROVE  /\ holder' = {d} => reply' \subseteq seen'[d]
             /\ current'[d] \subseteq seen'[d]
  <2>1. CASE pc[d] = "new"
    <3>1. current[d] = {} /\ holder # {d}
      BY <2>1 DEF InPlace, Active
    <3>2. CASE d = c
      <4>1. Call(c)
        BY <1>1, <2>1, <3>2, ClientsSeeNothing
      <4> QED
        BY <3>1, <3>2, <4>1 DEF Call, link
    <3>3. CASE d # c
      BY <1>1, <3>1, <3>3, StepForms DEF Spares
    <3> QED
      BY <3>2, <3>3
  <2>2. CASE pc[d] # "new"
    <3>1. seen'[d] = seen[d] /\ (reply' = {} \/ UNCHANGED <<reply, holder>>)
      BY <1>1, <2>2, ClientsSeeNothing
    <3>2. current'[d] \in {current[d], reply, {}} /\ (current'[d] = reply => holder = {d} \/ reply = {} \/ reply = current[d])
      <4>1. CASE d # c
        BY <1>1, <4>1, StepForms DEF Spares
      <4>2. CASE d = c
        BY <1>1, <4>2, StepForms DEF Call, Begin, Receive, Lose, Answered, clients
      <4> QED
        BY <4>1, <4>2
    <3> QED
      BY <3>1, <3>2
  <2> QED
    BY <2>1, <2>2
<1>2. CASE Act \/ \E p \in Presses : Press(p)
  BY <1>2, WorldAdds DEF InPlace, clients
<1> QED
  BY <1>1, <1>2 DEF Next, ClientStep

LEMMA AnswerWasHeldStep ==
    ASSUME TypeOK, Functions, InPlace, HeldSince, AnswerWasHeld, Next
    PROVE  AnswerWasHeld'
<1> USE DEF AnswerWasHeld
<1>1. ASSUME NEW c \in Clients, ClientStep(c), NEW d \in Clients, answer'[d].status = "ok"
      PROVE  answer'[d].reading \subseteq seen'[d]
  <2>1. CASE answer'[d] = answer[d]
    <3>1. pc[d] # "new"
      BY <1>1, <2>1 DEF InPlace
    <3> QED
      BY <1>1, <2>1, <3>1, ClientsSeeNothing
  <2>2. CASE answer'[d] # answer[d]
    <3>1. d = c /\ Answered(c) /\ answer'[c].reading = reply
      BY <1>1, <2>2, StepForms, ZenonT(40) DEF Spares, Call, Begin, Receive, Lose, clients
    <3>2. holder = {c} /\ pc[c] # "new"
      BY <3>1 DEF Answered, InPlace, Active
    <3> QED
      BY <1>1, <3>1, <3>2, ClientsSeeNothing DEF HeldSince
  <2> QED
    BY <2>1, <2>2
<1>2. CASE Act \/ \E p \in Presses : Press(p)
  BY <1>2, WorldAdds DEF clients
<1> QED
  BY <1>1, <1>2 DEF Next, ClientStep

(* What the payload builders refuse is out of range itself, or takes its   *)
(* level from a reading that is.                                           *)
LEMMA RefusedValues ==
    ASSUME TypeOK, InPlace, NEW c \in Clients, pc[c] = "write",
           ~Accepted(request[c].feature, ToWrite(c))
    PROVE  \/ /\ request[c].feature = "noise"
              /\ \E was \in current[c] : OrElse(request[c].level, was.level) > MaxLevel
           \/ /\ request[c].feature = "volume"
              /\ \A level \in request[c].value : level > MaxVolume
           \/ /\ request[c].feature = "eq" /\ request[c].kind = "patch"
              /\ request[c].bands \notin -MaxBand .. MaxBand
<1> DEFINE r == request[c]
<1>1. r \in Requests /\ ToWrite(c) \notin Writable[r.feature]
  BY DEF TypeOK, Accepted
<1>2. CASE r.kind = "set" /\ r.feature \in Toggles
  <2>1. PICK v \in Readings[r.feature] : r.value = {v}
    BY <1>1, <1>2, RequestForms DEF Toggles
  <2>2. ToWrite(c) \in Readings[r.feature]
    BY <1>2, <2>1, WriteForms
  <2>3. Readings[r.feature] = Writable[r.feature]
    BY <1>2 DEF Readings, Writable, Toggles
  <2> QED
    BY <1>1, <2>2, <2>3
<1>3. CASE r.kind = "set" /\ r.feature = "volume"
  <2>1. PICK v \in Volumes : r.value = {v}
    BY <1>1, <1>3, RequestForms DEF Readings
  <2>2. ToWrite(c) = v
    BY <1>3, <2>1, WriteForms
  <2>3. v > MaxVolume
    BY <1>1, <1>3, <2>2, SettingsAssumption DEF Writable, Volumes
  <2> QED
    BY <1>3, <2>1, <2>3
<1>4. CASE r.kind = "set" /\ r.feature = "eq"
  <2>1. PICK p \in Presets : r.value = {[preset |-> p, bands |-> {}]}
    BY <1>1, <1>4, RequestForms DEF Toggles
  <2>2. ToWrite(c) = [preset |-> p, bands |-> {}]
    BY <1>4, <2>1, WriteForms
  <2> QED
    BY <1>1, <1>4, <2>2 DEF Writable
<1>5. CASE r.kind = "patch" /\ r.feature = "noise"
  <2>1. PICK now \in current[c] : ToWrite(c) = NoiseToWrite(r, now)
    BY <1>5, WriteForms
  <2>2. now \in Noise
    BY <1>5, <2>1 DEF TypeOK, Readings
  <2>3. /\ r.mode \in AncModes
        /\ r.level \in Optional(Levels) /\ r.voice \in Optional(BOOLEAN)
    BY <1>1, <1>5, RequestForms
  <2>4. OrElse(r.level, now.level) \in Levels /\ OrElse(r.voice, now.voice) \in BOOLEAN
    BY <2>2, <2>3 DEF OrElse, Optional, Noise
  <2>5. OrElse(r.level, now.level) \notin 0 .. MaxLevel
    BY <1>1, <1>5, <2>1, <2>3, <2>4 DEF NoiseToWrite, Writable
  <2>6. OrElse(r.level, now.level) > MaxLevel
    BY <2>4, <2>5, SettingsAssumption DEF Levels
  <2> QED
    BY <1>5, <2>1, <2>6
<1>6. CASE r.kind = "patch" /\ r.feature = "eq"
  <2>1. PICK now \in current[c] : ToWrite(c) = BandsToWrite(r, now)
    BY <1>6, WriteForms
  <2> DEFINE p == IF now.preset \in Customizable THEN now.preset ELSE User1
  <2>2. ToWrite(c) = [preset |-> p, bands |-> {r.bands}] /\ p \in Customizable
    BY <2>1, SettingsAssumption DEF BandsToWrite
  <2> HIDE DEF p
  <2>3. r.bands \in -MaxBand .. MaxBand => ToWrite(c) \in Writable["eq"]
    BY <2>2 DEF Writable
  <2> QED
    BY <1>1, <1>6, <2>3
<1> QED
  BY <1>1, <1>2, <1>3, <1>4, <1>5, <1>6, RequestForms DEF InPlace

LEMMA RefusedForCauseStep ==
    ASSUME TypeOK, Functions, InPlace, HeldSince, RefusedForCause, Next
    PROVE  RefusedForCause'
<1> DEFINE Cause(d, readings) ==
        \/ /\ request[d].feature = "noise"
           /\ \E was \in readings : OrElse(request[d].level, was.level) > MaxLevel
        \/ /\ request[d].feature = "volume"
           /\ \A level \in request[d].value : level > MaxVolume
        \/ /\ request[d].feature = "eq" /\ request[d].kind = "patch"
           /\ request[d].bands \notin -MaxBand .. MaxBand
<1>1. \A d \in Clients : answer[d].status = "unsupported" => Cause(d, seen[d])
  BY DEF RefusedForCause
<1>2. request' = request
  BY StepForms, WorldForms DEF Next, ClientStep, clients
<1>3. ASSUME NEW d \in Clients, NEW S, NEW T, S \subseteq T, Cause(d, S)
      PROVE  Cause(d, T)
  BY <1>3
<1>4. ASSUME \A d \in Clients : answer'[d].status = "unsupported" => Cause(d, seen'[d])
      PROVE  RefusedForCause'
  BY <1>2, <1>4 DEF RefusedForCause
<1>5. ASSUME NEW c \in Clients, ClientStep(c), NEW d \in Clients,
             answer'[d].status = "unsupported"
      PROVE  Cause(d, seen'[d])
  <2>1. CASE answer'[d] = answer[d]
    <3>1. pc[d] # "new"
      BY <1>5, <2>1 DEF InPlace
    <3>2. seen'[d] = seen[d]
      BY <1>5, <3>1, ClientsSeeNothing
    <3> QED
      BY <1>1, <1>5, <2>1, <3>2
  <2>2. CASE answer'[d] # answer[d]
    <3>1. d = c /\ Refuse(c)
      BY <1>5, <2>2, StepForms DEF Spares, Call, Begin, Receive, Lose, clients
    <3>2. pc[c] = "write" /\ ~Accepted(request[c].feature, ToWrite(c))
      BY <3>1 DEF Refuse
    <3>3. Cause(c, current[c])
      BY <3>2, RefusedValues
    <3>4. current[c] \subseteq seen'[c]
      BY <1>5, <3>2, ClientsSeeNothing DEF HeldSince
    <3> QED
      BY <1>3, <3>1, <3>3, <3>4
  <2> QED
    BY <2>1, <2>2
<1>6. ASSUME Act \/ \E p \in Presses : Press(p), NEW d \in Clients,
             answer'[d].status = "unsupported"
      PROVE  Cause(d, seen'[d])
  <2>1. answer' = answer /\ seen[d] \subseteq seen'[d]
    BY <1>6, WorldAdds DEF clients
  <2> QED
    BY <1>1, <1>3, <1>6, <2>1
<1> QED
  BY <1>4, <1>5, <1>6 DEF Next, ClientStep

(* What is merged comes from the one reading that the patch has, which was *)
(* held since its request.                                                 *)
LEMMA Merged ==
    ASSUME TypeOK, InPlace, HeldSince
    PROVE  MergedFromOneReading
<1> SUFFICES ASSUME NEW c \in Clients, pc[c] = "write", request[c].kind = "patch"
             PROVE  \E was \in seen[c] :
                        IF request[c].feature = "noise"
                        THEN /\ request[c].level = {} => ToWrite(c).level = was.level
                             /\ request[c].voice = {} => ToWrite(c).voice = was.voice
                        ELSE ToWrite(c).preset \in
                                 IF was.preset \in Customizable THEN {was.preset} ELSE {User1}
  BY DEF MergedFromOneReading
<1>1. CASE request[c].feature = "noise"
  <2>1. PICK now \in current[c] : ToWrite(c) = NoiseToWrite(request[c], now)
    BY <1>1, WriteForms
  <2>2. /\ request[c].level = {} => ToWrite(c).level = now.level
        /\ request[c].voice = {} => ToWrite(c).voice = now.voice
    BY <2>1 DEF NoiseToWrite, OrElse
  <2> QED
    BY <1>1, <2>1, <2>2 DEF HeldSince
<1>2. CASE request[c].feature # "noise"
  <2>1. PICK now \in current[c] : ToWrite(c) = BandsToWrite(request[c], now)
    BY <1>2, WriteForms
  <2>2. ToWrite(c).preset \in IF now.preset \in Customizable THEN {now.preset} ELSE {User1}
    BY <2>1 DEF BandsToWrite
  <2> QED
    BY <1>2, <2>1, <2>2 DEF HeldSince
<1> QED
  BY <1>1, <1>2

----------------------------------------------------------------------------
(* A set that nobody disturbs *)

LEMMA ReadsExpectNothing ==
    ASSUME NEW r \in Requests, NEW h, Asked(r, h) # {}
    PROVE  r.kind # "get"
<1> SUFFICES ASSUME r.kind = "get" PROVE Asked(r, h) = {}
  OBVIOUS
<1>1. r.value = {}
  BY RequestForms
<1>2. Asked(r, h) = r.value
  BY DEF Asked
<1> QED
  BY <1>1, <1>2

(* What is expected of a set comes with its request and goes, or stays as  *)
(* it is.                                                                  *)
LEMMA ExpectedForms ==
    ASSUME TypeOK, Functions, NEW c \in Clients, ClientStep(c)
    PROVE  /\ headset' = headset
           /\ \A d \in Clients :
                 expected'[d] # {} =>
                     \/ d = c /\ Call(c)
                     \/ /\ d = c /\ Lose(c) /\ agenda' = agenda
                        /\ pc[c] = "write" /\ expected[c] # {} /\ expected'[c] = Held(c)
                     \/ /\ expected'[d] = expected[d]
                        /\ ~Receive(c) => agenda' = agenda
<1> USE DEF Functions
<1>1. CASE Call(c)
  BY <1>1 DEF Call, Lose, link
<1>2. CASE Fails(c)
  <2>1. headset' = headset
    BY <1>2, Zenon DEF Fails
  <2>2. (agenda' = agenda /\ expected' = expected) \/ expected' = [d \in Clients |-> {}]
    BY <1>2, Zenon DEF Fails
  <2>3. ~Lose(c)
    BY <1>2 DEF Fails, Lose
  <2> QED
    BY <2>1, <2>2, <2>3
<1>3. CASE Lose(c)
  <2>1. /\ headset' = headset /\ agenda' = agenda
        /\ \A d \in Clients \ {c} : expected'[d] = expected[d]
        /\ expected'[c] # {} => /\ pc[c] = "write" /\ expected[c] # {}
                               /\ expected'[c] = Held(c)
    BY <1>3 DEF Lose, Held
  <2> QED
    BY <1>3, <2>1
<1>4. CASE ~Call(c) /\ ~Fails(c) /\ ~Lose(c)
  BY <1>4 DEF ClientStep, Refuse, Begin, Answered, TimesOut, Cancel, Receive,
              link, clients, history
<1> QED
  BY <1>1, <1>2, <1>3, <1>4

(* What a set's way depends on. *)
LEMMA WayFrame ==
    ASSUME NEW d \in Clients, OnItsWay(d),
           headset' = headset, request'[d] = request[d], pc'[d] = pc[d],
           current'[d] = current[d], expected'[d] = expected[d],
           holder = {d} <=> holder' = {d},
           holder = {d} => UNCHANGED <<stage, reply>>,
           Own(d)' = Own(d),
           \A i \in Own(d) : agenda'[i] = agenda[i]
    PROVE  OnItsWay(d)'
<1>1. Held(d)' = Held(d)
  BY DEF Held, Reading
<1>2. OwnWrites(d)' = OwnWrites(d)
  BY DEF OwnWrites
<1>3. Asked(request[d], headset)' = Asked(request[d], headset)
  BY DEF Asked
<1>4. \A i \in Own(d) :
          Reading(request[d].feature, Effect(headset, request[d].feature, agenda[i].value))'
            = Reading(request[d].feature, Effect(headset, request[d].feature, agenda[i].value))
  BY DEF Reading
<1>5. OwnWrites(d) \subseteq Own(d)
  BY DEF OwnWrites
<1> QED
  BY <1>1, <1>2, <1>3, <1>4, <1>5 DEF OnItsWay, Written

(* The others do not touch a set on its way. *)
LEMMA OthersPass ==
    ASSUME TypeOK, Functions, InPlace, NEW c \in Clients, ClientStep(c),
           NEW d \in Clients \ {c}, expected'[d] # {}, OnItsWay(d)
    PROVE  OnItsWay(d)'
<1>1. /\ pc'[d] = pc[d] /\ current'[d] = current[d] /\ request'[d] = request[d]
      /\ holder' = {d} => holder = {d}
  BY StepForms DEF Spares
<1>2. headset' = headset /\ expected'[d] = expected[d] /\ (~Receive(c) => agenda' = agenda)
  BY ExpectedForms
<1>3. holder = {d} => UNCHANGED <<holder, stage, reply>>
  <2> SUFFICES ASSUME holder = {d} PROVE UNCHANGED <<holder, stage, reply>>
    OBVIOUS
  <2>1. holder # {c} /\ holder # {}
    OBVIOUS
  <2>2. stage # "free"
    BY DEF TypeOK
  <2>3. CASE Call(c) \/ Refuse(c)
    BY <2>3 DEF Call, Refuse, link
  <2>4. CASE Cancel(c)
    BY <2>1, <2>4, Zenon DEF Cancel
  <2> QED
    BY <2>1, <2>2, <2>3, <2>4 DEF ClientStep, Begin, Answered, TimesOut, Fails, Receive, Lose
<1>4. Own(d)' = Own(d) /\ \A i \in Own(d) : agenda'[i] = agenda[i]
  <2>1. CASE ~Receive(c)
    BY <1>2, <2>1 DEF Own
  <2>2. CASE Receive(c)
    <3>1. PICK cmd : agenda' = Append(agenda, cmd) /\ cmd.by = {c}
      BY <2>2 DEF Receive
    <3>2. agenda \in Seq(Commands \cup {cmd})
      BY DEF TypeOK
    <3>3. /\ Len(agenda) \in Nat
          /\ DOMAIN agenda = 1 .. Len(agenda) /\ DOMAIN agenda' = 1 .. Len(agenda) + 1
          /\ \A i \in DOMAIN agenda : agenda'[i] = agenda[i]
          /\ agenda'[Len(agenda) + 1] = cmd
      BY <3>1, <3>2
    <3>4. agenda'[Len(agenda) + 1].by # {d}
      BY <3>1, <3>3
    <3>5. \A i \in DOMAIN agenda' : i \in DOMAIN agenda \/ i = Len(agenda) + 1
      BY <3>3
    <3>6. \A i \in DOMAIN agenda : i \in DOMAIN agenda'
      BY <3>3
    <3>7. Own(d)' = {i \in DOMAIN agenda' : agenda'[i].by = {d}}
      BY DEF Own
    <3> QED
      BY <3>3, <3>4, <3>5, <3>6, <3>7 DEF Own
  <2> QED
    BY <2>1, <2>2
<1> QED
  BY <1>1, <1>2, <1>3, <1>4, WayFrame

(* A set's own steps keep it on its way. *)
LEMMA OwnSteps ==
    ASSUME TypeOK, Functions, InPlace, NEW c \in Clients, ClientStep(c),
           Active(c) /\ expected[c] # {} => OnItsWay(c),
           Active(c)', expected'[c] # {}
    PROVE  OnItsWay(c)'
<1>0. /\ headset' = headset /\ request' = request
      /\ pc \in [Clients -> {"new", "done", "read", "write", "confirm"}]
      /\ Held(c)' = {Reading(request[c].feature, headset)}
      /\ request[c] \in Requests
  BY ExpectedForms, StepForms DEF TypeOK, Held
<1>1. CASE Call(c)
  <2>1. agenda = <<>> /\ agenda' = <<>> /\ Asked(request[c], headset) = expected'[c]
        /\ holder' = holder /\ holder # {c}
        /\ pc'[c] = IF request[c].kind = "set" THEN "write" ELSE "read"
    BY <1>0, <1>1 DEF Call, link, Functions, InPlace, Active
  <2>2. request[c].kind # "get"
    BY <1>0, <2>1, ReadsExpectNothing
  <2>3. Own(c)' = {} /\ OwnWrites(c)' = {}
    BY <2>1 DEF Own, OwnWrites
  <2>4. Asked(request[c], headset)' = expected'[c]
    BY <1>0, <2>1 DEF Asked
  <2> QED
    BY <1>0, <2>1, <2>2, <2>3, <2>4 DEF OnItsWay, Written
<1>2. CASE Lose(c)
  <2>1. /\ agenda' = agenda
        /\ holder = {c} /\ holder' = {c} /\ stage = "sent" /\ stage' = "lost"
        /\ pc' = pc /\ reply' = reply
    BY <1>2 DEF Lose, clients
  <2>2. reply = {} /\ pc[c] # "new"
    BY <2>1 DEF TypeOK, InPlace, Active
  <2>3. pc[c] = "write" /\ expected[c] # {} /\ expected'[c] = Held(c)
    BY <1>2, <2>1 DEF Lose, Held, Functions
  <2>4. request[c].kind # "get" /\ Own(c) = {}
    BY <2>1, <2>3 DEF OnItsWay, Written, Active
  <2>5. Own(c)' = {} /\ OwnWrites(c)' = {} /\ Held(c)' = Held(c)
    BY <1>0, <2>1, <2>4 DEF Own, OwnWrites, Held
  <2> QED
    BY <1>0, <2>1, <2>2, <2>3, <2>4, <2>5 DEF OnItsWay, Written
<1>3. CASE ~Call(c) /\ ~Lose(c)
  <2>1. /\ expected'[c] = expected[c] /\ (~Receive(c) => agenda' = agenda)
        /\ Active(c) /\ OnItsWay(c)
    <3>1. expected'[c] = expected[c] /\ (~Receive(c) => agenda' = agenda)
      BY <1>3, ExpectedForms
    <3>2. Active(c)
      BY <1>3 DEF ClientStep, Refuse, Begin, Answered, TimesOut, Fails, Cancel, Receive, Lose,
                  InPlace, Active
    <3> QED
      BY <3>1, <3>2
  <2>2. /\ request'[c].kind # "get"
        /\ Asked(request[c], headset)' = Asked(request[c], headset)
        /\ Held(c)' = Held(c)
        /\ \A v : Reading(request[c].feature, Effect(headset, request[c].feature, v))'
                    = Reading(request[c].feature, Effect(headset, request[c].feature, v)')
    <3>1. request[c].kind # "get"
      BY <2>1 DEF OnItsWay, Written
    <3> QED
      BY <1>0, <3>1 DEF Asked, Held, Reading
  <2>3. ~Receive(c) => /\ Own(c)' = Own(c) /\ OwnWrites(c)' = OwnWrites(c)
                       /\ \A i \in Own(c) : agenda'[i] = agenda[i]
    BY <2>1 DEF Own, OwnWrites
  <2>4. \A i \in OwnWrites(c) :
            /\ {Reading(request[c].feature, Effect(headset, request[c].feature, agenda[i].value))}
                  = expected'[c]
            /\ \A j \in Own(c) : i <= j
    BY <2>1 DEF OnItsWay, Written
  <2>5. CASE Begin(c)
    <3>1. /\ holder' = {c} /\ stage' = "sent" /\ reply' = {} /\ stage = "free" /\ holder = {}
          /\ pc' = pc /\ current' = current
      BY <2>5 DEF Begin, clients, TypeOK
    <3> QED
      BY <1>0, <2>1, <2>2, <2>3, <2>4, <2>5, <3>1 DEF OnItsWay, Written, Begin, Receive
  <2>6. CASE /\ Answered(c) /\ request[c].kind = "patch" /\ pc[c] = "read"
             /\ Free /\ pc'[c] = "write" /\ current'[c] = reply
    <3>1. holder = {c} /\ reply # {} /\ holder' = {} /\ reply' = {} /\ ~Receive(c)
      BY <2>6 DEF Answered, Free, Receive, TypeOK
    <3>2. Own(c)' = {} /\ OwnWrites(c)' = {} /\ Asked(request[c], headset) = expected[c]
      BY <2>1, <2>3, <2>6, <3>1 DEF OnItsWay, Written
    <3>3. current'[c] = Held(c)
      BY <2>1, <2>6, <3>1 DEF OnItsWay, Written, Held
    <3> QED
      BY <1>0, <2>1, <2>2, <2>6, <3>1, <3>2, <3>3 DEF OnItsWay, Written
  <2>7. CASE /\ TimesOut(c) /\ pc[c] = "write" /\ Free /\ pc'[c] = "confirm"
    <3>1. Written(c) /\ holder = {c} /\ holder' = {} /\ ~Receive(c)
      BY <2>1, <2>7 DEF TimesOut, Silence, Free, Written, Receive
    <3> QED
      BY <1>0, <2>1, <2>2, <2>3, <2>4, <2>7, <3>1 DEF OnItsWay, Written
  <2>8. CASE Receive(c)
    <3> DEFINE f == request[c].feature
    <3> DEFINE value == IF pc[c] = "write" THEN {ToWrite(c)} ELSE {}
    <3> DEFINE n == Len(agenda) + 1
    <3> DEFINE cmd == [feature |-> f, value |-> value, by |-> {c}]
    <3>1. /\ holder = {c} /\ holder' = {c} /\ stage = "sent" /\ stage' = "acked"
          /\ reply' = reply /\ reply = {} /\ pc' = pc /\ current' = current
          /\ agenda' = Append(agenda, cmd)
      BY <2>8 DEF Receive, clients, TypeOK
    <3> HIDE DEF cmd
    <3>2. agenda \in Seq(Commands \cup {cmd})
      BY DEF TypeOK
    <3>3. /\ Len(agenda) \in Nat
          /\ DOMAIN agenda = 1 .. Len(agenda) /\ DOMAIN agenda' = 1 .. n
          /\ \A i \in DOMAIN agenda : agenda'[i] = agenda[i]
          /\ agenda'[n] = cmd
      BY <3>1, <3>2
    <3>4. cmd.by = {c} /\ cmd.value = value /\ cmd.feature = f
      BY DEF cmd
    <3> HIDE DEF value
    <3>5. /\ DOMAIN agenda' = DOMAIN agenda \cup {n}
          /\ \A i \in DOMAIN agenda : i <= n /\ i # n
          /\ n <= n /\ n \notin DOMAIN agenda
      BY <3>3
    <3> HIDE DEF n
    <3>6. Own(c)' = Own(c) \cup {n}
      BY <3>3, <3>4, <3>5 DEF Own
    <3>7. OwnWrites(c)' = IF value = {} THEN OwnWrites(c) ELSE OwnWrites(c) \cup {n}
      BY <3>3, <3>4, <3>5, <3>6 DEF Own, OwnWrites
    <3>8. Own(c) \subseteq DOMAIN agenda /\ OwnWrites(c) \subseteq Own(c)
      BY DEF Own, OwnWrites
    <3>9. \A i \in Own(c)' : agenda'[i].feature = f
      BY <2>1, <3>3, <3>4, <3>6, <3>8 DEF OnItsWay, Written
    <3>10. CASE pc[c] = "read"
      <4>1. value = {} /\ Own(c) = {} /\ OwnWrites(c) = {} /\ Asked(request[c], headset) = expected[c]
        BY <2>1, <3>1, <3>10 DEF OnItsWay, Written, value
      <4> QED
        BY <1>0, <2>1, <2>2, <3>1, <3>6, <3>7, <3>9, <3>10, <4>1 DEF OnItsWay, Written
    <3>11. CASE pc[c] = "write"
      <4>1. /\ value = {ToWrite(c)} /\ Own(c) = {} /\ OwnWrites(c) = {}
            /\ Asked(request[c], headset) = expected[c]
            /\ request[c].kind = "patch" => current[c] = Held(c)
        BY <2>1, <3>1, <3>8, <3>11 DEF OnItsWay, Written, value
      <4>2. Accepted(f, ToWrite(c))
        BY <3>1, <3>11 DEF InPlace
      <4>3. {Reading(f, Effect(headset, f, value))} = expected[c]
        BY <3>11, <4>1, <4>2, WrittenAsAsked
      <4>4. Own(c)' = {n} /\ OwnWrites(c)' = {n} /\ agenda'[n].value = value
        BY <3>3, <3>4, <3>6, <3>7, <4>1
      <4> HIDE DEF f
      <4>5. \A i \in OwnWrites(c)' :
               /\ {Reading(f, Effect(headset, f, agenda'[i].value))} = expected'[c]
               /\ \A j \in Own(c)' : i <= j
        BY <2>1, <3>5, <4>3, <4>4
      <4> QED
        BY <1>0, <2>1, <2>2, <3>1, <3>9, <3>11, <4>4, <4>5 DEF OnItsWay, Written, f
    <3>12. CASE pc[c] = "confirm"
      <4>1. value = {} /\ Own(c)' = Own(c) \cup {n} /\ OwnWrites(c)' = OwnWrites(c)
        BY <3>6, <3>7, <3>12 DEF value
      <4>2. \A i \in OwnWrites(c)' :
               /\ {Reading(f, Effect(headset, f, agenda'[i].value))} = expected'[c]
               /\ \A j \in Own(c)' : i <= j
        BY <2>4, <3>3, <3>5, <3>8, <4>1
      <4> QED
        BY <1>0, <2>1, <2>2, <3>1, <3>9, <3>12, <4>1, <4>2 DEF OnItsWay, Written
    <3> QED
      BY <1>0, <2>1, <3>10, <3>11, <3>12 DEF Active
  <2> QED
    BY <1>0, <1>3, <2>5, <2>6, <2>7, <2>8, StepForms DEF Active
<1> QED
  BY <1>1, <1>2, <1>3

(* The headset acts on a set's own command.                                *)
LEMMA HeadsetActs ==
    ASSUME TypeOK, Functions, InPlace, Act,
           NEW d \in Clients, Head(agenda).by = {d}, Active(d), OnItsWay(d)
    PROVE  OnItsWay(d)'
<1> DEFINE cmd == Head(agenda)
<1> DEFINE f == request[d].feature
<1>1. /\ agenda # <<>> /\ agenda' = Tail(agenda)
      /\ Changes(cmd.feature, cmd.value, cmd.by)
      /\ Pushed(cmd.feature) \/ UNCHANGED reply
      /\ UNCHANGED <<stage, holder>>
      /\ pc' = pc /\ request' = request /\ current' = current
  BY DEF Act, clients
<1>2. /\ agenda \in Seq(Commands) /\ Len(agenda) \in Nat \ {0}
      /\ DOMAIN agenda = 1 .. Len(agenda) /\ DOMAIN agenda' = 1 .. Len(agenda) - 1
      /\ \A i \in DOMAIN agenda' : agenda'[i] = agenda[i + 1] /\ i + 1 \in DOMAIN agenda
      /\ agenda[1] = cmd
  BY <1>1 DEF TypeOK
<1> HIDE DEF cmd
<1>3. 1 \in Own(d) /\ cmd.feature = f
  <2>1. 1 \in Own(d)
    BY <1>2 DEF Own, cmd
  <2> QED
    BY <1>2, <2>1 DEF OnItsWay, Written
<1>4. /\ \A i \in Own(d)' : i + 1 \in Own(d) /\ agenda'[i] = agenda[i + 1] /\ i \in Nat \ {0}
      /\ \A i \in OwnWrites(d)' : i + 1 \in OwnWrites(d)
  BY <1>2 DEF Own, OwnWrites
<1>5. OwnWrites(d)' = {}
  <2>1. ASSUME NEW i \in OwnWrites(d)'
        PROVE  FALSE
    <3>1. i + 1 \in OwnWrites(d) /\ i \in Nat \ {0}
      BY <1>4, <2>1 DEF OwnWrites
    <3>2. i + 1 <= 1
      BY <1>3, <3>1 DEF OnItsWay, Written
    <3> QED
      BY <3>1, <3>2
  <2> QED
    BY <2>1
<1>6. /\ headset' = Effect(headset, f, cmd.value)
      /\ expected'[d] = expected[d]
      /\ holder = {d} => reply' = reply \/ (stage = "acked" /\ reply' = Held(d)')
  BY <1>1, <1>3 DEF Changes, Pushed, Held, cmd
<1>7. Held(d)' = {Reading(f, headset')}
  BY <1>1 DEF Held
<1>8. CASE cmd.value = {}
  <2>1. headset' = headset /\ Held(d)' = Held(d)
    BY <1>1, <1>6, <1>7, <1>8 DEF Effect, Held
  <2>2. OwnWrites(d) = {}
    <3>1. ASSUME NEW i \in OwnWrites(d)
          PROVE  FALSE
      <4>1. i <= 1 /\ i \in DOMAIN agenda /\ agenda[i].value # {}
        BY <1>3, <3>1 DEF OnItsWay, Written, OwnWrites, Own
      <4>2. i = 1
        BY <1>2, <4>1
      <4> QED
        BY <1>2, <1>8, <4>1, <4>2
    <3> QED
      BY <3>1
  <2>3. Asked(request[d], headset)' = Asked(request[d], headset)
    BY <1>1, <2>1 DEF Asked
  <2>4. \A i \in Own(d)' : agenda'[i].feature = request'[d].feature
    <3>1. \A i \in Own(d) : agenda[i].feature = request[d].feature
      BY DEF OnItsWay, Written
    <3> QED
      BY <1>1, <1>4, <3>1
  <2>5. pc[d] = "read" => Own(d)' = {}
    <3> SUFFICES ASSUME pc[d] = "read", NEW i \in Own(d)' PROVE FALSE
      OBVIOUS
    <3>1. i + 1 = 1 /\ i \in Nat \ {0}
      BY <1>3, <1>4 DEF OnItsWay, Written
    <3> QED
      BY <3>1
  <2>6. pc[d] = "write" => Written(d)
    BY <1>3 DEF OnItsWay, Written
  <2>7. holder' = {d} => reply' \subseteq Held(d)'
    BY <1>1, <1>6, <2>1 DEF OnItsWay, Written
  <2> QED
    BY <1>1, <1>5, <1>6, <2>1, <2>2, <2>3, <2>4, <2>5, <2>6, <2>7 DEF OnItsWay, Written
<1>9. CASE cmd.value # {}
  <2>1. 1 \in OwnWrites(d)
    BY <1>2, <1>3, <1>9 DEF OwnWrites
  <2>2. /\ Held(d)' = expected'[d]
        /\ holder = {d} => reply = {}
        /\ pc[d] = "write" => holder = {d} /\ stage = "acked"
        /\ pc[d] # "read"
    BY <1>2, <1>6, <1>7, <2>1 DEF OnItsWay, Written
  <2>3. \A i \in Own(d)' : agenda'[i].feature = request'[d].feature
    <3>1. \A i \in Own(d) : agenda[i].feature = request[d].feature
      BY DEF OnItsWay, Written
    <3> QED
      BY <1>1, <1>4, <3>1
  <2>4. holder' = {d} => reply' \subseteq Held(d)'
    BY <1>1, <1>6, <2>2
  <2> QED
    BY <1>1, <1>5, <1>6, <2>2, <2>3, <2>4 DEF OnItsWay, Written
<1> QED
  BY <1>8, <1>9

LEMMA UndisturbedStep ==
    ASSUME TypeOK, Functions, InPlace, Undisturbed, Next
    PROVE  Undisturbed'
<1> SUFFICES ASSUME NEW d \in Clients, Active(d)', expected'[d] # {}
             PROVE  OnItsWay(d)'
  BY DEF Undisturbed
<1>1. ASSUME NEW c \in Clients, ClientStep(c)
      PROVE  OnItsWay(d)'
  <2>1. CASE d = c
    BY <1>1, <2>1, OwnSteps DEF Undisturbed
  <2>2. CASE d # c
    <3>1. Active(d) /\ expected[d] # {}
      <4>1. pc'[d] = pc[d]
        BY <1>1, <2>2, StepForms DEF Spares
      <4>2. expected'[d] = expected[d]
        BY <1>1, <2>2, ExpectedForms
      <4> QED
        BY <4>1, <4>2 DEF Active
    <3> QED
      BY <1>1, <2>2, <3>1, OthersPass DEF Undisturbed
  <2> QED
    BY <2>1, <2>2
<1>2. CASE Act
  <2>1. Active(d)
    BY <1>2 DEF Act, clients, Active
  <2>2. d \in Head(agenda).by /\ expected'[d] = expected[d]
    BY <1>2, <2>1 DEF Act, Changes
  <2>3. Head(agenda) \in Commands
    BY <1>2 DEF Act, TypeOK
  <2>4. Head(agenda).by = {d}
    BY <2>2, <2>3, CommandForms
  <2> QED
    BY <1>2, <2>1, <2>2, <2>4, HeadsetActs DEF Undisturbed
<1>3. ASSUME NEW p \in Presses, Press(p)
      PROVE  OnItsWay(d)'
  <2>1. Active(d)
    BY <1>3 DEF Press, clients, Active
  <2>2. expected'[d] = {}
    BY <1>3, <2>1 DEF Press, Changes
  <2> QED
    BY <2>2
<1> QED
  BY <1>1, <1>2, <1>3 DEF Next, ClientStep

(* A reply to a set that nobody disturbed is what was expected of it: it   *)
(* was pushed behind the write.                                            *)
LEMMA UndisturbedSetTellsItsEffectStep ==
    ASSUME TypeOK, Functions, InPlace, Undisturbed, UndisturbedSetTellsItsEffect, Next
    PROVE  UndisturbedSetTellsItsEffect'
<1> SUFFICES ASSUME NEW d \in Clients, answer'[d].status = "ok", expected'[d] # {}
             PROVE  answer'[d].reading = expected'[d]
  BY DEF UndisturbedSetTellsItsEffect
<1>1. ASSUME NEW c \in Clients, ClientStep(c)
      PROVE  answer'[d].reading = expected'[d]
  <2>1. CASE answer'[d] = answer[d]
    <3>1. pc[d] = "done"
      BY <2>1 DEF InPlace
    <3>2. expected'[d] = expected[d]
      BY <1>1, <3>1, ExpectedForms DEF Call
    <3> QED
      BY <2>1, <3>2 DEF UndisturbedSetTellsItsEffect
  <2>2. CASE answer'[d] # answer[d]
    <3>1. /\ d = c /\ Answered(c) /\ answer'[c].reading = reply /\ Active(c)
          /\ pc[c] = "write" \/ pc[c] = "confirm" \/ request[c].kind = "get"
      BY <1>1, <2>2, StepForms DEF Spares, Call, Begin, Receive, Lose, clients
    <3>2. holder = {c} /\ reply # {} /\ stage = "acked"
      BY <3>1 DEF Answered, TypeOK
    <3>3. expected'[c] = expected[c] /\ OnItsWay(c)
      <4>1. ~Call(c) /\ ~Lose(c)
        BY <3>1, <3>2 DEF Call, Lose, Active
      <4>2. expected'[c] = expected[c]
        BY <1>1, <3>1, <4>1, ExpectedForms
      <4> QED
        BY <3>1, <4>2 DEF Undisturbed
    <3>4. OwnWrites(c) = {} /\ reply \subseteq Held(c) /\ Held(c) = expected[c]
      BY <3>1, <3>2, <3>3 DEF OnItsWay, Written
    <3> QED
      BY <3>1, <3>2, <3>3, <3>4 DEF Held
  <2> QED
    BY <2>1, <2>2
<1>2. CASE Act \/ \E p \in Presses : Press(p)
  <2>1. answer' = answer /\ pc' = pc
    BY <1>2, WorldForms DEF clients
  <2>2. pc[d] = "done"
    BY <2>1 DEF InPlace
  <2>3. expected'[d] = expected[d]
    BY <1>2, <2>2, WorldForms DEF Changes, Active
  <2> QED
    BY <2>1, <2>3 DEF UndisturbedSetTellsItsEffect
<1> QED
  BY <1>1, <1>2 DEF Next, ClientStep

----------------------------------------------------------------------------
(* The theorems *)

LEMMA Stutters ==
    ASSUME IInv, UNCHANGED vars
    PROVE  IInv'
<1> USE DEF vars, link, clients, history
<1>1. TypeOK'
  BY DEF IInv, TypeOK
<1>2. \A c \in Clients : ToWrite(c)' = ToWrite(c) /\ Active(c)' = Active(c)
  BY DEF ToWrite, Active
<1>3. Functions' /\ InPlace' /\ HeldSince'
  BY <1>2 DEF IInv, Functions, InPlace, HeldSince
<1>4. AnswerWasHeld' /\ RefusedForCause' /\ UndisturbedSetTellsItsEffect'
  BY DEF IInv, AnswerWasHeld, RefusedForCause, UndisturbedSetTellsItsEffect
<1>5. ASSUME NEW d \in Clients, OnItsWay(d)
      PROVE  OnItsWay(d)'
  <2>1. Own(d)' = Own(d)
    BY DEF Own
  <2> QED
    BY <1>5, <2>1, WayFrame
<1>6. Undisturbed'
  BY <1>2, <1>5 DEF IInv, Undisturbed
<1> QED
  BY <1>1, <1>3, <1>4, <1>6 DEF IInv

(* The inductive invariant of the setters holds in every state.            *)
THEOREM Invariance == Spec => []IInv
<1>1. Init => IInv
  BY Initial
<1>2. IInv /\ [Next]_vars => IInv'
  <2>1. ASSUME IInv, Next
        PROVE  IInv'
    BY <2>1, TypeStep, FunctionsStep, InPlaceStep, HeldSinceStep, AnswerWasHeldStep,
       RefusedForCauseStep, UndisturbedStep, UndisturbedSetTellsItsEffectStep DEF IInv
  <2> QED
    BY <2>1, Stutters
<1> QED
  BY <1>1, <1>2, PTL DEF Spec

(* Every variable of the setters keeps its type: the headset holds         *)
(* settings, and is sent nothing that the payload builders refuse.         *)
THEOREM TypeCorrect == Spec => []TypeOK
<1>1. IInv => TypeOK
  BY DEF IInv
<1> QED
  BY <1>1, Invariance, PTL

(* The fields of a write are those of its request and of one reading, held *)
(* since then.                                                             *)
THEOREM WritesMergeOneReading == Spec => []MergedFromOneReading
<1>1. IInv => MergedFromOneReading
  BY Merged DEF IInv
<1> QED
  BY <1>1, Invariance, PTL

(* No client is given a reading that was not held since its request.       *)
THEOREM AnswersWereHeld == Spec => []AnswerWasHeld
<1>1. IInv => AnswerWasHeld
  BY DEF IInv
<1> QED
  BY <1>1, Invariance, PTL

(* A request is refused for its own values, or for the level held.         *)
THEOREM RefusalsHaveCause == Spec => []RefusedForCause
<1>1. IInv => RefusedForCause
  BY DEF IInv
<1> QED
  BY <1>1, Invariance, PTL

(* A set alone with the headset is answered with what came of it: with     *)
(* what it asked for or, if its command was lost, with what was held.      *)
THEOREM SetsTellTheirEffect == Spec => []UndisturbedSetTellsItsEffect
<1>1. IInv => UndisturbedSetTellsItsEffect
  BY DEF IInv
<1> QED
  BY <1>1, Invariance, PTL
=============================================================================
