------------------------------ MODULE Settings ------------------------------
(***************************************************************************)
(* The values: what the setters of service.rs and the handlers of          *)
(* server.rs compute from what they read, over the exchanges of one        *)
(* session, against a headset that others change as well.                  *)
(*                                                                         *)
(* An exchange here is one of a session in sync (InSync of Connection): it *)
(* is answered by the first reading of its feature pushed after its ACK.   *)
(* Its command may be lost, its answer may be that of an older command or  *)
(* of a button, and the headset may be slower than the deadline.           *)
(***************************************************************************)
EXTENDS Integers, Sequences

CONSTANTS
    Clients,        \* HTTP clients, each with one request to make
    Requests,       \* the requests they choose from, a subset of AllRequests
    Presses,        \* what is changed at the headset itself
    Start,          \* what the headset holds at first
    Presets,        \* equalizer presets
    Customizable,   \* those that take band values: Custom, User 1, User 2
    User1,          \* the one that takes them when the active one does not
    MaxLevel,       \* 20 in types.rs:5
    MaxVolume,      \* 30 in types.rs:135
    MaxBand,        \* 10 in types.rs:10; the six bands move as one
    MaxAgenda,      \* bound: commands received and not acted on
    MaxPresses      \* bound: changes made at the headset

AncModes == {"off", "noise_cancelling", "ambient"}
Levels == 0 .. MaxLevel + 1      \* the last stands for all above it
Volumes == 0 .. MaxVolume + 1
Bands == -(MaxBand + 1) .. MaxBand + 1
Optional(S) == {{}} \cup {{x} : x \in S}
OrElse(given, otherwise) == IF given = {} THEN otherwise ELSE CHOOSE x \in given : TRUE

Features == {"noise", "eq", "volume", "dsee", "voice_guidance"}
Toggles == {"dsee", "voice_guidance"}

(* What the headset holds, what it says of a feature, and the values the   *)
(* payload builders let through.  It never holds the level 0 (types.rs:3). *)
Noise == [mode : AncModes, level : Levels, voice : BOOLEAN]
Settings ==
    [noise : {n \in Noise : n.level # 0}, eq : [preset : Presets, bands : [Presets -> Bands]],
     volume : Volumes, dsee : BOOLEAN, voice_guidance : BOOLEAN]
Readings ==
    [noise |-> Noise, eq |-> [preset : Presets, bands : Bands],
     volume |-> Volumes, dsee |-> BOOLEAN, voice_guidance |-> BOOLEAN]
Writable ==
    [noise |-> [mode : AncModes, level : 0 .. MaxLevel, voice : BOOLEAN],
     eq |-> [preset : Presets, bands : {{}}]
                \cup [preset : Customizable, bands : {{b} : b \in -MaxBand .. MaxBand}],
     volume |-> 0 .. MaxVolume, dsee |-> BOOLEAN, voice_guidance |-> BOOLEAN]

Reading(f, h) ==
    IF f = "eq" THEN [preset |-> h.eq.preset, bands |-> h.eq.bands[h.eq.preset]]
    ELSE h[f]

(* A patch names what it changes and leaves the rest to what is read:      *)
(* POST /api/noise-control and set_anc_mode, and set_eq_bands.             *)
AllRequests ==
    [kind : {"get"}, feature : Features, value : {{}}]
        \cup (UNION {[kind : {"set"}, feature : {f}, value : {{v} : v \in Readings[f]}] :
                        f \in Toggles \cup {"volume"}})
        \cup [kind : {"set"}, feature : {"eq"},
              value : {{[preset |-> p, bands |-> {}]} : p \in Presets}]
        \cup [kind : {"patch"}, feature : {"noise"},
              mode : AncModes, level : Optional(Levels), voice : Optional(BOOLEAN)]
        \cup [kind : {"patch"}, feature : {"eq"}, bands : Bands]

AllPresses ==
    UNION {[feature : {f}, value : {{v} : v \in Readings[f]}] : f \in Features \ {"eq"}}

ASSUME SettingsAssumption ==
    /\ Requests \subseteq AllRequests
    /\ Presses \subseteq AllPresses
    /\ Start \in Settings
    /\ Customizable \subseteq Presets /\ User1 \in Customizable
    /\ MaxLevel \in Nat \ {0} /\ MaxVolume \in Nat /\ MaxBand \in Nat
    /\ MaxAgenda \in Nat /\ MaxPresses \in Nat

VARIABLES
    headset,    \* the settings it holds
    presses,    \* changes made at the headset so far
    agenda,     \* commands it has acknowledged and not acted on
    stage,      \* of the exchange: free, sent, lost or acked
    holder,     \* the client whose exchange it is, as a set
    reply,      \* the first reading of its feature since the ACK, as a set
    pc,         \* each client: new, done, or its next or current exchange
    request,    \* each client's request
    current,    \* the reading a patch has read, as a set
    answer,     \* how the request ended, and the reading it was given
    seen,       \* history: readings of the feature held since the request
    expected    \* history: what the headset should hold in the end if nobody
                \* else does anything: what a set asks for or, if its command
                \* is lost, what was held; as a set, empty as soon as somebody
                \* does, and for a request that no longer ends ok

link == <<agenda, stage, holder, reply>>
clients == <<pc, request, current, answer>>
history == <<seen, expected>>
vars == <<headset, presses, link, clients, history>>

----------------------------------------------------------------------------
(* What is written *)

(* Bugs: what is left out is reset, or bands go to any active preset. *)
NoiseResets(r, now) ==
    [mode |-> r.mode, level |-> OrElse(r.level, 1), voice |-> OrElse(r.voice, FALSE)]
BandsAnywhere(r, now) == [preset |-> now.preset, bands |-> {r.bands}]

(* What a patch writes, given what the headset said it holds. *)
NoiseToWrite(r, now) ==
    [mode |-> r.mode,
     level |-> OrElse(r.level, now.level),
     voice |-> OrElse(r.voice, now.voice)]

BandsToWrite(r, now) ==
    [preset |-> IF now.preset \in Customizable THEN now.preset ELSE User1,
     bands |-> {r.bands}]

ToWrite(c) ==
    LET now == CHOOSE x \in current[c] : TRUE
    IN  CASE request[c].kind = "set" -> CHOOSE v \in request[c].value : TRUE
          [] request[c].kind = "patch" /\ request[c].feature = "noise" ->
                NoiseToWrite(request[c], now)
          [] request[c].kind = "patch" /\ request[c].feature = "eq" ->
                BandsToWrite(request[c], now)

(* A bug: no range is enforced. *)
AcceptsAll(f, v) == TRUE

(* The ranges the payload builders enforce. *)
Accepted(f, v) == v \in Writable[f]

(* What the headset makes of a command.  Level and voice take effect in    *)
(* ambient mode only, a level of 0 is held as 1, and a preset brings the   *)
(* bands it had.                                                           *)
Applied(h, f, v) ==
    CASE f = "noise" /\ v.mode = "ambient" ->
            [h EXCEPT !.noise = [v EXCEPT !.level = IF v.level = 0 THEN 1 ELSE v.level]]
      [] f = "noise" /\ v.mode # "ambient" -> [h EXCEPT !.noise.mode = v.mode]
      [] f = "eq" ->
            [h EXCEPT !.eq = [preset |-> v.preset,
                              bands |-> [h.eq.bands EXCEPT ![v.preset] = OrElse(v.bands, @)]]]
      [] f = "volume" -> [h EXCEPT !.volume = IF v > MaxVolume THEN MaxVolume ELSE v]
      [] f \in Toggles -> [h EXCEPT ![f] = v]

Effect(h, f, value) == IF value = {} THEN h ELSE Applied(h, f, OrElse(value, {}))

(* What a set asks for, all else as the headset h has it; as a set, empty  *)
(* for a read.                                                             *)
Asked(r, h) ==
    CASE r.feature = "noise" /\ r.kind = "patch" ->
            {[mode |-> r.mode,
              level |-> IF r.mode # "ambient" THEN h.noise.level
                        ELSE IF r.level = {0} THEN 1 ELSE OrElse(r.level, h.noise.level),
              voice |-> IF r.mode # "ambient" THEN h.noise.voice
                        ELSE OrElse(r.voice, h.noise.voice)]}
      [] r.feature = "eq" /\ r.kind = "patch" ->
            {[preset |-> IF h.eq.preset \in Customizable THEN h.eq.preset ELSE User1,
              bands |-> r.bands]}
      [] r.feature = "eq" /\ r.kind = "set" ->
            {[preset |-> v.preset, bands |-> h.eq.bands[v.preset]] : v \in r.value}
      [] OTHER -> r.value

----------------------------------------------------------------------------
(* Handlers *)

Init ==
    /\ headset = Start
    /\ presses = 0
    /\ agenda = <<>>
    /\ stage = "free"
    /\ holder = {}
    /\ reply = {}
    /\ pc = [c \in Clients |-> "new"]
    /\ request \in [Clients -> Requests]
    /\ current = [c \in Clients |-> {}]
    /\ answer = [c \in Clients |-> [status |-> "none", reading |-> {}]]
    /\ seen = [c \in Clients |-> {}]
    /\ expected = [c \in Clients |-> {}]

Call(c) ==
    /\ pc[c] = "new"
    /\ pc' = [pc EXCEPT ![c] = IF request[c].kind = "set" THEN "write" ELSE "read"]
    /\ seen' = [seen EXCEPT ![c] = {Reading(request[c].feature, headset)}]
    /\ expected' = [expected EXCEPT
                       ![c] = IF agenda = <<>> THEN Asked(request[c], headset) ELSE {}]
    /\ UNCHANGED <<headset, presses, link, request, current, answer>>

Active(c) == pc[c] \notin {"new", "done"}

Gives(c, status, reading) ==
    /\ pc' = [pc EXCEPT ![c] = "done"]
    /\ answer' = [answer EXCEPT ![c] = [status |-> status, reading |-> reading]]
    /\ current' = [current EXCEPT ![c] = {}]

Free == stage' = "free" /\ holder' = {} /\ reply' = {}

(* The payload is built, and refused, before the exchange takes the mutex. *)
Refuse(c) ==
    /\ pc[c] = "write"
    /\ holder # {c}
    /\ ~Accepted(request[c].feature, ToWrite(c))
    /\ Gives(c, "unsupported", {})
    /\ UNCHANGED <<headset, presses, link, request, history>>

Begin(c) ==
    /\ Active(c)
    /\ stage = "free"
    /\ pc[c] = "write" => Accepted(request[c].feature, ToWrite(c))
    /\ Len(agenda) < MaxAgenda
    /\ stage' = "sent"
    /\ holder' = {c}
    /\ reply' = {}
    /\ UNCHANGED <<headset, presses, agenda, clients, history>>

(* The exchange returns the reply, to a patch that goes on to write or to  *)
(* the client.                                                             *)
Answered(c) ==
    /\ holder = {c}
    /\ reply # {}
    /\ Free
    /\ IF request[c].kind = "patch" /\ pc[c] = "read"
       THEN /\ current' = [current EXCEPT ![c] = reply]
            /\ pc' = [pc EXCEPT ![c] = "write"]
            /\ UNCHANGED answer
       ELSE Gives(c, "ok", reply)
    /\ UNCHANGED <<headset, presses, agenda, request, history>>

(* The deadline passed without an ACK, or without a reading after it. *)
Silence == stage = "lost" \/ (stage = "acked" /\ reply = {})

(* A bug: silence after a mode was set is answered with what was written. *)
TimesOutAssuming(c) ==
    /\ holder = {c}
    /\ Silence
    /\ Free
    /\ request[c].feature = "noise"
    /\ IF pc[c] = "write" THEN Gives(c, "ok", {ToWrite(c)}) ELSE Gives(c, "timeout", {})
    /\ UNCHANGED <<headset, presses, agenda, request, history>>

(* A bug: a patch met by silence is answered with what it had read. *)
TimesOutStale(c) ==
    /\ holder = {c}
    /\ Silence
    /\ Free
    /\ Gives(c, IF pc[c] = "write" THEN "ok" ELSE "timeout", current[c])
    /\ UNCHANGED <<headset, presses, agenda, request, history>>

(* A set met by silence reads what the headset holds. *)
TimesOut(c) ==
    /\ holder = {c}
    /\ Silence
    /\ Free
    /\ IF pc[c] = "write"
       THEN pc' = [pc EXCEPT ![c] = "confirm"] /\ UNCHANGED <<current, answer>>
       ELSE Gives(c, "timeout", {})
    /\ UNCHANGED <<headset, presses, agenda, request, history>>

(* A bad frame, or the link dies with what was under way on it. *)
Fails(c) ==
    /\ holder = {c}
    /\ stage # "sent"
    /\ Free
    /\ Gives(c, "error", {})
    /\ \/ UNCHANGED <<agenda, expected>>
       \/ agenda' = <<>> /\ expected' = [d \in Clients |-> {}]
    /\ UNCHANGED <<headset, presses, request, seen>>

(* The client hangs up. *)
Cancel(c) ==
    /\ Active(c)
    /\ \/ holder = {c} /\ stage # "sent" /\ Free
       \/ holder # {c} /\ UNCHANGED <<stage, holder, reply>>
    /\ Gives(c, "error", {})
    /\ UNCHANGED <<headset, presses, agenda, request, history>>

----------------------------------------------------------------------------
(* The headset and its user *)

(* It acknowledges the command of the exchange, or never gets it. *)
Receive(c) ==
    /\ stage = "sent"
    /\ holder = {c}
    /\ stage' = "acked"
    /\ agenda' = Append(agenda, [feature |-> request[c].feature,
                                 value |-> IF pc[c] = "write" THEN {ToWrite(c)} ELSE {},
                                 by |-> {c}])
    /\ UNCHANGED <<headset, presses, holder, reply, clients, history>>

(* A write that is lost leaves things as they are.                         *)
Lose(c) ==
    /\ stage = "sent"
    /\ holder = {c}
    /\ stage' = "lost"
    /\ expected' = [expected EXCEPT
                       ![c] = IF pc[c] = "write" /\ @ # {}
                              THEN {Reading(request[c].feature, headset)} ELSE {}]
    /\ UNCHANGED <<headset, presses, agenda, holder, reply, clients, seen>>

(* A command of the clients in by, or a button, has this effect.           *)
Changes(f, value, by) ==
    /\ headset' = Effect(headset, f, value)
    /\ seen' = [c \in Clients |->
                  IF ~Active(c) THEN seen[c]
                  ELSE seen[c] \cup {Reading(request[c].feature, headset')}]
    /\ expected' = [c \in Clients |-> IF c \in by \/ ~Active(c) THEN expected[c] ELSE {}]

(* A reading is pushed; it is the reply if the exchange can take it. *)
Pushed(f) ==
    reply' = IF stage = "acked" /\ reply = {} /\ \A c \in holder : request[c].feature = f
             THEN {Reading(f, headset')} ELSE reply

(* A read is returned, a change notified, and what changes nothing met     *)
(* with silence.                                                           *)
Act ==
    /\ agenda # <<>>
    /\ agenda' = Tail(agenda)
    /\ LET cmd == Head(agenda)
       IN  /\ Changes(cmd.feature, cmd.value, cmd.by)
           /\ IF cmd.value = {} \/ headset' # headset THEN Pushed(cmd.feature) ELSE UNCHANGED reply
    /\ UNCHANGED <<presses, stage, holder, clients>>

(* A button, or the volume moved by the player; notified or not. *)
Press(p) ==
    /\ presses < MaxPresses
    /\ presses' = presses + 1
    /\ Changes(p.feature, p.value, {})
    /\ Pushed(p.feature) \/ UNCHANGED reply
    /\ UNCHANGED <<agenda, stage, holder, clients>>

----------------------------------------------------------------------------
Next ==
    \/ \E c \in Clients :
          \/ Call(c)
          \/ Refuse(c)
          \/ Begin(c)
          \/ Answered(c)
          \/ TimesOut(c)
          \/ Fails(c)
          \/ Cancel(c)
          \/ Receive(c)
          \/ Lose(c)
    \/ Act
    \/ \E p \in Presses : Press(p)

Spec == Init /\ [][Next]_vars

----------------------------------------------------------------------------
(* Properties *)

Statuses == {"none", "ok", "timeout", "error", "unsupported"}

Commands ==
    UNION {[feature : {f}, value : Optional(Writable[f]), by : {{c} : c \in Clients}] :
              f \in Features}

(* Every variable keeps its type, and the exchange has a holder and a      *)
(* reply when its stage says so.                                           *)
TypeOK ==
    /\ headset \in Settings
    /\ presses \in 0 .. MaxPresses
    /\ agenda \in Seq(Commands)
    /\ stage \in {"free", "sent", "lost", "acked"}
    /\ holder \in Optional(Clients) /\ (holder = {} <=> stage = "free")
    /\ reply # {} => stage = "acked"
    /\ \A c \in holder : reply \subseteq Readings[request[c].feature]
    /\ pc \in [Clients -> {"new", "done", "read", "write", "confirm"}]
    /\ request \in [Clients -> Requests]
    /\ \A c \in Clients :
          /\ current[c] \subseteq Readings[request[c].feature]
          /\ answer[c].status \in Statuses
          /\ answer[c].reading \subseteq Readings[request[c].feature]
          /\ seen[c] \subseteq Readings[request[c].feature]
          /\ expected[c] \subseteq Readings[request[c].feature]

(* What a patch leaves out is written back as it was at one moment since   *)
(* the request: the fields of a write are never of two readings, nor of a  *)
(* reading older than the request.  Bands go to the preset that was active *)
(* at such a moment or, if that one is fixed, to User 1.                   *)
MergedFromOneReading ==
    \A c \in Clients :
        pc[c] = "write" /\ request[c].kind = "patch" =>
            \E was \in seen[c] :
                IF request[c].feature = "noise"
                THEN /\ request[c].level = {} => ToWrite(c).level = was.level
                     /\ request[c].voice = {} => ToWrite(c).voice = was.voice
                ELSE ToWrite(c).preset \in
                         IF was.preset \in Customizable THEN {was.preset} ELSE {User1}

(* A reading that a client is given was held by the headset at some moment *)
(* since its request, also after a set that was met with silence.          *)
AnswerWasHeld ==
    \A c \in Clients : answer[c].status = "ok" => answer[c].reading \subseteq seen[c]

(* A request is refused for its own values only, unless the headset itself *)
(* holds a level that may not be written: then a patch that leaves the     *)
(* level out is refused, the change of mode with it.                       *)
RefusedForCause ==
    \A c \in Clients :
        answer[c].status = "unsupported" =>
            \/ /\ request[c].feature = "noise"
               /\ \E was \in seen[c] : OrElse(request[c].level, was.level) > MaxLevel
            \/ /\ request[c].feature = "volume"
               /\ \A level \in request[c].value : level > MaxVolume
            \/ /\ request[c].feature = "eq" /\ request[c].kind = "patch"
               /\ request[c].bands \notin -MaxBand .. MaxBand

(* A set that is alone with the headset and answered ok is answered with   *)
(* what came of it: with what was asked for, all else as the request found *)
(* it, whether a notification or silence and a second read brought the     *)
(* answer, and also when the headset is slower than the deadline; or, if   *)
(* its command was lost, with what the headset held before.  Only then is  *)
(* the answer ok and the set has not taken effect.                         *)
UndisturbedSetTellsItsEffect ==
    \A c \in Clients :
        answer[c].status = "ok" /\ expected[c] # {} => answer[c].reading = expected[c]

(* "Silence after a set therefore means the value was already applied, not *)
(* that the write failed" (docs/protocol.md:103-104): when a set is met    *)
(* with silence and no command is left to act on, to write it again would  *)
(* change nothing.                                                         *)
SilenceMeansApplied ==
    [][\A c \in Clients :
          pc[c] = "write" /\ pc'[c] = "confirm" /\ agenda = <<>>
              => Effect(headset, request[c].feature, {ToWrite(c)}) = headset]_vars

(* "Anything left out keeps its current value." (README.md:200-201) *)
KeepsOmitted ==
    [][\A c \in Clients :
          agenda # <<>> /\ agenda' = Tail(agenda) /\ Head(agenda).by = {c}
          /\ pc[c] = "write" /\ request[c].feature = "noise"
          /\ Head(agenda).value # {} /\ request[c].level = {}
              => headset'.noise.level = headset.noise.level]_vars
=============================================================================
