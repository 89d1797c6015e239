----------------------------- MODULE MCSettings -----------------------------
(* Instances of Settings for TLC. *)
EXTENDS Settings

CONSTANTS c1, c2

Get(features) == [kind : {"get"}, feature : features, value : {{}}]
Set(feature, values) == [kind : {"set"}, feature : {feature}, value : {{v} : v \in values}]
Preset(p) == [preset |-> p, bands |-> {}]

NoisePatches == [kind : {"patch"}, feature : {"noise"}, mode : {"ambient"},
                 level : {{}}, voice : {{}}]

(* Patches with and without each field, sets in range and out of it. *)
EveryRequest ==
    Get({"noise"})
        \cup Set("volume", {MaxVolume + 1})
        \cup Set("eq", {Preset("off")})
        \cup [kind : {"patch"}, feature : {"noise"}, mode : {"off"},
              level : {{}}, voice : {{}}]
        \cup [kind : {"patch"}, feature : {"noise"}, mode : {"ambient"},
              level : {{MaxLevel}}, voice : {{TRUE}}]
        \cup NoisePatches
        \cup [kind : {"patch"}, feature : {"eq"}, bands : {1, MaxBand + 1}]

(* The NC/AMBIENT button, an ambient level stored from elsewhere. *)
NoisePresses ==
    {[feature |-> "noise",
      value |-> {[mode |-> m, level |-> l, voice |-> FALSE]}] :
        <<m, l>> \in {<<"ambient", MaxLevel + 1>>, <<"off", 1>>}}

AtFirst ==
    [noise |-> [mode |-> "ambient", level |-> 1, voice |-> FALSE],
     eq |-> [preset |-> "off", bands |-> [p \in Presets |-> 0]],
     volume |-> 0, dsee |-> FALSE, voice_guidance |-> FALSE]
=============================================================================
