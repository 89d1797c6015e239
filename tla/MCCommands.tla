----------------------------- MODULE MCCommands -----------------------------
(* Instances of Commands for TLC. *)
EXTENDS Commands

Write_(f, values) == [feature : {f}, value : values]

(* Values at the ends of each range and just outside. *)
EdgeValues ==
    Write_("noise", [mode : {"off", "noise_cancelling", "ambient"}, voice : BOOLEAN,
                     level : {0, 1, 20, 21}])
        \cup Write_("eq", [preset : Presets, bands : {<<>>}])
        \cup Write_("eq", [preset : Presets,
                           bands : {<<b, 1, 2, 3, 4, c>> : b, c \in {-11, -10, 0, 10, 11}}])
        \cup Write_("dsee", BOOLEAN) \cup Write_("voice_guidance", BOOLEAN)
        \cup Write_("volume", {0, 30, 31})
=============================================================================
