------------------------------ MODULE MCWaybar ------------------------------
(* Instances of Waybar for TLC. *)
EXTENDS Waybar, TLC

CONSTANTS i1, i2

Plain(commands) == [command : commands, patch : {{}}]

(* The timer, a click that toggles, one that sets, the menu, a reconnect. *)
SomeJobs ==
    Plain({"status", "dsee-toggle", "menu", "reconnect"})
        \cup [command : {"set"}, patch : {{[mode |-> "off"]}}]

Held == [mode |-> "off", level |-> 1, voice |-> FALSE, dsee |-> FALSE, guidance |-> FALSE]

Symmetry == Permutations(Instances)
=============================================================================
