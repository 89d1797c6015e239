------------------------------- MODULE Waybar -------------------------------
(***************************************************************************)
(* The Waybar module (contrib/waybar/sonyctl-waybar.sh).  Waybar runs it   *)
(* on a timer and on every click, several instances at once, which meet in *)
(* three files: the time of the last connect, the lock of a connect, and   *)
(* the flag of a low battery.  Modules Manager and Settings have the       *)
(* daemon: here a request to it takes effect or not, and is answered or    *)
(* given up after the --max-time of curl.                                  *)
(***************************************************************************)
EXTENDS Integers, Sequences

CONSTANTS
    Instances,    \* of the script, each run again and again
    Jobs,         \* what they are run for, a subset of AllJobs
    AtFirst,      \* what the headset holds at first
    Parts,        \* the parts a status may lack, a subset of AllParts
    Throttle,     \* 20 s in the source
    MaxTime,      \* bound: the clock
    MaxLate       \* bound: commands given up that may still take effect

Modes == {"off", "noise_cancelling", "ambient"}
Headset == [mode : Modes, level : 0 .. 20, voice : BOOLEAN, dsee : BOOLEAN, guidance : BOOLEAN]

(* What p names as p has it, the rest as in h. *)
Patched(h, p) == [f \in DOMAIN h |-> IF f \in DOMAIN p THEN p[f] ELSE h[f]]

AllParts == {"battery", "noise", "dsee", "guidance"}

(* Clicks that change what the headset was said to hold, and the others.   *)
Cycles == {"anc-cycle", "ambient-cycle", "voice-toggle", "dsee-toggle", "voice-toggle-guide"}
Sets == [mode : Modes] \cup [mode : {"ambient"}, level : 0 .. 20]
AllJobs ==
    [command : Cycles \cup {"status", "menu", "reconnect"}, patch : {{}}]
        \cup [command : {"set"}, patch : {{p} : p \in Sets}]

NoJob == [command |-> "none", patch |-> {}]

ASSUME WaybarAssumption ==
    /\ Jobs \subseteq AllJobs
    /\ AtFirst \in Headset
    /\ Parts \subseteq AllParts
    /\ {Throttle, MaxTime, MaxLate} \subseteq Nat

VARIABLES
    clock,      \* seconds
    stamp,      \* the time in last-connect; empty without file or content
    lock,       \* the instance that holds connect.lock, as a set
    flag,       \* there is a file low-battery
    headset,    \* the settings it holds
    low,        \* its battery is low and not charging
    session,    \* the daemon has a session
    late,       \* commands given up that the headset may still act on
    pc,         \* where each instance is, or how it ended
    job,        \* what it was run for
    now,        \* the time it has read
    status,     \* the status it has read, as a set
    lastPost,   \* history: when the last to connect had looked, as a set
    missed,     \* history: who has not seen the stamp of a later connect
    before,     \* history: the settings a click found, as a set, empty
                \* once anything else has happened
    notices,    \* history: notifications in this discharge, 0 to 2
    crowded     \* history: two have looked at the flag at once, or one
                \* when the discharge began

files == <<stamp, lock, flag>>
own == <<job, now, status>>
throttling == <<lastPost, missed>>
noticing == <<notices, crowded>>
vars == <<clock, files, headset, low, session, late, pc, own, throttling, before, noticing>>

Init ==
    /\ clock = 0
    /\ stamp = {} /\ lock = {} /\ flag = FALSE
    /\ headset = AtFirst
    /\ low = FALSE
    /\ session = FALSE
    /\ late = <<>>
    /\ pc = [i \in Instances |-> "ok"]
    /\ job = [i \in Instances |-> NoJob]
    /\ now = [i \in Instances |-> 0]
    /\ status = [i \in Instances |-> {}]
    /\ lastPost = {} /\ missed = {}
    /\ before = [i \in Instances |-> {}]
    /\ notices = 0 /\ crowded = FALSE

----------------------------------------------------------------------------
(* Steps of an instance *)

Goes(i, to) == pc' = [pc EXCEPT ![i] = to]

Ended(i) == pc[i] \in {"ok", "failed", "throttled"}

Ends(i, how) ==
    /\ Goes(i, how)
    /\ job' = [job EXCEPT ![i] = NoJob]
    /\ now' = [now EXCEPT ![i] = 0]
    /\ status' = [status EXCEPT ![i] = {}]

(* A step of i disturbs all others; it may be the last of i. *)
Disturbs(i) ==
    before' = [j \in Instances |->
                  IF j = i /\ pc'[i] \notin {"ok", "failed", "throttled"} THEN before[j] ELSE {}]

(* A bug: a click writes without having asked. *)
FirstBlind(command) ==
    CASE command = "reconnect" -> "dropping"
      [] command = "status" -> "asking"
      [] OTHER -> "posting"

(* Where each command begins: with the status, a write, or a drop. *)
First(command) ==
    CASE command = "set" -> "posting"
      [] command = "reconnect" -> "dropping"
      [] OTHER -> "asking"

Run(i, j) ==
    /\ Goes(i, First(j.command))
    /\ job' = [job EXCEPT ![i] = j]
    /\ now' = [now EXCEPT ![i] = 0]
    /\ status' = [status EXCEPT ![i] = {}]
    /\ before' = [k \in Instances |->
                    IF /\ k = i /\ j.command # "status"
                       /\ late = <<>> /\ \A o \in Instances \ {i} : Ended(o)
                    THEN {headset} ELSE {}]

Start(i, j) ==
    /\ Ended(i)
    /\ Run(i, j)
    /\ UNCHANGED <<clock, files, headset, low, session, late, throttling, noticing>>

(* The menu was shown, and something picked from it. *)
Picks(i, j) ==
    /\ pc[i] = "picking"
    /\ j.command \notin {"status", "menu"}
    /\ Run(i, j)
    /\ UNCHANGED <<clock, files, headset, low, session, late, throttling, noticing>>

(* The menu was dismissed. *)
Dismisses(i) ==
    /\ pc[i] = "picking"
    /\ Ends(i, "ok")
    /\ Disturbs(i)
    /\ UNCHANGED <<clock, files, headset, low, session, late, throttling, noticing>>

Reading(lacks) ==
    [low |-> IF "battery" \in lacks THEN {} ELSE {low},
     noise |-> IF "noise" \in lacks THEN {}
               ELSE {[mode |-> headset.mode, level |-> headset.level, voice |-> headset.voice]},
     dsee |-> IF "dsee" \in lacks THEN {} ELSE {headset.dsee},
     guidance |-> IF "guidance" \in lacks THEN {} ELSE {headset.guidance}]

(* GET /api/status, which lacks what the headset did not report. *)
Answered(i, lacks) ==
    /\ pc[i] \in {"asking", "asking again"}
    /\ session
    /\ status' = [status EXCEPT ![i] = {Reading(lacks)}]
    /\ now' = [now EXCEPT ![i] = 0]
    /\ Goes(i, CASE job[i].command = "status" -> "checking"
                 [] job[i].command = "menu" -> "picking"
                 [] OTHER -> "posting")
    /\ before' = [k \in Instances |-> IF k = i /\ lacks = {} THEN before[k] ELSE {}]
    /\ crowded' = (crowded \/ (job[i].command = "status"
                      /\ \E k \in Instances \ {i} : pc[k] \in {"checking", "touching", "notifying"}))
    /\ UNCHANGED <<clock, files, headset, low, session, late, job, throttling, notices>>

(* There is no answer: a session is opened if headphones are connected,    *)
(* but not twice.                                                          *)
Unanswered(i) ==
    /\ \/ pc[i] = "asking" /\ Goes(i, "looking") /\ UNCHANGED own
       \/ pc[i] \in {"asking", "asking again"} /\ Ends(i, "failed")
    /\ Disturbs(i)
    /\ UNCHANGED <<clock, files, headset, low, session, late, throttling, noticing>>

----------------------------------------------------------------------------
(* connect_session *)

ReadsClock(i) ==
    /\ pc[i] = "looking"
    /\ now' = [now EXCEPT ![i] = clock]
    /\ Goes(i, "comparing")
    /\ Disturbs(i)
    /\ UNCHANGED <<clock, files, headset, low, session, late, job, status, throttling,
                   noticing>>

(* A bug: the stamp is looked at too late to matter. *)
NeverTooSoon(i) == FALSE

TooSoon(i) == \E t \in stamp : now[i] - t < Throttle

(* Without a file, or with one that is being written, there is nothing to  *)
(* wait for.                                                               *)
ReadsStamp(i) ==
    /\ pc[i] = "comparing"
    /\ IF TooSoon(i) THEN Ends(i, "throttled") ELSE Goes(i, "locking") /\ UNCHANGED own
    /\ missed' = IF ~TooSoon(i) /\ \E k \in lock : pc[k] = "stamping"
                 THEN missed \cup {i} ELSE missed
    /\ Disturbs(i)
    /\ UNCHANGED <<clock, files, headset, low, session, late, lastPost, noticing>>

(* flock -n *)
Locks(i) ==
    /\ pc[i] = "locking"
    /\ lock = {}
    /\ lock' = {i}
    /\ Goes(i, "truncating")
    /\ Disturbs(i)
    /\ UNCHANGED <<clock, stamp, flag, headset, low, session, late, own, throttling, noticing>>

LockedOut(i) ==
    /\ pc[i] = "locking"
    /\ lock # {}
    /\ Ends(i, "throttled")
    /\ missed' = missed \ {i}
    /\ Disturbs(i)
    /\ UNCHANGED <<clock, files, headset, low, session, late, lastPost, noticing>>

(* The shell empties the file before echo writes it. *)
Truncates(i) ==
    /\ pc[i] = "truncating"
    /\ stamp' = {}
    /\ Goes(i, "stamping")
    /\ Disturbs(i)
    /\ UNCHANGED <<clock, lock, flag, headset, low, session, late, own, throttling, noticing>>

Posts(i) ==
    /\ pc[i] = "stamping"
    /\ stamp' = {now[i]}
    /\ Goes(i, "opening")
    /\ lastPost' = {now[i]}
    /\ missed' = (missed \cup {k \in Instances : pc[k] = "locking"}) \ {i}
    /\ now' = [now EXCEPT ![i] = 0]
    /\ Disturbs(i)
    /\ UNCHANGED <<clock, lock, flag, headset, low, session, late, job, status, noticing>>

(* The daemon answers with the session it has, or opens one. *)
Opens == session' = TRUE

Opened(i) ==
    /\ pc[i] = "opening"
    /\ Opens
    /\ lock' = {}
    /\ IF job[i].command = "reconnect" THEN Ends(i, "ok")
       ELSE Goes(i, "asking again") /\ UNCHANGED own
    /\ Disturbs(i)
    /\ UNCHANGED <<clock, stamp, flag, headset, low, late, throttling, noticing>>

(* The connect failed, or its answer came too late. *)
OpenFails(i) ==
    /\ pc[i] = "opening"
    /\ Opens \/ UNCHANGED session
    /\ lock' = {}
    /\ Ends(i, "failed")
    /\ Disturbs(i)
    /\ UNCHANGED <<clock, stamp, flag, headset, low, late, throttling, noticing>>

----------------------------------------------------------------------------
(* check_low_battery *)

(* The flag is taken away by a battery that is not low. *)
ClearsFlag(isLow) == flag' = (flag /\ isLow)

LooksAtBattery(i) ==
    /\ pc[i] = "checking"
    /\ \E read \in status[i] :
          IF read.low = {} THEN Ends(i, "ok") /\ UNCHANGED flag
          ELSE \E isLow \in read.low :
                  /\ ClearsFlag(isLow)
                  /\ IF isLow /\ ~flag
                     THEN /\ Goes(i, "touching")
                          /\ status' = [status EXCEPT ![i] = {}]
                          /\ UNCHANGED <<job, now>>
                     ELSE Ends(i, "ok")
    /\ Disturbs(i)
    /\ UNCHANGED <<clock, stamp, lock, headset, low, session, late, throttling, noticing>>

(* A bug: the notification leaves no trace. *)
TouchesNothing(i) ==
    /\ pc[i] = "touching"
    /\ Goes(i, "notifying")
    /\ Disturbs(i)
    /\ UNCHANGED <<clock, files, headset, low, session, late, own, throttling, noticing>>

Touches(i) ==
    /\ pc[i] = "touching"
    /\ flag' = TRUE
    /\ Goes(i, "notifying")
    /\ Disturbs(i)
    /\ UNCHANGED <<clock, stamp, lock, headset, low, session, late, own, throttling, noticing>>

Notifies(i) ==
    /\ pc[i] = "notifying"
    /\ notices' = IF notices < 2 THEN notices + 1 ELSE notices
    /\ Ends(i, "ok")
    /\ Disturbs(i)
    /\ UNCHANGED <<clock, files, headset, low, session, late, throttling, crowded>>

----------------------------------------------------------------------------
(* Clicks *)

OrElse(part, otherwise) == IF part = {} THEN otherwise ELSE CHOOSE x \in part : TRUE

(* What a click writes, given what it read; what it did not read counts as *)
(* no mode, level 0 and false.                                             *)
ToPost(i) ==
    LET read == OrElse(status[i], [noise |-> {}, dsee |-> {}, guidance |-> {}])
        noise == OrElse(read.noise, [mode |-> "none", level |-> 0, voice |-> FALSE])
        stops == {l \in {5, 10, 15, 20} : l > noise.level}
    IN  CASE job[i].command = "set" -> OrElse(job[i].patch, {})
          [] job[i].command = "anc-cycle" ->
                [mode |-> CASE noise.mode = "noise_cancelling" -> "ambient"
                            [] noise.mode = "ambient" -> "off"
                            [] OTHER -> "noise_cancelling"]
          [] job[i].command = "ambient-cycle" ->
                [mode |-> "ambient",
                 level |-> IF stops = {} THEN 1 ELSE CHOOSE l \in stops : \A k \in stops : l <= k]
          [] job[i].command = "voice-toggle" -> [mode |-> "ambient", voice |-> ~noise.voice]
          [] job[i].command = "dsee-toggle" -> [dsee |-> ~OrElse(read.dsee, FALSE)]
          [] job[i].command = "voice-toggle-guide" ->
                [guidance |-> ~OrElse(read.guidance, FALSE)]

Accepted(i) ==
    /\ pc[i] = "posting"
    /\ session
    /\ headset' = Patched(headset, ToPost(i))
    /\ Ends(i, "ok")
    /\ Disturbs(i)
    /\ UNCHANGED <<clock, files, low, session, late, throttling, noticing>>

(* The write fails, or is given up and may take effect at a later time. *)
Rejected(i) ==
    /\ pc[i] = "posting"
    /\ \/ UNCHANGED late
       \/ session /\ Len(late) < MaxLate /\ late' = Append(late, ToPost(i))
    /\ Ends(i, "failed")
    /\ Disturbs(i)
    /\ UNCHANGED <<clock, files, headset, low, session, throttling, noticing>>

(* Whatever comes of the DELETE, the reconnect goes on. *)
Drops(i) ==
    /\ pc[i] = "dropping"
    /\ Goes(i, "clearing")
    /\ \/ session' = FALSE /\ Disturbs(i)
       \/ UNCHANGED session /\ before' = [k \in Instances |-> {}]
    /\ UNCHANGED <<clock, files, headset, low, late, own, throttling, noticing>>

(* A bug: a reconnect waits as the others do. *)
ClearsNothing(i) ==
    /\ pc[i] = "clearing"
    /\ Goes(i, "looking") /\ UNCHANGED own
    /\ Disturbs(i)
    /\ UNCHANGED <<clock, files, headset, low, session, late, throttling, noticing>>

(* A reconnect does not wait; without headphones it ends. *)
Clears(i) ==
    /\ pc[i] = "clearing"
    /\ stamp' = {}
    /\ lastPost' = {}
    /\ \/ Goes(i, "looking") /\ UNCHANGED own
       \/ Ends(i, "failed")
    /\ Disturbs(i)
    /\ UNCHANGED <<clock, lock, flag, headset, low, session, late, missed, noticing>>

----------------------------------------------------------------------------
(* Time, the headset and the daemon *)

Tick ==
    /\ clock < MaxTime
    /\ clock' = clock + 1
    /\ UNCHANGED <<files, headset, low, session, late, pc, own, throttling, before, noticing>>

Battery ==
    /\ low' = ~low
    /\ IF low' THEN /\ notices' = 0
                    /\ crowded' = \E i \in Instances : pc[i] \in {"checking", "touching", "notifying"}
       ELSE UNCHANGED noticing
    /\ UNCHANGED <<clock, files, headset, session, late, pc, own, throttling, before>>

Undisturbed == before' = [i \in Instances |-> {}]

TakesLate ==
    /\ late # <<>>
    /\ headset' = Patched(headset, Head(late))
    /\ late' = Tail(late)
    /\ Undisturbed
    /\ UNCHANGED <<clock, files, low, session, pc, own, throttling, noticing>>

(* Somebody else closes the session, or its link dies. *)
SessionEnds ==
    /\ session
    /\ session' = FALSE
    /\ Undisturbed
    /\ UNCHANGED <<clock, files, headset, low, late, pc, own, throttling, noticing>>

Next ==
    \/ \E i \in Instances :
          \/ \E j \in Jobs : Start(i, j) \/ Picks(i, j)
          \/ Dismisses(i)
          \/ \E lacks \in SUBSET Parts : Answered(i, lacks)
          \/ Unanswered(i)
          \/ ReadsClock(i) \/ ReadsStamp(i)
          \/ Locks(i) \/ LockedOut(i)
          \/ Truncates(i) \/ Posts(i)
          \/ Opened(i) \/ OpenFails(i)
          \/ LooksAtBattery(i) \/ Touches(i) \/ Notifies(i)
          \/ Accepted(i) \/ Rejected(i)
          \/ Drops(i) \/ Clears(i)
    \/ Tick \/ Battery \/ TakesLate \/ SessionEnds

Spec == Init /\ [][Next]_vars

----------------------------------------------------------------------------
(* Properties *)

(* What an instance may know of the headset, and write to it. *)
Optional(S) == {{}} \cup {{x} : x \in S}
Readings ==
    [low : Optional(BOOLEAN),
     noise : Optional([mode : Modes, level : 0 .. 20, voice : BOOLEAN]),
     dsee : Optional(BOOLEAN), guidance : Optional(BOOLEAN)]
Writes ==
    Sets \cup [mode : {"ambient"}, voice : BOOLEAN] \cup [dsee : BOOLEAN] \cup [guidance : BOOLEAN]

Places ==
    {"ok", "failed", "throttled", "asking", "asking again", "looking", "comparing", "locking",
     "truncating", "stamping", "opening", "checking", "touching", "notifying", "picking",
     "posting", "dropping", "clearing"}

(* Every variable keeps its type, and a click that moves a setting on has  *)
(* read what it is.                                                        *)
TypeOK ==
    /\ clock \in 0 .. MaxTime
    /\ stamp \subseteq 0 .. MaxTime
    /\ lock \subseteq Instances /\ missed \subseteq Instances
    /\ {flag, low, crowded} \subseteq BOOLEAN
    /\ headset \in Headset
    /\ session \in BOOLEAN
    /\ late \in Seq(Writes) /\ Len(late) <= MaxLate
    /\ pc \in [Instances -> Places]
    /\ job \in [Instances -> Jobs \cup {NoJob}]
    /\ now \in [Instances -> 0 .. MaxTime]
    /\ status \in [Instances -> SUBSET Readings]
    /\ \A i \in Instances :
          pc[i] = "checking" \/ (pc[i] = "posting" /\ job[i].command \in Cycles)
              => status[i] # {}
    /\ before \in [Instances -> SUBSET Headset]
    /\ lastPost \subseteq 0 .. MaxTime
    /\ notices \in 0 .. 2

(* connect_session is "Throttled and serialized": two connects are never   *)
(* under way at once, and one that has seen the stamp of the last one      *)
(* follows the moment that one looked at the clock by the throttle, unless *)
(* a reconnect was asked for.  An instance that read the stamp before the  *)
(* last one wrote it, or while it was empty, is in missed: it may connect  *)
(* right behind that one.                                                  *)
ThrottledAndSerialized ==
    [][\A i \in Instances :
          pc[i] # "opening" /\ pc'[i] = "opening" =>
              /\ \A k \in Instances : pc[k] # "opening"
              /\ i \in missed \/ \A t \in lastPost : now[i] - t >= Throttle]_vars

(* "One notification per discharge", unless two instances looked at the    *)
(* flag at the same time, or one was looking when the discharge began.     *)
OneNoticePerDischarge == notices = 2 => crowded

(* What the usage says a click does, from what was to what is. *)
Turned(command, was, is) ==
    CASE command = "anc-cycle" ->
            <<was.mode, is.mode>> \in
                {<<"noise_cancelling", "ambient">>, <<"ambient", "off">>, <<"off", "noise_cancelling">>}
      [] command = "ambient-cycle" ->
            is.mode = "ambient" /\ is.level \in {1, 5, 10, 15, 20} \ {was.level}
      [] command = "voice-toggle" -> is.voice # was.voice
      [] command = "dsee-toggle" -> is.dsee # was.dsee
      [] command = "voice-toggle-guide" -> is.guidance # was.guidance
      [] OTHER -> TRUE

(* A click that ends ok does what it says when nothing else happens and    *)
(* the status is whole: it moves the setting on, and a reconnect is never  *)
(* held up by the throttle, though it comes right behind another connect.  *)
AloneClickTakesEffect ==
    [][\A i \in Instances :
          \A was \in before[i] :
              /\ pc'[i] = "ok" => Turned(job[i].command, was, headset')
              /\ pc'[i] = "throttled" => job[i].command # "reconnect"]_vars
=============================================================================
