------------------------------ MODULE Exchange ------------------------------
(***************************************************************************)
(* What one session of sonyctl promises its caller, whatever the link does *)
(* underneath: a request is answered at most once, by a value the headset  *)
(* really held at some moment since the request was made, as long as no    *)
(* earlier request of the session was abandoned before the headset         *)
(* acknowledged it.  The frames, the acknowledgements and the deadlines    *)
(* that keep the promise are in module Connection, which implements this.  *)
(***************************************************************************)
CONSTANTS
    Features,   \* the settings and measurements the headset can be asked for
    Values      \* the values they take

VARIABLES
    phase,      \* "closed", "idle" or "busy"
    accepts,    \* the features whose replies answer the current request
    setting,    \* what the headset holds
    seen,       \* readings of the accepted features held since the request
    reply,      \* the reading returned last: a set of at most one
    outcome,    \* how the last request ended
    late        \* a request of this session was abandoned unacknowledged

vars == <<phase, accepts, setting, seen, reply, outcome, late>>

Readings == Features \X Values
Outcomes == {"none", "ok", "timeout", "bad_frame", "io", "cancelled"}

(* The readings of the features in F under the settings s. *)
Held(F, s) == {<<f, s[f]>> : f \in F}

Init ==
    /\ phase = "closed"
    /\ accepts = {}
    /\ setting \in [Features -> Values]
    /\ seen = {}
    /\ reply = {}
    /\ outcome = "none"
    /\ late = FALSE

Open ==
    /\ phase = "closed"
    /\ phase' = "idle"
    /\ UNCHANGED <<accepts, setting, seen, reply, outcome, late>>

(* The caller asks for one feature, to read it or to write it. *)
Request(f) ==
    /\ phase = "idle"
    /\ phase' = "busy"
    /\ accepts' = {f}
    /\ seen' = Held({f}, setting)
    /\ reply' = {}
    /\ outcome' = "none"
    /\ UNCHANGED <<setting, late>>

(* The headset changes what it holds: a button, a request, time passing. *)
Change ==
    /\ setting' \in [Features -> Values]
    /\ seen' = seen \cup Held(accepts, setting')
    /\ UNCHANGED <<phase, accepts, reply, outcome, late>>

(* The request is answered; the answer is live unless the session is late. *)
Answer ==
    /\ phase = "busy"
    /\ \E r \in Readings :
          /\ r[1] \in accepts
          /\ late \/ r \in seen
          /\ reply' = {r}
    /\ phase' = "idle"
    /\ accepts' = {}
    /\ seen' = {}
    /\ outcome' = "ok"
    /\ UNCHANGED <<setting, late>>

(* The request fails and the session lives on, possibly late from now on. *)
Fail ==
    /\ phase = "busy"
    /\ phase' = "idle"
    /\ accepts' = {}
    /\ seen' = {}
    /\ outcome' \in {"timeout", "bad_frame", "cancelled"}
    /\ late' \in {late, TRUE}
    /\ UNCHANGED <<setting, reply>>

(* The session ends: it was closed, or the link failed under a request. *)
Drop ==
    /\ phase \in {"idle", "busy"}
    /\ phase' = "closed"
    /\ accepts' = {}
    /\ seen' = {}
    /\ outcome' \in {"none", "io"}
    /\ reply' = {}
    /\ late' = FALSE
    /\ UNCHANGED setting

Next ==
    \/ Open
    \/ \E f \in Features : Request(f)
    \/ Change
    \/ Answer
    \/ Fail
    \/ Drop

Spec == Init /\ [][Next]_vars
=============================================================================
