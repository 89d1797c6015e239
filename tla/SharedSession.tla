--------------------------- MODULE SharedSession ----------------------------
(***************************************************************************)
(* What the server promises the clients that share its one session: they   *)
(* take turns.  A client has the session to itself for as long as it talks *)
(* to the headset; only then, or when nobody does, is the session opened   *)
(* or dropped; what a client is told of it is so at that moment; and none  *)
(* is refused for want of a session while there is one.  The mutex, its    *)
(* queue, the steps of a handler and a link that fails are in module       *)
(* Manager, which implements this.                                         *)
(***************************************************************************)
CONSTANTS
    Clients,   \* those that share the session
    Devices    \* the headsets it may be with

VARIABLES
    device,    \* the headset of the session: a set, empty if there is none
    user,      \* who is talking to it: a set of at most one
    told,      \* the headset each client was told of last, as a set
    refused    \* those whose last request found no session

vars == <<device, user, told, refused>>

Init ==
    /\ device = {}
    /\ user = {}
    /\ told = [c \in Clients |-> {}]
    /\ refused = {}

(* A session is opened where there is none. *)
Open(c, d) ==
    /\ user = {} /\ device = {}
    /\ device' = {d}
    /\ told' = [told EXCEPT ![c] = {d}]
    /\ refused' = refused \ {c}
    /\ UNCHANGED user

(* A client is told which session there is, or that there is none. *)
Look(c) ==
    /\ user = {}
    /\ told' = [told EXCEPT ![c] = device]
    /\ refused' = IF device = {} THEN refused \cup {c} ELSE refused \ {c}
    /\ UNCHANGED <<device, user>>

(* A request wants a session, and there is none. *)
Miss(c) ==
    /\ user = {} /\ device = {}
    /\ refused' = refused \cup {c}
    /\ UNCHANGED <<device, user, told>>

Take(c) ==
    /\ user = {} /\ device # {}
    /\ user' = {c}
    /\ UNCHANGED <<device, told, refused>>

(* The session is given back, unless its link has failed. *)
GiveBack(c) ==
    /\ user = {c}
    /\ user' = {}
    /\ device' \in {device, {}}
    /\ refused' = refused \ {c}
    /\ UNCHANGED told

Close(c) ==
    /\ user = {}
    /\ device' = {}
    /\ refused' = refused \ {c}
    /\ UNCHANGED <<user, told>>

(* A request begins, or its client hangs up, with the session in hand or   *)
(* not; what it was told is forgotten.                                     *)
StartOver(c) ==
    /\ user' = user \ {c}
    /\ told' = [told EXCEPT ![c] = {}]
    /\ refused' = refused \ {c}
    /\ UNCHANGED device

(* A request ends or goes on in some way that is no matter of the session. *)
Proceed(c) ==
    /\ c \notin user
    /\ refused' = refused \ {c}
    /\ UNCHANGED <<device, user, told>>

Next ==
    \E c \in Clients :
        \/ \E d \in Devices : Open(c, d)
        \/ Look(c) \/ Miss(c) \/ Take(c) \/ GiveBack(c) \/ Close(c)
        \/ StartOver(c) \/ Proceed(c)

Spec == Init /\ [][Next]_vars
=============================================================================
