------------------------------ MODULE Manager ------------------------------
(***************************************************************************)
(* SonyManager (service.rs): the one session of the server, behind a tokio *)
(* mutex, and the handlers of concurrent HTTP clients that use it.         *)
(*                                                                         *)
(* A handler is a sequence of steps, each of which takes the mutex and     *)
(* releases it: exchanges with the headset, a look at the session, connect *)
(* or disconnect.  Between two steps of one handler other handlers run.    *)
(* What an exchange says on the wire is module Connection's; here it ends  *)
(* in one of the results exchange_on returns, and may find the link dead.  *)
(* A handler is dropped at whatever await it has reached when its client   *)
(* hangs up.                                                               *)
(***************************************************************************)
EXTENDS Integers, Sequences, FiniteSets

CONSTANTS
    Clients,         \* HTTP clients with a request in progress at a time
    Devices,         \* headsets that can be connected
    Requests,        \* the requests clients make, a subset of AllRequests
    StatusReadings   \* readings of a status: 6 in service.rs:305-310

Kinds == {"get", "set", "patch", "status", "device_info",
          "session", "connect", "disconnect"}
Addresses == {{}} \cup {{d} : d \in Devices}    \* of a connect: given or not

(* The CLI's subcommands that take the session as it is, and those that    *)
(* connect if there is none.                                               *)
Direct == {"connect", "auto-connect", "disconnect", "session"}
Connected == {"status", "battery", "anc get", "anc set", "ambient get", "ambient set",
              "dsee get", "dsee set", "voice-guidance get", "voice-guidance set",
              "device-info", "volume get", "volume set", "eq get", "eq set", "eq bands"}

AllRequests ==
    [by : {"http"}, kind : Kinds, address : Addresses]
        \cup [by : {"cli"}, kind : Direct \cup Connected, address : Addresses]

ASSUME RequestsAssumption == Requests \subseteq AllRequests
ASSUME StatusAssumption == StatusReadings \in Nat

VARIABLES
    lock,      \* the mutex: its holder, then those waiting, first come first
    session,   \* the session under it: none, or one, as a set
    linkUp,    \* the RFCOMM link of that session is alive
    pc,        \* where each client's handler is
    plan,      \* the steps each handler has still to take
    address,   \* the address each client gave
    target,    \* the device each handler is connecting to, as a set
    answer,    \* how each client's last request ended
    told       \* the device of the session it was told of, as a set

handlers == <<pc, plan, address, target, answer, told>>
vars == <<lock, session, linkUp, handlers>>

----------------------------------------------------------------------------
(* Handlers *)

Steps == {"read", "write", "optional", "ignored", "session", "ensure",
          "connect", "disconnect"}
Exchanges == {"read", "write", "optional", "ignored"}

(* What the headset or the link makes of an exchange that leaves the       *)
(* session in place.  "invalid" stands for InvalidFrame and Unsupported.   *)
Results == {"ok", "timeout", "invalid", "checksum"}
Answers == Results \cup {"none", "io", "no_session", "detection", "cancelled"}
Outside == {"idle", "ready", "waiting"}      \* pcs without the mutex
Connecting == {"resolving", "opening", "settling"}
Inside == Connecting \cup {"exchanging", "failing"}

(* The steps of each handler.  patch is POST /api/noise-control, and       *)
(* set_anc_mode and set_eq_bands of the manager.                           *)
Plan(kind) ==
    CASE kind = "get" -> <<"read">>
      [] kind = "set" -> <<"write">>
      [] kind = "patch" -> <<"read", "write">>
      [] kind = "status" -> <<"session">> \o [i \in 1 .. StatusReadings |-> "optional"]
      [] kind = "device_info" -> <<"read", "ignored">>
      [] kind = "session" -> <<"session">>
      [] kind = "connect" -> <<"connect">>
      [] kind = "disconnect" -> <<"disconnect">>

(* The request a subcommand makes. *)
Serves(subcommand) ==
    CASE subcommand \in {"connect", "auto-connect"} -> "connect"
      [] subcommand \in {"anc set", "ambient set", "eq bands"} -> "patch"
      [] subcommand \in {"dsee set", "voice-guidance set", "volume set", "eq set"} -> "set"
      [] subcommand \in {"session", "disconnect", "status"} -> subcommand
      [] subcommand = "device-info" -> "device_info"
      [] OTHER -> "get"

(* connected() makes up to three requests of its own. *)
CliPlan(subcommand) ==
    IF subcommand \in Connected THEN <<"ensure">> \o Plan(Serves(subcommand))
    ELSE Plan(Serves(subcommand))

PlanOf(r) == IF r.by = "cli" THEN CliPlan(r.kind) ELSE Plan(r.kind)

(* Does the handler go on after this step ended with this result?          *)
(* optional() forgives what leaves a reading absent, device_info anything  *)
(* that befalls the model name.                                            *)
Forgiven(step, result) ==
    \/ result = "ok"
    \/ step = "optional" /\ result \in {"timeout", "invalid"}
    \/ step = "ignored"

(* A write met by silence is followed by a read of what the headset holds. *)
Confirms(step, result) == step = "write" /\ result = "timeout"

(* The handler goes on with these steps, or is done. *)
Continue(c, steps) ==
    /\ plan' = [plan EXCEPT ![c] = steps]
    /\ pc' = [pc EXCEPT ![c] = IF steps = <<>> THEN "idle" ELSE "ready"]
    /\ answer' = [answer EXCEPT ![c] = IF steps = <<>> THEN "ok" ELSE "none"]

Give(c, result) ==
    /\ plan' = [plan EXCEPT ![c] = <<>>]
    /\ pc' = [pc EXCEPT ![c] = "idle"]
    /\ answer' = [answer EXCEPT ![c] = result]

(* A bug: a write met by silence is written again until it is answered. *)
EndsRetrying(c, result) ==
    \/ Forgiven(Head(plan[c]), result) /\ Continue(c, Tail(plan[c]))
    \/ Confirms(Head(plan[c]), result) /\ Continue(c, plan[c])
    \/ /\ ~Forgiven(Head(plan[c]), result)
       /\ ~Confirms(Head(plan[c]), result)
       /\ Give(c, result)

(* A step ended: the handler goes on, confirms, or fails with the result. *)
Ends(c, result) ==
    \/ Forgiven(Head(plan[c]), result) /\ Continue(c, Tail(plan[c]))
    \/ /\ Confirms(Head(plan[c]), result)
       /\ Continue(c, <<"read">> \o Tail(plan[c]))
    \/ /\ ~Forgiven(Head(plan[c]), result)
       /\ ~Confirms(Head(plan[c]), result)
       /\ Give(c, result)

----------------------------------------------------------------------------
(* The mutex *)

Granted(c) == pc[c] = "waiting" /\ lock # <<>> /\ Head(lock) = c
Release == lock' = Tail(lock)

(* The client gives up the mutex, or its place among those waiting. *)
Without(queue, i) ==
    [j \in 1 .. Len(queue) - 1 |-> IF j < i THEN queue[j] ELSE queue[j + 1]]

LeaveQueue(c) ==
    IF \E i \in DOMAIN lock : lock[i] = c
    THEN \E i \in DOMAIN lock : lock[i] = c /\ lock' = Without(lock, i)
    ELSE UNCHANGED lock

(* The current session, if its link has not been seen to fail. *)
Live == {s \in session : ~s.broken}

Init ==
    /\ lock = <<>>
    /\ session = {}
    /\ linkUp = FALSE
    /\ pc = [c \in Clients |-> "idle"]
    /\ plan = [c \in Clients |-> <<>>]
    /\ address = [c \in Clients |-> {}]
    /\ target = [c \in Clients |-> {}]
    /\ answer = [c \in Clients |-> "none"]
    /\ told = [c \in Clients |-> {}]

Call(c, r) ==
    /\ pc[c] = "idle"
    /\ plan' = [plan EXCEPT ![c] = PlanOf(r)]
    /\ pc' = [pc EXCEPT ![c] = "ready"]
    /\ address' = [address EXCEPT ![c] = r.address]
    /\ answer' = [answer EXCEPT ![c] = "none"]
    /\ told' = [told EXCEPT ![c] = {}]
    /\ UNCHANGED <<lock, session, linkUp, target>>

Lock(c) ==
    /\ pc[c] = "ready"
    /\ lock' = Append(lock, c)
    /\ pc' = [pc EXCEPT ![c] = "waiting"]
    /\ UNCHANGED <<session, linkUp, plan, address, target, answer, told>>

(* A value out of range is refused before its exchange asks for the mutex. *)
Refused(c) ==
    /\ pc[c] = "ready"
    /\ Head(plan[c]) = "write"
    /\ Give(c, "invalid")
    /\ UNCHANGED <<lock, session, linkUp, address, target, told>>

(* The handler's future is dropped, and what it holds with it: the mutex,  *)
(* its place in the queue, a socket not yet installed.  There is no await  *)
(* between a failed exchange and the end of its session.                   *)
Cancel(c) ==
    /\ pc[c] \in (Outside \cup Inside) \ {"idle", "failing"}
    /\ LeaveQueue(c)
    /\ Give(c, "cancelled")
    /\ target' = [target EXCEPT ![c] = {}]
    /\ told' = [told EXCEPT ![c] = {}]
    /\ UNCHANGED <<session, linkUp, address>>

----------------------------------------------------------------------------
(* Steps that look at the session or drop it *)

(* session(), for GET /api/session and at the start of status. *)
LookAtSession(c) ==
    /\ Granted(c)
    /\ Head(plan[c]) = "session"
    /\ Release
    /\ \/ Live # {} /\ Ends(c, "ok")
       \/ Live = {} /\ Give(c, "no_session")
    /\ told' = [told EXCEPT ![c] = {s.device : s \in Live}]
    /\ UNCHANGED <<session, linkUp, address, target>>

(* The CLI asks for the session and connects if there is none. *)
EnsureSession(c) ==
    /\ Granted(c)
    /\ Head(plan[c]) = "ensure"
    /\ Release
    /\ Continue(c, IF Live # {} THEN Tail(plan[c]) ELSE <<"connect">> \o Tail(plan[c]))
    /\ UNCHANGED <<session, linkUp, address, target, told>>

(* A bug: the session is taken without waiting for the mutex. *)
DisconnectAtOnce(c) ==
    /\ pc[c] = "waiting"
    /\ Head(plan[c]) = "disconnect"
    /\ LeaveQueue(c)
    /\ session' = {}
    /\ linkUp' = FALSE
    /\ Ends(c, "ok")
    /\ UNCHANGED <<address, target, told>>

Disconnect(c) ==
    /\ Granted(c)
    /\ Head(plan[c]) = "disconnect"
    /\ Release
    /\ session' = {}
    /\ linkUp' = FALSE
    /\ Ends(c, "ok")
    /\ UNCHANGED <<address, target, told>>

----------------------------------------------------------------------------
(* connect: the mutex is held until the session is installed *)

(* Bugs: connect answers with the session and not its device, or opens a   *)
(* link without a look at the session it has.                              *)
ConnectReusesWhole(c) ==
    /\ Granted(c)
    /\ Head(plan[c]) = "connect"
    /\ Live # {}
    /\ Release
    /\ told' = [told EXCEPT ![c] = Live]
    /\ Ends(c, "ok")
    /\ UNCHANGED <<session, linkUp, address, target>>

ConnectStartsAnyway(c) ==
    /\ Granted(c)
    /\ Head(plan[c]) = "connect"
    /\ pc' = [pc EXCEPT ![c] = "resolving"]
    /\ UNCHANGED <<lock, session, linkUp, plan, address, target, answer, told>>

(* There is a session, for whatever address: it is the answer. *)
ConnectReuses(c) ==
    /\ Granted(c)
    /\ Head(plan[c]) = "connect"
    /\ Live # {}
    /\ Release
    /\ told' = [told EXCEPT ![c] = {s.device : s \in Live}]
    /\ Ends(c, "ok")
    /\ UNCHANGED <<session, linkUp, address, target>>

(* There is none, or a dead one, which is dropped. *)
ConnectStarts(c) ==
    /\ Granted(c)
    /\ Head(plan[c]) = "connect"
    /\ Live = {}
    /\ session' = {}
    /\ linkUp' = FALSE
    /\ pc' = [pc EXCEPT ![c] = "resolving"]
    /\ UNCHANGED <<lock, plan, address, target, answer, told>>

(* resolve_connected_device and detect_rfcomm_channel *)
Resolved(c, d) ==
    /\ pc[c] = "resolving"
    /\ address[c] \subseteq {d}
    /\ target' = [target EXCEPT ![c] = {d}]
    /\ pc' = [pc EXCEPT ![c] = "opening"]
    /\ UNCHANGED <<lock, session, linkUp, plan, address, answer, told>>

(* SonyConnection::open *)
Opened(c) ==
    /\ pc[c] = "opening"
    /\ pc' = [pc EXCEPT ![c] = "settling"]
    /\ UNCHANGED <<lock, session, linkUp, plan, address, target, answer, told>>

ConnectFails(c) ==
    /\ \/ pc[c] = "resolving" /\ Ends(c, "detection")
       \/ pc[c] = "opening" /\ Ends(c, "io")
    /\ Release
    /\ target' = [target EXCEPT ![c] = {}]
    /\ UNCHANGED <<session, linkUp, address, told>>

(* After the settle delay, in which the headset may have gone again. *)
Installed(c) ==
    /\ pc[c] = "settling"
    /\ Release
    /\ session' = {[device |-> d, broken |-> FALSE] : d \in target[c]}
    /\ linkUp' \in BOOLEAN
    /\ told' = [told EXCEPT ![c] = target[c]]
    /\ target' = [target EXCEPT ![c] = {}]
    /\ Ends(c, "ok")
    /\ UNCHANGED address

----------------------------------------------------------------------------
(* exchange_on *)

NoSession(c) ==
    /\ Granted(c)
    /\ Head(plan[c]) \in Exchanges
    /\ session = {}
    /\ Release
    /\ Ends(c, "no_session")
    /\ UNCHANGED <<session, linkUp, address, target, told>>

(* A bug: the session is taken out from under the mutex for the exchange. *)
ExchangeBeginsUnlocked(c) ==
    /\ Granted(c)
    /\ Head(plan[c]) \in Exchanges
    /\ session # {}
    /\ Release
    /\ pc' = [pc EXCEPT ![c] = "exchanging"]
    /\ UNCHANGED <<session, linkUp, plan, address, target, answer, told>>

ExchangeBegins(c) ==
    /\ Granted(c)
    /\ Head(plan[c]) \in Exchanges
    /\ session # {}
    /\ pc' = [pc EXCEPT ![c] = "exchanging"]
    /\ UNCHANGED <<lock, session, linkUp, plan, address, target, answer, told>>

(* The exchange returns, with an error or not, and the session stays. *)
ExchangeEnds(c, result) ==
    /\ pc[c] = "exchanging"
    /\ Release
    /\ Ends(c, result)
    /\ UNCHANGED <<session, linkUp, address, target, told>>

(* A read or a write finds the link dead and sets broken... *)
ExchangeBreaks(c) ==
    /\ pc[c] = "exchanging"
    /\ ~linkUp
    /\ session' = {[s EXCEPT !.broken = TRUE] : s \in session}
    /\ pc' = [pc EXCEPT ![c] = "failing"]
    /\ UNCHANGED <<lock, linkUp, plan, address, target, answer, told>>

(* A bug: the dead session is left where it is. *)
ExchangeFailsOnly(c) ==
    /\ pc[c] = "failing"
    /\ Release
    /\ Ends(c, "io")
    /\ UNCHANGED <<session, linkUp, address, target, told>>

(* ... which exchange_on sees before it releases the mutex. *)
ExchangeFails(c) ==
    /\ pc[c] = "failing"
    /\ session' = {}
    /\ Release
    /\ Ends(c, "io")
    /\ UNCHANGED <<linkUp, address, target, told>>

LinkDown ==
    /\ session # {}
    /\ linkUp
    /\ linkUp' = FALSE
    /\ UNCHANGED <<lock, session, handlers>>

----------------------------------------------------------------------------
(* The specification *)

Handler(c) ==
    \/ Lock(c)
    \/ Refused(c)
    \/ LookAtSession(c)
    \/ EnsureSession(c)
    \/ Disconnect(c)
    \/ ConnectReuses(c)
    \/ ConnectStarts(c)
    \/ \E d \in Devices : Resolved(c, d)
    \/ Opened(c)
    \/ ConnectFails(c)
    \/ Installed(c)
    \/ NoSession(c)
    \/ ExchangeBegins(c)
    \/ \E result \in Results : ExchangeEnds(c, result)
    \/ ExchangeBreaks(c)
    \/ ExchangeFails(c)

Next ==
    \/ \E c \in Clients : Handler(c) \/ Cancel(c)
    \/ \E c \in Clients, r \in Requests : Call(c, r)
    \/ LinkDown

Spec == Init /\ [][Next]_vars

(* The runtime polls every handler that can go on.  This takes for granted *)
(* that bluetoothctl, sdptool and the RFCOMM connect return, which no      *)
(* timeout in bluetooth.rs or connection.rs sees to, and that an exchange  *)
(* ends (ExchangeEnds of module Connection).  No client needs to hang up.  *)
FairSpec == Spec /\ \A c \in Clients : WF_vars(Handler(c))

----------------------------------------------------------------------------
(* Properties *)

(* Every variable keeps its type. *)
TypeOK ==
    /\ lock \in Seq(Clients)
    /\ session \subseteq [device : Devices, broken : BOOLEAN]
    /\ linkUp \in BOOLEAN
    /\ pc \in [Clients -> Outside \cup Inside]
    /\ plan \in [Clients -> Seq(Steps)]
    /\ address \in [Clients -> SUBSET Devices]
    /\ target \in [Clients -> SUBSET Devices]
    /\ answer \in [Clients -> Answers]
    /\ told \in [Clients -> SUBSET Devices]

(* The headset has one RFCOMM link to give: at no time does the server     *)
(* hold two, one being installed included, however many clients connect,   *)
(* disconnect and hang up at once.                                         *)
OneLink ==
    Cardinality(session) + Cardinality({c \in Clients : pc[c] = "settling"}) <= 1

(* A session known to be dead is never left for another handler to find:   *)
(* whoever sees its link fail still holds the mutex.  The dead-session     *)
(* cases of connect (service.rs:47-48) and session (:85) never arise.      *)
DeadSessionIsNeverFound ==
    \A s \in session : s.broken => lock # <<>> /\ pc[Head(lock)] = "failing"

(* The session of a running exchange is neither replaced nor dropped under *)
(* it by another client's connect or disconnect.                           *)
ExchangeKeepsItsSession ==
    [][\A c \in Clients :
          pc[c] = "exchanging" /\ pc'[c] = "exchanging" => session' = session]_vars

(* A session is replaced only after it was dropped: no step turns a        *)
(* session with one device into a session with another.                    *)
NoSilentSwitch ==
    [][session # {} /\ session' # {} =>
          {s.device : s \in session'} = {s.device : s \in session}]_vars

(* Every place in the mutex's queue is that of a handler that wants it: a  *)
(* client that hangs up, an error and an early return all give it back.    *)
LockIsGivenBack ==
    /\ \A i \in DOMAIN lock : pc[lock[i]] \notin {"idle", "ready"}
    /\ \A c \in Clients : pc[c] \in Inside => lock # <<>> /\ Head(lock) = c

(* The inductive invariant behind the properties above: a client is queued *)
(* once at most, the holder alone is past the mutex, and what it holds     *)
(* fits the session.                                                       *)
QueuedOnce ==
    /\ \A i, j \in DOMAIN lock : lock[i] = lock[j] => i = j
    /\ \A c \in Clients :
          pc[c] \notin {"idle", "ready"} => \E i \in DOMAIN lock : lock[i] = c

HasSteps == \A c \in Clients : pc[c] # "idle" => plan[c] # <<>>

AtMostOne(set) == \A x, y \in set : x = y

HolderFitsSession ==
    /\ AtMostOne(session)
    /\ \A c \in Clients :
          /\ AtMostOne(target[c])
          /\ pc[c] \in Connecting => session = {}
          /\ pc[c] = "exchanging" => session # {} /\ Live = session

IInv ==
    /\ TypeOK
    /\ QueuedOnce
    /\ LockIsGivenBack
    /\ HasSteps
    /\ HolderFitsSession
    /\ DeadSessionIsNeverFound

(* What the clients share, as SharedSession has it: all of a connect       *)
(* happens when its session is installed, and an exchange that has failed  *)
(* is not over before its session is dropped.                              *)
DevicesOf == {s.device : s \in session}
Talking == {c \in Clients : pc[c] \in {"exchanging", "failing"}}
FoundNone == {c \in Clients : answer[c] = "no_session"}

Shared == INSTANCE SharedSession WITH
    device <- DevicesOf, user <- Talking, refused <- FoundNone

(* However handlers interleave, break off and fail, what clients see is    *)
(* one session that they take in turn: none is told of a session that was  *)
(* not there, or refused for want of one that was, and none opens or drops *)
(* one while another talks to the headset.                                 *)
TakesTurns == Shared!Spec

(* Every request is answered, whoever else is being served. *)
RequestsEnd == \A c \in Clients : pc[c] # "idle" ~> pc[c] = "idle"

(* A dead session is replaced by connect, as service.rs:47 says, so that   *)
(* no connect is answered with a session whose link is already down.       *)
ConnectReplacesDead ==
    [][\A c \in Clients :
          Granted(c) /\ Head(plan[c]) = "connect" /\ answer'[c] = "ok" => linkUp]_vars
=============================================================================
