----------------------------- MODULE Connection -----------------------------
(***************************************************************************)
(* One session over the RFCOMM link: SonyConnection (connection.rs) and    *)
(* the exchange that SonyManager runs on it under its lock (exchange_on in *)
(* service.rs), with the headset at the far end of the socket.             *)
(*                                                                         *)
(* An exchange writes one command with the connection's sequence number,   *)
(* waits for an ACK (send), then reads data frames until one carries an    *)
(* opcode the command accepts (recv, in a loop).  Every data frame read is *)
(* acknowledged.  A frame is abstracted to what decides the control: an    *)
(* ACK, a data frame with the reading it carries, or a frame the decoder   *)
(* refuses.  inbox is the receive buffer followed by the bytes the socket  *)
(* holds; outbox is the commands on their way to the headset.              *)
(***************************************************************************)
EXTENDS Integers, Sequences, FiniteSets

CONSTANTS
    Features,     \* what the headset can be asked for: battery, noise control..
    SecondTable,  \* the features answered on the second command table only
    Values,       \* the values a feature takes
    Damage,       \* what the link can turn a frame into, a subset of Damages
    MaxInFlight   \* bound: frames and commands in flight when one more starts

(* A refused frame is dropped from the buffer ("bad": wrong length, type   *)
(* or checksum) or left in front of it ("stuck": unescape fails before     *)
(* drain, protocol.rs:116-117).                                            *)
Damages == {"bad", "stuck"}

ASSUME TablesAssumption == SecondTable \subseteq Features
ASSUME DamageAssumption == Damage \subseteq Damages
ASSUME BoundAssumption == MaxInFlight \in Nat

VARIABLES
    \* the connection and the exchange running on it
    phase,        \* "closed", "idle", "sending" or "receiving"
    tx_seq,       \* sequence number of the next command
    data_type,    \* frame type of outbound commands: the command table
    accepts,      \* features whose opcodes the running exchange accepts
    expired,      \* the deadline of the current read has passed
    reply,        \* the reading the last exchange returned, as a set
    outcome,      \* how the last exchange ended
    \* the link
    linkUp,       \* the kernel still holds the RFCOMM link
    inbox,        \* frames from the headset, in order
    outbox,       \* commands to the headset, in order
    \* the headset
    setting,      \* what it holds
    todo,         \* commands it has acknowledged and not yet acted on
    \* history, read by the properties only
    clean,        \* no ACK was in flight when the running exchange began
    late,         \* an exchange of this session was abandoned unacknowledged
    seen,         \* readings of accepts held since the exchange began
    unacked,      \* intact data frames the headset sent and saw no ACK for
    lastSeq       \* sequence number of the last command written

session == <<phase, tx_seq, data_type, accepts, expired, reply, outcome>>
history == <<clean, late, seen, lastSeq>>
vars == <<session, linkUp, inbox, outbox, setting, todo, history, unacked>>

----------------------------------------------------------------------------
(* Frames and commands *)

Readings == Features \X Values
Tables == {"DataMdr", "DataMdrNo2"}
Outcomes == {"none", "ok", "timeout", "bad_frame", "io", "cancelled"}

Table(f) == IF f \in SecondTable THEN "DataMdrNo2" ELSE "DataMdr"

(* A command asks for a feature (writes nothing) or writes one value. *)
Writes == {{}} \cup {{v} : v \in Values}
Commands == [feat : Features, write : Writes, table : Tables]

Ack == [type |-> "ack"]
Data(r) == [type |-> "data", reading |-> r]
Bad(d) == [type |-> d]
Frames == {Ack} \cup {Data(r) : r \in Readings} \cup {Bad(d) : d \in Damages}

IsAck(frame) == frame.type = "ack"
IsData(frame) == frame.type = "data"
IsBad(frame) == frame.type \in Damages

(* The readings of the features in F under the settings s. *)
Held(F, s) == {<<f, s[f]>> : f \in F}

Busy == phase \in {"sending", "receiving"}
InFlight == Len(inbox) + Len(outbox) + Len(todo)
NoAckIn(frames) == \A i \in DOMAIN frames : ~IsAck(frames[i])
NoAckInFlight == outbox = <<>> /\ NoAckIn(inbox)

----------------------------------------------------------------------------
(* The session: connect opens it, disconnect or a dead link drops it *)

(* What SonyConnection::new and a new socket hold.  A dropped session is   *)
(* given these values at once, so that Open finds them.                    *)
NewConnection ==
    /\ tx_seq' = 0
    /\ data_type' = "DataMdr"
    /\ linkUp' = TRUE
    /\ inbox' = <<>>
    /\ outbox' = <<>>
    /\ todo' = <<>>
    /\ late' = FALSE
    /\ unacked' = 0
    /\ lastSeq' = 1

NoExchange ==
    /\ accepts' = {}
    /\ expired' = FALSE
    /\ clean' = FALSE
    /\ seen' = {}

Init ==
    /\ phase = "closed"
    /\ tx_seq = 0
    /\ data_type = "DataMdr"
    /\ linkUp = TRUE
    /\ inbox = <<>>
    /\ outbox = <<>>
    /\ todo = <<>>
    /\ late = FALSE
    /\ unacked = 0
    /\ lastSeq = 1
    /\ accepts = {}
    /\ expired = FALSE
    /\ clean = FALSE
    /\ seen = {}
    /\ reply = {}
    /\ outcome = "none"
    /\ setting \in [Features -> Values]

Open ==
    /\ phase = "closed"
    /\ phase' = "idle"
    /\ UNCHANGED <<tx_seq, data_type, accepts, expired, reply, outcome, linkUp,
                   inbox, outbox, setting, todo, history, unacked>>

DropSession(result) ==
    /\ phase' = "closed"
    /\ reply' = {}
    /\ outcome' = result
    /\ NoExchange
    /\ NewConnection
    /\ UNCHANGED setting

(* disconnect waits for the lock, so no exchange is running. *)
Close == phase = "idle" /\ DropSession("none")

----------------------------------------------------------------------------
(* The end of an exchange *)

(* The exchange ends and the session lives on. *)
Finish(result) ==
    /\ phase' = "idle"
    /\ outcome' = result
    /\ NoExchange
    /\ UNCHANGED <<data_type, linkUp, outbox, setting, todo, lastSeq>>

(* An exchange that ends before send returned leaves its ACK to come. *)
Abandon(result) ==
    /\ Finish(result)
    /\ late' = (late \/ phase = "sending")
    /\ UNCHANGED <<tx_seq, reply, unacked>>

----------------------------------------------------------------------------
(* Bugs this code could have had, for the runs that show each property     *)
(* tells them from the code.                                               *)

(* set_data_type is forgotten: the command rides the last one's table. *)
BeginOnStaleTable(f, w) ==
    /\ phase = "idle"
    /\ linkUp
    /\ InFlight < MaxInFlight
    /\ phase' = "sending"
    /\ accepts' = {f}
    /\ outbox' = Append(outbox, [feat |-> f, write |-> w, table |-> data_type])
    /\ expired' = FALSE
    /\ reply' = {}
    /\ outcome' = "none"
    /\ clean' = NoAckInFlight
    /\ seen' = Held({f}, setting)
    /\ lastSeq' = tx_seq
    /\ UNCHANGED <<tx_seq, data_type, linkUp, inbox, setting, todo, late, unacked>>

SendReturns(next) ==
    /\ phase = "sending"
    /\ inbox # <<>>
    /\ inbox' = Tail(inbox)
    /\ tx_seq' = next
    /\ phase' = "receiving"
    /\ expired' = FALSE
    /\ UNCHANGED <<data_type, accepts, reply, outcome, linkUp, outbox, setting,
                   todo, history, unacked>>

(* The sequence number is not toggled, or counted without wrapping. *)
SendAckedSameSeq == SendReturns(tx_seq) /\ IsAck(Head(inbox))
SendAckedCounting == SendReturns(tx_seq + 1) /\ IsAck(Head(inbox))

(* Any frame is taken for the ACK. *)
SendAckedByAnything == SendReturns(1 - tx_seq)

(* Each frame read restarts the deadline of send. *)
SendSkipsDataAnew ==
    /\ phase = "sending"
    /\ linkUp
    /\ inbox # <<>> /\ IsData(Head(inbox))
    /\ inbox' = Tail(inbox)
    /\ unacked' = unacked - 1
    /\ expired' = FALSE
    /\ UNCHANGED <<phase, tx_seq, data_type, accepts, reply, outcome, linkUp,
                   outbox, setting, todo, history>>

(* The next data frame is the answer, whatever its opcode. *)
RecvAnswersAnything ==
    /\ phase = "receiving"
    /\ linkUp
    /\ inbox # <<>> /\ IsData(Head(inbox))
    /\ inbox' = Tail(inbox)
    /\ unacked' = unacked - 1
    /\ reply' = {Head(inbox).reading}
    /\ Finish("ok")
    /\ UNCHANGED <<tx_seq, late>>

(* An unrelated frame is skipped without acknowledging it. *)
RecvSkipsDataUnacked ==
    /\ phase = "receiving"
    /\ linkUp
    /\ inbox # <<>> /\ IsData(Head(inbox))
    /\ Head(inbox).reading[1] \notin accepts
    /\ inbox' = Tail(inbox)
    /\ expired' = FALSE
    /\ UNCHANGED <<phase, tx_seq, data_type, accepts, reply, outcome, linkUp,
                   outbox, setting, todo, history, unacked>>

(* recv reads without a deadline. *)
ExpireInSendOnly ==
    /\ phase = "sending"
    /\ ~expired
    /\ expired' = TRUE
    /\ UNCHANGED <<phase, tx_seq, data_type, accepts, reply, outcome, linkUp,
                   inbox, outbox, setting, todo, history, unacked>>

(* The answer is taken for the ACK as well: send, once it has read what    *)
(* the command asked for, returns it at once.                              *)
SendSkipsDataAnswers ==
    /\ phase = "sending"
    /\ linkUp
    /\ inbox # <<>> /\ IsData(Head(inbox))
    /\ inbox' = Tail(inbox)
    /\ unacked' = unacked - 1
    /\ IF Head(inbox).reading[1] \in accepts
       THEN /\ reply' = {Head(inbox).reading}
            /\ Finish("ok")
            /\ UNCHANGED <<tx_seq, late>>
       ELSE UNCHANGED <<session, linkUp, outbox, setting, todo, history>>

----------------------------------------------------------------------------
(* The exchange *)

(* exchange_on takes the lock, selects the table and writes the command;   *)
(* the deadline of the whole of send starts here.                          *)
BeginExchange(f, w) ==
    /\ phase = "idle"
    /\ linkUp
    /\ InFlight < MaxInFlight
    /\ phase' = "sending"
    /\ data_type' = Table(f)
    /\ accepts' = {f}
    /\ outbox' = Append(outbox, [feat |-> f, write |-> w, table |-> data_type'])
    /\ expired' = FALSE
    /\ reply' = {}
    /\ outcome' = "none"
    /\ clean' = NoAckInFlight
    /\ seen' = Held({f}, setting)
    /\ lastSeq' = tx_seq
    /\ UNCHANGED <<tx_seq, linkUp, inbox, setting, todo, late, unacked>>

(* The write fails: broken is set, and exchange_on drops the session. *)
BeginFails == phase = "idle" /\ ~linkUp /\ DropSession("io")

(* send: the first ACK read is taken as the command's. *)
SendAcked ==
    /\ phase = "sending"
    /\ inbox # <<>> /\ IsAck(Head(inbox))
    /\ inbox' = Tail(inbox)
    /\ tx_seq' = 1 - tx_seq
    /\ phase' = "receiving"
    /\ expired' = FALSE
    /\ UNCHANGED <<data_type, accepts, reply, outcome, linkUp, outbox, setting,
                   todo, history, unacked>>

(* A data frame read by send is acknowledged and thrown away; the deadline *)
(* keeps running.                                                          *)
SendSkipsData ==
    /\ phase = "sending"
    /\ linkUp
    /\ inbox # <<>> /\ IsData(Head(inbox))
    /\ inbox' = Tail(inbox)
    /\ unacked' = unacked - 1
    /\ UNCHANGED <<session, linkUp, outbox, setting, todo, history>>

(* recv: a stray ACK is skipped under the same deadline. *)
RecvSkipsAck ==
    /\ phase = "receiving"
    /\ inbox # <<>> /\ IsAck(Head(inbox))
    /\ inbox' = Tail(inbox)
    /\ UNCHANGED <<session, linkUp, outbox, setting, todo, history, unacked>>

(* recv returns a frame whose opcode is accepted: the exchange's answer. *)
RecvAnswers ==
    /\ phase = "receiving"
    /\ linkUp
    /\ inbox # <<>> /\ IsData(Head(inbox))
    /\ Head(inbox).reading[1] \in accepts
    /\ inbox' = Tail(inbox)
    /\ unacked' = unacked - 1
    /\ reply' = {Head(inbox).reading}
    /\ Finish("ok")
    /\ UNCHANGED <<tx_seq, late>>

(* recv returns another frame: exchange_on calls recv again, which starts  *)
(* a deadline of its own.                                                  *)
RecvSkipsData ==
    /\ phase = "receiving"
    /\ linkUp
    /\ inbox # <<>> /\ IsData(Head(inbox))
    /\ Head(inbox).reading[1] \notin accepts
    /\ inbox' = Tail(inbox)
    /\ unacked' = unacked - 1
    /\ expired' = FALSE
    /\ UNCHANGED <<phase, tx_seq, data_type, accepts, reply, outcome, linkUp,
                   outbox, setting, todo, history>>

(* The ACK of a data frame cannot be written, or the read finds the link   *)
(* closed once the buffer is empty: broken is set, the session dropped.    *)
LinkFails ==
    /\ Busy
    /\ ~linkUp
    /\ inbox # <<>> => IsData(Head(inbox))
    /\ DropSession("io")

(* The decoder refuses a frame: the exchange fails, broken stays unset. *)
BadFrame ==
    /\ Busy
    /\ inbox # <<>> /\ IsBad(Head(inbox))
    /\ inbox' = IF Head(inbox).type = "stuck" THEN inbox ELSE Tail(inbox)
    /\ Abandon("bad_frame")

Expire ==
    /\ Busy
    /\ ~expired
    /\ expired' = TRUE
    /\ UNCHANGED <<phase, tx_seq, data_type, accepts, reply, outcome, linkUp,
                   inbox, outbox, setting, todo, history, unacked>>

(* timeout_at polls the read first: it fires with nothing left to read. *)
TimesOut ==
    /\ Busy
    /\ expired
    /\ linkUp
    /\ inbox = <<>>
    /\ Abandon("timeout")
    /\ UNCHANGED inbox

(* The HTTP client goes away and its handler is dropped at an await. *)
Cancel ==
    /\ Busy
    /\ Abandon("cancelled")
    /\ UNCHANGED inbox

----------------------------------------------------------------------------
(* The headset and the link, seen from what the code expects of them *)

(* A data frame with reading r reaches the socket, intact or damaged. *)
DeliverData(r) ==
    \/ inbox' = Append(inbox, Data(r)) /\ unacked' = unacked + 1
    \/ /\ \E d \in Damage : inbox' = Append(inbox, Bad(d))
       /\ UNCHANGED unacked

(* The headset now holds v for f. *)
Holds(f, v) ==
    /\ setting' = [setting EXCEPT ![f] = v]
    /\ seen' = seen \cup Held(accepts, setting')

(* The headset acknowledges a command, and will act on it later. *)
HeadsetTakes ==
    /\ linkUp
    /\ outbox # <<>>
    /\ outbox' = Tail(outbox)
    /\ todo' = Append(todo, Head(outbox))
    /\ \E frame \in {Ack} \cup {Bad(d) : d \in Damage} :
          inbox' = Append(inbox, frame)
    /\ UNCHANGED <<session, linkUp, setting, history, unacked>>

(* A command is damaged on its way: the headset does not acknowledge it. *)
HeadsetMisses ==
    /\ linkUp
    /\ outbox # <<>>
    /\ outbox' = Tail(outbox)
    /\ UNCHANGED <<session, linkUp, inbox, setting, todo, history, unacked>>

(* A read on the feature's own table is answered with the current value. *)
HeadsetReports ==
    /\ linkUp
    /\ todo # <<>> /\ Head(todo).write = {}
    /\ Head(todo).table = Table(Head(todo).feat)
    /\ todo' = Tail(todo)
    /\ DeliverData(<<Head(todo).feat, setting[Head(todo).feat]>>)
    /\ UNCHANGED <<session, linkUp, outbox, setting, history>>

(* A write that changes the value is applied, and notified. *)
HeadsetApplies ==
    /\ linkUp
    /\ todo # <<>>
    /\ Head(todo).table = Table(Head(todo).feat)
    /\ todo' = Tail(todo)
    /\ \E v \in Head(todo).write :
          /\ v # setting[Head(todo).feat]
          /\ Holds(Head(todo).feat, v)
          /\ DeliverData(<<Head(todo).feat, v>>)
    /\ UNCHANGED <<session, linkUp, outbox, clean, late, lastSeq>>

(* Silence: a value it already holds, or a command on the wrong table. *)
HeadsetIsSilent ==
    /\ linkUp
    /\ todo # <<>>
    /\ \/ Head(todo).table # Table(Head(todo).feat)
       \/ setting[Head(todo).feat] \in Head(todo).write
    /\ todo' = Tail(todo)
    /\ UNCHANGED <<session, linkUp, inbox, outbox, setting, history, unacked>>

(* A value changes of its own accord, by a button or as the battery        *)
(* drains; the headset pushes a notification of it, or does not.           *)
HeadsetChanges(f, v) ==
    /\ linkUp
    /\ phase # "closed"
    /\ InFlight < MaxInFlight
    /\ v # setting[f]
    /\ Holds(f, v)
    /\ DeliverData(<<f, v>>) \/ UNCHANGED <<inbox, unacked>>
    /\ UNCHANGED <<session, linkUp, outbox, todo, clean, late, lastSeq>>

(* The headphones are switched off or walk out of range. *)
LinkDown ==
    /\ phase # "closed"
    /\ linkUp
    /\ linkUp' = FALSE
    /\ UNCHANGED <<session, inbox, outbox, setting, todo, history, unacked>>

----------------------------------------------------------------------------
(* The specification *)

(* The steps of the task that runs the exchange. *)
Reader ==
    \/ SendAcked
    \/ SendSkipsData
    \/ RecvSkipsAck
    \/ RecvAnswers
    \/ RecvSkipsData
    \/ LinkFails
    \/ BadFrame
    \/ TimesOut

Caller ==
    \/ Open
    \/ Close
    \/ \E f \in Features, w \in Writes : BeginExchange(f, w)
    \/ BeginFails
    \/ Cancel

Headset ==
    \/ HeadsetTakes
    \/ HeadsetMisses
    \/ HeadsetReports
    \/ HeadsetApplies
    \/ HeadsetIsSilent
    \/ \E f \in Features, v \in Values : HeadsetChanges(f, v)
    \/ LinkDown

Next == Reader \/ Expire \/ Caller \/ Headset

Spec == Init /\ [][Next]_vars

(* The runtime polls a task whose read is ready and fires its timers.      *)
(* Strong fairness of TimesOut: microseconds of processing fit in a gap    *)
(* between two frames, so of infinitely many gaps after the deadline one   *)
(* is long enough for the reader to poll the empty socket.  Nothing is     *)
(* assumed of the headset or of the caller.                                *)
Fairness ==
    /\ WF_vars(Reader)
    /\ WF_vars(Expire)
    /\ SF_vars(TimesOut)

FairSpec == Spec /\ Fairness

----------------------------------------------------------------------------
(* Properties *)

(* Every variable keeps its type. *)
TypeOK ==
    /\ phase \in {"closed", "idle", "sending", "receiving"}
    /\ tx_seq \in {0, 1}
    /\ data_type \in Tables
    /\ accepts \subseteq Features
    /\ expired \in BOOLEAN
    /\ reply \subseteq Readings
    /\ outcome \in Outcomes
    /\ linkUp \in BOOLEAN
    /\ inbox \in Seq(Frames)
    /\ outbox \in Seq(Commands)
    /\ setting \in [Features -> Values]
    /\ todo \in Seq(Commands)
    /\ clean \in BOOLEAN
    /\ late \in BOOLEAN
    /\ seen \subseteq Readings
    /\ unacked \in Int
    /\ lastSeq \in {0, 1}

(* A reading returned by an exchange that began with no ACK in flight was  *)
(* held by the headset at some moment of that exchange: send throws away   *)
(* what was pushed before the ACK, recv takes only accepted opcodes.       *)
FreshReading ==
    [][clean /\ reply = {} /\ reply' # {} => reply' \subseteq seen]_vars

(* The values are live whatever happened before in the session, as         *)
(* docs/protocol.md:59 says of the battery level; send takes any ACK.      *)
ReadingIsLive ==
    [][reply = {} /\ reply' # {} => reply' \subseteq seen]_vars

(* Only an exchange abandoned inside send leaves an ACK behind: until one  *)
(* is, each exchange begins, and the session rests, with none in flight.   *)
InSync == ~late => IF Busy THEN clean ELSE NoAckInFlight

(* Why a clean exchange is answered with a live reading.  Its command is   *)
(* the only one on its way; once that is taken its ACK is the only one in  *)
(* inbox; and every accepted reading behind that ACK was sent after it.    *)
FreshAfter(k) ==
    \A i \in DOMAIN inbox :
        i > k /\ IsData(inbox[i]) /\ inbox[i].reading[1] \in accepts
            => inbox[i].reading \in seen

AckAwaited == phase = "sending" /\ Len(outbox) <= 1 /\ NoAckIn(inbox)

AckArrived ==
    /\ phase = "sending"
    /\ outbox = <<>>
    /\ \E k \in DOMAIN inbox :
          /\ IsAck(inbox[k])
          /\ \A i \in DOMAIN inbox : i # k => ~IsAck(inbox[i])
          /\ FreshAfter(k)

AckRead == phase = "receiving" /\ NoAckInFlight /\ FreshAfter(0)

Correlated == clean => AckAwaited \/ AckArrived \/ AckRead

(* When send has returned in a session in step, the headset has taken the  *)
(* command; what it has not acted on yet it will act on in order.          *)
AckedMeansTaken == phase = "receiving" /\ clean => outbox = <<>>

(* Where the data frames of a sequence are. *)
DataIn(frames) == {i \in DOMAIN frames : IsData(frames[i])}

(* Every data frame the connection has read off the buffer, by send or by  *)
(* recv, answered or not, has been acknowledged.                           *)
EveryFrameAcked == unacked = Cardinality(DataIn(inbox))

(* Consecutive commands of a session in step carry different sequence      *)
(* numbers, so that the headset cannot take one for a repeat.              *)
SeqAlternates == phase = "idle" /\ ~late => lastSeq # tx_seq

(* A command rides its own feature's table, whatever rode before it. *)
CommandsRideTheirTable ==
    \A c \in {outbox[i] : i \in DOMAIN outbox} \cup {todo[i] : i \in DOMAIN todo} :
        c.table = Table(c.feat)

(* send has one deadline for its whole wait: it ends even if the headset   *)
(* never acknowledges and never stops pushing notifications, provided it   *)
(* does not keep the socket full for ever.                                 *)
SendEnds == []<>(inbox = <<>>) => (phase = "sending" ~> phase # "sending")

(* recv's deadline starts afresh with each unrelated frame, so the whole   *)
(* exchange, and with it the session lock, is released only if the headset *)
(* some day stops pushing.                                                 *)
ExchangeEnds ==
    <>[][~\E f \in Features, v \in Values : HeadsetChanges(f, v)]_vars
        => (Busy ~> ~Busy)

(* The inductive invariant behind FreshReading, InSync, AckedMeansTaken    *)
(* and KeepsPromise: the parts above, and what links them.                 *)
SeenIsCurrent == Busy => Held(accepts, setting) \subseteq seen

IInv ==
    /\ TypeOK
    /\ InSync
    /\ Correlated
    /\ SeenIsCurrent
    /\ phase = "closed" => ~late

(* The session keeps the promise of module Exchange. *)
Promise == INSTANCE Exchange
             WITH phase <- IF Busy THEN "busy" ELSE phase
KeepsPromise == Promise!Spec
=============================================================================
