-------------------------------- MODULE Probe --------------------------------
(***************************************************************************)
(* The development tool (probe.rs): a sweep of raw payloads (probe) or a   *)
(* capture of what the headset pushes (listen), on a link of its own.      *)
(*                                                                         *)
(* Unlike exchange_on, the sweep takes the next data frame for the reply,  *)
(* whatever its opcode, and goes on after a silence on the same link.  A   *)
(* frame is abstracted to what it is and which payload or push it comes    *)
(* from; inbox is the receive buffer and what the socket holds.            *)
(***************************************************************************)
EXTENDS Integers, Sequences

CONSTANTS
    N,          \* how many payloads are swept
    MaxPushes   \* bound: how often the headset speaks unasked, in each job

ASSUME SweepAssumption == N \in Nat \ {0} /\ MaxPushes \in [{"probe", "listen"} -> Nat]

VARIABLES
    job,        \* "probe" or "listen"
    phase,      \* where it is
    at,         \* the payload it is at; 0 before the first
    printed,    \* the line printed for each payload
    heard,      \* what listen has printed
    holder,     \* who holds the RFCOMM link
    inbox,      \* frames from the headset, in order
    outbox,     \* payloads on their way to it
    owed,       \* payloads it has acknowledged and may answer
    pushes,     \* how often it has pushed
    said        \* history: the data frames it sent intact on this link

process == <<job, phase, at, printed, heard>>
headset == <<owed, pushes, said>>
vars == <<process, holder, inbox, outbox, headset>>

Frame(type, n) == [type |-> type, n |-> n]
Ack == Frame("ack", 0)
NoLine == Frame("none", 0)
NoReply == Frame("no reply", 0)
Error == Frame("error", 0)

(* A frame the decoder refuses is dropped ("bad") or left in front of the  *)
(* buffer ("stuck").                                                       *)
Refused == {Frame("bad", 0), Frame("stuck", 0)}
Answers == {Frame("answer", i) : i \in 1 .. N}
Pushes == {Frame("push", i) : i \in 1 .. MaxPushes[job]}
DataFrames == Answers \cup Pushes

Phases == {"starting", "opening", "draining", "writing", "sending", "receiving",
           "reopening", "listening", "ended"}

Linked == holder = "probe"
Next_is(frames) == inbox # <<>> /\ Head(inbox) \in frames
Reads == inbox' = Tail(inbox)

Init ==
    /\ job \in {"probe", "listen"}
    /\ phase = "starting"
    /\ at = 0
    /\ printed = [i \in 1 .. N |-> NoLine]
    /\ heard = <<>>
    /\ holder \in {"nobody", "daemon"}
    /\ inbox = <<>>
    /\ outbox = <<>>
    /\ owed = <<>>
    /\ pushes = 0
    /\ said = {}

----------------------------------------------------------------------------
(* Opening *)

(* The hex of the arguments is parsed before anything is opened: it is     *)
(* refused, or the program panics (on a data type without a byte, or where *)
(* a pair of digits would split a character).                              *)
Start(result) ==
    /\ phase = "starting"
    /\ phase' = IF result = "parsed" THEN "opening" ELSE "ended"
    /\ UNCHANGED <<job, at, printed, heard, holder, inbox, outbox, headset>>

(* A bug: the loop runs once too often. *)
AdvancePast ==
    /\ at' = at + 1
    /\ phase' = IF at <= N THEN "draining" ELSE "ended"

(* The loop goes on to the next payload. *)
Advance ==
    /\ at' = at + 1
    /\ phase' = IF at < N THEN "draining" ELSE "ended"

(* A bug: the new connection reads on from the old one's buffer. *)
ConnectKeepsBuffer ==
    /\ phase \in {"opening", "reopening"}
    /\ holder = "nobody"
    /\ holder' = "probe"
    /\ outbox' = <<>>
    /\ owed' = <<>>
    /\ said' = {}
    /\ IF job = "probe" THEN Advance ELSE phase' = "listening" /\ UNCHANGED at
    /\ UNCHANGED <<job, printed, heard, inbox, pushes>>

(* The link is free: there is a new connection, with a new buffer.  After  *)
(* an error it replaces the old one, and the payload is not sent again.    *)
Connect ==
    /\ phase \in {"opening", "reopening"}
    /\ holder = "nobody"
    /\ holder' = "probe"
    /\ inbox' = <<>>
    /\ outbox' = <<>>
    /\ owed' = <<>>
    /\ said' = {}
    /\ IF job = "probe" THEN Advance ELSE phase' = "listening" /\ UNCHANGED at
    /\ UNCHANGED <<job, printed, heard, pushes>>

(* There is no device, or the link is held: by the daemon, or by the old   *)
(* connection of this very sweep, which is not dropped before the new one  *)
(* is open.                                                                *)
ConnectFails ==
    /\ phase \in {"opening", "reopening"}
    /\ phase' = "ended"
    /\ UNCHANGED <<job, at, printed, heard, holder, inbox, outbox, headset>>

----------------------------------------------------------------------------
(* One payload *)

(* What makes a recv fail at once: a frame that is refused, or a link that *)
(* cannot be read from, or that takes no acknowledgement.                  *)
ReadFails ==
    \/ Next_is(Refused) /\ inbox' = (IF Head(inbox).type = "stuck" THEN inbox ELSE Tail(inbox))
    \/ ~Linked /\ Next_is(DataFrames) /\ Reads
    \/ ~Linked /\ inbox = <<>> /\ UNCHANGED inbox

(* No frame came before the deadline.  A frame that is there is read first.*)
Quiet == Linked /\ inbox = <<>> /\ UNCHANGED inbox

(* A late frame is printed as such. *)
DrainPrints ==
    /\ phase = "draining" /\ Linked /\ Next_is(DataFrames)
    /\ Reads
    /\ UNCHANGED <<process, holder, outbox, headset>>

(* A bug: only silence ends the drain. *)
DrainEndsInSilence ==
    /\ phase = "draining"
    /\ Quiet
    /\ phase' = "writing"
    /\ UNCHANGED <<job, at, printed, heard, holder, outbox, headset>>

(* 150 ms of silence end the drain, and so does any error. *)
DrainEnds ==
    /\ phase = "draining"
    /\ Quiet \/ ReadFails
    /\ phase' = "writing"
    /\ UNCHANGED <<job, at, printed, heard, holder, outbox, headset>>

(* send and recv skip the ACKs that they do not wait for. *)
SkipsAck ==
    /\ phase \in {"draining", "receiving", "listening"} /\ Next_is({Ack})
    /\ Reads
    /\ UNCHANGED <<process, holder, outbox, headset>>

Writes ==
    /\ phase = "writing" /\ Linked
    /\ outbox' = Append(outbox, at)
    /\ phase' = "sending"
    /\ UNCHANGED <<job, at, printed, heard, holder, inbox, headset>>

(* Any ACK is taken for the payload's. *)
SendAcked ==
    /\ phase = "sending" /\ Next_is({Ack})
    /\ Reads
    /\ phase' = "receiving"
    /\ UNCHANGED <<job, at, printed, heard, holder, outbox, headset>>

(* What comes before the ACK is acknowledged and printed nowhere. *)
SendDrops ==
    /\ phase = "sending" /\ Linked /\ Next_is(DataFrames)
    /\ Reads
    /\ UNCHANGED <<process, holder, outbox, headset>>

Prints(line) == printed' = [printed EXCEPT ![at] = line]

(* The next data frame is printed as the reply, whatever its opcode. *)
Replied ==
    /\ phase = "receiving" /\ Linked /\ Next_is(DataFrames)
    /\ Reads
    /\ Prints(Head(inbox))
    /\ Advance
    /\ UNCHANGED <<job, heard, holder, outbox, headset>>

Silence ==
    /\ phase \in {"sending", "receiving"}
    /\ Quiet
    /\ Prints(NoReply)
    /\ Advance
    /\ UNCHANGED <<job, heard, holder, outbox, headset>>

(* Any other error is printed, and the link opened again. *)
Fails ==
    /\ \/ phase = "writing" /\ ~Linked /\ UNCHANGED inbox
       \/ phase \in {"sending", "receiving"} /\ ReadFails
    /\ Prints(Error)
    /\ phase' = "reopening"
    /\ UNCHANGED <<job, at, heard, holder, outbox, headset>>

----------------------------------------------------------------------------
(* listen *)

(* A bug: a frame is taken without being printed. *)
HearsWithout ==
    /\ phase = "listening" /\ Linked /\ Next_is(DataFrames)
    /\ Reads
    /\ UNCHANGED <<process, holder, outbox, headset>>

Hears ==
    /\ phase = "listening" /\ Linked /\ Next_is(DataFrames)
    /\ Reads
    /\ heard' = Append(heard, Head(inbox))
    /\ UNCHANGED <<job, phase, at, printed, holder, outbox, headset>>

(* The time is over, or recv failed. *)
ListenEnds ==
    /\ phase = "listening"
    /\ UNCHANGED inbox \/ ReadFails
    /\ phase' = "ended"
    /\ UNCHANGED <<job, at, printed, heard, holder, outbox, headset>>

----------------------------------------------------------------------------
(* The headset, the link and the daemon *)

(* It acknowledges a payload, or never sees it. *)
Takes ==
    /\ Linked /\ outbox # <<>>
    /\ outbox' = Tail(outbox)
    /\ \/ inbox' = Append(inbox, Ack) /\ owed' = Append(owed, Head(outbox))
       \/ UNCHANGED <<inbox, owed>>
    /\ UNCHANGED <<process, holder, pushes, said>>

Says(frame) == inbox' = Append(inbox, frame) /\ said' = said \cup {frame}

(* It answers, at any later time, or knows no answer. *)
Replies ==
    /\ Linked /\ owed # <<>>
    /\ owed' = Tail(owed)
    /\ Says(Frame("answer", Head(owed))) \/ UNCHANGED <<inbox, said>>
    /\ UNCHANGED <<process, holder, outbox, pushes>>

Pushed ==
    /\ Linked /\ pushes < MaxPushes[job]
    /\ pushes' = pushes + 1
    /\ Says(Frame("push", pushes'))
    /\ UNCHANGED <<process, holder, outbox, owed>>

(* A frame is damaged on its way. *)
Damaged ==
    /\ Linked
    /\ \E i \in DOMAIN inbox, f \in Refused :
          /\ inbox[i] \notin Refused
          /\ inbox' = [inbox EXCEPT ![i] = f]
          /\ said' = said \ {inbox[i]}
    /\ UNCHANGED <<process, holder, outbox, owed, pushes>>

(* The link dies, or the daemon takes the free link or gives it back. *)
HolderChanges ==
    /\ holder' = CASE holder = "nobody" -> "daemon" [] OTHER -> "nobody"
    /\ UNCHANGED <<process, inbox, outbox, headset>>

----------------------------------------------------------------------------

ProbeStep ==
    \/ \E result \in {"parsed", "refused", "panicked"} : Start(result)
    \/ Connect \/ ConnectFails
    \/ DrainPrints \/ DrainEnds \/ SkipsAck \/ Writes
    \/ SendAcked \/ SendDrops \/ Replied \/ Silence \/ Fails
    \/ Hears \/ ListenEnds

Environment == Takes \/ Replies \/ Pushed \/ Damaged \/ HolderChanges

Next == ProbeStep \/ (phase # "ended" /\ Environment)

Spec == Init /\ [][Next]_vars

(* The runtime polls a task that is ready. *)
FairSpec == Spec /\ WF_vars(ProbeStep)

----------------------------------------------------------------------------
(* Properties *)

(* Every variable keeps its type; a payload is at hand wherever one is     *)
(* sent.                                                                   *)
TypeOK ==
    /\ job \in {"probe", "listen"}
    /\ phase \in Phases
    /\ at \in 0 .. N + 1
    /\ phase \in {"draining", "writing", "sending", "receiving", "reopening"} => at \in 1 .. N
    /\ printed \in [1 .. N -> DataFrames \cup {NoLine, NoReply, Error}]
    /\ heard \in Seq(DataFrames)
    /\ holder \in {"nobody", "probe", "daemon"}
    /\ inbox \in Seq(DataFrames \cup Refused \cup {Ack})
    /\ outbox \in Seq(1 .. N) /\ owed \in Seq(1 .. N)
    /\ pushes \in 0 .. MaxPushes[job]
    /\ said \subseteq DataFrames

(* Payload i is what was answered in the line of payload j. *)
AnswersFor(i, j) == printed[j] = Frame("answer", i)

(* Stale frames are drained "so they are never mistaken for the current    *)
(* reply", but one may be later than the drain.                            *)
(* A line shows the answer to another payload only if the sweep had gone   *)
(* out of step before, by a silence or a push that was taken for a reply,  *)
(* and no error in between: an error starts anew, on a link where nothing  *)
(* is late.                                                                *)
OutOfStepOnlyAfterSilence ==
    \A i, j \in 1 .. N : AnswersFor(i, j) /\ i # j =>
        /\ i < j
        /\ \E k \in 1 .. i : printed[k] \in Pushes \cup {NoReply}
                             /\ \A l \in k .. j : printed[l] # Error

(* listen prints every intact frame that was sent while it listened, once  *)
(* and in order, but for those it has still to read.                       *)
HearsEverything ==
    phase = "listening" /\ Linked =>
        LET all == heard \o inbox
        IN  /\ {all[i] : i \in DOMAIN all} \cap DataFrames = said
            /\ \A i, j \in DOMAIN all :
                  i < j /\ {all[i], all[j]} \subseteq DataFrames => all[i].n < all[j].n

(* A sweep and a capture end, unless the headset pushes for ever.          *)
Ends == <>(phase = "ended")
=============================================================================
