----------------------------- MODULE ProbeProofs -----------------------------
(* Proofs about module Probe, for a sweep of any length and any number of  *)
(* pushes.                                                                 *)
EXTENDS Probe, SequenceTheorems, TLAPS

----------------------------------------------------------------------------
(* The inductive invariant *)

Sweeping == {"draining", "writing", "sending", "receiving"}

(* The payloads whose answer may still come, by where it is. *)
InInbox(i) == \E k \in DOMAIN inbox : inbox[k] = Frame("answer", i)
InOwed(i) == \E k \in DOMAIN owed : owed[k] = i
InOutbox(i) == \E k \in DOMAIN outbox : outbox[k] = i
Pending(i) == InInbox(i) \/ InOwed(i) \/ InOutbox(i)

(* A capture sends nothing, and a sweep does not listen. *)
AtItsJob ==
    /\ phase \in {"starting", "opening"} => at = 0
    /\ job = "listen" => /\ phase \in {"starting", "opening", "listening", "ended"}
                         /\ outbox = <<>> /\ owed = <<>>
    /\ phase = "listening" => job = "listen"

(* No payload is answered twice. *)
PendingOnce ==
    /\ \A k, l \in DOMAIN inbox : inbox[k] = inbox[l] /\ inbox[k] \in Answers => k = l
    /\ \A k, l \in DOMAIN owed : owed[k] = owed[l] => k = l
    /\ \A k, l \in DOMAIN outbox : outbox[k] = outbox[l] => k = l
    /\ \A i \in 1 .. N : /\ InInbox(i) => ~InOwed(i) /\ ~InOutbox(i)
                         /\ InOwed(i) => ~InOutbox(i)

PendingUpToNow ==
    \A i \in 1 .. N :
        Pending(i) => i <= at /\ (phase \in {"draining", "writing"} => i < at)

NotYetPrinted ==
    \A l \in 1 .. N :
        \/ phase \in Sweeping /\ at <= l
        \/ phase = "reopening" /\ at < l
        \/ phase \in {"starting", "opening", "listening"}
        => printed[l] = NoLine

(* The sweep went out of step at i or before, and has not begun anew since.*)
Behind(i, j) ==
    \E k \in 1 .. i : /\ printed[k] \in Pushes \cup {NoReply}
                      /\ \A l \in k .. j : printed[l] # Error

(* An answer is late only if its own line or an earlier one lacks it. *)
LateForCause ==
    phase \in Sweeping =>
        \A i \in 1 .. N : Pending(i) /\ i < at => Behind(i, at - 1)

(* What a capture has printed and what it has still to read are together   *)
(* what was sent, in the order of the headset's pushes.                    *)
HeardSoFar ==
    /\ phase \in {"starting", "opening"} => heard = <<>>
    /\ phase = "listening" /\ Linked =>
          /\ said = {heard[k] : k \in DOMAIN heard}
                       \cup ({inbox[k] : k \in DOMAIN inbox} \cap DataFrames)
          /\ \A f \in said : f.n <= pushes
          /\ \A k, l \in DOMAIN heard : k < l => heard[k].n < heard[l].n
          /\ \A k, l \in DOMAIN inbox :
                k < l /\ inbox[k] \in DataFrames /\ inbox[l] \in DataFrames
                    => inbox[k].n < inbox[l].n
          /\ \A k \in DOMAIN heard, l \in DOMAIN inbox :
                inbox[l] \in DataFrames => heard[k].n < inbox[l].n

IInv ==
    /\ TypeOK
    /\ AtItsJob
    /\ PendingOnce
    /\ PendingUpToNow
    /\ NotYetPrinted
    /\ LateForCause
    /\ OutOfStepOnlyAfterSilence
    /\ HeardSoFar

----------------------------------------------------------------------------
(* Frames and the sequences they are in *)

Messages == DataFrames \cup Refused \cup {Ack}

LEMMA FrameKinds ==
    /\ \A f \in Answers : f.type = "answer" /\ f.n \in 1 .. N
    /\ \A f \in Pushes : f.type = "push"
    /\ \A i \in 1 .. N : Frame("answer", i) \in Answers
    /\ \A i, j : Frame("answer", i) = Frame("answer", j) => i = j
    /\ \A i : Frame("answer", i) \notin Pushes \cup Refused \cup {Ack, NoLine, NoReply, Error}
    /\ \A f \in Answers \cup Pushes : f \notin Refused \cup {Ack, NoLine, NoReply, Error}
    /\ NoReply # Error /\ NoReply # NoLine /\ Error # NoLine
<1>1. ASSUME NEW t, NEW u, NEW i, NEW j, Frame(t, i) = Frame(u, j)
      PROVE  t = u /\ i = j
  <2>1. Frame(t, i).type = Frame(u, j).type /\ Frame(t, i).n = Frame(u, j).n
    BY <1>1
  <2> QED
    BY <2>1 DEF Frame
<1>2. \A f \in Answers : f.type = "answer" /\ f.n \in 1 .. N
  BY DEF Answers, Frame
<1>3. \A f \in Pushes : f.type = "push"
  BY DEF Pushes, Frame
<1>4. \A i \in 1 .. N : Frame("answer", i) \in Answers
  BY DEF Answers
<1>5. \A i : Frame("answer", i).type = "answer"
  BY DEF Frame
<1>6. \A f \in Refused \cup {Ack, NoLine, NoReply, Error} : f.type \notin {"answer", "push"}
  <2>1. \A f \in Refused : f.type \in {"bad", "stuck"}
    BY DEF Refused, Frame
  <2>2. Ack.type = "ack" /\ NoLine.type = "none"
    BY DEF Ack, NoLine, Frame
  <2>3. NoReply.type = "no reply" /\ Error.type = "error"
    BY DEF NoReply, Error, Frame
  <2> QED
    BY <2>1, <2>2, <2>3
<1>7. NoReply.type # Error.type /\ NoReply.type # NoLine.type /\ Error.type # NoLine.type
  BY DEF Frame, NoLine, NoReply, Error
<1> QED
  BY <1>1, <1>2, <1>3, <1>4, <1>5, <1>6, <1>7

LEMMA Bounds == N \in Nat /\ N >= 1 /\ MaxPushes \in [{"probe", "listen"} -> Nat]
BY SweepAssumption

LEMMA TailForms ==
    ASSUME NEW S, NEW s \in Seq(S), s # <<>>
    PROVE  /\ Head(s) \in S /\ Head(s) = s[1] /\ 1 \in DOMAIN s
           /\ Tail(s) \in Seq(S)
           /\ \A k \in DOMAIN Tail(s) : k + 1 \in DOMAIN s /\ Tail(s)[k] = s[k + 1]
           /\ DOMAIN Tail(s) \subseteq Nat /\ DOMAIN s \subseteq Nat
OBVIOUS

LEMMA AppendForms ==
    ASSUME NEW S, NEW s \in Seq(S), NEW e \in S
    PROVE  /\ Append(s, e) \in Seq(S)
           /\ DOMAIN Append(s, e) = DOMAIN s \cup {Len(s) + 1} /\ Len(s) + 1 \notin DOMAIN s
           /\ \A k \in DOMAIN s : Append(s, e)[k] = s[k] /\ k < Len(s) + 1
           /\ Append(s, e)[Len(s) + 1] = e
           /\ DOMAIN Append(s, e) \subseteq Nat
OBVIOUS

(* What a read does to the buffer. *)
Shrunk == inbox' = inbox \/ (inbox # <<>> /\ inbox' = Tail(inbox))

LEMMA ReadsForms ==
    ASSUME \/ \E frames : Next_is(frames) /\ Reads
           \/ ReadFails \/ Quiet \/ UNCHANGED inbox
    PROVE  Shrunk
BY DEF Next_is, Reads, ReadFails, Quiet, Shrunk

(* Every step of the tool but a new connection takes at most the first     *)
(* frame of the buffer; only Writes sends.                                 *)
LEMMA ProbeForms ==
    ASSUME ProbeStep
    PROVE  \/ Connect
           \/ Writes /\ inbox' = inbox
           \/ Shrunk /\ UNCHANGED <<outbox, headset>>
<1> USE ReadsForms
<1>1. CASE \/ \E result \in {"parsed", "refused", "panicked"} : Start(result)
           \/ ConnectFails
  BY <1>1 DEF Start, ConnectFails
<1>2. CASE DrainPrints \/ DrainEnds \/ SkipsAck
  BY <1>2 DEF DrainPrints, DrainEnds, SkipsAck
<1>3. CASE SendAcked \/ SendDrops \/ Replied
  BY <1>3 DEF SendAcked, SendDrops, Replied
<1>4. CASE Silence \/ Fails \/ Hears \/ ListenEnds
  BY <1>4 DEF Silence, Fails, Hears, ListenEnds
<1>5. CASE Writes
  BY <1>5 DEF Writes
<1> QED
  BY <1>1, <1>2, <1>3, <1>4, <1>5 DEF ProbeStep

LEMMA JobStays ==
    ASSUME Next
    PROVE  job' = job /\ DataFrames' = DataFrames /\ Pushes' = Pushes /\ Answers' = Answers
<1> SUFFICES job' = job
  BY DEF DataFrames, Pushes, Answers
<1>1. CASE \/ \E result \in {"parsed", "refused", "panicked"} : Start(result)
           \/ Connect \/ ConnectFails \/ DrainPrints \/ DrainEnds \/ SkipsAck
  BY <1>1 DEF Start, Connect, ConnectFails, DrainPrints, DrainEnds, SkipsAck, process
<1>2. CASE Writes \/ SendAcked \/ SendDrops \/ Replied \/ Silence
  BY <1>2 DEF Writes, SendAcked, SendDrops, Replied, Silence, process
<1>3. CASE Fails \/ Hears \/ ListenEnds
  BY <1>3 DEF Fails, Hears, ListenEnds
<1>4. CASE Environment
  <2>1. UNCHANGED process
    BY <1>4 DEF Environment, Takes, Replies, Pushed, Damaged, HolderChanges
  <2> QED
    BY <2>1 DEF process
<1> QED
  BY <1>1, <1>2, <1>3, <1>4 DEF Next, ProbeStep

----------------------------------------------------------------------------
(* Types *)

LEMMA AdvanceForms ==
    ASSUME TypeOK, Advance
    PROVE  /\ at' = at + 1
           /\ (phase' = "draining" /\ at' \in 1 .. N) \/ phase' = "ended"
           /\ at' \in 0 .. N + 1 \/ at = N + 1
<1>1. at \in 0 .. N + 1 /\ N \in Nat
  BY Bounds DEF TypeOK
<1>2. CASE at < N
  BY <1>1, <1>2 DEF Advance
<1>3. CASE ~(at < N)
  BY <1>1, <1>3 DEF Advance
<1> QED
  BY <1>2, <1>3

LEMMA InboxTyped ==
    ASSUME TypeOK, Next
    PROVE  inbox' \in Seq(Messages)
<1>0. inbox \in Seq(Messages)
  BY DEF TypeOK, Messages
<1>1. CASE Shrunk
  BY <1>0, <1>1, TailForms DEF Shrunk
<1>2. CASE Connect
  BY <1>2 DEF Connect
<1>3. CASE Writes \/ HolderChanges
  BY <1>0, <1>3 DEF Writes, HolderChanges
<1>4. CASE Takes
  <2>1. Ack \in Messages /\ (inbox' = inbox \/ inbox' = Append(inbox, Ack))
    BY <1>4 DEF Takes, Messages
  <2> QED
    BY <1>0, <2>1, AppendForms
<1>5. CASE Replies
  <2>0. Head(owed) \in 1 .. N
    BY <1>5, TailForms DEF Replies, TypeOK
  <2>1. Frame("answer", Head(owed)) \in Messages
    BY <2>0, FrameKinds DEF Messages, DataFrames
  <2> QED
    BY <1>0, <1>5, <2>1, AppendForms DEF Replies, Says
<1>6. CASE Pushed
  <2>1. pushes + 1 \in 1 .. MaxPushes[job]
    BY <1>6, Bounds DEF Pushed, TypeOK
  <2>2. Frame("push", pushes + 1) \in Messages
    BY <2>1 DEF Pushes, DataFrames, Messages
  <2> QED
    BY <1>0, <1>6, <2>2, AppendForms DEF Pushed, Says
<1>7. CASE Damaged
  BY <1>0, <1>7 DEF Damaged, Messages
<1> QED
  BY <1>1, <1>2, <1>3, <1>4, <1>5, <1>6, <1>7, ProbeForms DEF Next, Environment

LEMMA TypeStep ==
    ASSUME TypeOK, AtItsJob, NotYetPrinted, Next
    PROVE  TypeOK'
<1>0. /\ DataFrames' = DataFrames /\ job' = job /\ inbox' \in Seq(Messages)
  BY JobStays, InboxTyped
<1> DEFINE Rest ==
        /\ phase \in Phases
        /\ at \in 0 .. N + 1
        /\ phase \in {"draining", "writing", "sending", "receiving", "reopening"} => at \in 1 .. N
        /\ printed \in [1 .. N -> DataFrames \cup {NoLine, NoReply, Error}]
        /\ heard \in Seq(DataFrames)
        /\ holder \in {"nobody", "probe", "daemon"}
        /\ outbox \in Seq(1 .. N) /\ owed \in Seq(1 .. N)
        /\ pushes \in 0 .. MaxPushes[job]
        /\ said \subseteq DataFrames
<1>1. Rest
  BY DEF TypeOK
<1> SUFFICES Rest'
  BY <1>0 DEF TypeOK, Messages
<1>2. CASE \E result \in {"parsed", "refused", "panicked"} : Start(result)
  BY <1>0, <1>1, <1>2 DEF Start, Phases, headset
<1>3. CASE Connect
  <2>1. at \in 0 .. N
    BY <1>1, <1>3, Bounds DEF Connect, AtItsJob
  <2>2. CASE job = "probe"
    <3>1. Advance
      BY <1>3, <2>2 DEF Connect
    <3>2. at' \in 0 .. N + 1 /\ ((phase' = "draining" /\ at' \in 1 .. N) \/ phase' = "ended")
      BY <2>1, <3>1, AdvanceForms, Bounds
    <3>3. outbox' = <<>> /\ owed' = <<>> /\ said' = {} /\ UNCHANGED <<printed, heard, pushes>>
          /\ holder' = "probe"
      BY <1>3 DEF Connect
    <3> QED
      BY <1>0, <1>1, <3>2, <3>3 DEF Phases
  <2>3. CASE job # "probe"
    BY <1>0, <1>1, <1>3, <2>3 DEF Connect, Phases
  <2> QED
    BY <2>2, <2>3
<1>4. CASE ConnectFails \/ DrainPrints \/ DrainEnds \/ SkipsAck \/ ListenEnds
  BY <1>0, <1>1, <1>4 DEF ConnectFails, DrainPrints, DrainEnds, SkipsAck, ListenEnds, Phases,
     process, headset
<1>5. CASE Writes
  <2>1. at \in 1 .. N /\ outbox' = Append(outbox, at)
    BY <1>1, <1>5 DEF Writes
  <2>2. outbox' \in Seq(1 .. N)
    BY <1>1, <2>1, AppendForms
  <2> QED
    BY <1>0, <1>1, <1>5, <2>1, <2>2 DEF Writes, Phases, headset
<1>15. CASE SendAcked \/ SendDrops
  BY <1>0, <1>1, <1>15 DEF SendAcked, SendDrops, Phases, process, headset
<1>6. CASE Replied
  <2>1. Head(inbox) \in DataFrames
    BY <1>6 DEF Replied, Next_is
  <2>2. at \in 1 .. N /\ Advance
    BY <1>1, <1>6 DEF Replied
  <2>3. at' \in 0 .. N + 1
    BY <2>2, AdvanceForms, Bounds
  <2>4. printed' \in [1 .. N -> DataFrames \cup {NoLine, NoReply, Error}]
    BY <1>1, <1>6, <2>1 DEF Replied, Prints
  <2>5. UNCHANGED <<heard, holder, outbox, owed, pushes, said>>
    BY <1>6 DEF Replied, headset
  <2>6. (phase' = "draining" /\ at' \in 1 .. N) \/ phase' = "ended"
    BY <2>2, AdvanceForms
  <2> QED
    BY <1>0, <1>1, <2>3, <2>4, <2>5, <2>6 DEF Phases
<1>7. CASE Silence
  <2>2. at \in 1 .. N /\ Advance
    BY <1>1, <1>7 DEF Silence
  <2>3. at' \in 0 .. N + 1
    BY <2>2, AdvanceForms, Bounds
  <2>4. printed' \in [1 .. N -> DataFrames \cup {NoLine, NoReply, Error}]
    BY <1>1, <1>7 DEF Silence, Prints
  <2>5. UNCHANGED <<heard, holder, outbox, owed, pushes, said>>
    BY <1>7 DEF Silence, headset
  <2>6. (phase' = "draining" /\ at' \in 1 .. N) \/ phase' = "ended"
    BY <2>2, AdvanceForms
  <2> QED
    BY <1>0, <1>1, <2>3, <2>4, <2>5, <2>6 DEF Phases
<1>8. CASE Fails
  BY <1>0, <1>1, <1>8 DEF Fails, Prints, Phases, headset
<1>9. CASE Hears
  <2>1. heard' \in Seq(DataFrames)
    BY <1>1, <1>9 DEF Hears, Next_is
  <2> QED
    BY <1>0, <1>1, <1>9, <2>1 DEF Hears, headset
<1>10. CASE Takes
  <2>1. Head(outbox) \in 1 .. N /\ outbox' \in Seq(1 .. N)
    BY <1>1, <1>10, TailForms DEF Takes
  <2>2. owed' \in Seq(1 .. N)
    <3>1. owed' = Append(owed, Head(outbox)) \/ owed' = owed
      BY <1>10 DEF Takes
    <3>2. owed \in Seq(1 .. N)
      BY <1>1
    <3>3. \A i \in 1 .. N : Append(owed, i) \in Seq(1 .. N)
      BY <3>2
    <3>4. Append(owed, Head(outbox)) \in Seq(1 .. N)
      BY <2>1, <3>3, Zenon
    <3> QED
      BY <3>1, <3>2, <3>4, Zenon
  <2>3. UNCHANGED <<phase, at, printed, heard, holder, pushes, said>>
    BY <1>10 DEF Takes, process
  <2> QED
    BY <1>0, <1>1, <2>1, <2>2, <2>3
<1>11. CASE Replies
  <2>1. owed' \in Seq(1 .. N) /\ Head(owed) \in 1 .. N
    BY <1>1, <1>11, TailForms DEF Replies
  <2>2. Frame("answer", Head(owed)) \in DataFrames
    BY <2>1, FrameKinds DEF DataFrames
  <2> QED
    BY <1>0, <1>1, <1>11, <2>1, <2>2 DEF Replies, Says, process
<1>12. CASE Pushed
  <2>1. pushes' \in 1 .. MaxPushes[job]
    BY <1>1, <1>12, Bounds DEF Pushed, TypeOK
  <2>2. Frame("push", pushes') \in DataFrames
    BY <2>1 DEF Pushes, DataFrames
  <2> QED
    BY <1>0, <1>1, <1>12, <2>1, <2>2 DEF Pushed, Says, process
<1>13. CASE Damaged
  BY <1>0, <1>1, <1>13 DEF Damaged, process
<1>14. CASE HolderChanges
  BY <1>0, <1>1, <1>14 DEF HolderChanges, process, headset
<1> QED
  BY <1>2, <1>3, <1>4, <1>5, <1>6, <1>7, <1>8, <1>9, <1>10, <1>11, <1>12, <1>13, <1>14,
     <1>15 DEF Next, ProbeStep, Environment

----------------------------------------------------------------------------
(* Where the tool is *)

LEMMA AtItsJobStep ==
    ASSUME TypeOK, AtItsJob, Next
    PROVE  AtItsJob'
<1> USE DEF AtItsJob
<1>0. job' = job
  BY JobStays
<1>1. CASE \E result \in {"parsed", "refused", "panicked"} : Start(result)
  BY <1>0, <1>1 DEF Start, headset
<1>2. CASE Connect
  <2>1. CASE job = "probe"
    <3>1. phase' \in {"draining", "ended"}
      BY <1>2, <2>1 DEF Connect, Advance
    <3> QED
      BY <1>0, <2>1, <3>1
  <2>2. CASE job # "probe"
    BY <1>0, <1>2, <2>2 DEF Connect, TypeOK
  <2> QED
    BY <2>1, <2>2
<1>3. CASE ConnectFails \/ Hears \/ ListenEnds
  BY <1>0, <1>3 DEF ConnectFails, Hears, ListenEnds, headset
<1>4. CASE DrainPrints \/ SkipsAck \/ SendDrops
  BY <1>0, <1>4 DEF DrainPrints, SkipsAck, SendDrops, process, headset
<1>5. CASE DrainEnds \/ Writes \/ SendAcked \/ Fails
  BY <1>0, <1>5 DEF DrainEnds, Writes, SendAcked, Fails
<1>6. CASE Replied \/ Silence
  <2>1. phase' \in {"draining", "ended"} /\ phase \in {"sending", "receiving"}
    BY <1>6 DEF Replied, Silence, Advance
  <2> QED
    BY <1>0, <2>1
<1>7. CASE Takes
  BY <1>0, <1>7 DEF Takes, process
<1>8. CASE Replies
  BY <1>0, <1>8 DEF Replies, process
<1>9. CASE Pushed \/ Damaged \/ HolderChanges
  BY <1>0, <1>9 DEF Pushed, Damaged, HolderChanges, process, headset
<1> QED
  BY <1>1, <1>2, <1>3, <1>4, <1>5, <1>6, <1>7, <1>8, <1>9 DEF Next, ProbeStep, Environment

(* The lines are printed one after the other, by these three. *)
LEMMA PrintsForms ==
    ASSUME TypeOK, Next
    PROVE  \/ Replied \/ Silence \/ Fails
           \/ printed' = printed
<1>1. CASE \E result \in {"parsed", "refused", "panicked"} : Start(result)
  BY <1>1 DEF Start
<1>2. CASE Connect \/ ConnectFails \/ Hears \/ ListenEnds \/ DrainEnds \/ Writes \/ SendAcked
  BY <1>2 DEF Connect, ConnectFails, Hears, ListenEnds, DrainEnds, Writes, SendAcked
<1>3. CASE DrainPrints \/ SkipsAck \/ SendDrops \/ Environment
  <2>1. UNCHANGED process
    BY <1>3 DEF DrainPrints, SkipsAck, SendDrops, Environment, Takes, Replies, Pushed, Damaged,
       HolderChanges
  <2> QED
    BY <2>1 DEF process
<1> QED
  BY <1>1, <1>2, <1>3 DEF Next, ProbeStep

(* How the sweep proceeds when no line is printed. *)
LEMMA SweepForms ==
    ASSUME TypeOK, Next, printed' = printed, ~Replied, ~Silence, ~Fails
    PROVE  \/ UNCHANGED <<phase, at>>
           \/ Connect
           \/ at' = at /\ phase' = "ended"
           \/ at' = at /\ phase = "starting" /\ phase' = "opening"
           \/ at' = at /\ phase = "draining" /\ phase' = "writing"
           \/ at' = at /\ phase = "writing" /\ phase' = "sending"
           \/ at' = at /\ phase = "sending" /\ phase' = "receiving"
<1> USE DEF Sweeping
<1>1. CASE \E result \in {"parsed", "refused", "panicked"} : Start(result)
  BY <1>1 DEF Start
<1>2. CASE ConnectFails \/ Hears \/ ListenEnds \/ DrainEnds \/ Writes \/ SendAcked
  BY <1>2 DEF ConnectFails, Hears, ListenEnds, DrainEnds, Writes, SendAcked
<1>3. CASE DrainPrints \/ SkipsAck \/ SendDrops \/ Environment
  <2>1. UNCHANGED process
    BY <1>3 DEF DrainPrints, SkipsAck, SendDrops, Environment, Takes, Replies, Pushed, Damaged,
       HolderChanges
  <2> QED
    BY <2>1 DEF process
<1> QED
  BY <1>1, <1>2, <1>3 DEF Next, ProbeStep

(* What Replied and Silence do: a line that is no error, and the next.     *)
Answered(line) ==
    /\ phase \in {"sending", "receiving"}
    /\ printed' = [printed EXCEPT ![at] = line]
    /\ at' = at + 1
    /\ phase' \in {"draining", "ended"}
    /\ UNCHANGED <<outbox, owed>>
    /\ Shrunk

LEMMA AnsweredForms ==
    ASSUME TypeOK, Replied \/ Silence
    PROVE  \/ Answered(NoReply)
           \/ Answered(Head(inbox)) /\ Head(inbox) \in DataFrames /\ inbox # <<>>
              /\ inbox' = Tail(inbox)
<1>1. phase' \in {"draining", "ended"} /\ at' = at + 1
  BY DEF Replied, Silence, Advance
<1>2. CASE Silence
  BY <1>1, <1>2, ReadsForms DEF Silence, Prints, Answered, headset
<1>3. CASE Replied
  BY <1>1, <1>3, ReadsForms DEF Replied, Prints, Answered, headset, Next_is, Reads
<1> QED
  BY <1>2, <1>3

LEMMA NotYetPrintedStep ==
    ASSUME TypeOK, AtItsJob, NotYetPrinted, Next
    PROVE  NotYetPrinted'
<1> USE DEF NotYetPrinted, Sweeping
<1>0. at \in 0 .. N + 1 /\ N \in Nat /\ printed \in [1 .. N -> DataFrames \cup {NoLine, NoReply, Error}]
  BY Bounds DEF TypeOK
<1>1. CASE Replied \/ Silence
  <2>1. PICK line : Answered(line)
    BY <1>1, AnsweredForms
  <2>2. phase \in {"sending", "receiving"} /\ phase' \in {"draining", "ended"} /\ at' = at + 1
        /\ printed' = [printed EXCEPT ![at] = line]
    BY <2>1 DEF Answered
  <2> QED
    BY <1>0, <2>2
<1>2. CASE Fails
  <2>1. /\ phase \in {"writing", "sending", "receiving"} /\ phase' = "reopening" /\ at' = at
        /\ printed' = [printed EXCEPT ![at] = Error]
    BY <1>2 DEF Fails, Prints
  <2> QED
    BY <1>0, <2>1
<1>3. CASE Connect
  <2>1. printed' = printed /\ phase \in {"opening", "reopening"}
    BY <1>3 DEF Connect
  <2>2. CASE job = "probe"
    <3>1. at' = at + 1 /\ phase' \in {"draining", "ended"}
      BY <1>3, <2>2 DEF Connect, Advance
    <3> QED
      BY <1>0, <2>1, <3>1
  <2>3. CASE job # "probe"
    <3>1. phase = "opening" /\ phase' = "listening"
      BY <1>3, <2>3 DEF Connect, AtItsJob, TypeOK
    <3> QED
      BY <2>1, <3>1
  <2> QED
    BY <2>2, <2>3
<1>4. CASE printed' = printed /\ ~Replied /\ ~Silence /\ ~Fails /\ ~Connect
  <2>1. \/ UNCHANGED <<phase, at>>
        \/ at' = at /\ phase' = "ended"
        \/ at' = at /\ phase = "starting" /\ phase' = "opening"
        \/ at' = at /\ phase \in Sweeping /\ phase' \in Sweeping
    BY <1>4, SweepForms
  <2> QED
    BY <1>4, <2>1
<1> QED
  BY <1>1, <1>2, <1>3, <1>4, PrintsForms

----------------------------------------------------------------------------
(* The answers that may still come *)

LEMMA TailOnce ==
    ASSUME NEW S, NEW s \in Seq(S), s # <<>>, \A k, l \in DOMAIN s : s[k] = s[l] => k = l
    PROVE  /\ \A k, l \in DOMAIN Tail(s) : Tail(s)[k] = Tail(s)[l] => k = l
           /\ \A k \in DOMAIN Tail(s) : Tail(s)[k] # Head(s)
OBVIOUS

LEMMA AppendOnce ==
    ASSUME NEW S, NEW s \in Seq(S), NEW e \in S, \A k, l \in DOMAIN s : s[k] = s[l] => k = l,
           \A k \in DOMAIN s : s[k] # e
    PROVE  \A k, l \in DOMAIN Append(s, e) : Append(s, e)[k] = Append(s, e)[l] => k = l
BY AppendForms

LEMMA ShrunkForms ==
    ASSUME TypeOK, PendingOnce, Shrunk
    PROVE  /\ \A i \in 1 .. N : InInbox(i)' => InInbox(i)
           /\ \A k, l \in DOMAIN inbox' : inbox'[k] = inbox'[l] /\ inbox'[k] \in Answers => k = l
           /\ inbox' # inbox => \A k \in DOMAIN inbox' :
                                   Head(inbox) \in Answers => inbox'[k] # Head(inbox)
<1>1. CASE inbox' = inbox
  BY <1>1 DEF PendingOnce, InInbox
<1>2. CASE inbox # <<>> /\ inbox' = Tail(inbox)
  <2>1. /\ Head(inbox) = inbox[1] /\ 1 \in DOMAIN inbox
        /\ \A k \in DOMAIN inbox' : k + 1 \in DOMAIN inbox /\ inbox'[k] = inbox[k + 1]
        /\ \A k \in DOMAIN inbox' : k \in Nat /\ k # 0
    BY <1>2 DEF TypeOK
  <2> QED
    BY <2>1 DEF PendingOnce, InInbox
<1> QED
  BY <1>1, <1>2 DEF Shrunk

(* A frame that is no answer, at the end of the buffer. *)
LEMMA UnaskedForms ==
    ASSUME TypeOK, PendingOnce, NEW f \in Messages \ Answers, inbox' = Append(inbox, f)
    PROVE  /\ \A i \in 1 .. N : InInbox(i)' => InInbox(i)
           /\ \A k, l \in DOMAIN inbox' : inbox'[k] = inbox'[l] /\ inbox'[k] \in Answers => k = l
<1>1. inbox \in Seq(Messages)
  BY DEF TypeOK, Messages
<1>2. /\ DOMAIN inbox' = DOMAIN inbox \cup {Len(inbox) + 1}
      /\ \A k \in DOMAIN inbox : inbox'[k] = inbox[k]
      /\ inbox'[Len(inbox) + 1] = f
  BY <1>1, AppendForms
<1>3. \A i \in 1 .. N : Frame("answer", i) # f
  BY FrameKinds
<1> QED
  BY <1>2, <1>3 DEF PendingOnce, InInbox

LEMMA TakesForms ==
    ASSUME TypeOK, PendingOnce, Takes
    PROVE  /\ PendingOnce'
           /\ \A i \in 1 .. N : Pending(i)' => Pending(i)
<1>1. outbox \in Seq(1 .. N) /\ owed \in Seq(1 .. N) /\ outbox # <<>> /\ outbox' = Tail(outbox)
  BY DEF TypeOK, Takes
<1>2. PICK h \in 1 .. N : h = Head(outbox)
  BY <1>1, TailForms
<1>3. /\ InOutbox(h)
      /\ \A i \in 1 .. N : InOutbox(i)' => InOutbox(i)
      /\ \A k \in DOMAIN outbox' : outbox'[k] # h
      /\ \A k, l \in DOMAIN outbox' : outbox'[k] = outbox'[l] => k = l
  <2>1. \A k, l \in DOMAIN outbox : outbox[k] = outbox[l] => k = l
    BY DEF PendingOnce
  <2>2. /\ h = outbox[1] /\ 1 \in DOMAIN outbox
        /\ \A k \in DOMAIN outbox' : k + 1 \in DOMAIN outbox /\ outbox'[k] = outbox[k + 1]
    BY <1>1, <1>2, TailForms
  <2>3. /\ \A k \in DOMAIN outbox' : outbox'[k] # h
        /\ \A k, l \in DOMAIN outbox' : outbox'[k] = outbox'[l] => k = l
    BY <1>1, <1>2, <2>1, TailOnce
  <2> QED
    BY <2>2, <2>3 DEF InOutbox
<1>4. CASE UNCHANGED <<inbox, owed>>
  BY <1>3, <1>4 DEF PendingOnce, Pending, InInbox, InOwed, InOutbox
<1>5. CASE inbox' = Append(inbox, Ack) /\ owed' = Append(owed, h)
  <2>1. Ack \in Messages \ Answers
    BY FrameKinds DEF Messages
  <2>2. /\ \A i \in 1 .. N : InInbox(i)' => InInbox(i)
        /\ \A k, l \in DOMAIN inbox' : inbox'[k] = inbox'[l] /\ inbox'[k] \in Answers' => k = l
    BY <1>5, <2>1, UnaskedForms DEF Answers
  <2>3. ~InOwed(h) /\ ~InInbox(h)
    BY <1>3 DEF PendingOnce
  <2>4. \A k, l \in DOMAIN owed' : owed'[k] = owed'[l] => k = l
    BY <1>1, <1>3, <1>5, <2>3, AppendOnce DEF InOwed, PendingOnce
  <2>5. \A i \in 1 .. N : InOwed(i)' => InOwed(i) \/ i = h
    BY <1>1, <1>3, <1>5, AppendForms DEF InOwed
  <2>6. ~InOutbox(h)'
    BY <1>3 DEF InOutbox
  <2>7. \A i \in 1 .. N : /\ InInbox(i)' => ~InOwed(i)' /\ ~InOutbox(i)'
                          /\ InOwed(i)' => ~InOutbox(i)'
    BY <1>3, <2>2, <2>3, <2>5, <2>6 DEF PendingOnce
  <2> QED
    BY <1>3, <2>2, <2>4, <2>5, <2>7 DEF PendingOnce, Pending
<1> QED
  BY <1>2, <1>4, <1>5 DEF Takes

LEMMA RepliesForms ==
    ASSUME TypeOK, PendingOnce, Replies
    PROVE  /\ PendingOnce'
           /\ \A i \in 1 .. N : Pending(i)' => Pending(i)
<1>1. owed \in Seq(1 .. N) /\ owed # <<>> /\ owed' = Tail(owed) /\ outbox' = outbox
  BY DEF TypeOK, Replies
<1>2. PICK h \in 1 .. N : h = Head(owed)
  BY <1>1, TailForms
<1>3. /\ InOwed(h)
      /\ \A i \in 1 .. N : InOwed(i)' => InOwed(i)
      /\ \A k \in DOMAIN owed' : owed'[k] # h
      /\ \A k, l \in DOMAIN owed' : owed'[k] = owed'[l] => k = l
  <2>1. \A k, l \in DOMAIN owed : owed[k] = owed[l] => k = l
    BY DEF PendingOnce
  <2>2. /\ h = owed[1] /\ 1 \in DOMAIN owed
        /\ \A k \in DOMAIN owed' : k + 1 \in DOMAIN owed /\ owed'[k] = owed[k + 1]
    BY <1>1, <1>2, TailForms
  <2>3. /\ \A k \in DOMAIN owed' : owed'[k] # h
        /\ \A k, l \in DOMAIN owed' : owed'[k] = owed'[l] => k = l
    BY <1>1, <1>2, <2>1, TailOnce
  <2> QED
    BY <2>2, <2>3 DEF InOwed
<1>4. CASE UNCHANGED inbox
  <2>1. Answers' = Answers
    BY DEF Answers
  <2> QED
    BY <1>1, <1>3, <1>4, <2>1 DEF PendingOnce, Pending, InInbox, InOwed, InOutbox
<1>5. CASE inbox' = Append(inbox, Frame("answer", h))
  <2>1. inbox \in Seq(Messages) /\ Frame("answer", h) \in Messages
    BY <1>3, FrameKinds DEF TypeOK, Messages, DataFrames
  <2>2. /\ DOMAIN inbox' = DOMAIN inbox \cup {Len(inbox) + 1}
        /\ \A k \in DOMAIN inbox : inbox'[k] = inbox[k]
        /\ inbox'[Len(inbox) + 1] = Frame("answer", h)
    BY <1>5, <2>1, AppendForms
  <2>3. ~InInbox(h) /\ ~InOutbox(h)
    BY <1>3 DEF PendingOnce
  <2>4. \A i \in 1 .. N : InInbox(i)' => InInbox(i) \/ i = h
    BY <1>3, <2>2, FrameKinds DEF InInbox
  <2>5. \A k, l \in DOMAIN inbox' : inbox'[k] = inbox'[l] /\ inbox'[k] \in Answers' => k = l
    BY <2>2, <2>3 DEF InInbox, PendingOnce, Answers
  <2>6. ~InOwed(h)'
    BY <1>3 DEF InOwed
  <2>7. \A i \in 1 .. N : InOutbox(i)' <=> InOutbox(i)
    BY <1>1 DEF InOutbox
  <2>8. \A i \in 1 .. N : /\ InInbox(i)' => ~InOwed(i)' /\ ~InOutbox(i)'
                          /\ InOwed(i)' => ~InOutbox(i)'
    BY <1>3, <2>3, <2>4, <2>6, <2>7 DEF PendingOnce
  <2>9. \A k, l \in DOMAIN outbox' : outbox'[k] = outbox'[l] => k = l
    BY <1>1 DEF PendingOnce
  <2> QED
    BY <1>3, <2>4, <2>5, <2>7, <2>8, <2>9 DEF PendingOnce, Pending
<1> QED
  BY <1>2, <1>4, <1>5 DEF Replies, Says

(* A payload is pending from when it is written, once. *)
LEMMA PendingForms ==
    ASSUME TypeOK, PendingOnce, PendingUpToNow, Next
    PROVE  /\ PendingOnce'
           /\ \A i \in 1 .. N : Pending(i)' => Pending(i) \/ (Writes /\ i = at)
<1>0. Answers' = Answers
  BY JobStays
<1>1. CASE Shrunk /\ UNCHANGED <<outbox, owed>>
  BY <1>0, <1>1, ShrunkForms DEF PendingOnce, Pending, InOwed, InOutbox
<1>2. CASE Connect
  <2>1. inbox' = <<>> /\ outbox' = <<>> /\ owed' = <<>>
    BY <1>2 DEF Connect
  <2> QED
    BY <2>1 DEF PendingOnce, Pending, InInbox, InOwed, InOutbox
<1>3. CASE Writes
  <2>1. /\ at \in 1 .. N /\ outbox \in Seq(1 .. N) /\ outbox' = Append(outbox, at)
        /\ UNCHANGED <<inbox, owed>> /\ phase = "writing"
    BY <1>3 DEF Writes, TypeOK, headset
  <2>2. ~Pending(at)
    BY <2>1 DEF PendingUpToNow, TypeOK
  <2>3. \A k, l \in DOMAIN outbox' : outbox'[k] = outbox'[l] => k = l
    BY <2>1, <2>2, AppendOnce DEF Pending, InOutbox, PendingOnce
  <2>4. \A i \in 1 .. N : InOutbox(i)' => InOutbox(i) \/ i = at
    BY <2>1, AppendForms DEF InOutbox
  <2>5. \A i \in 1 .. N : (InInbox(i)' <=> InInbox(i)) /\ (InOwed(i)' <=> InOwed(i))
    BY <2>1 DEF InInbox, InOwed
  <2>6. \A i \in 1 .. N : /\ InInbox(i)' => ~InOwed(i)' /\ ~InOutbox(i)'
                          /\ InOwed(i)' => ~InOutbox(i)'
    BY <2>2, <2>4, <2>5 DEF PendingOnce, Pending
  <2>7. /\ \A k, l \in DOMAIN inbox' : inbox'[k] = inbox'[l] /\ inbox'[k] \in Answers' => k = l
        /\ \A k, l \in DOMAIN owed' : owed'[k] = owed'[l] => k = l
    BY <1>0, <2>1 DEF PendingOnce
  <2> QED
    BY <1>3, <2>3, <2>4, <2>5, <2>6, <2>7 DEF PendingOnce, Pending
<1>4. CASE Pushed
  <2>1. pushes + 1 \in 1 .. MaxPushes[job]
    BY <1>4, Bounds DEF Pushed, TypeOK
  <2>2. Frame("push", pushes + 1) \in Messages \ Answers
    BY <2>1, FrameKinds DEF Pushes, DataFrames, Messages
  <2>3. inbox' = Append(inbox, Frame("push", pushes + 1)) /\ UNCHANGED <<outbox, owed>>
    BY <1>4 DEF Pushed, Says
  <2>4. /\ \A i \in 1 .. N : InInbox(i)' => InInbox(i)
        /\ \A k, l \in DOMAIN inbox' : inbox'[k] = inbox'[l] /\ inbox'[k] \in Answers => k = l
    BY <2>2, <2>3, UnaskedForms
  <2> QED
    BY <1>0, <2>3, <2>4 DEF PendingOnce, Pending, InOwed, InOutbox
<1>5. CASE Damaged
  <2>1. PICK k \in DOMAIN inbox, f \in Refused : inbox' = [inbox EXCEPT ![k] = f]
    BY <1>5 DEF Damaged
  <2>2. f \notin Answers /\ UNCHANGED <<outbox, owed>>
    BY <1>5, FrameKinds DEF Damaged
  <2>3. DOMAIN inbox' = DOMAIN inbox /\ \A l \in DOMAIN inbox :
           inbox'[l] = IF l = k THEN f ELSE inbox[l]
    BY <2>1 DEF TypeOK
  <2>4. \A i \in 1 .. N : Frame("answer", i) # f
    BY FrameKinds
  <2>5. \A i \in 1 .. N : InInbox(i)' => InInbox(i)
    BY <2>3, <2>4 DEF InInbox
  <2>6. \A l, m \in DOMAIN inbox' : inbox'[l] = inbox'[m] /\ inbox'[l] \in Answers' => l = m
    BY <1>0, <2>2, <2>3 DEF PendingOnce
  <2> QED
    BY <2>2, <2>5, <2>6 DEF PendingOnce, Pending, InOwed, InOutbox
<1>6. CASE HolderChanges
  BY <1>0, <1>6 DEF HolderChanges, headset, PendingOnce, Pending, InInbox, InOwed, InOutbox
<1>7. CASE Takes \/ Replies
  BY <1>7, TakesForms, RepliesForms
<1> QED
  BY <1>1, <1>2, <1>3, <1>4, <1>5, <1>6, <1>7, ProbeForms DEF Next, Environment, headset

LEMMA PendingUpToNowStep ==
    ASSUME TypeOK, PendingOnce, PendingUpToNow, Next
    PROVE  PendingUpToNow'
<1> USE DEF PendingUpToNow
<1>0. at \in Nat /\ N \in Nat
  BY Bounds DEF TypeOK
<1> SUFFICES ASSUME NEW i \in 1 .. N, Pending(i)'
             PROVE  i <= at' /\ (phase' \in {"draining", "writing"} => i < at')
  OBVIOUS
<1>1. Pending(i) \/ (Writes /\ i = at)
  BY PendingForms
<1>2. CASE Writes
  BY <1>0, <1>1, <1>2 DEF Writes
<1>3. CASE Replied \/ Silence
  <2>1. at' = at + 1 /\ phase' \in {"draining", "ended"} /\ phase \in {"sending", "receiving"}
    BY <1>3, AnsweredForms DEF Answered
  <2>2. i <= at
    BY <1>1, <2>1 DEF Writes
  <2> QED
    BY <1>0, <2>1, <2>2
<1>4. CASE Fails
  <2>1. phase' = "reopening" /\ at' = at
    BY <1>4 DEF Fails
  <2> QED
    BY <1>0, <1>1, <2>1
<1>5. CASE Connect
  BY <1>5 DEF Connect, Pending, InInbox, InOwed, InOutbox
<1>6. CASE printed' = printed /\ ~Replied /\ ~Silence /\ ~Fails /\ ~Connect /\ ~Writes
  <2>1. \/ UNCHANGED <<phase, at>>
        \/ at' = at /\ phase' \notin {"draining", "writing"}
        \/ at' = at /\ phase = "draining" /\ phase' = "writing"
    BY <1>6, SweepForms
  <2> QED
    BY <1>0, <1>1, <1>6, <2>1
<1> QED
  BY <1>2, <1>3, <1>4, <1>5, <1>6, PrintsForms

----------------------------------------------------------------------------
(* Answers that are out of step *)

(* What is printed at the payload it is at leaves all before it.           *)
LEMMA BehindKept ==
    ASSUME TypeOK, Next, NEW line, line # Error, NEW j \in 1 .. N, j = at,
           printed' = [printed EXCEPT ![j] = line],
           NEW i \in 1 .. N, i < j, Behind(i, j - 1)
    PROVE  Behind(i, j)'
<1>1. PICK k \in 1 .. i : /\ printed[k] \in Pushes \cup {NoReply}
                          /\ \A l \in k .. j - 1 : printed[l] # Error
  BY DEF Behind
<1>2. j \in Nat /\ i \in Nat /\ N \in Nat
  BY Bounds
<1>3. printed'[j] = line /\ \A l \in 1 .. N : l # j => printed'[l] = printed[l]
  BY DEF TypeOK
<1>4. Pushes' = Pushes
  BY JobStays
<1>5. printed'[k] \in Pushes \cup {NoReply}
  BY <1>1, <1>2, <1>3
<1>6. \A l \in k .. j : printed'[l] # Error
  BY <1>1, <1>2, <1>3
<1> QED
  BY <1>4, <1>5, <1>6 DEF Behind

(* A line that shows no answer, or that of a payload before, is a reason   *)
(* for the answers that have not come by then to be late.                  *)
LEMMA LineIsCause ==
    ASSUME TypeOK, PendingOnce, PendingUpToNow, LateForCause, Next,
           NEW line, NEW j \in 1 .. N, j = at, Answered(line),
           \/ line = NoReply
           \/ line = Head(inbox) /\ line \in DataFrames /\ inbox # <<>> /\ inbox' = Tail(inbox)
    PROVE  /\ \A i \in 1 .. N : Pending(i)' => Behind(i, j)'
           /\ \A i \in 1 .. N : line = Frame("answer", i) /\ i # j => i < j /\ Behind(i, j)'
<1>1. /\ phase \in Sweeping /\ ~Writes
      /\ printed' = [printed EXCEPT ![j] = line] /\ Shrunk
  BY DEF Answered, Sweeping, Writes
<1>2. line # Error
  BY FrameKinds DEF DataFrames
<1>3. j \in Nat /\ N \in Nat
  BY Bounds
<1>4. ASSUME NEW i \in 1 .. N, i < j, Pending(i)
      PROVE  Behind(i, j)'
  BY <1>1, <1>2, <1>4, BehindKept DEF LateForCause
<1>5. ASSUME NEW i \in 1 .. N, line = Frame("answer", i)
      PROVE  Pending(i) /\ ~Pending(i)' /\ i <= j
  <2>1. line = Head(inbox) /\ inbox # <<>> /\ inbox' = Tail(inbox)
    BY <1>5, FrameKinds
  <2>2. Head(inbox) = inbox[1] /\ 1 \in DOMAIN inbox
    BY <2>1 DEF TypeOK
  <2>3. InInbox(i)
    BY <1>5, <2>1, <2>2 DEF InInbox
  <2>4. ~InInbox(i)'
    <3>1. line \in Answers
      BY <1>5, FrameKinds
    <3>2. \A k \in DOMAIN inbox' : k + 1 \in DOMAIN inbox /\ inbox'[k] = inbox[k + 1] /\ k + 1 # 1
      BY <2>1 DEF TypeOK
    <3> QED
      BY <1>5, <2>1, <2>2, <3>1, <3>2 DEF InInbox, PendingOnce
  <2>5. ~InOwed(i)' /\ ~InOutbox(i)'
    BY <2>3 DEF PendingOnce, InOwed, InOutbox, Answered
  <2> QED
    BY <2>3, <2>4, <2>5 DEF Pending, PendingUpToNow
<1>6. ASSUME NEW i \in 1 .. N, Pending(i)'
      PROVE  Behind(i, j)'
  <2>1. Pending(i) /\ i <= j
    BY <1>1, <1>6, PendingForms DEF PendingUpToNow
  <2>2. CASE i < j
    BY <1>4, <2>1, <2>2
  <2>3. CASE i = j /\ line \in Pushes \cup {NoReply}
    <3>1. printed'[j] = line /\ Pushes' = Pushes
      BY <1>1, JobStays DEF TypeOK
    <3>2. printed'[j] # Error /\ \A l \in j .. j : l = j
      BY <1>2, <1>3, <3>1
    <3> QED
      BY <1>3, <2>3, <3>1, <3>2 DEF Behind
  <2>4. CASE i = j /\ line \in Answers
    <3>1. PICK m \in 1 .. N : line = Frame("answer", m)
      BY <2>4 DEF Answers
    <3>2. m < j /\ Pending(m)
      <4>1. m # i
        BY <1>5, <1>6, <3>1
      <4> QED
        BY <1>3, <1>5, <2>4, <3>1, <4>1
    <3>3. Behind(m, j)'
      BY <1>4, <3>2
    <3> QED
      BY <1>3, <2>4, <3>2, <3>3 DEF Behind
  <2> QED
    BY <1>3, <2>1, <2>2, <2>3, <2>4 DEF DataFrames
<1>7. ASSUME NEW i \in 1 .. N, line = Frame("answer", i), i # j
      PROVE  i < j /\ Behind(i, j)'
  BY <1>3, <1>4, <1>5, <1>7
<1> QED
  BY <1>6, <1>7

LEMMA LateForCauseStep ==
    ASSUME TypeOK, AtItsJob, PendingOnce, PendingUpToNow, LateForCause, Next
    PROVE  LateForCause'
<1> SUFFICES ASSUME phase' \in Sweeping, NEW i \in 1 .. N, Pending(i)', i < at'
             PROVE  Behind(i, at - 1)'
  BY DEF LateForCause
<1>0. at \in Nat /\ N \in Nat
  BY Bounds DEF TypeOK
<1>1. CASE Replied \/ Silence
  <2>1. PICK j \in 1 .. N : j = at
    BY <1>1 DEF Replied, Silence, TypeOK
  <2>2. PICK line : /\ Answered(line)
                    /\ \/ line = NoReply
                       \/ /\ line = Head(inbox) /\ line \in DataFrames
                          /\ inbox # <<>> /\ inbox' = Tail(inbox)
    BY <1>1, AnsweredForms
  <2>3. Behind(i, j)'
    BY <2>1, <2>2, LineIsCause
  <2>4. at' - 1 = j
    BY <1>0, <2>1, <2>2 DEF Answered
  <2> QED
    BY <2>3, <2>4
<1>2. CASE Fails
  BY <1>2 DEF Fails, Sweeping
<1>3. CASE Connect
  BY <1>3 DEF Connect, Pending, InInbox, InOwed, InOutbox
<1>4. CASE printed' = printed /\ ~Replied /\ ~Silence /\ ~Fails /\ ~Connect
  <2>1. at' = at /\ phase \in Sweeping
    BY <1>4, SweepForms DEF Sweeping
  <2>2. Pending(i)
    BY <1>0, <2>1, PendingForms
  <2>3. Behind(i, at - 1)
    BY <2>1, <2>2 DEF LateForCause
  <2>4. Pushes' = Pushes
    BY JobStays
  <2> QED
    BY <1>4, <2>1, <2>3, <2>4 DEF Behind
<1> QED
  BY <1>1, <1>2, <1>3, <1>4, PrintsForms

LEMMA OutOfStepStep ==
    ASSUME TypeOK, PendingOnce, PendingUpToNow, NotYetPrinted, LateForCause,
           OutOfStepOnlyAfterSilence, Next
    PROVE  OutOfStepOnlyAfterSilence'
<1>0. Pushes' = Pushes /\ at \in 0 .. N + 1 /\ N \in Nat
  BY JobStays, Bounds DEF TypeOK
<1>1. CASE printed' = printed
  BY <1>0, <1>1 DEF OutOfStepOnlyAfterSilence, AnswersFor
<1>2. CASE Replied \/ Silence \/ Fails
  <2>1. PICK m \in 1 .. N : m = at
    BY <1>2 DEF Replied, Silence, Fails, TypeOK
  <2>2. PICK line : printed' = [printed EXCEPT ![m] = line]
    BY <1>2, <2>1 DEF Replied, Silence, Fails, Prints
  <2>3. printed'[m] = line /\ \A l \in 1 .. N : l # m => printed'[l] = printed[l]
    BY <2>2 DEF TypeOK
  <2>4. \A l \in m .. N : printed[l] = NoLine
    BY <1>2, <2>1 DEF NotYetPrinted, Sweeping, Replied, Silence, Fails
  <2> SUFFICES ASSUME NEW i \in 1 .. N, NEW j \in 1 .. N, AnswersFor(i, j)', i # j
               PROVE  /\ i < j
                      /\ \E k \in 1 .. i : printed'[k] \in Pushes \cup {NoReply}
                                           /\ \A l \in k .. j : printed'[l] # Error
    BY <1>0 DEF OutOfStepOnlyAfterSilence
  <2>5. CASE j # m
    <3>1. printed[j] = Frame("answer", i)
      BY <2>3, <2>5 DEF AnswersFor
    <3>2. j < m
      BY <1>0, <2>4, <2>5, <3>1, FrameKinds
    <3>3. i < j /\ \E k \in 1 .. i : printed[k] \in Pushes \cup {NoReply}
                                     /\ \A l \in k .. j : printed[l] # Error
      BY <3>1 DEF OutOfStepOnlyAfterSilence, AnswersFor
    <3> QED
      BY <1>0, <2>3, <3>2, <3>3
  <2>6. CASE j = m
    <3>1. printed'[m] = Frame("answer", i)
      BY <2>6 DEF AnswersFor
    <3>2. CASE Fails
      <4>1. printed' = [printed EXCEPT ![m] = Error]
        BY <2>1, <3>2 DEF Fails, Prints
      <4> QED
        BY <3>1, <4>1, FrameKinds DEF TypeOK
    <3>3. CASE Replied \/ Silence
      <4>1. PICK x : /\ Answered(x)
                     /\ \/ x = NoReply
                        \/ /\ x = Head(inbox) /\ x \in DataFrames
                           /\ inbox # <<>> /\ inbox' = Tail(inbox)
        BY <3>3, AnsweredForms
      <4>2. x = Frame("answer", i)
        BY <2>1, <3>1, <4>1 DEF Answered, TypeOK
      <4>3. i < m /\ Behind(i, m)'
        BY <2>1, <2>6, <4>1, <4>2, LineIsCause
      <4> QED
        BY <1>0, <2>6, <4>3 DEF Behind
    <3> QED
      BY <1>2, <3>2, <3>3
  <2> QED
    BY <2>5, <2>6
<1> QED
  BY <1>1, <1>2, PrintsForms

----------------------------------------------------------------------------
(* What a capture hears *)

(* The steps that a capture takes while it listens on its link. *)
LEMMA ListenForms ==
    ASSUME TypeOK, AtItsJob, Next, phase = "listening", phase' = "listening",
           holder = "probe", holder' = "probe"
    PROVE  \/ Next_is({Ack}) /\ Reads /\ UNCHANGED <<heard, pushes, said>>
           \/ Hears \/ Pushed \/ Damaged
<1>1. job = "listen" /\ outbox = <<>> /\ owed = <<>>
  BY DEF AtItsJob
<1>2. ~Takes /\ ~Replies
  BY <1>1 DEF Takes, Replies
<1>3. ~HolderChanges
  BY DEF HolderChanges
<1>4. CASE ProbeStep
  BY <1>4 DEF ProbeStep, Start, Connect, ConnectFails, DrainPrints, DrainEnds, SkipsAck, Writes,
     SendAcked, SendDrops, Replied, Silence, Fails, ListenEnds, process, headset
<1> QED
  BY <1>2, <1>3, <1>4 DEF Next, Environment

LEMMA HeardSoFarStep ==
    ASSUME TypeOK, AtItsJob, HeardSoFar, Next
    PROVE  HeardSoFar'
<1>0. DataFrames' = DataFrames /\ job' = job
  BY JobStays
<1>1. ASSUME phase' \in {"starting", "opening"}
      PROVE  heard' = <<>>
  <2>1. phase \in {"starting", "opening"} /\ heard' = heard
    <3>1. CASE \E result \in {"parsed", "refused", "panicked"} : Start(result)
      BY <3>1 DEF Start
    <3>2. CASE \/ Connect \/ ConnectFails \/ Hears \/ ListenEnds \/ DrainEnds \/ Writes
               \/ SendAcked \/ Replied \/ Silence \/ Fails
      BY <1>1, <3>2 DEF Connect, Advance, ConnectFails, Hears, ListenEnds, DrainEnds, Writes,
         SendAcked, Replied, Silence, Fails
    <3>3. CASE DrainPrints \/ SkipsAck \/ SendDrops \/ Environment
      <4>1. UNCHANGED process
        BY <3>3 DEF DrainPrints, SkipsAck, SendDrops, Environment, Takes, Replies, Pushed,
           Damaged, HolderChanges
      <4> QED
        BY <1>1, <4>1 DEF process
    <3> QED
      BY <3>1, <3>2, <3>3 DEF Next, ProbeStep
  <2> QED
    BY <2>1 DEF HeardSoFar
<1> DEFINE Parts ==
        /\ said' = {heard'[k] : k \in DOMAIN heard'}
                     \cup ({inbox'[k] : k \in DOMAIN inbox'} \cap DataFrames)
        /\ \A f \in said' : f.n <= pushes'
        /\ \A k, l \in DOMAIN heard' : k < l => heard'[k].n < heard'[l].n
        /\ \A k, l \in DOMAIN inbox' :
              k < l /\ inbox'[k] \in DataFrames /\ inbox'[l] \in DataFrames
                  => inbox'[k].n < inbox'[l].n
        /\ \A k \in DOMAIN heard', l \in DOMAIN inbox' :
              inbox'[l] \in DataFrames => heard'[k].n < inbox'[l].n
<1> SUFFICES ASSUME phase' = "listening", holder' = "probe"
             PROVE  Parts
  BY <1>0, <1>1 DEF HeardSoFar, Linked
<1>2. CASE Connect
  <2>1. phase = "opening" /\ heard' = heard /\ inbox' = <<>> /\ said' = {}
    <3>1. job # "probe"
      BY <1>2 DEF Connect, Advance
    <3> QED
      BY <1>2, <3>1 DEF Connect, AtItsJob, TypeOK
  <2>2. heard' = <<>>
    BY <2>1 DEF HeardSoFar
  <2> QED
    BY <2>1, <2>2
<1>3. CASE ~Connect
  <2>1. phase = "listening"
    <3>1. CASE printed' = printed /\ ~Replied /\ ~Silence /\ ~Fails
      BY <1>3, <3>1, SweepForms
    <3>2. CASE Replied \/ Silence \/ Fails
      BY <3>2 DEF Replied, Silence, Fails, Advance
    <3> QED
      BY <3>1, <3>2, PrintsForms
  <2>2. holder = "probe"
    <3>1. CASE ProbeStep
      BY <1>3, <3>1 DEF ProbeStep, Start, ConnectFails, DrainPrints, DrainEnds, SkipsAck, Writes,
         SendAcked, SendDrops, Replied, Silence, Fails, Hears, ListenEnds
    <3>2. CASE Environment
      BY <3>2 DEF Environment, Takes, Replies, Pushed, Damaged, HolderChanges
    <3> QED
      BY <3>1, <3>2 DEF Next
  <2>3. /\ said = {heard[k] : k \in DOMAIN heard}
                    \cup ({inbox[k] : k \in DOMAIN inbox} \cap DataFrames)
        /\ \A f \in said : f.n <= pushes
        /\ \A k, l \in DOMAIN heard : k < l => heard[k].n < heard[l].n
        /\ \A k, l \in DOMAIN inbox :
              k < l /\ inbox[k] \in DataFrames /\ inbox[l] \in DataFrames
                  => inbox[k].n < inbox[l].n
        /\ \A k \in DOMAIN heard, l \in DOMAIN inbox :
              inbox[l] \in DataFrames => heard[k].n < inbox[l].n
    BY <2>1, <2>2 DEF HeardSoFar, Linked
  <2>4. inbox \in Seq(Messages) /\ heard \in Seq(DataFrames) /\ pushes \in Nat
    BY DEF TypeOK, Messages
  <2>5. CASE Next_is({Ack}) /\ Reads /\ UNCHANGED <<heard, pushes, said>>
    <3>1. inbox # <<>> /\ inbox[1] = Ack /\ inbox' = Tail(inbox) /\ 1 \in DOMAIN inbox
      BY <2>4, <2>5, TailForms DEF Next_is, Reads
    <3>2. /\ \A k \in DOMAIN inbox' : k + 1 \in DOMAIN inbox /\ inbox'[k] = inbox[k + 1]
          /\ \A k \in DOMAIN inbox : k # 1 => k - 1 \in DOMAIN inbox' /\ inbox'[k - 1] = inbox[k]
          /\ DOMAIN inbox' \subseteq Nat /\ DOMAIN inbox \subseteq Nat
      BY <2>4, <3>1
    <3>3. Ack \notin DataFrames
      BY FrameKinds DEF DataFrames
    <3>4. {inbox'[k] : k \in DOMAIN inbox'} \cap DataFrames
             = {inbox[k] : k \in DOMAIN inbox} \cap DataFrames
      <4>1. ASSUME NEW k \in DOMAIN inbox', inbox'[k] \in DataFrames
            PROVE  \E l \in DOMAIN inbox : inbox[l] = inbox'[k]
        BY <3>2
      <4>2. ASSUME NEW k \in DOMAIN inbox, inbox[k] \in DataFrames
            PROVE  \E l \in DOMAIN inbox' : inbox'[l] = inbox[k]
        <5>1. k # 1
          BY <3>1, <3>3, <4>2
        <5> QED
          BY <3>2, <5>1
      <4> QED
        BY <4>1, <4>2
    <3> QED
      BY <2>3, <2>5, <3>2, <3>4
  <2>6. CASE Hears
    <3>1. /\ inbox # <<>> /\ Head(inbox) \in DataFrames /\ inbox' = Tail(inbox)
          /\ heard' = Append(heard, Head(inbox)) /\ UNCHANGED <<pushes, said>>
      BY <2>6 DEF Hears, Next_is, Reads, headset
    <3>2. inbox[1] = Head(inbox) /\ 1 \in DOMAIN inbox
      BY <2>4, <3>1
    <3>3. /\ \A k \in DOMAIN inbox' : k + 1 \in DOMAIN inbox /\ inbox'[k] = inbox[k + 1]
          /\ \A k \in DOMAIN inbox : k # 1 => k - 1 \in DOMAIN inbox' /\ inbox'[k - 1] = inbox[k]
          /\ DOMAIN inbox' \subseteq Nat \ {0} /\ DOMAIN inbox \subseteq Nat
      BY <2>4, <3>1
    <3>4. /\ DOMAIN heard' = DOMAIN heard \cup {Len(heard) + 1}
          /\ \A k \in DOMAIN heard : heard'[k] = heard[k] /\ k < Len(heard) + 1
          /\ heard'[Len(heard) + 1] = inbox[1]
          /\ DOMAIN heard' \subseteq Nat
      BY <2>4, <3>1, <3>2, AppendForms
    <3>5. said = {heard'[k] : k \in DOMAIN heard'}
                   \cup ({inbox'[k] : k \in DOMAIN inbox'} \cap DataFrames)
      <4>1. ASSUME NEW f \in said
            PROVE  f \in {heard'[k] : k \in DOMAIN heard'}
                           \cup ({inbox'[k] : k \in DOMAIN inbox'} \cap DataFrames)
        BY <2>3, <3>3, <3>4
      <4>2. ASSUME NEW k \in DOMAIN heard'
            PROVE  heard'[k] \in said
        BY <2>3, <3>1, <3>2, <3>4
      <4>3. ASSUME NEW k \in DOMAIN inbox', inbox'[k] \in DataFrames
            PROVE  inbox'[k] \in said
        BY <2>3, <3>3, <4>3
      <4> QED
        BY <4>1, <4>2, <4>3
    <3>6. \A k, l \in DOMAIN heard' : k < l => heard'[k].n < heard'[l].n
      BY <2>3, <3>1, <3>2, <3>4
    <3>7. \A k, l \in DOMAIN inbox' :
             k < l /\ inbox'[k] \in DataFrames /\ inbox'[l] \in DataFrames
                 => inbox'[k].n < inbox'[l].n
      BY <2>3, <3>3
    <3>8. \A k \in DOMAIN heard', l \in DOMAIN inbox' :
             inbox'[l] \in DataFrames => heard'[k].n < inbox'[l].n
      BY <2>3, <3>1, <3>2, <3>3, <3>4
    <3> QED
      BY <2>3, <3>1, <3>5, <3>6, <3>7, <3>8
  <2>7. CASE Pushed
    <3>1. PICK m : m = pushes + 1
      OBVIOUS
    <3>2. /\ inbox' = Append(inbox, Frame("push", m)) /\ said' = said \cup {Frame("push", m)}
          /\ pushes' = m /\ heard' = heard
      BY <2>7, <3>1 DEF Pushed, Says, process
    <3>3. Frame("push", m).n = m /\ Frame("push", m) \in DataFrames
      <4>1. m \in 1 .. MaxPushes[job]
        BY <2>7, <3>1, Bounds DEF Pushed, TypeOK
      <4> QED
        BY <4>1 DEF Frame, Pushes, DataFrames
    <3>4. /\ DOMAIN inbox' = DOMAIN inbox \cup {Len(inbox) + 1}
          /\ \A k \in DOMAIN inbox : inbox'[k] = inbox[k] /\ k < Len(inbox) + 1
          /\ inbox'[Len(inbox) + 1] = Frame("push", m)
          /\ DOMAIN inbox' \subseteq Nat
      BY <2>4, <3>2, <3>3, AppendForms DEF Messages
    <3>5. \A f \in DataFrames : f.n \in Nat
      BY Bounds DEF DataFrames, Answers, Pushes, Frame, TypeOK
    <3>6. \A f \in said : f.n < m
      BY <2>3, <2>4, <3>1, <3>5 DEF TypeOK
    <3>7. said' = {heard'[k] : k \in DOMAIN heard'}
                    \cup ({inbox'[k] : k \in DOMAIN inbox'} \cap DataFrames)
      BY <2>3, <3>2, <3>3, <3>4
    <3>8. \A f \in said' : f.n <= pushes'
      BY <2>4, <3>1, <3>2, <3>3, <3>5, <3>6 DEF TypeOK
    <3>9. \A k, l \in DOMAIN inbox' :
             k < l /\ inbox'[k] \in DataFrames /\ inbox'[l] \in DataFrames
                 => inbox'[k].n < inbox'[l].n
      BY <2>3, <3>3, <3>4, <3>6
    <3>10. \A k \in DOMAIN heard', l \in DOMAIN inbox' :
              inbox'[l] \in DataFrames => heard'[k].n < inbox'[l].n
      BY <2>3, <3>2, <3>3, <3>4, <3>6
    <3> QED
      BY <2>3, <3>2, <3>7, <3>8, <3>9, <3>10
  <2>8. CASE Damaged
    <3>1. PICK m \in DOMAIN inbox, f \in Refused :
             inbox' = [inbox EXCEPT ![m] = f] /\ said' = said \ {inbox[m]}
      BY <2>8 DEF Damaged
    <3>2. f \notin DataFrames /\ UNCHANGED <<pushes, heard>>
      BY <2>8, FrameKinds DEF Damaged, DataFrames, process
    <3>3. DOMAIN inbox' = DOMAIN inbox /\ DOMAIN inbox \subseteq Int
          /\ \A k \in DOMAIN inbox : inbox'[k] = IF k = m THEN f ELSE inbox[k]
      BY <2>4, <3>1
    <3>4. \A g \in DataFrames : g.n \in Int
      BY Bounds DEF DataFrames, Answers, Pushes, Frame, TypeOK
    <3>5. \A k \in DOMAIN inbox :
             k # m /\ inbox[k] \in DataFrames => inbox[k] # inbox[m]
      BY <2>3, <3>3, <3>4
    <3>6. \A k \in DOMAIN heard : heard[k] # inbox[m]
      BY <2>3, <2>4, <3>4
    <3>7. said' = {heard'[k] : k \in DOMAIN heard'}
                    \cup ({inbox'[k] : k \in DOMAIN inbox'} \cap DataFrames)
      BY <2>3, <3>1, <3>2, <3>3, <3>5, <3>6
    <3> QED
      BY <2>3, <3>1, <3>2, <3>3, <3>7
  <2> QED
    BY <2>1, <2>2, <2>5, <2>6, <2>7, <2>8, ListenForms
<1> QED
  BY <1>2, <1>3

----------------------------------------------------------------------------
(* The theorems *)

LEMMA Initial ==
    ASSUME Init
    PROVE  IInv
<1>1. N \in Nat /\ N >= 1 /\ MaxPushes \in [{"probe", "listen"} -> Nat]
  BY Bounds
<1>2. TypeOK
  <2>1. holder \in {"nobody", "daemon"} /\ job \in {"probe", "listen"} /\ phase = "starting"
    BY DEF Init
  <2>2. at = 0 /\ printed = [i \in 1 .. N |-> NoLine] /\ pushes = 0 /\ said = {}
    BY DEF Init
  <2>3. heard = <<>> /\ inbox = <<>> /\ outbox = <<>> /\ owed = <<>>
    BY DEF Init
  <2> QED
    BY <1>1, <2>1, <2>2, <2>3 DEF TypeOK, Phases
<1>3. AtItsJob /\ HeardSoFar
  BY DEF Init, AtItsJob, HeardSoFar
<1>4. \A i \in 1 .. N : ~Pending(i)
  BY DEF Init, Pending, InInbox, InOwed, InOutbox
<1>5. PendingOnce /\ PendingUpToNow
  BY <1>4 DEF Init, PendingOnce, PendingUpToNow, Pending
<1>6. \A l \in 1 .. N : printed[l] = NoLine
  BY DEF Init
<1>7. NotYetPrinted /\ LateForCause
  BY <1>6 DEF Init, NotYetPrinted, LateForCause, Sweeping
<1>8. OutOfStepOnlyAfterSilence
  BY <1>6, FrameKinds DEF OutOfStepOnlyAfterSilence, AnswersFor
<1> QED
  BY <1>2, <1>3, <1>5, <1>7, <1>8 DEF IInv

LEMMA Stutters ==
    ASSUME IInv, UNCHANGED vars
    PROVE  IInv'
<1>1. UNCHANGED <<job, phase, at, printed, heard, holder, inbox, outbox, owed, pushes, said>>
  BY DEF vars, process, headset
<1>2. TypeOK' /\ AtItsJob' /\ NotYetPrinted' /\ HeardSoFar'
  BY <1>1 DEF IInv, TypeOK, AtItsJob, NotYetPrinted, HeardSoFar, DataFrames, Pushes, Linked
<1>3. PendingOnce' /\ PendingUpToNow' /\ LateForCause'
  BY <1>1 DEF IInv, PendingOnce, PendingUpToNow, LateForCause, Pending, InInbox, InOwed,
     InOutbox, Behind, Pushes
<1>4. OutOfStepOnlyAfterSilence'
  BY <1>1 DEF IInv, OutOfStepOnlyAfterSilence, AnswersFor, Pushes
<1> QED
  BY <1>2, <1>3, <1>4 DEF IInv

(* The invariant that the others follow from: an answer that is still to   *)
(* come belongs to one payload only, that was written and whose line, or   *)
(* an earlier one, shows why it is late (probe.rs, the loop of probe); and *)
(* what listen printed and has still to read is what was sent.             *)
THEOREM Invariance == Spec => []IInv
<1>1. Init => IInv
  BY Initial
<1>2. IInv /\ [Next]_vars => IInv'
  <2> SUFFICES ASSUME IInv, [Next]_vars PROVE IInv'
    OBVIOUS
  <2>1. CASE Next
    <3>1. TypeOK' /\ AtItsJob'
      BY <2>1, TypeStep, AtItsJobStep DEF IInv
    <3>2. PendingOnce' /\ PendingUpToNow'
      BY <2>1, PendingForms, PendingUpToNowStep DEF IInv
    <3>3. NotYetPrinted' /\ LateForCause'
      BY <2>1, NotYetPrintedStep, LateForCauseStep DEF IInv
    <3>4. OutOfStepOnlyAfterSilence' /\ HeardSoFar'
      BY <2>1, OutOfStepStep, HeardSoFarStep DEF IInv
    <3> QED
      BY <3>1, <3>2, <3>3, <3>4 DEF IInv
  <2>2. CASE UNCHANGED vars
    BY <2>2, Stutters
  <2> QED
    BY <2>1, <2>2
<1> QED
  BY <1>1, <1>2, PTL DEF Spec

(* Every variable keeps its type; the loop over the payloads never runs    *)
(* past the last one while it has something to send.                       *)
THEOREM TypeCorrect == Spec => []TypeOK
<1>1. IInv => TypeOK
  BY DEF IInv
<1> QED
  BY <1>1, Invariance, PTL

(* A line of the sweep shows the answer to another payload only if an      *)
(* earlier line lacks its own, which was a silence or a push taken for the *)
(* reply, with no error, and so no new link, since: the drain before each  *)
(* payload is otherwise enough (probe.rs, probe).                          *)
THEOREM OutOfStepHasCause == Spec => []OutOfStepOnlyAfterSilence
<1>1. IInv => OutOfStepOnlyAfterSilence
  BY DEF IInv
<1> QED
  BY <1>1, Invariance, PTL

(* What listen has printed, followed by what is still to be read, is what  *)
(* was sent intact on its link, each frame once and in the order of the    *)
(* pushes (probe.rs, listen).                                              *)
THEOREM CapturesHearEverything == Spec => []HearsEverything
<1>1. IInv => HearsEverything
  <2> DEFINE all == heard \o inbox
  <2> SUFFICES ASSUME IInv, phase = "listening", Linked
               PROVE  /\ {all[i] : i \in DOMAIN all} \cap DataFrames = said
                      /\ \A i, j \in DOMAIN all :
                            i < j /\ {all[i], all[j]} \subseteq DataFrames
                                => all[i].n < all[j].n
    BY DEF HearsEverything
  <2>1. heard \in Seq(DataFrames) /\ inbox \in Seq(Messages) /\ heard \in Seq(Messages)
    <3>1. heard \in Seq(DataFrames) /\ inbox \in Seq(Messages)
      BY DEF IInv, TypeOK, Messages
    <3> QED
      BY <3>1 DEF Messages
  <2>2. /\ said = {heard[k] : k \in DOMAIN heard}
                    \cup ({inbox[k] : k \in DOMAIN inbox} \cap DataFrames)
        /\ \A k, l \in DOMAIN heard : k < l => heard[k].n < heard[l].n
        /\ \A k, l \in DOMAIN inbox :
              k < l /\ inbox[k] \in DataFrames /\ inbox[l] \in DataFrames
                  => inbox[k].n < inbox[l].n
        /\ \A k \in DOMAIN heard, l \in DOMAIN inbox :
              inbox[l] \in DataFrames => heard[k].n < inbox[l].n
    BY DEF IInv, HeardSoFar
  <2>3. PICK h \in Nat : h = Len(heard)
    BY <2>1
  <2>4. /\ \A k \in DOMAIN heard : k <= h /\ k \in DOMAIN all /\ all[k] = heard[k]
        /\ \A k \in DOMAIN inbox : k > 0 /\ h + k \in DOMAIN all /\ all[h + k] = inbox[k]
        /\ DOMAIN heard \subseteq Nat /\ DOMAIN inbox \subseteq Nat
    BY <2>1, <2>3
  <2>5. \A i \in DOMAIN all : i \in Int /\ (i \in DOMAIN heard \/ (i > h /\ i - h \in DOMAIN inbox))
    <3>1. PICK m \in Nat : m = Len(inbox)
      BY <2>1
    <3>2. DOMAIN all = 1 .. h + m /\ DOMAIN heard = 1 .. h /\ DOMAIN inbox = 1 .. m
      BY <2>1, <2>3, <3>1, ConcatProperties, LenProperties
    <3>3. ASSUME NEW i \in 1 .. h + m
          PROVE  i \in Int /\ (i \in 1 .. h \/ (i > h /\ i - h \in 1 .. m))
      BY <2>3, <3>1
    <3> HIDE DEF all
    <3> QED
      BY <3>2, <3>3
  <2>6. \A i \in DOMAIN all : i \notin DOMAIN heard => i > h /\ all[i] = inbox[i - h]
    <3> HIDE DEF all
    <3>1. ASSUME NEW i \in DOMAIN all, i \notin DOMAIN heard
          PROVE  i > h /\ all[i] = inbox[i - h]
      <4>1. i \in Int /\ i > h /\ i - h \in DOMAIN inbox
        BY <2>5, <3>1
      <4>2. h + (i - h) = i
        BY <2>3, <4>1
      <4> QED
        BY <2>4, <4>1, <4>2
    <3> QED
      BY <3>1
  <2>7. \A k \in DOMAIN heard : heard[k] \in DataFrames
    BY <2>1
  <2> HIDE DEF all
  <2>8. {all[i] : i \in DOMAIN all} \cap DataFrames = said
    <3>1. ASSUME NEW i \in DOMAIN all, all[i] \in DataFrames
          PROVE  all[i] \in said
      <4>1. CASE i \in DOMAIN heard
        BY <2>2, <2>4, <4>1
      <4>2. CASE i \notin DOMAIN heard
        BY <2>2, <2>5, <2>6, <3>1, <4>2
      <4> QED
        BY <4>1, <4>2
    <3>2. ASSUME NEW f \in said
          PROVE  f \in DataFrames /\ \E i \in DOMAIN all : all[i] = f
      BY <2>2, <2>4, <2>7
    <3> QED
      BY <3>1, <3>2
  <2>9. ASSUME NEW i \in DOMAIN all, NEW j \in DOMAIN all, i < j,
               all[i] \in DataFrames, all[j] \in DataFrames
        PROVE  all[i].n < all[j].n
    <3>1. CASE i \in DOMAIN heard /\ j \in DOMAIN heard
      BY <2>2, <2>4, <2>9, <3>1
    <3>2. CASE i \in DOMAIN heard /\ j \notin DOMAIN heard
      BY <2>2, <2>4, <2>5, <2>6, <2>9, <3>2
    <3>3. CASE i \notin DOMAIN heard
      <4>1. j \notin DOMAIN heard
        BY <2>4, <2>5, <2>6, <2>9, <3>3
      <4>2. i - h < j - h
        BY <2>3, <2>5, <2>9
      <4> QED
        BY <2>2, <2>5, <2>6, <2>9, <3>3, <4>1, <4>2
    <3> QED
      BY <3>1, <3>2, <3>3
  <2> QED
    BY <2>8, <2>9
<1> QED
  BY <1>1, Invariance, PTL
=============================================================================
