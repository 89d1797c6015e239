---------------------------- MODULE WaybarProofs -----------------------------
(* Proofs about module Waybar, for any number of instances, any jobs and   *)
(* any throttle.                                                           *)
EXTENDS Waybar, SequenceTheorems, TLAPS

----------------------------------------------------------------------------
(* The inductive invariant *)

Connecting == {"looking", "comparing", "locking", "truncating", "stamping", "opening"}
Locked == {"truncating", "stamping", "opening"}
Noticing == {"checking", "touching", "notifying"}

(* Where an instance is fits what it was run for. *)
AtItsJob ==
    \A i \in Instances :
        /\ pc[i] \in {"asking", "asking again"} => job[i].command \in Cycles \cup {"status", "menu"}
        /\ pc[i] \in Connecting => job[i].command \in Cycles \cup {"status", "menu", "reconnect"}
        /\ pc[i] \in Noticing => job[i].command = "status"
        /\ pc[i] = "picking" => job[i].command = "menu"
        /\ pc[i] = "posting" => job[i].command \in Cycles \cup {"set"}
        /\ pc[i] \in {"dropping", "clearing"} => job[i].command = "reconnect"

(* The lock is held by the one instance that is between taking it and the  *)
(* end of its connect.                                                     *)
OneHoldsLock ==
    /\ \A i \in Instances : i \in lock <=> pc[i] \in Locked
    /\ \A i, j \in lock : i = j

(* Unless it is being written, the stamp tells of the last connect; who    *)
(* has seen it and goes on has waited.                                     *)
StampTells == (\A i \in Instances : pc[i] # "stamping") => lastPost \subseteq stamp
HasWaited ==
    \A i \in Instances \ missed :
        pc[i] \in {"locking", "truncating", "stamping"} => \A t \in lastPost : now[i] - t >= Throttle

(* While no two look at the flag: a discharge that was notified has its    *)
(* flag until somebody has seen it end.                                    *)
FlagTells ==
    ~crowded =>
        /\ \A i, j \in Instances : pc[i] \in Noticing /\ pc[j] \in Noticing => i = j
        /\ \A i \in Instances :
              /\ pc[i] = "checking" /\ low => \A r \in status[i] : FALSE \notin r.low
              /\ pc[i] = "touching" => notices = 0
              /\ pc[i] = "notifying" => notices = 0 /\ flag
              /\ pc[i] = "checking" /\ notices = 1 =>
                    flag \/ \A r \in status[i] : TRUE \notin r.low
        /\ notices \in {0, 1}
        /\ notices = 1 /\ low => flag

(* A click that nothing has disturbed: all others are at rest, the headset *)
(* is as it was found and as it was read, and a reconnect finds no stamp.  *)
AloneWithHeadset ==
    \A i \in Instances :
        before[i] # {} =>
            /\ ~Ended(i) /\ job[i].command # "status"
            /\ \A j \in Instances \ {i} : Ended(j)
            /\ before[i] = {headset}
            /\ \A r \in status[i] :
                  /\ r.noise = Reading({}).noise
                  /\ r.dsee = Reading({}).dsee
                  /\ r.guidance = Reading({}).guidance
            /\ job[i].command = "reconnect" /\ pc[i] \in {"looking", "comparing"} => stamp = {}

IInv ==
    /\ TypeOK
    /\ AtItsJob
    /\ OneHoldsLock
    /\ StampTells
    /\ HasWaited
    /\ FlagTells
    /\ AloneWithHeadset

----------------------------------------------------------------------------
(* Jobs and what they write *)

LEMMA Bounds == Throttle \in Nat /\ MaxTime \in Nat /\ MaxLate \in Nat /\ 0 \in 0 .. MaxTime
<1>1. Throttle \in Nat /\ MaxTime \in Nat /\ MaxLate \in Nat
  BY WaybarAssumption
<1> QED
  BY <1>1

LEMMA JobForms ==
    ASSUME NEW j \in Jobs
    PROVE  /\ j.command \in Cycles \cup {"status", "menu", "reconnect", "set"}
           /\ j.command = "set" => \E p \in Sets : j.patch = {p}
<1>1. j \in AllJobs
  BY WaybarAssumption
<1>2. CASE j \in [command : Cycles \cup {"status", "menu", "reconnect"}, patch : {{}}]
  BY <1>2 DEF Cycles
<1>3. CASE j \in [command : {"set"}, patch : {{p} : p \in Sets}]
  <2>1. j.command = "set" /\ j.patch \in {{p} : p \in Sets}
    BY <1>3
  <2> QED
    BY <2>1
<1> QED
  BY <1>1, <1>2, <1>3 DEF AllJobs

LEMMA PatchedTyped ==
    ASSUME NEW h \in Headset, NEW p \in Writes
    PROVE  Patched(h, p) \in Headset
<1>1. CASE p \in [mode : Modes]
  BY <1>1 DEF Patched, Headset
<1>2. CASE p \in [mode : {"ambient"}, level : 0 .. 20]
  BY <1>2 DEF Patched, Headset, Modes
<1>3. CASE p \in [mode : {"ambient"}, voice : BOOLEAN]
  BY <1>3 DEF Patched, Headset, Modes
<1>4. CASE p \in [dsee : BOOLEAN]
  BY <1>4 DEF Patched, Headset
<1>5. CASE p \in [guidance : BOOLEAN]
  BY <1>5 DEF Patched, Headset
<1> QED
  BY <1>1, <1>2, <1>3, <1>4, <1>5 DEF Writes, Sets

(* What a status has is read as it is, and what it lacks as no mode, level *)
(* 0 and false.                                                            *)
LEMMA ReadTyped ==
    ASSUME NEW S \in SUBSET Readings
    PROVE  LET read == OrElse(S, [noise |-> {}, dsee |-> {}, guidance |-> {}])
               noise == OrElse(read.noise, [mode |-> "none", level |-> 0, voice |-> FALSE])
           IN  /\ noise.level \in 0 .. 20
               /\ noise.voice \in BOOLEAN
               /\ OrElse(read.dsee, FALSE) \in BOOLEAN
               /\ OrElse(read.guidance, FALSE) \in BOOLEAN
<1> DEFINE read == OrElse(S, [noise |-> {}, dsee |-> {}, guidance |-> {}])
<1> DEFINE noise == OrElse(read.noise, [mode |-> "none", level |-> 0, voice |-> FALSE])
<1>1. /\ read.noise \in Optional([mode : Modes, level : 0 .. 20, voice : BOOLEAN])
      /\ read.dsee \in Optional(BOOLEAN) /\ read.guidance \in Optional(BOOLEAN)
  <2>1. CASE S = {}
    BY <2>1 DEF OrElse, Optional
  <2>2. CASE S # {}
    <3>1. read \in S
      BY <2>2 DEF OrElse
    <3> QED
      BY <3>1 DEF Readings
  <2> QED
    BY <2>1, <2>2
<1> HIDE DEF read
<1>2. noise.level \in 0 .. 20 /\ noise.voice \in BOOLEAN
  <2>1. CASE read.noise = {}
    BY <2>1 DEF OrElse
  <2>2. CASE read.noise # {}
    BY <1>1, <2>2 DEF OrElse, Optional
  <2> QED
    BY <2>1, <2>2
<1>3. OrElse(read.dsee, FALSE) \in BOOLEAN /\ OrElse(read.guidance, FALSE) \in BOOLEAN
  BY <1>1 DEF OrElse, Optional
<1> QED
  BY <1>2, <1>3 DEF read

(* The next stop of the ambient level is not where it is. *)
LEMMA StopsMove ==
    ASSUME NEW level \in 0 .. 20
    PROVE  LET stops == {l \in {5, 10, 15, 20} : l > level}
               next == IF stops = {} THEN 1 ELSE CHOOSE l \in stops : \A k \in stops : l <= k
           IN  next \in {1, 5, 10, 15, 20} \ {level}
<1> DEFINE stops == {l \in {5, 10, 15, 20} : l > level}
<1>1. CASE stops = {}
  <2>1. ~(20 > level)
    BY <1>1
  <2> QED
    BY <1>1, <2>1
<1>2. CASE stops # {}
  <2>1. \E l \in stops : \A k \in stops : l <= k
    <3>1. CASE 5 > level
      BY <3>1
    <3>2. CASE ~(5 > level) /\ 10 > level
      BY <3>2
    <3>3. CASE ~(10 > level) /\ 15 > level
      BY <3>3
    <3>4. CASE ~(15 > level)
      BY <1>2, <3>4
    <3> QED
      BY <3>1, <3>2, <3>3, <3>4
  <2> DEFINE next == CHOOSE l \in stops : \A k \in stops : l <= k
  <2>2. next \in stops
    BY <2>1
  <2> QED
    BY <1>2, <2>2
<1> QED
  BY <1>1, <1>2

LEMMA WritesTyped ==
    ASSUME TypeOK, AtItsJob, NEW i \in Instances, pc[i] = "posting"
    PROVE  ToPost(i) \in Writes
<1> DEFINE read == OrElse(status[i], [noise |-> {}, dsee |-> {}, guidance |-> {}])
<1> DEFINE noise == OrElse(read.noise, [mode |-> "none", level |-> 0, voice |-> FALSE])
<1> DEFINE stops == {l \in {5, 10, 15, 20} : l > noise.level}
<1> DEFINE next == IF stops = {} THEN 1 ELSE CHOOSE l \in stops : \A k \in stops : l <= k
<1>1. job[i] \in Jobs \cup {NoJob} /\ job[i].command \in Cycles \cup {"set"}
  BY DEF TypeOK, AtItsJob
<1>2. /\ noise.level \in 0 .. 20 /\ noise.voice \in BOOLEAN
      /\ OrElse(read.dsee, FALSE) \in BOOLEAN /\ OrElse(read.guidance, FALSE) \in BOOLEAN
  BY ReadTyped DEF TypeOK
<1>3. next \in 0 .. 20
  <2>1. next \in {1, 5, 10, 15, 20}
    BY <1>2, StopsMove
  <2> HIDE DEF next
  <2> QED
    BY <2>1
<1> HIDE DEF next
<1>4. CASE job[i].command = "set"
  <2>1. PICK p \in Sets : job[i].patch = {p}
    BY <1>1, <1>4, JobForms DEF NoJob
  <2>2. ToPost(i) = p
    BY <1>4, <2>1 DEF ToPost, OrElse
  <2> QED
    BY <2>2 DEF Writes
<1>5. CASE job[i].command = "anc-cycle"
  <2>1. \E m \in Modes : ToPost(i) = [mode |-> m]
    BY <1>5 DEF ToPost, Modes
  <2> QED
    BY <2>1 DEF Writes, Sets
<1>6. CASE job[i].command = "ambient-cycle"
  <2>1. ToPost(i) = [mode |-> "ambient", level |-> next]
    BY <1>6 DEF ToPost, next
  <2> QED
    BY <1>3, <2>1 DEF Writes, Sets
<1>7. CASE job[i].command = "voice-toggle"
  <2>1. ToPost(i) = [mode |-> "ambient", voice |-> ~noise.voice]
    BY <1>7 DEF ToPost
  <2> QED
    BY <2>1 DEF Writes
<1>8. CASE job[i].command = "dsee-toggle"
  <2>1. ToPost(i) = [dsee |-> ~OrElse(read.dsee, FALSE)]
    BY <1>8 DEF ToPost
  <2> QED
    BY <2>1 DEF Writes
<1>9. CASE job[i].command = "voice-toggle-guide"
  <2>1. ToPost(i) = [guidance |-> ~OrElse(read.guidance, FALSE)]
    BY <1>9 DEF ToPost
  <2> QED
    BY <2>1 DEF Writes
<1> QED
  BY <1>1, <1>4, <1>5, <1>6, <1>7, <1>8, <1>9 DEF Cycles

----------------------------------------------------------------------------
(* The steps of an instance *)

InstanceStep(i) ==
    \/ \E j \in Jobs : Start(i, j) \/ Picks(i, j)
    \/ Dismisses(i)
    \/ \E lacks \in SUBSET Parts : Answered(i, lacks)
    \/ Unanswered(i)
    \/ ReadsClock(i) \/ ReadsStamp(i)
    \/ Locks(i) \/ LockedOut(i)
    \/ Truncates(i) \/ Posts(i)
    \/ Opened(i) \/ OpenFails(i)
    \/ LooksAtBattery(i) \/ Touches(i) \/ Notifies(i)
    \/ Accepted(i) \/ Rejected(i)
    \/ Drops(i) \/ Clears(i)

(* What an instance may make of its own place, job, time and status. *)
OwnType(i) ==
    /\ pc' \in [Instances -> Places]
    /\ job' \in [Instances -> Jobs \cup {NoJob}]
    /\ now' \in [Instances -> 0 .. MaxTime]
    /\ status' \in [Instances -> SUBSET Readings]
    /\ \A k \in Instances \ {i} :
          pc'[k] = pc[k] /\ job'[k] = job[k] /\ now'[k] = now[k] /\ status'[k] = status[k]

LEMMA GoesForms ==
    ASSUME TypeOK, NEW i \in Instances, NEW to \in Places, Goes(i, to), UNCHANGED own
    PROVE  OwnType(i) /\ pc'[i] = to
BY DEF TypeOK, Goes, own, OwnType

LEMMA EndsForms ==
    ASSUME TypeOK, NEW i \in Instances, NEW how \in {"ok", "failed", "throttled"}, Ends(i, how)
    PROVE  OwnType(i) /\ pc'[i] = how /\ job'[i] = NoJob
<1>1. how \in Places /\ 0 \in 0 .. MaxTime
  BY Bounds DEF Places
<1> QED
  BY <1>1 DEF TypeOK, Ends, Goes, OwnType

LEMMA RunForms ==
    ASSUME TypeOK, NEW i \in Instances, NEW j \in Jobs, Run(i, j)
    PROVE  /\ OwnType(i) /\ pc'[i] = First(j.command) /\ job'[i] = j /\ status'[i] = {}
           /\ pc'[i] \in {"posting", "dropping", "asking"}
<1>1. First(j.command) \in {"posting", "dropping", "asking"}
  BY DEF First
<1>2. First(j.command) \in Places /\ 0 \in 0 .. MaxTime
  BY <1>1, Bounds DEF Places
<1> QED
  BY <1>1, <1>2 DEF TypeOK, Run, Goes, OwnType

LEMMA ReadingTyped ==
    ASSUME TypeOK, NEW lacks
    PROVE  Reading(lacks) \in Readings
BY DEF TypeOK, Reading, Readings, Optional, Headset

(* Whatever it does, an instance leaves the others where they are. *)
LEMMA OwnForms ==
    ASSUME TypeOK, NEW i \in Instances, InstanceStep(i)
    PROVE  OwnType(i)
<1> USE DEF Places
<1>1. ASSUME NEW j \in Jobs, Start(i, j) \/ Picks(i, j)
      PROVE  OwnType(i)
  BY <1>1, RunForms DEF Start, Picks
<1>2. ASSUME NEW lacks, Answered(i, lacks)
      PROVE  OwnType(i)
  <2> DEFINE to == CASE job[i].command = "status" -> "checking"
                     [] job[i].command = "menu" -> "picking"
                     [] OTHER -> "posting"
  <2>1. to \in Places
    OBVIOUS
  <2>2. status' = [status EXCEPT ![i] = {Reading(lacks)}] /\ now' = [now EXCEPT ![i] = 0]
        /\ pc' = [pc EXCEPT ![i] = to] /\ job' = job
    BY <1>2 DEF Answered, Goes
  <2>3. Reading(lacks) \in Readings /\ 0 \in 0 .. MaxTime
    BY ReadingTyped, Bounds
  <2> HIDE DEF to
  <2> QED
    BY <2>1, <2>2, <2>3 DEF TypeOK, OwnType
<1>3. CASE Unanswered(i)
  BY <1>3, GoesForms, EndsForms DEF Unanswered
<1>4. CASE ReadsClock(i)
  <2>1. pc' = [pc EXCEPT ![i] = "comparing"] /\ now' = [now EXCEPT ![i] = clock]
        /\ job' = job /\ status' = status
    BY <1>4 DEF ReadsClock, Goes
  <2> QED
    BY <2>1 DEF TypeOK, OwnType
<1>5. CASE ReadsStamp(i)
  BY <1>5, GoesForms, EndsForms DEF ReadsStamp
<1>6. CASE Locks(i) \/ Truncates(i)
  BY <1>6, GoesForms DEF Locks, Truncates
<1>7. CASE LockedOut(i)
  BY <1>7, EndsForms DEF LockedOut
<1>8. CASE Posts(i)
  <2>1. pc' = [pc EXCEPT ![i] = "opening"] /\ now' = [now EXCEPT ![i] = 0]
        /\ job' = job /\ status' = status
    BY <1>8 DEF Posts, Goes
  <2> QED
    BY <2>1, Bounds DEF TypeOK, OwnType
<1>9. CASE Opened(i) \/ OpenFails(i)
  BY <1>9, GoesForms, EndsForms DEF Opened, OpenFails
<1>10. CASE LooksAtBattery(i)
  <2>1. \/ Ends(i, "ok")
        \/ /\ pc' = [pc EXCEPT ![i] = "touching"] /\ status' = [status EXCEPT ![i] = {}]
           /\ job' = job /\ now' = now
    BY <1>10 DEF LooksAtBattery, Goes
  <2>2. CASE Ends(i, "ok")
    BY <2>2, EndsForms
  <2>3. CASE /\ pc' = [pc EXCEPT ![i] = "touching"] /\ status' = [status EXCEPT ![i] = {}]
             /\ job' = job /\ now' = now
    BY <2>3 DEF TypeOK, OwnType
  <2> QED
    BY <2>1, <2>2, <2>3
<1>11. CASE Touches(i) \/ Drops(i)
  BY <1>11, GoesForms DEF Touches, Drops
<1>12. CASE Notifies(i) \/ Accepted(i) \/ Rejected(i) \/ Dismisses(i)
  BY <1>12, EndsForms DEF Notifies, Accepted, Rejected, Dismisses
<1>13. CASE Clears(i)
  BY <1>13, GoesForms, EndsForms DEF Clears
<1> QED
  BY <1>1, <1>2, <1>3, <1>4, <1>5, <1>6, <1>7, <1>8, <1>9, <1>10, <1>11, <1>12, <1>13
     DEF InstanceStep

LEMMA AtItsJobStep ==
    ASSUME TypeOK, AtItsJob, Next
    PROVE  AtItsJob'
<1> USE DEF AtItsJob, Connecting, Noticing
<1>0. ASSUME NEW i \in Instances, InstanceStep(i), NEW k \in Instances \ {i}
      PROVE  pc'[k] = pc[k] /\ job'[k] = job[k]
  BY <1>0, OwnForms DEF OwnType
<1> DEFINE Fits(i) ==
        /\ pc'[i] \in {"asking", "asking again"} => job'[i].command \in Cycles \cup {"status", "menu"}
        /\ pc'[i] \in Connecting => job'[i].command \in Cycles \cup {"status", "menu", "reconnect"}
        /\ pc'[i] \in Noticing => job'[i].command = "status"
        /\ pc'[i] = "picking" => job'[i].command = "menu"
        /\ pc'[i] = "posting" => job'[i].command \in Cycles \cup {"set"}
        /\ pc'[i] \in {"dropping", "clearing"} => job'[i].command = "reconnect"
<1>1. ASSUME NEW i \in Instances, InstanceStep(i)
      PROVE  Fits(i)
  <2>1. ASSUME NEW how \in {"ok", "failed", "throttled"}, Ends(i, how)
        PROVE  Fits(i)
    BY <2>1, EndsForms
  <2>2. ASSUME NEW to \in Places, Goes(i, to), job' = job
        PROVE  pc'[i] = to /\ job'[i] = job[i]
    BY <2>2 DEF Goes, TypeOK
  <2>3. {"looking", "comparing", "locking", "truncating", "stamping", "opening", "touching",
         "notifying", "clearing", "asking again"} \subseteq Places
    BY DEF Places
  <2>4. ASSUME NEW j \in Jobs, Start(i, j) \/ Picks(i, j)
        PROVE  Fits(i)
    <3>1. pc'[i] = First(j.command) /\ job'[i] = j
      BY <2>4, RunForms DEF Start, Picks
    <3>2. CASE j.command = "set"
      BY <3>1, <3>2 DEF First
    <3>3. CASE j.command = "reconnect"
      BY <3>1, <3>3 DEF First
    <3>4. CASE j.command \notin {"set", "reconnect"}
      <4>1. First(j.command) = "asking"
        BY <3>4 DEF First
      <4>2. j.command \in Cycles \cup {"status", "menu"}
        BY <3>4, JobForms
      <4> QED
        BY <3>1, <4>1, <4>2
    <3> QED
      BY <3>2, <3>3, <3>4
  <2>6. ASSUME NEW lacks, Answered(i, lacks)
        PROVE  Fits(i)
    <3>1. /\ pc'[i] = CASE job[i].command = "status" -> "checking"
                       [] job[i].command = "menu" -> "picking"
                       [] OTHER -> "posting"
          /\ job' = job /\ pc[i] \in {"asking", "asking again"}
      BY <2>6 DEF Answered, Goes, TypeOK
    <3>2. job[i].command \in Cycles \cup {"status", "menu"}
      BY <3>1
    <3>3. CASE job[i].command = "status"
      BY <3>1, <3>3
    <3>4. CASE job[i].command = "menu"
      BY <3>1, <3>4
    <3>5. CASE job[i].command \notin {"status", "menu"}
      BY <3>1, <3>2, <3>5
    <3> QED
      BY <3>3, <3>4, <3>5
  <2>7. CASE Unanswered(i)
    BY <2>1, <2>2, <2>3, <2>7 DEF Unanswered, own
  <2>8. CASE ReadsClock(i) \/ Locks(i) \/ Truncates(i) \/ Posts(i)
    BY <2>2, <2>3, <2>8 DEF ReadsClock, Locks, Truncates, Posts, own
  <2>9. CASE ReadsStamp(i) \/ LockedOut(i)
    BY <2>1, <2>2, <2>3, <2>9 DEF ReadsStamp, LockedOut, own
  <2>10. CASE Opened(i) \/ OpenFails(i)
    BY <2>1, <2>2, <2>3, <2>10 DEF Opened, OpenFails, own
  <2>11. CASE LooksAtBattery(i)
    <3>1. Ends(i, "ok") \/ (Goes(i, "touching") /\ job' = job)
      BY <2>11 DEF LooksAtBattery
    <3> QED
      BY <2>1, <2>2, <2>3, <2>11, <3>1 DEF LooksAtBattery
  <2>12. CASE Touches(i) \/ Drops(i)
    BY <2>2, <2>3, <2>12 DEF Touches, Drops, own
  <2>13. CASE Notifies(i) \/ Accepted(i) \/ Rejected(i) \/ Dismisses(i)
    BY <2>1, <2>13 DEF Notifies, Accepted, Rejected, Dismisses
  <2>14. CASE Clears(i)
    BY <2>1, <2>2, <2>3, <2>14 DEF Clears, own
  <2> QED
    BY <1>1, <2>4, <2>6, <2>7, <2>8, <2>9, <2>10, <2>11, <2>12, <2>13, <2>14
       DEF InstanceStep
<1>2. ASSUME NEW i \in Instances, InstanceStep(i)
      PROVE  AtItsJob'
  <2>1. ASSUME NEW k \in Instances
        PROVE  Fits(k)
    BY <1>0, <1>1, <1>2, <2>1, ZenonT(40)
  <2> QED
    BY <2>1
<1>3. CASE Tick \/ Battery \/ TakesLate \/ SessionEnds
  BY <1>3 DEF Tick, Battery, TakesLate, SessionEnds, own
<1> QED
  BY <1>2, <1>3 DEF Next, InstanceStep

(* The rest of the state. *)
Others ==
    /\ clock \in 0 .. MaxTime
    /\ stamp \subseteq 0 .. MaxTime
    /\ lock \subseteq Instances /\ missed \subseteq Instances
    /\ {flag, low, crowded} \subseteq BOOLEAN
    /\ headset \in Headset
    /\ session \in BOOLEAN
    /\ late \in Seq(Writes) /\ Len(late) <= MaxLate
    /\ before \in [Instances -> SUBSET Headset]
    /\ lastPost \subseteq 0 .. MaxTime
    /\ notices \in 0 .. 2

LEMMA OthersStep ==
    ASSUME TypeOK, AtItsJob, Next
    PROVE  Others'
<1> USE DEF Others
<1>0. Others
  BY DEF TypeOK
<1>1. ASSUME NEW i \in Instances, Disturbs(i)
      PROVE  before' \in [Instances -> SUBSET Headset]
  BY <1>0, <1>1 DEF Disturbs
<1>2. ASSUME NEW i \in Instances, NEW j \in Jobs, Start(i, j) \/ Picks(i, j)
      PROVE  Others'
  <2>1. before' \in [Instances -> SUBSET Headset]
    BY <1>0, <1>2 DEF Start, Picks, Run
  <2> QED
    BY <1>0, <1>2, <2>1 DEF Start, Picks, files, throttling, noticing
<1>3. ASSUME NEW i \in Instances, NEW lacks, Answered(i, lacks)
      PROVE  Others'
  <2>1. before' \in [Instances -> SUBSET Headset] /\ crowded' \in BOOLEAN
    BY <1>0, <1>3 DEF Answered
  <2> QED
    BY <1>0, <1>3, <2>1 DEF Answered, files, throttling
<1>4. ASSUME NEW i \in Instances, Unanswered(i) \/ ReadsClock(i) \/ Drops(i) \/ Dismisses(i)
      PROVE  Others'
  <2>1. before' \in [Instances -> SUBSET Headset]
    BY <1>0, <1>1, <1>4 DEF Unanswered, ReadsClock, Drops, Dismisses
  <2> QED
    BY <1>0, <1>4, <2>1 DEF Unanswered, ReadsClock, Drops, Dismisses, files, throttling, noticing
<1>5. ASSUME NEW i \in Instances,
             ReadsStamp(i) \/ Locks(i) \/ LockedOut(i) \/ Truncates(i) \/ Posts(i)
      PROVE  Others'
  <2>1. before' \in [Instances -> SUBSET Headset]
    BY <1>1, <1>5 DEF ReadsStamp, Locks, LockedOut, Truncates, Posts
  <2>2. now[i] \in 0 .. MaxTime
    BY DEF TypeOK
  <2> QED
    BY <1>0, <1>5, <2>1, <2>2
       DEF ReadsStamp, Locks, LockedOut, Truncates, Posts, files, throttling, noticing
<1>6. ASSUME NEW i \in Instances, Opened(i) \/ OpenFails(i) \/ Clears(i)
      PROVE  Others'
  <2>1. before' \in [Instances -> SUBSET Headset]
    BY <1>1, <1>6 DEF Opened, OpenFails, Clears
  <2> QED
    BY <1>0, <1>6, <2>1 DEF Opened, OpenFails, Opens, Clears, throttling, noticing
<1>7. ASSUME NEW i \in Instances, LooksAtBattery(i)
      PROVE  Others'
  <2>1. before' \in [Instances -> SUBSET Headset]
    BY <1>1, <1>7 DEF LooksAtBattery
  <2>2. flag' \in BOOLEAN
    BY <1>0, <1>7 DEF LooksAtBattery, ClearsFlag
  <2> QED
    BY <1>0, <1>7, <2>1, <2>2 DEF LooksAtBattery, throttling, noticing
<1>8. ASSUME NEW i \in Instances, Touches(i) \/ Notifies(i)
      PROVE  Others'
  <2>1. before' \in [Instances -> SUBSET Headset]
    BY <1>1, <1>8 DEF Touches, Notifies
  <2>2. notices' \in 0 .. 2
    BY <1>0, <1>8 DEF Touches, Notifies, noticing
  <2>3. flag' \in BOOLEAN /\ crowded' = crowded
    BY <1>0, <1>8 DEF Touches, Notifies, files, noticing
  <2>4. UNCHANGED <<clock, stamp, lock, missed, low, headset, session, late, lastPost>>
    BY <1>8 DEF Touches, Notifies, files, throttling
  <2> QED
    BY <1>0, <2>1, <2>2, <2>3, <2>4
<1>9. ASSUME NEW i \in Instances, Accepted(i)
      PROVE  Others'
  <2>1. before' \in [Instances -> SUBSET Headset]
    BY <1>1, <1>9 DEF Accepted
  <2>2. headset' \in Headset
    BY <1>0, <1>9, WritesTyped, PatchedTyped DEF Accepted
  <2> QED
    BY <1>0, <1>9, <2>1, <2>2 DEF Accepted, files, throttling, noticing
<1>10. ASSUME NEW i \in Instances, Rejected(i)
      PROVE  Others'
  <2>1. before' \in [Instances -> SUBSET Headset]
    BY <1>1, <1>10 DEF Rejected
  <2>2. late' \in Seq(Writes) /\ Len(late') <= MaxLate
    <3>1. ToPost(i) \in Writes
      BY <1>10, WritesTyped DEF Rejected
    <3>2. CASE late' = late
      BY <1>0, <3>2
    <3>3. CASE Len(late) < MaxLate /\ late' = Append(late, ToPost(i))
      BY <1>0, <3>1, <3>3, Bounds
    <3> QED
      BY <1>10, <3>2, <3>3 DEF Rejected
  <2> QED
    BY <1>0, <1>10, <2>1, <2>2 DEF Rejected, files, throttling, noticing
<1>11. CASE Tick
  BY <1>0, <1>11, Bounds DEF Tick, files, throttling, noticing
<1>12. CASE Battery
  <2>1. low' \in BOOLEAN
    BY <1>12 DEF Battery
  <2>2. notices' \in 0 .. 2
    <3>1. notices' = 0 \/ notices' = notices
      BY <1>12, Zenon DEF Battery, noticing
    <3> QED
      BY <1>0, <3>1
  <2>3. crowded' \in BOOLEAN
    <3> DEFINE looks == \E i \in Instances : pc[i] \in {"checking", "touching", "notifying"}
    <3>1. crowded' = looks \/ crowded' = crowded
      BY <1>12, Zenon DEF Battery, noticing
    <3>2. looks \in BOOLEAN
      BY Zenon
    <3> HIDE DEF looks
    <3> QED
      BY <1>0, <3>1, <3>2, Zenon
  <2>4. UNCHANGED <<clock, stamp, lock, missed, flag, headset, session, late, before, lastPost>>
    BY <1>12 DEF Battery, files, throttling
  <2> QED
    BY <1>0, <2>1, <2>2, <2>3, <2>4
<1>13. CASE TakesLate
  <2>1. /\ Head(late) \in Writes /\ Tail(late) \in Seq(Writes)
        /\ Len(Tail(late)) <= MaxLate
    BY <1>0, <1>13, Bounds DEF TakesLate
  <2>2. headset' \in Headset
    BY <1>0, <1>13, <2>1, PatchedTyped DEF TakesLate
  <2>3. before' \in [Instances -> SUBSET Headset]
    BY <1>13 DEF TakesLate, Undisturbed
  <2> QED
    BY <1>0, <1>13, <2>1, <2>2, <2>3 DEF TakesLate, files, throttling, noticing
<1>14. CASE SessionEnds
  BY <1>0, <1>14 DEF SessionEnds, Undisturbed, files, throttling, noticing
<1> QED
  BY <1>2, <1>3, <1>4, <1>5, <1>6, <1>7, <1>8, <1>9, <1>10, <1>11, <1>12, <1>13, <1>14 DEF Next

LEMMA TypeStep ==
    ASSUME TypeOK, AtItsJob, Next
    PROVE  TypeOK'
<1>1. Others'
  BY OthersStep
<1>2. ASSUME NEW i \in Instances, InstanceStep(i)
      PROVE  /\ pc' \in [Instances -> Places]
             /\ job' \in [Instances -> Jobs \cup {NoJob}]
             /\ now' \in [Instances -> 0 .. MaxTime]
             /\ status' \in [Instances -> SUBSET Readings]
  BY <1>2, OwnForms DEF OwnType
<1>3. CASE Tick \/ Battery \/ TakesLate \/ SessionEnds
  <2>1. UNCHANGED <<pc, job, now, status>>
    BY <1>3 DEF Tick, Battery, TakesLate, SessionEnds, own
  <2> QED
    BY <1>1, <2>1 DEF TypeOK, Others
<1> DEFINE HasRead(k) ==
        pc'[k] = "checking" \/ (pc'[k] = "posting" /\ job'[k].command \in Cycles)
            => status'[k] # {}
<1>4. ASSUME NEW i \in Instances, InstanceStep(i)
      PROVE  HasRead(i)
  <2>1. ASSUME NEW how \in {"ok", "failed", "throttled"}, Ends(i, how)
        PROVE  HasRead(i)
    BY <2>1, EndsForms
  <2>2. ASSUME NEW to \in Places \ {"checking", "posting"}, Goes(i, to)
        PROVE  HasRead(i)
    BY <2>2 DEF Goes, TypeOK
  <2>3. {"looking", "comparing", "locking", "truncating", "stamping", "opening", "touching",
         "notifying", "clearing", "asking again"} \subseteq Places \ {"checking", "posting"}
    BY DEF Places
  <2>4. ASSUME NEW j \in Jobs, Start(i, j) \/ Picks(i, j)
        PROVE  HasRead(i)
    <3>1. pc'[i] = First(j.command) /\ job'[i] = j
      BY <2>4, RunForms DEF Start, Picks
    <3>2. j.command \in Cycles => First(j.command) = "asking"
      BY DEF First, Cycles
    <3>3. First(j.command) # "checking"
      BY DEF First
    <3> QED
      BY <3>1, <3>2, <3>3
  <2>5. ASSUME NEW lacks, Answered(i, lacks)
        PROVE  HasRead(i)
    BY <2>5 DEF Answered, TypeOK
  <2>6. CASE \/ Unanswered(i) \/ ReadsClock(i) \/ ReadsStamp(i) \/ Locks(i) \/ LockedOut(i)
             \/ Truncates(i) \/ Posts(i) \/ Opened(i) \/ OpenFails(i)
    BY <2>1, <2>2, <2>3, <2>6 DEF Unanswered, ReadsClock, ReadsStamp, Locks, LockedOut,
       Truncates, Posts, Opened, OpenFails
  <2>7. CASE LooksAtBattery(i)
    <3>1. Ends(i, "ok") \/ Goes(i, "touching")
      BY <2>7 DEF LooksAtBattery
    <3> QED
      BY <2>1, <2>2, <2>3, <3>1
  <2>8. CASE \/ Touches(i) \/ Notifies(i) \/ Accepted(i) \/ Rejected(i)
             \/ Drops(i) \/ Clears(i) \/ Dismisses(i)
    BY <2>1, <2>2, <2>3, <2>8
       DEF Touches, Notifies, Accepted, Rejected, Drops, Clears, Dismisses
  <2> QED
    BY <1>4, <2>4, <2>5, <2>6, <2>7, <2>8 DEF InstanceStep
<1>5. ASSUME NEW i \in Instances, InstanceStep(i), NEW k \in Instances
      PROVE  HasRead(k)
  <2>1. CASE k # i
    BY <1>5, <2>1, OwnForms DEF OwnType, TypeOK
  <2> QED
    BY <1>4, <1>5, <2>1
<1>6. ASSUME NEW i \in Instances, InstanceStep(i)
      PROVE  TypeOK'
  BY <1>1, <1>2, <1>5, <1>6 DEF TypeOK, Others
<1> QED
  BY <1>3, <1>6 DEF Next, InstanceStep

----------------------------------------------------------------------------
(* Connecting *)

(* A step of i that is not a part of taking or leaving the lock. *)
Quiet(i) ==
    /\ UNCHANGED <<stamp, lock, throttling>>
    /\ pc[i] \notin Locked \cup {"locking"}
    /\ pc'[i] \notin Locked \cup {"locking"}

LEMMA QuietForms ==
    ASSUME TypeOK, NEW i \in Instances, InstanceStep(i)
    PROVE  \/ ReadsStamp(i) \/ Locks(i) \/ LockedOut(i) \/ Truncates(i) \/ Posts(i)
           \/ Opened(i) \/ OpenFails(i) \/ Clears(i)
           \/ Quiet(i)
<1> USE DEF Quiet, Locked, files, throttling
<1>1. ASSUME NEW how \in {"ok", "failed", "throttled"}, Ends(i, how)
      PROVE  pc'[i] \notin Locked \cup {"locking"}
  BY <1>1, EndsForms
<1>2. ASSUME NEW to \in Places \ (Locked \cup {"locking"}), Goes(i, to)
      PROVE  pc'[i] \notin Locked \cup {"locking"}
  BY <1>2 DEF Goes, TypeOK
<1>3. {"looking", "comparing", "touching", "notifying", "clearing", "checking", "picking",
       "posting"} \subseteq Places \ (Locked \cup {"locking"})
  BY DEF Places
<1>4. ASSUME NEW j \in Jobs, Start(i, j) \/ Picks(i, j)
      PROVE  Quiet(i)
  <2>1. pc'[i] \in {"posting", "dropping", "asking"}
    BY <1>4, RunForms DEF Start, Picks
  <2> QED
    BY <1>4, <2>1 DEF Start, Picks, Ended
<1>5. ASSUME NEW lacks, Answered(i, lacks)
      PROVE  Quiet(i)
  <2>1. pc'[i] \in {"checking", "picking", "posting"}
    BY <1>5 DEF Answered, Goes, TypeOK
  <2> QED
    BY <1>5, <2>1 DEF Answered
<1>6. CASE Unanswered(i)
  BY <1>1, <1>2, <1>3, <1>6 DEF Unanswered
<1>7. CASE ReadsClock(i) \/ Touches(i) \/ Drops(i)
  BY <1>2, <1>3, <1>7 DEF ReadsClock, Touches, Drops
<1>8. CASE LooksAtBattery(i)
  <2>1. Ends(i, "ok") \/ Goes(i, "touching")
    BY <1>8 DEF LooksAtBattery
  <2> QED
    BY <1>1, <1>2, <1>3, <1>8, <2>1 DEF LooksAtBattery
<1>9. CASE Notifies(i) \/ Accepted(i) \/ Rejected(i) \/ Dismisses(i)
  BY <1>1, <1>9 DEF Notifies, Accepted, Rejected, Dismisses
<1> QED
  BY <1>4, <1>5, <1>6, <1>7, <1>8, <1>9 DEF InstanceStep

LEMMA OneHoldsLockStep ==
    ASSUME TypeOK, OneHoldsLock, Next
    PROVE  OneHoldsLock'
<1> USE DEF OneHoldsLock, Locked
<1>1. CASE Tick \/ Battery \/ TakesLate \/ SessionEnds
  BY <1>1 DEF Tick, Battery, TakesLate, SessionEnds, files
<1>2. ASSUME NEW i \in Instances, InstanceStep(i)
      PROVE  OneHoldsLock'
  <2>1. \A k \in Instances \ {i} : pc'[k] = pc[k]
    BY <1>2, OwnForms DEF OwnType
  <2>2. pc'[i] \in Places
    BY <1>2, OwnForms DEF OwnType
  <2>3. CASE Quiet(i)
    BY <2>1, <2>3 DEF Quiet
  <2>4. CASE ReadsStamp(i) \/ LockedOut(i) \/ Clears(i)
    <3>1. lock' = lock /\ pc[i] \notin Locked
      BY <2>4 DEF ReadsStamp, LockedOut, Clears, files
    <3>2. \/ \E how \in {"ok", "failed", "throttled"} : Ends(i, how)
          \/ \E to \in {"locking", "looking"} : Goes(i, to)
      BY <2>4 DEF ReadsStamp, LockedOut, Clears
    <3>3. pc'[i] \notin Locked
      BY <3>2 DEF Ends, Goes, TypeOK
    <3> QED
      BY <2>1, <3>1, <3>3
  <2>5. CASE Locks(i)
    <3>1. lock = {} /\ lock' = {i} /\ pc'[i] = "truncating"
      BY <2>5 DEF Locks, Goes, TypeOK
    <3> QED
      BY <2>1, <3>1
  <2>6. CASE Truncates(i) \/ Posts(i)
    <3>1. lock' = lock /\ pc[i] \in Locked /\ pc'[i] \in Locked
      BY <2>6 DEF Truncates, Posts, Goes, TypeOK
    <3> QED
      BY <2>1, <3>1
  <2>7. CASE Opened(i) \/ OpenFails(i)
    <3>1. lock' = {} /\ pc[i] = "opening"
      BY <2>7 DEF Opened, OpenFails
    <3>2. (\E how \in {"ok", "failed"} : Ends(i, how)) \/ Goes(i, "asking again")
      BY <2>7 DEF Opened, OpenFails
    <3>3. pc'[i] \notin Locked
      BY <3>2 DEF Ends, Goes, TypeOK
    <3> QED
      BY <2>1, <3>1, <3>3
  <2> QED
    BY <1>2, <2>3, <2>4, <2>5, <2>6, <2>7, QuietForms
<1> QED
  BY <1>1, <1>2 DEF Next, InstanceStep

LEMMA StampTellsStep ==
    ASSUME TypeOK, StampTells, Next
    PROVE  StampTells'
<1> USE DEF StampTells
<1>1. CASE Tick \/ Battery \/ TakesLate \/ SessionEnds
  BY <1>1 DEF Tick, Battery, TakesLate, SessionEnds, files, throttling
<1>2. ASSUME NEW i \in Instances, InstanceStep(i)
      PROVE  StampTells'
  <2>1. \A k \in Instances \ {i} : pc'[k] = pc[k]
    BY <1>2, OwnForms DEF OwnType
  <2>2. CASE Quiet(i)
    BY <2>1, <2>2 DEF Quiet, Locked, throttling
  <2>3. CASE ReadsStamp(i) \/ LockedOut(i) \/ Locks(i) \/ Opened(i) \/ OpenFails(i)
    <3>1. stamp' = stamp /\ lastPost' = lastPost /\ pc[i] # "stamping"
      BY <2>3 DEF ReadsStamp, LockedOut, Locks, Opened, OpenFails, files, throttling
    <3> QED
      BY <2>1, <3>1
  <2>4. CASE Truncates(i)
    <3>1. pc'[i] = "stamping"
      BY <2>4 DEF Truncates, Goes, TypeOK
    <3> QED
      BY <3>1
  <2>5. CASE Posts(i) \/ Clears(i)
    BY <2>5 DEF Posts, Clears
  <2> QED
    BY <1>2, <2>2, <2>3, <2>4, <2>5, QuietForms
<1> QED
  BY <1>1, <1>2 DEF Next, InstanceStep

LEMMA HasWaitedStep ==
    ASSUME TypeOK, OneHoldsLock, StampTells, HasWaited, Next
    PROVE  HasWaited'
<1> USE DEF HasWaited
<1>1. CASE Tick \/ Battery \/ TakesLate \/ SessionEnds
  BY <1>1 DEF Tick, Battery, TakesLate, SessionEnds, throttling, own
<1>2. ASSUME NEW i \in Instances, InstanceStep(i)
      PROVE  HasWaited'
  <2>1. \A k \in Instances \ {i} : pc'[k] = pc[k] /\ now'[k] = now[k]
    BY <1>2, OwnForms DEF OwnType
  <2>2. CASE Quiet(i)
    BY <2>1, <2>2 DEF Quiet, Locked, throttling
  <2>3. CASE ReadsStamp(i)
    <3>1. missed \subseteq missed' /\ lastPost' = lastPost
      BY <2>3 DEF ReadsStamp
    <3>2. CASE TooSoon(i)
      <4>1. pc'[i] = "throttled"
        BY <2>3, <3>2, EndsForms DEF ReadsStamp
      <4> QED
        BY <2>1, <3>1, <4>1
    <3>3. CASE ~TooSoon(i)
      <4>1. now'[i] = now[i]
        BY <2>3, <3>3 DEF ReadsStamp, own
      <4>2. ASSUME i \notin missed'
            PROVE  \A t \in lastPost : now[i] - t >= Throttle
        <5>1. \A k \in lock : pc[k] # "stamping"
          BY <2>3, <3>3, <4>2 DEF ReadsStamp
        <5>2. lastPost \subseteq stamp
          BY <5>1 DEF OneHoldsLock, Locked, StampTells
        <5>3. ASSUME NEW t \in stamp
              PROVE  now[i] - t >= Throttle
          <6>1. now[i] \in Int /\ t \in Int /\ Throttle \in Int
            BY <5>3, Bounds DEF TypeOK
          <6>2. ~(now[i] - t < Throttle)
            BY <3>3, <5>3 DEF TooSoon
          <6> QED
            BY <6>1, <6>2
        <5> QED
          BY <5>2, <5>3
      <4> QED
        BY <2>1, <3>1, <4>1, <4>2
    <3> QED
      BY <3>2, <3>3
  <2>4. CASE Locks(i) \/ Truncates(i)
    <3>1. now' = now /\ missed' = missed /\ lastPost' = lastPost
          /\ pc[i] \in {"locking", "truncating"}
      BY <2>4 DEF Locks, Truncates, own, throttling
    <3> QED
      BY <2>1, <3>1
  <2>5. CASE LockedOut(i)
    <3>1. missed' = missed \ {i} /\ lastPost' = lastPost /\ pc'[i] = "throttled"
      BY <2>5, EndsForms DEF LockedOut
    <3> QED
      BY <2>1, <3>1
  <2>6. CASE Posts(i)
    <3>1. /\ missed' = (missed \cup {k \in Instances : pc[k] = "locking"}) \ {i}
          /\ pc[i] = "stamping" /\ pc'[i] = "opening"
      BY <2>6 DEF Posts, Goes, TypeOK
    <3>2. \A k \in Instances \ {i} : pc[k] \notin {"truncating", "stamping"}
      BY <3>1 DEF OneHoldsLock, Locked
    <3> QED
      BY <2>1, <3>1, <3>2
  <2>7. CASE Opened(i) \/ OpenFails(i)
    <3>1. missed' = missed /\ lastPost' = lastPost
      BY <2>7 DEF Opened, OpenFails, throttling
    <3>2. (\E how \in {"ok", "failed"} : Ends(i, how)) \/ Goes(i, "asking again")
      BY <2>7 DEF Opened, OpenFails
    <3>3. pc'[i] \notin {"locking", "truncating", "stamping"}
      BY <3>2 DEF Ends, Goes, TypeOK
    <3> QED
      BY <2>1, <3>1, <3>3
  <2>8. CASE Clears(i)
    BY <2>8 DEF Clears
  <2> QED
    BY <1>2, <2>2, <2>3, <2>4, <2>5, <2>6, <2>7, <2>8, QuietForms
<1> QED
  BY <1>1, <1>2 DEF Next, InstanceStep

----------------------------------------------------------------------------
(* The low battery *)

(* A step of i that has to do neither with the battery nor with its flag. *)
Elsewhere(i) ==
    /\ UNCHANGED <<flag, low, noticing>>
    /\ pc[i] \notin Noticing
    /\ pc'[i] \notin Noticing

LEMMA ElsewhereForms ==
    ASSUME TypeOK, NEW i \in Instances, InstanceStep(i)
    PROVE  \/ \E lacks \in SUBSET Parts : Answered(i, lacks)
           \/ LooksAtBattery(i) \/ Touches(i) \/ Notifies(i)
           \/ Elsewhere(i)
<1> USE DEF Elsewhere, Noticing, files
<1>1. ASSUME NEW how \in {"ok", "failed", "throttled"}, Ends(i, how)
      PROVE  pc'[i] \notin Noticing
  BY <1>1, EndsForms
<1>2. ASSUME NEW to \in Places \ Noticing, Goes(i, to)
      PROVE  pc'[i] \notin Noticing
  BY <1>2 DEF Goes, TypeOK
<1>3. {"looking", "comparing", "locking", "truncating", "stamping", "opening", "asking again",
       "clearing"} \subseteq Places \ Noticing
  BY DEF Places
<1>4. ASSUME NEW j \in Jobs, Start(i, j) \/ Picks(i, j)
      PROVE  Elsewhere(i)
  <2>1. pc'[i] \in {"posting", "dropping", "asking"}
    BY <1>4, RunForms DEF Start, Picks
  <2> QED
    BY <1>4, <2>1 DEF Start, Picks, Ended
<1>5. CASE Unanswered(i) \/ ReadsClock(i) \/ Drops(i)
  BY <1>1, <1>2, <1>3, <1>5 DEF Unanswered, ReadsClock, Drops
<1>6. CASE ReadsStamp(i) \/ Locks(i) \/ LockedOut(i) \/ Truncates(i) \/ Posts(i)
  BY <1>1, <1>2, <1>3, <1>6 DEF ReadsStamp, Locks, LockedOut, Truncates, Posts
<1>7. CASE Opened(i) \/ OpenFails(i) \/ Clears(i)
  BY <1>1, <1>2, <1>3, <1>7 DEF Opened, OpenFails, Clears
<1>8. CASE Accepted(i) \/ Rejected(i) \/ Dismisses(i)
  BY <1>1, <1>8 DEF Accepted, Rejected, Dismisses
<1> QED
  BY <1>4, <1>5, <1>6, <1>7, <1>8 DEF InstanceStep

LEMMA FlagTellsStep ==
    ASSUME TypeOK, FlagTells, Next
    PROVE  FlagTells'
<1> USE DEF FlagTells
<1> SUFFICES ASSUME ~crowded'
             PROVE  FlagTells'
  OBVIOUS
<1>1. CASE Tick \/ TakesLate \/ SessionEnds
  <2>1. UNCHANGED <<pc, status, flag, low, notices, crowded>>
    BY <1>1 DEF Tick, TakesLate, SessionEnds, files, own, noticing
  <2> QED
    BY <2>1
<1>2. CASE Battery
  <2>1. UNCHANGED <<pc, status, flag>>
    BY <1>2 DEF Battery, files, own
  <2>2. CASE low'
    <3>1. notices' = 0 /\ \A i \in Instances : pc[i] \notin Noticing
      BY <1>2, <2>2 DEF Battery, Noticing
    <3>2. \A i \in Instances : pc'[i] \notin Noticing
      BY <2>1, <3>1
    <3>3. notices' \in {0, 1} /\ notices' # 1
      BY <3>1
    <3>4. \A i \in Instances : pc'[i] \notin {"checking", "touching", "notifying"}
      BY <3>2 DEF Noticing
    <3> QED
      BY <3>2, <3>3, <3>4
  <2>3. CASE ~low'
    <3>1. notices' = notices /\ crowded' = crowded
      BY <1>2, <2>3 DEF Battery, noticing
    <3> QED
      BY <2>1, <2>3, <3>1
  <2> QED
    BY <2>2, <2>3
<1>3. ASSUME NEW i \in Instances, InstanceStep(i)
      PROVE  FlagTells'
  <2>1. \A k \in Instances \ {i} : pc'[k] = pc[k] /\ status'[k] = status[k]
    BY <1>3, OwnForms DEF OwnType
  <2>2. CASE Elsewhere(i)
    <3>1. UNCHANGED <<flag, low, notices, crowded>>
      BY <2>2 DEF Elsewhere, noticing
    <3>2. \A k \in Instances :
             pc'[k] \in Noticing => k # i /\ pc'[k] = pc[k] /\ status'[k] = status[k]
      BY <2>1, <2>2 DEF Elsewhere
    <3>3. ~crowded /\ FlagTells
      BY <3>1
    <3>4. \A k, l \in Instances : pc'[k] \in Noticing /\ pc'[l] \in Noticing => k = l
      BY <3>2, <3>3
    <3>5. ASSUME NEW k \in Instances
          PROVE  /\ pc'[k] = "checking" /\ low' => \A r \in status'[k] : FALSE \notin r.low
                 /\ pc'[k] = "touching" => notices' = 0
                 /\ pc'[k] = "notifying" => notices' = 0 /\ flag'
                 /\ pc'[k] = "checking" /\ notices' = 1 =>
                       flag' \/ \A r \in status'[k] : TRUE \notin r.low
      BY <3>1, <3>2, <3>3 DEF Noticing
    <3> QED
      BY <3>1, <3>3, <3>4, <3>5
  <2>3. ASSUME NEW lacks, Answered(i, lacks)
        PROVE  FlagTells'
    <3>1. UNCHANGED <<flag, low, notices>> /\ status'[i] = {Reading(lacks)}
      BY <2>3 DEF Answered, files, TypeOK
    <3>2. ~crowded
      BY <2>3 DEF Answered
    <3>3. CASE job[i].command # "status"
      <4>1. pc'[i] \in {"picking", "posting"}
        BY <2>3, <3>3 DEF Answered, Goes, TypeOK
      <4> QED
        BY <2>1, <3>1, <3>2, <4>1 DEF Noticing
    <3>4. CASE job[i].command = "status"
      <4>1. pc'[i] = "checking"
        BY <2>3, <3>4 DEF Answered, Goes, TypeOK
      <4>2. \A k \in Instances \ {i} : pc[k] \notin Noticing
        BY <2>3, <3>4 DEF Answered, Noticing
      <4>3. Reading(lacks).low \in {{}, {low}} /\ low \in BOOLEAN
        BY DEF Reading, TypeOK
      <4>4. low => FALSE \notin Reading(lacks).low
        BY <4>3
      <4>5. notices = 1 => flag \/ TRUE \notin Reading(lacks).low
        BY <3>2, <4>3
      <4> QED
        BY <2>1, <3>1, <3>2, <4>1, <4>2, <4>4, <4>5 DEF Noticing
    <3> QED
      BY <3>3, <3>4
  <2>4. CASE LooksAtBattery(i)
    <3>1. UNCHANGED <<low, notices, crowded>> /\ pc[i] = "checking"
      BY <2>4 DEF LooksAtBattery, noticing
    <3>2. \A k \in Instances \ {i} : pc[k] \notin Noticing
      BY <3>1 DEF Noticing
    <3>3. PICK read \in status[i] :
             IF read.low = {} THEN Ends(i, "ok") /\ UNCHANGED flag
             ELSE \E isLow \in read.low :
                     /\ ClearsFlag(isLow)
                     /\ IF isLow /\ ~flag
                        THEN /\ Goes(i, "touching")
                             /\ status' = [status EXCEPT ![i] = {}]
                             /\ UNCHANGED <<job, now>>
                        ELSE Ends(i, "ok")
      BY <2>4 DEF LooksAtBattery
    <3>4. CASE read.low = {}
      <4>1. pc'[i] = "ok" /\ flag' = flag
        BY <3>3, <3>4, EndsForms
      <4> QED
        BY <2>1, <3>1, <3>2, <4>1 DEF Noticing
    <3>5. CASE read.low # {}
      <4>1. PICK isLow \in read.low :
               /\ ClearsFlag(isLow)
               /\ IF isLow /\ ~flag THEN Goes(i, "touching") ELSE Ends(i, "ok")
        BY <3>3, <3>5
      <4>2. isLow \in BOOLEAN
        <5>1. read \in Readings
          BY DEF TypeOK
        <5>2. read.low \in Optional(BOOLEAN)
          BY <5>1 DEF Readings
        <5> QED
          BY <4>1, <5>2 DEF Optional
      <4>3. low => isLow
        BY <3>1, <4>1, <4>2
      <4>4. CASE isLow /\ ~flag
        <5>1. pc'[i] = "touching"
          BY <4>1, <4>4 DEF Goes, TypeOK
        <5>2. notices = 0
          BY <3>1, <4>1, <4>2, <4>4
        <5>3. notices' = 0
          BY <3>1, <5>2
        <5>4. \A k \in Instances : pc'[k] \in Noticing => k = i
          BY <2>1, <3>2
        <5>5. ASSUME NEW k \in Instances
              PROVE  pc'[k] \notin {"checking", "notifying"}
          BY <5>1, <5>4 DEF Noticing
        <5>6. notices' \in {0, 1} /\ notices' # 1
          BY <5>3
        <5> QED
          BY <5>3, <5>4, <5>5, <5>6
      <4>5. CASE ~(isLow /\ ~flag)
        <5>1. pc'[i] = "ok"
          BY <4>1, <4>5, EndsForms
        <5>2. flag' = (flag /\ isLow)
          BY <4>1 DEF ClearsFlag
        <5>3. notices = 1 /\ low => flag'
          BY <3>1, <4>3, <5>2
        <5> QED
          BY <2>1, <3>1, <3>2, <5>1, <5>3 DEF Noticing
      <4> QED
        BY <4>4, <4>5
    <3> QED
      BY <3>4, <3>5
  <2>5. CASE Touches(i)
    <3>1. /\ UNCHANGED <<low, notices, crowded>>
          /\ flag' = TRUE /\ pc[i] = "touching" /\ pc'[i] = "notifying"
      BY <2>5 DEF Touches, noticing, Goes, TypeOK
    <3>2. \A k \in Instances \ {i} : pc[k] \notin Noticing
      BY <3>1 DEF Noticing
    <3> QED
      BY <2>1, <3>1, <3>2 DEF Noticing
  <2>6. CASE Notifies(i)
    <3>1. /\ UNCHANGED <<flag, low, crowded>> /\ pc[i] = "notifying"
          /\ notices' = IF notices < 2 THEN notices + 1 ELSE notices
      BY <2>6 DEF Notifies, files
    <3>2. \A k \in Instances \ {i} : pc[k] \notin Noticing
      BY <3>1 DEF Noticing
    <3>3. pc'[i] = "ok"
      BY <2>6, EndsForms DEF Notifies
    <3>4. notices = 0 /\ flag
      BY <3>1
    <3>5. notices' = 1
      BY <3>1, <3>4
    <3> QED
      BY <2>1, <3>1, <3>2, <3>3, <3>4, <3>5 DEF Noticing
  <2> QED
    BY <1>3, <2>2, <2>3, <2>4, <2>5, <2>6, ElsewhereForms
<1> QED
  BY <1>1, <1>2, <1>3 DEF Next, InstanceStep

----------------------------------------------------------------------------
(* A click that nothing disturbs *)

LEMMA DisturbsForms ==
    ASSUME NEW i \in Instances, Disturbs(i), NEW k \in Instances, before'[k] # {}
    PROVE  k = i /\ before'[i] = before[i] /\ pc'[i] \notin {"ok", "failed", "throttled"}
BY DEF Disturbs

(* A step of i that is neither its first nor its last, and no status. *)
GoesOn(i) ==
    /\ job'[i] = job[i]
    /\ headset' = headset
    /\ status'[i] \in {status[i], {}}
    /\ job[i].command = "reconnect" /\ pc'[i] \in {"looking", "comparing"} =>
          stamp' = {} \/ (pc[i] = "looking" /\ stamp' = stamp)

LEMMA GoesOnForms ==
    ASSUME TypeOK, AtItsJob, NEW i \in Instances, InstanceStep(i)
    PROVE  \/ \E j \in Jobs : Start(i, j) \/ Picks(i, j)
           \/ \E lacks \in SUBSET Parts : Answered(i, lacks)
           \/ Disturbs(i) /\ pc'[i] \in {"ok", "failed", "throttled"}
           \/ GoesOn(i) /\ (Disturbs(i) \/ before' = [k \in Instances |-> {}])
<1> USE DEF GoesOn, own, files
<1>1. ASSUME NEW how \in {"ok", "failed", "throttled"}, Ends(i, how)
      PROVE  pc'[i] \in {"ok", "failed", "throttled"}
  BY <1>1, EndsForms
<1>2. ASSUME NEW to, Goes(i, to)
      PROVE  pc'[i] = to
  BY <1>2 DEF Goes, TypeOK
<1>3. CASE Unanswered(i)
  <2>1. CASE \E how \in {"ok", "failed", "throttled"} : Ends(i, how)
    BY <1>1, <1>3, <2>1 DEF Unanswered
  <2>2. CASE pc[i] = "asking" /\ UNCHANGED own
    <3>1. job[i].command # "reconnect"
      BY <2>2 DEF AtItsJob, Cycles
    <3> QED
      BY <1>3, <2>2, <3>1 DEF Unanswered
  <2> QED
    BY <1>3, <2>1, <2>2 DEF Unanswered
<1>4. CASE ReadsClock(i)
  BY <1>4 DEF ReadsClock
<1>5. CASE ReadsStamp(i)
  <2>1. CASE TooSoon(i)
    BY <1>1, <1>5, <2>1 DEF ReadsStamp
  <2>2. CASE ~TooSoon(i)
    <3>1. pc'[i] = "locking"
      BY <1>2, <1>5, <2>2 DEF ReadsStamp
    <3> QED
      BY <1>5, <2>2, <3>1 DEF ReadsStamp
  <2> QED
    BY <2>1, <2>2
<1>6. CASE LockedOut(i) \/ OpenFails(i) \/ Notifies(i) \/ Accepted(i) \/ Rejected(i) \/ Dismisses(i)
  BY <1>1, <1>6 DEF LockedOut, OpenFails, Notifies, Accepted, Rejected, Dismisses
<1>7. CASE Locks(i) \/ Truncates(i) \/ Posts(i) \/ Touches(i)
  <2>1. pc'[i] \in {"truncating", "stamping", "opening", "notifying"}
    BY <1>2, <1>7 DEF Locks, Truncates, Posts, Touches
  <2> QED
    BY <1>7, <2>1 DEF Locks, Truncates, Posts, Touches
<1>8. CASE Opened(i)
  <2>1. CASE job[i].command = "reconnect"
    BY <1>1, <1>8, <2>1 DEF Opened
  <2>2. CASE job[i].command # "reconnect"
    BY <1>8, <2>2 DEF Opened
  <2> QED
    BY <2>1, <2>2
<1>9. CASE LooksAtBattery(i)
  <2>1. Disturbs(i) /\ UNCHANGED <<stamp, headset>>
    BY <1>9 DEF LooksAtBattery
  <2>2. \/ Ends(i, "ok")
        \/ Goes(i, "touching") /\ status' = [status EXCEPT ![i] = {}] /\ job' = job
    BY <1>9 DEF LooksAtBattery
  <2>3. CASE Ends(i, "ok")
    BY <1>1, <2>1, <2>3
  <2>4. CASE Goes(i, "touching") /\ status' = [status EXCEPT ![i] = {}] /\ job' = job
    <3>1. pc'[i] = "touching" /\ status'[i] = {}
      BY <1>2, <2>4 DEF TypeOK
    <3> QED
      BY <2>1, <2>4, <3>1
  <2> QED
    BY <2>2, <2>3, <2>4
<1>10. CASE Drops(i)
  <2>1. pc'[i] = "clearing"
    BY <1>2, <1>10 DEF Drops
  <2> QED
    BY <1>10, <2>1 DEF Drops
<1>11. CASE Clears(i)
  <2>1. CASE Ends(i, "failed")
    BY <1>1, <1>11, <2>1 DEF Clears
  <2>2. CASE UNCHANGED own
    BY <1>11, <2>2 DEF Clears
  <2> QED
    BY <1>11, <2>1, <2>2 DEF Clears
<1> QED
  BY <1>3, <1>4, <1>5, <1>6, <1>7, <1>8, <1>9, <1>10, <1>11 DEF InstanceStep

LEMMA AloneWithHeadsetStep ==
    ASSUME TypeOK, AtItsJob, AloneWithHeadset, Next
    PROVE  AloneWithHeadset'
<1> DEFINE Same == headset' = headset
<1>0. Same => /\ Reading({})'.noise = Reading({}).noise
              /\ Reading({})'.dsee = Reading({}).dsee
              /\ Reading({})'.guidance = Reading({}).guidance
  BY DEF Reading
<1>1. CASE Tick \/ Battery
  <2>1. UNCHANGED <<pc, job, status, before, headset, stamp>>
    BY <1>1 DEF Tick, Battery, files, own
  <2> QED
    BY <1>0, <2>1 DEF AloneWithHeadset, Ended
<1>2. CASE TakesLate \/ SessionEnds
  BY <1>2 DEF TakesLate, SessionEnds, Undisturbed, AloneWithHeadset
<1>3. ASSUME NEW i \in Instances, InstanceStep(i)
      PROVE  AloneWithHeadset'
  <2> DEFINE Alone(k) ==
        /\ pc'[k] \notin {"ok", "failed", "throttled"} /\ job'[k].command # "status"
        /\ \A j \in Instances \ {k} : pc'[j] \in {"ok", "failed", "throttled"}
        /\ before'[k] = {headset'}
        /\ \A r \in status'[k] :
              /\ r.noise = Reading({})'.noise
              /\ r.dsee = Reading({})'.dsee
              /\ r.guidance = Reading({})'.guidance
        /\ job'[k].command = "reconnect" /\ pc'[k] \in {"looking", "comparing"} => stamp' = {}
  <2>0. SUFFICES ASSUME NEW k \in Instances, before'[k] # {}
                 PROVE  Alone(k)
    BY DEF AloneWithHeadset, Ended
  <2>1. \A j \in Instances \ {i} : pc'[j] = pc[j] /\ job'[j] = job[j] /\ status'[j] = status[j]
    BY <1>3, OwnForms DEF OwnType
  <2>2. ASSUME NEW j \in Jobs, Start(i, j) \/ Picks(i, j)
        PROVE  Alone(k)
    <3>1. pc'[i] \in {"posting", "dropping", "asking"} /\ job'[i] = j /\ status'[i] = {}
      BY <2>2, RunForms DEF Start, Picks
    <3>2. headset' = headset
      BY <2>2 DEF Start, Picks
    <3>3. before'[k] = IF /\ k = i /\ j.command # "status"
                          /\ late = <<>> /\ \A o \in Instances \ {i} : Ended(o)
                       THEN {headset} ELSE {}
      BY <2>2 DEF Start, Picks, Run
    <3>4. k = i /\ j.command # "status" /\ \A o \in Instances \ {i} : Ended(o)
      BY <2>0, <3>3
    <3>5. \A o \in Instances \ {i} : pc'[o] \in {"ok", "failed", "throttled"}
      BY <2>1, <3>4 DEF Ended
    <3>6. before'[i] = {headset'}
      <4>1. before'[k] = {headset}
        BY <2>0, <3>3, Zenon
      <4> QED
        BY <3>2, <3>4, <4>1
    <3> QED
      BY <3>1, <3>4, <3>5, <3>6
  <2>3. ASSUME NEW lacks \in SUBSET Parts, Answered(i, lacks)
        PROVE  Alone(k)
    <3>1. k = i /\ lacks = {} /\ before'[i] = before[i]
      BY <2>0, <2>3 DEF Answered
    <3>2. UNCHANGED <<headset, stamp, job>> /\ status'[i] = {Reading({})}
      BY <2>3, <3>1 DEF Answered, TypeOK, files
    <3>3. pc'[i] \in {"checking", "picking", "posting"}
      BY <2>3 DEF Answered, Goes, TypeOK
    <3>4. /\ job[i].command # "status" /\ before[i] = {headset}
          /\ \A j \in Instances \ {i} : Ended(j)
      BY <2>0, <3>1 DEF AloneWithHeadset
    <3>5. \A j \in Instances \ {i} : pc'[j] \in {"ok", "failed", "throttled"}
      BY <2>1, <3>4 DEF Ended
    <3>6. \A r \in status'[i] :
             /\ r.noise = Reading({})'.noise
             /\ r.dsee = Reading({})'.dsee
             /\ r.guidance = Reading({})'.guidance
      BY <1>0, <3>2
    <3>7. before'[i] = {headset'} /\ job'[i].command # "status"
      BY <3>1, <3>2, <3>4
    <3> QED
      BY <3>1, <3>3, <3>5, <3>6, <3>7
  <2>4. CASE Disturbs(i) /\ pc'[i] \in {"ok", "failed", "throttled"}
    BY <2>0, <2>4, DisturbsForms
  <2>5. CASE GoesOn(i) /\ (Disturbs(i) \/ before' = [l \in Instances |-> {}])
    <3>1. k = i /\ before'[i] = before[i] /\ pc'[i] \notin {"ok", "failed", "throttled"}
      BY <2>0, <2>5, DisturbsForms
    <3>2. /\ job'[i] = job[i] /\ headset' = headset /\ status'[i] \in {status[i], {}}
          /\ job[i].command = "reconnect" /\ pc'[i] \in {"looking", "comparing"} =>
                stamp' = {} \/ (pc[i] = "looking" /\ stamp' = stamp)
      BY <2>5 DEF GoesOn
    <3>3. /\ job[i].command # "status" /\ before[i] = {headset}
          /\ \A j \in Instances \ {i} : Ended(j)
          /\ \A r \in status[i] :
                /\ r.noise = Reading({}).noise
                /\ r.dsee = Reading({}).dsee
                /\ r.guidance = Reading({}).guidance
          /\ job[i].command = "reconnect" /\ pc[i] \in {"looking", "comparing"} => stamp = {}
      BY <2>0, <3>1 DEF AloneWithHeadset
    <3>4. \A j \in Instances \ {i} : pc'[j] \in {"ok", "failed", "throttled"}
      BY <2>1, <3>3 DEF Ended
    <3>5. \A r \in status'[i] :
             /\ r.noise = Reading({})'.noise
             /\ r.dsee = Reading({})'.dsee
             /\ r.guidance = Reading({})'.guidance
      <4>1. \A r \in status'[i] : r \in status[i]
        BY <3>2
      <4> QED
        BY <1>0, <3>2, <3>3, <4>1
    <3>6. job'[i].command = "reconnect" /\ pc'[i] \in {"looking", "comparing"} => stamp' = {}
      BY <3>2, <3>3
    <3>7. before'[i] = {headset'} /\ job'[i].command # "status"
      BY <3>1, <3>2, <3>3
    <3> QED
      BY <3>1, <3>4, <3>5, <3>6, <3>7
  <2> QED
    BY <1>3, <2>2, <2>3, <2>4, <2>5, GoesOnForms
<1> QED
  BY <1>1, <1>2, <1>3 DEF Next, InstanceStep

----------------------------------------------------------------------------
(* The theorems *)

LEMMA Initial == Init => IInv
<1> SUFFICES ASSUME Init
             PROVE  IInv
  OBVIOUS
<1> USE DEF Init
<1>1. TypeOK
  <2>1. clock \in 0 .. MaxTime /\ now \in [Instances -> 0 .. MaxTime]
    BY Bounds
  <2>2. headset \in Headset
    BY WaybarAssumption
  <2>3. late \in Seq(Writes) /\ Len(late) <= MaxLate
    BY Bounds
  <2>4. {flag, low, crowded} \subseteq BOOLEAN /\ session \in BOOLEAN
    BY Zenon
  <2>5. notices \in 0 .. 2
    OBVIOUS
  <2>6. /\ pc \in [Instances -> Places]
        /\ \A i \in Instances : pc[i] = "ok"
        /\ job \in [Instances -> Jobs \cup {NoJob}]
        /\ status \in [Instances -> SUBSET Readings]
        /\ before \in [Instances -> SUBSET Headset]
    BY DEF Places
  <2> QED
    BY <2>1, <2>2, <2>3, <2>4, <2>5, <2>6 DEF TypeOK
<1>2. AtItsJob
  BY DEF AtItsJob, Connecting, Noticing
<1>3. OneHoldsLock /\ StampTells /\ HasWaited
  BY DEF OneHoldsLock, StampTells, HasWaited, Locked
<1>4. FlagTells
  BY DEF FlagTells, Noticing
<1>5. AloneWithHeadset
  BY DEF AloneWithHeadset
<1> QED
  BY <1>1, <1>2, <1>3, <1>4, <1>5 DEF IInv

LEMMA Stutters == IInv /\ UNCHANGED vars => IInv'
<1> SUFFICES ASSUME IInv, UNCHANGED vars
             PROVE  IInv'
  OBVIOUS
<1>1. UNCHANGED <<clock, stamp, lock, flag, headset, low, session, late, pc, job, now, status,
                  lastPost, missed, before, notices, crowded>>
  BY DEF vars, files, own, throttling, noticing
<1> QED
  BY <1>1, ZenonT(40) DEF IInv, TypeOK, AtItsJob, OneHoldsLock, StampTells, HasWaited, FlagTells,
     AloneWithHeadset, Ended, Reading

(* The inductive invariant holds in every state that the script and its    *)
(* instances can reach.                                                    *)
THEOREM Invariance == Spec => []IInv
<1>1. IInv /\ Next => IInv'
  BY TypeStep, AtItsJobStep, OneHoldsLockStep, StampTellsStep, HasWaitedStep, FlagTellsStep,
     AloneWithHeadsetStep DEF IInv
<1>2. IInv /\ [Next]_vars => IInv'
  BY <1>1, Stutters
<1> QED
  BY Initial, <1>2, PTL DEF Spec

(* Every variable keeps its type, and a click that moves a setting on has  *)
(* read what it is.                                                        *)
THEOREM TypeCorrect == Spec => []TypeOK
<1>1. IInv => TypeOK
  BY DEF IInv
<1> QED
  BY Invariance, <1>1, PTL

(* check_low_battery notifies once per discharge, unless two instances     *)
(* looked at the flag at once, or one was looking when it began.           *)
THEOREM NoticeOncePerDischarge == Spec => []OneNoticePerDischarge
<1>1. IInv => OneNoticePerDischarge
  BY DEF IInv, FlagTells, OneNoticePerDischarge
<1> QED
  BY Invariance, <1>1, PTL

(* Two connects of connect_session are never under way at once, and one    *)
(* begins when the throttle has passed since the last, by the clock it     *)
(* read: unless reconnect has cleared the stamp, or the instance is one of *)
(* missed, which read the stamp before the last wrote it or while it was   *)
(* empty, and does connect too soon.                                       *)
THEOREM ConnectsAreThrottled == Spec => ThrottledAndSerialized
<1> DEFINE Throttled ==
        \A i \in Instances :
           pc[i] # "opening" /\ pc'[i] = "opening" =>
               /\ \A k \in Instances : pc[k] # "opening"
               /\ i \in missed \/ \A t \in lastPost : now[i] - t >= Throttle
<1>1. ASSUME IInv, Next, NEW i \in Instances, pc[i] # "opening", pc'[i] = "opening"
      PROVE  pc[i] = "stamping"
  <2>1. PICK k \in Instances : InstanceStep(k)
    <3>1. pc' # pc
      BY <1>1
    <3> QED
      BY <1>1, <3>1 DEF Next, InstanceStep, Tick, Battery, TakesLate, SessionEnds
  <2>2. k = i
    BY <1>1, <2>1, OwnForms DEF OwnType, IInv
  <2>3. CASE Quiet(i)
    BY <1>1, <2>3 DEF Quiet, Locked
  <2>4. CASE Posts(i)
    BY <2>4 DEF Posts
  <2>5. CASE ReadsStamp(i) \/ Locks(i) \/ LockedOut(i) \/ Truncates(i) \/ Clears(i)
    <3>1. \/ \E how \in {"failed", "throttled"} : Ends(i, how)
          \/ \E to \in {"locking", "truncating", "stamping", "looking"} : Goes(i, to)
      BY <2>5 DEF ReadsStamp, Locks, LockedOut, Truncates, Clears
    <3> QED
      BY <1>1, <3>1 DEF Ends, Goes, IInv, TypeOK
  <2>6. CASE Opened(i) \/ OpenFails(i)
    BY <1>1, <2>6 DEF Opened, OpenFails
  <2> QED
    BY <1>1, <2>1, <2>2, <2>3, <2>4, <2>5, <2>6, QuietForms DEF IInv
<1>2. IInv /\ Next => Throttled
  BY <1>1 DEF IInv, OneHoldsLock, HasWaited, Locked
<1>3. UNCHANGED vars => Throttled
  BY DEF vars
<1>4. IInv /\ [Next]_vars => [Throttled]_vars
  BY <1>2, <1>3
<1> QED
  BY Invariance, <1>4, PTL DEF Spec, ThrottledAndSerialized

(* What is posted after the whole status of an undisturbed headset turns   *)
(* the setting that the click is for.                                      *)
LEMMA AcceptedTurns ==
    ASSUME TypeOK, AtItsJob, AloneWithHeadset,
           NEW i \in Instances, Accepted(i), NEW was \in before[i]
    PROVE  Turned(job[i].command, was, headset')
<1> DEFINE read == OrElse(status[i], [noise |-> {}, dsee |-> {}, guidance |-> {}])
<1> DEFINE noise == OrElse(read.noise, [mode |-> "none", level |-> 0, voice |-> FALSE])
<1> DEFINE stops == {l \in {5, 10, 15, 20} : l > noise.level}
<1> DEFINE next == IF stops = {} THEN 1 ELSE CHOOSE l \in stops : \A k \in stops : l <= k
<1>1. /\ pc[i] = "posting" /\ job[i].command \in Cycles \cup {"set"}
      /\ headset' = Patched(headset, ToPost(i)) /\ headset \in Headset
  BY DEF Accepted, AtItsJob, TypeOK
<1>2. was = headset
  BY DEF AloneWithHeadset
<1>3. CASE job[i].command = "set"
  BY <1>3 DEF Turned
<1>4. ASSUME job[i].command \in Cycles
      PROVE  /\ noise = [mode |-> headset.mode, level |-> headset.level, voice |-> headset.voice]
             /\ OrElse(read.dsee, FALSE) = headset.dsee
             /\ OrElse(read.guidance, FALSE) = headset.guidance
  <2>1. status[i] # {}
    BY <1>1, <1>4 DEF TypeOK
  <2>2. read \in status[i]
    BY <2>1 DEF OrElse
  <2> HIDE DEF read
  <2>3. /\ read.noise = Reading({}).noise
        /\ read.dsee = Reading({}).dsee
        /\ read.guidance = Reading({}).guidance
    BY <2>2 DEF AloneWithHeadset
  <2>4. /\ read.noise = {[mode |-> headset.mode, level |-> headset.level, voice |-> headset.voice]}
        /\ read.dsee = {headset.dsee} /\ read.guidance = {headset.guidance}
    BY <2>3 DEF Reading
  <2>5. ASSUME NEW x, NEW y
        PROVE  OrElse({x}, y) = x
    BY DEF OrElse
  <2> QED
    BY <2>4, <2>5
<1>5. headset.level \in 0 .. 20 /\ headset.mode \in Modes
      /\ {headset.voice, headset.dsee, headset.guidance} \subseteq BOOLEAN
  BY <1>1 DEF Headset
<1>6. ASSUME NEW f \in DOMAIN headset, f \in DOMAIN ToPost(i)
      PROVE  headset'[f] = ToPost(i)[f]
  BY <1>1, <1>6 DEF Patched
<1>7. DOMAIN headset = {"mode", "level", "voice", "dsee", "guidance"}
  BY <1>1 DEF Headset
<1>8. CASE job[i].command = "anc-cycle"
  <2>1. ToPost(i) = [mode |-> CASE noise.mode = "noise_cancelling" -> "ambient"
                                [] noise.mode = "ambient" -> "off"
                                [] OTHER -> "noise_cancelling"]
    BY <1>8 DEF ToPost
  <2>2. noise.mode = headset.mode
    BY <1>4, <1>8 DEF Cycles
  <2> HIDE DEF noise
  <2>3. headset'.mode = CASE headset.mode = "noise_cancelling" -> "ambient"
                          [] headset.mode = "ambient" -> "off"
                          [] OTHER -> "noise_cancelling"
    BY <1>6, <1>7, <2>1, <2>2
  <2>4. <<headset.mode, headset'.mode>> \in
           {<<"noise_cancelling", "ambient">>, <<"ambient", "off">>, <<"off", "noise_cancelling">>}
    BY <1>5, <2>3 DEF Modes
  <2> QED
    BY <1>2, <1>8, <2>4 DEF Turned
<1>9. CASE job[i].command = "ambient-cycle"
  <2>1. ToPost(i) = [mode |-> "ambient", level |-> next]
    BY <1>9 DEF ToPost
  <2>2. noise.level = headset.level
    BY <1>4, <1>9 DEF Cycles
  <2> HIDE DEF noise
  <2>3. next \in {1, 5, 10, 15, 20} \ {headset.level}
    BY <1>5, <2>2, StopsMove
  <2> HIDE DEF next
  <2>4. headset'.mode = "ambient" /\ headset'.level = next
    BY <1>6, <1>7, <2>1
  <2> QED
    BY <1>2, <1>9, <2>3, <2>4 DEF Turned
<1>10. CASE job[i].command = "voice-toggle"
  <2>1. ToPost(i) = [mode |-> "ambient", voice |-> ~noise.voice]
    BY <1>10 DEF ToPost
  <2>2. noise.voice = headset.voice
    BY <1>4, <1>10 DEF Cycles
  <2> HIDE DEF noise
  <2>3. headset'.voice = ~headset.voice
    BY <1>6, <1>7, <2>1, <2>2
  <2> QED
    BY <1>2, <1>5, <1>10, <2>3 DEF Turned
<1>11. CASE job[i].command = "dsee-toggle"
  <2>1. ToPost(i) = [dsee |-> ~OrElse(read.dsee, FALSE)]
    BY <1>11 DEF ToPost
  <2>2. OrElse(read.dsee, FALSE) = headset.dsee
    BY <1>4, <1>11 DEF Cycles
  <2> HIDE DEF read
  <2>3. headset'.dsee # headset.dsee
    <3>1. headset'.dsee = ToPost(i).dsee
      BY <1>6, <1>7, <2>1
    <3>2. CASE headset.dsee = TRUE
      <4>1. ToPost(i) = [dsee |-> FALSE]
        BY <2>1, <2>2, <3>2, Zenon
      <4>2. ToPost(i).dsee = FALSE
        BY <4>1
      <4> QED
        BY <3>1, <3>2, <4>2, Zenon
    <3>3. CASE headset.dsee = FALSE
      <4>1. ToPost(i) = [dsee |-> TRUE]
        BY <2>1, <2>2, <3>3, Zenon
      <4>2. ToPost(i).dsee = TRUE
        BY <4>1
      <4> QED
        BY <3>1, <3>3, <4>2, Zenon
    <3> QED
      BY <1>5, <3>2, <3>3
  <2> QED
    BY <1>2, <1>11, <2>3 DEF Turned
<1>12. CASE job[i].command = "voice-toggle-guide"
  <2>1. ToPost(i) = [guidance |-> ~OrElse(read.guidance, FALSE)]
    BY <1>12 DEF ToPost
  <2>2. OrElse(read.guidance, FALSE) = headset.guidance
    BY <1>4, <1>12 DEF Cycles
  <2> HIDE DEF read
  <2>3. headset'.guidance # headset.guidance
    <3>1. headset'.guidance = ToPost(i).guidance
      BY <1>6, <1>7, <2>1
    <3>2. CASE headset.guidance = TRUE
      <4>1. ToPost(i) = [guidance |-> FALSE]
        BY <2>1, <2>2, <3>2, Zenon
      <4>2. ToPost(i).guidance = FALSE
        BY <4>1
      <4> QED
        BY <3>1, <3>2, <4>2, Zenon
    <3>3. CASE headset.guidance = FALSE
      <4>1. ToPost(i) = [guidance |-> TRUE]
        BY <2>1, <2>2, <3>3, Zenon
      <4>2. ToPost(i).guidance = TRUE
        BY <4>1
      <4> QED
        BY <3>1, <3>3, <4>2, Zenon
    <3> QED
      BY <1>5, <3>2, <3>3
  <2> QED
    BY <1>2, <1>12, <2>3 DEF Turned
<1> QED
  BY <1>1, <1>3, <1>8, <1>9, <1>10, <1>11, <1>12 DEF Cycles

(* A toggle or cycle alone from its start to its end, with a whole status, *)
(* that ends ok does what the usage says of it: it turns its setting,      *)
(* whatever that was.  A reconnect alone is not held up by the throttle.   *)
(* Nothing is said of a set, or of the menu itself.                        *)
THEOREM ClicksTakeEffect == Spec => AloneClickTakesEffect
<1> DEFINE Effect ==
        \A i \in Instances :
           \A was \in before[i] :
               /\ pc'[i] = "ok" => Turned(job[i].command, was, headset')
               /\ pc'[i] = "throttled" => job[i].command # "reconnect"
<1>1. ASSUME IInv, Next, NEW i \in Instances, before[i] # {},
             pc'[i] \in {"ok", "failed", "throttled"}
      PROVE  InstanceStep(i) /\ job[i].command # "status"
  <2>1. ~Ended(i) /\ job[i].command # "status"
    BY <1>1 DEF IInv, AloneWithHeadset
  <2>2. pc'[i] # pc[i]
    BY <1>1, <2>1 DEF Ended
  <2>3. PICK k \in Instances : InstanceStep(k)
    <3>1. pc' # pc
      BY <2>2
    <3> QED
      BY <1>1, <3>1 DEF Next, InstanceStep, Tick, Battery, TakesLate, SessionEnds
  <2>4. k = i
    BY <1>1, <2>2, <2>3, OwnForms DEF OwnType, IInv
  <2> QED
    BY <2>1, <2>3, <2>4
<1>2. ASSUME IInv, Next, NEW i \in Instances, NEW was \in before[i], pc'[i] = "ok"
      PROVE  Turned(job[i].command, was, headset')
  <2>1. InstanceStep(i) /\ job[i].command # "status"
    BY <1>1, <1>2
  <2>2. CASE Accepted(i)
    BY <1>2, <2>2, AcceptedTurns DEF IInv
  <2>3. CASE Opened(i)
    <3>1. job[i].command = "reconnect"
      BY <1>2, <2>3 DEF Opened, Goes, IInv, TypeOK
    <3> QED
      BY <3>1 DEF Turned
  <2>4. CASE LooksAtBattery(i) \/ Touches(i) \/ Notifies(i)
    <3>1. pc[i] \in Noticing
      BY <2>4 DEF LooksAtBattery, Touches, Notifies, Noticing
    <3> QED
      BY <1>2, <2>1, <3>1 DEF IInv, AtItsJob
  <2>5. ASSUME NEW j \in Jobs, Start(i, j) \/ Picks(i, j)
        PROVE  FALSE
    BY <1>2, <2>5, RunForms DEF Start, Picks, IInv
  <2>6. ASSUME NEW lacks, Answered(i, lacks)
        PROVE  FALSE
    BY <1>2, <2>6 DEF Answered, Goes, IInv, TypeOK
  <2>7. CASE \/ Unanswered(i) \/ ReadsClock(i) \/ ReadsStamp(i) \/ Locks(i) \/ LockedOut(i)
             \/ Truncates(i) \/ Posts(i) \/ OpenFails(i) \/ Rejected(i) \/ Drops(i) \/ Clears(i)
    <3>1. \/ \E how \in {"failed", "throttled"} : Ends(i, how)
          \/ \E to \in {"looking", "comparing", "locking", "truncating", "stamping", "opening",
                        "clearing"} : Goes(i, to)
      BY <2>7 DEF Unanswered, ReadsClock, ReadsStamp, Locks, LockedOut, Truncates, Posts,
         OpenFails, Rejected, Drops, Clears
    <3> QED
      BY <1>2, <3>1 DEF Ends, Goes, IInv, TypeOK
  <2>8. CASE Dismisses(i)
    <3>1. job[i].command = "menu"
      BY <1>2, <2>8 DEF Dismisses, IInv, AtItsJob
    <3> QED
      BY <3>1 DEF Turned
  <2> QED
    BY <2>1, <2>2, <2>3, <2>4, <2>5, <2>6, <2>7, <2>8 DEF InstanceStep
<1>3. ASSUME IInv, Next, NEW i \in Instances, before[i] # {}, pc'[i] = "throttled",
             job[i].command = "reconnect"
      PROVE  FALSE
  <2>1. InstanceStep(i)
    BY <1>1, <1>3
  <2>2. CASE ReadsStamp(i)
    <3>1. stamp = {}
      BY <1>3, <2>2 DEF IInv, AloneWithHeadset, ReadsStamp
    <3>2. ~TooSoon(i)
      BY <3>1 DEF TooSoon
    <3> QED
      BY <1>3, <2>2, <3>2 DEF ReadsStamp, Goes, IInv, TypeOK
  <2>3. CASE LockedOut(i)
    <3>1. PICK k \in lock : TRUE
      BY <2>3 DEF LockedOut
    <3>2. k \in Instances /\ pc[k] \in Locked
      BY <1>3 DEF IInv, TypeOK, OneHoldsLock
    <3>3. k # i
      BY <2>3, <3>2 DEF LockedOut, Locked
    <3>4. Ended(k)
      BY <1>3, <3>2, <3>3 DEF IInv, AloneWithHeadset
    <3> QED
      BY <3>2, <3>4 DEF Ended, Locked
  <2>4. ASSUME NEW j \in Jobs, Start(i, j) \/ Picks(i, j)
        PROVE  FALSE
    BY <1>3, <2>4, RunForms DEF Start, Picks, IInv
  <2>5. ASSUME NEW lacks, Answered(i, lacks)
        PROVE  FALSE
    BY <1>3, <2>5 DEF Answered, Goes, IInv, TypeOK
  <2>6. CASE \/ Unanswered(i) \/ ReadsClock(i) \/ Locks(i) \/ Truncates(i) \/ Posts(i)
             \/ Opened(i) \/ OpenFails(i) \/ LooksAtBattery(i) \/ Touches(i) \/ Notifies(i)
             \/ Accepted(i) \/ Rejected(i) \/ Drops(i) \/ Clears(i) \/ Dismisses(i)
    <3>1. \/ \E how \in {"ok", "failed"} : Ends(i, how)
          \/ \E to \in {"looking", "comparing", "truncating", "stamping", "opening",
                        "asking again", "touching", "notifying", "clearing"} : Goes(i, to)
      BY <2>6 DEF Unanswered, ReadsClock, Locks, Truncates, Posts, Opened, OpenFails,
         LooksAtBattery, Touches, Notifies, Accepted, Rejected, Drops, Clears, Dismisses
    <3> QED
      BY <1>3, <3>1 DEF Ends, Goes, IInv, TypeOK
  <2> QED
    BY <2>1, <2>2, <2>3, <2>4, <2>5, <2>6 DEF InstanceStep
<1>4. IInv /\ Next => Effect
  BY <1>2, <1>3
<1>5. IInv /\ UNCHANGED vars => Effect \/ UNCHANGED vars
  OBVIOUS
<1>6. IInv /\ [Next]_vars => [Effect]_vars
  BY <1>4, <1>5
<1> QED
  BY Invariance, <1>6, PTL DEF Spec, AloneClickTakesEffect
=============================================================================
