-------------------------- MODULE ConnectionProofs --------------------------
(* Proofs about module Connection, for every value of its constants. *)
EXTENDS Connection, FiniteSetTheorems, TLAPS

----------------------------------------------------------------------------
(* Frames *)

(* A data frame carries a reading. *)
LEMMA DataCarriesReading ==
    ASSUME NEW frame \in Frames, IsData(frame)
    PROVE  frame.reading \in Readings
BY DEF Frames, IsData, Ack, Data, Bad, Damages

(* The frames the headset side delivers are frames, of the kind they say. *)
LEMMA DeliveredFrames ==
    /\ Ack \in Frames /\ IsAck(Ack)
    /\ \A r \in Readings : /\ Data(r) \in Frames
                           /\ ~IsAck(Data(r))
                           /\ Data(r).reading = r
    /\ \A d \in Damage : Bad(d) \in Frames /\ ~IsAck(Bad(d)) /\ ~IsData(Bad(d))
<1>1. Ack \in Frames /\ IsAck(Ack)
  BY DEF Frames, Ack, IsAck
<1>2. ASSUME NEW r \in Readings
      PROVE  Data(r) \in Frames /\ ~IsAck(Data(r)) /\ Data(r).reading = r
  BY DEF Frames, Data, IsAck
<1>3. ASSUME NEW d \in Damage
      PROVE  Bad(d) \in Frames /\ ~IsAck(Bad(d)) /\ ~IsData(Bad(d))
  BY DamageAssumption DEF Frames, Bad, Damages, IsAck, IsData
<1> QED
  BY <1>1, <1>2, <1>3

----------------------------------------------------------------------------
(* Type correctness *)

(* A delivered reading keeps inbox a sequence of frames. *)
LEMMA DeliveryTyped ==
    ASSUME inbox \in Seq(Frames), unacked \in Int, NEW r \in Readings, DeliverData(r)
    PROVE  inbox' \in Seq(Frames) /\ unacked' \in Int
<1>1. CASE inbox' = Append(inbox, Data(r)) /\ unacked' = unacked + 1
  <2>1. Data(r) \in Frames
    BY DeliveredFrames
  <2> QED
    BY <1>1, <2>1
<1>2. CASE (\E d \in Damage : inbox' = Append(inbox, Bad(d))) /\ UNCHANGED unacked
  <2>1. PICK d \in Damage : inbox' = Append(inbox, Bad(d))
    BY <1>2
  <2>2. Bad(d) \in Frames
    BY DeliveredFrames
  <2> QED
    BY <1>2, <2>1, <2>2
<1> QED
  BY <1>1, <1>2 DEF DeliverData

(* Dropping a session leaves every variable in its type. *)
LEMMA DropTyped ==
    ASSUME TypeOK, NEW result \in Outcomes, DropSession(result)
    PROVE  TypeOK'
<1>1. inbox' \in Seq(Frames) /\ outbox' \in Seq(Commands) /\ todo' \in Seq(Commands)
  BY DEF DropSession, NewConnection
<1>2. tx_seq' \in {0, 1} /\ lastSeq' \in {0, 1} /\ unacked' \in Int
  BY DEF DropSession, NewConnection
<1>3. data_type' \in Tables /\ linkUp' \in BOOLEAN /\ late' \in BOOLEAN
  BY DEF DropSession, NewConnection, Tables
<1>4. /\ accepts' \subseteq Features /\ seen' \subseteq Readings
      /\ expired' \in BOOLEAN /\ clean' \in BOOLEAN
  BY DEF DropSession, NoExchange
<1> QED
  BY <1>1, <1>2, <1>3, <1>4 DEF TypeOK, DropSession

(* Abandoning an exchange leaves every variable but inbox in its type. *)
LEMMA AbandonTyped ==
    ASSUME TypeOK, NEW result \in Outcomes, Abandon(result), inbox' \in Seq(Frames)
    PROVE  TypeOK'
BY DEF TypeOK, Abandon, Finish, NoExchange, Outcomes

(* Every step keeps the types. *)
LEMMA TypeStep ==
    ASSUME TypeOK, [Next]_vars
    PROVE  TypeOK'
<1> USE DEF TypeOK
<1>0. ASSUME inbox # <<>>
      PROVE  Head(inbox) \in Frames /\ Tail(inbox) \in Seq(Frames)
  BY <1>0
<1>1. CASE Open
  BY <1>1 DEF Open, history
<1>2. CASE Close
  BY <1>2, DropTyped DEF Close, Outcomes
<1>3. ASSUME NEW f \in Features, NEW w \in Writes, BeginExchange(f, w)
      PROVE  TypeOK'
  <2>1. data_type' = Table(f) /\ Table(f) \in Tables
    BY <1>3 DEF BeginExchange, Table, Tables
  <2>2. [feat |-> f, write |-> w, table |-> data_type'] \in Commands
    BY <2>1 DEF Commands
  <2>3. outbox' \in Seq(Commands)
    BY <1>3, <2>2 DEF BeginExchange
  <2>4. Held({f}, setting) \subseteq Readings
    BY DEF Held, Readings
  <2> QED
    BY <1>3, <2>1, <2>3, <2>4
    DEF BeginExchange, NoAckInFlight, NoAckIn, Outcomes
<1>4. CASE BeginFails
  BY <1>4, DropTyped DEF BeginFails, Outcomes
<1>5. CASE SendAcked
  <2>1. inbox' \in Seq(Frames) /\ tx_seq' \in {0, 1}
    BY <1>0, <1>5 DEF SendAcked
  <2> QED
    BY <1>5, <2>1 DEF SendAcked, history
<1>6. CASE SendSkipsData
  <2>1. inbox' \in Seq(Frames) /\ unacked' \in Int
    BY <1>0, <1>6 DEF SendSkipsData
  <2> QED
    BY <1>6, <2>1 DEF SendSkipsData, session, history
<1>7. CASE RecvSkipsAck
  BY <1>0, <1>7 DEF RecvSkipsAck, session, history
<1>8. CASE RecvAnswers
  <2>1. inbox' \in Seq(Frames) /\ unacked' \in Int
    BY <1>0, <1>8 DEF RecvAnswers
  <2>2. reply' \subseteq Readings
    BY <1>0, <1>8, DataCarriesReading DEF RecvAnswers
  <2>3. Finish("ok") /\ UNCHANGED <<tx_seq, late>>
    BY <1>8 DEF RecvAnswers
  <2> QED
    BY <2>1, <2>2, <2>3 DEF Finish, NoExchange, Outcomes
<1>9. CASE RecvSkipsData
  <2>1. inbox' \in Seq(Frames) /\ unacked' \in Int
    BY <1>0, <1>9 DEF RecvSkipsData
  <2> QED
    BY <1>9, <2>1 DEF RecvSkipsData, history
<1>10. CASE LinkFails
  BY <1>10, DropTyped DEF LinkFails, Outcomes
<1>11. CASE BadFrame
  <2>1. inbox' \in Seq(Frames)
    BY <1>0, <1>11 DEF BadFrame
  <2> QED
    BY <1>11, <2>1, AbandonTyped DEF BadFrame, Outcomes
<1>12. CASE Expire
  BY <1>12 DEF Expire, history
<1>13. CASE TimesOut
  BY <1>13, AbandonTyped DEF TimesOut, Outcomes
<1>14. CASE Cancel
  BY <1>14, AbandonTyped DEF Cancel, Outcomes
<1>15. CASE HeadsetTakes
  <2>1. inbox' \in Seq(Frames)
    BY <1>15, DeliveredFrames DEF HeadsetTakes
  <2>2. outbox' \in Seq(Commands) /\ todo' \in Seq(Commands)
    BY <1>15 DEF HeadsetTakes
  <2> QED
    BY <1>15, <2>1, <2>2 DEF HeadsetTakes, session, history
<1>16. CASE HeadsetMisses
  BY <1>16 DEF HeadsetMisses, session, history
<1>17. CASE HeadsetReports
  <2>1. Head(todo) \in Commands /\ todo' \in Seq(Commands)
    BY <1>17 DEF HeadsetReports
  <2>2. <<Head(todo).feat, setting[Head(todo).feat]>> \in Readings
    BY <2>1 DEF Commands, Readings
  <2>3. inbox' \in Seq(Frames) /\ unacked' \in Int
    BY <1>17, <2>2, DeliveryTyped DEF HeadsetReports
  <2> QED
    BY <1>17, <2>1, <2>3 DEF HeadsetReports, session, history
<1>18. ASSUME NEW f \in Features, NEW v \in Values, Holds(f, v)
       PROVE  /\ setting' \in [Features -> Values]
              /\ accepts' = accepts => seen' \subseteq Readings
  BY <1>18 DEF Holds, Held, Readings
<1>19. ASSUME NEW f \in Features, NEW v \in Values, DeliverData(<<f, v>>)
       PROVE  inbox' \in Seq(Frames) /\ unacked' \in Int
  <2>1. <<f, v>> \in Readings
    BY DEF Readings
  <2> QED
    BY <1>19, <2>1, DeliveryTyped
<1>20. CASE HeadsetApplies
  <2>1. Head(todo) \in Commands /\ todo' \in Seq(Commands)
    BY <1>20 DEF HeadsetApplies
  <2>2. Head(todo).feat \in Features /\ Head(todo).write \subseteq Values
    BY <2>1 DEF Commands, Writes
  <2>3. PICK v \in Values : /\ Holds(Head(todo).feat, v)
                            /\ DeliverData(<<Head(todo).feat, v>>)
    BY <1>20, <2>2 DEF HeadsetApplies
  <2> QED
    BY <1>18, <1>19, <1>20, <2>1, <2>2, <2>3 DEF HeadsetApplies, session
<1>21. CASE HeadsetIsSilent
  BY <1>21 DEF HeadsetIsSilent, session, history
<1>22. ASSUME NEW f \in Features, NEW v \in Values, HeadsetChanges(f, v)
       PROVE  TypeOK'
  <2>1. inbox' \in Seq(Frames) /\ unacked' \in Int
    BY <1>19, <1>22 DEF HeadsetChanges
  <2> QED
    BY <1>18, <1>22, <2>1 DEF HeadsetChanges, session
<1>23. CASE LinkDown
  BY <1>23 DEF LinkDown, session, history
<1>24. CASE UNCHANGED vars
  BY <1>24 DEF vars, session, history
<1> QED
  BY <1>1, <1>2, <1>3, <1>4, <1>5, <1>6, <1>7, <1>8, <1>9, <1>10, <1>11, <1>12,
     <1>13, <1>14, <1>15, <1>16, <1>17, <1>20, <1>21, <1>22, <1>23, <1>24
  DEF Next, Reader, Caller, Headset

----------------------------------------------------------------------------
(* The inductive invariant *)

(* Nothing in it depends on more than these variables. *)
LEMMA CorrelatedStutters ==
    ASSUME Correlated, UNCHANGED <<phase, accepts, clean, seen, inbox, outbox>>
    PROVE  Correlated'
BY DEF Correlated, AckAwaited, AckArrived, AckRead, FreshAfter, NoAckIn, NoAckInFlight

(* Reading a data frame off inbox moves the others one place forward. *)
LEMMA CorrelatedTail ==
    ASSUME TypeOK, Correlated, UNCHANGED <<phase, accepts, clean, seen, outbox>>,
           inbox # <<>>, ~IsAck(Head(inbox)), inbox' = Tail(inbox)
    PROVE  Correlated'
<1> SUFFICES ASSUME clean
             PROVE  (AckAwaited \/ AckArrived \/ AckRead)'
  BY DEF Correlated
<1> inbox \in Seq(Frames)
  BY DEF TypeOK
<1>1. /\ DOMAIN inbox = 1 .. Len(inbox) /\ Len(inbox) \in Nat
      /\ DOMAIN inbox' = 1 .. Len(inbox) - 1
      /\ \A i \in DOMAIN inbox' : i + 1 \in DOMAIN inbox /\ inbox'[i] = inbox[i + 1]
      /\ \A k \in DOMAIN inbox : k # 1 => k - 1 \in DOMAIN inbox'
      /\ inbox[1] = Head(inbox)
  OBVIOUS
<1>2. ASSUME NoAckIn(inbox)
      PROVE  NoAckIn(inbox')
  BY <1>1, <1>2 DEF NoAckIn
<1>3. CASE AckAwaited
  <2>1. AckAwaited'
    BY <1>2, <1>3 DEF AckAwaited
  <2> QED
    BY <2>1
<1>4. CASE AckArrived
  <2>1. PICK k \in DOMAIN inbox :
            /\ IsAck(inbox[k])
            /\ \A i \in DOMAIN inbox : i # k => ~IsAck(inbox[i])
            /\ FreshAfter(k)
    BY <1>4 DEF AckArrived
  <2>2. k # 1
    BY <1>1, <2>1
  <2>3. k - 1 \in DOMAIN inbox' /\ k \in Int
    BY <1>1, <2>2
  <2>4. IsAck(inbox'[k - 1])
    BY <1>1, <2>1, <2>3
  <2>5. \A i \in DOMAIN inbox' : i # k - 1 => ~IsAck(inbox'[i])
    BY <1>1, <2>1, <2>3
  <2>6. FreshAfter(k - 1)'
    BY <1>1, <2>1, <2>3 DEF FreshAfter
  <2>7. AckArrived'
    BY <1>4, <2>3, <2>4, <2>5, <2>6 DEF AckArrived
  <2> QED
    BY <2>7
<1>5. CASE AckRead
  <2>1. FreshAfter(0)'
    BY <1>1, <1>5 DEF AckRead, FreshAfter
  <2>2. AckRead'
    BY <1>2, <1>5, <2>1 DEF AckRead, NoAckInFlight
  <2> QED
    BY <2>2
<1> QED
  BY <1>3, <1>4, <1>5 DEF Correlated

(* A frame that joins inbox is no ACK, and is live if it is accepted. *)
LEMMA CorrelatedAppend ==
    ASSUME TypeOK, Correlated, UNCHANGED <<phase, accepts, clean, outbox>>,
           seen \subseteq seen', NEW frame \in Frames, inbox' = Append(inbox, frame),
           ~IsAck(frame),
           clean /\ IsData(frame) /\ frame.reading[1] \in accepts
               => frame.reading \in seen'
    PROVE  Correlated'
<1> SUFFICES ASSUME clean
             PROVE  (AckAwaited \/ AckArrived \/ AckRead)'
  BY DEF Correlated
<1> inbox \in Seq(Frames)
  BY DEF TypeOK
<1>1. /\ DOMAIN inbox = 1 .. Len(inbox) /\ Len(inbox) \in Nat
      /\ DOMAIN inbox' = 1 .. Len(inbox) + 1
      /\ \A i \in DOMAIN inbox : inbox'[i] = inbox[i]
      /\ inbox'[Len(inbox) + 1] = frame
  OBVIOUS
<1>2. ASSUME NoAckIn(inbox)
      PROVE  NoAckIn(inbox')
  BY <1>1, <1>2 DEF NoAckIn
<1>3. ASSUME NEW k, FreshAfter(k)
      PROVE  FreshAfter(k)'
  BY <1>1, <1>3 DEF FreshAfter
<1>4. CASE AckAwaited
  <2>1. AckAwaited'
    BY <1>2, <1>4 DEF AckAwaited
  <2> QED
    BY <2>1
<1>5. CASE AckArrived
  <2>1. PICK k \in DOMAIN inbox :
            /\ IsAck(inbox[k])
            /\ \A i \in DOMAIN inbox : i # k => ~IsAck(inbox[i])
            /\ FreshAfter(k)
    BY <1>5 DEF AckArrived
  <2>2. k \in DOMAIN inbox' /\ IsAck(inbox'[k])
    BY <1>1, <2>1
  <2>3. \A i \in DOMAIN inbox' : i # k => ~IsAck(inbox'[i])
    BY <1>1, <2>1
  <2>4. FreshAfter(k)'
    BY <1>3, <2>1
  <2>5. AckArrived'
    BY <1>5, <2>2, <2>3, <2>4 DEF AckArrived
  <2> QED
    BY <2>5
<1>6. CASE AckRead
  <2>1. AckRead'
    BY <1>2, <1>3, <1>6 DEF AckRead, NoAckInFlight
  <2> QED
    BY <2>1
<1> QED
  BY <1>4, <1>5, <1>6 DEF Correlated

(* So it is with a reading of what the headset holds once delivered. *)
LEMMA CorrelatedDelivery ==
    ASSUME TypeOK, Correlated, UNCHANGED <<phase, accepts, clean, outbox>>,
           seen \subseteq seen', NEW r \in Readings, DeliverData(r),
           clean /\ r[1] \in accepts => r \in seen'
    PROVE  Correlated'
<1>1. CASE inbox' = Append(inbox, Data(r))
  <2>1. Data(r) \in Frames /\ ~IsAck(Data(r)) /\ Data(r).reading = r
    BY DeliveredFrames
  <2> QED
    BY <1>1, <2>1, CorrelatedAppend
<1>2. CASE \E d \in Damage : inbox' = Append(inbox, Bad(d))
  <2>1. PICK d \in Damage : inbox' = Append(inbox, Bad(d))
    BY <1>2
  <2>2. Bad(d) \in Frames /\ ~IsAck(Bad(d)) /\ ~IsData(Bad(d))
    BY DeliveredFrames
  <2> QED
    BY <2>1, <2>2, CorrelatedAppend
<1> QED
  BY <1>1, <1>2 DEF DeliverData

(* The value the headset changes to is among those seen, if accepted. *)
LEMMA HoldsSeen ==
    ASSUME TypeOK, SeenIsCurrent, NEW f \in Features, NEW v \in Values,
           Holds(f, v), UNCHANGED <<phase, accepts>>
    PROVE  /\ seen \subseteq seen'
           /\ f \in accepts => <<f, v>> \in seen'
           /\ SeenIsCurrent'
<1>1. setting' = [setting EXCEPT ![f] = v] /\ setting'[f] = v
  BY DEF TypeOK, Holds
<1>2. seen' = seen \cup Held(accepts, setting')
  BY DEF Holds
<1>3. f \in accepts => <<f, v>> \in Held(accepts, setting')
  BY <1>1 DEF Held
<1>4. Held(accepts, setting)' = Held(accepts, setting')
  BY DEF Held
<1> QED
  BY <1>2, <1>3, <1>4 DEF SeenIsCurrent

(* An exchange that is over leaves no claim on clean or seen. *)
LEMMA NoExchangeInv ==
    ASSUME NoExchange, phase' \in {"idle", "closed"}
    PROVE  Correlated' /\ SeenIsCurrent' /\ ~Busy'
BY DEF NoExchange, Correlated, SeenIsCurrent, Busy

(* A dropped session satisfies the invariant. *)
LEMMA DropInv ==
    ASSUME IInv, NEW result \in Outcomes, DropSession(result)
    PROVE  IInv'
<1>1. TypeOK'
  BY DropTyped DEF IInv
<1>2. Correlated' /\ SeenIsCurrent' /\ ~Busy'
  BY NoExchangeInv DEF DropSession
<1>3. NoAckInFlight' /\ ~late'
  BY DEF DropSession, NewConnection, NoAckInFlight, NoAckIn
<1> QED
  BY <1>1, <1>2, <1>3 DEF IInv, InSync

(* So does a session whose exchange was abandoned: from send it is late,   *)
(* from recv its ACK has been read.                                        *)
LEMMA AbandonInv ==
    ASSUME IInv, TypeOK', Busy, NEW result \in Outcomes, Abandon(result),
           NoAckIn(inbox) => NoAckIn(inbox')
    PROVE  IInv'
<1>1. Correlated' /\ SeenIsCurrent' /\ ~Busy'
  BY NoExchangeInv DEF Abandon, Finish
<1>2. ASSUME ~late'
      PROVE  NoAckInFlight'
  <2>1. ~late /\ phase = "receiving"
    BY <1>2 DEF Abandon, Busy
  <2>2. AckRead
    BY <2>1 DEF IInv, InSync, Busy, Correlated, AckAwaited, AckArrived
  <2> QED
    BY <2>2 DEF AckRead, NoAckInFlight, Abandon, Finish
<1> QED
  BY <1>1, <1>2 DEF IInv, InSync, Abandon, Finish

(* A step that leaves the session and the history alone, apart from seen,  *)
(* has only to keep the parts that speak of the link.                      *)
LEMMA HeadsetInv ==
    ASSUME IInv, TypeOK', Correlated', SeenIsCurrent', UNCHANGED <<phase, clean, late>>,
           NoAckInFlight /\ ~Busy => NoAckInFlight'
    PROVE  IInv'
BY DEF IInv, InSync, Busy

(* A delivery does not put an ACK in flight. *)
LEMMA DeliveryNoAck ==
    ASSUME TypeOK, NEW r \in Readings, DeliverData(r), NoAckIn(inbox)
    PROVE  NoAckIn(inbox')
<1>1. ASSUME NEW frame \in Frames, ~IsAck(frame), inbox' = Append(inbox, frame)
      PROVE  NoAckIn(inbox')
  BY <1>1 DEF NoAckIn, TypeOK
<1> QED
  BY <1>1, DeliveredFrames DEF DeliverData

(* Reading a frame off inbox does not put an ACK in flight either. *)
LEMMA TailNoAck ==
    ASSUME TypeOK, inbox # <<>>, inbox' = Tail(inbox), NoAckIn(inbox)
    PROVE  NoAckIn(inbox')
BY DEF NoAckIn, TypeOK

(* The steps of the reader keep the invariant. *)
LEMMA ReaderStep ==
    ASSUME IInv, TypeOK', Reader
    PROVE  IInv'
<1> USE DEF IInv
<1>1. CASE SendAcked
  <2>1. clean => AckArrived
    BY <1>1 DEF SendAcked, Correlated, AckAwaited, AckRead, NoAckIn, TypeOK
  <2>2. ASSUME clean
        PROVE  AckRead'
    <3>1. PICK k \in DOMAIN inbox :
              /\ IsAck(inbox[k])
              /\ \A i \in DOMAIN inbox : i # k => ~IsAck(inbox[i])
              /\ FreshAfter(k)
      BY <2>1, <2>2 DEF AckArrived
    <3>2. /\ inbox \in Seq(Frames) /\ inbox' = Tail(inbox)
          /\ inbox # <<>> /\ IsAck(Head(inbox))
      BY <1>1 DEF SendAcked, TypeOK
    <3>3. /\ 1 \in DOMAIN inbox /\ Head(inbox) = inbox[1]
          /\ \A i \in DOMAIN inbox' : /\ i \in Nat \ {0}
                                      /\ i + 1 \in DOMAIN inbox
                                      /\ inbox'[i] = inbox[i + 1]
      BY <3>2
    <3>4. k = 1
      BY <3>1, <3>2, <3>3
    <3>5. NoAckIn(inbox')
      BY <3>1, <3>3, <3>4 DEF NoAckIn
    <3>6. FreshAfter(0)'
      BY <1>1, <3>1, <3>3, <3>4 DEF FreshAfter, SendAcked, history
    <3> QED
      BY <1>1, <2>1, <2>2, <3>5, <3>6
      DEF AckRead, AckArrived, NoAckInFlight, SendAcked, history
  <2> QED
    BY <1>1, <2>2
    DEF SendAcked, history, InSync, Busy, Correlated, SeenIsCurrent, Held
<1>2. CASE SendSkipsData
  <2>1. Correlated'
    BY <1>2, CorrelatedTail DEF SendSkipsData, session, history, IsAck, IsData
  <2> QED
    BY <1>2, <2>1
    DEF SendSkipsData, session, history, InSync, Busy, SeenIsCurrent, Held
<1>3. CASE RecvSkipsAck
  <2>1. ~clean
    BY <1>3 DEF RecvSkipsAck, Correlated, AckAwaited, AckArrived, AckRead,
                NoAckInFlight, NoAckIn, TypeOK
  <2> QED
    BY <1>3, <2>1
    DEF RecvSkipsAck, session, history, InSync, Busy, Correlated, SeenIsCurrent, Held
<1>4. CASE RecvAnswers
  <2>1. Correlated' /\ SeenIsCurrent' /\ ~Busy'
    BY <1>4, NoExchangeInv DEF RecvAnswers, Finish
  <2>2. ASSUME ~late
        PROVE  NoAckInFlight'
    <3>1. AckRead
      BY <1>4, <2>2 DEF InSync, Busy, RecvAnswers, Correlated, AckAwaited, AckArrived
    <3> QED
      BY <1>4, <3>1, TailNoAck DEF AckRead, NoAckInFlight, RecvAnswers, Finish
  <2> QED
    BY <1>4, <2>1, <2>2 DEF RecvAnswers, Finish, InSync
<1>5. CASE RecvSkipsData
  <2>1. Correlated'
    BY <1>5, CorrelatedTail DEF RecvSkipsData, history, IsAck, IsData
  <2> QED
    BY <1>5, <2>1 DEF RecvSkipsData, history, InSync, Busy, SeenIsCurrent, Held
<1>6. CASE LinkFails
  BY <1>6, DropInv DEF LinkFails, Outcomes
<1>7. CASE BadFrame
  <2>1. NoAckIn(inbox) => NoAckIn(inbox')
    BY <1>7, TailNoAck DEF BadFrame
  <2> QED
    BY <1>7, <2>1, AbandonInv DEF BadFrame, Outcomes
<1>8. CASE TimesOut
  BY <1>8, AbandonInv DEF TimesOut, Outcomes
<1> QED
  BY <1>1, <1>2, <1>3, <1>4, <1>5, <1>6, <1>7, <1>8 DEF Reader

(* The steps of the caller keep the invariant. *)
LEMMA CallerStep ==
    ASSUME IInv, TypeOK', Caller
    PROVE  IInv'
<1> USE DEF IInv
<1>1. CASE Open
  <2>1. Correlated'
    BY <1>1 DEF Open, history, Correlated, AckAwaited, AckArrived, AckRead
  <2> QED
    BY <1>1, <2>1
    DEF Open, history, InSync, Busy, NoAckInFlight, SeenIsCurrent, Held
<1>2. CASE Close
  BY <1>2, DropInv DEF Close, Outcomes
<1>3. ASSUME NEW f \in Features, NEW w \in Writes, BeginExchange(f, w)
      PROVE  IInv'
  <2>1. ~late => clean'
    BY <1>3 DEF BeginExchange, InSync, Busy
  <2>2. ASSUME clean'
        PROVE  AckAwaited'
    <3>1. outbox = <<>> /\ NoAckIn(inbox) /\ inbox' = inbox
      BY <1>3, <2>2 DEF BeginExchange, NoAckInFlight
    <3>2. Len(outbox') = 1
      BY <1>3, <3>1 DEF BeginExchange
    <3> QED
      BY <1>3, <3>1, <3>2 DEF BeginExchange, AckAwaited
  <2>3. SeenIsCurrent'
    BY <1>3 DEF BeginExchange, SeenIsCurrent, Held
  <2> QED
    BY <1>3, <2>1, <2>2, <2>3 DEF BeginExchange, InSync, Busy, Correlated
<1>4. CASE BeginFails
  BY <1>4, DropInv DEF BeginFails, Outcomes
<1>5. CASE Cancel
  BY <1>5, AbandonInv DEF Cancel, Outcomes
<1> QED
  BY <1>1, <1>2, <1>3, <1>4, <1>5 DEF Caller

(* The steps of the headset and of the link keep the invariant. *)
LEMMA HeadsetStep ==
    ASSUME IInv, TypeOK', Headset
    PROVE  IInv'
<1> USE DEF IInv
<1>1. CASE HeadsetTakes
  <2>1. PICK frame \in {Ack} \cup {Bad(d) : d \in Damage} : inbox' = Append(inbox, frame)
    BY <1>1 DEF HeadsetTakes
  <2>2. frame \in Frames
    BY <2>1, DeliveredFrames
  <2>3. /\ DOMAIN inbox = 1 .. Len(inbox) /\ Len(inbox) \in Nat
        /\ DOMAIN inbox' = 1 .. Len(inbox) + 1
        /\ \A i \in DOMAIN inbox : inbox'[i] = inbox[i]
        /\ inbox'[Len(inbox) + 1] = frame
    BY <2>1, <2>2 DEF TypeOK
  <2>4. ASSUME clean
        PROVE  (AckAwaited \/ AckArrived)'
    <3>1. AckAwaited
      BY <1>1, <2>4 DEF HeadsetTakes, Correlated, AckArrived, AckRead, NoAckInFlight
    <3>2. outbox' = <<>>
      BY <1>1, <3>1 DEF HeadsetTakes, AckAwaited, TypeOK
    <3>3. CASE IsAck(frame)
      <4>1. PICK k : k = Len(inbox) + 1
        OBVIOUS
      <4>2. \A i \in DOMAIN inbox' : i # k => ~IsAck(inbox'[i])
        BY <2>3, <3>1, <4>1 DEF AckAwaited, NoAckIn
      <4>3. FreshAfter(k)'
        BY <2>3, <4>1, \A i \in DOMAIN inbox' : ~(i > k) DEF FreshAfter
      <4>4. k \in DOMAIN inbox' /\ IsAck(inbox'[k]) /\ phase' = "sending"
        BY <1>1, <2>3, <3>1, <3>3, <4>1 DEF AckAwaited, HeadsetTakes, session
      <4>5. AckArrived'
        BY <3>2, <4>2, <4>3, <4>4 DEF AckArrived
      <4> QED
        BY <4>5
    <3>4. CASE ~IsAck(frame)
      <4>1. NoAckIn(inbox')
        BY <2>3, <3>1, <3>4 DEF AckAwaited, NoAckIn
      <4>2. AckAwaited'
        BY <1>1, <3>1, <3>2, <4>1 DEF AckAwaited, HeadsetTakes, session
      <4> QED
        BY <4>2
    <3> QED
      BY <3>3, <3>4
  <2>5. Correlated'
    BY <1>1, <2>4 DEF Correlated, HeadsetTakes, history
  <2>6. ~NoAckInFlight
    BY <1>1 DEF HeadsetTakes, NoAckInFlight
  <2> QED
    BY <1>1, <2>5, <2>6, HeadsetInv
    DEF HeadsetTakes, session, history, SeenIsCurrent, Held, Busy
<1>2. CASE HeadsetMisses
  <2>1. ASSUME clean
        PROVE  AckAwaited'
    <3>1. AckAwaited
      BY <1>2, <2>1 DEF HeadsetMisses, Correlated, AckArrived, AckRead, NoAckInFlight
    <3>2. Len(outbox') <= 1
      BY <1>2, <3>1 DEF HeadsetMisses, AckAwaited, TypeOK
    <3> QED
      BY <1>2, <3>1, <3>2 DEF AckAwaited, HeadsetMisses, session
  <2>2. Correlated'
    BY <1>2, <2>1 DEF Correlated, HeadsetMisses, history
  <2>3. ~NoAckInFlight
    BY <1>2 DEF HeadsetMisses, NoAckInFlight
  <2> QED
    BY <1>2, <2>2, <2>3, HeadsetInv
    DEF HeadsetMisses, session, history, SeenIsCurrent, Held, Busy
<1>3. CASE HeadsetReports
  <2> DEFINE f == Head(todo).feat
             r == <<f, setting[f]>>
  <2>1. f \in Features /\ r \in Readings /\ r[1] = f
    <3>1. Head(todo) \in Commands /\ setting \in [Features -> Values]
      BY <1>3 DEF HeadsetReports, TypeOK
    <3> QED
      BY <3>1 DEF Commands, Readings
  <2>2. DeliverData(r) /\ UNCHANGED <<session, linkUp, outbox, setting, history>>
    BY <1>3 DEF HeadsetReports
  <2>3. clean /\ f \in accepts => r \in seen
    <3>1. clean => Busy
      BY DEF Correlated, AckAwaited, AckArrived, AckRead, Busy
    <3>2. f \in accepts => r \in Held(accepts, setting)
      BY DEF Held
    <3> QED
      BY <3>1, <3>2 DEF SeenIsCurrent
  <2>4. Correlated'
    BY <2>1, <2>2, <2>3, CorrelatedDelivery DEF session, history
  <2>5. NoAckInFlight => NoAckInFlight'
    BY <2>1, <2>2, DeliveryNoAck DEF NoAckInFlight
  <2> QED
    BY <2>2, <2>4, <2>5, HeadsetInv DEF session, history, SeenIsCurrent, Held, Busy
<1>4. ASSUME NEW f \in Features, NEW v \in Values, Holds(f, v),
             UNCHANGED <<session, outbox, clean, late>>,
             DeliverData(<<f, v>>) \/ UNCHANGED inbox
      PROVE  IInv'
  <2>1. <<f, v>> \in Readings /\ <<f, v>>[1] = f
    BY DEF Readings
  <2>2. /\ seen \subseteq seen'
        /\ f \in accepts => <<f, v>> \in seen'
        /\ SeenIsCurrent'
    BY <1>4, HoldsSeen DEF session
  <2>3. CASE DeliverData(<<f, v>>)
    <3>1. Correlated'
      BY <1>4, <2>1, <2>2, <2>3, CorrelatedDelivery DEF session
    <3>2. NoAckInFlight => NoAckInFlight'
      BY <1>4, <2>1, <2>3, DeliveryNoAck DEF NoAckInFlight
    <3> QED
      BY <1>4, <2>2, <3>1, <3>2, HeadsetInv DEF session
  <2>4. CASE UNCHANGED inbox
    <3>1. Correlated'
      BY <1>4, <2>2, <2>4
      DEF session, Correlated, AckAwaited, AckArrived, AckRead, FreshAfter,
          NoAckIn, NoAckInFlight
    <3> QED
      BY <1>4, <2>2, <2>4, <3>1, HeadsetInv DEF session, NoAckInFlight
  <2> QED
    BY <1>4, <2>3, <2>4
<1>5. CASE HeadsetApplies
  <2>1. Head(todo).feat \in Features /\ Head(todo).write \subseteq Values
    <3>1. Head(todo) \in Commands
      BY <1>5 DEF HeadsetApplies, TypeOK
    <3> QED
      BY <3>1 DEF Commands, Writes
  <2>2. PICK v \in Values : /\ Holds(Head(todo).feat, v)
                            /\ DeliverData(<<Head(todo).feat, v>>)
    BY <1>5, <2>1 DEF HeadsetApplies
  <2>3. UNCHANGED <<session, outbox, clean, late>>
    BY <1>5 DEF HeadsetApplies
  <2> QED
    BY <1>4, <2>1, <2>2, <2>3
<1>6. CASE HeadsetIsSilent
  <2>1. Correlated'
    BY <1>6, CorrelatedStutters DEF HeadsetIsSilent, session, history
  <2> QED
    BY <1>6, <2>1, HeadsetInv
    DEF HeadsetIsSilent, session, history, NoAckInFlight, SeenIsCurrent, Held, Busy
<1>7. ASSUME NEW f \in Features, NEW v \in Values, HeadsetChanges(f, v)
      PROVE  IInv'
  <2>1. /\ Holds(f, v)
        /\ UNCHANGED <<session, outbox, clean, late>>
        /\ DeliverData(<<f, v>>) \/ UNCHANGED inbox
    BY <1>7 DEF HeadsetChanges
  <2> QED
    BY <1>4, <2>1
<1>8. CASE LinkDown
  <2>1. Correlated'
    BY <1>8, CorrelatedStutters DEF LinkDown, session, history
  <2> QED
    BY <1>8, <2>1, HeadsetInv
    DEF LinkDown, session, history, NoAckInFlight, SeenIsCurrent, Held, Busy
<1> QED
  BY <1>1, <1>2, <1>3, <1>5, <1>6, <1>7, <1>8 DEF Headset

(* Expiry and stuttering keep it too: every step does. *)
LEMMA InvStep ==
    ASSUME IInv, [Next]_vars
    PROVE  IInv'
<1>1. TypeOK'
  BY TypeStep DEF IInv
<1>2. CASE Expire
  <2>1. Correlated'
    BY <1>2, CorrelatedStutters DEF IInv, Expire, history
  <2> QED
    BY <1>1, <1>2, <2>1
    DEF IInv, Expire, history, InSync, Busy, NoAckInFlight, SeenIsCurrent, Held
<1>3. CASE UNCHANGED vars
  <2>1. Correlated'
    BY <1>3, CorrelatedStutters DEF IInv, vars, session, history
  <2> QED
    BY <1>1, <1>3, <2>1
    DEF IInv, vars, session, history, InSync, Busy, NoAckInFlight, SeenIsCurrent, Held
<1> QED
  BY <1>1, <1>2, <1>3, ReaderStep, CallerStep, HeadsetStep DEF Next

LEMMA InvInit == Init => IInv
<1> SUFFICES ASSUME Init
             PROVE  IInv
  OBVIOUS
<1>1. TypeOK
  <2>1. inbox \in Seq(Frames) /\ outbox \in Seq(Commands) /\ todo \in Seq(Commands)
    BY DEF Init
  <2>2. data_type \in Tables /\ outcome \in Outcomes
    BY DEF Init, Tables, Outcomes
  <2> QED
    BY <2>1, <2>2, 0 \in Int DEF Init, TypeOK
<1>2. ~Busy /\ ~clean /\ ~late /\ NoAckInFlight
  BY DEF Init, Busy, NoAckInFlight, NoAckIn
<1> QED
  BY <1>1, <1>2 DEF IInv, InSync, Correlated, SeenIsCurrent

(* The inductive invariant holds of every state. *)
THEOREM Invariance == Spec => []IInv
<1>1. IInv /\ [Next]_vars => IInv'
  BY InvStep
<1> QED
  BY <1>1, InvInit, PTL DEF Spec

(* Every state is of its type. *)
THEOREM TypeCorrect == Spec => []TypeOK
<1>1. IInv => TypeOK
  BY DEF IInv
<1> QED
  BY <1>1, Invariance, PTL

(* Until an exchange is abandoned inside send, a session never rests, and  *)
(* no exchange begins, with an ACK still to come.                          *)
THEOREM SessionsStayInSync == Spec => []InSync
<1>1. IInv => InSync
  BY DEF IInv
<1> QED
  BY <1>1, Invariance, PTL

(* When send returns in a session in step, the headset has the command. *)
THEOREM AckedCommandsAreTaken == Spec => []AckedMeansTaken
<1>1. IInv => AckedMeansTaken
  BY DEF IInv, AckedMeansTaken, Correlated, AckAwaited, AckArrived, AckRead,
         NoAckInFlight
<1> QED
  BY <1>1, Invariance, PTL

(* A clean exchange that answers is answered by a reading it has seen. *)
LEMMA CleanAnswer ==
    ASSUME IInv, RecvAnswers, clean
    PROVE  reply' \subseteq seen
<1>1. AckRead
  BY DEF IInv, Correlated, AckAwaited, AckArrived, RecvAnswers
<1>2. /\ 1 \in DOMAIN inbox /\ 1 > 0 /\ Head(inbox) = inbox[1]
      /\ IsData(inbox[1]) /\ inbox[1].reading[1] \in accepts
      /\ reply' = {inbox[1].reading}
  BY DEF RecvAnswers, IInv, TypeOK
<1> QED
  BY <1>1, <1>2 DEF AckRead, FreshAfter

(* Only an answered exchange sets reply. *)
LEMMA OnlyAnswersReply ==
    ASSUME [Next]_vars, reply = {}, reply' # {}
    PROVE  RecvAnswers
BY DEF Next, Reader, Caller, Headset, vars, session, history, Open, Close,
       BeginExchange, BeginFails, DropSession, Abandon, Finish, SendAcked,
       SendSkipsData, RecvSkipsAck, RecvSkipsData, LinkFails, BadFrame, Expire,
       TimesOut, Cancel, HeadsetTakes, HeadsetMisses, HeadsetReports,
       HeadsetApplies, HeadsetIsSilent, HeadsetChanges, LinkDown

(* An exchange that began with no ACK in flight returns only a reading the *)
(* headset held during that exchange.                                      *)
THEOREM Freshness == Spec => FreshReading
<1>1. IInv /\ [Next]_vars
        => [clean /\ reply = {} /\ reply' # {} => reply' \subseteq seen]_vars
  BY CleanAnswer, OnlyAnswersReply
<1> QED
  BY <1>1, Invariance, PTL DEF Spec, FreshReading

----------------------------------------------------------------------------
(* The connection implements module Exchange *)

LEMMA PromiseInit == Init => Promise!Init
BY DEF Init, Busy, Promise!Init

LEMMA DropPromised ==
    ASSUME phase \in {"idle", "sending", "receiving"},
           NEW result \in {"none", "io"}, DropSession(result)
    PROVE  Promise!Drop
BY DEF DropSession, NoExchange, NewConnection, Busy, Promise!Drop

LEMMA AbandonPromised ==
    ASSUME TypeOK, Busy, NEW result \in {"timeout", "bad_frame", "cancelled"},
           Abandon(result)
    PROVE  Promise!Fail
BY DEF TypeOK, Abandon, Finish, NoExchange, Busy, Promise!Fail

LEMMA HoldsPromised ==
    ASSUME TypeOK, TypeOK', NEW f \in Features, NEW v \in Values, Holds(f, v),
           UNCHANGED <<session, late>>
    PROVE  Promise!Change
BY DEF TypeOK, Holds, Held, session, Busy, Promise!Change, Promise!Held

(* Each step of the connection is one of Exchange, or none. *)
LEMMA PromiseStep ==
    ASSUME IInv, IInv', [Next]_vars
    PROVE  [Promise!Next]_(Promise!vars)
<1> USE DEF IInv
<1> DEFINE Stutter == UNCHANGED <<phase, accepts, setting, seen, reply, outcome, late>>
<1>0. ASSUME Stutter
      PROVE  UNCHANGED Promise!vars
  BY <1>0 DEF Promise!vars, Busy
<1>1. CASE Open
  BY <1>1 DEF Open, history, Busy, Promise!Open, Promise!Next
<1>2. CASE Close
  BY <1>2, DropPromised DEF Close, Promise!Next
<1>3. ASSUME NEW f \in Features, NEW w \in Writes, BeginExchange(f, w)
      PROVE  Promise!Next
  <2>1. Promise!Request(f)
    BY <1>3 DEF BeginExchange, Busy, Held, Promise!Request, Promise!Held
  <2> QED
    BY <2>1 DEF Promise!Next
<1>4. CASE BeginFails
  BY <1>4, DropPromised DEF BeginFails, Promise!Next
<1>5. CASE SendAcked
  BY <1>5 DEF SendAcked, history, Busy, Promise!vars
<1>6. CASE SendSkipsData
  BY <1>0, <1>6 DEF SendSkipsData, session, history
<1>7. CASE RecvSkipsAck
  BY <1>0, <1>7 DEF RecvSkipsAck, session, history
<1>8. CASE RecvAnswers
  <2> DEFINE r == Head(inbox).reading
  <2>1. r \in Readings /\ r[1] \in accepts /\ reply' = {r}
    BY <1>8, DataCarriesReading DEF RecvAnswers, TypeOK
  <2>2. late \/ r \in seen
    <3>1. ~late => clean
      BY <1>8 DEF RecvAnswers, InSync, Busy
    <3> QED
      BY <1>8, <2>1, <3>1, CleanAnswer
  <2>3. Promise!Answer
    BY <1>8, <2>1, <2>2
    DEF RecvAnswers, Finish, NoExchange, Busy, Readings, Promise!Answer, Promise!Readings
  <2> QED
    BY <2>3 DEF Promise!Next
<1>9. CASE RecvSkipsData
  BY <1>0, <1>9 DEF RecvSkipsData, history
<1>10. CASE LinkFails
  BY <1>10, DropPromised DEF LinkFails, Busy, Promise!Next
<1>11. CASE BadFrame
  BY <1>11, AbandonPromised DEF BadFrame, Promise!Next
<1>12. CASE Expire
  BY <1>0, <1>12 DEF Expire, history
<1>13. CASE TimesOut
  BY <1>13, AbandonPromised DEF TimesOut, Promise!Next
<1>14. CASE Cancel
  BY <1>14, AbandonPromised DEF Cancel, Promise!Next
<1>15. CASE HeadsetTakes
  BY <1>0, <1>15 DEF HeadsetTakes, session, history
<1>16. CASE HeadsetMisses
  BY <1>0, <1>16 DEF HeadsetMisses, session, history
<1>17. CASE HeadsetReports
  BY <1>0, <1>17 DEF HeadsetReports, session, history
<1>18. CASE HeadsetApplies
  <2>1. Head(todo) \in Commands
    BY <1>18 DEF HeadsetApplies, TypeOK
  <2>2. Head(todo).feat \in Features /\ Head(todo).write \subseteq Values
    BY <2>1 DEF Commands, Writes
  <2>3. PICK v \in Values : Holds(Head(todo).feat, v)
    BY <1>18, <2>2 DEF HeadsetApplies
  <2> QED
    BY <1>18, <2>2, <2>3, HoldsPromised DEF HeadsetApplies, Promise!Next
<1>19. CASE HeadsetIsSilent
  BY <1>0, <1>19 DEF HeadsetIsSilent, session, history
<1>20. ASSUME NEW f \in Features, NEW v \in Values, HeadsetChanges(f, v)
       PROVE  Promise!Next
  BY <1>20, HoldsPromised DEF HeadsetChanges, Promise!Next
<1>21. CASE LinkDown
  BY <1>0, <1>21 DEF LinkDown, session, history
<1>22. CASE UNCHANGED vars
  BY <1>0, <1>22 DEF vars, session, history
<1> QED
  BY <1>1, <1>2, <1>3, <1>4, <1>5, <1>6, <1>7, <1>8, <1>9, <1>10, <1>11, <1>12,
     <1>13, <1>14, <1>15, <1>16, <1>17, <1>18, <1>19, <1>20, <1>21, <1>22
  DEF Next, Reader, Caller, Headset

(* The connection keeps the promise of module Exchange: as long as no      *)
(* exchange of the session was abandoned inside send, each answer is a     *)
(* reading the headset held after it was asked.                            *)
THEOREM Refinement == Spec => KeepsPromise
<1>1. IInv /\ IInv' /\ [Next]_vars => [Promise!Next]_(Promise!vars)
  BY PromiseStep
<1> QED
  BY <1>1, PromiseInit, Invariance, PTL DEF Spec, KeepsPromise, Promise!Spec

----------------------------------------------------------------------------
(* What the two sides know of each other *)

(* send alone has a command out under the sequence number it will toggle. *)
SeqInv ==
    /\ phase \in {"closed", "receiving"} /\ ~late => lastSeq # tx_seq
    /\ phase = "sending" => lastSeq = tx_seq
    /\ phase = "closed" => ~late
    /\ SeqAlternates

LEMMA SeqStep ==
    ASSUME TypeOK, SeqInv, [Next]_vars
    PROVE  SeqInv'
<1> USE DEF TypeOK, SeqInv, SeqAlternates
<1>d. ASSUME NEW result \in Outcomes, DropSession(result)
      PROVE  SeqInv'
  BY <1>d DEF DropSession, NewConnection
<1>a. ASSUME NEW result \in Outcomes, Busy, Abandon(result)
      PROVE  SeqInv'
  BY <1>a DEF Abandon, Finish, Busy
<1>1. CASE Reader
  <2>1. CASE SendAcked
    BY <2>1 DEF SendAcked, history
  <2>2. CASE SendSkipsData \/ RecvSkipsAck \/ RecvSkipsData
    <3>1. UNCHANGED <<phase, tx_seq, late, lastSeq>>
      BY <2>2 DEF SendSkipsData, RecvSkipsAck, RecvSkipsData, session, history
    <3> QED
      BY <3>1
  <2>3. CASE RecvAnswers
    BY <2>3 DEF RecvAnswers, Finish
  <2>4. CASE LinkFails
    BY <2>4, <1>d DEF LinkFails, Outcomes
  <2>5. CASE BadFrame \/ TimesOut
    BY <2>5, <1>a DEF BadFrame, TimesOut, Outcomes
  <2> QED
    BY <1>1, <2>1, <2>2, <2>3, <2>4, <2>5 DEF Reader
<1>2. CASE Caller
  <2>1. CASE Open
    BY <2>1 DEF Open, history
  <2>2. CASE Close \/ BeginFails
    BY <2>2, <1>d DEF Close, BeginFails, Outcomes
  <2>3. ASSUME NEW f \in Features, NEW w \in Writes, BeginExchange(f, w)
        PROVE  SeqInv'
    BY <2>3 DEF BeginExchange
  <2>4. CASE Cancel
    BY <2>4, <1>a DEF Cancel, Outcomes
  <2> QED
    BY <1>2, <2>1, <2>2, <2>3, <2>4 DEF Caller
<1>3. CASE Headset \/ Expire \/ UNCHANGED vars
  <2>1. UNCHANGED <<phase, tx_seq, late, lastSeq>>
    BY <1>3
    DEF Headset, HeadsetTakes, HeadsetMisses, HeadsetReports, HeadsetApplies,
        HeadsetIsSilent, HeadsetChanges, LinkDown, Expire, session, history, vars
  <2> QED
    BY <2>1
<1> QED
  BY <1>1, <1>2, <1>3 DEF Next

(* Consecutive commands of a session in step differ in their sequence      *)
(* number, however the exchanges between them ended.                       *)
THEOREM SequenceAlternates == Spec => []SeqAlternates
<1>1. Init => SeqInv
  BY DEF Init, SeqInv, SeqAlternates
<1>2. TypeOK /\ SeqInv /\ [Next]_vars => SeqInv'
  BY SeqStep
<1>3. SeqInv => SeqAlternates
  BY DEF SeqInv
<1> QED
  BY <1>1, <1>2, <1>3, TypeCorrect, PTL DEF Spec

OnTable(frames) == \A i \in DOMAIN frames : frames[i].table = Table(frames[i].feat)
OnTables == OnTable(outbox) /\ OnTable(todo)

LEMMA OnTableSequences ==
    ASSUME NEW frames \in Seq(Commands), OnTable(frames)
    PROVE  /\ frames # <<>> =>
                /\ OnTable(Tail(frames))
                /\ Head(frames) \in Commands
                /\ Head(frames).table = Table(Head(frames).feat)
           /\ \A c \in Commands :
                 c.table = Table(c.feat) => OnTable(Append(frames, c))
BY DEF OnTable

LEMMA OnTablesStep ==
    ASSUME TypeOK, OnTables, [Next]_vars
    PROVE  OnTables'
<1> USE DEF OnTables
<1>t. /\ outbox \in Seq(Commands) /\ todo \in Seq(Commands)
      /\ OnTable(<<>>)
  BY DEF TypeOK, OnTable
<1>1. ASSUME NEW f \in Features, NEW w \in Writes, BeginExchange(f, w)
      PROVE  OnTables'
  <2> DEFINE c == [feat |-> f, write |-> w, table |-> Table(f)]
  <2>1. c \in Commands /\ c.table = Table(c.feat)
    BY DEF Commands, Table, Tables
  <2>2. outbox' = Append(outbox, c) /\ UNCHANGED todo
    BY <1>1 DEF BeginExchange
  <2> HIDE DEF c
  <2> QED
    BY <1>t, <2>1, <2>2, OnTableSequences
<1>2. CASE HeadsetTakes
  BY <1>t, <1>2, OnTableSequences DEF HeadsetTakes
<1>3. CASE \/ HeadsetMisses \/ HeadsetReports \/ HeadsetApplies \/ HeadsetIsSilent
  <2>1. \/ outbox # <<>> /\ outbox' = Tail(outbox) /\ UNCHANGED todo
        \/ todo # <<>> /\ todo' = Tail(todo) /\ UNCHANGED outbox
    BY <1>3 DEF HeadsetMisses, HeadsetReports, HeadsetApplies, HeadsetIsSilent
  <2> QED
    BY <1>t, <2>1, OnTableSequences
<1>4. CASE Close \/ BeginFails \/ LinkFails
  <2>1. outbox' = <<>> /\ todo' = <<>>
    BY <1>4 DEF Close, BeginFails, LinkFails, DropSession, NewConnection
  <2> QED
    BY <1>t, <2>1
<1>5. ASSUME \/ Open \/ Cancel \/ Expire \/ LinkDown \/ UNCHANGED vars
             \/ Reader /\ ~LinkFails
             \/ \E f \in Features, v \in Values : HeadsetChanges(f, v)
      PROVE  OnTables'
  <2>1. UNCHANGED <<outbox, todo>>
    BY <1>5
    DEF Open, Cancel, Expire, LinkDown, vars, Reader, SendAcked, SendSkipsData,
        RecvSkipsAck, RecvAnswers, RecvSkipsData, BadFrame, TimesOut, Abandon, Finish,
        HeadsetChanges
  <2> QED
    BY <2>1
<1> QED
  BY <1>1, <1>2, <1>3, <1>4, <1>5 DEF Next, Caller, Headset

(* No command rides a table left behind by the exchange before it. *)
THEOREM TablesAreFollowed == Spec => []CommandsRideTheirTable
<1>1. Init => OnTables
  BY DEF Init, OnTables, OnTable
<1>2. TypeOK /\ OnTables /\ [Next]_vars => OnTables'
  BY OnTablesStep
<1>3. OnTables => CommandsRideTheirTable
  BY DEF OnTables, OnTable, CommandsRideTheirTable
<1> QED
  BY <1>1, <1>2, <1>3, TypeCorrect, PTL DEF Spec

----------------------------------------------------------------------------
(* The acknowledgements of the connection *)

LEMMA DataInFinite ==
    ASSUME NEW s \in Seq(Frames)
    PROVE  IsFiniteSet(DataIn(s)) /\ Cardinality(DataIn(s)) \in Nat
<1>1. DOMAIN s = 1 .. Len(s) /\ Len(s) \in Int
  OBVIOUS
<1>2. IsFiniteSet(1 .. Len(s)) /\ DataIn(s) \subseteq 1 .. Len(s)
  BY <1>1, FS_Interval DEF DataIn
<1> QED
  BY <1>2, FS_Subset, FS_CardinalityType

LEMMA DataInAppend ==
    ASSUME NEW s \in Seq(Frames), NEW frame \in Frames
    PROVE  Cardinality(DataIn(Append(s, frame)))
             = IF IsData(frame) THEN Cardinality(DataIn(s)) + 1 ELSE Cardinality(DataIn(s))
<1>1. /\ DOMAIN Append(s, frame) = DOMAIN s \cup {Len(s) + 1} /\ Len(s) + 1 \notin DOMAIN s
      /\ \A i \in DOMAIN s : Append(s, frame)[i] = s[i]
      /\ Append(s, frame)[Len(s) + 1] = frame
  OBVIOUS
<1>2. CASE IsData(frame)
  <2>1. DataIn(Append(s, frame)) = DataIn(s) \cup {Len(s) + 1} /\ Len(s) + 1 \notin DataIn(s)
    BY <1>1, <1>2 DEF DataIn
  <2> QED
    BY <1>2, <2>1, DataInFinite, FS_AddElement
<1>3. CASE ~IsData(frame)
  <2>1. DataIn(Append(s, frame)) = DataIn(s)
    BY <1>1, <1>3 DEF DataIn
  <2> QED
    BY <1>3, <2>1
<1> QED
  BY <1>2, <1>3

LEMMA DataInTail ==
    ASSUME NEW s \in Seq(Frames), s # <<>>
    PROVE  Cardinality(DataIn(Tail(s)))
             = IF IsData(Head(s)) THEN Cardinality(DataIn(s)) - 1 ELSE Cardinality(DataIn(s))
<1> DEFINE rest == DataIn(s) \ {1}
           shift == [i \in rest |-> i - 1]
<1>1. /\ 1 \in DOMAIN s /\ Head(s) = s[1]
      /\ \A i \in DOMAIN Tail(s) : i \in Nat \ {0} /\ i + 1 \in DOMAIN s /\ Tail(s)[i] = s[i + 1]
      /\ \A i \in DOMAIN s : /\ i \in Nat
                             /\ i # 1 => i - 1 \in DOMAIN Tail(s) /\ Tail(s)[i - 1] = s[i]
  OBVIOUS
<1>2. rest \subseteq Nat
  BY <1>1 DEF DataIn
<1>3. shift \in [rest -> DataIn(Tail(s))]
  BY <1>1 DEF DataIn
<1>4. \A i, j \in rest : shift[i] = shift[j] => i = j
  BY <1>2
<1>5. ASSUME NEW j \in DataIn(Tail(s))
      PROVE  \E i \in rest : shift[i] = j
  <2>1. j \in Nat \ {0} /\ j + 1 \in rest
    BY <1>1 DEF DataIn
  <2> QED
    BY <2>1
<1>6. shift \in Bijection(rest, DataIn(Tail(s)))
  <2>1. shift \in Injection(rest, DataIn(Tail(s)))
    BY <1>3, <1>4 DEF Injection, IsInjective
  <2>2. shift \in Surjection(rest, DataIn(Tail(s)))
    BY <1>3, <1>5 DEF Surjection
  <2> QED
    BY <2>1, <2>2 DEF Bijection
<1>7. IsFiniteSet(rest) /\ Cardinality(DataIn(Tail(s))) = Cardinality(rest)
  BY <1>6, DataInFinite, FS_RemoveElement, FS_Bijection DEF ExistsBijection
<1>8. 1 \in DataIn(s) <=> IsData(Head(s))
  BY <1>1 DEF DataIn
<1> QED
  BY <1>7, <1>8, DataInFinite, FS_RemoveElement

(* What is added to the buffer or taken from it counts if it is data.      *)
LEMMA DeliveryCounts ==
    ASSUME TypeOK, EveryFrameAcked, NEW r \in Readings, DeliverData(r)
    PROVE  EveryFrameAcked'
<1>1. inbox \in Seq(Frames)
  BY DEF TypeOK
<1>2. IsData(Data(r)) /\ Data(r) \in Frames
  BY DeliveredFrames DEF IsData, Data
<1>3. CASE inbox' = Append(inbox, Data(r)) /\ unacked' = unacked + 1
  BY <1>1, <1>2, <1>3, DataInAppend DEF EveryFrameAcked
<1>4. ASSUME NEW d \in Damage, inbox' = Append(inbox, Bad(d)), unacked' = unacked
      PROVE  EveryFrameAcked'
  <2>1. Bad(d) \in Frames /\ ~IsData(Bad(d))
    BY DeliveredFrames
  <2> QED
    BY <1>1, <1>4, <2>1, DataInAppend DEF EveryFrameAcked
<1> QED
  BY <1>3, <1>4 DEF DeliverData

LEMMA ReadCounts ==
    ASSUME TypeOK, EveryFrameAcked, inbox # <<>>, inbox' = Tail(inbox),
           unacked' = IF IsData(Head(inbox)) THEN unacked - 1 ELSE unacked
    PROVE  EveryFrameAcked'
<1>1. inbox \in Seq(Frames)
  BY DEF TypeOK
<1> QED
  BY <1>1, DataInTail DEF EveryFrameAcked

LEMMA DropCounts ==
    ASSUME NEW result, DropSession(result)
    PROVE  EveryFrameAcked'
<1>1. inbox' = <<>> /\ unacked' = 0
  BY DEF DropSession, NewConnection
<1>2. DataIn(<<>>) = {}
  BY DEF DataIn
<1> QED
  BY <1>1, <1>2, FS_EmptySet DEF EveryFrameAcked

LEMMA AckedStep ==
    ASSUME TypeOK, EveryFrameAcked, [Next]_vars
    PROVE  EveryFrameAcked'
<1>0. ASSUME UNCHANGED <<inbox, unacked>>
      PROVE  EveryFrameAcked'
  BY <1>0 DEF EveryFrameAcked
<1>1. CASE SendSkipsData \/ RecvAnswers \/ RecvSkipsData
  <2>1. inbox # <<>> /\ IsData(Head(inbox)) /\ inbox' = Tail(inbox) /\ unacked' = unacked - 1
    BY <1>1 DEF SendSkipsData, RecvAnswers, RecvSkipsData
  <2> QED
    BY <2>1, ReadCounts
<1>2. CASE SendAcked \/ RecvSkipsAck
  <2>1. inbox # <<>> /\ IsAck(Head(inbox)) /\ inbox' = Tail(inbox) /\ unacked' = unacked
    BY <1>2 DEF SendAcked, RecvSkipsAck
  <2>2. ~IsData(Head(inbox))
    BY <2>1 DEF IsAck, IsData
  <2> QED
    BY <2>1, <2>2, ReadCounts
<1>3. CASE BadFrame
  <2>1. /\ inbox # <<>> /\ IsBad(Head(inbox)) /\ unacked' = unacked
        /\ inbox' = inbox \/ inbox' = Tail(inbox)
    BY <1>3 DEF BadFrame, Abandon
  <2>2. ~IsData(Head(inbox))
    BY <2>1 DEF IsBad, IsData, Damages
  <2> QED
    BY <1>0, <2>1, <2>2, ReadCounts
<1>4. CASE Close \/ BeginFails \/ LinkFails
  BY <1>4, DropCounts DEF Close, BeginFails, LinkFails
<1>5. CASE HeadsetTakes
  <2>1. PICK frame \in {Ack} \cup {Bad(d) : d \in Damage} : inbox' = Append(inbox, frame)
    BY <1>5 DEF HeadsetTakes
  <2>2. frame \in Frames /\ ~IsData(frame)
    BY <2>1, DeliveredFrames DEF IsAck, IsData
  <2>3. inbox \in Seq(Frames) /\ unacked' = unacked
    BY <1>5 DEF HeadsetTakes, TypeOK
  <2> QED
    BY <2>1, <2>2, <2>3, DataInAppend DEF EveryFrameAcked
<1>6. CASE HeadsetReports
  <2>1. Head(todo) \in Commands
    BY <1>6 DEF HeadsetReports, TypeOK
  <2>2. <<Head(todo).feat, setting[Head(todo).feat]>> \in Readings
    BY <2>1 DEF Commands, Readings, TypeOK
  <2> QED
    BY <1>6, <2>2, DeliveryCounts DEF HeadsetReports
<1>7. CASE HeadsetApplies
  <2>1. Head(todo) \in Commands
    BY <1>7 DEF HeadsetApplies, TypeOK
  <2>2. PICK v \in Head(todo).write : DeliverData(<<Head(todo).feat, v>>)
    BY <1>7 DEF HeadsetApplies
  <2>3. <<Head(todo).feat, v>> \in Readings
    BY <2>1, <2>2 DEF Commands, Writes, Readings
  <2> QED
    BY <2>2, <2>3, DeliveryCounts
<1>8. ASSUME NEW f \in Features, NEW v \in Values, HeadsetChanges(f, v)
      PROVE  EveryFrameAcked'
  BY <1>0, <1>8, DeliveryCounts DEF HeadsetChanges, Readings
<1>9. CASE Open \/ Cancel \/ TimesOut \/ Expire
  BY <1>0, <1>9 DEF Open, Cancel, TimesOut, Expire, Abandon
<1>10. CASE HeadsetMisses \/ HeadsetIsSilent \/ LinkDown \/ UNCHANGED vars
  BY <1>0, <1>10 DEF HeadsetMisses, HeadsetIsSilent, LinkDown, vars
<1>11. ASSUME NEW f \in Features, NEW w \in Writes, BeginExchange(f, w)
       PROVE  EveryFrameAcked'
  BY <1>0, <1>11 DEF BeginExchange
<1> QED
  BY <1>1, <1>2, <1>3, <1>4, <1>5, <1>6, <1>7, <1>8, <1>9, <1>10, <1>11
  DEF Next, Reader, Caller, Headset

(* Every data frame that send or recv reads, wanted or not, it has         *)
(* acknowledged: what the headset has sent intact and has no ACK for is    *)
(* still in the buffer (connection.rs, send, recv and ack).                *)
THEOREM ReadFramesAreAcked == Spec => []EveryFrameAcked
<1>1. Init => EveryFrameAcked
  <2>1. DataIn(<<>>) = {}
    BY DEF DataIn
  <2> QED
    BY <2>1, FS_EmptySet DEF Init, EveryFrameAcked
<1>2. TypeOK /\ EveryFrameAcked /\ [Next]_vars => EveryFrameAcked'
  BY AckedStep
<1> QED
  BY <1>1, <1>2, TypeCorrect, PTL DEF Spec
=============================================================================
