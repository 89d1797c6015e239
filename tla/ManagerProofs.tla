--------------------------- MODULE ManagerProofs ----------------------------
(* Proofs about module Manager, for any number of clients and devices. *)
EXTENDS Manager, FiniteSetTheorems, SequenceTheorems, TLAPS

----------------------------------------------------------------------------
(* Handlers *)

(* Every handler has steps. *)
LEMMA PlansHaveSteps ==
    ASSUME NEW kind \in Kinds
    PROVE  Plan(kind) \in Seq(Steps) /\ Plan(kind) # <<>>
<1>1. CASE kind = "status"
  <2>1. Plan(kind) = <<"session">> \o [i \in 1 .. StatusReadings |-> "optional"]
    BY <1>1 DEF Plan
  <2>2. <<"session">> \in Seq(Steps) /\ Len(<<"session">>) = 1
    BY DEF Steps
  <2>3. [i \in 1 .. StatusReadings |-> "optional"] \in Seq(Steps)
    BY StatusAssumption DEF Steps
  <2>4. \A s \in Seq(Steps) :
            <<"session">> \o s \in Seq(Steps) /\ <<"session">> \o s # <<>>
    BY <2>2
  <2> QED
    BY <2>1, <2>3, <2>4
<1>2. CASE kind # "status"
  <2>1. Plan(kind) \in {<<"read">>, <<"write">>, <<"read", "write">>,
                        <<"read", "ignored">>, <<"session">>, <<"connect">>,
                        <<"disconnect">>}
    BY <1>2 DEF Plan, Kinds
  <2>2. \A x, y, z \in Steps : <<x>> \in Seq(Steps) /\ <<x, y>> \in Seq(Steps)
                                /\ <<x, y, z>> \in Seq(Steps)
    OBVIOUS
  <2>3. \A x, y, z : <<x>> # <<>> /\ <<x, y>> # <<>> /\ <<x, y, z>> # <<>>
    OBVIOUS
  <2>4. {"read", "write", "ignored", "session", "ensure", "connect", "disconnect"}
          \subseteq Steps
    BY DEF Steps
  <2> QED
    BY <2>1, <2>2, <2>3, <2>4
<1> QED
  BY <1>1, <1>2

LEMMA RequestsHaveSteps ==
    ASSUME NEW r \in AllRequests
    PROVE  PlanOf(r) \in Seq(Steps) /\ PlanOf(r) # <<>>
<1>1. CASE r.by # "cli"
  <2>1. r.kind \in Kinds
    BY <1>1 DEF AllRequests
  <2> QED
    BY <1>1, <2>1, PlansHaveSteps DEF PlanOf
<1>2. CASE r.by = "cli"
  <2>1. r.kind \in Direct \cup Connected
    BY <1>2 DEF AllRequests
  <2>2. Serves(r.kind) \in Kinds
    BY <2>1 DEF Serves, Kinds, Direct, Connected
  <2> DEFINE steps == Plan(Serves(r.kind))
  <2>3. steps \in Seq(Steps) /\ steps # <<>>
    BY <2>2, PlansHaveSteps
  <2>4. <<"ensure">> \in Seq(Steps) /\ Len(<<"ensure">>) = 1
    BY DEF Steps
  <2>5. PlanOf(r) \in {steps, <<"ensure">> \o steps}
    BY <1>2 DEF PlanOf, CliPlan
  <2> HIDE DEF steps
  <2>6. <<"ensure">> \o steps \in Seq(Steps) /\ <<"ensure">> \o steps # <<>>
    BY <2>3, <2>4
  <2> QED
    BY <2>3, <2>5, <2>6
<1> QED
  BY <1>1, <1>2

(* What a step does to its own handler when it hands the mutex back:       *)
(* nothing to the others, and it has steps left unless it is done.         *)
Leaves(c) ==
    /\ pc' \in [Clients -> Outside \cup Inside]
    /\ plan' \in [Clients -> Seq(Steps)]
    /\ answer' \in [Clients -> Answers]
    /\ pc'[c] \in {"idle", "ready"}
    /\ pc'[c] = "ready" => plan'[c] # <<>>
    /\ \A x \in Clients \ {c} : pc'[x] = pc[x] /\ plan'[x] = plan[x]

LEMMA ContinueLeaves ==
    ASSUME TypeOK, NEW c \in Clients, NEW steps \in Seq(Steps), Continue(c, steps)
    PROVE  Leaves(c)
BY DEF TypeOK, Continue, Leaves, Outside, Answers, Results

LEMMA GiveLeaves ==
    ASSUME TypeOK, NEW c \in Clients, NEW result \in Answers, Give(c, result)
    PROVE  Leaves(c)
<1>1. <<>> \in Seq(Steps) /\ "idle" \in Outside
  BY DEF Outside
<1> QED
  BY <1>1 DEF TypeOK, Give, Leaves

LEMMA EndsLeaves ==
    ASSUME TypeOK, NEW c \in Clients, plan[c] # <<>>, NEW result \in Answers,
           Ends(c, result)
    PROVE  Leaves(c)
<1>1. Tail(plan[c]) \in Seq(Steps)
  BY DEF TypeOK
<1>2. <<"read">> \o Tail(plan[c]) \in Seq(Steps)
  <2>1. <<"read">> \in Seq(Steps)
    BY DEF Steps
  <2> QED
    BY <1>1, <2>1
<1> QED
  BY <1>1, <1>2, ContinueLeaves, GiveLeaves DEF Ends

LEMMA StepsLeft ==
    ASSUME HasSteps, NEW c \in Clients, Leaves(c)
    PROVE  HasSteps'
<1> SUFFICES ASSUME NEW x \in Clients, pc'[x] # "idle"
             PROVE  plan'[x] # <<>>
  BY DEF HasSteps
<1>1. CASE x = c
  BY <1>1 DEF Leaves
<1>2. CASE x # c
  BY <1>2 DEF Leaves, HasSteps
<1> QED
  BY <1>1, <1>2

----------------------------------------------------------------------------
(* The mutex *)

(* The holder hands the mutex to the client that has waited longest. *)
LEMMA ReleaseKeepsQueue ==
    ASSUME IInv, NEW c \in Clients, lock # <<>>, Head(lock) = c, Release, Leaves(c)
    PROVE  /\ lock' \in Seq(Clients)
           /\ QueuedOnce' /\ LockIsGivenBack' /\ HasSteps'
           /\ \A x \in Clients : pc'[x] \notin Inside
<1>1. /\ lock \in Seq(Clients) /\ Len(lock) \in Nat \ {0}
      /\ lock' \in Seq(Clients) /\ lock[1] = c
      /\ DOMAIN lock = 1 .. Len(lock) /\ DOMAIN lock' = 1 .. Len(lock) - 1
      /\ \A i \in DOMAIN lock' : i + 1 \in DOMAIN lock /\ lock'[i] = lock[i + 1]
      /\ \A i \in DOMAIN lock : i # 1 => i - 1 \in DOMAIN lock' /\ lock'[i - 1] = lock[i]
  BY DEF IInv, TypeOK, Release
<1>2. \A i, j \in DOMAIN lock : lock[i] = lock[j] => i = j
  BY DEF IInv, QueuedOnce
<1>3. \A i \in DOMAIN lock' : lock'[i] \in Clients /\ lock'[i] # c
  BY <1>1, <1>2
<1>4. \A x \in Clients : pc'[x] \notin Inside
  BY DEF IInv, LockIsGivenBack, Leaves, Inside, Connecting
<1>5. QueuedOnce'
  <2>1. \A i, j \in DOMAIN lock' : lock'[i] = lock'[j] => i = j
    BY <1>1, <1>2
  <2>2. ASSUME NEW x \in Clients, pc'[x] \notin {"idle", "ready"}
        PROVE  \E i \in DOMAIN lock' : lock'[i] = x
    <3>1. x # c /\ pc[x] \notin {"idle", "ready"}
      BY <2>2 DEF Leaves
    <3>2. PICK i \in DOMAIN lock : lock[i] = x
      BY <3>1 DEF IInv, QueuedOnce
    <3> QED
      BY <1>1, <3>1, <3>2
  <2> QED
    BY <2>1, <2>2 DEF QueuedOnce
<1>6. LockIsGivenBack'
  <2>1. \A i \in DOMAIN lock' : pc'[lock'[i]] \notin {"idle", "ready"}
    <3> SUFFICES ASSUME NEW i \in DOMAIN lock'
                 PROVE  pc'[lock'[i]] \notin {"idle", "ready"}
      OBVIOUS
    <3>1. pc[lock'[i]] \notin {"idle", "ready"}
      BY <1>1 DEF IInv, LockIsGivenBack
    <3> QED
      BY <1>3, <3>1 DEF Leaves
  <2> QED
    BY <1>4, <2>1 DEF LockIsGivenBack
<1>7. HasSteps'
  BY StepsLeft DEF IInv
<1> QED
  BY <1>1, <1>4, <1>5, <1>6, <1>7

(* A client that hangs up closes the gap it leaves in the queue. *)
LEMMA LeavingKeepsQueue ==
    ASSUME IInv, NEW c \in Clients, pc[c] # "idle", LeaveQueue(c), Leaves(c),
           pc'[c] = "idle"
    PROVE  /\ lock' \in Seq(Clients)
           /\ QueuedOnce' /\ LockIsGivenBack' /\ HasSteps'
<1>0. HasSteps'
  BY StepsLeft DEF IInv
<1>1. CASE \E i \in DOMAIN lock : lock[i] = c
  <2>1. PICK i \in DOMAIN lock : lock[i] = c /\ lock' = Without(lock, i)
    BY <1>1 DEF LeaveQueue
  <2>2. /\ lock \in Seq(Clients) /\ Len(lock) \in Nat /\ i \in 1 .. Len(lock)
        /\ DOMAIN lock = 1 .. Len(lock)
    BY <2>1 DEF IInv, TypeOK
  <2>3. /\ lock' \in Seq(Clients) /\ DOMAIN lock' = 1 .. Len(lock) - 1
        /\ Len(lock') = Len(lock) - 1
        /\ \A j \in 1 .. Len(lock) - 1 :
              lock'[j] = IF j < i THEN lock[j] ELSE lock[j + 1]
    BY <2>1, <2>2 DEF Without
  <2>4. \A k, j \in DOMAIN lock : lock[k] = lock[j] => k = j
    BY DEF IInv, QueuedOnce
  <2>5. \A j \in DOMAIN lock' : lock'[j] \in Clients /\ lock'[j] # c
    BY <2>1, <2>2, <2>3, <2>4, SMTT(40)
  <2>6. QueuedOnce'
    <3>1. \A k, j \in DOMAIN lock' : lock'[k] = lock'[j] => k = j
      <4> SUFFICES ASSUME NEW k \in DOMAIN lock', NEW j \in DOMAIN lock',
                          lock'[k] = lock'[j]
                   PROVE  k = j
        OBVIOUS
      <4> DEFINE from(n) == IF n < i THEN n ELSE n + 1
      <4>1. from(k) \in DOMAIN lock /\ lock'[k] = lock[from(k)]
        BY <2>2, <2>3
      <4>2. from(j) \in DOMAIN lock /\ lock'[j] = lock[from(j)]
        BY <2>2, <2>3
      <4>3. from(k) = from(j)
        BY <2>4, <4>1, <4>2
      <4> QED
        BY <2>2, <2>3, <4>3
    <3>2. ASSUME NEW x \in Clients, pc'[x] \notin {"idle", "ready"}
          PROVE  \E k \in DOMAIN lock' : lock'[k] = x
      <4>1. x # c /\ pc[x] \notin {"idle", "ready"}
        BY <3>2 DEF Leaves
      <4>2. PICK k \in DOMAIN lock : lock[k] = x
        BY <4>1 DEF IInv, QueuedOnce
      <4>3. k # i
        BY <2>1, <4>1, <4>2
      <4>4. CASE k < i
        BY <2>2, <2>3, <4>2, <4>4
      <4>5. CASE k > i
        <5>1. k - 1 \in DOMAIN lock' /\ ~(k - 1 < i) /\ (k - 1) + 1 = k
          BY <2>2, <2>3, <4>2, <4>5
        <5>2. lock'[k - 1] = lock[k]
          BY <2>3, <5>1
        <5> QED
          BY <4>2, <5>1, <5>2
      <4> QED
        BY <2>2, <4>2, <4>3, <4>4, <4>5
    <3> QED
      BY <3>1, <3>2 DEF QueuedOnce
  <2>7. LockIsGivenBack'
    <3>1. \A j \in DOMAIN lock' : \E k \in DOMAIN lock : lock'[j] = lock[k]
      BY <2>2, <2>3
    <3>2. \A j \in DOMAIN lock' : pc'[lock'[j]] \notin {"idle", "ready"}
      <4> SUFFICES ASSUME NEW j \in DOMAIN lock'
                   PROVE  pc'[lock'[j]] \notin {"idle", "ready"}
        OBVIOUS
      <4>1. pc[lock'[j]] \notin {"idle", "ready"}
        BY <3>1 DEF IInv, LockIsGivenBack
      <4> QED
        BY <2>5, <4>1 DEF Leaves
    <3>3. ASSUME NEW x \in Clients, pc'[x] \in Inside
          PROVE  lock' # <<>> /\ Head(lock') = x
      <4>1. x # c /\ pc[x] \in Inside
        BY <3>3 DEF Leaves, Inside, Connecting
      <4>2. lock # <<>> /\ lock[1] = x
        BY <2>2, <4>1 DEF IInv, LockIsGivenBack
      <4>3. 1 < i /\ lock'[1] = x /\ 1 \in DOMAIN lock'
        BY <2>1, <2>2, <2>3, <4>1, <4>2
      <4> QED
        BY <2>3, <4>3
    <3> QED
      BY <3>2, <3>3 DEF LockIsGivenBack
  <2> QED
    BY <1>0, <2>3, <2>6, <2>7
<1>2. CASE ~\E i \in DOMAIN lock : lock[i] = c
  <2>1. lock' = lock
    BY <1>2 DEF LeaveQueue
  <2>2. lock' \in Seq(Clients) /\ \A i \in DOMAIN lock : lock[i] \in Clients \ {c}
    BY <1>2, <2>1 DEF IInv, TypeOK
  <2>3. QueuedOnce'
    BY <2>1 DEF IInv, QueuedOnce, Leaves
  <2>4. LockIsGivenBack'
    BY <2>1, <2>2 DEF IInv, LockIsGivenBack, Leaves, Inside, Connecting
  <2> QED
    BY <1>0, <2>2, <2>3, <2>4
<1> QED
  BY <1>1, <1>2

(* The holder moves on under the mutex. *)
LEMMA HolderKeepsQueue ==
    ASSUME IInv, NEW c \in Clients, lock # <<>>, Head(lock) = c,
           pc[c] \notin {"idle", "ready"}, NEW p \in Inside,
           pc' = [pc EXCEPT ![c] = p], UNCHANGED <<lock, plan>>
    PROVE  /\ QueuedOnce' /\ LockIsGivenBack' /\ HasSteps'
           /\ pc' \in [Clients -> Outside \cup Inside]
           /\ pc'[c] = p
           /\ \A x \in Clients \ {c} : pc'[x] = pc[x] /\ pc'[x] \notin Inside
<1>1. /\ pc' \in [Clients -> Outside \cup Inside] /\ pc'[c] = p
      /\ \A x \in Clients \ {c} : pc'[x] = pc[x]
      /\ p \notin {"idle", "ready"}
  BY DEF IInv, TypeOK, Inside, Connecting
<1>2. \A x \in Clients \ {c} : pc[x] \notin Inside
  BY DEF IInv, LockIsGivenBack
<1>3. \A i \in DOMAIN lock : lock[i] \in Clients
  BY DEF IInv, TypeOK
<1>4. QueuedOnce'
  BY <1>1 DEF IInv, QueuedOnce
<1>5. LockIsGivenBack'
  BY <1>1, <1>2, <1>3 DEF IInv, LockIsGivenBack
<1>6. HasSteps'
  BY <1>1 DEF IInv, HasSteps
<1> QED
  BY <1>1, <1>2, <1>4, <1>5, <1>6

----------------------------------------------------------------------------
(* The inductive invariant *)

Unbroken(set) == \A s \in set : ~s.broken

(* The session a handler leaves when it hands the mutex back. *)
LEMMA ReleaseInv ==
    ASSUME IInv, NEW c \in Clients, lock # <<>>, Head(lock) = c, Release, Leaves(c),
           session' \subseteq [device : Devices, broken : BOOLEAN],
           AtMostOne(session'), Unbroken(session'), linkUp' \in BOOLEAN,
           UNCHANGED address, told' \in [Clients -> SUBSET Devices],
           target' \in [Clients -> SUBSET Devices],
           \A x \in Clients : AtMostOne(target'[x])
    PROVE  IInv'
<1>1. /\ lock' \in Seq(Clients)
      /\ QueuedOnce' /\ LockIsGivenBack' /\ HasSteps'
      /\ \A x \in Clients : pc'[x] \notin Inside
  BY ReleaseKeepsQueue
<1>2. TypeOK'
  BY <1>1 DEF IInv, TypeOK, Leaves
<1>3. HolderFitsSession'
  BY <1>1 DEF HolderFitsSession, AtMostOne, Inside
<1>4. DeadSessionIsNeverFound'
  BY DEF DeadSessionIsNeverFound, Unbroken
<1> QED
  BY <1>1, <1>2, <1>3, <1>4 DEF IInv

(* The session the holder of the mutex goes on with. *)
LEMMA HolderInv ==
    ASSUME IInv, NEW c \in Clients, lock # <<>>, Head(lock) = c,
           pc[c] \notin {"idle", "ready"}, NEW p \in Inside,
           pc' = [pc EXCEPT ![c] = p], UNCHANGED <<lock, plan, address, answer, told>>,
           session' \subseteq [device : Devices, broken : BOOLEAN],
           AtMostOne(session'), linkUp' \in BOOLEAN,
           target' \in [Clients -> SUBSET Devices],
           \A x \in Clients : AtMostOne(target'[x]),
           p \in Connecting => session' = {},
           p = "exchanging" => session' # {} /\ Unbroken(session'),
           ~Unbroken(session') => p = "failing"
    PROVE  IInv'
<1>1. /\ QueuedOnce' /\ LockIsGivenBack' /\ HasSteps'
      /\ pc' \in [Clients -> Outside \cup Inside]
      /\ pc'[c] = p
      /\ \A x \in Clients \ {c} : pc'[x] = pc[x] /\ pc'[x] \notin Inside
  BY HolderKeepsQueue
<1>2. TypeOK'
  BY <1>1 DEF IInv, TypeOK
<1>3. HolderFitsSession'
  <2>1. ASSUME NEW x \in Clients, x # c
        PROVE  pc'[x] \notin Connecting /\ pc'[x] # "exchanging"
    BY <1>1, <2>1 DEF Inside
  <2>2. Unbroken(session') => Live' = session'
    BY DEF Unbroken, Live
  <2> QED
    BY <1>1, <2>1, <2>2 DEF HolderFitsSession, AtMostOne
<1>4. DeadSessionIsNeverFound'
  BY <1>1 DEF DeadSessionIsNeverFound, Unbroken
<1> QED
  BY <1>1, <1>2, <1>3, <1>4 DEF IInv

(* Unless it is failing, the holder has a session not known to be dead. *)
LEMMA HolderUnbroken ==
    ASSUME IInv, NEW c \in Clients, lock # <<>>, Head(lock) = c, pc[c] # "failing"
    PROVE  Unbroken(session)
BY DEF IInv, DeadSessionIsNeverFound, Unbroken

(* The steps a handler takes with the mutex. *)
LEMMA HolderStep ==
    ASSUME IInv, NEW c \in Clients, Handler(c), ~Lock(c), ~Refused(c)
    PROVE  IInv'
<1> USE DEF IInv
<1>0. /\ lock # <<>> /\ Head(lock) = c
      /\ pc[c] \notin {"idle", "ready"}
      /\ plan[c] # <<>>
  <2>1. Granted(c) \/ pc[c] \in Inside
    BY DEF Handler, LookAtSession, EnsureSession, Disconnect, ConnectReuses,
           ConnectStarts, Resolved, Opened, ConnectFails, Installed, NoSession,
           ExchangeBegins, ExchangeEnds, ExchangeBreaks, ExchangeFails, Inside,
           Connecting
  <2>2. CASE Granted(c)
    BY <2>2 DEF Granted, HasSteps
  <2>3. CASE pc[c] \in Inside
    <3>1. pc[c] \notin {"idle", "ready"}
      BY <2>3 DEF Inside, Connecting
    <3> QED
      BY <2>3, <3>1 DEF LockIsGivenBack, HasSteps
  <2> QED
    BY <2>1, <2>2, <2>3
<1>t. /\ session \subseteq [device : Devices, broken : BOOLEAN] /\ AtMostOne(session)
      /\ linkUp \in BOOLEAN
      /\ told \in [Clients -> SUBSET Devices]
      /\ target \in [Clients -> SUBSET Devices]
      /\ \A x \in Clients : AtMostOne(target[x])
  BY DEF TypeOK, HolderFitsSession
<1>n. AtMostOne({}) /\ Unbroken({})
      /\ {} \subseteq [device : Devices, broken : BOOLEAN]
  BY DEF AtMostOne, Unbroken
<1>l. {s.device : s \in Live} \in SUBSET Devices
  BY <1>t DEF Live
<1>e. ASSUME NEW result \in Answers, Ends(c, result)
      PROVE  Leaves(c)
  BY <1>0, <1>e, EndsLeaves
<1>a. {"ok", "no_session", "detection", "io"} \cup Results \subseteq Answers
  BY DEF Answers, Results
<1>1. CASE LookAtSession(c)
  <2>1. Leaves(c)
    BY <1>1, <1>a, <1>e, GiveLeaves DEF LookAtSession
  <2>2. Unbroken(session)
    BY <1>0, <1>1, HolderUnbroken DEF LookAtSession, Granted
  <2> QED
    BY <1>0, <1>1, <1>t, <1>l, <2>1, <2>2, ReleaseInv DEF LookAtSession
<1>2. CASE EnsureSession(c)
  <2>1. Tail(plan[c]) \in Seq(Steps) /\ <<"connect">> \o Tail(plan[c]) \in Seq(Steps)
    <3>1. plan[c] \in Seq(Steps) /\ <<"connect">> \in Seq(Steps)
      BY DEF TypeOK, Steps
    <3> QED
      BY <1>0, <3>1
  <2>2. Leaves(c)
    BY <1>2, <2>1, ContinueLeaves DEF EnsureSession
  <2>3. Unbroken(session)
    BY <1>0, <1>2, HolderUnbroken DEF EnsureSession, Granted
  <2> QED
    BY <1>0, <1>2, <1>t, <2>2, <2>3, ReleaseInv DEF EnsureSession
<1>3. CASE Disconnect(c)
  <2>1. Leaves(c)
    BY <1>3, <1>a, <1>e DEF Disconnect
  <2> QED
    BY <1>0, <1>3, <1>t, <1>n, <2>1, ReleaseInv DEF Disconnect
<1>4. CASE ConnectReuses(c)
  <2>1. Leaves(c)
    BY <1>4, <1>a, <1>e DEF ConnectReuses
  <2>2. Unbroken(session)
    BY <1>0, <1>4, HolderUnbroken DEF ConnectReuses, Granted
  <2> QED
    BY <1>0, <1>4, <1>t, <1>l, <2>1, <2>2, ReleaseInv DEF ConnectReuses
<1>5. CASE ConnectStarts(c)
  <2>1. "resolving" \in Inside
    BY DEF Inside, Connecting
  <2> QED
    BY <1>0, <1>5, <1>t, <1>n, <2>1, HolderInv DEF ConnectStarts
<1>6. ASSUME NEW d \in Devices, Resolved(c, d)
      PROVE  IInv'
  <2>1. "opening" \in Inside /\ pc[c] \in Connecting
    BY <1>6 DEF Inside, Connecting, Resolved
  <2>2. session = {}
    BY <2>1 DEF HolderFitsSession
  <2>3. target' \in [Clients -> SUBSET Devices] /\ \A x \in Clients : AtMostOne(target'[x])
    BY <1>6, <1>t DEF Resolved, AtMostOne
  <2> QED
    BY <1>0, <1>6, <1>t, <1>n, <2>1, <2>2, <2>3, HolderInv DEF Resolved
<1>7. CASE Opened(c)
  <2>1. "settling" \in Inside /\ pc[c] \in Connecting
    BY <1>7 DEF Inside, Connecting, Opened
  <2>2. session = {}
    BY <2>1 DEF HolderFitsSession
  <2> QED
    BY <1>0, <1>7, <1>t, <1>n, <2>1, <2>2, HolderInv DEF Opened
<1>8. CASE ConnectFails(c)
  <2>1. Leaves(c)
    BY <1>8, <1>a, <1>e DEF ConnectFails
  <2>2. session = {}
    BY <1>8 DEF ConnectFails, HolderFitsSession, Connecting
  <2>3. target' \in [Clients -> SUBSET Devices] /\ \A x \in Clients : AtMostOne(target'[x])
    BY <1>8, <1>t DEF ConnectFails, AtMostOne
  <2> QED
    BY <1>0, <1>8, <1>t, <1>n, <2>1, <2>2, <2>3, ReleaseInv DEF ConnectFails
<1>9. CASE Installed(c)
  <2>1. Leaves(c)
    BY <1>9, <1>a, <1>e DEF Installed
  <2>2. target[c] \in SUBSET Devices /\ AtMostOne(target[c])
    BY <1>t
  <2>3. /\ session' \subseteq [device : Devices, broken : BOOLEAN]
        /\ AtMostOne(session') /\ Unbroken(session')
    <3>1. session' = {[device |-> d, broken |-> FALSE] : d \in target[c]}
      BY <1>9 DEF Installed
    <3>2. \A s \in session' : \E d \in target[c] : s = [device |-> d, broken |-> FALSE]
      BY <3>1
    <3>3. session' \subseteq [device : Devices, broken : BOOLEAN]
      <4>1. \A d \in Devices :
                [device |-> d, broken |-> FALSE] \in [device : Devices, broken : BOOLEAN]
        OBVIOUS
      <4>2. \A d \in target[c] : d \in Devices
        BY <2>2
      <4> QED
        BY <3>2, <4>1, <4>2
    <3>4. AtMostOne(session')
      BY <2>2, <3>2 DEF AtMostOne
    <3>5. Unbroken(session')
      BY <3>2 DEF Unbroken
    <3> QED
      BY <3>3, <3>4, <3>5
  <2>4. target' \in [Clients -> SUBSET Devices] /\ \A x \in Clients : AtMostOne(target'[x])
    BY <1>9, <1>t DEF Installed, AtMostOne
  <2>5. told' \in [Clients -> SUBSET Devices]
    BY <1>9, <1>t, <2>2 DEF Installed
  <2> QED
    BY <1>0, <1>9, <2>1, <2>3, <2>4, <2>5, ReleaseInv DEF Installed
<1>10. CASE NoSession(c)
  <2>1. Leaves(c)
    BY <1>10, <1>a, <1>e DEF NoSession
  <2> QED
    BY <1>0, <1>10, <1>t, <1>n, <2>1, ReleaseInv DEF NoSession
<1>11. CASE ExchangeBegins(c)
  <2>1. "exchanging" \in Inside /\ "exchanging" \notin Connecting
    BY DEF Inside, Connecting
  <2>2. Unbroken(session)
    BY <1>0, <1>11, HolderUnbroken DEF ExchangeBegins, Granted
  <2> QED
    BY <1>0, <1>11, <1>t, <2>1, <2>2, HolderInv DEF ExchangeBegins
<1>12. ASSUME NEW result \in Results, ExchangeEnds(c, result)
       PROVE  IInv'
  <2>1. Leaves(c)
    BY <1>12, <1>a, <1>e DEF ExchangeEnds
  <2>2. Unbroken(session)
    BY <1>0, <1>12, HolderUnbroken DEF ExchangeEnds
  <2> QED
    BY <1>0, <1>12, <1>t, <2>1, <2>2, ReleaseInv DEF ExchangeEnds
<1>13. CASE ExchangeBreaks(c)
  <2>1. "failing" \in Inside /\ "failing" \notin Connecting
    BY DEF Inside, Connecting
  <2>2. session' \subseteq [device : Devices, broken : BOOLEAN] /\ AtMostOne(session')
    BY <1>13, <1>t DEF ExchangeBreaks, AtMostOne
  <2> QED
    BY <1>0, <1>13, <1>t, <2>1, <2>2, HolderInv DEF ExchangeBreaks
<1>14. CASE ExchangeFails(c)
  <2>1. Leaves(c)
    BY <1>14, <1>a, <1>e DEF ExchangeFails
  <2> QED
    BY <1>0, <1>14, <1>t, <1>n, <2>1, ReleaseInv DEF ExchangeFails
<1> QED
  BY <1>1, <1>2, <1>3, <1>4, <1>5, <1>6, <1>7, <1>8, <1>9, <1>10, <1>11, <1>12,
     <1>13, <1>14 DEF Handler

(* Queueing, refusing, calling, hanging up, losing the link keep the invariant. *)
LEMMA OtherStep ==
    ASSUME IInv, [Next]_vars,
           \A c \in Clients : Handler(c) => Lock(c) \/ Refused(c)
    PROVE  IInv'
<1> USE DEF IInv
<1>0. ASSUME NEW c \in Clients, Refused(c)
      PROVE  IInv'
  <2>1. Leaves(c)
    BY <1>0, GiveLeaves DEF Refused, Answers, Results
  <2>2. pc[c] = "ready" /\ pc'[c] = "idle"
    BY <1>0 DEF Refused, Give, TypeOK
  <2>3. LeaveQueue(c)
    BY <1>0, <2>2 DEF LockIsGivenBack, LeaveQueue, Refused
  <2>4. lock' \in Seq(Clients) /\ QueuedOnce' /\ LockIsGivenBack' /\ HasSteps'
    BY <2>1, <2>2, <2>3, LeavingKeepsQueue
  <2>5. TypeOK'
    BY <1>0, <2>1, <2>4 DEF TypeOK, Refused, Leaves
  <2>6. HolderFitsSession'
    BY <1>0, <2>1, <2>2
    DEF HolderFitsSession, Refused, Leaves, Connecting, Live
  <2>7. DeadSessionIsNeverFound'
    <3> SUFFICES ASSUME NEW s \in session, s.broken
                 PROVE  lock # <<>> /\ pc'[Head(lock)] = "failing"
      BY <1>0 DEF DeadSessionIsNeverFound, Refused
    <3>1. lock # <<>> /\ pc[Head(lock)] = "failing" /\ Head(lock) \in Clients
      BY DEF DeadSessionIsNeverFound, TypeOK
    <3> QED
      BY <2>1, <2>2, <3>1 DEF Leaves
  <2> QED
    BY <2>4, <2>5, <2>6, <2>7
<1>1. ASSUME NEW c \in Clients, Lock(c)
      PROVE  IInv'
  <2>1. /\ lock \in Seq(Clients) /\ lock' = Append(lock, c)
        /\ Len(lock) \in Nat /\ DOMAIN lock = 1 .. Len(lock)
        /\ lock' \in Seq(Clients) /\ lock' # <<>>
        /\ DOMAIN lock' = 1 .. Len(lock) + 1
        /\ \A i \in DOMAIN lock : lock'[i] = lock[i]
        /\ lock'[Len(lock) + 1] = c
        /\ lock # <<>> => Head(lock') = Head(lock)
    <3>1. lock \in Seq(Clients) /\ lock' = Append(lock, c)
      BY <1>1 DEF TypeOK, Lock
    <3>2. /\ Len(lock) \in Nat /\ DOMAIN lock = 1 .. Len(lock)
          /\ lock' \in Seq(Clients) /\ Len(lock') = Len(lock) + 1
          /\ \A i \in 1 .. Len(lock) : lock'[i] = lock[i]
          /\ lock'[Len(lock) + 1] = c
      BY <3>1
    <3>3. DOMAIN lock' = 1 .. Len(lock) + 1 /\ lock' # <<>>
      BY <3>2
    <3>4. ASSUME lock # <<>>
          PROVE  Head(lock') = Head(lock)
      <4>1. 1 \in 1 .. Len(lock) /\ Head(lock) = lock[1]
        BY <3>1, <3>4
      <4>2. Head(lock') = lock'[1]
        BY <3>2, <3>3
      <4> QED
        BY <3>2, <4>1, <4>2
    <3> QED
      BY <3>1, <3>2, <3>3, <3>4
  <2>2. /\ pc[c] = "ready" /\ pc'[c] = "waiting"
        /\ pc' \in [Clients -> Outside \cup Inside]
        /\ \A x \in Clients \ {c} : pc'[x] = pc[x]
    BY <1>1 DEF TypeOK, Lock, Outside
  <2>3. "waiting" \notin Inside \cup {"idle", "ready"}
    BY DEF Inside, Connecting
  <2>4. \A i \in DOMAIN lock : lock[i] \in Clients /\ lock[i] # c
    BY <2>1, <2>2 DEF LockIsGivenBack
  <2>5. TypeOK'
    BY <1>1, <2>1, <2>2 DEF TypeOK, Lock
  <2>6. QueuedOnce'
    <3>1. \A i, j \in DOMAIN lock' : lock'[i] = lock'[j] => i = j
      BY <2>1, <2>4 DEF QueuedOnce
    <3>2. ASSUME NEW x \in Clients, pc'[x] \notin {"idle", "ready"}
          PROVE  \E i \in DOMAIN lock' : lock'[i] = x
      <4>1. CASE x = c
        BY <2>1, <4>1
      <4>2. CASE x # c
        <5>1. PICK i \in DOMAIN lock : lock[i] = x
          BY <2>2, <3>2, <4>2 DEF QueuedOnce
        <5> QED
          BY <2>1, <5>1
      <4> QED
        BY <4>1, <4>2
    <3> QED
      BY <3>1, <3>2 DEF QueuedOnce
  <2>7. LockIsGivenBack'
    <3>1. \A i \in DOMAIN lock' : i # Len(lock) + 1 => i \in DOMAIN lock
      BY <2>1
    <3>2. \A i \in DOMAIN lock : pc'[lock'[i]] \notin {"idle", "ready"}
      BY <2>1, <2>2, <2>4 DEF LockIsGivenBack
    <3>3. \A i \in DOMAIN lock' : pc'[lock'[i]] \notin {"idle", "ready"}
      BY <2>1, <2>2, <2>3, <3>1, <3>2
    <3>4. \A x \in Clients : pc'[x] \in Inside => lock' # <<>> /\ Head(lock') = x
      BY <2>1, <2>2, <2>3 DEF LockIsGivenBack
    <3> QED
      BY <3>3, <3>4 DEF LockIsGivenBack
  <2>8. HasSteps'
    BY <1>1, <2>2 DEF HasSteps, Lock
  <2>9. HolderFitsSession'
    BY <1>1, <2>2, <2>3 DEF HolderFitsSession, Lock, Inside, Live
  <2>10. DeadSessionIsNeverFound'
    <3> SUFFICES ASSUME NEW s \in session, s.broken
                 PROVE  lock' # <<>> /\ pc'[Head(lock')] = "failing"
      BY <1>1 DEF DeadSessionIsNeverFound, Lock
    <3>1. lock # <<>> /\ pc[Head(lock)] = "failing" /\ Head(lock) \in Clients
      BY <2>1 DEF DeadSessionIsNeverFound
    <3> QED
      BY <2>1, <2>2, <3>1
  <2> QED
    BY <2>5, <2>6, <2>7, <2>8, <2>9, <2>10
<1>2. ASSUME NEW c \in Clients, NEW r \in Requests, Call(c, r)
      PROVE  IInv'
  <2>1. r.address \in SUBSET Devices
    BY RequestsAssumption DEF AllRequests, Addresses
  <2>2. PlanOf(r) \in Seq(Steps) /\ PlanOf(r) # <<>>
    BY RequestsAssumption, RequestsHaveSteps
  <2>3. /\ pc[c] = "idle" /\ pc'[c] = "ready"
        /\ pc' \in [Clients -> Outside \cup Inside]
        /\ \A x \in Clients \ {c} : pc'[x] = pc[x] /\ plan'[x] = plan[x]
        /\ plan'[c] # <<>>
    BY <1>2, <2>2 DEF TypeOK, Call, Outside
  <2>4. TypeOK'
    BY <1>2, <2>1, <2>2, <2>3 DEF TypeOK, Call, Answers
  <2>5. \A i \in DOMAIN lock : lock[i] \in Clients /\ lock[i] # c
    BY <2>3 DEF TypeOK, LockIsGivenBack
  <2>6. QueuedOnce' /\ LockIsGivenBack'
    BY <1>2, <2>3, <2>5 DEF QueuedOnce, LockIsGivenBack, Call, Inside, Connecting
  <2>7. HasSteps'
    BY <2>3 DEF HasSteps
  <2>8. HolderFitsSession'
    BY <1>2, <2>3 DEF HolderFitsSession, Call, Connecting, Live
  <2>9. DeadSessionIsNeverFound'
    <3> SUFFICES ASSUME NEW s \in session, s.broken
                 PROVE  lock # <<>> /\ pc'[Head(lock)] = "failing"
      BY <1>2 DEF DeadSessionIsNeverFound, Call
    <3>1. /\ lock # <<>> /\ pc[Head(lock)] = "failing"
          /\ Head(lock) \in Clients
      BY DEF DeadSessionIsNeverFound, TypeOK
    <3> QED
      BY <2>3, <3>1
  <2> QED
    BY <2>4, <2>6, <2>7, <2>8, <2>9
<1>3. ASSUME NEW c \in Clients, Cancel(c)
      PROVE  IInv'
  <2>1. Leaves(c)
    BY <1>3, GiveLeaves DEF Cancel, Answers
  <2>2. pc[c] \notin {"idle", "failing"} /\ pc'[c] = "idle"
    BY <1>3 DEF Cancel, Give, TypeOK
  <2>3. lock' \in Seq(Clients) /\ QueuedOnce' /\ LockIsGivenBack' /\ HasSteps'
    BY <1>3, <2>1, <2>2, LeavingKeepsQueue DEF Cancel
  <2>4. TypeOK'
    BY <1>3, <2>1, <2>3 DEF TypeOK, Cancel, Leaves
  <2>5. HolderFitsSession'
    BY <1>3, <2>1, <2>2
    DEF HolderFitsSession, Cancel, Leaves, TypeOK, AtMostOne, Connecting, Live
  <2>6. DeadSessionIsNeverFound'
    <3> SUFFICES ASSUME NEW s \in session, s.broken
                 PROVE  lock' # <<>> /\ pc'[Head(lock')] = "failing"
      BY <1>3 DEF DeadSessionIsNeverFound, Cancel
    <3> DEFINE h == Head(lock)
    <3>1. lock # <<>> /\ pc[h] = "failing" /\ h \in Clients
      BY DEF DeadSessionIsNeverFound, TypeOK
    <3>2. pc'[h] = "failing"
      BY <2>1, <2>2, <3>1 DEF Leaves
    <3>3. pc'[h] \in Inside
      BY <3>2 DEF Inside
    <3> HIDE DEF h
    <3> QED
      BY <2>3, <3>1, <3>2, <3>3 DEF LockIsGivenBack
  <2> QED
    BY <2>3, <2>4, <2>5, <2>6
<1>4. CASE LinkDown
  BY <1>4 DEF LinkDown, handlers, TypeOK, QueuedOnce, LockIsGivenBack, HasSteps,
              HolderFitsSession, Live, DeadSessionIsNeverFound
<1>5. CASE UNCHANGED vars
  BY <1>5 DEF vars, handlers, TypeOK, QueuedOnce, LockIsGivenBack, HasSteps,
              HolderFitsSession, Live, DeadSessionIsNeverFound
<1> QED
  BY <1>0, <1>1, <1>2, <1>3, <1>4, <1>5 DEF Next

LEMMA InvInit == Init => IInv
<1> SUFFICES ASSUME Init
             PROVE  IInv
  OBVIOUS
<1>1. TypeOK
  <2>1. lock \in Seq(Clients) /\ <<>> \in Seq(Steps)
    BY DEF Init
  <2>2. plan \in [Clients -> Seq(Steps)]
    BY <2>1 DEF Init
  <2>3. pc \in [Clients -> Outside \cup Inside] /\ answer \in [Clients -> Answers]
    BY DEF Init, Outside, Answers
  <2> QED
    BY <2>1, <2>2, <2>3 DEF Init, TypeOK
<1>2. QueuedOnce /\ LockIsGivenBack /\ HasSteps
  BY DEF Init, QueuedOnce, LockIsGivenBack, HasSteps, Inside, Connecting
<1>3. HolderFitsSession /\ DeadSessionIsNeverFound
  BY DEF Init, HolderFitsSession, DeadSessionIsNeverFound, AtMostOne, Connecting
<1> QED
  BY <1>1, <1>2, <1>3 DEF IInv

LEMMA InvStep ==
    ASSUME IInv, [Next]_vars
    PROVE  IInv'
BY HolderStep, OtherStep

(* The inductive invariant holds of every state. *)
THEOREM Invariance == Spec => []IInv
<1>1. IInv /\ [Next]_vars => IInv'
  BY InvStep
<1> QED
  BY <1>1, InvInit, PTL DEF Spec

(* Every state is of its type. *)
THEOREM TypeCorrect == Spec => []TypeOK
<1>1. IInv => TypeOK
  BY DEF IInv
<1> QED
  BY <1>1, Invariance, PTL

(* A session known to be dead is only there while the handler that found   *)
(* it dead still holds the mutex.                                          *)
THEOREM DeadSessionsAreDropped == Spec => []DeadSessionIsNeverFound
<1>1. IInv => DeadSessionIsNeverFound
  BY DEF IInv
<1> QED
  BY <1>1, Invariance, PTL

(* The mutex and the places in its queue belong to handlers that want it. *)
THEOREM LocksAreGivenBack == Spec => []LockIsGivenBack
<1>1. IInv => LockIsGivenBack
  BY DEF IInv
<1> QED
  BY <1>1, Invariance, PTL

(* The server never holds two links to headsets. *)
THEOREM AtMostOneLink == Spec => []OneLink
<1>1. ASSUME IInv
      PROVE  OneLink
  <2> DEFINE Settling == {c \in Clients : pc[c] = "settling"}
  <2>1. AtMostOne(session) /\ AtMostOne(Settling)
    BY <1>1 DEF IInv, HolderFitsSession, LockIsGivenBack, AtMostOne, Inside, Connecting
  <2>2. session = {} \/ Settling = {}
    BY <1>1 DEF IInv, HolderFitsSession, Connecting
  <2>3. ASSUME NEW set, AtMostOne(set)
        PROVE  set = {} \/ \E x : set = {x}
    BY <2>3 DEF AtMostOne
  <2>4. ASSUME NEW set, AtMostOne(set)
        PROVE  Cardinality(set) \in {0, 1} /\ Cardinality({}) = 0
    <3>1. Cardinality({}) = 0
      BY FS_EmptySet
    <3>2. CASE set = {}
      BY <3>1, <3>2
    <3>3. CASE \E x : set = {x}
      BY <3>1, <3>3, FS_Singleton
    <3> QED
      BY <2>3, <2>4, <3>2, <3>3
  <2> HIDE DEF Settling
  <2>5. Cardinality(session) + Cardinality(Settling) <= 1
    BY <2>1, <2>2, <2>4
  <2> QED
    BY <2>5 DEF OneLink, Settling
<1> QED
  BY <1>1, Invariance, PTL

(* No other client's step touches the session of a running exchange. *)
THEOREM ExchangesKeepTheirSession == Spec => ExchangeKeepsItsSession
<1>1. ASSUME IInv, [Next]_vars
      PROVE  [\A c \in Clients : pc[c] = "exchanging" /\ pc'[c] = "exchanging"
                                    => session' = session]_vars
  <2> SUFFICES ASSUME NEW c \in Clients, pc[c] = "exchanging", pc'[c] = "exchanging",
                      Next
               PROVE  session' = session
    BY <1>1
  <2>1. lock # <<>> /\ Head(lock) = c
    BY <1>1 DEF IInv, LockIsGivenBack, Inside
  <2>2. \A x \in Clients \ {c} : pc[x] \notin Inside /\ ~Granted(x)
    BY <1>1, <2>1 DEF IInv, LockIsGivenBack, Granted
  <2>3. ASSUME NEW x \in Clients, Handler(x)
        PROVE  session' = session
    <3>1. CASE x = c
      BY <2>3, <3>1, <1>1
      DEF Handler, Lock, Refused, LookAtSession, EnsureSession, Disconnect,
          ConnectReuses, ConnectStarts, Resolved, Opened, ConnectFails, Installed, NoSession,
          ExchangeBegins, ExchangeEnds, ExchangeBreaks, ExchangeFails, Granted,
          IInv, TypeOK
    <3>2. CASE x # c
      <4>1. pc[x] \notin Inside /\ ~Granted(x)
        BY <2>2, <3>2
      <4>2. Lock(x) \/ Refused(x)
        BY <2>3, <4>1
        DEF Handler, LookAtSession, EnsureSession, Disconnect, ConnectReuses,
            ConnectStarts, Resolved, Opened, ConnectFails, Installed, NoSession,
            ExchangeBegins, ExchangeEnds, ExchangeBreaks, ExchangeFails, Inside,
            Connecting
      <4> QED
        BY <4>2 DEF Lock, Refused
    <3> QED
      BY <3>1, <3>2
  <2> QED
    BY <2>3 DEF Next, Cancel, Call, LinkDown
<1> QED
  BY <1>1, Invariance, PTL DEF Spec, ExchangeKeepsItsSession

(* No step turns a session with one device into one with another: a        *)
(* connect installs its own only where there is none.                      *)
THEOREM NoSwitchIsSilent == Spec => NoSilentSwitch
<1> DEFINE Of(set) == {s.device : s \in set}
<1>1. ASSUME IInv, [Next]_vars
      PROVE  [session # {} /\ session' # {} => Of(session') = Of(session)]_vars
  <2> SUFFICES ASSUME Next, session # {}, session' # {}
               PROVE  Of(session') = Of(session)
    BY <1>1
  <2>1. ASSUME NEW c \in Clients, Handler(c)
        PROVE  Of(session') = Of(session)
    <3>1. CASE ExchangeBreaks(c)
      <4>1. session' = {[s EXCEPT !.broken = TRUE] : s \in session}
        BY <3>1 DEF ExchangeBreaks
      <4>2. \A s \in session : [s EXCEPT !.broken = TRUE].device = s.device
        BY <1>1 DEF IInv, TypeOK
      <4> QED
        BY <4>1, <4>2, ZenonT(40)
    <3>2. CASE Installed(c)
      <4>1. pc[c] \in Connecting
        BY <3>2 DEF Installed, Connecting
      <4> QED
        BY <1>1, <4>1 DEF IInv, HolderFitsSession
    <3>3. CASE ~ExchangeBreaks(c) /\ ~Installed(c)
      <4>1. session' \in {session, {}}
        BY <2>1, <3>3
        DEF Handler, Lock, Refused, LookAtSession, EnsureSession, Disconnect,
            ConnectReuses, ConnectStarts, Resolved, Opened, ConnectFails, NoSession,
            ExchangeBegins, ExchangeEnds, ExchangeFails
      <4> QED
        BY <4>1
    <3> QED
      BY <3>1, <3>2, <3>3
  <2> QED
    BY <2>1 DEF Next, Cancel, Call, LinkDown
<1> QED
  BY <1>1, Invariance, PTL DEF Spec, NoSilentSwitch

----------------------------------------------------------------------------
(* Clients take turns with the session *)

(* The steps after which a client is done, or asks for the mutex anew.     *)
HandsBack(c) ==
    \/ Refused(c) \/ LookAtSession(c) \/ EnsureSession(c) \/ Disconnect(c)
    \/ ConnectReuses(c) \/ ConnectFails(c) \/ Installed(c) \/ NoSession(c)
    \/ \E result \in Results : ExchangeEnds(c, result)
    \/ ExchangeFails(c) \/ Cancel(c)

LEMMA HandedBack ==
    ASSUME IInv, NEW c \in Clients, HandsBack(c)
    PROVE  Leaves(c)
<1> USE DEF IInv
<1>a. {"ok", "no_session", "detection", "io", "invalid", "cancelled"} \cup Results
        \subseteq Answers
  BY DEF Answers, Results
<1>g. ASSUME NEW result \in Answers, Give(c, result)
      PROVE  Leaves(c)
  BY <1>g, GiveLeaves
<1>1. CASE Refused(c) \/ Cancel(c)
  BY <1>1, <1>a, <1>g DEF Refused, Cancel
<1>2. CASE ~Refused(c) /\ ~Cancel(c)
  <2>1. plan[c] # <<>>
    <3>1. Granted(c) \/ pc[c] \in Inside
      BY <1>2
      DEF HandsBack, LookAtSession, EnsureSession, Disconnect, ConnectReuses,
          ConnectFails, Installed, NoSession, ExchangeEnds, ExchangeFails, Inside,
          Connecting
    <3>2. pc[c] # "idle"
      BY <3>1 DEF Granted, Inside, Connecting
    <3> QED
      BY <3>2 DEF HasSteps
  <2>2. ASSUME NEW result \in Answers, Ends(c, result)
        PROVE  Leaves(c)
    BY <2>1, <2>2, EndsLeaves
  <2>3. CASE EnsureSession(c)
    <3>1. Tail(plan[c]) \in Seq(Steps) /\ <<"connect">> \o Tail(plan[c]) \in Seq(Steps)
      <4>1. plan[c] \in Seq(Steps) /\ <<"connect">> \in Seq(Steps)
        BY DEF TypeOK, Steps
      <4> QED
        BY <2>1, <4>1
    <3> QED
      BY <2>3, <3>1, ContinueLeaves DEF EnsureSession
  <2>4. CASE ~EnsureSession(c)
    BY <1>2, <2>2, <2>4, <1>a, <1>g
    DEF HandsBack, LookAtSession, Disconnect, ConnectReuses, ConnectFails, Installed,
        NoSession, ExchangeEnds, ExchangeFails
  <2> QED
    BY <2>3, <2>4
<1> QED
  BY <1>1, <1>2

(* A connect has found its device before it opens the link.                *)
HasTarget == \A c \in Clients : pc[c] \in {"opening", "settling"} => target[c] # {}

(* A client that is no longer about to open a link needs no target.        *)
LEMMA TargetNotNeeded ==
    ASSUME HasTarget, NEW c \in Clients, Leaves(c),
           \A x \in Clients \ {c} : target'[x] = target[x]
    PROVE  HasTarget'
BY DEF HasTarget, Leaves

LEMMA TargetStep ==
    ASSUME IInv, HasTarget, [Next]_vars
    PROVE  HasTarget'
<1> USE DEF IInv
<1>t. TypeOK /\ HasSteps
  OBVIOUS
<1>1. ASSUME NEW c \in Clients, NEW d \in Devices, Resolved(c, d)
      PROVE  HasTarget'
  BY <1>1 DEF HasTarget, Resolved, TypeOK
<1>2. ASSUME NEW c \in Clients, Opened(c)
      PROVE  HasTarget'
  BY <1>2 DEF HasTarget, Opened, TypeOK
<1>3. ASSUME NEW c \in Clients,
             \/ Lock(c) \/ ConnectStarts(c) \/ ExchangeBegins(c) \/ ExchangeBreaks(c)
             \/ \E r \in Requests : Call(c, r)
      PROVE  HasTarget'
  BY <1>3 DEF HasTarget, Lock, ConnectStarts, ExchangeBegins, ExchangeBreaks, Call, TypeOK
<1>4. ASSUME NEW c \in Clients, HandsBack(c)
      PROVE  HasTarget'
  <2>1. Leaves(c)
    BY <1>4, HandedBack
  <2>2. \A x \in Clients \ {c} : target'[x] = target[x]
    BY <1>4
    DEF HandsBack, TypeOK, Refused, LookAtSession, EnsureSession, Disconnect, ConnectReuses,
        ConnectFails, Installed, NoSession, ExchangeEnds, ExchangeFails, Cancel
  <2> QED
    BY <2>1, <2>2, TargetNotNeeded
<1>5. CASE LinkDown \/ UNCHANGED vars
  BY <1>5 DEF HasTarget, LinkDown, vars, handlers
<1> QED
  BY <1>1, <1>2, <1>3, <1>4, <1>5 DEF Next, Handler, HandsBack

(* How each step looks to those who share the session.                     *)
TurnsStep == Shared!Next \/ UNCHANGED Shared!vars

(* A client that hands the mutex back talks to the headset no longer.      *)
LEMMA LeavingStopsTalking ==
    ASSUME NEW c \in Clients, Leaves(c)
    PROVE  Talking' = Talking \ {c}
BY DEF Leaves, Talking

(* The holder of the mutex alone may be talking.                           *)
LEMMA HolderTalks ==
    ASSUME IInv, NEW c \in Clients, lock # <<>>, Head(lock) = c
    PROVE  /\ pc[c] \in {"exchanging", "failing"} => Talking = {c}
           /\ pc[c] \notin {"exchanging", "failing"} => Talking = {}
BY DEF IInv, LockIsGivenBack, Talking, Inside

LEMMA GivesAnswer ==
    ASSUME TypeOK, NEW c \in Clients, NEW result, Give(c, result)
    PROVE  /\ result = "no_session" => FoundNone' = FoundNone \cup {c}
           /\ result # "no_session" => FoundNone' = FoundNone \ {c}
BY DEF TypeOK, Give, FoundNone

LEMMA ContinuesServed ==
    ASSUME TypeOK, NEW c \in Clients, NEW steps, Continue(c, steps)
    PROVE  FoundNone' = FoundNone \ {c}
BY DEF TypeOK, Continue, FoundNone

LEMMA EndsServed ==
    ASSUME TypeOK, NEW c \in Clients, NEW result, Ends(c, result)
    PROVE  /\ FoundNone' \in {FoundNone \cup {c}, FoundNone \ {c}}
           /\ result # "no_session" => FoundNone' = FoundNone \ {c}
BY GivesAnswer, ContinuesServed DEF Ends

(* There is a device if there is a session, and it is the one told of.     *)
LEMMA DeviceOfSession ==
    /\ DevicesOf = {} <=> session = {}
    /\ Unbroken(session) => Live = session /\ {s.device : s \in Live} = DevicesOf
BY DEF DevicesOf, Unbroken, Live

(* The steps under the mutex that hand it back.                            *)
LEMMA HandingBackTakesTurns ==
    ASSUME IInv, HasTarget, NEW c \in Clients, HandsBack(c),
           lock # <<>>, Head(lock) = c, ~Refused(c), ~Cancel(c)
    PROVE  TurnsStep
<1>t. TypeOK
  BY DEF IInv
<1>1. Talking' = Talking \ {c}
  BY HandedBack, LeavingStopsTalking
<1>2. /\ pc[c] \in {"exchanging", "failing"} => Talking = {c}
      /\ pc[c] \notin {"exchanging", "failing"} => Talking = {} /\ Talking' = {}
  BY <1>1, HolderTalks
<1>3. Granted(c) =>
        /\ Talking = {} /\ Talking' = {}
        /\ Live = session /\ {s.device : s \in Live} = DevicesOf
        /\ DevicesOf = {} <=> session = {}
  BY <1>2, HolderUnbroken, DeviceOfSession DEF Granted
<1>4. session' = session => DevicesOf' = DevicesOf
  BY DEF DevicesOf
<1>5. session' = {} => DevicesOf' = {}
  BY DEF DevicesOf
<1>n. ASSUME \/ \E d \in Devices : Shared!Open(c, d)
             \/ Shared!Look(c) \/ Shared!Miss(c) \/ Shared!Take(c) \/ Shared!GiveBack(c)
             \/ Shared!Close(c) \/ Shared!StartOver(c) \/ Shared!Proceed(c)
      PROVE  TurnsStep
  BY <1>n DEF TurnsStep, Shared!Next
<1>6. CASE LookAtSession(c)
  <2>1. /\ told' = [told EXCEPT ![c] = DevicesOf]
        /\ DevicesOf' = DevicesOf
        /\ Talking = {} /\ Talking' = Talking
    BY <1>6, <1>3, <1>4 DEF LookAtSession
  <2>2. FoundNone' = IF DevicesOf = {} THEN FoundNone \cup {c} ELSE FoundNone \ {c}
    BY <1>6, <1>t, <1>3, GivesAnswer, EndsServed DEF LookAtSession
  <2>3. Shared!Look(c)
    BY <2>1, <2>2 DEF Shared!Look
  <2> QED
    BY <1>n, <2>3
<1>7. CASE EnsureSession(c)
  <2>1. /\ FoundNone' = FoundNone \ {c} /\ told' = told
        /\ DevicesOf' = DevicesOf /\ Talking = {} /\ Talking' = Talking
    BY <1>7, <1>t, <1>3, <1>4, ContinuesServed DEF EnsureSession
  <2>2. Shared!Proceed(c)
    BY <2>1 DEF Shared!Proceed
  <2> QED
    BY <1>n, <2>2
<1>8. CASE Disconnect(c)
  <2>1. Granted(c) /\ Ends(c, "ok") /\ told' = told /\ session' = {}
    BY <1>8 DEF Disconnect
  <2>2. FoundNone' = FoundNone \ {c}
    BY <1>t, <2>1, EndsServed
  <2>3. Shared!Close(c)
    BY <1>3, <1>5, <2>1, <2>2 DEF Shared!Close
  <2> QED
    BY <1>n, <2>3
<1>9. CASE ConnectReuses(c)
  <2>1. /\ told' = [told EXCEPT ![c] = DevicesOf] /\ DevicesOf # {}
        /\ DevicesOf' = DevicesOf
        /\ Talking = {} /\ Talking' = Talking
    BY <1>9, <1>3, <1>4 DEF ConnectReuses
  <2>2. FoundNone' = FoundNone \ {c}
    BY <1>9, <1>t, EndsServed DEF ConnectReuses
  <2>3. Shared!Look(c)
    BY <2>1, <2>2 DEF Shared!Look
  <2> QED
    BY <1>n, <2>3
<1>10. CASE ConnectFails(c)
  <2>1. /\ pc[c] \notin {"exchanging", "failing"} /\ told' = told /\ session' = session
        /\ Ends(c, "detection") \/ Ends(c, "io")
    BY <1>10 DEF ConnectFails
  <2>2. FoundNone' = FoundNone \ {c}
    BY <1>t, <2>1, EndsServed
  <2>3. Shared!Proceed(c)
    BY <1>2, <1>4, <2>1, <2>2 DEF Shared!Proceed
  <2> QED
    BY <1>n, <2>3
<1>11. CASE Installed(c)
  <2>1. pc[c] = "settling" /\ target[c] # {} /\ target[c] \subseteq Devices
    BY <1>11, <1>t DEF Installed, HasTarget, TypeOK
  <2>2. AtMostOne(target[c]) /\ session = {}
    BY <2>1 DEF IInv, HolderFitsSession, Connecting
  <2>3. PICK d \in Devices : target[c] = {d}
    BY <2>1, <2>2 DEF AtMostOne
  <2>4. session' = {[device |-> d, broken |-> FALSE]}
    BY <1>11, <2>3 DEF Installed
  <2>5. DevicesOf = {} /\ DevicesOf' = {d}
    BY <2>2, <2>4 DEF DevicesOf
  <2>6. told' = [told EXCEPT ![c] = {d}] /\ Ends(c, "ok")
    BY <1>11, <2>3 DEF Installed
  <2>7. FoundNone' = FoundNone \ {c}
    BY <1>t, <2>6, EndsServed
  <2>8. Shared!Open(c, d)
    BY <1>2, <2>1, <2>5, <2>6, <2>7 DEF Shared!Open
  <2> QED
    BY <1>n, <2>8
<1>12. CASE NoSession(c)
  <2>1. /\ told' = told /\ DevicesOf = {} /\ DevicesOf' = DevicesOf
        /\ Talking = {} /\ Talking' = Talking
    BY <1>12, <1>3, <1>4 DEF NoSession
  <2>2. FoundNone' \in {FoundNone \cup {c}, FoundNone \ {c}}
    BY <1>12, <1>t, EndsServed DEF NoSession
  <2>3. Shared!Miss(c) \/ Shared!Proceed(c)
    BY <2>1, <2>2 DEF Shared!Miss, Shared!Proceed
  <2> QED
    BY <1>n, <2>3
<1>13. CASE ExchangeFails(c) \/ \E result \in Results : ExchangeEnds(c, result)
  <2>1. /\ pc[c] \in {"exchanging", "failing"} /\ told' = told
        /\ session' \in {session, {}}
    BY <1>13 DEF ExchangeFails, ExchangeEnds
  <2>2. FoundNone' = FoundNone \ {c}
    BY <1>13, <1>t, EndsServed DEF ExchangeFails, ExchangeEnds, Results
  <2>3. Talking = {c} /\ Talking' = {} /\ DevicesOf' \in {DevicesOf, {}}
    BY <1>1, <1>2, <1>4, <1>5, <2>1
  <2>4. Shared!GiveBack(c)
    BY <2>1, <2>2, <2>3 DEF Shared!GiveBack
  <2> QED
    BY <1>n, <2>4
<1> QED
  BY <1>6, <1>7, <1>8, <1>9, <1>10, <1>11, <1>12, <1>13 DEF HandsBack

(* The other steps under the mutex: what is shared is as it was, or the    *)
(* holder begins to talk.                                                  *)
LEMMA HoldingTakesTurns ==
    ASSUME IInv, NEW c \in Clients,
           \/ Lock(c) \/ ConnectStarts(c) \/ \E d \in Devices : Resolved(c, d)
           \/ Opened(c) \/ ExchangeBegins(c) \/ ExchangeBreaks(c)
    PROVE  TurnsStep
<1>t. TypeOK
  BY DEF IInv
<1>s. ASSUME UNCHANGED <<DevicesOf, Talking, told, answer>>
      PROVE  TurnsStep
  <2>1. FoundNone' = FoundNone
    BY <1>s DEF FoundNone
  <2> QED
    BY <1>s, <2>1 DEF TurnsStep, Shared!vars
<1>p. ASSUME NEW p, p \notin {"exchanging", "failing"}, pc' = [pc EXCEPT ![c] = p],
             pc[c] \notin {"exchanging", "failing"}
      PROVE  Talking' = Talking
  BY <1>t, <1>p DEF TypeOK, Talking
<1>d. session' = session => DevicesOf' = DevicesOf
  BY DEF DevicesOf
<1>g. Granted(c) => lock # <<>> /\ Head(lock) = c /\ pc[c] = "waiting"
  BY DEF Granted
<1>1. CASE Lock(c) \/ Opened(c) \/ \E d \in Devices : Resolved(c, d)
  <2>1. UNCHANGED <<session, told, answer>>
    BY <1>1 DEF Lock, Opened, Resolved
  <2>2. PICK p \in {"waiting", "settling", "opening"} : pc' = [pc EXCEPT ![c] = p]
    BY <1>1 DEF Lock, Opened, Resolved
  <2>3. pc[c] \in {"ready", "opening", "resolving"}
    BY <1>1 DEF Lock, Opened, Resolved
  <2>4. Talking' = Talking
    BY <1>p, <2>2, <2>3
  <2> QED
    BY <1>s, <1>d, <2>1, <2>4
<1>2. CASE ConnectStarts(c)
  <2>1. /\ Granted(c) /\ Live = {} /\ session' = {} /\ UNCHANGED <<told, answer>>
        /\ pc' = [pc EXCEPT ![c] = "resolving"]
    BY <1>2 DEF ConnectStarts
  <2>2. session = {}
    BY <1>g, <2>1, HolderUnbroken, DeviceOfSession
  <2>3. Talking' = Talking
    <3>1. pc[c] = "waiting" /\ pc' = [pc EXCEPT ![c] = "resolving"]
      BY <1>g, <2>1
    <3> QED
      BY <1>p, <3>1
  <2> QED
    BY <1>s, <1>d, <2>1, <2>2, <2>3
<1>3. CASE ExchangeBegins(c)
  <2>1. /\ Granted(c) /\ session # {} /\ UNCHANGED <<session, told, answer>>
        /\ pc' = [pc EXCEPT ![c] = "exchanging"]
    BY <1>3 DEF ExchangeBegins
  <2>2. Talking = {} /\ Talking' = {c}
    <3>1. Talking = {}
      BY <1>g, <2>1, HolderTalks
    <3> QED
      BY <1>t, <2>1, <3>1 DEF TypeOK, Talking
  <2>3. DevicesOf # {} /\ DevicesOf' = DevicesOf
    BY <1>d, <2>1, DeviceOfSession
  <2>4. FoundNone' = FoundNone
    BY <2>1 DEF FoundNone
  <2>5. Shared!Take(c)
    BY <2>1, <2>2, <2>3, <2>4 DEF Shared!Take
  <2> QED
    BY <2>5 DEF TurnsStep, Shared!Next
<1>4. CASE ExchangeBreaks(c)
  <2>1. /\ pc[c] = "exchanging" /\ UNCHANGED <<told, answer>>
        /\ pc' = [pc EXCEPT ![c] = "failing"]
        /\ session' = {[s EXCEPT !.broken = TRUE] : s \in session}
    BY <1>4 DEF ExchangeBreaks
  <2>2. \A s \in session : [s EXCEPT !.broken = TRUE].device = s.device
    BY <1>t DEF TypeOK
  <2>3. DevicesOf' = DevicesOf
    BY <2>1, <2>2, ZenonT(40) DEF DevicesOf
  <2>4. Talking' = Talking
    BY <1>t, <2>1 DEF TypeOK, Talking
  <2> QED
    BY <1>s, <2>1, <2>3, <2>4
<1> QED
  BY <1>1, <1>2, <1>3, <1>4

(* A refusal, a request, a client that hangs up: the others see nothing of *)
(* it.                                                                     *)
LEMMA OutsideTakesTurns ==
    ASSUME IInv, NEW c \in Clients,
           Refused(c) \/ Cancel(c) \/ \E r \in Requests : Call(c, r)
    PROVE  TurnsStep
<1>t. TypeOK
  BY DEF IInv
<1>d. session' = session => DevicesOf' = DevicesOf
  BY DEF DevicesOf
<1>n. ASSUME Shared!StartOver(c) \/ Shared!Proceed(c)
      PROVE  TurnsStep
  BY <1>n DEF TurnsStep, Shared!Next
<1>1. CASE Refused(c)
  <2>1. pc[c] = "ready" /\ Give(c, "invalid") /\ UNCHANGED <<session, told>>
    BY <1>1 DEF Refused
  <2>2. FoundNone' = FoundNone \ {c}
    BY <1>t, <2>1, GivesAnswer
  <2>3. Leaves(c)
    BY <1>1, HandedBack DEF HandsBack
  <2>4. c \notin Talking /\ Talking' = Talking
    <3>1. c \notin Talking
      BY <2>1 DEF Talking
    <3> QED
      BY <2>3, <3>1, LeavingStopsTalking
  <2>5. Shared!Proceed(c)
    BY <1>d, <2>1, <2>2, <2>4 DEF Shared!Proceed
  <2> QED
    BY <1>n, <2>5
<1>2. CASE Cancel(c)
  <2>1. /\ Give(c, "cancelled") /\ UNCHANGED session
        /\ told' = [told EXCEPT ![c] = {}]
    BY <1>2 DEF Cancel
  <2>2. FoundNone' = FoundNone \ {c}
    BY <1>t, <2>1, GivesAnswer
  <2>3. Leaves(c)
    BY <1>2, HandedBack DEF HandsBack
  <2>4. Talking' = Talking \ {c}
    BY <2>3, LeavingStopsTalking
  <2>5. Shared!StartOver(c)
    BY <1>d, <2>1, <2>2, <2>4 DEF Shared!StartOver
  <2> QED
    BY <1>n, <2>5
<1>3. ASSUME NEW r \in Requests, Call(c, r)
      PROVE  TurnsStep
  <2>1. /\ pc[c] = "idle" /\ pc' = [pc EXCEPT ![c] = "ready"]
        /\ answer' = [answer EXCEPT ![c] = "none"]
        /\ told' = [told EXCEPT ![c] = {}] /\ UNCHANGED session
    BY <1>3 DEF Call
  <2>2. FoundNone' = FoundNone \ {c}
    BY <1>t, <2>1 DEF TypeOK, FoundNone
  <2>3. Talking' = Talking \ {c}
    BY <1>t, <2>1 DEF TypeOK, Talking
  <2>4. Shared!StartOver(c)
    BY <1>d, <2>1, <2>2, <2>3 DEF Shared!StartOver
  <2> QED
    BY <1>n, <2>4
<1> QED
  BY <1>1, <1>2, <1>3

(* Every step of the manager is one of the shared session, or none.        *)
LEMMA TurnsAreTaken ==
    ASSUME IInv, HasTarget, [Next]_vars
    PROVE  TurnsStep
<1>1. ASSUME NEW c \in Clients, HandsBack(c), ~Refused(c), ~Cancel(c)
      PROVE  TurnsStep
  <2>1. Granted(c) \/ pc[c] \in Inside
    BY <1>1
    DEF HandsBack, LookAtSession, EnsureSession, Disconnect, ConnectReuses,
        ConnectFails, Installed, NoSession, ExchangeEnds, ExchangeFails, Inside,
        Connecting
  <2>2. lock # <<>> /\ Head(lock) = c
    BY <2>1 DEF IInv, LockIsGivenBack, Granted
  <2> QED
    BY <1>1, <2>2, HandingBackTakesTurns
<1>2. CASE LinkDown \/ UNCHANGED vars
  BY <1>2
  DEF LinkDown, vars, handlers, TurnsStep, Shared!vars, DevicesOf, Talking, FoundNone
<1>3. ASSUME NEW c \in Clients, Handler(c) \/ Cancel(c)
      PROVE  TurnsStep
  BY <1>1, <1>3, HoldingTakesTurns, OutsideTakesTurns DEF Handler, HandsBack
<1>4. ASSUME NEW c \in Clients, NEW r \in Requests, Call(c, r)
      PROVE  TurnsStep
  BY <1>4, OutsideTakesTurns
<1> QED
  BY <1>2, <1>3, <1>4 DEF Next

(* The manager implements the session that clients take in turn: whatever  *)
(* the interleaving, the errors and the clients that hang up, each is told *)
(* of the session there is, none is refused for want of one that is there, *)
(* and nobody opens or drops it while another talks to the headset.        *)
THEOREM Refinement == Spec => TakesTurns
<1>1. Init => Shared!Init /\ HasTarget
  BY DEF Init, Shared!Init, HasTarget, DevicesOf, Talking, FoundNone
<1>2. IInv /\ HasTarget /\ [Next]_vars => HasTarget' /\ [Shared!Next]_(Shared!vars)
  BY TargetStep, TurnsAreTaken DEF TurnsStep
<1> QED
  BY <1>1, <1>2, Invariance, PTL DEF Spec, TakesTurns, Shared!Spec
=============================================================================
