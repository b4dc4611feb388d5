----------------------- MODULE ServerLifecycle_proofs -----------------------
(* The safety properties of ServerLifecycle for any number of workers,     *)
(* connections and starts.                                                 *)
EXTENDS ServerLifecycle, TLAPS

(* The server that was constructed and not started satisfies the invariant. *)
LEMMA LifecycleInit == Init => LifecycleInv
<1> SUFFICES ASSUME Init PROVE LifecycleInv
  OBVIOUS
<1> USE LifecycleAssumption DEF Init
<1>1. TypeOK
  <2>1. leaving \in BOOLEAN /\ m_running \in BOOLEAN /\ ioStopped \in BOOLEAN /\ crashed \in BOOLEAN
    OBVIOUS
  <2>2. starts \in 0..MaxStarts /\ pendingAccepts \in Nat /\ m_chatHistory \in 0..MAX_HISTORY_SIZE
    OBVIOUS
  <2>3. calls \in Seq(Workers)
    OBVIOUS
  <2> QED
    BY <2>1, <2>2, <2>3 DEF TypeOK, Places, Handling
<1>2. Flags /\ WorkersExist /\ StoppedIsQuiet /\ AlwaysAccepting /\ RestartIsIdle
  BY DEF Flags, WorkersExist, Handling, StoppedIsQuiet, AlwaysAccepting, Accepting, RestartIsIdle
<1>3. CallsMatchWaiters
  BY DEF CallsMatchWaiters
<1> QED
  BY <1>1, <1>2, <1>3 DEF LifecycleInv

(* Every step keeps the types. *)
LEMMA LifecycleTypes == LifecycleInv /\ [Next]_vars => TypeOK'
<1> SUFFICES ASSUME LifecycleInv, [Next]_vars PROVE TypeOK'
  OBVIOUS
<1> USE LifecycleAssumption DEF LifecycleInv, TypeOK, WorkersExist, Places, Handling
<1>1. CASE Start
  BY <1>1 DEF Start, managerVars
<1>2. CASE MainStep
  <2>1. ASSUME NEW quit \in BOOLEAN, BeginStop(quit) PROVE TypeOK'
    BY <2>1 DEF BeginStop, managerVars
  <2>2. CASE StopContext
    BY <2>2 DEF StopContext, managerVars
  <2>3. CASE Join
    BY <2>3 DEF Join, Clear, Destroy
  <2>4. CASE DestroyStopped
    BY <2>4 DEF DestroyStopped, Destroy, managerVars
  <2>5. CASE ServeCall
    <3>1. Head(calls) \in Workers /\ Tail(calls) \in Seq(Workers)
      BY <2>5 DEF ServeCall
    <3> QED
      BY <2>5, <3>1 DEF ServeCall, mainVars, managerVars
  <2> QED
    BY <1>2, <2>1, <2>2, <2>3, <2>4, <2>5 DEF MainStep
<1>3. ASSUME NEW w \in Workers, Dispatch(w) PROVE TypeOK'
  <2>1. CASE AcceptFails(w)
    BY <2>1 DEF AcceptFails, Running, mainVars, managerVars
  <2>2. ASSUME NEW c \in Sessions, Accept(w, c) PROVE TypeOK'
    BY <2>2 DEF Accept, Begin, Running, mainVars, managerVars
  <2>3. ASSUME NEW c \in Sessions, ReadCredentials(w, c) PROVE TypeOK'
    BY <2>3 DEF ReadCredentials, Begin, mainVars, managerVars
  <2>4. ASSUME NEW c \in Sessions, CredentialsError(w, c) PROVE TypeOK'
    BY <2>4 DEF CredentialsError, mainVars, managerVars
  <2>5. ASSUME NEW c \in Sessions, ReadMessage(w, c) PROVE TypeOK'
    <3>1. PICK place \in {"message", "left"} :
            Begin(w, c, "reading", place) /\ UNCHANGED <<mainVars, pendingAccepts, calls, peer, managerVars, crashed>>
      BY <2>5 DEF ReadMessage
    <3>2. pc' \in [Workers -> Places] /\ session' \in [Workers -> Sessions \cup {NoSession}]
      BY <3>1 DEF Begin
    <3>3. stage' \in [Sessions -> {"none", "credentials", "handling", "reading", "over"}]
      BY <3>1 DEF Begin
    <3> QED
      BY <3>1, <3>2, <3>3 DEF mainVars, managerVars
  <2> QED
    BY <1>3, <2>1, <2>2, <2>3, <2>4, <2>5 DEF Dispatch
<1>4. ASSUME NEW w \in Workers, Proceed(w) PROVE TypeOK'
  <2>1. CASE HandleConnection(w)
    BY <2>1 DEF HandleConnection, Leaves, mainVars, managerVars
  <2>2. CASE AcceptAgain(w)
    BY <2>2 DEF AcceptAgain, mainVars, managerVars
  <2>3. CASE Authenticate(w)
    BY <2>3 DEF Authenticate, mainVars, managerVars
  <2>4. CASE Register(w)
    BY <2>4 DEF Register, Leaves, mainVars
  <2>5. CASE Refuse(w)
    BY <2>5 DEF Refuse, Leaves, mainVars, managerVars
  <2>6. CASE HandleChat(w)
    BY <2>6 DEF HandleChat, Leaves, mainVars
  <2>7. CASE HandleLeft(w)
    BY <2>7 DEF HandleLeft, Leaves, mainVars
  <2>8. CASE RunReturns(w)
    BY <2>8 DEF RunReturns, mainVars, managerVars
  <2> QED
    BY <1>4, <2>1, <2>2, <2>3, <2>4, <2>5, <2>6, <2>7, <2>8 DEF Proceed
<1>5. ASSUME NEW c \in Sessions, PeerStep(c) PROVE TypeOK'
  BY <1>5 DEF PeerStep, Arrive, Leave, mainVars, managerVars
<1>6. CASE UNCHANGED vars
  BY <1>6 DEF vars, mainVars, managerVars
<1>7. ASSUME NEW w \in Workers, ConnectionThrows(w) PROVE TypeOK'
  BY <1>7 DEF ConnectionThrows, mainVars, managerVars
<1> QED
  BY <1>1, <1>2, <1>3, <1>4, <1>5, <1>6, <1>7 DEF Next, Over

(* Every step keeps the flags, the life of the workers and what holds of a *)
(* stopped or restarted server.                                            *)
Control == Flags /\ WorkersExist /\ StoppedIsQuiet /\ RestartIsIdle

LEMMA LifecycleControl ==
  LifecycleInv /\ [Next]_vars => Control'
<1> SUFFICES ASSUME LifecycleInv, [Next]_vars PROVE Control'
  OBVIOUS
<1> USE LifecycleAssumption
    DEF LifecycleInv, TypeOK, Control, Flags, WorkersExist, StoppedIsQuiet, RestartIsIdle, Places, Handling
<1>1. CASE Start
  BY <1>1 DEF Start, managerVars
<1>2. CASE MainStep
  <2>1. ASSUME NEW quit \in BOOLEAN, BeginStop(quit) PROVE Control'
    BY <2>1 DEF BeginStop, managerVars
  <2>2. CASE StopContext
    BY <2>2 DEF StopContext, managerVars
  <2>3. CASE Join
    <3>1. calls = << >>
      <4>1. \A w \in Workers : pc[w] # "waiting"
        BY <2>3 DEF Join
      <4>2. \A i \in 1..Len(calls) : calls[i] \in Workers
        OBVIOUS
      <4>3. Len(calls) = 0
        BY <4>1, <4>2 DEF CallsMatchWaiters
      <4> QED
        BY <4>3
    <3> QED
      BY <2>3, <3>1 DEF Join, Clear, Destroy
  <2>4. CASE DestroyStopped
    BY <2>4 DEF DestroyStopped, Destroy, managerVars
  <2>5. CASE ServeCall
    <3>1. Head(calls) \in Workers /\ m_running /\ pc[Head(calls)] = "waiting"
      <4>1. calls # << >> /\ main = "loop"
        BY <2>5 DEF ServeCall
      <4>2. m_running
        BY <4>1
      <4>3. 1 \in 1..Len(calls) /\ Head(calls) = calls[1] /\ Head(calls) \in Workers
        BY <4>1
      <4> QED
        BY <4>2, <4>3 DEF CallsMatchWaiters
    <3> QED
      BY <2>5, <3>1 DEF ServeCall, mainVars, managerVars
  <2> QED
    BY <1>2, <2>1, <2>2, <2>3, <2>4, <2>5 DEF MainStep
<1>3. ASSUME NEW w \in Workers, Dispatch(w) PROVE Control'
  <2>0. ~ioStopped /\ pc[w] = "run"
    BY <1>3 DEF Dispatch, AcceptFails, Accept, ReadCredentials, CredentialsError, ReadMessage, Begin, Running
  <2>1. CASE AcceptFails(w)
    BY <2>0, <2>1 DEF AcceptFails, Running, mainVars, managerVars
  <2>2. ASSUME NEW c \in Sessions, Accept(w, c) PROVE Control'
    BY <2>0, <2>2 DEF Accept, Begin, Running, mainVars, managerVars
  <2>3. ASSUME NEW c \in Sessions, ReadCredentials(w, c) PROVE Control'
    BY <2>0, <2>3 DEF ReadCredentials, Begin, mainVars, managerVars
  <2>4. ASSUME NEW c \in Sessions, CredentialsError(w, c) PROVE Control'
    BY <2>4 DEF CredentialsError, mainVars, managerVars
  <2>5. ASSUME NEW c \in Sessions, ReadMessage(w, c) PROVE Control'
    BY <2>0, <2>5 DEF ReadMessage, Begin, mainVars, managerVars
  <2> QED
    BY <1>3, <2>1, <2>2, <2>3, <2>4, <2>5 DEF Dispatch
<1>4. ASSUME NEW w \in Workers, Proceed(w) PROVE Control'
  <2>0. pc[w] # "none" /\ (m_running \/ main \in {"stopping", "joining"})
    BY <1>4 DEF Proceed, HandleConnection, AcceptAgain, Authenticate, Register, Refuse, HandleChat, HandleLeft,
                RunReturns
  <2>1. CASE HandleConnection(w)
    BY <2>0, <2>1 DEF HandleConnection, Leaves, mainVars, managerVars
  <2>2. CASE AcceptAgain(w)
    BY <2>0, <2>2 DEF AcceptAgain, mainVars, managerVars
  <2>3. CASE Authenticate(w)
    BY <2>0, <2>3 DEF Authenticate, mainVars, managerVars
  <2>4. CASE Register(w)
    BY <2>0, <2>4 DEF Register, Leaves, mainVars
  <2>5. CASE Refuse(w)
    BY <2>0, <2>5 DEF Refuse, Leaves, mainVars, managerVars
  <2>6. CASE HandleChat(w)
    BY <2>0, <2>6 DEF HandleChat, Leaves, mainVars
  <2>7. CASE HandleLeft(w)
    BY <2>0, <2>7 DEF HandleLeft, Leaves, mainVars
  <2>8. CASE RunReturns(w)
    BY <2>0, <2>8 DEF RunReturns, mainVars, managerVars
  <2> QED
    BY <1>4, <2>1, <2>2, <2>3, <2>4, <2>5, <2>6, <2>7, <2>8 DEF Proceed
<1>5. ASSUME NEW c \in Sessions, PeerStep(c) PROVE Control'
  BY <1>5 DEF PeerStep, Arrive, Leave, mainVars, managerVars
<1>6. CASE UNCHANGED vars
  BY <1>6 DEF vars, mainVars, managerVars
<1>7. ASSUME NEW w \in Workers, ConnectionThrows(w) PROVE Control'
  BY <1>7 DEF ConnectionThrows, mainVars, managerVars
<1> QED
  BY <1>1, <1>2, <1>3, <1>4, <1>5, <1>6, <1>7 DEF Next, Over

(* Every step keeps an accept pending or in a worker's hands. *)
LEMMA LifecycleAccepts == LifecycleInv /\ [Next]_vars => AlwaysAccepting'
<1> SUFFICES ASSUME LifecycleInv, [Next]_vars PROVE AlwaysAccepting'
  OBVIOUS
<1> USE LifecycleAssumption DEF LifecycleInv, TypeOK, AlwaysAccepting, Accepting, Places, Handling
<1>1. CASE Start
  BY <1>1 DEF Start, Flags
<1>2. CASE MainStep
  <2>1. ASSUME NEW quit \in BOOLEAN, BeginStop(quit) PROVE AlwaysAccepting'
    BY <2>1 DEF BeginStop
  <2>2. CASE StopContext
    BY <2>2 DEF StopContext, Flags
  <2>3. CASE Join
    BY <2>3 DEF Join, Clear, Destroy, Flags
  <2>4. CASE DestroyStopped
    BY <2>4 DEF DestroyStopped, Destroy, WorkersExist
  <2>5. CASE ServeCall
    <3>1. Head(calls) \in Workers /\ pc[Head(calls)] = "waiting"
      <4>1. 1 \in 1..Len(calls) /\ Head(calls) = calls[1] /\ Head(calls) \in Workers
        BY <2>5 DEF ServeCall
      <4> QED
        BY <4>1 DEF CallsMatchWaiters
    <3> QED
      BY <2>5, <3>1 DEF ServeCall, mainVars
  <2> QED
    BY <1>2, <2>1, <2>2, <2>3, <2>4, <2>5 DEF MainStep
<1>3. ASSUME NEW w \in Workers, Dispatch(w) PROVE AlwaysAccepting'
  <2>1. CASE AcceptFails(w)
    BY <2>1 DEF AcceptFails, Running, mainVars
  <2>2. ASSUME NEW c \in Sessions, Accept(w, c) PROVE AlwaysAccepting'
    BY <2>2 DEF Accept, Begin, Running, mainVars
  <2>3. ASSUME NEW c \in Sessions, ReadCredentials(w, c) \/ CredentialsError(w, c) \/ ReadMessage(w, c)
        PROVE  AlwaysAccepting'
    BY <2>3 DEF ReadCredentials, CredentialsError, ReadMessage, Begin, Running, mainVars
  <2> QED
    BY <1>3, <2>1, <2>2, <2>3 DEF Dispatch
<1>4. ASSUME NEW w \in Workers, Proceed(w) PROVE AlwaysAccepting'
  <2>1. CASE HandleConnection(w)
    BY <2>1 DEF HandleConnection, Leaves, mainVars
  <2>2. CASE AcceptAgain(w)
    BY <2>2 DEF AcceptAgain, mainVars
  <2>3. CASE Authenticate(w) \/ RunReturns(w)
    BY <2>3 DEF Authenticate, RunReturns, mainVars
  <2>4. CASE Register(w) \/ Refuse(w) \/ HandleChat(w) \/ HandleLeft(w)
    BY <2>4 DEF Register, Refuse, HandleChat, HandleLeft, Leaves, mainVars
  <2> QED
    BY <1>4, <2>1, <2>2, <2>3, <2>4 DEF Proceed
<1>5. ASSUME NEW c \in Sessions, PeerStep(c) PROVE AlwaysAccepting'
  BY <1>5 DEF PeerStep, Arrive, Leave, mainVars
<1>6. CASE UNCHANGED vars
  BY <1>6 DEF vars, mainVars
<1>7. ASSUME NEW w \in Workers, ConnectionThrows(w) PROVE AlwaysAccepting'
  BY <1>7 DEF ConnectionThrows, mainVars
<1> QED
  BY <1>1, <1>2, <1>3, <1>4, <1>5, <1>6, <1>7 DEF Next, Over

(* Every step keeps the main thread's queue and the waiting workers in     *)
(* step: a call joins at the end as its worker begins to wait, and leaves  *)
(* at the front as its worker goes on.                                     *)
LEMMA LifecycleCalls == LifecycleInv /\ [Next]_vars => CallsMatchWaiters'
<1> SUFFICES ASSUME LifecycleInv, [Next]_vars PROVE CallsMatchWaiters'
  OBVIOUS
<1> USE DEF LifecycleInv, TypeOK, Places, Handling
<1>1. CASE Start
  <2>1. \A w \in Workers : pc[w] # "waiting"
    BY <1>1 DEF Start, WorkersExist, Flags
  <2> QED
    BY <1>1, <2>1 DEF Start, CallsMatchWaiters
<1>2. CASE ServeCall
  <2> DEFINE w0 == Head(calls)
  <2>1. calls # << >> /\ w0 = calls[1] /\ 1 \in 1..Len(calls) /\ w0 \in Workers
    BY <1>2 DEF ServeCall
  <2>2. /\ calls' = Tail(calls) /\ Len(calls') = Len(calls) - 1
        /\ \A i \in 1..Len(calls') : calls'[i] = calls[i + 1]
    BY <1>2, <2>1 DEF ServeCall
  <2>3. \A w \in Workers : pc'[w] = "waiting" <=> pc[w] = "waiting" /\ w # w0
    BY <1>2, <2>1 DEF ServeCall
  <2>4. ASSUME NEW w \in Workers
        PROVE  pc'[w] = "waiting" <=> \E i \in 1..Len(calls') : calls'[i] = w
    <3>1. ASSUME pc'[w] = "waiting" PROVE \E i \in 1..Len(calls') : calls'[i] = w
      <4>1. PICK i \in 1..Len(calls) : calls[i] = w
        BY <2>3, <3>1 DEF CallsMatchWaiters
      <4>2. i # 1
        BY <2>1, <2>3, <3>1, <4>1
      <4>3. i - 1 \in 1..Len(calls') /\ calls'[i - 1] = w
        BY <2>2, <4>1, <4>2
      <4> QED
        BY <4>3
    <3>2. ASSUME NEW i \in 1..Len(calls'), calls'[i] = w PROVE pc'[w] = "waiting"
      <4>1. i + 1 \in 1..Len(calls) /\ calls[i + 1] = w /\ i + 1 # 1
        BY <2>1, <2>2, <3>2
      <4>2. w # w0 /\ pc[w] = "waiting"
        BY <2>1, <4>1 DEF CallsMatchWaiters
      <4> QED
        BY <2>3, <4>2
    <3> QED
      BY <3>1, <3>2
  <2>5. ASSUME NEW i \in 1..Len(calls'), NEW j \in 1..Len(calls'), calls'[i] = calls'[j]
        PROVE  i = j
    <3>1. i + 1 \in 1..Len(calls) /\ j + 1 \in 1..Len(calls) /\ calls[i + 1] = calls[j + 1]
      BY <2>1, <2>2, <2>5
    <3> QED
      BY <3>1 DEF CallsMatchWaiters
  <2> QED
    BY <2>4, <2>5 DEF CallsMatchWaiters
<1>3. ASSUME NEW w \in Workers, Authenticate(w)
      PROVE  CallsMatchWaiters'
  <2>1. /\ Len(calls') = Len(calls) + 1 /\ calls'[Len(calls) + 1] = w
        /\ \A i \in 1..Len(calls) : calls'[i] = calls[i]
    BY <1>3 DEF Authenticate
  <2>2. /\ pc[w] = "credentials"
        /\ \A v \in Workers : pc'[v] = "waiting" <=> pc[v] = "waiting" \/ v = w
    BY <1>3 DEF Authenticate
  <2>3. \A i \in 1..Len(calls) : calls[i] # w
    BY <2>2 DEF CallsMatchWaiters
  <2>4. 1..Len(calls') = 1..Len(calls) \cup {Len(calls) + 1}
    BY <2>1
  <2>5. ASSUME NEW v \in Workers
        PROVE  pc'[v] = "waiting" <=> \E i \in 1..Len(calls') : calls'[i] = v
    <3>1. CASE v = w
      BY <2>1, <2>2, <2>4, <3>1
    <3>2. CASE v # w
      <4>1. (\E i \in 1..Len(calls') : calls'[i] = v) <=> \E i \in 1..Len(calls) : calls[i] = v
        BY <2>1, <2>4, <3>2
      <4> QED
        BY <2>2, <3>2, <4>1 DEF CallsMatchWaiters
    <3> QED
      BY <3>1, <3>2
  <2>6. ASSUME NEW i \in 1..Len(calls'), NEW j \in 1..Len(calls'), calls'[i] = calls'[j]
        PROVE  i = j
    BY <2>1, <2>3, <2>4, <2>6 DEF CallsMatchWaiters
  <2> QED
    BY <2>5, <2>6 DEF CallsMatchWaiters
<1>4. CASE Join
  <2>1. \A w \in Workers : pc[w] # "waiting" /\ pc'[w] # "waiting"
    BY <1>4 DEF Join
  <2> QED
    BY <1>4, <2>1 DEF Join, CallsMatchWaiters
<1>5. ASSUME UNCHANGED calls,
             \A w \in Workers : pc'[w] = "waiting" <=> pc[w] = "waiting"
      PROVE  CallsMatchWaiters'
  BY <1>5 DEF CallsMatchWaiters
<1>6. CASE MainStep
  BY <1>2, <1>4, <1>5, <1>6 DEF MainStep, BeginStop, StopContext, DestroyStopped, Destroy
<1>7. ASSUME NEW w \in Workers, Dispatch(w) PROVE CallsMatchWaiters'
  <2>1. UNCHANGED calls /\ \A v \in Workers : pc'[v] = "waiting" <=> pc[v] = "waiting"
    BY <1>7 DEF Dispatch, AcceptFails, Accept, ReadCredentials, CredentialsError, ReadMessage, Begin, Running
  <2> QED
    BY <1>5, <2>1
<1>8. ASSUME NEW w \in Workers, Proceed(w) PROVE CallsMatchWaiters'
  <2>1. CASE Authenticate(w)
    BY <1>3, <2>1
  <2>2. CASE ~Authenticate(w)
    <3>1. UNCHANGED calls /\ \A v \in Workers : pc'[v] = "waiting" <=> pc[v] = "waiting"
      BY <1>8, <2>2 DEF Proceed, HandleConnection, AcceptAgain, Register, Refuse, HandleChat, HandleLeft,
                        RunReturns, Leaves
    <3> QED
      BY <1>5, <3>1
  <2> QED
    BY <2>1, <2>2
<1>9. ASSUME NEW c \in Sessions, PeerStep(c) PROVE CallsMatchWaiters'
  BY <1>5, <1>9 DEF PeerStep, Arrive, Leave
<1>10. CASE UNCHANGED vars
  BY <1>5, <1>10 DEF vars
<1>11. ASSUME NEW w \in Workers, ConnectionThrows(w) PROVE CallsMatchWaiters'
  BY <1>5, <1>11 DEF ConnectionThrows
<1> QED
  BY <1>1, <1>6, <1>7, <1>8, <1>9, <1>10, <1>11 DEF Next, Over

(* The invariant holds in every reachable state. *)
THEOREM LifecycleInvariance == Spec => []LifecycleInv
<1>1. LifecycleInv /\ [Next]_vars => LifecycleInv'
  BY LifecycleTypes, LifecycleControl, LifecycleAccepts, LifecycleCalls DEF LifecycleInv, Control
<1> QED
  BY LifecycleInit, <1>1, PTL DEF Spec

(* While stop() joins, no handler begins and no call is served: a worker   *)
(* that handles credentials goes on to wait, and no other comes to wait.   *)
LEMMA DoomStep ==
  ASSUME LifecycleInv, [Next]_vars, main = "joining"
  PROVE  /\ Doomed' <=> Doomed
         /\ WaitCycle => WaitCycle'
<1>0. ioStopped /\ pc \in [Workers -> Places]
  BY DEF LifecycleInv, Flags, TypeOK
<1> DEFINE Lost(w) == pc[w] \in {"credentials", "waiting"}
<1>1. CASE Join
  <2>1. \A w \in Workers : pc[w] = "over" /\ pc'[w] = "none"
    BY <1>1 DEF Join
  <2> QED
    BY <2>1 DEF Doomed, WaitCycle
<1>2. ASSUME NEW w \in Workers, Proceed(w)
      PROVE  (Doomed' <=> Doomed) /\ (WaitCycle => WaitCycle')
  <2>1. /\ main' = "joining"
        /\ \A v \in Workers : Lost(v)' <=> Lost(v)
        /\ \A v \in Workers : pc[v] = "waiting" => pc'[v] = "waiting"
    <3>1. CASE Authenticate(w)
      BY <1>0, <3>1 DEF Authenticate, mainVars
    <3>2. CASE AcceptAgain(w) \/ RunReturns(w)
      BY <1>0, <3>2 DEF AcceptAgain, RunReturns, mainVars
    <3>3. CASE HandleConnection(w) \/ Register(w) \/ Refuse(w) \/ HandleChat(w) \/ HandleLeft(w)
      BY <1>0, <3>3 DEF HandleConnection, Register, Refuse, HandleChat, HandleLeft, Leaves, mainVars
    <3> QED
      BY <1>2, <3>1, <3>2, <3>3 DEF Proceed
  <2> QED
    BY <2>1 DEF Doomed, WaitCycle
<1>3. CASE UNCHANGED <<main, pc>>
  BY <1>3 DEF Doomed, WaitCycle
<1>4. /\ \A c \in Sessions : PeerStep(c) => UNCHANGED <<main, pc>>
      /\ \A w \in Workers : ConnectionThrows(w) => UNCHANGED <<main, pc>>
  BY DEF PeerStep, Arrive, Leave, ConnectionThrows, mainVars
<1>5. /\ ~Start /\ ~StopContext /\ ~DestroyStopped /\ ~ServeCall
      /\ \A quit \in BOOLEAN : ~BeginStop(quit)
      /\ \A w \in Workers : ~Running(w)
  BY <1>0 DEF Start, StopContext, DestroyStopped, ServeCall, BeginStop, Running
<1>6. \A w \in Workers : ~Dispatch(w)
  BY <1>5 DEF Dispatch, AcceptFails, Accept, ReadCredentials, CredentialsError, ReadMessage, Begin
<1>7. CASE UNCHANGED vars
  BY <1>3, <1>7 DEF vars, mainVars
<1> QED
  BY <1>1, <1>2, <1>3, <1>4, <1>5, <1>6, <1>7 DEF Next, MainStep, Over

(* After stop() no worker exists, the registry and history are empty, and  *)
(* a server that is started again serves nobody.                           *)
THEOREM QuietAfterStop == Spec => []StopIsFinal
<1>1. LifecycleInv => StopIsFinal
  BY DEF LifecycleInv, StopIsFinal
<1> QED
  BY <1>1, LifecycleInvariance, PTL

(* When stop() has stopped the io_context it is decided whether it will    *)
(* return: it will not if a worker has begun to handle credentials and has *)
(* no answer, no matter whether that worker waits already; and nothing     *)
(* that happens afterwards changes it.                                     *)
THEOREM StopIsDecided == Spec => WaitCycleDecided
<1>1. LifecycleInv /\ [Next]_vars =>
        [main = "joining" => /\ Doomed' <=> Doomed
                             /\ WaitCycle => WaitCycle']_vars
  BY DoomStep
<1> QED
  BY <1>1, LifecycleInvariance, PTL DEF Spec, WaitCycleDecided

(* A running server always has an accept pending or about to be started,   *)
(* and the main thread's queue holds one call of each waiting worker.      *)
THEOREM NoneForgotten == Spec => []NobodyForgotten
<1>1. LifecycleInv => NobodyForgotten
  BY DEF LifecycleInv, NobodyForgotten
<1> QED
  BY <1>1, LifecycleInvariance, PTL
=============================================================================
