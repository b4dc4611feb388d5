-------------------------- MODULE ChatServer_proofs -------------------------
(***************************************************************************)
(* The inductive invariant holds in every reachable state, the safety      *)
(* properties follow from it, and the server implements the safety part of *)
(* the chat room - for any number of sessions, workers and requests and    *)
(* any capacity of the history.                                            *)
(*                                                                         *)
(* Each part of the invariant has its lemma: first what concerns control   *)
(* (types, which worker runs which session, who holds the mutex, who is    *)
(* registered, what the loops rely on, the answers to user-list requests), *)
(* then what concerns messages (the history, what each session has been    *)
(* sent, the order of each sender).                                        *)
(***************************************************************************)
EXTENDS ChatServerInv, TLAPS

(* Every variable keeps its type. *)
LEMMA TypeStep == IInv /\ [Next]_vars => TypeOK'
<1> SUFFICES ASSUME IInv, [Next]_vars PROVE TypeOK'
  OBVIOUS
<1> USE DEF managerVars, peerVars, workerVars, countVars
<1>1. CASE UNCHANGED vars
  BY <1>1 DEF IInv, TypeOK, vars
<1>2. ASSUME NEW c \in Sessions, Connect(c) PROVE TypeOK'
  <2>1. inbox' = [inbox EXCEPT ![c] = <<Credentials(c)>>] /\ <<Credentials(c)>> \in Seq(Chunks)
    BY <1>2 DEF Connect, Chunks
  <2>2. inbox' \in [Sessions -> Seq(Chunks)]
    BY <2>1 DEF IInv, TypeOK
  <2> QED
    BY <1>2, <2>2 DEF IInv, TypeOK, Connect
<1>3. ASSUME NEW c \in Sessions, Write(c) PROVE TypeOK'
  <2>1. written' \in 1..MaxWrites
    BY <1>3, MaxWritesAssumption DEF IInv, TypeOK, Write
  <2>2. PICK kind \in {"chat", "request"} :
          inbox' = [inbox EXCEPT ![c] = Append(@, [kind |-> kind, from |-> c, id |-> written'])]
    BY <1>3 DEF Write
  <2>3. [kind |-> kind, from |-> c, id |-> written'] \in Chunks
    BY <2>1 DEF Chunks, ChatMessages, ListRequests
  <2>4. inbox' \in [Sessions -> Seq(Chunks)]
    <3>1. inbox[c] \in Seq(Chunks)
      BY DEF IInv, TypeOK
    <3>2. Append(inbox[c], [kind |-> kind, from |-> c, id |-> written']) \in Seq(Chunks)
      BY <2>3, <3>1
    <3> QED
      BY <2>2, <3>2 DEF IInv, TypeOK
  <2> QED
    BY <1>3, <2>1, <2>4 DEF IInv, TypeOK, Write
<1>4. ASSUME NEW c \in Sessions, Leave(c) PROVE TypeOK'
  <2>1. PICK unread \in {inbox[c], << >>} : inbox' = [inbox EXCEPT ![c] = unread]
    BY <1>4 DEF Leave
  <2>2. unread \in Seq(Chunks)
    <3>1. inbox[c] \in Seq(Chunks) /\ << >> \in Seq(Chunks)
      BY DEF IInv, TypeOK
    <3> QED
      BY <3>1
  <2>3. inbox' \in [Sessions -> Seq(Chunks)]
    BY <2>1, <2>2 DEF IInv, TypeOK
  <2> QED
    BY <1>4, <2>3 DEF IInv, TypeOK, Leave
<1>5. ASSUME NEW w \in Workers, NEW c \in Sessions, Accept(w, c) PROVE TypeOK'
  BY <1>5 DEF IInv, TypeOK, Stages, Labels, Accept
<1>6. ASSUME NEW w \in Workers, NEW c \in Sessions, ReadCredentials(w, c) PROVE TypeOK'
  <2>1. PICK n \in 1..Len(inbox[c]) : inbox' = [inbox EXCEPT ![c] = SubSeq(@, n + 1, Len(@))]
    BY <1>6 DEF ReadCredentials, ReadSome
  <2>2. inbox' \in [Sessions -> Seq(Chunks)]
    <3>1. inbox[c] \in Seq(Chunks)
      BY DEF IInv, TypeOK
    <3>2. SubSeq(inbox[c], n + 1, Len(inbox[c])) \in Seq(Chunks)
      BY <3>1
    <3> QED
      BY <2>1, <3>2 DEF IInv, TypeOK
  <2> QED
    BY <1>6, <2>2 DEF IInv, TypeOK, Stages, Labels, ReadCredentials, Dispatch, Goto
<1>7. ASSUME NEW w \in Workers, NEW c \in Sessions, CredentialsError(w, c) PROVE TypeOK'
  BY <1>7 DEF IInv, TypeOK, Stages, Labels, CredentialsError
<1>8. ASSUME NEW w \in Workers, NEW c \in Sessions, ReadError(w, c) PROVE TypeOK'
  BY <1>8 DEF IInv, TypeOK, Stages, Labels, ReadError, Dispatch, Goto
<1>9. ASSUME NEW w \in Workers, NEW c \in Sessions, ReadChat(w, c) PROVE TypeOK'
  <2>1. PICK n \in 1..Len(inbox[c]) : inbox' = [inbox EXCEPT ![c] = SubSeq(@, n + 1, Len(@))]
    BY <1>9 DEF ReadChat, ReadSome
  <2>2. inbox' \in [Sessions -> Seq(Chunks)]
    <3>1. inbox[c] \in Seq(Chunks)
      BY DEF IInv, TypeOK
    <3>2. SubSeq(inbox[c], n + 1, Len(inbox[c])) \in Seq(Chunks)
      BY <3>1
    <3> QED
      BY <2>1, <3>2 DEF IInv, TypeOK
  <2>3. Head(inbox[c]) \in ChatMessages
    <3>1. inbox[c] \in Seq(Chunks) /\ inbox[c] # << >>
      BY <1>9, <2>1 DEF IInv, TypeOK
    <3>2. Head(inbox[c]) \in Chunks /\ Head(inbox[c]).kind = "chat"
      BY <1>9, <3>1 DEF ReadChat
    <3> QED
      BY <3>2 DEF Chunks, ListRequests, Credentials
  <2> QED
    BY <1>9, <2>2, <2>3 DEF IInv, TypeOK, Stages, Labels, ReadChat, Dispatch, Goto
<1>10. ASSUME NEW w \in Workers, NEW c \in Sessions, ReadRequest(w, c) PROVE TypeOK'
  <2>1. PICK n \in 1..Len(inbox[c]) : inbox' = [inbox EXCEPT ![c] = SubSeq(@, n + 1, Len(@))]
    BY <1>10 DEF ReadRequest, ReadSome
  <2>2. inbox' \in [Sessions -> Seq(Chunks)]
    <3>1. inbox[c] \in Seq(Chunks)
      BY DEF IInv, TypeOK
    <3>2. SubSeq(inbox[c], n + 1, Len(inbox[c])) \in Seq(Chunks)
      BY <3>1
    <3> QED
      BY <2>1, <3>2 DEF IInv, TypeOK
  <2> QED
    <3>1. asked' \in [Sessions -> Nat]
      BY <1>10 DEF IInv, TypeOK, ReadRequest
    <3>2. /\ pc' \in [Workers -> Labels] /\ stage' \in [Sessions -> Stages]
          /\ session' \in [Workers -> Sessions \cup {NoSession}]
      BY <1>10 DEF IInv, TypeOK, Stages, Labels, ReadRequest, Dispatch, Goto
    <3> QED
      BY <1>10, <2>2, <3>1, <3>2 DEF IInv, TypeOK, ReadRequest
<1>11. ASSUME NEW w \in Workers, Authenticated(w) PROVE TypeOK'
  BY <1>11 DEF IInv, TypeOK, Stages, Labels, WorkerOwnsSession, Authenticated, At, Goto
<1>12. ASSUME NEW w \in Workers, Rejected(w) PROVE TypeOK'
  BY <1>12 DEF IInv, TypeOK, Stages, Labels, WorkerOwnsSession, Rejected, Return, Goto
<1>13. ASSUME NEW w \in Workers, AddToEmptyHistory(w) PROVE TypeOK'
  BY <1>13 DEF IInv, TypeOK, Stages, Labels, WorkerOwnsSession, AddToEmptyHistory, AddClientNoHistory, At, Goto
<1>14. ASSUME NEW w \in Workers, BeginReplay(w) PROVE TypeOK'
  <2>1. session[w] \in Sessions
    BY <1>14 DEF IInv, WorkerOwnsSession, BeginReplay, At
  <2>2. Len(log) - Len(m_chatHistory) \in Nat
    BY HistorySizeAssumption DEF IInv, TypeOK, HistoryIsLatest
  <2> QED
    BY <1>14, <2>1, <2>2 DEF IInv, TypeOK, Labels, BeginReplay, AddClientBegin, Lock, MutexFree, At, Goto
<1>15. ASSUME NEW w \in Workers, ReplayOne(w) PROVE TypeOK'
  BY <1>15 DEF IInv, TypeOK, Stages, Labels, WorkerOwnsSession, ReplayOne, AddClientReplay, SendMessage, At
<1>16. ASSUME NEW w \in Workers, EndReplay(w) PROVE TypeOK'
  BY <1>16 DEF IInv, TypeOK, Stages, Labels, WorkerOwnsSession, EndReplay, AddClientEnd, Unlock, At, Goto
<1>17. ASSUME NEW w \in Workers, StartSession(w) PROVE TypeOK'
  BY <1>17 DEF IInv, TypeOK, Stages, Labels, WorkerOwnsSession, StartSession, At, Return, Goto
<1>18. ASSUME NEW w \in Workers, ReadNext(w) PROVE TypeOK'
  BY <1>18 DEF IInv, TypeOK, Stages, Labels, WorkerOwnsSession, ReadNext, At, Return, Goto
<1>19. ASSUME NEW w \in Workers, Remove(w) PROVE TypeOK'
  BY <1>19 DEF IInv, TypeOK, Stages, Labels, WorkerOwnsSession, Remove, RemoveClient, MutexFree, At, Return, Goto
<1>20. ASSUME NEW w \in Workers, BeginBroadcast(w) PROVE TypeOK'
  <2>1. message[w] \in ChatMessages
    BY <1>20 DEF IInv, Loops, BeginBroadcast, At
  <2>2. log' \in Seq(ChatMessages)
    BY <1>20, <2>1 DEF IInv, TypeOK, BeginBroadcast, BroadcastBegin
  <2>3. m_chatHistory' \in Seq(ChatMessages)
    <3>1. m_chatHistory \in Seq(ChatMessages)
      BY DEF IInv, TypeOK
    <3>2. Len(m_chatHistory) >= MAX_HISTORY_SIZE => Tail(m_chatHistory) \in Seq(ChatMessages)
      BY <3>1, HistorySizeAssumption
    <3> QED
      BY <1>20, <2>1, <3>1, <3>2 DEF BeginBroadcast, BroadcastBegin, AddMessage
  <2> QED
    BY <1>20, <2>2, <2>3 DEF IInv, TypeOK, Labels, BeginBroadcast, BroadcastBegin, Lock, MutexFree, At, Goto
<1>21. ASSUME NEW w \in Workers, SendOne(w) PROVE TypeOK'
  <2>1. message[w] \in ChatMessages
    BY <1>21 DEF IInv, Loops, SendOne, At
  <2>2. PICK c \in recipients[w] :
          SendMessage(c, message[w]) /\ recipients' = [recipients EXCEPT ![w] = @ \ {c}]
    BY <1>21 DEF SendOne, BroadcastSend
  <2>3. sent' \in [Sessions -> Seq(ChatMessages)]
    BY <2>1, <2>2 DEF IInv, TypeOK, SendMessage
  <2> QED
    BY <1>21, <2>2, <2>3 DEF IInv, TypeOK, SendOne, BroadcastSend, At
<1>22. ASSUME NEW w \in Workers, EndBroadcast(w) PROVE TypeOK'
  BY <1>22 DEF IInv, TypeOK, Stages, Labels, WorkerOwnsSession, EndBroadcast, BroadcastEnd, Unlock, At, Goto
<1>23. ASSUME NEW w \in Workers, GetUsernames(w) PROVE TypeOK'
  BY <1>23 DEF IInv, TypeOK, Stages, Labels, WorkerOwnsSession, GetUsernames, MutexFree, Reachable, At, Goto
<1>24. ASSUME NEW w \in Workers, SendMessageToClient(w) PROVE TypeOK'
  BY <1>24 DEF IInv, TypeOK, Stages, Labels, WorkerOwnsSession, SendMessageToClient, MutexFree, Reachable, At, Goto
<1>25. ASSUME NEW c \in Sessions, ClientStep(c) PROVE TypeOK'
  BY <1>2, <1>3, <1>4, <1>25 DEF ClientStep
<1>26. ASSUME NEW w \in Workers, NEW c \in Sessions, StartHandler(w, c) PROVE TypeOK'
  BY <1>5, <1>6, <1>7, <1>8, <1>9, <1>10, <1>26 DEF StartHandler
<1>27. ASSUME NEW w \in Workers, Enter(w) PROVE TypeOK'
  BY <1>13, <1>14, <1>19, <1>20, <1>23, <1>24, <1>27 DEF Enter
<1>28. ASSUME NEW w \in Workers, Proceed(w) PROVE TypeOK'
  BY <1>11, <1>12, <1>15, <1>16, <1>17, <1>18, <1>21, <1>22, <1>28 DEF Proceed
<1> QED
  BY <1>1, <1>25, <1>26, <1>27, <1>28 DEF Next, AllOver

----------------------------------------------------------------------------
(* Every step moves the control of at most one worker, in one of four ways. *)
LEMMA ControlMoves ==
  ASSUME [Next]_vars
  PROVE  \/ UNCHANGED <<pc, session, stage>>
         \/ \E c \in Sessions, from \in {"none", "credentials"}, next \in {"credentials", "over"} :
              /\ stage[c] = from /\ stage' = [stage EXCEPT ![c] = next]
              /\ UNCHANGED <<pc, session>>
         \/ \E w \in Workers, c \in Sessions, from \in {"credentials", "reading"},
               label \in Labels \ {"idle"} : Dispatch(w, c, from, label)
         \/ \E w \in Workers, label \in Labels \ {"idle"} :
              pc[w] # "idle" /\ Goto(w, label) /\ UNCHANGED <<session, stage>>
         \/ \E w \in Workers, next \in {"reading", "over"} : pc[w] # "idle" /\ Return(w, next)
<1>1. CASE UNCHANGED vars
  BY <1>1 DEF vars, workerVars
<1>2. ASSUME NEW c \in Sessions, ClientStep(c) PROVE UNCHANGED <<pc, session, stage>>
  BY <1>2 DEF ClientStep, Connect, Write, Leave, workerVars
<1>3. ASSUME NEW w \in Workers, NEW c \in Sessions, StartHandler(w, c)
      PROVE  \/ \E from \in {"none", "credentials"}, next \in {"credentials", "over"} :
                  /\ stage[c] = from /\ stage' = [stage EXCEPT ![c] = next]
                  /\ UNCHANGED <<pc, session>>
             \/ \E from \in {"credentials", "reading"}, label \in Labels \ {"idle"} :
                  Dispatch(w, c, from, label)
  <2>1. CASE Accept(w, c) \/ CredentialsError(w, c)
    BY <2>1 DEF Accept, CredentialsError, workerVars
  <2>2. CASE ReadCredentials(w, c) \/ ReadError(w, c) \/ ReadChat(w, c) \/ ReadRequest(w, c)
    BY <2>2 DEF ReadCredentials, ReadError, ReadChat, ReadRequest, Labels
  <2> QED
    BY <1>3, <2>1, <2>2 DEF StartHandler
<1>4. ASSUME NEW w \in Workers, Enter(w) \/ Proceed(w)
      PROVE  \/ UNCHANGED <<pc, session, stage>>
             \/ \E label \in Labels \ {"idle"} :
                  pc[w] # "idle" /\ Goto(w, label) /\ UNCHANGED <<session, stage>>
             \/ \E next \in {"reading", "over"} : pc[w] # "idle" /\ Return(w, next)
  <2>1. CASE ReplayOne(w) \/ SendOne(w)
    BY <2>1 DEF ReplayOne, SendOne, workerVars
  <2>2. CASE Rejected(w) \/ StartSession(w) \/ ReadNext(w) \/ Remove(w)
    BY <2>2 DEF Rejected, StartSession, ReadNext, Remove, At
  <2>3. CASE \/ Authenticated(w) \/ AddToEmptyHistory(w) \/ BeginReplay(w) \/ EndReplay(w)
             \/ BeginBroadcast(w) \/ EndBroadcast(w) \/ GetUsernames(w) \/ SendMessageToClient(w)
    BY <2>3 DEF Authenticated, AddToEmptyHistory, BeginReplay, EndReplay, BeginBroadcast,
                EndBroadcast, GetUsernames, SendMessageToClient, At, Labels
  <2> QED
    BY <1>4, <2>1, <2>2, <2>3 DEF Enter, Proceed
<1> QED
  BY <1>1, <1>2, <1>3, <1>4 DEF Next, AllOver

(* Sessions and the workers that handle them stay paired one to one. *)
LEMMA OwnerStep ==
  IInv /\ [Next]_vars => OneReaderPerSession' /\ WorkerOwnsSession' /\ HandledByWorker'
<1> SUFFICES ASSUME IInv, [Next]_vars
             PROVE  OneReaderPerSession' /\ WorkerOwnsSession' /\ HandledByWorker'
  OBVIOUS
<1> USE NoSessionAssumption DEF OneReaderPerSession, WorkerOwnsSession, HandledByWorker
<1>0. /\ OneReaderPerSession /\ WorkerOwnsSession /\ HandledByWorker
      /\ pc \in [Workers -> Labels] /\ stage \in [Sessions -> Stages]
      /\ session \in [Workers -> Sessions \cup {NoSession}]
  BY DEF IInv, TypeOK
<1>1. CASE UNCHANGED <<pc, session, stage>>
  BY <1>0, <1>1
<1>2. ASSUME NEW c \in Sessions, NEW from \in {"none", "credentials"},
             NEW next \in {"credentials", "over"},
             stage[c] = from, stage' = [stage EXCEPT ![c] = next], UNCHANGED <<pc, session>>
      PROVE  OneReaderPerSession' /\ WorkerOwnsSession' /\ HandledByWorker'
  BY <1>0, <1>2
<1>3. ASSUME NEW w \in Workers, NEW c \in Sessions, NEW from \in {"credentials", "reading"},
             NEW label \in Labels \ {"idle"}, Dispatch(w, c, from, label)
      PROVE  OneReaderPerSession' /\ WorkerOwnsSession' /\ HandledByWorker'
  BY <1>0, <1>3 DEF Dispatch, Goto
<1>4. ASSUME NEW w \in Workers, NEW label \in Labels \ {"idle"}, pc[w] # "idle",
             Goto(w, label), UNCHANGED <<session, stage>>
      PROVE  OneReaderPerSession' /\ WorkerOwnsSession' /\ HandledByWorker'
  BY <1>0, <1>4 DEF Goto
<1>5. ASSUME NEW w \in Workers, NEW next \in {"reading", "over"}, pc[w] # "idle", Return(w, next)
      PROVE  OneReaderPerSession' /\ WorkerOwnsSession' /\ HandledByWorker'
  BY <1>0, <1>5 DEF Return, Goto
<1> QED
  BY <1>1, <1>2, <1>3, <1>4, <1>5, ControlMoves

----------------------------------------------------------------------------
(* The mutex is taken and released exactly where the loops begin and end. *)
LEMMA MutexStep == IInv /\ [Next]_vars => LoopsHoldMutex'
<1> SUFFICES ASSUME IInv, [Next]_vars PROVE LoopsHoldMutex'
  OBVIOUS
<1> DEFINE Outside == Labels \ {"replay", "sending"}
<1>0. LoopsHoldMutex /\ pc \in [Workers -> Labels] /\ m_clientsMutex \in Workers \cup {NoWorker}
  BY DEF IInv, TypeOK
<1>1. CASE UNCHANGED <<pc, m_clientsMutex>>
  BY <1>1, <1>0 DEF LoopsHoldMutex
<1>2. ASSUME NEW w \in Workers, pc[w] \in Outside, NEW label \in Outside, Goto(w, label),
             UNCHANGED m_clientsMutex
      PROVE  LoopsHoldMutex'
  BY <1>0, <1>2 DEF LoopsHoldMutex, Goto
<1>3. ASSUME NEW w \in Workers, NEW label \in {"replay", "sending"}, Lock(w), Goto(w, label)
      PROVE  LoopsHoldMutex'
  BY <1>0, <1>3, NoWorkerAssumption DEF LoopsHoldMutex, Lock, MutexFree, Goto
<1>4. ASSUME NEW w \in Workers, NEW label \in Outside, Unlock(w), Goto(w, label)
      PROVE  LoopsHoldMutex'
  BY <1>0, <1>4, NoWorkerAssumption DEF LoopsHoldMutex, Unlock, Goto
<1>5. CASE UNCHANGED vars
  BY <1>1, <1>5 DEF vars, workerVars, managerVars
<1>6. ASSUME NEW c \in Sessions, ClientStep(c) PROVE LoopsHoldMutex'
  BY <1>1, <1>6 DEF ClientStep, Connect, Write, Leave, workerVars, managerVars
<1>7. ASSUME NEW w \in Workers, NEW c \in Sessions, StartHandler(w, c) PROVE LoopsHoldMutex'
  <2>1. CASE Accept(w, c) \/ CredentialsError(w, c)
    BY <1>1, <2>1 DEF Accept, CredentialsError, workerVars, managerVars
  <2>2. CASE ReadCredentials(w, c) \/ ReadError(w, c) \/ ReadChat(w, c) \/ ReadRequest(w, c)
    <3>1. /\ pc[w] = "idle" /\ UNCHANGED m_clientsMutex
          /\ \E label \in {"authenticate", "removeClient", "broadcast", "getUsernames"} : Goto(w, label)
      BY <2>2 DEF ReadCredentials, ReadError, ReadChat, ReadRequest, Dispatch, managerVars
    <3> QED
      BY <1>2, <3>1 DEF Labels
  <2> QED
    BY <1>7, <2>1, <2>2 DEF StartHandler
<1>8. ASSUME NEW w \in Workers, Enter(w) \/ Proceed(w) PROVE LoopsHoldMutex'
  <2>1. CASE ReplayOne(w) \/ SendOne(w)
    BY <1>1, <2>1 DEF ReplayOne, SendOne, AddClientReplay, BroadcastSend, workerVars
  <2>2. CASE \/ Rejected(w) \/ StartSession(w) \/ ReadNext(w) \/ Remove(w)
             \/ Authenticated(w) \/ AddToEmptyHistory(w) \/ GetUsernames(w) \/ SendMessageToClient(w)
    <3>1. /\ pc[w] \in {"authenticate", "start", "asyncRead", "removeClient", "addClient",
                        "getUsernames", "reply"}
          /\ UNCHANGED m_clientsMutex
          /\ \E label \in {"idle", "addClient", "start", "reply", "asyncRead"} : Goto(w, label)
      BY <2>2 DEF Rejected, StartSession, ReadNext, Remove, Authenticated, AddToEmptyHistory,
                  GetUsernames, SendMessageToClient, At, Return, RemoveClient, AddClientNoHistory,
                  managerVars
    <3> QED
      BY <1>2, <3>1 DEF Labels
  <2>3. CASE BeginReplay(w) \/ BeginBroadcast(w)
    BY <1>3, <2>3 DEF BeginReplay, BeginBroadcast, AddClientBegin, BroadcastBegin
  <2>4. CASE EndReplay(w) \/ EndBroadcast(w)
    BY <1>4, <2>4 DEF EndReplay, EndBroadcast, AddClientEnd, BroadcastEnd, Labels
  <2> QED
    BY <1>8, <2>1, <2>2, <2>3, <2>4 DEF Enter, Proceed
<1> QED
  BY <1>5, <1>6, <1>7, <1>8 DEF Next, AllOver

----------------------------------------------------------------------------
(* Registration follows stage and place in the handler. *)
LEMMA MembershipStep == IInv /\ [Next]_vars => Membership'
<1> SUFFICES ASSUME IInv, [Next]_vars PROVE Membership'
  OBVIOUS
<1> USE DEF Membership, NotYetRegistered, managerVars, workerVars
<1>0. /\ Membership /\ OneReaderPerSession /\ WorkerOwnsSession /\ LoopsHoldMutex
      /\ pc \in [Workers -> Labels] /\ stage \in [Sessions -> Stages]
      /\ session \in [Workers -> Sessions \cup {NoSession}]
      /\ m_authenticated \in [Sessions -> BOOLEAN] /\ m_clients \subseteq Sessions
      /\ sent \in [Sessions -> Seq(ChatMessages)]
  BY DEF IInv, TypeOK
<1>1. CASE UNCHANGED vars
  BY <1>0, <1>1 DEF vars
<1>2. ASSUME NEW c \in Sessions, ClientStep(c) PROVE Membership'
  BY <1>0, <1>2 DEF ClientStep, Connect, Write, Leave
<1>3. ASSUME NEW w \in Workers, NEW c \in Sessions, StartHandler(w, c) PROVE Membership'
  <2>1. CASE Accept(w, c) \/ CredentialsError(w, c)
    BY <1>0, <2>1 DEF Accept, CredentialsError
  <2>2. CASE ReadCredentials(w, c)
    BY <1>0, <2>2 DEF ReadCredentials, Dispatch, Goto, WorkerOwnsSession
  <2>3. CASE ReadError(w, c) \/ ReadChat(w, c) \/ ReadRequest(w, c)
    BY <1>0, <2>3 DEF ReadError, ReadChat, ReadRequest, Dispatch, Goto, WorkerOwnsSession
  <2> QED
    BY <1>3, <2>1, <2>2, <2>3 DEF StartHandler
<1>4. ASSUME NEW w \in Workers, Enter(w) \/ Proceed(w) PROVE Membership'
  <2>0. pc[w] # "idle" => session[w] \in Sessions /\ stage[session[w]] = "handling"
    BY <1>0 DEF WorkerOwnsSession
  <2>1. CASE Authenticated(w)
    BY <1>0, <2>0, <2>1 DEF Authenticated, At, Goto
  <2>2. CASE Rejected(w)
    BY <1>0, <2>0, <2>2, NoSessionAssumption DEF Rejected, Return, Goto, WorkerOwnsSession, OneReaderPerSession
  <2>3. CASE AddToEmptyHistory(w) \/ BeginReplay(w)
    <3>1. /\ pc[w] = "addClient" /\ m_clients' = m_clients \cup {session[w]}
          /\ \E label \in {"start", "replay"} : pc' = [pc EXCEPT ![w] = label]
          /\ UNCHANGED <<m_authenticated, sent, stage, session>>
      BY <2>3 DEF AddToEmptyHistory, BeginReplay, AddClientNoHistory, AddClientBegin, At, Goto
    <3>2. \A c \in m_clients' : m_authenticated'[c]
      BY <1>0, <3>1
    <3>3. \A v \in Workers \ {w} : session[v] # session[w] /\ pc'[v] = pc[v]
      BY <1>0, <2>0, <3>1, NoSessionAssumption DEF OneReaderPerSession
    <3>4. ASSUME NEW v \in Workers
          PROVE  /\ pc'[v] = "authenticate" => NotYetRegistered(session[v])'
                 /\ pc'[v] = "addClient" => NotYetRegistered(session[v])' /\ m_authenticated'[session'[v]]
                 /\ pc'[v] \notin {"idle", "authenticate", "addClient"} => session'[v] \in m_clients'
      <4>1. CASE v = w
        BY <1>0, <3>1, <4>1
      <4>2. CASE v # w
        BY <1>0, <3>1, <3>3, <4>2
      <4> QED
        BY <4>1, <4>2
    <3>5. ASSUME NEW c \in Sessions
          PROVE  /\ stage'[c] \in {"none", "credentials"} => NotYetRegistered(c)'
                 /\ stage'[c] = "reading" => c \in m_clients'
                 /\ stage'[c] = "over" => c \notin m_clients'
      BY <1>0, <2>0, <3>1
    <3> QED
      BY <3>2, <3>4, <3>5
  <2>4. CASE ReplayOne(w)
    BY <1>0, <2>0, <2>4 DEF ReplayOne, AddClientReplay, SendMessage, At, WorkerOwnsSession, OneReaderPerSession
  <2>5. CASE EndReplay(w) \/ BeginBroadcast(w) \/ EndBroadcast(w) \/ GetUsernames(w) \/ SendMessageToClient(w)
    BY <1>0, <2>0, <2>5 DEF EndReplay, BeginBroadcast, EndBroadcast, GetUsernames, SendMessageToClient,
         AddClientEnd, BroadcastBegin, BroadcastEnd, At, Goto
  <2>6. CASE StartSession(w) \/ ReadNext(w)
    BY <1>0, <2>0, <2>6 DEF StartSession, ReadNext, At, Return, Goto, WorkerOwnsSession
  <2>7. CASE Remove(w)
    BY <1>0, <2>0, <2>7, NoSessionAssumption DEF Remove, RemoveClient, At, Return, Goto, WorkerOwnsSession, OneReaderPerSession
  <2>8. CASE SendOne(w)
    <3>1. recipients[w] \subseteq m_clients
      BY <2>8 DEF IInv, Loops, SendOne, At
    <3> QED
      BY <1>0, <2>0, <2>8, <3>1 DEF SendOne, BroadcastSend, SendMessage, At, WorkerOwnsSession
  <2> QED
    BY <1>4, <2>1, <2>2, <2>3, <2>4, <2>5, <2>6, <2>7, <2>8 DEF Enter, Proceed
<1> QED
  BY <1>1, <1>2, <1>3, <1>4 DEF Next, AllOver

(* Only the answer of authenticate_client authenticates a session. *)
LEMMA StrangersStep == IInv /\ [Next]_vars => Strangers'
<1> SUFFICES ASSUME IInv, [Next]_vars PROVE Strangers'
  OBVIOUS
<1> USE NoSessionAssumption DEF managerVars, workerVars, Strangers
<1>0. /\ Strangers /\ OneReaderPerSession /\ WorkerOwnsSession
      /\ pc \in [Workers -> Labels] /\ stage \in [Sessions -> Stages]
      /\ session \in [Workers -> Sessions \cup {NoSession}]
      /\ m_authenticated \in [Sessions -> BOOLEAN]
  BY DEF IInv, TypeOK
<1>1. CASE UNCHANGED vars
  BY <1>0, <1>1 DEF vars
<1>2. ASSUME NEW c \in Sessions, ClientStep(c) PROVE Strangers'
  BY <1>0, <1>2 DEF ClientStep, Connect, Write, Leave
<1>3. ASSUME NEW w \in Workers, NEW c \in Sessions, StartHandler(w, c) PROVE Strangers'
  <2>1. CASE Accept(w, c) \/ CredentialsError(w, c)
    BY <1>0, <2>1 DEF Accept, CredentialsError
  <2>2. CASE ReadCredentials(w, c)
    BY <1>0, <2>2 DEF ReadCredentials, Dispatch, Goto
  <2>3. CASE ReadError(w, c) \/ ReadChat(w, c) \/ ReadRequest(w, c)
    BY <1>0, <2>3 DEF ReadError, ReadChat, ReadRequest, Dispatch, Goto
  <2> QED
    BY <1>3, <2>1, <2>2, <2>3 DEF StartHandler
<1>4. ASSUME NEW w \in Workers, Enter(w) \/ Proceed(w) PROVE Strangers'
  <2>1. CASE Authenticated(w)
    BY <1>0, <2>1 DEF Authenticated, At, Goto, WorkerOwnsSession, OneReaderPerSession
  <2>2. CASE Rejected(w) \/ StartSession(w) \/ ReadNext(w) \/ Remove(w)
    BY <1>0, <2>2 DEF Rejected, StartSession, ReadNext, Remove, RemoveClient, At, Return, Goto
  <2>3. CASE ReplayOne(w) \/ SendOne(w)
    BY <1>0, <2>3 DEF ReplayOne, SendOne, AddClientReplay, BroadcastSend
  <2>4. CASE \/ AddToEmptyHistory(w) \/ BeginReplay(w) \/ EndReplay(w) \/ BeginBroadcast(w)
             \/ EndBroadcast(w) \/ GetUsernames(w) \/ SendMessageToClient(w)
    BY <1>0, <2>4 DEF AddToEmptyHistory, BeginReplay, EndReplay, BeginBroadcast, EndBroadcast, GetUsernames,
         SendMessageToClient, AddClientNoHistory, AddClientBegin, AddClientEnd, BroadcastBegin,
         BroadcastEnd, At, Goto
  <2> QED
    BY <1>4, <2>1, <2>2, <2>3, <2>4 DEF Enter, Proceed
<1> QED
  BY <1>1, <1>2, <1>3, <1>4 DEF Next, AllOver

----------------------------------------------------------------------------
(* What the loops rely on stays true: nobody else changes the registry or  *)
(* the history while the mutex is held.                                    *)
LEMMA LoopsStep == IInv /\ [Next]_vars => Loops'
<1> SUFFICES ASSUME IInv, [Next]_vars PROVE Loops'
  OBVIOUS
<1> USE NoWorkerAssumption, NoSessionAssumption DEF managerVars, workerVars
<1>0. /\ Loops /\ LoopsHoldMutex
      /\ pc \in [Workers -> Labels] /\ cursor \in [Workers -> Nat]
      /\ recipients \in [Workers -> SUBSET Sessions]
      /\ message \in [Workers -> ChatMessages \cup {NoMessage}]
      /\ session \in [Workers -> Sessions \cup {NoSession}] /\ base \in [Sessions -> Nat]
      /\ m_chatHistory \in Seq(ChatMessages) /\ log \in Seq(ChatMessages)
  BY DEF IInv, TypeOK
<1>1. CASE UNCHANGED vars
  BY <1>0, <1>1 DEF vars, Loops
<1>2. ASSUME NEW c \in Sessions, ClientStep(c) PROVE Loops'
  BY <1>0, <1>2 DEF ClientStep, Connect, Write, Leave, Loops
<1>3. ASSUME NEW w \in Workers, NEW c \in Sessions, StartHandler(w, c) PROVE Loops'
  <2>1. CASE Accept(w, c) \/ CredentialsError(w, c)
    BY <1>0, <2>1 DEF Accept, CredentialsError, Loops
  <2>2. CASE ReadCredentials(w, c) \/ ReadError(w, c) \/ ReadRequest(w, c)
    BY <1>0, <2>2 DEF ReadCredentials, ReadError, ReadRequest, Dispatch, Goto, Loops
  <2>3. CASE ReadChat(w, c)
    <3>1. inbox[c] \in Seq(Chunks) /\ inbox[c] # << >> /\ Head(inbox[c]).kind = "chat"
      BY <2>3 DEF IInv, TypeOK, ReadChat, ReadSome
    <3>2. Head(inbox[c]) \in ChatMessages
      BY <3>1 DEF Chunks, ListRequests, Credentials
    <3> QED
      BY <1>0, <2>3, <3>2 DEF ReadChat, Dispatch, Goto, Loops
  <2> QED
    BY <1>3, <2>1, <2>2, <2>3 DEF StartHandler
<1>4. ASSUME NEW w \in Workers, Enter(w) \/ Proceed(w) PROVE Loops'
  <2>1. CASE MutexFree
    <3>0. \A v \in Workers : pc[v] \notin {"replay", "sending"}
      BY <1>0, <2>1 DEF LoopsHoldMutex, MutexFree
    <3>1. CASE BeginReplay(w)
      <4>1. session[w] \in Sessions
        BY <3>1 DEF IInv, WorkerOwnsSession, BeginReplay, At
      <4>2. /\ cursor'[w] = 1 /\ base'[session[w]] = Len(log) - Len(m_chatHistory)
            /\ 1 \in 1..(Len(m_chatHistory) + 1)
        BY <1>0, <3>1, <4>1 DEF BeginReplay, AddClientBegin
      <4> QED
        BY <1>0, <3>0, <3>1, <4>2 DEF BeginReplay, AddClientBegin, At, Goto, Loops
    <3>2. CASE BeginBroadcast(w)
      <4>1. message[w] \in ChatMessages /\ recipients'[w] = m_clients /\ log' = Append(log, message[w])
        BY <1>0, <3>2 DEF BeginBroadcast, BroadcastBegin, At, Loops
      <4>2. log' # << >> /\ log'[Len(log')] = message[w]
        <5>1. Len(log') = Len(log) + 1 /\ Len(log) \in Nat /\ log'[Len(log) + 1] = message[w]
          BY <1>0, <4>1
        <5>2. Len(<< >>) = 0
          OBVIOUS
        <5> QED
          BY <5>1, <5>2
      <4> QED
        BY <1>0, <3>0, <3>2, <4>1, <4>2 DEF BeginBroadcast, BroadcastBegin, At, Goto, Loops
    <3>3. CASE \/ AddToEmptyHistory(w) \/ GetUsernames(w) \/ SendMessageToClient(w) \/ Authenticated(w)
               \/ Rejected(w) \/ StartSession(w) \/ ReadNext(w) \/ Remove(w)
      BY <1>0, <3>0, <3>3 DEF AddToEmptyHistory, GetUsernames, SendMessageToClient, Authenticated,
           Rejected, StartSession, ReadNext, Remove, At, Return, Goto, Loops
    <3>4. CASE ReplayOne(w) \/ EndReplay(w) \/ SendOne(w) \/ EndBroadcast(w)
      BY <3>0, <3>4 DEF ReplayOne, EndReplay, SendOne, EndBroadcast, At
    <3> QED
      BY <1>4, <3>1, <3>2, <3>3, <3>4 DEF Enter, Proceed
  <2>2. CASE ~MutexFree
    <3>1. CASE ReplayOne(w)
      BY <1>0, <3>1 DEF ReplayOne, AddClientReplay, At, Loops
    <3>2. CASE SendOne(w)
      BY <1>0, <3>2 DEF SendOne, BroadcastSend, At, Loops
    <3>3. CASE EndReplay(w) \/ EndBroadcast(w)
      BY <1>0, <3>3 DEF EndReplay, EndBroadcast, AddClientEnd, BroadcastEnd, At, Goto, Loops
    <3>4. CASE Authenticated(w) \/ Rejected(w) \/ StartSession(w) \/ ReadNext(w)
      BY <1>0, <3>4 DEF Authenticated, Rejected, StartSession, ReadNext, At, Return, Goto, Loops
    <3>5. CASE Enter(w)
      BY <2>2, <3>5 DEF Enter, AddToEmptyHistory, BeginReplay, Remove, BeginBroadcast, GetUsernames,
           SendMessageToClient, AddClientNoHistory, AddClientBegin, RemoveClient, BroadcastBegin, Lock
    <3> QED
      BY <1>4, <3>1, <3>2, <3>3, <3>4, <3>5 DEF Proceed
  <2> QED
    BY <2>1, <2>2
<1> QED
  BY <1>1, <1>2, <1>3, <1>4 DEF Next, AllOver

----------------------------------------------------------------------------
(* Only the two critical sections of handleUserListRequest touch lists. *)
LEMMA AnswerStep == IInv /\ [Next]_vars => ListNamesRequester' /\ OneAnswerPerRequest'
<1> SUFFICES ASSUME IInv, [Next]_vars PROVE ListNamesRequester' /\ OneAnswerPerRequest'
  OBVIOUS
<1> USE NoSessionAssumption DEF managerVars, workerVars, peerVars, countVars
<1>0. /\ ListNamesRequester /\ OneAnswerPerRequest /\ OneReaderPerSession /\ WorkerOwnsSession
      /\ pc \in [Workers -> Labels] /\ stage \in [Sessions -> Stages]
      /\ session \in [Workers -> Sessions \cup {NoSession}]
      /\ usernames \in [Workers -> SUBSET Sessions]
      /\ asked \in [Sessions -> Nat] /\ answered \in [Sessions -> Nat]
  BY DEF IInv, TypeOK
<1>1. ASSUME UNCHANGED <<asked, answered>>,
             \A v \in Workers : Asking(v)' <=> Asking(v),
             \A v \in Workers : Asking(v) => session'[v] = session[v],
             \A v \in Workers : pc'[v] = "reply" => pc[v] = "reply" /\ usernames'[v] = usernames[v]
      PROVE  ListNamesRequester' /\ OneAnswerPerRequest'
  <2>1. ListNamesRequester'
    BY <1>0, <1>1 DEF ListNamesRequester, Asking
  <2>2. ASSUME NEW c \in Sessions
        PROVE  (\E w \in Workers : session'[w] = c /\ Asking(w)') <=> \E w \in Workers : session[w] = c /\ Asking(w)
    BY <1>1
  <2>3. OneAnswerPerRequest'
    BY <1>0, <1>1, <2>2 DEF OneAnswerPerRequest
  <2> QED
    BY <2>1, <2>3
<1>2. CASE UNCHANGED vars
  BY <1>1, <1>2 DEF vars, Asking
<1>3. ASSUME NEW c \in Sessions, ClientStep(c) PROVE ListNamesRequester' /\ OneAnswerPerRequest'
  BY <1>1, <1>3 DEF ClientStep, Connect, Write, Leave, Asking
<1>4. ASSUME NEW w \in Workers, NEW c \in Sessions, StartHandler(w, c)
      PROVE  ListNamesRequester' /\ OneAnswerPerRequest'
  <2>1. CASE Accept(w, c) \/ CredentialsError(w, c)
    BY <1>1, <2>1 DEF Accept, CredentialsError, Asking
  <2>2. CASE ReadCredentials(w, c) \/ ReadError(w, c) \/ ReadChat(w, c)
    BY <1>0, <1>1, <2>2 DEF ReadCredentials, ReadError, ReadChat, Dispatch, Goto, Asking
  <2>3. CASE ReadRequest(w, c)
    <3>1. /\ pc[w] = "idle" /\ stage[c] = "reading" /\ pc' = [pc EXCEPT ![w] = "getUsernames"]
          /\ session' = [session EXCEPT ![w] = c] /\ asked' = [asked EXCEPT ![c] = @ + 1]
          /\ UNCHANGED <<answered, usernames>>
      BY <2>3 DEF ReadRequest, Dispatch, Goto
    <3>2. \A v \in Workers : session[v] # c
      BY <1>0, <3>1 DEF WorkerOwnsSession
    <3>3. asked[c] = answered[c]
      BY <1>0, <3>2 DEF OneAnswerPerRequest
    <3>4. session'[w] = c /\ Asking(w)'
      BY <1>0, <3>1 DEF Asking
    <3>5. \A v \in Workers \ {w} : session'[v] = session[v] /\ (Asking(v)' <=> Asking(v))
      BY <1>0, <3>1 DEF Asking
    <3>6. ASSUME NEW d \in Sessions
          PROVE  asked'[d] = answered[d] + IF \E v \in Workers : session'[v] = d /\ Asking(v)' THEN 1 ELSE 0
      <4>1. CASE d = c
        BY <1>0, <3>1, <3>3, <3>4, <4>1
      <4>2. CASE d # c
        <5>1. session[w] # d
          BY <1>0, <3>1 DEF WorkerOwnsSession
        <5>2. (\E v \in Workers : session'[v] = d /\ Asking(v)') <=> \E v \in Workers : session[v] = d /\ Asking(v)
          BY <3>4, <3>5, <4>2, <5>1
        <5> QED
          BY <1>0, <3>1, <4>2, <5>2 DEF OneAnswerPerRequest
      <4> QED
        BY <4>1, <4>2
    <3>7. ListNamesRequester'
      BY <1>0, <3>1 DEF ListNamesRequester
    <3> QED
      BY <3>1, <3>6, <3>7 DEF OneAnswerPerRequest
  <2> QED
    BY <1>4, <2>1, <2>2, <2>3 DEF StartHandler
<1>5. ASSUME NEW w \in Workers, Enter(w) \/ Proceed(w)
      PROVE  ListNamesRequester' /\ OneAnswerPerRequest'
  <2>1. CASE ReplayOne(w) \/ SendOne(w)
    BY <1>1, <2>1 DEF ReplayOne, SendOne, Asking
  <2>2. CASE \/ Authenticated(w) \/ AddToEmptyHistory(w) \/ BeginReplay(w) \/ EndReplay(w)
             \/ BeginBroadcast(w) \/ EndBroadcast(w)
    BY <1>0, <1>1, <2>2 DEF Authenticated, AddToEmptyHistory, BeginReplay, EndReplay, BeginBroadcast,
         EndBroadcast, At, Goto, Asking
  <2>3. CASE Rejected(w) \/ StartSession(w) \/ ReadNext(w) \/ Remove(w)
    BY <1>0, <1>1, <2>3 DEF Rejected, StartSession, ReadNext, Remove, At, Return, Goto, Asking
  <2>4. CASE GetUsernames(w)
    <3>1. /\ pc[w] = "getUsernames" /\ pc' = [pc EXCEPT ![w] = "reply"]
          /\ usernames' = [usernames EXCEPT ![w] = Reachable]
          /\ UNCHANGED <<asked, answered, session>>
      BY <2>4 DEF GetUsernames, At, Goto
    <3>2. session[w] \in Reachable
      BY <3>1 DEF IInv, Membership, Reachable
    <3>3. ListNamesRequester'
      BY <1>0, <3>1, <3>2 DEF ListNamesRequester
    <3>4. \A v \in Workers : Asking(v)' <=> Asking(v)
      BY <1>0, <3>1 DEF Asking
    <3>5. OneAnswerPerRequest'
      BY <1>0, <3>1, <3>4 DEF OneAnswerPerRequest
    <3> QED
      BY <3>3, <3>5
  <2>5. CASE SendMessageToClient(w)
    <3>0. session[w] \in Reachable /\ session[w] \in Sessions
      BY <2>5 DEF SendMessageToClient, At, IInv, Membership, Reachable, WorkerOwnsSession
    <3>1. /\ pc[w] = "reply" /\ pc' = [pc EXCEPT ![w] = "asyncRead"]
          /\ answered' = [answered EXCEPT ![session[w]] = @ + 1]
          /\ UNCHANGED <<asked, session, usernames>>
      BY <2>5, <3>0 DEF SendMessageToClient, At, Goto
    <3>2. \A v \in Workers \ {w} : Asking(v)' <=> Asking(v)
      BY <1>0, <3>1 DEF Asking
    <3>3. Asking(w) /\ ~Asking(w)'
      BY <1>0, <3>1 DEF Asking
    <3>4. ASSUME NEW d \in Sessions
          PROVE  asked[d] = answered'[d] + IF \E v \in Workers : session[v] = d /\ Asking(v)' THEN 1 ELSE 0
      <4>1. CASE d = session[w]
        <5>1. \A v \in Workers \ {w} : session[v] # d
          BY <1>0, <3>0, <4>1 DEF OneReaderPerSession
        <5>2. asked[d] = answered[d] + 1
          BY <1>0, <3>3, <4>1 DEF OneAnswerPerRequest
        <5> QED
          BY <1>0, <3>0, <3>1, <3>3, <4>1, <5>1, <5>2
      <4>2. CASE d # session[w]
        <5>1. (\E v \in Workers : session[v] = d /\ Asking(v)') <=> \E v \in Workers : session[v] = d /\ Asking(v)
          BY <3>2, <4>2
        <5> QED
          BY <1>0, <3>0, <3>1, <4>2, <5>1 DEF OneAnswerPerRequest
      <4> QED
        BY <4>1, <4>2
    <3>5. ListNamesRequester'
      BY <1>0, <3>1 DEF ListNamesRequester
    <3> QED
      BY <3>1, <3>4, <3>5 DEF OneAnswerPerRequest
  <2> QED
    BY <1>5, <2>1, <2>2, <2>3, <2>4, <2>5 DEF Enter, Proceed
<1> QED
  BY <1>2, <1>3, <1>4, <1>5 DEF Next, AllOver

----------------------------------------------------------------------------
(* Messages.                                                               *)

(* The history stays the latest part of the log. *)
LEMMA HistoryStep == IInv /\ [Next]_vars => HistoryIsLatest'
<1> SUFFICES ASSUME IInv, [Next]_vars PROVE HistoryIsLatest'
  OBVIOUS
<1>1. CASE UNCHANGED <<m_chatHistory, log>>
  BY <1>1 DEF IInv, HistoryIsLatest
<1>2. ASSUME NEW w \in Workers, BeginBroadcast(w) PROVE HistoryIsLatest'
  <2>1. /\ m_chatHistory' = Append(IF Len(m_chatHistory) >= MAX_HISTORY_SIZE THEN Tail(m_chatHistory)
                                                     ELSE m_chatHistory, message[w])
        /\ log' = Append(log, message[w])
    BY <1>2 DEF BeginBroadcast, BroadcastBegin, AddMessage
  <2>2. m_chatHistory \in Seq(ChatMessages) /\ log \in Seq(ChatMessages) /\ message[w] \in ChatMessages
    BY <1>2 DEF IInv, TypeOK, Loops, BeginBroadcast, At
  <2>3. /\ Len(log') = Len(log) + 1 /\ log'[Len(log) + 1] = message[w]
        /\ \A i \in 1..Len(log) : log'[i] = log[i]
    BY <2>1, <2>2
  <2>4. CASE Len(m_chatHistory) < MAX_HISTORY_SIZE
    <3>1. /\ Len(m_chatHistory') = Len(m_chatHistory) + 1
          /\ m_chatHistory'[Len(m_chatHistory) + 1] = message[w]
          /\ \A i \in 1..Len(m_chatHistory) : m_chatHistory'[i] = m_chatHistory[i]
      BY <2>1, <2>2, <2>4, HistorySizeAssumption
    <3>2. Len(m_chatHistory) = Len(log)
      BY <2>2, <2>4, HistorySizeAssumption DEF IInv, HistoryIsLatest
    <3>3. \A i \in 1..Len(m_chatHistory) : m_chatHistory[i] = log[i]
      BY <2>2, <3>2 DEF IInv, HistoryIsLatest
    <3>4. ASSUME NEW i \in 1..(Len(log) + 1) PROVE m_chatHistory'[i] = log'[i]
      BY <2>2, <2>3, <3>1, <3>2, <3>3
    <3>5. Len(m_chatHistory') = Len(log') /\ Len(log') <= MAX_HISTORY_SIZE
      BY <2>2, <2>3, <2>4, <3>1, <3>2, HistorySizeAssumption
    <3> QED
      BY <2>2, <2>3, <3>4, <3>5, HistorySizeAssumption DEF HistoryIsLatest
  <2>5. CASE Len(m_chatHistory) >= MAX_HISTORY_SIZE
    <3>1. Len(m_chatHistory) = MAX_HISTORY_SIZE /\ Len(log) >= MAX_HISTORY_SIZE
      BY <2>2, <2>5, HistorySizeAssumption DEF IInv, HistoryIsLatest
    <3>2. /\ Len(m_chatHistory') = MAX_HISTORY_SIZE
          /\ m_chatHistory'[MAX_HISTORY_SIZE] = message[w]
          /\ \A i \in 1..(MAX_HISTORY_SIZE - 1) : m_chatHistory'[i] = m_chatHistory[i + 1]
      BY <2>1, <2>2, <2>5, <3>1, HistorySizeAssumption
    <3>3. \A i \in 1..(MAX_HISTORY_SIZE - 1) :
            m_chatHistory[i + 1] = log[Len(log) - MAX_HISTORY_SIZE + (i + 1)]
      <4>1. \A k \in 1..MAX_HISTORY_SIZE : m_chatHistory[k] = log[Len(log) - MAX_HISTORY_SIZE + k]
        BY <3>1 DEF IInv, HistoryIsLatest
      <4>2. \A i \in 1..(MAX_HISTORY_SIZE - 1) : i + 1 \in 1..MAX_HISTORY_SIZE
        BY HistorySizeAssumption
      <4> QED
        BY <4>1, <4>2
    <3>4. ASSUME NEW i \in 1..MAX_HISTORY_SIZE
          PROVE m_chatHistory'[i] = log'[Len(log') - MAX_HISTORY_SIZE + i]
      <4>1. CASE i = MAX_HISTORY_SIZE
        BY <2>2, <2>3, <3>2, <4>1, HistorySizeAssumption
      <4>2. CASE i # MAX_HISTORY_SIZE
        <5>1. i \in 1..(MAX_HISTORY_SIZE - 1)
          BY <4>2, HistorySizeAssumption
        <5>2. Len(log) - MAX_HISTORY_SIZE + (i + 1) \in 1..Len(log)
          BY <2>2, <3>1, <5>1, HistorySizeAssumption
        <5>3. Len(log) - MAX_HISTORY_SIZE + (i + 1) = Len(log') - MAX_HISTORY_SIZE + i
          BY <2>2, <2>3, HistorySizeAssumption
        <5> QED
          BY <2>3, <3>2, <3>3, <5>1, <5>2, <5>3
      <4> QED
        BY <4>1, <4>2
    <3> QED
      BY <2>2, <2>3, <3>1, <3>2, <3>4, HistorySizeAssumption DEF HistoryIsLatest
  <2> QED
    BY <2>2, <2>4, <2>5, HistorySizeAssumption
<1> QED
  BY <1>1, <1>2 DEF Next, ClientStep, StartHandler, Enter, Proceed, AllOver, vars, managerVars,
       Connect, Write, Leave, Accept, ReadCredentials, CredentialsError, ReadError, ReadChat,
       ReadRequest, Authenticated, Rejected, AddToEmptyHistory, BeginReplay, ReplayOne, EndReplay,
       StartSession, ReadNext, Remove, SendOne, EndBroadcast, GetUsernames, SendMessageToClient,
       AddClientNoHistory, AddClientBegin, AddClientReplay, AddClientEnd, RemoveClient,
       BroadcastSend, BroadcastEnd

----------------------------------------------------------------------------
(* Appending to the log keeps what was already delivered in place. *)
LEMMA DeliveryAppend ==
  ASSUME NEW c \in Sessions, sent \in [Sessions -> Seq(ChatMessages)], log \in Seq(ChatMessages),
         base \in [Sessions -> Nat], ContiguousDelivery,
         sent' = [sent EXCEPT ![c] = Append(@, log[base[c] + Len(sent[c]) + 1])],
         base[c] + Len(sent[c]) < Len(log), UNCHANGED <<log, base>>
  PROVE  /\ ContiguousDelivery'
         /\ Len(sent'[c]) = Len(sent[c]) + 1
         /\ \A d \in Sessions \ {c} : sent'[d] = sent[d]
<1>1. /\ sent[c] \in Seq(ChatMessages) /\ Len(sent[c]) \in Nat /\ base[c] \in Nat /\ Len(log) \in Nat
  OBVIOUS
<1>2. log[base[c] + Len(sent[c]) + 1] \in ChatMessages
  BY <1>1
<1>3. /\ Len(sent'[c]) = Len(sent[c]) + 1
      /\ sent'[c][Len(sent[c]) + 1] = log[base[c] + Len(sent[c]) + 1]
      /\ \A i \in 1..Len(sent[c]) : sent'[c][i] = sent[c][i]
  <2>1. sent'[c] = Append(sent[c], log[base[c] + Len(sent[c]) + 1])
    OBVIOUS
  <2> QED
    BY <1>1, <1>2, <2>1
<1>4. \A d \in Sessions \ {c} : sent'[d] = sent[d]
  OBVIOUS
<1>5. ASSUME NEW d \in Sessions
      PROVE  /\ base[d] + Len(sent'[d]) <= Len(log)
             /\ \A i \in 1..Len(sent'[d]) : sent'[d][i] = log[base[d] + i]
  <2>1. CASE d = c
    <3>1. base[c] + Len(sent'[c]) <= Len(log)
      BY <1>1, <1>3
    <3>2. ASSUME NEW i \in 1..Len(sent'[c]) PROVE sent'[c][i] = log[base[c] + i]
      <4>1. CASE i = Len(sent[c]) + 1
        BY <1>1, <1>3, <4>1
      <4>2. CASE i \in 1..Len(sent[c])
        BY <1>3, <4>2 DEF ContiguousDelivery
      <4> QED
        BY <1>1, <1>3, <4>1, <4>2
    <3> QED
      BY <2>1, <3>1, <3>2
  <2>2. CASE d # c
    BY <1>4, <2>2 DEF ContiguousDelivery
  <2> QED
    BY <2>1, <2>2
<1> QED
  BY <1>3, <1>4, <1>5 DEF ContiguousDelivery

(* One step of the replay loop sends the next message the session is owed. *)
LEMMA ReplaySendsNext ==
  ASSUME IInv, NEW w \in Workers, ReplayOne(w)
  PROVE  LET c == session[w] IN
           /\ c \in Sessions /\ c \in m_clients /\ base[c] + Len(sent[c]) < Len(log)
           /\ base[c] = Len(log) - Len(m_chatHistory) /\ Len(sent[c]) = cursor[w] - 1
           /\ sent' = [sent EXCEPT ![c] = Append(@, log[base[c] + Len(sent[c]) + 1])]
<1> DEFINE c == session[w]
<1>0. /\ base \in [Sessions -> Nat] /\ sent \in [Sessions -> Seq(ChatMessages)]
      /\ m_chatHistory \in Seq(ChatMessages) /\ log \in Seq(ChatMessages)
      /\ Len(m_chatHistory) <= Len(log)
  BY HistorySizeAssumption DEF IInv, TypeOK, HistoryIsLatest
<1>1. /\ pc[w] = "replay" /\ m_clientsMutex = w /\ cursor[w] \in 1..Len(m_chatHistory)
      /\ SendMessage(c, m_chatHistory[cursor[w]])
  BY <1>0 DEF ReplayOne, AddClientReplay, At, IInv, LoopsHoldMutex
<1>2. c \in Sessions /\ c \in m_clients /\ m_authenticated[c]
  BY <1>1 DEF IInv, WorkerOwnsSession, Membership
<1>3. base[c] = Len(log) - Len(m_chatHistory)
  BY <1>1 DEF IInv, Loops
<1>4. Owed(c) = Len(m_chatHistory) + 1 - cursor[w]
  BY <1>1, NoWorkerAssumption DEF Owed
<1>5. Len(sent[c]) = cursor[w] - 1
  <2>1. (Len(log) - Len(m_chatHistory)) + Len(sent[c]) + (Len(m_chatHistory) + 1 - cursor[w]) = Len(log)
    <3>1. base[c] + Len(sent[c]) + Owed(c) = Len(log)
      BY <1>2 DEF IInv, Accounted
    <3> QED
      BY <1>3, <1>4, <3>1
  <2>2. /\ Len(sent[c]) \in Nat /\ Len(log) \in Nat /\ Len(m_chatHistory) \in Nat
        /\ cursor[w] \in Nat
    BY <1>0, <1>1, <1>2
  <2> QED
    BY <2>1, <2>2
<1>6. m_chatHistory[cursor[w]] = log[base[c] + Len(sent[c]) + 1]
  <2>1. m_chatHistory[cursor[w]] = log[Len(log) - Len(m_chatHistory) + cursor[w]]
    BY <1>0, <1>1 DEF IInv, HistoryIsLatest
  <2>2. Len(log) - Len(m_chatHistory) + cursor[w] = base[c] + Len(sent[c]) + 1
    BY <1>0, <1>1, <1>3, <1>5
  <2> QED
    BY <2>1, <2>2
<1>7. sent' = [sent EXCEPT ![c] = Append(@, log[base[c] + Len(sent[c]) + 1])]
  BY <1>1, <1>2, <1>6 DEF SendMessage
<1>8. base[c] + Len(sent[c]) < Len(log)
  BY <1>0, <1>1, <1>2, <1>3, <1>5
<1> QED
  BY <1>2, <1>3, <1>5, <1>7, <1>8

(* So does one step of the send loop. *)
LEMMA BroadcastSendsNext ==
  ASSUME IInv, NEW w \in Workers, SendOne(w)
  PROVE  \E c \in recipients[w] :
           /\ c \in Sessions /\ c \in m_clients /\ base[c] + Len(sent[c]) < Len(log)
           /\ base[c] + Len(sent[c]) + 1 = Len(log)
           /\ sent' = [sent EXCEPT ![c] = Append(@, log[base[c] + Len(sent[c]) + 1])]
           /\ recipients' = [recipients EXCEPT ![w] = @ \ {c}]
<1>0. /\ base \in [Sessions -> Nat] /\ sent \in [Sessions -> Seq(ChatMessages)]
      /\ log \in Seq(ChatMessages) /\ m_clients \subseteq Sessions
  BY DEF IInv, TypeOK
<1>1. pc[w] = "sending" /\ m_clientsMutex = w
  BY DEF SendOne, BroadcastSend, At, IInv, LoopsHoldMutex
<1>2. PICK c \in recipients[w] :
        SendMessage(c, message[w]) /\ recipients' = [recipients EXCEPT ![w] = @ \ {c}]
  BY DEF SendOne, BroadcastSend
<1>3. c \in m_clients /\ c \in Sessions /\ m_authenticated[c] /\ log[Len(log)] = message[w]
  BY <1>0, <1>1, <1>2 DEF IInv, Loops, Membership
<1>4. Owed(c) = 1
  BY <1>1, <1>2, NoWorkerAssumption DEF Owed
<1>5. base[c] + Len(sent[c]) + 1 = Len(log)
  BY <1>3, <1>4 DEF IInv, Accounted
<1>6. sent' = [sent EXCEPT ![c] = Append(@, log[base[c] + Len(sent[c]) + 1])]
  BY <1>2, <1>3, <1>5 DEF SendMessage
<1>7. base[c] + Len(sent[c]) < Len(log)
  BY <1>0, <1>3, <1>5
<1> QED
  BY <1>2, <1>3, <1>5, <1>6, <1>7

(* What a session is owed depends only on the holder of the mutex. *)
LEMMA OwedFrame ==
  ASSUME UNCHANGED <<m_chatHistory, m_clientsMutex, cursor, recipients>>,
         m_clientsMutex # NoWorker =>
           /\ pc'[m_clientsMutex] = pc[m_clientsMutex]
           /\ session'[m_clientsMutex] = session[m_clientsMutex]
  PROVE  \A c : Owed(c)' = Owed(c)
BY DEF Owed

(* Nothing is missed and nothing is sent twice. *)
LEMMA DeliveryStep == IInv /\ [Next]_vars => ContiguousDelivery' /\ Accounted'
<1> SUFFICES ASSUME IInv, [Next]_vars PROVE ContiguousDelivery' /\ Accounted'
  OBVIOUS
<1> USE NoWorkerAssumption DEF managerVars, workerVars
<1>0. /\ ContiguousDelivery /\ Accounted /\ Membership /\ LoopsHoldMutex
      /\ pc \in [Workers -> Labels] /\ cursor \in [Workers -> Nat]
      /\ recipients \in [Workers -> SUBSET Sessions] /\ m_clients \subseteq Sessions
      /\ m_clientsMutex \in Workers \cup {NoWorker}
      /\ session \in [Workers -> Sessions \cup {NoSession}] /\ base \in [Sessions -> Nat]
      /\ m_chatHistory \in Seq(ChatMessages) /\ log \in Seq(ChatMessages)
      /\ sent \in [Sessions -> Seq(ChatMessages)]
      /\ Len(m_chatHistory) <= Len(log)
  BY HistorySizeAssumption DEF IInv, TypeOK, HistoryIsLatest
<1>1. CASE /\ UNCHANGED <<sent, base, log, m_clients, m_chatHistory, m_clientsMutex, cursor, recipients>>
           /\ m_clientsMutex # NoWorker => /\ pc'[m_clientsMutex] = pc[m_clientsMutex]
                                           /\ session'[m_clientsMutex] = session[m_clientsMutex]
  <2>1. \A c : Owed(c)' = Owed(c)
    BY <1>1, OwedFrame
  <2> QED
    BY <1>0, <1>1, <2>1 DEF ContiguousDelivery, Accounted
<1>2. CASE UNCHANGED vars
  BY <1>1, <1>2 DEF vars
<1>3. ASSUME NEW c \in Sessions, ClientStep(c) PROVE ContiguousDelivery' /\ Accounted'
  BY <1>1, <1>3 DEF ClientStep, Connect, Write, Leave
<1>4. ASSUME NEW w \in Workers, NEW c \in Sessions, StartHandler(w, c)
      PROVE  ContiguousDelivery' /\ Accounted'
  <2>1. pc[w] = "idle" /\ UNCHANGED managerVars
    BY <1>4 DEF StartHandler, Accept, ReadCredentials, CredentialsError, ReadError, ReadChat,
                ReadRequest, Dispatch
  <2>2. \A v \in Workers \ {w} : pc'[v] = pc[v] /\ session'[v] = session[v]
    BY <1>0, <1>4 DEF StartHandler, Accept, ReadCredentials, CredentialsError, ReadError, ReadChat,
                ReadRequest, Dispatch, Goto
  <2>3. m_clientsMutex # w
    BY <1>0, <2>1 DEF LoopsHoldMutex
  <2> QED
    BY <1>0, <1>1, <2>1, <2>2, <2>3
<1>5. ASSUME NEW w \in Workers, Enter(w) \/ Proceed(w) PROVE ContiguousDelivery' /\ Accounted'
  <2>0. pc[w] # "idle" => session[w] \in Sessions
    BY DEF IInv, WorkerOwnsSession
  <2>1. CASE \/ Authenticated(w) \/ Rejected(w) \/ StartSession(w) \/ ReadNext(w)
             \/ GetUsernames(w) \/ SendMessageToClient(w)
    <3>1. /\ pc[w] \notin {"replay", "sending"}
          /\ UNCHANGED <<sent, base, log, m_clients, m_chatHistory, m_clientsMutex, cursor, recipients>>
      BY <2>1 DEF Authenticated, Rejected, StartSession, ReadNext, GetUsernames, SendMessageToClient, At
    <3>2. \A v \in Workers \ {w} : pc'[v] = pc[v] /\ session'[v] = session[v]
      BY <1>0, <2>1 DEF Authenticated, Rejected, StartSession, ReadNext, GetUsernames,
                        SendMessageToClient, At, Return, Goto
    <3>3. m_clientsMutex # w
      BY <1>0, <3>1 DEF LoopsHoldMutex
    <3> QED
      BY <1>0, <1>1, <3>1, <3>2, <3>3
  <2>2. CASE AddToEmptyHistory(w)
    <3>1. /\ m_clientsMutex = NoWorker /\ UNCHANGED <<m_clientsMutex, sent, log>>
          /\ m_clients' = m_clients \cup {session[w]} /\ pc[w] = "addClient"
          /\ base' = [base EXCEPT ![session[w]] = Len(log)]
      BY <2>2 DEF AddToEmptyHistory, AddClientNoHistory, MutexFree, At
    <3>2. sent[session[w]] = << >> /\ session[w] \in Sessions /\ session[w] \notin m_clients
      BY <1>0, <2>0, <3>1 DEF Membership, NotYetRegistered
    <3>3. Len(sent[session[w]]) = 0
      BY <3>2
    <3>4. \A c : Owed(c) = 0 /\ Owed(c)' = 0
      BY <3>1 DEF Owed
    <3> QED
      BY <1>0, <3>1, <3>2, <3>3, <3>4 DEF ContiguousDelivery, Accounted
  <2>3. CASE BeginReplay(w)
    <3>1. /\ m_clientsMutex = NoWorker /\ m_clientsMutex' = w /\ UNCHANGED <<sent, log, m_chatHistory, session>>
          /\ m_clients' = m_clients \cup {session[w]} /\ pc[w] = "addClient" /\ pc'[w] = "replay"
          /\ base' = [base EXCEPT ![session[w]] = Len(log) - Len(m_chatHistory)]
          /\ cursor'[w] = 1
      BY <1>0, <2>3 DEF BeginReplay, AddClientBegin, Lock, MutexFree, At, Goto
    <3>2. sent[session[w]] = << >> /\ session[w] \in Sessions /\ session[w] \notin m_clients
      BY <1>0, <2>0, <3>1 DEF Membership, NotYetRegistered
    <3>3. Len(sent[session[w]]) = 0
      BY <3>2
    <3>4. \A c : Owed(c) = 0
      BY <3>1 DEF Owed
    <3>5. \A c : Owed(c)' = IF c = session[w] THEN Len(m_chatHistory) ELSE 0
      BY <1>0, <3>1 DEF Owed
    <3> QED
      <4>1. ContiguousDelivery'
        BY <1>0, <3>1, <3>2, <3>3 DEF ContiguousDelivery
      <4>2. ASSUME NEW c \in m_clients' PROVE base'[c] + Len(sent[c]) + Owed(c)' = Len(log)
        <5>1. CASE c = session[w]
          BY <1>0, <3>1, <3>2, <3>3, <3>5, <5>1
        <5>2. CASE c # session[w]
          <6>1. c \in m_clients /\ c \in Sessions /\ Owed(c)' = Owed(c) /\ base'[c] = base[c]
            BY <1>0, <3>1, <3>4, <3>5, <5>2
          <6> QED
            BY <1>0, <6>1 DEF Accounted
        <5> QED
          BY <5>1, <5>2
      <4> QED
        BY <3>1, <4>1, <4>2 DEF Accounted
  <2>4. CASE ReplayOne(w)
    <3>1. /\ pc[w] = "replay" /\ m_clientsMutex = w /\ cursor[w] \in 1..Len(m_chatHistory)
          /\ cursor' = [cursor EXCEPT ![w] = @ + 1]
          /\ UNCHANGED <<m_clientsMutex, log, base, m_chatHistory, m_clients, pc, session, recipients>>
      BY <1>0, <2>4 DEF ReplayOne, AddClientReplay, At, LoopsHoldMutex
    <3>2. /\ session[w] \in Sessions /\ session[w] \in m_clients
          /\ base[session[w]] + Len(sent[session[w]]) < Len(log)
          /\ base[session[w]] = Len(log) - Len(m_chatHistory) /\ Len(sent[session[w]]) = cursor[w] - 1
          /\ sent' = [sent EXCEPT ![session[w]] = Append(@, log[base[session[w]] + Len(sent[session[w]]) + 1])]
      BY <2>4, ReplaySendsNext
    <3>4. \A c : Owed(c) = IF c = session[w] THEN Len(m_chatHistory) + 1 - cursor[w] ELSE 0
      BY <3>1 DEF Owed
    <3>5. \A c : Owed(c)' = IF c = session[w] THEN Len(m_chatHistory) - cursor[w] ELSE 0
      BY <1>0, <3>1 DEF Owed
    <3>10. /\ ContiguousDelivery' /\ Len(sent'[session[w]]) = Len(sent[session[w]]) + 1
           /\ \A d \in Sessions \ {session[w]} : sent'[d] = sent[d]
      BY <1>0, <3>1, <3>2, DeliveryAppend
    <3>11. Accounted'
      <4>1. ASSUME NEW d \in m_clients PROVE base[d] + Len(sent'[d]) + Owed(d)' = Len(log)
        <5>0. d \in Sessions /\ base[d] \in Nat /\ Len(sent[d]) \in Nat
          BY <1>0
        <5>1. base[d] + Len(sent[d]) + Owed(d) = Len(log)
          BY <1>0 DEF Accounted
        <5>2. CASE d = session[w]
          <6>1. Owed(d)' = Len(m_chatHistory) - cursor[w]
            BY <3>5, <5>2
          <6>2. /\ Len(sent'[d]) = (cursor[w] - 1) + 1 /\ base[d] = Len(log) - Len(m_chatHistory)
                /\ cursor[w] \in Nat /\ Len(log) \in Nat /\ Len(m_chatHistory) \in Nat
            <7>1. Len(sent'[d]) = Len(sent[d]) + 1 /\ Len(sent[d]) = cursor[w] - 1
              BY <3>2, <3>10, <5>2
            <7>2. base[d] = Len(log) - Len(m_chatHistory)
              BY <3>2, <5>2
            <7> QED
              BY <1>0, <7>1, <7>2
          <6> QED
            BY <6>1, <6>2
        <5>3. CASE d # session[w]
          <6>1. Owed(d)' = Owed(d) /\ Len(sent'[d]) = Len(sent[d])
            BY <3>4, <3>5, <3>10, <5>0, <5>3
          <6> QED
            BY <5>1, <6>1
        <5> QED
          BY <5>2, <5>3
      <4> QED
        BY <3>1, <4>1 DEF Accounted
    <3> QED
      BY <3>10, <3>11
  <2>5. CASE EndReplay(w)
    <3>1. /\ pc[w] = "replay" /\ m_clientsMutex = w /\ m_clientsMutex' = NoWorker
          /\ cursor[w] > Len(m_chatHistory)
          /\ UNCHANGED <<sent, log, base, m_chatHistory, m_clients>>
      BY <1>0, <2>5 DEF EndReplay, AddClientEnd, Unlock, At
    <3>2. cursor[w] = Len(m_chatHistory) + 1
      <4>1. cursor[w] \in 1..(Len(m_chatHistory) + 1)
        BY <3>1 DEF IInv, Loops
      <4> QED
        BY <1>0, <3>1, <4>1
    <3>3. \A c : Owed(c) = 0 /\ Owed(c)' = 0
      BY <1>0, <3>1, <3>2 DEF Owed
    <3> QED
      BY <1>0, <3>1, <3>3 DEF ContiguousDelivery, Accounted
  <2>6. CASE BeginBroadcast(w)
    <3>1. /\ m_clientsMutex = NoWorker /\ m_clientsMutex' = w /\ pc'[w] = "sending"
          /\ log' = Append(log, message[w]) /\ recipients'[w] = m_clients
          /\ UNCHANGED <<sent, base, m_clients>>
      BY <1>0, <2>6 DEF BeginBroadcast, BroadcastBegin, Lock, MutexFree, At, Goto
    <3>2. message[w] \in ChatMessages
      BY <2>6 DEF IInv, Loops, BeginBroadcast, At
    <3>3. Len(log') = Len(log) + 1 /\ \A i \in 1..Len(log) : log'[i] = log[i]
      BY <1>0, <3>1, <3>2
    <3>4. \A c : Owed(c) = 0
      BY <3>1 DEF Owed
    <3>5. \A c \in m_clients : Owed(c)' = 1
      BY <3>1 DEF Owed
    <3>6. ContiguousDelivery'
      <4>1. ASSUME NEW c \in Sessions, NEW i \in 1..Len(sent[c])
            PROVE  base[c] + i \in 1..Len(log)
        BY <1>0 DEF ContiguousDelivery
      <4> QED
        BY <1>0, <3>1, <3>3, <4>1 DEF ContiguousDelivery
    <3>7. Accounted'
      BY <1>0, <3>1, <3>3, <3>4, <3>5 DEF Accounted
    <3> QED
      BY <3>6, <3>7
  <2>7. CASE SendOne(w)
    <3>1. /\ pc[w] = "sending" /\ m_clientsMutex = w
          /\ UNCHANGED <<m_clientsMutex, log, base, m_chatHistory, m_clients, pc, session, cursor>>
      BY <1>0, <2>7 DEF SendOne, BroadcastSend, At, LoopsHoldMutex
    <3>2. PICK c \in recipients[w] :
            /\ c \in Sessions /\ c \in m_clients /\ base[c] + Len(sent[c]) < Len(log)
            /\ base[c] + Len(sent[c]) + 1 = Len(log)
            /\ sent' = [sent EXCEPT ![c] = Append(@, log[base[c] + Len(sent[c]) + 1])]
            /\ recipients' = [recipients EXCEPT ![w] = @ \ {c}]
      BY <2>7, BroadcastSendsNext
    <3>4. \A d : Owed(d) = IF d \in recipients[w] THEN 1 ELSE 0
      BY <1>0, <3>1 DEF Owed
    <3>5. \A d : Owed(d)' = IF d \in recipients[w] /\ d # c THEN 1 ELSE 0
      BY <1>0, <3>1, <3>2 DEF Owed
    <3>9. /\ ContiguousDelivery' /\ Len(sent'[c]) = Len(sent[c]) + 1
          /\ \A d \in Sessions \ {c} : sent'[d] = sent[d]
      BY <1>0, <3>1, <3>2, DeliveryAppend
    <3>10. Accounted'
      <4>1. ASSUME NEW d \in m_clients PROVE base[d] + Len(sent'[d]) + Owed(d)' = Len(log)
        <5>0. d \in Sessions /\ base[d] \in Nat /\ Len(sent[d]) \in Nat
          BY <1>0
        <5>1. base[d] + Len(sent[d]) + Owed(d) = Len(log)
          BY <1>0 DEF Accounted
        <5>2. CASE d = c
          BY <3>2, <3>5, <3>9, <5>0, <5>2
        <5>3. CASE d # c
          <6>1. Owed(d)' = Owed(d) /\ Len(sent'[d]) = Len(sent[d])
            BY <3>4, <3>5, <3>9, <5>0, <5>3
          <6> QED
            BY <5>1, <6>1
        <5> QED
          BY <5>2, <5>3
      <4> QED
        BY <3>1, <4>1 DEF Accounted
    <3> QED
      BY <3>9, <3>10
  <2>8. CASE EndBroadcast(w)
    <3>1. /\ pc[w] = "sending" /\ m_clientsMutex = w /\ m_clientsMutex' = NoWorker
          /\ recipients[w] = {} /\ UNCHANGED <<sent, log, base, m_chatHistory, m_clients>>
      BY <1>0, <2>8 DEF EndBroadcast, BroadcastEnd, Unlock, At
    <3>2. \A c : Owed(c) = 0 /\ Owed(c)' = 0
      BY <1>0, <3>1 DEF Owed
    <3> QED
      BY <1>0, <3>1, <3>2 DEF ContiguousDelivery, Accounted
  <2>9. CASE Remove(w)
    <3>1. /\ m_clientsMutex = NoWorker /\ m_clients' \subseteq m_clients
          /\ UNCHANGED <<m_clientsMutex, sent, log, base>>
      BY <2>9 DEF Remove, RemoveClient, MutexFree
    <3>2. \A c : Owed(c) = 0 /\ Owed(c)' = 0
      BY <3>1 DEF Owed
    <3> QED
      BY <1>0, <3>1, <3>2 DEF ContiguousDelivery, Accounted
  <2> QED
    BY <1>5, <2>1, <2>2, <2>3, <2>4, <2>5, <2>6, <2>7, <2>8, <2>9 DEF Enter, Proceed
<1> QED
  BY <1>2, <1>3, <1>4, <1>5 DEF Next, AllOver

----------------------------------------------------------------------------
(* Reading or losing chunks from the front of the inboxes, or nothing at   *)
(* all, keeps the order of what is left.                                   *)
InboxesShrink ==
  \A c \in Sessions : \E n \in 0..Len(inbox[c]) :
    /\ Len(inbox'[c]) = Len(inbox[c]) - n
    /\ \A i \in 1..Len(inbox'[c]) : inbox'[c][i] = inbox[c][i + n]

LEMMA LaterShrinks ==
  ASSUME InboxesShrink, inbox \in [Sessions -> Seq(Chunks)],
         NEW c \in Sessions, NEW id \in Nat, Later(c, id)
  PROVE  Later(c, id)'
<1>1. PICK n \in 0..Len(inbox[c]) :
        /\ Len(inbox'[c]) = Len(inbox[c]) - n
        /\ \A i \in 1..Len(inbox'[c]) : inbox'[c][i] = inbox[c][i + n]
  BY DEF InboxesShrink
<1>2. ASSUME NEW i \in 1..Len(inbox'[c]) PROVE i + n \in 1..Len(inbox[c])
  BY <1>1
<1>3. ASSUME NEW i \in 1..Len(inbox'[c]), inbox'[c][i].kind # "credentials" PROVE id < inbox'[c][i].id
  BY <1>1, <1>2, <1>3 DEF Later
<1> QED
  BY <1>3 DEF Later

LEMMA ReadSomeShrinks ==
  ASSUME NEW c \in Sessions, inbox \in [Sessions -> Seq(Chunks)],
         NEW n \in 1..Len(inbox[c]), inbox' = [inbox EXCEPT ![c] = SubSeq(@, n + 1, Len(@))]
  PROVE  /\ InboxesShrink
         /\ Len(inbox'[c]) = Len(inbox[c]) - n
         /\ \A i \in 1..Len(inbox'[c]) : inbox'[c][i] = inbox[c][i + n]
<1>1. inbox'[c] = SubSeq(inbox[c], n + 1, Len(inbox[c])) /\ inbox[c] \in Seq(Chunks)
  OBVIOUS
<1>2. /\ Len(inbox'[c]) = Len(inbox[c]) - n
      /\ \A i \in 1..Len(inbox'[c]) : inbox'[c][i] = inbox[c][i + n]
  BY <1>1
<1>3. ASSUME NEW d \in Sessions, d # c
      PROVE  /\ 0 \in 0..Len(inbox[d]) /\ Len(inbox'[d]) = Len(inbox[d]) - 0
             /\ \A i \in 1..Len(inbox'[d]) : inbox'[d][i] = inbox[d][i + 0]
  BY <1>3
<1>4. ASSUME NEW d \in Sessions
      PROVE  \E k \in 0..Len(inbox[d]) :
               /\ Len(inbox'[d]) = Len(inbox[d]) - k
               /\ \A i \in 1..Len(inbox'[d]) : inbox'[d][i] = inbox[d][i + k]
  <2>1. CASE d = c
    <3> n \in 0..Len(inbox[c])
      OBVIOUS
    <3> QED
      BY <1>2, <2>1
  <2>2. CASE d # c
    BY <1>3, <2>2
  <2> QED
    BY <2>1, <2>2
<1> QED
  BY <1>2, <1>4 DEF InboxesShrink


LEMMA KeptOrEmptiedShrinks ==
  ASSUME inbox \in [Sessions -> Seq(Chunks)],
         \A c \in Sessions : inbox'[c] = inbox[c] \/ inbox'[c] = << >>
  PROVE  InboxesShrink
<1> SUFFICES ASSUME NEW c \in Sessions
             PROVE  \E n \in 0..Len(inbox[c]) :
                      /\ Len(inbox'[c]) = Len(inbox[c]) - n
                      /\ \A i \in 1..Len(inbox'[c]) : inbox'[c][i] = inbox[c][i + n]
  BY DEF InboxesShrink
<1>0. Len(inbox[c]) \in Nat
  OBVIOUS
<1>1. CASE inbox'[c] = inbox[c]
  <2>1. /\ 0 \in 0..Len(inbox[c]) /\ Len(inbox'[c]) = Len(inbox[c]) - 0
        /\ \A i \in 1..Len(inbox'[c]) : inbox'[c][i] = inbox[c][i + 0]
    BY <1>0, <1>1
  <2> QED
    BY <2>1
<1>2. CASE inbox'[c] = << >>
  <2>1. /\ Len(inbox[c]) \in 0..Len(inbox[c]) /\ Len(inbox'[c]) = Len(inbox[c]) - Len(inbox[c])
        /\ 1..Len(inbox'[c]) = {}
    BY <1>0, <1>2
  <2> QED
    BY <2>1
<1> QED
  BY <1>1, <1>2

LEMMA ChunkTypes ==
  /\ \A m \in ChatMessages : m.from \in Sessions /\ m.id \in Nat
  /\ \A m \in Chunks : m.id \in Nat
BY MaxWritesAssumption DEF Chunks, ChatMessages, ListRequests, Credentials

(* The messages of one client reach the log in the order it wrote them. *)
LEMMA OrderStep ==
  IInv /\ [Next]_vars => InboxInOrder' /\ LogBeforeInbox' /\ HandInBetween' /\ SenderOrder'
<1> DEFINE Order == InboxInOrder /\ LogBeforeInbox /\ HandInBetween /\ SenderOrder
<1> SUFFICES ASSUME IInv, [Next]_vars PROVE Order'
  OBVIOUS
<1> USE NoSessionAssumption DEF managerVars, workerVars, peerVars
<1>0. /\ Order
      /\ pc \in [Workers -> Labels] /\ written \in Nat
      /\ message \in [Workers -> ChatMessages \cup {NoMessage}]
      /\ session \in [Workers -> Sessions \cup {NoSession}]
      /\ log \in Seq(ChatMessages) /\ inbox \in [Sessions -> Seq(Chunks)]
      /\ \A w \in Workers : pc[w] # "idle" => session[w] \in Sessions
      /\ \A w \in Workers : pc[w] = "broadcast" => message[w] \in ChatMessages
  BY MaxWritesAssumption DEF IInv, TypeOK, WorkerOwnsSession, Loops
<1>a. \A k \in 1..Len(log) : log[k].from \in Sessions /\ log[k].id \in Nat
  <2>1. \A k \in 1..Len(log) : log[k] \in ChatMessages
    BY <1>0
  <2> QED
    BY <2>1, ChunkTypes
<1>b. \A c \in Sessions : \A i \in 1..Len(inbox[c]) : inbox[c][i] \in Chunks /\ inbox[c][i].id \in Nat
  <2>1. \A c \in Sessions : \A i \in 1..Len(inbox[c]) : inbox[c][i] \in Chunks
    BY <1>0
  <2> QED
    BY <2>1, ChunkTypes
<1>c. \A w \in Workers : pc[w] = "broadcast" => message[w].id \in Nat
  BY <1>0, ChunkTypes
(* As long as nothing is added to the log, it stays before the hands of   *)
(* whoever keeps his message, and those before the inboxes.                *)
<1>1. ASSUME UNCHANGED log, written' \in Nat, written <= written', InboxInOrder',
             \A d \in Sessions : \A id \in Nat : id <= written /\ Later(d, id) =>
               \A i \in 1..Len(inbox'[d]) : inbox'[d][i].kind # "credentials" => id < inbox'[d][i].id
      PROVE  /\ InboxInOrder' /\ LogBeforeInbox' /\ SenderOrder'
             /\ \A v \in Workers : pc[v] = "broadcast" /\ message'[v] = message[v]
                                   /\ session'[v] = session[v] => Between(v)'
  <2>1. SenderOrder'
    BY <1>0, <1>1 DEF SenderOrder
  <2>2. ASSUME NEW k \in 1..Len(log)
        PROVE  /\ log[k].id <= written'
               /\ \A i \in 1..Len(inbox'[log[k].from]) :
                    inbox'[log[k].from][i].kind # "credentials" => log[k].id < inbox'[log[k].from][i].id
    <3>1. log[k].id <= written /\ Later(log[k].from, log[k].id)
      BY <1>0 DEF LogBeforeInbox
    <3>2. log[k].from \in Sessions /\ log[k].id \in Nat
      BY <1>a
    <3>3. log[k].id <= written'
      BY <1>0, <1>1, <3>1, <3>2
    <3> QED
      BY <1>1, <3>1, <3>2, <3>3
  <2>3. LogBeforeInbox'
    BY <1>1, <2>2 DEF LogBeforeInbox, Later
  <2>4. ASSUME NEW v \in Workers, pc[v] = "broadcast"
        PROVE  /\ message[v].id <= written'
               /\ \A i \in 1..Len(inbox'[session[v]]) :
                    inbox'[session[v]][i].kind # "credentials" => message[v].id < inbox'[session[v]][i].id
    <3>1. message[v].id <= written /\ Later(session[v], message[v].id) /\ session[v] \in Sessions
      BY <1>0, <2>4 DEF HandInBetween, Between
    <3> QED
      BY <1>0, <1>1, <1>c, <2>4, <3>1
  <2>5. ASSUME NEW v \in Workers, pc[v] = "broadcast", message'[v] = message[v], session'[v] = session[v]
        PROVE  Between(v)'
    BY <1>0, <1>1, <2>4, <2>5 DEF HandInBetween, Between, Later
  <2> QED
    BY <1>1, <2>1, <2>3, <2>5
(* In particular when the inboxes only lose chunks. *)
<1>2. ASSUME InboxesShrink, UNCHANGED <<written, log>>
      PROVE  /\ InboxInOrder' /\ LogBeforeInbox' /\ SenderOrder'
             /\ \A v \in Workers : pc[v] = "broadcast" /\ message'[v] = message[v]
                                   /\ session'[v] = session[v] => Between(v)'
  <2>1. ASSUME NEW c \in Sessions, NEW i \in 1..Len(inbox'[c])
        PROVE  /\ inbox'[c][i].from = c /\ inbox'[c][i].id <= written
               /\ \A j \in 1..Len(inbox'[c]) : i < j => inbox'[c][i].id < inbox'[c][j].id
    <3>1. PICK n \in 0..Len(inbox[c]) :
            /\ Len(inbox'[c]) = Len(inbox[c]) - n
            /\ \A k \in 1..Len(inbox'[c]) : inbox'[c][k] = inbox[c][k + n]
      BY <1>2 DEF InboxesShrink
    <3>2. \A k \in 1..Len(inbox'[c]) : k + n \in 1..Len(inbox[c])
      BY <1>0, <3>1
    <3>3. inbox'[c][i].from = c /\ inbox'[c][i].id <= written
      <4>1. i + n \in 1..Len(inbox[c]) /\ inbox'[c][i] = inbox[c][i + n]
        BY <3>1, <3>2
      <4>2. \A k \in 1..Len(inbox[c]) : inbox[c][k].from = c /\ inbox[c][k].id <= written
        BY <1>0 DEF InboxInOrder
      <4> QED
        BY <4>1, <4>2
    <3>4. ASSUME NEW j \in 1..Len(inbox'[c]), i < j PROVE inbox'[c][i].id < inbox'[c][j].id
      <4>1. i + n < j + n /\ i + n \in 1..Len(inbox[c]) /\ j + n \in 1..Len(inbox[c])
        BY <3>2, <3>4
      <4>2. inbox[c][i + n].id < inbox[c][j + n].id
        BY <1>0, <4>1 DEF InboxInOrder
      <4> QED
        BY <3>1, <4>2
    <3> QED
      BY <3>3, <3>4
  <2>2. InboxInOrder'
    BY <1>2, <2>1 DEF InboxInOrder
  <2>3. ASSUME NEW d \in Sessions, NEW id \in Nat, Later(d, id)
        PROVE  \A i \in 1..Len(inbox'[d]) : inbox'[d][i].kind # "credentials" => id < inbox'[d][i].id
    BY <1>0, <1>2, <2>3, LaterShrinks DEF Later
  <2>4. UNCHANGED log /\ written' \in Nat /\ written <= written'
    BY <1>0, <1>2
  <2> QED
    BY <1>1, <2>2, <2>3, <2>4
<1>3. ASSUME InboxesShrink, UNCHANGED <<written, log>>,
             \A v \in Workers : pc'[v] = "broadcast" =>
               pc[v] = "broadcast" /\ message'[v] = message[v] /\ session'[v] = session[v]
      PROVE  Order'
  BY <1>2, <1>3 DEF HandInBetween
<1>d. ASSUME UNCHANGED inbox PROVE InboxesShrink
  BY <1>0, <1>d, KeptOrEmptiedShrinks
<1>4. CASE UNCHANGED vars
  BY <1>3, <1>4, <1>d DEF vars
<1>5. ASSUME NEW c \in Sessions, ClientStep(c) PROVE Order'
  <2>0. UNCHANGED <<log, pc, message, session>> /\ Len(inbox[c]) \in Nat
    BY <1>0, <1>5 DEF ClientStep, Connect, Write, Leave
  <2>1. CASE Connect(c)
    <3>1. inbox' = [inbox EXCEPT ![c] = <<Credentials(c)>>] /\ written' = written
      BY <2>1 DEF Connect
    <3>2. /\ Len(inbox'[c]) = 1 /\ inbox'[c][1] = Credentials(c)
          /\ \A d \in Sessions \ {c} : inbox'[d] = inbox[d]
      BY <1>0, <3>1
    <3>3. ASSUME NEW d \in Sessions, NEW id \in Nat, Later(d, id)
          PROVE  \A i \in 1..Len(inbox'[d]) : inbox'[d][i].kind # "credentials" => id < inbox'[d][i].id
      BY <3>2, <3>3 DEF Later, Credentials
    <3>4. ASSUME NEW d \in Sessions, NEW i \in 1..Len(inbox'[d])
          PROVE  /\ inbox'[d][i].from = d /\ inbox'[d][i].id <= written
                 /\ \A j \in 1..Len(inbox'[d]) : i < j => inbox'[d][i].id < inbox'[d][j].id
      <4>1. CASE d = c
        <5>1. Credentials(c).from = c /\ Credentials(c).id = 0
          BY DEF Credentials
        <5>2. \A j \in 1..Len(inbox'[d]) : j = 1
          <6>1. Len(inbox'[d]) = 1
            BY <3>2, <4>1
          <6> QED
            BY ONLY <6>1
        <5>3. inbox'[d][i] = Credentials(c) /\ \A j \in 1..Len(inbox'[d]) : ~(i < j)
          BY <3>2, <4>1, <5>2
        <5> QED
          BY <1>0, <4>1, <5>1, <5>2, <5>3
      <4>2. CASE d # c
        BY <1>0, <3>2, <4>2 DEF InboxInOrder
      <4> QED
        BY <4>1, <4>2
    <3>5. InboxInOrder'
      BY <3>1, <3>4 DEF InboxInOrder
    <3> QED
      BY <1>0, <1>1, <2>0, <3>1, <3>3, <3>5 DEF HandInBetween
  <2>2. CASE Write(c)
    <3>1. PICK m \in [kind : {"chat", "request"}, from : {c}, id : {written + 1}] :
            inbox' = [inbox EXCEPT ![c] = Append(@, m)] /\ written' = written + 1
      BY <2>2 DEF Write
    <3>2. /\ Len(inbox'[c]) = Len(inbox[c]) + 1 /\ inbox'[c][Len(inbox[c]) + 1] = m
          /\ \A i \in 1..Len(inbox[c]) : inbox'[c][i] = inbox[c][i]
          /\ \A d \in Sessions \ {c} : inbox'[d] = inbox[d]
      BY <1>0, <3>1
    <3>3. m.from = c /\ m.id = written + 1 /\ written \in Nat
      BY <1>0
    <3>4. ASSUME NEW d \in Sessions, NEW id \in Nat, id <= written, Later(d, id),
                 NEW i \in 1..Len(inbox'[d]), inbox'[d][i].kind # "credentials"
          PROVE  id < inbox'[d][i].id
      <4>1. CASE d = c /\ i = Len(inbox[c]) + 1
        BY <3>2, <3>3, <3>4, <4>1
      <4>2. CASE ~(d = c /\ i = Len(inbox[c]) + 1)
        <5>1. i \in 1..Len(inbox[d]) /\ inbox'[d][i] = inbox[d][i]
          BY <2>0, <3>2, <4>2
        <5> QED
          BY <3>4, <5>1 DEF Later
      <4> QED
        BY <4>1, <4>2
    <3>5. ASSUME NEW d \in Sessions, NEW i \in 1..Len(inbox'[d])
          PROVE  /\ inbox'[d][i].from = d /\ inbox'[d][i].id <= written'
                 /\ \A j \in 1..Len(inbox'[d]) : i < j => inbox'[d][i].id < inbox'[d][j].id
      <4>1. CASE d # c
        <5>1. inbox'[d] = inbox[d]
          BY <3>2, <4>1
        <5> QED
          BY <1>0, <1>b, <3>1, <3>3, <5>1 DEF InboxInOrder
      <4>2. CASE d = c
        <5>1. \A k \in 1..Len(inbox[c]) :
                /\ inbox[c][k].from = c /\ inbox[c][k].id <= written
                /\ \A j \in 1..Len(inbox[c]) : k < j => inbox[c][k].id < inbox[c][j].id
          BY <1>0 DEF InboxInOrder
        <5>2. CASE i = Len(inbox[c]) + 1
          BY <2>0, <3>1, <3>2, <3>3, <4>2, <5>2
        <5>3. CASE i \in 1..Len(inbox[c])
          BY <1>b, <2>0, <3>1, <3>2, <3>3, <4>2, <5>1, <5>3
        <5> QED
          BY <2>0, <3>2, <4>2, <5>2, <5>3
      <4> QED
        BY <4>1, <4>2
    <3>6. InboxInOrder'
      BY <3>5 DEF InboxInOrder
    <3>7. written' \in Nat /\ written <= written'
      BY <3>1, <3>3
    <3> QED
      BY <1>0, <1>1, <2>0, <3>4, <3>6, <3>7 DEF HandInBetween
  <2>3. CASE Leave(c)
    <3>1. PICK unread \in {inbox[c], << >>} :
            inbox' = [inbox EXCEPT ![c] = unread] /\ written' = written
      BY <2>3 DEF Leave
    <3>2. ASSUME NEW d \in Sessions PROVE inbox'[d] = inbox[d] \/ inbox'[d] = << >>
      BY <1>0, <3>1
    <3> QED
      BY <1>0, <1>3, <2>0, <3>1, <3>2, KeptOrEmptiedShrinks
  <2> QED
    BY <1>5, <2>1, <2>2, <2>3 DEF ClientStep
<1>6. ASSUME NEW w \in Workers, NEW c \in Sessions, StartHandler(w, c) PROVE Order'
  <2>1. CASE Accept(w, c) \/ CredentialsError(w, c)
    BY <1>3, <1>d, <2>1 DEF Accept, CredentialsError
  <2>2. CASE ReadError(w, c)
    BY <1>0, <1>3, <1>d, <2>2 DEF ReadError, Dispatch, Goto
  <2>3. CASE ReadCredentials(w, c) \/ ReadRequest(w, c)
    <3>1. InboxesShrink
      BY <1>0, <2>3, ReadSomeShrinks DEF ReadCredentials, ReadRequest, ReadSome
    <3> QED
      BY <1>0, <1>3, <2>3, <3>1 DEF ReadCredentials, ReadRequest, Dispatch, Goto
  <2>4. CASE ReadChat(w, c)
    <3>1. /\ pc[w] = "idle" /\ session' = [session EXCEPT ![w] = c]
          /\ pc' = [pc EXCEPT ![w] = "broadcast"] /\ UNCHANGED <<log, written>>
      BY <2>4 DEF ReadChat, Dispatch, Goto
    <3>2. PICK n \in 1..Len(inbox[c]) : inbox' = [inbox EXCEPT ![c] = SubSeq(@, n + 1, Len(@))]
      BY <2>4 DEF ReadChat, ReadSome
    <3>3. PICK m \in Chunks : m = inbox[c][1] /\ m.kind = "chat" /\ message' = [message EXCEPT ![w] = m]
      <4>1. Head(inbox[c]) = inbox[c][1] /\ inbox[c][1] \in Chunks
        BY <1>0, <3>2
      <4> QED
        BY <2>4, <4>1 DEF ReadChat
    <3>4. /\ InboxesShrink /\ Len(inbox'[c]) = Len(inbox[c]) - n
          /\ \A i \in 1..Len(inbox'[c]) : inbox'[c][i] = inbox[c][i + n]
      BY <1>0, <3>2, ReadSomeShrinks
    <3>5. m.from = c /\ m.id \in Nat /\ m.id <= written /\ 1 \in 1..Len(inbox[c])
      BY <1>0, <1>b, <3>2, <3>3 DEF InboxInOrder
    <3>6. /\ InboxInOrder' /\ LogBeforeInbox' /\ SenderOrder'
          /\ \A v \in Workers \ {w} : pc'[v] = "broadcast" => Between(v)'
      BY <1>0, <1>2, <3>1, <3>3, <3>4
    <3>7. \A i \in 1..Len(inbox'[c]) : m.id < inbox'[c][i].id
      <4>1. ASSUME NEW i \in 1..Len(inbox'[c])
            PROVE  i + n \in 1..Len(inbox[c]) /\ 1 < i + n
        BY <1>0, <3>2, <3>4
      <4> QED
        BY <1>0, <3>3, <3>4, <3>5, <4>1 DEF InboxInOrder
    <3>8. \A k \in 1..Len(log) : log[k].from = c => log[k].id < m.id
      BY <1>0, <3>3, <3>5 DEF LogBeforeInbox, Later
    <3>9. Between(w)'
      BY <1>0, <3>1, <3>3, <3>5, <3>7, <3>8 DEF Between, Later
    <3> QED
      BY <3>6, <3>9 DEF HandInBetween
  <2> QED
    BY <1>6, <2>1, <2>2, <2>3, <2>4 DEF StartHandler
<1>7. ASSUME NEW w \in Workers, Enter(w) \/ Proceed(w) PROVE Order'
  <2>1. CASE \/ Authenticated(w) \/ AddToEmptyHistory(w) \/ BeginReplay(w) \/ ReplayOne(w) \/ EndReplay(w)
             \/ StartSession(w) \/ ReadNext(w) \/ Remove(w)
             \/ SendOne(w) \/ EndBroadcast(w) \/ GetUsernames(w) \/ SendMessageToClient(w)
    <3>1. UNCHANGED <<inbox, written, log>>
      BY <2>1 DEF Authenticated, AddToEmptyHistory, BeginReplay, ReplayOne, EndReplay, StartSession,
           ReadNext, Remove, SendOne, EndBroadcast, GetUsernames, SendMessageToClient, At, RemoveClient,
           AddClientNoHistory, AddClientBegin, AddClientReplay, AddClientEnd, BroadcastSend, BroadcastEnd
    <3>2. \A v \in Workers : pc'[v] = "broadcast" =>
            pc[v] = "broadcast" /\ message'[v] = message[v] /\ session'[v] = session[v]
      BY <1>0, <2>1 DEF Authenticated, AddToEmptyHistory, BeginReplay, ReplayOne, EndReplay, StartSession,
           ReadNext, Remove, SendOne, EndBroadcast, GetUsernames, SendMessageToClient, At, Return, Goto
    <3> QED
      BY <1>3, <1>d, <3>1, <3>2
  <2>2. CASE Rejected(w)
    <3>1. pc[w] = "authenticate" /\ session[w] \in Sessions /\ UNCHANGED <<written, log>>
          /\ inbox' = [inbox EXCEPT ![session[w]] = << >>] /\ Return(w, "over")
      BY <1>0, <2>2 DEF Rejected
    <3>2. InboxesShrink
      BY <1>0, <3>1, KeptOrEmptiedShrinks
    <3>3. \A v \in Workers : pc'[v] = "broadcast" =>
            pc[v] = "broadcast" /\ message'[v] = message[v] /\ session'[v] = session[v]
      BY <1>0, <3>1 DEF Return, Goto
    <3> QED
      BY <1>3, <3>1, <3>2, <3>3
  <2>3. CASE BeginBroadcast(w)
    <3>1. /\ pc[w] = "broadcast" /\ message[w] \in ChatMessages /\ session[w] \in Sessions
          /\ log' = Append(log, message[w]) /\ pc' = [pc EXCEPT ![w] = "sending"]
          /\ UNCHANGED <<inbox, written, message, session>>
      BY <1>0, <2>3 DEF BeginBroadcast, BroadcastBegin, At, Goto
    <3>2. /\ Len(log') = Len(log) + 1 /\ log'[Len(log) + 1] = message[w] /\ Len(log) \in Nat
          /\ \A k \in 1..Len(log) : log'[k] = log[k]
      BY <1>0, <3>1
    <3>3. Between(w) /\ message[w].id \in Nat
      BY <1>0, <1>c, <3>1 DEF HandInBetween
    <3>4. InboxInOrder'
      BY <1>0, <3>1 DEF InboxInOrder
    <3>5. LogBeforeInbox'
      BY <1>0, <3>1, <3>2, <3>3 DEF LogBeforeInbox, Between, Later
    <3>6. SenderOrder'
      BY <1>0, <3>1, <3>2, <3>3 DEF SenderOrder, Between
    <3>7. ASSUME NEW v \in Workers, pc'[v] = "broadcast" PROVE Between(v)'
      <4>1. v # w /\ pc[v] = "broadcast" /\ session[v] # session[w] /\ Between(v)
        BY <1>0, <3>1, <3>7 DEF IInv, OneReaderPerSession, HandInBetween
      <4>2. \A k \in 1..Len(log') : log'[k].from = session[v] => log'[k].id < message[v].id
        BY <3>2, <3>3, <4>1 DEF Between
      <4> QED
        BY <3>1, <4>1, <4>2 DEF Between, Later
    <3> QED
      BY <3>4, <3>5, <3>6, <3>7 DEF HandInBetween
  <2> QED
    BY <1>7, <2>1, <2>2, <2>3 DEF Enter, Proceed
<1> QED
  BY <1>4, <1>5, <1>6, <1>7 DEF Next, AllOver

----------------------------------------------------------------------------
(* The server starts with nobody connected and nothing said. *)
LEMMA InitInv == Init => IInv
<1> SUFFICES ASSUME Init PROVE IInv
  OBVIOUS
<1> USE DEF Init, ManagerInit
<1>1. TypeOK
  BY MaxWritesAssumption DEF TypeOK, Stages, Labels
<1>2. Len(log) = 0 /\ Len(m_chatHistory) = 0 /\ \A c \in Sessions : Len(sent[c]) = 0 /\ Len(inbox[c]) = 0
  OBVIOUS
<1>3. LoopsHoldMutex /\ OneReaderPerSession /\ WorkerOwnsSession /\ HandledByWorker
  BY NoWorkerAssumption DEF LoopsHoldMutex, OneReaderPerSession, WorkerOwnsSession, HandledByWorker
<1>4. Membership /\ Strangers /\ Loops
  BY DEF Membership, NotYetRegistered, Strangers, Loops
<1>5. HistoryIsLatest /\ ContiguousDelivery /\ Accounted
  BY <1>2, HistorySizeAssumption DEF HistoryIsLatest, ContiguousDelivery, Accounted
<1>6. InboxInOrder /\ LogBeforeInbox /\ HandInBetween /\ SenderOrder
  BY <1>2 DEF InboxInOrder, LogBeforeInbox, HandInBetween, SenderOrder
<1>7. ListNamesRequester /\ OneAnswerPerRequest
  BY DEF ListNamesRequester, OneAnswerPerRequest, Asking
<1> QED
  BY <1>1, <1>3, <1>4, <1>5, <1>6, <1>7 DEF IInv

(* Every step preserves the invariant. *)
LEMMA InvStep == IInv /\ [Next]_vars => IInv'
BY TypeStep, OwnerStep, MutexStep, MembershipStep, StrangersStep, LoopsStep, AnswerStep,
   HistoryStep, DeliveryStep, OrderStep DEF IInv

(* The inductive invariant holds in every state of every behaviour. *)
THEOREM Invariance == Spec => []IInv
<1>1. Init => IInv
  BY InitInv
<1>2. IInv /\ [Next]_vars => IInv'
  BY InvStep
<1> QED
  BY <1>1, <1>2, PTL DEF Spec


----------------------------------------------------------------------------
(* What the inductive invariant implies. *)

(* Registered sessions are authenticated and have a reader or a handler. *)
LEMMA InvServed == IInv => RegisteredIffServed
<1> SUFFICES ASSUME IInv, NEW c \in Sessions
             PROVE  /\ stage[c] = "reading" => c \in m_clients
                    /\ c \in m_clients =>
                         /\ m_authenticated[c]
                         /\ stage[c] = "reading" \/ \E w \in Workers : session[w] = c
  BY DEF RegisteredIffServed
<1>1. stage[c] \in Stages
  BY DEF IInv, TypeOK
<1>2. stage[c] = "reading" => c \in m_clients
  BY DEF IInv, Membership
<1>3. c \in m_clients => m_authenticated[c] /\ stage[c] \in {"handling", "reading"}
  BY <1>1 DEF IInv, Membership, NotYetRegistered, Stages
<1>4. stage[c] = "handling" => \E w \in Workers : session[w] = c
  BY DEF IInv, HandledByWorker
<1> QED
  BY <1>2, <1>3, <1>4

(* With the mutex free no session is owed anything. *)
LEMMA InvNobody == IInv => NobodyBehind
<1> SUFFICES ASSUME IInv, MutexFree, NEW c \in m_clients PROVE base[c] + Len(sent[c]) = Len(log)
  BY DEF NobodyBehind
<1>1. Owed(c) = 0
  BY DEF MutexFree, Owed
<1>2. base[c] \in Nat /\ Len(sent[c]) \in Nat
  BY DEF IInv, TypeOK
<1> QED
  BY <1>1, <1>2 DEF IInv, Accounted

(* The requester stays registered between the two critical sections. *)
LEMMA InvRequester == IInv => RequesterInOwnList
<1> SUFFICES ASSUME IInv, NEW w \in Workers, pc[w] = "reply"
             PROVE  session[w] \in usernames[w] /\ session[w] \in Reachable
  BY DEF RequesterInOwnList
<1> QED
  BY DEF IInv, ListNamesRequester, Membership, Reachable

----------------------------------------------------------------------------
(* A session that is over is nobody's business any more. *)
LEMMA OverStep ==
  IInv /\ [Next]_vars =>
    \A c \in Sessions : stage[c] = "over" => /\ sent'[c] = sent[c]
                                             /\ answered'[c] = answered[c]
                                             /\ c \notin m_clients'
<1> SUFFICES ASSUME IInv, [Next]_vars, NEW c \in Sessions, stage[c] = "over"
             PROVE  sent'[c] = sent[c] /\ answered'[c] = answered[c] /\ c \notin m_clients'
  OBVIOUS
<1> USE DEF managerVars, countVars
<1>0. /\ c \notin m_clients /\ m_clients \subseteq Sessions
      /\ \A w \in Workers : pc[w] # "idle" => session[w] # c /\ session[w] \in Sessions
      /\ \A w \in Workers : pc[w] = "sending" => recipients[w] \subseteq m_clients
      /\ sent \in [Sessions -> Seq(ChatMessages)] /\ answered \in [Sessions -> Nat]
  BY DEF IInv, TypeOK, Membership, WorkerOwnsSession, Loops
<1>1. CASE UNCHANGED vars
  BY <1>0, <1>1 DEF vars
<1>2. ASSUME NEW d \in Sessions, ClientStep(d)
      PROVE  sent'[c] = sent[c] /\ answered'[c] = answered[c] /\ c \notin m_clients'
  BY <1>0, <1>2 DEF ClientStep, Connect, Write, Leave
<1>3. ASSUME NEW w \in Workers, NEW d \in Sessions, StartHandler(w, d)
      PROVE  sent'[c] = sent[c] /\ answered'[c] = answered[c] /\ c \notin m_clients'
  BY <1>0, <1>3 DEF StartHandler, Accept, ReadCredentials, CredentialsError, ReadError, ReadChat, ReadRequest
<1>4. ASSUME NEW w \in Workers, Enter(w) \/ Proceed(w)
      PROVE  sent'[c] = sent[c] /\ answered'[c] = answered[c] /\ c \notin m_clients'
  <2>1. CASE SendOne(w)
    BY <1>0, <2>1 DEF SendOne, BroadcastSend, SendMessage, At
  <2>2. CASE ReplayOne(w)
    BY <1>0, <2>2 DEF ReplayOne, AddClientReplay, SendMessage, At
  <2>3. CASE AddToEmptyHistory(w) \/ BeginReplay(w) \/ Remove(w) \/ SendMessageToClient(w)
    BY <1>0, <2>3 DEF AddToEmptyHistory, BeginReplay, Remove, SendMessageToClient, AddClientNoHistory,
                      AddClientBegin, RemoveClient, At
  <2>4. CASE \/ Authenticated(w) \/ Rejected(w) \/ EndReplay(w) \/ StartSession(w) \/ ReadNext(w)
             \/ BeginBroadcast(w) \/ EndBroadcast(w) \/ GetUsernames(w)
    BY <1>0, <2>4 DEF Authenticated, Rejected, EndReplay, StartSession, ReadNext, BeginBroadcast,
                      EndBroadcast, GetUsernames, AddClientEnd, BroadcastBegin, BroadcastEnd
  <2> QED
    BY <1>4, <2>1, <2>2, <2>3, <2>4 DEF Enter, Proceed
<1> QED
  BY <1>1, <1>2, <1>3, <1>4 DEF Next, AllOver

----------------------------------------------------------------------------
(* Whoever runs a loop holds the mutex: the others cannot enter, and what  *)
(* they do without it touches neither the registry nor the history.        *)
LEMMA LoopStep ==
  IInv /\ [Next]_vars =>
    \A w \in Workers : pc[w] \in {"replay", "sending"} /\ pc'[w] = pc[w] => Undisturbed(w)
<1> SUFFICES ASSUME IInv, [Next]_vars, NEW w \in Workers, pc[w] \in {"replay", "sending"}, pc'[w] = pc[w]
             PROVE  Undisturbed(w)
  OBVIOUS
<1> USE DEF managerVars, countVars
<1>0. /\ m_clientsMutex = w /\ ~MutexFree
      /\ \A v \in Workers : pc[v] \in {"replay", "sending"} => v = w
      /\ session[w] \in m_clients
      /\ \A v \in Workers : pc[v] = "authenticate" => session[v] \notin m_clients
      /\ pc[w] = "sending" => recipients[w] \subseteq m_clients
      /\ m_clients \subseteq Sessions /\ pc \in [Workers -> Labels]
      /\ m_authenticated \in [Sessions -> BOOLEAN] /\ \A c \in m_clients : m_authenticated[c]
  <2>1. m_clientsMutex = w /\ ~MutexFree /\ \A v \in Workers : pc[v] \in {"replay", "sending"} => v = w
    BY NoWorkerAssumption DEF IInv, LoopsHoldMutex, MutexFree
  <2>2. /\ session[w] \in m_clients /\ \A c \in m_clients : m_authenticated[c]
        /\ \A v \in Workers : pc[v] = "authenticate" => session[v] \notin m_clients
    BY DEF IInv, Membership, NotYetRegistered
  <2>3. pc[w] = "sending" => recipients[w] \subseteq m_clients
    BY DEF IInv, Loops
  <2>4. /\ m_clients \subseteq Sessions /\ pc \in [Workers -> Labels]
        /\ m_authenticated \in [Sessions -> BOOLEAN]
    BY DEF IInv, TypeOK
  <2> QED
    BY <2>1, <2>2, <2>3, <2>4
<1>1. CASE UNCHANGED <<managerVars, answered>>
  BY <1>1 DEF Undisturbed
<1>2. ASSUME NEW v \in Workers, Authenticated(v) PROVE Undisturbed(w)
  BY <1>0, <1>2 DEF Authenticated, At, Undisturbed
<1>3. ASSUME NEW v \in Workers, ReplayOne(v) PROVE Undisturbed(w)
  <2>1. v = w /\ pc[w] = "replay"
    BY <1>0, <1>3 DEF ReplayOne, At
  <2> QED
    BY <1>0, <1>3, <2>1 DEF ReplayOne, AddClientReplay, SendMessage, Undisturbed
<1>4. ASSUME NEW v \in Workers, SendOne(v) PROVE Undisturbed(w)
  <2>1. v = w /\ pc[w] = "sending"
    BY <1>0, <1>4 DEF SendOne, At
  <2>2. PICK c \in recipients[w] :
          /\ SendMessage(c, message[w])
          /\ UNCHANGED <<m_authenticated, m_clients, m_chatHistory, log, base, answered>>
    BY <1>4, <2>1 DEF SendOne, BroadcastSend
  <2>3. c \in m_clients /\ sent' = [sent EXCEPT ![c] = Append(@, message[w])]
    BY <1>0, <2>1, <2>2 DEF SendMessage
  <2> QED
    BY <2>1, <2>2, <2>3 DEF Undisturbed
<1>5. \A v \in Workers : ~EndReplay(v) /\ ~EndBroadcast(v)
  BY <1>0 DEF EndReplay, EndBroadcast, At, Goto
<1>6. \A v \in Workers : ~Enter(v)
  BY <1>0 DEF Enter, AddToEmptyHistory, BeginReplay, Remove, BeginBroadcast, GetUsernames,
              SendMessageToClient, AddClientNoHistory, AddClientBegin, RemoveClient, BroadcastBegin, Lock
<1>7. \A v \in Workers : Rejected(v) \/ StartSession(v) \/ ReadNext(v) => UNCHANGED <<managerVars, answered>>
  BY DEF Rejected, StartSession, ReadNext
<1>8. \A c \in Sessions : ClientStep(c) => UNCHANGED <<managerVars, answered>>
  BY DEF ClientStep, Connect, Write, Leave
<1>9. \A v \in Workers, c \in Sessions : StartHandler(v, c) => UNCHANGED <<managerVars, answered>>
  BY DEF StartHandler, Accept, ReadCredentials, CredentialsError, ReadError, ReadChat, ReadRequest
<1>10. CASE UNCHANGED vars
  BY <1>1, <1>10 DEF vars
<1> QED
  BY <1>1, <1>2, <1>3, <1>4, <1>5, <1>6, <1>7, <1>8, <1>9, <1>10 DEF Next, Proceed, AllOver

----------------------------------------------------------------------------
(* Every step of the server is a step of the chat room or a stutter there. *)
LEMMA RoomInit == Init => Room!Init
BY DEF Init, ManagerInit, Room!Init, Place

LEMMA RoomStep == IInv /\ IInv' /\ [Next]_vars => [Room!Next]_(Room!roomVars)
<1> SUFFICES ASSUME IInv, IInv', [Next]_vars PROVE [Room!Next]_(Room!roomVars)
  OBVIOUS
<1> USE DEF managerVars, Room!roomVars
<1>0. /\ m_clients \subseteq Sessions /\ stage \in [Sessions -> Stages]
      /\ m_authenticated \in [Sessions -> BOOLEAN]
      /\ \A w \in Workers : pc[w] # "idle" => session[w] \in Sessions /\ stage[session[w]] = "handling"
      /\ \A w \in Workers : pc[w] \in {"authenticate", "addClient"} => session[w] \notin m_clients
      /\ \A w \in Workers : pc[w] \notin {"idle", "authenticate", "addClient"} =>
           session[w] \in m_clients
      /\ \A c \in m_clients : m_authenticated[c]
      /\ sent \in [Sessions -> Seq(ChatMessages)] /\ log \in Seq(ChatMessages) /\ base \in [Sessions -> Nat]
      /\ \A w \in Workers : pc[w] = "authenticate" => ~m_authenticated[session[w]]
  BY DEF IInv, TypeOK, Membership, NotYetRegistered, Strangers, WorkerOwnsSession
<1>1. ASSUME UNCHANGED <<m_clients, log, base, sent>>,
             \A c \in Sessions : (stage'[c] = "over" /\ m_authenticated'[c]) <=> (stage[c] = "over" /\ m_authenticated[c])
      PROVE  UNCHANGED Room!roomVars
  BY <1>1 DEF Place
<1>2. CASE UNCHANGED vars
  BY <1>1, <1>2 DEF vars
<1>3. ASSUME NEW c \in Sessions, ClientStep(c) PROVE UNCHANGED Room!roomVars
  BY <1>1, <1>3 DEF ClientStep, Connect, Write, Leave
<1>4. ASSUME NEW w \in Workers, NEW c \in Sessions, StartHandler(w, c) PROVE UNCHANGED Room!roomVars
  <2>1. CASE Accept(w, c)
    BY <1>0, <1>1, <2>1 DEF Accept
  <2>2. CASE CredentialsError(w, c)
    <3>1. ~m_authenticated[c]
      BY <2>2 DEF CredentialsError, IInv, Strangers
    <3> QED
      BY <1>0, <1>1, <2>2, <3>1 DEF CredentialsError
  <2>3. CASE ReadCredentials(w, c) \/ ReadError(w, c) \/ ReadChat(w, c) \/ ReadRequest(w, c)
    BY <1>0, <1>1, <2>3 DEF ReadCredentials, ReadError, ReadChat, ReadRequest, Dispatch
  <2> QED
    BY <1>4, <2>1, <2>2, <2>3 DEF StartHandler
<1>5. ASSUME NEW w \in Workers, Enter(w) \/ Proceed(w) PROVE [Room!Next]_(Room!roomVars)
  <2>1. CASE AddToEmptyHistory(w) \/ BeginReplay(w)
    <3>1. /\ pc[w] = "addClient" /\ m_clients' = m_clients \cup {session[w]}
          /\ base' = [base EXCEPT ![session[w]] = Len(log) - Len(m_chatHistory)]
          /\ UNCHANGED <<log, sent, stage, m_authenticated>>
      <4>1. m_chatHistory = << >> => Len(log) - Len(m_chatHistory) = Len(log)
        BY <1>0
      <4> QED
        BY <2>1, <4>1 DEF AddToEmptyHistory, BeginReplay, AddClientNoHistory, AddClientBegin, At
    <3>2. session[w] \in Sessions /\ session[w] \notin m_clients /\ stage[session[w]] = "handling"
      BY <1>0, <3>1
    <3>3. Len(log) - Len(m_chatHistory) = IF Len(log) > MAX_HISTORY_SIZE THEN Len(log) - MAX_HISTORY_SIZE ELSE 0
      BY <1>0, HistorySizeAssumption DEF IInv, HistoryIsLatest
    <3>4. Place[session[w]] = "outside" /\ Place' = [Place EXCEPT ![session[w]] = "inside"]
      BY <3>1, <3>2 DEF Place
    <3>5. Room!Enter(session[w])
      BY <3>1, <3>3, <3>4 DEF Room!Enter
    <3> QED
      BY <3>2, <3>5 DEF Room!Next
  <2>2. CASE BeginBroadcast(w)
    <3>1. /\ pc[w] = "broadcast" /\ log' = Append(log, message[w])
          /\ UNCHANGED <<m_clients, m_authenticated, stage, base, sent>>
      BY <2>2 DEF BeginBroadcast, BroadcastBegin, At
    <3>2. session[w] \in Sessions /\ session[w] \in m_clients /\ message[w] \in ChatMessages
      BY <1>0, <3>1 DEF IInv, Loops
    <3>3. Between(w) /\ message[w].id \in Nat
      BY <3>1, <3>2, ChunkTypes DEF IInv, HandInBetween
    <3>4. \A i \in 1..Len(log) : log[i] # message[w]
      BY <3>3 DEF Between
    <3>5. Place' = Place /\ Place[session[w]] = "inside" /\ DOMAIN log = 1..Len(log)
      BY <1>0, <3>1, <3>2 DEF Place
    <3>6. Room!Post(session[w], message[w])
      BY <3>1, <3>4, <3>5 DEF Room!Post, Room!Inside
    <3> QED
      BY <3>2, <3>6 DEF Room!Next
  <2>3. CASE ReplayOne(w) \/ SendOne(w)
    <3>1. UNCHANGED <<m_clients, m_authenticated, stage, base, log>>
      BY <2>3 DEF ReplayOne, SendOne, AddClientReplay, BroadcastSend
    <3>2. PICK c \in Sessions :
            /\ c \in m_clients /\ base[c] + Len(sent[c]) < Len(log)
            /\ sent' = [sent EXCEPT ![c] = Append(@, log[base[c] + Len(sent[c]) + 1])]
      BY <2>3, ReplaySendsNext, BroadcastSendsNext
    <3>3. Place' = Place /\ Place[c] = "inside"
      BY <3>1, <3>2 DEF Place
    <3>4. base[c] + Len(sent[c]) # Len(log)
      BY <1>0, <3>2
    <3>5. Room!Give(c)
      BY <3>1, <3>2, <3>3, <3>4 DEF Room!Give, Room!Inside, Room!UpToDate
    <3> QED
      BY <3>5 DEF Room!Next
  <2>4. CASE Remove(w)
    <3>1. /\ pc[w] = "removeClient" /\ MutexFree /\ m_clients' = m_clients \ {session[w]}
          /\ stage' = [stage EXCEPT ![session[w]] = "over"]
          /\ UNCHANGED <<m_authenticated, base, log, sent>>
      BY <2>4 DEF Remove, RemoveClient, Return, At
    <3>2. session[w] \in Sessions /\ session[w] \in m_clients /\ m_authenticated[session[w]]
      BY <1>0, <3>1
    <3>3. Place[session[w]] = "inside" /\ Place' = [Place EXCEPT ![session[w]] = "gone"]
      BY <1>0, <3>1, <3>2 DEF Place
    <3>4. base[session[w]] + Len(sent[session[w]]) = Len(log)
      BY <3>1, <3>2, InvNobody DEF NobodyBehind
    <3>5. Room!LetGo(session[w])
      BY <3>1, <3>3, <3>4 DEF Room!LetGo, Room!Inside, Room!UpToDate
    <3> QED
      BY <3>2, <3>5 DEF Room!Next
  <2>5. CASE Authenticated(w) \/ Rejected(w) \/ StartSession(w) \/ ReadNext(w)
    <3>1. UNCHANGED <<m_clients, log, base, sent>>
      BY <2>5 DEF Authenticated, Rejected, StartSession, ReadNext
    <3>2. /\ pc[w] # "idle" /\ session[w] \in Sessions /\ stage[session[w]] = "handling"
          /\ \A c \in Sessions \ {session[w]} :
               stage'[c] = stage[c] /\ m_authenticated'[c] = m_authenticated[c]
      BY <1>0, <2>5 DEF Authenticated, Rejected, StartSession, ReadNext, Return, At
    <3>3. ~(stage'[session[w]] = "over" /\ m_authenticated'[session[w]])
      BY <1>0, <2>5, <3>2 DEF Authenticated, Rejected, StartSession, ReadNext, Return, At
    <3> QED
      BY <1>1, <3>1, <3>2, <3>3
  <2>6. CASE EndReplay(w) \/ EndBroadcast(w) \/ GetUsernames(w) \/ SendMessageToClient(w)
    BY <1>0, <1>1, <2>6 DEF EndReplay, EndBroadcast, GetUsernames, SendMessageToClient, AddClientEnd, BroadcastEnd
  <2> QED
    BY <1>5, <2>1, <2>2, <2>3, <2>4, <2>5, <2>6 DEF Enter, Proceed
<1> QED
  BY <1>2, <1>3, <1>4, <1>5 DEF Next, AllOver

----------------------------------------------------------------------------
(* Every field keeps its type. *)
THEOREM TypeCorrect == Spec => []TypeOK
<1>1. IInv => TypeOK
  BY DEF IInv
<1> QED
  BY <1>1, Invariance, PTL

(* The loops of addClient and broadcastMessage run one at a time, by the   *)
(* holder of the mutex.                                                    *)
THEOREM MutualExclusion == Spec => []LoopsHoldMutex
<1>1. IInv => LoopsHoldMutex
  BY DEF IInv
<1> QED
  BY <1>1, Invariance, PTL

(* Nothing changes under a loop over the registry or the history.          *)
THEOREM LoopsAreUndisturbed == Spec => LoopsUndisturbed
<1>1. IInv /\ [Next]_vars =>
        [\A w \in Workers : pc[w] \in {"replay", "sending"} /\ pc'[w] = pc[w] => Undisturbed(w)]_vars
  BY LoopStep
<1> QED
  BY <1>1, Invariance, PTL DEF Spec, LoopsUndisturbed

(* The history vector always is the latest part of all broadcasts. *)
THEOREM HistoryCorrect == Spec => []HistoryIsLatest
<1>1. IInv => HistoryIsLatest
  BY DEF IInv
<1> QED
  BY <1>1, Invariance, PTL

(* What a session is sent always is a contiguous piece of the one order of *)
(* broadcasts that starts with its history; and while nobody holds the     *)
(* mutex, every registered session has been sent all of that piece.        *)
THEOREM DeliveryCorrect == Spec => []DeliveryIsExact
<1>1. IInv => DeliveryIsExact
  BY InvNobody DEF IInv, DeliveryIsExact
<1> QED
  BY <1>1, Invariance, PTL

(* The broadcasts of one client are in the order it wrote them, none twice. *)
THEOREM SenderOrderCorrect == Spec => []SenderOrder
<1>1. IInv => SenderOrder
  BY DEF IInv
<1> QED
  BY <1>1, Invariance, PTL

(* No registration is orphaned. *)
THEOREM ServedCorrect == Spec => []RegisteredIffServed
BY InvServed, Invariance, PTL

(* Whoever asks for the user list is in it and gets it, once. *)
THEOREM AnswersCorrect == Spec => []RequesterAnsweredOnce
<1>1. IInv => RequesterAnsweredOnce
  BY InvRequester DEF IInv, RequesterAnsweredOnce
<1> QED
  BY <1>1, Invariance, PTL

(* Nothing is sent to a session after its removal, nor is it registered    *)
(* again.                                                                  *)
THEOREM SilenceCorrect == Spec => SilentAfterRemoval
<1>1. IInv /\ [Next]_vars =>
        [\A c \in Sessions : stage[c] = "over" => /\ sent'[c] = sent[c]
                                                  /\ answered'[c] = answered[c]
                                                  /\ c \notin m_clients']_vars
  BY OverStep
<1> QED
  BY <1>1, Invariance, PTL DEF Spec, SilentAfterRemoval

(* The server implements the chat room, its liveness aside. *)
THEOREM RoomRefinement == Spec => Room!Safety
<1>1. Init => Room!Init
  BY RoomInit
<1>2. IInv /\ IInv' /\ [Next]_vars => [Room!Next]_(Room!roomVars)
  BY RoomStep
<1> QED
  BY <1>1, <1>2, Invariance, PTL DEF Spec, Room!Safety
=============================================================================
