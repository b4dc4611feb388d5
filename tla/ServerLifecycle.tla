--------------------------- MODULE ServerLifecycle ---------------------------
(***************************************************************************)
(* MultithreadedServer from start to destruction: the Qt main thread, the  *)
(* io_context, its worker threads, and the calls by which a worker waits   *)
(* for the main thread to look into the database.                          *)
(*                                                                         *)
(* What ChatServer leaves out is modelled here - start, stop, the          *)
(* destructor, clear, the blocking call, the exception that ends the       *)
(* process - and what it models is coarse: a handler begins in one step    *)
(* and does its work in another, with stop() possibly in between, and the  *)
(* history is its length.                                                  *)
(*                                                                         *)
(* main_multithreaded.cpp starts the server once and lets the destructor   *)
(* stop it; IServer also lets its owner stop it and start it again.        *)
(***************************************************************************)
EXTENDS Integers, Sequences

CONSTANTS
  Workers,           \* the threads of m_threads
  Sessions,          \* connections
  NoSession,         \* what a worker outside a connection's handler handles
  MAX_HISTORY_SIZE,
  MaxStarts          \* bound: how often the owner calls start()

ASSUME LifecycleAssumption ==
  /\ NoSession \notin Sessions
  /\ MAX_HISTORY_SIZE \in Nat \ {0}
  /\ MaxStarts \in Nat

VARIABLES
  main,              \* where the main thread is
  leaving,           \* exec() has returned: the destructor is running
  starts,            \* number of calls of start()
  m_running,
  ioStopped,         \* the io_context has been stopped
  pendingAccepts,    \* async_accepts waiting for a connection
  calls,             \* workers whose BlockingQueuedConnection call is queued
  pc,                \* where each worker is
  session,           \* the connection a worker handles
  peer,              \* the client's end: "absent", "open", "closed"
  stage,             \* per connection, its pending asynchronous operation
  m_clients,         \* registered sessions
  m_chatHistory,     \* length of the history
  crashed            \* std::terminate was called

mainVars == <<main, leaving, starts, m_running, ioStopped>>
managerVars == <<m_clients, m_chatHistory>>
vars == <<mainVars, pendingAccepts, calls, pc, session, peer, stage, managerVars, crashed>>

Init ==
  /\ main = "loop"
  /\ leaving = FALSE
  /\ starts = 0
  /\ m_running = FALSE
  /\ ioStopped = FALSE
  /\ pendingAccepts = 0
  /\ calls = << >>
  /\ pc = [w \in Workers |-> "none"]
  /\ session = [w \in Workers |-> NoSession]
  /\ peer = [c \in Sessions |-> "absent"]
  /\ stage = [c \in Sessions |-> "none"]
  /\ m_clients = {}
  /\ m_chatHistory = 0
  /\ crashed = FALSE

----------------------------------------------------------------------------
(* The main thread.                                                        *)

(* Faulty variant: the stopped io_context is restarted. *)
StartRestarted ==
  /\ main = "loop"
  /\ ~m_running
  /\ starts < MaxStarts
  /\ starts' = starts + 1
  /\ m_running' = TRUE
  /\ ioStopped' = FALSE
  /\ pendingAccepts' = pendingAccepts + 1
  /\ pc' = [w \in Workers |-> "run"]
  /\ UNCHANGED <<main, leaving, calls, session, peer, stage, managerVars, crashed>>

(* start: the io_context is left as stop() left it. *)
Start ==
  /\ main = "loop"
  /\ ~m_running
  /\ starts < MaxStarts
  /\ starts' = starts + 1
  /\ m_running' = TRUE
  /\ pendingAccepts' = pendingAccepts + 1
  /\ pc' = [w \in Workers |-> "run"]
  /\ UNCHANGED <<main, leaving, ioStopped, calls, session, peer, stage, managerVars, crashed>>

(* stop() from outside, or from the destructor once exec() has returned. *)
BeginStop(quit) ==
  /\ main = "loop"
  /\ m_running
  /\ m_running' = FALSE
  /\ main' = "stopping"
  /\ leaving' = quit
  /\ UNCHANGED <<starts, ioStopped, pendingAccepts, calls, pc, session, peer, stage, managerVars, crashed>>

(* Faulty variant: the io_context goes on. *)
StopContextForgotten ==
  /\ main = "stopping"
  /\ main' = "joining"
  /\ UNCHANGED <<leaving, starts, m_running, ioStopped, pendingAccepts, calls, pc, session, peer,
                 stage, managerVars, crashed>>

StopContext ==
  /\ main = "stopping"
  /\ ioStopped' = TRUE
  /\ main' = "joining"
  /\ UNCHANGED <<leaving, starts, m_running, pendingAccepts, calls, pc, session, peer, stage, managerVars, crashed>>

(* ClientManager::clear *)
Clear == m_clients' = {} /\ m_chatHistory' = 0

(* The end of the server object: its io_context drops every handler, and   *)
(* with it every socket.                                                   *)
Destroy ==
  /\ main' = "destroyed"
  /\ pendingAccepts' = 0
  /\ peer' = [c \in Sessions |-> IF peer[c] = "absent" THEN "absent" ELSE "closed"]
  /\ stage' = [c \in Sessions |-> "over"]

(* Faulty variant: workers are not waited for. *)
JoinWithoutWaiting ==
  /\ main = "joining"
  /\ pc' = [w \in Workers |-> IF pc[w] = "over" THEN "none" ELSE pc[w]]
  /\ Clear
  /\ IF leaving THEN Destroy ELSE main' = "loop" /\ UNCHANGED <<pendingAccepts, peer, stage>>
  /\ UNCHANGED <<leaving, starts, m_running, ioStopped, calls, session, crashed>>

(* All threads are joined, then the registry is cleared. *)
Join ==
  /\ main = "joining"
  /\ \A w \in Workers : pc[w] = "over"
  /\ pc' = [w \in Workers |-> "none"]
  /\ Clear
  /\ IF leaving THEN Destroy ELSE main' = "loop" /\ UNCHANGED <<pendingAccepts, peer, stage>>
  /\ UNCHANGED <<leaving, starts, m_running, ioStopped, calls, session, crashed>>

(* The destructor's stop() returns at once. *)
DestroyStopped ==
  /\ main = "loop"
  /\ ~m_running
  /\ leaving' = TRUE
  /\ Destroy
  /\ UNCHANGED <<starts, m_running, ioStopped, calls, pc, session, managerVars, crashed>>

(* Faulty variant: calls queued behind the first are dropped. *)
ServeCallDroppingRest ==
  /\ main = "loop"
  /\ calls # << >>
  /\ calls' = << >>
  /\ \E answer \in {"accept", "refuse"} : pc' = [pc EXCEPT ![Head(calls)] = answer]
  /\ UNCHANGED <<mainVars, pendingAccepts, session, peer, stage, managerVars, crashed>>

(* The event loop runs authenticate_client_impl and releases the worker. *)
ServeCall ==
  /\ main = "loop"
  /\ calls # << >>
  /\ calls' = Tail(calls)
  /\ \E answer \in {"accept", "refuse"} : pc' = [pc EXCEPT ![Head(calls)] = answer]
  /\ UNCHANGED <<mainVars, pendingAccepts, session, peer, stage, managerVars, crashed>>

----------------------------------------------------------------------------
(* A worker.  io_context.run() returns once the context is stopped; a      *)
(* handler that has begun is not interrupted.                              *)

Running(w) == pc[w] = "run" /\ ~ioStopped

RunReturns(w) ==
  /\ pc[w] = "run"
  /\ ioStopped
  /\ pc' = [pc EXCEPT ![w] = "over"]
  /\ UNCHANGED <<mainVars, pendingAccepts, calls, session, peer, stage, managerVars, crashed>>

(* A handler of connection c begins: its pending operation is complete.    *)
Begin(w, c, from, place) ==
  /\ Running(w)
  /\ stage[c] = from
  /\ stage' = [stage EXCEPT ![c] = "handling"]
  /\ session' = [session EXCEPT ![w] = c]
  /\ pc' = [pc EXCEPT ![w] = place]

(* ... and leaves the connection with its next operation, or with none.    *)
Leaves(w, next, place) ==
  /\ stage' = [stage EXCEPT ![session[w]] = next]
  /\ session' = [session EXCEPT ![w] = NoSession]
  /\ pc' = [pc EXCEPT ![w] = place]

(* async_accept's handler, which may be called with an error.              *)
Accept(w, c) ==
  /\ pendingAccepts > 0
  /\ peer[c] # "absent"
  /\ Begin(w, c, "none", "connection")
  /\ pendingAccepts' = pendingAccepts - 1
  /\ UNCHANGED <<mainVars, calls, peer, managerVars, crashed>>

AcceptFails(w) ==
  /\ Running(w)
  /\ pendingAccepts > 0
  /\ pendingAccepts' = pendingAccepts - 1
  /\ pc' = [pc EXCEPT ![w] = "accepted"]
  /\ UNCHANGED <<mainVars, calls, session, peer, stage, managerVars, crashed>>

(* handle_connection: the read of the credentials is started; whether to   *)
(* accept again is decided after that.                                     *)
HandleConnection(w) ==
  /\ pc[w] = "connection"
  /\ Leaves(w, "credentials", "accepted")
  /\ UNCHANGED <<mainVars, pendingAccepts, calls, peer, managerVars, crashed>>

(* remote_endpoint() throws for a peer that is gone already; nothing       *)
(* between handle_connection and the thread's end catches it.              *)
ConnectionThrows(w) ==
  /\ pc[w] = "connection"
  /\ peer[session[w]] = "closed"
  /\ crashed' = TRUE
  /\ UNCHANGED <<mainVars, pendingAccepts, calls, pc, session, peer, stage, managerVars>>

(* Faulty variant: after one connection no other is accepted. *)
AcceptOnce(w) ==
  /\ pc[w] = "accepted"
  /\ pc' = [pc EXCEPT ![w] = "run"]
  /\ UNCHANGED <<mainVars, pendingAccepts, calls, session, peer, stage, managerVars, crashed>>

AcceptAgain(w) ==
  /\ pc[w] = "accepted"
  /\ pendingAccepts' = IF m_running THEN pendingAccepts + 1 ELSE pendingAccepts
  /\ pc' = [pc EXCEPT ![w] = "run"]
  /\ UNCHANGED <<mainVars, calls, session, peer, stage, managerVars, crashed>>

(* The handler of the credentials' read begins ... *)
ReadCredentials(w, c) ==
  /\ Begin(w, c, "credentials", "credentials")
  /\ UNCHANGED <<mainVars, pendingAccepts, calls, peer, managerVars, crashed>>

(* ... and queues its call to the main thread, in which it waits, whatever *)
(* has become of the server since.                                         *)
Authenticate(w) ==
  /\ pc[w] = "credentials"
  /\ pc' = [pc EXCEPT ![w] = "waiting"]
  /\ calls' = Append(calls, w)
  /\ UNCHANGED <<mainVars, pendingAccepts, session, peer, stage, managerVars, crashed>>

CredentialsError(w, c) ==
  /\ Running(w)
  /\ stage[c] = "credentials"
  /\ peer[c] = "closed"
  /\ stage' = [stage EXCEPT ![c] = "over"]
  /\ UNCHANGED <<mainVars, pendingAccepts, calls, pc, session, peer, managerVars, crashed>>

(* addClient and session->start() *)
Register(w) ==
  /\ pc[w] = "accept"
  /\ m_clients' = m_clients \cup {session[w]}
  /\ Leaves(w, "reading", "run")
  /\ UNCHANGED <<mainVars, pendingAccepts, calls, peer, m_chatHistory, crashed>>

Refuse(w) ==
  /\ pc[w] = "refuse"
  /\ peer' = [peer EXCEPT ![session[w]] = "closed"]
  /\ Leaves(w, "over", "run")
  /\ UNCHANGED <<mainVars, pendingAccepts, calls, managerVars, crashed>>

(* handleReadMessage begins, with a message or with an error ... *)
ReadMessage(w, c) ==
  /\ \/ Begin(w, c, "reading", "message")
     \/ peer[c] = "closed" /\ Begin(w, c, "reading", "left")
  /\ UNCHANGED <<mainVars, pendingAccepts, calls, peer, managerVars, crashed>>

(* ... and handles a chat message, or takes the session out. *)
HandleChat(w) ==
  /\ pc[w] = "message"
  /\ m_chatHistory' = IF m_chatHistory < MAX_HISTORY_SIZE THEN m_chatHistory + 1 ELSE m_chatHistory
  /\ Leaves(w, "reading", "run")
  /\ UNCHANGED <<mainVars, pendingAccepts, calls, peer, m_clients, crashed>>

HandleLeft(w) ==
  /\ pc[w] = "left"
  /\ m_clients' = m_clients \ {session[w]}
  /\ Leaves(w, "over", "run")
  /\ UNCHANGED <<mainVars, pendingAccepts, calls, peer, m_chatHistory, crashed>>

----------------------------------------------------------------------------
(* The peers; the listening socket is open as long as the server exists.   *)

Arrive(c) ==
  /\ main # "destroyed"
  /\ peer[c] = "absent"
  /\ peer' = [peer EXCEPT ![c] = "open"]
  /\ UNCHANGED <<mainVars, pendingAccepts, calls, pc, session, stage, managerVars, crashed>>

Leave(c) ==
  /\ peer[c] = "open"
  /\ peer' = [peer EXCEPT ![c] = "closed"]
  /\ UNCHANGED <<mainVars, pendingAccepts, calls, pc, session, stage, managerVars, crashed>>

----------------------------------------------------------------------------
MainStep == (\E quit \in BOOLEAN : BeginStop(quit)) \/ StopContext \/ Join \/ DestroyStopped \/ ServeCall

(* A handler begins: never in a stopped io_context. *)
Dispatch(w) ==
  \/ AcceptFails(w)
  \/ \E c \in Sessions : \/ Accept(w, c) \/ ReadCredentials(w, c)
                         \/ CredentialsError(w, c) \/ ReadMessage(w, c)

(* A handler goes on. *)
Proceed(w) ==
  \/ HandleConnection(w) \/ AcceptAgain(w)
  \/ Authenticate(w) \/ Register(w) \/ Refuse(w)
  \/ HandleChat(w) \/ HandleLeft(w)
  \/ RunReturns(w)

PeerStep(c) == Arrive(c) \/ Leave(c)

(* Main joins a worker that waits for main. *)
WaitCycle == main = "joining" /\ \E w \in Workers : pc[w] = "waiting"

(* The only states in which the process may stand still: it has ended, or  *)
(* stop() and a worker wait for each other.                                *)
Over ==
  /\ \/ crashed
     \/ main = "destroyed"
     \/ WaitCycle
  /\ UNCHANGED vars

Next ==
  \/ /\ ~crashed
     /\ \/ Start
        \/ MainStep
        \/ \E w \in Workers : Dispatch(w) \/ Proceed(w) \/ ConnectionThrows(w)
        \/ \E c \in Sessions : PeerStep(c)
  \/ Over

(* Running threads keep running and the event loop serves what is queued.  *)
(* Nobody has to start, stop, arrive or leave.                             *)
Fairness ==
  /\ WF_vars(~crashed /\ (StopContext \/ Join))
  /\ WF_vars(~crashed /\ ServeCall)
  /\ \A w \in Workers : WF_vars(~crashed /\ Proceed(w))

Spec == Init /\ [][Next]_vars

FairSpec == Spec /\ Fairness

----------------------------------------------------------------------------
(***************************************************************************)
(* Properties                                                              *)
(***************************************************************************)

(* Where a worker is while it handles a connection, and altogether. *)
Handling == {"connection", "credentials", "waiting", "accept", "refuse", "message", "left"}
Places == Handling \cup {"none", "run", "accepted", "over"}

(* Every variable has the type of what it stands for. *)
TypeOK ==
  /\ main \in {"loop", "stopping", "joining", "destroyed"}
  /\ leaving \in BOOLEAN /\ m_running \in BOOLEAN /\ ioStopped \in BOOLEAN /\ crashed \in BOOLEAN
  /\ starts \in 0..MaxStarts
  /\ pendingAccepts \in Nat
  /\ calls \in Seq(Workers)
  /\ pc \in [Workers -> Places]
  /\ session \in [Workers -> Sessions \cup {NoSession}]
  /\ peer \in [Sessions -> {"absent", "open", "closed"}]
  /\ stage \in [Sessions -> {"none", "credentials", "handling", "reading", "over"}]
  /\ m_clients \subseteq Sessions
  /\ m_chatHistory \in 0..MAX_HISTORY_SIZE

(* Once stop() has returned, and from then on until the next start(), no   *)
(* worker exists - none can call into the server - and the registry and    *)
(* the history stay empty: clear() comes after the last handler has ended. *)
StoppedIsQuiet ==
  ~m_running /\ main \in {"loop", "destroyed"} =>
    /\ \A w \in Workers : pc[w] = "none"
    /\ calls = << >>
    /\ m_clients = {}
    /\ m_chatHistory = 0

(* The worker runs async_accept's handler. *)
Accepting(w) == pc[w] \in {"connection", "accepted"}

(* While the server runs, a connection can always come in: an accept is    *)
(* pending, or the handler of one will start the next.  In the first run   *)
(* there is never more than one.                                           *)
AlwaysAccepting ==
  /\ m_running => pendingAccepts > 0 \/ \E w \in Workers : Accepting(w)
  /\ starts = 1 =>
       /\ pendingAccepts \in {0, 1}
       /\ \A w \in Workers : Accepting(w) =>
            pendingAccepts = 0 /\ \A v \in Workers : Accepting(v) => v = w

(* The main thread's queue holds one call of each worker that waits in     *)
(* authenticate_client, and no other: no waiting worker is forgotten.      *)
CallsMatchWaiters ==
  /\ \A w \in Workers : pc[w] = "waiting" <=> \E i \in 1..Len(calls) : calls[i] = w
  /\ \A i, j \in 1..Len(calls) : calls[i] = calls[j] => i = j

(* Nobody who comes or waits is forgotten while the server runs.           *)
NobodyForgotten == AlwaysAccepting /\ CallsMatchWaiters

(* A server that was stopped and started again serves nobody: nothing      *)
(* restarts the io_context, so its new workers return at once, although    *)
(* isRunning() says true.                                                  *)
RestartIsIdle ==
  starts > 1 =>
    /\ \A w \in Workers : pc[w] \in {"none", "run", "over"}
    /\ m_clients = {}
    /\ m_chatHistory = 0

(* From the return of the first stop() on nobody is served any more,       *)
(* whatever is started or stopped later.                                   *)
StopIsFinal == StoppedIsQuiet /\ RestartIsIdle

(* stop() joins a worker that waits for the main thread or is on its way   *)
(* to: it has begun to handle credentials and has no answer to them.       *)
Doomed == main = "joining" /\ \E w \in Workers : pc[w] \in {"credentials", "waiting"}

(* Whether stop() returns is decided when it has stopped the io_context,   *)
(* although the worker that will keep it may come to wait only later: no   *)
(* handler begins after that and no answer is given, so nobody is doomed   *)
(* or saved by anything that still happens, and who waits, waits for ever. *)
WaitCycleDecided ==
  [][main = "joining" => /\ Doomed' <=> Doomed
                         /\ WaitCycle => WaitCycle']_vars

(* The flags follow the main thread; the io_context stays stopped from the *)
(* first stop() on.                                                        *)
Flags ==
  /\ m_running => main = "loop" /\ starts > 0
  /\ main \in {"stopping", "joining"} => ~m_running /\ starts > 0
  /\ main = "joining" => ioStopped
  /\ starts > 1 => ioStopped
  /\ starts = 1 => m_running \/ main = "stopping" \/ ioStopped
  /\ starts = 0 => ~ioStopped /\ pendingAccepts = 0

(* Workers exist from start() to the end of stop(), and end only in a      *)
(* stopped io_context.                                                     *)
WorkersExist ==
  \A w \in Workers :
    /\ pc[w] = "none" <=> ~m_running /\ main \in {"loop", "destroyed"}
    /\ pc[w] = "over" => ioStopped
    /\ pc[w] \in Handling => session[w] \in Sessions

(* The inductive invariant of the proofs. *)
LifecycleInv ==
  /\ TypeOK
  /\ Flags
  /\ WorkersExist
  /\ StoppedIsQuiet
  /\ AlwaysAccepting
  /\ CallsMatchWaiters
  /\ RestartIsIdle

(* stop() returns unless a worker waits for the thread that joins it, and  *)
(* that can keep it only if such a worker had begun to handle credentials  *)
(* before the io_context was stopped.                                      *)
StopReturns ==
  /\ main = "stopping" ~> main \in {"loop", "destroyed"} \/ crashed \/ WaitCycle
  /\ main = "joining" /\ ~Doomed ~> main \in {"loop", "destroyed"} \/ crashed

(* A worker that asked the main thread gets its answer, unless stop() has  *)
(* taken the main thread out of its event loop.                            *)
CallsAnswered ==
  \A w \in Workers : pc[w] = "waiting" ~> pc[w] # "waiting" \/ crashed \/ WaitCycle
=============================================================================
