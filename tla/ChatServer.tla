----------------------------- MODULE ChatServer -----------------------------
(***************************************************************************)
(* The built server (chat_server_mt): worker threads take ready handlers   *)
(* from one io_context - accept, credentials read, session read - and run  *)
(* each to completion; such handlers of different sessions run at the same *)
(* time and meet at ClientManager's mutex.                                 *)
(*                                                                         *)
(* multithreaded_server.cpp, boost_asio_client_session.cpp and             *)
(* message_handler.cpp, composed with ClientManager.                       *)
(*                                                                         *)
(* `pc[w]` is where worker w stands in the handler of `session[w]`.  A     *)
(* session has at most one accept or read pending (`stage[c]`), and its    *)
(* handler starts the next one last.  Writes are another matter: any       *)
(* number of async_writes may be under way on the session's socket, begun  *)
(* by any worker, and their completion handlers run beside its reads, with *)
(* neither lock nor strand.  Here a write ends with its start (`sent`);    *)
(* what becomes of it is in ServerToClient.                                *)
(*                                                                         *)
(* Abstractions: a chunk of the TCP stream is one whole request (split     *)
(* requests are not modelled here), several chunks may be returned by one  *)
(* async_read_some, text is an identifier, credentials are right or wrong  *)
(* by choice, and the server is not stopped.                               *)
(***************************************************************************)
EXTENDS ClientManager

CONSTANTS
  NoSession,        \* what an idle worker handles
  MaxWrites         \* bound: requests all clients together ever write

ASSUME NoSessionAssumption == NoSession \notin Sessions
ASSUME MaxWritesAssumption == MaxWrites \in Nat

VARIABLES
  peer,             \* the client's end: "absent", "open", "closed"
  inbox,            \* per session, chunks written by the client and not yet read
  written,          \* number of requests written by all clients
  stage,            \* the session's pending asynchronous operation
  pc,               \* where each worker is
  session,          \* the session whose handler each worker runs
  message,          \* the request in the worker's hands
  usernames,        \* the list a worker took in handleUserListRequest
  asked,            \* per session, user-list requests parsed
  answered          \* per session, user lists handed to async_write

peerVars == <<peer, inbox, written>>
workerVars == <<pc, session, message, usernames>>
countVars == <<asked, answered>>
vars == <<managerVars, peerVars, stage, workerVars, countVars>>

----------------------------------------------------------------------------
Credentials(c) == [kind |-> "credentials", from |-> c, id |-> 0]
NoMessage == [kind |-> "none", from |-> NoSession, id |-> 0]

Stages == {"none",         \* not accepted yet
           "credentials",  \* handle_connection's async_read_some is pending
           "handling",     \* a worker runs a handler of this session
           "reading",      \* asyncRead is pending
           "over"}         \* no handler will run for this session again

Labels == {"idle", "authenticate", "addClient", "replay", "start",
           "broadcast", "sending", "getUsernames", "reply", "asyncRead", "removeClient"}

Init ==
  /\ ManagerInit
  /\ peer = [c \in Sessions |-> "absent"]
  /\ inbox = [c \in Sessions |-> << >>]
  /\ written = 0
  /\ stage = [c \in Sessions |-> "none"]
  /\ pc = [w \in Workers |-> "idle"]
  /\ session = [w \in Workers |-> NoSession]
  /\ message = [w \in Workers |-> NoMessage]
  /\ usernames = [w \in Workers |-> {}]
  /\ asked = [c \in Sessions |-> 0]
  /\ answered = [c \in Sessions |-> 0]

----------------------------------------------------------------------------
(* The client's end.  NetworkClient writes its credentials as soon as the  *)
(* connection is up and lets the user write before the server has answered *)
(* in any way.  A peer that leaves may take unread bytes with it (reset).  *)

Connect(c) ==
  /\ peer[c] = "absent"
  /\ peer' = [peer EXCEPT ![c] = "open"]
  /\ inbox' = [inbox EXCEPT ![c] = <<Credentials(c)>>]
  /\ UNCHANGED <<managerVars, written, stage, workerVars, countVars>>

Write(c) ==
  /\ peer[c] = "open"
  /\ written < MaxWrites
  /\ written' = written + 1
  /\ \E kind \in {"chat", "request"} :
       inbox' = [inbox EXCEPT ![c] = Append(@, [kind |-> kind, from |-> c, id |-> written'])]
  /\ UNCHANGED <<managerVars, peer, stage, workerVars, countVars>>

Leave(c) ==
  /\ peer[c] = "open"
  /\ peer' = [peer EXCEPT ![c] = "closed"]
  /\ \E unread \in {inbox[c], << >>} : inbox' = [inbox EXCEPT ![c] = unread]
  /\ UNCHANGED <<managerVars, written, stage, workerVars, countVars>>

----------------------------------------------------------------------------
(* Moves of a worker.                                                      *)

Goto(w, label) == pc' = [pc EXCEPT ![w] = label]

(* An idle worker starts a handler of session c. *)
Dispatch(w, c, from, label) ==
  /\ pc[w] = "idle"
  /\ stage[c] = from
  /\ stage' = [stage EXCEPT ![c] = "handling"]
  /\ session' = [session EXCEPT ![w] = c]
  /\ Goto(w, label)

(* The handler returns; the session waits for its next event, if any. *)
Return(w, next) ==
  /\ stage' = [stage EXCEPT ![session[w]] = next]
  /\ session' = [session EXCEPT ![w] = NoSession]
  /\ message' = [message EXCEPT ![w] = NoMessage]
  /\ usernames' = [usernames EXCEPT ![w] = {}]
  /\ Goto(w, "idle")

(* Within a handler nothing at the client's end changes. *)
At(w, label) == pc[w] = label /\ UNCHANGED peerVars

(* One async_read_some returns one chunk or several coalesced ones; the    *)
(* handler parses only the first, the others are gone.                     *)
ReadSome(c) ==
  \E n \in 1..Len(inbox[c]) : inbox' = [inbox EXCEPT ![c] = SubSeq(@, n + 1, Len(@))]

EndOfStream(c) == peer[c] = "closed" /\ inbox[c] = << >>

----------------------------------------------------------------------------
(* accept_connections' handler: handle_connection starts the credentials   *)
(* read, then the next accept is started.                                  *)
Accept(w, c) ==
  /\ pc[w] = "idle"
  /\ peer[c] # "absent"
  /\ stage[c] = "none"
  /\ stage' = [stage EXCEPT ![c] = "credentials"]
  /\ UNCHANGED <<managerVars, peerVars, workerVars, countVars>>

ReadCredentials(w, c) ==
  /\ Dispatch(w, c, "credentials", "authenticate")
  /\ ReadSome(c)
  /\ UNCHANGED <<managerVars, peer, written, message, usernames, countVars>>

CredentialsError(w, c) ==
  /\ pc[w] = "idle"
  /\ stage[c] = "credentials"
  /\ EndOfStream(c)
  /\ stage' = [stage EXCEPT ![c] = "over"]
  /\ UNCHANGED <<managerVars, peerVars, workerVars, countVars>>

(* authenticate_client answers; session->authenticate sets the flag. *)
Authenticated(w) ==
  /\ At(w, "authenticate")
  /\ m_authenticated' = [m_authenticated EXCEPT ![session[w]] = TRUE]
  /\ Goto(w, "addClient")
  /\ UNCHANGED <<m_clients, m_chatHistory, m_clientsMutex, cursor, recipients, sent, log, base,
                 stage, session, message, usernames, countVars>>

(* ... or refuses, and the socket is closed. *)
Rejected(w) ==
  /\ pc[w] = "authenticate"
  /\ peer' = [peer EXCEPT ![session[w]] = "closed"]
  /\ inbox' = [inbox EXCEPT ![session[w]] = << >>]
  /\ Return(w, "over")
  /\ UNCHANGED <<managerVars, written, countVars>>

AddToEmptyHistory(w) ==
  /\ At(w, "addClient")
  /\ AddClientNoHistory(session[w])
  /\ Goto(w, "start")
  /\ UNCHANGED <<stage, session, message, usernames, countVars>>

BeginReplay(w) ==
  /\ At(w, "addClient")
  /\ AddClientBegin(w, session[w])
  /\ Goto(w, "replay")
  /\ UNCHANGED <<stage, session, message, usernames, countVars>>

ReplayOne(w) ==
  /\ At(w, "replay")
  /\ AddClientReplay(w, session[w])
  /\ UNCHANGED <<stage, workerVars, countVars>>

EndReplay(w) ==
  /\ At(w, "replay")
  /\ AddClientEnd(w)
  /\ Goto(w, "start")
  /\ UNCHANGED <<stage, session, message, usernames, countVars>>

(* session->start(): the first asyncRead. *)
StartSession(w) ==
  /\ At(w, "start")
  /\ Return(w, "reading")
  /\ UNCHANGED <<managerVars, countVars>>

----------------------------------------------------------------------------
(* handleReadMessage: error, not authenticated, or one parsed message.     *)

(* Faulty variant: the end of the stream is noticed while a handler runs. *)
ReadErrorAnyTime(w, c) ==
  /\ pc[w] = "idle"
  /\ stage[c] \in {"reading", "handling"}
  /\ EndOfStream(c)
  /\ stage' = [stage EXCEPT ![c] = "handling"]
  /\ session' = [session EXCEPT ![w] = c]
  /\ Goto(w, "removeClient")
  /\ UNCHANGED <<managerVars, peerVars, message, usernames, countVars>>

ReadError(w, c) ==
  /\ Dispatch(w, c, "reading", "removeClient")
  /\ EndOfStream(c) \/ ~m_authenticated[c]
  /\ UNCHANGED <<managerVars, peerVars, message, usernames, countVars>>

(* Faulty variant: asyncRead before the message callback. *)
ReadChatRearmed(w, c) ==
  /\ pc[w] = "idle"
  /\ stage[c] = "reading"
  /\ m_authenticated[c]
  /\ ReadSome(c)
  /\ Head(inbox[c]).kind = "chat"
  /\ session' = [session EXCEPT ![w] = c]
  /\ message' = [message EXCEPT ![w] = Head(inbox[c])]
  /\ Goto(w, "broadcast")
  /\ UNCHANGED <<managerVars, peer, written, stage, usernames, countVars>>

ReadChat(w, c) ==
  /\ Dispatch(w, c, "reading", "broadcast")
  /\ m_authenticated[c]
  /\ ReadSome(c)
  /\ Head(inbox[c]).kind = "chat"
  /\ message' = [message EXCEPT ![w] = Head(inbox[c])]
  /\ UNCHANGED <<managerVars, peer, written, usernames, countVars>>

ReadRequest(w, c) ==
  /\ Dispatch(w, c, "reading", "getUsernames")
  /\ m_authenticated[c]
  /\ ReadSome(c)
  /\ Head(inbox[c]).kind = "request"
  /\ asked' = [asked EXCEPT ![c] = @ + 1]
  /\ UNCHANGED <<managerVars, peer, written, message, usernames, answered>>

(* Faulty variant: no further read is started. *)
ReadNextForgotten(w) ==
  /\ At(w, "asyncRead")
  /\ Return(w, "handling")
  /\ UNCHANGED <<managerVars, countVars>>

(* After the message callback: asyncRead. *)
ReadNext(w) ==
  /\ At(w, "asyncRead")
  /\ Return(w, "reading")
  /\ UNCHANGED <<managerVars, countVars>>

(* The disconnect callback; no further read is started. *)
Remove(w) ==
  /\ At(w, "removeClient")
  /\ RemoveClient(session[w])
  /\ Return(w, "over")
  /\ UNCHANGED countVars

----------------------------------------------------------------------------
(* MessageHandler::handleMessage                                           *)

BeginBroadcast(w) ==
  /\ At(w, "broadcast")
  /\ BroadcastBegin(w, message[w])
  /\ Goto(w, "sending")
  /\ UNCHANGED <<stage, session, message, usernames, countVars>>

SendOne(w) ==
  /\ At(w, "sending")
  /\ BroadcastSend(w, message[w])
  /\ UNCHANGED <<stage, workerVars, countVars>>

EndBroadcast(w) ==
  /\ At(w, "sending")
  /\ BroadcastEnd(w)
  /\ Goto(w, "asyncRead")
  /\ UNCHANGED <<stage, session, message, usernames, countVars>>

(* getUsernames takes and releases the mutex; the list is then sent in a   *)
(* second critical section.                                                *)
GetUsernames(w) ==
  /\ At(w, "getUsernames")
  /\ MutexFree
  /\ usernames' = [usernames EXCEPT ![w] = Reachable]
  /\ Goto(w, "reply")
  /\ UNCHANGED <<managerVars, stage, session, message, countVars>>

SendMessageToClient(w) ==
  /\ At(w, "reply")
  /\ MutexFree
  /\ answered' = IF session[w] \in Reachable
                 THEN [answered EXCEPT ![session[w]] = @ + 1]
                 ELSE answered
  /\ Goto(w, "asyncRead")
  /\ UNCHANGED <<managerVars, stage, session, message, usernames, asked>>

----------------------------------------------------------------------------
ClientStep(c) == Connect(c) \/ Write(c) \/ Leave(c)

StartHandler(w, c) ==
  \/ Accept(w, c)
  \/ ReadCredentials(w, c)
  \/ CredentialsError(w, c)
  \/ ReadError(w, c)
  \/ ReadChat(w, c)
  \/ ReadRequest(w, c)

(* Steps of a handler that need the mutex to be free. *)
Enter(w) ==
  \/ AddToEmptyHistory(w)
  \/ BeginReplay(w)
  \/ Remove(w)
  \/ BeginBroadcast(w)
  \/ GetUsernames(w)
  \/ SendMessageToClient(w)

(* Steps of a handler that wait for nobody. *)
Proceed(w) ==
  \/ Authenticated(w)
  \/ Rejected(w)
  \/ ReplayOne(w)
  \/ EndReplay(w)
  \/ StartSession(w)
  \/ ReadNext(w)
  \/ SendOne(w)
  \/ EndBroadcast(w)

(* Every client has come and gone: nothing is left to do. *)
AllOver ==
  /\ \A c \in Sessions : peer[c] = "closed" /\ stage[c] = "over"
  /\ UNCHANGED vars

Next ==
  \/ \E c \in Sessions : ClientStep(c)
  \/ \E w \in Workers, c \in Sessions : StartHandler(w, c)
  \/ \E w \in Workers : Enter(w) \/ Proceed(w)
  \/ AllOver

(***************************************************************************)
(* Fairness.  A running thread keeps running (WF).  The io_context queues  *)
(* ready handlers in FIFO order, so a session with a ready event is not    *)
(* passed over for ever (SF).  A thread that wants the mutex gets it if it *)
(* is free again and again (SF): std::mutex does not promise it, the       *)
(* pthread mutex beneath it provides it in practice.  Clients owe nothing. *)
(***************************************************************************)
Fairness ==
  /\ \A w \in Workers : WF_vars(Proceed(w)) /\ SF_vars(Enter(w))
  /\ \A c \in Sessions : SF_vars(\E w \in Workers : StartHandler(w, c))

Spec == Init /\ [][Next]_vars

FairSpec == Spec /\ Fairness

----------------------------------------------------------------------------
(***************************************************************************)
(* Properties                                                              *)
(***************************************************************************)

ChatMessages == [kind : {"chat"}, from : Sessions, id : 1..MaxWrites]

ListRequests == [kind : {"request"}, from : Sessions, id : 1..MaxWrites]

Chunks == ChatMessages \cup ListRequests \cup {Credentials(c) : c \in Sessions}

(* Every variable has the type of the field it stands for. *)
TypeOK ==
  /\ m_authenticated \in [Sessions -> BOOLEAN]
  /\ m_clients \subseteq Sessions
  /\ m_chatHistory \in Seq(ChatMessages)
  /\ m_clientsMutex \in Workers \cup {NoWorker}
  /\ cursor \in [Workers -> Nat]
  /\ recipients \in [Workers -> SUBSET Sessions]
  /\ sent \in [Sessions -> Seq(ChatMessages)]
  /\ log \in Seq(ChatMessages)
  /\ base \in [Sessions -> Nat]
  /\ peer \in [Sessions -> {"absent", "open", "closed"}]
  /\ inbox \in [Sessions -> Seq(Chunks)]
  /\ written \in 0..MaxWrites
  /\ stage \in [Sessions -> Stages]
  /\ pc \in [Workers -> Labels]
  /\ session \in [Workers -> Sessions \cup {NoSession}]
  /\ message \in [Workers -> ChatMessages \cup {NoMessage}]
  /\ usernames \in [Workers -> SUBSET Sessions]
  /\ asked \in [Sessions -> Nat]
  /\ answered \in [Sessions -> Nat]

(* Only one worker at a time is inside the replay loop of addClient or the *)
(* send loop of broadcastMessage, and it is the one that holds the mutex.  *)
LoopsHoldMutex ==
  \A w \in Workers : pc[w] \in {"replay", "sending"} <=> m_clientsMutex = w

(* What the loop of a worker relies on while it takes a step or another    *)
(* worker does: the registry, the history and the authentication of those  *)
(* it visits stay, and nobody is sent anything but by the loop.            *)
Undisturbed(w) ==
  /\ UNCHANGED <<m_clients, m_chatHistory, log, base, answered>>
  /\ \A c \in m_clients : m_authenticated'[c] = m_authenticated[c]
  /\ \/ UNCHANGED <<sent, cursor, recipients>>
     \/ \E c \in m_clients :
          sent' = [sent EXCEPT ![c] = Append(@, IF pc[w] = "replay" THEN m_chatHistory[cursor[w]]
                                                                  ELSE message[w])]

(* While a worker walks through the history or the registry, neither       *)
(* changes under it, whatever the other workers and the peers do: no       *)
(* iterator is invalidated, and no message or list comes in between.       *)
LoopsUndisturbed ==
  [][\A w \in Workers : pc[w] \in {"replay", "sending"} /\ pc'[w] = pc[w] => Undisturbed(w)]_vars

(* The history vector is the latest part of all that was ever broadcast,   *)
(* in order, as long as the capacity allows: addMessage never drops more   *)
(* or less than the oldest entry.                                          *)
HistoryIsLatest ==
  /\ Len(m_chatHistory) = IF Len(log) > MAX_HISTORY_SIZE THEN MAX_HISTORY_SIZE ELSE Len(log)
  /\ \A i \in 1..Len(m_chatHistory) :
       m_chatHistory[i] = log[Len(log) - Len(m_chatHistory) + i]

(* What a session is sent is a contiguous piece of the one order of all    *)
(* broadcasts, starting with the history it was given: nothing is missed   *)
(* or sent twice between the replay in addClient and the first live        *)
(* broadcast, and no two sessions see two messages in different orders.    *)
ContiguousDelivery ==
  \A c \in Sessions :
    /\ base[c] + Len(sent[c]) <= Len(log)
    /\ \A i \in 1..Len(sent[c]) : sent[c][i] = log[base[c] + i]

(* Whenever the mutex is free, every registered session has been sent      *)
(* every broadcast since its history began.                                *)
NobodyBehind ==
  MutexFree => \A c \in m_clients : base[c] + Len(sent[c]) = Len(log)

(* Replay and broadcasts fit together: no session is sent more than its    *)
(* piece of the one order, and none less.                                  *)
DeliveryIsExact == ContiguousDelivery /\ NobodyBehind

(* Two messages of the same client are broadcast in the order in which the *)
(* client wrote them and never twice, although different workers read them *)
(* and race for the mutex.                                                 *)
SenderOrder ==
  \A i, j \in 1..Len(log) : i < j /\ log[i].from = log[j].from => log[i].id < log[j].id

(* A registered session is authenticated and will notice its peer's end:   *)
(* a read is pending on it or some worker runs a handler of it.  Conversely *)
(* only registered sessions are read.  No registration is orphaned.        *)
RegisteredIffServed ==
  \A c \in Sessions :
    /\ stage[c] = "reading" => c \in m_clients
    /\ c \in m_clients =>
         /\ m_authenticated[c]
         /\ stage[c] = "reading" \/ \E w \in Workers : session[w] = c

(* handleUserListRequest uses a list taken in an earlier critical section. *)
(* It may be out of date, but the client who asked is always in it and is  *)
(* still registered when sendMessageToClient looks it up.                  *)
RequesterInOwnList ==
  \A w \in Workers :
    pc[w] = "reply" => session[w] \in usernames[w] /\ session[w] \in Reachable

(* The worker has parsed a user-list request and not answered it yet. *)
Asking(w) == pc[w] \in {"getUsernames", "reply"}

(* Every user-list request that was parsed is answered exactly once before *)
(* the session is read again.                                              *)
OneAnswerPerRequest ==
  \A c \in Sessions :
    asked[c] = answered[c] + IF \E w \in Workers : session[w] = c /\ Asking(w) THEN 1 ELSE 0

(* The two critical sections of a request fit together: whoever asks is in *)
(* the list, is still there to be sent it, and is sent it once.            *)
RequesterAnsweredOnce == RequesterInOwnList /\ OneAnswerPerRequest

(* Once its disconnect callback has run, a session is sent nothing and is  *)
(* never registered again, even if a broadcast began before the removal.   *)
SilentAfterRemoval ==
  [][\A c \in Sessions :
       stage[c] = "over" => /\ sent'[c] = sent[c]
                            /\ answered'[c] = answered[c]
                            /\ c \notin m_clients']_vars

(* A session whose peer has gone is eventually taken out for good: its     *)
(* handlers end and no read stays pending.                                 *)
GoneSessionsEnd ==
  \A c \in Sessions : peer[c] = "closed" ~> stage[c] = "over"

(* Every user-list request that was parsed is eventually answered. *)
RequestsAnswered ==
  \A c \in Sessions : asked[c] > answered[c] ~> asked[c] = answered[c]

(* The server implements the chat room: registered sessions are inside,    *)
(* sessions that were registered and are over are gone.                    *)
Place ==
  [c \in Sessions |-> IF c \in m_clients THEN "inside"
                      ELSE IF stage[c] = "over" /\ m_authenticated[c] THEN "gone"
                      ELSE "outside"]

Room == INSTANCE ChatRoom WITH
          Messages <- ChatMessages, place <- Place, posts <- log, skipped <- base, given <- sent

(* Every step of the server is a step of the room or invisible there, and  *)
(* the room's members are given every post.                                *)
ImplementsRoom == Room!Spec
=============================================================================
