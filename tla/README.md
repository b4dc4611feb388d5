# A verification of QtMessenger

TLA+ specifications of the chat server in this repository, of the byte streams between it and its
clients, of the client's windows and of the database the programs share, TLC configurations that check
them on small instances, and TLAPS proofs that carry the safety properties to any number of sessions,
threads, clients, names, messages and sizes.

Run from this directory:

    tlc -workers 2 -config ChatServerSafety.cfg MCChatServer
    tlapm ChatServer_proofs.tla

## The system

Two programs share `common_lib` and one SQLite file, `chat_app.db`, in their working directory.

| Part | State | Operations |
| --- | --- | --- |
| `ClientManager` (server) | `m_clients`, `m_chatHistory`, `m_clientsMutex` | `addClient` (registers and replays the history), `removeClient`, `broadcastMessage`, `getUsernames`, `sendMessageToClient`, `clear` |
| `MultithreadedServer` | io_context, acceptor, worker threads, `m_running` | `start`, `stop`, `accept_connections`, `handle_connection`, `authenticate_client` |
| `BoostAsioClientSession` | socket, `m_authenticated`, two callbacks | `authenticate`, `start`, `asyncRead`, `handleReadMessage`, `sendMessage` |
| `MessageHandler` | none | `handleMessage`: broadcast, or answer a user list request |
| `Message` | sender, name, text, type, user list | `operator<<`, `operator>>` |
| `DatabaseManager` (both programs) | table `users` | `initialize`, `addUser`, `checkUser`, `userExists` |
| `NetworkClient` (client) | socket, `m_receivedBuffer`, `m_connected` | `connectToServer`, `disconnect`, `sendMessage`, `requestUserList`, `processBuffer`, socket slots |
| `ChatController`, `ChatWindow` | input field, status label, list of messages | send, log out, open the user list, display |
| `LoginWindow`, `PasswordWindow`, `RegisterWindow` | which window is open | log in, register |
| `UserListWindow` | list, search field, counter | `updateUserList`, the slot of `textChanged` |
| `EmojiWindow` | widgets | choose an emoji |

How they meet:

* Worker threads (four in `main_multithreaded.cpp`) call `io_context.run()`. Each takes a ready
  handler - an accepted connection, bytes or an error on a socket - and runs it to its end. Handlers
  of different sessions run at the same time and meet in `ClientManager`. A worker that broadcasts starts an
  `async_write` on the sockets of other sessions, and the completion handlers of writes run on any worker: they
  use a socket beside the read handler of its session, with neither strand nor lock.
* A session's handler calls its message callback (`MessageHandler::handleMessage`) and starts the
  next read after it returned; on an error it calls the disconnect callback (`removeClient`).
* `authenticate_client` leaves the worker and blocks until the Qt main thread has looked into the
  database (`BlockingQueuedConnection`).
* A client is one thread with a Qt event loop. It writes its credentials as soon as the socket is
  connected; the server never answers them. Refused clients are disconnected.
* `AsyncTcpServer`, `ClientSession` and `server/src/main.cpp` are an older server: `CMakeLists.txt`
  does not build them, and they do not implement the current interfaces.

What is hard: the replay of the history while others broadcast; removal of a session another
worker is about to send to; the order of one sender's messages when several workers read them; two
critical sections for one user list; TCP, which keeps neither message boundaries nor the bytes a
peer did not read; `stop()` joining workers that wait for the thread that joins them; writes that
overlap on one socket; two processes on one database; nested event loops and windows in the client.
`PROJECT.json` lists each hazard at its line.

## Modules

| Module | Stands for |
| --- | --- |
| `ClientManager` | `client_manager.cpp`; `SendMessage` is `BoostAsioClientSession::sendMessage` |
| `ChatServer` | the accept and read handlers of `multithreaded_server.cpp`, `boost_asio_client_session.cpp` and `message_handler.cpp`, run by workers, with the peers; extends `ClientManager` |
| `ChatRoom` | the abstract specification: what the server promises its clients |
| `ChatServerInv` | the inductive invariant |
| `MCChatServer` | `ChatServer` for TLC |
| `ChatSystem` | the server with the windows of its clients: connections, what has been read, what is displayed; extends `ChatServer` with its invariant |
| `MCChatSystem` | `ChatSystem` for TLC |
| `ChatServer_proofs`, `ChatSystem_proofs` | their theorems |
| `ServerLifecycle` | `MultithreadedServer` from `start` to its destruction: main thread, io_context, workers, blocking calls |
| `ServerToClient` | one connection from `sendMessage` to the client's callbacks: overlapping `async_write`s, the stream, `processBuffer` |
| `FifoChannel` | the abstract specification of a connection |
| `ClientToServer` | one connection from the client's writes to the server's handlers: one message parsed per read |
| `ChatClient` | one client from its chat window's opening to its destruction: `NetworkClient`, `ChatController`, `ChatWindow` |
| `UserDatabase` | `database_manager.cpp`: the queries of several programs on one file |
| `LoginFlow` | the programs around it: `main`, login, password and registration windows, logout, the server's check; extends `UserDatabase` |
| `UserTable` | the abstract specification of the table |
| `UserList` | the list of online users from the click to what `UserListWindow` shows |
| `MCServerLifecycle`, `MCServerToClient`, `MCClientToServer`, `MCChatClient`, `MCLoginFlow`, `MCUserList` | these for TLC |
| `ServerLifecycle_proofs`, `ServerToClient_proofs`, `ClientToServer_proofs`, `ChatClient_proofs`, `LoginFlow_proofs`, `UserList_proofs` | their theorems |

The modules from `ServerLifecycle` on each look at a part of the system that `ChatServer` takes as given: it has no `stop`, a write is one
step, a message arrives whole or not at all, a client may do anything, credentials are right or wrong by choice. Each
is coarse where `ChatServer` is fine, so that the state spaces stay apart.

### ClientManager

Every operation is cut where another worker can see it. An operation that takes the mutex, does one
thing and releases it (`removeClient`, `getUsernames`, `sendMessageToClient`, `addClient` with an
empty history) is one action guarded by `MutexFree`. `broadcastMessage` is `BroadcastBegin` (lock,
`addMessage`, start of the loop), `BroadcastSend` for each session in any order - the order of an
`unordered_map` - and `BroadcastEnd` (unlock). `addClient` is `AddClientBegin`, `AddClientReplay` per
message, `AddClientEnd`. That nobody else enters while the mutex is held is not assumed: it follows
from the guards, and `LockWithoutWaiting` shows what is lost without it.

`sent[c]` is what was handed to `async_write` for session `c`. `log` (every broadcast, in order) and
`base` (how much of the log a session came too late for) are history variables: no action's guard
reads them.

### ChatServer

`stage[c]` is the session's pending asynchronous operation, `pc[w]` the place of worker `w` in the
handler of `session[w]`. `StartHandler` is what the io_context dispatches (accept, credentials,
their error, session read, its error), `Enter` the steps that wait for the mutex, `Proceed` the other
steps of a handler. `ClientStep` is the peer: it connects and writes its credentials at once, writes
chat messages and list requests, and leaves, with or without the bytes the server has not read.

Data is reduced to what the properties tell apart: a message is its kind, its sender and a number
that grows with every write; the credentials are accepted or refused by choice (`Authenticated`,
`Rejected`, which also stands for the exception path). One read returns the first chunk of the inbox
or several: `handleReadMessage` and `handle_connection` parse one message, so the rest is lost, and
`ReadSome` loses it. A message cut in two is the subject of
`ClientToServer`. A write is one step here, whoever makes it, so the completion handlers of writes are not handlers of
this module: what they do to the stream is in `ServerToClient`. So `OneReaderPerSession`, a part of the inductive
invariant, is about accept and read handlers only, and says nothing of the socket they share with writes.

### ChatRoom and the refinement

The room has one list of posts. Who enters is given the latest `MAX_HISTORY_SIZE` posts and then all
later ones in order, and is let go only when up to date. `ChatServer` implements it with registered
sessions inside, `log` as the posts and `sent` as what was given: the steps inside the server's
critical sections become single `Give` steps of the room.

### ChatSystem

What users see of each other. `outgoing[c]` is what `sendMessage` has given to the connection of session `c`: chat messages,
named by their place in `sent[c]`, and user lists (`Given`; a closed connection takes nothing). `arrived[c]` counts what
`processBuffer` has read of it, and `shown[c]` is what the window has displayed (`ReadMessage`). Every step of `ChatServer` is a
step here (`ServerStep`), so its properties hold as they are. The connection is a queue by definition: that the byte stream of
overlapping writes and cut reads is one, as long as no write goes on inside another, is what `ServerToClient` shows by
implementing `FifoChannel`. The other direction, with the chunks it
loses, is in `ChatServer`. A user is a session here: who logs in again is another one.

The windows implement the room, too: `Seen` is `ChatRoom` with what a window has displayed for what a member was given, so a
window is behind by what is on the connection as well as by what the server owes it. A session that the server has let go
stays in this room (`SeenPlace`), since its connection may still bring messages. Only the room's safety holds of it (a
client may close its window with messages unread), so `WindowsShowTheRoom` is a theorem and not a property of a run.

`UsersSeeOneRoom` is the promise of the whole program. `SameConversation`: where two windows have a message in
common, both continue from it in the same way, forwards and backwards, nothing appears twice, and each sender's messages
are in order. `NothingMissing`: a user who has read all that was sent while the manager has nothing in hand has every message
since a history that was as long as the server keeps it.

### ServerLifecycle

`main` is the Qt main thread: in its event loop (or not yet in it), in `stop` before or after
`m_io_context.stop()`, joining, or past the destructor. `pc[w]` is a worker: not started, in `run()`, in a handler that has
begun (`Handling`), after an accept, or returned. A handler begins in one step (`Dispatch`), which needs a running io_context,
and does its work in another (`Proceed`), which does not: `stop` interrupts nobody, so while the main thread joins,
a worker may still register a session, or queue its call to the main thread (`Authenticate`) and wait for it. `calls` is
the main thread's queue of `BlockingQueuedConnection` calls.

`main_multithreaded.cpp` starts the server once and lets the destructor stop it; `IServer` has `start` and
`stop` as public operations, so the owner may use them in any order (`MaxStarts` bounds it). Three facts come
out of the code, and the properties name them rather than hide them:

* `WaitCycle`: `stop` joins a worker that waits for the thread that joins it; neither goes on. `StopReturns`
  and `CallsAnswered` say that this is the only way, besides a crash, for `stop` not to return and for a
  worker not to be answered. A worker that has begun to handle credentials when the io_context is stopped may come to wait
  later, while it is joined; `Doomed` is a join with a worker that waits or is on its way to it.
  `WaitCycleDecided` says that this is settled when the io_context has been stopped: from then on nobody becomes doomed or is
  saved, and who waits, waits for ever. No line of the repository says that `stop` always returns, so the deadlock is an
  outcome that the properties name, and not a violation of one.
* `StopIsFinal`: the io_context is never restarted, so after `stop` and `start` the workers return at once.
* `ConnectionThrows`: `remote_endpoint()` throws for a peer that has gone before its handler runs, outside every
  `try`; the process ends.

### ServerToClient and FifoChannel

`sendMessage` starts an `async_write` without waiting for the last one. The socket serves waiting writes in
order, but if the kernel takes only a part, the completion handler asks for the rest anew (`Transmit`,
`resuming`, `Resume`), and another message may go in between. A message is `Size[n]` parts; a part is what
the kernel takes, carries or gives as one. On the client, `OnReadyRead` appends what has arrived, `ProcessOne` and
`ProcessShort` are the two outcomes of `operator>>` on a sound stream, `Misread` its outcome when parts of
another message lie inside; what the client shows from then on is not modelled, `misread` ends the
promise. Everything delivered before it is right, and all of it comes (`DeliveredCompletely`); it cannot happen unless a write
went on inside another (`MisreadOnlyAfterOverlap`). With `WholeWrites`, the send buffer always having room for a
whole message, the connection implements `FifoChannel`, its liveness included.

### ClientToServer

The server parses one message at the beginning of each chunk that `async_read_some` returns and drops the rest
of the chunk with its buffer. `handled` is what each read was taken for: the number of a write, or
`Incomplete`, which the server broadcasts all the same, its missing fields empty. `cut` remembers that some
read returned other than exactly one write. The credentials are write 1 and are read into a smaller buffer.
Whatever TCP does, whole messages keep their order and none is handled twice (`WholeInOrder`); until a
read is cut nothing is lost (`NothingLostUnlessCut`); a client that has gone is noticed (`EndNoticed`).
`ChatServer` builds on this: its `ReadSome` loses the messages behind the first.

### ChatClient

One Qt thread, so the model has no threads, but it has nested event loops: while `EmojiWindow` or the logout
box is open (`box`), socket signals are served and clicks on the window are not. `setupUi` and `connectSignals`
connect the same signals to the same slots, so a click calls its slot twice: `ClickSend` and `ClickUsers` are
both calls in one step, and `again` remembers that a box opens a second time when it is closed. `socket` is what
`m_socket` is: connecting, connected, closing, unconnected; `disconnect()` waits a second at most, so it may leave
the socket closing. A text is the number of its last edit, and the fields of a displayed message are left out.
`late` and `lostUnder` are history variables. What the code turns out to do:

* the second call of `sendMessage` finds the field empty, which is all that keeps a text from being sent twice;
  a text typed while the socket is not connected is dropped, with the label reading
  "Disconnected" (`TextsSentOrShown` is both);
* logging out asks again after Yes, and leaves a socket that is still connecting alone. It may connect while
  the second box is open; this is the one exception of `LogoutEndsConnection`, and it ends with the window;
* closing the window while connected runs the destructor of the socket after those of the callbacks it calls.
  That is undefined: `Destroy` lets them work or end the process (`crashed`).

### UserDatabase, LoginFlow and UserTable

SQLite runs one query at a time, so a query is a step of `UserDatabase` and its answer an argument; a query that fails
(`QueryFails`, bounded by `MaxErrors`) changes nothing and reads as FALSE, as the code makes of it. What lies between
two queries is protected by nothing: `CountUsers` and `AddTestUser` of a program that starts, `RegisterClick` and
`Register` of one that registers, and between them all other programs. Programs share the table because both open
`chat_app.db` in their working directory; the model takes that to be the same directory. A name or password is a model value,
trimmed and not empty: an empty one is refused before any query.

`view` is which of a client's two windows are visible, `dialog` the modal dialog over the login window, `box` the logout
confirmation, which opens twice as in `ChatClient`. A client may die anywhere (`CrashClient`), the server too. The model
uses these facts about Qt:

* the application quits when the last visible window that is not a dialog is closed by a call of `close()` or by
  the user; hiding never quits it. `CloseTimer` is the 1 ms timer of `onSubmitClicked`, which closes the
  login window after it has been hidden; were the login window the only one then, the client would end with nobody having
  closed it (`"lost"`);
* a modal dialog keeps the user from other windows, but timers fire. `Register` leaves the dialog open for a
  second with its button working, so `RegisterClick` may come again;
* `ConfirmLogout` waits for a timer that is due (`~closing[c]`): the box that is confirmed has been shown by a nested event
  loop that serves a timer of 1 ms before a user can see and answer what it shows. `ConfirmLogoutAtOnce`
  shows what hangs on it: without that order the program would end at the first logout.

The server reads the credentials once, at most 1024 bytes of them (`ServerReads`), and has the table asked for what it has
read (`ServerChecks`). Names and passwords have no upper limit in the registration window, and TCP may bring them in pieces,
so `heard` is the password or `NoText`; a name that is cut leaves no password either, so `NoText` stands for that as well.
No row has an empty password, so such a login is refused, though the client was told that its password is right.

`UserTable` is the promise to everybody: a name is taken once and keeps its password, and who is told of a success is told
in the step that takes it. `LoginFlow` implements it for all programs together (`ImplementsTable`), by the identity
mapping: the history variable `told` is what "Registration successful!" was shown for.

### UserList

A click asks twice; of requests that are read in one chunk the server answers the first, and none if the chunk begins with a
chat message (`DropRequests`). It takes the names and sends them in two critical sections (`GetUsernames`,
`SendMessageToClient`; one request of a session at a time, as `ChatServer` shows), and the client hands
the answer to the window by a signal and by a callback. An item is the session it stands for. `UpdateUserList` makes all items anew and
none hidden, and sets the counter to their number, whatever the search field says; `TextChanged` hides what does not
match and counts the rest. So after an answer the list may show everybody under a filter, which `ListTellsTruth` allows
for, and it says that nothing else goes wrong: the counter is what is seen, and the last answer wins.

## What TLC checks

| Run | Instance | Question |
| --- | --- | --- |
| `chat_safety` | 3 sessions, 2 workers, history of 2, 3 writes | the server's safety properties |
| `chat_liveness` | 2 sessions, 2 workers, history of 1, 2 writes | gone peers are taken out, list requests answered |
| `chat_room` | the same | the refinement, the room's fairness included; the inductive invariant |
| `chat_system` | 2 sessions with their windows, 2 workers, history of 2, 3 writes | what the users see; nothing changes under a loop; the inductive invariant |
| `lifecycle_safety` | 3 workers, 3 connections, history of 2, 3 starts | what `stop` leaves behind, accepting, calls, restart; the inductive invariant |
| `lifecycle_liveness` | 2 workers, 2 connections, 2 starts | `stop` returns, calls are answered |
| `stream_split` | 4 messages of 1 to 3 parts, partial writes | delivery and misreading; the inductive invariant |
| `stream_whole` | the same messages, whole writes | the connection implements `FifoChannel` |
| `chat_client` | 3 edits, 3 messages and the notice, 2 clicks on the user list | label, flag, history, what is sent and lost, logout; the inductive invariant |
| `login_flow` | 2 clients and the server, 3 names, 2 passwords, 1 failing query | registrations, logins, windows, the first user; the inductive invariant; the refinement of `UserTable` |
| `user_list` | 2 other users, 3 search texts, 4 requests on their way | what list, filter and counter say |
| `requests_cut` | 5 writes of 1 to 4 parts, buffers of 4 and 3 | what reads make of the stream; the inductive invariant |

Three sessions let a sender, a listener and a newcomer meet; two workers are what every race here
needs, a third session waits in its socket; three writes overflow a history of two, so a newcomer's
history is not the whole log, and one client can write twice with another message in between.
In `chat_system` two windows are what `UsersSeeOneRoom` compares, and each may lag behind the server by any number of messages.
Sessions and workers are symmetric in the safety properties; the liveness runs use no symmetry.
In `lifecycle_safety` one worker may wait for the main thread while a second registers and a third accepts, and
the third start shows that two idle restarts pile up accepts without harm. In the stream runs a message of
three parts can be cut at both of its places, and there are messages enough for two writes to overlap while a
third waits; the client's buffers in `requests_cut` are smaller than the longest message, as 4096 bytes are.
In `login_flow` two clients and the server are three programs that can count no users at once, the names are the test user's and two that clients
register, each its own or both the same, and one query fails at any place; with two failing queries the run passes
too, only longer. In `user_list` one click puts two requests on their way and a
second click two more, which is enough for answers, and users coming and going, to cross each other.
In `chat_client` three edits leave one for each of: sent, lost, still in the field; the socket has no bound.
`AllOver` (`Over` in `ChatClient`) is the only stuttering step of `Next`, for the state in which every client has left or the window is gone, so a
deadlock anywhere else is an error that TLC would report.

The properties of the chat server:

* `LoopsHoldMutex`: mutual exclusion of the loops over registry and history. It orders what several workers write to one
  socket; of the reads and of the writes' completion handlers on that socket it says nothing.
* `LoopsUndisturbed`, an action property checked in `chat_system`: while a worker walks through the registry or the history,
  neither changes under it and nobody is sent anything but by that loop. It is why no iterator is invalidated.
* `HistoryIsLatest`, `DeliveryIsExact`: the history is the end of the log; what a session is sent is a
  contiguous piece of the log from its history on (`ContiguousDelivery`), and nobody is behind when the mutex
  is free (`NobodyBehind`). Together: exactly once, in one order for everybody.
* `SenderOrder`: messages of one client keep their order, none is broadcast twice.
* `RegisteredIffServed`: a registered session has a read pending or a handler running, so the end of
  its peer is noticed; `GoneSessionsEnd` says it is acted upon.
* `RequesterAnsweredOnce`, `RequestsAnswered`: the list request with its two critical sections. Who
  asks is in the list and registered when it is sent, and is answered exactly once.
* `SilentAfterRemoval`: nothing is sent to a session after its disconnect callback.

Those of the other modules:

* `UsersSeeOneRoom`: above.
* `StopIsFinal`: what `stop` leaves behind (`StoppedIsQuiet`), handlers begun before it included, and that a second `start` serves nobody (`RestartIsIdle`).
* `NobodyForgotten`: an accept is always pending or about to be (`AlwaysAccepting`), and no waiting worker is forgotten
  (`CallsMatchWaiters`).
* `StopReturns`, `CallsAnswered`, `WaitCycleDecided`: the wait cycle is the only obstacle; whether it comes about is decided by
  the handlers that have begun when the io_context is stopped.
* `DeliveredCompletely`, `MisreadOnlyAfterOverlap`, `ImplementsChannel`: server to client. The first says that what is delivered is
  right (`DeliveredInOrder`) and that nothing gets stuck between a write, its completion handler, the wire and the buffer (`NothingStuck`).
* `WholeInOrder`, `NothingLostUnlessCut`, `EndNoticed`: client to server.
* `TextsSentOrShown`, `LabelTellsTruth`, `NoticeEndsHistory`, `LogoutEndsConnection`: the chat window.
* `RegistrationsStand`, `ImplementsTable`: registration as two queries, with other programs and deaths in between.
* `LoginIsSound`: what was checked before a window opened is true as long as it is open, and the server, asking
  again, agrees unless a query fails or it did not hear the credentials whole; it accepts only what it has heard. `TestUserFirst`: the first user is the test user, however many programs start at once.
* `WindowFollows`: hiding, showing and the delayed `close()` never leave the user without a window or with two, and
  the program ends only when its user closes one.
* `ListTellsTruth`: the user list.

`IInv`, `SystemInv`, `LifecycleInv`, `StreamInv`, `RequestInv`, `ClientInv` and `LoginInv` are the inductive invariants of the proofs below, checked
here as well; each begins with the types of the module's variables. So does `ListTellsTruth`, which is inductive itself.

Every property has a faulty variant of one mapped operation in the modules ("Faulty variant: ..."),
listed in `PROJECT.json`, under which TLC finds it violated.

### Fairness

A running thread keeps running: weak fairness of `Proceed`. The io_context queues ready handlers in
FIFO order, so an event of a session is not passed over for ever although other sessions keep the
workers busy: strong fairness of starting a handler of each session. A thread that wants the mutex
gets it if it is free again and again: strong fairness of `Enter`. `std::mutex` does not promise
this last one; it is what the pthread mutex under it does in practice, and the bounded number of
writes makes it hold on the checked instance anyway once clients stop writing. Clients are not
fair: nobody has to write, leave or read.

In `ServerLifecycle` the threads and the main thread's event loop run (weak fairness of `Proceed`, of the
steps of `stop` and of `ServeCall`); nobody has to start, stop or connect, and the io_context need not choose
any particular handler. In the streams the kernel takes and carries bytes and ready handlers run (weak
fairness), as long as the connection is there.

## What is proved

`ChatServer_proofs` proves for all values of the constants - any sets of sessions and workers, any
capacity above zero, any number of writes - that `Spec` implies every safety property of
`chat_safety` (`Invariance`, `TypeCorrect`, `MutualExclusion`, `HistoryCorrect`, `DeliveryCorrect`,
`SenderOrderCorrect`, `ServedCorrect`, `AnswersCorrect`, `SilenceCorrect`), that nothing changes under a loop
(`LoopsAreUndisturbed`) and the safety part of the refinement (`RoomRefinement`).

The assumptions are those named in the modules; here: `NoWorker` is no worker, `NoSession` no session,
`MAX_HISTORY_SIZE` is a positive number, `MaxWrites` a number.

The properties speak of states in which nobody is in the middle of something, so they are not
inductive. `IInv` adds:

* control: `WorkerOwnsSession`, `HandledByWorker`, `OneReaderPerSession`, `Membership`, `Strangers` - which sessions are
  registered, authenticated and handled at each place of a handler;
* `Loops` and `Accounted`: while the mutex is held, `Owed(c)` counts the messages the loop in progress
  has still to send to `c`; history sent plus owed is the whole log. `NobodyBehind` is the case
  without a loop, and `ContiguousDelivery` is preserved because what is sent next is the next entry
  of the log (`ReplaySendsNext`, `BroadcastSendsNext`);
* `InboxInOrder`, `LogBeforeInbox`, `HandInBetween`: the numbers of one client grow from the log over
  the worker's hands to the inbox; `SenderOrder` follows when the worker's message joins the log.

The proof has one lemma per group (`OwnerStep`, `MutexStep`, `MembershipStep`, `AnswerStep`,
`HistoryStep`, `DeliveryStep`, `OrderStep`, ...), each with one step per action. `LoopsUndisturbed` is about a step, not a
state, and follows from the invariant before it: the mutex is not free, so no `Enter` is possible (`LoopStep`).

`ChatSystem_proofs` carries this to the windows, for any number of users, workers and messages. `StepOfServer` and
`SystemIsServer`: a step of the system is one of the server or invisible to it, so `IInv` and every theorem above hold here
too. `SystemInv` adds `Numbered` - the chat messages on a connection are numbered without a gap, and all there while it is
open - and `ShownWhenRead` - read and displayed is the same. The one step that is not a matter of bookkeeping is `NextIsRead`: the chat
message read next is the first not yet displayed, because with a larger number the one before would have to lie
behind it. `OneRoomForAll` follows by way of the log: a displayed message stands at the place `base[c] + i` of it
(`ShownFromLog`), no message stands there twice (`SenderOrder`), so two windows that share one message show the same
stretch of one list; and `LateForOldOnly` says that this stretch began with the whole history. 
`WindowsShowTheRoom` is the refinement of the room by the windows: a post of the server is a post of the room, and a message that
is read and displayed is one given to a member, the next one after those given before. That it is the next one is `NextIsRead`
again; that it is the one the room has at that place is `ShownFromLog`; and nobody outside has been sent anything (`SentInside`), so nothing
is displayed before the session comes in.

`ServerLifecycle_proofs` proves `LifecycleInv`, and with it `StopIsFinal` (`QuietAfterStop`), `NobodyForgotten`
(`NoneForgotten`) and the action property `WaitCycleDecided` (`StopIsDecided`), for any sets of workers and connections and
any number of starts. The properties lean on each other through `Flags` (how the flags
follow the main thread) and `WorkersExist` (where workers can be while it is where it is). `StopIsDecided` rests on
`Flags`, too: while the main thread joins, the io_context is stopped, so no handler begins and no call is served. A worker in the
handler of the credentials can only go on to wait, which leaves it doomed, and no step takes a waiting worker away (`DoomStep`).

`ClientToServer_proofs` proves `RequestInv`, and with it `WholeInOrder` (`RequestsInOrder`) and `NothingLostUnlessCut`
(`RequestsComplete`), for any sizes of messages and buffers. The strengthening is `WireInOrder` - the parts on the
wire are consecutive, up to the end of the last write while the connection is open - and
`HandledBeforeWire`: a chunk that begins with a whole message takes all of its parts, so nothing of it is left to
be read again.

`ChatClient_proofs` proves `ClientInv`, and with it every property of `chat_client`, for any bounds (`NoTextGoesUnseen`,
`LabelIsRight`, `NoticeIsLast`, `LogoutIsEffective`). The properties are nearly inductive together: a
loss is shown because the label is right, and a text is new because the field holds the latest edit.

`ServerToClient_proofs` proves `StreamInv`, and with it `DeliveredCompletely` (`DeliveriesAreComplete`) and
`MisreadOnlyAfterOverlap` (`MisreadsNeedOverlap`), for any sizes of messages and any cuts of writes and reads; that with whole
writes nothing is ever misread (`WholeWritesAreReadRight`); and the safety part of the refinement of `FifoChannel`
(`ChannelSafety`), which needs no whole writes. Everything is said of `Unread`, the buffer followed by the wire, so that
a read changes nothing. `UnreadInOrder`: a part stands behind the part before it, a first part behind the
first part of the message before. `PendingInOrder`: a write under way has given the kernel what comes before `next` and nothing
else. `NothingForgotten`: while the connection is there, what is neither delivered nor unread is in some write. From these
the first part in `Unread` belongs to the next message, so what is delivered is right even while writes overlap.
`Blocks`, which holds until they do, says that the parts of a message are next to each other, so nothing is misread.
`LeftShort` - what `processBuffer` leaves is the beginning of a message that is not all there - is what completeness needs: with
nothing on the wire and in the writes the rest of that message would be nowhere, so the buffer is empty.

`LoginFlow_proofs` proves `LoginInv`, and with it every property of `login_flow`: `RegistrationsStand` (`RegistrationsKept`),
`LoginIsSound` (`LoginsAreSound`), `WindowFollows` (`OneWindowIsThere`), `TestUserFirst` (`TestUserIsFirst`) and the refinement
(`TableRefinement`), for any names, passwords and clients and any number of failing queries. `LoginInv` adds `WindowsNest`: which window,
dialog, box and timer can be there together; and `HeardOnce`: what the server has heard of a session is its password or no text. The table part rests on one fact, that no query changes a name that has a
password; the rest follows because every window remembers what was true when it opened.

`UserList_proofs` proves `ListTellsTruth` (`ListIsRight`), for any users, search texts and number of requests. It is inductive
as it stands: the newest list is with a handler, on its way or in the window, and only the last of these is shown.

Only model-checked: `GoneSessionsEnd`, `RequestsAnswered`, `StopReturns`, `CallsAnswered`, `EndNoticed` and the fairness of the
room and of the channel (in `ImplementsRoom` and `ImplementsChannel`), since liveness under fairness is out of the prover's
reach. That the models use sets of any size and sequences of any length is covered by the proofs; that their bounded counters
(`MaxWrites`, `MaxRequests`, `MaxStarts`, ...) may be any number is too, as each is a constant with no upper limit.

## Not modelled, and the plan

`ChatSystem` composes server and windows for safety. That every post is in the end displayed to everybody who stays is not
checked of the composition, whose liveness is too large a question for a run of some minutes; it is the sum of two runs, `ImplementsRoom` (every member
is given the next post) and `ImplementsChannel` (what is sent on an open connection is received). Writes that overlap on a
full send buffer, which can make a client lose its place, are in `ServerToClient` and not composed with the rest. What the
plan has left is to compose `ClientToServer` with `ChatServer`, so that cut requests appear in the log.

Not modelled in parts that otherwise are:

* `m_receivedBuffer.clear()` in `NetworkClient::disconnect`. If the socket is still closing after a second, the rest of a message whose
  beginning was cleared can be read as another; by then the chat window has been closed, and nobody sees it.
* How a message is displayed: bubbles, avatars, times; and the fields of a message, which are its number, or its kind and sender.
* `timestamp`, which no code reads to decide anything.

Left out for good: style sheets and layout (`applyStyles`, most of `setupUi`), which are about half of the client's code, logging,
and the older server, which is not built and does not compile against the current interfaces.
