--------------------------- MODULE ChatServerInv ---------------------------
(***************************************************************************)
(* The inductive invariant of ChatServer.  The safety properties are not   *)
(* inductive: each speaks of states in which nobody is in the middle of    *)
(* something.  The parts below say what holds in between - who owns which  *)
(* session, how much of the log a session is still owed while the replay   *)
(* or send loop runs, and where the messages of a client are on their way  *)
(* from the socket to the log.                                             *)
(***************************************************************************)
EXTENDS ChatServer

(* A session has one accept or read at a time, and no two workers run its  *)
(* handlers for them.  Nothing is said of the completion handlers of its   *)
(* writes, which may run meanwhile.                                        *)
OneReaderPerSession ==
  \A v, w \in Workers : v # w => session[v] # session[w] \/ session[w] = NoSession

(* A worker that is not idle runs a handler of a session marked so. *)
WorkerOwnsSession ==
  \A w \in Workers :
    IF pc[w] = "idle" THEN session[w] = NoSession
    ELSE session[w] \in Sessions /\ stage[session[w]] = "handling"

(* ... and a session marked so has its worker. *)
HandledByWorker ==
  \A c \in Sessions : stage[c] = "handling" => \E w \in Workers : session[w] = c

(* Registration follows the stage of the session and the place in its      *)
(* handler; a session not yet registered has been sent nothing.            *)
NotYetRegistered(c) == c \notin m_clients /\ sent[c] = << >>

Membership ==
  /\ \A c \in m_clients : m_authenticated[c]
  /\ \A c \in Sessions :
       /\ stage[c] \in {"none", "credentials"} => NotYetRegistered(c)
       /\ stage[c] = "reading" => c \in m_clients
       /\ stage[c] = "over" => c \notin m_clients
  /\ \A w \in Workers :
       /\ pc[w] = "authenticate" => NotYetRegistered(session[w])
       /\ pc[w] = "addClient" => NotYetRegistered(session[w]) /\ m_authenticated[session[w]]
       /\ pc[w] \notin {"idle", "authenticate", "addClient"} => session[w] \in m_clients

(* Nobody is authenticated before authenticate_client has answered. *)
Strangers ==
  /\ \A c \in Sessions : stage[c] \in {"none", "credentials"} => ~m_authenticated[c]
  /\ \A w \in Workers : pc[w] = "authenticate" => ~m_authenticated[session[w]]

(* What the loops rely on while the mutex is held. *)
Loops ==
  /\ \A w \in Workers :
       /\ pc[w] \in {"broadcast", "sending"} => message[w] \in ChatMessages
       /\ pc[w] = "replay" => /\ cursor[w] \in 1..(Len(m_chatHistory) + 1)
                              /\ base[session[w]] = Len(log) - Len(m_chatHistory)
       /\ pc[w] = "sending" => /\ recipients[w] \subseteq m_clients
                               /\ log # << >> /\ log[Len(log)] = message[w]

(* How many messages session c has yet to be sent by the loop in progress. *)
Owed(c) ==
  IF m_clientsMutex = NoWorker THEN 0
  ELSE IF pc[m_clientsMutex] = "replay"
       THEN IF session[m_clientsMutex] = c
            THEN Len(m_chatHistory) + 1 - cursor[m_clientsMutex] ELSE 0
       ELSE IF c \in recipients[m_clientsMutex] THEN 1 ELSE 0

Accounted == \A c \in m_clients : base[c] + Len(sent[c]) + Owed(c) = Len(log)

(* The ids of one client grow from the log over the worker's hands to the  *)
(* inbox, and none is above the number of requests written.                *)
InboxInOrder ==
  \A c \in Sessions : \A i \in 1..Len(inbox[c]) :
    /\ inbox[c][i].from = c /\ inbox[c][i].id <= written
    /\ \A j \in 1..Len(inbox[c]) : i < j => inbox[c][i].id < inbox[c][j].id

Later(c, id) ==
  \A i \in 1..Len(inbox[c]) : inbox[c][i].kind # "credentials" => id < inbox[c][i].id

LogBeforeInbox ==
  \A k \in 1..Len(log) : log[k].id <= written /\ Later(log[k].from, log[k].id)

Between(w) ==
  /\ message[w].from = session[w] /\ message[w].id <= written
  /\ Later(session[w], message[w].id)
  /\ \A k \in 1..Len(log) : log[k].from = session[w] => log[k].id < message[w].id

HandInBetween == \A w \in Workers : pc[w] = "broadcast" => Between(w)

(* The list in a worker's hands names the client it is for. *)
ListNamesRequester == \A w \in Workers : pc[w] = "reply" => session[w] \in usernames[w]

(* Everything the proofs carry from one state to the next. *)
IInv ==
  /\ TypeOK
  /\ LoopsHoldMutex
  /\ OneReaderPerSession
  /\ WorkerOwnsSession
  /\ HandledByWorker
  /\ Membership
  /\ Strangers
  /\ Loops
  /\ HistoryIsLatest
  /\ ContiguousDelivery
  /\ Accounted
  /\ InboxInOrder
  /\ LogBeforeInbox
  /\ HandInBetween
  /\ SenderOrder
  /\ ListNamesRequester
  /\ OneAnswerPerRequest
=============================================================================
