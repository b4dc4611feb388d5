--------------------------- MODULE ClientManager ---------------------------
(***************************************************************************)
(* server/src/client_manager.cpp: the registry of authenticated sessions,  *)
(* the bounded chat history and the mutex that guards both, shared by all  *)
(* io_context worker threads.                                              *)
(*                                                                         *)
(* Every operation is called by one worker and is split where other        *)
(* workers can see it: taking the mutex, each IClientSession::sendMessage  *)
(* made under it, and releasing it.  An operation that takes the mutex,    *)
(* does one thing and releases it is one action guarded by MutexFree.      *)
(*                                                                         *)
(* `sent[c]` is the sequence of chat messages for which an async_write was *)
(* started on session c.  `log` and `base` are history variables: every    *)
(* message ever broadcast, and for each session the number of messages     *)
(* that had already left the history when it was registered.               *)
(***************************************************************************)
EXTENDS Integers, Sequences, FiniteSets

CONSTANTS
  Sessions,          \* connections, each with its BoostAsioClientSession
  Workers,           \* threads running io_context.run()
  NoWorker,          \* owner of a free mutex
  MAX_HISTORY_SIZE   \* capacity of m_chatHistory

ASSUME NoWorkerAssumption == NoWorker \notin Workers
ASSUME HistorySizeAssumption == MAX_HISTORY_SIZE \in Nat \ {0}

VARIABLES
  m_authenticated,   \* BoostAsioClientSession::m_authenticated of each session
  m_clients,         \* keys of the unordered_map of registered sessions
  m_chatHistory,     \* vector of the last messages, oldest first
  m_clientsMutex,    \* the worker that holds it, or NoWorker
  cursor,            \* loop position of a worker inside addClient
  recipients,        \* sessions a worker inside broadcastMessage has yet to visit
  sent,              \* per session, chat messages handed to async_write
  log,               \* history variable: all broadcasts, in order
  base               \* history variable: per session, Len(log) minus the history it was given

managerVars == <<m_authenticated, m_clients, m_chatHistory, m_clientsMutex,
                 cursor, recipients, sent, log, base>>

ManagerInit ==
  /\ m_authenticated = [c \in Sessions |-> FALSE]
  /\ m_clients = {}
  /\ m_chatHistory = << >>
  /\ m_clientsMutex = NoWorker
  /\ cursor = [w \in Workers |-> 0]
  /\ recipients = [w \in Workers |-> {}]
  /\ sent = [c \in Sessions |-> << >>]
  /\ log = << >>
  /\ base = [c \in Sessions |-> 0]

----------------------------------------------------------------------------
(* std::lock_guard<std::mutex> lock(m_clientsMutex)                        *)

MutexFree == m_clientsMutex = NoWorker

(* Faulty variant: the mutex is taken without waiting for it. *)
LockWithoutWaiting(w) == m_clientsMutex' = w

Lock(w) == MutexFree /\ m_clientsMutex' = w

Unlock(w) == m_clientsMutex = w /\ m_clientsMutex' = NoWorker

----------------------------------------------------------------------------
(* The session side of a send: dropped unless authenticated, else one more *)
(* async_write is started, whatever the state of the earlier ones.         *)

SendMessage(c, m) ==
  sent' = IF m_authenticated[c] THEN [sent EXCEPT ![c] = Append(@, m)] ELSE sent

(* Both isAuthenticated() filters of the manager. *)
Reachable == {c \in m_clients : m_authenticated[c]}

(* Faulty variant: > for >=. *)
AddMessageLate(m) ==
  m_chatHistory' =
    Append(IF Len(m_chatHistory) > MAX_HISTORY_SIZE THEN Tail(m_chatHistory)
                                                    ELSE m_chatHistory, m)

(* addMessage: the oldest entry is erased once the vector is full. *)
AddMessage(m) ==
  m_chatHistory' =
    Append(IF Len(m_chatHistory) >= MAX_HISTORY_SIZE THEN Tail(m_chatHistory)
                                                     ELSE m_chatHistory, m)

----------------------------------------------------------------------------
(* addClient: the mutex is held from the emplace to the last replayed      *)
(* history message; with an empty history it returns at once.              *)

AddClientNoHistory(c) ==
  /\ MutexFree
  /\ m_chatHistory = << >>
  /\ m_clients' = m_clients \cup {c}
  /\ base' = [base EXCEPT ![c] = Len(log)]
  /\ UNCHANGED <<m_authenticated, m_chatHistory, m_clientsMutex, cursor, recipients, sent, log>>

(* Faulty variant: the history is replayed without holding the mutex. *)
AddClientBeginUnlocked(w, c) ==
  /\ MutexFree
  /\ m_chatHistory # << >>
  /\ m_clients' = m_clients \cup {c}
  /\ cursor' = [cursor EXCEPT ![w] = 1]
  /\ base' = [base EXCEPT ![c] = Len(log) - Len(m_chatHistory)]
  /\ UNCHANGED <<m_authenticated, m_chatHistory, m_clientsMutex, recipients, sent, log>>

(* Faulty variant: the replay starts with the second message. *)
AddClientBeginLate(w, c) ==
  /\ Lock(w)
  /\ m_chatHistory # << >>
  /\ m_clients' = m_clients \cup {c}
  /\ cursor' = [cursor EXCEPT ![w] = 2]
  /\ base' = [base EXCEPT ![c] = Len(log) - Len(m_chatHistory)]
  /\ UNCHANGED <<m_authenticated, m_chatHistory, recipients, sent, log>>

AddClientBegin(w, c) ==
  /\ Lock(w)
  /\ m_chatHistory # << >>
  /\ m_clients' = m_clients \cup {c}
  /\ cursor' = [cursor EXCEPT ![w] = 1]
  /\ base' = [base EXCEPT ![c] = Len(log) - Len(m_chatHistory)]
  /\ UNCHANGED <<m_authenticated, m_chatHistory, recipients, sent, log>>

AddClientReplay(w, c) ==
  /\ cursor[w] \in DOMAIN m_chatHistory
  /\ SendMessage(c, m_chatHistory[cursor[w]])
  /\ cursor' = [cursor EXCEPT ![w] = @ + 1]
  /\ UNCHANGED <<m_authenticated, m_clients, m_chatHistory, m_clientsMutex, recipients, log, base>>

AddClientEnd(w) ==
  /\ cursor[w] > Len(m_chatHistory)
  /\ Unlock(w)
  /\ cursor' = [cursor EXCEPT ![w] = 0]
  /\ UNCHANGED <<m_authenticated, m_clients, m_chatHistory, recipients, sent, log, base>>

----------------------------------------------------------------------------
(* Faulty variant: the session is erased without the mutex. *)
RemoveClientUnlocked(c) ==
  /\ m_clients' = m_clients \ {c}
  /\ UNCHANGED <<m_authenticated, m_chatHistory, m_clientsMutex, cursor, recipients, sent, log, base>>

(* Faulty variant: the session stays in the map. *)
RemoveClientForgotten(c) == MutexFree /\ UNCHANGED managerVars

RemoveClient(c) ==
  /\ MutexFree
  /\ m_clients' = m_clients \ {c}
  /\ UNCHANGED <<m_authenticated, m_chatHistory, m_clientsMutex, cursor, recipients, sent, log, base>>

----------------------------------------------------------------------------
(* broadcastMessage: the history is extended and every registered session  *)
(* visited, in the arbitrary order of an unordered_map, under one hold of  *)
(* the mutex.                                                              *)

BroadcastBegin(w, m) ==
  /\ Lock(w)
  /\ AddMessage(m)
  /\ log' = Append(log, m)
  /\ recipients' = [recipients EXCEPT ![w] = m_clients]
  /\ UNCHANGED <<m_authenticated, m_clients, cursor, sent, base>>

BroadcastSend(w, m) ==
  \E c \in recipients[w] :
    /\ SendMessage(c, m)
    /\ recipients' = [recipients EXCEPT ![w] = @ \ {c}]
    /\ UNCHANGED <<m_authenticated, m_clients, m_chatHistory, m_clientsMutex, cursor, log, base>>

(* Faulty variant: the send loop may be left early. *)
BroadcastEndEarly(w) ==
  /\ Unlock(w)
  /\ UNCHANGED <<m_authenticated, m_clients, m_chatHistory, cursor, recipients, sent, log, base>>

(* Faulty variant: the mutex is not released. *)
BroadcastEndLocked(w) == m_clientsMutex = w /\ recipients[w] = {} /\ UNCHANGED managerVars

BroadcastEnd(w) ==
  /\ recipients[w] = {}
  /\ Unlock(w)
  /\ UNCHANGED <<m_authenticated, m_clients, m_chatHistory, cursor, recipients, sent, log, base>>
=============================================================================
