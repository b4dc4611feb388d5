------------------------------ MODULE UserList ------------------------------
(***************************************************************************)
(* The list of online users: ChatWindow asks, MessageHandler answers with  *)
(* who is registered by then, NetworkClient hands the answer on, and       *)
(* UserListWindow shows it, through the filter of its search field.        *)
(*                                                                         *)
(* An item of the list is the session it stands for: two sessions of one   *)
(* user are two items.  The order of the items is that of the server's     *)
(* hash table and is left out.  Between client and server are the FIFO     *)
(* channels that ServerToClient and ClientToServer are about.              *)
(***************************************************************************)
EXTENDS Naturals, Sequences, FiniteSets

CONSTANTS
  Sessions,      \* sessions of other users
  Me,            \* the session of this client
  Texts,         \* what can stand in the search field
  NoText,        \* nothing does
  Matches,       \* the sessions whose name contains the text, for each text
  MaxRequests    \* bound: requests on their way

ASSUME ListAssumption ==
  /\ IsFiniteSet(Sessions) /\ Me \notin Sessions
  /\ NoText \in Texts
  /\ Matches \in [Texts -> SUBSET (Sessions \cup {Me})]
  /\ Matches[NoText] = Sessions \cup {Me}
  /\ MaxRequests \in Nat

VARIABLES
  online,      \* sessions that are registered at the server
  connected,   \* the client's socket is connected
  requests,    \* requests on their way to the server
  taken,       \* the list a handler of the server has taken and not yet sent
  answers,     \* answers on their way back
  window,      \* m_userListWindow: "none", "hidden" or "shown"
  items,       \* m_userListWidget
  hidden,      \* items that are hidden in it
  counter,     \* the number counterLabel shows
  search,      \* searchField
  same         \* history variable: nobody has come or gone since the last answer

windowVars == <<items, hidden, counter, search>>
wireVars == <<requests, taken, answers>>
vars == <<online, connected, wireVars, window, windowVars, same>>

(* The client is connected and registered, the window has not been made. *)
Init ==
  /\ \E others \in SUBSET Sessions : online = others \cup {Me}
  /\ connected = TRUE
  /\ requests = 0
  /\ taken = {}
  /\ answers = << >>
  /\ window = "none"
  /\ items = {} /\ hidden = {} /\ counter = 0
  /\ search = NoText
  /\ same = FALSE

(* openUserListWindow, the slot of two connections: the window is made     *)
(* once, the list requested twice; without a connection nothing is sent.   *)
OpenUserListWindow ==
  /\ requests + Cardinality(taken) + Len(answers) + 2 <= MaxRequests
  /\ requests' = IF connected THEN requests + 2 ELSE requests
  /\ window' = "shown"
  /\ UNCHANGED <<online, connected, taken, answers, windowVars, same>>

(* Closing hides it; what it shows is kept. *)
CloseUserListWindow ==
  /\ window = "shown"
  /\ window' = "hidden"
  /\ UNCHANGED <<online, connected, wireVars, windowVars, same>>

(* What is read behind the first message of a chunk is dropped: requests   *)
(* that come right behind a chat message of this client ...                *)
DropRequests ==
  /\ taken = {}
  /\ \E n \in 1..requests : requests' = requests - n
  /\ UNCHANGED <<online, connected, taken, answers, window, windowVars, same>>

(* ... or behind another request.  handleMessage of a list request: the    *)
(* names are taken ...                                                     *)
GetUsernames ==
  /\ taken = {}
  /\ \E n \in 1..requests : requests' = requests - n
  /\ taken' = {online}
  /\ same' = TRUE
  /\ UNCHANGED <<online, connected, answers, window, windowVars>>

(* ... and sent, after others may have come or gone. *)
SendMessageToClient ==
  /\ \E list \in taken : answers' = Append(answers, list)
  /\ taken' = {}
  /\ UNCHANGED <<online, connected, requests, window, windowVars, same>>

(* Faulty variant: the old items are not cleared. *)
UpdateUserListAppending(list) ==
  /\ items' = items \cup list
  /\ hidden' = {}
  /\ counter' = Cardinality(list)

(* updateUserList: every item is made anew, and none is hidden, whatever   *)
(* the search field says.                                                  *)
UpdateUserList(list) ==
  /\ items' = list
  /\ hidden' = {}
  /\ counter' = Cardinality(list)

(* processBuffer calls it by a signal and by a callback, which is one call *)
(* of it and a repetition.                                                 *)
ReceiveUserList ==
  /\ answers # << >>
  /\ answers' = Tail(answers)
  /\ UpdateUserList(Head(answers))
  /\ UNCHANGED <<online, connected, requests, taken, window, search, same>>

(* The slot of textChanged. *)
TextChanged(text) ==
  /\ window = "shown"
  /\ text # search
  /\ search' = text
  /\ hidden' = items \ Matches[text]
  /\ counter' = Cardinality(items \cap Matches[text])
  /\ UNCHANGED <<online, connected, wireVars, window, items, same>>

(* Another user comes or goes: addClient, removeClient. *)
OthersChange(s) ==
  /\ s \in Sessions
  /\ online' = IF s \in online THEN online \ {s} ELSE online \cup {s}
  /\ same' = FALSE
  /\ UNCHANGED <<connected, wireVars, window, windowVars>>

(* The connection ends, with what is on its way. *)
Disconnected ==
  /\ connected
  /\ connected' = FALSE
  /\ online' = online \ {Me}
  /\ requests' = 0
  /\ taken' = {}
  /\ answers' = << >>
  /\ same' = FALSE
  /\ UNCHANGED <<window, windowVars>>

Next ==
  \/ OpenUserListWindow
  \/ CloseUserListWindow
  \/ DropRequests
  \/ GetUsernames
  \/ SendMessageToClient
  \/ ReceiveUserList
  \/ \E text \in Texts : TextChanged(text)
  \/ \E s \in Sessions : OthersChange(s)
  \/ Disconnected

Spec == Init /\ [][Next]_vars

----------------------------------------------------------------------------
(* Every variable has its type; the handlers of one session take one list  *)
(* at a time, and what is on its way is bounded.                           *)
TypeOK ==
  /\ online \subseteq Sessions \cup {Me}
  /\ connected \in BOOLEAN /\ same \in BOOLEAN
  /\ requests \in Nat
  /\ taken \subseteq SUBSET (Sessions \cup {Me}) /\ Cardinality(taken) <= 1
  /\ answers \in Seq(SUBSET (Sessions \cup {Me}))
  /\ requests + Cardinality(taken) + Len(answers) <= MaxRequests
  /\ window \in {"none", "hidden", "shown"}
  /\ items \subseteq Sessions \cup {Me} /\ hidden \subseteq items
  /\ counter \in Nat
  /\ search \in Texts

(* With nobody come or gone since a handler took the last list, the newest *)
(* list there is - with the handler, on its way or in the window - says    *)
(* who is online, however many requests cross.                             *)
NewestListIsTrue ==
  same => IF taken # {} THEN taken = {online}
          ELSE IF answers # << >> THEN answers[Len(answers)] = online
          ELSE items = online

(* Before the window is made nothing is asked for, so no answer comes to   *)
(* updateUserList without it.                                              *)
NothingBeforeWindow ==
  window = "none" => requests = 0 /\ taken = {} /\ answers = << >> /\ items = {}

(* The counter is the number of items a user sees, and what is hidden is   *)
(* what the search field excludes, or, when the list has come after the    *)
(* last edit of the field, nothing.                                        *)
CounterTellsTruth ==
  /\ counter = Cardinality(items \ hidden)
  /\ hidden \in {{}, items \ Matches[search]}

(* The list is one that was true at once: with every answer received and   *)
(* nobody come or gone since, the items are the sessions online.  The      *)
(* counter and the filter never disagree with what is seen.  It is         *)
(* inductive as it stands.                                                 *)
ListTellsTruth ==
  /\ TypeOK
  /\ NewestListIsTrue
  /\ NothingBeforeWindow
  /\ CounterTellsTruth
=============================================================================
