----------------------------- MODULE ChatClient -----------------------------
(***************************************************************************)
(* One client from the moment its chat window is shown: NetworkClient,     *)
(* ChatController and ChatWindow, all on the Qt main thread.  A handler    *)
(* runs to its end unless it opens a modal box: exec() is a nested event   *)
(* loop, in which the socket's signals are served and clicks on the chat   *)
(* window are not.                                                         *)
(*                                                                         *)
(* setupUi and connectSignals connect the same signals to the same slots,  *)
(* so a click calls its slot twice.                                        *)
(*                                                                         *)
(* A text is the number of its last edit; blank texts count as no text.    *)
(* The server and the network are free to do what TCP allows.              *)
(***************************************************************************)
EXTENDS Integers, Sequences

CONSTANTS
  MaxTexts,      \* bound: edits of the input field
  MaxMessages,   \* bound: length of the displayed history
  MaxRequests    \* bound: user list requests

ASSUME ClientAssumption ==
  MaxTexts \in Nat /\ MaxMessages \in Nat /\ MaxRequests \in Nat

VARIABLES
  socket,         \* state of m_socket
  m_connected,
  m_statusLabel,
  m_inputField,   \* the text in it, or Empty
  edits,          \* number of edits so far
  written,        \* texts written to the socket
  lostUnder,      \* history variable: what the label showed when a text was dropped
  requests,       \* user list requests written
  listWindow,     \* m_userListWindow exists
  m_chatHistory,  \* what is displayed: "message" or "notice"
  window,         \* "shown", "closed" (deleteLater) or "destroyed"
  box,            \* modal box that is open: "none", "emoji", "confirm"
  again,          \* the slot that opened it is to be called a second time
  loggedOut,      \* a logout has been confirmed
  late,           \* history variable: connected only after the logout
  crashed         \* what a call into destroyed callbacks may end in

socketVars == <<socket, m_connected, m_statusLabel, late>>
inputVars == <<m_inputField, edits, written, lostUnder>>
listVars == <<requests, listWindow>>
windowVars == <<window, box, again, loggedOut>>
vars == <<socketVars, inputVars, listVars, m_chatHistory, windowVars, crashed>>

Empty == 0

Established == {"connected", "closing"}

(* connectToServer has been called and the window shown. *)
Init ==
  /\ socket = "connecting"
  /\ m_connected = FALSE
  /\ m_statusLabel = "Disconnected"
  /\ m_inputField = Empty
  /\ edits = 0
  /\ written = << >>
  /\ lostUnder = {}
  /\ requests = 0
  /\ listWindow = FALSE
  /\ m_chatHistory = << >>
  /\ window = "shown"
  /\ box = "none"
  /\ again = FALSE
  /\ loggedOut = FALSE
  /\ late = FALSE
  /\ crashed = FALSE

----------------------------------------------------------------------------
(* The socket's signals, in any event loop as long as the object lives.    *)

(* Faulty variant: the flag is not set. *)
OnConnectedQuiet ==
  /\ window # "destroyed"
  /\ socket = "connecting"
  /\ socket' = "connected"
  /\ m_statusLabel' = "Connected"
  /\ late' = loggedOut
  /\ UNCHANGED <<m_connected, inputVars, listVars, m_chatHistory, windowVars, crashed>>

(* The credentials are written, then everybody is told. *)
OnConnected ==
  /\ window # "destroyed"
  /\ socket = "connecting"
  /\ socket' = "connected"
  /\ m_connected' = TRUE
  /\ m_statusLabel' = "Connected"
  /\ late' = loggedOut
  /\ UNCHANGED <<inputVars, listVars, m_chatHistory, windowVars, crashed>>

(* The connection could not be made.  An error on a connection that was    *)
(* made is followed by disconnected(), see Lost.                           *)
OnError ==
  /\ window # "destroyed"
  /\ socket = "connecting"
  /\ socket' = "unconnected"
  /\ m_statusLabel' = "Disconnected"
  /\ UNCHANGED <<m_connected, late, inputVars, listVars, m_chatHistory, windowVars, crashed>>

(* Faulty variant: the status is not passed on. *)
OnDisconnectedQuiet ==
  /\ socket' = "unconnected"
  /\ m_connected' = FALSE
  /\ m_chatHistory' = Append(m_chatHistory, "notice")
  /\ UNCHANGED <<m_statusLabel, late>>

(* The slot of disconnected(): both callbacks, both signals. *)
OnDisconnected ==
  /\ socket' = "unconnected"
  /\ m_connected' = FALSE
  /\ m_statusLabel' = "Disconnected"
  /\ m_chatHistory' = Append(m_chatHistory, "notice")
  /\ UNCHANGED late

(* The peer closes, an error ends the connection, or a slow close is done. *)
Lost ==
  /\ window # "destroyed"
  /\ socket \in Established
  /\ OnDisconnected
  /\ UNCHANGED <<inputVars, listVars, windowVars, crashed>>

(* One more item at the end of the list. *)
DisplayChatMessage == m_chatHistory' = Append(m_chatHistory, "message")

(* onReadyRead with a chat message; a user list goes to updateUserList. *)
OnReadyRead ==
  /\ window # "destroyed"
  /\ socket \in Established
  /\ Len(m_chatHistory) < MaxMessages
  /\ DisplayChatMessage
  /\ UNCHANGED <<socketVars, inputVars, listVars, windowVars, crashed>>

----------------------------------------------------------------------------
(* The chat window's own events.                                           *)

AtWindow == window = "shown" /\ box = "none"

EditText ==
  /\ edits < MaxTexts
  /\ edits' = edits + 1
  /\ m_inputField' = edits + 1
  /\ UNCHANGED <<written, lostUnder>>

Type == AtWindow /\ EditText /\ UNCHANGED <<socketVars, listVars, m_chatHistory, windowVars, crashed>>

Input == [text |-> m_inputField, written |-> written, lostUnder |-> lostUnder]

(* Faulty variant: the input field is not cleared. *)
SendMessageKeepingInput(s) ==
  IF s.text = Empty THEN s
  ELSE [text |-> s.text,
        written |-> IF socket = "connected" THEN Append(s.written, s.text) ELSE s.written,
        lostUnder |-> IF socket = "connected" THEN s.lostUnder ELSE s.lostUnder \cup {m_statusLabel}]

(* ChatController::sendMessage: NetworkClient drops the text if the socket *)
(* is not connected, and the field is cleared all the same.                *)
SendMessage(s) ==
  IF s.text = Empty THEN s
  ELSE [text |-> Empty,
        written |-> IF socket = "connected" THEN Append(s.written, s.text) ELSE s.written,
        lostUnder |-> IF socket = "connected" THEN s.lostUnder ELSE s.lostUnder \cup {m_statusLabel}]

(* Return key or send button.  If the write fails, Lost follows. *)
ClickSend ==
  /\ AtWindow
  /\ LET s == SendMessage(SendMessage(Input)) IN
       /\ m_inputField' = s.text
       /\ written' = s.written
       /\ lostUnder' = s.lostUnder
  /\ UNCHANGED <<edits, socketVars, listVars, m_chatHistory, windowVars, crashed>>

(* The list window is made once; each of the two calls asks for the list. *)
ClickUsers ==
  /\ AtWindow
  /\ requests + 2 <= MaxRequests
  /\ listWindow' = TRUE
  /\ requests' = IF socket = "connected" THEN requests + 2 ELSE requests
  /\ UNCHANGED <<socketVars, inputVars, m_chatHistory, windowVars, crashed>>

(* A modal box opens in the first call of the slot. *)
OpenBox(kind) ==
  /\ AtWindow
  /\ box' = kind
  /\ again' = TRUE
  /\ UNCHANGED <<window, loggedOut, socketVars, inputVars, listVars, m_chatHistory, crashed>>

(* It is closed, and opens again if the slot has still to be called. *)
SlotReturns ==
  /\ box' = IF again THEN box ELSE "none"
  /\ again' = FALSE

ChooseEmoji ==
  /\ box = "emoji"
  /\ EditText
  /\ SlotReturns
  /\ UNCHANGED <<window, loggedOut, socketVars, listVars, m_chatHistory, crashed>>

CancelEmoji ==
  /\ box = "emoji"
  /\ SlotReturns
  /\ UNCHANGED <<window, loggedOut, socketVars, inputVars, listVars, m_chatHistory, crashed>>

(* Faulty variant: the socket is left alone. *)
DisconnectLeavingSocket ==
  /\ m_connected' = FALSE
  /\ UNCHANGED <<socket, m_statusLabel, late, m_chatHistory>>

(* Faulty variant: the notice does not wait for disconnected(). *)
DisconnectWithNotice ==
  /\ m_connected' = FALSE
  /\ socket' = IF socket = "connected" THEN "closing" ELSE socket
  /\ m_chatHistory' = IF socket = "connected" THEN Append(m_chatHistory, "notice") ELSE m_chatHistory
  /\ UNCHANGED <<m_statusLabel, late>>

(* NetworkClient::disconnect: the socket closes at once or within a        *)
(* second, or is still closing after that; in any other state than         *)
(* connected it is left alone, also if it is about to connect.             *)
Disconnect ==
  \/ socket = "connected" /\ OnDisconnected
  \/ /\ m_connected' = FALSE
     /\ socket' = IF socket = "connected" THEN "closing" ELSE socket
     /\ UNCHANGED <<m_statusLabel, late, m_chatHistory>>

ConfirmLogout ==
  /\ box = "confirm"
  /\ Disconnect
  /\ loggedOut' = TRUE
  /\ window' = "closed"
  /\ SlotReturns
  /\ UNCHANGED <<inputVars, listVars, crashed>>

DeclineLogout ==
  /\ box = "confirm"
  /\ SlotReturns
  /\ UNCHANGED <<window, loggedOut, socketVars, inputVars, listVars, m_chatHistory, crashed>>

CloseWindow ==
  /\ AtWindow
  /\ window' = "closed"
  /\ UNCHANGED <<box, again, loggedOut, socketVars, inputVars, listVars, m_chatHistory, crashed>>

(* The deferred delete, back in the outer event loop.  A socket that is    *)
(* still connected emits disconnected() from its destructor, when the      *)
(* callbacks, declared after it, have been destroyed: they may seem to     *)
(* work or the process may end.                                            *)
Destroy ==
  /\ window = "closed"
  /\ box = "none"
  /\ window' = "destroyed"
  /\ \/ socket \in Established /\ OnDisconnected /\ UNCHANGED crashed
     \/ /\ socket \in Established
        /\ crashed' = TRUE
        /\ UNCHANGED <<socketVars, m_chatHistory>>
     \/ /\ socket \notin Established
        /\ socket' = "unconnected"
        /\ UNCHANGED <<m_connected, m_statusLabel, late, m_chatHistory, crashed>>
  /\ UNCHANGED <<box, again, loggedOut, inputVars, listVars>>

Over == window = "destroyed" /\ UNCHANGED vars

NetworkStep == OnConnected \/ OnError \/ Lost \/ OnReadyRead

UserStep ==
  \/ Type \/ ClickSend \/ ClickUsers
  \/ OpenBox("emoji") \/ ChooseEmoji \/ CancelEmoji
  \/ OpenBox("confirm") \/ ConfirmLogout \/ DeclineLogout
  \/ CloseWindow

Next == NetworkStep \/ UserStep \/ Destroy \/ Over

Spec == Init /\ [][Next]_vars

----------------------------------------------------------------------------
(***************************************************************************)
(* Properties                                                              *)
(***************************************************************************)

(* Every variable has its type. *)
TypeOK ==
  /\ socket \in {"connecting", "connected", "closing", "unconnected"}
  /\ m_statusLabel \in {"Connected", "Disconnected"}
  /\ m_inputField \in 0..MaxTexts /\ edits \in 0..MaxTexts
  /\ written \in Seq(1..MaxTexts)
  /\ lostUnder \subseteq {"Connected", "Disconnected"}
  /\ requests \in 0..MaxRequests
  /\ m_chatHistory \in Seq({"message", "notice"})
  /\ window \in {"shown", "closed", "destroyed"}
  /\ box \in {"none", "emoji", "confirm"}
  /\ {m_connected, listWindow, again, loggedOut, late, crashed} \subseteq BOOLEAN

(* Although every click runs the slot twice, no text is sent twice, and    *)
(* what is in the field has not been sent.                                 *)
SentOnce ==
  /\ \A i, j \in 1..Len(written) : i < j => written[i] < written[j]
  /\ \A i \in 1..Len(written) :
       written[i] <= edits /\ (m_inputField # Empty => written[i] < m_inputField)

(* A text that is dropped is dropped under the eyes of a user who is shown *)
(* "Disconnected".                                                         *)
LossIsShown == lostUnder \subseteq {"Disconnected"}

(* What becomes of a text that leaves the input field: it is sent once, or *)
(* dropped under the label "Disconnected".                                 *)
TextsSentOrShown == SentOnce /\ LossIsShown

(* While the window is open, label and flag follow the socket.  After it   *)
(* has been closed the label may be late, the flag not.                    *)
LabelTellsTruth ==
  /\ window = "shown" =>
       /\ m_statusLabel = "Connected" <=> socket = "connected"
       /\ m_connected <=> socket = "connected"
  /\ m_connected /\ window # "destroyed" => socket = "connected"

(* "Disconnected from server" is displayed once, after every message, and  *)
(* not before the socket is closed.                                        *)
NoticeEndsHistory ==
  /\ \A i \in 1..Len(m_chatHistory) :
       m_chatHistory[i] = "notice" => i = Len(m_chatHistory) /\ socket = "unconnected"
  /\ socket = "connecting" => m_chatHistory = << >>

(* A confirmed logout ends the connection, with one exception: a socket    *)
(* that was still connecting is not stopped, and may connect while the     *)
(* second confirmation box is open.                                        *)
LogoutEndsConnection == loggedOut /\ socket = "connected" => late

(* The inductive invariant: the properties lean on each other, and on the  *)
(* text in the field being one that has been typed.                        *)
ClientInv ==
  /\ TypeOK
  /\ m_inputField <= edits /\ SentOnce
  /\ LossIsShown
  /\ LabelTellsTruth
  /\ NoticeEndsHistory
  /\ LogoutEndsConnection
=============================================================================
