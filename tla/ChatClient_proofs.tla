-------------------------- MODULE ChatClient_proofs --------------------------
(***************************************************************************)
(* The properties of ChatClient, for any bounds on edits, messages and     *)
(* requests.  One lemma per group of variables that can disturb a          *)
(* property, one step per action.                                          *)
(***************************************************************************)
EXTENDS ChatClient, TLAPS

(* The window is created with nothing written and nothing displayed. *)
LEMMA InitInv == Init => ClientInv
<1>. SUFFICES ASSUME Init  PROVE ClientInv
  OBVIOUS
<1>1. /\ written = << >> /\ Len(written) = 0 /\ written \in Seq(1..MaxTexts)
      /\ m_chatHistory = << >> /\ Len(m_chatHistory) = 0 /\ m_chatHistory \in Seq({"message", "notice"})
  BY DEF Init
<1>2. TypeOK
  <2>1. {m_connected, listWindow, again, loggedOut, late, crashed} \subseteq BOOLEAN
    BY Zenon DEF Init
  <2>. QED  BY <1>1, <2>1, ClientAssumption DEF Init, TypeOK, Empty
<1>3. m_inputField <= edits /\ SentOnce /\ LossIsShown
  BY <1>1 DEF Init, SentOnce, LossIsShown, Empty
<1>4. LabelTellsTruth /\ NoticeEndsHistory /\ LogoutEndsConnection
  BY <1>1 DEF Init, LabelTellsTruth, NoticeEndsHistory, LogoutEndsConnection
<1>. QED  BY <1>2, <1>3, <1>4 DEF ClientInv

(* One call of the slot: types, order and what is lost. *)
LEMMA SendMessageOnce ==
  ASSUME NEW s \in [text : 0..MaxTexts, written : Seq(1..MaxTexts), lostUnder : SUBSET {"Connected", "Disconnected"}],
         m_statusLabel \in {"Connected", "Disconnected"},
         socket # "connected" => m_statusLabel = "Disconnected",
         s.lostUnder \subseteq {"Disconnected"},
         s.text <= edits, edits \in 0..MaxTexts,
         \A i, j \in 1..Len(s.written) : i < j => s.written[i] < s.written[j],
         \A i \in 1..Len(s.written) :
           s.written[i] <= edits /\ (s.text # Empty => s.written[i] < s.text)
  PROVE  LET t == SendMessage(s) IN
         /\ t \in [text : {Empty}, written : Seq(1..MaxTexts), lostUnder : SUBSET {"Disconnected"}]
         /\ \A i, j \in 1..Len(t.written) : i < j => t.written[i] < t.written[j]
         /\ \A i \in 1..Len(t.written) : t.written[i] <= edits
<1>. DEFINE t == SendMessage(s)
<1>1. CASE s.text = Empty
  <2>1. t = s
    BY <1>1 DEF SendMessage
  <2>. QED  BY <1>1, <2>1 DEF Empty
<1>2. CASE s.text # Empty /\ socket = "connected"
  <2>1. s.text \in 1..MaxTexts
    BY <1>2, ClientAssumption DEF Empty
  <2>2. /\ t.text = Empty
        /\ t.written = Append(s.written, s.text)
        /\ t.lostUnder = s.lostUnder
        /\ t = [text |-> t.text, written |-> t.written, lostUnder |-> t.lostUnder]
    BY <1>2 DEF SendMessage
  <2>. HIDE DEF t
  <2>3. t.written \in Seq(1..MaxTexts)
    BY <2>1, <2>2
  <2>4. \A i \in 1..Len(t.written) :
          \/ i \in 1..Len(s.written) /\ t.written[i] = s.written[i]
          \/ i = Len(s.written) + 1 /\ t.written[i] = s.text
    BY <2>2
  <2>5. \A i, j \in 1..Len(t.written) : i < j => t.written[i] < t.written[j]
    BY <2>1, <2>2, <2>4, <1>2
  <2>6. \A i \in 1..Len(t.written) : t.written[i] <= edits
    BY <2>4
  <2>. QED  BY <2>2, <2>3, <2>5, <2>6 DEF t
<1>3. CASE s.text # Empty /\ socket # "connected"
  <2>1. /\ t = [text |-> Empty, written |-> s.written, lostUnder |-> s.lostUnder \cup {"Disconnected"}]
    BY <1>3 DEF SendMessage
  <2>. QED  BY <2>1
<1>. QED  BY <1>1, <1>2, <1>3

(* Sending is the only step that writes or loses a text. *)
LEMMA ClickSendStep == ClientInv /\ ClickSend => ClientInv'
<1>. SUFFICES ASSUME ClientInv, ClickSend  PROVE ClientInv'
  OBVIOUS
<1>. DEFINE s == SendMessage(Input)
            t == SendMessage(s)
<1>1. socket # "connected" => m_statusLabel = "Disconnected"
  BY DEF ClientInv, TypeOK, ClickSend, AtWindow, LabelTellsTruth
<1>2. /\ s \in [text : {Empty}, written : Seq(1..MaxTexts), lostUnder : SUBSET {"Disconnected"}]
      /\ \A i, j \in 1..Len(s.written) : i < j => s.written[i] < s.written[j]
      /\ \A i \in 1..Len(s.written) : s.written[i] <= edits
  <2>1. Input \in [text : 0..MaxTexts, written : Seq(1..MaxTexts), lostUnder : SUBSET {"Connected", "Disconnected"}]
    BY DEF Input, ClientInv, TypeOK
  <2>2. /\ Input.text = m_inputField
        /\ Input.written = written
        /\ Input.lostUnder = lostUnder
    BY DEF Input
  <2>. QED  BY <1>1, <2>1, <2>2, SendMessageOnce DEF ClientInv, TypeOK, SentOnce, LossIsShown
<1>3. t = s
  BY <1>2 DEF SendMessage
<1>4. m_inputField' = Empty /\ written' = s.written /\ lostUnder' = s.lostUnder
  BY <1>2, <1>3 DEF ClickSend
<1>5. UNCHANGED <<edits, socketVars, listVars, m_chatHistory, windowVars, crashed>>
  BY DEF ClickSend
<1>. HIDE DEF s
<1>6. TypeOK'
  BY <1>2, <1>4, <1>5, ClientAssumption DEF ClientInv, TypeOK, Empty, socketVars, listVars, windowVars
<1>7. m_inputField' <= edits' /\ SentOnce' /\ LossIsShown'
  BY <1>2, <1>4, <1>5 DEF ClientInv, TypeOK, Empty, SentOnce, LossIsShown
<1>8. LabelTellsTruth' /\ NoticeEndsHistory' /\ LogoutEndsConnection'
  BY <1>5 DEF ClientInv, LabelTellsTruth, NoticeEndsHistory, LogoutEndsConnection, socketVars, windowVars
<1>. QED  BY <1>6, <1>7, <1>8 DEF ClientInv

(* An edit is newer than everything that has been written. *)
LEMMA EditStep ==
  ASSUME ClientInv, EditText
  PROVE  /\ m_inputField' \in 0..MaxTexts /\ edits' \in 0..MaxTexts
         /\ m_inputField' <= edits' /\ SentOnce' /\ LossIsShown'
         /\ UNCHANGED <<written, lostUnder>>
BY ClientAssumption DEF ClientInv, TypeOK, EditText, SentOnce, LossIsShown, Empty

(* The end of the connection: the notice comes after every message. *)
LEMMA NoticeLast ==
  ASSUME ClientInv, socket # "unconnected", OnDisconnected
  PROVE  m_chatHistory' \in Seq({"message", "notice"}) /\ NoticeEndsHistory'
BY DEF ClientInv, TypeOK, OnDisconnected, NoticeEndsHistory

(* Every step keeps the invariant. *)
LEMMA NextInv == ClientInv /\ [Next]_vars => ClientInv'
<1>. SUFFICES ASSUME ClientInv, [Next]_vars  PROVE ClientInv'
  OBVIOUS
<1>. USE DEF ClientInv
<1>1. CASE OnConnected
  BY <1>1 DEF OnConnected, TypeOK, SentOnce, LossIsShown, LabelTellsTruth, NoticeEndsHistory,
       LogoutEndsConnection, inputVars, listVars, windowVars
<1>2. CASE OnError
  BY <1>2 DEF OnError, TypeOK, SentOnce, LossIsShown, LabelTellsTruth, NoticeEndsHistory,
       LogoutEndsConnection, inputVars, listVars, windowVars
<1>3. CASE Lost
  <2>1. socket # "unconnected" /\ OnDisconnected
    BY <1>3 DEF Lost, Established
  <2>. QED  BY <1>3, <2>1, NoticeLast DEF Lost, OnDisconnected, TypeOK, SentOnce, LossIsShown,
         LabelTellsTruth, LogoutEndsConnection, inputVars, listVars, windowVars
<1>4. CASE OnReadyRead
  <2>1. m_chatHistory' \in Seq({"message", "notice"}) /\ NoticeEndsHistory'
    BY <1>4 DEF OnReadyRead, DisplayChatMessage, Established, TypeOK, NoticeEndsHistory, socketVars
  <2>. QED  BY <1>4, <2>1 DEF OnReadyRead, DisplayChatMessage, TypeOK, SentOnce, LossIsShown, LabelTellsTruth,
         LogoutEndsConnection, socketVars, inputVars, listVars, windowVars
<1>5. CASE Type
  <2>1. EditText
    BY <1>5 DEF Type
  <2>. QED  BY <1>5, <2>1, EditStep DEF Type, TypeOK, LabelTellsTruth, NoticeEndsHistory,
         LogoutEndsConnection, socketVars, listVars, windowVars
<1>6. CASE ClickSend
  BY <1>6, ClickSendStep
<1>7. CASE ClickUsers
  BY <1>7, ClientAssumption DEF ClickUsers, TypeOK, SentOnce, LossIsShown, LabelTellsTruth, NoticeEndsHistory,
       LogoutEndsConnection, socketVars, inputVars, windowVars
<1>8. ASSUME NEW kind \in {"emoji", "confirm"}, OpenBox(kind)  PROVE ClientInv'
  BY <1>8 DEF OpenBox, TypeOK, SentOnce, LossIsShown, LabelTellsTruth, NoticeEndsHistory,
       LogoutEndsConnection, socketVars, inputVars, listVars
<1>9. CASE ChooseEmoji
  <2>1. EditText
    BY <1>9 DEF ChooseEmoji
  <2>. QED  BY <1>9, <2>1, EditStep DEF ChooseEmoji, SlotReturns, TypeOK, LabelTellsTruth, NoticeEndsHistory,
         LogoutEndsConnection, socketVars, listVars
<1>10. CASE CancelEmoji
  BY <1>10 DEF CancelEmoji, SlotReturns, TypeOK, SentOnce, LossIsShown, LabelTellsTruth, NoticeEndsHistory,
       LogoutEndsConnection, socketVars, inputVars, listVars
<1>11. CASE ConfirmLogout
  <2>1. UNCHANGED <<inputVars, listVars, crashed>> /\ SlotReturns /\ loggedOut' = TRUE /\ window' = "closed"
    BY <1>11 DEF ConfirmLogout
  <2>2. CASE socket = "connected" /\ OnDisconnected
    BY <2>1, <2>2, NoticeLast DEF OnDisconnected, SlotReturns, TypeOK, SentOnce, LossIsShown,
         LabelTellsTruth, LogoutEndsConnection, inputVars, listVars
  <2>3. CASE /\ m_connected' = FALSE
             /\ socket' = IF socket = "connected" THEN "closing" ELSE socket
             /\ UNCHANGED <<m_statusLabel, late, m_chatHistory>>
    BY <2>1, <2>3 DEF SlotReturns, TypeOK, SentOnce, LossIsShown, LabelTellsTruth, NoticeEndsHistory,
         LogoutEndsConnection, inputVars, listVars
  <2>. QED  BY <1>11, <2>2, <2>3 DEF ConfirmLogout, Disconnect
<1>12. CASE DeclineLogout
  BY <1>12 DEF DeclineLogout, SlotReturns, TypeOK, SentOnce, LossIsShown, LabelTellsTruth, NoticeEndsHistory,
       LogoutEndsConnection, socketVars, inputVars, listVars
<1>13. CASE CloseWindow
  BY <1>13 DEF CloseWindow, AtWindow, TypeOK, SentOnce, LossIsShown, LabelTellsTruth, NoticeEndsHistory,
       LogoutEndsConnection, socketVars, inputVars, listVars
<1>14. CASE Destroy
  <2>1. UNCHANGED <<box, again, loggedOut, inputVars, listVars>> /\ window' = "destroyed"
    BY <1>14 DEF Destroy
  <2>2. CASE socket \in Established /\ OnDisconnected /\ UNCHANGED crashed
    <3>1. socket # "unconnected"
      BY <2>2 DEF Established
    <3>. QED  BY <2>1, <2>2, <3>1, NoticeLast DEF OnDisconnected, TypeOK, SentOnce, LossIsShown,
           LabelTellsTruth, LogoutEndsConnection, inputVars, listVars
  <2>3. CASE crashed' = TRUE /\ UNCHANGED <<socketVars, m_chatHistory>>
    BY <2>1, <2>3 DEF TypeOK, SentOnce, LossIsShown, LabelTellsTruth, NoticeEndsHistory,
         LogoutEndsConnection, socketVars, inputVars, listVars
  <2>4. CASE /\ socket' = "unconnected"
             /\ UNCHANGED <<m_connected, m_statusLabel, late, m_chatHistory, crashed>>
    BY <2>1, <2>4 DEF TypeOK, SentOnce, LossIsShown, LabelTellsTruth, NoticeEndsHistory,
         LogoutEndsConnection, inputVars, listVars
  <2>. QED  BY <1>14, <2>2, <2>3, <2>4 DEF Destroy
<1>15. CASE UNCHANGED vars
  BY <1>15 DEF vars, TypeOK, SentOnce, LossIsShown, LabelTellsTruth, NoticeEndsHistory,
       LogoutEndsConnection, socketVars, inputVars, listVars, windowVars
<1>. QED
  <2>. USE <1>1, <1>2, <1>3, <1>4, <1>5, <1>6, <1>7, <1>9, <1>10, <1>11, <1>12, <1>13, <1>14, <1>15
  <2>1. CASE NetworkStep
    BY <2>1 DEF NetworkStep
  <2>2. CASE UserStep
    BY <2>2, <1>8 DEF UserStep
  <2>. QED  BY <2>1, <2>2 DEF Next, Over

(* Every reachable state of a chat window and its connection satisfies the *)
(* inductive invariant.                                                    *)
THEOREM ClientInvariance == Spec => []ClientInv
<1>. QED  BY InitInv, NextInv, PTL DEF Spec

(* Every variable keeps its type: what the user does and what the network  *)
(* does never drives the client out of its states.                         *)
THEOREM ClientTypeCorrect == Spec => []TypeOK
<1>1. ClientInv => TypeOK
  BY DEF ClientInv
<1>. QED  BY <1>1, ClientInvariance, PTL

(* ChatWindow::sendMessage runs twice for every click, and no text is      *)
(* written twice; what NetworkClient::sendMessage drops, it drops while    *)
(* the label reads "Disconnected".                                         *)
THEOREM NoTextGoesUnseen == Spec => []TextsSentOrShown
<1>1. ClientInv => TextsSentOrShown
  BY DEF ClientInv, TextsSentOrShown
<1>. QED  BY <1>1, ClientInvariance, PTL

(* updateConnectionStatus and m_connected follow the socket as long as the *)
(* window is open.                                                         *)
THEOREM LabelIsRight == Spec => []LabelTellsTruth
<1>1. ClientInv => LabelTellsTruth
  BY DEF ClientInv
<1>. QED  BY <1>1, ClientInvariance, PTL

(* The notice of a lost connection is displayed once, after every message. *)
THEOREM NoticeIsLast == Spec => []NoticeEndsHistory
<1>1. ClientInv => NoticeEndsHistory
  BY DEF ClientInv
<1>. QED  BY <1>1, ClientInvariance, PTL

(* After a confirmed logout there is no connection, unless it was made     *)
(* after the logout.                                                       *)
THEOREM LogoutIsEffective == Spec => []LogoutEndsConnection
<1>1. ClientInv => LogoutEndsConnection
  BY DEF ClientInv
<1>. QED  BY <1>1, ClientInvariance, PTL
=============================================================================
