-------------------------- MODULE ChatSystem_proofs -------------------------
(***************************************************************************)
(* What the users see, for any number of them and of workers, any capacity *)
(* of the history and any number of messages: the server's steps are those *)
(* of ChatServer, so that its inductive invariant holds here; SystemInv    *)
(* adds what is on the connections and in the windows; and both together   *)
(* imply that all users see one room, and that what the windows show       *)
(* implements it.                                                          *)
(***************************************************************************)
EXTENDS ChatSystem, ChatServer_proofs

(* The windows read what the server has sent and change nothing of it.     *)
LEMMA StepOfServer == [SystemNext]_systemVars => [Next]_vars
BY DEF SystemNext, ServerStep, ReadMessage, systemVars

(* So whatever holds of every behaviour of the server holds here.          *)
THEOREM SystemIsServer == SystemSpec => Spec
<1>1. SystemInit => Init
  BY DEF SystemInit
<1> QED
  BY <1>1, StepOfServer, PTL DEF SystemSpec, Spec

----------------------------------------------------------------------------
(* A step of the server sends one chat message to one registered session,  *)
(* answers one, or sends nothing; only in the last case a peer may close.  *)
LEMMA OneSendAtMost ==
  ASSUME IInv, [Next]_vars
  PROVE  \/ UNCHANGED <<sent, answered>> /\ \A c \in Sessions : peer[c] = "closed" => peer'[c] = "closed"
         \/ /\ UNCHANGED <<answered, peer>>
            /\ \E c \in Sessions, m \in ChatMessages : sent' = [sent EXCEPT ![c] = Append(@, m)]
         \/ /\ UNCHANGED <<sent, peer>>
            /\ \E c \in Sessions : answered' = [answered EXCEPT ![c] = @ + 1]
<1> USE DEF managerVars, peerVars, countVars
<1>0. /\ peer \in [Sessions -> {"absent", "open", "closed"}]
      /\ \A w \in Workers : pc[w] # "idle" => session[w] \in Sessions
      /\ base \in [Sessions -> Nat] /\ log \in Seq(ChatMessages)
      /\ sent \in [Sessions -> Seq(ChatMessages)]
  BY DEF IInv, TypeOK, WorkerOwnsSession
<1>1. CASE UNCHANGED vars
  BY <1>1 DEF vars
<1>2. ASSUME NEW c \in Sessions, ClientStep(c)
      PROVE  UNCHANGED <<sent, answered>> /\ \A d \in Sessions : peer[d] = "closed" => peer'[d] = "closed"
  BY <1>0, <1>2 DEF ClientStep, Connect, Write, Leave
<1>3. ASSUME NEW w \in Workers, NEW c \in Sessions, StartHandler(w, c)
      PROVE  UNCHANGED <<sent, answered, peer>>
  BY <1>3 DEF StartHandler, Accept, ReadCredentials, CredentialsError, ReadError, ReadChat, ReadRequest
<1>4. ASSUME NEW w \in Workers, ReplayOne(w) \/ SendOne(w)
      PROVE  /\ UNCHANGED <<answered, peer>>
             /\ \E c \in Sessions, m \in ChatMessages : sent' = [sent EXCEPT ![c] = Append(@, m)]
  <2>1. PICK c \in Sessions :
          /\ base[c] + Len(sent[c]) < Len(log)
          /\ sent' = [sent EXCEPT ![c] = Append(@, log[base[c] + Len(sent[c]) + 1])]
    BY <1>4, ReplaySendsNext, BroadcastSendsNext
  <2>2. log[base[c] + Len(sent[c]) + 1] \in ChatMessages
    <3>1. base[c] \in Nat /\ Len(sent[c]) \in Nat /\ Len(log) \in Nat
      BY <1>0
    <3>2. base[c] + Len(sent[c]) + 1 \in 1..Len(log)
      BY <2>1, <3>1
    <3> QED
      BY <1>0, <3>2
  <2>3. UNCHANGED <<answered, peer>>
    BY <1>4 DEF ReplayOne, SendOne, At
  <2> QED
    BY <2>1, <2>2, <2>3
<1>5. ASSUME NEW w \in Workers, SendMessageToClient(w)
      PROVE  /\ UNCHANGED <<sent, peer>>
             /\ \/ UNCHANGED answered
                \/ \E c \in Sessions : answered' = [answered EXCEPT ![c] = @ + 1]
  BY <1>0, <1>5 DEF SendMessageToClient, At
<1>6. ASSUME NEW w \in Workers, Rejected(w)
      PROVE  UNCHANGED <<sent, answered>> /\ \A c \in Sessions : peer[c] = "closed" => peer'[c] = "closed"
  BY <1>0, <1>6 DEF Rejected
<1>7. ASSUME NEW w \in Workers,
             \/ Authenticated(w) \/ AddToEmptyHistory(w) \/ BeginReplay(w) \/ EndReplay(w)
             \/ StartSession(w) \/ ReadNext(w) \/ Remove(w) \/ BeginBroadcast(w)
             \/ EndBroadcast(w) \/ GetUsernames(w)
      PROVE  UNCHANGED <<sent, answered, peer>>
  BY <1>7 DEF Authenticated, AddToEmptyHistory, BeginReplay, EndReplay, StartSession, ReadNext, Remove,
              BeginBroadcast, EndBroadcast, GetUsernames, AddClientNoHistory, AddClientBegin,
              AddClientEnd, RemoveClient, BroadcastBegin, BroadcastEnd, At
<1> QED
  BY <1>1, <1>2, <1>3, <1>4, <1>5, <1>6, <1>7 DEF Next, Enter, Proceed, AllOver

(* What that gives to the connection of one session.                       *)
LEMMA WhatIsGiven ==
  ASSUME IInv, SystemTypeOK, ServerStep, NEW c \in Sessions
  PROVE  /\ peer[c] = "closed" => peer'[c] = "closed"
         /\ \/ /\ outgoing'[c] = outgoing[c]
               /\ \/ sent'[c] = sent[c]
                  \/ peer[c] = "closed" /\ \E m \in ChatMessages : sent'[c] = Append(sent[c], m)
            \/ /\ peer[c] # "closed"
               /\ outgoing'[c] = Append(outgoing[c], Chat(Len(sent[c]) + 1))
               /\ \E m \in ChatMessages : sent'[c] = Append(sent[c], m)
            \/ /\ peer[c] # "closed"
               /\ outgoing'[c] = Append(outgoing[c], UserList)
               /\ sent'[c] = sent[c]
<1>0. /\ sent \in [Sessions -> Seq(ChatMessages)] /\ answered \in [Sessions -> Nat]
      /\ outgoing \in [Sessions -> Seq(Carried)]
      /\ outgoing'[c] = outgoing[c] \o Given(c)
  BY DEF IInv, TypeOK, SystemTypeOK, ServerStep, Carry
<1>1. peer[c] = "closed" => peer'[c] = "closed"
  BY OneSendAtMost DEF ServerStep
<1>2. CASE UNCHANGED <<sent, answered>>
  <2>1. Given(c) = << >>
    BY <1>2 DEF Given
  <2>2. outgoing'[c] = outgoing[c]
    BY <1>0, <2>1
  <2> QED
    BY <1>1, <1>2, <2>2
<1>3. ASSUME UNCHANGED answered,
             NEW d \in Sessions, NEW m \in ChatMessages, sent' = [sent EXCEPT ![d] = Append(@, m)]
      PROVE  \/ /\ outgoing'[c] = outgoing[c]
                /\ \/ sent'[c] = sent[c]
                   \/ peer[c] = "closed" /\ \E n \in ChatMessages : sent'[c] = Append(sent[c], n)
             \/ /\ peer[c] # "closed"
                /\ outgoing'[c] = Append(outgoing[c], Chat(Len(sent[c]) + 1))
                /\ \E n \in ChatMessages : sent'[c] = Append(sent[c], n)
  <2>1. CASE d # c
    <3>1. sent'[c] = sent[c] /\ Given(c) = << >>
      BY <1>0, <1>3, <2>1 DEF Given
    <3> QED
      BY <1>0, <3>1
  <2>2. CASE d = c
    <3>1. sent'[c] = Append(sent[c], m) /\ sent[c] \in Seq(ChatMessages)
      BY <1>0, <1>3, <2>2
    <3>2. Len(sent'[c]) = Len(sent[c]) + 1 /\ sent'[c] # sent[c]
      BY <3>1
    <3>3. CASE peer[c] = "closed"
      BY <1>0, <3>1, <3>3 DEF Given
    <3>4. CASE peer[c] # "closed"
      <4>1. Given(c) = <<Chat(Len(sent[c]) + 1)>>
        BY <3>2, <3>4 DEF Given
      <4>2. outgoing'[c] = Append(outgoing[c], Chat(Len(sent[c]) + 1))
        BY <1>0, <4>1
      <4> QED
        BY <3>1, <3>4, <4>2
    <3> QED
      BY <3>3, <3>4
  <2> QED
    BY <2>1, <2>2
<1>4. ASSUME UNCHANGED sent,
             NEW d \in Sessions, answered' = [answered EXCEPT ![d] = @ + 1]
      PROVE  /\ sent'[c] = sent[c]
             /\ \/ outgoing'[c] = outgoing[c]
                \/ peer[c] # "closed" /\ outgoing'[c] = Append(outgoing[c], UserList)
  <2>1. Given(c) = << >> \/ (peer[c] # "closed" /\ Given(c) = <<UserList>>)
    BY <1>4 DEF Given
  <2>2. outgoing[c] \o << >> = outgoing[c] /\ outgoing[c] \o <<UserList>> = Append(outgoing[c], UserList)
    BY <1>0
  <2> QED
    BY <1>0, <1>4, <2>1, <2>2
<1> QED
  BY <1>1, <1>2, <1>3, <1>4, OneSendAtMost DEF ServerStep

----------------------------------------------------------------------------
(* How what is on a connection grows.                                      *)

(* A new message is the last; the others stay where they are.              *)
LEMMA AppendAt ==
  ASSUME NEW T, NEW s \in Seq(T), NEW m \in T
  PROVE  /\ Append(s, m) \in Seq(T) /\ Len(Append(s, m)) = Len(s) + 1
         /\ Append(s, m)[Len(s) + 1] = m
         /\ \A k \in 1..Len(s) : Append(s, m)[k] = s[k]
OBVIOUS

(* Anything appended leaves what was there, in its place.                  *)
LEMMA OnConnectionStays ==
  ASSUME SystemTypeOK, NEW c \in Sessions, NEW m \in Carried,
         outgoing'[c] = Append(outgoing[c], m), NEW n, OnConnection(c, n)
  PROVE  OnConnection(c, n)'
<1>1. outgoing[c] \in Seq(Carried)
  BY DEF SystemTypeOK
<1>2. PICK k \in 1..Len(outgoing[c]) : outgoing[c][k] = Chat(n)
  BY DEF OnConnection
<1>3. k \in 1..Len(outgoing'[c]) /\ outgoing'[c][k] = Chat(n)
  BY <1>1, <1>2, AppendAt
<1> QED
  BY <1>3 DEF OnConnection, Chat

(* A step of the server keeps the types.                                   *)
LEMMA SystemTypeStep == IInv /\ SystemTypeOK /\ ServerStep => SystemTypeOK'
<1> SUFFICES ASSUME IInv, SystemTypeOK, ServerStep PROVE SystemTypeOK'
  OBVIOUS
<1>1. \A c \in Sessions : outgoing'[c] \in Seq(Carried)
  <2> SUFFICES ASSUME NEW c \in Sessions PROVE outgoing'[c] \in Seq(Carried)
    OBVIOUS
  <2>1. outgoing[c] \in Seq(Carried) /\ Len(sent[c]) \in Nat
    BY DEF IInv, TypeOK, SystemTypeOK
  <2>2. Chat(Len(sent[c]) + 1) \in Carried /\ UserList \in Carried
    BY <2>1 DEF Chat, UserList, Carried
  <2>3. \/ outgoing'[c] = outgoing[c]
        \/ outgoing'[c] = Append(outgoing[c], Chat(Len(sent[c]) + 1))
        \/ outgoing'[c] = Append(outgoing[c], UserList)
    BY WhatIsGiven
  <2>4. \A m \in Carried : Append(outgoing[c], m) \in Seq(Carried)
    BY <2>1
  <2> QED
    BY <2>1, <2>2, <2>3, <2>4
<1>2. outgoing' \in [Sessions -> Seq(Carried)]
  BY <1>1 DEF ServerStep, Carry
<1> QED
  BY <1>2 DEF SystemTypeOK, ServerStep, Carry

(* A step of the server keeps each connection numbered without a gap.      *)
LEMMA NumberedStep ==
  ASSUME IInv, SystemTypeOK, ServerStep, NEW c \in Sessions, Numbered(c)
  PROVE  Numbered(c)'
<1>0. /\ sent[c] \in Seq(ChatMessages) /\ outgoing[c] \in Seq(Carried)
      /\ \A k \in 1..Len(outgoing[c]) : outgoing[c][k].n \in Nat
  <2>1. sent[c] \in Seq(ChatMessages) /\ outgoing[c] \in Seq(Carried)
    BY DEF IInv, TypeOK, SystemTypeOK
  <2>2. \A k \in 1..Len(outgoing[c]) : outgoing[c][k] \in Carried
    BY <2>1
  <2> QED
    BY <2>1, <2>2 DEF Carried
<1>1. peer[c] = "closed" => peer'[c] = "closed"
  BY WhatIsGiven
<1>2. CASE outgoing'[c] = outgoing[c] /\ sent'[c] = sent[c]
  BY <1>1, <1>2 DEF Numbered, OnConnection
<1>3. ASSUME NEW m \in ChatMessages, outgoing'[c] = outgoing[c], sent'[c] = Append(sent[c], m),
             peer'[c] = "closed"
      PROVE  Numbered(c)'
  <2>1. Len(sent'[c]) = Len(sent[c]) + 1 /\ Len(sent[c]) \in Nat
    BY <1>0, <1>3
  <2> QED
    BY <1>0, <1>3, <2>1 DEF Numbered, OnConnection
<1>4. ASSUME NEW m \in ChatMessages, peer[c] # "closed", sent'[c] = Append(sent[c], m),
             outgoing'[c] = Append(outgoing[c], Chat(Len(sent[c]) + 1))
      PROVE  Numbered(c)'
  <2> DEFINE new == Chat(Len(sent[c]) + 1)
             last == Len(outgoing[c]) + 1
  <2>1. Len(sent'[c]) = Len(sent[c]) + 1 /\ Len(sent[c]) \in Nat /\ Len(outgoing[c]) \in Nat
    BY <1>0, <1>4
  <2>2. new \in Carried /\ new.kind = "chat" /\ new.n = Len(sent[c]) + 1
    BY <2>1 DEF Chat, Carried
  <2>3. /\ Len(outgoing'[c]) = last /\ outgoing'[c][last] = new
        /\ \A k \in 1..Len(outgoing[c]) : outgoing'[c][k] = outgoing[c][k]
    BY <1>0, <1>4, <2>2, AppendAt
  <2>4. \A n \in 1..Len(sent'[c]) : OnConnection(c, n)'
    <3> SUFFICES ASSUME NEW n \in 1..Len(sent'[c]) PROVE OnConnection(c, n)'
      OBVIOUS
    <3>1. CASE n \in 1..Len(sent[c])
      <4>1. OnConnection(c, n)
        BY <1>4, <3>1 DEF Numbered
      <4> QED
        BY <1>4, <2>2, <4>1, OnConnectionStays
    <3>2. CASE n = Len(sent[c]) + 1
      <4>1. last \in 1..Len(outgoing'[c]) /\ outgoing'[c][last] = Chat(n)
        BY <2>1, <2>3, <3>2
      <4> QED
        BY <4>1 DEF OnConnection, Chat
    <3> QED
      BY <2>1, <3>1, <3>2
  <2>5. ASSUME NEW k \in 1..Len(outgoing'[c]), outgoing'[c][k].kind = "chat"
        PROVE  /\ outgoing'[c][k].n \in Nat /\ outgoing'[c][k].n <= Len(sent'[c])
               /\ k # last => outgoing'[c][k].n <= Len(sent[c])
    <3>1. CASE k = last
      BY <2>1, <2>2, <2>3, <3>1
    <3>2. CASE k \in 1..Len(outgoing[c])
      <4>1. outgoing[c][k].n \in Nat /\ outgoing[c][k].n <= Len(sent[c])
        BY <1>0, <2>3, <2>5, <3>2 DEF Numbered
      <4> QED
        BY <2>1, <2>3, <3>2, <4>1
    <3> QED
      BY <2>1, <2>3, <3>1, <3>2
  <2>6. ASSUME NEW k \in 1..Len(outgoing'[c]), outgoing'[c][k].kind = "chat",
               NEW l \in 1..Len(outgoing'[c]), k < l, outgoing'[c][l].kind = "chat"
        PROVE  outgoing'[c][k].n < outgoing'[c][l].n
    <3>1. k \in 1..Len(outgoing[c]) /\ k # last /\ (l = last \/ l \in 1..Len(outgoing[c]))
      BY <2>1, <2>3, <2>6
    <3>2. CASE l = last
      <4>1. outgoing'[c][k].n \in Nat /\ outgoing'[c][k].n <= Len(sent[c])
        BY <2>5, <2>6, <3>1
      <4>2. outgoing'[c][l].n = Len(sent[c]) + 1
        BY <2>2, <2>3, <3>2
      <4> QED
        BY <2>1, <4>1, <4>2
    <3>3. CASE l \in 1..Len(outgoing[c])
      BY <2>3, <2>6, <3>1, <3>3 DEF Numbered
    <3> QED
      BY <3>1, <3>2, <3>3
  <2>7. \A k \in 1..Len(outgoing'[c]) : outgoing'[c][k].kind = "chat" =>
          \A n \in 1..outgoing'[c][k].n : OnConnection(c, n)'
    <3> SUFFICES ASSUME NEW k \in 1..Len(outgoing'[c]), outgoing'[c][k].kind = "chat",
                        NEW n \in 1..outgoing'[c][k].n
                 PROVE  OnConnection(c, n)'
      OBVIOUS
    <3>1. n \in 1..Len(sent'[c])
      BY <2>1, <2>5
    <3> QED
      BY <2>4, <3>1
  <2> QED
    BY <2>4, <2>5, <2>6, <2>7 DEF Numbered
<1>5. CASE peer[c] # "closed" /\ outgoing'[c] = Append(outgoing[c], UserList) /\ sent'[c] = sent[c]
  <2>1. UserList \in Carried /\ UserList.kind # "chat"
    BY DEF UserList, Carried
  <2>2. /\ Len(outgoing'[c]) = Len(outgoing[c]) + 1 /\ Len(outgoing[c]) \in Nat
        /\ outgoing'[c][Len(outgoing[c]) + 1] = UserList
        /\ \A k \in 1..Len(outgoing[c]) : outgoing'[c][k] = outgoing[c][k]
    BY <1>0, <1>5, <2>1, AppendAt
  <2>3. \A k \in 1..Len(outgoing'[c]) : outgoing'[c][k].kind = "chat" => k \in 1..Len(outgoing[c])
    BY <2>1, <2>2
  <2>4. \A n : OnConnection(c, n) => OnConnection(c, n)'
    BY <1>5, <2>1, OnConnectionStays
  <2>5. peer'[c] # "closed" => \A n \in 1..Len(sent'[c]) : OnConnection(c, n)'
    BY <1>5, <2>4 DEF Numbered
  <2>6. \A k \in 1..Len(outgoing'[c]) : outgoing'[c][k].kind = "chat" =>
          /\ outgoing'[c][k].n <= Len(sent'[c])
          /\ \A n \in 1..outgoing'[c][k].n : OnConnection(c, n)'
    BY <1>5, <2>2, <2>3, <2>4 DEF Numbered
  <2>7. \A k, l \in 1..Len(outgoing'[c]) :
          /\ outgoing'[c][k].kind = "chat" /\ k < l /\ outgoing'[c][l].kind = "chat"
          => outgoing'[c][k].n < outgoing'[c][l].n
    BY <2>2, <2>3 DEF Numbered
  <2> QED
    BY <2>5, <2>6, <2>7 DEF Numbered
<1> QED
  BY <1>1, <1>2, <1>3, <1>4, <1>5, WhatIsGiven

----------------------------------------------------------------------------
(* What has been displayed.                                                *)

(* A step of the server brings nothing to a window by itself.              *)
LEMMA ShownStep ==
  ASSUME IInv, SystemTypeOK, ServerStep, NEW c \in Sessions, Numbered(c), ShownWhenRead(c)
  PROVE  ShownWhenRead(c)'
<1>0. /\ sent[c] \in Seq(ChatMessages) /\ outgoing[c] \in Seq(Carried) /\ shown[c] \in Seq(ChatMessages)
      /\ arrived[c] \in Nat /\ UNCHANGED <<arrived, shown>>
  BY DEF IInv, TypeOK, SystemTypeOK, ServerStep, Carry
<1>1. ASSUME NEW m \in ChatMessages, sent'[c] = Append(sent[c], m)
      PROVE  /\ Len(shown[c]) <= Len(sent'[c])
             /\ \A i \in 1..Len(shown[c]) : shown[c][i] = sent'[c][i]
  BY <1>0, <1>1, AppendAt DEF ShownWhenRead
<1>2. CASE outgoing'[c] = outgoing[c]
  BY <1>0, <1>1, <1>2, WhatIsGiven DEF ShownWhenRead
<1>3. ASSUME NEW m \in ChatMessages, sent'[c] = Append(sent[c], m),
             outgoing'[c] = Append(outgoing[c], Chat(Len(sent[c]) + 1))
      PROVE  ShownWhenRead(c)'
  <2>1. Len(sent[c]) \in Nat /\ Len(outgoing[c]) \in Nat /\ Len(shown[c]) <= Len(sent[c])
    BY <1>0 DEF ShownWhenRead
  <2>2. Chat(Len(sent[c]) + 1) \in Carried /\ Chat(Len(sent[c]) + 1).n = Len(sent[c]) + 1
    BY <2>1 DEF Chat, Carried
  <2>3. /\ Len(outgoing'[c]) = Len(outgoing[c]) + 1
        /\ outgoing'[c][Len(outgoing[c]) + 1].n = Len(sent[c]) + 1
        /\ \A k \in 1..Len(outgoing[c]) : outgoing'[c][k] = outgoing[c][k]
    BY <1>0, <1>3, <2>2, AppendAt
  <2>4. \A k \in 1..Len(outgoing'[c]) : outgoing'[c][k].kind = "chat" =>
          (k <= arrived[c] <=> outgoing'[c][k].n <= Len(shown[c]))
    <3> SUFFICES ASSUME NEW k \in 1..Len(outgoing'[c]), outgoing'[c][k].kind = "chat"
                 PROVE  k <= arrived[c] <=> outgoing'[c][k].n <= Len(shown[c])
      OBVIOUS
    <3>1. CASE k \in 1..Len(outgoing[c])
      BY <2>3, <3>1 DEF ShownWhenRead
    <3>2. CASE k = Len(outgoing[c]) + 1
      <4>1. ~(k <= arrived[c])
        BY <1>0, <2>1, <3>2 DEF ShownWhenRead
      <4>2. ~(outgoing'[c][k].n <= Len(shown[c]))
        <5>1. Len(shown[c]) \in Nat
          BY <1>0
        <5> QED
          BY <2>1, <2>3, <3>2, <5>1
      <4> QED
        BY <4>1, <4>2
    <3> QED
      BY <2>1, <2>3, <3>1, <3>2
  <2>5. arrived[c] <= Len(outgoing'[c])
    BY <1>0, <2>1, <2>3 DEF ShownWhenRead
  <2> QED
    BY <1>0, <1>1, <1>3, <2>4, <2>5 DEF ShownWhenRead
<1>4. CASE outgoing'[c] = Append(outgoing[c], UserList) /\ sent'[c] = sent[c]
  <2>1. UserList \in Carried /\ UserList.kind # "chat"
    BY DEF UserList, Carried
  <2>2. /\ Len(outgoing'[c]) = Len(outgoing[c]) + 1 /\ Len(outgoing[c]) \in Nat
        /\ outgoing'[c][Len(outgoing[c]) + 1] = UserList
        /\ \A k \in 1..Len(outgoing[c]) : outgoing'[c][k] = outgoing[c][k]
    BY <1>0, <1>4, <2>1, AppendAt
  <2>3. \A k \in 1..Len(outgoing'[c]) : outgoing'[c][k].kind = "chat" => k \in 1..Len(outgoing[c])
    BY <2>1, <2>2
  <2>4. arrived[c] <= Len(outgoing'[c])
    BY <1>0, <2>2 DEF ShownWhenRead
  <2> QED
    BY <1>0, <1>4, <2>2, <2>3, <2>4 DEF ShownWhenRead
<1> QED
  BY <1>2, <1>3, <1>4, WhatIsGiven

(* The chat message that is read next is the first that is not displayed:  *)
(* the numbers have no gap, and all smaller ones have been read.           *)
LEMMA NextIsRead ==
  ASSUME IInv, SystemTypeOK, NEW c \in Sessions, Numbered(c), ShownWhenRead(c),
         arrived[c] < Len(outgoing[c]), outgoing[c][arrived[c] + 1].kind = "chat"
  PROVE  /\ outgoing[c][arrived[c] + 1].n = Len(shown[c]) + 1
         /\ Len(shown[c]) + 1 \in 1..Len(sent[c])
<1> DEFINE k == arrived[c] + 1
           n == outgoing[c][k].n
<1>1. /\ arrived[c] \in Nat /\ Len(outgoing[c]) \in Nat /\ Len(shown[c]) \in Nat /\ Len(sent[c]) \in Nat
      /\ k \in 1..Len(outgoing[c]) /\ n \in Nat
  <2>1. /\ arrived[c] \in Nat /\ outgoing[c] \in Seq(Carried)
        /\ shown[c] \in Seq(ChatMessages) /\ sent[c] \in Seq(ChatMessages)
    BY DEF IInv, TypeOK, SystemTypeOK
  <2>2. k \in 1..Len(outgoing[c])
    BY <2>1
  <2>3. outgoing[c][k] \in Carried
    BY <2>1, <2>2
  <2> QED
    BY <2>1, <2>2, <2>3 DEF Carried
<1>2. n <= Len(sent[c]) /\ Len(shown[c]) < n
  <2>1. n <= Len(sent[c]) /\ (k <= arrived[c] <=> n <= Len(shown[c]))
    BY <1>1 DEF Numbered, ShownWhenRead
  <2> QED
    BY <1>1, <2>1
<1>3. n = Len(shown[c]) + 1
  <2> SUFFICES ASSUME Len(shown[c]) + 1 < n PROVE FALSE
    BY <1>1, <1>2
  <2>1. Len(shown[c]) + 1 \in 1..n
    BY <1>1
  <2>2. PICK l \in 1..Len(outgoing[c]) : outgoing[c][l] = Chat(Len(shown[c]) + 1)
    BY <1>1, <2>1 DEF Numbered, OnConnection
  <2>3. outgoing[c][l].kind = "chat" /\ outgoing[c][l].n = Len(shown[c]) + 1
    BY <2>2 DEF Chat
  <2>4. ~(l <= arrived[c])
    <3>1. l <= arrived[c] <=> outgoing[c][l].n <= Len(shown[c])
      BY <2>3 DEF ShownWhenRead
    <3> QED
      BY <1>1, <2>3, <3>1
  <2>5. l # k
    BY <1>1, <2>3
  <2>6. k < l
    BY <1>1, <2>4, <2>5
  <2>7. n < outgoing[c][l].n
    BY <1>1, <2>3, <2>6 DEF Numbered
  <2> QED
    BY <1>1, <2>3, <2>7
<1> QED
  BY <1>1, <1>2, <1>3

(* Reading displays it.                                                    *)
LEMMA ReadStep ==
  ASSUME IInv, SystemTypeOK, NEW c \in Sessions, ReadMessage(c),
         \A d \in Sessions : Numbered(d) /\ ShownWhenRead(d)
  PROVE  SystemTypeOK' /\ \A d \in Sessions : Numbered(d)' /\ ShownWhenRead(d)'
<1> DEFINE msg == outgoing[c][arrived[c] + 1]
<1>0. /\ sent[c] \in Seq(ChatMessages) /\ outgoing[c] \in Seq(Carried) /\ shown[c] \in Seq(ChatMessages)
      /\ arrived \in [Sessions -> Nat] /\ arrived[c] \in Nat /\ shown \in [Sessions -> Seq(ChatMessages)]
  BY DEF IInv, TypeOK, SystemTypeOK
<1>1. /\ arrived[c] < Len(outgoing[c]) /\ arrived' = [arrived EXCEPT ![c] = @ + 1]
      /\ shown' = IF msg.kind = "chat" THEN [shown EXCEPT ![c] = Append(@, sent[c][msg.n])] ELSE shown
      /\ UNCHANGED <<sent, peer, outgoing>>
  BY DEF ReadMessage, vars, managerVars, peerVars
<1>2. arrived'[c] = arrived[c] + 1 /\ \A d \in Sessions \ {c} : arrived'[d] = arrived[d] /\ shown'[d] = shown[d]
  BY <1>0, <1>1
<1>3. \A d \in Sessions : Numbered(d)'
  BY <1>1 DEF Numbered, OnConnection
<1>4. \A d \in Sessions \ {c} : ShownWhenRead(d)'
  BY <1>1, <1>2 DEF ShownWhenRead
<1>5. CASE msg.kind = "chat"
  <2>1. msg.n = Len(shown[c]) + 1 /\ Len(shown[c]) + 1 \in 1..Len(sent[c])
    BY <1>1, <1>5, NextIsRead
  <2>2. sent[c][msg.n] \in ChatMessages
    BY <1>0, <2>1
  <2>3. shown'[c] = Append(shown[c], sent[c][msg.n])
    BY <1>0, <1>1, <1>5
  <2>4. SystemTypeOK'
    BY <1>0, <1>1, <1>5, <2>2 DEF SystemTypeOK
  <2>5. /\ Len(shown'[c]) = Len(shown[c]) + 1 /\ Len(shown[c]) \in Nat
        /\ shown'[c][Len(shown[c]) + 1] = sent[c][Len(shown[c]) + 1]
        /\ \A i \in 1..Len(shown[c]) : shown'[c][i] = shown[c][i]
    BY <1>0, <2>1, <2>2, <2>3, AppendAt
  <2>6. \A i \in 1..Len(shown'[c]) : shown'[c][i] = sent[c][i]
    <3> SUFFICES ASSUME NEW i \in 1..Len(shown'[c]) PROVE shown'[c][i] = sent[c][i]
      OBVIOUS
    <3>1. i \in 1..Len(shown[c]) \/ i = Len(shown[c]) + 1
      BY <2>5
    <3> QED
      BY <2>5, <3>1 DEF ShownWhenRead
  <2>7. \A k \in 1..Len(outgoing[c]) : outgoing[c][k].kind = "chat" =>
          (k <= arrived[c] + 1 <=> outgoing[c][k].n <= Len(shown[c]) + 1)
    <3> SUFFICES ASSUME NEW k \in 1..Len(outgoing[c]), outgoing[c][k].kind = "chat"
                 PROVE  k <= arrived[c] + 1 <=> outgoing[c][k].n <= Len(shown[c]) + 1
      OBVIOUS
    <3>1. outgoing[c][k].n \in Nat /\ Len(outgoing[c]) \in Nat /\ arrived[c] + 1 \in 1..Len(outgoing[c])
      <4>1. outgoing[c][k] \in Carried
        BY <1>0
      <4>2. outgoing[c][k].n \in Nat
        BY <4>1 DEF Carried
      <4>3. Len(outgoing[c]) \in Nat
        BY <1>0
      <4> QED
        BY <1>0, <1>1, <4>2, <4>3
    <3>2. k <= arrived[c] <=> outgoing[c][k].n <= Len(shown[c])
      BY DEF ShownWhenRead
    <3>3. CASE k <= arrived[c]
      BY <1>0, <2>5, <3>1, <3>2, <3>3
    <3>4. CASE k = arrived[c] + 1
      BY <2>1, <2>5, <3>4
    <3>5. CASE arrived[c] + 1 < k
      <4>1. msg.n < outgoing[c][k].n
        BY <1>5, <3>1, <3>5 DEF Numbered
      <4> QED
        BY <1>0, <2>1, <2>5, <3>1, <3>5, <4>1
    <3> QED
      BY <1>0, <3>3, <3>4, <3>5
  <2>8. ShownWhenRead(c)'
    <3>1. sent'[c] = sent[c] /\ outgoing'[c] = outgoing[c] /\ arrived'[c] = arrived[c] + 1
      BY <1>1, <1>2
    <3>2. arrived'[c] <= Len(outgoing'[c])
      BY <1>0, <1>1, <3>1
    <3>3. Len(shown'[c]) <= Len(sent'[c])
      BY <2>1, <2>5, <3>1
    <3>4. \A i \in 1..Len(shown'[c]) : shown'[c][i] = sent'[c][i]
      BY <2>6, <3>1
    <3>5. \A k \in 1..Len(outgoing'[c]) : outgoing'[c][k].kind = "chat" =>
            (k <= arrived'[c] <=> outgoing'[c][k].n <= Len(shown'[c]))
      BY <2>5, <2>7, <3>1
    <3> QED
      BY <3>2, <3>3, <3>4, <3>5 DEF ShownWhenRead
  <2> QED
    BY <1>3, <1>4, <2>4, <2>8
<1>6. CASE msg.kind # "chat"
  <2>1. SystemTypeOK'
    BY <1>0, <1>1, <1>6 DEF SystemTypeOK
  <2>2. \A k \in 1..Len(outgoing[c]) : outgoing[c][k].kind = "chat" =>
          (k <= arrived[c] + 1 <=> outgoing[c][k].n <= Len(shown[c]))
    <3> SUFFICES ASSUME NEW k \in 1..Len(outgoing[c]), outgoing[c][k].kind = "chat"
                 PROVE  k <= arrived[c] + 1 <=> outgoing[c][k].n <= Len(shown[c])
      OBVIOUS
    <3>1. k # arrived[c] + 1
      BY <1>6
    <3>2. k <= arrived[c] + 1 <=> k <= arrived[c]
      BY <1>0, <3>1
    <3> QED
      BY <3>2 DEF ShownWhenRead
  <2>3. arrived[c] + 1 <= Len(outgoing[c])
    BY <1>0, <1>1
  <2>4. ShownWhenRead(c)'
    BY <1>1, <1>2, <1>6, <2>2, <2>3 DEF ShownWhenRead
  <2> QED
    BY <1>3, <1>4, <2>1, <2>4
<1> QED
  BY <1>5, <1>6

----------------------------------------------------------------------------
(* The history a session is given is the whole one, and later it only      *)
(* moves on.                                                               *)
LEMMA LateStep == IInv /\ IInv' /\ LateForOldOnly /\ [Next]_vars => LateForOldOnly'
<1> SUFFICES ASSUME IInv, IInv', LateForOldOnly, [Next]_vars PROVE LateForOldOnly'
  OBVIOUS
<1> USE DEF managerVars
<1>0. /\ log \in Seq(ChatMessages) /\ m_chatHistory \in Seq(ChatMessages)
      /\ base \in [Sessions -> Nat] /\ m_clients \subseteq Sessions
      /\ \A w \in Workers : pc[w] # "idle" => session[w] \in Sessions
  BY DEF IInv, TypeOK, WorkerOwnsSession
<1>1. CASE UNCHANGED <<base, log, m_chatHistory>> /\ m_clients' \subseteq m_clients
  BY <1>1 DEF LateForOldOnly
<1>2. ASSUME NEW w \in Workers, AddToEmptyHistory(w) \/ BeginReplay(w) PROVE LateForOldOnly'
  <2>1. /\ session[w] \in Sessions /\ UNCHANGED <<log, m_chatHistory>>
        /\ m_clients' = m_clients \cup {session[w]}
        /\ base' = [base EXCEPT ![session[w]] = Len(log) - Len(m_chatHistory)]
    <3>1. CASE AddToEmptyHistory(w)
      <4>1. /\ m_chatHistory = << >> /\ base' = [base EXCEPT ![session[w]] = Len(log)]
            /\ pc[w] = "addClient" /\ UNCHANGED <<log, m_chatHistory>>
            /\ m_clients' = m_clients \cup {session[w]}
        BY <3>1 DEF AddToEmptyHistory, AddClientNoHistory, At
      <4>2. Len(log) - Len(m_chatHistory) = Len(log)
        BY <1>0, <4>1
      <4> QED
        BY <1>0, <4>1, <4>2
    <3>2. CASE BeginReplay(w)
      BY <1>0, <3>2 DEF BeginReplay, AddClientBegin, At
    <3> QED
      BY <1>2, <3>1, <3>2
  <2> QED
    BY <1>0, <2>1 DEF LateForOldOnly
<1>3. ASSUME NEW w \in Workers, BeginBroadcast(w) PROVE LateForOldOnly'
  <2>1. log' = Append(log, message[w]) /\ UNCHANGED <<m_clients, base>> /\ message[w] \in ChatMessages
    BY <1>3 DEF BeginBroadcast, BroadcastBegin, At, IInv, Loops
  <2>2. Len(log') = Len(log) + 1 /\ Len(log) \in Nat
    BY <1>0, <2>1
  <2>3. Len(log) - Len(m_chatHistory) = IF Len(log) > MAX_HISTORY_SIZE THEN Len(log) - MAX_HISTORY_SIZE ELSE 0
    BY <2>2, HistorySizeAssumption DEF IInv, HistoryIsLatest
  <2>4. Len(log') - Len(m_chatHistory') = IF Len(log') > MAX_HISTORY_SIZE THEN Len(log') - MAX_HISTORY_SIZE ELSE 0
    BY <2>2, HistorySizeAssumption DEF IInv, HistoryIsLatest
  <2>5. Len(log) - Len(m_chatHistory) <= Len(log') - Len(m_chatHistory')
    BY <2>2, <2>3, <2>4, HistorySizeAssumption
  <2>6. /\ Len(log) - Len(m_chatHistory) \in Int /\ Len(log') - Len(m_chatHistory') \in Int
        /\ \A c \in m_clients : base[c] \in Nat
    BY <1>0, <2>2, <2>3, <2>4, HistorySizeAssumption
  <2> QED
    BY <2>1, <2>5, <2>6 DEF LateForOldOnly
<1>4. ASSUME NEW c \in Sessions, ClientStep(c) PROVE LateForOldOnly'
  BY <1>1, <1>4 DEF ClientStep, Connect, Write, Leave
<1>5. ASSUME NEW w \in Workers, NEW c \in Sessions, StartHandler(w, c) PROVE LateForOldOnly'
  BY <1>1, <1>5 DEF StartHandler, Accept, ReadCredentials, CredentialsError, ReadError, ReadChat, ReadRequest
<1>6. ASSUME NEW w \in Workers, Enter(w) \/ Proceed(w) PROVE LateForOldOnly'
  <2>1. CASE \/ Authenticated(w) \/ Rejected(w) \/ ReplayOne(w) \/ EndReplay(w) \/ StartSession(w)
             \/ ReadNext(w) \/ SendOne(w) \/ EndBroadcast(w)
    BY <1>1, <2>1 DEF Authenticated, Rejected, ReplayOne, EndReplay, StartSession, ReadNext, SendOne,
                      EndBroadcast, AddClientReplay, AddClientEnd, BroadcastSend, BroadcastEnd
  <2>2. CASE Remove(w) \/ GetUsernames(w) \/ SendMessageToClient(w)
    BY <1>1, <2>2 DEF Remove, RemoveClient, GetUsernames, SendMessageToClient
  <2> QED
    BY <1>2, <1>3, <1>6, <2>1, <2>2 DEF Enter, Proceed
<1>7. CASE UNCHANGED vars
  BY <1>1, <1>7 DEF vars
<1> QED
  BY <1>4, <1>5, <1>6, <1>7 DEF Next, AllOver

----------------------------------------------------------------------------
(* At first nothing has been sent. *)
LEMMA SystemInvInit == SystemInit => SystemInv
<1> SUFFICES ASSUME SystemInit PROVE SystemInv
  OBVIOUS
<1>1. /\ m_clients = {} /\ sent = [c \in Sessions |-> << >>] /\ outgoing = [c \in Sessions |-> << >>]
      /\ arrived = [c \in Sessions |-> 0] /\ shown = [c \in Sessions |-> << >>]
  BY DEF SystemInit, Init, ManagerInit
<1>2. SystemTypeOK /\ LateForOldOnly
  BY <1>1 DEF SystemTypeOK, LateForOldOnly
<1>3. \A c \in Sessions : Len(sent[c]) = 0 /\ Len(outgoing[c]) = 0 /\ Len(shown[c]) = 0 /\ arrived[c] = 0
  BY <1>1
<1> QED
  BY <1>2, <1>3 DEF SystemInv, Numbered, ShownWhenRead

(* Every step of the server and of a window preserves the invariant. *)
LEMMA SystemInvStep == IInv /\ IInv' /\ SystemInv /\ [SystemNext]_systemVars => SystemInv'
<1> SUFFICES ASSUME IInv, IInv', SystemInv, [SystemNext]_systemVars PROVE SystemInv'
  OBVIOUS
<1>0. SystemTypeOK /\ \A c \in Sessions : Numbered(c) /\ ShownWhenRead(c)
  BY DEF SystemInv
<1>1. LateForOldOnly'
  BY StepOfServer, LateStep DEF SystemInv
<1>2. CASE ServerStep
  <2>1. SystemTypeOK'
    BY <1>0, <1>2, SystemTypeStep
  <2>2. ASSUME NEW c \in Sessions PROVE Numbered(c)' /\ ShownWhenRead(c)'
    BY <1>0, <1>2, NumberedStep, ShownStep
  <2> QED
    BY <1>1, <2>1, <2>2 DEF SystemInv
<1>3. ASSUME NEW c \in Sessions, ReadMessage(c) PROVE SystemInv'
  BY <1>0, <1>1, <1>3, ReadStep DEF SystemInv
<1>4. CASE UNCHANGED systemVars
  <2>1. UNCHANGED <<sent, peer, outgoing, arrived, shown>>
    BY <1>4 DEF systemVars, streamVars, vars, managerVars, peerVars
  <2> QED
    BY <1>0, <1>1, <2>1 DEF SystemInv, SystemTypeOK, Numbered, OnConnection, ShownWhenRead
<1> QED
  BY <1>2, <1>3, <1>4 DEF SystemNext

(* What is on the connections and in the windows is what was sent, in the  *)
(* order and without a gap, in every reachable state.                      *)
THEOREM SystemInvariance == SystemSpec => [](IInv /\ SystemInv)
<1>1. SystemInit => IInv /\ SystemInv
  BY InitInv, SystemInvInit DEF SystemInit
<1>2. IInv /\ SystemInv /\ [SystemNext]_systemVars => (IInv /\ SystemInv)'
  BY StepOfServer, InvStep, SystemInvStep
<1> QED
  BY <1>1, <1>2, PTL DEF SystemSpec

----------------------------------------------------------------------------
(* What the invariant means to the users.                                  *)

(* A displayed message is in the one order of broadcasts, at the place     *)
(* that its number and the session's history give it.                      *)
LEMMA ShownFromLog ==
  ASSUME IInv, SystemInv, NEW c \in Sessions
  PROVE  /\ base[c] \in Nat /\ Len(shown[c]) \in Nat
         /\ \A i \in 1..Len(shown[c]) : base[c] + i \in 1..Len(log) /\ shown[c][i] = log[base[c] + i]
<1>1. /\ base[c] \in Nat /\ Len(shown[c]) \in Nat /\ Len(sent[c]) \in Nat /\ Len(log) \in Nat
      /\ Len(shown[c]) <= Len(sent[c]) /\ \A i \in 1..Len(shown[c]) : shown[c][i] = sent[c][i]
  BY DEF IInv, TypeOK, SystemInv, SystemTypeOK, ShownWhenRead
<1>2. /\ base[c] + Len(sent[c]) <= Len(log)
      /\ \A i \in 1..Len(sent[c]) : sent[c][i] = log[base[c] + i]
  BY DEF IInv, ContiguousDelivery
<1>3. ASSUME NEW i \in 1..Len(shown[c])
      PROVE  base[c] + i \in 1..Len(log) /\ shown[c][i] = log[base[c] + i]
  <2>1. i \in 1..Len(sent[c])
    BY <1>1
  <2>2. shown[c][i] = log[base[c] + i]
    BY <1>1, <1>2, <2>1
  <2>3. base[c] + i \in 1..Len(log)
    BY <1>1, <1>2, <2>1
  <2> QED
    BY <2>2, <2>3
<1> QED
  BY <1>1, <1>3

(* Equal messages have equal places, since no broadcast is made twice; what *)
(* stands around them is the same piece of the log.                        *)
LEMMA InvSameConversation == IInv /\ SystemInv => SameConversation
<1> SUFFICES ASSUME IInv, SystemInv, NEW c \in Sessions, NEW d \in Sessions,
                    NEW i \in 1..Len(shown[c]), NEW k \in 1..Len(shown[d]), shown[c][i] = shown[d][k]
             PROVE  /\ c = d => i = k
                    /\ \A j \in 1..Len(shown[c]) :
                         /\ j - i + k \in 1..Len(shown[d]) => shown[d][j - i + k] = shown[c][j]
                         /\ j > i /\ shown[c][j].from = shown[c][i].from => shown[c][j].id > shown[c][i].id
  BY DEF SameConversation
<1>1. /\ base[c] \in Nat /\ base[d] \in Nat /\ Len(shown[c]) \in Nat /\ Len(shown[d]) \in Nat
      /\ \A j \in 1..Len(shown[c]) : base[c] + j \in 1..Len(log) /\ shown[c][j] = log[base[c] + j]
      /\ \A j \in 1..Len(shown[d]) : base[d] + j \in 1..Len(log) /\ shown[d][j] = log[base[d] + j]
  BY ShownFromLog
<1>2. /\ \A x, y \in 1..Len(log) : x < y /\ log[x].from = log[y].from => log[x].id < log[y].id
      /\ \A x \in 1..Len(log) : log[x].id \in Nat
  <2>1. log \in Seq(ChatMessages)
    BY DEF IInv, TypeOK
  <2>2. \A x \in 1..Len(log) : log[x] \in ChatMessages
    BY <2>1
  <2> QED
    BY <2>2, MaxWritesAssumption DEF ChatMessages, IInv, SenderOrder
<1>3. base[c] + i = base[d] + k
  <2> DEFINE x == base[c] + i
             y == base[d] + k
  <2>1. x \in 1..Len(log) /\ y \in 1..Len(log) /\ log[x] = log[y]
    BY <1>1
  <2>2. x \in Int /\ y \in Int /\ log[x].id = log[y].id /\ log[x].id \in Nat
    BY <1>2, <2>1
  <2>3. ~(x < y)
    <3> HIDE DEF x, y
    <3>1. x < y => log[x].id < log[y].id
      BY <1>2, <2>1
    <3> QED
      BY <2>2, <3>1
  <2>4. ~(y < x)
    <3> HIDE DEF x, y
    <3>1. y < x => log[y].id < log[x].id
      BY <1>2, <2>1
    <3> QED
      BY <2>2, <3>1
  <2> QED
    BY <2>2, <2>3, <2>4
<1>4. ASSUME NEW j \in 1..Len(shown[c]), j - i + k \in 1..Len(shown[d])
      PROVE  shown[d][j - i + k] = shown[c][j]
  <2>1. base[d] \in Int /\ base[c] \in Int /\ i \in Int /\ j \in Int /\ k \in Int
    BY <1>1
  <2>2. base[d] + (j - i + k) = base[c] + j
    <3> DEFINE a == base[c]
               b == base[d]
    <3>1. a \in Int /\ b \in Int /\ a + i = b + k
      BY <1>3, <2>1
    <3> HIDE DEF a, b
    <3>2. b + (j - i + k) = a + j
      BY <2>1, <3>1
    <3> QED
      BY <3>2 DEF a, b
  <2>3. shown[c][j] = log[base[c] + j] /\ shown[d][j - i + k] = log[base[d] + (j - i + k)]
    BY <1>1, <1>4
  <2> QED
    BY <2>2, <2>3
<1>5. ASSUME NEW j \in 1..Len(shown[c]), j > i, shown[c][j].from = shown[c][i].from
      PROVE  shown[c][j].id > shown[c][i].id
  <2>1. /\ base[c] + i \in 1..Len(log) /\ base[c] + j \in 1..Len(log) /\ base[c] + i < base[c] + j
        /\ shown[c][i] = log[base[c] + i] /\ shown[c][j] = log[base[c] + j]
    BY <1>1, <1>5
  <2>2. log[base[c] + i].id < log[base[c] + j].id
    BY <1>2, <1>5, <2>1
  <2> QED
    BY <1>2, <2>1, <2>2
<1>6. c = d => i = k
  BY <1>1, <1>3
<1> QED
  BY <1>4, <1>5, <1>6

(* All that was sent is on the connection, and what is on it has been read. *)
LEMMA InvNothingMissing == IInv /\ SystemInv => NothingMissing
<1> SUFFICES ASSUME IInv, SystemInv, NEW c \in m_clients,
                    MutexFree, peer[c] = "open", arrived[c] = Len(outgoing[c])
             PROVE  base[c] + Len(shown[c]) = Len(log) /\ Len(shown[c]) >= Len(m_chatHistory)
  BY DEF NothingMissing
<1>1. /\ c \in Sessions /\ base[c] \in Nat /\ Len(shown[c]) \in Nat /\ Len(sent[c]) \in Nat
      /\ Len(log) \in Nat /\ Len(m_chatHistory) \in Nat
  BY DEF IInv, TypeOK, SystemInv, SystemTypeOK
<1>2. Len(shown[c]) <= Len(sent[c])
  BY <1>1 DEF SystemInv, ShownWhenRead
<1>3. CASE Len(sent[c]) > Len(shown[c])
  <2>1. PICK k \in 1..Len(outgoing[c]) : outgoing[c][k] = Chat(Len(sent[c]))
    <3>1. Len(sent[c]) \in 1..Len(sent[c])
      BY <1>1, <1>3
    <3>2. \A n \in 1..Len(sent[c]) : OnConnection(c, n)
      BY <1>1 DEF SystemInv, Numbered
    <3>3. OnConnection(c, Len(sent[c]))
      BY <3>1, <3>2
    <3> QED
      BY <3>3 DEF OnConnection
  <2>2. outgoing[c][k].kind = "chat" /\ outgoing[c][k].n = Len(sent[c])
    BY <2>1 DEF Chat
  <2>3. k <= arrived[c] <=> Len(sent[c]) <= Len(shown[c])
    BY <1>1, <2>2 DEF SystemInv, ShownWhenRead
  <2>4. k <= arrived[c]
    OBVIOUS
  <2> QED
    BY <1>1, <1>3, <2>3, <2>4
<1>4. CASE Len(sent[c]) = Len(shown[c])
  <2>1. base[c] + Len(shown[c]) = Len(log)
    BY <1>4, InvNobody DEF NobodyBehind
  <2>2. base[c] <= Len(log) - Len(m_chatHistory)
    BY DEF SystemInv, LateForOldOnly
  <2> QED
    BY <1>1, <2>1, <2>2
<1> QED
  BY <1>1, <1>2, <1>3, <1>4

(* Any two users see the same conversation, each sender's messages in      *)
(* order, none twice, and nobody misses anything.                          *)
THEOREM OneRoomForAll == SystemSpec => []UsersSeeOneRoom
<1>1. IInv /\ SystemInv => UsersSeeOneRoom
  BY InvSameConversation, InvNothingMissing DEF UsersSeeOneRoom
<1> QED
  BY <1>1, SystemInvariance, PTL

----------------------------------------------------------------------------
(* The windows show the room that the server keeps.                        *)

(* Who has been sent anything has come in: of every step of the room.      *)
SentInside == \A c \in Sessions : sent[c] # << >> => Place[c] # "outside"

LEMMA SentInsideStep == SentInside /\ [Room!Next]_(Room!roomVars) => SentInside'
<1> SUFFICES ASSUME SentInside, [Room!Next]_(Room!roomVars), NEW c \in Sessions, sent'[c] # << >>
             PROVE  Place'[c] # "outside"
  BY DEF SentInside
<1>0. Place = [d \in Sessions |-> Place[d]]
  BY DEF Place
<1>1. CASE UNCHANGED Room!roomVars
  BY <1>1 DEF Room!roomVars, SentInside
<1>2. ASSUME NEW d \in Sessions, Room!Enter(d)  PROVE Place'[c] # "outside"
  BY <1>0, <1>2 DEF Room!Enter, SentInside
<1>3. ASSUME NEW d \in Sessions, NEW m \in ChatMessages, Room!Post(d, m)  PROVE Place'[c] # "outside"
  BY <1>3 DEF Room!Post, SentInside
<1>4. ASSUME NEW d \in Sessions, Room!Give(d)  PROVE Place'[c] # "outside"
  <2>1. sent' = [sent EXCEPT ![d] = Append(@, log[base[d] + Len(@) + 1])] /\ Place' = Place /\ Place[d] = "inside"
    BY <1>4 DEF Room!Give, Room!Inside
  <2>2. CASE c = d
    BY <2>1, <2>2
  <2>3. CASE c # d
    <3>1. sent'[c] = sent[c]
      BY <2>1, <2>3
    <3> QED
      BY <2>1, <3>1 DEF SentInside
  <2> QED
    BY <2>2, <2>3
<1>5. ASSUME NEW d \in Sessions, Room!LetGo(d)  PROVE Place'[c] # "outside"
  BY <1>0, <1>5 DEF Room!LetGo, SentInside
<1> QED
  BY <1>1, <1>2, <1>3, <1>4, <1>5 DEF Room!Next

(* Who enters the server's room or posts in it does so in the room seen,   *)
(* and who is given a post or let go is not seen to be.                    *)
LEMMA ServerStepSeen ==
  ASSUME [Room!Next]_(Room!roomVars), UNCHANGED shown
  PROVE  [Seen!Next]_(Seen!roomVars)
<1>0. Place = [d \in Sessions |-> Place[d]] /\ SeenPlace = [d \in Sessions |-> SeenPlace[d]]
  BY DEF Place, SeenPlace
<1>1. CASE UNCHANGED Room!roomVars
  BY <1>1 DEF Room!roomVars, Seen!roomVars, SeenPlace
<1>2. ASSUME NEW c \in Sessions, Room!Enter(c)  PROVE [Seen!Next]_(Seen!roomVars)
  <2>1. SeenPlace[c] = "outside" /\ SeenPlace' = [SeenPlace EXCEPT ![c] = "inside"]
    BY <1>0, <1>2 DEF Room!Enter, SeenPlace
  <2>2. Seen!Enter(c)
    BY <1>2, <2>1 DEF Room!Enter, Seen!Enter
  <2> QED
    BY <2>2 DEF Seen!Next
<1>3. ASSUME NEW c \in Sessions, NEW m \in ChatMessages, Room!Post(c, m)  PROVE [Seen!Next]_(Seen!roomVars)
  <2>1. SeenPlace[c] = "inside" /\ SeenPlace' = SeenPlace
    BY <1>3 DEF Room!Post, Room!Inside, SeenPlace
  <2>2. Seen!Post(c, m)
    BY <1>3, <2>1 DEF Room!Post, Seen!Post, Seen!Inside
  <2> QED
    BY <2>2 DEF Seen!Next
<1>4. ASSUME NEW c \in Sessions, Room!Give(c) \/ Room!LetGo(c)  PROVE UNCHANGED Seen!roomVars
  <2>1. SeenPlace' = SeenPlace
    BY <1>0, <1>4 DEF Room!Give, Room!LetGo, Room!Inside, SeenPlace
  <2> QED
    BY <1>4, <2>1 DEF Room!Give, Room!LetGo, Seen!roomVars
<1> QED
  BY <1>1, <1>2, <1>3, <1>4 DEF Room!Next

(* What a window displays next is the next post.                           *)
LEMMA ReadStepSeen ==
  ASSUME IInv, SystemInv, SentInside, NEW c \in Sessions, ReadMessage(c)
  PROVE  [Seen!Next]_(Seen!roomVars)
<1> DEFINE msg == outgoing[c][arrived[c] + 1]
           k == Len(shown[c]) + 1
<1>1. UNCHANGED <<SeenPlace, log, base>>
  BY DEF ReadMessage, vars, managerVars, SeenPlace, Place
<1>2. CASE msg.kind # "chat"
  BY <1>1, <1>2 DEF ReadMessage, Seen!roomVars
<1>3. CASE msg.kind = "chat"
  <2>1. msg.n = k /\ k \in 1..Len(sent[c]) /\ shown' = [shown EXCEPT ![c] = Append(@, sent[c][k])]
    BY <1>3, NextIsRead DEF ReadMessage, SystemInv
  <2>2. /\ base[c] \in Nat /\ Len(shown[c]) \in Nat /\ Len(sent[c]) \in Nat /\ Len(log) \in Nat
        /\ sent[c] # << >>
    BY <2>1 DEF IInv, TypeOK, SystemInv, SystemTypeOK
  <2>3. sent[c][k] = log[base[c] + k] /\ base[c] + Len(shown[c]) # Len(log)
    <3>1. sent[c][k] = log[base[c] + k] /\ base[c] + Len(sent[c]) <= Len(log)
      BY <2>1 DEF IInv, ContiguousDelivery
    <3> QED
      BY <2>1, <2>2, <3>1
  <2>4. SeenPlace[c] = "inside"
    BY <2>2 DEF SentInside, SeenPlace
  <2>5. base[c] + k = base[c] + Len(shown[c]) + 1
    BY <2>2
  <2>6. Seen!Give(c)
    BY <1>1, <2>1, <2>3, <2>4, <2>5 DEF Seen!Give, Seen!Inside, Seen!UpToDate
  <2> QED
    BY <2>6 DEF Seen!Next
<1> QED
  BY <1>2, <1>3

(* What the windows show is a chat room, too: over all reads, connections  *)
(* that close and messages that come late, every window displays the posts *)
(* of one list one by one, from the history its session was given on.      *)
THEOREM WindowsShowTheRoom == SystemSpec => Seen!Safety
<1>1. SystemInit => Seen!Init /\ SentInside
  <2> SUFFICES ASSUME SystemInit  PROVE Seen!Init /\ SentInside
    OBVIOUS
  <2>1. SeenPlace = [c \in Sessions |-> "outside"] /\ shown = [c \in Sessions |-> << >>]
    BY DEF SystemInit, Init, ManagerInit, SeenPlace, Place
  <2>2. log = << >> /\ base = [c \in Sessions |-> 0] /\ sent = [c \in Sessions |-> << >>]
    BY DEF SystemInit, Init, ManagerInit
  <2> QED
    BY <2>1, <2>2 DEF Seen!Init, SentInside
<1>2. IInv /\ IInv' /\ SystemInv /\ SentInside /\ [SystemNext]_systemVars =>
        SentInside' /\ [Seen!Next]_(Seen!roomVars)
  <2> SUFFICES ASSUME IInv, IInv', SystemInv, SentInside, [SystemNext]_systemVars
               PROVE  SentInside' /\ [Seen!Next]_(Seen!roomVars)
    OBVIOUS
  <2>1. [Room!Next]_(Room!roomVars)
    BY StepOfServer, RoomStep
  <2>2. SentInside'
    BY <2>1, SentInsideStep
  <2>3. CASE ServerStep \/ UNCHANGED systemVars
    <3>1. UNCHANGED shown
      BY <2>3 DEF ServerStep, Carry, systemVars, streamVars
    <3> QED
      BY <2>1, <2>2, <3>1, ServerStepSeen
  <2>4. ASSUME NEW c \in Sessions, ReadMessage(c)  PROVE [Seen!Next]_(Seen!roomVars)
    BY <2>4, ReadStepSeen
  <2> QED
    BY <2>2, <2>3, <2>4 DEF SystemNext
<1> QED
  BY <1>1, <1>2, SystemInvariance, PTL DEF SystemSpec, Seen!Safety
=============================================================================
