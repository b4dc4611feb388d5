----------------------------- MODULE ChatSystem -----------------------------
(***************************************************************************)
(* The server and the windows of its clients: ChatServer, and for each     *)
(* session the connection that carries what its sendMessage is given to    *)
(* the client's processBuffer, which displays it.                          *)
(*                                                                         *)
(* A connection is a queue here: ServerToClient shows that the stream of   *)
(* bytes is one, as long as no write goes on inside another.  The other    *)
(* direction, with what it loses, is in ChatServer already.                *)
(***************************************************************************)
EXTENDS ChatServerInv

VARIABLES
  outgoing,   \* per session, the messages given to its connection
  arrived,    \* per session, how many of them processBuffer has read
  shown       \* per session, the chat messages its window has displayed

streamVars == <<outgoing, arrived, shown>>
systemVars == <<vars, streamVars>>

(* The n-th chat message that was sent to a session, and a list of users.  *)
Chat(n) == [kind |-> "chat", n |-> n]
UserList == [kind |-> "users", n |-> 0]

SystemInit ==
  /\ Init
  /\ outgoing = [c \in Sessions |-> << >>]
  /\ arrived = [c \in Sessions |-> 0]
  /\ shown = [c \in Sessions |-> << >>]

(* Faulty variant: while earlier messages are under way, none is taken.    *)
GivenUnlessBusy(c) ==
  IF peer[c] = "closed" \/ arrived[c] < Len(outgoing[c]) THEN << >>
  ELSE IF sent'[c] # sent[c] THEN <<Chat(Len(sent'[c]))>>
  ELSE IF answered'[c] # answered[c] THEN <<UserList>>
  ELSE << >>

(* What this step of the server gives to the connection of c: nothing if   *)
(* it is closed, when async_write fails.                                   *)
Given(c) ==
  IF peer[c] = "closed" THEN << >>
  ELSE IF sent'[c] # sent[c] THEN <<Chat(Len(sent'[c]))>>
  ELSE IF answered'[c] # answered[c] THEN <<UserList>>
  ELSE << >>

Carry ==
  /\ outgoing' = [c \in Sessions |-> outgoing[c] \o Given(c)]
  /\ UNCHANGED <<arrived, shown>>

(* Faulty variant: behind a user list, what has come with it is dropped.   *)
ReadMessageClearing(c) ==
  /\ arrived[c] < Len(outgoing[c])
  /\ LET msg == outgoing[c][arrived[c] + 1] IN
       /\ arrived' = [arrived EXCEPT ![c] = IF msg.kind = "chat" THEN @ + 1 ELSE Len(outgoing[c])]
       /\ shown' = IF msg.kind = "chat" THEN [shown EXCEPT ![c] = Append(@, sent[c][msg.n])] ELSE shown
  /\ UNCHANGED <<vars, outgoing>>

(* processBuffer reads one message and calls the callback for its kind:    *)
(* the window displays it, or the list of users takes it.  What a lost     *)
(* connection has brought may still be read.                               *)
ReadMessage(c) ==
  /\ arrived[c] < Len(outgoing[c])
  /\ LET msg == outgoing[c][arrived[c] + 1] IN
       /\ arrived' = [arrived EXCEPT ![c] = @ + 1]
       /\ shown' = IF msg.kind = "chat" THEN [shown EXCEPT ![c] = Append(@, sent[c][msg.n])] ELSE shown
  /\ UNCHANGED <<vars, outgoing>>

(* A step of the server or of a client's end. *)
ServerStep == Next /\ Carry

SystemNext == ServerStep \/ \E c \in Sessions : ReadMessage(c)

SystemSpec == SystemInit /\ [][SystemNext]_systemVars

----------------------------------------------------------------------------
(***************************************************************************)
(* Properties                                                              *)
(***************************************************************************)

(* Any two users see the same conversation: where a message is in both     *)
(* windows, both continue from it in the same way, forwards and backwards, *)
(* without anything between that only one of them has.  Nobody sees a      *)
(* message twice, or two messages of one user in another order than that   *)
(* in which they were written.                                             *)
SameConversation ==
  \A c, d \in Sessions : \A i \in 1..Len(shown[c]), k \in 1..Len(shown[d]) :
    shown[c][i] = shown[d][k] =>
      /\ c = d => i = k
      /\ \A j \in 1..Len(shown[c]) :
           /\ j - i + k \in 1..Len(shown[d]) => shown[d][j - i + k] = shown[c][j]
           /\ j > i /\ shown[c][j].from = shown[c][i].from => shown[c][j].id > shown[c][i].id

(* Nobody misses anything: when the manager has nothing in hand and all    *)
(* that was sent on an open connection has been read, the window has every *)
(* message since the history the session was given - and that history was  *)
(* as long as the server keeps it.                                         *)
NothingMissing ==
  \A c \in m_clients :
    MutexFree /\ peer[c] = "open" /\ arrived[c] = Len(outgoing[c]) =>
      /\ base[c] + Len(shown[c]) = Len(log)
      /\ Len(shown[c]) >= Len(m_chatHistory)

(* What the users see, whoever reads, sends and broadcasts when. *)
UsersSeeOneRoom == SameConversation /\ NothingMissing

(* The room as the windows show it.  A session that has come in is given   *)
(* the posts when they are displayed, also those that its connection still *)
(* brings when the server has let it go.                                   *)
SeenPlace == [c \in Sessions |-> IF Place[c] = "outside" THEN "outside" ELSE "inside"]

Seen == INSTANCE ChatRoom WITH
          Messages <- ChatMessages, place <- SeenPlace, posts <- log, skipped <- base, given <- shown

----------------------------------------------------------------------------
(* The inductive invariant, beside IInv.                                   *)

Carried == [kind : {"chat", "users"}, n : Nat]

SystemTypeOK ==
  /\ outgoing \in [Sessions -> Seq(Carried)]
  /\ arrived \in [Sessions -> Nat]
  /\ shown \in [Sessions -> Seq(ChatMessages)]

(* The chat messages on a connection are those that were sent, numbered    *)
(* without a gap, and as long as it is open all of them.                   *)
OnConnection(c, n) == \E k \in 1..Len(outgoing[c]) : outgoing[c][k] = Chat(n)

Numbered(c) ==
  /\ \A k \in 1..Len(outgoing[c]) : outgoing[c][k].kind = "chat" =>
       /\ outgoing[c][k].n <= Len(sent[c])
       /\ \A n \in 1..outgoing[c][k].n : OnConnection(c, n)
       /\ \A l \in 1..Len(outgoing[c]) :
            k < l /\ outgoing[c][l].kind = "chat" => outgoing[c][k].n < outgoing[c][l].n
  /\ peer[c] # "closed" => \A n \in 1..Len(sent[c]) : OnConnection(c, n)

(* Those that have been read are displayed, and no others. *)
ShownWhenRead(c) ==
  /\ arrived[c] <= Len(outgoing[c])
  /\ Len(shown[c]) <= Len(sent[c])
  /\ \A i \in 1..Len(shown[c]) : shown[c][i] = sent[c][i]
  /\ \A k \in 1..Len(outgoing[c]) :
       outgoing[c][k].kind = "chat" => (k <= arrived[c] <=> outgoing[c][k].n <= Len(shown[c]))

(* What a registered session was too late for has left the history. *)
LateForOldOnly == \A c \in m_clients : base[c] <= Len(log) - Len(m_chatHistory)

SystemInv ==
  /\ SystemTypeOK
  /\ LateForOldOnly
  /\ \A c \in Sessions : Numbered(c) /\ ShownWhenRead(c)
=============================================================================
