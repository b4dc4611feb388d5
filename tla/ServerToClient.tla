--------------------------- MODULE ServerToClient ---------------------------
(***************************************************************************)
(* One connection from the server's sendMessage to the client's callbacks: *)
(* boost::asio::async_write on BoostAsioClientSession's socket, the TCP    *)
(* stream, NetworkClient's m_receivedBuffer and processBuffer.             *)
(*                                                                         *)
(* The n-th message sent is Size[n] parts long; a part is what the kernel  *)
(* takes, carries or gives as one.  What a part contains does not matter,  *)
(* only whose it is and which.                                             *)
(*                                                                         *)
(* sendMessage starts a write without waiting for the earlier ones.  The   *)
(* reactor serves the writes that wait for the socket in FIFO order, but   *)
(* async_write is a composed operation: when the kernel takes only some of *)
(* the parts, the rest is asked for anew by the completion handler, on     *)
(* some worker, at some later time.                                        *)
(***************************************************************************)
EXTENDS Integers, Sequences, FiniteSets

CONSTANTS
  MaxSends,     \* bound: messages sent on this connection
  Size,         \* parts of each message
  WholeWrites   \* TRUE: the send buffer always has room for a whole message

ASSUME StreamAssumption ==
  /\ MaxSends \in Nat
  /\ Size \in [1..MaxSends -> Nat \ {0}]
  /\ WholeWrites \in BOOLEAN

VARIABLES
  sends,             \* number of calls of sendMessage
  writes,            \* async_write_somes waiting for the socket, in order
  resuming,          \* partly done writes whose handler has yet to run
  wire,              \* parts taken by the kernel and not yet read
  m_receivedBuffer,
  processing,        \* the client is in processBuffer's loop
  delivered,         \* messages given to the client's callbacks
  misread,           \* the client has taken parts of several messages for one
  open,              \* the connection has not been lost
  overlapped         \* history variable: one write went on inside another

serverVars == <<sends, writes, resuming, overlapped>>
clientVars == <<m_receivedBuffer, processing, delivered, misread>>
vars == <<serverVars, wire, clientVars, open>>

Write(n, next) == [n |-> n, next |-> next]   \* parts next..Size[n] are left
Part(n, i) == [n |-> n, i |-> i]

Init ==
  /\ sends = 0
  /\ writes = << >>
  /\ resuming = {}
  /\ wire = << >>
  /\ m_receivedBuffer = << >>
  /\ processing = FALSE
  /\ delivered = << >>
  /\ misread = FALSE
  /\ open = TRUE
  /\ overlapped = FALSE

----------------------------------------------------------------------------
(* The server.                                                             *)

(* Faulty variant: the newest write is served first. *)
SendMessageFirst ==
  /\ open
  /\ sends < MaxSends
  /\ sends' = sends + 1
  /\ writes' = <<Write(sends + 1, 1)>> \o writes
  /\ UNCHANGED <<resuming, overlapped, wire, clientVars, open>>

(* sendMessage, called under the manager's mutex: one call at a time. *)
SendMessage ==
  /\ open
  /\ sends < MaxSends
  /\ sends' = sends + 1
  /\ writes' = Append(writes, Write(sends + 1, 1))
  /\ UNCHANGED <<resuming, overlapped, wire, clientVars, open>>

(* Faulty variant: one part too many is written. *)
LeftTooMany(o) == Size[o.n] - o.next + 2

Left(o) == Size[o.n] - o.next + 1

(* Messages of which the kernel has some parts and not all. *)
PartlyWritten ==
  {o.n : o \in resuming} \cup {writes[i].n : i \in {j \in 1..Len(writes) : writes[j].next > 1}}

(* The socket is writable and the first write gives the kernel k parts.    *)
Transmit(k) ==
  /\ writes # << >>
  /\ LET o == Head(writes) IN
       /\ k \in 1..Left(o)
       /\ WholeWrites => k = Left(o)
       /\ wire' = wire \o [j \in 1..k |-> Part(o.n, o.next + j - 1)]
       /\ resuming' = IF k < Left(o) THEN resuming \cup {Write(o.n, o.next + k)} ELSE resuming
       /\ overlapped' = (overlapped \/ \E n \in PartlyWritten : n # o.n)
  /\ writes' = Tail(writes)
  /\ UNCHANGED <<sends, clientVars, open>>

(* The handler of a partial write asks for the rest. *)
Resume(o) ==
  /\ o \in resuming
  /\ resuming' = resuming \ {o}
  /\ writes' = Append(writes, o)
  /\ UNCHANGED <<sends, overlapped, wire, clientVars, open>>

(* The connection is lost, perhaps with parts on the way; errors of        *)
(* async_write are logged and nothing else.                                *)
Lose ==
  /\ open
  /\ open' = FALSE
  /\ writes' = << >>
  /\ resuming' = {}
  /\ \E k \in 0..Len(wire) : wire' = SubSeq(wire, 1, k)
  /\ UNCHANGED <<sends, overlapped, clientVars>>

----------------------------------------------------------------------------
(* The client.                                                             *)

(* Faulty variant: what was buffered is replaced. *)
OnReadyReadReplacing(k) ==
  /\ ~processing
  /\ k \in 1..Len(wire)
  /\ wire' = SubSeq(wire, k + 1, Len(wire))
  /\ m_receivedBuffer' = SubSeq(wire, 1, k)
  /\ processing' = TRUE
  /\ UNCHANGED <<serverVars, delivered, misread, open>>

(* onReadyRead: readAll takes what has arrived by now, and the loop begins. *)
OnReadyRead(k) ==
  /\ ~processing
  /\ k \in 1..Len(wire)
  /\ wire' = SubSeq(wire, k + 1, Len(wire))
  /\ m_receivedBuffer' = m_receivedBuffer \o SubSeq(wire, 1, k)
  /\ processing' = TRUE
  /\ UNCHANGED <<serverVars, delivered, misread, open>>

(* The message whose first part is at the front of b. *)
Front(b) == b[1].n

(* b begins with all, or consists of some, of the parts of its first       *)
(* message in order.                                                       *)
InStep(b) == \A j \in 1..Len(b) : j <= Size[Front(b)] => b[j] = Part(Front(b), j)

WholeMessage(b) == b # << >> /\ InStep(b) /\ Len(b) >= Size[Front(b)]

(* One message is read and given to the callbacks. *)
ProcessOne ==
  /\ processing
  /\ ~misread
  /\ WholeMessage(m_receivedBuffer)
  /\ delivered' = Append(delivered, Front(m_receivedBuffer))
  /\ m_receivedBuffer' =
       SubSeq(m_receivedBuffer, Size[Front(m_receivedBuffer)] + 1, Len(m_receivedBuffer))
  /\ UNCHANGED <<serverVars, wire, processing, misread, open>>

(* Faulty variant: the parts of an incomplete message are not kept. *)
ProcessShortDropping ==
  /\ processing
  /\ ~misread
  /\ InStep(m_receivedBuffer)
  /\ ~WholeMessage(m_receivedBuffer)
  /\ processing' = FALSE
  /\ m_receivedBuffer' = << >>
  /\ UNCHANGED <<serverVars, wire, delivered, misread, open>>

(* The stream is at its end, or ends inside a message: the loop is left.   *)
ProcessShort ==
  /\ processing
  /\ ~misread
  /\ InStep(m_receivedBuffer)
  /\ ~WholeMessage(m_receivedBuffer)
  /\ processing' = FALSE
  /\ UNCHANGED <<serverVars, wire, m_receivedBuffer, delivered, misread, open>>

(* A message is read across the parts of another.  What the client shows   *)
(* from here on is not modelled.                                           *)
Misread ==
  /\ processing
  /\ misread \/ ~InStep(m_receivedBuffer)
  /\ misread' = TRUE
  /\ m_receivedBuffer' = << >>
  /\ processing' = FALSE
  /\ UNCHANGED <<serverVars, wire, delivered, open>>

----------------------------------------------------------------------------
Transmission == open /\ writes # << >> /\ \E k \in 1..Left(Head(writes)) : Transmit(k)

Resumption == \E o \in resuming : Resume(o)

Arrival == \E k \in 1..Len(wire) : OnReadyRead(k)

ProcessBuffer == ProcessOne \/ ProcessShort \/ Misread

(* All that can be sent has been, and nothing is on the way. *)
Idle ==
  /\ sends = MaxSends \/ ~open
  /\ writes = << >> /\ resuming = {} /\ wire = << >> /\ ~processing
  /\ UNCHANGED vars

Next ==
  \/ SendMessage
  \/ Transmission
  \/ Resumption
  \/ Lose
  \/ Arrival
  \/ ProcessBuffer
  \/ Idle

(* The kernel takes what waits, handlers run, bytes arrive and the         *)
(* client's event loop reads them, as long as the connection is there.     *)
Fairness ==
  /\ WF_vars(Transmission)
  /\ WF_vars(Resumption)
  /\ WF_vars(Arrival)
  /\ WF_vars(ProcessBuffer)

Spec == Init /\ [][Next]_vars

FairSpec == Spec /\ Fairness

----------------------------------------------------------------------------
(***************************************************************************)
(* Properties                                                              *)
(***************************************************************************)

ValidParts == UNION {{Part(n, i) : i \in 1..Size[n]} : n \in 1..MaxSends}

ValidWrites == UNION {{Write(n, i) : i \in 1..Size[n]} : n \in 1..MaxSends}

(* Every variable has its type; only parts of messages are carried. *)
TypeOK ==
  /\ sends \in 0..MaxSends
  /\ writes \in Seq(ValidWrites)
  /\ resuming \subseteq ValidWrites
  /\ wire \in Seq(ValidParts)
  /\ m_receivedBuffer \in Seq(ValidParts)
  /\ delivered \in Seq(1..MaxSends)
  /\ processing \in BOOLEAN /\ misread \in BOOLEAN
  /\ open \in BOOLEAN /\ overlapped \in BOOLEAN

(* However writes are cut, resumed and overlap and however reads cut the   *)
(* stream, the client is given the first messages that were sent, in that  *)
(* order, each once, until it misreads.                                    *)
DeliveredInOrder ==
  /\ Len(delivered) <= sends
  /\ \A i \in 1..Len(delivered) : delivered[i] = i

(* The client loses its place in the stream only if one write went on      *)
(* inside another: as long as the kernel takes each message before the     *)
(* next is sent, overlapping async_writes do no harm.                      *)
MisreadOnlyAfterOverlap == misread => overlapped

(* What the client has yet to read, and whether p is among it. *)
Unread == m_receivedBuffer \o wire

InUnread(p) == \E j \in 1..Len(Unread) : Unread[j] = p

Pending == resuming \cup {writes[i] : i \in 1..Len(writes)}

(* Parts of messages not yet delivered, each once, behind their            *)
(* predecessors: the part before, or the first part of the message before. *)
UnreadInOrder ==
  \A j \in 1..Len(Unread) :
    LET p == Unread[j] IN
      /\ p.n \in (Len(delivered) + 1)..sends
      /\ \A k \in 1..Len(Unread) : Unread[k] = p => k = j
      /\ p.i > 1 => \E k \in 1..(j - 1) : Unread[k] = Part(p.n, p.i - 1)
      /\ p.i = 1 /\ p.n > Len(delivered) + 1 => \E k \in 1..(j - 1) : Unread[k] = Part(p.n - 1, 1)

(* A message has at most one write under way, which has given the kernel   *)
(* the parts before next and no others; first parts wait in order.         *)
PendingInOrder ==
  /\ \A o \in Pending :
       /\ o.n \in (Len(delivered) + 1)..sends
       /\ o.next > 1 => InUnread(Part(o.n, o.next - 1))
       /\ \A i \in o.next..Size[o.n] : ~InUnread(Part(o.n, i))
  /\ \A i, j \in 1..Len(writes) : writes[i].n = writes[j].n => i = j
  /\ \A o \in resuming :
       /\ o.next > 1
       /\ \A i \in 1..Len(writes) : writes[i].n # o.n
       /\ \A r \in resuming : r.n = o.n => r = o
  /\ \A i \in 1..Len(writes) :
       writes[i].next = 1 /\ writes[i].n > Len(delivered) + 1 =>
         \/ InUnread(Part(writes[i].n - 1, 1))
         \/ \E h \in 1..(i - 1) : writes[h] = Write(writes[i].n - 1, 1)

(* While the connection is there, no first part and no rest is forgotten. *)
NothingForgotten ==
  open =>
    /\ \A n \in (Len(delivered) + 1)..sends :
         InUnread(Part(n, 1)) \/ \E h \in 1..Len(writes) : writes[h] = Write(n, 1)
    /\ \A j \in 1..Len(Unread) :
         \/ InUnread(Part(Unread[j].n, Size[Unread[j].n]))
         \/ \E o \in Pending : o.n = Unread[j].n /\ o.next > 1

(* Without overlapping writes the parts of a message are next to each other. *)
Blocks ==
  \A j \in 1..Len(Unread) :
    LET p == Unread[j] IN
      /\ p.i <= j
      /\ \A h \in 1..Size[p.n] : j - p.i + h <= Len(Unread) => Unread[j - p.i + h] = Part(p.n, h)

(* When processBuffer has returned, what it left is the beginning of one    *)
(* message and not all of it.                                              *)
LeftShort ==
  ~processing /\ m_receivedBuffer # << >> =>
    InStep(m_receivedBuffer) /\ Len(m_receivedBuffer) < Size[Front(m_receivedBuffer)]

(* As long as the connection is there, no message gets stuck between a     *)
(* write, its completion handler, the wire and the buffer: when none of    *)
(* them has anything to do, the client has been given all that was sent.   *)
NothingStuck ==
  open /\ ~misread /\ Pending = {} /\ wire = << >> /\ ~processing =>
    m_receivedBuffer = << >> /\ Len(delivered) = sends

(* The client is given what was sent, in order, each message once, and in  *)
(* the end all of it.                                                      *)
DeliveredCompletely == DeliveredInOrder /\ NothingStuck

(* The inductive invariant. *)
StreamInv ==
  /\ TypeOK
  /\ DeliveredInOrder
  /\ MisreadOnlyAfterOverlap
  /\ ~open => Pending = {}
  /\ LeftShort
  /\ ~misread => /\ UnreadInOrder /\ PendingInOrder /\ NothingForgotten
                 /\ overlapped \/ Blocks

Channel == INSTANCE FifoChannel WITH sent <- sends, received <- delivered

(* With room for whole messages in the send buffer, the connection is a    *)
(* FIFO channel: all messages are delivered in order while it is open.     *)
ImplementsChannel == Channel!Spec
=============================================================================
