----------------------- MODULE ServerToClient_proofs -----------------------
(***************************************************************************)
(* The properties of ServerToClient, for any sizes of messages, any number *)
(* of sends and every way of cutting writes and reads, and the safety part *)
(* of the refinement of FifoChannel.                                       *)
(*                                                                         *)
(* Everything is about Unread, the buffer followed by the wire: steps of   *)
(* the server and the network change its end, deliveries its beginning.    *)
(***************************************************************************)
EXTENDS ServerToClient, TLAPS

LEMMA PartFacts ==
  /\ \A p \in ValidParts : p = Part(p.n, p.i) /\ p.n \in 1..MaxSends /\ p.i \in 1..Size[p.n]
  /\ \A n \in 1..MaxSends : \A i \in 1..Size[n] :
       Part(n, i) \in ValidParts /\ Part(n, i).n = n /\ Part(n, i).i = i
  BY StreamAssumption DEF ValidParts, Part

LEMMA WriteFacts ==
  /\ \A o \in ValidWrites : o = Write(o.n, o.next) /\ o.n \in 1..MaxSends /\ o.next \in 1..Size[o.n]
  /\ \A n \in 1..MaxSends : \A i \in 1..Size[n] :
       Write(n, i) \in ValidWrites /\ Write(n, i).n = n /\ Write(n, i).next = i
  BY StreamAssumption DEF ValidWrites, Write

LEMMA SizeFacts == MaxSends \in Nat /\ \A n \in 1..MaxSends : Size[n] \in Nat \ {0}
  BY StreamAssumption

(* The parts of Unread, index by index. *)
LEMMA UnreadFacts ==
  ASSUME TypeOK
  PROVE  /\ Unread \in Seq(ValidParts)
         /\ Len(Unread) = Len(m_receivedBuffer) + Len(wire)
         /\ \A j \in 1..Len(m_receivedBuffer) : Unread[j] = m_receivedBuffer[j]
         /\ \A j \in 1..Len(wire) : Unread[Len(m_receivedBuffer) + j] = wire[j]
         /\ \A j \in 1..Len(Unread) : Unread[j] \in ValidParts
  BY DEF TypeOK, Unread

LEMMA PendingFacts ==
  ASSUME TypeOK
  PROVE  /\ Pending \subseteq ValidWrites
         /\ \A i \in 1..Len(writes) : writes[i] \in ValidWrites /\ writes[i] \in Pending
         /\ \A o \in resuming : o \in ValidWrites /\ o \in Pending
  BY DEF TypeOK, Pending

(* Nothing has been sent. *)
LEMMA StreamInit == Init => StreamInv
<1>. SUFFICES ASSUME Init  PROVE StreamInv
  OBVIOUS
<1>1. /\ writes = << >> /\ Len(writes) = 0 /\ writes \in Seq(ValidWrites)
      /\ wire = << >> /\ Len(wire) = 0 /\ wire \in Seq(ValidParts)
      /\ m_receivedBuffer = << >> /\ Len(m_receivedBuffer) = 0 /\ m_receivedBuffer \in Seq(ValidParts)
      /\ delivered = << >> /\ Len(delivered) = 0 /\ delivered \in Seq(1..MaxSends)
  BY DEF Init
<1>2. TypeOK
  <2>1. processing \in BOOLEAN /\ misread \in BOOLEAN /\ open \in BOOLEAN /\ overlapped \in BOOLEAN
    BY Zenon DEF Init
  <2>2. sends \in 0..MaxSends /\ resuming \subseteq ValidWrites
    BY SizeFacts DEF Init
  <2>. QED  BY <1>1, <2>1, <2>2 DEF TypeOK
<1>3. DeliveredInOrder /\ MisreadOnlyAfterOverlap
  BY <1>1 DEF Init, DeliveredInOrder, MisreadOnlyAfterOverlap
<1>4. Len(Unread) = 0 /\ Pending = {}
  BY <1>1, <1>2, UnreadFacts DEF Init, Pending
<1>5. UnreadInOrder /\ Blocks
  BY <1>4 DEF UnreadInOrder, Blocks
<1>6. PendingInOrder /\ NothingForgotten
  BY <1>1, <1>4 DEF Init, PendingInOrder, NothingForgotten
<1>7. LeftShort
  BY <1>1 DEF LeftShort
<1>. QED  BY <1>2, <1>3, <1>4, <1>5, <1>6, <1>7 DEF StreamInv

(* Types. *)
LEMMA StreamTypes == StreamInv /\ [Next]_vars => TypeOK'
<1>. SUFFICES ASSUME StreamInv, [Next]_vars  PROVE TypeOK'
  OBVIOUS
<1>0. TypeOK
  BY DEF StreamInv
<1>. USE SizeFacts
<1>1. CASE SendMessage
  <2>1. sends + 1 \in 1..MaxSends /\ Write(sends + 1, 1) \in ValidWrites
    <3>1. sends + 1 \in 1..MaxSends
      BY <1>0, <1>1 DEF SendMessage, TypeOK
    <3>2. 1 \in 1..Size[sends + 1]
      BY <3>1
    <3>. QED  BY <3>1, <3>2, WriteFacts
  <2>. QED  BY <1>0, <1>1, <2>1 DEF SendMessage, TypeOK, clientVars
<1>2. ASSUME NEW k \in 1..Left(Head(writes)), Transmit(k)  PROVE TypeOK'
  <2>. DEFINE o == Head(writes)
  <2>1. o \in ValidWrites /\ Tail(writes) \in Seq(ValidWrites)
    BY <1>0, <1>2 DEF Transmit, TypeOK
  <2>2. o.n \in 1..MaxSends /\ o.next \in 1..Size[o.n] /\ k \in 1..(Size[o.n] - o.next + 1)
    BY <2>1, WriteFacts DEF Left
  <2>3. [j \in 1..k |-> Part(o.n, o.next + j - 1)] \in Seq(ValidParts)
    <3>1. \A j \in 1..k : Part(o.n, o.next + j - 1) \in ValidParts
      BY <2>2, PartFacts
    <3>. QED  BY <2>2, <3>1
  <2>4. k < Left(o) => Write(o.n, o.next + k) \in ValidWrites
    BY <2>2, WriteFacts DEF Left
  <2>5. resuming' \subseteq ValidWrites
    BY <1>0, <1>2, <2>4 DEF Transmit, TypeOK
  <2>6. overlapped' \in BOOLEAN
    BY <1>2, <1>0 DEF Transmit, TypeOK
  <2>7. wire' \in Seq(ValidParts)
    BY <1>0, <1>2, <2>3 DEF Transmit, TypeOK
  <2>. QED  BY <1>0, <1>2, <2>1, <2>5, <2>6, <2>7 DEF Transmit, TypeOK, clientVars
<1>3. ASSUME NEW o \in resuming, Resume(o)  PROVE TypeOK'
  BY <1>0, <1>3 DEF Resume, TypeOK, clientVars
<1>4. CASE Lose
  <2>1. wire' \in Seq(ValidParts)
    BY <1>0, <1>4 DEF Lose, TypeOK
  <2>2. writes' \in Seq(ValidWrites) /\ resuming' \subseteq ValidWrites
    BY <1>4 DEF Lose
  <2>3. open' \in BOOLEAN
    BY <1>4, Zenon DEF Lose
  <2>. QED  BY <1>0, <1>4, <2>1, <2>2, <2>3 DEF Lose, TypeOK, clientVars
<1>5. ASSUME NEW k \in 1..Len(wire), OnReadyRead(k)  PROVE TypeOK'
  BY <1>0, <1>5 DEF OnReadyRead, TypeOK, serverVars
<1>6. CASE ProcessOne
  <2>1. /\ m_receivedBuffer # << >> /\ m_receivedBuffer[1] \in ValidParts
        /\ Front(m_receivedBuffer) \in 1..MaxSends
    BY <1>0, <1>6, PartFacts DEF ProcessOne, WholeMessage, Front, TypeOK
  <2>2. delivered' \in Seq(1..MaxSends)
    BY <1>0, <1>6, <2>1 DEF ProcessOne, TypeOK
  <2>3. m_receivedBuffer' \in Seq(ValidParts)
    BY <1>0, <1>6, <2>1 DEF ProcessOne, TypeOK
  <2>. QED  BY <1>0, <1>6, <2>2, <2>3 DEF ProcessOne, TypeOK, serverVars
<1>7. CASE ProcessShort \/ Misread
  <2>1. m_receivedBuffer' \in Seq(ValidParts)
    <3>1. m_receivedBuffer' = m_receivedBuffer \/ m_receivedBuffer' = << >>
      BY <1>7 DEF ProcessShort, Misread
    <3>2. << >> \in Seq(ValidParts) /\ m_receivedBuffer \in Seq(ValidParts)
      BY <1>0 DEF TypeOK
    <3>. QED  BY <3>1, <3>2, Zenon
  <2>2. processing' \in BOOLEAN /\ misread' \in BOOLEAN
    <3>1. misread \in BOOLEAN
      BY <1>0 DEF TypeOK
    <3>. QED  BY <1>7, <3>1, Zenon DEF ProcessShort, Misread
  <2>. QED  BY <1>0, <1>7, <2>1, <2>2 DEF ProcessShort, Misread, TypeOK, serverVars
<1>8. CASE UNCHANGED vars
  BY <1>0, <1>8 DEF vars, serverVars, clientVars, TypeOK
<1>. QED  BY <1>1, <1>2, <1>3, <1>4, <1>5, <1>6, <1>7, <1>8
          DEF Next, Transmission, Resumption, Arrival, ProcessBuffer, Idle

(* Parts and writes are told apart by their fields. *)
LEMMA Identities ==
  /\ \A n, i, k, h : Part(n, i) = Part(k, h) <=> n = k /\ i = h
  /\ \A n, i, k, h : Write(n, i) = Write(k, h) <=> n = k /\ i = h
  BY DEF Part, Write

(* What is true as long as the client is in step; kept when neither the    *)
(* unread parts nor the writes under way change.                           *)
InOrder == UnreadInOrder /\ PendingInOrder /\ NothingForgotten /\ (overlapped \/ Blocks)

LEMMA Undisturbed ==
  ASSUME InOrder, Unread' = Unread, UNCHANGED <<writes, resuming, sends, delivered, open, overlapped>>
  PROVE  InOrder'
<1>1. Pending' = Pending /\ \A p : InUnread(p)' <=> InUnread(p)
  BY DEF Pending, InUnread
<1>. QED
  BY <1>1 DEF InOrder, UnreadInOrder, PendingInOrder, NothingForgotten, Blocks

(* Moving the border between two parts of a sequence changes nothing else. *)
LEMMA BorderMoves ==
  ASSUME NEW S, NEW b \in Seq(S), NEW w \in Seq(S), NEW k \in 1..Len(w)
  PROVE  (b \o SubSeq(w, 1, k)) \o SubSeq(w, k + 1, Len(w)) = b \o w
<1>. DEFINE t == SubSeq(w, 1, k)
            u == SubSeq(w, k + 1, Len(w))
<1>1. t \in Seq(S) /\ u \in Seq(S)
  OBVIOUS
<1>2. t \o u = w
  OBVIOUS
<1>. HIDE DEF t, u
<1>3. (b \o t) \o u = b \o (t \o u)
  BY <1>1
<1>4. (b \o t) \o u = b \o w
  BY <1>2, <1>3
<1>. QED  BY <1>4 DEF t, u

LEMMA OnReadyReadStep ==
  ASSUME TypeOK, NEW k \in 1..Len(wire), OnReadyRead(k)
  PROVE  Unread' = Unread
<1>1. /\ m_receivedBuffer \in Seq(ValidParts) /\ wire \in Seq(ValidParts)
      /\ m_receivedBuffer' = m_receivedBuffer \o SubSeq(wire, 1, k)
      /\ wire' = SubSeq(wire, k + 1, Len(wire))
  BY DEF OnReadyRead, TypeOK
<1>2. (m_receivedBuffer \o SubSeq(wire, 1, k)) \o SubSeq(wire, k + 1, Len(wire)) = m_receivedBuffer \o wire
  BY <1>1, BorderMoves
<1>. QED  BY <1>1, <1>2 DEF Unread

(* A new write waits behind all others. *)
LEMMA SendStep ==
  ASSUME TypeOK, InOrder, DeliveredInOrder, SendMessage
  PROVE  InOrder'
<1>. DEFINE w == Write(sends + 1, 1)
<1>1. /\ writes \in Seq(ValidWrites) /\ writes' = Append(writes, w) /\ sends' = sends + 1
      /\ sends \in Nat /\ sends' <= MaxSends /\ Len(delivered) <= sends /\ Len(delivered) \in Nat
      /\ Unread' = Unread /\ UNCHANGED <<resuming, delivered, open, overlapped>> /\ open
  BY SizeFacts DEF SendMessage, TypeOK, clientVars, Unread, DeliveredInOrder
<1>2. /\ Len(writes') = Len(writes) + 1 /\ writes'[Len(writes) + 1] = w
      /\ \A i \in 1..Len(writes) : writes'[i] = writes[i]
  BY <1>1
<1>3. w.n = sends + 1 /\ w.next = 1
  BY DEF Write
<1>. HIDE DEF w
<1>4. \A o : o \in Pending' <=> o \in Pending \/ o = w
  <2>1. \A i \in 1..Len(writes') : i \in 1..Len(writes) \/ i = Len(writes) + 1
    BY <1>1, <1>2
  <2>. QED  BY <1>1, <1>2, <2>1 DEF Pending
<1>5. \A p : InUnread(p)' <=> InUnread(p)
  BY <1>1 DEF InUnread
<1>6. Unread \in Seq(ValidParts) /\ \A j \in 1..Len(Unread) : Unread[j].n <= sends /\ Unread[j].n \in Nat
  BY UnreadFacts, <1>1 DEF InOrder, UnreadInOrder
<1>7. UnreadInOrder'
  BY <1>1, <1>6 DEF InOrder, UnreadInOrder
<1>8. Blocks' <=> Blocks
  BY <1>1 DEF Blocks
<1>9. NothingForgotten'
  <2>1. ASSUME NEW n \in (Len(delivered) + 1)..sends'
        PROVE  InUnread(Part(n, 1)) \/ \E h \in 1..Len(writes') : writes'[h] = Write(n, 1)
    <3>1. CASE n = sends + 1
      <4>1. Len(writes) + 1 \in 1..Len(writes') /\ writes'[Len(writes) + 1] = Write(n, 1)
        BY <1>1, <1>2, <3>1 DEF w
      <4>. QED  BY <4>1
    <3>2. CASE n # sends + 1
      BY <1>1, <1>2, <3>2 DEF InOrder, NothingForgotten
    <3>. QED  BY <3>1, <3>2
  <2>2. \A j \in 1..Len(Unread) :
          \/ InUnread(Part(Unread[j].n, Size[Unread[j].n]))
          \/ \E o \in Pending' : o.n = Unread[j].n /\ o.next > 1
    BY <1>1, <1>4 DEF InOrder, NothingForgotten
  <2>. QED  BY <1>1, <1>5, <2>1, <2>2 DEF NothingForgotten
<1>10. PendingInOrder'
  <2>0. PendingInOrder /\ NothingForgotten
    BY DEF InOrder
  <2>1. ASSUME NEW o \in Pending'
        PROVE  /\ o.n \in (Len(delivered) + 1)..sends'
               /\ o.next > 1 => InUnread(Part(o.n, o.next - 1))
               /\ \A i \in o.next..Size[o.n] : ~InUnread(Part(o.n, i))
    <3>1. CASE o \in Pending
      BY <1>1, <2>0, <3>1 DEF PendingInOrder
    <3>2. CASE o = w
      <4>1. \A i \in o.next..Size[o.n] : ~InUnread(Part(o.n, i))
        <5>1. \A i : Part(sends + 1, i).n = sends + 1
          BY DEF Part
        <5>. QED  BY <1>1, <1>3, <1>6, <3>2, <5>1 DEF InUnread
      <4>. QED  BY <1>1, <1>3, <3>2, <4>1
    <3>. QED  BY <1>4, <3>1, <3>2
  <2>2. \A i \in 1..Len(writes) : writes[i].n # sends + 1 /\ writes[i] \in Pending
    BY <1>1, <2>0, PendingFacts DEF PendingInOrder
  <2>3. \A i, j \in 1..Len(writes') : writes'[i].n = writes'[j].n => i = j
    BY <1>1, <1>2, <1>3, <2>0, <2>2 DEF PendingInOrder
  <2>4. \A o \in resuming :
          /\ o.next > 1
          /\ \A i \in 1..Len(writes') : writes'[i].n # o.n
          /\ \A r \in resuming : r.n = o.n => r = o
    <3>1. \A o \in resuming : o.n # sends + 1
      BY <1>1, <2>0, PendingFacts DEF PendingInOrder
    <3>. QED  BY <1>1, <1>2, <1>3, <2>0, <3>1 DEF PendingInOrder
  <2>5. ASSUME NEW i \in 1..Len(writes'), writes'[i].next = 1, writes'[i].n > Len(delivered) + 1
        PROVE  \/ InUnread(Part(writes'[i].n - 1, 1))
               \/ \E h \in 1..(i - 1) : writes'[h] = Write(writes'[i].n - 1, 1)
    <3>1. CASE i \in 1..Len(writes)
      BY <1>1, <1>2, <2>0, <2>5, <3>1 DEF PendingInOrder
    <3>2. CASE i = Len(writes) + 1
      <4>1. writes'[i].n - 1 = sends /\ sends \in (Len(delivered) + 1)..sends
        BY <1>1, <1>2, <1>3, <2>5, <3>2
      <4>2. InUnread(Part(sends, 1)) \/ \E h \in 1..Len(writes) : writes[h] = Write(sends, 1)
        BY <1>1, <2>0, <4>1 DEF NothingForgotten
      <4>. QED  BY <1>1, <1>2, <3>2, <4>1, <4>2
    <3>. QED  BY <1>1, <1>2, <3>1, <3>2
  <2>. QED  BY <1>1, <1>5, <2>1, <2>3, <2>4, <2>5 DEF PendingInOrder
<1>. QED  BY <1>1, <1>7, <1>8, <1>9, <1>10 DEF InOrder

(* What an async_write_some does: the parts it gives the kernel are the    *)
(* new end of Unread, and the rest of its message, if any, is pending.     *)
LEMMA TransmitFacts ==
  ASSUME TypeOK, PendingInOrder, writes # << >>, NEW k \in 1..Left(Head(writes)), Transmit(k)
  PROVE  LET o == writes[1] IN
         /\ o = Head(writes) /\ o \in ValidWrites /\ o \in Pending /\ k \in 1..(Size[o.n] - o.next + 1)
         /\ Len(Unread') = Len(Unread) + k
         /\ \A j \in 1..Len(Unread) : Unread'[j] = Unread[j]
         /\ \A j \in 1..k : Unread'[Len(Unread) + j] = Part(o.n, o.next + j - 1)
         /\ Len(writes') = Len(writes) - 1
         /\ \A i \in 1..Len(writes') : writes'[i] = writes[i + 1]
         /\ resuming' = IF k < Size[o.n] - o.next + 1 THEN resuming \cup {Write(o.n, o.next + k)} ELSE resuming
         /\ UNCHANGED <<sends, delivered, open>>
<1>. DEFINE o == writes[1]
            new == [j \in 1..k |-> Part(o.n, o.next + j - 1)]
<1>1. /\ o = Head(writes) /\ o \in ValidWrites /\ o \in Pending
      /\ Len(writes') = Len(writes) - 1
      /\ \A i \in 1..Len(writes') : writes'[i] = writes[i + 1]
  BY PendingFacts DEF Transmit, TypeOK
<1>2. k \in 1..(Size[o.n] - o.next + 1) /\ o.n \in 1..MaxSends /\ o.next \in 1..Size[o.n]
  BY <1>1, WriteFacts DEF Left
<1>3. /\ wire' = wire \o new
      /\ resuming' = IF k < Size[o.n] - o.next + 1 THEN resuming \cup {Write(o.n, o.next + k)} ELSE resuming
      /\ UNCHANGED <<m_receivedBuffer, sends, delivered, open>>
  BY <1>1 DEF Transmit, Left, clientVars
<1>4. new \in Seq(ValidParts) /\ Len(new) = k /\ \A j \in 1..k : new[j] = Part(o.n, o.next + j - 1)
  <2>1. ASSUME NEW j \in 1..k
        PROVE  Part(o.n, o.next + j - 1) \in ValidParts
    <3>1. Size[o.n] \in Nat  BY <1>2, SizeFacts
    <3>2. o.next + j - 1 \in 1..Size[o.n]  BY <1>2, <3>1
    <3>. QED  BY <1>2, <3>2, PartFacts
  <2>. QED  BY <1>2, <2>1, SizeFacts
<1>. HIDE DEF new, o
<1>5. /\ Unread \in Seq(ValidParts)
      /\ Unread' = m_receivedBuffer \o (wire \o new)
      /\ m_receivedBuffer \o (wire \o new) = Unread \o new
  <2>1. m_receivedBuffer \in Seq(ValidParts) /\ wire \in Seq(ValidParts)
    BY DEF TypeOK
  <2>2. m_receivedBuffer \o (wire \o new) = (m_receivedBuffer \o wire) \o new
    BY <1>4, <2>1
  <2>. QED  BY <1>3, <2>1, <2>2 DEF Unread
<1>6. /\ Len(Unread') = Len(Unread) + k
      /\ \A j \in 1..Len(Unread) : Unread'[j] = Unread[j]
      /\ \A j \in 1..k : Unread'[Len(Unread) + j] = Part(o.n, o.next + j - 1)
  <2>1. /\ Len(Unread \o new) = Len(Unread) + Len(new)
        /\ \A j \in 1..Len(Unread) : (Unread \o new)[j] = Unread[j]
        /\ \A j \in 1..Len(new) : (Unread \o new)[Len(Unread) + j] = new[j]
    <3>1. \A s, t \in Seq(ValidParts) :
            /\ Len(s \o t) = Len(s) + Len(t)
            /\ \A j \in 1..Len(s) : (s \o t)[j] = s[j]
            /\ \A j \in 1..Len(t) : (s \o t)[Len(s) + j] = t[j]
      OBVIOUS
    <3>2. Unread \in Seq(ValidParts) /\ new \in Seq(ValidParts)
      BY <1>4, <1>5
    <3>. QED  BY <3>1, <3>2
  <2>2. Unread' = Unread \o new
    BY <1>5
  <2>. QED  BY <1>4, <2>1, <2>2
<1>. QED  BY <1>1, <1>2, <1>3, <1>6 DEF o

(* Which parts are unread and which writes are pending afterwards. *)
LEMMA TransmitSets ==
  ASSUME TypeOK, PendingInOrder, writes # << >>, NEW k \in 1..Left(Head(writes)), Transmit(k)
  PROVE  LET o == writes[1] IN
         /\ \A p : InUnread(p) => InUnread(p)'
         /\ \A i \in o.next..(o.next + k - 1) : \A p : p = Part(o.n, i) => InUnread(p)'
         /\ \A p : InUnread(p)' => InUnread(p) \/ \E i \in o.next..(o.next + k - 1) : p = Part(o.n, i)
         /\ \A q \in Pending' :
              \/ q \in Pending /\ q.n # o.n
              \/ q = Write(o.n, o.next + k) /\ q \in resuming' /\ k < Size[o.n] - o.next + 1
         /\ \A q \in Pending : q = o \/ q \in Pending'
         /\ k < Size[o.n] - o.next + 1 => Write(o.n, o.next + k) \in Pending'
<1>. DEFINE o == writes[1]
<1>0. o \in ValidWrites /\ o.n \in 1..MaxSends /\ o.next \in 1..Size[o.n] /\ Size[o.n] \in Nat
  BY TransmitFacts, WriteFacts, SizeFacts
<1>1. \A p : InUnread(p) => InUnread(p)'
  <2>. SUFFICES ASSUME NEW j \in 1..Len(Unread)
                PROVE  j \in 1..Len(Unread') /\ Unread'[j] = Unread[j]
    BY DEF InUnread
  <2>. QED  BY TransmitFacts, UnreadFacts
<1>2. ASSUME NEW i \in o.next..(o.next + k - 1), NEW p, p = Part(o.n, i)  PROVE InUnread(p)'
  <2>0. Len(Unread) \in Nat /\ Len(Unread') = Len(Unread) + k /\ k \in Nat
    BY UnreadFacts, TransmitFacts, <1>0
  <2>1. i - o.next + 1 \in 1..k /\ o.next + (i - o.next + 1) - 1 = i
    BY <1>0, <2>0
  <2>2. Unread'[Len(Unread) + (i - o.next + 1)] = Part(o.n, o.next + (i - o.next + 1) - 1)
    BY <2>1, TransmitFacts
  <2>3. Len(Unread) + (i - o.next + 1) \in 1..Len(Unread')
    BY <2>0, <2>1
  <2>4. Unread'[Len(Unread) + (i - o.next + 1)] = Part(o.n, i)
    BY <2>1, <2>2
  <2>. QED  BY <1>2, <2>3, <2>4 DEF InUnread
<1>3. \A p : InUnread(p)' => InUnread(p) \/ \E i \in o.next..(o.next + k - 1) : p = Part(o.n, i)
  <2>. SUFFICES ASSUME NEW j \in 1..Len(Unread')
                PROVE  \/ j \in 1..Len(Unread) /\ Unread'[j] = Unread[j]
                       \/ \E i \in o.next..(o.next + k - 1) : Unread'[j] = Part(o.n, i)
    BY DEF InUnread
  <2>0. Len(Unread) \in Nat /\ Len(Unread') = Len(Unread) + k /\ k \in Nat
    BY UnreadFacts, TransmitFacts, <1>0
  <2>1. CASE j <= Len(Unread)
    BY <2>0, <2>1, TransmitFacts
  <2>2. CASE j > Len(Unread)
    <3>1. j - Len(Unread) \in 1..k /\ Len(Unread) + (j - Len(Unread)) = j
      BY <2>0, <2>2
    <3>2. Unread'[j] = Part(o.n, o.next + (j - Len(Unread)) - 1)
      BY <3>1, TransmitFacts
    <3>3. o.next + (j - Len(Unread)) - 1 \in o.next..(o.next + k - 1)
      BY <3>1, <1>0, <2>0
    <3>. QED  BY <3>2, <3>3
  <2>. QED  BY <2>0, <2>1, <2>2
<1>4. ASSUME NEW q \in Pending'
      PROVE  \/ q \in Pending /\ q.n # o.n
             \/ q = Write(o.n, o.next + k) /\ q \in resuming' /\ k < Size[o.n] - o.next + 1
  <2>1. CASE q \in resuming
    BY <2>1, PendingFacts DEF PendingInOrder, TypeOK
  <2>2. CASE \E i \in 1..Len(writes') : q = writes'[i]
    <3>. PICK i \in 1..Len(writes') : q = writes'[i]
      BY <2>2
    <3>0. Len(writes) \in Nat
      BY DEF TypeOK
    <3>1. i + 1 \in 1..Len(writes) /\ q = writes[i + 1] /\ i + 1 # 1 /\ 1 \in 1..Len(writes)
      BY TransmitFacts, <3>0
    <3>. QED  BY <3>1, PendingFacts DEF PendingInOrder
  <2>3. CASE q \in resuming' /\ q \notin resuming
    BY <2>3, TransmitFacts
  <2>. QED  BY <2>1, <2>2, <2>3 DEF Pending
<1>5. ASSUME NEW q \in Pending  PROVE q = o \/ q \in Pending'
  <2>1. CASE q \in resuming
    BY <2>1, TransmitFacts DEF Pending
  <2>2. ASSUME NEW i \in 1..Len(writes), q = writes[i]  PROVE q = o \/ q \in Pending'
    <3>0. Len(writes) \in Nat
      BY DEF TypeOK
    <3>1. CASE i # 1
      <4>1. i - 1 \in 1..Len(writes') /\ (i - 1) + 1 = i
        BY TransmitFacts, <3>0, <3>1
      <4>2. q = writes'[i - 1]
        BY <2>2, <4>1, TransmitFacts
      <4>. QED  BY <4>1, <4>2 DEF Pending
    <3>. QED  BY <2>2, <3>1
  <2>. QED  BY <2>1, <2>2 DEF Pending
<1>6. k < Size[o.n] - o.next + 1 => Write(o.n, o.next + k) \in Pending'
  BY TransmitFacts DEF Pending
<1>. QED  BY <1>1, <1>2, <1>3, <1>4, <1>5, <1>6

(* The invariant after an async_write_some.  Without overlap only the last *)
(* unread message can be incomplete, and what comes now continues it.      *)
LEMMA TransmitStep ==
  ASSUME TypeOK, TypeOK', InOrder, open, writes # << >>, NEW k \in 1..Left(Head(writes)), Transmit(k)
  PROVE  InOrder'
<1>0. UnreadInOrder /\ PendingInOrder /\ NothingForgotten /\ (overlapped \/ Blocks)
  BY DEF InOrder
<1>1. PICK N, x, L, D :
        N = writes[1].n /\ x = writes[1].next /\ L = Len(Unread) /\ D = Len(delivered)
  OBVIOUS
<1>2. /\ writes[1] = Write(N, x) /\ writes[1] \in Pending /\ Len(writes) \in Nat /\ Len(writes) >= 1
      /\ N \in 1..MaxSends /\ Size[N] \in Nat /\ x \in 1..Size[N] /\ k \in 1..(Size[N] - x + 1)
      /\ L \in Nat /\ D \in Nat /\ sends \in Nat /\ N \in (D + 1)..sends
  <2>1. /\ writes[1] \in ValidWrites /\ writes[1] \in Pending /\ k \in 1..(Size[N] - x + 1)
        /\ Len(writes) \in Nat /\ Len(writes) >= 1 /\ D \in Nat /\ sends \in Nat
    <3>1. Len(writes) \in Nat /\ Len(writes) >= 1 /\ D \in Nat /\ sends \in Nat
      BY <1>1, SizeFacts DEF TypeOK
    <3>2. writes[1] \in ValidWrites /\ writes[1] \in Pending /\ k \in 1..(Size[N] - x + 1)
      BY <1>0, <1>1, TransmitFacts
    <3>. QED  BY <3>1, <3>2
  <2>2. writes[1] = Write(N, x) /\ N \in 1..MaxSends /\ x \in 1..Size[N] /\ Size[N] \in Nat
    BY <1>1, <2>1, WriteFacts, SizeFacts
  <2>3. L \in Nat /\ N \in (D + 1)..sends
    BY <1>0, <1>1, <2>1, UnreadFacts DEF PendingInOrder
  <2>. QED  BY <2>1, <2>2, <2>3
<1>3. /\ Len(Unread') = L + k /\ D = Len(delivered')
      /\ \A j \in 1..L : Unread'[j] = Unread[j]
      /\ \A j \in 1..k : Unread'[L + j] = Part(N, x + j - 1)
      /\ Len(writes') = Len(writes) - 1
      /\ \A i \in 1..Len(writes') : writes'[i] = writes[i + 1]
      /\ resuming' = IF k < Size[N] - x + 1 THEN resuming \cup {Write(N, x + k)} ELSE resuming
      /\ UNCHANGED <<sends, delivered, open>>
  BY <1>0, <1>1, TransmitFacts
<1>4. /\ \A p : InUnread(p) => InUnread(p)'
      /\ \A i \in x..(x + k - 1) : InUnread(Part(N, i))'
      /\ \A p : InUnread(p)' => InUnread(p) \/ \E i \in x..(x + k - 1) : p = Part(N, i)
      /\ \A q \in Pending' :
           \/ q \in Pending /\ q.n # N
           \/ q = Write(N, x + k) /\ q \in resuming' /\ k < Size[N] - x + 1
      /\ \A q \in Pending : q = Write(N, x) \/ q \in Pending'
      /\ k < Size[N] - x + 1 => Write(N, x + k) \in Pending'
  BY <1>0, <1>1, <1>2, TransmitSets
<1>5. /\ x > 1 => \E m \in 1..L : Unread[m] = Part(N, x - 1)
      /\ \A m \in 1..L : \A i \in x..Size[N] : Unread[m] # Part(N, i)
  <2>1. /\ x > 1 => InUnread(Part(N, x - 1))
        /\ \A i \in x..Size[N] : ~InUnread(Part(N, i))
    BY <1>0, <1>1, <1>2 DEF PendingInOrder
  <2>. QED  BY <1>1, <2>1 DEF InUnread
<1>6. \A j \in 1..L :
        /\ Unread[j] = Part(Unread[j].n, Unread[j].i) /\ Unread[j].n \in 1..MaxSends
        /\ Unread[j].i \in 1..Size[Unread[j].n] /\ Size[Unread[j].n] \in Nat
  BY <1>1, UnreadFacts, PartFacts, SizeFacts
<1>7. ASSUME NEW j \in 1..(L + k), j \notin 1..L
      PROVE  /\ j - L \in 1..k /\ Unread'[j] = Part(N, x + (j - L) - 1)
             /\ Unread'[j].n = N /\ Unread'[j].i = x + (j - L) - 1
  <2>1. j - L \in 1..k /\ L + (j - L) = j
    BY <1>2, <1>7
  <2>2. Unread'[j] = Part(N, x + (j - L) - 1)
    BY <1>3, <2>1
  <2>. QED  BY <2>1, <2>2 DEF Part
<1>8. UnreadInOrder'
  <2>. SUFFICES ASSUME NEW j \in 1..(L + k)
                PROVE  LET p == Unread'[j] IN
                       /\ p.n \in (D + 1)..sends
                       /\ \A h \in 1..(L + k) : Unread'[h] = p => h = j
                       /\ p.i > 1 => \E h \in 1..(j - 1) : Unread'[h] = Part(p.n, p.i - 1)
                       /\ p.i = 1 /\ p.n > D + 1 => \E h \in 1..(j - 1) : Unread'[h] = Part(p.n - 1, 1)
    BY <1>3 DEF UnreadInOrder
  <2>1. CASE j \in 1..L
    <3>1. \A h \in 1..(L + k) : Unread'[h] = Unread[j] => h \in 1..L
      <4>. SUFFICES ASSUME NEW h \in 1..(L + k), h \notin 1..L  PROVE Unread'[h] # Unread[j]
        OBVIOUS
      <4>1. h - L \in 1..k /\ Unread'[h] = Part(N, x + (h - L) - 1)
        BY <1>7
      <4>2. x + (h - L) - 1 \in x..Size[N]
        BY <1>2, <4>1
      <4>. QED  BY <1>5, <2>1, <4>1, <4>2
    <3>2. /\ Unread[j].n \in (D + 1)..sends
          /\ \A h \in 1..L : Unread[h] = Unread[j] => h = j
          /\ Unread[j].i > 1 => \E h \in 1..(j - 1) : Unread[h] = Part(Unread[j].n, Unread[j].i - 1)
          /\ Unread[j].i = 1 /\ Unread[j].n > D + 1 =>
               \E h \in 1..(j - 1) : Unread[h] = Part(Unread[j].n - 1, 1)
      BY <1>0, <1>1, <2>1 DEF UnreadInOrder
    <3>3. Unread'[j] = Unread[j] /\ \A h \in 1..(j - 1) : h \in 1..L /\ Unread'[h] = Unread[h]
      BY <1>2, <1>3, <2>1
    <3>. QED  BY <1>3, <3>1, <3>2, <3>3
  <2>2. CASE j \notin 1..L
    <3>1. /\ j - L \in 1..k /\ Unread'[j] = Part(N, x + (j - L) - 1)
          /\ Unread'[j].n = N /\ Unread'[j].i = x + (j - L) - 1
      BY <1>7, <2>2
    <3>2. \A h \in 1..(L + k) : Unread'[h] = Unread'[j] => h = j
      <4>. SUFFICES ASSUME NEW h \in 1..(L + k), Unread'[h] = Unread'[j]  PROVE h = j
        OBVIOUS
      <4>1. h \notin 1..L
        <5>1. x + (j - L) - 1 \in x..Size[N]
          BY <1>2, <3>1
        <5>. QED  BY <1>3, <1>5, <3>1, <5>1
      <4>2. h - L \in 1..k /\ Unread'[h].i = x + (h - L) - 1
        BY <1>7, <4>1
      <4>. QED  BY <1>2, <3>1, <4>2
    <3>3. ASSUME x + (j - L) - 1 > 1
          PROVE  \E h \in 1..(j - 1) : Unread'[h] = Part(N, x + (j - L) - 1 - 1)
      <4>1. CASE j - L = 1
        <5>1. x > 1 /\ x + (j - L) - 1 - 1 = x - 1
          BY <1>2, <3>3, <4>1
        <5>2. PICK m \in 1..L : Unread[m] = Part(N, x - 1)
          BY <1>5, <5>1
        <5>3. m \in 1..(j - 1) /\ Unread'[m] = Part(N, x - 1)
          BY <1>2, <1>3, <4>1, <5>2
        <5>. QED  BY <5>1, <5>3
      <4>2. CASE j - L # 1
        <5>1. j - 1 \in 1..(L + k) /\ j - 1 \notin 1..L /\ j - 1 \in 1..(j - 1)
          <6>1. j \in Int /\ L \in Nat /\ k \in Nat /\ j >= L + 2 /\ j <= L + k
            BY <1>2, <3>1, <4>2
          <6>. QED  BY <6>1
        <5>2. Unread'[j - 1] = Part(N, x + ((j - 1) - L) - 1)
          BY <1>7, <5>1
        <5>3. x + ((j - 1) - L) - 1 = x + (j - L) - 1 - 1
          BY <1>2, <3>1
        <5>. QED  BY <5>1, <5>2, <5>3
      <4>. QED  BY <4>1, <4>2
    <3>4. ASSUME x + (j - L) - 1 = 1, N > D + 1
          PROVE  \E h \in 1..(j - 1) : Unread'[h] = Part(N - 1, 1)
      <4>1. x = 1 /\ j = L + 1
        BY <1>2, <3>1, <3>4
      <4>2. InUnread(Part(N - 1, 1))
        <5>1. 1 \in 1..Len(writes) /\ writes[1].next = 1 /\ writes[1].n > Len(delivered) + 1
          BY <1>1, <1>2, <3>4, <4>1
        <5>2. ~\E h \in 1..(1 - 1) : writes[h] = Write(N - 1, 1)
          OBVIOUS
        <5>. QED  BY <1>0, <1>1, <5>1, <5>2 DEF PendingInOrder
      <4>3. PICK m \in 1..L : Unread[m] = Part(N - 1, 1)
        BY <1>1, <4>2 DEF InUnread
      <4>4. m \in 1..(j - 1) /\ Unread'[m] = Part(N - 1, 1)
        BY <1>2, <1>3, <4>1, <4>3
      <4>. QED  BY <4>4
    <3>. DEFINE p == Unread'[j]
    <3>6. p.n = N /\ p.i = x + (j - L) - 1
      BY <3>1
    <3>. HIDE DEF p
    <3>7. ASSUME p.i > 1  PROVE \E h \in 1..(j - 1) : Unread'[h] = Part(p.n, p.i - 1)
      <4>1. x + (j - L) - 1 > 1 /\ p.i - 1 = x + (j - L) - 1 - 1
        BY <1>2, <3>1, <3>6, <3>7
      <4>2. Part(p.n, p.i - 1) = Part(N, x + (j - L) - 1 - 1)
        BY <3>6, <4>1
      <4>. QED  BY <3>3, <4>1, <4>2
    <3>8. p.i = 1 /\ p.n > D + 1 => \E h \in 1..(j - 1) : Unread'[h] = Part(p.n - 1, 1)
      BY <3>4, <3>6
    <3>9. p.n \in (D + 1)..sends /\ \A h \in 1..(L + k) : Unread'[h] = p => h = j
      BY <1>2, <3>2, <3>6 DEF p
    <3>. QED  BY <3>7, <3>8, <3>9 DEF p
  <2>. QED  BY <2>1, <2>2
<1>9. PendingInOrder'
  <2>0. /\ \A i \in 1..Len(writes') : i + 1 \in 1..Len(writes) /\ i + 1 # 1 /\ writes[i + 1] \in Pending
        /\ 1 \in 1..Len(writes) /\ writes[1].n = N
        /\ \A i \in 1..Len(writes') : writes'[i].n # N
    <3>1. \A i \in 1..Len(writes') : i + 1 \in 1..Len(writes) /\ i + 1 # 1
      BY <1>2, <1>3
    <3>2. 1 \in 1..Len(writes) /\ writes[1].n = N
      BY <1>1, <1>2
    <3>. QED  BY <1>0, <1>3, <3>1, <3>2, PendingFacts DEF PendingInOrder
  <2>1. ASSUME NEW q \in Pending'
        PROVE  /\ q.n \in (D + 1)..sends
               /\ q.next > 1 => InUnread(Part(q.n, q.next - 1))'
               /\ \A i \in q.next..Size[q.n] : ~InUnread(Part(q.n, i))'
    <3>1. CASE q \in Pending /\ q.n # N
      <4>1. /\ q.n \in (D + 1)..sends
            /\ q.next > 1 => InUnread(Part(q.n, q.next - 1))
            /\ \A i \in q.next..Size[q.n] : ~InUnread(Part(q.n, i))
        BY <1>0, <1>1, <3>1 DEF PendingInOrder
      <4>2. \A i, h : Part(q.n, h) # Part(N, i)
        BY <3>1, Identities
      <4>. QED  BY <1>4, <4>1, <4>2
    <3>2. CASE q = Write(N, x + k) /\ k < Size[N] - x + 1
      <4>1. q.n = N /\ q.next = x + k
        BY <3>2 DEF Write
      <4>2. q.next - 1 \in x..(x + k - 1)
        BY <1>2, <4>1
      <4>3. InUnread(Part(N, q.next - 1))'
        BY <1>4, <4>2
      <4>4. ASSUME NEW i \in (x + k)..Size[N]  PROVE ~InUnread(Part(N, i))'
        <5>1. i \in x..Size[N] /\ i \notin x..(x + k - 1)
          BY <1>2
        <5>2. ~InUnread(Part(N, i))
          BY <1>1, <1>5, <5>1 DEF InUnread
        <5>. QED  BY <1>4, <5>1, <5>2, Identities
      <4>. QED  BY <1>2, <4>1, <4>3, <4>4
    <3>. QED  BY <1>4, <3>1, <3>2
  <2>2. \A i, j \in 1..Len(writes') : writes'[i].n = writes'[j].n => i = j
    <3>. SUFFICES ASSUME NEW i \in 1..Len(writes'), NEW j \in 1..Len(writes'), writes'[i].n = writes'[j].n
                  PROVE  i = j
      OBVIOUS
    <3>1. i + 1 = j + 1
      <4>1. writes[i + 1].n = writes[j + 1].n /\ i + 1 \in 1..Len(writes) /\ j + 1 \in 1..Len(writes)
        BY <1>3, <2>0
      <4>2. \A g, h \in 1..Len(writes) : writes[g].n = writes[h].n => g = h
        BY <1>0 DEF PendingInOrder
      <4>. QED  BY <4>1, <4>2
    <3>. QED  BY <1>2, <1>3, <3>1
  <2>3. ASSUME NEW r \in resuming'
        PROVE  /\ r.next > 1
               /\ \A i \in 1..Len(writes') : writes'[i].n # r.n
               /\ \A q \in resuming' : q.n = r.n => q = r
    <3>1. \A q \in resuming : q.n # N
      BY <1>0, <2>0 DEF PendingInOrder
    <3>2. CASE r \in resuming
      <4>1. \A q \in resuming' : q.n = r.n => q = r
        <5>. SUFFICES ASSUME NEW q \in resuming', q.n = r.n  PROVE q = r
          OBVIOUS
        <5>1. q \in resuming \/ q = Write(N, x + k)
          BY <1>3
        <5>2. q # Write(N, x + k)
          BY <3>1, <3>2 DEF Write
        <5>. QED  BY <1>0, <3>2, <5>1, <5>2 DEF PendingInOrder
      <4>. QED  BY <1>0, <1>3, <2>0, <3>2, <4>1 DEF PendingInOrder
    <3>3. CASE r = Write(N, x + k)
      <4>1. r.n = N /\ r.next = x + k /\ r.next > 1
        BY <1>2, <3>3 DEF Write
      <4>2. \A q \in resuming' : q.n = r.n => q = r
        BY <1>3, <3>1, <3>3, <4>1
      <4>. QED  BY <2>0, <4>1, <4>2
    <3>. QED  BY <1>3, <3>2, <3>3
  <2>4. ASSUME NEW i \in 1..Len(writes'), writes'[i].next = 1, writes'[i].n > D + 1
        PROVE  \/ \E p : p = Part(writes'[i].n - 1, 1) /\ InUnread(p)'
               \/ \E h \in 1..(i - 1) : writes'[h] = Write(writes'[i].n - 1, 1)
    <3>0. writes'[i] = writes[i + 1] /\ i + 1 \in 1..Len(writes)
      BY <1>3, <2>0
    <3>1. \/ InUnread(Part(writes[i + 1].n - 1, 1))
          \/ \E h \in 1..((i + 1) - 1) : writes[h] = Write(writes[i + 1].n - 1, 1)
      BY <1>0, <1>1, <2>4, <3>0 DEF PendingInOrder
    <3>2. CASE InUnread(Part(writes[i + 1].n - 1, 1))
      BY <1>4, <3>0, <3>2
    <3>3. ASSUME NEW h \in 1..i, writes[h] = Write(writes[i + 1].n - 1, 1)
          PROVE  \/ \E p : p = Part(writes'[i].n - 1, 1) /\ InUnread(p)'
                 \/ \E g \in 1..(i - 1) : writes'[g] = Write(writes'[i].n - 1, 1)
      <4>1. CASE h = 1
        <5>1. writes'[i].n - 1 = N /\ x = 1
          BY <1>2, <3>0, <3>3, <4>1, Identities
        <5>2. InUnread(Part(N, 1))'
          <6>1. 1 \in x..(x + k - 1)
            BY <1>2, <5>1
          <6>. QED  BY <1>4, <6>1
        <5>. QED  BY <5>1, <5>2
      <4>2. CASE h # 1
        <5>1. h - 1 \in 1..(i - 1) /\ h - 1 \in 1..Len(writes') /\ (h - 1) + 1 = h
          BY <1>2, <1>3, <4>2
        <5>2. writes'[h - 1] = Write(writes'[i].n - 1, 1)
          BY <1>3, <3>0, <3>3, <5>1
        <5>. QED  BY <5>1, <5>2
      <4>. QED  BY <4>1, <4>2
    <3>4. (i + 1) - 1 = i
      BY <1>2, <1>3
    <3>. QED  BY <3>1, <3>2, <3>3, <3>4
  <2>5. \A i \in 1..Len(writes') : writes'[i].next = 1 /\ writes'[i].n > Len(delivered') + 1 =>
          \/ InUnread(Part(writes[i].n - 1, 1))'
          \/ \E h \in 1..(i - 1) : writes'[h] = Write(writes'[i].n - 1, 1)
    BY <1>3, <2>4
  <2>. QED  BY <1>3, <2>1, <2>2, <2>3, <2>5 DEF PendingInOrder
<1>10. NothingForgotten'
  <2>1. ASSUME NEW n \in (D + 1)..sends
        PROVE  InUnread(Part(n, 1))' \/ \E h \in 1..Len(writes') : writes'[h] = Write(n, 1)
    <3>1. CASE InUnread(Part(n, 1))
      BY <1>4, <3>1
    <3>2. ASSUME NEW h \in 1..Len(writes), writes[h] = Write(n, 1)
          PROVE  InUnread(Part(n, 1))' \/ \E g \in 1..Len(writes') : writes'[g] = Write(n, 1)
      <4>1. CASE h = 1
        <5>1. n = N /\ x = 1
          BY <1>2, <3>2, <4>1, Identities
        <5>2. 1 \in x..(x + k - 1)
          BY <1>2, <5>1
        <5>. QED  BY <1>4, <5>1, <5>2
      <4>2. CASE h # 1
        <5>1. h - 1 \in 1..Len(writes') /\ (h - 1) + 1 = h
          BY <1>2, <1>3, <4>2
        <5>. QED  BY <1>3, <3>2, <5>1
      <4>. QED  BY <4>1, <4>2
    <3>. QED  BY <1>0, <1>1, <3>1, <3>2 DEF NothingForgotten
  <2>2. ASSUME NEW n, InUnread(Part(n, Size[n])) \/ \E q \in Pending : q.n = n /\ q.next > 1
        PROVE  InUnread(Part(n, Size[n]))' \/ \E q \in Pending' : q.n = n /\ q.next > 1
    <3>1. CASE InUnread(Part(n, Size[n]))
      BY <1>4, <3>1
    <3>2. ASSUME NEW q \in Pending, q.n = n, q.next > 1, q # Write(N, x)
          PROVE  \E o \in Pending' : o.n = n /\ o.next > 1
      BY <1>4, <3>2
    <3>3. CASE n = N
      <4>1. CASE k < Size[N] - x + 1
        <5>1. Write(N, x + k) \in Pending' /\ Write(N, x + k).n = N /\ Write(N, x + k).next > 1
          BY <1>2, <1>4, <4>1 DEF Write
        <5>. QED  BY <3>3, <5>1
      <4>2. CASE ~(k < Size[N] - x + 1)
        <5>1. Size[N] \in x..(x + k - 1)
          BY <1>2, <4>2
        <5>. QED  BY <1>4, <3>3, <5>1
      <4>. QED  BY <4>1, <4>2
    <3>4. Write(N, x).n = N
      BY DEF Write
    <3>. QED  BY <2>2, <3>1, <3>2, <3>3, <3>4
  <2>3. ASSUME NEW j \in 1..Len(Unread')
        PROVE  \/ \E p : p = Part(Unread'[j].n, Size[Unread'[j].n]) /\ InUnread(p)'
               \/ \E q \in Pending' : q.n = Unread'[j].n /\ q.next > 1
    <3>1. CASE j \in 1..L
      <4>1. Unread'[j] = Unread[j]
        BY <1>3, <3>1
      <4>2. \/ InUnread(Part(Unread[j].n, Size[Unread[j].n]))
            \/ \E q \in Pending : q.n = Unread[j].n /\ q.next > 1
        BY <1>0, <1>1, <3>1 DEF NothingForgotten
      <4>. QED  BY <2>2, <4>1, <4>2
    <3>2. CASE j \notin 1..L
      <4>1. Unread'[j].n = N
        BY <1>3, <1>7, <3>2
      <4>2. CASE k < Size[N] - x + 1
        <5>1. Write(N, x + k) \in Pending' /\ Write(N, x + k).n = N /\ Write(N, x + k).next > 1
          BY <1>2, <1>4, <4>2 DEF Write
        <5>. QED  BY <4>1, <5>1
      <4>3. CASE ~(k < Size[N] - x + 1)
        <5>1. Size[N] \in x..(x + k - 1)
          BY <1>2, <4>3
        <5>. QED  BY <1>4, <4>1, <5>1
      <4>. QED  BY <4>2, <4>3
    <3>. QED  BY <3>1, <3>2
  <2>4. \A j \in 1..Len(Unread') :
          \/ InUnread(Part(Unread[j].n, Size[Unread[j].n]))'
          \/ \E q \in Pending' : q.n = Unread'[j].n /\ q.next > 1
    BY <2>3
  <2>. QED  BY <1>3, <2>1, <2>4 DEF NothingForgotten
<1>11. ASSUME ~overlapped'  PROVE Blocks'
  <2>1. Blocks /\ \A n \in PartlyWritten : n = N
    <3>1. overlapped' = (overlapped \/ \E n \in PartlyWritten : n # N)
      BY <1>0, <1>1, TransmitFacts DEF Transmit
    <3>. QED  BY <1>0, <1>11, <3>1
  <2>2. \A q \in Pending : q.next > 1 => q.n = N
    <3>. SUFFICES ASSUME NEW q \in Pending, q.next > 1  PROVE q.n \in PartlyWritten
      BY <2>1
    <3>. QED  BY <1>0 DEF Pending, PendingInOrder, PartlyWritten
  <2>. DEFINE InBlock(j, n, i) ==
         i <= j /\ \A h \in 1..Size[n] : j - i + h <= L => Unread[j - i + h] = Part(n, h)
  <2>3. \A j \in 1..L : InBlock(j, Unread[j].n, Unread[j].i)
    BY <1>1, <2>1 DEF Blocks
  <2>4. \A g, j \in 1..L : Unread[g] = Unread[j] => g = j
    BY <1>0, <1>1 DEF UnreadInOrder
  <2>5. ASSUME x > 1
        PROVE  L >= x - 1 /\ \A h \in 1..(x - 1) : L - x + 1 + h \in 1..L /\ Unread[L - x + 1 + h] = Part(N, h)
    <3>1. PICK m \in 1..L : Unread[m] = Part(N, x - 1)
      BY <1>5, <2>5
    <3>2. Unread[m].n = N /\ Unread[m].i = x - 1
      BY <3>1 DEF Part
    <3>3. InBlock(m, N, x - 1)
      BY <2>3, <3>2
    <3>4. m = L
      <4>. SUFFICES ASSUME m + 1 <= L  PROVE FALSE
        BY <1>2
      <4>1. m - (x - 1) + x = m + 1 /\ x \in 1..Size[N]
        BY <1>2
      <4>2. Unread[m + 1] = Part(N, x)
        BY <3>3, <4>1
      <4>. QED  BY <1>2, <1>5, <4>1, <4>2
    <3>5. L >= x - 1
      BY <1>2, <3>3, <3>4
    <3>6. ASSUME NEW h \in 1..(x - 1)
          PROVE  L - x + 1 + h \in 1..L /\ Unread[L - x + 1 + h] = Part(N, h)
      <4>1. L - (x - 1) + h = L - x + 1 + h /\ L - x + 1 + h <= L /\ L - x + 1 + h >= 1 /\ h \in 1..Size[N]
        BY <1>2, <3>5
      <4>2. Unread[L - (x - 1) + h] = Part(N, h)
        BY <3>3, <3>4, <4>1
      <4>. QED  BY <1>2, <4>1, <4>2
    <3>. QED  BY <3>5, <3>6
  <2>6. ASSUME NEW j \in 1..L, NEW n, NEW i, n = Unread[j].n, i = Unread[j].i
        PROVE  \/ \A h \in 1..Size[n] : j - i + h <= L
               \/ n = N /\ i < x /\ j = L - x + 1 + i
    <3>0. Unread[j] = Part(n, i) /\ i \in 1..Size[n] /\ Size[n] \in Nat /\ InBlock(j, n, i)
      BY <1>6, <2>3, <2>6
    <3>1. CASE InUnread(Part(n, Size[n]))
      <4>1. PICK m \in 1..L : Unread[m] = Part(n, Size[n])
        BY <1>1, <3>1 DEF InUnread
      <4>2. Unread[m].n = n /\ Unread[m].i = Size[n]
        BY <4>1 DEF Part
      <4>3. InBlock(m, n, Size[n])
        BY <2>3, <4>2
      <4>4. m - Size[n] + i \in 1..L
        <5>1. Size[n] <= m
          BY <4>3
        <5>. QED  BY <1>2, <3>0, <4>1, <5>1
      <4>5. Unread[m - Size[n] + i] = Part(n, i)
        BY <3>0, <4>3, <4>4
      <4>6. m - Size[n] + i = j
        BY <2>4, <3>0, <4>4, <4>5
      <4>7. \A h \in 1..Size[n] : j - i + h <= L
        BY <1>2, <3>0, <4>6
      <4>. QED  BY <4>7
    <3>2. CASE n = N /\ x > 1
      <4>1. i < x
        <5>. SUFFICES ASSUME i >= x  PROVE FALSE
          BY <1>2, <3>0
        <5>. QED  BY <1>2, <1>5, <3>0, <3>2
      <4>2. L - x + 1 + i \in 1..L /\ Unread[L - x + 1 + i] = Part(N, i)
        BY <1>2, <2>5, <3>0, <3>2, <4>1
      <4>. QED  BY <2>4, <3>0, <3>2, <4>1, <4>2
    <3>3. InUnread(Part(n, Size[n])) \/ \E q \in Pending : q.n = n /\ q.next > 1
      BY <1>0, <1>1, <2>6 DEF NothingForgotten
    <3>4. ASSUME NEW q \in Pending, q.n = n, q.next > 1
          PROVE  InUnread(Part(n, Size[n])) \/ (n = N /\ x > 1)
      <4>1. n = N
        BY <2>2, <3>4
      <4>2. q = Write(N, x) \/ q.n # N
        <5>1. 1 \in 1..Len(writes) /\ writes[1].n = N
          BY <1>1, <1>2
        <5>. QED  BY <1>0, <1>2, <5>1 DEF PendingInOrder, Pending
      <4>3. Write(N, x).next = x
        BY DEF Write
      <4>. QED  BY <3>4, <4>1, <4>2, <4>3
    <3>. QED  BY <3>1, <3>2, <3>3, <3>4
  <2>7. ASSUME NEW h \in 1..Size[N], L - x + 1 + h <= L + k
        PROVE  Unread'[L - x + 1 + h] = Part(N, h)
    <3>1. CASE h < x
      <4>1. x > 1 /\ h \in 1..(x - 1)
        BY <1>2, <3>1
      <4>. QED  BY <1>3, <2>5, <4>1
    <3>2. CASE h >= x
      <4>1. h - x + 1 \in 1..k /\ L + (h - x + 1) = L - x + 1 + h /\ x + (h - x + 1) - 1 = h
        BY <1>2, <2>7, <3>2
      <4>2. Unread'[L + (h - x + 1)] = Part(N, x + (h - x + 1) - 1)
        BY <1>3, <4>1
      <4>. QED  BY <4>1, <4>2
    <3>. QED  BY <1>2, <3>1, <3>2
  <2>8. ASSUME NEW j \in 1..(L + k), NEW n, NEW i, n = Unread'[j].n, i = Unread'[j].i
        PROVE  i <= j /\ \A h \in 1..Size[n] : j - i + h <= L + k => Unread'[j - i + h] = Part(n, h)
    <3>1. CASE j \in 1..L
      <4>0. n = Unread[j].n /\ i = Unread[j].i
        BY <1>3, <2>8, <3>1
      <4>1. i \in 1..Size[n] /\ Size[n] \in Nat /\ InBlock(j, n, i)
        BY <1>6, <2>3, <3>1, <4>0
      <4>2. CASE \A h \in 1..Size[n] : j - i + h <= L
        <5>. SUFFICES ASSUME NEW h \in 1..Size[n]  PROVE Unread'[j - i + h] = Part(n, h)
          BY <4>1
        <5>1. i <= j
          BY <4>1
        <5>2. j - i + h \in 1..L
          BY <1>2, <3>1, <4>1, <4>2, <5>1
        <5>3. Unread[j - i + h] = Part(n, h)
          BY <4>1, <5>2
        <5>. QED  BY <1>3, <5>2, <5>3
      <4>3. CASE n = N /\ i < x /\ j = L - x + 1 + i
        <5>1. \A h \in 1..Size[n] : j - i + h = L - x + 1 + h
          BY <1>2, <4>1, <4>3
        <5>. QED  BY <2>7, <4>1, <4>3, <5>1
      <4>. QED  BY <2>6, <3>1, <4>0, <4>2, <4>3
    <3>2. CASE j \notin 1..L
      <4>1. j - L \in 1..k /\ n = N /\ i = x + (j - L) - 1
        BY <1>7, <2>8, <3>2
      <4>2. i <= j
        <5>1. x - 1 <= L
          BY <1>2, <2>5
        <5>. QED  BY <1>2, <4>1, <5>1
      <4>3. \A h \in 1..Size[N] : j - i + h = L - x + 1 + h
        BY <1>2, <4>1
      <4>. QED  BY <2>7, <4>1, <4>2, <4>3
    <3>. QED  BY <3>1, <3>2
  <2>9. ASSUME NEW j \in 1..Len(Unread')
        PROVE  /\ Unread'[j].i <= j
               /\ \A h \in 1..Size[Unread'[j].n] :
                    j - Unread'[j].i + h <= Len(Unread') =>
                      Unread'[j - Unread'[j].i + h] = Part(Unread'[j].n, h)
    <3>1. j \in 1..(L + k)
      BY <1>3
    <3>2. PICK n, i : n = Unread'[j].n /\ i = Unread'[j].i
      OBVIOUS
    <3>3. i <= j /\ \A h \in 1..Size[n] : j - i + h <= L + k => Unread'[j - i + h] = Part(n, h)
      BY <2>8, <3>1, <3>2
    <3>. QED  BY <1>3, <3>2, <3>3
  <2>. QED  BY <2>9 DEF Blocks
<1>. QED  BY <1>8, <1>9, <1>10, <1>11 DEF InOrder
(* The rest of a message joins the writes again, behind all others. *)
LEMMA ResumeStep ==
  ASSUME TypeOK, InOrder, NEW o \in resuming, Resume(o)
  PROVE  InOrder'
<1>1. /\ writes \in Seq(ValidWrites) /\ writes' = Append(writes, o) /\ resuming' = resuming \ {o}
      /\ Unread' = Unread /\ UNCHANGED <<sends, delivered, open, overlapped>> /\ o \in ValidWrites
  BY PendingFacts DEF Resume, TypeOK, clientVars, Unread
<1>2. /\ Len(writes) \in Nat /\ Len(writes') = Len(writes) + 1 /\ writes'[Len(writes) + 1] = o
      /\ \A i \in 1..Len(writes) : writes'[i] = writes[i]
      /\ \A i \in 1..Len(writes') : i \in 1..Len(writes) \/ i = Len(writes) + 1
  <2>1. \A s \in Seq(ValidWrites) : \A w \in ValidWrites :
          /\ Len(s) \in Nat /\ Len(Append(s, w)) = Len(s) + 1 /\ Append(s, w)[Len(s) + 1] = w
          /\ \A i \in 1..Len(s) : Append(s, w)[i] = s[i]
    OBVIOUS
  <2>2. /\ Len(writes) \in Nat /\ Len(writes') = Len(writes) + 1 /\ writes'[Len(writes) + 1] = o
        /\ \A i \in 1..Len(writes) : writes'[i] = writes[i]
    BY <1>1, <2>1
  <2>. QED  BY <2>2
<1>3. UnreadInOrder /\ PendingInOrder /\ NothingForgotten /\ (overlapped \/ Blocks)
  BY DEF InOrder
<1>4. \A q : q \in Pending' <=> q \in Pending
  <2>1. Len(writes) + 1 \in 1..Len(writes') /\ \A i \in 1..Len(writes) : i \in 1..Len(writes')
    BY <1>2
  <2>2. \A q \in Pending' : q \in Pending
    BY <1>1, <1>2 DEF Pending
  <2>3. \A q \in Pending : q \in Pending'
    BY <1>1, <1>2, <2>1 DEF Pending
  <2>. QED  BY <2>2, <2>3
<1>5. \A p : InUnread(p)' <=> InUnread(p)
  BY <1>1 DEF InUnread
<1>6. UnreadInOrder' /\ (overlapped' \/ Blocks')
  BY <1>1, <1>3 DEF UnreadInOrder, Blocks
<1>7. NothingForgotten'
  <2>1. \A n \in (Len(delivered) + 1)..sends : open =>
          InUnread(Part(n, 1)) \/ \E h \in 1..Len(writes') : writes'[h] = Write(n, 1)
    BY <1>2, <1>3 DEF NothingForgotten
  <2>2. \A j \in 1..Len(Unread) : open =>
          \/ InUnread(Part(Unread[j].n, Size[Unread[j].n]))
          \/ \E q \in Pending' : q.n = Unread[j].n /\ q.next > 1
    BY <1>3, <1>4 DEF NothingForgotten
  <2>. QED  BY <1>1, <1>5, <2>1, <2>2 DEF NothingForgotten
<1>8. PendingInOrder'
  <2>1. \A q \in Pending' :
          /\ q.n \in (Len(delivered) + 1)..sends
          /\ q.next > 1 => InUnread(Part(q.n, q.next - 1))
          /\ \A i \in q.next..Size[q.n] : ~InUnread(Part(q.n, i))
    BY <1>3, <1>4 DEF PendingInOrder
  <2>2. o.next > 1 /\ \A i \in 1..Len(writes) : writes[i].n # o.n
    BY <1>3 DEF PendingInOrder
  <2>3. \A i, j \in 1..Len(writes') : writes'[i].n = writes'[j].n => i = j
    BY <1>2, <1>3, <2>2 DEF PendingInOrder
  <2>4. \A r \in resuming' :
          /\ r.next > 1
          /\ \A i \in 1..Len(writes') : writes'[i].n # r.n
          /\ \A q \in resuming' : q.n = r.n => q = r
    <3>1. \A r \in resuming' : r \in resuming /\ r.n # o.n
      BY <1>1, <1>3 DEF PendingInOrder
    <3>. QED  BY <1>1, <1>2, <1>3, <3>1 DEF PendingInOrder
  <2>5. ASSUME NEW i \in 1..Len(writes'), writes'[i].next = 1, writes'[i].n > Len(delivered) + 1
        PROVE  \/ InUnread(Part(writes'[i].n - 1, 1))
               \/ \E h \in 1..(i - 1) : writes'[h] = Write(writes'[i].n - 1, 1)
    <3>1. i \in 1..Len(writes) /\ writes'[i] = writes[i]
      BY <1>2, <2>2, <2>5
    <3>2. \A h \in 1..(i - 1) : writes'[h] = writes[h]
      BY <1>2, <3>1
    <3>. QED  BY <1>3, <2>5, <3>1, <3>2 DEF PendingInOrder
  <2>. QED  BY <1>1, <1>5, <2>1, <2>3, <2>4, <2>5 DEF PendingInOrder
<1>. QED  BY <1>6, <1>7, <1>8 DEF InOrder

(* What is lost is the end of Unread, and nothing is pending afterwards. *)
LEMMA LoseStep ==
  ASSUME TypeOK, InOrder, Lose
  PROVE  InOrder' /\ Pending' = {}
<1>1. PICK k \in 0..Len(wire) : wire' = SubSeq(wire, 1, k)
  BY DEF Lose
<1>2. /\ Len(Unread) \in Nat /\ Len(Unread') \in Nat /\ Len(Unread') <= Len(Unread)
      /\ \A j \in 1..Len(Unread') : Unread'[j] = Unread[j]
  <2>1. \A b, w \in Seq(ValidParts) : \A i \in 0..Len(w) :
          /\ Len(b \o w) \in Nat /\ Len(b \o SubSeq(w, 1, i)) = Len(b) + i
          /\ Len(b \o SubSeq(w, 1, i)) <= Len(b \o w)
          /\ \A j \in 1..(Len(b) + i) : (b \o SubSeq(w, 1, i))[j] = (b \o w)[j]
    OBVIOUS
  <2>2. m_receivedBuffer \in Seq(ValidParts) /\ wire \in Seq(ValidParts) /\ m_receivedBuffer' = m_receivedBuffer
    BY DEF Lose, TypeOK, clientVars
  <2>. QED  BY <1>1, <2>1, <2>2 DEF Unread
<1>3. Pending' = {}
  <2>1. writes' = << >> /\ resuming' = {} /\ Len(writes') = 0
    BY DEF Lose
  <2>. QED  BY <2>1 DEF Pending
<1>4. UNCHANGED <<sends, delivered, overlapped>> /\ ~open' /\ writes' = << >> /\ Len(writes') = 0 /\ resuming' = {}
  BY DEF Lose, clientVars
<1>5. UnreadInOrder'
  <2>1. ASSUME NEW j \in 1..Len(Unread')
        PROVE  LET p == Unread[j] IN
               /\ p.n \in (Len(delivered) + 1)..sends
               /\ \A h \in 1..Len(Unread') : Unread[h] = p => h = j
               /\ p.i > 1 => \E h \in 1..(j - 1) : Unread'[h] = Part(p.n, p.i - 1)
               /\ p.i = 1 /\ p.n > Len(delivered) + 1 => \E h \in 1..(j - 1) : Unread'[h] = Part(p.n - 1, 1)
    <3>1. j \in 1..Len(Unread) /\ \A h \in 1..(j - 1) : Unread'[h] = Unread[h]
      BY <1>2
    <3>2. \A h \in 1..Len(Unread') : h \in 1..Len(Unread)
      BY <1>2
    <3>. QED  BY <3>1, <3>2 DEF InOrder, UnreadInOrder
  <2>2. \A j, h \in 1..Len(Unread') : Unread'[j] = Unread'[h] => j = h
    BY <1>2, <2>1
  <2>3. ASSUME NEW j \in 1..Len(Unread')
        PROVE  LET p == Unread'[j] IN
               /\ p.n \in (Len(delivered') + 1)..sends'
               /\ p.i > 1 => \E h \in 1..(j - 1) : Unread'[h] = Part(p.n, p.i - 1)
               /\ p.i = 1 /\ p.n > Len(delivered') + 1 => \E h \in 1..(j - 1) : Unread'[h] = Part(p.n - 1, 1)
    BY <1>2, <1>4, <2>1
  <2>. QED  BY <2>2, <2>3 DEF UnreadInOrder
<1>6. overlapped' \/ Blocks'
  <2>. SUFFICES ASSUME Blocks  PROVE Blocks'
    BY <1>4 DEF InOrder
  <2>. SUFFICES ASSUME NEW j \in 1..Len(Unread')
                PROVE  LET p == Unread[j] IN
                       /\ p.i <= j
                       /\ \A h \in 1..Size[p.n] : j - p.i + h <= Len(Unread') => Unread'[j - p.i + h] = Part(p.n, h)
    BY <1>2 DEF Blocks
  <2>1. /\ j \in 1..Len(Unread) /\ Unread[j].i <= j
        /\ Unread[j].i \in Nat /\ Size[Unread[j].n] \in Nat
    <3>1. j \in 1..Len(Unread)
      BY <1>2
    <3>. QED  BY <3>1, UnreadFacts, PartFacts, SizeFacts DEF Blocks
  <2>2. ASSUME NEW h \in 1..Size[Unread[j].n], j - Unread[j].i + h <= Len(Unread')
        PROVE  Unread'[j - Unread[j].i + h] = Part(Unread[j].n, h)
    <3>1. j - Unread[j].i + h \in 1..Len(Unread') /\ j - Unread[j].i + h <= Len(Unread)
      BY <1>2, <2>1, <2>2
    <3>. QED  BY <1>2, <2>1, <3>1 DEF Blocks
  <2>. QED  BY <2>1, <2>2
<1>7. PendingInOrder' /\ NothingForgotten'
  BY <1>3, <1>4 DEF PendingInOrder, NothingForgotten
<1>. QED  BY <1>3, <1>5, <1>6, <1>7 DEF InOrder
(* The message at the front of the buffer is the next one to deliver, and  *)
(* all its parts go: what is left are the other messages, as they were.    *)
LEMMA ProcessOneFacts ==
  ASSUME TypeOK, InOrder, DeliveredInOrder, ProcessOne
  PROVE  LET n == Len(delivered) + 1 IN
         /\ n \in 1..sends /\ n \in 1..MaxSends /\ Front(m_receivedBuffer) = n
         /\ Len(delivered) \in Nat /\ sends \in Nat /\ Len(Unread) \in Nat
         /\ Size[n] \in 1..Len(Unread) /\ Len(Unread') = Len(Unread) - Size[n]
         /\ \A j \in 1..Size[n] : Unread[j] = Part(n, j)
         /\ \A j \in 1..Len(Unread') : Unread'[j] = Unread[Size[n] + j]
<1>. DEFINE b == m_receivedBuffer
<1>0. UnreadInOrder /\ Len(delivered) \in Nat /\ sends \in 0..MaxSends /\ MaxSends \in Nat
  BY SizeFacts DEF InOrder, TypeOK
<1>1. b \in Seq(ValidParts) /\ wire \in Seq(ValidParts) /\ b # << >> /\ Len(b) >= Size[Front(b)] /\ InStep(b)
  BY DEF ProcessOne, WholeMessage, TypeOK
<1>2. /\ 1 \in 1..Len(b) /\ b[1] \in ValidParts /\ Front(b) = b[1].n
      /\ Front(b) \in 1..MaxSends /\ Size[Front(b)] \in Nat \ {0}
  <2>1. 1 \in 1..Len(b) /\ b[1] \in ValidParts
    BY <1>1
  <2>. QED  BY <2>1, PartFacts, SizeFacts DEF Front
<1>3. \A j \in 1..Size[Front(b)] : b[j] = Part(Front(b), j)
  BY <1>1, <1>2 DEF InStep
<1>4. /\ Len(Unread) = Len(b) + Len(wire) /\ Len(wire) \in Nat /\ Len(b) \in Nat
      /\ \A j \in 1..Len(b) : Unread[j] = b[j]
  BY <1>1, UnreadFacts
<1>5. Front(b) = Len(delivered) + 1
  <2>1. Unread[1] = Part(Front(b), 1) /\ 1 \in 1..Len(Unread)
    <3>1. 1 \in 1..Size[Front(b)]
      BY <1>2
    <3>. QED  BY <1>2, <1>3, <1>4, <3>1
  <2>2. Unread[1].n = Front(b) /\ Unread[1].i = 1
    BY <2>1 DEF Part
  <2>3. /\ Front(b) \in (Len(delivered) + 1)..sends
        /\ Front(b) > Len(delivered) + 1 => \E k \in 1..(1 - 1) : Unread[k] = Part(Front(b) - 1, 1)
    BY <1>0, <2>1, <2>2 DEF UnreadInOrder
  <2>. QED  BY <1>0, <1>2, <2>3
<1>6. Front(b) \in 1..sends
  <2>1. Unread[1].n = Front(b) /\ 1 \in 1..Len(Unread)
    BY <1>2, <1>4
  <2>2. Front(b) \in (Len(delivered) + 1)..sends
    BY <1>0, <2>1 DEF UnreadInOrder
  <2>. QED  BY <1>0, <2>2
<1>7. /\ Len(Unread') = Len(Unread) - Size[Front(b)]
      /\ \A j \in 1..Len(Unread') : Unread'[j] = Unread[Size[Front(b)] + j]
  <2>1. \A s, w \in Seq(ValidParts) : \A k \in 1..Len(s) :
          /\ Len(SubSeq(s, k + 1, Len(s)) \o w) = Len(s \o w) - k
          /\ \A j \in 1..(Len(s \o w) - k) : (SubSeq(s, k + 1, Len(s)) \o w)[j] = (s \o w)[k + j]
    <3>. SUFFICES ASSUME NEW s \in Seq(ValidParts), NEW w \in Seq(ValidParts), NEW k \in 1..Len(s)
                  PROVE  /\ Len(SubSeq(s, k + 1, Len(s)) \o w) = Len(s \o w) - k
                         /\ \A j \in 1..(Len(s \o w) - k) : (SubSeq(s, k + 1, Len(s)) \o w)[j] = (s \o w)[k + j]
      OBVIOUS
    <3>1. PICK t : t = SubSeq(s, k + 1, Len(s))
      OBVIOUS
    <3>2. t \in Seq(ValidParts) /\ Len(t) = Len(s) - k /\ \A j \in 1..Len(t) : t[j] = s[k + j]
      BY <3>1
    <3>3. Len(t \o w) = Len(s \o w) - k /\ \A j \in 1..(Len(s \o w) - k) : (t \o w)[j] = (s \o w)[k + j]
      <4>1. \A u, v \in Seq(ValidParts) :
              /\ Len(u) \in Nat /\ Len(v) \in Nat /\ Len(u \o v) = Len(u) + Len(v)
              /\ \A j \in 1..(Len(u) + Len(v)) : (u \o v)[j] = IF j <= Len(u) THEN u[j] ELSE v[j - Len(u)]
        OBVIOUS
      <4>2. /\ Len(t) \in Nat /\ Len(w) \in Nat /\ Len(t \o w) = Len(t) + Len(w)
            /\ \A j \in 1..(Len(t) + Len(w)) : (t \o w)[j] = IF j <= Len(t) THEN t[j] ELSE w[j - Len(t)]
        BY <3>2, <4>1, Zenon
      <4>3. /\ Len(s) \in Nat /\ Len(s \o w) = Len(s) + Len(w)
            /\ \A j \in 1..(Len(s) + Len(w)) : (s \o w)[j] = IF j <= Len(s) THEN s[j] ELSE w[j - Len(s)]
        BY <4>1, Zenon
      <4>4. PICK lt, ls, lw \in Nat : lt = Len(t) /\ ls = Len(s) /\ lw = Len(w) /\ lt = ls - k /\ k \in 1..ls
        BY <3>2, <4>2, <4>3
      <4>5. Len(t \o w) = Len(s \o w) - k
        BY <4>2, <4>3, <4>4
      <4>6. ASSUME NEW j \in 1..(Len(s \o w) - k)  PROVE (t \o w)[j] = (s \o w)[k + j]
        <5>1. /\ j \in 1..(lt + lw) /\ k + j \in 1..(ls + lw)
              /\ (j <= lt <=> k + j <= ls) /\ j - lt = (k + j) - ls
          BY <4>3, <4>4
        <5>2. (t \o w)[j] = IF j <= lt THEN t[j] ELSE w[j - lt]
          BY <4>2, <4>4, <5>1
        <5>3. (s \o w)[k + j] = IF k + j <= ls THEN s[k + j] ELSE w[(k + j) - ls]
          BY <4>3, <4>4, <5>1
        <5>4. j <= lt => t[j] = s[k + j]
          BY <3>2, <4>4, <5>1
        <5>5. CASE j <= lt
          BY <5>1, <5>2, <5>3, <5>4, <5>5
        <5>6. CASE ~(j <= lt)
          <6>1. (t \o w)[j] = w[j - lt] /\ (s \o w)[k + j] = w[(k + j) - ls]
            BY <5>1, <5>2, <5>3, <5>6
          <6>. QED  BY <5>1, <6>1
        <5>. QED  BY <5>5, <5>6
      <4>. QED  BY <4>5, <4>6
    <3>. QED  BY <3>1, <3>3
  <2>2. Size[Front(b)] \in 1..Len(b)
    BY <1>1, <1>2, <1>4
  <2>3. wire' = wire /\ m_receivedBuffer' = SubSeq(b, Size[Front(b)] + 1, Len(b))
    BY DEF ProcessOne
  <2>4. Unread' = SubSeq(b, Size[Front(b)] + 1, Len(b)) \o wire /\ Unread = b \o wire
    BY <2>3 DEF Unread
  <2>. QED  BY <1>1, <2>1, <2>2, <2>4
<1>8. Size[Front(b)] \in 1..Len(Unread) /\ \A j \in 1..Size[Front(b)] : Unread[j] = Part(Front(b), j)
  BY <1>1, <1>2, <1>3, <1>4
<1>. QED  BY <1>0, <1>2, <1>4, <1>5, <1>6, <1>7, <1>8

LEMMA ProcessOneStep ==
  ASSUME TypeOK, InOrder, DeliveredInOrder, ProcessOne
  PROVE  InOrder' /\ DeliveredInOrder'
<1>0. UnreadInOrder /\ PendingInOrder /\ NothingForgotten /\ (overlapped \/ Blocks)
  BY DEF InOrder
<1>1. PICK D, n, S : D = Len(delivered) /\ n = D + 1 /\ S = Size[n]
  OBVIOUS
<1>2. /\ n \in 1..sends /\ n \in 1..MaxSends /\ D \in Nat /\ sends \in Nat /\ Len(Unread) \in Nat
      /\ S \in 1..Len(Unread) /\ Len(Unread') = Len(Unread) - S
      /\ \A j \in 1..S : Unread[j] = Part(n, j)
      /\ \A j \in 1..Len(Unread') : Unread'[j] = Unread[S + j]
  BY <1>1, ProcessOneFacts
<1>3. /\ delivered' = Append(delivered, n) /\ Len(delivered') = D + 1
      /\ UNCHANGED <<writes, resuming, sends, open, overlapped>> /\ Pending' = Pending
  BY <1>1, ProcessOneFacts DEF ProcessOne, TypeOK, serverVars, Pending
<1>4. \A j \in 1..Len(Unread) :
        /\ Unread[j] = Part(Unread[j].n, Unread[j].i) /\ Unread[j].n \in 1..MaxSends
        /\ Unread[j].i \in 1..Size[Unread[j].n] /\ Size[Unread[j].n] \in Nat
  BY UnreadFacts, PartFacts, SizeFacts
<1>5. \A j \in 1..Len(Unread) : Unread[j].n = n <=> j <= S
  <2>1. ASSUME NEW j \in 1..Len(Unread), j <= S  PROVE Unread[j].n = n
    <3>1. Unread[j] = Part(n, j)
      BY <1>2, <2>1
    <3>. QED  BY <3>1 DEF Part
  <2>2. ASSUME NEW j \in 1..Len(Unread), Unread[j].n = n  PROVE j <= S
    <3>1. PICK i \in 1..S : Unread[j] = Part(n, i)
      BY <1>1, <1>4, <2>2
    <3>2. Unread[i] = Unread[j] /\ i \in 1..Len(Unread)
      BY <1>2, <3>1
    <3>. QED  BY <1>0, <1>2, <3>2 DEF UnreadInOrder
  <2>. QED  BY <2>1, <2>2
<1>6. /\ \A j \in 1..Len(Unread') : S + j \in 1..Len(Unread) /\ Unread'[j] = Unread[S + j] /\ Unread'[j].n # n
      /\ \A j \in 1..Len(Unread) : j > S => j - S \in 1..Len(Unread') /\ Unread'[j - S] = Unread[j]
  <2>1. \A j \in 1..Len(Unread') : S + j \in 1..Len(Unread) /\ ~(S + j <= S)
    BY <1>2
  <2>2. \A j \in 1..Len(Unread) : j > S => j - S \in 1..Len(Unread') /\ S + (j - S) = j
    BY <1>2
  <2>. QED  BY <1>2, <1>5, <2>1, <2>2
<1>7. /\ \A p : InUnread(p)' => InUnread(p)
      /\ \A p : InUnread(p) /\ p.n # n => InUnread(p)'
      /\ InUnread(Part(n, S))
  <2>1. \A p : InUnread(p)' => InUnread(p)
    BY <1>6 DEF InUnread
  <2>2. ASSUME NEW p, InUnread(p), p.n # n  PROVE InUnread(p)'
    <3>1. PICK j \in 1..Len(Unread) : Unread[j] = p
      BY <2>2 DEF InUnread
    <3>2. j > S
      BY <1>2, <1>5, <2>2, <3>1
    <3>. QED  BY <1>6, <3>1, <3>2 DEF InUnread
  <2>3. InUnread(Part(n, S))
    BY <1>2 DEF InUnread
  <2>. QED  BY <2>1, <2>2, <2>3
<1>8. UnreadInOrder'
  <2>1. \A j, h \in 1..Len(Unread') : Unread'[j] = Unread'[h] => j = h
    <3>. SUFFICES ASSUME NEW j \in 1..Len(Unread'), NEW h \in 1..Len(Unread'), Unread'[j] = Unread'[h]
                  PROVE  j = h
      OBVIOUS
    <3>1. Unread[S + j] = Unread[S + h] /\ S + j \in 1..Len(Unread) /\ S + h \in 1..Len(Unread)
      BY <1>6
    <3>2. S + j = S + h
      BY <1>0, <3>1 DEF UnreadInOrder
    <3>. QED  BY <1>2, <3>2
  <2>2. ASSUME NEW j \in 1..Len(Unread'), NEW N, NEW i, N = Unread'[j].n, i = Unread'[j].i
        PROVE  /\ N \in (D + 2)..sends
               /\ i > 1 => \E h \in 1..(j - 1) : Unread'[h] = Part(N, i - 1)
               /\ i = 1 /\ N > D + 2 => \E h \in 1..(j - 1) : Unread'[h] = Part(N - 1, 1)
    <3>1. S + j \in 1..Len(Unread) /\ N = Unread[S + j].n /\ i = Unread[S + j].i /\ N # n
      BY <1>6, <2>2
    <3>2. /\ N \in (D + 1)..sends
          /\ i > 1 => \E h \in 1..(S + j - 1) : Unread[h] = Part(N, i - 1)
          /\ i = 1 /\ N > D + 1 => \E h \in 1..(S + j - 1) : Unread[h] = Part(N - 1, 1)
      <4>1. PICK q, j1 : j1 = S + j /\ q = Unread[j1] /\ N = q.n /\ i = q.i /\ j1 \in 1..Len(Unread)
        BY <3>1
      <4>3. N \in Int /\ i \in Int /\ D \in Int /\ j1 - 1 = S + j - 1
        BY <1>2, <1>4, <4>1
      <4>2. /\ q.n \in (D + 1)..sends
            /\ q.i > 1 => \E h \in 1..(j1 - 1) : Unread[h] = Part(q.n, q.i - 1)
            /\ q.i = 1 /\ q.n > D + 1 => \E h \in 1..(j1 - 1) : Unread[h] = Part(q.n - 1, 1)
        BY <1>0, <1>1, <4>1 DEF UnreadInOrder
      <4>. QED  BY <4>1, <4>2, <4>3
    <3>3. N \in (D + 2)..sends
      <4>1. N \in (D + 1)..sends /\ N # D + 1
        BY <1>1, <3>1, <3>2
      <4>. QED  BY <1>2, <4>1
    <3>4. ASSUME NEW h \in 1..(S + j - 1), NEW m, NEW g, m # n, Unread[h] = Part(m, g)
          PROVE  \E f \in 1..(j - 1) : Unread'[f] = Part(m, g)
      <4>1. h \in 1..Len(Unread) /\ Unread[h].n = m
        BY <1>2, <1>6, <3>1, <3>4 DEF Part
      <4>2. h > S
        BY <1>2, <1>5, <3>4, <4>1
      <4>3. h - S \in 1..(j - 1) /\ Unread'[h - S] = Unread[h]
        BY <1>2, <1>6, <4>1, <4>2
      <4>. QED  BY <3>4, <4>3
    <3>5. N > D + 2 => N - 1 # n
      BY <1>1, <1>2, <3>3
    <3>6. i > 1 => \E h \in 1..(j - 1) : Unread'[h] = Part(N, i - 1)
      BY <3>1, <3>2, <3>4
    <3>7. i = 1 /\ N > D + 2 => \E h \in 1..(j - 1) : Unread'[h] = Part(N - 1, 1)
      BY <1>2, <3>2, <3>3, <3>4, <3>5
    <3>. QED  BY <3>3, <3>6, <3>7
  <2>3. ASSUME NEW j \in 1..Len(Unread')
        PROVE  LET p == Unread'[j] IN
               /\ p.n \in (Len(delivered') + 1)..sends'
               /\ p.i > 1 => \E h \in 1..(j - 1) : Unread'[h] = Part(p.n, p.i - 1)
               /\ p.i = 1 /\ p.n > Len(delivered') + 1 => \E h \in 1..(j - 1) : Unread'[h] = Part(p.n - 1, 1)
    <3>1. Len(delivered') + 1 = D + 2 /\ sends' = sends
      BY <1>2, <1>3
    <3>2. PICK N, i : N = Unread'[j].n /\ i = Unread'[j].i
      OBVIOUS
    <3>3. /\ N \in (D + 2)..sends
          /\ i > 1 => \E h \in 1..(j - 1) : Unread'[h] = Part(N, i - 1)
          /\ i = 1 /\ N > D + 2 => \E h \in 1..(j - 1) : Unread'[h] = Part(N - 1, 1)
      BY <2>2, <3>2
    <3>. QED  BY <3>1, <3>2, <3>3
  <2>. QED  BY <2>1, <2>3 DEF UnreadInOrder
<1>9. PendingInOrder'
  <2>1. ASSUME NEW q \in Pending
        PROVE  /\ q.n \in (D + 2)..sends
               /\ q.next > 1 => InUnread(Part(q.n, q.next - 1))'
               /\ \A i \in q.next..Size[q.n] : ~InUnread(Part(q.n, i))'
    <3>1. /\ q.n \in (D + 1)..sends
          /\ q.next > 1 => InUnread(Part(q.n, q.next - 1))
          /\ \A i \in q.next..Size[q.n] : ~InUnread(Part(q.n, i))
      BY <1>0, <1>1 DEF PendingInOrder
    <3>2. q.next \in 1..Size[q.n] /\ Size[q.n] \in Nat
      BY PendingFacts, WriteFacts, SizeFacts
    <3>3. q.n # n
      <4>. SUFFICES ASSUME q.n = n  PROVE FALSE
        OBVIOUS
      <4>1. S \in q.next..Size[q.n]
        BY <1>1, <3>2
      <4>. QED  BY <1>7, <3>1, <4>1
    <3>4. Part(q.n, q.next - 1).n = q.n
      BY DEF Part
    <3>5. q.n \in (D + 2)..sends
      BY <1>1, <1>2, <3>1, <3>3
    <3>. QED  BY <1>7, <3>1, <3>3, <3>4, <3>5
  <2>2. ASSUME NEW i \in 1..Len(writes), writes[i].next = 1, writes[i].n > D + 2
        PROVE  \/ \E p : p = Part(writes[i].n - 1, 1) /\ InUnread(p)'
               \/ \E h \in 1..(i - 1) : writes[h] = Write(writes[i].n - 1, 1)
    <3>1. writes[i].n \in Nat /\ writes[i].n > D + 1 /\ writes[i].n - 1 # n
      <4>1. writes[i].n \in 1..MaxSends
        BY PendingFacts, WriteFacts
      <4>. QED  BY <1>1, <1>2, <2>2, <4>1, SizeFacts
    <3>2. \/ InUnread(Part(writes[i].n - 1, 1))
          \/ \E h \in 1..(i - 1) : writes[h] = Write(writes[i].n - 1, 1)
      BY <1>0, <1>1, <2>2, <3>1 DEF PendingInOrder
    <3>3. Part(writes[i].n - 1, 1).n = writes[i].n - 1
      BY DEF Part
    <3>. QED  BY <1>7, <3>1, <3>2, <3>3
  <2>3. \A i \in 1..Len(writes') : writes'[i].next = 1 /\ writes'[i].n > Len(delivered') + 1 =>
          \/ InUnread(Part(writes[i].n - 1, 1))'
          \/ \E h \in 1..(i - 1) : writes'[h] = Write(writes'[i].n - 1, 1)
    <3>1. writes' = writes /\ Len(delivered') + 1 = D + 2
      BY <1>2, <1>3
    <3>. QED  BY <2>2, <3>1
  <2>4. /\ Len(delivered') + 1 = D + 2
        /\ writes' = writes /\ resuming' = resuming /\ sends' = sends /\ Pending' = Pending
    BY <1>2, <1>3
  <2>5. \A q \in Pending' :
          /\ q.n \in (Len(delivered') + 1)..sends'
          /\ q.next > 1 => InUnread(Part(q.n, q.next - 1))'
          /\ \A i \in q.next..Size[q.n] : ~InUnread(Part(q.n, i))'
    BY <2>1, <2>4
  <2>. QED  BY <1>0, <2>3, <2>4, <2>5 DEF PendingInOrder
<1>10. NothingForgotten'
  <2>1. ASSUME open, NEW m \in (D + 2)..sends
        PROVE  InUnread(Part(m, 1))' \/ \E h \in 1..Len(writes) : writes[h] = Write(m, 1)
    <3>1. m \in (D + 1)..sends /\ m # n
      BY <1>1, <1>2
    <3>2. InUnread(Part(m, 1)) \/ \E h \in 1..Len(writes) : writes[h] = Write(m, 1)
      BY <1>0, <1>1, <2>1, <3>1 DEF NothingForgotten
    <3>3. Part(m, 1).n = m
      BY DEF Part
    <3>. QED  BY <1>7, <3>1, <3>2, <3>3
  <2>2. ASSUME open, NEW j \in 1..Len(Unread')
        PROVE  \/ \E p : p = Part(Unread'[j].n, Size[Unread'[j].n]) /\ InUnread(p)'
               \/ \E q \in Pending : q.n = Unread'[j].n /\ q.next > 1
    <3>1. PICK g \in 1..Len(Unread) : Unread'[j] = Unread[g] /\ Unread[g].n # n
      BY <1>6
    <3>2. \/ InUnread(Part(Unread[g].n, Size[Unread[g].n]))
          \/ \E q \in Pending : q.n = Unread[g].n /\ q.next > 1
      BY <1>0, <2>2 DEF NothingForgotten
    <3>3. Part(Unread[g].n, Size[Unread[g].n]).n = Unread[g].n
      BY DEF Part
    <3>. QED  BY <1>7, <3>1, <3>2, <3>3
  <2>3. /\ Len(delivered') + 1 = D + 2
        /\ writes' = writes /\ sends' = sends /\ Pending' = Pending /\ open' = open
    BY <1>2, <1>3
  <2>4. open => \A j \in 1..Len(Unread') :
          \/ InUnread(Part(Unread[j].n, Size[Unread[j].n]))'
          \/ \E q \in Pending : q.n = Unread'[j].n /\ q.next > 1
    BY <2>2
  <2>. QED  BY <2>1, <2>3, <2>4 DEF NothingForgotten
<1>11. overlapped' \/ Blocks'
  <2>. SUFFICES ASSUME Blocks  PROVE Blocks'
    BY <1>0, <1>3
  <2>1. ASSUME NEW j \in 1..Len(Unread'), NEW N, NEW i, N = Unread'[j].n, i = Unread'[j].i
        PROVE  /\ i <= j
               /\ \A h \in 1..Size[N] : j - i + h <= Len(Unread') => Unread'[j - i + h] = Part(N, h)
    <3>1. PICK g \in 1..Len(Unread) : g = S + j /\ Unread[g].n = N /\ Unread[g].i = i /\ N # n
      BY <1>6, <2>1
    <3>2. /\ i <= g
          /\ \A h \in 1..Size[N] : g - i + h <= Len(Unread) => Unread[g - i + h] = Part(N, h)
      BY <3>1 DEF Blocks
    <3>3. /\ i \in 1..Size[N] /\ Size[N] \in Nat /\ j \in Nat /\ S \in Nat /\ g = S + j /\ i <= g
          /\ Len(Unread) \in Nat /\ Len(Unread') = Len(Unread) - S /\ g <= Len(Unread)
      <4>1. i <= g /\ g <= Len(Unread)
        BY <1>2, <3>1, <3>2
      <4>. QED  BY <1>2, <1>4, <3>1, <4>1
    <3>4. i <= j
      <4>1. g - i + 1 \in 1..Len(Unread) /\ 1 \in 1..Size[N]
        BY <3>3
      <4>2. Unread[g - i + 1] = Part(N, 1)
        BY <3>2, <4>1
      <4>3. ~(g - i + 1 <= S)
        BY <1>5, <3>1, <4>1, <4>2 DEF Part
      <4>. QED  BY <3>1, <3>3, <4>3
    <3>5. ASSUME NEW h \in 1..Size[N], j - i + h <= Len(Unread')  PROVE Unread'[j - i + h] = Part(N, h)
      <4>1. /\ j - i + h \in 1..Len(Unread') /\ S + (j - i + h) = g - i + h
            /\ g - i + h <= Len(Unread)
        BY <3>3, <3>4, <3>5
      <4>. QED  BY <1>6, <3>2, <4>1
    <3>. QED  BY <3>4, <3>5
  <2>2. ASSUME NEW j \in 1..Len(Unread')
        PROVE  /\ Unread'[j].i <= j
               /\ \A h \in 1..Size[Unread'[j].n] :
                    j - Unread'[j].i + h <= Len(Unread') =>
                      Unread'[j - Unread'[j].i + h] = Part(Unread'[j].n, h)
    <3>1. PICK N, i : N = Unread'[j].n /\ i = Unread'[j].i
      OBVIOUS
    <3>2. /\ i <= j
          /\ \A h \in 1..Size[N] : j - i + h <= Len(Unread') => Unread'[j - i + h] = Part(N, h)
      BY <2>1, <3>1
    <3>. QED  BY <3>1, <3>2
  <2>. QED  BY <2>2 DEF Blocks
<1>12. DeliveredInOrder'
  <2>1. /\ Len(delivered') <= sends' /\ Len(delivered') = D + 1
        /\ \A i \in 1..(D + 1) : delivered'[i] = IF i = D + 1 THEN n ELSE delivered[i]
    <3>1. delivered \in Seq(1..MaxSends)
      BY DEF TypeOK
    <3>2. \A i \in 1..(D + 1) : delivered'[i] = IF i = D + 1 THEN n ELSE delivered[i]
      BY <1>1, <1>3, <3>1
    <3>. QED  BY <1>1, <1>2, <1>3, <3>2
  <2>2. \A i \in 1..D : delivered[i] = i
    BY <1>1 DEF DeliveredInOrder
  <2>3. \A i \in 1..(D + 1) : delivered'[i] = i
    BY <1>1, <1>2, <2>1, <2>2
  <2>. QED  BY <2>1, <2>3 DEF DeliveredInOrder
<1>. QED  BY <1>8, <1>9, <1>10, <1>11, <1>12 DEF InOrder
(* The client takes parts of several messages for one only if parts of     *)
(* some message are not next to each other.                                *)
LEMMA MisreadStep ==
  ASSUME TypeOK, InOrder, processing, ~InStep(m_receivedBuffer)
  PROVE  overlapped
<1>1. SUFFICES ASSUME Blocks  PROVE InStep(m_receivedBuffer)
  BY DEF InOrder
<1>2. SUFFICES ASSUME NEW j \in 1..Len(m_receivedBuffer), j <= Size[Front(m_receivedBuffer)]
               PROVE  m_receivedBuffer[j] = Part(Front(m_receivedBuffer), j)
  BY DEF InStep
<1>3. /\ Len(m_receivedBuffer) \in Nat /\ Len(wire) \in Nat
      /\ Len(Unread) = Len(m_receivedBuffer) + Len(wire)
      /\ \A h \in 1..Len(m_receivedBuffer) : Unread[h] = m_receivedBuffer[h]
  BY UnreadFacts DEF TypeOK
<1>4. /\ 1 \in 1..Len(Unread) /\ Unread[1].n = Front(m_receivedBuffer)
      /\ j <= Len(Unread) /\ 1 \in 1..Len(m_receivedBuffer)
  BY <1>3 DEF Front
<1>5. /\ Unread[1].i <= 1 /\ Unread[1].i \in 1..Size[Unread[1].n] /\ Size[Unread[1].n] \in Nat
      /\ \A h \in 1..Size[Unread[1].n] : 1 - Unread[1].i + h <= Len(Unread) =>
           Unread[1 - Unread[1].i + h] = Part(Unread[1].n, h)
  BY <1>1, <1>4, UnreadFacts, PartFacts, SizeFacts DEF Blocks
<1>6. Unread[1].i = 1 /\ 1 - Unread[1].i + j = j /\ j \in 1..Size[Unread[1].n]
  BY <1>2, <1>4, <1>5
<1>7. Unread[j] = Part(Front(m_receivedBuffer), j)
  BY <1>4, <1>5, <1>6
<1>. QED  BY <1>3, <1>7

(* Only processBuffer's loop leaves the buffer to wait, and it leaves it    *)
(* when there is no whole message at its front.                            *)
LEMMA LeftShortStep == TypeOK /\ LeftShort /\ [Next]_vars => LeftShort'
<1>. SUFFICES ASSUME TypeOK, LeftShort, [Next]_vars  PROVE LeftShort'
  OBVIOUS
<1>1. CASE UNCHANGED <<processing, m_receivedBuffer>>
  BY <1>1 DEF LeftShort, InStep, Front
<1>2. CASE processing'
  BY <1>2 DEF LeftShort
<1>3. CASE ProcessShort
  <2>1. CASE m_receivedBuffer = << >>
    BY <1>3, <2>1 DEF ProcessShort, LeftShort
  <2>2. CASE m_receivedBuffer # << >>
    <3>1. m_receivedBuffer \in Seq(ValidParts) /\ Len(m_receivedBuffer) \in 1..Len(m_receivedBuffer)
      BY <2>2 DEF TypeOK
    <3>2. 1 \in 1..Len(m_receivedBuffer) /\ m_receivedBuffer[1] \in ValidParts
      BY <3>1
    <3>3. Size[Front(m_receivedBuffer)] \in Nat
      BY <3>2, PartFacts, SizeFacts DEF Front
    <3>4. InStep(m_receivedBuffer) /\ ~(Len(m_receivedBuffer) >= Size[Front(m_receivedBuffer)])
      BY <1>3, <2>2 DEF ProcessShort, WholeMessage
    <3>5. Len(m_receivedBuffer) < Size[Front(m_receivedBuffer)]
      BY <3>1, <3>3, <3>4
    <3>. QED  BY <1>3, <3>4, <3>5 DEF ProcessShort, LeftShort, InStep, Front
  <2>. QED  BY <2>1, <2>2
<1>4. CASE Misread
  BY <1>4 DEF Misread, LeftShort
<1>5. CASE SendMessage \/ Transmission \/ Resumption \/ Lose \/ Idle \/ UNCHANGED vars
  BY <1>1, <1>5 DEF SendMessage, Transmission, Transmit, Resumption, Resume, Lose, Idle, vars, clientVars
<1>6. CASE Arrival \/ ProcessOne
  BY <1>2, <1>6 DEF Arrival, OnReadyRead, ProcessOne
<1>. QED  BY <1>3, <1>4, <1>5, <1>6 DEF Next, ProcessBuffer

(* One step per action. *)
LEMMA StreamStep == StreamInv /\ [Next]_vars => StreamInv'
<1>. SUFFICES ASSUME StreamInv, [Next]_vars  PROVE StreamInv'
  OBVIOUS
<1>1. /\ TypeOK /\ TypeOK' /\ DeliveredInOrder /\ MisreadOnlyAfterOverlap
      /\ (~open => Pending = {}) /\ LeftShort /\ LeftShort' /\ (~misread => InOrder)
  BY StreamTypes, LeftShortStep DEF StreamInv, InOrder
<1>2. SUFFICES /\ DeliveredInOrder' /\ MisreadOnlyAfterOverlap'
               /\ (~open' => Pending' = {}) /\ (~misread' => InOrder')
  BY <1>1 DEF StreamInv, InOrder
<1>3. CASE SendMessage
  <2>1. /\ open' /\ UNCHANGED <<delivered, misread, overlapped>> /\ sends' = sends + 1
        /\ sends \in Nat /\ Len(delivered) \in Nat
    BY <1>1, <1>3, SizeFacts DEF SendMessage, clientVars, TypeOK
  <2>2. DeliveredInOrder' /\ MisreadOnlyAfterOverlap'
    BY <1>1, <2>1 DEF DeliveredInOrder, MisreadOnlyAfterOverlap
  <2>. QED  BY <1>1, <1>3, <2>1, <2>2, SendStep
<1>4. CASE Transmission
  <2>1. PICK k \in 1..Left(Head(writes)) : open /\ writes # << >> /\ Transmit(k)
    BY <1>4 DEF Transmission
  <2>2. UNCHANGED <<open, sends, delivered, misread>> /\ (overlapped => overlapped')
    BY <2>1 DEF Transmit, clientVars
  <2>3. DeliveredInOrder' /\ MisreadOnlyAfterOverlap'
    BY <1>1, <2>2 DEF DeliveredInOrder, MisreadOnlyAfterOverlap
  <2>. QED  BY <1>1, <2>1, <2>2, <2>3, TransmitStep
<1>5. CASE Resumption
  <2>1. PICK o \in resuming : Resume(o)
    BY <1>5 DEF Resumption
  <2>2. UNCHANGED <<open, sends, delivered, misread, overlapped>> /\ open
    BY <1>1, <2>1, PendingFacts DEF Resume, clientVars
  <2>3. DeliveredInOrder' /\ MisreadOnlyAfterOverlap'
    BY <1>1, <2>2 DEF DeliveredInOrder, MisreadOnlyAfterOverlap
  <2>. QED  BY <1>1, <2>1, <2>2, <2>3, ResumeStep
<1>6. CASE Lose
  <2>1. UNCHANGED <<sends, delivered, misread, overlapped>>
    BY <1>6 DEF Lose, clientVars
  <2>2. DeliveredInOrder' /\ MisreadOnlyAfterOverlap'
    BY <1>1, <2>1 DEF DeliveredInOrder, MisreadOnlyAfterOverlap
  <2>3. Pending' = {}
    <3>1. writes' = << >> /\ Len(writes') = 0 /\ resuming' = {}
      BY <1>6 DEF Lose
    <3>. QED  BY <3>1 DEF Pending
  <2>. QED  BY <1>1, <1>6, <2>1, <2>2, <2>3, LoseStep
<1>7. CASE Arrival
  <2>1. PICK k \in 1..Len(wire) : OnReadyRead(k)
    BY <1>7 DEF Arrival
  <2>2. Unread' = Unread /\ UNCHANGED <<writes, resuming, sends, delivered, open, overlapped, misread>>
    BY <1>1, <2>1, OnReadyReadStep DEF OnReadyRead, serverVars
  <2>3. DeliveredInOrder' /\ MisreadOnlyAfterOverlap' /\ Pending' = Pending
    BY <1>1, <2>2 DEF DeliveredInOrder, MisreadOnlyAfterOverlap, Pending
  <2>. QED  BY <1>1, <2>2, <2>3, Undisturbed
<1>8. CASE ProcessOne
  <2>1. UNCHANGED <<writes, resuming, open, overlapped, misread>> /\ ~misread
    BY <1>8 DEF ProcessOne, serverVars
  <2>2. MisreadOnlyAfterOverlap' /\ Pending' = Pending
    BY <1>1, <2>1 DEF MisreadOnlyAfterOverlap, Pending
  <2>. QED  BY <1>1, <1>8, <2>1, <2>2, ProcessOneStep
<1>9. CASE ProcessShort \/ UNCHANGED vars
  <2>1. UNCHANGED <<writes, resuming, sends, delivered, open, overlapped, misread, m_receivedBuffer, wire>>
    BY <1>9 DEF ProcessShort, vars, serverVars, clientVars
  <2>2. /\ DeliveredInOrder' /\ MisreadOnlyAfterOverlap'
        /\ Pending' = Pending /\ Unread' = Unread
    BY <1>1, <2>1 DEF DeliveredInOrder, MisreadOnlyAfterOverlap, Pending, Unread
  <2>. QED  BY <1>1, <2>1, <2>2, Undisturbed
<1>10. CASE Misread
  <2>1. misread' /\ UNCHANGED <<writes, resuming, sends, delivered, open, overlapped>>
    BY <1>10 DEF Misread, serverVars
  <2>2. overlapped
    BY <1>1, <1>10, MisreadStep DEF Misread, MisreadOnlyAfterOverlap
  <2>3. DeliveredInOrder' /\ MisreadOnlyAfterOverlap' /\ Pending' = Pending
    BY <1>1, <2>1, <2>2 DEF DeliveredInOrder, MisreadOnlyAfterOverlap, Pending
  <2>. QED  BY <1>1, <2>1, <2>3
<1>. QED  BY <1>3, <1>4, <1>5, <1>6, <1>7, <1>8, <1>9, <1>10 DEF Next, ProcessBuffer, Idle

(* The invariant holds in every reachable state. *)
THEOREM StreamInvariance == Spec => []StreamInv
  BY StreamInit, StreamStep, PTL DEF Spec

(* A buffer that waits for more holds the beginning of one message, whose  *)
(* last part is in no buffer, no wire and, with nothing pending, no write. *)
LEMMA QuietMeansDelivered == StreamInv => NothingStuck
<1>. SUFFICES ASSUME StreamInv, open, ~misread, Pending = {}, wire = << >>, ~processing
              PROVE  m_receivedBuffer = << >> /\ Len(delivered) = sends
  BY DEF NothingStuck
<1>1. TypeOK /\ DeliveredInOrder /\ LeftShort /\ NothingForgotten
  BY DEF StreamInv
<1>. DEFINE b == m_receivedBuffer
            n == Front(b)
<1>2. b \in Seq(ValidParts) /\ Len(b) \in Nat /\ Len(wire) = 0
  BY <1>1 DEF TypeOK
<1>3. Len(Unread) = Len(b) /\ \A j \in 1..Len(b) : Unread[j] = b[j]
  BY <1>1, <1>2, UnreadFacts
<1>4. b = << >>
  <2>. SUFFICES ASSUME b # << >>  PROVE FALSE
    OBVIOUS
  <2>1. 1 \in 1..Len(b) /\ b[1] \in ValidParts
    BY <1>2
  <2>2. Size[n] \in Nat /\ InStep(b) /\ Len(b) < Size[n]
    BY <1>1, <2>1, PartFacts, SizeFacts DEF LeftShort, Front
  <2>3. InUnread(Part(n, Size[n]))
    BY <1>1, <1>3, <2>1 DEF NothingForgotten, Front
  <2>4. PICK j \in 1..Len(b) : b[j] = Part(n, Size[n])
    BY <1>3, <2>3 DEF InUnread
  <2>5. b[j] = Part(n, j)
    BY <1>2, <2>2, <2>4 DEF InStep
  <2>. QED  BY <1>2, <2>2, <2>4, <2>5 DEF Part
<1>5. Len(Unread) = 0 /\ Len(writes) = 0
  <2>1. \A i \in 1..Len(writes) : FALSE
    BY DEF Pending
  <2>2. Len(writes) \in Nat
    BY <1>1 DEF TypeOK
  <2>. QED  BY <1>2, <1>3, <1>4, <2>1, <2>2
<1>6. \A m \in (Len(delivered) + 1)..sends : FALSE
  BY <1>1, <1>5 DEF NothingForgotten, InUnread
<1>7. Len(delivered) \in Nat /\ sends \in Nat /\ Len(delivered) <= sends
  BY <1>1, SizeFacts DEF TypeOK, DeliveredInOrder
<1>. QED  BY <1>4, <1>6, <1>7

(* In order, each once, and nothing stuck on the way while the connection  *)
(* is there: what is neither read nor on the wire is in some write.        *)
THEOREM DeliveriesAreComplete == Spec => []DeliveredCompletely
<1>1. StreamInv => DeliveredCompletely
  BY QuietMeansDelivered DEF StreamInv, DeliveredCompletely
<1>. QED  BY <1>1, StreamInvariance, PTL

(* The client misreads only after one write has gone on inside another. *)
THEOREM MisreadsNeedOverlap == Spec => []MisreadOnlyAfterOverlap
<1>1. StreamInv => MisreadOnlyAfterOverlap
  BY DEF StreamInv
<1>. QED  BY <1>1, StreamInvariance, PTL

(* When every write is taken whole, no write is ever resumed. *)
WholeInv == WholeWrites => /\ resuming = {} /\ ~overlapped
                           /\ \A i \in 1..Len(writes) : writes[i].next = 1

LEMMA WholeStep == StreamInv /\ WholeInv /\ [Next]_vars => WholeInv'
<1>. SUFFICES ASSUME StreamInv, WholeInv, WholeWrites, [Next]_vars  PROVE WholeInv'
  BY DEF WholeInv
<1>1. TypeOK /\ writes \in Seq(ValidWrites)
  BY DEF StreamInv, TypeOK
<1>2. PartlyWritten = {} /\ resuming = {} /\ ~overlapped /\ \A i \in 1..Len(writes) : writes[i].next = 1
  BY DEF WholeInv, PartlyWritten
<1>3. CASE SendMessage
  <2>1. /\ Len(writes') = Len(writes) + 1 /\ writes'[Len(writes) + 1] = Write(sends + 1, 1)
        /\ \A i \in 1..Len(writes) : writes'[i] = writes[i]
    <3>1. writes' = Append(writes, Write(sends + 1, 1))
      BY <1>3 DEF SendMessage
    <3>. QED  BY <1>1, <3>1
  <2>2. Write(sends + 1, 1).next = 1 /\ UNCHANGED <<resuming, overlapped>>
    BY <1>3 DEF SendMessage, Write
  <2>. QED  BY <1>1, <1>2, <2>1, <2>2 DEF WholeInv
<1>4. CASE Transmission
  <2>1. PICK k \in 1..Left(Head(writes)) : writes # << >> /\ Transmit(k)
    BY <1>4 DEF Transmission
  <2>2. resuming' = resuming /\ ~overlapped' /\ writes' = Tail(writes)
    <3>1. k = Left(Head(writes)) /\ Head(writes) \in ValidWrites
      BY <1>1, <2>1 DEF Transmit
    <3>2. Left(Head(writes)) \in Int
      BY <3>1, WriteFacts, SizeFacts DEF Left
    <3>3. ~(k < Left(Head(writes)))
      BY <3>1, <3>2
    <3>4. overlapped' = (overlapped \/ \E n \in PartlyWritten : n # Head(writes).n)
      BY <2>1 DEF Transmit
    <3>. QED  BY <1>2, <2>1, <3>3, <3>4 DEF Transmit
  <2>3. \A i \in 1..Len(writes') : writes'[i] = writes[i + 1] /\ i + 1 \in 1..Len(writes)
    BY <1>1, <2>1, <2>2
  <2>. QED  BY <1>2, <2>2, <2>3 DEF WholeInv
<1>5. CASE Resumption
  BY <1>2, <1>5 DEF Resumption
<1>6. CASE Lose
  <2>1. writes' = << >> /\ Len(writes') = 0 /\ resuming' = {} /\ overlapped' = overlapped
    BY <1>6 DEF Lose
  <2>. QED  BY <1>2, <2>1 DEF WholeInv
<1>7. CASE Arrival \/ ProcessBuffer \/ UNCHANGED vars
  <2>1. UNCHANGED <<writes, resuming, overlapped>>
    BY <1>7 DEF Arrival, OnReadyRead, ProcessBuffer, ProcessOne, ProcessShort, Misread, vars, serverVars
  <2>. QED  BY <1>2, <2>1 DEF WholeInv
<1>. QED  BY <1>3, <1>4, <1>5, <1>6, <1>7 DEF Next, Idle

(* With room for whole messages in the send buffer the client never loses  *)
(* its place, however many async_writes are under way at once.             *)
THEOREM WholeWritesAreReadRight == Spec => [](WholeWrites => ~misread)
<1>1. Init => WholeInv
  <2>1. Init => Len(writes) = 0 /\ resuming = {} /\ overlapped = FALSE
    BY DEF Init
  <2>. QED  BY <2>1 DEF WholeInv
<1>2. StreamInv /\ WholeInv => (WholeWrites => ~misread)
  BY DEF StreamInv, WholeInv, MisreadOnlyAfterOverlap
<1>. QED  BY <1>1, <1>2, WholeStep, StreamInvariance, PTL DEF Spec

(* The connection promises what FifoChannel does: every step sends the     *)
(* next message, delivers the next one, loses the connection or is         *)
(* invisible.                                                              *)
THEOREM ChannelSafety == Spec => Channel!Safety
<1>1. Init => Channel!Init
  BY DEF Init, Channel!Init
<1>2. StreamInv /\ StreamInv' /\ [Next]_vars => [Channel!Next]_Channel!channelVars
  <2>. SUFFICES ASSUME StreamInv, StreamInv', [Next]_vars
                PROVE  Channel!Next \/ UNCHANGED <<sends, delivered, open>>
    BY DEF Channel!channelVars
  <2>1. CASE SendMessage
    BY <2>1 DEF SendMessage, clientVars, Channel!Next, Channel!Send
  <2>2. CASE Lose
    BY <2>2 DEF Lose, clientVars, Channel!Next, Channel!Lose
  <2>3. CASE ProcessOne
    <3>1. /\ TypeOK /\ InOrder /\ DeliveredInOrder
      BY <2>3 DEF ProcessOne, StreamInv, InOrder
    <3>2. Front(m_receivedBuffer) = Len(delivered) + 1 /\ Len(delivered) < sends
      BY <2>3, <3>1, ProcessOneFacts
    <3>3. delivered' = Append(delivered, Len(delivered) + 1) /\ UNCHANGED <<sends, open>>
      BY <2>3, <3>2 DEF ProcessOne, serverVars
    <3>. QED  BY <3>2, <3>3 DEF Channel!Next, Channel!Receive
  <2>4. CASE \/ Transmission \/ Resumption \/ Arrival
             \/ ProcessShort \/ Misread \/ UNCHANGED vars
    BY <2>4 DEF Transmission, Transmit, Resumption, Resume, Arrival, OnReadyRead, ProcessShort, Misread,
                vars, serverVars, clientVars
  <2>. QED  BY <2>1, <2>2, <2>3, <2>4 DEF Next, ProcessBuffer, Idle
<1>. QED  BY <1>1, <1>2, StreamInvariance, PTL DEF Spec, Channel!Safety
=============================================================================
