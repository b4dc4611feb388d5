--------------------------- MODULE ClientToServer ---------------------------
(***************************************************************************)
(* One connection from NetworkClient's writes to the server's handlers.    *)
(* The client writes its credentials and then messages into a QTcpSocket;  *)
(* the server reads with async_read_some, and parses one message from the  *)
(* beginning of each chunk that a read returns.                            *)
(*                                                                         *)
(* Write number n is Size[n] parts long, the first being the credentials.  *)
(* TCP keeps the parts and their order, not the boundaries of the writes:  *)
(* a chunk may hold several messages or end inside one.  What the server   *)
(* then parses is not a message anybody wrote; its stream operator leaves  *)
(* fields empty and it is broadcast like any other.                        *)
(***************************************************************************)
EXTENDS Integers, Sequences

CONSTANTS
  MaxWrites,         \* bound: writes of the client, the credentials included
  Size,              \* parts of each write
  CREDENTIALS_SIZE,  \* parts that fit the buffer of handle_connection
  READ_SIZE          \* parts that fit the buffer of asyncRead

ASSUME RequestAssumption ==
  /\ MaxWrites \in Nat
  /\ Size \in [1..MaxWrites -> Nat \ {0}]
  /\ CREDENTIALS_SIZE \in Nat \ {0} /\ READ_SIZE \in Nat \ {0}

VARIABLES
  written,    \* number of writes
  wire,       \* parts written and not yet read
  open,       \* the client has not gone
  stage,      \* "credentials", "reading" or "over"
  handled,    \* what each read was parsed as: the number of a write, or Incomplete
  cut         \* history variable: a read returned other than one whole write

vars == <<written, wire, open, stage, handled, cut>>

Incomplete == 0

Part(n, i) == [n |-> n, i |-> i]

Init ==
  /\ written = 0
  /\ wire = << >>
  /\ open = TRUE
  /\ stage = "credentials"
  /\ handled = << >>
  /\ cut = FALSE

----------------------------------------------------------------------------
(* The client.                                                             *)

(* Faulty variant: a message is written twice. *)
WriteTwice ==
  /\ open
  /\ written < MaxWrites
  /\ written' = written + 1
  /\ LET block == [i \in 1..Size[written + 1] |-> Part(written + 1, i)] IN
       wire' = wire \o block \o block
  /\ UNCHANGED <<open, stage, handled, cut>>

(* sendCredentials, then sendMessage and requestUserList: a block of bytes *)
(* is handed to the socket whole.                                          *)
Write ==
  /\ open
  /\ written < MaxWrites
  /\ written' = written + 1
  /\ wire' = wire \o [i \in 1..Size[written + 1] |-> Part(written + 1, i)]
  /\ UNCHANGED <<open, stage, handled, cut>>

(* The client disconnects or its connection is lost, with bytes on the way. *)
Close ==
  /\ open
  /\ open' = FALSE
  /\ \E k \in 0..Len(wire) : wire' = SubSeq(wire, 1, k)
  /\ UNCHANGED <<written, stage, handled, cut>>

----------------------------------------------------------------------------
(* The server.                                                             *)

BufferSize == IF stage = "credentials" THEN CREDENTIALS_SIZE ELSE READ_SIZE

(* The chunk begins with all parts of one write, in order. *)
BeginsWhole(chunk) ==
  /\ Len(chunk) >= Size[chunk[1].n]
  /\ \A i \in 1..Size[chunk[1].n] : chunk[i] = Part(chunk[1].n, i)

Parsed(chunk) == IF BeginsWhole(chunk) THEN chunk[1].n ELSE Incomplete

(* One async_read_some: the message at the beginning of the chunk is taken, *)
(* the rest of the chunk is dropped with the buffer.                       *)
Read(chunk) ==
  /\ wire' = SubSeq(wire, Len(chunk) + 1, Len(wire))
  /\ handled' = Append(handled, Parsed(chunk))
  /\ cut' = (cut \/ ~BeginsWhole(chunk) \/ Len(chunk) # Size[chunk[1].n])

Chunks ==
  {SubSeq(wire, 1, k) : k \in {i \in 1..Len(wire) : i <= BufferSize}}

(* Credentials cut short name no user and are refused, whole ones may be.  *)
(* The rest of the first chunk is lost either way.                         *)
ReadCredentials ==
  /\ stage = "credentials"
  /\ \E chunk \in Chunks :
       \/ /\ Read(chunk)
          /\ Parsed(chunk) = 1
          /\ stage' = "reading"
          /\ UNCHANGED open
       \/ /\ stage' = "over"
          /\ open' = FALSE
          /\ wire' = << >>
          /\ UNCHANGED <<handled, cut>>
  /\ UNCHANGED written

(* Faulty variant: the bytes stay in the socket. *)
ReadMessagePeeking ==
  /\ stage = "reading"
  /\ \E chunk \in Chunks : handled' = Append(handled, Parsed(chunk))
  /\ UNCHANGED <<written, wire, open, stage, cut>>

ReadMessage ==
  /\ stage = "reading"
  /\ \E chunk \in Chunks : Read(chunk)
  /\ UNCHANGED <<written, open, stage>>

(* Faulty variant: the end of the stream is not noticed while reading. *)
ReadErrorCredentialsOnly ==
  /\ stage = "credentials"
  /\ ~open
  /\ wire = << >>
  /\ stage' = "over"
  /\ UNCHANGED <<written, wire, open, handled, cut>>

(* The stream has ended: the disconnect callback, no further read. *)
ReadError ==
  /\ stage # "over"
  /\ ~open
  /\ wire = << >>
  /\ stage' = "over"
  /\ UNCHANGED <<written, wire, open, handled, cut>>

(* Nothing is left to write or to read. *)
Idle ==
  /\ written = MaxWrites \/ ~open
  /\ wire = << >>
  /\ stage = "over" \/ open
  /\ UNCHANGED vars

Next == Write \/ Close \/ ReadCredentials \/ ReadMessage \/ ReadError \/ Idle

(* The server's workers run ready handlers; the client owes nothing. *)
Fairness == WF_vars(ReadCredentials) /\ WF_vars(ReadMessage) /\ WF_vars(ReadError)

Spec == Init /\ [][Next]_vars

FairSpec == Spec /\ Fairness

----------------------------------------------------------------------------
(***************************************************************************)
(* Properties                                                              *)
(***************************************************************************)

ValidParts == UNION {{Part(n, i) : i \in 1..Size[n]} : n \in 1..MaxWrites}

(* Every variable has its type. *)
TypeOK ==
  /\ written \in 0..MaxWrites
  /\ wire \in Seq(ValidParts)
  /\ open \in BOOLEAN /\ cut \in BOOLEAN
  /\ stage \in {"credentials", "reading", "over"}
  /\ handled \in Seq(0..MaxWrites)

(* However the stream is cut, the whole messages that the server handles   *)
(* are some of those written, in the order written, none twice.            *)
WholeInOrder ==
  \A i, j \in 1..Len(handled) :
    i < j /\ handled[j] # Incomplete => handled[i] < handled[j] /\ handled[j] <= written

(* Only a read that returns something else than exactly one write does     *)
(* harm: as long as none has, every write was handled in its turn, and     *)
(* what is still to be read begins with the next.                          *)
NothingLostUnlessCut ==
  ~cut /\ stage # "over" =>
    /\ \A i \in 1..Len(handled) : handled[i] = i
    /\ wire # << >> => wire[1] = Part(Len(handled) + 1, 1)
    /\ open => Len(wire) > 0 \/ Len(handled) = written

(* The parts on the wire are in the order of the writes, each part the one *)
(* after its predecessor; none is of a write already handled.              *)
Before(u, v) == u.n < v.n \/ (u.n = v.n /\ u.i < v.i)

Follows(u, v) == v = Part(u.n, u.i + 1) \/ (u.i = Size[u.n] /\ v = Part(u.n + 1, 1))

WireInOrder ==
  /\ \A p, q \in 1..Len(wire) : p < q => Before(wire[p], wire[q])
  /\ \A p \in 1..Len(wire) : wire[p].n <= written
  /\ \A p \in 1..(Len(wire) - 1) : Follows(wire[p], wire[p + 1])
  /\ open /\ wire # << >> => wire[Len(wire)] = Part(written, Size[written])

HandledBeforeWire ==
  /\ \A k \in 1..Len(handled) : handled[k] <= written
  /\ \A k \in 1..Len(handled), p \in 1..Len(wire) : handled[k] < wire[p].n

(* The inductive invariant of the proofs. *)
RequestInv ==
  /\ TypeOK
  /\ WireInOrder
  /\ HandledBeforeWire
  /\ WholeInOrder
  /\ NothingLostUnlessCut

(* A client that has gone is noticed and its session ended, whatever the   *)
(* reads returned.                                                         *)
EndNoticed == ~open ~> stage = "over"
=============================================================================
