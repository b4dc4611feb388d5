---------------------------- MODULE FifoChannel ----------------------------
(* What a connection promises to its two ends: messages are received in    *)
(* the order in which they were sent, each once, none invented; as long as *)
(* the connection is open all of them are.  Messages are numbered as sent. *)
EXTENDS Naturals, Sequences

VARIABLES
  sent,       \* number of messages sent
  received,   \* messages received
  open        \* the connection has not been lost

channelVars == <<sent, received, open>>

Init == sent = 0 /\ received = << >> /\ open = TRUE

Send == open /\ sent' = sent + 1 /\ UNCHANGED <<received, open>>

Receive ==
  /\ Len(received) < sent
  /\ received' = Append(received, Len(received) + 1)
  /\ UNCHANGED <<sent, open>>

Lose == open /\ open' = FALSE /\ UNCHANGED <<sent, received>>

Next == Send \/ Receive \/ Lose

Safety == Init /\ [][Next]_channelVars

Spec == Safety /\ WF_channelVars(open /\ Receive)
=============================================================================
