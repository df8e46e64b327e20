--------------------------- MODULE MessageChannel ---------------------------
(***************************************************************************)
(* What send_message and wait_for_message promise to the two ends of a     *)
(* connection, and what Tcp.tla takes for granted: a queue of messages.    *)
(***************************************************************************)
EXTENDS Integers, Sequences

CONSTANTS Messages, None

VARIABLES
    queue,          \* messages handed over and not yet received
    accepted,       \* whether the last send_message reported success
    got,            \* the message that wait_for_message has just returned
    broken          \* whether the stream has lost its frames

channelVars == <<queue, accepted, got, broken>>

ChannelInit == queue = << >> /\ ~accepted /\ got = None /\ ~broken

\* A send that reports success has put the whole message into the queue, and
\* one that does not has put nothing.
Put(m) == /\ ~broken /\ queue' = Append(queue, m) /\ accepted'
          /\ UNCHANGED <<got, broken>>
PutFails == ~accepted' /\ UNCHANGED <<queue, got, broken>>

\* Messages arrive whole, in their order, and once.
Get    == /\ ~broken /\ queue # << >> /\ got = None
          /\ got' = Head(queue) /\ queue' = Tail(queue)
          /\ UNCHANGED <<accepted, broken>>
Forget == got' = None /\ UNCHANGED <<queue, accepted, broken>>

\* The receiver stops: what is on its way, or comes later, is lost.
Stop == queue' = << >> /\ UNCHANGED <<accepted, got, broken>>
Lose == accepted' /\ queue = << >> /\ UNCHANGED <<queue, got, broken>>

\* A failure in the middle of a message ends all that.
Break   == broken' /\ queue' = << >> /\ got' \in {got, None}
           /\ accepted' \in {accepted, FALSE}
Garbage == broken /\ UNCHANGED <<queue, broken>>

ChannelNext ==
    \/ \E m \in Messages : Put(m)
    \/ PutFails \/ Get \/ Forget \/ Stop \/ Lose \/ Break \/ Garbage

ChannelSpec == ChannelInit /\ [][ChannelNext]_channelVars
=============================================================================
