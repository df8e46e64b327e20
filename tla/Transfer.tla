------------------------------ MODULE Transfer ------------------------------
(***************************************************************************)
(* send_message and wait_for_message (src/NFSCommunication.cpp) over one   *)
(* direction of a TCP connection: the length of a message and then its     *)
(* bytes, each in a loop of partial sends and receives.                    *)
(***************************************************************************)
EXTENDS MessageCodec

CONSTANTS
    Order,          \* the byte order of the two hosts
    Messages,       \* the messages that are sent
    WireCap,        \* bound: bytes TCP takes before send(2) blocks
    MaxAlloc,       \* bound: largest buffer that operator new gives
    Signals         \* whether signal handlers interrupt send(2) and recv(2)

None == [code |-> "none"]

ASSUME TransferAssumption ==
    /\ Order \in Orders
    /\ \A m \in Messages : DOMAIN m = {"code", "fields"}
    /\ WireCap \in Nat \ {0} /\ MaxAlloc \in Nat /\ Signals \in BOOLEAN

VARIABLES
    spc, message, unsent,       \* send_message: stage, argument, bytes to go
    sent_result,                \* what it has returned last
    wire,                       \* bytes on their way
    rpc, size, received,        \* wait_for_message: stage, length, bytes so far
    got,                        \* the message of its last success
    handed_over,                \* history: messages sent, not yet received
    broken                      \* history: a call failed inside a message

transferVars == <<spc, message, unsent, sent_result, wire, rpc, size,
                  received, got, handed_over, broken>>

\* "gone": the process at that end has ended; the receiver does so by
\* exit(123), by an exception, or after undefined behaviour as well.
TransferTypeOK ==
    /\ spc \in {"idle", "size", "body", "gone"}
    /\ message \in Messages \cup {None}
    /\ unsent \in Seq(0..(Base - 1)) /\ wire \in Seq(0..(Base - 1))
    /\ Len(wire) <= WireCap
    /\ rpc \in {"idle", "size", "body", "gone"}
    /\ size \in {Width} \cup 0..MaxAlloc
    /\ received \in Seq(0..(Base - 1))
    /\ handed_over \in Seq(Messages)
    /\ sent_result \in Int
    /\ broken \in BOOLEAN
    /\ broken => handed_over = << >>
    /\ spc \in {"size", "body"} => message \in Messages /\ unsent # << >>
    /\ rpc \in {"size", "body"} => Len(received) < size    \* room in the buffer

TransferInit ==
    /\ spc = "idle" /\ message = None /\ unsent = << >> /\ sent_result = 0
    /\ wire = << >>
    /\ rpc = "idle" /\ size = 0 /\ received = << >>
    /\ got = None
    /\ handed_over = << >> /\ broken = FALSE

senderVars   == <<spc, message, unsent, sent_result>>
receiverVars == <<rpc, size, received, got>>

-----------------------------------------------------------------------------
\* send_message writes the message into a buffer and its length before it.
message_size(n, o) == InMemory[htonll[n, o], o]

send_message(m) ==
    /\ spc = "idle"
    /\ spc' = "size" /\ message' = m /\ sent_result' = 0
    /\ unsent' = message_size(Len(Encode(m, Order)), Order)
    /\ UNCHANGED <<wire, receiverVars, handed_over, broken>>

\* The end of send_message.
SendReturns(result) ==
    /\ sent_result' = result
    /\ spc' = "idle" /\ message' = None /\ unsent' = << >>

\* One turn of a loop: send(2) takes the next n bytes; what is sent to an end
\* that is gone is lost.  The result is the sum of both loops, as an int.
TotalSize == ToInt(Width + Len(Encode(message, Order)))
\* Mutants: a loop ends one byte early, or waits for one byte too many.
SendsAllButOne(n) == n >= Len(unsent) - 1
SendsOneMore(n)  == n > Len(unsent)
SendsAll(n)      == n = Len(unsent)

send_some(n) ==
    /\ spc \in {"size", "body"} /\ n \in 1..Len(unsent)
    /\ IF rpc = "gone" THEN UNCHANGED wire
       ELSE /\ Len(wire) + n <= WireCap
            /\ wire' = wire \o SubSeq(unsent, 1, n)
    /\ \/ /\ ~SendsAll(n)
          /\ unsent' = SubSeq(unsent, n + 1, Len(unsent))
          /\ UNCHANGED <<spc, message, sent_result, handed_over>>
       \/ /\ SendsAll(n) /\ spc = "size"
          /\ spc' = "body" /\ unsent' = Encode(message, Order)
          /\ UNCHANGED <<message, sent_result, handed_over>>
       \/ /\ SendsAll(n) /\ spc = "body"
          /\ SendReturns(TotalSize)
          /\ handed_over' = IF broken \/ rpc = "gone" THEN handed_over
                            ELSE Append(handed_over, message)
    /\ UNCHANGED <<receiverVars, broken>>

\* What is left of a frame is lost when a call fails inside it.
Breaks(inside) ==
    /\ broken' = (broken \/ inside)
    /\ handed_over' = IF inside THEN << >> ELSE handed_over

\* send(2) fails: the other end is gone, or a signal handler ran while it was
\* blocked.  Both loops return the result at once, however much was sent.
InsideFrame == spc = "body" \/ Len(unsent) < Width
send_fails ==
    /\ spc \in {"size", "body"}
    /\ rpc = "gone" \/ (Signals /\ Len(wire) = WireCap)
    /\ Breaks(InsideFrame)
    /\ SendReturns(-1)
    /\ UNCHANGED <<wire, receiverVars>>

\* The process that sends dies, at any point, or of SIGPIPE.
sender_dies ==
    /\ spc # "gone"
    /\ spc' = "gone" /\ message' = None /\ unsent' = << >>
    /\ UNCHANGED <<sent_result, wire, receiverVars, handed_over, broken>>

-----------------------------------------------------------------------------
wait_for_message ==
    /\ rpc = "idle"
    /\ rpc' = "size" /\ received' = << >> /\ size' = Width /\ got' = None
    /\ UNCHANGED <<senderVars, wire, handed_over, broken>>

ReceiverEnds ==
    /\ rpc' = "gone" /\ received' = << >> /\ size' = 0
    /\ wire' = << >> /\ handed_over' = << >>
    /\ UNCHANGED got

size_read(bytes, o) == htonll[FromMemory[bytes, o], o]

\* The length is complete: operator new may throw, and a body of length 0 has
\* no first byte to look at.
SizeReceived(bytes) ==
    LET n == size_read(bytes, Order)
    IN  \/ n \notin 1..MaxAlloc /\ ReceiverEnds
        \/ /\ n \in 1..MaxAlloc
           /\ rpc' = "body" /\ size' = n /\ received' = << >>
           /\ UNCHANGED <<got, handed_over>>

\* The body is complete; callers take a result of 0 or less for a failure.
BodyReceived(bytes) ==
    LET m == Decode(bytes, Order)
    IN  \/ m \in {Undefined, Exit123} /\ ReceiverEnds
        \/ /\ m \notin {Undefined, Exit123}
           /\ got' = IF ToInt(Width + Len(bytes)) > 0 THEN m ELSE None
           /\ rpc' = "idle" /\ size' = 0 /\ received' = << >>
           /\ handed_over' = IF broken THEN handed_over ELSE Tail(handed_over)

\* One turn of a loop: recv(2) gives the next n bytes.
\* Mutant: the loop waits for one byte too many.
OneMoreMissing == size + 1 - Len(received)
StillMissing == size - Len(received)

receive_some(n) ==
    /\ rpc \in {"size", "body"} /\ n \in 1..Len(wire) /\ n <= StillMissing
    /\ LET bytes == received \o SubSeq(wire, 1, n)
       IN  \/ /\ n < StillMissing
              /\ received' = bytes
              /\ UNCHANGED <<rpc, size, got, handed_over>>
           \/ n = StillMissing /\ rpc = "size" /\ SizeReceived(bytes)
           \/ n = StillMissing /\ rpc = "body" /\ BodyReceived(bytes)
    /\ rpc' # "gone" => wire' = SubSeq(wire, n + 1, Len(wire))
    /\ UNCHANGED <<senderVars, broken>>

\* recv(2) returns 0, or fails with nothing to give: the bytes that have been
\* taken from the stream are lost.
receive_fails ==
    /\ rpc \in {"size", "body"} /\ wire = << >>
    /\ spc = "gone" \/ Signals
    /\ rpc' = "idle" /\ size' = 0 /\ received' = << >>
    /\ Breaks(rpc = "body" \/ received # << >>)
    /\ UNCHANGED <<senderVars, wire, got>>

receiver_dies ==
    /\ rpc # "gone"
    /\ ReceiverEnds
    /\ UNCHANGED <<senderVars, broken>>

-----------------------------------------------------------------------------
SendSteps == \E n \in 1..WireCap : send_some(n)
ReceiveSteps == wait_for_message \/ \E n \in 1..WireCap : receive_some(n)

TransferNext ==
    \/ \E m \in Messages : send_message(m)
    \/ SendSteps \/ send_fails \/ sender_dies
    \/ ReceiveSteps \/ receive_fails \/ receiver_dies

TransferSpec == TransferInit /\ [][TransferNext]_transferVars

\* A process that can go on does, and a server goes on waiting for messages.
TransferFairness == /\ WF_transferVars(SendSteps)
                    /\ WF_transferVars(ReceiveSteps)
FairTransfer == TransferSpec /\ TransferFairness

-----------------------------------------------------------------------------
\* send_message and wait_for_message carry out the queue of messages of
\* MessageChannel.tla: whatever the sizes of the partial transfers, messages
\* arrive whole, once, in their order, and the ints that are returned
\* say whether they were handed over (NFSCommunication.cpp:130), until a call
\* fails inside a message.
Channel == INSTANCE MessageChannel WITH
    queue <- handed_over, accepted <- sent_result > 0
ImplementsChannel == Channel!ChannelSpec

\* A loop of partial transfers never waits for bytes that do not come or room
\* that does not appear: send_message returns while the other end receives, and
\* what it has handed over arrives unless the next message is on its way
\* already, a frame is broken or the receiver is gone.
SendsReturn == spc \in {"size", "body"} ~> spc \in {"idle", "gone"}
HandedOverArrives ==
    handed_over # << >> ~> handed_over = << >> \/ spc \in {"size", "body"}
=============================================================================
