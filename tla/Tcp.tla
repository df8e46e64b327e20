-------------------------------- MODULE Tcp --------------------------------
(***************************************************************************)
(* The TCP connections between clients and server workers, as send(2),     *)
(* recv(2), connect(2) and close(2) show them to NFSCommunication.cpp.     *)
(* A session is one TCP connection; the unit of transfer is one message.   *)
(***************************************************************************)
EXTENDS NFSMessages

CONSTANT
    BufCap          \* bound: messages one direction buffers before send blocks

ASSUME TcpAssumption == BufCap \in Nat \ {0}

VARIABLES
    c2s,            \* messages on their way to the worker of a session
    s2c,            \* messages on their way to the client of a session
    cend,           \* the client's end: "unused", "open" or "closed"
    wend            \* the server's end: "unused", "backlog", "open", "closed"

tcpVars == <<c2s, s2c, cend, wend>>

TcpTypeOK ==
    /\ c2s \in [Sessions -> Seq(MSG)]
    /\ s2c \in [Sessions -> Seq(MSG)]
    /\ cend \in [Sessions -> {"unused", "open", "closed"}]
    /\ wend \in [Sessions -> {"unused", "backlog", "open", "closed"}]

TcpInit ==
    /\ c2s = [s \in Sessions |-> << >>]
    /\ s2c = [s \in Sessions |-> << >>]
    /\ cend = [s \in Sessions |-> "unused"]
    /\ wend = [s \in Sessions |-> "unused"]

-----------------------------------------------------------------------------
\* What send_message can do when the other end is in the given state.  Sending
\* to an end that is closed loses the message, fails, or raises SIGPIPE: the
\* two loops of send(2) run without MSG_NOSIGNAL, and the answer of the closed
\* end (RST) may or may not arrive between them.
SendOutcomes(peer) ==
    IF peer = "closed" THEN {"sent", "error", "sigpipe"} ELSE {"sent"}

\* The queue towards an end in that state after a message is sent to it, and
\* whether it has room: a full queue blocks the sender.
Sent(q, m, peer) == IF peer = "closed" THEN q ELSE Append(q, m)
HasRoom(q, peer) == peer = "closed" \/ Len(q) < BufCap

WorkerSend(s, m, outcome) ==
    /\ outcome \in SendOutcomes(cend[s])
    /\ HasRoom(s2c[s], cend[s])
    /\ s2c' = [s2c EXCEPT ![s] = Sent(@, m, cend[s])]
    /\ UNCHANGED <<c2s, cend, wend>>

\* recv(2) has a message, or finds the stream ended (returns 0 or an error).
WorkerReceives(s) ==
    /\ c2s[s] # << >>
    /\ c2s' = [c2s EXCEPT ![s] = Tail(@)]
    /\ UNCHANGED <<s2c, cend, wend>>

WorkerHangup(s) ==
    /\ c2s[s] = << >>
    /\ cend[s] = "closed"
    /\ UNCHANGED tcpVars

\* A closed end drops what it has not read; nothing more is queued for it.
WorkerCloses(s) ==
    /\ wend' = [wend EXCEPT ![s] = "closed"]
    /\ c2s' = [c2s EXCEPT ![s] = << >>]
    /\ UNCHANGED <<s2c, cend>>
=============================================================================
