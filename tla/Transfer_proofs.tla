--------------------------- MODULE Transfer_proofs ---------------------------
(***************************************************************************)
(* Proofs about Transfer.tla, for messages of any length, socket buffers   *)
(* of any size and transfers of any part of what is there: the two loops   *)
(* of send_message and those of wait_for_message carry out a queue of      *)
(* messages.  What the codec computes is a hypothesis (CodecIsRight).      *)
(***************************************************************************)
EXTENDS Transfer, SequenceTheorems, TLAPS

Byte == 0..(Base - 1)

\* What a message is on its way: its length in a word, and its bytes.
Length(m) == message_size(Len(Encode(m, Order)), Order)
Frame(m)  == Length(m) \o Encode(m, Order)

\* What the theorems take from MessageCodec.tla: a length fills a word and is read
\* back as it was written, and so is a message (MessageBuffer.cpp, NFSMessages.hpp).
CodecIsRight ==
    \A m \in Messages :
        /\ Length(m) \in Seq(Byte) /\ Len(Length(m)) = Width
        /\ Encode(m, Order) \in Seq(Byte) \ {<< >>}
        /\ size_read(Length(m), Order) = Len(Encode(m, Order))
        /\ Decode(Encode(m, Order), Order) = m

-----------------------------------------------------------------------------
(* The inductive invariant.                                                *)

\* The loops are left as soon as nothing is missing, and the message of the last
\* call is forgotten when the next one begins.
ControlInv ==
    /\ spc \in {"size", "body"} => message \in Messages /\ unsent # << >>
    /\ rpc \in {"size", "body"} => got = None
    /\ rpc = "size" => size = Width /\ Len(received) < Width
    /\ rpc = "body" => Len(received) < size
    /\ rpc = "gone" => handed_over = << >>

\* S is what has come since the last message was received: it is on its way, or
\* the receiver has it, who keeps nothing of a length but its value.
StreamIs(S) ==
    /\ rpc = "idle" => S = wire
    /\ rpc = "size" => S = received \o wire
    /\ rpc = "body" => \E head \in Seq(Byte) :
          /\ Len(head) = Width /\ size = size_read(head, Order)
          /\ S = head \o (received \o wire)

\* It begins with the frames of the messages in queue h, which end at cut[1],
\* cut[2] and so on.
Framed(cut, h, S) ==
    /\ cut \in [0..Len(h) -> Nat] /\ cut[0] = 0
    /\ \A j, k \in 0..Len(h) : j <= k => cut[j] <= cut[k]
    /\ \A k \in 1..Len(h) :
          /\ cut[k] = cut[k - 1] + Len(Frame(h[k])) /\ cut[k] <= Len(S)
          /\ \A i \in 1..Len(Frame(h[k])) : S[cut[k - 1] + i] = Frame(h[k])[i]

\* It ends with n bytes of the frame of message m, of which the rest is missing.
Begun(S, m, n) ==
    n > 0 => /\ m \in Messages /\ n < Len(Frame(m))
             /\ \A i \in 1..n : S[Len(S) - n + i] = Frame(m)[i]

\* That is the message being sent, and the sender has the rest.
Ahead(m, n) ==
    /\ spc = "idle" => n = 0
    /\ spc \in {"size", "body"} =>
          /\ m = message
          /\ n + Len(unsent) = IF spc = "size" THEN Width ELSE Len(Frame(m))
          /\ \A i \in 1..Len(unsent) : unsent[i] = Frame(m)[n + i]

StreamHas(S, n, cut, m) ==
    /\ StreamIs(S) /\ Framed(cut, handed_over, S)
    /\ Len(S) = cut[Len(handed_over)] + n
    /\ Begun(S, m, n) /\ Ahead(m, n)

StreamInv ==
    ~broken /\ rpc # "gone" =>
        \E S \in Seq(Byte), n \in Nat : \E cut, m : StreamHas(S, n, cut, m)

TransferInv == TransferTypeOK /\ ControlInv /\ StreamInv

-----------------------------------------------------------------------------
(* Sequences, split and put together.                                      *)

\* Two parts of a sequence, cut after n members.
LEMMA Split ==
    ASSUME NEW B, NEW q \in Seq(B), NEW n \in 0..Len(q)
    PROVE  /\ SubSeq(q, 1, n) \in Seq(B) /\ Len(SubSeq(q, 1, n)) = n
           /\ \A i \in 1..n : SubSeq(q, 1, n)[i] = q[i]
           /\ SubSeq(q, n + 1, Len(q)) \in Seq(B)
           /\ Len(SubSeq(q, n + 1, Len(q))) = Len(q) - n
           /\ \A i \in 1..(Len(q) - n) : SubSeq(q, n + 1, Len(q))[i] = q[n + i]
OBVIOUS

\* Two sequences, one behind the other.
LEMMA Joined ==
    ASSUME NEW B, NEW p \in Seq(B), NEW q \in Seq(B)
    PROVE  /\ p \o q \in Seq(B) /\ Len(p \o q) = Len(p) + Len(q)
           /\ \A i \in 1..Len(p) : (p \o q)[i] = p[i]
           /\ \A i \in 1..Len(q) : (p \o q)[Len(p) + i] = q[i]
OBVIOUS

\* Sequences are equal when their members are.
LEMMA SameMembers ==
    ASSUME NEW B, NEW p \in Seq(B), NEW q \in Seq(B), Len(p) = Len(q),
           \A i \in 1..Len(p) : p[i] = q[i]
    PROVE  p = q
OBVIOUS

\* A sequence that is not empty has a first member.
LEMMA NotEmpty ==
    ASSUME NEW B, NEW q \in Seq(B), q # << >>
    PROVE  Len(q) \in Nat \ {0} /\ 1 \in 1..Len(q) /\ q[1] = Head(q) /\ Head(q) \in B
<1>1. Len(q) \in Nat \ {0}
  BY EmptySeq
<1> QED BY <1>1

\* It does not matter where a piece is counted in.
LEMMA Associates ==
    ASSUME NEW B, NEW p \in Seq(B), NEW q \in Seq(B), NEW r \in Seq(B)
    PROVE  (p \o q) \o r = p \o (q \o r)
BY SMTT(30)

\* Members that move from the front of one sequence to the end of the one before.
LEMMA Moved ==
    ASSUME NEW B, NEW p \in Seq(B), NEW q \in Seq(B), NEW n \in 0..Len(q)
    PROVE  (p \o SubSeq(q, 1, n)) \o SubSeq(q, n + 1, Len(q)) = p \o q
<1> DEFINE a == SubSeq(q, 1, n)
           b == SubSeq(q, n + 1, Len(q))
<1>1. /\ a \in Seq(B) /\ Len(a) = n /\ \A i \in 1..n : a[i] = q[i]
      /\ b \in Seq(B) /\ Len(b) = Len(q) - n /\ \A i \in 1..(Len(q) - n) : b[i] = q[n + i]
      /\ Len(q) \in Nat
  BY Split
<1> HIDE DEF a, b
<1>2. PICK c : c = a \o b
  OBVIOUS
<1>3. c = q
  <2>1. /\ c \in Seq(B) /\ Len(c) = Len(q) /\ \A i \in 1..n : c[i] = a[i]
        /\ \A i \in 1..(Len(q) - n) : c[n + i] = b[i]
    BY <1>1, <1>2, Joined
  <2>2. ASSUME NEW i \in 1..Len(q) PROVE c[i] = q[i]
    <3>1. CASE i <= n
      BY <1>1, <2>1, <3>1
    <3>2. CASE i > n
      <4>1. i - n \in 1..(Len(q) - n) /\ i = n + (i - n)
        BY <1>1, <3>2
      <4>2. PICK j \in 1..(Len(q) - n) : i = n + j
        BY <4>1
      <4> QED BY <1>1, <2>1, <4>2
    <3> QED BY <1>1, <3>1, <3>2
  <2> QED BY <2>1, <2>2, SameMembers
<1>4. a \o b = q
  BY <1>2, <1>3
<1>5. (p \o a) \o b = p \o (a \o b)
  BY <1>1, Associates, SMTT(30)
<1>6. (p \o a) \o b = p \o q
  BY <1>4, <1>5
<1> QED BY <1>6 DEF a, b

-----------------------------------------------------------------------------
(* Messages and their frames.                                              *)

\* A word has at least two bytes, and a message at least one.
LEMMA FrameFacts ==
    ASSUME CodecIsRight, NEW m \in Messages
    PROVE  /\ Width \in Nat \ {0} /\ Len(Encode(m, Order)) \in Nat \ {0}
           /\ Encode(m, Order) \in Seq(Byte) /\ Length(m) \in Seq(Byte)
           /\ Len(Length(m)) = Width
           /\ Frame(m) \in Seq(Byte) /\ Len(Frame(m)) = Width + Len(Encode(m, Order))
           /\ \A i \in 1..Width : Frame(m)[i] = Length(m)[i]
           /\ \A i \in 1..Len(Encode(m, Order)) :
                 Frame(m)[Width + i] = Encode(m, Order)[i]
<1>1. /\ Encode(m, Order) \in Seq(Byte) /\ Length(m) \in Seq(Byte)
      /\ Encode(m, Order) # << >> /\ Len(Length(m)) = Width
  BY DEF CodecIsRight
<1>2. Width \in Nat \ {0}
  BY CodecAssumption DEF Width
<1>3. Len(Encode(m, Order)) \in Nat \ {0}
  BY <1>1, NotEmpty
<1>4. PICK f : f = Frame(m)
  OBVIOUS
<1>5. /\ f \in Seq(Byte) /\ Len(f) = Width + Len(Encode(m, Order))
      /\ \A i \in 1..Width : f[i] = Length(m)[i]
      /\ \A i \in 1..Len(Encode(m, Order)) : f[Width + i] = Encode(m, Order)[i]
  <2>1. PICK p \in Seq(Byte), q \in Seq(Byte) : p = Length(m) /\ q = Encode(m, Order)
    BY <1>1
  <2>2. /\ p \o q \in Seq(Byte) /\ Len(p \o q) = Len(p) + Len(q)
        /\ \A i \in 1..Len(p) : (p \o q)[i] = p[i]
        /\ \A i \in 1..Len(q) : (p \o q)[Len(p) + i] = q[i]
    BY Joined
  <2>3. f = p \o q /\ Len(p) = Width
    BY <1>1, <1>4, <2>1 DEF Frame
  <2> QED BY <2>1, <2>2, <2>3
<1> QED BY <1>1, <1>2, <1>3, <1>4, <1>5

\* No frame is empty.
LEMMA FrameLength ==
    ASSUME CodecIsRight, NEW m \in Messages
    PROVE  Len(Frame(m)) \in Nat \ {0}
<1>1. PICK w \in Nat \ {0}, n \in Nat \ {0} : Len(Frame(m)) = w + n
  BY FrameFacts
<1> QED BY <1>1

\* The sum of both loops fits an int (send_message, wait_for_message).
LEMMA TotalFits ==
    ASSUME NEW x \in 0..IntMax
    PROVE  ToInt(x) = x
<1>1. IntMax \in Nat
  BY MessagesAssumption
<1>2. (x + IntMax + 1) % (2 * (IntMax + 1)) = x + IntMax + 1
  BY <1>1
<1> QED BY <1>1, <1>2 DEF ToInt

-----------------------------------------------------------------------------
(* Types and control.                                                      *)

Sound == TransferTypeOK /\ ControlInv

\* The steps of send_message: whatever is left to send is bytes of the message.
LEMMA SenderSound ==
    ASSUME CodecIsRight, Sound,
           \/ \E m \in Messages : send_message(m)
           \/ SendSteps \/ send_fails \/ sender_dies
    PROVE  Sound'
<1>1. ASSUME NEW m \in Messages, send_message(m) PROVE Sound'
  <2>1. unsent' \in Seq(Byte) /\ unsent' # << >>
    <3>1. unsent' = Length(m)
      BY <1>1 DEF send_message, Length
    <3> QED BY <3>1, FrameFacts, EmptySeq
  <2> QED BY <1>1, <2>1 DEF Sound, TransferTypeOK, ControlInv, send_message, receiverVars,
                            Byte
<1>2. ASSUME NEW n \in 1..WireCap, send_some(n) PROVE Sound'
  <2>1. /\ n \in 1..Len(unsent) /\ unsent \in Seq(Byte) /\ wire \in Seq(Byte)
        /\ message \in Messages /\ spc \in {"size", "body"}
    BY <1>2 DEF send_some, Sound, TransferTypeOK, ControlInv, Byte
  <2>2. /\ SubSeq(unsent, 1, n) \in Seq(Byte) /\ Len(SubSeq(unsent, 1, n)) = n
        /\ SubSeq(unsent, n + 1, Len(unsent)) \in Seq(Byte)
        /\ Len(SubSeq(unsent, n + 1, Len(unsent))) = Len(unsent) - n
    BY <2>1, Split
  <2>3. wire' \in Seq(Byte) /\ Len(wire') <= WireCap
    <3>1. CASE rpc = "gone"
      BY <1>2, <3>1 DEF send_some, Sound, TransferTypeOK, Byte
    <3>2. CASE rpc # "gone"
      BY <1>2, <2>1, <2>2, <3>2, Joined DEF send_some
    <3> QED BY <3>1, <3>2
  <2>4. UNCHANGED <<rpc, size, received, got, broken>>
    BY <1>2 DEF send_some, receiverVars
  <2>5. CASE /\ ~SendsAll(n) /\ unsent' = SubSeq(unsent, n + 1, Len(unsent))
             /\ UNCHANGED <<spc, message, sent_result, handed_over>>
    <3>1. unsent' \in Seq(Byte) /\ unsent' # << >>
      <4>1. PICK u : u = SubSeq(unsent, n + 1, Len(unsent))
        OBVIOUS
      <4>2. u \in Seq(Byte) /\ Len(u) = Len(unsent) - n /\ unsent' = u
        BY <2>2, <2>5, <4>1
      <4>3. Len(unsent) \in Nat /\ n # Len(unsent)
        BY <2>1, <2>5 DEF SendsAll
      <4> QED BY <2>1, <4>2, <4>3
    <3> QED BY <2>3, <2>4, <2>5, <3>1 DEF Sound, TransferTypeOK, ControlInv, Byte
  <2>6. CASE /\ SendsAll(n) /\ spc = "size" /\ spc' = "body"
             /\ unsent' = Encode(message, Order)
             /\ UNCHANGED <<message, sent_result, handed_over>>
    <3>1. unsent' \in Seq(Byte) /\ unsent' # << >>
      BY <2>1, <2>6 DEF CodecIsRight
    <3> QED BY <2>1, <2>3, <2>4, <2>6, <3>1 DEF Sound, TransferTypeOK, ControlInv, Byte
  <2>7. CASE /\ SendsAll(n) /\ spc = "body" /\ SendReturns(TotalSize)
             /\ handed_over' = IF broken \/ rpc = "gone" THEN handed_over
                               ELSE Append(handed_over, message)
    <3>1. TotalSize \in Int
      <4>1. PICK x \in Nat : x = Width + Len(Encode(message, Order))
        BY <2>1, FrameFacts
      <4> QED BY <4>1, MessagesAssumption DEF TotalSize, ToInt
    <3> QED BY <2>1, <2>3, <2>4, <2>7, <3>1
            DEF Sound, TransferTypeOK, ControlInv, SendReturns, Byte
  <2> QED BY <1>2, <2>5, <2>6, <2>7 DEF send_some
<1>3. CASE send_fails
  BY <1>3 DEF Sound, TransferTypeOK, ControlInv, send_fails, Breaks, SendReturns,
              receiverVars
<1>4. CASE sender_dies
  BY <1>4 DEF Sound, TransferTypeOK, ControlInv, sender_dies, receiverVars
<1> QED BY <1>1, <1>2, <1>3, <1>4 DEF SendSteps

-----------------------------------------------------------------------------
(* What the receiver has when a loop of wait_for_message ends.             *)

\* A turn of a loop takes n bytes: what there is now, and what is still on its way.
Taken(n, bytes, rest) ==
    /\ bytes = received \o SubSeq(wire, 1, n) /\ Len(bytes) = Len(received) + n
    /\ rest = SubSeq(wire, n + 1, Len(wire)) /\ Len(rest) = Len(wire) - n
    /\ bytes \o rest = received \o wire

\* Such a turn moves bytes and keeps their order.
LEMMA TakenFacts ==
    ASSUME Sound, NEW n \in 1..Len(wire)
    PROVE  \E bytes \in Seq(Byte), rest \in Seq(Byte) : Taken(n, bytes, rest)
<1>1. received \in Seq(Byte) /\ wire \in Seq(Byte) /\ n \in 0..Len(wire)
  BY DEF Sound, TransferTypeOK, Byte
<1>2. PICK p \in Seq(Byte), r \in Seq(Byte) :
        /\ p = SubSeq(wire, 1, n) /\ r = SubSeq(wire, n + 1, Len(wire))
        /\ Len(p) = n /\ Len(r) = Len(wire) - n
  <2>1. /\ SubSeq(wire, 1, n) \in Seq(Byte) /\ Len(SubSeq(wire, 1, n)) = n
        /\ SubSeq(wire, n + 1, Len(wire)) \in Seq(Byte)
        /\ Len(SubSeq(wire, n + 1, Len(wire))) = Len(wire) - n
    BY <1>1, Split
  <2> QED BY ONLY <2>1
<1>3. received \o p \in Seq(Byte) /\ Len(received \o p) = Len(received) + n
  BY <1>1, <1>2, Joined
<1>4. (received \o p) \o r = received \o wire
  BY <1>1, <1>2, Moved
<1>5. PICK bytes \in Seq(Byte) :
        /\ bytes = received \o p /\ Len(bytes) = Len(received) + n
        /\ bytes \o r = received \o wire
  BY ONLY <1>3, <1>4
<1>6. Taken(n, bytes, r)
  BY <1>2, <1>5 DEF Taken
<1> QED BY <1>6

\* A stream that begins with the frame of a message gives its length.
LEMMA LengthArrives ==
    ASSUME CodecIsRight, NEW S \in Seq(Byte), NEW head \in Seq(Byte), Len(head) = Width,
           NEW f \in Messages,
           \A i \in 1..Width : S[i] = head[i], \A i \in 1..Width : S[i] = Frame(f)[i]
    PROVE  size_read(head, Order) = Len(Encode(f, Order))
<1>1. \A i \in 1..Width : head[i] = Length(f)[i]
  BY FrameFacts
<1>2. head = Length(f)
  BY <1>1, FrameFacts, SameMembers
<1> QED BY <1>2 DEF CodecIsRight

\* A body that is complete is the one of the first message that was handed over.
LEMMA BodyArrives ==
    ASSUME CodecIsRight, TransferInv, ~broken, rpc = "body", NEW n \in 1..Len(wire),
           n = size - Len(received),
           NEW bytes \in Seq(Byte), NEW left \in Seq(Byte), Taken(n, bytes, left)
    PROVE  /\ handed_over # << >> /\ Head(handed_over) \in Messages
           /\ bytes = Encode(Head(handed_over), Order)
<1>1. /\ Sound /\ handed_over \in Seq(Messages) /\ size \in Nat
      /\ received \in Seq(Byte) /\ wire \in Seq(Byte)
  BY CodecAssumption, TransferAssumption
     DEF TransferInv, Sound, TransferTypeOK, Byte, Width
<1>2. PICK S \in Seq(Byte), k \in Nat :
        \E cut, m : /\ StreamIs(S) /\ Framed(cut, handed_over, S)
                    /\ Len(S) = cut[Len(handed_over)] + k /\ Begun(S, m, k)
  BY DEF TransferInv, StreamInv, StreamHas
<1>3. PICK cut, m : /\ StreamIs(S) /\ Framed(cut, handed_over, S)
                    /\ Len(S) = cut[Len(handed_over)] + k /\ Begun(S, m, k)
  BY <1>2
<1>4. PICK head \in Seq(Byte) :
        /\ Len(head) = Width /\ size = size_read(head, Order)
        /\ S = head \o (received \o wire)
  BY <1>3 DEF StreamIs
<1>5. PICK rest \in Seq(Byte) :
        /\ rest = received \o wire /\ Len(rest) = Len(received) + Len(wire)
  BY <1>1, Joined
<1>6. /\ Len(S) = Width + Len(rest) /\ \A i \in 1..Width : S[i] = head[i]
      /\ \A i \in 1..Len(rest) : S[Width + i] = rest[i]
  <2>1. /\ Len(head \o rest) = Len(head) + Len(rest)
        /\ \A i \in 1..Len(head) : (head \o rest)[i] = head[i]
        /\ \A i \in 1..Len(rest) : (head \o rest)[Len(head) + i] = rest[i]
    BY Joined
  <2>2. S = head \o rest /\ Len(head) = Width
    BY <1>4, <1>5
  <2> QED BY ONLY <2>1, <2>2
<1>7. Len(bytes) = size /\ \A i \in 1..size : bytes[i] = rest[i]
  <2>1. bytes \o left = rest /\ Len(bytes) = Len(received) + n
    BY <1>5 DEF Taken
  <2>2. Len(bytes) = size
    BY <1>1, <2>1
  <2>3. \A i \in 1..Len(bytes) : (bytes \o left)[i] = bytes[i]
    BY ONLY Joined, bytes \in Seq(Byte), left \in Seq(Byte)
  <2> QED BY ONLY <2>1, <2>2, <2>3
<1>8. Len(rest) >= size /\ size > 0 /\ Width \in Nat \ {0}
  <2>1. Len(received) \in Nat /\ Len(wire) \in Nat
    BY <1>1
  <2> QED BY <1>1, <1>5, <2>1, CodecAssumption DEF Width
<1>9. ASSUME NEW f \in Messages, \A i \in 1..Width : S[i] = Frame(f)[i]
      PROVE  size = Len(Encode(f, Order))
  BY <1>4, <1>6, <1>9, LengthArrives
<1>10. handed_over # << >>
  <2> SUFFICES ASSUME handed_over = << >> PROVE FALSE
    OBVIOUS
  <2>1. k = Len(S) /\ k \in Nat
    BY <1>3 DEF Framed
  <2>2. k > Width /\ k >= Width + size
    BY <1>1, <1>6, <1>8, <2>1
  <2>3. m \in Messages /\ k < Len(Frame(m)) /\ \A i \in 1..k : S[i] = Frame(m)[i]
    BY <1>3, <1>8, <2>1, <2>2 DEF Begun
  <2>4. size = Len(Encode(m, Order))
    BY <1>8, <1>9, <2>2, <2>3
  <2>5. Len(Frame(m)) = Width + size
    BY <2>3, <2>4, FrameFacts
  <2> QED BY <1>1, <1>8, <2>1, <2>2, <2>3, <2>5
<1>11. PICK f \in Messages : f = Head(handed_over) /\ f = handed_over[1]
  BY <1>1, <1>10, NotEmpty
<1>12. Len(Frame(f)) <= Len(S) /\ \A i \in 1..Len(Frame(f)) : S[i] = Frame(f)[i]
  <2>1. 1 \in 1..Len(handed_over)
    BY <1>1, <1>10, NotEmpty
  <2>2. /\ cut[0] = 0 /\ cut[1] = cut[1 - 1] + Len(Frame(f)) /\ cut[1] <= Len(S)
        /\ \A i \in 1..Len(Frame(f)) : S[cut[1 - 1] + i] = Frame(f)[i]
    BY <1>3, <1>11, <2>1 DEF Framed
  <2>3. Len(Frame(f)) \in Nat
    BY FrameLength
  <2> QED BY <2>2, <2>3
<1>13. size = Len(Encode(f, Order))
  BY <1>8, <1>9, <1>12, FrameFacts
<1>14. bytes = Encode(f, Order)
  <2>1. ASSUME NEW i \in 1..size PROVE bytes[i] = Encode(f, Order)[i]
    <3>1. i \in 1..Len(rest) /\ bytes[i] = rest[i]
      BY <1>1, <1>7, <1>8
    <3>2. S[Width + i] = bytes[i]
      BY <1>6, <3>1
    <3>3. Width + i \in 1..Len(Frame(f)) /\ Frame(f)[Width + i] = Encode(f, Order)[i]
      <4>1. i \in 1..Len(Encode(f, Order))
        BY <1>13
      <4>2. Frame(f)[Width + i] = Encode(f, Order)[i]
        BY <4>1, FrameFacts
      <4>3. Len(Frame(f)) = Width + size
        BY <1>13, FrameFacts
      <4> QED BY <1>1, <1>8, <4>2, <4>3
    <3>4. S[Width + i] = Frame(f)[Width + i]
      BY <1>12, <3>3
    <3> QED BY <3>2, <3>3, <3>4
  <2> QED BY <1>7, <1>13, <2>1, FrameFacts, SameMembers
<1> QED BY <1>10, <1>11, <1>14

\* The steps of wait_for_message: a loop ends when nothing is missing.
LEMMA ReceiverSound ==
    ASSUME CodecIsRight, TransferInv,
           ReceiveSteps \/ receive_fails \/ receiver_dies
    PROVE  Sound'
<1>1. /\ Sound /\ Width \in Nat \ {0} /\ received \in Seq(Byte) /\ wire \in Seq(Byte)
      /\ handed_over \in Seq(Messages) /\ Len(wire) \in Nat /\ Len(wire) <= WireCap
      /\ size \in Nat /\ Len(received) \in Nat
  BY CodecAssumption, TransferAssumption
     DEF TransferInv, Sound, TransferTypeOK, Byte, Width
<1>2. CASE wait_for_message
  BY <1>1, <1>2 DEF Sound, TransferTypeOK, ControlInv, wait_for_message, senderVars
<1>3. ASSUME ReceiverEnds, UNCHANGED <<senderVars, broken>> PROVE Sound'
  <2>1. Len(<< >>) = 0 /\ << >> \in Seq(Byte) /\ << >> \in Seq(Messages)
    OBVIOUS
  <2>2. WireCap >= 0 /\ MaxAlloc >= 0
    BY TransferAssumption
  <2> QED BY <1>1, <1>3, <2>1, <2>2, TransferAssumption
             DEF Sound, TransferTypeOK, ControlInv, ReceiverEnds, senderVars, Byte
<1>4. ASSUME NEW n \in 1..WireCap, receive_some(n) PROVE Sound'
  <2>1. n \in 1..Len(wire) /\ rpc \in {"size", "body"} /\ n <= size - Len(received)
    BY <1>4 DEF receive_some, StillMissing
  <2>2. PICK bytes \in Seq(Byte), rest \in Seq(Byte) : Taken(n, bytes, rest)
    BY <1>1, <2>1, TakenFacts
  <2>3. UNCHANGED <<senderVars, broken>>
    BY <1>4 DEF receive_some
  <2>4. CASE rpc' # "gone"
    <3>1. wire' \in Seq(Byte) /\ Len(wire') <= WireCap
      <4>1. wire' = rest /\ Len(rest) = Len(wire) - n
        BY <1>4, <2>2, <2>4 DEF receive_some, Taken
      <4> QED BY <1>1, <2>1, <4>1, TransferAssumption
    <3>2. CASE /\ n < StillMissing /\ received' = bytes
               /\ UNCHANGED <<rpc, size, got, handed_over>>
      <4>1. Len(bytes) = Len(received) + n
        BY <2>2 DEF Taken
      <4> QED BY <1>1, <2>1, <2>3, <3>1, <3>2, <4>1
              DEF Sound, TransferTypeOK, ControlInv, StillMissing, senderVars, Byte
    <3>3. CASE n = StillMissing /\ rpc = "size" /\ SizeReceived(bytes)
      <4>1. PICK k : k = size_read(bytes, Order)
        OBVIOUS
      <4>2. /\ k \in 1..MaxAlloc /\ rpc' = "body" /\ size' = k /\ received' = << >>
            /\ UNCHANGED <<got, handed_over>>
        BY <2>4, <3>3, <4>1 DEF SizeReceived, ReceiverEnds
      <4>3. Len(<< >>) = 0 /\ << >> \in Seq(Byte)
        OBVIOUS
      <4> QED BY <1>1, <2>1, <2>3, <3>1, <3>3, <4>2, <4>3, TransferAssumption
              DEF Sound, TransferTypeOK, ControlInv, senderVars, Byte
    <3>4. CASE n = StillMissing /\ rpc = "body" /\ BodyReceived(bytes)
      <4>1. /\ rpc' = "idle" /\ size' = 0 /\ received' = << >>
            /\ handed_over' = IF broken THEN handed_over ELSE Tail(handed_over)
        BY <2>4, <3>4 DEF BodyReceived, ReceiverEnds
      <4>2. handed_over' \in Seq(Messages) /\ (broken => handed_over' = << >>)
        <5>1. CASE broken
          BY <1>1, <4>1, <5>1 DEF Sound, TransferTypeOK
        <5>2. CASE ~broken
          <6>1. handed_over # << >>
            BY <2>1, <2>2, <3>4, <5>2, BodyArrives DEF StillMissing
          <6> QED BY <1>1, <4>1, <5>2, <6>1
        <5> QED BY <5>1, <5>2
      <4>3. << >> \in Seq(Byte)
        OBVIOUS
      <4> QED BY <1>1, <2>3, <3>1, <4>1, <4>2, <4>3, TransferAssumption
              DEF Sound, TransferTypeOK, ControlInv, senderVars, Byte
    <3> QED BY <1>4, <2>2, <3>2, <3>3, <3>4 DEF receive_some, Taken
  <2>5. CASE rpc' = "gone"
    <3>1. ReceiverEnds
      BY <1>4, <2>1, <2>5 DEF receive_some, SizeReceived, BodyReceived
    <3> QED BY <1>3, <2>3, <3>1
  <2> QED BY <2>4, <2>5
<1>5. CASE receive_fails
  BY <1>1, <1>5, TransferAssumption
     DEF Sound, TransferTypeOK, ControlInv, receive_fails, Breaks, senderVars
<1>6. CASE receiver_dies
  BY <1>3, <1>6 DEF receiver_dies
<1> QED BY <1>2, <1>4, <1>5, <1>6 DEF ReceiveSteps

-----------------------------------------------------------------------------
(* How the stream grows and shrinks.                                       *)

\* Bytes of a frame that follow those already there.
LEMMA Grown ==
    ASSUME NEW S \in Seq(Byte), NEW part \in Seq(Byte), NEW m, NEW n \in 0..Len(S),
           \A i \in 1..n : S[Len(S) - n + i] = Frame(m)[i],
           \A i \in 1..Len(part) : part[i] = Frame(m)[n + i]
    PROVE  \A i \in 1..(n + Len(part)) : (S \o part)[Len(S) - n + i] = Frame(m)[i]
<1>1. PICK T : T = S \o part
  OBVIOUS
<1>2. /\ \A i \in 1..Len(S) : T[i] = S[i]
      /\ \A i \in 1..Len(part) : T[Len(S) + i] = part[i]
  BY <1>1, Joined
<1>3. Len(S) \in Nat /\ Len(part) \in Nat
  OBVIOUS
<1>4. ASSUME NEW i \in 1..(n + Len(part)) PROVE T[Len(S) - n + i] = Frame(m)[i]
  <2>1. CASE i <= n
    <3>1. Len(S) - n + i \in 1..Len(S) /\ i \in 1..n
      BY <1>3, <2>1
    <3> QED BY <1>2, <3>1
  <2>2. CASE i > n
    <3>1. PICK j \in 1..Len(part) : i = n + j
      <4>1. i - n \in 1..Len(part) /\ i = n + (i - n)
        BY <1>3, <2>2
      <4> QED BY <4>1
    <3>2. Len(S) - n + i = Len(S) + j
      BY <1>3, <3>1
    <3> QED BY <1>2, <3>1, <3>2
  <2> QED BY <1>3, <2>1, <2>2
<1> QED BY <1>1, <1>4

\* What is sent comes behind what is on its way.
LEMMA StreamGrows ==
    ASSUME Sound, NEW S \in Seq(Byte), StreamIs(S), NEW part \in Seq(Byte),
           wire' = wire \o part, UNCHANGED receiverVars
    PROVE  StreamIs(S \o part)'
<1>1. received \in Seq(Byte) /\ wire \in Seq(Byte)
  BY DEF Sound, TransferTypeOK, Byte
<1>2. CASE rpc = "idle"
  BY <1>2 DEF StreamIs, receiverVars
<1>3. (received \o wire) \o part = received \o wire'
  BY <1>1, Associates, SMTT(30)
<1>4. CASE rpc = "size"
  BY <1>3, <1>4 DEF StreamIs, receiverVars
<1>5. CASE rpc = "body"
  <2>1. PICK head \in Seq(Byte) :
          /\ Len(head) = Width /\ size = size_read(head, Order)
          /\ S = head \o (received \o wire)
    BY <1>5 DEF StreamIs
  <2>2. PICK rest \in Seq(Byte) : rest = received \o wire
    BY <1>1, Joined
  <2>3. (head \o rest) \o part = head \o (rest \o part)
    BY Associates, SMTT(30)
  <2>4. S \o part = head \o (received \o wire')
    BY <1>3, <2>1, <2>2, <2>3
  <2> QED BY <1>5, <2>1, <2>4 DEF StreamIs, receiverVars
<1>6. rpc' = rpc
  BY DEF receiverVars
<1> QED BY <1>2, <1>4, <1>5, <1>6 DEF StreamIs

\* The frames of a queue stay where they are.
LEMMA FramesStay ==
    ASSUME NEW S \in Seq(Byte), NEW part \in Seq(Byte), NEW h \in Seq(Messages), NEW cut,
           CodecIsRight, Framed(cut, h, S)
    PROVE  Framed(cut, h, S \o part)
<1>1. PICK T : T = S \o part
  OBVIOUS
<1>2. /\ Len(T) = Len(S) + Len(part) /\ \A i \in 1..Len(S) : T[i] = S[i]
      /\ Len(S) \in Nat /\ Len(part) \in Nat /\ Len(h) \in Nat
  BY <1>1, Joined
<1>3. ASSUME NEW k \in 1..Len(h)
      PROVE  /\ cut[k] <= Len(T)
             /\ \A i \in 1..Len(Frame(h[k])) : T[cut[k - 1] + i] = Frame(h[k])[i]
  <2>1. /\ cut[k] = cut[k - 1] + Len(Frame(h[k])) /\ cut[k] <= Len(S)
        /\ \A i \in 1..Len(Frame(h[k])) : S[cut[k - 1] + i] = Frame(h[k])[i]
    BY DEF Framed
  <2>2. k - 1 \in 0..Len(h) /\ k \in 0..Len(h)
    BY <1>2
  <2>3. cut[k - 1] \in Nat /\ cut[k] \in Nat
    BY <2>2 DEF Framed
  <2>4. Len(Frame(h[k])) \in Nat
    <3>1. h[k] \in Messages
      OBVIOUS
    <3> QED BY <3>1, FrameLength
  <2>5. ASSUME NEW i \in 1..Len(Frame(h[k])) PROVE T[cut[k - 1] + i] = Frame(h[k])[i]
    <3>1. cut[k - 1] + i \in 1..Len(S)
      BY <1>2, <2>1, <2>3, <2>4, SMTT(20)
    <3> QED BY <1>2, <2>1, <3>1
  <2> QED BY <1>2, <2>1, <2>3, <2>5
<1>4. Framed(cut, h, T)
  BY <1>3 DEF Framed
<1> QED BY <1>1, <1>4

\* A frame that is complete joins those of the queue.
LEMMA FrameJoins ==
    ASSUME NEW S \in Seq(Byte), NEW h \in Seq(Messages), NEW cut, NEW f \in Messages,
           CodecIsRight, Framed(cut, h, S),
           Len(S) = cut[Len(h)] + Len(Frame(f)),
           \A i \in 1..Len(Frame(f)) : S[cut[Len(h)] + i] = Frame(f)[i]
    PROVE  \E cut2 : /\ Framed(cut2, Append(h, f), S)
                     /\ Len(S) = cut2[Len(Append(h, f))]
<1>1. PICK l \in Nat : l = Len(h)
  OBVIOUS
<1>2. PICK g \in Seq(Messages) :
        /\ g = Append(h, f) /\ Len(g) = l + 1 /\ g[l + 1] = f
        /\ \A k \in 1..l : g[k] = h[k]
  <2>1. /\ Append(h, f) \in Seq(Messages) /\ Len(Append(h, f)) = Len(h) + 1
        /\ Append(h, f)[Len(h) + 1] = f
        /\ \A k \in 1..Len(h) : Append(h, f)[k] = h[k]
    OBVIOUS
  <2> QED BY ONLY <1>1, <2>1
<1>3. PICK c : c = [k \in 0..(l + 1) |-> IF k = l + 1 THEN Len(S) ELSE cut[k]]
  OBVIOUS
<1>4. /\ \A k \in 0..l : c[k] = cut[k] /\ cut[k] \in Nat
      /\ c[l + 1] = Len(S) /\ Len(S) \in Nat
  <2>1. ASSUME NEW k \in 0..l PROVE c[k] = cut[k] /\ cut[k] \in Nat
    <3>1. k # l + 1 /\ k \in 0..(l + 1)
      BY <1>1
    <3>2. c[k] = cut[k]
      BY <1>3, <3>1
    <3> QED BY <1>1, <3>2 DEF Framed
  <2>2. l + 1 \in 0..(l + 1)
    OBVIOUS
  <2>3. c[l + 1] = Len(S) /\ Len(S) \in Nat
    BY <1>3, <2>2
  <2> QED BY <2>1, <2>3
<1>5. c \in [0..(l + 1) -> Nat]
  <2>1. ASSUME NEW k \in 0..(l + 1)
        PROVE  (IF k = l + 1 THEN Len(S) ELSE cut[k]) \in Nat
    BY <1>1, <1>4
  <2> QED BY <1>3, <2>1
<1>6. cut[l] <= Len(S) /\ Len(Frame(f)) \in Nat /\ cut[l] \in Nat /\ l \in 0..l
  <2>1. Len(Frame(f)) \in Nat
    BY FrameLength
  <2> QED BY <1>1, <1>4, <2>1
<1>7. \A j, k \in 0..(l + 1) : j <= k => c[j] <= c[k]
  <2>1. ASSUME NEW j \in 0..(l + 1), NEW k \in 0..(l + 1), j <= k PROVE c[j] <= c[k]
    <3>1. CASE k <= l
      <4>1. j \in 0..l /\ k \in 0..l
        BY <1>1, <2>1, <3>1
      <4>2. cut[j] <= cut[k]
        BY <1>1, <2>1, <4>1 DEF Framed
      <4> QED BY <1>4, <4>1, <4>2
    <3>2. CASE k = l + 1 /\ j <= l
      <4>1. j \in 0..l /\ cut[j] <= cut[l]
        BY <1>1, <1>6, <2>1, <3>2 DEF Framed
      <4> QED BY <1>4, <1>6, <3>2, <4>1
    <3>3. CASE k = l + 1 /\ j = l + 1
      BY <1>4, <3>3
    <3> QED BY <1>1, <2>1, <3>1, <3>2, <3>3
  <2> QED BY <2>1
<1>8. ASSUME NEW k \in 1..(l + 1)
      PROVE  /\ c[k] = c[k - 1] + Len(Frame(g[k])) /\ c[k] <= Len(S)
             /\ \A i \in 1..Len(Frame(g[k])) : S[c[k - 1] + i] = Frame(g[k])[i]
  <2>1. CASE k <= l
    <3>1. k \in 1..l /\ k \in 0..l /\ k - 1 \in 0..l /\ k \in 1..Len(h)
      BY <1>1, <2>1
    <3>2. c[k] = cut[k] /\ c[k - 1] = cut[k - 1] /\ g[k] = h[k]
      BY <1>2, <1>4, <3>1
    <3> QED BY <3>1, <3>2 DEF Framed
  <2>2. CASE k = l + 1
    <3>1. k - 1 = l /\ c[k - 1] = cut[l] /\ c[k] = Len(S) /\ g[k] = f
      BY <1>1, <1>2, <1>4, <1>6, <2>2
    <3> QED BY <1>1, <1>4, <1>6, <3>1
  <2> QED BY <1>1, <2>1, <2>2
<1>9. c[0] = 0
  <2>1. 0 \in 0..l /\ cut[0] = 0
    BY <1>1 DEF Framed
  <2> QED BY <1>4, <2>1
<1>10. Framed(c, g, S)
  BY <1>2, <1>5, <1>7, <1>8, <1>9 DEF Framed
<1> QED BY <1>2, <1>4, <1>10

\* T is what follows the first c members of S.
Behind(T, c, S) ==
    Len(S) = c + Len(T) /\ \A i \in 1..Len(T) : T[i] = S[c + i]

\* When the first frame has been taken, the others begin that much earlier.
LEMMA FrameLeaves ==
    ASSUME NEW S \in Seq(Byte), NEW h \in Seq(Messages), NEW cut, NEW T \in Seq(Byte),
           CodecIsRight, Framed(cut, h, S), h # << >>,
           Behind(T, cut[1], S)
    PROVE  \E cut2 : /\ Framed(cut2, Tail(h), T)
                     /\ cut2[Len(Tail(h))] = cut[Len(h)] - cut[1]
<1>1. PICK l \in Nat : Len(h) = l + 1
  <2>1. Len(h) \in Nat \ {0}
    BY NotEmpty
  <2>2. Len(h) - 1 \in Nat /\ Len(h) = (Len(h) - 1) + 1
    BY <2>1
  <2> QED BY <2>2
<1>2. PICK g \in Seq(Messages) :
        g = Tail(h) /\ Len(g) = l /\ \A k \in 1..l : g[k] = h[k + 1]
  <2>1. Tail(h) \in Seq(Messages) /\ Len(Tail(h)) = Len(h) - 1
    OBVIOUS
  <2>2. \A k \in 1..(Len(h) - 1) : Tail(h)[k] = h[k + 1]
    OBVIOUS
  <2>3. Len(h) - 1 = l
    BY <1>1
  <2> QED BY ONLY <2>1, <2>2, <2>3
<1>3. PICK c : c = [k \in 0..l |-> cut[k + 1] - cut[1]]
  OBVIOUS
<1>4. ASSUME NEW k \in 0..(l + 1) PROVE cut[k] \in Nat
  BY <1>1 DEF Framed
<1>5. ASSUME NEW k \in 0..l
      PROVE  /\ c[k] = cut[k + 1] - cut[1] /\ c[k] \in Nat /\ k + 1 \in 0..(l + 1)
             /\ cut[k + 1] \in Nat /\ cut[1] \in Nat
  <2>1. k + 1 \in 0..(l + 1) /\ 1 \in 0..(l + 1) /\ 1 <= k + 1
    BY <1>1
  <2>2. cut[1] <= cut[k + 1]
    BY <1>1, <2>1 DEF Framed
  <2>3. cut[1] \in Nat /\ cut[k + 1] \in Nat
    BY <1>4, <2>1
  <2>4. c[k] = cut[k + 1] - cut[1]
    BY <1>3
  <2> QED BY <2>1, <2>2, <2>3, <2>4
<1>6. c \in [0..l -> Nat]
  BY <1>3, <1>5
<1>7. \A j, k \in 0..l : j <= k => c[j] <= c[k]
  <2>1. ASSUME NEW j \in 0..l, NEW k \in 0..l, j <= k PROVE c[j] <= c[k]
    <3>1. j + 1 \in 0..(l + 1) /\ k + 1 \in 0..(l + 1) /\ j + 1 <= k + 1
      BY <2>1, <1>5
    <3>2. cut[j + 1] <= cut[k + 1]
      BY <1>1, <3>1 DEF Framed
    <3> QED BY <1>5, <3>2
  <2> QED BY <2>1
<1>8. ASSUME NEW k \in 1..l
      PROVE  /\ c[k] = c[k - 1] + Len(Frame(g[k])) /\ c[k] <= Len(T)
             /\ \A i \in 1..Len(Frame(g[k])) : T[c[k - 1] + i] = Frame(g[k])[i]
  <2>1. /\ k \in 0..l /\ k - 1 \in 0..l /\ (k - 1) + 1 = k /\ (k + 1) - 1 = k
        /\ k + 1 \in 1..Len(h)
    BY <1>1
  <2>2. /\ cut[k + 1] = cut[(k + 1) - 1] + Len(Frame(h[k + 1])) /\ cut[k + 1] <= Len(S)
        /\ \A i \in 1..Len(Frame(h[k + 1])) :
              S[cut[(k + 1) - 1] + i] = Frame(h[k + 1])[i]
    BY <2>1 DEF Framed
  <2>3. /\ c[k] = cut[k + 1] - cut[1] /\ cut[k + 1] \in Nat /\ cut[1] \in Nat
        /\ c[k - 1] = cut[k] - cut[1] /\ cut[k] \in Nat /\ c[k - 1] \in Nat
        /\ g[k] = h[k + 1]
    BY <1>2, <1>5, <2>1
  <2>4. PICK f \in Messages : f = h[k + 1] /\ f = g[k]
    BY <2>1, <2>3
  <2>5. PICK at \in Nat, was \in Nat, first \in Nat, length \in Nat, to \in Nat :
          /\ at = c[k - 1] /\ was = cut[k] /\ first = cut[1] /\ at = was - first
          /\ length = Len(Frame(f)) /\ to = cut[k + 1] /\ c[k] = to - first
    <3>1. Len(Frame(f)) \in Nat
      BY FrameLength
    <3> QED BY <2>3, <3>1
  <2>6. PICK long \in Nat : long = Len(T) /\ Len(S) = first + long
    BY <2>5 DEF Behind
  <2>7. to = was + length /\ to <= first + long /\ at = was - first
    BY <2>1, <2>2, <2>4, <2>5, <2>6
  <2>8. to - first = at + length /\ at + length <= long
    BY ONLY <2>7, at \in Nat, was \in Nat, first \in Nat, length \in Nat,
            to \in Nat, long \in Nat
  <2>9. c[k] = c[k - 1] + Len(Frame(g[k])) /\ c[k] <= Len(T)
    BY <2>4, <2>5, <2>6, <2>8
  <2>10. ASSUME NEW i \in 1..length PROVE T[at + i] = Frame(f)[i]
    <3>1. at + i \in 1..long /\ first + (at + i) = was + i
      BY ONLY <2>7, <2>8, at \in Nat, was \in Nat, first \in Nat, length \in Nat,
              long \in Nat, i \in 1..length
    <3>2. T[at + i] = S[first + (at + i)]
      BY <2>5, <2>6, <3>1 DEF Behind
    <3>3. S[was + i] = Frame(f)[i]
      BY <2>1, <2>2, <2>4, <2>5
    <3> QED BY <3>1, <3>2, <3>3
  <2> QED BY <2>4, <2>5, <2>9, <2>10
<1>9. c[0] = 0
  <2>1. 0 \in 0..l /\ cut[0 + 1] = cut[1]
    BY <1>1
  <2> QED BY <1>5, <2>1
<1>10. Framed(c, g, T)
  BY <1>2, <1>6, <1>7, <1>8, <1>9 DEF Framed
<1>11. c[l] = cut[l + 1] - cut[1]
  BY <1>5
<1> QED BY <1>1, <1>2, <1>10, <1>11

-----------------------------------------------------------------------------
(* The steps of the stream.                                                *)

\* A part that send(2) takes makes the stream longer by that part.
LEMMA PartSent ==
    ASSUME CodecIsRight, TransferInv, ~broken, rpc # "gone",
           NEW k \in 1..WireCap, send_some(k), NEW f \in Messages, f = message
    PROVE  \E S \in Seq(Byte), n \in Nat : \E cut :
              /\ StreamIs(S)' /\ Framed(cut, handed_over, S)
              /\ Len(S) = cut[Len(handed_over)] + n /\ n > 0
              /\ \A i \in 1..n : S[cut[Len(handed_over)] + i] = Frame(f)[i]
              /\ n + (Len(unsent) - k) = IF spc = "size" THEN Width ELSE Len(Frame(f))
              /\ ~SendsAll(k) => Ahead(f, n)'
<1>1. /\ Sound /\ handed_over \in Seq(Messages) /\ unsent \in Seq(Byte)
      /\ wire \in Seq(Byte) /\ k \in Nat \ {0} /\ spc \in {"size", "body"}
      /\ k \in 1..Len(unsent) /\ Len(unsent) \in Nat /\ Len(handed_over) \in Nat
  BY DEF TransferInv, Sound, TransferTypeOK, ControlInv, Byte, send_some
<1>2. PICK S \in Seq(Byte), n \in Nat : \E cut, m : StreamHas(S, n, cut, m)
  BY DEF TransferInv, StreamInv
<1>3. PICK cut, m : StreamHas(S, n, cut, m)
  BY <1>2
<1>4. /\ StreamIs(S) /\ Framed(cut, handed_over, S)
      /\ Len(S) = cut[Len(handed_over)] + n /\ Begun(S, m, n) /\ m = f
      /\ n + Len(unsent) = IF spc = "size" THEN Width ELSE Len(Frame(f))
      /\ \A i \in 1..Len(unsent) : unsent[i] = Frame(f)[n + i]
  BY <1>1, <1>3 DEF StreamHas, Ahead
<1>5. PICK part \in Seq(Byte), rest \in Seq(Byte) :
        /\ part = SubSeq(unsent, 1, k) /\ Len(part) = k
        /\ \A i \in 1..k : part[i] = unsent[i]
        /\ rest = SubSeq(unsent, k + 1, Len(unsent)) /\ Len(rest) = Len(unsent) - k
        /\ \A i \in 1..(Len(unsent) - k) : rest[i] = unsent[k + i]
  <2>1. /\ SubSeq(unsent, 1, k) \in Seq(Byte) /\ Len(SubSeq(unsent, 1, k)) = k
        /\ \A i \in 1..k : SubSeq(unsent, 1, k)[i] = unsent[i]
        /\ SubSeq(unsent, k + 1, Len(unsent)) \in Seq(Byte)
        /\ Len(SubSeq(unsent, k + 1, Len(unsent))) = Len(unsent) - k
        /\ \A i \in 1..(Len(unsent) - k) :
              SubSeq(unsent, k + 1, Len(unsent))[i] = unsent[k + i]
    BY <1>1, Split
  <2> QED BY ONLY <2>1
<1>6. PICK T \in Seq(Byte) : T = S \o part /\ Len(T) = Len(S) + k
  <2>1. S \o part \in Seq(Byte) /\ Len(S \o part) = Len(S) + Len(part)
    BY Joined
  <2> QED BY ONLY <1>5, <2>1
<1>7. StreamIs(T)'
  <2>1. wire' = wire \o part /\ UNCHANGED receiverVars
    BY <1>5 DEF send_some
  <2> QED BY <1>1, <1>4, <1>6, <2>1, StreamGrows
<1>8. Framed(cut, handed_over, T)
  BY <1>1, <1>4, <1>6, FramesStay
<1>9. PICK last \in Nat : last = cut[Len(handed_over)]
  <2>1. Len(handed_over) \in 0..Len(handed_over)
    BY <1>1
  <2> QED BY <1>4, <2>1 DEF Framed
<1>10. n \in 0..Len(S) /\ Len(S) - n = last /\ Len(S) \in Nat
  BY <1>4, <1>9
<1>11. \A i \in 1..n : S[Len(S) - n + i] = Frame(f)[i]
  BY <1>4 DEF Begun
<1>12. \A i \in 1..Len(part) : part[i] = Frame(f)[n + i]
  <2>1. ASSUME NEW i \in 1..k PROVE part[i] = Frame(f)[n + i]
    <3>1. i \in 1..Len(unsent)
      BY <1>1
    <3> QED BY <1>4, <1>5, <3>1
  <2> QED BY <1>5, <2>1
<1>13. \A i \in 1..(n + k) : T[last + i] = Frame(f)[i]
  <2>1. \A i \in 1..(n + Len(part)) : (S \o part)[Len(S) - n + i] = Frame(f)[i]
    BY ONLY <1>10, <1>11, <1>12, Grown, S \in Seq(Byte), part \in Seq(Byte), SMTT(20)
  <2> QED BY <1>5, <1>6, <1>10, <2>1
<1>14. n + k \in Nat /\ n + k > 0 /\ Len(T) = last + (n + k)
  <2>1. PICK l \in Nat : l = Len(S)
    BY <1>10
  <2>2. l - n = last /\ k \in Nat \ {0}
    BY <1>1, <1>10, <2>1
  <2>3. l + k = last + (n + k) /\ n + k \in Nat /\ n + k > 0
    BY ONLY <2>2, n \in Nat, l \in Nat
  <2> QED BY <1>6, <2>1, <2>3
<1>15. (n + k) + (Len(unsent) - k)
          = IF spc = "size" THEN Width ELSE Len(Frame(f))
  <2>1. (n + k) + (Len(unsent) - k) = n + Len(unsent)
    BY <1>1
  <2> QED BY <1>4, <2>1
<1>16. ASSUME ~SendsAll(k) PROVE Ahead(f, n + k)'
  <2>1. unsent' = rest /\ UNCHANGED <<spc, message>>
    BY <1>5, <1>16 DEF send_some
  <2>2. ASSUME NEW i \in 1..Len(rest) PROVE rest[i] = Frame(f)[(n + k) + i]
    <3>1. k + i \in 1..Len(unsent) /\ n + (k + i) = (n + k) + i
          /\ i \in 1..(Len(unsent) - k)
      BY <1>1, <1>5
    <3>2. unsent[k + i] = Frame(f)[n + (k + i)]
      BY <1>4, <3>1
    <3> QED BY <1>5, <3>1, <3>2
  <2> QED BY <1>1, <1>5, <1>15, <2>1, <2>2 DEF Ahead
<1> QED BY <1>7, <1>8, <1>9, <1>13, <1>14, <1>15, <1>16

\* The steps of send_message keep the stream.
LEMMA SenderStream ==
    ASSUME CodecIsRight, TransferInv,
           \/ \E m \in Messages : send_message(m)
           \/ SendSteps \/ send_fails \/ sender_dies
    PROVE  StreamInv'
<1> SUFFICES ASSUME ~broken', rpc' # "gone"
             PROVE  (\E S \in Seq(Byte), n \in Nat : \E cut, m : StreamHas(S, n, cut, m))'
  BY DEF StreamInv
<1>1. /\ UNCHANGED receiverVars /\ ~broken /\ rpc # "gone" /\ Sound
  <2>1. UNCHANGED receiverVars /\ (broken => broken')
    <3>1. CASE \E m \in Messages : send_message(m)
      BY <3>1 DEF send_message
    <3>2. CASE SendSteps
      BY <3>2 DEF SendSteps, send_some
    <3>3. CASE send_fails
      BY <3>3 DEF send_fails, Breaks
    <3>4. CASE sender_dies
      BY <3>4 DEF sender_dies
    <3> QED BY <3>1, <3>2, <3>3, <3>4
  <2>2. rpc' = rpc
    BY <2>1 DEF receiverVars
  <2> QED BY <2>1, <2>2 DEF TransferInv, Sound
<1>2. PICK S \in Seq(Byte), n \in Nat : \E cut, m : StreamHas(S, n, cut, m)
  BY <1>1 DEF TransferInv, StreamInv
<1>3. PICK cut, m : StreamHas(S, n, cut, m)
  BY <1>2
<1>4. ASSUME UNCHANGED <<wire, handed_over>>, NEW m2, Begun(S, m2, n), Ahead(m2, n)'
      PROVE  (\E S2 \in Seq(Byte), n2 \in Nat : \E cut2, m3 :
                 StreamHas(S2, n2, cut2, m3))'
  <2>1. StreamIs(S)'
    BY <1>1, <1>3, <1>4 DEF StreamHas, StreamIs, receiverVars
  <2>2. StreamHas(S, n, cut, m2)'
    BY <1>3, <1>4, <2>1 DEF StreamHas
  <2> QED BY <2>2
<1>5. ASSUME NEW msg \in Messages, send_message(msg)
      PROVE  (\E S2 \in Seq(Byte), n2 \in Nat : \E cut2, m3 :
                 StreamHas(S2, n2, cut2, m3))'
  <2>1. n = 0
    BY <1>3, <1>5 DEF StreamHas, Ahead, send_message
  <2>2. /\ unsent' = Length(msg) /\ spc' = "size" /\ message' = msg
        /\ UNCHANGED <<wire, handed_over>>
    BY <1>5 DEF send_message, Length
  <2>3. Len(unsent') = Width /\ Width \in Nat
        /\ \A i \in 1..Len(unsent') : unsent'[i] = Frame(msg)[i]
    BY <2>2, FrameFacts
  <2>4. \A i \in 1..Len(unsent') : 0 + i = i
    BY <2>3
  <2>5. Ahead(msg, n)' /\ Begun(S, msg, n)
    BY <2>1, <2>2, <2>3, <2>4 DEF Ahead, Begun
  <2> QED BY <1>4, <2>2, <2>5
<1>6. ASSUME NEW k \in 1..WireCap, send_some(k)
      PROVE  (\E S2 \in Seq(Byte), n2 \in Nat : \E cut2, m3 :
                 StreamHas(S2, n2, cut2, m3))'
  <2>0. PICK f \in Messages : f = message
    BY <1>1, <1>6 DEF Sound, ControlInv, send_some
  <2>1. PICK S2 \in Seq(Byte), n2 \in Nat : \E c :
              /\ StreamIs(S2)' /\ Framed(c, handed_over, S2)
              /\ Len(S2) = c[Len(handed_over)] + n2 /\ n2 > 0
              /\ \A i \in 1..n2 : S2[c[Len(handed_over)] + i] = Frame(f)[i]
              /\ n2 + (Len(unsent) - k)
                    = IF spc = "size" THEN Width ELSE Len(Frame(f))
              /\ ~SendsAll(k) => Ahead(f, n2)'
    BY <1>1, <1>6, <2>0, PartSent
  <2>2. PICK c :
              /\ StreamIs(S2)' /\ Framed(c, handed_over, S2)
              /\ Len(S2) = c[Len(handed_over)] + n2 /\ n2 > 0
              /\ \A i \in 1..n2 : S2[c[Len(handed_over)] + i] = Frame(f)[i]
              /\ n2 + (Len(unsent) - k)
                    = IF spc = "size" THEN Width ELSE Len(Frame(f))
              /\ ~SendsAll(k) => Ahead(f, n2)'
    BY <2>1
  <2>3. /\ handed_over \in Seq(Messages) /\ Len(unsent) \in Nat
        /\ spc \in {"size", "body"} /\ k \in 1..Len(unsent) /\ Len(S2) \in Nat
        /\ k \in Nat
    BY <1>1, <1>6 DEF Sound, TransferTypeOK, ControlInv, send_some
  <2>4. c[Len(handed_over)] \in Nat
    <3>1. Len(handed_over) \in 0..Len(handed_over)
      BY <2>3
    <3> QED BY <2>2, <3>1 DEF Framed
  <2>5. /\ Width \in Nat \ {0} /\ Len(Encode(f, Order)) \in Nat \ {0}
        /\ Len(Frame(f)) = Width + Len(Encode(f, Order))
    BY <2>3, FrameFacts
  <2>6. ASSUME n2 < Len(Frame(f)), UNCHANGED handed_over, Ahead(f, n2)'
        PROVE  StreamHas(S2, n2, c, f)'
    <3>1. Len(S2) - n2 = c[Len(handed_over)]
      BY <2>2, <2>3, <2>4
    <3>2. Begun(S2, f, n2)
      BY <2>2, <2>3, <2>6, <3>1 DEF Begun
    <3> QED BY <2>2, <2>6, <3>2 DEF StreamHas
  <2>7. CASE /\ ~SendsAll(k)
             /\ unsent' = SubSeq(unsent, k + 1, Len(unsent))
             /\ UNCHANGED <<spc, message, sent_result, handed_over>>
    <3>1. Len(unsent) - k > 0
      BY <2>3, <2>7 DEF SendsAll
    <3>2. n2 < Len(Frame(f))
      BY <2>2, <2>3, <2>5, <3>1
    <3> QED BY <2>2, <2>6, <2>7, <3>2
  <2>8. CASE /\ SendsAll(k) /\ spc = "size" /\ spc' = "body"
             /\ unsent' = Encode(message, Order)
             /\ UNCHANGED <<message, sent_result, handed_over>>
    <3>1. n2 = Width
      BY <2>2, <2>3, <2>5, <2>8 DEF SendsAll
    <3>2. \A i \in 1..Len(unsent') : unsent'[i] = Frame(f)[n2 + i]
      BY <2>0, <2>3, <2>8, <3>1, FrameFacts
    <3>3. Ahead(f, n2)' /\ n2 < Len(Frame(f))
      BY <2>0, <2>5, <2>8, <3>1, <3>2 DEF Ahead
    <3> QED BY <2>6, <2>8, <3>3
  <2>9. CASE /\ SendsAll(k) /\ spc = "body" /\ SendReturns(TotalSize)
             /\ handed_over' = IF broken \/ rpc = "gone" THEN handed_over
                               ELSE Append(handed_over, message)
    <3>1. n2 = Len(Frame(f))
      BY <2>2, <2>3, <2>5, <2>9 DEF SendsAll
    <3>2. PICK c2 : /\ Framed(c2, Append(handed_over, f), S2)
                    /\ Len(S2) = c2[Len(Append(handed_over, f))]
      BY <2>2, <2>3, <3>1, FrameJoins
    <3>3. handed_over' = Append(handed_over, f) /\ spc' = "idle"
      BY <1>1, <2>0, <2>9 DEF SendReturns
    <3>4. Begun(S2, f, 0) /\ Ahead(f, 0)'
      BY <3>3 DEF Begun, Ahead
    <3>5. Len(S2) = c2[Len(handed_over')] + 0
      BY <2>3, <3>2, <3>3
    <3>6. StreamHas(S2, 0, c2, f)'
      BY <2>2, <3>2, <3>3, <3>4, <3>5 DEF StreamHas
    <3> QED BY <3>6
  <2> QED BY <1>6, <2>6, <2>7, <2>8, <2>9 DEF send_some
<1>7. CASE send_fails
  <2>1. /\ ~InsideFrame /\ spc \in {"size", "body"} /\ spc' = "idle"
        /\ UNCHANGED <<wire, handed_over>>
    BY <1>7 DEF send_fails, Breaks, SendReturns
  <2>2. n + Len(unsent) = Width /\ ~(Len(unsent) < Width) /\ Len(unsent) \in Nat
    BY <1>1, <1>3, <2>1 DEF StreamHas, Ahead, InsideFrame, Sound, TransferTypeOK
  <2>3. n = 0
    BY <2>2, CodecAssumption DEF Width
  <2>4. Begun(S, m, n) /\ Ahead(m, n)'
    BY <1>3, <2>1, <2>3 DEF StreamHas, Ahead
  <2> QED BY <1>4, <2>1, <2>4
<1>8. CASE sender_dies
  <2>1. Begun(S, m, n) /\ Ahead(m, n)' /\ UNCHANGED <<wire, handed_over>>
    BY <1>3, <1>8 DEF StreamHas, Ahead, sender_dies
  <2> QED BY <1>4, <2>1
<1> QED BY <1>5, <1>6, <1>7, <1>8 DEF SendSteps

\* A body that is complete leaves the stream with its frame.
LEMMA BodyTaken ==
    ASSUME CodecIsRight, TransferInv, ~broken, rpc = "body", NEW k \in 1..Len(wire),
           k = size - Len(received),
           NEW bytes \in Seq(Byte), NEW T \in Seq(Byte), Taken(k, bytes, T)
    PROVE  \E n \in Nat : \E cut, m :
              /\ Framed(cut, Tail(handed_over), T)
              /\ Len(T) = cut[Len(Tail(handed_over))] + n
              /\ Begun(T, m, n) /\ Ahead(m, n)
<1>1. /\ Sound /\ handed_over \in Seq(Messages) /\ received \in Seq(Byte)
      /\ wire \in Seq(Byte)
  BY DEF TransferInv, Sound, TransferTypeOK, Byte
<1>2. PICK S \in Seq(Byte), n \in Nat : \E cut, m : StreamHas(S, n, cut, m)
  BY DEF TransferInv, StreamInv
<1>3. PICK cut, m : StreamHas(S, n, cut, m)
  BY <1>2
<1>4. /\ Framed(cut, handed_over, S) /\ Len(S) = cut[Len(handed_over)] + n
      /\ Begun(S, m, n) /\ Ahead(m, n)
  BY <1>3 DEF StreamHas
<1>5. PICK head \in Seq(Byte) :
        Len(head) = Width /\ S = head \o (received \o wire)
  BY <1>3 DEF StreamHas, StreamIs
<1>6. PICK f \in Messages :
        /\ f = Head(handed_over) /\ handed_over # << >>
        /\ Len(bytes) = Len(Encode(f, Order))
  BY BodyArrives
<1>7. bytes \o T = received \o wire
  BY DEF Taken
<1>8. PICK front \in Seq(Byte) :
        /\ front \o T = S /\ Len(front) = Width + Len(Encode(f, Order))
  <2>1. /\ head \o bytes \in Seq(Byte) /\ Len(head \o bytes) = Len(head) + Len(bytes)
    BY Joined
  <2>2. (head \o bytes) \o T = head \o (bytes \o T)
    BY ONLY Associates, head \in Seq(Byte), bytes \in Seq(Byte), T \in Seq(Byte), SMTT(30)
  <2> QED BY <1>5, <1>6, <1>7, <2>1, <2>2
<1>9. PICK first \in Nat : first = cut[1] /\ first = Len(front)
  <2>1. 1 \in 1..Len(handed_over) /\ f = handed_over[1]
    BY <1>1, <1>6, NotEmpty
  <2>2. cut[0] = 0 /\ cut[1] = cut[0] + Len(Frame(f)) /\ cut[1] \in Nat
    <3>1. 1 \in 0..Len(handed_over)
      BY <2>1
    <3>2. cut[0] = 0 /\ cut[1] \in Nat
      BY <1>4, <3>1 DEF Framed
    <3>3. cut[1] = cut[1 - 1] + Len(Frame(handed_over[1]))
      BY <1>4, <2>1 DEF Framed
    <3>4. 1 - 1 = 0
      OBVIOUS
    <3> QED BY <2>1, <3>2, <3>3, <3>4
  <2>3. Len(Frame(f)) = Len(front) /\ Len(front) \in Nat
    BY <1>8, FrameFacts
  <2> QED BY <2>2, <2>3
<1>10. /\ Len(S) = first + Len(T) /\ \A i \in 1..Len(T) : T[i] = S[first + i]
  <2>1. /\ Len(front \o T) = Len(front) + Len(T)
        /\ \A i \in 1..Len(T) : (front \o T)[Len(front) + i] = T[i]
    BY ONLY Joined, front \in Seq(Byte), T \in Seq(Byte)
  <2> QED BY ONLY <1>8, <1>9, <2>1
<1>11. PICK cut2 : /\ Framed(cut2, Tail(handed_over), T)
                   /\ cut2[Len(Tail(handed_over))] = cut[Len(handed_over)] - cut[1]
  <2>1. Behind(T, cut[1], S)
    BY <1>9, <1>10 DEF Behind
  <2> QED BY ONLY <1>1, <1>4, <1>6, <2>1, FrameLeaves, CodecIsRight, S \in Seq(Byte),
                  T \in Seq(Byte)
<1>12. PICK last \in Nat, left \in Nat, long \in Nat :
         /\ last = cut[Len(handed_over)] /\ left = last - first
         /\ long = Len(T) /\ long = left + n /\ left = cut2[Len(Tail(handed_over))]
  <2>1. /\ Len(handed_over) \in 0..Len(handed_over) /\ 1 \in 0..Len(handed_over)
        /\ 1 <= Len(handed_over)
    <3>1. Len(handed_over) \in Nat \ {0}
      BY <1>1, <1>6, NotEmpty
    <3> QED BY <3>1
  <2>2. cut[Len(handed_over)] \in Nat /\ first <= cut[Len(handed_over)]
    BY <1>4, <1>9, <2>1 DEF Framed
  <2>3. PICK last \in Nat : last = cut[Len(handed_over)]
    BY <2>2
  <2>4. PICK long \in Nat : long = Len(T)
    OBVIOUS
  <2>5. last + n = first + long /\ first <= last
    BY <1>4, <1>10, <2>2, <2>3, <2>4
  <2>6. last - first \in Nat /\ long = (last - first) + n
    BY ONLY <2>5, first \in Nat, last \in Nat, long \in Nat, n \in Nat
  <2> QED BY <1>9, <1>11, <2>3, <2>4, <2>6
<1>13. Begun(T, m, n)
  <2> SUFFICES ASSUME n > 0
               PROVE  /\ m \in Messages /\ n < Len(Frame(m))
                      /\ \A i \in 1..n : T[Len(T) - n + i] = Frame(m)[i]
    BY DEF Begun
  <2>1. /\ m \in Messages /\ n < Len(Frame(m))
        /\ \A i \in 1..n : S[Len(S) - n + i] = Frame(m)[i]
    BY <1>4 DEF Begun
  <2> long = left + n
    BY <1>12
  <2>2. ASSUME NEW i \in 1..n PROVE T[Len(T) - n + i] = Frame(m)[i]
    <3>1. left + i \in 1..long
      BY ONLY long = left + n, left \in Nat, n \in Nat, i \in 1..n
    <3>2. PICK j \in 1..Len(T) : j = left + i
      BY <1>12, <3>1
    <3>3. long - n + i = j /\ (first + long) - n + i = first + j
      BY ONLY <3>2, long = left + n, left \in Nat, n \in Nat, i \in 1..n, first \in Nat
    <3>4. Len(T) - n + i = j /\ Len(S) - n + i = first + j
      BY <1>10, <1>12, <3>3
    <3> QED BY <1>10, <2>1, <3>2, <3>4
  <2> QED BY <2>1, <2>2
<1> QED BY <1>4, <1>11, <1>12, <1>13

\* The steps of wait_for_message keep the stream.
LEMMA ReceiverStream ==
    ASSUME CodecIsRight, TransferInv,
           ReceiveSteps \/ receive_fails \/ receiver_dies
    PROVE  StreamInv'
<1> SUFFICES ASSUME ~broken', rpc' # "gone"
             PROVE  (\E S \in Seq(Byte), n \in Nat : \E cut, m : StreamHas(S, n, cut, m))'
  BY DEF StreamInv
<1>1. /\ UNCHANGED senderVars /\ ~broken /\ rpc # "gone" /\ Sound
      /\ received \in Seq(Byte) /\ wire \in Seq(Byte)
  <2>1. CASE wait_for_message
    BY <2>1 DEF wait_for_message, TransferInv, Sound, TransferTypeOK, Byte
  <2>2. CASE \E k \in 1..WireCap : receive_some(k)
    BY <2>2 DEF receive_some, TransferInv, Sound, TransferTypeOK, Byte
  <2>3. CASE receive_fails
    BY <2>3 DEF receive_fails, Breaks, TransferInv, Sound, TransferTypeOK, Byte
  <2>4. CASE receiver_dies
    BY <2>4 DEF receiver_dies, ReceiverEnds
  <2> QED BY <2>1, <2>2, <2>3, <2>4 DEF ReceiveSteps
<1>2. PICK S \in Seq(Byte), n \in Nat : \E cut, m : StreamHas(S, n, cut, m)
  BY <1>1 DEF TransferInv, StreamInv
<1>3. PICK cut, m : StreamHas(S, n, cut, m)
  BY <1>2
<1>4. ASSUME UNCHANGED handed_over, StreamIs(S)'
      PROVE  (\E S2 \in Seq(Byte), n2 \in Nat : \E cut2, m3 :
                 StreamHas(S2, n2, cut2, m3))'
  <2>1. Ahead(m, n)'
    BY <1>1, <1>3 DEF StreamHas, Ahead, senderVars
  <2>2. StreamHas(S, n, cut, m)'
    BY <1>3, <1>4, <2>1 DEF StreamHas
  <2> QED BY <2>2
<1>5. \A q \in Seq(Byte) : << >> \o q = q
  OBVIOUS
<1>6. CASE wait_for_message
  <2>1. S = wire /\ << >> \o wire = wire
    BY <1>1, <1>3, <1>5, <1>6 DEF StreamHas, StreamIs, wait_for_message
  <2>2. /\ rpc' = "size" /\ received' = << >> /\ wire' = wire
        /\ UNCHANGED handed_over
    BY <1>6 DEF wait_for_message
  <2>3. S = received' \o wire'
    BY <2>1, <2>2
  <2> QED BY <1>4, <2>2, <2>3 DEF StreamIs
<1>7. ASSUME NEW k \in 1..WireCap, receive_some(k)
      PROVE  (\E S2 \in Seq(Byte), n2 \in Nat : \E cut2, m3 :
                 StreamHas(S2, n2, cut2, m3))'
  <2>1. /\ k \in 1..Len(wire) /\ rpc \in {"size", "body"}
        /\ wire' = SubSeq(wire, k + 1, Len(wire))
    BY <1>7 DEF receive_some
  <2>2. PICK bytes \in Seq(Byte), T \in Seq(Byte) : Taken(k, bytes, T)
    BY <1>1, <2>1, TakenFacts
  <2>3. /\ wire' = T /\ bytes \o T = received \o wire
        /\ Len(bytes) = Len(received) + k
    BY <2>1, <2>2 DEF Taken
  <2>4. CASE /\ k < StillMissing /\ received' = bytes
             /\ UNCHANGED <<rpc, size, got, handed_over>>
    <3>1. received' \o wire' = received \o wire
      BY <2>4, <2>3
    <3>2. StreamIs(S)'
      BY <1>3, <2>1, <2>4, <3>1 DEF StreamHas, StreamIs
    <3> QED BY <1>4, <2>4, <3>2
  <2>5. CASE k = StillMissing /\ rpc = "size" /\ SizeReceived(bytes)
    <3>1. PICK new : new = size_read(bytes, Order)
      OBVIOUS
    <3>2. /\ rpc' = "body" /\ size' = new /\ received' = << >>
          /\ UNCHANGED <<got, handed_over>>
      BY <2>5, <3>1 DEF SizeReceived, ReceiverEnds
    <3>3. Len(bytes) = Width
      <4>1. size = Width /\ Width \in Nat /\ Len(received) \in Nat
        BY <1>1, <2>5, CodecAssumption DEF Sound, ControlInv, Width
      <4>2. k = Width - Len(received)
        BY <2>5, <4>1 DEF StillMissing
      <4> QED BY <2>3, <4>1, <4>2
    <3>4. S = bytes \o (<< >> \o T)
      BY <1>3, <1>5, <2>5, <2>3 DEF StreamHas, StreamIs
    <3>5. S = bytes \o (received' \o wire')
      BY <2>3, <3>2, <3>4
    <3>6. StreamIs(S)'
      BY <3>1, <3>2, <3>3, <3>5 DEF StreamIs
    <3> QED BY <1>4, <3>2, <3>6
  <2>6. CASE k = StillMissing /\ rpc = "body" /\ BodyReceived(bytes)
    <3>1. /\ rpc' = "idle"
          /\ handed_over' = Tail(handed_over)
      BY <1>1, <2>6 DEF BodyReceived, ReceiverEnds
    <3>2. PICK n2 \in Nat : \E cut2, m2 :
              /\ Framed(cut2, Tail(handed_over), T)
              /\ Len(T) = cut2[Len(Tail(handed_over))] + n2
              /\ Begun(T, m2, n2) /\ Ahead(m2, n2)
      BY <1>1, <2>1, <2>2, <2>6, BodyTaken DEF StillMissing
    <3>3. PICK cut2, m2 :
              /\ Framed(cut2, Tail(handed_over), T)
              /\ Len(T) = cut2[Len(Tail(handed_over))] + n2
              /\ Begun(T, m2, n2) /\ Ahead(m2, n2)
      BY <3>2
    <3>4. Ahead(m2, n2)'
      BY <1>1, <3>3 DEF Ahead, senderVars
    <3>5. StreamIs(T)'
      BY <2>3, <3>1 DEF StreamIs
    <3>6. StreamHas(T, n2, cut2, m2)'
      BY <3>1, <3>3, <3>4, <3>5 DEF StreamHas
    <3> QED BY <3>6
  <2> QED BY <1>7, <2>2, <2>4, <2>5, <2>6 DEF receive_some, Taken
<1>8. CASE receive_fails
  <2>1. /\ rpc = "size" /\ received = << >> /\ wire = << >> /\ rpc' = "idle"
        /\ UNCHANGED <<wire, handed_over>>
    BY <1>8 DEF receive_fails, Breaks
  <2>2. S = wire'
    BY <1>1, <1>3, <1>5, <2>1 DEF StreamHas, StreamIs
  <2> QED BY <1>4, <2>1, <2>2 DEF StreamIs
<1>9. CASE receiver_dies
  BY <1>9 DEF receiver_dies, ReceiverEnds
<1> QED BY <1>6, <1>7, <1>8, <1>9 DEF ReceiveSteps

-----------------------------------------------------------------------------
(* The invariant, and the channel.                                         *)

\* Nothing is on its way at the start.
LEMMA TransferBegins ==
    ASSUME TransferInit
    PROVE  TransferInv
<1>1. << >> \in Seq(Byte) /\ Len(<< >>) = 0 /\ << >> \in Seq(Messages)
  OBVIOUS
<1>2. 0 \in 0..MaxAlloc /\ 0 <= WireCap
  BY TransferAssumption
<1>3. TransferTypeOK /\ ControlInv
  <2>1. TransferTypeOK
    <3>1. /\ unsent \in Seq(Byte) /\ wire \in Seq(Byte) /\ received \in Seq(Byte)
          /\ Len(wire) <= WireCap /\ handed_over \in Seq(Messages)
          /\ size \in {Width} \cup 0..MaxAlloc
      BY <1>1, <1>2 DEF TransferInit
    <3>2. /\ spc = "idle" /\ rpc = "idle" /\ message = None /\ sent_result \in Int
          /\ broken = FALSE
      BY DEF TransferInit
    <3> QED BY <3>1, <3>2 DEF TransferTypeOK, Byte
  <2>2. ControlInv
    BY DEF TransferInit, ControlInv
  <2> QED BY <2>1, <2>2
<1>4. PICK cut : cut = [k \in 0..0 |-> 0]
  OBVIOUS
<1>5. Framed(cut, << >>, << >>) /\ cut[0] = 0
  BY <1>4 DEF Framed
<1>6. StreamHas(<< >>, 0, cut, None)
  BY <1>1, <1>5 DEF TransferInit, StreamHas, StreamIs, Begun, Ahead
<1>7. StreamInv
  BY <1>1, <1>6 DEF StreamInv
<1> QED BY <1>3, <1>7 DEF TransferInv

\* The inductive invariant holds in every state.
LEMMA TransferInvHolds ==
    ASSUME CodecIsRight
    PROVE  TransferSpec => []TransferInv
<1>1. TransferInit => TransferInv
  BY TransferBegins
<1>2. TransferInv /\ [TransferNext]_transferVars => TransferInv'
  <2> SUFFICES ASSUME TransferInv, [TransferNext]_transferVars PROVE TransferInv'
    OBVIOUS
  <2>1. Sound
    BY DEF TransferInv, Sound
  <2>2. CASE \/ \E m \in Messages : send_message(m)
             \/ SendSteps \/ send_fails \/ sender_dies
    <3>1. Sound'
      BY <2>1, <2>2, SenderSound
    <3>2. StreamInv'
      BY <2>2, SenderStream
    <3> QED BY <3>1, <3>2 DEF TransferInv, Sound
  <2>3. CASE ReceiveSteps \/ receive_fails \/ receiver_dies
    <3>1. Sound'
      BY <2>3, ReceiverSound
    <3>2. StreamInv'
      BY <2>3, ReceiverStream
    <3> QED BY <3>1, <3>2 DEF TransferInv, Sound
  <2>4. CASE UNCHANGED transferVars
    <3>1. TransferTypeOK' /\ ControlInv'
      BY <2>4 DEF transferVars, TransferInv, TransferTypeOK, ControlInv
    <3>2. StreamInv'
      <4> SUFFICES ASSUME ~broken', rpc' # "gone"
                   PROVE  (\E S \in Seq(Byte), n \in Nat : \E cut, m :
                              StreamHas(S, n, cut, m))'
        BY DEF StreamInv
      <4>1. PICK S \in Seq(Byte), n \in Nat : \E cut, m : StreamHas(S, n, cut, m)
        BY <2>4 DEF transferVars, TransferInv, StreamInv
      <4>2. PICK cut, m : StreamHas(S, n, cut, m)
        BY <4>1
      <4>3. StreamIs(S)' /\ Ahead(m, n)'
        BY <2>4, <4>2 DEF transferVars, StreamHas, StreamIs, Ahead
      <4>4. StreamHas(S, n, cut, m)'
        BY <2>4, <4>2, <4>3 DEF transferVars, StreamHas
      <4> QED BY <4>4
    <3> QED BY <3>1, <3>2 DEF TransferInv
  <2> QED BY <2>2, <2>3, <2>4 DEF TransferNext
<1> QED BY <1>1, <1>2, PTL DEF TransferSpec

\* The variables of both ends keep their types: what is sent and received are
\* bytes, no more than TCP takes are on their way, no buffer is longer than
\* operator new gives, and nothing is expected once a frame is broken
\* (send_message, wait_for_message).
THEOREM TransferTypesHold ==
    ASSUME CodecIsRight
    PROVE  TransferSpec => []TransferTypeOK
<1>1. TransferInv => TransferTypeOK
  BY DEF TransferInv
<1> QED BY <1>1, TransferInvHolds, PTL

\* A message and the length before it are counted by an int: send_message and
\* wait_for_message return the sum as one (NFSCommunication.cpp:130).
TotalsFit == \A m \in Messages : Width + Len(Encode(m, Order)) <= IntMax

\* What send_message and wait_for_message return for a whole message is above 0.
LEMMA TotalIsPositive ==
    ASSUME CodecIsRight, TotalsFit, NEW m \in Messages
    PROVE  ToInt(Width + Len(Encode(m, Order))) > 0
<1>1. PICK x \in Nat : x = Width + Len(Encode(m, Order)) /\ x > 0
  BY FrameFacts
<1>2. x \in 0..IntMax
  BY <1>1, MessagesAssumption DEF TotalsFit
<1> QED BY <1>1, <1>2, TotalFits

\* The steps of send_message are those of a channel: the last one hands the
\* message over and reports it.
LEMMA SenderImplements ==
    ASSUME CodecIsRight, TotalsFit, TransferInv,
           \/ \E m \in Messages : send_message(m)
           \/ SendSteps \/ send_fails \/ sender_dies
    PROVE  Channel!ChannelNext \/ UNCHANGED Channel!channelVars
<1>1. Sound
  BY DEF TransferInv, Sound
<1>2. CASE \E m \in Messages : send_message(m)
  <2>1. Channel!PutFails
    BY <1>2 DEF send_message, receiverVars, Channel!PutFails
  <2> QED BY <2>1 DEF Channel!ChannelNext
<1>3. ASSUME NEW n \in 1..WireCap, send_some(n)
      PROVE  Channel!ChannelNext \/ UNCHANGED Channel!channelVars
  <2>1. UNCHANGED <<got, broken, rpc>> /\ message \in Messages
    BY <1>1, <1>3 DEF send_some, receiverVars, Sound, ControlInv
  <2>2. CASE UNCHANGED <<sent_result, handed_over>>
    BY <2>1, <2>2 DEF Channel!channelVars
  <2>3. CASE /\ SendsAll(n) /\ spc = "body" /\ SendReturns(TotalSize)
             /\ handed_over' = IF broken \/ rpc = "gone" THEN handed_over
                               ELSE Append(handed_over, message)
    <3>1. sent_result' > 0
      BY <2>1, <2>3, TotalIsPositive DEF SendReturns, TotalSize
    <3>2. CASE broken
      <4>1. Channel!Garbage
        BY <2>1, <2>3, <3>2 DEF Channel!Garbage
      <4> QED BY <4>1 DEF Channel!ChannelNext
    <3>3. CASE ~broken /\ rpc = "gone"
      <4>1. Channel!Lose
        BY <1>1, <2>1, <2>3, <3>1, <3>3 DEF Sound, ControlInv, Channel!Lose
      <4> QED BY <4>1 DEF Channel!ChannelNext
    <3>4. CASE ~broken /\ rpc # "gone"
      <4>1. Channel!Put(message)
        BY <2>1, <2>3, <3>1, <3>4 DEF Channel!Put
      <4> QED BY <2>1, <4>1 DEF Channel!ChannelNext
    <3> QED BY <3>2, <3>3, <3>4
  <2> QED BY <1>3, <2>2, <2>3 DEF send_some
<1>4. CASE send_fails
  <2>1. sent_result' = -1 /\ UNCHANGED got /\ Breaks(InsideFrame)
    BY <1>4 DEF send_fails, SendReturns, receiverVars
  <2>2. ~(sent_result' > 0)
    BY <2>1
  <2>3. CASE InsideFrame
    <3>1. broken' /\ handed_over' = << >> /\ got' = got
      BY <2>1, <2>3 DEF Breaks
    <3>2. (sent_result' > 0) = FALSE
      BY <2>2
    <3>3. Channel!Break
      BY <3>1, <3>2, Zenon DEF Channel!Break
    <3> QED BY <3>3 DEF Channel!ChannelNext
  <2>4. CASE ~InsideFrame
    <3>1. broken' = broken /\ handed_over' = handed_over
      BY <1>1, <2>1, <2>4 DEF Breaks, Sound, TransferTypeOK
    <3>2. Channel!PutFails
      BY <2>1, <2>2, <3>1 DEF Channel!PutFails
    <3> QED BY <3>2 DEF Channel!ChannelNext
  <2> QED BY <2>3, <2>4
<1>5. CASE sender_dies
  BY <1>5 DEF sender_dies, receiverVars, Channel!channelVars
<1> QED BY <1>2, <1>3, <1>4, <1>5 DEF SendSteps

\* The steps of wait_for_message are those of a channel: the last one takes the
\* first message of the queue.
LEMMA ReceiverImplements ==
    ASSUME CodecIsRight, TotalsFit, TransferInv,
           ReceiveSteps \/ receive_fails \/ receiver_dies
    PROVE  Channel!ChannelNext \/ UNCHANGED Channel!channelVars
<1>1. Sound /\ received \in Seq(Byte) /\ wire \in Seq(Byte)
  BY DEF TransferInv, Sound, TransferTypeOK, Byte
<1>2. CASE wait_for_message
  <2>1. Channel!Forget
    BY <1>2 DEF wait_for_message, senderVars, Channel!Forget
  <2> QED BY <2>1 DEF Channel!ChannelNext
<1>3. ASSUME ReceiverEnds, UNCHANGED <<senderVars, broken>>
      PROVE  Channel!ChannelNext
  <2>1. Channel!Stop
    BY <1>3 DEF ReceiverEnds, senderVars, Channel!Stop
  <2> QED BY <2>1 DEF Channel!ChannelNext
<1>4. ASSUME NEW n \in 1..WireCap, receive_some(n)
      PROVE  Channel!ChannelNext \/ UNCHANGED Channel!channelVars
  <2>1. UNCHANGED <<senderVars, broken>> /\ n \in 1..Len(wire)
    BY <1>4 DEF receive_some
  <2>2. sent_result' = sent_result /\ broken' = broken
    BY <2>1 DEF senderVars
  <2>3. PICK bytes \in Seq(Byte), rest \in Seq(Byte) : Taken(n, bytes, rest)
    BY <1>1, <2>1, TakenFacts
  <2>4. CASE /\ n < StillMissing /\ received' = bytes
             /\ UNCHANGED <<rpc, size, got, handed_over>>
    BY <2>2, <2>4 DEF Channel!channelVars
  <2>5. CASE n = StillMissing /\ rpc = "size" /\ SizeReceived(bytes)
    <3>1. ReceiverEnds \/ UNCHANGED <<got, handed_over>>
      BY <2>5 DEF SizeReceived
    <3> QED BY <1>3, <2>1, <2>2, <3>1 DEF Channel!channelVars
  <2>6. CASE n = StillMissing /\ rpc = "body" /\ BodyReceived(bytes) /\ ~ReceiverEnds
    <3>1. /\ got' = IF ToInt(Width + Len(bytes)) > 0 THEN Decode(bytes, Order) ELSE None
          /\ handed_over' = IF broken THEN handed_over ELSE Tail(handed_over)
      BY <2>6 DEF BodyReceived
    <3>2. CASE broken
      <4>1. Channel!Garbage
        BY <2>2, <3>1, <3>2 DEF Channel!Garbage
      <4> QED BY <4>1 DEF Channel!ChannelNext
    <3>3. CASE ~broken
      <4>1. PICK f \in Messages :
              /\ f = Head(handed_over) /\ handed_over # << >> /\ bytes = Encode(f, Order)
        BY <2>1, <2>3, <2>6, <3>3, BodyArrives DEF StillMissing
      <4>2. got' = f
        <5>1. ToInt(Width + Len(bytes)) > 0
          BY <4>1, TotalIsPositive
        <5>2. Decode(bytes, Order) = f
          BY <4>1 DEF CodecIsRight
        <5> QED BY <3>1, <5>1, <5>2
      <4>3. got = None
        BY <1>1, <2>6 DEF Sound, ControlInv
      <4>4. Channel!Get
        BY <2>2, <3>1, <3>3, <4>1, <4>2, <4>3 DEF Channel!Get
      <4> QED BY <4>4 DEF Channel!ChannelNext
    <3> QED BY <3>2, <3>3
  <2> QED BY <1>3, <1>4, <2>1, <2>3, <2>4, <2>5, <2>6 DEF receive_some, Taken
<1>5. CASE receive_fails
  <2>1. /\ UNCHANGED <<sent_result, got>> /\ Breaks(rpc = "body" \/ received # << >>)
    BY <1>5 DEF receive_fails, senderVars
  <2>2. CASE rpc = "body" \/ received # << >>
    <3>1. Channel!Break
      BY <2>1, <2>2 DEF Breaks, Channel!Break
    <3> QED BY <3>1 DEF Channel!ChannelNext
  <2>3. CASE ~(rpc = "body" \/ received # << >>)
    <3>1. broken' = broken /\ handed_over' = handed_over
      BY <1>1, <2>1, <2>3 DEF Breaks, Sound, TransferTypeOK
    <3> QED BY <2>1, <3>1 DEF Channel!channelVars
  <2> QED BY <2>2, <2>3
<1>6. CASE receiver_dies
  BY <1>3, <1>6 DEF receiver_dies
<1> QED BY <1>2, <1>4, <1>5, <1>6 DEF ReceiveSteps

\* Whatever the parts in which TCP takes and gives the bytes, whenever a call
\* fails and whoever dies, the loops of send_message and wait_for_message carry
\* out a queue of messages: they arrive whole, once and in their order, and the
\* int that send_message returns says whether the message was handed over, until a
\* call fails inside a message (NFSCommunication.cpp:130).
THEOREM TransferImplementsChannel ==
    ASSUME CodecIsRight, TotalsFit
    PROVE  TransferSpec => ImplementsChannel
<1>1. TransferInit => Channel!ChannelInit
  BY DEF TransferInit, Channel!ChannelInit
<1>2. TransferInv /\ [TransferNext]_transferVars
         => [Channel!ChannelNext]_(Channel!channelVars)
  <2> SUFFICES ASSUME TransferInv, [TransferNext]_transferVars
               PROVE  Channel!ChannelNext \/ UNCHANGED Channel!channelVars
    OBVIOUS
  <2>1. CASE UNCHANGED transferVars
    BY <2>1 DEF transferVars, Channel!channelVars
  <2> QED BY <2>1, SenderImplements, ReceiverImplements DEF TransferNext
<1> QED BY <1>1, <1>2, TransferInvHolds, PTL
        DEF TransferSpec, ImplementsChannel, Channel!ChannelSpec
=============================================================================
