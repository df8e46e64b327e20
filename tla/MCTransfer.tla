----------------------------- MODULE MCTransfer -----------------------------
(***************************************************************************)
(* An instance of Transfer for TLC: bytes of five bits, words of four      *)
(* bytes, and messages of every layout.                                    *)
(***************************************************************************)
EXTENDS Transfer_proofs, TLC

\* Numbers at the edges of the type, and some whose bytes all differ.
EdgeNumbers == {0, 1, -1, Base, 1 - Half, Half, 3 * Half + 2 * Base + 1,
                (Word \div 2) - 1, -(Word \div 2)}
SomeBytes == {<< >>, <<0>>, <<1, 2, 0>>, <<Base - 1>>}

\* Messages with code and the numbers x and y in turn in their fields.
WithFields(code, x, y, data) ==
    [code |-> code, fields |->
        [f \in FieldsOf(code) |->
            CASE f = "data" -> data
              [] f = "count" -> Unsigned(x)
              [] f \in {"errno", "mode", "offset", "operation", "ino", "uid",
                        "st_size", "mtime"} -> y
              [] OTHER -> x]]
AllMessages ==
    {WithFields(code, x, y, data) :
        code \in {MSGCode[k] : k \in DOMAIN MSGCode} \ {"CONNECT_START"},
        x \in EdgeNumbers, y \in EdgeNumbers, data \in SomeBytes}

\* The two properties of the codec are about constants: it is enough to evaluate
\* them in the initial state.
Restored(messages) ==
    \A o \in Orders : \A m \in messages : Decode(Encode(m, o), o) = m
EveryMessageRestored == Restored(AllMessages)
EveryNumberInOrder ==
    \A x \in EdgeNumbers :
        push_int64_t(x, "little")
            = [k \in 1..Width |-> (Unsigned(x) \div Base ^ (Width - k)) % Base]

\* from_buffer gives back what push_to_buffer was given, for every message but
\* CONNECT_START, on hosts of either byte order; and the messages that are sent
\* meet the hypotheses of the theorems of Transfer_proofs.tla (MessageBuffer.cpp,
\* NFSMessages.hpp).
RoundTrip == TransferInit => EveryMessageRestored /\ CodecIsRight /\ TotalsFit

\* On a little-endian host the bytes that go over the network are in network
\* byte order, most significant first (MessageBuffer.cpp:11).
NetworkOrder == TransferInit => EveryNumberInOrder

\* What is sent: nothing but a code, two numbers, data, and the code 0.
MCMessages == {WithFields("AUTHORIZATION_OK", 0, 0, << >>),
               WithFields("RESULT_OPEN", -1, 2, << >>),
               WithFields("REQUEST_UNLINK", 0, 0, <<1, 0>>)}
=============================================================================
