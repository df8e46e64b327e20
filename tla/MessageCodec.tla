---------------------------- MODULE MessageCodec ----------------------------
(***************************************************************************)
(* The bytes of a message: MessageBuffer (src/MessageBuffer.cpp) with its  *)
(* byte order conversion, and push_to_buffer and from_buffer of every      *)
(* message (include/NFSMessages.hpp).  A message is a record of its code   *)
(* and a function from its fields to numbers and sequences of bytes.       *)
(***************************************************************************)
EXTENDS NFSMessages

LOCAL INSTANCE SequencesExt
LOCAL INSTANCE FiniteSetsExt

CONSTANTS
    Base,           \* values of a byte: 256 in the program
    HalfWord        \* bytes of a half word: 4 in the program

\* The codes are the numbers from 0 on.
MSGCode == <<"CONNECT_START", "CONNECT_INFO_USERNAME", "CONNECT_INFO_PASSWORD",
    "CONNECT_INFO_FSNAME", "REQUEST_OPEN", "REQUEST_CLOSE", "REQUEST_READ",
    "REQUEST_WRITE", "REQUEST_LSEEK", "REQUEST_FSTAT", "REQUEST_UNLINK",
    "REQUEST_FLOCK", "DISCONNECT", "PROVIDE_USERNAME", "PROVIDE_PASSWORD",
    "PROVIDE_FSNAME", "AUTHORIZATION_OK", "AUTHORIZATION_FAILED", "RESULT_OPEN",
    "RESULT_CLOSE", "RESULT_READ", "RESULT_WRITE", "RESULT_LSEEK",
    "RESULT_FSTAT", "RESULT_UNLINK", "RESULT_FLOCK">>

ASSUME CodecAssumption ==
    /\ Base \in Nat /\ Base >= Len(MSGCode)
    /\ HalfWord \in Nat \ {0}

Half  == Base ^ HalfWord
Word  == Half * Half
Width == 2 * HalfWord
Orders == {"little", "big"}     \* byte orders of a host

-----------------------------------------------------------------------------
\* The bytes of a number, least significant first, and back.
Bytes ==
    [x \in Nat, n \in Nat |-> [k \in 1..n |-> (x \div Base ^ (k - 1)) % Base]]
Value[b \in Seq(Nat)] == IF b = << >> THEN 0 ELSE Head(b) + Base * Value[Tail(b)]

\* A word in the memory of a host, and back.
InMemory   == [x \in Nat, o \in Orders |->
                  IF o = "little" THEN Bytes[x, Width] ELSE Reverse(Bytes[x, Width])]
FromMemory == [b \in Seq(Nat), o \in Orders |->
                  Value[IF o = "little" THEN b ELSE Reverse(b)]]

\* htonl(3) of a half word; htonll and ntohll are the same macro.
\* Mutant: the halves stay where they are.
htonl == [x \in Nat, o \in Orders |->
             IF o = "big" THEN x ELSE Value[Reverse(Bytes[x, HalfWord])]]
htonll_unswapped ==
    [x \in Nat, o \in Orders |->
        htonl[x \div Half, o] * Half + htonl[x % Half, o]]
htonll == [x \in Nat, o \in Orders |->
              htonl[x % Half, o] * Half + htonl[x \div Half, o]]

\* Two's complement.
Unsigned(x) == x % Word
Signed == [x \in Nat |-> IF 2 * x < Word THEN x ELSE x - Word]

push_int64_t(x, o) == InMemory[htonll[Unsigned(x), o], o]

pop_uint64_t(bytes, o) == htonll[FromMemory[bytes, o], o]
pop_int64_t(bytes, o)  == Signed[pop_uint64_t(bytes, o)]

-----------------------------------------------------------------------------
\* The order in which push_to_buffer pushes the fields of a message.  "data" is
\* a field of bytes, "size" the length of that field.
Results == {"RESULT_CLOSE", "RESULT_WRITE", "RESULT_UNLINK", "RESULT_FLOCK"}
ConnectInfos == {"CONNECT_INFO_USERNAME", "CONNECT_INFO_PASSWORD",
                 "CONNECT_INFO_FSNAME"}
\* push_stat, and pop_stat, which takes the fields back one by one.  Mutant: it
\* takes them in the order in which they were pushed.
StatFields == <<"dev", "ino", "mode", "nlink", "uid", "gid", "rdev", "st_size",
                "blksize", "blocks", "atime", "mtime", "ctime">>
PoppedAsPushed == StatFields
PoppedStat == <<"ctime", "mtime", "atime", "blocks", "blksize", "st_size",
                "rdev", "gid", "uid", "nlink", "mode", "ino", "dev">>

PushOrder(code) ==
    CASE code \in ConnectInfos      -> <<"data", "size">>
      [] code = "REQUEST_OPEN"      -> <<"oflag", "mode", "data", "size">>
      [] code \in {"REQUEST_CLOSE", "REQUEST_FSTAT"} -> <<"fd">>
      [] code = "REQUEST_READ"      -> <<"fd", "count">>
      [] code = "REQUEST_WRITE"     -> <<"fd", "data", "size">>
      [] code = "REQUEST_LSEEK"     -> <<"fd", "offset", "whence">>
      [] code = "REQUEST_UNLINK"    -> <<"data", "size">>
      [] code = "REQUEST_FLOCK"     -> <<"fd", "operation">>
      [] code = "RESULT_OPEN"       -> <<"fd", "errno">>
      [] code \in Results           -> <<"result", "errno">>
      [] code = "RESULT_READ"       -> <<"errno", "data", "size">>
      [] code = "RESULT_LSEEK"      -> <<"offset", "errno">>
      [] code = "RESULT_FSTAT"      -> <<"result", "errno">> \o StatFields
      [] OTHER                      -> << >>

\* The order in which from_buffer pops them.
PopOrder(code) ==
    CASE code \in ConnectInfos      -> <<"size", "data">>
      [] code = "REQUEST_OPEN"      -> <<"size", "data", "mode", "oflag">>
      [] code \in {"REQUEST_CLOSE", "REQUEST_FSTAT"} -> <<"fd">>
      [] code = "REQUEST_READ"      -> <<"count", "fd">>
      [] code = "REQUEST_WRITE"     -> <<"size", "data", "fd">>
      [] code = "REQUEST_LSEEK"     -> <<"whence", "offset", "fd">>
      [] code = "REQUEST_UNLINK"    -> <<"size", "data">>
      [] code = "REQUEST_FLOCK"     -> <<"operation", "fd">>
      [] code = "RESULT_OPEN"       -> <<"errno", "fd">>
      [] code \in Results           -> <<"errno", "result">>
      [] code = "RESULT_READ"       -> <<"size", "data", "errno">>
      [] code = "RESULT_LSEEK"      -> <<"errno", "offset">>
      [] code = "RESULT_FSTAT"      -> PoppedStat \o <<"errno", "result">>
      [] OTHER                      -> << >>

\* The fields a message has, beside the size that goes with its data.
FieldsOf(code) == {PushOrder(code)[k] : k \in DOMAIN PushOrder(code)} \ {"size"}

\* push_to_buffer: the code first.  A count is an uint64_t, everything else that
\* is not data an int64_t; the bytes are the same.
CodeNumber(code) == (CHOOSE k \in DOMAIN MSGCode : MSGCode[k] = code) - 1
Pushed(m, f, o) == CASE f = "data" -> m.fields.data
                     [] f = "size" -> push_int64_t(Len(m.fields.data), o)
                     [] OTHER      -> push_int64_t(m.fields[f], o)
Encode(m, o) ==
    LET fields == PushOrder(m.code)
    IN  <<CodeNumber(m.code)>>
        \o FlattenSeq([k \in DOMAIN fields |-> Pushed(m, fields[k], o)])

\* from_buffer: each pop takes the bytes before those that are taken already.
\* To take more than there is, is undefined behaviour.
Undefined == [code |-> "undefined"]
Pops(code, buffer, o) ==
    LET fields == PopOrder(code)
        Tip(n) == SubSeq(buffer, Len(buffer) - n + 1, Len(buffer))
        \* The length of the data, and of the fields in 1..k.
        size == IF Head(fields) = "size" THEN pop_int64_t(Tip(Width), o) ELSE 0
        Taken == [k \in 0..Len(fields) |->
                     IF \E j \in 1..k : fields[j] = "data"
                     THEN (k - 1) * Width + size ELSE k * Width]
        Part(k) == SubSeq(buffer, Len(buffer) - Taken[k] + 1,
                          Len(buffer) - Taken[k - 1])
        Popped(k) == CASE fields[k] = "data"  -> Part(k)
                       [] fields[k] = "count" -> pop_uint64_t(Part(k), o)
                       [] OTHER               -> pop_int64_t(Part(k), o)
    IN  IF fields = << >> THEN [code |-> code, fields |-> << >>]
        ELSE IF Len(buffer) < Width \/ size < 0 \/ Len(buffer) < Taken[Len(fields)]
        THEN Undefined
        ELSE [code |-> code, fields |->
                 [f \in {fields[k] : k \in DOMAIN fields} \ {"size"} |->
                     Popped(CHOOSE k \in DOMAIN fields : fields[k] = f)]]

\* The switch of wait_for_message over the first byte: a message, or exit(123).
\* Only CONNECT_START has no case of its own.
Exit123 == [code |-> "exit"]
HasCase(byte) == byte < Len(MSGCode) /\ MSGCode[byte + 1] # "CONNECT_START"

Decode(buffer, o) ==
    CASE buffer = << >>        -> Undefined
      [] buffer # << >> /\ ~HasCase(Head(buffer)) -> Exit123
      [] OTHER                 -> Pops(MSGCode[Head(buffer) + 1], buffer, o)
=============================================================================
