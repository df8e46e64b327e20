---------------------------- MODULE NFSMessages ----------------------------
(***************************************************************************)
(* The messages of the TIN-NFS protocol (include/NFSMessages.hpp).  A      *)
(* message is a record whose code is the name of its MSGCode.  Sizes that  *)
(* the C++ structures carry beside a buffer are the length of that buffer. *)
(***************************************************************************)
EXTENDS Integers, Sequences, FiniteSets

CONSTANTS
    Sessions,       \* the TCP connections; also the process that serves each
    Strings,        \* the character strings that may travel in a message
    Unterminated,   \* stands for every buffer whose last character is not 0
    IntMax          \* largest value of the C type int

ASSUME MessagesAssumption ==
    /\ Unterminated \notin Strings
    /\ IntMax \in Nat \ {0}

-----------------------------------------------------------------------------
\* A buffer that should hold a C string.
Text == Strings \cup {Unterminated}

\* The three credentials, in the order in which the server asks for them.
ProvideCode == <<"PROVIDE_USERNAME", "PROVIDE_PASSWORD", "PROVIDE_FSNAME">>
ConnectInfoCode == <<"CONNECT_INFO_USERNAME", "CONNECT_INFO_PASSWORD",
                     "CONNECT_INFO_FSNAME">>

ConnectInfo == [code : {ConnectInfoCode[k] : k \in 1..3}, text : Text]

\* open(2) flags that the model distinguishes; the access mode is RD, WR or both.
OFlags == {f \in SUBSET {"RD", "WR", "CREAT", "TRUNC", "APPEND"} :
              f \cap {"RD", "WR"} # {}}
LockModes == {"UN", "SH", "EX"}

CMSGRequestOpen   == [code : {"REQUEST_OPEN"}, path : Text, oflag : OFlags]
CMSGRequestClose  == [code : {"REQUEST_CLOSE"}, fd : Int]
CMSGRequestRead   == [code : {"REQUEST_READ"}, fd : Int, size : Nat]
CMSGRequestWrite  == [code : {"REQUEST_WRITE"}, fd : Int, data : Seq(Nat)]
CMSGRequestLseek  == [code : {"REQUEST_LSEEK"}, fd : Int, offset : Int,
                      whence : {"SET", "CUR", "END"}]
CMSGRequestFstat  == [code : {"REQUEST_FSTAT"}, fd : Int]
CMSGRequestUnlink == [code : {"REQUEST_UNLINK"}, path : Text]
CMSGRequestFlock  == [code : {"REQUEST_FLOCK"}, fd : Int,
                      operation : LockModes, nb : BOOLEAN]

RequestCodes == {"REQUEST_OPEN", "REQUEST_CLOSE", "REQUEST_READ",
                 "REQUEST_WRITE", "REQUEST_LSEEK", "REQUEST_FSTAT",
                 "REQUEST_UNLINK", "REQUEST_FLOCK"}

Request == CMSGRequestOpen \cup CMSGRequestClose \cup CMSGRequestRead
           \cup CMSGRequestWrite \cup CMSGRequestLseek \cup CMSGRequestFstat
           \cup CMSGRequestUnlink \cup CMSGRequestFlock

\* The code of the answer that belongs to the code of a request.
ResultCode(code) ==
    CASE code = "REQUEST_OPEN"   -> "RESULT_OPEN"
      [] code = "REQUEST_CLOSE"  -> "RESULT_CLOSE"
      [] code = "REQUEST_READ"   -> "RESULT_READ"
      [] code = "REQUEST_WRITE"  -> "RESULT_WRITE"
      [] code = "REQUEST_LSEEK"  -> "RESULT_LSEEK"
      [] code = "REQUEST_FSTAT"  -> "RESULT_FSTAT"
      [] code = "REQUEST_UNLINK" -> "RESULT_UNLINK"
      [] OTHER                   -> "RESULT_FLOCK"

\* errno values; "stale" is whatever the last failed call left in errno.
Errnos == {"0", "stale", "EBADF", "ENOENT", "EACCES", "EMFILE", "ENFILE",
           "ENOSPC", "EFBIG", "EINVAL", "EWOULDBLOCK"}

\* All result messages: value is fd, result, data_size or offset; data holds
\* the bytes of a RESULT_READ and the inode and size of a RESULT_FSTAT.
Result == [code : {"RESULT_OPEN", "RESULT_CLOSE", "RESULT_READ",
                   "RESULT_WRITE", "RESULT_LSEEK", "RESULT_FSTAT",
                   "RESULT_UNLINK", "RESULT_FLOCK"},
           value : Int, errno : Errnos, data : Seq(Nat)]

\* Messages that carry nothing but their code.
BareCodes == {"CONNECT_START", "DISCONNECT", "PROVIDE_USERNAME",
              "PROVIDE_PASSWORD", "PROVIDE_FSNAME", "AUTHORIZATION_OK",
              "AUTHORIZATION_FAILED"}
Bare(code) == [code |-> code]
NoMessage  == [code |-> "NONE"]

MSG == ConnectInfo \cup Request \cup Result \cup [code : BareCodes]

\* wait_for_message has no case for CONNECT_START and calls exit(123).
Parseable(m) == m.code # "CONNECT_START"

\* Conversion of a 64-bit value to int: the low-order word, sign included.
ToInt(x) == ((x + IntMax + 1) % (2 * (IntMax + 1))) - (IntMax + 1)
=============================================================================
