------------------------------ MODULE MCServer ------------------------------
(***************************************************************************)
(* Instances of NFSServer for TLC: two users, two filesystems, and the     *)
(* sets of messages that the clients of the different runs may send.       *)
(***************************************************************************)
EXTENDS NFSServer_proofs, ServerConfig

MCStrings == {"alice", "bob", "carol", "pa", "pb", "share", "work", "f", "g", "../d1/f"}
MCDirs    == {"d1", "d2"}
MCUids    == {0, 1, 2, 3}

MCUidOf  == [u \in {"alice", "bob", "carol"} |->
                CASE u = "alice" -> 1 [] u = "bob" -> 2 [] OTHER -> 3]
MCHashOf == [u \in {"alice", "bob", "carol"} |->
                CASE u = "alice" -> "pa" [] u = "bob" -> "pb" [] OTHER -> NoHash]

\* The filesystems are those of a configuration file.
SampleWords == {"port", "filesystem", "80", "65536", "80x", "80filesystem", "d1"}
MCWords     == SampleWords \cup {"share", "work", "d2"}
MCNumberOf  == [w \in MCWords |-> CASE w \in {"80", "80x", "80filesystem"} -> 80
                                    [] w = "65536" -> 65536 [] OTHER -> -1]
MCRestOf    == [w \in MCWords |-> CASE w = "80x" -> "x"
                                    [] w = "80filesystem" -> "filesystem"
                                    [] OTHER -> ""]
MCConfig    == <<"filesystem", "share", "d2", "port", "80",
                 "filesystem", "work", "d2", "filesystem", "share", "d1">>
MCFSPrefix  == [n \in {"share", "work"} |-> IF n = "share" THEN "d1" ELSE "d2"]

ASSUME MCAssumption == run(0, TRUE, MCConfig).filesystems = MCFSPrefix

\* The server starts with exactly the configuration its file states, and with
\* none when the file is no configuration (NFSServer.cpp:44, README.md:413-415),
\* except that a port and the next option may be written together; about
\* constants, hence only evaluated in the initial state.
ConfigurationIsLoaded == ServerInit => LoadsWhatIsStated(SampleWords, 6)

\* alice owns d1 and everything in it, bob may read f there; d2 is bob's.
MCAllowed == [u \in MCUids |->
    CASE u = 0 -> Paths \X Rights
      [] u = 1 -> ({"d1"} \X {"f", "g"}) \X Rights
      [] u = 2 -> (({"d2"} \X {"f", "g"}) \X Rights)
                  \cup {<< <<"d1", "f">>, "RD">>}
      [] OTHER -> {}]

\* A path that leads out of the filesystem it starts in.
MCNameOf == [p \in Paths |-> IF p[2] = "../d1/f" THEN <<"d1", "f">> ELSE p]

MCInitialDir == [p \in Paths |-> IF p = <<"d1", "f">> THEN 1 ELSE NoInode]

-----------------------------------------------------------------------------
Info(k, x)       == [code |-> ConnectInfoCode[k], text |-> x]
Open(p, flags)   == [code |-> "REQUEST_OPEN", path |-> p, oflag |-> flags]
Close(cd)        == [code |-> "REQUEST_CLOSE", fd |-> cd]
Read(cd, n)      == [code |-> "REQUEST_READ", fd |-> cd, size |-> n]
Write(cd, d)     == [code |-> "REQUEST_WRITE", fd |-> cd, data |-> d]
Unlink(p)        == [code |-> "REQUEST_UNLINK", path |-> p]

Disconnect == {Bare("DISCONNECT")}

\* Logging in right and wrong, everything a worker refuses, and bob, who has
\* started the server, at work on two files.  Descriptor 17 is 1 in an int of four
\* bits, and there is no memory to read 3 bytes into.
ServerMessages ==
    Disconnect
    \cup {Info(1, "alice"), Info(1, "bob"), Info(1, "carol"), Info(2, "pb"),
          Info(3, "share"), Info(3, "work"), Info(3, "g"),
          Info(1, Unterminated),
          Bare("CONNECT_START"),
          Open(Unterminated, {"RD"}),
          Open("../d1/f", {"RD"}), Open("g", {"WR", "CREAT", "APPEND"}), Unlink("g"),
          Close(17), Read(2, 1), Read(2, 3), Write(1, <<1>>)}
=============================================================================
