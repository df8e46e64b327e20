------------------------------ MODULE MCSystem ------------------------------
(***************************************************************************)
(* Instances of NFSSystem for TLC: the tables of users and filesystems,    *)
(* and what the applications of the different runs call.                   *)
(***************************************************************************)
EXTENDS NFSSystem, TLC

MCStrings  == {"alice", "bob", "pa", "pb", "share", "f", "g", "./g"}
MCDirs     == {"d1"}
MCUids     == {0, 1, 2}
MCUidOf    == [u \in {"alice", "bob"} |-> IF u = "alice" THEN 1 ELSE 2]
MCHashOf   == [u \in {"alice", "bob"} |-> IF u = "alice" THEN "pa" ELSE "pb"]
MCFSPrefix == [n \in {"share"} |-> "d1"]

\* Everything in d1 is alice's; bob may read f.
MCAllowed == [u \in MCUids |->
    CASE u = 0 -> Paths \X Rights
      [] u = 1 -> ({"d1"} \X {"f", "g"}) \X Rights
      [] OTHER -> {<< <<"d1", "f">>, "RD">>}]

MCNameOf == [p \in Paths |-> IF p[2] = "./g" THEN <<p[1], "g">> ELSE p]

MCInitialDir == [p \in Paths |-> IF p = <<"d1", "f">> THEN 1 ELSE NoInode]

-----------------------------------------------------------------------------
Open(p, flags)   == [code |-> "REQUEST_OPEN", path |-> p, oflag |-> flags]
Close(cd)        == [code |-> "REQUEST_CLOSE", fd |-> cd]
Read(cd, n)      == [code |-> "REQUEST_READ", fd |-> cd, size |-> n]
Write(cd, d)     == [code |-> "REQUEST_WRITE", fd |-> cd, data |-> d]
Lseek(cd, n, w)  == [code |-> "REQUEST_LSEEK", fd |-> cd, offset |-> n,
                     whence |-> w]
Fstat(cd)        == [code |-> "REQUEST_FSTAT", fd |-> cd]
Unlink(p)        == [code |-> "REQUEST_UNLINK", path |-> p]
Flock(cd, m, nb) == [code |-> "REQUEST_FLOCK", fd |-> cd, operation |-> m,
                     nb |-> nb]

Alice        == {<<"alice", "pa", "share">>}
RightOrWrong == Alice \cup {<<"alice", "pb", "share">>}
Logins       == RightOrWrong \cup {<<"bob", "pb", "share">>}

\* Every operation, by one client.
AllCalls == {Open("f", {"RD"}), Open("g", {"RD", "WR", "CREAT"}), Read(1, 1),
             Write(1, <<1>>), Write(2, <<1>>), Lseek(1, 1, "SET"),
             Lseek(1, 2, "SET"), Fstat(1), Unlink("./g"), Close(1),
             Flock(1, "SH", TRUE), Flock(2, "EX", TRUE), Flock(1, "EX", TRUE)}
\* Two clients on the same name, and on the files it has stood for.
SharedCalls == {Open("f", {"RD", "WR", "CREAT"}), Unlink("f"),
                Flock(1, "SH", TRUE), Flock(1, "EX", FALSE)}

OneCall  == {Open("f", {"RD"})}
FewCalls == OneCall \cup {Fstat(1)}
LockTwiceCalls == OneCall \cup {Flock(1, "EX", FALSE), Flock(2, "EX", FALSE)}
SeekCalls == OneCall \cup {Lseek(1, 0, "SET"), Lseek(1, 1, "SET"), Lseek(1, 2, "SET")}
ReadCalls == OneCall \cup {Read(1, 1), Close(1)}

Symmetry == Permutations(Clients) \cup Permutations(Sessions)
=============================================================================
