--------------------------- MODULE MCApplications ---------------------------
(***************************************************************************)
(* Instances of Applications for TLC: users at work on the same files,     *)
(* the copy programs, and the two clients of the acceptance test.          *)
(***************************************************************************)
EXTENDS Applications

CONSTANTS c1, c2        \* the clients

MCStrings    == {"f", "g", "./f"}
MCDirs       == {"d1"}
MCUids       == {0, 1}
MCAllowed    == [u \in MCUids |-> Paths \X Rights]
MCInitialDir == [p \in Paths |-> NoInode]
MCNameOf     == [p \in Paths |-> IF p[2] = "./f" THEN <<p[1], "f">> ELSE p]

Send(file, data) == [kind |-> "send", file |-> file, data |-> data]
Download(file)   == [kind |-> "download", file |-> file]
Do(call)         == [kind |-> "command", call |-> call]

Both(a, b) == [c \in {c1, c2} |-> IF c = c1 THEN a ELSE b]

UserTasks == {Send("f", <<1, 2>>), Send("f", <<3>>), Download("f"),
              Do(open_("f", {"WR"})), Do(flock_(-1, "EX"))}
\* A user and a copy program, and the acceptance test.
MCScenarios ==
    {Both([kind |-> "user", tasks |-> UserTasks],
          [kind |-> "copy", tasks |-> {Send("f", <<4, 4>>), Download("./f")}]),
     Both([kind |-> "test", tasks |-> {[kind |-> "client1", file |-> "f",
                                        data |-> <<5, 6>>, shared |-> "g"]}],
          [kind |-> "test", tasks |-> {[kind |-> "client2", shared |-> "g"]}])}
MCCalls == {}
MCUsers == {<<1, "d1">>}

\* The test of the instance can succeed.
ASSUME InstanceAssumption == TestMaySucceed
=============================================================================
