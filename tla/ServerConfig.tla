---------------------------- MODULE ServerConfig ----------------------------
(***************************************************************************)
(* The start of the server (NFSServer::run, ensure_running_as_root and     *)
(* load_config, src/NFSServer.cpp).  A configuration file is the sequence  *)
(* of the words in it.                                                     *)
(***************************************************************************)
EXTENDS Integers, Sequences

LOCAL INSTANCE SequencesExt
LOCAL INSTANCE TLC

CONSTANTS
    Words,          \* the words of configuration files
    NumberOf,       \* the number each word begins with, or NotANumber; the code
                    \* treats a word without a number and a negative one alike
    RestOf,         \* what follows that number, or ""
    Directories     \* the words that are paths of directories

NotANumber   == -1
DEFAULT_PORT == 46879

ASSUME ConfigAssumption ==
    /\ Directories \subseteq Words
    /\ NumberOf \in [Words -> Int] /\ DOMAIN RestOf = Words

-----------------------------------------------------------------------------
\* The state of the loop: the word it expects next, the name of the filesystem
\* it reads, and the configuration so far.
Start == [expects |-> "option", name |-> "", port |-> DEFAULT_PORT,
          filesystems |-> << >>]
Failed(st) == [st EXCEPT !.expects = "failed"]

Option(st, word) ==
    IF word = "port" THEN [st EXCEPT !.expects = "port"]
    ELSE IF word = "filesystem" THEN [st EXCEPT !.expects = "name"]
    ELSE Failed(st)

\* Mutant: the largest port is one too large.
PortUpTo65536(n) == n >= 0 /\ n <= 65536
PortInRange(n)   == n >= 0 /\ n < 65536

\* operator>> takes the digits and leaves the rest of the word for the next one.
Port(st, word) ==
    IF NumberOf[word] = NotANumber \/ ~PortInRange(NumberOf[word]) THEN Failed(st)
    ELSE LET next == [st EXCEPT !.expects = "option", !.port = NumberOf[word]]
         IN  IF RestOf[word] = "" THEN next ELSE Option(next, RestOf[word])

\* A later definition of a name replaces an earlier one.
With(map, name, path) == (name :> path) @@ map
Path(st, word) ==
    IF word \notin Directories THEN Failed(st)
    ELSE [st EXCEPT !.expects = "option",
                    !.filesystems = With(@, st.name, word)]

ReadWord(st, word) ==
    CASE st.expects = "option" -> Option(st, word)
      [] st.expects = "port"   -> Port(st, word)
      [] st.expects = "name"   -> [st EXCEPT !.expects = "path", !.name = word]
      [] st.expects = "path"   -> Path(st, word)
      [] OTHER                 -> st

\* load_config fails inside an option, and without a filesystem.
load_config(file) ==
    LET end == FoldLeft(ReadWord, Start, file)
    IN  IF end.expects # "option" \/ end.filesystems = << >> THEN [ok |-> FALSE]
        ELSE [ok |-> TRUE, port |-> end.port, filesystems |-> end.filesystems]

\* NFSServer::run: as root, with a configuration, the server listens.
run(euid, exists, file) ==
    IF euid = 0 /\ exists THEN load_config(file) ELSE [ok |-> FALSE]

-----------------------------------------------------------------------------
(* What README.md:413-415 says a configuration is: any number of           *)
(* "port <port>" and "filesystem <name> <path>", one filesystem at least.  *)

Settings(words) ==
    {<<"port", w>> : w \in {v \in words : NumberOf[v] \in 0..65535 /\ RestOf[v] = ""}}
    \cup {<<"filesystem", n, d>> : n \in words, d \in words \cap Directories}

\* The configuration that a sequence of settings stands for: the last port, and
\* the last path of each name.
LastPath(settings, n) ==
    LET of == {k \in DOMAIN settings :
                  settings[k][1] = "filesystem" /\ settings[k][2] = n}
    IN  settings[CHOOSE k \in of : \A j \in of : j <= k][3]
Stated(settings) ==
    LET ports == {k \in DOMAIN settings : settings[k][1] = "port"}
        names == {settings[k][2] : k \in DOMAIN settings \ ports}
    IN  IF names = {} THEN [ok |-> FALSE]
        ELSE [ok |-> TRUE,
              port |-> IF ports = {} THEN DEFAULT_PORT
                       ELSE NumberOf[settings[CHOOSE k \in ports :
                                                \A j \in ports : j <= k][2]],
              filesystems |-> [n \in names |-> LastPath(settings, n)]]

\* The file with a space between the number and the rest of the words at K.
NumberAlone(word) ==
    CHOOSE w \in Words : NumberOf[w] = NumberOf[word] /\ RestOf[w] = ""
Spaced(file, K) ==
    FlattenSeq([k \in DOMAIN file |->
        IF k \in K THEN <<NumberAlone(file[k]), RestOf[file[k]]>> ELSE <<file[k]>>])

\* Of the files of up to most words load_config accepts those that state a
\* configuration, with the values they state, and beside them only files that
\* would state the one it loads if a space followed each of their ports:
\* "port 80filesystem share d1" (NFSServer.cpp:56), which the README leaves out.
LoadsWhatIsStated(words, most) ==
    LET texts == SeqOf(Settings(words), most \div 2)
        files == {FlattenSeq(settings) : settings \in texts}
    IN  /\ \A settings \in texts :
              load_config(FlattenSeq(settings)) = Stated(settings)
        /\ \A file \in SeqOf(words, most) : load_config(file).ok =>
              \E K \in SUBSET {k \in DOMAIN file : RestOf[file[k]] # ""} :
                  /\ Spaced(file, K) \in files
                  /\ load_config(file) = load_config(Spaced(file, K))
=============================================================================
