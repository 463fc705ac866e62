------------------------------ MODULE Startup ------------------------------
(***************************************************************************)
(* How the four programs come up: the main functions read their three      *)
(* options with argv_reader or config_reader (argv_read.c), look them up   *)
(* with get_argv, and then listen for the program that is started after    *)
(* them and connect to the one before, asserting that every call works.    *)
(*                                                                         *)
(* The README starts receive, rx_proxy, tx_proxy, stream in this order.    *)
(* getopt_long is modelled by what it returns: "--o=v" and "--o v" set     *)
(* option o, words that are no options are skipped, anything else is '?'.  *)
(* The comparison with long_options[3], behind the array, finds a 0, which *)
(* getopt_long never returns.                                              *)
(***************************************************************************)
EXTENDS Integers, Sequences, FiniteSets

CONSTANTS
    CallsMayFail  \* may socket, bind, fopen ... fail?

ASSUME StartupConstants == CallsMayFail \in BOOLEAN

\* In the order in which they are started.
Programs == <<"receive", "rx_proxy", "tx_proxy", "stream">>
P == 1 .. 4
Listens == 1 .. 3   \* for the next program
Connects == 2 .. 4  \* to the one before
Receive == 1
TxProxy == 3

\* The entries of long_options, and the words after the program's name.
Options == 1 .. 3
Words == ({"--o=v", "--o"} \X Options) \cup {<<"word", 0>>, <<"unknown", 0>>}

\* The config file: as it should be, missing, without the program's section,
\* without one of its settings.  "usage" is a wrong number of words.
Configs == {"config", "nofile", "nosection", "nosetting"}
Hows == [1 .. 3 -> Words] \cup {<<c>> : c \in Configs \cup {"usage"}}

FromConfig == 0
Unset == -1

VARIABLES
    how,        \* how each program is called
    patient,    \* is a program started only when the one before is up?
    pc,         \* "off", "getopt", "values", "setup", "exit"
    arg_vals,   \* the key and the word it was set from
    optind,     \* the next word for getopt_long
    count,      \* options read
    listening, connected, failed

argVars == <<arg_vals, optind, count>>
netVars == <<listening, connected>>
vars == <<how, patient, pc, argVars, netVars, failed>>

ByArgv(p) == Len(how[p]) = 3

\* init_arg_vals for each program.  At most one is called in an unusual way,
\* and then the user is patient: what a program makes of its words does not
\* depend on when the others start.
Init ==
    /\ \E p \in P, h \in Hows :
          how = [q \in P |-> IF q = p THEN h ELSE <<"config">>]
    /\ patient \in BOOLEAN /\ (patient \/ \A q \in P : how[q] = <<"config">>)
    /\ pc = [p \in P |-> "off"]
    /\ arg_vals = [p \in P |-> [k \in Options |-> [key |-> k, val |-> Unset]]]
    /\ optind = [p \in P |-> 1] /\ count = [p \in P |-> 0]
    /\ listening = {} /\ connected = {} /\ failed = FALSE

\* The program has done all it does before it waits for or sends data.
Up(p) == /\ pc[p] = "setup"
         /\ p \in Listens => p \in listening
         /\ p \in Connects => p \in connected

\* The process exits or returns from main.
Exits(p) ==
    /\ pc' = [pc EXCEPT ![p] = "exit"]
    /\ listening' = listening \ {p} /\ UNCHANGED connected

Goes(p, to) == pc' = [pc EXCEPT ![p] = to] /\ UNCHANGED netVars

-----------------------------------------------------------------------------
(* Arguments                                                               *)

\* config_reader
ReadsConfig(p) ==
    arg_vals' = [arg_vals EXCEPT ![p] =
                    [k \in Options |-> [key |-> k, val |-> FromConfig]]]

\* main, up to argv_reader.
StartByArgv(p) ==
    /\ ByArgv(p)
    /\ Goes(p, "getopt") /\ UNCHANGED arg_vals

StartByConfig(p) ==
    /\ how[p] = <<"config">>
    /\ Goes(p, "values") /\ ReadsConfig(p)

\* Without its section a program goes on as if it had read it ...
StartNoSection(p) ==
    /\ how[p] = <<"nosection">> /\ p # Receive
    /\ Goes(p, "values") /\ UNCHANGED arg_vals

\* ... except receive.
StartRefused(p) ==
    /\ \/ how[p] \in {<<"usage">>, <<"nofile">>, <<"nosetting">>}
       \/ how[p] = <<"nosection">> /\ p = Receive
    /\ Exits(p) /\ UNCHANGED arg_vals

\* The user starts program p.
Start(p) ==
    /\ pc[p] = "off"
    /\ p > 1 => IF patient THEN Up(p - 1) ELSE pc[p - 1] # "off"
    /\ \/ StartByArgv(p) \/ StartByConfig(p)
       \/ StartNoSection(p) \/ StartRefused(p)
    /\ UNCHANGED <<how, patient, optind, count, failed>>

Word(p) == how[p][optind[p]]

\* argv_vals[count]
Slot(p) == count[p] + 1

\* Mutant: the value is always taken to be a word of its own.
SetsOptionSkips(p, n) ==
    /\ arg_vals' = [arg_vals EXCEPT ![p][Slot(p)] =
                        [key |-> Word(p)[2], val |-> n]]
    /\ count' = [count EXCEPT ![p] = count[p] + 1]
    /\ optind' = [optind EXCEPT ![p] = n + 2]
    /\ UNCHANGED <<pc, netVars>>

\* A round of argv_reader that reads an option and its value, the word n.
SetsOption(p, n) ==
    /\ arg_vals' = [arg_vals EXCEPT ![p][Slot(p)] =
                        [key |-> Word(p)[2], val |-> n]]
    /\ count' = [count EXCEPT ![p] = count[p] + 1]
    /\ optind' = [optind EXCEPT ![p] = n + 1]
    /\ UNCHANGED <<pc, netVars>>

\* Mutant: nobody looks at the result of argv_reader.
AfterErrorIgnored(p) == "values"

\* argv_reader returns -1, which tx_proxy does not look at.
AfterError(p) == IF p = TxProxy THEN "values" ELSE "exit"

ArgvReader(p) ==
    /\ pc[p] = "getopt"
    /\ \/ /\ optind[p] = 4
          /\ Goes(p, "values") /\ UNCHANGED argVars
       \/ /\ optind[p] <= 3 /\ Word(p)[1] = "word"
          /\ optind' = [optind EXCEPT ![p] = optind[p] + 1]
          /\ UNCHANGED <<pc, netVars, arg_vals, count>>
       \/ /\ optind[p] <= 3 /\ Word(p)[1] = "--o=v"
          /\ SetsOption(p, optind[p])
       \/ /\ optind[p] <= 2 /\ Word(p)[1] = "--o"
          /\ SetsOption(p, optind[p] + 1)
       \/ /\ \/ optind[p] <= 3 /\ Word(p)[1] = "unknown"
             \/ optind[p] = 3 /\ Word(p)[1] = "--o"
          /\ Goes(p, AfterError(p)) /\ UNCHANGED argVars
    /\ UNCHANGED <<how, patient, failed>>

\* Mutant: the options are looked up by their place.
EntriesByPlace(p, o) == {o}

\* get_argv: the entries for option o, of which it takes the first.
Entries(p, o) == {k \in Options : arg_vals[p][k].key = o}
Value(p, o) ==
    arg_vals[p][CHOOSE k \in Entries(p, o) : \A m \in Entries(p, o) : k <= m].val

OnJunk(p) == \E o \in Options : Entries(p, o) # {} /\ Value(p, o) = Unset

\* The three calls of get_argv and their assertions.  A value that was never
\* set may be NULL or not.
GetArgv(p) ==
    /\ pc[p] = "values"
    /\ \/ (\A o \in Options : Entries(p, o) # {}) /\ Goes(p, "setup")
       \/ (OnJunk(p) \/ \E o \in Options : Entries(p, o) = {}) /\ Exits(p)
    /\ UNCHANGED <<how, patient, argVars, failed>>

-----------------------------------------------------------------------------
(* Sockets                                                                 *)

\* sock_init and listen of receive, server_start, listen of split_loop.
Listen(p) ==
    /\ pc[p] = "setup" /\ p \in Listens \ listening
    /\ listening' = listening \cup {p}
    /\ UNCHANGED <<how, patient, pc, argVars, connected, failed>>

\* Mutant: the assertion after connect() is the wrong way round.
ConnectInverted(p) ==
    /\ pc[p] = "setup" /\ p \in Connects \ connected
    /\ IF p - 1 \notin listening
       THEN connected' = connected \cup {p} /\ UNCHANGED <<pc, listening>>
       ELSE Exits(p)
    /\ UNCHANGED <<how, patient, argVars, failed>>

\* connect() of wait2forward, set_link and stream, which need not wait for
\* the program's own listen().  The SYN of stream is redirected to tx_proxy.
Connect(p) ==
    /\ pc[p] = "setup" /\ p \in Connects \ connected
    /\ IF p - 1 \in listening
       THEN connected' = connected \cup {p} /\ UNCHANGED <<pc, listening>>
       ELSE Exits(p)
    /\ UNCHANGED <<how, patient, argVars, failed>>

CallFails(p) ==
    /\ pc[p] = "setup" /\ ~Up(p) /\ (CallsMayFail \/ OnJunk(p))
    /\ failed' = TRUE
    /\ Exits(p)
    /\ UNCHANGED <<how, patient, argVars>>

-----------------------------------------------------------------------------
Runs(p) == Start(p) \/ ArgvReader(p) \/ GetArgv(p) \/ Listen(p) \/ Connect(p)

Next == \E p \in P : Runs(p) \/ CallFails(p)

Spec == Init /\ [][Next]_vars

\* The user starts every program, and a program that has been started goes on.
FairSpec == Spec /\ \A p \in P : WF_vars(Runs(p))

-----------------------------------------------------------------------------
(* Properties                                                              *)

\* The types of arg_vals and of the counters of argv_reader and getopt_long.
TypeOK ==
    /\ pc \in [P -> {"off", "getopt", "values", "setup", "exit"}]
    /\ arg_vals \in [P -> [Options -> [key : Options, val : -1 .. 3]]]
    /\ optind \in [P -> 1 .. 4] /\ count \in [P -> 0 .. 3]
    /\ listening \subseteq Listens /\ connected \subseteq Connects

\* The words give each option once, in some order.
AllGiven(p) ==
    /\ ByArgv(p) /\ \A k \in 1 .. 3 : how[p][k][1] = "--o=v"
    /\ \A k, m \in 1 .. 3 : how[p][k][2] = how[p][m][2] => k = m

\* Options given in any order are taken for what they are: a program that has
\* looked them up has the value of each one's own word, and none stops.
AnyOrder ==
    \A p \in P : AllGiven(p) =>
        /\ pc[p] = "setup" =>
              \A k \in 1 .. 3 : Value(p, how[p][k][2]) = k
        /\ pc[p] = "exit" => failed

\* A program goes on with a value nobody set only where its section of the
\* config file is missing, receive excepted, or where its words do not give
\* every option; of the latter a wrong option stops all but tx_proxy.
JunkExplained ==
    \A p \in P : pc[p] = "setup" /\ OnJunk(p) =>
        \/ how[p] = <<"nosection">> /\ p # Receive
        \/ /\ ByArgv(p) /\ ~AllGiven(p)
           /\ p # TxProxy => optind[p] = 4

\* Started one after the other, each when the one before is up, with all
\* their options, the four programs come up unless a call fails.
AllUp ==
    <>(\/ ~patient \/ failed
       \/ \E p \in P : ~AllGiven(p) /\ how[p] # <<"config">>
       \/ \A p \in P : Up(p))
=============================================================================
