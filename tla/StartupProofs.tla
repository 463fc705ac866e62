--------------------------- MODULE StartupProofs ---------------------------
(* Theorems about how the programs come up, for every way to call them and  *)
(* every order in which they run.                                          *)
EXTENDS Startup, TLAPS

-----------------------------------------------------------------------------
(* The inductive invariants                                                *)

\* How the programs are called.
CallsOK ==
    /\ how \in [P -> Hows] /\ patient \in BOOLEAN /\ failed \in BOOLEAN
    /\ patient \/ \A p \in P : how[p] = <<"config">>

\* What main has when it looks the values up: all the words have been read,
\* tx_proxy excepted, or the config file has.
ReadInv(p) ==
    /\ count[p] < optind[p]
    /\ pc[p] = "getopt" => ByArgv(p)
    /\ pc[p] \in {"values", "setup"} =>
          IF ByArgv(p) THEN p # TxProxy => optind[p] = 4
          ELSE \/ /\ how[p] = <<"config">>
                  /\ \A k \in Options : arg_vals[p][k].val = FromConfig
               \/ how[p] = <<"nosection">> /\ p # Receive

\* Every word so far has filled its entry of arg_vals.
ReadSoFar(p) ==
    /\ count[p] = optind[p] - 1
    /\ \A k \in 1 .. optind[p] - 1 :
          arg_vals[p][k] = [key |-> how[p][k][2], val |-> k]

\* A program that got all its options reads them to the end, and stops only
\* when a call has failed.
GivenInv(p) ==
    AllGiven(p) => IF pc[p] = "exit" THEN failed
                   ELSE /\ ReadSoFar(p)
                        /\ pc[p] \in {"values", "setup"} => optind[p] = 4

\* A patient user starts a program when the one before is up, and it stays.
UpInv == patient => \A p \in P : p > 1 /\ pc[p] # "off" => Up(p - 1)

-----------------------------------------------------------------------------
(* Words                                                                   *)

\* A program called with words has three of them, and what they are.
LEMMA WordsOf ==
  ASSUME CallsOK, NEW p \in P, ByArgv(p)
  PROVE  /\ how[p] \in [1 .. 3 -> Words] /\ patient
         /\ \A k \in 1 .. 3 :
               /\ how[p][k][1] \in {"--o=v", "--o", "word", "unknown"}
               /\ how[p][k][1] \in {"--o=v", "--o"} => how[p][k][2] \in Options
<1>1. how[p] \in Hows
  BY DEF CallsOK
<1>2. \A c : Len(<<c>>) = 1
  OBVIOUS
<1>3. how[p] \in [1 .. 3 -> Words]
  BY <1>1, <1>2 DEF Hows, ByArgv
<1>4. patient
  BY <1>2 DEF CallsOK, ByArgv
<1>5. \A w \in Words : /\ w[1] \in {"--o=v", "--o", "word", "unknown"}
                       /\ w[1] \in {"--o=v", "--o"} => w[2] \in Options
  BY DEF Words
<1> QED
  BY <1>3, <1>4, <1>5

\* A step of program q leaves the others as they are.
OnlyOf(q) ==
    /\ UNCHANGED <<how, patient>> /\ failed' \in {failed, TRUE}
    /\ \A p \in P \ {q} :
          /\ pc'[p] = pc[p] /\ arg_vals'[p] = arg_vals[p]
          /\ optind'[p] = optind[p] /\ count'[p] = count[p]
          /\ p \in listening' <=> p \in listening
          /\ p \in connected' <=> p \in connected

\* The types say what EXCEPT does.
LEMMA StepOfOne ==
  ASSUME TypeOK, NEW q \in P, Runs(q) \/ CallFails(q)
  PROVE  OnlyOf(q)
<1> USE DEF TypeOK, OnlyOf, argVars, netVars, Goes, Exits
<1>1. CASE Start(q)
  BY <1>1 DEF Start, StartByArgv, StartByConfig, StartNoSection, StartRefused,
              ReadsConfig
<1>2. CASE ArgvReader(q)
  BY <1>2 DEF ArgvReader, SetsOption
<1>3. CASE GetArgv(q)
  BY <1>3 DEF GetArgv
<1>4. CASE Listen(q) \/ Connect(q)
  BY <1>4 DEF Listen, Connect
<1>5. CASE CallFails(q)
  BY <1>5 DEF CallFails
<1> QED
  BY <1>1, <1>2, <1>3, <1>4, <1>5 DEF Runs

\* Who is up stays so: nothing is left to do for it that could fail.
LEMMA StaysUp ==
  ASSUME TypeOK, [Next]_vars, NEW p \in P, Up(p)
  PROVE  Up(p)'
<1>1. CASE UNCHANGED vars
  BY <1>1 DEF vars, netVars, Up
<1>2. ASSUME NEW q \in P, Runs(q) \/ CallFails(q), q # p PROVE Up(p)'
  BY <1>2, StepOfOne DEF OnlyOf, Up
<1>3. CASE Runs(p) \/ CallFails(p)
  <2>1. Connect(p) \/ Listen(p)
    BY <1>3 DEF Up, Runs, Start, ArgvReader, GetArgv, CallFails
  <2> QED
    BY <2>1 DEF Up, Connect, Listen
<1> QED
  BY <1>1, <1>2, <1>3 DEF Next

-----------------------------------------------------------------------------
(* Types and the progress of argv_reader                                   *)

\* A round of argv_reader: what becomes of the program's entries.
LEMMA ReaderRound ==
  ASSUME TypeOK, CallsOK, NEW p \in P, ReadInv(p), ArgvReader(p)
  PROVE  /\ pc[p] = "getopt" /\ ByArgv(p)
         /\ \/ /\ optind[p] = 4 /\ pc'[p] = "values" /\ UNCHANGED argVars
            \/ /\ optind[p] <= 3 /\ how[p][optind[p]][1] \in {"--o", "unknown"}
               /\ pc'[p] \in {"values", "exit"} /\ UNCHANGED argVars
               /\ pc'[p] = "values" => p = TxProxy
            \/ /\ optind[p] <= 3 /\ how[p][optind[p]][1] = "word"
               /\ pc'[p] = "getopt" /\ UNCHANGED <<arg_vals, count>>
               /\ optind'[p] = optind[p] + 1
            \/ \E n \in {optind[p], optind[p] + 1} :
               /\ n <= 3 /\ pc'[p] = "getopt" /\ Slot(p) \in Options
               /\ how[p][optind[p]][1] = "--o=v" => n = optind[p]
               /\ how[p][optind[p]][1] \in {"--o=v", "--o"}
               /\ arg_vals'[p] = [arg_vals[p] EXCEPT ![Slot(p)] =
                                     [key |-> how[p][optind[p]][2], val |-> n]]
               /\ how[p][optind[p]][2] \in Options
               /\ optind'[p] = n + 1 /\ count'[p] = count[p] + 1
<1>1. pc[p] = "getopt" /\ ByArgv(p)
  BY DEF ArgvReader, ReadInv
<1>2. /\ optind[p] \in 1 .. 4 /\ count[p] \in 0 .. 3 /\ count[p] < optind[p]
      /\ pc \in [P -> {"off", "getopt", "values", "setup", "exit"}]
      /\ arg_vals \in [P -> [Options -> [key : Options, val : -1 .. 3]]]
      /\ optind \in [P -> 1 .. 4] /\ count \in [P -> 0 .. 3]
  BY DEF TypeOK, ReadInv
<1>3. optind[p] <= 3 =>
         /\ how[p][optind[p]][1] \in {"--o=v", "--o", "word", "unknown"}
         /\ how[p][optind[p]][1] \in {"--o=v", "--o"} =>
               how[p][optind[p]][2] \in Options
         /\ Slot(p) \in Options
  BY <1>1, <1>2, WordsOf DEF Slot, Options
<1>4. CASE optind[p] = 4 /\ Goes(p, "values") /\ UNCHANGED argVars /\ UNCHANGED failed
  BY <1>1, <1>2, <1>4 DEF Goes, netVars
<1>5. CASE /\ optind[p] <= 3 /\ Word(p)[1] = "word"
           /\ optind' = [optind EXCEPT ![p] = optind[p] + 1]
           /\ UNCHANGED <<pc, netVars, arg_vals, count, failed>>
  BY <1>1, <1>2, <1>5 DEF Word, netVars
<1>6. CASE /\ optind[p] <= 3 /\ Word(p)[1] = "--o=v"
           /\ SetsOption(p, optind[p]) /\ UNCHANGED failed
  BY <1>1, <1>2, <1>3, <1>6 DEF Word, SetsOption, netVars
<1>7. CASE /\ optind[p] <= 2 /\ Word(p)[1] = "--o"
           /\ SetsOption(p, optind[p] + 1) /\ UNCHANGED failed
  BY <1>1, <1>2, <1>3, <1>7 DEF Word, SetsOption, netVars
<1>8. CASE /\ \/ optind[p] <= 3 /\ Word(p)[1] = "unknown"
              \/ optind[p] = 3 /\ Word(p)[1] = "--o"
           /\ Goes(p, AfterError(p)) /\ UNCHANGED argVars /\ UNCHANGED failed
  BY <1>1, <1>2, <1>8 DEF Word, Goes, AfterError, netVars
<1> QED
  BY <1>4, <1>5, <1>6, <1>7, <1>8 DEF ArgvReader

\* Every step keeps the types.
LEMMA StartTypeNext ==
  TypeOK /\ CallsOK /\ (\A p \in P : ReadInv(p)) /\ [Next]_vars => TypeOK'
<1> SUFFICES ASSUME TypeOK, CallsOK, \A p \in P : ReadInv(p), [Next]_vars
             PROVE  TypeOK'
  OBVIOUS
<1> USE DEF argVars, netVars
<1>1. CASE UNCHANGED vars
  BY <1>1 DEF vars, TypeOK
<1>2. ASSUME NEW p \in P, Start(p) PROVE TypeOK'
  <2>1. UNCHANGED <<optind, count, connected>> /\ listening' \subseteq listening
    BY <1>2 DEF Start, StartByArgv, StartByConfig, StartNoSection, StartRefused,
                Goes, Exits
  <2>2. pc' \in [P -> {"off", "getopt", "values", "setup", "exit"}]
    BY <1>2 DEF Start, StartByArgv, StartByConfig, StartNoSection, StartRefused,
                Goes, Exits, TypeOK
  <2>3. arg_vals' \in [P -> [Options -> [key : Options, val : -1 .. 3]]]
    BY <1>2 DEF Start, StartByArgv, StartByConfig, StartNoSection, StartRefused,
                ReadsConfig, FromConfig, TypeOK
  <2> QED
    BY <2>1, <2>2, <2>3 DEF TypeOK
<1>3. ASSUME NEW p \in P, ArgvReader(p) PROVE TypeOK'
  <2>1. /\ pc' \in [P -> {"off", "getopt", "values", "setup", "exit"}]
        /\ UNCHANGED <<listening, connected>>
    BY <1>3 DEF ArgvReader, SetsOption, Goes, AfterError, TypeOK
  <2>2. CASE UNCHANGED argVars
    BY <2>1, <2>2 DEF TypeOK
  <2>3. CASE /\ optind[p] <= 3
             /\ optind' = [optind EXCEPT ![p] = optind[p] + 1]
             /\ UNCHANGED <<arg_vals, count>>
    BY <2>1, <2>3 DEF TypeOK
  <2>4. ASSUME NEW n \in {optind[p], optind[p] + 1}, n <= 3,
               Word(p)[1] \in {"--o=v", "--o"}, SetsOption(p, n)
        PROVE  TypeOK'
    <3>1. /\ n \in 1 .. 3 /\ optind[p] \in 1 .. 3 /\ count[p] \in 0 .. 2
          /\ Slot(p) \in Options
      BY <2>4 DEF TypeOK, ReadInv, Slot, Options
    <3>2. Word(p)[2] \in Options
      <4>1. ByArgv(p)
        BY <1>3 DEF ArgvReader, ReadInv
      <4> QED
        BY <2>4, <3>1, <4>1, WordsOf DEF Word
    <3>3. [key |-> Word(p)[2], val |-> n] \in [key : Options, val : -1 .. 3]
      BY <3>1, <3>2
    <3>4. arg_vals' \in [P -> [Options -> [key : Options, val : -1 .. 3]]]
      BY <2>4, <3>1, <3>3 DEF SetsOption, TypeOK
    <3>5. optind' \in [P -> 1 .. 4] /\ count' \in [P -> 0 .. 3]
      BY <2>4, <3>1 DEF SetsOption, TypeOK
    <3> QED
      BY <2>1, <3>4, <3>5 DEF TypeOK
  <2>5. optind[p] \in 1 .. 4
    BY DEF TypeOK
  <2> QED
    BY <1>3, <2>2, <2>3, <2>4, <2>5 DEF ArgvReader
<1>4. ASSUME NEW p \in P, GetArgv(p) \/ Listen(p) \/ Connect(p) \/ CallFails(p)
      PROVE  TypeOK'
  BY <1>4 DEF GetArgv, Listen, Connect, CallFails, Goes, Exits, TypeOK, Listens,
              Connects
<1> QED
  BY <1>1, <1>2, <1>3, <1>4 DEF Next, Runs

\* Nobody calls a program differently once it runs.
LEMMA CallsNext == TypeOK /\ CallsOK /\ [Next]_vars => CallsOK'
<1> SUFFICES ASSUME TypeOK, CallsOK, [Next]_vars PROVE CallsOK'
  OBVIOUS
<1>1. UNCHANGED <<how, patient>> /\ failed' \in {failed, TRUE}
  BY StepOfOne DEF Next, OnlyOf, vars
<1> QED
  BY <1>1 DEF CallsOK

\* Each step of a program keeps what its main relies on.
LEMMA ReadNext ==
  TypeOK /\ CallsOK /\ (\A p \in P : ReadInv(p)) /\ [Next]_vars
      => \A p \in P : ReadInv(p)'
<1> SUFFICES ASSUME TypeOK, CallsOK, \A p \in P : ReadInv(p), [Next]_vars, NEW p \in P
             PROVE  ReadInv(p)'
  OBVIOUS
<1>t. /\ optind \in [P -> 1 .. 4] /\ count \in [P -> 0 .. 3]
      /\ pc \in [P -> {"off", "getopt", "values", "setup", "exit"}]
      /\ arg_vals \in [P -> [Options -> [key : Options, val : -1 .. 3]]]
  BY DEF TypeOK
<1>1. CASE UNCHANGED vars
  BY <1>1 DEF vars, argVars, ReadInv, ByArgv
<1>2. ASSUME NEW q \in P, q # p, Runs(q) \/ CallFails(q) PROVE ReadInv(p)'
  <2>1. /\ how' = how /\ pc'[p] = pc[p] /\ arg_vals'[p] = arg_vals[p]
        /\ optind'[p] = optind[p] /\ count'[p] = count[p]
    BY <1>2, StepOfOne DEF OnlyOf
  <2> QED
    BY <2>1 DEF ReadInv, ByArgv
<1>3. CASE Start(p)
  <2>1. \A c : Len(<<c>>) = 1
    OBVIOUS
  <2>2. count'[p] = count[p] /\ optind'[p] = optind[p] /\ how' = how
    BY <1>3 DEF Start
  <2>3. CASE StartByArgv(p)
    BY <1>t, <2>2, <2>3 DEF StartByArgv, Goes, ReadInv, ByArgv
  <2>4. CASE StartByConfig(p)
    <3>1. /\ pc'[p] = "values" /\ how'[p] = <<"config">>
          /\ \A k \in Options : arg_vals'[p][k].val = FromConfig
      BY <1>t, <2>2, <2>4 DEF StartByConfig, Goes, ReadsConfig
    <3> QED
      BY <2>1, <2>2, <3>1 DEF ReadInv, ByArgv
  <2>5. CASE StartNoSection(p)
    BY <1>t, <2>1, <2>2, <2>5 DEF StartNoSection, Goes, ReadInv, ByArgv
  <2>6. CASE StartRefused(p)
    BY <1>t, <2>2, <2>6 DEF StartRefused, Exits, ReadInv
  <2> QED
    BY <1>3, <2>3, <2>4, <2>5, <2>6 DEF Start
<1>4. CASE ArgvReader(p)
  <2>1. /\ how' = how /\ ByArgv(p) /\ count'[p] < optind'[p]
        /\ pc'[p] \in {"getopt", "values", "exit"}
        /\ pc'[p] = "values" => p = TxProxy \/ optind'[p] = 4
    <3>1. how' = how
      BY <1>4 DEF ArgvReader
    <3>2. /\ optind[p] \in 1 .. 4 /\ count[p] \in 0 .. 3
          /\ count[p] < optind[p]
      BY <1>t DEF ReadInv
    <3>3. ByArgv(p)
      BY <1>4, ReaderRound
    <3>4. \/ /\ optind'[p] = optind[p] /\ count'[p] = count[p]
             /\ pc'[p] \in {"values", "exit"}
             /\ pc'[p] = "values" => p = TxProxy \/ optind[p] = 4
          \/ /\ optind'[p] = optind[p] + 1 /\ count'[p] = count[p]
             /\ pc'[p] = "getopt"
          \/ \E n \in {optind[p], optind[p] + 1} :
                optind'[p] = n + 1 /\ count'[p] = count[p] + 1 /\ pc'[p] = "getopt"
      BY <1>4, ReaderRound, Zenon DEF argVars
    <3> QED
      BY <3>1, <3>2, <3>3, <3>4
  <2> QED
    BY <2>1 DEF ReadInv, ByArgv
<1>5. CASE GetArgv(p) \/ Listen(p) \/ Connect(p) \/ CallFails(p)
  <2>1. /\ UNCHANGED <<how, arg_vals, optind, count>>
        /\ pc'[p] = "exit" \/ (pc'[p] = "setup" /\ pc[p] \in {"values", "setup"})
    BY <1>5, <1>t DEF GetArgv, Listen, Connect, CallFails, Goes, Exits, argVars
  <2> QED
    BY <2>1 DEF ReadInv, ByArgv
<1> QED
  BY <1>1, <1>2, <1>3, <1>4, <1>5 DEF Next, Runs

\* A program that is up has been waited for, and stays up.
LEMMA UpNext == TypeOK /\ UpInv /\ [Next]_vars => UpInv'
<1> SUFFICES ASSUME TypeOK, UpInv, [Next]_vars, patient', NEW p \in P, p > 1,
                    pc'[p] # "off"
             PROVE  Up(p - 1)'
  BY DEF UpInv
<1>0. p - 1 \in P
  BY DEF P
<1>1. Up(p - 1)
  <2>1. CASE pc[p] # "off"
    <3>1. patient
      BY StepOfOne DEF Next, OnlyOf, vars
    <3> QED
      BY <2>1, <3>1 DEF UpInv
  <2>2. CASE pc[p] = "off"
    <3>1. Start(p)
      <4>1. Runs(p) \/ CallFails(p)
        BY <2>2, StepOfOne DEF Next, OnlyOf, vars
      <4> QED
        BY <2>2, <4>1 DEF Runs, ArgvReader, GetArgv, Listen, Connect, CallFails
    <3> QED
      BY <3>1 DEF Start
  <2> QED
    BY <2>1, <2>2
<1> QED
  BY <1>0, <1>1, StaysUp

-----------------------------------------------------------------------------
(* Options in any order                                                    *)

\* Where every word has filled its entry, get_argv finds each option in the
\* entry of its own word, and no other.
LEMMA EachFound ==
  ASSUME TypeOK, CallsOK, NEW p \in P, AllGiven(p), ReadSoFar(p), optind[p] = 4
  PROVE  /\ \A k \in 1 .. 3 : Value(p, how[p][k][2]) = k
         /\ \A o \in Options : Entries(p, o) # {} /\ Value(p, o) # Unset
<1>1. \A k \in 1 .. 3 : how[p][k][1] = "--o=v" /\ how[p][k][2] \in Options
  BY WordsOf DEF AllGiven
<1>2. \A k \in Options : arg_vals[p][k] = [key |-> how[p][k][2], val |-> k]
  BY DEF ReadSoFar, Options
<1>3. \A o \in Options : \E k \in 1 .. 3 : how[p][k][2] = o
  <2>1. /\ how[p][1][2] \in 1 .. 3 /\ how[p][2][2] \in 1 .. 3
        /\ how[p][3][2] \in 1 .. 3
    BY <1>1 DEF Options
  <2>2. /\ how[p][1][2] # how[p][2][2] /\ how[p][1][2] # how[p][3][2]
        /\ how[p][2][2] # how[p][3][2]
    BY DEF AllGiven
  <2>3. \A o \in 1 .. 3 :
           how[p][1][2] = o \/ how[p][2][2] = o \/ how[p][3][2] = o
    BY <2>1, <2>2
  <2> QED
    BY <2>3 DEF Options
<1>4. \A k \in 1 .. 3 : Entries(p, how[p][k][2]) = {k}
  BY <1>2 DEF Entries, AllGiven, Options
<1>5. ASSUME NEW k \in 1 .. 3 PROVE Value(p, how[p][k][2]) = k
  <2>1. (CHOOSE e \in {k} : \A m \in {k} : e <= m) = k
    OBVIOUS
  <2>2. Value(p, how[p][k][2]) = arg_vals[p][k].val
    BY <1>4, <2>1 DEF Value
  <2> QED
    BY <1>2, <2>2 DEF Options
<1>6. ASSUME NEW o \in Options PROVE Entries(p, o) # {} /\ Value(p, o) # Unset
  <2>1. PICK k \in 1 .. 3 : how[p][k][2] = o
    BY <1>3
  <2> QED
    BY <1>4, <1>5, <2>1 DEF Unset
<1> QED
  BY <1>5, <1>6

\* A round of argv_reader reads the next word of a program that got all its
\* options.
LEMMA GivenRound ==
  ASSUME TypeOK, CallsOK, NEW p \in P, ReadInv(p), AllGiven(p), GivenInv(p),
         ArgvReader(p)
  PROVE  GivenInv(p)'
<1>1. /\ pc[p] = "getopt" /\ how' = how /\ ReadSoFar(p)
      /\ optind[p] \in 1 .. 4 /\ count[p] \in Nat
      /\ arg_vals[p] \in [Options -> [key : Options, val : -1 .. 3]]
  BY DEF ArgvReader, GivenInv, TypeOK
<1>2. optind[p] <= 3 => how[p][optind[p]][1] = "--o=v"
  BY <1>1 DEF AllGiven
<1>3. CASE optind[p] = 4 /\ pc'[p] = "values" /\ UNCHANGED argVars
  BY <1>1, <1>3 DEF GivenInv, ReadSoFar, argVars
<1>4. CASE /\ optind[p] <= 3 /\ pc'[p] = "getopt"
           /\ arg_vals'[p] = [arg_vals[p] EXCEPT ![Slot(p)] =
                          [key |-> how[p][optind[p]][2], val |-> optind[p]]]
           /\ optind'[p] = optind[p] + 1 /\ count'[p] = count[p] + 1
  <2>1. Slot(p) = optind[p] /\ Slot(p) \in Options
    BY <1>1, <1>4 DEF Slot, ReadSoFar, Options
  <2>2. \A k \in 1 .. optind[p] :
           arg_vals'[p][k] = [key |-> how[p][k][2], val |-> k]
    <3>1. arg_vals'[p][optind[p]] =
             [key |-> how[p][optind[p]][2], val |-> optind[p]]
      BY <1>1, <1>4, <2>1
    <3>2. ASSUME NEW k \in 1 .. optind[p] - 1
          PROVE  arg_vals'[p][k] = [key |-> how[p][k][2], val |-> k]
      <4>1. k \in Options /\ k # Slot(p)
        BY <1>1, <1>4, <2>1 DEF Options
      <4>2. arg_vals'[p][k] = arg_vals[p][k]
        BY <1>1, <1>4, <4>1
      <4> QED
        BY <1>1, <4>2 DEF ReadSoFar
    <3>3. \A k \in 1 .. optind[p] : k \in 1 .. optind[p] - 1 \/ k = optind[p]
      BY <1>1
    <3> QED
      BY <3>1, <3>2, <3>3
  <2>3. count'[p] = optind'[p] - 1
    BY <1>1, <1>4 DEF ReadSoFar
  <2>4. ReadSoFar(p)'
    BY <1>1, <1>4, <2>2, <2>3 DEF ReadSoFar
  <2> QED
    BY <1>4, <2>4 DEF GivenInv
<1>5. CASE \E n \in {optind[p], optind[p] + 1} :
               /\ n <= 3 /\ pc'[p] = "getopt" /\ Slot(p) \in Options
               /\ how[p][optind[p]][1] = "--o=v" => n = optind[p]
               /\ how[p][optind[p]][1] \in {"--o=v", "--o"}
               /\ arg_vals'[p] = [arg_vals[p] EXCEPT ![Slot(p)] =
                                     [key |-> how[p][optind[p]][2], val |-> n]]
               /\ how[p][optind[p]][2] \in Options
               /\ optind'[p] = n + 1 /\ count'[p] = count[p] + 1
  <2>1. optind[p] <= 3
    BY <1>1, <1>5
  <2> QED
    BY <1>2, <1>4, <1>5, <2>1
<1>6. optind[p] <= 3 => how[p][optind[p]][1] \notin {"--o", "unknown", "word"}
  BY <1>2
<1> QED
  BY <1>3, <1>5, <1>6, ReaderRound

\* What a program makes of all its options survives every step, and a step
\* that ends it is a failed call: the program it connects to is there.
LEMMA GivenNext ==
  /\ TypeOK /\ CallsOK /\ UpInv
  /\ (\A p \in P : ReadInv(p)) /\ (\A p \in P : GivenInv(p)) /\ [Next]_vars
  => \A p \in P : GivenInv(p)'
<1> SUFFICES ASSUME TypeOK, CallsOK, UpInv, \A p \in P : ReadInv(p),
                    \A p \in P : GivenInv(p), [Next]_vars, NEW p \in P, AllGiven(p)'
             PROVE  GivenInv(p)'
  BY DEF GivenInv
<1>t. /\ pc \in [P -> {"off", "getopt", "values", "setup", "exit"}]
      /\ failed \in BOOLEAN
  BY DEF TypeOK, CallsOK
<1>h. how' = how /\ patient' = patient
  BY StepOfOne DEF Next, OnlyOf, vars
<1>g. AllGiven(p) /\ ByArgv(p) /\ patient
  <2>1. AllGiven(p) /\ ByArgv(p)
    BY <1>h DEF AllGiven, ByArgv
  <2> QED
    BY <2>1, WordsOf
<1>k. ASSUME pc[p] # "exit", pc'[p] # "exit", UNCHANGED <<arg_vals, optind, count>>,
             pc'[p] \in {"values", "setup"} => pc[p] \in {"values", "setup"}
      PROVE  GivenInv(p)'
  BY <1>g, <1>h, <1>k DEF GivenInv, ReadSoFar
<1>1. CASE UNCHANGED vars
  BY <1>1, <1>g DEF vars, argVars, GivenInv, ReadSoFar
<1>2. ASSUME NEW q \in P, q # p, Runs(q) \/ CallFails(q) PROVE GivenInv(p)'
  <2>1. /\ pc'[p] = pc[p] /\ arg_vals'[p] = arg_vals[p]
        /\ optind'[p] = optind[p] /\ count'[p] = count[p]
        /\ failed' \in {failed, TRUE}
    BY <1>2, StepOfOne DEF OnlyOf
  <2>2. CASE pc[p] = "exit"
    <3>1. failed
      BY <1>g, <2>2 DEF GivenInv
    <3>2. failed'
      BY <2>1, <3>1
    <3> QED
      BY <2>1, <2>2, <3>2 DEF GivenInv
  <2>3. CASE pc[p] # "exit"
    BY <1>g, <1>h, <2>1, <2>3 DEF GivenInv, ReadSoFar
  <2> QED
    BY <2>2, <2>3
<1>3. CASE Start(p)
  <2>1. \A c : Len(<<c>>) = 1
    OBVIOUS
  <2>2. StartByArgv(p)
    BY <1>3, <1>g, <2>1 DEF Start, StartByConfig, StartNoSection, StartRefused,
                            ByArgv
  <2>3. /\ pc[p] = "off" /\ pc'[p] = "getopt"
        /\ UNCHANGED <<arg_vals, optind, count>>
    BY <1>3, <1>t, <2>2 DEF Start, StartByArgv, Goes
  <2> QED
    BY <1>k, <2>3
<1>4. CASE ArgvReader(p)
  BY <1>4, <1>g, GivenRound
<1>5. CASE GetArgv(p)
  <2>1. pc[p] = "values" /\ ReadSoFar(p) /\ optind[p] = 4
    BY <1>5, <1>g DEF GetArgv, GivenInv
  <2>2. \A o \in Options : Entries(p, o) # {} /\ Value(p, o) # Unset
    BY <1>g, <2>1, EachFound
  <2>3. ~OnJunk(p) /\ ~(\E o \in Options : Entries(p, o) = {})
    BY <2>2 DEF OnJunk
  <2>4. pc'[p] = "setup" /\ UNCHANGED <<arg_vals, optind, count>>
    BY <1>5, <1>t, <2>3 DEF GetArgv, Goes, argVars
  <2> QED
    BY <1>k, <2>1, <2>4
<1>6. CASE Listen(p)
  BY <1>6, <1>k DEF Listen, argVars
<1>7. CASE Connect(p)
  <2>1. p \in Connects /\ pc[p] = "setup" /\ p \in P /\ p > 1
    BY <1>7 DEF Connect, Connects, P
  <2>2. Up(p - 1)
    BY <1>g, <2>1 DEF UpInv
  <2>3. p - 1 \in listening
    BY <2>1, <2>2 DEF Up, Connects, Listens
  <2>4. pc' = pc /\ UNCHANGED <<arg_vals, optind, count>>
    BY <1>7, <2>3 DEF Connect, argVars
  <2> QED
    BY <1>k, <2>1, <2>4
<1>8. CASE CallFails(p)
  <2>1. pc'[p] = "exit" /\ failed'
    BY <1>8, <1>t DEF CallFails, Exits
  <2> QED
    BY <2>1 DEF GivenInv
<1> QED
  BY <1>1, <1>2, <1>3, <1>4, <1>5, <1>6, <1>7, <1>8 DEF Next, Runs

\* The invariants of every program.
ReadAll == \A p \in P : ReadInv(p)
GivenAll == \A p \in P : GivenInv(p)

\* Nothing has been read when no program has been started.
LEMMA StartInit == Init => TypeOK /\ CallsOK /\ UpInv /\ ReadAll /\ GivenAll
<1> SUFFICES ASSUME Init PROVE TypeOK /\ CallsOK /\ UpInv /\ ReadAll /\ GivenAll
  OBVIOUS
<1>1. PICK q \in P, h \in Hows :
         how = [p \in P |-> IF p = q THEN h ELSE <<"config">>]
  BY DEF Init
<1>2. <<"config">> \in Hows
  BY DEF Hows, Configs
<1>3. how \in [P -> Hows]
  BY <1>1, <1>2
<1>4. CallsOK
  BY <1>3 DEF Init, CallsOK
<1>5. TypeOK
  BY DEF Init, TypeOK, Unset, Options
<1>6. UpInv
  BY DEF Init, UpInv
<1>7. ReadAll
  BY DEF Init, ReadAll, ReadInv
<1>8. GivenAll
  BY DEF Init, GivenAll, GivenInv, ReadSoFar
<1> QED
  BY <1>4, <1>5, <1>6, <1>7, <1>8

\* The inductive invariant of the programs' start.
LEMMA StartCorrect == Spec => [](TypeOK /\ CallsOK /\ UpInv /\ ReadAll /\ GivenAll)
<1>1. TypeOK /\ CallsOK /\ UpInv /\ ReadAll /\ GivenAll /\ [Next]_vars
      => TypeOK' /\ CallsOK' /\ UpInv' /\ ReadAll' /\ GivenAll'
  BY StartTypeNext, CallsNext, UpNext, ReadNext, GivenNext DEF ReadAll, GivenAll
<1> QED
  BY <1>1, StartInit, PTL DEF Spec

-----------------------------------------------------------------------------
(* The theorems                                                            *)

\* Whatever the words of a call, argv_reader stays within the three entries of
\* arg_vals and getopt_long within the words.
THEOREM StartupTypeCorrect == Spec => []TypeOK
  BY StartCorrect, PTL

\* Options may be given in any order: get_argv looks each up by its key, so a
\* program that has them all gets each one's own value and comes up, unless a
\* call fails, provided each program is started when the one before is up.
THEOREM OptionsInAnyOrder == Spec => []AnyOrder
<1>1. TypeOK /\ CallsOK /\ GivenAll => AnyOrder
  <2> SUFFICES ASSUME TypeOK, CallsOK, GivenAll, NEW p \in P, AllGiven(p)
               PROVE  /\ pc[p] = "setup" =>
                            \A k \in 1 .. 3 : Value(p, how[p][k][2]) = k
                      /\ pc[p] = "exit" => failed
    BY DEF AnyOrder
  <2>1. GivenInv(p)
    BY DEF GivenAll
  <2> QED
    BY <2>1, EachFound DEF GivenInv
<1> QED
  BY <1>1, StartCorrect, PTL

\* get_argv takes the first of the entries it finds.
LEMMA ValueOfEntry ==
  ASSUME NEW p \in P, NEW o \in Options, Entries(p, o) # {}
  PROVE  \E k \in Options : Value(p, o) = arg_vals[p][k].val
<1>1. \E k \in Entries(p, o) : \A m \in Entries(p, o) : k <= m
  <2>1. Entries(p, o) \subseteq 1 .. 3
    BY DEF Entries, Options
  <2>2. CASE 1 \in Entries(p, o)
    BY <2>1, <2>2
  <2>3. CASE 1 \notin Entries(p, o) /\ 2 \in Entries(p, o)
    BY <2>1, <2>3
  <2>4. CASE 1 \notin Entries(p, o) /\ 2 \notin Entries(p, o)
    BY <2>1, <2>4
  <2> QED
    BY <2>2, <2>3, <2>4
<1>2. (CHOOSE k \in Entries(p, o) : \A m \in Entries(p, o) : k <= m) \in Entries(p, o)
  BY <1>1
<1> QED
  BY <1>2 DEF Value, Entries

\* A program that goes on with a value nobody set was called without its
\* section or without all its options; only tx_proxy, which ignores the result
\* of argv_reader, goes on before its words are all read.
THEOREM JunkHasACause == Spec => []JunkExplained
<1>1. TypeOK /\ CallsOK /\ ReadAll /\ GivenAll => JunkExplained
  <2> SUFFICES ASSUME TypeOK, CallsOK, ReadAll, GivenAll, NEW p \in P,
                      pc[p] = "setup", OnJunk(p)
               PROVE  \/ how[p] = <<"nosection">> /\ p # Receive
                      \/ /\ ByArgv(p) /\ ~AllGiven(p)
                         /\ p # TxProxy => optind[p] = 4
    BY DEF JunkExplained
  <2>1. ReadInv(p) /\ GivenInv(p)
    BY DEF ReadAll, GivenAll
  <2>2. ~AllGiven(p)
    <3> SUFFICES ASSUME AllGiven(p) PROVE FALSE
      OBVIOUS
    <3>1. ReadSoFar(p) /\ optind[p] = 4
      BY <2>1 DEF GivenInv
    <3> QED
      BY <3>1, EachFound DEF OnJunk
  <2>3. PICK o \in Options : Entries(p, o) # {} /\ Value(p, o) = Unset
    BY DEF OnJunk
  <2>4. \E k \in Options : arg_vals[p][k].val = Unset
    BY <2>3, ValueOfEntry
  <2> QED
    BY <2>1, <2>2, <2>4 DEF ReadInv, Unset, FromConfig
<1> QED
  BY <1>1, StartCorrect, PTL
=============================================================================
