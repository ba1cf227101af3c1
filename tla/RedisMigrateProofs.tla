------------------------- MODULE RedisMigrateProofs -------------------------
(***************************************************************************)
(* Proofs about RedisMigrate, for any clients, keys, commands, number      *)
(* widths and registry size.                                               *)
(***************************************************************************)
EXTENDS RedisMigrate, CommandFilter, FiniteSetTheorems, TLAPS

\* What holds of the registry, whoever runs the next command.
RegistryInv ==
  /\ IsFiniteSet(DOMAIN migrating)
  /\ RegistryBounded
  /\ GuardIsUp
  /\ LogBeforeGuard

\* The filter is registered exactly while the module is loaded; the command also
\* exists in the steps before, and after a failure until the server takes it
\* back, when no client is served.  So a request that is queued, or entered, came
\* after both.
LoadInv ==
  /\ filter <=> module = "loaded"
  /\ commands => module \in {"created", "failed", "loaded"}
  /\ \A c \in Clients :
       queued[c] # << >> /\ queued[c][1] = "rm.migrate" => module = "loaded"

IInv == TypeOK /\ RegistryInv /\ LoadInv

-----------------------------------------------------------------------------
(* The operators the model is built from.                                  *)

LEMMA FilteredArrives ==
  ASSUME NEW argv \in Commands
  PROVE  /\ rm_migrateFilter(argv) \in Arrived
         /\ rm_migrateFilter(argv)[1] = argv[1]
BY DEF rm_migrateFilter, Filtered, Arrived

\* What reaches execution is as long as the client's command or one word long.
LEMMA ArrivedShape ==
  ASSUME NEW a \in Arrived
  PROVE  /\ Len(a) \in Nat \ {0}
         /\ a[1] \in Names
         /\ Len(a) # 1 => a \in Commands
BY ServerAssumption DEF Arrived

\* A size_t holds whatever the casts produce.
LEMMA StoredInRange ==
  ASSUME NEW word \in DOMAIN Doubled, NEW n \in StoredSizes(word)
  PROVE  n \in 0 .. SizeLimit - 1
<1>1. Doubled[word] \in Int
  BY ServerAssumption
<1>2. CastToInt(Doubled[word]) \subseteq Int
  BY <1>1, ServerAssumption DEF CastToInt, Truncate, IntMin, IntMax
<1> QED
  BY <1>2, ServerAssumption DEF StoredSizes

-----------------------------------------------------------------------------
(* The handler.                                                            *)

\* While no key is guarded the question for the log file arrives whole: the
\* server answers it, or withholds the name.
LEMMA LogFileFound ==
  ASSUME LogBeforeGuard, initLogObj, logfile \in BOOLEAN, withheld \in BOOLEAN
  PROVE  /\ logfile' \in BOOLEAN /\ withheld' \in BOOLEAN
         /\ logfile' \/ withheld'
<1>1. CASE logfile
  BY <1>1 DEF initLogObj, logVars
<1>2. CASE ~logfile
  <2>1. AskLogfile(rm_migrateFilter(ConfigGetLogfile))
    BY <1>2 DEF initLogObj
  <2>2. Guarded = {} => rm_migrateFilter(ConfigGetLogfile) = ConfigGetLogfile
    BY DEF rm_migrateFilter, Filtered
  <2>3. withheld \/ Guarded = {}
    BY <1>2 DEF LogBeforeGuard
  <2> DEFINE question == rm_migrateFilter(ConfigGetLogfile)
  <2>4. AskLogfile(question)
    BY <2>1
  <2>5. withheld \/ question = ConfigGetLogfile
    BY <2>2, <2>3
  <2> HIDE DEF question
  <2> QED
    BY <2>4, <2>5 DEF AskLogfile
<1> QED
  BY <1>1, <1>2

\* An accepted request adds one entry, of the right type, below the limit.
LEMMA AcceptKeeps ==
  ASSUME TypeOK, RegistryInv, module = "loaded", filter, UNCHANGED filter,
         NEW argv \in Arrived, Outcome(argv) = "OK", Accept(argv)
  PROVE  /\ \A k \in DOMAIN migrating' : migrating'[k] \in MigrateObjects
         /\ isMigrating' \in BOOLEAN /\ logfile' \in BOOLEAN /\ withheld' \in BOOLEAN
         /\ RegistryInv'
<1>1. Len(argv) = 5 /\ argv \in Commands /\ IsNumber(argv[3]) /\ IsNumber(argv[4])
  BY ArrivedShape DEF Outcome
<1>2. PICK port \in StoredSizes(argv[3]), slot \in StoredSizes(argv[4]) :
        Register(argv[5], createMigrateObject(argv[2], port, slot))
  BY DEF Accept
<1>3. createMigrateObject(argv[2], port, slot) \in MigrateObjects
  <2>1. port \in 0 .. SizeLimit - 1 /\ slot \in 0 .. SizeLimit - 1
    BY <1>1, StoredInRange DEF IsNumber
  <2> QED
    BY <1>1, <2>1 DEF createMigrateObject, MigrateObjects
<1>4. \A k \in DOMAIN migrating' : migrating'[k] \in MigrateObjects
  BY <1>2, <1>3 DEF Register, TypeOK
<1>5. DOMAIN migrating' = DOMAIN migrating \cup {argv[5]}
  BY <1>2 DEF Register
<1>6. IsFiniteSet(DOMAIN migrating') /\ RegistryBounded'
  <2>1. /\ IsFiniteSet(DOMAIN migrating)
        /\ Cardinality(DOMAIN migrating) \in Nat
    BY FS_CardinalityType DEF RegistryInv
  <2>2. Cardinality(DOMAIN migrating) < MAX_MIGRATEING_NUM
    BY <2>1, ServerAssumption DEF Outcome
  <2>3. /\ IsFiniteSet(DOMAIN migrating \cup {argv[5]})
        /\ Cardinality(DOMAIN migrating \cup {argv[5]})
             <= Cardinality(DOMAIN migrating) + 1
    <3> DEFINE D == DOMAIN migrating
    <3> HIDE DEF D
    <3>1. IsFiniteSet(D) => /\ IsFiniteSet(D \cup {argv[5]})
                            /\ Cardinality(D \cup {argv[5]}) =
                                 IF argv[5] \in D THEN Cardinality(D)
                                                  ELSE Cardinality(D) + 1
      BY FS_AddElement
    <3> QED
      BY <2>1, <3>1 DEF D
  <2>4. Cardinality(DOMAIN migrating \cup {argv[5]}) \in Nat
    BY <2>3, FS_CardinalityType
  <2> QED
    BY <1>5, <2>1, <2>2, <2>3, <2>4, ServerAssumption DEF RegistryBounded
<1>7. logfile' \in BOOLEAN /\ withheld' \in BOOLEAN /\ (logfile' \/ withheld')
  BY LogFileFound DEF Accept, RegistryInv, TypeOK
<1> QED
  BY <1>4, <1>6, <1>7
     DEF Accept, RegistryInv, GuardIsUp, LogBeforeGuard

\* A refusal leaves the registry alone; at most it finds the log file.
LEMMA RefuseKeeps ==
  ASSUME TypeOK, RegistryInv, UNCHANGED filter, NEW argv, Refuse(argv)
  PROVE  /\ UNCHANGED << migrating, isMigrating >>
         /\ logfile' \in BOOLEAN /\ withheld' \in BOOLEAN
         /\ RegistryInv'
<1>1. UNCHANGED << migrating, isMigrating >>
  BY DEF Refuse
<1>2. CASE UNCHANGED logVars
  BY <1>1, <1>2 DEF logVars, TypeOK, RegistryInv, RegistryBounded, GuardIsUp,
                    LogBeforeGuard, Guarded
<1>3. CASE initLogObj
  <2>1. logfile' \in BOOLEAN /\ withheld' \in BOOLEAN /\ (logfile' \/ withheld')
    BY <1>3, LogFileFound DEF TypeOK, RegistryInv
  <2> QED
    BY <1>1, <2>1 DEF RegistryInv, RegistryBounded, GuardIsUp,
                            LogBeforeGuard
<1> QED
  BY <1>2, <1>3 DEF Refuse

\* The variables that executing or answering a command can change.
AfterCommand ==
  /\ isMigrating \in BOOLEAN /\ logfile \in BOOLEAN /\ withheld \in BOOLEAN
  /\ \A k \in DOMAIN migrating : migrating[k] \in MigrateObjects
  /\ db \in [Keys -> Values]
  /\ reply \in [Clients -> Replies]
  /\ RegistryInv

LEMMA AnswerKeeps ==
  ASSUME TypeOK, RegistryInv, UNCHANGED filter,
         NEW c \in Clients, NEW text \in Replies, Answer(c, text)
  PROVE  AfterCommand'
BY DEF Answer, registryVars, logVars, TypeOK, AfterCommand, RegistryInv, RegistryBounded,
       GuardIsUp, LogBeforeGuard, Guarded

LEMMA ExecuteKeeps ==
  ASSUME TypeOK, RegistryInv, LoadInv, UNCHANGED filter,
         NEW c \in Clients, NEW argv \in Arrived,
         argv[1] = "rm.migrate" => module = "loaded",
         Execute(c, argv)
  PROVE  AfterCommand'
<1>1. CASE argv[1] = "rm.migrate"
  <2>1. rm_migrateCommand(c, argv)
    BY <1>1 DEF Execute
  <2>2. db' \in [Keys -> Values] /\ reply' \in [Clients -> Replies]
    BY <2>1 DEF rm_migrateCommand, Outcome, Replies, TypeOK
  <2>3. CASE Outcome(argv) = "OK"
    <3>1. Accept(argv)
      BY <2>1, <2>3 DEF rm_migrateCommand
    <3> QED
      BY <1>1, <2>2, <2>3, <3>1, AcceptKeeps DEF LoadInv, AfterCommand
  <2>4. CASE Outcome(argv) # "OK"
    <3>1. Refuse(argv)
      BY <2>1, <2>4 DEF rm_migrateCommand
    <3> QED
      BY <2>2, <3>1, RefuseKeeps DEF TypeOK, AfterCommand
  <2> QED
    BY <2>3, <2>4
<1>2. CASE argv[1] # "rm.migrate"
  <2>1. OtherCommand(c, argv)
    BY <1>2 DEF Execute
  <2>2. db' \in [Keys -> Values] /\ reply' \in [Clients -> Replies]
    BY <2>1 DEF OtherCommand, Replies, TypeOK
  <2> QED
    BY <2>1, <2>2 DEF OtherCommand, registryVars, logVars, TypeOK, AfterCommand, RegistryInv,
                      RegistryBounded, GuardIsUp, LogBeforeGuard, Guarded
<1> QED
  BY <1>1, <1>2

-----------------------------------------------------------------------------
(* The server's steps.                                                     *)

LEMMA Inductive == IInv /\ [Next]_vars => IInv'
<1> SUFFICES ASSUME IInv, [Next]_vars PROVE IInv'
  OBVIOUS
<1> USE DEF IInv
<1>1. CASE OnLoad
  <2>1. /\ module' \in {"unloaded", "initialised", "created", "loaded", "failed"}
        /\ commands' \in BOOLEAN /\ filter' \in BOOLEAN
        /\ filter' <=> module' = "loaded"
        /\ commands' => module' \in {"created", "failed", "loaded"}
        /\ module # "loaded"
    <3>1. CASE Initialise
      BY <3>1 DEF Initialise, TypeOK, LoadInv
    <3>2. CASE CreateCommand
      <4>1. CASE commands'
        BY <3>2, <4>1 DEF CreateCommand, TypeOK, LoadInv
      <4>2. CASE ~commands'
        BY <3>2, <4>2 DEF CreateCommand, TypeOK, LoadInv
      <4> QED
        BY <4>1, <4>2
    <3>3. CASE RegisterFilter
      <4>1. CASE filter'
        BY <3>3, <4>1 DEF RegisterFilter, TypeOK
      <4>2. CASE ~filter'
        BY <3>3, <4>2 DEF RegisterFilter, TypeOK
      <4> QED
        BY <4>1, <4>2
    <3>4. CASE TakeBack
      BY <3>4 DEF TakeBack, TypeOK, LoadInv
    <3> QED
      BY <1>1, <3>1, <3>2, <3>3, <3>4 DEF OnLoad
  <2>2. DOMAIN migrating = {}
    BY <2>1 DEF RegistryInv, GuardIsUp, LoadInv
  <2>3. \A c \in Clients : ~ (queued[c] # << >> /\ queued[c][1] = "rm.migrate")
    BY <2>1 DEF LoadInv
  <2>4. /\ UNCHANGED << migrating, isMigrating, logfile, withheld >>
        /\ UNCHANGED << db, multi, queued, reply >>
    BY <1>1 DEF OnLoad, registryVars, logVars
  <2>5. TypeOK'
    BY <2>1, <2>4 DEF TypeOK
  <2>6. RegistryInv'
    BY <2>2, <2>4 DEF RegistryInv, RegistryBounded, GuardIsUp, LogBeforeGuard,
                      Guarded
  <2> QED
    BY <2>1, <2>3, <2>4, <2>5, <2>6 DEF LoadInv
<1>2. ASSUME NEW c \in Clients, NEW argv \in Commands, Command(c, argv)
      PROVE  IInv'
  <2> DEFINE left == rm_migrateFilter(argv)
  <2>1. left \in Arrived
    BY FilteredArrives
  <2>2. UNCHANGED << module, commands, filter, multi, queued >> /\ Serving
    BY <1>2 DEF Command, loadVars
  <2>3. AfterCommand'
    <3>1. CASE Valid(left)
      <4>1. Execute(c, left)
        BY <1>2, <3>1 DEF Command
      <4>2. left[1] = "rm.migrate" => module = "loaded"
        BY <2>2, <3>1 DEF Valid, Known, Serving, LoadInv
      <4> QED
        BY <2>1, <2>2, <4>1, <4>2, ExecuteKeeps
    <3>2. CASE ~Valid(left)
      <4>1. Answer(c, "ERR")
        BY <1>2, <3>2 DEF Command
      <4> QED
        BY <2>2, <4>1, AnswerKeeps DEF Replies
    <3> QED
      BY <3>1, <3>2
  <2> QED
    BY <2>2, <2>3 DEF AfterCommand, TypeOK, LoadInv
<1>3. ASSUME NEW c \in Clients, NEW argv \in Commands,
             KeysPositionRequest(c, argv)
      PROVE  IInv'
  <2>1. UNCHANGED << module, commands, filter, multi, queued >>
    BY <1>3 DEF KeysPositionRequest, loadVars
  <2>2. AfterCommand'
    BY <1>3, <2>1, AnswerKeeps DEF KeysPositionRequest, Replies
  <2> QED
    BY <2>1, <2>2 DEF AfterCommand, TypeOK, LoadInv
<1>4. ASSUME NEW c \in Clients, Multi(c) PROVE IInv'
  <2>1. UNCHANGED << module, commands, filter, queued >>
    BY <1>4 DEF Multi, loadVars
  <2>2. AfterCommand'
    BY <1>4, <2>1, AnswerKeeps DEF Multi, Replies
  <2>3. multi' \in [Clients -> {"none", "open", "aborted"}]
    BY <1>4 DEF Multi, TypeOK
  <2> QED
    BY <2>1, <2>2, <2>3 DEF AfterCommand, TypeOK, LoadInv
<1>5. ASSUME NEW c \in Clients, NEW argv \in Commands, Queue(c, argv)
      PROVE  IInv'
  <2> DEFINE left == rm_migrateFilter(argv)
  <2>1. left \in Arrived
    BY FilteredArrives
  <2>2. UNCHANGED << module, commands, filter >> /\ Serving
    BY <1>5 DEF Queue, loadVars
  <2>3. CASE Valid(left)
    <3>1. /\ queued' = [queued EXCEPT ![c] = left]
          /\ Answer(c, "QUEUED") /\ UNCHANGED multi
      BY <1>5, <2>3 DEF Queue
    <3>2. AfterCommand'
      BY <2>2, <3>1, AnswerKeeps DEF Replies
    <3>3. queued' \in [Clients -> Arrived \cup {<< >>}]
      BY <2>1, <3>1 DEF TypeOK
    <3>4. LoadInv'
      BY <2>2, <2>3, <3>1 DEF LoadInv, Valid, Known, Serving, TypeOK
    <3> QED
      BY <2>2, <3>1, <3>2, <3>3, <3>4 DEF AfterCommand, TypeOK
  <2>4. CASE ~Valid(left)
    <3>1. /\ multi' = [multi EXCEPT ![c] = "aborted"]
          /\ Answer(c, "ERR") /\ UNCHANGED queued
      BY <1>5, <2>4 DEF Queue
    <3>2. AfterCommand'
      BY <2>2, <3>1, AnswerKeeps DEF Replies
    <3>3. multi' \in [Clients -> {"none", "open", "aborted"}]
      BY <3>1 DEF TypeOK
    <3> QED
      BY <2>2, <3>1, <3>2, <3>3 DEF AfterCommand, TypeOK, LoadInv
  <2> QED
    BY <2>3, <2>4
<1>6. ASSUME NEW c \in Clients, Exec(c) PROVE IInv'
  <2>1. UNCHANGED << module, commands, filter >>
    BY <1>6 DEF Exec, loadVars
  <2>2. /\ multi' \in [Clients -> {"none", "open", "aborted"}]
        /\ queued' \in [Clients -> Arrived \cup {<< >>}]
        /\ LoadInv'
    BY <1>6, <2>1 DEF Exec, TypeOK, LoadInv
  <2>3. CASE multi[c] = "open" /\ queued[c] # << >>
    <3>1. Execute(c, queued[c]) /\ queued[c] \in Arrived
      BY <1>6, <2>3 DEF Exec, TypeOK
    <3>2. AfterCommand'
      BY <2>1, <2>3, <3>1, ExecuteKeeps DEF LoadInv
    <3> QED
      BY <2>1, <2>2, <3>2 DEF AfterCommand, TypeOK
  <2>4. CASE ~ (multi[c] = "open" /\ queued[c] # << >>)
    <3>1. Answer(c, "nothing executed")
      BY <1>6, <2>4 DEF Exec
    <3>2. AfterCommand'
      BY <2>1, <3>1, AnswerKeeps DEF Replies
    <3> QED
      BY <2>1, <2>2, <3>2 DEF AfterCommand, TypeOK
  <2> QED
    BY <2>3, <2>4
<1>7. CASE UNCHANGED vars
  BY <1>7 DEF vars, loadVars, registryVars, logVars, TypeOK, RegistryInv, RegistryBounded, GuardIsUp,
              LogBeforeGuard, Guarded, LoadInv
<1> QED
  BY <1>1, <1>2, <1>3, <1>4, <1>5, <1>6, <1>7 DEF Next

LEMMA InitIInv == Init => IInv
<1> SUFFICES ASSUME Init PROVE IInv
  OBVIOUS
<1>1. DOMAIN migrating = {} /\ Guarded = {}
  BY DEF Init, Guarded
<1>2. IsFiniteSet({}) /\ Cardinality({}) = 0
  BY FS_EmptySet
<1>3. TypeOK
  BY <1>1 DEF Init, TypeOK, Replies
<1>4. RegistryInv
  BY <1>1, <1>2, ServerAssumption
     DEF RegistryInv, RegistryBounded, GuardIsUp, LogBeforeGuard
<1>5. LoadInv
  BY DEF Init, LoadInv
<1> QED
  BY <1>3, <1>4, <1>5 DEF IInv

\* The inductive invariant holds in every reachable state.
THEOREM InvariantHolds == Spec => []IInv
BY InitIInv, Inductive, PTL DEF Spec

\* Every variable keeps its type.
THEOREM TypeCorrect == Spec => []TypeOK
<1>1. IInv => TypeOK
  BY DEF IInv
<1> QED
  BY InvariantHolds, <1>1, PTL

\* The registry stays within MAX_MIGRATEING_NUM, whatever clients send.
THEOREM RegistryLimit == Spec => []RegistryBounded
<1>1. IInv => RegistryBounded
  BY DEF IInv, RegistryInv
<1> QED
  BY InvariantHolds, <1>1, PTL

\* No key is registered unless the filter is registered and switched on, at
\* whatever call RedisModule_OnLoad has failed before.  And if the filter logs
\* while the log file is unknown, that is because the server, asked in full, did
\* not name it, never because the filter cut the question, not even when a key
\* is named like the sub-command that asks for the file.
THEOREM Guarding == Spec => []GuardReady
<1>1. IInv => GuardReady
  BY DEF IInv, RegistryInv, GuardReady
<1> QED
  BY InvariantHolds, <1>1, PTL

-----------------------------------------------------------------------------
(* What a step does to guarded keys.                                       *)

Kept(k) == k \in DOMAIN migrating' /\ migrating'[k] = migrating[k]

LEMMA ExecuteRespects ==
  ASSUME NEW c \in Clients, NEW argv, Execute(c, argv), NEW k \in Guarded
  PROVE  Kept(k)
<1>1. k \in DOMAIN migrating
  BY DEF Guarded
<1>2. CASE UNCHANGED migrating
  BY <1>1, <1>2 DEF Kept
<1>3. CASE Outcome(argv) = "OK" /\ Accept(argv)
  <2>1. argv[5] # k
    BY <1>3 DEF Outcome
  <2> QED
    BY <1>1, <1>3, <2>1 DEF Accept, Register, Kept
<1> QED
  BY <1>2, <1>3 DEF Execute, rm_migrateCommand, Refuse, OtherCommand,
                    registryVars

\* The first accepted request of a key stands for ever.
THEOREM FirstWins == Spec => FirstRequestWins
<1>1. ASSUME [Next]_vars, NEW k \in Guarded PROVE Kept(k)
  <2>1. k \in DOMAIN migrating
    BY DEF Guarded
  <2>2. CASE UNCHANGED migrating
    BY <2>1, <2>2 DEF Kept
  <2>3. ASSUME NEW c \in Clients, NEW argv, Execute(c, argv) PROVE Kept(k)
    BY <2>3, ExecuteRespects
  <2> QED
    BY <1>1, <2>2, <2>3
       DEF Next, OnLoad, Command, KeysPositionRequest, Multi, Queue, Exec,
           Answer, registryVars, vars
<1>2. [Next]_vars =>
        [ \A k \in Guarded :
            k \in DOMAIN migrating' /\ migrating'[k] = migrating[k] ]_vars
  BY <1>1 DEF Kept
<1> QED
  BY <1>2, PTL DEF Spec, FirstRequestWins

\* The filter cuts a command that names a guarded key first to its name, and a
\* name is not a key: what is written then, is written further back.
LEMMA WritesOnlyBehind ==
  ASSUME GuardIsUp, NEW argv \in Commands, NEW k \in Guarded,
         k \in Written(rm_migrateFilter(argv))
  PROVE  argv[2] \notin Guarded /\ Behind(argv, k)
<1>1. filter /\ isMigrating
  BY DEF GuardIsUp, Guarded
<1>2. rm_migrateFilter(argv) = Filtered(argv, Guarded)
  BY <1>1 DEF rm_migrateFilter
<1>3. /\ Len(argv) \in Nat \ {0}
      /\ Writes[argv[1]] \subseteq Nat \ {0, 1}
  BY ServerAssumption
<1>4. CASE Len(argv) >= 2 /\ argv[2] \in Guarded
  <2>1. rm_migrateFilter(argv) = << argv[1] >>
    BY <1>2, <1>4 DEF Filtered
  <2> QED
    BY <1>3, <2>1 DEF Written
<1>5. CASE ~ (Len(argv) >= 2 /\ argv[2] \in Guarded)
  <2>1. rm_migrateFilter(argv) = argv
    BY <1>2, <1>5 DEF Filtered
  <2>2. PICK i \in Writes[argv[1]] \cap 1 .. Len(argv) : argv[i] = k
    BY <2>1 DEF Written
  <2>3. i >= 2 /\ i <= Len(argv) /\ argv[2] \notin Guarded
    BY <1>3, <1>5, <2>2
  <2> QED
    BY <2>2, <2>3 DEF Behind
<1> QED
  BY <1>4, <1>5

\* A key that is being migrated changes only behind the filter's back: when a
\* transaction is executed, or by a command whose first word is another one.
\* The runs migrate_multikey and migrate_exec show that both ways exist.
THEOREM GuardedKeysChange == Spec => ChangesOnlyUnseen
<1> DEFINE Unseen(k) ==
      \E c \in Clients :
        \/ Exec(c)
        \/ \E argv \in Commands :
             /\ Command(c, argv)
             /\ argv[2] \notin Guarded /\ Behind(argv, k)
<1>1. ASSUME IInv, [Next]_vars, NEW k \in Guarded \cap Keys, db'[k] # db[k]
      PROVE  Unseen(k)
  <2>1. db \in [Keys -> Values] /\ GuardIsUp
    BY <1>1 DEF IInv, TypeOK, RegistryInv
  <2>2. ASSUME NEW c \in Clients, NEW argv \in Commands, Command(c, argv)
        PROVE  Unseen(k)
    <3> DEFINE left == rm_migrateFilter(argv)
    <3>1. db' = db \/ \E v \in Values :
            db' = [j \in Keys |-> IF j \in Written(left) THEN v ELSE db[j]]
      BY <2>2 DEF Command, Execute, rm_migrateCommand, OtherCommand, Answer
    <3>2. k \in Written(left)
      BY <1>1, <2>1, <3>1
    <3> QED
      BY <2>1, <2>2, <3>2, WritesOnlyBehind
  <2>3. ASSUME NEW c \in Clients, Exec(c)
        PROVE  Unseen(k)
    BY <2>3
  <2>4. CASE UNCHANGED db
    BY <1>1, <2>4
  <2> QED
    BY <1>1, <2>2, <2>3, <2>4
       DEF Next, OnLoad, KeysPositionRequest, Multi, Queue, Answer, vars
<1>2. IInv /\ [Next]_vars =>
        [ \A k \in Guarded \cap Keys : db'[k] # db[k] => Unseen(k) ]_vars
  BY <1>1
<1> QED
  BY <1>2, InvariantHolds, PTL DEF Spec, ChangesOnlyUnseen

-----------------------------------------------------------------------------
(* The loop of rm_migrateFilter computes the closed form the registry uses *)
(* it by, for commands of any length and any set of guarded keys.          *)

\* Until the key is found nothing has been deleted, and the arguments passed
\* are not it; afterwards pos stays behind the name and arguments only go.
LoopInv ==
  /\ guarded # {} => migratingFlag
  /\ ~isMigratingKey =>
       /\ args = original /\ logged = 0
       /\ pos <= Len(original)
       /\ pos >= 2 => original[2] \notin guarded
  /\ isMigratingKey =>
       /\ pos = 1 /\ logged = 1 /\ migratingFlag
       /\ Len(original) >= 2 /\ original[2] \in guarded
       /\ Len(args) < Len(original) /\ args[1] = original[1]
  /\ returned => ~migratingFlag \/ pos >= Len(args)

LoopIInv == LoopTypeOK /\ LoopInv

LEMMA DeleteShortens ==
  ASSUME NEW S, NEW s \in Seq(S), NEW i \in Nat, i < Len(s)
  PROVE  /\ Delete(s, i) \in Seq(S)
         /\ Len(Delete(s, i)) = Len(s) - 1
         /\ \A j \in 1 .. i : Delete(s, i)[j] = s[j]
BY DEF Delete

LEMMA InitLoopIInv == LoopInit => LoopIInv
<1> SUFFICES ASSUME LoopInit PROVE LoopIInv
  OBVIOUS
<1>1. PICK n \in 1 .. MaxArgc : original \in [1 .. n -> Words]
  BY DEF LoopInit
<1>2. n \in Nat /\ n >= 1
  BY FilterAssumption
<1>3. original \in Seq(Words) /\ Len(original) = n
  BY <1>1, <1>2
<1>4. LoopTypeOK
  BY <1>2, <1>3 DEF LoopInit, LoopTypeOK
<1>5. LoopInv
  BY <1>2, <1>3 DEF LoopInit, LoopInv
<1> QED
  BY <1>4, <1>5 DEF LoopIInv

LEMMA LoopInductive == LoopIInv /\ [LoopNext]_loopVars => LoopIInv'
<1> SUFFICES ASSUME LoopIInv, [LoopNext]_loopVars PROVE LoopIInv'
  OBVIOUS
<1> USE DEF LoopIInv, LoopTypeOK, LoopInv, inputVars, InLoop, ArgsCount
<1>1. CASE Return
  BY <1>1 DEF Return
<1>2. CASE DeleteRest
  <2>1. pos = 1 /\ pos < Len(args)
    BY <1>2 DEF DeleteRest
  <2>2. /\ args' \in Seq(Words) /\ Len(args') = Len(args) - 1
        /\ args'[1] = args[1]
    <3>1. args' = Delete(args, 1) /\ args \in Seq(Words)
      BY <1>2, <2>1 DEF DeleteRest
    <3>2. 1 \in Nat /\ 1 < Len(args)
      BY <2>1
    <3>3. /\ Delete(args, 1) \in Seq(Words) /\ Len(Delete(args, 1)) = Len(args) - 1
          /\ \A j \in 1 .. 1 : Delete(args, 1)[j] = args[j]
      <4> HIDE DEF LoopIInv, LoopTypeOK, LoopInv, InLoop, ArgsCount
      <4>1. args \in Seq(Words)
        BY <3>1
      <4> QED
        BY <3>2, <4>1, DeleteShortens
    <3> QED
      BY <3>1, <3>3
  <2> QED
    BY <1>2, <2>1, <2>2 DEF DeleteRest
<1>3. CASE DeleteKey
  <2>1. /\ pos = 1 /\ pos < Len(args) /\ args = original
        /\ original[2] \in guarded
    BY <1>3 DEF DeleteKey, KeyFound, ArgGet
  <2>2. /\ args' \in Seq(Words) /\ Len(args') = Len(args) - 1
        /\ args'[1] = args[1]
    <3>1. args' = Delete(args, 1) /\ args \in Seq(Words)
      BY <1>3, <2>1 DEF DeleteKey
    <3>2. 1 \in Nat /\ 1 < Len(args)
      BY <2>1
    <3>3. /\ Delete(args, 1) \in Seq(Words) /\ Len(Delete(args, 1)) = Len(args) - 1
          /\ \A j \in 1 .. 1 : Delete(args, 1)[j] = args[j]
      <4> HIDE DEF LoopIInv, LoopTypeOK, LoopInv, InLoop, ArgsCount
      <4>1. args \in Seq(Words)
        BY <3>1
      <4> QED
        BY <3>2, <4>1, DeleteShortens
    <3> QED
      BY <3>1, <3>3
  <2> QED
    BY <1>3, <2>1, <2>2 DEF DeleteKey
<1>4. CASE KeepArgument
  BY <1>4 DEF KeepArgument, KeyFound, ArgGet
<1>5. CASE UNCHANGED loopVars
  BY <1>5 DEF loopVars
<1> QED
  BY <1>1, <1>2, <1>3, <1>4, <1>5 DEF LoopNext

LEMMA LoopInvariantHolds == LoopSpec => []LoopIInv
BY InitLoopIInv, LoopInductive, PTL DEF LoopSpec

\* The loop of rm_migrateFilter stays inside the argument list that it shortens.
THEOREM LoopTypeCorrect == LoopSpec => []LoopTypeOK
<1>1. LoopIInv => LoopTypeOK
  BY DEF LoopIInv
<1> QED
  BY LoopInvariantHolds, <1>1, PTL

\* However long the command, the loop returns it whole or cut to its name, and logs
\* the cut once.
THEOREM LoopComputesFilter == LoopSpec => []FilterResult
<1>1. LoopIInv => FilterResult
  <2> SUFFICES ASSUME LoopIInv, returned
               PROVE  /\ args = Filtered(original, guarded)
                      /\ logged = IF args = original THEN 0 ELSE 1
    BY DEF FilterResult
  <2> USE DEF LoopIInv, LoopTypeOK, LoopInv, Filtered
  <2>1. CASE isMigratingKey
    <3>1. Len(args) = 1
      <4>1. pos = 1 /\ pos >= Len(args)
        BY <2>1
      <4>2. Len(args) \in Nat /\ Len(args) >= 1
        OBVIOUS
      <4>3. \A n \in Nat : 1 >= n /\ n >= 1 => n = 1
        OBVIOUS
      <4>4. 1 >= Len(args)
        BY <4>1
      <4> QED
        BY <4>2, <4>3, <4>4
    <3>2. args = << args[1] >>
      BY <3>1
    <3> QED
      BY <2>1, <3>2
  <2>2. CASE ~isMigratingKey /\ migratingFlag
    <3>1. Len(original) >= 2 => original[2] \notin guarded
      BY <2>2
    <3> QED
      BY <2>2, <3>1
  <2>3. CASE ~isMigratingKey /\ ~migratingFlag
    BY <2>3
  <2> QED
    BY <2>1, <2>2, <2>3
<1> QED
  BY LoopInvariantHolds, <1>1, PTL
=============================================================================
