---------------------------- MODULE RedisMigrate ----------------------------
(***************************************************************************)
(* The module of redis_migrate.cpp inside a Redis server: rm.migrate       *)
(* enters keys in a registry, and a command filter strips the commands     *)
(* that address a registered key.                                          *)
(*                                                                         *)
(* Redis runs commands one at a time, so a command is one action: filter,  *)
(* look-up, arity check, execution.  What is not one action is MULTI: a    *)
(* command is filtered when it is queued and runs, unfiltered, at EXEC.    *)
(* The server itself (dispatch, transactions, other commands) is external  *)
(* to the module and modelled as far as the module depends on it.          *)
(***************************************************************************)
EXTENDS Integers, Sequences, FiniteSets, FilterRule

CONSTANTS
  Clients,
  Transactions,        \* the clients that use MULTI
  Keys,
  Values,              \* what a write can leave in a key
  EmptyHost,           \* the host argument of length 0
  Commands,            \* the commands clients send: sequences of words
  MinArgc, Writes,     \* per command name: least length, positions it writes
  Doubled,             \* the words RM_StringToDouble accepts, as halves
  IntLimit, SizeLimit, \* 2^31 and 2^64: an int is below the first in size
  MAX_MIGRATEING_NUM

\* The command initLogObj sends through RM_Call, itself filtered.
ConfigGetLogfile == << "config", "get", "logfile" >>

Names == DOMAIN MinArgc

ASSUME ServerAssumption ==
  /\ MAX_MIGRATEING_NUM \in Nat \ {0}
  /\ Keys # {} /\ IsFiniteSet(Keys)
  /\ IntLimit \in Nat \ {0} /\ SizeLimit \in Nat \ {0}
  /\ \A w \in DOMAIN Doubled : Doubled[w] \in Int
  /\ DOMAIN Writes = Names
  /\ \A a \in Commands : Len(a) \in Nat \ {0} /\ a[1] \in Names
  /\ \A n \in Names : MinArgc[n] \in Nat \ {0} /\ Writes[n] \subseteq Nat \ {0, 1}

VARIABLES
  module,        \* how far RedisModule_OnLoad has come
  commands,      \* TRUE: rm.migrate is in the server's command table
  filter,        \* TRUE: rm_migrateFilter is registered with the server
  migrating,     \* the registry, from keys to migration objects
  isMigrating,
  logfile,       \* TRUE: mLog.logfile is not null
  withheld,      \* history: the server has seen the whole question for the log
                 \* file and not answered it with two items
  db,            \* the value of every key
  multi,         \* per client: is a transaction open
  queued,        \* per client: the command queued in it
  reply          \* per client: the last reply

logVars      == << logfile, withheld >>
registryVars == << migrating, isMigrating, logVars >>
loadVars     == << module, commands, filter >>
vars         == << loadVars, registryVars, db, multi, queued, reply >>

-----------------------------------------------------------------------------
(* Numbers.  RM_StringToDouble's result is cast to int, then stored as a   *)
(* size_t: the fraction is cut off and a negative number wraps.            *)

IsNumber(word) == word \in DOMAIN Doubled

Truncate(h) == IF h >= 0 THEN h \div 2 ELSE -((-h) \div 2)

IntMin == -IntLimit
IntMax == IntLimit - 1

\* (int) of a double out of range is undefined: x86 gives INT_MIN, ARM the
\* nearest int.
CastToInt(h) ==
  IF Truncate(h) \in IntMin .. IntMax THEN {Truncate(h)} ELSE {IntMin, IntMax}

\* Mutation: the int is kept with its sign.
SignedSizes(word) == CastToInt(Doubled[word])

StoredSizes(word) == {i % SizeLimit : i \in CastToInt(Doubled[word])}

-----------------------------------------------------------------------------
(* The registry.                                                           *)

createMigrateObject(host, port, slot) ==
  [host |-> host, port |-> port, slot |-> slot]

\* findMigrating(k).hostLen > 0: an entry is seen only if its host is not empty.
Guarded == {k \in DOMAIN migrating : migrating[k].host # EmptyHost}

\* Mutation: the filter looks one argument too far.
filterNextArgument(argv) ==
  IF filter /\ isMigrating /\ Len(argv) >= 3 /\ argv[3] \in Guarded
    THEN << argv[1] >> ELSE argv

\* rm_migrateFilter, on every command that arrives, RM_Call's included.
rm_migrateFilter(argv) ==
  IF filter /\ isMigrating THEN Filtered(argv, Guarded) ELSE argv

\* The file is known once two items have come back; any other number is logged
\* and the caller goes on without it.  The server need not give them (it can
\* answer with an error), and to "config" alone it never does.
AskLogfile(question) ==
  \E items \in IF question = ConfigGetLogfile THEN {0, 2} ELSE {0} :
    /\ logfile'  = (items = 2)
    /\ withheld' = (withheld \/ (question = ConfigGetLogfile /\ items # 2))

initLogObj ==
  \/ logfile /\ UNCHANGED logVars
  \/ ~logfile /\ AskLogfile(rm_migrateFilter(ConfigGetLogfile))

\* Mutation: migrating.size() > MAX_MIGRATEING_NUM.
OutcomeOffByOne(argv) ==
  IF Len(argv) # 5 THEN "args number failed"
  ELSE IF ~IsNumber(argv[3]) \/ ~IsNumber(argv[4]) THEN "ERR invalid port"
  ELSE IF Cardinality(DOMAIN migrating) > MAX_MIGRATEING_NUM
    THEN "migrating key is bigger 50"
  ELSE IF argv[5] \in Guarded THEN "migrating, try again later"
  ELSE "OK"

\* Mutation: the entry of the key is not looked up.
OutcomeUnchecked(argv) ==
  IF Len(argv) # 5 THEN "args number failed"
  ELSE IF ~IsNumber(argv[3]) \/ ~IsNumber(argv[4]) THEN "ERR invalid port"
  ELSE IF Cardinality(DOMAIN migrating) >= MAX_MIGRATEING_NUM
    THEN "migrating key is bigger 50"
  ELSE "OK"

Outcome(argv) ==
  IF Len(argv) # 5 THEN "args number failed"
  ELSE IF ~IsNumber(argv[3]) \/ ~IsNumber(argv[4]) THEN "ERR invalid port"
  ELSE IF Cardinality(DOMAIN migrating) >= MAX_MIGRATEING_NUM
    THEN "migrating key is bigger 50"
  ELSE IF argv[5] \in Guarded THEN "migrating, try again later"
  ELSE "OK"

\* migrating[keyStr] = m
Register(key, m) ==
  migrating' = [k \in DOMAIN migrating \cup {key} |->
                  IF k = key THEN m ELSE migrating[k]]

\* Mutation: the log file is asked for once the key is registered.
AcceptThenLog(argv) ==
  /\ \E port \in StoredSizes(argv[3]), slot \in StoredSizes(argv[4]) :
       Register(argv[5], createMigrateObject(argv[2], port, slot))
  /\ isMigrating' = TRUE
  /\ IF logfile THEN UNCHANGED logVars
     ELSE AskLogfile(Filtered(ConfigGetLogfile, Guarded \cup {argv[5]}))

Accept(argv) ==
  /\ initLogObj
  /\ \E port \in StoredSizes(argv[3]), slot \in StoredSizes(argv[4]) :
       Register(argv[5], createMigrateObject(argv[2], port, slot))
  /\ isMigrating' = TRUE

\* The last refusal comes after initLogObj, the others before it.
Refuse(argv) ==
  /\ IF Outcome(argv) = "migrating, try again later"
       THEN initLogObj ELSE UNCHANGED logVars
  /\ UNCHANGED << migrating, isMigrating >>

rm_migrateCommand(c, argv) ==
  /\ IF Outcome(argv) = "OK" THEN Accept(argv) ELSE Refuse(argv)
  /\ reply' = [reply EXCEPT ![c] = Outcome(argv)]
  /\ UNCHANGED db

-----------------------------------------------------------------------------
(* The server.                                                             *)

\* The server is single-threaded: it serves no client while it loads a module.
Serving == module \in {"unloaded", "loaded"}

Known(argv) == argv[1] = "rm.migrate" => commands

\* The command table accepts the command as the filter left it.
Valid(argv) == Known(argv) /\ Len(argv) >= MinArgc[argv[1]]

Written(argv) == {argv[i] : i \in Writes[argv[1]] \cap 1 .. Len(argv)} \cap Keys

\* Any other command: it leaves some value in the keys it writes.
OtherCommand(c, argv) ==
  /\ \E v \in Values :
       db' = [k \in Keys |-> IF k \in Written(argv) THEN v ELSE db[k]]
  /\ reply' = [reply EXCEPT ![c] = "done"]
  /\ UNCHANGED registryVars

Execute(c, argv) ==
  IF argv[1] = "rm.migrate" THEN rm_migrateCommand(c, argv)
                            ELSE OtherCommand(c, argv)

Answer(c, text) ==
  /\ reply' = [reply EXCEPT ![c] = text]
  /\ UNCHANGED << registryVars, db >>

Init ==
  /\ module      = "unloaded"
  /\ commands    = FALSE
  /\ filter      = FALSE
  /\ migrating   = [k \in {} |-> {}]
  /\ isMigrating = FALSE
  /\ logfile     = FALSE
  /\ withheld    = FALSE
  /\ db \in [Keys -> Values]
  /\ multi       = [c \in Clients |-> "none"]
  /\ queued      = [c \in Clients |-> << >>]
  /\ reply       = [c \in Clients |-> "none"]

\* RedisModule_OnLoad makes three calls, each of which can fail; the first error
\* is returned to the server at once.
Initialise ==
  /\ module = "unloaded"
  /\ module' \in {"initialised", "failed"}
  /\ UNCHANGED << commands, filter >>

CreateCommand ==
  /\ module = "initialised"
  /\ commands' \in BOOLEAN
  /\ module' = IF commands' THEN "created" ELSE "failed"
  /\ UNCHANGED filter

\* Mutation: the filter that RegisterCommandFilter returns is not tested.
RegisterFilterUnchecked ==
  /\ module = "created"
  /\ filter' \in BOOLEAN
  /\ module' = "loaded"
  /\ UNCHANGED commands

RegisterFilter ==
  /\ module = "created"
  /\ filter' \in BOOLEAN
  /\ module' = IF filter' THEN "loaded" ELSE "failed"
  /\ UNCHANGED commands

\* After an error the server takes the module's commands back.  The module can
\* be loaded again.
TakeBack ==
  /\ module = "failed"
  /\ module'   = "unloaded"
  /\ commands' = FALSE
  /\ UNCHANGED filter

OnLoad ==
  /\ Initialise \/ CreateCommand \/ RegisterFilter \/ TakeBack
  /\ UNCHANGED << registryVars, db, multi, queued, reply >>

\* A command outside a transaction.
Command(c, argv) ==
  LET args == rm_migrateFilter(argv) IN
  /\ Serving /\ multi[c] = "none"
  /\ IF Valid(args) THEN Execute(c, args) ELSE Answer(c, "ERR")
  /\ UNCHANGED << loadVars, multi, queued >>

\* COMMAND GETKEYS rm.migrate ..., or a key check of the server: the handler is
\* called as a keys-position request and names no key.
KeysPositionRequest(c, argv) ==
  /\ Serving /\ multi[c] = "none"
  /\ commands /\ argv[1] = "rm.migrate"
  /\ Answer(c, "ERR The command has no key arguments")
  /\ UNCHANGED << loadVars, multi, queued >>

Multi(c) ==
  /\ c \in Transactions
  /\ Serving
  /\ multi[c] = "none"
  /\ multi' = [multi EXCEPT ![c] = "open"]
  /\ Answer(c, "OK MULTI")
  /\ UNCHANGED << loadVars, queued >>

\* Inside a transaction a command is filtered and checked, not executed.  One
\* command per transaction is modelled.
Queue(c, argv) ==
  LET args == rm_migrateFilter(argv) IN
  /\ Serving /\ multi[c] = "open" /\ queued[c] = << >>
  /\ IF Valid(args)
       THEN /\ queued' = [queued EXCEPT ![c] = args]
            /\ Answer(c, "QUEUED")
            /\ UNCHANGED multi
       ELSE /\ multi' = [multi EXCEPT ![c] = "aborted"]
            /\ Answer(c, "ERR")
            /\ UNCHANGED queued
  /\ UNCHANGED loadVars

Exec(c) ==
  /\ Serving
  /\ multi[c] # "none"
  /\ IF multi[c] = "open" /\ queued[c] # << >>
       THEN Execute(c, queued[c])
       ELSE Answer(c, "nothing executed")
  /\ multi'  = [multi EXCEPT ![c] = "none"]
  /\ queued' = [queued EXCEPT ![c] = << >>]
  /\ UNCHANGED loadVars

Next ==
  \/ OnLoad
  \/ \E c \in Clients :
       \/ Multi(c) \/ Exec(c)
       \/ \E argv \in Commands :
            Command(c, argv) \/ KeysPositionRequest(c, argv) \/ Queue(c, argv)

Spec == Init /\ [][Next]_vars

-----------------------------------------------------------------------------
(* Properties.                                                             *)

Replies == {"none", "OK", "args number failed", "ERR invalid port",
            "migrating key is bigger 50", "migrating, try again later",
            "done", "ERR", "ERR The command has no key arguments", "OK MULTI",
            "QUEUED", "nothing executed"}

MigrateObjects == [host : {a[2] : a \in {b \in Commands : Len(b) = 5}},
                   port : 0 .. SizeLimit - 1, slot : 0 .. SizeLimit - 1]

\* What the filter leaves of a command: all of it, or its name.
Arrived == Commands \cup {<< a[1] >> : a \in Commands}

\* Every variable has the type of what it models.
TypeOK ==
  /\ module \in {"unloaded", "initialised", "created", "loaded", "failed"}
  /\ commands \in BOOLEAN /\ filter \in BOOLEAN
  /\ isMigrating \in BOOLEAN /\ logfile \in BOOLEAN /\ withheld \in BOOLEAN
  /\ \A k \in DOMAIN migrating : migrating[k] \in MigrateObjects
  /\ db \in [Keys -> Values]
  /\ multi \in [Clients -> {"none", "open", "aborted"}]
  /\ queued \in [Clients -> Arrived \cup {<< >>}]
  /\ reply \in [Clients -> Replies]

\* The registry never holds more than MAX_MIGRATEING_NUM keys, in whatever order
\* requests arrive directly and at EXEC.
RegistryBounded == Cardinality(DOMAIN migrating) <= MAX_MIGRATEING_NUM

\* A request is accepted only when the guard is up: the filter is registered and
\* switched on.  RedisModule_OnLoad creates the command before it registers the
\* filter: a load that fails between the two must not leave a command that fills
\* a registry nobody looks at.
GuardIsUp == DOMAIN migrating # {} => filter /\ isMigrating

\* When the filter can log "key:%s is migrating", the log file is known, or it
\* was the server that withheld it.  The name is read through RM_Call, which
\* passes the module's own filter: were the key entered first, a key named "get"
\* would cut the question, and the guard itself would be why migrateLogRaw opens
\* a null path.
LogBeforeGuard == Guarded # {} => logfile \/ withheld

\* Whenever something has been accepted, the guard stands complete.
GuardReady == GuardIsUp /\ LogBeforeGuard

\* The first accepted request of a guarded key wins: its host, port and slot
\* are never replaced, and the key is never released.
FirstRequestWins ==
  [][ \A k \in Guarded :
        k \in DOMAIN migrating' /\ migrating'[k] = migrating[k] ]_vars

\* "key:%s is migrating, do not allow change" (redis_migrate.cpp:123): no
\* command changes the value of a guarded key.
NoChangeWhileMigrating == [][ \A k \in Guarded \cap Keys : db'[k] = db[k] ]_vars

\* How far that is true: a guarded key changes only at EXEC, or by a command
\* that names another word first and the key behind it.
Behind(argv, k) == \E i \in Writes[argv[1]] \ {2} : i <= Len(argv) /\ argv[i] = k

ChangesOnlyUnseen ==
  [][ \A k \in Guarded \cap Keys : db'[k] # db[k] =>
        \E c \in Clients :
          \/ Exec(c)
          \/ \E argv \in Commands :
               /\ Command(c, argv)
               /\ argv[2] \notin Guarded /\ Behind(argv, k) ]_vars
=============================================================================
