---------------------------- MODULE CommandFilter ----------------------------
(***************************************************************************)
(* The loop of rm_migrateFilter, one iteration per action: it walks over   *)
(* the arguments of a command while deleting some of them.                 *)
(***************************************************************************)
EXTENDS Integers, Sequences, FilterRule

CONSTANTS Words,   \* what an argument can be
          MaxArgc  \* the length of the longest command

ASSUME FilterAssumption == MaxArgc \in Nat

VARIABLES
  original,        \* history: the command as it arrived
  guarded,         \* the keys findMigrating finds with hostLen > 0
  migratingFlag,   \* the static flag isMigrating
  args,            \* the arguments left in the filter context
  pos,             \* 0-based, as in the source
  isMigratingKey,
  logged,          \* history: how often "is migrating" was logged
  returned

loopVars == << original, guarded, migratingFlag, args, pos, isMigratingKey,
               logged, returned >>

inputVars == << original, guarded, migratingFlag >>

ArgsCount == Len(args)
ArgGet(i) == args[i + 1]

\* RM_CommandFilterArgDelete: the arguments behind move up by one.
Delete(s, i) == [j \in 1 .. Len(s) - 1 |-> IF j <= i THEN s[j] ELSE s[j + 1]]

\* A guarded key implies the flag; an entry with an empty host sets the flag
\* and guards nothing.
LoopInit ==
  /\ \E n \in 1 .. MaxArgc : original \in [1 .. n -> Words]
  /\ guarded \in SUBSET Words
  /\ migratingFlag \in BOOLEAN
  /\ guarded # {} => migratingFlag
  /\ args = original
  /\ pos = 0
  /\ isMigratingKey = FALSE
  /\ logged = 0
  /\ returned = FALSE

\* Nothing is migrating, or the loop is over.
Return ==
  /\ ~returned
  /\ ~migratingFlag \/ pos >= ArgsCount
  /\ returned' = TRUE
  /\ UNCHANGED << inputVars, args, pos, isMigratingKey, logged >>

InLoop == ~returned /\ migratingFlag /\ pos < ArgsCount

\* Mutation: the position moves on after a deletion.
DeleteRestAdvancing ==
  /\ InLoop
  /\ isMigratingKey
  /\ args' = Delete(args, pos)
  /\ pos' = pos + 1
  /\ UNCHANGED << inputVars, isMigratingKey, logged, returned >>

\* Everything behind the key goes: pos stays, the next argument moves there.
DeleteRest ==
  /\ InLoop
  /\ isMigratingKey
  /\ args' = Delete(args, pos)
  /\ UNCHANGED << inputVars, pos, isMigratingKey, logged, returned >>

KeyFound == pos = 1 /\ ArgGet(pos) \in guarded

DeleteKey ==
  /\ InLoop
  /\ ~isMigratingKey
  /\ KeyFound
  /\ isMigratingKey' = TRUE
  /\ logged' = logged + 1
  /\ args' = Delete(args, pos)
  /\ UNCHANGED << inputVars, pos, returned >>

\* Mutation: pos is not incremented.
KeepArgumentInPlace ==
  /\ InLoop
  /\ ~isMigratingKey
  /\ ~KeyFound
  /\ UNCHANGED << inputVars, args, pos, isMigratingKey, logged, returned >>

KeepArgument ==
  /\ InLoop
  /\ ~isMigratingKey
  /\ ~KeyFound
  /\ pos' = pos + 1
  /\ UNCHANGED << inputVars, args, isMigratingKey, logged, returned >>

LoopNext == Return \/ DeleteRest \/ DeleteKey \/ KeepArgument

LoopSpec == LoopInit /\ [][LoopNext]_loopVars

\* The filter is one uninterrupted call: it runs on as long as it can.
FairLoopSpec == LoopSpec /\ WF_loopVars(LoopNext)

-----------------------------------------------------------------------------
(* Properties.                                                             *)

\* Every variable has its type; the command never loses its name.
LoopTypeOK ==
  /\ original \in Seq(Words) /\ Len(original) >= 1
  /\ guarded \subseteq Words
  /\ migratingFlag \in BOOLEAN /\ isMigratingKey \in BOOLEAN
  /\ args \in Seq(Words) /\ Len(args) >= 1
  /\ pos \in Nat /\ logged \in Nat /\ returned \in BOOLEAN

\* When the filter returns, the command is what the closed form says: whole, or
\* cut to its name if the word after the name is a guarded key; and there is one
\* line in the log for each command that is cut, none for the others.
FilterResult ==
  returned => /\ args = Filtered(original, guarded)
              /\ logged = IF args = original THEN 0 ELSE 1

\* Deleting while walking comes to an end, for every command.
FilterReturns == <>returned
=============================================================================
