----------------------------- MODULE FilterRule -----------------------------
(***************************************************************************)
(* What rm_migrateFilter makes of a command, as a closed form.             *)
(* CommandFilter shows that the loop of the source computes it;            *)
(* RedisMigrate uses it for every command that reaches the server.         *)
(***************************************************************************)
EXTENDS Naturals, Sequences

\* Only the word after the command name is compared with the guarded keys.  If
\* it is one of them, it and everything behind it go; the name is left alone.
Filtered(argv, guarded) ==
  IF Len(argv) >= 2 /\ argv[2] \in guarded THEN << argv[1] >> ELSE argv
=============================================================================
