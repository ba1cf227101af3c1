---------------------------- MODULE MCConnection ----------------------------
(* A redisContext of each kind, with the options that change its control flow. *)
EXTENDS Connection

Opt(type, block, reuse, source, deadline, timed, push) ==
  [type |-> type, block |-> block, reuse |-> reuse, source |-> source,
   deadline |-> deadline, timed |-> timed, push |-> push]
mcOptions ==
  { Opt("tcp", TRUE, TRUE, TRUE, "valid", TRUE, TRUE),
    Opt("tcp", TRUE, FALSE, TRUE, "none", TRUE, FALSE),
    Opt("tcp", FALSE, TRUE, FALSE, "invalid", FALSE, TRUE),
    Opt("tcp", FALSE, FALSE, TRUE, "none", FALSE, FALSE),
    Opt("unix", TRUE, FALSE, FALSE, "valid", TRUE, TRUE),
    Opt("unix", FALSE, FALSE, FALSE, "none", FALSE, TRUE),
    Opt("unix", TRUE, FALSE, FALSE, "invalid", FALSE, TRUE),
    Opt("fd", TRUE, FALSE, FALSE, "none", TRUE, TRUE) }
=============================================================================
