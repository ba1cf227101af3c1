--------------------------- MODULE MCRedisMigrate ---------------------------
(* RedisMigrate on two clients and three keys, one of them named "get".    *)
EXTENDS RedisMigrate

MCKeys == {"k1", "k2", "get"}

MCMinArgc == [n \in {"rm.migrate", "set", "mset"} |->
                IF n = "rm.migrate" THEN 1 ELSE 3]

\* SET key value; MSET key value key value.
MCWrites == [n \in DOMAIN MCMinArgc |->
               IF n = "set" THEN {2} ELSE IF n = "mset" THEN {2, 4} ELSE {}]

\* "6.5" is cut to 6, "-1" wraps, "1e6" does not fit the int.
MCDoubled == [w \in {"6", "6.5", "-1", "1e6"} |->
                IF w = "6" THEN 12 ELSE IF w = "6.5" THEN 13
                ELSE IF w = "-1" THEN -2 ELSE 2000000]

Migrate(host, port, key) == << "rm.migrate", host, port, "6", key >>

\* Every key, the empty host, a host that is a key's name, and bad requests.
MCRequests ==
  {Migrate("h1", "6", k) : k \in MCKeys} \cup
  {Migrate("", "-1", "k1"), Migrate("k1", "6.5", "k2"),
   Migrate("h1", "1e6", "k1"), Migrate("h1", "abc", "k1"),
   << "rm.migrate", "h1" >>}

MCSets == {<< "set", "k1", "v" >>, << "set", "get", "v" >>}

MCCommands == MCRequests \cup MCSets \cup {<< "mset", "k2", "v", "k1", "v" >>}

MCMultiKey == {Migrate("h1", "6", "k1"), << "mset", "k2", "v", "k1", "v" >>}
=============================================================================
