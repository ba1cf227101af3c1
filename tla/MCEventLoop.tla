----------------------------- MODULE MCEventLoop -----------------------------
(* Every adapter, with and without TLS, contexts that are kept, and timers
   where the adapter has them. *)
EXTENDS EventLoop

mcSetups ==
  { s \in [adapter : DOMAIN Adapters, tls : BOOLEAN, timed : BOOLEAN, keep : BOOLEAN] :
      s.timed => Adapters[s.adapter].timer # "none" }
TLSOnly == { s \in mcSetups : s.adapter = "libevent" /\ s.tls /\ ~s.timed /\ ~s.keep }
=============================================================================
