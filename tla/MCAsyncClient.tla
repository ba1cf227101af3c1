--------------------------- MODULE MCAsyncClient ---------------------------
(* AsyncClient with a few commands about one channel.                      *)
EXTENDS AsyncClient

MCChannels == {"news"}

MCArgs == [cmd \in Subscribes \cup Unsubscribes |-> << "news" >>]
=============================================================================
