----------------------------- MODULE MCWorkQueue ------------------------------
(***************************************************************************)
(* Two producers, two consumers and one stopper: enough for two additions  *)
(* racing, for a consumer overtaking another and for stop() in between.    *)
(***************************************************************************)
EXTENDS WorkQueueClients

CONSTANTS p1, p2, c1, c2, s1, i1, i2

MCProducers == {p1, p2}
MCConsumers == {c1, c2}
MCStoppers == {s1}
MCThreads == MCProducers \cup MCConsumers \cup MCStoppers
MCItems == {i1, i2}
=============================================================================
