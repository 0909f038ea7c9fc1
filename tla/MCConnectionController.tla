------------------------ MODULE MCConnectionController ------------------------
(***************************************************************************)
(* One client, or two: the thread of the settings and that of the device   *)
(* manager.  Three channels let a connection be replaced twice.            *)
(***************************************************************************)
EXTENDS ConnectionController

CONSTANTS worker, k1, k2

MCOneClient == {k1}
MCTwoClients == {k1, k2}
MCCallers == Clients \cup {worker}
=============================================================================
