------------------------ MODULE MCTransportRequester ------------------------
(* Three calls: the channel is opened and restarted, and one thing more.     *)
EXTENDS TransportRequester, TLC

CONSTANTS c1, c2, c3

MCScenarios ==
  {c1 :> "OpenPull" @@ c2 :> "RestartPull" @@ c3 :> "Shutdown",
   c1 :> "OpenPull" @@ c2 :> "RestartPull" @@ c3 :> "Close",
   c1 :> "OpenPull" @@ c2 :> "Close" @@ c3 :> "EndByPeer"}
  \cup
  {c1 :> "ReceivePush" @@ c2 :> "ReceiveRestart" @@ c3 :> k :
     k \in {"ReceiveRestart", "ReceiveCancel"}}

=============================================================================
