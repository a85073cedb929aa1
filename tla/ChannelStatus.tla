--------------------------- MODULE ChannelStatus ---------------------------
(***************************************************************************)
(* The statuses of a data-transfer channel and the lists of statuses the   *)
(* rest of the code tests membership of (statuses.go, and the cleanup and  *)
(* finality lists of channels/channels_fsm.go).                            *)
(***************************************************************************)

\* Statuses a channel of the current version can have: the three deprecated
\* paused statuses only occur in stores that an older version wrote, and
\* ChannelNotFoundError is never stored.
Status ==
  {"Requested", "Ongoing", "TransferFinished", "ResponderCompleted",
   "Finalizing", "Completing", "Completed", "Failing", "Failed",
   "Cancelling", "Cancelled", "ResponderFinalizing",
   "ResponderFinalizingTransferFinished", "Queued", "AwaitingAcceptance"}

NotAcceptedStates ==
  {"Requested", "AwaitingAcceptance", "Cancelled", "Cancelling", "Failed", "Failing",
   "ChannelNotFoundError"}

IsAccepted(s) == s \notin NotAcceptedStates

FinalizationStatuses == {"Finalizing", "Completed", "Completing"}

InFinalization(s) == s \in FinalizationStatuses

TransferringStates ==
  {"Ongoing", "ResponderCompleted", "ResponderFinalizing", "AwaitingAcceptance"}

\* The penultimate statuses: cleanupConnection is the entry handler of each.
CleanupStates == {"Cancelling", "Completing", "Failing"}

ChannelFinalityStates == {"Cancelled", "Completed", "Failed"}

IsChannelTerminated(s) == s \in ChannelFinalityStates

IsChannelCleaningUp(s) == s \in CleanupStates

=============================================================================
