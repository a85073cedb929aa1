---------------------------- MODULE MCChannelFSM ----------------------------
(***************************************************************************)
(* Instances of ChannelFSM for TLC: the events an initiator's manager      *)
(* sends, and the events a responder's manager sends.                      *)
(***************************************************************************)
EXTENDS ChannelFSM

InitiatorCodes ==
  {"Accept", "TransferInitiated", "Restart", "Cancel", "Error", "Disconnected",
   "ResumeInitiator", "FinishTransfer", "ResponderBeginsFinalization",
   "ResponderCompletes", "CompleteCleanupOnRestart"}

ResponderCodes ==
  {"Accept", "TransferInitiated", "Cancel", "Error", "PauseResponder",
   "ResumeResponder", "BeginFinalizing", "Complete", "NewVoucherResult"}

OnlyZero == {0}
=============================================================================
