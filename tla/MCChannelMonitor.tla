-------------------------- MODULE MCChannelMonitor --------------------------
(***************************************************************************)
(* Instances of ChannelMonitor for TLC.                                    *)
(***************************************************************************)
EXTENDS ChannelMonitor

OneMonitor == {1}

TwoMonitors == {1, 2}

\* A channel that is accepted, and cancelled.
LifeEvents == {"Accept", "Cancel"}

\* A channel that moves data and finishes, at either end.
DataEvents == {"TransferInitiated", "DataSent", "FinishTransfer", "ResponderCompletes"}

=============================================================================
