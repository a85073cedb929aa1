--------------------------- MODULE ChannelEvents ---------------------------
(***************************************************************************)
(* The event table of the channel state machine (ChannelEvents in          *)
(* channels/channels_fsm.go): where each event leads from each status, and *)
(* what its action does to the stored channel state.                       *)
(*                                                                         *)
(* An event is a record [code, arg]; arg is the argument of the event's    *)
(* action: a number of bytes, a block total, a limit, 1 for true, and 0    *)
(* where the action takes none.  Errors, vouchers and log lines are        *)
(* abstracted: Message says whether an error text is stored, Vouchers and  *)
(* VoucherResults how many are.                                            *)
(***************************************************************************)
EXTENDS ChannelStatus, Naturals

\* Events whose action takes an error and stores its text.
ErrorCodes ==
  {"Disconnected", "SendDataError", "ReceiveDataError", "RequestCancelled",
   "Error"}

EventCode ==
  {"Open", "Accept", "TransferInitiated", "Restart", "Cancel", "Opened",
   "DataReceived", "DataReceivedProgress", "DataSent", "DataSentProgress",
   "DataQueued", "DataQueuedProgress", "SetDataLimit",
   "SetRequiresFinalization", "NewVoucher", "NewVoucherResult",
   "PauseInitiator", "PauseResponder", "DataLimitExceeded",
   "ResumeInitiator", "ResumeResponder", "FinishTransfer",
   "ResponderBeginsFinalization", "ResponderCompletes", "BeginFinalizing",
   "Complete", "CleanupComplete", "CompleteCleanupOnRestart"} \cup ErrorCodes

\* The events whose action takes a number or a Boolean.
ArgCodes ==
  {"DataReceived", "DataReceivedProgress", "DataSent", "DataSentProgress",
   "DataQueued", "DataQueuedProgress", "SetDataLimit",
   "SetRequiresFinalization"}

Events == [code : EventCode, arg : Nat]

Event(code) == [code |-> code, arg |-> 0]

-----------------------------------------------------------------------------
\* The stored channel state.  Peers, CIDs, selector and stages never change
\* after CreateNew, or only describe; they are left out.
ChannelState ==
  [Status : Status,
   Message : BOOLEAN,
   Queued : Nat, Sent : Nat, Received : Nat,
   QueuedBlocksTotal : Nat, SentBlocksTotal : Nat, ReceivedBlocksTotal : Nat,
   DataLimit : Nat,
   RequiresFinalization : BOOLEAN,
   InitiatorPaused : BOOLEAN, ResponderPaused : BOOLEAN,
   Vouchers : Nat, VoucherResults : Nat]

\* The state CreateNew stores: one voucher, everything else zero.
NewChannelState ==
  [Status |-> "Requested",
   Message |-> FALSE,
   Queued |-> 0, Sent |-> 0, Received |-> 0,
   QueuedBlocksTotal |-> 0, SentBlocksTotal |-> 0, ReceivedBlocksTotal |-> 0,
   DataLimit |-> 0,
   RequiresFinalization |-> FALSE,
   InitiatorPaused |-> FALSE, ResponderPaused |-> FALSE,
   Vouchers |-> 1, VoucherResults |-> 0]

-----------------------------------------------------------------------------
\* Destinations that are not statuses.  "NoChange" keeps the status and runs
\* its entry handler again, "JustRecord" keeps it and runs no handler,
\* "Rejected" is an event that has no transition from the status.
Outcomes == Status \cup {"NoChange", "JustRecord", "Rejected"}

PausableStates == {"Ongoing", "Requested", "Queued", "AwaitingAcceptance"}

\* Events that keep the status, whatever it is, and retrigger its handler.
NoChangeCodes ==
  {"DataReceived", "NewVoucher", "NewVoucherResult",
   "CompleteCleanupOnRestart"} \cup (ErrorCodes \ {"Error"})

\* Events that are recorded in any status.
RecordCodes == {"Restart", "Opened", "SetDataLimit", "SetRequiresFinalization"}

\* Mutant of ToFromAny: a status the state machine does not know.
ToFromAnyUnknown ==
  [Open |-> "Requested", Cancel |-> "ChannelNotFoundError", Error |-> "Failing",
   BeginFinalizing |-> "Finalizing", Complete |-> "Completing"]

\* Events that lead to one status from any status.
ToFromAny ==
  [Open |-> "Requested", Cancel |-> "Cancelling", Error |-> "Failing",
   BeginFinalizing |-> "Finalizing", Complete |-> "Completing"]

\* Mutants of AfterFinishTransfer: the channel completes whatever the responder
\* did; a failing channel is taken back.
AfterFinishEager(s) ==
  IF s \in {"Failing", "Cancelling"} THEN "JustRecord"
  ELSE IF s = "ResponderFinalizing" THEN "ResponderFinalizingTransferFinished"
  ELSE "Completing"

AfterFinishUnguarded(s) ==
  IF s \in {"ResponderCompleted", "AwaitingAcceptance"} THEN "Completing"
  ELSE IF s = "ResponderFinalizing" THEN "ResponderFinalizingTransferFinished"
  ELSE "TransferFinished"

\* FinishTransfer: what the responder did before decides what is left to wait
\* for.
AfterFinishTransfer(s) ==
  IF s \in {"Failing", "Cancelling"} THEN "JustRecord"
  ELSE IF s \in {"ResponderCompleted", "AwaitingAcceptance"} THEN "Completing"
  ELSE IF s = "ResponderFinalizing" THEN "ResponderFinalizingTransferFinished"
  ELSE "TransferFinished"

\* Where an event leads from status s: a transition given for s itself goes
\* before the one FromAny gives.
Destination(code, s) ==
  CASE code \in DOMAIN ToFromAny -> ToFromAny[code]
    [] code \in NoChangeCodes -> "NoChange"
    [] code \in RecordCodes -> "JustRecord"
    [] code \in {"DataReceivedProgress", "DataSentProgress", "DataQueuedProgress"} ->
         IF s \in TransferringStates THEN "NoChange" ELSE "Rejected"
    [] code \in {"DataSent", "DataQueued"} ->
         IF s \in TransferringStates \cup {"TransferFinished"}
         THEN "NoChange" ELSE "Rejected"
    [] code = "Accept" ->
         IF s = "Requested" THEN "Queued"
         ELSE IF s = "AwaitingAcceptance" THEN "Ongoing" ELSE "Rejected"
    [] code = "TransferInitiated" ->
         IF s = "Requested" THEN "AwaitingAcceptance"
         ELSE IF s = "Queued" THEN "Ongoing"
         ELSE IF s = "Ongoing" THEN "JustRecord" ELSE "Rejected"
    [] code = "PauseInitiator" ->
         IF s \in PausableStates THEN "JustRecord" ELSE "Rejected"
    [] code = "PauseResponder" ->
         IF s \in PausableStates \cup {"TransferFinished"}
         THEN "JustRecord" ELSE "Rejected"
    [] code \in {"DataLimitExceeded", "ResumeInitiator"} ->
         IF s \in PausableStates \cup {"ResponderCompleted", "ResponderFinalizing"}
         THEN "JustRecord" ELSE "Rejected"
    [] code = "ResumeResponder" ->
         IF s = "Finalizing" THEN "Completing"
         ELSE IF s \in PausableStates \cup {"TransferFinished"}
         THEN "JustRecord" ELSE "Rejected"
    [] code = "FinishTransfer" -> AfterFinishTransfer(s)
    [] code = "ResponderBeginsFinalization" ->
         IF s \in {"Failing", "Cancelling", "ResponderFinalizing",
                   "ResponderFinalizingTransferFinished"} THEN "JustRecord"
         ELSE IF s = "TransferFinished" THEN "ResponderFinalizingTransferFinished"
         ELSE "ResponderFinalizing"
    [] code = "ResponderCompletes" ->
         IF s \in {"Failing", "Cancelling"} THEN "JustRecord"
         ELSE IF s \in {"TransferFinished", "ResponderFinalizingTransferFinished"}
         THEN "Completing" ELSE "ResponderCompleted"
    [] code = "CleanupComplete" ->
         IF s = "Cancelling" THEN "Cancelled"
         ELSE IF s = "Failing" THEN "Failed"
         ELSE IF s = "Completing" THEN "Completed" ELSE "Rejected"

-----------------------------------------------------------------------------
Larger(m, n) == IF n > m THEN n ELSE m

\* What the action of event e does to the stored state, the status aside.
Action(st, e) ==
  CASE e.code \in {"Restart", "Opened"} -> [st EXCEPT !.Message = FALSE]
    [] e.code \in ErrorCodes -> [st EXCEPT !.Message = TRUE]
    [] e.code = "DataReceived" ->
         [st EXCEPT !.ReceivedBlocksTotal = Larger(@, e.arg)]
    [] e.code = "DataSent" -> [st EXCEPT !.SentBlocksTotal = Larger(@, e.arg)]
    [] e.code = "DataQueued" -> [st EXCEPT !.QueuedBlocksTotal = Larger(@, e.arg)]
    [] e.code = "DataReceivedProgress" -> [st EXCEPT !.Received = @ + e.arg]
    [] e.code = "DataSentProgress" -> [st EXCEPT !.Sent = @ + e.arg]
    [] e.code = "DataQueuedProgress" -> [st EXCEPT !.Queued = @ + e.arg]
    [] e.code = "SetDataLimit" -> [st EXCEPT !.DataLimit = e.arg]
    [] e.code = "SetRequiresFinalization" ->
         [st EXCEPT !.RequiresFinalization = (e.arg # 0)]
    [] e.code = "PauseInitiator" -> [st EXCEPT !.InitiatorPaused = TRUE]
    [] e.code \in {"PauseResponder", "DataLimitExceeded"} ->
         [st EXCEPT !.ResponderPaused = TRUE]
    [] e.code = "ResumeInitiator" -> [st EXCEPT !.InitiatorPaused = FALSE]
    [] e.code = "ResumeResponder" -> [st EXCEPT !.ResponderPaused = FALSE]
    [] e.code = "NewVoucher" -> [st EXCEPT !.Vouchers = @ + 1]
    [] e.code = "NewVoucherResult" -> [st EXCEPT !.VoucherResults = @ + 1]
    [] OTHER -> st

\* The whole effect of processing e in state st of a live machine.
Apply(st, e) ==
  LET d == Destination(e.code, st.Status) IN
  IF IsChannelTerminated(st.Status) \/ d = "Rejected" THEN st
  ELSE IF d \in {"NoChange", "JustRecord"} THEN Action(st, e)
  ELSE [Action(st, e) EXCEPT !.Status = d]

\* Processing e in state st starts the entry handler cleanupConnection.
StartsCleanup(st, e) ==
  /\ ~IsChannelTerminated(st.Status)
  /\ Destination(e.code, st.Status) \notin {"JustRecord", "Rejected"}
  /\ Apply(st, e).Status \in CleanupStates

\* The effect of e on a channel and the cleanups it owes.
Effect(ch, e) ==
  LET st == Apply(ch.state, e) IN
  [state |-> st,
   owed |-> IF IsChannelTerminated(st.Status) THEN 0
            ELSE IF StartsCleanup(ch.state, e) THEN ch.owed + 1 ELSE ch.owed]

=============================================================================
