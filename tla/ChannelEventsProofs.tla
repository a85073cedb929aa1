------------------------ MODULE ChannelEventsProofs ------------------------
(***************************************************************************)
(* Facts about the event table, which the proofs about the modules that    *)
(* send events rest on.                                                    *)
(***************************************************************************)
EXTENDS ChannelEvents, TLAPS

\* The state CreateNew stores is well formed.
LEMMA NewChannelStateType == NewChannelState \in ChannelState
BY DEF NewChannelState, ChannelState, Status

\* The table sends an event to a status of the code or to one of the three
\* outcomes that keep the status.
LEMMA DestinationType ==
  ASSUME NEW c \in EventCode, NEW s \in Status
  PROVE  Destination(c, s) \in Outcomes
BY DEF Destination, AfterFinishTransfer, Outcomes, EventCode, ErrorCodes, Status, ToFromAny,
       NoChangeCodes, RecordCodes

\* Which events lead into the statuses the invariant speaks of, and from where.
Leads(c, s, d) ==
  /\ d = "Finalizing" => c = "BeginFinalizing"
  /\ d = "Requested" => c = "Open"
  /\ d = "AwaitingAcceptance" => c = "TransferInitiated" /\ s = "Requested"
  /\ d = "TransferFinished" => c = "FinishTransfer"
  /\ d = "ResponderFinalizingTransferFinished" =>
       c = "FinishTransfer" \/ s = "TransferFinished"
  /\ d = "ResponderCompleted" => c = "ResponderCompletes"
  /\ d = "Completing" =>
       \/ c = "Complete"
       \/ s = "Finalizing"
       \/ c = "FinishTransfer" /\ s \in {"ResponderCompleted", "AwaitingAcceptance"}
       \/ /\ c = "ResponderCompletes"
          /\ s \in {"TransferFinished", "ResponderFinalizingTransferFinished"}
  /\ d = "Completed" => s = "Completing"
  /\ c = "Accept" => d \in {"Queued", "Ongoing", "Rejected"}

\* The table leads into those statuses in no other way.
LEMMA Sources ==
  ASSUME NEW c \in EventCode, NEW s \in Status
  PROVE  Leads(c, s, Destination(c, s))
<1>1. CASE c \in {"Open", "Cancel", "Error", "BeginFinalizing", "Complete"}
  BY <1>1 DEF Leads, Destination, AfterFinishTransfer, ToFromAny
<1>2. CASE c \in NoChangeCodes \cup RecordCodes
  BY <1>2 DEF Leads, Destination, AfterFinishTransfer, ToFromAny, NoChangeCodes, RecordCodes, ErrorCodes
<1>3. CASE c \in {"FinishTransfer", "ResponderBeginsFinalization",
                  "ResponderCompletes", "ResumeResponder", "CleanupComplete"}
  BY <1>3 DEF Leads, Destination, AfterFinishTransfer, ToFromAny, NoChangeCodes, RecordCodes, ErrorCodes
<1>4. CASE c \in {"Accept", "TransferInitiated"}
  BY <1>4 DEF Leads, Destination, AfterFinishTransfer, ToFromAny, NoChangeCodes, RecordCodes, ErrorCodes
<1>5. CASE c \in {"DataReceivedProgress", "DataSentProgress", "DataQueuedProgress",
                  "DataSent", "DataQueued", "PauseInitiator", "PauseResponder",
                  "DataLimitExceeded", "ResumeInitiator"}
  BY <1>5 DEF Leads, Destination, AfterFinishTransfer, ToFromAny, NoChangeCodes, RecordCodes, ErrorCodes
<1> QED
  BY <1>1, <1>2, <1>3, <1>4, <1>5
  DEF EventCode, ErrorCodes, NoChangeCodes, RecordCodes

\* The action of an event leaves a well-formed state with the same status.
LEMMA ActionType ==
  ASSUME NEW st \in ChannelState, NEW e \in Events
  PROVE  Action(st, e) \in ChannelState /\ Action(st, e).Status = st.Status
<1> DEFINE Kept(t) == t \in ChannelState /\ t.Status = st.Status
<1>1. e.arg \in Nat /\ (e.arg # 0) \in BOOLEAN
  BY DEF Events
<1>2. /\ Kept(st)
      /\ \A b \in BOOLEAN :
           /\ Kept([st EXCEPT !.Message = b])
           /\ Kept([st EXCEPT !.RequiresFinalization = b])
           /\ Kept([st EXCEPT !.InitiatorPaused = b])
           /\ Kept([st EXCEPT !.ResponderPaused = b])
  BY DEF ChannelState
<1>3. \A n \in Nat :
           /\ Kept([st EXCEPT !.ReceivedBlocksTotal = n])
           /\ Kept([st EXCEPT !.SentBlocksTotal = n])
           /\ Kept([st EXCEPT !.QueuedBlocksTotal = n])
           /\ Kept([st EXCEPT !.Received = n])
           /\ Kept([st EXCEPT !.Sent = n])
           /\ Kept([st EXCEPT !.Queued = n])
           /\ Kept([st EXCEPT !.DataLimit = n])
           /\ Kept([st EXCEPT !.Vouchers = n])
           /\ Kept([st EXCEPT !.VoucherResults = n])
  BY DEF ChannelState
<1>4. /\ \A n \in Nat : Larger(n, e.arg) \in Nat /\ n + e.arg \in Nat /\ n + 1 \in Nat
      /\ st.ReceivedBlocksTotal \in Nat /\ st.SentBlocksTotal \in Nat
      /\ st.QueuedBlocksTotal \in Nat
      /\ st.Received \in Nat /\ st.Sent \in Nat /\ st.Queued \in Nat
      /\ st.Vouchers \in Nat /\ st.VoucherResults \in Nat
  BY <1>1 DEF ChannelState, Larger
<1> HIDE DEF Kept
<1>5. Kept(Action(st, e))
  BY <1>1, <1>2, <1>3, <1>4, ZenonT(60) DEF Action
<1> QED
  BY <1>5 DEF Kept

\* Processing an event leaves a well-formed state, whose status is the one
\* the table gives or the one before.
LEMMA ApplyType ==
  ASSUME NEW st \in ChannelState, NEW e \in Events
  PROVE  /\ Apply(st, e) \in ChannelState
         /\ Apply(st, e).Status =
              IF ~IsChannelTerminated(st.Status) /\ Destination(e.code, st.Status) \in Status
              THEN Destination(e.code, st.Status) ELSE st.Status
<1>1. Action(st, e) \in ChannelState /\ Action(st, e).Status = st.Status
  BY ActionType
<1>2. Status \cap {"Rejected", "NoChange", "JustRecord"} = {}
  BY DEF Status
<1>3. /\ st.Status \in Status /\ e.code \in EventCode
      /\ Destination(e.code, st.Status) \in Status \cup {"NoChange", "JustRecord", "Rejected"}
  BY DestinationType DEF ChannelState, Events, Outcomes
<1> QED
  BY <1>1, <1>2, <1>3 DEF Apply, ChannelState

=============================================================================
