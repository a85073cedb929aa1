-------------------------- MODULE ChannelFSMProofs --------------------------
(***************************************************************************)
(* Proofs about ChannelFSM, for every set of events sent, every queue      *)
(* length and every number of crashes.                                     *)
(***************************************************************************)
EXTENDS ChannelFSM, ChannelEventsProofs, TLAPS

-----------------------------------------------------------------------------
(* Facts about the queue *)

\* Appending an event keeps the events already queued in their places.
LEMMA AppendFacts ==
  ASSUME NEW q \in Seq(Events), NEW e \in Events
  PROVE  /\ Append(q, e) \in Seq(Events)
         /\ DOMAIN Append(q, e) = DOMAIN q \cup {Len(q) + 1}
         /\ \A i \in DOMAIN q : Append(q, e)[i] = q[i]
         /\ Append(q, e)[Len(q) + 1] = e
OBVIOUS

\* Taking the head leaves the other events in order.
LEMMA TailFacts ==
  ASSUME NEW q \in Seq(Events), q # <<>>
  PROVE  /\ Head(q) \in Events /\ Head(q) = q[1] /\ 1 \in DOMAIN q
         /\ Tail(q) \in Seq(Events)
         /\ \A i \in DOMAIN Tail(q) : i + 1 \in DOMAIN q /\ Tail(q)[i] = q[i + 1]
         /\ \A i \in DOMAIN q : i # 1 => i - 1 \in DOMAIN Tail(q) /\ Tail(q)[i - 1] = q[i]
OBVIOUS

-----------------------------------------------------------------------------
(* The inductive invariant *)

\* Only events of the callers, Open and CleanupComplete are ever queued.
PendingKnown == PendingCodes \subseteq Codes \cup {"Open", "CleanupComplete"}

\* Open is processed first, in the status CreateNew stored.
OpenFirst ==
  \A i \in DOMAIN pending :
    pending[i].code = "Open" => i = 1 /\ chst.Status = "Requested"

\* A queued CleanupComplete comes from a cleanup of this process.
CleanupReleased == "CleanupComplete" \in PendingCodes => released

\* The handler runs in a cleanup status.
HandlerCleansUp == handler => chst.Status \in CleanupStates

\* Before the channel is created its machine has nothing to do.
NotCreated ==
  ~has => pending = <<>> /\ ~handler /\ chst = NewChannelState /\ seen = {}

\* What an initiator has seen by the time it is in each status.
InitiatorProgress ==
  Codes \cap ResponderOnly = {} =>
    /\ chst.Status # "Finalizing"
    /\ chst.Status \in {"Requested", "AwaitingAcceptance"} => "Accept" \notin seen
    /\ chst.Status \in {"TransferFinished", "ResponderFinalizingTransferFinished"}
         => "FinishTransfer" \in seen
    /\ chst.Status = "ResponderCompleted" => "ResponderCompletes" \in seen

IInv ==
  /\ TypeOK
  /\ PendingKnown
  /\ OpenFirst
  /\ CleanupReleased
  /\ HandlerCleansUp
  /\ NotCreated
  /\ CleanupOwed
  /\ InitiatorProgress
  /\ InitiatorCompletes

-----------------------------------------------------------------------------
\* The invariant holds initially.
LEMMA InitIInv == Init => IInv
<1> SUFFICES ASSUME Init PROVE IInv
  OBVIOUS
<1>1. TypeOK
  <2>1. 0 \in 0 .. MaxCrashes
    BY FSMAssumption
  <2>2. <<>> \in Seq(Events)
    OBVIOUS
  <2> QED
    BY <2>1, <2>2, NewChannelStateType, ZenonT(60) DEF Init, TypeOK
<1>2. PendingCodes = {}
  BY DEF Init, PendingCodes
<1> QED
  BY <1>1, <1>2 DEF Init, IInv, PendingKnown, OpenFirst, CleanupReleased,
     HandlerCleansUp, NotCreated, CleanupOwed, InitiatorProgress,
     InitiatorCompletes, NewChannelState, CleanupStates

\* Creating the channel.
LEMMA CreateNewIInv == IInv /\ CreateNew => IInv'
<1> SUFFICES ASSUME IInv, CreateNew PROVE IInv'
  OBVIOUS
<1>1. Event("Open") \in Events
  BY DEF Event, Events, EventCode
<1>2. TypeOK'
  BY <1>1, NewChannelStateType DEF IInv, TypeOK, CreateNew
<1>3. PendingCodes' = {"Open"} /\ pending' = <<Event("Open")>>
  BY DEF CreateNew, PendingCodes, Event
<1>4. chst' = NewChannelState /\ NewChannelState.Status = "Requested"
  BY DEF CreateNew, NewChannelState
<1>5. handler' = FALSE /\ has' = TRUE /\ seen' = {}
  BY DEF CreateNew, IInv, NotCreated
<1> QED
  BY <1>2, <1>3, <1>4, <1>5 DEF IInv, PendingKnown, OpenFirst,
     CleanupReleased, HandlerCleansUp, NotCreated, CleanupOwed,
     InitiatorProgress, InitiatorCompletes, CleanupStates

\* Sending an event of the callers.
LEMMA SendIInv ==
  ASSUME IInv, NEW e \in Inputs, Send(e)
  PROVE  IInv'
<1>1. e \in Events /\ e.code \in Codes
  BY FSMAssumption, ZenonT(60) DEF Inputs, Events
<1>2. pending \in Seq(Events) /\ pending' = Append(pending, e)
  BY DEF IInv, TypeOK, Send
<1>3. /\ pending' \in Seq(Events)
      /\ DOMAIN pending' = DOMAIN pending \cup {Len(pending) + 1}
      /\ \A i \in DOMAIN pending : pending'[i] = pending[i]
      /\ pending'[Len(pending) + 1] = e
  BY <1>1, <1>2, AppendFacts
<1>4. PendingCodes' = PendingCodes \cup {e.code}
  BY <1>3 DEF PendingCodes
<1>5. e.code # "Open" /\ e.code # "CleanupComplete"
  BY <1>1, FSMAssumption
<1>6. TypeOK'
  BY <1>3 DEF IInv, TypeOK, Send
<1>7. OpenFirst'
  BY <1>3, <1>5 DEF IInv, OpenFirst, Send
<1> QED
  BY <1>1, <1>4, <1>5, <1>6, <1>7 DEF IInv, Send, PendingKnown, CleanupReleased,
     HandlerCleansUp, NotCreated, CleanupOwed, InitiatorProgress,
     InitiatorCompletes

\* The end of the cleanup handler.
LEMMA CleanupConnectionIInv == IInv /\ CleanupConnection => IInv'
<1> SUFFICES ASSUME IInv, CleanupConnection PROVE IInv'
  OBVIOUS
<1> DEFINE e == Event("CleanupComplete")
<1>1. e \in Events /\ e.code = "CleanupComplete"
  BY DEF Event, Events, EventCode
<1> HIDE DEF e
<1>2. pending \in Seq(Events) /\ pending' = Append(pending, e)
  BY DEF IInv, TypeOK, CleanupConnection, e
<1>3. /\ pending' \in Seq(Events)
      /\ DOMAIN pending' = DOMAIN pending \cup {Len(pending) + 1}
      /\ \A i \in DOMAIN pending : pending'[i] = pending[i]
      /\ pending'[Len(pending) + 1] = e
  BY <1>1, <1>2, AppendFacts
<1>4. PendingCodes' = PendingCodes \cup {"CleanupComplete"}
  BY <1>1, <1>3 DEF PendingCodes
<1>5. TypeOK'
  BY <1>3, ZenonT(60) DEF IInv, TypeOK, CleanupConnection
<1>6. OpenFirst'
  BY <1>1, <1>3 DEF IInv, OpenFirst, CleanupConnection
<1> QED
  BY <1>4, <1>5, <1>6 DEF IInv, CleanupConnection, PendingKnown,
     CleanupReleased, HandlerCleansUp, NotCreated, CleanupOwed,
     InitiatorProgress, InitiatorCompletes

\* A crash.
LEMMA CrashIInv == IInv /\ Crash => IInv'
<1> SUFFICES ASSUME IInv, Crash PROVE IInv'
  OBVIOUS
<1>1. TypeOK'
  <2>1. crashes + 1 \in 0 .. MaxCrashes
    BY FSMAssumption DEF IInv, TypeOK, Crash
  <2>2. <<>> \in Seq(Events)
    OBVIOUS
  <2>3. stalled' \in BOOLEAN
    BY DEF Crash
  <2>4. crashes' = crashes + 1
    BY DEF Crash
  <2> QED
    BY <2>1, <2>2, <2>3, <2>4, ZenonT(60) DEF IInv, TypeOK, Crash
<1>2. pending' = <<>>
  BY DEF Crash
<1>3. PendingCodes' = {}
  BY <1>2 DEF PendingCodes
<1>4. CleanupOwed'
  BY Zenon DEF Crash, CleanupOwed
<1> QED
  BY <1>1, <1>2, <1>3, <1>4 DEF IInv, Crash, PendingKnown, OpenFirst,
     CleanupReleased, HandlerCleansUp, NotCreated, InitiatorProgress,
     InitiatorCompletes

\* What taking the head of the queue does to the queued codes.
LEMMA TakeHead ==
  ASSUME IInv, pending # <<>>, pending' = Tail(pending)
  PROVE  /\ Head(pending) \in Events
         /\ Head(pending).code \in PendingCodes
         /\ Head(pending).code = "Open" => chst.Status = "Requested"
         /\ pending' \in Seq(Events)
         /\ PendingCodes' \subseteq PendingCodes
         /\ PendingCodes \subseteq {Head(pending).code} \cup PendingCodes'
         /\ "Open" \notin PendingCodes'
<1>1. pending \in Seq(Events)
  BY DEF IInv, TypeOK
<1>2. /\ Head(pending) \in Events /\ Head(pending) = pending[1] /\ 1 \in DOMAIN pending
      /\ pending' \in Seq(Events)
      /\ \A i \in DOMAIN pending' :
           i + 1 \in DOMAIN pending /\ pending'[i] = pending[i + 1]
      /\ \A i \in DOMAIN pending :
           i # 1 => i - 1 \in DOMAIN pending' /\ pending'[i - 1] = pending[i]
  BY <1>1, TailFacts
<1>3. \A i \in DOMAIN pending' : i \in Nat /\ i # 0 /\ i + 1 # 1
  BY <1>2
<1>4. "Open" \notin PendingCodes'
  BY <1>2, <1>3 DEF PendingCodes, IInv, OpenFirst
<1>5. Head(pending).code \in PendingCodes
  BY <1>2 DEF PendingCodes
<1>6. Head(pending).code = "Open" => chst.Status = "Requested"
  BY <1>2 DEF IInv, OpenFirst
<1>7. PendingCodes' \subseteq PendingCodes
  BY <1>2 DEF PendingCodes
<1>8. PendingCodes \subseteq {Head(pending).code} \cup PendingCodes'
  BY <1>2, SMTT(30) DEF PendingCodes
<1> QED
  BY <1>2, <1>4, <1>5, <1>6, <1>7, <1>8

\* An event without a transition is dropped.  In a cleanup status that is
\* never the CleanupComplete that is owed.
LEMMA RejectEventIInv == IInv /\ RejectEvent => IInv'
<1> SUFFICES ASSUME IInv, RejectEvent PROVE IInv'
  OBVIOUS
<1>1. pending # <<>> /\ pending' = Tail(pending)
  BY DEF RejectEvent, Ready
<1>2. /\ pending' \in Seq(Events)
      /\ PendingCodes' \subseteq PendingCodes
      /\ PendingCodes \subseteq {Head(pending).code} \cup PendingCodes'
      /\ "Open" \notin PendingCodes'
  BY <1>1, TakeHead
<1>3. chst.Status \in CleanupStates => Head(pending).code # "CleanupComplete"
  BY DEF RejectEvent, DestinationOfHead, Destination, AfterFinishTransfer, CleanupStates, ToFromAny,
     NoChangeCodes, RecordCodes, ErrorCodes
<1>4. TypeOK'
  BY <1>2 DEF IInv, TypeOK, RejectEvent
<1>5. OpenFirst'
  BY <1>2 DEF OpenFirst, PendingCodes
<1>6. CleanupOwed'
  BY <1>2, <1>3 DEF IInv, CleanupOwed, RejectEvent
<1> QED
  BY <1>1, <1>2, <1>4, <1>5, <1>6 DEF IInv, RejectEvent, PendingKnown,
     CleanupReleased, HandlerCleansUp, NotCreated, InitiatorProgress,
     InitiatorCompletes

\* The event is applied: what that does to the status and to what was seen.
LEMMA AppliedStatus ==
  ASSUME IInv, Ready, DestinationOfHead # "Rejected",
         chst' = Apply(chst, Head(pending)),
         seen' = seen \cup ({Head(pending).code} \cap Milestones)
  PROVE  /\ chst' \in ChannelState
         /\ seen' \subseteq Milestones
         /\ chst'.Status = IF DestinationOfHead = "JustRecord" \/ DestinationOfHead = "NoChange"
                           THEN chst.Status ELSE DestinationOfHead
         /\ InitiatorProgress'
         /\ InitiatorCompletes'
<1> DEFINE c == Head(pending).code
<1>1. /\ Head(pending) \in Events /\ c \in EventCode
      /\ c \in Codes \cup {"Open", "CleanupComplete"}
      /\ c = "Open" => chst.Status = "Requested"
  <2>1. pending \in Seq(Events) /\ pending # <<>>
    BY DEF IInv, TypeOK, Ready
  <2>2. Head(pending) \in Events /\ Head(pending) = pending[1] /\ 1 \in DOMAIN pending
    BY <2>1, TailFacts
  <2> QED
    BY <2>2 DEF IInv, OpenFirst, PendingKnown, PendingCodes, Events
<1>2. chst \in ChannelState /\ chst.Status \in Status /\ seen \subseteq Milestones
  BY DEF IInv, TypeOK, ChannelState
<1>3. /\ chst' \in ChannelState
      /\ chst'.Status = IF DestinationOfHead \in Status
                        THEN DestinationOfHead ELSE chst.Status
  BY <1>1, <1>2, ApplyType DEF Ready, DestinationOfHead
<1>4. /\ DestinationOfHead \in Outcomes
      /\ "JustRecord" \notin Status /\ "NoChange" \notin Status
  BY <1>1, <1>2, DestinationType DEF DestinationOfHead, Status
<1>5. chst'.Status = IF DestinationOfHead = "JustRecord" \/ DestinationOfHead = "NoChange"
                     THEN chst.Status ELSE DestinationOfHead
  BY <1>3, <1>4 DEF Outcomes
<1>6. seen' \subseteq Milestones
  BY <1>2
<1>7. ASSUME Codes \cap ResponderOnly = {}
      PROVE  InitiatorProgress' /\ InitiatorCompletes'
  <2>1. c \notin ResponderOnly
    BY <1>1, <1>7 DEF ResponderOnly
  <2> HIDE DEF c
  <2>2. DestinationOfHead = Destination(c, chst.Status)
    BY DEF DestinationOfHead, c
  <2>3. seen' = seen \cup ({c} \cap Milestones)
    BY DEF c
  <2>4. chst.Status # "Finalizing"
    BY <1>7 DEF IInv, InitiatorProgress
  <2>5. Leads(c, chst.Status, DestinationOfHead)
    BY <1>1, <1>2, <2>2, Sources
  <2>6. InitiatorProgress'
    BY <1>1, <1>5, <1>7, <2>1, <2>3, <2>5, ZenonT(60)
    DEF IInv, InitiatorProgress, Leads, Milestones, ResponderOnly
  <2>7. InitiatorCompletes'
    BY <1>1, <1>5, <1>7, <2>1, <2>3, <2>4, <2>5, ZenonT(60)
    DEF IInv, InitiatorProgress, InitiatorCompletes, Leads, Milestones, ResponderOnly
  <2> QED
    BY <2>6, <2>7
<1>8. Codes \cap ResponderOnly # {} => InitiatorProgress' /\ InitiatorCompletes'
  BY DEF InitiatorProgress, InitiatorCompletes
<1> QED
  BY <1>3, <1>5, <1>6, <1>7, <1>8

\* An event that is just recorded keeps the status, and is never the
\* CleanupComplete that a cleanup status waits for.
LEMMA RecordEventIInv == IInv /\ RecordEvent => IInv'
<1> SUFFICES ASSUME IInv, RecordEvent PROVE IInv'
  OBVIOUS
<1>1. /\ Ready /\ pending # <<>> /\ pending' = Tail(pending)
      /\ DestinationOfHead = "JustRecord"
      /\ chst' = Apply(chst, Head(pending))
      /\ seen' = seen \cup ({Head(pending).code} \cap Milestones)
      /\ UNCHANGED <<has, handler, released, stalled, crashes>>
  BY DEF RecordEvent, Ready
<1>2. /\ pending' \in Seq(Events)
      /\ PendingCodes' \subseteq PendingCodes
      /\ PendingCodes \subseteq {Head(pending).code} \cup PendingCodes'
      /\ "Open" \notin PendingCodes'
  BY <1>1, TakeHead
<1>3. /\ chst' \in ChannelState /\ seen' \subseteq Milestones
      /\ chst'.Status = chst.Status
      /\ InitiatorProgress' /\ InitiatorCompletes'
  BY <1>1, AppliedStatus
<1>4. Head(pending).code # "CleanupComplete"
  BY <1>1 DEF DestinationOfHead, Destination, AfterFinishTransfer, ToFromAny, NoChangeCodes,
     RecordCodes, ErrorCodes
<1>5. TypeOK'
  BY <1>1, <1>2, <1>3 DEF IInv, TypeOK
<1>6. OpenFirst'
  BY <1>2 DEF OpenFirst, PendingCodes
<1>7. CleanupOwed'
  BY <1>1, <1>2, <1>3, <1>4 DEF IInv, CleanupOwed
<1>8. NotCreated'
  BY <1>1 DEF IInv, NotCreated
<1> QED
  BY <1>1, <1>2, <1>3, <1>5, <1>6, <1>7, <1>8 DEF IInv, PendingKnown,
     CleanupReleased, HandlerCleansUp

\* A transition into a cleanup status starts the handler.
LEMMA TransitionEventIInv == IInv /\ TransitionEvent => IInv'
<1> SUFFICES ASSUME IInv, TransitionEvent PROVE IInv'
  OBVIOUS
<1>1. /\ Ready /\ pending # <<>>
      /\ DestinationOfHead # "Rejected"
      /\ chst' = Apply(chst, Head(pending))
      /\ seen' = seen \cup ({Head(pending).code} \cap Milestones)
      /\ UNCHANGED <<has, released, crashes>>
      /\ pending' = <<>> \/ pending' = Tail(pending)
  BY DEF TransitionEvent, Ready
<1>2. /\ pending' \in Seq(Events)
      /\ PendingCodes' \subseteq PendingCodes
      /\ "Open" \notin PendingCodes'
  <2>1. CASE pending' = <<>>
    <3>1. PendingCodes' = {}
      BY <2>1 DEF PendingCodes
    <3>2. <<>> \in Seq(Events)
      OBVIOUS
    <3> QED
      BY <2>1, <3>1, <3>2
  <2>2. CASE pending' = Tail(pending)
    BY <1>1, <2>2, TakeHead
  <2> QED
    BY <1>1, <2>1, <2>2
<1>3. /\ chst' \in ChannelState /\ seen' \subseteq Milestones
      /\ InitiatorProgress' /\ InitiatorCompletes'
  BY <1>1, AppliedStatus
<1>4. /\ handler' \in BOOLEAN /\ stalled' \in BOOLEAN
      /\ handler' <=> chst'.Status \in CleanupStates
  <2>1. handler' = (chst'.Status \in CleanupStates) /\ stalled' = FALSE
    BY DEF TransitionEvent
  <2>2. handler' \in BOOLEAN
    BY <2>1
  <2>3. handler' <=> chst'.Status \in CleanupStates
    BY <2>1, <2>2, ZenonT(60)
  <2> QED
    BY <2>1, <2>2, <2>3, ZenonT(60)
<1>5. TypeOK'
  BY <1>1, <1>2, <1>3, <1>4 DEF IInv, TypeOK
<1>6. OpenFirst'
  BY <1>2 DEF OpenFirst, PendingCodes
<1>7. CleanupOwed' /\ HandlerCleansUp'
  BY <1>4 DEF CleanupOwed, HandlerCleansUp
<1>8. NotCreated'
  BY <1>1 DEF IInv, NotCreated
<1> QED
  BY <1>1, <1>2, <1>3, <1>5, <1>6, <1>7, <1>8 DEF IInv, PendingKnown,
     CleanupReleased

\* Every step preserves the invariant.
LEMMA NextIInv == IInv /\ [Next]_vars => IInv'
<1> SUFFICES ASSUME IInv, [Next]_vars PROVE IInv'
  OBVIOUS
<1>1. CASE \E e \in Inputs : Send(e)
  BY <1>1, SendIInv
<1>2. CASE UNCHANGED vars
  BY <1>2 DEF vars, IInv, TypeOK, PendingKnown, PendingCodes, OpenFirst,
     CleanupReleased, HandlerCleansUp, NotCreated, CleanupOwed,
     InitiatorProgress, InitiatorCompletes
<1> QED
  BY <1>1, <1>2, CreateNewIInv, RejectEventIInv, RecordEventIInv,
     TransitionEventIInv, CleanupConnectionIInv, CrashIInv DEF Next

\* The invariant holds in every reachable state.
THEOREM Invariance == Spec => []IInv
BY InitIInv, NextIInv, PTL DEF Spec

\* Every variable keeps its type, however many events are sent.
THEOREM TypeCorrect == Spec => []TypeOK
<1>1. IInv => TypeOK
  BY DEF IInv
<1> QED
  BY <1>1, Invariance, PTL

\* A channel in cleanup has a running cleanupConnection or a queued
\* CleanupComplete, unless the process crashed and nothing retriggered it.
THEOREM CleanupIsOwed == Spec => []CleanupOwed
<1>1. IInv => CleanupOwed
  BY DEF IInv
<1> QED
  BY <1>1, Invariance, PTL

\* An initiator completes only after FinishTransfer and, once accepted, after
\* the responder's ResponderCompletes.
THEOREM InitiatorCompletion == Spec => []InitiatorCompletes
<1>1. IInv => InitiatorCompletes
  BY DEF IInv
<1> QED
  BY <1>1, Invariance, PTL

\* A channel terminates only after this process ran cleanupConnection.
THEOREM ReleasedBeforeTermination == Spec => TerminatesReleased
<1>1. IInv /\ [Next]_vars =>
        [~IsChannelTerminated(chst.Status) /\ IsChannelTerminated(chst'.Status)
           => released]_vars
  <2> SUFFICES ASSUME IInv, Next, ~IsChannelTerminated(chst.Status),
                      IsChannelTerminated(chst'.Status)
               PROVE  released
    BY DEF vars
  <2>1. CASE RecordEvent \/ TransitionEvent
    <3>1. /\ Ready /\ DestinationOfHead # "Rejected"
          /\ chst' = Apply(chst, Head(pending))
          /\ seen' = seen \cup ({Head(pending).code} \cap Milestones)
      BY <2>1 DEF RecordEvent, TransitionEvent
    <3>2. chst'.Status = IF DestinationOfHead = "JustRecord" \/ DestinationOfHead = "NoChange"
                         THEN chst.Status ELSE DestinationOfHead
      BY <3>1, AppliedStatus
    <3>3. DestinationOfHead \in ChannelFinalityStates
      BY <3>2 DEF IsChannelTerminated
    <3>4. /\ Head(pending) \in Events /\ Head(pending).code \in PendingCodes
      <4>1. pending \in Seq(Events) /\ pending # <<>>
        BY <3>1 DEF IInv, TypeOK, Ready
      <4> QED
        BY <4>1, TailFacts DEF PendingCodes
    <3>5. Head(pending).code = "CleanupComplete"
      BY <3>3, <3>4 DEF DestinationOfHead, Destination, AfterFinishTransfer, ChannelFinalityStates,
         ToFromAny, Events, EventCode, ErrorCodes, NoChangeCodes, RecordCodes
    <3> QED
      BY <3>4, <3>5 DEF IInv, CleanupReleased
  <2>2. CASE CreateNew
    BY <2>2 DEF CreateNew, NewChannelState, IsChannelTerminated, ChannelFinalityStates
  <2>3. CASE (\E e \in Inputs : Send(e)) \/ RejectEvent \/ CleanupConnection \/ Crash
    BY <2>3 DEF Send, RejectEvent, CleanupConnection, Crash
  <2> QED
    BY <2>1, <2>2, <2>3 DEF Next
<1> QED
  BY <1>1, Invariance, PTL DEF Spec, TerminatesReleased

\* At an initiator a failing or cancelling channel is not brought back.
THEOREM FailureIsSticky == Spec => FailureSticks
<1>1. IInv /\ [Next]_vars =>
        [Codes \cap ResponderOnly = {} /\ chst.Status \in {"Failing", "Cancelling"}
           => chst'.Status \in {"Failing", "Cancelling", "Failed", "Cancelled"}]_vars
  <2> SUFFICES ASSUME IInv, Next, Codes \cap ResponderOnly = {},
                      chst.Status \in {"Failing", "Cancelling"}
               PROVE  chst'.Status \in {"Failing", "Cancelling", "Failed", "Cancelled"}
    BY DEF vars
  <2>1. CASE RecordEvent \/ TransitionEvent
    <3>1. /\ Ready /\ DestinationOfHead # "Rejected"
          /\ chst' = Apply(chst, Head(pending))
          /\ seen' = seen \cup ({Head(pending).code} \cap Milestones)
      BY <2>1 DEF RecordEvent, TransitionEvent
    <3>2. chst'.Status = IF DestinationOfHead = "JustRecord" \/ DestinationOfHead = "NoChange"
                         THEN chst.Status ELSE DestinationOfHead
      BY <3>1, AppliedStatus
    <3>3. /\ Head(pending).code \in EventCode \ ResponderOnly
          /\ Head(pending).code # "Open"
      <4>1. pending \in Seq(Events) /\ pending # <<>>
        BY <3>1 DEF IInv, TypeOK, Ready
      <4>2. /\ Head(pending) \in Events /\ Head(pending) = pending[1]
            /\ 1 \in DOMAIN pending /\ Head(pending).code \in PendingCodes
        BY <4>1, TailFacts DEF PendingCodes
      <4> QED
        BY <4>2 DEF IInv, OpenFirst, PendingKnown, Events, ResponderOnly
    <3> DEFINE c == Head(pending).code
    <3> HIDE DEF c
    <3>4. Destination(c, chst.Status) \in
            {"NoChange", "JustRecord", "Rejected", "Failing", "Cancelling",
             "Failed", "Cancelled"}
      BY <3>3 DEF c, Destination, AfterFinishTransfer, ToFromAny, EventCode, ErrorCodes,
         NoChangeCodes, RecordCodes, ResponderOnly
    <3> QED
      BY <3>1, <3>2, <3>4 DEF DestinationOfHead, c
  <2>2. CASE CreateNew
    BY <2>2 DEF CreateNew, IInv, NotCreated, NewChannelState
  <2>3. CASE (\E e \in Inputs : Send(e)) \/ RejectEvent \/ CleanupConnection \/ Crash
    BY <2>3 DEF Send, RejectEvent, CleanupConnection, Crash
  <2> QED
    BY <2>1, <2>2, <2>3 DEF Next
<1> QED
  BY <1>1, Invariance, PTL DEF Spec, FailureSticks

=============================================================================
