----------------------- MODULE TransferProtocolProofs -----------------------
(***************************************************************************)
(* What TransferProtocol's runs check of two peers, for any number of      *)
(* graphsync requests and any disturbances.                                *)
(***************************************************************************)
EXTENDS TransferProtocol, ChannelEventsProofs, TLAPS

\* The function Fire defines by recursion, for a sequence that has one.
LEMMA FireIs ==
  ASSUME NEW c, NEW s, NEW h,
         h = [n \in 0 .. Len(s) |-> IF n = 0 THEN c ELSE Effect(h[n - 1], s[n])]
  PROVE  \E u : /\ Fire(c, s) = u[Len(s)]
                /\ \A n \in 0 .. Len(s) :
                     u[n] = IF n = 0 THEN c ELSE Effect(u[n - 1], s[n])
<1> DEFINE F(k) == [n \in 0 .. Len(s) |-> IF n = 0 THEN c ELSE Effect(k[n - 1], s[n])]
           U == CHOOSE k : k = F(k)
<1>1. Fire(c, s) = U[Len(s)]
  BY Zenon DEF Fire
<1>2. U = F(U)
  BY Zenon
<1> HIDE DEF U
<1>3. \A n \in 0 .. Len(s) : U[n] = IF n = 0 THEN c ELSE Effect(U[n - 1], s[n])
  BY <1>2, Zenon
<1> QED
  BY <1>1, <1>3, Zenon

\* The channel after no event.
LEMMA Fire0 ==
  ASSUME NEW c
  PROVE  Fire(c, <<>>) = c
<1> DEFINE h == [n \in 0 .. 0 |-> c]
           s == <<>>
<1>1. h = [n \in 0 .. Len(s) |-> IF n = 0 THEN c ELSE Effect(h[n - 1], s[n])]
  OBVIOUS
<1> HIDE DEF h, s
<1>2. PICK u : /\ Fire(c, s) = u[Len(s)]
               /\ \A n \in 0 .. Len(s) : u[n] = IF n = 0 THEN c ELSE Effect(u[n - 1], s[n])
  BY <1>1, FireIs
<1> QED
  BY <1>2 DEF s

\* The channel after one event.
LEMMA Fire1 ==
  ASSUME NEW c, NEW e
  PROVE  Fire(c, <<e>>) = Effect(c, e)
<1> DEFINE h == [n \in 0 .. 1 |-> IF n = 0 THEN c ELSE Effect(c, e)]
           s == <<e>>
<1>1. h = [n \in 0 .. Len(s) |-> IF n = 0 THEN c ELSE Effect(h[n - 1], s[n])]
  OBVIOUS
<1> HIDE DEF h, s
<1>2. PICK u : /\ Fire(c, s) = u[Len(s)]
               /\ \A n \in 0 .. Len(s) : u[n] = IF n = 0 THEN c ELSE Effect(u[n - 1], s[n])
  BY <1>1, FireIs
<1>3. Len(s) = 1 /\ u[0] = c /\ u[1] = Effect(u[0], e)
  BY <1>2 DEF s
<1> QED
  BY <1>2, <1>3, Zenon DEF s

\* The channel after two events.
LEMMA Fire2 ==
  ASSUME NEW c, NEW e, NEW f
  PROVE  Fire(c, <<e, f>>) = Effect(Effect(c, e), f)
<1> DEFINE h == [n \in 0 .. 2 |-> IF n = 0 THEN c ELSE IF n = 1 THEN Effect(c, e)
                                  ELSE Effect(Effect(c, e), f)]
           s == <<e, f>>
<1>1. h = [n \in 0 .. Len(s) |-> IF n = 0 THEN c ELSE Effect(h[n - 1], s[n])]
  OBVIOUS
<1> HIDE DEF h, s
<1>2. PICK u : /\ Fire(c, s) = u[Len(s)]
               /\ \A n \in 0 .. Len(s) : u[n] = IF n = 0 THEN c ELSE Effect(u[n - 1], s[n])
  BY <1>1, FireIs
<1>3. Len(s) = 2 /\ u[0] = c /\ u[1] = Effect(u[0], e) /\ u[2] = Effect(u[1], f)
  BY <1>2 DEF s
<1> QED
  BY <1>2, <1>3, Zenon DEF s

\* The channel after three events.
LEMMA Fire3 ==
  ASSUME NEW c, NEW e, NEW f, NEW g
  PROVE  Fire(c, <<e, f, g>>) = Effect(Effect(Effect(c, e), f), g)
<1> DEFINE h == [n \in 0 .. 3 |-> IF n = 0 THEN c ELSE IF n = 1 THEN Effect(c, e)
                                  ELSE IF n = 2 THEN Effect(Effect(c, e), f)
                                  ELSE Effect(Effect(Effect(c, e), f), g)]
           s == <<e, f, g>>
<1>1. h = [n \in 0 .. Len(s) |-> IF n = 0 THEN c ELSE Effect(h[n - 1], s[n])]
  OBVIOUS
<1> HIDE DEF h, s
<1>2. PICK u : /\ Fire(c, s) = u[Len(s)]
               /\ \A n \in 0 .. Len(s) : u[n] = IF n = 0 THEN c ELSE Effect(u[n - 1], s[n])
  BY <1>1, FireIs, SMTT(30)
<1>3. Len(s) = 3 /\ u[0] = c /\ u[1] = Effect(u[0], e) /\ u[2] = Effect(u[1], f) /\ u[3] = Effect(u[2], g)
  BY <1>2 DEF s
<1> QED
  BY <1>2, <1>3, Zenon DEF s

\* A message more.
LEMMA BagSteps ==
  ASSUME NEW b, IsBag(b), NEW m, NEW how
  PROVE  \/ Posted(b, how, m) = b
         \/ /\ IsBag(Posted(b, how, m))
            /\ InFlight(Posted(b, how, m)) = InFlight(b) \cup {m}
            /\ m \notin InFlight(b) => Posted(b, how, m)[m] = 1
            /\ \A x \in InFlight(b) : x # m => Posted(b, how, m)[x] = b[x]
BY DEF IsBag, InFlight, Posted

\* A message less.
LEMMA BagTaken ==
  ASSUME IsBag(net), NEW m
  PROVE  /\ IsBag(Taken(m)) /\ InFlight(Taken(m)) \subseteq InFlight(net)
         /\ \A x \in InFlight(net) : x # m => Taken(m)[x] = net[x]
         /\ net[m] = 1 => m \notin InFlight(Taken(m))
BY DEF IsBag, InFlight, Taken

-----------------------------------------------------------------------------
(* Types of the state *)

Channel == [state : ChannelState, owed : Nat]

\* A graphsync request.
GsRequest ==
  [msg : Messages, reply : Messages \cup {NoMessage},
   client : {"open", "cancelling", "cancelled", "over"},
   server : {"sent", "open", "cancelled", "over"},
   outcome : {"none", "full", "failed"},
   known : SUBSET Peers, begun : SUBSET Peers]

\* What TypeOK says, and the exact sets the functions are in.
Types ==
  /\ pull \in BOOLEAN
  /\ ch \in [Peers -> Channel \cup {NoChannel}]
  /\ IsBag(net) /\ InFlight(net) \subseteq Messages
  /\ req \in Seq(GsRequest) /\ Len(req) <= MaxRequests
  /\ cur \in [Peers -> 0 .. Len(req)]
  /\ job \in {"none", "BeginFinalizing", "Complete"}
  /\ spent \subseteq Disturbances

\* No channel is what a missing one is taken for.
LEMMA NoChannelIsNone == NoChannel \notin Channel /\ NoChannel.owed = 0
                         /\ NoChannel.state.Status = "ChannelNotFoundError"
<1>1. NewChannelState \in ChannelState
  BY NewChannelStateType, Zenon
<1>2. [NewChannelState EXCEPT !.Status = "ChannelNotFoundError"].Status = "ChannelNotFoundError"
  BY <1>1, Zenon DEF ChannelState
<1>3. "ChannelNotFoundError" \notin Status
  BY Zenon DEF Status
<1> QED
  BY <1>2, <1>3, Zenon DEF NoChannel, Channel, ChannelState

-----------------------------------------------------------------------------
(* What events do to a channel *)

\* The statuses of a channel that ended or is about to, and of one that did not
\* complete.
Ended == CleanupStates \cup ChannelFinalityStates
GivenUp == {"Failing", "Cancelling", "Failed", "Cancelled"}

\* The statuses before the answer of the responder, and those once it ended the
\* transfer.
Early == {"Requested", "AwaitingAcceptance"}
Finished == {"Finalizing", "ResponderCompleted", "Completing", "Completed"}

\* A channel that owes a cleanup is past the answer.
Fit(c) == c.owed > 0 => c.state.Status \notin Early

\* From channel c to channel d: no way back to the transfer; none from failing and
\* cancelling; none to before the answer; no acceptance; and no end.
EndsForGood(c, d) == c.state.Status \in Ended => d.state.Status \in Ended
StaysGivenUp(c, d) == c.state.Status \in GivenUp => d.state.Status \in GivenUp
StaysLate(c, d) == c.state.Status \notin Early => d.state.Status \notin Early
NoAcceptance(c, d) == IsAccepted(d.state.Status) => IsAccepted(c.state.Status)
NoFinish(c, d) == d.state.Status \in Finished => c.state.Status \in Finished

\* The events that accept nothing and lead nowhere but to an end.
TameCodes ==
  EventCode \ {"Open", "BeginFinalizing", "Complete", "Accept", "FinishTransfer",
               "ResponderBeginsFinalization", "ResponderCompletes"}

\* Those an initiator gets from the messages of a responder and from graphsync.
InitiatorCodes == EventCode \ {"Open", "BeginFinalizing", "Complete"}

\* Those of them that end no transfer.
QuietCodes == InitiatorCodes \ {"FinishTransfer", "ResponderCompletes"}

Tame == {e \in Events : e.code \in TameCodes}
Onward(c, d) == StaysGivenUp(c, d) /\ StaysLate(c, d) /\ (Fit(c) => Fit(d))
Tamely(c, d) == EndsForGood(c, d) /\ Onward(c, d) /\ NoAcceptance(c, d) /\ NoFinish(c, d)

\* Where the table leads, for each of these.
LEMMA Table ==
  ASSUME NEW code \in EventCode, NEW s \in Status, ~IsChannelTerminated(s),
         Destination(code, s) \in Status
  PROVE  /\ code \in TameCodes =>
              /\ s \in Ended => Destination(code, s) \in Ended
              /\ s \in GivenUp => Destination(code, s) \in GivenUp
              /\ IsAccepted(Destination(code, s)) => IsAccepted(s)
         /\ code \in InitiatorCodes => (s \in GivenUp => Destination(code, s) \in GivenUp)
         /\ code \in {"Accept", "Complete"} => (s \in Ended => Destination(code, s) \in Ended)
<1> DEFINE d == Destination(code, s)
<1>1. CASE code \in {"Open", "Cancel", "Error", "BeginFinalizing", "Complete"}
  <2>2. CASE code \in {"Cancel", "Error"}
    <3>1. Destination(code, s) \in {"Cancelling", "Failing"}
      BY <2>2 DEF Destination, AfterFinishTransfer, ToFromAny, NoChangeCodes, RecordCodes, ErrorCodes
    <3> QED
      BY <2>2, <3>1, Zenon DEF IsAccepted, NotAcceptedStates, Ended, GivenUp, CleanupStates
  <2>3. CASE code = "Complete"
    <3>1. Destination(code, s) = "Completing"
      BY <2>3, Zenon DEF Destination, AfterFinishTransfer, ToFromAny, NoChangeCodes, RecordCodes, ErrorCodes
    <3> QED
      BY <2>3, <3>1, Zenon DEF Ended, CleanupStates, TameCodes, InitiatorCodes
  <2>4. CASE code \in {"Open", "BeginFinalizing"}
    BY <2>4, Zenon DEF TameCodes, InitiatorCodes
  <2> QED
    BY <1>1, <2>2, <2>3, <2>4, Zenon
<1>2. CASE code \in NoChangeCodes \cup RecordCodes
  BY <1>2 DEF Destination, ToFromAny, NoChangeCodes, RecordCodes, ErrorCodes, Status
<1> DEFINE named == {"Open", "Cancel", "Error", "BeginFinalizing", "Complete"} \cup NoChangeCodes
                       \cup RecordCodes
<1>3. DOMAIN ToFromAny = {"Open", "Cancel", "Error", "BeginFinalizing", "Complete"}
  BY Zenon DEF ToFromAny
<1>4. /\ named \cap {"FinishTransfer", "ResponderBeginsFinalization", "ResponderCompletes",
                      "ResumeResponder", "CleanupComplete", "Accept", "TransferInitiated"} = {}
      /\ {"FinishTransfer", "ResponderBeginsFinalization", "ResponderCompletes", "Accept"}
           \cap TameCodes = {}
  BY Zenon DEF NoChangeCodes, RecordCodes, ErrorCodes, TameCodes
<1>5. CASE code = "FinishTransfer"
  BY <1>5, <1>3, <1>4, Zenon DEF Destination, AfterFinishTransfer, IsAccepted, NotAcceptedStates, Ended, GivenUp,
     CleanupStates, ChannelFinalityStates, IsChannelTerminated, PausableStates, Status
<1>6. CASE code = "ResponderBeginsFinalization"
  BY <1>6, <1>3, <1>4 DEF Destination, IsAccepted, NotAcceptedStates, Ended, GivenUp,
     CleanupStates, ChannelFinalityStates, IsChannelTerminated, PausableStates, Status
<1>7. CASE code = "ResponderCompletes"
  BY <1>7, <1>3, <1>4 DEF Destination, IsAccepted, NotAcceptedStates, Ended, GivenUp,
     CleanupStates, ChannelFinalityStates, IsChannelTerminated, PausableStates, Status
<1>8. CASE code = "ResumeResponder"
  BY <1>8, <1>3, <1>4 DEF Destination, IsAccepted, NotAcceptedStates, Ended, GivenUp,
     CleanupStates, ChannelFinalityStates, IsChannelTerminated, PausableStates, Status
<1>9. CASE code = "CleanupComplete"
  BY <1>9, <1>3, <1>4 DEF Destination, IsAccepted, NotAcceptedStates, Ended, GivenUp,
     CleanupStates, ChannelFinalityStates, IsChannelTerminated, PausableStates, Status
<1>10. CASE code = "Accept"
  BY <1>10, <1>3, <1>4 DEF Destination, IsAccepted, NotAcceptedStates, Ended, GivenUp,
     CleanupStates, ChannelFinalityStates, IsChannelTerminated, PausableStates, Status
<1>11. CASE code = "TransferInitiated"
  BY <1>11, <1>3, <1>4 DEF Destination, IsAccepted, NotAcceptedStates, Ended, GivenUp,
     CleanupStates, ChannelFinalityStates, IsChannelTerminated, PausableStates, Status
<1>12. CASE code \in {"DataReceivedProgress", "DataSentProgress", "DataQueuedProgress",
                     "DataSent", "DataQueued", "PauseInitiator", "PauseResponder",
                     "DataLimitExceeded", "ResumeInitiator"}
  BY <1>12 DEF Destination, ToFromAny, NoChangeCodes, RecordCodes, ErrorCodes, Status
<1> QED
  BY <1>1, <1>2, <1>5, <1>6, <1>7, <1>8, <1>9, <1>10, <1>11, <1>12, Zenon DEF EventCode, ErrorCodes, NoChangeCodes, RecordCodes

\* Where it leads to the answer and to the end.
LEMMA EndTable ==
  ASSUME NEW code \in EventCode, NEW s \in Status, ~IsChannelTerminated(s),
         Destination(code, s) \in Status
  PROVE  /\ code \in QuietCodes => (Destination(code, s) \in Finished => s \in Finished)
         /\ code = "FinishTransfer" =>
              (Destination(code, s) \in Finished => s \in Finished \cup {"AwaitingAcceptance"})
         /\ code \in InitiatorCodes => (s \notin Early => Destination(code, s) \notin Early)
<1> DEFINE d == Destination(code, s)
<1>1. CASE code \in {"Open", "BeginFinalizing", "Complete"}
  BY <1>1, Zenon DEF InitiatorCodes, QuietCodes
<1>2. CASE code \in {"Cancel", "Error"}
  <2>1. Destination(code, s) \in {"Cancelling", "Failing"}
    BY <1>2 DEF Destination, AfterFinishTransfer, ToFromAny, NoChangeCodes, RecordCodes, ErrorCodes
  <2> QED
    BY <1>2, <2>1, Zenon DEF Finished, Early
<1>3. CASE code \in NoChangeCodes \cup RecordCodes
  BY <1>3 DEF Destination, ToFromAny, NoChangeCodes, RecordCodes, ErrorCodes, Status
<1> DEFINE named == {"Open", "Cancel", "Error", "BeginFinalizing", "Complete"} \cup NoChangeCodes
                       \cup RecordCodes
<1>4. DOMAIN ToFromAny = {"Open", "Cancel", "Error", "BeginFinalizing", "Complete"}
  BY Zenon DEF ToFromAny
<1>5. /\ named \cap {"FinishTransfer", "ResponderBeginsFinalization", "ResponderCompletes",
                      "ResumeResponder", "CleanupComplete", "Accept", "TransferInitiated"} = {}
      /\ {"FinishTransfer", "ResponderCompletes"} \cap QuietCodes = {}
  BY Zenon DEF NoChangeCodes, RecordCodes, ErrorCodes, QuietCodes
<1>6. CASE code = "FinishTransfer"
  BY <1>4, <1>5, <1>6, Zenon DEF Destination, AfterFinishTransfer, Early, Finished, Status
<1>7. CASE code = "ResponderBeginsFinalization"
  BY <1>4, <1>5, <1>7 DEF Destination, Early, Finished, Status
<1>8. CASE code = "ResponderCompletes"
  BY <1>4, <1>5, <1>8 DEF Destination, Early, Finished, Status
<1>9. CASE code = "ResumeResponder"
  BY <1>4, <1>5, <1>9 DEF Destination, Early, Finished, Status, PausableStates
<1>10. CASE code = "CleanupComplete"
  BY <1>4, <1>5, <1>10 DEF Destination, Early, Finished, Status
<1>11. CASE code = "Accept"
  BY <1>4, <1>5, <1>11 DEF Destination, Early, Finished, Status
<1>12. CASE code = "TransferInitiated"
  BY <1>4, <1>5, <1>12 DEF Destination, Early, Finished, Status
<1>13. CASE code \in {"DataReceivedProgress", "DataSentProgress", "DataQueuedProgress",
                     "DataSent", "DataQueued", "PauseInitiator", "PauseResponder",
                     "DataLimitExceeded", "ResumeInitiator"}
  BY <1>13 DEF Destination, ToFromAny, NoChangeCodes, RecordCodes, ErrorCodes, Status
<1> QED
  BY <1>1, <1>2, <1>3, <1>6, <1>7, <1>8, <1>9, <1>10, <1>11, <1>12, <1>13, Zenon DEF EventCode, ErrorCodes, NoChangeCodes, RecordCodes

\* One event, as far as the answer and the end go.
LEMMA EffectEnds ==
  ASSUME NEW c \in Channel, NEW e \in Events
  PROVE  /\ e.code \in QuietCodes => NoFinish(c, Effect(c, e))
         /\ e.code = "FinishTransfer" /\ c.state.Status # "AwaitingAcceptance" =>
              NoFinish(c, Effect(c, e))
         /\ e.code \in InitiatorCodes =>
              StaysLate(c, Effect(c, e)) /\ (Fit(c) => Fit(Effect(c, e)))
<1> DEFINE d == Effect(c, e)
<1>1. c.state \in ChannelState /\ c.owed \in Nat /\ c.state.Status \in Status /\ e.code \in EventCode
  BY Zenon DEF Channel, ChannelState, Events
<1>2. Apply(c.state, e).Status # c.state.Status =>
        /\ Apply(c.state, e).Status = Destination(e.code, c.state.Status)
        /\ Apply(c.state, e).Status \in Status /\ ~IsChannelTerminated(c.state.Status)
  BY <1>1, ApplyType, Zenon
<1>3. /\ d.state = Apply(c.state, e)
      /\ d.owed = IF IsChannelTerminated(d.state.Status) THEN 0
                  ELSE IF StartsCleanup(c.state, e) THEN c.owed + 1 ELSE c.owed
  BY Zenon DEF Effect
<1>4. d.owed > 0 => c.owed > 0 \/ d.state.Status \in CleanupStates
  BY <1>1, <1>3 DEF StartsCleanup
<1>5. \/ d.state.Status = c.state.Status
      \/ /\ d.state.Status = Destination(e.code, c.state.Status) /\ d.state.Status \in Status
         /\ ~IsChannelTerminated(c.state.Status)
  BY <1>2, <1>3, Zenon
<1> HIDE DEF d
<1>6. /\ e.code \in QuietCodes => NoFinish(c, d)
      /\ e.code = "FinishTransfer" /\ c.state.Status # "AwaitingAcceptance" => NoFinish(c, d)
      /\ e.code \in InitiatorCodes => StaysLate(c, d)
  BY <1>1, <1>5, EndTable, Zenon DEF NoFinish, StaysLate
<1>7. StaysLate(c, d) /\ Fit(c) => Fit(d)
  BY <1>4, Zenon DEF StaysLate, Fit, CleanupStates, Early
<1> QED
  BY <1>6, <1>7, Zenon DEF d

\* One event.
LEMMA EffectOf ==
  ASSUME NEW c \in Channel, NEW e \in Events
  PROVE  /\ Effect(c, e) \in Channel
         /\ e.code \in TameCodes => Tamely(c, Effect(c, e))
         /\ e.code \in InitiatorCodes => Onward(c, Effect(c, e))
         /\ e.code \in {"Accept", "Complete"} => EndsForGood(c, Effect(c, e))
<1> DEFINE d == Effect(c, e)
<1>1. c.state \in ChannelState /\ c.owed \in Nat /\ c.state.Status \in Status /\ e.code \in EventCode
  BY Zenon DEF Channel, ChannelState, Events
<1>2. /\ Apply(c.state, e) \in ChannelState
      /\ Apply(c.state, e).Status # c.state.Status =>
           /\ Apply(c.state, e).Status = Destination(e.code, c.state.Status)
           /\ Apply(c.state, e).Status \in Status /\ ~IsChannelTerminated(c.state.Status)
  BY <1>1, ApplyType, Zenon
<1>3. d \in Channel /\ d.state = Apply(c.state, e)
  BY <1>1, <1>2 DEF Effect, Channel
<1>4. \/ d.state.Status = c.state.Status
      \/ /\ d.state.Status = Destination(e.code, c.state.Status) /\ d.state.Status \in Status
         /\ ~IsChannelTerminated(c.state.Status)
  BY <1>2, <1>3, Zenon
<1> HIDE DEF d
<1>5. /\ e.code \in TameCodes => EndsForGood(c, d) /\ StaysGivenUp(c, d) /\ NoAcceptance(c, d)
      /\ e.code \in InitiatorCodes => StaysGivenUp(c, d)
      /\ e.code \in {"Accept", "Complete"} => EndsForGood(c, d)
  <2>1. CASE d.state.Status = c.state.Status
    BY <2>1, Zenon DEF EndsForGood, StaysGivenUp, NoAcceptance
  <2>2. CASE /\ d.state.Status = Destination(e.code, c.state.Status) /\ d.state.Status \in Status
             /\ ~IsChannelTerminated(c.state.Status)
    BY <1>1, <2>2, Table DEF EndsForGood, StaysGivenUp, NoAcceptance
  <2> QED
    BY <1>4, <2>1, <2>2, Zenon
<1>6. TameCodes \subseteq QuietCodes /\ QuietCodes \subseteq InitiatorCodes
  BY Zenon DEF TameCodes, QuietCodes, InitiatorCodes
<1> QED
  BY <1>3, <1>5, <1>6, EffectEnds, Zenon DEF Tamely, Onward, d

\* A sequence of at most three events of S.
Short(s, S) ==
  \/ s = <<>>
  \/ \E e \in S : s = <<e>>
  \/ \E e, f \in S : s = <<e, f>>
  \/ \E e, f, g \in S : s = <<e, f, g>>

\* The events of those codes.
FromResponder == {e \in Events : e.code \in InitiatorCodes}
Quiet == {e \in Events : e.code \in QuietCodes}

\* Moves compose.
LEMMA Composed ==
  /\ \A d : Tamely(d, d) /\ Onward(d, d) /\ NoFinish(d, d)
  /\ \A a, b, d : Tamely(a, b) /\ Tamely(b, d) => Tamely(a, d)
  /\ \A a, b, d : Onward(a, b) /\ Onward(b, d) => Onward(a, d)
  /\ \A a, b, d : NoFinish(a, b) /\ NoFinish(b, d) => NoFinish(a, d)
<1>1. \A d : Onward(d, d) /\ NoFinish(d, d)
  BY Zenon DEF Onward, StaysGivenUp, StaysLate, NoFinish
<1>2. \A d : Tamely(d, d)
  BY <1>1, Zenon DEF Tamely, EndsForGood, NoAcceptance
<1>3. \A a, b, d : Onward(a, b) /\ Onward(b, d) => Onward(a, d)
  BY Zenon DEF Onward, StaysGivenUp, StaysLate
<1>4. \A a, b, d : NoFinish(a, b) /\ NoFinish(b, d) => NoFinish(a, d)
  BY Zenon DEF NoFinish
<1>5. \A a, b, d : Tamely(a, b) /\ Tamely(b, d) => Tamely(a, d)
  BY <1>3, <1>4, ZenonT(60) DEF Tamely, EndsForGood, NoAcceptance
<1> QED
  BY <1>1, <1>2, <1>3, <1>4, <1>5, Zenon

\* Such a sequence.
LEMMA FireShort ==
  ASSUME NEW c \in Channel, NEW s
  PROVE  /\ Short(s, Events) => Fire(c, s) \in Channel
         /\ Short(s, Tame) => Tamely(c, Fire(c, s))
         /\ Short(s, FromResponder) => Onward(c, Fire(c, s))
         /\ Short(s, Quiet) => NoFinish(c, Fire(c, s))
<1>1. \A d \in Channel : \A e \in Events : Effect(d, e) \in Channel
  BY EffectOf, Zenon
<1>2. \A d \in Channel : \A e \in Tame : Effect(d, e) \in Channel /\ Tamely(d, Effect(d, e))
  BY EffectOf, Zenon DEF Tame
<1>3. \A d \in Channel : \A e \in FromResponder :
        Effect(d, e) \in Channel /\ Onward(d, Effect(d, e))
  BY EffectOf, Zenon DEF FromResponder
<1>4. \A d \in Channel : \A e \in Quiet :
        Effect(d, e) \in Channel /\ NoFinish(d, Effect(d, e))
  BY EffectOf, EffectEnds, Zenon DEF Quiet
<1>5. /\ Fire(c, <<>>) = c
      /\ \A e : Fire(c, <<e>>) = Effect(c, e)
      /\ \A e, f : Fire(c, <<e, f>>) = Effect(Effect(c, e), f)
      /\ \A e, f, g : Fire(c, <<e, f, g>>) = Effect(Effect(Effect(c, e), f), g)
  BY Fire0, Fire1, Fire2, Fire3
<1>6. Short(s, Events) => Fire(c, s) \in Channel
  BY <1>1, <1>5 DEF Short
<1>7. Short(s, Tame) => Tamely(c, Fire(c, s))
  BY <1>2, <1>5, Composed, Zenon DEF Short
<1>8. Short(s, FromResponder) => Onward(c, Fire(c, s))
  BY <1>3, <1>5, Composed, Zenon DEF Short
<1>9. Short(s, Quiet) => NoFinish(c, Fire(c, s))
  BY <1>4, <1>5, Composed, Zenon DEF Short
<1> QED
  BY <1>6, <1>7, <1>8, <1>9, Zenon

\* A sequence of events of S is one of events of a larger set.
LEMMA ShortIn ==
  ASSUME NEW S, NEW T, S \subseteq T, NEW s, Short(s, S)
  PROVE  Short(s, T)
BY Zenon DEF Short

\* The events the managers send.
LEMMA EventsSent ==
  /\ \A code \in TameCodes : Event(code) \in Tame
  /\ \A code \in InitiatorCodes : Event(code) \in FromResponder
  /\ \A code \in EventCode : Event(code) \in Events
  /\ \A final \in BOOLEAN : SetFinal(final) \in Tame
  /\ Tame \subseteq FromResponder /\ FromResponder \subseteq Events
  /\ {"Restart", "Cancel", "Opened", "TransferInitiated", "NewVoucher", "NewVoucherResult",
      "PauseResponder", "ResumeResponder", "CleanupComplete", "CompleteCleanupOnRestart",
      "Disconnected", "RequestCancelled", "Error", "SetRequiresFinalization"} \subseteq TameCodes
  /\ {"Accept", "FinishTransfer", "ResponderBeginsFinalization", "ResponderCompletes"}
       \subseteq InitiatorCodes
  /\ {"Open", "BeginFinalizing", "Complete"} \subseteq EventCode
<1>1. /\ {"Restart", "Cancel", "Opened", "TransferInitiated", "NewVoucher", "NewVoucherResult",
          "PauseResponder", "ResumeResponder", "CleanupComplete", "CompleteCleanupOnRestart",
          "Disconnected", "RequestCancelled", "Error", "SetRequiresFinalization"} \subseteq TameCodes
      /\ {"Accept", "FinishTransfer", "ResponderBeginsFinalization", "ResponderCompletes"}
           \subseteq InitiatorCodes
      /\ {"Open", "BeginFinalizing", "Complete"} \subseteq EventCode
  BY DEF TameCodes, InitiatorCodes, EventCode, ErrorCodes
<1>2. TameCodes \subseteq InitiatorCodes /\ InitiatorCodes \subseteq EventCode
  BY Zenon DEF TameCodes, InitiatorCodes
<1>3. \A code \in EventCode : Event(code) \in Events /\ Event(code).code = code
  BY Zenon DEF Event, Events
<1>4. \A final \in BOOLEAN : SetFinal(final) \in Events /\ SetFinal(final).code = "SetRequiresFinalization"
  BY Zenon DEF SetFinal, Events, EventCode
<1> QED
  BY <1>1, <1>2, <1>3, <1>4, Zenon DEF Tame, FromResponder

-----------------------------------------------------------------------------
(* What the managers do with messages *)

\* Short sequences put together.
LEMMA Joined0 ==
  ASSUME NEW a, NEW b
  PROVE  /\ <<>> \o <<>> = <<>>
         /\ <<>> \o <<a>> = <<a>> /\ <<a>> \o <<>> = <<a>>
         /\ <<>> \o <<a, b>> = <<a, b>> /\ <<a, b>> \o <<>> = <<a, b>>
OBVIOUS

\* What comes first is the first sequence.
LEMMA JoinedBefore ==
  ASSUME NEW S, NEW x \in Seq(S), NEW y \in Seq(S), NEW i \in 1 .. Len(x)
  PROVE  (x \o y)[i] = x[i]
OBVIOUS

\* What comes after the first sequence is the second.
LEMMA JoinedAt ==
  ASSUME NEW S, NEW x \in Seq(S), NEW y \in Seq(S),
         NEW i \in (Len(x) + 1) .. (Len(x) + Len(y))
  PROVE  (x \o y)[i] = y[i - Len(x)]
OBVIOUS

\* Two sequences put together.
LEMMA JoinedSeq ==
  ASSUME NEW S, NEW x \in Seq(S), NEW y \in Seq(S)
  PROVE  x \o y \in Seq(S) /\ Len(x \o y) = Len(x) + Len(y)
OBVIOUS

\* One element before one.
LEMMA Joined2 ==
  ASSUME NEW a, NEW b
  PROVE  <<a>> \o <<b>> = <<a, b>>
<1> DEFINE S == {a, b}
           x == <<a>>
           y == <<b>>
           s == <<a, b>>
           z == x \o y
<1>1. x \in Seq(S) /\ y \in Seq(S) /\ s \in Seq(S)
  OBVIOUS
<1>2. Len(x) = 1 /\ Len(y) = 1 /\ Len(s) = 2
  BY Zenon
<1>3. x[1] = a /\ y[1] = b /\ s[1] = a /\ s[2] = b
  BY Zenon
<1> HIDE DEF S, x, y, s
<1>4. z \in Seq(S) /\ Len(z) = Len(x) + Len(y)
  BY <1>1, JoinedSeq, Zenon
<1>5. /\ 1 \in 1 .. Len(x)
      /\ 2 \in (Len(x) + 1) .. (Len(x) + Len(y)) /\ 2 - Len(x) = 1
  BY <1>2
<1>6. z[1] = x[1]
  BY <1>1, <1>5, JoinedBefore
<1>7. z[2] = y[2 - Len(x)]
  BY <1>1, <1>5, JoinedAt, Zenon
<1> HIDE DEF z
<1>8. Len(z) = 2 /\ z[1] = a /\ z[2] = b
  BY <1>2, <1>3, <1>4, <1>5, <1>6, <1>7
<1>9. z = s
  BY <1>1, <1>2, <1>3, <1>4, <1>8
<1> QED
  BY <1>9, Zenon DEF x, y, z, s

\* One element before two.
LEMMA Joined3 ==
  ASSUME NEW a, NEW b, NEW c
  PROVE  <<a>> \o <<b, c>> = <<a, b, c>>
<1> DEFINE S == {a, b, c}
           x == <<a>>
           y == <<b, c>>
           s == <<a, b, c>>
           z == x \o y
<1>1. x \in Seq(S) /\ y \in Seq(S) /\ s \in Seq(S)
  OBVIOUS
<1>2. Len(x) = 1 /\ Len(y) = 2 /\ Len(s) = 3
  BY Zenon
<1>3. x[1] = a /\ y[1] = b /\ y[2] = c /\ s[1] = a /\ s[2] = b /\ s[3] = c
  BY Zenon
<1> HIDE DEF S, x, y, s
<1>4. z \in Seq(S) /\ Len(z) = Len(x) + Len(y)
  BY <1>1, JoinedSeq, Zenon
<1>5. /\ 1 \in 1 .. Len(x)
      /\ 2 \in (Len(x) + 1) .. (Len(x) + Len(y)) /\ 2 - Len(x) = 1
      /\ 3 \in (Len(x) + 1) .. (Len(x) + Len(y)) /\ 3 - Len(x) = 2
  BY <1>2
<1>6. z[1] = x[1]
  BY <1>1, <1>5, JoinedBefore
<1>7. z[2] = y[2 - Len(x)] /\ z[3] = y[3 - Len(x)]
  BY <1>1, <1>5, JoinedAt, Zenon
<1> HIDE DEF z
<1>8. Len(z) = 3 /\ z[1] = a /\ z[2] = b /\ z[3] = c
  BY <1>2, <1>3, <1>4, <1>5, <1>6, <1>7
<1>9. z = s
  BY <1>1, <1>2, <1>3, <1>4, <1>8
<1> QED
  BY <1>9, Zenon DEF x, y, z, s

\* One event of S, or none, before at most two.
LEMMA JoinedShort ==
  ASSUME NEW S, NEW x, x = <<>> \/ \E e \in S : x = <<e>>,
         NEW y, y = <<>> \/ (\E e \in S : y = <<e>>) \/ \E e, f \in S : y = <<e, f>>
  PROVE  Short(x \o y, S)
<1>1. CASE x = <<>>
  <2>1. x \o y = y
    BY <1>1, Joined0, Zenon
  <2> QED
    BY <2>1, Zenon DEF Short
<1>2. CASE \E e \in S : x = <<e>>
  <2>1. PICK e \in S : x = <<e>>
    BY <1>2, Zenon
  <2>2. CASE y = <<>>
    <3>1. x \o y = <<e>>
      BY <2>1, <2>2, Joined0, Zenon
    <3> QED
      BY <3>1, Zenon DEF Short
  <2>3. CASE \E f \in S : y = <<f>>
    <3>1. PICK f \in S : y = <<f>>
      BY <2>3, Zenon
    <3>2. x \o y = <<e, f>>
      BY <2>1, <3>1, Joined2, Zenon
    <3> QED
      BY <3>2, Zenon DEF Short
  <2>4. CASE \E f, g \in S : y = <<f, g>>
    <3>1. PICK f, g \in S : y = <<f, g>>
      BY <2>4, Zenon
    <3>2. x \o y = <<e, f, g>>
      BY <2>1, <3>1, Joined3, Zenon
    <3> QED
      BY <3>2, Zenon DEF Short
  <2> QED
    BY <2>2, <2>3, <2>4, Zenon
<1> QED
  BY <1>1, <1>2, Zenon

\* recordAcceptedValidationEvents sends at most two events, both tame.
LEMMA AcceptedShort ==
  ASSUME NEW st, NEW final \in BOOLEAN
  PROVE  /\ Short(AcceptedEvents(st, final), Tame)
         /\ Short(<<Event("Restart")>> \o AcceptedEvents(st, final), Tame)
<1> DEFINE a == SetFinal(final)
           b == Event("PauseResponder")
           d == Event("ResumeResponder")
           r == Event("Restart")
           x == IF final # st.RequiresFinalization THEN <<a>> ELSE <<>>
           y == IF LeaveRequestPaused(st, final)
                THEN IF ResponderPaused(st) THEN <<>> ELSE <<b>>
                ELSE IF ResponderPaused(st) THEN <<d>> ELSE <<>>
<1>1. a \in Tame /\ b \in Tame /\ d \in Tame /\ r \in Tame
  BY EventsSent, Zenon
<1>2. AcceptedEvents(st, final) = x \o y
  BY Zenon DEF AcceptedEvents
<1> HIDE DEF a, b, d, r
<1>3. x \in {<<>>, <<a>>} /\ y \in {<<>>, <<b>>, <<d>>}
  BY Zenon
<1> HIDE DEF x, y
<1>4. Short(x \o y, Tame)
  BY <1>1, <1>3, JoinedShort, Zenon
<1>5. x \o y \in {<<>>, <<a>>, <<b>>, <<d>>, <<a, b>>, <<a, d>>}
  <2>1. x = <<>> => x \o y = y
    BY <1>3, Joined0, Zenon
  <2>2. x = <<a>> /\ y = <<>> => x \o y = <<a>>
    BY Joined0, Zenon
  <2>3. x = <<a>> /\ y = <<b>> => x \o y = <<a, b>>
    BY Joined2, Zenon
  <2>4. x = <<a>> /\ y = <<d>> => x \o y = <<a, d>>
    BY Joined2, Zenon
  <2> QED
    BY <1>3, <2>1, <2>2, <2>3, <2>4, Zenon
<1> DEFINE z == x \o y
<1>6. z = <<>> \/ (\E e \in Tame : z = <<e>>) \/ \E e, f \in Tame : z = <<e, f>>
  BY <1>1, <1>5, Zenon
<1> HIDE DEF z
<1>7. Short(<<r>> \o z, Tame)
  BY <1>1, <1>6, JoinedShort, Zenon
<1> QED
  BY <1>2, <1>4, <1>7, Zenon DEF r, z

\* OnResponseReceived sends at most three events; those of a response that
\* accepts nothing are tame.
LEMMA ResponseShort ==
  ASSUME NEW m \in Messages
  PROVE  /\ Short(ResponseEvents(m), FromResponder)
         /\ (~m.accepted \/ m.kind = "Cancel" => Short(ResponseEvents(m), Tame))
<1> DEFINE v == Event("NewVoucherResult")
           x == Event("Error")
           k == Event("Cancel")
           c == Event("ResponderCompletes")
           p == Event(IF m.paused THEN "PauseResponder" ELSE "ResumeResponder")
           a == Event("Accept")
           r == Event("Restart")
           f == Event("ResponderBeginsFinalization")
           y == CASE m.kind = "New" -> <<a>>
                  [] m.kind = "Restart" -> <<r>>
                  [] m.kind = "Complete" -> <<f>>
                  [] OTHER -> <<>>
           z == IF ~m.accepted THEN <<x>>
                ELSE IF m.kind = "Complete" /\ ~m.paused THEN <<c>> ELSE y \o <<p>>
           w == IF m.voucher THEN <<v>> ELSE <<>>
<1>1. {v, x, k, p, r} \subseteq Tame /\ {v, x, k, p, r, c, a, f} \subseteq FromResponder
  BY EventsSent, Zenon
<1>2. ResponseEvents(m) = IF m.kind = "Cancel" THEN <<k>> ELSE w \o z
  BY Zenon DEF ResponseEvents
<1> HIDE DEF v, x, k, c, p, a, r, f
<1>3. y \in {<<>>, <<a>>, <<r>>, <<f>>}
  BY Zenon
<1> HIDE DEF y
<1>4. y \o <<p>> \in {<<p>>, <<a, p>>, <<r, p>>, <<f, p>>}
  BY <1>3, Joined0, Joined2, ZenonT(60)
<1>5. z \in {<<x>>, <<c>>, <<p>>, <<a, p>>, <<r, p>>, <<f, p>>} /\ (~m.accepted => z = <<x>>)
  BY <1>4, Zenon
<1>6. w \in {<<>>, <<v>>}
  BY Zenon
<1> HIDE DEF z, w
<1>7. Short(w \o z, FromResponder)
  <2>1. (\E e \in FromResponder : z = <<e>>) \/ \E e, g \in FromResponder : z = <<e, g>>
    BY <1>1, <1>5, Zenon
  <2> QED
    BY <1>1, <1>6, <2>1, JoinedShort, Zenon
<1>8. ~m.accepted => Short(w \o z, Tame)
  <2>1. ~m.accepted => \E e \in Tame : z = <<e>>
    BY <1>1, <1>5, Zenon
  <2> QED
    BY <1>1, <1>6, <2>1, JoinedShort, Zenon
<1>9. Short(<<k>>, FromResponder) /\ Short(<<k>>, Tame)
  BY <1>1, Zenon DEF Short
<1> QED
  BY <1>2, <1>7, <1>8, <1>9, Zenon

\* A new channel.
LEMMA CreateNewIs == CreateNew \in Channel /\ CreateNew.state.Status = "Requested" /\ Fit(CreateNew)
<1> DEFINE c == [state |-> NewChannelState, owed |-> 0]
<1>1. c \in Channel /\ c.state = NewChannelState
  BY NewChannelStateType, Zenon DEF Channel
<1>2. Event("Open") \in Events /\ Event("Open").code = "Open"
  BY EventsSent, Zenon DEF Event
<1>3. CreateNew = Effect(c, Event("Open"))
  BY Fire1, Zenon DEF CreateNew
<1>4. CreateNew \in Channel
  BY <1>1, <1>2, <1>3, EffectOf, Zenon
<1>5. Effect(c, Event("Open")).state = Apply(NewChannelState, Event("Open"))
  BY <1>1, Zenon DEF Effect
<1>6. Apply(NewChannelState, Event("Open")).Status = "Requested"
  <2>1. NewChannelState.Status = "Requested" /\ ~IsChannelTerminated("Requested")
    BY Zenon DEF NewChannelState, IsChannelTerminated, ChannelFinalityStates
  <2>2. Destination("Open", "Requested") = "Requested" /\ "Requested" \in Status
    BY Zenon DEF Destination, AfterFinishTransfer, ToFromAny, NoChangeCodes, RecordCodes, ErrorCodes, Status
  <2> QED
    BY <1>2, <2>1, <2>2, NewChannelStateType, ApplyType, Zenon
<1>7. ~(Effect(c, Event("Open")).owed > 0)
  <2>1. ~StartsCleanup(NewChannelState, Event("Open"))
    BY <1>6, Zenon DEF StartsCleanup, CleanupStates
  <2>2. Effect(c, Event("Open")).owed = 0
    BY <1>1, <2>1, Zenon DEF Effect
  <2> QED
    BY <2>2
<1> QED
  BY <1>3, <1>4, <1>5, <1>6, <1>7, Zenon DEF Fit

\* A channel that is not gone exists.
LEMMA LiveIsChannel ==
  ASSUME NEW c \in Channel \cup {NoChannel}
  PROVE  /\ ~Missing(c) <=> c \in Channel
         /\ ~Gone(c) => c \in Channel /\ c.state \in ChannelState /\ c.state.Status \in Status
BY NoChannelIsNone, Zenon DEF Missing, Gone, Channel, ChannelState

\* Sending tame events to a channel, if it is there.
LEMMA FireIfLiveIs ==
  ASSUME NEW c \in Channel \cup {NoChannel}, NEW s
  PROVE  /\ Short(s, Events) => FireIfLive(c, s) \in Channel \cup {NoChannel}
         /\ Missing(c) => FireIfLive(c, s) = c
         /\ ~Missing(c) /\ Short(s, Events) => FireIfLive(c, s) \in Channel
         /\ ~Missing(c) /\ Short(s, Tame) => Tamely(c, FireIfLive(c, s))
         /\ ~Missing(c) /\ Short(s, FromResponder) => Onward(c, FireIfLive(c, s))
         /\ Short(s, Quiet) => NoFinish(c, FireIfLive(c, s))
<1>2. CASE Gone(c)
  BY <1>2, Composed, LiveIsChannel, Zenon DEF FireIfLive
<1>3. CASE ~Gone(c)
  <2>1. c \in Channel /\ FireIfLive(c, s) = Fire(c, s) /\ ~Missing(c)
    BY <1>3, LiveIsChannel, Zenon DEF FireIfLive, Gone
  <2> QED
    BY <2>1, FireShort, Zenon
<1> QED
  BY <1>2, <1>3, Zenon

-----------------------------------------------------------------------------
(* How a step changes the channels *)

\* The responder has a channel.
ResponderHas == ~Missing(ch.responder)

\* A channel stays as it is, or gets tame events.
Live(c, d) == c = d \/ (c \in Channel /\ d \in Channel /\ Tamely(c, d))

\* The initiator's channel, once the responder has one, may move as a response
\* says, and else gets tame events or is created.
InitiatorMoves(c, d, has) ==
  \/ Live(c, d)
  \/ c \in Channel /\ d \in Channel /\ Onward(c, d) /\ has
  \/ Missing(c) /\ d \in Channel /\ ~IsAccepted(d.state.Status) /\ Fit(d)

\* The responder's channel gets tame events, is created, or records the end.
ResponderMoves(c, d, recorded) ==
  \/ Live(c, d)
  \/ c \in Channel /\ d \in Channel /\ recorded
  \/ Missing(c) /\ d \in Channel /\ d.state.Status \notin Finished

\* How a step moves the two channels.
ChannelStep ==
  /\ ch' \in [Peers -> Channel \cup {NoChannel}]
  /\ InitiatorMoves(ch.initiator, ch'.initiator, ResponderHas)
  /\ ResponderMoves(ch.responder, ch'.responder, job # "none" /\ job' = "none")

\* The status of a missing channel is neither accepted nor ended.
LEMMA MissingStatus ==
  /\ ~IsAccepted(NoChannel.state.Status)
  /\ NoChannel.state.Status \notin Ended /\ NoChannel.state.Status \notin GivenUp
BY NoChannelIsNone, Zenon DEF IsAccepted, NotAcceptedStates, Ended, GivenUp, CleanupStates, ChannelFinalityStates

\* A channel at one peer gets tame events, or none.
LEMMA ChannelFires ==
  ASSUME Types, NEW p \in Peers, NEW d, Live(ch[p], d), ch' = [ch EXCEPT ![p] = d]
  PROVE  ChannelStep
<1>1. ch.initiator \in Channel \cup {NoChannel} /\ ch.responder \in Channel \cup {NoChannel}
  BY Zenon DEF Types, Peers
<1>2. d \in Channel \cup {NoChannel}
  BY <1>1, Zenon DEF Live, Peers
<1>3. \A c : Live(c, c)
  BY Zenon DEF Live
<1>4. ch' \in [Peers -> Channel \cup {NoChannel}]
  BY <1>2, Zenon DEF Types
<1>5. CASE p = "initiator"
  <2>1. ch'.initiator = d /\ ch'.responder = ch.responder
    BY <1>5, Zenon DEF Types, Peers
  <2> QED
    BY <1>3, <1>4, <1>5, <2>1, Zenon DEF ChannelStep, InitiatorMoves, ResponderMoves
<1>6. CASE p = "responder"
  <2>1. ch'.responder = d /\ ch'.initiator = ch.initiator
    BY <1>6, Zenon DEF Types, Peers
  <2> QED
    BY <1>3, <1>4, <1>6, <2>1, Zenon DEF ChannelStep, InitiatorMoves, ResponderMoves
<1> QED
  BY <1>5, <1>6, Zenon DEF Peers

\* The initiator alone moves.
LEMMA InitiatorFires ==
  ASSUME Types, NEW d, InitiatorMoves(ch.initiator, d, ResponderHas),
         ch' = [ch EXCEPT !.initiator = d]
  PROVE  ChannelStep
<1>1. ch.initiator \in Channel \cup {NoChannel} /\ ch.responder \in Channel \cup {NoChannel}
  BY Zenon DEF Types, Peers
<1>2. d \in Channel \cup {NoChannel}
  BY <1>1, Zenon DEF Live, InitiatorMoves
<1>3. ch' \in [Peers -> Channel \cup {NoChannel}] /\ ch'.initiator = d /\ ch'.responder = ch.responder
  BY <1>2, Zenon DEF Types, Peers
<1> QED
  BY <1>3, Zenon DEF ChannelStep, ResponderMoves, Live

\* The responder alone moves.
LEMMA ResponderFires ==
  ASSUME Types, NEW d, ResponderMoves(ch.responder, d, job # "none" /\ job' = "none"),
         ch' = [ch EXCEPT !.responder = d]
  PROVE  ChannelStep
<1>1. ch.initiator \in Channel \cup {NoChannel} /\ ch.responder \in Channel \cup {NoChannel}
  BY Zenon DEF Types, Peers
<1>2. d \in Channel \cup {NoChannel}
  BY <1>1, Zenon DEF Live, ResponderMoves
<1>3. ch' \in [Peers -> Channel \cup {NoChannel}] /\ ch'.responder = d /\ ch'.initiator = ch.initiator
  BY <1>2, Zenon DEF Types, Peers
<1> QED
  BY <1>3, Zenon DEF ChannelStep, InitiatorMoves, Live

\* Tame events, sent to a channel that may be gone or to one that is not.
LEMMA TameIsLive ==
  ASSUME NEW c \in Channel \cup {NoChannel}, NEW s, Short(s, Tame)
  PROVE  /\ Live(c, FireIfLive(c, s))
         /\ ~Missing(c) => Live(c, Fire(c, s)) /\ Fire(c, s) \in Channel
<1>1. Short(s, Events)
  BY ShortIn, EventsSent, Zenon
<1>2. Missing(c) => FireIfLive(c, s) = c
  BY FireIfLiveIs, Zenon
<1>3. ~Missing(c) => c \in Channel
  BY LiveIsChannel, Zenon
<1>4. ~Missing(c) => FireIfLive(c, s) \in Channel /\ Tamely(c, FireIfLive(c, s))
  BY <1>1, FireIfLiveIs, Zenon
<1>5. ~Missing(c) => Fire(c, s) \in Channel /\ Tamely(c, Fire(c, s))
  BY <1>1, <1>3, FireShort, Zenon
<1> QED
  BY <1>2, <1>3, <1>4, <1>5, Zenon DEF Live

\* One tame event.
LEMMA TameOne ==
  ASSUME NEW code \in TameCodes
  PROVE  Short(<<Event(code)>>, Tame)
BY EventsSent, Zenon DEF Short

\* What a response does to the channel of the initiator.
LEMMA RespondedMoves ==
  ASSUME Types, NEW m \in Messages,
         ~Missing(ch.initiator),
         m.accepted => ResponderHas
  PROVE  InitiatorMoves(ch.initiator, Responded(m), ResponderHas)
<1>1. ch.initiator \in Channel
  BY LiveIsChannel, Zenon DEF Types, Peers
<1>2. CASE ~m.accepted
  BY <1>1, <1>2, ResponseShort, TameIsLive, Zenon DEF InitiatorMoves, Responded
<1>3. CASE m.accepted
  <2>1. Short(ResponseEvents(m), FromResponder) /\ Short(ResponseEvents(m), Events)
    BY ResponseShort, ShortIn, EventsSent, Zenon
  <2> QED
    BY <1>1, <1>3, <2>1, FireIfLiveIs, Zenon DEF InitiatorMoves, Responded
<1> QED
  BY <1>2, <1>3, Zenon

\* receiveNewRequest makes a channel just when it accepts.
LEMMA ReceiveNewIs ==
  ASSUME NEW accept \in BOOLEAN, NEW final \in BOOLEAN
  PROVE  LET a == ReceiveNew(accept, final) IN
         /\ a.c \in Channel \cup {NoChannel} /\ (accept <=> a.c \in Channel)
         /\ accept => a.c.state.Status \notin Finished
         /\ a.reply \in Messages /\ a.reply = Response("New", accept, FALSE)
         /\ a.err <=> ~accept
<1> DEFINE c == Fire(CreateNew, <<Event("Accept")>>)
           no == ~accept
<1>1. c \in Channel /\ c.state.Status \notin Finished
  <2>1. Event("Accept") \in Events /\ Event("Accept").code \in QuietCodes
    BY EventsSent, Zenon DEF InitiatorCodes, QuietCodes, Event, EventCode
  <2>2. c = Effect(CreateNew, Event("Accept")) /\ CreateNew.state.Status \notin Finished
    BY CreateNewIs, Fire1, Zenon DEF Finished
  <2>3. Effect(CreateNew, Event("Accept")) \in Channel
    BY <2>1, CreateNewIs, EffectOf, Zenon
  <2>4. NoFinish(CreateNew, Effect(CreateNew, Event("Accept")))
    BY <2>1, CreateNewIs, EffectEnds, Zenon
  <2> QED
    BY <2>2, <2>3, <2>4, Zenon DEF NoFinish
<1>2. /\ Fire(c, AcceptedEvents(c.state, final)) \in Channel
      /\ Fire(c, AcceptedEvents(c.state, final)).state.Status \notin Finished
  <2>1. Short(AcceptedEvents(c.state, final), Tame) /\ Short(AcceptedEvents(c.state, final), Events)
    BY AcceptedShort, ShortIn, EventsSent
  <2>2. Tamely(c, Fire(c, AcceptedEvents(c.state, final)))
    BY <1>1, <2>1, FireShort, Zenon
  <2> QED
    BY <1>1, <2>1, <2>2, FireShort, Zenon DEF Tamely, NoFinish
<1>3. Response("New", accept, FALSE) \in Messages
  BY Zenon DEF Response, Messages, Peers, Kinds
<1> HIDE DEF c, no
<1>4. ReceiveNew(accept, final) = [c |-> IF accept THEN Fire(c, AcceptedEvents(c.state, final)) ELSE NoChannel,
                                   reply |-> Response("New", accept, FALSE), err |-> no]
  BY Zenon DEF ReceiveNew, c, no
<1>5. /\ ReceiveNew(accept, final).c = IF accept THEN Fire(c, AcceptedEvents(c.state, final)) ELSE NoChannel
      /\ ReceiveNew(accept, final).reply = Response("New", accept, FALSE)
      /\ ReceiveNew(accept, final).err = no
  BY <1>4
<1> QED
  BY <1>2, <1>3, <1>5, NoChannelIsNone, Zenon DEF no

\* receiveRestartRequest accepts for a channel that is there only.
LEMMA ReceiveRestartIs ==
  ASSUME NEW c \in Channel \cup {NoChannel}, NEW accept \in BOOLEAN, NEW final \in BOOLEAN
  PROVE  LET a == ReceiveRestart(c, accept, final) IN
         /\ Live(c, a.c)
         /\ a.reply \in Messages /\ a.reply.to = "initiator" /\ a.reply.kind = "Restart"
         /\ a.reply.accepted => ~Missing(c) /\ ~a.err
         /\ ~a.err => ~Missing(c) /\ a.reply.accepted
<1> DEFINE paused == LeaveRequestPaused(c.state, final)
           s == IF accept THEN <<Event("Restart")>> \o AcceptedEvents(c.state, final)
                ELSE <<Event("Error")>>
           no == ~accept
<1>1. paused \in BOOLEAN
  BY Zenon DEF LeaveRequestPaused, InFinalization
<1>2. Short(s, Tame)
  BY AcceptedShort, TameOne, EventsSent, Zenon
<1>3. /\ Response("Restart", accept, paused) \in Messages
      /\ Response("Restart", accept, paused).accepted = accept
      /\ Response("Restart", FALSE, FALSE) \in Messages
      /\ Response("Restart", FALSE, FALSE).accepted = FALSE
      /\ Response("Restart", accept, paused).to = "initiator" 
      /\ Response("Restart", accept, paused).kind = "Restart" 
      /\ Response("Restart", FALSE, FALSE).to = "initiator" 
      /\ Response("Restart", FALSE, FALSE).kind = "Restart" 
  BY <1>1, Zenon DEF Response, Messages, Peers, Kinds
<1>4. CASE Gone(c)
  <2>1. ReceiveRestart(c, accept, final) = [c |-> c, reply |-> Response("Restart", FALSE, FALSE), err |-> TRUE]
    BY <1>4, Zenon DEF ReceiveRestart
  <2>2. /\ ReceiveRestart(c, accept, final).c = c
        /\ ReceiveRestart(c, accept, final).reply = Response("Restart", FALSE, FALSE)
        /\ ReceiveRestart(c, accept, final).err
    BY <2>1
  <2> QED
    BY <1>3, <2>2, Zenon DEF Live
<1>5. CASE ~Gone(c)
  <2>1. ReceiveRestart(c, accept, final) =
          [c |-> Fire(c, s), reply |-> Response("Restart", accept, paused), err |-> no]
    BY <1>5, Zenon DEF ReceiveRestart
  <2>2. ~Missing(c)
    BY <1>5, Zenon DEF Gone
  <2>3. Live(c, Fire(c, s))
    BY <1>2, <2>2, TameIsLive, Zenon
  <2> HIDE DEF s, paused, no
  <2>4. /\ ReceiveRestart(c, accept, final).c = Fire(c, s)
        /\ ReceiveRestart(c, accept, final).reply = Response("Restart", accept, paused)
        /\ ReceiveRestart(c, accept, final).err = no
    BY <2>1
  <2> QED
    BY <1>3, <2>4, <2>2, <2>3, Zenon DEF no
<1> QED
  BY <1>4, <1>5, Zenon

-----------------------------------------------------------------------------
(* The invariant behind AcceptedIsMutual *)

\* The message that makes a responder create the channel.
IsNew(m) == m.to = "responder" /\ m.kind = "New"

\* Nothing is under way before the channel is opened.  Whatever tells the
\* initiator of an acceptance, now or later, comes from a responder that has the
\* channel; and the request that would make the responder create the channel is
\* under way only as long as the responder has none: one message of a push, the
\* first graphsync request of a pull.
MutualInv ==
  /\ Missing(ch.initiator) => req = <<>> /\ InFlight(net) = {} /\ ~ResponderHas
  /\ IsAccepted(StatusOf("initiator")) => ResponderHas
  /\ \A m \in InFlight(net) :
       /\ m.to = "initiator" /\ m.accepted => ResponderHas
       /\ IsNew(m) => ~pull /\ ~ResponderHas /\ net[m] = 1 /\ m = Request("New")
  /\ \A k \in DOMAIN req :
       /\ req[k].reply # NoMessage /\ req[k].reply.accepted => ResponderHas
       /\ ~pull \/ req[k].server = "open" \/ req[k].outcome = "full" => ResponderHas
       /\ pull /\ req[k].msg.kind = "New" => k = 1 /\ (req[k].server = "sent" => ~ResponderHas)

-----------------------------------------------------------------------------
(* How a step changes the network *)

\* A message that creates no channel and tells of no acceptance that was none.
Benign(m) ==
  /\ m \in Messages /\ ~IsNew(m)
  /\ m.to = "initiator" /\ m.accepted => ResponderHas

\* Every message in the bag was there before, in as many copies, or is benign.
NetKept(bag) ==
  /\ IsBag(bag) /\ InFlight(bag) \subseteq Messages
  /\ \A m \in InFlight(bag) : (m \in InFlight(net) /\ bag[m] = net[m]) \/ Benign(m)

\* Posting a benign message keeps the network.
LEMMA NetPosted ==
  ASSUME NEW bag, NetKept(bag), NEW how, NEW m, Benign(m)
  PROVE  NetKept(Posted(bag, how, m))
<1> DEFINE b == Posted(bag, how, m)
<1>1. b = bag \/ /\ IsBag(b) /\ InFlight(b) = InFlight(bag) \cup {m}
                 /\ \A x \in InFlight(bag) : x # m => b[x] = bag[x]
  BY BagSteps DEF NetKept
<1> HIDE DEF b
<1>2. NetKept(b)
  BY <1>1, Zenon DEF NetKept, Benign
<1> QED
  BY <1>2, Zenon DEF b

\* Taking a message keeps the network; there is no second copy of the one
\* that creates the channel.
LEMMA NetTaken ==
  ASSUME Types, MutualInv, NEW m \in InFlight(net)
  PROVE  NetKept(Taken(m)) /\ (IsNew(m) => m \notin InFlight(Taken(m)))
<1>1. IsBag(net)
  BY Zenon DEF Types
<1>2. /\ IsBag(Taken(m)) /\ InFlight(Taken(m)) \subseteq InFlight(net)
      /\ \A x \in InFlight(net) : x # m => Taken(m)[x] = net[x]
      /\ net[m] = 1 => m \notin InFlight(Taken(m))
  BY <1>1, BagTaken, Zenon
<1>3. IsNew(m) => m \notin InFlight(Taken(m))
  BY <1>2, Zenon DEF MutualInv
<1>4. ~IsNew(m) => Benign(m)
  BY Zenon DEF MutualInv, Benign, Types
<1> QED
  BY <1>2, <1>3, <1>4, Zenon DEF NetKept, Types

\* A network that nothing happens to is kept.
LEMMA NetSame ==
  ASSUME Types
  PROVE  NetKept(net)
BY Zenon DEF NetKept, Types

-----------------------------------------------------------------------------
(* How a step changes the graphsync requests *)

\* A request goes on: it tells of no acceptance, serves no data and ends with no
\* success that the responder does not know of.
RequestKept(r, t) ==
  /\ t.msg = r.msg
  /\ t.client = "open" => r.client = "open"
  /\ t.server \in {"sent", "open"} => r.server \in {"sent", "open"}
  /\ t.reply # NoMessage /\ t.reply.accepted => t.reply = r.reply \/ ResponderHas'
  /\ t.server = "sent" => r.server = "sent"
  /\ t.server = "open" => r.server = "open" \/ ResponderHas'
  /\ t.outcome = "full" => r.outcome = "full" \/ ResponderHas'

\* The k-th request is made.
RequestMade(t, k) ==
  /\ t.reply = NoMessage /\ t.server = "sent" /\ t.outcome = "none"
  /\ ~pull => ResponderHas'
  /\ pull /\ t.msg.kind = "New" => k = 1 /\ ~ResponderHas'

\* How a step changes the requests.
RequestStep ==
  /\ req' \in Seq(GsRequest) /\ Len(req') <= MaxRequests
  /\ cur' \in [Peers -> 0 .. Len(req')]
  /\ \A k \in DOMAIN req' :
       \/ k \in DOMAIN req /\ RequestKept(req[k], req'[k])
       \/ k = Len(req) + 1 /\ RequestMade(req'[k], k)
  /\ OpenRequestIsHeld'

\* Who makes the requests and who serves them.
LEMMA Ends ==
  ASSUME Types
  PROVE  /\ Receiver \in Peers /\ Sender \in Peers /\ Sender # Receiver
         /\ \A p \in Peers : p # Receiver => p = Sender
         /\ pull => Receiver = "initiator" /\ Sender = "responder"
         /\ ~pull => Receiver = "responder" /\ Sender = "initiator"
BY Zenon DEF Receiver, Sender, Other, Peers, Types

\* A request, in the sequence.
LEMMA RequestAt ==
  ASSUME Types, NEW k \in DOMAIN req
  PROVE  /\ req[k] \in GsRequest /\ k \in 1 .. Len(req) /\ DOMAIN req = 1 .. Len(req)
         /\ req[k].msg \in Messages /\ req[k].reply \in Messages \cup {NoMessage}
         /\ req[k].known \subseteq Peers /\ req[k].begun \subseteq Peers
<1>1. req[k] \in GsRequest /\ k \in 1 .. Len(req) /\ DOMAIN req = 1 .. Len(req)
  BY DEF Types
<1> QED
  BY <1>1, Zenon DEF GsRequest

\* No request changes.
LEMMA RequestsSame ==
  ASSUME Types, OpenRequestIsHeld, pull' = pull, UNCHANGED <<req, cur>>
  PROVE  RequestStep
<1>1. Receiver' = Receiver
  BY Zenon DEF Receiver
<1> QED
  BY <1>1, Zenon DEF RequestStep, Types, RequestKept, OpenRequestIsHeld

\* One request changes.
LEMMA RequestUpdated ==
  ASSUME Types, OpenRequestIsHeld, pull' = pull,
         NEW k \in DOMAIN req, NEW t \in GsRequest, RequestKept(req[k], t),
         Receiver \in t.known => Receiver \in req[k].known,
         req' = [req EXCEPT ![k] = t],
         cur' \in [Peers -> 0 .. Len(req)], cur'[Receiver] = cur[Receiver]
  PROVE  RequestStep
<1>1. Receiver' = Receiver
  BY Zenon DEF Receiver
<1>2. req' \in Seq(GsRequest) /\ Len(req') = Len(req) /\ DOMAIN req' = DOMAIN req
  BY DEF Types
<1>3. req'[k] = t /\ \A j \in DOMAIN req : j # k => req'[j] = req[j]
  BY Zenon DEF Types
<1>4. \A j \in DOMAIN req : RequestKept(req[j], req'[j])
  BY <1>3, Zenon DEF RequestKept
<1>5. \A j \in DOMAIN req : req'[j].client = "open" /\ Receiver \in req'[j].known => cur[Receiver] = j
  BY <1>3, Zenon DEF OpenRequestIsHeld, RequestKept
<1>6. OpenRequestIsHeld'
  BY <1>1, <1>2, <1>5, Zenon DEF OpenRequestIsHeld
<1> QED
  BY <1>2, <1>4, <1>6, Zenon DEF RequestStep, Types

\* dtChannel.cancel.
LEMMA CancelledIs ==
  ASSUME Types, NEW p \in Peers
  PROVE  /\ Cancelled(req, p) \in Seq(GsRequest) /\ Len(Cancelled(req, p)) = Len(req)
         /\ \A k \in DOMAIN req :
              LET t == Cancelled(req, p)[k] IN
              /\ t.msg = req[k].msg /\ t.reply = req[k].reply /\ t.outcome = req[k].outcome
              /\ t.known = req[k].known
              /\ t.server = req[k].server \/ t.server = "cancelled"
              /\ t.client = "open" => req[k].client = "open" /\ (p = Receiver => k # cur[p])
<1>1. cur[p] \in 0 .. Len(req) /\ DOMAIN req = 1 .. Len(req) /\ req \in Seq(GsRequest)
  BY DEF Types
<1>2. CASE cur[p] = 0
  <2>1. Cancelled(req, p) = req
    BY <1>2, Zenon DEF Cancelled
  <2> QED
    BY <1>1, <1>2, <2>1
<1>3. CASE cur[p] # 0
  <2> DEFINE j == cur[p]
             r == req[j]
             t == IF p = Receiver THEN [r EXCEPT !.client = IF @ = "open" THEN "cancelling" ELSE @]
                  ELSE [r EXCEPT !.server = IF @ = "open" THEN "cancelled" ELSE @]
  <2>1. j \in DOMAIN req /\ r \in GsRequest
    BY <1>1, <1>3
  <2>2. Cancelled(req, p) = [req EXCEPT ![j] = t]
    BY <1>1, <1>3, <2>1, Zenon DEF Cancelled
  <2> HIDE DEF r
  <2>3. t \in GsRequest
    BY <2>1, Zenon DEF GsRequest
  <2>4. /\ t.msg = r.msg /\ t.reply = r.reply /\ t.outcome = r.outcome /\ t.known = r.known
        /\ t.server = r.server \/ t.server = "cancelled"
        /\ t.client = "open" => r.client = "open" /\ p # Receiver
    BY <2>1, Zenon DEF GsRequest
  <2> HIDE DEF t, j
  <2>5. /\ [req EXCEPT ![j] = t] \in Seq(GsRequest) /\ Len([req EXCEPT ![j] = t]) = Len(req)
        /\ [req EXCEPT ![j] = t][j] = t
        /\ \A k \in DOMAIN req : k # j => [req EXCEPT ![j] = t][k] = req[k]
    BY <1>1, <2>1, <2>3
  <2> QED
    BY <2>1, <2>2, <2>4, <2>5, Zenon DEF r, j
<1> QED
  BY <1>2, <1>3, Zenon

\* transport.CloseChannel.
LEMMA RequestsClosed ==
  ASSUME Types, OpenRequestIsHeld, pull' = pull, NEW p \in Peers, CloseTransport(p)
  PROVE  RequestStep
<1>1. Receiver' = Receiver /\ Receiver \in Peers
  BY Ends, Zenon DEF Receiver
<1>2. req' = Cancelled(req, p) /\ cur' = [cur EXCEPT ![p] = 0]
  BY Zenon DEF CloseTransport
<1>3. req' \in Seq(GsRequest) /\ Len(req') = Len(req) /\ DOMAIN req' = DOMAIN req
  BY <1>2, CancelledIs DEF Types
<1>4. /\ cur' \in [Peers -> 0 .. Len(req)] /\ cur'[p] = 0
      /\ p # Receiver => cur'[Receiver] = cur[Receiver]
  BY <1>1, <1>2 DEF Types
<1>5. \A k \in DOMAIN req :
        /\ req'[k].msg = req[k].msg /\ req'[k].reply = req[k].reply
        /\ req'[k].outcome = req[k].outcome /\ req'[k].known = req[k].known
        /\ req'[k].server = req[k].server \/ req'[k].server = "cancelled"
        /\ req'[k].client = "open" => req[k].client = "open" /\ (p = Receiver => k # cur[p])
  BY <1>2, CancelledIs
<1>6. \A k \in DOMAIN req : RequestKept(req[k], req'[k])
  BY <1>5, Zenon DEF RequestKept
<1>7. \A k \in DOMAIN req : req'[k].client = "open" /\ Receiver \in req'[k].known => cur'[Receiver] = k
  BY <1>4, <1>5 DEF OpenRequestIsHeld
<1>8. OpenRequestIsHeld'
  BY <1>1, <1>3, <1>7, Zenon DEF OpenRequestIsHeld
<1> QED
  BY <1>3, <1>4, <1>6, <1>8, Zenon DEF RequestStep, Types

\* transport.OpenChannel.
LEMMA RequestsOpened ==
  ASSUME Types, OpenRequestIsHeld, pull' = pull, NEW m \in Messages, OpenTransport(m),
         ~pull => ResponderHas',
         pull /\ m.kind = "New" => req = <<>> /\ ~ResponderHas'
  PROVE  RequestStep
<1> DEFINE rs == Cancelled(req, Receiver)
           r == NewRequest(m)
           n == Len(req) + 1
<1>1. Receiver' = Receiver /\ Receiver \in Peers
  BY Ends, Zenon DEF Receiver
<1>2. req' = Append(rs, r) /\ cur' = [cur EXCEPT ![Receiver] = n] /\ Len(req) < MaxRequests
  BY Zenon DEF OpenTransport
<1>3. r \in GsRequest
  BY <1>1, Zenon DEF NewRequest, GsRequest
<1>4. r.reply = NoMessage /\ r.server = "sent" /\ r.outcome = "none" /\ r.msg = m
  BY Zenon DEF NewRequest
<1>5. rs \in Seq(GsRequest) /\ Len(rs) = Len(req)
  BY <1>1, CancelledIs, Zenon
<1>6. \A k \in DOMAIN req :
        /\ rs[k].msg = req[k].msg /\ rs[k].reply = req[k].reply
        /\ rs[k].outcome = req[k].outcome /\ rs[k].known = req[k].known
        /\ rs[k].server = req[k].server \/ rs[k].server = "cancelled"
        /\ rs[k].client = "open" => req[k].client = "open" /\ k # cur[Receiver]
  BY <1>1, CancelledIs
<1> HIDE DEF rs, r
<1>7. Len(req) \in Nat /\ DOMAIN req = 1 .. Len(req) /\ MaxRequests \in Nat
  BY TransferAssumption DEF Types
<1>8. /\ req' \in Seq(GsRequest) /\ Len(req') = n /\ DOMAIN req' = 1 .. n
      /\ req'[n] = r /\ \A k \in DOMAIN req : req'[k] = rs[k]
  BY <1>2, <1>3, <1>5, <1>7
<1>9. cur' \in [Peers -> 0 .. n] /\ cur'[Receiver] = n
  BY <1>1, <1>2, <1>7 DEF Types
<1>10. \A k \in DOMAIN req : RequestKept(req[k], req'[k])
  BY <1>6, <1>8 DEF RequestKept
<1>11. RequestMade(req'[n], n)
  <2>1. req = <<>> => n = 1
    OBVIOUS
  <2> QED
    BY <1>4, <1>8, <2>1, Zenon DEF RequestMade
<1>12. \A k \in DOMAIN req' : k \in DOMAIN req \/ k = n
  BY <1>7, <1>8
<1>13. \A k \in DOMAIN req : ~(req'[k].client = "open" /\ Receiver \in req'[k].known)
  BY <1>6, <1>8 DEF OpenRequestIsHeld
<1>14. OpenRequestIsHeld'
  BY <1>1, <1>9, <1>12, <1>13, Zenon DEF OpenRequestIsHeld
<1>15. Len(req') <= MaxRequests
  BY <1>2, <1>7, <1>8
<1> QED
  BY <1>8, <1>9, <1>10, <1>11, <1>12, <1>14, <1>15, Zenon DEF RequestStep

\* Each request is changed alike, and forgotten by peer p, who keeps none.
LEMMA RequestsForgotten ==
  ASSUME Types, OpenRequestIsHeld, pull' = pull, NEW p \in Peers,
         DOMAIN req' = DOMAIN req, req' \in [DOMAIN req -> GsRequest],
         \A k \in DOMAIN req :
           /\ RequestKept(req[k], req'[k])
           /\ req'[k].known = req[k].known \ {p},
         cur' = [cur EXCEPT ![p] = 0]
  PROVE  RequestStep
<1>1. Receiver' = Receiver /\ Receiver \in Peers
  BY Ends, Zenon DEF Receiver
<1>2. req' \in Seq(GsRequest) /\ Len(req') = Len(req)
  <2>1. DOMAIN req = 1 .. Len(req) /\ Len(req) \in Nat
    BY DEF Types
  <2>2. req' \in Seq(GsRequest)
    BY <2>1
  <2> QED
    BY <2>1, <2>2
<1>3. /\ cur' \in [Peers -> 0 .. Len(req)]
      /\ p # Receiver => cur'[Receiver] = cur[Receiver]
  BY <1>1 DEF Types
<1>4. OpenRequestIsHeld'
  <2>1. \A k \in DOMAIN req : req'[k].client = "open" => req[k].client = "open"
    BY Zenon DEF RequestKept
  <2> QED
    BY <1>1, <1>3, <2>1 DEF OpenRequestIsHeld
<1> QED
  BY <1>2, <1>3, <1>4, Zenon DEF RequestStep, Types

\* transport.CleanupChannel.
LEMMA RequestsCleaned ==
  ASSUME Types, OpenRequestIsHeld, pull' = pull, NEW p \in Peers, CleanupTransport(p)
  PROVE  RequestStep
<1>1. req' = [k \in DOMAIN req |-> [req[k] EXCEPT !.known = @ \ {p}]] /\ cur' = [cur EXCEPT ![p] = 0]
  BY Zenon DEF CleanupTransport, Unknown
<1>2. ASSUME NEW k \in DOMAIN req
      PROVE  /\ req'[k] \in GsRequest /\ RequestKept(req[k], req'[k])
             /\ req'[k].client = req[k].client /\ req'[k].known = req[k].known \ {p}
  <2> DEFINE t == [req[k] EXCEPT !.known = @ \ {p}]
  <2>1. req'[k] = t /\ req[k] \in GsRequest
    BY <1>1, RequestAt, Zenon
  <2>2. /\ t \in GsRequest /\ t.msg = req[k].msg /\ t.reply = req[k].reply
        /\ t.outcome = req[k].outcome /\ t.server = req[k].server
        /\ t.client = req[k].client /\ t.known = req[k].known \ {p}
    BY <2>1, Zenon DEF GsRequest
  <2> QED
    BY <2>1, <2>2, Zenon DEF RequestKept
<1>3. DOMAIN req' = DOMAIN req /\ req' \in [DOMAIN req -> GsRequest]
  BY <1>1, <1>2, Zenon
<1> QED
  BY <1>1, <1>2, <1>3, RequestsForgotten, Zenon

\* The stop of a process.
LEMMA RequestsCrashed ==
  ASSUME Types, OpenRequestIsHeld, NEW p \in Peers, Crash(p)
  PROVE  RequestStep
<1> DEFINE R(r) == [r EXCEPT !.known = @ \ {p}]
           T(r) == IF p = Receiver
                   THEN [R(r) EXCEPT !.client = IF @ = "over" THEN @ ELSE "cancelled"]
                   ELSE [R(r) EXCEPT !.server = IF @ = "open" THEN "cancelled" ELSE @]
<1>1. req' = [k \in DOMAIN req |-> T(req[k])] /\ cur' = [cur EXCEPT ![p] = 0] /\ pull' = pull
  BY Zenon DEF Crash
<1>2. ASSUME NEW r \in GsRequest
      PROVE  /\ T(r) \in GsRequest /\ T(r).msg = r.msg /\ T(r).reply = r.reply
             /\ T(r).outcome = r.outcome /\ T(r).known = r.known \ {p}
             /\ T(r).server = r.server \/ T(r).server = "cancelled"
             /\ T(r).client = "open" => r.client = "open"
  <2>1. /\ R(r) \in GsRequest /\ R(r).msg = r.msg /\ R(r).reply = r.reply
        /\ R(r).outcome = r.outcome /\ R(r).known = r.known \ {p}
        /\ R(r).server = r.server /\ R(r).client = r.client
    BY <1>2, Zenon DEF GsRequest
  <2> DEFINE q == R(r)
  <2> HIDE DEF q
  <2>2. T(r) = IF p = Receiver
               THEN [q EXCEPT !.client = IF @ = "over" THEN @ ELSE "cancelled"]
               ELSE [q EXCEPT !.server = IF @ = "open" THEN "cancelled" ELSE @]
    BY Zenon DEF q
  <2>3. /\ q \in GsRequest /\ q.msg = r.msg /\ q.reply = r.reply
        /\ q.outcome = r.outcome /\ q.known = r.known \ {p}
        /\ q.server = r.server /\ q.client = r.client
    BY <2>1, Zenon DEF q
  <2> HIDE DEF T
  <2> QED
    BY <2>2, <2>3 DEF GsRequest
<1> HIDE DEF T
<1>3. ASSUME NEW k \in DOMAIN req
      PROVE  /\ req'[k] \in GsRequest /\ RequestKept(req[k], req'[k])
             /\ (req'[k].client = "open" => req[k].client = "open")
             /\ req'[k].known = req[k].known \ {p}
  <2>1. req'[k] = T(req[k]) /\ req[k] \in GsRequest
    BY <1>1, RequestAt, Zenon
  <2> QED
    BY <1>2, <2>1 DEF RequestKept
<1>4. DOMAIN req' = DOMAIN req /\ req' \in [DOMAIN req -> GsRequest]
  BY <1>1, <1>3, Zenon
<1> QED
  BY <1>1, <1>3, <1>4, RequestsForgotten, Zenon

-----------------------------------------------------------------------------
(* What every step of an opened channel comes to *)

\* No request that would make the responder create the channel.
NoNew ==
  /\ \A m \in InFlight(net) : ~IsNew(m)
  /\ \A k \in DOMAIN req : pull /\ req[k].msg.kind = "New" => req[k].server # "sent"

\* How any step of an opened channel changes the state.
Step ==
  /\ pull' = pull
  /\ job' \in {"none", "BeginFinalizing", "Complete"} /\ spent' \subseteq Disturbances
  /\ ChannelStep /\ NetKept(net') /\ RequestStep
  /\ ~ResponderHas /\ ResponderHas' => NoNew'

\* No channel goes away.
LEMMA ChannelsStay ==
  ASSUME Types, ChannelStep
  PROVE  /\ ResponderHas => ResponderHas'
         /\ ~Missing(ch.initiator) => ~Missing(ch'.initiator) /\ ch.initiator \in Channel
<1>1. ch.initiator \in Channel \cup {NoChannel} /\ ch.responder \in Channel \cup {NoChannel}
  BY Zenon DEF Types, Peers
<1>2. InitiatorMoves(ch.initiator, ch'.initiator, ResponderHas)
  BY Zenon DEF ChannelStep
<1>3. ResponderMoves(ch.responder, ch'.responder, job # "none" /\ job' = "none")
  BY Zenon DEF ChannelStep
<1>4. ~Missing(ch.initiator) => ~Missing(ch'.initiator) /\ ch.initiator \in Channel
  BY <1>1, <1>2, NoChannelIsNone, Zenon DEF InitiatorMoves, Live, Missing
<1>5. ResponderHas => ResponderHas'
  BY <1>1, <1>3, NoChannelIsNone, Zenon DEF ResponderMoves, Live, Missing, ResponderHas
<1> QED
  BY <1>4, <1>5, Zenon

\* A step keeps the types.
LEMMA StepTypes ==
  ASSUME Types, Step
  PROVE  Types'
BY Zenon DEF Types, Step, ChannelStep, NetKept, RequestStep

\* A step keeps what acceptance rests on.
LEMMA StepMutual ==
  ASSUME Types, MutualInv, ~Missing(ch.initiator), Step
  PROVE  MutualInv'
<1>1. ~Missing(ch'.initiator) /\ ch.initiator \in Channel /\ (ResponderHas => ResponderHas')
  BY ChannelsStay, Zenon DEF Step
<1>2. IsAccepted(ch'.initiator.state.Status) => ResponderHas'
  <2>1. InitiatorMoves(ch.initiator, ch'.initiator, ResponderHas)
    BY Zenon DEF Step, ChannelStep
  <2>2. IsAccepted(ch.initiator.state.Status) => ResponderHas
    BY Zenon DEF MutualInv, StatusOf
  <2> QED
    BY <1>1, <2>1, <2>2, Zenon DEF InitiatorMoves, Live, Tamely, NoAcceptance
<1>3. ASSUME NEW m \in InFlight(net')
      PROVE  /\ m.to = "initiator" /\ m.accepted => ResponderHas'
             /\ IsNew(m) => ~pull /\ ~ResponderHas' /\ net'[m] = 1 /\ m = Request("New")
  <2>1. (m \in InFlight(net) /\ net'[m] = net[m]) \/ Benign(m)
    BY <1>3, Zenon DEF Step, NetKept
  <2>2. CASE m \in InFlight(net) /\ net'[m] = net[m]
    <3>1. /\ m.to = "initiator" /\ m.accepted => ResponderHas
          /\ IsNew(m) => ~pull /\ ~ResponderHas /\ net[m] = 1 /\ m = Request("New")
      BY <2>2, Zenon DEF MutualInv
    <3>2. ~ResponderHas /\ ResponderHas' => ~IsNew(m)
      BY <1>3, Zenon DEF Step, NoNew
    <3> QED
      BY <1>1, <2>2, <3>1, <3>2, Zenon
  <2>3. CASE Benign(m)
    BY <1>1, <2>3, Zenon DEF Benign
  <2> QED
    BY <2>1, <2>2, <2>3, Zenon
<1>4. ASSUME NEW k \in DOMAIN req'
      PROVE  /\ req'[k].reply # NoMessage /\ req'[k].reply.accepted => ResponderHas'
             /\ ~pull \/ req'[k].server = "open" \/ req'[k].outcome = "full" => ResponderHas'
             /\ pull /\ req'[k].msg.kind = "New" =>
                  k = 1 /\ (req'[k].server = "sent" => ~ResponderHas')
  <2>1. \/ k \in DOMAIN req /\ RequestKept(req[k], req'[k])
        \/ k = Len(req) + 1 /\ RequestMade(req'[k], k)
    BY <1>4, Zenon DEF Step, RequestStep
  <2>2. CASE k \in DOMAIN req /\ RequestKept(req[k], req'[k])
    <3>1. /\ req[k].reply # NoMessage /\ req[k].reply.accepted => ResponderHas
          /\ ~pull \/ req[k].server = "open" \/ req[k].outcome = "full" => ResponderHas
          /\ pull /\ req[k].msg.kind = "New" => k = 1 /\ (req[k].server = "sent" => ~ResponderHas)
      BY <2>2, Zenon DEF MutualInv
    <3>2. ~ResponderHas /\ ResponderHas' /\ pull /\ req'[k].msg.kind = "New" => req'[k].server # "sent"
      BY <1>4, Zenon DEF Step, NoNew
    <3> QED
      BY <1>1, <2>2, <3>1, <3>2, Zenon DEF RequestKept
  <2>3. CASE RequestMade(req'[k], k)
    BY <2>3, Zenon DEF RequestMade
  <2> QED
    BY <2>1, <2>2, <2>3, Zenon
<1>5. pull' = pull
  BY Zenon DEF Step
<1> QED
  BY <1>1, <1>2, <1>3, <1>4, <1>5, Zenon DEF MutualInv, StatusOf

\* What CleanupIsLast says of a step.
CleanupKept ==
  \A p \in Peers :
    /\ StatusOf(p) \in CleanupStates
    /\ ~(p = "responder" /\ job # "none" /\ job' = "none")
    /\ ~(p = "initiator" /\ StatusOf(p) = "Completing")
    => StatusOf(p)' \in CleanupStates \cup ChannelFinalityStates

\* No step takes a channel out of its cleanup, apart from the two that do.
LEMMA StepCleanup ==
  ASSUME Types, ChannelStep
  PROVE  CleanupKept
<1>1. CleanupStates \subseteq Ended /\ CleanupStates \ {"Completing"} \subseteq GivenUp /\ GivenUp \subseteq Ended
  BY Zenon DEF Ended, GivenUp, CleanupStates, ChannelFinalityStates
<1>2. \A c, d : Live(c, d) /\ c.state.Status \in Ended => d.state.Status \in Ended
  BY Zenon DEF Live, Tamely, EndsForGood
<1>3. \A c : Missing(c) => c.state.Status \notin Ended
  BY MissingStatus, Zenon DEF Missing
<1>4. ch.responder.state.Status \in CleanupStates /\ ~(job # "none" /\ job' = "none")
        => ch'.responder.state.Status \in Ended
  <2>1. ResponderMoves(ch.responder, ch'.responder, job # "none" /\ job' = "none")
    BY Zenon DEF ChannelStep
  <2> QED
    BY <1>1, <1>2, <1>3, <2>1, Zenon DEF ResponderMoves
<1>5. ch.initiator.state.Status \in CleanupStates \ {"Completing"} => ch'.initiator.state.Status \in Ended
  <2>1. InitiatorMoves(ch.initiator, ch'.initiator, ResponderHas)
    BY Zenon DEF ChannelStep
  <2> QED
    BY <1>1, <1>2, <1>3, <2>1, Zenon DEF InitiatorMoves, Onward, StaysGivenUp
<1> QED
  BY <1>4, <1>5, Zenon DEF CleanupKept, StatusOf, Peers, Ended

-----------------------------------------------------------------------------
(* The steps, one action at a time *)

\* What holds before a step of an opened channel.
Before == Types /\ OpenRequestIsHeld /\ MutualInv /\ ~Missing(ch.initiator)

\* Only disturbances are spent.
LEMMA Paid ==
  ASSUME Types, NEW kinds, Pay(kinds)
  PROVE  spent' \subseteq Disturbances
BY TransferAssumption, Zenon DEF Pay, Types

\* No channel changes.
LEMMA ChannelsSame ==
  ASSUME Types, UNCHANGED ch
  PROVE  ChannelStep /\ (ResponderHas' <=> ResponderHas)
BY Zenon DEF ChannelStep, InitiatorMoves, ResponderMoves, Live, Types, ResponderHas, Missing

\* One channel gets tame events, or none.
LEMMA OneFires ==
  ASSUME Types, NEW p \in Peers, NEW d, Live(ch[p], d), ch' = [ch EXCEPT ![p] = d]
  PROVE  ChannelStep /\ (ResponderHas' <=> ResponderHas)
<1>1. ChannelStep
  BY ChannelFires, Zenon
<1>2. CASE p = "responder"
  <2>1. ch'.responder = d /\ Live(ch.responder, d)
    BY <1>2, Zenon DEF Types, Peers
  <2> QED
    BY <1>1, <2>1, NoChannelIsNone, Zenon DEF Live, ResponderHas, Missing
<1>3. CASE p = "initiator"
  <2>1. ch'.responder = ch.responder
    BY <1>3, Zenon DEF Types, Peers
  <2> QED
    BY <1>1, <2>1, Zenon DEF ResponderHas, Missing
<1> QED
  BY <1>1, <1>2, <1>3, Zenon DEF Peers

\* One channel gets one tame event.
LEMMA OneTame ==
  ASSUME Types, NEW p \in Peers, NEW code \in TameCodes,
         ch' = [ch EXCEPT ![p] = FireIfLive(@, <<Event(code)>>)]
  PROVE  ChannelStep /\ (ResponderHas' <=> ResponderHas)
<1>1. ch[p] \in Channel \cup {NoChannel}
  BY Zenon DEF Types
<1>2. Live(ch[p], FireIfLive(ch[p], <<Event(code)>>))
  BY <1>1, TameOne, TameIsLive, Zenon
<1>3. ch' = [ch EXCEPT ![p] = FireIfLive(ch[p], <<Event(code)>>)]
  BY Zenon
<1> QED
  BY <1>2, <1>3, OneFires, Zenon

\* The initiator alone.
LEMMA InitiatorAlone ==
  ASSUME Types, NEW d, InitiatorMoves(ch.initiator, d, ResponderHas),
         ch' = [ch EXCEPT !.initiator = d]
  PROVE  ChannelStep /\ (ResponderHas' <=> ResponderHas)
<1>1. ChannelStep
  BY InitiatorFires, Zenon
<1>2. ch'.responder = ch.responder
  BY Zenon DEF Types, Peers
<1> QED
  BY <1>1, <1>2, Zenon DEF ResponderHas, Missing

\* An end of a request reports its start.
LEMMA TransferInitiatedStep ==
  ASSUME Before, NEW k \in DOMAIN req, NEW p \in Peers, TransferInitiated(k, p)
  PROVE  Step
<1> DEFINE t == [req[k] EXCEPT !.begun = @ \cup {p}]
<1>0. Types
  BY Zenon DEF Before
<1>1. req[k] \in GsRequest
  BY <1>0, RequestAt, Zenon
<1>2. req' = [req EXCEPT ![k] = t] /\ UNCHANGED <<pull, net, cur, job, spent>>
  BY <1>1, <1>0, Zenon DEF TransferInitiated, Types
<1>3. t \in GsRequest /\ RequestKept(req[k], t) /\ t.client = req[k].client /\ t.known = req[k].known
  BY <1>1, Zenon DEF GsRequest, RequestKept
<1> HIDE DEF t
<1>4. RequestStep
  BY <1>0, <1>2, <1>3, RequestUpdated, Zenon DEF Before, Types
<1>5. "TransferInitiated" \in TameCodes
  BY EventsSent, Zenon
<1>6. ChannelStep /\ (ResponderHas' <=> ResponderHas)
  BY <1>0, <1>5, OneTame, Zenon DEF TransferInitiated
<1> QED
  BY <1>0, <1>2, <1>4, <1>6, NetSame, Zenon DEF Step, Types

\* The receiver of the data learns that its request was cancelled.
LEMMA RequestCancelledStep ==
  ASSUME Before, NEW k \in DOMAIN req, RequestCancelled(k)
  PROVE  Step
<1> DEFINE t == [req[k] EXCEPT !.client = "cancelled"]
<1>0. Types
  BY Zenon DEF Before
<1>1. req[k] \in GsRequest
  BY <1>0, RequestAt, Zenon
<1>2. req' = [req EXCEPT ![k] = t] /\ UNCHANGED <<pull, net, cur, job, spent>>
  BY <1>1, <1>0, Zenon DEF RequestCancelled, Types
<1>3. t \in GsRequest /\ RequestKept(req[k], t) /\ t.client # "open" /\ t.known = req[k].known
  BY <1>1, Zenon DEF GsRequest, RequestKept
<1> HIDE DEF t
<1>4. RequestStep
  BY <1>0, <1>2, <1>3, RequestUpdated, Zenon DEF Before, Types
<1>5. "RequestCancelled" \in TameCodes
  BY EventsSent, Zenon
<1>6. ChannelStep /\ (ResponderHas' <=> ResponderHas)
  BY <1>0, <1>5, OneTame, Ends, Zenon DEF RequestCancelled
<1> QED
  BY <1>0, <1>2, <1>4, <1>6, NetSame, Zenon DEF Step, Types

\* An end of a request sees that the other cancelled it.
LEMMA SeeCancelledStep ==
  ASSUME Before, NEW k \in DOMAIN req, SeeCancelled(k)
  PROVE  Step
<1> DEFINE t == [req[k] EXCEPT !.server = "over"]
           u == [req[k] EXCEPT !.client = "over"]
<1>0. Types
  BY Zenon DEF Before
<1>1. req[k] \in GsRequest
  BY <1>0, RequestAt, Zenon
<1>2. /\ req' = [req EXCEPT ![k] = t] \/ req' = [req EXCEPT ![k] = u]
      /\ UNCHANGED <<pull, ch, net, cur, job, spent>>
  BY <1>1, <1>0, Zenon DEF SeeCancelled, Types
<1>3. /\ t \in GsRequest /\ RequestKept(req[k], t) /\ t.client = req[k].client /\ t.known = req[k].known
      /\ u \in GsRequest /\ RequestKept(req[k], u) /\ u.client # "open" /\ u.known = req[k].known
  BY <1>1, ZenonT(60) DEF GsRequest, RequestKept
<1> HIDE DEF t, u
<1>4. RequestStep
  <2>1. CASE req' = [req EXCEPT ![k] = t]
    BY <1>0, <1>2, <1>3, <2>1, RequestUpdated, Zenon DEF Before, Types
  <2>2. CASE req' = [req EXCEPT ![k] = u]
    BY <1>0, <1>2, <1>3, <2>2, RequestUpdated, Zenon DEF Before, Types
  <2> QED
    BY <1>2, <2>1, <2>2, Zenon
<1>6. ChannelStep /\ (ResponderHas' <=> ResponderHas)
  BY <1>0, <1>2, ChannelsSame, Zenon
<1> QED
  BY <1>0, <1>2, <1>4, <1>6, NetSame, Zenon DEF Step, Types

\* The answer in a response reaches the initiator of a pull.
LEMMA ReceiveReplyStep ==
  ASSUME Before, NEW k \in DOMAIN req, ReceiveReply(k)
  PROVE  Step
<1> DEFINE heard == "initiator" \in req[k].known
           t == [req[k] EXCEPT !.reply = NoMessage,
                               !.outcome = IF heard /\ Gone(ch.initiator) THEN "failed" ELSE @]
           d == IF heard THEN Responded(req[k].reply) ELSE ch.initiator
<1>0. Types
  BY Zenon DEF Before
<1>1. req[k] \in GsRequest /\ req[k].reply \in Messages
  BY <1>0, RequestAt, Zenon DEF ReceiveReply
<1>2. /\ req' = [req EXCEPT ![k] = t] /\ UNCHANGED <<pull, net, cur, job, spent>>
      /\ ch' = [ch EXCEPT !.initiator = d]
  BY <1>1, <1>0, Zenon DEF ReceiveReply, Types
<1>3. t \in GsRequest /\ RequestKept(req[k], t) /\ t.client = req[k].client /\ t.known = req[k].known
  BY <1>1, Zenon DEF GsRequest, RequestKept
<1>4. InitiatorMoves(ch.initiator, d, ResponderHas)
  <2>1. req[k].reply.accepted => ResponderHas
    BY Zenon DEF Before, MutualInv, ReceiveReply
  <2>2. InitiatorMoves(ch.initiator, Responded(req[k].reply), ResponderHas)
    BY <1>0, <1>1, <2>1, RespondedMoves, Zenon DEF Before
  <2> QED
    BY <2>2, Zenon DEF InitiatorMoves, Live
<1> HIDE DEF t, d
<1>5. RequestStep
  BY <1>0, <1>2, <1>3, RequestUpdated, Zenon DEF Before, Types
<1>6. ChannelStep /\ (ResponderHas' <=> ResponderHas)
  BY <1>0, <1>2, <1>4, InitiatorAlone, Zenon
<1> QED
  BY <1>0, <1>2, <1>5, <1>6, NetSame, Zenon DEF Step, Types

\* The responder records what its message announced.
LEMMA RecordCompletedStep ==
  ASSUME Types, OpenRequestIsHeld, RecordCompleted
  PROVE  Step /\ (ResponderHas' <=> ResponderHas)
<1> DEFINE d == FireIfLive(ch.responder, <<Event(job)>>)
<1>1. /\ UNCHANGED <<pull, net, req, cur, spent>> /\ job # "none" /\ job' = "none"
      /\ ch' = [ch EXCEPT !.responder = d]
  BY Zenon DEF RecordCompleted
<1>2. ch.responder \in Channel \cup {NoChannel}
  BY Zenon DEF Types, Peers
<1>3. Short(<<Event(job)>>, Events)
  <2>1. job \in EventCode
    BY <1>1, EventsSent, Zenon DEF Types
  <2> QED
    BY <2>1, EventsSent, Zenon DEF Short
<1>4. /\ Missing(ch.responder) => d = ch.responder
      /\ ~Missing(ch.responder) => d \in Channel
  BY <1>2, <1>3, FireIfLiveIs, Zenon
<1>5. ~Missing(ch.responder) => ch.responder \in Channel
  BY <1>2, LiveIsChannel, Zenon
<1> HIDE DEF d
<1>6. ResponderMoves(ch.responder, d, job # "none" /\ job' = "none")
  BY <1>1, <1>4, <1>5, Zenon DEF ResponderMoves, Live
<1>7. ChannelStep
  BY <1>1, <1>6, ResponderFires, Zenon
<1>8. ResponderHas' <=> ResponderHas
  <2>1. ch'.responder = d
    BY <1>1, Zenon DEF Types, Peers
  <2> QED
    BY <1>4, <2>1, NoChannelIsNone, Zenon DEF ResponderHas, Missing
<1>9. RequestStep
  BY <1>1, RequestsSame, Zenon
<1> QED
  BY <1>1, <1>7, <1>8, <1>9, NetSame, Zenon DEF Step, Types

\* The kinds of messages the managers post.
LEMMA MessagesSent ==
  /\ \A kind \in Kinds : Request(kind) \in Messages /\ (kind # "New" => Benign(Request(kind)))
  /\ \A kind \in Kinds, accepted, paused \in BOOLEAN :
       /\ Response(kind, accepted, paused) \in Messages
       /\ Response(kind, accepted, paused).accepted <=> accepted
       /\ Response(kind, accepted, paused).to = "initiator"
       /\ (accepted => ResponderHas) => Benign(Response(kind, accepted, paused))
  /\ \A p \in Peers : Benign(CancelMessage(p))
<1>1. ASSUME NEW kind \in Kinds
      PROVE  Request(kind) \in Messages /\ (kind # "New" => Benign(Request(kind)))
  <2>1. /\ Request(kind) \in Messages /\ Request(kind).to = "responder"
        /\ Request(kind).kind = kind
    BY Zenon DEF Request, Messages, Peers
  <2> QED
    BY <2>1, Zenon DEF Benign, IsNew
<1>2. ASSUME NEW kind \in Kinds, NEW accepted \in BOOLEAN, NEW paused \in BOOLEAN
      PROVE  /\ Response(kind, accepted, paused) \in Messages
             /\ Response(kind, accepted, paused).accepted <=> accepted
             /\ Response(kind, accepted, paused).to = "initiator"
             /\ (accepted => ResponderHas) => Benign(Response(kind, accepted, paused))
  <2>1. /\ Response(kind, accepted, paused) \in Messages
        /\ Response(kind, accepted, paused).to = "initiator"
        /\ Response(kind, accepted, paused).accepted = accepted
    BY Zenon DEF Response, Messages, Peers
  <2> QED
    BY <2>1, Zenon DEF Benign, IsNew
<1>3. "Cancel" \in Kinds
  BY Zenon DEF Kinds
<1>4. \A p \in Peers : Benign(CancelMessage(p))
  BY <1>1, <1>2, <1>3, Zenon DEF CancelMessage
<1> QED
  BY <1>1, <1>2, <1>4, Zenon

\* OnChannelCompleted with an error, at a peer.
LEMMA CompletedWithErrorStep ==
  ASSUME Types, NEW p \in Peers, CompletedWithError(p)
  PROVE  ChannelStep /\ (ResponderHas' <=> ResponderHas) /\ NetKept(net') /\ job' = job
<1> DEFINE d == IF ch[p].state.Status = "Failing" THEN ch[p] ELSE FireIfLive(ch[p], <<Event("Error")>>)
<1>1. ch' = [ch EXCEPT ![p] = d] /\ UNCHANGED <<net, job>>
  BY Zenon DEF CompletedWithError
<1>2. ch[p] \in Channel \cup {NoChannel}
  BY Zenon DEF Types
<1>3. "Error" \in TameCodes
  BY EventsSent, Zenon
<1>4. Live(ch[p], FireIfLive(ch[p], <<Event("Error")>>))
  BY <1>2, <1>3, TameOne, TameIsLive, Zenon
<1>5. Live(ch[p], d)
  BY <1>4, Zenon DEF Live
<1> HIDE DEF d
<1> QED
  BY <1>1, <1>5, OneFires, NetSame, Zenon

\* OnChannelCompleted without an error, at a peer: an initiator that finishes has
\* a responder that served or opened the request.
LEMMA CompletedWithoutErrorStep ==
  ASSUME Types, NEW p \in Peers, NEW how, CompletedWithoutError(p, how),
         p = "initiator" => ResponderHas
  PROVE  /\ ChannelStep /\ (ResponderHas' <=> ResponderHas) /\ NetKept(net')
         /\ job' \in {"none", "BeginFinalizing", "Complete"}
<1> DEFINE final == ch.responder.state.RequiresFinalization
           d == FireIfLive(ch[p], <<Event("FinishTransfer")>>)
           m == Response("Complete", TRUE, final)
<1>1. ch[p] \in Channel \cup {NoChannel} /\ job \in {"none", "BeginFinalizing", "Complete"}
  BY Zenon DEF Types
<1>2. CASE p = "initiator" \/ Missing(ch[p])
  <2>1. ch' = [ch EXCEPT ![p] = d] /\ UNCHANGED <<net, job>>
    BY <1>2, Zenon DEF CompletedWithoutError
  <2>2. CASE Missing(ch[p])
    <3>1. Live(ch[p], d)
      BY <1>1, <2>2, FireIfLiveIs, Zenon DEF Live
    <3> HIDE DEF d
    <3> QED
      BY <1>1, <2>1, <3>1, OneFires, NetSame, Zenon
  <2>3. CASE p = "initiator" /\ ~Missing(ch[p])
    <3>1. Event("FinishTransfer") \in FromResponder
      BY EventsSent, Zenon
    <3>2. Short(<<Event("FinishTransfer")>>, FromResponder)
      BY <3>1, Zenon DEF Short
    <3>3. Short(<<Event("FinishTransfer")>>, Events)
      BY <3>2, ShortIn, EventsSent, Zenon
    <3>4. d \in Channel /\ Onward(ch[p], d) /\ ch[p] \in Channel
      BY <1>1, <2>3, <3>2, <3>3, FireIfLiveIs, LiveIsChannel, Zenon
    <3> HIDE DEF d
    <3>5. InitiatorMoves(ch.initiator, d, ResponderHas)
      BY <2>3, <3>4, Zenon DEF InitiatorMoves
    <3>6. ch' = [ch EXCEPT !.initiator = d]
      BY <2>1, <2>3, Zenon
    <3> QED
      BY <1>1, <2>1, <3>5, <3>6, InitiatorAlone, NetSame, Zenon
  <2> QED
    BY <1>2, <2>2, <2>3, Zenon
<1>3. CASE ~(p = "initiator" \/ Missing(ch[p]))
  <2>1. p = "responder" /\ ResponderHas /\ ch.responder \in Channel
    BY <1>1, <1>3, LiveIsChannel, Zenon DEF Peers, ResponderHas
  <2>2. final \in BOOLEAN
    BY <2>1, Zenon DEF Channel, ChannelState
  <2>3. Benign(m)
    BY <2>1, <2>2, MessagesSent, Zenon DEF Kinds
  <2>4. net' = Posted(net, how, m)
    BY <1>3, Zenon DEF CompletedWithoutError
  <2> HIDE DEF m
  <2>5. NetKept(net')
    BY <2>3, <2>4, NetPosted, NetSame, Zenon
  <2>6. CASE how = "sent"
    <3>1. job' \in {"BeginFinalizing", "Complete"} /\ UNCHANGED ch
      BY <1>3, <2>6, Zenon DEF CompletedWithoutError
    <3> QED
      BY <2>5, <3>1, ChannelsSame, Zenon
  <2>7. CASE how # "sent"
    <3>1. ch' = [ch EXCEPT ![p] = FireIfLive(@, <<Event("Disconnected")>>)] /\ job' = job
      BY <1>3, <2>7, Zenon DEF CompletedWithoutError
    <3>2. "Disconnected" \in TameCodes
      BY EventsSent, Zenon
    <3>3. ChannelStep /\ (ResponderHas' <=> ResponderHas)
      BY <3>1, <3>2, OneTame, Zenon
    <3> QED
      BY <1>1, <2>5, <3>1, <3>3, Zenon
  <2> QED
    BY <2>6, <2>7, Zenon
<1> QED
  BY <1>2, <1>3, Zenon

\* The sender of the data is done with a request.
LEMMA ResponseCompletedStep ==
  ASSUME Before, NEW k \in DOMAIN req, NEW how, ResponseCompleted(k, how)
  PROVE  Step
<1> DEFINE t == [req[k] EXCEPT !.server = "over",
                               !.outcome = IF @ = "none" THEN "full" ELSE @]
<1>0. Types
  BY Zenon DEF Before
<1>1. req[k] \in GsRequest
  BY <1>0, RequestAt, Zenon
<1>2. req' = [req EXCEPT ![k] = t] /\ UNCHANGED <<pull, cur>> /\ req[k].server = "open"
  BY <1>1, <1>0, Zenon DEF ResponseCompleted, Types
<1>3. ResponderHas
  BY <1>2, Zenon DEF Before, MutualInv
<1>4. /\ ChannelStep /\ (ResponderHas' <=> ResponderHas) /\ NetKept(net')
      /\ job' \in {"none", "BeginFinalizing", "Complete"}
  <2>1. CASE Sender \in req[k].known
    <3>1. CompletedWithoutError(Sender, how)
      BY <2>1, Zenon DEF ResponseCompleted
    <3> QED
      BY <1>0, <1>3, <3>1, Ends, CompletedWithoutErrorStep, Zenon
  <2>2. CASE Sender \notin req[k].known
    <3>1. UNCHANGED <<ch, net, job>>
      BY <2>2, Zenon DEF ResponseCompleted
    <3> QED
      BY <1>0, <3>1, ChannelsSame, NetSame, Zenon DEF Types
  <2> QED
    BY <2>1, <2>2, Zenon
<1>5. t \in GsRequest /\ RequestKept(req[k], t) /\ t.client = req[k].client /\ t.known = req[k].known
  BY <1>1, <1>3, <1>4, Zenon DEF GsRequest, RequestKept
<1> HIDE DEF t
<1>6. RequestStep
  BY <1>0, <1>2, <1>5, RequestUpdated, Zenon DEF Before, Types
<1>7. spent' \subseteq Disturbances
  BY <1>0, Paid, Zenon DEF ResponseCompleted
<1> QED
  BY <1>0, <1>2, <1>4, <1>6, <1>7, Zenon DEF Step

\* The sender of the data fails to serve a request.
LEMMA ResponseFailedStep ==
  ASSUME Before, NEW k \in DOMAIN req, ResponseFailed(k)
  PROVE  Step
<1> DEFINE t == [req[k] EXCEPT !.server = "over", !.outcome = "failed"]
<1>0. Types
  BY Zenon DEF Before
<1>1. req[k] \in GsRequest
  BY <1>0, RequestAt, Zenon
<1>2. req' = [req EXCEPT ![k] = t] /\ UNCHANGED <<pull, cur>>
  BY <1>1, <1>0, Zenon DEF ResponseFailed, Types
<1>4. ChannelStep /\ (ResponderHas' <=> ResponderHas) /\ NetKept(net') /\ job' = job
  <2>1. CASE Sender \in req[k].known
    <3>1. CompletedWithError(Sender)
      BY <2>1, Zenon DEF ResponseFailed
    <3> QED
      BY <1>0, <3>1, Ends, CompletedWithErrorStep, Zenon
  <2>2. CASE Sender \notin req[k].known
    <3>1. UNCHANGED <<ch, net, job>>
      BY <2>2, Zenon DEF ResponseFailed
    <3> QED
      BY <1>0, <3>1, ChannelsSame, NetSame, Zenon DEF Types
  <2> QED
    BY <2>1, <2>2, Zenon
<1>5. t \in GsRequest /\ RequestKept(req[k], t) /\ t.client = req[k].client /\ t.known = req[k].known
  BY <1>1, Zenon DEF GsRequest, RequestKept
<1> HIDE DEF t
<1>6. RequestStep
  BY <1>0, <1>2, <1>5, RequestUpdated, Zenon DEF Before, Types
<1>7. spent' \subseteq Disturbances
  BY <1>0, Paid, Zenon DEF ResponseFailed
<1> QED
  BY <1>0, <1>2, <1>4, <1>6, <1>7, Zenon DEF Step, Types

\* The receiver of the data is told how a request ended.
LEMMA RequestCompletedStep ==
  ASSUME Before, NEW k \in DOMAIN req, NEW how, RequestCompleted(k, how)
  PROVE  Step
<1> DEFINE t == [req[k] EXCEPT !.client = "over"]
<1>0. Types
  BY Zenon DEF Before
<1>1. req[k] \in GsRequest
  BY <1>0, RequestAt, Zenon
<1>2. req' = [req EXCEPT ![k] = t] /\ UNCHANGED <<pull, cur>>
  BY <1>1, <1>0, Zenon DEF RequestCompleted, Types
<1>4. /\ ChannelStep /\ (ResponderHas' <=> ResponderHas) /\ NetKept(net')
      /\ job' \in {"none", "BeginFinalizing", "Complete"}
  <2>1. CASE req[k].outcome = "full"
    <3>1. CompletedWithoutError(Receiver, how)
      BY <2>1, Zenon DEF RequestCompleted
    <3>2. ResponderHas
      BY <2>1, Zenon DEF Before, MutualInv
    <3> QED
      BY <1>0, <3>1, <3>2, Ends, CompletedWithoutErrorStep, Zenon
  <2>2. CASE req[k].outcome # "full"
    <3>1. CompletedWithError(Receiver)
      BY <2>2, Zenon DEF RequestCompleted
    <3> QED
      BY <1>0, <3>1, Ends, CompletedWithErrorStep, Zenon DEF Types
  <2> QED
    BY <2>1, <2>2, Zenon
<1>5. t \in GsRequest /\ RequestKept(req[k], t) /\ t.client # "open" /\ t.known = req[k].known
  BY <1>1, Zenon DEF GsRequest, RequestKept
<1> HIDE DEF t
<1>6. RequestStep
  BY <1>0, <1>2, <1>5, RequestUpdated, Zenon DEF Before, Types
<1>7. spent' \subseteq Disturbances
  BY <1>0, Paid, Zenon DEF RequestCompleted
<1> QED
  BY <1>0, <1>2, <1>4, <1>6, <1>7, Zenon DEF Step

\* Tame events one after the other.
LEMMA LiveAgain ==
  ASSUME NEW a, NEW b, NEW c, Live(a, b), Live(b, c)
  PROVE  Live(a, c)
<1>1. CASE a = b \/ b = c
  BY <1>1, Zenon
<1>2. CASE a # b /\ b # c
  <2>1. a \in Channel /\ c \in Channel /\ Tamely(a, b) /\ Tamely(b, c)
    BY <1>2, Zenon DEF Live
  <2>2. Tamely(a, c)
    BY <2>1, Composed, Zenon
  <2> QED
    BY <2>1, <2>2, Zenon DEF Live
<1> QED
  BY <1>1, <1>2, Zenon

\* The answer a to message m: a channel is made for a new request that is
\* accepted; a restart is accepted only for a channel that is there.
Answered(a, m) ==
  /\ a.reply \in Messages /\ a.reply.to = "initiator"
  /\ a.reply.accepted <=> ~a.err
  /\ m.kind = "New" =>
       /\ Missing(ch.responder)
       /\ a.reply.accepted => a.c \in Channel /\ a.c.state.Status \notin Finished
       /\ ~a.reply.accepted => a.c = ch.responder
  /\ m.kind # "New" =>
       /\ Live(ch.responder, a.c) /\ a.reply.kind = "Restart"
       /\ a.reply.accepted => ResponderHas

\* OnRequestReceived for a request to create or restart a channel.
LEMMA AnswerIs ==
  ASSUME Types, NEW m, m.kind = "New" => ~ResponderHas,
         NEW accept \in BOOLEAN, NEW final \in BOOLEAN
  PROVE  Answered(Answer(m, accept, final), m)
<1> DEFINE a == Answer(m, accept, final)
<1>1. ch.responder \in Channel \cup {NoChannel}
  BY Zenon DEF Types, Peers
<1>2. CASE m.kind = "New"
  <2>1. a = ReceiveNew(accept, final) /\ Missing(ch.responder)
    BY <1>2, Zenon DEF Answer, ResponderHas
  <2>2. /\ a.c \in Channel \cup {NoChannel} /\ (accept <=> a.c \in Channel)
        /\ accept => a.c.state.Status \notin Finished
        /\ a.reply \in Messages /\ a.reply = Response("New", accept, FALSE)
        /\ a.err <=> ~accept
    BY <2>1, ReceiveNewIs, ZenonT(60)
  <2> HIDE DEF a
  <2>3. a.reply.to = "initiator" /\ a.reply.accepted = accept
    BY <2>2 DEF Response
  <2>4. Answered(a, m)
    BY <1>2, <2>1, <2>2, <2>3, Zenon DEF Missing, Answered
  <2> QED
    BY <2>4, Zenon DEF a
<1>3. CASE m.kind # "New"
  <2>1. a = ReceiveRestart(ch.responder, accept, final)
    BY <1>3, Zenon DEF Answer
  <2>2. /\ Live(ch.responder, a.c)
        /\ a.reply \in Messages /\ a.reply.to = "initiator" /\ a.reply.kind = "Restart"
        /\ a.reply.accepted => ~Missing(ch.responder) /\ ~a.err
        /\ ~a.err => ~Missing(ch.responder) /\ a.reply.accepted
    BY <1>1, <2>1, ReceiveRestartIs
  <2> HIDE DEF a
  <2>3. Answered(a, m)
    BY <1>3, <2>2, Zenon DEF ResponderHas, Answered
  <2> QED
    BY <2>3, Zenon DEF a
<1> QED
  BY <1>2, <1>3, Zenon

\* The sender of the data is handed a request and its message.
LEMMA ServeRequestStep ==
  ASSUME Before, NEW k \in DOMAIN req, NEW accept \in BOOLEAN, NEW final \in BOOLEAN,
         ServeRequest(k, accept, final)
  PROVE  Step
<1> DEFINE m == req[k].msg
           a == IF pull THEN Answer(m, accept, final)
                ELSE [c |-> Responded(m), reply |-> NoMessage, err |-> Gone(ch.initiator)]
           t == [req[k] EXCEPT !.reply = a.reply,
                               !.server = IF a.err THEN "over" ELSE "open",
                               !.outcome = IF a.err THEN "failed" ELSE "none",
                               !.known = IF a.err THEN @ ELSE @ \cup {Sender}]
<1>0. Types
  BY Zenon DEF Before
<1>1. req[k] \in GsRequest /\ m \in Messages
  BY <1>0, RequestAt, Zenon
<1>2. /\ req' = [req EXCEPT ![k] = t] /\ UNCHANGED <<pull, net, job>>
      /\ ch' = [ch EXCEPT ![Sender] = a.c] /\ req[k].server = "sent"
      /\ cur' = IF a.err THEN cur ELSE [cur EXCEPT ![Sender] = k]
  BY <1>1, <1>0, Zenon DEF ServeRequest, Types
<1>3. spent' \subseteq Disturbances
  BY <1>0, Paid, Zenon DEF ServeRequest
<1> HIDE DEF a
<1>4. CASE pull
  <2>1. a = Answer(m, accept, final) /\ Sender = "responder"
    BY <1>0, <1>4, Ends, Zenon DEF a
  <2>2. m.kind = "New" => ~ResponderHas /\ k = 1
    BY <1>2, <1>4, Zenon DEF Before, MutualInv
  <2>3. Answered(a, m)
    <3> HIDE DEF m
    <3> QED
      BY <1>0, <2>1, <2>2, AnswerIs, Zenon
  <2>4. ch' = [ch EXCEPT !.responder = a.c] /\ ch'.responder = a.c
    BY <1>0, <1>2, <2>1, Zenon DEF Types, Peers
  <2>5. ChannelStep /\ (a.reply.accepted => ResponderHas')
    <3>1. CASE m.kind = "New"
      <4>1. ResponderMoves(ch.responder, a.c, job # "none" /\ job' = "none")
        BY <2>3, <3>1, Zenon DEF ResponderMoves, Live, Answered
      <4>2. a.reply.accepted => ResponderHas'
        BY <2>3, <2>4, <3>1, NoChannelIsNone, Zenon DEF ResponderHas, Missing, Answered
      <4> QED
        BY <1>0, <2>4, <4>1, <4>2, ResponderFires, Zenon
    <3>2. CASE m.kind # "New"
      BY <1>0, <2>3, <2>4, <3>2, OneFires, Zenon DEF Peers, Answered
    <3> QED
      BY <3>1, <3>2, Zenon
  <2>6. ~ResponderHas /\ ResponderHas' => m.kind = "New" /\ ~a.err
    <3>1. m.kind # "New" => (ResponderHas' <=> ResponderHas)
      BY <1>0, <2>3, <2>4, OneFires, Zenon DEF Peers, Answered
    <3>2. a.c = ch.responder => (ResponderHas' <=> ResponderHas)
      BY <2>4, Zenon DEF ResponderHas
    <3> QED
      BY <2>3, <3>1, <3>2, Zenon DEF Answered
  <2>7. /\ t \in GsRequest /\ t.client = req[k].client
        /\ Receiver \in t.known => Receiver \in req[k].known
        /\ t.reply = a.reply /\ t.msg = m
        /\ t.server = IF a.err THEN "over" ELSE "open"
        /\ t.outcome \in {"failed", "none"}
    BY <1>0, <1>1, <2>3, Ends, Zenon DEF GsRequest, Answered
  <2>8. RequestKept(req[k], t)
    BY <1>2, <2>3, <2>5, <2>7 DEF RequestKept, Answered
  <2>9. cur' \in [Peers -> 0 .. Len(req)] /\ cur'[Receiver] = cur[Receiver]
    BY <1>0, <1>2, Ends, RequestAt DEF Types
  <2> HIDE DEF t
  <2>10. RequestStep
    BY <1>0, <1>2, <2>7, <2>8, <2>9, RequestUpdated, Zenon DEF Before
  <2>11. ~ResponderHas /\ ResponderHas' => NoNew'
    <3> SUFFICES ASSUME ~ResponderHas, ResponderHas'
                 PROVE  NoNew'
      BY Zenon
    <3>1. \A x \in InFlight(net) : ~IsNew(x)
      BY <1>4, Zenon DEF Before, MutualInv
    <3>2. \A j \in DOMAIN req : req[j].msg.kind = "New" => j = 1
      BY <1>4, Zenon DEF Before, MutualInv
    <3>3. k = 1 /\ t.server = "open"
      BY <2>2, <2>6, <2>7, Zenon
    <3>4. DOMAIN req' = DOMAIN req /\ req'[k] = t /\ \A j \in DOMAIN req : j # k => req'[j] = req[j]
      BY <1>0, <1>2, Zenon DEF Types
    <3>5. \A j \in DOMAIN req' : req'[j].msg.kind = "New" => req'[j].server # "sent"
      BY <3>2, <3>3, <3>4, Zenon
    <3> QED
      BY <1>2, <3>1, <3>5, Zenon DEF NoNew
  <2> QED
    BY <1>0, <1>2, <1>3, <2>5, <2>10, <2>11, NetSame, Zenon DEF Step, Types
<1>5. CASE ~pull
  <2>1. a = [c |-> Responded(m), reply |-> NoMessage, err |-> Gone(ch.initiator)]
    BY <1>5, Zenon DEF a
  <2>2. a.c = Responded(m) /\ a.reply = NoMessage
    BY <2>1, Zenon
  <2>3. ResponderHas
    BY <1>5, Zenon DEF Before, MutualInv
  <2>4. InitiatorMoves(ch.initiator, Responded(m), ResponderHas)
    BY <1>0, <1>1, <2>3, RespondedMoves, Zenon DEF Before
  <2>5. ch' = [ch EXCEPT !.initiator = Responded(m)]
    BY <1>0, <1>2, <1>5, <2>2, Ends, Zenon
  <2>6. ChannelStep /\ (ResponderHas' <=> ResponderHas)
    BY <1>0, <2>4, <2>5, InitiatorAlone, Zenon
  <2>7. /\ t \in GsRequest /\ t.client = req[k].client
        /\ Receiver \in t.known => Receiver \in req[k].known
        /\ t.reply = NoMessage /\ t.msg = m
        /\ t.server \in {"over", "open"} /\ t.outcome \in {"failed", "none"}
    BY <1>0, <1>1, <2>2, Ends, Zenon DEF GsRequest
  <2>8. RequestKept(req[k], t)
    BY <1>2, <2>3, <2>6, <2>7, Zenon DEF RequestKept
  <2>9. cur' \in [Peers -> 0 .. Len(req)] /\ cur'[Receiver] = cur[Receiver]
    BY <1>0, <1>2, Ends, RequestAt DEF Types
  <2> HIDE DEF t
  <2>10. RequestStep
    BY <1>0, <1>2, <2>7, <2>8, <2>9, RequestUpdated, Zenon DEF Before
  <2> QED
    BY <1>0, <1>2, <1>3, <2>6, <2>10, NetSame, Zenon DEF Step, Types
<1> QED
  BY <1>4, <1>5, Zenon

\* A new push, or a restart of one, reaches the responder.
LEMMA ReceiveRequestStep ==
  ASSUME Before, NEW m \in InFlight(net), NEW accept \in BOOLEAN, NEW final \in BOOLEAN, NEW how,
         ReceiveRequest(m, accept, final, how)
  PROVE  Step
<1> DEFINE a == Answer(m, accept, final)
<1>0. Types /\ m \in Messages /\ m.to = "responder" /\ UNCHANGED <<pull, job>>
  BY Zenon DEF Before, Types, ReceiveRequest
<1>1. spent' \subseteq Disturbances
  BY <1>0, Paid, Zenon DEF ReceiveRequest
<1>2. m.kind = "New" => ~ResponderHas /\ ~pull /\ m = Request("New")
  BY <1>0, Zenon DEF Before, MutualInv, IsNew
<1>3. Answered(a, m)
  BY <1>0, <1>2, AnswerIs, Zenon
<1>4. NetKept(Taken(m)) /\ (m.kind = "New" => m \notin InFlight(Taken(m)))
  BY <1>0, NetTaken, Zenon DEF Before, IsNew
<1>5. /\ a.reply.accepted /\ how = "sent" =>
           /\ OpenTransport(a.reply) /\ net' = Taken(m)
           /\ ch' = [ch EXCEPT !.responder = Fire(a.c, <<Event("Opened")>>)]
      /\ a.reply.accepted /\ how # "sent" =>
           ch' = [ch EXCEPT !.responder = a.c] /\ net' = Taken(m) /\ UNCHANGED <<req, cur>>
      /\ ~a.reply.accepted =>
           /\ ch' = [ch EXCEPT !.responder = a.c]
           /\ net' = Posted(Taken(m), how, a.reply)
           /\ CloseTransport("responder") \/ UNCHANGED <<req, cur>>
  BY Zenon DEF ReceiveRequest
<1> HIDE DEF a
<1>6. NetKept(net')
  <2>1. ~a.reply.accepted => Benign(a.reply)
    BY <1>3, Zenon DEF Answered, Benign, IsNew
  <2> QED
    BY <1>4, <1>5, <2>1, NetPosted
<1>7. PICK d : /\ ch' = [ch EXCEPT !.responder = d]
               /\ m.kind # "New" => Live(ch.responder, d)
               /\ m.kind = "New" =>
                    (d \in Channel /\ d.state.Status \notin Finished) \/ d = ch.responder
               /\ a.reply.accepted => d \in Channel
  <2>1. a.reply.accepted => a.c \in Channel
    <3>1. ch.responder \in Channel \cup {NoChannel}
      BY <1>0, Zenon DEF Types, Peers
    <3>2. ResponderHas => ch.responder \in Channel
      BY <3>1, LiveIsChannel, Zenon DEF ResponderHas
    <3> QED
      BY <1>3, <3>2, Zenon DEF Answered, Live
  <2>2. Short(<<Event("Opened")>>, Tame)
    BY EventsSent, TameOne, Zenon
  <2>3. ASSUME a.reply.accepted
        PROVE  Live(a.c, Fire(a.c, <<Event("Opened")>>)) /\ Fire(a.c, <<Event("Opened")>>) \in Channel
    BY <2>1, <2>2, <2>3, TameIsLive, NoChannelIsNone, Zenon DEF Missing
  <2>4. CASE a.reply.accepted /\ how = "sent"
    <3>1. ch' = [ch EXCEPT !.responder = Fire(a.c, <<Event("Opened")>>)]
      BY <1>5, <2>4, Zenon
    <3>2. m.kind # "New" => Live(ch.responder, Fire(a.c, <<Event("Opened")>>))
      BY <1>3, <2>3, <2>4, LiveAgain, Zenon DEF Answered
    <3>3. m.kind = "New" => Fire(a.c, <<Event("Opened")>>).state.Status \notin Finished
      BY <1>3, <2>3, <2>4, Zenon DEF Answered, Live, Tamely, NoFinish
    <3> QED
      BY <2>3, <2>4, <3>1, <3>2, <3>3, Zenon
  <2>5. CASE ~(a.reply.accepted /\ how = "sent")
    <3>1. ch' = [ch EXCEPT !.responder = a.c]
      BY <1>5, <2>5, Zenon
    <3> QED
      BY <1>3, <2>1, <3>1, Zenon DEF Answered
  <2> QED
    BY <2>4, <2>5, Zenon
<1>8. ch'.responder = d
  BY <1>0, <1>7, Zenon DEF Types, Peers
<1>9. ChannelStep /\ (m.kind # "New" => (ResponderHas' <=> ResponderHas))
  <2>1. CASE m.kind = "New"
    <3>1. ResponderMoves(ch.responder, d, job # "none" /\ job' = "none")
      BY <1>3, <1>7, <2>1, Zenon DEF ResponderMoves, Live, Answered
    <3> QED
      BY <1>0, <1>7, <2>1, <3>1, ResponderFires, Zenon
  <2>2. CASE m.kind # "New"
    BY <1>0, <1>7, <2>2, OneFires, Zenon DEF Peers
  <2> QED
    BY <2>1, <2>2, Zenon
<1>10. a.reply.accepted => ResponderHas'
  BY <1>7, <1>8, NoChannelIsNone, Zenon DEF ResponderHas, Missing
<1>11. RequestStep
  <2>1. CASE a.reply.accepted /\ how = "sent"
    <3>1. pull => a.reply.kind # "New"
      BY <1>2, <1>3, Zenon DEF Answered
    <3>2. OpenTransport(a.reply) /\ a.reply \in Messages /\ ResponderHas'
      BY <1>3, <1>5, <1>10, <2>1, Zenon DEF Answered
    <3> QED
      BY <1>0, <3>1, <3>2, RequestsOpened, Zenon DEF Before
  <2>2. CASE UNCHANGED <<req, cur>>
    BY <1>0, <2>2, RequestsSame, Zenon DEF Before
  <2>3. CASE CloseTransport("responder")
    BY <1>0, <2>3, RequestsClosed, Zenon DEF Before, Peers
  <2> QED
    BY <1>5, <2>1, <2>2, <2>3, Zenon
<1>12. ~ResponderHas /\ ResponderHas' => NoNew'
  <2> SUFFICES ASSUME ~ResponderHas, ResponderHas'
               PROVE  NoNew'
    BY Zenon
  <2>1. m.kind = "New"
    BY <1>9, Zenon
  <2>2. \A x \in InFlight(net') : ~IsNew(x)
    <3> SUFFICES ASSUME NEW x \in InFlight(net'), IsNew(x)
                 PROVE  FALSE
      BY Zenon
    <3>1. a.reply.accepted
      BY <1>3, <1>5, <2>1, <1>8, <1>0, Zenon DEF Answered, ResponderHas, Types, Peers
    <3>2. net' = Taken(m)
      BY <1>5, <3>1, Zenon
    <3>3. x \in InFlight(net)
      BY <1>4, <3>2, Zenon DEF NetKept, Benign
    <3>4. x = Request("New")
      BY <3>3, Zenon DEF Before, MutualInv
    <3> QED
      BY <1>2, <1>4, <2>1, <3>2, <3>4, Zenon
  <2> QED
    BY <1>0, <1>2, <2>1, <2>2, Zenon DEF NoNew
<1> QED
  BY <1>0, <1>1, <1>6, <1>9, <1>11, <1>12, Zenon DEF Step, Types

\* A cancel reaches the responder.
LEMMA ReceiveCancelRequestStep ==
  ASSUME Before, NEW m \in InFlight(net), ReceiveCancelRequest(m)
  PROVE  Step
<1>0. Types /\ UNCHANGED <<pull, job, spent>> /\ net' = Taken(m) /\ CleanupTransport("responder")
  BY Zenon DEF Before, ReceiveCancelRequest
<1>1. "Cancel" \in TameCodes
  BY EventsSent, Zenon
<1>2. ChannelStep /\ (ResponderHas' <=> ResponderHas)
  BY <1>0, <1>1, OneTame, Zenon DEF ReceiveCancelRequest, Peers
<1>3. RequestStep
  BY <1>0, RequestsCleaned, Zenon DEF Before, Peers
<1>4. NetKept(net')
  BY <1>0, NetTaken, Zenon DEF Before
<1> QED
  BY <1>0, <1>2, <1>3, <1>4, Zenon DEF Step, Types

\* A voucher reaches the responder.
LEMMA ReceiveVoucherRequestStep ==
  ASSUME Before, NEW m \in InFlight(net), ReceiveVoucherRequest(m)
  PROVE  Step
<1>0. Types /\ UNCHANGED <<pull, job, spent>> /\ net' = Taken(m)
  BY Zenon DEF Before, ReceiveVoucherRequest
<1>1. "NewVoucher" \in TameCodes
  BY EventsSent, Zenon
<1>2. ChannelStep /\ (ResponderHas' <=> ResponderHas)
  BY <1>0, <1>1, OneTame, Zenon DEF ReceiveVoucherRequest, Peers
<1>3. RequestStep
  <2>1. CloseTransport("responder") \/ UNCHANGED <<req, cur>>
    BY Zenon DEF ReceiveVoucherRequest
  <2> QED
    BY <1>0, <2>1, RequestsClosed, RequestsSame, Zenon DEF Before, Peers
<1>4. NetKept(net')
  BY <1>0, NetTaken, Zenon DEF Before
<1> QED
  BY <1>0, <1>2, <1>3, <1>4, Zenon DEF Step, Types

\* A response reaches the initiator.
LEMMA ReceiveResponseStep ==
  ASSUME Before, NEW m \in InFlight(net), ReceiveResponse(m)
  PROVE  Step
<1>0. /\ Types /\ UNCHANGED <<pull, job, spent>> /\ net' = Taken(m)
      /\ ch' = [ch EXCEPT !.initiator = Responded(m)] /\ m.to = "initiator" /\ m \in Messages
  BY Zenon DEF Before, ReceiveResponse, Types
<1>1. m.accepted => ResponderHas
  BY <1>0, Zenon DEF Before, MutualInv
<1>2. InitiatorMoves(ch.initiator, Responded(m), ResponderHas)
  BY <1>0, <1>1, RespondedMoves, Zenon DEF Before
<1>3. ChannelStep /\ (ResponderHas' <=> ResponderHas)
  BY <1>0, <1>2, InitiatorAlone, Zenon
<1>4. RequestStep
  <2>1. CloseTransport("initiator") \/ UNCHANGED <<req, cur>>
    BY Zenon DEF ReceiveResponse
  <2> QED
    BY <1>0, <2>1, RequestsClosed, RequestsSame, Zenon DEF Before, Peers
<1>5. NetKept(net')
  BY <1>0, NetTaken, Zenon DEF Before
<1> QED
  BY <1>0, <1>3, <1>4, <1>5, Zenon DEF Step, Types

\* A message is lost.
LEMMA LoseStep ==
  ASSUME Before, NEW m \in InFlight(net), Lose(m)
  PROVE  Step
<1>0. Types /\ UNCHANGED <<pull, ch, req, cur, job>> /\ net' = Taken(m) /\ spent' \subseteq Disturbances
  BY Paid, Zenon DEF Before, Lose
<1>1. ChannelStep /\ (ResponderHas' <=> ResponderHas) /\ RequestStep
  BY <1>0, ChannelsSame, RequestsSame, Zenon DEF Before
<1>2. NetKept(net')
  BY <1>0, NetTaken, Zenon DEF Before
<1> QED
  BY <1>0, <1>1, <1>2, Zenon DEF Step, Types

\* Tame events for a channel that is there.
LEMMA OneLive ==
  ASSUME Types, NEW p \in Peers, ~Missing(ch[p]), NEW s, Short(s, Tame),
         ch' = [ch EXCEPT ![p] = Fire(@, s)]
  PROVE  ChannelStep /\ (ResponderHas' <=> ResponderHas)
<1>1. ch[p] \in Channel \cup {NoChannel}
  BY Zenon DEF Types
<1>2. Live(ch[p], Fire(ch[p], s))
  BY <1>1, TameIsLive, Zenon
<1>3. ch' = [ch EXCEPT ![p] = Fire(ch[p], s)]
  BY Zenon
<1> QED
  BY <1>2, <1>3, OneFires, Zenon

\* openPullRestartChannel and openPushRestartChannel.
LEMMA OpenRestartStep ==
  ASSUME Before, pull' = pull, NEW bag, NetKept(bag), NEW how, OpenRestartChannel(bag, how)
  PROVE  ChannelStep /\ (ResponderHas' <=> ResponderHas) /\ NetKept(net') /\ RequestStep
<1>0. Types /\ ~Missing(ch.initiator)
  BY Zenon DEF Before
<1>1. "Restart" \in Kinds /\ Request("Restart") \in Messages /\ Benign(Request("Restart"))
      /\ Request("Restart").kind = "Restart"
  <2>1. "Restart" \in Kinds
    BY Zenon DEF Kinds
  <2> QED
    BY <2>1, MessagesSent, Zenon DEF Request
<1>2. CASE pull /\ how = "sent"
  <2>1. OpenTransport(Request("Restart")) /\ net' = bag
        /\ ch' = [ch EXCEPT !.initiator = Fire(@, <<Event("Opened")>>)]
    BY <1>2, Zenon DEF OpenRestartChannel
  <2>2. Short(<<Event("Opened")>>, Tame)
    BY EventsSent, TameOne, Zenon
  <2>3. ChannelStep /\ (ResponderHas' <=> ResponderHas)
    BY <1>0, <2>1, <2>2, OneLive, Zenon DEF Peers
  <2>4. RequestStep
    BY <1>0, <1>1, <1>2, <2>1, RequestsOpened, Zenon DEF Before
  <2> QED
    BY <2>1, <2>3, <2>4, Zenon
<1>3. CASE ~(pull /\ how = "sent")
  <2>1. /\ net' = IF pull THEN bag ELSE Posted(bag, how, Request("Restart"))
        /\ UNCHANGED <<ch, req, cur>>
    BY <1>3, Zenon DEF OpenRestartChannel
  <2>2. NetKept(net')
    BY <1>1, <2>1, NetPosted, Zenon
  <2> QED
    BY <1>0, <2>1, <2>2, ChannelsSame, RequestsSame, Zenon DEF Before
<1> QED
  BY <1>2, <1>3, Zenon

\* The responder's wish to restart reaches the initiator.
LEMMA ReceiveRestartExistingStep ==
  ASSUME Before, NEW m \in InFlight(net), NEW how, ReceiveRestartExisting(m, how)
  PROVE  Step
<1>0. Types /\ UNCHANGED <<pull, job>> /\ spent' \subseteq Disturbances
  BY Paid, Zenon DEF Before, ReceiveRestartExisting
<1>1. NetKept(Taken(m))
  BY <1>0, NetTaken, Zenon DEF Before
<1>2. CASE Gone(ch.initiator)
  <2>1. net' = Taken(m) /\ UNCHANGED <<ch, req, cur>>
    BY <1>2, Zenon DEF ReceiveRestartExisting
  <2> QED
    BY <1>0, <1>1, <2>1, ChannelsSame, RequestsSame, Zenon DEF Before, Step, Types
<1>3. CASE ~Gone(ch.initiator)
  <2>1. OpenRestartChannel(Taken(m), how)
    BY <1>3, Zenon DEF ReceiveRestartExisting
  <2>2. ChannelStep /\ (ResponderHas' <=> ResponderHas) /\ NetKept(net') /\ RequestStep
    BY <1>0, <1>1, <2>1, OpenRestartStep, Zenon
  <2> QED
    BY <1>0, <2>2, Zenon DEF Step, Types
<1> QED
  BY <1>2, <1>3, Zenon

\* A peer restarts the channel.
LEMMA RestartDataTransferChannelStep ==
  ASSUME Before, NEW p \in Peers, NEW accept, NEW how, RestartDataTransferChannel(p, accept, how)
  PROVE  Step
<1>0. Types /\ UNCHANGED <<pull, job>> /\ spent' \subseteq Disturbances /\ ~Missing(ch[p])
  BY Paid, Zenon DEF Before, RestartDataTransferChannel, Gone
<1>1. NetKept(net)
  BY <1>0, NetSame, Zenon
<1>2. CASE IsChannelCleaningUp(StatusOf(p))
  <2>1. /\ ch' = [ch EXCEPT ![p] = Fire(@, <<Event("CompleteCleanupOnRestart")>>)]
        /\ UNCHANGED <<net, req, cur>>
    BY <1>2, Zenon DEF RestartDataTransferChannel
  <2>2. Short(<<Event("CompleteCleanupOnRestart")>>, Tame)
    BY EventsSent, TameOne, Zenon
  <2>3. ChannelStep /\ (ResponderHas' <=> ResponderHas)
    BY <1>0, <2>1, <2>2, OneLive, Zenon
  <2> QED
    BY <1>0, <1>1, <2>1, <2>3, RequestsSame, Zenon DEF Before, Step, Types
<1>3. CASE ~IsChannelCleaningUp(StatusOf(p)) /\ p = "initiator"
  <2>1. OpenRestartChannel(net, how)
    BY <1>3, Zenon DEF RestartDataTransferChannel
  <2>2. ChannelStep /\ (ResponderHas' <=> ResponderHas) /\ NetKept(net') /\ RequestStep
    BY <1>0, <1>1, <2>1, OpenRestartStep, Zenon
  <2> QED
    BY <1>0, <2>2, Zenon DEF Step, Types
<1>4. CASE ~IsChannelCleaningUp(StatusOf(p)) /\ p # "initiator"
  <2> DEFINE m == Response("RestartExisting", FALSE, FALSE)
  <2>1. /\ net' = IF accept THEN Posted(net, how, m) ELSE net
        /\ UNCHANGED <<ch, req, cur>>
    BY <1>4, Zenon DEF RestartDataTransferChannel
  <2>2. Benign(m)
    <3>1. "RestartExisting" \in Kinds
      BY Zenon DEF Kinds
    <3> QED
      BY <3>1, MessagesSent, Zenon
  <2> HIDE DEF m
  <2>3. NetKept(net')
    BY <1>1, <2>1, <2>2, NetPosted, Zenon
  <2> QED
    BY <1>0, <2>1, <2>3, ChannelsSame, RequestsSame, Zenon DEF Before, Step, Types
<1> QED
  BY <1>2, <1>3, <1>4, Zenon

\* A peer closes the channel.
LEMMA CloseDataTransferChannelStep ==
  ASSUME Before, NEW p \in Peers, NEW code \in {"Cancel", "Error"}, NEW how,
         CloseDataTransferChannel(p, code, how)
  PROVE  Step
<1> DEFINE s == <<Event(code)>> \o IF code = "Cancel" /\ how # "sent"
                                   THEN <<Event("Disconnected")>> ELSE <<>>
<1>0. /\ Types /\ UNCHANGED <<pull, job>> /\ ~Missing(ch[p]) /\ CloseTransport(p)
      /\ net' = Posted(net, how, CancelMessage(p)) /\ ch' = [ch EXCEPT ![p] = Fire(@, s)]
  BY Zenon DEF Before, CloseDataTransferChannel, Gone
<1>1. spent' \subseteq Disturbances
  BY <1>0, Paid, Zenon DEF CloseDataTransferChannel
<1>2. Short(s, Tame)
  <2>1. Event(code) \in Tame /\ Event("Disconnected") \in Tame
    BY EventsSent, Zenon
  <2> DEFINE a == Event(code)
             b == Event("Disconnected")
  <2>2. s = <<a>> \o <<b>> \/ s = <<a>> \o <<>>
    BY Zenon
  <2> HIDE DEF a, b, s
  <2>3. s = <<a, b>> \/ s = <<a>>
    BY <2>2, Joined0, Joined2, Zenon
  <2>4. a \in Tame /\ b \in Tame
    BY <2>1, Zenon DEF a, b
  <2> QED
    BY <2>3, <2>4, Zenon DEF Short
<1> HIDE DEF s
<1>3. ChannelStep /\ (ResponderHas' <=> ResponderHas)
  BY <1>0, <1>2, OneLive, Zenon
<1>4. NetKept(net')
  BY <1>0, NetSame, NetPosted, MessagesSent, Zenon
<1>5. RequestStep
  BY <1>0, RequestsClosed, Zenon DEF Before
<1> QED
  BY <1>0, <1>1, <1>3, <1>4, <1>5, Zenon DEF Step, Types

\* The initiator sends the final voucher.
LEMMA SendVoucherStep ==
  ASSUME Before, NEW how, SendVoucher(how)
  PROVE  Step
<1> DEFINE code == IF how = "sent" THEN "NewVoucher" ELSE "Disconnected"
<1>0. /\ Types /\ UNCHANGED <<pull, req, cur, job>> /\ ~Missing(ch.initiator)
      /\ net' = Posted(net, how, Request("Voucher"))
      /\ ch' = [ch EXCEPT !.initiator = Fire(@, <<Event(code)>>)]
  BY Zenon DEF Before, SendVoucher
<1>1. spent' \subseteq Disturbances
  BY <1>0, Paid, Zenon DEF SendVoucher
<1>2. Short(<<Event(code)>>, Tame)
  <2>1. code \in TameCodes
    BY EventsSent, Zenon
  <2> QED
    BY <2>1, TameOne, Zenon
<1> HIDE DEF code
<1>3. ChannelStep /\ (ResponderHas' <=> ResponderHas)
  BY <1>0, <1>2, OneLive, Zenon DEF Peers
<1>4. Benign(Request("Voucher"))
  <2>1. "Voucher" \in Kinds
    BY Zenon DEF Kinds
  <2> QED
    BY <2>1, MessagesSent, Zenon
<1>5. NetKept(net')
  BY <1>0, <1>4, NetSame, NetPosted, Zenon
<1>6. RequestStep
  BY <1>0, RequestsSame, Zenon DEF Before
<1> QED
  BY <1>0, <1>1, <1>3, <1>5, <1>6, Zenon DEF Step, Types

\* The responder sends a voucher result.
LEMMA SendVoucherResultStep ==
  ASSUME Before, NEW how, SendVoucherResult(how)
  PROVE  Step
<1> DEFINE st == ch.responder.state
           kind == IF InFinalization(st.Status) THEN "Complete" ELSE "VoucherResult"
           acc == IsAccepted(st.Status)
           paused == ResponderPaused(st)
           r == Response(kind, acc, paused)
           m == [r EXCEPT !.voucher = TRUE]
           code == IF how = "sent" THEN "NewVoucherResult" ELSE "Disconnected"
<1>0. /\ Types /\ UNCHANGED <<pull, req, cur, job>> /\ ~Missing(ch.responder)
      /\ net' = Posted(net, how, m)
      /\ ch' = [ch EXCEPT !.responder = Fire(@, <<Event(code)>>)]
  BY Zenon DEF Before, SendVoucherResult, Gone
<1>1. spent' \subseteq Disturbances
  BY <1>0, Paid, Zenon DEF SendVoucherResult
<1>2. Short(<<Event(code)>>, Tame)
  <2>1. code \in TameCodes
    BY EventsSent, Zenon
  <2> QED
    BY <2>1, TameOne, Zenon
<1>3. Benign(m)
  <2>1. ch.responder \in Channel
    BY <1>0, LiveIsChannel, Zenon DEF Types, Peers
  <2>2. kind \in Kinds /\ acc \in BOOLEAN /\ paused \in BOOLEAN
    BY <2>1, Zenon DEF Kinds, IsAccepted, ResponderPaused, Channel, ChannelState
  <2> HIDE DEF kind, acc, paused
  <2>3. r \in Messages /\ r.to = "initiator"
    BY <2>2, MessagesSent, Zenon
  <2> HIDE DEF r
  <2>4. m \in Messages /\ m.to = "initiator"
    BY <2>3, Zenon DEF Messages
  <2> HIDE DEF m
  <2> QED
    BY <1>0, <2>4, Zenon DEF Benign, IsNew, ResponderHas
<1> HIDE DEF code, m
<1>4. ChannelStep /\ (ResponderHas' <=> ResponderHas)
  BY <1>0, <1>2, OneLive, Zenon DEF Peers
<1>5. NetKept(net')
  BY <1>0, <1>3, NetSame, NetPosted, Zenon
<1>6. RequestStep
  BY <1>0, RequestsSame, Zenon DEF Before
<1> QED
  BY <1>0, <1>1, <1>4, <1>5, <1>6, Zenon DEF Step, Types

\* The responder updates the validation status.
LEMMA UpdateValidationStatusStep ==
  ASSUME Before, NEW accept \in BOOLEAN, NEW final \in BOOLEAN, NEW how,
         UpdateValidationStatus(accept, final, how)
  PROVE  Step
<1> DEFINE st == ch.responder.state
           kind == IF st.Status = "Finalizing" THEN "Complete" ELSE "VoucherResult"
           paused == LeaveRequestPaused(st, final)
           m == Response(kind, accept, paused)
           s == IF accept THEN AcceptedEvents(st, final) ELSE <<Event("Error")>>
<1>0. /\ Types /\ UNCHANGED <<pull, job>> /\ ~Missing(ch.responder)
      /\ net' = Posted(net, how, m) /\ ch' = [ch EXCEPT !.responder = Fire(@, s)]
      /\ CloseTransport("responder") \/ UNCHANGED <<req, cur>>
  BY Zenon DEF Before, UpdateValidationStatus, Gone
<1>1. spent' \subseteq Disturbances
  BY <1>0, Paid, Zenon DEF UpdateValidationStatus
<1>2. Short(s, Tame)
  BY AcceptedShort, EventsSent, TameOne, Zenon
<1>3. Benign(m)
  <2>1. kind \in Kinds /\ paused \in BOOLEAN
    BY Zenon DEF Kinds, LeaveRequestPaused, InFinalization
  <2> HIDE DEF kind, paused
  <2> QED
    BY <1>0, <2>1, MessagesSent, Zenon DEF ResponderHas
<1> HIDE DEF m, s
<1>4. ChannelStep /\ (ResponderHas' <=> ResponderHas)
  BY <1>0, <1>2, OneLive, Zenon DEF Peers
<1>5. NetKept(net')
  BY <1>0, <1>3, NetSame, NetPosted, Zenon
<1>6. RequestStep
  BY <1>0, RequestsSame, RequestsClosed, Zenon DEF Before, Peers
<1> QED
  BY <1>0, <1>1, <1>4, <1>5, <1>6, Zenon DEF Step, Types

\* A peer cleans a channel up.
LEMMA CleanupConnectionStep ==
  ASSUME Before, NEW p \in Peers, CleanupConnection(p)
  PROVE  Step
<1> DEFINE c == ch[p]
           b == [c EXCEPT !.owed = @ - 1]
           d == Effect(b, Event("CleanupComplete"))
<1>0. /\ Types /\ UNCHANGED <<pull, net, job, spent>> /\ c.owed > 0 /\ CleanupTransport(p)
      /\ ch' = [ch EXCEPT ![p] = d]
  BY Zenon DEF Before, CleanupConnection
<1>1. c \in Channel
  <2>1. c \in Channel \cup {NoChannel}
    BY <1>0, Zenon DEF Types
  <2> QED
    BY <1>0, <2>1, NoChannelIsNone
<1> HIDE DEF c
<1>2. b \in Channel /\ b.state = c.state
  BY <1>0, <1>1 DEF Channel
<1>3. Event("CleanupComplete") \in Events /\ Event("CleanupComplete").code \in TameCodes
  <2>1. Event("CleanupComplete") \in Tame
    BY EventsSent, Zenon
  <2> QED
    BY <2>1, Zenon DEF Tame
<1> HIDE DEF b
<1>4. d \in Channel /\ Tamely(b, d)
  BY <1>2, <1>3, EffectOf, Zenon
<1> HIDE DEF d
<1>5. Live(c, d)
  <2>1. Tamely(c, b)
    BY <1>0, <1>2, Zenon DEF Tamely, Onward, EndsForGood, StaysGivenUp, StaysLate, NoAcceptance,
       NoFinish, Fit
  <2> QED
    BY <1>1, <1>4, <2>1, Composed, Zenon DEF Live
<1>6. ChannelStep /\ (ResponderHas' <=> ResponderHas)
  BY <1>0, <1>5, OneFires, Zenon DEF c
<1>7. RequestStep
  BY <1>0, RequestsCleaned, Zenon DEF Before
<1> QED
  BY <1>0, <1>6, <1>7, NetSame, Zenon DEF Step, Types

\* A peer crashes and restarts.
LEMMA CrashStep ==
  ASSUME Before, NEW p \in Peers, Crash(p)
  PROVE  Step
<1> DEFINE c == ch[p]
           d == [c EXCEPT !.owed = 0]
<1>0. /\ Types /\ UNCHANGED <<pull, net>> /\ ~Missing(c) /\ spent' \subseteq Disturbances
      /\ ch' = [ch EXCEPT ![p] = d] /\ job' \in {"none", job}
  BY Paid, Zenon DEF Before, Crash, Gone, Types
<1>1. c \in Channel
  BY <1>0, LiveIsChannel, Zenon DEF Types
<1> HIDE DEF c
<1>2. d \in Channel /\ d.state = c.state /\ ~(d.owed > 0)
  BY <1>1 DEF Channel
<1> HIDE DEF d
<1>3. Live(c, d)
  BY <1>1, <1>2, Zenon DEF Live, Tamely, Onward, EndsForGood, StaysGivenUp, StaysLate,
     NoAcceptance, NoFinish, Fit
<1>4. ChannelStep /\ (ResponderHas' <=> ResponderHas)
  BY <1>0, <1>3, OneFires, Zenon DEF c
<1>5. RequestStep
  BY <1>0, RequestsCrashed, Zenon DEF Before
<1> QED
  BY <1>0, <1>4, <1>5, NetSame, Zenon DEF Step, Types

\* The first event of a channel that was just made.
LEMMA NewChannel ==
  ASSUME NEW code \in TameCodes
  PROVE  /\ Fire(CreateNew, <<Event(code)>>) \in Channel
         /\ ~IsAccepted(Fire(CreateNew, <<Event(code)>>).state.Status)
         /\ ~IsAccepted(CreateNew.state.Status)
         /\ Fit(Fire(CreateNew, <<Event(code)>>))
<1>1. ~IsAccepted(CreateNew.state.Status) /\ CreateNew \in Channel
  BY CreateNewIs, Zenon DEF IsAccepted, NotAcceptedStates
<1>2. Short(<<Event(code)>>, Tame) /\ Short(<<Event(code)>>, Events)
  BY TameOne, ShortIn, EventsSent, Zenon
<1>3. Fire(CreateNew, <<Event(code)>>) \in Channel /\ Tamely(CreateNew, Fire(CreateNew, <<Event(code)>>))
  BY <1>1, <1>2, FireShort, Zenon
<1> QED
  BY <1>1, <1>3, CreateNewIs, Zenon DEF Tamely, Onward, NoAcceptance

\* The initiator opens a pull: the first request carries the new channel.
LEMMA OpenPullStep ==
  ASSUME Types, OpenRequestIsHeld, MutualInv, OpenPullDataChannel
  PROVE  Step /\ MutualInv'
<1>0. pull /\ Missing(ch.initiator) /\ UNCHANGED <<pull, net, job>>
      /\ req = <<>> /\ InFlight(net) = {} /\ ~ResponderHas
  BY Zenon DEF OpenPullDataChannel, MutualInv
<1>1. PICK code \in {"Opened", "Error"} :
        /\ ch' = [ch EXCEPT !.initiator = Fire(CreateNew, <<Event(code)>>)]
        /\ code = "Opened" => OpenTransport(Request("New")) /\ UNCHANGED spent
        /\ code = "Error" => Pay({"failures"}) /\ UNCHANGED <<req, cur>>
  BY Zenon DEF OpenPullDataChannel
<1> DEFINE d == Fire(CreateNew, <<Event(code)>>)
<1>2. d \in Channel /\ ~IsAccepted(d.state.Status) /\ Fit(d)
  BY NewChannel, EventsSent, Zenon
<1> HIDE DEF d
<1>3. ch' = [ch EXCEPT !.initiator = d] /\ ch'.initiator = d
  BY <1>1, Zenon DEF d, Types, Peers
<1>4. InitiatorMoves(ch.initiator, d, ResponderHas)
  BY <1>0, <1>2, Zenon DEF InitiatorMoves
<1>5. ChannelStep /\ (ResponderHas' <=> ResponderHas)
  BY <1>3, <1>4, InitiatorAlone, Zenon
<1>6. Request("New") \in Messages
  BY MessagesSent, Zenon DEF Kinds
<1>7. RequestStep
  <2>1. CASE code = "Opened"
    <3>1. OpenTransport(Request("New")) /\ ~ResponderHas'
      BY <1>0, <1>1, <1>5, <2>1, Zenon
    <3> QED
      BY <1>0, <1>6, <3>1, RequestsOpened, Zenon
  <2>2. CASE code = "Error"
    BY <1>0, <1>1, <2>2, RequestsSame, Zenon
  <2> QED
    BY <2>1, <2>2, Zenon
<1>8. spent' \subseteq Disturbances
  BY <1>1, Paid, Zenon DEF Types
<1>9. Step
  BY <1>0, <1>5, <1>7, <1>8, NetSame, Zenon DEF Step, Types
<1>10. ~Missing(ch'.initiator) /\ ~IsAccepted(ch'.initiator.state.Status)
  BY <1>2, <1>3, NoChannelIsNone, Zenon DEF Missing
<1>11. ASSUME NEW k \in DOMAIN req'
       PROVE  /\ req'[k].reply = NoMessage /\ req'[k].server = "sent" /\ req'[k].outcome = "none"
              /\ req'[k].msg.kind = "New" => k = 1
  <2>1. RequestMade(req'[k], k)
    BY <1>0, <1>7 DEF RequestStep
  <2> QED
    BY <1>0, <2>1, Zenon DEF RequestMade
<1>12. InFlight(net') = {}
  BY <1>0, Zenon
<1>13. MutualInv'
  BY <1>0, <1>5, <1>10, <1>11, <1>12, Zenon DEF MutualInv, StatusOf
<1> QED
  BY <1>9, <1>13, Zenon

\* The initiator opens a push: one message carries the new channel.
LEMMA OpenPushStep ==
  ASSUME Types, OpenRequestIsHeld, MutualInv, NEW how, OpenPushDataChannel(how)
  PROVE  ChannelStep /\ Types' /\ OpenRequestIsHeld' /\ MutualInv'
<1> DEFINE m == Request("New")
           d == IF how = "sent" THEN CreateNew ELSE Fire(CreateNew, <<Event("Error")>>)
<1>0. /\ ~pull /\ Missing(ch.initiator) /\ UNCHANGED <<pull, req, cur, job>>
      /\ net' = Posted(net, how, m) /\ ch' = [ch EXCEPT !.initiator = d]
      /\ req = <<>> /\ InFlight(net) = {} /\ ~ResponderHas
  BY Zenon DEF OpenPushDataChannel, MutualInv
<1>1. spent' \subseteq Disturbances
  BY Paid, Zenon DEF OpenPushDataChannel
<1>2. d \in Channel /\ ~IsAccepted(d.state.Status) /\ Fit(d)
  BY NewChannel, EventsSent, CreateNewIs, Zenon
<1> HIDE DEF d
<1>3. ch'.initiator = d
  BY <1>0, Zenon DEF Types, Peers
<1>4. InitiatorMoves(ch.initiator, d, ResponderHas)
  BY <1>0, <1>2, Zenon DEF InitiatorMoves
<1>5. ChannelStep /\ (ResponderHas' <=> ResponderHas)
  BY <1>0, <1>4, InitiatorAlone, Zenon
<1>6. RequestStep
  BY <1>0, RequestsSame, Zenon
<1>7. m \in Messages /\ m.to = "responder"
  BY MessagesSent, Zenon DEF Kinds, Request
<1>8. IsBag(net)
  BY Zenon DEF Types
<1>9. IsBag(net') /\ InFlight(net') \subseteq {m} /\ \A x \in InFlight(net') : net'[x] = 1
  <2>1. \/ net' = net
        \/ /\ IsBag(net') /\ InFlight(net') = InFlight(net) \cup {m}
           /\ m \notin InFlight(net) => net'[m] = 1
    BY <1>0, <1>8, BagSteps
  <2> QED
    BY <1>0, <1>8, <2>1, Zenon
<1>10. Types'
  BY <1>0, <1>1, <1>5, <1>6, <1>7, <1>9, Zenon DEF Types, ChannelStep, RequestStep
<1>11. OpenRequestIsHeld'
  BY <1>6, Zenon DEF RequestStep
<1>12. ~Missing(ch'.initiator) /\ ~IsAccepted(ch'.initiator.state.Status)
  BY <1>2, <1>3, NoChannelIsNone, Zenon DEF Missing
<1>13. \A x \in InFlight(net') : x = Request("New") /\ x.to = "responder" /\ net'[x] = 1
  BY <1>7, <1>9, Zenon
<1>14. DOMAIN req' = {}
  BY <1>0
<1>15. MutualInv'
  BY <1>0, <1>5, <1>12, <1>13, <1>14, Zenon DEF MutualInv, StatusOf
<1> QED
  BY <1>5, <1>10, <1>11, <1>15, Zenon

-----------------------------------------------------------------------------
(* The invariant *)

\* The inductive invariant.
Inv == Types /\ OpenRequestIsHeld /\ MutualInv

\* Nothing was opened at the start.
LEMMA InitInv == Init => Inv
<1> SUFFICES ASSUME Init PROVE Inv
  BY Zenon
<1>1. IsBag(<<>>) /\ InFlight(<<>>) = {}
  BY DEF IsBag, InFlight
<1>2. /\ ch = [p \in Peers |-> NoChannel] /\ ch.initiator = NoChannel /\ ch.responder = NoChannel
      /\ req = <<>> /\ req \in Seq(GsRequest) /\ Len(req) = 0 /\ DOMAIN req = {}
      /\ net = <<>>
  BY DEF Init, Peers
<1>3. Types
  BY <1>1, <1>2, TransferAssumption DEF Types, Init, Disturbances
<1>4. OpenRequestIsHeld
  BY <1>2, Zenon DEF OpenRequestIsHeld
<1>5. ~IsAccepted(ch.initiator.state.Status)
  BY <1>2, MissingStatus, Zenon
<1>6. MutualInv
  BY <1>1, <1>2, <1>5, Zenon DEF MutualInv, StatusOf, Missing, ResponderHas
<1> QED
  BY <1>3, <1>4, <1>6, Zenon DEF Inv

\* Before the channel is opened there is nothing to do but to open it.
LEMMA Idle ==
  ASSUME Types, MutualInv, Missing(ch.initiator), Next
  PROVE  OpenPullDataChannel \/ (\E how \in SendOutcomes : OpenPushDataChannel(how)) \/ RecordCompleted
<1>1. DOMAIN req = {} /\ InFlight(net) = {} /\ Missing(ch.responder)
  BY DEF MutualInv, ResponderHas
<1>2. \A p \in Peers : Missing(ch[p]) /\ Gone(ch[p]) /\ ch[p].owed = 0
  BY <1>1, NoChannelIsNone, Zenon DEF Peers, Missing, Gone
<1>3. Gone(ch.responder) /\ StatusOf("initiator") = "ChannelNotFoundError"
  BY <1>1, NoChannelIsNone, Zenon DEF Missing, Gone, StatusOf
<1>4. \A p \in Peers : ~CleanupConnection(p) /\ ~Crash(p)
  <2> SUFFICES ASSUME NEW p \in Peers, CleanupConnection(p) \/ Crash(p)
               PROVE  FALSE
    BY Zenon
  <2>1. ch[p].owed > 0 \/ ~Gone(ch[p])
    BY Zenon DEF CleanupConnection, Crash
  <2>2. ch[p].owed = 0 /\ Gone(ch[p])
    BY <1>2, Zenon
  <2> QED
    BY <2>1, <2>2
<1>5. \A p \in Peers, accept \in BOOLEAN, how \in SendOutcomes : ~RestartDataTransferChannel(p, accept, how)
  BY <1>2, Zenon DEF RestartDataTransferChannel
<1>6. \A p \in Peers, code \in {"Cancel", "Error"}, how \in SendOutcomes :
        ~CloseDataTransferChannel(p, code, how)
  BY <1>2, Zenon DEF CloseDataTransferChannel
<1>7. \A how \in SendOutcomes : ~SendVoucher(how) /\ ~SendVoucherResult(how)
  BY <1>3, Zenon DEF SendVoucher, SendVoucherResult
<1>8. \A accept, final \in BOOLEAN, how \in SendOutcomes : ~UpdateValidationStatus(accept, final, how)
  BY <1>3, Zenon DEF UpdateValidationStatus
<1> QED
  BY <1>1, <1>4, <1>5, <1>6, <1>7, <1>8, Zenon DEF Next

\* Every other action, once it is opened.
LEMMA OpenedSteps ==
  ASSUME Before, Next
  PROVE  Step
<1>1. ~OpenPullDataChannel /\ \A how \in SendOutcomes : ~OpenPushDataChannel(how)
  BY Zenon DEF Before, OpenPullDataChannel, OpenPushDataChannel
<1>2. ASSUME NEW k \in DOMAIN req, NEW accept \in BOOLEAN, NEW final \in BOOLEAN,
             ServeRequest(k, accept, final)
      PROVE  Step
  BY <1>2, ServeRequestStep, Zenon
<1>3. ASSUME NEW k \in DOMAIN req, NEW p \in Peers, TransferInitiated(k, p)
      PROVE  Step
  BY <1>3, TransferInitiatedStep, Zenon
<1>4. ASSUME NEW k \in DOMAIN req, ReceiveReply(k)
      PROVE  Step
  BY <1>4, ReceiveReplyStep, Zenon
<1>5. ASSUME RecordCompleted
      PROVE  Step
  BY <1>5, RecordCompletedStep, Zenon DEF Before
<1>6. ASSUME NEW k \in DOMAIN req, NEW how \in SendOutcomes, ResponseCompleted(k, how)
      PROVE  Step
  BY <1>6, ResponseCompletedStep, Zenon
<1>7. ASSUME NEW k \in DOMAIN req, ResponseFailed(k)
      PROVE  Step
  BY <1>7, ResponseFailedStep, Zenon
<1>8. ASSUME NEW k \in DOMAIN req, NEW how \in SendOutcomes, RequestCompleted(k, how)
      PROVE  Step
  BY <1>8, RequestCompletedStep, Zenon
<1>9. ASSUME NEW k \in DOMAIN req, RequestCancelled(k)
      PROVE  Step
  BY <1>9, RequestCancelledStep, Zenon
<1>10. ASSUME NEW k \in DOMAIN req, SeeCancelled(k)
       PROVE  Step
  BY <1>10, SeeCancelledStep, Zenon
<1>11. ASSUME NEW m \in InFlight(net), NEW accept \in BOOLEAN, NEW final \in BOOLEAN,
              NEW how \in SendOutcomes, ReceiveRequest(m, accept, final, how)
       PROVE  Step
  BY <1>11, ReceiveRequestStep, Zenon
<1>12. ASSUME NEW m \in InFlight(net), ReceiveCancelRequest(m)
       PROVE  Step
  BY <1>12, ReceiveCancelRequestStep, Zenon
<1>13. ASSUME NEW m \in InFlight(net), ReceiveVoucherRequest(m)
       PROVE  Step
  BY <1>13, ReceiveVoucherRequestStep, Zenon
<1>14. ASSUME NEW m \in InFlight(net), ReceiveResponse(m)
       PROVE  Step
  BY <1>14, ReceiveResponseStep, Zenon
<1>15. ASSUME NEW m \in InFlight(net), NEW how \in SendOutcomes, ReceiveRestartExisting(m, how)
       PROVE  Step
  BY <1>15, ReceiveRestartExistingStep, Zenon
<1>16. ASSUME NEW m \in InFlight(net), Lose(m)
       PROVE  Step
  BY <1>16, LoseStep, Zenon
<1>17. ASSUME NEW p \in Peers, NEW accept \in BOOLEAN, NEW how \in SendOutcomes,
              RestartDataTransferChannel(p, accept, how)
       PROVE  Step
  BY <1>17, RestartDataTransferChannelStep, Zenon
<1>18. ASSUME NEW p \in Peers, NEW code \in {"Cancel", "Error"}, NEW how \in SendOutcomes,
              CloseDataTransferChannel(p, code, how)
       PROVE  Step
  BY <1>18, CloseDataTransferChannelStep, Zenon
<1>19. ASSUME NEW how \in SendOutcomes, SendVoucher(how)
       PROVE  Step
  BY <1>19, SendVoucherStep, Zenon
<1>20. ASSUME NEW how \in SendOutcomes, SendVoucherResult(how)
       PROVE  Step
  BY <1>20, SendVoucherResultStep, Zenon
<1>21. ASSUME NEW accept \in BOOLEAN, NEW final \in BOOLEAN, NEW how \in SendOutcomes,
              UpdateValidationStatus(accept, final, how)
       PROVE  Step
  BY <1>21, UpdateValidationStatusStep, Zenon
<1>22. ASSUME NEW p \in Peers, CleanupConnection(p)
       PROVE  Step
  BY <1>22, CleanupConnectionStep, Zenon
<1>23. ASSUME NEW p \in Peers, Crash(p)
       PROVE  Step
  BY <1>23, CrashStep, Zenon
<1> QED
  BY <1>1, <1>2, <1>3, <1>4, <1>5, <1>6, <1>7, <1>8, <1>9, <1>10, <1>11, <1>12, <1>13, <1>14, <1>15,
     <1>16, <1>17, <1>18, <1>19, <1>20, <1>21, <1>22, <1>23, SMTT(30) DEF Next

\* Every step preserves the invariant and moves the channels as ChannelStep says.
LEMMA NextInv ==
  ASSUME Inv, [Next]_vars
  PROVE  Inv' /\ ChannelStep
<1>0. Types /\ OpenRequestIsHeld /\ MutualInv
  BY Zenon DEF Inv
<1>1. CASE UNCHANGED vars
  <2>1. Types'
    BY <1>0, <1>1, Zenon DEF Types, vars
  <2>2. OpenRequestIsHeld'
    BY <1>0, <1>1, Zenon DEF OpenRequestIsHeld, Receiver, vars
  <2>3. MutualInv'
    BY <1>0, <1>1, Zenon DEF MutualInv, ResponderHas, StatusOf, vars
  <2>4. ChannelStep
    BY <1>0, <1>1, ChannelsSame, Zenon DEF vars
  <2> QED
    BY <2>1, <2>2, <2>3, <2>4, Zenon DEF Inv
<1>2. CASE Next /\ ~Missing(ch.initiator)
  <2>1. Step
    BY <1>0, <1>2, OpenedSteps, Zenon DEF Before
  <2> QED
    BY <1>0, <1>2, <2>1, StepTypes, StepMutual, Zenon DEF Inv, Step, RequestStep
<1>3. CASE OpenPullDataChannel
  <2>1. Step /\ MutualInv'
    BY <1>0, <1>3, OpenPullStep, Zenon
  <2> QED
    BY <1>0, <2>1, StepTypes, Zenon DEF Inv, Step, RequestStep
<1>4. CASE \E how \in SendOutcomes : OpenPushDataChannel(how)
  BY <1>0, <1>4, OpenPushStep, Zenon DEF Inv
<1>5. CASE RecordCompleted /\ Missing(ch.initiator)
  <2>1. Step /\ (ResponderHas' <=> ResponderHas)
    BY <1>0, <1>5, RecordCompletedStep, Zenon
  <2>2. req' = req /\ net' = net /\ ch'.initiator = ch.initiator
    BY <1>0, <1>5, Zenon DEF RecordCompleted, Types, Peers
  <2>3. req = <<>> /\ InFlight(net) = {} /\ ~ResponderHas /\ DOMAIN req = {}
    BY <1>0, <1>5 DEF MutualInv
  <2>4. ~IsAccepted(ch'.initiator.state.Status)
    BY <1>5, <2>2, MissingStatus, Zenon DEF Missing
  <2>5. MutualInv'
    BY <2>1, <2>2, <2>3, <2>4, Zenon DEF MutualInv, StatusOf
  <2> QED
    BY <1>0, <2>1, <2>5, StepTypes, Zenon DEF Inv, Step, RequestStep
<1> QED
  BY <1>0, <1>1, <1>2, <1>3, <1>4, <1>5, Idle, Zenon

\* The invariant holds in every reachable state.
LEMMA Invariance == Spec => []Inv
<1>1. Inv /\ [Next]_vars => Inv'
  BY NextInv, Zenon
<1> QED
  BY InitInv, <1>1, PTL DEF Spec

-----------------------------------------------------------------------------
(* Theorems *)

\* Every variable keeps its type, whatever the two managers, their users, the
\* network and graphsync do.
THEOREM TypeCorrect == Spec => []TypeOK
<1>1. Inv => TypeOK
  <2> SUFFICES ASSUME Types PROVE TypeOK
    BY Zenon DEF Inv
  <2>1. \A p \in Peers : ch[p] = NoChannel \/ (ch[p].state \in ChannelState /\ ch[p].owed \in Nat)
    BY Zenon DEF Types, Channel
  <2>2. \A k \in DOMAIN req : req[k] \in GsRequest
    BY DEF Types
  <2>3. \A k \in DOMAIN req :
          /\ req[k].msg \in Messages /\ req[k].reply \in Messages \cup {NoMessage}
          /\ req[k].client \in {"open", "cancelling", "cancelled", "over"}
          /\ req[k].server \in {"sent", "open", "cancelled", "over"}
          /\ req[k].outcome \in {"none", "full", "failed"}
          /\ req[k].known \subseteq Peers /\ req[k].begun \subseteq Peers
    BY <2>2, Zenon DEF GsRequest
  <2> QED
    BY <2>1, <2>3, Zenon DEF Types, TypeOK
<1> QED
  BY Invariance, <1>1, PTL

\* An initiator takes its channel for accepted only when the responder has the
\* channel: no order of responses, restarts, cancels and graphsync answers makes
\* OnResponseReceived record an acceptance that receiveNewRequest did not give.
THEOREM AcceptanceIsMutual == Spec => []AcceptedIsMutual
<1>1. Inv => AcceptedIsMutual
  BY Zenon DEF Inv, MutualInv, AcceptedIsMutual, ResponderHas
<1> QED
  BY Invariance, <1>1, PTL

\* An open graphsync request that the receiver of the data maps to the channel is
\* the one its dtChannel holds, so that CloseChannel cancels it.
THEOREM HeldRequestIsOpenOne == Spec => []OpenRequestIsHeld
<1>1. Inv => OpenRequestIsHeld
  BY Zenon DEF Inv
<1> QED
  BY Invariance, <1>1, PTL

\* A channel in a cleanup status does not go back to its transfer, but by what
\* OnChannelCompleted of the responder records late and by a second Complete
\* response in Completing.
THEOREM CleanupEndsTransfer == Spec => CleanupIsLast
<1>1. Inv /\ [Next]_vars => Inv'
  BY NextInv, Zenon
<1>2. ASSUME Inv, [Next]_vars PROVE CleanupKept
  BY <1>2, NextInv, StepCleanup, Zenon DEF Inv
<1>3. CleanupKept <=>
        \A p \in Peers :
          /\ StatusOf(p) \in CleanupStates
          /\ ~(p = "responder" /\ job # "none" /\ job' = "none")
          /\ ~(p = "initiator" /\ StatusOf(p) = "Completing")
          => StatusOf(p)' \in CleanupStates \cup ChannelFinalityStates
  BY Zenon DEF CleanupKept
<1> QED
  BY InitInv, <1>1, <1>2, <1>3, PTL DEF Spec, CleanupIsLast

=============================================================================
