----------------------- MODULE TransferTogetherProofs -----------------------
(***************************************************************************)
(* CompletedTogether of TransferProtocol: the peers end a transfer that is *)
(* not restarted together.  The restarts are the one case in which they do *)
(* not, and TLC shows it.                                                  *)
(***************************************************************************)
EXTENDS TransferProtocolProofs

\* No restart so far, no message the responder took for failed, no crash.
Calm == spent \cap {"restarts", "doubts", "crashes"} = {}

\* The response that ends the transfer for the initiator.
IsFinal(m) == m.to = "initiator" /\ m.kind = "Complete" /\ m.accepted /\ ~m.paused

\* It was sent.
Told ==
  \/ StatusOf("initiator") \in Finished
  \/ \E m \in InFlight(net) : IsFinal(m)

\* The responder's end of a request is over.
EndIsOver(r) == IF pull THEN r.server \notin {"sent", "open"} ELSE r.client # "open"
EndOver == \A k \in DOMAIN req : EndIsOver(req[k])

\* The responder waits for nothing.
Ready ==
  /\ EndOver /\ job # "BeginFinalizing"
  /\ job = "Complete" \/ StatusOf("responder") \in Ended

\* The initiator has heard the answer of the responder, or never will.
AnswerDone(r) ==
  \/ pull /\ "initiator" \notin r.known
  \/ (r.server = "open" \/ r.outcome = "full") /\ r.reply = NoMessage

RestartKinds == {"Restart", "RestartExisting"}

\* One request is made, and nothing restarts it.
Once ==
  /\ Len(req) <= 1
  /\ \A m \in InFlight(net) : m.kind \notin RestartKinds
  /\ \A k \in DOMAIN req :
       /\ req[k].msg.kind = "New"
       /\ req[k].reply # NoMessage => pull /\ req[k].reply.kind = "New"
       /\ ~pull => req[k].msg.accepted

\* The initiator is told of the end only by a responder that has recorded it or
\* is about to; the responder tells of it when its end of the one request is over.
\* FinishTransfer completes a channel in AwaitingAcceptance as well, so the
\* initiator must have left that status by the end of the request.
Together ==
  /\ Once
  /\ Fit(ch.initiator)
  /\ \A k \in DOMAIN req : AnswerDone(req[k]) => StatusOf("initiator") \notin Early
  /\ job # "none" => ResponderHas /\ StatusOf("responder") \notin Finished
  /\ job # "none" \/ StatusOf("responder") \in Finished => EndOver
  /\ Told => Ready

TogetherInv == Calm => Together

-----------------------------------------------------------------------------
(* How a step changes the state, as far as this invariant goes *)

\* A request goes on, or is the first one.
RequestGoesOn(r, t) ==
  /\ t.reply # NoMessage => t.reply = r.reply \/ (pull /\ t.reply.kind = "New")
  /\ AnswerDone(t) => AnswerDone(r) \/ ch'.initiator.state.Status \notin Early

FirstRequest(t) ==
  /\ ~ResponderHas /\ ~AnswerDone(t) /\ t.reply = NoMessage
  /\ t.msg.kind = "New" /\ (~pull => t.msg.accepted)

RequestsGoOn ==
  /\ Len(req') <= 1
  /\ \A k \in DOMAIN req' :
       IF k \in DOMAIN req THEN RequestGoesOn(req[k], req'[k]) ELSE FirstRequest(req'[k])

\* No message restarts; one that ends the transfer comes from a responder that
\* is ready.
NetGoesOn(bag) ==
  \A m \in InFlight(bag) :
    m \in InFlight(net) \/ (m.kind \notin RestartKinds /\ (IsFinal(m) => Ready'))

\* The initiator finishes only if it was told.
FinishIsTold == ch'.initiator.state.Status \in Finished => Told

\* The responder starts to record the end when its end of the request is over.
JobStarts ==
  /\ job = "none" /\ job' # "none" /\ UNCHANGED ch
  /\ ResponderHas /\ ~EndOver /\ EndOver'

CalmStep ==
  /\ RequestsGoOn /\ NetGoesOn(net') /\ FinishIsTold
  /\ job' = job \/ JobStarts \/ RecordCompleted

\* What the responder records: a channel that ended, if it is there.
LEMMA RecordedEnds ==
  ASSUME NEW c \in Channel
  PROVE  FireIfLive(c, <<Event("Complete")>>).state.Status \in Ended
<1>1. CASE Gone(c)
  BY <1>1, NoChannelIsNone, Zenon DEF FireIfLive, Gone, Missing, IsChannelTerminated, Ended
<1>2. CASE ~Gone(c)
  <2> DEFINE e == Event("Complete")
             d == Effect(c, e)
  <2>1. e \in Events /\ e.code = "Complete"
    BY EventsSent, Zenon DEF Event, Events, EventCode
  <2>2. FireIfLive(c, <<e>>) = d /\ ~IsChannelTerminated(c.state.Status)
    BY <1>2, Fire1, Zenon DEF FireIfLive, Gone
  <2>3. c.state \in ChannelState /\ c.state.Status \in Status /\ d.state = Apply(c.state, e)
    BY Zenon DEF Channel, ChannelState, Effect
  <2>4. Destination("Complete", c.state.Status) = "Completing" /\ "Completing" \in Status
    BY Zenon DEF Destination, AfterFinishTransfer, ToFromAny, NoChangeCodes, RecordCodes, ErrorCodes, Status
  <2>5. Apply(c.state, e).Status = "Completing"
    <3> HIDE DEF e
    <3> QED
      BY <2>1, <2>2, <2>3, <2>4, ApplyType, Zenon
  <2> QED
    BY <2>2, <2>3, <2>5, Zenon DEF Ended, CleanupStates
<1> QED
  BY <1>1, <1>2, Zenon

\* Once the responder has a channel its end of the requests stays over.
LEMMA EndStays ==
  ASSUME Before, Step, RequestsGoOn, ResponderHas, EndOver
  PROVE  EndOver'
<1>1. pull' = pull
  BY Zenon DEF Step
<1>2. ASSUME NEW k \in DOMAIN req'
      PROVE  EndIsOver(req'[k])
  <2>1. k \in DOMAIN req
    BY <1>2, Zenon DEF RequestsGoOn, FirstRequest
  <2>2. EndIsOver(req[k])
    BY <2>1, Zenon DEF EndOver
  <2>3. RequestKept(req[k], req'[k])
    <3>1. k # Len(req) + 1
      BY <2>1 DEF Before, Types
    <3> QED
      BY <1>2, <3>1, Zenon DEF Step, RequestStep
  <2> QED
    BY <2>2, <2>3, Zenon DEF RequestKept, EndIsOver
<1> QED
  BY <1>1, <1>2, Zenon DEF EndOver, EndIsOver

\* How the responder's channel and what it is about to record change together.
LEMMA ResponderGoesOn ==
  ASSUME Before, Step, Together, CalmStep
  PROVE  /\ job' # "none" => ResponderHas' /\ StatusOf("responder")' \notin Finished
         /\ job' # "none" \/ StatusOf("responder")' \in Finished => EndOver'
         /\ Ready => Ready'
<1>1. ch.responder \in Channel \cup {NoChannel}
  BY Zenon DEF Before, Types, Peers
<1>2. ResponderMoves(ch.responder, ch'.responder, job # "none" /\ job' = "none")
  BY Zenon DEF Step, ChannelStep
<1>3. ~ResponderHas => StatusOf("responder") \notin Finished /\ StatusOf("responder") \notin Ended
  BY NoChannelIsNone, MissingStatus, Zenon DEF ResponderHas, Missing, StatusOf, Finished
<1>4. EndOver /\ ResponderHas => EndOver'
  BY EndStays, Zenon DEF CalmStep
<1>5. ResponderHas => ResponderHas'
  BY ChannelsStay, Zenon DEF Before, Step
<1>6. Ready => ResponderHas
  BY <1>3, Zenon DEF Ready, Together
<1>7. CASE job' = job
  <2>1. \/ Live(ch.responder, ch'.responder)
        \/ ~ResponderHas /\ ch'.responder.state.Status \notin Finished
    BY <1>2, <1>7, Zenon DEF ResponderMoves, ResponderHas
  <2>2. StatusOf("responder")' \in Finished => StatusOf("responder") \in Finished
    BY <2>1, Zenon DEF Live, Tamely, NoFinish, StatusOf
  <2>3. StatusOf("responder") \in Ended => StatusOf("responder")' \in Ended
    BY <1>3, <2>1, Zenon DEF Live, Tamely, EndsForGood, StatusOf
  <2>4. job' # "none" => ResponderHas' /\ StatusOf("responder")' \notin Finished
    BY <1>5, <1>7, <2>2, Zenon DEF Together
  <2>5. job' # "none" \/ StatusOf("responder")' \in Finished => EndOver'
    BY <1>3, <1>4, <1>7, <2>2, Zenon DEF Together
  <2>6. Ready => Ready'
    BY <1>4, <1>6, <1>7, <2>3, Zenon DEF Ready
  <2> QED
    BY <2>4, <2>5, <2>6, Zenon
<1>8. CASE JobStarts
  <2>1. StatusOf("responder")' = StatusOf("responder") /\ StatusOf("responder") \notin Finished
    BY <1>8, Zenon DEF JobStarts, StatusOf, Together
  <2>2. ~Ready
    BY <1>8, Zenon DEF JobStarts, Ready
  <2> QED
    BY <1>5, <1>8, <2>1, <2>2, Zenon DEF JobStarts
<1>9. CASE RecordCompleted
  <2>1. job # "none" /\ job' = "none" /\ ResponderHas /\ EndOver
    BY <1>9, Zenon DEF RecordCompleted, Together
  <2>2. ch.responder \in Channel
    BY <1>1, <2>1, LiveIsChannel, Zenon DEF ResponderHas
  <2>3. job = "Complete" => StatusOf("responder")' \in Ended
    <3>1. ch'.responder = FireIfLive(ch.responder, <<Event(job)>>)
      BY <1>9, Zenon DEF RecordCompleted, Before, Types, Peers
    <3> QED
      BY <2>2, <3>1, RecordedEnds, Zenon DEF StatusOf
  <2>4. Ready => job = "Complete"
    BY <2>1, Zenon DEF Ready, Before, Types
  <2> QED
    BY <1>4, <2>1, <2>3, <2>4, Zenon DEF Ready
<1> QED
  BY <1>7, <1>8, <1>9, Zenon DEF CalmStep

\* A step of this kind keeps the invariant.
LEMMA StepTogether ==
  ASSUME Before, Step, Together, CalmStep
  PROVE  Together'
<1>0. /\ Types /\ pull' = pull /\ DOMAIN req = 1 .. Len(req) /\ Len(req) \in Nat
      /\ \A k \in DOMAIN req' : k \in DOMAIN req => RequestKept(req[k], req'[k])
  <2>1. Types /\ pull' = pull
    BY Zenon DEF Before, Step
  <2>2. DOMAIN req = 1 .. Len(req) /\ Len(req) \in Nat
    BY <2>1 DEF Types
  <2>3. \A k \in DOMAIN req : k # Len(req) + 1
    BY <2>2
  <2> QED
    BY <2>1, <2>2, <2>3, Zenon DEF Step, RequestStep
<1>1. Onward(ch.initiator, ch'.initiator)
  <2>1. InitiatorMoves(ch.initiator, ch'.initiator, ResponderHas) /\ ~Missing(ch.initiator)
    BY Zenon DEF Before, Step, ChannelStep
  <2> QED
    BY <2>1, Composed, Zenon DEF InitiatorMoves, Live, Tamely
<1>2. Once'
  <2>1. Len(req') <= 1 /\ \A m \in InFlight(net') : m.kind \notin RestartKinds
    BY Zenon DEF CalmStep, RequestsGoOn, NetGoesOn, Together, Once
  <2>2. ASSUME NEW k \in DOMAIN req'
        PROVE  /\ req'[k].msg.kind = "New"
               /\ req'[k].reply # NoMessage => pull /\ req'[k].reply.kind = "New"
               /\ ~pull => req'[k].msg.accepted
    <3>1. CASE k \in DOMAIN req
      <4>1. RequestGoesOn(req[k], req'[k]) /\ req'[k].msg = req[k].msg
        BY <1>0, <2>2, <3>1, Zenon DEF CalmStep, RequestsGoOn, RequestKept
      <4>2. /\ req[k].msg.kind = "New"
            /\ req[k].reply # NoMessage => pull /\ req[k].reply.kind = "New"
            /\ ~pull => req[k].msg.accepted
        BY <3>1, Zenon DEF Together, Once
      <4> QED
        BY <4>1, <4>2, Zenon DEF RequestGoesOn
    <3>2. CASE k \notin DOMAIN req
      BY <2>2, <3>2, Zenon DEF CalmStep, RequestsGoOn, FirstRequest
    <3> QED
      BY <3>1, <3>2, Zenon
  <2> QED
    BY <1>0, <2>1, <2>2, Zenon DEF Once
<1>3. Fit(ch.initiator)'
  BY <1>1, Zenon DEF Together, Onward, Fit
<1>4. ASSUME NEW k \in DOMAIN req', AnswerDone(req'[k])
      PROVE  ch'.initiator.state.Status \notin Early
  <2>1. CASE k \in DOMAIN req
    <3>1. RequestGoesOn(req[k], req'[k])
      BY <1>4, <2>1, Zenon DEF CalmStep, RequestsGoOn
    <3>2. AnswerDone(req[k]) => ch.initiator.state.Status \notin Early
      BY <2>1, Zenon DEF Together, StatusOf
    <3> QED
      BY <1>1, <1>4, <3>1, <3>2, Zenon DEF RequestGoesOn, Onward, StaysLate
  <2>2. CASE k \notin DOMAIN req
    BY <1>4, <2>2, Zenon DEF CalmStep, RequestsGoOn, FirstRequest
  <2> QED
    BY <2>1, <2>2, Zenon
<1>5. (\A k \in DOMAIN req : AnswerDone(req[k]) => StatusOf("initiator") \notin Early)'
  BY <1>0, <1>4, Zenon DEF AnswerDone, StatusOf
<1>6. Told' => Ready'
  <2>1. Told => Ready'
    BY ResponderGoesOn, Zenon DEF Together
  <2>2. StatusOf("initiator")' \in Finished => Told
    BY Zenon DEF CalmStep, FinishIsTold, StatusOf
  <2>3. \A m \in InFlight(net') : IsFinal(m) => Told \/ Ready'
    BY Zenon DEF CalmStep, NetGoesOn, Told
  <2> QED
    BY <2>1, <2>2, <2>3, Zenon DEF Told, IsFinal
<1> QED
  BY <1>2, <1>3, <1>5, <1>6, ResponderGoesOn, Zenon DEF Together
-----------------------------------------------------------------------------
(* Requests, messages and the initiator's channel *)

\* What holds before a step that keeps the calm.
CalmBefore == Before /\ Together /\ Calm /\ Calm'

\* A request that changes nothing of this.
LEMMA Unmoved ==
  ASSUME NEW r
  PROVE  RequestGoesOn(r, r)
BY Zenon DEF RequestGoesOn

\* The requests change, each as it may.
LEMMA RequestsAlike ==
  ASSUME CalmBefore, DOMAIN req' = DOMAIN req, Len(req') = Len(req),
         \A k \in DOMAIN req : RequestGoesOn(req[k], req'[k])
  PROVE  RequestsGoOn
BY Zenon DEF RequestsGoOn, CalmBefore, Together, Once

\* No request changes.
LEMMA RequestsRest ==
  ASSUME CalmBefore, UNCHANGED req
  PROVE  RequestsGoOn
BY Unmoved, Zenon DEF RequestsGoOn, CalmBefore, Together, Once

\* One request changes.
LEMMA OneRequest ==
  ASSUME CalmBefore, NEW k \in DOMAIN req, NEW t, req' = [req EXCEPT ![k] = t],
         RequestGoesOn(req[k], t)
  PROVE  RequestsGoOn
<1>1. DOMAIN req' = DOMAIN req /\ Len(req') = Len(req)
  BY DEF CalmBefore, Before, Types
<1>2. \A j \in DOMAIN req : req'[j] = IF j = k THEN t ELSE req[j]
  BY Zenon DEF CalmBefore, Before, Types
<1>3. \A j \in DOMAIN req : RequestGoesOn(req[j], req'[j])
  BY <1>2, Unmoved, Zenon
<1> QED
  BY <1>1, <1>3, RequestsAlike, Zenon

\* A request of which only the ends change, and which does not begin to be served.
LEMMA EndsOnly ==
  ASSUME NEW r, NEW t, t.reply = r.reply, t.known = r.known,
         t.server = "open" => r.server = "open",
         t.outcome = "full" => r.outcome = "full" \/ r.server = "open"
  PROVE  RequestGoesOn(r, t)
BY Zenon DEF RequestGoesOn, AnswerDone

\* transport.CloseChannel.
LEMMA RequestsClose ==
  ASSUME CalmBefore, NEW p \in Peers, CloseTransport(p)
  PROVE  RequestsGoOn
<1>1. req' = Cancelled(req, p) /\ Types
  BY Zenon DEF CloseTransport, CalmBefore, Before
<1>2. req' \in Seq(GsRequest) /\ Len(req') = Len(req)
  BY <1>1, CancelledIs, Zenon
<1>3. DOMAIN req' = DOMAIN req
  BY <1>1, <1>2 DEF Types
<1>4. \A k \in DOMAIN req :
        /\ req'[k].reply = req[k].reply /\ req'[k].outcome = req[k].outcome
        /\ req'[k].known = req[k].known
        /\ req'[k].server = req[k].server \/ req'[k].server = "cancelled"
  BY <1>1, CancelledIs
<1>5. \A k \in DOMAIN req : RequestGoesOn(req[k], req'[k])
  BY <1>4, Zenon DEF RequestGoesOn, AnswerDone
<1> QED
  BY <1>2, <1>3, <1>5, RequestsAlike, Zenon

\* transport.CleanupChannel: the initiator has its answer before it cleans up.
LEMMA RequestsClean ==
  ASSUME CalmBefore, NEW p \in Peers, CleanupTransport(p),
         p = "initiator" => ch'.initiator.state.Status \notin Early
  PROVE  RequestsGoOn
<1>1. Types /\ req' = [k \in DOMAIN req |-> [req[k] EXCEPT !.known = @ \ {p}]]
  BY Zenon DEF CleanupTransport, Unknown, CalmBefore, Before
<1>2. DOMAIN req' = DOMAIN req
  BY <1>1, Zenon
<1>3. Len(req') = Len(req)
  BY <1>1 DEF Types
<1>4. ASSUME NEW k \in DOMAIN req
      PROVE  RequestGoesOn(req[k], req'[k])
  <2> DEFINE t == [req[k] EXCEPT !.known = @ \ {p}]
  <2>1. req'[k] = t /\ req[k] \in GsRequest
    BY <1>1, RequestAt, Zenon
  <2>2. /\ t.reply = req[k].reply /\ t.outcome = req[k].outcome /\ t.server = req[k].server
        /\ t.known = req[k].known \ {p}
    BY <2>1, Zenon DEF GsRequest
  <2> QED
    BY <2>1, <2>2, Zenon DEF RequestGoesOn, AnswerDone
<1> QED
  BY <1>2, <1>3, <1>4, RequestsAlike, Zenon

\* transport.OpenChannel, for a new channel.
LEMMA RequestsBegin ==
  ASSUME CalmBefore \/ (Types /\ Missing(ch.initiator)), NEW m, OpenTransport(m),
         req = <<>>, ~ResponderHas, m.kind = "New", ~pull => m.accepted
  PROVE  RequestsGoOn
<1> DEFINE r == NewRequest(m)
<1>1. Types
  BY Zenon DEF CalmBefore, Before
<1>2. Cancelled(req, Receiver) = req
  <2>1. Len(req) = 0
    OBVIOUS
  <2>2. cur[Receiver] \in 0 .. Len(req)
    BY <1>1, Ends, Zenon DEF Types
  <2>3. cur[Receiver] = 0
    BY <2>1, <2>2
  <2> QED
    BY <2>3, Zenon DEF Cancelled
<1>3. req' = Append(<<>>, r)
  BY <1>2, Zenon DEF OpenTransport
<1>4. /\ r.reply = NoMessage /\ r.msg = m /\ r.server = "sent" /\ r.outcome = "none"
      /\ r.known = {Receiver}
  BY Zenon DEF NewRequest
<1> HIDE DEF r
<1>5. Len(req') <= 1 /\ \A k \in DOMAIN req' : req'[k] = r
  BY <1>3
<1>6. DOMAIN req = {}
  OBVIOUS
<1>7. pull => Receiver = "initiator"
  BY Zenon DEF Receiver
<1>8. FirstRequest(r)
  BY <1>4, <1>7, Zenon DEF FirstRequest, AnswerDone
<1> QED
  BY <1>5, <1>6, <1>8, Zenon DEF RequestsGoOn

\* A message that restarts nothing and ends nothing.
Harmless(m) == m.kind \notin RestartKinds /\ ~IsFinal(m)

\* The network goes on.
LEMMA NetGoes ==
  ASSUME CalmBefore
  PROVE  /\ NetGoesOn(net)
         /\ \A m : NetGoesOn(Taken(m))
         /\ \A how, m : Harmless(m) => NetGoesOn(Posted(net, how, m))
         /\ \A how, m, x : Harmless(m) => NetGoesOn(Posted(Taken(x), how, m))
<1>1. IsBag(net)
  BY Zenon DEF CalmBefore, Before, Types
<1>2. \A m : IsBag(Taken(m)) /\ InFlight(Taken(m)) \subseteq InFlight(net)
  BY <1>1, BagTaken, Zenon
<1>3. \A b, how, m : IsBag(b) => InFlight(Posted(b, how, m)) \subseteq InFlight(b) \cup {m}
  BY BagSteps
<1>4. \A b : InFlight(b) \subseteq InFlight(net) => NetGoesOn(b)
  BY Zenon DEF NetGoesOn
<1>5. \A b, m : InFlight(b) \subseteq InFlight(net) \cup {m} /\ Harmless(m) => NetGoesOn(b)
  BY Zenon DEF NetGoesOn, Harmless
<1>6. \A how, m : Harmless(m) => NetGoesOn(Posted(net, how, m))
  BY <1>1, <1>3, <1>5, Zenon
<1>7. ASSUME NEW how, NEW m, NEW x, Harmless(m)
      PROVE  NetGoesOn(Posted(Taken(x), how, m))
  <2>1. InFlight(Posted(Taken(x), how, m)) \subseteq InFlight(Taken(x)) \cup {m}
    BY <1>2, <1>3, Zenon
  <2>2. InFlight(Posted(Taken(x), how, m)) \subseteq InFlight(net) \cup {m}
    BY <1>2, <2>1, Zenon
  <2> QED
    BY <1>5, <1>7, <2>2, Zenon
<1> QED
  BY <1>2, <1>4, <1>6, <1>7, Zenon

\* A channel that does not finish does not break this.
LEMMA Unfinished ==
  ASSUME NoFinish(ch.initiator, ch'.initiator)
  PROVE  FinishIsTold
BY Zenon DEF NoFinish, FinishIsTold, Told, StatusOf

\* One channel gets tame events, or none.
LEMMA OneQuiet ==
  ASSUME Types, NEW p \in Peers, NEW d, ch' = [ch EXCEPT ![p] = d],
         p = "responder" \/ Live(ch[p], d)
  PROVE  FinishIsTold
<1>1. ch'.initiator = IF p = "initiator" THEN d ELSE ch.initiator
  BY Zenon DEF Types, Peers
<1>2. NoFinish(ch.initiator, ch'.initiator)
  BY <1>1, Composed, Zenon DEF Live, Tamely, Peers
<1> QED
  BY <1>2, Unfinished, Zenon

\* One channel gets one tame event.
LEMMA TameQuiet ==
  ASSUME Types, NEW p \in Peers, NEW code \in TameCodes,
         ch' = [ch EXCEPT ![p] = FireIfLive(@, <<Event(code)>>)]
  PROVE  FinishIsTold
<1>1. ch[p] \in Channel \cup {NoChannel}
  BY Zenon DEF Types
<1>2. Live(ch[p], FireIfLive(ch[p], <<Event(code)>>))
  BY <1>1, TameOne, TameIsLive, Zenon
<1>3. ch' = [ch EXCEPT ![p] = FireIfLive(ch[p], <<Event(code)>>)]
  BY Zenon
<1> QED
  BY <1>2, <1>3, OneQuiet, Zenon

\* No channel changes.
LEMMA NoneFinishes ==
  ASSUME UNCHANGED ch
  PROVE  FinishIsTold
BY Zenon DEF FinishIsTold, Told, StatusOf

\* What a step that keeps the calm is not disturbed by.
LEMMA Undisturbed ==
  ASSUME CalmBefore, NEW kinds, Pay(kinds)
  PROVE  kinds \cap {"restarts", "doubts", "crashes"} = {}
BY Zenon DEF Pay, CalmBefore, Calm
\* One channel that is there gets tame events.
LEMMA LiveQuiet ==
  ASSUME Types, NEW p \in Peers, ~Missing(ch[p]), NEW s, Short(s, Tame),
         ch' = [ch EXCEPT ![p] = Fire(@, s)]
  PROVE  FinishIsTold
<1>1. ch[p] \in Channel
  BY LiveIsChannel, Zenon DEF Types
<1>2. Short(s, Events)
  BY ShortIn, EventsSent, Zenon
<1>3. Live(ch[p], Fire(ch[p], s))
  BY <1>1, <1>2, FireShort, Zenon DEF Live
<1>4. ch' = [ch EXCEPT ![p] = Fire(ch[p], s)]
  BY Zenon
<1> QED
  BY <1>3, <1>4, OneQuiet, Zenon

-----------------------------------------------------------------------------
(* The actions, one by one *)

\* Either end of a request reports the start.
LEMMA TransferInitiatedCalm ==
  ASSUME CalmBefore, NEW k \in DOMAIN req, NEW p \in Peers, TransferInitiated(k, p)
  PROVE  CalmStep
<1> DEFINE t == [req[k] EXCEPT !.begun = @ \cup {p}]
<1>0. Types
  BY Zenon DEF CalmBefore, Before
<1>1. req[k] \in GsRequest
  BY <1>0, RequestAt, Zenon
<1>2. req' = [req EXCEPT ![k] = t] /\ UNCHANGED <<net, job>>
  BY <1>0, <1>1, Zenon DEF TransferInitiated, Types
<1>3. /\ t.reply = req[k].reply /\ t.known = req[k].known /\ t.server = req[k].server
      /\ t.outcome = req[k].outcome
  BY <1>1, Zenon DEF GsRequest
<1> HIDE DEF t
<1>4. RequestsGoOn
  BY <1>2, <1>3, EndsOnly, OneRequest, Zenon
<1>5. FinishIsTold
  BY <1>0, EventsSent, TameQuiet, Zenon DEF TransferInitiated
<1> QED
  BY <1>2, <1>4, <1>5, NetGoes, Zenon DEF CalmStep

\* The receiver of the data cancelled a request.
LEMMA RequestCancelledCalm ==
  ASSUME CalmBefore, NEW k \in DOMAIN req, RequestCancelled(k)
  PROVE  CalmStep
<1> DEFINE t == [req[k] EXCEPT !.client = "cancelled"]
<1>0. Types
  BY Zenon DEF CalmBefore, Before
<1>1. req[k] \in GsRequest
  BY <1>0, RequestAt, Zenon
<1>2. req' = [req EXCEPT ![k] = t] /\ UNCHANGED <<net, job>>
  BY <1>0, <1>1, Zenon DEF RequestCancelled, Types
<1>3. /\ t.reply = req[k].reply /\ t.known = req[k].known /\ t.server = req[k].server
      /\ t.outcome = req[k].outcome
  BY <1>1, Zenon DEF GsRequest
<1> HIDE DEF t
<1>4. RequestsGoOn
  BY <1>2, <1>3, EndsOnly, OneRequest, Zenon
<1>5. "RequestCancelled" \in TameCodes /\ Receiver \in Peers
  BY <1>0, EventsSent, Ends, Zenon
<1>6. FinishIsTold
  BY <1>0, <1>5, TameQuiet, Zenon DEF RequestCancelled
<1> QED
  BY <1>2, <1>4, <1>6, NetGoes, Zenon DEF CalmStep

\* One end of a request learns that the other cancelled it.
LEMMA SeeCancelledCalm ==
  ASSUME CalmBefore, NEW k \in DOMAIN req, SeeCancelled(k)
  PROVE  CalmStep
<1> DEFINE t == [req[k] EXCEPT !.server = "over"]
           u == [req[k] EXCEPT !.client = "over"]
<1>0. Types
  BY Zenon DEF CalmBefore, Before
<1>1. req[k] \in GsRequest
  BY <1>0, RequestAt, Zenon
<1>2. /\ req' = [req EXCEPT ![k] = t] \/ req' = [req EXCEPT ![k] = u]
      /\ UNCHANGED <<ch, net, job>>
  BY <1>0, <1>1, Zenon DEF SeeCancelled, Types
<1>3. /\ t.reply = req[k].reply /\ t.known = req[k].known /\ t.server = "over"
      /\ t.outcome = req[k].outcome
      /\ u.reply = req[k].reply /\ u.known = req[k].known /\ u.server = req[k].server
      /\ u.outcome = req[k].outcome
  BY <1>1, Zenon DEF GsRequest
<1> HIDE DEF t, u
<1>4. RequestGoesOn(req[k], t) /\ RequestGoesOn(req[k], u)
  BY <1>3, EndsOnly, Zenon
<1>5. RequestsGoOn
  BY <1>2, <1>4, OneRequest, Zenon
<1> QED
  BY <1>2, <1>5, NoneFinishes, NetGoes, Zenon DEF CalmStep

\* The responder records what its message announced.
LEMMA RecordCompletedCalm ==
  ASSUME CalmBefore, RecordCompleted
  PROVE  CalmStep
<1>1. Types /\ UNCHANGED <<req, net>>
  BY Zenon DEF CalmBefore, Before, RecordCompleted
<1>2. FinishIsTold
  BY <1>1, OneQuiet, Zenon DEF RecordCompleted, Peers
<1> QED
  BY <1>1, <1>2, RequestsRest, NetGoes, Zenon DEF CalmStep

\* A message is lost.
LEMMA LoseCalm ==
  ASSUME CalmBefore, NEW m, Lose(m)
  PROVE  CalmStep
<1>1. UNCHANGED <<ch, req, job>> /\ net' = Taken(m)
  BY Zenon DEF Lose
<1> QED
  BY <1>1, RequestsRest, NoneFinishes, NetGoes, Zenon DEF CalmStep

\* The responder is told that the initiator cancelled.
LEMMA ReceiveCancelRequestCalm ==
  ASSUME CalmBefore, NEW m, ReceiveCancelRequest(m)
  PROVE  CalmStep
<1>1. Types /\ job' = job /\ net' = Taken(m) /\ CleanupTransport("responder")
  BY Zenon DEF CalmBefore, Before, ReceiveCancelRequest
<1>2. RequestsGoOn
  BY <1>1, RequestsClean, Zenon DEF Peers
<1>3. FinishIsTold
  BY <1>1, OneQuiet, Zenon DEF ReceiveCancelRequest, Peers
<1> QED
  BY <1>1, <1>2, <1>3, NetGoes, Zenon DEF CalmStep

\* The responder gets a voucher.
LEMMA ReceiveVoucherRequestCalm ==
  ASSUME CalmBefore, NEW m, ReceiveVoucherRequest(m)
  PROVE  CalmStep
<1>1. /\ Types /\ job' = job /\ net' = Taken(m)
      /\ CloseTransport("responder") \/ UNCHANGED req
  BY Zenon DEF CalmBefore, Before, ReceiveVoucherRequest
<1>2. RequestsGoOn
  BY <1>1, RequestsClose, RequestsRest, Zenon DEF Peers
<1>3. FinishIsTold
  BY <1>1, OneQuiet, Zenon DEF ReceiveVoucherRequest, Peers
<1> QED
  BY <1>1, <1>2, <1>3, NetGoes, Zenon DEF CalmStep

\* The messages that restart nothing and end nothing.
LEMMA HarmlessSent ==
  /\ \A kind \in {"Voucher", "Cancel", "New"} : Harmless(Request(kind))
  /\ \A kind \in {"Cancel", "New", "VoucherResult"} : \A accepted, paused :
       Harmless(Response(kind, accepted, paused))
  /\ \A p : Harmless(CancelMessage(p))
<1>1. \A kind \in {"Voucher", "Cancel", "New"} : Harmless(Request(kind))
  BY Zenon DEF Harmless, Request, IsFinal, RestartKinds
<1>2. \A kind \in {"Cancel", "New", "VoucherResult"} : \A accepted, paused :
        Harmless(Response(kind, accepted, paused))
  BY Zenon DEF Harmless, Response, IsFinal, RestartKinds
<1> QED
  BY <1>1, <1>2, Zenon DEF CancelMessage

\* A user closes the channel.
LEMMA CloseDataTransferChannelCalm ==
  ASSUME CalmBefore, NEW p \in Peers, NEW code \in {"Cancel", "Error"}, NEW how,
         CloseDataTransferChannel(p, code, how)
  PROVE  CalmStep
<1> DEFINE s == <<Event(code)>> \o IF code = "Cancel" /\ how # "sent"
                                   THEN <<Event("Disconnected")>> ELSE <<>>
<1>0. /\ Types /\ UNCHANGED <<job>> /\ ~Missing(ch[p]) /\ CloseTransport(p)
      /\ net' = Posted(net, how, CancelMessage(p)) /\ ch' = [ch EXCEPT ![p] = Fire(@, s)]
  BY Zenon DEF CalmBefore, Before, CloseDataTransferChannel, Gone
<1>1. Short(s, Tame)
  <2> DEFINE a == Event(code)
             b == Event("Disconnected")
  <2>1. a \in Tame /\ b \in Tame
    BY EventsSent, Zenon
  <2>2. s = <<a>> \o <<b>> \/ s = <<a>> \o <<>>
    BY Zenon
  <2> HIDE DEF a, b, s
  <2>3. s = <<a, b>> \/ s = <<a>>
    BY <2>2, Joined0, Joined2, Zenon
  <2> QED
    BY <2>1, <2>3, Zenon DEF Short
<1> HIDE DEF s
<1>2. FinishIsTold
  BY <1>0, <1>1, LiveQuiet, Zenon
<1> QED
  BY <1>0, <1>2, RequestsClose, HarmlessSent, NetGoes, Zenon DEF CalmStep

\* The initiator sends the final voucher.
LEMMA SendVoucherCalm ==
  ASSUME CalmBefore, NEW how, SendVoucher(how)
  PROVE  CalmStep
<1> DEFINE code == IF how = "sent" THEN "NewVoucher" ELSE "Disconnected"
<1>0. /\ Types /\ UNCHANGED <<req, job>> /\ ~Missing(ch.initiator)
      /\ net' = Posted(net, how, Request("Voucher"))
      /\ ch' = [ch EXCEPT !.initiator = Fire(@, <<Event(code)>>)]
  BY Zenon DEF CalmBefore, Before, SendVoucher
<1>1. code \in TameCodes
  BY EventsSent, Zenon
<1> HIDE DEF code
<1>2. FinishIsTold
  BY <1>0, <1>1, TameOne, LiveQuiet, Zenon DEF Peers
<1> QED
  BY <1>0, <1>2, RequestsRest, HarmlessSent, NetGoes, Zenon DEF CalmStep

\* OnChannelCompleted with an error.
LEMMA CompletedWithErrorQuiet ==
  ASSUME Types, NEW p \in Peers, CompletedWithError(p)
  PROVE  FinishIsTold
<1> DEFINE d == IF ch[p].state.Status = "Failing" THEN ch[p] ELSE FireIfLive(ch[p], <<Event("Error")>>)
<1>1. ch' = [ch EXCEPT ![p] = d]
  BY Zenon DEF CompletedWithError
<1>2. ch[p] \in Channel \cup {NoChannel} /\ "Error" \in TameCodes
  BY EventsSent, Zenon DEF Types
<1>3. Live(ch[p], FireIfLive(ch[p], <<Event("Error")>>))
  BY <1>2, TameOne, TameIsLive, Zenon
<1>4. Live(ch[p], d)
  BY <1>3, Zenon DEF Live
<1> HIDE DEF d
<1> QED
  BY <1>1, <1>4, OneQuiet, Zenon

\* The sender of the data fails to serve a request.
LEMMA ResponseFailedCalm ==
  ASSUME CalmBefore, NEW k \in DOMAIN req, ResponseFailed(k)
  PROVE  CalmStep
<1> DEFINE t == [req[k] EXCEPT !.server = "over", !.outcome = "failed"]
<1>0. Types
  BY Zenon DEF CalmBefore, Before
<1>1. req[k] \in GsRequest
  BY <1>0, RequestAt, Zenon
<1>2. /\ req' = [req EXCEPT ![k] = t] /\ UNCHANGED <<net, job>>
      /\ CompletedWithError(Sender) \/ UNCHANGED ch
  BY <1>0, <1>1, Zenon DEF ResponseFailed, CompletedWithError, Types
<1>3. /\ t.reply = req[k].reply /\ t.known = req[k].known /\ t.server = "over"
      /\ t.outcome = "failed"
  BY <1>1, Zenon DEF GsRequest
<1> HIDE DEF t
<1>4. RequestsGoOn
  BY <1>2, <1>3, EndsOnly, OneRequest, Zenon
<1>5. FinishIsTold
  BY <1>0, <1>2, Ends, CompletedWithErrorQuiet, NoneFinishes, Zenon
<1> QED
  BY <1>2, <1>4, <1>5, NetGoes, Zenon DEF CalmStep

\* A peer cleans a channel up: one that owes a cleanup is past the answer.
LEMMA CleanupConnectionCalm ==
  ASSUME CalmBefore, NEW p \in Peers, CleanupConnection(p)
  PROVE  CalmStep
<1> DEFINE c == ch[p]
           b == [c EXCEPT !.owed = @ - 1]
           d == Effect(b, Event("CleanupComplete"))
<1>0. /\ Types /\ UNCHANGED <<net, job>> /\ c.owed > 0 /\ CleanupTransport(p)
      /\ ch' = [ch EXCEPT ![p] = d] /\ Fit(ch.initiator)
  BY Zenon DEF CalmBefore, Before, Together, CleanupConnection
<1>1. c \in Channel
  <2>1. c \in Channel \cup {NoChannel}
    BY <1>0, Zenon DEF Types
  <2> QED
    BY <1>0, <2>1, NoChannelIsNone
<1>2. p = "initiator" => c.state.Status \notin Early
  BY <1>0, Zenon DEF Fit
<1>3. p = "initiator" => ch'.initiator = d
  BY <1>0, Zenon DEF Types, Peers
<1> HIDE DEF c
<1>4. b \in Channel /\ b.state = c.state
  BY <1>0, <1>1 DEF Channel
<1>5. Event("CleanupComplete") \in Events /\ Event("CleanupComplete").code \in TameCodes
  <2>1. Event("CleanupComplete") \in Tame
    BY EventsSent, Zenon
  <2> QED
    BY <2>1, Zenon DEF Tame
<1> HIDE DEF b
<1>6. d \in Channel /\ Tamely(b, d)
  BY <1>4, <1>5, EffectOf, Zenon
<1> HIDE DEF d
<1>7. NoFinish(c, d) /\ StaysLate(c, d)
  BY <1>4, <1>6, Zenon DEF Tamely, Onward, StaysLate, NoFinish
<1>8. FinishIsTold
  <2>1. ch'.initiator = IF p = "initiator" THEN d ELSE ch.initiator
    BY <1>0, Zenon DEF Types, Peers
  <2>2. NoFinish(ch.initiator, ch'.initiator)
    BY <1>7, <2>1, Composed, Zenon DEF Peers, c
  <2> QED
    BY <2>2, Unfinished, Zenon
<1>9. RequestsGoOn
  BY <1>0, <1>2, <1>3, <1>7, RequestsClean, Zenon DEF StaysLate
<1> QED
  BY <1>0, <1>8, <1>9, NetGoes, Zenon DEF CalmStep

\* What is not calm: restarts, the messages of restarts, and crashes.
LEMMA NoneRestarts ==
  ASSUME CalmBefore
  PROVE  /\ \A p, accept, how : ~RestartDataTransferChannel(p, accept, how)
         /\ \A m, how : ~ReceiveRestartExisting(m, how)
         /\ \A p : ~Crash(p)
<1>1. ASSUME NEW p, NEW accept, NEW how, RestartDataTransferChannel(p, accept, how)
      PROVE  FALSE
  <2> DEFINE kinds == {"restarts"} \cup Failure(how) \cup IF accept THEN {} ELSE {"rejects"}
  <2>1. Pay(kinds) /\ "restarts" \in kinds
    BY <1>1, Zenon DEF RestartDataTransferChannel
  <2> HIDE DEF kinds
  <2> QED
    BY <2>1, Undisturbed, Zenon
<1>2. ASSUME NEW m, NEW how, ReceiveRestartExisting(m, how)
      PROVE  FALSE
  BY <1>2, Zenon DEF ReceiveRestartExisting, Arrives, CalmBefore, Together, Once, RestartKinds
<1>3. ASSUME NEW p, Crash(p)
      PROVE  FALSE
  <2>1. Pay({"crashes"})
    BY <1>3, Zenon DEF Crash
  <2> QED
    BY <2>1, Undisturbed, Zenon
<1> QED
  BY <1>1, <1>2, <1>3, Zenon
-----------------------------------------------------------------------------
(* The answer of the responder, and the end *)

\* The events the initiator gets from a response, all quiet unless it is final.
LEMMA ResponseQuiet ==
  ASSUME NEW m \in Messages
  PROVE  ~(m.kind = "Complete" /\ m.accepted /\ ~m.paused) => Short(ResponseEvents(m), Quiet)
<1> DEFINE v == Event("NewVoucherResult")
           x == Event("Error")
           k == Event("Cancel")
           c == Event("ResponderCompletes")
           p == Event(IF m.paused THEN "PauseResponder" ELSE "ResumeResponder")
           a == Event("Accept")
           r == Event("Restart")
           f == Event("ResponderBeginsFinalization")
           y == CASE m.kind = "New" -> <<a>>
                  [] m.kind = "Restart" -> <<r>>
                  [] m.kind = "Complete" -> <<f>>
                  [] OTHER -> <<>>
           z == IF ~m.accepted THEN <<x>>
                ELSE IF m.kind = "Complete" /\ ~m.paused THEN <<c>> ELSE y \o <<p>>
           w == IF m.voucher THEN <<v>> ELSE <<>>
<1>1. {v, x, k, p, r, a, f} \subseteq Quiet
  <2>1. \A code \in QuietCodes : Event(code) \in Quiet
    BY EventsSent, Zenon DEF Quiet, QuietCodes, InitiatorCodes, Event, Events
  <2>2. {"NewVoucherResult", "Error", "Cancel", "PauseResponder", "ResumeResponder", "Accept",
         "Restart", "ResponderBeginsFinalization"} \subseteq QuietCodes
    BY DEF QuietCodes, InitiatorCodes, EventCode, ErrorCodes
  <2> QED
    BY <2>1, <2>2, Zenon
<1>2. ResponseEvents(m) = IF m.kind = "Cancel" THEN <<k>> ELSE w \o z
  BY Zenon DEF ResponseEvents
<1> HIDE DEF v, x, k, c, p, a, r, f
<1>3. y \in {<<>>, <<a>>, <<r>>, <<f>>}
  BY Zenon
<1> HIDE DEF y
<1>4. y \o <<p>> \in {<<p>>, <<a, p>>, <<r, p>>, <<f, p>>}
  BY <1>3, Joined0, Joined2, ZenonT(60)
<1>5. ~(m.kind = "Complete" /\ m.accepted /\ ~m.paused) =>
        z \in {<<x>>, <<p>>, <<a, p>>, <<r, p>>, <<f, p>>}
  BY <1>4, Zenon
<1>6. w \in {<<>>, <<v>>}
  BY Zenon
<1> HIDE DEF z, w
<1>7. ASSUME ~(m.kind = "Complete" /\ m.accepted /\ ~m.paused)
      PROVE  Short(w \o z, Quiet)
  <2>1. (\E e \in Quiet : z = <<e>>) \/ \E e, g \in Quiet : z = <<e, g>>
    BY <1>1, <1>5, <1>7, Zenon
  <2> QED
    BY <1>1, <1>6, <2>1, JoinedShort, Zenon
<1>8. Short(<<k>>, Quiet)
  BY <1>1, Zenon DEF Short
<1> QED
  BY <1>2, <1>7, <1>8, Zenon

\* A channel that is accepted or fails is past the answer.
LEMMA EffectAnswers ==
  ASSUME NEW c \in Channel, NEW code \in {"Accept", "Error"}
  PROVE  Effect(c, Event(code)).state.Status \notin Early
<1> DEFINE e == Event(code)
           s == c.state.Status
           d == Destination(code, s)
<1>1. e \in Events /\ e.code = code
  BY EventsSent, Zenon DEF Event, Events, EventCode, InitiatorCodes, TameCodes
<1>2. c.state \in ChannelState /\ s \in Status /\ Effect(c, e).state = Apply(c.state, e)
  BY Zenon DEF Channel, ChannelState, Effect
<1>3. /\ code = "Error" => d = "Failing"
      /\ code = "Accept" /\ s = "Requested" => d = "Queued"
      /\ code = "Accept" /\ s = "AwaitingAcceptance" => d = "Ongoing"
      /\ code = "Accept" /\ s \notin Early => d = "Rejected"
  <2>1. CASE code = "Error"
    BY <2>1 DEF Destination, AfterFinishTransfer, ToFromAny, NoChangeCodes, RecordCodes, ErrorCodes
  <2>2. DOMAIN ToFromAny = {"Open", "Cancel", "Error", "BeginFinalizing", "Complete"}
    BY Zenon DEF ToFromAny
  <2>3. "Accept" \notin DOMAIN ToFromAny \cup NoChangeCodes \cup RecordCodes
    BY <2>2, Zenon DEF NoChangeCodes, RecordCodes, ErrorCodes
  <2>4. CASE code = "Accept"
    BY <2>3, <2>4 DEF Destination, Early
  <2> QED
    BY <2>1, <2>4, Zenon
<1>4. s \in Early => ~IsChannelTerminated(s)
  BY Zenon DEF Early, IsChannelTerminated, ChannelFinalityStates
<1>5. {"Failing", "Queued", "Ongoing"} \subseteq Status /\ {"Failing", "Queued", "Ongoing"} \cap Early = {}
      /\ "Rejected" \notin Early
  BY Zenon DEF Status, Early
<1>6. Apply(c.state, e).Status = IF ~IsChannelTerminated(s) /\ d \in Status THEN d ELSE s
  <2> HIDE DEF e
  <2> QED
    BY <1>1, <1>2, ApplyType, Zenon
<1> HIDE DEF d, s
<1>7. Apply(c.state, e).Status \notin Early
  BY <1>3, <1>4, <1>5, <1>6, Zenon DEF Early
<1> QED
  BY <1>2, <1>7, Zenon

\* So is the initiator's, when it has the answer.
LEMMA Heard ==
  ASSUME Types, ~Missing(ch.initiator), NEW m \in Messages, m.kind = "New"
  PROVE  Responded(m).state.Status \notin Early
<1>1. ch.initiator \in Channel
  BY LiveIsChannel, Zenon DEF Types, Peers
<1>2. CASE Gone(ch.initiator)
  <2>1. Responded(m) = ch.initiator /\ IsChannelTerminated(ch.initiator.state.Status)
    BY <1>2, Zenon DEF Responded, FireIfLive, Gone
  <2> QED
    BY <2>1, Zenon DEF IsChannelTerminated, ChannelFinalityStates, Early
<1>3. CASE ~Gone(ch.initiator)
  <2> DEFINE c == ch.initiator
             v == Event("NewVoucherResult")
             x == Event("Error")
             p == Event(IF m.paused THEN "PauseResponder" ELSE "ResumeResponder")
             a == Event("Accept")
             y == CASE m.kind = "New" -> <<a>>
                    [] m.kind = "Restart" -> <<Event("Restart")>>
                    [] m.kind = "Complete" -> <<Event("ResponderBeginsFinalization")>>
                    [] OTHER -> <<>>
             z == IF ~m.accepted THEN <<x>> ELSE y \o <<p>>
             w == IF m.voucher THEN <<v>> ELSE <<>>
  <2>1. Responded(m) = Fire(c, w \o z)
    BY <1>3, Zenon DEF Responded, FireIfLive, ResponseEvents
  <2>2. y = <<a>>
    BY Zenon
  <2>3. \A d \in Channel : Effect(d, a).state.Status \notin Early /\ Effect(d, x).state.Status \notin Early
    BY EffectAnswers, Zenon
  <2>4. {v, p, a, x} \subseteq Events /\ p.code \in InitiatorCodes
    <3>1. {v, x, p} \subseteq Tame /\ a \in FromResponder
      BY EventsSent, Zenon
    <3> QED
      BY <3>1, EventsSent, Zenon DEF FromResponder
  <2> HIDE DEF c, v, x, p, a, y
  <2>5. \A d \in Channel : d.state.Status \notin Early => Effect(d, p).state.Status \notin Early
    BY <2>4, EffectEnds, Zenon DEF StaysLate
  <2>6. \A d \in Channel : \A e \in {v, p, a, x} : Effect(d, e) \in Channel
    BY <2>4, EffectOf, Zenon
  <2>7. z = <<x>> \/ z = <<a, p>>
    BY <2>2, Joined2, Zenon
  <2>8. w = <<>> \/ w = <<v>>
    BY Zenon
  <2> HIDE DEF z, w
  <2>9. w \o z \in {<<x>>, <<a, p>>, <<v, x>>, <<v, a, p>>}
    <3>1. /\ <<>> \o <<x>> = <<x>> /\ <<>> \o <<a, p>> = <<a, p>>
          /\ <<v>> \o <<x>> = <<v, x>> /\ <<v>> \o <<a, p>> = <<v, a, p>>
      BY Joined0, Joined2, Joined3, ZenonT(60)
    <3>2. w \o z \in {<<>> \o <<x>>, <<>> \o <<a, p>>, <<v>> \o <<x>>, <<v>> \o <<a, p>>}
      BY <2>7, <2>8, Zenon
    <3> QED
      BY <3>1, <3>2, Zenon
  <2>10. c \in Channel
    BY <1>1, Zenon DEF c
  <2>11. /\ Fire(c, <<x>>) = Effect(c, x)
         /\ Fire(c, <<a, p>>) = Effect(Effect(c, a), p)
         /\ Fire(c, <<v, x>>) = Effect(Effect(c, v), x)
         /\ Fire(c, <<v, a, p>>) = Effect(Effect(Effect(c, v), a), p)
    BY Fire1, Fire2, Fire3
  <2>12. /\ Fire(c, <<x>>).state.Status \notin Early
         /\ Fire(c, <<a, p>>).state.Status \notin Early
         /\ Fire(c, <<v, x>>).state.Status \notin Early
         /\ Fire(c, <<v, a, p>>).state.Status \notin Early
    BY <2>3, <2>5, <2>6, <2>10, <2>11, Zenon
  <2> QED
    BY <2>1, <2>9, <2>12, Zenon
<1> QED
  BY <1>2, <1>3, Zenon

\* A response that does not end the transfer.
LEMMA RespondedQuiet ==
  ASSUME Types, NEW m \in Messages, ~(m.kind = "Complete" /\ m.accepted /\ ~m.paused)
  PROVE  NoFinish(ch.initiator, Responded(m))
<1>1. ch.initiator \in Channel \cup {NoChannel}
  BY Zenon DEF Types, Peers
<1>2. Short(ResponseEvents(m), Quiet)
  BY ResponseQuiet, Zenon
<1> QED
  BY <1>1, <1>2, FireIfLiveIs, Zenon DEF Responded

\* The answer in a response reaches the initiator of a pull.
LEMMA ReceiveReplyCalm ==
  ASSUME CalmBefore, NEW k \in DOMAIN req, ReceiveReply(k)
  PROVE  CalmStep
<1> DEFINE heard == "initiator" \in req[k].known
           t == [req[k] EXCEPT !.reply = NoMessage,
                               !.outcome = IF heard /\ Gone(ch.initiator) THEN "failed" ELSE @]
           d == IF heard THEN Responded(req[k].reply) ELSE ch.initiator
<1>0. Types /\ ~Missing(ch.initiator)
  BY Zenon DEF CalmBefore, Before
<1>1. /\ req[k] \in GsRequest /\ req[k].reply \in Messages
      /\ pull /\ req[k].reply.kind = "New"
  BY <1>0, RequestAt, Zenon DEF ReceiveReply, CalmBefore, Together, Once
<1>2. /\ req' = [req EXCEPT ![k] = t] /\ UNCHANGED <<net, job>>
      /\ ch' = [ch EXCEPT !.initiator = d]
  BY <1>0, <1>1, Zenon DEF ReceiveReply, Types
<1>3. t.reply = NoMessage
  BY <1>1, Zenon DEF GsRequest
<1>4. ch'.initiator = d
  <2> HIDE DEF d
  <2> QED
    BY <1>0, <1>2, Zenon DEF Types, Peers
<1>5. heard => d.state.Status \notin Early
  BY <1>0, <1>1, Heard, Zenon
<1>6. NoFinish(ch.initiator, d)
  BY <1>0, <1>1, RespondedQuiet, Composed, Zenon
<1> HIDE DEF t, d
<1>7. RequestGoesOn(req[k], t)
  BY <1>1, <1>3, <1>4, <1>5, Zenon DEF RequestGoesOn, AnswerDone
<1>8. RequestsGoOn
  BY <1>2, <1>7, OneRequest, Zenon
<1>9. FinishIsTold
  BY <1>4, <1>6, Unfinished, Zenon
<1> QED
  BY <1>2, <1>8, <1>9, NetGoes, Zenon DEF CalmStep

\* A response reaches the initiator.
LEMMA ReceiveResponseCalm ==
  ASSUME CalmBefore, NEW m \in InFlight(net), ReceiveResponse(m)
  PROVE  CalmStep
<1>1. /\ Types /\ m \in Messages /\ job' = job /\ net' = Taken(m) /\ m.to = "initiator"
      /\ CloseTransport("initiator") \/ UNCHANGED req
      /\ ch' = [ch EXCEPT !.initiator = Responded(m)]
  BY Zenon DEF CalmBefore, Before, ReceiveResponse, Types
<1>2. RequestsGoOn
  BY <1>1, RequestsClose, RequestsRest, Zenon DEF Peers
<1>3. FinishIsTold
  <2>1. CASE IsFinal(m)
    BY <2>1, Zenon DEF FinishIsTold, Told
  <2>2. CASE ~IsFinal(m)
    <3>1. NoFinish(ch.initiator, Responded(m))
      BY <1>1, <2>2, RespondedQuiet, Zenon DEF IsFinal
    <3>2. ch'.initiator = Responded(m)
      BY <1>1, Zenon DEF Types, Peers
    <3> QED
      BY <3>1, <3>2, Unfinished, Zenon
  <2> QED
    BY <2>1, <2>2, Zenon
<1> QED
  BY <1>1, <1>2, <1>3, NetGoes, Zenon DEF CalmStep
-----------------------------------------------------------------------------
(* The end of the request *)

\* There is no other request.
LEMMA OnlyOne ==
  ASSUME CalmBefore, NEW k \in DOMAIN req, NEW j \in DOMAIN req
  PROVE  j = k
<1>1. Len(req) <= 1 /\ Len(req) \in Nat /\ DOMAIN req = 1 .. Len(req)
  BY DEF CalmBefore, Before, Types, Together, Once
<1> QED
  BY <1>1

\* The responder's end of it was not over and is.
LEMMA EndComes ==
  ASSUME CalmBefore, NEW k \in DOMAIN req, NEW t, req' = [req EXCEPT ![k] = t],
         pull' = pull, ~EndIsOver(req[k]), EndIsOver(t)
  PROVE  ~EndOver /\ EndOver'
<1>1. ~EndOver
  BY Zenon DEF EndOver
<1>2. DOMAIN req' = DOMAIN req /\ req'[k] = t
  BY Zenon DEF CalmBefore, Before, Types
<1>3. \A j \in DOMAIN req' : req'[j] = t
  BY <1>2, OnlyOne, Zenon
<1>4. \A j \in DOMAIN req' : EndIsOver(req'[j])
  BY <1>3, Zenon
<1> QED
  BY <1>1, <1>4, Zenon DEF EndOver, EndIsOver

\* FinishTransfer, for an initiator that is past the answer.
LEMMA FinishQuiet ==
  ASSUME NEW c \in Channel, c.state.Status \notin Early
  PROVE  NoFinish(c, FireIfLive(c, <<Event("FinishTransfer")>>))
<1> DEFINE e == Event("FinishTransfer")
<1>1. e \in Events /\ e.code = "FinishTransfer" /\ c.state.Status # "AwaitingAcceptance"
  <2>1. e \in Events
    BY EventsSent, Zenon
  <2> QED
    BY <2>1, Zenon DEF Event, Early
<1> HIDE DEF e
<1>2. NoFinish(c, Effect(c, e))
  BY <1>1, EffectEnds, Zenon
<1>3. FireIfLive(c, <<e>>) = c \/ FireIfLive(c, <<e>>) = Effect(c, e)
  BY Fire1, Zenon DEF FireIfLive
<1>4. NoFinish(c, FireIfLive(c, <<e>>))
  <2>1. CASE FireIfLive(c, <<e>>) = c
    BY <2>1, Composed
  <2>2. CASE FireIfLive(c, <<e>>) = Effect(c, e)
    BY <1>2, <2>2, Zenon
  <2> QED
    BY <1>3, <2>1, <2>2, Zenon
<1> QED
  BY <1>4, Zenon DEF e

\* OnChannelCompleted without an error.
LEMMA CompletedWithoutErrorCalm ==
  ASSUME CalmBefore, NEW p \in Peers, NEW how \in SendOutcomes, CompletedWithoutError(p, how),
         Pay(Failure(how)),
         p = "initiator" => StatusOf("initiator") \notin Early,
         p = "responder" => ~EndOver /\ EndOver'
  PROVE  FinishIsTold /\ NetGoesOn(net') /\ (job' = job \/ JobStarts)
<1> DEFINE final == ch.responder.state.RequiresFinalization
           d == FireIfLive(ch[p], <<Event("FinishTransfer")>>)
           m == Response("Complete", TRUE, final)
<1>0. Types /\ ch[p] \in Channel \cup {NoChannel}
  BY Zenon DEF CalmBefore, Before, Types
<1>1. CASE p = "initiator" \/ Missing(ch[p])
  <2>1. ch' = [ch EXCEPT ![p] = d] /\ UNCHANGED <<net, job>>
    BY <1>1, Zenon DEF CompletedWithoutError
  <2>2. p = "initiator" => NoFinish(ch.initiator, d)
    <3>1. p = "initiator" => ch[p] \in Channel /\ ch[p].state.Status \notin Early
      BY <1>0, LiveIsChannel, Zenon DEF CalmBefore, Before, StatusOf
    <3> QED
      BY <3>1, FinishQuiet, Zenon
  <2> HIDE DEF d
  <2>3. FinishIsTold
    <3>1. CASE p = "initiator"
      <4>1. ch'.initiator = d
        BY <1>0, <2>1, <3>1, Zenon DEF Types, Peers
      <4> QED
        BY <2>2, <3>1, <4>1, Unfinished, Zenon
    <3>2. CASE p = "responder"
      BY <1>0, <2>1, <3>2, OneQuiet, Zenon
    <3> QED
      BY <3>1, <3>2, Zenon DEF Peers
  <2> QED
    BY <2>1, <2>3, NetGoes, Zenon
<1>2. CASE ~(p = "initiator" \/ Missing(ch[p]))
  <2>1. p = "responder" /\ ResponderHas /\ job = "none" /\ net' = Posted(net, how, m)
    BY <1>2, Zenon DEF CompletedWithoutError, Peers, ResponderHas
  <2>2. CASE how = "sent"
    <3>1. job' = (IF final THEN "BeginFinalizing" ELSE "Complete") /\ UNCHANGED ch
      BY <1>2, <2>2, Zenon DEF CompletedWithoutError
    <3>2. JobStarts
      BY <2>1, <3>1, Zenon DEF JobStarts
    <3>3. m.kind = "Complete" /\ m.paused = final
      BY Zenon DEF Response
    <3> HIDE DEF final, m
    <3>4. IsFinal(m) => Ready'
      BY <2>1, <3>1, <3>3, Zenon DEF IsFinal, Ready
    <3>5. InFlight(net') \subseteq InFlight(net) \cup {m}
      BY <1>0, <2>1, BagSteps, Zenon DEF Types
    <3>6. NetGoesOn(net')
      BY <3>3, <3>4, <3>5, Zenon DEF NetGoesOn, RestartKinds
    <3> QED
      BY <3>1, <3>2, <3>6, NoneFinishes, Zenon
  <2>3. CASE how = "failed"
    <3>1. net' = net
      BY <2>1, <2>3, Zenon DEF Posted
    <3>2. ch' = [ch EXCEPT ![p] = FireIfLive(@, <<Event("Disconnected")>>)] /\ job' = job
      BY <1>2, <2>3, Zenon DEF CompletedWithoutError
    <3>3. FinishIsTold
      BY <1>0, <2>1, <3>2, OneQuiet, Zenon
    <3> QED
      BY <3>1, <3>2, <3>3, NetGoes, Zenon
  <2>4. CASE how = "doubtful"
    <3>1. Failure(how) = {"doubts"}
      BY <2>4, Zenon DEF Failure
    <3> QED
      BY <3>1, Undisturbed, Zenon
  <2> QED
    BY <2>2, <2>3, <2>4, Zenon DEF SendOutcomes
<1> QED
  BY <1>1, <1>2, Zenon

\* The sender of the data is done with a request.
LEMMA ResponseCompletedCalm ==
  ASSUME CalmBefore, NEW k \in DOMAIN req, NEW how \in SendOutcomes, ResponseCompleted(k, how)
  PROVE  CalmStep
<1> DEFINE t == [req[k] EXCEPT !.server = "over",
                               !.outcome = IF @ = "none" THEN "full" ELSE @]
<1>0. Types
  BY Zenon DEF CalmBefore, Before
<1>1. req[k] \in GsRequest
  BY <1>0, RequestAt, Zenon
<1>2. /\ req' = [req EXCEPT ![k] = t] /\ pull' = pull /\ req[k].server = "open"
      /\ Pay(Failure(how))
  BY <1>0, <1>1, Zenon DEF ResponseCompleted, Types
<1>3. t.reply = req[k].reply /\ t.known = req[k].known /\ t.server = "over"
  BY <1>1, Zenon DEF GsRequest
<1> HIDE DEF t
<1>4. RequestsGoOn
  BY <1>2, <1>3, EndsOnly, OneRequest, Zenon
<1>5. CASE Sender \in req[k].known
  <2>1. CompletedWithoutError(Sender, how)
    BY <1>5, Zenon DEF ResponseCompleted
  <2>2. Sender = "initiator" => StatusOf("initiator") \notin Early
    <3>1. Sender = "initiator" => ~pull
      BY <1>0, Ends, Zenon
    <3>2. ~pull => AnswerDone(req[k])
      BY <1>2, Zenon DEF AnswerDone, CalmBefore, Together, Once
    <3> QED
      BY <3>1, <3>2, Zenon DEF CalmBefore, Together
  <2>3. Sender = "responder" => ~EndOver /\ EndOver'
    <3>1. Sender = "responder" => pull
      BY <1>0, Ends, Zenon
    <3>2. pull => ~EndIsOver(req[k]) /\ EndIsOver(t)
      BY <1>2, <1>3, Zenon DEF EndIsOver
    <3> QED
      BY <1>2, <3>1, <3>2, EndComes, Zenon
  <2> QED
    BY <1>0, <1>2, <1>4, <2>1, <2>2, <2>3, Ends, CompletedWithoutErrorCalm, ZenonT(60) DEF CalmStep
<1>6. CASE Sender \notin req[k].known
  <2>1. UNCHANGED <<ch, net, job>>
    BY <1>6, Zenon DEF ResponseCompleted
  <2> QED
    BY <1>4, <2>1, NoneFinishes, NetGoes, Zenon DEF CalmStep
<1> QED
  BY <1>5, <1>6, Zenon

\* The receiver of the data is told how a request ended.
LEMMA RequestCompletedCalm ==
  ASSUME CalmBefore, NEW k \in DOMAIN req, NEW how \in SendOutcomes, RequestCompleted(k, how)
  PROVE  CalmStep
<1> DEFINE t == [req[k] EXCEPT !.client = "over"]
<1>0. Types
  BY Zenon DEF CalmBefore, Before
<1>1. req[k] \in GsRequest
  BY <1>0, RequestAt, Zenon
<1>2. /\ req' = [req EXCEPT ![k] = t] /\ pull' = pull /\ req[k].client = "open"
      /\ req[k].reply = NoMessage /\ Pay(Failure(how))
  BY <1>0, <1>1, Zenon DEF RequestCompleted, Types
<1>3. /\ t.reply = req[k].reply /\ t.known = req[k].known /\ t.server = req[k].server
      /\ t.outcome = req[k].outcome /\ t.client = "over"
  BY <1>1, Zenon DEF GsRequest
<1> HIDE DEF t
<1>4. RequestsGoOn
  BY <1>2, <1>3, EndsOnly, OneRequest, Zenon
<1>5. CASE req[k].outcome = "full"
  <2>1. CompletedWithoutError(Receiver, how)
    BY <1>5, Zenon DEF RequestCompleted
  <2>2. StatusOf("initiator") \notin Early
    <3>1. AnswerDone(req[k])
      BY <1>2, <1>5, Zenon DEF AnswerDone
    <3> QED
      BY <3>1, Zenon DEF CalmBefore, Together
  <2>3. Receiver = "responder" => ~EndOver /\ EndOver'
    <3>1. Receiver = "responder" => ~pull
      BY <1>0, Ends, Zenon
    <3>2. ~pull => ~EndIsOver(req[k]) /\ EndIsOver(t)
      BY <1>2, <1>3, Zenon DEF EndIsOver
    <3> QED
      BY <1>2, <3>1, <3>2, EndComes, Zenon
  <2> QED
    BY <1>0, <1>2, <1>4, <2>1, <2>2, <2>3, Ends, CompletedWithoutErrorCalm, ZenonT(60) DEF CalmStep
<1>6. CASE req[k].outcome # "full"
  <2>1. CompletedWithError(Receiver) /\ UNCHANGED <<net, job>>
    BY <1>6, Zenon DEF RequestCompleted, CompletedWithError
  <2>2. FinishIsTold
    BY <1>0, <2>1, Ends, CompletedWithErrorQuiet, Zenon
  <2> QED
    BY <1>4, <2>1, <2>2, NetGoes, Zenon DEF CalmStep
<1> QED
  BY <1>5, <1>6, Zenon
-----------------------------------------------------------------------------
(* The answer, and the results the responder sends later *)

\* The sender of the data is handed a request and its message.
LEMMA ServeRequestCalm ==
  ASSUME CalmBefore, NEW k \in DOMAIN req, NEW accept \in BOOLEAN, NEW final \in BOOLEAN,
         ServeRequest(k, accept, final)
  PROVE  CalmStep
<1> DEFINE m == req[k].msg
           a == IF pull THEN Answer(m, accept, final)
                ELSE [c |-> Responded(m), reply |-> NoMessage, err |-> Gone(ch.initiator)]
           t == [req[k] EXCEPT !.reply = a.reply,
                               !.server = IF a.err THEN "over" ELSE "open",
                               !.outcome = IF a.err THEN "failed" ELSE "none",
                               !.known = IF a.err THEN @ ELSE @ \cup {Sender}]
<1>0. Types /\ ~Missing(ch.initiator) /\ m.kind = "New"
  BY Zenon DEF CalmBefore, Before, Together, Once
<1>1. req[k] \in GsRequest /\ m \in Messages
  BY <1>0, RequestAt, Zenon
<1>2. /\ req' = [req EXCEPT ![k] = t] /\ UNCHANGED <<net, job>>
      /\ ch' = [ch EXCEPT ![Sender] = a.c]
  BY <1>0, <1>1, Zenon DEF ServeRequest, Types
<1>3. t.reply = a.reply /\ req[k].known \subseteq t.known
  <2> HIDE DEF a
  <2> QED
    BY <1>1, Zenon DEF GsRequest
<1>4. CASE pull
  <2>1. a.reply = Response("New", accept, FALSE) /\ Sender = "responder"
    BY <1>0, <1>4, ReceiveNewIs, Ends, ZenonT(60) DEF Answer
  <2>2. a.reply.kind = "New" /\ a.reply # NoMessage
    BY <2>1, MessagesSent DEF Response, NoMessage
  <2> HIDE DEF t, a, m
  <2>3. RequestGoesOn(req[k], t)
    BY <1>3, <1>4, <2>2, Zenon DEF RequestGoesOn, AnswerDone
  <2>4. RequestsGoOn
    BY <1>2, <2>3, OneRequest, Zenon
  <2>5. FinishIsTold
    BY <1>0, <1>2, <2>1, OneQuiet, Zenon DEF Peers
  <2> QED
    BY <1>2, <2>4, <2>5, NetGoes, Zenon DEF CalmStep
<1>5. CASE ~pull
  <2>1. a = [c |-> Responded(m), reply |-> NoMessage, err |-> Gone(ch.initiator)]
    BY <1>5, Zenon
  <2> HIDE DEF t, a, m
  <2>2. a.c = Responded(m) /\ a.reply = NoMessage
    BY <2>1, Zenon
  <2>3. ch'.initiator = Responded(m)
    BY <1>0, <1>2, <1>5, <2>2, Ends, Zenon DEF Types, Peers
  <2>4. NoFinish(ch.initiator, Responded(m)) /\ Responded(m).state.Status \notin Early
    BY <1>0, <1>1, Heard, RespondedQuiet, Zenon
  <2>5. RequestGoesOn(req[k], t)
    BY <1>3, <2>2, <2>3, <2>4, Zenon DEF RequestGoesOn
  <2>6. RequestsGoOn
    BY <1>2, <2>5, OneRequest, Zenon
  <2>7. FinishIsTold
    BY <2>3, <2>4, Unfinished, Zenon
  <2> QED
    BY <1>2, <2>6, <2>7, NetGoes, ZenonT(60) DEF CalmStep
<1> QED
  BY <1>4, <1>5, Zenon

\* A new push reaches the responder.
LEMMA ReceiveRequestCalm ==
  ASSUME CalmBefore, NEW m \in InFlight(net), NEW accept \in BOOLEAN, NEW final \in BOOLEAN,
         NEW how, ReceiveRequest(m, accept, final, how)
  PROVE  CalmStep
<1> DEFINE a == Answer(m, accept, final)
<1>0. Types /\ m.to = "responder" /\ m.kind = "New" /\ job' = job
  BY Zenon DEF CalmBefore, Before, Together, Once, RestartKinds, ReceiveRequest
<1>1. ~pull /\ ~ResponderHas
  BY <1>0, Zenon DEF CalmBefore, Before, MutualInv, IsNew
<1>2. req = <<>>
  <2>1. DOMAIN req = {}
    BY <1>1, Zenon DEF CalmBefore, Before, MutualInv
  <2> QED
    BY <1>0, <2>1 DEF Types
<1>3. a.reply = Response("New", accept, FALSE)
  BY <1>0, ReceiveNewIs, Zenon DEF Answer
<1>4. a.reply.kind = "New" /\ Harmless(a.reply)
  <2>1. Response("New", accept, FALSE).kind = "New" /\ Harmless(Response("New", accept, FALSE))
    BY HarmlessSent, Zenon DEF Response
  <2> HIDE DEF a
  <2> QED
    BY <1>3, <2>1, Zenon
<1>5. /\ (a.reply.accepted /\ OpenTransport(a.reply)) \/ UNCHANGED req \/ CloseTransport("responder")
      /\ net' = Taken(m) \/ net' = Posted(Taken(m), how, a.reply)
      /\ \E d : ch' = [ch EXCEPT !.responder = d]
  BY Zenon DEF ReceiveRequest
<1> HIDE DEF a
<1>6. RequestsGoOn
  BY <1>1, <1>2, <1>4, <1>5, RequestsBegin, RequestsRest, RequestsClose, ZenonT(60) DEF Peers
<1>7. FinishIsTold
  BY <1>0, <1>5, OneQuiet, Zenon DEF Peers
<1>8. NetGoesOn(net')
  <2>1. NetGoesOn(Taken(m)) /\ NetGoesOn(Posted(Taken(m), how, a.reply))
    BY <1>4, NetGoes, Zenon
  <2> QED
    BY <1>5, <2>1, Zenon
<1> QED
  BY <1>0, <1>6, <1>7, <1>8, Zenon DEF CalmStep

\* A responder that has recorded the end, and now has ended, is ready.
LEMMA EndedIsReady ==
  ASSUME CalmBefore, UNCHANGED <<pull, req, job>>, StatusOf("responder") \in Finished,
         ch'.responder.state.Status \in Ended
  PROVE  Ready'
<1>1. job = "none" /\ EndOver
  BY Zenon DEF CalmBefore, Together
<1>2. EndOver'
  BY <1>1, Zenon DEF EndOver, EndIsOver
<1> QED
  BY <1>1, <1>2, Zenon DEF Ready, StatusOf

\* One message is posted, which restarts nothing.
LEMMA NetSends ==
  ASSUME CalmBefore, NEW how, NEW m, net' = Posted(net, how, m), m.kind \notin RestartKinds,
         IsFinal(m) => Ready'
  PROVE  NetGoesOn(net')
<1>1. InFlight(net') \subseteq InFlight(net) \cup {m}
  BY BagSteps, Zenon DEF CalmBefore, Before, Types
<1> QED
  BY <1>1, Zenon DEF NetGoesOn

\* The responder sends a voucher result.
LEMMA SendVoucherResultCalm ==
  ASSUME CalmBefore, NEW how, SendVoucherResult(how)
  PROVE  CalmStep
<1> DEFINE st == ch.responder.state
           kind == IF InFinalization(st.Status) THEN "Complete" ELSE "VoucherResult"
           acc == IsAccepted(st.Status)
           paused == ResponderPaused(st)
           r == Response(kind, acc, paused)
           m == [r EXCEPT !.voucher = TRUE]
           code == IF how = "sent" THEN "NewVoucherResult" ELSE "Disconnected"
           d == Fire(ch.responder, <<Event(code)>>)
<1>0. /\ Types /\ UNCHANGED <<pull, req, job>> /\ ~Missing(ch.responder)
      /\ ~IsChannelTerminated(st.Status)
      /\ net' = Posted(net, how, m) /\ ch' = [ch EXCEPT !.responder = d]
  BY Zenon DEF CalmBefore, Before, SendVoucherResult, Gone
<1>1. m.kind = kind /\ m.paused = paused
  <2> HIDE DEF kind, acc, paused
  <2> QED
    BY Zenon DEF Response
<1>2. IsFinal(m) => st.Status = "Completing"
  <2>1. kind = "Complete" /\ ~paused => st.Status = "Completing"
    BY <1>0, Zenon DEF InFinalization, FinalizationStatuses, ResponderPaused,
       IsChannelTerminated, ChannelFinalityStates
  <2> HIDE DEF kind, paused, m, st
  <2> QED
    BY <1>1, <2>1, Zenon DEF IsFinal
<1>3. m.kind \notin RestartKinds
  <2>1. kind \notin RestartKinds
    BY Zenon DEF RestartKinds
  <2> HIDE DEF kind, m
  <2> QED
    BY <1>1, <2>1, Zenon
<1>4. ch.responder \in Channel /\ code \in TameCodes
  BY <1>0, LiveIsChannel, EventsSent, Zenon DEF Types, Peers
<1> HIDE DEF m, code
<1>5. Tamely(ch.responder, d)
  BY <1>4, TameOne, FireShort, Zenon
<1> HIDE DEF d
<1>6. ch'.responder = d
  BY <1>0, Zenon DEF Types, Peers
<1>7. IsFinal(m) => Ready'
  <2> SUFFICES ASSUME IsFinal(m) PROVE Ready'
    BY Zenon
  <2>1. StatusOf("responder") \in Finished /\ ch.responder.state.Status \in Ended
    BY <1>2, Zenon DEF StatusOf, Finished, Ended, CleanupStates
  <2>2. ch'.responder.state.Status \in Ended
    BY <1>5, <1>6, <2>1, ZenonT(60) DEF Tamely, EndsForGood
  <2> QED
    BY <1>0, <2>1, <2>2, EndedIsReady, Zenon
<1>8. NetGoesOn(net')
  BY <1>0, <1>3, <1>7, NetSends, ZenonT(60)
<1>9. FinishIsTold
  BY <1>0, OneQuiet, Zenon DEF Peers
<1> QED
  BY <1>0, <1>8, <1>9, RequestsRest, Zenon DEF CalmStep

\* A responder in finalization that is accepted and needs no more ends.
LEMMA SettledEnds ==
  ASSUME NEW c \in Channel, c.state.Status = "Finalizing"
  PROVE  Fire(c, AcceptedEvents(c.state, FALSE)).state.Status \in Ended
<1> DEFINE a == SetFinal(FALSE)
           d == Event("ResumeResponder")
           x == IF FALSE # c.state.RequiresFinalization THEN <<a>> ELSE <<>>
<1>1. AcceptedEvents(c.state, FALSE) = x \o <<d>>
  BY Zenon DEF AcceptedEvents, LeaveRequestPaused, ResponderPaused
<1>2. x = <<>> \/ x = <<a>>
  BY Zenon
<1>3. /\ a \in Events /\ a.code = "SetRequiresFinalization"
      /\ d \in Events /\ d.code = "ResumeResponder"
  <2>1. a \in Tame /\ d \in Tame
    BY EventsSent, Zenon
  <2> QED
    BY <2>1, Zenon DEF Tame, SetFinal, Event
<1> HIDE DEF a, d, x
<1>4. x \o <<d>> = <<d>> \/ x \o <<d>> = <<a, d>>
  BY <1>2, Joined0, Joined2, Zenon
<1>5. ASSUME NEW b \in Channel, b.state.Status = "Finalizing"
      PROVE  /\ Effect(b, d).state.Status = "Completing"
             /\ Effect(b, a) \in Channel /\ Effect(b, a).state.Status = "Finalizing"
  <2>1. b.state \in ChannelState /\ Effect(b, d).state = Apply(b.state, d) /\ Effect(b, a).state = Apply(b.state, a)
    BY <1>5, Zenon DEF Channel, Effect
  <2>2. DOMAIN ToFromAny = {"Open", "Cancel", "Error", "BeginFinalizing", "Complete"}
    BY Zenon DEF ToFromAny
  <2>3. "ResumeResponder" \notin DOMAIN ToFromAny \cup NoChangeCodes \cup RecordCodes
    BY <2>2, Zenon DEF NoChangeCodes, RecordCodes, ErrorCodes
  <2>4. Destination("ResumeResponder", "Finalizing") = "Completing"
    BY <2>3 DEF Destination
  <2>5. "SetRequiresFinalization" \notin DOMAIN ToFromAny \cup NoChangeCodes
    BY <2>2, Zenon DEF NoChangeCodes, ErrorCodes
  <2>6. Destination("SetRequiresFinalization", "Finalizing") = "JustRecord"
    BY <2>5 DEF Destination, RecordCodes
  <2>7. /\ "Completing" \in Status /\ "JustRecord" \notin Status
        /\ ~IsChannelTerminated("Finalizing")
    BY Zenon DEF Status, IsChannelTerminated, ChannelFinalityStates
  <2>8. Apply(b.state, d).Status = "Completing" /\ Apply(b.state, a).Status = "Finalizing"
    BY <1>3, <1>5, <2>1, <2>4, <2>6, <2>7, ApplyType, ZenonT(60)
  <2>9. Effect(b, a) \in Channel
    BY <1>3, EffectOf, Zenon
  <2> QED
    BY <2>1, <2>8, <2>9, Zenon
<1>6. Fire(c, <<d>>) = Effect(c, d) /\ Fire(c, <<a, d>>) = Effect(Effect(c, a), d)
  BY Fire1, Fire2
<1>7. Fire(c, <<d>>).state.Status = "Completing" /\ Fire(c, <<a, d>>).state.Status = "Completing"
  BY <1>5, <1>6, ZenonT(60)
<1> QED
  BY <1>1, <1>4, <1>7, Zenon DEF Ended, CleanupStates

\* The responder updates the validation status.
LEMMA UpdateValidationStatusCalm ==
  ASSUME CalmBefore, NEW accept \in BOOLEAN, NEW final \in BOOLEAN, NEW how,
         UpdateValidationStatus(accept, final, how)
  PROVE  CalmStep
<1> DEFINE st == ch.responder.state
           kind == IF st.Status = "Finalizing" THEN "Complete" ELSE "VoucherResult"
           paused == LeaveRequestPaused(st, final)
           m == Response(kind, accept, paused)
           s == IF accept THEN AcceptedEvents(st, final) ELSE <<Event("Error")>>
           d == Fire(ch.responder, s)
<1>0. /\ Types /\ UNCHANGED <<pull, job>> /\ ~Missing(ch.responder)
      /\ net' = Posted(net, how, m) /\ ch' = [ch EXCEPT !.responder = d]
      /\ (~accept /\ CloseTransport("responder")) \/ UNCHANGED req
  BY Zenon DEF CalmBefore, Before, UpdateValidationStatus, Gone
<1>1. m.kind = kind /\ m.accepted = accept /\ m.paused = paused
  <2> HIDE DEF kind, paused
  <2> QED
    BY Zenon DEF Response
<1>2. m.kind \notin RestartKinds
  BY <1>1, Zenon DEF RestartKinds
<1>3. IsFinal(m) => st.Status = "Finalizing" /\ accept /\ ~final
  BY <1>1, Zenon DEF IsFinal, LeaveRequestPaused, InFinalization, FinalizationStatuses
<1>4. ch.responder \in Channel
  BY <1>0, LiveIsChannel, Zenon DEF Types, Peers
<1>5. IsFinal(m) => d.state.Status \in Ended
  <2> SUFFICES ASSUME IsFinal(m) PROVE d.state.Status \in Ended
    BY Zenon
  <2>1. d = Fire(ch.responder, AcceptedEvents(ch.responder.state, FALSE))
    BY <1>3, Zenon
  <2> QED
    BY <1>3, <1>4, <2>1, SettledEnds, Zenon
<1> HIDE DEF m, d
<1>6. ch'.responder = d
  BY <1>0, Zenon DEF Types, Peers
<1>7. IsFinal(m) => Ready'
  BY <1>0, <1>3, <1>5, <1>6, EndedIsReady, Zenon DEF StatusOf, Finished
<1>8. NetGoesOn(net')
  BY <1>0, <1>2, <1>7, NetSends, Zenon
<1>9. FinishIsTold
  BY <1>0, OneQuiet, Zenon DEF Peers
<1>10. RequestsGoOn
  BY <1>0, RequestsRest, RequestsClose, ZenonT(60) DEF Peers
<1> QED
  BY <1>0, <1>8, <1>9, <1>10, Zenon DEF CalmStep
-----------------------------------------------------------------------------
(* The invariant *)

\* Every action on a channel that was opened.
LEMMA CalmNext ==
  ASSUME CalmBefore, Next
  PROVE  CalmStep
<1>1. ~OpenPullDataChannel /\ \A how \in SendOutcomes : ~OpenPushDataChannel(how)
  BY Zenon DEF CalmBefore, Before, OpenPullDataChannel, OpenPushDataChannel
<1>2. ASSUME NEW k \in DOMAIN req, NEW accept \in BOOLEAN, NEW final \in BOOLEAN,
             ServeRequest(k, accept, final)
      PROVE  CalmStep
  BY <1>2, ServeRequestCalm, Zenon
<1>3. ASSUME NEW k \in DOMAIN req, NEW p \in Peers, TransferInitiated(k, p)
      PROVE  CalmStep
  BY <1>3, TransferInitiatedCalm, Zenon
<1>4. ASSUME NEW k \in DOMAIN req, ReceiveReply(k)
      PROVE  CalmStep
  BY <1>4, ReceiveReplyCalm, Zenon
<1>5. ASSUME RecordCompleted
      PROVE  CalmStep
  BY <1>5, RecordCompletedCalm, Zenon
<1>6. ASSUME NEW k \in DOMAIN req, NEW how \in SendOutcomes, ResponseCompleted(k, how)
      PROVE  CalmStep
  BY <1>6, ResponseCompletedCalm, Zenon
<1>7. ASSUME NEW k \in DOMAIN req, ResponseFailed(k)
      PROVE  CalmStep
  BY <1>7, ResponseFailedCalm, Zenon
<1>8. ASSUME NEW k \in DOMAIN req, NEW how \in SendOutcomes, RequestCompleted(k, how)
      PROVE  CalmStep
  BY <1>8, RequestCompletedCalm, Zenon
<1>9. ASSUME NEW k \in DOMAIN req, RequestCancelled(k)
      PROVE  CalmStep
  BY <1>9, RequestCancelledCalm, Zenon
<1>10. ASSUME NEW k \in DOMAIN req, SeeCancelled(k)
       PROVE  CalmStep
  BY <1>10, SeeCancelledCalm, Zenon
<1>11. ASSUME NEW m \in InFlight(net), NEW accept \in BOOLEAN, NEW final \in BOOLEAN,
              NEW how \in SendOutcomes, ReceiveRequest(m, accept, final, how)
       PROVE  CalmStep
  BY <1>11, ReceiveRequestCalm, Zenon
<1>12. ASSUME NEW m \in InFlight(net), ReceiveCancelRequest(m)
       PROVE  CalmStep
  BY <1>12, ReceiveCancelRequestCalm, Zenon
<1>13. ASSUME NEW m \in InFlight(net), ReceiveVoucherRequest(m)
       PROVE  CalmStep
  BY <1>13, ReceiveVoucherRequestCalm, Zenon
<1>14. ASSUME NEW m \in InFlight(net), ReceiveResponse(m)
       PROVE  CalmStep
  BY <1>14, ReceiveResponseCalm, Zenon
<1>15. ASSUME NEW m \in InFlight(net), Lose(m)
       PROVE  CalmStep
  BY <1>15, LoseCalm, Zenon
<1>16. /\ \A p \in Peers, accept \in BOOLEAN, how \in SendOutcomes :
            ~RestartDataTransferChannel(p, accept, how)
       /\ \A m \in InFlight(net), how \in SendOutcomes : ~ReceiveRestartExisting(m, how)
       /\ \A p \in Peers : ~Crash(p)
  BY NoneRestarts, Zenon
<1>17. ASSUME NEW p \in Peers, NEW code \in {"Cancel", "Error"}, NEW how \in SendOutcomes,
              CloseDataTransferChannel(p, code, how)
       PROVE  CalmStep
  BY <1>17, CloseDataTransferChannelCalm, Zenon
<1>18. ASSUME NEW how \in SendOutcomes, SendVoucher(how)
       PROVE  CalmStep
  BY <1>18, SendVoucherCalm, Zenon
<1>19. ASSUME NEW how \in SendOutcomes, SendVoucherResult(how)
       PROVE  CalmStep
  BY <1>19, SendVoucherResultCalm, Zenon
<1>20. ASSUME NEW accept \in BOOLEAN, NEW final \in BOOLEAN, NEW how \in SendOutcomes,
              UpdateValidationStatus(accept, final, how)
       PROVE  CalmStep
  BY <1>20, UpdateValidationStatusCalm, Zenon
<1>21. ASSUME NEW p \in Peers, CleanupConnection(p)
       PROVE  CalmStep
  BY <1>21, CleanupConnectionCalm, Zenon
<1> QED
  BY <1>1, <1>2, <1>3, <1>4, <1>5, <1>6, <1>7, <1>8, <1>9, <1>10, <1>11, <1>12, <1>13, <1>14,
     <1>15, <1>16, <1>17, <1>18, <1>19, <1>20, <1>21, SMTT(30) DEF Next

\* A disturbance is not forgotten, and only those allowed happen.
Spends == spent \subseteq spent' /\ spent' \subseteq spent \cup Allowed

\* What a step that pays does, and one that does not.
LEMMA Paying ==
  /\ \A kinds : Pay(kinds) => Spends
  /\ UNCHANGED spent => Spends
BY Zenon DEF Pay, Spends

\* Every step.
LEMMA NextSpends ==
  ASSUME Next
  PROVE  Spends
<1>1. OpenPullDataChannel => Spends
  BY Paying, Zenon DEF OpenPullDataChannel
<1>2. \A how : OpenPushDataChannel(how) => Spends
  BY Paying, Zenon DEF OpenPushDataChannel
<1>3. ASSUME NEW k, NEW accept, NEW final, ServeRequest(k, accept, final)
      PROVE  Spends
  <2> DEFINE kinds == IF accept THEN {} ELSE {"rejects"}
  <2>1. Pay(kinds)
    BY <1>3, Zenon DEF ServeRequest
  <2> HIDE DEF kinds
  <2> QED
    BY <2>1, Paying, Zenon
<1>4. \A k, p : TransferInitiated(k, p) => Spends
  BY Paying, Zenon DEF TransferInitiated
<1>5. \A k : ReceiveReply(k) => Spends
  BY Paying, Zenon DEF ReceiveReply
<1>6. RecordCompleted => Spends
  BY Paying, Zenon DEF RecordCompleted
<1>7. \A k, how : ResponseCompleted(k, how) \/ RequestCompleted(k, how) => Spends
  BY Paying, Zenon DEF ResponseCompleted, RequestCompleted
<1>8. \A k : ResponseFailed(k) \/ RequestCancelled(k) \/ SeeCancelled(k) => Spends
  BY Paying, Zenon DEF ResponseFailed, RequestCancelled, SeeCancelled
<1>9. ASSUME NEW m, NEW accept, NEW final, NEW how, ReceiveRequest(m, accept, final, how)
      PROVE  Spends
  <2> DEFINE kinds == Failure(how) \cup IF accept THEN {} ELSE {"rejects"}
  <2>1. Pay(kinds)
    BY <1>9, Zenon DEF ReceiveRequest
  <2> HIDE DEF kinds
  <2> QED
    BY <2>1, Paying, Zenon
<1>10. \A m : ReceiveCancelRequest(m) \/ ReceiveVoucherRequest(m) \/ ReceiveResponse(m) => Spends
  BY Paying, Zenon DEF ReceiveCancelRequest, ReceiveVoucherRequest, ReceiveResponse
<1>11. \A m : Lose(m) => Spends
  BY Paying, Zenon DEF Lose
<1>12. \A m, how : ReceiveRestartExisting(m, how) => Spends
  BY Paying, Zenon DEF ReceiveRestartExisting
<1>13. \A p, accept, how : RestartDataTransferChannel(p, accept, how) => Spends
  BY Paying, Zenon DEF RestartDataTransferChannel
<1>14. \A p, code, how : CloseDataTransferChannel(p, code, how) => Spends
  BY Paying, Zenon DEF CloseDataTransferChannel
<1>15. \A how : SendVoucher(how) \/ SendVoucherResult(how) => Spends
  BY Paying, Zenon DEF SendVoucher, SendVoucherResult
<1>16. \A accept, final, how : UpdateValidationStatus(accept, final, how) => Spends
  BY Paying, Zenon DEF UpdateValidationStatus
<1>17. \A p : CleanupConnection(p) \/ Crash(p) => Spends
  BY Paying, Zenon DEF CleanupConnection, Crash
<1> QED
  BY <1>1, <1>2, <1>3, <1>4, <1>5, <1>6, <1>7, <1>8, <1>9, <1>10, <1>11, <1>12, <1>13, <1>14,
     <1>15, <1>16, <1>17, Zenon DEF Next

\* The channel is opened.
LEMMA OpenedTogether ==
  ASSUME MutualInv, Together, Missing(ch.initiator), ChannelStep, RequestsGoOn,
         UNCHANGED <<pull, job>>, ch'.responder = ch.responder,
         \A m \in InFlight(net') : Harmless(m)
  PROVE  Together'
<1>1. req = <<>> /\ ~ResponderHas /\ job = "none" /\ DOMAIN req = {}
  BY DEF MutualInv, Together
<1>2. /\ Len(req') <= 1
      /\ \A k \in DOMAIN req' : FirstRequest(req'[k])
  BY <1>1, Zenon DEF RequestsGoOn
<1>3. Once'
  BY <1>2, Zenon DEF Once, FirstRequest, Harmless
<1>4. Fit(ch'.initiator) /\ ch'.initiator.state.Status \notin Finished
  <2>1. /\ ch.initiator = ch'.initiator
        \/ (Fit(ch'.initiator) /\ ~IsAccepted(ch'.initiator.state.Status))
    BY NoChannelIsNone, Zenon DEF ChannelStep, InitiatorMoves, Live, Missing
  <2>2. Fit(NoChannel) /\ ~IsAccepted(NoChannel.state.Status)
    BY NoChannelIsNone, Zenon DEF Fit, Early, IsAccepted, NotAcceptedStates
  <2>3. \A s \in Finished : IsAccepted(s)
    BY Zenon DEF Finished, IsAccepted, NotAcceptedStates
  <2> QED
    BY <2>1, <2>2, <2>3, Zenon DEF Missing
<1>5. (\A k \in DOMAIN req : AnswerDone(req[k]) => StatusOf("initiator") \notin Early)'
  BY <1>2, Zenon DEF FirstRequest, AnswerDone
<1>6. ~Told'
  BY <1>4, Zenon DEF Told, StatusOf, Harmless, IsFinal
<1>7. ch'.responder.state.Status \notin Finished
  BY <1>1, NoChannelIsNone, Zenon DEF ResponderHas, Missing, Finished
<1> QED
  BY <1>1, <1>3, <1>4, <1>5, <1>6, <1>7, Zenon DEF Together, StatusOf, Fit

\* Every step keeps it.
LEMMA NextTogether ==
  ASSUME Inv, TogetherInv, [Next]_vars
  PROVE  TogetherInv'
<1>0. Types /\ OpenRequestIsHeld /\ MutualInv /\ Inv' /\ ChannelStep
  BY NextInv, Zenon DEF Inv
<1> SUFFICES ASSUME Calm' PROVE Together'
  BY Zenon DEF TogetherInv
<1>1. Calm /\ Together
  <2>1. spent \subseteq spent'
    BY NextSpends, Zenon DEF Spends, vars
  <2>2. Calm
    BY <2>1, Zenon DEF Calm
  <2> QED
    BY <2>2, Zenon DEF TogetherInv
<1>2. CASE UNCHANGED vars
  BY <1>1, <1>2, Zenon DEF Together, Once, Told, Ready, EndOver, EndIsOver, AnswerDone, StatusOf,
     ResponderHas, vars
<1>3. CASE Next /\ ~Missing(ch.initiator)
  <2>1. CalmBefore
    BY <1>0, <1>1, <1>3, Zenon DEF CalmBefore, Before
  <2>2. Step /\ CalmStep
    BY <1>3, <2>1, OpenedSteps, CalmNext, Zenon DEF CalmBefore
  <2> QED
    BY <1>1, <2>1, <2>2, StepTogether, Zenon DEF CalmBefore
<1>4. ASSUME Missing(ch.initiator)
      PROVE  req = <<>> /\ InFlight(net) = {} /\ ~ResponderHas /\ job = "none"
  BY <1>0, <1>1, <1>4, Zenon DEF MutualInv, Together
<1>5. CASE OpenPullDataChannel
  <2>1. /\ Missing(ch.initiator) /\ UNCHANGED <<pull, net, job>> /\ pull
        /\ OpenTransport(Request("New")) \/ UNCHANGED req
        /\ \E d : ch' = [ch EXCEPT !.initiator = d]
    BY <1>5, Zenon DEF OpenPullDataChannel
  <2>2. RequestsGoOn
    <3>1. CASE OpenTransport(Request("New"))
      <4>1. Request("New").kind = "New"
        BY Zenon DEF Request
      <4> QED
        BY <1>0, <1>4, <2>1, <3>1, <4>1, RequestsBegin, Zenon
    <3>2. CASE UNCHANGED req
      <4>1. Len(req') = 0 /\ DOMAIN req' = {}
        BY <1>4, <2>1, <3>2
      <4> QED
        BY <4>1 DEF RequestsGoOn
    <3> QED
      BY <2>1, <3>1, <3>2, Zenon
  <2>3. ch'.responder = ch.responder
    BY <1>0, <2>1, Zenon DEF Types, Peers
  <2>4. \A m \in InFlight(net') : Harmless(m)
    BY <1>4, <2>1, Zenon
  <2> QED
    BY <1>0, <1>1, <2>1, <2>2, <2>3, <2>4, OpenedTogether, Zenon
<1>6. CASE \E how \in SendOutcomes : OpenPushDataChannel(how)
  <2>1. PICK how \in SendOutcomes :
          /\ Missing(ch.initiator) /\ UNCHANGED <<pull, req, job>>
          /\ net' = Posted(net, how, Request("New"))
          /\ \E d : ch' = [ch EXCEPT !.initiator = d]
    BY <1>6, Zenon DEF OpenPushDataChannel
  <2>2. RequestsGoOn
    <3>1. Len(req') = 0 /\ DOMAIN req' = {}
      BY <1>4, <2>1
    <3> QED
      BY <3>1 DEF RequestsGoOn
  <2>3. ch'.responder = ch.responder
    BY <1>0, <2>1, Zenon DEF Types, Peers
  <2>4. \A m \in InFlight(net') : Harmless(m)
    <3>1. InFlight(net') \subseteq InFlight(net) \cup {Request("New")}
      BY <1>0, <2>1, BagSteps, Zenon DEF Types
    <3> QED
      BY <1>4, <2>1, <3>1, HarmlessSent, Zenon
  <2> QED
    BY <1>0, <1>1, <2>1, <2>2, <2>3, <2>4, OpenedTogether, Zenon
<1>7. CASE RecordCompleted /\ Missing(ch.initiator)
  BY <1>4, <1>7, Zenon DEF RecordCompleted
<1> QED
  BY <1>0, <1>2, <1>3, <1>5, <1>6, <1>7, Idle, Zenon

\* Nothing was opened at the start.
LEMMA InitTogether == Init => TogetherInv
<1> SUFFICES ASSUME Init PROVE Together
  BY Zenon DEF TogetherInv
<1>1. /\ req = <<>> /\ net = <<>> /\ job = "none"
      /\ ch.initiator = NoChannel /\ ch.responder = NoChannel
  BY Zenon DEF Init, Peers
<1>2. DOMAIN req = {} /\ Len(req) <= 1 /\ InFlight(net) = {}
  BY <1>1 DEF InFlight
<1>3. Once
  BY <1>2, Zenon DEF Once
<1>4. /\ StatusOf("initiator") \notin Finished /\ StatusOf("responder") \notin Finished
      /\ Fit(ch.initiator)
  BY <1>1, NoChannelIsNone, Zenon DEF StatusOf, Finished, Fit, Early
<1> QED
  BY <1>1, <1>2, <1>3, <1>4, Zenon DEF Together, Told

\* The invariant holds in every reachable state.
LEMMA TogetherInvariance == Spec => []TogetherInv
<1>1. Inv /\ [Next]_vars => Inv'
  BY NextInv, Zenon
<1>2. Inv /\ TogetherInv /\ [Next]_vars => TogetherInv'
  BY NextTogether, Zenon
<1> QED
  BY InitInv, InitTogether, <1>1, <1>2, PTL DEF Spec

-----------------------------------------------------------------------------
(* Theorems *)

\* What it says of an initiator that completed.
LEMMA TogetherCompletes ==
  ASSUME TogetherInv, "restarts" \notin spent
  PROVE  CompletedTogether
<1> SUFFICES ASSUME StatusOf("initiator") \in {"Completing", "Completed"},
                    spent \cap {"doubts", "crashes"} = {}
             PROVE  job = "Complete" \/ StatusOf("responder") \in Ended
  BY Zenon DEF CompletedTogether, Ended
<1>1. Together
  BY Zenon DEF TogetherInv, Calm
<1>2. Told
  BY Zenon DEF Told, Finished
<1> QED
  BY <1>1, <1>2, Zenon DEF Together, Ready

\* As long as nobody restarts the transfer, an initiator whose channel completes,
\* by the Complete response of the responder or by FinishTransfer, has a responder
\* that ended its channel or is about to record Complete: whatever closes,
\* rejections, failures, losses and late results happen in between.
THEOREM CompletesTogetherUnlessRestarted ==
  Spec => []("restarts" \notin spent => CompletedTogether)
<1>1. TogetherInv => ("restarts" \notin spent => CompletedTogether)
  BY TogetherCompletes, Zenon
<1> QED
  BY TogetherInvariance, <1>1, PTL

\* Only what is allowed disturbs the transfer.
LEMMA AllowedOnly == Spec => [](spent \subseteq Allowed)
<1>1. Init => spent \subseteq Allowed
  BY Zenon DEF Init
<1>2. spent \subseteq Allowed /\ [Next]_vars => (spent \subseteq Allowed)'
  BY NextSpends, Zenon DEF Spends, vars
<1> QED
  BY <1>1, <1>2, PTL DEF Spec

\* Where RestartDataTransferChannel is not called the two always end together.
THEOREM CompletesTogether ==
  ASSUME "restarts" \notin Allowed
  PROVE  Spec => []CompletedTogether
<1>1. TogetherInv /\ spent \subseteq Allowed => CompletedTogether
  BY TogetherCompletes, Zenon
<1> QED
  BY TogetherInvariance, AllowedOnly, <1>1, PTL

=============================================================================
