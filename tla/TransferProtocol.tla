-------------------------- MODULE TransferProtocol --------------------------
(***************************************************************************)
(* One channel between two managers (impl/): the initiator that opened it  *)
(* and the responder that validates it.  The two talk over                 *)
(*   - the data-transfer network: every message has a stream of its own,   *)
(*     so messages overtake each other, and they may be lost;              *)
(*   - graphsync requests: the receiver of the data sends a request that   *)
(*     carries a message, the sender of the data serves it, its answer     *)
(*     going back in the response, and each end reports how it ended.      *)
(* Each manager uses its channel as ChannelAtomic says.  A handler is one  *)
(* step, but for OnChannelCompleted of the responder, which reads the      *)
(* channel and sends a message in one step and records the end in another. *)
(* Pauses and data limits belong to ProgressCache and are left out here.   *)
(***************************************************************************)
EXTENDS ChannelEvents, FiniteSets, Sequences

CONSTANTS MaxRequests,      \* bound: graphsync requests
          Allowed,          \* the disturbances that happen, each at most once
          MaxDisturbances   \* bound: how many of them happen

\* What may disturb a transfer: calls of its users, a validator that rejects,
\* and failures.
Disturbances ==
  {"restarts", "closes", "aborts", "results", "updates", "rejects",
   "failures", "doubts", "losses", "crashes"}

ASSUME TransferAssumption ==
  MaxRequests \in Nat \ {0} /\ Allowed \subseteq Disturbances /\ MaxDisturbances \in Nat

VARIABLES pull,   \* whether the initiator receives the data
          ch,     \* the channel at each peer
          net,    \* the bag of messages under way
          req,    \* the graphsync requests, in the order they were made
          cur,    \* requestID of each peer's dtChannel: an index of req, or 0
          job,    \* what OnChannelCompleted of the responder will record
          spent   \* the disturbances so far

vars == <<pull, ch, net, req, cur, job, spent>>

Peers == {"initiator", "responder"}

Other(p) == IF p = "initiator" THEN "responder" ELSE "initiator"

\* The peer that makes the graphsync requests, and the one that serves them.
Receiver == IF pull THEN "initiator" ELSE "responder"
Sender == Other(Receiver)

-----------------------------------------------------------------------------
\* Messages.  Those to the responder are requests, those to the initiator are
\* responses, RestartExisting aside.

Kinds ==
  {"New", "Restart", "Cancel", "Voucher", "RestartExisting", "VoucherResult", "Complete"}

Messages ==
  [to : Peers, kind : Kinds, accepted : BOOLEAN, paused : BOOLEAN, voucher : BOOLEAN]

NoMessage == [to |-> "nobody"]

Request(kind) ==
  [to |-> "responder", kind |-> kind, accepted |-> FALSE, paused |-> FALSE, voucher |-> FALSE]

Response(kind, accepted, paused) ==
  [to |-> "initiator", kind |-> kind, accepted |-> accepted, paused |-> paused,
   voucher |-> FALSE]

CancelMessage(p) ==
  IF p = "initiator" THEN Request("Cancel") ELSE Response("Cancel", FALSE, FALSE)

\* How SendMessage ends: "doubtful" returns the error of closing the stream
\* although the message went out.
SendOutcomes == {"sent", "failed", "doubtful"}

\* The network is a bag: it maps each message under way to its number of copies.
IsBag(bag) == bag \in [DOMAIN bag -> Nat \ {0}]
InFlight(bag) == DOMAIN bag

Posted(bag, how, m) ==
  IF how = "failed" THEN bag
  ELSE [x \in InFlight(bag) \cup {m} |->
         IF x \notin InFlight(bag) THEN 1 ELSE IF x = m THEN bag[x] + 1 ELSE bag[x]]

Failure(how) ==
  CASE how = "sent" -> {} [] how = "failed" -> {"failures"} [] how = "doubtful" -> {"doubts"}

\* The step is disturbed by kinds.
Pay(kinds) ==
  /\ kinds \subseteq Allowed \ spent
  /\ spent' = spent \cup kinds
  /\ Cardinality(spent') <= MaxDisturbances

-----------------------------------------------------------------------------
\* Channels.

NoChannel ==
  [state |-> [NewChannelState EXCEPT !.Status = "ChannelNotFoundError"], owed |-> 0]

\* The channel a peer has after it sent events (a sequence) to channel c.
Fire(c, events) ==
  LET after[n \in 0 .. Len(events)] ==
        IF n = 0 THEN c ELSE Effect(after[n - 1], events[n])
  IN  after[Len(events)]

CreateNew == Fire([state |-> NewChannelState, owed |-> 0], <<Event("Open")>>)

StatusOf(p) == ch[p].state.Status

Missing(c) == c = NoChannel

\* Events to this channel return an error.
Gone(c) == Missing(c) \/ IsChannelTerminated(c.state.Status)

\* Sending events to a channel that is gone changes nothing.
FireIfLive(c, events) == IF Gone(c) THEN c ELSE Fire(c, events)

\* chst.ResponderPaused()
ResponderPaused(st) == st.ResponderPaused \/ st.Status = "Finalizing"

\* result.LeaveRequestPaused(chst), for a result with no limit and no ForcePause
LeaveRequestPaused(st, final) == final /\ InFinalization(st.Status)

-----------------------------------------------------------------------------
\* Graphsync requests.

\* A request made by the receiver of the data, that carries m.
NewRequest(m) ==
  [msg |-> m,             \* the message in the request
   reply |-> NoMessage,   \* the message in the response, not yet handled
   client |-> "open",     \* "open", "cancelling", "cancelled" or "over"
   server |-> "sent",     \* "sent", "open", "cancelled" or "over"
   outcome |-> "none",    \* what the client will be told: "full", "failed"
   known |-> {Receiver},  \* the peers that map its ID to the channel
   begun |-> {}]          \* the peers told that it is being processed

\* Mutant of Cancelled: the request before a new one is left alone.
CancelledNot(rs, p) == rs

\* dtChannel.cancel at peer p: its current request is cancelled, in rs.
Cancelled(rs, p) ==
  IF cur[p] = 0 THEN rs
  ELSE IF p = Receiver
       THEN [rs EXCEPT ![cur[p]].client = IF @ = "open" THEN "cancelling" ELSE @]
       ELSE [rs EXCEPT ![cur[p]].server = IF @ = "open" THEN "cancelled" ELSE @]

\* transport.CloseChannel: the channel stays tracked, without a request.
CloseTransport(p) == req' = Cancelled(req, p) /\ cur' = [cur EXCEPT ![p] = 0]

\* transport.CleanupChannel at peer p: every reference to the channel goes.
Unknown(rs, p) == [k \in DOMAIN rs |-> [rs[k] EXCEPT !.known = @ \ {p}]]

CleanupTransport(p) == req' = Unknown(req, p) /\ cur' = [cur EXCEPT ![p] = 0]

\* Mutant of OpenTransport: the ID of the request after this one is stored.
OpenTransportNextID(m) ==
  /\ Len(req) < MaxRequests
  /\ req' = Append(Cancelled(req, Receiver), NewRequest(m))
  /\ cur' = [cur EXCEPT ![Receiver] = Len(req) + 2]

\* transport.OpenChannel with message m, of the receiver of the data: the
\* request it has is cancelled, the next one made.
OpenTransport(m) ==
  /\ Len(req) < MaxRequests
  /\ req' = Append(Cancelled(req, Receiver), NewRequest(m))
  /\ cur' = [cur EXCEPT ![Receiver] = Len(req) + 1]

-----------------------------------------------------------------------------
\* What the managers do with messages.  Each operator gives the channel
\* afterwards, the answer if there is one, and whether an error is returned.

SetFinal(final) == [code |-> "SetRequiresFinalization", arg |-> IF final THEN 1 ELSE 0]

\* Mutant of AcceptedEvents: a paused responder is not resumed.
AcceptedEventsPaused(st, final) ==
  (IF final # st.RequiresFinalization THEN <<SetFinal(final)>> ELSE <<>>)
  \o (IF LeaveRequestPaused(st, final) /\ ~ResponderPaused(st)
      THEN <<Event("PauseResponder")>> ELSE <<>>)

\* The events of recordAcceptedValidationEvents for a channel read as st.
AcceptedEvents(st, final) ==
  (IF final # st.RequiresFinalization THEN <<SetFinal(final)>> ELSE <<>>)
  \o (IF LeaveRequestPaused(st, final)
      THEN IF ResponderPaused(st) THEN <<>> ELSE <<Event("PauseResponder")>>
      ELSE IF ResponderPaused(st) THEN <<Event("ResumeResponder")>> ELSE <<>>)

\* Mutant of ReceiveNew: only an error of the validation is told.
ReceiveNewUntold(accept, final) ==
  LET c == Fire(CreateNew, <<Event("Accept")>>) IN
  [c |-> IF accept THEN Fire(c, AcceptedEvents(c.state, final)) ELSE NoChannel,
   reply |-> Response("New", TRUE, FALSE), err |-> ~accept]

\* receiveNewRequest
ReceiveNew(accept, final) ==
  LET c == Fire(CreateNew, <<Event("Accept")>>) IN
  [c |-> IF accept THEN Fire(c, AcceptedEvents(c.state, final)) ELSE NoChannel,
   reply |-> Response("New", accept, FALSE), err |-> ~accept]

\* receiveRestartRequest
ReceiveRestart(c, accept, final) ==
  LET paused == LeaveRequestPaused(c.state, final) IN
  IF Gone(c) THEN [c |-> c, reply |-> Response("Restart", FALSE, FALSE), err |-> TRUE]
  ELSE [c |-> Fire(c, IF accept THEN <<Event("Restart")>> \o AcceptedEvents(c.state, final)
                      ELSE <<Event("Error")>>),
        reply |-> Response("Restart", accept, paused), err |-> ~accept]

\* OnRequestReceived, for the two requests that are answered.
Answer(m, accept, final) ==
  IF m.kind = "New" THEN ReceiveNew(accept, final)
  ELSE ReceiveRestart(ch.responder, accept, final)

\* The events of OnResponseReceived.
ResponseEvents(m) ==
  IF m.kind = "Cancel" THEN <<Event("Cancel")>>
  ELSE (IF m.voucher THEN <<Event("NewVoucherResult")>> ELSE <<>>)
    \o (IF ~m.accepted THEN <<Event("Error")>>
        ELSE IF m.kind = "Complete" /\ ~m.paused THEN <<Event("ResponderCompletes")>>
        ELSE (CASE m.kind = "New" -> <<Event("Accept")>>
                [] m.kind = "Restart" -> <<Event("Restart")>>
                [] m.kind = "Complete" -> <<Event("ResponderBeginsFinalization")>>
                [] OTHER -> <<>>)
          \o <<Event(IF m.paused THEN "PauseResponder" ELSE "ResumeResponder")>>)

\* The initiator's channel after OnResponseReceived; it returns an error just
\* when the channel was gone.
Responded(m) == FireIfLive(ch.initiator, ResponseEvents(m))

-----------------------------------------------------------------------------
Init ==
  /\ pull \in BOOLEAN
  /\ ch = [p \in Peers |-> NoChannel]
  /\ net = <<>>
  /\ req = <<>>
  /\ cur = [p \in Peers |-> 0]
  /\ job = "none"
  /\ spent = {}

\* OpenPullDataChannel: OnChannelOpened comes from within OpenChannel.
OpenPullDataChannel ==
  /\ pull /\ Missing(ch.initiator)
  /\ \/ /\ OpenTransport(Request("New"))
        /\ ch' = [ch EXCEPT !.initiator = Fire(CreateNew, <<Event("Opened")>>)]
        /\ UNCHANGED spent
     \/ /\ Pay({"failures"})
        /\ ch' = [ch EXCEPT !.initiator = Fire(CreateNew, <<Event("Error")>>)]
        /\ UNCHANGED <<req, cur>>
  /\ UNCHANGED <<pull, net, job>>

OpenPushDataChannel(how) ==
  /\ ~pull /\ Missing(ch.initiator)
  /\ Pay(Failure(how))
  /\ net' = Posted(net, how, Request("New"))
  /\ ch' = [ch EXCEPT !.initiator =
              IF how = "sent" THEN CreateNew ELSE Fire(CreateNew, <<Event("Error")>>)]
  /\ UNCHANGED <<pull, req, cur, job>>

-----------------------------------------------------------------------------
\* The graphsync transport calls the manager.

\* gsReqRecdHook at the sender of the data: the message of request k is handled
\* and answered in the response; an error ends the request.
ServeRequest(k, accept, final) ==
  LET m == req[k].msg
      a == IF pull THEN Answer(m, accept, final)
           ELSE [c |-> Responded(m), reply |-> NoMessage, err |-> Gone(ch.initiator)]
  IN
  /\ req[k].server = "sent"
  /\ pull \/ (accept /\ ~final)   \* only a pull is validated here
  /\ Pay(IF accept THEN {} ELSE {"rejects"})
  /\ ch' = [ch EXCEPT ![Sender] = a.c]
  /\ req' = [req EXCEPT ![k].reply = a.reply,
                        ![k].server = IF a.err THEN "over" ELSE "open",
                        ![k].outcome = IF a.err THEN "failed" ELSE "none",
                        ![k].known = IF a.err THEN @ ELSE @ \cup {Sender}]
  /\ cur' = IF a.err THEN cur ELSE [cur EXCEPT ![Sender] = k]
  /\ UNCHANGED <<pull, net, job>>

\* gsRequestProcessingListener: either end of request k reports the start.
TransferInitiated(k, p) ==
  /\ p \in req[k].known \ req[k].begun
  /\ (IF p = Receiver THEN req[k].client ELSE req[k].server) = "open"
  /\ req' = [req EXCEPT ![k].begun = @ \cup {p}]
  /\ ch' = [ch EXCEPT ![p] = FireIfLive(@, <<Event("TransferInitiated")>>)]
  /\ UNCHANGED <<pull, net, cur, job, spent>>

\* gsIncomingResponseHook: the answer in the response reaches the initiator of
\* a pull; an error terminates the request.
ReceiveReply(k) ==
  LET heard == "initiator" \in req[k].known IN
  /\ req[k].client = "open" /\ req[k].reply # NoMessage
  /\ req' = [req EXCEPT ![k].reply = NoMessage,
                        ![k].outcome = IF heard /\ Gone(ch.initiator) THEN "failed" ELSE @]
  /\ ch' = [ch EXCEPT !.initiator = IF heard THEN Responded(req[k].reply) ELSE @]
  /\ UNCHANGED <<pull, net, cur, job, spent>>

\* OnChannelCompleted with an error.
CompletedWithError(p) ==
  /\ ch' = [ch EXCEPT ![p] =
              IF @.state.Status = "Failing" THEN @ ELSE FireIfLive(@, <<Event("Error")>>)]
  /\ UNCHANGED <<net, job>>

\* Mutant of CompletedWithoutError: the message does not say that the responder
\* is paused.
CompletedUnpaused(p, how) ==
  LET final == ch.responder.state.RequiresFinalization IN
  IF p = "initiator" \/ Missing(ch[p])
  THEN /\ how = "sent"
       /\ ch' = [ch EXCEPT ![p] = FireIfLive(@, <<Event("FinishTransfer")>>)]
       /\ UNCHANGED <<net, job>>
  ELSE /\ job = "none"
       /\ net' = Posted(net, how, Response("Complete", TRUE, FALSE))
       /\ job' = (IF final THEN "BeginFinalizing" ELSE "Complete")
       /\ UNCHANGED ch

\* OnChannelCompleted without an error, up to the message of the responder.
CompletedWithoutError(p, how) ==
  LET final == ch.responder.state.RequiresFinalization IN
  IF p = "initiator" \/ Missing(ch[p])
  THEN /\ how = "sent"
       /\ ch' = [ch EXCEPT ![p] = FireIfLive(@, <<Event("FinishTransfer")>>)]
       /\ UNCHANGED <<net, job>>
  ELSE /\ job = "none"
       /\ net' = Posted(net, how, Response("Complete", TRUE, final))
       /\ IF how = "sent"
          THEN job' = (IF final THEN "BeginFinalizing" ELSE "Complete") /\ UNCHANGED ch
          ELSE /\ ch' = [ch EXCEPT ![p] = FireIfLive(@, <<Event("Disconnected")>>)]
               /\ UNCHANGED job

\* The end of OnChannelCompleted of the responder.
RecordCompleted ==
  /\ job # "none"
  /\ job' = "none"
  /\ ch' = [ch EXCEPT !.responder = FireIfLive(@, <<Event(job)>>)]
  /\ UNCHANGED <<pull, net, req, cur, spent>>

\* gsCompletedResponseListener: all data of request k was sent.
ResponseCompleted(k, how) ==
  /\ req[k].server = "open"
  /\ Pay(Failure(how))
  /\ req' = [req EXCEPT ![k].server = "over",
                        ![k].outcome = IF @ = "none" THEN "full" ELSE @]
  /\ IF Sender \in req[k].known THEN CompletedWithoutError(Sender, how)
     ELSE how = "sent" /\ UNCHANGED <<ch, net, job>>
  /\ UNCHANGED <<pull, cur>>

\* gsCompletedResponseListener: the data of request k could not be sent.
ResponseFailed(k) ==
  /\ req[k].server = "open"
  /\ Pay({"failures"})
  /\ req' = [req EXCEPT ![k].server = "over", ![k].outcome = "failed"]
  /\ IF Sender \in req[k].known THEN CompletedWithError(Sender)
     ELSE UNCHANGED <<ch, net, job>>
  /\ UNCHANGED <<pull, cur>>

\* consumeResponses at the receiver of the data: request k ended.
RequestCompleted(k, how) ==
  /\ req[k].client = "open" /\ req[k].outcome # "none" /\ req[k].reply = NoMessage
  /\ Pay(Failure(how))
  /\ req' = [req EXCEPT ![k].client = "over"]
  /\ IF req[k].outcome = "full" THEN CompletedWithoutError(Receiver, how)
     ELSE how = "sent" /\ CompletedWithError(Receiver)
  /\ UNCHANGED <<pull, cur>>

\* The receiver of the data cancelled request k: OnRequestCancelled.
RequestCancelled(k) ==
  /\ req[k].client = "cancelling"
  /\ req' = [req EXCEPT ![k].client = "cancelled"]
  /\ ch' = [ch EXCEPT ![Receiver] = FireIfLive(@, <<Event("RequestCancelled")>>)]
  /\ UNCHANGED <<pull, net, cur, job, spent>>

\* One end of request k learns that the other cancelled it, or is no more
\* (gsRequestorCancelledListener, RequestCancelledErr): nothing is recorded.
SeeCancelled(k) ==
  /\ \/ /\ req[k].client \in {"cancelling", "cancelled"}
        /\ req[k].server \in {"sent", "open"}
        /\ req' = [req EXCEPT ![k].server = "over"]
     \/ /\ req[k].server = "cancelled" /\ req[k].client = "open"
        /\ req' = [req EXCEPT ![k].client = "over"]
  /\ UNCHANGED <<pull, ch, net, cur, job, spent>>

-----------------------------------------------------------------------------
\* Messages arrive over the network.

Arrives(m) == m \in InFlight(net)
Taken(m) ==
  [x \in {y \in InFlight(net) : y # m \/ net[y] > 1} |->
    IF x = m THEN net[x] - 1 ELSE net[x]]

\* receiveRequest for a push: an accepted request opens the transport, with the
\* answer in the graphsync request; otherwise the answer is sent.
ReceiveRequest(m, accept, final, how) ==
  LET a == Answer(m, accept, final) IN
  /\ Arrives(m) /\ m.to = "responder" /\ m.kind \in {"New", "Restart"}
  /\ Pay(Failure(how) \cup IF accept THEN {} ELSE {"rejects"})
  /\ IF a.reply.accepted
     THEN IF how = "sent"
          THEN /\ OpenTransport(a.reply)
               /\ ch' = [ch EXCEPT !.responder = Fire(a.c, <<Event("Opened")>>)]
               /\ net' = Taken(m)
          ELSE /\ ch' = [ch EXCEPT !.responder = a.c]
               /\ net' = Taken(m)
               /\ UNCHANGED <<req, cur>>
     ELSE /\ ch' = [ch EXCEPT !.responder = a.c]
          /\ net' = Posted(Taken(m), how, a.reply)
          /\ IF how = "sent" THEN CloseTransport("responder") ELSE UNCHANGED <<req, cur>>
  /\ UNCHANGED <<pull, job>>

\* Mutant of ReceiveCancelRequest: no event is recorded.
ReceiveCancelUnrecorded(m) ==
  /\ Arrives(m) /\ m.to = "responder" /\ m.kind = "Cancel"
  /\ CleanupTransport("responder")
  /\ net' = Taken(m)
  /\ UNCHANGED <<pull, ch, job, spent>>

\* OnRequestReceived for a cancel.
ReceiveCancelRequest(m) ==
  /\ Arrives(m) /\ m.to = "responder" /\ m.kind = "Cancel"
  /\ CleanupTransport("responder")
  /\ ch' = [ch EXCEPT !.responder = FireIfLive(@, <<Event("Cancel")>>)]
  /\ net' = Taken(m)
  /\ UNCHANGED <<pull, job, spent>>

\* processUpdateVoucher, and the error path of receiveRequest.
ReceiveVoucherRequest(m) ==
  /\ Arrives(m) /\ m.kind = "Voucher"
  /\ ch' = [ch EXCEPT !.responder = FireIfLive(@, <<Event("NewVoucher")>>)]
  /\ net' = Taken(m)
  /\ IF Gone(ch.responder) THEN CloseTransport("responder") ELSE UNCHANGED <<req, cur>>
  /\ UNCHANGED <<pull, job, spent>>

\* receiveResponse
ReceiveResponse(m) ==
  /\ Arrives(m) /\ m.to = "initiator" /\ m.kind # "RestartExisting"
  /\ ch' = [ch EXCEPT !.initiator = Responded(m)]
  /\ net' = Taken(m)
  /\ IF Gone(ch.initiator) THEN CloseTransport("initiator") ELSE UNCHANGED <<req, cur>>
  /\ UNCHANGED <<pull, job, spent>>

\* openPullRestartChannel and openPushRestartChannel, bag being the network.
OpenRestartChannel(bag, how) ==
  IF pull /\ how = "sent"
  THEN /\ OpenTransport(Request("Restart"))
       /\ ch' = [ch EXCEPT !.initiator = Fire(@, <<Event("Opened")>>)]
       /\ net' = bag
  ELSE /\ net' = IF pull THEN bag ELSE Posted(bag, how, Request("Restart"))
       /\ UNCHANGED <<ch, req, cur>>

\* ReceiveRestartExistingChannelRequest
ReceiveRestartExisting(m, how) ==
  /\ Arrives(m) /\ m.kind = "RestartExisting"
  /\ Pay(Failure(how))
  /\ IF Gone(ch.initiator)
     THEN how = "sent" /\ net' = Taken(m) /\ UNCHANGED <<ch, req, cur>>
     ELSE OpenRestartChannel(Taken(m), how)
  /\ UNCHANGED <<pull, job>>

\* A stream breaks after SendMessage returned.
Lose(m) ==
  /\ Arrives(m)
  /\ Pay({"losses"})
  /\ net' = Taken(m)
  /\ UNCHANGED <<pull, ch, req, cur, job>>

-----------------------------------------------------------------------------
\* Calls of the users of the managers, and failures.

\* RestartDataTransferChannel, also called by the channel monitor.
RestartDataTransferChannel(p, accept, how) ==
  /\ ~Gone(ch[p])
  /\ Pay({"restarts"} \cup Failure(how) \cup IF accept THEN {} ELSE {"rejects"})
  /\ IF IsChannelCleaningUp(StatusOf(p))
     THEN /\ accept /\ how = "sent"
          /\ ch' = [ch EXCEPT ![p] = Fire(@, <<Event("CompleteCleanupOnRestart")>>)]
          /\ UNCHANGED <<net, req, cur>>
     ELSE IF p = "initiator"
     THEN accept /\ OpenRestartChannel(net, how)
     ELSE /\ net' = IF accept THEN Posted(net, how, Response("RestartExisting", FALSE, FALSE))
                    ELSE net
          /\ UNCHANGED <<ch, req, cur>>
  /\ UNCHANGED <<pull, job>>

\* CloseDataTransferChannel sends the event Cancel, and Disconnected when its
\* message fails; CloseDataTransferChannelWithError sends Error.
CloseDataTransferChannel(p, code, how) ==
  /\ ~Gone(ch[p])
  /\ Pay({IF code = "Cancel" THEN "closes" ELSE "aborts"} \cup Failure(how))
  /\ CloseTransport(p)
  /\ net' = Posted(net, how, CancelMessage(p))
  /\ ch' = [ch EXCEPT ![p] =
              Fire(@, <<Event(code)>> \o IF code = "Cancel" /\ how # "sent"
                                         THEN <<Event("Disconnected")>> ELSE <<>>)]
  /\ UNCHANGED <<pull, job>>

\* SendVoucher of the initiator, whose user sends the one final voucher the
\* responder waits for.
SendVoucher(how) ==
  /\ StatusOf("initiator") \in {"ResponderFinalizing", "ResponderFinalizingTransferFinished"}
  /\ ch.initiator.state.Vouchers = 1
  /\ Pay(Failure(how))
  /\ net' = Posted(net, how, Request("Voucher"))
  /\ ch' = [ch EXCEPT !.initiator =
              Fire(@, <<Event(IF how = "sent" THEN "NewVoucher" ELSE "Disconnected")>>)]
  /\ UNCHANGED <<pull, req, cur, job>>

\* SendVoucherResult of the responder.
SendVoucherResult(how) ==
  LET st == ch.responder.state
      m == [Response(IF InFinalization(st.Status) THEN "Complete" ELSE "VoucherResult",
                     IsAccepted(st.Status), ResponderPaused(st)) EXCEPT !.voucher = TRUE]
  IN
  /\ ~Gone(ch.responder)
  /\ Pay({"results"} \cup Failure(how))
  /\ net' = Posted(net, how, m)
  /\ ch' = [ch EXCEPT !.responder =
              Fire(@, <<Event(IF how = "sent" THEN "NewVoucherResult" ELSE "Disconnected")>>)]
  /\ UNCHANGED <<pull, req, cur, job>>

\* The final voucher came in finalization, and the user asks for nothing more.
Settles(st, final) == st.Status = "Finalizing" /\ st.Vouchers > 1 /\ ~final

\* UpdateValidationStatus of the responder: the settlement of a transfer, or
\* an update nobody waits for.  A failed message of a rejection
\* returns before the transport is closed.
UpdateValidationStatus(accept, final, how) ==
  LET st == ch.responder.state
      m == Response(IF st.Status = "Finalizing" THEN "Complete" ELSE "VoucherResult",
                    accept, LeaveRequestPaused(st, final))
  IN
  /\ ~Gone(ch.responder)
  /\ Pay((IF Settles(st, final) THEN {} ELSE {"updates"})
         \cup Failure(how) \cup IF accept THEN {} ELSE {"rejects"})
  /\ net' = Posted(net, how, m)
  /\ ch' = [ch EXCEPT !.responder =
              Fire(@, IF accept THEN AcceptedEvents(st, final) ELSE <<Event("Error")>>)]
  /\ IF ~accept /\ how = "sent" THEN CloseTransport("responder") ELSE UNCHANGED <<req, cur>>
  /\ UNCHANGED <<pull, job>>

\* cleanupConnection of a channel in a cleanup status, up to its event.
CleanupConnection(p) ==
  /\ ch[p].owed > 0
  /\ CleanupTransport(p)
  /\ ch' = [ch EXCEPT ![p] = Effect([@ EXCEPT !.owed = ch[p].owed - 1], Event("CleanupComplete"))]
  /\ UNCHANGED <<pull, net, job, spent>>

\* The process of peer p stops and starts again: the channel is stored, the
\* transport forgets its requests, and handlers under way are lost.
Crash(p) ==
  /\ ~Gone(ch[p])
  /\ Pay({"crashes"})
  /\ ch' = [ch EXCEPT ![p].owed = 0]
  /\ req' = [k \in DOMAIN req |->
              LET r == [req[k] EXCEPT !.known = @ \ {p}] IN
              IF p = Receiver
              THEN [r EXCEPT !.client = IF @ = "over" THEN @ ELSE "cancelled"]
              ELSE [r EXCEPT !.server = IF @ = "open" THEN "cancelled" ELSE @]]
  /\ cur' = [cur EXCEPT ![p] = 0]
  /\ job' = IF p = "responder" THEN "none" ELSE job
  /\ UNCHANGED <<pull, net>>

-----------------------------------------------------------------------------
Next ==
  \/ OpenPullDataChannel
  \/ \E how \in SendOutcomes : OpenPushDataChannel(how)
  \/ \E k \in DOMAIN req, accept, final \in BOOLEAN : ServeRequest(k, accept, final)
  \/ \E k \in DOMAIN req, p \in Peers : TransferInitiated(k, p)
  \/ \E k \in DOMAIN req : ReceiveReply(k)
  \/ RecordCompleted
  \/ \E k \in DOMAIN req, how \in SendOutcomes : ResponseCompleted(k, how)
  \/ \E k \in DOMAIN req : ResponseFailed(k)
  \/ \E k \in DOMAIN req, how \in SendOutcomes : RequestCompleted(k, how)
  \/ \E k \in DOMAIN req : RequestCancelled(k)
  \/ \E k \in DOMAIN req : SeeCancelled(k)
  \/ \E m \in InFlight(net), accept, final \in BOOLEAN, how \in SendOutcomes :
       ReceiveRequest(m, accept, final, how)
  \/ \E m \in InFlight(net) : ReceiveCancelRequest(m)
  \/ \E m \in InFlight(net) : ReceiveVoucherRequest(m)
  \/ \E m \in InFlight(net) : ReceiveResponse(m)
  \/ \E m \in InFlight(net), how \in SendOutcomes : ReceiveRestartExisting(m, how)
  \/ \E m \in InFlight(net) : Lose(m)
  \/ \E p \in Peers, accept \in BOOLEAN, how \in SendOutcomes :
       RestartDataTransferChannel(p, accept, how)
  \/ \E p \in Peers, code \in {"Cancel", "Error"}, how \in SendOutcomes :
       CloseDataTransferChannel(p, code, how)
  \/ \E how \in SendOutcomes : SendVoucher(how)
  \/ \E how \in SendOutcomes : SendVoucherResult(how)
  \/ \E accept, final \in BOOLEAN, how \in SendOutcomes :
       UpdateValidationStatus(accept, final, how)
  \/ \E p \in Peers : CleanupConnection(p)
  \/ \E p \in Peers : Crash(p)

Spec == Init /\ [][Next]_vars

\* The work under way: goroutines that run, streams that deliver, graphsync
\* requests that are served, and the users that exchange the final voucher and
\* settle.
Progress ==
  \/ OpenPullDataChannel
  \/ OpenPushDataChannel("sent")
  \/ RecordCompleted
  \/ SendVoucher("sent")
  \/ /\ Settles(ch.responder.state, FALSE)
     /\ UpdateValidationStatus(TRUE, FALSE, "sent")
  \/ \E p \in Peers : CleanupConnection(p)
  \/ \E k \in DOMAIN req :
       \/ \E final \in BOOLEAN : ServeRequest(k, TRUE, final)
       \/ \E p \in Peers : TransferInitiated(k, p)
       \/ ReceiveReply(k) \/ RequestCancelled(k) \/ SeeCancelled(k)
       \/ ResponseCompleted(k, "sent") \/ RequestCompleted(k, "sent")
  \/ \E m \in InFlight(net) :
       \/ \E final \in BOOLEAN : ReceiveRequest(m, TRUE, final, "sent")
       \/ ReceiveCancelRequest(m) \/ ReceiveVoucherRequest(m)
       \/ ReceiveResponse(m) \/ ReceiveRestartExisting(m, "sent")

\* All of that work ends, so it is enough that some of it always goes on.
FairSpec == Spec /\ WF_vars(Progress)

-----------------------------------------------------------------------------
\* Types of the state.
TypeOK ==
  /\ pull \in BOOLEAN
  /\ \A p \in Peers : ch[p] = NoChannel \/ (ch[p].state \in ChannelState /\ ch[p].owed \in Nat)
  /\ IsBag(net) /\ InFlight(net) \subseteq Messages
  /\ Len(req) <= MaxRequests
  /\ \A k \in DOMAIN req :
       /\ req[k].msg \in Messages /\ req[k].reply \in Messages \cup {NoMessage}
       /\ req[k].client \in {"open", "cancelling", "cancelled", "over"}
       /\ req[k].server \in {"sent", "open", "cancelled", "over"}
       /\ req[k].outcome \in {"none", "full", "failed"}
       /\ req[k].known \subseteq Peers /\ req[k].begun \subseteq Peers
  /\ cur \in [Peers -> 0 .. Len(req)]
  /\ job \in {"none", "BeginFinalizing", "Complete"}
  /\ spent \subseteq Disturbances

\* An initiator's channel is accepted only if the responder accepted it and has
\* it, in whatever order the responses of a request and its restarts come.
AcceptedIsMutual ==
  IsAccepted(StatusOf("initiator")) => ~Missing(ch.responder)

\* When the initiator's channel is complete, the responder's does not wait for
\* it any more: it is complete, about to be, or ended some other way.  (Between
\* the message and its record the responder may crash, or take the message for
\* failed when it went out: then it does wait.)
CompletedTogether ==
  /\ StatusOf("initiator") \in {"Completing", "Completed"}
  /\ spent \cap {"doubts", "crashes"} = {}
  =>
    \/ job = "Complete"
    \/ StatusOf("responder") \in CleanupStates \cup ChannelFinalityStates

\* However restarts, closes and crashes interleave, an open graphsync request
\* whose ID the receiver of the data maps to the channel is the one that its
\* dtChannel holds, so that closing the channel cancels it.
OpenRequestIsHeld ==
  \A k \in DOMAIN req :
    req[k].client = "open" /\ Receiver \in req[k].known => cur[Receiver] = k

\* A channel that is being cleaned up does not go back to its transfer, whatever
\* messages, ends of requests and calls still come.  Two steps of the code do take
\* one back: what OnChannelCompleted of the responder records after its message
\* (Complete and BeginFinalizing have FromAny transitions), and a second Complete
\* response, which takes an initiator from Completing to ResponderCompleted.
CleanupIsLast ==
  [][\A p \in Peers :
       /\ StatusOf(p) \in CleanupStates
       /\ ~(p = "responder" /\ job # "none" /\ job' = "none")
       /\ ~(p = "initiator" /\ StatusOf(p) = "Completing")
       => StatusOf(p)' \in CleanupStates \cup ChannelFinalityStates]_vars

\* A transfer that nothing disturbs completes at both peers, in finalization or
\* not, push or pull, whichever of the two ends of the request is first.
UndisturbedCompletes ==
  <>(spent # {} \/ \A p \in Peers : StatusOf(p) = "Completed")

\* The channel a user closes at one peer ends at the other peer too, if that
\* has it by then and no message is lost.  (A responder that requires
\* finalization may stay in Finalizing: see CleanupIsLast.)
CloseReachesOther ==
  \A p \in Peers :
    (CancelMessage(p) \in InFlight(net) /\ ~Missing(ch[Other(p)]))
      ~> (Gone(ch[Other(p)]) \/ StatusOf(Other(p)) = "Finalizing")

=============================================================================
