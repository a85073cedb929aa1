---------------------------- MODULE PauseProtocol ----------------------------
(***************************************************************************)
(* Pausing and resuming a transfer that was accepted.  Each peer records   *)
(* for itself and for the other whether it paused the channel, and each    *)
(* end of the graphsync request is paused or not.  Users pause and resume, *)
(* the responder's user updates the validation status, the data limit      *)
(* pauses the responder, and the initiator restarts the transfer.  Pauses  *)
(* travel as messages of the network, which keeps no order; resumes ride   *)
(* on the graphsync request, in order.                                     *)
(*                                                                         *)
(* The initiator is "I", the responder "R".  The peer that sends the data  *)
(* serves the graphsync request the other made.  A call of a user is split *)
(* where it leaves the manager or the transport; handlers of messages and  *)
(* hooks run between its steps.  In graphsync, resuming an end that is not *)
(* paused is an error, and the message that goes with it is not sent.      *)
(*                                                                         *)
(* The code does not always keep the peers in agreement.  "excuses" names  *)
(* what happened where it does not:                                        *)
(*  "unsent"     a message that could not be sent;                         *)
(*  "overtaken"  a message handled after a later one of the same peer;     *)
(*  "raced"      a hook or handler that decides at a peer while a call of  *)
(*               that peer's user is on its way, or the other way round;   *)
(*  "restarted"  a restart that loses a resume on its way, that starts a   *)
(*               request of a requester that is paused, that starts a      *)
(*               response at the limit running (ForcePause alone counts)   *)
(*               or one that never ran paused (xferStarted), or whose      *)
(*               paused answer hides that the initiator is paused too.     *)
(***************************************************************************)
EXTENDS Naturals, Sequences, FiniteSets

CONSTANTS
  MaxCalls,     \* bound: calls of users
  MaxRestarts,  \* bound: restarts
  MaxFailures,  \* bound: messages that cannot be sent
  MaxData,      \* bound: blocks
  Limits        \* data limits of an update; 0 is none

ASSUME LimitsAssumption == Limits \subseteq Nat
ASSUME BoundsAssumption == {MaxCalls, MaxRestarts, MaxFailures, MaxData} \subseteq Nat

Peers == {"I", "R"}
Other(p) == IF p = "I" THEN "R" ELSE "I"

VARIABLES
  pull,      \* the initiator receives the data
  rec,       \* InitiatorPaused and ResponderPaused at each peer
  gsPaused,  \* the end of the graphsync request at each peer is paused
  request,   \* "open", "new" until the server has the new one, or "failed"
  dt,        \* the dtChannel of the server
  data,      \* the responder's count of blocks, and its data limit
  net,       \* messages of the network
  ext,       \* messages on the graphsync request, to each peer, in order
  call,      \* the call of each peer's user
  hook,      \* the block hook of the responder has still to pause its end:
             \* "none", "current", or "old" once the request was replaced
  late,      \* the initiator's receiver has still to pause its end
  seen,      \* history: the stamp of the latest message each peer handled
  used,      \* calls, restarts and failures so far, and the latest stamp
  excuses    \* history: what keeps the two peers from agreeing

vars == <<pull, rec, gsPaused, request, dt, data, net, ext, call, hook, late,
          seen, used, excuses>>

server == IF pull THEN "R" ELSE "I"
requester == Other(server)

\* force, limit and paused are what an update is called with and what it read.
NoCall == [op |-> "none", step |-> 0, n |-> 0, force |-> FALSE, limit |-> 0,
           paused |-> FALSE, stays |-> FALSE]

\* An accepted transfer that runs, or that the responder's validator left
\* paused (ForcePause).
Init ==
  /\ pull \in BOOLEAN
  /\ \E force \in BOOLEAN :
       /\ rec = [p \in Peers |-> [self |-> p = "R" /\ force,
                                  other |-> p = "I" /\ force]]
       /\ gsPaused = [p \in Peers |-> p = "R" /\ force]
       /\ dt = [requesterCancelled |-> FALSE, pendingExtensions |-> << >>,
                xferStarted |-> ~(pull /\ force)]
  /\ request = "open"
  /\ data \in [count : {0}, limit : Limits]
  /\ net = {}
  /\ ext = [p \in Peers |-> << >>]
  /\ call = [p \in Peers |-> NoCall]
  /\ hook = "none"
  /\ late = FALSE
  /\ seen = [p \in Peers |-> 0]
  /\ used = [calls |-> 0, restarts |-> 0, failures |-> 0, stamp |-> 0]
  /\ excuses = {}

Update(paused, n) == [kind |-> "update", paused |-> paused, n |-> n]
Restart == [kind |-> "restart", paused |-> FALSE, n |-> 0]

\* A hook or a handler decides at p while a call of p's user is on its way.
Races(p) == IF call[p] = NoCall THEN {} ELSE {"raced"}
Deciding(p) == (p = "R" /\ hook # "none") \/ (p = "I" /\ late)

-----------------------------------------------------------------------------
(* The transport *)

\* dtChannel.pause: the server of a request that was cancelled has none to pause.
pause(p) ==
  gsPaused' = IF p = server /\ dt.requesterCancelled THEN gsPaused
              ELSE [gsPaused EXCEPT ![p] = TRUE]

\* dtChannel.resume with a message for the other peer.  At the server of a
\* cancelled request the message waits for the next one.
resume(p, m) ==
  IF p = server /\ dt.requesterCancelled
    THEN /\ dt' = [dt EXCEPT !.pendingExtensions = Append(@, m)]
         /\ UNCHANGED <<gsPaused, ext>>
    ELSE /\ dt' = IF p = server THEN [dt EXCEPT !.xferStarted = TRUE] ELSE dt
         /\ gsPaused' = [gsPaused EXCEPT ![p] = FALSE]
         /\ ext' = IF gsPaused[p]
                     THEN [ext EXCEPT ![Other(p)] = Append(@, m)] ELSE ext

-----------------------------------------------------------------------------
(* PauseDataTransferChannel, ResumeDataTransferChannel *)

Starts(p, op) ==
  /\ call[p] = NoCall /\ used.calls < MaxCalls /\ request # "failed"
  /\ used' = [used EXCEPT !.calls = @ + 1, !.stamp = @ + 1]
  /\ call' = [call EXCEPT ![p].op = op, ![p].step = 1, ![p].n = used.stamp + 1]
  /\ excuses' = IF Deciding(p) THEN excuses \cup {"raced"} ELSE excuses
Goes(p, op, step) ==
  /\ call[p].op = op /\ call[p].step = step
  /\ call' = [call EXCEPT ![p].step = step + 1]
Ends(p, op, step) ==
  /\ call[p].op = op /\ call[p].step = step
  /\ call' = [call EXCEPT ![p] = NoCall]

PauseTransport(p) ==
  /\ Starts(p, "pause")
  /\ pause(p)
  /\ UNCHANGED <<pull, rec, request, dt, data, net, ext, hook, late, seen>>

PauseSend(p) ==
  /\ Goes(p, "pause", 1)
  /\ net' = net \cup {[to |-> Other(p), msg |-> Update(TRUE, call[p].n)]}
  /\ UNCHANGED <<pull, rec, gsPaused, request, dt, data, ext, hook, late, seen,
                 used, excuses>>

\* The send fails: the channel is marked disconnected, and nothing is recorded.
PauseSendFails(p) ==
  /\ Ends(p, "pause", 1) /\ used.failures < MaxFailures
  /\ used' = [used EXCEPT !.failures = @ + 1]
  /\ excuses' = excuses \cup {"unsent"}
  /\ UNCHANGED <<pull, rec, gsPaused, request, dt, data, net, ext, hook, late, seen>>

PauseRecord(p) ==
  /\ Ends(p, "pause", 2)
  /\ rec' = [rec EXCEPT ![p].self = TRUE]
  /\ UNCHANGED <<pull, gsPaused, request, dt, data, net, ext, hook, late, seen,
                 used, excuses>>

\* The resume rides on the request; an error of the transport is only logged.
ResumeTransport(p) ==
  /\ Starts(p, "resume")
  /\ resume(p, Update(FALSE, used.stamp + 1))
  /\ UNCHANGED <<pull, rec, request, data, net, hook, late, seen>>

ResumeRecord(p) ==
  /\ Ends(p, "resume", 1)
  /\ rec' = [rec EXCEPT ![p].self = FALSE]
  /\ UNCHANGED <<pull, gsPaused, request, dt, data, net, ext, hook, late, seen,
                 used, excuses>>

-----------------------------------------------------------------------------
(* UpdateValidationStatus, at the responder *)

\* LeaveRequestPaused, on the state that was read.
LeaveRequestPaused(force, limit) == force \/ (limit # 0 /\ data.count >= limit)

\* The state is read, and decides what is recorded and what the transport does.
UpdateRead(force, limit) ==
  LET stays == LeaveRequestPaused(force, limit) IN
  /\ call["R"] = NoCall /\ used.calls < MaxCalls /\ request # "failed"
  /\ used' = [used EXCEPT !.calls = @ + 1, !.stamp = @ + 1]
  /\ call' = [call EXCEPT !["R"] =
                [op |-> "validate", step |-> 1, n |-> used.stamp + 1,
                 force |-> force, limit |-> limit, paused |-> rec["R"].self,
                 stays |-> stays]]
  /\ excuses' = IF Deciding("R") THEN excuses \cup {"raced"} ELSE excuses
  /\ UNCHANGED <<pull, rec, gsPaused, request, dt, data, net, ext, hook, late, seen>>

\* recordAcceptedValidationEvents: the limit, and the pause where it changes.
UpdateRecord ==
  LET u == call["R"] IN
  /\ Goes("R", "validate", 1)
  /\ data' = [data EXCEPT !.limit = u.limit]
  /\ rec' = IF u.stays = u.paused THEN rec ELSE [rec EXCEPT !["R"].self = u.stays]
  /\ UNCHANGED <<pull, gsPaused, request, dt, net, ext, hook, late, seen, used,
                 excuses>>

\* handleTransportUpdate: a resume carries the response.
UpdateResume ==
  LET u == call["R"] IN
  /\ Ends("R", "validate", 2) /\ ~u.stays /\ u.paused
  /\ resume("R", Update(FALSE, u.n))
  /\ UNCHANGED <<pull, rec, request, data, net, hook, late, seen, used, excuses>>

\* Otherwise the response is a message of the network, and a new pause follows it.
UpdateSend ==
  LET u == call["R"] IN
  /\ u.stays \/ ~u.paused
  /\ IF u.stays /\ ~u.paused THEN Goes("R", "validate", 2)
                             ELSE Ends("R", "validate", 2)
  /\ net' = net \cup {[to |-> "I", msg |-> Update(u.stays, u.n)]}
  /\ UNCHANGED <<pull, rec, gsPaused, request, dt, data, ext, hook, late, seen,
                 used, excuses>>

UpdateSendFails ==
  LET u == call["R"] IN
  /\ Ends("R", "validate", 2) /\ (u.stays \/ ~u.paused)
  /\ used.failures < MaxFailures
  /\ used' = [used EXCEPT !.failures = @ + 1]
  /\ excuses' = excuses \cup {"unsent"}
  /\ UNCHANGED <<pull, rec, gsPaused, request, dt, data, net, ext, hook, late, seen>>

UpdatePause ==
  /\ Ends("R", "validate", 3)
  /\ pause("R")
  /\ UNCHANGED <<pull, rec, request, dt, data, net, ext, hook, late, seen, used,
                 excuses>>

-----------------------------------------------------------------------------
(* The data limit: OnDataQueued of a pull, OnDataReceived of a push *)

Flows == request = "open" /\ \A p \in Peers : ~gsPaused[p]

Block ==
  LET exceeded == data.limit # 0 /\ data.count + 1 >= data.limit IN
  /\ Flows /\ hook = "none" /\ data.count < MaxData
  /\ data' = [data EXCEPT !.count = @ + 1]
  /\ rec' = IF exceeded THEN [rec EXCEPT !["R"].self = TRUE] ELSE rec
  /\ hook' = IF exceeded THEN "current" ELSE "none"
  /\ excuses' = IF exceeded THEN excuses \cup Races("R") ELSE excuses
  /\ UNCHANGED <<pull, gsPaused, request, dt, net, ext, call, late, seen, used>>

\* Mutants: the update is not attached; ErrPause is not handled.
HookPausesSilently ==
  /\ hook # "none"
  /\ hook' = "none"
  /\ gsPaused' = IF hook = "old" THEN gsPaused ELSE [gsPaused EXCEPT !["R"] = TRUE]
  /\ UNCHANGED <<pull, rec, request, dt, data, net, ext, call, late, seen, used, excuses>>
HookGoesOn ==
  LET m == Update(TRUE, used.stamp + 1) IN
  /\ hook # "none"
  /\ hook' = "none"
  /\ used' = [used EXCEPT !.stamp = @ + 1]
  /\ net' = IF pull THEN net ELSE net \cup {[to |-> "I", msg |-> m]}
  /\ ext' = IF pull /\ hook = "current" THEN [ext EXCEPT !["I"] = Append(@, m)] ELSE ext
  /\ excuses' = excuses \cup Races("R")
  /\ UNCHANGED <<pull, rec, gsPaused, request, dt, data, call, late, seen>>

\* ErrPause: the hook pauses, and says so with the block, or in a message.
HookPauses ==
  LET m == Update(TRUE, used.stamp + 1) IN
  /\ hook # "none"
  /\ hook' = "none"
  /\ used' = [used EXCEPT !.stamp = @ + 1]
  /\ gsPaused' = IF hook = "old" THEN gsPaused ELSE [gsPaused EXCEPT !["R"] = TRUE]
  /\ net' = IF pull THEN net ELSE net \cup {[to |-> "I", msg |-> m]}
  /\ ext' = IF pull /\ hook = "current" THEN [ext EXCEPT !["I"] = Append(@, m)] ELSE ext
  /\ excuses' = excuses \cup Races("R")
  /\ UNCHANGED <<pull, rec, request, dt, data, call, late, seen>>

\* The receiver's message cannot be sent: the hook terminates the request.
HookSendFails ==
  /\ hook # "none" /\ ~pull /\ used.failures < MaxFailures
  /\ hook' = "none"
  /\ used' = [used EXCEPT !.failures = @ + 1]
  /\ request' = IF hook = "current" THEN "failed" ELSE request
  /\ excuses' = excuses \cup {"unsent"}
  /\ UNCHANGED <<pull, rec, gsPaused, dt, data, net, ext, call, late, seen>>

-----------------------------------------------------------------------------
(* Messages *)

\* pauseOther and resumeOther.
Records(p, m) ==
  /\ rec' = [rec EXCEPT ![p].other = m.paused]
  /\ seen' = [seen EXCEPT ![p] = IF m.n > @ THEN m.n ELSE @]
Overtaken(p, m) == IF m.n < seen[p] THEN {"overtaken"} ELSE {}

\* A resume that finds the peer itself paused is answered with ErrPause.
ErrPause(p, m) == ~m.paused /\ rec[p].self

\* receiveRequest and receiveResponse: ErrPause pauses the peer's end again.
ReceiveMessage(d) ==
  /\ d \in net /\ d.msg.kind = "update"
  /\ net' = net \ {d}
  /\ Records(d.to, d.msg)
  /\ excuses' = excuses \cup Overtaken(d.to, d.msg) \cup
                  IF ErrPause(d.to, d.msg) THEN Races(d.to) ELSE {}
  /\ late' = (late \/ ErrPause(d.to, d.msg))
  /\ UNCHANGED <<pull, gsPaused, request, dt, data, ext, call, hook, used>>

LatePause ==
  /\ late
  /\ late' = FALSE
  /\ pause("I")
  /\ excuses' = excuses \cup Races("I")
  /\ UNCHANGED <<pull, rec, request, dt, data, net, ext, call, hook, seen, used>>

\* gsRequestUpdatedHook at the server, where ErrPause does nothing.
RequestUpdated ==
  /\ request = "open" /\ ext[server] # << >>
  /\ ext' = [ext EXCEPT ![server] = Tail(@)]
  /\ Records(server, Head(ext[server]))
  /\ excuses' = excuses \cup Overtaken(server, Head(ext[server]))
  /\ UNCHANGED <<pull, gsPaused, request, dt, data, net, call, hook, late, used>>

\* gsIncomingResponseHook at the requester, where ErrPause ends the request.
IncomingResponse ==
  LET m == Head(ext[requester]) IN
  /\ request = "open" /\ ext[requester] # << >>
  /\ ext' = [ext EXCEPT ![requester] = Tail(@)]
  /\ Records(requester, m)
  /\ excuses' = excuses \cup Overtaken(requester, m)
  /\ request' = IF ErrPause(requester, m) THEN "failed" ELSE request
  /\ UNCHANGED <<pull, gsPaused, dt, data, net, call, hook, late, used>>

-----------------------------------------------------------------------------
(* Restarts *)

\* OpenChannel at the requester: the old request is cancelled with all it carries,
\* the server hears of it, and a new request with message ms is on its way.
\* "unsaid" holds when the new request does not repeat a pause that is recorded.
Reopens(ms, unsaid) ==
  /\ request' = "new"
  /\ ext' = [p \in Peers |-> IF p = server THEN ms ELSE << >>]
  /\ dt' = [dt EXCEPT !.requesterCancelled = TRUE]
  /\ hook' = IF hook = "none" THEN "none" ELSE "old"
  /\ excuses' = excuses \cup Races("R") \cup Races("I") \cup
                  IF unsaid \/ \E p \in Peers : ext[p] # << >> THEN {"restarted"} ELSE {}

\* openPullRestartChannel, and openPushRestartChannel.
RestartPull ==
  /\ pull /\ request = "open" /\ used.restarts < MaxRestarts
  /\ used' = [used EXCEPT !.restarts = @ + 1]
  /\ Reopens(<< >>, rec["I"].self)
  /\ gsPaused' = [gsPaused EXCEPT !["I"] = FALSE]
  /\ UNCHANGED <<pull, rec, data, net, call, late, seen>>

RestartPush ==
  /\ ~pull /\ request = "open" /\ used.restarts < MaxRestarts
  /\ used' = [used EXCEPT !.restarts = @ + 1]
  /\ net' = net \cup {[to |-> "R", msg |-> Restart]}
  /\ UNCHANGED <<pull, rec, gsPaused, request, dt, data, ext, call, hook, late,
                 seen, excuses>>

\* The responder of a push validates the restart, opens a new request with its
\* response, and pauses it where the validator forces a pause.
ReceiveRestart(d, force) ==
  LET stays == LeaveRequestPaused(force, data.limit) IN
  /\ d \in net /\ d.msg.kind = "restart" /\ request = "open"
  /\ net' = net \ {d}
  /\ rec' = [rec EXCEPT !["R"].self = stays]
  /\ used' = [used EXCEPT !.stamp = @ + 1]
  /\ Reopens(<<Update(stays, used.stamp + 1)>>, stays /\ ~force)
  /\ gsPaused' = [gsPaused EXCEPT !["R"] = force]
  /\ UNCHANGED <<pull, data, call, late, seen>>

\* Mutant: gsDataRequestRcvd keeps the messages it has sent.
ServesKeepsPending(errPause, ms) ==
  LET paused == errPause \/ ~dt.xferStarted IN
  /\ request' = "open"
  /\ gsPaused' = [gsPaused EXCEPT ![server] = paused]
  /\ dt' = [dt EXCEPT !.requesterCancelled = FALSE,
                      !.xferStarted = ~paused \/ dt.xferStarted]
  /\ ext' = [ext EXCEPT ![server] = IF pull THEN @ ELSE Tail(@),
                        ![requester] = ms \o dt.pendingExtensions]

\* gsReqRecdHook, its end: the response starts paused on ErrPause, and also when
\* the transfer never started; what was kept for the requester is sent.
Serves(errPause, ms) ==
  LET paused == errPause \/ ~dt.xferStarted IN
  /\ request' = "open"
  /\ gsPaused' = [gsPaused EXCEPT ![server] = paused]
  /\ dt' = [requesterCancelled |-> FALSE, pendingExtensions |-> << >>,
            xferStarted |-> ~paused \/ dt.xferStarted]
  /\ ext' = [ext EXCEPT ![server] = IF pull THEN @ ELSE Tail(@),
                        ![requester] = ms \o dt.pendingExtensions]

\* The responder of a pull validates the restart; its response rides back.
ReceivePull(force) ==
  LET stays == LeaveRequestPaused(force, data.limit) IN
  /\ pull /\ request = "new"
  /\ rec' = [rec EXCEPT !["R"].self = stays]
  /\ used' = [used EXCEPT !.stamp = @ + 1]
  /\ Serves(force, <<Update(stays, used.stamp + 1)>>)
  /\ excuses' = excuses \cup Races("R") \cup
                  IF ~force /\ (stays \/ ~dt.xferStarted) THEN {"restarted"} ELSE {}
  /\ UNCHANGED <<pull, data, net, call, hook, late, seen>>

\* Mutant: ErrPause is taken for a response without an error.
ReceivePushRuns ==
  LET m == Head(ext["I"]) IN
  /\ ~pull /\ request = "new"
  /\ Records("I", m)
  /\ excuses' = excuses \cup Overtaken("I", m) \cup Races("I")
  /\ Serves(FALSE, << >>)
  /\ UNCHANGED <<pull, data, net, call, hook, late, used>>

\* The initiator of a push handles the response the new request carries.
ReceivePush ==
  LET m == Head(ext["I"]) IN
  /\ ~pull /\ request = "new"
  /\ Records("I", m)
  /\ excuses' = excuses \cup Overtaken("I", m) \cup Races("I") \cup
                  IF m.paused /\ rec["I"].self THEN {"restarted"} ELSE {}
  /\ Serves(ErrPause("I", m), << >>)
  /\ UNCHANGED <<pull, data, net, call, hook, late, used>>

-----------------------------------------------------------------------------
(* The specification *)

Next ==
  \/ \E p \in Peers : \/ PauseTransport(p) \/ PauseSend(p) \/ PauseSendFails(p)
                      \/ PauseRecord(p) \/ ResumeTransport(p) \/ ResumeRecord(p)
  \/ \E force \in BOOLEAN, limit \in Limits : UpdateRead(force, limit)
  \/ UpdateRecord \/ UpdateResume \/ UpdateSend \/ UpdateSendFails \/ UpdatePause
  \/ Block \/ HookPauses \/ HookSendFails
  \/ \E d \in net : ReceiveMessage(d) \/ \E force \in BOOLEAN : ReceiveRestart(d, force)
  \/ LatePause \/ RequestUpdated \/ IncomingResponse
  \/ RestartPull \/ RestartPush \/ ReceivePush
  \/ \E force \in BOOLEAN : ReceivePull(force)

Spec == Init /\ [][Next]_vars

-----------------------------------------------------------------------------
(* Properties *)

\* Nobody has anything left to do, but for a new block or a new call.
Settled == /\ request = "open" /\ net = {} /\ hook = "none" /\ ~late
           /\ \A p \in Peers : call[p] = NoCall /\ ext[p] = << >>

Unexcused == excuses = {}

\* Messages that overtake one another confuse what a peer records of the other,
\* but nothing else.
InOrderOrNot == excuses \subseteq {"overtaken"}

\* The transfers TLC follows: after an excuse that no property allows, only those
\* with few calls.
Followed == InOrderOrNot \/ used.calls < MaxCalls - 1

\* Types.  Messages are kept for the requester only while it has no request
\* (gsDataRequestRcvd hands them all over).
TypeOK ==
  /\ rec \in [Peers -> [self : BOOLEAN, other : BOOLEAN]]
  /\ gsPaused \in [Peers -> BOOLEAN]
  /\ request \in {"open", "new", "failed"} /\ hook \in {"none", "current", "old"}
  /\ dt \in [requesterCancelled : BOOLEAN, xferStarted : BOOLEAN,
             pendingExtensions : Seq([kind : {"update"}, paused : BOOLEAN, n : Nat])]
  /\ dt.pendingExtensions # << >> => dt.requesterCancelled

\* The peers agree on who paused the channel.  Whatever calls, updates, limits and
\* restarts met, once their messages have arrived in order each peer records of the other
\* (pauseOther, resumeOther) what the other records of itself (pause, resume,
\* recordAcceptedValidationEvents, the data limit).
RecordsAgree ==
  Settled /\ Unexcused => \A p \in Peers : rec[p].other = rec[Other(p)].self

\* The transport does what is recorded.  Once all is settled, and in whatever order
\* the messages came, each end of the graphsync request is paused exactly when its
\* peer is recorded paused: no transfer hangs paused that its user sees running,
\* and none runs that they see paused (PauseChannel, ResumeChannel, ErrPause of
\* the hooks and of receiveResponse, gsReqRecdHook).
TransportAgrees ==
  Settled /\ InOrderOrNot => \A p \in Peers : gsPaused[p] = rec[p].self

\* No data moves while a peer is recorded paused, except under a call or a hook of
\* that peer that is still at work, also while messages of the other, an update or
\* a restart are on their way, and in whatever order they come (the blocks
\* OnDataQueued and OnDataReceived report).
NoDataWhilePaused ==
  [][data'.count # data.count /\ InOrderOrNot =>
       \A p \in Peers : rec[p].self => call[p] # NoCall \/ Deciding(p)]_vars

=============================================================================
