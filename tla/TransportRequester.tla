-------------------------- MODULE TransportRequester --------------------------
(***************************************************************************)
(* The graphsync transport at the peer that requests the data of one       *)
(* channel: the initiator of a pull, or the responder of a push.  Calls of *)
(* the manager (opens, restarts, closes, a stop), the hooks of graphsync,  *)
(* the goroutines that consume a request and that cancel one, and the      *)
(* cleanup of the channel's state machine all meet in one dtChannel, or in *)
(* several: a cleanup takes the dtChannel out of the transport's map, and  *)
(* whoever tracks the channel next makes a new one.                        *)
(*                                                                         *)
(* A blocking point of the code is a label of its own: a wait for c.lk,    *)
(* for dtChannelsLk, for c.opened, for a completed channel, for an errch.  *)
(* What runs between two of them without giving anything up is one step.   *)
(***************************************************************************)
EXTENDS Naturals, Sequences

CONSTANTS
  Calls,        \* calls of the manager
  Scenarios,    \* what they may be: a set of functions from Calls to Kinds
  Nil,          \* nobody holds a lock
  MaxRequests,  \* bound: graphsync requests made
  MaxObjects    \* bound: dtChannels made for the channel

Kinds == {"OpenPull", "RestartPull", "ReceivePush", "ReceiveRestart",
          "Close", "ReceiveCancel", "EndByPeer", "Shutdown"}

Openings == {"OpenPull", "RestartPull", "ReceivePush", "ReceiveRestart"}

ASSUME ScenariosAssumption == Scenarios \subseteq [Calls -> Kinds]
ASSUME BoundsAssumption == MaxRequests \in Nat \ {0} /\ MaxObjects \in Nat \ {0}
ASSUME NilAssumption == Nil \notin Calls

Requests == 1 .. MaxRequests
Objects == 1 .. MaxObjects

VARIABLES
  kind,        \* what each call is
  call,        \* where each call is, its context, and its local variables
  fsm,         \* the channel's state machine and its cleanup
  dtChannels,  \* t.dtChannels[chid]: the tracked dtChannel, or 0
  dtChannel,   \* the dtChannels made so far, and who holds their lk
  mapLk,       \* the call that keeps dtChannelsLk locked
  mapping,     \* the request IDs that requestIDToChannelID maps to the channel
  resources,   \* connection protected, store registered, hooks registered
  gs,          \* the graphsync requests made
  spoiled,     \* history: dtChannels whose opened channel got an ID that its
               \* open did not take
  overlap      \* history: a cleanup ran while an open or a hook was under way

vars == <<kind, call, fsm, dtChannels, dtChannel, mapLk, mapping, resources,
          gs, spoiled, overlap>>

-----------------------------------------------------------------------------
(* The data structures *)

\* newDTChannel: requestID, completed and opened are requests, or 0 for nil,
\* for no channel made yet, and for an empty buffer.
newDTChannel == [lk |-> Nil, requestID |-> 0, completed |-> 0, opened |-> 0,
                 storeRegistered |-> FALSE]

NewCall == [pc |-> "idle", ctxDone |-> FALSE, at |-> 0, errch |-> 0,
            completed |-> 0, failSafe |-> FALSE]

NewGsReq(c, o) == [by |-> c, of |-> o, hook |-> "queued", at |-> 0,
                   live |-> TRUE, failed |-> FALSE, executing |-> FALSE,
                   completed |-> FALSE, cancel |-> "no", canceller |-> Nil]

Init ==
  /\ kind \in Scenarios
  /\ call = [c \in Calls |-> NewCall]
  /\ fsm = [status |-> "none", step |-> "idle", again |-> FALSE, at |-> 0]
  /\ dtChannels = 0
  /\ dtChannel = << >>
  /\ mapLk = Nil
  /\ mapping = {}
  /\ resources = [protected |-> FALSE, store |-> FALSE, hooks |-> TRUE]
  /\ gs = << >>
  /\ spoiled = {}
  /\ overlap = FALSE

\* trackDTChannel: the tracked dtChannel, o, is made if there is none.
trackDTChannel(o) ==
  /\ mapLk = Nil
  /\ IF dtChannels # 0
       THEN o = dtChannels /\ UNCHANGED <<dtChannels, dtChannel>>
       ELSE /\ Len(dtChannel) < MaxObjects
            /\ o = Len(dtChannel) + 1
            /\ dtChannels' = o
            /\ dtChannel' = Append(dtChannel, newDTChannel)

\* The events that end the channel: Cancel and Error.  A channel that is being
\* cleaned up is cleaned up once more; one that ended takes no event.
EndEvent(f) ==
  CASE f.status = "live" -> [f EXCEPT !.status = "cleanup", !.step = "delete"]
    [] f.status = "cleanup" -> [f EXCEPT !.again = TRUE]
    [] OTHER -> f

\* cancel, under the lock: a goroutine cancels the request r with the context of
\* its caller, c.  Where the ID was cleared there is nothing to cancel.
cancel(c, r) ==
  IF r = 0 THEN gs ELSE [gs EXCEPT ![r].cancel = "asked", ![r].canceller = c]

\* dtChannel.cleanup, under the lock: the store and the mappings of the channel.
cleanup(o) ==
  /\ resources' = [resources EXCEPT
                     !.store = @ /\ ~dtChannel[o].storeRegistered]
  /\ mapping' = {}

\* CleanupChannel, its first half: the dtChannel leaves the map.
DeleteChannel ==
  /\ mapLk = Nil
  /\ dtChannels' = 0

At(c, l) == call[c].pc = l
Goto(c, l) == call' = [call EXCEPT ![c].pc = l]

\* What is left of a call that returned is its context, for the cancel it asked for.
Return(c) ==
  LET matters == call[c].ctxDone /\ \E r \in DOMAIN gs : gs[r].canceller = c IN
  call' = [call EXCEPT ![c] = [NewCall EXCEPT !.pc = "done", !.ctxDone = matters]]
Free(o) == dtChannel[o].lk = Nil

-----------------------------------------------------------------------------
(* Opens: OpenPullDataChannel, openPullRestartChannel, and receiveRequest    *)
(* for a push and for its restart                                            *)

\* The manager reads or creates the channel.  A restart by the API of a channel
\* that terminated does nothing, of one in cleanup it runs the cleanup again; a
\* restart request for a channel that terminated is answered by closing it.
Begin(c) ==
  /\ At(c, "idle") /\ kind[c] \in Openings
  /\ CASE kind[c] \in {"OpenPull", "ReceivePush"} ->
            /\ fsm.status = "none"
            /\ fsm' = [fsm EXCEPT !.status = "live"]
            /\ Goto(c, "useStore")
       [] kind[c] = "RestartPull" ->
            /\ fsm.status # "none"
            /\ fsm' = IF fsm.status = "cleanup" THEN EndEvent(fsm) ELSE fsm
            /\ IF fsm.status = "live" THEN Goto(c, "useStore") ELSE Return(c)
       [] kind[c] = "ReceiveRestart" ->
            /\ fsm.status # "none"
            /\ fsm' = fsm
            /\ Goto(c, IF fsm.status = "ended" THEN "find" ELSE "useStore")
  /\ UNCHANGED <<dtChannels, dtChannel, mapLk, mapping, resources, gs, spoiled>>

\* The transport configurer calls UseStore.
UseStore(c) ==
  /\ At(c, "useStore")
  /\ \E o \in Objects : /\ trackDTChannel(o)
                        /\ call' = [call EXCEPT ![c].pc = "register", ![c].at = o]
  /\ UNCHANGED <<fsm, mapLk, mapping, resources, gs, spoiled>>

\* useStore, which only takes storeLk, and Protect.  Registering a name twice is
\* an error, and the configurer's result is not looked at.
Protect(c) ==
  /\ At(c, "register")
  /\ resources' = [resources EXCEPT !.store = TRUE, !.protected = TRUE]
  /\ dtChannel' = IF resources.store THEN dtChannel
                  ELSE [dtChannel EXCEPT ![call[c].at].storeRegistered = TRUE]
  /\ Goto(c, "track")
  /\ UNCHANGED <<fsm, dtChannels, mapLk, mapping, gs, spoiled>>

OpenChannel(c) ==
  /\ At(c, "track")
  /\ \E o \in Objects : /\ trackDTChannel(o)
                        /\ call' = [call EXCEPT ![c].pc = "lock", ![c].at = o]
  /\ UNCHANGED <<fsm, mapLk, mapping, resources, gs, spoiled>>

\* open takes the lock, and cancels the request that the dtChannel holds; l is
\* where it goes from there.
LockThen(c, l) ==
  LET o == call[c].at
      r == dtChannel[o].requestID IN
  /\ At(c, "lock") /\ Free(o)
  /\ call' = [call EXCEPT ![c].pc = IF r = 0 THEN "request" ELSE l,
                          ![c].errch = r,
                          ![c].completed = dtChannel[o].completed]
  /\ dtChannel' = [dtChannel EXCEPT ![o].lk = c, ![o].requestID = 0]
  /\ gs' = cancel(c, r)
  /\ UNCHANGED <<fsm, dtChannels, mapLk, mapping, resources, spoiled>>

\* Mutant of Lock: does not wait for the cancelled request to complete.
LockNoWait(c) == LockThen(c, "errch")

\* Mutant of Lock: leaves the request it replaces running.
LockNoCancel(c) ==
  /\ At(c, "lock") /\ Free(call[c].at)
  /\ Goto(c, "request")
  /\ dtChannel' = [dtChannel EXCEPT ![call[c].at].lk = c]
  /\ UNCHANGED <<fsm, dtChannels, mapLk, mapping, resources, gs, spoiled>>

Lock(c) == LockThen(c, "completed")

\* Mutant of FailOpen: without the deferred Unlock.
FailOpenLocked(c) ==
  /\ Return(c)
  /\ UNCHANGED dtChannel
  /\ fsm' = IF kind[c] = "OpenPull" THEN EndEvent(fsm) ELSE fsm

\* The open fails: the lock is released, and OpenPullDataChannel records an
\* error.  A restart and a received request only return it.
FailOpen(c) ==
  /\ Return(c)
  /\ dtChannel' = [dtChannel EXCEPT ![call[c].at].lk = Nil]
  /\ fsm' = IF kind[c] = "OpenPull" THEN EndEvent(fsm) ELSE fsm

\* waitForCompleteHook: the completed channel, or maxGSCancelWait, or the context.
WaitForCompleteHook(c) ==
  /\ At(c, "completed")
  /\ \/ /\ gs[call[c].completed].completed
        /\ Goto(c, "errch")
        /\ UNCHANGED <<fsm, dtChannel>>
     \/ /\ call' = [call EXCEPT ![c].pc = "errch", ![c].failSafe = TRUE]
        /\ UNCHANGED <<fsm, dtChannel>>
     \/ call[c].ctxDone /\ FailOpen(c)
  /\ UNCHANGED <<dtChannels, mapLk, mapping, resources, gs, spoiled>>

\* The cancel's result: an error of the cancel fails the open.
WaitForCancel(c) ==
  /\ At(c, "errch")
  /\ \/ /\ gs[call[c].errch].cancel = "done"
        /\ Goto(c, "request")
        /\ UNCHANGED <<fsm, dtChannel>>
     \/ /\ gs[call[c].errch].cancel = "failed" \/ call[c].ctxDone
        /\ FailOpen(c)
  /\ UNCHANGED <<dtChannels, mapLk, mapping, resources, gs, spoiled>>

\* Mutant of Request: keeps the completed channel of the request before.
RequestKeepsCompleted(c) ==
  LET r == Len(gs) + 1
      o == call[c].at IN
  /\ At(c, "request") /\ r <= MaxRequests
  /\ gs' = Append(gs, NewGsReq(c, o))
  /\ dtChannel' = [dtChannel EXCEPT ![o].completed = IF @ = 0 THEN r ELSE @]
  /\ Goto(c, "opened")
  /\ UNCHANGED <<fsm, dtChannels, mapLk, mapping, resources, spoiled>>

\* A new completed channel, and gs.Request.
Request(c) ==
  LET r == Len(gs) + 1
      o == call[c].at IN
  /\ At(c, "request") /\ r <= MaxRequests
  /\ gs' = Append(gs, NewGsReq(c, o))
  /\ dtChannel' = [dtChannel EXCEPT ![o].completed = r]
  /\ Goto(c, "opened")
  /\ UNCHANGED <<fsm, dtChannels, mapLk, mapping, resources, spoiled>>

\* The ID that the hook sent, whichever request it is of; executeGsRequest runs
\* in a goroutine with the channels of the request that this call made.
Opened(c) ==
  LET o == call[c].at
      r == dtChannel[o].opened IN
  /\ At(c, "opened") /\ r # 0
  /\ dtChannel' = [dtChannel EXCEPT ![o].opened = 0, ![o].requestID = r,
                                    ![o].lk = Nil]
  /\ gs' = [gs EXCEPT ![dtChannel[o].completed].executing = TRUE]
  /\ Return(c)
  /\ UNCHANGED <<fsm, dtChannels, mapLk, mapping, resources, spoiled>>

\* Mutant of GiveUp: waits for the hook whatever the context does.
NeverGivesUp(c) == FALSE /\ UNCHANGED vars

\* The context ends first: the hook's ID stays, or will stay, in opened.
GiveUp(c) ==
  /\ At(c, "opened") /\ call[c].ctxDone
  /\ FailOpen(c)
  /\ spoiled' = spoiled \cup {call[c].at}
  /\ UNCHANGED <<dtChannels, mapLk, mapping, resources, gs>>

Open(c) == \/ Begin(c) \/ UseStore(c) \/ Protect(c)
           \/ OpenChannel(c) \/ Lock(c) \/ WaitForCompleteHook(c)
           \/ WaitForCancel(c) \/ Request(c) \/ Opened(c) \/ GiveUp(c)

-----------------------------------------------------------------------------
(* Closes, a received cancel, and the stop of the manager *)

\* CloseChannel: getDTChannel, which an untracked channel makes fail.
FindChannel(c) ==
  /\ \/ At(c, "find")
     \/ At(c, "idle") /\ kind[c] = "Close" /\ fsm.status # "none"
  /\ mapLk = Nil
  /\ call' = [call EXCEPT ![c].pc = IF dtChannels = 0 THEN "event" ELSE "close",
                          ![c].at = dtChannels]
  /\ UNCHANGED <<fsm, dtChannels, dtChannel, mapLk, mapping, resources, gs, spoiled>>

\* close: the lock is only held to cancel the request.
CloseLocked(c) ==
  LET o == call[c].at
      r == dtChannel[o].requestID IN
  /\ At(c, "close") /\ Free(o)
  /\ dtChannel' = [dtChannel EXCEPT ![o].requestID = 0]
  /\ gs' = cancel(c, r)
  /\ call' = [call EXCEPT ![c].pc = "closing", ![c].errch = r]
  /\ UNCHANGED <<fsm, dtChannels, mapLk, mapping, resources, spoiled>>

\* Without a request errch is nil, and only the context ends the wait.
WaitForClose(c) ==
  /\ At(c, "closing")
  /\ \/ call[c].errch # 0 /\ gs[call[c].errch].cancel \in {"done", "failed"}
     \/ call[c].ctxDone
  /\ Goto(c, "event")
  /\ UNCHANGED <<fsm, dtChannels, dtChannel, mapLk, mapping, resources, gs, spoiled>>

\* The Cancel event; a restart request that was refused fires none.
CancelEvent(c) ==
  /\ At(c, "event")
  /\ fsm' = IF kind[c] = "ReceiveRestart" THEN fsm ELSE EndEvent(fsm)
  /\ Return(c)
  /\ UNCHANGED <<dtChannels, dtChannel, mapLk, mapping, resources, gs, spoiled>>

\* A cancel request: the handler cleans the transport up before its event.
ReceiveCancel(c) ==
  /\ At(c, "idle") /\ kind[c] = "ReceiveCancel" /\ fsm.status # "none"
  /\ DeleteChannel
  /\ call' = [call EXCEPT ![c].pc = IF dtChannels = 0 THEN "event" ELSE "cleanup",
                          ![c].at = dtChannels]
  /\ UNCHANGED <<fsm, dtChannel, mapLk, mapping, resources, gs, spoiled>>

CleanupReceived(c) ==
  /\ At(c, "cleanup") /\ Free(call[c].at)
  /\ cleanup(call[c].at)
  /\ Goto(c, "event")
  /\ UNCHANGED <<fsm, dtChannels, dtChannel, mapLk, gs, spoiled>>

\* Anything else that ends the channel: a rejection, a cancel response, or the
\* completion of the transfer.
EndByPeer(c) ==
  /\ At(c, "idle") /\ kind[c] = "EndByPeer" /\ fsm.status # "none"
  /\ fsm' = EndEvent(fsm)
  /\ Return(c)
  /\ UNCHANGED <<dtChannels, dtChannel, mapLk, mapping, resources, gs, spoiled>>

\* Shutdown: no hook runs from here on, and dtChannelsLk is held to the end.
Shutdown(c) ==
  /\ At(c, "idle") /\ kind[c] = "Shutdown" /\ mapLk = Nil
  /\ resources' = [resources EXCEPT !.hooks = FALSE]
  /\ IF dtChannels = 0
       THEN Return(c) /\ UNCHANGED mapLk
       ELSE /\ call' = [call EXCEPT ![c].pc = "shutdown", ![c].at = dtChannels]
            /\ mapLk' = c
  /\ UNCHANGED <<fsm, dtChannels, dtChannel, mapping, gs, spoiled>>

ShutdownLocked(c) ==
  LET o == call[c].at
      r == dtChannel[o].requestID IN
  /\ At(c, "shutdown") /\ Free(o)
  /\ dtChannel' = [dtChannel EXCEPT ![o].requestID = 0]
  /\ gs' = cancel(c, r)
  /\ call' = [call EXCEPT ![c].pc = "stopping", ![c].errch = r]
  /\ UNCHANGED <<fsm, dtChannels, mapLk, mapping, resources, spoiled>>

WaitForShutdown(c) ==
  /\ At(c, "stopping")
  /\ \/ call[c].errch = 0
     \/ call[c].errch # 0 /\ gs[call[c].errch].cancel \in {"done", "failed"}
     \/ call[c].ctxDone
  /\ mapLk' = Nil
  /\ Return(c)
  /\ UNCHANGED <<fsm, dtChannels, dtChannel, mapping, resources, gs, spoiled>>

End(c) == \/ FindChannel(c) \/ CloseLocked(c) \/ WaitForClose(c) \/ CancelEvent(c)
          \/ ReceiveCancel(c) \/ CleanupReceived(c) \/ EndByPeer(c)
          \/ Shutdown(c) \/ ShutdownLocked(c) \/ WaitForShutdown(c)

\* Contexts of API calls end; a message is handled with context.Background().
\* The context that a request was made with may end it later: RequestEnds.
Background == {"ReceivePush", "ReceiveRestart", "ReceiveCancel"}

CtxDone(c) ==
  /\ ~call[c].ctxDone /\ call[c].pc # "idle" /\ kind[c] \notin Background
  /\ \/ call[c].pc # "done"
     \/ \E r \in DOMAIN gs : gs[r].canceller = c
  /\ call' = [call EXCEPT ![c].ctxDone = TRUE]
  /\ UNCHANGED <<fsm, dtChannels, dtChannel, mapLk, mapping, resources, gs, spoiled>>

-----------------------------------------------------------------------------
(* cleanupConnection, the handler of the cleanup statuses *)

CleanupDelete ==
  /\ fsm.step = "delete"
  /\ DeleteChannel
  /\ fsm' = [fsm EXCEPT !.step = IF dtChannels = 0 THEN "unprotect" ELSE "clean",
                        !.at = dtChannels]
  /\ UNCHANGED <<call, dtChannel, mapLk, mapping, resources, gs, spoiled>>

CleanupChannel ==
  /\ fsm.step = "clean" /\ Free(fsm.at)
  /\ cleanup(fsm.at)
  /\ fsm' = [fsm EXCEPT !.step = "unprotect"]
  /\ UNCHANGED <<call, dtChannels, dtChannel, mapLk, gs, spoiled>>

\* Mutant of Unprotect: the protection stays.
UnprotectForgets ==
  /\ fsm.step = "unprotect"
  /\ fsm' = [fsm EXCEPT !.step = "trigger"]
  /\ UNCHANGED <<call, dtChannels, dtChannel, mapLk, mapping, resources, gs, spoiled>>

Unprotect ==
  /\ fsm.step = "unprotect"
  /\ resources' = [resources EXCEPT !.protected = FALSE]
  /\ fsm' = [fsm EXCEPT !.step = "trigger"]
  /\ UNCHANGED <<call, dtChannels, dtChannel, mapLk, mapping, gs, spoiled>>

\* CleanupComplete, which comes after the events that queued meanwhile.
CleanupComplete ==
  /\ fsm.step = "trigger"
  /\ fsm' = IF fsm.again THEN [fsm EXCEPT !.step = "delete", !.again = FALSE]
            ELSE [fsm EXCEPT !.step = "idle", !.status = "ended", !.at = 0]
  /\ UNCHANGED <<call, dtChannels, dtChannel, mapLk, mapping, resources, gs, spoiled>>

Cleanup == CleanupDelete \/ CleanupChannel \/ Unprotect \/ CleanupComplete

-----------------------------------------------------------------------------
(* Graphsync: the hook of an outgoing request, its end, its cancellation *)

\* gsOutgoingRequestHook calls OnChannelOpened, which fails where the channel
\* terminated.
HookBegins(r) ==
  /\ gs[r].hook = "queued" /\ resources.hooks
  /\ gs' = [gs EXCEPT ![r].hook = IF fsm.status = "ended" THEN "bail" ELSE "track"]
  /\ UNCHANGED <<call, fsm, dtChannels, dtChannel, mapLk, mapping, resources, spoiled>>

\* Mutant of HookTracks: does not signal a channel that was opened before.
HookTracksOnce(r) ==
  /\ gs[r].hook = "track"
  /\ \E o \in Objects :
       /\ trackDTChannel(o)
       /\ gs' = [gs EXCEPT ![r].hook = IF mapping = {} THEN "signal" ELSE "over",
                           ![r].at = o]
       /\ spoiled' = IF o = gs[r].of THEN spoiled ELSE spoiled \cup {o}
  /\ mapping' = mapping \cup {r}
  /\ UNCHANGED <<call, fsm, mapLk, resources>>

\* trackDTChannel, and gsReqOpened up to its send.
HookTracks(r) ==
  /\ gs[r].hook = "track"
  /\ \E o \in Objects :
       /\ trackDTChannel(o)
       /\ gs' = [gs EXCEPT ![r].hook = "signal", ![r].at = o]
       /\ spoiled' = IF o = gs[r].of THEN spoiled ELSE spoiled \cup {o}
  /\ mapping' = mapping \cup {r}
  /\ UNCHANGED <<call, fsm, mapLk, resources>>

\* c.opened <- requestID, a buffer of one.
HookSignals(r) ==
  /\ gs[r].hook = "signal" /\ dtChannel[gs[r].at].opened = 0
  /\ dtChannel' = [dtChannel EXCEPT ![gs[r].at].opened = r]
  /\ gs' = [gs EXCEPT ![r].hook = "over", ![r].at = 0]
  /\ UNCHANGED <<call, fsm, dtChannels, mapLk, mapping, resources, spoiled>>

\* The error path: CleanupChannel.
HookBails(r) ==
  /\ gs[r].hook = "bail"
  /\ DeleteChannel
  /\ gs' = [gs EXCEPT ![r].hook = IF dtChannels = 0 THEN "over" ELSE "clean",
                      ![r].at = dtChannels]
  /\ UNCHANGED <<call, fsm, dtChannel, mapLk, mapping, resources, spoiled>>

HookCleans(r) ==
  /\ gs[r].hook = "clean" /\ Free(gs[r].at)
  /\ cleanup(gs[r].at)
  /\ gs' = [gs EXCEPT ![r].hook = "over", ![r].at = 0]
  /\ UNCHANGED <<call, fsm, dtChannels, dtChannel, mapLk, spoiled>>

\* A request made after the hooks were unregistered is not reported.
NoHook(r) ==
  /\ gs[r].hook = "queued" /\ ~resources.hooks
  /\ gs' = [gs EXCEPT ![r].hook = "over"]
  /\ UNCHANGED <<call, fsm, dtChannels, dtChannel, mapLk, mapping, resources, spoiled>>

Hook(r) == \/ HookBegins(r) \/ HookTracks(r) \/ HookSignals(r)
           \/ HookBails(r) \/ HookCleans(r) \/ NoHook(r)

\* The request ends: with an error, or without one that executeGsRequest reports
\* (all data came, the responder cancelled it, or the context of its open ended).
RequestEnds(r) ==
  /\ gs[r].hook = "over" /\ gs[r].live
  /\ \E failed \in {FALSE, gs[r].executing} :
       gs' = [gs EXCEPT ![r].live = FALSE, ![r].failed = failed]
  /\ UNCHANGED <<call, fsm, dtChannels, dtChannel, mapLk, mapping, resources, spoiled>>

\* executeGsRequest: the callback, then onComplete.  OnChannelCompleted records an
\* error unless the channel is failing already.
ExecuteGsRequest(r) ==
  /\ gs[r].executing /\ ~gs[r].live /\ ~gs[r].completed
  /\ fsm' \in (IF gs[r].failed
                 THEN {EndEvent(fsm)} \cup (IF fsm.status = "live" THEN {} ELSE {fsm})
                 ELSE {fsm})
  /\ gs' = [gs EXCEPT ![r].completed = TRUE, ![r].failed = FALSE]
  /\ UNCHANGED <<call, dtChannels, dtChannel, mapLk, mapping, resources, spoiled>>

\* The goroutine of cancel: gs.Cancel ends the request, or its context ends.
CancelRequest(r) ==
  /\ gs[r].cancel = "asked"
  /\ \/ gs' = [gs EXCEPT ![r].cancel = "done", ![r].live = FALSE,
                         ![r].canceller = Nil]
     \/ /\ call[gs[r].canceller].ctxDone
        /\ gs' = [gs EXCEPT ![r].cancel = "failed", ![r].canceller = Nil]
  /\ UNCHANGED <<call, fsm, dtChannels, dtChannel, mapLk, mapping, resources, spoiled>>

-----------------------------------------------------------------------------
(* The specification *)

Opening(c) == kind[c] \in Openings /\ call[c].pc \notin
                {"idle", "find", "close", "closing", "event", "done"}

InHook(r) == gs[r].hook \in {"track", "signal"}

CleansUp == \/ fsm.status \in {"cleanup", "ended"}
            \/ \E c \in Calls : kind[c] = "ReceiveCancel" /\ ~At(c, "idle")

Overlaps == /\ CleansUp
            /\ \/ \E c \in Calls : Opening(c)
               \/ \E r \in DOMAIN gs : InHook(r)

Step == \/ \E c \in Calls : Open(c) \/ End(c) \/ CtxDone(c)
        \/ Cleanup
        \/ \E r \in DOMAIN gs : \/ Hook(r) \/ RequestEnds(r)
                               \/ ExecuteGsRequest(r) \/ CancelRequest(r)

Next == Step /\ UNCHANGED kind /\ overlap' = (overlap \/ Overlaps')

Spec == Init /\ [][Next]_vars

\* Every goroutine that can go on does; a call once it was made.  No step can be
\* taken for ever, so fairness of all of them together is that of each.
Progress == /\ \/ \E c \in Calls : (Open(c) \/ End(c)) /\ ~At(c, "idle")
               \/ Cleanup
               \/ \E r \in DOMAIN gs : \/ Hook(r) \/ ExecuteGsRequest(r)
                                      \/ CancelRequest(r)
            /\ UNCHANGED kind /\ overlap' = (overlap \/ Overlaps')

FairSpec == Spec /\ WF_vars(Progress)

-----------------------------------------------------------------------------
(* Properties *)

Over(c) == call[c].pc \in {"idle", "done"}

\* Types, and that a lock is held by an open that is between its Lock() and its
\* deferred Unlock().
TypeOK ==
  /\ kind \in Scenarios
  /\ dtChannels \in 0 .. Len(dtChannel)
  /\ mapping \subseteq DOMAIN gs
  /\ spoiled \subseteq DOMAIN dtChannel
  /\ fsm.status \in {"none", "live", "cleanup", "ended"}
  /\ \A o \in DOMAIN dtChannel : \A c \in Calls :
       dtChannel[o].lk = c <=>
         call[c].at = o /\ call[c].pc \in {"completed", "errch", "request", "opened"}

\* A dtChannel holds at most one graphsync request that nobody cancels: open
\* cancels the one before, under the lock that makes two opens take turns
\* (graphsync.go, open).  Excepted is a dtChannel whose opened channel kept an ID
\* that its open did not take.
OneRequest ==
  \A o \in DOMAIN dtChannel \ spoiled : \A r, s \in DOMAIN gs :
    /\ gs[r].of = o /\ gs[r].live /\ gs[r].cancel = "no"
    /\ gs[s].of = o /\ gs[s].live /\ gs[s].cancel = "no"
    => r = s

\* The ID a dtChannel holds is that of the last request made through it, though
\* the open and the hook only meet in c.opened (same exception).
OwnRequest ==
  \A o \in DOMAIN dtChannel \ spoiled :
    dtChannel[o].requestID \in {0, dtChannel[o].completed}

\* When an open makes its request, the callback of the request it cancelled was
\* called, so no late end of the old request meets the new one, unless the
\* fail-safe of waitForCompleteHook ended the wait (same exception).
OldIsOver ==
  \A c \in Calls :
    /\ At(c, "opened") /\ call[c].errch # 0
    /\ ~call[c].failSafe /\ call[c].at \notin spoiled
    => gs[call[c].errch].completed

\* A channel that terminated holds nothing: not in the map, no ID mapped, its
\* store unregistered and its connection unprotected (cleanupConnection), unless
\* an open or a hook overlapped the cleanup.  A received cancel cleans up too, and
\* may still be at it.
ReleasedAtEnd ==
  fsm.status = "ended" /\ ~overlap /\ (\A c \in Calls : ~At(c, "cleanup")) =>
    /\ dtChannels = 0 /\ mapping = {}
    /\ ~resources.protected /\ ~resources.store

Quiet == (\A c \in Calls : Over(c)) /\ fsm.step = "idle"

\* Nobody waits for ever on locks: again and again either everything is over, the
\* cleanup of the state machine included, or a call with a live context is
\* under way.
AllReturn == []<>(Quiet \/ \E c \in Calls : ~Over(c) /\ ~call[c].ctxDone)

Trouble == \/ fsm.status # "live" \/ ~resources.hooks
           \/ spoiled # {} \/ \E c \in Calls : call[c].ctxDone

\* Without a cleanup, a stop or an ended context every open returns by itself:
\* restarts that wait for one another and for cancelled requests all get their
\* turn.
OpenReturns == []<>(Trouble \/ \A c \in Calls : ~Opening(c))

=============================================================================
