--------------------------- MODULE ChannelMonitor ---------------------------
(***************************************************************************)
(* The monitor of one channel at its initiator (channelmonitor.go): it     *)
(* watches the channel's events, restarts the transfer after transport     *)
(* errors, and fails it when the responder does not answer in time or too  *)
(* many restarts moved no data.                                            *)
(*                                                                         *)
(* A monitoredChannel that shut down is removed from the Monitor's map by  *)
(* a goroutine of its own, and a later restart of the channel may add a    *)
(* new one: mon[i] is the i-th.  Its goroutines are the subscriber, two    *)
(* timers, the debouncer, the restart loop and the shutdown; each is a     *)
(* field of mon[i] that says how far it is.                                *)
(***************************************************************************)
EXTENDS ChannelEvents, Sequences

CONSTANTS Happenings,              \* what else happens to the channel
          Monitors,                \* 1 .. n, the monitors ever added
          MaxConsecutiveRestarts,  \* of the configuration
          AcceptTimeout,           \* whether the configuration enables it
          CompleteTimeout,         \* whether the configuration enables it
          MaxNotices,              \* bound: events not yet published
          MaxErrors,               \* bound: transport errors
          MaxRestarts,             \* bound: restarts asked for by others
          MaxStops,                \* bound: calls of manager.Stop
          MaxCrashes               \* bound: crashes of the process

ASSUME MonitorAssumption ==
  /\ Happenings \subseteq
       {"Accept", "TransferInitiated", "DataSent", "FinishTransfer", "ResponderCompletes",
        "ResponderBeginsFinalization", "Cancel"}
  /\ Monitors \subseteq Nat \ {0} /\ 1 \in Monitors
  /\ MaxConsecutiveRestarts \in Nat \ {0}
  /\ AcceptTimeout \in BOOLEAN /\ CompleteTimeout \in BOOLEAN
  /\ {MaxNotices, MaxErrors, MaxRestarts, MaxStops, MaxCrashes}
       \subseteq Nat

VARIABLES chst,      \* the channel, each event in effect when sent
          notices,   \* events applied and not yet published to subscribers
          mon,       \* the monitors
          tracked,   \* the one in the Monitor's map, or 0
          caller,    \* the manager in OpenPushDataChannel ("opening"), in
                     \* somebody's restart ("open"), in neither ("no")
          stopped,   \* manager.Stop was called
          errors,    \* transport errors so far
          restarts,  \* restarts asked for by others so far
          crashes

vars == <<chst, notices, mon, tracked, caller, stopped, errors, restarts, crashes>>

\* A monitoredChannel before start.
NotAdded ==
  [live |-> FALSE,       \* cancel # nil
   accept |-> "off",     \* the accept timer
   complete |-> "off",   \* the complete timer
   debounced |-> FALSE,  \* restartChannel is scheduled
   loop |-> "idle",      \* where restartChannel is
   restarting |-> FALSE, \* restartedAt is not zero
   queued |-> FALSE,     \* restartQueued
   count |-> 0,          \* consecutiveRestarts
   ending |-> FALSE,     \* go mc.Shutdown()
   removing |-> FALSE,   \* go mc.onShutdown(mc.chid)
   closing |-> FALSE,    \* CloseDataTransferChannelWithError is due
   closes |-> 0,         \* history: closes begun
   barren |-> 0,         \* history: restarts sent since data moved
   owed |-> FALSE]       \* history: an error no restart began after

Added ==
  [NotAdded EXCEPT !.live = TRUE, !.accept = IF AcceptTimeout THEN "running" ELSE "off"]

\* OpenPushDataChannel up to its SendMessage: the channel exists and is added.
Init ==
  /\ chst = NewChannelState
  /\ notices = <<>>
  /\ mon = [i \in Monitors |-> IF i = 1 THEN Added ELSE NotAdded]
  /\ tracked = 1
  /\ caller = "opening"
  /\ stopped = FALSE
  /\ errors = 0 /\ restarts = 0 /\ crashes = 0

-----------------------------------------------------------------------------
\* An event takes effect and is queued for the subscribers; a rejected one,
\* and one for a channel that terminated, leaves no trace.
Fire(code) ==
  IF IsChannelTerminated(chst.Status) \/ Destination(code, chst.Status) = "Rejected"
  THEN UNCHANGED <<chst, notices>>
  ELSE /\ chst' = Apply(chst, Event(code))
       /\ notices' = Append(notices, [code |-> code, status |-> chst'.Status])

\* What else happens to the channel, seen from the monitor.  Data moves, and
\* ends, after the transfer was initiated.
ChannelEvent(code) ==
  /\ ~IsChannelTerminated(chst.Status)
  /\ Len(notices) < MaxNotices
  /\ code \in {"DataSent", "FinishTransfer", "ResponderBeginsFinalization",
               "ResponderCompletes"} => chst.Status \notin {"Requested", "Queued"}
  /\ Fire(code)
  /\ UNCHANGED <<mon, tracked, caller, stopped, errors, restarts, crashes>>

TransportError ==
  /\ errors < MaxErrors /\ Len(notices) < MaxNotices
  /\ ~IsChannelTerminated(chst.Status)
  /\ errors' = errors + 1
  /\ Fire("SendDataError")
  /\ UNCHANGED <<mon, tracked, caller, stopped, restarts, crashes>>

\* The cleanup of the channel completes.
CleanupDone ==
  /\ chst.Status \in CleanupStates
  /\ Fire("CleanupComplete")
  /\ UNCHANGED <<mon, tracked, caller, stopped, errors, restarts, crashes>>

-----------------------------------------------------------------------------
\* Mutant of React: the end of the channel is overlooked.
ReactOnly(m, n) ==
  IF n.code = "SendDataError" THEN [m EXCEPT !.debounced = TRUE, !.owed = TRUE]
  ELSE IF n.code = "Accept" THEN [m EXCEPT !.accept = IF @ = "running" THEN "off" ELSE @]
  ELSE m

\* Mutant of React: an Accept does not stop the timer.
ReactKeepsTimer(m, n) ==
  IF IsChannelCleaningUp(n.status) \/ IsChannelTerminated(n.status)
  THEN [m EXCEPT !.ending = TRUE]
  ELSE IF n.code = "SendDataError" THEN [m EXCEPT !.debounced = TRUE, !.owed = TRUE]
  ELSE m

\* The subscriber's reaction to a notice n in monitor m.
React(m, n) ==
  IF IsChannelCleaningUp(n.status) \/ IsChannelTerminated(n.status)
  THEN [m EXCEPT !.ending = TRUE]
  ELSE CASE n.code = "Accept" ->
              [m EXCEPT !.accept = IF @ = "running" THEN "off" ELSE @]
         [] n.code = "SendDataError" ->
              [m EXCEPT !.debounced = TRUE, !.owed = TRUE]
         [] n.code = "FinishTransfer" ->
              [m EXCEPT !.complete = IF CompleteTimeout THEN "running" ELSE @]
         [] n.code = "DataSent" -> [m EXCEPT !.count = 0, !.barren = 0]
         [] OTHER -> m

\* The next event is published; a monitor that shut down has unsubscribed.
Publish ==
  /\ notices # <<>>
  /\ notices' = Tail(notices)
  /\ mon' = [i \in Monitors |->
               IF mon[i].live THEN React(mon[i], Head(notices)) ELSE mon[i]]
  /\ UNCHANGED <<chst, tracked, caller, stopped, errors, restarts, crashes>>

\* Mutant of ShutDown: a second one removes again.
ShutDownAgain(m) == [m EXCEPT !.live = FALSE, !.removing = TRUE]

\* Shutdown: once only; the timers' goroutines exit, and the removal from the
\* map is left to another.  The histories end here.
ShutDown(m) ==
  LET off(timer) == IF timer = "running" THEN "off" ELSE timer IN
  IF ~m.live THEN m
  ELSE [m EXCEPT !.live = FALSE, !.removing = TRUE,
                 !.accept = off(@), !.complete = off(@),
                 !.barren = 0, !.owed = FALSE]

\* Mutant of CloseAndShutDown: what Shutdown returns is ignored.
CloseAlways(m) == [ShutDown(m) EXCEPT !.closing = TRUE, !.closes = @ + 1]

\* closeChannelAndShutdown: the first shutdown closes the channel.
CloseAndShutDown(m) ==
  IF m.live THEN [ShutDown(m) EXCEPT !.closing = TRUE, !.closes = @ + 1] ELSE m

Only(i, m) ==
  /\ mon' = [mon EXCEPT ![i] = m]
  /\ UNCHANGED <<chst, notices, tracked, caller, stopped, errors, restarts, crashes>>

ShutdownOnEnd(i) ==
  /\ mon[i].ending
  /\ Only(i, [ShutDown(mon[i]) EXCEPT !.ending = FALSE])

\* onMonitoredChannelShutdown
Remove(i) ==
  /\ mon[i].removing
  /\ mon' = [mon EXCEPT ![i].removing = FALSE]
  /\ tracked' = 0
  /\ UNCHANGED <<chst, notices, caller, stopped, errors, restarts, crashes>>

\* A timer expires, and later its goroutine acts.
Expire(i, timer) ==
  /\ mon[i].live /\ mon[i][timer] = "running"
  /\ Only(i, [mon[i] EXCEPT ![timer] = "fired"])

TimedOut(i, timer) ==
  /\ mon[i][timer] = "fired"
  /\ Only(i, [CloseAndShutDown(mon[i]) EXCEPT ![timer] = "off"])

\* CloseDataTransferChannelWithError fires Error on the channel.  It gets the
\* Monitor's context: after manager.Stop its read of the channel may fail.
CloseChannel(i) ==
  /\ mon[i].closing
  /\ mon' = [mon EXCEPT ![i].closing = FALSE]
  /\ \/ Fire("Error")
     \/ stopped /\ UNCHANGED <<chst, notices>>
  /\ UNCHANGED <<tracked, caller, stopped, errors, restarts, crashes>>

-----------------------------------------------------------------------------
\* restartChannel: start the loop, or leave a note to the one that runs.
RestartChannel(i) ==
  LET m == [mon[i] EXCEPT !.debounced = FALSE] IN
  /\ mon[i].debounced
  /\ Only(i, IF m.restarting THEN [m EXCEPT !.queued = TRUE]
             ELSE [m EXCEPT !.restarting = TRUE, !.loop = "count"])

\* Mutant of CountRestart: off by one.
CountRestartLate(i) ==
  LET m == [mon[i] EXCEPT !.count = @ + 1] IN
  /\ mon[i].loop = "count"
  /\ Only(i, IF m.count > MaxConsecutiveRestarts + 1
             THEN [CloseAndShutDown(m) EXCEPT !.loop = "idle"]
             ELSE [m EXCEPT !.loop = "connect", !.owed = FALSE])

\* doRestartChannel: one more consecutive restart, or one too many.
CountRestart(i) ==
  LET m == [mon[i] EXCEPT !.count = @ + 1] IN
  /\ mon[i].loop = "count"
  /\ Only(i, IF m.count > MaxConsecutiveRestarts
             THEN [CloseAndShutDown(m) EXCEPT !.loop = "idle"]
             ELSE [m EXCEPT !.loop = "connect", !.owed = FALSE])

\* ConnectTo: it fails once the monitor's context is cancelled.
ConnectTo(i, ok) ==
  /\ mon[i].loop = "connect"
  /\ ok => mon[i].live
  /\ Only(i, [mon[i] EXCEPT !.loop = IF ok THEN "read" ELSE "count"])

\* RestartDataTransferChannel reads the channel: a channel that terminated is
\* left alone, one in cleanup is told to finish it.
ReadChannel(i) ==
  /\ mon[i].loop = "read"
  /\ mon' = [mon EXCEPT ![i].loop =
       IF IsChannelTerminated(chst.Status) \/ IsChannelCleaningUp(chst.Status)
       THEN "backoff" ELSE "open"]
  /\ IF IsChannelCleaningUp(chst.Status) THEN Fire("CompleteCleanupOnRestart")
     ELSE UNCHANGED <<chst, notices>>
  /\ UNCHANGED <<tracked, caller, stopped, errors, restarts, crashes>>

Fresh == {i \in Monitors : mon[i] = NotAdded}

\* addChannel in openPushRestartChannel, and the shutdown of the monitor it
\* added when the message could not be sent; ms are the monitors before.
AddAndSend(ms, ok) ==
  IF tracked # 0 THEN mon' = ms /\ UNCHANGED tracked
  ELSE \E j \in Fresh :
         /\ \A k \in Fresh : j <= k
         /\ mon' = [ms EXCEPT ![j] = IF ok THEN Added ELSE ShutDown(Added)]
         /\ tracked' = j

\* openPushRestartChannel, called by the loop.
OpenRestart(i, ok) ==
  /\ mon[i].loop = "open"
  /\ AddAndSend([mon EXCEPT ![i].loop = IF ok THEN "backoff" ELSE "count",
                            ![i].barren = IF ok THEN @ + 1 ELSE @], ok)
  /\ UNCHANGED <<chst, notices, caller, stopped, errors, restarts, crashes>>

\* The backoff after a restart ends, by time or by the shutdown.
Backoff(i) ==
  /\ mon[i].loop = "backoff"
  /\ Only(i, [mon[i] EXCEPT !.loop = "check"])

\* Mutant of EndRestart: the queued restart is forgotten.
EndRestartForgets(i) ==
  /\ mon[i].loop = "check"
  /\ Only(i, [mon[i] EXCEPT !.queued = FALSE, !.restarting = FALSE, !.loop = "idle"])

\* The end of a round of restartChannel: run again if one was queued.
EndRestart(i) ==
  LET m == mon[i] IN
  /\ m.loop = "check"
  /\ Only(i, IF m.queued THEN [m EXCEPT !.queued = FALSE, !.loop = "count"]
             ELSE [m EXCEPT !.restarting = FALSE, !.loop = "idle"])

-----------------------------------------------------------------------------
\* The request of OpenPushDataChannel is sent, or cannot be.
OpenSent(ok) ==
  /\ caller = "opening"
  /\ caller' = "no"
  /\ IF ok THEN UNCHANGED <<chst, notices, mon>>
     ELSE Fire("Error") /\ mon' = [mon EXCEPT ![1] = ShutDown(mon[1])]
  /\ UNCHANGED <<tracked, stopped, errors, restarts, crashes>>

\* The client calls RestartDataTransferChannel.
ClientRestart ==
  /\ caller = "no" /\ restarts < MaxRestarts
  /\ ~IsChannelTerminated(chst.Status)
  /\ restarts' = restarts + 1
  /\ IF IsChannelCleaningUp(chst.Status)
     THEN Fire("CompleteCleanupOnRestart") /\ UNCHANGED caller
     ELSE caller' = "open" /\ UNCHANGED <<chst, notices>>
  /\ UNCHANGED <<mon, tracked, stopped, errors, crashes>>

\* ReceiveRestartExistingChannelRequest: the responder asks for a restart.
PeerRestart ==
  /\ caller = "no" /\ restarts < MaxRestarts
  /\ ~IsChannelTerminated(chst.Status)
  /\ restarts' = restarts + 1
  /\ caller' = "open"
  /\ UNCHANGED <<chst, notices, mon, tracked, stopped, errors, crashes>>

CallerOpens(ok) ==
  /\ caller = "open"
  /\ caller' = "no"
  /\ AddAndSend(mon, ok)
  /\ UNCHANGED <<chst, notices, stopped, errors, restarts, crashes>>

\* manager.Stop cancels the Monitor's context, on which no monitoredChannel
\* depends.
Stop ==
  /\ ~stopped /\ MaxStops > 0
  /\ stopped' = TRUE
  /\ UNCHANGED <<chst, notices, mon, tracked, caller, errors, restarts, crashes>>

\* The process crashes and restarts: only the channel is left.
Crash ==
  /\ crashes < MaxCrashes
  /\ crashes' = crashes + 1
  /\ notices' = <<>>
  /\ mon' = [i \in Monitors |-> NotAdded]
  /\ tracked' = 0
  /\ caller' = "no"
  /\ stopped' = FALSE
  /\ UNCHANGED <<chst, errors, restarts>>

Timers == {"accept", "complete"}

Next ==
  \/ \E code \in Happenings : ChannelEvent(code)
  \/ TransportError
  \/ CleanupDone
  \/ Publish
  \/ \E i \in Monitors : ShutdownOnEnd(i) \/ Remove(i) \/ CloseChannel(i)
  \/ \E i \in Monitors, t \in Timers : Expire(i, t) \/ TimedOut(i, t)
  \/ \E i \in Monitors : RestartChannel(i) \/ CountRestart(i) \/ ReadChannel(i)
  \/ \E i \in Monitors, ok \in BOOLEAN : ConnectTo(i, ok) \/ OpenRestart(i, ok)
  \/ \E i \in Monitors : Backoff(i) \/ EndRestart(i)
  \/ \E ok \in BOOLEAN : OpenSent(ok) \/ CallerOpens(ok)
  \/ ClientRestart
  \/ PeerRestart
  \/ Stop
  \/ Crash

\* Goroutines run on, timers expire, and calls return.
MonitorStep(i) ==
  \/ ShutdownOnEnd(i) \/ Remove(i) \/ CloseChannel(i)
  \/ \E t \in Timers : Expire(i, t) \/ TimedOut(i, t)

LoopStep(i) ==
  \/ CountRestart(i) \/ ReadChannel(i) \/ Backoff(i) \/ EndRestart(i)
  \/ \E ok \in BOOLEAN : ConnectTo(i, ok) \/ OpenRestart(i, ok)

Fairness ==
  /\ WF_vars(Publish)
  /\ \A i \in Monitors :
       /\ WF_vars(MonitorStep(i)) /\ WF_vars(LoopStep(i))
       /\ WF_vars(RestartChannel(i))

Spec == Init /\ [][Next]_vars

FairSpec == Spec /\ Fairness

-----------------------------------------------------------------------------
MonitorState ==
  [live : BOOLEAN, accept : {"off", "running", "fired"},
   complete : {"off", "running", "fired"}, debounced : BOOLEAN,
   loop : {"idle", "count", "connect", "read", "open", "backoff", "check"},
   restarting : BOOLEAN, queued : BOOLEAN, count : Nat,
   ending : BOOLEAN, removing : BOOLEAN, closing : BOOLEAN, closes : Nat,
   barren : Nat, owed : BOOLEAN]

\* The channel, the monitors and their goroutines keep their types.
TypeOK ==
  /\ chst \in ChannelState
  /\ notices \in Seq([code : EventCode, status : Status])
  /\ mon \in [Monitors -> MonitorState]
  /\ tracked \in Monitors \cup {0}
  /\ caller \in {"opening", "open", "no"}
  /\ stopped \in BOOLEAN
  /\ errors \in 0 .. MaxErrors
  /\ restarts \in 0 .. MaxRestarts
  /\ crashes \in 0 .. MaxCrashes

\* A live monitor is the one in the Monitor's map, however shutdowns, late
\* removals and new monitors of the channel interleave: so there is at most
\* one, and no removal takes a successor out of the map.
LiveIsTracked == \A i \in Monitors : mon[i].live => tracked = i

\* A monitor closes its channel at most once, whichever of the two timers
\* and the failing restart comes first (Shutdown's return value).
ClosedOnce == \A i \in Monitors : mon[i].closes <= 1

\* Restarts that move no data are bounded by the configured maximum.  One more
\* is possible: data that arrives between the count and the send of a restart
\* resets the counter, and the restart under way no longer counts.
RestartsBounded == \A i \in Monitors : mon[i].barren <= MaxConsecutiveRestarts + 1

\* A transport error is never forgotten: after it a restart begins, even when
\* one was under way, unless the monitor shuts down or the process dies.
ErrorsAreHandled ==
  \A i \in Monitors : mon[i].owed ~> (~mon[i].owed \/ ~mon[i].live)

\* A monitor does not outlive its channel.
MonitorStops ==
  IsChannelTerminated(chst.Status) ~> \A i \in Monitors : ~mon[i].live

-----------------------------------------------------------------------------
\* "Max time to wait for other side to accept open channel request"
\* (Config.AcceptTimeout): the timer of the monitor that OpenPushDataChannel added
\* expires only while the channel has not been accepted, all its events being
\* published.  (The timer of a monitor that a restart added runs for a channel that
\* was accepted before, too: the answer to a restart is no Accept.)
AcceptTimerRight ==
  [][\A i \in Monitors :
       /\ mon[i].accept = "running" /\ mon'[i].accept = "fired"
       /\ i = 1 /\ restarts = 0 /\ crashes = 0 /\ notices = <<>> /\ ~mon[i].ending
       => chst.Status \in {"Requested", "AwaitingAcceptance"}]_vars

=============================================================================
