----------------------------- MODULE ChannelFSM -----------------------------
(***************************************************************************)
(* One channel as Channels runs it on go-statemachine: Send appends an     *)
(* event to the machine's queue and returns; the machine takes the events  *)
(* one at a time, and none while an entry handler runs; the only handler,  *)
(* cleanupConnection, ends by sending CleanupComplete, which joins the     *)
(* queue behind the events that arrived meanwhile.  Reaching a finality    *)
(* status ends the machine.  Every processed event is stored, so a crash   *)
(* of the process loses the queue and the running handler but not chst.    *)
(*                                                                         *)
(* The environment sends any sequence of events of Codes: what is shown    *)
(* here holds whatever the manager, the network and the transport do.      *)
(***************************************************************************)
EXTENDS ChannelEvents, Sequences

CONSTANTS Codes,       \* the events the callers of Channels send
          ArgValues,   \* the arguments they send them with
          MaxPending,  \* bound: callers add no event to a queue this long
          MaxCount,    \* bound: callers stop counting events at this count
          MaxCrashes   \* bound: how often the process crashes

\* Open is sent by CreateNew only, CleanupComplete by cleanupConnection only.
ASSUME FSMAssumption ==
  /\ Codes \subseteq EventCode \ {"Open", "CleanupComplete"}
  /\ ArgValues \subseteq Nat
  /\ MaxPending \in Nat
  /\ MaxCount \in Nat
  /\ MaxCrashes \in Nat

VARIABLES has,       \* the store holds the channel (stateMachines.Has)
          chst,      \* the stored channel state
          pending,   \* queue of events sent and not yet processed
          handler,   \* cleanupConnection is running
          released,  \* history: cleanupConnection ran in this process
          stalled,   \* history: a crash cut a cleanup off, none started since
          seen,      \* history: which events of Milestones were applied
          crashes    \* number of crashes so far

vars == <<has, chst, pending, handler, released, stalled, seen, crashes>>

Milestones == {"Accept", "FinishTransfer", "ResponderCompletes"}

Init ==
  /\ has = FALSE
  /\ chst = NewChannelState
  /\ pending = <<>>
  /\ handler = FALSE
  /\ released = FALSE
  /\ stalled = FALSE
  /\ seen = {}
  /\ crashes = 0

-----------------------------------------------------------------------------
\* CreateNew: store the new state, then send Open.
CreateNew ==
  /\ ~has
  /\ has' = TRUE
  /\ chst' = NewChannelState
  /\ pending' = <<Event("Open")>>
  /\ UNCHANGED <<handler, released, stalled, seen, crashes>>

\* Bound: counters of the state below MaxCount when more is counted.
Countable ==
  \A f \in {"Vouchers", "VoucherResults", "Queued", "Sent", "Received"} :
    chst[f] < MaxCount

CountingCodes ==
  {"NewVoucher", "NewVoucherResult", "DataQueuedProgress", "DataSentProgress",
   "DataReceivedProgress"}

Inputs ==
  {e \in [code : Codes, arg : ArgValues] : e.code \notin ArgCodes => e.arg = 0}

\* send: an event for a channel that exists and has not terminated joins the
\* queue.  (Without the channel send returns ErrNotFound, after termination
\* the machine returns ErrTerminated; neither changes anything.)
Send(e) ==
  /\ has
  /\ ~IsChannelTerminated(chst.Status)
  /\ Len(pending) < MaxPending
  /\ e.code \in CountingCodes => Countable
  /\ pending' = Append(pending, e)
  /\ UNCHANGED <<has, chst, handler, released, stalled, seen, crashes>>

\* The machine is free to take the event at the head of its queue.
Ready ==
  /\ pending # <<>>
  /\ ~handler
  /\ ~IsChannelTerminated(chst.Status)

DestinationOfHead == Destination(Head(pending).code, chst.Status)

\* The event has no transition from the status: it is logged and dropped.
RejectEvent ==
  /\ Ready
  /\ DestinationOfHead = "Rejected"
  /\ pending' = Tail(pending)
  /\ UNCHANGED <<has, chst, handler, released, stalled, seen, crashes>>

\* A transition that is just recorded: the action runs, no handler does.
RecordEvent ==
  /\ Ready
  /\ DestinationOfHead = "JustRecord"
  /\ chst' = Apply(chst, Head(pending))
  /\ seen' = seen \cup ({Head(pending).code} \cap Milestones)
  /\ pending' = Tail(pending)
  /\ UNCHANGED <<has, handler, released, stalled, crashes>>

\* A transition: the action runs, the status is set, and the entry handler of
\* the resulting status starts, also when the status is the one before.  A
\* finality status ends the machine, and what is still queued is lost.
TransitionEvent ==
  /\ Ready
  /\ DestinationOfHead \notin {"Rejected", "JustRecord"}
  /\ chst' = Apply(chst, Head(pending))
  /\ seen' = seen \cup ({Head(pending).code} \cap Milestones)
  /\ handler' = (chst'.Status \in CleanupStates)
  /\ stalled' = FALSE
  /\ pending' = IF IsChannelTerminated(chst'.Status) THEN <<>> ELSE Tail(pending)
  /\ UNCHANGED <<has, released, crashes>>

ProcessEvent == RejectEvent \/ RecordEvent \/ TransitionEvent

\* Mutants of CleanupConnection: CleanupComplete is not sent; it overtakes the
\* queue; nothing is released.
CleanupConnectionSilent ==
  /\ handler
  /\ handler' = FALSE
  /\ released' = TRUE
  /\ UNCHANGED <<has, chst, pending, stalled, seen, crashes>>

CleanupConnectionFirst ==
  /\ handler
  /\ handler' = FALSE
  /\ released' = TRUE
  /\ pending' = <<Event("CleanupComplete")>> \o pending
  /\ UNCHANGED <<has, chst, stalled, seen, crashes>>

CleanupConnectionUnreleased ==
  /\ handler
  /\ handler' = FALSE
  /\ pending' = Append(pending, Event("CleanupComplete"))
  /\ UNCHANGED <<has, chst, released, stalled, seen, crashes>>

\* cleanupConnection: release the transport's channel, stop protecting the
\* connection, and send CleanupComplete.
CleanupConnection ==
  /\ handler
  /\ handler' = FALSE
  /\ released' = TRUE
  /\ pending' = Append(pending, Event("CleanupComplete"))
  /\ UNCHANGED <<has, chst, stalled, seen, crashes>>

\* The process crashes and comes back: the stored state is all that is left.
Crash ==
  /\ has
  /\ crashes < MaxCrashes
  /\ crashes' = crashes + 1
  /\ pending' = <<>>
  /\ handler' = FALSE
  /\ released' = FALSE
  /\ stalled' = (chst.Status \in CleanupStates)
  /\ UNCHANGED <<has, chst, seen>>

Next ==
  \/ CreateNew
  \/ \E e \in Inputs : Send(e)
  \/ RejectEvent
  \/ RecordEvent
  \/ TransitionEvent
  \/ CleanupConnection
  \/ Crash

\* The machine's goroutine keeps running, and a started handler returns.
Fairness == WF_vars(ProcessEvent) /\ WF_vars(CleanupConnection)

Spec == Init /\ [][Next]_vars

FairSpec == Spec /\ Fairness

-----------------------------------------------------------------------------
PendingCodes == {pending[i].code : i \in DOMAIN pending}

\* What Channels stores, queues and runs for the channel, and the histories,
\* keep their types.
TypeOK ==
  /\ has \in BOOLEAN
  /\ chst \in ChannelState
  /\ pending \in Seq(Events)
  /\ handler \in BOOLEAN
  /\ released \in BOOLEAN
  /\ stalled \in BOOLEAN
  /\ seen \subseteq Milestones
  /\ crashes \in 0 .. MaxCrashes

\* A channel in a cleanup status is never forgotten: cleanupConnection is
\* running, or its CleanupComplete is queued, or the process crashed during
\* the cleanup and nothing retriggered it since.  So a cleanup needs no help
\* from outside unless the process dies.
CleanupOwed ==
  chst.Status \in CleanupStates =>
    handler \/ "CleanupComplete" \in PendingCodes \/ stalled

\* A channel terminates only after cleanupConnection released its transport
\* channel and its connection in this very process: a CleanupComplete from
\* before a crash never ends it.
TerminatesReleased ==
  [][~IsChannelTerminated(chst.Status) /\ IsChannelTerminated(chst'.Status)
       => released]_vars

\* Which events only a responder's manager sends.
ResponderOnly == {"Complete", "BeginFinalizing"}

\* At an initiator a channel that is failing or cancelling ends up failed or
\* cancelled: no answer of the responder and no end of the transport request
\* that comes in late brings it back.
FailureSticks ==
  [][Codes \cap ResponderOnly = {} /\ chst.Status \in {"Failing", "Cancelling"}
       => chst'.Status \in {"Failing", "Cancelling", "Failed", "Cancelled"}]_vars

\* An initiator completes only when its own transfer finished and, unless the
\* responder never accepted, the responder said that it completed too, in
\* whatever order the two happened.
InitiatorCompletes ==
  Codes \cap ResponderOnly = {} /\ chst.Status \in {"Completing", "Completed"} =>
    /\ "FinishTransfer" \in seen
    /\ "ResponderCompletes" \in seen \/ "Accept" \notin seen

\* A channel does not stay in cleanup: unless a crash cuts it off, it gets to a
\* finality status or an event takes it out of cleanup.
CleanupFinishes ==
  (chst.Status \in CleanupStates /\ ~stalled)
    ~> (chst.Status \notin CleanupStates \/ stalled)

=============================================================================
