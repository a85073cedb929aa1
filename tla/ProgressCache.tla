--------------------------- MODULE ProgressCache ---------------------------
(***************************************************************************)
(* How a responder counts the data of a channel and enforces its limit:    *)
(* fireProgressEvent of channels/channels.go with the two in-memory caches *)
(* of channels/caches.go, called by the transport's goroutines (Callers),  *)
(* against UpdateValidationStatus of impl/impl.go, called by the client.   *)
(*                                                                         *)
(* The channel is seen as ChannelAtomic shows it: an event takes effect    *)
(* when it is sent.  Filling a cache entry happens under the cache's write *)
(* lock after a second look, entries are never removed, and so getValue is *)
(* one step; the copy of the limit and the addition to the shared counter  *)
(* are two, and so are the load and the swap of the block index.           *)
(***************************************************************************)
EXTENDS ChannelEvents, FiniteSetsExt

CONSTANTS Callers,     \* goroutines of the transport that report blocks
          Evt,         \* what they report: "DataQueued" or "DataReceived"
          Sizes,       \* Sizes[i]: bytes of the block with index i
          Limits,      \* data limits the client sets
          MaxUpdates,  \* bound: calls of UpdateValidationStatus
          MaxReports,  \* bound: traversals of the data one caller reports
          MaxCrashes,  \* bound: crashes of the process
          None         \* no cache entry

Blocks == DOMAIN Sizes

ASSUME ProgressAssumption ==
  /\ Evt \in {"DataQueued", "DataReceived"}
  /\ Blocks \subseteq Nat \ {0} /\ IsFiniteSet(Blocks)
  /\ Sizes \in [Blocks -> Nat \ {0}]
  /\ Limits \subseteq Nat
  /\ {MaxUpdates, MaxReports, MaxCrashes} \subseteq Nat
  /\ None \notin Nat

ProgressEvt ==
  IF Evt = "DataQueued" THEN "DataQueuedProgress" ELSE "DataReceivedProgress"

\* What readFromOriginal and readProgress read of the stored state.
IndexOf(st) ==
  IF Evt = "DataQueued" THEN st.QueuedBlocksTotal ELSE st.ReceivedBlocksTotal

BytesOf(st) == IF Evt = "DataQueued" THEN st.Queued ELSE st.Received

VARIABLES chst,       \* the stored channel state
          indexCache, \* blockIndexCache entry, or None
          limitCache, \* progressCache entry: the limit, or None
          progress,   \* progressCache entry: the shared byte counter
          call,       \* call[c]: the call of fireProgressEvent c is in
          at,         \* at[c]: the last index c reported in its traversal
          reports,    \* reports[c]: traversals c began
          halted,     \* callers the transport paused
          update,     \* the UpdateValidationStatus in progress
          updates,    \* calls of it so far
          counted,    \* history: counted[i] progress events of block i
          lost,       \* history: bytes cached whose event was rejected
          raced,      \* history: an entry was filled during SetDataLimit
          panicked,   \* history: an update made the process panic
          crashes     \* crashes so far

vars == <<chst, indexCache, limitCache, progress, call, at, reports, halted,
          update, updates, counted, lost, raced, panicked, crashes>>

Idle == [pc |-> "idle", index |-> 0, loaded |-> 0, limit |-> 0, total |-> 0,
         progress |-> FALSE, pause |-> FALSE, steady |-> FALSE]

NoUpdate == [pc |-> "idle", limit |-> 0, paused |-> FALSE, leave |-> FALSE]

\* A responder's channel when its data starts to flow.
Started ==
  Apply(Apply(NewChannelState, Event("Accept")), Event("TransferInitiated"))

Init ==
  /\ chst \in {[Started EXCEPT !.DataLimit = n] : n \in Limits}
  /\ indexCache = None /\ limitCache = None /\ progress = 0
  /\ call = [c \in Callers |-> Idle]
  /\ at = [c \in Callers |-> 0]
  /\ reports = [c \in Callers |-> 1]
  /\ halted = {}
  /\ update = NoUpdate
  /\ updates = 0
  /\ counted = [i \in Blocks |-> 0]
  /\ lost = 0
  /\ raced = FALSE
  /\ panicked = FALSE
  /\ crashes = 0

-----------------------------------------------------------------------------
Terminated == IsChannelTerminated(chst.Status)

\* fireProgressEvent begins.  A block that is not unique on this request goes
\* straight to its event; steady says that no limit update is under way.
BeginReport(c, unique) ==
  /\ call[c].pc = "idle" /\ c \notin halted /\ at[c] + 1 \in Blocks
  /\ at' = [at EXCEPT ![c] = @ + 1]
  /\ call' = [call EXCEPT ![c] =
       [Idle EXCEPT !.pc = IF unique THEN "load" ELSE "event",
                    !.index = at'[c], !.steady = (update.pc = "idle")]]
  /\ UNCHANGED <<chst, indexCache, limitCache, progress, reports, halted,
                 update, updates, counted, lost, raced, panicked, crashes>>

\* updateIfGreater: get the entry, filling it from the store, and load it.
LoadIndex(c) ==
  LET value == IF indexCache = None THEN IndexOf(chst) ELSE indexCache IN
  /\ call[c].pc = "load"
  /\ indexCache' = value
  /\ call' = [call EXCEPT ![c].loaded = value,
       ![c].pc = IF call[c].index <= value THEN "event" ELSE "swap"]
  /\ UNCHANGED <<chst, limitCache, progress, at, reports, halted, update,
                 updates, counted, lost, raced, panicked, crashes>>

\* Mutant of SwapIndex: a plain store.
StoreIndex(c) ==
  /\ call[c].pc = "swap"
  /\ indexCache' = call[c].index
  /\ call' = [call EXCEPT ![c].pc = "limit", ![c].progress = TRUE]
  /\ UNCHANGED <<chst, limitCache, progress, at, reports, halted, update,
                 updates, counted, lost, raced, panicked, crashes>>

\* updateIfGreater: compare and swap, or go back to the load.
SwapIndex(c) ==
  /\ call[c].pc = "swap"
  /\ IF indexCache = call[c].loaded
     THEN /\ indexCache' = call[c].index
          /\ call' = [call EXCEPT ![c].pc = "limit", ![c].progress = TRUE]
     ELSE /\ call' = [call EXCEPT ![c].pc = "load"]
          /\ UNCHANGED indexCache
  /\ UNCHANGED <<chst, limitCache, progress, at, reports, halted, update,
                 updates, counted, lost, raced, panicked, crashes>>

\* Mutants of CopyLimit: no entry is filled; the counter starts at zero.
CopyLimitUnfilled(c) ==
  /\ call[c].pc = "limit"
  /\ call' = [call EXCEPT ![c].limit = limitCache, ![c].pc = "add"]
  /\ UNCHANGED <<chst, indexCache, limitCache, progress, at, reports, halted,
                 update, updates, counted, lost, raced, panicked, crashes>>

CopyLimitFromZero(c) ==
  LET fill == limitCache = None IN
  /\ call[c].pc = "limit"
  /\ limitCache' = IF fill THEN chst.DataLimit ELSE limitCache
  /\ progress' = IF fill THEN 0 ELSE progress
  /\ raced' = (raced \/ (fill /\ update.pc = "event"))
  /\ call' = [call EXCEPT ![c].limit = limitCache', ![c].pc = "add"]
  /\ UNCHANGED <<chst, indexCache, at, reports, halted, update, updates,
                 counted, lost, panicked, crashes>>

\* progressCache.getValue: a copy of the limit, a pointer to the counter.
CopyLimit(c) ==
  LET fill == limitCache = None IN
  /\ call[c].pc = "limit"
  /\ limitCache' = IF fill THEN chst.DataLimit ELSE limitCache
  /\ progress' = IF fill THEN BytesOf(chst) ELSE progress
  /\ raced' = (raced \/ (fill /\ update.pc = "event"))
  /\ call' = [call EXCEPT ![c].limit = limitCache', ![c].pc = "add"]
  /\ UNCHANGED <<chst, indexCache, at, reports, halted, update, updates,
                 counted, lost, panicked, crashes>>

LimitReached(limit, total) == limit # 0 /\ total >= limit

\* progressCache.progress: add to the counter, compare with the copied limit.
AddProgress(c) ==
  /\ call[c].pc = "add"
  /\ progress' = progress + Sizes[call[c].index]
  /\ call' = [call EXCEPT ![c].pc = "progress", ![c].total = progress',
                          ![c].pause = LimitReached(call[c].limit, progress')]
  /\ UNCHANGED <<chst, indexCache, limitCache, at, reports, halted, update,
                 updates, counted, lost, raced, panicked, crashes>>

\* The progress event is sent; it is rejected when the channel no longer
\* transfers, and a channel that terminated ends the call with an error.
SendProgress(c) ==
  LET size == Sizes[call[c].index]
      event == [code |-> ProgressEvt, arg |-> size]
      taken == BytesOf(Apply(chst, event)) # BytesOf(chst) IN
  /\ call[c].pc = "progress"
  /\ chst' = Apply(chst, event)
  /\ counted' = IF taken THEN [counted EXCEPT ![call[c].index] = @ + 1] ELSE counted
  /\ lost' = IF taken THEN lost ELSE lost + size
  /\ call' = IF Terminated THEN [call EXCEPT ![c] = Idle]
             ELSE [call EXCEPT ![c].pc = "event"]
  /\ UNCHANGED <<indexCache, limitCache, progress, at, reports, halted, update,
                 updates, raced, panicked, crashes>>

\* The event itself is sent.
SendEvent(c) ==
  /\ call[c].pc = "event"
  /\ chst' = Apply(chst, [code |-> Evt, arg |-> call[c].index])
  /\ call' = IF call[c].pause /\ ~Terminated
             THEN [call EXCEPT ![c].pc = "exceeded"]
             ELSE [call EXCEPT ![c] = Idle]
  /\ UNCHANGED <<indexCache, limitCache, progress, at, reports, halted, update,
                 updates, counted, lost, raced, panicked, crashes>>

\* Past the limit: DataLimitExceeded is sent, and ErrPause returned.
SendExceeded(c) ==
  /\ call[c].pc = "exceeded"
  /\ chst' = Apply(chst, Event("DataLimitExceeded"))
  /\ call' = IF Terminated THEN [call EXCEPT ![c] = Idle]
             ELSE [call EXCEPT ![c].pc = "errpause"]
  /\ UNCHANGED <<indexCache, limitCache, progress, at, reports, halted, update,
                 updates, counted, lost, raced, panicked, crashes>>

\* On ErrPause the transport pauses the request.
PauseRequest(c) ==
  /\ call[c].pc = "errpause"
  /\ halted' = halted \cup {c}
  /\ call' = [call EXCEPT ![c] = Idle]
  /\ UNCHANGED <<chst, indexCache, limitCache, progress, at, reports, update,
                 updates, counted, lost, raced, panicked, crashes>>

\* External: the transport starts over, on a restart of the request.
NextTraversal(c) ==
  /\ call[c].pc = "idle" /\ c \notin halted
  /\ at[c] # 0 /\ reports[c] < MaxReports
  /\ at' = [at EXCEPT ![c] = 0]
  /\ reports' = [reports EXCEPT ![c] = @ + 1]
  /\ UNCHANGED <<chst, indexCache, limitCache, progress, call, halted, update,
                 updates, counted, lost, raced, panicked, crashes>>

-----------------------------------------------------------------------------
\* UpdateValidationStatus with an accepting result and limit n: the state is
\* read here, and what is read is used in all the steps that follow.
BeginUpdate(n) ==
  /\ update.pc = "idle" /\ updates < MaxUpdates
  /\ updates' = updates + 1
  /\ update' = [pc |-> IF n # chst.DataLimit THEN "cache" ELSE "pause",
                limit |-> n, paused |-> chst.ResponderPaused,
                leave |-> LimitReached(n, BytesOf(chst))]
  /\ call' = [c \in Callers |-> [call[c] EXCEPT !.steady = FALSE]]
  /\ UNCHANGED <<chst, indexCache, limitCache, progress, at, reports, halted,
                 counted, lost, raced, panicked, crashes>>

\* Mutant of CacheLimit: the cached limit stays.
CacheLimitSkipped ==
  /\ update.pc = "cache"
  /\ update' = [update EXCEPT !.pc = "event"]
  /\ UNCHANGED <<chst, indexCache, limitCache, progress, call, at, reports,
                 halted, updates, counted, lost, raced, panicked, crashes>>

\* SetDataLimit, first half: an entry that is cached gets the new limit.
CacheLimit ==
  /\ update.pc = "cache"
  /\ limitCache' = IF limitCache = None THEN None ELSE update.limit
  /\ raced' = (raced /\ limitCache = None)
  /\ update' = [update EXCEPT !.pc = "event"]
  /\ UNCHANGED <<chst, indexCache, progress, call, at, reports, halted, updates,
                 counted, lost, panicked, crashes>>

\* SetDataLimit, second half: the event.
SendLimit ==
  /\ update.pc = "event" /\ ~Terminated
  /\ chst' = Apply(chst, [code |-> "SetDataLimit", arg |-> update.limit])
  /\ update' = [update EXCEPT !.pc = "pause"]
  /\ UNCHANGED <<indexCache, limitCache, progress, call, at, reports, halted,
                 updates, counted, lost, raced, panicked, crashes>>

\* The end of recordAcceptedValidationEvents: pause or resume the responder.
RecordPause ==
  /\ update.pc = "pause"
  /\ IF update.leave = update.paused THEN UNCHANGED chst
     ELSE /\ ~Terminated
          /\ chst' = Apply(chst, Event(IF update.leave THEN "PauseResponder"
                                                       ELSE "ResumeResponder"))
  /\ update' = [update EXCEPT !.pc = "transport"]
  /\ UNCHANGED <<indexCache, limitCache, progress, call, at, reports, halted,
                 updates, counted, lost, raced, panicked, crashes>>

\* handleTransportUpdate: resume or pause the transport's request.
UpdateTransport ==
  /\ update.pc = "transport"
  /\ halted' = IF update.leave = update.paused THEN halted
               ELSE IF update.leave THEN Callers ELSE {}
  /\ update' = NoUpdate
  /\ UNCHANGED <<chst, indexCache, limitCache, progress, call, at, reports,
                 updates, counted, lost, raced, panicked, crashes>>

\* The channel is cancelled meanwhile, and its cleanup completes.
EndChannel(code) ==
  /\ ~Terminated
  /\ code = "Cancel" <=> chst.Status \notin CleanupStates
  /\ chst' = Apply(chst, Event(code))
  /\ UNCHANGED <<indexCache, limitCache, progress, call, at, reports, halted,
                 update, updates, counted, lost, raced, panicked, crashes>>

\* The process ends and comes back: caches and calls are gone, the traversal
\* starts over.
Restarted ==
  /\ indexCache' = None /\ limitCache' = None /\ progress' = 0
  /\ call' = [c \in Callers |-> Idle]
  /\ at' = [c \in Callers |-> 0]
  /\ halted' = {}
  /\ update' = NoUpdate
  /\ lost' = 0 /\ raced' = FALSE
  /\ UNCHANGED <<chst, reports, updates, counted>>

Crash ==
  /\ crashes < MaxCrashes
  /\ crashes' = crashes + 1
  /\ Restarted
  /\ UNCHANGED panicked

\* A send of the update fails, the channel having terminated: then
\* processValidationUpdate returns no channel state, and
\* handleTransportUpdate dereferences it.
UpdatePanic ==
  /\ Terminated
  /\ \/ update.pc = "event"
     \/ update.pc = "pause" /\ update.leave # update.paused
  /\ panicked' = TRUE
  /\ Restarted
  /\ UNCHANGED crashes

Report(c) ==
  \/ LoadIndex(c) \/ SwapIndex(c) \/ CopyLimit(c) \/ AddProgress(c)
  \/ SendProgress(c) \/ SendEvent(c) \/ SendExceeded(c) \/ PauseRequest(c)

Next ==
  \/ \E c \in Callers, unique \in BOOLEAN : BeginReport(c, unique)
  \/ \E c \in Callers : Report(c) \/ NextTraversal(c)
  \/ \E n \in Limits : BeginUpdate(n)
  \/ CacheLimit
  \/ SendLimit
  \/ RecordPause
  \/ UpdateTransport
  \/ UpdatePanic
  \/ \E code \in {"Cancel", "CleanupComplete"} : EndChannel(code)
  \/ Crash

Spec == Init /\ [][Next]_vars

-----------------------------------------------------------------------------
CallPCs == {"idle", "load", "swap", "limit", "add", "progress", "event",
            "exceeded", "errpause"}

UpdatePCs == {"idle", "cache", "event", "pause", "transport"}

Calls == [pc : CallPCs, index : Nat, loaded : Nat, limit : Nat, total : Nat,
          progress : BOOLEAN, pause : BOOLEAN, steady : BOOLEAN]

\* The stored state, the caches, the calls and the histories keep their types:
\* no call computes with a cache entry that is not there.
TypeOK ==
  /\ chst \in ChannelState
  /\ indexCache \in Nat \cup {None}
  /\ limitCache \in Nat \cup {None}
  /\ progress \in Nat
  /\ call \in [Callers -> Calls]
  /\ at \in [Callers -> Nat]
  /\ reports \in [Callers -> Nat]
  /\ halted \subseteq Callers
  /\ update \in [pc : UpdatePCs, limit : Nat, paused : BOOLEAN, leave : BOOLEAN]
  /\ updates \in 0 .. MaxUpdates
  /\ counted \in [Blocks -> Nat]
  /\ lost \in Nat
  /\ raced \in BOOLEAN
  /\ panicked \in BOOLEAN
  /\ crashes \in 0 .. MaxCrashes

\* However the callers interleave, the bytes of a block are counted at most
\* once in the life of a process (updateIfGreater and its compare and swap).
CountedOnce == \A i \in Blocks : counted[i] <= 1 + crashes

\* Bytes added to the shared counter by calls that have not sent them yet.
InFlight ==
  MapThenSumSet(LAMBDA c : Sizes[call[c].index],
                {c \in Callers : call[c].pc = "progress"})

\* The cached byte counter, which decides about the limit, never drifts from
\* the stored one: it is ahead by exactly the calls between the addition and
\* the event, and by the bytes whose event the channel did not take.
ProgressAgrees ==
  limitCache # None => progress = BytesOf(chst) + InFlight + lost

\* A call made while no limit update is under way.
SteadyCalls == {c \in Callers : call[c].steady /\ call[c].progress}

PausesAsLimitSays(c) ==
  call[c].pc \in {"progress", "event", "exceeded"} =>
    (call[c].pause <=> LimitReached(chst.DataLimit, call[c].total))

\* A call that overlaps no limit update asks for a pause exactly when it
\* takes the data to the limit the channel has, unless the cache entry was
\* filled between the two halves of the SetDataLimit before it.
PausesAtLimit == raced \/ \A c \in SteadyCalls : PausesAsLimitSays(c)

-----------------------------------------------------------------------------
\* "return the response message and any errors" (processValidationUpdate):
\* an update that fails is reported to its caller.
UpdateReturns == ~panicked

=============================================================================
