------------------------ MODULE ProgressCacheProofs ------------------------
(***************************************************************************)
(* Proofs about ProgressCache, for any callers, blocks, limits, updates    *)
(* and crashes.                                                            *)
(***************************************************************************)
EXTENDS ProgressCache, ChannelEventsProofs, FiniteSetTheorems, WellFoundedInduction, TLAPS

-----------------------------------------------------------------------------
(* The inductive invariant *)

\* A call that won the swap of its block's index and has not sent the event.
Counting(c) == call[c].pc \in {"limit", "add", "progress"}

\* A block is counted only by the call that raised the block index to it, or
\* past it, and the index is not raised to it again before the process ends.
CountInv ==
  /\ \A c \in Callers : call[c].pc # "idle" => call[c].index \in Blocks
  /\ \A c \in Callers : call[c].pc = "swap" => call[c].loaded < call[c].index
  /\ \A c \in Callers :
       Counting(c) => indexCache # None /\ call[c].index <= indexCache
  /\ \A c, d \in Callers :
       Counting(c) /\ Counting(d) /\ call[c].index = call[d].index => c = d
  /\ \A i \in Blocks : counted[i] <= crashes + 1
  /\ ~Terminated =>
       /\ \A i \in Blocks : indexCache = None \/ indexCache < i => counted[i] <= crashes
       /\ \A c \in Callers : Counting(c) => counted[call[c].index] <= crashes

\* The cached limit is the stored one, apart from the time between the two
\* halves of SetDataLimit; a call that overlaps no update has a copy of it.
LimitInv ==
  /\ \A c \in Callers : call[c].steady => update.pc = "idle"
  /\ ~raced /\ limitCache # None =>
       limitCache = IF update.pc = "event" THEN update.limit ELSE chst.DataLimit
  /\ \A c \in Callers :
       call[c].progress /\ call[c].pc \in {"progress", "event", "exceeded"} =>
         (call[c].pause <=> LimitReached(call[c].limit, call[c].total))
  /\ \A c \in Callers : call[c].pc \in {"load", "swap"} => ~call[c].progress
  /\ ~raced => \A c \in SteadyCalls :
       call[c].pc \in {"add", "progress", "event", "exceeded"} =>
         call[c].limit = chst.DataLimit

IInv == TypeOK /\ CountInv /\ LimitInv

-----------------------------------------------------------------------------
(* The channel *)

\* The progress event adds its bytes to the stored count or is rejected, no
\* other event changes the count; only SetDataLimit changes the limit.
LEMMA ActionFields ==
  ASSUME NEW st \in ChannelState, NEW e \in Events
  PROVE  /\ BytesOf(Action(st, e)) =
              IF e.code = ProgressEvt THEN BytesOf(st) + e.arg ELSE BytesOf(st)
         /\ Action(st, e).DataLimit =
              IF e.code = "SetDataLimit" THEN e.arg ELSE st.DataLimit
<1>1. CASE Evt = "DataQueued"
  BY <1>1, Zenon DEF ChannelState, Action, BytesOf, ProgressEvt, ErrorCodes
<1>2. CASE Evt = "DataReceived"
  BY <1>2, Zenon DEF ChannelState, Action, BytesOf, ProgressEvt, ErrorCodes
<1> QED
  BY <1>1, <1>2, ProgressAssumption, Zenon

\* What an event does to the stored state, as far as the caches care.
LEMMA ApplyFields ==
  ASSUME NEW st \in ChannelState, NEW e \in Events
  PROVE  /\ Apply(st, e) \in ChannelState
         /\ IsChannelTerminated(st.Status) => Apply(st, e) = st
         /\ BytesOf(Apply(st, e)) \in
              {BytesOf(st), IF e.code = ProgressEvt THEN BytesOf(st) + e.arg ELSE BytesOf(st)}
         /\ e.code # "SetDataLimit" => Apply(st, e).DataLimit = st.DataLimit
         /\ e.code = "SetDataLimit" /\ ~IsChannelTerminated(st.Status) =>
              Apply(st, e).DataLimit = e.arg
<1>1. Apply(st, e) \in ChannelState
  BY ApplyType, Zenon
<1> DEFINE a == Action(st, e)
           d == Destination(e.code, st.Status)
<1>2. a \in ChannelState
  BY ActionType, Zenon
<1>3. /\ BytesOf(a) = IF e.code = ProgressEvt THEN BytesOf(st) + e.arg ELSE BytesOf(st)
      /\ a.DataLimit = IF e.code = "SetDataLimit" THEN e.arg ELSE st.DataLimit
  BY ActionFields, Zenon
<1>4. BytesOf([a EXCEPT !.Status = d]) = BytesOf(a) /\ [a EXCEPT !.Status = d].DataLimit = a.DataLimit
  BY <1>2, Zenon DEF ChannelState, BytesOf
<1>5. e.code = "SetDataLimit" => d = "JustRecord"
  BY Zenon DEF Destination, ToFromAny, NoChangeCodes, ErrorCodes, RecordCodes
<1> HIDE DEF a, d
<1>6. Apply(st, e) = IF IsChannelTerminated(st.Status) \/ d = "Rejected" THEN st
                     ELSE IF d \in {"NoChange", "JustRecord"} THEN a
                     ELSE [a EXCEPT !.Status = d]
  BY Zenon DEF Apply, a, d
<1> QED
  BY <1>1, <1>3, <1>4, <1>5, <1>6, Zenon

\* The channel has its type and its limit, and a channel that terminated stays
\* so, whatever is sent to it but a new limit.
LEMMA EventKeeps ==
  ASSUME TypeOK, NEW e \in Events, chst' = Apply(chst, e)
  PROVE  /\ chst' \in ChannelState
         /\ Terminated => Terminated'
         /\ e.code # "SetDataLimit" => chst'.DataLimit = chst.DataLimit
         /\ e.code # ProgressEvt => BytesOf(chst') = BytesOf(chst)
BY ApplyFields, Zenon DEF TypeOK, Terminated

\* The state the model starts with is well formed.
LEMMA StartedType == Started \in ChannelState
<1>1. Event("Accept") \in Events /\ Event("TransferInitiated") \in Events
  BY Zenon DEF Event, Events, EventCode
<1> QED
  BY <1>1, NewChannelStateType, ApplyType, Zenon DEF Started

-----------------------------------------------------------------------------
(* The steps of the callers *)

\* The records of a call and of an update that have not begun.
LEMMA IdleType ==
  /\ Idle \in Calls /\ Idle.pc = "idle" /\ ~Idle.steady /\ ~Idle.progress
  /\ NoUpdate \in [pc : UpdatePCs, limit : Nat, paused : BOOLEAN, leave : BOOLEAN]
  /\ NoUpdate.pc = "idle"
BY Zenon DEF Idle, Calls, CallPCs, NoUpdate, UpdatePCs

\* One caller moves on to k.
LEMMA OneCall ==
  ASSUME TypeOK, NEW c \in Callers, NEW k \in Calls, call' = [call EXCEPT ![c] = k]
  PROVE  /\ call' \in [Callers -> Calls]
         /\ \A d \in Callers : call'[d] = IF d = c THEN k ELSE call[d]
BY Zenon DEF TypeOK

\* The caches are empty at first.
LEMMA InitIInv == Init => IInv
<1> SUFFICES ASSUME Init PROVE IInv
  BY Zenon
<1>1. \A n \in Nat : [Started EXCEPT !.DataLimit = n] \in ChannelState
  BY StartedType, Zenon DEF ChannelState
<1>2. chst \in ChannelState
  BY <1>1, ProgressAssumption, Zenon DEF Init
<1>3. /\ call \in [Callers -> Calls] /\ \A c \in Callers : call[c] = Idle
      /\ counted \in [Blocks -> Nat] /\ \A i \in Blocks : counted[i] = 0
  BY IdleType, Zenon DEF Init
<1>4. TypeOK
  <2>1. updates \in 0 .. MaxUpdates /\ crashes \in 0 .. MaxCrashes
    BY ProgressAssumption DEF Init
  <2>2. /\ at \in [Callers -> Nat] /\ reports \in [Callers -> Nat] /\ halted \subseteq Callers
        /\ progress \in Nat /\ lost \in Nat /\ indexCache = None /\ limitCache = None
    BY Zenon DEF Init
  <2>3. /\ update \in [pc : UpdatePCs, limit : Nat, paused : BOOLEAN, leave : BOOLEAN]
        /\ raced = FALSE /\ panicked = FALSE
    BY IdleType, Zenon DEF Init
  <2> QED
    BY <1>2, <1>3, <2>1, <2>2, <2>3, Zenon DEF TypeOK
<1>5. CountInv
  BY <1>3, IdleType DEF Init, CountInv, Counting
<1>6. LimitInv
  BY <1>3, IdleType, Zenon DEF Init, LimitInv, SteadyCalls
<1> QED
  BY <1>4, <1>5, <1>6, Zenon DEF IInv

\* A goroutine begins to report a block.
LEMMA BeginReportStep ==
  ASSUME IInv, NEW c \in Callers, NEW unique \in BOOLEAN, BeginReport(c, unique)
  PROVE  IInv'
<1> DEFINE k == [Idle EXCEPT !.pc = IF unique THEN "load" ELSE "event",
                             !.index = at'[c], !.steady = (update.pc = "idle")]
<1> USE DEF IInv
<1>1. at'[c] \in Blocks /\ at'[c] \in Nat /\ at' \in [Callers -> Nat]
  BY ProgressAssumption, Zenon DEF TypeOK, BeginReport
<1>2. /\ k \in Calls /\ k.pc \in {"load", "event"} /\ k.index \in Blocks
      /\ (k.steady => update.pc = "idle") /\ ~k.progress
  BY <1>1, Zenon DEF Idle, Calls, CallPCs
<1>3. call' = [call EXCEPT ![c] = k]
  BY Zenon DEF BeginReport
<1> HIDE DEF k
<1>4. /\ call' \in [Callers -> Calls]
      /\ \A d \in Callers : call'[d] = IF d = c THEN k ELSE call[d]
  BY <1>2, <1>3, OneCall, Zenon
<1>5. TypeOK'
  BY <1>1, <1>4, Zenon DEF TypeOK, BeginReport
<1>6. CountInv'
  BY <1>2, <1>4, ZenonT(60) DEF CountInv, Counting, BeginReport, Terminated
<1>7. LimitInv'
  BY <1>2, <1>4, ZenonT(60) DEF LimitInv, SteadyCalls, BeginReport
<1> QED
  BY <1>5, <1>6, <1>7, Zenon

\* updateIfGreater reads the cached index.
LEMMA LoadIndexStep ==
  ASSUME IInv, NEW c \in Callers, LoadIndex(c)
  PROVE  IInv'
<1> DEFINE value == IF indexCache = None THEN IndexOf(chst) ELSE indexCache
           k == [call[c] EXCEPT !.loaded = value,
                                !.pc = IF call[c].index <= value THEN "event" ELSE "swap"]
<1> USE DEF IInv
<1>0. call[c] \in Calls /\ value \in Nat /\ call[c].pc = "load"
  BY Zenon DEF TypeOK, ChannelState, IndexOf, LoadIndex
<1>1. call' = [call EXCEPT ![c] = k] /\ indexCache' = value
  BY Zenon DEF LoadIndex, TypeOK
<1> HIDE DEF value
<1>2. /\ k \in Calls /\ call[c].index \in Nat
      /\ k.pc = IF call[c].index <= value THEN "event" ELSE "swap"
      /\ k.loaded = value /\ k.index = call[c].index
      /\ k.steady = call[c].steady /\ k.progress = call[c].progress
  BY <1>0, Zenon DEF Calls, CallPCs
<1> HIDE DEF k
<1>4. /\ call' \in [Callers -> Calls]
      /\ \A d \in Callers : call'[d] = IF d = c THEN k ELSE call[d]
  BY <1>1, <1>2, OneCall, Zenon
<1>5. TypeOK'
  BY <1>0, <1>1, <1>4, Zenon DEF TypeOK, LoadIndex
<1>6. CountInv'
  <2>1. UNCHANGED <<chst, counted, crashes>>
    BY Zenon DEF LoadIndex
  <2>2. /\ \A d \in Callers : call'[d].pc # "idle" => call'[d].index \in Blocks
        /\ \A d \in Callers : call'[d].pc = "swap" => call'[d].loaded < call'[d].index
    BY <1>0, <1>2, <1>4 DEF CountInv
  <2>3. \A d \in Callers : Counting(d)' => d # c /\ call'[d] = call[d] /\ Counting(d)
    BY <1>2, <1>4, Zenon DEF Counting
  <2>4. /\ \A d \in Callers : Counting(d)' => indexCache' = indexCache
        /\ \A i \in Blocks : indexCache' = None \/ indexCache' < i =>
                              indexCache = None \/ indexCache < i
    BY <1>1, <2>3, ProgressAssumption, Zenon DEF CountInv, value
  <2>5. /\ \A d \in Callers :
             Counting(d)' => indexCache' # None /\ call'[d].index <= indexCache'
        /\ \A d, e \in Callers :
             Counting(d)' /\ Counting(e)' /\ call'[d].index = call'[e].index => d = e
    BY <2>3, <2>4, Zenon DEF CountInv
  <2>6. ~Terminated' =>
         /\ \A i \in Blocks : indexCache' = None \/ indexCache' < i => counted[i] <= crashes
         /\ \A d \in Callers : Counting(d)' => counted[call'[d].index] <= crashes
    BY <2>1, <2>3, <2>4, Zenon DEF CountInv, Terminated
  <2> QED
    BY <2>1, <2>2, <2>5, <2>6, Zenon DEF CountInv
<1>7. LimitInv'
  BY <1>0, <1>2, <1>4 DEF LimitInv, SteadyCalls, LoadIndex
<1> QED
  BY <1>5, <1>6, <1>7, Zenon

\* A caller goes on, and if it still counts, it counted before.
LEMMA CountQuiet ==
  ASSUME CountInv, NEW c \in Callers, NEW k,
         \A d \in Callers : call'[d] = IF d = c THEN k ELSE call[d],
         UNCHANGED <<indexCache, counted, crashes>>, Terminated => Terminated',
         k.pc # "idle" => k.index \in Blocks, k.pc # "swap",
         k.pc \in {"limit", "add", "progress"} => Counting(c) /\ k.index = call[c].index
  PROVE  CountInv'
<1>1. \A d \in Callers : Counting(d)' => Counting(d) /\ call'[d].index = call[d].index
  BY Zenon DEF Counting
<1>2. /\ \A d \in Callers : call'[d].pc # "idle" => call'[d].index \in Blocks
      /\ \A d \in Callers : call'[d].pc = "swap" => call'[d].loaded < call'[d].index
  BY Zenon DEF CountInv
<1> QED
  BY <1>1, <1>2, Zenon DEF CountInv

\* updateIfGreater swaps the index it read for the greater one.
LEMMA SwapIndexStep ==
  ASSUME IInv, NEW c \in Callers, SwapIndex(c)
  PROVE  IInv'
<1> DEFINE won == [call[c] EXCEPT !.pc = "limit", !.progress = TRUE]
           again == [call[c] EXCEPT !.pc = "load"]
<1> USE DEF IInv
<1>0. /\ call[c] \in Calls /\ call[c].pc = "swap" /\ call[c].index \in Nat
      /\ call[c].index \in Blocks /\ call[c].loaded \in Nat /\ call[c].loaded < call[c].index
  BY Zenon DEF TypeOK, SwapIndex, Calls, CountInv
<1>1. CASE indexCache = call[c].loaded
  <2>1. call' = [call EXCEPT ![c] = won] /\ indexCache' = call[c].index
    BY <1>1, Zenon DEF SwapIndex, TypeOK
  <2>2. /\ won \in Calls /\ won.pc = "limit" /\ won.index = call[c].index
    BY <1>0, Zenon DEF Calls, CallPCs
  <2> HIDE DEF won
  <2>3. /\ call' \in [Callers -> Calls]
        /\ \A d \in Callers : call'[d] = IF d = c THEN won ELSE call[d]
    BY <2>1, <2>2, OneCall, Zenon
  <2>4. TypeOK'
    BY <1>0, <2>1, <2>3, Zenon DEF TypeOK, SwapIndex
  <2>5. CountInv'
    <3>1. UNCHANGED <<chst, counted, crashes>> /\ indexCache < indexCache'
      BY <1>0, <1>1, <2>1, Zenon DEF SwapIndex
    <3>2. /\ \A d \in Callers : call'[d].pc # "idle" => call'[d].index \in Blocks
          /\ \A d \in Callers : call'[d].pc = "swap" => call'[d].loaded < call'[d].index
      BY <1>0, <2>2, <2>3, Zenon DEF CountInv
    <3>3. \A d \in Callers : d # c /\ Counting(d)' =>
            Counting(d) /\ call'[d].index = call[d].index /\ call[d].index < call[c].index
      <4> SUFFICES ASSUME NEW d \in Callers, d # c, Counting(d)'
                   PROVE  Counting(d) /\ call'[d] = call[d] /\ call[d].index < call[c].index
        BY Zenon
      <4>1. call[d].index \in Nat
        BY Zenon DEF TypeOK, Calls
      <4> QED
        BY <1>0, <1>1, <2>3, <4>1 DEF Counting, CountInv
    <3>4. call'[c].index = call[c].index
      BY <2>2, <2>3, Zenon
    <3>5. /\ \A d \in Callers : Counting(d)' => indexCache' # None /\ call'[d].index <= indexCache'
          /\ \A d, e \in Callers :
               Counting(d)' /\ Counting(e)' /\ call'[d].index = call'[e].index => d = e
      <4>1. \A d \in Callers : call[d].index \in Nat /\ None # call[c].index
        BY <1>0, ProgressAssumption, Zenon DEF TypeOK, Calls
      <4>2. \A d, e \in Callers :
               Counting(d)' /\ Counting(e)' /\ call'[d].index = call'[e].index => d = e
        BY <1>0, <3>3, <3>4, <4>1 DEF CountInv
      <4> QED
        BY <1>0, <2>1, <3>3, <3>4, <4>1, <4>2
    <3>6. ~Terminated' =>
           /\ \A i \in Blocks : indexCache' = None \/ indexCache' < i => counted[i] <= crashes
           /\ \A d \in Callers : Counting(d)' => counted[call'[d].index] <= crashes
      <4> SUFFICES ASSUME ~Terminated
                   PROVE  /\ \A i \in Blocks : indexCache' < i => counted[i] <= crashes
                          /\ \A d \in Callers : Counting(d)' => counted[call'[d].index] <= crashes
        BY <1>0, <2>1, <3>1, ProgressAssumption, Zenon DEF Terminated
      <4>1. \A i \in Blocks : i \in Nat /\ (indexCache' < i => indexCache < i)
        BY <1>0, <1>1, <2>1, ProgressAssumption
      <4>2. counted[call[c].index] <= crashes
        BY <1>0, <1>1, Zenon DEF CountInv
      <4> QED
        BY <3>3, <3>4, <4>1, <4>2, Zenon DEF CountInv
    <3> QED
      BY <3>1, <3>2, <3>5, <3>6, Zenon DEF CountInv
  <2>6. LimitInv'
    <3>1. won.steady = call[c].steady
      BY <1>0, Zenon DEF won, Calls
    <3> QED
      BY <1>0, <2>2, <2>3, <3>1 DEF LimitInv, SteadyCalls, SwapIndex
  <2> QED
    BY <2>4, <2>5, <2>6, Zenon
<1>2. CASE indexCache # call[c].loaded
  <2>1. call' = [call EXCEPT ![c] = again] /\ indexCache' = indexCache
    BY <1>2, Zenon DEF SwapIndex, TypeOK
  <2>2. /\ again \in Calls /\ again.pc = "load" /\ again.index = call[c].index
        /\ again.steady = call[c].steady /\ again.progress = call[c].progress
    BY <1>0, Zenon DEF Calls, CallPCs
  <2> HIDE DEF again
  <2>3. /\ call' \in [Callers -> Calls]
        /\ \A d \in Callers : call'[d] = IF d = c THEN again ELSE call[d]
    BY <2>1, <2>2, OneCall, Zenon
  <2>4. TypeOK'
    BY <2>1, <2>3, Zenon DEF TypeOK, SwapIndex
  <2>5. CountInv'
    BY <1>0, <2>1, <2>2, <2>3, CountQuiet, Zenon DEF SwapIndex, Terminated
  <2>6. LimitInv'
    BY <1>0, <2>2, <2>3 DEF LimitInv, SteadyCalls, SwapIndex
  <2> QED
    BY <2>4, <2>5, <2>6, Zenon
<1> QED
  BY <1>1, <1>2, Zenon

\* progress() reads the cached limit.
LEMMA CopyLimitStep ==
  ASSUME IInv, NEW c \in Callers, CopyLimit(c)
  PROVE  IInv'
<1> DEFINE k == [call[c] EXCEPT !.limit = limitCache', !.pc = "add"]
<1> USE DEF IInv
<1>0. /\ call[c] \in Calls /\ call[c].pc = "limit" /\ call[c].index \in Blocks
  BY Zenon DEF TypeOK, CopyLimit, CountInv
<1>1. /\ call' = [call EXCEPT ![c] = k] /\ limitCache' \in Nat /\ progress' \in Nat
      /\ raced' \in BOOLEAN
  BY Zenon DEF CopyLimit, TypeOK, ChannelState, BytesOf
<1>2. /\ k \in Calls /\ k.pc = "add" /\ k.limit = limitCache' /\ k.index = call[c].index
      /\ k.steady = call[c].steady /\ k.progress = call[c].progress
  BY <1>0, <1>1, Zenon DEF Calls, CallPCs
<1> HIDE DEF k
<1>3. /\ call' \in [Callers -> Calls]
      /\ \A d \in Callers : call'[d] = IF d = c THEN k ELSE call[d]
  BY <1>1, <1>2, OneCall, Zenon
<1>4. TypeOK'
  BY <1>1, <1>3, Zenon DEF TypeOK, CopyLimit
<1>5. CountInv'
  <2>1. Counting(c)
    BY <1>0, Zenon DEF Counting
  <2> QED
    BY <1>0, <1>2, <1>3, <2>1, CountQuiet DEF CopyLimit, Terminated
<1>6. LimitInv'
  <2>1. ~raced' => ~raced /\ (limitCache = None => update.pc # "event")
    BY Zenon DEF CopyLimit
  <2>2. ~raced' => limitCache' = IF update.pc = "event" THEN update.limit ELSE chst.DataLimit
    BY <2>1, ProgressAssumption, Zenon DEF CopyLimit, LimitInv
  <2>3. ~raced' => \A d \in SteadyCalls' :
          call'[d].pc \in {"add", "progress", "event", "exceeded"} =>
            call'[d].limit = chst.DataLimit
    BY <1>2, <1>3, <2>1, <2>2 DEF LimitInv, SteadyCalls
  <2> QED
    BY <1>2, <1>3, <2>2, <2>3, ZenonT(60) DEF LimitInv, CopyLimit
<1> QED
  BY <1>4, <1>5, <1>6, Zenon

\* progress() adds to the shared counter.
LEMMA AddProgressStep ==
  ASSUME IInv, NEW c \in Callers, AddProgress(c)
  PROVE  IInv'
<1> DEFINE b == LimitReached(call[c].limit, progress')
           k == [call[c] EXCEPT !.pc = "progress", !.total = progress', !.pause = b]
<1> USE DEF IInv
<1>0. /\ call[c] \in Calls /\ call[c].pc = "add" /\ call[c].index \in Blocks
      /\ progress' \in Nat /\ b \in BOOLEAN
  BY ProgressAssumption DEF TypeOK, AddProgress, CountInv, LimitReached
<1>1. call' = [call EXCEPT ![c] = k]
  BY Zenon DEF AddProgress, TypeOK
<1> HIDE DEF b
<1>2. /\ k \in Calls /\ k.pc = "progress" /\ k.limit = call[c].limit /\ k.index = call[c].index
      /\ k.steady = call[c].steady /\ k.progress = call[c].progress
      /\ k.pause = b /\ k.total = progress'
  BY <1>0, Zenon DEF Calls, CallPCs
<1> HIDE DEF k
<1>3. /\ call' \in [Callers -> Calls]
      /\ \A d \in Callers : call'[d] = IF d = c THEN k ELSE call[d]
  BY <1>1, <1>2, OneCall, Zenon
<1>4. TypeOK'
  BY <1>0, <1>3, Zenon DEF TypeOK, AddProgress
<1>5. CountInv'
  <2>1. Counting(c)
    BY <1>0, Zenon DEF Counting
  <2> QED
    BY <1>0, <1>2, <1>3, <2>1, CountQuiet, Zenon DEF AddProgress, Terminated
<1>6. LimitInv'
  <2>1. k.pause <=> LimitReached(k.limit, k.total)
    BY <1>2, Zenon DEF b
  <2> QED
    BY <1>0, <1>2, <1>3, <2>1 DEF LimitInv, SteadyCalls, AddProgress
<1> QED
  BY <1>4, <1>5, <1>6, Zenon

\* A caller goes on with the same limit and total, or is idle again, after an
\* event that leaves the limit.
LEMMA LimitQuiet ==
  ASSUME LimitInv, NEW c \in Callers, NEW k,
         \A d \in Callers : call'[d] = IF d = c THEN k ELSE call[d],
         UNCHANGED <<limitCache, raced, update>>, chst'.DataLimit = chst.DataLimit,
         \/ k = Idle
         \/ /\ k.pc \in {"event", "exceeded", "errpause"}
            /\ call[c].pc \in {"progress", "event", "exceeded"}
            /\ k.limit = call[c].limit /\ k.total = call[c].total
            /\ k.pause = call[c].pause /\ k.steady = call[c].steady
            /\ k.progress = call[c].progress
  PROVE  LimitInv'
<1>1. CASE k = Idle
  BY <1>1, IdleType DEF LimitInv, SteadyCalls
<1>2. CASE k # Idle
  BY <1>2 DEF LimitInv, SteadyCalls
<1> QED
  BY <1>1, <1>2, Zenon

\* fireProgressEvent sends the progress event.
LEMMA SendProgressStep ==
  ASSUME IInv, NEW c \in Callers, SendProgress(c)
  PROVE  IInv'
<1> DEFINE size == Sizes[call[c].index]
           event == [code |-> ProgressEvt, arg |-> size]
           taken == BytesOf(Apply(chst, event)) # BytesOf(chst)
           next == [call[c] EXCEPT !.pc = "event"]
           k == IF Terminated THEN Idle ELSE next
<1> USE DEF IInv
<1>0. /\ call[c] \in Calls /\ call[c].pc = "progress" /\ call[c].index \in Blocks
      /\ Counting(c) /\ size \in Nat
  BY ProgressAssumption, Zenon DEF TypeOK, SendProgress, CountInv, Counting
<1>1. event \in Events /\ event.code # "SetDataLimit"
  BY <1>0, Zenon DEF Events, EventCode, ProgressEvt
<1>2. /\ call' = [call EXCEPT ![c] = k] /\ chst' = Apply(chst, event)
      /\ counted' = IF taken THEN [counted EXCEPT ![call[c].index] = @ + 1] ELSE counted
      /\ lost' = IF taken THEN lost ELSE lost + size
      /\ UNCHANGED <<indexCache, limitCache, progress, at, reports, halted, update,
                     updates, raced, panicked, crashes>>
  BY Zenon DEF SendProgress, TypeOK
<1>3. /\ chst' \in ChannelState /\ (Terminated => Terminated')
      /\ chst'.DataLimit = chst.DataLimit /\ (Terminated => ~taken)
  BY <1>1, <1>2, EventKeeps, ApplyFields, Zenon DEF TypeOK, Terminated
<1> HIDE DEF event, taken
<1>4. next \in Calls /\ next.pc = "event" /\ next.limit = call[c].limit /\ next.total = call[c].total
      /\ next.pause = call[c].pause /\ next.steady = call[c].steady
      /\ next.progress = call[c].progress /\ next.index = call[c].index
  BY <1>0, Zenon DEF Calls, CallPCs
<1> HIDE DEF next
<1>5. k \in Calls /\ k.pc \in {"idle", "event"} /\ (k.pc # "idle" => k.index \in Blocks)
  BY <1>0, <1>4, IdleType, Zenon
<1>6. /\ call' \in [Callers -> Calls]
      /\ \A d \in Callers : call'[d] = IF d = c THEN k ELSE call[d]
  BY <1>2, <1>5, OneCall, Zenon
<1>7. TypeOK'
  <2>1. counted' \in [Blocks -> Nat] /\ lost' \in Nat
    BY <1>0, <1>2 DEF TypeOK
  <2> QED
    BY <1>2, <1>3, <1>6, <2>1, Zenon DEF TypeOK
<1>8. LimitInv'
  BY <1>0, <1>2, <1>3, <1>4, <1>6, LimitQuiet, Zenon
<1> HIDE DEF k
<1>9. CountInv'
  <2>1. CASE ~taken
    BY <1>2, <1>3, <1>5, <1>6, <2>1, CountQuiet, Zenon
  <2>2. CASE taken
    <3>1. /\ ~Terminated
          /\ \A d \in Callers : Counting(d)' =>
               d # c /\ Counting(d) /\ call'[d] = call[d] /\ call[d].index # call[c].index
      BY <1>0, <1>3, <1>5, <1>6, <2>2, Zenon DEF Counting, CountInv
    <3>2. \A i \in Blocks : counted'[i] = IF i = call[c].index THEN counted[i] + 1 ELSE counted[i]
      BY <1>2, <2>2, Zenon DEF TypeOK
    <3>3. counted[call[c].index] <= crashes /\ crashes \in Nat /\ counted[call[c].index] \in Nat
          /\ indexCache # None /\ call[c].index <= indexCache /\ indexCache \in Nat
      BY <1>0, <3>1 DEF CountInv, TypeOK
    <3>4. \A i \in Blocks : counted'[i] <= crashes + 1
      BY <1>0, <3>2, <3>3 DEF CountInv
    <3>5. \A i \in Blocks : indexCache' = None \/ indexCache' < i => counted'[i] <= crashes
      <4> SUFFICES ASSUME NEW i \in Blocks, indexCache < i
                   PROVE  counted'[i] <= crashes
        BY <1>2, <3>3, Zenon
      <4>1. i # call[c].index
        BY <3>3, ProgressAssumption
      <4> QED
        BY <3>1, <3>2, <4>1, Zenon DEF CountInv
    <3>6. \A d \in Callers : Counting(d)' =>
            call'[d].index \in Blocks /\ counted'[call'[d].index] <= crashes
      BY <3>1, <3>2 DEF CountInv, Counting
    <3> QED
      BY <1>2, <1>5, <1>6, <3>1, <3>4, <3>5, <3>6 DEF CountInv
  <2> QED
    BY <2>1, <2>2, Zenon
<1> QED
  BY <1>7, <1>8, <1>9, Zenon

\* The end of a call: its event, DataLimitExceeded, and ErrPause.
LEMMA EndReportSteps ==
  ASSUME IInv, NEW c \in Callers, SendEvent(c) \/ SendExceeded(c) \/ PauseRequest(c)
  PROVE  IInv'
<1> DEFINE exceeded == [call[c] EXCEPT !.pc = "exceeded"]
           errpause == [call[c] EXCEPT !.pc = "errpause"]
<1> USE DEF IInv
<1>0. /\ call[c] \in Calls /\ call[c].pc \in {"event", "exceeded", "errpause"}
      /\ call[c].index \in Blocks /\ call[c].index \in Nat
  BY Zenon DEF TypeOK, SendEvent, SendExceeded, PauseRequest, CountInv, Calls
<1>1. \E k \in {Idle, exceeded, errpause} :
        /\ call' = [call EXCEPT ![c] = k]
        /\ k = Idle \/ call[c].pc \in {"event", "exceeded"}
  BY <1>0, Zenon DEF SendEvent, SendExceeded, PauseRequest, TypeOK
<1>2. PICK k \in {Idle, exceeded, errpause} :
        /\ call' = [call EXCEPT ![c] = k]
        /\ k = Idle \/ call[c].pc \in {"event", "exceeded"}
  BY <1>1, Zenon
<1>3. /\ k \in Calls /\ k.pc \in {"idle", "exceeded", "errpause"}
      /\ k.pc # "idle" => k.index \in Blocks
  BY <1>0, IdleType, Zenon DEF Calls, CallPCs
<1>4. \/ k = Idle
      \/ /\ k.pc \in {"event", "exceeded", "errpause"}
         /\ k.limit = call[c].limit /\ k.total = call[c].total
         /\ k.pause = call[c].pause /\ k.steady = call[c].steady
         /\ k.progress = call[c].progress
  BY <1>0, Zenon DEF Calls
<1> HIDE DEF exceeded, errpause
<1>5. /\ call' \in [Callers -> Calls]
      /\ \A d \in Callers : call'[d] = IF d = c THEN k ELSE call[d]
  BY <1>2, <1>3, OneCall, Zenon
<1>6. /\ chst' \in ChannelState /\ (Terminated => Terminated')
      /\ chst'.DataLimit = chst.DataLimit
  <2>1. /\ [code |-> Evt, arg |-> call[c].index] \in Events
        /\ [code |-> Evt, arg |-> call[c].index].code # "SetDataLimit"
        /\ Event("DataLimitExceeded") \in Events
        /\ Event("DataLimitExceeded").code # "SetDataLimit"
    BY <1>0, ProgressAssumption, Zenon DEF Events, EventCode, Event
  <2>2. \/ chst' = chst
        \/ chst' = Apply(chst, [code |-> Evt, arg |-> call[c].index])
        \/ chst' = Apply(chst, Event("DataLimitExceeded"))
    BY Zenon DEF SendEvent, SendExceeded, PauseRequest
  <2> QED
    BY <2>1, <2>2, EventKeeps, Zenon DEF TypeOK, Terminated
<1>7. /\ UNCHANGED <<indexCache, limitCache, progress, at, reports, update,
                     updates, counted, lost, raced, panicked, crashes>>
      /\ halted' \subseteq Callers
  BY Zenon DEF SendEvent, SendExceeded, PauseRequest, TypeOK
<1>8. TypeOK'
  BY <1>5, <1>6, <1>7, Zenon DEF TypeOK
<1>9. CountInv'
  BY <1>3, <1>5, <1>6, <1>7, CountQuiet, Zenon
<1>10. LimitInv'
  BY <1>2, <1>4, <1>5, <1>6, <1>7, LimitQuiet, Zenon
<1> QED
  BY <1>8, <1>9, <1>10, Zenon

\* A goroutine starts the blocks anew after a restart.
LEMMA NextTraversalStep ==
  ASSUME IInv, NEW c \in Callers, NextTraversal(c)
  PROVE  IInv'
<1> USE DEF IInv
<1>1. at' \in [Callers -> Nat] /\ reports' \in [Callers -> Nat]
  BY DEF NextTraversal, TypeOK
<1>2. TypeOK'
  BY <1>1, Zenon DEF NextTraversal, TypeOK
<1>3. CountInv' /\ LimitInv'
  BY Zenon DEF NextTraversal, CountInv, Counting, Terminated, LimitInv, SteadyCalls
<1> QED
  BY <1>2, <1>3, Zenon

-----------------------------------------------------------------------------
(* The steps of the client, of the channel and of the process *)

\* An update begins: no call under way is steady from here on.
LEMMA BeginUpdateStep ==
  ASSUME IInv, NEW n \in Limits, BeginUpdate(n)
  PROVE  IInv'
<1> USE DEF IInv
<1>1. /\ \A c \in Callers : call'[c] \in Calls
      /\ \A c \in Callers :
           /\ ~call'[c].steady
           /\ call'[c].pc = call[c].pc /\ call'[c].index = call[c].index
           /\ call'[c].loaded = call[c].loaded /\ call'[c].limit = call[c].limit
           /\ call'[c].total = call[c].total /\ call'[c].progress = call[c].progress
           /\ call'[c].pause = call[c].pause
  BY ZenonT(60) DEF BeginUpdate, TypeOK, Calls
<1>2. call' \in [Callers -> Calls]
  BY <1>1, Zenon DEF BeginUpdate
<1>3. /\ update' \in [pc : UpdatePCs, limit : Nat, paused : BOOLEAN, leave : BOOLEAN]
      /\ update'.pc \in {"cache", "pause"} /\ update.pc = "idle"
  BY ProgressAssumption, Zenon DEF BeginUpdate, TypeOK, ChannelState, UpdatePCs, LimitReached
<1>4. updates' \in 0 .. MaxUpdates
  BY ProgressAssumption DEF BeginUpdate, TypeOK
<1>5. TypeOK'
  BY <1>2, <1>3, <1>4, Zenon DEF BeginUpdate, TypeOK
<1>6. CountInv'
  <2>1. \A c \in Callers : Counting(c)' <=> Counting(c)
    BY <1>1, Zenon DEF Counting
  <2> QED
    BY <1>1, <2>1, ZenonT(60) DEF BeginUpdate, CountInv, Terminated
<1>7. LimitInv'
  <2>1. UNCHANGED <<chst, limitCache, raced>> /\ update.pc # "event" /\ update'.pc # "event"
    BY <1>3, Zenon DEF BeginUpdate
  <2>2. SteadyCalls' = {}
    BY <1>1, Zenon DEF SteadyCalls
  <2>3. \A c \in Callers :
          /\ call'[c].progress /\ call'[c].pc \in {"progress", "event", "exceeded"} =>
               (call'[c].pause <=> LimitReached(call'[c].limit, call'[c].total))
          /\ call'[c].pc \in {"load", "swap"} => ~call'[c].progress
    BY <1>1, Zenon DEF LimitInv
  <2> QED
    BY <1>1, <2>1, <2>2, <2>3, Zenon DEF LimitInv
<1> QED
  BY <1>5, <1>6, <1>7, Zenon

\* SetDataLimit: the cached limit leads the stored one by the time between its
\* halves.
LEMMA SetDataLimitSteps ==
  ASSUME IInv, CacheLimit \/ SendLimit
  PROVE  IInv'
<1> USE DEF IInv
<1>1. CASE CacheLimit
  <2>1. /\ update' \in [pc : UpdatePCs, limit : Nat, paused : BOOLEAN, leave : BOOLEAN]
        /\ update'.pc = "event" /\ update'.limit = update.limit /\ update.limit \in Nat
        /\ update.pc = "cache"
    BY <1>1, Zenon DEF CacheLimit, TypeOK, UpdatePCs
  <2>2. TypeOK'
    BY <1>1, <2>1, Zenon DEF CacheLimit, TypeOK
  <2>3. CountInv'
    BY <1>1, Zenon DEF CacheLimit, CountInv, Counting, Terminated
  <2>4. LimitInv'
    BY <1>1, <2>1, Zenon DEF CacheLimit, LimitInv, SteadyCalls
  <2> QED
    BY <2>2, <2>3, <2>4, Zenon
<1>2. CASE SendLimit
  <2> DEFINE e == [code |-> "SetDataLimit", arg |-> update.limit]
  <2>1. /\ update' \in [pc : UpdatePCs, limit : Nat, paused : BOOLEAN, leave : BOOLEAN]
        /\ update'.pc = "pause" /\ update.pc = "event" /\ update.limit \in Nat
    BY <1>2, Zenon DEF SendLimit, TypeOK, UpdatePCs
  <2>2. e \in Events /\ e.code = "SetDataLimit" /\ e.arg = update.limit
    BY <2>1, Zenon DEF Events, EventCode
  <2>3. chst' \in ChannelState /\ chst'.DataLimit = update.limit /\ ~Terminated
    BY <1>2, <2>2, ApplyFields, Zenon DEF SendLimit, TypeOK, Terminated
  <2>4. TypeOK'
    BY <1>2, <2>1, <2>3, Zenon DEF SendLimit, TypeOK
  <2>5. CountInv'
    BY <1>2, <2>3, Zenon DEF SendLimit, CountInv, Counting
  <2>6. LimitInv'
    BY <1>2, <2>1, <2>3, Zenon DEF SendLimit, LimitInv, SteadyCalls
  <2> QED
    BY <2>4, <2>5, <2>6, Zenon
<1> QED
  BY <1>1, <1>2, Zenon

\* The steps of an update that change no limit.
LEMMA OtherUpdateSteps ==
  ASSUME IInv,
         \/ RecordPause \/ UpdateTransport
         \/ \E code \in {"Cancel", "CleanupComplete"} : EndChannel(code)
  PROVE  IInv'
<1> USE DEF IInv
<1>1. \A code \in {"PauseResponder", "ResumeResponder", "Cancel", "CleanupComplete"} :
        Event(code) \in Events /\ Event(code).code # "SetDataLimit"
  BY DEF Event, Events, EventCode
<1>2. /\ chst' \in ChannelState /\ (Terminated => Terminated')
      /\ chst'.DataLimit = chst.DataLimit
  BY <1>1, EventKeeps, Zenon DEF RecordPause, UpdateTransport, EndChannel, TypeOK, Terminated
<1>3. /\ update' \in [pc : UpdatePCs, limit : Nat, paused : BOOLEAN, leave : BOOLEAN]
      /\ update' = update \/ (update'.pc # "event" /\ update.pc \in {"pause", "transport"})
      /\ halted' \subseteq Callers
  BY IdleType, Zenon DEF RecordPause, UpdateTransport, EndChannel, TypeOK, UpdatePCs
<1>4. UNCHANGED <<indexCache, limitCache, progress, call, at, reports, updates, counted,
                  lost, raced, panicked, crashes>>
  BY Zenon DEF RecordPause, UpdateTransport, EndChannel
<1>5. TypeOK'
  BY <1>2, <1>3, <1>4, Zenon DEF TypeOK
<1>6. CountInv'
  BY <1>2, <1>4, Zenon DEF CountInv, Counting
<1>7. LimitInv'
  BY <1>2, <1>3, <1>4, Zenon DEF LimitInv, SteadyCalls
<1> QED
  BY <1>5, <1>6, <1>7, Zenon

\* The process ends, by a crash or by the panic of an update: the second only
\* of a channel that terminated, where nothing is counted any more.
LEMMA RestartedSteps ==
  ASSUME IInv, Crash \/ UpdatePanic
  PROVE  IInv'
<1> USE DEF IInv
<1>1. /\ indexCache' = None /\ limitCache' = None /\ progress' = 0 /\ update' = NoUpdate
      /\ call' \in [Callers -> Calls] /\ \A c \in Callers : call'[c] = Idle
      /\ at' \in [Callers -> Nat] /\ halted' = {} /\ lost' = 0 /\ raced' = FALSE
      /\ UNCHANGED <<chst, reports, updates, counted>>
  BY IdleType DEF Crash, UpdatePanic, Restarted
<1>2. /\ crashes' \in 0 .. MaxCrashes /\ panicked' \in BOOLEAN
      /\ crashes' = crashes + 1 \/ (crashes' = crashes /\ Terminated)
  <2>1. MaxCrashes \in Nat /\ crashes \in 0 .. MaxCrashes /\ panicked \in BOOLEAN
    BY ProgressAssumption, Zenon DEF TypeOK
  <2>2. CASE Crash
    BY <2>1, <2>2 DEF Crash
  <2>3. CASE UpdatePanic
    BY <2>1, <2>3, Zenon DEF UpdatePanic
  <2> QED
    BY <2>2, <2>3, Zenon
<1>3. TypeOK'
  BY <1>1, <1>2, IdleType, Zenon DEF TypeOK
<1>4. CountInv'
  <2>1. \A c \in Callers : ~Counting(c)' /\ call'[c].pc = "idle"
    BY <1>1, IdleType, Zenon DEF Counting
  <2>2. \A i \in Blocks : counted[i] <= crashes + 1 /\ counted[i] \in Nat /\ crashes \in Nat
    BY DEF CountInv, TypeOK
  <2>3. \A i \in Blocks : counted'[i] <= crashes' + 1
    BY <1>1, <1>2, <2>2
  <2>4. ~Terminated' => \A i \in Blocks : counted'[i] <= crashes'
    BY <1>1, <1>2, <2>2, Zenon DEF Terminated
  <2> QED
    BY <2>1, <2>3, <2>4, Zenon DEF CountInv
<1>5. LimitInv'
  BY <1>1, IdleType, Zenon DEF LimitInv, SteadyCalls
<1> QED
  BY <1>3, <1>4, <1>5, Zenon

\* The invariant is inductive.
LEMMA NextIInv == IInv /\ [Next]_vars => IInv'
<1> SUFFICES ASSUME IInv, [Next]_vars PROVE IInv'
  BY Zenon
<1>1. CASE \E c \in Callers : Report(c)
  BY <1>1, LoadIndexStep, SwapIndexStep, CopyLimitStep, AddProgressStep, SendProgressStep,
     EndReportSteps, Zenon DEF Report
<1>2. CASE UNCHANGED vars
  BY <1>2 DEF vars, IInv, TypeOK, CountInv, Counting, Terminated, LimitInv, SteadyCalls
<1> QED
  BY <1>1, <1>2, BeginReportStep, NextTraversalStep, BeginUpdateStep, SetDataLimitSteps,
     OtherUpdateSteps, RestartedSteps, Zenon DEF Next

\* The invariant of the caches holds in every reachable state.
LEMMA SpecIInv == Spec => []IInv
<1> QED
  BY InitIInv, NextIInv, PTL DEF Spec

-----------------------------------------------------------------------------
(* Sums over the calls *)

\* The element the fold picks next.
Picked(s) == CHOOSE x \in s : TRUE

\* g sums the sizes of the blocks of the calls K over the subsets of S.
SumsUp(g, K, S) ==
  g = [s \in SUBSET S |-> IF s = {} THEN 0
                          ELSE Sizes[K[Picked(s)].index] + g[s \ {Picked(s)}]]

\* The bytes of the blocks that the calls K of the callers S report.
Total(K, S) == MapThenSumSet(LAMBDA c : Sizes[K[c].index], S)

\* MapThenSumSet is defined by a function that chooses itself out of a set: it is
\* one of the functions that sum up, if there is any.
LEMMA SumIsFixpoint ==
  ASSUME NEW S, NEW K, NEW g, SumsUp(g, K, S)
  PROVE  \E f : SumsUp(f, K, S) /\ Total(K, S) = f[S]
BY Zenon DEF Total, MapThenSumSet, MapThenFoldSet, SumsUp, Picked

\* Among the subsets of a finite set, some members of a nonempty family contain no
\* other: what the inductions below rest on.
LEMMA SmallestSet ==
  ASSUME NEW S, IsFiniteSet(S), NEW T \in SUBSET SUBSET S, T # {}
  PROVE  \E s \in T : \A t \in T : t \subseteq s => t = s
<1>1. IsWellFoundedOn(StrictSubsetOrdering(S), FiniteSubsetsOf(S))
  BY FS_StrictSubsetOrderingWellFounded, Zenon
<1>2. FiniteSubsetsOf(S) = SUBSET S
  BY FS_FiniteSubsetsOfFinite, Zenon
<1>3. \E s \in T : \A t \in T : ~ (<<t, s>> \in StrictSubsetOrdering(S))
  BY <1>1, <1>2, WFMin
<1>4. \A s, t \in T : t \subseteq s /\ t # s => <<t, s>> \in StrictSubsetOrdering(S)
  BY Zenon DEF StrictSubsetOrdering
<1> QED
  BY <1>3, <1>4, Zenon

\* The element picked from a set is one of its elements.
LEMMA PickedIn ==
  ASSUME NEW s, s # {}
  PROVE  Picked(s) \in s
BY Zenon DEF Picked

\* The equations of a function that sums up.
LEMMA Unfold ==
  ASSUME NEW S, NEW K, NEW g, SumsUp(g, K, S)
  PROVE  /\ g[{}] = 0
         /\ \A s \in SUBSET S : s # {} =>
              g[s] = Sizes[K[Picked(s)].index] + g[s \ {Picked(s)}]
BY Zenon DEF SumsUp

\* Two functions that sum up agree where both are defined.
LEMMA SumUnique ==
  ASSUME NEW S, IsFiniteSet(S), NEW K, NEW g, SumsUp(g, K, S),
         NEW T, S \subseteq T, NEW h, SumsUp(h, K, T)
  PROVE  g[S] = h[S]
<1> DEFINE bad == {s \in SUBSET S : g[s] # h[s]}
<1> SUFFICES ASSUME bad # {} PROVE FALSE
  BY Zenon
<1>1. PICK s \in bad : \A t \in bad : t \subseteq s => t = s
  <2>1. bad \in SUBSET SUBSET S
    BY Zenon
  <2> HIDE DEF bad
  <2> QED
    BY <2>1, SmallestSet
<1>2. s # {}
  BY <1>1, Unfold, Zenon
<1>3. Picked(s) \in s
  BY <1>2, PickedIn, Zenon
<1>4. g[s \ {Picked(s)}] = h[s \ {Picked(s)}]
  BY <1>1, <1>3
<1> QED
  BY <1>1, <1>2, <1>4, Unfold

\* A function that sums up exists for every finite set.
LEMMA SumExists ==
  ASSUME NEW S, IsFiniteSet(S), NEW K
  PROVE  \E g : SumsUp(g, K, S)
<1> DEFINE bad == {s \in SUBSET S : ~ \E g : SumsUp(g, K, s)}
<1> SUFFICES ASSUME bad # {} PROVE FALSE
  BY Zenon
<1>1. PICK s \in bad : \A t \in bad : t \subseteq s => t = s
  <2>1. bad \in SUBSET SUBSET S
    BY Zenon
  <2> HIDE DEF bad
  <2> QED
    BY <2>1, SmallestSet
<1> DEFINE of(t) == CHOOSE g : SumsUp(g, K, t)
           v == [t \in SUBSET s |-> of(t)[t]]
           next(t) == IF t = {} THEN 0
                      ELSE Sizes[K[Picked(t)].index] + v[t \ {Picked(t)}]
           g == [t \in SUBSET s |-> next(t)]
<1>2. \A t \in SUBSET s : t # s => SumsUp(of(t), K, t)
  <2> TAKE t \in SUBSET s
  <2> HAVE t # s
  <2>1. \E f : SumsUp(f, K, t)
    BY <1>1, Zenon
  <2> QED
    BY <2>1, Zenon
<1> HIDE DEF of
<1>3. \A t \in SUBSET s : t # {} => t \ {Picked(t)} \in SUBSET s /\ t \ {Picked(t)} # s
  BY PickedIn, Zenon
<1>4. \A t \in SUBSET s : t # s => v[t] = g[t]
  <2> SUFFICES ASSUME NEW t \in SUBSET s, t # s PROVE v[t] = next(t)
    BY Zenon
  <2>1. SumsUp(of(t), K, t)
    BY <1>2, Zenon
  <2>2. CASE t = {}
    BY <2>1, <2>2, Unfold, Zenon
  <2>3. CASE t # {}
    <3> DEFINE u == t \ {Picked(t)}
    <3>1. u \in SUBSET s /\ u # s /\ u \subseteq t
      BY <1>3, <2>3, Zenon
    <3>2. SumsUp(of(u), K, u)
      BY <3>1, <1>2, Zenon
    <3>3. IsFiniteSet(u)
      BY <3>1, FS_Subset, Zenon
    <3>4. of(u)[u] = of(t)[u]
      BY <3>1, <3>2, <3>3, <2>1, SumUnique, Zenon
    <3>5. of(t)[t] = Sizes[K[Picked(t)].index] + of(t)[u]
      BY <2>1, <2>3, Unfold
    <3> QED
      BY <3>1, <3>4, <3>5, <2>3, Zenon
  <2> QED
    BY <2>2, <2>3, Zenon
<1>5. \A t \in SUBSET s : next(t) = IF t = {} THEN 0 
                      ELSE Sizes[K[Picked(t)].index] + g[t \ {Picked(t)}]
  BY <1>3, <1>4, Zenon
<1>6. SumsUp(g, K, s)
  BY <1>5, Zenon DEF SumsUp
<1> QED
  BY <1>1, <1>6, Zenon

\* The sum does not depend on the order in which the elements are picked.
LEMMA SumOf ==
  ASSUME NEW S, IsFiniteSet(S), NEW K, NEW g, SumsUp(g, K, S),
         \A c \in S : Sizes[K[c].index] \in Nat
  PROVE  \A s \in SUBSET S :
           g[s] \in Nat /\ \A x \in s : g[s] = Sizes[K[x].index] + g[s \ {x}]
<1>0. /\ g[{}] = 0
      /\ \A s \in SUBSET S : s # {} =>
           g[s] = Sizes[K[Picked(s)].index] + g[s \ {Picked(s)}]
  BY Zenon DEF SumsUp
<1> DEFINE w(c) == Sizes[K[c].index]
           good(s) == g[s] \in Nat /\ \A x \in s : g[s] = w(x) + g[s \ {x}]
           bad == {s \in SUBSET S : ~good(s)}
<1>1. g[{}] = 0 /\ \A s \in SUBSET S : s # {} => g[s] = w(Picked(s)) + g[s \ {Picked(s)}]
  BY <1>0, Zenon
<1>2. \A c \in S : w(c) \in Nat
  BY Zenon
<1> HIDE DEF w
<1>3. good({})
  BY <1>1
<1> SUFFICES ASSUME bad # {} PROVE FALSE
  BY Zenon DEF w
<1> HIDE DEF good
<1>4. PICK s \in SUBSET S : ~good(s) /\ \A t \in SUBSET s : t # s => good(t)
  <2>1. bad \in SUBSET SUBSET S
    BY Zenon
  <2>2. \E s \in bad : \A t \in bad : t \subseteq s => t = s
    <3> HIDE DEF bad
    <3> QED
      BY <2>1, SmallestSet
  <2> QED
    BY <2>2, Zenon
<1>5. s # {}
  BY <1>3, <1>4, Zenon
<1>6. PICK y \in s : g[s] = w(y) + g[s \ {y}]
  BY <1>1, <1>5, PickedIn, Zenon
<1>7. \A x \in s : good(s \ {x})
  BY <1>4, Zenon
<1>8. g[s] \in Nat
  <2>1. w(y) \in Nat
    BY <1>2, Zenon
  <2>2. good(s \ {y})
    BY <1>7, Zenon
  <2>3. g[s \ {y}] \in Nat
    BY <2>2, Zenon DEF good
  <2> QED
    BY <1>6, <2>1, <2>3
<1>9. ASSUME NEW x \in s, x # y
      PROVE  g[s] = w(x) + g[s \ {x}]
  <2> DEFINE u == (s \ {x}) \ {y}
  <2>1. g[s \ {y}] = w(x) + g[u]
    <3>1. u = (s \ {y}) \ {x} /\ x \in s \ {y}
      BY <1>9, Zenon
    <3> HIDE DEF u
    <3> QED
      BY <3>1, <1>7, Zenon DEF good
  <2>2. g[s \ {x}] = w(y) + g[u]
    <3>1. y \in s \ {x}
      BY <1>9, Zenon
    <3> QED
      BY <3>1, <1>7, Zenon DEF good
  <2>3. good(u)
    <3>1. u \in SUBSET s /\ u # s
      BY Zenon
    <3> QED
      BY <3>1, <1>4, Zenon
  <2>4. g[u] \in Nat /\ w(x) \in Nat /\ w(y) \in Nat
    BY <1>2, <2>3, Zenon DEF good
  <2> HIDE DEF u
  <2> QED
    BY <1>6, <2>1, <2>2, <2>4
<1> QED
  BY <1>4, <1>6, <1>8, <1>9, Zenon DEF good

\* The total is the value of a function that sums up.
LEMMA TotalIs ==
  ASSUME NEW S, IsFiniteSet(S), NEW K
  PROVE  \E f : SumsUp(f, K, S) /\ Total(K, S) = f[S]
<1>1. PICK g : SumsUp(g, K, S)
  BY SumExists, Zenon
<1> QED
  BY <1>1, SumIsFixpoint, Zenon

\* The total over no caller is zero.
LEMMA TotalEmpty ==
  ASSUME NEW K
  PROVE  Total(K, {}) = 0
BY TotalIs, Unfold, FS_EmptySet

\* An element of a finite set contributes its size to the total.
LEMMA TotalMore ==
  ASSUME NEW S, IsFiniteSet(S), NEW K, NEW x \in S, \A c \in S : Sizes[K[c].index] \in Nat
  PROVE  /\ Total(K, S) = Sizes[K[x].index] + Total(K, S \ {x})
         /\ Total(K, S \ {x}) \in Nat
         /\ Total(K, S) \in Nat
<1>1. PICK f : SumsUp(f, K, S) /\ Total(K, S) = f[S]
  BY TotalIs, Zenon
<1> DEFINE s == S \ {x}
<1>2. IsFiniteSet(s)
  BY FS_Subset, Zenon
<1>3. PICK h : SumsUp(h, K, s) /\ Total(K, s) = h[s]
  BY <1>2, TotalIs, Zenon
<1>4. f[s] = h[s]
  BY <1>1, <1>2, <1>3, SumUnique
<1>5. f[S] \in Nat /\ f[S] = Sizes[K[x].index] + f[s] /\ f[s] \in Nat
  BY <1>1, SumOf
<1> QED
  BY <1>1, <1>3, <1>4, <1>5, Zenon

\* The total depends on the indices of the calls only.
LEMMA TotalSame ==
  ASSUME NEW S, IsFiniteSet(S), NEW K, NEW L, \A c \in S : K[c].index = L[c].index
  PROVE  Total(K, S) = Total(L, S)
<1>1. PICK f : SumsUp(f, K, S) /\ Total(K, S) = f[S]
  BY TotalIs, Zenon
<1>2. SumsUp(f, L, S)
  <2>1. \A s \in SUBSET S : s # {} => K[Picked(s)].index = L[Picked(s)].index
    BY PickedIn, Zenon
  <2> QED
    BY <1>1, <2>1, Zenon DEF SumsUp
<1>3. PICK h : SumsUp(h, L, S) /\ Total(L, S) = h[S]
  BY TotalIs, Zenon
<1> QED
  BY <1>1, <1>2, <1>3, SumUnique

-----------------------------------------------------------------------------
(* The cached counter *)

\* The callers whose bytes are in the cached counter and not yet in an event.
Sending == {c \in Callers : call[c].pc = "progress"}

\* The cached counter agrees; before it is filled nothing is in flight or lost.
\* The callers between addition and event are finitely many, each step moving one.
AgreeInv ==
  /\ IsFiniteSet(Sending)
  /\ limitCache = None =>
       lost = 0 /\ \A c \in Callers : call[c].pc \notin {"add", "progress"}
  /\ limitCache # None => progress = BytesOf(chst) + Total(call, Sending) + lost

\* The sizes that are summed are numbers.
LEMMA SendingSizes ==
  ASSUME IInv
  PROVE  /\ \A c \in Sending : Sizes[call[c].index] \in Nat
         /\ BytesOf(chst) \in Nat /\ progress \in Nat /\ lost \in Nat
         /\ \A c \in Callers : call[c].pc # "idle" => Sizes[call[c].index] \in Nat \ {0}
BY ProgressAssumption, Zenon DEF IInv, TypeOK, CountInv, Sending, ChannelState, BytesOf

\* A step that neither adds bytes nor sends any.
LEMMA AgreeQuiet ==
  ASSUME IInv, AgreeInv,
         \A c \in Callers : (call'[c].pc = "progress" <=> call[c].pc = "progress"),
         \A c \in Sending : call'[c].index = call[c].index,
         BytesOf(chst') = BytesOf(chst), lost' = lost, progress' = progress,
         limitCache' = None <=> limitCache = None,
         limitCache = None => \A c \in Callers : call'[c].pc # "add"
  PROVE  AgreeInv'
<1>1. Sending' = Sending
  BY Zenon DEF Sending
<1>2. Total(call, Sending) = Total(call', Sending)
  BY TotalSame, Zenon DEF AgreeInv
<1> QED
  BY <1>1, <1>2, Zenon DEF AgreeInv

\* Reading the limit leaves counter and store in agreement.
LEMMA AgreeCopyLimit ==
  ASSUME IInv, AgreeInv, NEW c \in Callers, CopyLimit(c)
  PROVE  AgreeInv'
<1> DEFINE k == [call[c] EXCEPT !.limit = limitCache', !.pc = "add"]
<1>1. /\ call[c] \in Calls /\ call[c].pc = "limit" /\ limitCache' \in Nat
      /\ call' = [call EXCEPT ![c] = k]
  BY Zenon DEF IInv, TypeOK, CopyLimit, ChannelState
<1>2. k \in Calls /\ k.pc = "add" /\ k.index = call[c].index
  BY <1>1, Zenon DEF Calls, CallPCs
<1> HIDE DEF k
<1>3. \A d \in Callers : call'[d] = IF d = c THEN k ELSE call[d]
  BY <1>1, <1>2, OneCall, Zenon DEF IInv
<1>4. limitCache' # None /\ BytesOf(chst') = BytesOf(chst) /\ lost' = lost
  BY <1>1, ProgressAssumption, Zenon DEF CopyLimit
<1>5. CASE limitCache # None
  <2>1. progress' = progress
    BY <1>5, Zenon DEF CopyLimit
  <2> QED
    BY <1>1, <1>2, <1>3, <1>4, <1>5, <2>1, AgreeQuiet
<1>6. CASE limitCache = None
  <2>1. Sending' = {}
    BY <1>2, <1>3, <1>6, Zenon DEF AgreeInv, Sending
  <2>2. Total(call', {}) = 0
    BY TotalEmpty, Zenon
  <2>3. progress' = BytesOf(chst) /\ lost = 0
    BY <1>6, Zenon DEF CopyLimit, AgreeInv
  <2>4. BytesOf(chst) \in Nat
    BY SendingSizes, Zenon
  <2>5. IsFiniteSet(Sending')
    BY <2>1, FS_EmptySet, Zenon
  <2>6. progress' = BytesOf(chst') + Total(call', Sending') + lost'
    BY <1>4, <2>1, <2>2, <2>3, <2>4
  <2> QED
    BY <1>4, <2>5, <2>6, Zenon DEF AgreeInv
<1> QED
  BY <1>5, <1>6, Zenon

\* What is added to the counter is still to be sent.
LEMMA AgreeAddProgress ==
  ASSUME IInv, AgreeInv, NEW c \in Callers, AddProgress(c)
  PROVE  AgreeInv'
<1> DEFINE size == Sizes[call[c].index]
           k == [call[c] EXCEPT !.pc = "progress", !.total = progress',
                                !.pause = LimitReached(call[c].limit, progress')]
<1>1. /\ call[c] \in Calls /\ call[c].pc = "add" /\ call' = [call EXCEPT ![c] = k]
      /\ progress' = progress + size
      /\ UNCHANGED <<chst, limitCache, lost>>
  BY Zenon DEF IInv, TypeOK, AddProgress
<1>2. IInv'
  BY AddProgressStep, Zenon
<1>3. /\ call'[c].pc = "progress" /\ call'[c].index = call[c].index
      /\ \A d \in Callers : d # c => call'[d] = call[d]
  BY <1>1, Zenon DEF IInv, TypeOK, Calls
<1>4. Sending' = Sending \cup {c} /\ c \notin Sending /\ Sending' \ {c} = Sending
  BY <1>1, <1>3, Zenon DEF Sending
<1>5. IsFiniteSet(Sending')
  BY <1>4, FS_AddElement, Zenon DEF AgreeInv
<1>6. /\ Total(call', Sending') = Sizes[call'[c].index] + Total(call', Sending)
      /\ Total(call', Sending) \in Nat
  <2>1. \A d \in Sending' : Sizes[call'[d].index] \in Nat
    BY <1>2, ProgressAssumption, Zenon DEF IInv, TypeOK, CountInv, Sending
  <2>2. c \in Sending'
    BY <1>4, Zenon
  <2> QED
    BY <1>4, <1>5, <2>1, <2>2, TotalMore
<1>7. Total(call, Sending) = Total(call', Sending)
  <2>1. \A d \in Sending : call[d].index = call'[d].index
    BY <1>3, Zenon DEF Sending
  <2> QED
    BY <2>1, TotalSame, Zenon DEF AgreeInv
<1>8. /\ limitCache # None /\ progress = BytesOf(chst) + Total(call, Sending) + lost
  BY <1>1, Zenon DEF AgreeInv
<1>9. size \in Nat /\ BytesOf(chst) \in Nat /\ progress \in Nat /\ lost \in Nat
  BY <1>1, SendingSizes, Zenon
<1>10. Total(call', Sending') = size + Total(call, Sending) /\ Total(call, Sending) \in Nat
  BY <1>3, <1>6, <1>7, Zenon
<1>11. BytesOf(chst') = BytesOf(chst)
  BY <1>1, Zenon
<1> HIDE DEF size
<1>12. progress' = BytesOf(chst') + Total(call', Sending') + lost'
  BY <1>1, <1>8, <1>9, <1>10, <1>11
<1> QED
  BY <1>1, <1>5, <1>8, <1>12, Zenon DEF AgreeInv

\* What is sent is no longer missing in the store.
LEMMA AgreeSendProgress ==
  ASSUME IInv, AgreeInv, NEW c \in Callers, SendProgress(c)
  PROVE  AgreeInv'
<1> DEFINE size == Sizes[call[c].index]
           event == [code |-> ProgressEvt, arg |-> size]
           taken == BytesOf(Apply(chst, event)) # BytesOf(chst)
<1>1. /\ call[c] \in Calls /\ call[c].pc = "progress" /\ chst' = Apply(chst, event)
      /\ lost' = IF taken THEN lost ELSE lost + size
      /\ UNCHANGED <<progress, limitCache>>
  BY Zenon DEF IInv, TypeOK, SendProgress
<1>2. /\ size \in Nat \ {0} /\ BytesOf(chst) \in Nat /\ progress \in Nat /\ lost \in Nat
  BY <1>1, SendingSizes, Zenon
<1>3. BytesOf(chst') \in {BytesOf(chst), BytesOf(chst) + size}
  <2>1. event \in Events /\ event.code = ProgressEvt /\ event.arg = size
    BY <1>2, Zenon DEF Events, EventCode, ProgressEvt
  <2> QED
    BY <1>1, <2>1, ApplyFields, Zenon DEF IInv, TypeOK
<1>4. BytesOf(chst') + lost' = BytesOf(chst) + lost + size
  BY <1>1, <1>2, <1>3
<1>5. call'[c].pc # "progress" /\ \A d \in Callers : d # c => call'[d] = call[d]
  BY <1>1, IdleType, Zenon DEF IInv, TypeOK, SendProgress, Calls
<1>6. Sending' = Sending \ {c} /\ c \in Sending
  BY <1>1, <1>5, Zenon DEF Sending
<1>7. IsFiniteSet(Sending')
  BY <1>6, FS_Subset, Zenon DEF AgreeInv
<1>8. Total(call, Sending) = size + Total(call, Sending') /\ Total(call, Sending') \in Nat
  BY <1>6, SendingSizes, TotalMore, Zenon DEF AgreeInv
<1>9. Total(call, Sending') = Total(call', Sending')
  <2>1. \A d \in Sending' : call[d].index = call'[d].index
    BY <1>5, <1>6, Zenon DEF Sending
  <2> QED
    BY <1>7, <2>1, TotalSame, Zenon
<1>10. limitCache # None /\ progress = BytesOf(chst) + Total(call, Sending) + lost
  BY <1>1, Zenon DEF AgreeInv
<1>11. progress' = BytesOf(chst') + Total(call', Sending') + lost'
  <2>1. BytesOf(chst') \in Nat /\ lost' \in Nat
    BY <1>1, <1>2, <1>3
  <2> HIDE DEF size, taken
  <2> QED
    BY <1>1, <1>2, <1>4, <1>8, <1>9, <1>10, <2>1
<1> QED
  BY <1>1, <1>7, <1>10, <1>11, Zenon DEF AgreeInv

\* What a step of a caller outside the counter leaves.
LEMMA AgreeCallers ==
  ASSUME IInv, AgreeInv, NEW c \in Callers,
         \/ \E unique \in BOOLEAN : BeginReport(c, unique)
         \/ LoadIndex(c) \/ SwapIndex(c) \/ SendEvent(c) \/ SendExceeded(c)
         \/ PauseRequest(c) \/ NextTraversal(c)
  PROVE  AgreeInv'
<1>1. /\ \A d \in Callers : d # c => call'[d] = call[d]
      /\ call[c].pc # "progress" /\ call'[c].pc \notin {"progress", "add"}
      /\ UNCHANGED <<progress, limitCache, lost>>
  <2>1. call[c] \in Calls /\ call \in [Callers -> Calls]
    BY Zenon DEF IInv, TypeOK
  <2>2. CASE \E unique \in BOOLEAN : BeginReport(c, unique)
    <3>1. PICK unique \in BOOLEAN : BeginReport(c, unique)
      BY <2>2, Zenon
    <3> DEFINE k == [Idle EXCEPT !.pc = IF unique THEN "load" ELSE "event",
                                 !.index = at'[c], !.steady = (update.pc = "idle")]
    <3>2. k.pc \in {"load", "event"}
      BY Zenon DEF Idle
    <3>3. /\ call' = [call EXCEPT ![c] = k] /\ call[c].pc = "idle"
          /\ UNCHANGED <<progress, limitCache, lost>>
      BY <3>1, Zenon DEF BeginReport
    <3> HIDE DEF k
    <3> QED
      BY <2>1, <3>2, <3>3, Zenon
  <2>3. CASE LoadIndex(c) \/ SwapIndex(c)
    BY <2>1, <2>3 DEF LoadIndex, SwapIndex, Calls
  <2>4. CASE SendEvent(c) \/ SendExceeded(c) \/ PauseRequest(c) \/ NextTraversal(c)
    BY <2>1, <2>4 DEF SendEvent, SendExceeded, PauseRequest, NextTraversal, Idle, Calls
  <2> QED
    BY <2>2, <2>3, <2>4, Zenon
<1>2. BytesOf(chst') = BytesOf(chst)
  <2>1. \/ chst' = chst
        \/ chst' = Apply(chst, [code |-> Evt, arg |-> call[c].index])
        \/ chst' = Apply(chst, Event("DataLimitExceeded"))
    BY Zenon DEF BeginReport, LoadIndex, SwapIndex, SendEvent, SendExceeded, PauseRequest, NextTraversal
  <2>2. /\ [code |-> Evt, arg |-> call[c].index] \in Events
        /\ [code |-> Evt, arg |-> call[c].index].code # ProgressEvt
        /\ Event("DataLimitExceeded") \in Events
        /\ Event("DataLimitExceeded").code # ProgressEvt
    BY ProgressAssumption, Zenon DEF IInv, TypeOK, Calls, Events, EventCode, Event, ProgressEvt
  <2> QED
    BY <2>1, <2>2, EventKeeps, Zenon DEF IInv
<1>3. \A d \in Callers : (call'[d].pc = "progress" <=> call[d].pc = "progress")
  BY <1>1, Zenon
<1>4. \A d \in Sending : call'[d].index = call[d].index
  BY <1>1, Zenon DEF Sending
<1>5. limitCache = None => \A d \in Callers : call'[d].pc # "add"
  BY <1>1, Zenon DEF AgreeInv
<1> QED
  BY <1>1, <1>2, <1>3, <1>4, <1>5, AgreeQuiet, Zenon

\* What a step of the client or of the channel leaves.
LEMMA AgreeOthers ==
  ASSUME IInv, AgreeInv,
         \/ \E n \in Limits : BeginUpdate(n)
         \/ CacheLimit \/ SendLimit \/ RecordPause \/ UpdateTransport
         \/ \E code \in {"Cancel", "CleanupComplete"} : EndChannel(code)
  PROVE  AgreeInv'
<1>1. /\ \A d \in Callers : call'[d].pc = call[d].pc /\ call'[d].index = call[d].index
      /\ UNCHANGED <<progress, lost>>
  BY DEF IInv, TypeOK, Calls, BeginUpdate, CacheLimit, SendLimit, RecordPause,
         UpdateTransport, EndChannel
<1>2. limitCache' = None <=> limitCache = None
  BY ProgressAssumption, Zenon DEF IInv, TypeOK, BeginUpdate, CacheLimit, SendLimit, RecordPause,
     UpdateTransport, EndChannel
<1>3. BytesOf(chst') = BytesOf(chst)
  <2>1. \/ chst' = chst
        \/ chst' = Apply(chst, [code |-> "SetDataLimit", arg |-> update.limit])
        \/ \E code \in {"PauseResponder", "ResumeResponder", "Cancel", "CleanupComplete"} :
             chst' = Apply(chst, Event(code))
    BY Zenon DEF BeginUpdate, CacheLimit, SendLimit, RecordPause, UpdateTransport, EndChannel
  <2>2. /\ [code |-> "SetDataLimit", arg |-> update.limit] \in Events
        /\ [code |-> "SetDataLimit", arg |-> update.limit].code # ProgressEvt
    BY Zenon DEF IInv, TypeOK, Events, EventCode, ProgressEvt
  <2>3. \A code \in {"PauseResponder", "ResumeResponder", "Cancel", "CleanupComplete"} :
          Event(code) \in Events /\ Event(code).code # ProgressEvt
    BY DEF Events, EventCode, Event, ProgressEvt
  <2> QED
    BY <2>1, <2>2, <2>3, EventKeeps, Zenon DEF IInv
<1>4. \A d \in Sending : call'[d].index = call[d].index
  BY <1>1, Zenon DEF Sending
<1>5. limitCache = None => \A d \in Callers : call'[d].pc # "add"
  BY <1>1, Zenon DEF AgreeInv
<1> QED
  BY <1>1, <1>2, <1>3, <1>4, <1>5, AgreeQuiet, Zenon

\* With the caches and the calls gone nothing is in flight.
LEMMA AgreeEmpty ==
  ASSUME \A c \in Callers : call[c] = Idle, limitCache = None, lost = 0
  PROVE  AgreeInv
<1>1. Sending = {}
  BY IdleType, Zenon DEF Sending
<1> QED
  BY <1>1, IdleType, FS_EmptySet, Zenon DEF AgreeInv

\* Every step keeps counter and store in agreement.
LEMMA NextAgreeInv == IInv /\ AgreeInv /\ [Next]_vars => AgreeInv'
<1> SUFFICES ASSUME IInv, AgreeInv, [Next]_vars PROVE AgreeInv'
  BY Zenon
<1>1. CASE \E c \in Callers : Report(c)
  BY <1>1, AgreeCallers, AgreeCopyLimit, AgreeAddProgress, AgreeSendProgress, Zenon DEF Report
<1>2. CASE UNCHANGED vars
  BY <1>2, Zenon DEF vars, AgreeInv, Sending
<1>3. CASE Crash \/ UpdatePanic
  <2>1. Sending' = {} /\ \A c \in Callers : call'[c] = Idle
    BY <1>3, IdleType, Zenon DEF Crash, UpdatePanic, Restarted, Sending
  <2> QED
    BY <1>3, <2>1, IdleType, FS_EmptySet, Zenon DEF Crash, UpdatePanic, Restarted, AgreeInv
<1> QED
  BY <1>1, <1>2, <1>3, AgreeCallers, AgreeOthers, Zenon DEF Next

\* Counter and store agree in every reachable state.
LEMMA SpecAgreeInv == Spec => []AgreeInv
<1>1. Init => AgreeInv
  BY AgreeEmpty, Zenon DEF Init
<1> QED
  BY <1>1, SpecIInv, NextAgreeInv, PTL DEF Spec

-----------------------------------------------------------------------------
(* The theorems *)

\* The stored state, the caches, the calls and the histories keep their types.
THEOREM TypeCorrect == Spec => []TypeOK
<1>1. IInv => TypeOK
  BY Zenon DEF IInv
<1> QED
  BY <1>1, SpecIInv, PTL

\* The bytes of a block are counted at most once in the life of a process,
\* whatever the number of callers that report it, however often, and however
\* their loads and swaps (updateIfGreater) interleave.
THEOREM BlocksCountedOnce == Spec => []CountedOnce
<1>1. IInv => CountedOnce
  BY DEF IInv, TypeOK, CountInv, CountedOnce
<1> QED
  BY <1>1, SpecIInv, PTL

\* A call that overlaps no limit update asks for a pause exactly when it takes
\* the data to the stored limit, though it decides by copies of the cached limit
\* and of the shared counter.
THEOREM PauseAtLimit == Spec => []PausesAtLimit
<1>1. IInv => PausesAtLimit
  BY Zenon DEF IInv, LimitInv, PausesAtLimit, PausesAsLimitSays, SteadyCalls
<1> QED
  BY <1>1, SpecIInv, PTL

\* The cached byte counter, by which fireProgressEvent decides about the limit,
\* is the stored count plus the bytes of the calls between their addition and
\* their event, plus the bytes whose event was rejected: it never drifts.
THEOREM CounterAgrees == Spec => []ProgressAgrees
<1>1. AgreeInv => ProgressAgrees
  <2>1. InFlight = Total(call, Sending)
    BY Zenon DEF InFlight, Total, Sending
  <2> QED
    BY <2>1, Zenon DEF AgreeInv, ProgressAgrees
<1> QED
  BY <1>1, SpecAgreeInv, PTL

=============================================================================
