---------------------- MODULE TransportRequesterProofs ----------------------
(***************************************************************************)
(* Proofs about TransportRequester, for any calls and scenarios and any    *)
(* number of requests and dtChannels.                                      *)
(***************************************************************************)
EXTENDS TransportRequester, TLAPS

-----------------------------------------------------------------------------
(* Types *)

OpeningPCs == {"useStore", "register", "track", "lock", "completed", "errch",
               "request", "opened"}

Holding == {"completed", "errch", "request", "opened"}

CallPCs == OpeningPCs \cup {"idle", "find", "close", "closing", "event", "cleanup",
                            "shutdown", "stopping", "done"}

HookPCs == {"queued", "track", "signal", "bail", "clean", "over"}

CallRecord == [pc : CallPCs, ctxDone : BOOLEAN, at : Nat, errch : Nat,
               completed : Nat, failSafe : BOOLEAN]

DTChannel == [lk : Calls \cup {Nil}, requestID : Nat, completed : Nat, opened : Nat,
              storeRegistered : BOOLEAN]

GsReq == [by : Calls, of : Nat, hook : HookPCs, at : Nat, live : BOOLEAN,
          failed : BOOLEAN, executing : BOOLEAN, completed : BOOLEAN,
          cancel : {"no", "asked", "done", "failed"}, canceller : Calls \cup {Nil}]

Fsm == [status : {"none", "live", "cleanup", "ended"},
        step : {"idle", "delete", "clean", "unprotect", "trigger"},
        again : BOOLEAN, at : Nat]

Resources == [protected : BOOLEAN, store : BOOLEAN, hooks : BOOLEAN]

Types ==
  /\ kind \in Scenarios
  /\ call \in [Calls -> CallRecord]
  /\ fsm \in Fsm
  /\ dtChannel \in Seq(DTChannel)
  /\ gs \in Seq(GsReq)
  /\ dtChannels \in 0 .. Len(dtChannel)
  /\ mapping \subseteq DOMAIN gs
  /\ spoiled \subseteq DOMAIN dtChannel
  /\ resources \in Resources
  /\ overlap \in BOOLEAN

\* The open that holds the lock of the dtChannel o.
Holds(c, o) == call[c].at = o /\ call[c].pc \in Holding

\* What points to a dtChannel or to a request points to one that was made, and a
\* lock is held by the open that is between its Lock and its Unlock.
Refs ==
  /\ \A o \in DOMAIN dtChannel :
       /\ dtChannel[o].requestID \in 0 .. Len(gs)
       /\ dtChannel[o].completed \in 0 .. Len(gs)
       /\ dtChannel[o].opened \in 0 .. Len(gs)
  /\ \A c \in Calls :
       /\ call[c].at \in 0 .. Len(dtChannel)
       /\ call[c].pc \in Holding \cup {"register", "lock", "close", "cleanup", "shutdown"} =>
            call[c].at # 0
       /\ call[c].errch \in 0 .. Len(gs)
       /\ call[c].completed \in 0 .. Len(gs)
       /\ call[c].pc \in {"completed", "errch"} => call[c].errch # 0
  /\ \A r \in DOMAIN gs :
       /\ gs[r].of \in DOMAIN dtChannel
       /\ gs[r].at \in 0 .. Len(dtChannel)
       /\ gs[r].hook \in {"signal", "clean"} => gs[r].at # 0
  /\ fsm.at \in 0 .. Len(dtChannel)
  /\ fsm.step = "clean" => fsm.at # 0
  /\ \A o \in DOMAIN dtChannel : \A c \in Calls :
       dtChannel[o].lk = c <=> Holds(c, o)

TInv == Types /\ Refs

-----------------------------------------------------------------------------
(* Requests *)

\* An open waits for the hook of the request it made through o.
Awaited(o) == \E c \in Calls : At(c, "opened") /\ call[c].at = o

\* What a dtChannel holds under its lock, apart from those that were spoiled.
RequestInv ==
  /\ \A o \in DOMAIN dtChannel : \A c \in Calls :
       Holds(c, o) => dtChannel[o].requestID = 0
  /\ \A o \in DOMAIN dtChannel \ spoiled :
       /\ dtChannel[o].requestID \in {0, dtChannel[o].completed}
       /\ dtChannel[o].opened # 0 =>
            /\ dtChannel[o].opened = dtChannel[o].completed
            /\ gs[dtChannel[o].completed].hook = "over"
            /\ Awaited(o)
  /\ \A r \in DOMAIN gs : gs[r].of \notin spoiled =>
       /\ gs[r].hook \in {"queued", "track", "signal"} =>
            r = dtChannel[gs[r].of].completed /\ Awaited(gs[r].of)
       /\ gs[r].live /\ gs[r].cancel = "no" =>
            /\ r = dtChannel[gs[r].of].completed
            /\ dtChannel[gs[r].of].requestID = r \/ Awaited(gs[r].of)
  /\ \A r \in DOMAIN gs :
       gs[r].hook = "signal" /\ gs[r].at \notin spoiled => gs[r].of = gs[r].at

\* What an open knows of the request it cancelled.
OldInv ==
  \A c \in Calls : call[c].at \notin spoiled /\ call[c].pc \in Holding =>
    /\ call[c].pc = "completed" => call[c].completed = call[c].errch
    /\ call[c].pc # "completed" /\ call[c].errch # 0 /\ ~call[c].failSafe =>
         gs[call[c].errch].completed

-----------------------------------------------------------------------------
(* Release *)

\* Which calls are where, and when the cleanup of the state machine runs.
KindInv ==
  /\ \A c \in Calls : /\ call[c].pc \in OpeningPCs => kind[c] \in Openings
                      /\ call[c].pc = "cleanup" => kind[c] = "ReceiveCancel"
  /\ fsm.step # "idle" <=> fsm.status = "cleanup"
  /\ \A r \in DOMAIN gs : gs[r].hook \in {"bail", "clean"} => fsm.status = "ended"

\* There is one dtChannel, and what it holds is given up by the cleanup that takes it
\* out of the map.
Release ==
  /\ Len(dtChannel) <= 1
  /\ resources.store => Len(dtChannel) = 1 /\ dtChannel[1].storeRegistered
  /\ mapping # {} => Len(dtChannel) = 1
  /\ ~CleansUp => dtChannels = Len(dtChannel)
  /\ dtChannels = 0 /\ (mapping # {} \/ resources.store) =>
       fsm.step = "clean" \/ \E c \in Calls : At(c, "cleanup")
  /\ fsm.step \in {"clean", "unprotect", "trigger"} \/ fsm.status = "ended" =>
       dtChannels = 0
  /\ fsm.step = "trigger" \/ fsm.status = "ended" => ~resources.protected
  /\ \A r \in DOMAIN gs : gs[r].hook # "clean"

\* That is so as long as no cleanup met an open or a hook.
ReleaseInv == ~overlap => ~Overlaps /\ Release

-----------------------------------------------------------------------------
(* Sequences and records *)

\* Changing one element of a sequence.
LEMMA SeqExcept ==
  ASSUME NEW S, NEW s \in Seq(S), NEW i \in DOMAIN s, NEW v \in S
  PROVE  /\ [s EXCEPT ![i] = v] \in Seq(S)
         /\ Len([s EXCEPT ![i] = v]) = Len(s)
         /\ DOMAIN [s EXCEPT ![i] = v] = DOMAIN s
         /\ \A j \in DOMAIN s : [s EXCEPT ![i] = v][j] = IF j = i THEN v ELSE s[j]
OBVIOUS

\* Adding one at its end.
LEMMA SeqAppend ==
  ASSUME NEW S, NEW s \in Seq(S), NEW v \in S
  PROVE  /\ Append(s, v) \in Seq(S)
         /\ Len(Append(s, v)) = Len(s) + 1
         /\ DOMAIN s = 1 .. Len(s) /\ Len(s) \in Nat
         /\ DOMAIN Append(s, v) = 1 .. Len(s) + 1
         /\ \A j \in DOMAIN s : Append(s, v)[j] = s[j]
         /\ Append(s, v)[Len(s) + 1] = v
OBVIOUS

\* One call moves on.
LEMMA OneCall ==
  ASSUME Types, NEW c \in Calls, NEW k \in CallRecord, call' = [call EXCEPT ![c] = k]
  PROVE  /\ call' \in [Calls -> CallRecord]
         /\ \A d \in Calls : call'[d] = IF d = c THEN k ELSE call[d]
BY Zenon DEF Types

\* One dtChannel changes.
LEMMA OneChannel ==
  ASSUME Types, NEW o \in DOMAIN dtChannel, NEW d \in DTChannel,
         dtChannel' = [dtChannel EXCEPT ![o] = d]
  PROVE  /\ dtChannel' \in Seq(DTChannel)
         /\ Len(dtChannel') = Len(dtChannel) /\ DOMAIN dtChannel' = DOMAIN dtChannel
         /\ \A p \in DOMAIN dtChannel : dtChannel'[p] = IF p = o THEN d ELSE dtChannel[p]
BY SeqExcept, Zenon DEF Types

\* One request changes.
LEMMA OneGsReq ==
  ASSUME Types, NEW r \in DOMAIN gs, NEW g \in GsReq, gs' = [gs EXCEPT ![r] = g]
  PROVE  /\ gs' \in Seq(GsReq)
         /\ Len(gs') = Len(gs) /\ DOMAIN gs' = DOMAIN gs
         /\ \A q \in DOMAIN gs : gs'[q] = IF q = r THEN g ELSE gs[q]
BY SeqExcept, Zenon DEF Types

\* The elements have their types.
LEMMA Elements ==
  ASSUME Types
  PROVE  /\ \A c \in Calls : call[c] \in CallRecord
         /\ \A o \in DOMAIN dtChannel : dtChannel[o] \in DTChannel
         /\ \A r \in DOMAIN gs : gs[r] \in GsReq
         /\ DOMAIN dtChannel = 1 .. Len(dtChannel) /\ Len(dtChannel) \in Nat
         /\ DOMAIN gs = 1 .. Len(gs) /\ Len(gs) \in Nat
BY DEF Types

\* A new call, dtChannel and request.
LEMMA NewRecords ==
  /\ NewCall \in CallRecord /\ NewCall.pc = "idle" /\ NewCall.at = 0 /\ NewCall.errch = 0
  /\ NewCall.completed = 0
  /\ newDTChannel \in DTChannel /\ newDTChannel.lk = Nil /\ newDTChannel.requestID = 0
  /\ newDTChannel.completed = 0 /\ newDTChannel.opened = 0
BY Zenon DEF NewCall, newDTChannel, CallRecord, CallPCs, OpeningPCs, DTChannel

\* A graphsync request as Request makes it.
LEMMA NewGsReqType ==
  ASSUME NEW c \in Calls, NEW o \in Nat
  PROVE  /\ NewGsReq(c, o) \in GsReq /\ NewGsReq(c, o).of = o
         /\ NewGsReq(c, o).hook = "queued" /\ NewGsReq(c, o).at = 0
BY Zenon DEF NewGsReq, GsReq, HookPCs

\* A call returns.
LEMMA Returns ==
  ASSUME Types, NEW c \in Calls, Return(c)
  PROVE  /\ call' \in [Calls -> CallRecord]
         /\ \A d \in Calls : d # c => call'[d] = call[d]
         /\ call'[c].pc = "done" /\ call'[c].at = 0 /\ call'[c].errch = 0
         /\ call'[c].completed = 0
<1> DEFINE matters == call[c].ctxDone /\ \E r \in DOMAIN gs : gs[r].canceller = c
           k == [NewCall EXCEPT !.pc = "done", !.ctxDone = matters]
<1>1. matters \in BOOLEAN
  BY Zenon DEF Types, CallRecord
<1> HIDE DEF matters
<1>2. /\ k \in CallRecord /\ k.pc = "done" /\ k.at = 0 /\ k.errch = 0 /\ k.completed = 0
  BY <1>1, Zenon DEF NewCall, CallRecord, CallPCs, OpeningPCs
<1>3. call' = [call EXCEPT ![c] = k]
  BY Zenon DEF Return, matters
<1> HIDE DEF k
<1> QED
  BY <1>2, <1>3, OneCall, Zenon

\* A call goes to another label.
LEMMA Goes ==
  ASSUME Types, NEW c \in Calls, NEW l \in CallPCs, Goto(c, l)
  PROVE  /\ call' \in [Calls -> CallRecord]
         /\ \A d \in Calls : d # c => call'[d] = call[d]
         /\ call'[c].pc = l /\ call'[c].at = call[c].at /\ call'[c].errch = call[c].errch
         /\ call'[c].completed = call[c].completed /\ call'[c].failSafe = call[c].failSafe
<1> DEFINE k == [call[c] EXCEPT !.pc = l]
<1>1. call[c] \in CallRecord
  BY Zenon DEF Types
<1>2. /\ k \in CallRecord /\ k.pc = l /\ k.at = call[c].at /\ k.errch = call[c].errch
      /\ k.completed = call[c].completed /\ k.failSafe = call[c].failSafe
  BY <1>1, Zenon DEF CallRecord
<1>3. call' = [call EXCEPT ![c] = k]
  BY Zenon DEF Goto, Types
<1> HIDE DEF k
<1> QED
  BY <1>2, <1>3, OneCall, Zenon

-----------------------------------------------------------------------------
(* Steps that leave locks, requests and signals alone *)

Inv == TInv /\ RequestInv /\ OldInv

\* What Next says beside Step.
Aside == kind' = kind /\ overlap' = (overlap \/ Overlaps')

\* The state machine, the map and the resources keep their types.
Rest ==
  /\ fsm' \in Fsm /\ fsm'.at \in 0 .. Len(dtChannel') /\ (fsm'.step = "clean" => fsm'.at # 0)
  /\ dtChannels' \in 0 .. Len(dtChannel')
  /\ mapping' \subseteq DOMAIN gs' /\ resources' \in Resources
  /\ kind' = kind /\ overlap' \in BOOLEAN

\* A call that holds no lock stays so; one that holds a lock stays where it is.
QuietCalls ==
  /\ call' \in [Calls -> CallRecord]
  /\ \A c \in Calls :
       \/ /\ call[c].pc \notin Holding /\ call'[c].pc \notin Holding
          /\ call'[c].at \in 0 .. Len(dtChannel')
          /\ call'[c].pc \in {"register", "lock", "close", "cleanup", "shutdown"} =>
               call'[c].at # 0
          /\ call'[c].errch \in 0 .. Len(gs) /\ call'[c].completed \in 0 .. Len(gs)
       \/ /\ call'[c].pc = call[c].pc /\ call'[c].at = call[c].at
          /\ call'[c].errch = call[c].errch /\ call'[c].completed = call[c].completed
          /\ call'[c].failSafe = call[c].failSafe

\* The dtChannels are left alone, but there may be new ones.
QuietChannels ==
  /\ dtChannel' \in Seq(DTChannel) /\ Len(dtChannel) <= Len(dtChannel')
  /\ DOMAIN dtChannel \subseteq DOMAIN dtChannel'
  /\ \A o \in DOMAIN dtChannel :
       /\ dtChannel'[o].lk = dtChannel[o].lk
       /\ dtChannel'[o].requestID = dtChannel[o].requestID
       /\ dtChannel'[o].completed = dtChannel[o].completed
       /\ dtChannel'[o].opened = dtChannel[o].opened
  /\ \A o \in DOMAIN dtChannel' \ DOMAIN dtChannel :
       /\ dtChannel'[o].lk = Nil /\ dtChannel'[o].requestID = 0
       /\ dtChannel'[o].completed = 0 /\ dtChannel'[o].opened = 0
  /\ spoiled \subseteq spoiled' /\ spoiled' \subseteq DOMAIN dtChannel'

\* The request r becomes g: its hook comes no nearer to a signal to another open,
\* and it does not come alive.
QuietRequest(r, g) ==
  /\ g.of = gs[r].of
  /\ g.at \in 0 .. Len(dtChannel')
  /\ g.hook = "clean" => g.at # 0
  /\ g.hook \in {"queued", "track", "signal"} =>
       gs[r].hook \in {"queued", "track", "signal"}
  /\ g.hook = "signal" =>
       \/ gs[r].hook = "signal" /\ g.at = gs[r].at
       \/ g.at # 0 /\ (g.at \notin spoiled' => g.of = g.at)
  /\ gs[r].hook = "over" => g.hook = "over"
  /\ g.live => gs[r].live
  /\ g.cancel = "no" => gs[r].cancel = "no"
  /\ gs[r].completed => g.completed

QuietRequests ==
  /\ gs' \in Seq(GsReq) /\ Len(gs') = Len(gs) /\ DOMAIN gs' = DOMAIN gs
  /\ \A r \in DOMAIN gs : QuietRequest(r, gs'[r])

\* A step that is quiet for calls, dtChannels and requests preserves the types.
LEMMA QuietTInv ==
  ASSUME TInv, QuietCalls, QuietChannels, QuietRequests, Rest
  PROVE  TInv'
<1>1. Types'
  BY Zenon DEF TInv, Types, QuietCalls, QuietChannels, QuietRequests, Rest
<1>2. \A c \in Calls : \A o \in DOMAIN dtChannel : Holds(c, o)' <=> Holds(c, o)
  BY Zenon DEF QuietCalls, Holds
<1>3. \A c \in Calls : \A o \in DOMAIN dtChannel' \ DOMAIN dtChannel : ~Holds(c, o)'
  BY Elements DEF QuietCalls, Holds, Holding, TInv, Refs
<1>4. \A o \in DOMAIN dtChannel' : \A c \in Calls : dtChannel'[o].lk = c <=> Holds(c, o)'
  BY <1>2, <1>3, NilAssumption DEF QuietChannels, TInv, Refs
<1>5. \A o \in DOMAIN dtChannel' :
       /\ dtChannel'[o].requestID \in 0 .. Len(gs')
       /\ dtChannel'[o].completed \in 0 .. Len(gs')
       /\ dtChannel'[o].opened \in 0 .. Len(gs')
  <2>1. 0 \in 0 .. Len(gs) /\ Len(gs') = Len(gs)
    BY Elements DEF QuietRequests, TInv
  <2>2. \A o \in DOMAIN dtChannel : /\ dtChannel[o].requestID \in 0 .. Len(gs)
                                    /\ dtChannel[o].completed \in 0 .. Len(gs)
                                    /\ dtChannel[o].opened \in 0 .. Len(gs)
    BY Zenon DEF TInv, Refs
  <2> QED
    BY <2>1, <2>2, Zenon DEF QuietChannels
<1>6. 0 .. Len(dtChannel) \subseteq 0 .. Len(dtChannel')
  BY <1>1, Elements DEF QuietChannels, TInv, Types
<1>7. \A c \in Calls :
       /\ call'[c].at \in 0 .. Len(dtChannel')
       /\ call'[c].pc \in Holding \cup {"register", "lock", "close", "cleanup", "shutdown"} =>
            call'[c].at # 0
       /\ call'[c].errch \in 0 .. Len(gs')
       /\ call'[c].completed \in 0 .. Len(gs')
       /\ call'[c].pc \in {"completed", "errch"} => call'[c].errch # 0
  BY <1>6, Zenon DEF QuietRequests, QuietCalls, TInv, Refs, Holding
<1>8. \A r \in DOMAIN gs' :
       /\ gs'[r].of \in DOMAIN dtChannel'
       /\ gs'[r].at \in 0 .. Len(dtChannel')
       /\ gs'[r].hook \in {"signal", "clean"} => gs'[r].at # 0
  BY DEF QuietChannels, QuietRequests, QuietRequest, TInv, Refs
<1> QED
  BY <1>1, <1>4, <1>5, <1>7, <1>8, Zenon DEF TInv, Refs, Rest

\* A step that is quiet for calls, dtChannels and requests preserves the invariant.
LEMMA QuietStep ==
  ASSUME Inv, QuietCalls, QuietChannels, QuietRequests, Rest
  PROVE  Inv'
<1>1. TInv'
  BY QuietTInv, Zenon DEF Inv
<1>2. /\ \A c \in Calls : \A o \in DOMAIN dtChannel : Holds(c, o)' <=> Holds(c, o)
      /\ \A o \in DOMAIN dtChannel : Awaited(o)' <=> Awaited(o)
  BY Zenon DEF QuietCalls, Holds, Awaited, At, Holding
<1>3. RequestInv'
  <2>1. \A o \in DOMAIN dtChannel' : \A c \in Calls :
          Holds(c, o)' => dtChannel'[o].requestID = 0
    BY <1>2, Zenon DEF Inv, RequestInv, QuietChannels
  <2>2. \A o \in DOMAIN dtChannel' \ spoiled' :
         /\ dtChannel'[o].requestID \in {0, dtChannel'[o].completed}
         /\ dtChannel'[o].opened # 0 =>
              /\ dtChannel'[o].opened = dtChannel'[o].completed
              /\ gs'[dtChannel'[o].completed].hook = "over"
              /\ Awaited(o)'
    <3> SUFFICES ASSUME NEW o \in DOMAIN dtChannel \ spoiled
                 PROVE  /\ dtChannel[o].requestID \in {0, dtChannel[o].completed}
                        /\ dtChannel[o].opened # 0 =>
                             /\ dtChannel[o].opened = dtChannel[o].completed
                             /\ gs'[dtChannel[o].completed].hook = "over"
                             /\ Awaited(o)
      BY <1>2, Zenon DEF QuietChannels
    <3>1. dtChannel[o].opened # 0 => dtChannel[o].opened \in DOMAIN gs
      BY Elements DEF Inv, TInv, Refs
    <3> QED
      BY <3>1, Zenon DEF Inv, RequestInv, QuietRequests, QuietRequest
  <2>3. \A r \in DOMAIN gs' : gs'[r].of \notin spoiled' =>
         /\ gs'[r].hook \in {"queued", "track", "signal"} =>
              r = dtChannel'[gs'[r].of].completed /\ Awaited(gs[r].of)'
         /\ gs'[r].live /\ gs'[r].cancel = "no" =>
              /\ r = dtChannel'[gs'[r].of].completed
              /\ dtChannel'[gs'[r].of].requestID = r \/ Awaited(gs[r].of)'
    <3> SUFFICES ASSUME NEW r \in DOMAIN gs, gs[r].of \notin spoiled
                 PROVE /\ gs'[r].hook \in {"queued", "track", "signal"} =>
                            r = dtChannel[gs[r].of].completed /\ Awaited(gs[r].of)
                       /\ gs'[r].live /\ gs'[r].cancel = "no" =>
                            /\ r = dtChannel[gs[r].of].completed
                            /\ dtChannel[gs[r].of].requestID = r \/ Awaited(gs[r].of)
      BY <1>2 DEF QuietRequests, QuietRequest, QuietChannels, Inv, TInv, Refs
    <3> QED
      BY Zenon DEF Inv, RequestInv, QuietRequests, QuietRequest
  <2>4. \A r \in DOMAIN gs' :
          gs'[r].hook = "signal" /\ gs'[r].at \notin spoiled' => gs'[r].of = gs'[r].at
    BY DEF Inv, RequestInv, QuietRequests, QuietRequest, QuietChannels
  <2> QED
    BY <2>1, <2>2, <2>3, <2>4, Zenon DEF RequestInv
<1>4. OldInv'
  <2> SUFFICES ASSUME NEW c \in Calls, call'[c].at \notin spoiled, call'[c].pc \in Holding
               PROVE  /\ call'[c].pc = "completed" => call'[c].completed = call'[c].errch
                      /\ call'[c].pc # "completed" /\ call'[c].errch # 0 /\ ~call'[c].failSafe =>
                           gs'[call'[c].errch].completed
    BY Zenon DEF OldInv, QuietChannels
  <2>1. /\ call'[c].pc = call[c].pc /\ call'[c].at = call[c].at
        /\ call'[c].errch = call[c].errch /\ call'[c].completed = call[c].completed
        /\ call'[c].failSafe = call[c].failSafe
    BY Zenon DEF QuietCalls
  <2>2. call[c].errch # 0 => call[c].errch \in DOMAIN gs
    BY Elements DEF Inv, TInv, Refs
  <2> QED
    BY <2>1, <2>2 DEF Inv, OldInv, QuietRequests, QuietRequest
<1> QED
  BY <1>1, <1>3, <1>4, Zenon DEF Inv

\* What does not change is quiet.
LEMMA Same ==
  ASSUME TInv
  PROVE  /\ call' = call => QuietCalls
         /\ UNCHANGED <<dtChannel, spoiled>> => QuietChannels
         /\ Len(dtChannel') \in Nat /\ Len(dtChannel) <= Len(dtChannel') /\ gs' = gs => QuietRequests
<1>1. call' = call => QuietCalls
  BY Zenon DEF TInv, Types, QuietCalls
<1>2. UNCHANGED <<dtChannel, spoiled>> => QuietChannels
  BY Elements DEF TInv, Types, QuietChannels
<1>3. Len(dtChannel') \in Nat /\ Len(dtChannel) <= Len(dtChannel') /\ gs' = gs => QuietRequests
  BY Elements DEF TInv, Types, Refs, QuietRequests, QuietRequest
<1> QED
  BY <1>1, <1>2, <1>3, Zenon

\* A call without a lock returns, or goes on without one.
LEMMA CallQuiet ==
  ASSUME TInv, NEW c \in Calls, call[c].pc \notin Holding, NEW l \in CallPCs \ Holding,
         Len(dtChannel') = Len(dtChannel),
         \/ Return(c)
         \/ Goto(c, l) /\ (l \in {"register", "lock", "close", "cleanup", "shutdown"} =>
                             call[c].at # 0)
  PROVE  QuietCalls
<1>1. /\ call' \in [Calls -> CallRecord]
      /\ \A d \in Calls : d # c => call'[d] = call[d]
      /\ call'[c].pc \notin Holding
      /\ call'[c].pc \in {"register", "lock", "close", "cleanup", "shutdown"} => call'[c].at # 0
      /\ call'[c].at \in {0, call[c].at} /\ call'[c].errch \in {0, call[c].errch}
      /\ call'[c].completed \in {0, call[c].completed}
  BY Returns, Goes, Zenon DEF TInv, Holding
<1>2. /\ call[c].at \in 0 .. Len(dtChannel) /\ call[c].errch \in 0 .. Len(gs)
      /\ call[c].completed \in 0 .. Len(gs)
      /\ 0 \in 0 .. Len(dtChannel) /\ 0 \in 0 .. Len(gs)
  BY Elements DEF TInv, Refs
<1> QED
  BY <1>1, <1>2, Zenon DEF QuietCalls

\* A call without a lock goes on with the dtChannel o.
LEMMA CallQuietAt ==
  ASSUME TInv, NEW c \in Calls, call[c].pc \notin Holding, NEW l \in CallPCs \ Holding,
         NEW o \in 0 .. Len(dtChannel'), Len(dtChannel') \in Nat,
         l \in {"register", "lock", "close", "cleanup", "shutdown"} => o # 0,
         call' = [call EXCEPT ![c].pc = l, ![c].at = o]
  PROVE  QuietCalls
<1> DEFINE k == [call[c] EXCEPT !.pc = l, !.at = o]
<1>1. call[c] \in CallRecord /\ o \in Nat
  BY DEF TInv, Types
<1>2. k \in CallRecord /\ k.pc = l /\ k.at = o /\ k.errch = call[c].errch /\ k.completed = call[c].completed
  BY <1>1, Zenon DEF CallRecord
<1>3. call' = [call EXCEPT ![c] = k]
  BY Zenon DEF TInv, Types
<1> HIDE DEF k
<1>4. /\ call' \in [Calls -> CallRecord]
      /\ \A d \in Calls : call'[d] = IF d = c THEN k ELSE call[d]
  BY <1>2, <1>3, OneCall, Zenon DEF TInv
<1> QED
  BY <1>2, <1>4, Zenon DEF QuietCalls, TInv, Refs

\* EndEvent ends a live channel, or has the cleanup run again.
LEMMA EndEventType ==
  ASSUME NEW f \in Fsm
  PROVE  /\ EndEvent(f) \in Fsm /\ EndEvent(f).at = f.at
         /\ EndEvent(f).step = IF f.status = "live" THEN "delete" ELSE f.step
         /\ EndEvent(f).status = IF f.status = "live" THEN "cleanup" ELSE f.status
<1>1. CASE f.status = "live"
  BY <1>1, Zenon DEF EndEvent, Fsm
<1>2. CASE f.status = "cleanup"
  BY <1>2, Zenon DEF EndEvent, Fsm
<1>3. CASE f.status \notin {"live", "cleanup"}
  BY <1>3, Zenon DEF EndEvent
<1> QED
  BY <1>1, <1>2, <1>3, Zenon

\* The steps after which the state machine is one of these have the rest right.
LEMMA RestOf ==
  ASSUME TInv, Len(dtChannel') = Len(dtChannel), DOMAIN gs' = DOMAIN gs, Aside,
         \/ fsm' \in {fsm, EndEvent(fsm)}
         \/ /\ fsm' \in Fsm /\ fsm'.at \in {0, fsm.at}
            /\ fsm'.step = "clean" => fsm.step = "clean" /\ fsm'.at = fsm.at,
         dtChannels' \in {0, dtChannels}, mapping' \subseteq DOMAIN gs, resources' \in Resources
  PROVE  Rest
<1>1. /\ fsm' \in Fsm /\ fsm'.at \in 0 .. Len(dtChannel') /\ (fsm'.step = "clean" => fsm'.at # 0)
  <2>1. fsm \in Fsm /\ fsm.at \in 0 .. Len(dtChannel) /\ (fsm.step = "clean" => fsm.at # 0)
        /\ 0 \in 0 .. Len(dtChannel)
    BY Elements DEF TInv, Types, Refs
  <2> QED
    BY <2>1, EndEventType, Zenon
<1>2. dtChannels' \in 0 .. Len(dtChannel')
  BY Elements DEF TInv, Types
<1> QED
  BY <1>1, <1>2, Zenon DEF Rest, Aside

\* A call begins.
LEMMA BeginStep ==
  ASSUME Inv, Aside, NEW c \in Calls, Begin(c)
  PROVE  Inv'
<1>1. QuietCalls
  <2>1. call[c].pc \notin Holding
    BY Zenon DEF Begin, At, Holding
  <2>2. {"useStore", "find"} \subseteq CallPCs \ Holding
    BY Zenon DEF CallPCs, OpeningPCs, Holding
  <2>3. Goto(c, "useStore") \/ Goto(c, "find") \/ Return(c)
    BY Zenon DEF Begin, Openings
  <2> QED
    BY <2>1, <2>2, <2>3, CallQuiet, Zenon DEF Inv, Begin
<1>2. \/ fsm' \in {fsm, EndEvent(fsm)}
      \/ /\ fsm' \in Fsm /\ fsm'.at \in {0, fsm.at}
         /\ fsm'.step = "clean" => fsm.step = "clean" /\ fsm'.at = fsm.at
  BY Zenon DEF Begin, Openings, Inv, TInv, Types, Fsm
<1>3. UNCHANGED <<dtChannels, dtChannel, mapLk, mapping, resources, gs, spoiled>>
  BY Zenon DEF Begin
<1>4. Rest
  BY <1>2, <1>3, RestOf, Zenon DEF Inv, TInv, Types
<1> QED
  BY <1>1, <1>3, <1>4, Same, QuietStep DEF Inv

\* The store is registered and the connection protected.
LEMMA ProtectStep ==
  ASSUME Inv, Aside, NEW c \in Calls, Protect(c)
  PROVE  Inv'
<1> DEFINE o == call[c].at
           d == [dtChannel[o] EXCEPT !.storeRegistered = TRUE]
<1>1. QuietChannels /\ Len(dtChannel') = Len(dtChannel)
  <2>1. CASE dtChannel' = dtChannel
    BY <2>1, Same, Zenon DEF Inv, Protect
  <2>2. CASE dtChannel' = [dtChannel EXCEPT ![o].storeRegistered = TRUE]
    <3>1. o \in DOMAIN dtChannel
      BY Elements DEF Protect, At, Inv, TInv, Refs
    <3>2. dtChannel[o] \in DTChannel
      BY <3>1, Elements, Zenon DEF Inv, TInv
    <3>3. /\ d \in DTChannel /\ d.lk = dtChannel[o].lk
          /\ d.requestID = dtChannel[o].requestID /\ d.completed = dtChannel[o].completed
          /\ d.opened = dtChannel[o].opened
      BY <3>2, Zenon DEF DTChannel
    <3>4. dtChannel' = [dtChannel EXCEPT ![o] = d] /\ spoiled' = spoiled
      BY <2>2, <3>1, Zenon DEF Inv, TInv, Types, Protect
    <3> HIDE DEF d, o
    <3>5. /\ dtChannel' \in Seq(DTChannel)
          /\ Len(dtChannel') = Len(dtChannel) /\ DOMAIN dtChannel' = DOMAIN dtChannel
          /\ \A p \in DOMAIN dtChannel : dtChannel'[p] = IF p = o THEN d ELSE dtChannel[p]
      BY <3>1, <3>3, <3>4, OneChannel, Zenon DEF Inv, TInv
    <3> QED
      BY <3>3, <3>4, <3>5, Elements DEF QuietChannels, Inv, TInv, Types
  <2> QED
    BY <2>1, <2>2, Zenon DEF Protect
<1>2. QuietCalls
  BY <1>1, CallQuiet DEF Inv, Protect, At, CallPCs, OpeningPCs, Holding
<1>3. Rest
  <2>1. resources' \in Resources
    BY Zenon DEF Protect, Inv, TInv, Types, Resources
  <2> QED
    BY <1>1, <2>1, RestOf, Zenon DEF Protect, Inv, TInv, Types
<1>4. QuietRequests
  BY <1>1, Same, Elements DEF Inv, TInv, Protect
<1> QED
  BY <1>1, <1>2, <1>3, <1>4, QuietStep, Zenon

\* The steps of a close, a received cancel, an end and a stop but for those that
\* take a lock to cancel a request, and the end of a context.
LEMMA EndSteps ==
  ASSUME Inv, Aside, NEW c \in Calls,
         \/ FindChannel(c) \/ WaitForClose(c) \/ CancelEvent(c) \/ ReceiveCancel(c)
         \/ CleanupReceived(c) \/ EndByPeer(c) \/ Shutdown(c) \/ WaitForShutdown(c)
         \/ CtxDone(c)
  PROVE  Inv'
<1>0. UNCHANGED <<dtChannel, gs, spoiled>> /\ Len(dtChannel') = Len(dtChannel) /\ Len(dtChannel') \in Nat
  BY Elements, Zenon DEF FindChannel, WaitForClose, CancelEvent, ReceiveCancel, CleanupReceived,
     EndByPeer, Shutdown, WaitForShutdown, CtxDone, DeleteChannel, Inv, TInv
<1>1. QuietCalls
  <2>1. {"event", "close", "cleanup", "shutdown", "done"} \subseteq CallPCs \ Holding
    BY Zenon DEF CallPCs, OpeningPCs, Holding
  <2>2. CASE CtxDone(c)
    <3> DEFINE k == [call[c] EXCEPT !.ctxDone = TRUE]
    <3>1. call[c] \in CallRecord
      BY Zenon DEF Inv, TInv, Types
    <3>2. /\ k \in CallRecord /\ k.pc = call[c].pc /\ k.at = call[c].at
          /\ k.errch = call[c].errch /\ k.completed = call[c].completed
          /\ k.failSafe = call[c].failSafe
      BY <3>1, Zenon DEF CallRecord
    <3>3. call' = [call EXCEPT ![c] = k]
      BY <2>2, Zenon DEF CtxDone, Inv, TInv, Types
    <3> HIDE DEF k
    <3> QED
      BY <3>2, <3>3, OneCall, Zenon DEF Inv, TInv, QuietCalls
  <2>3. CASE ~CtxDone(c)
    <3>1. call[c].pc \notin Holding
      BY <2>3, Zenon DEF FindChannel, WaitForClose, CancelEvent, ReceiveCancel, CleanupReceived,
             EndByPeer, Shutdown, WaitForShutdown, At, Holding
    <3>2. dtChannels \in 0 .. Len(dtChannel)
      BY Zenon DEF Inv, TInv, Types
    <3>3. \/ Return(c) \/ Goto(c, "event")
          \/ \E l \in {"event", "close", "cleanup", "shutdown"} :
               /\ call' = [call EXCEPT ![c].pc = l, ![c].at = dtChannels]
               /\ l # "event" => dtChannels # 0
      BY <2>3, Zenon DEF FindChannel, WaitForClose, CancelEvent, ReceiveCancel, CleanupReceived,
             EndByPeer, Shutdown, WaitForShutdown
    <3> QED
      BY <1>0, <2>1, <3>1, <3>2, <3>3, CallQuiet, CallQuietAt DEF Inv
  <2> QED
    BY <2>2, <2>3, Zenon
<1>2. /\ fsm' \in {fsm, EndEvent(fsm)} /\ dtChannels' \in {0, dtChannels}
      /\ UNCHANGED <<dtChannel, gs, spoiled>>
  BY Zenon DEF FindChannel, WaitForClose, CancelEvent, ReceiveCancel, CleanupReceived, EndByPeer,
         Shutdown, WaitForShutdown, CtxDone, DeleteChannel
<1>3. mapping' \subseteq DOMAIN gs /\ resources' \in Resources
  BY Zenon DEF FindChannel, WaitForClose, CancelEvent, ReceiveCancel, CleanupReceived, EndByPeer,
         Shutdown, WaitForShutdown, CtxDone, cleanup, Inv, TInv, Types, Resources
<1>4. Rest
  BY <1>2, <1>3, RestOf, Zenon DEF Inv
<1> QED
  BY <1>0, <1>1, <1>4, Same, QuietStep DEF Inv

\* The cleanup of the state machine holds no lock and makes no request.
LEMMA CleanupSteps ==
  ASSUME Inv, Aside, Cleanup
  PROVE  Inv'
<1>1. UNCHANGED <<call, dtChannel, gs, spoiled>> /\ dtChannels' \in {0, dtChannels}
  BY Zenon DEF Cleanup, CleanupDelete, CleanupChannel, Unprotect, CleanupComplete, DeleteChannel
<1>2. mapping' \subseteq DOMAIN gs /\ resources' \in Resources
  BY Zenon DEF Cleanup, CleanupDelete, CleanupChannel, Unprotect, CleanupComplete, cleanup,
         Inv, TInv, Types, Resources
<1>3. Rest
  <2>1. fsm \in Fsm /\ dtChannels \in 0 .. Len(dtChannel) /\ dtChannels \in Nat
    BY DEF Inv, TInv, Types
  <2>2. CASE CleanupDelete
    <3>1. fsm' \in Fsm /\ fsm'.at = dtChannels /\ (fsm'.step = "clean" => dtChannels # 0)
      BY <2>1, <2>2, Zenon DEF CleanupDelete, Fsm
    <3> QED
      BY <1>1, <1>2, <2>1, <3>1, Elements DEF Rest, Aside, Inv, TInv
  <2>3. CASE ~CleanupDelete
    <3>1. \A s \in {"unprotect", "trigger"} :
            [fsm EXCEPT !.step = s] \in Fsm /\ [fsm EXCEPT !.step = s].at = fsm.at
            /\ [fsm EXCEPT !.step = s].step = s
      BY <2>1, Zenon DEF Fsm
    <3>2. CleanupComplete =>
            /\ fsm' \in Fsm /\ fsm'.at \in {0, fsm.at} /\ fsm'.step # "clean"
      <4> DEFINE f == [fsm EXCEPT !.step = "delete", !.again = FALSE]
                 g == [fsm EXCEPT !.step = "idle", !.status = "ended", !.at = 0]
      <4>1. f \in Fsm /\ f.at = fsm.at /\ f.step = "delete" /\ g \in Fsm /\ g.at = 0 /\ g.step = "idle"
        BY <2>1, Zenon DEF Fsm
      <4>2. CleanupComplete => fsm' \in {f, g}
        BY Zenon DEF CleanupComplete
      <4> HIDE DEF f, g
      <4> QED
        BY <4>1, <4>2, Zenon
    <3>3. /\ fsm' \in Fsm /\ fsm'.at \in {0, fsm.at} /\ fsm'.step # "clean"
      BY <2>3, <3>1, <3>2, Zenon DEF Cleanup, CleanupChannel, Unprotect
    <3> QED
      BY <1>1, <1>2, <3>3, RestOf, Zenon DEF Inv
  <2> QED
    BY <2>2, <2>3, Zenon
<1> QED
  BY <1>1, <1>3, Same, QuietStep DEF Inv

\* The steps of one request that are no nearer to a signal.
LEMMA RequestSteps ==
  ASSUME Inv, Aside, NEW r \in DOMAIN gs,
         \/ HookBegins(r) \/ HookBails(r) \/ HookCleans(r) \/ NoHook(r)
         \/ RequestEnds(r) \/ ExecuteGsRequest(r) \/ CancelRequest(r)
  PROVE  Inv'
<1>0. gs[r] \in GsReq /\ gs \in Seq(GsReq) /\ dtChannels \in 0 .. Len(dtChannel)
      /\ dtChannels \in Nat /\ gs[r].at \in 0 .. Len(dtChannel) /\ 0 \in 0 .. Len(dtChannel)
      /\ (gs[r].hook = "clean" => gs[r].at # 0) /\ UNCHANGED <<dtChannel, spoiled>>
      /\ Len(dtChannel') = Len(dtChannel)
  BY Elements DEF Inv, TInv, Types, Refs, HookBegins, HookBails, HookCleans, NoHook,
     RequestEnds, ExecuteGsRequest, CancelRequest
<1>1. \E g \in GsReq : gs' = [gs EXCEPT ![r] = g] /\ QuietRequest(r, g)
  <2>1. CASE HookBegins(r) \/ NoHook(r)
    <3>1. PICK l \in {"bail", "track", "over"} :
            gs[r].hook = "queued" /\ gs' = [gs EXCEPT ![r] = [gs[r] EXCEPT !.hook = l]]
      BY <1>0, <2>1, Zenon DEF HookBegins, NoHook
    <3> DEFINE g == [gs[r] EXCEPT !.hook = l]
    <3>2. g \in GsReq /\ QuietRequest(r, g)
      BY <1>0, <3>1, Zenon DEF GsReq, HookPCs, QuietRequest
    <3> HIDE DEF g
    <3> QED
      BY <3>1, <3>2, Zenon DEF g
  <2>2. CASE HookBails(r) \/ HookCleans(r)
    <3>1. PICK l \in {"over", "clean"}, n \in {0, dtChannels} :
            /\ gs[r].hook \in {"bail", "clean"} /\ (l = "clean" => n # 0)
            /\ gs' = [gs EXCEPT ![r] = [gs[r] EXCEPT !.hook = l, !.at = n]]
      BY <1>0, <2>2, Zenon DEF HookBails, HookCleans
    <3> DEFINE g == [gs[r] EXCEPT !.hook = l, !.at = n]
    <3>2. n \in Nat /\ n \in 0 .. Len(dtChannel')
      BY <1>0
    <3>3. /\ g \in GsReq /\ g.hook = l /\ g.at = n /\ g.of = gs[r].of /\ g.live = gs[r].live
          /\ g.cancel = gs[r].cancel /\ g.completed = gs[r].completed
      BY <1>0, <3>2, Zenon DEF GsReq, HookPCs
    <3> HIDE DEF g
    <3>4. QuietRequest(r, g)
      BY <3>1, <3>2, <3>3, Zenon DEF QuietRequest
    <3> QED
      BY <3>1, <3>3, <3>4, Zenon DEF g
  <2>3. CASE RequestEnds(r)
    <3>1. PICK b \in BOOLEAN : gs' = [gs EXCEPT ![r] = [gs[r] EXCEPT !.live = FALSE, !.failed = b]]
      BY <1>0, <2>3, Zenon DEF RequestEnds, GsReq
    <3> DEFINE g == [gs[r] EXCEPT !.live = FALSE, !.failed = b]
    <3>2. g \in GsReq /\ QuietRequest(r, g)
      BY <1>0, Zenon DEF GsReq, QuietRequest
    <3> QED
      BY <3>1, <3>2, Zenon
  <2>4. CASE ExecuteGsRequest(r)
    <3> DEFINE g == [gs[r] EXCEPT !.completed = TRUE, !.failed = FALSE]
    <3>1. gs' = [gs EXCEPT ![r] = g]
      BY <1>0, <2>4, Zenon DEF ExecuteGsRequest
    <3>2. g \in GsReq /\ QuietRequest(r, g)
      BY <1>0, Zenon DEF GsReq, QuietRequest
    <3> QED
      BY <3>1, <3>2, Zenon
  <2>5. CASE CancelRequest(r)
    <3> DEFINE g == [gs[r] EXCEPT !.cancel = "done", !.live = FALSE, !.canceller = Nil]
               h == [gs[r] EXCEPT !.cancel = "failed", !.canceller = Nil]
    <3>1. gs[r].cancel = "asked" /\ (gs' = [gs EXCEPT ![r] = g] \/ gs' = [gs EXCEPT ![r] = h])
      BY <1>0, <2>5, Zenon DEF CancelRequest
    <3>2. /\ g \in GsReq /\ QuietRequest(r, g)
          /\ h \in GsReq /\ QuietRequest(r, h)
      BY <1>0, <3>1, Zenon DEF GsReq, QuietRequest
    <3> QED
      BY <3>1, <3>2, Zenon
  <2> QED
    BY <2>1, <2>2, <2>3, <2>4, <2>5, Zenon
<1>2. QuietRequests
  <2>1. PICK g \in GsReq : gs' = [gs EXCEPT ![r] = g] /\ QuietRequest(r, g)
    BY <1>1, Zenon
  <2>2. /\ gs' \in Seq(GsReq)
        /\ Len(gs') = Len(gs) /\ DOMAIN gs' = DOMAIN gs
        /\ \A q \in DOMAIN gs : gs'[q] = IF q = r THEN g ELSE gs[q]
    BY <2>1, OneGsReq, Zenon DEF Inv, TInv
  <2>3. \A q \in DOMAIN gs : QuietRequest(q, gs[q])
    BY <1>0, Zenon DEF QuietRequest, Inv, TInv, Refs
  <2> QED
    BY <2>1, <2>2, <2>3, Zenon DEF QuietRequests
<1>3. /\ fsm' \in {fsm, EndEvent(fsm)} /\ dtChannels' \in {0, dtChannels}
      /\ UNCHANGED <<call, dtChannel, spoiled>>
  BY Zenon DEF HookBegins, HookBails, HookCleans, NoHook, RequestEnds, ExecuteGsRequest,
         CancelRequest, DeleteChannel
<1>4. mapping' \subseteq DOMAIN gs /\ resources' \in Resources
  BY Zenon DEF HookBegins, HookBails, HookCleans, NoHook, RequestEnds, ExecuteGsRequest,
         CancelRequest, cleanup, Inv, TInv, Types, Resources
<1>5. Rest
  BY <1>2, <1>3, <1>4, RestOf, Zenon DEF Inv, QuietRequests
<1> QED
  BY <1>2, <1>3, <1>5, Same, QuietStep, Zenon DEF Inv

-----------------------------------------------------------------------------
(* Steps that track the channel *)

\* trackDTChannel leaves the dtChannels there are, and tracks one.
LEMMA TrackQuiet ==
  ASSUME TInv, NEW o \in Objects, trackDTChannel(o),
         spoiled \subseteq spoiled', spoiled' \subseteq spoiled \cup {o}
  PROVE  /\ QuietChannels
         /\ o \in DOMAIN dtChannel' /\ dtChannels' = o
         /\ DOMAIN dtChannel' = 1 .. Len(dtChannel') /\ Len(dtChannel') \in Nat
         /\ \A p \in DOMAIN dtChannel : dtChannel'[p] = dtChannel[p]
<1>1. CASE dtChannels # 0
  BY <1>1, Elements DEF trackDTChannel, TInv, Types, QuietChannels
<1>2. CASE dtChannels = 0
  <2>1. o = Len(dtChannel) + 1 /\ dtChannels' = o /\ dtChannel' = Append(dtChannel, newDTChannel)
    BY <1>2, Zenon DEF trackDTChannel
  <2>2. /\ dtChannel' \in Seq(DTChannel)
        /\ Len(dtChannel') = Len(dtChannel) + 1
        /\ DOMAIN dtChannel = 1 .. Len(dtChannel) /\ Len(dtChannel) \in Nat
        /\ DOMAIN dtChannel' = 1 .. Len(dtChannel) + 1
        /\ \A p \in DOMAIN dtChannel : dtChannel'[p] = dtChannel[p]
        /\ dtChannel'[Len(dtChannel) + 1] = newDTChannel
    BY <2>1, NewRecords, SeqAppend DEF TInv, Types
  <2>3. \A p \in DOMAIN dtChannel' \ DOMAIN dtChannel : dtChannel'[p] = newDTChannel
    BY <2>2
  <2>4. spoiled' \subseteq DOMAIN dtChannel'
    BY <2>1, <2>2 DEF TInv, Types
  <2> QED
    BY <2>1, <2>2, <2>3, <2>4, NewRecords DEF QuietChannels
<1> QED
  BY <1>1, <1>2, Zenon

\* An open tracks the channel, before its store is used and in OpenChannel.
LEMMA TrackSteps ==
  ASSUME Inv, Aside, NEW c \in Calls, UseStore(c) \/ OpenChannel(c)
  PROVE  Inv'
<1>1. PICK o \in Objects, l \in {"register", "lock"} :
        trackDTChannel(o) /\ call' = [call EXCEPT ![c].pc = l, ![c].at = o]
  BY Zenon DEF UseStore, OpenChannel
<1>2. /\ call[c].pc \notin Holding /\ l \in CallPCs \ Holding
      /\ UNCHANGED <<fsm, mapping, resources, gs, spoiled>>
  BY Zenon DEF UseStore, OpenChannel, At, Holding, CallPCs, OpeningPCs
<1>3. /\ QuietChannels
      /\ o \in DOMAIN dtChannel' /\ dtChannels' = o
      /\ DOMAIN dtChannel' = 1 .. Len(dtChannel') /\ Len(dtChannel') \in Nat
  BY <1>1, <1>2, TrackQuiet, Zenon DEF Inv
<1>4. o \in 0 .. Len(dtChannel') /\ o # 0
  BY <1>3
<1>5. QuietCalls
  BY <1>1, <1>2, <1>3, <1>4, CallQuietAt, Zenon DEF Inv
<1>6. QuietRequests
  BY <1>2, <1>3, Same, Zenon DEF Inv, QuietChannels
<1>7. Rest
  <2>1. 0 .. Len(dtChannel) \subseteq 0 .. Len(dtChannel')
    BY <1>3, Elements DEF QuietChannels, Inv, TInv
  <2> QED
    BY <1>2, <1>3, <1>4, <2>1, Zenon DEF Rest, Aside, Inv, TInv, Types, Refs
<1> QED
  BY <1>3, <1>5, <1>6, <1>7, QuietStep, Zenon

\* A hook that tracks another dtChannel than the one of its request spoils it.
LEMMA HookTracksStep ==
  ASSUME Inv, Aside, NEW r \in DOMAIN gs, HookTracks(r)
  PROVE  Inv'
<1>1. PICK o \in Objects :
        /\ trackDTChannel(o)
        /\ gs' = [gs EXCEPT ![r].hook = "signal", ![r].at = o]
        /\ spoiled' = IF o = gs[r].of THEN spoiled ELSE spoiled \cup {o}
  BY Zenon DEF HookTracks
<1>2. gs[r].hook = "track" /\ UNCHANGED <<call, fsm, resources>> /\ mapping' = mapping \cup {r}
  BY Zenon DEF HookTracks
<1>3. /\ QuietChannels
      /\ o \in DOMAIN dtChannel' /\ dtChannels' = o
      /\ DOMAIN dtChannel' = 1 .. Len(dtChannel') /\ Len(dtChannel') \in Nat
  BY <1>1, TrackQuiet, Zenon DEF Inv
<1>4. o \in 0 .. Len(dtChannel') /\ o # 0 /\ o \in Nat
  BY <1>3
<1>5. 0 .. Len(dtChannel) \subseteq 0 .. Len(dtChannel')
  BY <1>3, Elements DEF QuietChannels, Inv, TInv
<1> DEFINE g == [gs[r] EXCEPT !.hook = "signal", !.at = o]
<1>6. gs[r] \in GsReq /\ gs \in Seq(GsReq)
  BY Elements, Zenon DEF Inv, TInv, Types
<1>7. /\ g \in GsReq /\ g.hook = "signal" /\ g.at = o /\ g.of = gs[r].of /\ g.live = gs[r].live
      /\ g.cancel = gs[r].cancel /\ g.completed = gs[r].completed
  BY <1>4, <1>6, Zenon DEF GsReq, HookPCs
<1>8. gs' = [gs EXCEPT ![r] = g]
  BY <1>1, <1>6, Zenon
<1> HIDE DEF g
<1>9. /\ gs' \in Seq(GsReq)
      /\ Len(gs') = Len(gs) /\ DOMAIN gs' = DOMAIN gs
      /\ \A q \in DOMAIN gs : gs'[q] = IF q = r THEN g ELSE gs[q]
  BY <1>7, <1>8, OneGsReq, Zenon DEF Inv, TInv
<1>10. QuietRequest(r, g)
  BY <1>1, <1>2, <1>4, <1>7, Zenon DEF QuietRequest
<1>11. \A q \in DOMAIN gs : QuietRequest(q, gs[q])
  BY <1>5, Zenon DEF QuietRequest, Inv, TInv, Refs
<1>12. QuietRequests
  BY <1>9, <1>10, <1>11, Zenon DEF QuietRequests
<1>13. Rest
  BY <1>2, <1>3, <1>4, <1>5, <1>9, Zenon DEF Rest, Aside, Inv, TInv, Types, Refs
<1>14. QuietCalls
  BY <1>2, Same, Zenon DEF Inv
<1> QED
  BY <1>3, <1>12, <1>13, <1>14, QuietStep, Zenon

-----------------------------------------------------------------------------
(* The hook signals, and opens and closes cancel *)

\* The hook of a request puts its ID into opened.
LEMMA HookSignalsStep ==
  ASSUME Inv, Aside, NEW r \in DOMAIN gs, HookSignals(r)
  PROVE  Inv'
<1> DEFINE o == gs[r].at
           d == [dtChannel[o] EXCEPT !.opened = r]
           g == [gs[r] EXCEPT !.hook = "over", !.at = 0]
<1>1. /\ gs[r].hook = "signal" /\ o \in DOMAIN dtChannel /\ dtChannel[o] \in DTChannel
      /\ gs[r] \in GsReq /\ gs \in Seq(GsReq) /\ dtChannel \in Seq(DTChannel) /\ r \in Nat
      /\ r \in 0 .. Len(gs) /\ r # 0 /\ 0 \in 0 .. Len(dtChannel)
  BY Elements DEF HookSignals, Inv, TInv, Types, Refs
<1>2. /\ dtChannel' = [dtChannel EXCEPT ![o] = d] /\ gs' = [gs EXCEPT ![r] = g]
      /\ UNCHANGED <<call, fsm, dtChannels, mapping, resources, spoiled>>
  BY <1>1, Zenon DEF HookSignals
<1>3. /\ d \in DTChannel /\ d.lk = dtChannel[o].lk /\ d.requestID = dtChannel[o].requestID
      /\ d.completed = dtChannel[o].completed /\ d.opened = r
  BY <1>1, Zenon DEF DTChannel
<1>4. /\ g \in GsReq /\ g.hook = "over" /\ g.at = 0 /\ g.of = gs[r].of /\ g.live = gs[r].live
      /\ g.cancel = gs[r].cancel /\ g.completed = gs[r].completed
  BY <1>1, Zenon DEF GsReq, HookPCs
<1> HIDE DEF o, d, g
<1>5. /\ dtChannel' \in Seq(DTChannel)
      /\ Len(dtChannel') = Len(dtChannel) /\ DOMAIN dtChannel' = DOMAIN dtChannel
      /\ \A p \in DOMAIN dtChannel : dtChannel'[p] = IF p = o THEN d ELSE dtChannel[p]
  BY <1>1, <1>2, <1>3, OneChannel, Zenon DEF Inv, TInv
<1>6. /\ gs' \in Seq(GsReq)
      /\ Len(gs') = Len(gs) /\ DOMAIN gs' = DOMAIN gs
      /\ \A q \in DOMAIN gs : gs'[q] = IF q = r THEN g ELSE gs[q]
  BY <1>2, <1>4, OneGsReq, Zenon DEF Inv, TInv
<1>7. TInv'
  <2>1. Types'
    BY <1>2, <1>5, <1>6, Zenon DEF Inv, TInv, Types, Aside
  <2> QED
    BY <1>1, <1>2, <1>3, <1>4, <1>5, <1>6, <2>1 DEF Inv, TInv, Refs, Holds
<1>8. RequestInv'
  <2>1. \A p : Awaited(p)' <=> Awaited(p)
    BY <1>2, Zenon DEF Awaited, At
  <2>2. o \notin spoiled => r = dtChannel[o].completed /\ Awaited(o)
    BY <1>1, Zenon DEF Inv, RequestInv, o
  <2>3. \A q \in DOMAIN gs : gs[q].hook = "over" => gs'[q].hook = "over"
    BY <1>4, <1>6, Zenon
  <2>4. \A p \in DOMAIN dtChannel : dtChannel[p].opened # 0 => dtChannel[p].opened \in DOMAIN gs
    BY Elements DEF Inv, TInv, Refs
  <2>5. \A p \in DOMAIN dtChannel' \ spoiled' :
         /\ dtChannel'[p].requestID \in {0, dtChannel'[p].completed}
         /\ dtChannel'[p].opened # 0 =>
              /\ dtChannel'[p].opened = dtChannel'[p].completed
              /\ gs'[dtChannel'[p].completed].hook = "over"
              /\ Awaited(p)'
    BY <1>2, <1>3, <1>4, <1>5, <1>6, <2>1, <2>2, <2>3, <2>4 DEF Inv, RequestInv
  <2>6. \A q \in DOMAIN gs' : gs'[q].of \notin spoiled' =>
         /\ gs'[q].hook \in {"queued", "track", "signal"} =>
              q = dtChannel'[gs'[q].of].completed /\ Awaited(gs[q].of)'
         /\ gs'[q].live /\ gs'[q].cancel = "no" =>
              /\ q = dtChannel'[gs'[q].of].completed
              /\ dtChannel'[gs'[q].of].requestID = q \/ Awaited(gs[q].of)'
    <3> SUFFICES ASSUME NEW q \in DOMAIN gs, gs[q].of \notin spoiled
                 PROVE  /\ gs'[q].hook \in {"queued", "track", "signal"} =>
                             q = dtChannel[gs[q].of].completed /\ Awaited(gs[q].of)
                        /\ gs'[q].live /\ gs'[q].cancel = "no" =>
                             /\ q = dtChannel[gs[q].of].completed
                             /\ dtChannel[gs[q].of].requestID = q \/ Awaited(gs[q].of)
      BY <1>2, <1>3, <1>4, <1>5, <1>6, <2>1 DEF Inv, TInv, Refs
    <3> QED
      BY <1>4, <1>6 DEF Inv, RequestInv
  <2> QED
    BY <1>2, <1>3, <1>4, <1>5, <1>6, <2>5, <2>6 DEF Inv, RequestInv, Holds
<1>9. OldInv'
  <2>1. \A c \in Calls : call[c].errch # 0 => call[c].errch \in DOMAIN gs
    BY Elements DEF Inv, TInv, Refs
  <2> QED
    BY <1>2, <1>4, <1>6, <2>1, Zenon DEF Inv, OldInv
<1> QED
  BY <1>7, <1>8, <1>9, Zenon DEF Inv

\* What cancel changes of the requests.
LEMMA Cancels ==
  ASSUME TInv, NEW c \in Calls, NEW r \in 0 .. Len(gs), gs' = cancel(c, r)
  PROVE  /\ gs' \in Seq(GsReq)
         /\ Len(gs') = Len(gs) /\ DOMAIN gs' = DOMAIN gs
         /\ \A q \in DOMAIN gs :
              /\ gs'[q].of = gs[q].of /\ gs'[q].hook = gs[q].hook /\ gs'[q].at = gs[q].at
              /\ (gs'[q].live <=> gs[q].live) /\ (gs'[q].completed <=> gs[q].completed)
              /\ gs'[q].cancel = IF q = r THEN "asked" ELSE gs[q].cancel
<1>1. CASE r = 0
  BY <1>1, Elements DEF cancel, TInv, Types
<1>2. CASE r # 0
  <2> DEFINE g == [gs[r] EXCEPT !.cancel = "asked", !.canceller = c]
  <2>1. r \in DOMAIN gs /\ gs[r] \in GsReq /\ gs \in Seq(GsReq)
    BY <1>2, Elements DEF TInv, Types
  <2>2. gs' = [gs EXCEPT ![r] = g]
    BY <1>2, <2>1, Zenon DEF cancel
  <2>3. /\ g \in GsReq /\ g.of = gs[r].of /\ g.hook = gs[r].hook /\ g.at = gs[r].at
        /\ g.live = gs[r].live /\ g.completed = gs[r].completed /\ g.cancel = "asked"
    BY <2>1, Zenon DEF GsReq
  <2> HIDE DEF g
  <2>4. /\ gs' \in Seq(GsReq)
        /\ Len(gs') = Len(gs) /\ DOMAIN gs' = DOMAIN gs
        /\ \A q \in DOMAIN gs : gs'[q] = IF q = r THEN g ELSE gs[q]
    BY <2>1, <2>2, <2>3, OneGsReq, Zenon DEF TInv
  <2> QED
    BY <2>3, <2>4, Zenon
<1> QED
  BY <1>1, <1>2, Zenon

\* A call takes the lock of o and cancels the request that o holds; from there it
\* keeps the lock, to wait or to make its request, or gives it up.
CancelCall(c, o) ==
  /\ call' \in [Calls -> CallRecord] /\ \A e \in Calls : e # c => call'[e] = call[e]
  /\ call[c].pc \notin Holding
  /\ call'[c].at = o /\ call'[c].errch = dtChannel[o].requestID
  /\ call'[c].completed \in 0 .. Len(gs)
  /\ call'[c].pc \notin {"errch", "opened"}
  /\ call'[c].pc = "completed" =>
       dtChannel[o].requestID # 0 /\ call'[c].completed = dtChannel[o].completed
  /\ call'[c].pc = "request" => dtChannel[o].requestID = 0

CancelChannel(c, o) ==
  /\ dtChannel' \in Seq(DTChannel) /\ DOMAIN dtChannel' = DOMAIN dtChannel
  /\ Len(dtChannel') = Len(dtChannel)
  /\ \A p \in DOMAIN dtChannel : p # o => dtChannel'[p] = dtChannel[p]
  /\ dtChannel'[o].lk = IF call'[c].pc \in Holding THEN c ELSE Nil
  /\ dtChannel'[o].requestID = 0 /\ dtChannel'[o].completed = dtChannel[o].completed
  /\ dtChannel'[o].opened = dtChannel[o].opened

\* Cancelling the request of a dtChannel whose lock is free preserves the invariant.
LEMMA CancelInv ==
  ASSUME Inv, Aside, NEW c \in Calls, NEW o \in DOMAIN dtChannel, Free(o),
         CancelCall(c, o), CancelChannel(c, o),
         gs' = cancel(c, dtChannel[o].requestID),
         UNCHANGED <<fsm, dtChannels, mapping, resources, spoiled>>
  PROVE  Inv'
<1> DEFINE r == dtChannel[o].requestID
<1>1. /\ r \in 0 .. Len(gs) /\ 0 \in 0 .. Len(gs) /\ dtChannel[o].lk = Nil
      /\ o \in 0 .. Len(dtChannel) /\ o # 0
  BY Elements DEF Inv, TInv, Refs, Free
<1>2. /\ gs' \in Seq(GsReq)
      /\ Len(gs') = Len(gs) /\ DOMAIN gs' = DOMAIN gs
      /\ \A q \in DOMAIN gs :
           /\ gs'[q].of = gs[q].of /\ gs'[q].hook = gs[q].hook /\ gs'[q].at = gs[q].at
           /\ (gs'[q].live <=> gs[q].live) /\ (gs'[q].completed <=> gs[q].completed)
           /\ gs'[q].cancel = IF q = r THEN "asked" ELSE gs[q].cancel
  BY <1>1, Cancels, Zenon DEF Inv
<1> HIDE DEF r
<1>3. /\ \A e \in Calls : \A p \in DOMAIN dtChannel :
           Holds(e, p)' <=> \/ e # c /\ Holds(e, p)
                            \/ e = c /\ p = o /\ call'[c].pc \in Holding
      /\ \A e \in Calls : ~Holds(e, o)
      /\ \A p \in DOMAIN dtChannel : Awaited(p)' <=> Awaited(p)
  <2>1. \A e \in Calls : ~Holds(e, o)
    BY <1>1, NilAssumption, Zenon DEF Inv, TInv, Refs
  <2>2. \A e \in Calls : \A p \in DOMAIN dtChannel :
           Holds(e, p)' <=> \/ e # c /\ Holds(e, p)
                            \/ e = c /\ p = o /\ call'[c].pc \in Holding
    BY Zenon DEF Holds, CancelCall
  <2>3. \A p \in DOMAIN dtChannel : Awaited(p)' <=> Awaited(p)
    BY Zenon DEF Awaited, At, Holding, CancelCall
  <2> QED
    BY <2>1, <2>2, <2>3, Zenon
<1>4. TInv'
  <2>1. Types'
    BY <1>2, Zenon DEF Inv, TInv, Types, Aside, CancelCall, CancelChannel
  <2>2. \A p \in DOMAIN dtChannel' : \A e \in Calls : dtChannel'[p].lk = e <=> Holds(e, p)'
    <3>1. \A e \in Calls : dtChannel'[o].lk = e <=> Holds(e, o)'
      BY <1>3, NilAssumption, Zenon DEF CancelChannel
    <3>2. \A p \in DOMAIN dtChannel : p # o => \A e \in Calls :
            dtChannel'[p].lk = e <=> Holds(e, p)'
      <4>1. \A p \in DOMAIN dtChannel : ~Holds(c, p)
        BY Zenon DEF CancelCall, Holds
      <4> QED
        BY <1>3, <4>1, Zenon DEF Inv, TInv, Refs, CancelChannel
    <3> QED
      BY <3>1, <3>2, Zenon DEF CancelChannel
  <2>3. \A p \in DOMAIN dtChannel' :
          /\ dtChannel'[p].requestID \in 0 .. Len(gs')
          /\ dtChannel'[p].completed \in 0 .. Len(gs')
          /\ dtChannel'[p].opened \in 0 .. Len(gs')
    BY <1>1, <1>2, Zenon DEF Inv, TInv, Refs, CancelChannel
  <2>4. \A e \in Calls :
          /\ call'[e].at \in 0 .. Len(dtChannel')
          /\ call'[e].pc \in Holding \cup {"register", "lock", "close", "cleanup", "shutdown"} =>
               call'[e].at # 0
          /\ call'[e].errch \in 0 .. Len(gs')
          /\ call'[e].completed \in 0 .. Len(gs')
          /\ call'[e].pc \in {"completed", "errch"} => call'[e].errch # 0
    <3> SUFFICES ASSUME NEW e \in Calls
                 PROVE  /\ call'[e].at \in 0 .. Len(dtChannel)
                        /\ call'[e].pc \in Holding \cup {"register", "lock", "close", "cleanup", "shutdown"} =>
                             call'[e].at # 0
                        /\ call'[e].errch \in 0 .. Len(gs)
                        /\ call'[e].completed \in 0 .. Len(gs)
                        /\ call'[e].pc \in {"completed", "errch"} => call'[e].errch # 0
      BY <1>2, Zenon DEF CancelChannel
    <3>1. CASE e = c
      BY <1>1, <3>1, Zenon DEF CancelCall, r
    <3>2. CASE e # c
      BY <3>2, Zenon DEF CancelCall, Inv, TInv, Refs
    <3> QED
      BY <3>1, <3>2, Zenon
  <2>5. \A q \in DOMAIN gs' :
          /\ gs'[q].of \in DOMAIN dtChannel'
          /\ gs'[q].at \in 0 .. Len(dtChannel')
          /\ gs'[q].hook \in {"signal", "clean"} => gs'[q].at # 0
    <3>1. \A q \in DOMAIN gs :
            /\ gs[q].of \in DOMAIN dtChannel
            /\ gs[q].at \in 0 .. Len(dtChannel)
            /\ gs[q].hook \in {"signal", "clean"} => gs[q].at # 0
      BY Zenon DEF Inv, TInv, Refs
    <3> QED
      BY <1>2, <3>1, Zenon DEF CancelChannel
  <2>6. fsm'.at \in 0 .. Len(dtChannel') /\ (fsm'.step = "clean" => fsm'.at # 0)
    BY Zenon DEF Inv, TInv, Refs, CancelChannel
  <2> QED
    BY <2>1, <2>2, <2>3, <2>4, <2>5, <2>6, Zenon DEF TInv, Refs
<1>5. RequestInv'
  <2>1. \A p \in DOMAIN dtChannel' : \A e \in Calls : Holds(e, p)' => dtChannel'[p].requestID = 0
    BY <1>3, Zenon DEF Inv, RequestInv, CancelChannel
  <2>2. \A p \in DOMAIN dtChannel' \ spoiled' :
         /\ dtChannel'[p].requestID \in {0, dtChannel'[p].completed}
         /\ dtChannel'[p].opened # 0 =>
              /\ dtChannel'[p].opened = dtChannel'[p].completed
              /\ gs'[dtChannel'[p].completed].hook = "over"
              /\ Awaited(p)'
    <3>1. \A p \in DOMAIN dtChannel : dtChannel[p].opened # 0 => dtChannel[p].opened \in DOMAIN gs
      BY Elements DEF Inv, TInv, Refs
    <3> QED
      BY <1>2, <1>3, <3>1 DEF Inv, RequestInv, CancelChannel
  <2>3. \A q \in DOMAIN gs' : gs'[q].of \notin spoiled' =>
         /\ gs'[q].hook \in {"queued", "track", "signal"} =>
              q = dtChannel'[gs'[q].of].completed /\ Awaited(gs[q].of)'
         /\ gs'[q].live /\ gs'[q].cancel = "no" =>
              /\ q = dtChannel'[gs'[q].of].completed
              /\ dtChannel'[gs'[q].of].requestID = q \/ Awaited(gs[q].of)'
    <3>1. \A q \in DOMAIN gs : gs[q].of \in DOMAIN dtChannel /\ gs'[q].of = gs[q].of
      BY <1>2, Zenon DEF Inv, TInv, Refs
    <3>2. \A q \in DOMAIN gs : Awaited(gs[q].of)' <=> Awaited(gs[q].of)
      BY <1>3, <3>1 DEF Awaited, At
    <3>3. \A p \in DOMAIN dtChannel :
            /\ dtChannel'[p].completed = dtChannel[p].completed
            /\ dtChannel'[p].requestID = IF p = o THEN 0 ELSE dtChannel[p].requestID
      BY Zenon DEF CancelChannel
    <3>4. \A q \in DOMAIN gs : gs[q].of \notin spoiled /\ gs'[q].live /\ gs'[q].cancel = "no" =>
            gs[q].live /\ gs[q].cancel = "no" /\ q # r
      BY <1>2, Zenon
    <3>5. \A q \in DOMAIN gs : gs[q].of \notin spoiled /\ gs'[q].live /\ gs'[q].cancel = "no" =>
            /\ q = dtChannel'[gs[q].of].completed
            /\ dtChannel'[gs[q].of].requestID = q \/ Awaited(gs[q].of)
      BY <3>1, <3>3, <3>4 DEF Inv, RequestInv, r
    <3>6. \A q \in DOMAIN gs : gs[q].of \notin spoiled /\ gs'[q].hook \in {"queued", "track", "signal"} =>
            q = dtChannel'[gs[q].of].completed /\ Awaited(gs[q].of)
      BY <1>2, <3>1, <3>3, Zenon DEF Inv, RequestInv
    <3> QED
      BY <1>2, <3>1, <3>2, <3>5, <3>6
  <2>4. \A q \in DOMAIN gs' :
          gs'[q].hook = "signal" /\ gs'[q].at \notin spoiled' => gs'[q].of = gs'[q].at
    BY <1>2 DEF Inv, RequestInv
  <2> QED
    BY <2>1, <2>2, <2>3, <2>4, Zenon DEF RequestInv
<1>6. OldInv'
  <2>1. \A e \in Calls : call[e].errch # 0 => call[e].errch \in DOMAIN gs
    BY Elements DEF Inv, TInv, Refs
  <2>2. call'[c].pc = "completed" /\ o \notin spoiled => call'[c].completed = call'[c].errch
    BY Zenon DEF Inv, RequestInv, CancelCall
  <2> QED
    BY <1>2, <2>1, <2>2 DEF Inv, OldInv, Holding, CancelCall
<1> QED
  BY <1>4, <1>5, <1>6, Zenon DEF Inv

\* An open takes the lock and cancels the request before it.
LEMMA LockStep ==
  ASSUME Inv, Aside, NEW c \in Calls, Lock(c)
  PROVE  Inv'
<1> DEFINE o == call[c].at
           r == dtChannel[o].requestID
           k == [call[c] EXCEPT !.pc = IF r = 0 THEN "request" ELSE "completed",
                                !.errch = r, !.completed = dtChannel[o].completed]
           d == [dtChannel[o] EXCEPT !.lk = c, !.requestID = 0]
<1>1. /\ call[c].pc = "lock" /\ Free(o) /\ gs' = cancel(c, r)
      /\ UNCHANGED <<fsm, dtChannels, mapping, resources, spoiled>>
  BY Zenon DEF Lock, LockThen, At
<1>2. /\ o \in DOMAIN dtChannel /\ call[c] \in CallRecord /\ dtChannel[o] \in DTChannel
      /\ dtChannel \in Seq(DTChannel) /\ dtChannel[o].completed \in 0 .. Len(gs)
      /\ r \in Nat /\ dtChannel[o].completed \in Nat
  BY <1>1, Elements DEF Inv, TInv, Refs, Types
<1>3. call' = [call EXCEPT ![c] = k]
  BY Zenon DEF Lock, LockThen, Inv, TInv, Types
<1>4. dtChannel' = [dtChannel EXCEPT ![o] = d]
  BY <1>2, Zenon DEF Lock, LockThen
<1>5. /\ k \in CallRecord /\ k.pc = IF r = 0 THEN "request" ELSE "completed"
      /\ k.at = o /\ k.errch = r /\ k.completed = dtChannel[o].completed
  <2> HIDE DEF r
  <2> QED
    BY <1>2, Zenon DEF CallRecord, CallPCs, OpeningPCs
<1>6. /\ d \in DTChannel /\ d.lk = c /\ d.requestID = 0 /\ d.completed = dtChannel[o].completed
      /\ d.opened = dtChannel[o].opened
  BY <1>2, Zenon DEF DTChannel
<1> HIDE DEF k, d, o
<1>7. /\ call' \in [Calls -> CallRecord]
      /\ \A e \in Calls : call'[e] = IF e = c THEN k ELSE call[e]
  BY <1>3, <1>5, OneCall, Zenon DEF Inv, TInv
<1>8. /\ dtChannel' \in Seq(DTChannel)
      /\ Len(dtChannel') = Len(dtChannel) /\ DOMAIN dtChannel' = DOMAIN dtChannel
      /\ \A p \in DOMAIN dtChannel : dtChannel'[p] = IF p = o THEN d ELSE dtChannel[p]
  BY <1>2, <1>4, <1>6, OneChannel, Zenon DEF Inv, TInv
<1>9. CancelCall(c, o)
  BY <1>1, <1>2, <1>5, <1>7, Zenon DEF CancelCall, Holding
<1>10. CancelChannel(c, o)
  BY <1>2, <1>5, <1>6, <1>7, <1>8, Zenon DEF CancelChannel, Holding
<1> QED
  BY <1>1, <1>2, <1>9, <1>10, CancelInv, Zenon

\* A close or a shutdown cancels the request under the lock.
LEMMA CloseSteps ==
  ASSUME Inv, Aside, NEW c \in Calls, CloseLocked(c) \/ ShutdownLocked(c)
  PROVE  Inv'
<1> DEFINE o == call[c].at
           r == dtChannel[o].requestID
           d == [dtChannel[o] EXCEPT !.requestID = 0]
<1>1. /\ call[c].pc \in {"close", "shutdown"} /\ Free(o) /\ gs' = cancel(c, r)
      /\ UNCHANGED <<fsm, dtChannels, mapping, resources, spoiled>>
  BY Zenon DEF CloseLocked, ShutdownLocked, At
<1>2. /\ o \in DOMAIN dtChannel /\ call[c] \in CallRecord /\ dtChannel[o] \in DTChannel
      /\ dtChannel \in Seq(DTChannel) /\ call[c].completed \in 0 .. Len(gs) /\ r \in Nat
  BY <1>1, Elements DEF Inv, TInv, Refs, Types
<1>3. PICK l \in {"closing", "stopping"} : call' = [call EXCEPT ![c].pc = l, ![c].errch = r]
  BY Zenon DEF CloseLocked, ShutdownLocked
<1> DEFINE k == [call[c] EXCEPT !.pc = l, !.errch = r]
<1>4. call' = [call EXCEPT ![c] = k] /\ dtChannel' = [dtChannel EXCEPT ![o] = d]
  BY <1>2, <1>3, Zenon DEF CloseLocked, ShutdownLocked, Inv, TInv, Types
<1>5. /\ k \in CallRecord /\ k.pc = l /\ k.at = o /\ k.errch = r /\ k.completed = call[c].completed
  <2> HIDE DEF r
  <2> QED
    BY <1>2, Zenon DEF CallRecord, CallPCs, OpeningPCs
<1>6. /\ d \in DTChannel /\ d.lk = dtChannel[o].lk /\ d.requestID = 0
      /\ d.completed = dtChannel[o].completed /\ d.opened = dtChannel[o].opened
  BY <1>2, Zenon DEF DTChannel
<1> HIDE DEF k, d, o
<1>7. /\ call' \in [Calls -> CallRecord]
      /\ \A e \in Calls : call'[e] = IF e = c THEN k ELSE call[e]
  BY <1>4, <1>5, OneCall, Zenon DEF Inv, TInv
<1>8. /\ dtChannel' \in Seq(DTChannel)
      /\ Len(dtChannel') = Len(dtChannel) /\ DOMAIN dtChannel' = DOMAIN dtChannel
      /\ \A p \in DOMAIN dtChannel : dtChannel'[p] = IF p = o THEN d ELSE dtChannel[p]
  BY <1>2, <1>4, <1>6, OneChannel, Zenon DEF Inv, TInv
<1>9. CancelCall(c, o)
  BY <1>1, <1>2, <1>5, <1>7, Zenon DEF CancelCall, Holding
<1>10. CancelChannel(c, o)
  BY <1>1, <1>2, <1>5, <1>6, <1>7, <1>8, Zenon DEF CancelChannel, Holding, Free
<1> QED
  BY <1>1, <1>2, <1>9, <1>10, CancelInv, Zenon

-----------------------------------------------------------------------------
(* Waits under the lock, and its release *)

\* The open c keeps its lock, and waits for the next thing or goes on to its request.
Waits(c) ==
  /\ call' \in [Calls -> CallRecord] /\ \A e \in Calls : e # c => call'[e] = call[e]
  /\ call[c].pc \in {"completed", "errch"} /\ call'[c].pc \in {"errch", "request"}
  /\ call'[c].at = call[c].at /\ call'[c].errch = call[c].errch
  /\ call'[c].completed = call[c].completed
  /\ call'[c].at \notin spoiled /\ ~call'[c].failSafe => gs[call[c].errch].completed

\* Such a wait changes nothing but the call.
LEMMA WaitInv ==
  ASSUME Inv, Aside, NEW c \in Calls, Waits(c),
         UNCHANGED <<fsm, dtChannels, dtChannel, mapping, resources, gs, spoiled>>
  PROVE  Inv'
<1>1. /\ \A e \in Calls : \A p \in DOMAIN dtChannel : Holds(e, p)' <=> Holds(e, p)
      /\ \A p \in DOMAIN dtChannel : Awaited(p)' <=> Awaited(p)
  BY Zenon DEF Waits, Holds, Holding, Awaited, At
<1>2. TInv'
  <2>1. Types'
    BY Zenon DEF Inv, TInv, Types, Aside, Waits
  <2>2. \A e \in Calls :
          /\ call'[e].at \in 0 .. Len(dtChannel)
          /\ call'[e].pc \in Holding \cup {"register", "lock", "close", "cleanup", "shutdown"} =>
               call'[e].at # 0
          /\ call'[e].errch \in 0 .. Len(gs)
          /\ call'[e].completed \in 0 .. Len(gs)
          /\ call'[e].pc \in {"completed", "errch"} => call'[e].errch # 0
    BY DEF Inv, TInv, Refs, Waits, Holding
  <2> QED
    BY <1>1, <2>1, <2>2, Zenon DEF Inv, TInv, Refs
<1>3. RequestInv'
  <2>1. \A q \in DOMAIN gs : Awaited(gs[q].of)' <=> Awaited(gs[q].of)
    BY <1>1, Zenon DEF Inv, TInv, Refs, Awaited, At
  <2> QED
    BY <1>1, <2>1, Zenon DEF Inv, RequestInv
<1>4. OldInv'
  BY Zenon DEF Inv, OldInv, Waits
<1> QED
  BY <1>2, <1>3, <1>4, Zenon DEF Inv

\* The lock of o is given up, and o is spoiled where its open gave up on the hook.
LetsGo(c, o) ==
  /\ call' \in [Calls -> CallRecord] /\ \A e \in Calls : e # c => call'[e] = call[e]
  /\ call[c].pc \in Holding /\ call[c].at = o
  /\ call'[c].pc = "done" /\ call'[c].at = 0 /\ call'[c].errch = 0 /\ call'[c].completed = 0
  /\ dtChannel' \in Seq(DTChannel) /\ DOMAIN dtChannel' = DOMAIN dtChannel
  /\ Len(dtChannel') = Len(dtChannel)
  /\ \A p \in DOMAIN dtChannel :
       /\ dtChannel'[p].lk = IF p = o THEN Nil ELSE dtChannel[p].lk
       /\ dtChannel'[p].requestID = dtChannel[p].requestID
       /\ dtChannel'[p].completed = dtChannel[p].completed
       /\ dtChannel'[p].opened = dtChannel[p].opened
  /\ spoiled' \in {spoiled, spoiled \cup {o}}
  /\ call[c].pc = "opened" => o \in spoiled'

\* What the release of the lock does to locks and waits.
LEMMA LetGoHolds ==
  ASSUME TInv, NEW c \in Calls, NEW o \in DOMAIN dtChannel, LetsGo(c, o)
  PROVE  /\ \A e \in Calls : \A p \in DOMAIN dtChannel : Holds(e, p)' <=> e # c /\ Holds(e, p)
         /\ \A p \in DOMAIN dtChannel : \A e \in Calls : dtChannel'[p].lk = e <=> Holds(e, p)'
         /\ \A p \in DOMAIN dtChannel : p \notin spoiled' => (Awaited(p)' <=> Awaited(p))
<1>1. \A e \in Calls : \A p \in DOMAIN dtChannel : Holds(e, p)' <=> e # c /\ Holds(e, p)
  BY Zenon DEF LetsGo, Holds, Holding
<1>2. Holds(c, o) /\ dtChannel[o].lk = c
  BY Zenon DEF LetsGo, Holds, TInv, Refs
<1>3. \A e \in Calls : dtChannel'[o].lk = e <=> Holds(e, o)'
  <2>1. \A e \in Calls : e # c => ~Holds(e, o)
    BY <1>2, Zenon DEF TInv, Refs
  <2> QED
    BY <1>1, <2>1, NilAssumption DEF LetsGo
<1>4. \A p \in DOMAIN dtChannel : p # o => \A e \in Calls : dtChannel'[p].lk = e <=> Holds(e, p)'
  <2>1. \A p \in DOMAIN dtChannel : p # o => ~Holds(c, p)
    BY Zenon DEF LetsGo, Holds
  <2> QED
    BY <1>1, <2>1 DEF LetsGo, TInv, Refs
<1>5. \A p \in DOMAIN dtChannel : p \notin spoiled' => (Awaited(p)' <=> Awaited(p))
  <2> SUFFICES ASSUME NEW p \in DOMAIN dtChannel, p \notin spoiled'
               PROVE  Awaited(p)' <=> Awaited(p)
    BY Zenon
  <2>1. \A e \in Calls : At(e, "opened")' /\ call'[e].at = p => At(e, "opened") /\ call[e].at = p
    BY Zenon DEF LetsGo, At
  <2>2. \A e \in Calls : At(e, "opened") /\ call[e].at = p => At(e, "opened")' /\ call'[e].at = p
    BY Zenon DEF LetsGo, At
  <2> QED
    BY <2>1, <2>2, Zenon DEF Awaited
<1> QED
  BY <1>1, <1>3, <1>4, <1>5, Zenon

\* An open that returns and unlocks preserves the invariant.
LEMMA LetGoInv ==
  ASSUME Inv, Aside, NEW c \in Calls, NEW o \in DOMAIN dtChannel, LetsGo(c, o),
         fsm' \in {fsm, EndEvent(fsm)},
         UNCHANGED <<dtChannels, mapping, resources, gs>>
  PROVE  Inv'
<1>1. /\ \A e \in Calls : \A p \in DOMAIN dtChannel : Holds(e, p)' <=> e # c /\ Holds(e, p)
      /\ \A p \in DOMAIN dtChannel : \A e \in Calls : dtChannel'[p].lk = e <=> Holds(e, p)'
      /\ \A p \in DOMAIN dtChannel : p \notin spoiled' => (Awaited(p)' <=> Awaited(p))
  BY LetGoHolds, Zenon DEF Inv
<1>2. TInv'
  <2>1. Rest
    BY RestOf, Zenon DEF Inv, TInv, Types, LetsGo
  <2>2. Types'
    BY <2>1, Zenon DEF Inv, TInv, Types, LetsGo, Rest
  <2>3. \A e \in Calls :
          /\ call'[e].at \in 0 .. Len(dtChannel)
          /\ call'[e].pc \in Holding \cup {"register", "lock", "close", "cleanup", "shutdown"} =>
               call'[e].at # 0
          /\ call'[e].errch \in 0 .. Len(gs)
          /\ call'[e].completed \in 0 .. Len(gs)
          /\ call'[e].pc \in {"completed", "errch"} => call'[e].errch # 0
    <3>1. 0 \in 0 .. Len(dtChannel) /\ 0 \in 0 .. Len(gs)
      BY Elements DEF Inv, TInv
    <3> QED
      BY <3>1 DEF Inv, TInv, Refs, LetsGo, Holding
  <2>4. \A p \in DOMAIN dtChannel' :
          /\ dtChannel'[p].requestID \in 0 .. Len(gs)
          /\ dtChannel'[p].completed \in 0 .. Len(gs)
          /\ dtChannel'[p].opened \in 0 .. Len(gs)
    BY Zenon DEF Inv, TInv, Refs, LetsGo
  <2>5. \A r \in DOMAIN gs :
          /\ gs[r].of \in DOMAIN dtChannel'
          /\ gs[r].at \in 0 .. Len(dtChannel')
          /\ gs[r].hook \in {"signal", "clean"} => gs[r].at # 0
    BY Zenon DEF Inv, TInv, Refs, LetsGo
  <2>6. \A p \in DOMAIN dtChannel' : \A e \in Calls : dtChannel'[p].lk = e <=> Holds(e, p)'
    BY <1>1, Zenon DEF LetsGo
  <2>7. Len(dtChannel') = Len(dtChannel)
    BY Zenon DEF LetsGo
  <2> QED
    BY <2>1, <2>2, <2>3, <2>4, <2>5, <2>6, <2>7, Zenon DEF TInv, Refs, Rest
<1>3. RequestInv'
  <2>1. \A p \in DOMAIN dtChannel' : \A e \in Calls : Holds(e, p)' => dtChannel'[p].requestID = 0
    BY <1>1, Zenon DEF Inv, RequestInv, LetsGo
  <2>2. \A p \in DOMAIN dtChannel' \ spoiled' :
         /\ dtChannel'[p].requestID \in {0, dtChannel'[p].completed}
         /\ dtChannel'[p].opened # 0 =>
              /\ dtChannel'[p].opened = dtChannel'[p].completed
              /\ gs[dtChannel'[p].completed].hook = "over"
              /\ Awaited(p)'
    BY <1>1 DEF Inv, RequestInv, LetsGo
  <2>3. \A q \in DOMAIN gs : gs[q].of \notin spoiled' =>
          /\ gs[q].of \in DOMAIN dtChannel /\ gs[q].of \notin spoiled
          /\ dtChannel'[gs[q].of].completed = dtChannel[gs[q].of].completed
          /\ dtChannel'[gs[q].of].requestID = dtChannel[gs[q].of].requestID
          /\ Awaited(gs[q].of)' <=> Awaited(gs[q].of)
    <3>1. \A q \in DOMAIN gs : gs[q].of \in DOMAIN dtChannel
      BY Zenon DEF Inv, TInv, Refs
    <3>2. spoiled \subseteq spoiled'
      BY Zenon DEF LetsGo
    <3>3. \A q \in DOMAIN gs : gs[q].of \notin spoiled' => (Awaited(gs[q].of)' <=> Awaited(gs[q].of))
      BY <1>1, <3>1, Zenon DEF Awaited, At
    <3>4. \A q \in DOMAIN gs :
            /\ dtChannel'[gs[q].of].completed = dtChannel[gs[q].of].completed
            /\ dtChannel'[gs[q].of].requestID = dtChannel[gs[q].of].requestID
      BY <3>1, Zenon DEF LetsGo
    <3> QED
      BY <3>1, <3>2, <3>3, <3>4, Zenon
  <2>4. \A q \in DOMAIN gs : gs[q].hook = "signal" /\ gs[q].at \notin spoiled' => gs[q].of = gs[q].at
    BY Zenon DEF Inv, RequestInv, LetsGo
  <2> QED
    BY <2>1, <2>2, <2>3, <2>4 DEF Inv, RequestInv
<1>4. OldInv'
  BY DEF Inv, OldInv, LetsGo, Holding
<1> QED
  BY <1>2, <1>3, <1>4, Zenon DEF Inv

\* A failed open gives its lock up.
LEMMA FailOpens ==
  ASSUME Inv, NEW c \in Calls, call[c].pc \in Holding, FailOpen(c),
         \/ spoiled' = spoiled /\ call[c].pc # "opened"
         \/ spoiled' = spoiled \cup {call[c].at}
  PROVE  /\ call[c].at \in DOMAIN dtChannel /\ LetsGo(c, call[c].at)
         /\ fsm' \in {fsm, EndEvent(fsm)}
<1> DEFINE o == call[c].at
           d == [dtChannel[o] EXCEPT !.lk = Nil]
<1>1. o \in DOMAIN dtChannel
  BY Elements DEF Inv, TInv, Refs
<1>2. /\ call' \in [Calls -> CallRecord] /\ \A e \in Calls : e # c => call'[e] = call[e]
      /\ call'[c].pc = "done" /\ call'[c].at = 0 /\ call'[c].errch = 0 /\ call'[c].completed = 0
  BY Returns, Zenon DEF FailOpen, Inv, TInv
<1>3. dtChannel[o] \in DTChannel
  BY <1>1, Elements, Zenon DEF Inv, TInv
<1>4. /\ d \in DTChannel /\ d.lk = Nil /\ d.requestID = dtChannel[o].requestID
      /\ d.completed = dtChannel[o].completed /\ d.opened = dtChannel[o].opened
  BY <1>3, Zenon DEF DTChannel
<1>5. dtChannel' = [dtChannel EXCEPT ![o] = d]
  BY <1>1, Zenon DEF FailOpen, Inv, TInv, Types
<1>6. fsm' \in {fsm, EndEvent(fsm)}
  BY Zenon DEF FailOpen
<1> HIDE DEF d, o
<1>7. /\ dtChannel' \in Seq(DTChannel)
      /\ Len(dtChannel') = Len(dtChannel) /\ DOMAIN dtChannel' = DOMAIN dtChannel
      /\ \A p \in DOMAIN dtChannel : dtChannel'[p] = IF p = o THEN d ELSE dtChannel[p]
  BY <1>1, <1>4, <1>5, OneChannel, Zenon DEF Inv, TInv
<1>8. LetsGo(c, o)
  <2>1. call[c].at = o
    BY Zenon DEF o
  <2>2. spoiled' \in {spoiled, spoiled \cup {o}} /\ (call[c].pc = "opened" => o \in spoiled')
    BY <2>1, Zenon
  <2> QED
    BY <1>2, <1>4, <1>7, <2>1, <2>2, Zenon DEF LetsGo
<1> QED
  BY <1>1, <1>6, <1>8, Zenon DEF o

\* The waits of an open for the request before it, and its giving up.
LEMMA WaitSteps ==
  ASSUME Inv, Aside, NEW c \in Calls, WaitForCompleteHook(c) \/ WaitForCancel(c) \/ GiveUp(c)
  PROVE  Inv'
<1>1. call[c].pc \in {"completed", "errch", "opened"}
      /\ UNCHANGED <<dtChannels, mapping, resources, gs>>
  BY Zenon DEF WaitForCompleteHook, WaitForCancel, GiveUp, At
<1>2. CASE FailOpen(c)
  <2>1. \/ spoiled' = spoiled /\ call[c].pc # "opened"
        \/ spoiled' = spoiled \cup {call[c].at}
    BY Zenon DEF WaitForCompleteHook, WaitForCancel, GiveUp, At
  <2>2. call[c].pc \in Holding
    BY <1>1, Zenon DEF Holding
  <2> QED
    BY <1>1, <1>2, <2>1, <2>2, FailOpens, LetGoInv, Zenon
<1>3. ASSUME call[c].pc = "completed", gs[call[c].completed].completed, Goto(c, "errch"),
             UNCHANGED <<fsm, dtChannel, spoiled>>
      PROVE  Inv'
  <2>1. /\ call' \in [Calls -> CallRecord] /\ \A e \in Calls : e # c => call'[e] = call[e]
        /\ call'[c].pc = "errch" /\ call'[c].at = call[c].at /\ call'[c].errch = call[c].errch
        /\ call'[c].completed = call[c].completed
    BY <1>3, Goes, Zenon DEF Inv, TInv, CallPCs, OpeningPCs
  <2>2. Waits(c)
    BY <1>3, <2>1, Zenon DEF Waits, Inv, OldInv, Holding
  <2> QED
    BY <1>1, <1>3, <2>2, WaitInv, Zenon
<1>4. ASSUME call[c].pc = "completed", UNCHANGED <<fsm, dtChannel, spoiled>>,
             call' = [call EXCEPT ![c].pc = "errch", ![c].failSafe = TRUE]
      PROVE  Inv'
  <2> DEFINE k == [call[c] EXCEPT !.pc = "errch", !.failSafe = TRUE]
  <2>1. call[c] \in CallRecord
    BY Elements, Zenon DEF Inv, TInv
  <2>2. /\ k \in CallRecord /\ k.pc = "errch" /\ k.failSafe /\ k.at = call[c].at
        /\ k.errch = call[c].errch /\ k.completed = call[c].completed
    BY <2>1, Zenon DEF CallRecord, CallPCs, OpeningPCs
  <2>3. call' = [call EXCEPT ![c] = k]
    BY <1>4, Zenon DEF Inv, TInv, Types
  <2> HIDE DEF k
  <2>4. /\ call' \in [Calls -> CallRecord]
        /\ \A d \in Calls : call'[d] = IF d = c THEN k ELSE call[d]
    BY <2>2, <2>3, OneCall, Zenon DEF Inv, TInv
  <2>5. Waits(c)
    BY <1>4, <2>2, <2>4, Zenon DEF Waits
  <2> QED
    BY <1>1, <1>4, <2>5, WaitInv, Zenon
<1>5. ASSUME call[c].pc = "errch", Goto(c, "request"), UNCHANGED <<fsm, dtChannel, spoiled>>
      PROVE  Inv'
  <2>1. /\ call' \in [Calls -> CallRecord] /\ \A e \in Calls : e # c => call'[e] = call[e]
        /\ call'[c].pc = "request" /\ call'[c].at = call[c].at /\ call'[c].errch = call[c].errch
        /\ call'[c].completed = call[c].completed /\ call'[c].failSafe = call[c].failSafe
    BY <1>5, Goes, Zenon DEF Inv, TInv, CallPCs, OpeningPCs
  <2>2. call[c].errch # 0
    BY <1>5, Zenon DEF Inv, TInv, Refs
  <2>3. call[c].at \notin spoiled /\ ~call'[c].failSafe => gs[call[c].errch].completed
    BY <1>5, <2>1, <2>2, Zenon DEF Inv, OldInv, Holding
  <2>4. Waits(c)
    BY <1>5, <2>1, <2>3, Zenon DEF Waits
  <2> QED
    BY <1>1, <1>5, <2>4, WaitInv, Zenon
<1>6. WaitForCompleteHook(c) => Inv'
  BY <1>2, <1>3, <1>4, Zenon DEF WaitForCompleteHook, At
<1>7. WaitForCancel(c) => Inv'
  BY <1>2, <1>5, Zenon DEF WaitForCancel, At
<1>8. GiveUp(c) => Inv'
  BY <1>2, Zenon DEF GiveUp
<1> QED
  BY <1>6, <1>7, <1>8, Zenon

-----------------------------------------------------------------------------
(* A request is made, and its ID arrives *)

\* What the lock of o tells the open c that holds it.
LEMMA UnderLock ==
  ASSUME Inv, NEW c \in Calls, NEW o, call[c].at = o, call[c].pc \in Holding
  PROVE  /\ o \in DOMAIN dtChannel /\ dtChannel[o].requestID = 0 /\ dtChannel[o].lk = c
         /\ \A e \in Calls : e # c => ~Holds(e, o)
         /\ call[c].pc # "opened" => ~Awaited(o)
<1>1. o \in DOMAIN dtChannel
  BY Elements DEF Inv, TInv, Refs
<1>2. Holds(c, o)
  BY Zenon DEF Holds
<1>3. dtChannel[o].lk = c /\ dtChannel[o].requestID = 0
  BY <1>1, <1>2, Zenon DEF Inv, TInv, Refs, RequestInv
<1>4. \A e \in Calls : e # c => ~Holds(e, o)
  BY <1>1, <1>3, Zenon DEF Inv, TInv, Refs
<1>5. call[c].pc # "opened" => ~Awaited(o)
  BY <1>4, Zenon DEF Awaited, At, Holds, Holding
<1> QED
  BY <1>1, <1>3, <1>4, <1>5, Zenon

\* The open c makes the request r of o.
MakesRequest(c, o, r) ==
  /\ call' \in [Calls -> CallRecord] /\ \A e \in Calls : e # c => call'[e] = call[e]
  /\ call[c].pc = "request" /\ call[c].at = o
  /\ call'[c].pc = "opened" /\ call'[c].at = o /\ call'[c].errch = call[c].errch
  /\ call'[c].completed = call[c].completed /\ (call'[c].failSafe <=> call[c].failSafe)
  /\ dtChannel' \in Seq(DTChannel) /\ DOMAIN dtChannel' = DOMAIN dtChannel
  /\ Len(dtChannel') = Len(dtChannel)
  /\ \A p \in DOMAIN dtChannel :
       /\ dtChannel'[p].lk = dtChannel[p].lk
       /\ dtChannel'[p].requestID = dtChannel[p].requestID
       /\ dtChannel'[p].completed = IF p = o THEN r ELSE dtChannel[p].completed
       /\ dtChannel'[p].opened = dtChannel[p].opened
  /\ gs' \in Seq(GsReq) /\ Len(gs') = r /\ DOMAIN gs' = DOMAIN gs \cup {r}
  /\ r \notin DOMAIN gs /\ r = Len(gs) + 1
  /\ \A q \in DOMAIN gs : gs'[q] = gs[q]
  /\ gs'[r].of = o /\ gs'[r].hook = "queued" /\ gs'[r].at = 0

\* Making a request preserves the types, and who holds which lock.
LEMMA MakesRequestTInv ==
  ASSUME Inv, Aside, NEW c \in Calls, NEW o, NEW r, MakesRequest(c, o, r),
         UNCHANGED <<fsm, dtChannels, mapping, resources, spoiled>>
  PROVE  TInv' /\ \A e \in Calls : \A p \in DOMAIN dtChannel : Holds(e, p)' <=> Holds(e, p)
<1>1. \A e \in Calls : \A p \in DOMAIN dtChannel : Holds(e, p)' <=> Holds(e, p)
  BY DEF MakesRequest, Holds, Holding
<1>2. /\ 0 .. Len(gs) \subseteq 0 .. Len(gs') /\ r \in 0 .. Len(gs') /\ o \in DOMAIN dtChannel
      /\ o # 0 /\ 0 \in 0 .. Len(dtChannel)
  BY Elements, UnderLock DEF Inv, TInv, MakesRequest, Holding
<1>3. Types'
  BY Zenon DEF Inv, TInv, Types, Aside, MakesRequest
<1>4. \A p \in DOMAIN dtChannel' :
        /\ dtChannel'[p].requestID \in 0 .. Len(gs')
        /\ dtChannel'[p].completed \in 0 .. Len(gs')
        /\ dtChannel'[p].opened \in 0 .. Len(gs')
        /\ \A e \in Calls : dtChannel'[p].lk = e <=> Holds(e, p)'
  <2>1. \A p \in DOMAIN dtChannel :
          /\ dtChannel[p].requestID \in 0 .. Len(gs)
          /\ dtChannel[p].completed \in 0 .. Len(gs)
          /\ dtChannel[p].opened \in 0 .. Len(gs)
          /\ \A e \in Calls : dtChannel[p].lk = e <=> Holds(e, p)
    BY Zenon DEF Inv, TInv, Refs
  <2> QED
    BY <1>1, <1>2, <2>1, SMTT(30) DEF MakesRequest
<1>5. \A e \in Calls :
        /\ call'[e].at \in 0 .. Len(dtChannel')
        /\ call'[e].pc \in Holding \cup {"register", "lock", "close", "cleanup", "shutdown"} =>
             call'[e].at # 0
        /\ call'[e].errch \in 0 .. Len(gs')
        /\ call'[e].completed \in 0 .. Len(gs')
        /\ call'[e].pc \in {"completed", "errch"} => call'[e].errch # 0
  <2>1. \A e \in Calls :
          /\ call[e].at \in 0 .. Len(dtChannel)
          /\ call[e].pc \in Holding \cup {"register", "lock", "close", "cleanup", "shutdown"} =>
               call[e].at # 0
          /\ call[e].errch \in 0 .. Len(gs)
          /\ call[e].completed \in 0 .. Len(gs)
          /\ call[e].pc \in {"completed", "errch"} => call[e].errch # 0
    BY Zenon DEF Inv, TInv, Refs
  <2> QED
    BY <1>2, <2>1, SMTT(30) DEF MakesRequest
<1>6. \A q \in DOMAIN gs' :
        /\ gs'[q].of \in DOMAIN dtChannel'
        /\ gs'[q].at \in 0 .. Len(dtChannel')
        /\ gs'[q].hook \in {"signal", "clean"} => gs'[q].at # 0
  <2>1. \A q \in DOMAIN gs :
          /\ gs[q].of \in DOMAIN dtChannel
          /\ gs[q].at \in 0 .. Len(dtChannel)
          /\ gs[q].hook \in {"signal", "clean"} => gs[q].at # 0
    BY Zenon DEF Inv, TInv, Refs
  <2> QED
    BY <1>2, <2>1 DEF MakesRequest
<1>7. fsm'.at \in 0 .. Len(dtChannel') /\ (fsm'.step = "clean" => fsm'.at # 0)
  BY Zenon DEF Inv, TInv, Refs, MakesRequest
<1> QED
  BY <1>1, <1>3, <1>4, <1>5, <1>6, <1>7, Zenon DEF TInv, Refs

\* Making a request preserves the invariant.
LEMMA MakesRequestInv ==
  ASSUME Inv, Aside, NEW c \in Calls, NEW o, NEW r, MakesRequest(c, o, r),
         UNCHANGED <<fsm, dtChannels, mapping, resources, spoiled>>
  PROVE  Inv'
<1>1. TInv' /\ \A e \in Calls : \A p \in DOMAIN dtChannel : Holds(e, p)' <=> Holds(e, p)
  BY MakesRequestTInv, Zenon
<1>2. o \in DOMAIN dtChannel /\ dtChannel[o].requestID = 0 /\ ~Awaited(o)
  BY UnderLock DEF MakesRequest, Holding
<1>3. /\ \A p \in DOMAIN dtChannel : p # o => (Awaited(p)' <=> Awaited(p))
      /\ Awaited(o)'
  <2>1. \A e \in Calls : e # c => call'[e] = call[e]
    BY Zenon DEF MakesRequest
  <2>2. call[c].pc = "request" /\ call'[c].pc = "opened" /\ call'[c].at = o
    BY Zenon DEF MakesRequest
  <2> QED
    BY <2>1, <2>2, Zenon DEF Awaited, At
<1>4. RequestInv'
  <2>1. \A p \in DOMAIN dtChannel' : \A e \in Calls : Holds(e, p)' => dtChannel'[p].requestID = 0
    BY <1>1 DEF Inv, RequestInv, MakesRequest
  <2>2. \A p \in DOMAIN dtChannel' \ spoiled' :
         /\ dtChannel'[p].requestID \in {0, dtChannel'[p].completed}
         /\ dtChannel'[p].opened # 0 =>
              /\ dtChannel'[p].opened = dtChannel'[p].completed
              /\ gs'[dtChannel'[p].completed].hook = "over"
              /\ Awaited(p)'
    <3>1. \A p \in DOMAIN dtChannel : dtChannel[p].opened # 0 => dtChannel[p].opened \in DOMAIN gs
      BY Elements DEF Inv, TInv, Refs
    <3>2. o \notin spoiled => dtChannel[o].opened = 0
      BY <1>2, Zenon DEF Inv, RequestInv
    <3> QED
      BY <1>2, <1>3, <3>1, <3>2 DEF Inv, RequestInv, MakesRequest
  <2>3. \A q \in DOMAIN gs : gs[q].of \in DOMAIN dtChannel /\ gs'[q] = gs[q]
    BY Zenon DEF Inv, TInv, Refs, MakesRequest
  <2>4. \A q \in DOMAIN gs : gs[q].of # o => (Awaited(gs[q].of)' <=> Awaited(gs[q].of))
    BY <1>3, <2>3 DEF Awaited, At
  <2>5. \A q \in DOMAIN gs : gs[q].of \notin spoiled /\ gs[q].of = o =>
          /\ gs[q].hook \notin {"queued", "track", "signal"}
          /\ ~(gs[q].live /\ gs[q].cancel = "no")
    <3>1. \A q \in DOMAIN gs : q # 0
      BY Elements DEF Inv, TInv
    <3> QED
      BY <1>2, <3>1 DEF Inv, RequestInv
  <2>6. \A q \in DOMAIN gs : gs[q].of \notin spoiled /\ gs[q].of # o =>
         /\ gs[q].hook \in {"queued", "track", "signal"} =>
              q = dtChannel'[gs[q].of].completed /\ Awaited(gs[q].of)'
         /\ gs[q].live /\ gs[q].cancel = "no" =>
              /\ q = dtChannel'[gs[q].of].completed
              /\ dtChannel'[gs[q].of].requestID = q \/ Awaited(gs[q].of)'
    <3>1. \A p \in DOMAIN dtChannel : p # o =>
            /\ dtChannel'[p].completed = dtChannel[p].completed
            /\ dtChannel'[p].requestID = dtChannel[p].requestID
      BY Zenon DEF MakesRequest
    <3> QED
      BY <2>3, <2>4, <3>1 DEF Inv, RequestInv
  <2>7. Awaited(gs[r].of)' /\ r = dtChannel'[gs'[r].of].completed /\ gs'[r].hook # "signal"
    BY <1>2, <1>3 DEF MakesRequest, Awaited, At
  <2>8. \A q \in DOMAIN gs : gs[q].hook = "signal" /\ gs[q].at \notin spoiled => gs[q].of = gs[q].at
    BY Zenon DEF Inv, RequestInv
  <2>9. \A q \in DOMAIN gs' : q = r \/ q \in DOMAIN gs
    BY Zenon DEF MakesRequest
  <2>10. \A q \in DOMAIN gs' : gs'[q].of \notin spoiled' =>
         /\ gs'[q].hook \in {"queued", "track", "signal"} =>
              q = dtChannel'[gs'[q].of].completed /\ Awaited(gs[q].of)'
         /\ gs'[q].live /\ gs'[q].cancel = "no" =>
              /\ q = dtChannel'[gs'[q].of].completed
              /\ dtChannel'[gs'[q].of].requestID = q \/ Awaited(gs[q].of)'
    <3> SUFFICES ASSUME NEW q \in DOMAIN gs, gs[q].of \notin spoiled
                 PROVE  /\ gs'[q].hook \in {"queued", "track", "signal"} =>
                             q = dtChannel'[gs'[q].of].completed /\ Awaited(gs[q].of)'
                        /\ gs'[q].live /\ gs'[q].cancel = "no" =>
                             /\ q = dtChannel'[gs'[q].of].completed
                             /\ dtChannel'[gs'[q].of].requestID = q \/ Awaited(gs[q].of)'
      BY <2>3, <2>7, <2>9, Zenon
    <3> QED
      BY <2>3, <2>5, <2>6, Zenon
  <2> QED
    BY <2>1, <2>2, <2>3, <2>7, <2>8, <2>9, <2>10, Zenon DEF RequestInv
<1>5. OldInv'
  <2>1. \A e \in Calls : call[e].errch # 0 => call[e].errch \in DOMAIN gs
    BY Elements DEF Inv, TInv, Refs
  <2> QED
    BY <2>1 DEF Inv, OldInv, MakesRequest, Holding
<1> QED
  BY <1>1, <1>4, <1>5, Zenon DEF Inv

\* An open makes its graphsync request.
LEMMA RequestStep ==
  ASSUME Inv, Aside, NEW c \in Calls, Request(c)
  PROVE  Inv'
<1> DEFINE o == call[c].at
           r == Len(gs) + 1
           d == [dtChannel[o] EXCEPT !.completed = r]
<1>1. /\ call[c].pc = "request" /\ gs' = Append(gs, NewGsReq(c, o)) /\ Goto(c, "opened")
      /\ UNCHANGED <<fsm, dtChannels, mapping, resources, spoiled>>
  BY Zenon DEF Request, At
<1>2. o \in DOMAIN dtChannel /\ o \in Nat /\ r \in Nat /\ dtChannel[o] \in DTChannel
  BY <1>1, Elements, UnderLock DEF Holding, Inv, TInv
<1>3. dtChannel' = [dtChannel EXCEPT ![o] = d]
  BY <1>2, Zenon DEF Request, Inv, TInv, Types
<1>4. /\ d \in DTChannel /\ d.lk = dtChannel[o].lk /\ d.requestID = dtChannel[o].requestID
      /\ d.completed = r /\ d.opened = dtChannel[o].opened
  <2> HIDE DEF r
  <2> QED
    BY <1>2, Zenon DEF DTChannel
<1>5. /\ call' \in [Calls -> CallRecord] /\ \A e \in Calls : e # c => call'[e] = call[e]
      /\ call'[c].pc = "opened" /\ call'[c].at = call[c].at /\ call'[c].errch = call[c].errch
      /\ call'[c].completed = call[c].completed /\ call'[c].failSafe = call[c].failSafe
  BY <1>1, Goes, Zenon DEF Inv, TInv, CallPCs, OpeningPCs
<1>6. /\ gs' \in Seq(GsReq) /\ Len(gs') = Len(gs) + 1 /\ DOMAIN gs = 1 .. Len(gs) /\ Len(gs) \in Nat
      /\ DOMAIN gs' = 1 .. Len(gs) + 1 /\ \A q \in DOMAIN gs : gs'[q] = gs[q]
      /\ gs'[r] = NewGsReq(c, o)
  BY <1>1, <1>2, NewGsReqType, SeqAppend DEF Inv, TInv, Types
<1>7. gs'[r].of = o /\ gs'[r].hook = "queued" /\ gs'[r].at = 0
  BY <1>2, <1>6, NewGsReqType
<1>8. DOMAIN gs' = DOMAIN gs \cup {r} /\ r \notin DOMAIN gs
  BY <1>6
<1> HIDE DEF d
<1>9. /\ dtChannel' \in Seq(DTChannel)
      /\ Len(dtChannel') = Len(dtChannel) /\ DOMAIN dtChannel' = DOMAIN dtChannel
      /\ \A p \in DOMAIN dtChannel : dtChannel'[p] = IF p = o THEN d ELSE dtChannel[p]
  BY <1>2, <1>3, <1>4, OneChannel, Zenon DEF Inv, TInv
<1>10. MakesRequest(c, o, r)
  BY <1>1, <1>4, <1>5, <1>6, <1>7, <1>8, <1>9, Zenon DEF MakesRequest
<1> QED
  BY <1>1, <1>10, MakesRequestInv, Zenon

\* The open c takes the ID that the hook sent, and returns.
TakesID(c, o) ==
  /\ call' \in [Calls -> CallRecord] /\ \A e \in Calls : e # c => call'[e] = call[e]
  /\ call[c].pc = "opened" /\ call[c].at = o
  /\ call'[c].pc = "done" /\ call'[c].at = 0 /\ call'[c].errch = 0 /\ call'[c].completed = 0
  /\ dtChannel' \in Seq(DTChannel) /\ DOMAIN dtChannel' = DOMAIN dtChannel
  /\ Len(dtChannel') = Len(dtChannel)
  /\ \A p \in DOMAIN dtChannel :
       /\ p # o => dtChannel'[p] = dtChannel[p]
       /\ dtChannel'[p].completed = dtChannel[p].completed
  /\ dtChannel'[o].lk = Nil /\ dtChannel'[o].requestID = dtChannel[o].opened
  /\ dtChannel'[o].opened = 0 /\ dtChannel[o].opened # 0
  /\ gs' \in Seq(GsReq) /\ Len(gs') = Len(gs) /\ DOMAIN gs' = DOMAIN gs
  /\ \A q \in DOMAIN gs :
       /\ gs'[q].of = gs[q].of /\ gs'[q].hook = gs[q].hook /\ gs'[q].at = gs[q].at
       /\ (gs'[q].live <=> gs[q].live) /\ gs'[q].cancel = gs[q].cancel
       /\ (gs'[q].completed <=> gs[q].completed)

\* Taking the ID preserves the types, and nobody holds the lock afterwards.
LEMMA TakesIDTInv ==
  ASSUME Inv, Aside, NEW c \in Calls, NEW o, TakesID(c, o),
         UNCHANGED <<fsm, dtChannels, mapping, resources, spoiled>>
  PROVE  /\ TInv' /\ o \in DOMAIN dtChannel
         /\ \A e \in Calls : \A p \in DOMAIN dtChannel : Holds(e, p)' <=> e # c /\ Holds(e, p)
         /\ \A e \in Calls : ~Holds(e, o)'
<1>1. \A e \in Calls : \A p \in DOMAIN dtChannel : Holds(e, p)' <=> e # c /\ Holds(e, p)
  BY Zenon DEF TakesID, Holds, Holding
<1>2. /\ o \in DOMAIN dtChannel /\ dtChannel[o].lk = c
      /\ \A e \in Calls : e # c => ~Holds(e, o)
  BY UnderLock DEF TakesID, Holding
<1>3. Types'
  BY Zenon DEF Inv, TInv, Types, Aside, TakesID
<1>4. 0 \in 0 .. Len(dtChannel) /\ 0 \in 0 .. Len(gs)
  BY Elements DEF Inv, TInv
<1>5. \A p \in DOMAIN dtChannel' :
        /\ dtChannel'[p].requestID \in 0 .. Len(gs')
        /\ dtChannel'[p].completed \in 0 .. Len(gs')
        /\ dtChannel'[p].opened \in 0 .. Len(gs')
  <2>1. \A p \in DOMAIN dtChannel :
          /\ dtChannel[p].requestID \in 0 .. Len(gs)
          /\ dtChannel[p].completed \in 0 .. Len(gs)
          /\ dtChannel[p].opened \in 0 .. Len(gs)
    BY Zenon DEF Inv, TInv, Refs
  <2> QED
    BY <1>2, <1>4, <2>1 DEF TakesID
<1>6. \A p \in DOMAIN dtChannel' : \A e \in Calls : dtChannel'[p].lk = e <=> Holds(e, p)'
  <2>1. \A e \in Calls : dtChannel'[o].lk = e <=> Holds(e, o)'
    BY <1>1, <1>2, NilAssumption, Zenon DEF TakesID
  <2>2. \A p \in DOMAIN dtChannel : p # o => ~Holds(c, p)
    BY Zenon DEF TakesID, Holds
  <2>3. \A p \in DOMAIN dtChannel : \A e \in Calls : dtChannel[p].lk = e <=> Holds(e, p)
    BY Zenon DEF Inv, TInv, Refs
  <2>4. DOMAIN dtChannel' = DOMAIN dtChannel
        /\ \A p \in DOMAIN dtChannel : p # o => dtChannel'[p] = dtChannel[p]
    BY Zenon DEF TakesID
  <2> QED
    BY <1>1, <2>1, <2>2, <2>3, <2>4
<1>7. \A e \in Calls :
        /\ call'[e].at \in 0 .. Len(dtChannel')
        /\ call'[e].pc \in Holding \cup {"register", "lock", "close", "cleanup", "shutdown"} =>
             call'[e].at # 0
        /\ call'[e].errch \in 0 .. Len(gs')
        /\ call'[e].completed \in 0 .. Len(gs')
        /\ call'[e].pc \in {"completed", "errch"} => call'[e].errch # 0
  <2>1. \A e \in Calls :
          /\ call[e].at \in 0 .. Len(dtChannel)
          /\ call[e].pc \in Holding \cup {"register", "lock", "close", "cleanup", "shutdown"} =>
               call[e].at # 0
          /\ call[e].errch \in 0 .. Len(gs)
          /\ call[e].completed \in 0 .. Len(gs)
          /\ call[e].pc \in {"completed", "errch"} => call[e].errch # 0
    BY Zenon DEF Inv, TInv, Refs
  <2> QED
    BY <1>4, <2>1 DEF TakesID, Holding
<1>8. \A q \in DOMAIN gs' :
        /\ gs'[q].of \in DOMAIN dtChannel'
        /\ gs'[q].at \in 0 .. Len(dtChannel')
        /\ gs'[q].hook \in {"signal", "clean"} => gs'[q].at # 0
  <2>1. \A q \in DOMAIN gs :
          /\ gs[q].of \in DOMAIN dtChannel
          /\ gs[q].at \in 0 .. Len(dtChannel)
          /\ gs[q].hook \in {"signal", "clean"} => gs[q].at # 0
    BY Zenon DEF Inv, TInv, Refs
  <2> QED
    BY <2>1 DEF TakesID
<1>9. fsm'.at \in 0 .. Len(dtChannel') /\ (fsm'.step = "clean" => fsm'.at # 0)
  BY Zenon DEF Inv, TInv, Refs, TakesID
<1>10. TInv'
  BY <1>3, <1>5, <1>6, <1>7, <1>8, <1>9, Zenon DEF TInv, Refs
<1> QED
  BY <1>1, <1>2, <1>10, Zenon

\* Taking the ID that the hook sent preserves the invariant.
LEMMA TakesIDInv ==
  ASSUME Inv, Aside, NEW c \in Calls, NEW o, TakesID(c, o),
         UNCHANGED <<fsm, dtChannels, mapping, resources, spoiled>>
  PROVE  Inv'
<1>1. /\ TInv' /\ o \in DOMAIN dtChannel
      /\ \A e \in Calls : \A p \in DOMAIN dtChannel : Holds(e, p)' <=> e # c /\ Holds(e, p)
      /\ \A e \in Calls : ~Holds(e, o)'
  BY TakesIDTInv, Zenon
<1>2. \A p \in DOMAIN dtChannel : p # o => (Awaited(p)' <=> Awaited(p))
  BY SMTT(30) DEF TakesID, Awaited, At
<1>3. o \notin spoiled => /\ dtChannel[o].opened = dtChannel[o].completed
                          /\ gs[dtChannel[o].completed].hook = "over"
  BY <1>1, Zenon DEF Inv, RequestInv, TakesID
<1>4. RequestInv'
  <2>1. \A p \in DOMAIN dtChannel' : \A e \in Calls : Holds(e, p)' => dtChannel'[p].requestID = 0
    BY <1>1, SMTT(30) DEF Inv, RequestInv, TakesID
  <2>2. \A p \in DOMAIN dtChannel' \ spoiled' :
         /\ dtChannel'[p].requestID \in {0, dtChannel'[p].completed}
         /\ dtChannel'[p].opened # 0 =>
              /\ dtChannel'[p].opened = dtChannel'[p].completed
              /\ gs'[dtChannel'[p].completed].hook = "over"
              /\ Awaited(p)'
    <3>1. \A p \in DOMAIN dtChannel : dtChannel[p].opened # 0 => dtChannel[p].opened \in DOMAIN gs
      BY Elements DEF Inv, TInv, Refs
    <3>2. \A p \in DOMAIN dtChannel \ spoiled : p # o /\ dtChannel[p].opened # 0 =>
            gs'[dtChannel[p].completed].hook = "over" /\ Awaited(p)'
      BY <1>2, <3>1 DEF Inv, RequestInv, TakesID
    <3> QED
      BY <1>3, <3>2 DEF Inv, RequestInv, TakesID
  <2>3. \A q \in DOMAIN gs : gs[q].of \in DOMAIN dtChannel /\ gs'[q].of = gs[q].of
    BY Zenon DEF Inv, TInv, Refs, TakesID
  <2>4. \A q \in DOMAIN gs : gs[q].of # o => (Awaited(gs[q].of)' <=> Awaited(gs[q].of))
    BY <1>2, <2>3 DEF Awaited, At
  <2>5. \A q \in DOMAIN gs : gs[q].of \notin spoiled /\ gs[q].of = o =>
          /\ gs[q].hook \notin {"queued", "track", "signal"}
          /\ gs[q].live /\ gs[q].cancel = "no" =>
               q = dtChannel'[o].completed /\ dtChannel'[o].requestID = q
    BY <1>3, <1>1 DEF Inv, RequestInv, TakesID
  <2>6. \A q \in DOMAIN gs : gs[q].of \notin spoiled /\ gs[q].of # o =>
         /\ gs[q].hook \in {"queued", "track", "signal"} =>
              q = dtChannel'[gs[q].of].completed /\ Awaited(gs[q].of)'
         /\ gs[q].live /\ gs[q].cancel = "no" =>
              /\ q = dtChannel'[gs[q].of].completed
              /\ dtChannel'[gs[q].of].requestID = q \/ Awaited(gs[q].of)'
    <3>1. \A p \in DOMAIN dtChannel : p # o =>
            /\ dtChannel'[p].completed = dtChannel[p].completed
            /\ dtChannel'[p].requestID = dtChannel[p].requestID
      BY Zenon DEF TakesID
    <3> QED
      BY <2>3, <2>4, <3>1 DEF Inv, RequestInv
  <2>7. \A q \in DOMAIN gs : gs[q].of \notin spoiled =>
         /\ gs[q].hook \in {"queued", "track", "signal"} =>
              q = dtChannel'[gs[q].of].completed /\ Awaited(gs[q].of)'
         /\ gs[q].live /\ gs[q].cancel = "no" =>
              /\ q = dtChannel'[gs[q].of].completed
              /\ dtChannel'[gs[q].of].requestID = q \/ Awaited(gs[q].of)'
    BY <2>5, <2>6, Zenon
  <2>8. \A q \in DOMAIN gs :
          /\ gs'[q].hook = gs[q].hook /\ gs'[q].at = gs[q].at
          /\ gs'[q].live /\ gs'[q].cancel = "no" => gs[q].live /\ gs[q].cancel = "no"
    BY Zenon DEF TakesID
  <2>9. \A q \in DOMAIN gs' : gs'[q].of \notin spoiled' =>
         /\ gs'[q].hook \in {"queued", "track", "signal"} =>
              q = dtChannel'[gs'[q].of].completed /\ Awaited(gs[q].of)'
         /\ gs'[q].live /\ gs'[q].cancel = "no" =>
              /\ q = dtChannel'[gs'[q].of].completed
              /\ dtChannel'[gs'[q].of].requestID = q \/ Awaited(gs[q].of)'
    <3>1. DOMAIN gs' = DOMAIN gs
      BY Zenon DEF TakesID
    <3> QED
      BY <2>3, <2>7, <2>8, <3>1, Zenon
  <2>10. \A q \in DOMAIN gs' :
           gs'[q].hook = "signal" /\ gs'[q].at \notin spoiled' => gs'[q].of = gs'[q].at
    BY DEF Inv, RequestInv, TakesID
  <2> QED
    BY <2>1, <2>2, <2>9, <2>10, Zenon DEF RequestInv
<1>5. OldInv'
  <2>1. \A e \in Calls : call[e].errch # 0 => call[e].errch \in DOMAIN gs
    BY Elements DEF Inv, TInv, Refs
  <2> QED
    BY <2>1, SMTT(30) DEF Inv, OldInv, TakesID, Holding
<1> QED
  BY <1>1, <1>4, <1>5, Zenon DEF Inv

\* An open takes its request ID, unlocks and returns.
LEMMA OpenedStep ==
  ASSUME Inv, Aside, NEW c \in Calls, Opened(c)
  PROVE  Inv'
<1> DEFINE o == call[c].at
           n == dtChannel[o].completed
           d == [dtChannel[o] EXCEPT !.opened = 0, !.requestID = dtChannel[o].opened, !.lk = Nil]
<1>1. /\ call[c].pc = "opened" /\ dtChannel[o].opened # 0 /\ Return(c)
      /\ gs' = [gs EXCEPT ![n].executing = TRUE]
      /\ UNCHANGED <<fsm, dtChannels, mapping, resources, spoiled>>
  BY Zenon DEF Opened, At
<1>2. o \in DOMAIN dtChannel /\ dtChannel[o] \in DTChannel
  BY <1>1, Elements, UnderLock, Zenon DEF Holding, Inv, TInv
<1>3. dtChannel' = [dtChannel EXCEPT ![o] = d]
  BY <1>2, Zenon DEF Opened, Inv, TInv, Types
<1>4. /\ d \in DTChannel /\ d.lk = Nil /\ d.requestID = dtChannel[o].opened
      /\ d.completed = dtChannel[o].completed /\ d.opened = 0
  BY <1>2, Zenon DEF DTChannel
<1>5. /\ call' \in [Calls -> CallRecord] /\ \A e \in Calls : e # c => call'[e] = call[e]
      /\ call'[c].pc = "done" /\ call'[c].at = 0 /\ call'[c].errch = 0 /\ call'[c].completed = 0
  BY <1>1, Returns, Zenon DEF Inv, TInv
<1>6. /\ gs' \in Seq(GsReq) /\ Len(gs') = Len(gs) /\ DOMAIN gs' = DOMAIN gs
      /\ \A q \in DOMAIN gs :
           /\ gs'[q].of = gs[q].of /\ gs'[q].hook = gs[q].hook /\ gs'[q].at = gs[q].at
           /\ (gs'[q].live <=> gs[q].live) /\ gs'[q].cancel = gs[q].cancel
           /\ (gs'[q].completed <=> gs[q].completed)
  <2> HIDE DEF n
  <2>1. CASE n \in DOMAIN gs
    <3> DEFINE g == [gs[n] EXCEPT !.executing = TRUE]
    <3>1. gs[n] \in GsReq
      BY <2>1, Elements, Zenon DEF Inv, TInv
    <3>2. /\ g \in GsReq /\ g.of = gs[n].of /\ g.hook = gs[n].hook /\ g.at = gs[n].at
          /\ g.live = gs[n].live /\ g.cancel = gs[n].cancel /\ g.completed = gs[n].completed
      BY <3>1, Zenon DEF GsReq
    <3>3. gs' = [gs EXCEPT ![n] = g]
      BY <1>1, <2>1, Zenon DEF Inv, TInv, Types
    <3> HIDE DEF g
    <3>4. /\ gs' \in Seq(GsReq)
          /\ Len(gs') = Len(gs) /\ DOMAIN gs' = DOMAIN gs
          /\ \A q \in DOMAIN gs : gs'[q] = IF q = n THEN g ELSE gs[q]
      BY <2>1, <3>2, <3>3, OneGsReq, Zenon DEF Inv, TInv
    <3> QED
      BY <3>2, <3>4, Zenon
  <2>2. CASE n \notin DOMAIN gs
    <3>1. gs' = gs
      BY <1>1, <2>2 DEF Inv, TInv, Types
    <3> QED
      BY <3>1, Zenon DEF Inv, TInv, Types
  <2> QED
    BY <2>1, <2>2, Zenon
<1> HIDE DEF d
<1>7. /\ dtChannel' \in Seq(DTChannel)
      /\ Len(dtChannel') = Len(dtChannel) /\ DOMAIN dtChannel' = DOMAIN dtChannel
      /\ \A p \in DOMAIN dtChannel : dtChannel'[p] = IF p = o THEN d ELSE dtChannel[p]
  BY <1>2, <1>3, <1>4, OneChannel, Zenon DEF Inv, TInv
<1>8. TakesID(c, o)
  BY <1>1, <1>2, <1>4, <1>5, <1>6, <1>7, Zenon DEF TakesID
<1> QED
  BY <1>1, <1>8, TakesIDInv, Zenon

-----------------------------------------------------------------------------
(* The theorems about requests *)

\* Nothing is tracked or requested at first.
LEMMA InitInv == Init => Inv
<1> SUFFICES ASSUME Init PROVE Inv
  BY Zenon
<1>1. Types
  <2>1. call \in [Calls -> CallRecord]
    BY NewRecords, Zenon DEF Init
  <2>2. fsm \in Fsm
    BY Zenon DEF Init, Fsm
  <2>3. resources \in Resources /\ overlap \in BOOLEAN
    BY Zenon DEF Init, Resources
  <2>4. dtChannel \in Seq(DTChannel) /\ gs \in Seq(GsReq) /\ dtChannels \in 0 .. Len(dtChannel)
    BY DEF Init
  <2> QED
    BY <2>1, <2>2, <2>3, <2>4, Zenon DEF Init, Types
<1>2. Refs
  <2>1. /\ DOMAIN dtChannel = {} /\ DOMAIN gs = {} /\ Len(dtChannel) = 0 /\ Len(gs) = 0
        /\ fsm.at = 0 /\ fsm.step = "idle" /\ 0 \in 0 .. 0
    BY DEF Init
  <2>2. \A c \in Calls : /\ call[c].pc = "idle" /\ call[c].at = 0
                         /\ call[c].errch = 0 /\ call[c].completed = 0
    BY NewRecords, Zenon DEF Init
  <2> QED
    BY <2>1, <2>2, Zenon DEF Refs, Holding
<1>3. RequestInv
  BY DEF Init, RequestInv
<1>4. OldInv
  BY NewRecords, Zenon DEF Init, OldInv, Holding
<1> QED
  BY <1>1, <1>2, <1>3, <1>4, Zenon DEF Inv, TInv

\* Every step preserves the invariant.
LEMMA NextInv ==
  ASSUME Inv, [Next]_vars
  PROVE  Inv'
<1>1. CASE Next
  <2> USE <1>1
  <2>1. Aside
    BY Zenon DEF Next, Aside
  <2>2. ASSUME NEW c \in Calls, Open(c)
        PROVE  Inv'
    BY <2>1, <2>2, BeginStep, TrackSteps, ProtectStep, LockStep, WaitSteps, RequestStep,
       OpenedStep, Zenon DEF Open
  <2>3. ASSUME NEW c \in Calls, End(c) \/ CtxDone(c)
        PROVE  Inv'
    BY <2>1, <2>3, EndSteps, CloseSteps, Zenon DEF End
  <2>4. ASSUME Cleanup
        PROVE  Inv'
    BY <2>1, <2>4, CleanupSteps, Zenon
  <2>5. ASSUME NEW r \in DOMAIN gs,
               Hook(r) \/ RequestEnds(r) \/ ExecuteGsRequest(r) \/ CancelRequest(r)
        PROVE  Inv'
    BY <2>1, <2>5, RequestSteps, HookTracksStep, HookSignalsStep, Zenon DEF Hook
  <2> QED
    BY <2>2, <2>3, <2>4, <2>5, Zenon DEF Next, Step
<1>2. CASE UNCHANGED vars
  <2>1. TInv'
    BY <1>2, Zenon DEF Inv, TInv, Types, Refs, Holds, vars
  <2>2. RequestInv'
    BY <1>2 DEF Inv, RequestInv, Holds, Awaited, At, vars
  <2>3. OldInv'
    BY <1>2, Zenon DEF Inv, OldInv, vars
  <2> QED
    BY <2>1, <2>2, <2>3, Zenon DEF Inv
<1> QED
  BY <1>1, <1>2, Zenon

\* The invariant holds in every reachable state.
LEMMA SpecInv == Spec => []Inv
<1>1. Inv /\ [Next]_vars => Inv'
  BY NextInv, Zenon
<1> QED
  BY <1>1, InitInv, PTL DEF Spec

\* The types, and that the lock of a dtChannel is held by one open, which is
\* between its Lock() and its deferred Unlock() (graphsync.go, open), for any calls
\* and any number of requests and dtChannels.
THEOREM TypeCorrect == Spec => []TypeOK
<1>1. Inv => TypeOK
  BY Zenon DEF Inv, TInv, Types, Refs, Holds, Holding, Fsm, TypeOK
<1> QED
  BY <1>1, SpecInv, PTL

\* A dtChannel holds at most one graphsync request that nobody cancels, however
\* opens and restarts of the channel meet (graphsync.go, open).
THEOREM OneRequestPerChannel == Spec => []OneRequest
<1>1. Inv => OneRequest
  BY DEF Inv, RequestInv, OneRequest
<1> QED
  BY <1>1, SpecInv, PTL

\* The ID a dtChannel holds is that of the last request made through it, though the
\* open and the hook only meet in the opened channel (graphsync.go, open and
\* gsReqOpened).
THEOREM HoldsOwnRequest == Spec => []OwnRequest
<1>1. Inv => OwnRequest
  BY Zenon DEF Inv, RequestInv, OwnRequest
<1> QED
  BY <1>1, SpecInv, PTL

\* When an open makes its request, the callback of the request it cancelled was
\* called, unless the fail-safe of waitForCompleteHook ended the wait.
THEOREM OldRequestIsOver == Spec => []OldIsOver
<1>1. Inv => OldIsOver
  BY Zenon DEF Inv, OldInv, OldIsOver, At, Holding
<1> QED
  BY <1>1, SpecInv, PTL

-----------------------------------------------------------------------------
(* What a cleanup releases *)

\* The call c goes to l.
To(c, l) == (\A e \in Calls : e # c => call'[e] = call[e]) /\ call'[c].pc = l

\* Where a call's step takes it.
LEMMA Moves ==
  ASSUME Types, NEW c \in Calls
  PROVE  /\ Begin(c) => \/ To(c, "useStore") /\ kind[c] \in Openings
                        \/ To(c, "find") \/ To(c, "done")
         /\ UseStore(c) => To(c, "register")
         /\ Protect(c) => To(c, "track")
         /\ OpenChannel(c) => To(c, "lock")
         /\ Lock(c) => To(c, "request") \/ To(c, "completed")
         /\ WaitForCompleteHook(c) => To(c, "errch") \/ To(c, "done")
         /\ WaitForCancel(c) => To(c, "request") \/ To(c, "done")
         /\ Request(c) => To(c, "opened")
         /\ Opened(c) \/ GiveUp(c) => To(c, "done")
         /\ FindChannel(c) => To(c, "close") \/ To(c, "event")
         /\ CloseLocked(c) => To(c, "closing")
         /\ WaitForClose(c) \/ CleanupReceived(c) => To(c, "event")
         /\ CancelEvent(c) \/ EndByPeer(c) \/ WaitForShutdown(c) => To(c, "done")
         /\ ReceiveCancel(c) => \/ dtChannels = 0 /\ To(c, "event")
                                \/ dtChannels # 0 /\ To(c, "cleanup")
         /\ Shutdown(c) => To(c, "done") \/ To(c, "shutdown")
         /\ ShutdownLocked(c) => To(c, "stopping")
         /\ CtxDone(c) => To(c, call[c].pc)
<1> USE DEF Types
<1>1. Return(c) => To(c, "done")
  BY Returns, Zenon DEF To
<1>2. \A l \in CallPCs : Goto(c, l) => To(c, l)
  BY Goes, Zenon DEF To
<1>3. {"useStore", "find", "track", "errch", "request", "opened", "event"} \subseteq CallPCs
  BY Zenon DEF CallPCs, OpeningPCs
<1>4. \A l, o : call' = [call EXCEPT ![c].pc = l, ![c].at = o] => To(c, l)
  BY Zenon DEF To, CallRecord
<1>5. \A l, r, m : call' = [call EXCEPT ![c].pc = l, ![c].errch = r, ![c].completed = m] => To(c, l)
  BY Zenon DEF To, CallRecord
<1>6. \A l, r : call' = [call EXCEPT ![c].pc = l, ![c].errch = r] => To(c, l)
  BY Zenon DEF To, CallRecord
<1>7. call' = [call EXCEPT ![c].pc = "errch", ![c].failSafe = TRUE] => To(c, "errch")
  BY Zenon DEF To, CallRecord
<1>8. call' = [call EXCEPT ![c].ctxDone = TRUE] => To(c, call[c].pc)
  BY Zenon DEF To, CallRecord
<1> HIDE DEF Types
<1>9. Begin(c) => \/ To(c, "useStore") /\ kind[c] \in Openings
                  \/ To(c, "find") \/ To(c, "done")
  BY <1>1, <1>2, <1>3, Zenon DEF Begin, Openings
<1>10. /\ UseStore(c) => To(c, "register")
       /\ OpenChannel(c) => To(c, "lock")
       /\ Protect(c) => To(c, "track")
       /\ Request(c) => To(c, "opened")
  BY <1>2, <1>3, <1>4, Zenon DEF UseStore, OpenChannel, Protect, Request
<1>11. Lock(c) => To(c, "request") \/ To(c, "completed")
  <2> DEFINE o == call[c].at
             r == dtChannel[o].requestID
             l == IF r = 0 THEN "request" ELSE "completed"
  <2>1. Lock(c) => call' = [call EXCEPT ![c].pc = l, ![c].errch = r,
                                        ![c].completed = dtChannel[o].completed]
    BY Zenon DEF Lock, LockThen
  <2>2. l \in {"request", "completed"}
    BY Zenon
  <2> HIDE DEF l, r, o
  <2> QED
    BY <1>5, <2>1, <2>2, Zenon
<1>12. /\ WaitForCompleteHook(c) => To(c, "errch") \/ To(c, "done")
       /\ WaitForCancel(c) => To(c, "request") \/ To(c, "done")
  BY <1>1, <1>2, <1>3, <1>7, Zenon DEF WaitForCompleteHook, WaitForCancel, FailOpen
<1>13. Opened(c) \/ GiveUp(c) => To(c, "done")
  BY <1>1, Zenon DEF Opened, GiveUp, FailOpen
<1>14. FindChannel(c) => To(c, "close") \/ To(c, "event")
  BY <1>4, Zenon DEF FindChannel
<1>15. (CloseLocked(c) => To(c, "closing")) /\ (ShutdownLocked(c) => To(c, "stopping"))
  BY <1>6, Zenon DEF CloseLocked, ShutdownLocked
<1>16. /\ WaitForClose(c) \/ CleanupReceived(c) => To(c, "event")
       /\ CancelEvent(c) \/ EndByPeer(c) \/ WaitForShutdown(c) => To(c, "done")
  BY <1>1, <1>2, <1>3, Zenon DEF WaitForClose, CleanupReceived, CancelEvent, EndByPeer, WaitForShutdown
<1>17. ReceiveCancel(c) => \/ dtChannels = 0 /\ To(c, "event")
                           \/ dtChannels # 0 /\ To(c, "cleanup")
  BY <1>4, Zenon DEF ReceiveCancel
<1>18. Shutdown(c) => To(c, "done") \/ To(c, "shutdown")
  BY <1>1, <1>4, Zenon DEF Shutdown
<1>19. CtxDone(c) => To(c, call[c].pc)
  BY <1>8, Zenon DEF CtxDone
<1> QED
  BY <1>9, <1>10, <1>11, <1>12, <1>13, <1>14, <1>15, <1>16, <1>17, <1>18, <1>19, Zenon

\* How a call may move: into an open by its kind only, into the cleanup of a received
\* cancel by its kind only, out of that cleanup by CleanupReceived, and never back to
\* idle.
MovesOn(c) ==
  /\ \A e \in Calls : e # c => call'[e] = call[e]
  /\ call'[c].pc \in OpeningPCs => kind[c] \in Openings
  /\ call'[c].pc = "cleanup" => kind[c] = "ReceiveCancel"
  /\ call[c].pc # "idle" => call'[c].pc # "idle"

\* A call moves along its labels: openings to openings, others to others.
LEMMA CallsMoveOn ==
  ASSUME Types, KindInv, NEW c \in Calls, Open(c) \/ End(c) \/ CtxDone(c)
  PROVE  MovesOn(c)
<1>1. /\ call[c].pc \in OpeningPCs => kind[c] \in Openings
      /\ call[c].pc = "cleanup" => kind[c] = "ReceiveCancel"
  BY Zenon DEF KindInv
<1>2. ASSUME NEW l \in {"done", "find", "close", "closing", "event", "shutdown", "stopping"}, To(c, l)
      PROVE  MovesOn(c)
  BY <1>2, Zenon DEF MovesOn, To, OpeningPCs
<1>3. ASSUME NEW l \in OpeningPCs, To(c, l), kind[c] \in Openings
      PROVE  MovesOn(c)
  BY <1>3, Zenon DEF MovesOn, To, OpeningPCs
<1>4. Begin(c) => MovesOn(c)
  BY <1>2, <1>3, Moves, Zenon DEF OpeningPCs
<1>5. UseStore(c) \/ Protect(c) \/ OpenChannel(c) => MovesOn(c)
  BY <1>1, <1>3, Moves, Zenon DEF UseStore, Protect, OpenChannel, At, OpeningPCs
<1>6. Lock(c) => MovesOn(c)
  BY <1>1, <1>3, Moves, Zenon DEF Lock, LockThen, At, OpeningPCs
<1>7. WaitForCompleteHook(c) \/ WaitForCancel(c) \/ Request(c) => MovesOn(c)
  BY <1>1, <1>2, <1>3, Moves, Zenon DEF WaitForCompleteHook, WaitForCancel, Request, At, OpeningPCs
<1>8. Opened(c) \/ GiveUp(c) => MovesOn(c)
  BY <1>2, Moves, Zenon
<1>9. ReceiveCancel(c) => MovesOn(c)
  <2>1. To(c, "cleanup") /\ kind[c] = "ReceiveCancel" => MovesOn(c)
    BY Zenon DEF MovesOn, To, OpeningPCs
  <2> QED
    BY <1>2, <2>1, Moves, Zenon DEF ReceiveCancel
<1>10. End(c) /\ ~ReceiveCancel(c) => MovesOn(c)
  BY <1>2, Moves, Zenon DEF End
<1>11. CtxDone(c) => MovesOn(c)
  BY <1>1, Moves, Zenon DEF MovesOn, To
<1> QED
  BY <1>4, <1>5, <1>6, <1>7, <1>8, <1>9, <1>10, <1>11, Zenon DEF Open

\* What a step does to the state machine: it may end the channel, and the steps of
\* the cleanup follow one another.
FsmMoves ==
  /\ (fsm.step # "idle" <=> fsm.status = "cleanup") =>
       (fsm'.step # "idle" <=> fsm'.status = "cleanup")
  /\ fsm.status = "ended" => fsm'.status = "ended"
  /\ fsm.status = "cleanup" => fsm'.status \in {"cleanup", "ended"}

\* What a step of a call does to it.
LEMMA CallFsm ==
  ASSUME Types, NEW c \in Calls, Open(c) \/ End(c) \/ CtxDone(c)
  PROVE  \/ fsm' \in {fsm, EndEvent(fsm)}
         \/ fsm.status = "none" /\ fsm' = [fsm EXCEPT !.status = "live"]
<1>1. Open(c) => \/ fsm' \in {fsm, EndEvent(fsm)}
                 \/ fsm.status = "none" /\ fsm' = [fsm EXCEPT !.status = "live"]
  BY Zenon DEF Open, Begin, Openings, UseStore, Protect, OpenChannel, Lock, LockThen,
         WaitForCompleteHook, WaitForCancel, Request, Opened, GiveUp, FailOpen
<1>2. End(c) \/ CtxDone(c) => fsm' \in {fsm, EndEvent(fsm)}
  BY Zenon DEF End, FindChannel, CloseLocked, WaitForClose, CancelEvent, ReceiveCancel,
         CleanupReceived, EndByPeer, Shutdown, ShutdownLocked, WaitForShutdown, CtxDone
<1> QED
  BY <1>1, <1>2, Zenon

\* Only the cleanup ends the channel for good, and only it goes on with its steps.
FsmQuiet ==
  /\ FsmMoves
  /\ fsm'.step = fsm.step \/ (fsm.step = "idle" /\ fsm'.step = "delete")
  /\ fsm'.status = "ended" => fsm.status = "ended"

\* The steps of the state machine a call or a hook causes are quiet.
LEMMA FsmSteps ==
  ASSUME Types, KindInv,
         \/ fsm' \in {fsm, EndEvent(fsm)}
         \/ fsm.status = "none" /\ fsm' = [fsm EXCEPT !.status = "live"]
  PROVE  FsmQuiet
<1>1. fsm \in Fsm
  BY Zenon DEF Types
<1>2. CASE fsm' = fsm
  BY <1>1, <1>2, Zenon DEF FsmQuiet, FsmMoves
<1>3. CASE fsm' = EndEvent(fsm)
  BY <1>1, <1>3, EndEventType, Zenon DEF FsmQuiet, FsmMoves, KindInv
<1>4. CASE fsm.status = "none" /\ fsm' = [fsm EXCEPT !.status = "live"]
  <2> DEFINE f == [fsm EXCEPT !.status = "live"]
  <2>1. f.status = "live" /\ f.step = fsm.step
    BY <1>1, Zenon DEF Fsm
  <2> QED
    BY <1>4, <2>1, Zenon DEF FsmQuiet, FsmMoves
<1> QED
  BY <1>2, <1>3, <1>4, Zenon

\* The cleanup goes through its steps in order.
LEMMA CleanupFsm ==
  ASSUME Types, KindInv, Cleanup
  PROVE  /\ FsmMoves
         /\ CleanupDelete =>
              fsm'.status = "cleanup" /\ fsm'.step = IF dtChannels = 0 THEN "unprotect" ELSE "clean"
         /\ CleanupChannel => fsm'.status = "cleanup" /\ fsm'.step = "unprotect"
         /\ Unprotect => fsm'.status = "cleanup" /\ fsm'.step = "trigger"
         /\ CleanupComplete => \/ fsm'.status = "cleanup" /\ fsm'.step = "delete"
                               \/ fsm'.status = "ended" /\ fsm'.step = "idle"
<1>1. fsm \in Fsm
  BY Zenon DEF Types
<1>2. fsm.status = "cleanup"
  BY Zenon DEF Cleanup, CleanupDelete, CleanupChannel, Unprotect, CleanupComplete, KindInv
<1>3. CleanupDelete =>
        fsm'.status = "cleanup" /\ fsm'.step = IF dtChannels = 0 THEN "unprotect" ELSE "clean"
  BY <1>1, <1>2, Zenon DEF CleanupDelete, Fsm
<1>4. CleanupChannel => fsm'.status = "cleanup" /\ fsm'.step = "unprotect"
  BY <1>1, <1>2, Zenon DEF CleanupChannel, Fsm
<1>5. Unprotect => fsm'.status = "cleanup" /\ fsm'.step = "trigger"
  BY <1>1, <1>2, Zenon DEF Unprotect, Fsm
<1>6. CleanupComplete => \/ fsm'.status = "cleanup" /\ fsm'.step = "delete"
                         \/ fsm'.status = "ended" /\ fsm'.step = "idle"
  BY <1>1, <1>2, Zenon DEF CleanupComplete, Fsm
<1>7. FsmMoves
  BY <1>2, <1>3, <1>4, <1>5, <1>6, Zenon DEF Cleanup, FsmMoves
<1> QED
  BY <1>3, <1>4, <1>5, <1>6, <1>7, Zenon

\* No hook comes to its error path.
HooksQuiet ==
  \A q \in DOMAIN gs' : gs'[q].hook \in {"bail", "clean"} =>
    q \in DOMAIN gs /\ gs'[q].hook = gs[q].hook

\* A call starts no hook that cleans up.
LEMMA CallHooks ==
  ASSUME TInv, NEW c \in Calls, Open(c) \/ End(c) \/ CtxDone(c)
  PROVE  HooksQuiet
<1> USE DEF TInv
<1>1. gs' = gs => HooksQuiet
  BY Zenon DEF HooksQuiet
<1>2. Lock(c) \/ CloseLocked(c) \/ ShutdownLocked(c) => HooksQuiet
  <2> DEFINE r == dtChannel[call[c].at].requestID
  <2>0. call[c].pc \in {"lock", "close", "shutdown"} => call[c].at \in DOMAIN dtChannel
    BY Elements DEF Refs
  <2>1. Lock(c) \/ CloseLocked(c) \/ ShutdownLocked(c) => gs' = cancel(c, r) /\ call[c].at \in DOMAIN dtChannel
    BY <2>0, Zenon DEF Lock, LockThen, CloseLocked, ShutdownLocked, At
  <2>2. call[c].at \in DOMAIN dtChannel => r \in 0 .. Len(gs)
    BY Zenon DEF Refs
  <2> HIDE DEF r
  <2> QED
    BY <2>1, <2>2, Cancels, Zenon DEF HooksQuiet
<1>3. Request(c) => HooksQuiet
  <2> DEFINE o == call[c].at
  <2>1. Request(c) => gs' = Append(gs, NewGsReq(c, o))
    BY Zenon DEF Request
  <2>2. o \in Nat
    BY Elements DEF Refs
  <2>3. NewGsReq(c, o) \in GsReq /\ NewGsReq(c, o).hook = "queued"
    BY <2>2, NewGsReqType, Zenon
  <2> QED
    <3>1. /\ DOMAIN Append(gs, NewGsReq(c, o)) = 1 .. Len(gs) + 1
          /\ DOMAIN gs = 1 .. Len(gs) /\ Len(gs) \in Nat
          /\ \A q \in DOMAIN gs : Append(gs, NewGsReq(c, o))[q] = gs[q]
          /\ Append(gs, NewGsReq(c, o))[Len(gs) + 1] = NewGsReq(c, o)
      BY <2>3, SeqAppend DEF Types
    <3>2. \A q \in 1 .. Len(gs) + 1 : q = Len(gs) + 1 \/ q \in DOMAIN gs
      BY <3>1
    <3> QED
      BY <2>1, <2>3, <3>1, <3>2, Zenon DEF HooksQuiet
<1>4. Opened(c) => HooksQuiet
  <2> DEFINE n == dtChannel[call[c].at].completed
  <2>1. Opened(c) => gs' = [gs EXCEPT ![n].executing = TRUE]
    BY Zenon DEF Opened
  <2> HIDE DEF n
  <2>2. ASSUME gs' = [gs EXCEPT ![n].executing = TRUE]
        PROVE  HooksQuiet
    <3>1. DOMAIN gs' = DOMAIN gs /\ \A q \in DOMAIN gs : q # n => gs'[q] = gs[q]
      BY <2>2, Zenon DEF Types
    <3>2. n \in DOMAIN gs => gs'[n].hook = gs[n].hook
      BY <2>2, Elements, Zenon DEF Types, GsReq
    <3> QED
      BY <3>1, <3>2, Zenon DEF HooksQuiet
  <2> QED
    BY <2>1, <2>2, Zenon
<1>5. Open(c) => \/ gs' = gs \/ Lock(c) \/ Request(c) \/ Opened(c)
  BY Zenon DEF Open, Begin, UseStore, Protect, OpenChannel, WaitForCompleteHook, WaitForCancel, GiveUp
<1>6. End(c) \/ CtxDone(c) => \/ gs' = gs \/ CloseLocked(c) \/ ShutdownLocked(c)
  BY Zenon DEF End, FindChannel, WaitForClose, CancelEvent, ReceiveCancel,
         CleanupReceived, EndByPeer, Shutdown, WaitForShutdown, CtxDone
<1> QED
  BY <1>1, <1>2, <1>3, <1>4, <1>5, <1>6, Zenon

\* Where a step takes the hook of a request.
LEMMA RequestHooks ==
  ASSUME Types, NEW r \in DOMAIN gs,
         Hook(r) \/ RequestEnds(r) \/ ExecuteGsRequest(r) \/ CancelRequest(r)
  PROVE  /\ DOMAIN gs' = DOMAIN gs /\ \A q \in DOMAIN gs : q # r => gs'[q] = gs[q]
         /\ HookBegins(r) => gs'[r].hook = IF fsm.status = "ended" THEN "bail" ELSE "track"
         /\ HookTracks(r) => gs'[r].hook = "signal"
         /\ HookSignals(r) \/ HookCleans(r) \/ NoHook(r) => gs'[r].hook = "over"
         /\ HookBails(r) => gs'[r].hook = IF dtChannels = 0 THEN "over" ELSE "clean"
         /\ RequestEnds(r) \/ ExecuteGsRequest(r) \/ CancelRequest(r) => gs'[r].hook = gs[r].hook
<1>1. gs[r] \in GsReq /\ gs \in Seq(GsReq)
  BY Elements, Zenon DEF Types
<1>2. /\ HookBegins(r) \/ NoHook(r) => \E l \in HookPCs : gs' = [gs EXCEPT ![r].hook = l]
      /\ HookTracks(r) \/ HookBails(r) => \E l \in HookPCs : \E o : gs' = [gs EXCEPT ![r].hook = l, ![r].at = o]
      /\ HookSignals(r) \/ HookCleans(r) => gs' = [gs EXCEPT ![r].hook = "over", ![r].at = 0]
  BY Zenon DEF HookBegins, NoHook, HookTracks, HookBails, HookSignals, HookCleans, HookPCs
<1>3. DOMAIN gs' = DOMAIN gs /\ \A q \in DOMAIN gs : q # r => gs'[q] = gs[q]
  BY <1>1, <1>2, Zenon DEF Hook, RequestEnds, ExecuteGsRequest, CancelRequest
<1>4. HookBegins(r) => gs'[r].hook = IF fsm.status = "ended" THEN "bail" ELSE "track"
  BY <1>1 DEF HookBegins, GsReq
<1>5. HookTracks(r) => gs'[r].hook = "signal"
  BY <1>1 DEF HookTracks, GsReq
<1>6. HookSignals(r) \/ HookCleans(r) \/ NoHook(r) => gs'[r].hook = "over"
  BY <1>1, Zenon DEF HookSignals, HookCleans, NoHook, GsReq
<1>7. HookBails(r) => gs'[r].hook = IF dtChannels = 0 THEN "over" ELSE "clean"
  BY <1>1, Zenon DEF HookBails, GsReq
<1>8. RequestEnds(r) \/ ExecuteGsRequest(r) \/ CancelRequest(r) => gs'[r].hook = gs[r].hook
  BY <1>1 DEF RequestEnds, ExecuteGsRequest, CancelRequest, GsReq
<1> QED
  BY <1>3, <1>4, <1>5, <1>6, <1>7, <1>8, Zenon

\* Hooks and the ends of requests touch the state machine only by an end.
LEMMA RequestFsm ==
  ASSUME Types, NEW r \in DOMAIN gs,
         Hook(r) \/ RequestEnds(r) \/ ExecuteGsRequest(r) \/ CancelRequest(r)
  PROVE  call' = call /\ fsm' \in {fsm, EndEvent(fsm)}
BY Zenon DEF Hook, HookBegins, HookTracks, HookSignals, HookBails, HookCleans, NoHook, RequestEnds,
       ExecuteGsRequest, CancelRequest

\* What a step of any kind does to the kinds, and to whether a cleanup is under way.
Continues ==
  /\ KindInv'
  /\ CleansUp => CleansUp'

\* What a step of a call carries over to the next state.
LEMMA CallContinues ==
  ASSUME TInv, KindInv, kind' = kind, NEW c \in Calls, Open(c) \/ End(c) \/ CtxDone(c)
  PROVE  Continues /\ FsmQuiet /\ MovesOn(c)
<1>1. MovesOn(c)
  BY CallsMoveOn, Zenon DEF TInv
<1>2. FsmQuiet /\ HooksQuiet
  BY CallFsm, FsmSteps, CallHooks, Zenon DEF TInv
<1>3. KindInv'
  <2>1. \A e \in Calls : /\ call'[e].pc \in OpeningPCs => kind[e] \in Openings
                         /\ call'[e].pc = "cleanup" => kind[e] = "ReceiveCancel"
    BY <1>1, Zenon DEF MovesOn, KindInv
  <2>2. fsm'.step # "idle" <=> fsm'.status = "cleanup"
    BY <1>2, Zenon DEF FsmQuiet, FsmMoves, KindInv
  <2>3. \A r \in DOMAIN gs' : gs'[r].hook \in {"bail", "clean"} => fsm'.status = "ended"
    BY <1>2, Zenon DEF FsmQuiet, FsmMoves, HooksQuiet, KindInv
  <2> QED
    BY <2>1, <2>2, <2>3, Zenon DEF KindInv
<1>4. CleansUp => CleansUp'
  <2>1. fsm.status \in {"cleanup", "ended"} => fsm'.status \in {"cleanup", "ended"}
    BY <1>2, Zenon DEF FsmQuiet, FsmMoves
  <2>2. \A e \in Calls : ~At(e, "idle") => ~At(e, "idle")'
    BY <1>1, Zenon DEF MovesOn, At
  <2> QED
    BY <2>1, <2>2, Zenon DEF CleansUp
<1> QED
  BY <1>1, <1>2, <1>3, <1>4, Zenon DEF Continues

\* The calls stay where they are.
LEMMA OtherContinues ==
  ASSUME TInv, KindInv, kind' = kind, call' = call, FsmMoves,
         \A q \in DOMAIN gs' : gs'[q].hook \in {"bail", "clean"} =>
           \/ q \in DOMAIN gs /\ gs[q].hook \in {"bail", "clean"}
           \/ fsm'.status = "ended"
  PROVE  Continues
<1>1. KindInv'
  BY Zenon DEF KindInv, FsmMoves
<1>2. CleansUp => CleansUp'
  BY Zenon DEF CleansUp, FsmMoves, At
<1> QED
  BY <1>1, <1>2, Zenon DEF Continues

\* What a step of the cleanup carries over to the next state.
LEMMA CleanupContinues ==
  ASSUME TInv, KindInv, kind' = kind, Cleanup
  PROVE  Continues
<1>1. FsmMoves
  BY CleanupFsm, Zenon DEF TInv
<1>2. call' = call /\ gs' = gs
  BY Zenon DEF Cleanup, CleanupDelete, CleanupChannel, Unprotect, CleanupComplete
<1> QED
  BY <1>1, <1>2, OtherContinues, Zenon

\* What a step of a request carries over to the next state.
LEMMA RequestContinues ==
  ASSUME TInv, KindInv, kind' = kind, NEW r \in DOMAIN gs,
         Hook(r) \/ RequestEnds(r) \/ ExecuteGsRequest(r) \/ CancelRequest(r)
  PROVE  Continues /\ FsmQuiet /\ call' = call
<1>1. call' = call /\ FsmQuiet /\ FsmMoves
  BY RequestFsm, FsmSteps, Zenon DEF TInv, FsmQuiet
<1>2. DOMAIN gs' = DOMAIN gs /\ \A q \in DOMAIN gs : q # r => gs'[q] = gs[q]
  BY RequestHooks, Zenon DEF TInv
<1>3. gs'[r].hook \in {"bail", "clean"} => gs[r].hook \in {"bail", "clean"} \/ fsm'.status = "ended"
  <2>1. HookBegins(r) => (gs'[r].hook \in {"bail", "clean"} => fsm.status = "ended")
    BY RequestHooks, Zenon DEF TInv
  <2>2. HookBails(r) => gs[r].hook = "bail"
    BY Zenon DEF HookBails
  <2>3. Hook(r) /\ ~HookBegins(r) /\ ~HookBails(r) => gs'[r].hook \notin {"bail", "clean"}
    BY RequestHooks, Zenon DEF TInv, Hook
  <2>4. RequestEnds(r) \/ ExecuteGsRequest(r) \/ CancelRequest(r) => gs'[r].hook = gs[r].hook
    BY RequestHooks, Zenon DEF TInv
  <2>5. fsm.status = "ended" => fsm'.status = "ended"
    BY <1>1, Zenon DEF FsmMoves
  <2> QED
    BY <2>1, <2>2, <2>3, <2>4, <2>5, Zenon
<1> QED
  BY <1>1, <1>2, <1>3, OtherContinues, Zenon

-----------------------------------------------------------------------------
(* Steps that take or give up nothing *)

StillHolds ==
  /\ dtChannels' = dtChannels /\ mapping' = mapping
  /\ (resources'.store <=> resources.store) /\ (resources'.protected <=> resources.protected)
  /\ Len(dtChannel') = Len(dtChannel)
  /\ \A o \in DOMAIN dtChannel : dtChannel[o].storeRegistered => dtChannel'[o].storeRegistered

\* They keep the release of the channel.
LEMMA StillReleases ==
  ASSUME TInv, Release, StillHolds, FsmQuiet, CleansUp => CleansUp',
         (\E c \in Calls : At(c, "cleanup")) => (\E c \in Calls : At(c, "cleanup")'),
         \A q \in DOMAIN gs' : gs'[q].hook = "clean" => q \in DOMAIN gs /\ gs[q].hook = "clean"
  PROVE  Release'
<1>1. Len(dtChannel) = 1 => 1 \in DOMAIN dtChannel
  BY Elements DEF TInv
<1>2. /\ Len(dtChannel') <= 1
      /\ resources'.store => Len(dtChannel') = 1 /\ dtChannel'[1].storeRegistered
      /\ mapping' # {} => Len(dtChannel') = 1
      /\ ~CleansUp' => dtChannels' = Len(dtChannel')
  BY <1>1, Zenon DEF Release, StillHolds
<1>3. dtChannels' = 0 /\ (mapping' # {} \/ resources'.store) =>
        fsm'.step = "clean" \/ \E c \in Calls : At(c, "cleanup")'
  <2> SUFFICES ASSUME dtChannels' = 0, mapping' # {} \/ resources'.store
               PROVE  fsm'.step = "clean" \/ \E c \in Calls : At(c, "cleanup")'
    BY Zenon
  <2> QED
    BY Zenon DEF Release, StillHolds, FsmQuiet
<1>4. fsm'.step \in {"clean", "unprotect", "trigger"} \/ fsm'.status = "ended" => dtChannels' = 0
  BY Zenon DEF Release, StillHolds, FsmQuiet
<1>5. fsm'.step = "trigger" \/ fsm'.status = "ended" => ~resources'.protected
  BY Zenon DEF Release, StillHolds, FsmQuiet
<1>6. \A q \in DOMAIN gs' : gs'[q].hook # "clean"
  BY Zenon DEF Release
<1> QED
  BY <1>2, <1>3, <1>4, <1>5, <1>6, Zenon DEF Release

\* The dtChannels keep their stores when other fields of one of them change.
StoresStay == /\ Len(dtChannel') = Len(dtChannel)
              /\ \A p \in DOMAIN dtChannel :
                   dtChannel[p].storeRegistered => dtChannel'[p].storeRegistered

\* A dtChannel that changes keeps its store registered.
LEMMA StoresKept ==
  ASSUME Types, NEW o \in DOMAIN dtChannel, NEW d \in DTChannel,
         dtChannel[o].storeRegistered => d.storeRegistered,
         dtChannel' = [dtChannel EXCEPT ![o] = d]
  PROVE  StoresStay
<1>1. /\ Len(dtChannel') = Len(dtChannel)
      /\ \A p \in DOMAIN dtChannel : dtChannel'[p] = IF p = o THEN d ELSE dtChannel[p]
  BY OneChannel, Zenon
<1> QED
  BY <1>1, Zenon DEF StoresStay

\* The assignments to other fields keep the store registered.
LEMMA FieldsKeepStores ==
  ASSUME Types, NEW o, NEW l \in Calls \cup {Nil}, NEW r,
         o \in DOMAIN dtChannel => r \in Nat,
         \/ dtChannel' = dtChannel
         \/ dtChannel' = [dtChannel EXCEPT ![o].lk = l, ![o].requestID = 0]
         \/ dtChannel' = [dtChannel EXCEPT ![o].lk = Nil]
         \/ dtChannel' = [dtChannel EXCEPT ![o].requestID = 0]
         \/ dtChannel' = [dtChannel EXCEPT ![o].completed = r]
         \/ dtChannel' = [dtChannel EXCEPT ![o].opened = r]
         \/ dtChannel' = [dtChannel EXCEPT ![o].opened = 0, ![o].requestID = r, ![o].lk = Nil]
  PROVE  StoresStay
<1>1. dtChannel \in Seq(DTChannel)
  BY Zenon DEF Types
<1>2. CASE o \notin DOMAIN dtChannel
  <2>1. dtChannel' = dtChannel
    BY <1>1, <1>2
  <2> QED
    BY <2>1, Zenon DEF StoresStay
<1>3. CASE dtChannel' = dtChannel
  BY <1>3, Zenon DEF StoresStay
<1>4. CASE o \in DOMAIN dtChannel /\ dtChannel' # dtChannel
  <2> DEFINE D == dtChannel[o]
             d1 == [D EXCEPT !.lk = l, !.requestID = 0]
             d2 == [D EXCEPT !.lk = Nil]
             d3 == [D EXCEPT !.requestID = 0]
             d4 == [D EXCEPT !.completed = r]
             d5 == [D EXCEPT !.opened = r]
             d6 == [D EXCEPT !.opened = 0, !.requestID = r, !.lk = Nil]
  <2>1. D \in DTChannel /\ r \in Nat
    BY <1>1, <1>4
  <2>2. \/ dtChannel' = [dtChannel EXCEPT ![o] = d1]
        \/ dtChannel' = [dtChannel EXCEPT ![o] = d2]
        \/ dtChannel' = [dtChannel EXCEPT ![o] = d3]
        \/ dtChannel' = [dtChannel EXCEPT ![o] = d4]
        \/ dtChannel' = [dtChannel EXCEPT ![o] = d5]
        \/ dtChannel' = [dtChannel EXCEPT ![o] = d6]
    BY <1>1, <1>4, Zenon
  <2> HIDE DEF D
  <2>3. \A d \in {d1, d2, d3, d4, d5, d6} :
          d \in DTChannel /\ (D.storeRegistered => d.storeRegistered)
    <3>1. d1 \in DTChannel /\ d1.storeRegistered = D.storeRegistered
      BY <2>1, Zenon DEF DTChannel
    <3>2. d2 \in DTChannel /\ d2.storeRegistered = D.storeRegistered
      BY <2>1, Zenon DEF DTChannel
    <3>3. d3 \in DTChannel /\ d3.storeRegistered = D.storeRegistered
      BY <2>1, Zenon DEF DTChannel
    <3>4. d4 \in DTChannel /\ d4.storeRegistered = D.storeRegistered
      BY <2>1, Zenon DEF DTChannel
    <3>5. d5 \in DTChannel /\ d5.storeRegistered = D.storeRegistered
      BY <2>1, Zenon DEF DTChannel
    <3>6. d6 \in DTChannel /\ d6.storeRegistered = D.storeRegistered
      BY <2>1, Zenon DEF DTChannel
    <3> HIDE DEF d1, d2, d3, d4, d5, d6
    <3> QED
      BY <3>1, <3>2, <3>3, <3>4, <3>5, <3>6, Zenon
  <2> HIDE DEF d1, d2, d3, d4, d5, d6
  <2> QED
    BY <1>4, <2>2, <2>3, StoresKept DEF D
<1> QED
  BY <1>2, <1>3, <1>4, Zenon

\* The steps of a call that take or give up nothing.
StillCall(c) ==
  \/ Begin(c) \/ Lock(c) \/ WaitForCompleteHook(c) \/ WaitForCancel(c) \/ Request(c)
  \/ Opened(c) \/ GiveUp(c) \/ FindChannel(c) \/ CloseLocked(c) \/ WaitForClose(c)
  \/ CancelEvent(c) \/ EndByPeer(c) \/ Shutdown(c) \/ ShutdownLocked(c)
  \/ WaitForShutdown(c) \/ CtxDone(c)

\* The steps of a call that neither track nor release.
LEMMA StillCallHolds ==
  ASSUME Types, NEW c \in Calls, StillCall(c)
  PROVE  StillHolds /\ (call[c].pc = "cleanup" => call'[c].pc = "cleanup")
<1> DEFINE o == call[c].at
<1>1. dtChannels' = dtChannels /\ mapping' = mapping
  BY Zenon DEF StillCall, Begin, Lock, LockThen, WaitForCompleteHook, WaitForCancel, Request, Opened,
         GiveUp, FindChannel, CloseLocked, WaitForClose, CancelEvent, EndByPeer, Shutdown,
         ShutdownLocked, WaitForShutdown, CtxDone
<1>2. (resources'.store <=> resources.store) /\ (resources'.protected <=> resources.protected)
  <2>1. resources' = resources \/ resources' = [resources EXCEPT !.hooks = FALSE]
    BY Zenon DEF StillCall, Begin, Lock, LockThen, WaitForCompleteHook, WaitForCancel, Request, Opened,
           GiveUp, FindChannel, CloseLocked, WaitForClose, CancelEvent, EndByPeer, Shutdown,
           ShutdownLocked, WaitForShutdown, CtxDone
  <2>2. resources \in Resources
    BY Zenon DEF Types
  <2> QED
    BY <2>1, <2>2, Zenon DEF Resources
<1>3. \/ dtChannel' = dtChannel
      \/ dtChannel' = [dtChannel EXCEPT ![o].lk = c, ![o].requestID = 0]
      \/ dtChannel' = [dtChannel EXCEPT ![o].lk = Nil]
      \/ dtChannel' = [dtChannel EXCEPT ![o].requestID = 0]
      \/ dtChannel' = [dtChannel EXCEPT ![o].completed = Len(gs) + 1]
      \/ dtChannel' = [dtChannel EXCEPT ![o].opened = 0, ![o].requestID = dtChannel[o].opened,
                                        ![o].lk = Nil]
  <2>1. Lock(c) => dtChannel' = [dtChannel EXCEPT ![o].lk = c, ![o].requestID = 0]
    BY Zenon DEF Lock, LockThen
  <2>2. Request(c) => dtChannel' = [dtChannel EXCEPT ![o].completed = Len(gs) + 1]
    BY Zenon DEF Request
  <2>3. Opened(c) => dtChannel' = [dtChannel EXCEPT ![o].opened = 0,
                            ![o].requestID = dtChannel[o].opened, ![o].lk = Nil]
    BY Zenon DEF Opened
  <2>4. CloseLocked(c) \/ ShutdownLocked(c) => dtChannel' = [dtChannel EXCEPT ![o].requestID = 0]
    BY Zenon DEF CloseLocked, ShutdownLocked
  <2>5. WaitForCompleteHook(c) \/ WaitForCancel(c) \/ GiveUp(c) =>
          dtChannel' = dtChannel \/ dtChannel' = [dtChannel EXCEPT ![o].lk = Nil]
    BY Zenon DEF WaitForCompleteHook, WaitForCancel, GiveUp, FailOpen
  <2>6. (\/ Begin(c) \/ FindChannel(c) \/ WaitForClose(c) \/ CancelEvent(c) \/ EndByPeer(c)
         \/ Shutdown(c) \/ WaitForShutdown(c) \/ CtxDone(c)) => dtChannel' = dtChannel
    BY Zenon DEF Begin, FindChannel, WaitForClose, CancelEvent, EndByPeer, Shutdown,
           WaitForShutdown, CtxDone
  <2> HIDE DEF o
  <2> QED
    BY <2>1, <2>2, <2>3, <2>4, <2>5, <2>6, Zenon DEF StillCall
<1> HIDE DEF o
<1>4. StoresStay
  <2>1. Len(gs) + 1 \in Nat
    BY Elements
  <2>2. o \in DOMAIN dtChannel => dtChannel[o].opened \in Nat
    BY Elements, Zenon DEF DTChannel
  <2> QED
    BY <1>3, <2>1, <2>2, FieldsKeepStores, Zenon
<1>5. call[c].pc = "cleanup" => call'[c].pc = "cleanup"
  <2>1. CtxDone(c) => call'[c].pc = call[c].pc
    BY Moves, Zenon DEF To
  <2>2. ~CtxDone(c) => call[c].pc # "cleanup"
    BY Zenon DEF StillCall, Begin, Lock, LockThen, WaitForCompleteHook, WaitForCancel, Request, Opened,
           GiveUp, FindChannel, CloseLocked, WaitForClose, CancelEvent, EndByPeer, Shutdown,
           ShutdownLocked, WaitForShutdown, At
  <2> QED
    BY <2>1, <2>2, Zenon
<1> QED
  BY <1>1, <1>2, <1>4, <1>5, Zenon DEF StillHolds, StoresStay

\* Those steps preserve what is released at the end.
LEMMA StillCallReleases ==
  ASSUME TInv, KindInv, kind' = kind, Release, NEW c \in Calls, StillCall(c)
  PROVE  Release'
<1>1. Open(c) \/ End(c) \/ CtxDone(c)
  BY Zenon DEF StillCall, Open, End
<1>2. Continues /\ FsmQuiet /\ MovesOn(c)
  BY <1>1, CallContinues, Zenon
<1>3. StillHolds /\ (call[c].pc = "cleanup" => call'[c].pc = "cleanup")
  BY StillCallHolds, Zenon DEF TInv
<1>4. \A e \in Calls : At(e, "cleanup") => At(e, "cleanup")'
  BY <1>2, <1>3, Zenon DEF MovesOn, At
<1>5. \A q \in DOMAIN gs' : gs'[q].hook = "clean" => q \in DOMAIN gs /\ gs[q].hook = "clean"
  BY <1>1, CallHooks, Zenon DEF HooksQuiet
<1> QED
  BY <1>2, <1>3, <1>4, <1>5, StillReleases, Zenon DEF Continues

\* The steps of a request but for HookTracks.  The error path of a hook finds the
\* channel ended, and then nothing is tracked.
LEMMA RequestReleases ==
  ASSUME TInv, KindInv, kind' = kind, Release, NEW r \in DOMAIN gs,
         Hook(r) \/ RequestEnds(r) \/ ExecuteGsRequest(r) \/ CancelRequest(r), ~HookTracks(r)
  PROVE  Release'
<1>1. Continues /\ FsmQuiet /\ call' = call
  BY RequestContinues, Zenon
<1>2. ~HookCleans(r)
  BY Zenon DEF HookCleans, Release
<1>3. HookBails(r) => dtChannels = 0
  BY Zenon DEF HookBails, KindInv, Release
<1>4. dtChannels' = dtChannels /\ mapping' = mapping /\ resources' = resources
  BY <1>2, <1>3, Zenon DEF Hook, HookBegins, HookSignals, HookBails, DeleteChannel, NoHook, RequestEnds,
     ExecuteGsRequest, CancelRequest
<1>5. dtChannel' = dtChannel \/ dtChannel' = [dtChannel EXCEPT ![gs[r].at].opened = r]
  BY <1>2, Zenon DEF Hook, HookBegins, HookSignals, HookBails, NoHook, RequestEnds,
     ExecuteGsRequest, CancelRequest
<1>6. StoresStay
  <2>1. r \in Nat /\ Nil \in Calls \cup {Nil}
    BY Elements DEF TInv
  <2> QED
    BY <1>5, <2>1, FieldsKeepStores, Zenon DEF TInv
<1>7. \A q \in DOMAIN gs' : gs'[q].hook = "clean" => q \in DOMAIN gs /\ gs[q].hook = "clean"
  <2>1. DOMAIN gs' = DOMAIN gs /\ \A q \in DOMAIN gs : q # r => gs'[q] = gs[q]
    BY RequestHooks, Zenon DEF TInv
  <2>2. gs'[r].hook = "clean" => gs[r].hook = "clean"
    BY <1>2, <1>3, RequestHooks, Zenon DEF TInv, Hook
  <2> QED
    BY <2>1, <2>2, Zenon
<1>8. StillHolds
  BY <1>4, <1>6, Zenon DEF StillHolds, StoresStay
<1> QED
  BY <1>1, <1>7, <1>8, StillReleases, Zenon DEF Continues, At

\* Whoever tracks the channel before any cleanup finds the one dtChannel, or makes it.
LEMMA TrackReleases ==
  ASSUME TInv, KindInv, Release, ~CleansUp, NEW o \in Objects, trackDTChannel(o),
         fsm' = fsm, resources' = resources,
         \A q \in DOMAIN gs' : gs'[q].hook # "clean"
  PROVE  Release'
<1>1. dtChannels = Len(dtChannel) /\ Len(dtChannel) \in {0, 1}
  BY Elements DEF Release, TInv
<1>2. dtChannels' = 1 /\ Len(dtChannel') = 1 /\ (resources.store => dtChannel' = dtChannel)
  <2>1. CASE dtChannels # 0
    BY <1>1, <2>1, Zenon DEF trackDTChannel
  <2>2. CASE dtChannels = 0
    <3>1. dtChannel' = Append(dtChannel, newDTChannel) /\ dtChannels' = Len(dtChannel) + 1
      BY <2>2, Zenon DEF trackDTChannel
    <3>2. Len(dtChannel') = Len(dtChannel) + 1
      BY <3>1, NewRecords, SeqAppend DEF TInv, Types
    <3>3. ~resources.store
      BY <1>1, <2>2 DEF Release
    <3> QED
      BY <1>1, <2>2, <3>1, <3>2, <3>3
  <2> QED
    BY <2>1, <2>2, Zenon
<1>3. fsm.step = "idle" /\ fsm.status # "ended"
  BY Zenon DEF CleansUp, KindInv
<1>4. resources'.store => dtChannel'[1].storeRegistered
  BY <1>2, Zenon DEF Release
<1> QED
  BY <1>2, <1>3, <1>4 DEF Release

\* An open, or a hook, that is under way was overtaken by no cleanup.
LEMMA OpensFirst ==
  ASSUME KindInv, ~Overlaps
  PROVE  /\ \A c \in Calls : call[c].pc \in OpeningPCs => ~CleansUp
         /\ \A r \in DOMAIN gs : gs[r].hook \in {"track", "signal"} => ~CleansUp
BY Zenon DEF Overlaps, Opening, InHook, KindInv, OpeningPCs

\* An open that tracks or protects does so before any cleanup.
LEMMA OpenReleases ==
  ASSUME TInv, KindInv, Release, ~Overlaps, NEW c \in Calls,
         UseStore(c) \/ OpenChannel(c) \/ Protect(c)
  PROVE  Release'
<1>1. ~CleansUp /\ gs' = gs /\ fsm' = fsm
  BY OpensFirst, Zenon DEF UseStore, OpenChannel, Protect, At, OpeningPCs
<1>2. \A q \in DOMAIN gs' : gs'[q].hook # "clean"
  BY <1>1, Zenon DEF Release
<1>3. CASE UseStore(c) \/ OpenChannel(c)
  <2>1. \E o \in Objects : trackDTChannel(o)
    BY <1>3, Zenon DEF UseStore, OpenChannel
  <2>2. resources' = resources
    BY <1>3, Zenon DEF UseStore, OpenChannel
  <2> QED
    BY <1>1, <1>2, <2>1, <2>2, TrackReleases, Zenon
<1>4. CASE Protect(c)
  <2> DEFINE o == call[c].at
             d == [dtChannel[o] EXCEPT !.storeRegistered = TRUE]
  <2>1. o \in DOMAIN dtChannel
    BY <1>4, Elements DEF Protect, At, TInv, Refs
  <2>2. o = 1 /\ Len(dtChannel) = 1 /\ dtChannels = 1
    BY <1>1, <2>1, Elements DEF Release, TInv
  <2>3. dtChannel[1] \in DTChannel /\ 1 \in DOMAIN dtChannel
    BY <2>1, <2>2, Elements, Zenon DEF TInv
  <2>4. resources.store => dtChannel' = dtChannel
    BY <1>4, Zenon DEF Protect
  <2>5. ~resources.store => dtChannel' = [dtChannel EXCEPT ![1] = d]
    BY <1>4, <2>2, <2>3, Zenon DEF Protect, TInv, Types
  <2>6. d \in DTChannel /\ d.storeRegistered
    BY <2>2, <2>3, Zenon DEF DTChannel
  <2> HIDE DEF d, o
  <2>7. Len(dtChannel') = 1 /\ dtChannel'[1].storeRegistered
    <3>1. CASE resources.store
      BY <2>2, <2>4, <3>1, Zenon DEF Release
    <3>2. CASE ~resources.store
      BY <2>2, <2>3, <2>5, <2>6, <3>2, OneChannel, Zenon DEF TInv
    <3> QED
      BY <3>1, <3>2, Zenon
  <2>8. dtChannels' = 1
    BY <1>4, <2>2, Zenon DEF Protect
  <2>9. fsm.step = "idle" /\ fsm.status # "ended"
    BY <1>1, Zenon DEF CleansUp, KindInv
  <2> QED
    BY <1>1, <1>2, <2>7, <2>8, <2>9 DEF Release
<1> QED
  BY <1>3, <1>4, Zenon

\* A hook that tracks the channel does so before any cleanup.
LEMMA HookTracksReleases ==
  ASSUME TInv, KindInv, Release, ~Overlaps, NEW r \in DOMAIN gs, HookTracks(r)
  PROVE  Release'
<1>1. ~CleansUp /\ fsm' = fsm /\ resources' = resources
  BY OpensFirst, Zenon DEF HookTracks
<1>2. \E o \in Objects : trackDTChannel(o)
  BY Zenon DEF HookTracks
<1>3. /\ DOMAIN gs' = DOMAIN gs /\ \A q \in DOMAIN gs : q # r => gs'[q] = gs[q]
      /\ gs'[r].hook = "signal"
  BY RequestHooks, Zenon DEF TInv, Hook
<1>4. \A q \in DOMAIN gs' : gs'[q].hook # "clean"
  BY <1>3, Zenon DEF Release
<1> QED
  BY <1>1, <1>2, <1>4, TrackReleases, Zenon

\* The cleanup of the one dtChannel gives up its store and the mappings.
LEMMA CleanupGivesUp ==
  ASSUME TInv, Release, NEW o \in DOMAIN dtChannel, cleanup(o)
  PROVE  /\ mapping' = {} /\ ~resources'.store
         /\ (resources'.protected <=> resources.protected)
<1>1. o = 1 /\ Len(dtChannel) = 1
  BY Elements DEF TInv, Release
<1>2. resources \in Resources
  BY Zenon DEF TInv, Types
<1>3. resources.store => dtChannel[o].storeRegistered
  BY <1>1, Zenon DEF Release
<1> DEFINE s == resources.store /\ ~dtChannel[o].storeRegistered
<1>4. s = FALSE
  BY <1>3, Zenon
<1>5. resources' = [resources EXCEPT !.store = s] /\ mapping' = {}
  BY <1>2, Zenon DEF cleanup, Resources
<1> HIDE DEF s
<1> QED
  BY <1>2, <1>4, <1>5, Zenon DEF Resources

\* A received cancel releases what it removes.
LEMMA CancelReleases ==
  ASSUME TInv, KindInv, kind' = kind, Release, NEW c \in Calls,
         ReceiveCancel(c) \/ CleanupReceived(c)
  PROVE  Release'
<1>1. Continues /\ FsmQuiet /\ MovesOn(c)
  BY CallContinues, Zenon DEF End
<1>2. CASE ReceiveCancel(c)
  <2>1. /\ call[c].pc = "idle" /\ kind[c] = "ReceiveCancel" /\ dtChannels' = 0
        /\ UNCHANGED <<fsm, dtChannel, mapping, resources, gs>>
    BY <1>2, Zenon DEF ReceiveCancel, DeleteChannel, At
  <2>2. \/ dtChannels = 0 /\ To(c, "event")
        \/ dtChannels # 0 /\ To(c, "cleanup")
    BY <1>2, Moves, Zenon DEF TInv
  <2>3. CleansUp'
    BY <2>1, <2>2, Zenon DEF CleansUp, At, To
  <2>4. dtChannels = 0 => \A e \in Calls : At(e, "cleanup") => At(e, "cleanup")'
    BY <2>1, <2>2, Zenon DEF At, To
  <2>5. dtChannels # 0 => At(c, "cleanup")'
    BY <2>2, Zenon DEF At, To
  <2>6. mapping' # {} \/ resources'.store => fsm'.step = "clean" \/ \E e \in Calls : At(e, "cleanup")'
    BY <2>1, <2>4, <2>5, Zenon DEF Release
  <2> QED
    BY <2>1, <2>3, <2>6, Zenon DEF Release
<1>3. CASE CleanupReceived(c)
  <2>1. /\ call[c].pc = "cleanup" /\ cleanup(call[c].at)
        /\ UNCHANGED <<fsm, dtChannels, dtChannel, gs>>
    BY <1>3, Zenon DEF CleanupReceived, At
  <2>2. call[c].at \in DOMAIN dtChannel
    BY <2>1, Elements DEF TInv, Refs
  <2>3. mapping' = {} /\ ~resources'.store /\ (resources'.protected <=> resources.protected)
    BY <2>1, <2>2, CleanupGivesUp, Zenon
  <2>4. CleansUp => CleansUp'
    BY <1>1, Zenon DEF Continues
  <2> QED
    BY <2>1, <2>3, <2>4, Zenon DEF Release
<1> QED
  BY <1>2, <1>3, Zenon

\* The cleanup releases everything in turn.
LEMMA CleanupReleases ==
  ASSUME TInv, KindInv, kind' = kind, Release, Cleanup
  PROVE  Release'
<1>1. UNCHANGED <<call, dtChannel, gs>>
  BY Zenon DEF Cleanup, CleanupDelete, CleanupChannel, Unprotect, CleanupComplete
<1>2. CleansUp'
  <2>1. CleansUp
    BY Zenon DEF Cleanup, CleanupDelete, CleanupChannel, Unprotect, CleanupComplete, CleansUp, KindInv
  <2> QED
    BY <2>1, CleanupContinues, Zenon DEF Continues
<1>3. \A e \in Calls : At(e, "cleanup")' <=> At(e, "cleanup")
  BY <1>1, Zenon DEF At
<1>4. CASE CleanupDelete
  <2>1. fsm'.status = "cleanup" /\ fsm'.step = IF dtChannels = 0 THEN "unprotect" ELSE "clean"
    BY <1>4, CleanupFsm, Zenon DEF TInv
  <2>2. fsm.step = "delete" /\ dtChannels' = 0 /\ UNCHANGED <<mapping, resources>>
    BY <1>4, Zenon DEF CleanupDelete, DeleteChannel
  <2>3. mapping' # {} \/ resources'.store => fsm'.step = "clean" \/ \E e \in Calls : At(e, "cleanup")'
    BY <1>3, <2>1, <2>2, Zenon DEF Release
  <2> QED
    BY <1>1, <1>2, <2>1, <2>2, <2>3, Zenon DEF Release
<1>5. CASE CleanupChannel
  <2>1. fsm'.status = "cleanup" /\ fsm'.step = "unprotect"
    BY <1>5, CleanupFsm, Zenon DEF TInv
  <2>2. fsm.step = "clean" /\ dtChannels' = dtChannels /\ cleanup(fsm.at)
    BY <1>5, Zenon DEF CleanupChannel
  <2>3. fsm.at \in DOMAIN dtChannel
    BY <2>2, Elements DEF TInv, Refs
  <2>4. mapping' = {} /\ ~resources'.store
    BY <2>2, <2>3, CleanupGivesUp, Zenon
  <2> QED
    BY <1>1, <1>2, <2>1, <2>2, <2>4, Zenon DEF Release
<1>6. CASE Unprotect
  <2>1. fsm'.status = "cleanup" /\ fsm'.step = "trigger"
    BY <1>6, CleanupFsm, Zenon DEF TInv
  <2>2. fsm.step = "unprotect" /\ dtChannels' = dtChannels /\ mapping' = mapping
    BY <1>6, Zenon DEF Unprotect
  <2>3. ~resources'.protected /\ (resources'.store <=> resources.store)
    BY <1>6, Zenon DEF Unprotect, TInv, Types, Resources
  <2>4. dtChannels' = 0 /\ (mapping' # {} \/ resources'.store) => \E e \in Calls : At(e, "cleanup")'
    BY <1>3, <2>2, <2>3, Zenon DEF Release
  <2> QED
    BY <1>1, <1>2, <2>1, <2>2, <2>3, <2>4, Zenon DEF Release
<1>7. CASE CleanupComplete
  <2>1. \/ fsm'.status = "cleanup" /\ fsm'.step = "delete"
        \/ fsm'.status = "ended" /\ fsm'.step = "idle"
    BY <1>7, CleanupFsm, Zenon DEF TInv
  <2>2. fsm.step = "trigger" /\ UNCHANGED <<dtChannels, mapping, resources>>
    BY <1>7, Zenon DEF CleanupComplete
  <2>3. dtChannels' = 0 /\ (mapping' # {} \/ resources'.store) => \E e \in Calls : At(e, "cleanup")'
    BY <1>3, <2>2, Zenon DEF Release
  <2> QED
    BY <1>1, <1>2, <2>1, <2>2, <2>3, Zenon DEF Release
<1> QED
  BY <1>4, <1>5, <1>6, <1>7, Zenon DEF Cleanup

\* Nothing is held, and no cleanup is under way, when the system starts.
LEMMA InitReleases == Init => KindInv /\ Release
<1> SUFFICES ASSUME Init PROVE KindInv /\ Release
  BY Zenon
<1>1. \A c \in Calls : call[c].pc = "idle"
  BY NewRecords, Zenon DEF Init
<1>2. /\ fsm.status = "none" /\ fsm.step = "idle" /\ dtChannels = 0 /\ Len(dtChannel) = 0
      /\ mapping = {} /\ ~resources.store /\ DOMAIN gs = {}
  BY DEF Init
<1>3. KindInv
  BY <1>1, <1>2, Zenon DEF KindInv, OpeningPCs
<1> QED
  BY <1>2, <1>3 DEF Release

\* Every step preserves what is released at the end, until an overlap.
LEMMA NextReleases ==
  ASSUME Inv, KindInv, ReleaseInv, [Next]_vars
  PROVE  KindInv' /\ ReleaseInv'
<1>1. TInv
  BY Zenon DEF Inv
<1>2. CASE Next
  <2>1. kind' = kind /\ overlap' = (overlap \/ Overlaps')
    BY <1>2, Zenon DEF Next
  <2>2. KindInv' /\ (~Overlaps /\ Release => Release')
    <3>1. ASSUME NEW c \in Calls, Open(c) \/ End(c) \/ CtxDone(c)
          PROVE  KindInv' /\ (~Overlaps /\ Release => Release')
      <4>1. KindInv'
        BY <1>1, <2>1, <3>1, CallContinues, Zenon DEF Continues
      <4>2. \/ StillCall(c) \/ UseStore(c) \/ OpenChannel(c) \/ Protect(c)
            \/ ReceiveCancel(c) \/ CleanupReceived(c)
        BY <3>1, Zenon DEF StillCall, Open, End
      <4> QED
        BY <1>1, <2>1, <4>1, <4>2, StillCallReleases, OpenReleases, CancelReleases, Zenon
    <3>2. ASSUME Cleanup
          PROVE  KindInv' /\ (~Overlaps /\ Release => Release')
      BY <1>1, <2>1, <3>2, CleanupContinues, CleanupReleases, Zenon DEF Continues
    <3>3. ASSUME NEW r \in DOMAIN gs,
                 Hook(r) \/ RequestEnds(r) \/ ExecuteGsRequest(r) \/ CancelRequest(r)
          PROVE  KindInv' /\ (~Overlaps /\ Release => Release')
      BY <1>1, <2>1, <3>3, RequestContinues, RequestReleases, HookTracksReleases, Zenon DEF Continues
    <3> QED
      BY <1>2, <3>1, <3>2, <3>3, Zenon DEF Next, Step
  <2>3. ~overlap' => ~overlap /\ ~Overlaps'
    BY <2>1, Zenon
  <2> QED
    BY <2>2, <2>3, Zenon DEF ReleaseInv
<1>3. CASE UNCHANGED vars
  <2>1. KindInv'
    BY <1>3, Zenon DEF KindInv, vars
  <2>2. Release' <=> Release
    BY <1>3, Zenon DEF Release, CleansUp, At, vars
  <2>3. Overlaps' <=> Overlaps
    BY <1>3, Zenon DEF Overlaps, CleansUp, Opening, InHook, At, vars
  <2> QED
    BY <1>3, <2>1, <2>2, <2>3, Zenon DEF ReleaseInv, vars
<1> QED
  BY <1>2, <1>3, Zenon

\* A channel that terminated holds nothing: it is not in the map, no ID is mapped to
\* it, its store is unregistered and its connection unprotected (cleanupConnection
\* and CleanupChannel), unless an open or a hook overlapped the cleanup.
THEOREM AllReleasedAtEnd == Spec => []ReleasedAtEnd
<1>1. Init => KindInv /\ ReleaseInv
  <2>1. Init => ~Overlaps
    <3>1. Init => ~CleansUp
      BY NewRecords DEF Init, CleansUp, At
    <3> QED
      BY <3>1, Zenon DEF Overlaps
  <2> QED
    BY <2>1, InitReleases, Zenon DEF ReleaseInv
<1>2. Inv /\ KindInv /\ ReleaseInv /\ [Next]_vars => KindInv' /\ ReleaseInv'
  BY NextReleases, Zenon
<1>3. KindInv /\ ReleaseInv => ReleasedAtEnd
  <2> SUFFICES ASSUME KindInv, Release, fsm.status = "ended", \A c \in Calls : ~At(c, "cleanup")
               PROVE  /\ dtChannels = 0 /\ mapping = {}
                      /\ ~resources.protected /\ ~resources.store
    BY Zenon DEF ReleasedAtEnd, ReleaseInv
  <2>1. fsm.step = "idle" /\ dtChannels = 0
    BY Zenon DEF KindInv, Release
  <2> QED
    BY <2>1, Zenon DEF Release
<1> QED
  BY <1>1, <1>2, <1>3, SpecInv, PTL DEF Spec

=============================================================================
