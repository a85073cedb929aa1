------------------------- MODULE PauseProtocolProofs -------------------------
(***************************************************************************)
(* Proofs about PauseProtocol, for every number of calls, restarts,        *)
(* failures and blocks and every set of data limits: types, that the       *)
(* transport does what is recorded, that no data moves while a peer is     *)
(* recorded paused, and that the records of the two peers agree.           *)
(***************************************************************************)
EXTENDS PauseProtocol, TLAPS

-----------------------------------------------------------------------------
(* Types, and what holds whatever was excused *)

Msgs == [kind : {"update"}, paused : BOOLEAN, n : Nat]

Calls ==
  [op : {"none", "pause", "resume", "validate"}, step : Nat, n : Nat,
   force : BOOLEAN, limit : Nat, paused : BOOLEAN, stays : BOOLEAN]

\* The calls that peer p's user can have on their way, and how far.
CallFits(p) ==
  /\ call[p].op = "none" => call[p] = NoCall
  /\ call[p].op = "pause" => call[p].step \in {1, 2}
  /\ call[p].op = "resume" => call[p].step = 1
  /\ call[p].op = "validate" => p = "R" /\ call[p].step \in {1, 2, 3}
  /\ call[p].op = "validate" /\ call[p].step = 3 => call[p].stays /\ ~call[p].paused

\* A message of the network.  The responder gets pauses and restarts only:
\* resumes of the initiator ride on the request.
NetFits(d) ==
  /\ d \in [to : Peers, msg : Msgs \cup {Restart}]
  /\ d.msg = Restart => d.to = "R" /\ ~pull
  /\ d.to = "R" /\ d.msg # Restart => d.msg.paused

Plain ==
  /\ pull \in BOOLEAN /\ late \in BOOLEAN
  /\ data \in [count : Nat, limit : Nat]
  /\ seen \in [Peers -> Nat]
  /\ used \in [calls : Nat, restarts : Nat, failures : Nat, stamp : Nat]
  /\ excuses \in SUBSET {"unsent", "overtaken", "raced", "restarted"}

Queues == ext \in [Peers -> Seq(Msgs)] /\ \A d \in net : NetFits(d)

CallsFit == call \in [Peers -> Calls] /\ \A p \in Peers : CallFits(p)

\* The server knows the requester as gone exactly until it has the new request,
\* which in a push carries the response of the responder; what the requester is
\* to get waits until then; the transfer of a push has started; and a hook belongs
\* to the request it was called for.
Requests ==
  /\ dt.requesterCancelled <=> request = "new"
  /\ ~pull => dt.xferStarted
  /\ ~pull /\ request = "new" => ext["I"] # << >>
  /\ request = "new" => ext[requester] = << >>
  /\ hook = "current" => request # "new"

Types == TypeOK /\ Plain /\ Queues /\ CallsFit /\ Requests

-----------------------------------------------------------------------------
(* The transport and the records of one peer *)

\* The end of peer p does what p's calls ask of it.
Acts(p) == request = "open" \/ (request = "new" /\ p = requester)

\* What the end of p does, by how far p's call is.
EndFits(p) ==
  /\ call[p].op = "none" /\ ~(p = "R" /\ hook = "current") =>
       gsPaused[p] = rec[p].self
  /\ call[p].op = "pause" => gsPaused[p]
  /\ call[p].op = "resume" => ~gsPaused[p]
  /\ call[p].op = "validate" /\ call[p].step \in {1, 2} => gsPaused[p] = call[p].paused
  /\ call[p].op = "validate" /\ call[p].step = 1 => rec[p].self = call[p].paused
  /\ call[p].op = "validate" /\ call[p].step \in {2, 3} => rec[p].self = call[p].stays

\* A hook or a receiver that has still to pause its end has no call beside it,
\* and its peer is recorded paused.
HookFits ==
  hook # "none" =>
    /\ call["R"].op = "none" /\ rec["R"].self
    /\ data.limit # 0 /\ data.count >= data.limit

LateFits == late => call["I"].op = "none" /\ rec["I"].self

Agreeing ==
  /\ \A p \in Peers : Acts(p) => EndFits(p)
  /\ HookFits
  /\ LateFits

AgreeInv == InOrderOrNot => Agreeing

-----------------------------------------------------------------------------
(* What a peer is about to learn of the other *)

Elems(s) == {s[i] : i \in DOMAIN s}

\* The messages for p under way, over the network, on the request, and kept
\* for the next request.
Pending(p) ==
  {d.msg : d \in {e \in net : e.to = p /\ e.msg # Restart}}
    \cup Elems(ext[p])
    \cup (IF p = requester THEN Elems(dt.pendingExtensions) ELSE {})

\* v is what the latest message for p says, or what p recorded if there is none.
Said(p, v) ==
  /\ \A m \in Pending(p) :
       (\A o \in Pending(p) : o.n <= m.n) /\ seen[p] <= m.n => m.paused = v
  /\ Pending(p) = {} => rec[p].other = v

\* The stamps of messages are below that of a call that has still to send one.
Below(p, n) == seen[p] < n /\ \A m \in Pending(p) : m.n < n

Unsaid(c) == (c.op = "pause" /\ c.step = 1) \/ (c.op = "validate" /\ c.step \in {1, 2})

\* The responder has still to tell of a pause of its hook, or to answer the restart.
Owes(q) == q = "R" /\ (hook = "current" \/ (hook = "old" /\ ~pull) \/ (pull /\ request = "new"))

\* q means the other to know that it is paused, or not paused, by how far q's
\* call is.
Claims(q, v) ==
  \/ call[q].op = "none" /\ ~Owes(q) /\ v = rec[q].self
  \/ call[q].op = "pause" /\ call[q].step = 2 /\ v = TRUE
  \/ call[q].op = "resume" /\ v = FALSE
  \/ call[q].op = "validate" /\ call[q].step = 3 /\ v = TRUE

\* What q means the other to know it has told, and stamps grow.
Told(q) ==
  /\ Below(Other(q), used.stamp + 1)
  /\ call[q].n <= used.stamp
  /\ \A v \in BOOLEAN : Claims(q, v) => Said(Other(q), v)
  /\ Unsaid(call[q]) => Below(Other(q), call[q].n)

ToldInv == Unexcused /\ request # "failed" => \A q \in Peers : Told(q)

-----------------------------------------------------------------------------
(* Types: the proof *)

\* The peers are two.
LEMMA TwoPeers ==
  /\ \A p \in Peers : Other(p) \in Peers /\ Other(p) # p /\ Other(Other(p)) = p
  /\ server \in Peers /\ requester = Other(server)
  BY Zenon DEF Peers, Other, server, requester

\* The initial states have the types (Init).
LEMMA InitTypes == Init => Types
<1> SUFFICES ASSUME Init PROVE Types
  BY Zenon
<1>1. TypeOK
  BY DEF Init, TypeOK, Peers
<1>2. Plain
  <2>1. data \in [count : {0}, limit : Limits]
    BY Zenon DEF Init
  <2>2. data \in [count : Nat, limit : Nat]
    <3>1. data = [count |-> data.count, limit |-> data.limit]
      BY <2>1, Zenon
    <3>2. data.count = 0 /\ data.limit \in Limits
      BY <2>1, Zenon
    <3> QED
      BY <3>1, <3>2, LimitsAssumption
  <2> QED
    BY <2>2, Zenon DEF Init, Plain
<1>3. Queues
  BY DEF Init, Queues
<1>4. CallsFit
  BY Zenon DEF Init, CallsFit, CallFits, NoCall, Calls
<1>5. Requests
  <2>1. PICK force \in BOOLEAN :
          dt = [requesterCancelled |-> FALSE, pendingExtensions |-> << >>,
                xferStarted |-> ~(pull /\ force)]
    BY Zenon DEF Init
  <2> QED
    BY <2>1, Zenon DEF Init, Requests
<1> QED
  BY <1>1, <1>2, <1>3, <1>4, <1>5, Zenon DEF Types

\* NoCall is the call without an operation.
LEMMA NoCallFits ==
  /\ NoCall \in Calls /\ NoCall.op = "none" /\ NoCall.n = 0
  /\ CallsFit => \A p \in Peers : call[p].op = "none" <=> call[p] = NoCall
  BY DEF NoCall, Calls, CallsFit, CallFits

\* A call that ends leaves none.
LEMMA EndsFits ==
  ASSUME CallsFit, NEW p \in Peers, NEW op, NEW step, Ends(p, op, step)
  PROVE  CallsFit'
<1>1. call' \in [Peers -> Calls]
  BY NoCallFits, Zenon DEF Ends, CallsFit
<1>2. ASSUME NEW q \in Peers PROVE CallFits(q)'
  BY NoCallFits, Zenon DEF Ends, CallsFit, CallFits
<1> QED
  BY <1>1, <1>2, Zenon DEF CallsFit

\* A call that goes on, to a step it has.
LEMMA GoesFits ==
  ASSUME CallsFit, NEW p \in Peers, NEW op, NEW step \in {1, 2}, Goes(p, op, step),
         \/ op = "pause" /\ step = 1
         \/ op = "validate" /\ step = 1
         \/ op = "validate" /\ step = 2 /\ call[p].stays /\ ~call[p].paused
  PROVE  CallsFit'
<1>1. call' \in [Peers -> Calls]
  BY DEF Goes, CallsFit, Calls
<1>2. ASSUME NEW q \in Peers PROVE CallFits(q)'
  BY NoCallFits DEF Goes, CallsFit, CallFits, Calls
<1> QED
  BY <1>1, <1>2, Zenon DEF CallsFit

\* Calls of the users keep the calls in order.
LEMMA NextCallsFit == ASSUME Types, Next PROVE CallsFit'
<1> USE DEF Types
<1>1. ASSUME NEW p \in Peers, PauseTransport(p) \/ ResumeTransport(p) PROVE CallsFit'
  <2>1. PICK op \in {"pause", "resume"} : Starts(p, op)
    BY <1>1, Zenon DEF PauseTransport, ResumeTransport
  <2>2. call' \in [Peers -> Calls]
    <3>1. used.stamp + 1 \in Nat
      BY DEF Plain
    <3>2. [call[p] EXCEPT !.op = op, !.step = 1, !.n = used.stamp + 1] \in Calls
      BY <3>1, ZenonT(60) DEF CallsFit, Calls
    <3> QED
      BY <2>1, <3>2, Zenon DEF Starts, CallsFit
  <2>3. ASSUME NEW q \in Peers PROVE CallFits(q)'
    BY <2>1, NoCallFits DEF Starts, CallsFit, CallFits, Calls
  <2> QED
    BY <2>2, <2>3, Zenon DEF CallsFit
<1>2. ASSUME NEW p \in Peers, PauseSend(p) PROVE CallsFit'
  BY <1>2, GoesFits, Zenon DEF PauseSend
<1>3. ASSUME NEW p \in Peers, PauseSendFails(p) \/ PauseRecord(p) \/ ResumeRecord(p)
      PROVE  CallsFit'
  BY <1>3, EndsFits, Zenon DEF PauseSendFails, PauseRecord, ResumeRecord
<1>4. ASSUME NEW force \in BOOLEAN, NEW limit \in Limits, UpdateRead(force, limit)
      PROVE  CallsFit'
  <2>1. call' \in [Peers -> Calls]
    <3>1. used.stamp + 1 \in Nat /\ limit \in Nat
      BY LimitsAssumption DEF Plain
    <3>2. LeaveRequestPaused(force, limit) \in BOOLEAN
      BY Zenon DEF LeaveRequestPaused
    <3>3. rec["R"].self \in BOOLEAN
      BY Zenon DEF TypeOK, Peers
    <3> QED
      BY <1>4, <3>1, <3>2, <3>3, Zenon DEF UpdateRead, CallsFit, Calls
  <2>2. ASSUME NEW q \in Peers PROVE CallFits(q)'
    BY <1>4 DEF UpdateRead, CallsFit, CallFits, Peers
  <2> QED
    BY <2>1, <2>2, Zenon DEF CallsFit
<1>5. ASSUME UpdateRecord PROVE CallsFit'
  BY <1>5, GoesFits, Zenon DEF UpdateRecord, Peers
<1>6. ASSUME UpdateSend PROVE CallsFit'
  BY <1>6, GoesFits, EndsFits, Zenon DEF UpdateSend, Peers
<1>7. ASSUME UpdateResume \/ UpdateSendFails \/ UpdatePause PROVE CallsFit'
  BY <1>7, EndsFits, Zenon DEF UpdateResume, UpdateSendFails, UpdatePause, Peers
<1>8. ASSUME UNCHANGED call PROVE CallsFit'
  BY <1>8, Zenon DEF CallsFit, CallFits
<1> QED
  BY <1>1, <1>2, <1>3, <1>4, <1>5, <1>6, <1>7, <1>8, Zenon
     DEF Next, Block, HookPauses, HookSendFails, ReceiveMessage, ReceiveRestart,
         LatePause, RequestUpdated, IncomingResponse, RestartPull, RestartPush,
         ReceivePush, ReceivePull

\* Messages that are handled are updates.
LEMMA NetUpdate ==
  ASSUME Types, NEW d \in net, d.msg.kind = "update"
  PROVE  d.to \in Peers /\ d.msg \in Msgs /\ d.msg # Restart
  BY DEF Types, Queues, NetFits, Restart

\* The first message of a queue, and the rest.
LEMMA HeadOfExt ==
  ASSUME Types, NEW p \in Peers, ext[p] # << >>
  PROVE  Head(ext[p]) \in Msgs /\ Tail(ext[p]) \in Seq(Msgs)
<1>1. ext[p] \in Seq(Msgs)
  BY Zenon DEF Types, Queues
<1> QED
  BY <1>1

\* The count of blocks and the limit, the bounds, the stamps that were seen,
\* the excuses.
LEMMA NextPlain == ASSUME Types, Next PROVE Plain'
<1> USE DEF Types, Plain
<1>1. pull' \in BOOLEAN /\ late' \in BOOLEAN
  <2>1. late' \in BOOLEAN
    BY ZenonT(60) DEF Next, PauseTransport, PauseSend, PauseSendFails, PauseRecord,
       ResumeTransport,
       ResumeRecord, UpdateRead, UpdateRecord, UpdateResume, UpdateSend, UpdateSendFails,
       UpdatePause, Block, HookPauses, HookSendFails, ReceiveMessage, ReceiveRestart,
       LatePause, RequestUpdated, IncomingResponse, RestartPull, RestartPush, ReceivePush,
       ReceivePull, Reopens, Serves
  <2> QED
    BY <2>1, Zenon DEF Next, PauseTransport, PauseSend, PauseSendFails, PauseRecord,
       ResumeTransport, ResumeRecord, UpdateRead, UpdateRecord, UpdateResume, UpdateSend,
       UpdateSendFails, UpdatePause, Block, HookPauses, HookSendFails, ReceiveMessage,
       ReceiveRestart, LatePause, RequestUpdated, IncomingResponse, RestartPull,
       RestartPush, ReceivePush, ReceivePull
<1>2. data' \in [count : Nat, limit : Nat]
  <2>1. CASE UpdateRecord
    <3>1. call["R"].limit \in Nat
      BY Zenon DEF CallsFit, Calls, Peers
    <3> QED
      BY <2>1, <3>1, Zenon DEF UpdateRecord
  <2>2. CASE Block
    BY <2>2 DEF Block
  <2>3. CASE UNCHANGED data
    BY <2>3, Zenon
  <2> QED
    BY <2>1, <2>2, <2>3, Zenon DEF Next, PauseTransport, PauseSend, PauseSendFails, PauseRecord,
       ResumeTransport, ResumeRecord, UpdateRead, UpdateResume, UpdateSend,
       UpdateSendFails, UpdatePause, HookPauses, HookSendFails, ReceiveMessage,
       ReceiveRestart, LatePause, RequestUpdated, IncomingResponse, RestartPull,
       RestartPush, ReceivePush, ReceivePull
<1>3. seen' \in [Peers -> Nat]
  <2>1. ASSUME NEW p \in Peers, NEW m \in Msgs, Records(p, m) PROVE seen' \in [Peers -> Nat]
    BY <2>1, Zenon DEF Records, Msgs
  <2>2. CASE UNCHANGED seen
    BY <2>2, Zenon
  <2>3. ASSUME NEW d \in net, ReceiveMessage(d) PROVE seen' \in [Peers -> Nat]
    BY <2>1, <2>3, NetUpdate, Zenon DEF ReceiveMessage
  <2>4. CASE RequestUpdated
    BY <2>1, <2>4, TwoPeers, HeadOfExt, Zenon DEF RequestUpdated
  <2>5. CASE IncomingResponse
    BY <2>1, <2>5, TwoPeers, HeadOfExt, Zenon DEF IncomingResponse
  <2>6. CASE ReceivePush
    BY <2>1, <2>6, TwoPeers, HeadOfExt, Zenon DEF ReceivePush, Requests, Peers
  <2> QED
    BY <2>2, <2>3, <2>4, <2>5, <2>6, Zenon DEF Next, PauseTransport, PauseSend, PauseSendFails,
       PauseRecord, ResumeTransport, ResumeRecord, UpdateRead, UpdateRecord, UpdateResume,
       UpdateSend, UpdateSendFails, UpdatePause, Block, HookPauses, HookSendFails,
       ReceiveRestart, LatePause, RestartPull, RestartPush, ReceivePull
<1>4. used' \in [calls : Nat, restarts : Nat, failures : Nat, stamp : Nat]
  <2>1. \/ used' = used
        \/ used' = [used EXCEPT !.calls = @ + 1, !.stamp = @ + 1]
        \/ used' = [used EXCEPT !.stamp = @ + 1]
        \/ used' = [used EXCEPT !.failures = @ + 1]
        \/ used' = [used EXCEPT !.restarts = @ + 1]
    BY Zenon DEF Next, PauseTransport, PauseSend, PauseSendFails, PauseRecord,
       ResumeTransport, ResumeRecord, UpdateRead, UpdateRecord, UpdateResume, UpdateSend,
       UpdateSendFails, UpdatePause, Block, HookPauses, HookSendFails, ReceiveMessage,
       ReceiveRestart, LatePause, RequestUpdated, IncomingResponse, RestartPull,
       RestartPush, ReceivePush, ReceivePull, Starts
  <2>2. used \in [calls : Nat, restarts : Nat, failures : Nat, stamp : Nat]
    BY Zenon
  <2> HIDE DEF Types, Plain
  <2>3. CASE used' = [used EXCEPT !.calls = @ + 1, !.stamp = @ + 1]
    <3> DEFINE counted == [used EXCEPT !.calls = @ + 1]
    <3>1. counted \in [calls : Nat, restarts : Nat, failures : Nat, stamp : Nat]
      BY <2>2
    <3>2. used' = [counted EXCEPT !.stamp = @ + 1]
      BY <2>2, <2>3, Zenon
    <3> HIDE DEF counted
    <3> QED
      BY <3>1, <3>2
  <2>4. CASE used' = [used EXCEPT !.stamp = @ + 1]
    BY <2>2, <2>4
  <2>5. CASE used' = [used EXCEPT !.failures = @ + 1]
    BY <2>2, <2>5
  <2>6. CASE used' = [used EXCEPT !.restarts = @ + 1]
    BY <2>2, <2>6
  <2> QED
    BY <2>1, <2>2, <2>3, <2>4, <2>5, <2>6, Zenon
<1>5. excuses' \in SUBSET {"unsent", "overtaken", "raced", "restarted"}
  <2>1. /\ \A p : Races(p) \subseteq {"raced"}
        /\ \A p, m : Overtaken(p, m) \subseteq {"overtaken"}
    BY Zenon DEF Races, Overtaken
  <2>2. ASSUME NEW ms, NEW unsaid, Reopens(ms, unsaid)
        PROVE  excuses' \in SUBSET {"unsent", "overtaken", "raced", "restarted"}
    BY <2>1, <2>2, Zenon DEF Reopens
  <2>3. ASSUME NEW d \in net, ReceiveMessage(d)
        PROVE  excuses' \in SUBSET {"unsent", "overtaken", "raced", "restarted"}
    BY <2>1, <2>3, Zenon DEF ReceiveMessage
  <2>4. CASE RequestUpdated \/ IncomingResponse
    BY <2>1, <2>4, Zenon DEF RequestUpdated, IncomingResponse
  <2>5. CASE ReceivePush
    BY <2>1, <2>5, Zenon DEF ReceivePush
  <2>6. ASSUME NEW force \in BOOLEAN, ReceivePull(force)
        PROVE  excuses' \in SUBSET {"unsent", "overtaken", "raced", "restarted"}
    BY <2>1, <2>6, Zenon DEF ReceivePull
  <2>7. CASE Block \/ HookPauses \/ LatePause
    BY <2>1, <2>7, Zenon DEF Block, HookPauses, LatePause
  <2> QED
    BY <2>2, <2>3, <2>4, <2>5, <2>6, <2>7, ZenonT(60) DEF Next, PauseTransport, PauseSend,
       PauseSendFails, PauseRecord, ResumeTransport, ResumeRecord, UpdateRead,
       UpdateRecord, UpdateResume, UpdateSend, UpdateSendFails, UpdatePause, HookSendFails,
       ReceiveRestart, RestartPull, RestartPush, Starts
<1> QED
  BY <1>1, <1>2, <1>3, <1>4, <1>5, Zenon

\* What is sent is a message.
LEMMA UpdateIsMsg ==
  /\ \A b \in BOOLEAN, n \in Nat : Update(b, n) \in Msgs
  /\ \A b, n : Update(b, n).paused = b /\ Update(b, n).n = n
  /\ Restart \notin Msgs /\ \A m \in Msgs : m # Restart
  BY DEF Update, Msgs, Restart

\* The next message.
LEMMA NextStamp ==
  ASSUME Types
  PROVE  /\ used.stamp \in Nat /\ used.stamp + 1 \in Nat
         /\ \A b \in BOOLEAN : Update(b, used.stamp + 1) \in Msgs
<1>1. used.stamp \in Nat
  BY Zenon DEF Types, Plain
<1>2. used.stamp + 1 \in Nat
  BY <1>1
<1> QED
  BY <1>1, <1>2, UpdateIsMsg, Zenon

\* A queue with one more message.
LEMMA AppendMsg ==
  ASSUME NEW s \in Seq(Msgs), NEW m \in Msgs
  PROVE  Append(s, m) \in Seq(Msgs) /\ Append(s, m) # << >>
<1>1. Append(s, m) \in Seq(Msgs)
  OBVIOUS
<1>2. Len(Append(s, m)) = Len(s) + 1 /\ Len(s) \in Nat
  OBVIOUS
<1>3. Len(<< >>) = 0
  BY Zenon
<1> QED
  BY <1>1, <1>2, <1>3

DtType ==
  [requesterCancelled : BOOLEAN, xferStarted : BOOLEAN, pendingExtensions : Seq(Msgs)]

\* dtChannel.resume: only a cancelled request keeps the message.
LEMMA ResumeTypes ==
  ASSUME Types, NEW p \in Peers, NEW m \in Msgs, resume(p, m)
  PROVE  /\ gsPaused' \in [Peers -> BOOLEAN]
         /\ ext' \in [Peers -> Seq(Msgs)]
         /\ ext["I"] # << >> => ext'["I"] # << >>
         /\ request = "new" => ext'[requester] = ext[requester]
         /\ dt' \in DtType
         /\ dt'.requesterCancelled = dt.requesterCancelled
         /\ dt.xferStarted => dt'.xferStarted
         /\ dt'.pendingExtensions # << >> => dt'.requesterCancelled
<1>1. dt \in DtType /\ ext \in [Peers -> Seq(Msgs)] /\ gsPaused \in [Peers -> BOOLEAN]
  BY Zenon DEF Types, TypeOK, Queues, DtType, Msgs
<1>2. dt.pendingExtensions # << >> => dt.requesterCancelled
  BY Zenon DEF Types, TypeOK
<1>3. CASE p = server /\ dt.requesterCancelled
  <2>1. Append(dt.pendingExtensions, m) \in Seq(Msgs)
    BY <1>1, AppendMsg, Zenon DEF DtType
  <2> QED
    BY <1>1, <1>2, <1>3, <2>1, Zenon DEF resume, DtType
<1>4. CASE ~(p = server /\ dt.requesterCancelled)
  <2>1. /\ gsPaused' \in [Peers -> BOOLEAN] /\ dt' \in DtType
        /\ dt'.requesterCancelled = dt.requesterCancelled
        /\ dt.xferStarted => dt'.xferStarted
        /\ dt'.pendingExtensions = dt.pendingExtensions
    BY <1>1, <1>4, Zenon DEF resume, DtType
  <2>2. Other(p) \in Peers
    BY TwoPeers, Zenon
  <2>3. Append(ext[Other(p)], m) \in Seq(Msgs) /\ Append(ext[Other(p)], m) # << >>
    BY <1>1, <2>2, AppendMsg, Zenon
  <2>4. /\ ext' \in [Peers -> Seq(Msgs)]
        /\ ext["I"] # << >> => ext'["I"] # << >>
    BY <1>1, <1>4, <2>2, <2>3, ZenonT(60) DEF resume, Peers
  <2>5. request = "new" => ext'[requester] = ext[requester]
    <3>1. request = "new" => Other(p) # requester
      BY <1>4, TwoPeers, Zenon DEF Types, Requests
    <3> QED
      BY <1>1, <1>4, <2>2, <3>1, TwoPeers, Zenon DEF resume
  <2> QED
    BY <1>2, <2>1, <2>4, <2>5, Zenon
<1> QED
  BY <1>3, <1>4, Zenon

\* OpenChannel of a restart: the server has no request until the new one comes.
LEMMA ReopensTypes ==
  ASSUME Types, NEW ms \in Seq(Msgs), NEW unsaid, Reopens(ms, unsaid)
  PROVE  /\ ext' \in [Peers -> Seq(Msgs)] /\ ext'[server] = ms /\ ext'[requester] = << >>
         /\ dt' \in DtType /\ dt'.requesterCancelled /\ dt'.xferStarted = dt.xferStarted
         /\ request' = "new"
         /\ hook' \in {"none", "old"}
<1>1. dt \in DtType
  BY Zenon DEF Types, TypeOK, DtType, Msgs
<1>2. << >> \in Seq(Msgs) /\ server \in Peers /\ requester \in Peers /\ requester # server
  BY TwoPeers
<1> QED
  BY <1>1, <1>2, Zenon DEF Reopens, DtType

\* The end of gsReqRecdHook: what was kept goes out with the response.
LEMMA ServesTypes ==
  ASSUME Types, NEW errPause \in BOOLEAN, NEW ms \in Seq(Msgs), Serves(errPause, ms),
         ~pull => ext[server] # << >>
  PROVE  /\ ext' \in [Peers -> Seq(Msgs)]
         /\ dt' \in DtType /\ ~dt'.requesterCancelled /\ dt'.pendingExtensions = << >>
         /\ dt.xferStarted => dt'.xferStarted
         /\ gsPaused' \in [Peers -> BOOLEAN]
         /\ request' = "open"
<1>1. dt \in DtType /\ ext \in [Peers -> Seq(Msgs)] /\ gsPaused \in [Peers -> BOOLEAN]
  BY Zenon DEF Types, TypeOK, Queues, DtType, Msgs
<1>2. server \in Peers /\ requester \in Peers
  BY TwoPeers, Zenon
<1>3. ms \o dt.pendingExtensions \in Seq(Msgs)
  BY <1>1 DEF DtType
<1>4. (IF pull THEN ext[server] ELSE Tail(ext[server])) \in Seq(Msgs)
  BY <1>1, <1>2, HeadOfExt, Zenon
<1>5. ext' \in [Peers -> Seq(Msgs)]
  BY <1>1, <1>2, <1>3, <1>4, Zenon DEF Serves
<1>6. /\ dt' \in DtType /\ ~dt'.requesterCancelled /\ dt'.pendingExtensions = << >>
      /\ dt.xferStarted => dt'.xferStarted
  BY <1>1 DEF Serves, DtType
<1> QED
  BY <1>1, <1>2, <1>5, <1>6, Zenon DEF Serves

\* A message added to the network.
LEMMA NetAdds ==
  ASSUME Queues, pull' = pull, NEW d, NetFits(d), net' = net \cup {d}
  PROVE  \A e \in net' : NetFits(e)'
  BY Zenon DEF Queues, NetFits

\* The two ends of the request, the queues on it and what the server keeps.
EndTypes ==
  /\ gsPaused \in [Peers -> BOOLEAN]
  /\ dt \in DtType
  /\ dt.pendingExtensions # << >> => dt.requesterCancelled
  /\ ext \in [Peers -> Seq(Msgs)]
  /\ Requests

\* The ends of the request, by what an action does to them.
LEMMA NextEndTypes == ASSUME Types, Next PROVE EndTypes'
<1>0. EndTypes
  BY Zenon DEF Types, TypeOK, Queues, EndTypes, DtType, Msgs
<1>1. ASSUME NEW p \in Peers, NEW m \in Msgs, resume(p, m), UNCHANGED <<pull, request, hook>>
      PROVE  EndTypes'
  BY <1>0, <1>1, ResumeTypes, Zenon DEF EndTypes, Requests, requester, server
<1>2. ASSUME NEW p \in Peers, pause(p), UNCHANGED <<pull, request, hook, dt, ext>>
      PROVE  EndTypes'
  <2>1. gsPaused' \in [Peers -> BOOLEAN]
    BY <1>0, <1>2, Zenon DEF pause, EndTypes
  <2> QED
    BY <1>0, <1>2, <2>1, Zenon DEF EndTypes, Requests, requester, server
<1>3. CASE UNCHANGED <<pull, request, hook, dt, ext, gsPaused>>
  BY <1>0, <1>3, Zenon DEF EndTypes, Requests, requester, server
<1>4. ASSUME NEW p \in Peers,
             PauseTransport(p) \/ PauseSend(p) \/ PauseSendFails(p) \/ PauseRecord(p)
               \/ ResumeRecord(p)
      PROVE  EndTypes'
  BY <1>2, <1>3, <1>4, Zenon
     DEF PauseTransport, PauseSend, PauseSendFails, PauseRecord, ResumeRecord
<1>5. ASSUME NEW p \in Peers, ResumeTransport(p) PROVE EndTypes'
  <2>1. Update(FALSE, used.stamp + 1) \in Msgs
    BY NextStamp, Zenon
  <2> QED
    BY <1>1, <1>5, <2>1, Zenon DEF ResumeTransport
<1>6. CASE UpdateResume
  <2>1. Update(FALSE, call["R"].n) \in Msgs /\ "R" \in Peers
    BY UpdateIsMsg, Zenon DEF Types, CallsFit, Calls, Peers
  <2> QED
    BY <1>1, <1>6, <2>1, Zenon DEF UpdateResume
<1>7. CASE UpdatePause
  BY <1>2, <1>7, Zenon DEF UpdatePause, Peers
<1>8. ASSUME LatePause PROVE EndTypes'
  BY <1>2, <1>8, Zenon DEF LatePause, Peers
<1>9. CASE Block
  BY <1>0, <1>9, Zenon DEF Block, EndTypes, Requests, Flows, requester, server
<1>10. CASE HookPauses
  <2>1. Update(TRUE, used.stamp + 1) \in Msgs /\ "I" \in Peers /\ "R" \in Peers
    BY NextStamp, Zenon DEF Peers
  <2>2. /\ Append(ext["I"], Update(TRUE, used.stamp + 1)) \in Seq(Msgs)
        /\ Append(ext["I"], Update(TRUE, used.stamp + 1)) # << >>
    BY <1>0, <2>1, AppendMsg, Zenon DEF EndTypes
  <2>3. gsPaused' \in [Peers -> BOOLEAN] /\ ext' \in [Peers -> Seq(Msgs)]
    BY <1>0, <1>10, <2>1, <2>2, Zenon DEF HookPauses, EndTypes
  <2>4. Requests'
    BY <1>0, <1>10, <2>1, <2>2, Zenon DEF HookPauses, EndTypes, Requests, requester, server
  <2> QED
    BY <1>0, <1>10, <2>3, <2>4, Zenon DEF HookPauses, EndTypes
<1>11. CASE HookSendFails
  BY <1>0, <1>11, Zenon DEF HookSendFails, EndTypes, Requests, requester, server
<1>12. CASE RequestUpdated \/ IncomingResponse
  <2>1. ext' \in [Peers -> Seq(Msgs)]
    <3>1. PICK q \in Peers : ext[q] # << >> /\ ext' = [ext EXCEPT ![q] = Tail(@)]
      BY <1>12, TwoPeers, Zenon DEF RequestUpdated, IncomingResponse
    <3>2. Tail(ext[q]) \in Seq(Msgs)
      BY <3>1, HeadOfExt, Zenon
    <3> QED
      BY <1>0, <3>1, <3>2, Zenon DEF EndTypes
  <2>2. Requests'
    BY <1>0, <1>12, Zenon DEF RequestUpdated, IncomingResponse, EndTypes, Requests,
       requester, server
  <2> QED
    BY <1>0, <1>12, <2>1, <2>2, Zenon DEF RequestUpdated, IncomingResponse, EndTypes
<1>13. CASE RestartPull
  <2>1. gsPaused' \in [Peers -> BOOLEAN]
    BY <1>0, <1>13, Zenon DEF RestartPull, EndTypes
  <2>3. << >> \in Seq(Msgs)
    OBVIOUS
  <2>2. Reopens(<< >>, rec["I"].self)
    BY <1>13, Zenon DEF RestartPull
  <2> QED
    BY <1>0, <1>13, <2>1, <2>2, <2>3, ReopensTypes, Zenon DEF RestartPull, EndTypes, Requests,
       requester, server
<1>14. ASSUME NEW d \in net, NEW force \in BOOLEAN, ReceiveRestart(d, force)
       PROVE  EndTypes'
  <2> DEFINE stays == LeaveRequestPaused(force, data.limit)
             ms == <<Update(stays, used.stamp + 1)>>
  <2>1. stays \in BOOLEAN
    BY Zenon DEF LeaveRequestPaused
  <2>2. Update(stays, used.stamp + 1) \in Msgs
    BY <2>1, NextStamp, Zenon
  <2>3. ms \in Seq(Msgs) /\ ms # << >>
    BY <2>2
  <2>4. Reopens(ms, stays /\ ~force) /\ pull' = pull
    BY <1>14, Zenon DEF ReceiveRestart
  <2>5. gsPaused' \in [Peers -> BOOLEAN]
    BY <1>0, <1>14, Zenon DEF ReceiveRestart, EndTypes
  <2>6. server = "I" \/ pull
    BY Zenon DEF server
  <2> HIDE DEF ms, stays
  <2> QED
    BY <1>0, <2>3, <2>4, <2>5, <2>6, ReopensTypes, Zenon DEF EndTypes, Requests, requester,
       server
<1>15. ASSUME NEW force \in BOOLEAN, ReceivePull(force) PROVE EndTypes'
  <2> DEFINE stays == LeaveRequestPaused(force, data.limit)
             ms == <<Update(stays, used.stamp + 1)>>
  <2>1. stays \in BOOLEAN
    BY Zenon DEF LeaveRequestPaused
  <2>2. Update(stays, used.stamp + 1) \in Msgs
    BY <2>1, NextStamp, Zenon
  <2>3. ms \in Seq(Msgs)
    BY <2>2
  <2>4. Serves(force, ms) /\ UNCHANGED <<pull, hook>> /\ pull
    BY <1>15, Zenon DEF ReceivePull
  <2> HIDE DEF ms, stays
  <2> QED
    BY <1>0, <2>3, <2>4, ServesTypes, Zenon DEF EndTypes, Requests, requester, server
<1>16. CASE ReceivePush
  <2>1. /\ Serves(ErrPause("I", Head(ext["I"])), << >>)
        /\ UNCHANGED <<pull, hook>> /\ ~pull /\ request = "new"
    BY <1>16, Zenon DEF ReceivePush
  <2>2. ext["I"] # << >> /\ server = "I"
    BY <1>0, <2>1, Zenon DEF EndTypes, Requests, server
  <2>3. << >> \in Seq(Msgs) /\ ErrPause("I", Head(ext["I"])) \in BOOLEAN
    BY DEF ErrPause
  <2> QED
    BY <1>0, <2>1, <2>2, <2>3, ServesTypes, Zenon DEF EndTypes, Requests, requester, server
<1> QED
  BY <1>3, <1>4, <1>5, <1>6, <1>7, <1>8, <1>9, <1>10, <1>11, <1>12, <1>13, <1>14,
     <1>15, <1>16, Zenon
     DEF Next, UpdateRead, UpdateRecord, UpdateSend, UpdateSendFails,
         ReceiveMessage, RestartPush

\* Pausing and resuming change one record.
LEMMA NextTypeOK == ASSUME Types, Next PROVE TypeOK'
<1> DEFINE RecType == [Peers -> [self : BOOLEAN, other : BOOLEAN]]
<1>1. rec' \in RecType
  <2>1. rec \in RecType /\ \A p \in Peers : rec[p] \in [self : BOOLEAN, other : BOOLEAN]
    BY Zenon DEF Types, TypeOK
  <2>2. ASSUME NEW p \in Peers, NEW b \in BOOLEAN, rec' = [rec EXCEPT ![p].self = b]
        PROVE  rec' \in RecType
    BY <2>1, <2>2, Zenon
  <2>3. ASSUME NEW p \in Peers, NEW m \in Msgs, Records(p, m)
        PROVE  rec' \in RecType
    BY <2>1, <2>3, Zenon DEF Records, Msgs
  <2>4. CASE UNCHANGED rec
    BY <2>1, <2>4, Zenon
  <2>5. ASSUME NEW p \in Peers, PauseRecord(p) \/ ResumeRecord(p) PROVE rec' \in RecType
    BY <2>2, <2>5, Zenon DEF PauseRecord, ResumeRecord
  <2>6. CASE UpdateRecord
    <3>1. call["R"].stays \in BOOLEAN /\ "R" \in Peers
      BY Zenon DEF Types, CallsFit, Calls, Peers
    <3> QED
      BY <2>2, <2>4, <2>6, <3>1, Zenon DEF UpdateRecord
  <2>7. CASE Block
    BY <2>2, <2>4, <2>7, Zenon DEF Block, Peers
  <2>8. ASSUME NEW force \in BOOLEAN,
               ReceivePull(force) \/ \E d \in net : ReceiveRestart(d, force)
        PROVE  rec' \in RecType
    <3>1. LeaveRequestPaused(force, data.limit) \in BOOLEAN
      BY Zenon DEF LeaveRequestPaused
    <3> QED
      BY <2>2, <2>8, <3>1, Zenon DEF ReceivePull, ReceiveRestart, Peers
  <2>9. ASSUME NEW d \in net, ReceiveMessage(d) PROVE rec' \in RecType
    BY <2>3, <2>9, NetUpdate, Zenon DEF ReceiveMessage
  <2>10. CASE RequestUpdated \/ IncomingResponse
    BY <2>3, <2>10, TwoPeers, HeadOfExt, Zenon DEF RequestUpdated, IncomingResponse
  <2>11. CASE ReceivePush
    BY <2>3, <2>11, HeadOfExt, Zenon DEF ReceivePush, Types, Requests, Peers
  <2> HIDE DEF RecType
  <2> QED
    BY <2>4, <2>5, <2>6, <2>7, <2>8, <2>9, <2>10, <2>11, Zenon
       DEF Next, PauseTransport, PauseSend, PauseSendFails, ResumeTransport,
           UpdateRead, UpdateResume, UpdateSend, UpdateSendFails, UpdatePause,
           HookPauses, HookSendFails, LatePause, RestartPull, RestartPush
<1>2. /\ request' \in {"open", "new", "failed"}
      /\ hook' \in {"none", "current", "old"}
  BY ZenonT(60) DEF Next, PauseTransport, PauseSend, PauseSendFails, PauseRecord,
     ResumeTransport,
     ResumeRecord, UpdateRead, UpdateRecord, UpdateResume, UpdateSend, UpdateSendFails,
     UpdatePause, Block, HookPauses, HookSendFails, ReceiveMessage, ReceiveRestart,
     LatePause, RequestUpdated, IncomingResponse, RestartPull, RestartPush, ReceivePush,
     ReceivePull, Reopens, Serves, Types, TypeOK
<1> QED
  BY <1>1, <1>2, NextEndTypes, Zenon DEF TypeOK, EndTypes, DtType, Msgs

\* The messages of the network.
LEMMA NextNet == ASSUME Types, Next PROVE \A d \in net' : NetFits(d)'
<1>1. Queues /\ pull' = pull
  BY Zenon DEF Types, Next, PauseTransport, PauseSend, PauseSendFails, PauseRecord,
     ResumeTransport, ResumeRecord, UpdateRead, UpdateRecord, UpdateResume, UpdateSend,
     UpdateSendFails, UpdatePause, Block, HookPauses, HookSendFails, ReceiveMessage,
     ReceiveRestart, LatePause, RequestUpdated, IncomingResponse, RestartPull, RestartPush,
     ReceivePush, ReceivePull
<1>2. ASSUME NEW q \in Peers, NEW b \in BOOLEAN, NEW n \in Nat, b \/ q = "I",
             net' = net \cup {[to |-> q, msg |-> Update(b, n)]}
      PROVE  \A d \in net' : NetFits(d)'
  <2>1. NetFits([to |-> q, msg |-> Update(b, n)])
    BY <1>2, UpdateIsMsg, Zenon DEF NetFits
  <2> QED
    BY <1>1, <1>2, <2>1, NetAdds, Zenon
<1>3. CASE net' \subseteq net
  BY <1>1, <1>3, Zenon DEF Queues, NetFits
<1>4. ASSUME NEW p \in Peers, PauseSend(p) PROVE \A d \in net' : NetFits(d)'
  <2>1. call[p].n \in Nat /\ Other(p) \in Peers
    BY TwoPeers, Zenon DEF Types, CallsFit, Calls
  <2> QED
    BY <1>2, <1>4, <2>1, Zenon DEF PauseSend
<1>5. CASE UpdateSend
  <2>1. call["R"].n \in Nat /\ call["R"].stays \in BOOLEAN /\ "I" \in Peers
    BY Zenon DEF Types, CallsFit, Calls, Peers
  <2> QED
    BY <1>2, <1>5, <2>1, Zenon DEF UpdateSend
<1>6. CASE HookPauses
  <2>1. used.stamp + 1 \in Nat /\ "I" \in Peers
    BY NextStamp, Zenon DEF Peers
  <2> QED
    BY <1>2, <1>3, <1>6, <2>1, Zenon DEF HookPauses
<1>7. CASE RestartPush
  <2>1. NetFits([to |-> "R", msg |-> Restart])
    BY <1>7, Zenon DEF RestartPush, NetFits, Peers
  <2> QED
    BY <1>1, <1>7, <2>1, NetAdds, Zenon DEF RestartPush
<1>8. ASSUME NEW d \in net, NEW force \in BOOLEAN, ReceiveMessage(d) \/ ReceiveRestart(d, force)
      PROVE  net' \subseteq net
  BY <1>8, Zenon DEF ReceiveMessage, ReceiveRestart
<1> QED
  BY <1>3, <1>4, <1>5, <1>6, <1>7, <1>8, Zenon
     DEF Next, PauseTransport, PauseSendFails, PauseRecord, ResumeTransport, ResumeRecord,
        UpdateRead, UpdateRecord, UpdateResume, UpdateSendFails, UpdatePause, Block,
        HookSendFails, LatePause, RequestUpdated, IncomingResponse, RestartPull,
        ReceivePush, ReceivePull

\* Every step keeps the types.
LEMMA NextTypes == Types /\ [Next]_vars => Types'
<1>1. ASSUME Types, Next PROVE Types'
  BY <1>1, NextTypeOK, NextPlain, NextEndTypes, NextNet, NextCallsFit, Zenon
     DEF Types, Queues, EndTypes
<1>2. ASSUME Types, UNCHANGED vars PROVE Types'
  BY <1>2, Zenon DEF vars, Types, TypeOK, Plain, Queues, NetFits, CallsFit, CallFits, Requests,
     requester, server
<1> QED
  BY <1>1, <1>2, Zenon

\* The types hold in every state.
LEMMA TypesInvariance == Spec => []Types
  BY InitTypes, NextTypes, PTL DEF Spec

\* Type correctness, for every number of calls, restarts, failures and blocks
\* and all limits: what the peers record, the ends of the request, and the
\* messages the server keeps, which it has only while the requester is gone
\* (resume, gsDataRequestRcvd).
THEOREM TypeCorrect == Spec => []TypeOK
<1>1. Types => TypeOK
  BY Zenon DEF Types
<1> QED
  BY <1>1, TypesInvariance, PTL
-----------------------------------------------------------------------------
(* The transport does what is recorded: the proof *)

\* Nothing that was excused is forgotten.
LEMMA ExcusesGrow == ASSUME Types, Next PROVE excuses \subseteq excuses'
  BY ZenonT(60) DEF Next, PauseTransport, PauseSend, PauseSendFails, PauseRecord,
     ResumeTransport,
     ResumeRecord, UpdateRead, UpdateRecord, UpdateResume, UpdateSend, UpdateSendFails,
     UpdatePause, Block, HookPauses, HookSendFails, ReceiveMessage, ReceiveRestart,
     LatePause, RequestUpdated, IncomingResponse, RestartPull, RestartPush, ReceivePush,
     ReceivePull, Starts, Reopens

\* Where nothing raced, a hook, a handler or a restart decides without a call of
\* that peer's user, and such a call starts while none of them decides.
LEMMA NotRaced ==
  ASSUME InOrderOrNot', NEW p
  PROVE  /\ Races(p) \subseteq excuses' => call[p] = NoCall
         /\ "raced" \notin excuses' /\ "unsent" \notin excuses' /\ "restarted" \notin excuses'
  BY Zenon DEF InOrderOrNot, Races

\* What Agreeing needs of the types.
LEMMA AgreeTypes ==
  ASSUME Types
  PROVE  /\ rec \in [Peers -> [self : BOOLEAN, other : BOOLEAN]]
         /\ gsPaused \in [Peers -> BOOLEAN]
         /\ call \in [Peers -> Calls]
         /\ \A p \in Peers : call[p].op = "none" <=> call[p] = NoCall
         /\ dt.requesterCancelled <=> request = "new"
  BY NoCallFits, Zenon DEF Types, TypeOK, CallsFit, Requests

\* A call of peer p that touches nothing but its own call, record and end.
OnlyOwn(p) ==
  /\ UNCHANGED <<pull, request, hook, late>>
  /\ \A q \in Peers : q # p => UNCHANGED <<call[q], rec[q].self, gsPaused[q]>>

\* Such a call keeps what is known of the other peer and of hooks and receivers,
\* if none of them decides at p.
LEMMA OwnAgrees ==
  ASSUME Types, Agreeing, NEW p \in Peers, OnlyOwn(p), ~Deciding(p),
         UNCHANGED data \/ hook = "none",
         Acts(p) => EndFits(p)'
  PROVE  Agreeing'
<1>1. ASSUME NEW q \in Peers, Acts(q)' PROVE EndFits(q)'
  <2>1. Acts(q)
    BY <1>1, Zenon DEF OnlyOwn, Acts, requester, server
  <2>2. CASE q = p
    BY <2>1, <2>2, Zenon
  <2>3. CASE q # p
    BY <1>1, <2>1, <2>3 DEF Agreeing, EndFits, OnlyOwn
  <2> QED
    BY <2>2, <2>3, Zenon
<1>2. HookFits'
  BY Zenon DEF Agreeing, HookFits, OnlyOwn, Deciding, Peers
<1>3. LateFits'
  BY Zenon DEF Agreeing, LateFits, OnlyOwn, Deciding, Peers
<1> QED
  BY <1>1, <1>2, <1>3, Zenon DEF Agreeing

\* A call on its way has no hook or receiver deciding beside it.
LEMMA CallAlone ==
  ASSUME Types, Agreeing, NEW p \in Peers, call[p].op # "none"
  PROVE  ~Deciding(p)
  BY Zenon DEF Agreeing, HookFits, LateFits, Deciding

\* PauseDataTransferChannel and ResumeDataTransferChannel.
LEMMA CallAgrees ==
  ASSUME Types, Agreeing, InOrderOrNot', NEW p \in Peers,
         PauseTransport(p) \/ PauseSend(p) \/ PauseSendFails(p) \/ PauseRecord(p)
           \/ ResumeTransport(p) \/ ResumeRecord(p)
  PROVE  Agreeing'
<1> USE AgreeTypes
<1>1. CASE PauseTransport(p)
  <2>1. OnlyOwn(p) /\ UNCHANGED data
    BY <1>1, Zenon DEF PauseTransport, Starts, pause, OnlyOwn
  <2>2. ~Deciding(p)
    BY <1>1, NotRaced, Zenon DEF PauseTransport, Starts
  <2>3. ASSUME Acts(p) PROVE EndFits(p)'
    <3>1. gsPaused'[p] = TRUE
      BY <1>1, <2>3, TwoPeers, Zenon DEF PauseTransport, pause, Acts
    <3>2. call'[p].op = "pause"
      BY <1>1, Zenon DEF PauseTransport, Starts, Calls
    <3> QED
      BY <3>1, <3>2, Zenon DEF EndFits
  <2> QED
    BY <2>1, <2>2, <2>3, OwnAgrees, Zenon
<1>2. CASE PauseSend(p)
  <2>1. OnlyOwn(p) /\ UNCHANGED data
    BY <1>2, Zenon DEF PauseSend, Goes, OnlyOwn
  <2>2. ~Deciding(p)
    BY <1>2, CallAlone, Zenon DEF PauseSend, Goes
  <2>3. ASSUME Acts(p) PROVE EndFits(p)'
    <3>1. gsPaused'[p] /\ call'[p].op = "pause"
      BY <1>2, <2>3 DEF PauseSend, Goes, Agreeing, EndFits, Calls
    <3> QED
      BY <3>1, Zenon DEF EndFits
  <2> QED
    BY <2>1, <2>2, <2>3, OwnAgrees, Zenon
<1>3. CASE PauseSendFails(p)
  BY <1>3, NotRaced, Zenon DEF PauseSendFails
<1>4. CASE PauseRecord(p)
  <2>1. OnlyOwn(p) /\ UNCHANGED data
    BY <1>4, Zenon DEF PauseRecord, Ends, OnlyOwn
  <2>2. ~Deciding(p)
    BY <1>4, CallAlone, Zenon DEF PauseRecord, Ends
  <2>3. ASSUME Acts(p) PROVE EndFits(p)'
    <3>1. gsPaused'[p] /\ rec'[p].self = TRUE /\ call'[p].op = "none"
      BY <1>4, <2>3, NoCallFits DEF PauseRecord, Ends, Agreeing, EndFits
    <3> QED
      BY <1>4, <3>1, Zenon DEF EndFits, PauseRecord
  <2> QED
    BY <2>1, <2>2, <2>3, OwnAgrees, Zenon
<1>5. CASE ResumeTransport(p)
  <2>1. OnlyOwn(p) /\ UNCHANGED data
    BY <1>5, Zenon DEF ResumeTransport, Starts, resume, OnlyOwn
  <2>2. ~Deciding(p)
    BY <1>5, NotRaced, Zenon DEF ResumeTransport, Starts
  <2>3. ASSUME Acts(p) PROVE EndFits(p)'
    <3>1. gsPaused'[p] = FALSE
      BY <1>5, <2>3, TwoPeers, Zenon DEF ResumeTransport, resume, Acts
    <3>2. call'[p].op = "resume"
      BY <1>5, Zenon DEF ResumeTransport, Starts, Calls
    <3> QED
      BY <3>1, <3>2, Zenon DEF EndFits
  <2> QED
    BY <2>1, <2>2, <2>3, OwnAgrees, Zenon
<1>6. CASE ResumeRecord(p)
  <2>1. OnlyOwn(p) /\ UNCHANGED data
    BY <1>6, Zenon DEF ResumeRecord, Ends, OnlyOwn
  <2>2. ~Deciding(p)
    BY <1>6, CallAlone, Zenon DEF ResumeRecord, Ends
  <2>3. ASSUME Acts(p) PROVE EndFits(p)'
    <3>1. gsPaused'[p] = FALSE /\ rec'[p].self = FALSE /\ call'[p].op = "none"
      BY <1>6, <2>3, NoCallFits DEF ResumeRecord, Ends, Agreeing, EndFits
    <3> QED
      BY <1>6, <3>1, Zenon DEF EndFits, ResumeRecord
  <2> QED
    BY <2>1, <2>2, <2>3, OwnAgrees, Zenon
<1> QED
  BY <1>1, <1>2, <1>3, <1>4, <1>5, <1>6, Zenon

\* UpdateValidationStatus.
LEMMA UpdateAgrees ==
  ASSUME Types, Agreeing, InOrderOrNot',
         \/ \E force \in BOOLEAN, limit \in Limits : UpdateRead(force, limit)
         \/ UpdateRecord \/ UpdateResume \/ UpdateSend \/ UpdateSendFails \/ UpdatePause
  PROVE  Agreeing'
<1> USE AgreeTypes
<1> DEFINE u == call["R"]
<1>0. /\ "R" \in Peers /\ u \in Calls
      /\ u.op = "validate" /\ u.step = 3 => u.stays /\ ~u.paused
  BY Zenon DEF Types, CallsFit, CallFits, Peers
<1>1. ASSUME NEW force \in BOOLEAN, NEW limit \in Limits, UpdateRead(force, limit)
      PROVE  Agreeing'
  <2>1. OnlyOwn("R") /\ UNCHANGED <<data, rec, gsPaused>>
    BY <1>1, Zenon DEF UpdateRead, OnlyOwn
  <2>2. ~Deciding("R") /\ u = NoCall
    BY <1>1, NotRaced, Zenon DEF UpdateRead
  <2>3. ASSUME Acts("R") PROVE EndFits("R")'
    <3>1. gsPaused["R"] = rec["R"].self
      BY <1>0, <2>2, <2>3, NoCallFits, Zenon DEF Agreeing, EndFits, Deciding
    <3>2. u'.op = "validate" /\ u'.step = 1 /\ u'.paused = rec["R"].self
      BY <1>0, <1>1, Zenon DEF UpdateRead
    <3> QED
      BY <2>1, <3>1, <3>2 DEF EndFits
  <2> QED
    BY <1>0, <2>1, <2>2, <2>3, OwnAgrees, Zenon
<1>2. CASE UpdateRecord
  <2>1. OnlyOwn("R") /\ UNCHANGED gsPaused
    BY <1>2, Zenon DEF UpdateRecord, Goes, OnlyOwn
  <2>2. ~Deciding("R") /\ u.op = "validate" /\ u.step = 1
    BY <1>0, <1>2, CallAlone, Zenon DEF UpdateRecord, Goes
  <2>3. ASSUME Acts("R") PROVE EndFits("R")'
    <3>1. gsPaused["R"] = u.paused /\ rec["R"].self = u.paused
      BY <1>0, <2>2, <2>3, Zenon DEF Agreeing, EndFits
    <3>2. /\ u'.op = "validate" /\ u'.step = 2 /\ u'.paused = u.paused /\ u'.stays = u.stays
          /\ rec'["R"].self = u.stays
      BY <1>0, <1>2, <3>1 DEF UpdateRecord, Goes, Calls
    <3> QED
      BY <2>1, <3>1, <3>2 DEF EndFits
  <2> QED
    BY <1>0, <2>1, <2>2, <2>3, OwnAgrees, Zenon DEF Deciding
<1>3. CASE UpdateResume
  <2>1. OnlyOwn("R") /\ UNCHANGED <<data, rec>>
    BY <1>3, Zenon DEF UpdateResume, Ends, resume, OnlyOwn
  <2>2. ~Deciding("R") /\ u.op = "validate" /\ u.step = 2 /\ ~u.stays
    BY <1>0, <1>3, CallAlone, Zenon DEF UpdateResume, Ends
  <2>3. ASSUME Acts("R") PROVE EndFits("R")'
    <3>1. gsPaused'["R"] = FALSE
      BY <1>0, <1>3, <2>3, TwoPeers, Zenon DEF UpdateResume, resume, Acts
    <3>2. rec["R"].self = FALSE
      BY <1>0, <2>2, <2>3, Zenon DEF Agreeing, EndFits, Calls
    <3>3. u'.op = "none"
      BY <1>0, <1>3, NoCallFits, Zenon DEF UpdateResume, Ends
    <3> QED
      BY <2>1, <3>1, <3>2, <3>3, Zenon DEF EndFits
  <2> QED
    BY <1>0, <2>1, <2>2, <2>3, OwnAgrees, Zenon
<1>4. CASE UpdateSend
  <2>1. OnlyOwn("R") /\ UNCHANGED <<data, rec, gsPaused>>
    BY <1>4, Zenon DEF UpdateSend, Goes, Ends, OnlyOwn
  <2>2. ~Deciding("R") /\ u.op = "validate" /\ u.step = 2
    BY <1>0, <1>4, CallAlone, Zenon DEF UpdateSend, Goes, Ends
  <2>3. ASSUME Acts("R") PROVE EndFits("R")'
    <3>1. gsPaused["R"] = u.paused /\ rec["R"].self = u.stays
      BY <1>0, <2>2, <2>3, Zenon DEF Agreeing, EndFits
    <3>2. CASE u.stays /\ ~u.paused
      <4>1. u'.op = "validate" /\ u'.step = 3 /\ u'.stays = u.stays
        <5>1. Goes("R", "validate", 2)
          BY <1>4, <3>2, Zenon DEF UpdateSend
        <5> QED
          BY <1>0, <5>1 DEF Goes, Calls
      <4> QED
        BY <2>1, <3>1, <4>1 DEF EndFits
    <3>3. CASE ~(u.stays /\ ~u.paused)
      <4>1. u'.op = "none"
        <5>1. Ends("R", "validate", 2)
          BY <1>4, <3>3, Zenon DEF UpdateSend
        <5> QED
          BY <1>0, <5>1, NoCallFits, Zenon DEF Ends
      <4>2. u.stays = u.paused
        <5>1. u.stays \in BOOLEAN /\ u.paused \in BOOLEAN
          BY <1>0, Zenon DEF Calls
        <5>2. u.stays \/ ~u.paused
          BY <1>4, Zenon DEF UpdateSend
        <5> HIDE DEF u
        <5> QED
          BY <3>3, <5>1, <5>2, Zenon
      <4> QED
        BY <2>1, <3>1, <4>1, <4>2, Zenon DEF EndFits
    <3> QED
      BY <3>2, <3>3, Zenon
  <2> QED
    BY <1>0, <2>1, <2>2, <2>3, OwnAgrees, Zenon
<1>5. CASE UpdateSendFails
  BY <1>5, NotRaced, Zenon DEF UpdateSendFails
<1>6. CASE UpdatePause
  <2>1. OnlyOwn("R") /\ UNCHANGED <<data, rec>>
    BY <1>6, Zenon DEF UpdatePause, Ends, pause, OnlyOwn
  <2>2. ~Deciding("R") /\ u.op = "validate" /\ u.step = 3
    BY <1>0, <1>6, CallAlone, Zenon DEF UpdatePause, Ends
  <2>3. ASSUME Acts("R") PROVE EndFits("R")'
    <3>1. gsPaused'["R"] = TRUE
      BY <1>0, <1>6, <2>3, TwoPeers, Zenon DEF UpdatePause, pause, Acts
    <3>2. rec["R"].self = TRUE
      BY <1>0, <2>2, <2>3, Zenon DEF Agreeing, EndFits, Calls
    <3>3. u'.op = "none"
      BY <1>0, <1>6, NoCallFits, Zenon DEF UpdatePause, Ends
    <3> QED
      BY <2>1, <3>1, <3>2, <3>3, Zenon DEF EndFits
  <2> QED
    BY <1>0, <2>1, <2>2, <2>3, OwnAgrees, Zenon
<1> QED
  BY <1>1, <1>2, <1>3, <1>4, <1>5, <1>6, Zenon

\* The block hook of the responder, and the receiver of the initiator.
LEMMA HookAgrees ==
  ASSUME Types, Agreeing, InOrderOrNot', Block \/ HookPauses \/ HookSendFails \/ LatePause
  PROVE  Agreeing'
<1> USE AgreeTypes
<1>0. "R" \in Peers /\ "I" \in Peers /\ \A p \in Peers : p = "I" \/ p = "R"
  BY Zenon DEF Peers
<1>1. CASE Block
  <2> DEFINE exceeded == data.limit # 0 /\ data.count + 1 >= data.limit
  <2>1. data.count \in Nat /\ data.limit \in Nat
    BY Zenon DEF Types, Plain
  <2>2. CASE ~exceeded
    <3>1. /\ UNCHANGED <<pull, request, call, rec, gsPaused, late>>
          /\ hook = "none" /\ hook' = "none"
      BY <1>1, <2>2, Zenon DEF Block
    <3> QED
      BY <3>1, Zenon DEF Agreeing, Acts, EndFits, HookFits, LateFits, requester, server
  <2>3. CASE exceeded
    <3>1. /\ UNCHANGED <<pull, request, call, gsPaused, late>>
          /\ rec' = [rec EXCEPT !["R"].self = TRUE]
          /\ hook = "none" /\ hook' = "current"
          /\ data' = [data EXCEPT !.count = @ + 1]
      BY <1>1, <2>3, Zenon DEF Block
    <3>2. call["R"] = NoCall
      BY <1>1, <2>3, NotRaced, Zenon DEF Block
    <3>3. HookFits'
      <4>1. data'.limit = data.limit /\ data'.count = data.count + 1
        BY <3>1, Zenon DEF Types, Plain
      <4>2. call'["R"].op = "none" /\ rec'["R"].self = TRUE
        BY <1>0, <3>1, <3>2, NoCallFits, Zenon
      <4> QED
        BY <2>1, <2>3, <4>1, <4>2, Zenon DEF HookFits
    <3>4. LateFits'
      BY <1>0, <3>1, Zenon DEF Agreeing, LateFits
    <3>5. ASSUME NEW p \in Peers, Acts(p)' PROVE EndFits(p)'
      <4>1. Acts(p)
        BY <3>1, <3>5, Zenon DEF Acts, requester, server
      <4>2. CASE p = "R"
        BY <1>0, <3>1, <3>2, <4>2, NoCallFits, Zenon DEF EndFits
      <4>3. CASE p = "I"
        <5>1. UNCHANGED <<call[p], gsPaused[p], rec[p].self>>
          BY <1>0, <3>1, <4>3, Zenon
        <5> QED
          BY <4>1, <4>3, <5>1 DEF Agreeing, EndFits
      <4> QED
        BY <1>0, <4>2, <4>3, Zenon
    <3> QED
      BY <3>3, <3>4, <3>5, Zenon DEF Agreeing
  <2> QED
    BY <2>2, <2>3, Zenon
<1>2. CASE HookPauses
  <2>1. /\ UNCHANGED <<pull, request, call, rec, data, late>>
        /\ hook # "none" /\ hook' = "none"
        /\ gsPaused' = IF hook = "old" THEN gsPaused ELSE [gsPaused EXCEPT !["R"] = TRUE]
    BY <1>2, Zenon DEF HookPauses
  <2>2. call["R"].op = "none" /\ rec["R"].self
    BY <2>1, Zenon DEF Agreeing, HookFits
  <2>3. HookFits' /\ LateFits'
    BY <2>1, Zenon DEF Agreeing, HookFits, LateFits
  <2>4. ASSUME NEW p \in Peers, Acts(p)' PROVE EndFits(p)'
    <3>1. Acts(p)
      BY <2>1, <2>4, Zenon DEF Acts, requester, server
    <3>2. CASE p = "R" /\ hook # "old"
      <4>1. gsPaused'["R"] = TRUE /\ rec'["R"].self = TRUE /\ call'["R"].op = "none"
        BY <1>0, <2>1, <2>2, <3>2, Zenon
      <4> QED
        BY <3>2, <4>1, Zenon DEF EndFits
    <3>3. CASE p # "R" \/ hook = "old"
      <4>1. gsPaused'[p] = gsPaused[p]
        BY <2>1, <3>3, Zenon
      <4> QED
        BY <2>1, <3>1, <3>3, <4>1, Zenon DEF Agreeing, EndFits
    <3> QED
      BY <3>2, <3>3, Zenon
  <2> QED
    BY <2>3, <2>4, Zenon DEF Agreeing
<1>3. CASE HookSendFails
  BY <1>3, NotRaced, Zenon DEF HookSendFails
<1>4. CASE LatePause
  <2>1. /\ UNCHANGED <<pull, request, call, rec, data, hook>> /\ late /\ ~late'
        /\ pause("I")
    BY <1>4, Zenon DEF LatePause
  <2>2. call["I"].op = "none" /\ rec["I"].self
    BY <2>1, Zenon DEF Agreeing, LateFits
  <2>3. HookFits' /\ LateFits'
    BY <2>1, Zenon DEF Agreeing, HookFits, LateFits
  <2>4. ASSUME NEW p \in Peers, Acts(p)' PROVE EndFits(p)'
    <3>1. Acts(p)
      BY <2>1, <2>4, Zenon DEF Acts, requester, server
    <3>2. gsPaused'[p] = gsPaused[p]
      <4>1. CASE p = "I"
        <5>1. gsPaused["I"] = TRUE
          BY <1>0, <2>2, <3>1, <4>1, Zenon DEF Agreeing, EndFits
        <5> QED
          BY <1>0, <2>1, <4>1, <5>1, Zenon DEF pause
      <4>2. CASE p # "I"
        BY <2>1, <4>2, Zenon DEF pause
      <4> QED
        BY <4>1, <4>2, Zenon
    <3> QED
      BY <2>1, <3>1, <3>2, Zenon DEF Agreeing, EndFits
  <2> QED
    BY <2>3, <2>4, Zenon DEF Agreeing
<1> QED
  BY <1>1, <1>2, <1>3, <1>4, Zenon

\* Messages that arrive: a handler records what the other peer does, and never
\* what its own does.
LEMMA MessageAgrees ==
  ASSUME Types, Agreeing, InOrderOrNot',
         RequestUpdated \/ IncomingResponse \/ RestartPush \/ \E d \in net : ReceiveMessage(d)
  PROVE  Agreeing'
<1> USE AgreeTypes
<1>0. ASSUME NEW p, NEW m, Records(p, m) PROVE \A q \in Peers : rec'[q].self = rec[q].self
  BY <1>0, Zenon DEF Records
<1>1. /\ \A q \in Peers : rec'[q].self = rec[q].self
      /\ UNCHANGED <<pull, call, gsPaused, data, hook>>
      /\ request' \in {request, "failed"}
  BY <1>0, Zenon DEF RequestUpdated, IncomingResponse, RestartPush, ReceiveMessage
<1>2. LateFits'
  <2>1. CASE late' = late
    BY <1>1, <2>1, Zenon DEF Agreeing, LateFits, Peers
  <2>2. ASSUME NEW d \in net, ReceiveMessage(d) PROVE LateFits'
    <3>1. CASE ErrPause(d.to, d.msg)
      <4>1. d.to = "I"
        <5>1. ~d.msg.paused /\ d.msg # Restart /\ d.to \in Peers
          BY <2>2, <3>1, NetUpdate, Zenon DEF ReceiveMessage, ErrPause
        <5> QED
          BY <5>1, Zenon DEF Types, Queues, NetFits, Peers
      <4>2. call["I"] = NoCall /\ rec["I"].self
        BY <2>2, <3>1, <4>1, NotRaced, Zenon DEF ReceiveMessage, ErrPause
      <4> QED
        BY <1>1, <4>2, NoCallFits, Zenon DEF LateFits, Peers
    <3>2. CASE ~ErrPause(d.to, d.msg)
      <4>1. late' = late
        BY <2>2, <3>2, Zenon DEF ReceiveMessage, Types, Plain
      <4> QED
        BY <2>1, <4>1, Zenon
    <3> QED
      BY <3>1, <3>2, Zenon
  <2> QED
    BY <2>1, <2>2, Zenon DEF RequestUpdated, IncomingResponse, RestartPush
<1>3. HookFits'
  BY <1>1, Zenon DEF Agreeing, HookFits, Peers
<1>4. ASSUME NEW p \in Peers, Acts(p)' PROVE EndFits(p)'
  <2>1. Acts(p)
    BY <1>1, <1>4, Zenon DEF Acts, requester, server
  <2> QED
    BY <1>1, <2>1 DEF Agreeing, EndFits
<1> QED
  BY <1>2, <1>3, <1>4, Zenon DEF Agreeing

\* The new request of a restart: the requester's end starts as it is recorded,
\* and the server's end does nothing until the request arrives.
LEMMA ReopensAgrees ==
  ASSUME Types, Agreeing, InOrderOrNot',
         RestartPull \/ \E d \in net, force \in BOOLEAN : ReceiveRestart(d, force)
  PROVE  Agreeing'
<1> USE AgreeTypes
<1>0. "R" \in Peers /\ "I" \in Peers /\ \A p \in Peers : p = "I" \/ p = "R"
  BY Zenon DEF Peers
<1>1. ASSUME NEW ms, NEW unsaid, Reopens(ms, unsaid)
      PROVE  /\ call["R"] = NoCall /\ call["I"] = NoCall /\ ~unsaid
             /\ request' = "new" /\ hook' = IF hook = "none" THEN "none" ELSE "old"
  <2>1. /\ Races("R") \subseteq excuses' /\ Races("I") \subseteq excuses'
        /\ unsaid => "restarted" \in excuses'
    BY <1>1, Zenon DEF Reopens
  <2> QED
    BY <1>1, <2>1, NotRaced, Zenon DEF Reopens
<1>2. CASE RestartPull
  <2>1. /\ Reopens(<< >>, rec["I"].self) /\ pull /\ request = "open"
        /\ gsPaused' = [gsPaused EXCEPT !["I"] = FALSE]
        /\ UNCHANGED <<pull, rec, data, call, late>>
    BY <1>2, Zenon DEF RestartPull
  <2>2. /\ call["R"].op = "none" /\ call["I"].op = "none" /\ rec["I"].self = FALSE
        /\ request' = "new" /\ (hook' = "none" <=> hook = "none")
    BY <1>0, <1>1, <2>1, NoCallFits, Zenon
  <2>3. HookFits' /\ LateFits'
    BY <2>1, <2>2, Zenon DEF Agreeing, HookFits, LateFits
  <2>4. ASSUME NEW p \in Peers, Acts(p)' PROVE EndFits(p)'
    <3>1. p = "I"
      BY <1>0, <2>1, <2>2, <2>4, Zenon DEF Acts, requester, server, Other
    <3>2. gsPaused'["I"] = FALSE
      BY <1>0, <2>1, Zenon
    <3> QED
      BY <2>1, <2>2, <3>1, <3>2, Zenon DEF EndFits
  <2> QED
    BY <2>3, <2>4, Zenon DEF Agreeing
<1>3. ASSUME NEW d \in net, NEW force \in BOOLEAN, ReceiveRestart(d, force)
      PROVE  Agreeing'
  <2> DEFINE stays == LeaveRequestPaused(force, data.limit)
  <2>1. /\ Reopens(<<Update(stays, used.stamp + 1)>>, stays /\ ~force)
        /\ rec' = [rec EXCEPT !["R"].self = stays]
        /\ gsPaused' = [gsPaused EXCEPT !["R"] = force]
        /\ UNCHANGED <<pull, data, call, late>>
    BY <1>3, Zenon DEF ReceiveRestart
  <2>2. /\ call["R"].op = "none" /\ call["I"].op = "none" /\ ~(stays /\ ~force)
        /\ request' = "new" /\ hook' \in {"none", "old"} /\ (hook' = "none" <=> hook = "none")
    BY <1>0, <1>1, <2>1, NoCallFits, Zenon
  <2>3. ~pull
    BY <1>3, Zenon DEF ReceiveRestart, Types, Queues, NetFits, Msgs
  <2>4. stays = force
    BY <2>2, Zenon DEF LeaveRequestPaused
  <2>5. hook # "none" => stays
    BY Zenon DEF Agreeing, HookFits, LeaveRequestPaused
  <2> HIDE DEF stays
  <2>6. rec'["R"].self = force /\ gsPaused'["R"] = force /\ rec'["I"].self = rec["I"].self
    BY <1>0, <2>1, <2>4, Zenon
  <2>7. HookFits' /\ LateFits'
    BY <2>1, <2>2, <2>4, <2>5, <2>6, Zenon DEF Agreeing, HookFits, LateFits
  <2>8. ASSUME NEW p \in Peers, Acts(p)' PROVE EndFits(p)'
    <3>1. p = "R"
      BY <1>0, <2>1, <2>2, <2>3, <2>8, Zenon DEF Acts, requester, server, Other
    <3> QED
      BY <2>1, <2>2, <2>6, <3>1, Zenon DEF EndFits
  <2> QED
    BY <2>7, <2>8, Zenon DEF Agreeing
<1> QED
  BY <1>2, <1>3, Zenon

\* The server gets the new request, and its end starts as it is recorded.
LEMMA ServesAgrees ==
  ASSUME Types, Agreeing, InOrderOrNot', ReceivePush \/ \E force \in BOOLEAN : ReceivePull(force)
  PROVE  Agreeing'
<1> USE AgreeTypes
<1>0. "R" \in Peers /\ "I" \in Peers /\ \A p \in Peers : p = "I" \/ p = "R"
  BY Zenon DEF Peers
<1>1. ASSUME NEW force \in BOOLEAN, ReceivePull(force) PROVE Agreeing'
  <2> DEFINE stays == LeaveRequestPaused(force, data.limit)
  <2>1. /\ Serves(force, <<Update(stays, used.stamp + 1)>>) /\ pull /\ request = "new"
        /\ rec' = [rec EXCEPT !["R"].self = stays]
        /\ UNCHANGED <<pull, data, call, late, hook>>
    BY <1>1, Zenon DEF ReceivePull
  <2>2. call["R"] = NoCall /\ (force \/ (~stays /\ dt.xferStarted))
    <3>1. /\ Races("R") \subseteq excuses'
          /\ ~force /\ (stays \/ ~dt.xferStarted) => "restarted" \in excuses'
      BY <1>1, Zenon DEF ReceivePull
    <3> QED
      BY <3>1, NotRaced, Zenon
  <2>3. stays = force /\ (hook # "none" => stays)
    BY <2>2, Zenon DEF LeaveRequestPaused, Agreeing, HookFits
  <2>4. /\ request' = "open" /\ server = "R"
        /\ gsPaused' = [gsPaused EXCEPT !["R"] = force \/ ~dt.xferStarted]
    BY <2>1, Zenon DEF Serves, server
  <2> HIDE DEF stays
  <2>5. /\ gsPaused'["R"] = force /\ rec'["R"].self = force
        /\ gsPaused'["I"] = gsPaused["I"] /\ rec'["I"].self = rec["I"].self
    BY <1>0, <2>1, <2>2, <2>3, <2>4
  <2>6. HookFits' /\ LateFits'
    BY <2>1, <2>3, <2>5, Zenon DEF Agreeing, HookFits, LateFits
  <2>7. ASSUME NEW p \in Peers PROVE EndFits(p)'
    <3>1. CASE p = "R"
      BY <2>1, <2>2, <2>5, <3>1, NoCallFits, Zenon DEF EndFits
    <3>2. CASE p = "I"
      <4>1. Acts("I")
        BY <2>1, <2>4, Zenon DEF Acts, requester, Other
      <4> QED
        BY <1>0, <2>1, <2>5, <3>2, <4>1, Zenon DEF Agreeing, EndFits
    <3> QED
      BY <1>0, <3>1, <3>2, Zenon
  <2> QED
    BY <2>6, <2>7, Zenon DEF Agreeing
<1>2. CASE ReceivePush
  <2> DEFINE m == Head(ext["I"])
  <2>1. /\ Serves(ErrPause("I", m), << >>) /\ ~pull /\ request = "new"
        /\ Records("I", m)
        /\ UNCHANGED <<pull, data, call, late, hook>>
    BY <1>2, Zenon DEF ReceivePush
  <2>2. call["I"] = NoCall /\ ~(m.paused /\ rec["I"].self)
    <3>1. /\ Races("I") \subseteq excuses'
          /\ m.paused /\ rec["I"].self => "restarted" \in excuses'
      BY <1>2, Zenon DEF ReceivePush
    <3> QED
      BY <3>1, NotRaced, Zenon
  <2>3. dt.xferStarted
    BY <2>1, Zenon DEF Types, Requests
  <2>4. /\ request' = "open" /\ server = "I"
        /\ gsPaused' = [gsPaused EXCEPT !["I"] = ErrPause("I", m) \/ ~dt.xferStarted]
    BY <2>1, Zenon DEF Serves, server
  <2>5. rec'["R"].self = rec["R"].self /\ rec'["I"].self = rec["I"].self
    BY <1>0, <2>1 DEF Records
  <2> HIDE DEF m
  <2>6. gsPaused'["R"] = gsPaused["R"] /\ gsPaused'["I"] = rec["I"].self
    BY <1>0, <2>2, <2>3, <2>4, Zenon DEF ErrPause
  <2>7. HookFits' /\ LateFits'
    BY <2>1, <2>5, Zenon DEF Agreeing, HookFits, LateFits
  <2>8. ASSUME NEW p \in Peers PROVE EndFits(p)'
    <3>1. CASE p = "I"
      BY <2>1, <2>2, <2>5, <2>6, <3>1, NoCallFits, Zenon DEF EndFits
    <3>2. CASE p = "R"
      <4>1. Acts("R")
        BY <2>1, <2>4, Zenon DEF Acts, requester, Other
      <4> QED
        BY <1>0, <2>1, <2>5, <2>6, <3>2, <4>1, Zenon DEF Agreeing, EndFits
    <3> QED
      BY <1>0, <3>1, <3>2, Zenon
  <2> QED
    BY <2>7, <2>8, Zenon DEF Agreeing
<1> QED
  BY <1>1, <1>2, Zenon

\* The initial states agree: a transfer that the validator left paused is
\* recorded so at both peers (Init).
LEMMA InitAgrees == Init => AgreeInv
<1> SUFFICES ASSUME Init PROVE Agreeing
  BY Zenon DEF AgreeInv
<1>1. \A p \in Peers : call[p].op = "none"
  BY Zenon DEF Init, NoCall
<1>2. \A p \in Peers : gsPaused[p] = rec[p].self
  BY DEF Init
<1>3. hook = "none" /\ ~late
  BY Zenon DEF Init
<1> QED
  BY <1>1, <1>2, <1>3, Zenon DEF Agreeing, EndFits, HookFits, LateFits

\* Every step keeps the transport in agreement with the records, as long as
\* nothing is excused but messages that overtake one another.
LEMMA NextAgrees == Types /\ AgreeInv /\ [Next]_vars => AgreeInv'
<1>1. ASSUME Types, AgreeInv, Next PROVE AgreeInv'
  <2> SUFFICES ASSUME InOrderOrNot' PROVE Agreeing'
    BY Zenon DEF AgreeInv
  <2>1. Agreeing
    BY <1>1, ExcusesGrow, Zenon DEF AgreeInv, InOrderOrNot
  <2> QED
    BY <1>1, <2>1, CallAgrees, UpdateAgrees, HookAgrees, MessageAgrees, ReopensAgrees,
       ServesAgrees, Zenon DEF Next
<1>2. ASSUME AgreeInv, UNCHANGED vars PROVE AgreeInv'
  BY <1>2, ZenonT(60) DEF vars, AgreeInv, InOrderOrNot, Agreeing, Acts, EndFits, HookFits,
     LateFits,
     requester, server
<1> QED
  BY <1>1, <1>2, Zenon

\* The transport agrees with the records in every state.
LEMMA AgreeInvariance == Spec => []AgreeInv
  BY InitAgrees, NextAgrees, TypesInvariance, PTL DEF Spec

\* However many calls, updates, limits and restarts meet: once all is settled each
\* end of the graphsync request is paused exactly when its peer is recorded
\* paused (TransportAgrees: PauseChannel, ResumeChannel, ErrPause of the hooks).
THEOREM TransportDoesWhatIsRecorded == Spec => []TransportAgrees
<1>1. AgreeInv => TransportAgrees
  BY NoCallFits, Zenon DEF AgreeInv, TransportAgrees, Agreeing, Acts, EndFits, Settled
<1> QED
  BY <1>1, AgreeInvariance, PTL

\* No block moves while a peer is recorded paused, unless a call or a hook of that
\* peer is still at work (NoDataWhilePaused: OnDataQueued, OnDataReceived).
THEOREM PausedMeansNoData == Spec => NoDataWhilePaused
<1> DEFINE Quiet ==
      data'.count # data.count /\ InOrderOrNot =>
        \A p \in Peers : rec[p].self => call[p] # NoCall \/ Deciding(p)
<1>1. ASSUME Types, AgreeInv, Next PROVE Quiet
  <2> SUFFICES ASSUME data'.count # data.count, InOrderOrNot,
                      NEW p \in Peers, rec[p].self, call[p] = NoCall
               PROVE  FALSE
    BY Zenon
  <2>1. Block
    <3>1. ASSUME UpdateRecord PROVE data'.count = data.count
      BY <1>1, <3>1, Zenon DEF UpdateRecord, Types, Plain
    <3> QED
      BY <1>1, <3>1, Zenon DEF Next, PauseTransport, PauseSend, PauseSendFails, PauseRecord,
         ResumeTransport, ResumeRecord, UpdateRead, UpdateResume, UpdateSend,
         UpdateSendFails, UpdatePause, HookPauses, HookSendFails, ReceiveMessage,
         ReceiveRestart, LatePause, RequestUpdated, IncomingResponse, RestartPull,
         RestartPush, ReceivePush, ReceivePull
  <2>2. request = "open" /\ hook = "none" /\ ~gsPaused[p]
    BY <2>1, Zenon DEF Block, Flows
  <2>3. gsPaused[p] = rec[p].self
    BY <1>1, <2>2, NoCallFits, Zenon DEF AgreeInv, Agreeing, Acts, EndFits
  <2> QED
    BY <2>2, <2>3, Zenon
<1>2. ASSUME UNCHANGED vars PROVE Quiet \/ UNCHANGED vars
  BY <1>2, Zenon
<1>3. Types /\ AgreeInv /\ [Next]_vars => [Quiet]_vars
  BY <1>1, Zenon
<1> QED
  BY <1>3, TypesInvariance, AgreeInvariance, PTL DEF Spec, NoDataWhilePaused

-----------------------------------------------------------------------------
(* The records agree: the proof *)

\* The messages of a queue.
LEMMA ElemsFacts ==
  /\ Elems(<< >>) = {}
  /\ \A m \in Msgs : Elems(<<m>>) = {m}
  /\ \A s \in Seq(Msgs) : Elems(s) \subseteq Msgs
  /\ \A s \in Seq(Msgs), m \in Msgs : Elems(Append(s, m)) = Elems(s) \cup {m}
  /\ \A s, t \in Seq(Msgs) : Elems(s \o t) = Elems(s) \cup Elems(t)
  /\ \A s \in Seq(Msgs) : s # << >> => Elems(s) = {Head(s)} \cup Elems(Tail(s))
<1>1. Elems(<< >>) = {}
  BY DEF Elems
<1>2. ASSUME NEW m \in Msgs PROVE Elems(<<m>>) = {m}
  BY DEF Elems
<1>3. ASSUME NEW s \in Seq(Msgs) PROVE Elems(s) \subseteq Msgs
  BY DEF Elems
<1>4. ASSUME NEW s \in Seq(Msgs), NEW m \in Msgs PROVE Elems(Append(s, m)) = Elems(s) \cup {m}
  <2>1. /\ DOMAIN Append(s, m) = 1..(Len(s) + 1) /\ DOMAIN s = 1..Len(s) /\ Len(s) \in Nat
        /\ \A i \in 1..Len(s) : Append(s, m)[i] = s[i]
        /\ Append(s, m)[Len(s) + 1] = m
    OBVIOUS
  <2>2. \A i \in 1..(Len(s) + 1) : i \in 1..Len(s) \/ i = Len(s) + 1
    BY <2>1
  <2>3. \A i \in 1..Len(s) : i \in 1..(Len(s) + 1)
    BY <2>1
  <2>4. Len(s) + 1 \in 1..(Len(s) + 1)
    BY <2>1
  <2> QED
    BY <2>1, <2>2, <2>3, <2>4, Zenon DEF Elems
<1>5. ASSUME NEW s \in Seq(Msgs), NEW t \in Seq(Msgs)
      PROVE  Elems(s \o t) = Elems(s) \cup Elems(t)
  <2>1. /\ DOMAIN (s \o t) = 1..(Len(s) + Len(t))
        /\ DOMAIN s = 1..Len(s) /\ Len(s) \in Nat /\ DOMAIN t = 1..Len(t) /\ Len(t) \in Nat
        /\ \A i \in 1..(Len(s) + Len(t)) :
             (s \o t)[i] = IF i <= Len(s) THEN s[i] ELSE t[i - Len(s)]
    OBVIOUS
  <2>2. \A i \in 1..(Len(s) + Len(t)) :
          /\ i <= Len(s) => i \in 1..Len(s)
          /\ ~(i <= Len(s)) => i - Len(s) \in 1..Len(t)
    BY <2>1
  <2>3. \A i \in 1..Len(s) : i \in 1..(Len(s) + Len(t)) /\ i <= Len(s)
    BY <2>1
  <2>4. \A i \in 1..Len(t) : /\ i + Len(s) \in 1..(Len(s) + Len(t))
                             /\ ~(i + Len(s) <= Len(s)) /\ (i + Len(s)) - Len(s) = i
    BY <2>1
  <2>5. ASSUME NEW i \in DOMAIN (s \o t) PROVE (s \o t)[i] \in Elems(s) \cup Elems(t)
    BY <2>1, <2>2, Zenon DEF Elems
  <2>6. ASSUME NEW i \in DOMAIN s PROVE s[i] \in Elems(s \o t)
    BY <2>1, <2>3, Zenon DEF Elems
  <2>7. ASSUME NEW i \in DOMAIN t PROVE t[i] \in Elems(s \o t)
    <3>1. (s \o t)[i + Len(s)] = t[i] /\ i + Len(s) \in DOMAIN (s \o t)
      BY <2>1, <2>4, Zenon
    <3> QED
      BY <3>1, Zenon DEF Elems
  <2> QED
    BY <2>5, <2>6, <2>7, Zenon DEF Elems
<1>6. ASSUME NEW s \in Seq(Msgs), s # << >> PROVE Elems(s) = {Head(s)} \cup Elems(Tail(s))
  <2>1. /\ DOMAIN s = 1..Len(s) /\ Len(s) \in Nat /\ Len(s) # 0
        /\ DOMAIN Tail(s) = 1..(Len(s) - 1) /\ Head(s) = s[1]
        /\ \A i \in 1..(Len(s) - 1) : Tail(s)[i] = s[i + 1]
    BY <1>6
  <2>2. ASSUME NEW i \in DOMAIN s PROVE s[i] \in {Head(s)} \cup Elems(Tail(s))
    <3>1. CASE i = 1
      BY <2>1, <3>1, Zenon
    <3>2. CASE i # 1
      <4>1. i - 1 \in DOMAIN Tail(s) /\ Tail(s)[i - 1] = s[i]
        BY <2>1, <2>2, <3>2
      <4> QED
        BY <4>1, Zenon DEF Elems
    <3> QED
      BY <3>1, <3>2, Zenon
  <2>3. Head(s) \in Elems(s)
    <3>1. 1 \in DOMAIN s
      BY <2>1
    <3> QED
      BY <2>1, <3>1, Zenon DEF Elems
  <2>4. ASSUME NEW i \in DOMAIN Tail(s) PROVE Tail(s)[i] \in Elems(s)
    <3>1. i + 1 \in DOMAIN s /\ s[i + 1] = Tail(s)[i]
      BY <2>1, <2>4
    <3> QED
      BY <3>1, Zenon DEF Elems
  <2> QED
    BY <2>2, <2>3, <2>4, Zenon DEF Elems
<1> QED
  BY <1>1, <1>2, <1>3, <1>4, <1>5, <1>6, Zenon

\* Only messages are under way.
LEMMA PendingMsgs == ASSUME Types, NEW p \in Peers PROVE Pending(p) \subseteq Msgs
<1>1. Elems(ext[p]) \subseteq Msgs /\ Elems(dt.pendingExtensions) \subseteq Msgs
  <2>1. ext[p] \in Seq(Msgs) /\ dt.pendingExtensions \in Seq(Msgs)
    BY Zenon DEF Types, TypeOK, Queues, Msgs
  <2> QED
    BY <2>1, ElemsFacts, Zenon
<1>2. \A d \in net : d.msg # Restart => d.msg \in Msgs
  BY Zenon DEF Types, Queues, NetFits
<1> QED
  BY <1>1, <1>2, Zenon DEF Pending

-----------------------------------------------------------------------------
(* What an action does to the messages for a peer *)

Still(p) ==
  /\ Pending(p)' = Pending(p)
  /\ rec'[p].other = rec[p].other /\ seen'[p] = seen[p]

Adds(p, m) ==
  /\ Pending(p)' = Pending(p) \cup {m}
  /\ rec'[p].other = rec[p].other /\ seen'[p] = seen[p]

\* A message that is handled, in its turn.
Takes(p, m) ==
  /\ m \in Pending(p) /\ seen[p] <= m.n
  /\ Pending(p)' \subseteq Pending(p) /\ Pending(p) \subseteq Pending(p)' \cup {m}
  /\ rec'[p].other = m.paused /\ seen'[p] = m.n

\* What was said stays said while no message is added, and messages that are
\* handled in turn do not change what the last one says.
LEMMA SaidKept ==
  ASSUME Types, NEW p \in Peers, NEW v, Still(p) \/ \E m \in Msgs : Takes(p, m), Said(p, v)
  PROVE  Said(p, v)'
<1> USE PendingMsgs
<1>1. CASE Still(p)
  BY <1>1, Zenon DEF Still, Said
<1>2. ASSUME NEW m \in Msgs, Takes(p, m) PROVE Said(p, v)'
  <2>1. seen[p] \in Nat /\ \A o \in Pending(p) : o.n \in Nat
    BY Zenon DEF Types, Plain, Msgs
  <2>2. m.n \in Nat
    BY Zenon DEF Msgs
  <2>3. ASSUME NEW k \in Pending(p)', \A o \in Pending(p)' : o.n <= k.n, seen'[p] <= k.n
        PROVE  k.paused = v
    <3>1. k \in Pending(p) /\ m.n <= k.n /\ seen[p] <= k.n
      BY <1>2, <2>1, <2>2, <2>3 DEF Takes
    <3>2. \A o \in Pending(p) : o.n <= k.n
      BY <1>2, <2>3, <3>1, Zenon DEF Takes
    <3> QED
      BY <3>1, <3>2, Zenon DEF Said
  <2>4. ASSUME Pending(p)' = {} PROVE rec'[p].other = v
    <3>1. \A o \in Pending(p) : o = m
      BY <1>2, <2>4, Zenon DEF Takes
    <3>2. \A o \in Pending(p) : o.n <= m.n
      BY <2>2, <3>1
    <3> QED
      BY <1>2, <3>2, Zenon DEF Takes, Said
  <2> QED
    BY <2>3, <2>4, Zenon DEF Said
<1> QED
  BY <1>1, <1>2, Zenon

\* The same for the bound of the stamps.
LEMMA BelowKept ==
  ASSUME Types, NEW p \in Peers, NEW n \in Nat, NEW k \in Nat, n <= k,
         Still(p) \/ \E m \in Msgs : Takes(p, m), Below(p, n)
  PROVE  Below(p, k)'
<1>1. seen[p] \in Nat /\ \A o \in Pending(p) : o.n \in Nat
  BY PendingMsgs, Zenon DEF Types, Plain, Msgs
<1> QED
  BY <1>1 DEF Still, Takes, Below

\* A message with a new stamp is what was said last.
LEMMA SaidNew ==
  ASSUME Types, NEW p \in Peers, NEW m \in Msgs, Adds(p, m), Below(p, m.n)
  PROVE  Said(p, m.paused)' /\ \A k \in Nat : m.n < k => Below(p, k)'
<1>1. seen[p] \in Nat /\ m.n \in Nat /\ \A o \in Pending(p) : o.n \in Nat
  BY PendingMsgs, Zenon DEF Types, Plain, Msgs
<1>2. ASSUME NEW o \in Pending(p)', \A k \in Pending(p)' : k.n <= o.n PROVE o = m
  BY <1>1, <1>2 DEF Adds, Below
<1> QED
  BY <1>1, <1>2 DEF Adds, Below, Said

\* Nothing of p's messages changes.
LEMMA StillWhere ==
  ASSUME NEW p \in Peers, UNCHANGED <<pull, net, ext, dt>>,
         rec'[p].other = rec[p].other, seen'[p] = seen[p]
  PROVE  Still(p)
  BY Zenon DEF Still, Pending, requester, server

\* A message sent over the network.
LEMMA SendEffect ==
  ASSUME NEW p \in Peers, NEW m \in Msgs, net' = net \cup {[to |-> p, msg |-> m]},
         UNCHANGED <<pull, ext, dt, seen, rec>>
  PROVE  Adds(p, m) /\ Still(Other(p))
<1>1. m # Restart /\ Other(p) # p
  BY UpdateIsMsg, TwoPeers, Zenon
<1>2. {d.msg : d \in {e \in net' : e.to = p /\ e.msg # Restart}} =
        {d.msg : d \in {e \in net : e.to = p /\ e.msg # Restart}} \cup {m}
  <2> DEFINE new == [to |-> p, msg |-> m]
             old == {e \in net : e.to = p /\ e.msg # Restart}
  <2>1. new.to = p /\ new.msg = m
    BY Zenon
  <2>2. {e \in net' : e.to = p /\ e.msg # Restart} = old \cup {new}
    BY <1>1, <2>1, Zenon
  <2> HIDE DEF new, old
  <2>3. {d.msg : d \in old \cup {new}} = {d.msg : d \in old} \cup {m}
    BY <2>1, Zenon
  <2> QED
    BY <2>2, <2>3, Zenon DEF old
<1>3. {e \in net' : e.to = Other(p) /\ e.msg # Restart} =
        {e \in net : e.to = Other(p) /\ e.msg # Restart}
  BY <1>1
<1>4. Adds(p, m)
  BY <1>2, Zenon DEF Adds, Pending, requester, server
<1>5. Still(Other(p))
  BY <1>3, Zenon DEF Still, Pending, requester, server
<1> QED
  BY <1>4, <1>5, Zenon

\* A message appended to the queue on the request.
LEMMA AppendEffect ==
  ASSUME Types, NEW p \in Peers, NEW m \in Msgs, ext' = [ext EXCEPT ![p] = Append(@, m)],
         dt'.pendingExtensions = dt.pendingExtensions, UNCHANGED <<pull, net, seen, rec>>
  PROVE  Adds(p, m) /\ Still(Other(p))
<1>1. Elems(ext'[p]) = Elems(ext[p]) \cup {m} /\ ext'[Other(p)] = ext[Other(p)]
  <2>1. ext[p] \in Seq(Msgs) /\ ext \in [Peers -> Seq(Msgs)] /\ Other(p) \in Peers /\ Other(p) # p
    BY TwoPeers, Zenon DEF Types, Queues
  <2>2. ext'[p] = Append(ext[p], m) /\ ext'[Other(p)] = ext[Other(p)]
    BY <2>1, Zenon
  <2> QED
    BY <2>1, <2>2, ElemsFacts, Zenon
<1>2. Adds(p, m)
  BY <1>1, Zenon DEF Adds, Pending, requester, server
<1>3. Still(Other(p))
  BY <1>1, Zenon DEF Still, Pending, requester, server
<1> QED
  BY <1>2, <1>3, Zenon

\* dtChannel.resume sends its message, unless the end was not paused.
LEMMA ResumeEffect ==
  ASSUME Types, NEW p \in Peers, NEW m \in Msgs, resume(p, m),
         UNCHANGED <<pull, net, seen, rec>>
  PROVE  /\ Still(p)
         /\ \/ Adds(Other(p), m)
            \/ Still(Other(p)) /\ ~gsPaused[p] /\ ~(p = server /\ dt.requesterCancelled)
<1>0. Other(p) \in Peers /\ Other(Other(p)) = p /\ Other(p) # p
  BY TwoPeers, Zenon
<1>1. CASE p = server /\ dt.requesterCancelled
  <2>1. requester = Other(p) /\ requester # p
    BY <1>0, <1>1, TwoPeers, Zenon
  <2>2. Elems(dt'.pendingExtensions) = Elems(dt.pendingExtensions) \cup {m}
    <3>1. dt.pendingExtensions \in Seq(Msgs)
      BY Zenon DEF Types, TypeOK, Msgs
    <3>2. dt'.pendingExtensions = Append(dt.pendingExtensions, m)
      BY <1>1, Zenon DEF resume, Types, TypeOK
    <3> QED
      BY <3>1, <3>2, ElemsFacts
  <2>3. requester' = requester /\ UNCHANGED ext
    BY <1>1, Zenon DEF requester, server, resume
  <2>4. Still(p)
    BY <2>1, <2>3, Zenon DEF Still, Pending
  <2>5. Adds(Other(p), m)
    BY <2>1, <2>2, <2>3, Zenon DEF Adds, Pending
  <2> QED
    BY <2>4, <2>5, Zenon
<1>2. CASE ~(p = server /\ dt.requesterCancelled)
  <2>1. dt'.pendingExtensions = dt.pendingExtensions
    BY <1>2, Zenon DEF resume, Types, TypeOK
  <2>2. CASE gsPaused[p]
    <3>1. ext' = [ext EXCEPT ![Other(p)] = Append(@, m)]
      BY <1>2, <2>2, Zenon DEF resume
    <3> QED
      BY <1>0, <2>1, <3>1, AppendEffect, Zenon
  <2>3. CASE ~gsPaused[p]
    <3>1. ext' = ext
      BY <1>2, <2>3, Zenon DEF resume
    <3>2. \A q \in Peers : Still(q)
      BY <2>1, <3>1, Zenon DEF Still, Pending, requester, server
    <3> QED
      BY <1>0, <1>2, <2>3, <3>2, Zenon
  <2> QED
    BY <2>2, <2>3, Zenon
<1> QED
  BY <1>1, <1>2, Zenon

\* pauseOther and resumeOther of a message that was not overtaken.
LEMMA RecordsInTurn ==
  ASSUME Types, Unexcused', NEW p \in Peers, NEW m \in Msgs, Records(p, m),
         Overtaken(p, m) \subseteq excuses'
  PROVE  /\ seen[p] <= m.n /\ seen'[p] = m.n /\ rec'[p].other = m.paused
         /\ \A q \in Peers : q # p => rec'[q].other = rec[q].other /\ seen'[q] = seen[q]
         /\ \A q \in Peers : rec'[q].self = rec[q].self
<1>1. seen[p] \in Nat /\ m.n \in Nat /\ seen \in [Peers -> Nat]
  BY Zenon DEF Types, Plain, Msgs
<1>2. rec \in [Peers -> [self : BOOLEAN, other : BOOLEAN]]
  BY Zenon DEF Types, TypeOK
<1>3. ~(m.n < seen[p])
  BY Zenon DEF Overtaken, Unexcused
<1> QED
  BY <1>1, <1>2, <1>3 DEF Records

\* A message of the network is handled.
LEMMA ReceiveEffect ==
  ASSUME Types, Unexcused', NEW d \in net, ReceiveMessage(d)
  PROVE  /\ d.to \in Peers /\ d.msg \in Msgs
         /\ Takes(d.to, d.msg) /\ Still(Other(d.to))
         /\ \A q \in Peers : rec'[q].self = rec[q].self
<1>1. d.to \in Peers /\ d.msg \in Msgs /\ d.msg # Restart
  BY NetUpdate, Zenon DEF ReceiveMessage
<1>2. Overtaken(d.to, d.msg) \subseteq excuses' /\ Records(d.to, d.msg)
  BY Zenon DEF ReceiveMessage
<1>3. net' = net \ {d} /\ UNCHANGED <<pull, ext, dt>>
  BY Zenon DEF ReceiveMessage
<1>4. Other(d.to) # d.to /\ Other(d.to) \in Peers
  BY <1>1, TwoPeers, Zenon
<1>5. /\ d.msg \in Pending(d.to)
      /\ Pending(d.to)' \subseteq Pending(d.to)
      /\ Pending(d.to) \subseteq Pending(d.to)' \cup {d.msg}
  BY <1>1, <1>3, Zenon DEF Pending, requester, server
<1>6. Pending(Other(d.to))' = Pending(Other(d.to))
  BY <1>3, <1>4, Zenon DEF Pending, requester, server
<1> QED
  BY <1>1, <1>2, <1>4, <1>5, <1>6, RecordsInTurn, Zenon DEF Takes, Still

\* The first message on the request is handled, at either end.
LEMMA HandleEffect ==
  ASSUME Types, Unexcused', NEW p \in Peers, ext[p] # << >>, Records(p, Head(ext[p])),
         Overtaken(p, Head(ext[p])) \subseteq excuses',
         Elems(ext'[p]) = Elems(Tail(ext[p])),
         Elems(ext'[Other(p)])
             \cup (IF Other(p) = requester THEN Elems(dt'.pendingExtensions) ELSE {})
           = Elems(ext[Other(p)])
               \cup (IF Other(p) = requester THEN Elems(dt.pendingExtensions) ELSE {}),
         p = requester => dt'.pendingExtensions = dt.pendingExtensions,
         UNCHANGED <<pull, net>>
  PROVE  /\ Takes(p, Head(ext[p])) /\ Still(Other(p)) /\ Head(ext[p]) \in Msgs
         /\ \A q \in Peers : rec'[q].self = rec[q].self
<1> DEFINE m == Head(ext[p])
<1>1. m \in Msgs /\ Other(p) \in Peers /\ Other(p) # p
  BY HeadOfExt, TwoPeers, Zenon
<1>2. Elems(ext[p]) = {m} \cup Elems(Tail(ext[p]))
  BY ElemsFacts, Zenon DEF Types, Queues
<1> HIDE DEF m
<1>3. /\ m \in Pending(p)
      /\ Pending(p)' \subseteq Pending(p)
      /\ Pending(p) \subseteq Pending(p)' \cup {m}
  BY <1>2, Zenon DEF Pending, requester, server
<1>4. Pending(Other(p))' = Pending(Other(p))
  <2>1. requester' = requester
    BY Zenon DEF requester, server
  <2> QED
    BY <2>1, Zenon DEF Pending
<1>5. /\ seen[p] <= m.n /\ seen'[p] = m.n /\ rec'[p].other = m.paused
      /\ \A q \in Peers : q # p => rec'[q].other = rec[q].other /\ seen'[q] = seen[q]
      /\ \A q \in Peers : rec'[q].self = rec[q].self
  BY <1>1, RecordsInTurn, Zenon DEF m
<1> QED
  BY <1>1, <1>3, <1>4, <1>5, Zenon DEF Takes, Still, m

\* gsRequestUpdatedHook and gsIncomingResponseHook.
LEMMA ExtEffect ==
  ASSUME Types, Unexcused', RequestUpdated \/ IncomingResponse
  PROVE  \E p \in Peers, m \in Msgs :
           /\ Takes(p, m) /\ Still(Other(p))
           /\ \A q \in Peers : rec'[q].self = rec[q].self
<1>1. PICK p \in Peers :
        /\ ext[p] # << >> /\ Records(p, Head(ext[p]))
        /\ Overtaken(p, Head(ext[p])) \subseteq excuses'
        /\ ext' = [ext EXCEPT ![p] = Tail(@)]
        /\ UNCHANGED <<pull, net, dt>>
  BY TwoPeers, Zenon DEF RequestUpdated, IncomingResponse
<1>2. ext'[p] = Tail(ext[p]) /\ ext'[Other(p)] = ext[Other(p)]
  BY <1>1, TwoPeers, Zenon DEF Types, Queues
<1>3. /\ Takes(p, Head(ext[p])) /\ Still(Other(p)) /\ Head(ext[p]) \in Msgs
      /\ \A q \in Peers : rec'[q].self = rec[q].self
  BY <1>1, <1>2, HandleEffect, Zenon
<1> QED
  BY <1>3, Zenon

\* The initiator of a push handles the response of the new request, and hands
\* over what it kept.
LEMMA PushEffect ==
  ASSUME Types, Unexcused', ReceivePush
  PROVE  \E m \in Msgs :
           /\ Takes("I", m) /\ Still("R")
           /\ \A q \in Peers : rec'[q].self = rec[q].self
<1>1. /\ ~pull /\ request = "new" /\ Records("I", Head(ext["I"]))
      /\ Overtaken("I", Head(ext["I"])) \subseteq excuses'
      /\ Serves(ErrPause("I", Head(ext["I"])), << >>)
      /\ UNCHANGED <<pull, net>>
  BY Zenon DEF ReceivePush
<1>2. server = "I" /\ requester = "R" /\ Other("I") = "R" /\ "I" \in Peers
  BY <1>1, Zenon DEF server, requester, Other, Peers
<1>3. ext["I"] # << >> /\ ext["R"] = << >>
  BY <1>1, <1>2, Zenon DEF Types, Requests
<1>4. ext'["I"] = Tail(ext["I"]) /\ ext'["R"] = << >> \o dt.pendingExtensions
  BY <1>1, <1>2, Zenon DEF Serves, Types, Queues, Peers
<1>5. Elems(ext'["R"]) = Elems(dt.pendingExtensions) /\ Elems(ext["R"]) = {}
  <2>1. dt.pendingExtensions \in Seq(Msgs) /\ << >> \in Seq(Msgs)
    BY DEF Types, TypeOK, Msgs
  <2>2. Elems(<< >> \o dt.pendingExtensions) = Elems(<< >>) \cup Elems(dt.pendingExtensions)
    BY <2>1, ElemsFacts, Zenon
  <2> QED
    BY <1>3, <1>4, <2>2, ElemsFacts, Zenon
<1>6. dt'.pendingExtensions = << >> /\ Elems(dt'.pendingExtensions) = {}
  <2>1. dt'.pendingExtensions = << >>
    BY <1>1, Zenon DEF Serves
  <2> QED
    BY <2>1, ElemsFacts, Zenon
<1>7. /\ Takes("I", Head(ext["I"])) /\ Still(Other("I")) /\ Head(ext["I"]) \in Msgs
      /\ \A q \in Peers : rec'[q].self = rec[q].self
  BY <1>1, <1>2, <1>3, <1>4, <1>5, <1>6, HandleEffect, Zenon
<1> QED
  BY <1>2, <1>7, Zenon

\* The responder of a pull answers the restart, before what it kept.
LEMMA PullEffect ==
  ASSUME Types, NEW force \in BOOLEAN, ReceivePull(force)
  PROVE  LET m == Update(LeaveRequestPaused(force, data.limit), used.stamp + 1)
         IN  m \in Msgs /\ Adds("I", m) /\ Still("R")
<1> DEFINE stays == LeaveRequestPaused(force, data.limit)
           m == Update(stays, used.stamp + 1)
<1>0. stays \in BOOLEAN
  BY Zenon DEF LeaveRequestPaused
<1>1. m \in Msgs
  BY <1>0, NextStamp, Zenon
<1>2. /\ pull /\ request = "new" /\ Serves(force, <<m>>)
      /\ rec' = [rec EXCEPT !["R"].self = stays]
      /\ UNCHANGED <<pull, net, seen>>
  BY Zenon DEF ReceivePull
<1> HIDE DEF m, stays
<1>3. server = "R" /\ requester = "I" /\ requester' = "I" /\ "I" \in Peers /\ "R" \in Peers
  BY <1>2, Zenon DEF server, requester, Other, Peers
<1>4. ext["I"] = << >>
  BY <1>2, <1>3, Zenon DEF Types, Requests
<1>5. ext'["R"] = ext["R"] /\ ext'["I"] = <<m>> \o dt.pendingExtensions
  BY <1>2, <1>3, Zenon DEF Serves, Types, Queues
<1>6. Elems(ext'["I"]) = {m} \cup Elems(dt.pendingExtensions) /\ Elems(ext["I"]) = {}
  <2>1. dt.pendingExtensions \in Seq(Msgs) /\ <<m>> \in Seq(Msgs)
    BY <1>1 DEF Types, TypeOK, Msgs
  <2>2. Elems(<<m>> \o dt.pendingExtensions) = Elems(<<m>>) \cup Elems(dt.pendingExtensions)
    BY <2>1, ElemsFacts, Zenon
  <2> QED
    BY <1>1, <1>4, <1>5, <2>2, ElemsFacts, Zenon
<1>7. Elems(dt'.pendingExtensions) = {}
  <2>1. dt'.pendingExtensions = << >>
    BY <1>2, Zenon DEF Serves
  <2> QED
    BY <2>1, ElemsFacts, Zenon
<1>8. \A p \in Peers : rec'[p].other = rec[p].other
  BY <1>2, <1>3, Zenon DEF Types, TypeOK
<1>9. Adds("I", m)
  BY <1>2, <1>3, <1>6, <1>7, <1>8, Zenon DEF Adds, Pending
<1>10. Still("R")
  BY <1>2, <1>3, <1>5, <1>8, Zenon DEF Still, Pending
<1> QED
  BY <1>1, <1>9, <1>10, Zenon DEF m, stays

\* A new request of the requester loses no message: there was none on the old one.
LEMMA ReopensEffect ==
  ASSUME Types, Unexcused', NEW ms, NEW unsaid, Reopens(ms, unsaid)
  PROVE  /\ ~unsaid /\ \A p \in Peers : ext[p] = << >> /\ call[p] = NoCall
         /\ ext' = [p \in Peers |-> IF p = server THEN ms ELSE << >>]
         /\ dt'.pendingExtensions = dt.pendingExtensions
         /\ request' = "new"
<1>1. /\ Races("R") \subseteq excuses' /\ Races("I") \subseteq excuses'
      /\ unsaid \/ (\E p \in Peers : ext[p] # << >>) => "restarted" \in excuses'
  BY Zenon DEF Reopens
<1>2. \A p \in Peers : call[p] = NoCall
  BY <1>1, Zenon DEF Races, Unexcused, Peers
<1> QED
  BY <1>1, <1>2, Zenon DEF Reopens, Unexcused, Types, TypeOK

\* Restarting a pull says nothing.
LEMMA RestartPullEffect ==
  ASSUME Types, Unexcused', RestartPull
  PROVE  \A p \in Peers : Still(p)
<1>1. Reopens(<< >>, rec["I"].self) /\ UNCHANGED <<pull, net, rec, seen>>
  BY Zenon DEF RestartPull
<1>2. \A p \in Peers : ext'[p] = ext[p]
  BY <1>1, ReopensEffect, Zenon
<1>3. dt'.pendingExtensions = dt.pendingExtensions
  BY <1>1, ReopensEffect, Zenon
<1> QED
  BY <1>1, <1>2, <1>3, Zenon DEF Still, Pending, requester, server

\* The responder of a push answers the restart with its new request.
LEMMA RestartPushEffect ==
  ASSUME Types, Unexcused', NEW d \in net, NEW force \in BOOLEAN, ReceiveRestart(d, force)
  PROVE  LET m == Update(LeaveRequestPaused(force, data.limit), used.stamp + 1)
         IN  m \in Msgs /\ Adds("I", m) /\ Still("R")
<1> DEFINE stays == LeaveRequestPaused(force, data.limit)
           m == Update(stays, used.stamp + 1)
<1>0. stays \in BOOLEAN
  BY Zenon DEF LeaveRequestPaused
<1>1. m \in Msgs
  BY <1>0, NextStamp, Zenon
<1>2. /\ Reopens(<<m>>, stays /\ ~force) /\ d.msg.kind = "restart" /\ net' = net \ {d}
      /\ rec' = [rec EXCEPT !["R"].self = stays]
      /\ UNCHANGED <<pull, seen>>
  BY Zenon DEF ReceiveRestart
<1> HIDE DEF m, stays
<1>3. d.msg = Restart /\ ~pull
  BY <1>2, Zenon DEF Types, Queues, NetFits, Msgs
<1>4. /\ server = "I" /\ requester = "R" /\ requester' = "R" /\ "I" \in Peers /\ "R" \in Peers
  BY <1>2, <1>3, Zenon DEF server, requester, Other, Peers
<1>5. ext'["I"] = <<m>> /\ ext'["R"] = << >> /\ ext["I"] = << >> /\ ext["R"] = << >>
  BY <1>2, <1>4, ReopensEffect, Zenon
<1>6. Elems(ext'["I"]) = {m} /\ Elems(ext["I"]) = {} /\ ext'["R"] = ext["R"]
  BY <1>1, <1>5, ElemsFacts, Zenon
<1>7. dt'.pendingExtensions = dt.pendingExtensions
  BY <1>2, ReopensEffect, Zenon
<1>8. \A p \in Peers : {e \in net' : e.to = p /\ e.msg # Restart}
                         = {e \in net : e.to = p /\ e.msg # Restart}
  BY <1>2, <1>3, Zenon
<1>9. \A p \in Peers : rec'[p].other = rec[p].other
  BY <1>2, <1>4, Zenon DEF Types, TypeOK
<1>10. Adds("I", m)
  BY <1>2, <1>4, <1>6, <1>8, <1>9, Zenon DEF Adds, Pending
<1>11. Still("R")
  BY <1>2, <1>4, <1>6, <1>7, <1>8, <1>9, Zenon DEF Still, Pending
<1> QED
  BY <1>1, <1>10, <1>11, Zenon DEF m, stays

\* The hook tells of its pause, unless the request of a pull was replaced.
LEMMA HookEffect ==
  ASSUME Types, HookPauses
  PROVE  LET m == Update(TRUE, used.stamp + 1)
         IN  /\ m \in Msgs /\ Still("R")
             /\ IF hook = "current" \/ ~pull THEN Adds("I", m) ELSE Still("I")
<1> DEFINE m == Update(TRUE, used.stamp + 1)
<1>1. m \in Msgs
  BY NextStamp, Zenon
<1>2. /\ net' = IF pull THEN net ELSE net \cup {[to |-> "I", msg |-> m]}
      /\ ext' = IF pull /\ hook = "current" THEN [ext EXCEPT !["I"] = Append(@, m)] ELSE ext
      /\ UNCHANGED <<pull, rec, dt, seen>>
  BY Zenon DEF HookPauses
<1> HIDE DEF m
<1>3. "I" \in Peers /\ "R" \in Peers /\ Other("I") = "R"
  BY Zenon DEF Peers, Other
<1>4. CASE ~pull
  <2>1. net' = net \cup {[to |-> "I", msg |-> m]} /\ ext' = ext
    BY <1>2, <1>4, Zenon
  <2>2. Adds("I", m) /\ Still("R")
    BY <1>1, <1>2, <1>3, <2>1, SendEffect, Zenon
  <2> QED
    BY <1>1, <1>4, <2>2, Zenon DEF m
<1>5. CASE pull /\ hook = "current"
  <2>1. net' = net /\ ext' = [ext EXCEPT !["I"] = Append(@, m)]
    BY <1>2, <1>5, Zenon
  <2>2. Adds("I", m) /\ Still("R")
    BY <1>1, <1>2, <1>3, <2>1, AppendEffect, Zenon
  <2> QED
    BY <1>1, <1>5, <2>2, Zenon DEF m
<1>6. CASE pull /\ hook # "current"
  <2>1. Still("I") /\ Still("R")
    BY <1>2, <1>3, <1>6, StillWhere, Zenon
  <2> QED
    BY <1>1, <1>6, <2>1, Zenon DEF m
<1> QED
  BY <1>4, <1>5, <1>6, Zenon

-----------------------------------------------------------------------------
(* What was told *)

\* The stamps of a step.
Stamps(q) ==
  /\ used'.stamp \in Nat /\ used.stamp <= used'.stamp
  /\ call'[q].n \in Nat /\ call'[q].n <= used'.stamp

\* A step that sends nothing for q: what q then means the other to know was said.
LEMMA ToldKept ==
  ASSUME Types, NEW q \in Peers, Told(q), Stamps(q),
         Still(Other(q)) \/ \E m \in Msgs : Takes(Other(q), m),
         \A v \in BOOLEAN : Claims(q, v)' => Said(Other(q), v),
         Unsaid(call'[q]) => Below(Other(q), call'[q].n)
  PROVE  Told(q)'
<1>1. /\ Other(q) \in Peers /\ used.stamp + 1 \in Nat /\ used'.stamp + 1 \in Nat
      /\ used.stamp + 1 <= used'.stamp + 1
  BY TwoPeers, NextStamp DEF Stamps
<1>2. Below(Other(q), used.stamp + 1)'
  <2>1. ASSUME NEW k \in Nat, k = used'.stamp + 1 PROVE Below(Other(q), k)'
    BY <1>1, <2>1, BelowKept, Zenon DEF Told
  <2> QED
    BY <1>1, <2>1, Zenon
<1>3. \A v \in BOOLEAN : Claims(q, v)' => Said(Other(q), v)'
  BY <1>1, SaidKept, Zenon
<1>4. ASSUME Unsaid(call'[q]) PROVE Below(Other(q), call[q].n)'
  <2>1. PICK n \in Nat : n = call'[q].n
    BY Zenon DEF Stamps
  <2>2. Below(Other(q), n)'
    BY <1>1, <1>4, <2>1, BelowKept
  <2> QED
    BY <2>1, <2>2, Zenon
<1> QED
  BY <1>2, <1>3, <1>4, Zenon DEF Told, Stamps, Unsaid

\* A step that sends a message for q, with a new stamp.
LEMMA ToldNew ==
  ASSUME Types, NEW q \in Peers, Stamps(q), NEW m \in Msgs, Adds(Other(q), m),
         Below(Other(q), m.n), m.n <= used'.stamp,
         \A v \in BOOLEAN : Claims(q, v)' => v = m.paused,
         ~Unsaid(call'[q])
  PROVE  Told(q)'
<1>1. Other(q) \in Peers /\ used'.stamp + 1 \in Nat /\ m.n \in Nat /\ m.n < used'.stamp + 1
  BY TwoPeers DEF Stamps, Msgs
<1>2. Said(Other(q), m.paused)' /\ \A k \in Nat : m.n < k => Below(Other(q), k)'
  BY <1>1, SaidNew, Zenon
<1>3. Below(Other(q), used.stamp + 1)'
  <2>1. ASSUME NEW k \in Nat, k = used'.stamp + 1 PROVE Below(Other(q), k)'
    BY <1>1, <1>2, <2>1, Zenon
  <2> QED
    BY <1>1, <2>1, Zenon
<1> QED
  BY <1>2, <1>3, Zenon DEF Told, Stamps, Unsaid

\* A step of others: q's call and record are as they were.
LEMMA ToldOn ==
  ASSUME Types, NEW q \in Peers, Told(q),
         call'[q] = call[q], rec'[q].self = rec[q].self, Owes(q) => Owes(q)',
         used'.stamp \in Nat, used.stamp <= used'.stamp,
         Still(Other(q)) \/ \E m \in Msgs : Takes(Other(q), m)
  PROVE  Told(q)'
<1>1. used.stamp \in Nat /\ call[q].n \in Nat
  BY NextStamp, Zenon DEF Types, CallsFit, Calls
<1>2. Stamps(q)
  BY <1>1 DEF Stamps, Told
<1>3. \A v \in BOOLEAN : Claims(q, v)' => Claims(q, v)
  BY Zenon DEF Claims
<1>4. \A v \in BOOLEAN : Claims(q, v)' => Said(Other(q), v)
  BY <1>3, Zenon DEF Told
<1>5. Unsaid(call'[q]) => Below(Other(q), call'[q].n)
  BY Zenon DEF Told
<1> QED
  BY <1>2, <1>4, <1>5, ToldKept, Zenon
\* A step that nothing excuses, of a transfer whose request did not fail.
Going ==
  /\ Types /\ Types' /\ Agreeing /\ Unexcused'
  /\ request # "failed"
  /\ \A q \in Peers : Told(q)
  /\ used.stamp <= used'.stamp

\* The stamps of such a step.
LEMMA GoingStamps ==
  ASSUME Going, NEW q \in Peers
  PROVE  /\ used.stamp \in Nat /\ used'.stamp \in Nat /\ call[q].n \in Nat /\ call'[q].n \in Nat
         /\ call[q].n <= used.stamp
         /\ call'[q].n <= used'.stamp => Stamps(q)
         /\ call'[q] = call[q] \/ call'[q] = NoCall => Stamps(q)
         /\ Below(Other(q), used.stamp + 1)
<1>1. used.stamp \in Nat /\ used'.stamp \in Nat /\ call[q].n \in Nat /\ call'[q].n \in Nat
  BY Zenon DEF Going, Types, Plain, CallsFit, Calls
<1>2. call[q].n <= used.stamp /\ used.stamp <= used'.stamp /\ Below(Other(q), used.stamp + 1)
  BY Zenon DEF Going, Told
<1>3. NoCall.n = 0
  BY NoCallFits, Zenon
<1> QED
  BY <1>1, <1>2, <1>3 DEF Stamps

\* The other peer of a call has said what it had said.
LEMMA OtherTold ==
  ASSUME Going, NEW p \in Peers, OnlyOwn(p), Still(p)
  PROVE  Told(Other(p))'
<1>1. Other(p) \in Peers /\ Other(p) # p /\ Other(Other(p)) = p
  BY TwoPeers, Zenon
<1>2. call'[Other(p)] = call[Other(p)] /\ rec'[Other(p)].self = rec[Other(p)].self
  BY <1>1, Zenon DEF OnlyOwn
<1>3. Owes(Other(p)) => Owes(Other(p))'
  BY Zenon DEF OnlyOwn, Owes
<1>4. used'.stamp \in Nat /\ used.stamp <= used'.stamp
  BY <1>1, GoingStamps, Zenon DEF Going
<1> QED
  BY <1>1, <1>2, <1>3, <1>4, ToldOn, Zenon DEF Going

\* Both peers are p and the other.
LEMMA BothTold ==
  ASSUME NEW p \in Peers, Told(p)', Told(Other(p))'
  PROVE  \A q \in Peers : Told(q)'
<1>1. \A q \in Peers : q = p \/ q = Other(p)
  BY DEF Peers, Other
<1> QED
  BY <1>1, Zenon

\* PauseDataTransferChannel: the message is sent before the pause is recorded.
LEMMA PauseTold ==
  ASSUME Going, NEW p \in Peers,
         PauseTransport(p) \/ PauseSend(p) \/ PauseSendFails(p) \/ PauseRecord(p)
  PROVE  \A q \in Peers : Told(q)'
<1>0. /\ Other(p) \in Peers /\ call \in [Peers -> Calls]
      /\ rec \in [Peers -> [self : BOOLEAN, other : BOOLEAN]]
  BY TwoPeers, AgreeTypes, Zenon DEF Going
<1>1. CASE PauseTransport(p)
  <2>1. OnlyOwn(p) /\ UNCHANGED <<pull, net, ext, dt, rec, seen>>
    BY <1>0, <1>1 DEF PauseTransport, Starts, pause, OnlyOwn
  <2>2. Still(p) /\ Still(Other(p))
    BY <1>0, <2>1, StillWhere, Zenon
  <2>3. call'[p].op = "pause" /\ call'[p].step = 1 /\ call'[p].n = used.stamp + 1
        /\ used'.stamp = used.stamp + 1
    BY <1>0, <1>1 DEF PauseTransport, Starts, Calls, Going, Types, Plain
  <2>4. Told(p)'
    <3>1. Stamps(p)
      BY <2>3, GoingStamps
    <3>2. \A v \in BOOLEAN : ~Claims(p, v)'
      BY <2>3 DEF Claims
    <3>3. Below(Other(p), call'[p].n)
      BY <2>3, GoingStamps, Zenon
    <3> QED
      BY <2>2, <3>1, <3>2, <3>3, ToldKept, Zenon DEF Going
  <2> QED
    BY <2>1, <2>2, <2>4, OtherTold, BothTold, Zenon
<1>2. CASE PauseSend(p)
  <2>1. OnlyOwn(p) /\ UNCHANGED <<pull, ext, dt, rec, seen>>
    BY <1>0, <1>2, Zenon DEF PauseSend, Goes, OnlyOwn
  <2>2. PICK m \in Msgs : m = Update(TRUE, call[p].n) /\ m.paused = TRUE /\ m.n = call[p].n
    BY UpdateIsMsg, GoingStamps, ZenonT(60)
  <2>3. net' = net \cup {[to |-> Other(p), msg |-> m]}
    BY <1>2, <2>2, Zenon DEF PauseSend
  <2>4. Adds(Other(p), m) /\ Still(p)
    BY <1>0, <2>1, <2>3, SendEffect, TwoPeers, Zenon
  <2>5. call[p].op = "pause" /\ call[p].step = 1
    BY <1>2, Zenon DEF PauseSend, Goes
  <2>6. call'[p].op = "pause" /\ call'[p].step = 2 /\ call'[p].n = call[p].n
        /\ used'.stamp = used.stamp
    BY <1>0, <1>2 DEF PauseSend, Goes, Calls
  <2>7. Told(p)'
    <3>1. Stamps(p) /\ m.n <= used'.stamp
      BY <2>2, <2>6, GoingStamps, Zenon
    <3>2. Below(Other(p), m.n)
      BY <2>2, <2>5, Zenon DEF Going, Told, Unsaid
    <3>3. \A v \in BOOLEAN : Claims(p, v)' => v = m.paused
      BY <2>2, <2>6, Zenon DEF Claims
    <3>4. ~Unsaid(call'[p])
      BY <2>6 DEF Unsaid
    <3> QED
      BY <2>4, <3>1, <3>2, <3>3, <3>4, ToldNew, Zenon DEF Going
  <2> QED
    BY <2>1, <2>4, <2>7, OtherTold, BothTold, Zenon
<1>3. CASE PauseSendFails(p)
  BY <1>3, Zenon DEF PauseSendFails, Going, Unexcused
<1>4. CASE PauseRecord(p)
  <2>1. OnlyOwn(p) /\ UNCHANGED <<pull, net, ext, dt, seen>>
    BY <1>0, <1>4, Zenon DEF PauseRecord, Ends, OnlyOwn
  <2>2. \A q \in Peers : rec'[q].other = rec[q].other
    BY <1>0, <1>4, Zenon DEF PauseRecord
  <2>3. Still(p) /\ Still(Other(p))
    BY <1>0, <2>1, <2>2, StillWhere, Zenon
  <2>4. call[p].op = "pause" /\ call[p].step = 2 /\ call'[p] = NoCall /\ rec'[p].self = TRUE
    BY <1>0, <1>4, Zenon DEF PauseRecord, Ends
  <2>5. Told(p)'
    <3>1. Said(Other(p), TRUE)
      BY <2>4, Zenon DEF Going, Told, Claims
    <3>2. \A v \in BOOLEAN : Claims(p, v)' => v = TRUE
      BY <2>4, NoCallFits, Zenon DEF Claims
    <3>3. Stamps(p) /\ ~Unsaid(call'[p])
      BY <2>4, GoingStamps, NoCallFits, Zenon DEF Unsaid
    <3> QED
      BY <2>3, <3>1, <3>2, <3>3, ToldKept, Zenon DEF Going
  <2> QED
    BY <2>1, <2>3, <2>5, OtherTold, BothTold, Zenon
<1> QED
  BY <1>1, <1>2, <1>3, <1>4, Zenon

\* ResumeDataTransferChannel: the message rides on the request, or the end was
\* not paused and the other knows it.
LEMMA ResumeTold ==
  ASSUME Going, NEW p \in Peers, ResumeTransport(p) \/ ResumeRecord(p)
  PROVE  \A q \in Peers : Told(q)'
<1>0. /\ Other(p) \in Peers /\ call \in [Peers -> Calls] /\ gsPaused \in [Peers -> BOOLEAN]
      /\ rec \in [Peers -> [self : BOOLEAN, other : BOOLEAN]]
  BY TwoPeers, AgreeTypes, Zenon DEF Going
<1>1. CASE ResumeTransport(p)
  <2>1. OnlyOwn(p) /\ UNCHANGED <<pull, net, seen, rec>>
    BY <1>0, <1>1, Zenon DEF ResumeTransport, Starts, resume, OnlyOwn
  <2>2. PICK m \in Msgs : /\ m = Update(FALSE, used.stamp + 1)
                          /\ m.paused = FALSE /\ m.n = used.stamp + 1
    <3>1. Update(FALSE, used.stamp + 1) \in Msgs
      BY NextStamp, Zenon DEF Going
    <3> QED
      BY <3>1, Zenon DEF Update
  <2>3. resume(p, m)
    BY <1>1, <2>2, Zenon DEF ResumeTransport
  <2>4. call[p] = NoCall /\ ~Deciding(p)
    BY <1>1, Zenon DEF ResumeTransport, Starts, Going, Unexcused
  <2>5. call'[p].op = "resume" /\ call'[p].n = used.stamp + 1 /\ used'.stamp = used.stamp + 1
    BY <1>0, <1>1 DEF ResumeTransport, Starts, Calls, Going, Types, Plain
  <2>6. Still(p)
    BY <2>1, <2>3, ResumeEffect, Zenon DEF Going
  <2>7. Stamps(p) /\ ~Unsaid(call'[p]) /\ \A v \in BOOLEAN : Claims(p, v)' => v = FALSE
    BY <2>5, GoingStamps DEF Unsaid, Claims
  <2>8. CASE Adds(Other(p), m)
    <3>1. Below(Other(p), m.n)
      <4>1. Below(Other(p), used.stamp + 1)
        BY GoingStamps, Zenon
      <4>2. m.n = used.stamp + 1
        BY <2>2, Zenon
      <4> QED
        BY <4>1, <4>2, Zenon
    <3>3. m.n <= used'.stamp
      <4>1. m.n = used'.stamp
        BY <2>2, <2>5, Zenon
      <4>2. used'.stamp \in Nat
        BY GoingStamps, Zenon
      <4> QED
        BY <4>1, <4>2
    <3>2. Told(p)'
      BY <2>2, <2>7, <2>8, <3>1, <3>3, ToldNew, Zenon DEF Going
    <3> QED
      BY <2>1, <2>6, <3>2, OtherTold, BothTold, Zenon
  <2>9. CASE Still(Other(p)) /\ ~gsPaused[p] /\ ~(p = server /\ dt.requesterCancelled)
    <3>1. Acts(p)
      <4>1. p = server \/ p = requester
        BY Zenon DEF requester, server, Other, Peers
      <4>2. request \in {"open", "new"} /\ (dt.requesterCancelled <=> request = "new")
        BY Zenon DEF Going, Types, TypeOK, Requests
      <4> QED
        BY <2>9, <4>1, <4>2, Zenon DEF Acts
    <3>2. rec[p].self = FALSE
      <4>1. EndFits(p)
        BY <3>1, Zenon DEF Going, Agreeing
      <4> QED
        BY <1>0, <2>4, <2>9, <4>1, NoCallFits, Zenon DEF EndFits, Deciding
    <3>3. ~Owes(p)
      BY <2>4, <3>1, TwoPeers, Zenon DEF Owes, Deciding, Acts, requester, server, Other,
         Going, Types, TypeOK
    <3>4. Said(Other(p), FALSE)
      BY <2>4, <3>2, <3>3, NoCallFits, Zenon DEF Going, Told, Claims
    <3>5. Told(p)'
      BY <2>7, <2>9, <3>4, ToldKept, Zenon DEF Going
    <3> QED
      BY <2>1, <2>6, <3>5, OtherTold, BothTold, Zenon
  <2> QED
    BY <2>1, <2>3, <2>8, <2>9, ResumeEffect, Zenon DEF Going
<1>2. CASE ResumeRecord(p)
  <2>1. OnlyOwn(p) /\ UNCHANGED <<pull, net, ext, dt, seen>>
    BY <1>0, <1>2, Zenon DEF ResumeRecord, Ends, OnlyOwn
  <2>2. \A q \in Peers : rec'[q].other = rec[q].other
    BY <1>0, <1>2, Zenon DEF ResumeRecord
  <2>3. Still(p) /\ Still(Other(p))
    BY <1>0, <2>1, <2>2, StillWhere, Zenon
  <2>4. call[p].op = "resume" /\ call'[p] = NoCall /\ rec'[p].self = FALSE
    BY <1>0, <1>2, Zenon DEF ResumeRecord, Ends
  <2>5. Told(p)'
    <3>1. Said(Other(p), FALSE)
      BY <2>4, Zenon DEF Going, Told, Claims
    <3>2. \A v \in BOOLEAN : Claims(p, v)' => v = FALSE
      BY <2>4, NoCallFits, Zenon DEF Claims
    <3>3. Stamps(p) /\ ~Unsaid(call'[p])
      BY <2>4, GoingStamps, NoCallFits, Zenon DEF Unsaid
    <3> QED
      BY <2>3, <3>1, <3>2, <3>3, ToldKept, Zenon DEF Going
  <2> QED
    BY <2>1, <2>3, <2>5, OtherTold, BothTold, Zenon
<1> QED
  BY <1>1, <1>2, Zenon

\* A responder whose end does not act has the answer to a restart to give.
LEMMA ActsOrOwes ==
  ASSUME Going
  PROVE  Acts("R") \/ Owes("R")
<1>1. request \in {"open", "new"}
  BY Zenon DEF Going, Types, TypeOK
<1> QED
  BY <1>1, Zenon DEF Acts, Owes, requester, server, Other

\* UpdateValidationStatus: what is recorded is what the response says.
LEMMA UpdateTold ==
  ASSUME Going,
         \/ \E force \in BOOLEAN, limit \in Limits : UpdateRead(force, limit)
         \/ UpdateRecord \/ UpdateResume \/ UpdateSend \/ UpdateSendFails \/ UpdatePause
  PROVE  \A q \in Peers : Told(q)'
<1> DEFINE u == call["R"]
<1>0. /\ call \in [Peers -> Calls] /\ gsPaused \in [Peers -> BOOLEAN]
      /\ rec \in [Peers -> [self : BOOLEAN, other : BOOLEAN]]
      /\ "R" \in Peers /\ "I" \in Peers /\ Other("R") = "I" /\ u \in Calls
  BY AgreeTypes, Zenon DEF Going, Peers, Other
<1>1. ASSUME Still("R"), OnlyOwn("R"), Told("R")' PROVE \A q \in Peers : Told(q)'
  BY <1>0, <1>1, OtherTold, BothTold, Zenon
<1>2. ASSUME NEW b \in BOOLEAN, call'["R"] = NoCall, UNCHANGED <<hook, pull, request>>,
             Acts("R") => rec'["R"].self = b
      PROVE  \A v \in BOOLEAN : Claims("R", v)' => v = b
  <2>1. ~Owes("R")' => Acts("R")
    BY <1>2, ActsOrOwes, Zenon DEF Owes
  <2> QED
    BY <1>2, <2>1, NoCallFits, Zenon DEF Claims
<1>3. ASSUME NEW force \in BOOLEAN, NEW limit \in Limits, UpdateRead(force, limit)
      PROVE  \A q \in Peers : Told(q)'
  <2>1. OnlyOwn("R") /\ UNCHANGED <<pull, net, ext, dt, rec, seen>>
    BY <1>0, <1>3, Zenon DEF UpdateRead, OnlyOwn
  <2>2. Still("R") /\ Still("I")
    BY <1>0, <2>1, StillWhere, Zenon
  <2>3. /\ u'.op = "validate" /\ u'.step = 1 /\ u'.n = used.stamp + 1
        /\ used'.stamp = used.stamp + 1
    BY <1>0, <1>3, Zenon DEF UpdateRead, Going, Types, Plain
  <2>4. Told("R")'
    <3>1. Stamps("R")
      BY <1>0, <2>3, GoingStamps
    <3>2. \A v \in BOOLEAN : ~Claims("R", v)'
      BY <2>3 DEF Claims
    <3>3. Below(Other("R"), u'.n)
      BY <1>0, <2>3, GoingStamps, Zenon
    <3> QED
      BY <1>0, <2>2, <3>1, <3>2, <3>3, ToldKept, Zenon DEF Going
  <2> QED
    BY <1>1, <2>1, <2>2, <2>4, Zenon
<1>4. CASE UpdateRecord
  <2>1. OnlyOwn("R") /\ UNCHANGED <<pull, net, ext, dt, seen, used>>
    BY <1>0, <1>4, Zenon DEF UpdateRecord, Goes, OnlyOwn
  <2>2. \A q \in Peers : rec'[q].other = rec[q].other
    BY <1>0, <1>4, Zenon DEF UpdateRecord
  <2>3. Still("R") /\ Still("I")
    BY <1>0, <2>1, <2>2, StillWhere, Zenon
  <2>4. /\ u.op = "validate" /\ u.step = 1
        /\ u'.op = "validate" /\ u'.step = 2 /\ u'.n = u.n
    BY <1>0, <1>4 DEF UpdateRecord, Goes, Calls
  <2>5. Told("R")'
    <3>1. Stamps("R")
      BY <1>0, <2>1, <2>4, GoingStamps, Zenon
    <3>2. \A v \in BOOLEAN : ~Claims("R", v)'
      BY <2>4 DEF Claims
    <3>3. Below(Other("R"), u'.n)
      BY <1>0, <2>4, Zenon DEF Going, Told, Unsaid
    <3> QED
      BY <1>0, <2>3, <3>1, <3>2, <3>3, ToldKept, Zenon DEF Going
  <2> QED
    BY <1>1, <2>1, <2>3, <2>5, Zenon
<1>5. CASE UpdateResume
  <2>1. OnlyOwn("R") /\ UNCHANGED <<pull, request, hook, net, seen, rec, used>>
    BY <1>0, <1>5, Zenon DEF UpdateResume, Ends, resume, OnlyOwn
  <2>2. PICK m \in Msgs : m = Update(FALSE, u.n) /\ m.paused = FALSE /\ m.n = u.n
    <3>1. u.n \in Nat
      BY <1>0, Zenon DEF Calls
    <3>2. Update(FALSE, u.n) \in Msgs
      BY <3>1, UpdateIsMsg, Zenon
    <3> QED
      BY <3>2, Zenon DEF Update
  <2>3. resume("R", m)
    BY <1>5, <2>2, Zenon DEF UpdateResume
  <2>4. u.op = "validate" /\ u.step = 2 /\ u' = NoCall /\ ~u.stays /\ u.paused
    BY <1>0, <1>5, Zenon DEF UpdateResume, Ends
  <2>5. Acts("R") => gsPaused["R"] /\ rec'["R"].self = FALSE
    <3>1. ASSUME Acts("R") PROVE gsPaused["R"] = u.paused /\ rec["R"].self = u.stays
      BY <1>0, <2>4, <3>1, Zenon DEF Going, Agreeing, EndFits
    <3> QED
      BY <1>0, <2>1, <2>4, <3>1, Zenon DEF Calls
  <2>6. ~(~gsPaused["R"] /\ ~("R" = server /\ dt.requesterCancelled))
    <3>1. ~Acts("R") => "R" = server /\ request = "new"
      BY Zenon DEF Acts, requester, server, Other, Going, Types, TypeOK
    <3> QED
      BY <2>5, <3>1, Zenon DEF Going, Types, Requests
  <2>7. Still("R") /\ Adds("I", m)
    BY <1>0, <2>1, <2>3, <2>6, ResumeEffect, Zenon DEF Going
  <2>8. Told("R")'
    <3>1. Stamps("R") /\ ~Unsaid(u') /\ \A v \in BOOLEAN : Claims("R", v)' => v = FALSE
      BY <1>0, <1>2, <2>1, <2>4, <2>5, GoingStamps, NoCallFits, Zenon DEF Unsaid
    <3>2. Below("I", m.n)
      BY <1>0, <2>2, <2>4, Zenon DEF Going, Told, Unsaid
    <3>3. m.n <= used'.stamp
      BY <1>0, <2>1, <2>2, GoingStamps, Zenon
    <3> QED
      BY <1>0, <2>2, <2>7, <3>1, <3>2, <3>3, ToldNew, Zenon DEF Going
  <2> QED
    BY <1>1, <2>1, <2>7, <2>8, Zenon
<1>6. CASE UpdateSend
  <2>1. OnlyOwn("R") /\ UNCHANGED <<pull, request, hook, ext, dt, rec, seen, used>>
    BY <1>0, <1>6, Zenon DEF UpdateSend, Goes, Ends, OnlyOwn
  <2>2. PICK m \in Msgs : m = Update(u.stays, u.n) /\ m.paused = u.stays /\ m.n = u.n
    <3>1. u.stays \in BOOLEAN /\ u.n \in Nat
      BY <1>0, Zenon DEF Calls
    <3> QED
      BY <3>1, UpdateIsMsg
  <2>3. net' = net \cup {[to |-> "I", msg |-> m]}
    BY <1>6, <2>2, Zenon DEF UpdateSend
  <2>4. Adds("I", m) /\ Still("R")
    <3>1. Other("I") = "R"
      BY Zenon DEF Other
    <3> QED
      BY <1>0, <2>1, <2>3, <3>1, SendEffect, Zenon
  <2>5. u.op = "validate" /\ u.step = 2
    BY <1>6, Zenon DEF UpdateSend, Goes, Ends
  <2>6. ~Unsaid(u') /\ Stamps("R") /\ \A v \in BOOLEAN : Claims("R", v)' => v = m.paused
    <3>1. CASE u.stays /\ ~u.paused
      <4>1. Goes("R", "validate", 2)
        BY <1>6, <3>1, Zenon DEF UpdateSend
      <4>2. u'.op = "validate" /\ u'.step = 3 /\ u'.n = u.n
        BY <1>0, <4>1 DEF Goes, Calls
      <4>3. m.paused = TRUE
        BY <2>2, <3>1, Zenon DEF Msgs
      <4>4. Stamps("R")
        BY <1>0, <2>1, <4>2, GoingStamps, Zenon
      <4>5. ~Unsaid(u') /\ \A v \in BOOLEAN : Claims("R", v)' => v = TRUE
        BY <4>2 DEF Unsaid, Claims
      <4> QED
        BY <4>3, <4>4, <4>5, Zenon
    <3>2. CASE ~(u.stays /\ ~u.paused)
      <4>1. Ends("R", "validate", 2)
        BY <1>6, <3>2, Zenon DEF UpdateSend
      <4>2. u' = NoCall
        BY <1>0, <4>1, Zenon DEF Ends
      <4>3. Acts("R") => rec'["R"].self = m.paused
        BY <1>0, <2>1, <2>2, <2>5, Zenon DEF Going, Agreeing, EndFits
      <4>4. m.paused \in BOOLEAN
        BY Zenon DEF Msgs
      <4> QED
        BY <1>0, <1>2, <2>1, <4>2, <4>3, <4>4, GoingStamps, NoCallFits, Zenon DEF Unsaid
    <3> QED
      BY <3>1, <3>2, Zenon
  <2>7. Told("R")'
    <3>1. Below("I", m.n)
      BY <1>0, <2>2, <2>5, Zenon DEF Going, Told, Unsaid
    <3>2. m.n <= used'.stamp
      BY <1>0, <2>1, <2>2, GoingStamps, Zenon
    <3> QED
      BY <1>0, <2>4, <2>6, <3>1, <3>2, ToldNew, Zenon DEF Going
  <2> QED
    BY <1>1, <2>1, <2>4, <2>7, Zenon
<1>7. CASE UpdateSendFails
  BY <1>7, Zenon DEF UpdateSendFails, Going, Unexcused
<1>8. CASE UpdatePause
  <2>1. OnlyOwn("R") /\ UNCHANGED <<pull, request, hook, net, ext, dt, rec, seen, used>>
    BY <1>0, <1>8, Zenon DEF UpdatePause, Ends, pause, OnlyOwn
  <2>2. Still("R") /\ Still("I")
    BY <1>0, <2>1, StillWhere, Zenon
  <2>3. u.op = "validate" /\ u.step = 3 /\ u' = NoCall
    BY <1>0, <1>8, Zenon DEF UpdatePause, Ends
  <2>4. u.stays
    BY <1>0, <2>3, Zenon DEF Going, Types, CallsFit, CallFits
  <2>5. Acts("R") => rec'["R"].self = TRUE
    BY <1>0, <2>1, <2>3, <2>4, Zenon DEF Going, Agreeing, EndFits, Calls
  <2>6. Said("I", TRUE)
    BY <1>0, <2>3, Zenon DEF Going, Told, Claims
  <2>7. Told("R")'
    <3>1. Stamps("R") /\ ~Unsaid(u') /\ \A v \in BOOLEAN : Claims("R", v)' => v = TRUE
      BY <1>0, <1>2, <2>1, <2>3, <2>5, GoingStamps, NoCallFits, Zenon DEF Unsaid
    <3> QED
      BY <1>0, <2>2, <2>6, <3>1, ToldKept, Zenon DEF Going
  <2> QED
    BY <1>1, <2>1, <2>2, <2>7, Zenon
<1> QED
  BY <1>3, <1>4, <1>5, <1>6, <1>7, <1>8, Zenon

\* A step of nobody's call: messages may arrive, and none is owed less.
LEMMA StaysTold ==
  ASSUME Going, call' = call, \A q \in Peers : rec'[q].self = rec[q].self,
         Owes("R") => Owes("R")',
         \A q \in Peers : Still(q) \/ \E m \in Msgs : Takes(q, m)
  PROVE  \A q \in Peers : Told(q)'
<1> TAKE q \in Peers
<1>1. Other(q) \in Peers
  BY TwoPeers, Zenon
<1>2. used'.stamp \in Nat /\ used.stamp <= used'.stamp
  BY GoingStamps, Zenon DEF Going
<1>3. Owes(q) => Owes(q)'
  BY Zenon DEF Owes
<1> QED
  BY <1>1, <1>2, <1>3, ToldOn, Zenon DEF Going

\* The responder, with no call in progress, records its pause and sends it.
LEMMA AnswerTold ==
  ASSUME Going, NEW m \in Msgs, m.n = used.stamp + 1, used'.stamp = used.stamp + 1,
         Adds("I", m), Still("R"), call["R"] = NoCall, call' = call,
         rec'["R"].self = m.paused, rec'["I"].self = rec["I"].self
  PROVE  \A q \in Peers : Told(q)'
<1>0. /\ "R" \in Peers /\ "I" \in Peers /\ Other("R") = "I" /\ Other("I") = "R"
  BY Zenon DEF Peers, Other
<1>1. used'.stamp \in Nat /\ used.stamp <= used'.stamp
  BY <1>0, GoingStamps, Zenon DEF Going
<1>2. Told("I")'
  <2>1. ~Owes("I")
    BY Zenon DEF Owes
  <2> QED
    BY <1>0, <1>1, <2>1, ToldOn, Zenon DEF Going
<1>3. Told("R")'
  <2>1. Stamps("R") /\ Below("I", m.n)
    BY <1>0, GoingStamps, Zenon
  <2>2. ~Unsaid(call'["R"]) /\ \A v \in BOOLEAN : Claims("R", v)' => v = m.paused
    BY NoCallFits, Zenon DEF Unsaid, Claims
  <2>3. m.n <= used'.stamp
    BY <1>1
  <2> QED
    BY <1>0, <2>1, <2>2, <2>3, ToldNew, Zenon DEF Going
<1> QED
  BY <1>0, <1>2, <1>3, BothTold, Zenon

\* What is not raced meets no call.
LEMMA NoRace ==
  ASSUME NEW p, Unexcused', Races(p) \subseteq excuses'
  PROVE  call[p] = NoCall
  BY Zenon DEF Races, Unexcused

\* The data limit: the block that exceeds it makes the hook owe the message.
LEMMA HookTold ==
  ASSUME Going, Block \/ HookPauses \/ HookSendFails \/ LatePause
  PROVE  \A q \in Peers : Told(q)'
<1>0. /\ call \in [Peers -> Calls]
      /\ rec \in [Peers -> [self : BOOLEAN, other : BOOLEAN]]
      /\ "R" \in Peers /\ "I" \in Peers /\ Other("R") = "I" /\ Other("I") = "R"
  BY AgreeTypes, Zenon DEF Going, Peers, Other
<1>1. CASE Block
  <2>1. /\ UNCHANGED <<pull, net, ext, dt, call, seen, used>>
        /\ \A q \in Peers : rec'[q].other = rec[q].other
        /\ rec'["I"].self = rec["I"].self
    BY <1>0, <1>1, Zenon DEF Block
  <2>2. Still("R") /\ Still("I")
    BY <1>0, <2>1, StillWhere, Zenon
  <2>3. CASE data.limit # 0 /\ data.count + 1 >= data.limit
    <3>1. hook' = "current" /\ Races("R") \subseteq excuses'
      BY <1>1, <2>3, Zenon DEF Block
    <3>2. call'["R"] = NoCall
      BY <2>1, <3>1, NoRace, Zenon DEF Going
    <3>3. Told("R")'
      <4>1. Stamps("R") /\ ~Unsaid(call'["R"]) /\ \A v \in BOOLEAN : ~Claims("R", v)'
        BY <1>0, <3>1, <3>2, GoingStamps, NoCallFits, Zenon DEF Unsaid, Claims, Owes
      <4> QED
        BY <1>0, <2>2, <4>1, ToldKept, Zenon DEF Going
    <3>4. Told("I")'
      <4>1. ~Owes("I") /\ used'.stamp \in Nat /\ used.stamp <= used'.stamp
        BY <1>0, GoingStamps, Zenon DEF Owes, Going
      <4> QED
        BY <1>0, <2>1, <2>2, <4>1, ToldOn, Zenon DEF Going
    <3> QED
      BY <1>0, <3>3, <3>4, BothTold, Zenon
  <2>4. CASE ~(data.limit # 0 /\ data.count + 1 >= data.limit)
    <3>1. hook' = hook /\ rec' = rec /\ UNCHANGED <<pull, request>>
      BY <1>1, <2>4, Zenon DEF Block
    <3>2. \A q \in Peers : Still(q)
      BY <2>2, Zenon DEF Peers
    <3>3. Owes("R") => Owes("R")'
      BY <3>1, Zenon DEF Owes
    <3> QED
      BY <2>1, <3>1, <3>2, <3>3, StaysTold, Zenon
  <2> QED
    BY <2>3, <2>4, Zenon
<1>2. CASE HookPauses
  <2>1. /\ hook # "none" /\ hook' = "none" /\ UNCHANGED <<pull, rec, request, call>>
        /\ used'.stamp = used.stamp + 1 /\ Races("R") \subseteq excuses'
    BY <1>2, Zenon DEF HookPauses, Going, Types, Plain
  <2>2. call["R"] = NoCall
    BY <2>1, NoRace, Zenon DEF Going
  <2>3. PICK m \in Msgs : m = Update(TRUE, used.stamp + 1) /\ m.paused = TRUE
                          /\ m.n = used.stamp + 1
    <3>1. Update(TRUE, used.stamp + 1) \in Msgs
      BY NextStamp, Zenon DEF Going
    <3> QED
      BY <3>1, Zenon DEF Update
  <2>4. Still("R") /\ IF hook = "current" \/ ~pull THEN Adds("I", m) ELSE Still("I")
    BY <1>2, <2>3, HookEffect, Zenon DEF Going
  <2>5. CASE hook = "current" \/ ~pull
    <3>1. rec'["R"].self = m.paused
      BY <1>0, <2>1, <2>3, Zenon DEF Going, Agreeing, HookFits
    <3>2. Adds("I", m)
      BY <2>4, <2>5, Zenon
    <3> QED
      BY <2>1, <2>2, <2>3, <2>4, <3>1, <3>2, AnswerTold, Zenon
  <2>6. CASE ~(hook = "current" \/ ~pull)
    <3>1. Owes("R") => Owes("R")'
      BY <2>1, <2>6, Zenon DEF Owes
    <3>2. \A q \in Peers : Still(q)
      BY <2>4, <2>6, Zenon DEF Peers
    <3> QED
      BY <2>1, <3>1, <3>2, StaysTold, Zenon
  <2> QED
    BY <2>5, <2>6, Zenon
<1>3. CASE HookSendFails
  BY <1>3, Zenon DEF HookSendFails, Going, Unexcused
<1>4. CASE LatePause
  <2>1. UNCHANGED <<pull, request, hook, net, ext, dt, rec, call, seen, used>>
    BY <1>4, Zenon DEF LatePause
  <2>2. \A q \in Peers : Still(q)
    BY <2>1, StillWhere, Zenon
  <2>3. Owes("R") => Owes("R")'
    BY <2>1, Zenon DEF Owes
  <2> QED
    BY <2>1, <2>2, <2>3, StaysTold, Zenon
<1> QED
  BY <1>1, <1>2, <1>3, <1>4, Zenon

\* Messages that arrive, and the request to restart a push.
LEMMA MessageTold ==
  ASSUME Going, \/ \E d \in net : ReceiveMessage(d)
                \/ RequestUpdated \/ IncomingResponse \/ RestartPush
  PROVE  \A q \in Peers : Told(q)'
<1>1. ASSUME NEW d \in net, ReceiveMessage(d) PROVE \A q \in Peers : Told(q)'
  <2>1. UNCHANGED <<pull, request, hook, call>>
    BY <1>1, Zenon DEF ReceiveMessage
  <2>2. /\ d.to \in Peers /\ d.msg \in Msgs /\ Takes(d.to, d.msg) /\ Still(Other(d.to))
        /\ \A q \in Peers : rec'[q].self = rec[q].self
    BY <1>1, ReceiveEffect, Zenon DEF Going
  <2>3. \A q \in Peers : Still(q) \/ \E m \in Msgs : Takes(q, m)
    <3>1. \A q \in Peers : q = d.to \/ q = Other(d.to)
      BY <2>2 DEF Peers, Other
    <3> QED
      BY <2>2, <3>1, Zenon
  <2>4. Owes("R") => Owes("R")'
    BY <2>1, Zenon DEF Owes
  <2> QED
    BY <2>1, <2>2, <2>3, <2>4, StaysTold, Zenon
<1>2. CASE RequestUpdated \/ IncomingResponse
  <2>1. UNCHANGED <<pull, hook, call>> /\ request = "open"
    BY <1>2, Zenon DEF RequestUpdated, IncomingResponse
  <2>2. PICK p \in Peers, m \in Msgs : /\ Takes(p, m) /\ Still(Other(p))
                                       /\ \A q \in Peers : rec'[q].self = rec[q].self
    BY <1>2, ExtEffect, Zenon DEF Going
  <2>3. \A q \in Peers : Still(q) \/ \E k \in Msgs : Takes(q, k)
    <3>1. \A q \in Peers : q = p \/ q = Other(p)
      BY <2>2 DEF Peers, Other
    <3> QED
      BY <2>2, <3>1, Zenon
  <2>4. Owes("R") => Owes("R")'
    BY <2>1, Zenon DEF Owes
  <2> QED
    BY <2>1, <2>2, <2>3, <2>4, StaysTold, Zenon
<1>3. CASE RestartPush
  <2>1. /\ UNCHANGED <<pull, request, hook, call, rec, seen, ext, dt>>
        /\ net' = net \cup {[to |-> "R", msg |-> Restart]}
    BY <1>3, Zenon DEF RestartPush
  <2>2. \A q \in Peers : Still(q)
    <3>1. \A q \in Peers : {e \in net' : e.to = q /\ e.msg # Restart}
                             = {e \in net : e.to = q /\ e.msg # Restart}
      BY <2>1
    <3> QED
      BY <2>1, <3>1, Zenon DEF Still, Pending, requester, server
  <2>3. Owes("R") => Owes("R")'
    BY <2>1, Zenon DEF Owes
  <2> QED
    BY <2>1, <2>2, <2>3, StaysTold, Zenon
<1> QED
  BY <1>1, <1>2, <1>3, Zenon

\* Restarts.  The responder of a pull owes the answer; that of a push gives it with
\* the new request.
LEMMA RestartTold ==
  ASSUME Going, RestartPull \/ \E d \in net, force \in BOOLEAN : ReceiveRestart(d, force)
  PROVE  \A q \in Peers : Told(q)'
<1>1. CASE RestartPull
  <2>1. UNCHANGED <<pull, call, rec>> /\ pull /\ request' = "new"
    BY <1>1, Zenon DEF RestartPull, Reopens
  <2>2. \A q \in Peers : Still(q)
    BY <1>1, RestartPullEffect, Zenon DEF Going
  <2>3. Owes("R")'
    BY <2>1, Zenon DEF Owes
  <2> QED
    BY <2>1, <2>2, <2>3, StaysTold, Zenon
<1>2. ASSUME NEW d \in net, NEW force \in BOOLEAN, ReceiveRestart(d, force)
      PROVE  \A q \in Peers : Told(q)'
  <2> DEFINE stays == LeaveRequestPaused(force, data.limit)
  <2>1. /\ UNCHANGED call /\ used'.stamp = used.stamp + 1
        /\ rec' = [rec EXCEPT !["R"].self = stays]
        /\ Reopens(<<Update(stays, used.stamp + 1)>>, stays /\ ~force)
    BY <1>2, Zenon DEF ReceiveRestart, Going, Types, Plain
  <2>2. stays \in BOOLEAN
    BY Zenon DEF LeaveRequestPaused
  <2>3. Update(stays, used.stamp + 1) \in Msgs
    BY <2>2, NextStamp, Zenon DEF Going
  <2>4. Adds("I", Update(stays, used.stamp + 1)) /\ Still("R")
    BY <1>2, RestartPushEffect, Zenon DEF Going
  <2> HIDE DEF stays
  <2>5. PICK m \in Msgs : /\ m = Update(stays, used.stamp + 1)
                          /\ m.paused = stays /\ m.n = used.stamp + 1
    BY <2>3, Zenon DEF Update
  <2>6. call["R"] = NoCall
    BY <2>1, NoRace, Zenon DEF Going, Reopens
  <2>7. rec'["R"].self = m.paused /\ rec'["I"].self = rec["I"].self
    BY <2>1, <2>5, AgreeTypes, Zenon DEF Going, Peers
  <2> QED
    BY <2>1, <2>4, <2>5, <2>6, <2>7, AnswerTold, Zenon
<1> QED
  BY <1>1, <1>2, Zenon

\* The new request arrives: the responder of a pull answers it, the initiator of a
\* push reads the answer it carries.
LEMMA ServesTold ==
  ASSUME Going, ReceivePush \/ \E force \in BOOLEAN : ReceivePull(force)
  PROVE  \A q \in Peers : Told(q)'
<1>1. CASE ReceivePush
  <2>1. UNCHANGED <<pull, hook, call>> /\ ~pull
    BY <1>1, Zenon DEF ReceivePush
  <2>2. PICK m \in Msgs : /\ Takes("I", m) /\ Still("R")
                          /\ \A q \in Peers : rec'[q].self = rec[q].self
    BY <1>1, PushEffect, Zenon DEF Going
  <2>3. \A q \in Peers : Still(q) \/ \E k \in Msgs : Takes(q, k)
    BY <2>2, Zenon DEF Peers
  <2>4. Owes("R") => Owes("R")'
    BY <2>1, Zenon DEF Owes
  <2> QED
    BY <2>1, <2>2, <2>3, <2>4, StaysTold, Zenon
<1>2. ASSUME NEW force \in BOOLEAN, ReceivePull(force) PROVE \A q \in Peers : Told(q)'
  <2> DEFINE stays == LeaveRequestPaused(force, data.limit)
  <2>1. /\ UNCHANGED call /\ used'.stamp = used.stamp + 1 /\ Races("R") \subseteq excuses'
        /\ rec' = [rec EXCEPT !["R"].self = stays]
    BY <1>2, Zenon DEF ReceivePull, Going, Types, Plain
  <2>2. stays \in BOOLEAN
    BY Zenon DEF LeaveRequestPaused
  <2>3. Update(stays, used.stamp + 1) \in Msgs
    BY <2>2, NextStamp, Zenon DEF Going
  <2>4. Adds("I", Update(stays, used.stamp + 1)) /\ Still("R")
    BY <1>2, PullEffect, Zenon DEF Going
  <2> HIDE DEF stays
  <2>5. PICK m \in Msgs : /\ m = Update(stays, used.stamp + 1)
                          /\ m.paused = stays /\ m.n = used.stamp + 1
    BY <2>3, Zenon DEF Update
  <2>6. call["R"] = NoCall
    BY <2>1, NoRace, Zenon DEF Going
  <2>7. rec'["R"].self = m.paused /\ rec'["I"].self = rec["I"].self
    BY <2>1, <2>5, AgreeTypes, Zenon DEF Going, Peers
  <2> QED
    BY <2>1, <2>4, <2>5, <2>6, <2>7, AnswerTold, Zenon
<1> QED
  BY <1>1, <1>2, Zenon

\* A request that failed is not opened again.
LEMMA RequestsEnd == ASSUME Types, Next, request' # "failed" PROVE request # "failed"
  BY ZenonT(60) DEF Next, PauseTransport, PauseSend, PauseSendFails, PauseRecord,
     ResumeTransport,
     ResumeRecord, UpdateRead, UpdateRecord, UpdateResume, UpdateSend, UpdateSendFails,
     UpdatePause, Block, HookPauses, HookSendFails, ReceiveMessage, ReceiveRestart,
     LatePause, RequestUpdated, IncomingResponse, RestartPull, RestartPush, ReceivePush,
     ReceivePull, Starts, Reopens, Serves

\* Stamps are given in order.
LEMMA StampsGrow == ASSUME Types, Next PROVE used.stamp <= used'.stamp
<1>1. used.stamp \in Nat /\ used.stamp <= used.stamp + 1 /\ used.stamp <= used.stamp
  BY NextStamp
<1>2. used'.stamp = used.stamp \/ used'.stamp = used.stamp + 1
  BY ZenonT(60) DEF Types, Plain, Next, PauseTransport, PauseSend, PauseSendFails, PauseRecord,
     ResumeTransport, ResumeRecord, UpdateRead, UpdateRecord, UpdateResume, UpdateSend,
     UpdateSendFails, UpdatePause, Block, HookPauses, HookSendFails, ReceiveMessage,
     ReceiveRestart, LatePause, RequestUpdated, IncomingResponse, RestartPull,
     RestartPush, ReceivePush, ReceivePull, Starts
<1> QED
  BY <1>1, <1>2, Zenon

\* A new channel: the initiator knows of the responder's pause by its answer.
LEMMA InitTold == Init => ToldInv
<1> SUFFICES ASSUME Init, NEW q \in Peers PROVE Told(q)
  BY Zenon DEF ToldInv
<1>1. Other(q) \in Peers /\ Other(q) # q
  BY TwoPeers, Zenon
<1>2. Pending(Other(q)) = {}
  BY <1>1, ElemsFacts DEF Init, Pending
<1>3. call[q] = NoCall /\ used.stamp = 0 /\ seen[Other(q)] = 0
  BY <1>1, Zenon DEF Init
<1>4. rec[Other(q)].other = rec[q].self
  BY <1>1 DEF Init, Peers, Other
<1>5. Below(Other(q), used.stamp + 1)
  BY <1>2, <1>3 DEF Below
<1>6. call[q].n <= used.stamp /\ ~Unsaid(call[q])
  BY <1>3 DEF NoCall, Unsaid
<1>7. ASSUME NEW v \in BOOLEAN, Claims(q, v) PROVE Said(Other(q), v)
  <2>1. v = rec[q].self
    BY <1>3, <1>7 DEF Claims, NoCall
  <2> QED
    BY <1>2, <1>4, <2>1, Zenon DEF Said
<1> QED
  BY <1>5, <1>6, <1>7, Zenon DEF Told

\* Every step keeps what is told, or owed.
LEMMA NextTold == Types /\ AgreeInv /\ ToldInv /\ [Next]_vars => ToldInv'
<1>1. ASSUME Types, AgreeInv, ToldInv, Next, Unexcused', request' # "failed"
      PROVE  \A q \in Peers : Told(q)'
  <2>1. Unexcused
    BY <1>1, ExcusesGrow, Zenon DEF Unexcused
  <2>2. Agreeing
    BY <1>1, <2>1, Zenon DEF AgreeInv, InOrderOrNot, Unexcused
  <2>3. request # "failed"
    BY <1>1, RequestsEnd, Zenon
  <2>4. Types'
    BY <1>1, NextTypes, Zenon
  <2>5. used.stamp <= used'.stamp
    BY <1>1, StampsGrow, Zenon
  <2>6. Going
    BY <1>1, <2>1, <2>2, <2>3, <2>4, <2>5, ZenonT(60) DEF Going, ToldInv
  <2> QED
    BY <1>1, <2>6, PauseTold, ResumeTold, UpdateTold, HookTold, MessageTold, RestartTold,
       ServesTold, ZenonT(60) DEF Next
<1>2. ASSUME ToldInv, UNCHANGED vars PROVE ToldInv'
  BY <1>2 DEF vars, ToldInv, Unexcused, Told, Claims, Owes, Said, Below, Unsaid, Pending,
     requester, server
<1> QED
  BY <1>1, <1>2, Zenon DEF ToldInv

\* What is told is told in every state.
LEMMA ToldInvariance == Spec => []ToldInv
  BY InitTold, NextTold, TypesInvariance, AgreeInvariance, PTL DEF Spec

\* The peers agree on who paused the channel.  However many calls, updates, limits
\* and restarts meet, once all is settled and their messages arrived in order each
\* peer records of the other what the other records of itself (RecordsAgree:
\* pauseOther and resumeOther against pause, resume, recordAcceptedValidationEvents
\* and the data limit).
THEOREM PeersAgreeOnPauses == Spec => []RecordsAgree
<1>1. Types /\ ToldInv => RecordsAgree
  <2> SUFFICES ASSUME Types, ToldInv, Settled, Unexcused, NEW p \in Peers
               PROVE  rec[p].other = rec[Other(p)].self
    BY Zenon DEF RecordsAgree
  <2> DEFINE q == Other(p)
  <2>1. q \in Peers /\ Other(q) = p
    BY TwoPeers, Zenon
  <2>2. Told(q) /\ request = "open" /\ call[q] = NoCall /\ hook = "none"
    BY <2>1, Zenon DEF ToldInv, Settled
  <2>3. dt.pendingExtensions = << >>
    BY <2>2, Zenon DEF Types, TypeOK, Requests
  <2>4. Pending(p) = {}
    BY <2>3, ElemsFacts, Zenon DEF Settled, Pending
  <2>5. rec[q].self \in BOOLEAN
    BY <2>1, Zenon DEF Types, TypeOK
  <2>6. Claims(q, rec[q].self)
    BY <2>2 DEF Claims, Owes, NoCall
  <2>7. Said(p, rec[q].self)
    BY <2>1, <2>2, <2>5, <2>6, Zenon DEF Told
  <2> QED
    BY <2>4, <2>7, Zenon DEF Said
<1> QED
  BY <1>1, TypesInvariance, ToldInvariance, PTL

=============================================================================
