---------------------------- MODULE ChannelStore ----------------------------
(***************************************************************************)
(* The channels on disk: what the generated encoders write and read        *)
(* (channels/internal/internalchannel_cbor_gen.go, types_cbor_gen.go and   *)
(* the version 2 encoders of channels/internal/migrations), the migration  *)
(* of a store of an older version when the manager starts, and the state   *)
(* machine's load, change and save of a channel, with the timeline of      *)
(* stages it keeps.  The process may crash between any two writes.         *)
(*                                                                         *)
(* A CBOR item is a tuple of its major type and its content; a map is the  *)
(* function from its keys.  A text is a sequence of words, and its length  *)
(* counts them.  Nil is Go's nil; a node is Nil, "null" or data.  Times    *)
(* are left out.  The number of fields of a struct is far below MaxLength  *)
(* in the program, and is not compared with it here.                       *)
(***************************************************************************)
EXTENDS Integers, Sequences, FiniteSets, TLC

CONSTANTS
  Channels,
  Nil,
  MaxLength,    \* cbg.MaxLength: no longer text or slice is written or read
  OldStores,    \* what version 2 of the program may have left in its store:
                \* the state of each channel, or Nil
  Inputs,       \* the events that happen, records [code, arg, text]
  MaxEvents,
  MaxCrashes

ASSUME MaxLengthAssumption == MaxLength \in Nat \ {0}

VARIABLES
  version,      \* the version key of the store
  data,         \* what is stored under each version
  ready,        \* the process runs and Start has returned
  copied,       \* the channels the migration under way has written
  stopped,      \* the channels whose state machine has ended
  meant,        \* what each channel should hold: its old state and its events
  crashes, events

vars == <<version, data, ready, copied, stopped, meant, crashes, events>>

\* The event table, for the statuses an event is accepted in.
Table == INSTANCE ChannelEvents

-----------------------------------------------------------------------------
\* Writing.  A text or slice that is too long is an error, and a container of
\* something that cannot be written cannot be written.
Failed == <<"error">>

Null == <<"null">>

Text(s) == IF Len(s) > MaxLength THEN Failed ELSE <<"text", s>>

Whole(major, items) ==
  IF \E i \in DOMAIN items : items[i] = Failed THEN Failed ELSE <<major, items>>

Slice(items) == IF Len(items) > MaxLength THEN Failed ELSE Whole("array", items)

\* An IPLD node; one that is nil is written as null.
MarshalNode(n) == IF n \in {Nil, "null"} THEN Null ELSE <<"node", n>>

MarshalVoucher(v) ==
  Whole("map", [Type |-> Text(v.Type), Voucher |-> MarshalNode(v.Voucher)])

MarshalVoucherResult(v) ==
  Whole("map", [Type |-> Text(v.Type), VoucherResult |-> MarshalNode(v.VoucherResult)])

MarshalLog(l) == Whole("array", <<Text(l)>>)

MarshalStage(s) ==
  Whole("array", <<Text(s.Name),
                   Slice([i \in DOMAIN s.Logs |-> MarshalLog(s.Logs[i])])>>)

MarshalStages(ss) ==
  IF ss = Nil THEN Null
  ELSE Whole("array", <<Slice([i \in DOMAIN ss |-> MarshalStage(ss[i])])>>)

\* The statuses in the order of their numbers.
StatusList ==
  <<"Requested", "Ongoing", "TransferFinished", "ResponderCompleted",
    "Finalizing", "Completing", "Completed", "Failing", "Failed",
    "Cancelling", "Cancelled", "InitiatorPaused", "ResponderPaused",
    "BothPaused", "ResponderFinalizing", "ResponderFinalizingTransferFinished",
    "ChannelNotFoundError", "Queued", "AwaitingAcceptance">>

StatusNumber(s) == (CHOOSE i \in DOMAIN StatusList : StatusList[i] = s) - 1

Write(kind, v) ==
  CASE kind = "text" -> Text(v)
    [] kind = "uint" -> <<"uint", v>>
    [] kind = "int" -> IF v >= 0 THEN <<"uint", v>> ELSE <<"negative", -v - 1>>
    [] kind = "status" -> <<"uint", StatusNumber(v)>>
    [] kind = "bool" -> <<"other", IF v THEN 21 ELSE 20>>
    [] kind = "cid" -> <<"link", v>>
    [] kind = "node" -> MarshalNode(v)
    [] kind = "vouchers" -> Slice([i \in DOMAIN v |-> MarshalVoucher(v[i])])
    [] kind = "results" -> Slice([i \in DOMAIN v |-> MarshalVoucherResult(v[i])])
    [] kind = "stages" -> MarshalStages(v)

\* The fields of a channel and their kinds: what was agreed, ...
TermFields ==
  [SelfPeer |-> "text", TransferID |-> "uint", Initiator |-> "text",
   Responder |-> "text", BaseCid |-> "cid", Selector |-> "node",
   Sender |-> "text", Recipient |-> "text"]

\* ... how far it got, ...
ProgressFields ==
  [TotalSize |-> "uint", Status |-> "status", Queued |-> "uint",
   Sent |-> "uint", Received |-> "uint", Message |-> "text"]

\* ... the vouchers, their results and the blocks, ...
VoucherFields ==
  [Vouchers |-> "vouchers", VoucherResults |-> "results",
   ReceivedBlocksTotal |-> "int", QueuedBlocksTotal |-> "int",
   SentBlocksTotal |-> "int"]

\* ... and what controls it.  Version 2 had no flags for the pauses.
ControlFieldsV2 ==
  [DataLimit |-> "uint", RequiresFinalization |-> "bool", Stages |-> "stages"]

ControlFields ==
  [DataLimit |-> "uint", RequiresFinalization |-> "bool",
   ResponderPaused |-> "bool", InitiatorPaused |-> "bool", Stages |-> "stages"]

KindsV2 == TermFields @@ ProgressFields @@ VoucherFields @@ ControlFieldsV2

Kinds == TermFields @@ ProgressFields @@ VoucherFields @@ ControlFields

MarshalV2(st) == Whole("map", [n \in DOMAIN KindsV2 |-> Write(KindsV2[n], st[n])])

MarshalCBOR(st) == Whole("map", [n \in DOMAIN Kinds |-> Write(Kinds[n], st[n])])

-----------------------------------------------------------------------------
\* Reading: what is accepted, and what it is read as.
IsText(i) == i[1] = "text" /\ Len(i[2]) <= MaxLength

IsSlice(i) == i[1] = "array" /\ Len(i[2]) <= MaxLength

IsVoucher(i) == i[1] = "map" /\ ("Type" \in DOMAIN i[2] => IsText(i[2].Type))

IsLog(i) == i[1] = "array" /\ Len(i[2]) = 1 /\ IsText(i[2][1])

IsStage(i) ==
  /\ i[1] = "array" /\ Len(i[2]) = 2
  /\ IsText(i[2][1])
  /\ IsSlice(i[2][2]) /\ \A k \in DOMAIN i[2][2][2] : IsLog(i[2][2][2][k])

\* Mutant of IsStages: the pointer is read as the struct.
IsStagesStruct(i) ==
  /\ i[1] = "array" /\ Len(i[2]) = 1
  /\ IsSlice(i[2][1]) /\ \A k \in DOMAIN i[2][1][2] : IsStage(i[2][1][2][k])

\* Stages is a pointer: null leaves it nil.
IsStages(i) ==
  i = Null \/
  /\ i[1] = "array" /\ Len(i[2]) = 1
  /\ IsSlice(i[2][1]) /\ \A k \in DOMAIN i[2][1][2] : IsStage(i[2][1][2][k])

Readable(kind, i) ==
  CASE kind = "text" -> IsText(i)
    [] kind \in {"uint", "status"} -> i[1] = "uint"
    [] kind = "int" -> i[1] \in {"uint", "negative"}
    [] kind = "bool" -> i[1] = "other" /\ i[2] \in {20, 21}
    [] kind = "cid" -> i[1] = "link"
    [] kind = "node" -> i # Failed
    [] kind \in {"vouchers", "results"} ->
         IsSlice(i) /\ \A k \in DOMAIN i[2] : IsVoucher(i[2][k])
    [] kind = "stages" -> IsStages(i)

UnmarshalNode(i) == IF i = Null THEN "null" ELSE i[2]

UnmarshalVoucher(i) ==
  [Type |-> i[2].Type[2], Voucher |-> UnmarshalNode(i[2].Voucher)]

UnmarshalVoucherResult(i) ==
  [Type |-> i[2].Type[2], VoucherResult |-> UnmarshalNode(i[2].VoucherResult)]

UnmarshalStage(i) ==
  [Name |-> i[2][1][2],
   Logs |-> [k \in DOMAIN i[2][2][2] |-> i[2][2][2][k][2][1][2]]]

UnmarshalStages(i) ==
  IF i = Null THEN Nil
  ELSE [k \in DOMAIN i[2][1][2] |-> UnmarshalStage(i[2][1][2][k])]

Read(kind, i) ==
  CASE kind \in {"text", "uint", "cid"} -> i[2]
    [] kind = "int" -> IF i[1] = "uint" THEN i[2] ELSE -1 - i[2]
    [] kind = "status" -> StatusList[i[2] + 1]
    [] kind = "bool" -> i[2] = 21
    [] kind = "node" -> UnmarshalNode(i)
    [] kind = "vouchers" -> [k \in DOMAIN i[2] |-> UnmarshalVoucher(i[2][k])]
    [] kind = "results" -> [k \in DOMAIN i[2] |-> UnmarshalVoucherResult(i[2][k])]
    [] kind = "stages" -> UnmarshalStages(i)

\* A field that is missing keeps Go's zero value.
Zero(kind) ==
  CASE kind \in {"text", "vouchers", "results"} -> <<>>
    [] kind \in {"uint", "int"} -> 0
    [] kind = "status" -> "Requested"
    [] kind = "bool" -> FALSE
    [] kind \in {"cid", "node", "stages"} -> Nil

CanRead(kinds, i) ==
  i[1] = "map" /\ \A n \in DOMAIN i[2] \cap DOMAIN kinds : Readable(kinds[n], i[2][n])

ReadStruct(kinds, i) ==
  [n \in DOMAIN kinds |->
     IF n \in DOMAIN i[2] THEN Read(kinds[n], i[2][n]) ELSE Zero(kinds[n])]

UnmarshalV2(i) == ReadStruct(KindsV2, i)

UnmarshalCBOR(i) == ReadStruct(Kinds, i)

-----------------------------------------------------------------------------
\* The migrations.  The unversioned stores are of version 2 already.
NoOpChannelState0To2(st) == st

PausedStatuses == {"InitiatorPaused", "ResponderPaused", "BothPaused"}

\* Mutants of MigrateChannelState2To3: a channel that both had paused comes
\* back as paused by nobody; the paused status is kept.
MigrateForgetsBoth(st) ==
  [n \in DOMAIN Kinds |->
     CASE n = "ResponderPaused" -> st.Status = "ResponderPaused"
       [] n = "InitiatorPaused" -> st.Status = "InitiatorPaused"
       [] n = "Status" -> IF st.Status \in PausedStatuses THEN "Ongoing" ELSE st.Status
       [] OTHER -> st[n]]

MigrateKeepsStatus(st) ==
  [n \in DOMAIN Kinds |->
     CASE n = "ResponderPaused" -> st.Status \in {"ResponderPaused", "BothPaused"}
       [] n = "InitiatorPaused" -> st.Status \in {"InitiatorPaused", "BothPaused"}
       [] OTHER -> st[n]]

\* The paused statuses became flags of a channel that is Ongoing.
MigrateChannelState2To3(st) ==
  [n \in DOMAIN Kinds |->
     CASE n = "ResponderPaused" -> st.Status \in {"ResponderPaused", "BothPaused"}
       [] n = "InitiatorPaused" -> st.Status \in {"InitiatorPaused", "BothPaused"}
       [] n = "Status" -> IF st.Status \in PausedStatuses THEN "Ongoing" ELSE st.Status
       [] OTHER -> st[n]]

\* The versions of the store, each with the one its migration leads to; "0" is
\* a store without a version.
NextVersion == ("0" :> "2") @@ ("2" :> "3")

Versions == {"0", "2", "3"}

Migrated(from, i) ==
  IF from = "0" THEN MarshalV2(NoOpChannelState0To2(UnmarshalV2(i)))
  ELSE MarshalCBOR(MigrateChannelState2To3(UnmarshalV2(i)))

-----------------------------------------------------------------------------
\* The timeline.
\* Mutant of GetStage: only the last stage is looked at.
GetLastStage(ss, name) ==
  {i \in DOMAIN ss : i = Len(ss) /\ ss[i].Name = name}

\* The position of the stage of that name, as a set: empty if there is none.
GetStage(ss, name) ==
  {i \in DOMAIN ss : ss[i].Name = name /\ \A j \in 1..(i - 1) : ss[j].Name # name}

\* A log that repeats the last one, and an empty one, only makes sure that the
\* stage is there.
AddLog(ss, name, msg) ==
  IF ss = Nil THEN Nil
  ELSE LET known == IF GetStage(ss, name) = {}
                    THEN Append(ss, [Name |-> name, Logs |-> <<>>]) ELSE ss
           at == CHOOSE i \in GetStage(known, name) : TRUE
           logs == known[at].Logs
       IN IF msg = <<>> \/ (logs # <<>> /\ logs[Len(logs)] = msg) THEN known
          ELSE [known EXCEPT ![at].Logs = Append(@, msg)]

\* The words the action of an event logs, the text it stores included.
LogOf(e) ==
  CASE e.code = "DataReceivedProgress" -> <<"received">>
    [] e.code = "DataSentProgress" -> <<"sending">>
    [] e.code = "NewVoucher" -> <<"voucher">>
    [] e.code = "NewVoucherResult" -> <<"result">>
    [] e.code \in Table!ErrorCodes -> <<e.code>> \o e.text
    [] OTHER -> <<>>

\* What the action of e stores in the fields.
Stored(st, e) ==
  CASE e.code \in Table!ErrorCodes -> [st EXCEPT !.Message = e.text]
    [] e.code \in {"Restart", "Opened"} -> [st EXCEPT !.Message = <<>>]
    [] e.code = "NewVoucher" ->
         [st EXCEPT !.Vouchers = Append(@, [Type |-> <<"v">>, Voucher |-> "node"])]
    [] e.code = "NewVoucherResult" ->
         [st EXCEPT !.VoucherResults =
            Append(@, [Type |-> <<"r">>, VoucherResult |-> "null"])]
    [] OTHER -> Table!Action(st, e)

\* The state after an accepted event: the action runs, and logs to the stage
\* of the status it finds, before the status changes.
AfterEvent(st, e) ==
  LET d == Table!Destination(e.code, st.Status)
      acted == Stored(st, e)
  IN [acted EXCEPT
        !.Stages = AddLog(@, <<st.Status>>, LogOf(e)),
        !.Status = IF d \in {"NoChange", "JustRecord"} THEN @ ELSE d]

-----------------------------------------------------------------------------
\* What a channel of version 2 meant: the pauses its status stood for.
PausedBy ==
  [InitiatorPaused |-> {"initiator"}, ResponderPaused |-> {"responder"},
   BothPaused |-> {"initiator", "responder"}]

Meaning(st) ==
  LET paused == IF st.Status \in DOMAIN PausedBy THEN PausedBy[st.Status] ELSE {}
  IN [st EXCEPT !.Status = IF paused = {} THEN @ ELSE "Ongoing"]
     @@ [InitiatorPaused |-> "initiator" \in paused,
         ResponderPaused |-> "responder" \in paused]

\* The state CreateNew begins a channel with.
NewState ==
  [n \in DOMAIN Kinds |->
     CASE n \in {"SelfPeer", "Initiator", "Recipient"} -> <<"self">>
       [] n \in {"Responder", "Sender"} -> <<"other">>
       [] n = "TransferID" -> 1
       [] n = "BaseCid" -> "cid"
       [] n = "Selector" -> "node"
       [] n = "Stages" -> <<>>
       [] n = "Vouchers" -> <<[Type |-> <<"v">>, Voucher |-> "node"]>>
       [] OTHER -> Zero(Kinds[n])]

\* A store of one of the older versions, or a new one.
Init ==
  \E old \in OldStores :
    /\ version \in (IF \A c \in Channels : old[c] = Nil THEN {"3"} ELSE {"0", "2"})
    /\ data = [v \in Versions |-> [c \in Channels |->
                IF v = version /\ old[c] # Nil THEN MarshalV2(old[c]) ELSE Nil]]
    /\ meant = [c \in Channels |-> IF old[c] = Nil THEN Nil ELSE Meaning(old[c])]
    /\ ready = FALSE /\ copied = {} /\ stopped = {}
    /\ crashes = 0 /\ events = 0

\* Start: the migration under way writes a record under the next version.
CopyRecord(c) ==
  /\ ~ready /\ version \in DOMAIN NextVersion
  /\ c \notin copied /\ data[version][c] # Nil
  /\ CanRead(KindsV2, data[version][c])
  /\ Migrated(version, data[version][c]) # Failed
  /\ data' = [data EXCEPT ![NextVersion[version]][c] =
                Migrated(version, data[version][c])]
  /\ copied' = copied \cup {c}
  /\ UNCHANGED <<version, ready, stopped, meant, crashes, events>>

\* Start: all records are written, and the version moves.
MoveVersion ==
  /\ ~ready /\ version \in DOMAIN NextVersion
  /\ copied = {c \in Channels : data[version][c] # Nil}
  /\ version' = NextVersion[version]
  /\ copied' = {}
  /\ UNCHANGED <<data, ready, stopped, meant, crashes, events>>

\* Start: the records of a version that was left are deleted.
DropOld(v) ==
  /\ ~ready
  /\ v # version /\ ~(version \in DOMAIN NextVersion /\ NextVersion[version] = v)
  /\ \E c \in Channels : data[v][c] # Nil
  /\ data' = [data EXCEPT ![v] = [c \in Channels |-> Nil]]
  /\ UNCHANGED <<version, ready, copied, stopped, meant, crashes, events>>

Start ==
  /\ ~ready /\ version = "3"
  /\ ready' = TRUE
  /\ UNCHANGED <<version, data, copied, stopped, meant, crashes, events>>

\* CreateNew: Begin stores the new channel, and Open is its first event.
CreateNew(c) ==
  LET st == AfterEvent(NewState, [code |-> "Open", arg |-> 0, text |-> <<>>]) IN
  /\ ready /\ data["3"][c] = Nil /\ meant[c] = Nil
  /\ data' = [data EXCEPT !["3"][c] = MarshalCBOR(st)]
  /\ meant' = [meant EXCEPT ![c] = st]
  /\ UNCHANGED <<version, ready, copied, stopped, crashes, events>>

\* The state machine processes an event: it loads the channel, changes it and
\* saves it.  When it cannot be saved nothing is, and the machine ends.
Process(c, e) ==
  /\ ready /\ c \notin stopped /\ events < MaxEvents
  /\ data["3"][c] # Nil /\ CanRead(Kinds, data["3"][c])
  /\ LET st == UnmarshalCBOR(data["3"][c])
         bytes == MarshalCBOR(AfterEvent(st, e))
     IN /\ ~Table!IsChannelTerminated(st.Status)
        /\ Table!Destination(e.code, st.Status) # "Rejected"
        /\ IF bytes = Failed
           THEN stopped' = stopped \cup {c} /\ UNCHANGED <<data, meant>>
           ELSE /\ data' = [data EXCEPT !["3"][c] = bytes]
                /\ meant' = [meant EXCEPT ![c] = AfterEvent(@, e)]
                /\ UNCHANGED stopped
  /\ events' = events + 1
  /\ UNCHANGED <<version, ready, copied, crashes>>

\* The process dies and is started again.
Crash ==
  /\ crashes < MaxCrashes
  /\ crashes' = crashes + 1
  /\ ready' = FALSE /\ copied' = {} /\ stopped' = {}
  /\ UNCHANGED <<version, data, meant, events>>

Upgrade ==
  \/ \E c \in Channels : CopyRecord(c)
  \/ MoveVersion
  \/ Start

Next ==
  \/ Upgrade
  \/ \E v \in Versions : DropOld(v)
  \/ \E c \in Channels : CreateNew(c)
  \/ \E c \in Channels, e \in Inputs : Process(c, e)
  \/ Crash

Spec == Init /\ [][Next]_vars

\* Start runs to its end unless the process dies.
FairSpec == Spec /\ WF_vars(Upgrade)

-----------------------------------------------------------------------------
\* What is stored of a channel after the upgrade.
StagesOf(c) == UnmarshalStages(data["3"][c][2].Stages)

StatusOf(c) == Read("status", data["3"][c][2].Status)

\* A status that is stored is one this version of the state machine knows.
TypeOK ==
  /\ version \in Versions
  /\ \A c \in Channels : meant[c] = Nil \/ DOMAIN meant[c] = DOMAIN Kinds
  /\ \A v \in Versions, c \in Channels : data[v][c] = Nil \/ data[v][c][1] = "map"
  /\ version = "3" =>
       \A c \in Channels : meant[c] # Nil => StatusOf(c) \in Table!Status
  /\ ready \in BOOLEAN /\ copied \subseteq Channels /\ stopped \subseteq Channels
  /\ crashes \in 0..MaxCrashes /\ events \in 0..MaxEvents

\* Reading gives back a node that was nil as a null.
NodeRead(n) == IF n = Nil THEN "null" ELSE n

AsRead(st) ==
  [st EXCEPT
     !.Selector = NodeRead(@),
     !.Vouchers = [i \in DOMAIN @ |-> [@[i] EXCEPT !.Voucher = NodeRead(@)]],
     !.VoucherResults =
       [i \in DOMAIN @ |-> [@[i] EXCEPT !.VoucherResult = NodeRead(@)]]]

\* No channel is lost and none changes on its way through the store: whatever
\* was written, migrated, interrupted by a crash and written again, a channel
\* can be read, and shows the state version 2 meant, with its pauses, and the
\* events stored since (MarshalCBOR, UnmarshalCBOR, MigrateChannelState2To3).
Survives ==
  \A c \in Channels : meant[c] # Nil =>
    /\ data[version][c] # Nil
    /\ version = "3" => /\ CanRead(Kinds, data["3"][c])
                        /\ UnmarshalCBOR(data["3"][c]) = AsRead(meant[c])

\* The timeline has one entry for each stage the channel has gone through
\* (ChannelStages): a status that is left has exactly one, and what was logged
\* stays, in its place (AddLog, GetStage).
Timeline ==
  [][\A c \in Channels :
       version = "3" /\ data["3"][c] # Nil /\ StagesOf(c) # Nil =>
         LET before == StagesOf(c)
             after == StagesOf(c)'
         IN /\ StatusOf(c)' # StatusOf(c) =>
                 Cardinality({i \in DOMAIN after : after[i].Name = <<StatusOf(c)>>}) = 1
            /\ \A i \in DOMAIN before :
                 /\ after[i].Name = before[i].Name
                 /\ \A k \in DOMAIN before[i].Logs :
                      after[i].Logs[k] = before[i].Logs[k]]_vars

\* Every record an older version wrote can be migrated, after any number of
\* interruptions: Start returns in the end (Channels.Start).
UpgradeFinishes == <>[]ready
=============================================================================
