--------------------------- MODULE MCChannelStore ---------------------------
(***************************************************************************)
(* An instance of ChannelStore for TLC: a channel that an older version     *)
(* may have left in any status, and one it may have left at the limits.    *)
(***************************************************************************)
EXTENDS ChannelStore

CONSTANTS c1, c2

Voucher(node) == [Type |-> <<"v">>, Voucher |-> node]

Old(status, selector, stages, vouchers, message) ==
  [n \in DOMAIN KindsV2 |->
     CASE n = "Status" -> status
       [] n = "Selector" -> selector
       [] n = "Stages" -> stages
       [] n = "Vouchers" -> vouchers
       [] n = "Message" -> message
       [] n = "VoucherResults" -> <<>>
       [] n \in {"Received", "ReceivedBlocksTotal"} -> 1
       [] OTHER -> NewState[n]]

Stage(name, logs) == [Name |-> <<name>>, Logs |-> logs]

\* The timeline of a channel that was paused and went on, at the log limit.
PausedTimeline ==
  <<Stage("Requested", <<>>),
    Stage("Ongoing", <<<<"received">>, <<"result">>, <<"voucher">>, <<"received">>>>),
    Stage("InitiatorPaused", <<>>)>>

OldStates ==
  {Old(s, "node", <<>>, <<Voucher("node")>>, <<>>) :
     s \in {StatusList[i] : i \in DOMAIN StatusList} \ {"ChannelNotFoundError"}}
  \cup {Old("Ongoing", "node", Nil, <<Voucher("node")>>, <<>>)}
  \cup {Old(s, Nil, PausedTimeline, <<Voucher(Nil), Voucher("null")>>, <<"e", "e">>) :
          s \in {"Ongoing", "BothPaused"}}

\* The second channel is left in one state, or is created later.
MCOldStores ==
  {(c1 :> first) @@ (c2 :> second) :
     first \in OldStates,
     second \in {Nil, Old("ResponderPaused", "node", <<>>, <<Voucher("node")>>, <<>>)}}
  \cup {[c \in Channels |-> Nil]}

Input(code, arg, text) == [code |-> code, arg |-> arg, text |-> text]

MCInputs ==
  {Input(code, 0, <<>>) : code \in {"NewVoucher", "NewVoucherResult", "ResumeInitiator",
                                    "BeginFinalizing", "Complete", "Restart"}}
  \cup {Input("DataReceivedProgress", 2, <<>>)}
  \cup {Input(code, 0, text) : code \in {"Disconnected", "Error"},
                               text \in {<<"e">>, <<"e", "e", "e", "e">>}}
=============================================================================
