------------------------- MODULE MCTransferProtocol -------------------------
(***************************************************************************)
(* What disturbs the transfer in the runs of TransferProtocol.             *)
(***************************************************************************)
EXTENDS TransferProtocol

\* Everything but a restart.
NoRestart == Disturbances \ {"restarts"}

\* Hides what no step makes a difference of: the text of the last error, the
\* requests that both ends are through with, and whether a channel that moved
\* on will still hear of the start of a request.
View ==
  <<pull, net, cur, job, spent,
    [p \in Peers |-> [ch[p] EXCEPT !.state.Message = FALSE]],
    [k \in DOMAIN req |->
       IF req[k].client \in {"cancelled", "over"} /\ req[k].server \in {"cancelled", "over"}
       THEN NoMessage
       ELSE [req[k] EXCEPT !.begun =
               @ \cup {p \in Peers : StatusOf(p) \notin
                         {"ChannelNotFoundError", "Requested", "Queued"}}]]>>

OnlyRestart == {"restarts"}

=============================================================================
