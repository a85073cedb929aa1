---------------------------- MODULE ChannelAtomic ----------------------------
(***************************************************************************)
(* What Channels promises its callers: every event takes effect at the     *)
(* moment it is sent, and GetByID returns the state with the effects of    *)
(* all events sent before.  Only the cleanup is visible as work that goes  *)
(* on by itself: each time an event enters or retriggers a cleanup status  *)
(* one more end of a cleanup is owed, and one of them terminates the       *)
(* channel if it is still in a cleanup status by then.                     *)
(*                                                                         *)
(* The manager's modules use a channel through this view.                  *)
(***************************************************************************)
EXTENDS ChannelEvents

CONSTANTS Inputs  \* the events that are sent

VARIABLES has, state, owed

atomicVars == <<has, state, owed>>

AtomicInit == has = FALSE /\ state = NewChannelState /\ owed = 0

TakeEffect(ch, e) ==
  /\ state' = Effect(ch, e).state
  /\ owed' = Effect(ch, e).owed

Create ==
  /\ ~has
  /\ has' = TRUE
  /\ TakeEffect([state |-> NewChannelState, owed |-> 0], Event("Open"))

SendEvent(e) ==
  /\ has
  /\ TakeEffect([state |-> state, owed |-> owed], e)
  /\ UNCHANGED has

CleanupDone ==
  /\ owed > 0
  /\ TakeEffect([state |-> state, owed |-> owed - 1], Event("CleanupComplete"))
  /\ UNCHANGED has

AtomicNext ==
  \/ Create
  \/ \E e \in Inputs : SendEvent(e)
  \/ CleanupDone

AtomicSpec == AtomicInit /\ [][AtomicNext]_atomicVars

=============================================================================
