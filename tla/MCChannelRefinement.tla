------------------------- MODULE MCChannelRefinement -------------------------
(***************************************************************************)
(* The queued state machine of ChannelFSM implements ChannelAtomic.  The   *)
(* state callers see is the stored one with the queued events applied, and *)
(* the cleanups owed are the running one and those queued events start.    *)
(***************************************************************************)
EXTENDS MCChannelFSM, SequencesExt

\* The channel as GetByID shows it to a caller that asks now.  (The CHOOSE
\* over one element makes TLC evaluate each state of the fold once.)
View ==
  FoldLeft(LAMBDA ch, e : CHOOSE r \in {Effect(c, e) : c \in {ch}} : TRUE,
           [state |-> chst, owed |-> IF handler THEN 1 ELSE 0],
           pending)

Seen == INSTANCE ChannelAtomic WITH state <- View.state, owed <- View.owed

\* Channels keeps the promise of ChannelAtomic: queueing, the busy machine and
\* the cleanup handler that runs beside the callers cannot be told from a
\* channel on which every event takes effect when it is sent.
Atomic == Seen!AtomicSpec

=============================================================================
