------------------------ MODULE ChannelMonitorProofs ------------------------
(***************************************************************************)
(* Proofs about ChannelMonitor, for any number of monitors, errors,        *)
(* restarts, stops and crashes, and for every configuration.               *)
(***************************************************************************)
EXTENDS ChannelMonitor, ChannelEventsProofs, TLAPS

-----------------------------------------------------------------------------
(* The inductive invariant *)

\* A restart is counted and not yet sent.
UnderWay(m) == m.loop \in {"connect", "read", "open"}

\* What holds of each monitor by itself: Shutdown happens once, only a monitor
\* that shut down closes, and the restarts sent are counted, apart from one
\* whose count was reset before it was sent.
MonitorInv(m) ==
  /\ m \in MonitorState
  /\ ~(m.live /\ m.removing)
  /\ m.live => m.closes = 0
  /\ m.closes <= 1
  /\ m.barren <= m.count + 1
  /\ m.barren <= MaxConsecutiveRestarts + 1
  /\ UnderWay(m) => m.count <= MaxConsecutiveRestarts /\ m.barren <= m.count

\* The map has the monitor that lives or that has still to be removed, so that
\* a removal is always of the monitor that asked for it.
Tracking == \A i \in Monitors : mon[i].live \/ mon[i].removing => tracked = i

MonitorsInv ==
  /\ mon \in [Monitors -> MonitorState]
  /\ tracked \in Monitors \cup {0}
  /\ \A i \in Monitors : MonitorInv(mon[i])
  /\ Tracking

IInv == TypeOK /\ MonitorsInv

TimerState == {"off", "running", "fired"}

\* Monitors that differ in their loops, flags and timers only.
SameCounts(m, n) ==
  /\ n.live = m.live /\ n.removing = m.removing /\ n.closes = m.closes
  /\ n.count = m.count /\ n.barren = m.barren

\* A step of a monitor from m to n that the map need not know of.
Keeps(m, n) ==
  /\ MonitorInv(n)
  /\ n.live => m.live
  /\ n.removing => m.live \/ m.removing

-----------------------------------------------------------------------------
(* One monitor *)

\* The limit of consecutive restarts is a number.
LEMMA MaxIsNat == MaxConsecutiveRestarts \in Nat
BY MonitorAssumption, Zenon

\* A monitor that was not added satisfies the invariant.
LEMMA NotAddedInv == MonitorInv(NotAdded) /\ ~NotAdded.live /\ ~NotAdded.removing
BY MaxIsNat DEF MonitorInv, NotAdded, MonitorState, UnderWay

\* A monitor that addChannel just added satisfies the invariant.
LEMMA AddedInv == MonitorInv(Added) /\ Added.live /\ ~Added.removing
<1>1. \A a \in TimerState :
        LET m == [NotAdded EXCEPT !.live = TRUE, !.accept = a]
        IN  MonitorInv(m) /\ m.live /\ ~m.removing
  <2> TAKE a \in TimerState
  <2> DEFINE m == [NotAdded EXCEPT !.live = TRUE, !.accept = a]
  <2>1. m \in MonitorState
    BY Zenon DEF NotAdded, MonitorState, TimerState
  <2>2. /\ m.live /\ ~m.removing /\ m.closes = 0 /\ m.count = 0 /\ m.barren = 0
        /\ m.loop = "idle"
    BY Zenon DEF NotAdded
  <2> HIDE DEF m
  <2>3. MonitorInv(m) /\ m.live /\ ~m.removing
    BY <2>1, <2>2, MaxIsNat DEF MonitorInv, UnderWay
  <2> QED
    BY <2>3, Zenon DEF m
<1>2. "off" \in TimerState /\ "running" \in TimerState
  BY Zenon DEF TimerState
<1> QED
  BY <1>1, <1>2, Zenon DEF Added

\* A monitor that does not move.
LEMMA SameKeeps ==
  ASSUME NEW m, MonitorInv(m)
  PROVE  Keeps(m, m)
BY Zenon DEF Keeps

\* Shutdown leaves a monitor that no longer lives, and has its histories end.
LEMMA ShutDownKeeps ==
  ASSUME NEW m, MonitorInv(m)
  PROVE  Keeps(m, ShutDown(m))
<1>1. m.accept \in TimerState /\ m.complete \in TimerState
  BY Zenon DEF MonitorInv, MonitorState, TimerState
<1>2. ASSUME m.live
      PROVE  \A a, c \in TimerState :
               Keeps(m, [m EXCEPT !.live = FALSE, !.removing = TRUE, !.accept = a,
                                  !.complete = c, !.barren = 0, !.owed = FALSE])
  <2> TAKE a, c \in TimerState
  <2> DEFINE n == [m EXCEPT !.live = FALSE, !.removing = TRUE, !.accept = a,
                            !.complete = c, !.barren = 0, !.owed = FALSE]
  <2>1. n \in MonitorState
    BY ZenonT(60) DEF MonitorInv, MonitorState, TimerState
  <2>2. /\ ~n.live /\ n.removing /\ n.closes = m.closes /\ n.barren = 0
        /\ n.count = m.count /\ n.loop = m.loop
    BY Zenon DEF MonitorInv, MonitorState
  <2>3. m.count \in Nat
    BY Zenon DEF MonitorInv, MonitorState
  <2> HIDE DEF n
  <2>4. Keeps(m, n)
    BY <1>2, <2>1, <2>2, <2>3, MaxIsNat DEF Keeps, MonitorInv, UnderWay
  <2> QED
    BY <2>4, Zenon DEF n
<1>3. "off" \in TimerState
  BY Zenon DEF TimerState
<1> QED
  BY <1>1, <1>2, <1>3, SameKeeps, Zenon DEF ShutDown

\* closeChannelAndShutdown begins the close of a monitor that lived until then.
LEMMA CloseAndShutDownKeeps ==
  ASSUME NEW m, MonitorInv(m)
  PROVE  Keeps(m, CloseAndShutDown(m)) /\ ~CloseAndShutDown(m).live
<1> DEFINE n == ShutDown(m)
<1>1. CASE m.live
  <2>1. Keeps(m, n)
    BY ShutDownKeeps, Zenon
  <2>2. ~n.live /\ n.removing /\ n.closes = 0
    BY <1>1, Zenon DEF MonitorInv, MonitorState, ShutDown
  <2>3. n \in MonitorState
    BY <2>1, Zenon DEF Keeps, MonitorInv
  <2> DEFINE k == [n EXCEPT !.closing = TRUE, !.closes = 1]
  <2> HIDE DEF n
  <2>4. k \in MonitorState
    BY <2>3, Zenon DEF MonitorState
  <2>5. /\ ~k.live /\ k.removing /\ k.closes = 1
        /\ k.barren = n.barren /\ k.count = n.count /\ k.loop = n.loop
    BY <2>2, <2>3, Zenon DEF MonitorState
  <2>6. CloseAndShutDown(m) = k
    BY <1>1, <2>2 DEF CloseAndShutDown, n
  <2> HIDE DEF k
  <2>7. Keeps(m, k) /\ ~k.live
    BY <1>1, <2>1, <2>2, <2>4, <2>5, MaxIsNat DEF Keeps, MonitorInv, UnderWay
  <2> QED
    BY <2>6, <2>7, Zenon
<1>2. CASE ~m.live
  BY <1>2, SameKeeps, Zenon DEF CloseAndShutDown
<1> QED
  BY <1>1, <1>2, Zenon

\* The subscriber changes neither whether a monitor lives nor its loop.
LEMMA ReactKeeps ==
  ASSUME NEW m, MonitorInv(m), NEW n \in [code : EventCode, status : Status]
  PROVE  Keeps(m, React(m, n))
<1>1. m.accept \in TimerState /\ m.complete \in TimerState
  BY Zenon DEF MonitorInv, MonitorState, TimerState
<1>2. \A a \in TimerState : Keeps(m, [m EXCEPT !.accept = a])
  BY DEF Keeps, MonitorInv, MonitorState, UnderWay, TimerState
<1>3. \A c \in TimerState : Keeps(m, [m EXCEPT !.complete = c])
  BY DEF Keeps, MonitorInv, MonitorState, UnderWay, TimerState
<1>4. /\ Keeps(m, [m EXCEPT !.ending = TRUE])
      /\ Keeps(m, [m EXCEPT !.debounced = TRUE, !.owed = TRUE])
  BY ZenonT(60) DEF Keeps, MonitorInv, MonitorState, UnderWay
<1>5. Keeps(m, [m EXCEPT !.count = 0, !.barren = 0])
  <2> DEFINE k == [m EXCEPT !.count = 0, !.barren = 0]
  <2>1. k \in MonitorState
    BY Zenon DEF MonitorInv, MonitorState
  <2>2. /\ k.count = 0 /\ k.barren = 0 /\ k.live = m.live /\ k.removing = m.removing
        /\ k.closes = m.closes /\ k.loop = m.loop
    BY Zenon DEF MonitorInv, MonitorState
  <2> HIDE DEF k
  <2>3. Keeps(m, k)
    BY <2>1, <2>2, MaxIsNat DEF Keeps, MonitorInv, UnderWay
  <2> QED
    BY <2>3, Zenon DEF k
<1>6. "off" \in TimerState /\ "running" \in TimerState
  BY Zenon DEF TimerState
<1>7. Keeps(m, m)
  BY SameKeeps, Zenon
<1> QED
  BY <1>1, <1>2, <1>3, <1>4, <1>5, <1>6, <1>7, Zenon DEF React

\* The moves a monitor makes are moves of the map's monitor together, too.
LEMMA KeepsTransitive ==
  ASSUME NEW m, NEW n, NEW k, Keeps(m, n), Keeps(n, k)
  PROVE  Keeps(m, k)
BY Zenon DEF Keeps

\* The flags of a monitor, and its timers, bear on nothing else.
LEMMA FlagKeeps ==
  ASSUME NEW m, MonitorInv(m)
  PROVE  /\ \A b \in BOOLEAN :
              /\ Keeps(m, [m EXCEPT !.ending = b])
              /\ Keeps(m, [m EXCEPT !.debounced = b])
              /\ Keeps(m, [m EXCEPT !.closing = b])
              /\ Keeps(m, [m EXCEPT !.queued = b])
         /\ \A t \in TimerState :
              /\ Keeps(m, [m EXCEPT !.accept = t])
              /\ Keeps(m, [m EXCEPT !.complete = t])
BY DEF Keeps, MonitorInv, MonitorState, UnderWay, TimerState

\* The loop moves on: to send a restart only if one is under way.
LEMMA LoopKeeps ==
  ASSUME NEW m, MonitorInv(m),
         NEW l \in {"idle", "count", "connect", "read", "open", "backoff", "check"},
         l \in {"connect", "read", "open"} => UnderWay(m)
  PROVE  /\ Keeps(m, [m EXCEPT !.loop = l])
         /\ \A b \in BOOLEAN : /\ Keeps(m, [m EXCEPT !.restarting = b, !.loop = l])
                               /\ Keeps(m, [m EXCEPT !.queued = b, !.loop = l])
<1>1. Keeps(m, [m EXCEPT !.loop = l])
  <2> DEFINE k == [m EXCEPT !.loop = l]
  <2>1. k \in MonitorState
    BY Zenon DEF MonitorInv, MonitorState
  <2>2. k.loop = l /\ SameCounts(m, k)
    BY Zenon DEF MonitorInv, MonitorState, SameCounts
  <2> HIDE DEF k
  <2>3. Keeps(m, k)
    BY <2>1, <2>2, Zenon DEF Keeps, MonitorInv, UnderWay, SameCounts
  <2> QED
    BY <2>3, Zenon DEF k
<1>2. \A b \in BOOLEAN : Keeps(m, [m EXCEPT !.restarting = b, !.loop = l])
  <2> TAKE b \in BOOLEAN
  <2> DEFINE k == [m EXCEPT !.restarting = b, !.loop = l]
  <2>1. k \in MonitorState
    BY Zenon DEF MonitorInv, MonitorState
  <2>2. k.loop = l /\ SameCounts(m, k)
    BY Zenon DEF MonitorInv, MonitorState, SameCounts
  <2> HIDE DEF k
  <2>3. Keeps(m, k)
    BY <2>1, <2>2, Zenon DEF Keeps, MonitorInv, UnderWay, SameCounts
  <2> QED
    BY <2>3, Zenon DEF k
<1>3. \A b \in BOOLEAN : Keeps(m, [m EXCEPT !.queued = b, !.loop = l])
  <2> TAKE b \in BOOLEAN
  <2> DEFINE k == [m EXCEPT !.queued = b, !.loop = l]
  <2>1. k \in MonitorState
    BY Zenon DEF MonitorInv, MonitorState
  <2>2. k.loop = l /\ SameCounts(m, k)
    BY Zenon DEF MonitorInv, MonitorState, SameCounts
  <2> HIDE DEF k
  <2>3. Keeps(m, k)
    BY <2>1, <2>2, Zenon DEF Keeps, MonitorInv, UnderWay, SameCounts
  <2> QED
    BY <2>3, Zenon DEF k
<1> QED
  BY <1>1, <1>2, <1>3, Zenon

\* doRestartChannel counts a restart before it is under way, and gives up
\* beyond the maximum.
LEMMA CountKeeps ==
  ASSUME NEW m, MonitorInv(m), m.loop = "count"
  PROVE  LET c == [m EXCEPT !.count = @ + 1]
         IN  Keeps(m, IF c.count > MaxConsecutiveRestarts
                      THEN [CloseAndShutDown(c) EXCEPT !.loop = "idle"]
                      ELSE [c EXCEPT !.loop = "connect", !.owed = FALSE])
<1> DEFINE c == [m EXCEPT !.count = @ + 1]
<1>1. m \in MonitorState /\ m.count \in Nat /\ m.barren \in Nat
  BY Zenon DEF MonitorInv, MonitorState
<1>2. c \in MonitorState
  BY <1>1 DEF MonitorState
<1>3. /\ c.live = m.live /\ c.removing = m.removing /\ c.closes = m.closes
      /\ c.barren = m.barren /\ c.count = m.count + 1 /\ c.loop = m.loop
  BY <1>1, Zenon DEF MonitorState
<1> HIDE DEF c
<1>4. Keeps(m, c)
  BY <1>1, <1>2, <1>3, MaxIsNat DEF Keeps, MonitorInv, UnderWay
<1>5. CASE c.count > MaxConsecutiveRestarts
  <2>1. Keeps(c, CloseAndShutDown(c))
    BY <1>4, CloseAndShutDownKeeps, Zenon DEF Keeps
  <2>2. Keeps(CloseAndShutDown(c), [CloseAndShutDown(c) EXCEPT !.loop = "idle"])
    BY <2>1, LoopKeeps, Zenon DEF Keeps
  <2> QED
    BY <1>4, <1>5, <2>1, <2>2, KeepsTransitive, Zenon DEF c
<1>6. CASE ~(c.count > MaxConsecutiveRestarts)
  <2> DEFINE k == [c EXCEPT !.loop = "connect", !.owed = FALSE]
  <2>1. k \in MonitorState
    BY <1>2, Zenon DEF MonitorState
  <2>2. /\ k.live = c.live /\ k.removing = c.removing /\ k.closes = c.closes
        /\ k.barren = c.barren /\ k.count = c.count
    BY <1>2, Zenon DEF MonitorState
  <2> HIDE DEF k
  <2>3. Keeps(c, k)
    BY <1>1, <1>3, <1>4, <1>6, <2>1, <2>2, MaxIsNat DEF Keeps, MonitorInv, UnderWay
  <2> QED
    BY <1>4, <1>6, <2>3, KeepsTransitive, Zenon DEF c, k
<1> QED
  BY <1>5, <1>6, Zenon

\* A restart is sent, or is counted again.
LEMMA OpenKeeps ==
  ASSUME NEW m, MonitorInv(m), m.loop = "open", NEW ok \in BOOLEAN
  PROVE  Keeps(m, [m EXCEPT !.loop = IF ok THEN "backoff" ELSE "count",
                            !.barren = IF ok THEN @ + 1 ELSE @])
<1>1. m \in MonitorState /\ m.count \in Nat /\ m.barren \in Nat
  BY Zenon DEF MonitorInv, MonitorState
<1>2. \A l \in {"backoff", "count"}, n \in {m.barren, m.barren + 1} :
        Keeps(m, [m EXCEPT !.loop = l, !.barren = n])
  <2> TAKE l \in {"backoff", "count"}, n \in {m.barren, m.barren + 1}
  <2> DEFINE k == [m EXCEPT !.loop = l, !.barren = n]
  <2>0. n \in Nat
    BY <1>1
  <2>1. k \in MonitorState
    BY <1>1, <2>0, Zenon DEF MonitorState
  <2>2. /\ k.live = m.live /\ k.removing = m.removing /\ k.closes = m.closes
        /\ k.count = m.count /\ k.barren = n /\ k.loop = l
    BY <1>1, Zenon DEF MonitorState
  <2> HIDE DEF k
  <2>3. Keeps(m, k)
    BY <1>1, <2>1, <2>2, MaxIsNat DEF Keeps, MonitorInv, UnderWay
  <2> QED
    BY <2>3, Zenon DEF k
<1> QED
  BY <1>2, Zenon

-----------------------------------------------------------------------------
(* The monitors together *)

\* One monitor moves and the map stays.
LEMMA OneMoves ==
  ASSUME MonitorsInv, NEW i \in Monitors, NEW n, Keeps(mon[i], n),
         mon' = [mon EXCEPT ![i] = n], tracked' = tracked
  PROVE  MonitorsInv'
<1>1. n \in MonitorState
  BY Zenon DEF Keeps, MonitorInv
<1> QED
  BY <1>1, Zenon DEF MonitorsInv, Keeps, Tracking

\* The same of an action that touches monitor i alone.
LEMMA OnlyKeeps ==
  ASSUME IInv, NEW i \in Monitors, NEW n, Keeps(mon[i], n), Only(i, n)
  PROVE  IInv'
<1>1. MonitorsInv'
  BY OneMoves, Zenon DEF IInv, Only
<1> QED
  BY <1>1, Zenon DEF IInv, TypeOK, MonitorsInv, Only

\* A restart adds a monitor only to an empty map: nobody else lives, or has
\* still to be removed.
LEMMA AddKeeps ==
  ASSUME MonitorsInv, NEW ms \in [Monitors -> MonitorState],
         \A i \in Monitors : Keeps(mon[i], ms[i]),
         NEW ok \in BOOLEAN, AddAndSend(ms, ok)
  PROVE  MonitorsInv'
<1>1. CASE tracked # 0
  BY <1>1, Zenon DEF AddAndSend, MonitorsInv, Keeps, Tracking
<1>2. CASE tracked = 0
  <2>1. PICK j \in Fresh : /\ mon' = [ms EXCEPT ![j] = IF ok THEN Added ELSE ShutDown(Added)]
                           /\ tracked' = j
    BY <1>2, Zenon DEF AddAndSend
  <2>2. j \in Monitors
    BY Zenon DEF Fresh
  <2>3. \A i \in Monitors : ~ms[i].live /\ ~ms[i].removing
    BY <1>2, MonitorAssumption, Zenon DEF MonitorsInv, Keeps, Tracking
  <2>4. MonitorInv(Added) /\ MonitorInv(ShutDown(Added))
    BY AddedInv, ShutDownKeeps, Zenon DEF Keeps
  <2>5. mon' \in [Monitors -> MonitorState]
    BY <2>1, <2>4, Zenon DEF MonitorInv
  <2>6. \A i \in Monitors : MonitorInv(mon'[i])
    BY <2>1, <2>2, <2>4, Zenon DEF Keeps
  <2>7. \A i \in Monitors : mon'[i].live \/ mon'[i].removing => tracked' = i
    BY <2>1, <2>2, <2>3, Zenon
  <2> QED
    BY <2>1, <2>2, <2>5, <2>6, <2>7, Zenon DEF MonitorsInv, Tracking
<1> QED
  BY <1>1, <1>2, Zenon

\* An event leaves the channel and the notices well formed.
LEMMA FireType ==
  ASSUME TypeOK, NEW code \in EventCode, Fire(code)
  PROVE  chst' \in ChannelState /\ notices' \in Seq([code : EventCode, status : Status])
<1>1. CASE chst' = Apply(chst, Event(code)) /\
           notices' = Append(notices, [code |-> code, status |-> chst'.Status])
  <2>1. Event(code) \in Events
    BY Zenon DEF Event, Events
  <2>2. chst' \in ChannelState
    BY <1>1, <2>1, ApplyType, Zenon DEF TypeOK
  <2>3. [code |-> code, status |-> chst'.Status] \in [code : EventCode, status : Status]
    BY <2>2, Zenon DEF ChannelState
  <2> QED
    BY <1>1, <2>2, <2>3 DEF TypeOK
<1>2. CASE UNCHANGED <<chst, notices>>
  BY <1>2, Zenon DEF TypeOK
<1> QED
  BY <1>1, <1>2, Zenon DEF Fire

-----------------------------------------------------------------------------
(* The steps *)

\* No monitor exists at first.
LEMMA InitIInv == Init => IInv
<1> SUFFICES ASSUME Init PROVE IInv
  BY Zenon
<1>1. MonitorInv(Added) /\ MonitorInv(NotAdded)
  BY AddedInv, NotAddedInv, Zenon
<1>2. mon \in [Monitors -> MonitorState]
  BY <1>1, Zenon DEF Init, MonitorInv
<1>3. \A i \in Monitors : MonitorInv(mon[i])
  BY <1>1, Zenon DEF Init
<1>4. \A i \in Monitors : mon[i].live \/ mon[i].removing => tracked = i
  BY NotAddedInv, Zenon DEF Init
<1>5. chst \in ChannelState
  BY NewChannelStateType, Zenon DEF Init
<1>6. notices \in Seq([code : EventCode, status : Status])
  BY DEF Init
<1>7. tracked \in Monitors \cup {0} /\ caller = "opening" /\ stopped = FALSE
  BY MonitorAssumption, Zenon DEF Init
<1>8. errors \in 0 .. MaxErrors /\ restarts \in 0 .. MaxRestarts /\ crashes \in 0 .. MaxCrashes
  BY MonitorAssumption DEF Init
<1> QED
  BY <1>2, <1>3, <1>4, <1>5, <1>6, <1>7, <1>8, Zenon DEF IInv, TypeOK, MonitorsInv, Tracking

\* The steps in which one monitor moves and nothing else does.
LEMMA OnlySteps ==
  ASSUME IInv, NEW i \in Monitors,
         \/ ShutdownOnEnd(i) \/ RestartChannel(i) \/ CountRestart(i)
         \/ Backoff(i) \/ EndRestart(i)
         \/ \E t \in Timers : Expire(i, t) \/ TimedOut(i, t)
         \/ \E ok \in BOOLEAN : ConnectTo(i, ok)
  PROVE  IInv'
<1> DEFINE m == mon[i]
<1>0. MonitorInv(m)
  BY Zenon DEF IInv, MonitorsInv
<1> SUFFICES \E n : Keeps(m, n) /\ Only(i, n)
  BY OnlyKeeps, Zenon
<1>1. CASE ShutdownOnEnd(i)
  <2>1. Keeps(m, ShutDown(m))
    BY <1>0, ShutDownKeeps, Zenon
  <2>2. Keeps(ShutDown(m), [ShutDown(m) EXCEPT !.ending = FALSE])
    BY <2>1, FlagKeeps, Zenon DEF Keeps
  <2>3. Keeps(m, [ShutDown(m) EXCEPT !.ending = FALSE])
    BY <2>1, <2>2, KeepsTransitive, Zenon
  <2> QED
    BY <1>1, <2>3, Zenon DEF ShutdownOnEnd
<1>2. CASE RestartChannel(i)
  <2> DEFINE k == [m EXCEPT !.debounced = FALSE]
  <2>1. Keeps(m, k)
    BY <1>0, FlagKeeps, Zenon
  <2> HIDE DEF k
  <2>2. /\ Keeps(k, [k EXCEPT !.queued = TRUE])
        /\ Keeps(k, [k EXCEPT !.restarting = TRUE, !.loop = "count"])
    BY <2>1, FlagKeeps, LoopKeeps, Zenon DEF Keeps
  <2>3. /\ Keeps(m, [k EXCEPT !.queued = TRUE])
        /\ Keeps(m, [k EXCEPT !.restarting = TRUE, !.loop = "count"])
    BY <2>1, <2>2, KeepsTransitive, Zenon
  <2> QED
    BY <1>2, <2>3, Zenon DEF RestartChannel, k
<1>3. CASE CountRestart(i)
  BY <1>0, <1>3, CountKeeps, Zenon DEF CountRestart
<1>4. CASE Backoff(i)
  BY <1>0, <1>4, LoopKeeps, Zenon DEF Backoff
<1>5. CASE EndRestart(i)
  <2>1. /\ Keeps(m, [m EXCEPT !.queued = FALSE, !.loop = "count"])
        /\ Keeps(m, [m EXCEPT !.restarting = FALSE, !.loop = "idle"])
    BY <1>0, LoopKeeps, Zenon
  <2> QED
    BY <1>5, <2>1, Zenon DEF EndRestart
<1>6. CASE \E t \in Timers : Expire(i, t)
  <2>1. Keeps(m, [m EXCEPT !.accept = "fired"]) /\ Keeps(m, [m EXCEPT !.complete = "fired"])
    BY <1>0, FlagKeeps, Zenon DEF TimerState
  <2> QED
    BY <1>6, <2>1, Zenon DEF Expire, Timers
<1>7. CASE \E t \in Timers : TimedOut(i, t)
  <2> DEFINE k == CloseAndShutDown(m)
  <2>1. Keeps(m, k)
    BY <1>0, CloseAndShutDownKeeps, Zenon
  <2> HIDE DEF k
  <2>2. Keeps(k, [k EXCEPT !.accept = "off"]) /\ Keeps(k, [k EXCEPT !.complete = "off"])
    BY <2>1, FlagKeeps, Zenon DEF TimerState, Keeps
  <2>3. Keeps(m, [k EXCEPT !.accept = "off"]) /\ Keeps(m, [k EXCEPT !.complete = "off"])
    BY <2>1, <2>2, KeepsTransitive, Zenon
  <2> QED
    BY <1>7, <2>3, Zenon DEF TimedOut, Timers, k
<1>8. CASE \E ok \in BOOLEAN : ConnectTo(i, ok)
  <2>1. PICK ok \in BOOLEAN : ConnectTo(i, ok)
    BY <1>8, Zenon
  <2>2. Keeps(m, [m EXCEPT !.loop = "read"]) /\ Keeps(m, [m EXCEPT !.loop = "count"])
    BY <1>0, <2>1, LoopKeeps, Zenon DEF ConnectTo, UnderWay
  <2> QED
    BY <2>1, <2>2, Zenon DEF ConnectTo
<1> QED
  BY <1>1, <1>2, <1>3, <1>4, <1>5, <1>6, <1>7, <1>8, Zenon

\* The other steps of the monitors.
LEMMA MonitorSteps ==
  ASSUME IInv, NEW i \in Monitors,
         \/ Remove(i) \/ CloseChannel(i) \/ ReadChannel(i)
         \/ \E ok \in BOOLEAN : OpenRestart(i, ok)
  PROVE  IInv'
<1> DEFINE m == mon[i]
<1>0. MonitorInv(m) /\ m \in MonitorState
  BY Zenon DEF IInv, MonitorsInv, MonitorInv
<1>1. CASE Remove(i)
  <2> DEFINE k == [m EXCEPT !.removing = FALSE]
  <2>1. MonitorInv(k) /\ ~k.removing /\ (k.live = m.live)
    BY <1>0, Zenon DEF MonitorInv, MonitorState, UnderWay
  <2>2. mon' = [mon EXCEPT ![i] = k]
    BY <1>1, Zenon DEF Remove
  <2>3. tracked = i /\ ~m.live
    BY <1>0, <1>1, Zenon DEF Remove, IInv, MonitorsInv, Tracking, MonitorInv
  <2> HIDE DEF k
  <2>4. \A j \in Monitors : MonitorInv(mon'[j]) /\ ~mon'[j].live /\ ~mon'[j].removing
    BY <2>1, <2>2, <2>3, Zenon DEF IInv, MonitorsInv, Tracking
  <2>5. mon' \in [Monitors -> MonitorState]
    BY <2>1, <2>2, Zenon DEF IInv, MonitorsInv, MonitorInv
  <2> QED
    BY <1>1, <2>4, <2>5, Zenon DEF Remove, IInv, TypeOK, MonitorsInv, Tracking
<1>2. CASE CloseChannel(i)
  <2>1. Keeps(m, [m EXCEPT !.closing = FALSE])
    BY <1>0, FlagKeeps, Zenon
  <2>2. MonitorsInv'
    BY <1>2, <2>1, OneMoves, Zenon DEF CloseChannel, IInv
  <2>3. chst' \in ChannelState /\ notices' \in Seq([code : EventCode, status : Status])
    BY <1>2, FireType, Zenon DEF CloseChannel, IInv, TypeOK, EventCode, ErrorCodes
  <2> QED
    BY <1>2, <2>2, <2>3, Zenon DEF CloseChannel, IInv, TypeOK, MonitorsInv
<1>3. CASE ReadChannel(i)
  <2>1. Keeps(m, [m EXCEPT !.loop = "backoff"]) /\ Keeps(m, [m EXCEPT !.loop = "open"])
    BY <1>0, <1>3, LoopKeeps, Zenon DEF ReadChannel, UnderWay
  <2>2. MonitorsInv'
    BY <1>3, <2>1, OneMoves, Zenon DEF ReadChannel, IInv
  <2>3. chst' \in ChannelState /\ notices' \in Seq([code : EventCode, status : Status])
    BY <1>3, FireType, Zenon DEF ReadChannel, IInv, TypeOK, EventCode
  <2> QED
    BY <1>3, <2>2, <2>3, Zenon DEF ReadChannel, IInv, TypeOK, MonitorsInv
<1>4. CASE \E ok \in BOOLEAN : OpenRestart(i, ok)
  <2>1. PICK ok \in BOOLEAN : OpenRestart(i, ok)
    BY <1>4, Zenon
  <2> DEFINE k == [m EXCEPT !.loop = IF ok THEN "backoff" ELSE "count",
                            !.barren = IF ok THEN @ + 1 ELSE @]
             ms == [mon EXCEPT ![i] = k]
  <2>2. Keeps(m, k)
    BY <1>0, <2>1, OpenKeeps, Zenon DEF OpenRestart
  <2>3. AddAndSend(ms, ok)
    BY <2>1, Zenon DEF OpenRestart, IInv, MonitorsInv
  <2> HIDE DEF k
  <2>4. ms \in [Monitors -> MonitorState]
    BY <2>2, Zenon DEF IInv, MonitorsInv, Keeps, MonitorInv
  <2>5. \A j \in Monitors : Keeps(mon[j], ms[j])
    BY <2>2, SameKeeps, Zenon DEF IInv, MonitorsInv
  <2>6. MonitorsInv'
    BY <2>3, <2>4, <2>5, AddKeeps, Zenon DEF IInv
  <2> QED
    BY <2>1, <2>6, Zenon DEF OpenRestart, IInv, TypeOK, MonitorsInv
<1> QED
  BY <1>1, <1>2, <1>3, <1>4, Zenon

\* The steps of the channel and of the manager.
LEMMA ChannelSteps ==
  ASSUME IInv,
         \/ \E code \in Happenings : ChannelEvent(code)
         \/ TransportError \/ CleanupDone \/ Publish \/ Stop \/ Crash
  PROVE  IInv'
<1> DEFINE Notice == [code : EventCode, status : Status]
<1>1. CASE \E code \in Happenings : ChannelEvent(code)
  <2>1. PICK code \in Happenings : ChannelEvent(code)
    BY <1>1, Zenon
  <2>2. code \in EventCode
    BY MonitorAssumption, Zenon DEF EventCode
  <2>3. chst' \in ChannelState /\ notices' \in Seq(Notice)
    BY <2>1, <2>2, FireType, Zenon DEF ChannelEvent, IInv
  <2> QED
    BY <2>1, <2>3, Zenon DEF ChannelEvent, IInv, TypeOK, MonitorsInv, Tracking
<1>2. CASE TransportError
  <2>1. chst' \in ChannelState /\ notices' \in Seq(Notice)
    BY <1>2, FireType, Zenon DEF TransportError, IInv, EventCode, ErrorCodes
  <2>2. errors' \in 0 .. MaxErrors
    BY <1>2, MonitorAssumption DEF TransportError, IInv, TypeOK
  <2> QED
    BY <1>2, <2>1, <2>2, Zenon DEF TransportError, IInv, TypeOK, MonitorsInv, Tracking
<1>3. CASE CleanupDone
  <2>1. chst' \in ChannelState /\ notices' \in Seq(Notice)
    BY <1>3, FireType, Zenon DEF CleanupDone, IInv, EventCode
  <2> QED
    BY <1>3, <2>1, Zenon DEF CleanupDone, IInv, TypeOK, MonitorsInv, Tracking
<1>4. CASE Publish
  <2>0. notices \in Seq(Notice) /\ notices # <<>> /\ notices' = Tail(notices)
    BY <1>4, Zenon DEF Publish, IInv, TypeOK
  <2> HIDE DEF Notice
  <2>1. Head(notices) \in Notice /\ notices' \in Seq(Notice)
    BY <2>0
  <2> USE DEF Notice
  <2>2. \A i \in Monitors : Keeps(mon[i], mon'[i])
    BY <1>4, <2>1, ReactKeeps, SameKeeps, Zenon DEF Publish, IInv, MonitorsInv
  <2>3. mon' \in [Monitors -> MonitorState]
    BY <1>4, <2>2, Zenon DEF Publish, Keeps, MonitorInv
  <2>4. MonitorsInv'
    BY <1>4, <2>2, <2>3, Zenon DEF Publish, IInv, MonitorsInv, Keeps, Tracking
  <2> QED
    BY <1>4, <2>1, <2>4, Zenon DEF Publish, IInv, TypeOK, MonitorsInv
<1>5. CASE Stop
  BY <1>5, Zenon DEF Stop, IInv, TypeOK, MonitorsInv, Tracking
<1>6. CASE Crash
  <2>1. MonitorsInv'
    <3>1. NotAdded \in MonitorState
      BY NotAddedInv, Zenon DEF MonitorInv
    <3>2. mon' \in [Monitors -> MonitorState] /\ tracked' = 0
      BY <1>6, <3>1, Zenon DEF Crash
    <3>3. \A i \in Monitors : mon'[i] = NotAdded
      BY <1>6, Zenon DEF Crash
    <3> QED
      BY <3>2, <3>3, NotAddedInv, Zenon DEF MonitorsInv, Tracking
  <2>2. crashes' \in 0 .. MaxCrashes /\ notices' \in Seq(Notice)
    BY <1>6, MonitorAssumption DEF Crash, IInv, TypeOK
  <2> QED
    BY <1>6, <2>1, <2>2, Zenon DEF Crash, IInv, TypeOK, MonitorsInv
<1> QED
  BY <1>1, <1>2, <1>3, <1>4, <1>5, <1>6, Zenon

\* The steps of those who open the channel or restart it.
LEMMA CallerSteps ==
  ASSUME IInv,
         \/ \E ok \in BOOLEAN : OpenSent(ok) \/ CallerOpens(ok)
         \/ ClientRestart \/ PeerRestart
  PROVE  IInv'
<1> DEFINE Notice == [code : EventCode, status : Status]
<1>1. CASE \E ok \in BOOLEAN : OpenSent(ok)
  <2>1. PICK ok \in BOOLEAN : OpenSent(ok)
    BY <1>1, Zenon
  <2>2. chst' \in ChannelState /\ notices' \in Seq(Notice)
    BY <2>1, FireType, Zenon DEF OpenSent, IInv, TypeOK, EventCode, ErrorCodes
  <2>3. MonitorsInv'
    <3>1. CASE ok
      BY <2>1, <3>1, Zenon DEF OpenSent, IInv, MonitorsInv, Tracking
    <3>2. CASE ~ok
      BY <2>1, <3>2, OneMoves, ShutDownKeeps, MonitorAssumption, Zenon DEF OpenSent, IInv, MonitorsInv
    <3> QED
      BY <3>1, <3>2, Zenon
  <2> QED
    BY <2>1, <2>2, <2>3, Zenon DEF OpenSent, IInv, TypeOK, MonitorsInv
<1>2. CASE \E ok \in BOOLEAN : CallerOpens(ok)
  <2>1. PICK ok \in BOOLEAN : CallerOpens(ok)
    BY <1>2, Zenon
  <2>2. \A j \in Monitors : Keeps(mon[j], mon[j])
    BY SameKeeps, Zenon DEF IInv, MonitorsInv
  <2>3. MonitorsInv'
    BY <2>1, <2>2, AddKeeps, Zenon DEF CallerOpens, IInv, MonitorsInv
  <2> QED
    BY <2>1, <2>3, Zenon DEF CallerOpens, IInv, TypeOK, MonitorsInv
<1>3. CASE ClientRestart
  <2>1. chst' \in ChannelState /\ notices' \in Seq(Notice)
    BY <1>3, FireType, Zenon DEF ClientRestart, IInv, TypeOK, EventCode
  <2>2. restarts' \in 0 .. MaxRestarts /\ caller' \in {"opening", "open", "no"}
    BY <1>3, MonitorAssumption DEF ClientRestart, IInv, TypeOK
  <2> QED
    BY <1>3, <2>1, <2>2, Zenon DEF ClientRestart, IInv, TypeOK, MonitorsInv, Tracking
<1>4. CASE PeerRestart
  <2>1. restarts' \in 0 .. MaxRestarts
    BY <1>4, MonitorAssumption DEF PeerRestart, IInv, TypeOK
  <2> QED
    BY <1>4, <2>1, Zenon DEF PeerRestart, IInv, TypeOK, MonitorsInv, Tracking
<1> QED
  BY <1>1, <1>2, <1>3, <1>4, Zenon

\* The invariant is inductive.
LEMMA NextIInv == IInv /\ [Next]_vars => IInv'
<1> SUFFICES ASSUME IInv, [Next]_vars PROVE IInv'
  BY Zenon
<1>1. CASE Next
  BY <1>1, OnlySteps, MonitorSteps, ChannelSteps, CallerSteps, Zenon DEF Next
<1>2. CASE UNCHANGED vars
  BY <1>2, Zenon DEF vars, IInv, TypeOK, MonitorsInv, Tracking
<1> QED
  BY <1>1, <1>2, Zenon

\* The invariant of the monitors holds in every reachable state.
LEMMA SpecIInv == Spec => []IInv
<1> QED
  BY InitIInv, NextIInv, PTL DEF Spec

-----------------------------------------------------------------------------
(* The theorems *)

\* The channel, the monitors and their goroutines keep their types in every
\* behaviour.
THEOREM TypeCorrect == Spec => []TypeOK
<1>1. IInv => TypeOK
  BY Zenon DEF IInv
<1> QED
  BY <1>1, SpecIInv, PTL

\* However shutdowns, late removals (onMonitoredChannelShutdown) and restarts
\* by any number of callers interleave, a live monitor is the one in the
\* Monitor's map: there is never a second one.
THEOREM LiveMonitorIsTracked == Spec => []LiveIsTracked
<1>1. IInv => LiveIsTracked
  BY Zenon DEF IInv, MonitorsInv, Tracking, LiveIsTracked
<1> QED
  BY <1>1, SpecIInv, PTL

\* closeChannelAndShutdown closes the channel at most once per monitor, however
\* the two timers and the restart loop race.
THEOREM MonitorClosesOnce == Spec => []ClosedOnce
<1>1. IInv => ClosedOnce
  BY Zenon DEF IInv, MonitorsInv, MonitorInv, ClosedOnce
<1> QED
  BY <1>1, SpecIInv, PTL

\* For every configured maximum the loop sends at most one restart more than it
\* without data in between.
THEOREM RestartsAreBounded == Spec => []RestartsBounded
<1>1. IInv => RestartsBounded
  BY Zenon DEF IInv, MonitorsInv, MonitorInv, RestartsBounded
<1> QED
  BY <1>1, SpecIInv, PTL

-----------------------------------------------------------------------------
(* The accept timer *)

\* The responder does not complete, or finalize, what it has not accepted.
AcceptedFirst ==
  Happenings \cap {"ResponderCompletes", "ResponderBeginsFinalization"} = {}

Unaccepted == chst.Status \in {"Requested", "AwaitingAcceptance"}

\* A notice that stops the accept timer, or the monitor, is on its way.
Told(n) == n.code = "Accept" \/ IsChannelCleaningUp(n.status) \/ IsChannelTerminated(n.status)

Heard == \E k \in DOMAIN notices : Told(notices[k])

\* A monitor that shut down, and whose loop counts a restart or did so since
\* data moved: unlike one that was never added, it is never added again.
Spent(m) ==
  /\ ~m.live
  /\ m.accept # "running"
  /\ m.barren > 0 \/ m.count > 0 \/ m.loop = "count"

\* While no one asked for a restart and the process did not crash, the first
\* monitor is the only one, until its loop restarts the channel without it.
\* Its accept timer runs only if the channel was not accepted, or the
\* subscriber has still to hear of it.
AcceptInv ==
  restarts = 0 /\ crashes = 0 =>
    /\ caller # "open"
    /\ \/ Spent(mon[1])
       \/ /\ \A i \in Monitors \ {1} : mon[i] = NotAdded
          /\ mon[1].accept = "running" =>
               mon[1].live /\ (mon[1].ending \/ Unaccepted \/ Heard)

\* A step of the first monitor from m to n that starts no accept timer.
Calm(m, n) ==
  /\ Spent(m) => Spent(n)
  /\ n.accept = "running" =>
       m.accept = "running" /\ (m.live => n.live /\ (m.ending => n.ending))

\* Shutdown starts no accept timer.
LEMMA ShutDownCalm ==
  ASSUME NEW m \in MonitorState
  PROVE  Calm(m, ShutDown(m)) /\ Calm(m, [ShutDown(m) EXCEPT !.ending = FALSE])
BY DEF Calm, Spent, ShutDown, MonitorState

\* Closing the channel starts no accept timer.
LEMMA CloseCalm ==
  ASSUME NEW m \in MonitorState
  PROVE  /\ Calm(m, CloseAndShutDown(m))
         /\ Calm(m, [CloseAndShutDown(m) EXCEPT !.accept = "off"])
         /\ Calm(m, [CloseAndShutDown(m) EXCEPT !.complete = "off"])
         /\ m.count > 0 => Calm(m, [CloseAndShutDown(m) EXCEPT !.loop = "idle"])
BY DEF Calm, Spent, CloseAndShutDown, ShutDown, MonitorState

\* Calm steps can be chained.
LEMMA CalmTransitive ==
  ASSUME NEW m, NEW n, NEW k, Calm(m, n), Calm(n, k), m.live \in BOOLEAN, n.live \in BOOLEAN
  PROVE  Calm(m, k)
BY Zenon DEF Calm

\* Counting a restart starts no accept timer.
LEMMA CountCalm ==
  ASSUME NEW m \in MonitorState
  PROVE  LET c == [m EXCEPT !.count = @ + 1]
         IN  Calm(m, IF c.count > MaxConsecutiveRestarts
                     THEN [CloseAndShutDown(c) EXCEPT !.loop = "idle"]
                     ELSE [c EXCEPT !.loop = "connect", !.owed = FALSE])
<1> DEFINE c == [m EXCEPT !.count = @ + 1]
<1>1. c \in MonitorState
  BY DEF MonitorState
<1>2. /\ c.count > 0 /\ c.live = m.live /\ c.accept = m.accept
      /\ c.ending = m.ending /\ c.barren = m.barren
  BY DEF MonitorState
<1> HIDE DEF c
<1>3. Calm(m, c)
  BY <1>2, Zenon DEF Calm, Spent
<1>4. Calm(c, [CloseAndShutDown(c) EXCEPT !.loop = "idle"])
  BY <1>1, <1>2, CloseCalm, Zenon
<1>5. Calm(c, [c EXCEPT !.loop = "connect", !.owed = FALSE])
  BY <1>1, <1>2, Zenon DEF Calm, Spent, MonitorState
<1>6. m.live \in BOOLEAN /\ c.live \in BOOLEAN
  BY <1>1, Zenon DEF MonitorState
<1> QED
  BY <1>3, <1>4, <1>5, <1>6, CalmTransitive, Zenon DEF c

\* Every step of a monitor that adds none is calm, and none is of a monitor
\* that was never added.
LEMMA MonitorCalm ==
  ASSUME IInv, NEW i \in Monitors,
         \/ ShutdownOnEnd(i) \/ RestartChannel(i) \/ CountRestart(i)
         \/ Backoff(i) \/ EndRestart(i)
         \/ \E t \in Timers : Expire(i, t) \/ TimedOut(i, t)
         \/ \E ok \in BOOLEAN : ConnectTo(i, ok)
         \/ Remove(i) \/ CloseChannel(i) \/ ReadChannel(i)
  PROVE  /\ \A j \in Monitors \ {i} : mon'[j] = mon[j]
         /\ Calm(mon[i], mon'[i])
         /\ mon[i] # NotAdded
<1> DEFINE m == mon[i]
<1>0. m \in MonitorState /\ mon \in [Monitors -> MonitorState]
  BY Zenon DEF IInv, MonitorsInv
<1>1. mon[i] # NotAdded
  <2>1. /\ ~NotAdded.live /\ ~NotAdded.ending /\ ~NotAdded.removing /\ ~NotAdded.closing
        /\ ~NotAdded.debounced /\ NotAdded.loop = "idle"
        /\ NotAdded["accept"] = "off" /\ NotAdded["complete"] = "off"
    BY Zenon DEF NotAdded
  <2> QED
    BY <2>1, Zenon DEF ShutdownOnEnd, RestartChannel, CountRestart, Backoff, EndRestart, Timers,
                Expire, TimedOut, ConnectTo, Remove, CloseChannel, ReadChannel
<1>2. SUFFICES \E n : mon' = [mon EXCEPT ![i] = n] /\ Calm(m, n)
  BY <1>0, <1>1, Zenon
<1>3. CASE ShutdownOnEnd(i)
  BY <1>0, <1>3, ShutDownCalm, Zenon DEF ShutdownOnEnd, Only
<1>4. CASE RestartChannel(i)
  <2> DEFINE k == [m EXCEPT !.debounced = FALSE]
  <2>1. Calm(m, [k EXCEPT !.queued = TRUE])
    BY <1>0, Zenon DEF Calm, Spent, MonitorState
  <2>2. Calm(m, [k EXCEPT !.restarting = TRUE, !.loop = "count"])
    BY <1>0, Zenon DEF Calm, Spent, MonitorState
  <2> QED
    BY <1>4, <2>1, <2>2, Zenon DEF RestartChannel, Only
<1>5. CASE CountRestart(i)
  BY <1>0, <1>5, CountCalm, Zenon DEF CountRestart, Only
<1>6. CASE Backoff(i)
  <2>1. Calm(m, [m EXCEPT !.loop = "check"])
    BY <1>0, <1>6, Zenon DEF Calm, Spent, MonitorState, Backoff
  <2> QED
    BY <1>6, <2>1, Zenon DEF Backoff, Only
<1>7. CASE EndRestart(i)
  <2>1. /\ Calm(m, [m EXCEPT !.queued = FALSE, !.loop = "count"])
        /\ Calm(m, [m EXCEPT !.restarting = FALSE, !.loop = "idle"])
    BY <1>0, <1>7, Zenon DEF Calm, Spent, MonitorState, EndRestart
  <2> QED
    BY <1>7, <2>1, Zenon DEF EndRestart, Only
<1>8. CASE \E t \in Timers : Expire(i, t)
  <2>1. Calm(m, [m EXCEPT !.accept = "fired"]) /\ Calm(m, [m EXCEPT !.complete = "fired"])
    BY <1>0, Zenon DEF Calm, Spent, MonitorState
  <2> QED
    BY <1>8, <2>1, Zenon DEF Expire, Only, Timers
<1>9. CASE \E t \in Timers : TimedOut(i, t)
  BY <1>0, <1>9, CloseCalm, Zenon DEF TimedOut, Only, Timers
<1>10. CASE \E ok \in BOOLEAN : ConnectTo(i, ok)
  <2>1. m.loop = "connect" =>
          Calm(m, [m EXCEPT !.loop = "read"]) /\ Calm(m, [m EXCEPT !.loop = "count"])
    BY <1>0, Zenon DEF Calm, Spent, MonitorState
  <2> QED
    BY <1>10, <2>1, Zenon DEF ConnectTo, Only
<1>11. CASE Remove(i)
  <2>1. Calm(m, [m EXCEPT !.removing = FALSE])
    BY <1>0, Zenon DEF Calm, Spent, MonitorState
  <2> QED
    BY <1>11, <2>1, Zenon DEF Remove
<1>12. CASE CloseChannel(i)
  <2>1. Calm(m, [m EXCEPT !.closing = FALSE])
    BY <1>0, Zenon DEF Calm, Spent, MonitorState
  <2> QED
    BY <1>12, <2>1, Zenon DEF CloseChannel
<1>13. CASE ReadChannel(i)
  <2>1. m.loop = "read" =>
          Calm(m, [m EXCEPT !.loop = "backoff"]) /\ Calm(m, [m EXCEPT !.loop = "open"])
    BY <1>0, Zenon DEF Calm, Spent, MonitorState
  <2> QED
    BY <1>13, <2>1, Zenon DEF ReadChannel
<1> QED
  BY <1>3, <1>4, <1>5, <1>6, <1>7, <1>8, <1>9, <1>10, <1>11, <1>12, <1>13, Zenon

\* An event that leaves the statuses before acceptance is one that the
\* subscriber will stop the timer for.
LEMMA FireHeard ==
  ASSUME TypeOK, NEW code \in EventCode, Fire(code),
         code \notin {"Open", "ResponderCompletes", "ResponderBeginsFinalization",
                      "BeginFinalizing"},
         code = "FinishTransfer" => chst.Status # "Requested",
         Unaccepted \/ Heard
  PROVE  (Unaccepted \/ Heard)'
<1>1. CASE UNCHANGED <<chst, notices>>
  BY <1>1, Zenon DEF Unaccepted, Heard
<1>2. CASE /\ ~IsChannelTerminated(chst.Status) /\ Destination(code, chst.Status) # "Rejected"
           /\ chst' = Apply(chst, Event(code))
           /\ notices' = Append(notices, [code |-> code, status |-> chst'.Status])
  <2> DEFINE new == [code |-> code, status |-> chst'.Status]
  <2>1. notices \in Seq([code : EventCode, status : Status])
    BY Zenon DEF TypeOK
  <2>2. Len(notices) + 1 \in DOMAIN notices' /\ notices'[Len(notices) + 1] = new
    BY <1>2, <2>1
  <2>3. \A k \in DOMAIN notices : k \in DOMAIN notices' /\ notices'[k] = notices[k]
    BY <1>2, <2>1
  <2>4. CASE Heard
    BY <2>3, <2>4, Zenon DEF Heard
  <2>5. CASE Unaccepted
    <3>1. Event(code) \in Events /\ Event(code).code = code
      BY Zenon DEF Event, Events
    <3>2. chst'.Status = IF Destination(code, chst.Status) \in Status
                         THEN Destination(code, chst.Status) ELSE chst.Status
      BY <1>2, <3>1, ApplyType, Zenon DEF TypeOK
    <3>3. Unaccepted' \/ Told(new)
      BY <2>5, <3>2 DEF Unaccepted, Told, IsChannelCleaningUp, IsChannelTerminated,
         CleanupStates, ChannelFinalityStates, Status, Destination, AfterFinishTransfer,
         EventCode, ErrorCodes, ToFromAny, NoChangeCodes, RecordCodes
    <3> QED
      BY <2>2, <3>3, Zenon DEF Heard
  <2> QED
    BY <2>4, <2>5, Zenon
<1> QED
  BY <1>1, <1>2, Zenon DEF Fire

\* The invariant survives calm steps.
LEMMA CalmAccept ==
  ASSUME IInv, AcceptInv, UNCHANGED <<restarts, crashes>>,
         caller' = caller \/ caller' = "no",
         Unaccepted \/ Heard => (Unaccepted \/ Heard)',
         Calm(mon[1], mon'[1]), \A j \in Monitors \ {1} : mon'[j] = mon[j]
  PROVE  AcceptInv'
<1>1. CASE Spent(mon[1])
  BY <1>1, Zenon DEF AcceptInv, Calm
<1>2. CASE ~Spent(mon[1])
  BY <1>2, Zenon DEF AcceptInv, Calm
<1> QED
  BY <1>1, <1>2, Zenon

\* The steps that add no monitor and publish nothing.
LEMMA AcceptMonitorSteps ==
  ASSUME IInv, AcceptInv, NEW i \in Monitors,
         \/ ShutdownOnEnd(i) \/ RestartChannel(i) \/ CountRestart(i)
         \/ Backoff(i) \/ EndRestart(i)
         \/ \E t \in Timers : Expire(i, t) \/ TimedOut(i, t)
         \/ \E ok \in BOOLEAN : ConnectTo(i, ok)
         \/ Remove(i) \/ CloseChannel(i) \/ ReadChannel(i)
  PROVE  AcceptInv'
<1>1. UNCHANGED <<restarts, crashes, caller>>
  BY Zenon DEF ShutdownOnEnd, RestartChannel, CountRestart, Backoff, EndRestart, Expire, TimedOut,
         ConnectTo, Remove, CloseChannel, ReadChannel, Only
<1>2. /\ \A j \in Monitors \ {i} : mon'[j] = mon[j]
      /\ Calm(mon[i], mon'[i])
      /\ mon[i] # NotAdded
  BY MonitorCalm, Zenon
<1>3. CASE i = 1
  <2>1. Unaccepted \/ Heard => (Unaccepted \/ Heard)'
    <3>1. CASE UNCHANGED <<chst, notices>>
      BY <3>1, Zenon DEF Unaccepted, Heard
    <3>2. CASE Fire("Error") \/ Fire("CompleteCleanupOnRestart")
      BY <3>2, FireHeard, Zenon DEF IInv, EventCode, ErrorCodes
    <3> QED
      BY <3>1, <3>2, Zenon DEF ShutdownOnEnd, RestartChannel, CountRestart, Backoff, EndRestart,
         Expire, TimedOut, ConnectTo, Remove, CloseChannel, ReadChannel, Only
  <2> QED
    BY <1>1, <1>2, <1>3, <2>1, CalmAccept, Zenon
<1>4. CASE i # 1
  BY <1>1, <1>2, <1>4, MonitorAssumption, Zenon DEF AcceptInv
<1> QED
  BY <1>3, <1>4, Zenon

\* The loop of the first monitor adds another only once the first is gone from
\* the map, and then it is spent.
LEMMA AcceptOpenRestart ==
  ASSUME IInv, AcceptInv, NEW i \in Monitors, NEW ok \in BOOLEAN, OpenRestart(i, ok)
  PROVE  AcceptInv'
<1> DEFINE m == mon[i]
           k == [m EXCEPT !.loop = IF ok THEN "backoff" ELSE "count",
                          !.barren = IF ok THEN @ + 1 ELSE @]
           ms == [mon EXCEPT ![i] = k]
<1>0. 1 \in Monitors /\ m.loop = "open"
  BY MonitorAssumption, Zenon DEF OpenRestart
<1>1. m \in MonitorState /\ mon[1] \in MonitorState /\ mon \in [Monitors -> MonitorState]
  BY MonitorAssumption, Zenon DEF IInv, MonitorsInv
<1>2. /\ Calm(m, k) /\ k.live = m.live
      /\ ~m.live /\ m.accept # "running" => Spent(k)
  <2>1. /\ k.live = m.live /\ k.accept = m.accept /\ k.ending = m.ending
        /\ k.count = m.count /\ m.barren \in Nat /\ m.count \in Nat
        /\ k.loop = IF ok THEN "backoff" ELSE "count"
        /\ k.barren = IF ok THEN m.barren + 1 ELSE m.barren
    BY <1>1, Zenon DEF MonitorState
  <2> HIDE DEF k
  <2> QED
    BY <1>0, <2>1 DEF Calm, Spent
<1>3. AddAndSend(ms, ok) /\ UNCHANGED <<chst, notices, caller, restarts, crashes>>
  BY <1>1, Zenon DEF OpenRestart
<1> HIDE DEF k
<1>4. CASE Spent(mon[1])
  <2>1. Spent(ms[1]) /\ mon[1] # NotAdded
    BY <1>0, <1>1, <1>2, <1>4 DEF Calm, Spent, NotAdded
  <2>2. mon'[1] = ms[1]
    BY <1>0, <1>1, <1>3, <2>1, Zenon DEF AddAndSend, Fresh
  <2> QED
    BY <1>3, <2>1, <2>2, Zenon DEF AcceptInv
<1>5. CASE ~Spent(mon[1]) /\ restarts = 0 /\ crashes = 0
  <2>1. i = 1
    BY <1>0, <1>5 DEF AcceptInv, NotAdded
  <2>2. CASE tracked # 0
    <3>1. Calm(mon[1], mon'[1]) /\ \A j \in Monitors \ {1} : mon'[j] = mon[j]
      BY <1>1, <1>2, <1>3, <2>1, <2>2, Zenon DEF AddAndSend
    <3>2. Unaccepted \/ Heard => (Unaccepted \/ Heard)'
      BY <1>3, Zenon DEF Unaccepted, Heard
    <3> QED
      BY <1>3, <3>1, <3>2, CalmAccept, Zenon
  <2>3. CASE tracked = 0
    <3>1. ~mon[1].live
      BY <1>0, <2>3 DEF IInv, MonitorsInv, Tracking
    <3>2. mon[1].accept # "running"
      BY <1>5, <3>1, Zenon DEF AcceptInv
    <3>3. mon'[1] = k
      BY <1>0, <1>1, <1>3, <2>1, <2>3 DEF AddAndSend, Fresh, NotAdded
    <3> QED
      BY <1>2, <1>3, <1>5, <2>1, <3>1, <3>2, <3>3, Zenon DEF AcceptInv
  <2> QED
    BY <2>2, <2>3, Zenon
<1>6. CASE ~(restarts = 0 /\ crashes = 0)
  BY <1>3, <1>6, Zenon DEF AcceptInv
<1> QED
  BY <1>4, <1>5, <1>6, Zenon

\* A notice is published: one that the invariant waited for stops the timer or
\* has the monitor end.
LEMMA AcceptPublish ==
  ASSUME IInv, AcceptInv, Publish
  PROVE  AcceptInv'
<1> DEFINE n == Head(notices)
           m == mon[1]
<1>0. m \in MonitorState /\ mon'[1] = IF m.live THEN React(m, n) ELSE m
  BY MonitorAssumption, Zenon DEF IInv, MonitorsInv, Publish
<1>1. \A j \in Monitors \ {1} : mon[j] = NotAdded => mon'[j] = NotAdded
  BY NotAddedInv, Zenon DEF Publish
<1>2. /\ React(m, n).live = m.live
      /\ React(m, n).accept = "running" => m.accept = "running" /\ (m.ending => React(m, n).ending)
      /\ Told(n) => React(m, n).ending \/ React(m, n).accept # "running"
  BY <1>0 DEF React, MonitorState, Told
<1>3. Heard => Told(n) \/ Heard'
  <2> SUFFICES ASSUME NEW k \in DOMAIN notices, Told(notices[k]) PROVE Told(n) \/ Heard'
    BY Zenon DEF Heard
  <2> DEFINE Notice == [code : EventCode, status : Status]
  <2>1. notices \in Seq(Notice) /\ notices # <<>> /\ notices' = Tail(notices)
    BY Zenon DEF Publish, IInv, TypeOK
  <2> HIDE DEF Notice
  <2>2. k = 1 \/ (k - 1 \in DOMAIN notices' /\ notices'[k - 1] = notices[k])
    BY <2>1
  <2>3. n = notices[1]
    BY <2>1
  <2> QED
    BY <2>2, <2>3, Zenon DEF Heard
<1>4. Unaccepted' = Unaccepted /\ UNCHANGED <<restarts, crashes, caller>>
  BY Zenon DEF Publish, Unaccepted
<1>5. CASE Spent(m)
  BY <1>0, <1>4, <1>5, Zenon DEF AcceptInv, Spent
<1>6. CASE ~Spent(m) /\ m.live
  <2>1. mon'[1] = React(m, n)
    BY <1>0, <1>6, Zenon
  <2> HIDE DEF n
  <2> QED
    BY <1>1, <1>2, <1>3, <1>4, <1>6, <2>1, Zenon DEF AcceptInv
<1>7. CASE ~Spent(m) /\ ~m.live
  BY <1>0, <1>1, <1>4, <1>7, Zenon DEF AcceptInv
<1> QED
  BY <1>5, <1>6, <1>7, Zenon

\* Every step preserves what is known of the first accept timer.
LEMMA NextAcceptInv ==
  ASSUME AcceptedFirst, IInv, AcceptInv, [Next]_vars
  PROVE  AcceptInv'
<1>0. 1 \in Monitors /\ mon[1] \in MonitorState
  BY MonitorAssumption, Zenon DEF IInv, MonitorsInv
<1>1. CASE \E code \in Happenings : ChannelEvent(code)
  <2>1. PICK code \in Happenings : ChannelEvent(code)
    BY <1>1, Zenon
  <2>2. /\ code \in EventCode
        /\ code \notin {"Open", "ResponderCompletes", "ResponderBeginsFinalization",
                        "BeginFinalizing"}
    BY MonitorAssumption, Zenon DEF EventCode, AcceptedFirst
  <2>3. Unaccepted \/ Heard => (Unaccepted \/ Heard)'
    BY <2>1, <2>2, FireHeard, Zenon DEF ChannelEvent, IInv
  <2> QED
    BY <2>1, <2>3, Zenon DEF ChannelEvent, AcceptInv
<1>2. CASE TransportError \/ CleanupDone
  <2>1. Unaccepted \/ Heard => (Unaccepted \/ Heard)'
    BY <1>2, FireHeard, Zenon DEF TransportError, CleanupDone, IInv, EventCode, ErrorCodes
  <2> QED
    BY <1>2, <2>1, Zenon DEF TransportError, CleanupDone, AcceptInv
<1>3. CASE Publish
  BY <1>3, AcceptPublish, Zenon
<1>4. CASE \E i \in Monitors, ok \in BOOLEAN : OpenRestart(i, ok)
  BY <1>4, AcceptOpenRestart, Zenon
<1>5. CASE \E ok \in BOOLEAN : OpenSent(ok)
  <2>1. PICK ok \in BOOLEAN : OpenSent(ok)
    BY <1>5, Zenon
  <2>2. CASE ok
    BY <2>1, <2>2, Zenon DEF OpenSent, AcceptInv, Unaccepted, Heard
  <2>3. CASE ~ok
    <3>1. Unaccepted \/ Heard => (Unaccepted \/ Heard)'
      BY <2>1, <2>3, FireHeard, Zenon DEF OpenSent, IInv, EventCode, ErrorCodes
    <3>2. Calm(mon[1], mon'[1]) /\ \A j \in Monitors \ {1} : mon'[j] = mon[j]
      BY <1>0, <2>1, <2>3, ShutDownCalm, Zenon DEF OpenSent, IInv, MonitorsInv
    <3> QED
      BY <2>1, <3>1, <3>2, CalmAccept, Zenon DEF OpenSent
  <2> QED
    BY <2>2, <2>3, Zenon
<1>6. CASE (\E ok \in BOOLEAN : CallerOpens(ok)) \/ Stop \/ UNCHANGED vars
  BY <1>6, Zenon DEF CallerOpens, Stop, vars, AcceptInv, Unaccepted, Heard
<1>7. CASE ClientRestart \/ PeerRestart \/ Crash
  BY <1>7 DEF ClientRestart, PeerRestart, Crash, AcceptInv, IInv, TypeOK
<1> QED
  BY <1>1, <1>2, <1>3, <1>4, <1>5, <1>6, <1>7, AcceptMonitorSteps, Zenon DEF Next

\* Where the responder accepts before it finalizes or completes, the accept
\* timer of the monitor OpenPushDataChannel added never expires on a channel
\* that was accepted and whose events were published: for any number of
\* events under way, errors, restarts of the loop and monitors it adds.
THEOREM AcceptTimerExpiresRightly ==
  ASSUME AcceptedFirst
  PROVE  Spec => AcceptTimerRight
<1>1. Init => AcceptInv
  BY MonitorAssumption, AddedInv DEF Init, AcceptInv, Unaccepted, NewChannelState
<1>2. IInv /\ AcceptInv /\ [Next]_vars => AcceptInv'
  BY NextAcceptInv, Zenon
<1>3. IInv /\ AcceptInv =>
        [\A i \in Monitors :
           /\ mon[i].accept = "running" /\ mon'[i].accept = "fired"
           /\ i = 1 /\ restarts = 0 /\ crashes = 0 /\ notices = <<>> /\ ~mon[i].ending
           => chst.Status \in {"Requested", "AwaitingAcceptance"}]_vars
  BY DEF AcceptInv, Spent, Unaccepted, Heard
<1> QED
  BY <1>1, <1>2, <1>3, SpecIInv, PTL DEF Spec, AcceptTimerRight

=============================================================================
