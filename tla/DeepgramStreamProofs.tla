------------------------ MODULE DeepgramStreamProofs ------------------------
(***************************************************************************)
(* Proofs about DeepgramStream, for any capacity, times and number of      *)
(* buffers: the client is stopped twice only by the race after a cancel,   *)
(* and the channels behave as the turn loop expects of a PCMStream.        *)
(***************************************************************************)
EXTENDS DeepgramStream, SequenceTheorems, TLAPS

MainPC    == {"start", "connect", "speak", "loop", "stop", "stopSet", "stopping", "closeDone",
              "defer", "deferSet", "deferStopping", "closeErr", "closePcm", "ended"}
WatcherPC == {"none", "wait", "stop", "stopSet", "stopping", "ended"}
PCs == pc \in [{Main, Watcher} -> MainPC \cup WatcherPC] /\ pc[Main] \in MainPC /\ pc[Watcher] \in WatcherPC

\* Who may still stop the client: each goroutine once at most.
Before        == {"start", "connect", "speak", "loop", "stop", "stopSet", "deferSet",
                   "stopping", "deferStopping"}
MainMayStop   == pc[Main] \in Before \/ (pc[Main] \in {"closeDone", "defer"} /\ ~stopped)
WatcherMayStop == pc[Watcher] \in {"none", "wait", "stop", "stopSet", "stopping"}
One(b)        == IF b THEN 1 ELSE 0
Budget == /\ stops \in Nat /\ stops + One(MainMayStop) + One(WatcherMayStop) <= 2
          /\ stopped \in BOOLEAN /\ (stops > 0 => stopped)
          /\ pc[Main] \in {"stopping", "deferStopping"} \/ pc[Watcher] = "stopping" => stopped
          /\ pc[Main] \in {"start", "connect"} => pc[Watcher] = "none" /\ stops = 0

\* Without a cancel only the first goroutine stops it, the second does not even wake for it.
Uncancelled == ~ctxDone => /\ pc[Watcher] \notin {"stop", "stopSet", "stopping"} /\ stops <= 1
                           /\ pc[Main] \in Before => stops = 0

\* Where the stream stands: the errors come before errCh is closed, pcmCh is closed last.
Order ==
  /\ pc[Main] \in {"start", "connect", "speak"} => ~errSent
  /\ errClosed <=> pc[Main] \in {"closePcm", "ended"}
  /\ pcmClosed <=> pc[Main] = "ended"
  /\ queued <= arrived /\ (cb = "send" => queued < arrived)

\* How a goroutine that moves disturbs where the two are.
LEMMA GotoMoves ==
  ASSUME PCs, NEW p \in {Main, Watcher}, NEW f, NEW t, Goto(p, f, t)
  PROVE  /\ pc[p] = f /\ pc'[p] = t /\ \A q \in {Main, Watcher} : q # p => pc'[q] = pc[q]
         /\ pc' = [pc EXCEPT ![p] = t]
  BY DEF Goto, PCs

\* Each goroutine is at one of its places.
LEMMA StepPCs == PCs /\ [Next]_vars => PCs'
  <1>. SUFFICES ASSUME PCs, [Next]_vars PROVE PCs'
    OBVIOUS
  <1>. USE StreamAssumption
  <1>1. ASSUME NEW f, NEW t \in MainPC, Goto(Main, f, t) PROVE PCs'
    BY <1>1, GotoMoves DEF PCs
  <1>2. ASSUME NEW f, NEW t \in WatcherPC, Goto(Watcher, f, t) PROVE PCs'
    BY <1>2, GotoMoves DEF PCs
  <1>3. CASE UNCHANGED pc
    BY <1>3 DEF PCs
  <1>4. CASE Connect
    <2>1. CASE pc' = [pc EXCEPT ![Main] = "speak", ![Watcher] = "wait"]
      BY <2>1 DEF PCs, MainPC, WatcherPC
    <2>2. CASE Goto(Main, "connect", "defer")
      BY <1>1, <2>2 DEF MainPC
    <2>. QED
      BY <1>4, <2>1, <2>2 DEF Connect
  <1>5. CASE Start \/ Speak \/ LoopExits \/ AfterStop \/ CloseErr \/ ClosePcm
    BY <1>1, <1>5 DEF Start, Speak, LoopExits, AfterStop, CloseErr, ClosePcm, MainPC
  <1>6. CASE StopClient(Main, "stop", "stopSet", "stopping", "closeDone") \/ StopClient(Main, "defer", "deferSet", "deferStopping", "closeErr")
    BY <1>1, <1>6 DEF StopClient, MainPC
  <1>7. CASE WatcherStep
    BY <1>2, <1>7 DEF WatcherStep, WatcherWakes, StopClient, WatcherPC
  <1>. QED
    BY <1>3, <1>4, <1>5, <1>6, <1>7
       DEF Next, MainStep, AudioArrives, CallbackSends, Take, Cancel, Tick, vars

\* What the steps do to the count: nothing, or one goroutine spends its stop.
LEMMA StepBudget ==
  PCs /\ Budget /\ Uncancelled /\ [Next]_vars => Budget' /\ Uncancelled'
  <1>. SUFFICES ASSUME PCs, Budget, Uncancelled, [Next]_vars PROVE Budget' /\ Uncancelled'
    OBVIOUS
  <1>. DEFINE Goal == Budget' /\ Uncancelled'
              m == pc[Main]
              w == pc[Watcher]
  <1>0. /\ stops \in Nat /\ stops + One(MainMayStop) + One(WatcherMayStop) <= 2
        /\ stopped \in BOOLEAN /\ (stops > 0 => stopped)
        /\ (m \in {"stopping", "deferStopping"} \/ w = "stopping" => stopped)
        /\ (m \in {"start", "connect"} => w = "none" /\ stops = 0)
    BY DEF Budget
  <1>1. ASSUME UNCHANGED stops, stopped => stopped', stopped' \in BOOLEAN, ctxDone => ctxDone',
               MainMayStop' => MainMayStop, WatcherMayStop' => WatcherMayStop,
               pc'[Main] \in {"start", "connect"} => m \in {"start", "connect"} /\ pc'[Watcher] = w,
               ~ctxDone' /\ pc'[Watcher] \in {"stop", "stopSet", "stopping"}
                 => w \in {"stop", "stopSet", "stopping"},
               pc'[Main] \in {"stopping", "deferStopping"} \/ pc'[Watcher] = "stopping" => stopped',
               ~ctxDone' /\ pc'[Main] \in Before => m \in Before \/ stops = 0
        PROVE  Goal
    <2>1. One(MainMayStop') <= One(MainMayStop) /\ One(WatcherMayStop') <= One(WatcherMayStop)
          /\ One(MainMayStop') \in Nat /\ One(WatcherMayStop') \in Nat
          /\ One(MainMayStop) \in Nat /\ One(WatcherMayStop) \in Nat
      BY <1>1 DEF One
    <2>2. stops + One(MainMayStop') + One(WatcherMayStop') <= 2
      BY <1>0, <2>1
    <2>3. Budget'
      BY <1>0, <1>1, <2>2 DEF Budget, One
    <2>4. Uncancelled'
      BY <1>1 DEF Uncancelled
    <2>. QED
      BY <2>3, <2>4
  <1>2. ASSUME NEW f, NEW t, Goto(Main, f, t), UNCHANGED <<stops, stopped, ctxDone>>,
               t \in Before => f \in Before, t \in {"start", "connect"} => f = "start",
               t \notin {"stopping", "deferStopping"},
               t \in {"closeDone", "defer"} => f \in Before \/ f = "closeDone" \/ stopped
        PROVE  Goal
    <2>1. m = f /\ pc'[Main] = t /\ pc'[Watcher] = w
      BY <1>2, GotoMoves, StreamAssumption
    <2>. QED
      BY <1>0, <1>1, <1>2, <2>1 DEF MainMayStop, WatcherMayStop
  <1>3. CASE UNCHANGED <<pc, stops, stopped>> /\ (ctxDone => ctxDone')
    BY <1>0, <1>1, <1>3 DEF MainMayStop, WatcherMayStop
  <1>4. CASE Connect
    <2>1. CASE m = "connect" /\ pc' = [pc EXCEPT ![Main] = "speak", ![Watcher] = "wait"]
      <3>1. pc'[Main] = "speak" /\ pc'[Watcher] = "wait" /\ w = "none"
        BY <1>0, <2>1, StreamAssumption DEF PCs
      <3>. QED
        BY <1>0, <1>1, <1>4, <2>1, <3>1 DEF Connect, MainMayStop, WatcherMayStop, Before
    <2>2. CASE Goto(Main, "connect", "defer")
      BY <1>2, <1>4, <2>2 DEF Connect, Before
    <2>. QED
      BY <1>4, <2>1, <2>2 DEF Connect
  <1>5. CASE Start
    BY <1>2, <1>5 DEF Start, Before
  <1>6. CASE Speak
    BY <1>2, <1>6 DEF Speak, Before
  <1>7. CASE LoopExits
    BY <1>2, <1>7 DEF LoopExits, Before
  <1>8. CASE AfterStop
    BY <1>2, <1>8 DEF AfterStop, Before
  <1>9. CASE CloseErr \/ ClosePcm
    BY <1>2, <1>9 DEF CloseErr, ClosePcm, Before
  <1>10. ASSUME NEW f, NEW set, NEW in, NEW next, StopClient(Main, f, set, in, next),
                f \in (Before \ {"stopping", "deferStopping"}) \cup {"defer"},
                set \in {"stopSet", "deferSet"}, in \in {"stopping", "deferStopping"},
                next \in {"closeDone", "closeErr"}
         PROVE  Goal
    <2>0. ctxDone' = ctxDone
      BY <1>10 DEF StopClient
    <2>1. CASE Goto(Main, f, IF NotStopped THEN set ELSE next) /\ UNCHANGED <<stopped, stops>>
      <3>1. m = f /\ pc'[Main] = (IF NotStopped THEN set ELSE next) /\ pc'[Watcher] = w
        BY <2>1, GotoMoves, StreamAssumption
      <3>2. CASE stopped
        BY <1>2, <1>10, <2>0, <2>1, <3>2 DEF NotStopped, Before
      <3>3. CASE ~stopped
        <4>1. stops = 0 /\ MainMayStop
          BY <1>0, <1>10, <3>1, <3>3 DEF MainMayStop
        <4>. QED
          BY <1>0, <1>1, <1>10, <2>0, <2>1, <3>1, <3>3, <4>1 DEF NotStopped, WatcherMayStop, Before
      <3>. QED
        BY <1>0, <3>2, <3>3
    <2>3. CASE Goto(Main, set, in) /\ stopped' = TRUE /\ UNCHANGED stops
      <3>1. m = set /\ pc'[Main] = in /\ pc'[Watcher] = w
        BY <2>3, GotoMoves, StreamAssumption
      <3>2. MainMayStop /\ (WatcherMayStop' <=> WatcherMayStop)
        BY <1>10, <3>1 DEF MainMayStop, WatcherMayStop, Before
      <3>. QED
        BY <1>1, <1>10, <2>0, <2>3, <3>1, <3>2 DEF Before
    <2>2. CASE Goto(Main, in, next) /\ stops' = stops + 1 /\ UNCHANGED stopped
      <3>0. stopped
        BY <1>0, <1>10, <2>2, GotoMoves, StreamAssumption
      <3>1. m = in /\ pc'[Main] = next /\ pc'[Watcher] = w
        BY <2>2, GotoMoves, StreamAssumption
      <3>2. MainMayStop /\ ~MainMayStop' /\ (WatcherMayStop' <=> WatcherMayStop)
        BY <1>10, <2>2, <3>0, <3>1 DEF MainMayStop, WatcherMayStop, Before
      <3>3. stops' \in Nat /\ stops' > 0 /\ stops' + One(MainMayStop') + One(WatcherMayStop') <= 2
        BY <1>0, <2>2, <3>2 DEF One
      <3>4. Budget'
        BY <1>0, <1>10, <2>2, <3>0, <3>1, <3>3 DEF Budget, Before
      <3>5. Uncancelled'
        BY <1>0, <1>10, <2>0, <2>2, <3>1 DEF Uncancelled, Before
      <3>. QED
        BY <3>4, <3>5
    <2>. QED
      BY <1>10, <2>1, <2>2, <2>3 DEF StopClient
  <1>11. CASE StopClient(Main, "stop", "stopSet", "stopping", "closeDone") \/ StopClient(Main, "defer", "deferSet", "deferStopping", "closeErr")
    BY <1>10, <1>11 DEF Before
  <1>12. CASE WatcherWakes
    <2>1. PICK t \in {"stop", "ended"} : Goto(Watcher, "wait", t) /\ (t = "stop" => ctxDone)
      BY <1>12 DEF WatcherWakes
    <2>2. w = "wait" /\ pc'[Watcher] = t /\ pc'[Main] = m /\ UNCHANGED <<stops, stopped, ctxDone>>
      BY <1>12, <2>1, GotoMoves, StreamAssumption DEF WatcherWakes
    <2>. QED
      BY <1>0, <1>1, <2>1, <2>2 DEF MainMayStop, WatcherMayStop
  <1>13. CASE StopClient(Watcher, "stop", "stopSet", "stopping", "ended")
    <2>1. CASE Goto(Watcher, "stop", IF NotStopped THEN "stopSet" ELSE "ended") /\ UNCHANGED <<stopped, stops>>
      <3>1. /\ w = "stop" /\ pc'[Watcher] \in {"stopSet", "ended"} /\ pc'[Main] = m
            /\ UNCHANGED <<stops, stopped, ctxDone>>
        BY <1>13, <2>1, GotoMoves, StreamAssumption DEF StopClient
      <3>. QED
        BY <1>0, <1>1, <3>1 DEF MainMayStop, WatcherMayStop
    <2>3. CASE Goto(Watcher, "stopSet", "stopping") /\ stopped' = TRUE /\ UNCHANGED stops
      <3>1. w = "stopSet" /\ pc'[Watcher] = "stopping" /\ pc'[Main] = m /\ UNCHANGED ctxDone
        BY <1>13, <2>3, GotoMoves, StreamAssumption DEF StopClient
      <3>. QED
        BY <1>0, <1>1, <2>3, <3>1 DEF MainMayStop, WatcherMayStop
    <2>2. CASE Goto(Watcher, "stopping", "ended") /\ stops' = stops + 1 /\ UNCHANGED stopped
      <3>1. w = "stopping" /\ pc'[Watcher] = "ended" /\ pc'[Main] = m /\ UNCHANGED ctxDone
        BY <1>13, <2>2, GotoMoves, StreamAssumption DEF StopClient
      <3>2. WatcherMayStop /\ ~WatcherMayStop' /\ (MainMayStop' => MainMayStop)
        BY <2>2, <3>1 DEF MainMayStop, WatcherMayStop
      <3>3. stops' \in Nat /\ stops' > 0 /\ stops' + One(MainMayStop') + One(WatcherMayStop') <= 2
        BY <1>0, <2>2, <3>2 DEF One
      <3>4. Budget'
        BY <1>0, <2>2, <3>1, <3>3 DEF Budget
      <3>5. ctxDone
        BY <3>1 DEF Uncancelled
      <3>. QED
        BY <3>1, <3>4, <3>5 DEF Uncancelled
    <2>. QED
      BY <1>13, <2>1, <2>2, <2>3 DEF StopClient
  <1>. HIDE DEF Goal
  <1>. QED
    BY <1>3, <1>4, <1>5, <1>6, <1>7, <1>8, <1>9, <1>11, <1>12, <1>13
       DEF Next, MainStep, WatcherStep, AudioArrives, CallbackSends, Take, Cancel, Tick, vars

\* The steps of the first goroutine keep the order of the stream, as do the callback's.
LEMMA StepOrder == PCs /\ Order /\ TypeOK /\ [Next]_vars => Order'
  <1>. SUFFICES ASSUME PCs, Order, TypeOK, [Next]_vars PROVE Order'
    OBVIOUS
  <1>0. queued \in Nat /\ arrived \in Nat /\ queued <= arrived
    BY StreamAssumption DEF TypeOK, Order
  <1>1. CASE UNCHANGED <<errSent, errClosed, pcmClosed, queued, cb, arrived>> /\ pc'[Main] = pc[Main]
    BY <1>1 DEF Order
  <1>2. ASSUME NEW f, NEW t, Goto(Main, f, t), UNCHANGED <<errClosed, pcmClosed, queued, cb, arrived>>,
               t \notin {"closePcm", "ended"}, f \notin {"closePcm", "ended"},
               t \in {"start", "connect", "speak"} => errSent' = errSent /\ f \in {"start", "connect", "speak"}
        PROVE  Order'
    BY <1>2, GotoMoves DEF Order
  <1>3. CASE Connect
    <2>1. CASE pc[Main] = "connect" /\ pc' = [pc EXCEPT ![Main] = "speak", ![Watcher] = "wait"] /\ UNCHANGED errSent
      <3>1. pc'[Main] = "speak"
        BY <2>1, StreamAssumption DEF PCs
      <3>. QED
        BY <1>3, <2>1, <3>1 DEF Connect, sdkVars, Order
    <2>2. CASE Goto(Main, "connect", "defer")
      BY <1>2, <1>3, <2>2 DEF Connect, sdkVars
    <2>. QED
      BY <1>3, <2>1, <2>2 DEF Connect
  <1>4. CASE Start
    BY <1>2, <1>4 DEF Start, sdkVars
  <1>5. CASE Speak
    BY <1>2, <1>5 DEF Speak, sdkVars
  <1>6. CASE LoopExits \/ AfterStop
    BY <1>2, <1>6 DEF LoopExits, AfterStop, chanVars, sdkVars
  <1>7. CASE StopClient(Main, "stop", "stopSet", "stopping", "closeDone") \/ StopClient(Main, "defer", "deferSet", "deferStopping", "closeErr")
    BY <1>2, <1>7 DEF StopClient, chanVars, sdkVars
  <1>8. CASE CloseErr
    BY <1>8, GotoMoves DEF CloseErr, sdkVars, Order
  <1>9. CASE ClosePcm
    BY <1>9, GotoMoves DEF ClosePcm, sdkVars, Order
  <1>10. CASE WatcherStep
    <2>1. UNCHANGED <<errSent, errClosed, pcmClosed, queued, cb, arrived>> /\ \E f, t : Goto(Watcher, f, t)
      BY <1>10 DEF WatcherStep, WatcherWakes, StopClient, chanVars, sdkVars
    <2>. QED
      BY <1>1, <2>1, GotoMoves, StreamAssumption
  <1>11. CASE AudioArrives
    BY <1>0, <1>11 DEF AudioArrives, chanVars, Order
  <1>12. CASE CallbackSends
    BY <1>0, <1>12 DEF CallbackSends, Order
  <1>13. CASE Take \/ Cancel \/ Tick \/ UNCHANGED vars
    BY <1>1, <1>13 DEF Take, Cancel, Tick, vars, chanVars, sdkVars
  <1>. QED
    BY <1>3, <1>4, <1>5, <1>6, <1>7, <1>8, <1>9, <1>10, <1>11, <1>12, <1>13 DEF Next, MainStep

\* Channels, flags and counts keep their types.
LEMMA StepType == TypeOK /\ PCs /\ Order /\ Budget /\ Budget' /\ [Next]_vars => TypeOK'
  <1>. SUFFICES ASSUME TypeOK, Order, Budget', [Next]_vars PROVE TypeOK'
    OBVIOUS
  <1>1. stops' \in 0..2
    <2>1. stops' \in Nat /\ One(MainMayStop') \in Nat /\ One(WatcherMayStop') \in Nat
          /\ stops' + One(MainMayStop') + One(WatcherMayStop') <= 2
      BY DEF Budget, One
    <2>. QED
      BY <2>1
  <1>2. CASE CallbackSends
    <2>1. CASE pcmClosed \/ ~HasRoom
      BY <1>1, <1>2, <2>1 DEF CallbackSends, timeVars, TypeOK
    <2>2. CASE ~pcmClosed /\ HasRoom
      <3>1. arrived \in Nat /\ arrived \in 1..MaxAudio /\ Len(pcmCh) \in Nat
        BY <1>2, StreamAssumption, LenProperties DEF CallbackSends, Order, TypeOK
      <3>2. pcmCh' = Append(pcmCh, arrived) /\ queued' = arrived /\ cb' = "idle"
        BY <1>2, <2>2 DEF CallbackSends
      <3>3. pcmCh' \in Seq(1..MaxAudio) /\ Len(pcmCh') = Len(pcmCh) + 1
        BY <3>1, <3>2, AppendProperties DEF TypeOK
      <3>4. Len(pcmCh') <= PcmCap
        BY <2>2, <3>1, <3>3, StreamAssumption DEF HasRoom
      <3>5. queued' \in 0..arrived'
        BY <1>2, <3>1, <3>2 DEF CallbackSends
      <3>. QED
        BY <1>1, <1>2, <3>2, <3>3, <3>4, <3>5 DEF CallbackSends, timeVars, TypeOK
    <2>. QED
      BY <2>1, <2>2
  <1>3. CASE Take
    <2>1. pcmCh' \in Seq(1..MaxAudio) /\ Len(pcmCh') = Len(pcmCh) - 1 /\ Len(pcmCh) \in Nat
      BY <1>3, HeadTailProperties, LenProperties DEF Take, TypeOK
    <2>2. Len(pcmCh') <= PcmCap
      BY <2>1, StreamAssumption DEF TypeOK
    <2>. QED
      BY <1>1, <1>3, <2>1, <2>2 DEF Take, timeVars, sdkVars, TypeOK
  <1>4. CASE AudioArrives
    BY <1>1, <1>4, StreamAssumption DEF AudioArrives, chanVars, TypeOK
  <1>5. CASE Tick
    BY <1>1, <1>5, StreamAssumption DEF Tick, chanVars, sdkVars, TypeOK
  <1>6. CASE Start \/ Connect \/ Speak
    <2>1. UNCHANGED <<pcmCh, queued, pcmClosed, errClosed, stopped, ctxDone, seenAudio, age, cb, arrived>>
      BY <1>6 DEF Start, Connect, Speak, timeVars, sdkVars
    <2>2. errSent' = errSent \/ errSent' \in BOOLEAN
      BY <1>6 DEF Start, Connect, Speak
    <2>3. doneClosed' = doneClosed \/ doneClosed' = TRUE
      BY <1>6 DEF Start, Connect, Speak, CloseDone
    <2>4. clock' = clock \/ clock' = 0
      BY <1>6 DEF Start, Connect, Speak, timeVars
    <2>5. clock' \in 0..(DEADLINE + 1)
      BY <2>4, StreamAssumption DEF TypeOK
    <2>6. errSent' \in BOOLEAN /\ doneClosed' \in BOOLEAN
      BY <2>2, <2>3 DEF TypeOK
    <2>. QED
      BY <1>1, <2>1, <2>5, <2>6 DEF TypeOK
  <1>7. CASE LoopExits \/ AfterStop \/ CloseErr \/ ClosePcm \/ Cancel \/ UNCHANGED vars
    BY <1>1, <1>7 DEF LoopExits, AfterStop, CloseErr, ClosePcm, Cancel, vars, CloseDone, chanVars,
           timeVars, sdkVars, TypeOK
  <1>8. CASE WatcherStep \/ StopClient(Main, "stop", "stopSet", "stopping", "closeDone")
             \/ StopClient(Main, "defer", "deferSet", "deferStopping", "closeErr")
    BY <1>1, <1>8 DEF WatcherStep, WatcherWakes, StopClient, chanVars, timeVars, sdkVars, TypeOK
  <1>. QED
    BY <1>2, <1>3, <1>4, <1>5, <1>6, <1>7, <1>8 DEF Next, MainStep

\* What holds in every reachable state of a stream.
LEMMA StreamInvariant == Spec => [](TypeOK /\ PCs /\ Order /\ Budget /\ Uncancelled)
  <1>1. Init => TypeOK /\ PCs /\ Order /\ Budget /\ Uncancelled
    <2>. SUFFICES ASSUME Init PROVE TypeOK /\ PCs /\ Order /\ Budget /\ Uncancelled
      OBVIOUS
    <2>1. pc[Main] = "start" /\ pc[Watcher] = "none"
      BY StreamAssumption DEF Init
    <2>2. TypeOK
      <3>1. pcmCh \in Seq(1..MaxAudio) /\ Len(pcmCh) = 0
        BY EmptySeq DEF Init
      <3>2. Len(pcmCh) <= PcmCap /\ queued \in 0..arrived /\ arrived \in 0..MaxAudio /\ stops \in 0..2
        BY <3>1, StreamAssumption DEF Init
      <3>3. age \in 0..(IDLE + 1) /\ clock \in 0..(DEADLINE + 1)
        BY StreamAssumption DEF Init
      <3>4. {pcmClosed, errSent, errClosed, doneClosed, stopped, ctxDone, seenAudio} \subseteq BOOLEAN
            /\ cb \in {"idle", "send", "panicked"}
        BY DEF Init
      <3>. QED
        BY <3>1, <3>2, <3>3, <3>4 DEF TypeOK
    <2>3. PCs
      BY <2>1 DEF Init, PCs, MainPC, WatcherPC
    <2>4. Order
      BY <2>1 DEF Init, Order
    <2>5. Budget
      <3>1. One(MainMayStop) \in 0..1 /\ One(WatcherMayStop) \in 0..1 /\ stops = 0
        BY DEF One, Init
      <3>2. stops + One(MainMayStop) + One(WatcherMayStop) <= 2
        BY <3>1
      <3>. QED
        <4>1. stopped = FALSE
          BY DEF Init
        <4>2. stops \in Nat /\ ~(stops > 0)
          BY <3>1
        <4>. QED
          BY <2>1, <3>1, <3>2, <4>1, <4>2 DEF Budget
    <2>6. Uncancelled
      BY <2>1 DEF Init, Uncancelled
    <2>. QED
      BY <2>2, <2>3, <2>4, <2>5, <2>6
  <1>. QED
    BY <1>1, StepType, StepPCs, StepOrder, StepBudget, PTL DEF Spec

(* The types; the client is stopped at most once by each goroutine, the    *)
(* deferred stopClient included (deepgram.go:75-96, 114-127).              *)
THEOREM TypeCorrect == Spec => []TypeOK
  BY StreamInvariant, PTL

(* Without a cancel it is stopped once: only the goroutine that waits for  *)
(* ctx races with the loop's own stop (deepgram.go:77-78, 90-96).          *)
THEOREM StoppedOnce == Spec => []StoppedOnceUnlessCancelled
  <1>1. TypeOK /\ Uncancelled => StoppedOnceUnlessCancelled
    BY DEF TypeOK, Uncancelled, StoppedOnceUnlessCancelled
  <1>. QED
    BY <1>1, StreamInvariant, PTL
----------------------------------------------------------------------------
\* Every step is one of the stream's, or leaves it as it is.
LEMMA StepStreams ==
  PCs /\ Order /\ TypeOK /\ [Next]_vars => [Stream!Next]_(Stream!vars)
  <1>. SUFFICES ASSUME PCs, Order, TypeOK, [Next]_vars PROVE Stream!Next \/ UNCHANGED Stream!vars
    OBVIOUS
  <1>1. CASE UNCHANGED <<pcmCh, queued, errSent, errClosed, pcmClosed>>
    BY <1>1 DEF Stream!vars
  <1>2. CASE Start \/ Connect \/ Speak
    <2>1. UNCHANGED <<pcmCh, queued, errClosed, pcmClosed>> /\ (errSent' = errSent \/ errSent' \in BOOLEAN)
      BY <1>2 DEF Start, Connect, Speak
    <2>2. errSent = FALSE /\ ~errClosed
      BY <1>2 DEF Start, Connect, Speak, Order, Goto, TypeOK
    <2>3. CASE errSent' = TRUE
      BY <2>1, <2>2, <2>3 DEF Stream!Next, Stream!Fail
    <2>4. CASE errSent' # TRUE
      <3>1. errSent' = errSent
        BY <2>1, <2>2, <2>4
      <3>. QED
        BY <1>1, <2>1, <3>1
    <2>. QED
      BY <2>3, <2>4
  <1>3. CASE CloseErr
    <2>1. ~errClosed
      BY <1>3 DEF CloseErr, Order, Goto
    <2>. QED
      BY <1>3, <2>1 DEF CloseErr, Stream!Next, Stream!EndErr
  <1>4. CASE ClosePcm
    <2>1. errClosed /\ ~pcmClosed
      BY <1>4 DEF ClosePcm, Order, Goto
    <2>. QED
      BY <1>4, <2>1 DEF ClosePcm, Stream!Next, Stream!End
  <1>5. CASE CallbackSends
    <2>1. CASE pcmClosed \/ ~HasRoom
      BY <1>1, <1>5, <2>1 DEF CallbackSends
    <2>2. CASE ~pcmClosed /\ HasRoom
      <3>1. arrived \in queued+1..MaxAudio
        BY <1>5, StreamAssumption DEF CallbackSends, Order, TypeOK
      <3>. QED
        BY <1>5, <2>2, <3>1 DEF CallbackSends, Stream!Next, Stream!Produce
    <2>. QED
      BY <2>1, <2>2
  <1>6. CASE Take
    BY <1>6 DEF Take, Stream!Next, Stream!Take
  <1>. QED
    BY <1>1, <1>2, <1>3, <1>4, <1>5, <1>6
       DEF Next, MainStep, WatcherStep, LoopExits, AfterStop, StopClient, WatcherWakes,
           AudioArrives, Cancel, Tick, vars, chanVars

(* The safety part of ImplementsStream: whatever fails, is cancelled or    *)
(* comes late, the turn loop takes buffers in order, sees one error at     *)
(* most, none after errCh is closed, and pcmCh is closed after it          *)
(* (deepgram.go:36-168).  That both are closed is left to the runs.        *)
THEOREM StreamsInOrder == Spec => Stream!Steps
  <1>1. Init => Stream!Init
    BY DEF Init, Stream!Init
  <1>. QED
    BY <1>1, StepStreams, StreamInvariant, PTL DEF Spec, Stream!Steps
=============================================================================
