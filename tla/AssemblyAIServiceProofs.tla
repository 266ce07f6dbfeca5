---------------------- MODULE AssemblyAIServiceProofs ----------------------
(***************************************************************************)
(* Proofs about AssemblyAIService, for any number of callbacks and any     *)
(* bounds: nothing panics before Close begins, no text is left without a   *)
(* timer or finalized early, no word is lost or finalized twice.           *)
(***************************************************************************)
EXTENDS AssemblyAIService, SequenceTheorems, TLAPS

\* Nothing is closed when the service is connected.
LEMMA OpenInit == ASSUME Init PROVE OpenUntilClosing
  <1>1. pc \in [Procs -> ReaderPC \cup CallbackPC \cup CloserPC]
    BY DEF Init, ReaderPC, CallbackPC, CloserPC
  <1>2. \A p \in Procs : pc[p] = "idle" BY DEF Init
  <1>3. Closer \in Procs BY DEF Procs
  <1> QED BY <1>1, <1>2, <1>3 DEF Init, OpenUntilClosing, CrashOnlyOnceClosing

\* How a goroutine that moves disturbs the invariant: not at all, unless it goes to a rearm
\* with no timer set or is the one in Close.
LEMMA MoveKeepsOpen ==
  ASSUME OpenUntilClosing, NEW p \in Procs, NEW f, NEW t, Goto(p, f, t),
         t \in ReaderPC \cup CallbackPC \cup CloserPC,
         p = Closer => (t = "idle" \/ stopped'),
         t = "rearm" => (timerSet' \/ stopped'),
         stopped => stopped', closed' => stopped', crashed' => stopped',
         ~stopped' => (timerSet => timerSet')
  PROVE  OpenUntilClosing'
  <1>1. /\ pc' = [pc EXCEPT ![p] = t]
        /\ pc' \in [Procs -> ReaderPC \cup CallbackPC \cup CloserPC]
    BY DEF OpenUntilClosing, Goto
  <1>2. \A q \in Procs : pc'[q] = IF q = p THEN t ELSE pc[q]
    BY <1>1 DEF OpenUntilClosing
  <1>3. Closer \in Procs BY DEF Procs
  <1> QED BY <1>1, <1>2, <1>3 DEF OpenUntilClosing, CrashOnlyOnceClosing

\* A step of the callers or of time leaves the goroutines where they are, but for a new reader.
LEMMA OpenCallers ==
  ASSUME OpenUntilClosing, Connect \/ SendVoice \/ Receive \/ Tick
  PROVE  OpenUntilClosing'
  <1> USE DEF OpenUntilClosing, CrashOnlyOnceClosing, timerVars, connVars
  <1>1. CASE Connect
    <2>1. Reader # Closer /\ Reader \in Procs /\ Closer \in Procs
      BY ProcsAssumption DEF Procs
    <2>2. pc' = pc \/ pc' = [pc EXCEPT ![Reader] = "top"] BY <1>1 DEF Connect
    <2>3. UNCHANGED <<timerSet, stopped, closed, crashed>> BY <1>1 DEF Connect
    <2>4. "top" \in ReaderPC BY DEF ReaderPC
    <2> QED BY <2>1, <2>2, <2>3, <2>4
  <1>2. CASE SendVoice BY <1>2 DEF SendVoice
  <1>3. CASE Receive BY <1>3 DEF Receive
  <1>4. CASE Tick BY <1>4 DEF Tick
  <1> QED BY <1>1, <1>2, <1>3, <1>4

\* The reader never clears the timer, and goes to a rearm only when it is set.
LEMMA OpenReader ==
  ASSUME OpenUntilClosing, HandleMessages
  PROVE  OpenUntilClosing'
  <1>1. Reader \in Procs /\ Reader # Closer BY ProcsAssumption DEF Procs
  <1>2. UNCHANGED <<stopped, closed, crashed>>
    BY DEF HandleMessages, LoopTop, ReadMessage, SendPartial, UpdateTurn, RearmTurn,
           FlushTermination, ReaderUnchanged, connVars
  <1>3. timerSet => timerSet'
    BY DEF HandleMessages, LoopTop, ReadMessage, SendPartial, UpdateTurn, RearmTurn,
           FlushTermination, StartOrRearm, NewTimer, Rearm, timerVars
  <1>4. ASSUME NEW f, NEW t, Goto(Reader, f, t), t \in ReaderPC, t = "rearm" => timerSet
        PROVE  OpenUntilClosing'
    BY <1>1, <1>2, <1>3, <1>4, MoveKeepsOpen DEF OpenUntilClosing, CrashOnlyOnceClosing
  <1>5. CASE LoopTop BY <1>4, <1>5 DEF LoopTop, ReaderPC
  <1>6. CASE ReadMessage BY <1>4, <1>6 DEF ReadMessage, ReaderPC
  <1>7. CASE SendPartial BY <1>4, <1>7 DEF SendPartial, ReaderPC
  <1>8. CASE UpdateTurn BY <1>4, <1>8 DEF UpdateTurn, StartOrRearm, ReaderPC
  <1>9. CASE RearmTurn BY <1>4, <1>9 DEF RearmTurn, ReaderPC
  <1>10. CASE FlushTermination BY <1>4, <1>10 DEF FlushTermination, Commit, ReaderPC
  <1> QED BY <1>5, <1>6, <1>7, <1>8, <1>9, <1>10 DEF HandleMessages

\* A callback that finds no timer to rearm, or finalizeCh closed, panics after stopCh closed.
LEMMA OpenCallback ==
  ASSUME OpenUntilClosing, NEW c \in Callbacks, TimerFires(c) \/ FinalizeDueToSilence(c)
  PROVE  OpenUntilClosing'
  <1>1. c \in Procs /\ c # Closer BY ProcsAssumption DEF Procs
  <1>2. UNCHANGED <<stopped, closed>>
    BY DEF TimerFires, FinalizeDueToSilence, CheckStopCh, FirstCheck, RearmSilence, SecondCheck,
           SendDelta, CallbackUnchanged, connVars
  <1>3. timerSet => timerSet'
    BY DEF TimerFires, FinalizeDueToSilence, CheckStopCh, FirstCheck, RearmSilence, SecondCheck,
           SendDelta, StartOrRearm, NewTimer, Rearm, timerVars
  <1>4. ASSUME NEW f, NEW t, Goto(c, f, t), t \in CallbackPC, t = "rearm" => timerSet,
               crashed' => (crashed \/ stopped)
        PROVE  OpenUntilClosing'
    BY <1>1, <1>2, <1>3, <1>4, MoveKeepsOpen DEF OpenUntilClosing, CrashOnlyOnceClosing
  <1>5. CASE TimerFires(c) BY <1>4, <1>5 DEF TimerFires, CallbackPC
  <1>6. CASE CheckStopCh(c) BY <1>4, <1>6 DEF CheckStopCh, CallbackPC
  <1>7. CASE FirstCheck(c) BY <1>4, <1>7 DEF FirstCheck, StartOrRearm, CallbackPC
  <1>8. CASE RearmSilence(c)
    <2>1. crashed' => (crashed \/ stopped)
      BY <1>1, <1>8 DEF RearmSilence, Goto, OpenUntilClosing
    <2> QED BY <1>4, <1>8, <2>1 DEF RearmSilence, CallbackPC
  <1>9. CASE SecondCheck(c) BY <1>4, <1>9 DEF SecondCheck, StartOrRearm, Commit, CallbackPC
  <1>10. CASE SendDelta(c)
    <2>1. crashed' => (crashed \/ stopped)
      BY <1>10 DEF SendDelta, OpenUntilClosing
    <2> QED BY <1>4, <1>10, <2>1 DEF SendDelta, CallbackPC
  <1> QED BY <1>5, <1>6, <1>7, <1>8, <1>9, <1>10 DEF FinalizeDueToSilence

\* The first step of Close closes stopCh; only the ones after it clear the timer and close
\* the channels.
LEMMA OpenClose ==
  ASSUME OpenUntilClosing, Close
  PROVE  OpenUntilClosing'
  <1>1. Closer \in Procs BY DEF Procs
  <1>2. stopped'
    BY DEF Close, CloseStopCh, ClearTimer, Terminate, CloseConn, FlushPendingDelta, CloseChannels,
           StopChClosed, Commit, Goto, OpenUntilClosing
  <1>3. ASSUME NEW f, NEW t, Goto(Closer, f, t), t \in CloserPC
        PROVE  OpenUntilClosing'
    <2>1. t # "rearm" BY <1>3 DEF CloserPC
    <2> QED BY <1>1, <1>2, <1>3, <2>1, MoveKeepsOpen
  <1>4. CASE CloseStopCh BY <1>3, <1>4 DEF CloseStopCh, CloserPC
  <1>5. CASE ClearTimer BY <1>3, <1>5 DEF ClearTimer, CloserPC
  <1>6. CASE Terminate \/ CloseConn BY <1>3, <1>6 DEF Terminate, CloseConn, CloserPC
  <1>7. CASE FlushPendingDelta BY <1>3, <1>7 DEF FlushPendingDelta, Commit, CloserPC
  <1>8. CASE CloseChannels BY <1>3, <1>8 DEF CloseChannels, CloserPC
  <1> QED BY <1>4, <1>5, <1>6, <1>7, <1>8 DEF Close

\* No step of any goroutine closes a channel while the closer is idle.
LEMMA OpenStep == OpenUntilClosing /\ [Next]_vars => OpenUntilClosing'
  <1> SUFFICES ASSUME OpenUntilClosing, [Next]_vars PROVE OpenUntilClosing'
    OBVIOUS
  <1>1. CASE UNCHANGED vars
    BY <1>1 DEF vars, timerVars, connVars, OpenUntilClosing, CrashOnlyOnceClosing
  <1>2. CASE Next
    BY <1>2, OpenCallers, OpenReader, OpenCallback, OpenClose DEF Next
  <1> QED BY <1>1, <1>2

(* Until Close has begun stopCh is open, so are the channels, and a        *)
(* goroutine on its way to rearm silenceTimer finds it set.                *)
THEOREM OpenInvariant == Spec => []OpenUntilClosing
  <1>1. Init => OpenUntilClosing BY OpenInit
  <1> QED BY <1>1, OpenStep, PTL DEF Spec

(* No panic ends the process before Close has begun, for any number of     *)
(* overlapping callbacks and any timing (assemblyai.go:189-213, 304-385).  *)
THEOREM NoEarlyCrash == Spec => []CrashOnlyOnceClosing
  <1>1. OpenUntilClosing => CrashOnlyOnceClosing BY DEF OpenUntilClosing
  <1> QED BY <1>1, OpenInvariant, PTL
----------------------------------------------------------------------------
(***************************************************************************)
(* Types.  The strengthening: what the reader may still add to updates,    *)
(* where a goroutine has a delta, and that a reader runs only once there   *)
(* has been a connection.                                                  *)
(***************************************************************************)
Sending == {"send", "flushSend"}
Stages ==
  /\ pc[Reader] \in {"turn", "lock"} => updates < MaxUpdates + connects
  /\ pc[Reader] # "idle" => connected \/ stopped
  /\ \A p \in Procs : pc[p] \in Sending => delta[p] # <<>>
  /\ \A p \in Procs : pc[p] \notin Sending => delta[p] = <<>> \/ stopped

\* A callback that moves on is where it goes, and the others stay.
LEMMA GotoMoves ==
  ASSUME OpenUntilClosing, NEW p \in Procs, NEW f, NEW t, Goto(p, f, t)
  PROVE  pc[p] = f /\ \A q \in Procs : pc'[q] = IF q = p THEN t ELSE pc[q]
  BY DEF Goto, OpenUntilClosing

\* A fresh callback is well typed.
LEMMA FreshType ==
  ASSUME NEW l \in Seq(Nat), NEW base \in Seq(Nat)
  PROVE  Fresh(l, base) \in Seq(Nat)
  <1>1. Len(l) \in Nat /\ Len(base) \in Nat
    BY LenProperties
  <1>2. \A k \in Len(base) + 1..Len(l) : k \in 1..Len(l)
    BY <1>1
  <1>3. SubSeq(l, Len(base) + 1, Len(l)) \in Seq(Nat)
    BY <1>1, <1>2, ElementOfSeq, SubSeqProperties
  <1>. QED
    BY <1>3 DEF Fresh

\* What is committed leaves nothing that is new.
LEMMA FreshOfSame ==
  ASSUME NEW l \in Seq(Nat)
  PROVE  Fresh(l, l) = <<>>
  <1>1. Len(l) \in Nat
    BY LenProperties
  <1>2. SubSeq(l, Len(l) + 1, Len(l)) = <<>>
    BY <1>1, SubSeqEmpty
  <1>3. IsPrefix(l, l)
    BY <1>1 DEF IsPrefix
  <1>. QED
    BY <1>2, <1>3 DEF Fresh

\* The threshold of silence is a time the clock can reach.
LEMMA ThresholdType == Threshold \in Nat /\ 0 < Threshold /\ Threshold < Off
  BY TicksAssumption DEF Threshold, Off

(* A timer that comes too early is set for the shortest of what is missing. *)
LEMMA MissingMin ==
  ASSUME TypeTurn, Missing # {}
  PROVE  Min(Missing) \in 0..(Off - 1)
  <1>1. textAge \in Nat /\ voiceAge \in Nat
    BY TicksAssumption DEF TypeTurn, OldAge
  <1>2. Missing \subseteq 0..(Off - 1)
    BY <1>1, ThresholdType, TicksAssumption DEF Missing, Off
  <1>3. Missing \subseteq {Threshold - textAge, Threshold - voiceAge}
    BY DEF Missing
  <1>4. \E x \in Missing : \A y \in Missing : x <= y
    <2>. DEFINE a == Threshold - textAge
                b == Threshold - voiceAge
    <2>1. a \in Int /\ b \in Int
      BY <1>1, ThresholdType
    <2>2. Missing \subseteq {a, b}
      BY <1>3
    <2>. HIDE DEF a, b
    <2>3. CASE a \in Missing /\ b \in Missing
      <3>1. a <= b \/ b <= a
        BY <2>1
      <3>. QED
        BY <2>1, <2>2, <2>3, <3>1
    <2>4. CASE ~ (a \in Missing /\ b \in Missing)
      <3>1. PICK x \in Missing : \A y \in Missing : y = x
        BY <2>2, <2>4
      <3>2. x <= x
        BY <2>1, <2>2
      <3>. QED
        BY <3>1, <3>2
    <2>. QED
      BY <2>3, <2>4
  <1>5. Min(Missing) \in Missing
    BY <1>4 DEF Min
  <1>. QED
    BY <1>2, <1>5

\* The transcripts and what was committed of them keep their types.
LEMMA StepTypeTurn ==
  ASSUME TypeOK, OpenUntilClosing, Stages, [Next]_vars
  PROVE  TypeTurn'
  <1>. USE TicksAssumption, BoundsAssumption DEF TypeOK, TypeTurn
  <1>1. CASE UNCHANGED <<latest, updates, textAge, voiceAge, growing, connects>> /\ committed' \in {committed, latest}
    BY <1>1
  <1>2. CASE Connect
    BY <1>2 DEF Connect, OldAge
  <1>3. CASE SendVoice
    BY <1>3 DEF SendVoice, turnVars, connVars, OldAge
  <1>4. CASE UpdateTurn
    <2>1. Longer \subseteq Seq(Nat)
      <3>1. Append(latest, Len(latest) + 1) \in Seq(Nat)
        BY AppendProperties, LenProperties
      <3>. QED
        BY <3>1 DEF Longer
    <2>2. latest' \in Seq(Nat)
      BY <1>4, <2>1 DEF UpdateTurn, Transcripts
    <2>3. pc[Reader] = "lock"
      BY <1>4 DEF UpdateTurn, StartOrRearm, Goto
    <2>4. updates' \in 0..(MaxUpdates + connects')
      BY <1>4, <2>3 DEF UpdateTurn, Stages, ReaderUnchanged, connVars
    <2>. QED
      BY <1>4, <2>2, <2>4 DEF UpdateTurn, ReaderUnchanged, connVars, OldAge
  <1>5. CASE Tick
    BY <1>5 DEF Tick, Older, OldAge, connVars
  <1>6. CASE LoopTop \/ ReadMessage \/ SendPartial \/ RearmTurn \/ FlushTermination
    BY <1>1, <1>6 DEF LoopTop, ReadMessage, SendPartial, RearmTurn, FlushTermination, Commit, Committed,
           ReaderUnchanged, connVars, turnVars
  <1>7. ASSUME NEW c \in Callbacks, TimerFires(c) \/ FinalizeDueToSilence(c) PROVE TypeTurn'
    BY <1>1, <1>7 DEF TimerFires, FinalizeDueToSilence, CheckStopCh, FirstCheck, RearmSilence,
           SecondCheck, SendDelta, Commit, Committed, CallbackUnchanged, connVars, turnVars
  <1>8. CASE Close
    BY <1>1, <1>8 DEF Close, CloseStopCh, ClearTimer, Terminate, CloseConn, FlushPendingDelta, CloseChannels,
           Commit, Committed, CloseUnchanged, connVars, turnVars
  <1>9. CASE Receive \/ UNCHANGED vars
    BY <1>1, <1>9 DEF Receive, vars, turnVars, connVars
  <1>. QED
    BY <1>2, <1>3, <1>4, <1>5, <1>6, <1>7, <1>8, <1>9 DEF Next, HandleMessages

(* Only the three sends of a delta and the session touch the channel.      *)
LEMMA SendTypes ==
  ASSUME TypeOut, NEW p \in Procs, delta[p] # <<>>, Send(p)
  PROVE  /\ finalizeCh' \in Seq(Seq(Nat) \ {<<>>}) /\ Len(finalizeCh') <= FinalizeCap
         /\ delta' \in [Procs -> Seq(Nat)]
  <1>1. /\ delta[p] \in Seq(Nat) \ {<<>>} /\ finalizeCh \in Seq(Seq(Nat) \ {<<>>})
        /\ <<>> \in Seq(Nat)
    BY EmptySeq DEF TypeOut
  <1>2. /\ Append(finalizeCh, delta[p]) \in Seq(Seq(Nat) \ {<<>>})
        /\ Len(Append(finalizeCh, delta[p])) = Len(finalizeCh) + 1
    BY <1>1, AppendProperties
  <1>. QED
    BY <1>1, <1>2, LenProperties, BoundsAssumption DEF Send, HasRoom, TypeOut

\* What is committed is the latest transcript.
LEMMA CommitTypes ==
  ASSUME TypeOK, NEW p \in Procs, NEW f, NEW t, NEW u, Commit(p, f, t, u)
  PROVE  delta' \in [Procs -> Seq(Nat)]
  BY FreshType DEF Commit, Pending, TypeOK, TypeTurn, TypeOut

\* The queue and what was delivered keep their types.
LEMMA StepTypeOut ==
  ASSUME TypeOK, OpenUntilClosing, Stages, [Next]_vars
  PROVE  TypeOut'
  <1>. USE DEF TypeOK
  <1>0. <<>> \in Seq(Nat)
    BY EmptySeq
  <1>1. CASE UNCHANGED <<finalizeCh, received, delta>> /\ timedOut' \in {timedOut, TRUE}
    BY <1>1 DEF TypeOut
  <1>2. CASE UNCHANGED <<finalizeCh, received>> /\ timedOut' \in {timedOut, TRUE}
             /\ \E p \in Procs : delta' = [delta EXCEPT ![p] = <<>>]
    BY <1>0, <1>2 DEF TypeOut
  <1>3. ASSUME NEW p \in Procs, pc[p] \in Sending, Send(p), UNCHANGED <<received, timedOut>>
        PROVE  TypeOut'
    BY <1>3, SendTypes DEF Stages, TypeOut
  <1>4. ASSUME NEW p \in Procs, NEW f, NEW t, NEW u, Commit(p, f, t, u), UNCHANGED outVars
        PROVE  TypeOut'
    BY <1>4, CommitTypes DEF TypeOut, outVars
  <1>5. CASE Connect \/ SendVoice \/ Tick \/ UNCHANGED vars
    BY <1>1, <1>5 DEF Connect, SendVoice, Tick, vars, outVars
  <1>6. CASE Receive
    <2>1. /\ Head(finalizeCh) \in Seq(Nat) \ {<<>>} /\ Tail(finalizeCh) \in Seq(Seq(Nat) \ {<<>>})
          /\ Len(Tail(finalizeCh)) = Len(finalizeCh) - 1 /\ Len(finalizeCh) \in Nat
      BY <1>6, HeadTailProperties, LenProperties DEF Receive, TypeOut
    <2>2. received' \in Seq(Seq(Nat) \ {<<>>})
      BY <1>6, <2>1, AppendProperties DEF Receive, TypeOut
    <2>. QED
      BY <1>6, <2>1, <2>2, BoundsAssumption DEF Receive, TypeOut
  <1>7. CASE LoopTop \/ ReadMessage \/ SendPartial \/ UpdateTurn \/ RearmTurn
    BY <1>1, <1>7 DEF LoopTop, ReadMessage, SendPartial, UpdateTurn, RearmTurn, outVars
  <1>8. CASE FlushTermination
    <2>1. Reader \in Procs
      BY DEF Procs
    <2>. QED
      BY <1>1, <1>2, <1>3, <1>4, <1>8, <2>1 DEF FlushTermination, Sending, outVars
  <1>9. ASSUME NEW c \in Callbacks, TimerFires(c) \/ FinalizeDueToSilence(c) PROVE TypeOut'
    <2>1. c \in Procs
      BY DEF Procs
    <2>2. CASE TimerFires(c) \/ CheckStopCh(c) \/ FirstCheck(c) \/ RearmSilence(c)
      BY <1>1, <2>2 DEF TimerFires, CheckStopCh, FirstCheck, RearmSilence, outVars
    <2>3. CASE SecondCheck(c)
      BY <1>1, <1>4, <2>1, <2>3 DEF SecondCheck, outVars
    <2>4. CASE SendDelta(c)
      BY <1>1, <1>2, <1>3, <2>1, <2>4 DEF SendDelta, Goto, Sending, outVars
    <2>. QED
      BY <1>9, <2>2, <2>3, <2>4 DEF FinalizeDueToSilence
  <1>10. CASE Close
    <2>1. Closer \in Procs
      BY DEF Procs
    <2>2. CASE CloseStopCh \/ ClearTimer \/ Terminate \/ CloseConn \/ CloseChannels
      BY <1>1, <2>2 DEF CloseStopCh, ClearTimer, Terminate, CloseConn, CloseChannels, outVars
    <2>3. CASE FlushPendingDelta
      BY <1>2, <1>3, <1>4, <2>1, <2>3 DEF FlushPendingDelta, Sending
    <2>. QED
      BY <1>10, <2>2, <2>3 DEF Close
  <1>. QED
    BY <1>5, <1>6, <1>7, <1>8, <1>9, <1>10 DEF Next, HandleMessages

\* With accMu taken, a timer is started or the goroutine goes on to rearm the old one.
LEMMA StartOrRearmTypes ==
  ASSUME TypeProcs, NEW p \in Procs, NEW f, NEW t, NEW w \in 0..(Off - 1), StartOrRearm(p, f, w, t)
  PROVE  wait' \in [Procs -> 0..(Off - 1)] /\ timer' \in 0..Off /\ timerSet' \in BOOLEAN
  <1>1. w \in 0..Off
    BY TicksAssumption DEF Off
  <1>2. CASE timerSet
    BY <1>2 DEF StartOrRearm, TypeProcs, timerVars
  <1>3. CASE ~ timerSet
    BY <1>1, <1>3 DEF StartOrRearm, NewTimer, TypeProcs
  <1>. QED
    BY <1>2, <1>3

\* The clock, the timer and the bounds keep their types.
LEMMA StepWaits ==
  ASSUME TypeOK, OpenUntilClosing, Stages, [Next]_vars
  PROVE  wait' \in [Procs -> 0..(Off - 1)] /\ timer' \in 0..Off /\ timerSet' \in BOOLEAN
  <1>. DEFINE Goal == wait' \in [Procs -> 0..(Off - 1)] /\ timer' \in 0..Off /\ timerSet' \in BOOLEAN
  <1>0. Off \in Nat \ {0} /\ Off - 1 \in Nat /\ {0, SILENCE} \subseteq 0..(Off - 1)
    BY TicksAssumption DEF Off
  <1>1. CASE UNCHANGED <<wait, timerVars>>
    BY <1>1 DEF TypeOK, TypeProcs, timerVars
  <1>2. ASSUME NEW p \in Procs, timerVars' = timerVars \/ Rearm(wait[p]),
               wait' = [wait EXCEPT ![p] = 0]
        PROVE  Goal
    BY <1>0, <1>2 DEF Rearm, TypeOK, TypeProcs, timerVars
  <1>3. Reader \in Procs /\ Callbacks \subseteq Procs
    BY DEF Procs
  <1>4. CASE UpdateTurn
    <2>1. StartOrRearm(Reader, "lock", SILENCE, "top") /\ SILENCE \in 0..(Off - 1)
      BY <1>0, <1>4 DEF UpdateTurn
    <2>. QED
      BY <1>3, <2>1, StartOrRearmTypes DEF TypeOK
  <1>5. CASE RearmTurn
    BY <1>2, <1>3, <1>5 DEF RearmTurn, timerVars
  <1>6. CASE Tick
    BY <1>0, <1>6 DEF Tick, Sooner, TypeOK, TypeProcs
  <1>7. CASE Connect \/ SendVoice \/ Receive \/ LoopTop \/ ReadMessage \/ SendPartial
             \/ FlushTermination \/ UNCHANGED vars
    BY <1>1, <1>7 DEF Connect, SendVoice, Receive, LoopTop, ReadMessage, SendPartial,
           FlushTermination, vars
  <1>8. ASSUME NEW c \in Callbacks, TimerFires(c) \/ FinalizeDueToSilence(c) PROVE Goal
    <2>1. CASE TimerFires(c)
      BY <1>0, <2>1 DEF TimerFires, TypeOK, TypeProcs
    <2>2. CASE CheckStopCh(c) \/ SendDelta(c)
      BY <1>1, <2>2 DEF CheckStopCh, SendDelta
    <2>3. CASE FirstCheck(c)
      <3>1. CASE Missing # {}
        <4>1. StartOrRearm(c, "first", Min(Missing), "idle") /\ Min(Missing) \in 0..(Off - 1)
          BY <2>3, <3>1, MissingMin DEF FirstCheck, TypeOK
        <4>. QED
          BY <1>3, <4>1, StartOrRearmTypes DEF TypeOK
      <3>2. CASE Missing = {}
        BY <1>1, <2>3, <3>2 DEF FirstCheck
      <3>. QED
        BY <3>1, <3>2
    <2>4. CASE RearmSilence(c)
      BY <1>2, <1>3, <2>4 DEF RearmSilence, timerVars
    <2>5. CASE SecondCheck(c)
      <3>1. CASE Changed(c)
        <4>. DEFINE w == IF textAge < Threshold THEN Threshold - textAge ELSE Threshold
        <4>1. w \in 0..(Off - 1)
          BY TicksAssumption, ThresholdType DEF TypeOK, TypeTurn, Off, OldAge
        <4>2. StartOrRearm(c, "sleep", w, "idle")
          BY <2>5, <3>1 DEF SecondCheck
        <4>. HIDE DEF w
        <4>. QED
          BY <1>3, <4>1, <4>2, StartOrRearmTypes DEF TypeOK
      <3>2. CASE ~ Changed(c)
        BY <1>1, <2>5, <3>2 DEF SecondCheck
      <3>. QED
        BY <3>1, <3>2
    <2>. QED
      BY <1>8, <2>1, <2>2, <2>3, <2>4, <2>5 DEF FinalizeDueToSilence
  <1>9. CASE Close
    <2>1. CASE ClearTimer
      <3>1. timer' = Off /\ timerSet' = FALSE /\ wait' = wait
        BY <2>1 DEF ClearTimer, CloseUnchanged
      <3>2. Off \in 0..Off
        BY <1>0
      <3>. QED
        BY <3>1, <3>2 DEF TypeOK, TypeProcs
    <2>2. CASE CloseStopCh \/ Terminate \/ CloseConn \/ FlushPendingDelta \/ CloseChannels
      BY <1>1, <2>2 DEF CloseStopCh, Terminate, CloseConn, FlushPendingDelta, CloseChannels, CloseUnchanged
    <2>. QED
      BY <1>9, <2>1, <2>2 DEF Close
  <1>. QED
    BY <1>4, <1>5, <1>6, <1>7, <1>8, <1>9 DEF Next, HandleMessages

(* Each goroutine stays within its own places. *)
LEMMA StepPCs ==
  ASSUME TypeOK, OpenUntilClosing, [Next]_vars
  PROVE  /\ \A c \in Callbacks : pc'[c] \in CallbackPC
         /\ pc'[Reader] \in ReaderPC /\ pc'[Closer] \in CloserPC
  <1>. DEFINE Goal == /\ \A c \in Callbacks : pc'[c] \in CallbackPC
                      /\ pc'[Reader] \in ReaderPC /\ pc'[Closer] \in CloserPC
  <1>. SUFFICES Goal
    OBVIOUS
  <1>0. /\ Reader \in Procs /\ Closer \in Procs /\ Callbacks \subseteq Procs
        /\ Reader # Closer /\ Reader \notin Callbacks /\ Closer \notin Callbacks
    BY ProcsAssumption DEF Procs
  <1>1. CASE UNCHANGED pc
    BY <1>1 DEF TypeOK, TypeProcs
  <1>2. ASSUME NEW f, NEW t \in ReaderPC, Goto(Reader, f, t) PROVE Goal
    BY <1>0, <1>2, GotoMoves DEF TypeOK, TypeProcs
  <1>3. ASSUME NEW c \in Callbacks, NEW f, NEW t \in CallbackPC, Goto(c, f, t) PROVE Goal
    BY <1>0, <1>3, GotoMoves DEF TypeOK, TypeProcs
  <1>4. ASSUME NEW f, NEW t \in CloserPC, Goto(Closer, f, t) PROVE Goal
    BY <1>0, <1>4, GotoMoves DEF TypeOK, TypeProcs
  <1>5. CASE Connect
    <2>1. pc' = pc \/ pc' = [pc EXCEPT ![Reader] = "top"]
      BY <1>5 DEF Connect
    <2>. QED
      BY <1>0, <1>1, <2>1 DEF TypeOK, TypeProcs, OpenUntilClosing, ReaderPC
  <1>. HIDE DEF Goal
  <1>6. CASE SendVoice \/ Receive \/ Tick \/ UNCHANGED vars
    BY <1>1, <1>6 DEF SendVoice, Receive, Tick, vars
  <1>7. CASE LoopTop \/ ReadMessage \/ SendPartial
    BY <1>2, <1>7 DEF LoopTop, ReadMessage, SendPartial, ReaderPC
  <1>8. CASE UpdateTurn
    BY <1>2, <1>8 DEF UpdateTurn, StartOrRearm, ReaderPC
  <1>9. CASE RearmTurn
    BY <1>2, <1>9 DEF RearmTurn, ReaderPC
  <1>10. CASE FlushTermination
    BY <1>2, <1>10 DEF FlushTermination, Commit, ReaderPC
  <1>11. ASSUME NEW c \in Callbacks, TimerFires(c) \/ FinalizeDueToSilence(c) PROVE Goal
    <2>1. CASE TimerFires(c) \/ CheckStopCh(c)
      BY <1>3, <2>1 DEF TimerFires, CheckStopCh, CallbackPC
    <2>2. CASE FirstCheck(c)
      BY <1>3, <2>2 DEF FirstCheck, StartOrRearm, CallbackPC
    <2>3. CASE RearmSilence(c)
      BY <1>3, <2>3 DEF RearmSilence, CallbackPC
    <2>4. CASE SecondCheck(c)
      BY <1>3, <2>4 DEF SecondCheck, StartOrRearm, Commit, CallbackPC
    <2>5. CASE SendDelta(c)
      BY <1>3, <2>5 DEF SendDelta, CallbackPC
    <2>. QED
      BY <1>11, <2>1, <2>2, <2>3, <2>4, <2>5 DEF FinalizeDueToSilence
  <1>12. CASE Close
    <2>1. CASE CloseStopCh \/ ClearTimer \/ Terminate \/ CloseConn \/ CloseChannels
      BY <1>4, <2>1 DEF CloseStopCh, ClearTimer, Terminate, CloseConn, CloseChannels, CloserPC
    <2>2. CASE FlushPendingDelta
      BY <1>4, <2>2 DEF FlushPendingDelta, Commit, CloserPC
    <2>. QED
      BY <1>12, <2>1, <2>2 DEF Close
  <1>. QED
    BY <1>5, <1>6, <1>7, <1>8, <1>9, <1>10, <1>11, <1>12 DEF Next, HandleMessages

\* The goroutines keep their types.
LEMMA StepTypeProcs ==
  ASSUME TypeOK, OpenUntilClosing, Stages, [Next]_vars
  PROVE  TypeProcs'
  <1>1. {connected', stopped', closed', crashed'} \subseteq BOOLEAN
    <2>. USE DEF TypeOK, TypeProcs
    <2>1. CASE UNCHANGED <<connected, stopped, closed, crashed>>
      BY <2>1
    <2>2. CASE Connect \/ SendVoice \/ Receive \/ Tick \/ UNCHANGED vars
      BY <2>1, <2>2 DEF Connect, SendVoice, Receive, Tick, vars, connVars
    <2>3. CASE HandleMessages
      BY <2>1, <2>3 DEF HandleMessages, LoopTop, ReadMessage, SendPartial, UpdateTurn, RearmTurn,
             FlushTermination, ReaderUnchanged, connVars
    <2>4. ASSUME NEW c \in Callbacks, TimerFires(c) \/ FinalizeDueToSilence(c)
          PROVE  UNCHANGED <<connected, stopped, closed>> /\ crashed' \in {crashed, TRUE}
      BY <2>4 DEF TimerFires, FinalizeDueToSilence, CheckStopCh, FirstCheck, RearmSilence,
             SecondCheck, SendDelta, CallbackUnchanged, connVars
    <2>5. CASE Close
      BY <2>5 DEF Close, CloseStopCh, ClearTimer, Terminate, CloseConn, FlushPendingDelta, CloseChannels,
             StopChClosed
    <2>. QED
      BY <2>2, <2>3, <2>4, <2>5 DEF Next
  <1>2. updates' \in Nat /\ updates <= updates'
    <2>1. updates \in Nat
      BY BoundsAssumption DEF TypeOK, TypeTurn
    <2>2. updates' \in {updates, updates + 1}
      BY DEF Next, Connect, SendVoice, Receive, Tick, vars, HandleMessages, LoopTop, ReadMessage,
             SendPartial, UpdateTurn, RearmTurn, FlushTermination, TimerFires, Commit,
             FinalizeDueToSilence, CheckStopCh, FirstCheck, RearmSilence, SecondCheck, SendDelta,
             Close, CloseStopCh, ClearTimer, Terminate, CloseConn, FlushPendingDelta, CloseChannels, turnVars
    <2>. QED
      BY <2>1, <2>2
  <1>3. lastUpdateAt' \in [Callbacks -> 0..updates'] /\ nap' \in [Callbacks -> 0..GRACE]
    <2>0. /\ 0 \in 0..GRACE /\ GRACE \in 0..GRACE /\ 0 \in 0..updates' /\ updates \in 0..updates'
          /\ lastUpdateAt \in [Callbacks -> 0..updates'] /\ nap \in [Callbacks -> 0..GRACE]
      BY <1>2, TicksAssumption, BoundsAssumption DEF TypeOK, TypeTurn, TypeProcs
    <2>1. CASE UNCHANGED <<lastUpdateAt, nap>>
      BY <2>0, <2>1
    <2>2. CASE Tick
      BY <2>0, <2>2, TicksAssumption DEF Tick, Sooner
    <2>3. ASSUME NEW c \in Callbacks, TimerFires(c) \/ FinalizeDueToSilence(c)
          PROVE  /\ lastUpdateAt' \in [Callbacks -> 0..updates']
                 /\ nap' \in [Callbacks -> 0..GRACE]
      <3>1. CASE FirstCheck(c)
        BY <2>0, <3>1 DEF FirstCheck
      <3>2. CASE SecondCheck(c)
        BY <2>0, <3>2 DEF SecondCheck
      <3>3. CASE TimerFires(c) \/ CheckStopCh(c) \/ RearmSilence(c) \/ SendDelta(c)
        BY <2>1, <3>3 DEF TimerFires, CheckStopCh, RearmSilence, SendDelta
      <3>. QED
        BY <2>3, <3>1, <3>2, <3>3 DEF FinalizeDueToSilence
    <2>4. CASE Connect \/ SendVoice \/ Receive \/ UNCHANGED vars
      BY <2>1, <2>4 DEF Connect, SendVoice, Receive, vars
    <2>5. CASE HandleMessages \/ Close
      BY <2>1, <2>5 DEF HandleMessages, LoopTop, ReadMessage, SendPartial, UpdateTurn, RearmTurn,
             FlushTermination, ReaderUnchanged, Close, CloseStopCh, ClearTimer, Terminate, CloseConn,
             FlushPendingDelta, CloseChannels, CloseUnchanged
    <2>. QED
      BY <2>2, <2>3, <2>4, <2>5 DEF Next
  <1>. QED
    BY <1>1, <1>3, StepWaits, StepPCs DEF TypeProcs

(* accMu passes only to a goroutine that goes on to rearm, and comes back  *)
(* unless that one panics.                                                 *)
LEMMA StepTypeLock ==
  ASSUME TypeOK, OpenUntilClosing, Stages, [Next]_vars
  PROVE  TypeLock'
  <1>0. /\ Reader \in Procs /\ Closer \in Procs /\ Callbacks \subseteq Procs
        /\ Nobody \notin Procs /\ Reader # Closer /\ Reader \notin Callbacks /\ Closer \notin Callbacks
    BY ProcsAssumption DEF Procs
  <1>. USE DEF TypeOK, TypeLock
  <1>1. CASE UNCHANGED <<accMu, pc, crashed>>
    BY <1>1
  <1>2. ASSUME NEW p \in Procs, NEW f, NEW t, Goto(p, f, t), accMu' = accMu, crashed => crashed',
               f \notin {"rearm", "panicked"} \/ t \in {"rearm", "panicked"} \/ crashed'
        PROVE  TypeLock'
    BY <1>0, <1>2, GotoMoves
  <1>3. CASE accMu' = Nobody
    BY <1>3
  <1>4. ASSUME NEW p \in Procs, NEW f, NEW w, NEW t, StartOrRearm(p, f, w, t), crashed => crashed',
               f \notin {"rearm", "panicked"}
        PROVE  TypeLock'
    <2>1. CASE timerSet
      BY <1>0, <1>4, <2>1, GotoMoves DEF StartOrRearm
    <2>2. CASE ~ timerSet
      BY <1>2, <1>4, <2>2 DEF StartOrRearm
    <2>. QED
      BY <2>1, <2>2
  <1>5. CASE Connect
    <2>1. CASE UNCHANGED pc
      BY <1>1, <1>5, <2>1 DEF Connect
    <2>2. CASE pc' = [pc EXCEPT ![Reader] = "top"] /\ ~connected /\ ~stopped
      <3>1. pc[Reader] = "idle"
        BY <2>2 DEF Stages
      <3>2. accMu' = accMu /\ crashed' = crashed
        BY <1>5 DEF Connect
      <3>3. \A q \in Procs : q # Reader => pc'[q] = pc[q]
        BY <2>2 DEF OpenUntilClosing
      <3>. QED
        BY <3>1, <3>2, <3>3
    <2>. QED
      BY <1>5, <2>1, <2>2 DEF Connect
  <1>6. CASE SendVoice \/ Receive \/ Tick \/ UNCHANGED vars
    BY <1>1, <1>6 DEF SendVoice, Receive, Tick, vars, Next, OpenUntilClosing
  <1>7. CASE LoopTop \/ ReadMessage \/ SendPartial
    BY <1>0, <1>2, <1>7 DEF LoopTop, ReadMessage, SendPartial, ReaderUnchanged
  <1>8. CASE UpdateTurn
    BY <1>0, <1>4, <1>8 DEF UpdateTurn, ReaderUnchanged
  <1>9. CASE RearmTurn
    BY <1>0, <1>2, <1>3, <1>9 DEF RearmTurn, Rearm, ReaderUnchanged
  <1>10. CASE FlushTermination
    BY <1>0, <1>2, <1>10 DEF FlushTermination, Commit, ReaderUnchanged
  <1>11. ASSUME NEW c \in Callbacks, TimerFires(c) \/ FinalizeDueToSilence(c) PROVE TypeLock'
    <2>1. CASE TimerFires(c) \/ CheckStopCh(c)
      BY <1>0, <1>2, <2>1 DEF TimerFires, CheckStopCh
    <2>2. CASE FirstCheck(c)
      BY <1>0, <1>2, <1>4, <2>2 DEF FirstCheck
    <2>3. CASE RearmSilence(c)
      BY <1>0, <1>2, <1>3, <2>3 DEF RearmSilence, Rearm
    <2>4. CASE SecondCheck(c)
      BY <1>0, <1>2, <1>4, <2>4 DEF SecondCheck, Commit
    <2>5. CASE SendDelta(c)
      BY <1>0, <1>2, <2>5 DEF SendDelta
    <2>. QED
      BY <1>11, <2>1, <2>2, <2>3, <2>4, <2>5 DEF FinalizeDueToSilence
  <1>12. CASE Close
    <2>1. CASE CloseStopCh
      BY <1>0, <1>2, <1>12, <2>1 DEF CloseStopCh, OpenUntilClosing, CrashOnlyOnceClosing
    <2>2. CASE ClearTimer \/ Terminate \/ CloseConn \/ CloseChannels
      BY <1>0, <1>2, <2>2 DEF ClearTimer, Terminate, CloseConn, CloseChannels
    <2>3. CASE FlushPendingDelta
      BY <1>0, <1>2, <2>3 DEF FlushPendingDelta, Commit
    <2>. QED
      BY <1>12, <2>1, <2>2, <2>3 DEF Close
  <1>. QED
    BY <1>5, <1>6, <1>7, <1>8, <1>9, <1>10, <1>11, <1>12 DEF Next, HandleMessages

(* Where a goroutine is when another one, or none, moves. *)
LEMMA StepReading ==
  ASSUME TypeOK, OpenUntilClosing, Stages, [Next]_vars
  PROVE  /\ pc'[Reader] \in {"turn", "lock"} => updates' < MaxUpdates + connects'
         /\ pc'[Reader] # "idle" => connected' \/ stopped'
  <1>. DEFINE Goal == /\ pc'[Reader] \in {"turn", "lock"} => updates' < MaxUpdates + connects'
                      /\ pc'[Reader] # "idle" => connected' \/ stopped'
  <1>. SUFFICES Goal
    OBVIOUS
  <1>0. /\ Reader \in Procs /\ Closer \in Procs /\ Callbacks \subseteq Procs
        /\ Reader # Closer /\ Reader \notin Callbacks
        /\ updates \in Nat /\ connects \in Nat /\ MaxUpdates \in Nat
    BY ProcsAssumption, BoundsAssumption DEF Procs, TypeOK, TypeTurn
  <1>1. CASE pc'[Reader] = pc[Reader] /\ UNCHANGED <<updates, connects>>
             /\ (connected => connected' \/ stopped') /\ (stopped => stopped')
    BY <1>1 DEF Stages
  <1>2. ASSUME NEW p \in Procs, NEW f, NEW t, Goto(p, f, t), p # Reader
        PROVE  pc'[Reader] = pc[Reader]
    BY <1>0, <1>2, GotoMoves
  <1>3. ASSUME NEW f, NEW t, Goto(Reader, f, t), f # "idle",
               UNCHANGED <<connects, connected, stopped>>,
               t \in {"turn", "lock"} => updates' < MaxUpdates + connects'
        PROVE  Goal
    BY <1>0, <1>3, GotoMoves DEF Stages
  <1>4. CASE Connect
    <2>1. CASE connected
      BY <1>0, <1>4, <2>1 DEF Connect, Stages
    <2>2. CASE ~connected
      <3>1. /\ connected' /\ updates' = updates + 1 /\ connects' = connects + 1
            /\ pc'[Reader] = pc[Reader] \/ pc'[Reader] = "top"
        BY <1>0, <1>4, <2>2 DEF Connect, OpenUntilClosing
      <3>. QED
        BY <1>0, <3>1 DEF Stages
    <2>. QED
      BY <2>1, <2>2
  <1>. HIDE DEF Goal
  <1>5. CASE SendVoice \/ Receive \/ Tick \/ UNCHANGED vars
    BY <1>1, <1>5 DEF SendVoice, Receive, Tick, vars, turnVars, connVars
  <1>6. CASE LoopTop
    BY <1>3, <1>6 DEF LoopTop, ReaderUnchanged, connVars
  <1>7. CASE ReadMessage
    BY <1>0, <1>3, <1>7 DEF ReadMessage, ReaderUnchanged, connVars, turnVars
  <1>8. CASE SendPartial
    BY <1>0, <1>3, <1>8 DEF SendPartial, ReaderUnchanged, connVars, turnVars, Stages, Goto
  <1>9. CASE UpdateTurn
    BY <1>3, <1>9 DEF UpdateTurn, StartOrRearm, ReaderUnchanged, connVars
  <1>10. CASE RearmTurn
    BY <1>3, <1>10 DEF RearmTurn, ReaderUnchanged, connVars
  <1>11. CASE FlushTermination
    BY <1>3, <1>11 DEF FlushTermination, Commit, ReaderUnchanged, connVars
  <1>12. ASSUME NEW c \in Callbacks, TimerFires(c) \/ FinalizeDueToSilence(c) PROVE Goal
    <2>1. c \in Procs /\ c # Reader
      BY <1>0
    <2>2. \E f, t : Goto(c, f, t)
      BY <1>12 DEF TimerFires, FinalizeDueToSilence, CheckStopCh, FirstCheck, RearmSilence,
             SecondCheck, SendDelta, StartOrRearm, Commit
    <2>3. pc'[Reader] = pc[Reader]
      BY <1>2, <2>1, <2>2
    <2>4. UNCHANGED <<updates, connects, connected, stopped>>
      BY <1>12 DEF TimerFires, FinalizeDueToSilence, CheckStopCh, FirstCheck, RearmSilence,
             SecondCheck, SendDelta, Commit, CallbackUnchanged, connVars, turnVars
    <2>. QED
      BY <1>1, <2>3, <2>4
  <1>13. CASE Close
    <2>1. \E f, t : Goto(Closer, f, t)
      BY <1>13 DEF Close, CloseStopCh, ClearTimer, Terminate, CloseConn, FlushPendingDelta, CloseChannels, Commit
    <2>2. pc'[Reader] = pc[Reader]
      BY <1>0, <1>2, <2>1
    <2>3. UNCHANGED <<updates, connects>>
      BY <1>13 DEF Close, CloseStopCh, ClearTimer, Terminate, CloseConn, FlushPendingDelta, CloseChannels,
             Commit, CloseUnchanged, turnVars
    <2>4. stopped'
      BY <1>13, OpenClose DEF Close, CloseStopCh, ClearTimer, Terminate, CloseConn, FlushPendingDelta,
             CloseChannels, StopChClosed, OpenUntilClosing, Goto, Commit
    <2>. QED
      BY <1>1, <2>2, <2>3, <2>4
  <1>. QED
    BY <1>4, <1>5, <1>6, <1>7, <1>8, <1>9, <1>10, <1>11, <1>12, <1>13 DEF Next, HandleMessages

\* Where the deltas are.
HasDelta(p)  == pc[p] \in Sending => delta[p] # <<>>
LacksDelta(p) == pc[p] \notin Sending => delta[p] = <<>> \/ stopped

\* A delta under way is a word that is not yet committed, or was just.
LEMMA StepDeltas ==
  ASSUME TypeOK, OpenUntilClosing, Stages, [Next]_vars, NEW q \in Procs
  PROVE  HasDelta(q)' /\ LacksDelta(q)'
  <1>. USE DEF HasDelta, LacksDelta, Sending
  <1>. DEFINE Goal == HasDelta(q)' /\ LacksDelta(q)'
  <1>. SUFFICES Goal
    OBVIOUS
  <1>0. /\ Reader \in Procs /\ Closer \in Procs /\ Callbacks \subseteq Procs
        /\ HasDelta(q) /\ LacksDelta(q) /\ (stopped => stopped') /\ delta \in [Procs -> Seq(Nat)]
    <2>1. stopped => stopped'
      BY DEF Next, Connect, SendVoice, Receive, Tick, vars, HandleMessages, LoopTop, ReadMessage,
             SendPartial, UpdateTurn, RearmTurn, FlushTermination, TimerFires, ReaderUnchanged,
             FinalizeDueToSilence, CheckStopCh, FirstCheck, RearmSilence, SecondCheck, SendDelta,
             Close, CloseStopCh, ClearTimer, Terminate, CloseConn, FlushPendingDelta, CloseChannels,
             StopChClosed, CallbackUnchanged, connVars
    <2>. QED
      BY <2>1 DEF Procs, Stages, TypeOK, TypeOut
  <1>1. CASE UNCHANGED <<pc, delta>>
    BY <1>0, <1>1
  <1>2. ASSUME NEW p \in Procs, NEW f, NEW t, Goto(p, f, t), f \notin Sending, t \notin Sending,
               delta' = delta
        PROVE  Goal
    BY <1>0, <1>2, GotoMoves
  <1>3. ASSUME NEW p \in Procs, NEW f, NEW t \in Sending, NEW u, Commit(p, f, t, u), u \notin Sending
        PROVE  Goal
    <2>1. delta' = [delta EXCEPT ![p] = Pending]
      BY <1>3 DEF Commit
    <2>2. CASE Pending = <<>>
      BY <1>0, <1>3, <2>1, <2>2, GotoMoves DEF Commit
    <2>3. CASE Pending # <<>>
      BY <1>0, <1>3, <2>1, <2>3, GotoMoves DEF Commit
    <2>. QED
      BY <2>2, <2>3
  <1>4. ASSUME NEW p \in Procs, NEW f \in Sending, NEW t, Goto(p, f, t), t \notin Sending,
               delta' = [delta EXCEPT ![p] = <<>>] \/ (delta' = delta /\ stopped)
        PROVE  Goal
    BY <1>0, <1>4, GotoMoves
  <1>5. CASE Connect
    <2>1. CASE UNCHANGED pc
      BY <1>1, <1>5, <2>1 DEF Connect
    <2>2. CASE pc' = [pc EXCEPT ![Reader] = "top"] /\ ~connected /\ ~stopped
      <3>1. pc[Reader] = "idle"
        BY <2>2 DEF Stages
      <3>2. Goto(Reader, "idle", "top") /\ delta' = delta
        BY <1>5, <2>2, <3>1 DEF Connect, Goto
      <3>. QED
        BY <1>0, <1>2, <3>2
    <2>. QED
      BY <1>5, <2>1, <2>2 DEF Connect
  <1>. HIDE DEF Goal
  <1>6. CASE SendVoice \/ Receive \/ Tick \/ UNCHANGED vars
    BY <1>1, <1>6 DEF SendVoice, Receive, Tick, vars
  <1>7. CASE LoopTop \/ ReadMessage \/ SendPartial \/ RearmTurn
    BY <1>0, <1>2, <1>7 DEF LoopTop, ReadMessage, SendPartial, RearmTurn
  <1>8. CASE UpdateTurn
    BY <1>0, <1>2, <1>8 DEF UpdateTurn, StartOrRearm
  <1>9. CASE FlushTermination
    BY <1>0, <1>3, <1>4, <1>9 DEF FlushTermination, Send, OpenUntilClosing
  <1>10. ASSUME NEW c \in Callbacks, TimerFires(c) \/ FinalizeDueToSilence(c) PROVE Goal
    <2>1. CASE TimerFires(c) \/ CheckStopCh(c)
      BY <1>0, <1>2, <2>1 DEF TimerFires, CheckStopCh
    <2>2. CASE FirstCheck(c)
      BY <1>0, <1>2, <2>2 DEF FirstCheck, StartOrRearm
    <2>3. CASE RearmSilence(c)
      BY <1>0, <1>2, <2>3 DEF RearmSilence
    <2>4. CASE SecondCheck(c)
      <3>1. CASE Changed(c)
        BY <1>0, <1>2, <2>4, <3>1 DEF SecondCheck, StartOrRearm
      <3>2. CASE ~ Changed(c)
        <4>1. Commit(c, "sleep", "send", "idle") /\ c \in Procs
          BY <1>0, <2>4, <3>2 DEF SecondCheck
        <4>2. "send" \in Sending /\ "idle" \notin Sending
          OBVIOUS
        <4>. QED
          BY <1>3, <4>1, <4>2
      <3>. QED
        BY <3>1, <3>2
    <2>5. CASE SendDelta(c)
      BY <1>0, <1>4, <2>5 DEF SendDelta, Send, OpenUntilClosing
    <2>. QED
      BY <1>10, <2>1, <2>2, <2>3, <2>4, <2>5 DEF FinalizeDueToSilence
  <1>11. CASE Close
    <2>1. CASE CloseStopCh \/ ClearTimer \/ Terminate \/ CloseConn \/ CloseChannels
      BY <1>0, <1>2, <2>1 DEF CloseStopCh, ClearTimer, Terminate, CloseConn, CloseChannels
    <2>2. CASE FlushPendingDelta
      BY <1>0, <1>3, <1>4, <2>2 DEF FlushPendingDelta, Send
    <2>. QED
      BY <1>11, <2>1, <2>2 DEF Close
  <1>. QED
    BY <1>5, <1>6, <1>7, <1>8, <1>9, <1>10, <1>11 DEF Next, HandleMessages

\* The parts together.
LEMMA StepType ==
  TypeOK /\ OpenUntilClosing /\ Stages /\ [Next]_vars => TypeOK' /\ Stages'
  <1>. SUFFICES ASSUME TypeOK, OpenUntilClosing, Stages, [Next]_vars PROVE TypeOK' /\ Stages'
    OBVIOUS
  <1>1. TypeOK'
    BY StepTypeTurn, StepTypeOut, StepTypeProcs, StepTypeLock DEF TypeOK
  <1>2. Stages'
    BY StepReading, StepDeltas DEF Stages, HasDelta, LacksDelta
  <1>. QED
    BY <1>1, <1>2

\* A connected service is well typed.
LEMMA InitType == Init => TypeOK /\ Stages
  <1>. SUFFICES ASSUME Init PROVE TypeOK /\ Stages
    OBVIOUS
  <1>0. /\ Reader \in Procs /\ Closer \in Procs /\ Callbacks \subseteq Procs
        /\ <<>> \in Seq(Nat) /\ <<>> \in Seq(Seq(Nat) \ {<<>>}) /\ Len(<<>>) = 0
        /\ \A p \in Procs : pc[p] = "idle" /\ delta[p] = <<>>
    BY EmptySeq DEF Procs, Init
  <1>1. TypeTurn
    BY <1>0, TicksAssumption, BoundsAssumption DEF Init, TypeTurn, OldAge
  <1>2. TypeOut
    <2>1. delta \in [Procs -> Seq(Nat)]
      BY <1>0 DEF Init
    <2>2. /\ finalizeCh \in Seq(Seq(Nat) \ {<<>>}) /\ received \in Seq(Seq(Nat) \ {<<>>})
          /\ Len(finalizeCh) = 0
      BY <1>0 DEF Init
    <2>3. timedOut \in BOOLEAN
      BY DEF Init
    <2>. QED
      BY <2>1, <2>2, <2>3, BoundsAssumption DEF TypeOut
  <1>3. TypeProcs
    <2>1. 0 \in 0..(Off - 1) /\ Off \in 0..Off /\ 0 \in 0..GRACE /\ 0 \in 0..0
      BY TicksAssumption DEF Off
    <2>. QED
      BY <1>0, <2>1 DEF Init, TypeProcs, CallbackPC, ReaderPC, CloserPC
  <1>4. TypeLock /\ Stages
    BY <1>0 DEF Init, TypeLock, Stages, Sending
  <1>. QED
    BY <1>1, <1>2, <1>3, <1>4 DEF TypeOK

\* Every reachable state is well typed, with each goroutine at a stage that fits its fields.
LEMMA StagesInvariant == Spec => [](TypeOK /\ Stages)
  BY InitType, StepType, OpenInvariant, PTL DEF Spec

(* The types; finalizeCh keeps to its capacity, and between two steps      *)
(* accMu is held only on the way to a rearm or by a goroutine that         *)
(* panicked there.                                                         *)
THEOREM TypeCorrect == Spec => []TypeOK
  BY StagesInvariant, PTL

----------------------------------------------------------------------------
(***************************************************************************)
(* A text that is not finalized keeps a timer or a callback on its way.    *)
(***************************************************************************)
Watching == {"start", "first", "rearm", "sleep"}
Awake == \/ timer # Off \/ pc[Reader] = "rearm"
         \/ \E c \in Callbacks : pc[c] \in Watching

\* Who takes accMu with the pointer set goes on to rearm; else the timer runs.
LEMMA StartOrRearmWakes ==
  ASSUME OpenUntilClosing, NEW p \in Callbacks \cup {Reader}, NEW f, NEW t,
         NEW w \in 0..(Off - 1), StartOrRearm(p, f, w, t)
  PROVE  Awake'
  <1>1. p \in Procs /\ w # Off
    BY TicksAssumption DEF Procs, Off
  <1>2. CASE timerSet
    BY <1>1, <1>2, GotoMoves DEF StartOrRearm, Awake, Watching
  <1>3. CASE ~ timerSet
    BY <1>1, <1>3 DEF StartOrRearm, NewTimer, Awake
  <1>. QED
    BY <1>2, <1>3

\* A text that waits to be finalized always has a timer running or a callback that will see it.
LEMMA StepAwake ==
  ASSUME TypeOK, OpenUntilClosing, Stages, NoLostWakeup, [Next]_vars
  PROVE  NoLostWakeup'
  <1>. SUFFICES ASSUME Pending' # <<>>, ~stopped' PROVE Awake'
    BY DEF NoLostWakeup, Awake, Watching
  <1>. DEFINE Goal == Awake'
              Kept == latest' = latest /\ committed' = committed /\ stopped' = stopped
  <1>0. /\ Reader \in Procs /\ Closer \in Procs /\ Callbacks \subseteq Procs /\ Reader \notin Callbacks
        /\ Reader # Closer /\ Closer \notin Callbacks /\ Off \notin 0..(Off - 1) /\ Off > 0 /\ Off \in Nat
    BY ProcsAssumption, TicksAssumption DEF Procs, Off
  <1>1. Kept => Awake
    BY DEF NoLostWakeup, Pending, Awake, Watching
  <1>2. CASE Kept /\ UNCHANGED <<timer, pc>>
    BY <1>1, <1>2 DEF Awake
  <1>3. ASSUME NEW p \in Procs, NEW f, NEW t, Goto(p, f, t), f \notin Watching, Kept,
               UNCHANGED timer
        PROVE  Goal
    BY <1>0, <1>1, <1>3, GotoMoves DEF Awake, Watching
  <1>4. ASSUME NEW p, NEW f, NEW t, NEW u, Commit(p, f, t, u) PROVE FALSE
    BY <1>4, FreshOfSame DEF Commit, Committed, Pending, TypeOK, TypeTurn
  <1>5. ASSUME NEW c \in Callbacks, NEW f, NEW t \in Watching, Goto(c, f, t) PROVE Goal
    BY <1>0, <1>5, GotoMoves DEF Awake
  <1>6. CASE Connect
    <2>1. CASE UNCHANGED pc
      BY <1>2, <1>6, <2>1 DEF Connect, timerVars
    <2>2. CASE pc' = [pc EXCEPT ![Reader] = "top"] /\ ~connected /\ ~stopped
      <3>1. pc[Reader] = "idle"
        BY <2>2 DEF Stages
      <3>2. Goto(Reader, "idle", "top") /\ Kept /\ UNCHANGED timer
        BY <1>6, <2>2, <3>1 DEF Connect, Goto, timerVars
      <3>. QED
        BY <1>0, <1>3, <3>2 DEF Watching
    <2>. QED
      BY <1>6, <2>1, <2>2 DEF Connect
  <1>7. CASE SendVoice \/ Receive \/ UNCHANGED vars
    BY <1>2, <1>7 DEF SendVoice, Receive, vars, turnVars, timerVars, connVars
  <1>8. CASE Tick
    <2>1. Kept /\ pc' = pc
      BY <1>8 DEF Tick, connVars
    <2>2. timer # Off => timer' # Off
      BY <1>0, <1>8 DEF Tick, Sooner, TypeOK, TypeProcs
    <2>. QED
      BY <1>1, <2>1, <2>2 DEF Awake
  <1>9. CASE LoopTop \/ ReadMessage \/ SendPartial
    BY <1>0, <1>3, <1>9 DEF LoopTop, ReadMessage, SendPartial, ReaderUnchanged, turnVars, timerVars,
           connVars, Watching
  <1>10. CASE UpdateTurn
    <2>1. SILENCE \in 0..(Off - 1)
      BY TicksAssumption DEF Off
    <2>. QED
      BY <1>0, <1>10, <2>1, StartOrRearmWakes DEF UpdateTurn
  <1>11. CASE RearmTurn
    <2>1. pc[Reader] = "rearm" /\ ~stopped
      BY <1>11 DEF RearmTurn, Goto, ReaderUnchanged, connVars
    <2>2. timerSet
      BY <1>0, <2>1 DEF OpenUntilClosing
    <2>3. timer' = wait[Reader]
      BY <1>11, <2>2 DEF RearmTurn, Rearm
    <2>. QED
      BY <1>0, <2>3 DEF Awake, TypeOK, TypeProcs
  <1>12. CASE FlushTermination
    BY <1>0, <1>3, <1>4, <1>12 DEF FlushTermination, ReaderUnchanged, turnVars, timerVars, connVars, Watching
  <1>13. ASSUME NEW c \in Callbacks, TimerFires(c) \/ FinalizeDueToSilence(c) PROVE Goal
    <2>0. stopped' = stopped
      BY <1>13 DEF TimerFires, FinalizeDueToSilence, CheckStopCh, FirstCheck, RearmSilence,
             SecondCheck, SendDelta, CallbackUnchanged, connVars
    <2>1. CASE TimerFires(c)
      BY <1>5, <2>1 DEF TimerFires, Watching
    <2>2. CASE CheckStopCh(c)
      BY <1>5, <2>0, <2>2 DEF CheckStopCh, Watching
    <2>3. CASE FirstCheck(c)
      <3>1. CASE Missing # {}
        <4>1. StartOrRearm(c, "first", Min(Missing), "idle") /\ Min(Missing) \in 0..(Off - 1)
          BY <2>3, <3>1, MissingMin DEF FirstCheck, TypeOK
        <4>. QED
          BY <4>1, StartOrRearmWakes
      <3>2. CASE Missing = {}
        BY <1>5, <2>3, <3>2 DEF FirstCheck, Watching
      <3>. QED
        BY <3>1, <3>2
    <2>4. CASE RearmSilence(c)
      <3>1. pc[c] = "rearm"
        BY <2>4 DEF RearmSilence, Goto
      <3>2. timerSet
        BY <1>0, <2>0, <3>1 DEF OpenUntilClosing
      <3>3. timer' = wait[c]
        BY <2>4, <3>2 DEF RearmSilence, Rearm
      <3>. QED
        BY <1>0, <3>3 DEF Awake, TypeOK, TypeProcs
    <2>5. CASE SecondCheck(c)
      <3>1. CASE Changed(c)
        <4>. DEFINE w == IF textAge < Threshold THEN Threshold - textAge ELSE Threshold
        <4>1. w \in 0..(Off - 1)
          BY TicksAssumption, ThresholdType DEF TypeOK, TypeTurn, Off, OldAge
        <4>2. StartOrRearm(c, "sleep", w, "idle")
          BY <2>5, <3>1 DEF SecondCheck
        <4>. HIDE DEF w
        <4>. QED
          BY <4>1, <4>2, StartOrRearmWakes
      <3>2. CASE ~ Changed(c)
        BY <1>4, <2>5, <3>2 DEF SecondCheck
      <3>. QED
        BY <3>1, <3>2
    <2>6. CASE SendDelta(c)
      BY <1>0, <1>3, <2>0, <2>6 DEF SendDelta, turnVars, timerVars, Watching
    <2>. QED
      BY <1>13, <2>1, <2>2, <2>3, <2>4, <2>5, <2>6 DEF FinalizeDueToSilence
  <1>14. CASE Close
    BY <1>14 DEF Close, CloseStopCh, ClearTimer, Terminate, CloseConn, FlushPendingDelta, CloseChannels,
           StopChClosed, OpenUntilClosing, Goto, Commit
  <1>. QED
    BY <1>6, <1>7, <1>8, <1>9, <1>10, <1>11, <1>12, <1>13, <1>14 DEF Next, HandleMessages

(* Until Close a text that is not finalized is never left without a timer  *)
(* or a callback, however the reader and the callbacks stop and reset it.  *)
THEOREM NoneForgotten == Spec => []NoLostWakeup
  <1>1. Init => NoLostWakeup
    <2>1. <<>> \in Seq(Nat)
      BY EmptySeq
    <2>. QED
      BY <2>1, FreshOfSame DEF Init, NoLostWakeup, Pending
  <1>2. NoLostWakeup /\ TypeOK /\ Stages /\ OpenUntilClosing /\ [Next]_vars => NoLostWakeup'
    BY StepAwake
  <1>. QED
    BY <1>1, <1>2, StagesInvariant, OpenInvariant, PTL DEF Spec

----------------------------------------------------------------------------
(***************************************************************************)
(* While no newer text has come, a callback that sleeps has seen the text  *)
(* as old as its silence, and as much older as it has slept.               *)
(***************************************************************************)
Ripe(c)  == (pc[c] = "sleep" /\ updates = lastUpdateAt[c]) => textAge + nap[c] >= Threshold + GRACE
AllRipe  == \A c \in Callbacks : Ripe(c)

\* A tick takes from a nap no more than it adds to an age below its bound.
LEMMA OlderSooner ==
  ASSUME NEW a \in Nat, NEW n \in Nat, NEW old \in Nat, NEW b \in Nat, a <= old, b <= old, a + n >= b
  PROVE  Older(a, old) + Sooner(n) >= b
  BY DEF Older, Sooner

\* A callback past its test has found the silence long enough.
LEMMA StepRipe ==
  ASSUME TypeOK, TypeOK', OpenUntilClosing, AllRipe, [Next]_vars
  PROVE  AllRipe'
  <1>. SUFFICES ASSUME NEW c \in Callbacks, pc'[c] = "sleep", updates' = lastUpdateAt'[c]
                PROVE  textAge' + nap'[c] >= Threshold' + GRACE
    BY DEF AllRipe, Ripe
  <1>. DEFINE Goal == textAge' + nap'[c] >= Threshold' + GRACE
  <1>0. /\ Reader \in Procs /\ Closer \in Procs /\ Callbacks \subseteq Procs /\ Reader \notin Callbacks
        /\ Closer \notin Callbacks /\ c \in Procs
        /\ updates \in Nat /\ textAge \in Nat /\ nap[c] \in Nat /\ lastUpdateAt[c] \in 0..updates
        /\ Threshold \in Nat /\ GRACE \in Nat /\ OldAge \in Nat
    <2>1. Threshold \in Nat
      BY ThresholdType, TicksAssumption
    <2>2. GRACE \in Nat /\ OldAge \in Nat
      BY TicksAssumption DEF OldAge
    <2>3. updates \in Nat
      BY BoundsAssumption DEF TypeOK, TypeTurn
    <2>4. textAge \in Nat
      BY <2>2 DEF TypeOK, TypeTurn
    <2>5. nap[c] \in 0..GRACE /\ lastUpdateAt[c] \in 0..updates
      BY DEF TypeOK, TypeProcs
    <2>. QED
      BY <2>1, <2>2, <2>3, <2>4, <2>5, ProcsAssumption DEF Procs
  <1>1. latest' = latest => Threshold' = Threshold
    BY DEF Threshold
  <1>2. CASE pc[c] = "sleep" /\ latest' = latest /\ updates' = updates
             /\ textAge' = textAge /\ lastUpdateAt'[c] = lastUpdateAt[c] /\ nap'[c] = nap[c]
    BY <1>1, <1>2 DEF AllRipe, Ripe
  <1>3. ASSUME NEW p \in Procs, NEW f, NEW t, Goto(p, f, t), t # "sleep" PROVE pc[c] = "sleep"
    BY <1>0, <1>3, GotoMoves
  <1>4. CASE Connect
    <2>1. CASE connected
      BY <1>2, <1>4, <2>1 DEF Connect, turnVars
    <2>2. CASE ~connected
      BY <1>0, <1>4, <2>2 DEF Connect
    <2>. QED
      BY <2>1, <2>2
  <1>5. CASE SendVoice \/ Receive \/ UNCHANGED vars
    BY <1>2, <1>5 DEF SendVoice, Receive, vars, turnVars
  <1>6. CASE Tick
    <2>1. pc[c] = "sleep" /\ updates = lastUpdateAt[c] /\ Threshold' = Threshold
      BY <1>1, <1>6 DEF Tick
    <2>2. textAge + nap[c] >= Threshold + GRACE
      BY <2>1 DEF AllRipe, Ripe
    <2>3. nap'[c] = Sooner(nap[c]) /\ textAge' = Older(textAge, OldAge)
      BY <1>6 DEF Tick
    <2>4. OldAge >= Threshold + GRACE /\ textAge <= OldAge
      <3>1. textAge \in 0..OldAge
        BY DEF TypeOK, TypeTurn
      <3>2. Threshold \in {SILENCE, SILENCE + EXTENSION} /\ OldAge = SILENCE + EXTENSION + GRACE
        BY DEF Threshold, OldAge
      <3>3. SILENCE \in Nat /\ EXTENSION \in Nat /\ GRACE \in Nat
        BY TicksAssumption
      <3>. QED
        BY <1>0, <3>1, <3>2, <3>3
    <2>5. Threshold + GRACE \in Nat
      BY <1>0
    <2>6. Older(textAge, OldAge) + Sooner(nap[c]) >= Threshold + GRACE
      BY <1>0, <2>2, <2>4, <2>5, OlderSooner
    <2>. QED
      BY <2>1, <2>3, <2>6
  <1>7. CASE HandleMessages
    <2>1. CASE UpdateTurn
      <3>1. updates' = updates + 1 /\ lastUpdateAt'[c] = lastUpdateAt[c]
        BY <2>1 DEF UpdateTurn, ReaderUnchanged
      <3>2. lastUpdateAt[c] \in 0..updates /\ updates \in Nat
        BY <1>0
      <3>3. lastUpdateAt[c] = updates + 1
        BY <3>1
      <3>. HIDE DEF Goal
      <3>. QED
        BY <3>2, <3>3
    <2>2. CASE LoopTop \/ ReadMessage \/ SendPartial \/ RearmTurn \/ FlushTermination
      <3>1. pc[c] = "sleep"
        BY <1>0, <1>3, <2>2 DEF LoopTop, ReadMessage, SendPartial, RearmTurn, FlushTermination, Commit
      <3>2. UNCHANGED <<latest, updates, textAge, lastUpdateAt, nap>>
        BY <2>2 DEF LoopTop, ReadMessage, SendPartial, RearmTurn, FlushTermination, Commit,
               ReaderUnchanged, turnVars
      <3>. QED
        BY <1>2, <3>1, <3>2
    <2>. QED
      BY <1>7, <2>1, <2>2 DEF HandleMessages
  <1>8. ASSUME NEW d \in Callbacks, TimerFires(d) \/ FinalizeDueToSilence(d) PROVE Goal
    <2>1. CASE FirstCheck(d)
      <3>1. CASE d = c /\ Missing = {}
        <4>1. ~ (textAge < Threshold)
          BY <3>1 DEF Missing
        <4>2. nap'[c] = GRACE /\ textAge' = textAge /\ latest' = latest
          BY <2>1, <3>1 DEF FirstCheck, turnVars, TypeOK, TypeProcs
        <4>. QED
          BY <1>0, <1>1, <4>1, <4>2
      <3>2. CASE d = c /\ Missing # {}
        BY <1>0, <2>1, <3>2, GotoMoves DEF FirstCheck, StartOrRearm
      <3>3. CASE d # c
        <4>1. pc[c] = "sleep"
          BY <1>0, <2>1, <3>3, GotoMoves DEF FirstCheck, StartOrRearm
        <4>2. lastUpdateAt'[c] = lastUpdateAt[c] /\ nap'[c] = nap[c]
          BY <2>1, <3>3 DEF FirstCheck, TypeOK, TypeProcs
        <4>. QED
          BY <1>2, <2>1, <4>1, <4>2 DEF FirstCheck, turnVars
      <3>. QED
        BY <3>1, <3>2, <3>3
    <2>2. CASE SecondCheck(d)
      <3>1. CASE d = c
        BY <1>0, <2>2, <3>1, GotoMoves DEF SecondCheck, StartOrRearm, Commit
      <3>2. CASE d # c
        <4>1. pc[c] = "sleep"
          BY <1>0, <2>2, <3>2, GotoMoves DEF SecondCheck, StartOrRearm, Commit
        <4>2. lastUpdateAt'[c] = lastUpdateAt[c] /\ nap'[c] = nap[c]
          BY <2>2, <3>2 DEF SecondCheck, TypeOK, TypeProcs
        <4>3. UNCHANGED <<latest, updates, textAge>>
          BY <2>2 DEF SecondCheck, Commit, turnVars
        <4>. QED
          BY <1>2, <4>1, <4>2, <4>3
      <3>. QED
        BY <3>1, <3>2
    <2>3. CASE TimerFires(d) \/ CheckStopCh(d) \/ RearmSilence(d) \/ SendDelta(d)
      <3>1. pc[c] = "sleep"
        BY <1>0, <1>3, <2>3 DEF TimerFires, CheckStopCh, RearmSilence, SendDelta
      <3>. QED
        BY <1>2, <2>3, <3>1 DEF TimerFires, CheckStopCh, RearmSilence, SendDelta, turnVars
    <2>. QED
      BY <1>8, <2>1, <2>2, <2>3 DEF FinalizeDueToSilence
  <1>9. CASE Close
    <2>1. pc[c] = "sleep"
      BY <1>0, <1>3, <1>9 DEF Close, CloseStopCh, ClearTimer, Terminate, CloseConn, FlushPendingDelta,
             CloseChannels, Commit
    <2>2. UNCHANGED <<latest, updates, textAge, lastUpdateAt, nap>>
      BY <1>9 DEF Close, CloseStopCh, ClearTimer, Terminate, CloseConn, FlushPendingDelta, CloseChannels,
             CloseUnchanged, Commit, turnVars
    <2>. QED
      BY <1>2, <2>1, <2>2
  <1>. QED
    BY <1>4, <1>5, <1>6, <1>7, <1>8, <1>9 DEF Next

(* A silence finalizes a text only when it is as old as its silence and    *)
(* then stood for the grace, whatever other callbacks and texts come in    *)
(* between the two critical sections.                                      *)
THEOREM FinalizedRipe == Spec => NeverFinalizesEarly
  <1>1. Init => AllRipe
    BY DEF Init, AllRipe, Ripe, Procs
  <1>2. AllRipe /\ TypeOK /\ TypeOK' /\ OpenUntilClosing /\ [Next]_vars => AllRipe'
    BY StepRipe
  <1>3. ASSUME TypeOK, OpenUntilClosing, AllRipe, [Next]_vars,
               NEW c \in Callbacks, pc[c] = "sleep", pc'[c] = "send"
        PROVE  textAge >= GRACE + (IF Last(latest) \in Continuations THEN SILENCE + EXTENSION
                                                                     ELSE SILENCE)
    <2>0. /\ Reader \in Procs /\ Closer \in Procs /\ Callbacks \subseteq Procs /\ Reader \notin Callbacks
          /\ Closer \notin Callbacks /\ c \in Procs
      BY ProcsAssumption DEF Procs
    <2>1. ASSUME NEW p \in Procs, NEW f, NEW t, Goto(p, f, t) PROVE p = c /\ t = "send" /\ f = "sleep"
      BY <1>3, <2>0, <2>1, GotoMoves
    <2>2. SecondCheck(c) /\ ~ Changed(c)
      <3>1. ~ (UNCHANGED pc)
        BY <1>3
      <3>2. ~ Connect
        BY <1>3, <2>0, <3>1 DEF Connect, OpenUntilClosing
      <3>3. ~ (SendVoice \/ Receive \/ Tick \/ UNCHANGED vars)
        BY <3>1 DEF SendVoice, Receive, Tick, vars
      <3>4. ~ HandleMessages
        BY <2>0, <2>1 DEF HandleMessages, LoopTop, ReadMessage, SendPartial, UpdateTurn, RearmTurn,
               FlushTermination, StartOrRearm, Commit
      <3>5. ~ Close
        BY <2>0, <2>1 DEF Close, CloseStopCh, ClearTimer, Terminate, CloseConn, FlushPendingDelta,
               CloseChannels, Commit
      <3>6. ASSUME NEW d \in Callbacks, TimerFires(d) \/ FinalizeDueToSilence(d)
            PROVE  d = c /\ SecondCheck(c) /\ ~ Changed(c)
        BY <2>0, <2>1, <3>6 DEF TimerFires, FinalizeDueToSilence, CheckStopCh, FirstCheck,
               RearmSilence, SecondCheck, SendDelta, StartOrRearm, Commit
      <3>. QED
        BY <1>3, <3>2, <3>3, <3>4, <3>5, <3>6 DEF Next
    <2>3. Pending # <<>>
      <3>1. Commit(c, "sleep", "send", "idle")
        BY <2>2 DEF SecondCheck
      <3>2. ~ Goto(c, "sleep", "idle")
        BY <2>0, <2>1
      <3>. QED
        BY <3>1, <3>2 DEF Commit
    <2>4. latest # <<>>
      <3>1. SUFFICES ASSUME latest = <<>> PROVE Pending = <<>>
        BY <2>3
      <3>2. Len(latest) = 0 /\ Len(committed) \in Nat
        BY <3>1, EmptySeq, LenProperties DEF TypeOK, TypeTurn
      <3>3. SubSeq(latest, Len(committed) + 1, Len(latest)) = <<>>
        BY <3>2, SubSeqEmpty
      <3>. QED
        BY <3>1, <3>3 DEF Pending, Fresh
    <2>5. nap[c] = 0 /\ updates = lastUpdateAt[c]
      <3>1. nap[c] = 0 /\ ~ (updates > lastUpdateAt[c])
        BY <2>2 DEF SecondCheck, Changed
      <3>2. lastUpdateAt[c] \in 0..updates
        BY <1>3 DEF TypeOK, TypeProcs
      <3>3. updates \in Nat
        BY <1>3, BoundsAssumption DEF TypeOK, TypeTurn
      <3>. QED
        BY <3>1, <3>2, <3>3
    <2>6. textAge >= Threshold + GRACE
      BY <1>3, <2>5, TicksAssumption DEF AllRipe, Ripe, TypeOK, TypeTurn, OldAge
    <2>. QED
      BY <2>4, <2>6, TicksAssumption DEF Threshold
  <1>4. TypeOK /\ OpenUntilClosing /\ AllRipe /\ [Next]_vars
          => [\A c \in Callbacks : (pc[c] = "sleep" /\ pc'[c] = "send") =>
                textAge >= GRACE + (IF Last(latest) \in Continuations THEN SILENCE + EXTENSION
                                                                      ELSE SILENCE)]_vars
    BY <1>3
  <1>. QED
    BY <1>1, <1>2, <1>4, TypeCorrect, OpenInvariant, PTL DEF Spec, NeverFinalizesEarly
----------------------------------------------------------------------------
(***************************************************************************)
(* Words.  As long as every transcript extends the last, the words of a    *)
(* transcript are 1, 2, ...: what is committed is a prefix, what is new    *)
(* comes after it, and the words sent or in flight are committed ones,     *)
(* each in one place.                                                      *)
(***************************************************************************)
Counts(s)     == \A k \in DOMAIN s : s[k] = k
Distinct(s)   == \A j, k \in DOMAIN s : s[j] = s[k] => j = k
AllDistinct(s) == \A m, n \in DOMAIN s : \A j \in DOMAIN s[m], k \in DOMAIN s[n] :
                    s[m][j] = s[n][k] => m = n /\ j = k
WordsOf(s)    == UNION {ToSet(s[n]) : n \in DOMAIN s}
Others(p)     == UNION {ToSet(delta[q]) : q \in Procs \ {p}}

Prefix   == Counts(latest) /\ Counts(committed) /\ Len(committed) <= Len(latest)
OneEach  == /\ AllDistinct(Told) /\ \A p \in Procs : Distinct(delta[p])
            /\ Sent \cap InFlight = {}
            /\ \A p, q \in Procs : p # q => ToSet(delta[p]) \cap ToSet(delta[q]) = {}
Accounted == /\ Sent \cup InFlight \subseteq ToSet(committed)
             /\ ~stopped /\ ~timedOut => ToSet(committed) \subseteq Sent \cup InFlight
Words    == growing => Prefix /\ OneEach /\ Accounted

\* What a step may do to the words: nothing, extend the transcript, commit what is new into a
\* delta, put a delta in finalizeCh, or give it up, which a stop or a timeout excuses.
Texts        == <<latest, committed, growing>>
StaysExcused == (stopped \/ timedOut) => (stopped' \/ timedOut')
Keeps        == UNCHANGED <<Texts, Told, delta>> /\ StaysExcused
Extends      == /\ growing' => growing /\ latest' \in {latest, Append(latest, Len(latest) + 1)}
                /\ UNCHANGED <<committed, Told, delta>> /\ StaysExcused
Takes(p)     == /\ pc[p] \notin Sending /\ delta' = [delta EXCEPT ![p] = Pending]
                /\ committed' = latest /\ UNCHANGED <<latest, growing, Told>> /\ StaysExcused
Tells(p)     == /\ Told' = Append(Told, delta[p]) /\ delta' = [delta EXCEPT ![p] = <<>>]
                /\ UNCHANGED Texts /\ StaysExcused
GivesUp(p)   == /\ delta' = [delta EXCEPT ![p] = <<>>] /\ UNCHANGED <<Texts, Told>>
                /\ stopped' \/ timedOut'

\* The elements of a sequence of words are words.
LEMMA ToSetType ==
  ASSUME NEW s \in Seq(Nat)
  PROVE  ToSet(s) \subseteq Nat /\ ToSet(s) = {s[k] : k \in 1..Len(s)}
  BY ElementOfSeq, LenProperties DEF ToSet

\* Whatever was told, or is queued to be, are words.
LEMMA ToldType ==
  ASSUME TypeOut
  PROVE  Told \in Seq(Seq(Nat))
  <1>1. received \in Seq(Seq(Nat)) /\ finalizeCh \in Seq(Seq(Nat))
    <2>1. \A s \in Seq(Seq(Nat) \ {<<>>}) : s \in Seq(Seq(Nat))
      OBVIOUS
    <2>. QED
      BY <2>1 DEF TypeOut
  <1>. QED
    BY <1>1, ConcatProperties DEF Told

\* A send adds its delta at the end of what was told.
LEMMA SendTells ==
  ASSUME TypeOK, NEW p \in Procs, Send(p), received' = received
  PROVE  Told' = Append(Told, delta[p]) /\ delta' = [delta EXCEPT ![p] = <<>>]
  <1>. DEFINE S == Seq(Nat)
  <1>1. received \in Seq(S) /\ finalizeCh \in Seq(S) /\ delta[p] \in S
    <2>1. \A s \in Seq(Seq(Nat) \ {<<>>}) : s \in Seq(Seq(Nat))
      OBVIOUS
    <2>. QED
      BY <2>1 DEF TypeOK, TypeOut
  <1>2. finalizeCh' = Append(finalizeCh, delta[p]) /\ delta' = [delta EXCEPT ![p] = <<>>]
    BY DEF Send
  <1>. HIDE DEF S
  <1>3. <<delta[p]>> \in Seq(S) /\ Append(finalizeCh, delta[p]) = finalizeCh \o <<delta[p]>>
    BY <1>1, AppendIsConcat
  <1>4. received \o (finalizeCh \o <<delta[p]>>) = (received \o finalizeCh) \o <<delta[p]>>
    BY <1>1, <1>3, ConcatAssociative
  <1>5. received \o finalizeCh \in Seq(S)
    BY <1>1, ConcatProperties
  <1>6. Append(received \o finalizeCh, delta[p]) = (received \o finalizeCh) \o <<delta[p]>>
    BY <1>1, <1>5, AppendIsConcat
  <1>. QED
    BY <1>2, <1>3, <1>4, <1>6 DEF Told

\* A receive moves a delta and tells nothing new.
LEMMA ReceiveTells ==
  ASSUME TypeOK, Receive
  PROVE  Told' = Told
  <1>. DEFINE S == Seq(Nat)
  <1>1. received \in Seq(S) /\ finalizeCh \in Seq(S)
    <2>1. \A s \in Seq(Seq(Nat) \ {<<>>}) : s \in Seq(Seq(Nat))
      OBVIOUS
    <2>. QED
      BY <2>1 DEF TypeOK, TypeOut
  <1>2. finalizeCh # <<>> /\ received' = Append(received, Head(finalizeCh)) /\ finalizeCh' = Tail(finalizeCh)
    BY DEF Receive
  <1>. HIDE DEF S
  <1>3. Head(finalizeCh) \in S /\ Tail(finalizeCh) \in Seq(S)
    BY <1>1, <1>2, HeadTailProperties
  <1>4. finalizeCh = <<Head(finalizeCh)>> \o Tail(finalizeCh)
    BY <1>1, <1>2, <1>3
  <1>5. received' = received \o <<Head(finalizeCh)>> /\ <<Head(finalizeCh)>> \in Seq(S)
    BY <1>1, <1>2, <1>3, AppendIsConcat
  <1>6. (received \o <<Head(finalizeCh)>>) \o Tail(finalizeCh)
          = received \o (<<Head(finalizeCh)>> \o Tail(finalizeCh))
    BY <1>1, <1>3, <1>5, ConcatAssociative
  <1>. QED
    BY <1>2, <1>4, <1>5, <1>6 DEF Told

\* Every step is one of those.
LEMMA WordSteps ==
  ASSUME TypeOK, OpenUntilClosing, [Next]_vars
  PROVE  Keeps \/ Extends \/ \E p \in Procs : Takes(p) \/ Tells(p) \/ GivesUp(p)
  <1>. DEFINE Goal == Keeps \/ Extends \/ \E p \in Procs : Takes(p) \/ Tells(p) \/ GivesUp(p)
  <1>. SUFFICES Goal
    OBVIOUS
  <1>0. Reader \in Procs /\ Closer \in Procs /\ Callbacks \subseteq Procs
    BY DEF Procs
  <1>1. CASE UNCHANGED <<latest, committed, growing, received, finalizeCh, delta, timedOut>> /\ (stopped => stopped')
    BY <1>1 DEF Keeps, Texts, Told, StaysExcused
  <1>2. ASSUME NEW p \in Procs, NEW f, NEW t, NEW u, Commit(p, f, t, u), f \notin Sending,
               UNCHANGED <<outVars, stopped>>
        PROVE  Goal
    <2>1. pc[p] = f
      BY <1>2 DEF Commit, Goto
    <2>2. Takes(p)
      BY <1>2, <2>1 DEF Commit, Takes, Committed, outVars, Told, StaysExcused
    <2>. QED
      BY <2>2
  <1>3. ASSUME NEW p \in Procs, Send(p), UNCHANGED <<received, timedOut, stopped, latest, committed, growing>>
        PROVE  Goal
    <2>1. Tells(p)
      BY <1>3, SendTells DEF Tells, Texts, StaysExcused
    <2>. QED
      BY <2>1
  <1>4. ASSUME NEW p \in Procs, delta' = [delta EXCEPT ![p] = <<>>],
               UNCHANGED <<received, finalizeCh, latest, committed, growing>>, stopped' \/ timedOut'
        PROVE  Goal
    BY <1>4 DEF GivesUp, Texts, Told
  <1>. HIDE DEF Goal
  <1>5. CASE Receive
    <2>1. UNCHANGED <<latest, committed, growing, delta, timedOut, stopped>>
      BY <1>5 DEF Receive, turnVars, connVars
    <2>. QED
      BY <1>5, <2>1, ReceiveTells DEF Goal, Keeps, Texts, StaysExcused
  <1>6. CASE Connect \/ SendVoice \/ Tick \/ UNCHANGED vars
    BY <1>1, <1>6 DEF Connect, SendVoice, Tick, vars, turnVars, connVars, outVars
  <1>7. CASE LoopTop \/ ReadMessage \/ SendPartial \/ RearmTurn
    BY <1>1, <1>7 DEF LoopTop, ReadMessage, SendPartial, RearmTurn, ReaderUnchanged, turnVars,
           connVars, outVars
  <1>8. CASE UpdateTurn
    BY <1>8 DEF UpdateTurn, Longer, ReaderUnchanged, connVars, outVars, Told, Extends, StaysExcused, Goal
  <1>9. CASE FlushTermination
    <2>1. UNCHANGED stopped
      BY <1>9 DEF FlushTermination, ReaderUnchanged, connVars
    <2>2. CASE Commit(Reader, "flush", "flushSend", "top") /\ UNCHANGED outVars
      BY <1>0, <1>2, <2>1, <2>2 DEF Sending
    <2>3. CASE UNCHANGED turnVars /\ Send(Reader) /\ UNCHANGED <<received, timedOut>>
      BY <1>0, <1>3, <2>1, <2>3 DEF turnVars
    <2>4. CASE /\ UNCHANGED turnVars /\ timedOut' = TRUE
               /\ delta' = [delta EXCEPT ![Reader] = <<>>] /\ UNCHANGED <<finalizeCh, received>>
      BY <1>0, <1>4, <2>4 DEF turnVars
    <2>5. CASE UNCHANGED <<turnVars, delta, outVars>>
      BY <1>1, <2>1, <2>5 DEF turnVars, outVars
    <2>. QED
      BY <1>9, <2>2, <2>3, <2>4, <2>5 DEF FlushTermination
  <1>10. ASSUME NEW c \in Callbacks, TimerFires(c) \/ FinalizeDueToSilence(c) PROVE Goal
    <2>0. c \in Procs /\ UNCHANGED stopped
      BY <1>0, <1>10 DEF TimerFires, FinalizeDueToSilence, CheckStopCh, FirstCheck, RearmSilence,
             SecondCheck, SendDelta, CallbackUnchanged, connVars
    <2>1. CASE TimerFires(c) \/ CheckStopCh(c) \/ FirstCheck(c) \/ RearmSilence(c)
      BY <1>1, <2>0, <2>1 DEF TimerFires, CheckStopCh, FirstCheck, RearmSilence, turnVars, outVars
    <2>2. CASE SecondCheck(c)
      <3>1. CASE Changed(c)
        BY <1>1, <2>0, <2>2, <3>1 DEF SecondCheck, turnVars, outVars
      <3>2. CASE ~ Changed(c)
        <4>1. Commit(c, "sleep", "send", "idle") /\ UNCHANGED outVars
          BY <2>2, <3>2 DEF SecondCheck
        <4>. QED
          BY <1>2, <2>0, <4>1 DEF Sending
      <3>. QED
        BY <3>1, <3>2
    <2>3. CASE SendDelta(c)
      <3>1. UNCHANGED turnVars
        BY <2>3 DEF SendDelta
      <3>2. CASE Send(c) /\ UNCHANGED <<received, timedOut>>
        BY <1>3, <2>0, <3>1, <3>2 DEF turnVars
      <3>3. CASE stopped /\ delta' = [delta EXCEPT ![c] = <<>>] /\ UNCHANGED outVars
        BY <1>4, <2>0, <3>1, <3>3 DEF turnVars, outVars
      <3>4. CASE UNCHANGED <<delta, outVars>>
        BY <1>1, <2>0, <3>1, <3>4 DEF turnVars, outVars
      <3>. QED
        BY <2>3, <3>2, <3>3, <3>4 DEF SendDelta, Abandons
    <2>. QED
      BY <1>10, <2>1, <2>2, <2>3 DEF FinalizeDueToSilence
  <1>11. CASE Close
    <2>1. CASE CloseStopCh \/ ClearTimer \/ Terminate \/ CloseConn \/ CloseChannels
      BY <1>1, <2>1 DEF CloseStopCh, ClearTimer, Terminate, CloseConn, CloseChannels, StopChClosed, turnVars, outVars
    <2>2. CASE FlushPendingDelta
      <3>1. UNCHANGED stopped
        BY <2>2 DEF FlushPendingDelta
      <3>2. CASE Commit(Closer, "flush", "flushSend", "chans") /\ UNCHANGED outVars
        BY <1>0, <1>2, <3>1, <3>2 DEF Sending
      <3>3. CASE UNCHANGED turnVars /\ Send(Closer) /\ UNCHANGED <<received, timedOut>>
        BY <1>0, <1>3, <3>1, <3>3 DEF turnVars
      <3>4. CASE /\ UNCHANGED turnVars /\ timedOut' = TRUE
                 /\ delta' = [delta EXCEPT ![Closer] = <<>>] /\ UNCHANGED <<finalizeCh, received>>
        BY <1>0, <1>4, <3>4 DEF turnVars
      <3>. QED
        BY <2>2, <3>2, <3>3, <3>4 DEF FlushPendingDelta
    <2>. QED
      BY <1>11, <2>1, <2>2 DEF Close
  <1>. QED
    BY <1>5, <1>6, <1>7, <1>8, <1>9, <1>10, <1>11 DEF Next, HandleMessages

\* Under Prefix, what is new continues what is committed.
LEMMA PendingContinues ==
  ASSUME TypeTurn, Prefix
  PROVE  /\ Pending \in Seq(Nat) /\ Len(Pending) = Len(latest) - Len(committed)
         /\ \A j \in DOMAIN Pending : Pending[j] = Len(committed) + j
  <1>. DEFINE m == Len(committed)
              n == Len(latest)
  <1>1. latest \in Seq(Nat) /\ committed \in Seq(Nat) /\ m \in Nat /\ n \in Nat /\ m <= n
        /\ DOMAIN latest = 1..n /\ DOMAIN committed = 1..m
    BY LenProperties DEF TypeTurn, Prefix
  <1>. HIDE DEF m, n
  <1>2. \A k \in 1..m : k \in 1..n
    BY <1>1
  <1>3. /\ SubSeq(committed, 1, m) \in Seq(Nat) /\ Len(SubSeq(committed, 1, m)) = m
        /\ \A k \in 1..m : SubSeq(committed, 1, m)[k] = committed[k]
    BY <1>1, ElementOfSeq, SubSeqProperties
  <1>4. /\ SubSeq(latest, 1, m) \in Seq(Nat) /\ Len(SubSeq(latest, 1, m)) = m
        /\ \A k \in 1..m : SubSeq(latest, 1, m)[k] = latest[k]
    BY <1>1, <1>2, ElementOfSeq, SubSeqProperties
  <1>5. \A k \in 1..m : committed[k] = latest[k]
    BY <1>1, <1>2 DEF Prefix, Counts
  <1>6. SubSeq(committed, 1, m) = SubSeq(latest, 1, m)
    BY <1>1, <1>3, <1>4, <1>5, SeqEqual
  <1>7. Pending = SubSeq(latest, m + 1, n)
    BY <1>1, <1>6 DEF Pending, Fresh, IsPrefix, m, n
  <1>8. /\ \A k \in m + 1..n : k \in 1..n
        /\ m + 1 \in Int /\ n \in Int /\ m + 1 <= n + 1 /\ n - (m + 1) + 1 = n - m
    BY <1>1
  <1>9. /\ SubSeq(latest, m + 1, n) \in Seq(Nat) /\ Len(SubSeq(latest, m + 1, n)) = n - m
        /\ \A j \in 1..(n - m) : SubSeq(latest, m + 1, n)[j] = latest[m + 1 + j - 1]
    BY <1>1, <1>8, ElementOfSeq, SubSeqProperties
  <1>10. \A j \in 1..(n - m) : m + 1 + j - 1 = m + j /\ m + j \in 1..n
    BY <1>1
  <1>11. DOMAIN SubSeq(latest, m + 1, n) = 1..(n - m)
    BY <1>1, <1>9, LenProperties
  <1>12. \A j \in 1..(n - m) : SubSeq(latest, m + 1, n)[j] = m + j
    BY <1>1, <1>9, <1>10 DEF Prefix, Counts
  <1>. QED
    BY <1>7, <1>9, <1>11, <1>12 DEF m, n

\* What a counting sequence holds.
LEMMA CountsTo ==
  ASSUME NEW s \in Seq(Nat), Counts(s)
  PROVE  ToSet(s) = 1..Len(s)
  BY LenProperties DEF Counts, ToSet

\* What is committed and what is new are apart, and are together the transcript.
LEMMA PendingIsNew ==
  ASSUME TypeTurn, Prefix
  PROVE  /\ ToSet(committed) \cap ToSet(Pending) = {} /\ Distinct(Pending)
         /\ ToSet(latest) = ToSet(committed) \cup ToSet(Pending)
  <1>. DEFINE m == Len(committed)
              n == Len(latest)
  <1>1. /\ latest \in Seq(Nat) /\ committed \in Seq(Nat) /\ m \in Nat /\ n \in Nat /\ m <= n
        /\ Pending \in Seq(Nat) /\ Len(Pending) = n - m
    BY PendingContinues, LenProperties DEF TypeTurn, Prefix
  <1>2. ToSet(committed) = 1..m /\ ToSet(latest) = 1..n
    BY <1>1, CountsTo DEF Prefix
  <1>. HIDE DEF m, n
  <1>3. DOMAIN Pending = 1..(n - m)
    BY <1>1, LenProperties
  <1>4. \A j \in 1..(n - m) : Pending[j] = m + j
    BY <1>3, PendingContinues DEF m, n
  <1>5. \A x \in m + 1..n : x - m \in 1..(n - m) /\ x = m + (x - m)
    BY <1>1
  <1>6. \A j \in 1..(n - m) : m + j \in m + 1..n
    BY <1>1
  <1>7. ToSet(Pending) = m + 1..n
    <2>1. \A x \in m + 1..n : \E j \in 1..(n - m) : x = Pending[j]
      BY <1>4, <1>5
    <2>2. \A j \in 1..(n - m) : Pending[j] \in m + 1..n
      BY <1>4, <1>6
    <2>. QED
      BY <1>3, <2>1, <2>2 DEF ToSet
  <1>8. (1..m) \cap (m + 1..n) = {} /\ 1..n = (1..m) \cup (m + 1..n)
    BY <1>1
  <1>9. Distinct(Pending)
    BY <1>1, <1>3, <1>4 DEF Distinct
  <1>. QED
    BY <1>2, <1>7, <1>8, <1>9

\* What is in flight when one delta changes.
LEMMA InFlightChanges ==
  ASSUME TypeOut, NEW p \in Procs, NEW d, delta' = [delta EXCEPT ![p] = d]
  PROVE  /\ InFlight = Others(p) \cup ToSet(delta[p]) /\ InFlight' = Others(p) \cup ToSet(d)
         /\ delta'[p] = d /\ \A q \in Procs \ {p} : delta'[q] = delta[q]
  <1>1. delta'[p] = d /\ \A q \in Procs \ {p} : delta'[q] = delta[q]
    BY DEF TypeOut
  <1>2. InFlight' = UNION {ToSet(delta'[q]) : q \in Procs}
    BY DEF InFlight
  <1>3. UNION {ToSet(delta'[q]) : q \in Procs} = Others(p) \cup ToSet(d)
    BY <1>1 DEF Others
  <1>4. InFlight = Others(p) \cup ToSet(delta[p])
    BY DEF InFlight, Others
  <1>. QED
    BY <1>1, <1>2, <1>3, <1>4

\* The empty sequence has no word, and none twice.
LEMMA NoWords == ToSet(<<>>) = {} /\ Distinct(<<>>)
  BY DEF ToSet, Distinct

\* Appending words that are new keeps every word in one place.
LEMMA AppendWords ==
  ASSUME NEW s \in Seq(Seq(Nat)), NEW d \in Seq(Nat)
  PROVE  /\ WordsOf(Append(s, d)) = WordsOf(s) \cup ToSet(d)
         /\ AllDistinct(s) /\ Distinct(d) /\ WordsOf(s) \cap ToSet(d) = {} => AllDistinct(Append(s, d))
  <1>. DEFINE a == Append(s, d)
              n == Len(s)
  <1>1. /\ n \in Nat /\ DOMAIN s = 1..n /\ DOMAIN a = 1..(n + 1) /\ a[n + 1] = d
        /\ \A k \in 1..n : a[k] = s[k]
    BY LenProperties, AppendProperties
  <1>. HIDE DEF a, n
  <1>2. \A k \in 1..(n + 1) : k \in 1..n \/ k = n + 1
    BY <1>1
  <1>3. \A k \in 1..n : k \in 1..(n + 1) /\ k # n + 1
    BY <1>1
  <1>4. n + 1 \in 1..(n + 1)
    BY <1>1
  <1>5. WordsOf(a) = WordsOf(s) \cup ToSet(d)
    <2>1. \A k \in 1..(n + 1) : ToSet(a[k]) \subseteq WordsOf(s) \cup ToSet(d)
      BY <1>1, <1>2 DEF WordsOf
    <2>2. \A k \in 1..n : ToSet(s[k]) \subseteq WordsOf(a)
      BY <1>1, <1>3 DEF WordsOf
    <2>3. ToSet(d) \subseteq WordsOf(a)
      BY <1>1, <1>4 DEF WordsOf
    <2>4. WordsOf(a) \subseteq WordsOf(s) \cup ToSet(d)
      BY <1>1, <2>1 DEF WordsOf
    <2>5. WordsOf(s) \subseteq WordsOf(a)
      BY <1>1, <2>2 DEF WordsOf
    <2>. QED
      BY <2>3, <2>4, <2>5
  <1>6. ASSUME AllDistinct(s), Distinct(d), WordsOf(s) \cap ToSet(d) = {} PROVE AllDistinct(a)
    <2>. SUFFICES ASSUME NEW i \in DOMAIN a, NEW k \in DOMAIN a, NEW x \in DOMAIN a[i],
                         NEW y \in DOMAIN a[k], a[i][x] = a[k][y]
                  PROVE  i = k /\ x = y
      BY DEF AllDistinct
    <2>0. i \in 1..n \/ i = n + 1
      BY <1>1, <1>2
    <2>00. k \in 1..n \/ k = n + 1
      BY <1>1, <1>2
    <2>1. CASE i \in 1..n /\ k \in 1..n
      BY <1>1, <1>6, <2>1 DEF AllDistinct
    <2>2. CASE i = n + 1 /\ k = n + 1
      BY <1>1, <1>6, <2>2 DEF Distinct
    <2>3. CASE i \in 1..n /\ k = n + 1
      <3>1. a[i][x] \in WordsOf(s) /\ a[k][y] \in ToSet(d)
        BY <1>1, <2>3 DEF WordsOf, ToSet
      <3>. QED
        BY <1>6, <3>1
    <2>4. CASE i = n + 1 /\ k \in 1..n
      <3>1. a[k][y] \in WordsOf(s) /\ a[i][x] \in ToSet(d)
        BY <1>1, <2>4 DEF WordsOf, ToSet
      <3>. QED
        BY <1>6, <3>1
    <2>. QED
      BY <2>0, <2>00, <2>1, <2>2, <2>3, <2>4
  <1>. QED
    BY <1>5, <1>6 DEF a

\* The five kinds of steps keep the words in place.
LEMMA KeepsWords ==
  ASSUME Words, Keeps
  PROVE  Words'
  <1>1. Told' = Told /\ delta' = delta /\ UNCHANGED <<latest, committed, growing>>
        /\ (~stopped' /\ ~timedOut' => ~stopped /\ ~timedOut)
    BY DEF Keeps, Texts, StaysExcused
  <1>2. Sent' = Sent /\ InFlight' = InFlight
    BY <1>1 DEF Sent, InFlight
  <1>. QED
    BY <1>1, <1>2 DEF Words, Prefix, OneEach, Accounted

\* A transcript that grows keeps the words told a prefix of it.
LEMMA ExtendsWords ==
  ASSUME TypeOK, Words, Extends
  PROVE  Words'
  <1>. SUFFICES ASSUME growing' PROVE Prefix' /\ OneEach' /\ Accounted'
    BY DEF Words
  <1>1. /\ Told' = Told /\ delta' = delta /\ committed' = committed
        /\ growing /\ latest' \in {latest, Append(latest, Len(latest) + 1)}
        /\ (~stopped' /\ ~timedOut' => ~stopped /\ ~timedOut)
    BY DEF Extends, StaysExcused
  <1>2. Sent' = Sent /\ InFlight' = InFlight
    BY <1>1 DEF Sent, InFlight
  <1>3. OneEach' /\ Accounted'
    BY <1>1, <1>2 DEF Words, OneEach, Accounted
  <1>4. Counts(latest') /\ Len(latest) <= Len(latest')
    <2>1. latest \in Seq(Nat) /\ Len(latest) \in Nat /\ DOMAIN latest = 1..Len(latest)
      BY LenProperties DEF TypeOK, TypeTurn
    <2>2. CASE latest' = latest
      BY <1>1, <2>1, <2>2 DEF Words, Prefix, Counts
    <2>3. CASE latest' = Append(latest, Len(latest) + 1)
      <3>1. /\ Len(latest') = Len(latest) + 1 /\ DOMAIN latest' = 1..(Len(latest) + 1)
            /\ latest'[Len(latest) + 1] = Len(latest) + 1
            /\ \A k \in 1..Len(latest) : latest'[k] = latest[k]
        BY <2>1, <2>3, AppendProperties, LenProperties
      <3>2. \A k \in 1..(Len(latest) + 1) : k \in 1..Len(latest) \/ k = Len(latest) + 1
        BY <2>1
      <3>. QED
        BY <1>1, <2>1, <3>1, <3>2 DEF Words, Prefix, Counts
    <2>. QED
      BY <1>1, <2>2, <2>3
  <1>5. Prefix'
    <2>1. Counts(committed) /\ Len(committed) <= Len(latest)
      BY <1>1 DEF Words, Prefix
    <2>2. Len(committed) \in Nat /\ Len(latest) \in Nat
      BY LenProperties DEF TypeOK, TypeTurn
    <2>3. Len(latest') \in Nat
      BY <1>1, <2>2, AppendProperties DEF TypeOK, TypeTurn
    <2>. QED
      BY <1>1, <1>4, <2>1, <2>2, <2>3 DEF Prefix
  <1>. QED
    BY <1>3, <1>5

\* A commit moves what is new from the transcript to a delta that was empty, or to one that
\* nobody will miss after a stop.
LEMMA TakesWords ==
  ASSUME TypeOK, Stages, Words, NEW p \in Procs, Takes(p)
  PROVE  Words'
  <1>. SUFFICES ASSUME growing' PROVE Prefix' /\ OneEach' /\ Accounted'
    BY DEF Words
  <1>1. /\ Told' = Told /\ delta' = [delta EXCEPT ![p] = Pending] /\ committed' = latest
        /\ latest' = latest /\ growing /\ pc[p] \notin Sending
        /\ (~stopped' /\ ~timedOut' => ~stopped /\ ~timedOut)
    BY DEF Takes, StaysExcused
  <1>2. Prefix /\ OneEach /\ Accounted
    BY <1>1 DEF Words
  <1>3. /\ InFlight = Others(p) \cup ToSet(delta[p]) /\ InFlight' = Others(p) \cup ToSet(Pending)
        /\ delta'[p] = Pending /\ \A q \in Procs \ {p} : delta'[q] = delta[q]
    BY <1>1, InFlightChanges DEF TypeOK
  <1>4. /\ ToSet(committed) \cap ToSet(Pending) = {} /\ Distinct(Pending)
        /\ ToSet(latest) = ToSet(committed) \cup ToSet(Pending)
    BY <1>2, PendingIsNew DEF TypeOK
  <1>5. Sent' = Sent
    BY <1>1 DEF Sent
  <1>6. Prefix'
    <2>1. Len(latest) \in Nat
      BY LenProperties DEF TypeOK, TypeTurn
    <2>. QED
      BY <1>1, <1>2, <2>1 DEF Prefix
  <1>7. Sent' \cup InFlight' \subseteq ToSet(committed')
    BY <1>1, <1>2, <1>3, <1>4, <1>5 DEF Accounted
  <1>8. ~stopped' /\ ~timedOut' => ToSet(committed') \subseteq Sent' \cup InFlight'
    <2>. SUFFICES ASSUME ~stopped', ~timedOut' PROVE ToSet(committed') \subseteq Sent' \cup InFlight'
      OBVIOUS
    <2>1. delta[p] = <<>>
      BY <1>1 DEF Stages
    <2>. QED
      BY <1>1, <1>2, <1>3, <1>4, <1>5, <2>1, NoWords DEF Accounted
  <1>9. OneEach'
    <2>1. Sent' \cap InFlight' = {}
      BY <1>2, <1>3, <1>4, <1>5 DEF OneEach, Accounted
    <2>2. \A q \in Procs \ {p} : ToSet(delta[q]) \cap ToSet(Pending) = {}
      BY <1>2, <1>3, <1>4 DEF Accounted, Others
    <2>3. \A q, r \in Procs : q # r => ToSet(delta'[q]) \cap ToSet(delta'[r]) = {}
      BY <1>2, <1>3, <2>2 DEF OneEach
    <2>4. \A q \in Procs : Distinct(delta'[q])
      BY <1>2, <1>3, <1>4 DEF OneEach
    <2>. QED
      BY <1>1, <1>2, <2>1, <2>3, <2>4 DEF OneEach
  <1>. QED
    BY <1>6, <1>7, <1>8, <1>9 DEF Accounted

\* A send moves a delta to what was told, where its words are new.
LEMMA TellsWords ==
  ASSUME TypeOK, Words, NEW p \in Procs, Tells(p)
  PROVE  Words'
  <1>. SUFFICES ASSUME growing' PROVE Prefix' /\ OneEach' /\ Accounted'
    BY DEF Words
  <1>1. /\ Told' = Append(Told, delta[p]) /\ delta' = [delta EXCEPT ![p] = <<>>]
        /\ UNCHANGED <<latest, committed, growing>> /\ growing
        /\ (~stopped' /\ ~timedOut' => ~stopped /\ ~timedOut)
    BY DEF Tells, Texts, StaysExcused
  <1>2. Prefix /\ OneEach /\ Accounted
    BY <1>1 DEF Words
  <1>3. /\ InFlight = Others(p) \cup ToSet(delta[p]) /\ InFlight' = Others(p) \cup ToSet(<<>>)
        /\ delta'[p] = <<>> /\ \A q \in Procs \ {p} : delta'[q] = delta[q]
    BY <1>1, InFlightChanges DEF TypeOK
  <1>4. Told \in Seq(Seq(Nat)) /\ delta[p] \in Seq(Nat)
    BY ToldType DEF TypeOK, TypeOut
  <1>5. Sent = WordsOf(Told) /\ Sent' = WordsOf(Told')
    BY DEF Sent, WordsOf
  <1>6. Sent' = Sent \cup ToSet(delta[p])
    BY <1>1, <1>4, <1>5, AppendWords
  <1>7. AllDistinct(Told')
    <2>1. WordsOf(Told) \cap ToSet(delta[p]) = {} /\ AllDistinct(Told) /\ Distinct(delta[p])
      BY <1>2, <1>3, <1>5 DEF OneEach
    <2>. QED
      BY <1>1, <1>4, <2>1, AppendWords
  <1>8. Others(p) \cap ToSet(delta[p]) = {}
    BY <1>2 DEF OneEach, Others
  <1>9. OneEach'
    <2>1. Sent' \cap InFlight' = {}
      BY <1>2, <1>3, <1>6, <1>8, NoWords DEF OneEach
    <2>2. \A q, r \in Procs : q # r => ToSet(delta'[q]) \cap ToSet(delta'[r]) = {}
      BY <1>2, <1>3, NoWords DEF OneEach
    <2>3. \A q \in Procs : Distinct(delta'[q])
      BY <1>2, <1>3, NoWords DEF OneEach
    <2>. QED
      BY <1>7, <2>1, <2>2, <2>3 DEF OneEach
  <1>10. Sent' \cup InFlight' = Sent \cup InFlight
    BY <1>3, <1>6, NoWords
  <1>. QED
    BY <1>1, <1>2, <1>9, <1>10 DEF Prefix, Accounted

\* A delta is dropped only when the service stops or a callback has timed out.
LEMMA GivesUpWords ==
  ASSUME TypeOK, Words, NEW p \in Procs, GivesUp(p)
  PROVE  Words'
  <1>. SUFFICES ASSUME growing' PROVE Prefix' /\ OneEach' /\ Accounted'
    BY DEF Words
  <1>1. /\ Told' = Told /\ delta' = [delta EXCEPT ![p] = <<>>]
        /\ UNCHANGED <<latest, committed, growing>> /\ growing /\ (stopped' \/ timedOut')
    BY DEF GivesUp, Texts
  <1>2. Prefix /\ OneEach /\ Accounted
    BY <1>1 DEF Words
  <1>3. /\ InFlight = Others(p) \cup ToSet(delta[p]) /\ InFlight' = Others(p) \cup ToSet(<<>>)
        /\ delta'[p] = <<>> /\ \A q \in Procs \ {p} : delta'[q] = delta[q]
    BY <1>1, InFlightChanges DEF TypeOK
  <1>4. Sent' = Sent /\ InFlight' \subseteq InFlight
    BY <1>1, <1>3, NoWords DEF Sent
  <1>5. OneEach'
    <2>1. \A q, r \in Procs : q # r => ToSet(delta'[q]) \cap ToSet(delta'[r]) = {}
      BY <1>2, <1>3, NoWords DEF OneEach
    <2>2. \A q \in Procs : Distinct(delta'[q])
      BY <1>2, <1>3, NoWords DEF OneEach
    <2>. QED
      BY <1>1, <1>2, <1>4, <2>1, <2>2 DEF OneEach
  <1>. QED
    BY <1>1, <1>2, <1>4, <1>5 DEF Prefix, Accounted

\* Each of the kinds of step keeps the words accounted for.
LEMMA StepWords == Words /\ TypeOK /\ Stages /\ OpenUntilClosing /\ [Next]_vars => Words'
  <1>. SUFFICES ASSUME Words, TypeOK, Stages, OpenUntilClosing, [Next]_vars PROVE Words'
    OBVIOUS
  <1>1. Keeps \/ Extends \/ \E p \in Procs : Takes(p) \/ Tells(p) \/ GivesUp(p)
    BY WordSteps
  <1>. QED
    BY <1>1, KeepsWords, ExtendsWords, TakesWords, TellsWords, GivesUpWords

\* In every reachable state the words committed are those told and those under way.
LEMMA WordsInvariant == Spec => []Words
  <1>1. Init => Words
    <2>. SUFFICES ASSUME Init PROVE Prefix /\ OneEach /\ Accounted
      BY DEF Words
    <2>1. Told = <<>> \o <<>> /\ latest = <<>> /\ committed = <<>> /\ \A p \in Procs : delta[p] = <<>>
      BY DEF Init, Told
    <2>2. Len(Told) = 0 /\ DOMAIN Told = {} /\ Len(latest) = 0 /\ DOMAIN latest = {}
      BY <2>1, EmptySeq, ConcatEmptySeq
    <2>3. Sent = {} /\ InFlight = {}
      BY <2>1, <2>2, NoWords DEF Sent, InFlight
    <2>4. Prefix
      BY <2>1, <2>2 DEF Prefix, Counts
    <2>5. OneEach
      BY <2>1, <2>2, <2>3, NoWords DEF OneEach, AllDistinct
    <2>. QED
      BY <2>1, <2>3, <2>4, <2>5, NoWords DEF Accounted
  <1>. QED
    BY <1>1, StepWords, StagesInvariant, OpenInvariant, PTL DEF Spec

(* Until a stop or a timeout excuses it, every committed word reached the  *)
(* session, waits in finalizeCh or is about to be sent: no send is dropped *)
(* (assemblyai.go:374-384), and a flush loses none (397-404).             *)
THEOREM NoneLost == Spec => []NoWordLost
  <1>1. Words => NoWordLost
    BY DEF Words, Accounted, NoWordLost
  <1>. QED
    BY <1>1, WordsInvariant, PTL

(* However callbacks, a Termination and Close interleave, no word is       *)
(* finalized by two of them: each commits what is new under accMu.         *)
THEOREM NoneTwice == Spec => []NoWordTwice
  <1>1. Words => NoWordTwice
    BY DEF Words, OneEach, AllDistinct, NoWordTwice
  <1>. QED
    BY <1>1, WordsInvariant, PTL
=============================================================================
