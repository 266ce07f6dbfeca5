---------------------------- MODULE SessionProofs ----------------------------
(***************************************************************************)
(* Proofs about Session for every set of callers of BargeIn, every number  *)
(* of utterances and chunks and all capacities.  The inductive invariant   *)
(* is TypeOK /\ BargeInv /\ HistoryInv; each part has a lemma that follows *)
(* the actions able to disturb it, and the last step of a lemma dismisses  *)
(* the other actions, which leave the part's variables unchanged.          *)
(***************************************************************************)
EXTENDS Session, TLAPS

\* A step keeps the types of the loop's inputs.
LEMMA StepTypeInputs == TypeOK /\ [Next]_vars => TypeInputs'
  <1>. SUFFICES ASSUME TypeOK, [Next]_vars PROVE TypeInputs'
    OBVIOUS
  <1>. USE DEF TypeOK, TypeInputs, inVars
  <1>1. CASE Finalized
    BY <1>1 DEF Finalized, Blank
  <1>2. CASE Stop
    BY <1>2 DEF Stop
  <1>3. CASE CancelCtx
    BY <1>3 DEF CancelCtx
  <1>4. CASE Receive
    BY <1>4 DEF Receive
  <1>5. CASE UNCHANGED <<inVars>>
    BY <1>5
  <1>. QED
    BY <1>1, <1>2, <1>3, <1>4, <1>5 DEF Next, Loop, BargeStep, vars, LoopStops, Ask, NoReply,
       Reply, BeginTurn, Announce, NextChunk, NoMoreChunks, ReceivePCM, StreamCase, Write,
       EndChunk, EndTurn, Release, FlushTail, Record, Synthesize, StreamEnds, Play, WantBarge,
       BargeLock, BargeCancel, BargeReset, ResetAgain

\* A step keeps the types of the loop's own state.
LEMMA StepTypeLoop == TypeOK /\ [Next]_vars => TypeLoop'
  <1>. SUFFICES ASSUME TypeOK, [Next]_vars PROVE TypeLoop'
    OBVIOUS
  <1>. USE DEF TypeOK, TypeInputs, TypeLoop, TypeBarge, LoopPC, loopVars
  <1>1. CASE Receive
    BY <1>1 DEF Receive
  <1>2. CASE LoopStops
    BY <1>2 DEF LoopStops
  <1>3. CASE Ask
    BY <1>3 DEF Ask
  <1>4. CASE NoReply
    BY <1>4 DEF NoReply
  <1>5. CASE Reply
    BY <1>5 DEF Reply
  <1>6. CASE BeginTurn
    BY <1>6 DEF BeginTurn
  <1>7. CASE Announce
    BY <1>7 DEF Announce
  <1>8. CASE NextChunk
    <2>1. i + 1 \in Nat
      OBVIOUS
    <2>. QED
      BY <1>8, <2>1 DEF NextChunk
  <1>9. CASE NoMoreChunks
    BY <1>9 DEF NoMoreChunks
  <1>10. CASE ReceivePCM
    BY <1>10 DEF ReceivePCM
  <1>11. CASE StreamCase
    BY <1>11 DEF StreamCase
  <1>12. CASE Write
    BY <1>12 DEF Write, SinkHasRoom, Buffers
  <1>13. CASE EndChunk
    <2>1. Append(spoken, <<turn, i>>) \in Seq(Buffers)
      BY DEF Buffers
    <2>2. spoken' \in Seq(Buffers)
      BY <1>13, <2>1 DEF EndChunk
    <2>. QED
      BY <1>13, <2>2 DEF EndChunk
  <1>14. CASE EndTurn
    BY <1>14 DEF EndTurn, EndsSpeaking, NoTurn
  <1>15. CASE Release
    BY <1>15 DEF Release
  <1>16. CASE FlushTail
    BY <1>16 DEF FlushTail, SinkHasRoom, Silence, Buffers
  <1>17. CASE Record
    BY <1>17 DEF Record
  <1>18. CASE UNCHANGED <<loopVars>>
    BY <1>18
  <1>. QED
    BY <1>1, <1>2, <1>3, <1>4, <1>5, <1>6, <1>7, <1>8, <1>9, <1>10, <1>11, <1>12, <1>13, <1>14,
       <1>15, <1>16, <1>17, <1>18 DEF Next, Loop, BargeStep, vars, Finalized, Stop, CancelCtx,
       Synthesize, StreamEnds, Play, WantBarge, BargeLock, BargeCancel, BargeReset, ResetAgain

\* A step keeps the types of the history and of the onTurn arguments.
LEMMA StepTypeRecords == TypeOK /\ [Next]_vars => TypeRecords'
  <1>. SUFFICES ASSUME TypeOK, [Next]_vars PROVE TypeRecords'
    OBVIOUS
  <1>. USE DEF TypeOK, TypeLoop, TypeRecords, recVars
  <1>1. CASE Record
    <2>1. UserText(prompt) \in Texts /\ AssistantText(spoken) \in Texts
      BY DEF Texts, UserText, AssistantText
    <2>2. Exchange(history, prompt, spoken) \in Seq(Texts)
      BY <2>1 DEF Exchange
    <2>3. history' \in Seq(Texts)
      BY <1>1, <2>2 DEF Record
    <2>4. turns' \in Seq([user : Nat, spoken : Seq(Buffers), interrupted : BOOLEAN])
      BY <1>1 DEF Record
    <2>. QED
      BY <2>3, <2>4
  <1>2. CASE UNCHANGED <<recVars>>
    BY <1>2
  <1>. QED
    BY <1>1, <1>2 DEF Next, Loop, BargeStep, vars, Finalized, Stop, CancelCtx, Receive,
       LoopStops, Ask, NoReply, Reply, BeginTurn, Announce, NextChunk, NoMoreChunks, ReceivePCM,
       StreamCase, Write, EndChunk, EndTurn, Release, FlushTail, Synthesize, StreamEnds, Play,
       WantBarge, BargeLock, BargeCancel, BargeReset, ResetAgain

\* A step keeps the types of the fields under s.mu and of the calls of BargeIn.
LEMMA StepTypeBarge == TypeOK /\ [Next]_vars => TypeBarge'
  <1>. SUFFICES ASSUME TypeOK, [Next]_vars PROVE TypeBarge'
    OBVIOUS
  <1>. USE DEF TypeOK, TypeLoop, TypeBarge, BargerPC, flagVars, bargeVars
  <1>1. CASE BeginTurn
    <2>1. turn + 1 \in Nat
      OBVIOUS
    <2>. QED
      BY <1>1, <2>1 DEF BeginTurn
  <1>2. CASE Announce
    BY <1>2 DEF Announce
  <1>3. CASE EndTurn
    BY <1>3 DEF EndTurn, EndsSpeaking, NoTurn
  <1>4. CASE Release
    BY <1>4 DEF Release
  <1>5. ASSUME NEW b \in Bargers, WantBarge(b) PROVE TypeBarge'
    BY <1>5 DEF WantBarge, Goto
  <1>6. ASSUME NEW b \in Bargers, BargeLock(b) PROVE TypeBarge'
    BY <1>6 DEF BargeLock, Goto
  <1>7. ASSUME NEW b \in Bargers, BargeCancel(b) PROVE TypeBarge'
    BY <1>7 DEF BargeCancel, CancelOf, Goto
  <1>8. ASSUME NEW b \in Bargers, BargeReset(b) PROVE TypeBarge'
    BY <1>8 DEF BargeReset, ClearSink, Goto
  <1>9. ASSUME NEW b \in Bargers, ResetAgain(b) PROVE TypeBarge'
    BY <1>9 DEF ResetAgain, ClearSink, NoTurn, Goto
  <1>10. CASE UNCHANGED <<flagVars, engineSpeaking, cancelled, bargeVars>>
    BY <1>10
  <1>. QED
    BY <1>1, <1>2, <1>3, <1>4, <1>5, <1>6, <1>7, <1>8, <1>9, <1>10 DEF Next, Loop, BargeStep,
       vars, Finalized, Stop, CancelCtx, Receive, LoopStops, Ask, NoReply, Reply, NextChunk,
       NoMoreChunks, ReceivePCM, StreamCase, Write, EndChunk, FlushTail, Record, Synthesize,
       StreamEnds, Play

\* A step keeps the types and the capacities of the stream and of the sink.
LEMMA StepTypeAudio == TypeOK /\ [Next]_vars => TypeAudio'
  <1>. SUFFICES ASSUME TypeOK, [Next]_vars PROVE TypeAudio'
    OBVIOUS
  <1>. USE BoundsAssumption DEF TypeOK, TypeLoop, TypeAudio, ttsVars, sinkVars
  <1>1. CASE NextChunk
    BY <1>1 DEF NextChunk
  <1>2. CASE ReceivePCM
    BY <1>2 DEF ReceivePCM
  <1>3. CASE Write
    BY <1>3 DEF Write, SinkHasRoom, Buffers
  <1>4. CASE FlushTail
    BY <1>4 DEF FlushTail, SinkHasRoom, Silence, Buffers
  <1>5. CASE Synthesize
    BY <1>5 DEF Synthesize
  <1>6. CASE StreamEnds
    BY <1>6 DEF StreamEnds, CloseInOrder
  <1>7. CASE Play
    BY <1>7 DEF Play
  <1>8. ASSUME NEW b \in Bargers, BargeReset(b) PROVE TypeAudio'
    BY <1>8 DEF BargeReset, ClearSink, Goto
  <1>9. ASSUME NEW b \in Bargers, ResetAgain(b) PROVE TypeAudio'
    BY <1>9 DEF ResetAgain, ClearSink, NoTurn, Goto
  <1>10. CASE UNCHANGED <<ttsVars, sinkVars>>
    BY <1>10
  <1>. QED
    BY <1>1, <1>2, <1>3, <1>4, <1>5, <1>6, <1>7, <1>8, <1>9, <1>10 DEF Next, Loop, BargeStep,
       vars, Finalized, Stop, CancelCtx, Receive, LoopStops, Ask, NoReply, Reply, BeginTurn,
       Announce, NoMoreChunks, StreamCase, EndChunk, EndTurn, Release, Record, WantBarge,
       BargeLock, BargeCancel

\* A step keeps the types of the history variables.
LEMMA StepTypeGhosts == TypeOK /\ [Next]_vars => TypeGhosts'
  <1>. SUFFICES ASSUME TypeOK, [Next]_vars PROVE TypeGhosts'
    OBVIOUS
  <1>. USE DEF TypeOK, TypeLoop, TypeBarge, TypeGhosts, ghostVars
  <1>1. CASE BeginTurn
    BY <1>1 DEF BeginTurn
  <1>2. CASE Write
    BY <1>2 DEF Write, SinkHasRoom, Buffers
  <1>3. ASSUME NEW b \in Bargers, BargeLock(b) PROVE TypeGhosts'
    BY <1>3 DEF BargeLock, Goto
  <1>4. ASSUME NEW b \in Bargers, BargeReset(b) PROVE TypeGhosts'
    BY <1>4 DEF BargeReset, ClearSink, Goto
  <1>5. CASE UNCHANGED <<ghostVars>>
    BY <1>5
  <1>. QED
    BY <1>1, <1>2, <1>3, <1>4, <1>5 DEF Next, Loop, BargeStep, vars, Finalized, Stop, CancelCtx,
       Receive, LoopStops, Ask, NoReply, Reply, Announce, NextChunk, NoMoreChunks, ReceivePCM,
       StreamCase, EndChunk, EndTurn, Release, FlushTail, Record, Synthesize, StreamEnds, Play,
       WantBarge, BargeCancel, ResetAgain

\* Every reachable state is well typed; pcmCh and the sink never exceed their capacities.
THEOREM TypeCorrect == Spec => []TypeOK
  <1>1. Init => TypeOK
    <2>. SUFFICES ASSUME Init PROVE TypeOK
      OBVIOUS
    <2>. USE DEF Init
    <2>1. TypeInputs
      <3>1. finalizeCh \in Seq(Nat)
        OBVIOUS
      <3>2. arrived \in Nat /\ closed \in BOOLEAN /\ ctxDone \in BOOLEAN
        OBVIOUS
      <3>. QED
        BY <3>1, <3>2 DEF TypeInputs
    <2>2. TypeLoop
      <3>1. spoken \in Seq(Buffers)
        OBVIOUS
      <3>2. /\ prompt \in Nat /\ turn \in Nat /\ nchunks \in Nat /\ i \in Nat
            /\ pc \in LoopPC
        BY DEF LoopPC, Blank, NoTurn
      <3>3. /\ asked \in BOOLEAN /\ openPCM \in BOOLEAN /\ openErr \in BOOLEAN
            /\ played \in BOOLEAN /\ wasBarged \in BOOLEAN
        OBVIOUS
      <3>. QED
        BY <3>1, <3>2, <3>3 DEF TypeLoop
    <2>3. TypeRecords
      BY DEF TypeRecords
    <2>4. TypeBarge
      BY DEF TypeBarge, BargerPC, NoTurn
    <2>5. TypeAudio
      BY BoundsAssumption DEF TypeAudio
    <2>6. TypeGhosts
      BY DEF TypeGhosts
    <2>. QED
      BY <2>1, <2>2, <2>3, <2>4, <2>5, <2>6 DEF TypeOK
  <1>2. TypeOK /\ [Next]_vars => TypeOK'
    BY StepTypeInputs, StepTypeLoop, StepTypeRecords, StepTypeBarge, StepTypeAudio,
       StepTypeGhosts DEF TypeOK
  <1>. QED
    BY <1>1, <1>2, PTL DEF Spec

----------------------------------------------------------------------------
\* speaking, ttsCancel and the number of recorded turns follow the loop's place.
LEMMA StepFields == TypeOK /\ BargeInv /\ [Next]_vars => FieldsFollowLoop'
  <1>. SUFFICES ASSUME TypeOK, BargeInv, [Next]_vars PROVE FieldsFollowLoop'
    OBVIOUS
  <1>. USE DEF TypeOK, TypeLoop, TypeRecords, TypeBarge, TypeAudio, TypeGhosts, LoopPC, BargeInv,
     InTurn, Closing, NoTurn, FieldsFollowLoop, loopVars, flagVars, recVars
  <1>1. CASE Receive \/ LoopStops \/ Ask \/ NoReply \/ Reply
    <2>1. /\ UNCHANGED <<turn, turns, flagVars>>
          /\ ~InTurn /\ ~Closing /\ ~InTurn' /\ ~Closing'
      BY <1>1 DEF Receive, LoopStops, Ask, NoReply, Reply
    <2>. QED
      BY <2>1
  <1>2. CASE BeginTurn
    BY <1>2 DEF BeginTurn
  <1>3. CASE Announce \/ NextChunk \/ NoMoreChunks \/ ReceivePCM \/ StreamCase \/ EndChunk
    BY <1>3 DEF Announce, NextChunk, NoMoreChunks, ReceivePCM, DropBuffer, StreamCase, EndChunk
  <1>4. CASE Write
    BY <1>4 DEF Write
  <1>5. CASE EndTurn
    BY <1>5 DEF EndTurn, EndsSpeaking
  <1>6. CASE Release \/ FlushTail
    <2>1. UNCHANGED <<turn, turns, flagVars>> /\ Closing /\ Closing' /\ ~InTurn /\ ~InTurn'
      BY <1>6 DEF Release, FlushTail
    <2>. QED
      BY <2>1
  <1>7. CASE Record
    BY <1>7 DEF Record
  <1>8. ASSUME NEW b \in Bargers, BargeLock(b) PROVE FieldsFollowLoop'
    BY <1>8 DEF BargeLock, Goto
  <1>9. CASE UNCHANGED <<pc, turn, turns, flagVars>>
    BY <1>9
  <1>. QED
    BY <1>1, <1>2, <1>3, <1>4, <1>5, <1>6, <1>7, <1>8, <1>9 DEF Next, Loop, BargeStep, vars,
       Finalized, Stop, CancelCtx, Synthesize, StreamEnds, Play, WantBarge, BargeCancel,
       BargeReset, ResetAgain

\* A turn is among the barged ones exactly while its flag, then its wasBarged, says so.
LEMMA StepBarged == TypeOK /\ BargeInv /\ [Next]_vars => BargedTurns'
  <1>. SUFFICES ASSUME TypeOK, BargeInv, [Next]_vars PROVE BargedTurns'
    OBVIOUS
  <1>. USE DEF TypeOK, TypeLoop, TypeRecords, TypeBarge, TypeAudio, TypeGhosts, LoopPC, BargeInv,
     InTurn, Closing, NoTurn, FieldsFollowLoop, BargedTurns, MarkedIffBarged, loopVars, flagVars,
     recVars, ghostVars
  <1>1. CASE Receive \/ LoopStops \/ Ask \/ NoReply \/ Reply
    BY <1>1 DEF Receive, LoopStops, Ask, NoReply, Reply
  <1>2. CASE BeginTurn
    BY <1>2 DEF BeginTurn
  <1>3. CASE Announce \/ NextChunk \/ NoMoreChunks \/ ReceivePCM \/ StreamCase \/ EndChunk
    <2>1. UNCHANGED <<turn, turns, bargeInRequested, barged>> /\ InTurn /\ InTurn' /\ ~Closing'
      BY <1>3 DEF Announce, NextChunk, NoMoreChunks, ReceivePCM, StreamCase, EndChunk
    <2>. QED
      BY <2>1
  <1>4. CASE Write
    BY <1>4 DEF Write
  <1>5. CASE EndTurn
    BY <1>5 DEF EndTurn, EndsSpeaking
  <1>6. CASE Release \/ FlushTail
    <2>1. /\ UNCHANGED <<turn, turns, wasBarged, bargeInRequested, barged>>
          /\ Closing /\ Closing' /\ ~InTurn'
      BY <1>6 DEF Release, FlushTail
    <2>. QED
      BY <2>1
  <1>7. CASE Record
    <2>1. /\ UNCHANGED <<turn, barged>> /\ Closing /\ ~InTurn' /\ ~Closing' /\ ~InTurn
          /\ turns' = Append(turns, [user |-> prompt, spoken |-> spoken, interrupted |-> wasBarged])
      BY <1>7 DEF Record
    <2>2. /\ DOMAIN turns' = 1..turn /\ turns'[turn].interrupted = wasBarged
          /\ \A k \in DOMAIN turns : turns'[k] = turns[k]
      BY <2>1
    <2>3. \A k \in DOMAIN turns' : k \in DOMAIN turns \/ k = turn
      BY <2>1, <2>2
    <2>4. turns'[turn].interrupted <=> turn \in barged
      BY <2>1, <2>2
    <2>5. MarkedIffBarged'
      BY <2>1, <2>2, <2>3, <2>4
    <2>. QED
      BY <2>1, <2>5
  <1>8. ASSUME NEW b \in Bargers, BargeLock(b) PROVE BargedTurns'
    <2>1. /\ UNCHANGED <<pc, turn, turns, wasBarged>>
          /\ bargeInRequested' = (bargeInRequested \/ speaking)
          /\ barged' = IF speaking THEN barged \cup {turn} ELSE barged
      BY <1>8 DEF BargeLock
    <2>2. CASE speaking
      <3>1. InTurn /\ ~Closing /\ turn = Len(turns) + 1
        BY <2>2
      <3>2. turn \notin DOMAIN turns
        BY <3>1
      <3>3. barged' = barged \cup {turn} /\ bargeInRequested' /\ UNCHANGED <<pc, turn, turns>>
        BY <2>1, <2>2
      <3>4. \A t \in barged' : 1 <= t /\ t <= turn'
        BY <3>1, <3>3
      <3>5. MarkedIffBarged'
        BY <3>2, <3>3
      <3>. QED
        BY <3>1, <3>3, <3>4, <3>5
    <2>3. CASE ~speaking
      BY <2>1, <2>3
    <2>. QED
      BY <2>2, <2>3
  <1>9. CASE UNCHANGED <<pc, turn, turns, wasBarged, bargeInRequested, barged>>
    BY <1>9
  <1>. QED
    BY <1>1, <1>2, <1>3, <1>4, <1>5, <1>6, <1>7, <1>8, <1>9 DEF Next, Loop, BargeStep, vars,
       Finalized, Stop, CancelCtx, Synthesize, StreamEnds, Play, WantBarge, BargeCancel,
       BargeReset, ResetAgain

\* A captured cancel function, and a finished reset, belong to a barged turn.
LEMMA StepCaptured == TypeOK /\ BargeInv /\ [Next]_vars => CapturedTurns'
  <1>. SUFFICES ASSUME TypeOK, BargeInv, [Next]_vars PROVE CapturedTurns'
    OBVIOUS
  <1>. USE DEF TypeOK, TypeLoop, TypeRecords, TypeBarge, TypeAudio, TypeGhosts, LoopPC, BargeInv,
     InTurn, Closing, NoTurn, FieldsFollowLoop, BargedTurns, CapturedTurns, CancelIsMarked,
     loopVars, flagVars, bargeVars, ghostVars
  <1>1. CASE BeginTurn
    BY <1>1 DEF BeginTurn
  <1>2. CASE EndTurn
    BY <1>2 DEF EndTurn, EndsSpeaking
  <1>3. CASE Release
    BY <1>3 DEF Release
  <1>4. ASSUME NEW b \in Bargers, BargeLock(b) PROVE CapturedTurns'
    BY <1>4 DEF BargeLock, Goto
  <1>5. ASSUME NEW b \in Bargers, BargeCancel(b) PROVE CapturedTurns'
    BY <1>5 DEF BargeCancel, Goto, CancelOf
  <1>6. ASSUME NEW b \in Bargers, BargeReset(b) PROVE CapturedTurns'
    BY <1>6 DEF BargeReset, Goto, ClearSink
  <1>7. ASSUME NEW b \in Bargers, ResetAgain(b) PROVE CapturedTurns'
    BY <1>7 DEF ResetAgain, Goto, ClearSink
  <1>8. CASE UNCHANGED <<turn, speaking, bargeInRequested, captured, cancelled, barged, silenced>>
    BY <1>8
  <1>. QED
    BY <1>1, <1>2, <1>3, <1>4, <1>5, <1>6, <1>7, <1>8 DEF Next, Loop, BargeStep, vars, Finalized,
       Stop, CancelCtx, Receive, LoopStops, Ask, NoReply, Reply, Announce, NextChunk,
       NoMoreChunks, ReceivePCM, StreamCase, Write, EndChunk, FlushTail, Record, Synthesize,
       StreamEnds, Play, WantBarge

\* A write that passed the drop test before the barge-in is the only one after it.
LEMMA StepLateCount == TypeOK /\ BargeInv /\ [Next]_vars => LateCount'
  <1>. SUFFICES ASSUME TypeOK, BargeInv, [Next]_vars PROVE LateCount'
    OBVIOUS
  <1>1. late \in Nat /\ bargeInRequested \in BOOLEAN /\ (bargeInRequested => InTurn) /\ LateCount
    BY DEF TypeOK, TypeGhosts, TypeBarge, BargeInv, FieldsFollowLoop
  <1>. USE DEF LateCount, AtMostOneLateBuffer, InTurn
  <1>2. CASE BeginTurn
    BY <1>2 DEF BeginTurn
  <1>3. CASE Write
    BY <1>1, <1>3 DEF Write, flagVars
  <1>4. CASE ReceivePCM
    BY <1>1, <1>4 DEF ReceivePCM, DropBuffer, flagVars, ghostVars
  <1>5. CASE EndTurn
    BY <1>1, <1>5 DEF EndTurn, ghostVars
  <1>6. CASE \/ Receive \/ LoopStops \/ Ask \/ NoReply \/ Reply
             \/ Announce \/ NextChunk \/ NoMoreChunks \/ StreamCase \/ EndChunk
             \/ Release \/ FlushTail \/ Record
    <2>1. UNCHANGED <<bargeInRequested, late>> /\ (InTurn' => InTurn) /\ pc' # "write"
      BY <1>6 DEF Receive, LoopStops, Ask, NoReply, Reply, Announce, NextChunk, NoMoreChunks,
         StreamCase, EndChunk, Release, FlushTail, Record, flagVars, ghostVars
    <2>. QED
      BY <1>1, <2>1
  <1>7. ASSUME NEW b \in Bargers, BargeLock(b) PROVE LateCount'
    <2>1. UNCHANGED <<pc, late>> /\ bargeInRequested' = (bargeInRequested \/ speaking)
      BY <1>7 DEF BargeLock, loopVars
    <2>. QED
      BY <1>1, <2>1
  <1>8. CASE UNCHANGED <<pc, late, bargeInRequested>>
    BY <1>1, <1>8
  <1>. QED
    BY <1>2, <1>3, <1>4, <1>5, <1>6, <1>7, <1>8 DEF Next, Loop, BargeStep, vars, loopVars, flagVars,
       ghostVars, Finalized, Stop, CancelCtx, Synthesize, StreamEnds, Play, WantBarge, BargeCancel,
       BargeReset, ResetAgain

\* What Append and Tail do to a sequence's elements.
LEMMA AppendElements ==
  ASSUME NEW S, NEW s \in Seq(S), NEW e \in S
  PROVE  /\ DOMAIN s = 1..Len(s) /\ Len(s) \in Nat
         /\ DOMAIN Append(s, e) = 1..Len(s)+1
         /\ \A k \in 1..Len(s) : Append(s, e)[k] = s[k]
         /\ Append(s, e)[Len(s)+1] = e
  OBVIOUS

\* Taking the head of a queue adds no element.
LEMMA TailElements ==
  ASSUME NEW S, NEW s \in Seq(S), s # <<>>
  PROVE  \A k \in DOMAIN Tail(s) : k \in Nat /\ k + 1 \in DOMAIN s /\ Tail(s)[k] = s[k+1]
  OBVIOUS

\* Only the buffer in flight at the barge-in can reach the sink after the reset.
LEMMA StepLateAudio == TypeOK /\ BargeInv /\ [Next]_vars => LateAudio'
  <1>. SUFFICES ASSUME TypeOK, BargeInv, [Next]_vars PROVE LateAudio'
    OBVIOUS
  <1>1. /\ turn \in Nat /\ i \in Nat /\ sink \in Seq(Buffers)
        /\ LateAudio
    BY DEF TypeOK, TypeLoop, TypeAudio, BargeInv
  <1>2. \A t \in silenced : t \in Nat /\ 1 <= t /\ t <= turn
    BY DEF TypeOK, TypeGhosts, BargeInv, CapturedTurns, BargedTurns
  <1>3. InTurn /\ turn \in silenced => bargeInRequested
    BY DEF BargeInv, CapturedTurns, BargedTurns
  <1>. USE DEF LateAudio, SilencedButForOneBuffer, AudioOf
  <1>4. CASE BeginTurn
    <2>1. UNCHANGED <<silenced, sink>> /\ pc' # "write"
      BY <1>4 DEF BeginTurn, sinkVars
    <2>. QED
      BY <1>1, <2>1
  <1>5. CASE \/ Receive \/ LoopStops \/ Ask \/ NoReply \/ Reply
             \/ Announce \/ NextChunk \/ NoMoreChunks \/ StreamCase \/ EndChunk
             \/ EndTurn \/ Release \/ Record
    <2>1. UNCHANGED <<silenced, sink>> /\ pc' # "write"
      BY <1>5 DEF Receive, LoopStops, Ask, NoReply, Reply, Announce, NextChunk, NoMoreChunks,
         StreamCase, EndChunk, EndTurn, Release, Record, sinkVars, ghostVars
    <2>. QED
      BY <1>1, <2>1
  <1>6. CASE ReceivePCM
    <2>1. UNCHANGED <<turn, silenced, sink>> /\ InTurn /\ (pc' = "write" => ~bargeInRequested)
      BY <1>6 DEF ReceivePCM, DropBuffer, InTurn, sinkVars, ghostVars
    <2>2. pc' = "write" => turn \notin silenced
      BY <1>3, <2>1
    <2>. QED
      BY <1>1, <2>1, <2>2
  <1>7. CASE Write
    <2>1. /\ sink' = Append(sink, <<turn, i>>) /\ pc' # "write" /\ UNCHANGED silenced
          /\ turn \in silenced => AudioOf(turn) = {}
      BY <1>1, <1>7 DEF Write
    <2>2. <<turn, i>> \in Buffers
      BY <1>1 DEF Buffers
    <2>3. ASSUME NEW t \in silenced, NEW m \in AudioOf(t)', NEW n \in AudioOf(t)' PROVE m = n
      <3>1. CASE t = turn
        <4>1. \A k \in AudioOf(t)' : k = Len(sink)+1
          BY <1>1, <2>1, <2>2, <3>1, AppendElements
        <4>. QED
          BY <4>1
      <3>2. CASE t # turn
        <4>1. AudioOf(t)' \subseteq AudioOf(t)
          BY <1>1, <2>1, <2>2, <3>2, AppendElements
        <4>. QED
          BY <1>1, <4>1
      <3>. QED
        BY <3>1, <3>2
    <2>. QED
      BY <2>1, <2>3
  <1>8. CASE FlushTail
    <2>1. sink' = Append(sink, Silence) /\ pc' # "write" /\ UNCHANGED silenced
      BY <1>8 DEF FlushTail, ghostVars
    <2>2. Silence \in Buffers /\ Silence[1] = 0
      BY DEF Silence, Buffers
    <2>3. ASSUME NEW t \in silenced PROVE AudioOf(t)' \subseteq AudioOf(t)
      <3>1. t # 0
        BY <1>2
      <3>. QED
        BY <1>1, <2>1, <2>2, <3>1, AppendElements
    <2>. QED
      BY <1>1, <2>1, <2>3
  <1>9. CASE Play
    <2>1. sink # <<>> /\ sink' = Tail(sink) /\ UNCHANGED <<pc, turn, silenced>>
      BY <1>9 DEF Play, loopVars, ghostVars
    <2>2. ASSUME NEW t, NEW k \in AudioOf(t)' PROVE k \in Nat /\ k + 1 \in AudioOf(t)
      BY <1>1, <2>1, TailElements
    <2>3. ASSUME NEW t \in silenced, NEW m \in AudioOf(t)', NEW n \in AudioOf(t)' PROVE m = n
      <3>1. m \in Nat /\ n \in Nat /\ m + 1 = n + 1
        BY <1>1, <2>2
      <3>. QED
        BY <3>1
    <2>4. AudioOf(turn) = {} => AudioOf(turn)' = {}
      BY <2>1, <2>2
    <2>. QED
      BY <1>1, <2>1, <2>3, <2>4
  <1>10. ASSUME NEW b \in Bargers, BargeReset(b) \/ ResetAgain(b) PROVE LateAudio'
    <2>1. sink' = <<>>
      BY <1>10 DEF BargeReset, ResetAgain, ClearSink
    <2>. QED
      BY <2>1
  <1>11. CASE UNCHANGED <<pc, turn, silenced, sink>>
    BY <1>1, <1>11
  <1>. QED
    BY <1>4, <1>5, <1>6, <1>7, <1>8, <1>9, <1>10, <1>11 DEF Next, Loop, BargeStep, vars, loopVars,
       sinkVars, ghostVars, Finalized, Stop, CancelCtx, Synthesize, StreamEnds, WantBarge,
       BargeLock, BargeCancel

\* The fields of Session, the callers of BargeIn and the sink agree in every reachable state.
THEOREM BargeInvariant == Spec => []BargeInv
  <1>1. Init => BargeInv
    BY DEF Init, BargeInv, FieldsFollowLoop, BargedTurns, CapturedTurns, LateCount, LateAudio,
           InTurn, Closing, NoTurn, MarkedIffBarged, CancelIsMarked, AtMostOneLateBuffer,
           SilencedButForOneBuffer
  <1>2. TypeOK /\ BargeInv /\ [Next]_vars => BargeInv'
    BY StepFields, StepBarged, StepCaptured, StepLateCount, StepLateAudio DEF BargeInv
  <1>. QED
    BY <1>1, <1>2, TypeCorrect, PTL DEF Spec

\* A finished turn is reported as interrupted exactly when a BargeIn found it speaking
\* (session.go:164-169, 232-237, 285-291).
THEOREM MarkingIsExact == Spec => []MarkedIffBarged
  <1>1. BargeInv => MarkedIffBarged
    BY DEF BargeInv, BargedTurns
  <1>. QED
    BY <1>1, BargeInvariant, PTL

\* A turn that speaks under a cancelled context has been marked as barged: a stale cancel
\* function never silences a later turn (session.go:287, 293).
THEOREM CancellationIsMarked == Spec => []CancelIsMarked
  <1>1. BargeInv => CancelIsMarked
    BY DEF BargeInv, CapturedTurns
  <1>. QED
    BY <1>1, BargeInvariant, PTL

\* However many goroutines call BargeIn, a turn writes at most one buffer after it
\* (session.go:196-200).
THEOREM OneLateBuffer == Spec => []AtMostOneLateBuffer
  <1>1. BargeInv => AtMostOneLateBuffer
    BY DEF BargeInv, LateCount
  <1>. QED
    BY <1>1, BargeInvariant, PTL

\* After the reset of its barge-in a turn has at most one buffer in the sink
\* (session.go:295 against 196-200).
THEOREM SilenceAfterReset == Spec => []SilencedButForOneBuffer
  <1>1. BargeInv => SilencedButForOneBuffer
    BY DEF BargeInv, LateAudio
  <1>. QED
    BY <1>1, BargeInvariant, PTL

----------------------------------------------------------------------------
\* What the current turn counts as spoken was written, in order, by that turn.
LEMMA StepSpoken == TypeOK /\ BargeInv /\ HistoryInv /\ [Next]_vars => SpokenChunks'
  <1>. SUFFICES ASSUME TypeOK, BargeInv, HistoryInv, [Next]_vars PROVE SpokenChunks'
    OBVIOUS
  <1>. USE DEF TypeOK, TypeLoop, TypeRecords, TypeBarge, TypeGhosts, LoopPC, BargeInv,
     FieldsFollowLoop, InTurn, Closing, NoTurn, HistoryInv, SpokenChunks, WrittenInOrder,
     loopVars, ghostVars
  <1>1. CASE Receive \/ LoopStops \/ Ask \/ NoReply \/ Reply
    BY <1>1 DEF Receive, LoopStops, Ask, NoReply, Reply
  <1>2. CASE BeginTurn
    BY <1>2 DEF BeginTurn
  <1>3. CASE Announce \/ NoMoreChunks
    BY <1>3 DEF Announce, NoMoreChunks
  <1>4. CASE NextChunk
    <2>1. /\ UNCHANGED <<turn, spoken, written>> /\ i' = i + 1 /\ ~played'
          /\ pc = "chunk" /\ pc' = "stream"
      BY <1>4 DEF NextChunk
    <2>2. \A m \in DOMAIN spoken : spoken[m][2] \in Nat
      BY DEF Buffers
    <2>3. \A m \in DOMAIN spoken : spoken[m][2] <= i + 1 /\ spoken[m][2] # i + 1
      BY <2>1, <2>2
    <2>. QED
      BY <2>1, <2>3
  <1>5. CASE ReceivePCM \/ StreamCase
    <2>1. /\ UNCHANGED <<turn, i, played, spoken, written>>
          /\ pc = "stream" /\ pc' \in {"stream", "write", "chunkEnd"}
      BY <1>5 DEF ReceivePCM, StreamCase
    <2>. QED
      BY <2>1
  <1>6. CASE Write
    BY <1>6 DEF Write
  <1>7. CASE EndChunk
    <2>1. /\ UNCHANGED <<turn, i, played, written>> /\ pc = "chunkEnd" /\ pc' \in {"chunk", "end"}
          /\ spoken' = IF ChunkIsSpoken THEN Append(spoken, <<turn, i>>) ELSE spoken
      BY <1>7 DEF EndChunk
    <2>2. CASE ~ChunkIsSpoken
      BY <2>1, <2>2
    <2>3. CASE ChunkIsSpoken
      <3>1. <<turn, i>> \in written
        BY <2>1, <2>3 DEF ChunkIsSpoken
      <3>2. \A m \in DOMAIN spoken : spoken[m][2] < i
        BY <2>1 DEF Buffers
      <3>3. /\ spoken' = Append(spoken, <<turn, i>>) /\ DOMAIN spoken' = 1..Len(spoken)+1
            /\ spoken'[Len(spoken)+1] = <<turn, i>>
            /\ \A m \in 1..Len(spoken) : spoken'[m] = spoken[m]
        BY <2>1, <2>3
      <3>4. WrittenInOrder(spoken)'
        <4>1. \A m \in DOMAIN spoken' : spoken'[m] \in written'
          BY <2>1, <3>1, <3>3
        <4>2. \A m, n \in DOMAIN spoken' : m < n =>
                spoken'[m][1] = spoken'[n][1] /\ spoken'[m][2] < spoken'[n][2]
          BY <2>1, <3>2, <3>3
        <4>. QED
          BY <4>1, <4>2
      <3>5. \A m \in DOMAIN spoken' : spoken'[m][1] = turn /\ spoken'[m][2] <= i
        BY <2>1, <3>2, <3>3
      <3>. QED
        BY <2>1, <3>1, <3>4, <3>5
    <2>. QED
      BY <2>2, <2>3
  <1>8. CASE EndTurn \/ Release \/ FlushTail
    <2>1. /\ UNCHANGED <<turn, i, spoken, written>> /\ (InTurn \/ Closing)
          /\ pc' \in {"release", "flush", "record"}
      BY <1>8 DEF EndTurn, Release, FlushTail
    <2>. QED
      BY <2>1
  <1>9. CASE Record
    BY <1>9 DEF Record
  <1>10. ASSUME NEW b \in Bargers, BargeLock(b) PROVE SpokenChunks'
    BY <1>10 DEF BargeLock, Goto
  <1>11. CASE UNCHANGED <<pc, turn, i, played, spoken, written>>
    BY <1>11
  <1>. QED
    BY <1>1, <1>2, <1>3, <1>4, <1>5, <1>6, <1>7, <1>8, <1>9, <1>10, <1>11 DEF Next, Loop,
       BargeStep, vars, Finalized, Stop, CancelCtx, Synthesize, StreamEnds, Play, WantBarge,
       BargeCancel, BargeReset, ResetAgain

\* Recording a turn and writing audio keep the history's account.
LEMMA StepHistory == TypeOK /\ BargeInv /\ HistoryInv /\ [Next]_vars => HistoryOnlyWritten'
  <1>. SUFFICES ASSUME TypeOK, BargeInv, HistoryInv, [Next]_vars PROVE HistoryOnlyWritten'
    OBVIOUS
  <1>. DEFINE Grounded(h, k) == /\ k > 1 /\ h[k-1].role = "USER"
                                /\ WrittenInOrder(h[k].text)
  <1>1. /\ history \in Seq(Texts)
        /\ \A k \in DOMAIN history : history[k].role = "ASSISTANT" => Grounded(history, k)
    BY DEF TypeOK, TypeRecords, HistoryInv, HistoryOnlyWritten
  <1>2. SUFFICES \A k \in DOMAIN history' : history'[k].role = "ASSISTANT" => Grounded(history, k)'
    BY DEF HistoryOnlyWritten
  <1>3. CASE Write
    <2>1. history' = history /\ written \subseteq written'
      BY <1>3 DEF Write, recVars
    <2>2. \A said : WrittenInOrder(said) => WrittenInOrder(said)'
      BY <2>1 DEF WrittenInOrder
    <2>. QED
      BY <1>1, <2>1, <2>2
  <1>4. CASE Record
    <2>. DEFINE u == UserText(prompt)
                a == AssistantText(spoken)
    <2>1. written' = written /\ WrittenInOrder(spoken)
      BY <1>4 DEF Record, ghostVars, HistoryInv, SpokenChunks, Closing
    <2>2. \A said : WrittenInOrder(said) => WrittenInOrder(said)'
      BY <2>1 DEF WrittenInOrder
    <2>3. u \in Texts /\ a \in Texts
      BY DEF Texts, UserText, AssistantText, TypeOK, TypeInputs, TypeLoop
    <2>4. u.role = "USER" /\ a.text = spoken
      BY DEF UserText, AssistantText
    <2>5. CASE spoken = <<>>
      <3>1. history' = Append(history, u)
        BY <1>4, <2>5 DEF Record, Exchange
      <3>. HIDE DEF u
      <3>2. /\ DOMAIN history' = 1..Len(history)+1 /\ DOMAIN history = 1..Len(history)
            /\ Len(history) \in Nat /\ history'[Len(history)+1] = u
            /\ \A k \in 1..Len(history) : history'[k] = history[k]
        BY <1>1, <2>3, <3>1
      <3>3. ASSUME NEW k \in DOMAIN history', history'[k].role = "ASSISTANT"
            PROVE  Grounded(history, k)'
        <4>1. k \in 1..Len(history)
          BY <2>4, <3>2, <3>3
        <4>2. Grounded(history, k)
          BY <1>1, <3>2, <3>3, <4>1
        <4>3. history'[k] = history[k] /\ history'[k-1] = history[k-1]
          BY <3>2, <4>1, <4>2
        <4>. QED
          BY <2>2, <4>2, <4>3
      <3>. QED
        BY <3>3
    <2>6. CASE spoken # <<>>
      <3>1. history' = Append(Append(history, u), a)
        BY <1>4, <2>6 DEF Record, Exchange
      <3>. HIDE DEF u, a
      <3>2. /\ DOMAIN history' = 1..Len(history)+2 /\ DOMAIN history = 1..Len(history)
            /\ Len(history) \in Nat
            /\ history'[Len(history)+1] = u /\ history'[Len(history)+2] = a
            /\ \A k \in 1..Len(history) : history'[k] = history[k]
        BY <1>1, <2>3, <3>1
      <3>3. ASSUME NEW k \in DOMAIN history', history'[k].role = "ASSISTANT"
            PROVE  Grounded(history, k)'
        <4>1. k \in 1..Len(history) \/ k = Len(history)+2
          BY <2>4, <3>2, <3>3
        <4>2. CASE k \in 1..Len(history)
          <5>1. Grounded(history, k)
            BY <1>1, <3>2, <3>3, <4>2
          <5>2. history'[k] = history[k] /\ history'[k-1] = history[k-1]
            BY <3>2, <4>2, <5>1
          <5>. QED
            BY <2>2, <5>1, <5>2
        <4>3. CASE k = Len(history)+2
          <5>1. k > 1 /\ history'[k-1] = u /\ history'[k] = a
            BY <3>2, <4>3
          <5>. QED
            BY <2>1, <2>2, <2>4, <5>1
        <4>. QED
          BY <4>1, <4>2, <4>3
      <3>. QED
        BY <3>3
    <2>. QED
      BY <2>5, <2>6
  <1>5. CASE UNCHANGED <<written, history>>
    BY <1>1, <1>5 DEF WrittenInOrder
  <1>. QED
    BY <1>3, <1>4, <1>5
       DEF Next, Loop, BargeStep, vars, recVars, ghostVars, loopVars, Finalized, Stop, CancelCtx,
       Receive, LoopStops, Ask, NoReply, Reply, BeginTurn, Announce, NextChunk, NoMoreChunks, ReceivePCM,
       StreamCase, EndChunk, EndTurn, Release, FlushTail, Synthesize, StreamEnds, Play,
       WantBarge, BargeLock, BargeCancel, BargeReset, ResetAgain

\* No step adds to the spoken text between a barge-in and the end of its turn.
LEMMA StepFrozen == TypeOK /\ BargeInv /\ [Next]_vars => (bargeInRequested => spoken' = spoken)
  <1>. SUFFICES ASSUME TypeOK, BargeInv, [Next]_vars, bargeInRequested PROVE spoken' = spoken
    OBVIOUS
  <1>1. pc # "begin"
    BY DEF BargeInv, FieldsFollowLoop, InTurn
  <1>. QED
    BY <1>1 DEF Next, Loop, BargeStep, vars, loopVars, ChunkIsSpoken, Finalized, Stop, CancelCtx,
       Receive, LoopStops, Ask, NoReply, Reply, BeginTurn, Announce, NextChunk, NoMoreChunks,
       ReceivePCM, StreamCase, Write, EndChunk, EndTurn, Release, FlushTail, Record, Synthesize,
       StreamEnds, Play, WantBarge, BargeLock, BargeCancel, BargeReset, ResetAgain

\* What the session has spoken and remembers agrees with what it wrote (session.go:174-258).
LEMMA HistoryInvariant == Spec => []HistoryInv
  <1>1. Init => HistoryInv
    BY DEF Init, HistoryInv, SpokenChunks, HistoryOnlyWritten, InTurn, Closing
  <1>2. TypeOK /\ BargeInv /\ HistoryInv /\ [Next]_vars => HistoryInv'
    BY StepSpoken, StepHistory DEF HistoryInv
  <1>. QED
    BY <1>1, <1>2, TypeCorrect, BargeInvariant, PTL DEF Spec

\* The history attributes to the assistant only chunks that were written, in the order of the
\* reply and after the user's text (session.go:219-229, 246-248).
THEOREM HistoryIsWritten == Spec => []HistoryOnlyWritten
  <1>1. HistoryInv => HistoryOnlyWritten
    BY DEF HistoryInv
  <1>. QED
    BY <1>1, HistoryInvariant, PTL

\* From a barge-in to the end of its turn the spoken text does not change (session.go:219-229).
THEOREM SpokenIsFrozen == Spec => SpokenFrozenByBarge
  <1>1. TypeOK /\ BargeInv /\ [Next]_vars => [bargeInRequested => spoken' = spoken]_vars
    BY StepFrozen
  <1>. QED
    BY <1>1, TypeCorrect, BargeInvariant, PTL DEF Spec, SpokenFrozenByBarge
=============================================================================
