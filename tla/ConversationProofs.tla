------------------------- MODULE ConversationProofs -------------------------
(***************************************************************************)
(* Session implements Conversation: every step of the loop and of BargeIn  *)
(* is a step of the conversation or leaves it as it is.  The simulation    *)
(* uses the invariants of SessionProofs and that utterances and chunks are *)
(* numbered within their bounds.                                           *)
(***************************************************************************)
EXTENDS SessionProofs, SequenceTheorems

USE DEF Blank, NoTurn

\* Every step keeps the numbers of utterances and chunks within their bounds.
LEMMA StepNumbered == TypeOK /\ BargeInv /\ Numbered /\ [Next]_vars => Numbered'
  <1>. SUFFICES ASSUME TypeOK, BargeInv, Numbered, [Next]_vars PROVE Numbered'
    OBVIOUS
  <1>. USE DEF TypeOK, TypeInputs, TypeLoop, TypeBarge, LoopPC, Numbered, InTurn
  <1>1. CASE Finalized
    <2>1. PICK u \in {arrived + 1, 0} : finalizeCh' = Append(finalizeCh, u)
      BY <1>1 DEF Finalized
    <2>2. \A k \in DOMAIN finalizeCh' : finalizeCh'[k] <= arrived + 1
      BY <2>1
    <2>. QED
      BY <1>1, <2>2, BoundsAssumption DEF Finalized, loopVars
  <1>2. CASE Receive
    <2>1. \A k \in DOMAIN finalizeCh' : finalizeCh'[k] <= arrived
      BY <1>2 DEF Receive
    <2>. QED
      BY <1>2, <2>1 DEF Receive
  <1>3. CASE Reply
    BY <1>3, BoundsAssumption DEF Reply, inVars
  <1>4. CASE BeginTurn
    BY <1>4 DEF BeginTurn, inVars
  <1>5. CASE NextChunk
    BY <1>5 DEF NextChunk, inVars
  <1>6. CASE UNCHANGED <<finalizeCh, arrived, nchunks, i>> /\ (InTurn' => InTurn)
             /\ (pc' \in {"stream", "write", "chunkEnd"} => pc \in {"stream", "write", "chunkEnd"})
    BY <1>6
  <1>. QED
    BY <1>1, <1>2, <1>3, <1>4, <1>5, <1>6
       DEF Next, Loop, BargeStep, vars, inVars, loopVars, Stop, CancelCtx, LoopStops, Ask, NoReply,
       Announce, NoMoreChunks, ReceivePCM, StreamCase, Write, EndChunk, EndTurn, Release, FlushTail,
       Record, Synthesize, StreamEnds, Play, WantBarge, BargeLock, BargeCancel, BargeReset,
       ResetAgain

\* In every reachable state utterances and chunks are numbered within their bounds.
LEMMA NumberedInvariant == Spec => []Numbered
  <1>1. Init => Numbered
    BY BoundsAssumption DEF Init, Numbered, InTurn
  <1>. QED
    BY <1>1, StepNumbered, TypeCorrect, BargeInvariant, PTL DEF Spec

----------------------------------------------------------------------------
(* The actions of the loop that are steps of the conversation, one lemma   *)
(* each; then those that leave it as it is.                                *)

\* Taking a final transcript from the channel is hearing the user.
LEMMA ReceiveHears ==
  ASSUME TypeOK, Numbered, Receive
  PROVE  [TheConversation!Next]_(TheConversation!vars)
  <1>. USE DEF Phase, User, Said, Interrupted, InTurn, Closing
  <1>1. CASE Head(finalizeCh) = Blank
    BY <1>1 DEF Receive, TheConversation!vars, recVars
  <1>2. CASE Head(finalizeCh) # Blank
    <2>1. Head(finalizeCh) \in 1..MaxUtterances
      BY <1>2, BoundsAssumption DEF Receive, Numbered, TypeOK, TypeInputs
    <2>. QED
      BY <1>2, <2>1 DEF Receive, recVars, TheConversation!Next, TheConversation!Hear
  <1>. QED
    BY <1>1, <1>2

\* Without a reply, or with a blank one, the conversation listens again.
LEMMA NoReplyGivesUp == NoReply => TheConversation!Next
  BY DEF NoReply, recVars, Phase, User, Said, Interrupted, InTurn, Closing, TheConversation!Next,
         TheConversation!GiveUp, TheConversation!Quiet, TheConversation!Nothing

\* A turn with a reply begins to speak.
LEMMA BeginTurnSpeaks == BeginTurn => TheConversation!Next
  BY DEF BeginTurn, recVars, Phase, User, Said, Interrupted, InTurn, Closing, TheConversation!Next,
         TheConversation!Speak

\* The chunk is a new one, and comes after all that were said (EndChunk, session.go:219-230).
LEMMA EndChunkSays ==
  ASSUME TypeOK, BargeInv, HistoryInv, Numbered, EndChunk
  PROVE  [TheConversation!Next]_(TheConversation!vars)
  <1>. USE DEF Phase, User, Said, Interrupted, InTurn, Closing
  <1>1. CASE ~ChunkIsSpoken
    BY <1>1 DEF EndChunk, EndsReply, flagVars, recVars, TheConversation!vars
  <1>2. CASE ChunkIsSpoken
    <2>1. i \in 1..MaxChunks
      BY BoundsAssumption DEF EndChunk, Numbered, TypeOK, TypeLoop
    <2>2. turn = Len(turns) + 1
      BY DEF EndChunk, BargeInv, FieldsFollowLoop
    <2>3. spoken # <<>> => Last(spoken)[2] < i
      BY DEF EndChunk, HistoryInv, SpokenChunks, TypeOK, TypeLoop, Last, Buffers
    <2>4. Phase = "speaking" /\ Phase' = "speaking" /\ ~Interrupted /\ ~Interrupted'
      BY <1>2 DEF EndChunk, EndsReply, ChunkIsSpoken, flagVars
    <2>5. Said' = Append(Said, <<Len(turns) + 1, i>>)
      BY <1>2, <2>2 DEF EndChunk, EndsReply, ChunkIsSpoken
    <2>6. Said # <<>> => Last(Said)[2] < i
      BY <2>3 DEF EndChunk
    <2>7. UNCHANGED <<Phase, User, Interrupted, history, turns>>
      BY <2>4 DEF EndChunk, flagVars, recVars
    <2>. QED
      BY <2>1, <2>4, <2>5, <2>6, <2>7
         DEF TheConversation!Next, TheConversation!Say, TheConversation!Last, Last
  <1>. QED
    BY <1>1, <1>2

\* The history grows by the exchange that is reported (Record, session.go:246-258).
LEMMA RecordReports ==
  ASSUME TypeOK, Record
  PROVE  TheConversation!Next
  <1>. USE DEF Phase, User, Said, Interrupted, InTurn, Closing
  <1>1. UserText(prompt) \in Texts /\ AssistantText(spoken) \in Texts
    BY DEF TypeOK, TypeLoop, Texts, UserText, AssistantText
  <1>2. Exchange(history, prompt, spoken) =
          history \o <<[role |-> "USER", text |-> <<prompt>>]>>
                  \o (IF spoken = <<>> THEN <<>>
                      ELSE <<[role |-> "ASSISTANT", text |-> spoken]>>)
    <2>1. Append(history, UserText(prompt)) = history \o <<UserText(prompt)>>
      BY <1>1, AppendIsConcat DEF TypeOK, TypeRecords
    <2>2. Append(history \o <<UserText(prompt)>>, AssistantText(spoken))
            = history \o <<UserText(prompt)>> \o <<AssistantText(spoken)>>
      BY <1>1, AppendIsConcat DEF TypeOK, TypeRecords
    <2>3. history \o <<UserText(prompt)>> \o <<>> = history \o <<UserText(prompt)>>
      BY <1>1, ConcatEmptySeq DEF TypeOK, TypeRecords
    <2>. QED
      BY <2>1, <2>2, <2>3 DEF Exchange, UserText, AssistantText
  <1>. QED
    <2>1. Phase = "speaking" /\ Said = spoken /\ User = prompt /\ Interrupted = wasBarged
      BY DEF Record, TypeOK, TypeLoop
    <2>2. TheConversation!Quiet'
      BY DEF Record, TheConversation!Quiet, TheConversation!Nothing
    <2>. QED
      BY <1>2, <2>1, <2>2 DEF Record, TheConversation!Next, TheConversation!Report

\* A BargeIn interrupts the turn it finds speaking, and nothing else (session.go:285-291).
LEMMA BargeLockInterrupts ==
  ASSUME TypeOK, BargeInv, NEW b \in Bargers, BargeLock(b)
  PROVE  [TheConversation!Next]_(TheConversation!vars)
  <1>. USE DEF Phase, User, Said, Interrupted, InTurn, Closing
  <1>1. speaking <=> InTurn
    BY DEF BargeInv, FieldsFollowLoop
  <1>2. CASE speaking
    BY <1>1, <1>2 DEF BargeLock, loopVars, recVars, TheConversation!Next,
                      TheConversation!Interrupt
  <1>3. CASE ~speaking
    BY <1>1, <1>3 DEF BargeLock, loopVars, recVars, TheConversation!vars
  <1>. QED
    BY <1>2, <1>3

\* Every step of the session is a step of the conversation or none.
LEMMA StepConverses ==
  TypeOK /\ BargeInv /\ HistoryInv /\ Numbered /\ [Next]_vars
    => [TheConversation!Next]_(TheConversation!vars)
  <1>. SUFFICES ASSUME TypeOK, BargeInv, HistoryInv, Numbered, [Next]_vars
                PROVE  [TheConversation!Next]_(TheConversation!vars)
    OBVIOUS
  <1>1. CASE UNCHANGED <<pc, prompt, spoken, wasBarged, bargeInRequested, history, turns>>
    BY <1>1 DEF Phase, User, Said, Interrupted, InTurn, Closing, TheConversation!vars
  <1>2. CASE LoopStops \/ Ask \/ Reply \/ Announce \/ NextChunk \/ NoMoreChunks \/ ReceivePCM
             \/ StreamCase \/ Write \/ EndTurn \/ Release \/ FlushTail
    <2>. USE DEF flagVars, recVars, Phase, User, Said, Interrupted, InTurn, Closing,
                 TheConversation!vars
    <2>1. CASE LoopStops \/ Ask \/ Reply
      BY <2>1 DEF LoopStops, Ask, Reply
    <2>2. CASE Announce \/ NextChunk \/ NoMoreChunks
      BY <2>2 DEF Announce, NextChunk, NoMoreChunks
    <2>3. CASE ReceivePCM \/ StreamCase \/ Write
      BY <2>3 DEF ReceivePCM, StreamCase, Write
    <2>4. CASE EndTurn \/ Release \/ FlushTail
      BY <2>4 DEF EndTurn, Release, FlushTail, TypeOK, TypeLoop, TypeBarge
    <2>. QED
      BY <1>2, <2>1, <2>2, <2>3, <2>4
  <1>3. CASE \E b \in Bargers : BargeLock(b)
    BY <1>3, BargeLockInterrupts
  <1>4. CASE Receive \/ NoReply \/ BeginTurn \/ EndChunk \/ Record
    BY <1>4, ReceiveHears, NoReplyGivesUp, BeginTurnSpeaks, EndChunkSays, RecordReports
  <1>. QED
    BY <1>1, <1>2, <1>3, <1>4
       DEF Next, Loop, BargeStep, vars, loopVars, flagVars, recVars, Finalized, Stop, CancelCtx,
           Synthesize, StreamEnds, Play, WantBarge, BargeCancel, BargeReset, ResetAgain

(* Whatever the callers of BargeIn, the transcriber and the streams do and *)
(* whenever they do it, what the session says, reports and remembers is a  *)
(* conversation: nothing is said after an interruption, a report agrees    *)
(* with what was said and whether it was interrupted, and the history is   *)
(* what was reported (session.go:128-261, 285-296).                        *)
THEOREM SessionConverses == Spec => TheConversation!Steps
  <1>1. Init => TheConversation!Init
    BY DEF Init, Phase, User, Said, Interrupted, InTurn, Closing, TheConversation!Init,
           TheConversation!Quiet, TheConversation!Nothing
  <1>. QED
    BY <1>1, StepConverses, TypeCorrect, BargeInvariant, HistoryInvariant, NumberedInvariant, PTL
       DEF Spec, TheConversation!Steps
=============================================================================
