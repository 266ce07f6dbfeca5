------------------------------ MODULE Session ------------------------------
(***************************************************************************)
(* The turn loop of internal/agent/session.go and the calls that interrupt *)
(* it.  One goroutine (Start) takes finalized utterances, asks the LLM,    *)
(* speaks the reply chunk by chunk and records what was spoken; other      *)
(* goroutines (the data-channel callback and the mic reader, through the   *)
(* barge engine) call BargeIn at any moment.                               *)
(*                                                                         *)
(* Utterances and turns are numbered, an audio buffer is the pair          *)
(* <<turn, chunk>> it was synthesised for, and a spoken text is the        *)
(* sequence of the chunks it joins.  A step of the loop makes one access   *)
(* to state that another goroutine shares.                                 *)
(***************************************************************************)
EXTENDS Naturals, Sequences, FiniteSets, SequencesExt

CONSTANTS Bargers,        \* goroutines that may call BargeIn
          Engine,         \* the mic reader, which calls it for the barge engine
          MaxUtterances,  \* bound: utterances the transcriber finalizes
          MaxChunks,      \* bound: chunks of one reply
          PcmCap,         \* capacity of a stream's pcmCh (4096 in the code)
          SinkCap         \* buffers the sink holds before WritePCM blocks

ASSUME BoundsAssumption  == /\ MaxUtterances \in Nat \ {0}
                            /\ MaxChunks \in Nat \ {0}
                            /\ PcmCap \in Nat \ {0}
                            /\ SinkCap \in Nat \ {0}

VARIABLES
  (* inputs of the loop *)
  finalizeCh,        \* utterances finalized and not yet taken; 0 is a blank one
  arrived,           \* how many were finalized
  closed,            \* finalizeCh is closed
  ctxDone,           \* the session's context is cancelled
  (* the loop's own state *)
  pc, prompt, asked, turn, nchunks, i, openPCM, openErr, played, spoken, wasBarged,
  (* fields of Session, under s.mu *)
  speaking, ttsCancel, bargeInRequested,
  history,           \* convTurns, oldest first
  turns,             \* the arguments of the onTurn calls, oldest first
  engineSpeaking,    \* the barge engine's copy of "speaking"
  (* the stream of the current chunk *)
  tts, pcm, cancelled,
  (* the PCM sink *)
  sink, heard,
  (* the goroutines inside BargeIn *)
  bpc, captured,
  (* history variables *)
  written,           \* buffers ever handed to the sink
  late,              \* buffers the current turn wrote after its barge-in
  barged,            \* turns a BargeIn found speaking
  silenced           \* turns whose BargeIn has reset the sink

inVars    == <<finalizeCh, arrived, closed, ctxDone>>
loopVars  == <<pc, prompt, asked, turn, nchunks, i, openPCM, openErr, played, spoken, wasBarged>>
flagVars  == <<speaking, ttsCancel, bargeInRequested>>
recVars   == <<history, turns>>
ttsVars   == <<tts, pcm>>
sinkVars  == <<sink, heard>>
bargeVars == <<bpc, captured>>
ghostVars == <<written, late, barged, silenced>>
vars == <<inVars, loopVars, flagVars, recVars, engineSpeaking, ttsVars, cancelled,
          sinkVars, bargeVars, ghostVars>>

----------------------------------------------------------------------------
Blank   == 0
NoTurn  == 0
Silence == <<0, 0>>              \* what FlushTail pushes after the last buffer
Buffers == Nat \X Nat

LoopPC   == {"idle", "wait", "llm", "begin", "announce", "chunk", "stream", "write",
             "chunkEnd", "end", "release", "flush", "record", "stopped"}
BargerPC == {"idle", "lock", "cancel", "reset", "resetAgain"}

\* appendExchange: the user's text, then the assistant's if any was spoken.
UserText(u)      == [role |-> "USER", text |-> <<u>>]
AssistantText(s) == [role |-> "ASSISTANT", text |-> s]
Exchange(h, u, s) ==
  IF s = <<>> THEN Append(h, UserText(u))
              ELSE Append(Append(h, UserText(u)), AssistantText(s))

\* Slips the code could have; each replaces one of the definitions below in a mutant run.
RoomForOneMore     == Len(sink) <= SinkCap
NeverDrops         == FALSE
SpokenUnlessBarged == ~bargeInRequested
ExitsOnceClosed    == closed /\ finalizeCh = <<>>
KeepsSpeaking      == UNCHANGED speaking
CancelReadLate(b)  == ttsCancel
DropsOneFrame      == sink' = IF sink = <<>> THEN <<>> ELSE Tail(sink)
LeavesPcmChOpen    == tts' = "errReady"

SinkHasRoom == Len(sink) < SinkCap
ClearSink   == sink' = <<>>

\* The tests of bargeInRequested, each in a lock section of its own.
DropBuffer    == bargeInRequested
ChunkIsSpoken == ~bargeInRequested /\ played
EndsReply     == bargeInRequested

LoopExits     == ctxDone \/ (closed /\ finalizeCh = <<>>)
EndsSpeaking  == speaking' = FALSE
CancelOf(b)   == captured[b]
CloseInOrder  == tts' = IF tts = "streaming" THEN "errReady" ELSE "closed"

Init ==
  /\ finalizeCh = <<>> /\ arrived = 0 /\ closed = FALSE /\ ctxDone = FALSE
  /\ pc = "idle" /\ prompt = Blank /\ asked = FALSE /\ turn = NoTurn
  /\ nchunks = 0 /\ i = 0 /\ openPCM = FALSE /\ openErr = FALSE
  /\ played = FALSE /\ spoken = <<>> /\ wasBarged = FALSE
  /\ speaking = FALSE /\ ttsCancel = NoTurn /\ bargeInRequested = FALSE
  /\ history = <<>> /\ turns = <<>> /\ engineSpeaking = FALSE
  /\ tts = "closed" /\ pcm = 0 /\ cancelled = {}
  /\ sink = <<>> /\ heard = {}
  /\ bpc = [b \in Bargers |-> "idle"] /\ captured = [b \in Bargers |-> NoTurn]
  /\ written = {} /\ late = 0 /\ barged = {} /\ silenced = {}

----------------------------------------------------------------------------
(* The transcriber and the owner of the call. *)

Finalized ==
  /\ ~closed /\ arrived < MaxUtterances
  /\ arrived' = arrived + 1
  /\ \E u \in {arrived + 1, Blank} : finalizeCh' = Append(finalizeCh, u)
  /\ UNCHANGED <<closed, ctxDone, loopVars, flagVars, recVars, engineSpeaking, ttsVars,
                 cancelled, sinkVars, bargeVars, ghostVars>>

\* stop(): the transcriber closes and with it finalizeCh.
Stop ==
  /\ ~closed /\ closed' = TRUE
  /\ UNCHANGED <<finalizeCh, arrived, ctxDone, loopVars, flagVars, recVars, engineSpeaking,
                 ttsVars, cancelled, sinkVars, bargeVars, ghostVars>>

CancelCtx ==
  /\ ~ctxDone /\ ctxDone' = TRUE
  /\ UNCHANGED <<finalizeCh, arrived, closed, loopVars, flagVars, recVars, engineSpeaking,
                 ttsVars, cancelled, sinkVars, bargeVars, ghostVars>>

----------------------------------------------------------------------------
(* The turn loop. *)

\* The select at the top: either ready case may be taken.
Receive ==
  /\ pc = "idle" /\ finalizeCh # <<>>
  /\ finalizeCh' = Tail(finalizeCh)
  /\ prompt' = Head(finalizeCh)
  /\ pc' = IF Head(finalizeCh) = Blank THEN "idle" ELSE "wait"
  /\ UNCHANGED <<arrived, closed, ctxDone, asked, turn, nchunks, i, openPCM, openErr, played,
                 spoken, wasBarged, flagVars, recVars, engineSpeaking, ttsVars, cancelled,
                 sinkVars, bargeVars, ghostVars>>

LoopStops ==
  /\ pc = "idle"
  /\ LoopExits
  /\ pc' = "stopped"
  /\ UNCHANGED <<inVars, prompt, asked, turn, nchunks, i, openPCM, openErr, played, spoken,
                 wasBarged, flagVars, recVars, engineSpeaking, ttsVars, cancelled, sinkVars,
                 bargeVars, ghostVars>>

\* The wait for the user's voice is over (quiet, three seconds, or cancelled).
Ask ==
  /\ pc = "wait"
  /\ pc' = "llm" /\ asked' = ~ctxDone
  /\ UNCHANGED <<inVars, prompt, turn, nchunks, i, openPCM, openErr, played, spoken, wasBarged,
                 flagVars, recVars, engineSpeaking, ttsVars, cancelled, sinkVars, bargeVars,
                 ghostVars>>

\* Generate returns an error or a blank reply.
NoReply ==
  /\ pc = "llm" /\ pc' = "idle"
  /\ UNCHANGED <<inVars, prompt, asked, turn, nchunks, i, openPCM, openErr, played, spoken,
                 wasBarged, flagVars, recVars, engineSpeaking, ttsVars, cancelled, sinkVars,
                 bargeVars, ghostVars>>

\* Generate returns a reply: not when its context was cancelled before the call.
Reply ==
  /\ pc = "llm" /\ asked
  /\ \E n \in 1..MaxChunks : nchunks' = n
  /\ pc' = "begin"
  /\ UNCHANGED <<inVars, prompt, asked, turn, i, openPCM, openErr, played, spoken, wasBarged,
                 flagVars, recVars, engineSpeaking, ttsVars, cancelled, sinkVars, bargeVars,
                 ghostVars>>

BeginTurn ==
  /\ pc = "begin" /\ pc' = "announce"
  /\ turn' = turn + 1 /\ i' = 0 /\ spoken' = <<>> /\ late' = 0
  /\ speaking' = TRUE /\ ttsCancel' = turn + 1 /\ bargeInRequested' = FALSE
  /\ UNCHANGED <<inVars, prompt, asked, nchunks, openPCM, openErr, played, wasBarged, recVars,
                 engineSpeaking, ttsVars, cancelled, sinkVars, bargeVars, written, barged,
                 silenced>>

Announce ==
  /\ pc = "announce" /\ pc' = "chunk"
  /\ engineSpeaking' = TRUE
  /\ UNCHANGED <<inVars, prompt, asked, turn, nchunks, i, openPCM, openErr, played, spoken,
                 wasBarged, flagVars, recVars, ttsVars, cancelled, sinkVars, bargeVars, ghostVars>>

NextChunk ==
  /\ pc = "chunk" /\ i < nchunks /\ ~EndsReply
  /\ pc' = "stream" /\ i' = i + 1
  /\ tts' = "streaming" /\ pcm' = 0
  /\ openPCM' = TRUE /\ openErr' = TRUE /\ played' = FALSE
  /\ UNCHANGED <<inVars, prompt, asked, turn, nchunks, spoken, wasBarged, flagVars, recVars,
                 engineSpeaking, cancelled, sinkVars, bargeVars, ghostVars>>

NoMoreChunks ==
  /\ pc = "chunk" /\ (i = nchunks \/ EndsReply)
  /\ pc' = "end"
  /\ UNCHANGED <<inVars, prompt, asked, turn, nchunks, i, openPCM, openErr, played, spoken,
                 wasBarged, flagVars, recVars, engineSpeaking, ttsVars, cancelled, sinkVars,
                 bargeVars, ghostVars>>

\* case b, ok := <-pcmCh with ok: the drop test decides between WritePCM and the next select.
ReceivePCM ==
  /\ pc = "stream" /\ openPCM /\ pcm > 0
  /\ pcm' = pcm - 1
  /\ pc' = IF DropBuffer THEN "stream" ELSE "write"
  /\ UNCHANGED <<inVars, prompt, asked, turn, nchunks, i, openPCM, openErr, played, spoken,
                 wasBarged, flagVars, recVars, engineSpeaking, tts, cancelled, sinkVars,
                 bargeVars, ghostVars>>

\* The two channels close, an error arrives, or the context is done.
StreamCase ==
  /\ pc = "stream"
  /\ \/ /\ tts = "closed" /\ pcm = 0 /\ openPCM
        /\ openPCM' = FALSE /\ UNCHANGED openErr
     \/ /\ tts # "streaming" /\ openErr
        /\ openErr' = FALSE /\ UNCHANGED openPCM
     \/ /\ ctxDone
        /\ openPCM' = FALSE /\ openErr' = FALSE
  /\ pc' = IF openPCM' \/ openErr' THEN "stream" ELSE "chunkEnd"
  /\ UNCHANGED <<inVars, prompt, asked, turn, nchunks, i, played, spoken, wasBarged, flagVars,
                 recVars, engineSpeaking, ttsVars, cancelled, sinkVars, bargeVars, ghostVars>>

Write ==
  /\ pc = "write" /\ SinkHasRoom
  /\ pc' = "stream" /\ played' = TRUE
  /\ sink' = Append(sink, <<turn, i>>)
  /\ written' = written \cup {<<turn, i>>}
  /\ late' = IF bargeInRequested THEN late + 1 ELSE late
  /\ UNCHANGED <<inVars, prompt, asked, turn, nchunks, i, openPCM, openErr, spoken, wasBarged,
                 flagVars, recVars, engineSpeaking, ttsVars, cancelled, heard, bargeVars,
                 barged, silenced>>

EndChunk ==
  /\ pc = "chunkEnd"
  /\ spoken' = IF ChunkIsSpoken THEN Append(spoken, <<turn, i>>) ELSE spoken
  /\ pc' = IF EndsReply THEN "end" ELSE "chunk"
  /\ UNCHANGED <<inVars, prompt, asked, turn, nchunks, i, openPCM, openErr, played, wasBarged,
                 flagVars, recVars, engineSpeaking, ttsVars, cancelled, sinkVars, bargeVars,
                 ghostVars>>

EndTurn ==
  /\ pc = "end" /\ pc' = "release"
  /\ wasBarged' = bargeInRequested
  /\ EndsSpeaking /\ ttsCancel' = NoTurn /\ bargeInRequested' = FALSE
  /\ UNCHANGED <<inVars, prompt, asked, turn, nchunks, i, openPCM, openErr, played, spoken,
                 recVars, engineSpeaking, ttsVars, cancelled, sinkVars, bargeVars, ghostVars>>

\* cancelTTS() and SetSpeaking(false).
Release ==
  /\ pc = "release"
  /\ cancelled' = cancelled \cup {turn}
  /\ engineSpeaking' = FALSE
  /\ pc' = IF wasBarged THEN "record" ELSE "flush"
  /\ UNCHANGED <<inVars, prompt, asked, turn, nchunks, i, openPCM, openErr, played, spoken,
                 wasBarged, flagVars, recVars, ttsVars, sinkVars, bargeVars, ghostVars>>

FlushTail ==
  /\ pc = "flush" /\ SinkHasRoom
  /\ pc' = "record" /\ sink' = Append(sink, Silence)
  /\ UNCHANGED <<inVars, prompt, asked, turn, nchunks, i, openPCM, openErr, played, spoken,
                 wasBarged, flagVars, recVars, engineSpeaking, ttsVars, cancelled, heard,
                 bargeVars, ghostVars>>

\* appendExchange and the onTurn callback.
Record ==
  /\ pc = "record" /\ pc' = "idle"
  /\ history' = Exchange(history, prompt, spoken)
  /\ turns' = Append(turns, [user |-> prompt, spoken |-> spoken, interrupted |-> wasBarged])
  /\ UNCHANGED <<inVars, prompt, asked, turn, nchunks, i, openPCM, openErr, played, spoken,
                 wasBarged, flagVars, engineSpeaking, ttsVars, cancelled, sinkVars, bargeVars,
                 ghostVars>>

Loop == \/ Receive \/ LoopStops \/ Ask \/ NoReply \/ Reply \/ BeginTurn \/ Announce
        \/ NextChunk \/ NoMoreChunks \/ ReceivePCM \/ StreamCase \/ Write \/ EndChunk
        \/ EndTurn \/ Release \/ FlushTail \/ Record

----------------------------------------------------------------------------
(* The goroutine of StreamPCM48k: errCh is closed (or carries an error)    *)
(* before pcmCh closes; a buffer that finds pcmCh full is dropped.         *)

Synthesize ==
  /\ tts # "closed" /\ pcm < PcmCap
  /\ pcm' = pcm + 1
  /\ UNCHANGED <<inVars, loopVars, flagVars, recVars, engineSpeaking, tts, cancelled, sinkVars,
                 bargeVars, ghostVars>>

StreamEnds ==
  /\ tts # "closed"
  /\ CloseInOrder
  /\ UNCHANGED <<inVars, loopVars, flagVars, recVars, engineSpeaking, pcm, cancelled, sinkVars,
                 bargeVars, ghostVars>>

\* The pacer sends the oldest frame to the caller.
Play ==
  /\ sink # <<>>
  /\ sink' = Tail(sink) /\ heard' = heard \cup {Head(sink)}
  /\ UNCHANGED <<inVars, loopVars, flagVars, recVars, engineSpeaking, ttsVars, cancelled,
                 bargeVars, ghostVars>>

----------------------------------------------------------------------------
(* BargeIn, and the handler's own paced.Reset() after it. *)

Goto(b, from, to) == bpc[b] = from /\ bpc' = [bpc EXCEPT ![b] = to]

\* A stop command may come at any time; the engine fires on a frame that saw it speaking.
WantBarge(b) ==
  /\ Goto(b, "idle", "lock")
  /\ b = Engine => engineSpeaking
  /\ UNCHANGED <<inVars, loopVars, flagVars, recVars, engineSpeaking, ttsVars, cancelled,
                 sinkVars, captured, ghostVars>>

BargeLock(b) ==
  /\ Goto(b, "lock", "cancel")
  /\ captured' = [captured EXCEPT ![b] = ttsCancel]
  /\ bargeInRequested' = (bargeInRequested \/ speaking)
  /\ barged' = IF speaking THEN barged \cup {turn} ELSE barged
  /\ UNCHANGED <<inVars, loopVars, speaking, ttsCancel, recVars, engineSpeaking, ttsVars,
                 cancelled, sinkVars, written, late, silenced>>

BargeCancel(b) ==
  /\ Goto(b, "cancel", "reset")
  /\ cancelled' = cancelled \cup ({CancelOf(b)} \ {NoTurn})
  /\ UNCHANGED <<inVars, loopVars, flagVars, recVars, engineSpeaking, ttsVars, sinkVars,
                 captured, ghostVars>>

BargeReset(b) ==
  /\ Goto(b, "reset", "resetAgain")
  /\ ClearSink
  /\ silenced' = silenced \cup ({captured[b]} \ {NoTurn})
  /\ UNCHANGED <<inVars, loopVars, flagVars, recVars, engineSpeaking, ttsVars, cancelled,
                 heard, captured, written, late, barged>>

ResetAgain(b) ==
  /\ Goto(b, "resetAgain", "idle")
  /\ ClearSink
  /\ captured' = [captured EXCEPT ![b] = NoTurn]
  /\ UNCHANGED <<inVars, loopVars, flagVars, recVars, engineSpeaking, ttsVars, cancelled,
                 heard, ghostVars>>

BargeStep(b) == BargeLock(b) \/ BargeCancel(b) \/ BargeReset(b) \/ ResetAgain(b)

Next == \/ Finalized \/ Stop \/ CancelCtx
        \/ Loop
        \/ Synthesize \/ StreamEnds \/ Play
        \/ \E b \in Bargers : WantBarge(b) \/ BargeStep(b)

\* Running goroutines are scheduled, Generate and the streams are bounded by their deadlines,
\* the pacer by its ticker.  Callers, the transcriber and the caller's hang-up owe nothing.
Fairness == /\ WF_vars(Loop) /\ WF_vars(StreamEnds) /\ WF_vars(Play)
            /\ \A b \in Bargers : WF_vars(BargeStep(b))

Spec     == Init /\ [][Next]_vars
FairSpec == Spec /\ Fairness

----------------------------------------------------------------------------
(* Properties. *)

Texts == [role : {"USER"}, text : Seq(Nat)] \cup [role : {"ASSISTANT"}, text : Seq(Buffers)]

TypeInputs ==
  /\ finalizeCh \in Seq(Nat) /\ arrived \in Nat /\ closed \in BOOLEAN /\ ctxDone \in BOOLEAN
TypeLoop ==
  /\ pc \in LoopPC /\ prompt \in Nat /\ asked \in BOOLEAN /\ turn \in Nat
  /\ nchunks \in Nat /\ i \in Nat /\ openPCM \in BOOLEAN /\ openErr \in BOOLEAN
  /\ played \in BOOLEAN /\ spoken \in Seq(Buffers) /\ wasBarged \in BOOLEAN
TypeRecords ==
  /\ history \in Seq(Texts)
  /\ turns \in Seq([user : Nat, spoken : Seq(Buffers), interrupted : BOOLEAN])
TypeBarge ==
  /\ speaking \in BOOLEAN /\ ttsCancel \in Nat /\ bargeInRequested \in BOOLEAN
  /\ engineSpeaking \in BOOLEAN /\ cancelled \in SUBSET Nat
  /\ bpc \in [Bargers -> BargerPC] /\ captured \in [Bargers -> Nat]
TypeAudio ==
  /\ tts \in {"streaming", "errReady", "closed"} /\ pcm \in 0..PcmCap
  /\ sink \in Seq(Buffers) /\ Len(sink) <= SinkCap /\ heard \in SUBSET Buffers
TypeGhosts ==
  /\ written \in SUBSET Buffers /\ late \in Nat
  /\ barged \in SUBSET Nat /\ silenced \in SUBSET Nat

\* Every variable keeps its type, and no queue exceeds its capacity.
TypeOK == TypeInputs /\ TypeLoop /\ TypeRecords /\ TypeBarge /\ TypeAudio /\ TypeGhosts

\* No barge-in is lost and none is invented: a finished turn is reported as interrupted
\* exactly when some BargeIn found that turn speaking, however the lock sections of
\* BargeIn fall between those that begin and end a turn (session.go:164-169, 232-237, 285-291).
MarkedIffBarged ==
  \A k \in DOMAIN turns : turns[k].interrupted <=> k \in barged

\* A turn whose speech was cancelled while it speaks knows it: a BargeIn that captured an
\* earlier turn's cancel function never silences the turn that is speaking now
\* (session.go:287, 293).
CancelIsMarked == speaking /\ turn \in cancelled => bargeInRequested

\* The test of bargeInRequested and the WritePCM after it are not atomic (session.go:196-200),
\* so audio may still be written after a barge-in, but never more than one buffer of a turn.
AtMostOneLateBuffer == late <= 1

AudioOf(t) == {n \in DOMAIN sink : sink[n][1] = t}

\* Once the BargeIn that stopped a turn has reset the sink, the sink never again holds more
\* than one buffer of that turn (session.go:295 against 196-200).
SilencedButForOneBuffer ==
  \A t \in silenced : \A m, n \in AudioOf(t) : m = n

WrittenInOrder(said) ==
  /\ \A m \in DOMAIN said : said[m] \in written
  /\ \A m, n \in DOMAIN said : m < n => said[m][1] = said[n][1] /\ said[m][2] < said[n][2]

\* What the conversation history attributes to the assistant was handed to the sink: chunks of
\* one turn, in the order of the reply, after the user's text (session.go:222-226, 246-248).
HistoryOnlyWritten ==
  \A k \in DOMAIN history : history[k].role = "ASSISTANT" =>
    /\ k > 1 /\ history[k-1].role = "USER"
    /\ WrittenInOrder(history[k].text)

\* From a barge-in to the end of its turn no further chunk is counted as spoken, although
\* one may have been written in part (session.go:219-229).
SpokenFrozenByBarge == [][bargeInRequested => spoken' = spoken]_vars

\* When the session's context is cancelled the loop returns, from wherever it is.
StopsAfterCancel == ctxDone ~> pc = "stopped"

\* session.go:247 "Update conversation context only with what was actually spoken": every chunk
\* in the history has been played to the caller or is still going to be.
HistoryWasHeard ==
  \A k \in DOMAIN history : history[k].role = "ASSISTANT" =>
    ToSet(history[k].text) \subseteq heard \cup ToSet(sink)

----------------------------------------------------------------------------
(* The inductive invariant of the proofs. *)

InTurn  == pc \in {"announce", "chunk", "stream", "write", "chunkEnd", "end"}
Closing == pc \in {"release", "flush", "record"}

FieldsFollowLoop ==
  /\ speaking <=> InTurn
  /\ ttsCancel = IF InTurn THEN turn ELSE NoTurn
  /\ bargeInRequested => InTurn
  /\ turn = IF InTurn \/ Closing THEN Len(turns) + 1 ELSE Len(turns)

BargedTurns ==
  /\ \A t \in barged : 1 <= t /\ t <= turn
  /\ InTurn  => (bargeInRequested <=> turn \in barged)
  /\ Closing => (wasBarged <=> turn \in barged)
  /\ MarkedIffBarged

CapturedTurns ==
  /\ \A b \in Bargers : captured[b] # NoTurn => captured[b] \in barged
  /\ silenced \subseteq barged
  /\ \A t \in cancelled : t <= turn
  /\ CancelIsMarked

LateCount ==
  /\ AtMostOneLateBuffer
  /\ InTurn /\ (~bargeInRequested \/ pc = "write") => late = 0

LateAudio ==
  /\ pc = "write" /\ turn \in silenced => AudioOf(turn) = {}
  /\ SilencedButForOneBuffer

\* How the loop's place, the fields under s.mu, the calls inside BargeIn and the sink agree
\* in every reachable state: session.go:164-242 against 285-296.
BargeInv == FieldsFollowLoop /\ BargedTurns /\ CapturedTurns /\ LateCount /\ LateAudio

SpokenChunks ==
  /\ pc \in {"stream", "write", "chunkEnd"} /\ played => <<turn, i>> \in written
  /\ InTurn \/ Closing =>
       /\ WrittenInOrder(spoken)
       /\ \A m \in DOMAIN spoken :
            /\ spoken[m][1] = turn /\ spoken[m][2] <= i
            /\ pc \in {"stream", "write", "chunkEnd"} => spoken[m][2] # i

\* What the turn has counted as spoken so far, and the history built from it: session.go:174-258.
HistoryInv == SpokenChunks /\ HistoryOnlyWritten

\* Utterances and chunks are numbered as the session's conversation numbers them.
Numbered ==
  /\ arrived <= MaxUtterances /\ nchunks <= MaxChunks
  /\ \A k \in DOMAIN finalizeCh : finalizeCh[k] <= arrived
  /\ InTurn => i <= nchunks
  /\ pc \in {"stream", "write", "chunkEnd"} => i >= 1

----------------------------------------------------------------------------
\* The session is a conversation, whatever BargeIn does: what it says, reports and remembers of
\* a turn agree, nothing is said after an interruption, the history is what was reported, and
\* it comes back to listening (session.go:128-261).
Phase       == IF pc \in {"idle", "stopped"} THEN "listening"
               ELSE IF InTurn \/ Closing THEN "speaking" ELSE "thinking"
User        == IF pc \in {"idle", "stopped"} THEN Blank ELSE prompt
Said        == IF InTurn \/ Closing THEN spoken ELSE <<>>
Interrupted == IF InTurn THEN bargeInRequested ELSE Closing /\ wasBarged

TheConversation == INSTANCE Conversation WITH
  Utterances <- 1..MaxUtterances, Chunks <- 1..MaxChunks, phase <- Phase, user <- User,
  said <- Said, interrupted <- Interrupted, reported <- turns
ImplementsConversation == TheConversation!Spec
=============================================================================
