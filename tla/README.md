# Verification of call-demo

TLA+ models of the voice agent in this repository: how a call begins and ends, the caller's audio
on its way to the transcription service, the service that decides when the caller has finished, the
barge-in detector, the turn loop that speaks to the caller and can be interrupted, the synthesis
stream and the paced Opus writer. TLC checks the models on small
instances; TLAPS proves the safety properties, those of the refinements included, for every value of
the constants.

The repository has no design documents; the models are written from the Go code, its comments
and its tests. File names below are relative to `src/internal`.

## 1. Inventory

A call is a WebRTC peer connection. The caller's audio goes to a transcription service and to a
barge-in engine; a finalized utterance goes to an LLM, its reply is synthesised and sent back.

| Component | Code | State | Operations |
|---|---|---|---|
| Session | `agent/session.go` | `speaking`, `ttsCancel`, `bargeInRequested` and `history` under `s.mu`; the turn loop's locals | `Start` (turn loop, partials goroutine), `BargeIn`, `stop` |
| AssemblyAIService | `transcript/assemblyai.go` | transcript, committed text, times and `silenceTimer` under `accMu`; connection under `mu`; channels `transcripts`, `finalizeCh`, `audioData`, `stopCh` | `Connect`, `SendAudio`, `handleMessages`, `finalizeDueToSilence`, `flushPendingDelta`, `sendAudioData`, `Close` |
| Barge engine | `barge/engine.go` | `speaking`, `lastPartial` under `e.mu`; `lastTokens`, voting windows, bloom filter and PCM rings | `FeedMic16k`, `NotifyPartial`, `NotifyTTSText`, `SetSpeaking`, `FeedTTS48k` |
| Audio uplink | mic reader of `rtc/handler.go` (241-256) and `rtc/ws_signaling.go` (367-402), `SendAudio` and `sendAudioData`, `circularPCM` | the buffer whose slices are queued, `audioData`, the pre-roll ring, the socket | the mic reader, `SendAudio`, `ReadLastMs`, the sender, `Close` |
| OpusPacedWriter | `rtc/audio.go` | `pcmBuf`, `stopped` under `mu`; the channel `frames` | `WritePCM`, `FlushTail`, `Reset`, `Close`, the pacer |
| Synthesis stream | `tts/deepgram.go` | two channels, the flag `stopped`, the time of the last audio | `StreamPCM48k`, the SDK's callback |
| Call handler | `rtc/handler.go` | per call: the peer connection, per track: session, writer, `stop`; which state handler is registered | `HandleOffer`, `OnTrack`, the control channel, two state handlers, the 400 ms timer |
| WebSocket signalling | `rtc/ws_signaling.go` | one socket, the goroutine of the request, the reader of candidates and bye, the candidate callback | auth, offer, answer, candidates, bye, poll, deferred cleanup |
| LLM client, HTTP server, configuration, main | `llm`, `httpserver`, `config`, `cmd/server` | none worth a model | one request; routing; reading the environment |

How they interact:

- The handler makes one of each per call. The mic reader feeds each 100 ms chunk to the service
  and to the engine; the engine calls `Session.BargeIn` and `OpusPacedWriter.Reset` from that same
  goroutine. The control data channel does the same from its own.
- `HandleOffer` returns once it has answered; its call lives on in the callbacks of the peer
  connection. `ServeWebSocket` stays, polls the connection's state and closes it when it returns.
- A chunk is queued for the service as a slice of the mic reader's buffer; the reader moves that
  buffer on while the sender goes through the queue.
- The service's reader queues partials (`transcripts`) and its timer, a Termination or `Close`
  queues finalized text (`finalizeCh`). The session's partials goroutine passes the first to the
  engine, its turn loop takes the second.
- The turn loop ranges over the two channels of one synthesis stream per chunk, writes to the
  writer, tells the engine when it speaks and what. The writer blocks it when 512 frames wait.
- `BargeIn` sets the flag and copies the cancel function under `s.mu`, cancels the stream, then
  resets the writer, each in its own critical section.
- The teardown cancels the session, closes the service, flushes the writer and closes it 400 ms
  later.

What is hard, and what makes each component correct:

- **Session.** A barge-in may fall between any two critical sections of the loop, and two callers
  may barge in at once. Correct: no interruption is lost, invented or applied to the next turn; no
  more than one buffer gets past it; the history holds nothing that was never written; an
  interrupted turn ends.
- **AssemblyAIService.** Reader, overlapping timer callbacks, voice clock and `Close` share a timer
  and a transcript; `Close` takes only one of the two locks. Correct: each word is finalized once
  and eventually, never while it is still changing; nothing panics before `Close`; `Close` returns if
  its write to the service does.
- **Barge engine.** It reads shared fields once per frame and votes on them later; partials are
  seen in many frames. Correct: it triggers on a frame that overlaps, text counts once, the agent's
  own words do not count (they may: finding `barge_echo`).
- **OpusPacedWriter.** `w.mu` is held while a push waits for room; `Reset` needs `w.mu`. Correct:
  order, no loss, nothing left behind a `Reset`, no caller blocked for ever.
- **Audio uplink.** The queue holds references into a buffer that is being rewritten; packets need
  not divide chunks; `Close` meets the reader in `SendAudio` and the sender on the socket. Correct:
  chunks follow each other without a gap; the service is sent what was captured (it is not: finding
  `audio_sent`); the sender ends.
- **Call handler and signalling.** The peer connection runs each callback in a goroutine of its own;
  a second state handler replaces the first; the service is connected twice; two goroutines write
  to one WebSocket. Correct: whatever ends the call takes down what belongs to it, at most once,
  and a Close that stalls takes as little with it as possible.
- **Synthesis stream.** Two goroutines race to stop the client; the service may be silent. Correct:
  it always ends, closes both channels in order and leaves no goroutine behind.

The list of hazards, each at its line and with the properties that cover it or the reason none
does, is in `PROJECT.json`.

## 2. The modules

### Session.tla

`internal/agent/session.go` with the callers of `BargeIn`. `pc` is the place of the turn loop: one
action is one access to state another goroutine shares, so `EndTurn` is the critical section at
lines 232-237, and `ReceivePCM` and `Write` are the drop test (196-198) and `WritePCM` (200), with
everything else free to happen in between. `bpc[b]` is where goroutine `b` is in `BargeIn`
(`BargeLock`, `BargeCancel`, `BargeReset`) and in the handler's second reset (`ResetAgain`).
The data channel may call at any time, the engine only when it was told that the agent speaks.
Utterances and turns are numbers, a buffer is the pair of turn and chunk it was synthesised for,
`ttsCancel` is the turn whose context it cancels. The stream behaves as `DeepgramStream` shows it
to: it may fail, it goes on sending after a cancel until it notices, it closes `errCh` first. The
sink is a queue of `SinkCap` buffers, at whose limit `WritePCM` blocks; `heard` is what the pacer
sent. The history variables `written`, `late`, `barged` and `silenced` record what happened and
are read by properties only.

### Conversation.tla

What a session promises to its listener, and what `Session` is shown to implement
(`ImplementsConversation`): it listens, thinks, speaks; it says chunks of the reply in increasing
order until it is interrupted and none after that; the report of the turn says what was said and
whether it was interrupted; the history is the reported exchanges; and it comes back to listening.
The refinement mapping reads `interrupted` from `bargeInRequested` during the turn and from the
loop's copy `wasBarged` after it, because `EndTurn` clears the field before the turn is reported.
`Steps` is the promise without its liveness, `Spec` adds that the conversation listens again.

### PCMSink.tla and OpusPacedWriter.tla

`PCMSink` is what the session may assume of a `PCM48kSink`: samples, numbered as they are written,
wait in a set; to play one is to play or lose all that are older, so they are played in order and at
most once; while a `Reset` runs it may discard from the front; when it returns
nothing older is left; once closed, samples may be lost but not reordered.

`OpusPacedWriter` is `internal/rtc/audio.go`: `pcmBuf`, `frames`, the mutex `mu` with its owner,
and each caller's place. `PushFrame` is `pushFrame`'s select, which blocks on a full queue and,
once `stopCh` is closed, may take either case. `WritePCM` cuts and pushes one frame per action
with `mu` held; `FlushTail` pushes its padded frame with `mu` held and its silence without it;
`Reset` drains one frame per action while the pacer ticks. `ImplementsSink` is the refinement:
`queue` is the samples in `frames` and `pcmBuf` without padding (`Pending`), `played` those in the
frames that were `sent`, `resetting` the callers that drain. That the frames themselves, the sent
ones before the queued ones (`Line`), are in the order of writing is `PlaysInOrder`.

### AssemblyAIService.tla

`internal/transcript/assemblyai.go`; the queue of audio is in `AudioUplink`. A transcript is a sequence of words.
Time is a `Tick` that ages the last text and the last voice and runs the timer and the naps of the
callbacks down; ages are kept only as far as thresholds tell them apart, and any number of ticks may
pass between two steps of a goroutine, so nothing relies on a goroutine being prompt. `accMu` is
taken and released within one action wherever nothing else could look in; it is held over a step on
the way to a rearm, between the test of `silenceTimer` and its use, because `Close` clears that
pointer without `accMu`. A nil pointer panics: in a callback that ends the process (`crashed`), in
the reader it is recovered with `accMu` locked (`panicked`). `Told` is the deltas that were sent, in
order: those the session received and those in `finalizeCh`. `NoWordLost` and
`NoWordTwice` are about transcripts that only grow, which `growing` records; a transcript that
replaces the last one takes what was not finalized with it. A send on a closed `finalizeCh`, a
second close of `stopCh` and audio for a closed `audioData` panic too. `Connect` may be called
twice, as the handler and `Session.Start` do, with a `Close` in between or not. `Close` is the steps
its callers could meet: `CloseStopCh`, `ClearTimer`, `Terminate`, `CloseConn`, the flush, the
channels. `Terminate` is a write without a deadline under `s.mu`: it returns, panics because the
sender is writing too, or never returns (`Stalled`).

### PCMStream.tla and DeepgramStream.tla

`PCMStream` is what the turn loop assumes of `TTS.StreamPCM48k`: buffers in order, at most one
error, the error's channel closed first, nothing after the close (`Steps`), and both closed in the
end (`Spec`).

`DeepgramStream` is `internal/tts/deepgram.go`: the main goroutine from `Start` to the deferred
closes, the watcher, the unsynchronised flag (`StopClient` tests it, sets it, and returns from
`dg.Stop`, a step each), and the SDK's callback. The SDK is external: callbacks may start until a
`Stop` has returned, one under way then may still run, none starts after it. If the stream has closed `pcmCh` by then the callback panics; the model
has both outcomes.

### BargeEngine.tla

`internal/barge/engine.go`. A frame reads `speaking`, then `lastPartial`, looks up one new word of
it after the other (`TestWord`), votes, and may trigger; a blank partial is left at once. The
session's calls happen in between any two of these steps, and `NotifyTTSText` adds its words one by
one (`AddWord`), because neither side of the filter holds a lock. What the energy of a frame says is
abstracted to the number of the two energy cues that say yes (`Cues`), chosen freely.

A word is a field of a lower-cased text, so "there." and "there" are two words. The agent's are the
fields of the reply's chunk, with its punctuation; the service is asked for unformatted text
(`transcript/assemblyai.go:94`). `Heard` says how the recogniser writes a word the agent speaks;
`Slot` which slot of the filter a word hashes to, and words may collide.

### AudioUplink.tla

The mic reader of `rtc/handler.go` and `rtc/ws_signaling.go` (the same code twice), the engine's
ring, and the sender and `Close` of `transcript/assemblyai.go`. Audio is counted in numbered units
of several 10 ms frames. `buf` is the array behind `pcm16kBuf`, `fill` the slice's length. A store
into it is two steps: it begins (`ReadPacket`, `Shift`), with `coming` what it will leave, and is
complete (`Stored`). In between the sender, which copies one unit per step (`CopyUnit`), may see
each cell old or new: the two goroutines race. Every queued chunk starts at the array's first cell,
because the buffer is moved to its front and never grows past the array it was made with
(`TypeOK` says so), so what a queued chunk holds is read from `buf`; what it held when it was
queued is kept beside it, for `SentAsCaptured` only. A pre-roll is a copy. `Close` holds `s.mu` over its four steps, and
`SendAudio` and the sender's look at the connection wait for it.

### CallMedia.tla and Signaling.tla

`CallMedia` is a call once the peer connection exists: `OnTrack` of each track, with an action for
each call it makes that may fail (`NewPacer` to `Register`), the mic reader as far as it can panic,
the session's loops, and the state handlers, each step of a teardown an action of its own. The service's
`Close` is two: it closes `stopCh` (`BeginClose`) and, with `s.mu` held all the time, either comes
back with everything closed or stays in the Terminate write for good (`FinishClose`); what it does
to the goroutines of the service in between is `AssemblyAIService`'s and `AudioUplink`'s subject, and
here a panic of theirs may come at any time once `stopCh` is closed (`ServicePanics`). The peer
connection is external: it changes state as `NextStates` allows and runs for each change, in a
goroutine of its own (`gor`), the handler registered at that moment. `Signaling` is `HandleOffer`
and `ServeWebSocket` around it: the client's frames, the reader of the socket, the concurrent
writers (the answer, or the report that there is none, and the candidates), the poll and the
deferred cleanup. Over HTTP the handlers are attached before the
negotiation, over the WebSocket after the answer, so a track may come too early and is dropped.

## 3. Runs

| Run | Bounds | Shows |
|---|---|---|
| `session_turns` | 2 utterances, 1 chunk, capacities 1, 2 bargers | `TypeOK`, `MarkedIffBarged`, and `BargeInv`, the inductive invariant |
| `session_chunks` | 1 utterance, 2 chunks, `pcmCh` of 2, sink of 2, 1 barger, with fairness | `AtMostOneLateBuffer`, `SilencedButForOneBuffer`, `HistoryOnlyWritten`, `StopsAfterCancel`, `ImplementsConversation` |
| `opus_writer` | frames of 2 samples, queue of 2, 3 samples, 2 writers of which one flushes, a resetter, a closer, with fairness | `TypeOK`, `PlaysInOrder`, `NothingLost`, `ImplementsSink`, `ResetCompletes`, `CallersReturn` |
| `transcript` | two transcripts that grow, repeat or replace the last, a continuation word, 2 interchangeable callbacks (symmetry), 2 connects | `TypeOK`, `NoLostWakeup`, `NoWordLost`, `NoWordTwice`, `CrashOnlyOnceClosing`, `NeverFinalizesEarly` |
| `transcript_live` | transcripts that grow or repeat, one callback, with fairness | `FinalizesEventually`, `CloseReturns` |
| `deepgram_stream` | 3 buffers, `pcmCh` of 2, deadline 3, idle window 1, with fairness | `StoppedOnceUnlessCancelled`, `WatcherEnds`, `ImplementsStream` |
| `barge_engine` | windows of 3 and 2, 5 words of which two collide, chunks of 1 and 2 words, partials of up to 3, one blank | `TriggersOnOverlap`, `GrowthCountsOnce` |
| `signaling` | both transports, 2 tracks over HTTP and 1 over the WebSocket, 2 changes of state before the close, 2 frames after the offer, 1 candidate, with fairness | `TypeOK`, `ReuseNeedsReopening`, `ReturnsClosed`, `TeardownCompletes`, `CloseEndsSessions`, `ByeEndsCall`, `FailureCloses` |
| `audio_uplink` | chunks of 2 units, packets of 1 and 3, queue of 2, ring of 4, pre-roll of 3, 6 units, with fairness | `TypeOK`, `ChunksInSequence`, `PreRollIsLatest`, `CrashOnlyByOverlap`, `CloseEndsSender` |

Why the bounds are enough: each hazard needs two turns, two callers or two callbacks at most, a
queue that fills and one that empties, and each run has that. The model of a queue at its limit
does not depend on the limit being 512 or 2; the windows of the engine keep the ratio test and
the frame that drops out; time keeps the order of the thresholds (a grace, a silence, a longer
silence), not their lengths. Two changes of state let a connection come up and then fail or drop
before it is closed, and run one handler while the close starts another; a connection that drops and
comes up again takes three, which is not checked (it starts no handler when it comes up). Two tracks
are enough for one handler to replace another. Six units are three chunks, with two packets that leave
a rest in the buffer, one more chunk than the queue holds, and a ring that wraps.

`session_chunks`, `transcript`, `transcript_live`, `signaling`, `audio_uplink` and `audio_sent` do
not check deadlock, because a panic, the end of the call or the loop's return stops the system for
good; the other runs do. Symmetry is used for the two callbacks only, which differ in nothing but
their name and are checked for safety there.

Three more runs show that the code does not do what a comment says; each ends in a counterexample
(`PROJECT.json`, "findings"):

- `session_heard`: `session.go:247` says the history holds only what was spoken. It holds what was
  handed to the writer; a barge-in's `Reset` drops frames that count.
- `barge_echo`: `barge/types.go:45` says that `NotifyTTSText` lets the engine discount echoed content.
  The filter holds the words with the reply's punctuation, the partials have none: after "You." and
  "There." were announced, the echo "you there" is growth, also when the announcement was complete
  before the frame looked.
- `audio_sent`: `handler.go:249` says the chunk is fed to the recogniser. The queue holds a slice
  of the buffer the next packet is decoded into, so the service may be sent later audio instead, or
  a mix.

Some passing properties are as strong as the code allows and no stronger; what they leave open is
worth knowing. After a barge-in one buffer may still be written (`AtMostOneLateBuffer`,
`SilencedButForOneBuffer`), although `barge/types.go:32` says the output stops immediately. A panic
in the reader is recovered, but `accMu` stays locked, so `CloseReturns` excludes it, as it does a
Terminate write that never returns.

What can end the process, as far as the models reach:

- before a `Close` of the service has begun, only a candidate written to the caller's WebSocket while
  the answer, or the error in its place, is written too (`Signaling.CandidateWritten`);
- once a `Close` has begun, the silence callback that finds no timer or a closed `finalizeCh`, and
  `Close` itself when its Terminate meets the sender's write (`CrashOnlyOnceClosing`,
  `CrashOnlyByOverlap`: not before, and of audio to a closed channel never on one connection);
- a second `close(stopCh)`, or audio for the closed `audioData`, only after a Connect reopened a
  service that had been closed (`ReuseNeedsReopening`).

## 4. Fairness

- Goroutines that can run do (weak fairness); a Go mutex hands over to a caller that waited long
  enough and a channel serves blocked senders in order, hence strong fairness for steps that take a
  lock or push to a queue in `OpusPacedWriter` and `AssemblyAIService`.
- The pacer's ticker and the clock advance. `Generate` and the streams end by their timeouts: 20 s
  in the session, 12 s in the stream (`ImplementsStream` shows the latter is enough).
- In `Signaling` the request, the reader of the socket, the candidate callback, `OnTrack`, the
  session's loops and the state handlers with their timer run on. In `AudioUplink` the sender does, and a
  write on a closed socket fails; a write on an open one may stall for ever.
- The Terminate write of `Close` has no deadline and is made under `s.mu`. No fairness makes it
  return: each model that has it has a step to a place it never leaves. `CloseReturns`,
  `TeardownCompletes` (for the pacer) and `FailureCloses` (over HTTP, where the peer connection is
  closed after the service) say what follows unless it is there; `CloseEndsSender` starts after it.
- Nothing is assumed of the caller, the data channel, the microphone, the remote services or
  whoever closes the call. In `transcript_live` the session takes what is finalized until `Close`;
  `FinalizesEventually` is conditional on the voice pausing for good, because each voiced chunk
  postpones the silence for as long as it goes on.

## 5. Proofs

Eight modules hold theorems, each named after the module it is about (`ConversationProofs` about the
session again). Everything is proved to the last leaf, from the modules' ASSUMEs only: capacities
and bounds are numbers, those the code makes positive are positive, and the goroutines and handlers
are distinct. So the theorems hold for any number of callers, turns, chunks, callbacks, connections,
tracks and frames, any capacity and any sizes of chunks, windows and rings.

| Module | Theorem | States |
|---|---|---|
| `SessionProofs` | `TypeCorrect`, `BargeInvariant` | `TypeOK`, the inductive `BargeInv` |
| | `MarkingIsExact`, `CancellationIsMarked`, `OneLateBuffer`, `SilenceAfterReset` | the safety properties that follow from it |
| | `HistoryIsWritten` | `HistoryOnlyWritten`, by `HistoryInv` |
| | `SpokenIsFrozen` | the action property `SpokenFrozenByBarge` |
| `ConversationProofs` | `SessionConverses` | `Spec => TheConversation!Steps` |
| `OpusPacedWriterProofs` | `TypeCorrect`, `PlayedInOrder`, `NoneLost` | `TypeOK`, `PlaysInOrder`, `NothingLost` |
| | `WriterIsASink` | `Spec => ImplementsSink` |
| `AssemblyAIServiceProofs` | `OpenInvariant`, `NoEarlyCrash` | `OpenUntilClosing`, hence `CrashOnlyOnceClosing` |
| | `TypeCorrect`, `NoneForgotten` | `TypeOK`, `NoLostWakeup` |
| | `FinalizedRipe` | the action property `NeverFinalizesEarly` |
| | `NoneLost`, `NoneTwice` | `NoWordLost`, `NoWordTwice` |
| `BargeEngineProofs` | `TypeCorrect`, `VotedFor` | `TypeOK`, `TriggersOnOverlap` |
| | `CountedOnce` | the action property `GrowthCountsOnce` |
| `DeepgramStreamProofs` | `TypeCorrect`, `StoppedOnce` | `TypeOK`, `StoppedOnceUnlessCancelled` |
| | `StreamsInOrder` | `Spec => Stream!Steps` |
| `AudioUplinkProofs` | `TypeCorrect`, `NoSendAfterClose` | `TypeOK`, `CrashOnlyByOverlap` |
| | `ChunksContinue`, `PreRollLatest` | `ChunksInSequence`, `PreRollIsLatest` |
| `SignalingProofs` | `TypeCorrect`, `SecondCloseNeedsReopening`, `SocketLeavesNothing` | `TypeOK`, `ReuseNeedsReopening`, `ReturnsClosed` |

**Session.** None of its properties is inductive: `MarkedIffBarged` says nothing
of the turn that is still open, `AtMostOneLateBuffer` nothing of the buffer about to be written.
`BargeInv` adds what is missing, in five parts. `FieldsFollowLoop` ties the three fields under
`s.mu` to the loop's place: `speaking` and `ttsCancel` are set exactly inside a turn and name it, so
what a `BargeIn` reads in one critical section is the present turn or none. `BargedTurns` says that
inside a turn the flag records exactly whether the turn was barged into, and after it `wasBarged`
does. `CapturedTurns` says that a captured cancel function belongs to a turn that was barged into,
however late it is called. `LateCount` says the count is still zero while the flag is down or the
loop stands before a write, and `LateAudio` that a silenced turn has nothing in the sink while the
loop is before its last write. Each part is preserved given all five, one lemma per part
(`StepFields`, `StepBarged`, `StepCaptured`, `StepLateCount`, `StepLateAudio`), one step per action;
two lemmas on `Append` and `Tail` carry the sink's. `HistoryInv` adds to it that the chunks counted
so far belong to the present turn, in order, and were written.

**The refinement of Conversation.** One lemma per action of the session that is a step of the
conversation (`Receive` hears, `BeginTurn` speaks, `EndChunk` says, `BargeLock` interrupts, `Record`
reports); the others leave the mapped variables alone. The delicate ones are `EndTurn`, where the
mapping changes from the field to its copy, and a `BargeIn` that finds no turn: both need `BargeInv`.
`Numbered` keeps what is heard and said within the bounds of the abstract actions.

**OpusPacedWriter.** `Numbered`: the samples collected are consecutive and end at `written`, and the
line of frames, sent before queued, is ordered and stops where they begin (`Cut`). Whatever a `Reset`
or a `Close` takes out of the line leaves it ordered (`RemoveInOrder`), and what is pushed is newer
than the line because `w.mu` is held. For the refinement each action is classified by what it does
to `Pending`: it adds a run at the end, takes all up to a sample, or, once closed, takes a run out
of the middle; padding and silence change nothing.

**AssemblyAIService.** `OpenUntilClosing` says that until `stopCh` is closed the closer is idle, the
channels are open and a goroutine on its way to a rearm still finds the timer it tested: only
`Close` clears it. `Stages` relates a goroutine's place to the delta it carries. `NoLostWakeup`
needs `Awake` of every step that could take the last watcher away; `Ripe` gives
`NeverFinalizesEarly`: a callback that sleeps on a text that has not changed will have waited for
threshold and grace when it wakes. For the words, transcripts that grow are the numbers from 1 up,
so a delta is an interval; every step is one of five kinds (`Keeps`, `Extends`, `Takes`, `Tells`,
`GivesUp`, lemma `WordSteps`), and `Words` is preserved kind by kind: what was told and what is in
flight are apart, each word once, and together are what was committed.

**BargeEngine.** `Undecided`: between two frames the window has not agreed. A vote against cannot
make it agree, also when a vote drops out at the other end (`NoVoteNoAgreement`, by counting votes
with the lemmas on finite sets). `Tallied` ties `lastTokens` to the partial counted last.

**DeepgramStream.** `Budget` counts who may still stop the client, `Uncancelled` that without a
cancel the watcher never wakes to do so, `Order` when each channel is closed. Together they map
every step to one of `PCMStream` or none (`StepStreams`).

**AudioUplink.** `InOrder`: the buffer, or what it is about to become, holds the last `fill` samples
captured. `RingHolds`: reading k back from where the ring writes next gives the k-th last sample the
engine heard, or the silence it began with; the remainders around the ring are computed by `Around`,
`BackShifts` and `BackIsNotHere`. `ClosesInOrder` with `s.mu` shows that nobody is inside `SendAudio`
when the channel closes.

**Signaling.** The types are inductive once it is added that the connection has room for one more
change as long as it is not closed (`PeerType`), and that none exists before it is created
(`NoPeerYet`). `ServiceSteps` reduces every step to what it does to the service: nothing, a Connect,
a panic, or a step of a state handler (`CloseStep`). `ReuseNeedsReopening` needs to know what a
second `Close` finds between the two halves of the first, when `stopCh` is closed and `connected`
still set: that `s.mu` is held (`Held`), and that the goroutine holding it is not forgotten when
another change of state starts one (`Fresh`). `Behind` is `ReturnsClosed`, and is inductive because no state
comes after the close.

Where an invariant is not a property of a run, TLC checked it on the run's instance before it was
proved. `CancelIsMarked`, `OpenUntilClosing`, `SpokenFrozenByBarge` and the `TypeOK` of `BargeEngine`
and `DeepgramStream` are in no run's list; the first is a part of `BargeInv`, `CrashOnlyOnceClosing`
follows from the second, and the third from `ImplementsConversation`, whose `Say` needs
`~interrupted`.

Only model-checked: liveness, which is out of the prover's reach. These are `StopsAfterCancel`,
`ResetCompletes`, `CallersReturn`, `FinalizesEventually`, `CloseReturns`, `WatcherEnds`,
`CloseEndsSender`, `TeardownCompletes`, `CloseEndsSessions`, `ByeEndsCall`, `FailureCloses`, and the
liveness of `ImplementsConversation` and `ImplementsStream`, whose safety is `SessionConverses` and
`StreamsInOrder`. Every safety property of a passing run is proved.

## 6. Not modelled

- What ICE does with a candidate, the session descriptions, the outcome of the negotiation beyond
  success or failure: the peer connection is external (`CallMedia.NextStates`).
- The join beep, which is one more writer and flusher of `OpusPacedWriter` (its run has two of
  each); the transcript the handler prints at the end of a call.
- The contents of the `transcripts` channel; the LastIndex fallback of the delta, which cannot yield
  words that TrimPrefix did not; deltas that cut a word in two.
- What the energy cues of the engine compute (`FeedTTS48k`, RMS, `frameWindow`) and the stub echo
  canceller; `Reset` of the engine, which nothing calls.
- The engine may also trigger just after a turn has ended, because it reads `speaking` once per
  frame, although `barge/types.go:46` says it triggers only when speaking is true; the session's
  model lets such a trigger come as late as it may (`WantBarge`), and its properties cover it.
- An error of the Opus encoder, which skips a frame. The LLM client, configuration, `main` and all of
  the HTTP server but the two ways a request to `/call` ends: stateless, or run once.
- Text: splitting a reply into chunks (`chunkReply`), trimming, lower case, JSON.

## 7. Plan

In order of importance; the first four groups are done.

1. Core: `Session`, `PCMSink`, `OpusPacedWriter`, `AssemblyAIService`, `PCMStream`,
   `DeepgramStream`, `BargeEngine`; type invariant and safety of `Session`, first safety of
   `AssemblyAIService` proved.
2. The abstract `Conversation` and the session's refinement of it.
3. `CallMedia` and `Signaling`; `AudioUplink`.
4. Proofs: every safety property of the runs, and the steps of the three refinements.
5. Compositions: the session on a `PCMSink` and a `PCMStream` in place of its own queues, with
   the audio a late `Reset` may take from the next turn; the service with the session, with the
   order in which deltas arrive.
6. Pure algorithms against reference definitions: the delta of a transcript with its fallback,
   `chunkReply`, the tokens of `asrGrowth`.
