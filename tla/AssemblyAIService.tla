------------------------- MODULE AssemblyAIService -------------------------
(***************************************************************************)
(* internal/transcript/assemblyai.go: a reader goroutine takes the         *)
(* transcripts of the service, a timer finalizes what is new in them after *)
(* a silence, in a goroutine of its own, and Close flushes the rest.  The  *)
(* fields of the turn are under accMu, except that Close clears            *)
(* silenceTimer without it; the connection is under s.mu, which Close      *)
(* holds until it returns.                                                 *)
(*                                                                         *)
(* A transcript is a sequence of numbered words.  Time advances in ticks:  *)
(* the model keeps the age of lastUpdateTime and of lastVoiceTime and the  *)
(* time the timer still has to run.  No goroutine is ever too late for the *)
(* clock: any number of ticks may pass between two of its steps.           *)
(***************************************************************************)
EXTENDS Naturals, Sequences, FiniteSets, SequencesExt, FiniteSetsExt

CONSTANTS Callbacks,      \* bound: runs of finalizeDueToSilence at one time
          Reader, Closer, \* handleMessages; the goroutine in Close
          Nobody,         \* the owner of a free accMu
          SILENCE, EXTENSION, GRACE,  \* in ticks: 700, 1200 and 250 ms in the code
          FinalizeCap,    \* capacity of finalizeCh (10 in the code)
          Rewrites,       \* the transcripts that may arrive without extending the last
          Continuations,  \* words after which more is expected
          MaxConnects,    \* bound: calls of Connect (the handler's and Start's in the code)
          MaxUpdates      \* bound: settings of lastUpdateTime, the first connection's included

ASSUME TicksAssumption == SILENCE \in Nat \ {0} /\ EXTENSION \in Nat \ {0} /\ GRACE \in Nat \ {0}
ASSUME BoundsAssumption == /\ FinalizeCap \in Nat \ {0} /\ Rewrites \subseteq Seq(Nat) \ {<<>>}
                           /\ MaxConnects \in Nat /\ MaxUpdates \in Nat
ASSUME ProcsAssumption ==
  /\ Reader # Closer /\ {Reader, Closer} \cap Callbacks = {}
  /\ Nobody \notin Callbacks \cup {Reader, Closer}

VARIABLES
  (* under accMu *)
  accMu, latest, committed, updates, textAge, voiceAge,
  (* silenceTimer: the pointer, and what is left before it fires *)
  timerSet, timer,
  (* the connection and the channels *)
  connected, connects, stopped, finalizeCh, closed,
  (* the goroutines: where each is, its wait, its lastUpdateAt, its nap, its delta *)
  pc, wait, lastUpdateAt, nap, delta,
  crashed,
  (* history *)
  growing,    \* every transcript so far has extended the last
  received,   \* the deltas the session has taken
  timedOut    \* a flush gave up after its 200 ms

turnVars == <<latest, committed, updates, textAge, growing>>
timerVars == <<timerSet, timer>>
connVars == <<connected, connects, stopped, closed>>
outVars  == <<finalizeCh, received, timedOut>>
vars == <<accMu, turnVars, voiceAge, timerVars, connVars, outVars, pc, wait, lastUpdateAt, nap,
          delta, crashed>>

Procs == Callbacks \cup {Reader, Closer}
Off   == SILENCE + EXTENSION + 1        \* a timer that is stopped or has fired
OldAge == SILENCE + EXTENSION + GRACE   \* ages are not told apart from here on

\* The words of l that base does not hold: strings.TrimPrefix.
Fresh(l, base) == IF IsPrefix(base, l) THEN SubSeq(l, Len(base) + 1, Len(l)) ELSE l
Pending == Fresh(latest, committed)

\* Slips the code could have; each replaces a definition below in a mutant run.
ForgetsCommit     == UNCHANGED committed
ForgetsToRearm(w) == accMu' = Nobody /\ UNCHANGED timerVars
NeverChanged(c)   == FALSE
ForgetsStopCh     == UNCHANGED stopped
SendsAnyway       == TRUE
DropsWhenFull(c)  == TRUE
FlushWaitsForRoom == FALSE

Threshold ==
  IF latest # <<>> /\ Last(latest) \in Continuations THEN SILENCE + EXTENSION ELSE SILENCE
Committed    == committed' = latest
Changed(c)   == updates > lastUpdateAt[c]
StopChClosed == stopped' = TRUE
HasRoom      == Len(finalizeCh) < FinalizeCap
Abandons(c)  == stopped
TimeAfter200 == TRUE

Init ==
  /\ accMu = Nobody /\ latest = <<>> /\ committed = <<>> /\ updates = 0
  /\ textAge = 0 /\ voiceAge = 0 /\ timerSet = FALSE /\ timer = Off
  /\ connected = FALSE /\ connects = 0 /\ stopped = FALSE /\ finalizeCh = <<>> /\ closed = FALSE
  /\ pc = [p \in Procs |-> "idle"] /\ wait = [p \in Procs |-> 0]
  /\ lastUpdateAt = [c \in Callbacks |-> 0] /\ nap = [c \in Callbacks |-> 0]
  /\ delta = [p \in Procs |-> <<>>]
  /\ crashed = FALSE /\ growing = TRUE /\ received = <<>> /\ timedOut = FALSE

Goto(p, f, t) == pc[p] = f /\ pc' = [pc EXCEPT ![p] = t]
MuFree        == pc[Closer] = "idle"    \* Close holds s.mu while it runs

----------------------------------------------------------------------------
(* Steps several goroutines share. *)

\* silenceTimer.Stop and Reset, with accMu held; the pointer was not nil when it was tested.
Rearm(w) == timer' = w /\ accMu' = Nobody /\ UNCHANGED timerSet
\* AfterFunc, when it was.
NewTimer(w) == timer' = w /\ timerSet' = TRUE

\* With accMu taken and the silenceTimer tested: a new timer, or on to the old one's.
StartOrRearm(p, f, w, t) ==
  IF timerSet THEN Goto(p, f, "rearm") /\ wait' = [wait EXCEPT ![p] = w] /\ accMu' = p
                   /\ UNCHANGED timerVars
              ELSE Goto(p, f, t) /\ NewTimer(w) /\ UNCHANGED <<accMu, wait>>

\* The critical section that finalizeDueToSilence and flushPendingDelta end with.
Commit(p, f, send, done) ==
  /\ accMu = Nobody
  /\ IF Pending = <<>> THEN Goto(p, f, done) ELSE Goto(p, f, send)
  /\ delta' = [delta EXCEPT ![p] = Pending] /\ Committed
  /\ UNCHANGED <<accMu, latest, updates, textAge, growing>>

Send(p) ==
  /\ ~closed /\ HasRoom
  /\ finalizeCh' = Append(finalizeCh, delta[p]) /\ delta' = [delta EXCEPT ![p] = <<>>]

----------------------------------------------------------------------------
(* The callers: Connect, SendAudio, and the session that takes what is     *)
(* finalized.                                                              *)

\* The handler connects, then Session.Start does.  A Close in between makes the second one
\* open a connection again, whose own reader finds stopCh closed and returns.
Connect ==
  /\ MuFree /\ connects < MaxConnects
  /\ connects' = connects + 1
  /\ IF connected THEN UNCHANGED <<connected, updates, textAge, voiceAge, pc>>
     ELSE /\ connected' = TRUE /\ updates' = updates + 1 /\ textAge' = 0 /\ voiceAge' = 0
          /\ IF stopped THEN UNCHANGED pc
             ELSE pc' = [pc EXCEPT ![Reader] = "top"]
  /\ UNCHANGED <<accMu, latest, committed, growing, timerVars, stopped, closed, outVars, wait,
                 lastUpdateAt, nap, delta, crashed>>

\* SendAudio of a chunk loud enough for detectVoiceActivity; a closed audioData panics.
SendVoice ==
  /\ MuFree /\ connected /\ accMu = Nobody /\ voiceAge' = 0 /\ crashed' = closed
  /\ UNCHANGED <<accMu, turnVars, timerVars, connVars, outVars, pc, wait, lastUpdateAt, nap,
                 delta>>

\* The session takes a finalized utterance.
Receive ==
  /\ finalizeCh # <<>>
  /\ received' = Append(received, Head(finalizeCh)) /\ finalizeCh' = Tail(finalizeCh)
  /\ UNCHANGED <<accMu, turnVars, voiceAge, timerVars, connVars, timedOut, pc, wait,
                 lastUpdateAt, nap, delta, crashed>>

----------------------------------------------------------------------------
(* handleMessages *)
ReaderUnchanged == UNCHANGED <<voiceAge, connVars, lastUpdateAt, nap, crashed>>

\* stopCh, then s.conn under s.mu; Close has set it to nil once it is over.
LoopTop ==
  /\ \/ stopped /\ Goto(Reader, "top", "done")
     \/ ~stopped /\ Goto(Reader, "top", "conn")
     \/ MuFree /\ Goto(Reader, "conn", IF connected THEN "read" ELSE "done")
  /\ ReaderUnchanged /\ UNCHANGED <<accMu, turnVars, timerVars, outVars, wait, delta>>

\* ReadMessage: an error, a Turn, a Termination, or a message that changes nothing.
ReadMessage ==
  /\ \/ Goto(Reader, "read", "done")
     \/ updates < MaxUpdates /\ Goto(Reader, "read", "turn")
     \/ Goto(Reader, "read", "flush")
     \/ Goto(Reader, "read", "top")
  /\ ReaderUnchanged /\ UNCHANGED <<accMu, turnVars, timerVars, outVars, wait, delta>>

\* The partial is queued or dropped; on a closed channel the send panics and is recovered.
SendPartial ==
  /\ IF closed THEN Goto(Reader, "turn", "panicked") ELSE Goto(Reader, "turn", "lock")
  /\ ReaderUnchanged /\ UNCHANGED <<accMu, turnVars, timerVars, outVars, wait, delta>>

Longer      == {latest, Append(latest, Len(latest) + 1)} \ {<<>>}
Transcripts == Longer \cup Rewrites

UpdateTurn ==
  /\ accMu = Nobody
  /\ latest' \in Transcripts /\ updates' = updates + 1 /\ textAge' = 0
  /\ growing' = (growing /\ latest' \in Longer)
  /\ StartOrRearm(Reader, "lock", SILENCE, "top")
  /\ ReaderUnchanged /\ UNCHANGED <<committed, outVars, delta>>

\* A nil silenceTimer panics; the panic is recovered in handleMessages, accMu stays locked.
RearmTurn ==
  /\ IF timerSet THEN Goto(Reader, "rearm", "top") /\ Rearm(wait[Reader])
                 ELSE Goto(Reader, "rearm", "panicked") /\ UNCHANGED <<accMu, timerVars>>
  /\ wait' = [wait EXCEPT ![Reader] = 0]
  /\ ReaderUnchanged /\ UNCHANGED <<turnVars, outVars, delta>>

\* flushPendingDelta on a Termination, the send on a closed finalizeCh panics.
FlushTermination ==
  /\ \/ Commit(Reader, "flush", "flushSend", "top") /\ UNCHANGED outVars
     \/ /\ pc[Reader] = "flushSend" /\ UNCHANGED <<accMu, turnVars>>
        /\ \/ Send(Reader) /\ Goto(Reader, "flushSend", "top") /\ UNCHANGED <<received, timedOut>>
           \/ TimeAfter200 /\ Goto(Reader, "flushSend", "top") /\ timedOut' = TRUE
              /\ delta' = [delta EXCEPT ![Reader] = <<>>] /\ UNCHANGED <<finalizeCh, received>>
           \/ closed /\ Goto(Reader, "flushSend", "panicked") /\ UNCHANGED <<delta, outVars>>
  /\ ReaderUnchanged /\ UNCHANGED <<timerVars, wait>>

HandleMessages == \/ LoopTop \/ ReadMessage \/ SendPartial \/ UpdateTurn \/ RearmTurn
                  \/ FlushTermination

----------------------------------------------------------------------------
(* finalizeDueToSilence *)
CallbackUnchanged == UNCHANGED <<voiceAge, connVars>>

TimerFires(c) ==
  /\ timer = 0 /\ timer' = Off /\ Goto(c, "idle", "start")
  /\ CallbackUnchanged
  /\ UNCHANGED <<accMu, turnVars, timerSet, outVars, wait, lastUpdateAt, nap, delta, crashed>>

CheckStopCh(c) ==
  /\ Goto(c, "start", IF stopped THEN "idle" ELSE "first")
  /\ CallbackUnchanged
  /\ UNCHANGED <<accMu, turnVars, timerVars, outVars, wait, lastUpdateAt, nap, delta, crashed>>

\* The first check: too early rearms the timer for the shortest of what is missing.
Missing == {Threshold - a : a \in {x \in {textAge, voiceAge} : x < Threshold}}
FirstCheck(c) ==
  /\ accMu = Nobody
  /\ IF Missing # {}
     THEN StartOrRearm(c, "first", Min(Missing), "idle") /\ UNCHANGED <<lastUpdateAt, nap>>
     ELSE /\ Goto(c, "first", "sleep")
          /\ lastUpdateAt' = [lastUpdateAt EXCEPT ![c] = updates]
          /\ nap' = [nap EXCEPT ![c] = GRACE]
          /\ UNCHANGED <<accMu, timerVars, wait>>
  /\ CallbackUnchanged /\ UNCHANGED <<turnVars, outVars, delta, crashed>>

\* A nil silenceTimer panics, and nothing recovers a panic of the timer's goroutine.
RearmSilence(c) ==
  /\ IF timerSet THEN Goto(c, "rearm", "idle") /\ Rearm(wait[c]) /\ UNCHANGED crashed
                 ELSE Goto(c, "rearm", "idle") /\ crashed' = TRUE /\ UNCHANGED <<accMu, timerVars>>
  /\ wait' = [wait EXCEPT ![c] = 0]
  /\ CallbackUnchanged /\ UNCHANGED <<turnVars, outVars, lastUpdateAt, nap, delta>>

\* The second check, after the grace: only a newer text postpones again, a voice does not.
SecondCheck(c) ==
  /\ nap[c] = 0 /\ accMu = Nobody
  /\ IF Changed(c)
     THEN /\ StartOrRearm(c, "sleep", IF textAge < Threshold THEN Threshold - textAge
                                                               ELSE Threshold, "idle")
          /\ UNCHANGED <<turnVars, delta>>
     ELSE Commit(c, "sleep", "send", "idle") /\ UNCHANGED <<timerVars, wait>>
  /\ lastUpdateAt' = [lastUpdateAt EXCEPT ![c] = 0]
  /\ CallbackUnchanged /\ UNCHANGED <<outVars, nap, crashed>>

\* The select over stopCh and finalizeCh takes either that is ready; a closed channel panics.
SendDelta(c) ==
  /\ Goto(c, "send", "idle")
  /\ \/ Send(c) /\ UNCHANGED <<received, timedOut, crashed>>
     \/ Abandons(c) /\ delta' = [delta EXCEPT ![c] = <<>>] /\ UNCHANGED <<outVars, crashed>>
     \/ closed /\ crashed' = TRUE /\ UNCHANGED <<delta, outVars>>
  /\ CallbackUnchanged /\ UNCHANGED <<accMu, turnVars, timerVars, wait, lastUpdateAt, nap>>

FinalizeDueToSilence(c) ==
  CheckStopCh(c) \/ FirstCheck(c) \/ RearmSilence(c) \/ SecondCheck(c) \/ SendDelta(c)

----------------------------------------------------------------------------
(* Close *)
CloseUnchanged == UNCHANGED <<voiceAge, wait, lastUpdateAt, nap, connects>>

\* Closing stopCh a second time, after a second Connect, panics.
CloseStopCh ==
  /\ connected /\ Goto(Closer, "idle", "timer")
  /\ crashed' = stopped /\ StopChClosed
  /\ CloseUnchanged
  /\ UNCHANGED <<accMu, turnVars, timerVars, connected, closed, outVars, delta>>

\* Without accMu.
ClearTimer ==
  /\ Goto(Closer, "timer", "terminate") /\ timer' = Off /\ timerSet' = FALSE
  /\ CloseUnchanged
  /\ UNCHANGED <<accMu, turnVars, connected, stopped, closed, outVars, delta, crashed>>

\* WriteJSON has no deadline: it returns, it meets a write of sendAudioData on the socket and
\* panics (see AudioUplink), or it stalls for good with s.mu held.
Terminate ==
  /\ \/ Goto(Closer, "terminate", "conn") /\ UNCHANGED crashed
     \/ Goto(Closer, "terminate", "conn") /\ crashed' = TRUE
     \/ Goto(Closer, "terminate", "stalled") /\ UNCHANGED crashed
  /\ CloseUnchanged
  /\ UNCHANGED <<accMu, turnVars, timerVars, connected, stopped, closed, outVars, delta>>

CloseConn ==
  /\ Goto(Closer, "conn", "flush") /\ connected' = FALSE
  /\ CloseUnchanged
  /\ UNCHANGED <<accMu, turnVars, timerVars, stopped, closed, outVars, delta, crashed>>

FlushPendingDelta ==
  /\ \/ Commit(Closer, "flush", "flushSend", "chans") /\ UNCHANGED outVars
     \/ /\ pc[Closer] = "flushSend" /\ UNCHANGED <<accMu, turnVars>>
        /\ \/ Send(Closer) /\ UNCHANGED <<received, timedOut>>
           \/ TimeAfter200 /\ timedOut' = TRUE /\ delta' = [delta EXCEPT ![Closer] = <<>>]
              /\ UNCHANGED <<finalizeCh, received>>
        /\ Goto(Closer, "flushSend", "chans")
  /\ CloseUnchanged /\ UNCHANGED <<timerVars, connected, stopped, closed, crashed>>

CloseChannels ==
  /\ Goto(Closer, "chans", "idle") /\ closed' = TRUE
  /\ CloseUnchanged
  /\ UNCHANGED <<accMu, turnVars, timerVars, connected, stopped, outVars, delta, crashed>>

Close == \/ CloseStopCh \/ ClearTimer \/ Terminate \/ CloseConn \/ FlushPendingDelta
         \/ CloseChannels

----------------------------------------------------------------------------
Older(a, n) == IF a < n THEN a + 1 ELSE n
Sooner(n)   == IF n = 0 THEN 0 ELSE n - 1

Tick ==
  /\ textAge' = Older(textAge, OldAge) /\ voiceAge' = Older(voiceAge, OldAge)
  /\ timer' = IF timer = Off THEN Off ELSE Sooner(timer)
  /\ nap' = [c \in Callbacks |-> Sooner(nap[c])]
  /\ UNCHANGED <<accMu, latest, committed, updates, growing, timerSet, connVars, outVars, pc, wait,
                 lastUpdateAt, delta, crashed>>

\* A panic that nobody recovers ends the process.
Next == /\ ~crashed
        /\ \/ Connect \/ SendVoice \/ Receive \/ HandleMessages \/ Close \/ Tick
           \/ \E c \in Callbacks : TimerFires(c) \/ FinalizeDueToSilence(c)

\* Goroutines run, sync.Mutex does not starve, the clock advances, and the session takes
\* what is finalized until the call ends; nothing is promised of the service, the mic or
\* whoever calls Close, and Terminate may take the step that stalls.
Fairness ==
  /\ WF_vars(~crashed /\ Tick) /\ WF_vars(~crashed /\ ~stopped /\ Receive)
  /\ WF_vars(~crashed /\ \E c \in Callbacks : TimerFires(c))
  /\ \A c \in Callbacks : SF_vars(~crashed /\ FinalizeDueToSilence(c))
  /\ SF_vars(~crashed /\ (SendPartial \/ UpdateTurn \/ RearmTurn \/ FlushTermination))
  /\ SF_vars(~crashed /\ (ClearTimer \/ Terminate \/ CloseConn \/ FlushPendingDelta
                            \/ CloseChannels))

Spec     == Init /\ [][Next]_vars
FairSpec == Spec /\ Fairness

----------------------------------------------------------------------------
ReaderPC   == {"idle", "top", "conn", "read", "turn", "lock", "rearm", "flush", "flushSend",
               "done", "panicked"}
CallbackPC == {"idle", "start", "first", "rearm", "sleep", "send"}
CloserPC   == {"idle", "timer", "terminate", "stalled", "conn", "flush", "flushSend", "chans"}

(* Types; accMu is held between two steps only on the way to a rearm, and  *)
(* by a reader that panicked there.                                        *)
TypeTurn ==
  /\ latest \in Seq(Nat) /\ committed \in Seq(Nat) /\ growing \in BOOLEAN
  /\ updates \in 0..(MaxUpdates + connects) /\ connects \in 0..MaxConnects
  /\ textAge \in 0..OldAge /\ voiceAge \in 0..OldAge
TypeOut ==
  /\ finalizeCh \in Seq(Seq(Nat) \ {<<>>}) /\ Len(finalizeCh) <= FinalizeCap
  /\ received \in Seq(Seq(Nat) \ {<<>>}) /\ timedOut \in BOOLEAN /\ delta \in [Procs -> Seq(Nat)]
TypeProcs ==
  /\ {connected, stopped, closed, crashed, timerSet} \subseteq BOOLEAN
  /\ timer \in 0..Off /\ wait \in [Procs -> 0..(Off - 1)]
  /\ \A c \in Callbacks : pc[c] \in CallbackPC
  /\ pc[Reader] \in ReaderPC /\ pc[Closer] \in CloserPC
  /\ lastUpdateAt \in [Callbacks -> 0..updates] /\ nap \in [Callbacks -> 0..GRACE]
TypeLock ==
  /\ accMu \in Procs \cup {Nobody}
  /\ accMu # Nobody => pc[accMu] \in {"rearm", "panicked"} \/ crashed
TypeOK == TypeTurn /\ TypeOut /\ TypeProcs /\ TypeLock

(* While the service is open, words that are not finalized have a timer    *)
(* that runs or a callback on its way: the reader and the callbacks all    *)
(* stop and reset the same timer, and none may leave it off.               *)
NoLostWakeup ==
  (Pending # <<>> /\ ~stopped) =>
    \/ timer # Off \/ pc[Reader] = "rearm"
    \/ \E c \in Callbacks : pc[c] \in {"start", "first", "rearm", "sleep"}

(* A silence finalizes a text only when that text is SILENCE old, longer   *)
(* if its last word asks for more, and then stood for the grace: a text    *)
(* that arrives between the two critical sections must postpone it.        *)
NeverFinalizesEarly ==
  [][\A c \in Callbacks : (pc[c] = "sleep" /\ pc'[c] = "send") =>
       textAge >= GRACE + (IF Last(latest) \in Continuations THEN SILENCE + EXTENSION
                                                            ELSE SILENCE)]_vars

Told     == received \o finalizeCh       \* the deltas that were sent
Sent     == UNION {ToSet(Told[n]) : n \in DOMAIN Told}
InFlight == UNION {ToSet(delta[p]) : p \in Procs}

(* Until Close, and unless a flush timed out, every word that counts as    *)
(* committed has reached the session, waits in finalizeCh or is about to   *)
(* be sent: a full finalizeCh makes the callback wait, not drop.           *)
NoWordLost == (growing /\ ~stopped /\ ~timedOut) => ToSet(committed) = Sent \cup InFlight

(* The callbacks, a Termination and Close all finalize what is new: none   *)
(* finalizes a word another one has taken.                                 *)
NoWordTwice ==
  growing =>
    /\ \A m, n \in DOMAIN Told : \A j \in DOMAIN Told[m], k \in DOMAIN Told[n] :
         Told[m][j] = Told[n][k] => m = n /\ j = k
    /\ Sent \cap InFlight = {}
    /\ \A p, q \in Procs : p # q => ToSet(delta[p]) \cap ToSet(delta[q]) = {}

(* A panic ends the process only once Close has begun: until then no       *)
(* channel is closed, no timer cleared and stopCh closes once.             *)
CrashOnlyOnceClosing == crashed => stopped

(* Why: the inductive invariant of its proof.                              *)
OpenUntilClosing ==
  /\ pc \in [Procs -> ReaderPC \cup CallbackPC \cup CloserPC]
  /\ CrashOnlyOnceClosing /\ (closed => stopped) /\ (pc[Closer] # "idle" => stopped)
  /\ ~stopped => \A p \in Procs : pc[p] = "rearm" => timerSet

(* A text is finalized, unless voice keeps coming or Close begins.         *)
Quiet == <>[][~SendVoice]_vars
FinalizesEventually == Quiet => (Pending # <<>> ~> (Pending = <<>> \/ stopped))

(* Close returns although nobody takes the last delta, provided that the   *)
(* write of its Terminate returns (assemblyai.go:202), and unless a panic  *)
(* ended the process or left accMu locked.                                 *)
Leaked  == pc[Reader] = "panicked" /\ accMu = Reader
Stalled == pc[Closer] = "stalled"
CloseReturns == pc[Closer] # "idle" ~> (pc[Closer] = "idle" \/ crashed \/ Leaked \/ Stalled)
=============================================================================
