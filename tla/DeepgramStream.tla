--------------------------- MODULE DeepgramStream ---------------------------
(***************************************************************************)
(* StreamPCM48k of internal/tts/deepgram.go: a goroutine that opens the    *)
(* synthesis and watches over it, a second one that stops the client when  *)
(* ctx is done, and the SDK's callback that queues the audio.  The flag    *)
(* that keeps the client from being stopped twice is not synchronised.     *)
(* The SDK (Connect, SpeakWithText, Stop, the callbacks) is external:      *)
(* callbacks start and run until a Stop has returned, none starts then.    *)
(***************************************************************************)
EXTENDS Naturals, Sequences, SequencesExt

CONSTANTS Main, Watcher,   \* the two goroutines
          PcmCap,          \* capacity of pcmCh (4096 in the code)
          IDLE, DEADLINE,  \* in ticks: 400 ms without audio, 12 s in all
          MaxAudio         \* bound: buffers the service sends

ASSUME StreamAssumption == Main # Watcher /\ PcmCap \in Nat \ {0} /\ MaxAudio \in Nat
                           /\ IDLE \in Nat \ {0} /\ DEADLINE \in Nat \ {0}

VARIABLES pc, pcmCh, pcmClosed, errSent, errClosed, doneClosed, stopped, ctxDone,
          seenAudio, age, clock,   \* ticks since the last audio, since the loop began
          cb,                      \* the SDK's callback: idle, at the send, or panicked
          arrived,                 \* buffers the service sent
          queued,                  \* the last of them that found room
          stops                    \* calls of dg.Stop that returned

chanVars == <<pcmCh, pcmClosed, errSent, errClosed, queued>>
timeVars == <<seenAudio, age, clock>>
sdkVars  == <<cb, arrived>>
vars == <<pc, chanVars, doneClosed, stopped, ctxDone, timeVars, sdkVars, stops>>

Goto(p, f, t) == pc[p] = f /\ pc' = [pc EXCEPT ![p] = t]

\* Slips the code could have; each replaces a definition below in a mutant run.
AlwaysStops  == TRUE
NeverLate    == FALSE
LeavesDone   == UNCHANGED doneClosed

NotStopped == ~stopped
HasRoom    == Len(pcmCh) < PcmCap
TooLate    == clock > DEADLINE
CloseDone  == doneClosed' = TRUE

Init ==
  /\ pc = [p \in {Main, Watcher} |-> IF p = Main THEN "start" ELSE "none"]
  /\ pcmCh = <<>> /\ queued = 0 /\ pcmClosed = FALSE /\ errSent = FALSE /\ errClosed = FALSE
  /\ doneClosed = FALSE /\ stopped = FALSE /\ ctxDone = FALSE
  /\ seenAudio = FALSE /\ age = 0 /\ clock = 0
  /\ cb = "idle" /\ arrived = 0 /\ stops = 0

----------------------------------------------------------------------------
\* No key or no client: an error.  An empty text: nothing.  Only the closing is deferred yet.
Start ==
  /\ \/ Goto(Main, "start", "closeErr") /\ errSent' \in BOOLEAN
     \/ Goto(Main, "start", "connect") /\ UNCHANGED errSent
  /\ UNCHANGED <<pcmCh, queued, pcmClosed, errClosed, doneClosed, stopped, ctxDone, timeVars,
                 sdkVars, stops>>

Connect ==
  /\ \/ Goto(Main, "connect", "defer") /\ errSent' = TRUE
     \/ /\ pc[Main] = "connect" /\ pc' = [pc EXCEPT ![Main] = "speak", ![Watcher] = "wait"]
        /\ UNCHANGED errSent
  /\ UNCHANGED <<pcmCh, queued, pcmClosed, errClosed, doneClosed, stopped, ctxDone, timeVars,
                 sdkVars, stops>>

\* SpeakWithText; an error of Flush is only logged.
Speak ==
  /\ \/ Goto(Main, "speak", "defer") /\ errSent' = TRUE /\ CloseDone /\ UNCHANGED clock
     \/ Goto(Main, "speak", "loop") /\ clock' = 0 /\ UNCHANGED <<errSent, doneClosed>>
  /\ UNCHANGED <<pcmCh, queued, pcmClosed, errClosed, stopped, ctxDone, seenAudio, age,
                 sdkVars, stops>>

\* The select: ctx.Done, or a tick that finds the audio over or the deadline passed.
LoopExits ==
  /\ ctxDone \/ (seenAudio /\ age > IDLE) \/ TooLate
  /\ Goto(Main, "loop", "stop")
  /\ UNCHANGED <<chanVars, doneClosed, stopped, ctxDone, timeVars, sdkVars, stops>>

\* stopClient: the test, the write, and dg.Stop, which takes its time.
StopClient(p, f, set, in, next) ==
  /\ \/ Goto(p, f, IF NotStopped THEN set ELSE next) /\ UNCHANGED <<stopped, stops>>
     \/ Goto(p, set, in) /\ stopped' = TRUE /\ UNCHANGED stops
     \/ Goto(p, in, next) /\ stops' = stops + 1 /\ UNCHANGED stopped
  /\ UNCHANGED <<chanVars, doneClosed, ctxDone, timeVars, sdkVars>>

AfterStop ==
  /\ Goto(Main, "closeDone", "defer") /\ CloseDone
  /\ UNCHANGED <<chanVars, stopped, ctxDone, timeVars, sdkVars, stops>>

CloseErr ==
  /\ Goto(Main, "closeErr", "closePcm") /\ errClosed' = TRUE
  /\ UNCHANGED <<pcmCh, queued, pcmClosed, errSent, doneClosed, stopped, ctxDone, timeVars,
                 sdkVars, stops>>

ClosePcm ==
  /\ Goto(Main, "closePcm", "ended") /\ pcmClosed' = TRUE
  /\ UNCHANGED <<pcmCh, queued, errSent, errClosed, doneClosed, stopped, ctxDone, timeVars,
                 sdkVars, stops>>

MainStep == \/ Start \/ Connect \/ Speak \/ LoopExits \/ AfterStop \/ CloseErr \/ ClosePcm
            \/ StopClient(Main, "stop", "stopSet", "stopping", "closeDone")
            \/ StopClient(Main, "defer", "deferSet", "deferStopping", "closeErr")

WatcherWakes ==
  /\ \/ ctxDone /\ Goto(Watcher, "wait", "stop")
     \/ doneClosed /\ Goto(Watcher, "wait", "ended")
  /\ UNCHANGED <<chanVars, doneClosed, stopped, ctxDone, timeVars, sdkVars, stops>>

WatcherStep == WatcherWakes \/ StopClient(Watcher, "stop", "stopSet", "stopping", "ended")

----------------------------------------------------------------------------
\* onBinary: the time stamp and seenAudio, then the send, which drops when pcmCh is full.
AudioArrives ==
  /\ pc[Watcher] # "none" /\ stops = 0 /\ cb = "idle" /\ arrived < MaxAudio
  /\ arrived' = arrived + 1 /\ cb' = "send" /\ seenAudio' = TRUE /\ age' = 0
  /\ UNCHANGED <<pc, chanVars, doneClosed, stopped, ctxDone, clock, stops>>

\* A send on the closed pcmCh panics in the SDK's goroutine.
CallbackSends ==
  /\ cb = "send"
  /\ IF pcmClosed THEN cb' = "panicked" /\ UNCHANGED <<pcmCh, queued>>
     ELSE /\ cb' = "idle"
          /\ IF HasRoom THEN pcmCh' = Append(pcmCh, arrived) /\ queued' = arrived
                        ELSE UNCHANGED <<pcmCh, queued>>
  /\ UNCHANGED <<pc, pcmClosed, errSent, errClosed, doneClosed, stopped, ctxDone, timeVars,
                 arrived, stops>>

\* The turn loop takes a buffer, or cancels ctx.
Take ==
  /\ pcmCh # <<>> /\ pcmCh' = Tail(pcmCh)
  /\ UNCHANGED <<pc, queued, pcmClosed, errSent, errClosed, doneClosed, stopped, ctxDone,
                 timeVars, sdkVars, stops>>

Cancel ==
  /\ ~ctxDone /\ ctxDone' = TRUE
  /\ UNCHANGED <<pc, chanVars, doneClosed, stopped, timeVars, sdkVars, stops>>

Tick ==
  /\ age' = (IF age > IDLE THEN age ELSE age + 1)
  /\ clock' = (IF clock > DEADLINE THEN clock ELSE clock + 1)
  /\ UNCHANGED <<pc, chanVars, doneClosed, stopped, ctxDone, seenAudio, sdkVars, stops>>

Next == MainStep \/ WatcherStep \/ AudioArrives \/ CallbackSends \/ Take \/ Cancel \/ Tick

\* Goroutines run and the clock advances; the service and the turn loop may do nothing.
Spec     == Init /\ [][Next]_vars
FairSpec == Spec /\ WF_vars(MainStep) /\ WF_vars(WatcherStep) /\ WF_vars(Tick)

----------------------------------------------------------------------------
(* Types, the capacities, and that the client is never stopped more than   *)
(* twice: the race on the flag lets both goroutines through.               *)
TypeOK ==
  /\ pcmCh \in Seq(1..MaxAudio) /\ Len(pcmCh) <= PcmCap /\ queued \in 0..arrived
  /\ {pcmClosed, errSent, errClosed, doneClosed, stopped, ctxDone, seenAudio} \subseteq BOOLEAN
  /\ cb \in {"idle", "send", "panicked"} /\ arrived \in 0..MaxAudio
  /\ age \in 0..(IDLE + 1) /\ clock \in 0..(DEADLINE + 1) /\ stops \in 0..2

(* Without a cancel the client is stopped once, on whichever way out and   *)
(* with the deferred stopClient after the loop's own.  Under a cancel both *)
(* goroutines may find the flag unset, and both stop it (deepgram.go:77,   *)
(* 93, 114).                                                               *)
StoppedOnceUnlessCancelled == stops = 2 => ctxDone

(* The goroutine that waits for ctx does not outlive the stream: every way *)
(* out of the first one after it was started closes done.                  *)
WatcherEnds == pc[Watcher] = "wait" ~> pc[Watcher] = "ended"

(* The channels are a PCMStream, and they are closed by the deadline at    *)
(* the latest, even if the service is silent and nobody takes anything.    *)
Stream == INSTANCE PCMStream WITH queue <- pcmCh, newest <- queued, failed <- errSent,
                                  errEnded <- errClosed, ended <- pcmClosed
ImplementsStream == Stream!Spec
=============================================================================
