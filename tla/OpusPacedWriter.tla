-------------------------- MODULE OpusPacedWriter --------------------------
(***************************************************************************)
(* internal/rtc/audio.go: PCM is collected in pcmBuf, cut into frames,     *)
(* queued on the channel frames and sent by the pacer, one frame a tick.   *)
(* WritePCM, FlushTail's first half, Reset and Close hold w.mu; pushFrame  *)
(* blocks while frames is full, with w.mu held in all but FlushTail's      *)
(* silence.  A sample is its number in the order of writing; 0 is padding. *)
(***************************************************************************)
EXTENDS Naturals, Sequences, FiniteSets, SequencesExt

CONSTANTS Writers,        \* goroutines that call WritePCM
          Flushers,       \* goroutines that call FlushTail: the turn loop, the teardown
          Resetters,      \* goroutines that call Reset
          Closers,        \* goroutines that call Close: the teardown's timer
          Nobody,         \* the owner of a free w.mu
          FrameSamples,   \* samples of a frame (960 in the code)
          FramesCap,      \* capacity of frames (512 in the code)
          SilenceFrames,  \* frames of silence FlushTail adds (10 in the code)
          MaxSamples      \* bound: samples ever written

Callers == Writers \cup Flushers \cup Resetters \cup Closers

ASSUME CallersAssumption == Nobody \notin Callers
ASSUME SizesAssumption   == /\ FrameSamples \in Nat \ {0} /\ FramesCap \in Nat \ {0}
                            /\ SilenceFrames \in Nat \ {0} /\ MaxSamples \in Nat

VARIABLES pcmBuf, frames, stopped, mu,
          pacing,        \* the pacer has not returned
          pc,            \* where each caller is
          left,          \* frames of silence a flusher still has to push
          written,       \* samples handed to WritePCM so far
          sent,          \* frames the pacer sent, those of silence left out
          resetMark      \* the last sample written before a Reset returned

vars == <<pcmBuf, frames, stopped, mu, pacing, pc, left, written, sent, resetMark>>

Padding == 0
PCs     == {"idle", "push", "pad", "silence", "reset", "drain"}
Holding == {"push", "pad", "drain"}   \* where w.mu is held

\* Slips the code could have; each replaces one of the definitions below in a mutant run.
KeepsPcmBuf      == pcmBuf' = pcmBuf
StopsAtOneFrame  == Len(frames) <= 1
CutsWithoutRoom  == TRUE
IgnoresStopCh    == FALSE
NeverUnlocks     == UNCHANGED mu
DropsWhenFull    == TRUE

BufEmptied == pcmBuf' = <<>>
Drained    == frames = <<>>
HasRoom    == Len(frames) < FramesCap
StopChClosed == stopped
Unlock     == mu' = Nobody

FullFrame   == SubSeq(pcmBuf, 1, FrameSamples)
PaddedFrame == pcmBuf \o [k \in 1..(FrameSamples - Len(pcmBuf)) |-> Padding]
SilentFrame == [k \in 1..FrameSamples |-> Padding]

Init ==
  /\ pcmBuf = <<>> /\ frames = <<>> /\ stopped = FALSE /\ mu = Nobody /\ pacing = TRUE
  /\ pc = [c \in Callers |-> "idle"] /\ left = [c \in Callers |-> 0]
  /\ written = 0 /\ sent = <<>> /\ resetMark = 0

Lock(c)         == mu = Nobody /\ mu' = c
Goto(c, f, t)   == pc[c] = f /\ pc' = [pc EXCEPT ![c] = t]
\* pushFrame: the frame is queued, or dropped once stopCh is closed; either if both are ready.
PushFrame(f)    == \/ HasRoom /\ frames' = Append(frames, f)
                   \/ StopChClosed /\ UNCHANGED frames

----------------------------------------------------------------------------
WritePCM(c) ==
  /\ c \in Writers /\ Goto(c, "idle", "push") /\ Lock(c)
  /\ \E n \in written+1..MaxSamples :
       /\ written' = n
       /\ pcmBuf' = pcmBuf \o [k \in 1..(n - written) |-> written + k]
  /\ UNCHANGED <<frames, stopped, pacing, left, sent, resetMark>>

PushFull(c) ==
  /\ pc[c] = "push" /\ Len(pcmBuf) >= FrameSamples
  /\ PushFrame(FullFrame)
  /\ pcmBuf' = SubSeq(pcmBuf, FrameSamples + 1, Len(pcmBuf))
  /\ UNCHANGED <<stopped, mu, pacing, pc, left, written, sent, resetMark>>

WriteReturns(c) ==
  /\ Len(pcmBuf) < FrameSamples /\ Goto(c, "push", "idle") /\ Unlock
  /\ UNCHANGED <<pcmBuf, frames, stopped, pacing, left, written, sent, resetMark>>

FlushTail(c) ==
  /\ c \in Flushers /\ pc[c] = "idle" /\ mu = Nobody
  /\ left' = [left EXCEPT ![c] = SilenceFrames]
  /\ IF pcmBuf # <<>> THEN Goto(c, "idle", "pad") /\ Lock(c)
                      ELSE Goto(c, "idle", "silence") /\ UNCHANGED mu
  /\ UNCHANGED <<pcmBuf, frames, stopped, pacing, written, sent, resetMark>>

PushPadded(c) ==
  /\ Goto(c, "pad", "silence")
  /\ PushFrame(PaddedFrame) /\ BufEmptied /\ Unlock
  /\ UNCHANGED <<stopped, pacing, left, written, sent, resetMark>>

\* The frames of silence are pushed without w.mu.
PushSilence(c) ==
  /\ pc[c] = "silence" /\ left[c] > 0
  /\ PushFrame(SilentFrame)
  /\ left' = [left EXCEPT ![c] = @ - 1]
  /\ UNCHANGED <<pcmBuf, stopped, mu, pacing, pc, written, sent, resetMark>>

FlushReturns(c) ==
  /\ left[c] = 0 /\ Goto(c, "silence", "idle")
  /\ UNCHANGED <<pcmBuf, frames, stopped, mu, pacing, left, written, sent, resetMark>>

CallReset(c) ==
  /\ c \in Resetters /\ Goto(c, "idle", "reset")
  /\ UNCHANGED <<pcmBuf, frames, stopped, mu, pacing, left, written, sent, resetMark>>

ResetLocks(c) ==
  /\ Goto(c, "reset", "drain") /\ Lock(c)
  /\ UNCHANGED <<pcmBuf, frames, stopped, pacing, left, written, sent, resetMark>>

Drain(c) ==
  /\ pc[c] = "drain" /\ frames # <<>>
  /\ frames' = Tail(frames)
  /\ UNCHANGED <<pcmBuf, stopped, mu, pacing, pc, left, written, sent, resetMark>>

ResetReturns(c) ==
  /\ Drained /\ Goto(c, "drain", "idle")
  /\ BufEmptied /\ Unlock /\ resetMark' = written
  /\ UNCHANGED <<frames, stopped, pacing, left, written, sent>>

Close(c) ==
  /\ c \in Closers /\ mu = Nobody
  /\ stopped' = TRUE
  /\ UNCHANGED <<pcmBuf, frames, mu, pacing, pc, left, written, sent, resetMark>>

----------------------------------------------------------------------------
\* The pacer: a tick may still win against the closed stopCh.  sent records what it takes from the
\* queue; WriteSample follows in the same goroutine, so in the same order, and shares no state.
Tick ==
  /\ pacing /\ frames # <<>>
  /\ sent' = IF Head(frames) = SilentFrame THEN sent ELSE Append(sent, Head(frames))
  /\ frames' = Tail(frames)
  /\ UNCHANGED <<pcmBuf, stopped, mu, pacing, pc, left, written, resetMark>>

PacerReturns ==
  /\ pacing /\ stopped /\ pacing' = FALSE
  /\ UNCHANGED <<pcmBuf, frames, stopped, mu, pc, left, written, sent, resetMark>>

Step(c) == \/ PushFull(c) \/ WriteReturns(c) \/ PushPadded(c) \/ PushSilence(c)
           \/ FlushReturns(c) \/ Drain(c) \/ ResetReturns(c)

Next == \/ \E c \in Callers : \/ WritePCM(c) \/ FlushTail(c) \/ CallReset(c) \/ ResetLocks(c)
                              \/ Close(c) \/ Step(c)
        \/ Tick \/ PacerReturns

\* sync.Mutex hands the lock over to a caller that waits long enough, and a
\* channel serves the goroutines blocked on a send in the order they came.
Fairness == /\ WF_vars(Tick) /\ WF_vars(PacerReturns)
            /\ \A c \in Callers : SF_vars(Step(c)) /\ SF_vars(ResetLocks(c))

Spec     == Init /\ [][Next]_vars
FairSpec == Spec /\ Fairness

----------------------------------------------------------------------------
Positions  == 1..FrameSamples
Frames     == [Positions -> 0..MaxSamples]
Line       == sent \o frames                      \* every frame in the order of playing
Audible(f) == {f[j] : j \in Positions} \ {Padding}
Samples(s) == UNION {Audible(s[m]) : m \in DOMAIN s}
Pending    == Samples(frames) \cup ToSet(pcmBuf)  \* what is still to be played

(* Types, and the channel's capacity; what is collected is less than a     *)
(* frame unless a writer is at work on it, and w.mu is held exactly where  *)
(* the code holds it.                                                      *)
TypeOK ==
  /\ written \in 0..MaxSamples /\ resetMark \in 0..written
  /\ pcmBuf \in Seq(1..MaxSamples) /\ sent \in Seq(Frames)
  /\ frames \in Seq(Frames) /\ Len(frames) <= FramesCap
  /\ stopped \in BOOLEAN /\ pacing \in BOOLEAN
  /\ pc \in [Callers -> PCs] /\ left \in [Callers -> 0..SilenceFrames]
  /\ mu \in Callers \cup {Nobody}
  /\ \A c \in Callers : mu = c <=> pc[c] \in Holding
  /\ (mu = Nobody \/ pc[mu] # "push") => Len(pcmBuf) < FrameSamples

(* Two goroutines write (the turn loop, the join beep), two flush and      *)
(* others reset, yet no sample is played before an older one or twice:     *)
(* what was sent, what is queued and what is collected is in the order of  *)
(* writing.  WritePCM and FlushTail push under w.mu for this.              *)
Ordered(s) ==
  \A m, n \in DOMAIN s : \A j, k \in Positions :
    /\ m < n \/ (m = n /\ j < k)
    /\ s[m][j] # Padding /\ s[n][k] # Padding
    => s[m][j] < s[n][k]
PlaysInOrder ==
  /\ Ordered(Line)
  /\ \A j, k \in DOMAIN pcmBuf : j < k => pcmBuf[j] < pcmBuf[k]
  /\ \A x \in Samples(Line), k \in DOMAIN pcmBuf : x < pcmBuf[k]

(* Before Close and outside a Reset no sample is lost: what was written    *)
(* since the last Reset is played, queued or collected, every sample of it.*)
(* pushFrame blocks on a full queue rather than drop for this.             *)
NothingLost ==
  (~stopped /\ \A c \in Callers : pc[c] # "drain")
    => resetMark+1..written \subseteq Samples(sent) \cup Pending

(* A barge-in's Reset waits for w.mu, which a WritePCM blocked on a full   *)
(* queue holds; the pacer or Close always lets it through.                 *)
ResetCompletes == \A c \in Resetters : pc[c] = "reset" ~> pc[c] = "idle"

(* A WritePCM or FlushTail blocked on a full queue returns although the    *)
(* pacer stops at Close and nobody drains the queue any more.              *)
CallersReturn == \A c \in Writers \cup Flushers : pc[c] # "idle" ~> pc[c] = "idle"

(* The writer is a PCM48kSink: see PCMSink.                                *)
Sink == INSTANCE PCMSink WITH
          accepted  <- written, queue <- Pending, played <- Samples(sent),
          resetting <- {c \in Callers : pc[c] = "drain"}, closed <- stopped
ImplementsSink == Sink!Spec
=============================================================================
