----------------------- MODULE OpusPacedWriterProofs -----------------------
(***************************************************************************)
(* Proofs about OpusPacedWriter, for any number of callers, any size of    *)
(* frame and any capacity: audio is played in the order of writing, none   *)
(* is lost before a Close but to a Reset, and the writer is a PCMSink.     *)
(***************************************************************************)
EXTENDS OpusPacedWriter, SequenceTheorems, WellFoundedInduction, TLAPS

(***************************************************************************)
(* Lemmas about the sequences the model is built from.                     *)
(***************************************************************************)

(* A non-empty set of numbers with a bound has a greatest member.          *)
LEMMA Greatest ==
  ASSUME NEW S \in SUBSET Nat, S # {}, NEW b \in Nat, \A x \in S : x <= b
  PROVE  \E x \in S : \A y \in S : y <= x
  <1>. DEFINE T == {b - x : x \in S}
              R == OpToRel(<, Nat)
  <1>1. T \subseteq Nat /\ T # {}
    <2>1. \A x \in S : b - x \in Nat
      OBVIOUS
    <2>2. PICK x \in S : TRUE
      OBVIOUS
    <2>. QED
      BY <2>1, <2>2
  <1>2. PICK t \in T : \A u \in T : ~ (<<u, t>> \in R)
    <2>. HIDE DEF T, R
    <2>. QED
      BY <1>1, NatLessThanWellFounded, WFMin DEF R
  <1>3. \A u \in T : ~ (u < t)
    BY <1>1, <1>2 DEF OpToRel
  <1>4. PICK x \in S : t = b - x
    OBVIOUS
  <1>5. \A y \in S : ~ (b - y < b - x)
    BY <1>3, <1>4
  <1>. QED
    BY <1>5

(* What is heard of a sequence of frames when one is added or taken.       *)
LEMMA SamplesAppend ==
  ASSUME NEW s \in Seq(Frames), NEW f \in Frames
  PROVE  Samples(Append(s, f)) = Samples(s) \cup Audible(f)
  <1>. DEFINE t == Append(s, f)
  <1>1. /\ DOMAIN t = DOMAIN s \cup {Len(s) + 1}
        /\ \A m \in DOMAIN s : t[m] = s[m]
        /\ t[Len(s) + 1] = f
    BY AppendProperties, LenProperties
  <1>2. Samples(t) = UNION {Audible(t[m]) : m \in DOMAIN s \cup {Len(s) + 1}}
    BY <1>1 DEF Samples
  <1>. HIDE DEF t
  <1>. QED
    BY <1>1, <1>2 DEF Samples

\* Taking the head of a queue takes its samples.
LEMMA SamplesTail ==
  ASSUME NEW s \in Seq(Frames), s # <<>>
  PROVE  Samples(s) = Audible(Head(s)) \cup Samples(Tail(s))
  <1>. DEFINE t == Tail(s)
  <1>1. /\ Len(s) \in Nat \ {0} /\ DOMAIN s = 1..Len(s)
        /\ DOMAIN t = 1..(Len(s) - 1)
        /\ \A m \in DOMAIN t : t[m] = s[m + 1]
        /\ Head(s) = s[1]
    BY HeadTailProperties, LenProperties, EmptySeq
  <1>2. {Audible(s[m]) : m \in DOMAIN s}
          = {Audible(Head(s))} \cup {Audible(t[m]) : m \in DOMAIN t}
    <2>. HIDE DEF t
    <2>1. ASSUME NEW m \in DOMAIN s, m # 1
          PROVE  m - 1 \in DOMAIN t /\ s[m] = t[m - 1]
      BY <1>1, <2>1
    <2>2. \A m \in DOMAIN t : m + 1 \in DOMAIN s
      BY <1>1
    <2>. QED
      BY <1>1, <2>1, <2>2
  <1>. QED
    BY <1>2 DEF Samples

\* An empty queue holds no sample.
LEMMA SamplesEmpty == Samples(<<>>) = {}
  BY DEF Samples

\* Nothing is heard in silence.
LEMMA SilentInaudible == Audible(SilentFrame) = {}
  BY DEF Audible, SilentFrame, Positions
----------------------------------------------------------------------------
Below(s, b) == \A m \in DOMAIN s, j \in Positions : s[m][j] <= b

(* A frame whose samples are in order and newer than all in the line may   *)
(* be queued; a frame taken from anywhere leaves the others in order.      *)
LEMMA AppendInOrder ==
  ASSUME NEW s \in Seq(Frames), NEW f \in Frames, NEW b \in Nat, NEW d \in Nat, b <= d,
         Ordered(s), Below(s, b),
         \A j \in Positions : f[j] # Padding => b < f[j] /\ f[j] <= d,
         \A j, k \in Positions : j < k /\ f[j] # Padding /\ f[k] # Padding => f[j] < f[k]
  PROVE  Ordered(Append(s, f)) /\ Below(Append(s, f), d)
  <1>. DEFINE t == Append(s, f)
  <1>1. /\ DOMAIN t = 1..(Len(s) + 1) /\ DOMAIN s = 1..Len(s) /\ Len(s) \in Nat
        /\ \A m \in DOMAIN s : t[m] = s[m]
        /\ t[Len(s) + 1] = f
    BY AppendProperties, LenProperties
  <1>2. /\ \A m \in DOMAIN s, j \in Positions : s[m][j] \in Nat
        /\ \A j \in Positions : f[j] \in Nat
    BY ElementOfSeq, LenProperties, SizesAssumption DEF Frames
  <1>3. \A m \in DOMAIN t : m \in DOMAIN s \/ m = Len(s) + 1
    BY <1>1
  <1>. HIDE DEF t
  <1>4. Below(t, d)
    BY <1>1, <1>2, <1>3 DEF Below, Padding
  <1>5. Ordered(t)
    <2>. SUFFICES ASSUME NEW m \in DOMAIN t, NEW n \in DOMAIN t,
                         NEW j \in Positions, NEW k \in Positions,
                         m < n \/ (m = n /\ j < k), t[m][j] # Padding, t[n][k] # Padding
                  PROVE  t[m][j] < t[n][k]
      BY DEF Ordered
    <2>1. CASE m \in DOMAIN s /\ n \in DOMAIN s
      BY <1>1, <2>1 DEF Ordered
    <2>2. CASE m \in DOMAIN s /\ n = Len(s) + 1
      BY <1>1, <1>2, <2>2 DEF Below
    <2>3. CASE m = Len(s) + 1
      BY <1>1, <2>3
    <2>. QED
      BY <1>3, <2>1, <2>2, <2>3
  <1>. QED
    BY <1>4, <1>5 DEF t

\* Taking the head of an ordered queue leaves it ordered.
LEMMA RemoveInOrder ==
  ASSUME NEW s \in Seq(Frames), NEW t \in Seq(Frames), NEW p \in DOMAIN s, NEW b,
         Len(t) = Len(s) - 1,
         \A m \in DOMAIN t : t[m] = IF m < p THEN s[m] ELSE s[m + 1],
         Ordered(s), Below(s, b)
  PROVE  Ordered(t) /\ Below(t, b)
  <1>. DEFINE at(m) == IF m < p THEN m ELSE m + 1
  <1>1. DOMAIN s = 1..Len(s) /\ DOMAIN t = 1..(Len(s) - 1) /\ Len(s) \in Nat
    BY LenProperties
  <1>2. \A m \in DOMAIN t : at(m) \in DOMAIN s /\ t[m] = s[at(m)]
    BY <1>1
  <1>3. \A m, n \in DOMAIN t : m < n => at(m) < at(n)
    BY <1>1
  <1>. HIDE DEF at
  <1>. QED
    BY <1>1, <1>2, <1>3 DEF Ordered, Below
----------------------------------------------------------------------------
(* The frames WritePCM and FlushTail cut (audio.go:63-74, 81-98).          *)
LEMMA FullFrameType ==
  ASSUME TypeOK, Len(pcmBuf) >= FrameSamples
  PROVE  /\ FullFrame \in Frames
         /\ \A j \in Positions : j \in DOMAIN pcmBuf /\ FullFrame[j] = pcmBuf[j]
  <1>1. /\ FrameSamples \in Nat \ {0} /\ Len(pcmBuf) \in Nat /\ DOMAIN pcmBuf = 1..Len(pcmBuf)
        /\ \A j \in DOMAIN pcmBuf : pcmBuf[j] \in 1..MaxSamples
    BY SizesAssumption, LenProperties, ElementOfSeq DEF TypeOK
  <1>2. \A j \in Positions : j \in DOMAIN pcmBuf
    BY <1>1 DEF Positions
  <1>3. /\ FullFrame \in Seq(1..MaxSamples) /\ Len(FullFrame) = FrameSamples
        /\ \A j \in Positions : FullFrame[j] = pcmBuf[j]
    BY <1>1, <1>2, SubSeqProperties DEF FullFrame, Positions
  <1>4. DOMAIN FullFrame = Positions /\ FullFrame \in [Positions -> 1..MaxSamples]
    BY <1>3, LenProperties DEF Positions
  <1>. QED
    BY <1>2, <1>3, <1>4, SizesAssumption DEF Frames

\* A rest padded with silence is a frame.
LEMMA PaddedFrameType ==
  ASSUME TypeOK, Len(pcmBuf) < FrameSamples
  PROVE  /\ PaddedFrame \in Frames
         /\ DOMAIN pcmBuf \subseteq Positions
         /\ \A j \in Positions :
              PaddedFrame[j] = IF j \in DOMAIN pcmBuf THEN pcmBuf[j] ELSE Padding
  <1>. DEFINE pad == [k \in 1..(FrameSamples - Len(pcmBuf)) |-> Padding]
              S == 0..MaxSamples
  <1>1. /\ FrameSamples \in Nat \ {0} /\ Len(pcmBuf) \in Nat /\ DOMAIN pcmBuf = 1..Len(pcmBuf)
        /\ pcmBuf \in Seq(S)
    BY SizesAssumption, LenProperties, SeqMonotonic DEF TypeOK
  <1>2. pad \in Seq(S) /\ Len(pad) = FrameSamples - Len(pcmBuf)
    BY <1>1, SizesAssumption DEF Padding
  <1>3. \A j \in 1..(FrameSamples - Len(pcmBuf)) : pad[j] = Padding
    OBVIOUS
  <1>. HIDE DEF pad
  <1>4. PaddedFrame = pcmBuf \o pad
    BY DEF PaddedFrame, pad
  <1>5. /\ PaddedFrame \in Seq(S)
        /\ Len(PaddedFrame) = FrameSamples
        /\ \A j \in 1..FrameSamples :
             PaddedFrame[j] = IF j <= Len(pcmBuf) THEN pcmBuf[j] ELSE pad[j - Len(pcmBuf)]
    BY <1>1, <1>2, <1>4, ConcatProperties
  <1>6. PaddedFrame \in Frames
    BY <1>5, LenProperties DEF Frames, Positions
  <1>7. ASSUME NEW j \in Positions
        PROVE  PaddedFrame[j] = IF j \in DOMAIN pcmBuf THEN pcmBuf[j] ELSE Padding
    <2>1. CASE j <= Len(pcmBuf)
      BY <1>1, <1>5, <2>1 DEF Positions
    <2>2. CASE ~ (j <= Len(pcmBuf))
      <3>1. j - Len(pcmBuf) \in 1..(FrameSamples - Len(pcmBuf)) /\ j \notin DOMAIN pcmBuf
        BY <1>1, <2>2 DEF Positions
      <3>2. PaddedFrame[j] = pad[j - Len(pcmBuf)]
        BY <1>5, <2>2 DEF Positions
      <3>. QED
        BY <1>3, <3>1, <3>2
    <2>. QED
      BY <2>1, <2>2
  <1>8. DOMAIN pcmBuf \subseteq Positions
    BY <1>1 DEF Positions
  <1>. QED
    BY <1>6, <1>7, <1>8

\* Silence is a frame.
LEMMA SilentFrameType == SilentFrame \in Frames
  BY SizesAssumption DEF SilentFrame, Frames, Positions, Padding

(* pushFrame queues within the capacity of the channel (audio.go:134-144). *)
LEMMA PushFrameType ==
  ASSUME frames \in Seq(Frames), Len(frames) <= FramesCap, NEW f \in Frames, PushFrame(f)
  PROVE  frames' \in Seq(Frames) /\ Len(frames') <= FramesCap
  BY AppendProperties, LenProperties, SizesAssumption DEF PushFrame, HasRoom, StopChClosed

\* Every step keeps the types.
LEMMA StepType == TypeOK /\ [Next]_vars => TypeOK'
  <1>. SUFFICES ASSUME TypeOK, [Next]_vars PROVE TypeOK'
    OBVIOUS
  <1>. USE SizesAssumption, CallersAssumption
  <1>. USE DEF TypeOK, PCs, Holding, Goto, Lock
  <1>1. CASE UNCHANGED vars
    BY <1>1 DEF vars
  <1>2. ASSUME NEW c \in Callers, WritePCM(c) PROVE TypeOK'
    <2>1. PICK n \in written+1..MaxSamples :
            /\ written' = n
            /\ pcmBuf' = pcmBuf \o [k \in 1..(n - written) |-> written + k]
      BY <1>2 DEF WritePCM
    <2>2. [k \in 1..(n - written) |-> written + k] \in Seq(1..MaxSamples)
      OBVIOUS
    <2>3. pcmBuf' \in Seq(1..MaxSamples)
      BY <2>1, <2>2, ConcatProperties
    <2>. QED
      BY <1>2, <2>1, <2>3 DEF WritePCM
  <1>3. ASSUME NEW c \in Callers, PushFull(c) PROVE TypeOK'
    <2>1. frames' \in Seq(Frames) /\ Len(frames') <= FramesCap
      BY <1>3, FullFrameType, PushFrameType DEF PushFull
    <2>2. \A k \in FrameSamples + 1..Len(pcmBuf) : pcmBuf[k] \in 1..MaxSamples
      BY ElementOfSeq, LenProperties
    <2>3. SubSeq(pcmBuf, FrameSamples + 1, Len(pcmBuf)) \in Seq(1..MaxSamples)
      <3>1. FrameSamples + 1 \in Int /\ Len(pcmBuf) \in Int
        BY LenProperties
      <3>. QED
        BY <2>2, <3>1, SubSeqProperties
    <2>. QED
      BY <1>3, <2>1, <2>3 DEF PushFull
  <1>4. ASSUME NEW c \in Callers, WriteReturns(c) PROVE TypeOK'
    BY <1>4 DEF WriteReturns, Unlock
  <1>5. ASSUME NEW c \in Callers, FlushTail(c) PROVE TypeOK'
    <2>1. /\ pc[c] = "idle" /\ mu = Nobody
          /\ UNCHANGED <<pcmBuf, frames, stopped, pacing, written, sent, resetMark>>
          /\ left' = [left EXCEPT ![c] = SilenceFrames]
      BY <1>5 DEF FlushTail
    <2>2. \/ pc' = [pc EXCEPT ![c] = "pad"] /\ mu' = c
          \/ pc' = [pc EXCEPT ![c] = "silence"] /\ mu' = mu
      BY <1>5 DEF FlushTail
    <2>3. left' \in [Callers -> 0..SilenceFrames]
      BY <2>1
    <2>4. \A d \in Callers : mu' = d <=> pc'[d] \in {"push", "pad", "drain"}
      BY <2>1, <2>2
    <2>5. Len(pcmBuf) < FrameSamples
      BY <2>1
    <2>. QED
      BY <2>1, <2>2, <2>3, <2>4, <2>5
  <1>6. ASSUME NEW c \in Callers, PushPadded(c) PROVE TypeOK'
    <2>1. mu = c /\ Len(pcmBuf) < FrameSamples
      BY <1>6 DEF PushPadded
    <2>2. frames' \in Seq(Frames) /\ Len(frames') <= FramesCap
      BY <1>6, <2>1, PaddedFrameType, PushFrameType DEF PushPadded
    <2>3. pcmBuf' \in Seq(1..MaxSamples) /\ Len(pcmBuf') = 0
      BY <1>6, EmptySeq DEF PushPadded, BufEmptied
    <2>. QED
      BY <1>6, <2>1, <2>2, <2>3 DEF PushPadded, Unlock
  <1>7. ASSUME NEW c \in Callers, PushSilence(c) PROVE TypeOK'
    <2>1. frames' \in Seq(Frames) /\ Len(frames') <= FramesCap
      BY <1>7, SilentFrameType, PushFrameType DEF PushSilence
    <2>. QED
      BY <1>7, <2>1 DEF PushSilence
  <1>8. ASSUME NEW c \in Callers, FlushReturns(c) PROVE TypeOK'
    BY <1>8 DEF FlushReturns
  <1>9. ASSUME NEW c \in Callers, CallReset(c) PROVE TypeOK'
    BY <1>9 DEF CallReset
  <1>10. ASSUME NEW c \in Callers, ResetLocks(c) PROVE TypeOK'
    BY <1>10 DEF ResetLocks
  <1>11. ASSUME NEW c \in Callers, Drain(c) PROVE TypeOK'
    BY <1>11, HeadTailProperties, LenProperties DEF Drain
  <1>12. ASSUME NEW c \in Callers, ResetReturns(c) PROVE TypeOK'
    <2>1. pcmBuf' \in Seq(1..MaxSamples) /\ Len(pcmBuf') = 0
      BY <1>12, EmptySeq DEF ResetReturns, BufEmptied
    <2>. QED
      BY <1>12, <2>1 DEF ResetReturns, Unlock
  <1>13. ASSUME NEW c \in Callers, Close(c) PROVE TypeOK'
    BY <1>13 DEF Close
  <1>14. CASE Tick
    <2>1. /\ Head(frames) \in Frames /\ Tail(frames) \in Seq(Frames)
          /\ Len(Tail(frames)) = Len(frames) - 1 /\ Len(frames) \in Nat
      BY <1>14, HeadTailProperties, LenProperties DEF Tick
    <2>2. sent' \in Seq(Frames)
      BY <1>14, <2>1, AppendProperties DEF Tick
    <2>. QED
      BY <1>14, <2>1, <2>2 DEF Tick
  <1>15. CASE PacerReturns
    BY <1>15 DEF PacerReturns
  <1>. QED
    BY <1>1, <1>2, <1>3, <1>4, <1>5, <1>6, <1>7, <1>8, <1>9, <1>10, <1>11, <1>12, <1>13, <1>14,
       <1>15 DEF Next, Step

(* The types, the capacity of the channel, and that w.mu is held exactly   *)
(* where the code holds it.                                                *)
THEOREM TypeCorrect == Spec => []TypeOK
  <1>1. ASSUME Init PROVE TypeOK
    <2>1. Len(<<>>) = 0 /\ <<>> \in Seq(1..MaxSamples) /\ <<>> \in Seq(Frames)
      BY EmptySeq
    <2>2. Len(pcmBuf) < FrameSamples /\ Len(frames) <= FramesCap
      BY <1>1, <2>1, SizesAssumption DEF Init
    <2>3. \A c \in Callers : mu # c /\ pc[c] \notin Holding
      BY <1>1, CallersAssumption DEF Init, Holding
    <2>4. pc \in [Callers -> PCs] /\ left \in [Callers -> 0..SilenceFrames]
      BY <1>1, SizesAssumption DEF Init, PCs
    <2>5. written \in 0..MaxSamples /\ resetMark \in 0..written
      BY <1>1, SizesAssumption DEF Init
    <2>6. pcmBuf \in Seq(1..MaxSamples) /\ sent \in Seq(Frames) /\ frames \in Seq(Frames)
      BY <1>1, <2>1 DEF Init
    <2>7. /\ stopped \in BOOLEAN /\ pacing \in BOOLEAN /\ mu \in Callers \cup {Nobody}
          /\ \A c \in Callers : mu = c <=> pc[c] \in Holding
      BY <1>1, <2>3 DEF Init
    <2>. QED
      BY <2>2, <2>4, <2>5, <2>6, <2>7 DEF TypeOK
  <1>. QED
    BY <1>1, StepType, PTL DEF Spec
----------------------------------------------------------------------------
(* The strengthening of PlaysInOrder: what is collected are the samples    *)
(* from Cut + 1 to the last one written, and the line holds no newer one   *)
(* than Cut.                                                               *)
Cut == written - Len(pcmBuf)
Numbered ==
  /\ Len(pcmBuf) <= written
  /\ \A k \in DOMAIN pcmBuf : pcmBuf[k] = Cut + k
  /\ Ordered(Line) /\ Below(Line, Cut)

\* Whatever is queued or being pushed is a frame.
LEMMA LineType ==
  ASSUME TypeOK
  PROVE  /\ Line \in Seq(Frames) /\ DOMAIN Line = 1..(Len(sent) + Len(frames))
         /\ Len(Line) = Len(sent) + Len(frames)
         /\ Len(sent) \in Nat /\ Len(frames) \in Nat
         /\ \A m \in DOMAIN Line :
              Line[m] = IF m <= Len(sent) THEN sent[m] ELSE frames[m - Len(sent)]
  BY ConcatProperties, LenProperties DEF TypeOK, Line

\* Every sample that was written is in a frame already, or collected for the next.
LEMMA CutType ==
  ASSUME TypeOK, Numbered
  PROVE  /\ Cut \in Nat /\ written \in Nat /\ Cut <= written /\ Len(pcmBuf) \in Nat
         /\ DOMAIN pcmBuf = 1..Len(pcmBuf) /\ written = Cut + Len(pcmBuf)
  <1>1. written \in Nat /\ Len(pcmBuf) \in Nat /\ DOMAIN pcmBuf = 1..Len(pcmBuf)
    BY SizesAssumption, LenProperties DEF TypeOK
  <1>. QED
    BY <1>1 DEF Numbered, Cut

(* A frame that is pushed comes last in the line (audio.go:134-144).       *)
LEMMA PushInOrder ==
  ASSUME TypeOK, Numbered, NEW f \in Frames, PushFrame(f), sent' = sent,
         NEW d \in Nat, Cut <= d,
         \A j \in Positions : f[j] # Padding => Cut < f[j] /\ f[j] <= d,
         \A j, k \in Positions : j < k /\ f[j] # Padding /\ f[k] # Padding => f[j] < f[k]
  PROVE  Ordered(Line') /\ Below(Line', d)
  <1>1. CASE frames' = Append(frames, f)
    <2>1. Line' = Append(Line, f)
      <3>1. /\ sent \in Seq(Frames) /\ frames \in Seq(Frames) /\ <<f>> \in Seq(Frames)
            /\ Line \in Seq(Frames)
        BY LineType DEF TypeOK
      <3>2. Line' = sent \o (frames \o <<f>>)
        BY <1>1, <3>1, AppendIsConcat DEF Line
      <3>3. Append(Line, f) = (sent \o frames) \o <<f>>
        BY <3>1, AppendIsConcat DEF Line
      <3>. QED
        BY <3>1, <3>2, <3>3, ConcatAssociative
    <2>. QED
      BY <2>1, LineType, CutType, AppendInOrder DEF Numbered
  <1>2. CASE UNCHANGED frames
    <2>1. Line' = Line
      BY <1>2 DEF Line
    <2>2. \A m \in DOMAIN Line, j \in Positions : Line[m][j] \in Nat
      BY LineType, ElementOfSeq, SizesAssumption DEF Frames
    <2>. QED
      BY <2>1, <2>2, CutType DEF Numbered, Below
  <1>. QED
    BY <1>1, <1>2 DEF PushFrame

(* The oldest frame of the queue is taken out of the line: by Reset, or by *)
(* the pacer when it is silence (audio.go:118-122, 148-151).               *)
LEMMA TakeInOrder ==
  ASSUME TypeOK, Numbered, frames # <<>>, frames' = Tail(frames), sent' = sent
  PROVE  Ordered(Line') /\ Below(Line', Cut)
  <1>1. /\ frames' \in Seq(Frames) /\ sent \in Seq(Frames) /\ frames \in Seq(Frames)
        /\ Len(frames') = Len(frames) - 1 /\ DOMAIN frames' = 1..Len(frames')
        /\ Len(frames) \in Nat \ {0}
        /\ \A k \in 1..Len(frames') : frames'[k] = frames[k + 1]
    BY HeadTailProperties, LenProperties, EmptySeq DEF TypeOK
  <1>2. /\ Line' \in Seq(Frames) /\ Len(Line') = Len(sent) + Len(frames')
        /\ \A m \in 1..(Len(sent) + Len(frames')) :
             Line'[m] = IF m <= Len(sent) THEN sent[m] ELSE frames'[m - Len(sent)]
    BY <1>1, ConcatProperties DEF Line
  <1>3. DOMAIN Line' = 1..(Len(sent) + Len(frames'))
    BY <1>2, LenProperties
  <1>. DEFINE p == Len(sent) + 1
  <1>4. p \in DOMAIN Line
    BY <1>1, LineType
  <1>5. ASSUME NEW m \in DOMAIN Line'
        PROVE  Line'[m] = IF m < p THEN Line[m] ELSE Line[m + 1]
    <2>1. /\ m \in 1..(Len(sent) + Len(frames')) /\ m \in Nat /\ Len(sent) \in Nat
          /\ m \in DOMAIN Line /\ m + 1 \in DOMAIN Line
      BY <1>1, <1>3, LineType
    <2>2. Line'[m] = IF m <= Len(sent) THEN sent[m] ELSE frames'[m - Len(sent)]
      BY <1>2, <2>1
    <2>3. \A k \in DOMAIN Line : Line[k] = IF k <= Len(sent) THEN sent[k] ELSE frames[k - Len(sent)]
      BY LineType
    <2>4. CASE m < p
      <3>1. Line'[m] = sent[m]
        BY <2>1, <2>2, <2>4
      <3>2. Line[m] = sent[m]
        BY <2>1, <2>3, <2>4
      <3>. QED
        BY <2>4, <3>1, <3>2
    <2>5. CASE ~ (m < p)
      <3>1. m - Len(sent) \in 1..Len(frames') /\ (m - Len(sent)) + 1 = m + 1 - Len(sent)
        BY <1>1, <2>1, <2>5
      <3>2. Line'[m] = frames'[m - Len(sent)]
        BY <2>1, <2>2, <2>5
      <3>3. Line[m + 1] = frames[m + 1 - Len(sent)]
        BY <2>1, <2>3, <2>5
      <3>. QED
        BY <1>1, <2>5, <3>1, <3>2, <3>3
    <2>. QED
      BY <2>4, <2>5
  <1>6. Len(Line') = Len(Line) - 1
    BY <1>1, <1>2, LineType
  <1>. HIDE DEF p
  <1>. QED
    BY <1>2, <1>4, <1>5, <1>6, LineType, RemoveInOrder DEF Numbered

(* A full frame takes the oldest samples collected (audio.go:63-74).       *)
LEMMA PushFullNumbered ==
  ASSUME TypeOK, Numbered, NEW c \in Callers, PushFull(c)
  PROVE  /\ Numbered' /\ Cut' = Cut + FrameSamples /\ FrameSamples <= Len(pcmBuf)
         /\ FullFrame \in Frames /\ \A j \in Positions : FullFrame[j] = Cut + j
  <1>. DEFINE rest == SubSeq(pcmBuf, FrameSamples + 1, Len(pcmBuf))
              nrest == Len(pcmBuf) - FrameSamples
  <1>1. FrameSamples \in Nat /\ FrameSamples > 0 /\ Len(pcmBuf) \in Nat /\ nrest \in Nat
    BY SizesAssumption, CutType DEF PushFull
  <1>2. Cut \in Nat /\ written \in Nat /\ written = Cut + Len(pcmBuf)
    BY CutType
  <1>3. DOMAIN pcmBuf = 1..Len(pcmBuf) /\ \A k \in DOMAIN pcmBuf : pcmBuf[k] = Cut + k
    BY CutType DEF Numbered
  <1>4. written' = written /\ sent' = sent /\ pcmBuf' = rest /\ PushFrame(FullFrame)
    BY DEF PushFull
  <1>5. /\ Len(rest) = nrest /\ DOMAIN rest = 1..nrest
        /\ \A k \in 1..nrest : rest[k] = pcmBuf[k + FrameSamples]
    <2>1. \A k \in FrameSamples + 1..Len(pcmBuf) : pcmBuf[k] \in 1..MaxSamples
      <3>1. \A k \in FrameSamples + 1..Len(pcmBuf) : k \in 1..Len(pcmBuf)
        BY <1>1
      <3>. QED
        BY <3>1, ElementOfSeq DEF TypeOK
    <2>2. /\ nrest = Len(pcmBuf) - (FrameSamples + 1) + 1
          /\ nrest = IF FrameSamples + 1 <= Len(pcmBuf)
                      THEN Len(pcmBuf) - (FrameSamples + 1) + 1 ELSE 0
          /\ \A k \in 1..nrest : (FrameSamples + 1) + k - 1 = k + FrameSamples
      BY <1>1
    <2>. HIDE DEF nrest
    <2>3. FrameSamples + 1 \in Int /\ Len(pcmBuf) \in Int
      BY <1>1
    <2>4. /\ rest \in Seq(1..MaxSamples) /\ Len(rest) = nrest
          /\ \A k \in 1..nrest : rest[k] = pcmBuf[(FrameSamples + 1) + k - 1]
      BY <2>1, <2>2, <2>3, SubSeqProperties
    <2>. HIDE DEF rest
    <2>. QED
      BY <2>2, <2>4, LenProperties
  <1>. HIDE DEF rest
  <1>6. Cut' = Cut + FrameSamples
    <2>1. Cut' = written - nrest
      BY <1>4, <1>5 DEF Cut
    <2>. QED
      BY <1>1, <1>2, <2>1
  <1>7. FullFrame \in Frames /\ \A j \in Positions : FullFrame[j] = Cut + j
    BY <1>3, FullFrameType DEF PushFull
  <1>8. Ordered(Line') /\ Below(Line', Cut')
    <2>1. /\ \A j \in Positions : Cut < FullFrame[j] /\ FullFrame[j] <= Cut'
          /\ \A j, k \in Positions : j < k => FullFrame[j] < FullFrame[k]
      BY <1>1, <1>2, <1>6, <1>7 DEF Positions
    <2>2. Cut' \in Nat /\ Cut <= Cut'
      BY <1>1, <1>2, <1>6
    <2>. QED
      BY <1>4, <1>7, <2>1, <2>2, PushInOrder
  <1>9. ASSUME NEW k \in 1..nrest PROVE rest[k] = Cut' + k
    <2>1. k + FrameSamples \in DOMAIN pcmBuf
      BY <1>1, <1>3
    <2>2. rest[k] = Cut + (k + FrameSamples)
      BY <1>3, <1>5, <2>1
    <2>. QED
      BY <1>1, <1>2, <1>6, <2>2
  <1>10. nrest <= written
    BY <1>1, <1>2
  <1>11. FrameSamples <= Len(pcmBuf)
    BY SizesAssumption, <1>1 DEF PushFull
  <1>. HIDE DEF nrest
  <1>. QED
    BY <1>4, <1>5, <1>6, <1>7, <1>8, <1>9, <1>10, <1>11 DEF Numbered

(* The padded frame takes all of them (audio.go:83-92).                    *)
LEMMA PushPaddedNumbered ==
  ASSUME TypeOK, Numbered, NEW c \in Callers, PushPadded(c)
  PROVE  /\ Numbered' /\ Cut' = written /\ PaddedFrame \in Frames
         /\ \A j \in Positions :
              IF j \in DOMAIN pcmBuf THEN PaddedFrame[j] = Cut + j ELSE PaddedFrame[j] = Padding
         /\ DOMAIN pcmBuf \subseteq Positions
  <1>1. Len(pcmBuf) < FrameSamples
    BY DEF PushPadded, Goto, TypeOK, Holding
  <1>2. /\ written' = written /\ sent' = sent /\ Cut' = written /\ DOMAIN pcmBuf' = {}
        /\ Len(pcmBuf') = 0
    BY CutType DEF PushPadded, BufEmptied, Cut
  <1>3. /\ PaddedFrame \in Frames /\ PushFrame(PaddedFrame)
        /\ \A j \in Positions :
             PaddedFrame[j] # Padding => PaddedFrame[j] = Cut + j /\ j \in DOMAIN pcmBuf
    BY <1>1, PaddedFrameType DEF PushPadded, Numbered
  <1>4. Ordered(Line') /\ Below(Line', written)
    <2>1. \A j \in Positions : PaddedFrame[j] # Padding =>
            Cut < PaddedFrame[j] /\ PaddedFrame[j] <= written
      BY <1>3, CutType
    <2>2. \A j, k \in Positions :
            j < k /\ PaddedFrame[j] # Padding /\ PaddedFrame[k] # Padding
            => PaddedFrame[j] < PaddedFrame[k]
      BY <1>3, CutType DEF Positions
    <2>. QED
      BY <1>2, <1>3, <2>1, <2>2, CutType, PushInOrder
  <1>5. Numbered'
    BY <1>2, <1>4, CutType DEF Numbered
  <1>. QED
    BY <1>1, <1>2, <1>3, <1>5, PaddedFrameType DEF Numbered

(* The pacer sends the oldest frame, or leaves silence out (audio.go:118-122). *)
LEMMA TickNumbered ==
  ASSUME TypeOK, Numbered, Tick
  PROVE  Numbered'
  <1>1. UNCHANGED <<pcmBuf, written>> /\ Cut' = Cut
    BY DEF Tick, Cut
  <1>2. CASE Head(frames) = SilentFrame
    BY <1>1, <1>2, TakeInOrder DEF Tick, Numbered
  <1>3. CASE Head(frames) # SilentFrame
    <2>1. /\ frames \in Seq(Frames) /\ frames # <<>> /\ sent \in Seq(Frames)
          /\ Head(frames) \in Frames /\ Tail(frames) \in Seq(Frames)
      BY HeadTailProperties DEF Tick, TypeOK
    <2>2. frames = <<Head(frames)>> \o Tail(frames)
      BY <2>1
    <2>3. Line' = (sent \o <<Head(frames)>>) \o Tail(frames)
      BY <1>3, <2>1, AppendIsConcat DEF Tick, Line
    <2>4. Line' = Line
      <3>1. <<Head(frames)>> \in Seq(Frames)
        BY <2>1
      <3>2. (sent \o <<Head(frames)>>) \o Tail(frames) = sent \o (<<Head(frames)>> \o Tail(frames))
        BY <2>1, <3>1, ConcatAssociative
      <3>. QED
        BY <2>2, <2>3, <3>2 DEF Line
    <2>. QED
      BY <1>1, <2>4 DEF Numbered
  <1>. QED
    BY <1>2, <1>3

\* The samples of one WritePCM are numbered on from the last.
LEMMA NewSamples ==
  ASSUME NEW w \in Nat, NEW n \in Nat, w < n, NEW top \in Nat, n <= top
  PROVE  /\ [k \in 1..(n - w) |-> w + k] \in Seq(1..top)
         /\ Len([k \in 1..(n - w) |-> w + k]) = n - w
  <1>. DEFINE m == n - w
              new == [k \in 1..m |-> w + k]
  <1>1. m \in Nat /\ \A k \in 1..m : w + k \in 1..top
    OBVIOUS
  <1>. HIDE DEF m
  <1>2. new \in [1..m -> 1..top]
    BY <1>1
  <1>3. new \in Seq(1..top) /\ Len(new) = m
    BY <1>1, <1>2
  <1>. QED
    BY <1>3 DEF m

\* Every step keeps the line in the order in which the samples were written.
LEMMA StepNumbered == TypeOK /\ Numbered /\ [Next]_vars => Numbered'
  <1>. SUFFICES ASSUME TypeOK, Numbered, [Next]_vars PROVE Numbered'
    OBVIOUS
  <1>1. CASE UNCHANGED <<pcmBuf, written, sent, frames>>
    BY <1>1 DEF Numbered, Cut, Line
  <1>2. ASSUME NEW c \in Callers, WritePCM(c) PROVE Numbered'
    <2>1. PICK n \in written+1..MaxSamples :
            /\ written' = n
            /\ pcmBuf' = pcmBuf \o [k \in 1..(n - written) |-> written + k]
      BY <1>2 DEF WritePCM
    <2>. DEFINE new == [k \in 1..(n - written) |-> written + k]
    <2>2. /\ n \in Nat /\ written \in Nat /\ Len(pcmBuf) \in Nat /\ written < n
          /\ MaxSamples \in Nat /\ n <= MaxSamples
          /\ pcmBuf \in Seq(1..MaxSamples) /\ written = Cut + Len(pcmBuf)
      BY CutType, SizesAssumption DEF TypeOK
    <2>3. new \in Seq(1..MaxSamples) /\ Len(new) = n - written
      BY <2>2, NewSamples
    <2>4. /\ Len(pcmBuf') = Len(pcmBuf) + (n - written)
          /\ DOMAIN pcmBuf' = 1..(Len(pcmBuf) + (n - written))
          /\ \A k \in 1..(Len(pcmBuf) + (n - written)) :
               pcmBuf'[k] = IF k <= Len(pcmBuf) THEN pcmBuf[k] ELSE new[k - Len(pcmBuf)]
      <3>1. pcmBuf' = pcmBuf \o new
        BY <2>1
      <3>. HIDE DEF new
      <3>2. /\ Len(pcmBuf \o new) = Len(pcmBuf) + (n - written)
            /\ pcmBuf \o new \in Seq(1..MaxSamples)
            /\ \A k \in 1..(Len(pcmBuf) + (n - written)) :
                 (pcmBuf \o new)[k] = IF k <= Len(pcmBuf) THEN pcmBuf[k] ELSE new[k - Len(pcmBuf)]
        <4>1. /\ pcmBuf \o new \in Seq(1..MaxSamples)
              /\ Len(pcmBuf \o new) = Len(pcmBuf) + Len(new)
              /\ \A k \in 1..(Len(pcmBuf) + Len(new)) :
                   (pcmBuf \o new)[k] = IF k <= Len(pcmBuf) THEN pcmBuf[k] ELSE new[k - Len(pcmBuf)]
          <5>1. pcmBuf \in Seq(1..MaxSamples) /\ new \in Seq(1..MaxSamples)
            BY <2>2, <2>3
          <5>. QED
            BY <5>1, ConcatProperties
        <4>2. Len(new) = n - written
          BY <2>3
        <4>. QED
          BY <4>1, <4>2
      <3>3. DOMAIN (pcmBuf \o new) = 1..(Len(pcmBuf) + (n - written))
        BY <3>2, LenProperties
      <3>. QED
        BY <3>1, <3>2, <3>3
    <2>5. Cut' = Cut /\ Line' = Line
      BY <1>2, <2>1, <2>2, <2>4 DEF Cut, Line, WritePCM
    <2>6. ASSUME NEW k \in DOMAIN pcmBuf' PROVE pcmBuf'[k] = Cut + k
      <3>1. CASE k <= Len(pcmBuf)
        <4>1. k \in DOMAIN pcmBuf
          BY <2>4, <3>1, CutType
        <4>. QED
          BY <2>4, <3>1, <4>1 DEF Numbered
      <3>2. CASE ~ (k <= Len(pcmBuf))
        <4>1. k - Len(pcmBuf) \in 1..(n - written) /\ k \in Nat
          BY <2>2, <2>4, <3>2
        <4>2. pcmBuf'[k] = written + (k - Len(pcmBuf))
          BY <2>4, <3>2, <4>1
        <4>. QED
          BY <2>2, <4>1, <4>2, CutType
      <3>. QED
        BY <3>1, <3>2
    <2>7. Len(pcmBuf') <= written'
      BY <2>1, <2>2, <2>4 DEF Numbered
    <2>. QED
      BY <2>5, <2>6, <2>7 DEF Numbered
  <1>3. ASSUME NEW c \in Callers, PushSilence(c) PROVE Numbered'
    <2>1. PushFrame(SilentFrame) /\ UNCHANGED <<pcmBuf, written, sent>> /\ Cut' = Cut
      BY <1>3 DEF PushSilence, Cut
    <2>2. \A j \in Positions : SilentFrame[j] = Padding
      BY DEF SilentFrame, Positions
    <2>3. Ordered(Line') /\ Below(Line', Cut)
      BY <2>1, <2>2, SilentFrameType, CutType, PushInOrder
    <2>. QED
      BY <2>1, <2>3 DEF Numbered
  <1>4. ASSUME NEW c \in Callers, Drain(c) PROVE Numbered'
    BY <1>4, TakeInOrder DEF Drain, Numbered, Cut
  <1>5. ASSUME NEW c \in Callers, ResetReturns(c) PROVE Numbered'
    <2>1. /\ written' = written /\ Line' = Line /\ Cut' = written /\ DOMAIN pcmBuf' = {}
          /\ Len(pcmBuf') = 0
      BY <1>5, CutType DEF ResetReturns, BufEmptied, Cut, Line
    <2>2. \A m \in DOMAIN Line, j \in Positions : Line[m][j] \in Nat
      BY LineType, ElementOfSeq, SizesAssumption DEF Frames
    <2>3. Below(Line, written)
      BY <2>2, CutType DEF Numbered, Below
    <2>. QED
      BY <2>1, <2>3, CutType DEF Numbered
  <1>. QED
    BY <1>1, <1>2, <1>3, <1>4, <1>5, PushFullNumbered, PushPaddedNumbered, TickNumbered
       DEF Next, Step, vars, WriteReturns, FlushTail, FlushReturns, CallReset, ResetLocks, Close,
           PacerReturns

\* In every reachable state the line is in the order of writing.
LEMMA NumberedInvariant == Spec => []Numbered
  <1>1. Init => Numbered
    BY EmptySeq DEF Init, Numbered, Cut, Line, Ordered, Below
  <1>. QED
    BY <1>1, StepNumbered, TypeCorrect, PTL DEF Spec

(* Whoever writes, flushes and resets, and whatever a Close drops: what is *)
(* sent, queued and collected is in the order in which it was written.     *)
THEOREM PlayedInOrder == Spec => []PlaysInOrder
  <1>1. TypeOK /\ Numbered => PlaysInOrder
    <2>. SUFFICES ASSUME TypeOK, Numbered PROVE PlaysInOrder
      OBVIOUS
    <2>1. \A j, k \in DOMAIN pcmBuf : j < k => pcmBuf[j] < pcmBuf[k]
      BY CutType DEF Numbered
    <2>2. ASSUME NEW x \in Samples(Line), NEW k \in DOMAIN pcmBuf PROVE x < pcmBuf[k]
      <3>1. PICK m \in DOMAIN Line, j \in Positions : x = Line[m][j]
        BY DEF Samples, Audible
      <3>2. Line[m][j] \in Nat
        BY LineType, ElementOfSeq, SizesAssumption DEF Frames
      <3>. QED
        BY <3>1, <3>2, CutType DEF Numbered, Below
    <2>. QED
      BY <2>1, <2>2 DEF Numbered, PlaysInOrder
  <1>. QED
    BY <1>1, NumberedInvariant, TypeCorrect, PTL
----------------------------------------------------------------------------
(* What each action does to the audio that is still to be played.          *)
LEMMA RunOfSamples ==
  ASSUME NEW b \in Seq(1..MaxSamples), NEW w \in Nat, Len(b) <= w,
         \A k \in DOMAIN b : b[k] = (w - Len(b)) + k
  PROVE  ToSet(b) = w - Len(b) + 1..w
  <1>1. Len(b) \in Nat /\ DOMAIN b = 1..Len(b)
    BY LenProperties
  <1>2. ASSUME NEW x \in w - Len(b) + 1..w
        PROVE  x - (w - Len(b)) \in DOMAIN b /\ x = (w - Len(b)) + (x - (w - Len(b)))
    BY <1>1
  <1>3. ASSUME NEW k \in DOMAIN b PROVE (w - Len(b)) + k \in w - Len(b) + 1..w
    BY <1>1
  <1>4. \A x \in w - Len(b) + 1..w : \E k \in DOMAIN b : x = b[k]
    BY <1>2
  <1>5. \A k \in DOMAIN b : b[k] \in w - Len(b) + 1..w
    BY <1>3
  <1>. QED
    BY <1>4, <1>5 DEF ToSet

\* What was collected is a union of what was written, in this state ...
LEMMA CollectedIs ==
  ASSUME TypeOK, Numbered
  PROVE  ToSet(pcmBuf) = Cut + 1..written
  BY RunOfSamples, CutType DEF Numbered, TypeOK, Cut

\* ... and in the next.
LEMMA CollectedNextIs ==
  ASSUME TypeOK', Numbered'
  PROVE  ToSet(pcmBuf') = Cut' + 1..written'
  <1>1. pcmBuf' \in Seq(1..MaxSamples) /\ written' \in Nat /\ Len(pcmBuf') <= written'
    BY SizesAssumption DEF TypeOK, Numbered
  <1>. QED
    BY <1>1, RunOfSamples DEF Numbered, Cut

(* Queued samples are older than those collected. *)
LEMMA QueuedBelow ==
  ASSUME TypeOK, Numbered
  PROVE  \A x \in Samples(frames) : x \in Nat /\ x <= Cut
  <1>. SUFFICES ASSUME NEW m \in DOMAIN frames, NEW j \in Positions
                PROVE  frames[m][j] \in Nat /\ frames[m][j] <= Cut
    BY DEF Samples, Audible
  <1>1. frames[m] \in Frames /\ m \in 1..Len(frames) /\ Len(frames) \in Nat /\ Len(sent) \in Nat
    BY ElementOfSeq, LenProperties DEF TypeOK
  <1>2. m + Len(sent) \in DOMAIN Line /\ Line[m + Len(sent)] = frames[m]
    <2>1. m + Len(sent) \in DOMAIN Line /\ ~ (m + Len(sent) <= Len(sent))
          /\ (m + Len(sent)) - Len(sent) = m
      BY <1>1, LineType
    <2>2. Line[m + Len(sent)] = frames[(m + Len(sent)) - Len(sent)]
      BY <2>1, LineType
    <2>. QED
      BY <2>1, <2>2
  <1>. QED
    BY <1>1, <1>2, SizesAssumption DEF Numbered, Below, Frames

\* A push adds the samples of its frame to the queue.
LEMMA PushSamples ==
  ASSUME TypeOK, NEW f \in Frames, PushFrame(f)
  PROVE  \/ Samples(frames') = Samples(frames) \cup Audible(f)
         \/ stopped /\ frames' = frames
  BY SamplesAppend DEF PushFrame, StopChClosed, TypeOK

\* A new write is pending as a whole.
LEMMA WritePending ==
  ASSUME TypeOK, Numbered, Numbered', TypeOK', NEW c \in Callers, WritePCM(c)
  PROVE  written' \in written + 1..MaxSamples /\ Pending' = Pending \cup (written + 1..written')
  <1>1. /\ written' \in written + 1..MaxSamples /\ frames' = frames
        /\ Len(pcmBuf') = Len(pcmBuf) + (written' - written)
    <2>1. PICK n \in written+1..MaxSamples :
            /\ written' = n
            /\ pcmBuf' = pcmBuf \o [k \in 1..(n - written) |-> written + k]
      BY DEF WritePCM
    <2>. DEFINE new == [k \in 1..(n - written) |-> written + k]
    <2>2. n \in Nat /\ written \in Nat /\ written < n /\ MaxSamples \in Nat /\ n <= MaxSamples
      BY CutType, SizesAssumption
    <2>3. new \in Seq(1..MaxSamples) /\ Len(new) = n - written
      BY <2>2, NewSamples
    <2>. HIDE DEF new
    <2>. QED
      BY <2>1, <2>3, ConcatProperties DEF new, TypeOK, WritePCM
  <1>2. Cut' = Cut /\ written \in Nat /\ written' \in Nat /\ Cut \in Nat /\ Cut <= written
    BY <1>1, CutType, SizesAssumption DEF Cut
  <1>3. ToSet(pcmBuf') = Cut' + 1..written'
    BY CollectedNextIs
  <1>4. Cut + 1..written' = (Cut + 1..written) \cup (written + 1..written')
    BY <1>1, <1>2
  <1>. QED
    BY <1>1, <1>2, <1>3, <1>4, CollectedIs DEF Pending

(* A frame that is cut leaves what is collected for the queue, or is lost  *)
(* after a Close (audio.go:63-74, 81-92, 134-144).                         *)
LEMMA PushFullPending ==
  ASSUME TypeOK, Numbered, TypeOK', NEW c \in Callers, PushFull(c)
  PROVE  \/ Pending' = Pending
         \/ /\ stopped
            /\ \E m, n \in Pending : Pending' = Pending \ (m..n)
  <1>1. Numbered' /\ Cut' = Cut + FrameSamples /\ FrameSamples <= Len(pcmBuf)
    BY PushFullNumbered
  <1>2. FullFrame \in Frames /\ \A j \in Positions : FullFrame[j] = Cut + j
    BY PushFullNumbered
  <1>3. PushFrame(FullFrame) /\ written' = written
    BY DEF PushFull
  <1>4. /\ Cut \in Nat /\ written = Cut + Len(pcmBuf) /\ FrameSamples \in Nat /\ FrameSamples > 0
        /\ Len(pcmBuf) \in Nat
    BY CutType, SizesAssumption
  <1>5. ToSet(pcmBuf) = Cut + 1..written /\ ToSet(pcmBuf') = Cut' + 1..written'
    BY <1>1, CollectedIs, CollectedNextIs
  <1>. DEFINE cut == Cut + 1..Cut + FrameSamples
  <1>6. ToSet(pcmBuf) = cut \cup ToSet(pcmBuf') /\ ToSet(pcmBuf') = ToSet(pcmBuf) \ cut
    BY <1>1, <1>3, <1>4, <1>5
  <1>7. Audible(FullFrame) = cut
    <2>1. ASSUME NEW x \in cut PROVE x - Cut \in Positions /\ x = Cut + (x - Cut) /\ x # 0
      BY <1>4 DEF Positions
    <2>2. ASSUME NEW j \in Positions PROVE Cut + j \in cut
      BY <1>4 DEF Positions
    <2>. HIDE DEF cut
    <2>. QED
      BY <1>2, <2>1, <2>2 DEF Audible, Padding
  <1>8. CASE Samples(frames') = Samples(frames) \cup Audible(FullFrame)
    BY <1>6, <1>7, <1>8 DEF Pending
  <1>9. CASE stopped /\ frames' = frames
    <2>1. Pending' = Pending \ cut
      <3>1. \A x \in Samples(frames) : x \notin cut
        BY <1>4, QueuedBelow
      <3>. HIDE DEF cut
      <3>. QED
        BY <1>6, <1>9, <3>1 DEF Pending
    <2>2. Cut + 1 \in Pending /\ Cut + FrameSamples \in Pending
      BY <1>1, <1>4, <1>5 DEF Pending
    <2>. QED
      BY <1>9, <2>1, <2>2
  <1>. QED
    BY <1>2, <1>3, <1>8, <1>9, PushSamples

\* The rest that is flushed stays pending in the padded frame.
LEMMA PushPaddedPending ==
  ASSUME TypeOK, Numbered, TypeOK', NEW c \in Callers, PushPadded(c)
  PROVE  \/ Pending' = Pending
         \/ /\ stopped
            /\ \E m, n \in Pending : Pending' = Pending \ (m..n)
  <1>1. /\ Numbered' /\ Cut' = written /\ PaddedFrame \in Frames
        /\ DOMAIN pcmBuf \subseteq Positions
        /\ \A j \in Positions :
              IF j \in DOMAIN pcmBuf THEN PaddedFrame[j] = Cut + j ELSE PaddedFrame[j] = Padding
    BY PushPaddedNumbered
  <1>2. PushFrame(PaddedFrame) /\ written' = written
    BY DEF PushPadded
  <1>3. /\ Cut \in Nat /\ written = Cut + Len(pcmBuf) /\ Len(pcmBuf) \in Nat
        /\ DOMAIN pcmBuf = 1..Len(pcmBuf)
    BY CutType
  <1>. DEFINE cut == Cut + 1..written
  <1>4. ToSet(pcmBuf) = cut /\ ToSet(pcmBuf') = {}
    <2>1. ToSet(pcmBuf') = Cut' + 1..written'
      BY <1>1, CollectedNextIs
    <2>. QED
      BY <1>1, <1>2, <1>3, <2>1, CollectedIs
  <1>5. Audible(PaddedFrame) = cut
    <2>1. ASSUME NEW x \in cut
          PROVE  x - Cut \in DOMAIN pcmBuf /\ x = Cut + (x - Cut) /\ x # 0
      BY <1>3
    <2>2. ASSUME NEW j \in DOMAIN pcmBuf PROVE Cut + j \in cut
      BY <1>3
    <2>. HIDE DEF cut
    <2>3. ASSUME NEW x \in cut PROVE x \in Audible(PaddedFrame)
      BY <1>1, <2>1 DEF Audible, Padding
    <2>4. ASSUME NEW x \in Audible(PaddedFrame) PROVE x \in cut
      BY <1>1, <2>2 DEF Audible
    <2>. QED
      BY <2>3, <2>4
  <1>6. CASE Samples(frames') = Samples(frames) \cup Audible(PaddedFrame)
    BY <1>4, <1>5, <1>6 DEF Pending
  <1>7. CASE stopped /\ frames' = frames
    <2>1. Pending' = Pending \ cut
      <3>1. \A x \in Samples(frames) : x \notin cut
        BY <1>3, QueuedBelow
      <3>. HIDE DEF cut
      <3>. QED
        BY <1>4, <1>7, <3>1 DEF Pending
    <2>2. CASE Len(pcmBuf) = 0
      <3>1. cut = {}
        BY <1>3, <2>2
      <3>. HIDE DEF cut
      <3>. QED
        BY <2>1, <3>1
    <2>3. CASE Len(pcmBuf) # 0
      <3>1. Cut + 1 \in Pending /\ written \in Pending
        BY <1>3, <1>4, <2>3 DEF Pending
      <3>. QED
        BY <1>7, <2>1, <3>1
    <2>. QED
      BY <2>2, <2>3
  <1>. QED
    BY <1>1, <1>2, <1>6, <1>7, PushSamples

\* Silence adds nothing that is pending.
LEMMA PushSilencePending ==
  ASSUME TypeOK, NEW c \in Callers, PushSilence(c)
  PROVE  Pending' = Pending
  BY PushSamples, SilentFrameType, SilentInaudible DEF PushSilence, Pending

(* The oldest frame is older than all that stays.  What is heard of it is  *)
(* nothing, or everything up to its last sample.                           *)
LEMMA TakePending ==
  ASSUME TypeOK, Numbered, frames # <<>>, frames' = Tail(frames), pcmBuf' = pcmBuf
  PROVE  /\ Pending = Audible(Head(frames)) \cup Pending'
         /\ \/ Audible(Head(frames)) = {}
            \/ \E n \in Pending :
                /\ Audible(Head(frames)) = {x \in Pending : x <= n}
                /\ Pending' = Pending \ {x \in Pending : x <= n}
  <1>. DEFINE A == Audible(Head(frames))
              Q == Samples(Tail(frames)) \cup ToSet(pcmBuf)
  <1>1. Pending' = Q /\ Pending = A \cup Q
    BY SamplesTail DEF Pending, TypeOK
  <1>2. /\ frames \in Seq(Frames) /\ Len(frames) \in Nat \ {0} /\ Len(sent) \in Nat
        /\ Head(frames) = frames[1] /\ DOMAIN Tail(frames) = 1..(Len(frames) - 1)
        /\ \A k \in 1..(Len(frames) - 1) : Tail(frames)[k] = frames[k + 1]
    BY HeadTailProperties, LenProperties, EmptySeq DEF TypeOK
  <1>3. \A k \in 1..Len(frames) : Len(sent) + k \in DOMAIN Line /\ Line[Len(sent) + k] = frames[k]
    <2>. SUFFICES ASSUME NEW k \in 1..Len(frames)
                  PROVE  Len(sent) + k \in DOMAIN Line /\ Line[Len(sent) + k] = frames[k]
      OBVIOUS
    <2>1. /\ Len(sent) + k \in DOMAIN Line /\ ~ (Len(sent) + k <= Len(sent))
          /\ (Len(sent) + k) - Len(sent) = k
      BY <1>2, LineType
    <2>2. Line[Len(sent) + k] = frames[(Len(sent) + k) - Len(sent)]
      BY <2>1, LineType
    <2>. QED
      BY <2>1, <2>2
  <1>4. \A x \in A : x \in Nat /\ x <= Cut
    BY <1>1, SamplesTail, QueuedBelow DEF TypeOK
  <1>5. ASSUME NEW x \in A, NEW y \in Q PROVE x < y /\ y \in Nat
    <2>1. CASE y \in ToSet(pcmBuf)
      <3>1. y \in Cut + 1..written
        BY <2>1, CollectedIs
      <3>. QED
        BY <1>4, <3>1, CutType
    <2>2. CASE y \in Samples(Tail(frames))
      <3>1. PICK j \in Positions : frames[1][j] = x /\ x # Padding
        BY <1>2 DEF Audible
      <3>2. PICK k \in 1..(Len(frames) - 1), i \in Positions : frames[k + 1][i] = y /\ y # Padding
        BY <1>2, <2>2 DEF Samples, Audible
      <3>3. /\ 1 \in 1..Len(frames) /\ k + 1 \in 1..Len(frames)
            /\ Len(sent) + 1 < Len(sent) + (k + 1)
        BY <1>2
      <3>4. x < y
        BY <1>3, <3>1, <3>2, <3>3 DEF Numbered, Ordered
      <3>5. y \in Samples(frames)
        BY <2>2, SamplesTail DEF TypeOK
      <3>. QED
        BY <3>4, <3>5, QueuedBelow
    <2>. QED
      BY <2>1, <2>2
  <1>6. ASSUME A # {}
        PROVE  \E n \in A : A = {x \in A \cup Q : x <= n}
    <2>. HIDE DEF A, Q
    <2>1. PICK n \in A : \A x \in A : x <= n
      BY <1>4, <1>6, CutType, Greatest
    <2>2. \A y \in Q : ~ (y <= n)
      BY <1>4, <1>5
    <2>. QED
      BY <2>1, <2>2
  <1>7. A \cap Q = {}
    BY <1>4, <1>5
  <1>. HIDE DEF A, Q
  <1>8. ASSUME A # {}
        PROVE  \E n \in Pending : A = {x \in Pending : x <= n} /\ Q = Pending \ {x \in Pending : x <= n}
    BY <1>1, <1>6, <1>7, <1>8
  <1>. QED
    BY <1>1, <1>8 DEF A

\* What a tick takes from the queue is sent.
LEMMA TickPending ==
  ASSUME TypeOK, Tick
  PROVE  Samples(sent') = Samples(sent) \cup Audible(Head(frames))
  <1>1. Head(frames) \in Frames /\ sent \in Seq(Frames)
    BY HeadTailProperties DEF Tick, TypeOK
  <1>. QED
    BY <1>1, SamplesAppend, SilentInaudible DEF Tick

----------------------------------------------------------------------------
(* Nothing is lost before a Close but to a Reset: every step but the drain *)
(* of a Reset keeps what is written since the last one.                    *)
LEMMA StepNothingLost ==
  TypeOK /\ Numbered /\ TypeOK' /\ Numbered' /\ NothingLost /\ [Next]_vars => NothingLost'
  <1>. SUFFICES ASSUME TypeOK, Numbered, TypeOK', Numbered', NothingLost, [Next]_vars,
                       ~stopped', \A c \in Callers : pc'[c] # "drain"
                PROVE  resetMark' + 1..written' \subseteq Samples(sent') \cup Pending'
    BY DEF NothingLost
  <1>. USE DEF Goto
  <1>. DEFINE Kept == /\ ~stopped /\ \A c \in Callers : pc[c] # "drain"
                      /\ resetMark' = resetMark
  <1>1. CASE Kept /\ written' = written
             /\ Samples(sent) \cup Pending \subseteq Samples(sent') \cup Pending'
    BY <1>1 DEF NothingLost
  <1>2. ASSUME NEW c \in Callers, WritePCM(c)
        PROVE  resetMark' + 1..written' \subseteq Samples(sent') \cup Pending'
    <2>1. Kept /\ sent' = sent
      BY <1>2 DEF WritePCM, TypeOK
    <2>2. written' \in written + 1..MaxSamples /\ Pending' = Pending \cup (written + 1..written')
      BY <1>2, WritePending
    <2>3. written \in Nat /\ resetMark \in Nat
      BY SizesAssumption DEF TypeOK
    <2>4. resetMark + 1..written' \subseteq (resetMark + 1..written) \cup (written + 1..written')
      BY <2>2, <2>3
    <2>. QED
      BY <2>1, <2>2, <2>4 DEF NothingLost
  <1>3. ASSUME NEW c \in Callers, PushFull(c) PROVE Kept /\ Pending' = Pending /\ sent' = sent
    BY <1>3, PushFullPending DEF PushFull
  <1>4. ASSUME NEW c \in Callers, PushPadded(c) PROVE Kept /\ Pending' = Pending /\ sent' = sent
    BY <1>4, PushPaddedPending DEF PushPadded, TypeOK
  <1>5. ASSUME NEW c \in Callers, PushSilence(c) PROVE Kept /\ Pending' = Pending /\ sent' = sent
    BY <1>5, PushSilencePending DEF PushSilence
  <1>6. ASSUME NEW c \in Callers, ResetLocks(c) PROVE FALSE
    BY <1>6 DEF ResetLocks, TypeOK
  <1>7. ASSUME NEW c \in Callers, Drain(c) PROVE FALSE
    BY <1>7 DEF Drain
  <1>8. ASSUME NEW c \in Callers, ResetReturns(c)
        PROVE  resetMark' + 1..written' = {}
    BY <1>8, SizesAssumption DEF ResetReturns, TypeOK
  <1>9. CASE Tick
    <2>1. Kept /\ written' = written
      BY <1>9 DEF Tick
    <2>. QED
      BY <1>1, <1>9, <2>1, TickPending, TakePending DEF Tick
  <1>10. ASSUME NEW c \in Callers, WriteReturns(c) \/ FlushTail(c) \/ FlushReturns(c) \/ CallReset(c)
         PROVE  Kept /\ UNCHANGED <<written, sent, frames, pcmBuf>>
    BY <1>10 DEF WriteReturns, FlushTail, FlushReturns, CallReset, TypeOK
  <1>11. ASSUME NEW c \in Callers, Close(c) PROVE FALSE
    BY <1>11 DEF Close
  <1>12. CASE PacerReturns
    BY <1>12 DEF PacerReturns
  <1>13. CASE UNCHANGED vars
    <2>1. Kept /\ UNCHANGED <<written, sent, frames, pcmBuf>>
      BY <1>13 DEF vars
    <2>. QED
      BY <1>1, <2>1 DEF Pending
  <1>14. ASSUME NEW c \in Callers, PushFull(c) \/ PushPadded(c) \/ PushSilence(c)
         PROVE  written' = written
    BY <1>14 DEF PushFull, PushPadded, PushSilence
  <1>15. ASSUME UNCHANGED <<sent, frames, pcmBuf>>
         PROVE  Samples(sent') = Samples(sent) /\ Pending' = Pending
    BY <1>15 DEF Pending
  <1>. HIDE DEF Kept
  <1>. QED
    BY <1>1, <1>2, <1>3, <1>4, <1>5, <1>6, <1>7, <1>8, <1>9, <1>10, <1>11, <1>12, <1>13, <1>14,
       <1>15 DEF Next, Step

(* Before Close and outside a Reset every sample written since the last    *)
(* Reset is played, queued or collected.                                   *)
THEOREM NoneLost == Spec => []NothingLost
  <1>1. Init => NothingLost
    BY DEF Init, NothingLost
  <1>. QED
    BY <1>1, StepNothingLost, TypeCorrect, NumberedInvariant, PTL DEF Spec
----------------------------------------------------------------------------
(* The writer is a PCM48kSink: every step is one of the sink or leaves it  *)
(* as it is.  A caller is inside Reset while it drains.                    *)
Resetting == {c \in Callers : pc[c] = "drain"}

\* A caller that starts a Reset leaves the others where they are.
LEMMA ResettingMoves ==
  ASSUME TypeOK, NEW c \in Callers, NEW f, NEW t, Goto(c, f, t)
  PROVE  Resetting' = IF t = "drain" THEN Resetting \cup {c} ELSE Resetting \ {c}
  BY DEF Resetting, Goto, TypeOK

\* Every step of the writer is a step of the sink or none.
LEMMA StepSinks ==
  TypeOK /\ Numbered /\ TypeOK' /\ Numbered' /\ [Next]_vars => [Sink!Next]_(Sink!vars)
  <1>. SUFFICES ASSUME TypeOK, Numbered, TypeOK', Numbered', [Next]_vars
                PROVE  [Sink!Next]_(Sink!vars)
    OBVIOUS
  <1>. DEFINE Played == Samples(sent)
              Stutter == UNCHANGED <<written, Pending, Played, Resetting, stopped>>
  <1>1. Stutter => [Sink!Next]_(Sink!vars)
    BY DEF Sink!vars, Resetting
  <1>2. UNCHANGED pc => UNCHANGED Resetting
    BY DEF Resetting
  <1>3. UNCHANGED <<frames, pcmBuf>> => UNCHANGED Pending
    BY DEF Pending
  <1>4. ASSUME NEW c \in Callers, NEW f, NEW t, Goto(c, f, t), f # "drain", t # "drain"
        PROVE  UNCHANGED Resetting
    BY <1>4, ResettingMoves DEF Goto, Resetting
  <1>5. ASSUME NEW c \in Callers, WritePCM(c) PROVE Sink!WritePCM
    <2>1. UNCHANGED <<Played, Resetting, stopped>>
      BY <1>4, <1>5 DEF WritePCM
    <2>2. written' \in written + 1..MaxSamples /\ Pending' = Pending \cup (written + 1..written')
      BY <1>5, WritePending
    <2>. QED
      BY <2>1, <2>2 DEF Sink!WritePCM, Resetting
  <1>6. ASSUME NEW c \in Callers, PushFull(c) PROVE Stutter \/ Sink!Lose
    <2>1. UNCHANGED <<written, Played, Resetting, stopped>>
      BY <1>2, <1>6 DEF PushFull
    <2>. QED
      BY <1>6, <2>1, PushFullPending DEF Sink!Lose, Resetting
  <1>7. ASSUME NEW c \in Callers, PushPadded(c) PROVE Stutter \/ Sink!Lose
    <2>1. UNCHANGED <<written, Played, Resetting, stopped>>
      BY <1>4, <1>7 DEF PushPadded
    <2>. QED
      BY <1>7, <2>1, PushPaddedPending DEF Sink!Lose, Resetting
  <1>8. ASSUME NEW c \in Callers, PushSilence(c) PROVE Stutter
    BY <1>2, <1>8, PushSilencePending DEF PushSilence
  <1>9. ASSUME NEW c \in Callers, ResetLocks(c) PROVE Sink!BeginReset
    <2>1. c \notin Resetting /\ Resetting' = Resetting \cup {c}
      BY <1>9, ResettingMoves DEF ResetLocks, Goto, Resetting
    <2>2. UNCHANGED <<written, Pending, Played, stopped>>
      BY <1>3, <1>9 DEF ResetLocks
    <2>. QED
      BY <2>1, <2>2 DEF Sink!BeginReset, Resetting
  <1>10. ASSUME NEW c \in Callers, Drain(c) PROVE Stutter \/ Sink!Discard
    <2>1. UNCHANGED <<written, Played, Resetting, stopped>> /\ c \in Resetting
      BY <1>2, <1>10 DEF Drain, Resetting
    <2>2. \/ Pending' = Pending
          \/ \E n \in Pending : Pending' = Pending \ {x \in Pending : x <= n}
      BY <1>10, TakePending DEF Drain
    <2>. QED
      BY <2>1, <2>2 DEF Sink!Discard, Sink!UpTo, Resetting
  <1>11. ASSUME NEW c \in Callers, ResetReturns(c) PROVE Sink!EndReset
    <2>1. c \in Resetting /\ Resetting' = Resetting \ {c}
      <3>1. Goto(c, "drain", "idle")
        BY <1>11 DEF ResetReturns
      <3>2. Resetting' = IF "idle" = "drain" THEN Resetting \cup {c} ELSE Resetting \ {c}
        BY <3>1, ResettingMoves
      <3>. QED
        BY <3>1, <3>2 DEF Goto, Resetting
    <2>2. frames' = <<>> /\ pcmBuf' = <<>> /\ UNCHANGED <<written, Played, stopped>>
      BY <1>11 DEF ResetReturns, Drained, BufEmptied
    <2>3. Pending' = {}
      BY <2>2, SamplesEmpty DEF Pending, ToSet
    <2>. QED
      BY <2>1, <2>2, <2>3 DEF Sink!EndReset, Resetting
  <1>12. ASSUME NEW c \in Callers, Close(c) PROVE Sink!Close
    <2>1. UNCHANGED <<written, Pending, Played, Resetting>>
      BY <1>2, <1>3, <1>12 DEF Close
    <2>. QED
      BY <1>12, <2>1 DEF Close, Sink!Close, Resetting
  <1>13. CASE Tick
    <2>1. UNCHANGED <<written, Resetting, stopped>>
      BY <1>2, <1>13 DEF Tick
    <2>2. Samples(sent') = Samples(sent) \cup Audible(Head(frames))
      BY <1>13, TickPending
    <2>3. CASE Audible(Head(frames)) = {}
      <3>1. Stutter
        BY <1>13, <2>1, <2>2, <2>3, TakePending DEF Tick
      <3>. QED
        BY <1>1, <3>1
    <2>4. CASE Audible(Head(frames)) # {}
      <3>1. Sink!Play
        BY <1>13, <2>1, <2>2, <2>4, TakePending DEF Tick, Sink!Play, Sink!UpTo, Resetting
      <3>. QED
        BY <3>1 DEF Sink!Next
    <2>. QED
      BY <2>3, <2>4
  <1>14. ASSUME NEW c \in Callers, WriteReturns(c) \/ FlushTail(c) \/ FlushReturns(c) \/ CallReset(c)
         PROVE  Stutter
    <2>1. UNCHANGED <<written, Pending, Played, stopped>>
      BY <1>3, <1>14 DEF WriteReturns, FlushTail, FlushReturns, CallReset
    <2>2. \E f, t \in PCs : Goto(c, f, t) /\ f # "drain" /\ t # "drain"
      BY <1>14 DEF WriteReturns, FlushTail, FlushReturns, CallReset, PCs
    <2>. QED
      BY <1>4, <2>1, <2>2
  <1>15. CASE PacerReturns \/ UNCHANGED vars
    <2>1. Stutter
      BY <1>2, <1>3, <1>15 DEF PacerReturns, vars
    <2>. QED
      BY <1>1, <2>1
  <1>. HIDE DEF Stutter
  <1>. QED
    BY <1>1, <1>5, <1>6, <1>7, <1>8, <1>9, <1>10, <1>11, <1>12, <1>13, <1>14, <1>15
       DEF Next, Step, Sink!Next

(* For the callers the writer is the sink of the agent package: audio in   *)
(* order and at most once, a Reset that leaves nothing written before it,  *)
(* losses only after a Close (agent/types.go:25-29).                       *)
THEOREM WriterIsASink == Spec => ImplementsSink
  <1>1. Init => Sink!Init
    BY SamplesEmpty DEF Init, Sink!Init, Pending, ToSet
  <1>. QED
    BY <1>1, StepSinks, TypeCorrect, NumberedInvariant, PTL DEF Spec, Sink!Spec, ImplementsSink
=============================================================================
