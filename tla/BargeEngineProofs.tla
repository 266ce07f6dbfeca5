------------------------- MODULE BargeEngineProofs -------------------------
(***************************************************************************)
(* Proofs about BargeEngine, for any words, filter, partials and windows:  *)
(* a trigger needs a vote for it, and a partial counts as growth once.     *)
(***************************************************************************)
EXTENDS BargeEngine, FiniteSetTheorems, SequenceTheorems, TLAPS

\* The positions of a sequence that satisfy something are finitely many.
LEMMA Positions ==
  ASSUME NEW S, NEW s \in Seq(S), NEW T \in SUBSET DOMAIN s
  PROVE  IsFiniteSet(T) /\ Cardinality(T) \in Nat
  <1>1. DOMAIN s = 1..Len(s) /\ Len(s) \in Nat
    BY LenProperties
  <1>2. IsFiniteSet(DOMAIN s)
    BY <1>1, FS_Interval
  <1>. QED
    BY <1>2, FS_Subset, FS_CardinalityType

\* A window keeps its size, and its last vote is the one pushed.
LEMMA PushProperties ==
  ASSUME NEW n \in Nat \ {0}, NEW h \in Seq(BOOLEAN), Len(h) <= n, NEW b \in BOOLEAN
  PROVE  /\ Push(h, b, n) \in Seq(BOOLEAN) /\ Len(Push(h, b, n)) <= n /\ Push(h, b, n) # <<>>
         /\ Last(Push(h, b, n)) = b
  <1>1. Len(h) \in Nat
    BY LenProperties
  <1>2. CASE Len(h) < n
    <2>1. /\ Append(h, b) \in Seq(BOOLEAN) /\ Len(Append(h, b)) = Len(h) + 1
          /\ Append(h, b)[Len(h) + 1] = b /\ Append(h, b) # <<>>
      BY AppendProperties
    <2>. QED
      BY <1>1, <1>2, <2>1 DEF Push, Last
  <1>3. CASE ~ (Len(h) < n)
    <2>1. h # <<>> /\ Len(h) = n
      BY <1>1, <1>3, EmptySeq
    <2>2. Tail(h) \in Seq(BOOLEAN) /\ Len(Tail(h)) = n - 1
      BY <2>1, HeadTailProperties
    <2>3. /\ Append(Tail(h), b) \in Seq(BOOLEAN) /\ Len(Append(Tail(h), b)) = n
          /\ Append(Tail(h), b)[n] = b /\ Append(Tail(h), b) # <<>>
      BY <2>2, AppendProperties
    <2>. QED
      BY <1>3, <2>3 DEF Push, Last
  <1>. QED
    BY <1>2, <1>3

\* A frame that says no does not make a window agree, whatever leaves the window for it.
LEMMA NoVoteNoAgreement ==
  ASSUME NEW n \in Nat \ {0}, NEW h \in Seq(BOOLEAN), Len(h) <= n, ~ Agreed(h)
  PROVE  ~ Agreed(Push(h, FALSE, n))
  <1>. DEFINE A == {k \in DOMAIN h : h[k]}
  <1>1. Len(h) \in Nat /\ DOMAIN h = 1..Len(h) /\ IsFiniteSet(A) /\ Cardinality(A) \in Nat
    BY Positions, LenProperties
  <1>2. CASE Len(h) < n
    <2>. DEFINE t == Append(h, FALSE)
    <2>1. /\ t \in Seq(BOOLEAN) /\ Len(t) = Len(h) + 1 /\ t[Len(h) + 1] = FALSE
          /\ \A k \in 1..Len(h) : t[k] = h[k]
      BY AppendProperties
    <2>2. DOMAIN t = 1..(Len(h) + 1)
      BY <2>1, LenProperties
    <2>. HIDE DEF t
    <2>3. {k \in DOMAIN t : t[k]} = A
      <3>1. \A k \in 1..(Len(h) + 1) : k \in 1..Len(h) \/ k = Len(h) + 1
        BY <1>1
      <3>2. \A k \in 1..Len(h) : k \in 1..(Len(h) + 1)
        BY <1>1
      <3>. QED
        BY <1>1, <2>1, <2>2, <3>1, <3>2
    <2>4. Ayes(t) = Ayes(h) /\ Ayes(h) \in Nat
      BY <1>1, <2>3 DEF Ayes
    <2>5. CASE h = <<>>
      <3>1. Len(h) = 0 /\ A = {}
        BY <1>1, <2>5, EmptySeq
      <3>2. Ayes(t) = 0
        BY <2>3, <3>1, FS_EmptySet DEF Ayes
      <3>. QED
        BY <1>2, <2>1, <3>1, <3>2 DEF Agreed, Push, t
    <2>6. CASE h # <<>>
      <3>1. ~ (3 * Ayes(h) >= 2 * Len(h))
        BY <2>6 DEF Agreed
      <3>2. ~ (3 * Ayes(t) >= 2 * Len(t))
        BY <1>1, <2>1, <2>4, <3>1
      <3>. QED
        BY <1>2, <3>2 DEF Agreed, Push, t
    <2>. QED
      BY <2>5, <2>6
  <1>3. CASE ~ (Len(h) < n)
    <2>. DEFINE t == Append(Tail(h), FALSE)
                T == {k \in DOMAIN t : t[k]}
                f == [k \in T |-> k + 1]
    <2>1. h # <<>> /\ Len(h) = n /\ n \in Nat
      <3>. HIDE DEF t, A
      <3>1. n \in Nat /\ n > 0
        OBVIOUS
      <3>2. Len(h) = n
        <4>1. Len(h) \in Nat
          BY <1>1
        <4>2. Len(h) <= n /\ ~ (Len(h) < n)
          BY <1>3
        <4>. QED
          BY <3>1, <4>1, <4>2
      <3>. QED
        BY <3>1, <3>2, EmptySeq
    <2>2. Tail(h) \in Seq(BOOLEAN) /\ Len(Tail(h)) = n - 1 /\ \A k \in 1..(n - 1) : Tail(h)[k] = h[k + 1]
      BY <2>1, HeadTailProperties
    <2>3. /\ t \in Seq(BOOLEAN) /\ Len(t) = n - 1 + 1 /\ t[n - 1 + 1] = FALSE
          /\ \A k \in 1..(n - 1) : t[k] = h[k + 1]
      <3>1. /\ t \in Seq(BOOLEAN) /\ Len(t) = Len(Tail(h)) + 1 /\ t[Len(Tail(h)) + 1] = FALSE
            /\ \A k \in 1..Len(Tail(h)) : t[k] = Tail(h)[k]
        BY <2>2, AppendProperties
      <3>. HIDE DEF t
      <3>. QED
        BY <2>2, <3>1
    <2>4. Len(t) = n /\ t[n] = FALSE /\ DOMAIN t = 1..n
      BY <2>1, <2>3, LenProperties
    <2>. HIDE DEF t
    <2>5. \A k \in T : k \in 1..(n - 1) /\ k + 1 \in A
      <3>1. \A k \in 1..n : k = n \/ (k \in 1..(n - 1) /\ k + 1 \in 1..n)
        BY <2>1
      <3>. QED
        BY <1>1, <2>1, <2>3, <2>4, <3>1
    <2>6. f \in Injection(T, A)
      <3>1. f \in [T -> A]
        BY <2>5
      <3>2. \A j, k \in T : j + 1 = k + 1 => j = k
        BY <2>5
      <3>3. \A j, k \in T : f[j] = f[k] => j = k
        BY <3>2
      <3>. QED
        BY <3>1, <3>3 DEF Injection, IsInjective
    <2>7. Cardinality(T) <= Cardinality(A)
      BY <1>1, <2>6, FS_Injection
    <2>8. Ayes(t) <= Ayes(h) /\ Ayes(t) \in Nat /\ Ayes(h) \in Nat
      <3>1. T \in SUBSET DOMAIN t
        OBVIOUS
      <3>2. Cardinality(T) \in Nat
        BY <2>3, <3>1, Positions
      <3>. QED
        BY <1>1, <2>7, <3>2 DEF Ayes
    <2>9. ~ (3 * Ayes(h) >= 2 * n)
      BY <2>1 DEF Agreed
    <2>10. ~ (3 * Ayes(t) >= 2 * Len(t))
      BY <2>1, <2>4, <2>8, <2>9
    <2>. QED
      BY <1>3, <2>10 DEF Agreed, Push, t
  <1>. QED
    BY <1>2, <1>3
----------------------------------------------------------------------------
\* What the votes of a frame are.
LEMMA VoteIs ==
  ASSUME Vote, asr \in BOOLEAN
  PROVE  /\ UNCHANGED <<shared, growth, wasSpeaking, text>> /\ pc = "vote" /\ known' = {}
         /\ \/ pc' = "idle" /\ UNCHANGED windows
            \/ \E b, q \in BOOLEAN :
                 /\ votesOff' = Push(votesOff, q, OffWindow)
                 /\ \/ /\ Agreed(Push(votesOn, b, OnWindow)) /\ pc' = "trigger"
                       /\ votesOn' = Push(votesOn, b, OnWindow)
                    \/ /\ ~ Agreed(Push(votesOn, b, OnWindow)) /\ pc' = "idle"
                       /\ votesOn' \in {<<>>, Push(votesOn, b, OnWindow)}
  <1>1. CASE ~ wasSpeaking
    BY <1>1 DEF Vote
  <1>2. CASE wasSpeaking
    <2>. DEFINE On(b)  == Push(votesOn, b, OnWindow)
                Off(b) == Push(votesOff, b, OffWindow)
    <2>1. PICK cues \in Cues :
            LET votes == cues + (IF asr THEN 1 ELSE 0)
                on    == On(votes >= 2)
                off   == Off(votes = 0)
            IN /\ votesOff' = off
               /\ IF Agreed(on) THEN pc' = "trigger" /\ votesOn' = on
                  ELSE pc' = "idle" /\ votesOn' = IF Agreed(off) THEN <<>> ELSE on
      BY <1>2 DEF Vote
    <2>. DEFINE votes == cues + (IF asr THEN 1 ELSE 0)
                b == votes >= 2
                q == votes = 0
    <2>2. b \in BOOLEAN /\ q \in BOOLEAN
      OBVIOUS
    <2>3. /\ votesOff' = Off(q)
          /\ IF Agreed(On(b)) THEN pc' = "trigger" /\ votesOn' = On(b)
             ELSE pc' = "idle" /\ votesOn' = IF Agreed(Off(q)) THEN <<>> ELSE On(b)
      BY <2>1
    <2>. HIDE DEF votes, b, q
    <2>4. /\ UNCHANGED <<shared, growth, wasSpeaking, text>> /\ pc = "vote" /\ known' = {}
      BY DEF Vote
    <2>. QED
      BY <2>2, <2>3, <2>4
  <1>. QED
    BY <1>1, <1>2

\* The types hold of every step.
LEMMA StepType == TypeOK /\ [Next]_vars => TypeOK'
  <1>. SUFFICES ASSUME TypeOK, [Next]_vars PROVE TypeOK'
    OBVIOUS
  <1>0. ASRTokens \in Nat /\ <<>> \in Seq(Words)
    BY EngineAssumption, EmptySeq
  <1>1. CASE UNCHANGED vars
    BY <1>1 DEF vars, shared, windows, growth, TypeOK
  <1>2. CASE SetSpeaking \/ NotifyPartial
    BY <1>2 DEF SetSpeaking, NotifyPartial, FrameUnchanged, windows, growth, TypeOK
  <1>3. CASE NotifyTTSText
    <2>1. adding' \in Seq(Words)
      BY <1>3, EngineAssumption DEF NotifyTTSText
    <2>. QED
      BY <1>3, <2>1 DEF NotifyTTSText, FrameUnchanged, windows, growth, TypeOK
  <1>4. CASE AddWord
    <2>1. Head(adding) \in Words /\ adding' \in Seq(Words)
      BY <1>4, HeadTailProperties DEF AddWord, TypeOK
    <2>2. announced' \subseteq Words /\ ttsBloom' = {Slot[v] : v \in announced'}
      BY <1>4, <2>1 DEF AddWord, TypeOK
    <2>. QED
      BY <1>4, <2>1, <2>2 DEF AddWord, FrameUnchanged, windows, growth, TypeOK
  <1>5. CASE ReadSpeaking
    BY <1>5 DEF ReadSpeaking, shared, windows, growth, TypeOK
  <1>6. CASE ReadPartial
    <2>1. next' \in Nat \ {0}
      BY <1>6 DEF ReadPartial, TypeOK
    <2>2. /\ pc' \in {"vote", "test"} /\ asr' \in BOOLEAN /\ text' = lastPartial
          /\ known' = announced
          /\ UNCHANGED <<shared, windows, lastTokens, newCount, counted, wasSpeaking>>
      BY <1>6 DEF ReadPartial, TypeOK
    <2>. QED
      BY <2>1, <2>2 DEF shared, windows, TypeOK
  <1>7. CASE TestWord
    <2>1. newCount' \in 0..ASRTokens
      <3>1. newCount \in Nat /\ newCount < ASRTokens /\ newCount' \in {newCount, newCount + 1}
        BY <1>7 DEF TestWord, TypeOK
      <3>. QED
        BY <1>0, <3>1
    <2>2. next' \in Nat \ {0}
      BY <1>7 DEF TestWord, TypeOK
    <2>. QED
      BY <1>7, <2>1, <2>2 DEF TestWord, shared, windows, TypeOK
  <1>8. CASE EndTest
    <2>1. lastTokens' \in Nat
      <3>1. text \in Seq(Words)
        BY <1>0, EngineAssumption DEF TypeOK
      <3>. QED
        BY <1>8, <3>1, LenProperties DEF EndTest, TokensCounted
    <2>2. newCount' \in 0..ASRTokens /\ next' \in Nat \ {0}
      BY <1>0, <1>8 DEF EndTest
    <2>3. asr' \in BOOLEAN
      BY <1>8 DEF EndTest
    <2>. QED
      BY <1>8, <2>1, <2>2, <2>3 DEF EndTest, shared, windows, TypeOK
  <1>9. CASE Vote
    <2>1. asr \in BOOLEAN
      BY DEF TypeOK
    <2>2. pc' \in {"idle", "trigger"} /\ known' \subseteq Words
          /\ UNCHANGED <<shared, growth, wasSpeaking, text>>
      BY <1>9, <2>1, VoteIs
    <2>3. votesOff' \in Seq(BOOLEAN) /\ Len(votesOff') <= OffWindow
      BY <1>9, <2>1, VoteIs, PushProperties, EngineAssumption DEF TypeOK, windows
    <2>4. votesOn' \in Seq(BOOLEAN) /\ Len(votesOn') <= OnWindow
      <3>1. <<>> \in Seq(BOOLEAN) /\ Len(<<>>) <= OnWindow
        BY EmptySeq, EngineAssumption
      <3>. QED
        BY <1>9, <2>1, <3>1, VoteIs, PushProperties, EngineAssumption DEF TypeOK, windows
    <2>. QED
      BY <2>2, <2>3, <2>4 DEF TypeOK, shared, growth
  <1>10. CASE Trigger
    <2>1. <<>> \in Seq(BOOLEAN) /\ Len(<<>>) <= OnWindow /\ Len(<<>>) <= OffWindow
      BY EmptySeq, EngineAssumption
    <2>. QED
      BY <1>10, <2>1 DEF Trigger, VotesOnForgotten, shared, growth, TypeOK
  <1>. QED
    BY <1>1, <1>2, <1>3, <1>4, <1>5, <1>6, <1>7, <1>8, <1>9, <1>10 DEF Next

(* The types and the sizes of the windows; the filter holds the slots of   *)
(* the announced words and no other (engine.go:151-159, 223-228).          *)
THEOREM TypeCorrect == Spec => []TypeOK
  <1>1. Init => TypeOK
    <2>1. <<>> \in Seq(BOOLEAN) /\ Len(<<>>) <= OnWindow /\ Len(<<>>) <= OffWindow
      BY EmptySeq, EngineAssumption
    <2>2. ASRTokens \in Nat /\ <<>> \in Seq(Words)
      BY EngineAssumption, EmptySeq
    <2>. SUFFICES ASSUME Init PROVE TypeOK
      OBVIOUS
    <2>3. ttsBloom = {Slot[w] : w \in announced} /\ announced \subseteq Words /\ known \subseteq Words
      BY DEF Init
    <2>4. /\ votesOn = <<>> /\ votesOff = <<>> /\ text = <<>> /\ counted = <<>> /\ lastPartial = <<>>
          /\ adding = <<>> /\ lastTokens = 0 /\ next = 1 /\ newCount = 0 /\ pc = "idle"
          /\ speaking \in BOOLEAN /\ wasSpeaking \in BOOLEAN /\ asr \in BOOLEAN
      BY DEF Init
    <2>5. newCount \in 0..ASRTokens /\ next \in Nat \ {0} /\ lastTokens \in Nat
      BY <2>2, <2>4
    <2>. QED
      BY <2>1, <2>2, <2>3, <2>4, <2>5 DEF TypeOK
  <1>. QED
    BY <1>1, StepType, PTL DEF Spec
----------------------------------------------------------------------------
(***************************************************************************)
(* Between two frames the window has not agreed.  lastTokens counts the    *)
(* last partial that was tested, so a test of that same partial has no     *)
(* word left to look at.                                                   *)
(***************************************************************************)
Undecided == pc # "trigger" => ~ Agreed(votesOn)
Tallied   == /\ lastTokens = Len(counted)
             /\ pc = "test" /\ text = counted => next = Len(text) + 1 /\ newCount = 0
             /\ pc # "test" => newCount = 0

\* A window agrees only with the frame that triggers, and that frame voted for it.
LEMMA StepVotes ==
  TypeOK /\ TypeOK' /\ Undecided /\ TriggersOnOverlap /\ [Next]_vars => Undecided' /\ TriggersOnOverlap'
  <1>. SUFFICES ASSUME TypeOK, TypeOK', Undecided, TriggersOnOverlap, [Next]_vars
                PROVE  Undecided' /\ TriggersOnOverlap'
    OBVIOUS
  <1>1. CASE UNCHANGED <<votesOn, pc>>
    BY <1>1 DEF Undecided, TriggersOnOverlap
  <1>2. CASE ReadSpeaking \/ ReadPartial \/ EndTest
    BY <1>2 DEF ReadSpeaking, ReadPartial, EndTest, windows, Undecided, TriggersOnOverlap
  <1>3. CASE Vote
    <2>0. asr \in BOOLEAN
      BY DEF TypeOK
    <2>1. ~ Agreed(votesOn)
      BY <1>3 DEF Vote, Undecided
    <2>2. CASE pc' = "idle" /\ UNCHANGED windows
      BY <2>1, <2>2 DEF windows, Undecided, TriggersOnOverlap
    <2>3. ASSUME NEW b \in BOOLEAN, Agreed(Push(votesOn, b, OnWindow)), pc' = "trigger",
                 votesOn' = Push(votesOn, b, OnWindow)
          PROVE  Undecided' /\ TriggersOnOverlap'
      <3>1. b # FALSE
        BY <2>1, <2>3, NoVoteNoAgreement, EngineAssumption DEF TypeOK
      <3>2. b = TRUE
        BY <3>1
      <3>3. Last(votesOn') = b
        BY <2>3, PushProperties, EngineAssumption DEF TypeOK
      <3>. QED
        BY <2>3, <3>2, <3>3 DEF Undecided, TriggersOnOverlap
    <2>4. ASSUME NEW b \in BOOLEAN, ~ Agreed(Push(votesOn, b, OnWindow)), pc' = "idle",
                 votesOn' \in {<<>>, Push(votesOn, b, OnWindow)}
          PROVE  Undecided' /\ TriggersOnOverlap'
      BY <2>4 DEF Agreed, Undecided, TriggersOnOverlap
    <2>. QED
      BY <1>3, <2>0, <2>2, <2>3, <2>4, VoteIs
  <1>4. CASE Trigger
    BY <1>4 DEF Trigger, VotesOnForgotten, Agreed, Undecided, TriggersOnOverlap
  <1>. QED
    BY <1>1, <1>2, <1>3, <1>4
    DEF Next, SetSpeaking, NotifyPartial, NotifyTTSText, AddWord, TestWord, FrameUnchanged, vars, windows

(* The engine triggers on a frame that votes for it: one that does not     *)
(* cannot bring the window above two thirds, also not by the frame that    *)
(* leaves it, and a trigger forgets the window (engine.go:151-182, 375).   *)
THEOREM VotedFor == Spec => []TriggersOnOverlap
  <1>1. Init => Undecided /\ TriggersOnOverlap
    BY DEF Init, Undecided, TriggersOnOverlap, Agreed
  <1>. QED
    BY <1>1, StepVotes, TypeCorrect, PTL DEF Spec

\* Whatever comes between the frames, and between the words of one, lastTokens stays the count
\* of the last partial that was tested.
LEMMA StepTallied == TypeOK /\ Tallied /\ [Next]_vars => Tallied'
  <1>. SUFFICES ASSUME TypeOK, Tallied, [Next]_vars PROVE Tallied'
    OBVIOUS
  <1>0. Len(text) \in Nat
    <2>1. text \in Seq(Words)
      BY EngineAssumption, EmptySeq DEF TypeOK
    <2>. QED
      BY <2>1, LenProperties
  <1>1. CASE UNCHANGED <<growth, pc, text>>
    BY <1>1 DEF growth, Tallied
  <1>2. CASE ReadSpeaking \/ Trigger
    BY <1>2 DEF ReadSpeaking, Trigger, growth, Tallied
  <1>3. CASE ReadPartial
    BY <1>3 DEF ReadPartial, Tallied
  <1>4. CASE TestWord
    <2>1. text # counted
      <3>1. CASE text = counted
        <4>1. next = Len(text) + 1 /\ next <= Len(text)
          BY <1>4, <3>1 DEF TestWord, Tallied
        <4>. QED
          BY <1>0, <4>1
      <3>. QED
        BY <3>1
    <2>. QED
      BY <1>4, <2>1 DEF TestWord, Tallied
  <1>5. CASE EndTest
    BY <1>5 DEF EndTest, TokensCounted, Tallied
  <1>6. CASE Vote
    BY <1>6 DEF Vote, growth, Tallied
  <1>. QED
    BY <1>1, <1>2, <1>3, <1>4, <1>5, <1>6
    DEF Next, SetSpeaking, NotifyPartial, NotifyTTSText, AddWord, FrameUnchanged, vars

\* Only the end of the test goes from the test to the vote.
LEMMA OnlyEndTest ==
  ASSUME [Next]_vars, pc = "test", pc' = "vote"
  PROVE  EndTest
  BY DEF Next, SetSpeaking, NotifyPartial, NotifyTTSText, AddWord, FrameUnchanged, ReadSpeaking,
         ReadPartial, TestWord, Vote, Trigger, vars

(* A partial that was counted is not counted again, however many frames    *)
(* see it before the next one arrives, and also when blank ones come       *)
(* between (engine.go:389-394, 396-413).                                   *)
THEOREM CountedOnce == Spec => GrowthCountsOnce
  <1>1. Init => Tallied
    BY EmptySeq DEF Init, Tallied
  <1>2. ASSUME Tallied, [Next]_vars, pc = "test", pc' = "vote", text = counted
        PROVE  ~asr'
    <2>1. asr' = (newCount >= ASRTokens)
      BY <1>2, OnlyEndTest DEF EndTest
    <2>2. newCount = 0
      BY <1>2 DEF Tallied
    <2>3. ASRTokens \in Nat /\ ASRTokens > 0
      BY EngineAssumption
    <2>4. ~ (newCount >= ASRTokens)
      BY <2>2, <2>3
    <2>. QED
      BY <2>1, <2>4
  <1>3. Tallied /\ [Next]_vars
          => [(pc = "test" /\ pc' = "vote" /\ text = counted) => ~asr']_vars
    BY <1>2
  <1>. QED
    BY <1>1, <1>3, StepTallied, TypeCorrect, PTL DEF Spec, GrowthCountsOnce
=============================================================================
