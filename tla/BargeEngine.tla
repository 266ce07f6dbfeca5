---------------------------- MODULE BargeEngine ----------------------------
(***************************************************************************)
(* internal/barge/engine.go: for each 10 ms frame of the microphone the    *)
(* engine counts the cues that say somebody speaks over the agent and      *)
(* triggers when two thirds of a window of frames agree.  The frames come  *)
(* from the mic reader; the turn loop sets speaking and announces the      *)
(* words of the agent, the transcript goroutine hands in the partials.     *)
(* The energy of a frame is abstracted to the two cues it gives.           *)
(*                                                                         *)
(* A word is a field of a lower-cased text.  The agent's words come as the *)
(* reply writes them, with its punctuation; the recogniser is asked for    *)
(* unformatted text (assemblyai.go:94), so the echo of a word may come as  *)
(* another one.                                                            *)
(***************************************************************************)
EXTENDS Naturals, Sequences, FiniteSets, SequencesExt

CONSTANTS Words, Stopwords,
          Slot,          \* the slot of the bloom filter a word hashes to
          Heard,         \* how the recogniser writes a word the agent speaks
          Chunks,        \* the texts the turn loop may announce
          Partials,      \* the partial transcripts that may arrive, a blank one included
          ASRTokens,     \* new words that count as growth (3 in the code)
          OnWindow,      \* frames votesOn keeps (16 in the code)
          OffWindow      \* frames votesOff keeps (21 in the code)

ASSUME EngineAssumption ==
  /\ Stopwords \subseteq Words /\ Slot \in [Words -> Nat] /\ Heard \in [Words -> Words]
  /\ Chunks \subseteq Seq(Words) /\ Partials \subseteq Seq(Words)
  /\ ASRTokens \in Nat \ {0} /\ OnWindow \in Nat \ {0} /\ OffWindow \in Nat \ {0}

VARIABLES speaking, lastPartial, ttsBloom,   \* shared with the other goroutines
          adding,                            \* what NotifyTTSText has still to add
          lastTokens,                        \* how many tokens the last partial had
          votesOn, votesOff,
          pc, wasSpeaking, text,             \* the mic reader in onMicFrame and what it read
          next, newCount, asr,               \* asrGrowth: its place, its count, its result
          counted,                           \* history: the last partial that was counted
          announced, known                   \* history: the words added; of them, those added
                                             \* before the frame read its partial

shared  == <<speaking, lastPartial, ttsBloom, adding, announced>>
windows == <<votesOn, votesOff>>
growth  == <<lastTokens, next, newCount, asr, counted>>
vars == <<shared, windows, growth, pc, wasSpeaking, text, known>>

Init ==
  /\ speaking = FALSE /\ lastPartial = <<>> /\ ttsBloom = {} /\ adding = <<>>
  /\ announced = {} /\ known = {} /\ votesOn = <<>> /\ votesOff = <<>>
  /\ lastTokens = 0 /\ next = 1 /\ newCount = 0 /\ asr = FALSE /\ counted = <<>>
  /\ pc = "idle" /\ wasSpeaking = FALSE /\ text = <<>>

\* Slips the code could have; each replaces a definition below in a mutant run.
KeepsVotesOn == votesOn' = votesOn
KeepsTokens  == lastTokens' = lastTokens

\* voteWindow: the last n frames, and whether two thirds of them agree.
Push(h, b, n) == IF Len(h) < n THEN Append(h, b) ELSE Append(Tail(h), b)
Ayes(h)       == Cardinality({k \in DOMAIN h : h[k]})
Agreed(h)     == h # <<>> /\ 3 * Ayes(h) >= 2 * Len(h)

InBloom(w)       == Slot[w] \in ttsBloom
TokensCounted    == lastTokens' = Len(text)
VotesOnForgotten == votesOn' = <<>>

\* What simpleVAD and simpleDTD say of a frame.
Cues == {0, 1, 2}

----------------------------------------------------------------------------
(* The other goroutines. *)
FrameUnchanged == UNCHANGED <<windows, growth, pc, wasSpeaking, text, known>>

SetSpeaking ==
  /\ speaking' = ~speaking
  /\ FrameUnchanged /\ UNCHANGED <<lastPartial, ttsBloom, adding, announced>>

NotifyPartial ==
  /\ lastPartial' \in Partials
  /\ FrameUnchanged /\ UNCHANGED <<speaking, ttsBloom, adding, announced>>

\* Its words go into the filter one by one and without e.mu.
NotifyTTSText ==
  /\ adding = <<>> /\ adding' \in Chunks
  /\ FrameUnchanged /\ UNCHANGED <<speaking, lastPartial, ttsBloom, announced>>

AddWord ==
  /\ adding # <<>> /\ adding' = Tail(adding)
  /\ ttsBloom' = ttsBloom \cup {Slot[Head(adding)]}
  /\ announced' = announced \cup {Head(adding)}
  /\ FrameUnchanged /\ UNCHANGED <<speaking, lastPartial>>

----------------------------------------------------------------------------
(* onMicFrame reads speaking, then lastPartial, each under e.mu, and tests *)
(* the filter for one word after the other; the rest is its own.           *)
ReadSpeaking ==
  /\ pc = "idle" /\ pc' = "partial" /\ wasSpeaking' = speaking
  /\ UNCHANGED <<shared, windows, growth, text, known>>

\* asrGrowth: a blank partial is no growth and is not remembered.
ReadPartial ==
  /\ pc = "partial" /\ text' = lastPartial /\ known' = announced
  /\ IF lastPartial = <<>> THEN pc' = "vote" /\ asr' = FALSE /\ UNCHANGED next
                           ELSE pc' = "test" /\ next' = lastTokens + 1 /\ UNCHANGED asr
  /\ UNCHANGED <<shared, windows, lastTokens, newCount, counted, wasSpeaking>>

\* Only a new word that is neither a stop word nor the agent's counts.
TestWord ==
  /\ pc = "test" /\ newCount < ASRTokens /\ next <= Len(text)
  /\ newCount' = (IF text[next] \in Stopwords \/ InBloom(text[next]) THEN newCount
                                                                     ELSE newCount + 1)
  /\ next' = next + 1
  /\ UNCHANGED <<shared, windows, lastTokens, asr, counted, pc, wasSpeaking, text, known>>

EndTest ==
  /\ pc = "test" /\ (newCount >= ASRTokens \/ next > Len(text))
  /\ pc' = "vote" /\ asr' = (newCount >= ASRTokens) /\ newCount' = 0 /\ next' = 1
  /\ TokensCounted /\ counted' = text
  /\ UNCHANGED <<shared, windows, wasSpeaking, text, known>>

Vote ==
  /\ pc = "vote" /\ known' = {}
  /\ IF ~wasSpeaking THEN pc' = "idle" /\ UNCHANGED windows
     ELSE \E cues \in Cues :
            LET votes == cues + (IF asr THEN 1 ELSE 0)
                on    == Push(votesOn, votes >= 2, OnWindow)
                off   == Push(votesOff, votes = 0, OffWindow)
            IN /\ votesOff' = off
               /\ IF Agreed(on) THEN pc' = "trigger" /\ votesOn' = on
                  ELSE pc' = "idle" /\ votesOn' = IF Agreed(off) THEN <<>> ELSE on
  /\ UNCHANGED <<shared, growth, wasSpeaking, text>>

\* OnTTSStop and OnTrigger, then both windows start again.
Trigger ==
  /\ pc = "trigger" /\ pc' = "idle"
  /\ VotesOnForgotten /\ votesOff' = <<>>
  /\ UNCHANGED <<shared, growth, wasSpeaking, text, known>>

Next == \/ SetSpeaking \/ NotifyPartial \/ NotifyTTSText \/ AddWord
        \/ ReadSpeaking \/ ReadPartial \/ TestWord \/ EndTest \/ Vote \/ Trigger

Spec == Init /\ [][Next]_vars

----------------------------------------------------------------------------
(* Types and the sizes of the windows; the filter holds the slots of the   *)
(* words that were added and no other.                                     *)
TypeOK ==
  /\ speaking \in BOOLEAN /\ lastPartial \in Partials \cup {<<>>} /\ text \in Partials \cup {<<>>}
  /\ adding \in Seq(Words) /\ announced \subseteq Words /\ known \subseteq Words
  /\ ttsBloom = {Slot[w] : w \in announced}
  /\ lastTokens \in Nat /\ next \in Nat \ {0} /\ newCount \in 0..ASRTokens
  /\ votesOn \in Seq(BOOLEAN) /\ Len(votesOn) <= OnWindow
  /\ votesOff \in Seq(BOOLEAN) /\ Len(votesOff) <= OffWindow
  /\ pc \in {"idle", "partial", "test", "vote", "trigger"} /\ wasSpeaking \in BOOLEAN
  /\ asr \in BOOLEAN /\ counted \in Partials \cup {<<>>}

(* The engine triggers on a frame that speaks over the agent, never on one *)
(* that merely finds the window above two thirds: a trigger or a silence   *)
(* empties the window, and a frame that says no cannot raise its share,    *)
(* the frame that leaves the window included.                              *)
TriggersOnOverlap == pc = "trigger" => Last(votesOn)

(* A partial counts as growth in one frame at most: the frames that see it *)
(* again, ten milliseconds later or after a blank one, do not vote for it  *)
(* again.                                                                  *)
GrowthCountsOnce == [][(pc = "test" /\ pc' = "vote" /\ text = counted) => ~asr']_vars

(* types.go:45 "NotifyTTSText lets the engine discount echoed content": a  *)
(* text that is nothing but an echo of what was announced before the frame *)
(* looked at it is no growth.                                              *)
Echoes         == {Heard[w] : w \in known}
EchoIsNoGrowth == pc = "vote" /\ (\A k \in DOMAIN text : text[k] \in Echoes) => ~asr
=============================================================================
