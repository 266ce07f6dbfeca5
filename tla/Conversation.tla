--------------------------- MODULE Conversation ---------------------------
(***************************************************************************)
(* What agent.Session promises to whoever listens to it: one exchange at a *)
(* time, a turn that says chunks of its reply in order until it is         *)
(* interrupted and nothing after that, and a history that is exactly the   *)
(* exchanges that were reported (session.go:128-261).                      *)
(***************************************************************************)
EXTENDS Naturals, Sequences, SequencesExt

CONSTANTS Utterances, Chunks

VARIABLES phase,        \* "listening", "thinking" or "speaking"
          user,         \* the utterance being answered
          said,         \* chunks of the reply said so far
          interrupted,  \* this turn was interrupted
          history,      \* the texts the next prompt is built from
          reported      \* the arguments of the onTurn calls

vars == <<phase, user, said, interrupted, history, reported>>

Nothing == 0
Quiet   == /\ phase = "listening" /\ user = Nothing /\ said = <<>> /\ interrupted = FALSE

Init == Quiet /\ history = <<>> /\ reported = <<>>

Hear ==
  /\ phase = "listening" /\ phase' = "thinking"
  /\ user' \in Utterances
  /\ UNCHANGED <<said, interrupted, history, reported>>

\* No reply, a blank one, or an error.
GiveUp == phase = "thinking" /\ Quiet' /\ UNCHANGED <<history, reported>>

Speak ==
  /\ phase = "thinking" /\ phase' = "speaking"
  /\ UNCHANGED <<user, said, interrupted, history, reported>>

\* A chunk of which nothing was played is left out.
Say ==
  /\ phase = "speaking" /\ ~interrupted
  /\ \E c \in Chunks :
       /\ said # <<>> => Last(said)[2] < c
       /\ said' = Append(said, <<Len(reported) + 1, c>>)
  /\ UNCHANGED <<phase, user, interrupted, history, reported>>

Interrupt ==
  /\ phase = "speaking" /\ interrupted' = TRUE
  /\ UNCHANGED <<phase, user, said, history, reported>>

Report ==
  /\ phase = "speaking" /\ Quiet'
  /\ reported' = Append(reported, [user |-> user, spoken |-> said, interrupted |-> interrupted])
  /\ history' = history \o <<[role |-> "USER", text |-> <<user>>]>>
                        \o (IF said = <<>> THEN <<>>
                            ELSE <<[role |-> "ASSISTANT", text |-> said]>>)

Next == Hear \/ GiveUp \/ Speak \/ Say \/ Interrupt \/ Report

\* The agent always comes back to listening, whatever the caller does.
ListensAgain == phase # "listening" ~> phase = "listening"

Steps == Init /\ [][Next]_vars
Spec  == Steps /\ ListensAgain
=============================================================================
