----------------------------- MODULE PCMStream -----------------------------
(***************************************************************************)
(* What the turn loop relies on when it ranges over the two channels of    *)
(* internal/agent/types.go's TTS: buffers come in the order they were      *)
(* synthesised, at most one error, nothing after the channels are closed,  *)
(* the error's first; and they are closed, taken from or not.              *)
(***************************************************************************)
EXTENDS Naturals, Sequences

CONSTANT MaxAudio         \* bound: buffers that are synthesised

VARIABLES queue,          \* buffers to take, by number
          newest,         \* the last buffer that was synthesised
          failed,         \* an error was sent
          errEnded, ended \* the channels are closed

vars == <<queue, newest, failed, errEnded, ended>>

Init == queue = <<>> /\ newest = 0 /\ failed = FALSE /\ errEnded = FALSE /\ ended = FALSE

Fail ==
  /\ ~failed /\ ~errEnded /\ failed' = TRUE
  /\ UNCHANGED <<queue, newest, errEnded, ended>>

\* Buffers that find no room, or the stream closed, are dropped.
Produce ==
  \E b \in newest+1..MaxAudio :
    /\ newest' = b
    /\ ~ended /\ queue' = Append(queue, b)
    /\ UNCHANGED <<failed, errEnded, ended>>

Take ==
  /\ queue # <<>> /\ queue' = Tail(queue)
  /\ UNCHANGED <<newest, failed, errEnded, ended>>

EndErr == ~errEnded /\ errEnded' = TRUE /\ UNCHANGED <<queue, newest, failed, ended>>
End    == errEnded /\ ~ended /\ ended' = TRUE /\ UNCHANGED <<queue, newest, failed, errEnded>>

Next == Fail \/ Produce \/ Take \/ EndErr \/ End

Steps == Init /\ [][Next]_vars

Spec == Steps /\ WF_vars(EndErr) /\ WF_vars(End)
=============================================================================
