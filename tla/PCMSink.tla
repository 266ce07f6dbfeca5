------------------------------ MODULE PCMSink ------------------------------
(***************************************************************************)
(* What the callers of internal/agent/types.go's PCM48kSink rely on: audio *)
(* is played in the order it was written and at most once; while a Reset   *)
(* runs it discards from the front what would be played next; when a Reset *)
(* returns, nothing written before it is left.  A closed sink may lose     *)
(* audio but never reorders it.  Samples are numbered as they are written, *)
(* so that a set of them has an order: to play a sample is to play or lose *)
(* all that are older.                                                     *)
(***************************************************************************)
EXTENDS Naturals

CONSTANTS Callers, MaxSamples  \* MaxSamples: bound on the samples ever written

VARIABLES accepted,   \* samples written so far
          queue,      \* samples waiting to be played
          played,     \* samples played
          resetting,  \* callers inside Reset
          closed

vars == <<accepted, queue, played, resetting, closed>>

UpTo(n) == {x \in queue : x <= n}

Init == accepted = 0 /\ queue = {} /\ played = {} /\ resetting = {} /\ closed = FALSE

WritePCM ==
  \E n \in accepted+1..MaxSamples :
    /\ accepted' = n
    /\ queue' = queue \cup (accepted+1..n)
    /\ UNCHANGED <<played, resetting, closed>>

Play ==
  \E n \in queue :
    /\ played' = played \cup UpTo(n)
    /\ queue' = queue \ UpTo(n)
    /\ UNCHANGED <<accepted, resetting, closed>>

BeginReset ==
  \E c \in Callers \ resetting :
    /\ resetting' = resetting \cup {c}
    /\ UNCHANGED <<accepted, queue, played, closed>>

Discard ==
  /\ resetting # {}
  /\ \E n \in queue : queue' = queue \ UpTo(n)
  /\ UNCHANGED <<accepted, played, resetting, closed>>

EndReset ==
  \E c \in resetting :
    /\ resetting' = resetting \ {c}
    /\ queue' = {}
    /\ UNCHANGED <<accepted, played, closed>>

Close == closed' = TRUE /\ UNCHANGED <<accepted, queue, played, resetting>>

\* A frame pushed to a stopped writer is lost, whatever still waits before it.
Lose ==
  /\ closed
  /\ \E m, n \in queue : queue' = queue \ (m..n)
  /\ UNCHANGED <<accepted, played, resetting, closed>>

Next == WritePCM \/ Play \/ BeginReset \/ Discard \/ EndReset \/ Close \/ Lose

Spec == Init /\ [][Next]_vars
=============================================================================
