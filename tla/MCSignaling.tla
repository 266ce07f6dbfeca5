---- MODULE MCSignaling ----
(* Constants for the run of Signaling. *)
EXTENDS Signaling

CONSTANTS call, nobody, first, second
OneTrack  == {first}
TwoTracks == {first, second}
====
