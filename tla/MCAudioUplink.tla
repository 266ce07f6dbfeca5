---- MODULE MCAudioUplink ----
(* Constants for the runs of AudioUplink: packets of half a chunk and of   *)
(* one and a half.                                                         *)
EXTENDS AudioUplink

HalfOrMore == {1, 3}
====
