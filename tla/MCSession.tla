---- MODULE MCSession ----
(* Constants for the runs of Session: the data channel and the mic reader. *)
EXTENDS Session

CONSTANTS control, engine
MCBargers   == {control, engine}
MCOneBarger == {control}
====
