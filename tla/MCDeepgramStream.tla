---- MODULE MCDeepgramStream ----
(* Constants for the run of DeepgramStream.                                *)
EXTENDS DeepgramStream

CONSTANTS main, watcher
====
