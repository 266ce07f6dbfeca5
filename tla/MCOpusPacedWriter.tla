---- MODULE MCOpusPacedWriter ----
(* Constants for the run of OpusPacedWriter: who calls the writer.         *)
EXTENDS OpusPacedWriter

CONSTANTS session, beep, teardown, control, nobody
MCWriters   == {session, beep}
MCFlushers  == {session}
MCResetters == {control}
MCClosers   == {teardown}
====
