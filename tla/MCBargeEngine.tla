---- MODULE MCBargeEngine ----
(* Constants for the runs of BargeEngine: 1 "there." is heard as 2 "there" *)
(* and 5 "you." as 4 "you"; 3 is a stop word, and shares its slot with 4.  *)
EXTENDS BargeEngine

MCWords     == 1..5
MCStopwords == {3}
MCSlot      == <<1, 2, 3, 3, 4>>
MCHeard     == <<2, 2, 3, 4, 4>>
MCChunks    == {<<1>>, <<3, 2>>, <<5, 1>>}
MCPartials  == {<<>>, <<2>>, <<4, 2>>, <<3, 4, 2>>}
====
