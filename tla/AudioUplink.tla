---------------------------- MODULE AudioUplink ----------------------------
(***************************************************************************)
(* The caller's audio on its way to the transcription service.  The mic    *)
(* reader of internal/rtc decodes packets into a buffer, and for each full *)
(* chunk queues a slice of that buffer, feeds it to the barge engine and   *)
(* moves the rest of the buffer to its front; the engine keeps a ring of   *)
(* the last audio and queues a copy of it when it triggers.  The sender of *)
(* internal/transcript takes from the queue and writes to the service's    *)
(* socket, and Close takes the connection down.                            *)
(*                                                                         *)
(* Audio is counted in units of several 10 ms frames, numbered as they are *)
(* captured; 0 is the silence a ring starts with.  The slices in the queue *)
(* are references: what they hold is read when they are sent.              *)
(***************************************************************************)
EXTENDS Naturals, Sequences, SequencesExt

CONSTANTS Chunk,       \* units in a chunk (3200 bytes)
          Sizes,       \* units a packet may hold (the array has room for three chunks more)
          AudioCap,    \* capacity of audioData (1000)
          RingCap,     \* units the pre-roll ring holds (300 ms)
          PreRoll,     \* units of a pre-roll (220 ms)
          MaxUnits     \* bound: units that are captured

ASSUME UplinkAssumption ==
  /\ {Chunk, AudioCap, RingCap, PreRoll} \subseteq Nat \ {0} /\ PreRoll <= RingCap
  /\ Sizes \subseteq 1..3*Chunk /\ Sizes # {} /\ MaxUnits \in Nat

VARIABLES
  (* the mic reader *)
  mpc, captured, buf, fill,
  coming,              \* what the copy under way leaves in buf
  fed,                 \* units of this chunk the engine has seen
  (* the engine's ring *)
  ring, writePos,
  (* the queue, and the sender *)
  audioData, spc, item, out,
  (* the service: fields, the socket, the caller of Close *)
  connected, stopped, closed, socketOpen, cpc,
  crashed,
  (* history *)
  last                 \* what was sent last: as it was queued, and as it went out

micVars     == <<mpc, captured, buf, fill, coming, fed>>
ringVars    == <<ring, writePos>>
senderVars  == <<spc, item, out, last>>
serviceVars == <<connected, stopped, closed, socketOpen, cpc>>
vars == <<micVars, ringVars, audioData, senderVars, serviceVars, crashed>>

Largest == CHOOSE n \in Sizes : \A m \in Sizes : m <= n
Cells   == 1..(Chunk - 1 + Largest)
Silence == 0
NoItem  == [pre |-> FALSE, units |-> <<>>]
Nothing == [was |-> <<>>, is |-> <<>>]

\* Slips the code could have; each replaces a definition below in a mutant run.
MovedByOne     == [c \in Cells |-> IF c + 1 \in Cells THEN buf[c + 1] ELSE buf[c]]
OneTooFar(n)   == (writePos + RingCap + 1 - n) % RingCap
AcceptsAlways  == TRUE
KeepsSocket    == UNCHANGED socketOpen
NeverFull      == TRUE

Moved     == [c \in Cells |-> IF c <= fill - Chunk THEN buf[c + Chunk] ELSE buf[c]]
Start(n)  == (writePos + RingCap - n) % RingCap
Accepts   == connected
CloseConn == socketOpen' = FALSE
HasRoom   == Len(audioData) < AudioCap

\* circularPCM.ReadLastMs.
ReadLast(n) == [k \in 1..n |-> ring[(Start(n) + k - 1) % RingCap]]

Init ==
  /\ mpc = "read" /\ captured = 0 /\ fill = 0 /\ fed = 0
  /\ buf = [c \in Cells |-> Silence] /\ coming = buf
  /\ ring = [p \in 0..(RingCap - 1) |-> Silence] /\ writePos = 0
  /\ audioData = <<>> /\ spc = "select" /\ item = NoItem /\ out = <<>> /\ last = Nothing
  /\ connected = TRUE /\ stopped = FALSE /\ closed = FALSE /\ socketOpen = TRUE
  /\ cpc = "idle" /\ crashed = FALSE

\* s.mu: Close holds it all along, SendAudio and the sender take it for reading.
MuFree == cpc \in {"idle", "returned"}

----------------------------------------------------------------------------
(* The mic reader. *)
MicGoes(from, to) == mpc = from /\ mpc' = to
NotMic == UNCHANGED <<senderVars, serviceVars>>

\* A read error ends the reader; empty packets and decode errors change nothing.
ReadFails ==
  /\ MicGoes("read", "done")
  /\ UNCHANGED <<captured, buf, fill, coming, fed, ringVars, audioData, crashed>> /\ NotMic

ReadPacket ==
  /\ MicGoes("read", "store")
  /\ \E n \in Sizes :
       /\ captured + n <= MaxUnits /\ captured' = captured + n /\ fill' = fill + n
       /\ coming' = [c \in Cells |-> IF c \in fill+1..fill+n THEN captured + c - fill ELSE buf[c]]
  /\ UNCHANGED <<buf, fed, ringVars, audioData, crashed>> /\ NotMic

Full(n) == IF n >= Chunk THEN "send" ELSE "read"

\* The copy of a packet, or of the rest of the buffer to its front, is complete.
Stored ==
  /\ MicGoes("store", Full(fill))
  /\ buf' = coming
  /\ UNCHANGED <<captured, fill, coming, fed, ringVars, audioData, crashed>> /\ NotMic

\* SendAudio: refused when not connected, dropped when the queue is full.
SendAudio(units, pre) ==
  /\ MuFree
  /\ crashed' = (Accepts /\ closed)
  /\ audioData' = IF Accepts /\ ~closed /\ HasRoom
                  THEN Append(audioData, [pre |-> pre, units |-> units])
                  ELSE audioData

SendChunk ==
  /\ MicGoes("send", "feed")
  /\ SendAudio([k \in 1..Chunk |-> buf[k]], FALSE)
  /\ fed' = 0
  /\ UNCHANGED <<captured, buf, fill, coming, ringVars>> /\ NotMic

\* circularPCM.Write of the next unit; the vote on its frames may trigger.
FeedMic16k ==
  /\ fed < Chunk /\ fed' = fed + 1
  /\ \E to \in {"feed", "trigger"} : MicGoes("feed", to)
  /\ ring' = [ring EXCEPT ![writePos] = buf[fed + 1]]
  /\ writePos' = (writePos + 1) % RingCap
  /\ UNCHANGED <<captured, buf, fill, coming, audioData, crashed>> /\ NotMic

\* OnTrigger.
SendPreRoll ==
  /\ MicGoes("trigger", "feed")
  /\ SendAudio(ReadLast(PreRoll), TRUE)
  /\ UNCHANGED <<captured, buf, fill, coming, fed, ringVars>> /\ NotMic

Shift ==
  /\ fed = Chunk /\ MicGoes("feed", "store")
  /\ coming' = Moved /\ fill' = fill - Chunk /\ fed' = 0
  /\ UNCHANGED <<captured, buf, ringVars, audioData, crashed>> /\ NotMic

MicReader == \/ ReadFails \/ ReadPacket \/ Stored \/ SendChunk \/ FeedMic16k \/ SendPreRoll
             \/ Shift

----------------------------------------------------------------------------
(* sendAudioData *)
SenderGoes(from, to) == spc = from /\ spc' = to
NotSender == UNCHANGED <<micVars, ringVars, serviceVars, crashed>>

\* The select takes any case that is ready.
Select ==
  /\ \/ stopped /\ SenderGoes("select", "done") /\ UNCHANGED <<audioData, item>>
     \/ /\ audioData # <<>> /\ SenderGoes("select", "conn")
        /\ item' = Head(audioData) /\ audioData' = Tail(audioData)
     \/ closed /\ audioData = <<>> /\ SenderGoes("select", "done") /\ UNCHANGED <<audioData, item>>
  /\ UNCHANGED <<out, last>> /\ NotSender

ReadConn ==
  /\ MuFree /\ SenderGoes("conn", IF connected THEN "copy" ELSE "select")
  /\ UNCHANGED <<audioData, item, out, last>> /\ NotSender

\* WriteMessage copies the slice; a cell that the reader is writing may be old or new.
CopyUnit == LET k == Len(out) + 1 IN
  /\ SenderGoes("copy", IF k = Len(item.units) THEN "write" ELSE "copy")
  /\ \E u \in IF item.pre THEN {item.units[k]} ELSE {buf[k], coming[k]} : out' = Append(out, u)
  /\ last' = IF k = Len(item.units)
             THEN [was |-> item.units, is |-> out'] ELSE last
  /\ UNCHANGED <<audioData, item>> /\ NotSender

Written ==
  /\ socketOpen /\ SenderGoes("write", "select") /\ out' = <<>> /\ item' = NoItem
  /\ UNCHANGED <<audioData, last>> /\ NotSender

\* A write error, or a panic that is recovered.
WriteFails ==
  /\ SenderGoes("write", "done") /\ out' = <<>> /\ item' = NoItem
  /\ UNCHANGED <<audioData, last>> /\ NotSender

Sender == Select \/ ReadConn \/ CopyUnit

----------------------------------------------------------------------------
(* Close *)
CloserGoes(from, to) == cpc = from /\ cpc' = to
NotCloser == UNCHANGED <<micVars, ringVars, audioData, senderVars>>

CloseStopCh ==
  /\ CloserGoes("idle", "terminate") /\ connected /\ stopped' = TRUE
  /\ UNCHANGED <<connected, closed, socketOpen, crashed>> /\ NotCloser

\* WriteJSON; it and the sender's WriteMessage are one write too many.
Overlap == cpc = "terminate" /\ spc \in {"copy", "write"}

Terminate ==
  /\ \/ CloserGoes("terminate", "conn") /\ UNCHANGED crashed
     \/ Overlap /\ crashed' = TRUE /\ UNCHANGED cpc
  /\ UNCHANGED <<connected, stopped, closed, socketOpen>> /\ NotCloser

CloseConnection ==
  /\ CloserGoes("conn", "channels") /\ CloseConn /\ connected' = FALSE
  /\ UNCHANGED <<stopped, closed, crashed>> /\ NotCloser

CloseChannels ==
  /\ CloserGoes("channels", "returned") /\ closed' = TRUE
  /\ UNCHANGED <<connected, stopped, socketOpen, crashed>> /\ NotCloser

Closer == CloseStopCh \/ Terminate \/ CloseConnection \/ CloseChannels

----------------------------------------------------------------------------
Next == ~crashed /\ (MicReader \/ Sender \/ Written \/ WriteFails \/ Closer)

\* The sender runs, and a write on a closed socket fails; an open socket may stall for ever.
Fairness == WF_vars(~crashed /\ Sender) /\ WF_vars(~crashed /\ ~socketOpen /\ WriteFails)

Spec == Init /\ [][Next]_vars /\ Fairness

----------------------------------------------------------------------------
Units == 0..MaxUnits

(* Types; the buffer never outgrows the array it was made with, which      *)
(* would be replaced under the queued slices (handler.go:236-241).         *)
TypeOK ==
  /\ mpc \in {"read", "store", "send", "feed", "trigger", "done"} /\ captured \in Units
  /\ buf \in [Cells -> Units] /\ coming \in [Cells -> Units]
  /\ fill \in 0..(Chunk - 1 + Largest) /\ fed \in 0..Chunk
  /\ ring \in [0..(RingCap - 1) -> Units] /\ writePos \in 0..(RingCap - 1)
  /\ Len(audioData) <= AudioCap
  /\ \A n \in DOMAIN audioData : audioData[n].units \in Seq(Units)
  /\ spc \in {"select", "conn", "copy", "write", "done"}
  /\ item.units \in Seq(Units) /\ out \in Seq(Units) /\ Len(out) <= Len(item.units)
  /\ {connected, stopped, closed, socketOpen, crashed} \subseteq BOOLEAN
  /\ cpc \in {"idle", "terminate", "conn", "channels", "returned"}

(* Whatever the sizes of the packets, the chunks that are offered follow   *)
(* each other without a gap or a repeat: the buffer holds the newest units *)
(* in order (handler.go:234-256).                                          *)
ChunksInSequence ==
  mpc \in {"read", "send", "feed", "trigger"} => \A k \in 1..fill : buf[k] = captured - fill + k

(* types.go:29: the pre-roll is the last audio the engine was fed up to    *)
(* the frame that triggers, in order and after silence, across the end of  *)
(* the ring and the borders of the chunks (engine.go:104-126).             *)
Newest(k, n) == LET heard == captured - fill + fed IN
                IF heard + k > n THEN heard + k - n ELSE Silence
PreRollIsLatest ==
  mpc = "trigger" => \A k \in 1..PreRoll : ReadLast(PreRoll)[k] = Newest(k, PreRoll)

(* Close never lets audio be sent to a closed channel or through a nil     *)
(* connection; the one panic left is that of its Terminate meeting a       *)
(* message of the sender on the socket (assemblyai.go:202, 456).           *)
CrashOnlyByOverlap == crashed => Overlap

(* Once Close has returned the sender ends, also one that is in a write on *)
(* a connection that stalls (assemblyai.go:203, 446, 449).                 *)
CloseEndsSender == closed ~> spc = "done"

(* handler.go:249 "feed mic to ASR and barge engine": the service is sent  *)
(* the chunk that was fed, as it was captured.                             *)
SentAsCaptured == last.is = last.was
=============================================================================
