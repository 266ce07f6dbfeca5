------------------------- MODULE AudioUplinkProofs -------------------------
(***************************************************************************)
(* Proofs about AudioUplink, for any sizes of chunk, packets, queue and    *)
(* ring: the buffer never outgrows its array and its chunks follow each    *)
(* other, the ring holds the latest audio across its end, and Close meets  *)
(* the sender in one place only.                                           *)
(***************************************************************************)
EXTENDS AudioUplink, Integers, SequenceTheorems, WellFoundedInduction, TLAPS

(* A non-empty set of numbers with a bound has a greatest member.          *)
LEMMA Greatest ==
  ASSUME NEW S \in SUBSET Nat, S # {}, NEW b \in Nat, \A x \in S : x <= b
  PROVE  \E x \in S : \A y \in S : y <= x
  <1>. DEFINE T == {b - x : x \in S}
              R == OpToRel(<, Nat)
  <1>1. T \subseteq Nat /\ T # {}
    <2>1. \A x \in S : b - x \in Nat
      OBVIOUS
    <2>2. PICK x \in S : TRUE
      OBVIOUS
    <2>. QED
      BY <2>1, <2>2
  <1>2. PICK t \in T : \A u \in T : ~ (<<u, t>> \in R)
    <2>. HIDE DEF T, R
    <2>. QED
      BY <1>1, NatLessThanWellFounded, WFMin DEF R
  <1>3. \A u \in T : ~ (u < t)
    BY <1>1, <1>2 DEF OpToRel
  <1>4. PICK x \in S : t = b - x
    OBVIOUS
  <1>5. \A y \in S : ~ (b - y < b - x)
    BY <1>3, <1>4
  <1>. QED
    BY <1>5

\* The sizes: the largest packet fits the array behind what is left of a chunk.
LEMMA SizesType ==
  /\ Chunk \in Nat /\ Chunk > 0 /\ AudioCap \in Nat /\ AudioCap > 0
  /\ RingCap \in Nat /\ RingCap > 0 /\ PreRoll \in Nat /\ PreRoll > 0 /\ PreRoll <= RingCap
  /\ MaxUnits \in Nat /\ Largest \in Nat /\ Largest > 0
  /\ \A n \in Sizes : n \in Nat /\ n > 0 /\ n <= Largest
  <1>1. /\ Chunk \in Nat /\ Chunk > 0 /\ AudioCap \in Nat /\ AudioCap > 0
        /\ RingCap \in Nat /\ RingCap > 0 /\ PreRoll \in Nat /\ PreRoll > 0 /\ PreRoll <= RingCap
        /\ MaxUnits \in Nat
    BY UplinkAssumption
  <1>2. 3*Chunk \in Nat /\ Sizes \subseteq Nat /\ Sizes # {} /\ \A n \in Sizes : n <= 3*Chunk /\ n > 0
    BY <1>1, UplinkAssumption
  <1>3. \E x \in Sizes : \A y \in Sizes : y <= x
    BY <1>2, Greatest
  <1>4. Largest \in Sizes /\ \A m \in Sizes : m <= Largest
    BY <1>3 DEF Largest
  <1>. QED
    BY <1>1, <1>2, <1>4

\* A chunk always fits in the buffer.
LEMMA CellsType == Cells = 1..(Chunk - 1 + Largest) /\ \A k \in 1..Chunk : k \in Cells
  BY SizesType DEF Cells

\* The remainder of a sum that goes around the ring at most once.
LEMMA Around ==
  ASSUME NEW r \in Nat, r > 0, NEW x \in Nat, x < r + r
  PROVE  x % r = IF x < r THEN x ELSE x - r
  OBVIOUS
----------------------------------------------------------------------------
(***************************************************************************)
(* Types.  The strengthening: how full the buffer is where the reader is,  *)
(* what the slices of the queue look like, and where the sender's copy is. *)
(***************************************************************************)
Items == {r \in [pre : BOOLEAN, units : Seq(Units)] :
            Len(r.units) = IF r.pre THEN PreRoll ELSE Chunk}

MicFits ==
  /\ mpc = "read" => fill < Chunk
  /\ mpc \in {"send", "feed", "trigger"} => fill >= Chunk
  /\ mpc \in {"read", "store", "send"} => fed = 0
QueueFits ==
  /\ audioData \in Seq(Items) /\ item \in Items \cup {NoItem}
  /\ spc \in {"conn", "copy", "write"} => item \in Items
  /\ spc \in {"select", "conn"} => out = <<>>
  /\ spc = "copy" => Len(out) < Len(item.units)
\* Close clears connected before it closes the channels.
ClosesInOrder == /\ connected <=> cpc \in {"idle", "terminate", "conn"}
                 /\ closed <=> cpc = "returned"
MicType ==
  /\ mpc \in {"read", "store", "send", "feed", "trigger", "done"} /\ captured \in Units
  /\ buf \in [Cells -> Units] /\ coming \in [Cells -> Units]
  /\ fill \in 0..(Chunk - 1 + Largest) /\ fed \in 0..Chunk
  /\ ring \in [0..(RingCap - 1) -> Units] /\ writePos \in 0..(RingCap - 1)
SenderType ==
  /\ Len(audioData) <= AudioCap /\ spc \in {"select", "conn", "copy", "write", "done"}
  /\ out \in Seq(Units) /\ Len(out) <= Len(item.units)
ServiceType ==
  /\ {connected, stopped, closed, socketOpen, crashed} \subseteq BOOLEAN
  /\ cpc \in {"idle", "terminate", "conn", "channels", "returned"}

\* The three groups are the type invariant.
LEMMA TypeParts ==
  ASSUME MicType, SenderType, ServiceType, QueueFits
  PROVE  TypeOK
  <1>1. \A n \in DOMAIN audioData : audioData[n].units \in Seq(Units)
    BY ElementOfSeq, LenProperties DEF QueueFits, Items
  <1>2. item.units \in Seq(Units)
    <2>1. CASE item \in Items
      BY <2>1 DEF Items
    <2>2. CASE item = NoItem
      BY <2>2, EmptySeq DEF NoItem
    <2>. QED
      BY <2>1, <2>2 DEF QueueFits
  <1>. QED
    BY <1>1, <1>2 DEF MicType, SenderType, ServiceType, TypeOK

\* What is sent is an item, of the buffer's front or of the ring.
LEMMA ChunkIsItem ==
  ASSUME MicType
  PROVE  [pre |-> FALSE, units |-> [k \in 1..Chunk |-> buf[k]]] \in Items
  <1>. DEFINE u == [k \in 1..Chunk |-> buf[k]]
  <1>1. \A k \in 1..Chunk : buf[k] \in Units
    BY CellsType DEF MicType
  <1>2. u \in Seq(Units) /\ Len(u) = Chunk
    BY <1>1, SizesType
  <1>. HIDE DEF u
  <1>3. [pre |-> FALSE, units |-> u] \in Items
    BY <1>2 DEF Items
  <1>. QED
    BY <1>3 DEF u

\* A remainder is a position of the ring.
LEMMA RingPositions ==
  ASSUME NEW x \in Nat
  PROVE  x % RingCap \in 0..(RingCap - 1)
  BY SizesType

\* The pre-roll is something the queue carries.
LEMMA PreRollIsItem ==
  ASSUME MicType
  PROVE  [pre |-> TRUE, units |-> ReadLast(PreRoll)] \in Items
  <1>. DEFINE u == [k \in 1..PreRoll |-> ring[(Start(PreRoll) + k - 1) % RingCap]]
  <1>1. \A k \in 1..PreRoll : ring[(Start(PreRoll) + k - 1) % RingCap] \in Units
    <2>. TAKE k \in 1..PreRoll
    <2>1. writePos \in Nat /\ writePos + RingCap - PreRoll \in Nat
      BY SizesType DEF MicType
    <2>2. Start(PreRoll) \in Nat
      BY <2>1, RingPositions DEF Start
    <2>3. Start(PreRoll) + k - 1 \in Nat
      BY <2>2
    <2>. QED
      BY <2>3, RingPositions DEF MicType
  <1>2. u \in Seq(Units) /\ Len(u) = PreRoll
    BY <1>1, SizesType
  <1>. HIDE DEF u
  <1>3. [pre |-> TRUE, units |-> u] \in Items
    BY <1>2 DEF Items
  <1>. QED
    BY <1>3 DEF ReadLast, u

\* SendAudio queues an item, and panics only when the service is closed and connected.
LEMMA SendTypes ==
  ASSUME QueueFits, SenderType, ClosesInOrder, NEW u, NEW b, SendAudio(u, b),
         [pre |-> b, units |-> u] \in Items
  PROVE  audioData' \in Seq(Items) /\ Len(audioData') <= AudioCap /\ crashed' = FALSE
  <1>1. crashed' = FALSE
    BY DEF SendAudio, Accepts, ClosesInOrder
  <1>2. CASE Accepts /\ ~closed /\ HasRoom
    <2>1. audioData' = Append(audioData, [pre |-> b, units |-> u])
      BY <1>2 DEF SendAudio
    <2>2. audioData' \in Seq(Items) /\ Len(audioData') = Len(audioData) + 1
      BY <2>1, AppendProperties DEF QueueFits
    <2>3. Len(audioData) \in Nat
      BY LenProperties DEF QueueFits
    <2>. QED
      BY <1>1, <1>2, <2>2, <2>3, SizesType DEF HasRoom
  <1>3. CASE ~(Accepts /\ ~closed /\ HasRoom)
    BY <1>1, <1>3 DEF SendAudio, QueueFits, SenderType
  <1>. QED
    BY <1>2, <1>3

\* The mic reader.
LEMMA StepMic ==
  ASSUME MicType, MicFits, [Next]_vars
  PROVE  MicType' /\ MicFits'
  <1>. USE SizesType, CellsType DEF MicType, MicFits, MicGoes
  <1>1. CASE UNCHANGED <<micVars, ringVars>>
    BY <1>1 DEF micVars, ringVars
  <1>2. CASE ReadFails
    BY <1>2 DEF ReadFails, ringVars
  <1>3. CASE ReadPacket
    <2>1. PICK n \in Sizes :
            /\ captured + n <= MaxUnits /\ captured' = captured + n /\ fill' = fill + n
            /\ coming' = [c \in Cells |-> IF c \in fill+1..fill+n THEN captured + c - fill ELSE buf[c]]
      BY <1>3 DEF ReadPacket
    <2>2. n \in Nat /\ n <= Largest /\ captured \in Nat /\ fill \in Nat /\ fill < Chunk
      BY <1>3 DEF ReadPacket, Units
    <2>3. captured' \in Units /\ fill' \in 0..(Chunk - 1 + Largest)
      BY <2>1, <2>2 DEF Units
    <2>4. \A c \in Cells : (IF c \in fill+1..fill+n THEN captured + c - fill ELSE buf[c]) \in Units
      BY <2>1, <2>2 DEF Units
    <2>5. coming' \in [Cells -> Units]
      BY <2>1, <2>4
    <2>. QED
      BY <1>3, <2>3, <2>5 DEF ReadPacket, ringVars
  <1>4. CASE Stored
    BY <1>4 DEF Stored, Full, ringVars
  <1>5. CASE SendChunk
    BY <1>5 DEF SendChunk, ringVars
  <1>6. CASE FeedMic16k
    <2>1. buf[fed + 1] \in Units /\ fed' \in 0..Chunk /\ mpc' \in {"feed", "trigger"} /\ mpc = "feed"
      BY <1>6 DEF FeedMic16k
    <2>2. writePos' \in 0..(RingCap - 1)
      BY <1>6, RingPositions DEF FeedMic16k
    <2>3. ring' \in [0..(RingCap - 1) -> Units]
      BY <1>6, <2>1 DEF FeedMic16k
    <2>. QED
      BY <1>6, <2>1, <2>2, <2>3 DEF FeedMic16k
  <1>7. CASE SendPreRoll
    BY <1>7 DEF SendPreRoll, ringVars
  <1>8. CASE Shift
    <2>1. mpc = "feed" /\ fill >= Chunk /\ fill' = fill - Chunk /\ mpc' = "store" /\ fed' = 0
      BY <1>8 DEF Shift
    <2>2. fill' \in 0..(Chunk - 1 + Largest)
      BY <2>1
    <2>3. coming' \in [Cells -> Units]
      <3>1. \A c \in Cells : c <= fill - Chunk => c + Chunk \in Cells
        OBVIOUS
      <3>2. \A c \in Cells : (IF c <= fill - Chunk THEN buf[c + Chunk] ELSE buf[c]) \in Units
        BY <3>1
      <3>. QED
        BY <1>8, <3>2 DEF Shift, Moved
    <2>. QED
      BY <1>8, <2>1, <2>2, <2>3 DEF Shift, ringVars
  <1>9. CASE Sender \/ Written \/ WriteFails
    BY <1>1, <1>9 DEF Sender, Select, ReadConn, CopyUnit, Written, WriteFails, NotSender
  <1>10. CASE Closer
    BY <1>1, <1>10 DEF Closer, CloseStopCh, Terminate, CloseConnection, CloseChannels, NotCloser
  <1>11. CASE UNCHANGED vars
    BY <1>1, <1>11 DEF vars
  <1>. QED
    BY <1>2, <1>3, <1>4, <1>5, <1>6, <1>7, <1>8, <1>9, <1>10, <1>11 DEF Next, MicReader

\* Close, and what a send may find of it: nothing panics but an overlap.
LEMMA StepService ==
  ASSUME ServiceType, ClosesInOrder, CrashOnlyByOverlap, [Next]_vars
  PROVE  ServiceType' /\ ClosesInOrder' /\ CrashOnlyByOverlap'
  <1>. USE DEF ServiceType, ClosesInOrder, CrashOnlyByOverlap
  <1>1. CASE UNCHANGED vars
    BY <1>1 DEF vars, senderVars, serviceVars, Overlap
  <1>2. CASE SendChunk \/ SendPreRoll
    <2>1. UNCHANGED serviceVars /\ crashed' = (Accepts /\ closed)
      BY <1>2 DEF SendChunk, SendPreRoll, SendAudio, NotMic
    <2>2. crashed' = FALSE
      BY <2>1 DEF Accepts
    <2>. QED
      BY <2>1, <2>2 DEF serviceVars
  <1>3. CASE UNCHANGED <<serviceVars, crashed>> /\ ~crashed
    BY <1>3 DEF serviceVars
  <1>4. CASE Closer /\ ~crashed
    <2>1. CASE CloseStopCh
      BY <1>4, <2>1 DEF CloseStopCh, CloserGoes
    <2>2. CASE Terminate
      <3>1. cpc = "terminate" /\ UNCHANGED <<connected, stopped, closed, socketOpen, spc>>
        BY <2>2 DEF Terminate, CloserGoes, NotCloser, senderVars, Overlap
      <3>2. CASE cpc' = "conn" /\ UNCHANGED crashed
        BY <1>4, <3>1, <3>2
      <3>3. CASE Overlap /\ crashed' = TRUE /\ UNCHANGED cpc
        <4>1. Overlap'
          BY <3>1, <3>3 DEF Overlap
        <4>. QED
          BY <3>1, <3>3, <4>1
      <3>. QED
        BY <2>2, <3>2, <3>3 DEF Terminate, CloserGoes
    <2>3. CASE CloseConnection
      BY <1>4, <2>3 DEF CloseConnection, CloseConn, CloserGoes
    <2>4. CASE CloseChannels
      BY <1>4, <2>4 DEF CloseChannels, CloserGoes
    <2>. QED
      BY <1>4, <2>1, <2>2, <2>3, <2>4 DEF Closer
  <1>. QED
    BY <1>1, <1>2, <1>3, <1>4 DEF Next, MicReader, ReadFails, ReadPacket, Stored, FeedMic16k, Shift,
           NotMic, Sender, Select, ReadConn, CopyUnit, Written, WriteFails, NotSender

\* The queue and the sender's copy.
LEMMA StepQueue ==
  ASSUME MicType, SenderType, QueueFits, ClosesInOrder, [Next]_vars
  PROVE  SenderType' /\ QueueFits'
  <1>. DEFINE Goal == SenderType' /\ QueueFits'
  <1>. SUFFICES Goal
    OBVIOUS
  <1>0. audioData \in Seq(Items) /\ Len(audioData) \in Nat
    BY LenProperties DEF QueueFits
  <1>1. ASSUME UNCHANGED senderVars, audioData' \in Seq(Items), Len(audioData') <= AudioCap PROVE Goal
    BY <1>1 DEF senderVars, SenderType, QueueFits
  <1>2. CASE UNCHANGED <<senderVars, audioData>>
    BY <1>2 DEF senderVars, SenderType, QueueFits
  <1>. HIDE DEF Goal
  <1>3. CASE SendChunk
    <2>1. SendAudio([k \in 1..Chunk |-> buf[k]], FALSE) /\ UNCHANGED senderVars
      BY <1>3 DEF SendChunk, NotMic
    <2>. QED
      BY <1>1, <2>1, ChunkIsItem, SendTypes
  <1>4. CASE SendPreRoll
    <2>1. SendAudio(ReadLast(PreRoll), TRUE) /\ UNCHANGED senderVars
      BY <1>4 DEF SendPreRoll, NotMic
    <2>. QED
      BY <1>1, <2>1, PreRollIsItem, SendTypes
  <1>5. CASE Select
    <2>1. out' = out /\ spc = "select" /\ out = <<>>
      BY <1>5 DEF Select, SenderGoes, QueueFits
    <2>2. CASE spc' = "done" /\ UNCHANGED <<audioData, item>>
      BY <2>1, <2>2 DEF Goal, SenderType, QueueFits
    <2>3. CASE audioData # <<>> /\ spc' = "conn" /\ item' = Head(audioData) /\ audioData' = Tail(audioData)
      <3>1. item' \in Items /\ audioData' \in Seq(Items) /\ Len(audioData') = Len(audioData) - 1
        BY <1>0, <2>3, HeadTailProperties
      <3>2. Len(audioData') <= AudioCap
        BY <1>0, <3>1, SizesType DEF SenderType
      <3>3. Len(item'.units) \in Nat /\ Len(out') = 0 /\ out' \in Seq(Units)
        BY <2>1, <3>1, EmptySeq, LenProperties DEF Items
      <3>4. SenderType'
        BY <2>3, <3>2, <3>3 DEF SenderType
      <3>. QED
        BY <2>1, <2>3, <3>1, <3>4 DEF Goal, QueueFits
    <2>. QED
      BY <1>5, <2>2, <2>3 DEF Select, SenderGoes
  <1>6. CASE ReadConn
    <2>1. spc = "conn" /\ out = <<>> /\ item \in Items /\ spc' \in {"copy", "select"} /\ UNCHANGED <<audioData, item, out>>
      BY <1>6 DEF ReadConn, SenderGoes, QueueFits
    <2>2. Len(out) = 0 /\ Len(item.units) \in Nat /\ Len(item.units) > 0
      BY <2>1, EmptySeq, SizesType DEF Items
    <2>. QED
      BY <2>1, <2>2 DEF Goal, SenderType, QueueFits
  <1>7. CASE CopyUnit
    <2>. DEFINE k == Len(out) + 1
    <2>1. /\ spc = "copy" /\ item \in Items /\ item.units \in Seq(Units) /\ Len(out) < Len(item.units)
          /\ Len(item.units) = IF item.pre THEN PreRoll ELSE Chunk
          /\ UNCHANGED <<audioData, item>>
      BY <1>7 DEF CopyUnit, SenderGoes, QueueFits, Items
    <2>2. PICK u \in (IF item.pre THEN {item.units[k]} ELSE {buf[k], coming[k]}) : out' = Append(out, u)
      BY <1>7 DEF CopyUnit
    <2>3. Len(out) \in Nat /\ Len(item.units) \in Nat /\ k \in 1..Len(item.units)
      BY <2>1, LenProperties DEF SenderType
    <2>4. u \in Units
      <3>1. CASE item.pre
        BY <2>1, <2>2, <2>3, <3>1, ElementOfSeq
      <3>2. CASE ~item.pre
        <4>1. k \in Cells
          BY <2>1, <2>3, <3>2, CellsType
        <4>. QED
          BY <2>2, <3>2, <4>1 DEF MicType
      <3>. QED
        BY <3>1, <3>2
    <2>5. out' \in Seq(Units) /\ Len(out') = Len(out) + 1
      BY <2>2, <2>4, AppendProperties DEF SenderType
    <2>6. spc' = IF k = Len(item.units) THEN "write" ELSE "copy"
      BY <1>7 DEF CopyUnit, SenderGoes
    <2>7. Len(out') <= Len(item.units) /\ (spc' = "copy" => Len(out') < Len(item.units))
      BY <2>3, <2>5, <2>6
    <2>. QED
      BY <2>1, <2>5, <2>6, <2>7 DEF Goal, SenderType, QueueFits
  <1>8. CASE Written \/ WriteFails
    <2>1. out' = <<>> /\ item' = NoItem /\ audioData' = audioData /\ spc' \in {"select", "done"}
      BY <1>8 DEF Written, WriteFails, SenderGoes
    <2>2. Len(out') = 0 /\ out' \in Seq(Units) /\ Len(item'.units) = 0
      BY <2>1, EmptySeq DEF NoItem
    <2>. QED
      BY <2>1, <2>2 DEF Goal, SenderType, QueueFits
  <1>9. CASE ReadFails \/ ReadPacket \/ Stored \/ FeedMic16k \/ Shift
    BY <1>2, <1>9 DEF ReadFails, ReadPacket, Stored, FeedMic16k, Shift, NotMic
  <1>10. CASE Closer \/ UNCHANGED vars
    BY <1>2, <1>10 DEF Closer, CloseStopCh, Terminate, CloseConnection, CloseChannels, NotCloser, vars
  <1>. QED
    BY <1>3, <1>4, <1>5, <1>6, <1>7, <1>8, <1>9, <1>10 DEF Next, MicReader, Sender

\* Every reachable state is well typed, and Close goes through its steps in order.
LEMMA UplinkInvariant ==
  Spec => [](MicType /\ MicFits /\ SenderType /\ QueueFits
             /\ ServiceType /\ ClosesInOrder /\ CrashOnlyByOverlap)
  <1>1. Init => MicType /\ MicFits
    <2>. SUFFICES ASSUME Init PROVE MicType /\ MicFits
      OBVIOUS
    <2>1. Silence \in Units /\ captured \in Units
      BY SizesType DEF Init, Silence, Units
    <2>2. buf \in [Cells -> Units] /\ coming \in [Cells -> Units] /\ ring \in [0..(RingCap - 1) -> Units]
      BY <2>1 DEF Init
    <2>3. writePos \in 0..(RingCap - 1) /\ fill \in 0..(Chunk - 1 + Largest) /\ fed \in 0..Chunk /\ fill < Chunk
      BY SizesType DEF Init
    <2>. QED
      BY <2>1, <2>2, <2>3 DEF Init, MicType, MicFits
  <1>2. Init => SenderType /\ QueueFits
    BY EmptySeq, SizesType DEF Init, SenderType, QueueFits, NoItem
  <1>3. Init => ServiceType /\ ClosesInOrder /\ CrashOnlyByOverlap
    BY DEF Init, ServiceType, ClosesInOrder, CrashOnlyByOverlap
  <1>. QED
    BY <1>1, <1>2, <1>3, StepMic, StepService, StepQueue, PTL DEF Spec

(* The types: the buffer never outgrows the array it was made with         *)
(* (handler.go:219-256), the queue its capacity.                           *)
THEOREM TypeCorrect == Spec => []TypeOK
  BY UplinkInvariant, TypeParts, PTL

(* However the sender, the mic reader and Close interleave, no audio is    *)
(* sent to a closed channel (assemblyai.go:133-140, 190-208): a panic is   *)
(* that of the Terminate meeting a message of the sender (202, 456).       *)
THEOREM NoSendAfterClose == Spec => []CrashOnlyByOverlap
  BY UplinkInvariant, PTL
----------------------------------------------------------------------------
(***************************************************************************)
(* The audio in order: the buffer holds the newest units, the copy under   *)
(* way will, and the ring holds the last of the units the engine was fed,  *)
(* counted backwards from where it writes next.                            *)
(***************************************************************************)
Heard     == captured - fill + fed
Held      == IF mpc = "store" THEN coming ELSE buf
InOrder   == fill <= captured /\ (mpc # "done" => \A k \in 1..fill : Held[k] = captured - fill + k)
Back(k)   == (writePos + RingCap - k) % RingCap
RingHolds == mpc # "done" =>
               \A k \in 1..RingCap : ring[Back(k)] = IF Heard >= k THEN Heard - k + 1 ELSE Silence

\* The counts of the mic reader are numbers, for arithmetic.
LEMMA MicNumbers ==
  ASSUME MicType, MicFits, InOrder
  PROVE  /\ captured \in Nat /\ fill \in Nat /\ fed \in Nat /\ captured - fill \in Nat /\ Heard \in Nat
         /\ writePos \in Nat /\ writePos < RingCap
  BY SizesType DEF MicType, InOrder, Heard, Units

\* A step of the mic reader, or one that leaves its audio alone.
LEMMA MicSteps ==
  ASSUME [Next]_vars
  PROVE  \/ UNCHANGED <<micVars, ringVars>> \/ ReadFails \/ ReadPacket \/ Stored \/ SendChunk
         \/ FeedMic16k \/ SendPreRoll \/ Shift
  <1>1. CASE Sender \/ Written \/ WriteFails
    BY <1>1 DEF Sender, Select, ReadConn, CopyUnit, Written, WriteFails, NotSender
  <1>2. CASE Closer
    BY <1>2 DEF Closer, CloseStopCh, Terminate, CloseConnection, CloseChannels, NotCloser
  <1>. QED
    BY <1>1, <1>2 DEF Next, MicReader, vars

\* The buffer holds the last samples that were captured, in order.
LEMMA StepInOrder == MicType /\ MicFits /\ InOrder /\ [Next]_vars => InOrder'
  <1>. SUFFICES ASSUME MicType, MicFits, InOrder, [Next]_vars PROVE InOrder'
    OBVIOUS
  <1>0. captured \in Nat /\ fill \in Nat /\ Chunk \in Nat /\ Chunk > 0 /\ fill <= captured
    BY MicNumbers, SizesType DEF InOrder
  <1>1. CASE UNCHANGED <<micVars, ringVars>>
    BY <1>1 DEF micVars, InOrder, Held
  <1>2. CASE ReadFails
    BY <1>2 DEF ReadFails, MicGoes, InOrder
  <1>3. CASE SendChunk \/ FeedMic16k \/ SendPreRoll
    <2>1. UNCHANGED <<captured, fill, buf>> /\ mpc \notin {"store", "done"} /\ mpc' \notin {"store", "done"}
      BY <1>3 DEF SendChunk, FeedMic16k, SendPreRoll, MicGoes
    <2>. QED
      BY <2>1 DEF InOrder, Held
  <1>4. CASE ReadPacket
    <2>1. PICK n \in Sizes :
            /\ captured + n <= MaxUnits /\ captured' = captured + n /\ fill' = fill + n
            /\ coming' = [c \in Cells |-> IF c \in fill+1..fill+n THEN captured + c - fill ELSE buf[c]]
      BY <1>4 DEF ReadPacket
    <2>2. n \in Nat /\ n <= Largest /\ fill < Chunk /\ mpc = "read" /\ mpc' = "store"
      BY <1>4, SizesType DEF ReadPacket, MicGoes, MicFits
    <2>3. \A k \in 1..(fill + n) : k \in Cells
      BY <1>0, <2>2, SizesType DEF Cells
    <2>4. ASSUME NEW k \in 1..(fill + n) PROVE coming'[k] = (captured + n) - (fill + n) + k
      <3>1. CASE k \in fill+1..fill+n
        BY <1>0, <2>1, <2>2, <2>3, <3>1
      <3>2. CASE k \notin fill+1..fill+n
        <4>1. k \in 1..fill
          BY <1>0, <2>2, <3>2
        <4>2. buf[k] = captured - fill + k
          BY <2>2, <4>1 DEF InOrder, Held
        <4>3. coming'[k] = buf[k]
          BY <2>1, <2>3, <3>2
        <4>. QED
          BY <1>0, <2>2, <4>2, <4>3
      <3>. QED
        BY <3>1, <3>2
    <2>5. fill' <= captured'
      BY <1>0, <2>1, <2>2
    <2>. QED
      BY <2>1, <2>2, <2>4, <2>5 DEF InOrder, Held
  <1>5. CASE Stored
    BY <1>5 DEF Stored, MicGoes, Full, InOrder, Held
  <1>6. CASE Shift
    <2>1. mpc = "feed" /\ mpc' = "store" /\ coming' = Moved /\ fill' = fill - Chunk /\ captured' = captured
      BY <1>6 DEF Shift, MicGoes
    <2>2. fill >= Chunk /\ fill <= Chunk - 1 + Largest
      BY <2>1 DEF MicFits, MicType
    <2>3. ASSUME NEW k \in 1..(fill - Chunk) PROVE coming'[k] = captured - (fill - Chunk) + k
      <3>1. k \in Cells /\ k <= fill - Chunk /\ k + Chunk \in 1..fill
        BY <1>0, <2>2, SizesType DEF Cells
      <3>2. coming'[k] = buf[k + Chunk]
        BY <2>1, <3>1 DEF Moved
      <3>3. buf[k + Chunk] = captured - fill + (k + Chunk)
        BY <2>1, <3>1 DEF InOrder, Held
      <3>. QED
        BY <1>0, <3>2, <3>3
    <2>4. fill' <= captured'
      BY <1>0, <2>1
    <2>. QED
      BY <2>1, <2>3, <2>4 DEF InOrder, Held
  <1>. QED
    BY <1>1, <1>2, <1>3, <1>4, <1>5, <1>6, MicSteps

\* A write at writePos leaves what was written before one further back.
LEMMA BackShifts ==
  ASSUME NEW w \in 0..(RingCap - 1), NEW k \in 1..RingCap
  PROVE  LET v == (w + 1) % RingCap
         IN  (v + RingCap - k) % RingCap
               = IF k = 1 THEN w ELSE (w + RingCap - (k - 1)) % RingCap
  <1>. DEFINE r == RingCap
              v == (w + 1) % r
  <1>1. r \in Nat /\ r > 0 /\ w \in Nat /\ w < r /\ k \in Nat /\ k >= 1 /\ k <= r
    BY SizesType
  <1>. HIDE DEF r
  <1>2. v = IF w + 1 < r THEN w + 1 ELSE 0
    <2>1. (w + 1) % r = IF w + 1 < r THEN w + 1 ELSE w + 1 - r
      BY <1>1, Around
    <2>. QED
      BY <1>1, <2>1
  <1>. HIDE DEF v
  <1>3. v \in Nat /\ v + r - k \in Nat /\ v + r - k < r + r
    BY <1>1, <1>2
  <1>4. (v + r - k) % r = IF v + r - k < r THEN v + r - k ELSE v + r - k - r
    BY <1>1, <1>3, Around
  <1>5. w + r - (k - 1) \in Nat
    BY <1>1
  <1>6. CASE k = 1
    BY <1>1, <1>2, <1>4, <1>6 DEF r, v
  <1>7. CASE k # 1
    <2>1. w + r - (k - 1) < r + r
      BY <1>1, <1>7
    <2>2. (w + r - (k - 1)) % r = IF w + r - (k - 1) < r THEN w + r - (k - 1) ELSE w + r - (k - 1) - r
      BY <1>1, <1>5, <2>1, Around
    <2>3. (v + r - k) % r = (w + r - (k - 1)) % r
      BY <1>1, <1>2, <1>4, <1>7, <2>2
    <2>. QED
      BY <1>7, <2>3 DEF r, v
  <1>. QED
    BY <1>6, <1>7

\* What is further back is not where the ring writes.
LEMMA BackIsNotHere ==
  ASSUME NEW w \in 0..(RingCap - 1), NEW j \in 1..(RingCap - 1)
  PROVE  (w + RingCap - j) % RingCap # w /\ (w + RingCap - j) % RingCap \in 0..(RingCap - 1)
  <1>. DEFINE r == RingCap
  <1>1. r \in Nat /\ r > 0 /\ w \in Nat /\ w < r /\ j \in Nat /\ j >= 1 /\ j <= r - 1
    BY SizesType
  <1>. HIDE DEF r
  <1>2. w + r - j \in Nat /\ w + r - j < r + r
    BY <1>1
  <1>3. (w + r - j) % r = IF w + r - j < r THEN w + r - j ELSE w + r - j - r
    BY <1>1, <1>2, Around
  <1>4. (w + r - j) % r # w /\ (w + r - j) % r \in 0..(r - 1)
    BY <1>1, <1>3
  <1>. QED
    BY <1>4 DEF r

\* The ring holds the samples the engine has heard, the latest where it writes next.
LEMMA StepRingHolds == MicType /\ MicFits /\ InOrder /\ RingHolds /\ [Next]_vars => RingHolds'
  <1>. SUFFICES ASSUME MicType, MicFits, InOrder, RingHolds, [Next]_vars PROVE RingHolds'
    OBVIOUS
  <1>0. captured \in Nat /\ fill \in Nat /\ fed \in Nat /\ Chunk \in Nat /\ Heard \in Nat
    BY MicNumbers, SizesType
  <1>1. CASE UNCHANGED <<ring, writePos>> /\ mpc # "done" /\ Heard' = Heard
    BY <1>1 DEF RingHolds, Back
  <1>2. CASE UNCHANGED <<micVars, ringVars>> \/ ReadFails
    BY <1>2 DEF micVars, ringVars, ReadFails, MicGoes, RingHolds, Back, Heard
  <1>3. CASE ReadPacket
    <2>1. PICK n \in Sizes : captured' = captured + n /\ fill' = fill + n
      BY <1>3 DEF ReadPacket
    <2>2. n \in Nat
      BY SizesType
    <2>3. Heard' = Heard
      BY <1>0, <1>3, <2>1, <2>2 DEF ReadPacket, Heard
    <2>. QED
      BY <1>1, <1>3, <2>3 DEF ReadPacket, ringVars, MicGoes
  <1>4. CASE Stored \/ SendChunk \/ SendPreRoll
    <2>1. UNCHANGED <<captured, fill, ring, writePos>> /\ mpc # "done" /\ fed' = fed
      BY <1>4 DEF Stored, SendChunk, SendPreRoll, ringVars, MicGoes, MicFits
    <2>. QED
      BY <1>1, <2>1 DEF Heard
  <1>5. CASE Shift
    <2>1. UNCHANGED <<captured, ring, writePos>> /\ mpc # "done" /\ fed = Chunk /\ fed' = 0 /\ fill' = fill - Chunk
      BY <1>5 DEF Shift, ringVars, MicGoes
    <2>2. Heard' = Heard
      BY <1>0, <2>1 DEF Heard
    <2>. QED
      BY <1>1, <2>1, <2>2
  <1>6. CASE FeedMic16k
    <2>1. /\ mpc = "feed" /\ fed < Chunk /\ fed' = fed + 1 /\ UNCHANGED <<captured, fill, buf>>
          /\ ring' = [ring EXCEPT ![writePos] = buf[fed + 1]] /\ writePos' = (writePos + 1) % RingCap
      BY <1>6 DEF FeedMic16k, MicGoes
    <2>2. Heard' = Heard + 1
      BY <1>0, <2>1 DEF Heard
    <2>. DEFINE h == Heard + 1
    <2>8. h \in Nat /\ h >= 1 /\ h = Heard + 1
      BY <1>0
    <2>9. Heard' = h
      BY <2>2
    <2>. HIDE DEF h
    <2>3. buf[fed + 1] = h
      <3>1. fed + 1 \in 1..fill
        BY <1>0, <2>1 DEF MicFits
      <3>2. buf[fed + 1] = captured - fill + (fed + 1)
        BY <2>1, <3>1 DEF InOrder, Held
      <3>. QED
        BY <1>0, <2>8, <3>2 DEF Heard
    <2>4. writePos \in 0..(RingCap - 1) /\ RingCap \in Nat /\ RingCap > 0 /\ DOMAIN ring = 0..(RingCap - 1)
      BY SizesType DEF MicType
    <2>5. ASSUME NEW k \in 1..RingCap
          PROVE  ring'[(writePos' + RingCap - k) % RingCap] = IF h >= k THEN h - k + 1 ELSE Silence
      <3>. DEFINE b == (writePos' + RingCap - k) % RingCap
                  a == (writePos + RingCap - (k - 1)) % RingCap
      <3>1. b = IF k = 1 THEN writePos ELSE a
        BY <2>1, <2>4, BackShifts
      <3>. HIDE DEF b
      <3>2. CASE k = 1
        <4>1. ring'[b] = h
          BY <2>1, <2>3, <2>4, <3>1, <3>2
        <4>2. h >= k /\ h - k + 1 = h
          BY <2>8, <3>2
        <4>. QED
          BY <4>1, <4>2 DEF b
      <3>3. CASE k # 1
        <4>1. k - 1 \in 1..(RingCap - 1) /\ k - 1 \in 1..RingCap
          BY <2>4, <3>3
        <4>2. a # writePos /\ a \in 0..(RingCap - 1)
          BY <2>4, <4>1, BackIsNotHere
        <4>3. ring[a] = IF Heard >= k - 1 THEN Heard - (k - 1) + 1 ELSE Silence
          BY <2>1, <4>1 DEF RingHolds, Back
        <4>. HIDE DEF a
        <4>4. ring'[b] = ring[a]
          BY <2>1, <2>4, <3>1, <3>3, <4>2
        <4>5. ring'[b] = IF h >= k THEN h - k + 1 ELSE Silence
          <5>1. k \in Nat /\ Heard = h - 1
            BY <1>0, <2>4, <2>8
          <5>2. (Heard >= k - 1 <=> h >= k) /\ Heard - (k - 1) + 1 = h - k + 1
            BY <2>8, <5>1
          <5>. QED
            BY <4>3, <4>4, <5>2
        <4>. QED
          BY <4>5 DEF b
      <3>. QED
        BY <3>2, <3>3
    <2>6. SUFFICES ASSUME NEW k \in 1..RingCap
                   PROVE  ring'[Back(k)'] = IF Heard' >= k THEN Heard' - k + 1 ELSE Silence
      BY DEF RingHolds
    <2>7. ring'[Back(k)'] = IF h >= k THEN h - k + 1 ELSE Silence
      BY <2>5 DEF Back
    <2>. QED
      BY <2>7, <2>9
  <1>. QED
    BY <1>2, <1>3, <1>4, <1>5, <1>6, MicSteps

\* In every reachable state buffer and ring hold what was captured last.
LEMMA AudioInvariant == Spec => [](MicType /\ MicFits /\ InOrder /\ RingHolds)
  <1>1. Init => InOrder
    BY DEF Init, InOrder
  <1>2. Init => RingHolds
    <2>. SUFFICES ASSUME Init, NEW k \in 1..RingCap
                  PROVE  ring[Back(k)] = IF Heard >= k THEN Heard - k + 1 ELSE Silence
      BY DEF RingHolds
    <2>1. Heard = 0
      BY DEF Init, Heard
    <2>2. k \in Nat /\ k >= 1 /\ RingCap - k \in Nat /\ RingCap \in Nat
      BY SizesType
    <2>3. writePos = 0 /\ writePos + RingCap - k \in Nat
      BY <2>2 DEF Init
    <2>4. Back(k) \in 0..(RingCap - 1)
      BY <2>3, RingPositions DEF Back
    <2>5. ring[Back(k)] = Silence
      BY <2>4 DEF Init
    <2>. QED
      BY <2>1, <2>2, <2>5
  <1>. QED
    BY <1>1, <1>2, UplinkInvariant, StepInOrder, StepRingHolds, PTL DEF Spec

(* Whatever the packets, each chunk that is offered and fed continues the  *)
(* last: the copies of a packet and of the rest leave no gap and no repeat *)
(* (handler.go:234-256).                                                   *)
THEOREM ChunksContinue == Spec => []ChunksInSequence
  <1>1. InOrder => ChunksInSequence
    BY DEF InOrder, Held, ChunksInSequence
  <1>. QED
    BY <1>1, AudioInvariant, PTL

\* Reading n units back reads each at its distance from where the ring writes next.
LEMMA ReadLastReadsBack ==
  ASSUME MicType, NEW n \in 1..RingCap, NEW j \in 1..n
  PROVE  ReadLast(n)[j] = ring[Back(n - j + 1)]
  <1>. DEFINE r == RingCap
              w == writePos
              s == (w + r - n) % r
  <1>1. r \in Nat /\ r > 0 /\ w \in Nat /\ w < r /\ n \in Nat /\ n <= r /\ j \in Nat /\ j >= 1 /\ j <= n /\ n >= 1
    BY SizesType DEF MicType
  <1>2. ReadLast(n)[j] = ring[(s + j - 1) % r]
    BY DEF ReadLast, Start
  <1>. HIDE DEF r, w
  <1>3. s = IF w + r - n < r THEN w + r - n ELSE w + r - n - r
    <2>1. w + r - n \in Nat /\ w + r - n < r + r
      BY <1>1
    <2>. QED
      BY <1>1, <2>1, Around
  <1>. HIDE DEF s
  <1>4. s \in Nat /\ s + j - 1 \in Nat /\ s + j - 1 < r + r
    BY <1>1, <1>3
  <1>5. (s + j - 1) % r = IF s + j - 1 < r THEN s + j - 1 ELSE s + j - 1 - r
    BY <1>1, <1>4, Around
  <1>6. /\ w + r - (n - j + 1) \in Nat
        /\ w + r - (n - j + 1) < r + r
    BY <1>1
  <1>7. (w + r - (n - j + 1)) % r
          = IF w + r - (n - j + 1) < r THEN w + r - (n - j + 1) ELSE w + r - (n - j + 1) - r
    BY <1>1, <1>6, Around
  <1>8. (s + j - 1) % r = (w + r - (n - j + 1)) % r
    BY <1>1, <1>3, <1>5, <1>7
  <1>. QED
    BY <1>2, <1>8 DEF Back, r, w, s

(* The pre-roll is the last audio the engine heard, in order and after the *)
(* silence the ring began with, wherever the ring ends and the chunks      *)
(* begin (engine.go:104-147).                                              *)
THEOREM PreRollLatest == Spec => []PreRollIsLatest
  <1>1. MicType /\ MicFits /\ InOrder /\ RingHolds => PreRollIsLatest
    <2>. SUFFICES ASSUME MicType, MicFits, InOrder, RingHolds, mpc = "trigger", NEW j \in 1..PreRoll
                  PROVE  ReadLast(PreRoll)[j] = Newest(j, PreRoll)
      BY DEF PreRollIsLatest
    <2>. DEFINE k == PreRoll - j + 1
    <2>1. /\ PreRoll \in 1..RingCap /\ k \in 1..RingCap /\ j \in Nat /\ PreRoll \in Nat
          /\ j >= 1 /\ j <= PreRoll /\ RingCap \in Nat
      BY SizesType
    <2>2. Heard \in Nat
      BY MicNumbers
    <2>3. ReadLast(PreRoll)[j] = ring[Back(k)]
      BY <2>1, ReadLastReadsBack
    <2>. HIDE DEF k
    <2>4. ring[Back(k)] = IF Heard >= k THEN Heard - k + 1 ELSE Silence
      BY <2>1 DEF RingHolds
    <2>5. Newest(j, PreRoll) = IF Heard + j > PreRoll THEN Heard + j - PreRoll ELSE Silence
      BY DEF Newest, Heard
    <2>. QED
      BY <2>1, <2>2, <2>3, <2>4, <2>5 DEF k
  <1>. QED
    BY <1>1, AudioInvariant, PTL
=============================================================================
