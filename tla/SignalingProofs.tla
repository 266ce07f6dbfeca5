-------------------------- MODULE SignalingProofs --------------------------
(***************************************************************************)
(* Proofs about a call from its first frame to its teardown, for any       *)
(* tracks and any bounds: the types, what a second Close needs, and that   *)
(* ServeWebSocket leaves no peer connection behind.                        *)
(***************************************************************************)
EXTENDS Signaling, TLAPS

Places   == {"done", "service", "peer", "cancel", "stop", "timer", "closing", "stalled"}
Runs     == [who : Tracks \cup {Call, Nobody}, pc : Places]
Stations == {"none", "missed", "pacer", "connect", "decoder", "start", "register", "returned"}

\* The types by who changes them.  Only the last change of the connection's state, its close,
\* finds no room below MaxChanges.
PeerType ==
  /\ transport \in {"http", "ws"} /\ changes \in 0..(MaxChanges + 1)
  /\ conn \in {"none", "new", "connected"} \cup Down
  /\ handler \in Tracks \cup {Call, Nobody} /\ attached \in BOOLEAN
  /\ gor \in [Events -> Runs]
  /\ conn # "closed" => changes <= MaxChanges

TrackType ==
  /\ tpc \in [Tracks -> Stations] /\ paced \in [Tracks -> {"none", "open", "closed"}]
  /\ mic \in [Tracks -> BOOLEAN] /\ sess \in [Tracks -> {"none", "running", "ended"}]
  /\ cancelled \in [Tracks -> BOOLEAN] /\ hasStop \in [Tracks -> BOOLEAN]

ServiceType ==
  /\ open \in BOOLEAN /\ stopped \in BOOLEAN /\ closed \in BOOLEAN /\ reopened \in BOOLEAN
  /\ panic \in {"none", "reuse", "service", "socket"}
  /\ open /\ closed => reopened
  /\ closed => stopped

RequestType ==
  /\ hpc \in {"auth", "call", "offer", "create", "remote", "local", "answer", "answering",
              "failing", "attach", "poll", "cleanup", "returned"}
  /\ broken \in BOOLEAN /\ answered \in BOOLEAN
  /\ reader \in {"none", "reading", "done"} /\ writing \subseteq {"request", "ice"}
  /\ gathering \in 0..MaxCandidates

InboxType == inbox \in Seq(Messages) /\ Len(inbox) <= InboxCap /\ sent \in 0..MaxMessages

\* The four groups and the inbox are the type invariant.
LEMMA TypeByParts ==
  PeerType /\ TrackType /\ ServiceType /\ RequestType /\ InboxType => TypeOK
  <1>. SUFFICES ASSUME PeerType, TrackType, ServiceType, RequestType, InboxType
                PROVE  TypeOK
    OBVIOUS
  <1>1. MediaTypeOK
    BY DEF PeerType, TrackType, ServiceType, MediaTypeOK, Runs, Places, Stations
  <1>. QED
    BY <1>1 DEF RequestType, InboxType, TypeOK

\* Before it is created there is no peer connection, and afterwards none is created.
NoPeerYet == hpc \in {"auth", "call", "offer", "create"} => conn = "none"

\* Whoever closes the connection leaves none that is open.
LEMMA PeerCloses ==
  ASSUME NEW g, PeerClose(g)
  PROVE  (conn = "none" => conn' = "none") /\ conn' \in {"none", "closed"}
  BY DEF PeerClose

\* No state comes before the connection or after its close.
LEMMA NoChangeWhenDown == StateChanges => conn \notin {"none", "closed"}
  BY DEF StateChanges, NextStates

\* Before the first frame everything is well typed.
LEMMA InitTyped == Init => PeerType /\ TrackType /\ ServiceType /\ RequestType /\ InboxType
  <1>. SUFFICES ASSUME Init
                PROVE  PeerType /\ TrackType /\ ServiceType /\ RequestType /\ InboxType
    OBVIOUS
  <1>0. MaxChanges \in Nat /\ MaxMessages \in Nat /\ MaxCandidates \in Nat /\ InboxCap \in Nat
    BY CallAssumption, SignalingAssumption
  <1>1. Idle \in Runs
    BY DEF Idle, Runs, Places
  <1>2. PeerType
    <2>1. changes \in 0..(MaxChanges + 1) /\ changes <= MaxChanges
      BY <1>0 DEF Init, MediaInit
    <2>2. gor \in [Events -> Runs]
      BY <1>1 DEF Init, MediaInit
    <2>. QED
      BY <2>1, <2>2 DEF Init, MediaInit, PeerType
  <1>3. TrackType
    BY DEF Init, MediaInit, TrackType, Stations
  <1>4. ServiceType
    BY DEF Init, MediaInit, ServiceType
  <1>5. RequestType
    <2>1. gathering \in 0..MaxCandidates
      BY <1>0 DEF Init
    <2>. QED
      BY <2>1 DEF Init, RequestType, Begins
  <1>6. InboxType
    BY <1>0 DEF Init, InboxType
  <1>. QED
    BY <1>2, <1>3, <1>4, <1>5, <1>6

\* A change of state starts at most one goroutine, with the handler that is registered.
LEMMA SpawnType ==
  ASSUME PeerType, NEW g \in [Events -> Runs], NEW state
  PROVE  Spawn(g, state) \in [Events -> Runs]
  <1>. DEFINE r == [who |-> handler, pc |-> IF handler = Call THEN "service" ELSE "cancel"]
  <1>1. r \in Runs
    BY DEF PeerType, Runs, Places
  <1>. HIDE DEF r
  <1>2. [g EXCEPT ![changes + 1] = r] \in [Events -> Runs]
    BY <1>1
  <1>. QED
    BY <1>2 DEF Spawn, r

\* The connection closes once, with the last of the changes.
LEMMA PeerCloseType ==
  ASSUME PeerType, NEW g \in [Events -> Runs], PeerClose(g)
  PROVE  /\ conn' \in {conn, "closed"} /\ changes' \in 0..(MaxChanges + 1)
         /\ gor' \in [Events -> Runs]
         /\ conn' # "closed" => changes' <= MaxChanges
  <1>0. MaxChanges \in Nat
    BY CallAssumption
  <1>1. CASE conn \in {"none", "closed"}
    BY <1>1 DEF PeerClose, PeerType
  <1>2. CASE conn \notin {"none", "closed"}
    <2>1. conn' = "closed" /\ changes' = changes + 1 /\ gor' = Spawn(g, "closed")
      BY <1>2 DEF PeerClose
    <2>2. changes' \in 0..(MaxChanges + 1)
      BY <1>0, <1>2, <2>1 DEF PeerType
    <2>3. gor' \in [Events -> Runs]
      BY <2>1, SpawnType
    <2>. QED
      BY <2>1, <2>2, <2>3
  <1>. QED
    BY <1>1, <1>2

\* One step of a goroutine of the state handlers changes where it is.
LEMMA RunType ==
  ASSUME PeerType, NEW n \in Events, NEW p \in Places
  PROVE  [gor EXCEPT ![n].pc = p] \in [Events -> Runs]
  <1>1. gor[n] \in Runs
    BY DEF PeerType
  <1>2. [gor[n] EXCEPT !.pc = p] \in Runs
    BY <1>1 DEF Runs
  <1>. QED
    BY <1>2 DEF PeerType

\* The connection, its handlers and their goroutines keep their types.
LEMMA StepPeerType == PeerType /\ NoPeerYet /\ Next => PeerType'
  <1>. SUFFICES ASSUME PeerType, NoPeerYet, Next
                PROVE  PeerType'
    OBVIOUS
  <1>0. MaxChanges \in Nat
    BY CallAssumption
  <1>1. CASE UNCHANGED <<transport, peerVars, regVars>>
    BY <1>1 DEF PeerType, peerVars, regVars
  <1>2. CASE UNCHANGED <<transport, regVars>> /\ \E g \in [Events -> Runs] : PeerClose(g)
    <2>1. PICK g \in [Events -> Runs] : PeerClose(g)
      BY <1>2
    <2>2. /\ conn' \in {conn, "closed"} /\ changes' \in 0..(MaxChanges + 1)
          /\ gor' \in [Events -> Runs]
          /\ conn' # "closed" => changes' <= MaxChanges
      BY <2>1, PeerCloseType
    <2>. QED
      BY <1>2, <2>2 DEF PeerType, regVars, Down
  <1>3. CASE Send \/ Breaks
    BY <1>1, <1>3 DEF Send, Breaks, ClientUnchanged, mediaVars
  <1>4. CASE PeerChanges
    <2>1. PICK state \in NextStates : conn' = state /\ gor' = Spawn(gor, state)
      BY <1>4 DEF PeerChanges, StateChanges
    <2>2. state \in {"connected", "disconnected", "failed"}
      BY <2>1 DEF NextStates
    <2>3. changes' = changes + 1 /\ changes < MaxChanges /\ UNCHANGED <<transport, handler, attached>>
      BY <1>4 DEF PeerChanges, StateChanges, regVars
    <2>4. changes' \in 0..(MaxChanges + 1) /\ changes' <= MaxChanges
      BY <1>0, <2>3 DEF PeerType
    <2>5. gor' \in [Events -> Runs]
      BY <2>1, SpawnType DEF PeerType
    <2>. QED
      BY <2>1, <2>2, <2>3, <2>4, <2>5 DEF PeerType, Down
  <1>5. CASE Request
    <2>1. CASE ReadAuth \/ ReadOffer \/ ReceiveCall \/ (\E p : NoPeer(p))
      BY <1>1, <2>1 DEF ReadAuth, ReadOffer, ReceiveCall, NoPeer, ReadUnchanged, mediaVars
    <2>2. CASE CreateForRequest \/ CreateForSocket
      <3>1. CASE \E p : NoPeer(p)
        BY <1>1, <3>1 DEF NoPeer, mediaVars
      <3>2. CASE \E p : NewPeer(p) /\ ((handler' = Call /\ attached' = TRUE) \/ UNCHANGED regVars)
        <4>1. conn' = "new" /\ UNCHANGED <<transport, changes, gor>>
          BY <3>2 DEF NewPeer
        <4>2. handler' \in Tracks \cup {Call, Nobody} /\ attached' \in BOOLEAN
          BY <3>2 DEF PeerType, regVars
        <4>3. conn = "none"
          BY <2>2 DEF CreateForRequest, CreateForSocket, NoPeer, NewPeer, Goto, NoPeerYet
        <4>4. changes' <= MaxChanges
          BY <4>1, <4>3 DEF PeerType
        <4>. QED
          BY <4>1, <4>2, <4>4 DEF PeerType
      <3>. QED
        BY <2>2, <3>1, <3>2 DEF CreateForRequest, CreateForSocket
    <2>3. CASE SetRemoteDescription \/ SetLocalDescription \/ ReturnAnswer
               \/ WriteAnswer \/ AnswerWritten \/ Poll
      BY <1>1, <2>3 DEF SetRemoteDescription, SetLocalDescription, ReturnAnswer, WriteAnswer,
                        AnswerWritten, Poll, PeerUnchanged, mediaVars
    <2>4. CASE AttachMediaHandlers
      BY <2>4 DEF AttachMediaHandlers, PeerType, peerVars
    <2>5. CASE Cleanup
      <3>1. PeerClose(gor) /\ UNCHANGED <<transport, regVars>>
        BY <2>5 DEF Cleanup, Deferred
      <3>. QED
        BY <1>2, <3>1 DEF PeerType
    <2>. QED
      BY <1>5, <2>1, <2>2, <2>3, <2>4, <2>5 DEF Request
  <1>6. CASE ReaderReads
    <2>1. UNCHANGED <<transport, regVars>> /\ (PeerClose(gor) \/ UNCHANGED peerVars)
      BY <1>6 DEF ReaderReads, ByeCloses
    <2>. QED
      BY <1>1, <1>2, <2>1 DEF PeerType
  <1>7. CASE Callbacks
    BY <1>1, <1>7 DEF Callbacks, WriteCandidate, CandidateWritten, mediaVars
  <1>8. ASSUME NEW t \in Tracks, Arrives(t) \/ Tracked(t) \/ Panics(t)
        PROVE  PeerType'
    <2>1. CASE Register(t)
      BY <2>1 DEF Register, OnTrackUnchanged, PeerType, peerVars
    <2>2. CASE ~Register(t)
      BY <1>1, <1>8, <2>2
      DEF Arrives, Tracked, Panics, TrackArrives, OnTrack, LoopsEnd, MicPanics, NewPacer,
          ConnectService, NewDecoder, StartSession, OnTrackUnchanged
    <2>. QED
      BY <2>1, <2>2
  <1>9. ASSUME NEW n \in Events, Handles(n)
        PROVE  PeerType'
    <2>1. CASE gor[n].pc = "peer" /\ PeerClose([gor EXCEPT ![n].pc = "done"])
               /\ HandlerUnchanged
      <3>1. [gor EXCEPT ![n].pc = "done"] \in [Events -> Runs]
        BY RunType DEF Places
      <3>. QED
        BY <1>2, <2>1, <3>1 DEF HandlerUnchanged
    <2>2. CASE HandlerUnchanged /\ UNCHANGED <<conn, changes>>
               /\ \E p \in Places : gor' = [gor EXCEPT ![n].pc = p]
      <3>1. gor' \in [Events -> Runs]
        BY <2>2, RunType
      <3>. QED
        BY <2>2, <3>1 DEF PeerType, HandlerUnchanged, regVars
    <2>. QED
      BY <1>9, <2>1, <2>2
      DEF Handles, StateHandler, CallHandler, SessionHandler, BeginClose, FinishClose, Step, MoveTo,
          PacerUnchanged, Places
  <1>10. CASE Fails
    BY <1>1, <1>10 DEF Fails, ServicePanics
  <1>. QED
    BY <1>3, <1>4, <1>5, <1>6, <1>7, <1>8, <1>9, <1>10 DEF Next


\* The goroutine of a track and what it made keep their types.
LEMMA StepTrackType == TrackType /\ Next => TrackType'
  <1>. SUFFICES ASSUME TrackType, Next
                PROVE  TrackType'
    OBVIOUS
  <1>1. CASE UNCHANGED trackVars
    BY <1>1 DEF TrackType, trackVars
  <1>2. CASE Send \/ Breaks
    BY <1>1, <1>2 DEF Send, Breaks, ClientUnchanged, mediaVars
  <1>3. CASE PeerChanges
    BY <1>1, <1>3 DEF PeerChanges, StateChanges
  <1>4. CASE Request
    BY <1>1, <1>4
    DEF Request, ReadAuth, ReadOffer, ReceiveCall, CreateForRequest, CreateForSocket,
        SetRemoteDescription, SetLocalDescription, ReturnAnswer, WriteAnswer, AnswerWritten,
        AttachMediaHandlers, Poll, Cleanup, NewPeer, NoPeer, ReadUnchanged, PeerUnchanged, mediaVars
  <1>5. CASE ReaderReads \/ Callbacks
    BY <1>1, <1>5 DEF ReaderReads, Callbacks, WriteCandidate, CandidateWritten, mediaVars
  <1>6. ASSUME NEW t \in Tracks, Arrives(t) \/ Tracked(t) \/ Panics(t)
        PROVE  TrackType'
    <2>1. CASE TrackArrives(t)
      BY <2>1 DEF TrackArrives, TrackType, Stations
    <2>2. CASE NewPacer(t)
      BY <2>2 DEF NewPacer, OnTrackUnchanged, GoOn, TrackType, Stations
    <2>3. CASE ConnectService(t)
      BY <2>3 DEF ConnectService, OnTrackUnchanged, GoOn, TrackType, Stations
    <2>4. CASE NewDecoder(t)
      BY <2>4 DEF NewDecoder, OnTrackUnchanged, GoOn, TrackType, Stations
    <2>5. CASE StartSession(t)
      BY <2>5 DEF StartSession, OnTrackUnchanged, GoOn, TrackType, Stations
    <2>6. CASE Register(t)
      BY <2>6 DEF Register, OnTrackUnchanged, GoOn, TrackType, Stations
    <2>7. CASE LoopsEnd(t)
      BY <2>7 DEF LoopsEnd, TrackType
    <2>8. CASE MicPanics(t)
      BY <1>1, <2>8 DEF MicPanics
    <2>. QED
      BY <1>6, <2>1, <2>2, <2>3, <2>4, <2>5, <2>6, <2>7, <2>8 DEF Arrives, Tracked, Panics, OnTrack
  <1>7. ASSUME NEW n \in Events, Handles(n)
        PROVE  TrackType'
    <2>1. HandlerUnchanged
      BY <1>7 DEF Handles, StateHandler, CallHandler, SessionHandler
    <2>2. /\ cancelled' \in {cancelled, [cancelled EXCEPT ![gor[n].who] = TRUE]}
          /\ paced' \in {paced, [paced EXCEPT ![gor[n].who] = "closed"]}
      BY <1>7 DEF Handles, StateHandler, CallHandler, SessionHandler, PacerUnchanged, ClosesPacer
    <2>. QED
      BY <2>1, <2>2 DEF HandlerUnchanged, TrackType
  <1>8. CASE Fails
    BY <1>1, <1>8 DEF Fails, ServicePanics
  <1>. QED
    BY <1>2, <1>3, <1>4, <1>5, <1>6, <1>7, <1>8 DEF Next

(***************************************************************************)
(* s.mu.  Between close(stopCh) and the close of the channels a goroutine  *)
(* of a state handler holds it, and it is neither forgotten when another   *)
(* change of state starts a goroutine, nor there before a Close began.     *)
(***************************************************************************)
Holds(m) == gor[m].pc \in {"closing", "stalled"}
Fresh    == \A m \in Events : m > changes => gor[m].pc = "done"
Held     == /\ stopped /\ ~closed => \E m \in Events : Holds(m)
            /\ \A m \in Events : Holds(m) => stopped

(* What a step does to the service: nothing; a Connect; the two halves of  *)
(* a Close; or a panic: of the mic reader, or of another goroutine.        *)
Quiet       == UNCHANGED <<serviceVars, panic>>
Connects    == Connected /\ UNCHANGED panic
CloseBegins == /\ MuFree /\ open /\ stopped' = TRUE
               /\ panic' = IF stopped THEN "reuse" ELSE "none"
               /\ UNCHANGED <<open, closed, reopened>>
CloseEnds   == open' = FALSE /\ closed' = TRUE /\ UNCHANGED <<stopped, reopened, panic>>
MicPanic    == open /\ closed /\ panic' = "reuse" /\ UNCHANGED serviceVars
OtherPanic  == panic' \in {"service", "socket"} /\ UNCHANGED serviceVars

\* What a step of the goroutine n of a state handler does to the service and to its place.
CloseStep(n) ==
  \/ Quiet /\ gor[n].pc = "peer" /\ PeerClose([gor EXCEPT ![n].pc = "done"])
  \/ /\ UNCHANGED changes
     /\ \/ CloseBegins /\ MoveTo(n, "closing") /\ gor[n].pc # "done"
        \/ Quiet /\ MuFree /\ ~open /\ gor[n].pc # "done"
           /\ \E p \in Places \ {"closing", "stalled"} : MoveTo(n, p)
        \/ CloseEnds /\ gor[n].pc = "closing" /\ \E p \in {"peer", "timer"} : MoveTo(n, p)
        \/ Quiet /\ gor[n].pc = "closing" /\ MoveTo(n, "stalled")
        \/ Quiet /\ gor[n].pc \notin {"done", "closing", "stalled"}
           /\ \E p \in Places \ {"closing", "stalled"} : MoveTo(n, p)

\* Every step of a state handler is one of these.
LEMMA CloseSteps == ASSUME NEW n \in Events, Handles(n) PROVE CloseStep(n)
  <1>1. CASE gor[n].who = Call
    BY <1>1 DEF Handles, StateHandler, CallHandler, BeginClose, FinishClose, Disconnects, PacerUnchanged,
                Places, CloseStep, CloseBegins, CloseEnds, Quiet, serviceVars
  <1>2. CASE gor[n].who # Call
    <2>1. CASE FinishClose(n, "timer") /\ PacerUnchanged
      BY <2>1 DEF FinishClose, Disconnects, PacerUnchanged, CloseStep, CloseEnds, Quiet, serviceVars
    <2>2. CASE gor[n].pc = "stop" /\ BeginClose(n, "timer") /\ PacerUnchanged
      BY <2>2 DEF BeginClose, PacerUnchanged, Places, CloseStep, CloseBegins, Quiet, serviceVars
    <2>3. CASE \/ Step(n, "cancel", "stop") /\ UNCHANGED <<changes, serviceVars, panic>>
               \/ Step(n, "stop", "timer") /\ UNCHANGED <<changes, serviceVars, panic>>
               \/ Step(n, "timer", "done") /\ UNCHANGED <<changes, serviceVars, panic>>
      BY <2>3 DEF Step, Places, CloseStep, Quiet
    <2>. QED
      BY <1>2, <2>1, <2>2, <2>3 DEF Handles, StateHandler, SessionHandler, PacerUnchanged
  <1>. QED
    BY <1>1, <1>2

\* Each step is one of these, and none comes after a panic; only a state handler begins or ends
\* a Close.
LEMMA ServiceSteps ==
  Next => /\ ~crashed
          /\ \/ Quiet \/ Connects \/ MicPanic \/ OtherPanic
             \/ \E n \in Events : CloseStep(n)
  <1>. SUFFICES ASSUME Next
                PROVE  Quiet \/ Connects \/ MicPanic \/ OtherPanic \/ \E n \in Events : CloseStep(n)
    BY DEF Next
  <1>1. CASE Send \/ Breaks
    BY <1>1 DEF Send, Breaks, ClientUnchanged, mediaVars, Quiet
  <1>2. CASE PeerChanges
    BY <1>2 DEF PeerChanges, StateChanges, Quiet
  <1>3. CASE Request
    BY <1>3
    DEF Request, ReadAuth, ReadOffer, ReceiveCall, CreateForRequest, CreateForSocket,
        SetRemoteDescription, SetLocalDescription, ReturnAnswer, WriteAnswer, AnswerWritten,
        AttachMediaHandlers, Poll, Cleanup, NewPeer, NoPeer, ReadUnchanged, PeerUnchanged, mediaVars,
        Quiet
  <1>4. CASE ReaderReads
    BY <1>4 DEF ReaderReads, Quiet
  <1>5. CASE Callbacks \/ Fails
    BY <1>5 DEF Callbacks, WriteCandidate, CandidateWritten, Fails, ServicePanics, mediaVars, Quiet,
                OtherPanic
  <1>6. ASSUME NEW t \in Tracks, Arrives(t) \/ Tracked(t) \/ Panics(t)
        PROVE  Quiet \/ Connects \/ MicPanic
    BY <1>6
    DEF Arrives, Tracked, Panics, TrackArrives, OnTrack, NewPacer, ConnectService, NewDecoder,
        StartSession, Register, OnTrackUnchanged, ConnectFails, LoopsEnd, MicPanics, Quiet, Connects,
        MicPanic
  <1>. QED
    BY <1>1, <1>2, <1>3, <1>4, <1>5, <1>6, CloseSteps DEF Next

\* The service keeps its types, and is connected after a Close only if it was reopened.
LEMMA StepServiceType == ServiceType /\ Held /\ Next => ServiceType'
  <1>. SUFFICES ASSUME ServiceType, Held, Next
                PROVE  ServiceType'
    OBVIOUS
  <1>1. CASE Quiet \/ OtherPanic \/ MicPanic
    BY <1>1 DEF Quiet, OtherPanic, MicPanic, serviceVars, ServiceType
  <1>2. CASE Connects
    BY <1>2 DEF Connects, Connected, ServiceType
  <1>3. CASE CloseBegins
    BY <1>3 DEF CloseBegins, ServiceType
  <1>4. ASSUME NEW n \in Events, CloseEnds, gor[n].pc = "closing"
        PROVE  ServiceType'
    <2>1. stopped
      BY <1>4 DEF Held, Holds
    <2>. QED
      BY <1>4, <2>1 DEF CloseEnds, ServiceType
  <1>. QED
    BY <1>1, <1>2, <1>3, <1>4, ServiceSteps DEF CloseStep

\* A new goroutine takes a place nobody has.
LEMMA SpawnFresh ==
  ASSUME PeerType, NEW g \in [Events -> Runs], NEW state, changes + 1 \in Events,
         \A m \in Events : m > changes => g[m].pc = "done"
  PROVE  /\ \A m \in Events : m > changes + 1 => Spawn(g, state)[m].pc = "done"
         /\ \A m \in Events : g[m].pc # "done" => Spawn(g, state)[m].pc = g[m].pc
         /\ \A m \in Events : Spawn(g, state)[m].pc \in {"closing", "stalled"}
                                => Spawn(g, state)[m].pc = g[m].pc
  <1>0. MaxChanges \in Nat /\ changes \in Nat
    BY CallAssumption DEF PeerType
  <1>. DEFINE r == [who |-> handler, pc |-> IF handler = Call THEN "service" ELSE "cancel"]
              h == [g EXCEPT ![changes + 1] = r]
  <1>1. Spawn(g, state) \in {g, h}
    BY DEF Spawn
  <1>2. r.pc \notin {"closing", "stalled"}
    OBVIOUS
  <1>. HIDE DEF r
  <1>3. \A m \in Events : h[m] = IF m = changes + 1 THEN r ELSE g[m]
    OBVIOUS
  <1>4. changes + 1 > changes
    BY <1>0
  <1>5. g[changes + 1].pc = "done"
    BY <1>4
  <1>. HIDE DEF h
  <1>6. \A m \in Events : m > changes + 1 => m > changes /\ m # changes + 1
    BY <1>0 DEF Events
  <1>. QED
    BY <1>1, <1>2, <1>3, <1>5, <1>6

\* A change of state leaves the goroutine that holds s.mu where it is.
LEMMA SpawnHeld ==
  ASSUME PeerType, Fresh, Held, NEW g \in [Events -> Runs], NEW state, changes + 1 \in Events,
         \A m \in Events : g[m].pc = gor[m].pc \/ (g[m].pc = "done" /\ ~Holds(m)),
         changes' = changes + 1, gor' = Spawn(g, state), UNCHANGED <<stopped, closed>>
  PROVE  Fresh' /\ Held'
  <1>1. \A m \in Events : m > changes => g[m].pc = "done"
    BY DEF Fresh
  <1>2. /\ \A m \in Events : m > changes + 1 => gor'[m].pc = "done"
        /\ \A m \in Events : g[m].pc # "done" => gor'[m].pc = g[m].pc
        /\ \A m \in Events : gor'[m].pc \in {"closing", "stalled"} => gor'[m].pc = g[m].pc
    BY <1>1, SpawnFresh
  <1>3. Fresh'
    BY <1>2 DEF Fresh
  <1>4. \A m \in Events : Holds(m)' <=> Holds(m)
    BY <1>2 DEF Holds
  <1>. QED
    BY <1>3, <1>4 DEF Held

\* The close of the connection, by a goroutine that is not inside Close.
LEMMA PeerCloseHeld ==
  ASSUME PeerType, Fresh, Held, NEW g \in [Events -> Runs], PeerClose(g),
         \A m \in Events : g[m].pc = gor[m].pc \/ (g[m].pc = "done" /\ ~Holds(m)),
         UNCHANGED <<stopped, closed>>
  PROVE  Fresh' /\ Held'
  <1>1. CASE conn \in {"none", "closed"}
    <2>1. gor' = g /\ changes' = changes
      BY <1>1 DEF PeerClose
    <2>2. \A m \in Events : Holds(m)' <=> Holds(m)
      BY <2>1 DEF Holds
    <2>3. Fresh'
      BY <2>1 DEF Fresh
    <2>. QED
      BY <2>2, <2>3 DEF Held
  <1>2. CASE conn \notin {"none", "closed"}
    <2>1. changes' = changes + 1 /\ gor' = Spawn(g, "closed")
      BY <1>2 DEF PeerClose
    <2>2. MaxChanges \in Nat /\ changes \in Nat /\ changes <= MaxChanges
      BY <1>2, CallAssumption DEF PeerType
    <2>3. changes + 1 \in Events
      BY <2>2 DEF Events
    <2>. QED
      BY <2>1, <2>3, SpawnHeld
  <1>. QED
    BY <1>1, <1>2

\* A goroutine of a state handler that moves on takes s.mu free, keeps it, or gives it back.
LEMMA CloseStepHeld ==
  ASSUME PeerType, Fresh, Held, NEW n \in Events, CloseStep(n)
  PROVE  Fresh' /\ Held'
  <1>0. gor \in [Events -> Runs] /\ gor[n] \in Runs
    BY DEF PeerType
  <1>1. CASE Quiet /\ gor[n].pc = "peer" /\ PeerClose([gor EXCEPT ![n].pc = "done"])
    <2>. DEFINE g == [gor EXCEPT ![n].pc = "done"]
    <2>1. g \in [Events -> Runs]
      BY RunType DEF Places
    <2>2. \A m \in Events : g[m].pc = gor[m].pc \/ (g[m].pc = "done" /\ ~Holds(m))
      BY <1>0, <1>1 DEF Holds, Runs
    <2>3. UNCHANGED <<stopped, closed>>
      BY <1>1 DEF Quiet, serviceVars
    <2>. HIDE DEF g
    <2>. QED
      BY <1>1, <2>1, <2>2, <2>3, PeerCloseHeld DEF g
  <1>2. ASSUME NEW p \in Places, MoveTo(n, p), gor[n].pc # "done", UNCHANGED changes
        PROVE  /\ Fresh' /\ gor'[n].pc = p
               /\ \A m \in Events \ {n} : gor'[m] = gor[m]
    <2>1. gor' = [gor EXCEPT ![n].pc = p]
      BY <1>2 DEF MoveTo
    <2>2. gor'[n].pc = p /\ \A m \in Events \ {n} : gor'[m] = gor[m]
      BY <1>0, <2>1 DEF Runs
    <2>3. ~(n > changes)
      BY <1>2 DEF Fresh
    <2>. QED
      BY <1>2, <2>2, <2>3 DEF Fresh
  <1>3. CASE CloseBegins /\ MoveTo(n, "closing") /\ gor[n].pc # "done" /\ UNCHANGED changes
    <2>1. Fresh' /\ gor'[n].pc = "closing"
      BY <1>2, <1>3 DEF Places
    <2>2. Holds(n)' /\ stopped'
      BY <1>3, <2>1 DEF Holds, CloseBegins
    <2>. QED
      BY <2>1, <2>2 DEF Held
  <1>4. CASE Quiet /\ MuFree /\ gor[n].pc # "done" /\ UNCHANGED changes
             /\ \E p \in Places \ {"closing", "stalled"} : MoveTo(n, p)
    <2>1. PICK p \in Places \ {"closing", "stalled"} : MoveTo(n, p)
      BY <1>4
    <2>2. /\ Fresh' /\ gor'[n].pc = p
          /\ \A m \in Events \ {n} : gor'[m] = gor[m]
      BY <1>2, <1>4, <2>1
    <2>3. \A m \in Events : ~Holds(m) /\ ~Holds(m)'
      BY <1>4, <2>2 DEF MuFree, Holds
    <2>4. UNCHANGED <<stopped, closed>>
      BY <1>4 DEF Quiet, serviceVars
    <2>. QED
      BY <2>2, <2>3, <2>4 DEF Held
  <1>5. CASE CloseEnds /\ gor[n].pc = "closing" /\ UNCHANGED changes
             /\ \E p \in {"peer", "timer"} : MoveTo(n, p)
    <2>1. PICK p \in {"peer", "timer"} : MoveTo(n, p)
      BY <1>5
    <2>2. Fresh'
      BY <1>2, <1>5, <2>1 DEF Places
    <2>3. stopped' /\ closed'
      BY <1>5 DEF CloseEnds, Held, Holds
    <2>. QED
      BY <2>2, <2>3 DEF Held
  <1>6. CASE Quiet /\ gor[n].pc = "closing" /\ MoveTo(n, "stalled") /\ UNCHANGED changes
    <2>1. /\ Fresh' /\ gor'[n].pc = "stalled"
          /\ \A m \in Events \ {n} : gor'[m] = gor[m]
      BY <1>2, <1>6 DEF Places
    <2>2. \A m \in Events : Holds(m)' <=> Holds(m)
      BY <1>6, <2>1 DEF Holds
    <2>3. UNCHANGED <<stopped, closed>>
      BY <1>6 DEF Quiet, serviceVars
    <2>. QED
      BY <2>1, <2>2, <2>3 DEF Held
  <1>7. CASE Quiet /\ gor[n].pc \notin {"done", "closing", "stalled"} /\ UNCHANGED changes
             /\ \E p \in Places \ {"closing", "stalled"} : MoveTo(n, p)
    <2>1. PICK p \in Places \ {"closing", "stalled"} : MoveTo(n, p)
      BY <1>7
    <2>2. /\ Fresh' /\ gor'[n].pc = p
          /\ \A m \in Events \ {n} : gor'[m] = gor[m]
      BY <1>2, <1>7, <2>1
    <2>3. \A m \in Events : Holds(m)' <=> Holds(m)
      BY <1>7, <2>1, <2>2 DEF Holds
    <2>4. UNCHANGED <<stopped, closed>>
      BY <1>7 DEF Quiet, serviceVars
    <2>. QED
      BY <2>2, <2>3, <2>4 DEF Held
  <1>. QED
    BY <1>1, <1>3, <1>4, <1>5, <1>6, <1>7 DEF CloseStep

\* Whoever is between the two halves of a Close holds s.mu, however many changes of state there are.
LEMMA StepHeld == PeerType /\ Fresh /\ Held /\ Next => Fresh' /\ Held'
  <1>. SUFFICES ASSUME PeerType, Fresh, Held, Next
                PROVE  Fresh' /\ Held'
    OBVIOUS
  <1>0. gor \in [Events -> Runs]
    BY DEF PeerType
  <1>1. CASE UNCHANGED <<changes, gor, stopped, closed>>
    BY <1>1 DEF Fresh, Held, Holds
  <1>2. CASE PeerClose(gor) /\ UNCHANGED <<stopped, closed>>
    BY <1>0, <1>2, PeerCloseHeld
  <1>3. CASE Send \/ Breaks
    BY <1>1, <1>3 DEF Send, Breaks, ClientUnchanged, mediaVars, peerVars, serviceVars
  <1>4. CASE PeerChanges
    <2>1. PICK state \in NextStates : gor' = Spawn(gor, state)
      BY <1>4 DEF PeerChanges, StateChanges
    <2>2. changes' = changes + 1 /\ changes < MaxChanges /\ UNCHANGED <<stopped, closed>>
      BY <1>4 DEF PeerChanges, StateChanges, serviceVars
    <2>3. MaxChanges \in Nat /\ changes \in Nat
      BY CallAssumption DEF PeerType
    <2>4. changes + 1 \in Events
      BY <2>2, <2>3 DEF Events
    <2>. QED
      BY <1>0, <2>1, <2>2, <2>4, SpawnHeld
  <1>5. CASE Request
    <2>1. CASE Cleanup
      BY <1>2, <2>1 DEF Cleanup, Deferred, serviceVars
    <2>2. CASE ~Cleanup
      BY <1>1, <1>5, <2>2
      DEF Request, ReadAuth, ReadOffer, ReceiveCall, CreateForRequest, CreateForSocket,
          SetRemoteDescription, SetLocalDescription, ReturnAnswer, WriteAnswer, AnswerWritten,
          AttachMediaHandlers, Poll, NewPeer, NoPeer, ReadUnchanged, PeerUnchanged, mediaVars,
          peerVars, serviceVars
    <2>. QED
      BY <2>1, <2>2
  <1>6. CASE ReaderReads
    BY <1>1, <1>2, <1>6 DEF ReaderReads, ByeCloses, peerVars, serviceVars
  <1>7. CASE Callbacks \/ Fails
    BY <1>1, <1>7 DEF Callbacks, WriteCandidate, CandidateWritten, Fails, ServicePanics, mediaVars,
                      peerVars, serviceVars
  <1>8. ASSUME NEW t \in Tracks, Arrives(t) \/ Tracked(t) \/ Panics(t)
        PROVE  UNCHANGED <<changes, gor, stopped, closed>>
    BY <1>8
    DEF Arrives, Tracked, Panics, TrackArrives, OnTrack, NewPacer, ConnectService, NewDecoder,
        StartSession, Register, OnTrackUnchanged, Connected, ConnectFails, LoopsEnd, MicPanics,
        peerVars, serviceVars
  <1>9. ASSUME NEW n \in Events, Handles(n)
        PROVE  Fresh' /\ Held'
    BY <1>9, CloseSteps, CloseStepHeld
  <1>. QED
    BY <1>1, <1>3, <1>4, <1>5, <1>6, <1>7, <1>8, <1>9 DEF Next

\* The goroutines of the request and of the socket keep their types.
LEMMA StepRequestType == RequestType /\ Next => RequestType'
  <1>. SUFFICES ASSUME RequestType, Next
                PROVE  RequestType'
    OBVIOUS
  <1>0. MaxCandidates \in Nat
    BY SignalingAssumption
  <1>1. CASE UNCHANGED <<hpc, broken, reader, answered, writing, gathering>>
    BY <1>1 DEF RequestType
  <1>2. CASE UNCHANGED <<hpc, reader, answered, writing, gathering>> /\ broken' = TRUE
    BY <1>2 DEF RequestType
  <1>3. CASE Send \/ Breaks
    BY <1>1, <1>2, <1>3 DEF Send, Breaks, ClientUnchanged, iceVars
  <1>4. CASE PeerChanges
    BY <1>1, <1>4 DEF PeerChanges, wsVars, iceVars
  <1>5. CASE ReadAuth \/ ReadOffer \/ ReceiveCall \/ CreateForRequest \/ CreateForSocket
    <2>1. UNCHANGED <<broken, answered, writing, gathering>>
      BY <1>5 DEF ReadAuth, ReadOffer, ReceiveCall, CreateForRequest, CreateForSocket, NewPeer,
                  NoPeer, ReadUnchanged, wsVars, iceVars
    <2>2. hpc' \in {"offer", "returned", "create", "remote"}
      BY <1>5 DEF ReadAuth, ReadOffer, ReceiveCall, CreateForRequest, CreateForSocket, NewPeer,
                  NoPeer, Goto
    <2>3. reader' \in {reader, "reading"}
      BY <1>5 DEF ReadAuth, ReadOffer, ReceiveCall, CreateForRequest, CreateForSocket, NoPeer, wsVars
    <2>. QED
      BY <2>1, <2>2, <2>3 DEF RequestType
  <1>6. CASE SetRemoteDescription
    BY <1>6 DEF SetRemoteDescription, PeerUnchanged, iceVars, Goto, RequestType
  <1>7. CASE SetLocalDescription
    <2>1. gathering' \in 0..MaxCandidates
      BY <1>0, <1>7 DEF SetLocalDescription, RequestType
    <2>. QED
      BY <1>7, <2>1 DEF SetLocalDescription, PeerUnchanged, Goto, RequestType
  <1>8. CASE ReturnAnswer
    <2>1. gathering' \in 0..MaxCandidates
      BY <1>0, <1>8 DEF ReturnAnswer
    <2>. QED
      BY <1>8, <2>1 DEF ReturnAnswer, PeerUnchanged, Goto, RequestType
  <1>9. CASE WriteAnswer
    BY <1>9 DEF WriteAnswer, PeerUnchanged, Goto, BeginWrite, RequestType
  <1>10. CASE AnswerWritten
    BY <1>10 DEF AnswerWritten, PeerUnchanged, iceVars, Goto, EndWrite, RequestType
  <1>11. CASE AttachMediaHandlers \/ Poll
    BY <1>11 DEF AttachMediaHandlers, Poll, PeerUnchanged, wsVars, iceVars, Goto, RequestType
  <1>12. CASE Cleanup
    BY <1>12 DEF Cleanup, iceVars, Goto, RequestType
  <1>13. CASE ReaderReads
    BY <1>13 DEF ReaderReads, iceVars, RequestType
  <1>14. CASE WriteCandidate
    <2>1. gathering' \in 0..MaxCandidates
      BY <1>0, <1>14 DEF WriteCandidate, RequestType
    <2>. QED
      BY <1>14, <2>1 DEF WriteCandidate, BeginWrite, RequestType
  <1>15. CASE CandidateWritten
    BY <1>15 DEF CandidateWritten, EndWrite, iceVars, RequestType
  <1>16. CASE \/ \E t \in Tracks : Arrives(t) \/ Tracked(t) \/ Panics(t)
              \/ (\E n \in Events : Handles(n)) \/ Fails
    BY <1>1, <1>16 DEF Arrives, Tracked, Panics, Handles, Fails, wsVars, iceVars
  <1>. QED
    BY <1>3, <1>4, <1>5, <1>6, <1>7, <1>8, <1>9, <1>10, <1>11, <1>12, <1>13, <1>14, <1>15, <1>16
    DEF Next, Request, Callbacks

\* Frames are appended to an inbox with room and taken from its head.
LEMMA StepInboxType == InboxType /\ Next => InboxType'
  <1>. SUFFICES ASSUME InboxType, Next
                PROVE  InboxType'
    OBVIOUS
  <1>0. InboxCap \in Nat /\ MaxMessages \in Nat
    BY SignalingAssumption
  <1>1. CASE UNCHANGED <<inbox, sent>>
    BY <1>1 DEF InboxType
  <1>2. CASE UNCHANGED sent /\ inbox # <<>> /\ inbox' = Tail(inbox)
    <2>1. Tail(inbox) \in Seq(Messages) /\ Len(Tail(inbox)) = Len(inbox) - 1 /\ Len(inbox) \in Nat
      BY <1>2 DEF InboxType
    <2>. QED
      BY <1>0, <1>2, <2>1 DEF InboxType
  <1>3. CASE Send
    <2>1. PICK m \in Messages : inbox' = Append(inbox, m)
      BY <1>3 DEF Send
    <2>2. Append(inbox, m) \in Seq(Messages) /\ Len(Append(inbox, m)) = Len(inbox) + 1
          /\ Len(inbox) \in Nat
      BY DEF InboxType
    <2>3. Len(inbox) < InboxCap /\ sent < MaxMessages /\ sent' \in {sent, sent + 1}
      BY <1>3 DEF Send
    <2>4. sent' \in 0..MaxMessages
      BY <1>0, <2>3 DEF InboxType
    <2>. QED
      BY <1>0, <2>1, <2>2, <2>3, <2>4 DEF InboxType
  <1>4. CASE Breaks \/ PeerChanges
    BY <1>1, <1>4 DEF Breaks, PeerChanges, wsVars
  <1>5. CASE Request
    BY <1>1, <1>2, <1>5
    DEF Request, ReadAuth, ReadOffer, ReceiveCall, CreateForRequest, CreateForSocket,
        SetRemoteDescription, SetLocalDescription, ReturnAnswer, WriteAnswer, AnswerWritten,
        AttachMediaHandlers, Poll, Cleanup, NewPeer, NoPeer, ReadUnchanged, PeerUnchanged, wsVars
  <1>6. CASE ReaderReads \/ Callbacks
    BY <1>1, <1>2, <1>6 DEF ReaderReads, Callbacks, WriteCandidate, CandidateWritten
  <1>7. CASE \/ \E t \in Tracks : Arrives(t) \/ Tracked(t) \/ Panics(t)
             \/ (\E n \in Events : Handles(n)) \/ Fails
    BY <1>1, <1>7 DEF Arrives, Tracked, Panics, Handles, Fails, wsVars
  <1>. QED
    BY <1>3, <1>4, <1>5, <1>6, <1>7 DEF Next

(* A goroutine of the request that has not created the peer connection yet *)
(* runs beside nothing that could, and one that has returned from          *)
(* ServeWebSocket has closed it: no change of state comes after the close. *)
Behind == transport = "ws" /\ hpc = "returned" => conn \in {"none", "closed"}

\* No step opens a peer connection for a request that has returned, or one for a second time.
LEMMA StepBehind == NoPeerYet /\ Behind /\ Next => NoPeerYet' /\ Behind'
  <1>. SUFFICES ASSUME NoPeerYet, Behind, Next
                PROVE  NoPeerYet' /\ Behind'
    OBVIOUS
  <1>1. CASE UNCHANGED <<transport, hpc, conn>>
    BY <1>1 DEF NoPeerYet, Behind
  <1>2. CASE UNCHANGED <<transport, hpc>> /\ \E g : PeerClose(g)
    BY <1>2, PeerCloses DEF NoPeerYet, Behind
  <1>3. CASE Send \/ Breaks
    BY <1>1, <1>3 DEF Send, Breaks, ClientUnchanged, mediaVars, peerVars
  <1>4. CASE PeerChanges
    BY <1>4, NoChangeWhenDown DEF PeerChanges, StateChanges, NoPeerYet, Behind
  <1>5. CASE Request
    <2>1. CASE ReadAuth \/ ReadOffer \/ ReceiveCall
      <3>1. conn = "none"
        BY <2>1 DEF ReadAuth, ReadOffer, ReceiveCall, Goto, NoPeerYet
      <3>2. conn' = conn
        BY <2>1 DEF ReadAuth, ReadOffer, ReceiveCall, ReadUnchanged, mediaVars, peerVars
      <3>. QED
        BY <3>1, <3>2 DEF NoPeerYet, Behind
    <2>2. CASE CreateForRequest \/ CreateForSocket
      <3>1. conn = "none"
        BY <2>2 DEF CreateForRequest, CreateForSocket, NoPeer, NewPeer, Goto, NoPeerYet
      <3>2. (hpc' = "returned" /\ conn' = conn) \/ hpc' = "remote"
        BY <2>2 DEF CreateForRequest, CreateForSocket, NoPeer, NewPeer, Goto, mediaVars, peerVars
      <3>. QED
        BY <3>1, <3>2 DEF NoPeerYet, Behind
    <2>3. CASE SetRemoteDescription \/ SetLocalDescription
               \/ WriteAnswer \/ AnswerWritten \/ Poll \/ AttachMediaHandlers
      <3>1. hpc' \in {"local", "answer", "answering", "failing", "attach", "cleanup", "poll"}
        BY <2>3 DEF SetRemoteDescription, SetLocalDescription, WriteAnswer, AnswerWritten, Poll,
                    AttachMediaHandlers, Goto
      <3>. QED
        BY <3>1 DEF NoPeerYet, Behind
    <2>4. CASE ReturnAnswer
      BY <2>4 DEF ReturnAnswer, Goto, PeerUnchanged, mediaVars, NoPeerYet, Behind
    <2>5. CASE Cleanup
      <3>1. hpc' = "returned" /\ PeerClose(gor)
        BY <2>5 DEF Cleanup, Deferred, Goto
      <3>. QED
        BY <3>1, PeerCloses DEF NoPeerYet, Behind
    <2>. QED
      BY <1>5, <2>1, <2>2, <2>3, <2>4, <2>5 DEF Request
  <1>6. CASE ReaderReads \/ Callbacks
    BY <1>1, <1>2, <1>6
    DEF ReaderReads, ByeCloses, Callbacks, WriteCandidate, CandidateWritten, mediaVars, peerVars
  <1>7. ASSUME NEW t \in Tracks, Arrives(t) \/ Tracked(t) \/ Panics(t)
        PROVE  UNCHANGED <<transport, hpc, conn>>
    BY <1>7
    DEF Arrives, Tracked, Panics, TrackArrives, OnTrack, NewPacer, ConnectService, NewDecoder,
        StartSession, Register, OnTrackUnchanged, LoopsEnd, MicPanics, peerVars
  <1>8. ASSUME NEW n \in Events, Handles(n)
        PROVE  UNCHANGED <<transport, hpc>> /\ ((\E g : PeerClose(g)) \/ UNCHANGED conn)
    BY <1>8 DEF Handles, StateHandler, CallHandler, SessionHandler, HandlerUnchanged, PacerUnchanged
  <1>9. CASE Fails
    BY <1>1, <1>9 DEF Fails, ServicePanics, peerVars
  <1>. QED
    BY <1>1, <1>2, <1>3, <1>4, <1>5, <1>6, <1>7, <1>8, <1>9 DEF Next

(* What holds in every state of a call: the types, how far the request is  *)
(* with respect to its peer connection, and who holds s.mu.                *)
CallInv == /\ PeerType /\ TrackType /\ ServiceType /\ RequestType /\ InboxType
           /\ NoPeerYet /\ Behind /\ Fresh /\ Held

\* Every reachable state of a call is well typed, and its request in step with the connection.
LEMMA CallInvariant == Spec => []CallInv
  <1>1. Init => CallInv
    <2>1. Init => NoPeerYet /\ Behind /\ Fresh /\ Held
      BY DEF Init, MediaInit, Idle, NoPeerYet, Behind, Fresh, Held, Holds
    <2>. QED
      BY <2>1, InitTyped DEF CallInv
  <1>2. CallInv /\ [Next]_vars => CallInv'
    <2>1. CASE Next
      BY <2>1, StepPeerType, StepTrackType, StepServiceType, StepRequestType, StepInboxType,
         StepBehind, StepHeld DEF CallInv
    <2>2. CASE UNCHANGED vars
      <3>. SUFFICES ASSUME CallInv
                    PROVE  CallInv'
        BY <2>2
      <3>1. PeerType' /\ TrackType'
        BY <2>2 DEF vars, mediaVars, peerVars, regVars, trackVars, CallInv, PeerType, TrackType
      <3>2. ServiceType'
        BY <2>2 DEF vars, mediaVars, serviceVars, CallInv, ServiceType
      <3>3. RequestType' /\ InboxType'
        BY <2>2 DEF vars, wsVars, iceVars, CallInv, RequestType, InboxType
      <3>4. NoPeerYet' /\ Behind'
        BY <2>2 DEF vars, mediaVars, peerVars, CallInv, NoPeerYet, Behind
      <3>5. Fresh' /\ Held'
        BY <2>2 DEF vars, mediaVars, peerVars, serviceVars, CallInv, Fresh, Held, Holds
      <3>. QED
        BY <3>1, <3>2, <3>3, <3>4, <3>5 DEF CallInv
    <2>. QED
      BY <2>1, <2>2
  <1>. QED
    BY <1>1, <1>2, PTL DEF Spec

(* Types; above all, however many teardowns run at once, the connection    *)
(* changes its state at most once more than MaxChanges, when it closes,    *)
(* and the service is connected after its Close only if it was reopened    *)
(* (assemblyai.go:84-86, 189-208).                                         *)
THEOREM TypeCorrect == Spec => []TypeOK
  <1>1. CallInv => TypeOK
    BY TypeByParts DEF CallInv
  <1>. QED
    BY <1>1, CallInvariant, PTL

(* For any number of tracks and of state handlers: stopCh is closed twice, *)
(* or audio sent on the closed channel, only if a Connect reopened the     *)
(* service (assemblyai.go:84, 195, 208).  It needs more than `connected':  *)
(* a second Close that comes between the first one's close(stopCh) and its *)
(* reset of connected waits for s.mu.  The other panics of a Close, of the *)
(* silence callback and of the sender, are not excluded.                   *)
THEOREM SecondCloseNeedsReopening == Spec => []ReuseNeedsReopening
  <1>1. Init => ReuseNeedsReopening
    BY DEF Init, MediaInit, ReuseNeedsReopening
  <1>2. CallInv /\ ReuseNeedsReopening /\ [Next]_vars => ReuseNeedsReopening'
    <2>. SUFFICES ASSUME CallInv, ReuseNeedsReopening, [Next]_vars
                  PROVE  ReuseNeedsReopening'
      OBVIOUS
    <2>0. ServiceType /\ Held
      BY DEF CallInv
    <2>1. CASE UNCHANGED vars
      BY <2>1 DEF vars, mediaVars, serviceVars, ReuseNeedsReopening
    <2>2. CASE Quiet \/ OtherPanic
      BY <2>2 DEF Quiet, OtherPanic, serviceVars, ReuseNeedsReopening
    <2>3. CASE Connects
      BY <2>3 DEF Connects, Connected, ReuseNeedsReopening
    <2>4. CASE MicPanic
      BY <2>0, <2>4 DEF MicPanic, serviceVars, ServiceType, ReuseNeedsReopening
    <2>5. CASE CloseBegins
      <3>1. panic' = "reuse" => open /\ closed
        BY <2>0, <2>5 DEF CloseBegins, MuFree, Held, Holds
      <3>2. reopened' = reopened
        BY <2>5 DEF CloseBegins
      <3>. QED
        BY <2>0, <3>1, <3>2 DEF ServiceType, ReuseNeedsReopening
    <2>6. CASE CloseEnds
      BY <2>6 DEF CloseEnds, ReuseNeedsReopening
    <2>. QED
      BY <2>1, <2>2, <2>3, <2>4, <2>5, <2>6, ServiceSteps DEF CloseStep
  <1>. QED
    BY <1>1, <1>2, CallInvariant, PTL DEF Spec

(* On whichever path ServeWebSocket returns, its peer connection was never *)
(* created or is closed, and stays so, whatever its handlers still do      *)
(* (ws_signaling.go:100).                                                  *)
THEOREM SocketLeavesNothing == Spec => []ReturnsClosed
  <1>1. CallInv => ReturnsClosed
    BY DEF CallInv, Behind, ReturnsClosed
  <1>. QED
    BY <1>1, CallInvariant, PTL
============================================================================
