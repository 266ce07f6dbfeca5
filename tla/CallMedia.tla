----------------------------- MODULE CallMedia -----------------------------
(***************************************************************************)
(* One call of internal/rtc once its peer connection exists: OnTrack sets  *)
(* up a writer, the transcription service and a session, connection-state  *)
(* handlers take them down.  The peer connection is external (pion): it    *)
(* runs each OnTrack handler, and the handler of each change of its state  *)
(* that is registered then, in goroutines of their own.  OnTrack registers *)
(* a second state handler, which replaces the first.                       *)
(*                                                                         *)
(* handler.go and ws_signaling.go hold the same code twice; where they     *)
(* differ, transport tells which one it is.                                *)
(***************************************************************************)
EXTENDS Naturals, FiniteSets

CONSTANTS Tracks,      \* audio tracks the caller may send
          Call,        \* the state handler of the call
          Nobody,      \* no handler is registered
          MaxChanges   \* bound: changes of the connection's state before it closes

ASSUME CallAssumption ==
  /\ Call \notin Tracks /\ Nobody \notin Tracks \cup {Call} /\ MaxChanges \in Nat

VARIABLES
  transport,           \* "http" (HandleOffer) or "ws" (ServeWebSocket)
  (* the peer connection *)
  conn, changes, handler, attached,
  gor,                 \* the goroutine of each change: the handler it runs and its place
  (* the goroutine of OnTrack and what it made, by track *)
  tpc, paced, mic, sess, cancelled, hasStop,
  (* the transcription service of the call *)
  open,                \* connected
  stopped, closed,     \* its stopCh is closed; its channels are
  reopened,            \* history: Connect succeeded after Close
  panic                \* what ended the process, if anything did

peerVars    == <<conn, changes, gor>>
regVars     == <<handler, attached>>
trackVars   == <<tpc, paced, mic, sess, cancelled, hasStop>>
serviceVars == <<open, stopped, closed, reopened>>
mediaVars   == <<transport, peerVars, regVars, trackVars, serviceVars, panic>>

crashed == panic # "none"

Down     == {"disconnected", "failed", "closed"}
Events   == 1..(MaxChanges + 1)
Idle     == [who |-> Nobody, pc |-> "done"]

\* Slips the code could have; each replaces a definition below in a mutant run.
NoMutex              == TRUE
StaysConnected       == UNCHANGED open
NeverCloses(t)       == paced' = paced
LoopsOutlive(t)      == cancelled[t]

\* s.mu, which Close holds while it writes Terminate: an answer that never comes keeps it.
MuFree               == \A n \in Events : gor[n].pc \notin {"closing", "stalled"}
Disconnects          == open' = FALSE
ClosesPacer(t)       == paced' = [paced EXCEPT ![t] = "closed"]
LoopsSeeEnd(t)       == cancelled[t] \/ closed

MediaInit ==
  /\ transport \in {"http", "ws"}
  /\ conn = "none" /\ changes = 0 /\ handler = Nobody /\ attached = FALSE
  /\ gor = [n \in Events |-> Idle]
  /\ tpc = [t \in Tracks |-> "none"] /\ paced = [t \in Tracks |-> "none"]
  /\ mic = [t \in Tracks |-> FALSE] /\ sess = [t \in Tracks |-> "none"]
  /\ cancelled = [t \in Tracks |-> FALSE] /\ hasStop = [t \in Tracks |-> FALSE]
  /\ open = FALSE /\ stopped = FALSE /\ closed = FALSE /\ reopened = FALSE /\ panic = "none"

----------------------------------------------------------------------------
(* The peer connection. *)

\* go handler(state): only these states make the handlers do anything.
Spawn(g, state) ==
  IF state \in Down /\ handler # Nobody
  THEN [g EXCEPT ![changes + 1] =
          [who |-> handler, pc |-> IF handler = Call THEN "service" ELSE "cancel"]]
  ELSE g

\* peerConnection.Close() by a goroutine that leaves g behind; a second one does nothing.
PeerClose(g) ==
  IF conn \in {"none", "closed"} THEN gor' = g /\ UNCHANGED <<conn, changes>>
  ELSE conn' = "closed" /\ changes' = changes + 1 /\ gor' = Spawn(g, "closed")

NextStates ==
  CASE conn = "new"          -> {"connected", "failed"}
    [] conn = "connected"    -> {"disconnected", "failed"}
    [] conn = "disconnected" -> {"connected", "failed"}
    [] OTHER                 -> {}

StateChanges ==
  /\ changes < MaxChanges
  /\ \E state \in NextStates : conn' = state /\ gor' = Spawn(gor, state)
  /\ changes' = changes + 1
  /\ UNCHANGED <<transport, regVars, trackVars, serviceVars, panic>>

\* A track that comes before the handlers are attached is dropped.
TrackArrives(t) ==
  /\ conn = "connected" /\ tpc[t] = "none"
  /\ tpc' = [tpc EXCEPT ![t] = IF attached THEN "pacer" ELSE "missed"]
  /\ UNCHANGED <<transport, peerVars, regVars, paced, mic, sess, cancelled, hasStop, serviceVars,
                 panic>>

----------------------------------------------------------------------------
(* Connect and Close of the service, each under s.mu; a reconnect finds    *)
(* stopCh and the channels of the first connection closed.                 *)

Connected  == MuFree /\ open' = TRUE /\ reopened' = (reopened \/ (closed /\ ~open))
              /\ UNCHANGED <<stopped, closed>>
ConnectFails == MuFree /\ ~open /\ UNCHANGED serviceVars

MoveTo(n, to) == gor' = [gor EXCEPT ![n].pc = to]

\* close(stopCh), by the goroutine of a handler that goes on to "to".
BeginClose(n, to) ==
  /\ MuFree
  /\ \/ /\ open /\ MoveTo(n, "closing")
        /\ stopped' = TRUE /\ panic' = IF stopped THEN "reuse" ELSE "none"
        /\ UNCHANGED <<open, closed, reopened>>
     \/ ~open /\ MoveTo(n, to) /\ UNCHANGED <<serviceVars, panic>>

\* The write of Terminate has no deadline: it returns, and the rest follows, or it never does.
FinishClose(n, to) ==
  /\ gor[n].pc = "closing" /\ UNCHANGED panic
  /\ \/ MoveTo(n, to) /\ Disconnects /\ closed' = TRUE /\ UNCHANGED <<stopped, reopened>>
     \/ MoveTo(n, "stalled") /\ UNCHANGED serviceVars

\* What the service's own goroutines may do once a Close has begun: the silence callback finds no
\* timer or a closed channel, Terminate meets the sender's write (AssemblyAIService, AudioUplink).
ServicePanics ==
  /\ stopped /\ panic' = "service"
  /\ UNCHANGED <<transport, peerVars, regVars, trackVars, serviceVars>>

----------------------------------------------------------------------------
(* OnTrack *)
At(t, from)       == tpc[t] = from
GoOn(t, to)       == tpc' = [tpc EXCEPT ![t] = to]
OnTrackUnchanged  == UNCHANGED <<transport, peerVars, cancelled, panic>>

NewPacer(t) ==
  /\ At(t, "pacer") /\ OnTrackUnchanged
  /\ \/ GoOn(t, "returned") /\ UNCHANGED paced
     \/ GoOn(t, "connect") /\ paced' = [paced EXCEPT ![t] = "open"]
  /\ UNCHANGED <<regVars, mic, sess, hasStop, serviceVars>>

ConnectService(t) ==
  /\ At(t, "connect") /\ OnTrackUnchanged
  /\ \/ GoOn(t, "decoder") /\ Connected
     \/ GoOn(t, "returned") /\ ConnectFails
  /\ UNCHANGED <<regVars, paced, mic, sess, hasStop>>

\* Over HTTP the mic reader starts here, over the WebSocket at the end.
NewDecoder(t) ==
  /\ At(t, "decoder") /\ OnTrackUnchanged
  /\ \/ GoOn(t, "returned") /\ UNCHANGED mic
     \/ GoOn(t, "start") /\ mic' = [mic EXCEPT ![t] = (transport = "http")]
  /\ UNCHANGED <<regVars, paced, sess, hasStop, serviceVars>>

\* Session.Start connects once more; without a connection there is neither loop nor stop.
StartSession(t) ==
  /\ At(t, "start") /\ GoOn(t, "register") /\ OnTrackUnchanged
  /\ \/ /\ Connected
        /\ sess' = [sess EXCEPT ![t] = "running"] /\ hasStop' = [hasStop EXCEPT ![t] = TRUE]
     \/ ConnectFails /\ UNCHANGED <<sess, hasStop>>
  /\ UNCHANGED <<regVars, paced, mic>>

Register(t) ==
  /\ At(t, "register") /\ GoOn(t, "returned") /\ OnTrackUnchanged
  /\ handler' = t
  /\ mic' = [mic EXCEPT ![t] = TRUE]
  /\ UNCHANGED <<attached, paced, sess, hasStop, serviceVars>>

OnTrack(t) ==
  NewPacer(t) \/ ConnectService(t) \/ NewDecoder(t) \/ StartSession(t) \/ Register(t)

----------------------------------------------------------------------------
(* The goroutines of a track: the mic reader and the session's loops. *)

\* SendAudio on a service that was reopened: its audioData is closed.  The reader may still be
\* at it when the connection is closed already.
MicPanics(t) ==
  /\ mic[t] /\ MuFree /\ open /\ closed
  /\ panic' = "reuse"
  /\ UNCHANGED <<transport, peerVars, regVars, trackVars, serviceVars>>

\* Both loops return when the context is cancelled or the service's channels are closed.
LoopsEnd(t) ==
  /\ sess[t] = "running" /\ LoopsSeeEnd(t)
  /\ sess' = [sess EXCEPT ![t] = "ended"]
  /\ UNCHANGED <<transport, peerVars, regVars, tpc, paced, mic, cancelled, hasStop, serviceVars,
                 panic>>

----------------------------------------------------------------------------
(* The connection-state handlers. *)
Step(n, from, to) == gor[n].pc = from /\ MoveTo(n, to)
HandlerUnchanged  == UNCHANGED <<transport, regVars, tpc, mic, sess, hasStop>>
PacerUnchanged    == UNCHANGED <<conn, changes, paced, cancelled>>

\* The first one, Call: transcriptionService.Close(), peerConnection.Close().
CallHandler(n) ==
  \/ /\ (gor[n].pc = "service" /\ BeginClose(n, "peer")) \/ FinishClose(n, "peer")
     /\ HandlerUnchanged /\ PacerUnchanged
  \/ /\ gor[n].pc = "peer" /\ PeerClose([gor EXCEPT ![n].pc = "done"])
     /\ HandlerUnchanged /\ UNCHANGED <<serviceVars, panic, paced, cancelled>>

\* The one OnTrack registers: cancelSess(), stop(), and 400 ms later paced.Close().
SessionHandler(n) == LET t == gor[n].who IN
  \/ /\ Step(n, "cancel", "stop") /\ cancelled' = [cancelled EXCEPT ![t] = TRUE]
     /\ HandlerUnchanged /\ UNCHANGED <<conn, changes, paced, serviceVars, panic>>
  \/ /\ \/ gor[n].pc = "stop" /\ hasStop[t] /\ BeginClose(n, "timer")
        \/ FinishClose(n, "timer")
        \/ Step(n, "stop", "timer") /\ ~hasStop[t] /\ UNCHANGED <<serviceVars, panic>>
     /\ HandlerUnchanged /\ PacerUnchanged
  \/ /\ Step(n, "timer", "done") /\ ClosesPacer(t)
     /\ HandlerUnchanged /\ UNCHANGED <<conn, changes, cancelled, serviceVars, panic>>

StateHandler(n) == IF gor[n].who = Call THEN CallHandler(n) ELSE SessionHandler(n)

----------------------------------------------------------------------------
(* Types; a service that was closed is connected only if it was reopened.  *)
MediaTypeOK ==
  /\ transport \in {"http", "ws"} /\ changes \in 0..(MaxChanges + 1)
  /\ conn \in {"none", "new", "connected"} \cup Down
  /\ handler \in Tracks \cup {Call, Nobody} /\ attached \in BOOLEAN
  /\ gor \in [Events -> [who : Tracks \cup {Call, Nobody},
                         pc : {"done", "service", "peer", "cancel", "stop", "timer",
                               "closing", "stalled"}]]
  /\ tpc \in [Tracks -> {"none", "missed", "pacer", "connect", "decoder", "start", "register",
                         "returned"}]
  /\ paced \in [Tracks -> {"none", "open", "closed"}]
  /\ mic \in [Tracks -> BOOLEAN]
  /\ sess \in [Tracks -> {"none", "running", "ended"}]
  /\ cancelled \in [Tracks -> BOOLEAN] /\ hasStop \in [Tracks -> BOOLEAN]
  /\ {open, stopped, closed, reopened} \subseteq BOOLEAN
  /\ panic \in {"none", "reuse", "service", "socket"}
  /\ open /\ closed => reopened
  /\ closed => stopped
=============================================================================
