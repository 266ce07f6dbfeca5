----------------------------- MODULE Signaling -----------------------------
(***************************************************************************)
(* How a call begins and ends: HandleOffer, which answers one HTTP request *)
(* and leaves the call to its handlers, and ServeWebSocket, which reads    *)
(* frames, answers the offer and stays until the connection is down.  Over *)
(* the WebSocket a second goroutine reads candidates and bye while the     *)
(* first negotiates, and the peer connection's candidate callback writes   *)
(* to the same socket.                                                     *)
(***************************************************************************)
EXTENDS CallMedia, Sequences, SequencesExt

CONSTANTS MaxMessages,   \* bound: frames the client sends after its offer
          InboxCap,      \* bound: frames that wait to be read
          WsTracks,      \* bound: the tracks of a call over the WebSocket
          MaxCandidates  \* bound: calls of OnICECandidate, the last one for "complete"

ASSUME SignalingAssumption == /\ MaxMessages \in Nat /\ MaxCandidates \in Nat
                              /\ InboxCap \in Nat /\ WsTracks \subseteq Tracks

VARIABLES
  hpc,          \* the goroutine of the request
  inbox, sent, broken,   \* frames on their way, how many count, the socket is gone
  reader,       \* the goroutine that reads candidates and bye
  answered,     \* the answer is on its way to the client
  writing,      \* goroutines inside a WriteJSON
  gathering     \* calls of OnICECandidate still to come

wsVars  == <<inbox, sent, broken, reader, writing>>
iceVars == <<answered, gathering>>
vars == <<mediaVars, hpc, wsVars, iceVars>>

Messages == {"auth", "offer", "candidate", "bye"}

\* Slips the code could have; each replaces a definition below in a mutant run.
OnlyClosedIsDown == {"closed"}
KeepsPeer        == gor' = gor /\ UNCHANGED <<conn, changes>>

PolledDown == Down
ByeCloses  == PeerClose(gor)
Deferred   == PeerClose(gor)

\* checkAuthHeaderOrQuery finds the password, or none is needed; else an auth frame is.
Begins == IF transport = "http" THEN {"call"} ELSE {"auth", "offer"}

Init ==
  /\ MediaInit
  /\ hpc \in Begins
  /\ inbox = <<>> /\ sent = 0 /\ broken = FALSE /\ reader = "none"
  /\ answered = FALSE /\ writing = {} /\ gathering = 0

Goto(f, t) == hpc = f /\ hpc' = t

----------------------------------------------------------------------------
(* The client. *)
ClientUnchanged == UNCHANGED <<mediaVars, hpc, reader, writing, iceVars>>

Send ==
  /\ transport = "ws" /\ ~broken /\ Len(inbox) < InboxCap
  /\ hpc # "returned" /\ reader # "done" /\ sent < MaxMessages
  /\ \E m \in Messages : inbox' = Append(inbox, m)
  /\ sent' = IF hpc \in {"auth", "offer"} THEN sent ELSE sent + 1
  /\ ClientUnchanged /\ UNCHANGED broken

Breaks ==
  /\ transport = "ws" /\ hpc # "returned" /\ ~broken /\ broken' = TRUE
  /\ ClientUnchanged /\ UNCHANGED <<inbox, sent>>

----------------------------------------------------------------------------
(* The goroutine of the request, up to the peer connection. *)
ReadUnchanged ==
  UNCHANGED <<mediaVars, sent, broken, writing, iceVars>>

\* A password is set and neither header nor query carries it.
ReadAuth ==
  /\ hpc = "auth"
  /\ \/ inbox = <<>> /\ broken /\ hpc' = "returned" /\ UNCHANGED inbox
     \/ inbox # <<>> /\ inbox' = Tail(inbox)
        /\ hpc' = IF Head(inbox) = "auth" THEN "offer" ELSE "returned"
  /\ ReadUnchanged /\ UNCHANGED reader

ReadOffer ==
  /\ hpc = "offer" /\ transport = "ws"
  /\ \/ inbox = <<>> /\ broken /\ hpc' = "returned" /\ UNCHANGED inbox
     \/ inbox # <<>> /\ inbox' = Tail(inbox)
        /\ hpc' = CASE Head(inbox) = "offer" -> "create"
                    [] Head(inbox) = "bye"   -> "returned"
                    [] OTHER                 -> "offer"
  /\ ReadUnchanged /\ UNCHANGED reader

NewPeer(from) ==
  /\ hpc = from /\ hpc' = "remote" /\ conn' = "new"
  /\ UNCHANGED <<transport, changes, gor, trackVars, serviceVars, panic, inbox, sent,
                 broken, writing, iceVars>>

NoPeer(from) == Goto(from, "returned") /\ UNCHANGED <<mediaVars, wsVars, iceVars>>

\* The handler of /call: the method, the password and the body.
ReceiveCall ==
  /\ Goto("call", "offer") \/ Goto("call", "returned")
  /\ UNCHANGED <<mediaVars, wsVars, iceVars>>

\* HandleOffer registers its handlers at once ...
CreateForRequest ==
  /\ transport = "http"
  /\ \/ NoPeer("offer")
     \/ NewPeer("offer") /\ handler' = Call /\ attached' = TRUE /\ UNCHANGED reader

\* ... ServeWebSocket only after the answer; the reader of the socket starts now.
CreateForSocket ==
  \/ NoPeer("create")
  \/ NewPeer("create") /\ reader' = "reading" /\ UNCHANGED regVars

----------------------------------------------------------------------------
(* ... and with it.  Every failure leads to the deferred cleanup.  The frame *)
(* that reports it is left out while the gathering has not begun: nothing  *)
(* else is writing then.                                                   *)
PeerUnchanged == UNCHANGED <<mediaVars, inbox, sent, broken, reader>>

SetRemoteDescription ==
  /\ \/ Goto("remote", "cleanup")
     \/ conn # "closed" /\ Goto("remote", "local")
  /\ PeerUnchanged /\ UNCHANGED <<writing, iceVars>>

\* CreateAnswer and SetLocalDescription, with which the gathering begins.
SetLocalDescription ==
  /\ \/ Goto("local", "cleanup") /\ UNCHANGED gathering
     \/ conn # "closed" /\ Goto("local", "answer") /\ gathering' = MaxCandidates
  /\ PeerUnchanged /\ UNCHANGED <<writing, answered>>

\* HandleOffer waits until it is complete and returns the answer.
ReturnAnswer ==
  /\ transport = "http" /\ Goto("answer", "returned")
  /\ answered' = TRUE /\ gathering' = 0
  /\ PeerUnchanged /\ UNCHANGED writing

BeginWrite(w) == writing' = writing \cup {w}
EndWrite(w)   == w \in writing /\ writing' = writing \ {w}
Overlapped    == Cardinality(writing) > 1

\* The answer, or the report that there is no local description.
WriteAnswer ==
  /\ transport = "ws" /\ BeginWrite("request")
  /\ \/ Goto("answer", "answering") /\ answered' = TRUE
     \/ Goto("answer", "failing") /\ UNCHANGED answered
  /\ PeerUnchanged /\ UNCHANGED gathering

\* The server recovers a panic of two writers here; the deferred calls run all the same.
AnswerWritten ==
  /\ EndWrite("request")
  /\ \/ ~broken /\ Goto("answering", "attach")
     \/ (broken \/ Overlapped) /\ Goto("answering", "cleanup")
     \/ Goto("failing", "cleanup")
  /\ PeerUnchanged /\ UNCHANGED iceVars

AttachMediaHandlers ==
  /\ Goto("attach", "poll")
  /\ handler' = Call /\ attached' = TRUE
  /\ UNCHANGED <<transport, peerVars, trackVars, serviceVars, panic, wsVars, iceVars>>

\* Every two seconds.
Poll ==
  /\ conn \in PolledDown /\ Goto("poll", "cleanup")
  /\ PeerUnchanged /\ UNCHANGED <<writing, iceVars>>

\* The deferred cleanup() and conn.Close(); HandleOffer closes the peer connection itself.
Cleanup ==
  /\ Goto("cleanup", "returned") /\ Deferred
  /\ broken' = (broken \/ transport = "ws")
  /\ UNCHANGED <<transport, regVars, trackVars, serviceVars, panic, inbox, sent,
                 reader, writing, iceVars>>

Request == \/ ReadAuth \/ ReadOffer \/ ReceiveCall \/ CreateForRequest \/ CreateForSocket
           \/ SetRemoteDescription \/ SetLocalDescription \/ ReturnAnswer
           \/ WriteAnswer \/ AnswerWritten \/ AttachMediaHandlers \/ Poll \/ Cleanup

----------------------------------------------------------------------------
(* The goroutine that reads candidates and bye.  AddICECandidate changes   *)
(* nothing here, its error is ignored.                                     *)
ReaderReads ==
  /\ reader = "reading"
  /\ \/ inbox = <<>> /\ broken /\ reader' = "done" /\ UNCHANGED <<inbox, peerVars>>
     \/ /\ inbox # <<>> /\ inbox' = Tail(inbox)
        /\ IF Head(inbox) = "bye" THEN reader' = "done" /\ ByeCloses
                                  ELSE UNCHANGED <<reader, peerVars>>
  /\ UNCHANGED <<transport, regVars, trackVars, serviceVars, panic, hpc, sent, broken,
                 writing, iceVars>>

\* OnICECandidate, one call at a time; nothing recovers a panic of its goroutine.
WriteCandidate ==
  /\ transport = "ws" /\ gathering > 0 /\ "ice" \notin writing
  /\ BeginWrite("ice") /\ gathering' = gathering - 1
  /\ UNCHANGED <<mediaVars, hpc, inbox, sent, broken, reader, answered>>

CandidateWritten ==
  /\ \/ EndWrite("ice") /\ UNCHANGED panic
     \/ Overlapped /\ "ice" \in writing /\ panic' = "socket" /\ UNCHANGED writing
  /\ UNCHANGED <<transport, peerVars, regVars, trackVars, serviceVars, hpc, inbox, sent,
                 broken, reader, iceVars>>

Callbacks == WriteCandidate \/ CandidateWritten

----------------------------------------------------------------------------
(* The call. *)

\* Only a client that was sent the answer can connect, or fail to.
PeerChanges == (conn = "new" => answered) /\ StateChanges /\ UNCHANGED <<hpc, wsVars, iceVars>>

Tracked(t)  == /\ OnTrack(t) \/ LoopsEnd(t)
               /\ UNCHANGED <<hpc, wsVars, iceVars>>
Arrives(t)  == /\ transport = "ws" => t \in WsTracks
               /\ TrackArrives(t) /\ UNCHANGED <<hpc, wsVars, iceVars>>
Panics(t)   == MicPanics(t) /\ UNCHANGED <<hpc, wsVars, iceVars>>
Handles(n)  == StateHandler(n) /\ UNCHANGED <<hpc, wsVars, iceVars>>
Fails       == ServicePanics /\ UNCHANGED <<hpc, wsVars, iceVars>>

Next == /\ ~crashed
        /\ \/ Send \/ Breaks \/ PeerChanges
           \/ Request \/ ReaderReads \/ Callbacks
           \/ \E t \in Tracks : Arrives(t) \/ Tracked(t) \/ Panics(t)
           \/ \E n \in Events : Handles(n)
           \/ Fails

\* Goroutines run and timers fire; a Close may stall, and nothing is promised of the client or its connection.
Fairness ==
  /\ WF_vars(~crashed /\ Request) /\ WF_vars(~crashed /\ ReaderReads)
  /\ WF_vars(~crashed /\ Callbacks)
  /\ \A t \in Tracks : WF_vars(~crashed /\ Tracked(t))
  /\ \A n \in Events : WF_vars(~crashed /\ Handles(n))

Spec == Init /\ [][Next]_vars /\ Fairness

----------------------------------------------------------------------------
(* Types. *)
TypeOK ==
  /\ MediaTypeOK
  /\ hpc \in {"auth", "call", "offer", "create", "remote", "local", "answer", "answering",
              "failing", "attach", "poll", "cleanup", "returned"}
  /\ {broken, answered} \subseteq BOOLEAN
  /\ inbox \in Seq(Messages) /\ Len(inbox) <= InboxCap /\ sent \in 0..MaxMessages
  /\ reader \in {"none", "reading", "done"} /\ writing \subseteq {"request", "ice"}
  /\ gathering \in 0..MaxCandidates

(* Disconnected, Failed and Closed each start a teardown, of one kind or   *)
(* the other, beside OnTrack, the mic reader and a bye: none closes stopCh *)
(* a second time or sends audio to the closed channel (assemblyai.go:132,  *)
(* 195, 208) unless a Connect reopened a service that had been closed      *)
(* (handler.go:263, session.go:105).  The panics a first Close may cause   *)
(* are no part of it.                                                      *)
ReuseNeedsReopening == panic = "reuse" => reopened

(* ServeWebSocket never leaves a peer connection behind, on whichever of   *)
(* its returns (ws_signaling.go:100).                                      *)
ReturnsClosed == transport = "ws" /\ hpc = "returned" => conn \in {"none", "closed"}

Stalled == \E n \in Events : gor[n].pc = "stalled"

(* A session whose state handler runs is taken down completely: its loops  *)
(* return and its pacer stops (handler.go:278-287), however many handlers  *)
(* run at once.  Only the pacer outlives a Terminate write that never      *)
(* returns (assemblyai.go:202), and it does whoever made that write.       *)
TeardownCompletes ==
  \A t \in Tracks : (\E n \in Events : gor[n].who = t)
    ~> (crashed \/ (sess[t] # "running" /\ (paced[t] = "closed" \/ Stalled)))

(* Whoever closes the service ends every session of the call, also one     *)
(* whose own handler was replaced and never runs (session.go:115, 134).    *)
CloseEndsSessions == closed ~> (crashed \/ \A t \in Tracks : sess[t] # "running")

(* A bye ends the call wherever the handshake stands: it is read by the    *)
(* request or by the reader, and the request returns (ws_signaling.go:90,  *)
(* 131, 166).                                                              *)
ByeEndsCall ==
  ("bye" \in ToSet(inbox)) ~> (crashed \/ (hpc = "returned" /\ conn \in {"none", "closed"}))

(* A connection that failed is closed: over the WebSocket by the poll,     *)
(* whichever handler is registered; over HTTP only while the first one is, *)
(* and if the Terminate write before it returns (handler.go:102-103).      *)
FailureCloses ==
  (conn = "failed" /\ (transport = "ws" \/ \E n \in Events : gor[n].who = Call))
    ~> (crashed \/ conn = "closed" \/ (transport = "http" /\ Stalled))
=============================================================================
