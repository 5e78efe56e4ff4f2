---------------------------- MODULE WebSocketBridge ----------------------------
(***************************************************************************)
(* What the server and the application of a websocket session are to each  *)
(* other: the two callables receive() and send() of ASGI, as protocol.py   *)
(* makes them (_make_ws_receive, _make_ws_send) and as the WebSocket       *)
(* object of websockets.py calls them.                                     *)
(*                                                                         *)
(* It is the contract between WebSocketProtocol, which has the server in   *)
(* full and any application, and WebSocketHandler, which has the           *)
(* application in full and any server.                                     *)
(***************************************************************************)
EXTENDS Sequences

CONSTANT Data  \* the kinds of message that the peer sends

VARIABLES
    state,  \* of the session: "CONNECTING", "CONNECTED" or "CLOSED"
    queue,  \* messages for the application
    known,  \* the end of the session is known
    lost,   \* the connection is gone
    call    \* what the application waits for, "none" if it runs

bvars == <<state, queue, known, lost, call>>

Init ==
    /\ state = "CONNECTING" /\ queue = <<"connect">>
    /\ known = FALSE /\ lost = FALSE /\ call = "none"

-----------------------------------------------------------------------------
(* What the server does of itself. *)

\* The end is told once, by a message that wakes whoever waits.
EndKnown ==
    /\ known' = TRUE
    /\ queue' = IF known THEN queue ELSE Append(queue, "disconnect")

Ends == state' = "CLOSED" /\ EndKnown

\* A message of the peer.  It may come before the accept and behind the
\* disconnect (see the divergences), but not on a closed session.
PeerSends ==
    /\ state # "CLOSED"
    /\ \E m \in Data : queue' = Append(queue, m)
    /\ UNCHANGED <<state, known, lost, call>>

\* The session ends: the peer, the codec, the keepalive or the server ends it.
SessionEnds ==
    /\ state # "CLOSED"
    /\ Ends
    /\ UNCHANGED <<lost, call>>

ConnectionLost ==
    /\ ~lost /\ lost' = TRUE
    /\ EndKnown
    /\ UNCHANGED <<state, call>>

ServerStep == PeerSends \/ SessionEnds \/ ConnectionLost

-----------------------------------------------------------------------------
(* What comes of the calls of the application. *)

\* receive() returns the next message, at once or after it was waited for.
Receives ==
    /\ call \in {"none", "receive"} /\ queue # <<>>
    /\ queue' = Tail(queue)
    /\ call' = "none"
    /\ UNCHANGED <<state, known, lost>>

\* It waits for what may still come.  When the end is known and the queue is
\* empty it does not wait, and nothing changes.
ReceiveWaits ==
    /\ call = "none" /\ queue = <<>> /\ ~known
    /\ call' = "receive"
    /\ UNCHANGED <<state, queue, known, lost>>

\* An accept waits for its turn.  The call may begin by taking the connect.
AcceptWaits ==
    /\ call = "none" /\ state = "CONNECTING"
    /\ UNCHANGED queue \/ (queue # <<>> /\ queue' = Tail(queue))
    /\ call' = "turn"
    /\ UNCHANGED <<state, known, lost>>

\* It stands, whatever has become of the session while it waited.
Accepted ==
    /\ (call = "none" /\ state = "CONNECTING") \/ call = "turn"
    /\ state' = "CONNECTED"
    /\ call' = "none"
    /\ UNCHANGED <<queue, known, lost>>

\* A close before the accept: the session is over before its 403 is written.
Denies ==
    /\ call = "none" /\ state = "CONNECTING"
    /\ Ends
    /\ call' \in {"none", "deny"}
    /\ UNCHANGED lost

\* A close behind it.
Closes ==
    /\ call = "none" /\ state = "CONNECTED"
    /\ Ends
    /\ UNCHANGED <<lost, call>>

\* A message is sent, and waited for if the transport is full.
SendWaits ==
    /\ call = "none" /\ state = "CONNECTED"
    /\ call' = "drain"
    /\ UNCHANGED <<state, queue, known, lost>>

SendReturns ==
    /\ call \in {"drain", "deny"}
    /\ call' = "none"
    /\ UNCHANGED <<state, queue, known, lost>>

\* Only a lost connection cancels a call.
Cancelled ==
    /\ lost /\ call # "none"
    /\ call' = "none"
    /\ UNCHANGED <<state, queue, known, lost>>

CallStep ==
    \/ Receives \/ ReceiveWaits \/ AcceptWaits \/ Accepted \/ Denies \/ Closes
    \/ SendWaits \/ SendReturns \/ Cancelled

Next == ServerStep \/ CallStep

Spec == Init /\ [][Next]_bvars

=============================================================================
