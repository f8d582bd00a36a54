---------------------------- MODULE WebSocketHub ----------------------------
(***************************************************************************)
(* One API process: WebSocketManager with its three indexes, the endpoint  *)
(* that runs for each socket, and the Redis listener that broadcasts to    *)
(* the room "snapshots".  They share one event loop, so everything between *)
(* two awaits is one action.                                               *)
(***************************************************************************)
EXTENDS Integers, Sequences, FiniteSets

CONSTANTS
  Socket, Device,
  DeviceOf,      \* the device_id of each socket's query string
  None,          \* no device, no socket (Python None)
  MaxMessages,   \* messages published on the channel (bound)
  MaxFailures    \* losses of the Redis connection (bound)

Message == 1..MaxMessages

ASSUME HubAssumption ==
  /\ IsFiniteSet(Socket)
  /\ {MaxMessages, MaxFailures} \subseteq Nat
  /\ None \notin Socket \cup Device
  /\ DeviceOf \in [Socket -> Device \cup {None}]

VARIABLES
  handler,    \* where the endpoint of each socket is
  alive,      \* the transport of each socket is open
  old,        \* old_ws in connect
  room,       \* rooms["snapshots"]
  byDevice,   \* _device_connections
  deviceBy,   \* _ws_to_device
  listener,   \* _run_listener and broadcast
  inbox,      \* messages Redis sent to this subscription
  published,  \* messages published so far
  failures,
  got,        \* how often each client received each message
  joined,     \* history: messages published when each socket entered the room
  latest,     \* history: the socket of each device that was accepted last
  heard,      \* history: messages this process's subscription received
  disturbed   \* history: messages lost to, or broadcast during, a disturbance

handlerVars == <<handler, alive, old, room, byDevice, deviceBy, joined, latest>>
vars == <<handlerVars, listener, inbox, published, failures, got, heard, disturbed>>

HandlerStep == {"new", "closing_old", "accepting", "receiving", "closed", "crashed"}
ListenerStep == {"down", "waiting", "next", "sending"}

Listener == [step : ListenerStep, message : Message \cup {0}, size : Nat,
             visited : SUBSET Socket, dead : SUBSET Socket, target : Socket \cup {None}]

Down == [step |-> "down", message |-> 0, size |-> 0, visited |-> {}, dead |-> {},
         target |-> None]
Waiting == [Down EXCEPT !.step = "waiting"]

Broadcasting == listener.step \in {"next", "sending"}

Init ==
  /\ handler = [s \in Socket |-> "new"]
  /\ alive = [s \in Socket |-> TRUE]
  /\ old = [s \in Socket |-> None]
  /\ room = {}
  /\ byDevice = [d \in Device |-> None]
  /\ deviceBy = [s \in Socket |-> None]
  /\ listener = Down
  /\ inbox = <<>>
  /\ published = 0
  /\ failures = 0
  /\ got = [s \in Socket |-> [m \in Message |-> 0]]
  /\ joined = [s \in Socket |-> 0]
  /\ latest = [d \in Device |-> None]
  /\ heard = {}
  /\ disturbed = {}

-----------------------------------------------------------------------------
(* The endpoint: connect, receive until the client is gone, disconnect. *)

Connect(s) ==
  /\ handler[s] = "new"
  /\ LET d == DeviceOf[s]
         replaces == d # None /\ byDevice[d] # None
     IN  /\ handler' = [handler EXCEPT ![s] = IF replaces THEN "closing_old" ELSE "accepting"]
         /\ old' = [old EXCEPT ![s] = IF replaces THEN byDevice[d] ELSE None]
  /\ UNCHANGED <<alive, room, byDevice, deviceBy, joined, latest, listener, inbox,
                 published, failures, got, heard, disturbed>>

\* a change of the room's members during a broadcast is a disturbance of it
Disturb ==
  disturbed' = disturbed \cup (IF Broadcasting THEN {listener.message} ELSE {})

\* old_ws.close() has returned or raised; then the old socket is forgotten
CloseOld(s) ==
  /\ handler[s] = "closing_old"
  /\ alive' = [alive EXCEPT ![old[s]] = FALSE]
  /\ room' = room \ {old[s]}
  /\ deviceBy' = [deviceBy EXCEPT ![old[s]] = None]
  /\ handler' = [handler EXCEPT ![s] = "accepting"]
  /\ old' = [old EXCEPT ![s] = None]
  /\ IF room' # room THEN Disturb ELSE UNCHANGED disturbed
  /\ UNCHANGED <<byDevice, joined, latest, listener, inbox, published, failures, got,
                 heard>>

\* Faulty variant: the two indexes are filled the wrong way round.
Accept_Swapped(s) ==
  /\ handler[s] = "accepting" /\ alive[s] /\ DeviceOf[s] # None
  /\ room' = room \cup {s}
  /\ byDevice' = [byDevice EXCEPT ![DeviceOf[s]] = DeviceOf[s]]
  /\ deviceBy' = [deviceBy EXCEPT ![s] = s]
  /\ latest' = [latest EXCEPT ![DeviceOf[s]] = s]
  /\ handler' = [handler EXCEPT ![s] = "receiving"]
  /\ joined' = [joined EXCEPT ![s] = published]
  /\ Disturb
  /\ UNCHANGED <<alive, old, listener, inbox, published, failures, got, heard>>

\* Adding to the set may rehash it, and then the position of a running iteration
\* falls anywhere: any members count as visited.
Accept(s) ==
  /\ handler[s] = "accepting" /\ alive[s]
  /\ room' = room \cup {s}
  /\ IF DeviceOf[s] # None
     THEN /\ byDevice' = [byDevice EXCEPT ![DeviceOf[s]] = s]
          /\ deviceBy' = [deviceBy EXCEPT ![s] = DeviceOf[s]]
          /\ latest' = [latest EXCEPT ![DeviceOf[s]] = s]
     ELSE UNCHANGED <<byDevice, deviceBy, latest>>
  /\ handler' = [handler EXCEPT ![s] = "receiving"]
  /\ joined' = [joined EXCEPT ![s] = published]
  /\ IF Broadcasting
     THEN \E passed \in SUBSET room' : listener' = [listener EXCEPT !.visited = passed]
     ELSE UNCHANGED listener
  /\ Disturb
  /\ UNCHANGED <<alive, old, inbox, published, failures, got, heard>>

\* accept() raises outside the try block: nothing is cleaned up
AcceptFails(s) ==
  /\ handler[s] = "accepting" /\ ~ alive[s]
  /\ handler' = [handler EXCEPT ![s] = "crashed"]
  /\ UNCHANGED <<alive, old, room, byDevice, deviceBy, joined, latest, listener, inbox,
                 published, failures, got, heard, disturbed>>

ClientLeaves(s) ==
  /\ handler[s] \notin {"new", "closed", "crashed"} /\ alive[s]
  /\ alive' = [alive EXCEPT ![s] = FALSE]
  /\ UNCHANGED <<handler, old, room, byDevice, deviceBy, joined, latest, listener, inbox,
                 published, failures, got, heard, disturbed>>

\* Faulty variant: the device is forgotten whichever socket it has now.
Forget_Device(S, device) ==
  /\ room' = room \ S
  /\ deviceBy' = [s \in Socket |-> IF s \in S THEN None ELSE deviceBy[s]]
  /\ byDevice' = [d \in Device |-> IF \E s \in S : device[s] = d THEN None ELSE byDevice[d]]

\* disconnect() for each socket of S: the device it resolves to forgets only that socket
Forget(S, device) ==
  /\ room' = room \ S
  /\ deviceBy' = [s \in Socket |-> IF s \in S THEN None ELSE deviceBy[s]]
  /\ byDevice' = [d \in Device |->
                     IF \E s \in S : device[s] = d /\ byDevice[d] = s THEN None ELSE byDevice[d]]

\* receive_text raises WebSocketDisconnect; the endpoint passes its device_id
Disconnect(s) ==
  /\ handler[s] = "receiving" /\ ~ alive[s]
  /\ Forget({s}, DeviceOf)
  /\ handler' = [handler EXCEPT ![s] = "closed"]
  /\ IF room' # room THEN Disturb ELSE UNCHANGED disturbed
  /\ UNCHANGED <<alive, old, joined, latest, listener, inbox, published, failures, got, heard>>

\* receive_text raises anything else (a binary frame has no text): the server closes
\* the socket and the manager never hears of it
HandlerCrashes(s) ==
  /\ handler[s] = "receiving"
  /\ handler' = [handler EXCEPT ![s] = "crashed"]
  /\ alive' = [alive EXCEPT ![s] = FALSE]
  /\ UNCHANGED <<old, room, byDevice, deviceBy, joined, latest, listener, inbox,
                 published, failures, got, heard, disturbed>>

-----------------------------------------------------------------------------
(* The listener and the broadcast. *)

Publish ==
  /\ published < MaxMessages
  /\ published' = published + 1
  /\ IF listener.step = "down"
     THEN UNCHANGED <<inbox, heard>>
     ELSE inbox' = Append(inbox, published') /\ heard' = heard \cup {published'}
  /\ UNCHANGED <<handlerVars, listener, failures, got, disturbed>>

\* Faulty variant: no loop around _run_listener.
Subscribe_Once ==
  /\ listener.step = "down" /\ failures = 0
  /\ listener' = Waiting
  /\ UNCHANGED <<handlerVars, inbox, published, failures, got, heard, disturbed>>

\* start_pubsub_listener subscribes, at first or after _RECONNECT_DELAY_SECONDS
Subscribe ==
  /\ listener.step = "down"
  /\ listener' = Waiting
  /\ UNCHANGED <<handlerVars, inbox, published, failures, got, heard, disturbed>>

\* an exception leaves _run_listener: the subscription and its messages are gone
FallDown ==
  /\ listener' = Down
  /\ inbox' = <<>>
  /\ disturbed' = disturbed \cup {inbox[i] : i \in DOMAIN inbox} \cup
                    (IF Broadcasting THEN {listener.message} ELSE {})

ConnectionLost ==
  /\ listener.step = "waiting"
  /\ failures < MaxFailures
  /\ failures' = failures + 1
  /\ FallDown
  /\ UNCHANGED <<handlerVars, published, got, heard>>

BeginBroadcast ==
  /\ listener.step = "waiting" /\ inbox # <<>>
  /\ listener' = [Waiting EXCEPT !.step = "next", !.message = Head(inbox),
                                 !.size = Cardinality(room)]
  /\ inbox' = Tail(inbox)
  /\ UNCHANGED <<handlerVars, published, failures, got, heard, disturbed>>

\* "Set changed size during iteration": RuntimeError, outside the try of the loop
IterationBreaks ==
  /\ listener.step = "next" /\ Cardinality(room) # listener.size
  /\ FallDown
  /\ UNCHANGED <<handlerVars, published, failures, got, heard>>

NextSocket(s) ==
  /\ listener.step = "next" /\ Cardinality(room) = listener.size
  /\ s \in room \ listener.visited
  /\ listener' = [listener EXCEPT !.step = "sending", !.target = s]
  /\ UNCHANGED <<handlerVars, inbox, published, failures, got, heard, disturbed>>

\* Faulty variant: the first dead socket ends the broadcast.
Send_Unguarded ==
  /\ listener.step = "sending"
  /\ LET s == listener.target
     IN  \/ /\ alive[s]
            /\ got' = [got EXCEPT ![s][listener.message] = @ + 1]
            /\ listener' = [listener EXCEPT !.step = "next", !.target = None,
                                            !.visited = @ \cup {s}]
         \/ ~ alive[s] /\ listener' = Waiting /\ UNCHANGED got
  /\ UNCHANGED <<handlerVars, inbox, published, failures, heard, disturbed>>

\* send_text has returned; to a socket that is gone it may return or raise
Send ==
  /\ listener.step = "sending"
  /\ LET s == listener.target
         sent == [listener EXCEPT !.step = "next", !.target = None,
                                  !.visited = @ \cup {s}]
     IN  \/ /\ alive[s]
            /\ got' = [got EXCEPT ![s][listener.message] = @ + 1]
            /\ listener' = sent
         \/ /\ ~ alive[s]
            /\ listener' \in {sent, [sent EXCEPT !.dead = @ \cup {s}]}
            /\ UNCHANGED got
  /\ UNCHANGED <<handlerVars, inbox, published, failures, heard, disturbed>>

\* Faulty variant: no reverse lookup, and the broadcast knows no device_id.
EndBroadcast_NoLookup ==
  /\ listener.step = "next" /\ Cardinality(room) = listener.size
  /\ room \subseteq listener.visited
  /\ Forget(listener.dead, [s \in Socket |-> None])
  /\ listener' = Waiting
  /\ UNCHANGED <<handler, alive, old, joined, latest, inbox, published, failures, got,
                 heard, disturbed>>

\* the dead sockets are disconnected with the device of the reverse lookup
EndBroadcast ==
  /\ listener.step = "next" /\ Cardinality(room) = listener.size
  /\ room \subseteq listener.visited
  /\ Forget(listener.dead, deviceBy)
  /\ listener' = Waiting
  /\ UNCHANGED <<handler, alive, old, joined, latest, inbox, published, failures, got,
                 heard, disturbed>>

Listen ==
  \/ Subscribe \/ BeginBroadcast \/ IterationBreaks
  \/ (\E s \in Socket : NextSocket(s)) \/ Send \/ EndBroadcast

Handle(s) == CloseOld(s) \/ Accept(s) \/ AcceptFails(s) \/ Disconnect(s)

Next ==
  \/ \E s \in Socket : Connect(s) \/ Handle(s) \/ ClientLeaves(s) \/ HandlerCrashes(s)
  \/ Publish \/ ConnectionLost \/ Listen

Spec == Init /\ [][Next]_vars

\* the event loop runs whatever is ready
FairSpec == Spec /\ WF_vars(Listen) /\ \A s \in Socket : WF_vars(Handle(s))

-----------------------------------------------------------------------------
(* Properties *)

\* Every variable holds a value of its type.
TypeOK ==
  /\ handler \in [Socket -> HandlerStep]
  /\ alive \in [Socket -> BOOLEAN]
  /\ old \in [Socket -> Socket \cup {None}]
  /\ room \subseteq Socket
  /\ byDevice \in [Device -> Socket \cup {None}]
  /\ deviceBy \in [Socket -> Device \cup {None}]
  /\ listener \in Listener
  /\ inbox \in Seq(Message)
  /\ published \in 0..MaxMessages
  /\ failures \in 0..MaxFailures
  /\ got \in [Socket -> [Message -> Nat]]
  /\ joined \in [Socket -> 0..MaxMessages]
  /\ latest \in [Device -> Socket \cup {None}]
  /\ heard \subseteq Message
  /\ disturbed \subseteq Message

\* The socket accepted last for a device stays registered while it is served: the
\* late disconnect of the socket it replaced never unregisters it.
SuccessorStaysRegistered ==
  \A d \in Device :
    LET s == latest[d]
    IN  (s # None /\ s \in room) => byDevice[d] = s /\ deviceBy[s] = d

\* a connect that replaces s closed it and is not accepted, or its accept() raised
Succeeding(s) ==
  \E t \in Socket \ {s} : DeviceOf[t] = DeviceOf[s] /\ handler[t] \in {"accepting", "crashed"}

\* Whoever takes a socket out of the room (its own disconnect, the connect that
\* replaces it, a broadcast that found it dead after its handler crashed) takes it out
\* of the two other indexes; only its device may still name it while the successor is
\* not accepted, and never once its own handler has run disconnect.
NoTraceAfterDisconnect ==
  \A s \in Socket :
    /\ handler[s] = "closed" => s \notin room /\ \A d \in Device : byDevice[d] # s
    /\ s \notin room => /\ deviceBy[s] = None
                       /\ \A d \in Device : byDevice[d] = s => Succeeding(s)

Handled(m) ==
  /\ m \in heard
  /\ m \notin {inbox[i] : i \in DOMAIN inbox}
  /\ Broadcasting => listener.message # m

Reached(s, m) ==
  (s \in room /\ alive[s] /\ joined[s] < m) => got[s][m] = 1

\* A broadcast that nobody disturbs reaches every socket of the room exactly once.
UndisturbedBroadcastReachesAll ==
  \A m \in Message \ disturbed : Handled(m) => \A s \in Socket : Reached(s, m)

\* "at every recalculation: publishes through Redis, the manager transmits to the
\* connected clients" (docs/mvp-checklist.md:91), while no Redis connection is
\* lost: what the subscription receives reaches everybody.
EveryMessageReachesAll ==
  failures = 0 => \A m \in Message : Handled(m) => \A s \in Socket : Reached(s, m)

\* The listener never stays in a broadcast or down: it always comes back to wait for
\* the next message.
ListenerReturns == []<>(listener.step = "waiting" /\ inbox = <<>>)
=============================================================================
