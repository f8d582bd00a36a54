------------------------ MODULE WebSocketHub_proofs ------------------------
(***************************************************************************)
(* Proofs about WebSocketHub: types, the two indexes of the manager, and   *)
(* the broadcast that nobody disturbs.                                     *)
(***************************************************************************)
EXTENDS WebSocketHub, FiniteSetTheorems, SequenceTheorems, TLAPS

-----------------------------------------------------------------------------
(* Types *)

\* a broadcast under way has a message, and a send a socket
BroadcastOfMessage ==
  /\ Broadcasting => listener.message \in Message
  /\ listener.step = "sending" => listener.target \in Socket

Typed == TypeOK /\ BroadcastOfMessage

\* Counting the sockets of a room gives a number.
LEMMA RoomIsCountable == ASSUME NEW R \in SUBSET Socket PROVE Cardinality(R) \in Nat
BY HubAssumption, FS_Subset, FS_CardinalityType

LEMMA StepsOfListener ==
  ASSUME listener \in Listener
  PROVE  /\ Down \in Listener /\ Waiting \in Listener
         /\ listener.message \in Message \cup {0}
         /\ listener.visited \subseteq Socket /\ listener.dead \subseteq Socket
         /\ listener.target \in Socket \cup {None}
         /\ \A p \in SUBSET Socket : [listener EXCEPT !.visited = p] \in Listener
         /\ \A s \in Socket : [listener EXCEPT !.step = "sending", !.target = s] \in Listener
BY DEF Down, Waiting, Listener, ListenerStep

\* A disturbance marks a message.
LEMMA DisturbTypes ==
  ASSUME Typed, Disturb \/ UNCHANGED disturbed
  PROVE  disturbed' \subseteq Message
BY DEF Typed, TypeOK, BroadcastOfMessage, Disturb

\* A lost subscription marks the messages it had.
LEMMA FallDownTypes ==
  ASSUME Typed, FallDown
  PROVE  /\ listener' \in Listener /\ inbox' \in Seq(Message) /\ disturbed' \subseteq Message
         /\ BroadcastOfMessage'
<1>1. {inbox[i] : i \in DOMAIN inbox} \subseteq Message
  BY DEF Typed, TypeOK
<1>2. disturbed' \subseteq Message
  BY <1>1 DEF Typed, TypeOK, BroadcastOfMessage, FallDown
<1>3. inbox' \in Seq(Message)
  BY DEF FallDown
<1>4. listener' \in Listener /\ listener'.step = "down"
  BY StepsOfListener DEF Typed, TypeOK, FallDown, Down
<1> QED BY <1>2, <1>3, <1>4 DEF BroadcastOfMessage, Broadcasting

LEMMA CloseOldTypes ==
  ASSUME Typed, NEW s \in Socket, CloseOld(s) PROVE Typed'
<1> USE DEF Typed, TypeOK
<1>1. disturbed' \subseteq Message
  BY DisturbTypes DEF CloseOld
<1>2. handler' \in [Socket -> HandlerStep] /\ alive' \in [Socket -> BOOLEAN]
  BY DEF CloseOld, HandlerStep
<1>3. old' \in [Socket -> Socket \cup {None}] /\ deviceBy' \in [Socket -> Device \cup {None}]
  BY DEF CloseOld
<1> QED BY <1>1, <1>2, <1>3 DEF CloseOld, BroadcastOfMessage, Broadcasting

LEMMA AcceptTypes ==
  ASSUME Typed, NEW s \in Socket, Accept(s) PROVE Typed'
<1> USE DEF Typed, TypeOK
<1>1. disturbed' \subseteq Message
  BY DisturbTypes DEF Accept
<1>2. room' \subseteq Socket
  BY DEF Accept
<1>3. /\ listener' \in Listener /\ listener'.message = listener.message
      /\ listener'.step = listener.step /\ listener'.target = listener.target
  <2>1. CASE UNCHANGED listener
    BY <2>1
  <2>2. CASE \E passed \in SUBSET room' : listener' = [listener EXCEPT !.visited = passed]
    BY <2>2, <1>2 DEF Listener
  <2> QED BY <2>1, <2>2 DEF Accept
<1>4. handler' \in [Socket -> HandlerStep] /\ joined' \in [Socket -> 0..MaxMessages]
  BY DEF Accept, HandlerStep
<1>5. DeviceOf[s] \in Device \cup {None}
  BY HubAssumption
<1>6. /\ byDevice' \in [Device -> Socket \cup {None}]
      /\ deviceBy' \in [Socket -> Device \cup {None}]
      /\ latest' \in [Device -> Socket \cup {None}]
  BY <1>5, ZenonT(40) DEF Accept
<1> QED BY <1>1, <1>2, <1>3, <1>4, <1>6 DEF Accept, BroadcastOfMessage, Broadcasting

\* Forgetting sockets keeps the indexes what they are.
LEMMA ForgetTypes ==
  ASSUME TypeOK, NEW S, NEW device, Forget(S, device)
  PROVE  /\ room' \subseteq Socket
         /\ byDevice' \in [Device -> Socket \cup {None}]
         /\ deviceBy' \in [Socket -> Device \cup {None}]
BY DEF TypeOK, Forget

LEMMA DisconnectTypes ==
  ASSUME Typed, NEW s \in Socket, Disconnect(s) PROVE Typed'
<1> USE DEF Typed, TypeOK
<1>1. disturbed' \subseteq Message
  BY DisturbTypes DEF Disconnect
<1>2. /\ room' \subseteq Socket
      /\ byDevice' \in [Device -> Socket \cup {None}]
      /\ deviceBy' \in [Socket -> Device \cup {None}]
  BY ForgetTypes DEF Disconnect
<1>3. handler' \in [Socket -> HandlerStep]
  BY DEF Disconnect, HandlerStep
<1> QED BY <1>1, <1>2, <1>3 DEF Disconnect, BroadcastOfMessage, Broadcasting

\* Each step of an endpoint leaves the types alone.
LEMMA HandlerTypes ==
  ASSUME Typed, NEW s \in Socket,
         Connect(s) \/ Handle(s) \/ ClientLeaves(s) \/ HandlerCrashes(s)
  PROVE  Typed'
<1>1. CASE Connect(s)
  <2>1. DeviceOf[s] # None => DeviceOf[s] \in Device
    BY HubAssumption
  <2>2. handler' \in [Socket -> HandlerStep]
    BY <1>1 DEF Connect, Typed, TypeOK, HandlerStep
  <2>3. old' \in [Socket -> Socket \cup {None}]
    BY <1>1, <2>1 DEF Connect, Typed, TypeOK
  <2> QED BY <1>1, <2>2, <2>3 DEF Connect, Typed, TypeOK, HandlerStep, BroadcastOfMessage,
     Broadcasting
<1>2. CASE AcceptFails(s)
  BY <1>2 DEF AcceptFails, Typed, TypeOK, HandlerStep, BroadcastOfMessage,
     Broadcasting
<1>3. CASE ClientLeaves(s)
  BY <1>3 DEF ClientLeaves, Typed, TypeOK, HandlerStep, BroadcastOfMessage,
     Broadcasting
<1>4. CASE HandlerCrashes(s)
  BY <1>4 DEF HandlerCrashes, Typed, TypeOK, HandlerStep, BroadcastOfMessage,
     Broadcasting
<1> QED BY <1>1, <1>2, <1>3, <1>4, CloseOldTypes, AcceptTypes, DisconnectTypes DEF Handle

\* So does each step of the listener and of Redis.
LEMMA ListenerTypes ==
  ASSUME Typed, Publish \/ ConnectionLost \/ Listen
  PROVE  Typed'
<1> USE HubAssumption DEF Typed, TypeOK, handlerVars
<1>1. CASE Publish
  <2>1. published' \in Message /\ published' \in 0..MaxMessages
    BY <1>1 DEF Publish, Message
  <2>2. heard' \subseteq Message
    <3>1. heard' = heard \/ heard' = heard \cup {published'}
      BY <1>1 DEF Publish
    <3> QED BY <2>1, <3>1
  <2>3. inbox' \in Seq(Message)
    <3>1. inbox' = inbox \/ inbox' = Append(inbox, published')
      BY <1>1 DEF Publish
    <3>2. inbox \in Seq(Message) /\ published' \in Message
      BY <2>1
    <3>3. Append(inbox, published') \in Seq(Message)
      BY <3>2, AppendProperties, Zenon
    <3> QED BY <3>1, <3>2, <3>3
  <2> QED BY <1>1, <2>1, <2>2, <2>3 DEF Publish, BroadcastOfMessage, Broadcasting
<1>2. CASE ConnectionLost
  BY <1>2, FallDownTypes DEF ConnectionLost
<1>3. CASE Subscribe
  <2>1. listener' \in Listener /\ listener'.step = "waiting"
    BY <1>3, StepsOfListener DEF Subscribe, Waiting, Down
  <2> QED BY <1>3, <2>1 DEF Subscribe, BroadcastOfMessage, Broadcasting
<1>4. CASE BeginBroadcast
  <2>1. inbox \in Seq(Message) /\ inbox # <<>>
    BY <1>4 DEF BeginBroadcast
  <2>4. Head(inbox) \in Message /\ Tail(inbox) \in Seq(Message)
    BY <2>1, HeadTailProperties
  <2>2. Cardinality(room) \in Nat
    BY RoomIsCountable
  <2>3. listener' \in Listener /\ listener'.message \in Message
    BY <1>4, <2>4, <2>2 DEF BeginBroadcast, Waiting, Down, Listener, ListenerStep
  <2> QED BY <1>4, <2>4, <2>3 DEF BeginBroadcast, BroadcastOfMessage
<1>5. CASE IterationBreaks
  BY <1>5, FallDownTypes DEF IterationBreaks
<1>6. CASE \E s \in Socket : NextSocket(s)
  <2>1. PICK s \in Socket : NextSocket(s)
    BY <1>6
  <2>2. /\ listener' \in Listener /\ listener'.message = listener.message /\ Broadcasting
        /\ listener'.target = s
    BY <2>1, StepsOfListener DEF NextSocket, Listener, Broadcasting
  <2> QED BY <2>1, <2>2 DEF NextSocket, BroadcastOfMessage
<1>7. CASE Send
  <2> DEFINE sent == [listener EXCEPT !.step = "next", !.target = None,
                                      !.visited = @ \cup {listener.target}]
  <2>1. Broadcasting /\ listener.message \in Message
    BY <1>7 DEF Send, Broadcasting, BroadcastOfMessage
  <2>6. listener.target \in Socket
    BY <1>7 DEF Send, BroadcastOfMessage
  <2>2. sent \in Listener
    BY <2>6 DEF Listener, ListenerStep
  <2>3. [sent EXCEPT !.dead = @ \cup {listener.target}] \in Listener
    BY <2>2, <2>6 DEF Listener
  <2>4. listener' \in Listener /\ listener'.message = listener.message
          /\ listener'.step = "next"
    <3>1. /\ sent.message = listener.message /\ sent.step = "next"
          /\ [sent EXCEPT !.dead = @ \cup {listener.target}].message = listener.message
          /\ [sent EXCEPT !.dead = @ \cup {listener.target}].step = "next"
      BY DEF Listener
    <3>2. listener' \in {sent, [sent EXCEPT !.dead = @ \cup {listener.target}]}
      BY <1>7 DEF Send
    <3> QED BY <2>2, <2>3, <3>1, <3>2
  <2>5. got' \in [Socket -> [Message -> Nat]]
    <3>1. CASE UNCHANGED got
      BY <3>1
    <3>2. CASE got' = [got EXCEPT ![listener.target][listener.message] = @ + 1]
      <4>1. got[listener.target] \in [Message -> Nat]
        BY <2>6
      <4>2. [got[listener.target] EXCEPT ![listener.message] = @ + 1] \in [Message -> Nat]
        BY <2>1, <4>1
      <4> QED BY <2>6, <3>2, <4>2
    <3> QED BY <1>7, <3>1, <3>2 DEF Send
  <2> QED BY <1>7, <2>1, <2>4, <2>5 DEF Send, BroadcastOfMessage, Broadcasting
<1>8. CASE EndBroadcast
  <2>1. listener' \in Listener /\ listener'.step = "waiting"
    BY <1>8, StepsOfListener DEF EndBroadcast, Waiting, Down
  <2>2. /\ room' \subseteq Socket
        /\ byDevice' \in [Device -> Socket \cup {None}]
        /\ deviceBy' \in [Socket -> Device \cup {None}]
    BY <1>8, ForgetTypes DEF EndBroadcast
  <2> QED BY <1>8, <2>1, <2>2 DEF EndBroadcast, BroadcastOfMessage, Broadcasting
<1> QED BY <1>1, <1>2, <1>3, <1>4, <1>5, <1>6, <1>7, <1>8 DEF Listen

\* The types are inductive.
LEMMA TypesAreInductive == Spec => []Typed
<1>1. Init => Typed
  BY HubAssumption DEF Init, Typed, TypeOK, BroadcastOfMessage, Broadcasting, HandlerStep,
     Down, Listener, ListenerStep
<1>2. Typed /\ [Next]_vars => Typed'
  <2> SUFFICES ASSUME Typed, [Next]_vars PROVE Typed'
    OBVIOUS
  <2>1. CASE Next
    BY <2>1, HandlerTypes, ListenerTypes DEF Next
  <2>2. CASE UNCHANGED vars
    BY <2>2 DEF vars, handlerVars, Typed, TypeOK, BroadcastOfMessage, Broadcasting
  <2> QED BY <2>1, <2>2
<1> QED BY <1>1, <1>2, PTL DEF Spec

\* Every variable holds a value of its type, whatever clients, endpoints, Redis and the
\* listener do.
THEOREM TypeCorrect == Spec => []TypeOK
<1>1. Typed => TypeOK
  BY DEF Typed
<1> QED BY <1>1, TypesAreInductive, PTL

-----------------------------------------------------------------------------
(* The two indexes *)

\* a socket is in no index before it is accepted and after it is disconnected
Absent(s) ==
  s \notin room /\ deviceBy[s] = None /\ \A d \in Device : byDevice[d] # s

Unregistered == {"new", "closing_old", "accepting", "closed"}

\* what the indexes promise: they hold accepted sockets only, under their own device,
\* and the successor of a device is registered as long as it is in the room
IndexesAgree ==
  /\ \A s \in Socket : handler[s] \in Unregistered => Absent(s)
  /\ \A d \in Device : /\ byDevice[d] # None => DeviceOf[byDevice[d]] = d
                       /\ latest[d] # None => DeviceOf[latest[d]] = d
  /\ SuccessorStaysRegistered

\* Forgetting a set of sockets keeps the agreement of those that stay.
LEMMA ForgetAgrees ==
  ASSUME TypeOK, IndexesAgree, UNCHANGED latest,
         NEW S \in SUBSET Socket, NEW device, Forget(S, device)
  PROVE  /\ \A s \in Socket : Absent(s) => Absent(s)'
         /\ \A d \in Device : byDevice'[d] # None => byDevice'[d] = byDevice[d]
         /\ SuccessorStaysRegistered'
<1> USE HubAssumption DEF TypeOK
<1>1. \A s \in Socket : Absent(s) => Absent(s)'
  BY DEF Forget, Absent
<1>2. \A d \in Device : byDevice'[d] # None => byDevice'[d] = byDevice[d]
  BY DEF Forget
<1>3. ASSUME NEW d \in Device, latest[d] # None, latest[d] \in room'
      PROVE  byDevice'[d] = latest[d] /\ deviceBy'[latest[d]] = d
  <2>1. latest[d] \in Socket /\ latest[d] \notin S /\ latest[d] \in room
    BY <1>3 DEF Forget
  <2>2. byDevice[d] = latest[d] /\ deviceBy[latest[d]] = d
    BY <1>3, <2>1 DEF IndexesAgree, SuccessorStaysRegistered
  <2>3. ~ \E s \in S : device[s] = d /\ byDevice[d] = s
    BY <2>1, <2>2
  <2> QED BY <2>1, <2>2, <2>3 DEF Forget
<1> QED BY <1>1, <1>2, <1>3 DEF SuccessorStaysRegistered

LEMMA AcceptAgrees ==
  ASSUME TypeOK, IndexesAgree, NEW s \in Socket, Accept(s)
  PROVE  IndexesAgree'
<1> USE HubAssumption DEF TypeOK
<1>1. ASSUME NEW x \in Socket, handler'[x] \in Unregistered PROVE Absent(x)'
  <2>1. x # s /\ handler[x] \in Unregistered
    BY <1>1 DEF Accept, Unregistered
  <2>2. Absent(x)
    BY <2>1 DEF IndexesAgree
  <2> QED BY <2>1, <2>2 DEF Accept, Absent
<1>2. ASSUME NEW d \in Device
      PROVE  /\ byDevice'[d] # None => DeviceOf[byDevice'[d]] = d
             /\ latest'[d] # None => DeviceOf[latest'[d]] = d
  <2>1. CASE d = DeviceOf[s]
    BY <2>1 DEF Accept
  <2>2. CASE d # DeviceOf[s]
    <3>1. latest'[d] = latest[d] /\ byDevice'[d] = byDevice[d]
      BY <2>2 DEF Accept
    <3> QED BY <3>1 DEF IndexesAgree
  <2> QED BY <2>1, <2>2
<1>3. ASSUME NEW d \in Device, latest'[d] # None, latest'[d] \in room'
      PROVE  byDevice'[d] = latest'[d] /\ deviceBy'[latest'[d]] = d
  <2>1. CASE d = DeviceOf[s]
    BY <2>1 DEF Accept
  <2>2. CASE d # DeviceOf[s]
    <3>1. latest'[d] = latest[d] /\ byDevice'[d] = byDevice[d]
      BY <2>2 DEF Accept
    <3>2. latest[d] \in Socket /\ latest[d] # s
      BY <1>3, <2>2, <3>1 DEF IndexesAgree
    <3>3. latest[d] \in room /\ deviceBy'[latest[d]] = deviceBy[latest[d]]
      BY <1>3, <3>1, <3>2 DEF Accept
    <3> QED BY <3>1, <3>2, <3>3 DEF IndexesAgree, SuccessorStaysRegistered
  <2> QED BY <2>1, <2>2
<1> QED BY <1>1, <1>2, <1>3 DEF IndexesAgree, SuccessorStaysRegistered

LEMMA CloseOldAgrees ==
  ASSUME TypeOK, IndexesAgree, NEW s \in Socket, CloseOld(s)
  PROVE  IndexesAgree'
<1> USE HubAssumption DEF TypeOK
<1>1. ASSUME NEW x \in Socket, handler'[x] \in Unregistered PROVE Absent(x)'
  <2>1. handler[x] \in Unregistered
    BY <1>1 DEF CloseOld, Unregistered
  <2>2. Absent(x)
    BY <2>1 DEF IndexesAgree
  <2> QED BY <2>2 DEF CloseOld, Absent
<1>2. ASSUME NEW d \in Device, latest[d] # None, latest[d] \in room'
      PROVE  byDevice[d] = latest[d] /\ deviceBy'[latest[d]] = d
  <2>1. latest[d] \in Socket /\ latest[d] # old[s] /\ latest[d] \in room
    BY <1>2 DEF CloseOld
  <2>2. deviceBy'[latest[d]] = deviceBy[latest[d]]
    BY <2>1 DEF CloseOld
  <2> QED BY <1>2, <2>1, <2>2 DEF IndexesAgree, SuccessorStaysRegistered
<1>3. UNCHANGED <<byDevice, latest>>
  BY DEF CloseOld
<1> QED BY <1>1, <1>2, <1>3 DEF IndexesAgree, SuccessorStaysRegistered

LEMMA DisconnectAgrees ==
  ASSUME TypeOK, IndexesAgree, NEW s \in Socket, Disconnect(s)
  PROVE  IndexesAgree'
<1> USE HubAssumption DEF TypeOK
<1>0. UNCHANGED latest /\ Forget({s}, DeviceOf)
  BY DEF Disconnect
<1>1. /\ \A x \in Socket : Absent(x) => Absent(x)'
      /\ \A d \in Device : byDevice'[d] # None => byDevice'[d] = byDevice[d]
      /\ SuccessorStaysRegistered'
  BY <1>0, ForgetAgrees
<1>2. Absent(s)'
  <2>1. s \notin room' /\ deviceBy'[s] = None
    BY <1>0 DEF Forget
  <2>2. ASSUME NEW d \in Device, byDevice'[d] = s PROVE FALSE
    <3>1. byDevice[d] = s /\ DeviceOf[s] = d
      BY <1>1, <2>2, ZenonT(40) DEF IndexesAgree
    <3> QED BY <1>0, <2>2, <3>1 DEF Forget
  <2> QED BY <2>1, <2>2 DEF Absent
<1>3. ASSUME NEW x \in Socket, handler'[x] \in Unregistered PROVE Absent(x)'
  <2>1. CASE x = s
    BY <1>2, <2>1
  <2>2. CASE x # s
    BY <1>1, <1>3, <2>2 DEF Disconnect, IndexesAgree
  <2> QED BY <2>1, <2>2
<1> QED BY <1>0, <1>1, <1>3 DEF IndexesAgree

LEMMA EndBroadcastAgrees ==
  ASSUME TypeOK, IndexesAgree, EndBroadcast
  PROVE  IndexesAgree'
<1> USE DEF TypeOK
<1>0. UNCHANGED <<latest, handler>> /\ Forget(listener.dead, deviceBy)
        /\ listener.dead \subseteq Socket
  BY StepsOfListener DEF EndBroadcast
<1>1. /\ \A x \in Socket : Absent(x) => Absent(x)'
      /\ \A d \in Device : byDevice'[d] # None => byDevice'[d] = byDevice[d]
      /\ SuccessorStaysRegistered'
  BY <1>0, ForgetAgrees
<1> QED BY <1>0, <1>1 DEF IndexesAgree

\* The agreement is inductive.
LEMMA IndexesStayInAgreement == Spec => [](TypeOK /\ IndexesAgree)
<1>1. Init => IndexesAgree
  BY HubAssumption DEF Init, IndexesAgree, SuccessorStaysRegistered, Absent, Unregistered
<1>2. TypeOK /\ TypeOK' /\ IndexesAgree /\ [Next]_vars => IndexesAgree'
  <2> SUFFICES ASSUME TypeOK, IndexesAgree, [Next]_vars PROVE IndexesAgree'
    OBVIOUS
  <2>1. ASSUME NEW s \in Socket, Connect(s) \/ AcceptFails(s) \/ HandlerCrashes(s)
        PROVE  IndexesAgree'
    <3>1. UNCHANGED <<room, byDevice, deviceBy, latest>>
      BY <2>1 DEF Connect, AcceptFails, HandlerCrashes
    <3>2. \A x \in Socket : handler'[x] \in Unregistered => handler[x] \in Unregistered
      BY <2>1 DEF Connect, AcceptFails, HandlerCrashes, TypeOK, Unregistered
    <3> QED BY <3>1, <3>2 DEF IndexesAgree, SuccessorStaysRegistered, Absent
  <2>2. ASSUME UNCHANGED <<handler, room, byDevice, deviceBy, latest>> PROVE IndexesAgree'
    BY <2>2 DEF IndexesAgree, SuccessorStaysRegistered, Absent
  <2>3. ASSUME NEW s \in Socket, ClientLeaves(s)
        PROVE  UNCHANGED <<handler, room, byDevice, deviceBy, latest>>
    BY <2>3 DEF ClientLeaves
  <2>4. ASSUME Publish \/ ConnectionLost \/ Subscribe \/ BeginBroadcast \/ IterationBreaks
                 \/ (\E s \in Socket : NextSocket(s)) \/ Send
        PROVE  UNCHANGED <<handler, room, byDevice, deviceBy, latest>>
    BY <2>4 DEF Publish, ConnectionLost, Subscribe, BeginBroadcast, IterationBreaks,
       NextSocket, Send, handlerVars
  <2>5. CASE UNCHANGED vars
    BY <2>2, <2>5 DEF vars, handlerVars
  <2> QED BY <2>1, <2>2, <2>3, <2>4, <2>5, AcceptAgrees, CloseOldAgrees, DisconnectAgrees,
             EndBroadcastAgrees DEF Next, Handle, Listen
<1> QED BY <1>1, <1>2, TypeCorrect, PTL DEF Spec

\* What is left of a socket that is out of the room: nothing in the reverse index, and in
\* the other at most the entry that a connect under way is about to replace.
Reversed == \A s \in Socket : deviceBy[s] = IF s \in room THEN DeviceOf[s] ELSE None

Replacing(t) ==
  handler[t] = "closing_old" =>
    /\ old[t] \in Socket \ {t} /\ DeviceOf[old[t]] = DeviceOf[t] /\ DeviceOf[t] \in Device

Named == \A d \in Device, x \in Socket : byDevice[d] = x /\ x \notin room => Succeeding(x)

TraceInv == Reversed /\ (\A t \in Socket : Replacing(t)) /\ Named

LEMMA StillSucceeding ==
  ASSUME \A t \in Socket : handler[t] \in {"accepting", "crashed"} =>
           handler'[t] \in {"accepting", "crashed"}
  PROVE  \A x \in Socket : Succeeding(x) => Succeeding(x)'
BY DEF Succeeding

\* Sockets are forgotten, each with its own device if a device names it.
LEMMA ForgetTraces ==
  ASSUME TypeOK, IndexesAgree, TraceInv, NEW S \in SUBSET Socket, NEW device, Forget(S, device),
         \A s \in S : s \in room => device[s] = DeviceOf[s],
         \A x \in Socket : Succeeding(x) => Succeeding(x)'
  PROVE  Reversed' /\ Named'
<1> USE HubAssumption DEF TypeOK
<1>1. Reversed'
  BY DEF Forget, TraceInv, Reversed
<1>2. ASSUME NEW d \in Device, NEW x \in Socket, byDevice'[d] = x, x \notin room'
      PROVE  Succeeding(x)'
  <2>1. byDevice[d] = x /\ DeviceOf[x] = d
    BY <1>2 DEF Forget, IndexesAgree
  <2>2. x \notin room
    BY <1>2, <2>1 DEF Forget
  <2>3. Succeeding(x)
    BY <2>1, <2>2 DEF TraceInv, Named
  <2> QED BY <2>3
<1> QED BY <1>1, <1>2 DEF Named

LEMMA NextTraceInv ==
  ASSUME TypeOK, IndexesAgree, TraceInv, [Next]_vars
  PROVE  TraceInv'
<1> USE HubAssumption DEF TypeOK, TraceInv
<1>0. ASSUME UNCHANGED <<room, byDevice, deviceBy>>,
             \A x \in Socket : Succeeding(x) => Succeeding(x)'
      PROVE  Reversed' /\ Named'
  BY <1>0 DEF Reversed, Named
<1>1. ASSUME NEW s \in Socket, Connect(s) PROVE TraceInv'
  <2>1. \A x \in Socket : Succeeding(x) => Succeeding(x)'
    BY <1>1, StillSucceeding DEF Connect
  <2>2. Reversed' /\ Named'
    BY <1>0, <1>1, <2>1 DEF Connect
  <2>3. Replacing(s)'
    <3> DEFINE d == DeviceOf[s]
    <3>1. SUFFICES ASSUME handler'[s] = "closing_old"
                   PROVE  old'[s] \in Socket \ {s} /\ DeviceOf[old'[s]] = d /\ d \in Device
      BY DEF Replacing
    <3>2. d \in Device /\ byDevice[d] \in Socket /\ old'[s] = byDevice[d]
      BY <1>1, <3>1 DEF Connect
    <3>3. DeviceOf[byDevice[d]] = d
      BY <3>2 DEF IndexesAgree
    <3>4. byDevice[d] # s
      BY <1>1, <3>2 DEF Connect, IndexesAgree, Absent, Unregistered
    <3> QED BY <3>2, <3>3, <3>4
  <2>4. \A t \in Socket \ {s} : handler'[t] = handler[t] /\ old'[t] = old[t]
    BY <1>1 DEF Connect
  <2>5. \A t \in Socket \ {s} : Replacing(t)'
    BY <2>4 DEF Replacing
  <2> QED BY <2>2, <2>3, <2>5
<1>2. ASSUME NEW s \in Socket, CloseOld(s) PROVE TraceInv'
  <2>1. /\ old[s] \in Socket \ {s} /\ DeviceOf[old[s]] = DeviceOf[s]
        /\ handler'[s] = "accepting"
        /\ \A t \in Socket \ {s} : handler'[t] = handler[t] /\ old'[t] = old[t]
    BY <1>2 DEF CloseOld, Replacing
  <2>2. ASSUME NEW x \in Socket, x = old[s] PROVE Succeeding(x)'
    BY <2>1, <2>2 DEF Succeeding
  <2>3. \A x \in Socket : Succeeding(x) => Succeeding(x)'
    BY <1>2, <2>1, StillSucceeding DEF CloseOld
  <2>4. Reversed'
    BY <1>2 DEF CloseOld, Reversed
  <2>5. Named'
    BY <1>2, <2>2, <2>3 DEF CloseOld, Named
  <2>6. \A t \in Socket : Replacing(t)'
    BY <2>1 DEF Replacing
  <2> QED BY <2>4, <2>5, <2>6
<1>3. ASSUME NEW s \in Socket, Accept(s) PROVE TraceInv'
  <2>1. ASSUME NEW d \in Device, NEW x \in Socket, byDevice'[d] = x, x \notin room'
        PROVE  Succeeding(x)'
    <3>1. d # DeviceOf[s] /\ byDevice[d] = x /\ x \notin room
      BY <1>3, <2>1 DEF Accept
    <3>2. DeviceOf[x] = d /\ Succeeding(x)
      BY <3>1 DEF IndexesAgree, Named
    <3>3. \A t \in Socket \ {s} : handler'[t] = handler[t]
      BY <1>3 DEF Accept
    <3> QED BY <3>1, <3>2, <3>3 DEF Succeeding
  <2>2. Reversed'
    BY <1>3 DEF Accept, Reversed
  <2>3. \A t \in Socket : Replacing(t)'
    BY <1>3 DEF Accept, Replacing
  <2> QED BY <2>1, <2>2, <2>3 DEF Named
<1>4. ASSUME NEW s \in Socket, AcceptFails(s) \/ ClientLeaves(s) \/ HandlerCrashes(s)
      PROVE  TraceInv'
  <2>1. UNCHANGED <<old, room, byDevice, deviceBy>>
    BY <1>4 DEF AcceptFails, ClientLeaves, HandlerCrashes
  <2>2. \A x \in Socket : Succeeding(x) => Succeeding(x)'
    BY <1>4, StillSucceeding DEF AcceptFails, ClientLeaves, HandlerCrashes
  <2>3. \A t \in Socket : handler'[t] = "closing_old" => handler[t] = "closing_old"
    BY <1>4 DEF AcceptFails, ClientLeaves, HandlerCrashes
  <2> QED BY <1>0, <2>1, <2>2, <2>3 DEF Replacing
<1>6. ASSUME NEW s \in Socket, Disconnect(s) PROVE TraceInv'
  <2>1. \A x \in Socket : Succeeding(x) => Succeeding(x)'
    BY <1>6, StillSucceeding DEF Disconnect
  <2>2. Reversed' /\ Named'
    BY <1>6, <2>1, ForgetTraces DEF Disconnect
  <2>3. \A t \in Socket : Replacing(t)'
    BY <1>6 DEF Disconnect, Replacing
  <2> QED BY <2>2, <2>3
<1>7. CASE EndBroadcast
  <2>0. UNCHANGED <<handler, old>> /\ Forget(listener.dead, deviceBy)
        /\ listener.dead \subseteq Socket
    BY <1>7, StepsOfListener DEF EndBroadcast
  <2>1. \A x \in Socket : Succeeding(x) => Succeeding(x)'
    BY <2>0, StillSucceeding
  <2>2. Reversed' /\ Named'
    BY <2>0, <2>1, ForgetTraces DEF Reversed
  <2> QED BY <2>0, <2>2 DEF Replacing
<1>8. ASSUME UNCHANGED <<handler, old, room, byDevice, deviceBy>> PROVE TraceInv'
  BY <1>8 DEF Succeeding, Reversed, Replacing, Named
<1>9. ASSUME Publish \/ ConnectionLost \/ Subscribe \/ BeginBroadcast \/ IterationBreaks
               \/ (\E s \in Socket : NextSocket(s)) \/ Send \/ UNCHANGED vars
      PROVE  UNCHANGED <<handler, old, room, byDevice, deviceBy>>
  BY <1>9 DEF Publish, ConnectionLost, Subscribe, BeginBroadcast, IterationBreaks,
     NextSocket, Send, handlerVars, vars
<1> QED BY <1>1, <1>2, <1>3, <1>4, <1>6, <1>7, <1>8, <1>9 DEF Next, Handle, Listen

\* Whoever takes a socket out of the room takes it out of every index, for any number of
\* clients, devices and reconnections; only its device may name it while a successor is
\* not accepted.
THEOREM DisconnectLeavesNoTrace == Spec => []NoTraceAfterDisconnect
<1>1. Init => TraceInv
  BY HubAssumption DEF Init, TraceInv, Reversed, Replacing, Named
<1>2. TypeOK /\ IndexesAgree /\ TraceInv => NoTraceAfterDisconnect
  BY HubAssumption DEF TypeOK, IndexesAgree, TraceInv, Reversed, Named, NoTraceAfterDisconnect,
     Absent, Unregistered
<1> QED BY <1>1, <1>2, NextTraceInv, IndexesStayInAgreement, PTL DEF Spec

\* The late disconnect of a replaced socket never unregisters its successor.
THEOREM SuccessorIsKept == Spec => []SuccessorStaysRegistered
<1>1. IndexesAgree => SuccessorStaysRegistered
  BY DEF IndexesAgree
<1> QED BY <1>1, IndexesStayInAgreement, PTL

-----------------------------------------------------------------------------
(* The broadcast *)

Queued == {inbox[i] : i \in DOMAIN inbox}

\* messages are handled in the order of their publication, none before it
InOrder ==
  /\ heard \subseteq 1..published
  /\ Queued \subseteq heard
  /\ \A i, j \in 1..Len(inbox) : i < j => inbox[i] < inbox[j]
  /\ Broadcasting =>
       /\ listener.message \in heard
       /\ \A m \in Queued : listener.message < m

\* nobody has a message before its broadcast; in an undisturbed one the sockets that
\* were visited have it, those still to be visited do not
Progress ==
  /\ \A s \in Socket : \A m \in Message : (m \notin heard \/ m \in Queued) => got[s][m] = 0
  /\ Broadcasting /\ listener.message \notin disturbed =>
       /\ listener.step = "sending" => listener.target \notin listener.visited
       /\ \A s \in Socket :
            /\ s \in listener.visited => Reached(s, listener.message)
            /\ s \notin listener.visited => got[s][listener.message] = 0

BroadcastInv == InOrder /\ Progress /\ UndisturbedBroadcastReachesAll

\* A step that leaves the listener and its history alone, and lets nobody enter the room,
\* disturbs nothing.
LEMMA OnlyLeaving ==
  ASSUME Typed, BroadcastInv,
         UNCHANGED <<listener, inbox, published, got, heard>>,
         disturbed \subseteq disturbed',
         \A s \in Socket :
           /\ s \in room' => s \in room
           /\ alive'[s] => alive[s]
           /\ joined'[s] = joined[s]
  PROVE  BroadcastInv'
<1>0. UNCHANGED <<Queued, Broadcasting>>
  BY DEF Queued, Broadcasting
<1>1. \A s \in Socket, m \in Message : Reached(s, m) => Reached(s, m)'
  BY DEF Reached
<1>2. Broadcasting => listener.message \in Message
  BY DEF Typed, BroadcastOfMessage
<1>3. InOrder'
  BY <1>0 DEF BroadcastInv, InOrder
<1>4. Progress'
  BY <1>0, <1>1, <1>2 DEF BroadcastInv, Progress
<1>5. UndisturbedBroadcastReachesAll'
  <2>1. ASSUME NEW m \in Message, m \notin disturbed', Handled(m)', NEW s \in Socket
        PROVE  Reached(s, m)'
    <3>1. m \notin disturbed /\ Handled(m)
      BY <1>0, <2>1 DEF Handled
    <3> QED BY <1>1, <3>1 DEF BroadcastInv, UndisturbedBroadcastReachesAll
  <2> QED BY <2>1 DEF UndisturbedBroadcastReachesAll
<1> QED BY <1>3, <1>4, <1>5 DEF BroadcastInv

\* A socket that enters during a broadcast disturbs it, and is not owed earlier messages.
LEMMA AcceptDisturbs ==
  ASSUME Typed, BroadcastInv, NEW s \in Socket, Accept(s)
  PROVE  BroadcastInv'
<1>0. UNCHANGED <<inbox, published, got, heard, alive>> /\ UNCHANGED Queued
  BY DEF Accept, Queued
<1>1. /\ listener'.step = listener.step /\ listener'.message = listener.message
      /\ listener'.target = listener.target
      /\ ~ Broadcasting => listener' = listener
  BY DEF Accept, Typed, TypeOK, Listener
<1>2. Broadcasting' = Broadcasting
  BY <1>1 DEF Broadcasting
<1>3. disturbed' = disturbed \cup (IF Broadcasting THEN {listener.message} ELSE {})
  BY DEF Accept, Disturb
<1>4. InOrder'
  BY <1>0, <1>1, <1>2 DEF BroadcastInv, InOrder
<1>5. Progress'
  <2>1. Broadcasting' => listener'.message \in disturbed'
    BY <1>1, <1>2, <1>3
  <2> QED BY <1>0, <2>1 DEF BroadcastInv, Progress
<1>6. ASSUME NEW m \in Message, m \notin disturbed', Handled(m)', NEW x \in Socket
      PROVE  Reached(x, m)'
  <2>1. m \notin disturbed /\ Handled(m)
    BY <1>0, <1>1, <1>2, <1>3, <1>6 DEF Handled
  <2>2. Reached(x, m)
    BY <2>1 DEF BroadcastInv, UndisturbedBroadcastReachesAll
  <2>3. CASE x = s
    <3>1. joined'[s] = published /\ m \in 1..published
      BY <2>1 DEF Accept, Typed, TypeOK, BroadcastInv, InOrder, Handled
    <3> QED BY <2>3, <3>1 DEF Reached, Typed, TypeOK
  <2>4. CASE x # s
    BY <1>0, <2>2, <2>4 DEF Accept, Reached, Typed, TypeOK
  <2> QED BY <2>3, <2>4
<1> QED BY <1>4, <1>5, <1>6 DEF BroadcastInv, UndisturbedBroadcastReachesAll

\* A lost subscription marks everything it had not handled.
LEMMA FallDownDisturbs ==
  ASSUME Typed, BroadcastInv, FallDown, UNCHANGED <<handlerVars, published, got, heard>>
  PROVE  BroadcastInv'
<1>1. Queued' = {} /\ Len(inbox') = 0 /\ ~ Broadcasting'
  BY DEF FallDown, Queued, Down, Broadcasting
<1>2. /\ disturbed \subseteq disturbed' /\ Queued \subseteq disturbed'
      /\ Broadcasting => listener.message \in disturbed'
  BY DEF FallDown, Queued
<1>3. InOrder'
  BY <1>1 DEF BroadcastInv, InOrder
<1>4. Progress'
  BY <1>1 DEF BroadcastInv, Progress
<1>5. ASSUME NEW m \in Message, m \notin disturbed', Handled(m)', NEW x \in Socket
      PROVE  Reached(x, m)'
  <2>1. m \notin disturbed /\ Handled(m)
    BY <1>2, <1>5 DEF Handled, Queued
  <2>2. Reached(x, m)
    BY <2>1 DEF BroadcastInv, UndisturbedBroadcastReachesAll
  <2> QED BY <2>2 DEF Reached, handlerVars
<1> QED BY <1>3, <1>4, <1>5 DEF BroadcastInv, UndisturbedBroadcastReachesAll

\* A published message is new, and waits behind the others.
LEMMA PublishInOrder ==
  ASSUME Typed, BroadcastInv, Publish
  PROVE  BroadcastInv'
<1> USE HubAssumption
<1>0. /\ published \in Nat /\ published' = published + 1 /\ published' \in Message
      /\ UNCHANGED <<handlerVars, listener, got, disturbed, Broadcasting>>
      /\ inbox \in Seq(Message) /\ listener.message \in Message \cup {0}
  BY DEF Publish, Typed, TypeOK, Message, Broadcasting, Listener
<1>1. CASE UNCHANGED <<inbox, heard>>
  <2>1. UNCHANGED Queued
    BY <1>1 DEF Queued
  <2>2. InOrder'
    BY <1>0, <1>1, <2>1 DEF BroadcastInv, InOrder
  <2>3. \A s \in Socket, m \in Message : Reached(s, m)' = Reached(s, m)
    BY <1>0 DEF Reached, handlerVars
  <2>4. Progress'
    BY <1>0, <1>1, <2>1, <2>3 DEF BroadcastInv, Progress, Typed, BroadcastOfMessage
  <2>5. \A m \in Message : Handled(m)' = Handled(m)
    BY <1>0, <1>1 DEF Handled
  <2> QED BY <1>0, <2>2, <2>3, <2>4, <2>5 DEF BroadcastInv, UndisturbedBroadcastReachesAll
<1>2. CASE inbox' = Append(inbox, published') /\ heard' = heard \cup {published'}
  <2>1. /\ inbox' \in Seq(Message) /\ Len(inbox') = Len(inbox) + 1 /\ Len(inbox) \in Nat
        /\ \A i \in 1..Len(inbox) : inbox'[i] = inbox[i]
        /\ inbox'[Len(inbox) + 1] = published'
    BY <1>0, <1>2, AppendProperties, LenProperties
  <2>2. DOMAIN inbox = 1..Len(inbox) /\ DOMAIN inbox' = 1..(Len(inbox) + 1)
    BY <1>0, <2>1, LenProperties
  <2>3. Queued' = Queued \cup {published'}
    BY <2>1, <2>2 DEF Queued
  <2>4. \A m \in Queued : m \in 1..published
    BY DEF BroadcastInv, InOrder
  <2>5. \A i \in 1..Len(inbox) : inbox[i] \in Queued
    BY <2>2 DEF Queued
  <2>6. InOrder'
    <3>1. heard' \subseteq 1..published' /\ Queued' \subseteq heard'
      BY <1>0, <1>2, <2>3 DEF BroadcastInv, InOrder
    <3>2. ASSUME NEW i \in 1..Len(inbox'), NEW j \in 1..Len(inbox'), i < j
          PROVE  inbox'[i] < inbox'[j]
      <4>1. i \in 1..Len(inbox) /\ inbox[i] < published'
        BY <1>0, <2>1, <2>4, <2>5, <3>2
      <4>2. CASE j = Len(inbox) + 1
        BY <2>1, <4>1, <4>2
      <4>3. CASE j \in 1..Len(inbox)
        BY <2>1, <3>2, <4>1, <4>3 DEF BroadcastInv, InOrder
      <4> QED BY <2>1, <4>2, <4>3
    <3>3. ASSUME Broadcasting
          PROVE  /\ listener.message \in heard'
                 /\ \A m \in Queued' : listener.message < m
      <4>1. listener.message \in heard /\ listener.message \in 1..published
        BY <3>3 DEF BroadcastInv, InOrder
      <4>2. \A m \in Queued : listener.message < m
        BY <3>3 DEF BroadcastInv, InOrder
      <4> QED BY <1>0, <1>2, <2>3, <4>1, <4>2
    <3> QED BY <1>0, <3>1, <3>2, <3>3 DEF InOrder
  <2>7. \A s \in Socket, m \in Message : Reached(s, m)' = Reached(s, m)
    BY <1>0 DEF Reached, handlerVars
  <2>8. Progress'
    <3>1. published' \notin heard
      BY <1>0 DEF BroadcastInv, InOrder
    <3>2. ASSUME NEW m \in Message, m \notin heard' \/ m \in Queued'
          PROVE  m \notin heard \/ m \in Queued
      BY <1>2, <2>3, <3>1, <3>2
    <3>3. \A s \in Socket : \A m \in Message :
            (m \notin heard' \/ m \in Queued') => got'[s][m] = 0
      BY <1>0, <3>2 DEF BroadcastInv, Progress
    <3> QED BY <1>0, <2>7, <3>3 DEF BroadcastInv, Progress, Typed, BroadcastOfMessage
  <2>9. \A m \in Message : Handled(m)' => Handled(m)
    BY <1>0, <1>2, <2>3 DEF Handled, Queued
  <2> QED BY <1>0, <2>6, <2>7, <2>8, <2>9 DEF BroadcastInv, UndisturbedBroadcastReachesAll
<1> QED BY <1>1, <1>2 DEF Publish

\* A broadcast begins with the first message of the queue, which nobody has.
LEMMA BeginInOrder ==
  ASSUME Typed, BroadcastInv, BeginBroadcast
  PROVE  BroadcastInv'
<1>0. /\ inbox \in Seq(Message) /\ inbox # <<>> /\ inbox' = Tail(inbox)
      /\ UNCHANGED <<handlerVars, published, got, heard, disturbed>>
      /\ listener' = [Waiting EXCEPT !.step = "next", !.message = Head(inbox),
                                     !.size = Cardinality(room)]
      /\ ~ Broadcasting
  BY DEF BeginBroadcast, Typed, TypeOK, Broadcasting
<1>1. /\ listener'.step = "next" /\ listener'.message = Head(inbox)
      /\ listener'.visited = {} /\ Broadcasting'
  BY <1>0 DEF Waiting, Down, Broadcasting
<1>2. /\ Head(inbox) = inbox[1] /\ Tail(inbox) \in Seq(Message)
      /\ Len(inbox) \in Nat \ {0} /\ Len(inbox') = Len(inbox) - 1
      /\ \A i \in 1..Len(inbox') : inbox'[i] = inbox[i + 1]
      /\ Head(inbox) \in Message
  BY <1>0, HeadTailProperties, LenProperties, EmptySeq
<1>3. DOMAIN inbox = 1..Len(inbox) /\ DOMAIN inbox' = 1..Len(inbox')
  BY <1>0, <1>2, LenProperties
<1>4. Queued = Queued' \cup {Head(inbox)}
  <2>1. \A i \in 1..Len(inbox) : i = 1 \/ (i - 1 \in 1..Len(inbox') /\ inbox[i] = inbox'[i - 1])
    BY <1>2
  <2>2. \A i \in 1..Len(inbox') : i + 1 \in 1..Len(inbox) /\ inbox'[i] = inbox[i + 1]
    BY <1>2
  <2>3. Queued \subseteq Queued' \cup {Head(inbox)}
    BY <1>2, <1>3, <2>1 DEF Queued
  <2>4. Queued' \subseteq Queued
    BY <1>3, <2>2 DEF Queued
  <2>5. Head(inbox) \in Queued
    BY <1>2, <1>3 DEF Queued
  <2> QED BY <2>3, <2>4, <2>5
<1>5. \A m \in Queued' : Head(inbox) < m
  BY <1>2, <1>3 DEF Queued, BroadcastInv, InOrder
<1>6. InOrder'
  <2>1. heard' \subseteq 1..published' /\ Queued' \subseteq heard' /\ Head(inbox) \in heard'
    BY <1>0, <1>4 DEF BroadcastInv, InOrder
  <2>2. \A i, j \in 1..Len(inbox') : i < j => inbox'[i] < inbox'[j]
    BY <1>2 DEF BroadcastInv, InOrder
  <2> QED BY <1>1, <1>5, <2>1, <2>2 DEF InOrder
<1>7. Progress'
  BY <1>0, <1>1, <1>2, <1>4 DEF BroadcastInv, Progress
<1>8. ASSUME NEW m \in Message, m \notin disturbed', Handled(m)', NEW x \in Socket
      PROVE  Reached(x, m)'
  <2>1. m \notin disturbed /\ Handled(m)
    BY <1>0, <1>1, <1>4, <1>8 DEF Handled, Queued
  <2>2. Reached(x, m)
    BY <2>1 DEF BroadcastInv, UndisturbedBroadcastReachesAll
  <2> QED BY <1>0, <2>2 DEF Reached, handlerVars
<1> QED BY <1>6, <1>7, <1>8 DEF BroadcastInv, UndisturbedBroadcastReachesAll

\* A send adds the one message to the one socket that did not have it.
LEMMA SendInOrder ==
  ASSUME Typed, BroadcastInv, Send
  PROVE  BroadcastInv'
<1> DEFINE t == listener.target
           n == listener.message
<1>0. /\ UNCHANGED <<handlerVars, inbox, published, heard, disturbed>> /\ UNCHANGED Queued
      /\ listener \in Listener /\ Broadcasting /\ t \in Socket /\ n \in Message
  BY DEF Send, Queued, Broadcasting, Typed, TypeOK, BroadcastOfMessage
<1>1. /\ listener'.step = "next" /\ listener'.message = n
      /\ listener'.visited = listener.visited \cup {t}
      /\ Broadcasting'
  BY <1>0 DEF Send, Listener, Broadcasting
<1>2. \/ alive[t] /\ got' = [got EXCEPT ![t][n] = @ + 1]
      \/ ~ alive[t] /\ got' = got
  BY DEF Send
<1>3. got \in [Socket -> [Message -> Nat]]
  BY DEF Typed, TypeOK
<1>4. \A s \in Socket, m \in Message : m # n \/ s # t => got'[s][m] = got[s][m]
  BY <1>0, <1>2, <1>3
<1>5. InOrder'
  BY <1>0, <1>1 DEF BroadcastInv, InOrder
<1>6. Progress'
  <2>1. ASSUME NEW s \in Socket, NEW m \in Message, m \notin heard' \/ m \in Queued'
        PROVE  got'[s][m] = 0
    <3>1. m # n
      BY <1>0, <2>1 DEF BroadcastInv, InOrder, Message
    <3> QED BY <1>0, <1>4, <2>1, <3>1 DEF BroadcastInv, Progress
  <2>2. ASSUME n \notin disturbed, NEW s \in Socket
        PROVE  /\ s \in listener'.visited => Reached(s, n)'
               /\ s \notin listener'.visited => got'[s][n] = 0
    <3>1. /\ s \in listener.visited => Reached(s, n)
          /\ s \notin listener.visited => got[s][n] = 0
          /\ t \notin listener.visited
      BY <1>0, <2>2 DEF BroadcastInv, Progress, Send
    <3>2. CASE s = t
      <4>1. alive[t] => got'[t][n] = 1
        BY <1>0, <1>2, <1>3, <3>1, <3>2
      <4> QED BY <1>0, <1>1, <3>2, <4>1 DEF Reached, handlerVars
    <3>3. CASE s # t
      BY <1>0, <1>1, <1>4, <3>1, <3>3 DEF Reached, handlerVars
    <3> QED BY <3>2, <3>3
  <2> QED BY <1>0, <1>1, <2>1, <2>2 DEF Progress
<1>7. ASSUME NEW m \in Message, m \notin disturbed', Handled(m)', NEW x \in Socket
      PROVE  Reached(x, m)'
  <2>1. m \notin disturbed /\ Handled(m) /\ m # n
    BY <1>0, <1>1, <1>7 DEF Handled
  <2>2. Reached(x, m)
    BY <2>1 DEF BroadcastInv, UndisturbedBroadcastReachesAll
  <2> QED BY <1>0, <1>4, <2>1, <2>2 DEF Reached, handlerVars
<1> QED BY <1>5, <1>6, <1>7 DEF BroadcastInv, UndisturbedBroadcastReachesAll

\* A broadcast that ends has visited the whole room.
LEMMA EndReachesAll ==
  ASSUME Typed, BroadcastInv, EndBroadcast
  PROVE  BroadcastInv'
<1> DEFINE n == listener.message
<1>0. /\ UNCHANGED <<alive, joined, inbox, published, got, heard, disturbed>>
      /\ UNCHANGED Queued /\ ~ Broadcasting' /\ Broadcasting
      /\ room' \subseteq room /\ room \subseteq listener.visited /\ n \in Message
  BY DEF EndBroadcast, Queued, Forget, Waiting, Down, Broadcasting, Typed, BroadcastOfMessage
<1>1. \A s \in Socket, m \in Message : Reached(s, m) => Reached(s, m)'
  BY <1>0 DEF Reached
<1>2. InOrder'
  BY <1>0 DEF BroadcastInv, InOrder
<1>3. Progress'
  BY <1>0 DEF BroadcastInv, Progress
<1>4. ASSUME NEW m \in Message, m \notin disturbed', Handled(m)', NEW x \in Socket
      PROVE  Reached(x, m)'
  <2>1. CASE m = n
    <3>1. x \in listener.visited => Reached(x, n)
      BY <1>0, <1>4, <2>1 DEF BroadcastInv, Progress
    <3> QED BY <1>0, <1>1, <2>1, <3>1 DEF Reached
  <2>2. CASE m # n
    <3>1. m \notin disturbed /\ Handled(m)
      BY <1>0, <1>4, <2>2 DEF Handled
    <3> QED BY <1>1, <3>1 DEF BroadcastInv, UndisturbedBroadcastReachesAll
  <2> QED BY <2>1, <2>2
<1> QED BY <1>2, <1>3, <1>4 DEF BroadcastInv, UndisturbedBroadcastReachesAll

\* Choosing the next socket, or subscribing, tells nobody anything.
LEMMA ListenerMoves ==
  ASSUME Typed, BroadcastInv, Subscribe \/ \E s \in Socket : NextSocket(s)
  PROVE  BroadcastInv'
<1>0. UNCHANGED <<handlerVars, inbox, published, got, heard, disturbed>> /\ UNCHANGED Queued
  <2>1. UNCHANGED <<handlerVars, inbox, published, got, heard, disturbed>>
    BY DEF Subscribe, NextSocket
  <2> QED BY <2>1 DEF Queued
<1>1. \A s \in Socket, m \in Message : Reached(s, m)' = Reached(s, m)
  BY <1>0 DEF Reached, handlerVars
<1>2. CASE Subscribe
  <2>1. ~ Broadcasting /\ ~ Broadcasting'
    BY <1>2 DEF Subscribe, Waiting, Down, Broadcasting
  <2>2. InOrder' /\ Progress'
    BY <1>0, <2>1 DEF BroadcastInv, InOrder, Progress
  <2>3. \A m \in Message : Handled(m)' = Handled(m)
    BY <1>0, <2>1 DEF Handled
  <2> QED BY <1>0, <1>1, <2>2, <2>3 DEF BroadcastInv, UndisturbedBroadcastReachesAll
<1>3. ASSUME NEW s \in Socket, NextSocket(s) PROVE BroadcastInv'
  <2>1. /\ Broadcasting /\ Broadcasting' /\ listener'.message = listener.message
        /\ listener'.visited = listener.visited /\ listener'.target = s
        /\ s \notin listener.visited
    BY <1>3 DEF NextSocket, Broadcasting, Typed, TypeOK, Listener
  <2>2. InOrder'
    BY <1>0, <2>1 DEF BroadcastInv, InOrder
  <2>3. listener.message \in Message
    BY <2>1 DEF Typed, BroadcastOfMessage
  <2>4. Progress'
    BY <1>0, <1>1, <2>1, <2>3 DEF BroadcastInv, Progress
  <2>5. \A m \in Message : Handled(m)' = Handled(m)
    BY <1>0, <2>1 DEF Handled
  <2> QED BY <1>0, <1>1, <2>2, <2>4, <2>5 DEF BroadcastInv, UndisturbedBroadcastReachesAll
<1> QED BY <1>2, <1>3

\* An endpoint's step lets nobody into the room, but Accept.
LEMMA HandlerLeaves ==
  ASSUME Typed, BroadcastInv, NEW s \in Socket,
         Connect(s) \/ Handle(s) \/ ClientLeaves(s) \/ HandlerCrashes(s)
  PROVE  BroadcastInv'
<1>1. CASE Accept(s)
  BY <1>1, AcceptDisturbs
<1>2. CASE Connect(s) \/ AcceptFails(s) \/ ClientLeaves(s) \/ HandlerCrashes(s)
  <2>1. /\ UNCHANGED <<listener, inbox, published, got, heard, room, joined, disturbed>>
        /\ \A x \in Socket : alive'[x] => alive[x]
    BY <1>2 DEF Connect, AcceptFails, ClientLeaves, HandlerCrashes, Typed, TypeOK
  <2> QED BY <2>1, OnlyLeaving
<1>3. CASE CloseOld(s) \/ Disconnect(s)
  <2>1. /\ UNCHANGED <<listener, inbox, published, got, heard, joined>>
        /\ \A x \in Socket : alive'[x] => alive[x]
        /\ room' \subseteq room /\ disturbed \subseteq disturbed'
    BY <1>3 DEF CloseOld, Disconnect, Forget, Disturb, Typed, TypeOK
  <2> QED BY <2>1, OnlyLeaving
<1> QED BY <1>1, <1>2, <1>3 DEF Handle

\* A broadcast that nobody disturbs reaches every socket of the room exactly once, for
\* any number of clients, messages and losses of the connection.
THEOREM BroadcastReachesAll == Spec => []UndisturbedBroadcastReachesAll
<1>1. Init => BroadcastInv
  BY HubAssumption DEF Init, BroadcastInv, InOrder, Progress, Queued, Down, Broadcasting,
     UndisturbedBroadcastReachesAll, Handled
<1>2. Typed /\ BroadcastInv /\ [Next]_vars => BroadcastInv'
  <2> SUFFICES ASSUME Typed, BroadcastInv, [Next]_vars PROVE BroadcastInv'
    OBVIOUS
  <2>1. CASE Publish \/ ConnectionLost
    BY <2>1, PublishInOrder, FallDownDisturbs DEF ConnectionLost
  <2>2. CASE Listen
    BY <2>2, FallDownDisturbs, BeginInOrder, SendInOrder, EndReachesAll, ListenerMoves
       DEF Listen, IterationBreaks
  <2>3. CASE UNCHANGED vars
    BY <2>3, OnlyLeaving DEF vars, handlerVars
  <2> QED BY <2>1, <2>2, <2>3, HandlerLeaves DEF Next
<1>3. BroadcastInv => UndisturbedBroadcastReachesAll
  BY DEF BroadcastInv
<1> QED BY <1>1, <1>2, <1>3, TypesAreInductive, PTL DEF Spec
=============================================================================
