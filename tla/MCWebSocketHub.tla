--------------------------- MODULE MCWebSocketHub ---------------------------
(***************************************************************************)
(* Instances of WebSocketHub: which socket carries which device_id.        *)
(***************************************************************************)
EXTENDS WebSocketHub

CONSTANTS s3, d1

\* a phone that reconnects, next to a client without device_id
PhoneAndBrowser == [s \in Socket |-> IF s = s3 THEN None ELSE d1]
\* nobody sends a device_id
Browsers == [s \in Socket |-> None]
=============================================================================
