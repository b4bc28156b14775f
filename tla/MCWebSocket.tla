----------------------------- MODULE MCWebSocket -----------------------------
(* Small instances of WebSocketTransport. *)
EXTENDS WebSocketTransport
=============================================================================
