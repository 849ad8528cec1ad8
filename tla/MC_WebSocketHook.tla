--------------------------- MODULE MC_WebSocketHook ---------------------------
(***************************************************************************)
(* Small instances of WebSocketHook for TLC.                               *)
(***************************************************************************)
EXTENDS WebSocketHook

=============================================================================
