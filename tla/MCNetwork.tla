----------------------------- MODULE MCNetwork -----------------------------
(* Two connections from one address, and two subscribers.                   *)
EXTENDS Network

CONSTANTS c1, c2, engine, sentinel

MCAddressOf(c) == "here"

(* The consensus engine's receiver gets the received messages.              *)
EngineHears == Hears(engine)
=============================================================================
