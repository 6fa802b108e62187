-------------------------- MODULE MCOrderBookReplay --------------------------
(* One replay over the events of MCReplayEvents.                            *)
EXTENDS OrderBookReplay, MCReplayEvents
=============================================================================
