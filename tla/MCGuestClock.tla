---------------------------- MODULE MCGuestClock ----------------------------
(* GuestClock with periods of a few ticks that coincide now and then.      *)
EXTENDS GuestClock

MCOthers == {"dsp", "pump"}
MCPeriod == [h \in {"pe", "pace", "dsp", "pump"} |->
  CASE h = "pe" -> 2 [] h = "pace" -> 4 [] h = "dsp" -> 3 [] h = "pump" -> 5]
=============================================================================
