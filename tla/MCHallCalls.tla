----------------------------- MODULE MCHallCalls -----------------------------
(* HallCalls on a small shaft: every hall call watched, or a chosen one.   *)
EXTENDS HallCalls

EveryHallCall == HallCall
TwoUp         == {<<0, "CALL_UP">>, <<1, "CALL_UP">>}
=============================================================================
