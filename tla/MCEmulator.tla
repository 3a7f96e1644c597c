------------------------------ MODULE MCEmulator ------------------------------
(* Values for the emulator's commands, scenario and start configuration. *)
EXTENDS UdpEmulator

Start == [on |-> TRUE, min |-> 2, max |-> 2, mix |-> {"delay", "loss"}]
Scenario == <<<<"bw", 0>>>>
ScenarioOff == <<<<"stall off">>>>
Console == {<<"stall", 1>>}
=============================================================================
