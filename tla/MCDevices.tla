----------------------------- MODULE MCDevices ------------------------------
(* A small instance of the devices: waits of one and two ticks, two tries.   *)
EXTENDS Devices, TLC

MCTicks == TIMEOUT :> 1 @@ MOTOR :> 2 @@ SPIN_UP :> 1 @@ SETTLE :> 1
=============================================================================
