----------------------------- MODULE MCDeviceHub -----------------------------
(* Instances of DeviceHub for TLC.                                            *)
EXTENDS DeviceHub

===============================================================================
