----------------------------- MODULE MCDeviceIO -----------------------------
(***************************************************************************)
(* DeviceIO with short timeouts and a tick counter that soon wraps.        *)
(***************************************************************************)
EXTENDS DeviceIO
=============================================================================
