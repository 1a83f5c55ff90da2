--------------------------- MODULE MCSensorsHal ---------------------------
(* SensorsHal with two of the default table's sensors: the accelerometer   *)
(* (periodic, accepts injected data) and the proximity sensor (on-change,  *)
(* wake-up).                                                               *)
EXTENDS SensorsHal
CONSTANTS accel, prox
============================================================================
