--------------------------- MODULE MCCameraProxy ---------------------------
(* The camera web proxy for TLC. Before it has the lock a Start in progress  *)
(* only holds its own arguments, so one handler that starts again and again  *)
(* takes every step several could.                                           *)
EXTENDS CameraProxy

=============================================================================
