-------------------------- MODULE MCCameraNetwork --------------------------
(***************************************************************************)
(* Instances of CameraNetwork for TLC: a subnet of 8 addresses whose       *)
(* camera and gateway are the addresses 5 and 2. The third highest host    *)
(* address is the last one the search looks at, so that two leases and the *)
(* camera use it up.                                                       *)
(***************************************************************************)
EXTENDS CameraNetwork

=============================================================================
