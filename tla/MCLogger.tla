------------------------------ MODULE MCLogger ------------------------------
(***************************************************************************)
(* Logger with two motors, a queue of three operations and a service that  *)
(* holds one datagram.                                                     *)
(***************************************************************************)
EXTENDS Logger
=============================================================================
