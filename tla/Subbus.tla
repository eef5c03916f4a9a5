------------------------------- MODULE Subbus -------------------------------
(***************************************************************************)
(* What subbusd.cc gives to every server of a subbus: its clients, each of *)
(* which has one request at a time.  A program is linked with the server   *)
(* on a serial board (SerUsb) or with the one on CAN (CanBus).             *)
(***************************************************************************)
EXTENDS Naturals

CONSTANTS
  Clients,     \* the clients of the server
  MaxRequests  \* bound: requests the clients make
=============================================================================
