--------------------------- MODULE MCPortsPlugin ---------------------------
(***************************************************************************)
(* Two ports the user is asked about, one of them listening on both        *)
(* loopback addresses, a third that is an endpoint of the devfile, and two *)
(* redirect endpoints.                                                     *)
(***************************************************************************)
EXTENDS PortsPlugin

CONSTANTS p1, p2, p3, r1, r2

MCListeners == {[portNumber |-> p1, interfaceListen |-> "127.0.0.1"],
                [portNumber |-> p1, interfaceListen |-> "::1"],
                [portNumber |-> p2, interfaceListen |-> "0.0.0.0"],
                [portNumber |-> p3, interfaceListen |-> "0.0.0.0"]}
MCRedirects == <<r1, r2>>
=============================================================================
