---------------------- MODULE MCHostedPluginRemoteLive ----------------------
(***************************************************************************)
(* Two browser connections (a page and its reload, or two tabs) and one    *)
(* sidecar with two plugins, reached through discovery only.               *)
(***************************************************************************)
EXTENDS HostedPluginRemote, TLC

CONSTANTS c1, c2, e1, p1, p2

MCHosts == e1 :> {p1, p2}
MCEnvEndpoint == (p1 :> None) @@ (p2 :> None)
=============================================================================
