------------------------ MODULE MCHostedPluginRemote ------------------------
(***************************************************************************)
(* One browser connection, two sidecars that both deploy one of the two    *)
(* plugins; the environment names one sidecar, the other is discovered.    *)
(***************************************************************************)
EXTENDS HostedPluginRemote, TLC

CONSTANTS c1, e1, e2, p1, p2

MCHosts == (e1 :> {p1, p2}) @@ (e2 :> {p2})
MCEnvEndpoint == (p1 :> None) @@ (p2 :> e2)
=============================================================================
