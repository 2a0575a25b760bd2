--------------------------- MODULE MCPostUpdate ----------------------------
(* The midstream w0 and two downstreams: d1 deploys through a gitops      *)
(* cluster, d2 through a ship one, so a loop can stop between them.  Two   *)
(* upstream updates: the state of 1 carries a version label, the one of 2  *)
(* does not, so its label comes from a recorded version.                   *)
EXTENDS PostUpdate

CONSTANTS w0, d1, d2, nil

MCDownstreamList == <<d1, d2>>
MCClusterOf(w) == CASE w = w0 -> "none" [] w = d1 -> "gitops" [] OTHER -> "ship"
=============================================================================
