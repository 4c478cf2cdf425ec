---------------------------- MODULE MCRCRegistry ----------------------------
(* Instances of RCRegistry for TLC: two packs that share one path. *)
EXTENDS RCRegistry, TLC

CONSTANTS r1, r2, shared, own, short

MCRoots == {r1, r2}
MCPaths == {shared, own, short}
MCShortPaths == {short}
MCHolds == (r1 :> {shared}) @@ (r2 :> {shared, own})

=============================================================================
