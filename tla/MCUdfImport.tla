---------------------------- MODULE MCUdfImport ----------------------------
(***************************************************************************)
(* The instance of UdfImport: two sessions of one tenant on one server,    *)
(* two functions with a context each.                                      *)
(***************************************************************************)
EXTENDS UdfImport, TLC

CONSTANTS s1, s2, tenant, f, g, here

OneTenant == [s \in {s1, s2} |-> tenant]
OneServer == [s \in {s1, s2} |-> here]
OwnGlobals == [n \in {f, g} |-> n]

\* The two sessions have the same server and tenant.
SessionSymmetry == Permutations({s1, s2})
=============================================================================
