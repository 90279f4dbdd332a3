------------------------- MODULE MCSecretsRotation --------------------------
(***************************************************************************)
(* One credential, three overlapping calls, two generations of its secret, *)
(* wipes that may throw and a provider that may answer garbage.            *)
(* The policy "log" is left out: a rotation under it succeeds as under any *)
(* other and fails as one without a policy.                                *)
(***************************************************************************)
EXTENDS SecretsRotation

MCPolicies == {"halt", "quarantine"}
=============================================================================
