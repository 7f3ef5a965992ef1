---------------------------- MODULE MCUploadQuota -----------------------------
(* UploadQuota with two ways to hash the urls of uploads. *)
EXTENDS UploadQuota, TLC

Distinct(u) == u
Colliding(u) == 0

Clients == Permutations(Client)

=============================================================================
