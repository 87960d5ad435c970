--------------------------- MODULE MCLeaseManager ---------------------------
(* LeaseManager on a small instance: ids are model values, and leases, jobs, *)
(* workers and keys are each interchangeable.                                *)
EXTENDS LeaseManager, TLC

IdSymmetry ==
  Permutations(Lease) \cup Permutations(Job) \cup Permutations(Worker)
    \cup Permutations(Key)
=============================================================================
