-------------------------- MODULE MCOrderLifecycle --------------------------
(* Small instances of OrderLifecycle and OrderScreens for TLC. *)
EXTENDS OrderScreens, TLC

\* Orders, drivers and sessions are interchangeable.
Interchangeable ==
  Permutations(OrderIds) \cup Permutations(Drivers) \cup Permutations(Sessions)

\* No action reads the audit trail: a run that checks nothing about it may
\* take states that differ only there for one.
WithoutAudit ==
  <<status, orderType, owner, driver, completedAt, welcome, rated,
    claims, account, ordering, txn>>
=============================================================================
