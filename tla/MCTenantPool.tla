---------------------------- MODULE MCTenantPool ----------------------------
(***************************************************************************)
(* Small instances of TenantPool: two tenants, one pool too few.           *)
(***************************************************************************)
EXTENDS TenantPool, TLC

CONSTANTS n1, n2,          \* databases
          q1, q2, q3,      \* requests
          b1,              \* a background job
          r1,              \* a Remove
          c1, c2, c3       \* handles

\* Requests that release, databases and handles are interchangeable.
Symmetric ==
  Permutations(Names) \cup Permutations(Handles) \cup Permutations(Requests \ Leakers)
=============================================================================
