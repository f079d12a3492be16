\* Two threads, three leases on two identities.
CONSTANTS
  Thread = {t1, t2}
  l1 = l1
  l2 = l2
  l3 = l3
  same = same
  other = other
  Lease <- MCLease
  IdentityOf <- MCIdentityOf
  Identity = {same, other}
  Runtime = {r1, r2, r3}
  None = None
SPECIFICATION FairSpec
INVARIANTS
  TypeOK
  RefsCountHolders
  HeldLeaseIsServed
  NoRuntimeLeaks
PROPERTIES
  HeldRuntimeKept
  ImplementsFairSharing
  CallsReturn
