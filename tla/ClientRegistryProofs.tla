------------------------ MODULE ClientRegistryProofs ------------------------
(***************************************************************************)
(* Proofs about ClientRegistry, for every finite set of threads and leases *)
(* and every assignment of identities to leases.  IInv is the inductive    *)
(* invariant: who holds which mutex, who refers to which runtime, and what *)
(* the reference counts count.                                             *)
(***************************************************************************)
EXTENDS ClientRegistry, FiniteSetTheorems, TLAPS

InStart == {"acquire", "factory", "store", "commit"}
HasClient == {"store", "cancel", "wait"}

\* l.mu is held by the one thread that is inside Start on the lease, and the
\* lease has no release by then; r.mu is held by the one thread inside acquire's
\* factory, and there is still no entry for its identity.
MutexInv ==
  /\ \A t \in Thread : pc[t] \in InStart => leaseMu[arg[t]] = t
  /\ \A l \in Lease : leaseMu[l] # None =>
       /\ pc[leaseMu[l]] \in InStart
       /\ arg[leaseMu[l]] = l
       /\ ~release[l]
  /\ \A t \in Thread : pc[t] \in {"factory", "store"} =>
       regMu = t /\ entry[Wanted(t)] = None
  /\ regMu # None => pc[regMu] \in {"factory", "store"}

\* A runtime with a goroutine is referred to from exactly one place, an entry
\* or a thread, and only a thread's can be cancelled.
OwnerInv ==
  /\ \A t \in Thread : client[t] # None <=> pc[t] \in HasClient
  /\ \A t, u \in Thread : client[t] = client[u] /\ client[t] # None => t = u
  /\ \A t \in Thread, i \in Identity :
       client[t] # None => client[t] # entry[i]
  /\ \A i, j \in Identity : entry[i] = entry[j] /\ entry[i] # None => i = j
  /\ \A t \in Thread : client[t] # None => goroutine[client[t]] # "none"
  /\ \A i \in Identity : entry[i] # None => goroutine[entry[i]] # "none"
  /\ \A rt \in cancelled : \E t \in Thread : client[t] = rt /\ pc[t] = "wait"
  /\ \A t \in Thread : pc[t] = "wait" => client[t] \in cancelled
  /\ \A rt \in Runtime : goroutine[rt] # "none" =>
       \/ \E i \in Identity : entry[i] = rt
       \/ \E t \in Thread : client[t] = rt

IInv == TypeOK /\ MutexInv /\ OwnerInv /\ RefsCountHolders

-----------------------------------------------------------------------------
\* Adding an element to a subset of a finite set adds 1 to its cardinality.
LEMMA AddOne ==
  ASSUME NEW U, IsFiniteSet(U), NEW S, S \subseteq U, NEW x \in U, x \notin S
  PROVE  Cardinality(S \cup {x}) = Cardinality(S) + 1
  BY FS_Subset, FS_AddElement

\* Removing a member takes 1 from it, and there was 1 to take.
LEMMA RemoveOne ==
  ASSUME NEW U, IsFiniteSet(U), NEW S, S \subseteq U, NEW x \in S
  PROVE  /\ Cardinality(S \ {x}) = Cardinality(S) - 1
         /\ Cardinality(S) > 0
<1>1. IsFiniteSet(S) /\ IsFiniteSet(S \ {x})
  BY FS_Subset
<1>2. Cardinality(S) \in Nat /\ Cardinality(S \ {x}) \in Nat
  BY <1>1, FS_CardinalityType
<1>3. Cardinality(S \ {x}) = Cardinality(S) - 1
  BY <1>1, FS_RemoveElement
<1> QED
  BY <1>2, <1>3

\* The two sets a reference count counts are finite.
LEMMA HoldersFinite ==
  ASSUME NEW i \in Identity
  PROVE  /\ Cardinality(HoldingLeases(i)) \in Nat
         /\ Cardinality(InFlight(i)) \in Nat
         /\ HoldingLeases(i) \subseteq Lease
         /\ InFlight(i) \subseteq Thread
<1>1. HoldingLeases(i) \subseteq Lease /\ InFlight(i) \subseteq Thread
  BY DEF HoldingLeases, InFlight
<1>2. IsFiniteSet(HoldingLeases(i)) /\ IsFiniteSet(InFlight(i))
  BY <1>1, FiniteAssumption, FS_Subset
<1> QED
  BY <1>1, <1>2, FS_CardinalityType

-----------------------------------------------------------------------------
LEMMA InitIInv == Init => IInv
<1> SUFFICES ASSUME Init PROVE IInv
  OBVIOUS
<1> USE NoneAssumption, IdentityAssumption DEF Init
<1>1. TypeOK
  BY DEF TypeOK, Label
<1>2. MutexInv
  BY DEF MutexInv, InStart
<1>3. OwnerInv
  BY DEF OwnerInv, HasClient
<1>4. RefsCountHolders
  <2> SUFFICES ASSUME NEW i \in Identity
               PROVE /\ refs[i] = Cardinality(HoldingLeases(i)) + Cardinality(InFlight(i))
                     /\ (entry[i] = None) <=> (refs[i] = 0)
    BY DEF RefsCountHolders
  <2>1. HoldingLeases(i) = {} /\ InFlight(i) = {}
    BY DEF HoldingLeases, InFlight
  <2> QED
    BY <2>1, FS_EmptySet
<1> QED
  BY <1>1, <1>2, <1>3, <1>4 DEF IInv

\* Every step preserves the type of every variable.
LEMMA TypeStep == IInv /\ [Next]_vars => TypeOK'
<1> SUFFICES ASSUME IInv, [Next]_vars PROVE TypeOK'
  OBVIOUS
<1> USE NoneAssumption, IdentityAssumption
<1> USE DEF IInv, TypeOK, Label, OwnerInv, HasClient, Goto, Wanted, leaseVars, registryVars, runtimeVars
<1>1. ASSUME NEW t \in Thread, NEW l \in Lease, StartCall(t, l) PROVE TypeOK'
  BY <1>1 DEF StartCall
<1>2. ASSUME NEW t \in Thread, NEW l \in Lease, StopCall(t, l) PROVE TypeOK'
  BY <1>2 DEF StopCall
<1>3. ASSUME NEW t \in Thread, StartAlreadyHeld(t) PROVE TypeOK'
  BY <1>3 DEF StartAlreadyHeld
<1>4. ASSUME NEW t \in Thread, StartLocksLease(t) PROVE TypeOK'
  BY <1>4 DEF StartLocksLease
<1>5. ASSUME NEW t \in Thread, AcquireReuses(t) PROVE TypeOK'
  BY <1>5 DEF AcquireReuses
<1>6. ASSUME NEW t \in Thread, AcquireMisses(t) PROVE TypeOK'
  BY <1>6 DEF AcquireMisses
<1>7. ASSUME NEW t \in Thread, FactoryFails(t) PROVE TypeOK'
  BY <1>7 DEF FactoryFails
<1>8. ASSUME NEW t \in Thread, FactoryStartsClient(t) PROVE TypeOK'
  BY <1>8 DEF FactoryStartsClient
<1>9. ASSUME NEW t \in Thread, StoreEntry(t) PROVE TypeOK'
  BY <1>9 DEF StoreEntry
<1>10. ASSUME NEW t \in Thread, StartCommits(t) PROVE TypeOK'
  BY <1>10 DEF StartCommits
<1>11. ASSUME NEW t \in Thread, StopNothingHeld(t) PROVE TypeOK'
  BY <1>11 DEF StopNothingHeld
<1>12. ASSUME NEW t \in Thread, StopTakesRelease(t) PROVE TypeOK'
  BY <1>12 DEF StopTakesRelease
<1>13. ASSUME NEW t \in Thread, ReleaseShared(t) PROVE TypeOK'
  BY <1>13 DEF ReleaseShared
<1>14. ASSUME NEW t \in Thread, ReleaseLast(t) PROVE TypeOK'
  BY <1>14 DEF ReleaseLast
<1>15. ASSUME NEW t \in Thread, ClientCancel(t) PROVE TypeOK'
  BY <1>15 DEF ClientCancel
<1>16. ASSUME NEW t \in Thread, ClientWaited(t) PROVE TypeOK'
  BY <1>16 DEF ClientWaited
<1>17. ASSUME NEW rt \in Runtime, RunClientReturns(rt) PROVE TypeOK'
  BY <1>17 DEF RunClientReturns
<1>18. CASE UNCHANGED vars
  BY <1>18 DEF vars
<1> QED
  BY <1>1, <1>2, <1>3, <1>4, <1>5, <1>6, <1>7, <1>8, <1>9, <1>10, <1>11, <1>12, <1>13, <1>14, <1>15, <1>16, <1>17, <1>18 DEF Next, StartStep, StopStep

\* Every step preserves the account of the mutexes.
LEMMA MutexStep == IInv /\ [Next]_vars => MutexInv'
<1> SUFFICES ASSUME IInv, [Next]_vars PROVE MutexInv'
  OBVIOUS
<1> USE NoneAssumption, IdentityAssumption
<1> USE DEF IInv, TypeOK, Label, MutexInv, InStart, Goto, Wanted, leaseVars, registryVars, runtimeVars
<1>1. ASSUME NEW t \in Thread, NEW l \in Lease, StartCall(t, l) PROVE MutexInv'
  BY <1>1 DEF StartCall
<1>2. ASSUME NEW t \in Thread, NEW l \in Lease, StopCall(t, l) PROVE MutexInv'
  BY <1>2 DEF StopCall
<1>3. ASSUME NEW t \in Thread, StartAlreadyHeld(t) PROVE MutexInv'
  BY <1>3 DEF StartAlreadyHeld
<1>4. ASSUME NEW t \in Thread, StartLocksLease(t) PROVE MutexInv'
  BY <1>4 DEF StartLocksLease
<1>5. ASSUME NEW t \in Thread, AcquireReuses(t) PROVE MutexInv'
  BY <1>5 DEF AcquireReuses
<1>6. ASSUME NEW t \in Thread, AcquireMisses(t) PROVE MutexInv'
  BY <1>6 DEF AcquireMisses
<1>7. ASSUME NEW t \in Thread, FactoryFails(t) PROVE MutexInv'
  BY <1>7 DEF FactoryFails
<1>8. ASSUME NEW t \in Thread, FactoryStartsClient(t) PROVE MutexInv'
  BY <1>8 DEF FactoryStartsClient
<1>9. ASSUME NEW t \in Thread, StoreEntry(t) PROVE MutexInv'
  BY <1>9 DEF StoreEntry
<1>10. ASSUME NEW t \in Thread, StartCommits(t) PROVE MutexInv'
  BY <1>10 DEF StartCommits
<1>11. ASSUME NEW t \in Thread, StopNothingHeld(t) PROVE MutexInv'
  BY <1>11 DEF StopNothingHeld
<1>12. ASSUME NEW t \in Thread, StopTakesRelease(t) PROVE MutexInv'
  BY <1>12 DEF StopTakesRelease
<1>13. ASSUME NEW t \in Thread, ReleaseShared(t) PROVE MutexInv'
  BY <1>13 DEF ReleaseShared
<1>14. ASSUME NEW t \in Thread, ReleaseLast(t) PROVE MutexInv'
  BY <1>14 DEF ReleaseLast
<1>15. ASSUME NEW t \in Thread, ClientCancel(t) PROVE MutexInv'
  BY <1>15 DEF ClientCancel
<1>16. ASSUME NEW t \in Thread, ClientWaited(t) PROVE MutexInv'
  BY <1>16 DEF ClientWaited
<1>17. ASSUME NEW rt \in Runtime, RunClientReturns(rt) PROVE MutexInv'
  BY <1>17 DEF RunClientReturns
<1>18. CASE UNCHANGED vars
  BY <1>18 DEF vars
<1> QED
  BY <1>1, <1>2, <1>3, <1>4, <1>5, <1>6, <1>7, <1>8, <1>9, <1>10, <1>11, <1>12, <1>13, <1>14, <1>15, <1>16, <1>17, <1>18 DEF Next, StartStep, StopStep

\* Every step preserves the account of who refers to which runtime.
LEMMA OwnerStep == IInv /\ [Next]_vars => OwnerInv'
<1> SUFFICES ASSUME IInv, [Next]_vars PROVE OwnerInv'
  OBVIOUS
<1> USE NoneAssumption, IdentityAssumption
<1> USE DEF IInv, TypeOK, Label, MutexInv, OwnerInv, HasClient, Goto, Wanted, leaseVars, registryVars, runtimeVars
<1>1. ASSUME NEW t \in Thread, NEW l \in Lease, StartCall(t, l) PROVE OwnerInv'
  BY <1>1 DEF StartCall
<1>2. ASSUME NEW t \in Thread, NEW l \in Lease, StopCall(t, l) PROVE OwnerInv'
  BY <1>2 DEF StopCall
<1>3. ASSUME NEW t \in Thread, StartAlreadyHeld(t) PROVE OwnerInv'
  BY <1>3 DEF StartAlreadyHeld
<1>4. ASSUME NEW t \in Thread, StartLocksLease(t) PROVE OwnerInv'
  BY <1>4 DEF StartLocksLease
<1>5. ASSUME NEW t \in Thread, AcquireReuses(t) PROVE OwnerInv'
  BY <1>5 DEF AcquireReuses
<1>6. ASSUME NEW t \in Thread, AcquireMisses(t) PROVE OwnerInv'
  BY <1>6 DEF AcquireMisses
<1>7. ASSUME NEW t \in Thread, FactoryFails(t) PROVE OwnerInv'
  BY <1>7 DEF FactoryFails
<1>8. ASSUME NEW t \in Thread, FactoryStartsClient(t) PROVE OwnerInv'
  <2>1. PICK rt \in Runtime :
          /\ goroutine[rt] = "none"
          /\ goroutine' = [goroutine EXCEPT ![rt] = "running"]
          /\ client' = [client EXCEPT ![t] = rt]
    BY <1>8 DEF FactoryStartsClient
  <2>2. /\ pc[t] = "factory" /\ pc' = [pc EXCEPT ![t] = "store"]
        /\ UNCHANGED <<entry, cancelled>>
    BY <1>8 DEF FactoryStartsClient
  <2>3. rt # None /\ rt \notin cancelled
    BY <2>1
  <2>4. /\ \A u \in Thread : client[u] # rt
        /\ \A i \in Identity : entry[i] # rt
    BY <2>1, <2>3
  <2>5. \A r \in cancelled' : \E u \in Thread : client'[u] = r /\ pc'[u] = "wait"
    <3> SUFFICES ASSUME NEW r \in cancelled
                 PROVE  \E u \in Thread : client'[u] = r /\ pc'[u] = "wait"
      BY <2>2
    <3>1. PICK u \in Thread : client[u] = r /\ pc[u] = "wait"
      OBVIOUS
    <3> QED
      BY <2>1, <2>2, <3>1
  <2>6. \A r \in Runtime : goroutine'[r] # "none" =>
          \/ \E i \in Identity : entry'[i] = r
          \/ \E u \in Thread : client'[u] = r
    <3> SUFFICES ASSUME NEW r \in Runtime, goroutine'[r] # "none"
                 PROVE  \/ \E i \in Identity : entry[i] = r
                        \/ \E u \in Thread : client'[u] = r
      BY <2>2
    <3> QED
      BY <2>1, <2>2
  <2> QED
    BY <2>1, <2>2, <2>3, <2>4, <2>5, <2>6
<1>9. ASSUME NEW t \in Thread, StoreEntry(t) PROVE OwnerInv'
  BY <1>9 DEF StoreEntry
<1>10. ASSUME NEW t \in Thread, StartCommits(t) PROVE OwnerInv'
  BY <1>10 DEF StartCommits
<1>11. ASSUME NEW t \in Thread, StopNothingHeld(t) PROVE OwnerInv'
  BY <1>11 DEF StopNothingHeld
<1>12. ASSUME NEW t \in Thread, StopTakesRelease(t) PROVE OwnerInv'
  BY <1>12 DEF StopTakesRelease
<1>13. ASSUME NEW t \in Thread, ReleaseShared(t) PROVE OwnerInv'
  BY <1>13 DEF ReleaseShared
<1>14. ASSUME NEW t \in Thread, ReleaseLast(t) PROVE OwnerInv'
  BY <1>14 DEF ReleaseLast
<1>15. ASSUME NEW t \in Thread, ClientCancel(t) PROVE OwnerInv'
  BY <1>15 DEF ClientCancel
<1>16. ASSUME NEW t \in Thread, ClientWaited(t) PROVE OwnerInv'
  BY <1>16 DEF ClientWaited
<1>17. ASSUME NEW rt \in Runtime, RunClientReturns(rt) PROVE OwnerInv'
  BY <1>17 DEF RunClientReturns
<1>18. CASE UNCHANGED vars
  BY <1>18 DEF vars
<1> QED
  BY <1>1, <1>2, <1>3, <1>4, <1>5, <1>6, <1>7, <1>8, <1>9, <1>10, <1>11, <1>12, <1>13, <1>14, <1>15, <1>16, <1>17, <1>18 DEF Next, StartStep, StopStep

-----------------------------------------------------------------------------
\* What RefsCountHolders says of one identity.
Counted(i) ==
  /\ refs[i] = Cardinality(HoldingLeases(i)) + Cardinality(InFlight(i))
  /\ (entry[i] = None) <=> (refs[i] = 0)

\* A step that leaves the counts, the entries and the leases' releases alone,
\* and that neither begins nor ends a thread's time at commit or release,
\* changes nothing that the counts count.
LEMMA CountUndisturbed ==
  ASSUME IInv,
         UNCHANGED <<refs, entry, release>>,
         \A u \in Thread :
           /\ pc'[u] \in {"commit", "release"} <=> pc[u] \in {"commit", "release"}
           /\ pc[u] \in {"commit", "release"} => arg'[u] = arg[u]
  PROVE  RefsCountHolders'
<1> SUFFICES ASSUME NEW i \in Identity PROVE Counted(i)'
  BY DEF RefsCountHolders, Counted
<1>1. Counted(i)
  BY DEF IInv, RefsCountHolders, Counted
<1>2. HoldingLeases(i)' = HoldingLeases(i)
  BY DEF HoldingLeases
<1>3. InFlight(i)' = InFlight(i)
  BY DEF InFlight, Wanted
<1> QED
  BY <1>1, <1>2, <1>3 DEF Counted

\* Every step keeps each reference count equal to the number of its holders.
LEMMA RefsStep == IInv /\ [Next]_vars => RefsCountHolders'
<1> SUFFICES ASSUME IInv, [Next]_vars PROVE RefsCountHolders'
  OBVIOUS
<1> USE NoneAssumption, IdentityAssumption
<1> USE DEF Goto, leaseVars, registryVars, runtimeVars
<1> TypeOK /\ MutexInv /\ OwnerInv
  BY DEF IInv
<1>0. \A i \in Identity : Counted(i)
  BY DEF IInv, RefsCountHolders, Counted
<1>c. ASSUME \A i \in Identity : Counted(i)' PROVE RefsCountHolders'
  BY <1>c DEF RefsCountHolders, Counted
<1>1. ASSUME NEW t \in Thread, NEW l \in Lease, StartCall(t, l) PROVE RefsCountHolders'
  BY <1>1, CountUndisturbed DEF StartCall, TypeOK
<1>2. ASSUME NEW t \in Thread, NEW l \in Lease, StopCall(t, l) PROVE RefsCountHolders'
  BY <1>2, CountUndisturbed DEF StopCall, TypeOK
<1>3. ASSUME NEW t \in Thread, StartAlreadyHeld(t) PROVE RefsCountHolders'
  BY <1>3, CountUndisturbed DEF StartAlreadyHeld, TypeOK
<1>4. ASSUME NEW t \in Thread, StartLocksLease(t) PROVE RefsCountHolders'
  BY <1>4, CountUndisturbed DEF StartLocksLease, TypeOK
<1>5. ASSUME NEW t \in Thread, AcquireReuses(t) PROVE RefsCountHolders'
  <2> SUFFICES ASSUME NEW i \in Identity PROVE Counted(i)'
    BY <1>c
  <2>1. Counted(i) /\ refs[i] \in Nat
    BY <1>0 DEF TypeOK
  <2>2. /\ Cardinality(HoldingLeases(i)) \in Nat
        /\ Cardinality(InFlight(i)) \in Nat
        /\ InFlight(i) \subseteq Thread
        /\ HoldingLeases(i) \subseteq Lease
    BY HoldersFinite
  <2>3. HoldingLeases(i)' = HoldingLeases(i)
    BY <1>5 DEF AcquireReuses, HoldingLeases
  <2>4. CASE i # Wanted(t)
    <3>1. InFlight(i)' = InFlight(i)
      BY <1>5, <2>4 DEF AcquireReuses, InFlight, Wanted, TypeOK
    <3> QED
      BY <1>5, <2>1, <2>3, <2>4, <3>1 DEF AcquireReuses, Counted, TypeOK, Wanted
  <2>5. CASE i = Wanted(t)
    <3>1. InFlight(i)' = InFlight(i) \cup {t} /\ t \notin InFlight(i)
      BY <1>5, <2>5 DEF AcquireReuses, InFlight, Wanted, TypeOK
    <3>2. Cardinality(InFlight(i)') = Cardinality(InFlight(i)) + 1
      BY <2>2, <3>1, AddOne, FiniteAssumption
    <3> QED
      BY <1>5, <2>1, <2>2, <2>3, <2>5, <3>2
      DEF AcquireReuses, Counted, TypeOK, Wanted, MutexInv, OwnerInv, HasClient
  <2> QED
    BY <2>4, <2>5
<1>6. ASSUME NEW t \in Thread, AcquireMisses(t) PROVE RefsCountHolders'
  BY <1>6, CountUndisturbed DEF AcquireMisses, TypeOK
<1>7. ASSUME NEW t \in Thread, FactoryFails(t) PROVE RefsCountHolders'
  BY <1>7, CountUndisturbed DEF FactoryFails, TypeOK
<1>8. ASSUME NEW t \in Thread, FactoryStartsClient(t) PROVE RefsCountHolders'
  BY <1>8, CountUndisturbed DEF FactoryStartsClient, TypeOK
<1>9. ASSUME NEW t \in Thread, StoreEntry(t) PROVE RefsCountHolders'
  <2> SUFFICES ASSUME NEW i \in Identity PROVE Counted(i)'
    BY <1>c
  <2>1. Counted(i) /\ refs[i] \in Nat
    BY <1>0 DEF TypeOK
  <2>2. /\ Cardinality(HoldingLeases(i)) \in Nat
        /\ Cardinality(InFlight(i)) \in Nat
        /\ InFlight(i) \subseteq Thread
        /\ HoldingLeases(i) \subseteq Lease
    BY HoldersFinite
  <2>3. HoldingLeases(i)' = HoldingLeases(i)
    BY <1>9 DEF StoreEntry, HoldingLeases
  <2>4. CASE i # Wanted(t)
    <3>1. InFlight(i)' = InFlight(i)
      BY <1>9, <2>4 DEF StoreEntry, InFlight, Wanted, TypeOK
    <3> QED
      BY <1>9, <2>1, <2>3, <2>4, <3>1 DEF StoreEntry, Counted, TypeOK, Wanted
  <2>5. CASE i = Wanted(t)
    <3>1. InFlight(i)' = InFlight(i) \cup {t} /\ t \notin InFlight(i)
      BY <1>9, <2>5 DEF StoreEntry, InFlight, Wanted, TypeOK
    <3>2. Cardinality(InFlight(i)') = Cardinality(InFlight(i)) + 1
      BY <2>2, <3>1, AddOne, FiniteAssumption
    <3> QED
      BY <1>9, <2>1, <2>2, <2>3, <2>5, <3>2
      DEF StoreEntry, Counted, TypeOK, Wanted, MutexInv, OwnerInv, HasClient
  <2> QED
    BY <2>4, <2>5
<1>10. ASSUME NEW t \in Thread, StartCommits(t) PROVE RefsCountHolders'
  <2> SUFFICES ASSUME NEW i \in Identity PROVE Counted(i)'
    BY <1>c
  <2>1. Counted(i) /\ refs[i] \in Nat
    BY <1>0 DEF TypeOK
  <2>2. /\ Cardinality(HoldingLeases(i)) \in Nat
        /\ Cardinality(InFlight(i)) \in Nat
        /\ InFlight(i) \subseteq Thread
        /\ HoldingLeases(i) \subseteq Lease
    BY HoldersFinite
  <2>3. CASE i # Wanted(t)
    <3>1. HoldingLeases(i)' = HoldingLeases(i)
      BY <1>10, <2>3 DEF StartCommits, HoldingLeases, Wanted, TypeOK
    <3>2. InFlight(i)' = InFlight(i)
      BY <1>10, <2>3 DEF StartCommits, InFlight, Wanted, TypeOK
    <3> QED
      BY <1>10, <2>1, <3>1, <3>2 DEF StartCommits, Counted
  <2>4. CASE i = Wanted(t)
    <3>1. HoldingLeases(i)' = HoldingLeases(i) \cup {arg[t]} /\ arg[t] \notin HoldingLeases(i)
      BY <1>10, <2>4 DEF StartCommits, HoldingLeases, Wanted, TypeOK, MutexInv, InStart
    <3>2. InFlight(i)' = InFlight(i) \ {t} /\ t \in InFlight(i)
      BY <1>10, <2>4 DEF StartCommits, InFlight, Wanted, TypeOK
    <3>3. Cardinality(HoldingLeases(i)') = Cardinality(HoldingLeases(i)) + 1
      BY <2>2, <3>1, AddOne, FiniteAssumption DEF TypeOK
    <3>4. Cardinality(InFlight(i)') = Cardinality(InFlight(i)) - 1
      BY <2>2, <3>2, RemoveOne, FiniteAssumption
    <3> QED
      BY <1>10, <2>1, <2>2, <3>3, <3>4 DEF StartCommits, Counted
  <2> QED
    BY <2>3, <2>4
<1>11. ASSUME NEW t \in Thread, StopNothingHeld(t) PROVE RefsCountHolders'
  BY <1>11, CountUndisturbed DEF StopNothingHeld, TypeOK
<1>12. ASSUME NEW t \in Thread, StopTakesRelease(t) PROVE RefsCountHolders'
  <2> SUFFICES ASSUME NEW i \in Identity PROVE Counted(i)'
    BY <1>c
  <2>1. Counted(i) /\ refs[i] \in Nat
    BY <1>0 DEF TypeOK
  <2>2. /\ Cardinality(HoldingLeases(i)) \in Nat
        /\ Cardinality(InFlight(i)) \in Nat
        /\ InFlight(i) \subseteq Thread
        /\ HoldingLeases(i) \subseteq Lease
    BY HoldersFinite
  <2>3. CASE i # Wanted(t)
    <3>1. HoldingLeases(i)' = HoldingLeases(i)
      BY <1>12, <2>3 DEF StopTakesRelease, HoldingLeases, Wanted, TypeOK
    <3>2. InFlight(i)' = InFlight(i)
      BY <1>12, <2>3 DEF StopTakesRelease, InFlight, Wanted, TypeOK
    <3> QED
      BY <1>12, <2>1, <3>1, <3>2 DEF StopTakesRelease, Counted
  <2>4. CASE i = Wanted(t)
    <3>1. HoldingLeases(i)' = HoldingLeases(i) \ {arg[t]} /\ arg[t] \in HoldingLeases(i)
      BY <1>12, <2>4 DEF StopTakesRelease, HoldingLeases, Wanted, TypeOK, MutexInv, InStart
    <3>2. InFlight(i)' = InFlight(i) \cup {t} /\ t \notin InFlight(i)
      BY <1>12, <2>4 DEF StopTakesRelease, InFlight, Wanted, TypeOK
    <3>3. Cardinality(HoldingLeases(i)') = Cardinality(HoldingLeases(i)) - 1
      BY <2>2, <3>1, RemoveOne, FiniteAssumption
    <3>4. Cardinality(InFlight(i)') = Cardinality(InFlight(i)) + 1
      BY <2>2, <3>2, AddOne, FiniteAssumption
    <3> QED
      BY <1>12, <2>1, <2>2, <3>3, <3>4 DEF StopTakesRelease, Counted
  <2> QED
    BY <2>3, <2>4
<1>13. ASSUME NEW t \in Thread, ReleaseShared(t) PROVE RefsCountHolders'
  <2> SUFFICES ASSUME NEW i \in Identity PROVE Counted(i)'
    BY <1>c
  <2>1. Counted(i) /\ refs[i] \in Nat
    BY <1>0 DEF TypeOK
  <2>2. /\ Cardinality(HoldingLeases(i)) \in Nat
        /\ Cardinality(InFlight(i)) \in Nat
        /\ InFlight(i) \subseteq Thread
        /\ HoldingLeases(i) \subseteq Lease
    BY HoldersFinite
  <2>3. HoldingLeases(i)' = HoldingLeases(i)
    BY <1>13 DEF ReleaseShared, HoldingLeases
  <2>4. CASE i # Wanted(t)
    <3>1. InFlight(i)' = InFlight(i)
      BY <1>13, <2>4 DEF ReleaseShared, InFlight, Wanted, TypeOK
    <3> QED
      BY <1>13, <2>1, <2>3, <2>4, <3>1 DEF ReleaseShared, Counted, TypeOK, Wanted
  <2>5. CASE i = Wanted(t)
    <3>1. InFlight(i)' = InFlight(i) \ {t} /\ t \in InFlight(i)
      BY <1>13, <2>5 DEF ReleaseShared, InFlight, Wanted, TypeOK
    <3>2. /\ Cardinality(InFlight(i)') = Cardinality(InFlight(i)) - 1
          /\ Cardinality(InFlight(i)) > 0
      BY <2>2, <3>1, RemoveOne, FiniteAssumption
    <3> QED
      BY <1>13, <2>1, <2>2, <2>3, <2>5, <3>2 DEF ReleaseShared, Counted, TypeOK, Wanted
  <2> QED
    BY <2>4, <2>5
<1>14. ASSUME NEW t \in Thread, ReleaseLast(t) PROVE RefsCountHolders'
  <2> SUFFICES ASSUME NEW i \in Identity PROVE Counted(i)'
    BY <1>c
  <2>1. Counted(i) /\ refs[i] \in Nat
    BY <1>0 DEF TypeOK
  <2>2. /\ Cardinality(HoldingLeases(i)) \in Nat
        /\ Cardinality(InFlight(i)) \in Nat
        /\ InFlight(i) \subseteq Thread
        /\ HoldingLeases(i) \subseteq Lease
    BY HoldersFinite
  <2>3. HoldingLeases(i)' = HoldingLeases(i)
    BY <1>14 DEF ReleaseLast, HoldingLeases
  <2>4. CASE i # Wanted(t)
    <3>1. InFlight(i)' = InFlight(i)
      BY <1>14, <2>4 DEF ReleaseLast, InFlight, Wanted, TypeOK
    <3> QED
      BY <1>14, <2>1, <2>3, <2>4, <3>1 DEF ReleaseLast, Counted, TypeOK, Wanted
  <2>5. CASE i = Wanted(t)
    <3>1. InFlight(i)' = InFlight(i) \ {t} /\ t \in InFlight(i)
      BY <1>14, <2>5 DEF ReleaseLast, InFlight, Wanted, TypeOK
    <3>2. /\ Cardinality(InFlight(i)') = Cardinality(InFlight(i)) - 1
          /\ Cardinality(InFlight(i)) > 0
      BY <2>2, <3>1, RemoveOne, FiniteAssumption
    <3> QED
      BY <1>14, <2>1, <2>2, <2>3, <2>5, <3>2 DEF ReleaseLast, Counted, TypeOK, Wanted
  <2> QED
    BY <2>4, <2>5
<1>15. ASSUME NEW t \in Thread, ClientCancel(t) PROVE RefsCountHolders'
  BY <1>15, CountUndisturbed DEF ClientCancel, TypeOK
<1>16. ASSUME NEW t \in Thread, ClientWaited(t) PROVE RefsCountHolders'
  BY <1>16, CountUndisturbed DEF ClientWaited, TypeOK
<1>17. ASSUME NEW rt \in Runtime, RunClientReturns(rt) PROVE RefsCountHolders'
  BY <1>17, CountUndisturbed DEF RunClientReturns, TypeOK
<1>18. CASE UNCHANGED vars
  BY <1>18, CountUndisturbed DEF vars
<1> QED
  BY <1>1, <1>2, <1>3, <1>4, <1>5, <1>6, <1>7, <1>8, <1>9, <1>10, <1>11, <1>12, <1>13, <1>14, <1>15, <1>16, <1>17, <1>18 DEF Next, StartStep, StopStep

-----------------------------------------------------------------------------
\* IInv is an invariant of the registry.
THEOREM Invariance == Spec => []IInv
<1>1. IInv /\ [Next]_vars => IInv'
  BY TypeStep, MutexStep, OwnerStep, RefsStep DEF IInv
<1> QED
  BY InitIInv, <1>1, PTL DEF Spec

\* Every variable keeps its type.
THEOREM TypeCorrectness == Spec => []TypeOK
BY Invariance, PTL DEF IInv

\* Reference counts count the holders, however Starts and Stops overlap.
THEOREM RefsAreHolders == Spec => []RefsCountHolders
BY Invariance, PTL DEF IInv

-----------------------------------------------------------------------------
\* A lease that holds has an entry: it is one of those the count counts.
LEMMA HeldHasEntry ==
  ASSUME IInv, NEW l \in Lease, release[l]
  PROVE  entry[IdentityOf[l]] # None
<1> DEFINE i == IdentityOf[l]
<1>1. i \in Identity /\ l \in HoldingLeases(i)
  BY IdentityAssumption DEF HoldingLeases
<1> HIDE DEF i
<1>2. Cardinality(HoldingLeases(i)) > 0
  BY <1>1, HoldersFinite, RemoveOne, FiniteAssumption
<1>3. refs[i] # 0
  BY <1>1, <1>2, HoldersFinite DEF IInv, RefsCountHolders
<1> QED
  BY <1>1, <1>3 DEF IInv, RefsCountHolders, i

\* A thread about to commit or to give back a reference has one, too.
LEMMA InFlightHasEntry ==
  ASSUME IInv, NEW t \in Thread, pc[t] \in {"commit", "release"}
  PROVE  entry[Wanted(t)] # None
<1> DEFINE i == Wanted(t)
<1>1. i \in Identity /\ t \in InFlight(i)
  BY IdentityAssumption DEF InFlight, Wanted, IInv, TypeOK
<1> HIDE DEF i
<1>2. Cardinality(InFlight(i)) > 0
  BY <1>1, HoldersFinite, RemoveOne, FiniteAssumption
<1>3. refs[i] # 0
  BY <1>1, <1>2, HoldersFinite DEF IInv, RefsCountHolders
<1> QED
  BY <1>1, <1>3 DEF IInv, RefsCountHolders, i

\* The thread that gives back the last reference finds that no lease holds.
LEMMA LastReferenceUnheld ==
  ASSUME IInv, NEW t \in Thread, pc[t] = "release", refs[Wanted(t)] <= 1
  PROVE  HoldingLeases(Wanted(t)) = {}
<1> DEFINE i == Wanted(t)
<1>1. i \in Identity /\ t \in InFlight(i)
  BY IdentityAssumption DEF InFlight, Wanted, IInv, TypeOK
<1> HIDE DEF i
<1>2. Cardinality(InFlight(i)) > 0
  BY <1>1, HoldersFinite, RemoveOne, FiniteAssumption
<1>3. refs[i] = Cardinality(HoldingLeases(i)) + Cardinality(InFlight(i))
  BY <1>1 DEF IInv, RefsCountHolders
<1>4. Cardinality(HoldingLeases(i)) = 0
  BY <1>1, <1>2, <1>3, HoldersFinite DEF i
<1>5. IsFiniteSet(HoldingLeases(i))
  BY <1>1, HoldersFinite, FiniteAssumption, FS_Subset
<1> QED
  BY <1>4, <1>5, FS_EmptySet DEF i

\* No entry's runtime is cancelled: the cancelled ones belong to a thread.
LEMMA EntryUncancelled ==
  ASSUME IInv, NEW i \in Identity, entry[i] # None
  PROVE  entry[i] \notin cancelled
<1> SUFFICES ASSUME entry[i] \in cancelled PROVE FALSE
  OBVIOUS
<1>1. PICK t \in Thread : client[t] = entry[i]
  BY DEF IInv, OwnerInv
<1> QED
  BY <1>1 DEF IInv, OwnerInv

\* A lease whose Start returned nil and that nobody stopped has a runtime in
\* the registry that no one has cancelled.
THEOREM HeldIsServed == Spec => []HeldLeaseIsServed
<1>1. IInv => HeldLeaseIsServed
  <2> SUFFICES ASSUME IInv, NEW l \in Lease, release[l]
               PROVE  /\ entry[IdentityOf[l]] # None
                      /\ goroutine[entry[IdentityOf[l]]] # "none"
                      /\ entry[IdentityOf[l]] \notin cancelled
    BY DEF HeldLeaseIsServed
  <2> IdentityOf[l] \in Identity
    BY IdentityAssumption
  <2>1. entry[IdentityOf[l]] # None
    BY HeldHasEntry
  <2> QED
    BY <2>1, EntryUncancelled DEF IInv, OwnerInv
<1> QED
  BY Invariance, <1>1, PTL

\* A runtime with a goroutine has exactly one place that refers to it.
THEOREM NothingLeaks == Spec => []NoRuntimeLeaks
<1>1. IInv => NoRuntimeLeaks
  <2> SUFFICES ASSUME IInv, NEW rt \in Runtime, goroutine[rt] # "none"
               PROVE  Cardinality({i \in Identity : entry[i] = rt})
                      + Cardinality({t \in Thread : client[t] = rt}) = 1
    BY DEF NoRuntimeLeaks
  <2> USE NoneAssumption DEF IInv, OwnerInv
  <2>1. CASE \E j \in Identity : entry[j] = rt
    <3>1. PICK j \in Identity : entry[j] = rt
      BY <2>1
    <3>2. {i \in Identity : entry[i] = rt} = {j}
      BY <3>1
    <3>3. {t \in Thread : client[t] = rt} = {}
      BY <3>1
    <3>4. Cardinality({i \in Identity : entry[i] = rt}) = 1
      BY <3>2, FS_Singleton
    <3>5. Cardinality({t \in Thread : client[t] = rt}) = 0
      BY <3>3, FS_EmptySet
    <3> QED
      BY <3>4, <3>5
  <2>2. CASE \E u \in Thread : client[u] = rt
    <3>1. PICK u \in Thread : client[u] = rt
      BY <2>2
    <3>2. {t \in Thread : client[t] = rt} = {u}
      BY <3>1
    <3>3. {i \in Identity : entry[i] = rt} = {}
      BY <3>1
    <3>4. Cardinality({t \in Thread : client[t] = rt}) = 1
      BY <3>2, FS_Singleton
    <3>5. Cardinality({i \in Identity : entry[i] = rt}) = 0
      BY <3>3, FS_EmptySet
    <3> QED
      BY <3>4, <3>5
  <2> QED
    BY <2>1, <2>2
<1> QED
  BY Invariance, <1>1, PTL

-----------------------------------------------------------------------------
\* The steps of the registry, one by one, are steps of RuntimeSharing.
LEMMA RefinementStep ==
  IInv /\ [Next]_vars => [Sharing!Next]_(Sharing!vars)
<1> SUFFICES ASSUME IInv, [Next]_vars PROVE [Sharing!Next]_(Sharing!vars)
  OBVIOUS
<1> USE NoneAssumption, IdentityAssumption
<1> USE DEF Goto, leaseVars, registryVars, runtimeVars
<1> TypeOK /\ MutexInv /\ OwnerInv
  BY DEF IInv
<1> DEFINE holding == {l \in Lease : release[l]}
           status == [rt \in Runtime |->
                        IF goroutine[rt] = "none" THEN "absent"
                        ELSE IF rt \in cancelled THEN "cancelled" ELSE "live"]
<1>s. ASSUME UNCHANGED <<release, entry, status>> PROVE UNCHANGED Sharing!vars
  BY <1>s DEF Sharing!vars
<1>1. ASSUME NEW t \in Thread, NEW l \in Lease, StartCall(t, l) PROVE [Sharing!Next]_(Sharing!vars)
  BY <1>1, <1>s DEF StartCall
<1>2. ASSUME NEW t \in Thread, NEW l \in Lease, StopCall(t, l) PROVE [Sharing!Next]_(Sharing!vars)
  BY <1>2, <1>s DEF StopCall
<1>3. ASSUME NEW t \in Thread, StartAlreadyHeld(t) PROVE [Sharing!Next]_(Sharing!vars)
  BY <1>3, <1>s DEF StartAlreadyHeld
<1>4. ASSUME NEW t \in Thread, StartLocksLease(t) PROVE [Sharing!Next]_(Sharing!vars)
  BY <1>4, <1>s DEF StartLocksLease
<1>5. ASSUME NEW t \in Thread, AcquireReuses(t) PROVE [Sharing!Next]_(Sharing!vars)
  BY <1>5, <1>s DEF AcquireReuses
<1>6. ASSUME NEW t \in Thread, AcquireMisses(t) PROVE [Sharing!Next]_(Sharing!vars)
  BY <1>6, <1>s DEF AcquireMisses
<1>7. ASSUME NEW t \in Thread, FactoryFails(t) PROVE [Sharing!Next]_(Sharing!vars)
  BY <1>7, <1>s DEF FactoryFails
<1>8. ASSUME NEW t \in Thread, FactoryStartsClient(t) PROVE [Sharing!Next]_(Sharing!vars)
  <2>1. PICK rt \in Runtime :
          /\ goroutine[rt] = "none"
          /\ goroutine' = [goroutine EXCEPT ![rt] = "running"]
    BY <1>8 DEF FactoryStartsClient
  <2>2. rt \notin cancelled /\ UNCHANGED cancelled
    BY <1>8, <2>1 DEF FactoryStartsClient, OwnerInv
  <2>3. status[rt] = "absent" /\ status' = [status EXCEPT ![rt] = "live"]
    <3>1. /\ goroutine'[rt] = "running"
          /\ \A o \in Runtime \ {rt} : goroutine'[o] = goroutine[o]
      BY <2>1 DEF TypeOK
    <3>2. ASSUME NEW o \in Runtime
          PROVE  status'[o] = IF o = rt THEN "live" ELSE status[o]
      BY <2>2, <3>1
    <3>3. status[rt] = "absent"
      BY <2>1
    <3> QED
      BY <3>2, <3>3
  <2>4. Sharing!Spawn(rt)
    BY <1>8, <2>3 DEF FactoryStartsClient, Sharing!Spawn
  <2>5. Sharing!Next
    BY <2>4 DEF Sharing!Next
  <2> QED
    BY <2>5
<1>9. ASSUME NEW t \in Thread, StoreEntry(t) PROVE [Sharing!Next]_(Sharing!vars)
  <2>1. client[t] \in Runtime /\ Wanted(t) \in Identity /\ entry[Wanted(t)] = None
    BY <1>9 DEF StoreEntry, TypeOK, OwnerInv, MutexInv, HasClient, Wanted
  <2>2. goroutine[client[t]] # "none" /\ client[t] \notin cancelled
    BY <1>9, <2>1 DEF StoreEntry, OwnerInv
  <2>3. status[client[t]] = "live"
    BY <2>1, <2>2
  <2>4. ~Sharing!Serves(client[t])
    BY <2>1 DEF OwnerInv, Sharing!Serves
  <2>5. Sharing!Serve(Wanted(t), client[t])
    BY <1>9, <2>1, <2>3, <2>4 DEF StoreEntry, Sharing!Serve
  <2> QED
    BY <2>1, <2>5 DEF Sharing!Next
<1>10. ASSUME NEW t \in Thread, StartCommits(t) PROVE [Sharing!Next]_(Sharing!vars)
  <2>1. arg[t] \in Lease /\ ~release[arg[t]]
    BY <1>10 DEF StartCommits, TypeOK, MutexInv, InStart
  <2>2. entry[IdentityOf[arg[t]]] # None
    BY <1>10, InFlightHasEntry DEF StartCommits, Wanted
  <2>3. holding' = holding \cup {arg[t]}
    BY <1>10, <2>1 DEF StartCommits, TypeOK
  <2>4. Sharing!Hold(arg[t])
    BY <1>10, <2>1, <2>2, <2>3 DEF StartCommits, Sharing!Hold
  <2>5. Sharing!Next
    BY <2>1, <2>4 DEF Sharing!Next, Sharing!Hold
  <2> QED
    BY <2>5
<1>11. ASSUME NEW t \in Thread, StopNothingHeld(t) PROVE [Sharing!Next]_(Sharing!vars)
  BY <1>11, <1>s DEF StopNothingHeld
<1>12. ASSUME NEW t \in Thread, StopTakesRelease(t) PROVE [Sharing!Next]_(Sharing!vars)
  <2>1. arg[t] \in Lease /\ release[arg[t]]
    BY <1>12 DEF StopTakesRelease, TypeOK
  <2>2. holding' = holding \ {arg[t]}
    BY <1>12, <2>1 DEF StopTakesRelease, TypeOK
  <2>3. Sharing!Drop(arg[t])
    BY <1>12, <2>1, <2>2 DEF StopTakesRelease, Sharing!Drop
  <2>4. Sharing!Next
    BY <2>1, <2>3 DEF Sharing!Next, Sharing!Drop
  <2> QED
    BY <2>4
<1>13. ASSUME NEW t \in Thread, ReleaseShared(t) PROVE [Sharing!Next]_(Sharing!vars)
  BY <1>13, <1>s DEF ReleaseShared
<1>14. ASSUME NEW t \in Thread, ReleaseLast(t) PROVE [Sharing!Next]_(Sharing!vars)
  <2>1. Wanted(t) \in Identity
    BY DEF TypeOK, Wanted
  <2>2. HoldingLeases(Wanted(t)) = {}
    BY <1>14, LastReferenceUnheld DEF ReleaseLast
  <2>3. Sharing!Holders(Wanted(t)) = {}
    BY <2>2 DEF HoldingLeases, Sharing!Holders
  <2>4. Sharing!Retire(Wanted(t))
    BY <1>14, <2>3 DEF ReleaseLast, Sharing!Retire
  <2> QED
    BY <2>1, <2>4 DEF Sharing!Next
<1>15. ASSUME NEW t \in Thread, ClientCancel(t) PROVE [Sharing!Next]_(Sharing!vars)
  <2>1. client[t] \in Runtime /\ client[t] # None
    BY <1>15 DEF ClientCancel, TypeOK, OwnerInv, HasClient
  <2>2. goroutine[client[t]] # "none" /\ client[t] \notin cancelled
    BY <1>15, <2>1 DEF ClientCancel, OwnerInv
  <2>3. /\ status[client[t]] = "live"
        /\ status' = [status EXCEPT ![client[t]] = "cancelled"]
    BY <1>15, <2>1, <2>2 DEF ClientCancel, TypeOK
  <2>4. ~Sharing!Serves(client[t])
    BY <2>1 DEF OwnerInv, Sharing!Serves
  <2>5. Sharing!Cancel(client[t])
    BY <1>15, <2>3, <2>4 DEF ClientCancel, Sharing!Cancel
  <2>6. Sharing!Next
    BY <2>1, <2>5 DEF Sharing!Next, Sharing!Cancel
  <2> QED
    BY <2>6
<1>16. ASSUME NEW t \in Thread, ClientWaited(t) PROVE [Sharing!Next]_(Sharing!vars)
  <2>1. client[t] \in Runtime /\ client[t] \in cancelled
    BY <1>16 DEF ClientWaited, TypeOK, OwnerInv, HasClient
  <2>2. /\ status[client[t]] = "cancelled"
        /\ status' = [status EXCEPT ![client[t]] = "absent"]
    BY <1>16, <2>1 DEF ClientWaited, TypeOK
  <2>3. Sharing!Gone(client[t])
    BY <1>16, <2>2 DEF ClientWaited, Sharing!Gone
  <2>4. Sharing!Next
    BY <2>1, <2>3 DEF Sharing!Next, Sharing!Gone
  <2> QED
    BY <2>4
<1>17. ASSUME NEW rt \in Runtime, RunClientReturns(rt) PROVE [Sharing!Next]_(Sharing!vars)
  <2>1. UNCHANGED status
    BY <1>17 DEF RunClientReturns, TypeOK
  <2> QED
    BY <1>17, <1>s, <2>1 DEF RunClientReturns
<1>18. CASE UNCHANGED vars
  BY <1>18, <1>s DEF vars
<1> QED
  BY <1>1, <1>2, <1>3, <1>4, <1>5, <1>6, <1>7, <1>8, <1>9, <1>10, <1>11, <1>12, <1>13, <1>14, <1>15, <1>16, <1>17, <1>18 DEF Next, StartStep, StopStep

\* The registry implements RuntimeSharing.
THEOREM Refinement == Spec => ImplementsSharing
<1>1. Init => Sharing!Init
  BY DEF Init, Sharing!Init
<1> QED
  BY <1>1, Invariance, RefinementStep, PTL DEF Spec, ImplementsSharing, Sharing!Spec

\* While a lease holds its identity, the runtime that serves it stays the same.
THEOREM HeldIsKept == Spec => HeldRuntimeKept
<1>1. ASSUME IInv, [Next]_vars
      PROVE  [\A l \in Lease : release[l] /\ release'[l] =>
                entry'[IdentityOf[l]] = entry[IdentityOf[l]]]_vars
  <2> SUFFICES ASSUME NEW l \in Lease, release[l], release'[l]
               PROVE  entry'[IdentityOf[l]] = entry[IdentityOf[l]]
    OBVIOUS
  <2> USE IdentityAssumption
  <2>1. entry[IdentityOf[l]] # None
    BY <1>1, HeldHasEntry
  <2>2. [Sharing!Next]_(Sharing!vars)
    BY <1>1, RefinementStep
  <2>3. \A i \in Identity : Sharing!Retire(i) => i # IdentityOf[l]
    BY DEF Sharing!Retire, Sharing!Holders
  <2>4. entry \in [Identity -> Runtime \cup {None}]
    BY <1>1 DEF IInv, TypeOK
  <2> QED
    BY <2>1, <2>2, <2>3, <2>4
    DEF Sharing!Next, Sharing!vars, Sharing!Spawn, Sharing!Serve, Sharing!Hold,
        Sharing!Drop, Sharing!Retire, Sharing!Cancel, Sharing!Gone
<1> QED
  BY Invariance, <1>1, PTL DEF Spec, HeldRuntimeKept
=============================================================================
