------------------------ MODULE ManagedResourceProofs ------------------------
(***************************************************************************)
(* The contract of ManagedResource gives every component that implements   *)
(* it the state predicate Contract, for any set of identities and          *)
(* contents: from a refinement checked by TLC follows what a client of a   *)
(* controller may rely on in every state.                                  *)
(***************************************************************************)
EXTENDS ManagedResource, TLAPS

\* Contract is inductive with the types alone: Release leaves no claim behind
\* because a resource that claims Ready is not dying.
AbstractInv ==
    /\ TypeOK
    /\ Contract

LEMMA AbstractInit == Init => AbstractInv
  BY DEF Init, AbstractInv, TypeOK, Contract, Lives

\* Only Show changes several artifacts; the other steps concern one resource.
LEMMA AbstractStep == ASSUME AbstractInv, [Next]_vars PROVE AbstractInv'
  <1> USE DEF AbstractInv, TypeOK, Contract, Lives
  <1>1. CASE Show
    BY <1>1 DEF Show, MayShow
  <1>2. ASSUME NEW i \in Ids, Create(i) PROVE AbstractInv'
    BY <1>2 DEF Create
  <1>3. ASSUME NEW i \in Ids, Edit(i) PROVE AbstractInv'
    BY <1>3 DEF Edit
  <1>4. ASSUME NEW i \in Ids, Move(i) PROVE AbstractInv'
    BY <1>4 DEF Move
  <1>5. ASSUME NEW i \in Ids, Delete(i) PROVE AbstractInv'
    BY <1>5 DEF Delete
  <1>6. ASSUME NEW i \in Ids, Protect(i) PROVE AbstractInv'
    BY <1>6 DEF Protect
  <1>7. ASSUME NEW i \in Ids, Claim(i) PROVE AbstractInv'
    BY <1>7 DEF Claim
  <1>8. ASSUME NEW i \in Ids, Retract(i) PROVE AbstractInv'
    BY <1>8 DEF Retract
  <1>9. ASSUME NEW i \in Ids, Release(i) PROVE AbstractInv'
    BY <1>9 DEF Release
  <1>10. CASE UNCHANGED vars
    BY <1>10 DEF vars
  <1>11. QED
    BY <1>1, <1>2, <1>3, <1>4, <1>5, <1>6, <1>7, <1>8, <1>9, <1>10 DEF Next

\* Whatever implements ManagedResource shows nothing without a finalizer, and
\* claims Ready only for what it shows of the current spec, or what a write cut
\* short left of it.
THEOREM ContractHolds == Spec => []Contract
  <1>1. AbstractInv => Contract
    BY DEF AbstractInv
  <1>2. QED
    BY AbstractInit, AbstractStep, <1>1, PTL DEF Spec
=============================================================================
