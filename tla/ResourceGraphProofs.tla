------------------------- MODULE ResourceGraphProofs -------------------------
(***************************************************************************)
(* Facts about the parent relation of any size: what the ancestors are,    *)
(* and that a resource validated among resources without a cycle adds      *)
(* none.                                                                   *)
(***************************************************************************)
EXTENDS ResourceGraph, TLAPS

\* The ancestors hold the own parents and with every ancestor its parents.
LEMMA AncestorsClosed ==
    ASSUME NEW o \in Seq(Names), NEW g \in [Names -> Seq(Names) \cup {None}]
    PROVE  Closed(o, g, Ancestors(o, g))
  <1>1. Range(o) \subseteq Names
    BY DEF Range
  <1>2. \A a \in Names : ParentsIn(g, a) \subseteq Names
    BY DEF ParentsIn, Range
  <1> QED
    BY <1>1, <1>2 DEF Closed, Ancestors

\* They are the least such set.
LEMMA AncestorsLeast ==
    ASSUME NEW o, NEW g, NEW D \in SUBSET Names, Closed(o, g, D)
    PROVE  Ancestors(o, g) \subseteq D
  BY DEF Ancestors

\* Among these resources with these parents there is no cycle: no set of them
\* has a parent of each of its members.
NoCycle(S, parents) ==
    \A R \in SUBSET S : R # {} => \E n \in R : \A p \in R : p \notin Range(parents[n])

LEMMA NoCycleSubset ==
    ASSUME NEW S, NEW T \in SUBSET S, NEW f, NEW g, NoCycle(S, f), \A n \in T : g[n] = f[n]
    PROVE  NoCycle(T, g)
  <1> SUFFICES ASSUME NEW R \in SUBSET T, R # {}
               PROVE  \E n \in R : \A p \in R : p \notin Range(g[n])
    BY DEF NoCycle
  <1>1. PICK n \in R : \A p \in R : p \notin Range(f[n])
    BY DEF NoCycle
  <1> QED
    BY <1>1

\* A resource that is its own ancestor has an ancestor that closes the cycle.
LEMMA OwnAncestorCloses ==
    ASSUME NEW g \in [Names -> Seq(Names) \cup {None}], NEW n \in Names,
           g[n] \in Seq(Names), n \in Ancestors(g[n], g),
           Missing(g[n], g) = {}
    PROVE  Closing(n, g[n], g) # {}
  <1> SUFFICES ASSUME Closing(n, g[n], g) = {} PROVE FALSE
    OBVIOUS
  <1> DEFINE A == Ancestors(g[n], g)
             D == A \ {n}
  <1>1. Closed(g[n], g, A)
    BY AncestorsClosed
  <1>2. \A a \in A : n \notin ParentsIn(g, a)
    BY DEF Closing
  <1>3. g[n] # None
    BY DEF Missing
  <1>4. Range(g[n]) \subseteq D
    BY <1>1, <1>2, <1>3 DEF Closed, ParentsIn
  <1>5. Closed(g[n], g, D)
    BY <1>1, <1>2, <1>4 DEF Closed
  <1>6. D \in SUBSET Names
    BY DEF Ancestors
  <1> QED
    BY <1>5, <1>6, AncestorsLeast

\* A resource whose ancestors all exist and do not lead back to it adds no cycle
\* to resources that the graph shows with their parents.
LEMMA ValidAddsNoCycle ==
    ASSUME NEW S \in SUBSET Names, NEW f, NEW g \in [Names -> Seq(Names) \cup {None}],
           NEW n \in Names, g[n] \in Seq(Names), f[n] = g[n],
           NoCycle(S, f), \A m \in S : g[m] = f[m],
           Missing(g[n], g) = {}, Closing(n, g[n], g) = {}
    PROVE  NoCycle(S \cup {n}, f)
  <1> SUFFICES ASSUME NEW R \in SUBSET (S \cup {n}), R # {},
                      \A m \in R : \E p \in R : p \in Range(f[m])
               PROVE  FALSE
    BY DEF NoCycle
  <1> DEFINE A == Ancestors(g[n], g)
  <1>1. n \in R
    BY DEF NoCycle
  <1>2. Closed(g[n], g, A)
    BY AncestorsClosed
  <1>3. n \notin A
    BY OwnAncestorCloses
  <1>4. PICK p \in R : p \in Range(f[n])
    BY <1>1
  <1>5. p \in R \cap A
    BY <1>2, <1>4 DEF Closed
  <1>6. R \cap A \in SUBSET S
    BY <1>3
  <1>7. PICK m \in R \cap A : \A q \in R \cap A : q \notin Range(f[m])
    BY <1>5, <1>6 DEF NoCycle
  <1>8. PICK q \in R : q \in Range(f[m])
    BY <1>7
  <1>9. g[m] = f[m] /\ g[m] # None
    BY <1>6, <1>7 DEF Missing
  <1>10. q \in A
    BY <1>2, <1>7, <1>8, <1>9 DEF Closed, ParentsIn
  <1> QED
    BY <1>7, <1>8, <1>10
=============================================================================
