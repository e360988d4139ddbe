------------------------- MODULE ValidateGraphProofs -------------------------
(***************************************************************************)
(* validateGraph is correct for every graph, of any size: proofs for the   *)
(* module ValidateGraph.                                                   *)
(***************************************************************************)
EXTENDS ValidateGraph, ResourceGraphProofs

-----------------------------------------------------------------------------
(* Ranges of sequences.                                                     *)

\* The elements of a list are its head and the elements of its tail.
LEMMA RangeHeadTail ==
    ASSUME NEW S, NEW s \in Seq(S), s # <<>>
    PROVE  /\ Head(s) \in S /\ Tail(s) \in Seq(S)
           /\ Range(s) = {Head(s)} \cup Range(Tail(s))
  <1>1. Head(s) \in S /\ Tail(s) \in Seq(S)
    OBVIOUS
  <1>2. Len(s) \in Nat /\ Len(s) > 0 /\ DOMAIN s = 1 .. Len(s) /\ Head(s) = s[1]
    OBVIOUS
  <1>3. /\ DOMAIN Tail(s) = 1 .. Len(s) - 1
        /\ \A i \in 1 .. Len(s) - 1 : Tail(s)[i] = s[i + 1]
    BY <1>2
  <1>4. Range(s) \subseteq {Head(s)} \cup Range(Tail(s))
    <2>1. SUFFICES ASSUME NEW i \in 1 .. Len(s), i # 1
                   PROVE  s[i] \in Range(Tail(s))
      BY <1>2 DEF Range
    <2>2. i - 1 \in 1 .. Len(s) - 1 /\ Tail(s)[i - 1] = s[i]
      BY <1>2, <1>3, <2>1
    <2> QED
      BY <1>3, <2>2 DEF Range
  <1>5. Range(Tail(s)) \subseteq Range(s)
    <2>1. SUFFICES ASSUME NEW i \in 1 .. Len(s) - 1
                   PROVE  Tail(s)[i] \in Range(s)
      BY <1>3 DEF Range
    <2>2. i + 1 \in 1 .. Len(s)
      BY <1>2
    <2> QED
      BY <1>2, <1>3, <2>2 DEF Range
  <1>6. Head(s) \in Range(s)
    BY <1>2 DEF Range
  <1> QED
    BY <1>1, <1>4, <1>5, <1>6

\* Appending adds one element.
LEMMA RangeAppend ==
    ASSUME NEW S, NEW s \in Seq(S), NEW e \in S
    PROVE  /\ Append(s, e) \in Seq(S)
           /\ Range(Append(s, e)) = Range(s) \cup {e}
  <1>1. /\ Append(s, e) \in Seq(S)
        /\ Len(s) \in Nat /\ DOMAIN s = 1 .. Len(s)
        /\ DOMAIN Append(s, e) = 1 .. Len(s) + 1
        /\ \A i \in 1 .. Len(s) : Append(s, e)[i] = s[i]
        /\ Append(s, e)[Len(s) + 1] = e
    OBVIOUS
  <1>2. \A i \in 1 .. Len(s) + 1 : i \in 1 .. Len(s) \/ i = Len(s) + 1
    BY <1>1
  <1>3. \A i \in 1 .. Len(s) : i \in 1 .. Len(s) + 1
    BY <1>1
  <1>4. Range(Append(s, e)) = Range(s) \cup {e}
    BY <1>1, <1>2, <1>3 DEF Range
  <1> QED
    BY <1>1, <1>4

\* Concatenation joins the elements.
LEMMA RangeConcat ==
    ASSUME NEW S, NEW s \in Seq(S), NEW t \in Seq(S), NEW u, u = s \o t
    PROVE  u \in Seq(S) /\ Range(u) = Range(s) \cup Range(t)
  <1>1. /\ u \in Seq(S)
        /\ Len(s) \in Nat /\ Len(t) \in Nat
        /\ DOMAIN s = 1 .. Len(s) /\ DOMAIN t = 1 .. Len(t)
        /\ DOMAIN u = 1 .. Len(s) + Len(t)
        /\ \A i \in 1 .. Len(s) + Len(t) :
              u[i] = IF i <= Len(s) THEN s[i] ELSE t[i - Len(s)]
    OBVIOUS
  <1>2. Range(u) \subseteq Range(s) \cup Range(t)
    <2>1. SUFFICES ASSUME NEW i \in 1 .. Len(s) + Len(t)
                   PROVE  u[i] \in Range(s) \cup Range(t)
      BY <1>1 DEF Range
    <2>2. CASE i <= Len(s)
      BY <1>1, <2>2 DEF Range
    <2>3. CASE ~(i <= Len(s))
      <3>1. i - Len(s) \in 1 .. Len(t)
        BY <1>1, <2>3
      <3> QED
        BY <1>1, <2>3, <3>1 DEF Range
    <2> QED
      BY <2>2, <2>3
  <1>3. Range(s) \subseteq Range(u)
    BY <1>1 DEF Range
  <1>4. Range(t) \subseteq Range(u)
    <2>1. SUFFICES ASSUME NEW i \in 1 .. Len(t) PROVE t[i] \in Range(u)
      BY <1>1 DEF Range
    <2>2. /\ Len(s) + i \in 1 .. Len(s) + Len(t)
          /\ ~(Len(s) + i <= Len(s)) /\ (Len(s) + i) - Len(s) = i
      BY <1>1
    <2>3. u[Len(s) + i] = t[i]
      BY <1>1, <2>2
    <2> QED
      BY <1>1, <2>2, <2>3 DEF Range
  <1> QED
    BY <1>1, <1>2, <1>3, <1>4

-----------------------------------------------------------------------------
(* The inductive invariant.                                                 *)

Reached == Range(done) \cup Range(todo)

\* Only ancestors are reached; what was visited exists, does not close a cycle
\* and has its parents reached; the resource itself is reached only as its own
\* parent.
SearchInv ==
    /\ TypeOK
    /\ Reached \subseteq Ancestors(own, graph)
    /\ Range(own) \subseteq Reached
    /\ \A a \in Range(done) : /\ graph[a] # None
                              /\ self \notin Range(graph[a])
                              /\ Range(graph[a]) \subseteq Reached
    /\ self \in Reached => self \in Range(own)
    /\ ResultExact

LEMMA InitSearch == Init => SearchInv
  <1> SUFFICES ASSUME Init PROVE SearchInv
    OBVIOUS
  <1>1. TypeOK
    BY ParentListsAssumption DEF Init, TypeOK
  <1>2. Range(done) = {}
    BY DEF Init, Range
  <1>3. Reached = Range(own)
    BY <1>2 DEF Init, Reached
  <1>4. Closed(own, graph, Ancestors(own, graph))
    BY <1>1, ParentListsAssumption, AncestorsClosed DEF TypeOK
  <1> QED
    BY <1>1, <1>2, <1>3, <1>4 DEF Init, SearchInv, Closed, ResultExact

LEMMA NextSearch == SearchInv /\ [Next]_vars => SearchInv'
  <1> SUFFICES ASSUME SearchInv, [Next]_vars PROVE SearchInv'
    OBVIOUS
  <1> USE DEF SearchInv
  <1>1. Closed(own, graph, Ancestors(own, graph))
    BY ParentListsAssumption, AncestorsClosed DEF TypeOK
  <1>2. ASSUME Searching
        PROVE  /\ Current \in Names /\ Tail(todo) \in Seq(Names)
               /\ Range(todo) = {Current} \cup Range(Tail(todo))
    BY <1>2, RangeHeadTail DEF Searching, Current, TypeOK
  <1>3. CASE Skip
    <2>1. TypeOK' /\ UNCHANGED <<own, graph, self, done, result>>
      BY <1>2, <1>3 DEF Skip, input, TypeOK
    <2>2. Reached' = Reached
      BY <1>2, <1>3 DEF Skip, Seen, Reached
    <2> QED
      BY <2>1, <2>2 DEF ResultExact
  <1>4. CASE NotFound
    <2>1. TypeOK' /\ UNCHANGED <<own, graph, self, done, todo>>
      BY <1>2, <1>4 DEF NotFound, input, TypeOK, Results
    <2>2. Current \in Missing(own, graph)
      BY <1>2, <1>4 DEF NotFound, Missing, Reached
    <2>3. ResultExact'
      BY <1>4, <2>1, <2>2 DEF NotFound, ResultExact
    <2> QED
      BY <2>1, <2>3 DEF Reached
  <1>5. CASE CycleDetected
    <2>1. TypeOK' /\ UNCHANGED <<own, graph, self, done, todo>>
      BY <1>2, <1>5 DEF CycleDetected, input, TypeOK, Results
    <2>2. Current \in Ancestors(own, graph) /\ self \in ParentsIn(graph, Current)
      BY <1>2, <1>5 DEF CycleDetected, ClosesCycle, ParentsIn, Reached
    <2>3. Current \in Closing(self, own, graph) /\ self \in Ancestors(own, graph)
      BY <1>1, <2>2 DEF Closing, Closed
    <2>4. ResultExact'
      BY <1>5, <2>1, <2>3 DEF CycleDetected, ResultExact
    <2> QED
      BY <2>1, <2>4 DEF Reached
  <1>6. CASE Visit
    <2>1. /\ Searching /\ ~Seen /\ graph[Current] # None /\ self \notin Range(graph[Current])
          /\ done' = Append(done, Current)
          /\ todo' = Tail(todo) \o graph[Current]
          /\ UNCHANGED <<own, graph, self, result>>
          /\ result = None
      BY <1>6 DEF Visit, ClosesCycle, input, Searching
    <2>2. graph[Current] \in Seq(Names)
      BY <1>2, <2>1, ParentListsAssumption DEF TypeOK
    <2>3. done' \in Seq(Names) /\ Range(done') = Range(done) \cup {Current}
      BY <1>2, <2>1, RangeAppend DEF TypeOK
    <2>4. todo' \in Seq(Names) /\ Range(todo') = Range(Tail(todo)) \cup Range(graph[Current])
      <3>1. Tail(todo) \in Seq(Names)
        BY <1>2, <2>1
      <3>2. \A s, t \in Seq(Names) : \A u :
              u = s \o t => u \in Seq(Names) /\ Range(u) = Range(s) \cup Range(t)
        BY RangeConcat, Zenon
      <3> HIDE DEF SearchInv
      <3> QED
        BY <2>1, <2>2, <3>1, <3>2, Zenon
    <2>5. TypeOK'
      BY <2>1, <2>3, <2>4 DEF TypeOK
    <2>6. Reached' = Reached \cup Range(graph[Current])
      BY <1>2, <2>1, <2>3, <2>4 DEF Reached
    <2>7. Current \in Ancestors(own, graph)
      BY <1>2, <2>1 DEF Reached
    <2>8. Range(graph[Current]) \subseteq Ancestors(own, graph)
      BY <1>1, <2>1, <2>7 DEF Closed, ParentsIn
    <2> QED
      BY <2>1, <2>3, <2>5, <2>6, <2>8 DEF ResultExact
  <1>7. CASE Return
    <2>1. /\ todo = <<>> /\ result' = [kind |-> "ok", involved |-> None]
          /\ TypeOK' /\ UNCHANGED <<own, graph, self, done, todo>>
      BY <1>7 DEF Return, input, TypeOK, Results
    <2>2. Reached = Range(done)
      BY <2>1 DEF Reached, Range
    <2>3. Range(done) \in SUBSET Names /\ Closed(own, graph, Range(done))
      <3>1. Range(done) \in SUBSET Names
        BY DEF TypeOK, Range
      <3>2. Range(own) \subseteq Range(done)
        BY <2>2
      <3>3. \A a \in Range(done) : ParentsIn(graph, a) \subseteq Range(done)
        BY <2>2 DEF ParentsIn
      <3> QED
        BY <3>1, <3>2, <3>3 DEF Closed
    <2>4. Range(done) = Ancestors(own, graph)
      BY <2>2, <2>3, AncestorsLeast
    <2>5. Missing(own, graph) = {} /\ Closing(self, own, graph) = {}
      BY <2>4 DEF Missing, Closing, ParentsIn
    <2>6. self \in Ancestors(own, graph) => self \in Range(own) /\ graph[self] # own
      BY <2>2, <2>4
    <2>7. ResultExact'
      BY <2>1, <2>4, <2>5, <2>6 DEF ResultExact
    <2> QED
      BY <2>1, <2>7 DEF Reached
  <1>8. CASE UNCHANGED vars
    BY <1>8 DEF vars, TypeOK, Reached, ResultExact
  <1> QED
    BY <1>3, <1>4, <1>5, <1>6, <1>7, <1>8 DEF Next

\* Types: the work list and the visited list hold names, and the answer is one
\* of those validateGraph gives.
THEOREM SearchTypeCorrect == Spec => []TypeOK
  <1>1. SearchInv => TypeOK
    BY DEF SearchInv
  <1> QED
    BY <1>1, InitSearch, NextSearch, PTL DEF Spec

\* validateGraph answers right on every graph: no error exactly when all
\* ancestors exist and none has the resource as a parent, else an error that
\* names a culprit.
THEOREM ValidateGraphCorrect == Spec => []ResultExact
  <1>1. SearchInv => ResultExact
    BY DEF SearchInv
  <1> QED
    BY <1>1, InitSearch, NextSearch, PTL DEF Spec
=============================================================================
