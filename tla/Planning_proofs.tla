----------------------------- MODULE Planning_proofs ----------------------------
(***************************************************************************)
(* Proofs about the way from a command to a frozen plan (Planning): the    *)
(* credential bindings that change meanwhile, the decisions collected      *)
(* attempt by attempt, the attempts that run on them, and the routes       *)
(* chosen on the outcomes recorded, for any plans, policies, rules,        *)
(* outcomes, bindings and writers.                                         *)
(***************************************************************************)
EXTENDS Planning, SequenceTheorems, FunctionTheorems, FiniteSetTheorems, WellFoundedInduction,
        TLAPS

planningAll == <<planningVars, routingVars>>
PlanningNext == RoutingNext \/ BuildNext \/ PolicyNext \/ BindingNext
PlanningBehaviour == PlanningInit /\ [][PlanningNext]_planningAll

-----------------------------------------------------------------------------
(* The bindings.                                                            *)

RevisionInv ==
  /\ store \in [BindingKeys -> Bindings \cup {None}]
  /\ \A k \in BindingKeys : store[k] # None => store[k].key = k
  /\ stored \subseteq Bindings
  /\ \A b \in stored : /\ store[b.key] # None
                       /\ b.revision <= store[b.key].revision
                       /\ b.revision = store[b.key].revision => b = store[b.key]
  /\ RevisionHasOneContent

(* What put and replace do: a binding whose revision is new for its key, or *)
(* the one that is held.                                                    *)
LEMMA StoreStep ==
  ASSUME RevisionInv, NEW b \in Bindings,
         \/ store[b.key] \in {None, b}
         \/ store[b.key] # None /\ b.revision = store[b.key].revision + 1,
         store' = [store EXCEPT ![b.key] = b], stored' = stored \cup {b}
  PROVE  RevisionInv'
<1>1. b.key \in BindingKeys /\ b # None /\ \A c \in Bindings : c.key \in BindingKeys /\ c.revision \in Nat
  BY BindingsAssumption DEF BindingKeys
<1>2. /\ store' \in [BindingKeys -> Bindings \cup {None}] /\ store'[b.key] = b
      /\ \A k \in BindingKeys \ {b.key} : store'[k] = store[k]
  BY <1>1 DEF RevisionInv
<1>3. \A c \in stored : c.key = b.key => c = b \/ c.revision < b.revision
  <2> SUFFICES ASSUME NEW c \in stored, c.key = b.key PROVE c = b \/ c.revision < b.revision
    OBVIOUS
  <2>1. c \in Bindings /\ store[b.key] # None /\ c.revision <= store[b.key].revision
        /\ (c.revision = store[b.key].revision => c = store[b.key]) /\ store[b.key] \in Bindings
    BY <1>1 DEF RevisionInv
  <2>2. CASE store[b.key] = b
    BY <1>1, <2>1, <2>2
  <2>3. CASE b.revision = store[b.key].revision + 1
    BY <1>1, <2>1, <2>3
  <2> QED BY <2>1, <2>2, <2>3
<1>4. \A c \in stored' : /\ store'[c.key] # None
                         /\ c.revision <= store'[c.key].revision
                         /\ c.revision = store'[c.key].revision => c = store'[c.key]
  <2> SUFFICES ASSUME NEW c \in stored'
               PROVE  /\ store'[c.key] # None
                      /\ c.revision <= store'[c.key].revision
                      /\ c.revision = store'[c.key].revision => c = store'[c.key]
    OBVIOUS
  <2>1. c \in Bindings /\ c.key \in BindingKeys /\ c.revision \in Nat /\ b.revision \in Nat
    BY <1>1 DEF RevisionInv
  <2>2. CASE c.key = b.key
    BY <1>1, <1>2, <1>3, <2>1, <2>2
  <2>3. CASE c.key # b.key
    BY <1>2, <2>1, <2>3 DEF RevisionInv
  <2> QED BY <2>2, <2>3
<1>5. RevisionHasOneContent'
  <2> SUFFICES ASSUME NEW c \in stored', NEW d \in stored', c.key = d.key, c.revision = d.revision
               PROVE  c = d
    BY DEF RevisionHasOneContent
  <2>1. CASE c \in stored /\ d \in stored
    BY <2>1 DEF RevisionInv, RevisionHasOneContent
  <2>2. CASE c = b \/ d = b
    <3>1. c.revision \in Nat /\ ~(c.revision < d.revision) /\ ~(d.revision < c.revision)
      BY <1>1 DEF RevisionInv
    <3> QED BY <1>3, <2>2, <3>1
  <2> QED BY <2>1, <2>2
<1> QED BY <1>1, <1>2, <1>4, <1>5 DEF RevisionInv

(* Of one key and revision only one content is ever reported stored: the    *)
(* compare-and-set of replace, for any writers and whatever they hold.      *)
THEOREM RevisionsHaveOneContent == PlanningBehaviour => []RevisionHasOneContent
<1>1. PlanningInit => RevisionInv
  BY DEF PlanningInit, RevisionInv, RevisionHasOneContent
<1>2. RevisionInv /\ [PlanningNext]_planningAll => RevisionInv'
  <2> SUFFICES ASSUME RevisionInv, [PlanningNext]_planningAll PROVE RevisionInv'
    OBVIOUS
  <2>1. CASE UNCHANGED <<store, stored>>
    BY <2>1 DEF RevisionInv, RevisionHasOneContent
  <2>2. ASSUME NEW b \in Bindings, PutBinding(b) PROVE RevisionInv'
    BY <2>2, StoreStep DEF PutBinding
  <2>3. ASSUME NEW w \in Writers, NEW b \in Bindings, ReplaceBinding(w, b) PROVE RevisionInv'
    BY <2>3, StoreStep DEF ReplaceBinding, Advances
  <2>4. CASE BindingNext
    BY <2>1, <2>2, <2>3, <2>4 DEF BindingNext, GetBinding, Invoke
  <2>5. CASE RoutingNext \/ UNCHANGED planningAll
    BY <2>1, <2>5 DEF RoutingNext, planningVars, planningAll
  <2>6. CASE BuildNext
    BY <2>1, <2>6 DEF BuildNext, StaticBuild, BookingBuild, RoutedBuild, ReadClock, ReadHealth, Select
  <2>7. CASE PolicyNext
    BY <2>1, <2>7 DEF PolicyNext, SkipPolicy, BeginPolicy, ReadBinding, ReadBindingFails,
                      PolicyAnswers, PolicyUnavailable, Freeze
  <2> QED BY <2>4, <2>5, <2>6, <2>7 DEF PlanningNext
<1>3. RevisionInv => RevisionHasOneContent
  BY DEF RevisionInv
<1> QED BY <1>1, <1>2, <1>3, PTL DEF PlanningBehaviour

-----------------------------------------------------------------------------
(* Sequences whose elements are of no particular set.                       *)

IsList(s) == Len(s) \in Nat /\ DOMAIN s = 1..Len(s) /\ s = [k \in 1..Len(s) |-> s[k]]

(* A list is a sequence over any set that holds its elements.               *)
LEMMA ListInSeq ==
  ASSUME NEW s, IsList(s), NEW T, \A k \in 1..Len(s) : s[k] \in T
  PROVE  s \in Seq(T)
<1>1. s \in [1..Len(s) -> T]
  BY DEF IsList
<1> QED BY <1>1 DEF IsList

(* A sequence is a list.                                                    *)
LEMMA SeqIsList ==
  ASSUME NEW T, NEW s \in Seq(T)
  PROVE  IsList(s)
BY DEF IsList

(* A function on 1..n is a list of length n.                                *)
LEMMA FunctionIsList ==
  ASSUME NEW n \in Nat, NEW s, DOMAIN s = 1..n, s = [k \in 1..n |-> s[k]]
  PROVE  IsList(s) /\ Len(s) = n
<1> DEFINE T == {s[k] : k \in 1..n}
<1>1. s \in [1..n -> T]
  OBVIOUS
<1>2. s \in Seq(T) /\ Len(s) = n
  BY <1>1
<1> QED BY <1>2, SeqIsList

(* What Append does to a list.                                              *)
LEMMA AppendList ==
  ASSUME NEW s, IsList(s), NEW e
  PROVE  /\ IsList(Append(s, e)) /\ Len(Append(s, e)) = Len(s) + 1
         /\ \A k \in 1..Len(s) : Append(s, e)[k] = s[k]
         /\ Append(s, e)[Len(s) + 1] = e
<1> DEFINE T == {s[k] : k \in 1..Len(s)} \cup {e}
<1>1. s \in Seq(T) /\ e \in T
  BY ListInSeq
<1> HIDE DEF T
<1>2. Append(s, e) \in Seq(T)
  BY <1>1
<1>3. IsList(Append(s, e))
  BY <1>2, SeqIsList
<1>4. Len(Append(s, e)) = Len(s) + 1 /\ Append(s, e)[Len(s) + 1] = e
  BY <1>1
<1>5. \A k \in 1..Len(s) : Append(s, e)[k] = s[k]
  BY <1>1
<1> QED BY <1>3, <1>4, <1>5

(* What concatenation does to two lists.                                    *)
LEMMA ConcatList ==
  ASSUME NEW s, IsList(s), NEW t, IsList(t)
  PROVE  /\ IsList(s \o t) /\ Len(s \o t) = Len(s) + Len(t)
         /\ \A k \in 1..Len(s) : (s \o t)[k] = s[k]
         /\ \A k \in 1..Len(t) : (s \o t)[Len(s) + k] = t[k]
<1> DEFINE T == {s[k] : k \in 1..Len(s)} \cup {t[k] : k \in 1..Len(t)}
<1>1. s \in Seq(T) /\ t \in Seq(T)
  BY ListInSeq
<1> HIDE DEF T
<1>2. s \o t \in Seq(T)
  BY <1>1
<1>3. IsList(s \o t)
  BY <1>2, SeqIsList
<1>4. Len(s \o t) = Len(s) + Len(t) /\ Len(s) \in Nat /\ Len(t) \in Nat
  BY <1>1
<1>5. \A k \in 1..Len(s) : (s \o t)[k] = s[k]
  BY <1>1
<1>6. \A k \in 1..Len(t) : (s \o t)[Len(s) + k] = t[k]
  <2> SUFFICES ASSUME NEW k \in 1..Len(t) PROVE (s \o t)[Len(s) + k] = t[k]
    OBVIOUS
  <2>1. Len(s) + k \in 1..(Len(s) + Len(t)) /\ Len(s) + k > Len(s) /\ (Len(s) + k) - Len(s) = k
    BY <1>4
  <2> QED BY <1>1, <2>1
<1> QED BY <1>3, <1>4, <1>5, <1>6

(* The same with the lengths given names.                                   *)
LEMMA ConcatOf ==
  ASSUME NEW s, IsList(s), NEW t, IsList(t),
         NEW n \in Nat, NEW m \in Nat, Len(s) = n, Len(t) = m
  PROVE  /\ IsList(s \o t) /\ Len(s \o t) = n + m
         /\ \A k \in 1..n : (s \o t)[k] = s[k]
         /\ \A k \in 1..m : (s \o t)[n + k] = t[k]
<1>1. IsList(s \o t)
  BY ConcatList
<1>2. Len(s \o t) = n + m
  BY ConcatList
<1>3. \A k \in 1..n : (s \o t)[k] = s[k]
  BY ConcatList
<1>4. \A k \in 1..m : (s \o t)[n + k] = t[k]
  BY ConcatList
<1> QED BY <1>1, <1>2, <1>3, <1>4

(* An element of a concatenation is one of either part.                     *)
LEMMA ConcatSplit ==
  ASSUME NEW s, IsList(s), NEW t, IsList(t), NEW k \in 1..Len(s \o t)
  PROVE  \/ k \in 1..Len(s) /\ (s \o t)[k] = s[k]
         \/ /\ k - Len(s) \in 1..Len(t) /\ (s \o t)[k] = t[k - Len(s)]
<1>1. /\ Len(s) \in Nat /\ Len(t) \in Nat /\ Len(s \o t) = Len(s) + Len(t)
      /\ \A j \in 1..Len(s) : (s \o t)[j] = s[j]
      /\ \A j \in 1..Len(t) : (s \o t)[Len(s) + j] = t[j]
  BY ConcatList DEF IsList
<1>2. CASE k <= Len(s)
  BY <1>1, <1>2
<1>3. CASE ~(k <= Len(s))
  <2>1. k - Len(s) \in 1..Len(t) /\ Len(s) + (k - Len(s)) = k
    BY <1>1, <1>3
  <2> QED BY <1>1, <2>1
<1> QED BY <1>2, <1>3

(* The empty sequence is a list of length 0.                                *)
LEMMA EmptyList == IsList(<<>>) /\ Len(<<>>) = 0
BY DEF IsList

(* A list of length 0 is the empty sequence.                                *)
LEMMA ListEmpty ==
  ASSUME NEW s, IsList(s), Len(s) = 0
  PROVE  s = <<>>
<1>1. s \in Seq({})
  BY ListInSeq
<1> QED BY <1>1

(* The empty sequence is a left unit of concatenation.                      *)
LEMMA EmptyConcat ==
  ASSUME NEW s, IsList(s)
  PROVE  <<>> \o s = s
<1> DEFINE T == {s[k] : k \in 1..Len(s)}
<1>1. s \in Seq(T)
  BY ListInSeq
<1> HIDE DEF T
<1> QED BY <1>1

(* A set of naturals has a least element.                                   *)
LEMMA LeastOf ==
  ASSUME NEW T, T \subseteq Nat, T # {}
  PROVE  \E n \in T : \A m \in T : n <= m
<1>1. PICK n \in T : \A m \in T : ~(<<m, n>> \in OpToRel(<, Nat))
  BY NatLessThanWellFounded, WFMin
<1>2. \A m \in T : ~(m < n)
  BY <1>1 DEF OpToRel
<1> QED BY <1>2

(* The library's flattening, unfolded.                                      *)
FlatEq(F, s, n) == F = [i \in 1..n |-> IF i = 1 THEN s[i] ELSE F[i - 1] \o s[i]]
Flat(s) == CHOOSE F : FlatEq(F, s, Len(s))

(* The library's FlattenSeq is the last value of its recursive function.    *)
LEMMA FlattenIsFlat ==
  ASSUME NEW s, Len(s) # 0
  PROVE  FlattenSeq(s) = Flat(s)[Len(s)]
BY DEF FlattenSeq, Flat, FlatEq

(* That function satisfies its equation.                                    *)
LEMMA FlatExists ==
  ASSUME NEW s, IsList(s)
  PROVE  FlatEq(Flat(s), s, Len(s))
<1> DEFINE Bad == {n \in Nat : ~\E F : FlatEq(F, s, n)}
<1>1. Bad = {}
  <2> SUFFICES ASSUME Bad # {} PROVE FALSE
    OBVIOUS
  <2>1. PICK n \in Bad : \A m \in Bad : n <= m
    BY LeastOf
  <2>2. n \in Nat /\ ~\E F : FlatEq(F, s, n)
    OBVIOUS
  <2>3. CASE n = 0
    <3> DEFINE G == [i \in 1..0 |-> s]
    <3>1. \A i \in 1..0 : FALSE
      OBVIOUS
    <3>2. FlatEq(G, s, 0)
      BY <3>1 DEF FlatEq
    <3> QED BY <2>2, <2>3, <3>2
  <2>4. CASE n # 0
    <3>1. n - 1 \in Nat /\ n - 1 \notin Bad
      <4> HIDE DEF Bad
      <4> QED BY <2>1, <2>2, <2>4
    <3>2. PICK F : FlatEq(F, s, n - 1)
      BY <3>1
    <3> DEFINE G == [i \in 1..n |-> IF i = 1 THEN s[i] ELSE F[i - 1] \o s[i]]
    <3>3. ASSUME NEW i \in 1..(n - 1) PROVE G[i] = F[i] /\ i \in 1..n
      <4>1. i \in 1..n
        BY <2>2
      <4>2. F = [x \in 1..(n - 1) |-> IF x = 1 THEN s[x] ELSE F[x - 1] \o s[x]]
        BY <3>2 DEF FlatEq
      <4>3. F[i] = IF i = 1 THEN s[i] ELSE F[i - 1] \o s[i]
        BY <4>2
      <4> QED BY <4>1, <4>3
    <3>4. \A i \in 1..n : i = 1 \/ i - 1 \in 1..(n - 1)
      BY <2>2
    <3>5. \A i \in 1..n : G[i] = IF i = 1 THEN s[i] ELSE G[i - 1] \o s[i]
      BY <3>3, <3>4
    <3>6. FlatEq(G, s, n)
      BY <3>5 DEF FlatEq
    <3> QED BY <2>2, <3>6
  <2> QED BY <2>3, <2>4
<1>2. \E F : FlatEq(F, s, Len(s))
  BY <1>1 DEF IsList
<1> QED BY <1>2 DEF Flat

(* What the prefixes of a flattening are.                                   *)
LEMMA FlatStep ==
  ASSUME NEW s, IsList(s), NEW i \in 1..Len(s)
  PROVE  Flat(s)[i] = IF i = 1 THEN s[i] ELSE Flat(s)[i - 1] \o s[i]
<1> DEFINE F == Flat(s)
<1>1. FlatEq(F, s, Len(s))
  BY FlatExists
<1> HIDE DEF F
<1>2. F = [x \in 1..Len(s) |-> IF x = 1 THEN s[x] ELSE F[x - 1] \o s[x]]
  BY <1>1 DEF FlatEq
<1>3. F[i] = IF i = 1 THEN s[i] ELSE F[i - 1] \o s[i]
  BY <1>2
<1> QED BY <1>3 DEF F

(* Flattening lists gives lists.                                            *)
LEMMA FlatLists ==
  ASSUME NEW s, IsList(s), \A i \in 1..Len(s) : IsList(s[i]), NEW i \in 1..Len(s)
  PROVE  IsList(Flat(s)[i])
<1> DEFINE Bad == {n \in Nat : n \in 1..Len(s) /\ ~IsList(Flat(s)[n])}
<1>1. Bad = {}
  <2> SUFFICES ASSUME Bad # {} PROVE FALSE
    OBVIOUS
  <2>1. PICK n \in Bad : \A m \in Bad : n <= m
    BY LeastOf
  <2>2. n \in Nat /\ n \in 1..Len(s) /\ ~IsList(Flat(s)[n])
    OBVIOUS
  <2>3. CASE n = 1
    BY <2>2, <2>3, FlatStep
  <2>4. CASE n # 1
    <3>1. n - 1 \in Nat /\ n - 1 \in 1..Len(s) /\ n - 1 \notin Bad
      <4> HIDE DEF Bad
      <4> QED BY <2>1, <2>2, <2>4 DEF IsList
    <3>2. IsList(Flat(s)[n - 1]) /\ IsList(s[n])
      BY <2>2, <3>1
    <3>3. Flat(s)[n] = Flat(s)[n - 1] \o s[n]
      BY <2>2, <2>4, FlatStep
    <3> QED BY <2>2, <3>2, <3>3, ConcatList
  <2> QED BY <2>3, <2>4
<1> QED BY <1>1 DEF IsList

-----------------------------------------------------------------------------
(* The attempts of the steps.                                               *)

StepOk(step, i) ==
  /\ DOMAIN step = {"primary", "fallbacks", "approval", "compensation"}
  /\ \A kind \in Kinds :
       /\ IsList(Part(kind, step))
       /\ \A k \in 1..Len(Part(kind, step)) :
            Part(kind, step)[k].kind = kind /\ Part(kind, step)[k].step = i

StepsOk(steps) == IsList(steps) /\ \A i \in 1..Len(steps) : StepOk(steps[i], i)

Parts(kind, steps) == [i \in 1..Len(steps) |-> Part(kind, steps[i])]

(* The attempts of a kind in the first i steps.                             *)
Prefix(kind, steps, i) == IF i = 0 THEN <<>> ELSE Flat(Parts(kind, steps))[i]

(* The attempts of one kind, step by step, are lists.                       *)
LEMMA PartsList ==
  ASSUME NEW kind \in Kinds, NEW steps, StepsOk(steps)
  PROVE  /\ IsList(Parts(kind, steps)) /\ Len(Parts(kind, steps)) = Len(steps)
         /\ \A i \in 1..Len(steps) : /\ Parts(kind, steps)[i] = Part(kind, steps[i])
                                     /\ IsList(Parts(kind, steps)[i])
<1>1. Len(steps) \in Nat
  BY DEF StepsOk, IsList
<1>2. \A i \in 1..Len(steps) : /\ Parts(kind, steps)[i] = Part(kind, steps[i])
                                /\ IsList(Parts(kind, steps)[i])
  BY DEF Parts, StepsOk, StepOk
<1>3. DOMAIN Parts(kind, steps) = 1..Len(steps)
      /\ Parts(kind, steps) = [k \in 1..Len(steps) |-> Parts(kind, steps)[k]]
  BY DEF Parts
<1>4. IsList(Parts(kind, steps)) /\ Len(Parts(kind, steps)) = Len(steps)
  BY <1>1, <1>3, FunctionIsList
<1> QED BY <1>2, <1>4

(* The attempts of one kind in the first i steps are a list.                *)
LEMMA PrefixList ==
  ASSUME NEW kind \in Kinds, NEW steps, StepsOk(steps), NEW i \in 0..Len(steps)
  PROVE  IsList(Prefix(kind, steps, i))
<1>1. CASE i = 0
  BY <1>1, EmptyList DEF Prefix
<1>2. CASE i # 0
  <2>1. i \in 1..Len(Parts(kind, steps))
    BY <1>2, PartsList DEF StepsOk, IsList
  <2> QED BY <1>2, <2>1, PartsList, FlatLists DEF Prefix
<1> QED BY <1>1, <1>2

(* One more step adds its own attempts at the end.                          *)
LEMMA PrefixStep ==
  ASSUME NEW kind \in Kinds, NEW steps, StepsOk(steps), NEW i \in 1..Len(steps)
  PROVE  Prefix(kind, steps, i) = Prefix(kind, steps, i - 1) \o Part(kind, steps[i])
<1> DEFINE P == Parts(kind, steps)
<1>1. IsList(P) /\ i \in 1..Len(P) /\ P[i] = Part(kind, steps[i]) /\ IsList(P[i])
  BY PartsList
<1>2. Flat(P)[i] = IF i = 1 THEN P[i] ELSE Flat(P)[i - 1] \o P[i]
  BY <1>1, FlatStep
<1>3. i \in Nat /\ i # 0
  BY DEF StepsOk, IsList
<1> HIDE DEF P
<1>4. CASE i = 1
  <2>1. Prefix(kind, steps, i) = P[i] /\ Prefix(kind, steps, i - 1) = <<>>
    BY <1>2, <1>3, <1>4 DEF Prefix, P
  <2>2. <<>> \o P[i] = P[i]
    BY <1>1, EmptyConcat
  <2> QED BY <1>1, <2>1, <2>2
<1>5. CASE i # 1
  <2>1. i - 1 # 0
    BY <1>3, <1>5
  <2> QED BY <1>1, <1>2, <1>3, <1>5, <2>1 DEF Prefix, P
<1> QED BY <1>4, <1>5

(* With all steps the prefix is what the plan has of that kind.             *)
LEMMA PrefixAll ==
  ASSUME NEW kind \in Kinds, NEW steps, StepsOk(steps)
  PROVE  Planned(kind, steps) = Prefix(kind, steps, Len(steps))
<1>1. IsList(Parts(kind, steps)) /\ Len(Parts(kind, steps)) = Len(steps)
  BY PartsList
<1>2. Planned(kind, steps) = FlattenSeq(Parts(kind, steps))
  BY DEF Planned, Parts
<1>3. CASE Len(steps) = 0
  <2>1. FlattenSeq(Parts(kind, steps)) = Parts(kind, steps)
    BY <1>1, <1>3 DEF FlattenSeq
  <2> QED BY <1>1, <1>2, <1>3, <2>1, ListEmpty DEF Prefix
<1>4. CASE Len(steps) # 0
  BY <1>1, <1>2, <1>4, FlattenIsFlat DEF Prefix
<1> QED BY <1>3, <1>4

(* Where a kind begins among the routes of a step, and how many of its      *)
(* attempts come before the j-th route.                                     *)
Offset(kind, step) ==
  IF kind = "primary" THEN 0 ELSE IF kind = "fallback" THEN 1 ELSE 1 + Len(step.fallbacks)

Clip(x, n) == IF x < 0 THEN 0 ELSE IF x > n THEN n ELSE x

Passed(kind, step, j) == Clip(j - 1 - Offset(kind, step), Len(Part(kind, step)))

Taken(kind, step, j) == [k \in 1..Passed(kind, step, j) |-> Part(kind, step)[k]]

(* How a step's attempts divide into its primary, fallbacks and compensation. *)
LEMMA PartLengths ==
  ASSUME NEW step, NEW i, StepOk(step, i)
  PROVE  /\ Len(Part("primary", step)) = 1 /\ Part("primary", step)[1] = step.primary
         /\ IsList(step.fallbacks) /\ IsList(step.compensation)
         /\ Len(step.fallbacks) \in Nat /\ Len(step.compensation) \in Nat
         /\ Part("fallback", step) = step.fallbacks
         /\ Part("compensation", step) = step.compensation
         /\ \A kind \in Kinds : Len(Part(kind, step)) \in Nat /\ Offset(kind, step) \in Nat
         /\ IsList(Routes(step))
         /\ Len(Routes(step)) = 1 + Len(step.fallbacks) + Len(step.compensation)
<1>1. \A kind \in Kinds : IsList(Part(kind, step)) /\ Len(Part(kind, step)) \in Nat
  BY DEF StepOk, IsList
<1>2. "primary" \in Kinds /\ "fallback" \in Kinds /\ "compensation" \in Kinds
  BY DEF Kinds
<1>3. /\ Part("primary", step) = <<step.primary>> /\ Part("fallback", step) = step.fallbacks
      /\ Part("compensation", step) = step.compensation
  BY DEF Part
<1>4. Len(<<step.primary>>) = 1 /\ <<step.primary>>[1] = step.primary
  OBVIOUS
<1>5. \A kind \in Kinds : Offset(kind, step) \in Nat
  BY <1>1, <1>2, <1>3 DEF Offset
<1> DEFINE p == Part("primary", step)
           f == Part("fallback", step)
           c == Part("compensation", step)
<1>6. /\ IsList(p) /\ IsList(f) /\ IsList(c)
      /\ Len(p) = 1 /\ Len(f) = Len(step.fallbacks) /\ Len(c) = Len(step.compensation)
  BY <1>1, <1>2, <1>3, <1>4
<1>7. Routes(step) = p \o f \o c
  BY DEF Routes
<1> HIDE DEF p, f, c
<1>8. IsList(p \o f) /\ Len(p \o f) = Len(p) + Len(f)
  BY <1>6, ConcatList
<1>9. IsList(p \o f \o c) /\ Len(p \o f \o c) = Len(p \o f) + Len(c)
  BY <1>6, <1>8, ConcatList
<1>10. IsList(Routes(step)) /\ Len(Routes(step)) = 1 + Len(step.fallbacks) + Len(step.compensation)
  BY <1>6, <1>7, <1>8, <1>9
<1> QED BY <1>1, <1>2, <1>3, <1>4, <1>5, <1>10

(* Every step has a route.                                                  *)
LEMMA SomeRoute ==
  ASSUME NEW step, NEW i, StepOk(step, i)
  PROVE  Len(Routes(step)) \in Nat /\ Len(Routes(step)) >= 1
<1> DEFINE f == Len(step.fallbacks)
           c == Len(step.compensation)
<1>1. f \in Nat /\ c \in Nat /\ Len(Routes(step)) = 1 + f + c
  BY PartLengths
<1> HIDE DEF f, c
<1> QED BY <1>1

(* The j-th route is an attempt of its own kind.                            *)
LEMMA RouteAt ==
  ASSUME NEW step, NEW i, StepOk(step, i), NEW j \in 1..Len(Routes(step))
  PROVE  LET a == Routes(step)[j] IN
         /\ a.kind \in Kinds /\ a.step = i
         /\ j - Offset(a.kind, step) \in 1..Len(Part(a.kind, step))
         /\ a = Part(a.kind, step)[j - Offset(a.kind, step)]
<1> DEFINE a == Routes(step)[j]
           pf == Part("primary", step) \o Part("fallback", step)
<1>1. \A kind \in Kinds : IsList(Part(kind, step))
  BY DEF StepOk
<1>2. "primary" \in Kinds /\ "fallback" \in Kinds /\ "compensation" \in Kinds
  BY DEF Kinds
<1>3. IsList(pf) /\ Len(pf) = 1 + Len(step.fallbacks)
  <2>1. IsList(pf) /\ Len(pf) = Len(Part("primary", step)) + Len(Part("fallback", step))
    BY <1>1, <1>2, ConcatList
  <2>2. Len(Part("primary", step)) = 1 /\ Part("fallback", step) = step.fallbacks
    BY PartLengths
  <2> QED BY <2>1, <2>2
<1>4. Routes(step) = pf \o Part("compensation", step)
  BY DEF Routes
<1>5. SUFFICES \E kind \in Kinds : /\ j - Offset(kind, step) \in 1..Len(Part(kind, step))
                                   /\ a = Part(kind, step)[j - Offset(kind, step)]
  BY DEF StepOk
<1>6. /\ Offset("primary", step) = 0 /\ Offset("fallback", step) = 1
      /\ Offset("compensation", step) = 1 + Len(step.fallbacks)
  BY DEF Offset
<1>7. /\ Len(Part("primary", step)) = 1 /\ Len(step.fallbacks) \in Nat
      /\ Len(Part("fallback", step)) = Len(step.fallbacks) /\ j \in Nat
  <2>1. /\ Len(Part("primary", step)) = 1 /\ Len(step.fallbacks) \in Nat
        /\ Part("fallback", step) = step.fallbacks /\ IsList(Routes(step))
    BY PartLengths
  <2> QED BY <2>1 DEF IsList
<1>8. \/ j \in 1..Len(pf) /\ a = pf[j]
      \/ j - Len(pf) \in 1..Len(Part("compensation", step)) /\ a = Part("compensation", step)[j - Len(pf)]
  <2> HIDE DEF pf
  <2> QED BY <1>1, <1>2, <1>3, <1>4, ConcatSplit
<1>9. CASE j - Len(pf) \in 1..Len(Part("compensation", step))
           /\ a = Part("compensation", step)[j - Len(pf)]
  <2> HIDE DEF pf, a
  <2> QED BY <1>2, <1>3, <1>6, <1>9
<1>10. CASE j \in 1..Len(pf) /\ a = pf[j]
  <2>1. \/ j \in 1..Len(Part("primary", step)) /\ pf[j] = Part("primary", step)[j]
        \/ /\ j - Len(Part("primary", step)) \in 1..Len(Part("fallback", step))
           /\ pf[j] = Part("fallback", step)[j - Len(Part("primary", step))]
    BY <1>1, <1>2, <1>10, ConcatSplit
  <2> HIDE DEF pf, a
  <2>2. j - 0 = j
    BY <1>7
  <2> QED BY <1>2, <1>6, <1>7, <1>10, <2>1, <2>2
<1> QED BY <1>8, <1>9, <1>10

(* Before the first route nothing is taken, after the last all is; a route  *)
(* adds itself to its own kind and nothing to the others.                   *)
LEMMA TakenStart ==
  ASSUME NEW step, NEW i, StepOk(step, i), NEW kind \in Kinds
  PROVE  Taken(kind, step, 1) = <<>>
<1>1. Passed(kind, step, 1) = 0
  <2>1. Len(Part(kind, step)) \in Nat /\ Offset(kind, step) \in Nat
    BY PartLengths
  <2> QED BY <2>1 DEF Passed, Clip
<1>2. DOMAIN Taken(kind, step, 1) = 1..0
      /\ Taken(kind, step, 1) = [k \in 1..0 |-> Taken(kind, step, 1)[k]]
  BY <1>1 DEF Taken
<1>3. IsList(Taken(kind, step, 1)) /\ Len(Taken(kind, step, 1)) = 0
  BY <1>2, FunctionIsList
<1> QED BY <1>3, ListEmpty

(* Behind the last route every attempt of the step has been taken.          *)
LEMMA TakenAll ==
  ASSUME NEW step, NEW i, StepOk(step, i), NEW kind \in Kinds
  PROVE  Taken(kind, step, Len(Routes(step)) + 1) = Part(kind, step)
<1>1. Passed(kind, step, Len(Routes(step)) + 1) = Len(Part(kind, step))
  <2> DEFINE f == Len(step.fallbacks)
             c == Len(step.compensation)
  <2>1. f \in Nat /\ c \in Nat /\ Len(Routes(step)) = 1 + f + c /\ Len(Part("primary", step)) = 1
        /\ Part("fallback", step) = step.fallbacks /\ Part("compensation", step) = step.compensation
    BY PartLengths
  <2> HIDE DEF f, c
  <2>2. CASE kind = "primary"
    <3>1. Offset(kind, step) = 0 /\ Len(Part(kind, step)) = 1
      BY <2>1, <2>2 DEF Offset
    <3> QED BY <2>1, <3>1 DEF Passed, Clip
  <2>3. CASE kind = "fallback"
    <3>1. Offset(kind, step) = 1 /\ Len(Part(kind, step)) = f
      BY <2>1, <2>3 DEF Offset, f
    <3>2. (Len(Routes(step)) + 1) - 1 - Offset(kind, step) = f + c
      BY <2>1, <3>1
    <3> QED BY <2>1, <3>1, <3>2 DEF Passed, Clip
  <2>4. CASE kind = "compensation"
    <3>1. Offset(kind, step) = 1 + f /\ Len(Part(kind, step)) = c
      BY <2>1, <2>4 DEF Offset, f, c
    <3>2. (Len(Routes(step)) + 1) - 1 - Offset(kind, step) = c
      BY <2>1, <3>1
    <3> QED BY <2>1, <3>1, <3>2 DEF Passed, Clip
  <2> QED BY <2>2, <2>3, <2>4 DEF Kinds
<1>2. IsList(Part(kind, step))
  BY DEF StepOk
<1> QED BY <1>1, <1>2 DEF Taken, IsList

(* The attempts taken so far are a list, as long as the routes passed.      *)
LEMMA TakenList ==
  ASSUME NEW step, NEW i, StepOk(step, i), NEW kind \in Kinds, NEW j \in Nat
  PROVE  /\ IsList(Taken(kind, step, j)) /\ Len(Taken(kind, step, j)) = Passed(kind, step, j)
         /\ Passed(kind, step, j) \in 0..Len(Part(kind, step))
<1>1. Passed(kind, step, j) \in 0..Len(Part(kind, step)) /\ Passed(kind, step, j) \in Nat
  <2>1. Len(Part(kind, step)) \in Nat /\ Offset(kind, step) \in Nat
    BY PartLengths
  <2> QED BY <2>1 DEF Passed, Clip
<1>2. DOMAIN Taken(kind, step, j) = 1..Passed(kind, step, j)
      /\ Taken(kind, step, j) = [k \in 1..Passed(kind, step, j) |-> Taken(kind, step, j)[k]]
  BY DEF Taken
<1> QED BY <1>1, <1>2, FunctionIsList

(* Passing a route takes its attempt.                                       *)
LEMMA TakenOwn ==
  ASSUME NEW step, NEW i, StepOk(step, i), NEW j \in 1..Len(Routes(step))
  PROVE  LET a == Routes(step)[j] IN
         Taken(a.kind, step, j + 1) = Append(Taken(a.kind, step, j), a)
<1> DEFINE a == Routes(step)[j]
           n == j - Offset(a.kind, step)
           P == Part(a.kind, step)
           T == Taken(a.kind, step, j)
           U == Taken(a.kind, step, j + 1)
<1>1. a.kind \in Kinds /\ n \in 1..Len(P) /\ a = P[n]
  BY RouteAt
<1>2. j \in Nat /\ Len(P) \in Nat /\ Offset(a.kind, step) \in Nat
  <2>1. IsList(Routes(step))
    BY PartLengths
  <2>2. j \in Nat
    BY <2>1 DEF IsList
  <2> QED BY <1>1, <2>2, PartLengths
<1>3. Passed(a.kind, step, j) = n - 1 /\ Passed(a.kind, step, j + 1) = n
  <2>1. n \in Nat /\ n >= 1 /\ n <= Len(P) /\ j - 1 - Offset(a.kind, step) = n - 1
        /\ (j + 1) - 1 - Offset(a.kind, step) = n
    BY <1>1, <1>2
  <2> HIDE DEF n
  <2> QED BY <1>2, <2>1 DEF Passed, Clip
<1>4. n \in Nat /\ n - 1 \in Nat /\ (n - 1) + 1 = n
  BY <1>1, <1>2
<1>5. IsList(T) /\ Len(T) = n - 1 /\ IsList(U) /\ Len(U) = n
  BY <1>1, <1>2, <1>3, TakenList
<1>6. \A k \in 1..n : U[k] = P[k]
  BY <1>3 DEF Taken
<1>7. \A k \in 1..(n - 1) : T[k] = P[k]
  BY <1>3 DEF Taken
<1> HIDE DEF T, U, P, n, a
<1>8. /\ IsList(Append(T, a)) /\ Len(Append(T, a)) = n
      /\ \A k \in 1..(n - 1) : Append(T, a)[k] = T[k]
      /\ Append(T, a)[n] = a
  BY <1>4, <1>5, AppendList
<1>9. \A k \in 1..n : Append(T, a)[k] = U[k]
  <2> SUFFICES ASSUME NEW k \in 1..n PROVE Append(T, a)[k] = U[k]
    OBVIOUS
  <2>1. CASE k = n
    BY <1>1, <1>6, <1>8, <2>1
  <2>2. CASE k # n
    <3>1. k \in 1..(n - 1)
      BY <1>4, <2>2
    <3> QED BY <1>6, <1>7, <1>8, <3>1
  <2> QED BY <2>1, <2>2
<1>10. U = Append(T, a)
  BY <1>5, <1>8, <1>9 DEF IsList
<1> QED BY <1>10 DEF T, U, a

(* Passing a route takes no attempt of another kind.                        *)
LEMMA TakenOther ==
  ASSUME NEW step, NEW i, StepOk(step, i), NEW j \in 1..Len(Routes(step)),
         NEW kind \in Kinds, kind # Routes(step)[j].kind
  PROVE  Taken(kind, step, j + 1) = Taken(kind, step, j)
<1> DEFINE a == Routes(step)[j]
           f == Len(step.fallbacks)
           c == Len(step.compensation)
<1>1. a.kind \in Kinds /\ j - Offset(a.kind, step) \in 1..Len(Part(a.kind, step))
  BY RouteAt
<1>2. f \in Nat /\ c \in Nat /\ Len(Routes(step)) = 1 + f + c
  BY PartLengths
<1>3. /\ Offset("primary", step) = 0 /\ Len(Part("primary", step)) = 1
      /\ Offset("fallback", step) = 1 /\ Len(Part("fallback", step)) = f
      /\ Offset("compensation", step) = 1 + f /\ Len(Part("compensation", step)) = c
  BY PartLengths DEF Offset
<1>4. j \in Nat /\ j >= 1
  BY <1>2
<1> HIDE DEF a, f, c
<1>5. /\ a.kind = "primary" => j = 1
      /\ a.kind = "fallback" => j - 1 >= 1 /\ j - 1 <= f
      /\ a.kind = "compensation" => j - 1 >= 1 /\ j - (1 + f) >= 1
  <2>1. CASE a.kind = "primary"
    <3>1. j - 0 \in 1..1
      BY <1>1, <1>3, <2>1
    <3> QED BY <1>4, <2>1, <3>1
  <2>2. CASE a.kind = "fallback"
    <3>1. j - 1 \in 1..f
      BY <1>1, <1>3, <2>2
    <3> QED BY <1>2, <1>4, <2>2, <3>1
  <2>3. CASE a.kind = "compensation"
    <3>1. j - (1 + f) \in 1..c
      BY <1>1, <1>3, <2>3
    <3> QED BY <1>2, <1>4, <2>3, <3>1
  <2> QED BY <1>1, <2>1, <2>2, <2>3 DEF Kinds
<1>6. Passed(kind, step, j + 1) = Passed(kind, step, j)
  <2>1. CASE kind = "primary"
    <3>1. j - 1 >= 1
      BY <1>1, <1>5, <2>1 DEF Kinds, a
    <3>2. /\ Passed(kind, step, j) = Clip(j - 1 - 0, 1)
          /\ Passed(kind, step, j + 1) = Clip((j + 1) - 1 - 0, 1)
      BY <1>3, <2>1 DEF Passed
    <3>3. Clip(j - 1 - 0, 1) = 1 /\ Clip((j + 1) - 1 - 0, 1) = 1
      BY <1>4, <3>1 DEF Clip
    <3> QED BY <3>2, <3>3
  <2>2. CASE kind = "fallback"
    <3>1. j = 1 \/ j - (1 + f) >= 1
      BY <1>1, <1>5, <2>2 DEF Kinds, a
    <3>2. /\ Passed(kind, step, j) = Clip(j - 1 - 1, f)
          /\ Passed(kind, step, j + 1) = Clip((j + 1) - 1 - 1, f)
      BY <1>3, <2>2 DEF Passed
    <3>3. Clip(j - 1 - 1, f) = Clip((j + 1) - 1 - 1, f)
      BY <1>2, <1>4, <3>1 DEF Clip
    <3> QED BY <3>2, <3>3
  <2>3. CASE kind = "compensation"
    <3>1. j <= 1 + f
      BY <1>1, <1>2, <1>4, <1>5, <2>3 DEF Kinds, a
    <3>2. /\ Passed(kind, step, j) = Clip(j - 1 - (1 + f), c)
          /\ Passed(kind, step, j + 1) = Clip((j + 1) - 1 - (1 + f), c)
      BY <1>3, <2>3 DEF Passed
    <3>3. Clip(j - 1 - (1 + f), c) = 0 /\ Clip((j + 1) - 1 - (1 + f), c) = 0
      BY <1>2, <1>4, <3>1 DEF Clip
    <3> QED BY <3>2, <3>3
  <2> QED BY <2>1, <2>2, <2>3 DEF Kinds
<1> QED BY <1>6 DEF Taken

(* Lists with equal elements are equal.                                     *)
LEMMA SameList ==
  ASSUME NEW s, IsList(s), NEW t, IsList(t), Len(s) = Len(t), \A k \in 1..Len(s) : s[k] = t[k]
  PROVE  s = t
BY DEF IsList

(* The empty sequence is a right unit of concatenation.                     *)
LEMMA ConcatEmpty ==
  ASSUME NEW s, IsList(s)
  PROVE  s \o <<>> = s
<1>1. /\ IsList(s \o <<>>) /\ Len(s \o <<>>) = Len(s) + 0 /\ Len(s) \in Nat
      /\ \A k \in 1..Len(s) : (s \o <<>>)[k] = s[k]
  BY EmptyList, ConcatList DEF IsList
<1>2. Len(s \o <<>>) = Len(s)
  BY <1>1
<1> QED BY <1>1, <1>2, SameList

(* Appending to the right part is appending to the whole.                   *)
LEMMA ConcatAppend ==
  ASSUME NEW s, IsList(s), NEW t, IsList(t), NEW e
  PROVE  s \o Append(t, e) = Append(s \o t, e)
<1> DEFINE T == {s[k] : k \in 1..Len(s)} \cup {t[k] : k \in 1..Len(t)} \cup {e}
<1>1. s \in Seq(T) /\ t \in Seq(T) /\ e \in T
  BY ListInSeq
<1> HIDE DEF T
<1> QED BY <1>1

(* The attempts of a kind that come before the j-th route of step s.        *)
Ahead(kind, steps, s, j) ==
  Prefix(kind, steps, s - 1) \o (IF s <= Len(steps) THEN Taken(kind, steps[s], j) ELSE <<>>)

(* At the start no attempt lies before the cursor.                          *)
LEMMA AheadStart ==
  ASSUME NEW kind \in Kinds, NEW steps, StepsOk(steps)
  PROVE  Ahead(kind, steps, 1, 1) = <<>>
<1>1. Len(steps) \in Nat /\ Prefix(kind, steps, 1 - 1) = <<>>
  BY DEF StepsOk, IsList, Prefix
<1>2. (IF 1 <= Len(steps) THEN Taken(kind, steps[1], 1) ELSE <<>>) = <<>>
  <2>1. CASE 1 <= Len(steps)
    <3>1. StepOk(steps[1], 1)
      BY <1>1, <2>1 DEF StepsOk
    <3> QED BY <2>1, <3>1, TakenStart
  <2> QED BY <2>1
<1> QED BY <1>1, <1>2, EmptyList, EmptyConcat DEF Ahead

(* Behind the last step every attempt of the plan does.                     *)
LEMMA AheadEnd ==
  ASSUME NEW kind \in Kinds, NEW steps, StepsOk(steps), NEW s \in Nat, NEW j,
         s = Len(steps) + 1
  PROVE  Ahead(kind, steps, s, j) = Planned(kind, steps) /\ IsList(Planned(kind, steps))
<1>1. Len(steps) \in Nat /\ s - 1 = Len(steps) /\ ~(s <= Len(steps)) /\ Len(steps) \in 0..Len(steps)
  BY DEF StepsOk, IsList
<1>2. Planned(kind, steps) = Prefix(kind, steps, Len(steps)) /\ IsList(Prefix(kind, steps, Len(steps)))
  BY <1>1, PrefixAll, PrefixList
<1> QED BY <1>1, <1>2, ConcatEmpty DEF Ahead

(* The cursor after the j-th route of step s.                               *)
NextStep(steps, s, j) == IF j = Len(Routes(steps[s])) THEN s + 1 ELSE s
NextRoute(steps, s, j) == IF j = Len(Routes(steps[s])) THEN 1 ELSE j + 1

(* Moving the cursor one route on adds that route's attempt.                *)
LEMMA AheadNext ==
  ASSUME NEW kind \in Kinds, NEW steps, StepsOk(steps), NEW s \in 1..Len(steps),
         NEW j \in 1..Len(Routes(steps[s]))
  PROVE  Ahead(kind, steps, NextStep(steps, s, j), NextRoute(steps, s, j))
           = Prefix(kind, steps, s - 1) \o Taken(kind, steps[s], j + 1)
<1>1. Len(steps) \in Nat /\ s \in Nat /\ StepOk(steps[s], s) /\ s \in 0..Len(steps) /\ (s + 1) - 1 = s
  BY DEF StepsOk, IsList
<1>2. CASE j = Len(Routes(steps[s]))
  <2>1. Taken(kind, steps[s], j + 1) = Part(kind, steps[s])
    BY <1>1, <1>2, TakenAll
  <2>2. Prefix(kind, steps, s) = Prefix(kind, steps, s - 1) \o Part(kind, steps[s])
        /\ IsList(Prefix(kind, steps, s))
    BY <1>1, PrefixStep, PrefixList
  <2>3. (IF s + 1 <= Len(steps) THEN Taken(kind, steps[s + 1], 1) ELSE <<>>) = <<>>
    <3>1. CASE s + 1 <= Len(steps)
      <4>1. StepOk(steps[s + 1], s + 1)
        BY <1>1, <3>1 DEF StepsOk
      <4> QED BY <3>1, <4>1, TakenStart
    <3> QED BY <3>1
  <2>4. Ahead(kind, steps, s + 1, 1) = Prefix(kind, steps, s)
    BY <1>1, <2>2, <2>3, ConcatEmpty DEF Ahead
  <2> QED BY <1>2, <2>1, <2>2, <2>4 DEF NextStep, NextRoute
<1>3. CASE j # Len(Routes(steps[s]))
  <2>1. s <= Len(steps)
    BY <1>1
  <2> QED BY <1>3, <2>1 DEF NextStep, NextRoute, Ahead
<1> QED BY <1>2, <1>3

(* One attempt further: it is the last of its kind.                         *)
LEMMA AheadGrows ==
  ASSUME NEW kind \in Kinds, NEW steps, StepsOk(steps), NEW s \in 1..Len(steps),
         NEW j \in 1..Len(Routes(steps[s]))
  PROVE  LET a == Routes(steps[s])[j] IN
         Ahead(kind, steps, NextStep(steps, s, j), NextRoute(steps, s, j))
           = IF kind = a.kind THEN Append(Ahead(kind, steps, s, j), a)
             ELSE Ahead(kind, steps, s, j)
<1> DEFINE a == Routes(steps[s])[j]
           P == Prefix(kind, steps, s - 1)
           T == Taken(kind, steps[s], j)
           U == Taken(kind, steps[s], j + 1)
<1>1. Len(steps) \in Nat /\ s \in Nat /\ StepOk(steps[s], s) /\ s - 1 \in 0..Len(steps)
      /\ s <= Len(steps)
  BY DEF StepsOk, IsList
<1>2. j \in Nat
  <2>1. IsList(Routes(steps[s]))
    BY <1>1, PartLengths
  <2> QED BY <2>1 DEF IsList
<1>3. IsList(P) /\ IsList(T)
  BY <1>1, <1>2, PrefixList, TakenList
<1>4. Ahead(kind, steps, s, j) = P \o T
  BY <1>1 DEF Ahead
<1>5. Ahead(kind, steps, NextStep(steps, s, j), NextRoute(steps, s, j)) = P \o U
  BY AheadNext
<1>6. CASE kind = a.kind
  <2>1. U = Append(T, a)
    BY <1>1, <1>6, TakenOwn
  <2> HIDE DEF P, T, U, a
  <2>2. P \o Append(T, a) = Append(P \o T, a)
    BY <1>3, ConcatAppend
  <2>3. Ahead(kind, steps, NextStep(steps, s, j), NextRoute(steps, s, j))
          = Append(Ahead(kind, steps, s, j), a)
    BY <1>4, <1>5, <2>1, <2>2
  <2> QED BY <1>6, <2>3 DEF a
<1>7. CASE kind # a.kind
  <2>1. U = T
    BY <1>1, <1>7, TakenOther
  <2>2. Ahead(kind, steps, NextStep(steps, s, j), NextRoute(steps, s, j)) = Ahead(kind, steps, s, j)
    BY <1>4, <1>5, <2>1
  <2> QED BY <1>7, <2>2
<1> QED BY <1>6, <1>7

-----------------------------------------------------------------------------
(* The attempts that a list of decisions is about.                          *)

About(ds) == [k \in 1..Len(ds) |-> ds[k].attempt]

(* The attempts that decisions are about, as a list.                        *)
LEMMA AboutList ==
  ASSUME NEW ds, IsList(ds)
  PROVE  IsList(About(ds)) /\ Len(About(ds)) = Len(ds)
<1>1. Len(ds) \in Nat /\ DOMAIN About(ds) = 1..Len(ds)
      /\ About(ds) = [k \in 1..Len(ds) |-> About(ds)[k]]
  BY DEF About, IsList
<1> QED BY <1>1, FunctionIsList

(* One decision more is about one attempt more.                             *)
LEMMA AboutAppend ==
  ASSUME NEW ds, IsList(ds), NEW d
  PROVE  About(Append(ds, d)) = Append(About(ds), d.attempt)
<1> DEFINE n == Len(ds)
           A == Append(ds, d)
           B == Append(About(ds), d.attempt)
<1>1. n \in Nat /\ IsList(About(ds)) /\ Len(About(ds)) = n
  BY AboutList DEF IsList
<1>2. IsList(A) /\ Len(A) = n + 1 /\ A[n + 1] = d /\ \A k \in 1..n : A[k] = ds[k]
  BY AppendList
<1>3. IsList(B) /\ Len(B) = n + 1 /\ B[n + 1] = d.attempt /\ \A k \in 1..n : B[k] = About(ds)[k]
  BY <1>1, AppendList
<1>4. \A k \in 1..n : About(ds)[k] = ds[k].attempt
  BY DEF About
<1> HIDE DEF n, A, B
<1>5. IsList(About(A)) /\ Len(About(A)) = n + 1 /\ \A k \in 1..(n + 1) : About(A)[k] = A[k].attempt
  BY <1>2, AboutList DEF About
<1>6. \A k \in 1..(n + 1) : About(A)[k] = B[k]
  <2> SUFFICES ASSUME NEW k \in 1..(n + 1) PROVE About(A)[k] = B[k]
    OBVIOUS
  <2>1. CASE k = n + 1
    BY <1>2, <1>3, <1>5, <2>1
  <2>2. CASE k # n + 1
    <3>1. k \in 1..n
      BY <1>1, <2>2
    <3> QED BY <1>2, <1>3, <1>4, <1>5, <3>1
  <2> QED BY <2>1, <2>2
<1>7. About(A) = B
  BY <1>3, <1>5, <1>6, SameList
<1> QED BY <1>7 DEF A, B

(* The attempts of two lists of decisions together.                         *)
LEMMA AboutConcat ==
  ASSUME NEW ds, IsList(ds), NEW es, IsList(es)
  PROVE  About(ds \o es) = About(ds) \o About(es)
<1> DEFINE n == Len(ds)
           m == Len(es)
           A == ds \o es
           B == About(ds) \o About(es)
<1>1. /\ n \in Nat /\ IsList(About(ds)) /\ Len(About(ds)) = n
      /\ m \in Nat /\ IsList(About(es)) /\ Len(About(es)) = m
  BY AboutList DEF IsList
<1>2. /\ IsList(A) /\ Len(A) = n + m /\ \A k \in 1..n : A[k] = ds[k]
      /\ \A k \in 1..m : A[n + k] = es[k]
  BY ConcatList
<1>3. /\ IsList(B) /\ Len(B) = n + m /\ \A k \in 1..n : B[k] = About(ds)[k]
      /\ \A k \in 1..m : B[n + k] = About(es)[k]
  <2> HIDE DEF n, m
  <2>1. IsList(B)
    BY <1>1, ConcatOf
  <2>2. Len(B) = n + m
    BY <1>1, ConcatOf
  <2>3. \A k \in 1..n : B[k] = About(ds)[k]
    BY <1>1, ConcatOf
  <2>4. \A k \in 1..m : B[n + k] = About(es)[k]
    BY <1>1, ConcatOf
  <2> QED BY <2>1, <2>2, <2>3, <2>4
<1>4. (\A k \in 1..n : About(ds)[k] = ds[k].attempt) /\ (\A k \in 1..m : About(es)[k] = es[k].attempt)
  BY DEF About
<1> HIDE DEF n, m, A, B
<1>5. IsList(About(A)) /\ Len(About(A)) = n + m /\ \A k \in 1..(n + m) : About(A)[k] = A[k].attempt
  BY <1>2, AboutList DEF About
<1>6. \A k \in 1..(n + m) : About(A)[k] = B[k]
  <2> SUFFICES ASSUME NEW k \in 1..(n + m) PROVE About(A)[k] = B[k]
    OBVIOUS
  <2>1. CASE k \in 1..n
    BY <1>2, <1>3, <1>4, <1>5, <2>1
  <2>2. CASE k \notin 1..n
    <3>1. k - n \in 1..m /\ n + (k - n) = k
      BY <1>1, <2>2
    <3> QED BY <1>2, <1>3, <1>4, <1>5, <3>1
  <2> QED BY <2>1, <2>2
<1>7. About(A) = B
  BY <1>3, <1>5, <1>6, SameList
<1> QED BY <1>7 DEF A, B

-----------------------------------------------------------------------------
(* The decisions while they are collected: of each kind exactly those of    *)
(* the attempts before the cursor, in their order.                          *)

PolicyFields == {"phase", "provider", "command", "steps", "routed", "digest", "step", "route", "made"}

DecisionOk(d, kind, steps, provider) ==
  /\ d.attempt.kind = kind /\ d.attempt.step \in 1..Len(steps)
  /\ d.effect \in {"ALLOW", "REQUIRE_APPROVAL"}
  /\ kind = "compensation" => d.effect = "ALLOW"
  /\ provider = "embedded" => d.effect = EvaluatePolicy(d.attempt)

MadeOk(made, steps, provider, s, j) ==
  /\ DOMAIN made = Kinds
  /\ \A kind \in Kinds :
       /\ IsList(made[kind])
       /\ About(made[kind]) = Ahead(kind, steps, s, j)
       /\ \A k \in 1..Len(made[kind]) : DecisionOk(made[kind][k], kind, steps, provider)

CursorOk(steps, s, j) ==
  /\ StepsOk(steps) /\ s \in 1..(Len(steps) + 1)
  /\ s <= Len(steps) => j \in 1..Len(Routes(steps[s]))

IsDecided(a, made) == \E kind \in Kinds : \E k \in 1..Len(made[kind]) : made[kind][k].attempt = a

Collecting(p) ==
  /\ DOMAIN p = PolicyFields /\ p.provider \in {"embedded", "opa"}
  /\ CursorOk(p.steps, p.step, p.route)
  /\ MadeOk(p.made, p.steps, p.provider, p.step, p.route)
  /\ p.phase = "asking" => p.step <= Len(p.steps)
  /\ \A a \in DOMAIN p.digest :
       IsDecided(a, p.made) \/ (p.phase = "asking" /\ a = Routes(p.steps[p.step])[p.route])

(* At the start nothing is decided.                                         *)
LEMMA CursorStart ==
  ASSUME NEW steps, StepsOk(steps)
  PROVE  CursorOk(steps, 1, 1)
<1>1. Len(steps) \in Nat
  BY DEF StepsOk, IsList
<1>2. ASSUME 1 <= Len(steps) PROVE 1 \in 1..Len(Routes(steps[1]))
  <2>1. StepOk(steps[1], 1)
    BY <1>1, <1>2 DEF StepsOk
  <2> QED BY <2>1, SomeRoute
<1> QED BY <1>1, <1>2 DEF CursorOk

(* Before the first decision the collected ones match the cursor.           *)
LEMMA MadeStart ==
  ASSUME NEW steps, StepsOk(steps), NEW provider
  PROVE  MadeOk([kind \in Kinds |-> <<>>], steps, provider, 1, 1)
<1>1. About(<<>>) = <<>>
  <2>1. IsList(About(<<>>)) /\ Len(About(<<>>)) = 0
    BY EmptyList, AboutList
  <2> QED BY <2>1, ListEmpty
<1>2. \A kind \in Kinds : Ahead(kind, steps, 1, 1) = <<>>
  BY AheadStart
<1>3. IsList(<<>>) /\ \A k \in 1..Len(<<>>) : FALSE
  BY EmptyList
<1> QED BY <1>1, <1>2, <1>3 DEF MadeOk

(* The cursor moves to the next route, or past the last step.               *)
LEMMA CursorNext ==
  ASSUME NEW steps, NEW s, NEW j, CursorOk(steps, s, j), s <= Len(steps)
  PROVE  CursorOk(steps, NextStep(steps, s, j), NextRoute(steps, s, j))
<1>1. /\ StepsOk(steps) /\ Len(steps) \in Nat /\ s \in 1..Len(steps) /\ s \in Nat
      /\ j \in 1..Len(Routes(steps[s]))
  BY DEF CursorOk, StepsOk, IsList
<1>2. \A i \in 1..Len(steps) : /\ Len(Routes(steps[i])) \in Nat /\ Len(Routes(steps[i])) >= 1
  <2> SUFFICES ASSUME NEW i \in 1..Len(steps)
               PROVE  Len(Routes(steps[i])) \in Nat /\ Len(Routes(steps[i])) >= 1
    OBVIOUS
  <2>1. StepOk(steps[i], i)
    BY <1>1 DEF StepsOk
  <2> QED BY <2>1, SomeRoute
<1>3. CASE j = Len(Routes(steps[s]))
  <2>1. s + 1 \in 1..(Len(steps) + 1)
    BY <1>1
  <2>2. s + 1 <= Len(steps) => 1 \in 1..Len(Routes(steps[s + 1]))
    BY <1>1, <1>2
  <2> QED BY <1>1, <1>3, <2>1, <2>2 DEF CursorOk, NextStep, NextRoute
<1>4. CASE j # Len(Routes(steps[s]))
  <2>1. j + 1 \in 1..Len(Routes(steps[s]))
    BY <1>1, <1>2, <1>4
  <2> QED BY <1>1, <1>4, <2>1 DEF CursorOk, NextStep, NextRoute
<1> QED BY <1>3, <1>4

(* A decision on the current attempt is the next one of its kind.           *)
LEMMA MadeNext ==
  ASSUME NEW steps, NEW s, NEW j, CursorOk(steps, s, j), s <= Len(steps),
         NEW made, NEW provider, MadeOk(made, steps, provider, s, j), NEW d,
         d.attempt = Routes(steps[s])[j],
         \A kind \in Kinds : d.attempt.kind = kind => DecisionOk(d, kind, steps, provider)
  PROVE  LET new == [made EXCEPT ![d.attempt.kind] = Append(made[d.attempt.kind], d)] IN
         /\ MadeOk(new, steps, provider, NextStep(steps, s, j), NextRoute(steps, s, j))
         /\ IsDecided(d.attempt, new)
         /\ \A a : IsDecided(a, made) => IsDecided(a, new)
<1> DEFINE c == d.attempt.kind
           new == [made EXCEPT ![c] = Append(made[c], d)]
<1>1. StepsOk(steps) /\ Len(steps) \in Nat /\ s \in 1..Len(steps) /\ j \in 1..Len(Routes(steps[s]))
  BY DEF CursorOk, StepsOk, IsList
<1>2. c \in Kinds
  <2>1. StepOk(steps[s], s)
    BY <1>1 DEF StepsOk
  <2> QED BY <1>1, <2>1, RouteAt
<1>3. DecisionOk(d, c, steps, provider)
  BY <1>2
<1>4. DOMAIN new = Kinds /\ new[c] = Append(made[c], d) /\ \A kind \in Kinds \ {c} : new[kind] = made[kind]
  BY <1>2 DEF MadeOk
<1>5. IsList(made[c])
  BY <1>2 DEF MadeOk
<1> DEFINE n == Len(made[c])
<1>6. n \in Nat
  BY <1>5 DEF IsList
<1>7. /\ IsList(new[c]) /\ Len(new[c]) = n + 1 /\ new[c][n + 1] = d
      /\ \A k \in 1..n : new[c][k] = made[c][k]
  BY <1>4, <1>5, AppendList
<1>8. About(new[c]) = Append(About(made[c]), d.attempt)
  BY <1>4, <1>5, AboutAppend
<1> HIDE DEF new, c, n
<1>9. ASSUME NEW kind \in Kinds
      PROVE  /\ IsList(new[kind])
             /\ About(new[kind]) = Ahead(kind, steps, NextStep(steps, s, j), NextRoute(steps, s, j))
             /\ \A k \in 1..Len(new[kind]) : DecisionOk(new[kind][k], kind, steps, provider)
  <2>1. CASE kind = c
    <3>1. Ahead(c, steps, NextStep(steps, s, j), NextRoute(steps, s, j))
            = Append(Ahead(c, steps, s, j), d.attempt)
      BY <1>1, <1>2, AheadGrows DEF c
    <3>2. About(made[c]) = Ahead(c, steps, s, j)
          /\ \A k \in 1..n : DecisionOk(made[c][k], c, steps, provider)
      BY <1>2 DEF MadeOk, n
    <3>3. ASSUME NEW k \in 1..(n + 1) PROVE DecisionOk(new[c][k], c, steps, provider)
      <4>1. k = n + 1 \/ k \in 1..n
        BY <1>6
      <4> QED BY <1>3, <1>7, <3>2, <4>1
    <3> QED BY <1>7, <1>8, <2>1, <3>1, <3>2, <3>3
  <2>2. CASE kind # c
    <3>1. Ahead(kind, steps, NextStep(steps, s, j), NextRoute(steps, s, j)) = Ahead(kind, steps, s, j)
      BY <1>1, <2>2, AheadGrows DEF c
    <3> QED BY <1>4, <2>2, <3>1 DEF MadeOk
  <2> QED BY <2>1, <2>2
<1>10. MadeOk(new, steps, provider, NextStep(steps, s, j), NextRoute(steps, s, j))
  BY <1>4, <1>9 DEF MadeOk
<1>11. IsDecided(d.attempt, new)
  <2>1. n + 1 \in 1..Len(new[c])
    BY <1>6, <1>7
  <2> QED BY <1>2, <1>7, <2>1 DEF IsDecided
<1>12. ASSUME NEW a, IsDecided(a, made) PROVE IsDecided(a, new)
  <2>1. PICK kind \in Kinds : \E k \in 1..Len(made[kind]) : made[kind][k].attempt = a
    BY <1>12 DEF IsDecided
  <2>2. PICK k \in 1..Len(made[kind]) : made[kind][k].attempt = a
    BY <2>1
  <2>3. CASE kind = c
    <3>1. k \in 1..n /\ k \in 1..(n + 1)
      BY <1>6, <2>2, <2>3 DEF n
    <3> QED BY <1>2, <1>7, <2>2, <2>3, <3>1 DEF IsDecided
  <2>4. CASE kind # c
    BY <1>4, <2>2, <2>4 DEF IsDecided
  <2> QED BY <2>3, <2>4
<1> QED BY <1>10, <1>11, <1>12 DEF new, c

-----------------------------------------------------------------------------
(* The plan that is frozen.                                                 *)

Frozen(p) ==
  /\ p.provider \in {None, "embedded", "opa"}
  /\ p.provider # None =>
       /\ IsList(p.decisions)
       /\ \A a \in DOMAIN p.digest :
            \E k \in 1..Len(p.decisions) :
              LET d == p.decisions[k] IN
              /\ d.attempt = a /\ d.effect \in {"ALLOW", "REQUIRE_APPROVAL"}
              /\ d.effect = "REQUIRE_APPROVAL" => p.steps[a.step].approval
              /\ p.provider = "embedded" => d.effect = EvaluatePolicy(a)

(* Approvals leave the attempts as they are.                                *)
LEMMA ApprovedParts ==
  ASSUME NEW steps, StepsOk(steps), NEW decisions
  PROVE  /\ \A kind \in Kinds : Planned(kind, Approved(steps, decisions)) = Planned(kind, steps)
         /\ PlannedAttempts(Approved(steps, decisions)) = PlannedAttempts(steps)
         /\ \A i \in 1..Len(steps) :
              Approved(steps, decisions)[i].approval = NeedsApproval(steps[i], i, decisions)
<1> DEFINE new == Approved(steps, decisions)
<1>1. Len(steps) \in Nat /\ DOMAIN new = 1..Len(steps) /\ new = [k \in 1..Len(steps) |-> new[k]]
  BY DEF Approved, StepsOk, IsList
<1>2. Len(new) = Len(steps)
  BY <1>1, FunctionIsList
<1>3. ASSUME NEW i \in 1..Len(steps)
      PROVE  /\ new[i].approval = NeedsApproval(steps[i], i, decisions)
             /\ \A kind \in Kinds : Part(kind, new[i]) = Part(kind, steps[i])
  <2>1. DOMAIN steps[i] = {"primary", "fallbacks", "approval", "compensation"}
    BY DEF StepsOk, StepOk
  <2>2. new[i] = [steps[i] EXCEPT !.approval = NeedsApproval(steps[i], i, decisions)]
    BY DEF Approved
  <2>3. /\ new[i].approval = NeedsApproval(steps[i], i, decisions)
        /\ new[i].primary = steps[i].primary /\ new[i].fallbacks = steps[i].fallbacks
        /\ new[i].compensation = steps[i].compensation
    BY <2>1, <2>2
  <2> QED BY <2>3 DEF Part
<1> HIDE DEF new
<1>4. ASSUME NEW kind \in Kinds PROVE Planned(kind, new) = Planned(kind, steps)
  <2>1. [i \in 1..Len(new) |-> Part(kind, new[i])] = [i \in 1..Len(steps) |-> Part(kind, steps[i])]
    BY <1>2, <1>3
  <2> QED BY <2>1 DEF Planned
<1>5. PlannedAttempts(new) = PlannedAttempts(steps)
  BY <1>4 DEF PlannedAttempts, Kinds
<1> QED BY <1>3, <1>4, <1>5 DEF new

(* Past the last step, the decisions by kind are those of the plan.         *)
LEMMA GroupedIsPlanned ==
  ASSUME NEW steps, NEW made, NEW provider, NEW s, NEW j, StepsOk(steps), s \in Nat,
         s = Len(steps) + 1, MadeOk(made, steps, provider, s, j)
  PROVE  /\ IsList(Grouped(made)) /\ About(Grouped(made)) = PlannedAttempts(steps)
         /\ \A k \in 1..Len(Grouped(made)) :
              \E kind \in Kinds : DecisionOk(Grouped(made)[k], kind, steps, provider)
         /\ \A a : IsDecided(a, made) =>
              \E k \in 1..Len(Grouped(made)) : Grouped(made)[k].attempt = a
<1> DEFINE p == made["primary"]
           f == made["fallback"]
           c == made["compensation"]
           g == p \o f \o c
<1>1. "primary" \in Kinds /\ "fallback" \in Kinds /\ "compensation" \in Kinds
      /\ \A kind \in Kinds : kind \in {"primary", "fallback", "compensation"}
  BY DEF Kinds
<1>2. \A kind \in Kinds : /\ IsList(made[kind]) /\ About(made[kind]) = Planned(kind, steps)
                           /\ \A k \in 1..Len(made[kind]) : DecisionOk(made[kind][k], kind, steps, provider)
  BY AheadEnd DEF MadeOk
<1>3. /\ IsList(p) /\ IsList(f) /\ IsList(c)
      /\ About(p) = Planned("primary", steps) /\ About(f) = Planned("fallback", steps)
      /\ About(c) = Planned("compensation", steps)
  BY <1>1, <1>2
<1>4. /\ \A k \in 1..Len(p) : \E kind \in Kinds : DecisionOk(p[k], kind, steps, provider)
      /\ \A k \in 1..Len(f) : \E kind \in Kinds : DecisionOk(f[k], kind, steps, provider)
      /\ \A k \in 1..Len(c) : \E kind \in Kinds : DecisionOk(c[k], kind, steps, provider)
  BY <1>1, <1>2
<1>5. \A a : IsDecided(a, made) => \/ \E k \in 1..Len(p) : p[k].attempt = a
                                   \/ \E k \in 1..Len(f) : f[k].attempt = a
                                   \/ \E k \in 1..Len(c) : c[k].attempt = a
  BY <1>1 DEF IsDecided
<1>6. Grouped(made) = g
  BY DEF Grouped
<1> HIDE DEF p, f, c
<1>7. IsList(p \o f) /\ IsList(g)
  BY <1>3, ConcatList
<1>8. About(g) = PlannedAttempts(steps)
  <2>1. About(p \o f) = About(p) \o About(f) /\ About(g) = About(p \o f) \o About(c)
    BY <1>3, <1>7, AboutConcat
  <2> QED BY <1>3, <2>1 DEF PlannedAttempts
<1>9. ASSUME NEW k \in 1..Len(g) PROVE \E kind \in Kinds : DecisionOk(g[k], kind, steps, provider)
  <2>1. \/ k \in 1..Len(p \o f) /\ g[k] = (p \o f)[k]
        \/ k - Len(p \o f) \in 1..Len(c) /\ g[k] = c[k - Len(p \o f)]
    BY <1>3, <1>7, ConcatSplit
  <2>2. CASE k \in 1..Len(p \o f) /\ g[k] = (p \o f)[k]
    <3>1. \/ k \in 1..Len(p) /\ (p \o f)[k] = p[k]
          \/ k - Len(p) \in 1..Len(f) /\ (p \o f)[k] = f[k - Len(p)]
      BY <1>3, <2>2, ConcatSplit
    <3> QED BY <1>4, <2>2, <3>1, Zenon
  <2> QED BY <1>4, <2>1, <2>2, Zenon
<1>10. ASSUME NEW a, IsDecided(a, made) PROVE \E k \in 1..Len(g) : g[k].attempt = a
  <2> DEFINE q == p \o f
  <2>1. /\ Len(p) \in Nat /\ Len(f) \in Nat /\ Len(c) \in Nat /\ Len(q) = Len(p) + Len(f)
        /\ Len(g) = Len(q) + Len(c)
    BY <1>3, <1>7, ConcatList DEF IsList
  <2>2. /\ \A k \in 1..Len(p) : q[k] = p[k]
        /\ \A k \in 1..Len(f) : q[Len(p) + k] = f[k]
    BY <1>3, ConcatList
  <2>3. /\ \A k \in 1..Len(q) : g[k] = q[k]
        /\ \A k \in 1..Len(c) : g[Len(q) + k] = c[k]
    BY <1>3, <1>7, ConcatList
  <2> HIDE DEF q, g
  <2>4. ASSUME NEW k \in 1..Len(p), p[k].attempt = a PROVE \E m \in 1..Len(g) : g[m].attempt = a
    <3>1. k \in 1..Len(q) /\ k \in 1..Len(g)
      BY <2>1
    <3> QED BY <2>2, <2>3, <2>4, <3>1
  <2>5. ASSUME NEW k \in 1..Len(f), f[k].attempt = a PROVE \E m \in 1..Len(g) : g[m].attempt = a
    <3>1. Len(p) + k \in 1..Len(q) /\ Len(p) + k \in 1..Len(g)
      BY <2>1
    <3>2. g[Len(p) + k] = f[k]
      BY <2>2, <2>3, <3>1
    <3> QED BY <2>5, <3>1, <3>2
  <2>6. ASSUME NEW k \in 1..Len(c), c[k].attempt = a PROVE \E m \in 1..Len(g) : g[m].attempt = a
    <3>1. Len(q) + k \in 1..Len(g)
      BY <2>1
    <3> QED BY <2>3, <2>6, <3>1
  <2> QED BY <1>5, <1>10, <2>4, <2>5, <2>6
<1> QED BY <1>6, <1>7, <1>8, <1>9, <1>10

(* So the validator accepts them, and what runs on the plan is covered.     *)
LEMMA FreezeIsValid ==
  ASSUME NEW p, Collecting(p), p.step > Len(p.steps)
  PROVE  LET decisions == Grouped(p.made)
             steps == Approved(p.steps, decisions)
         IN ValidFrozen(steps, decisions)
<1> DEFINE ds == Grouped(p.made)
           steps == Approved(p.steps, ds)
<1>1. /\ StepsOk(p.steps) /\ Len(p.steps) \in Nat /\ p.step \in Nat /\ p.step = Len(p.steps) + 1
      /\ MadeOk(p.made, p.steps, p.provider, p.step, p.route)
  BY DEF Collecting, CursorOk, StepsOk, IsList
<1>2. /\ IsList(ds) /\ About(ds) = PlannedAttempts(p.steps)
      /\ \A k \in 1..Len(ds) : \E kind \in Kinds : DecisionOk(ds[k], kind, p.steps, p.provider)
  BY <1>1, GroupedIsPlanned
<1>3. /\ PlannedAttempts(steps) = PlannedAttempts(p.steps)
      /\ \A i \in 1..Len(p.steps) : steps[i].approval = NeedsApproval(p.steps[i], i, ds)
  BY <1>1, ApprovedParts
<1> HIDE DEF ds, steps
<1>4. Len(About(ds)) = Len(ds) /\ \A k \in 1..Len(ds) : About(ds)[k] = ds[k].attempt
  BY <1>2, AboutList DEF About
<1>5. ASSUME NEW k \in 1..Len(ds)
      PROVE  /\ ds[k].effect # "DENY"
             /\ ds[k].effect = "REQUIRE_APPROVAL" =>
                  ds[k].attempt.kind # "compensation" /\ steps[ds[k].attempt.step].approval
  <2>1. PICK kind \in Kinds : DecisionOk(ds[k], kind, p.steps, p.provider)
    BY <1>2
  <2>2. ds[k].effect # "DENY"
    BY <2>1 DEF DecisionOk
  <2>3. ASSUME ds[k].effect = "REQUIRE_APPROVAL"
        PROVE  ds[k].attempt.kind # "compensation" /\ steps[ds[k].attempt.step].approval
    <3>1. ds[k].attempt.kind # "compensation" /\ ds[k].attempt.step \in 1..Len(p.steps)
      BY <2>1, <2>3 DEF DecisionOk
    <3>2. ds[k] \in Range(ds)
      BY <1>2 DEF Range, IsList
    <3>3. NeedsApproval(p.steps[ds[k].attempt.step], ds[k].attempt.step, ds)
      BY <2>3, <3>2 DEF NeedsApproval
    <3> QED BY <1>3, <3>1, <3>3
  <2> QED BY <2>2, <2>3
<1>6. ValidFrozen(steps, ds)
  BY <1>2, <1>3, <1>4, <1>5 DEF ValidFrozen
<1> QED BY <1>6 DEF ds, steps

(* The parts of a step, spelled out.                                        *)
LEMMA StepOf ==
  ASSUME NEW step, NEW i,
         DOMAIN step = {"primary", "fallbacks", "approval", "compensation"},
         step.primary.kind = "primary", step.primary.step = i,
         IsList(step.fallbacks), IsList(step.compensation),
         \A k \in 1..Len(step.fallbacks) :
           step.fallbacks[k].kind = "fallback" /\ step.fallbacks[k].step = i,
         \A k \in 1..Len(step.compensation) :
           step.compensation[k].kind = "compensation" /\ step.compensation[k].step = i
  PROVE  StepOk(step, i)
<1>1. IsList(<<step.primary>>) /\ Len(<<step.primary>>) = 1 /\ <<step.primary>>[1] = step.primary
  <2>1. <<step.primary>> \in Seq({step.primary})
    OBVIOUS
  <2> QED BY <2>1, SeqIsList
<1>2. \A k \in 1..1 : k = 1
  OBVIOUS
<1>3. /\ Part("primary", step) = <<step.primary>> /\ Part("fallback", step) = step.fallbacks
      /\ Part("compensation", step) = step.compensation
  BY DEF Part
<1>4. ASSUME NEW kind \in Kinds
      PROVE  /\ IsList(Part(kind, step))
             /\ \A k \in 1..Len(Part(kind, step)) :
                  Part(kind, step)[k].kind = kind /\ Part(kind, step)[k].step = i
  <2>1. CASE kind = "primary"
    BY <1>1, <1>2, <1>3, <2>1
  <2>2. CASE kind = "fallback"
    BY <1>3, <2>2
  <2>3. CASE kind = "compensation"
    BY <1>3, <2>3
  <2> QED BY <2>1, <2>2, <2>3 DEF Kinds
<1> QED BY <1>4 DEF StepOk

(* A step without fallbacks and compensation is well formed.                *)
LEMMA PlainStep ==
  ASSUME NEW step, NEW i,
         DOMAIN step = {"primary", "fallbacks", "approval", "compensation"},
         step.primary.kind = "primary", step.primary.step = i,
         step.fallbacks = <<>>, step.compensation = <<>>
  PROVE  StepOk(step, i)
<1>1. IsList(<<>>) /\ \A k \in 1..Len(<<>>) : FALSE
  BY EmptyList
<1> QED BY <1>1, StepOf

(* A plan whose cursor is past its last step has decided on every attempt.  *)
LEMMA FreezeCovers ==
  ASSUME NEW p, Collecting(p), p.phase = "binding", p.step > Len(p.steps), NEW q,
         q.provider = p.provider, q.digest = p.digest, q.decisions = Grouped(p.made),
         q.steps = Approved(p.steps, Grouped(p.made))
  PROVE  Frozen(q)
<1> DEFINE ds == Grouped(p.made)
<1>1. /\ StepsOk(p.steps) /\ Len(p.steps) \in Nat /\ p.step \in Nat /\ p.step = Len(p.steps) + 1
      /\ MadeOk(p.made, p.steps, p.provider, p.step, p.route)
  BY DEF Collecting, CursorOk, StepsOk, IsList
<1>2. /\ IsList(ds)
      /\ \A k \in 1..Len(ds) : \E kind \in Kinds : DecisionOk(ds[k], kind, p.steps, p.provider)
      /\ \A a : IsDecided(a, p.made) => \E k \in 1..Len(ds) : ds[k].attempt = a
  BY <1>1, GroupedIsPlanned
<1>3. \A i \in 1..Len(p.steps) : q.steps[i].approval = NeedsApproval(p.steps[i], i, ds)
  BY <1>1, ApprovedParts
<1>4. \A a \in DOMAIN p.digest : IsDecided(a, p.made)
  BY DEF Collecting
<1> HIDE DEF ds
<1>5. ASSUME NEW a \in DOMAIN q.digest
      PROVE  \E k \in 1..Len(ds) :
               /\ ds[k].attempt = a /\ ds[k].effect \in {"ALLOW", "REQUIRE_APPROVAL"}
               /\ ds[k].effect = "REQUIRE_APPROVAL" => q.steps[a.step].approval
               /\ q.provider = "embedded" => ds[k].effect = EvaluatePolicy(a)
  <2>1. PICK k \in 1..Len(ds) : ds[k].attempt = a
    BY <1>2, <1>4
  <2>2. PICK kind \in Kinds : DecisionOk(ds[k], kind, p.steps, p.provider)
    BY <1>2
  <2>3. /\ ds[k].effect \in {"ALLOW", "REQUIRE_APPROVAL"} /\ a.step \in 1..Len(p.steps)
        /\ q.provider = "embedded" => ds[k].effect = EvaluatePolicy(a)
    BY <2>1, <2>2 DEF DecisionOk
  <2>4. ASSUME ds[k].effect = "REQUIRE_APPROVAL" PROVE q.steps[a.step].approval
    <3>1. ds[k] \in Range(ds)
      BY <1>2 DEF Range, IsList
    <3>2. NeedsApproval(p.steps[a.step], a.step, ds)
      BY <2>1, <2>4, <3>1 DEF NeedsApproval
    <3> QED BY <1>3, <2>3, <3>2
  <2> QED BY <2>1, <2>3, <2>4
<1>6. q.provider \in {"embedded", "opa"} /\ q.decisions = ds
  BY DEF Collecting, ds
<1> QED BY <1>2, <1>5, <1>6 DEF Frozen

-----------------------------------------------------------------------------
(* The planners number their steps and name the kinds.                      *)

(* The steps compiled without routing are well formed.                      *)
LEMMA StaticSteps ==
  ASSUME NEW command \in Commands
  PROVE  StepsOk([i \in 1..Len(command.capabilities) |->
                    StaticStep(i, command.capabilities[i], command.risk)])
<1> DEFINE n == Len(command.capabilities)
           steps == [i \in 1..n |-> StaticStep(i, command.capabilities[i], command.risk)]
<1>1. n \in Nat
  BY CommandsAssumption
<1> HIDE DEF n
<1>2. IsList(steps) /\ Len(steps) = n
  <2>1. DOMAIN steps = 1..n /\ steps = [k \in 1..n |-> steps[k]]
    OBVIOUS
  <2> HIDE DEF steps
  <2> QED BY <1>1, <2>1, FunctionIsList
<1>3. ASSUME NEW i \in 1..n PROVE StepOk(steps[i], i)
  <2> DEFINE step == steps[i]
  <2>1. step = StaticStep(i, command.capabilities[i], command.risk)
    OBVIOUS
  <2> HIDE DEF step, steps
  <2>2. /\ DOMAIN step = {"primary", "fallbacks", "approval", "compensation"}
        /\ step.fallbacks = <<>> /\ step.compensation = <<>>
        /\ step.primary.kind = "primary" /\ step.primary.step = i
    BY <2>1 DEF StaticStep, Attempt
  <2> QED BY <2>2, PlainStep DEF step
<1>4. StepsOk(steps)
  BY <1>2, <1>3 DEF StepsOk
<1> QED BY <1>4 DEF n

(* Cutting a list at a limit keeps its first elements.                      *)
LEMMA UpToOf ==
  ASSUME NEW limit \in Nat, NEW s, IsList(s)
  PROVE  LET u == UpTo(limit, s) IN
         /\ IsList(u) /\ Len(u) = IF Len(s) < limit THEN Len(s) ELSE limit
         /\ \A k \in 1..Len(u) : u[k] = s[k]
<1> DEFINE T == {s[k] : k \in 1..Len(s)}
           n == IF Len(s) < limit THEN Len(s) ELSE limit
           u == SubSeq(s, 1, n)
<1>1. s \in Seq(T)
  BY ListInSeq
<1>2. n \in Nat /\ n <= Len(s) /\ Len(s) \in Nat
  BY DEF IsList
<1> HIDE DEF T, n
<1>3. u \in Seq(T) /\ Len(u) = n /\ \A k \in 1..n : u[k] = s[k]
  BY <1>1, <1>2
<1>4. UpTo(limit, s) = u
  BY DEF UpTo, n
<1> HIDE DEF u
<1> QED BY <1>3, <1>4, SeqIsList DEF n

(* A ranking is a list as long as its set, whatever the order.              *)
LEMMA RankingIsList ==
  ASSUME NEW S, IsFiniteSet(S), NEW before
  PROVE  IsList(Ranking(S, before)) /\ Len(Ranking(S, before)) = Cardinality(S)
<1> DEFINE n == Cardinality(S)
           Place(k) == CHOOSE x \in S : Cardinality({y \in S : <<y, x>> \in before}) = k - 1
           r == Ranking(S, before)
<1>1. n \in Nat
  BY FS_CardinalityType
<1>2. r = [k \in 1..n |-> Place(k)]
  BY Zenon DEF Ranking
<1> HIDE DEF Place, r, n
<1>3. DOMAIN r = 1..n /\ r = [k \in 1..n |-> r[k]]
  BY <1>2
<1>4. IsList(r) /\ Len(r) = n
  BY <1>1, <1>3, FunctionIsList
<1> QED BY <1>4 DEF r, n

(* The engine's fallbacks are a list, for any profiles, policy and health.  *)
LEMMA FallbacksAreListed ==
  ASSUME NEW request, NEW policy \in Policies, NEW health, DOMAIN health \subseteq Candidates
  PROVE  Len(SelectRoute(request, policy, health).fallbacks) \in Nat
<1> DEFINE reasons == [c \in DOMAIN health |-> RejectionReasons(c, request, policy, health[c])]
           score == [c \in DOMAIN health |-> WeightedScore(c, policy, health[c])]
           eligible == {c \in DOMAIN health : reasons[c] = {}}
           ranked == Ranking(eligible, Preferred(eligible, score))
           others == {c \in eligible : request.risk = 0 /\ c # ranked[1] /\ ~Profile[c].approval}
           fallbacks == Ranking(others, Preferred(others, score))
<1>1. SelectRoute(request, policy, health).fallbacks = UpTo(policy.fallbacks, fallbacks)
  BY DEF SelectRoute
<1>2. IsFiniteSet(others)
  <2>1. others \subseteq Candidates
    OBVIOUS
  <2> HIDE DEF others
  <2> QED BY <2>1, CandidatesAssumption, FS_Subset
<1> HIDE DEF others
<1>3. IsList(fallbacks)
  BY <1>2, RankingIsList
<1>4. policy.fallbacks \in Nat
  BY PoliciesAssumption DEF ValidPolicy
<1> HIDE DEF fallbacks
<1>5. IsList(UpTo(policy.fallbacks, fallbacks))
  BY <1>3, <1>4, UpToOf
<1> QED BY <1>1, <1>5 DEF IsList

(* A step made from a routing decision is well formed.                      *)
LEMMA RoutedStepOk ==
  ASSUME NEW i, NEW command, NEW capability, NEW decision, Len(decision.fallbacks) \in Nat
  PROVE  StepOk(RoutedStep(i, command, capability, decision), i)
<1> DEFINE n == Len(decision.fallbacks)
           step == RoutedStep(i, command, capability, decision)
<1>1. n \in Nat
  OBVIOUS
<1>2. /\ DOMAIN step = {"primary", "fallbacks", "approval", "compensation"}
      /\ step.primary = RouteAttempt(i, "primary", Head(decision.ranked), capability, command.risk)
      /\ step.compensation = <<>>
      /\ step.fallbacks = [k \in 1..n |->
           RouteAttempt(i, "fallback", decision.fallbacks[k], capability, command.risk)]
  BY DEF RoutedStep
<1> HIDE DEF n, step
<1>3. step.primary.kind = "primary" /\ step.primary.step = i
  BY <1>2 DEF RouteAttempt, Attempt
<1>4. \A k \in 1..n : step.fallbacks[k].kind = "fallback" /\ step.fallbacks[k].step = i
  BY <1>2 DEF RouteAttempt, Attempt
<1>5. DOMAIN step.fallbacks = 1..n /\ step.fallbacks = [k \in 1..n |-> step.fallbacks[k]]
  BY <1>2
<1>6. IsList(step.fallbacks) /\ Len(step.fallbacks) = n
  BY <1>1, <1>5, FunctionIsList
<1>7. IsList(step.compensation) /\ \A k \in 1..Len(step.compensation) : FALSE
  BY <1>2, EmptyList
<1>8. StepOk(step, i)
  BY <1>2, <1>3, <1>4, <1>6, <1>7, StepOf
<1> QED BY <1>8 DEF step

(* A well-formed step may follow well-formed steps.                         *)
LEMMA OneMoreStep ==
  ASSUME NEW steps, StepsOk(steps), NEW step, StepOk(step, Len(steps) + 1)
  PROVE  StepsOk(Append(steps, step))
<1> DEFINE n == Len(steps)
           new == Append(steps, step)
<1>1. n \in Nat /\ IsList(steps)
  BY DEF StepsOk, IsList
<1>2. IsList(new) /\ Len(new) = n + 1 /\ new[n + 1] = step /\ \A k \in 1..n : new[k] = steps[k]
  BY <1>1, AppendList
<1>3. \A k \in 1..n : StepOk(steps[k], k)
  BY DEF StepsOk
<1>4. StepOk(step, n + 1)
  OBVIOUS
<1> HIDE DEF n, new
<1>5. ASSUME NEW k \in 1..(n + 1) PROVE StepOk(new[k], k)
  <2>1. k = n + 1 \/ k \in 1..n
    BY <1>1
  <2> QED BY <1>2, <1>3, <1>4, <2>1
<1> QED BY <1>2, <1>5 DEF StepsOk, new

(* The empty plan is well formed.                                           *)
LEMMA NoSteps == StepsOk(<<>>)
<1>1. IsList(<<>>) /\ \A k \in 1..Len(<<>>) : FALSE
  BY EmptyList
<1> QED BY <1>1 DEF StepsOk

(* The two steps of a booking, with the cancellation of the second, are well formed. *)
LEMMA BookingSteps ==
  ASSUME NEW draft, NEW submit, NEW cancel, NEW x, NEW y,
         draft.kind = "primary", draft.step = 1, submit.kind = "primary", submit.step = 2,
         cancel.kind = "compensation", cancel.step = 2
  PROVE  StepsOk(<<[primary |-> draft, fallbacks |-> <<>>, approval |-> x, compensation |-> <<>>],
                   [primary |-> submit, fallbacks |-> <<>>, approval |-> y,
                    compensation |-> <<cancel>>]>>)
<1> DEFINE one == [primary |-> draft, fallbacks |-> <<>>, approval |-> x, compensation |-> <<>>]
           two == [primary |-> submit, fallbacks |-> <<>>, approval |-> y, compensation |-> <<cancel>>]
<1>1. IsList(<<>>) /\ \A k \in 1..Len(<<>>) : FALSE
  BY EmptyList
<1>2. IsList(<<cancel>>) /\ Len(<<cancel>>) = 1 /\ <<cancel>>[1] = cancel
  <2>1. <<cancel>> \in Seq({cancel})
    OBVIOUS
  <2> QED BY <2>1, SeqIsList
<1>3. StepOk(one, 1)
  <2>1. /\ DOMAIN one = {"primary", "fallbacks", "approval", "compensation"}
        /\ one.primary.kind = "primary" /\ one.primary.step = 1
        /\ one.fallbacks = <<>> /\ one.compensation = <<>>
    OBVIOUS
  <2> HIDE DEF one
  <2> QED BY <2>1, PlainStep
<1>4. StepOk(two, 2)
  <2>1. /\ DOMAIN two = {"primary", "fallbacks", "approval", "compensation"}
        /\ two.primary.kind = "primary" /\ two.primary.step = 2
        /\ two.fallbacks = <<>> /\ two.compensation = <<cancel>>
    OBVIOUS
  <2> HIDE DEF two
  <2>2. \A k \in 1..Len(two.compensation) : two.compensation[k] = cancel
    <3>1. \A k \in 1..1 : k = 1
      OBVIOUS
    <3> QED BY <1>2, <2>1, <3>1
  <2>3. IsList(two.fallbacks) /\ IsList(two.compensation) /\ \A k \in 1..Len(two.fallbacks) : FALSE
    BY <1>1, <1>2, <2>1
  <2> QED BY <2>1, <2>2, <2>3, StepOf
<1> HIDE DEF one, two
<1>5. IsList(<<one, two>>) /\ Len(<<one, two>>) = 2 /\ <<one, two>>[1] = one /\ <<one, two>>[2] = two
  <2>1. <<one, two>> \in Seq({one, two})
    OBVIOUS
  <2> QED BY <2>1, SeqIsList
<1>6. \A i \in 1..2 : i = 1 \/ i = 2
  OBVIOUS
<1>7. StepsOk(<<one, two>>)
  BY <1>3, <1>4, <1>5, <1>6 DEF StepsOk
<1> QED BY <1>7 DEF one, two

-----------------------------------------------------------------------------
(* The embedded rules: a rule that matches and comes first exists, and only *)
(* it decides.                                                              *)

Comes(r, q) == r.priority < q.priority \/ (r.priority = q.priority /\ r.id <= q.id)

(* Some rule of a nonempty set comes first, by its priority and then its id. *)
LEMMA FirstRule ==
  ASSUME NEW S, S \subseteq Rules, S # {}
  PROVE  \E r \in S : \A q \in S : Comes(r, q)
<1> DEFINE K == MaxPriority
<1>0. K \in Nat /\ \A r \in S : r.id \in Nat /\ r.priority \in -K..K
  <2>1. MaxPriority \in Nat
    BY SMT DEF MaxPriority
  <2> QED BY <2>1, RulesAssumption DEF ValidRules
<1> HIDE DEF K
<1>1. \A r \in S : r.id \in Nat /\ r.priority \in Int /\ r.priority + K \in Nat
  BY <1>0
<1> DEFINE P == {r.priority + K : r \in S}
<1>2. PICK p \in P : \A x \in P : p <= x
  <2>1. P \subseteq Nat /\ P # {}
    BY <1>1
  <2> HIDE DEF P
  <2> QED BY <2>1, LeastOf
<1>3. PICK s \in S : p = s.priority + K
  BY <1>2
<1>4. \A q \in S : s.priority <= q.priority
  <2> SUFFICES ASSUME NEW q \in S PROVE s.priority <= q.priority
    OBVIOUS
  <2>1. s.priority + K <= q.priority + K
    BY <1>2, <1>3
  <2> QED BY <1>0, <1>1, <2>1
<1> DEFINE I == {r.id : r \in {t \in S : t.priority = s.priority}}
<1>5. PICK i \in I : \A x \in I : i <= x
  <2>1. I \subseteq Nat /\ I # {}
    BY <1>1, <1>3
  <2> HIDE DEF I
  <2> QED BY <2>1, LeastOf
<1>6. PICK r \in S : r.priority = s.priority /\ i = r.id
  BY <1>5
<1>7. \A q \in S : q.priority = s.priority => r.id <= q.id
  BY <1>5, <1>6
<1>8. ASSUME NEW q \in S PROVE Comes(r, q)
  <2>1. s.priority <= q.priority
    BY <1>4
  <2>2. CASE q.priority = s.priority
    BY <1>6, <1>7, <2>2 DEF Comes
  <2>3. CASE q.priority # s.priority
    BY <1>1, <1>6, <2>1, <2>3 DEF Comes
  <2> QED BY <2>2, <2>3
<1> QED BY <1>8

(* An effect other than the default DENY is that of the first matching rule. *)
LEMMA EffectIsOfFirst ==
  ASSUME NEW a, EvaluatePolicy(a) # "DENY"
  PROVE  \E r \in Rules : /\ Matches(r, a) /\ r.effect = EvaluatePolicy(a)
                          /\ \A q \in Rules : Matches(q, a) => q.priority >= r.priority
<1> DEFINE S == {r \in Rules : Matches(r, a)}
           r == CHOOSE x \in S : \A q \in S : Comes(x, q)
<1>1. S # {} /\ EvaluatePolicy(a) = r.effect
  BY DEF EvaluatePolicy, Comes
<1>2. r \in S /\ \A q \in S : Comes(r, q)
  <2>1. \E x \in S : \A q \in S : Comes(x, q)
    BY <1>1, FirstRule
  <2> HIDE DEF S
  <2> QED BY <2>1
<1>3. r \in Rules /\ Matches(r, a)
  BY <1>2
<1> HIDE DEF r
<1>4. ASSUME NEW q \in Rules, Matches(q, a) PROVE q.priority >= r.priority
  <2>1. Comes(r, q)
    BY <1>2, <1>4
  <2>2. q.priority \in Int /\ r.priority \in Int
    <3>1. MaxPriority \in Nat
      BY SMT DEF MaxPriority
    <3> QED BY <1>3, <3>1, RulesAssumption DEF ValidRules
  <2> QED BY <2>1, <2>2 DEF Comes
<1> QED BY <1>1, <1>3, <1>4

-----------------------------------------------------------------------------
(* The plan in each phase.                                                  *)

HealthFields == {"phase", "command", "policy", "steps", "routed", "at", "rows", "table"}

PlanOk(p) ==
  /\ p.phase \in {"clock", "health"} => p.command \in Commands /\ p.policy \in Policies
  /\ p.phase = "health" => DOMAIN p = HealthFields
  /\ p.phase \in {"clock", "health", "built"} => StepsOk(p.steps)
  /\ p.phase \in {"binding", "asking"} => Collecting(p)
  /\ p.phase = "frozen" => Frozen(p)
  /\ p.phase = "failed" => p.code # "policy_plan_invalid"

PlanInv ==
  /\ PlanOk(plan)
  /\ invoked # None => /\ plan.phase = "frozen" /\ invoked.attempt \in DOMAIN plan.digest
                       /\ invoked.secrets = plan.digest[invoked.attempt]

(* A plan that failed for another reason satisfies the invariant.           *)
LEMMA FailedPlanOk ==
  ASSUME NEW code, code # "policy_plan_invalid"
  PROVE  PlanOk([phase |-> "failed", code |-> code])
BY DEF PlanOk

(* Compiling, reading health and choosing routes keep the invariant.        *)
LEMMA BuildKeepsPlan ==
  ASSUME PlanOk(plan), BuildNext
  PROVE  PlanOk(plan')
<1>1. ASSUME NEW command \in Commands, StaticBuild(command) PROVE PlanOk(plan')
  <2> DEFINE steps == [i \in 1..Len(command.capabilities) |->
                         StaticStep(i, command.capabilities[i], command.risk)]
  <2>1. StepsOk(steps)
    BY StaticSteps
  <2>2. \/ plan' = [phase |-> "failed", code |-> "capability_not_available"]
        \/ plan' = [phase |-> "built", command |-> command, steps |-> steps, routed |-> <<>>]
    BY <1>1 DEF StaticBuild, Fail, Built
  <2> HIDE DEF steps
  <2>3. CASE plan' = [phase |-> "built", command |-> command, steps |-> steps, routed |-> <<>>]
    BY <2>1, <2>3 DEF PlanOk
  <2> QED BY <2>2, <2>3, FailedPlanOk
<1>2. ASSUME NEW command \in Commands, BookingBuild(command) PROVE PlanOk(plan')
  <2> DEFINE api == "synthetic.booking.api"
             draft == Attempt(1, "primary", "synthetic.booking.draft", "synthetic.booking.draft",
                              "booking.draft.prepare", 0)
             submit == Attempt(2, "primary", api, api, "booking.submit", 2)
             cancel == Attempt(2, "compensation", api, api, "booking.cancel", 1)
             steps == <<[primary |-> draft, fallbacks |-> <<>>, approval |-> FALSE, compensation |-> <<>>],
                        [primary |-> submit, fallbacks |-> <<>>, approval |-> TRUE,
                         compensation |-> <<cancel>>]>>
  <2>1. \/ plan' = [phase |-> "failed", code |-> "planning_failed"]
        \/ plan' = [phase |-> "built", command |-> command, steps |-> steps, routed |-> <<>>]
    BY <1>2 DEF BookingBuild, Fail, Built
  <2>2. /\ draft.kind = "primary" /\ draft.step = 1 /\ submit.kind = "primary" /\ submit.step = 2
        /\ cancel.kind = "compensation" /\ cancel.step = 2
    BY DEF Attempt
  <2> HIDE DEF draft, submit, cancel
  <2>3. StepsOk(steps)
    BY <2>2, BookingSteps
  <2> HIDE DEF steps
  <2>4. CASE plan' = [phase |-> "built", command |-> command, steps |-> steps, routed |-> <<>>]
    BY <2>3, <2>4 DEF PlanOk
  <2> QED BY <2>1, <2>4, FailedPlanOk
<1>3. ASSUME NEW command \in Commands, NEW policy \in Policies, RoutedBuild(command, policy)
      PROVE  PlanOk(plan')
  BY <1>3, NoSteps DEF RoutedBuild, PlanOk
<1>4. CASE ReadClock
  <2>1. plan.phase = "clock" /\ plan.command \in Commands /\ plan.policy \in Policies
        /\ StepsOk(plan.steps)
    BY <1>4 DEF ReadClock, PlanOk
  <2>2. /\ plan'.phase = "health" /\ plan'.command = plan.command /\ plan'.policy = plan.policy
        /\ plan'.steps = plan.steps /\ DOMAIN plan' = HealthFields
    BY <1>4 DEF ReadClock, HealthFields
  <2> QED BY <2>1, <2>2 DEF PlanOk
<1>5. ASSUME NEW c \in Candidates, ReadHealth(c) PROVE PlanOk(plan')
  <2>1. /\ plan.phase = "health" /\ plan.command \in Commands /\ plan.policy \in Policies
        /\ StepsOk(plan.steps) /\ DOMAIN plan = HealthFields
    BY <1>5 DEF ReadHealth, PlanOk
  <2>2. \/ plan' = [phase |-> "failed", code |-> "invalid_route_model"]
        \/ \E x, y : plan' = [plan EXCEPT !.rows = x, !.table = y]
    BY <1>5 DEF ReadHealth, Fail
  <2>3. ASSUME NEW x, NEW y, plan' = [plan EXCEPT !.rows = x, !.table = y] PROVE PlanOk(plan')
    <3>1. /\ plan'.phase = "health" /\ plan'.command = plan.command /\ plan'.policy = plan.policy
          /\ plan'.steps = plan.steps /\ DOMAIN plan' = HealthFields
      BY <2>1, <2>3 DEF HealthFields
    <3> QED BY <2>1, <3>1 DEF PlanOk
  <2> QED BY <2>2, <2>3, FailedPlanOk
<1>6. CASE Select
  <2> DEFINE command == plan.command
             health == [c \in DOMAIN plan.rows |-> HealthSnapshot(plan.rows[c], plan.policy, plan.at)]
             decision == SelectRoute(command, plan.policy, health)
             step == RoutedStep(Len(plan.steps) + 1, command, Capability, decision)
  <2>1. /\ plan.phase = "health" /\ plan.command \in Commands /\ plan.policy \in Policies
        /\ StepsOk(plan.steps) /\ DOMAIN plan.rows = Offering
    BY <1>6 DEF Select, PlanOk
  <2>2. \/ plan' = [phase |-> "failed", code |-> "invalid_route_model"]
        \/ plan' = [phase |-> "failed", code |-> "no_eligible_route"]
        \/ \E x \in {"built", "clock"} : \E y :
             plan' = [phase |-> x, command |-> command, policy |-> plan.policy,
                      steps |-> Append(plan.steps, step), routed |-> y]
    BY <1>6 DEF Select, Fail
  <2>3. StepsOk(Append(plan.steps, step))
    <3>1. DOMAIN health \subseteq Candidates
      BY <2>1 DEF Offering
    <3> HIDE DEF health
    <3>2. Len(decision.fallbacks) \in Nat
      BY <2>1, <3>1, FallbacksAreListed
    <3> HIDE DEF decision
    <3>3. StepOk(step, Len(plan.steps) + 1)
      BY <3>2, RoutedStepOk
    <3> HIDE DEF step
    <3> QED BY <2>1, <3>3, OneMoreStep
  <2> DEFINE steps == Append(plan.steps, step)
  <2>4. StepsOk(steps) /\ command \in Commands
    BY <2>1, <2>3
  <2> HIDE DEF steps, step, command
  <2>5. ASSUME NEW x \in {"built", "clock"}, NEW y,
               plan' = [phase |-> x, command |-> command, policy |-> plan.policy,
                        steps |-> steps, routed |-> y]
        PROVE  PlanOk(plan')
    BY <2>1, <2>4, <2>5 DEF PlanOk
  <2> QED BY <2>2, <2>5, FailedPlanOk DEF steps
<1> QED BY <1>1, <1>2, <1>3, <1>4, <1>5, <1>6 DEF BuildNext

(* The answer for the current attempt leads to the next one.                *)
LEMMA DecidedCollects ==
  ASSUME Collecting(plan), plan.phase = "asking",
         NEW effect \in {"ALLOW", "REQUIRE_APPROVAL"},
         plan.provider = "embedded" => effect = EvaluatePolicy(Current),
         Current.kind = "compensation" => effect = "ALLOW"
  PROVE  Collecting(Decided(effect)) /\ Decided(effect).phase = "binding"
<1> DEFINE steps == plan.steps
           s == plan.step
           j == plan.route
           d == [attempt |-> Current, effect |-> effect]
           new == [plan.made EXCEPT ![Current.kind] = Append(plan.made[Current.kind], d)]
           p == Decided(effect)
<1>1. /\ CursorOk(steps, s, j) /\ s <= Len(steps) /\ MadeOk(plan.made, steps, plan.provider, s, j)
      /\ DOMAIN plan = PolicyFields /\ plan.provider \in {"embedded", "opa"}
      /\ Current = Routes(steps[s])[j]
      /\ \A a \in DOMAIN plan.digest : IsDecided(a, plan.made) \/ a = Current
  BY DEF Collecting, Current
<1>2. /\ DOMAIN p = PolicyFields /\ p.phase = "binding" /\ p.provider = plan.provider /\ p.steps = steps
      /\ p.digest = plan.digest /\ p.made = new
      /\ p.step = NextStep(steps, s, j) /\ p.route = NextRoute(steps, s, j)
  BY <1>1 DEF Decided, PolicyFields, NextStep, NextRoute
<1>3. Current.step \in 1..Len(steps)
  <2>1. s \in 1..Len(steps) /\ j \in 1..Len(Routes(steps[s])) /\ StepOk(steps[s], s)
    BY <1>1 DEF CursorOk, StepsOk, IsList
  <2>2. Current.step = s
    BY <1>1, <2>1, RouteAt
  <2> QED BY <2>1, <2>2
<1>4. d.attempt = Current /\ d.effect = effect
  OBVIOUS
<1>5. \A kind \in Kinds : d.attempt.kind = kind => DecisionOk(d, kind, steps, plan.provider)
  BY <1>3, <1>4 DEF DecisionOk
<1> HIDE DEF d, p, steps, s, j
<1>6. LET new1 == [plan.made EXCEPT ![d.attempt.kind] = Append(plan.made[d.attempt.kind], d)] IN
      /\ MadeOk(new1, steps, plan.provider, NextStep(steps, s, j), NextRoute(steps, s, j))
      /\ IsDecided(d.attempt, new1)
      /\ \A a : IsDecided(a, plan.made) => IsDecided(a, new1)
  <2> DEFINE made == plan.made
             provider == plan.provider
  <2>1. /\ CursorOk(steps, s, j) /\ s <= Len(steps) /\ MadeOk(made, steps, provider, s, j)
        /\ d.attempt = Routes(steps[s])[j]
        /\ \A kind \in Kinds : d.attempt.kind = kind => DecisionOk(d, kind, steps, provider)
    BY <1>1, <1>4, <1>5
  <2> HIDE DEF made, provider
  <2>2. LET new1 == [made EXCEPT ![d.attempt.kind] = Append(made[d.attempt.kind], d)] IN
        /\ MadeOk(new1, steps, provider, NextStep(steps, s, j), NextRoute(steps, s, j))
        /\ IsDecided(d.attempt, new1)
        /\ \A a : IsDecided(a, made) => IsDecided(a, new1)
    BY <2>1, MadeNext, Zenon
  <2> QED BY <2>2 DEF made, provider
<1>7. /\ MadeOk(new, steps, plan.provider, NextStep(steps, s, j), NextRoute(steps, s, j))
      /\ IsDecided(Current, new)
      /\ \A a : IsDecided(a, plan.made) => IsDecided(a, new)
  BY <1>4, <1>6
<1> HIDE DEF new
<1>8. CursorOk(steps, NextStep(steps, s, j), NextRoute(steps, s, j))
  BY <1>1, CursorNext
<1>9. Collecting(p)
  BY <1>1, <1>2, <1>7, <1>8 DEF Collecting
<1> QED BY <1>2, <1>9 DEF p

(* Reading bindings, deciding and freezing keep the invariant.              *)
LEMMA PolicyKeepsPlan ==
  ASSUME PlanOk(plan), PolicyNext
  PROVE  PlanOk(plan')
<1>1. CASE SkipPolicy
  <2>1. plan'.phase = "frozen" /\ plan'.provider = None
    BY <1>1 DEF SkipPolicy
  <2> QED BY <2>1 DEF PlanOk, Frozen
<1>2. ASSUME NEW provider \in {"embedded", "opa"}, BeginPolicy(provider) PROVE PlanOk(plan')
  <2>1. StepsOk(plan.steps)
    BY <1>2 DEF BeginPolicy, PlanOk
  <2>2. /\ DOMAIN plan' = PolicyFields /\ plan'.phase = "binding" /\ plan'.provider = provider
        /\ plan'.steps = plan.steps /\ plan'.step = 1 /\ plan'.route = 1
        /\ plan'.made = [kind \in Kinds |-> <<>>] /\ DOMAIN plan'.digest = {}
    BY <1>2 DEF BeginPolicy, PolicyFields
  <2>3. Collecting(plan')
    BY <2>1, <2>2, CursorStart, MadeStart DEF Collecting
  <2> QED BY <2>2, <2>3 DEF PlanOk
<1>3. CASE ReadBinding
  <2>1. plan.phase = "binding" /\ Collecting(plan) /\ plan.step <= Len(plan.steps)
    BY <1>3 DEF ReadBinding, PlanOk
  <2>2. DOMAIN With(plan.digest, Current, Held(Current)) = DOMAIN plan.digest \cup {Current}
    BY DEF With
  <2>3. plan' = [plan EXCEPT !.phase = "asking",
                             !.digest = With(plan.digest, Current, Held(Current))]
    BY <1>3 DEF ReadBinding
  <2>4. /\ DOMAIN plan' = PolicyFields /\ plan'.phase = "asking" /\ plan'.provider = plan.provider
        /\ plan'.steps = plan.steps /\ plan'.step = plan.step /\ plan'.route = plan.route
        /\ plan'.made = plan.made /\ DOMAIN plan'.digest = DOMAIN plan.digest \cup {Current}
    <3> HIDE DEF PlanOk
    <3>1. DOMAIN plan = PolicyFields
      BY <2>1 DEF Collecting
    <3> DEFINE w == With(plan.digest, Current, Held(Current))
    <3>2. plan' = [plan EXCEPT !.phase = "asking", !.digest = w] /\ DOMAIN w = DOMAIN plan.digest \cup {Current}
      BY <2>2, <2>3
    <3> HIDE DEF w
    <3> QED BY <3>1, <3>2 DEF PolicyFields
  <2>5. \A a \in DOMAIN plan'.digest :
          IsDecided(a, plan'.made) \/ a = Routes(plan'.steps[plan'.step])[plan'.route]
    <3>1. \A a \in DOMAIN plan.digest : IsDecided(a, plan.made)
      BY <2>1 DEF Collecting
    <3>2. Current = Routes(plan'.steps[plan'.step])[plan'.route]
      BY <2>4 DEF Current
    <3> QED BY <2>4, <3>1, <3>2
  <2>6. Collecting(plan')
    BY <2>1, <2>4, <2>5 DEF Collecting
  <2> QED BY <2>4, <2>6 DEF PlanOk
<1>4. CASE ReadBindingFails
  BY <1>4, FailedPlanOk DEF ReadBindingFails, Fail
<1>5. ASSUME NEW effect \in {"ALLOW", "REQUIRE_APPROVAL", "DENY"}, PolicyAnswers(effect)
      PROVE  PlanOk(plan')
  <2>1. plan.phase = "asking" /\ Collecting(plan)
    BY <1>5 DEF PolicyAnswers, PlanOk
  <2>2. plan.provider = "embedded" => effect = EvaluatePolicy(Current)
    BY <1>5 DEF PolicyAnswers
  <2>3. \/ plan' = [phase |-> "failed", code |-> "policy_denied"]
        \/ plan' = [phase |-> "failed", code |-> "compensation_approval_unsupported"]
        \/ /\ effect # "DENY" /\ ~(effect = "REQUIRE_APPROVAL" /\ Current.kind = "compensation")
           /\ plan' = Decided(effect)
    BY <1>5 DEF PolicyAnswers, Fail
  <2>4. CASE /\ effect # "DENY" /\ ~(effect = "REQUIRE_APPROVAL" /\ Current.kind = "compensation")
             /\ plan' = Decided(effect)
    <3>1. effect \in {"ALLOW", "REQUIRE_APPROVAL"} /\ (Current.kind = "compensation" => effect = "ALLOW")
      BY <2>4
    <3>2. Collecting(plan') /\ plan'.phase = "binding"
      BY <2>1, <2>2, <2>4, <3>1, DecidedCollects
    <3> QED BY <3>2 DEF PlanOk
  <2> QED BY <2>3, <2>4, FailedPlanOk
<1>6. CASE PolicyUnavailable
  BY <1>6, FailedPlanOk DEF PolicyUnavailable, Fail
<1>7. CASE Freeze
  <2> DEFINE ds == Grouped(plan.made)
             steps == Approved(plan.steps, ds)
  <2>1. plan.phase = "binding" /\ Collecting(plan) /\ plan.step > Len(plan.steps)
    BY <1>7 DEF Freeze, PlanOk
  <2>2. ValidFrozen(steps, ds)
    BY <2>1, FreezeIsValid
  <2>3. plan' = [phase |-> "frozen", command |-> plan.command, steps |-> steps,
                 routed |-> plan.routed, provider |-> plan.provider,
                 digest |-> plan.digest, decisions |-> ds]
    BY <1>7, <2>2 DEF Freeze
  <2>4. /\ plan'.phase = "frozen" /\ plan'.provider = plan.provider /\ plan'.digest = plan.digest
        /\ plan'.decisions = ds /\ plan'.steps = steps
    BY <2>3
  <2>5. Frozen(plan')
    BY <2>1, <2>4, FreezeCovers
  <2> QED BY <2>4, <2>5 DEF PlanOk
<1> QED BY <1>1, <1>2, <1>3, <1>4, <1>5, <1>6, <1>7 DEF PolicyNext

(* Every step keeps the invariant.                                          *)
LEMMA PlanStays ==
  ASSUME PlanInv, [PlanningNext]_planningAll
  PROVE  PlanInv'
<1>1. CASE UNCHANGED plan /\ UNCHANGED invoked
  BY <1>1 DEF PlanInv
<1>2. CASE BuildNext
  <2>1. plan.phase \in {"new", "clock", "health"} /\ UNCHANGED invoked
    BY <1>2 DEF BuildNext, StaticBuild, BookingBuild, RoutedBuild, ReadClock, ReadHealth, Select
  <2>2. PlanOk(plan')
    BY <1>2, BuildKeepsPlan DEF PlanInv
  <2> QED BY <2>1, <2>2 DEF PlanInv
<1>3. CASE PolicyNext
  <2>1. plan.phase \in {"built", "binding", "asking"} /\ UNCHANGED invoked
    BY <1>3 DEF PolicyNext, SkipPolicy, BeginPolicy, ReadBinding, ReadBindingFails,
                PolicyAnswers, PolicyUnavailable, Freeze
  <2>2. PlanOk(plan')
    BY <1>3, PolicyKeepsPlan DEF PlanInv
  <2> QED BY <2>1, <2>2 DEF PlanInv
<1>4. ASSUME NEW a \in DOMAIN plan.digest, Invoke(a) PROVE PlanInv'
  <2>1. UNCHANGED plan /\ plan.phase = "frozen"
    BY <1>4 DEF Invoke
  <2>2. invoked'.attempt = a /\ invoked'.secrets = plan.digest[a]
    BY <1>4 DEF Invoke, Resolvable
  <2> QED BY <2>1, <2>2 DEF PlanInv
<1>5. CASE BindingNext
  <2>1. CASE \E a \in DOMAIN plan.digest : Invoke(a)
    BY <1>4, <2>1
  <2>2. CASE ~\E a \in DOMAIN plan.digest : Invoke(a)
    BY <1>1, <1>5, <2>2 DEF BindingNext, GetBinding, PutBinding, ReplaceBinding
  <2> QED BY <2>1, <2>2
<1>6. CASE RoutingNext \/ UNCHANGED planningAll
  BY <1>1, <1>6 DEF RoutingNext, planningVars, planningAll
<1> QED BY <1>2, <1>3, <1>5, <1>6 DEF PlanningNext

(* The invariant holds in every reachable state.                            *)
LEMMA PlanAlways == PlanningBehaviour => []PlanInv
<1>1. PlanningInit => PlanInv
  BY DEF PlanningInit, PlanInv, PlanOk
<1> QED BY <1>1, PlanStays, PTL DEF PlanningBehaviour

(* The plan of any command whose attempts the policy lets through can be    *)
(* frozen: whatever the planner, the routes, the rules or the answers of an *)
(* OPA endpoint, the decisions collected attempt by attempt are those that  *)
(* validate_plan looks for.                                                 *)
THEOREM PlansCanBeFrozen == PlanningBehaviour => []PolicyPlanFreezes
<1>1. PlanInv => PolicyPlanFreezes
  BY DEF PlanInv, PlanOk, PolicyPlanFreezes
<1> QED BY <1>1, PlanAlways, PTL

(* What runs has the secrets that were bound when its policy was asked and  *)
(* a decision of its own, for any commands, policies, rules, bindings and   *)
(* writers.                                                                 *)
THEOREM AttemptsRunOnDecisions == PlanningBehaviour => []AttemptsAreCovered
<1>1. PlanInv => AttemptsAreCovered
  <2> SUFFICES ASSUME PlanInv, invoked # None PROVE AttemptsAreCovered
    BY DEF AttemptsAreCovered
  <2> DEFINE a == invoked.attempt
             own == {d \in Range(plan.decisions) : d.attempt = a}
             Covers(r) == \A f \in DOMAIN r.select : a[f] \in r.select[f] \/ r.select[f] = {}
  <2>1. Frozen(plan) /\ a \in DOMAIN plan.digest /\ invoked.secrets = plan.digest[a]
    BY DEF PlanInv, PlanOk
  <2> HIDE DEF a
  <2>2. ASSUME plan.provider # None
        PROVE  \E d \in own :
                 /\ d.effect \in {"ALLOW", "REQUIRE_APPROVAL"}
                 /\ d.effect = "REQUIRE_APPROVAL" => plan.steps[a.step].approval
                 /\ plan.provider = "embedded" => d.effect = EvaluatePolicy(a)
    <3>1. PICK k \in 1..Len(plan.decisions) :
            LET d == plan.decisions[k] IN
            /\ d.attempt = a /\ d.effect \in {"ALLOW", "REQUIRE_APPROVAL"}
            /\ d.effect = "REQUIRE_APPROVAL" => plan.steps[a.step].approval
            /\ plan.provider = "embedded" => d.effect = EvaluatePolicy(a)
      BY <2>1, <2>2 DEF Frozen
    <3>2. plan.decisions[k] \in own
      BY <2>1, <2>2, <3>1 DEF Frozen, IsList, Range
    <3> QED BY <3>1, <3>2
  <2>3. ASSUME plan.provider = "embedded"
        PROVE  \E r \in Rules :
                 /\ Covers(r) /\ r.effect # "DENY"
                 /\ \A q \in Rules : Covers(q) /\ q.effect = "DENY" => q.priority >= r.priority
    <3>1. plan.provider # None
      BY <2>3, ProvidersAssumption
    <3>2. EvaluatePolicy(a) # "DENY"
      BY <2>2, <2>3, <3>1
    <3>3. PICK r \in Rules : /\ Matches(r, a) /\ r.effect = EvaluatePolicy(a)
                             /\ \A q \in Rules : Matches(q, a) => q.priority >= r.priority
      BY <3>2, EffectIsOfFirst
    <3>4. \A q \in Rules : Covers(q) <=> Matches(q, a)
      BY DEF Matches
    <3> QED BY <3>2, <3>3, <3>4
  <2> QED BY <2>1, <2>2, <2>3 DEF AttemptsAreCovered, a
<1> QED BY <1>1, PlanAlways, PTL

-----------------------------------------------------------------------------
(* Rankings.                                                                *)

(* A strict total order of S.                                               *)
Orders(before, S) ==
  /\ \A x \in S : <<x, x>> \notin before
  /\ \A x, y \in S : x # y => <<x, y>> \in before \/ <<y, x>> \in before
  /\ \A x, y, z \in S : <<x, y>> \in before /\ <<y, z>> \in before => <<x, z>> \in before

Below(S, before, x) == {y \in S : <<y, x>> \in before}

(* An element has fewer below it than the set has elements.                 *)
LEMMA BelowTypes ==
  ASSUME NEW S, IsFiniteSet(S), NEW before, Orders(before, S), NEW x \in S
  PROVE  /\ IsFiniteSet(Below(S, before, x))
         /\ Cardinality(Below(S, before, x)) \in Nat /\ Cardinality(S) \in Nat
         /\ Cardinality(Below(S, before, x)) < Cardinality(S)
<1> DEFINE B == Below(S, before, x)
<1>1. B \subseteq S \ {x}
  BY DEF Below, Orders
<1>2. IsFiniteSet(S \ {x}) /\ Cardinality(S \ {x}) = Cardinality(S) - 1 /\ Cardinality(S) \in Nat
  BY FS_RemoveElement, FS_CardinalityType
<1> HIDE DEF B
<1>3. IsFiniteSet(B) /\ Cardinality(B) <= Cardinality(S \ {x}) /\ Cardinality(B) \in Nat
  BY <1>1, <1>2, FS_Subset, FS_CardinalityType
<1>4. Cardinality(B) < Cardinality(S)
  BY <1>2, <1>3
<1> QED BY <1>2, <1>3, <1>4 DEF B

(* What comes before another element has fewer below it.                    *)
LEMMA BelowGrows ==
  ASSUME NEW S, IsFiniteSet(S), NEW before, Orders(before, S), NEW x \in S, NEW y \in S,
         <<x, y>> \in before
  PROVE  Cardinality(Below(S, before, x)) < Cardinality(Below(S, before, y))
<1> DEFINE B == Below(S, before, x)
           C == Below(S, before, y)
<1>1. B \cup {x} \subseteq C
  BY DEF Below, Orders
<1>2. x \notin B
  BY DEF Below, Orders
<1>3. IsFiniteSet(B) /\ IsFiniteSet(C) /\ Cardinality(B) \in Nat /\ Cardinality(C) \in Nat
  BY BelowTypes
<1> HIDE DEF B, C
<1>4. Cardinality(B \cup {x}) = Cardinality(B) + 1
  BY <1>2, <1>3, FS_AddElement
<1>5. Cardinality(B \cup {x}) <= Cardinality(C)
  BY <1>1, <1>3, FS_Subset
<1>6. Cardinality(B) < Cardinality(C)
  BY <1>3, <1>4, <1>5
<1> QED BY <1>6 DEF B, C

(* For every place there is an element with so many below it: the number    *)
(* below is an injection into as many numbers as there are elements.        *)
LEMMA PlaceTaken ==
  ASSUME NEW S, IsFiniteSet(S), NEW before, Orders(before, S), NEW k \in 1..Cardinality(S)
  PROVE  \E x \in S : Cardinality(Below(S, before, x)) = k - 1
<1> DEFINE n == Cardinality(S)
           T == 0..(n - 1)
           f == [x \in S |-> Cardinality(Below(S, before, x))]
<1>1. n \in Nat /\ n # 0
  BY FS_CardinalityType
<1>2. \A x \in S : f[x] \in T
  BY <1>1, BelowTypes
<1>3. f \in [S -> T]
  BY <1>2
<1>4. ASSUME NEW x \in S, NEW y \in S, f[x] = f[y] PROVE x = y
  <2>1. CASE <<x, y>> \in before
    <3>1. f[x] < f[y] /\ f[x] \in Nat
      BY <2>1, BelowGrows, BelowTypes
    <3> QED BY <1>4, <3>1
  <2>2. CASE <<y, x>> \in before
    <3>1. f[y] < f[x] /\ f[x] \in Nat
      BY <2>2, BelowGrows, BelowTypes
    <3> QED BY <1>4, <3>1
  <2> QED BY <2>1, <2>2 DEF Orders
<1>5. IsFiniteSet(T) /\ Cardinality(T) = n
  <2> HIDE DEF n
  <2>1. n - 1 \in Int /\ 0 \in Int /\ ~(0 > n - 1) /\ n - 1 - 0 + 1 = n
    BY <1>1
  <2> DEFINE m == n - 1
  <2>2. m \in Int /\ 0 \in Int /\ ~(0 > m) /\ m - 0 + 1 = n
    BY <2>1
  <2> HIDE DEF m
  <2>3. IsFiniteSet(0..m) /\ Cardinality(0..m) = n
    BY <2>2, FS_Interval
  <2> QED BY <2>3 DEF m
<1> HIDE DEF f, T, n
<1>6. f \in Injection(S, T)
  BY <1>3, <1>4 DEF Injection, IsInjective
<1>7. f \in Surjection(S, T)
  BY <1>5, <1>6, FS_Injection DEF n
<1>8. k - 1 \in T
  BY <1>1 DEF n, T
<1>9. PICK x \in S : f[x] = k - 1
  BY <1>7, <1>8 DEF Surjection
<1> QED BY <1>9 DEF f

(* What Ranking is: a list of the whole set, each element at the place that *)
(* the elements below it leave.                                             *)
LEMMA RankingOrders ==
  ASSUME NEW S, IsFiniteSet(S), NEW before, Orders(before, S)
  PROVE  LET r == Ranking(S, before) IN
         /\ IsList(r) /\ Len(r) = Cardinality(S) /\ Cardinality(S) \in Nat
         /\ \A k \in 1..Len(r) : r[k] \in S
         /\ \A x \in S : \E k \in 1..Len(r) : r[k] = x
         /\ \A j, k \in 1..Len(r) : j < k <=> <<r[j], r[k]>> \in before
<1> DEFINE n == Cardinality(S)
           Place(k) == CHOOSE x \in S : Cardinality(Below(S, before, x)) = k - 1
           r == Ranking(S, before)
<1>1. n \in Nat
  BY FS_CardinalityType
<1>2. r = [k \in 1..n |-> Place(k)]
  BY Zenon DEF Ranking, Below
<1>3. ASSUME NEW k \in 1..n PROVE Place(k) \in S /\ Cardinality(Below(S, before, Place(k))) = k - 1
  BY PlaceTaken
<1> HIDE DEF Place, r
<1>4. DOMAIN r = 1..n /\ \A k \in 1..n : r[k] = Place(k)
  BY <1>2
<1>5. IsList(r) /\ Len(r) = n
  <2>1. r = [k \in 1..n |-> r[k]]
    BY <1>2
  <2> HIDE DEF n
  <2> QED BY <1>1, <1>4, <2>1, FunctionIsList
<1>6. \A k \in 1..n : r[k] \in S /\ Cardinality(Below(S, before, r[k])) = k - 1
  BY <1>3, <1>4
<1>7. ASSUME NEW j \in 1..n, NEW k \in 1..n PROVE j < k <=> <<r[j], r[k]>> \in before
  <2>1. r[j] \in S /\ r[k] \in S
    BY <1>6
  <2>2. ASSUME <<r[j], r[k]>> \in before PROVE j < k
    <3>1. j - 1 < k - 1
      BY <1>6, <2>1, <2>2, BelowGrows
    <3> QED BY <1>1, <3>1
  <2>3. ASSUME j < k, <<r[j], r[k]>> \notin before PROVE FALSE
    <3>1. r[j] # r[k]
      <4>1. j - 1 # k - 1
        BY <1>1, <2>3
      <4> QED BY <1>6, <4>1
    <3>2. <<r[k], r[j]>> \in before
      BY <2>1, <2>3, <3>1 DEF Orders
    <3>3. k - 1 < j - 1
      BY <1>6, <2>1, <3>2, BelowGrows
    <3> QED BY <1>1, <2>3, <3>3
  <2> QED BY <2>2, <2>3
<1>8. ASSUME NEW x \in S PROVE \E k \in 1..n : r[k] = x
  <2> DEFINE k == Cardinality(Below(S, before, x)) + 1
  <2>1. Cardinality(Below(S, before, x)) \in Nat /\ k \in 1..n /\ k - 1 = Cardinality(Below(S, before, x))
    BY <1>1, BelowTypes
  <2>2. r[k] \in S /\ Cardinality(Below(S, before, r[k])) = k - 1
    BY <1>6, <2>1
  <2>3. ~(<<x, r[k]>> \in before) /\ ~(<<r[k], x>> \in before)
    <3>1. <<x, r[k]>> \in before => k - 1 < k - 1
      BY <2>1, <2>2, BelowGrows
    <3>2. <<r[k], x>> \in before => k - 1 < k - 1
      BY <2>1, <2>2, BelowGrows
    <3>3. ~(k - 1 < k - 1)
      BY <2>1
    <3> QED BY <3>1, <3>2, <3>3
  <2>4. r[k] = x
    BY <2>2, <2>3 DEF Orders
  <2> QED BY <2>1, <2>4
<1> QED BY <1>1, <1>5, <1>6, <1>7, <1>8 DEF r

-----------------------------------------------------------------------------
(* The outcomes of a candidate, and the latest of them.                     *)

Sample(o) == o.event \in Nat /\ o.at \in Nat /\ o.latency \in Nat /\ o.kind \in OutcomeKinds

Samples(T) ==
  /\ IsFiniteSet(T) /\ \A o \in T : Sample(o)
  /\ \A o, p \in T : o.event = p.event => o = p

Newer(o, p) == o.at > p.at \/ (o.at = p.at /\ o.event > p.event)

Newest(rows, T, limit) ==
  /\ IsList(rows) /\ Len(rows) = IF Cardinality(T) < limit THEN Cardinality(T) ELSE limit
  /\ \A k \in 1..Len(rows) : rows[k] \in T
  /\ \A j, k \in 1..Len(rows) : j < k => Newer(rows[j], rows[k])
  /\ \A o \in T :
       (\E k \in 1..Len(rows) : rows[k] = o) \/ (\A k \in 1..Len(rows) : Newer(rows[k], o))

(* Time and event order the outcomes of a candidate.                        *)
LEMMA LaterOrders ==
  ASSUME NEW T, Samples(T)
  PROVE  /\ Orders(Later(T), T)
         /\ \A o, p \in T : <<o, p>> \in Later(T) <=> Newer(o, p)
<1>1. \A o, p \in T : <<o, p>> \in Later(T) <=> Newer(o, p)
  BY DEF Later, Newer
<1>2. \A o \in T : o.event \in Nat /\ o.at \in Nat
  BY DEF Samples, Sample
<1>3. \A o \in T : ~Newer(o, o)
  BY <1>2 DEF Newer
<1>4. \A o, p \in T : o # p => Newer(o, p) \/ Newer(p, o)
  BY <1>2 DEF Newer, Samples
<1>5. \A o, p, q \in T : Newer(o, p) /\ Newer(p, q) => Newer(o, q)
  BY <1>2 DEF Newer
<1> QED BY <1>1, <1>3, <1>4, <1>5 DEF Orders

(* What replay returns.                                                     *)
LEMMA ReplayIsNewest ==
  ASSUME NEW T, Samples(T), NEW limit \in Nat
  PROVE  Newest(UpTo(limit, Ranking(T, Later(T))), T, limit)
<1> DEFINE r == Ranking(T, Later(T))
           u == UpTo(limit, r)
<1>1. Orders(Later(T), T) /\ IsFiniteSet(T) /\ \A o, p \in T : <<o, p>> \in Later(T) <=> Newer(o, p)
  BY LaterOrders DEF Samples
<1>2. /\ IsList(r) /\ Len(r) = Cardinality(T) /\ Cardinality(T) \in Nat
      /\ \A k \in 1..Len(r) : r[k] \in T
      /\ \A x \in T : \E k \in 1..Len(r) : r[k] = x
      /\ \A j, k \in 1..Len(r) : j < k <=> <<r[j], r[k]>> \in Later(T)
  BY <1>1, RankingOrders
<1> HIDE DEF r
<1>3. /\ IsList(u) /\ Len(u) = IF Len(r) < limit THEN Len(r) ELSE limit
      /\ \A k \in 1..Len(u) : u[k] = r[k]
  BY <1>2, UpToOf
<1> HIDE DEF u
<1>4. Len(u) \in Nat /\ Len(u) <= Len(r) /\ \A k \in 1..Len(u) : k \in 1..Len(r)
  BY <1>2, <1>3
<1>5. \A k \in 1..Len(u) : u[k] \in T
  BY <1>2, <1>3, <1>4
<1>6. \A j, k \in 1..Len(u) : j < k => Newer(u[j], u[k])
  BY <1>1, <1>2, <1>3, <1>4
<1>7. ASSUME NEW o \in T
      PROVE  (\E k \in 1..Len(u) : u[k] = o) \/ \A k \in 1..Len(u) : Newer(u[k], o)
  <2>1. PICK m \in 1..Len(r) : r[m] = o
    BY <1>2
  <2>2. CASE m <= Len(u)
    BY <1>3, <1>4, <2>1, <2>2
  <2>3. CASE ~(m <= Len(u))
    <3> SUFFICES ASSUME NEW k \in 1..Len(u) PROVE Newer(u[k], o)
      OBVIOUS
    <3>1. k < m /\ k \in 1..Len(r)
      BY <1>2, <1>4, <2>3
    <3>2. <<r[k], r[m]>> \in Later(T) /\ r[k] \in T
      BY <1>2, <3>1
    <3> QED BY <1>1, <1>3, <2>1, <3>2
  <2> QED BY <2>2, <2>3
<1>8. Newest(u, T, limit)
  <2>1. Len(u) = IF Cardinality(T) < limit THEN Cardinality(T) ELSE limit
    BY <1>2, <1>3
  <2>2. \A o \in T : (\E k \in 1..Len(u) : u[k] = o) \/ \A k \in 1..Len(u) : Newer(u[k], o)
    BY <1>7
  <2>3. IsList(u)
    BY <1>3
  <2> HIDE DEF Newer
  <2> QED BY <1>5, <1>6, <2>1, <2>2, <2>3 DEF Newest
<1> QED BY <1>8 DEF u, r

(* Of the latest rows, no two are the same.                                 *)
LEMMA NewestDiffer ==
  ASSUME NEW T, Samples(T), NEW limit, NEW rows, Newest(rows, T, limit)
  PROVE  /\ Len(rows) \in Nat /\ DOMAIN rows = 1..Len(rows)
         /\ \A k \in 1..Len(rows) : rows[k] \in T /\ Sample(rows[k])
         /\ \A j, k \in 1..Len(rows) : rows[j] = rows[k] => j = k
<1>1. /\ Len(rows) \in Nat /\ DOMAIN rows = 1..Len(rows)
      /\ \A k \in 1..Len(rows) : rows[k] \in T /\ Sample(rows[k])
  BY DEF Newest, IsList, Samples
<1>2. ASSUME NEW j \in 1..Len(rows), NEW k \in 1..Len(rows), rows[j] = rows[k], j # k PROVE FALSE
  <2>1. rows[j].at \in Nat /\ rows[j].event \in Nat
    BY <1>1 DEF Sample
  <2>2. j < k \/ k < j
    BY <1>1, <1>2
  <2>3. Newer(rows[j], rows[k]) \/ Newer(rows[k], rows[j])
    BY <2>2 DEF Newest
  <2> QED BY <1>2, <2>1, <2>3 DEF Newer
<1> QED BY <1>1, <1>2

-----------------------------------------------------------------------------
(* Arithmetic of the engine.                                                *)

(* Whole division.                                                          *)
LEMMA Quotient ==
  ASSUME NEW a \in Nat, NEW b \in Nat, b > 0
  PROVE  /\ a \div b \in Nat
         /\ b * (a \div b) <= a /\ a < b * (a \div b) + b
OBVIOUS

(* A product grows with its factor.                                         *)
LEMMA Product ==
  ASSUME NEW a \in Nat, NEW b \in Nat, NEW m \in Nat, a <= b
  PROVE  a * m <= b * m /\ a * m \in Nat /\ b * m \in Nat
OBVIOUS

(* A quotient grows with the dividend.                                      *)
LEMMA QuotientGrows ==
  ASSUME NEW a \in Nat, NEW c \in Nat, NEW b \in Nat, b > 0, a <= c
  PROVE  a \div b <= c \div b
OBVIOUS

(* A quotient of at most m times the divisor is at most m.                  *)
LEMMA QuotientBound ==
  ASSUME NEW a \in Nat, NEW m \in Nat, NEW b \in Nat, b > 0, a <= m * b
  PROVE  a \div b <= m
OBVIOUS

(* The rank of the 95th percentile is a place of the sample.                *)
LEMMA RankBounds ==
  ASSUME NEW n \in Nat, n > 0
  PROVE  (n * 95 + 99) \div 100 \in 1..n
OBVIOUS

-----------------------------------------------------------------------------
(* Health.                                                                  *)

Kept(rows) == IsList(rows) /\ \A k \in 1..Len(rows) : Sample(rows[k])

CountOf(rows, kind) == Cardinality({i \in 1..Len(rows) : rows[i].kind = kind})

Streak(rows, k) ==
  /\ \A i \in 1..k : rows[i].kind # "success"
  /\ k = Len(rows) \/ rows[k + 1].kind = "success"

Percentile(rows, l) ==
  LET rank == (Len(rows) * 95 + 99) \div 100 IN
  /\ Cardinality({i \in 1..Len(rows) : rows[i].latency < l}) < rank
  /\ Cardinality({i \in 1..Len(rows) : rows[i].latency <= l}) >= rank

(* An interval from 1 has its length.                                       *)
LEMMA UpToCount ==
  ASSUME NEW n \in Nat
  PROVE  IsFiniteSet(1..n) /\ Cardinality(1..n) = n
<1>1. 1 \in Int /\ n \in Int /\ (1 > n => n = 0)
  OBVIOUS
<1>2. IsFiniteSet(1..n) /\ Cardinality(1..n) = IF 1 > n THEN 0 ELSE n - 1 + 1
  BY <1>1, FS_Interval
<1> QED BY <1>1, <1>2

(* The indices of a list that meet a condition are finitely many.           *)
LEMMA IndicesFinite ==
  ASSUME NEW n \in Nat, NEW I, I \subseteq 1..n
  PROVE  IsFiniteSet(I) /\ Cardinality(I) \in Nat /\ Cardinality(I) <= n
<1>1. IsFiniteSet(1..n) /\ Cardinality(1..n) = n
  BY UpToCount
<1> QED BY <1>1, FS_Subset, FS_CardinalityType

(* The three kinds of outcome make up the sample.                           *)
LEMMA CountsAddUp ==
  ASSUME NEW rows, Kept(rows)
  PROVE  /\ CountOf(rows, "success") + (CountOf(rows, "retryable") + CountOf(rows, "terminal")) = Len(rows)
         /\ CountOf(rows, "success") \in Nat /\ CountOf(rows, "success") <= Len(rows)
<1> DEFINE n == Len(rows)
           A == {i \in 1..n : rows[i].kind = "success"}
           B == {i \in 1..n : rows[i].kind = "retryable"}
           C == {i \in 1..n : rows[i].kind = "terminal"}
<1>1. n \in Nat /\ \A i \in 1..n : rows[i].kind \in OutcomeKinds
  BY DEF Kept, IsList, Sample
<1>2. A \cup (B \cup C) = 1..n /\ A \cap (B \cup C) = {} /\ B \cap C = {}
  BY <1>1 DEF OutcomeKinds
<1>3. A \subseteq 1..n /\ B \subseteq 1..n /\ C \subseteq 1..n /\ B \cup C \subseteq 1..n
  OBVIOUS
<1>4. CountOf(rows, "success") = Cardinality(A) /\ CountOf(rows, "retryable") = Cardinality(B)
      /\ CountOf(rows, "terminal") = Cardinality(C)
  BY DEF CountOf
<1> HIDE DEF A, B, C, n
<1>5. /\ IsFiniteSet(A) /\ IsFiniteSet(B) /\ IsFiniteSet(C) /\ IsFiniteSet(B \cup C)
      /\ Cardinality(A) \in Nat /\ Cardinality(B) \in Nat /\ Cardinality(C) \in Nat
      /\ Cardinality(A) <= n
  BY <1>1, <1>3, IndicesFinite
<1>6. Cardinality({}) = 0
  BY FS_EmptySet
<1>7. Cardinality(B \cup C) = Cardinality(B) + Cardinality(C)
  BY <1>2, <1>5, <1>6, FS_Union
<1>8. Cardinality(1..n) = Cardinality(A) + Cardinality(B \cup C)
  <2> DEFINE D == B \cup C
  <2>1. A \cup D = 1..n /\ A \cap D = {} /\ IsFiniteSet(D)
    BY <1>2, <1>5
  <2>2. Cardinality(D) \in Nat
    BY <2>1, FS_CardinalityType
  <2> HIDE DEF D
  <2>3. Cardinality(A \cup D) = Cardinality(A) + Cardinality(D) - Cardinality(A \cap D)
    BY <1>5, <2>1, FS_Union
  <2>4. Cardinality(1..n) = Cardinality(A) + Cardinality(D)
    <3>1. Cardinality(A \cup D) = Cardinality(1..n) /\ Cardinality(A \cap D) = 0
      BY <1>6, <2>1, Zenon
    <3> QED BY <1>5, <2>2, <2>3, <3>1
  <2> QED BY <2>4 DEF D
<1>9. Cardinality(1..n) = n
  BY <1>1, UpToCount
<1> QED BY <1>4, <1>5, <1>7, <1>8, <1>9 DEF n

(* There is a longest run of failures at the head of the rows.              *)
LEMMA StreakExists ==
  ASSUME NEW rows, Kept(rows)
  PROVE  \E k \in 0..Len(rows) : Streak(rows, k)
<1> DEFINE n == Len(rows)
           T == {k \in 0..n : k = n \/ rows[k + 1].kind = "success"}
<1>1. n \in Nat
  BY DEF Kept, IsList
<1>2. T \subseteq Nat /\ n \in T
  BY <1>1
<1> HIDE DEF T
<1>3. PICK k \in T : \A m \in T : k <= m
  BY <1>2, LeastOf
<1>4. k \in 0..n /\ (k = n \/ rows[k + 1].kind = "success")
  BY <1>3 DEF T
<1>5. ASSUME NEW i \in 1..k, rows[i].kind = "success" PROVE FALSE
  <2>1. i - 1 \in 0..n /\ (i - 1) + 1 = i /\ i - 1 < k
    BY <1>1, <1>4
  <2>2. i - 1 \in T
    BY <1>5, <2>1 DEF T
  <2> QED BY <1>3, <1>4, <2>1, <2>2
<1> QED BY <1>4, <1>5 DEF Streak, n

(* The latency at the place of the percentile, in the order of latency, is  *)
(* what health_snapshot takes from the sorted list.                         *)
LEMMA PercentileExists ==
  ASSUME NEW rows, Kept(rows), Len(rows) > 0
  PROVE  \E i \in 1..Len(rows) : Percentile(rows, rows[i].latency)
<1> DEFINE n == Len(rows)
           I == 1..n
           rank == (n * 95 + 99) \div 100
           Slower(i, j) == rows[i].latency < rows[j].latency \/ (rows[i].latency = rows[j].latency /\ i < j)
           slower == {p \in I \X I : Slower(p[1], p[2])}
<1>1. n \in Nat /\ n > 0 /\ \A i \in 1..n : rows[i].latency \in Nat
  BY DEF Kept, IsList, Sample
<1>2. rank \in 1..n
  BY <1>1, RankBounds
<1>3. \A i, j \in I : <<i, j>> \in slower <=> Slower(i, j)
  OBVIOUS
<1>4. IsFiniteSet(I) /\ Cardinality(I) = n
  BY <1>1, UpToCount
<1> HIDE DEF slower
<1>5. Orders(slower, I)
  <2>1. \A i \in I : i \in Nat /\ rows[i].latency \in Nat
    BY <1>1
  <2>2. \A i \in I : <<i, i>> \notin slower
    BY <1>3, <2>1
  <2>3. \A i, j \in I : i # j => <<i, j>> \in slower \/ <<j, i>> \in slower
    BY <1>3, <2>1
  <2>4. \A i, j, k \in I : <<i, j>> \in slower /\ <<j, k>> \in slower => <<i, k>> \in slower
    BY <1>3, <2>1
  <2> QED BY <2>2, <2>3, <2>4 DEF Orders
<1> HIDE DEF rank
<1>6. PICK x \in I : Cardinality(Below(I, slower, x)) = rank - 1
  BY <1>2, <1>4, <1>5, PlaceTaken
<1> DEFINE l == rows[x].latency
           B == Below(I, slower, x)
           L == {i \in 1..n : rows[i].latency < l}
           M == {i \in 1..n : rows[i].latency <= l}
<1>7. L \subseteq B /\ x \notin B /\ B \cup {x} \subseteq M /\ B \subseteq 1..n /\ M \subseteq 1..n
  <2>1. l \in Nat /\ \A i \in I : rows[i].latency \in Nat
    BY <1>1
  <2>2. L \subseteq B
    BY <1>3 DEF Below
  <2>3. x \notin B
    BY <1>5 DEF Below, Orders
  <2>4. B \cup {x} \subseteq M
    BY <1>3, <2>1 DEF Below
  <2> QED BY <2>2, <2>3, <2>4 DEF Below
<1>8. l = rows[x].latency /\ Cardinality(B) = rank - 1
  BY <1>6
<1>9. Percentile(rows, l) <=> Cardinality(L) < rank /\ Cardinality(M) >= rank
  BY DEF Percentile, rank
<1> HIDE DEF B, L, M, l
<1>10. /\ IsFiniteSet(B) /\ IsFiniteSet(M) /\ Cardinality(B) \in Nat /\ Cardinality(M) \in Nat
  BY <1>1, <1>7, IndicesFinite
<1>11. Cardinality(L) <= Cardinality(B) /\ Cardinality(L) \in Nat
  BY <1>7, <1>10, FS_Subset, FS_CardinalityType
<1>12. Cardinality(B \cup {x}) = Cardinality(B) + 1 /\ Cardinality(B \cup {x}) <= Cardinality(M)
  BY <1>7, <1>10, FS_AddElement, FS_Subset
<1>13. Cardinality(L) < rank /\ Cardinality(M) >= rank
  BY <1>2, <1>8, <1>10, <1>11, <1>12
<1> QED BY <1>8, <1>9, <1>13

(* The bounds of a routing policy.                                          *)
LEMMA PolicyBounds ==
  ASSUME NEW policy \in Policies
  PROVE  /\ policy.minSamples \in Nat /\ policy.window \in Nat /\ policy.window > 0
         /\ policy.threshold \in Nat /\ policy.threshold > 0 /\ policy.cooldown \in Nat
         /\ policy.fallbacks \in Nat /\ policy.maxLatency \in Nat /\ policy.maxCost \in Nat
<1>1. ValidPolicy(policy)
  BY PoliciesAssumption
<1>2. /\ policy.minSamples \in 0..Bps /\ policy.window \in 1..Bps
      /\ policy.threshold \in 1..100 /\ policy.cooldown \in Nat /\ policy.fallbacks \in 0..15
      /\ policy.maxLatency \in Nat /\ policy.maxCost \in Nat
  BY <1>1, Zenon DEF ValidPolicy
<1>3. Bps \in Nat
  BY DEF Bps
<1>4. \A x : (x \in 0..Bps => x \in Nat) /\ (x \in 1..Bps => x \in Nat /\ x > 0)
  BY <1>3
<1>5. \A x : (x \in 1..100 => x \in Nat /\ x > 0) /\ (x \in 0..15 => x \in Nat)
  OBVIOUS
<1> QED BY <1>2, <1>4, <1>5, Zenon

(* Health without outcomes.                                                 *)
LEMMA SnapshotOfNone ==
  ASSUME NEW rows, Len(rows) = 0, NEW policy, NEW at
  PROVE  LET h == HealthSnapshot(rows, policy, at) IN
         /\ h.samples = 0 /\ h.success = 0 /\ h.failures = 0 /\ h.consecutive = 0
         /\ h.status = "UNKNOWN" /\ h.p95 = None /\ h.until = None
BY DEF HealthSnapshot

(* Health with outcomes: the counts, the run of failures, the percentile    *)
(* and the circuit.                                                         *)
LEMMA SnapshotOf ==
  ASSUME NEW rows, Kept(rows), Len(rows) > 0, NEW policy \in Policies, NEW at \in Nat
  PROVE  LET h == HealthSnapshot(rows, policy, at)
             expiry == rows[1].at + policy.cooldown
         IN /\ h.samples = Len(rows) /\ h.success = CountOf(rows, "success")
            /\ h.failures = CountOf(rows, "retryable") + CountOf(rows, "terminal")
            /\ h.consecutive \in 0..Len(rows) /\ Streak(rows, h.consecutive)
            /\ \E i \in 1..Len(rows) : h.p95 = rows[i].latency /\ Percentile(rows, h.p95)
            /\ (h.status = "UNAVAILABLE") =
                 (Len(rows) >= policy.minSamples /\ h.consecutive >= policy.threshold /\ expiry > at)
            /\ h.until = IF h.status = "UNAVAILABLE" THEN expiry ELSE None
<1> DEFINE n == Len(rows)
           Count(kind) == Cardinality({i \in 1..n : rows[i].kind = kind})
           consecutive == CHOOSE k \in 0..n :
             /\ \A i \in 1..k : rows[i].kind # "success"
             /\ k = n \/ rows[k + 1].kind = "success"
           rank == (n * 95 + 99) \div 100
           p95 == CHOOSE l \in {o.latency : o \in Range(rows)} :
             /\ Cardinality({i \in 1..n : rows[i].latency < l}) < rank
             /\ Cardinality({i \in 1..n : rows[i].latency <= l}) >= rank
           expiry == rows[1].at + policy.cooldown
           status == IF n < policy.minSamples THEN "UNKNOWN"
                     ELSE IF consecutive >= policy.threshold /\ expiry > at THEN "UNAVAILABLE"
                     ELSE IF Count("success") < n THEN "DEGRADED" ELSE "HEALTHY"
           h == HealthSnapshot(rows, policy, at)
<1>1. h = [status |-> status, samples |-> n, success |-> Count("success"),
           failures |-> Count("retryable") + Count("terminal"),
           consecutive |-> consecutive, p95 |-> p95,
           until |-> IF status = "UNAVAILABLE" THEN expiry ELSE None]
  <2>1. n # 0
    BY DEF Kept, IsList
  <2> QED BY <2>1 DEF HealthSnapshot
<1>2. consecutive \in 0..n /\ Streak(rows, consecutive)
  <2>1. consecutive = CHOOSE k \in 0..n : Streak(rows, k)
    BY DEF Streak
  <2> HIDE DEF consecutive
  <2> QED BY <2>1, StreakExists
<1>3. \E i \in 1..n : p95 = rows[i].latency /\ Percentile(rows, p95)
  <2> DEFINE L == {o.latency : o \in Range(rows)}
  <2>1. L = {rows[i].latency : i \in 1..n}
    BY DEF Range, Kept, IsList
  <2>2. p95 = CHOOSE l \in L : Percentile(rows, l)
    BY DEF Percentile
  <2> HIDE DEF L, p95
  <2>3. \E l \in L : Percentile(rows, l)
    BY <2>1, PercentileExists
  <2>4. p95 \in L /\ Percentile(rows, p95)
    BY <2>2, <2>3
  <2> QED BY <2>1, <2>4
<1>4. \A kind : Count(kind) = CountOf(rows, kind)
  BY DEF CountOf
<1> HIDE DEF consecutive, p95, Count
<1>5. n \in Nat /\ policy.minSamples \in Nat
  BY PolicyBounds DEF Kept, IsList
<1>6. (status = "UNAVAILABLE") = (n >= policy.minSamples /\ consecutive >= policy.threshold /\ expiry > at)
  <2> HIDE DEF expiry, n
  <2> QED BY <1>5
<1> HIDE DEF status, expiry
<1>7. /\ h.status = status /\ h.samples = n /\ h.success = Count("success")
      /\ h.failures = Count("retryable") + Count("terminal")
      /\ h.consecutive = consecutive /\ h.p95 = p95
      /\ h.until = IF status = "UNAVAILABLE" THEN expiry ELSE None
  BY <1>1
<1> HIDE DEF h
<1> QED BY <1>2, <1>3, <1>4, <1>6, <1>7 DEF h, expiry, n

(* validate_counts accepts the health of any rows.                          *)
LEMMA SnapshotIsValid ==
  ASSUME NEW rows, Kept(rows), NEW policy \in Policies, NEW at \in Nat
  PROVE  ValidSnapshot(HealthSnapshot(rows, policy, at), at)
<1> DEFINE h == HealthSnapshot(rows, policy, at)
           expiry == rows[1].at + policy.cooldown
<1>1. Len(rows) \in Nat
  BY DEF Kept, IsList
<1>2. CASE Len(rows) = 0
  <2>1. /\ h.samples = 0 /\ h.success = 0 /\ h.failures = 0 /\ h.consecutive = 0
        /\ h.status = "UNKNOWN" /\ h.p95 = None /\ h.until = None
    BY <1>2, SnapshotOfNone
  <2> HIDE DEF h
  <2>2. ValidSnapshot(h, at)
    BY <2>1 DEF ValidSnapshot
  <2> QED BY <2>2 DEF h
<1>3. CASE Len(rows) # 0
  <2>1. /\ h.samples = Len(rows) /\ h.success = CountOf(rows, "success")
        /\ h.failures = CountOf(rows, "retryable") + CountOf(rows, "terminal")
        /\ h.consecutive \in 0..Len(rows)
        /\ \E i \in 1..Len(rows) : h.p95 = rows[i].latency
        /\ (h.status = "UNAVAILABLE") =
             (Len(rows) >= policy.minSamples /\ h.consecutive >= policy.threshold /\ expiry > at)
        /\ h.until = IF h.status = "UNAVAILABLE" THEN expiry ELSE None
    <3>1. Len(rows) > 0
      BY <1>1, <1>3
    <3> QED BY <3>1, SnapshotOf, Zenon
  <2>2. 1 \in 1..Len(rows)
    BY <1>1, <1>3
  <2>3. expiry \in Nat /\ expiry # None
    <3>1. rows[1].at \in Nat /\ policy.cooldown \in Nat
      BY <2>2, PolicyBounds DEF Kept, Sample
    <3> QED BY <3>1, RoutingNone
  <2>4. h.p95 \in Nat /\ h.p95 # None
    BY <2>1, RoutingNone DEF Kept, Sample
  <2>5. h.success + h.failures = h.samples
    BY <2>1, CountsAddUp
  <2> HIDE DEF h, expiry
  <2>6. h.samples # 0 /\ h.consecutive <= h.samples
    BY <1>1, <1>3, <2>1
  <2>7. (h.status = "UNAVAILABLE") = (h.until # None)
    BY <2>1, <2>3
  <2>8. h.until # None => h.until > at
    BY <2>1, <2>7
  <2>9. ValidSnapshot(h, at)
    BY <2>4, <2>5, <2>6, <2>7, <2>8 DEF ValidSnapshot
  <2> QED BY <2>9 DEF h
<1> QED BY <1>2, <1>3

Differ(rows, n) == \A j, k \in 1..n : rows[j] = rows[k] => j = k

At(P, rows, I) == \A x : x \in P <=> \E i \in I : x = rows[i]

(* As many rows as indices.                                                 *)
LEMMA RowsCounted ==
  ASSUME NEW n \in Nat, NEW rows, Differ(rows, n), NEW I, I \subseteq 1..n, NEW P, At(P, rows, I)
  PROVE  IsFiniteSet(P) /\ Cardinality(P) = Cardinality(I) /\ Cardinality(I) \in Nat
<1> DEFINE f == [i \in I |-> rows[i]]
<1>1. f \in [I -> P] /\ (\A x \in P : \E i \in I : f[i] = x) /\ \A i, j \in I : f[i] = f[j] => i = j
  BY DEF Differ, At
<1> HIDE DEF f
<1>2. f \in Bijection(I, P)
  BY <1>1 DEF Bijection, Injection, Surjection, IsInjective
<1>3. ExistsBijection(I, P)
  BY <1>2 DEF ExistsBijection
<1>4. IsFiniteSet(I) /\ Cardinality(I) \in Nat
  BY IndicesFinite
<1>5. IsFiniteSet(P) /\ Cardinality(P) = Cardinality(I)
  BY <1>3, <1>4, FS_Bijection
<1> QED BY <1>4, <1>5

OpenSet(T, S, policy, at) ==
  /\ Cardinality(S) = policy.threshold
  /\ \A o \in S : o.kind # "success"
  /\ \A o \in S, p \in T \ S : Newer(o, p)
  /\ \E o \in S : o.at + policy.cooldown > at

(* A circuit that is open has failures to show for it.                      *)
LEMMA OpenHasFailures ==
  ASSUME NEW T, Samples(T), NEW policy \in Policies, NEW at \in Nat,
         NEW rows, Newest(rows, T, policy.window), NEW k \in 0..Len(rows), Streak(rows, k),
         k >= policy.threshold, rows[1].at + policy.cooldown > at
  PROVE  \E S \in SUBSET T : OpenSet(T, S, policy, at)
<1> DEFINE n == Len(rows)
           t == policy.threshold
           I == 1..t
           S == {rows[i] : i \in I}
<1>1. t \in Nat /\ t > 0
  BY PolicyBounds
<1>2. /\ n \in Nat /\ \A i \in 1..n : rows[i] \in T
      /\ \A i, j \in 1..n : rows[i] = rows[j] => i = j
  BY NewestDiffer
<1>3. I \subseteq 1..n /\ 1 \in I /\ I \subseteq 1..k
  BY <1>1, <1>2
<1>4. Cardinality(S) = Cardinality(I)
  <2>1. At(S, rows, I) /\ Differ(rows, n)
    BY <1>2 DEF At, Differ
  <2>2. n \in Nat /\ I \subseteq 1..n
    BY <1>2, <1>3
  <2> HIDE DEF I, n, S
  <2>3. IsFiniteSet(S) /\ Cardinality(S) = Cardinality(I) /\ Cardinality(I) \in Nat
    BY <2>1, <2>2, RowsCounted
  <2> QED BY <2>3
<1>5. Cardinality(I) = t
  BY <1>1, UpToCount
<1>6. \A o \in S : o.kind # "success"
  BY <1>3 DEF Streak
<1>7. ASSUME NEW o \in S, NEW p \in T \ S PROVE Newer(o, p)
  <2>1. PICK i \in I : o = rows[i]
    OBVIOUS
  <2>2. CASE \E m \in 1..n : rows[m] = p
    <3>1. PICK m \in 1..n : rows[m] = p
      BY <2>2
    <3>2. m \notin I
      BY <3>1
    <3>3. i < m /\ i \in 1..n
      BY <1>1, <1>2, <1>3, <3>2
    <3> QED BY <2>1, <3>1, <3>3 DEF Newest
  <2>3. CASE \A m \in 1..n : Newer(rows[m], p)
    BY <1>3, <2>1, <2>3
  <2> QED BY <2>2, <2>3 DEF Newest
<1>8. rows[1] \in S /\ S \in SUBSET T
  BY <1>2, <1>3
<1> HIDE DEF S
<1> QED BY <1>4, <1>5, <1>6, <1>7, <1>8 DEF OpenSet

(* Failures that open a circuit are the first rows.                         *)
LEMMA FailuresComeFirst ==
  ASSUME NEW T, Samples(T), NEW policy \in Policies, NEW at \in Nat,
         NEW rows, Newest(rows, T, policy.window), NEW S \in SUBSET T, OpenSet(T, S, policy, at),
         NEW i \in 1..Len(rows), i <= policy.threshold
  PROVE  rows[i] \in S
<1> DEFINE n == Len(rows)
           t == policy.threshold
           I == 1..(i - 1)
           F == {rows[j] : j \in I}
<1>1. t \in Nat /\ t > 0
  BY PolicyBounds
<1>2. /\ n \in Nat /\ \A j \in 1..n : rows[j] \in T
      /\ \A j, m \in 1..n : rows[j] = rows[m] => j = m
  BY NewestDiffer
<1>3. i - 1 \in Nat /\ I \subseteq 1..n /\ i - 1 < t
  BY <1>1, <1>2
<1>4. IsFiniteSet(F) /\ Cardinality(F) = Cardinality(I)
  <2>1. At(F, rows, I) /\ Differ(rows, n)
    BY <1>2 DEF At, Differ
  <2>2. n \in Nat /\ I \subseteq 1..n
    BY <1>2, <1>3
  <2> HIDE DEF I, n, F
  <2>3. IsFiniteSet(F) /\ Cardinality(F) = Cardinality(I) /\ Cardinality(I) \in Nat
    BY <2>1, <2>2, RowsCounted
  <2> QED BY <2>3
<1>5. Cardinality(I) = i - 1
  <2> DEFINE m == i - 1
  <2>1. m \in Nat
    BY <1>3
  <2> HIDE DEF m
  <2>2. Cardinality(1..m) = m
    BY <2>1, UpToCount
  <2> QED BY <2>2 DEF m
<1> SUFFICES ASSUME rows[i] \notin S PROVE FALSE
  OBVIOUS
<1>6. ASSUME NEW o \in S PROVE o \in F
  <2>1. Newer(o, rows[i]) /\ rows[i] \in T /\ o \in T
    BY <1>2 DEF OpenSet
  <2>2. /\ o.at \in Nat /\ o.event \in Nat /\ rows[i].at \in Nat /\ rows[i].event \in Nat
    BY <2>1 DEF Samples, Sample
  <2>3. ~Newer(rows[i], o)
    BY <2>1, <2>2 DEF Newer
  <2>4. PICK j \in 1..n : rows[j] = o
    BY <2>1, <2>3 DEF Newest
  <2>5. ~(i < j) /\ i # j
    BY <2>3, <2>4 DEF Newest
  <2>6. j \in I
    BY <1>2, <2>5
  <2> QED BY <2>4, <2>6
<1> HIDE DEF F
<1>7. S \subseteq F
  BY <1>6
<1>8. Cardinality(S) <= Cardinality(F)
  BY <1>4, <1>7, FS_Subset
<1>9. Cardinality(S) = t
  BY DEF OpenSet
<1> HIDE DEF I, t
<1> QED BY <1>1, <1>3, <1>4, <1>5, <1>8, <1>9

(* A circuit is open exactly when the latest outcomes say so.               *)
LEMMA CircuitOpens ==
  ASSUME NEW T, Samples(T), NEW policy \in Policies, NEW at \in Nat,
         NEW rows, Newest(rows, T, policy.window)
  PROVE  (HealthSnapshot(rows, policy, at).status = "UNAVAILABLE") <=>
         /\ policy.window >= policy.minSamples /\ policy.window >= policy.threshold
         /\ Cardinality(T) >= policy.minSamples
         /\ \E S \in SUBSET T : OpenSet(T, S, policy, at)
<1> DEFINE n == Len(rows)
           t == policy.threshold
           h == HealthSnapshot(rows, policy, at)
<1>1. /\ t \in Nat /\ t > 0 /\ policy.minSamples \in Nat /\ policy.window \in Nat
      /\ policy.cooldown \in Nat
  BY PolicyBounds
<1>2. /\ n \in Nat /\ \A i \in 1..n : rows[i] \in T /\ Sample(rows[i])
      /\ \A i, j \in 1..n : rows[i] = rows[j] => i = j
  BY NewestDiffer
<1>3. Kept(rows)
  BY <1>2 DEF Kept, Newest
<1>4. IsFiniteSet(T) /\ Cardinality(T) \in Nat
  BY FS_CardinalityType DEF Samples
<1>5. n = IF Cardinality(T) < policy.window THEN Cardinality(T) ELSE policy.window
  BY DEF Newest
<1>6. ASSUME n > 0
      PROVE  /\ h.consecutive \in 0..n /\ Streak(rows, h.consecutive)
             /\ (h.status = "UNAVAILABLE") = (n >= policy.minSamples /\ h.consecutive >= t
                                              /\ rows[1].at + policy.cooldown > at)
  BY <1>3, <1>6, SnapshotOf, Zenon
<1>7. ASSUME h.status = "UNAVAILABLE"
      PROVE  /\ policy.window >= policy.minSamples /\ policy.window >= t
             /\ Cardinality(T) >= policy.minSamples
             /\ \E S \in SUBSET T : OpenSet(T, S, policy, at)
  <2>1. n > 0
    <3>1. n = 0 => h.status = "UNKNOWN"
      BY SnapshotOfNone
    <3> QED BY <1>2, <1>7, <3>1
  <2>2. /\ h.consecutive \in 0..n /\ Streak(rows, h.consecutive) /\ n >= policy.minSamples
        /\ h.consecutive >= t /\ rows[1].at + policy.cooldown > at
    BY <1>6, <1>7, <2>1
  <2>3. \E S \in SUBSET T : OpenSet(T, S, policy, at)
    <3> HIDE DEF h
    <3> QED BY <2>2, OpenHasFailures
  <2>4. n <= Cardinality(T) /\ n <= policy.window
    BY <1>1, <1>4, <1>5
  <2> HIDE DEF h, n, t
  <2> QED BY <1>1, <1>2, <1>4, <2>2, <2>3, <2>4
<1>8. ASSUME policy.window >= policy.minSamples, policy.window >= t,
             Cardinality(T) >= policy.minSamples, NEW S \in SUBSET T, OpenSet(T, S, policy, at)
      PROVE  h.status = "UNAVAILABLE"
  <2>1. Cardinality(S) = t /\ Cardinality(S) <= Cardinality(T)
    BY <1>4, <1>8, FS_Subset DEF OpenSet
  <2>2. n >= t /\ n >= policy.minSamples /\ n > 0
    BY <1>1, <1>4, <1>5, <1>8, <2>1
  <2>3. \A i \in 1..n : i <= t => rows[i] \in S
    BY <1>8, FailuresComeFirst
  <2>4. h.consecutive >= t
    <3> DEFINE k == h.consecutive
    <3>1. k \in 0..n /\ Streak(rows, k)
      BY <1>6, <2>2
    <3> HIDE DEF k
    <3>2. ASSUME k < t PROVE FALSE
      <4>1. k + 1 \in 1..n /\ k + 1 <= t /\ k # n
        BY <1>1, <1>2, <2>2, <3>1, <3>2
      <4>2. rows[k + 1].kind = "success" /\ rows[k + 1] \in S
        BY <2>3, <3>1, <4>1 DEF Streak
      <4> QED BY <1>8, <4>2 DEF OpenSet
    <3>3. k >= t
      BY <1>1, <1>2, <3>1, <3>2
    <3> QED BY <3>3 DEF k
  <2>5. rows[1].at + policy.cooldown > at
    <3>1. PICK o \in S : o.at + policy.cooldown > at
      BY <1>8 DEF OpenSet
    <3>2. o \in T /\ Sample(o) /\ 1 \in 1..n /\ Sample(rows[1])
      BY <1>2, <2>2 DEF Samples
    <3>3. o.at \in Nat /\ rows[1].at \in Nat
      BY <3>2 DEF Sample
    <3>4. rows[1] = o \/ Newer(rows[1], o)
      <4>1. CASE \E j \in 1..n : rows[j] = o
        <5>1. PICK j \in 1..n : rows[j] = o
          BY <4>1
        <5>2. j = 1 \/ 1 < j
          BY <1>2
        <5> QED BY <3>2, <5>1, <5>2 DEF Newest
      <4> QED BY <3>2, <4>1 DEF Newest
    <3>5. rows[1].at >= o.at
      BY <3>3, <3>4 DEF Newer
    <3> QED BY <1>1, <3>1, <3>3, <3>5
  <2> QED BY <1>6, <2>2, <2>4, <2>5
<1> QED BY <1>7, <1>8

-----------------------------------------------------------------------------
(* The engine.                                                              *)

(* The bounds of a profile.                                                 *)
LEMMA ProfileBounds ==
  ASSUME NEW c \in Candidates
  PROVE  LET p == Profile[c] IN
         /\ p.success \in Nat /\ p.success <= Bps /\ p.weight \in Nat /\ p.weight > 0
         /\ p.latency \in Nat /\ p.cost \in Nat /\ p.priority \in Nat /\ c \in Nat
<1> DEFINE p == Profile[c]
<1>1. c \in Nat /\ ValidCandidate(p)
  BY CandidatesAssumption
<1> HIDE DEF p
<1>2. /\ p.success \in 0..Bps /\ p.weight \in 1..Bps /\ p.latency \in Nat
      /\ p.cost \in Nat /\ p.priority \in Nat
  BY <1>1, Zenon DEF ValidCandidate
<1>3. Bps \in Nat
  BY DEF Bps
<1>4. \A x : (x \in 0..Bps => x \in Nat /\ x <= Bps) /\ (x \in 1..Bps => x \in Nat /\ x > 0)
  BY <1>3
<1>5. /\ p.success \in Nat /\ p.success <= Bps /\ p.weight \in Nat /\ p.weight > 0
      /\ p.latency \in Nat /\ p.cost \in Nat /\ p.priority \in Nat /\ c \in Nat
  BY <1>1, <1>2, <1>4, Zenon
<1> QED BY <1>5 DEF p

(* A mean of parts that are at most a bound is at most the bound.           *)
LEMMA MeanBound ==
  ASSUME NEW s \in Nat, NEW w \in Nat, NEW x \in Nat, NEW n \in Nat, NEW b \in Nat,
         s <= b, x <= n, w + n > 0
  PROVE  (s * w + x * b) \div (w + n) \in 0..b
<1>1. s * w <= b * w /\ s * w \in Nat /\ b * w \in Nat
  BY Product
<1>2. x * b <= n * b /\ x * b \in Nat /\ n * b \in Nat
  BY Product
<1>3. b * (w + n) = b * w + n * b
  OBVIOUS
<1> DEFINE a == s * w + x * b
           m == w + n
<1>4. a \in Nat /\ m \in Nat /\ m > 0 /\ a <= b * m
  BY <1>1, <1>2, <1>3
<1> HIDE DEF a, m
<1>5. a \div m \in Nat /\ a \div m <= b
  BY <1>4, Quotient, QuotientBound
<1>6. a \div m \in 0..b
  BY <1>5
<1> QED BY <1>6 DEF a, m

(* Such a mean grows with its parts.                                        *)
LEMMA MeanGrows ==
  ASSUME NEW s \in Nat, NEW r \in Nat, NEW w \in Nat, NEW x \in Nat, NEW y \in Nat, NEW n \in Nat,
         NEW b \in Nat, s <= r, x <= y, w + n > 0
  PROVE  (s * w + x * b) \div (w + n) <= (r * w + y * b) \div (w + n)
<1>1. s * w <= r * w /\ s * w \in Nat /\ r * w \in Nat
  BY Product
<1>2. x * b <= y * b /\ x * b \in Nat /\ y * b \in Nat
  BY Product
<1> DEFINE a == s * w + x * b
           c == r * w + y * b
           m == w + n
<1>3. a \in Nat /\ c \in Nat /\ m \in Nat /\ m > 0 /\ a <= c
  BY <1>1, <1>2
<1> HIDE DEF a, c, m
<1>4. a \div m <= c \div m
  BY <1>3, QuotientGrows
<1> QED BY <1>4 DEF a, c, m

Sound(h) ==
  /\ h.samples \in Nat /\ h.success \in Nat /\ h.success <= h.samples
  /\ h.p95 = None \/ h.p95 \in Nat

(* The health of any rows is sound.                                         *)
LEMMA SnapshotIsSound ==
  ASSUME NEW rows, Kept(rows), NEW policy \in Policies, NEW at \in Nat
  PROVE  Sound(HealthSnapshot(rows, policy, at))
<1> DEFINE h == HealthSnapshot(rows, policy, at)
<1>1. Len(rows) \in Nat
  BY DEF Kept, IsList
<1>2. CASE Len(rows) = 0
  <2>1. h.samples = 0 /\ h.success = 0 /\ h.p95 = None
    BY <1>2, SnapshotOfNone
  <2> HIDE DEF h
  <2>2. Sound(h)
    BY <2>1 DEF Sound
  <2> QED BY <2>2 DEF h
<1>3. CASE Len(rows) # 0
  <2>1. /\ h.samples = Len(rows) /\ h.success = CountOf(rows, "success")
        /\ \E i \in 1..Len(rows) : h.p95 = rows[i].latency
    <3>1. Len(rows) > 0
      BY <1>1, <1>3
    <3> QED BY <3>1, SnapshotOf, Zenon
  <2>2. h.p95 \in Nat
    BY <2>1 DEF Kept, Sample
  <2>3. CountOf(rows, "success") \in Nat /\ CountOf(rows, "success") <= Len(rows)
    BY CountsAddUp
  <2> HIDE DEF h
  <2>4. Sound(h)
    BY <1>1, <2>1, <2>2, <2>3 DEF Sound
  <2> QED BY <2>4 DEF h
<1> QED BY <1>2, <1>3

(* The effective success of a candidate is within bounds.                   *)
LEMMA SuccessBound ==
  ASSUME NEW c \in Candidates, NEW h, Sound(h)
  PROVE  EffectiveSuccess(Profile[c], h) \in 0..Bps
<1> DEFINE p == Profile[c]
<1>1. /\ p.success \in Nat /\ p.success <= Bps /\ p.weight \in Nat /\ p.weight > 0 /\ Bps \in Nat
      /\ h.samples \in Nat /\ h.success \in Nat /\ h.success <= h.samples
  BY ProfileBounds DEF Bps, Sound
<1> HIDE DEF p
<1>2. p.success \in 0..Bps /\ p.weight + h.samples > 0
  BY <1>1
<1>3. (p.success * p.weight + h.success * Bps) \div (p.weight + h.samples) \in 0..Bps
  BY <1>1, <1>2, MeanBound
<1>4. EffectiveSuccess(p, h) \in 0..Bps
  BY <1>2, <1>3 DEF EffectiveSuccess
<1> QED BY <1>4 DEF p

(* It grows with the profile's success and with the successes observed.     *)
LEMMA SuccessGrows ==
  ASSUME NEW c \in Candidates, NEW d \in Candidates, NEW g, Sound(g), NEW h, Sound(h),
         Profile[c].success >= Profile[d].success, Profile[c].weight = Profile[d].weight,
         g.samples = h.samples, g.success >= h.success
  PROVE  EffectiveSuccess(Profile[d], h) <= EffectiveSuccess(Profile[c], g)
<1> DEFINE p == Profile[c]
           q == Profile[d]
<1>1. /\ p.success \in Nat /\ q.success \in Nat /\ q.success <= p.success
      /\ p.weight \in Nat /\ p.weight > 0 /\ q.weight = p.weight /\ Bps \in Nat
      /\ h.samples \in Nat /\ h.success \in Nat /\ g.success \in Nat /\ h.success <= g.success
      /\ g.samples = h.samples
  BY ProfileBounds DEF Bps, Sound
<1> HIDE DEF p, q
<1>2. p.weight + h.samples > 0
  BY <1>1
<1>3. (q.success * p.weight + h.success * Bps) \div (p.weight + h.samples)
        <= (p.success * p.weight + g.success * Bps) \div (p.weight + h.samples)
  BY <1>1, <1>2, MeanGrows
<1>4. EffectiveSuccess(q, h) <= EffectiveSuccess(p, g)
  <2>1. CASE h.samples = 0
    BY <1>1, <2>1 DEF EffectiveSuccess
  <2>2. CASE h.samples # 0
    <3>1. /\ EffectiveSuccess(q, h) =
               (q.success * p.weight + h.success * Bps) \div (p.weight + h.samples)
          /\ EffectiveSuccess(p, g) =
               (p.success * p.weight + g.success * Bps) \div (p.weight + h.samples)
      BY <1>1, <2>2 DEF EffectiveSuccess
    <3> QED BY <1>3, <3>1
  <2> QED BY <2>1, <2>2
<1> QED BY <1>4 DEF p, q

(* The score of a cost or a latency is within bounds.                       *)
LEMMA InverseBound ==
  ASSUME NEW v \in Nat, NEW m \in Nat
  PROVE  InverseScore(v, m) \in 0..Bps
<1>1. CASE m > 0 /\ v <= m
  <2>1. Bps \in Nat
    BY DEF Bps
  <2>2. v * Bps <= m * Bps /\ v * Bps \in Nat /\ m * Bps = Bps * m
    BY <1>1, <2>1, Product
  <2>3. (v * Bps) \div m \in Nat /\ (v * Bps) \div m <= Bps
    BY <1>1, <2>1, <2>2, Quotient, QuotientBound
  <2>4. InverseScore(v, m) = Bps - ((v * Bps) \div m)
    BY <1>1 DEF InverseScore
  <2> QED BY <2>1, <2>3, <2>4
<1>2. CASE ~(m > 0 /\ v <= m)
  <2>1. InverseScore(v, m) \in {0, Bps}
    BY <1>2 DEF InverseScore
  <2> QED BY <2>1 DEF Bps
<1> QED BY <1>1, <1>2

(* The less the better.                                                     *)
LEMMA InverseGrows ==
  ASSUME NEW v \in Nat, NEW u \in Nat, NEW m \in Nat, v <= u
  PROVE  InverseScore(u, m) <= InverseScore(v, m)
<1>1. /\ InverseScore(u, m) \in 0..Bps /\ InverseScore(v, m) \in 0..Bps /\ Bps \in Nat
  <2>1. Bps \in Nat
    BY DEF Bps
  <2> QED BY <2>1, InverseBound
<1>2. CASE m > 0 /\ u <= m
  <2>1. v * Bps <= u * Bps /\ v * Bps \in Nat /\ u * Bps \in Nat
    BY <1>1, Product
  <2>2. (v * Bps) \div m <= (u * Bps) \div m /\ (v * Bps) \div m \in Nat /\ (u * Bps) \div m \in Nat
    BY <1>2, <2>1, QuotientGrows, Quotient
  <2>3. /\ InverseScore(u, m) = Bps - ((u * Bps) \div m)
        /\ InverseScore(v, m) = Bps - ((v * Bps) \div m)
    BY <1>2 DEF InverseScore
  <2> QED BY <1>1, <2>2, <2>3
<1>3. CASE m > 0 /\ u > m
  <2>1. InverseScore(u, m) = 0
    BY <1>3 DEF InverseScore
  <2> QED BY <1>1, <2>1
<1>4. CASE m = 0
  <2>1. InverseScore(u, m) = (IF u = 0 THEN Bps ELSE 0) /\ InverseScore(v, m) = (IF v = 0 THEN Bps ELSE 0)
    BY <1>4 DEF InverseScore
  <2> QED BY <1>1, <2>1
<1> QED BY <1>2, <1>3, <1>4

(* The mean of three scores by weights.                                     *)
LEMMA WeightedMean ==
  ASSUME NEW e \in Nat, NEW f \in Nat, NEW g \in Nat, NEW b \in Nat, e <= b, f <= b, g <= b,
         NEW r \in Nat, NEW l \in Nat, NEW k \in Nat, r + l + k > 0
  PROVE  (e * r + f * l + g * k) \div (r + l + k) \in 0..b
<1>1. e * r <= b * r /\ e * r \in Nat /\ b * r \in Nat
  BY Product
<1>2. f * l <= b * l /\ f * l \in Nat /\ b * l \in Nat
  BY Product
<1>3. g * k <= b * k /\ g * k \in Nat /\ b * k \in Nat
  BY Product
<1>4. b * (r + l + k) = b * r + b * l + b * k
  OBVIOUS
<1> DEFINE a == e * r + f * l + g * k
           m == r + l + k
<1>5. a \in Nat /\ m \in Nat /\ m > 0 /\ a <= b * m
  BY <1>1, <1>2, <1>3, <1>4
<1> HIDE DEF a, m
<1>6. a \div m \in Nat /\ a \div m <= b
  BY <1>5, Quotient, QuotientBound
<1>7. a \div m \in 0..b
  BY <1>6
<1> QED BY <1>7 DEF a, m

(* It grows with each of them.                                              *)
LEMMA WeightedMeanGrows ==
  ASSUME NEW e \in Nat, NEW f \in Nat, NEW g \in Nat, NEW x \in Nat, NEW y \in Nat, NEW z \in Nat,
         x <= e, y <= f, z <= g, NEW r \in Nat, NEW l \in Nat, NEW k \in Nat, r + l + k > 0
  PROVE  (x * r + y * l + z * k) \div (r + l + k) <= (e * r + f * l + g * k) \div (r + l + k)
<1>1. x * r <= e * r /\ x * r \in Nat /\ e * r \in Nat
  BY Product
<1>2. y * l <= f * l /\ y * l \in Nat /\ f * l \in Nat
  BY Product
<1>3. z * k <= g * k /\ z * k \in Nat /\ g * k \in Nat
  BY Product
<1> DEFINE a == x * r + y * l + z * k
           c == e * r + f * l + g * k
           m == r + l + k
<1>4. a \in Nat /\ c \in Nat /\ m \in Nat /\ m > 0 /\ a <= c
  BY <1>1, <1>2, <1>3
<1> HIDE DEF a, c, m
<1>5. a \div m <= c \div m
  BY <1>4, QuotientGrows
<1> QED BY <1>5 DEF a, c, m

(* The weights of a policy are not all 0.                                   *)
LEMMA WeightBounds ==
  ASSUME NEW policy \in Policies
  PROVE  LET w == policy.weights IN
         /\ w.reliability \in Nat /\ w.latency \in Nat /\ w.cost \in Nat
         /\ w.reliability + w.latency + w.cost > 0
<1> DEFINE w == policy.weights
<1>1. ValidPolicy(policy)
  BY PoliciesAssumption
<1>2. w \in [{"reliability", "latency", "cost"} -> 0..1000] /\ \E x \in DOMAIN w : w[x] > 0
  BY <1>1, Zenon DEF ValidPolicy
<1> HIDE DEF w
<1>3. /\ w.reliability \in Nat /\ w.latency \in Nat /\ w.cost \in Nat
      /\ w.reliability > 0 \/ w.latency > 0 \/ w.cost > 0
  <2> DEFINE J == 0..1000
             D == {"reliability", "latency", "cost"}
  <2>1. w \in [D -> J] /\ J \subseteq Nat
    BY <1>2
  <2>2. "reliability" \in D /\ "latency" \in D /\ "cost" \in D
    OBVIOUS
  <2> HIDE DEF D, J
  <2>3. DOMAIN w = D /\ w["reliability"] \in Nat /\ w["latency"] \in Nat /\ w["cost"] \in Nat
    BY <2>1, <2>2
  <2>4. w["reliability"] > 0 \/ w["latency"] > 0 \/ w["cost"] > 0
    BY <1>2, <2>3, Zenon DEF D
  <2> QED BY <2>3, <2>4
<1>4. w.reliability + w.latency + w.cost > 0
  BY <1>3
<1> QED BY <1>3, <1>4 DEF w

(* The latency assumed for a candidate is a number.                         *)
LEMMA LatencyBound ==
  ASSUME NEW c \in Candidates, NEW h, Sound(h)
  PROVE  EffectiveLatency(Profile[c], h) \in Nat
<1>1. Profile[c].latency \in Nat
  BY ProfileBounds
<1> QED BY <1>1 DEF EffectiveLatency, Sound

(* The three parts of a score.                                              *)
LEMMA ScoreParts ==
  ASSUME NEW c \in Candidates, NEW policy \in Policies, NEW h, Sound(h)
  PROVE  LET p == Profile[c] IN
         /\ EffectiveSuccess(p, h) \in 0..Bps
         /\ InverseScore(EffectiveLatency(p, h), policy.maxLatency) \in 0..Bps
         /\ InverseScore(p.cost, policy.maxCost) \in 0..Bps
<1>1. EffectiveSuccess(Profile[c], h) \in 0..Bps /\ EffectiveLatency(Profile[c], h) \in Nat
  BY SuccessBound, LatencyBound
<1>2. Profile[c].cost \in Nat
  BY ProfileBounds
<1>3. policy.maxLatency \in Nat /\ policy.maxCost \in Nat
  BY PolicyBounds
<1> QED BY <1>1, <1>2, <1>3, InverseBound

(* validate_evaluation accepts every candidate that has a sound health.     *)
LEMMA EvaluationIsValid ==
  ASSUME NEW c \in Candidates, NEW policy \in Policies, NEW h, Sound(h)
  PROVE  ValidEvaluation(c, policy, h)
<1> DEFINE p == Profile[c]
           w == policy.weights
           e == EffectiveSuccess(p, h)
           f == InverseScore(EffectiveLatency(p, h), policy.maxLatency)
           g == InverseScore(p.cost, policy.maxCost)
<1>1. e \in 0..Bps /\ f \in 0..Bps /\ g \in 0..Bps
  BY ScoreParts
<1>2. w.reliability \in Nat /\ w.latency \in Nat /\ w.cost \in Nat
      /\ w.reliability + w.latency + w.cost > 0
  BY WeightBounds
<1>3. Bps \in Nat
  BY DEF Bps
<1>4. WeightedScore(c, policy, h) = (e * w.reliability + f * w.latency + g * w.cost)
                                      \div (w.reliability + w.latency + w.cost)
  BY DEF WeightedScore
<1> HIDE DEF e, f, g, w
<1>5. e \in Nat /\ f \in Nat /\ g \in Nat /\ e <= Bps /\ f <= Bps /\ g <= Bps
  BY <1>1, <1>3
<1>6. (e * w.reliability + f * w.latency + g * w.cost)
        \div (w.reliability + w.latency + w.cost) \in 0..Bps
  BY <1>2, <1>3, <1>5, WeightedMean
<1>7. WeightedScore(c, policy, h) \in 0..Bps
  BY <1>4, <1>6
<1> QED BY <1>1, <1>7 DEF ValidEvaluation, e

(* A candidate that is as good in each part has as good a score.            *)
LEMMA ScoreGrows ==
  ASSUME NEW c \in Candidates, NEW d \in Candidates, NEW policy \in Policies,
         NEW g, Sound(g), NEW h, Sound(h),
         EffectiveSuccess(Profile[d], h) <= EffectiveSuccess(Profile[c], g),
         EffectiveLatency(Profile[c], g) <= EffectiveLatency(Profile[d], h),
         Profile[c].cost <= Profile[d].cost
  PROVE  WeightedScore(d, policy, h) <= WeightedScore(c, policy, g)
<1> DEFINE w == policy.weights
           e == EffectiveSuccess(Profile[c], g)
           f == InverseScore(EffectiveLatency(Profile[c], g), policy.maxLatency)
           k == InverseScore(Profile[c].cost, policy.maxCost)
           x == EffectiveSuccess(Profile[d], h)
           y == InverseScore(EffectiveLatency(Profile[d], h), policy.maxLatency)
           z == InverseScore(Profile[d].cost, policy.maxCost)
<1>1. /\ e \in 0..Bps /\ f \in 0..Bps /\ k \in 0..Bps
      /\ x \in 0..Bps /\ y \in 0..Bps /\ z \in 0..Bps
  BY ScoreParts
<1>2. w.reliability \in Nat /\ w.latency \in Nat /\ w.cost \in Nat
      /\ w.reliability + w.latency + w.cost > 0
  BY WeightBounds
<1>3. policy.maxLatency \in Nat /\ policy.maxCost \in Nat
  BY PolicyBounds
<1>4. y <= f
  BY <1>3, LatencyBound, InverseGrows
<1>5. z <= k
  <2>1. Profile[c].cost \in Nat /\ Profile[d].cost \in Nat
    BY ProfileBounds
  <2> QED BY <1>3, <2>1, InverseGrows
<1>6. x <= e
  OBVIOUS
<1>7. /\ WeightedScore(c, policy, g) = (e * w.reliability + f * w.latency + k * w.cost)
                                         \div (w.reliability + w.latency + w.cost)
      /\ WeightedScore(d, policy, h) = (x * w.reliability + y * w.latency + z * w.cost)
                                         \div (w.reliability + w.latency + w.cost)
  BY DEF WeightedScore
<1> HIDE DEF e, f, k, x, y, z, w
<1>8. e \in Nat /\ f \in Nat /\ k \in Nat /\ x \in Nat /\ y \in Nat /\ z \in Nat
  <2>1. Bps \in Nat
    BY DEF Bps
  <2> QED BY <1>1, <2>1
<1>9. (x * w.reliability + y * w.latency + z * w.cost) \div (w.reliability + w.latency + w.cost)
        <= (e * w.reliability + f * w.latency + k * w.cost) \div (w.reliability + w.latency + w.cost)
  BY <1>2, <1>4, <1>5, <1>6, <1>8, WeightedMeanGrows
<1> QED BY <1>7, <1>9

Prefers(c, d, score) ==
  \/ score[c] > score[d]
  \/ score[c] = score[d] /\ Profile[c].priority < Profile[d].priority
  \/ score[c] = score[d] /\ Profile[c].priority = Profile[d].priority /\ c < d

(* Score, priority and id order the candidates.                             *)
LEMMA PreferredOrders ==
  ASSUME NEW S, S \subseteq Candidates, NEW score, \A c \in S : score[c] \in Nat
  PROVE  /\ Orders(Preferred(S, score), S)
         /\ \A c, d \in S : <<c, d>> \in Preferred(S, score) <=> Prefers(c, d, score)
<1>1. \A c, d \in S : <<c, d>> \in Preferred(S, score) <=> Prefers(c, d, score)
  BY DEF Preferred, Prefers
<1>2. \A c \in S : c \in Nat /\ score[c] \in Nat /\ Profile[c].priority \in Nat
  BY ProfileBounds
<1>3. \A c \in S : ~Prefers(c, c, score)
  BY <1>2 DEF Prefers
<1>4. \A c, d \in S : c # d => Prefers(c, d, score) \/ Prefers(d, c, score)
  BY <1>2 DEF Prefers
<1>5. \A c, d, e \in S : Prefers(c, d, score) /\ Prefers(d, e, score) => Prefers(c, e, score)
  BY <1>2 DEF Prefers
<1> QED BY <1>1, <1>3, <1>4, <1>5 DEF Orders

Healthy(health) == DOMAIN health \subseteq Candidates /\ \A c \in DOMAIN health : Sound(health[c])

Scores(policy, health) == [c \in DOMAIN health |-> WeightedScore(c, policy, health[c])]

Eligible(d) == {c \in DOMAIN d.reasons : d.reasons[c] = {}}

InOrder(d, score) ==
  /\ IsList(d.ranked) /\ Len(d.ranked) = Cardinality(Eligible(d))
  /\ \A k \in 1..Len(d.ranked) : d.ranked[k] \in Eligible(d)
  /\ \A c \in Eligible(d) : \E k \in 1..Len(d.ranked) : d.ranked[k] = c
  /\ \A j, k \in 1..Len(d.ranked) : j < k <=> Prefers(d.ranked[j], d.ranked[k], score)
  /\ IsList(d.fallbacks)
  /\ \A i \in 1..Len(d.fallbacks) : d.fallbacks[i] \in Eligible(d) /\ d.fallbacks[i] # d.ranked[1]
  /\ \A i, j \in 1..Len(d.fallbacks) : i < j => Prefers(d.fallbacks[i], d.fallbacks[j], score)

(* What select_route returns: the reasons, the eligible candidates in order *)
(* of preference, and the fallbacks.                                        *)
LEMMA Selected ==
  ASSUME NEW request, NEW policy \in Policies, NEW health, Healthy(health)
  PROVE  LET d == SelectRoute(request, policy, health) IN
         /\ DOMAIN d.reasons = DOMAIN health
         /\ \A c \in DOMAIN health : d.reasons[c] = RejectionReasons(c, request, policy, health[c])
         /\ InOrder(d, Scores(policy, health))
<1> DEFINE reasons == [c \in DOMAIN health |-> RejectionReasons(c, request, policy, health[c])]
           score == [c \in DOMAIN health |-> WeightedScore(c, policy, health[c])]
           eligible == {c \in DOMAIN health : reasons[c] = {}}
           ranked == Ranking(eligible, Preferred(eligible, score))
           others == {c \in eligible : request.risk = 0 /\ c # ranked[1] /\ ~Profile[c].approval}
           listed == Ranking(others, Preferred(others, score))
           fallbacks == UpTo(policy.fallbacks, listed)
           d == SelectRoute(request, policy, health)
<1>1. d.reasons = reasons /\ d.ranked = ranked /\ d.fallbacks = fallbacks
  BY DEF SelectRoute
<1>2. /\ DOMAIN reasons = DOMAIN health
      /\ \A c \in DOMAIN health : reasons[c] = RejectionReasons(c, request, policy, health[c])
  OBVIOUS
<1>3. eligible \subseteq Candidates /\ others \subseteq eligible
      /\ (\A c \in others : c # ranked[1]) /\ eligible = {c \in DOMAIN reasons : reasons[c] = {}}
  BY DEF Healthy
<1>4. \A c \in eligible : score[c] \in Nat
  <2>1. ASSUME NEW c \in DOMAIN health PROVE WeightedScore(c, policy, health[c]) \in Nat
    <3>1. WeightedScore(c, policy, health[c]) \in 0..Bps
      BY EvaluationIsValid DEF Healthy, ValidEvaluation
    <3>2. Bps \in Nat
      BY DEF Bps
    <3> QED BY <3>1, <3>2
  <2> QED BY <2>1
<1> HIDE DEF d, fallbacks, listed, others, ranked, eligible, score, reasons
<1>5. IsFiniteSet(eligible) /\ IsFiniteSet(others) /\ others \subseteq Candidates
      /\ \A c \in others : score[c] \in Nat
  BY <1>3, <1>4, CandidatesAssumption, FS_Subset
<1>6. /\ Orders(Preferred(eligible, score), eligible)
      /\ \A b, c \in eligible : <<b, c>> \in Preferred(eligible, score) <=> Prefers(b, c, score)
      /\ Orders(Preferred(others, score), others)
      /\ \A b, c \in others : <<b, c>> \in Preferred(others, score) <=> Prefers(b, c, score)
  BY <1>3, <1>4, <1>5, PreferredOrders
<1>7. /\ IsList(ranked) /\ Len(ranked) = Cardinality(eligible)
      /\ \A k \in 1..Len(ranked) : ranked[k] \in eligible
      /\ \A c \in eligible : \E k \in 1..Len(ranked) : ranked[k] = c
      /\ \A j, k \in 1..Len(ranked) : j < k <=> <<ranked[j], ranked[k]>> \in Preferred(eligible, score)
  BY <1>5, <1>6, RankingOrders DEF ranked
<1>8. \A j, k \in 1..Len(ranked) : j < k <=> Prefers(ranked[j], ranked[k], score)
  BY <1>6, <1>7
<1>9. /\ IsList(listed)
      /\ \A k \in 1..Len(listed) : listed[k] \in others
      /\ \A j, k \in 1..Len(listed) : j < k <=> <<listed[j], listed[k]>> \in Preferred(others, score)
  BY <1>5, <1>6, RankingOrders DEF listed
<1>10. policy.fallbacks \in Nat
  BY PolicyBounds
<1>11. /\ IsList(fallbacks) /\ Len(fallbacks) = IF Len(listed) < policy.fallbacks THEN Len(listed) ELSE policy.fallbacks
       /\ \A k \in 1..Len(fallbacks) : fallbacks[k] = listed[k]
  BY <1>9, <1>10, UpToOf DEF fallbacks
<1>12. \A k \in 1..Len(fallbacks) : k \in 1..Len(listed)
  BY <1>9, <1>10, <1>11 DEF IsList
<1>13. \A i \in 1..Len(fallbacks) : fallbacks[i] \in eligible /\ fallbacks[i] # ranked[1]
  BY <1>3, <1>9, <1>11, <1>12
<1>14. \A i, j \in 1..Len(fallbacks) : i < j => Prefers(fallbacks[i], fallbacks[j], score)
  BY <1>6, <1>9, <1>11, <1>12
<1>15. /\ DOMAIN d.reasons = DOMAIN health
       /\ \A c \in DOMAIN health : d.reasons[c] = RejectionReasons(c, request, policy, health[c])
       /\ eligible = Eligible(d) /\ score = Scores(policy, health)
  BY <1>1, <1>2, <1>3 DEF Eligible, Scores, score
<1>16. /\ IsList(d.fallbacks)
       /\ \A i \in 1..Len(d.fallbacks) : d.fallbacks[i] \in eligible /\ d.fallbacks[i] # d.ranked[1]
       /\ \A i, j \in 1..Len(d.fallbacks) : i < j => Prefers(d.fallbacks[i], d.fallbacks[j], score)
  BY <1>1, <1>11, <1>13, <1>14
<1>17. /\ IsList(d.ranked) /\ Len(d.ranked) = Cardinality(eligible)
       /\ \A k \in 1..Len(d.ranked) : d.ranked[k] \in eligible
       /\ \A c \in eligible : \E k \in 1..Len(d.ranked) : d.ranked[k] = c
       /\ \A j, k \in 1..Len(d.ranked) : j < k <=> Prefers(d.ranked[j], d.ranked[k], score)
  BY <1>1, <1>7, <1>8
<1>18. InOrder(d, Scores(policy, health))
  BY <1>15, <1>16, <1>17 DEF InOrder
<1> QED BY <1>15, <1>18 DEF d

(* validate_decision accepts what select_route returns.                     *)
LEMMA DecisionIsValid ==
  ASSUME NEW request, NEW policy \in Policies, NEW health, Healthy(health)
  PROVE  ValidDecision(SelectRoute(request, policy, health))
<1> DEFINE d == SelectRoute(request, policy, health)
           score == Scores(policy, health)
           eligible == Eligible(d)
           ranked == d.ranked
           fallbacks == d.fallbacks
           Place(c) == {k \in 2..Len(ranked) : ranked[k] = c}
<1>1. /\ IsList(ranked) /\ Len(ranked) = Cardinality(eligible)
      /\ \A k \in 1..Len(ranked) : ranked[k] \in eligible
      /\ \A c \in eligible : \E k \in 1..Len(ranked) : ranked[k] = c
      /\ \A j, k \in 1..Len(ranked) : j < k <=> Prefers(ranked[j], ranked[k], score)
      /\ IsList(fallbacks)
      /\ \A i \in 1..Len(fallbacks) : fallbacks[i] \in eligible /\ fallbacks[i] # ranked[1]
      /\ \A i, j \in 1..Len(fallbacks) : i < j => Prefers(fallbacks[i], fallbacks[j], score)
  <2>1. InOrder(d, score)
    BY Selected
  <2> HIDE DEF d, score
  <2> QED BY <2>1 DEF InOrder
<1>2. ValidDecision(d) <=>
        /\ Range(ranked) = eligible /\ Len(ranked) = Cardinality(eligible)
        /\ \A i \in DOMAIN fallbacks : Place(fallbacks[i]) # {}
        /\ \A i, j \in DOMAIN fallbacks : i < j =>
             \A k \in Place(fallbacks[i]), l \in Place(fallbacks[j]) : k < l
  BY DEF ValidDecision, Eligible
<1> HIDE DEF d, ranked, fallbacks, eligible, score
<1>3. DOMAIN ranked = 1..Len(ranked) /\ Len(ranked) \in Nat /\ DOMAIN fallbacks = 1..Len(fallbacks)
  BY <1>1 DEF IsList
<1>4. Range(ranked) = eligible
  BY <1>1, <1>3 DEF Range
<1>5. \A c : Place(c) \subseteq 1..Len(ranked) /\ \A k \in Place(c) : ranked[k] = c
  BY <1>3
<1>6. \A i \in 1..Len(fallbacks) : Place(fallbacks[i]) # {}
  <2> SUFFICES ASSUME NEW i \in 1..Len(fallbacks) PROVE \E k \in Place(fallbacks[i]) : TRUE
    OBVIOUS
  <2>1. PICK k \in 1..Len(ranked) : ranked[k] = fallbacks[i]
    BY <1>1
  <2>2. k # 1
    BY <1>1, <2>1
  <2>3. k \in Place(fallbacks[i])
    BY <1>3, <2>1, <2>2
  <2> QED BY <2>3
<1> HIDE DEF Place
<1>7. \A i, j \in 1..Len(fallbacks) : i < j =>
        \A k \in Place(fallbacks[i]), l \in Place(fallbacks[j]) : k < l
  BY <1>1, <1>5
<1>8. ValidDecision(d)
  BY <1>1, <1>2, <1>3, <1>4, <1>6, <1>7
<1> QED BY <1>8 DEF d

-----------------------------------------------------------------------------
(* Candidates compared by their outcomes.                                   *)

Wins(rows) == Cardinality({o \in Range(rows) : o.kind = "success"})
Latencies(rows) == {o.latency : o \in Range(rows)}
Assumed(c, rows) == IF rows = <<>> \/ 0 \in Latencies(rows) THEN {Profile[c].latency} ELSE {}
Within(rows, limit) == Cardinality({o \in Range(rows) : o.latency <= limit})

Faster(c, x, d, y) ==
  \/ \A l \in (Latencies(x) \ {0}) \cup Assumed(c, x), m \in (Latencies(y) \ {0}) \cup Assumed(d, y) : l <= m
  \/ /\ Assumed(c, x) \cup Assumed(d, y) = {}
     /\ \A limit \in Latencies(y) : Within(x, limit) >= Within(y, limit)

(* Outcomes are counted once, as rows or as indices.                        *)
LEMMA RowsAndIndices ==
  ASSUME NEW rows, Kept(rows), Differ(rows, Len(rows))
  PROVE  /\ Wins(rows) = CountOf(rows, "success")
         /\ \A l : Within(rows, l) = Cardinality({i \in 1..Len(rows) : rows[i].latency <= l})
<1> DEFINE n == Len(rows)
<1>1. n \in Nat /\ DOMAIN rows = 1..n /\ Differ(rows, n)
  BY DEF Kept, IsList
<1>2. Wins(rows) = CountOf(rows, "success")
  <2> DEFINE P == {o \in Range(rows) : o.kind = "success"}
             I == {i \in 1..n : rows[i].kind = "success"}
  <2>1. At(P, rows, I) /\ I \subseteq 1..n
    BY <1>1 DEF At, Range
  <2>2. Wins(rows) = Cardinality(P) /\ CountOf(rows, "success") = Cardinality(I)
    BY DEF Wins, CountOf
  <2> HIDE DEF P, I, n
  <2>3. IsFiniteSet(P) /\ Cardinality(P) = Cardinality(I) /\ Cardinality(I) \in Nat
    BY <1>1, <2>1, RowsCounted
  <2> QED BY <2>2, <2>3
<1>3. ASSUME NEW l PROVE Within(rows, l) = Cardinality({i \in 1..n : rows[i].latency <= l})
  <2> DEFINE P == {o \in Range(rows) : o.latency <= l}
             I == {i \in 1..n : rows[i].latency <= l}
  <2>1. At(P, rows, I) /\ I \subseteq 1..n
    BY <1>1 DEF At, Range
  <2>2. Within(rows, l) = Cardinality(P)
    BY DEF Within
  <2> HIDE DEF P, I, n
  <2>3. IsFiniteSet(P) /\ Cardinality(P) = Cardinality(I) /\ Cardinality(I) \in Nat
    BY <1>1, <2>1, RowsCounted
  <2>4. Within(rows, l) = Cardinality(I)
    BY <2>2, <2>3
  <2> QED BY <2>4 DEF I
<1> QED BY <1>2, <1>3

(* The latency the engine goes by is one that was observed and is not 0, or *)
(* the profile's.                                                           *)
LEMMA LatencyIsCounted ==
  ASSUME NEW c \in Candidates, NEW rows, Kept(rows), NEW policy \in Policies, NEW at \in Nat
  PROVE  LET h == HealthSnapshot(rows, policy, at)
         IN /\ EffectiveLatency(Profile[c], h) \in (Latencies(rows) \ {0}) \cup Assumed(c, rows)
            /\ Assumed(c, rows) = {} =>
                 /\ Len(rows) > 0 /\ EffectiveLatency(Profile[c], h) = h.p95
                 /\ h.p95 \in Latencies(rows) /\ h.p95 \in Nat /\ Percentile(rows, h.p95)
<1> DEFINE h == HealthSnapshot(rows, policy, at)
           e == EffectiveLatency(Profile[c], h)
<1>1. Len(rows) \in Nat /\ DOMAIN rows = 1..Len(rows)
  BY DEF Kept, IsList
<1>2. CASE Len(rows) = 0
  <2>1. rows = <<>>
    BY <1>2, ListEmpty DEF Kept
  <2>2. h.p95 = None
    BY <1>2, SnapshotOfNone
  <2>3. e = Profile[c].latency
    <3> HIDE DEF h
    <3> QED BY <2>2 DEF EffectiveLatency
  <2>4. Assumed(c, rows) = {Profile[c].latency}
    BY <2>1 DEF Assumed
  <2> HIDE DEF h, e
  <2>5. e \in Assumed(c, rows) /\ Assumed(c, rows) # {}
    BY <2>3, <2>4
  <2> QED BY <2>5 DEF h, e
<1>3. CASE Len(rows) # 0
  <2>1. \E i \in 1..Len(rows) : h.p95 = rows[i].latency /\ Percentile(rows, h.p95)
    <3>1. Len(rows) > 0
      BY <1>1, <1>3
    <3> QED BY <3>1, SnapshotOf, Zenon
  <2> HIDE DEF h
  <2>2. PICK i \in 1..Len(rows) : h.p95 = rows[i].latency /\ Percentile(rows, h.p95)
    BY <2>1
  <2>3. h.p95 \in Latencies(rows)
    BY <1>1, <2>2 DEF Latencies, Range
  <2>4. h.p95 \in Nat /\ h.p95 # None /\ Len(rows) > 0
    BY <1>1, <1>3, <2>2, RoutingNone DEF Kept, Sample
  <2>5. e = IF h.p95 = 0 THEN Profile[c].latency ELSE h.p95
    BY <2>4 DEF EffectiveLatency
  <2>6. h.p95 = 0 => Assumed(c, rows) = {Profile[c].latency}
    BY <2>3 DEF Assumed
  <2> HIDE DEF e
  <2>7. e \in (Latencies(rows) \ {0}) \cup Assumed(c, rows)
    BY <2>3, <2>5, <2>6
  <2>8. Assumed(c, rows) = {} => e = h.p95
    BY <2>5, <2>6
  <2> QED BY <2>2, <2>3, <2>4, <2>7, <2>8 DEF h, e
<1> QED BY <1>2, <1>3

(* Being as fast makes the latency assumed as low.                          *)
LEMMA LatencyGrows ==
  ASSUME NEW c \in Candidates, NEW d \in Candidates, NEW policy \in Policies, NEW at \in Nat,
         NEW x, Kept(x), Differ(x, Len(x)), NEW y, Kept(y), Differ(y, Len(y)),
         Len(x) = Len(y), Faster(c, x, d, y)
  PROVE  EffectiveLatency(Profile[c], HealthSnapshot(x, policy, at))
           <= EffectiveLatency(Profile[d], HealthSnapshot(y, policy, at))
<1> DEFINE g == HealthSnapshot(x, policy, at)
           h == HealthSnapshot(y, policy, at)
           a == EffectiveLatency(Profile[c], g)
           b == EffectiveLatency(Profile[d], h)
<1>1. /\ a \in (Latencies(x) \ {0}) \cup Assumed(c, x)
      /\ Assumed(c, x) = {} => /\ Len(x) > 0 /\ a = g.p95 /\ g.p95 \in Latencies(x) /\ g.p95 \in Nat
                               /\ Percentile(x, g.p95)
  BY LatencyIsCounted
<1>2. /\ b \in (Latencies(y) \ {0}) \cup Assumed(d, y)
      /\ Assumed(d, y) = {} => /\ Len(y) > 0 /\ b = h.p95 /\ h.p95 \in Latencies(y) /\ h.p95 \in Nat
                               /\ Percentile(y, h.p95)
  BY LatencyIsCounted
<1> HIDE DEF a, b, g, h
<1>3. CASE \A l \in (Latencies(x) \ {0}) \cup Assumed(c, x),
              m \in (Latencies(y) \ {0}) \cup Assumed(d, y) : l <= m
  <2>1. a <= b
    BY <1>1, <1>2, <1>3
  <2> QED BY <2>1 DEF a, b, g, h
<1>4. CASE /\ Assumed(c, x) \cup Assumed(d, y) = {}
           /\ \A limit \in Latencies(y) : Within(x, limit) >= Within(y, limit)
  <2>1. Assumed(c, x) = {} /\ Assumed(d, y) = {}
    BY <1>4
  <2>2. /\ a \in Nat /\ b \in Nat /\ b \in Latencies(y) /\ Percentile(x, a) /\ Percentile(y, b)
    BY <1>1, <1>2, <2>1
  <2> DEFINE n == Len(x)
             rank == (n * 95 + 99) \div 100
             L == {i \in 1..n : x[i].latency < a}
             M == {i \in 1..n : x[i].latency <= b}
             N == {i \in 1..n : y[i].latency <= b}
  <2>3. Cardinality(L) < rank /\ Cardinality(N) >= rank
    BY <2>2 DEF Percentile
  <2>4. Within(x, b) = Cardinality(M) /\ Within(y, b) = Cardinality(N)
    BY RowsAndIndices
  <2>5. n \in Nat /\ \A i \in 1..n : x[i].latency \in Nat
    BY DEF Kept, IsList, Sample
  <2>6. L \subseteq 1..n /\ M \subseteq 1..n /\ N \subseteq 1..n
    OBVIOUS
  <2>7. b < a => M \subseteq L
    BY <2>2, <2>5
  <2>8. rank \in Nat
    <3>1. n * 95 + 99 \in Nat
      BY <2>5
    <3> QED BY <3>1, Quotient
  <2> HIDE DEF L, M, N, rank, n
  <2>9. IsFiniteSet(L) /\ Cardinality(L) \in Nat /\ Cardinality(M) \in Nat /\ Cardinality(N) \in Nat
    BY <2>5, <2>6, IndicesFinite
  <2>10. Cardinality(M) >= Cardinality(N)
    BY <1>4, <2>2, <2>4
  <2>11. b < a => Cardinality(M) <= Cardinality(L)
    BY <2>7, <2>9, FS_Subset
  <2>12. a <= b
    BY <2>2, <2>3, <2>8, <2>9, <2>10, <2>11
  <2> QED BY <2>12 DEF a, b, g, h
<1> QED BY <1>3, <1>4 DEF Faster

Better(c, x, d, y) ==
  /\ Profile[c].success >= Profile[d].success /\ Profile[c].weight = Profile[d].weight
  /\ Len(x) = Len(y) /\ Wins(x) >= Wins(y)
  /\ Faster(c, x, d, y)
  /\ Profile[c].cost <= Profile[d].cost /\ Profile[c].priority < Profile[d].priority

(* Being better gives at least as good a score.                             *)
LEMMA BetterScores ==
  ASSUME NEW c \in Candidates, NEW d \in Candidates, NEW policy \in Policies, NEW at \in Nat,
         NEW x, Kept(x), Differ(x, Len(x)), NEW y, Kept(y), Differ(y, Len(y)),
         Better(c, x, d, y)
  PROVE  WeightedScore(d, policy, HealthSnapshot(y, policy, at))
           <= WeightedScore(c, policy, HealthSnapshot(x, policy, at))
<1> DEFINE g == HealthSnapshot(x, policy, at)
           h == HealthSnapshot(y, policy, at)
<1>1. Sound(g) /\ Sound(h)
  BY SnapshotIsSound
<1>2. EffectiveLatency(Profile[c], g) <= EffectiveLatency(Profile[d], h)
  BY LatencyGrows DEF Better
<1>3. Len(x) \in Nat /\ Len(x) = Len(y) /\ Wins(x) = CountOf(x, "success") /\ Wins(y) = CountOf(y, "success")
  BY RowsAndIndices DEF Better, Kept, IsList
<1>4. g.samples = h.samples /\ g.success >= h.success
  <2>1. CASE Len(x) = 0
    <3>1. g.samples = 0 /\ g.success = 0 /\ h.samples = 0 /\ h.success = 0
      BY <1>3, <2>1, SnapshotOfNone
    <3> HIDE DEF g, h
    <3> QED BY <3>1
  <2>2. CASE Len(x) # 0
    <3>1. Len(x) > 0 /\ Len(y) > 0
      BY <1>3, <2>2
    <3>2. /\ g.samples = Len(x) /\ g.success = CountOf(x, "success")
          /\ h.samples = Len(y) /\ h.success = CountOf(y, "success")
      BY <3>1, SnapshotOf, Zenon
    <3>3. Wins(x) >= Wins(y)
      BY DEF Better
    <3> HIDE DEF g, h
    <3> QED BY <1>3, <3>2, <3>3
  <2> QED BY <2>1, <2>2
<1> HIDE DEF g, h
<1>5. EffectiveSuccess(Profile[d], h) <= EffectiveSuccess(Profile[c], g)
  BY <1>1, <1>4, SuccessGrows DEF Better
<1>6. Profile[c].cost <= Profile[d].cost
  BY DEF Better
<1>7. WeightedScore(d, policy, h) <= WeightedScore(c, policy, g)
  BY <1>1, <1>2, <1>5, <1>6, ScoreGrows
<1> QED BY <1>7 DEF g, h

-----------------------------------------------------------------------------
(* What the store holds and what a plan was routed on.                      *)

OutcomesOk ==
  /\ now \in Nat
  /\ IsFiniteSet(pending) /\ \A o \in pending : Sample(o)
  /\ IsList(outcomes) /\ \A i \in 1..Len(outcomes) : Sample(outcomes[i])
  /\ \A i, j \in 1..Len(outcomes) : outcomes[i].event = outcomes[j].event => i = j

ReadOk(rows, table, policy) ==
  /\ DOMAIN rows \subseteq Candidates /\ DOMAIN table = DOMAIN rows
  /\ \A c \in DOMAIN rows : Samples(table[c]) /\ Newest(rows[c], table[c], policy.window)

HealthOf(rows, policy, at) == [c \in DOMAIN rows |-> HealthSnapshot(rows[c], policy, at)]

RoutedOk(r) ==
  /\ r.policy \in Policies /\ r.at \in Nat /\ ReadOk(r.rows, r.table, r.policy)
  /\ \E command \in Commands :
       r.decision = SelectRoute(command, r.policy, HealthOf(r.rows, r.policy, r.at))

RoutesOk(routed) == IsList(routed) /\ \A i \in 1..Len(routed) : RoutedOk(routed[i])

Carrying == {"clock", "health", "built", "binding", "asking", "frozen"}

HistoryOk(p) ==
  /\ p.phase = "health" => p.at \in Nat /\ ReadOk(p.rows, p.table, p.policy)
  /\ p.phase \in Carrying => RoutesOk(p.routed)
  /\ p.phase = "failed" => p.code # "invalid_route_model"

HistoryInv == OutcomesOk /\ HistoryOk(plan)

(* Recording outcomes keeps the store in order.                             *)
LEMMA OutcomesStay ==
  ASSUME OutcomesOk, RoutingNext
  PROVE  OutcomesOk'
<1>1. ASSUME NEW a \in Attempts, NEW shared \in BOOLEAN, IssueOutcome(a, shared) PROVE OutcomesOk'
  <2> DEFINE issued == Cardinality(pending) + Len(outcomes)
             o == [event |-> IF shared THEN issued ELSE issued + 1, candidate |-> a.candidate,
                   kind |-> a.kind, latency |-> a.latency, at |-> now]
  <2>1. issued \in Nat
    BY FS_CardinalityType DEF OutcomesOk, IsList
  <2>2. pending' = pending \cup {o} /\ now' = now /\ outcomes' = outcomes
    BY <1>1 DEF IssueOutcome
  <2>3. a.kind \in OutcomeKinds /\ a.latency \in Nat
    BY AttemptsAssumption
  <2> HIDE DEF issued
  <2>4. Sample(o)
    BY <2>1, <2>3 DEF Sample, OutcomesOk
  <2> HIDE DEF o
  <2>5. IsFiniteSet(pending')
    BY <2>2, FS_AddElement DEF OutcomesOk
  <2> QED BY <2>2, <2>4, <2>5 DEF OutcomesOk
<1>2. ASSUME NEW o \in pending, AppendOutcome(o) PROVE OutcomesOk'
  <2>1. pending' = pending \ {o} /\ now' = now /\ Sample(o)
    BY <1>2 DEF AppendOutcome, OutcomesOk
  <2>2. IsFiniteSet(pending') /\ \A q \in pending' : Sample(q)
    BY <2>1, FS_Subset DEF OutcomesOk
  <2>3. CASE outcomes' = outcomes
    BY <2>1, <2>2, <2>3 DEF OutcomesOk
  <2>4. CASE outcomes' # outcomes
    <3>1. outcomes' = Append(outcomes, o) /\ ~\E i \in DOMAIN outcomes : outcomes[i].event = o.event
      BY <1>2, <2>4 DEF AppendOutcome
    <3>2. IsList(outcomes) /\ Len(outcomes) \in Nat /\ DOMAIN outcomes = 1..Len(outcomes)
      BY DEF OutcomesOk, IsList
    <3>3. /\ IsList(outcomes') /\ Len(outcomes') = Len(outcomes) + 1
          /\ \A k \in 1..Len(outcomes) : outcomes'[k] = outcomes[k]
          /\ outcomes'[Len(outcomes) + 1] = o
      BY <3>1, <3>2, AppendList
    <3>4. \A k \in 1..Len(outcomes') : k \in 1..Len(outcomes) \/ k = Len(outcomes) + 1
      BY <3>2, <3>3
    <3>5. \A k \in 1..Len(outcomes') : Sample(outcomes'[k])
      BY <2>1, <3>3, <3>4 DEF OutcomesOk
    <3>6. \A i, j \in 1..Len(outcomes') : outcomes'[i].event = outcomes'[j].event => i = j
      BY <3>1, <3>2, <3>3, <3>4 DEF OutcomesOk
    <3> QED BY <2>1, <2>2, <3>3, <3>5, <3>6 DEF OutcomesOk
  <2> QED BY <2>3, <2>4
<1>3. ASSUME NEW o \in pending, AppendFails(o) PROVE OutcomesOk'
  <2>1. pending' = pending \ {o} /\ now' = now /\ outcomes' = outcomes
    BY <1>3 DEF AppendFails
  <2>2. IsFiniteSet(pending') /\ \A q \in pending' : Sample(q)
    BY <2>1, FS_Subset DEF OutcomesOk
  <2> QED BY <2>1, <2>2 DEF OutcomesOk
<1>4. CASE Tick
  BY <1>4 DEF Tick, OutcomesOk
<1> QED BY <1>1, <1>2, <1>3, <1>4 DEF RoutingNext

(* The recorded outcomes of a candidate are samples.                        *)
LEMMA RecordedSamples ==
  ASSUME OutcomesOk, NEW c
  PROVE  Samples(Recorded(c))
<1> DEFINE n == Len(outcomes)
           I == 1..n
           P == Range(outcomes)
<1>1. n \in Nat /\ DOMAIN outcomes = 1..n /\ Differ(outcomes, n)
  BY DEF OutcomesOk, IsList, Differ
<1>2. At(P, outcomes, I) /\ I \subseteq 1..n
  BY <1>1 DEF At, Range
<1>3. Recorded(c) \subseteq P /\ \A o \in P : \E i \in 1..n : o = outcomes[i]
  BY <1>1 DEF Recorded, Range
<1> HIDE DEF P, I, n
<1>4. IsFiniteSet(P) /\ Cardinality(P) = Cardinality(I) /\ Cardinality(I) \in Nat
  BY <1>1, <1>2, RowsCounted
<1>5. IsFiniteSet(Recorded(c))
  BY <1>3, <1>4, FS_Subset
<1>6. /\ \A o \in Recorded(c) : Sample(o)
      /\ \A o, p \in Recorded(c) : o.event = p.event => o = p
  BY <1>3 DEF OutcomesOk, n
<1> QED BY <1>5, <1>6 DEF Samples

(* The latest rows are rows to derive a health from.                        *)
LEMMA NewestKept ==
  ASSUME NEW T, Samples(T), NEW limit, NEW rows, Newest(rows, T, limit)
  PROVE  Kept(rows) /\ Differ(rows, Len(rows))
BY NewestDiffer DEF Kept, Differ, Newest

(* The health of what was read is sound.                                    *)
LEMMA HealthIsSound ==
  ASSUME NEW policy \in Policies, NEW at \in Nat, NEW rows, NEW table, ReadOk(rows, table, policy)
  PROVE  Healthy(HealthOf(rows, policy, at))
<1>1. ASSUME NEW c \in DOMAIN rows PROVE Sound(HealthSnapshot(rows[c], policy, at))
  <2>1. Kept(rows[c])
    BY NewestKept DEF ReadOk
  <2> QED BY <2>1, SnapshotIsSound
<1>2. DOMAIN HealthOf(rows, policy, at) = DOMAIN rows
      /\ \A c \in DOMAIN rows : HealthOf(rows, policy, at)[c] = HealthSnapshot(rows[c], policy, at)
  BY DEF HealthOf
<1> QED BY <1>1, <1>2 DEF Healthy, ReadOk

(* A plan that failed for another reason satisfies the invariant.           *)
LEMMA FailedHistoryOk ==
  ASSUME NEW code, code # "invalid_route_model"
  PROVE  HistoryOk([phase |-> "failed", code |-> code])
BY DEF HistoryOk, Carrying

(* Without routed steps there is nothing to say of them.                    *)
LEMMA NoRoutes == RoutesOk(<<>>)
BY EmptyList DEF RoutesOk

(* Reading the health of one candidate more.                                *)
LEMMA OneMoreRead ==
  ASSUME NEW policy \in Policies, NEW rows, NEW table, ReadOk(rows, table, policy),
         NEW c \in Candidates, NEW T, Samples(T), NEW new, Newest(new, T, policy.window)
  PROVE  ReadOk(With(rows, c, new), With(table, c, T), policy)
<1> DEFINE x == With(rows, c, new)
           y == With(table, c, T)
<1>1. /\ DOMAIN x = DOMAIN rows \cup {c} /\ DOMAIN y = DOMAIN table \cup {c}
      /\ \A d \in DOMAIN x : x[d] = IF d = c THEN new ELSE rows[d]
      /\ \A d \in DOMAIN y : y[d] = IF d = c THEN T ELSE table[d]
  BY DEF With
<1> HIDE DEF x, y
<1>2. ReadOk(x, y, policy)
  BY <1>1 DEF ReadOk
<1> QED BY <1>2 DEF x, y

(* Building a plan keeps the invariant: whatever was recorded, health and   *)
(* decision are accepted.                                                   *)
LEMMA BuildKeepsHistory ==
  ASSUME OutcomesOk, HistoryOk(plan), PlanOk(plan), BuildNext
  PROVE  HistoryOk(plan')
<1>1. ASSUME NEW command \in Commands, StaticBuild(command) PROVE HistoryOk(plan')
  <2>1. \/ plan' = [phase |-> "failed", code |-> "capability_not_available"]
        \/ plan'.phase = "built" /\ plan'.routed = <<>>
    BY <1>1 DEF StaticBuild, Fail, Built
  <2>2. CASE plan'.phase = "built" /\ plan'.routed = <<>>
    BY <2>2, NoRoutes DEF HistoryOk
  <2> QED BY <2>1, <2>2, FailedHistoryOk
<1>2. ASSUME NEW command \in Commands, BookingBuild(command) PROVE HistoryOk(plan')
  <2>1. \/ plan' = [phase |-> "failed", code |-> "planning_failed"]
        \/ plan'.phase = "built" /\ plan'.routed = <<>>
    BY <1>2 DEF BookingBuild, Fail, Built
  <2>2. CASE plan'.phase = "built" /\ plan'.routed = <<>>
    BY <2>2, NoRoutes DEF HistoryOk
  <2> QED BY <2>1, <2>2, FailedHistoryOk
<1>3. ASSUME NEW command \in Commands, NEW policy \in Policies, RoutedBuild(command, policy)
      PROVE  HistoryOk(plan')
  <2>1. plan'.phase = "clock" /\ plan'.routed = <<>>
    BY <1>3 DEF RoutedBuild
  <2> QED BY <2>1, NoRoutes DEF HistoryOk
<1>4. CASE ReadClock
  <2>1. RoutesOk(plan.routed)
    BY <1>4 DEF ReadClock, HistoryOk, Carrying
  <2>2. /\ plan'.phase = "health" /\ plan'.routed = plan.routed /\ plan'.at = now
        /\ DOMAIN plan'.rows = {} /\ DOMAIN plan'.table = {}
    BY <1>4 DEF ReadClock
  <2>3. ReadOk(plan'.rows, plan'.table, plan'.policy)
    BY <2>2 DEF ReadOk
  <2> QED BY <2>1, <2>2, <2>3 DEF HistoryOk, OutcomesOk
<1>5. ASSUME NEW c \in Candidates, ReadHealth(c) PROVE HistoryOk(plan')
  <2> DEFINE T == Recorded(c)
             new == Replay(c, plan.policy.window)
  <2>1. /\ plan.phase = "health" /\ plan.policy \in Policies /\ plan.at \in Nat
        /\ ReadOk(plan.rows, plan.table, plan.policy) /\ RoutesOk(plan.routed)
        /\ DOMAIN plan = HealthFields
    BY <1>5 DEF ReadHealth, HistoryOk, PlanOk, Carrying
  <2>2. Samples(T)
    BY RecordedSamples
  <2>3. Newest(new, T, plan.policy.window)
    <3>1. plan.policy.window \in Nat
      BY <2>1, PolicyBounds
    <3>2. new = UpTo(plan.policy.window, Ranking(T, Later(T)))
      BY DEF Replay
    <3> HIDE DEF new, T
    <3> QED BY <2>2, <3>1, <3>2, ReplayIsNewest
  <2>4. ValidSnapshot(HealthSnapshot(new, plan.policy, plan.at), plan.at)
    <3> HIDE DEF new, T
    <3>1. Kept(new)
      BY <2>2, <2>3, NewestKept
    <3> QED BY <2>1, <3>1, SnapshotIsValid
  <2>5. plan' = [plan EXCEPT !.rows = With(plan.rows, c, new), !.table = With(plan.table, c, T)]
    BY <1>5, <2>4 DEF ReadHealth
  <2> DEFINE x == With(plan.rows, c, new)
             y == With(plan.table, c, T)
  <2>6. ReadOk(x, y, plan.policy)
    <3> HIDE DEF new, T
    <3> QED BY <2>1, <2>2, <2>3, OneMoreRead
  <2>7. plan' = [plan EXCEPT !.rows = x, !.table = y]
    BY <2>5
  <2> HIDE DEF x, y, new, T
  <2>8. /\ plan'.phase = "health" /\ plan'.policy = plan.policy /\ plan'.at = plan.at
        /\ plan'.rows = x /\ plan'.table = y /\ plan'.routed = plan.routed
    BY <2>1, <2>7 DEF HealthFields
  <2> QED BY <2>1, <2>6, <2>8 DEF HistoryOk
<1>6. CASE Select
  <2> DEFINE command == plan.command
             health == HealthOf(plan.rows, plan.policy, plan.at)
             decision == SelectRoute(command, plan.policy, health)
             r == [policy |-> plan.policy, at |-> plan.at, rows |-> plan.rows,
                   table |-> plan.table, decision |-> decision]
  <2>1. /\ plan.phase = "health" /\ plan.policy \in Policies /\ plan.at \in Nat
        /\ ReadOk(plan.rows, plan.table, plan.policy) /\ RoutesOk(plan.routed)
        /\ plan.command \in Commands /\ DOMAIN plan.rows = Offering
    BY <1>6 DEF Select, HistoryOk, PlanOk, Carrying
  <2>2. Healthy(health)
    BY <2>1, HealthIsSound
  <2>3. DOMAIN health = DOMAIN plan.rows
    BY DEF HealthOf
  <2>4. \/ /\ plan' = [phase |-> "failed", code |-> "invalid_route_model"]
           /\ \/ \E c \in Offering : ~ValidEvaluation(c, plan.policy, health[c])
              \/ ~ValidDecision(decision)
        \/ plan' = [phase |-> "failed", code |-> "no_eligible_route"]
        \/ plan'.phase \in {"built", "clock"} /\ plan'.routed = Append(plan.routed, r)
    BY <1>6 DEF Select, Fail, HealthOf
  <2> HIDE DEF health
  <2>5. ValidDecision(decision)
    BY <2>1, <2>2, DecisionIsValid
  <2>6. \A c \in Offering : ValidEvaluation(c, plan.policy, health[c])
    BY <2>1, <2>2, <2>3, EvaluationIsValid DEF Healthy
  <2>7. CASE plan'.phase \in {"built", "clock"} /\ plan'.routed = Append(plan.routed, r)
    <3>1. /\ r.policy = plan.policy /\ r.at = plan.at /\ r.rows = plan.rows /\ r.table = plan.table
          /\ r.decision = SelectRoute(command, plan.policy, HealthOf(plan.rows, plan.policy, plan.at))
      BY DEF health
    <3> HIDE DEF r, decision
    <3>2. RoutedOk(r)
      BY <2>1, <3>1 DEF RoutedOk
    <3>3. /\ IsList(plan.routed) /\ Len(plan.routed) \in Nat
          /\ \A i \in 1..Len(plan.routed) : RoutedOk(plan.routed[i])
      BY <2>1 DEF RoutesOk, IsList
    <3>4. /\ IsList(plan'.routed) /\ Len(plan'.routed) = Len(plan.routed) + 1
          /\ \A k \in 1..Len(plan.routed) : plan'.routed[k] = plan.routed[k]
          /\ plan'.routed[Len(plan.routed) + 1] = r
      BY <2>7, <3>3, AppendList
    <3>5. \A k \in 1..Len(plan'.routed) : k \in 1..Len(plan.routed) \/ k = Len(plan.routed) + 1
      BY <3>3, <3>4
    <3>6. RoutesOk(plan'.routed)
      BY <3>2, <3>3, <3>4, <3>5 DEF RoutesOk
    <3> QED BY <2>7, <3>6 DEF HistoryOk
  <2> HIDE DEF r, decision
  <2> QED BY <2>4, <2>5, <2>6, <2>7, FailedHistoryOk
<1> QED BY <1>1, <1>2, <1>3, <1>4, <1>5, <1>6 DEF BuildNext

(* The policy leaves the routed steps alone.                                *)
LEMMA PolicyKeepsHistory ==
  ASSUME HistoryOk(plan), PlanOk(plan), PolicyNext
  PROVE  HistoryOk(plan')
<1>1. ASSUME plan.phase \in Carrying, plan'.phase \in {"binding", "asking", "frozen"},
             plan'.routed = plan.routed
      PROVE  HistoryOk(plan')
  BY <1>1 DEF HistoryOk
<1>2. ASSUME NEW code, code # "invalid_route_model", Fail(code) PROVE HistoryOk(plan')
  BY <1>2, FailedHistoryOk DEF Fail
<1>3. CASE SkipPolicy
  BY <1>1, <1>3 DEF SkipPolicy, Carrying
<1>4. ASSUME NEW provider \in {"embedded", "opa"}, BeginPolicy(provider) PROVE HistoryOk(plan')
  BY <1>1, <1>4 DEF BeginPolicy, Carrying
<1>5. CASE ReadBinding
  <2> DEFINE w == With(plan.digest, Current, Held(Current))
  <2>1. plan.phase = "binding" /\ plan' = [plan EXCEPT !.phase = "asking", !.digest = w]
    BY <1>5 DEF ReadBinding
  <2>2. DOMAIN plan = PolicyFields
    BY <2>1 DEF PlanOk, Collecting
  <2> HIDE DEF w
  <2>3. plan'.phase = "asking" /\ plan'.routed = plan.routed
    BY <2>1, <2>2 DEF PolicyFields
  <2> QED BY <1>1, <2>1, <2>3 DEF Carrying
<1>6. CASE ReadBindingFails
  BY <1>2, <1>6 DEF ReadBindingFails
<1>7. ASSUME NEW effect \in {"ALLOW", "REQUIRE_APPROVAL", "DENY"}, PolicyAnswers(effect)
      PROVE  HistoryOk(plan')
  <2>1. plan.phase = "asking" /\ DOMAIN plan = PolicyFields
    BY <1>7 DEF PolicyAnswers, PlanOk, Collecting
  <2>2. Fail("policy_denied") \/ Fail("compensation_approval_unsupported") \/ plan' = Decided(effect)
    BY <1>7 DEF PolicyAnswers
  <2>3. CASE plan' = Decided(effect)
    <3>1. plan'.phase = "binding" /\ plan'.routed = plan.routed
      BY <2>1, <2>3 DEF Decided, PolicyFields
    <3> QED BY <1>1, <2>1, <3>1 DEF Carrying
  <2> QED BY <1>2, <2>2, <2>3
<1>8. CASE PolicyUnavailable
  BY <1>2, <1>8 DEF PolicyUnavailable
<1>9. CASE Freeze
  <2>1. plan.phase = "binding"
    BY <1>9 DEF Freeze
  <2>2. Fail("policy_plan_invalid") \/ (plan'.phase = "frozen" /\ plan'.routed = plan.routed)
    BY <1>9 DEF Freeze
  <2> QED BY <1>1, <1>2, <2>1, <2>2 DEF Carrying
<1> QED BY <1>3, <1>4, <1>5, <1>6, <1>7, <1>8, <1>9 DEF PolicyNext

(* Every step keeps the invariant.                                          *)
LEMMA HistoryStays ==
  ASSUME HistoryInv, PlanInv, [PlanningNext]_planningAll
  PROVE  HistoryInv'
<1>1. CASE RoutingNext
  <2>1. UNCHANGED plan
    BY <1>1 DEF RoutingNext, planningVars
  <2> QED BY <1>1, <2>1, OutcomesStay DEF HistoryInv
<1>2. ASSUME UNCHANGED routingVars, HistoryOk(plan') PROVE HistoryInv'
  BY <1>2 DEF HistoryInv, OutcomesOk, routingVars
<1>3. CASE BuildNext
  <2>1. UNCHANGED routingVars
    BY <1>3 DEF BuildNext, StaticBuild, BookingBuild, RoutedBuild, ReadClock, ReadHealth, Select
  <2>2. HistoryOk(plan')
    BY <1>3, BuildKeepsHistory DEF HistoryInv, PlanInv
  <2> QED BY <1>2, <2>1, <2>2
<1>4. CASE PolicyNext
  <2>1. UNCHANGED routingVars
    BY <1>4 DEF PolicyNext, SkipPolicy, BeginPolicy, ReadBinding, ReadBindingFails,
                PolicyAnswers, PolicyUnavailable, Freeze
  <2>2. HistoryOk(plan')
    BY <1>4, PolicyKeepsHistory DEF HistoryInv, PlanInv
  <2> QED BY <1>2, <2>1, <2>2
<1>5. CASE BindingNext \/ UNCHANGED planningAll
  <2>1. UNCHANGED plan /\ UNCHANGED routingVars
    BY <1>5 DEF BindingNext, GetBinding, PutBinding, ReplaceBinding, Invoke,
                planningAll, planningVars
  <2>2. HistoryOk(plan')
    BY <2>1 DEF HistoryInv
  <2> QED BY <1>2, <2>1, <2>2
<1> QED BY <1>1, <1>3, <1>4, <1>5 DEF PlanningNext

(* The invariant holds in every reachable state.                            *)
LEMMA HistoryAlways == PlanningBehaviour => []HistoryInv
<1>1. PlanningInit => HistoryInv
  <2> SUFFICES ASSUME PlanningInit PROVE HistoryInv
    OBVIOUS
  <2>1. now = 0 /\ outcomes = <<>> /\ pending = {} /\ plan = [phase |-> "new"]
    BY DEF PlanningInit, RoutingInit
  <2>2. OutcomesOk
    BY <2>1, EmptyList, FS_EmptySet DEF OutcomesOk
  <2>3. HistoryOk(plan)
    BY <2>1 DEF HistoryOk, Carrying
  <2> QED BY <2>2, <2>3 DEF HistoryInv
<1> QED BY <1>1, HistoryStays, PlanAlways, PTL DEF PlanningBehaviour

(* No history of outcomes makes planning fail: whatever was recorded, in    *)
(* whatever order, for whatever policies, weights and profiles, the health  *)
(* derived from it and the decision made on it are within the bounds of the *)
(* models that carry them (validate_counts, validate_evaluation,            *)
(* validate_decision).                                                      *)
THEOREM HistoriesAreAccepted == PlanningBehaviour => []HistoryNeverBlocksPlanning
<1>1. HistoryInv => HistoryNeverBlocksPlanning
  BY DEF HistoryInv, HistoryOk, HistoryNeverBlocksPlanning
<1> QED BY <1>1, HistoryAlways, PTL

(* The reason circuit_open is given exactly for the status UNAVAILABLE.     *)
LEMMA CircuitReason ==
  ASSUME NEW c, NEW request, NEW policy, NEW h
  PROVE  "circuit_open" \in RejectionReasons(c, request, policy, h) <=> h.status = "UNAVAILABLE"
BY DEF RejectionReasons

(* A circuit is open exactly when the latest outcomes by occurrence, of     *)
(* those recorded when the health was read, are failures enough and recent: *)
(* for any order of arrival, any number of outcomes and any policy.         *)
THEOREM CircuitsFollowOccurrence == PlanningBehaviour => []CircuitFollowsOccurrence
<1>1. HistoryInv => CircuitFollowsOccurrence
  <2> SUFFICES ASSUME HistoryInv, plan.phase \in {"built", "frozen"},
                      NEW i \in 1..Len(plan.routed), NEW c \in DOMAIN plan.routed[i].rows
               PROVE  LET r == plan.routed[i]
                          rows == r.table[c]
                          Failing(S) == \A o \in S : o.kind # "success"
                          Latest(S) == \A o \in S, p \in rows \ S :
                            p.at < o.at \/ (p.at = o.at /\ p.event < o.event)
                          open == /\ Cardinality(rows) >= r.policy.minSamples
                                  /\ \E S \in SUBSET rows :
                                       /\ Cardinality(S) = r.policy.threshold /\ Failing(S) /\ Latest(S)
                                       /\ \E o \in S : o.at + r.policy.cooldown > r.at
                          wide == /\ r.policy.window >= r.policy.minSamples
                                  /\ r.policy.window >= r.policy.threshold
                      IN ("circuit_open" \in r.decision.reasons[c]) <=> (wide /\ open)
    BY DEF CircuitFollowsOccurrence
  <2> DEFINE r == plan.routed[i]
             T == r.table[c]
             policy == r.policy
             at == r.at
             health == HealthOf(r.rows, policy, at)
  <2>1. RoutedOk(r)
    BY DEF HistoryInv, HistoryOk, RoutesOk, Carrying
  <2>2. /\ policy \in Policies /\ at \in Nat /\ ReadOk(r.rows, r.table, policy)
        /\ Samples(T) /\ Newest(r.rows[c], T, policy.window)
    BY <2>1 DEF RoutedOk, ReadOk
  <2>3. PICK command \in Commands : r.decision = SelectRoute(command, policy, health)
    BY <2>1 DEF RoutedOk
  <2>4. c \in DOMAIN health /\ health[c] = HealthSnapshot(r.rows[c], policy, at)
    BY DEF HealthOf
  <2>5. Healthy(health)
    BY <2>2, HealthIsSound
  <2> HIDE DEF health
  <2>6. r.decision.reasons[c] = RejectionReasons(c, command, policy, health[c])
    BY <2>2, <2>3, <2>4, <2>5, Selected
  <2>7. "circuit_open" \in r.decision.reasons[c] <=>
          HealthSnapshot(r.rows[c], policy, at).status = "UNAVAILABLE"
    BY <2>4, <2>6, CircuitReason
  <2>8. (HealthSnapshot(r.rows[c], policy, at).status = "UNAVAILABLE") <=>
          /\ policy.window >= policy.minSamples /\ policy.window >= policy.threshold
          /\ Cardinality(T) >= policy.minSamples
          /\ \E S \in SUBSET T : OpenSet(T, S, policy, at)
    <3> HIDE DEF T, policy, at, r
    <3> QED BY <2>2, CircuitOpens
  <2>9. ASSUME NEW S \in SUBSET T
        PROVE  OpenSet(T, S, policy, at) <=>
                 /\ Cardinality(S) = policy.threshold /\ \A o \in S : o.kind # "success"
                 /\ \A o \in S, p \in T \ S : p.at < o.at \/ (p.at = o.at /\ p.event < o.event)
                 /\ \E o \in S : o.at + policy.cooldown > at
    <3>1. \A o \in S, p \in T \ S : Newer(o, p) <=> p.at < o.at \/ (p.at = o.at /\ p.event < o.event)
      <4>1. \A o \in T : o.at \in Nat /\ o.event \in Nat
        BY <2>2 DEF Samples, Sample
      <4> HIDE DEF T
      <4> QED BY <4>1 DEF Newer
    <3> HIDE DEF T, policy, at
    <3> QED BY <3>1 DEF OpenSet
  <2> QED BY <2>7, <2>8, <2>9, Zenon
<1> QED BY <1>1, HistoryAlways, PTL

(* A candidate that has done at least as well in every respect and has the  *)
(* better priority is ranked first, for any outcomes, weights and limits,   *)
(* whatever the rounding.                                                   *)
THEOREM BetterRoutesComeFirst == PlanningBehaviour => []RankingRespectsDominance
<1>1. HistoryInv => RankingRespectsDominance
  <2> SUFFICES ASSUME HistoryInv, plan.phase \in {"built", "frozen"},
                      NEW i \in 1..Len(plan.routed),
                      NEW j \in 1..Len(plan.routed[i].decision.ranked),
                      NEW k \in 1..Len(plan.routed[i].decision.ranked),
                      LET r == plan.routed[i]
                          c == r.decision.ranked[j]
                          d == r.decision.ranked[k]
                      IN Better(c, r.rows[c], d, r.rows[d])
               PROVE  j < k
    BY Zenon DEF RankingRespectsDominance, Better, Faster, Within, Assumed, Latencies, Wins
  <2> DEFINE r == plan.routed[i]
             policy == r.policy
             at == r.at
             health == HealthOf(r.rows, policy, at)
             score == Scores(policy, health)
             c == r.decision.ranked[j]
             d == r.decision.ranked[k]
             x == r.rows[c]
             y == r.rows[d]
  <2>1. RoutedOk(r)
    BY DEF HistoryInv, HistoryOk, RoutesOk, Carrying
  <2>2. policy \in Policies /\ at \in Nat /\ ReadOk(r.rows, r.table, policy)
    BY <2>1 DEF RoutedOk
  <2>3. PICK command \in Commands : r.decision = SelectRoute(command, policy, health)
    BY <2>1 DEF RoutedOk
  <2>4. DOMAIN health = DOMAIN r.rows
        /\ \A b \in DOMAIN r.rows : health[b] = HealthSnapshot(r.rows[b], policy, at)
    BY DEF HealthOf
  <2>5. Healthy(health)
    BY <2>2, HealthIsSound
  <2>6. /\ DOMAIN r.decision.reasons = DOMAIN health
        /\ InOrder(r.decision, score)
    <3> DEFINE D == SelectRoute(command, policy, health)
    <3> HIDE DEF health, policy
    <3>1. DOMAIN D.reasons = DOMAIN health /\ InOrder(D, score)
      BY <2>2, <2>5, Selected
    <3> HIDE DEF D, score, r
    <3>2. r.decision = D
      BY <2>3 DEF D
    <3> QED BY <3>1, <3>2
  <2>7. c \in DOMAIN r.rows /\ d \in DOMAIN r.rows
    BY <2>4, <2>6 DEF InOrder, Eligible
  <2>8. /\ c \in Candidates /\ d \in Candidates
        /\ Kept(x) /\ Differ(x, Len(x)) /\ Kept(y) /\ Differ(y, Len(y))
    BY <2>2, <2>7, NewestKept DEF ReadOk
  <2>9. Better(c, x, d, y)
    OBVIOUS
  <2>10. /\ score[c] = WeightedScore(c, policy, HealthSnapshot(x, policy, at))
         /\ score[d] = WeightedScore(d, policy, HealthSnapshot(y, policy, at))
    BY <2>4, <2>7 DEF Scores
  <2>11. score[c] \in Nat /\ score[d] \in Nat
    <3>1. \A b \in DOMAIN health : score[b] = WeightedScore(b, policy, health[b])
      BY DEF Scores
    <3> HIDE DEF health, score, c, d, policy
    <3>2. \A b \in DOMAIN health : WeightedScore(b, policy, health[b]) \in 0..Bps
      BY <2>2, <2>5, EvaluationIsValid DEF Healthy, ValidEvaluation
    <3>3. Bps \in Nat
      BY DEF Bps
    <3>4. \A b \in DOMAIN health : score[b] \in Nat
      BY <3>1, <3>2, <3>3
    <3> QED BY <2>4, <2>7, <3>4
  <2> HIDE DEF health, score
  <2>12. score[d] <= score[c]
    <3> HIDE DEF c, d, x, y, policy, at
    <3> QED BY <2>2, <2>8, <2>9, <2>10, BetterScores
  <2>13. Profile[c].priority < Profile[d].priority
    BY <2>9 DEF Better
  <2>14. Prefers(c, d, score)
    <3> HIDE DEF c, d
    <3> QED BY <2>11, <2>12, <2>13 DEF Prefers
  <2> QED BY <2>6, <2>14 DEF InOrder
<1> QED BY <1>1, HistoryAlways, PTL
=============================================================================
