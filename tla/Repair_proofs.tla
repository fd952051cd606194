------------------------------ MODULE Repair_proofs -----------------------------
(***************************************************************************)
(* Proofs about the repair of adapters: the attempts and the budget ledger *)
(* they share (RepairBudget, RepairSandbox), for any number of concurrent  *)
(* calls, requests, budgets and counters, and the release of a candidate   *)
(* (RepairLifecycle).                                                      *)
(***************************************************************************)
EXTENDS RepairSandbox, RepairLifecycle, FiniteSetTheorems, WellFoundedInduction, TLAPS

Labels == {"idle", "checked", "replayed", "reserved", "refused", "answered", "failing",
           "done", "failed", "dead"}

SandboxTypes ==
  /\ ledger \in [Ids -> Rows \cup {None}]
  /\ pc \in [Attempts -> Labels]
  /\ call \in [Attempts -> Calls \cup {None}]
  /\ invoked \subseteq Attempts
  /\ \A a \in Attempts : pc[a] = "idle" <=> call[a] = None

(* The row a call rests on once it has reserved, or found its reservation.  *)
Backed(a) ==
  /\ call[a] # None /\ ledger[call[a].id] # None
  /\ ledger[call[a].id].request = call[a].request
  /\ ledger[call[a].id].budget = call[a].budget
  /\ ledger[call[a].id].reserved = call[a].usage
  /\ Within(call[a].usage, LimitOf[call[a].budget])

(* A row is settled at all it reserved, or by a call that succeeded.        *)
Settled(i) == ledger[i].actual = ledger[i].reserved \/ Succeeded(i)

SandboxInv ==
  /\ SandboxTypes
  /\ \A a \in Attempts :
       a \in invoked \/ pc[a] \in {"reserved", "answered", "failing", "done", "failed"} => Backed(a)
  /\ \A i \in Ids : ledger[i] # None /\ ledger[i].status = "FINALIZED" => Settled(i)

(* A step of one call leaves the other calls alone.                         *)
LEMMA OthersStay ==
  ASSUME SandboxTypes, NEW a \in Attempts, NEW label \in Labels, Goto(a, label)
  PROVE  /\ pc' \in [Attempts -> Labels] /\ pc'[a] = label
         /\ \A b \in Attempts \ {a} : pc'[b] = pc[b]
BY DEF Goto, SandboxTypes

(* The facts of a call that does not take the step: its row keeps what it   *)
(* was reserved for.                                                        *)
LEMMA RowsKept ==
  ASSUME SandboxTypes, call' = call,
         \A i \in Ids : ledger[i] # None =>
           /\ ledger'[i] # None /\ ledger'[i].request = ledger[i].request
           /\ ledger'[i].budget = ledger[i].budget /\ ledger'[i].reserved = ledger[i].reserved
  PROVE  \A a \in Attempts : Backed(a) => Backed(a)'
<1> SUFFICES ASSUME NEW a \in Attempts, Backed(a) PROVE Backed(a)'
  OBVIOUS
<1>1. call[a].id \in Ids
  BY DEF Backed, SandboxTypes, Calls
<1> QED BY <1>1 DEF Backed, Within

(* An attempt that begins finds its row or reserves it: the invariant stays. *)
LEMMA BeginStep ==
  ASSUME SandboxInv, NEW a \in Attempts, NEW i \in Ids, NEW want \in Wants, Begin(a, i, want)
  PROVE  SandboxInv'
<1> DEFINE new == [id |-> i, request |-> want.request, budget |-> want.budget, usage |-> want.usage]
<1>1. /\ pc[a] = "idle" /\ call' = [call EXCEPT ![a] = new]
      /\ UNCHANGED <<ledger, invoked>>
      /\ Goto(a, "replayed") \/ Goto(a, "checked") \/ Goto(a, "refused")
  BY DEF Begin
<1>0. PICK label \in {"replayed", "checked", "refused"} : Goto(a, label)
  BY <1>1
<1>2. new \in Calls /\ new # None
  BY CallNone DEF Calls, Wants
<1> HIDE DEF new
<1>3. SandboxTypes
  BY DEF SandboxInv
<1>4. /\ pc' \in [Attempts -> Labels] /\ pc'[a] = label /\ \A b \in Attempts \ {a} : pc'[b] = pc[b]
  BY <1>0, <1>3, OthersStay DEF Labels
<1>5. /\ call' \in [Attempts -> Calls \cup {None}] /\ call'[a] = new /\ call[a] = None
      /\ \A b \in Attempts \ {a} : call'[b] = call[b]
  BY <1>1, <1>2, <1>3 DEF SandboxTypes
<1>6. SandboxTypes'
  BY <1>0, <1>1, <1>2, <1>3, <1>4, <1>5 DEF SandboxTypes, Labels
<1>7. ASSUME NEW b \in Attempts,
             b \in invoked' \/ pc'[b] \in {"reserved", "answered", "failing", "done", "failed"}
      PROVE  b # a /\ Backed(b)'
  <2>1. b # a
    <3>1. a \notin invoked
      BY <1>1, <1>5 DEF SandboxInv, Backed
    <3> QED BY <1>0, <1>1, <1>4, <1>7, <3>1
  <2>2. Backed(b)
    BY <1>1, <1>4, <1>7, <2>1 DEF SandboxInv
  <2> QED BY <1>1, <1>5, <2>1, <2>2 DEF Backed, Within
<1>8. ASSUME NEW j \in Ids, ledger'[j] # None, ledger'[j].status = "FINALIZED" PROVE Settled(j)'
  <2>1. Succeeded(j) => Succeeded(j)'
    <3> SUFFICES ASSUME NEW b \in Attempts, pc[b] = "done", call[b].id = j PROVE Succeeded(j)'
      BY DEF Succeeded
    <3>1. b # a
      BY <1>1
    <3> QED BY <1>4, <1>5, <3>1 DEF Succeeded
  <2> QED BY <1>1, <1>8, <2>1 DEF SandboxInv, Settled
<1> QED BY <1>6, <1>7, <1>8 DEF SandboxInv

Busy == {"checked", "replayed", "reserved", "answered", "failing"}

(* A call goes on, or dies, without writing to the ledger.                  *)
LEMMA LedgerStays ==
  ASSUME SandboxInv, NEW a \in Attempts, NEW label \in Labels \ {"idle", "done"},
         pc[a] \in Busy, Goto(a, label), UNCHANGED <<ledger, call>>,
         invoked' \subseteq invoked \cup {a},
         a \in invoked' \/ label \in {"reserved", "answered", "failing", "failed"} => Backed(a)
  PROVE  SandboxInv'
<1>1. SandboxTypes
  BY DEF SandboxInv
<1>2. /\ pc' \in [Attempts -> Labels] /\ pc'[a] = label /\ \A b \in Attempts \ {a} : pc'[b] = pc[b]
  BY <1>1, OthersStay
<1>3. SandboxTypes'
  BY <1>1, <1>2 DEF SandboxTypes, Busy
<1>4. \A b \in Attempts : Backed(b)' <=> Backed(b)
  BY DEF Backed, Within
<1>5. ASSUME NEW b \in Attempts,
             b \in invoked' \/ pc'[b] \in {"reserved", "answered", "failing", "done", "failed"}
      PROVE  Backed(b)'
  BY <1>2, <1>4, <1>5 DEF SandboxInv
<1>6. \A j : Succeeded(j) => Succeeded(j)'
  BY <1>2 DEF Succeeded, Busy
<1>7. ASSUME NEW j \in Ids, ledger'[j] # None, ledger'[j].status = "FINALIZED" PROVE Settled(j)'
  BY <1>6, <1>7 DEF SandboxInv, Settled
<1> QED BY <1>3, <1>5, <1>7 DEF SandboxInv

(* A new row is reserved.                                                   *)
LEMMA ReserveStep ==
  ASSUME SandboxInv, NEW a \in Attempts, pc[a] = "checked",
         CanReserve(call[a].id, Want(a)), ledger' = Reserved(call[a].id, Want(a)),
         Goto(a, "reserved"), UNCHANGED <<call, invoked>>
  PROVE  SandboxInv'
<1> DEFINE i == call[a].id
           row == [request |-> call[a].request, budget |-> call[a].budget,
                   reserved |-> call[a].usage, status |-> "RESERVED", actual |-> None]
<1>1. SandboxTypes /\ call[a] \in Calls /\ call[a] # None
  BY DEF SandboxInv, SandboxTypes
<1>2. /\ i \in Ids /\ ledger[i] = None /\ Within(call[a].usage, LimitOf[call[a].budget])
      /\ ledger' = [ledger EXCEPT ![i] = row]
  BY <1>1 DEF CanReserve, Reserved, Want, Calls
<1>3. row \in Rows /\ row # None
  BY <1>1, BudgetNone DEF Rows, Calls
<1>4. /\ row.request = call[a].request /\ row.budget = call[a].budget
      /\ row.reserved = call[a].usage /\ row.status = "RESERVED"
  OBVIOUS
<1> HIDE DEF row
<1>5. /\ pc' \in [Attempts -> Labels] /\ pc'[a] = "reserved"
      /\ \A b \in Attempts \ {a} : pc'[b] = pc[b]
  BY <1>1, OthersStay DEF Labels
<1>6. /\ ledger' \in [Ids -> Rows \cup {None}] /\ ledger'[i] = row
      /\ \A j \in Ids \ {i} : ledger'[j] = ledger[j]
  BY <1>1, <1>2, <1>3 DEF SandboxTypes
<1>7. SandboxTypes'
  BY <1>1, <1>5, <1>6 DEF SandboxTypes
<1>8. \A b \in Attempts : Backed(b) => Backed(b)'
  BY <1>1, <1>2, <1>6, RowsKept
<1>9. Backed(a)'
  BY <1>1, <1>2, <1>3, <1>4, <1>6 DEF Backed, Within
<1>10. ASSUME NEW b \in Attempts,
              b \in invoked' \/ pc'[b] \in {"reserved", "answered", "failing", "done", "failed"}
       PROVE  Backed(b)'
  BY <1>5, <1>8, <1>9, <1>10 DEF SandboxInv
<1>11. \A j : Succeeded(j) => Succeeded(j)'
  BY <1>5 DEF Succeeded
<1>12. ASSUME NEW j \in Ids, ledger'[j] # None, ledger'[j].status = "FINALIZED" PROVE Settled(j)'
  <2>1. j # i
    BY <1>4, <1>6, <1>12
  <2> QED BY <1>6, <1>11, <1>12, <2>1 DEF SandboxInv, Settled
<1> QED BY <1>7, <1>10, <1>12 DEF SandboxInv

(* A row is finalized, with the usage measured or with all that was         *)
(* reserved.                                                                *)
LEMMA FinalStep ==
  ASSUME SandboxInv, NEW a \in Attempts, pc[a] \in {"answered", "failing"},
         NEW actual \in Usages, NEW label \in {"done", "failed"},
         CanFinalize(call[a].id, call[a].request, actual),
         ledger' = Finalized(call[a].id, actual),
         Goto(a, label), UNCHANGED <<call, invoked>>,
         label = "failed" => actual = call[a].usage
  PROVE  SandboxInv'
<1> DEFINE i == call[a].id
           row == [ledger[i] EXCEPT !.status = "FINALIZED", !.actual = actual]
<1>1. SandboxTypes /\ call[a] \in Calls /\ call[a] # None /\ i \in Ids
  BY DEF SandboxInv, SandboxTypes, Calls
<1>2. ledger[i] \in Rows /\ ledger' = [ledger EXCEPT ![i] = row]
  BY <1>1 DEF CanFinalize, Finalized, SandboxTypes
<1>3. /\ row \in Rows /\ row # None /\ row.status = "FINALIZED" /\ row.actual = actual
      /\ row.request = ledger[i].request /\ row.budget = ledger[i].budget
      /\ row.reserved = ledger[i].reserved
  BY <1>2, BudgetNone DEF Rows
<1> HIDE DEF row
<1>4. /\ pc' \in [Attempts -> Labels] /\ pc'[a] = label
      /\ \A b \in Attempts \ {a} : pc'[b] = pc[b]
  BY <1>1, OthersStay DEF Labels
<1>5. /\ ledger' \in [Ids -> Rows \cup {None}] /\ ledger'[i] = row
      /\ \A j \in Ids \ {i} : ledger'[j] = ledger[j]
  BY <1>1, <1>2, <1>3 DEF SandboxTypes
<1>6. SandboxTypes'
  BY <1>1, <1>4, <1>5 DEF SandboxTypes
<1>7. \A b \in Attempts : Backed(b) => Backed(b)'
  BY <1>1, <1>3, <1>5, RowsKept
<1>8. ASSUME NEW b \in Attempts,
             b \in invoked' \/ pc'[b] \in {"reserved", "answered", "failing", "done", "failed"}
      PROVE  Backed(b)'
  BY <1>4, <1>7, <1>8 DEF SandboxInv
<1>9. \A j : Succeeded(j) => Succeeded(j)'
  BY <1>4 DEF Succeeded
<1>10. ASSUME NEW j \in Ids, ledger'[j] # None, ledger'[j].status = "FINALIZED" PROVE Settled(j)'
  <2>1. CASE j # i
    BY <1>5, <1>9, <1>10, <2>1 DEF SandboxInv, Settled
  <2>2. CASE j = i /\ label = "done"
    <3>1. Succeeded(j)'
      BY <1>4, <2>2 DEF Succeeded
    <3> QED BY <3>1 DEF Settled
  <2>3. CASE j = i /\ label = "failed"
    <3>1. Backed(a)
      BY DEF SandboxInv
    <3> QED BY <1>3, <1>5, <2>3, <3>1 DEF Settled, Backed
  <2> QED BY <2>1, <2>2, <2>3
<1> QED BY <1>6, <1>8, <1>10 DEF SandboxInv

(* A failed call settles its row at all it reserved, or leaves it.          *)
LEMMA ConservativeStep ==
  ASSUME SandboxInv, NEW a \in Attempts, FinalizeConservatively(a)
  PROVE  SandboxInv'
<1> DEFINE i == call[a].id
<1>1. /\ SandboxTypes /\ pc[a] = "failing" /\ Goto(a, "failed") /\ UNCHANGED <<call, invoked>>
      /\ Backed(a)
  BY DEF SandboxInv, FinalizeConservatively
<1>2. call[a].usage \in Usages
  BY <1>1 DEF Backed, SandboxTypes, Calls
<1>3. CASE CanFinalize(i, call[a].request, call[a].usage) /\ ledger' = Finalized(i, call[a].usage)
  BY <1>1, <1>2, <1>3, FinalStep
<1>4. CASE UNCHANGED ledger
  BY <1>1, <1>4, LedgerStays DEF Busy, Labels
<1> QED BY <1>3, <1>4 DEF FinalizeConservatively, ConservativeUsage

(* The invariant holds in every reachable state.                            *)
LEMMA SandboxInvHolds == Spec => []SandboxInv
<1>1. Init => SandboxInv
  BY DEF Init, SandboxInv, SandboxTypes, Labels
<1>2. SandboxInv /\ [Next]_vars => SandboxInv'
  <2> SUFFICES ASSUME SandboxInv, [Next]_vars PROVE SandboxInv'
    OBVIOUS
  <2>1. CASE UNCHANGED vars
    BY <2>1 DEF vars, SandboxInv, SandboxTypes, Backed, Within, Settled, Succeeded
  <2>2. ASSUME NEW a \in Attempts, Reserve(a) PROVE SandboxInv'
    <3>1. CASE CanReserve(call[a].id, Want(a)) /\ ledger' = Reserved(call[a].id, Want(a))
               /\ Goto(a, "reserved")
      BY <2>2, <3>1, ReserveStep DEF Reserve
    <3>2. CASE CanReplay(call[a].id, Want(a)) /\ Goto(a, "reserved") /\ UNCHANGED ledger
      <4>1. Backed(a)
        BY <2>2, <3>2 DEF Reserve, CanReplay, SameReservation, Want, Backed, SandboxInv, SandboxTypes
      <4> QED BY <2>2, <3>2, <4>1, LedgerStays DEF Reserve, Busy, Labels
    <3>3. CASE Goto(a, "refused") /\ UNCHANGED ledger
      <4>1. a \in invoked => Backed(a)
        BY DEF SandboxInv
      <4> QED BY <2>2, <3>3, <4>1, LedgerStays DEF Reserve, Busy, Labels
    <3> QED BY <2>2, <3>1, <3>2, <3>3 DEF Reserve
  <2>3. ASSUME NEW a \in Attempts, Propose(a) PROVE SandboxInv'
    <3>1. Backed(a)
      BY <2>3 DEF Propose, SandboxInv
    <3> QED BY <2>3, <3>1, LedgerStays DEF Propose, Busy, Labels
  <2>4. ASSUME NEW a \in Attempts, NEW actual \in Usages, Finalize(a, actual) PROVE SandboxInv'
    <3>1. Backed(a)
      BY <2>4 DEF Finalize, SandboxInv
    <3>2. CASE /\ CanFinalize(call[a].id, call[a].request, actual)
               /\ ledger' = Finalized(call[a].id, actual) /\ Goto(a, "done")
      <4>1. UNCHANGED <<call, invoked>> /\ pc[a] \in {"answered", "failing"}
        BY <2>4 DEF Finalize
      <4> QED BY <3>2, <4>1, FinalStep
    <3>3. CASE UNCHANGED ledger /\ Goto(a, "failing")
      BY <2>4, <3>1, <3>3, LedgerStays DEF Finalize, Busy, Labels
    <3> QED BY <2>4, <3>2, <3>3 DEF Finalize
  <2>5. ASSUME NEW a \in Attempts, Crash(a) PROVE SandboxInv'
    <3>1. a \in invoked => Backed(a)
      BY DEF SandboxInv
    <3> QED BY <2>5, <3>1, LedgerStays DEF Crash, Busy, Labels
  <2> QED BY <2>1, <2>2, <2>3, <2>4, <2>5, BeginStep, ConservativeStep DEF Next
<1> QED BY <1>1, <1>2, PTL DEF Spec

(* The model is called only on a reservation that stands in the ledger for  *)
(* exactly what the call asks, whichever call of the attempt made it and    *)
(* whoever crashes in between (generate_and_validate, reserve_before_use).  *)
THEOREM ModelCallsAreReserved == Spec => []ReservedBeforeUse
<1>1. SandboxInv => ReservedBeforeUse
  BY DEF SandboxInv, ReservedBeforeUse, Backed
<1> QED BY <1>1, SandboxInvHolds, PTL

(* A call that used the model and did not succeed stays charged with all it *)
(* reserved, whether its failure was settled, _finalize_conservatively met  *)
(* an unavailable ledger and left the row RESERVED, or the process died,    *)
(* unless a call under the same attempt id succeeded.                       *)
THEOREM FailuresArePaidFor == Spec => []FailedIsCharged
<1>1. SandboxInv => FailedIsCharged
  <2> SUFFICES ASSUME SandboxInv, NEW a \in invoked, ~Succeeded(call[a].id)
               PROVE  Charged(ledger[call[a].id]) = call[a].usage
    BY DEF FailedIsCharged
  <2>1. a \in Attempts /\ Backed(a)
    BY DEF SandboxInv, SandboxTypes
  <2>2. call[a].id \in Ids
    BY <2>1 DEF SandboxInv, SandboxTypes, Backed, Calls
  <2> QED BY <2>1, <2>2 DEF SandboxInv, Settled, Charged, Backed
<1> QED BY <1>1, SandboxInvHolds, PTL

-----------------------------------------------------------------------------
(* Sums of natural numbers over finite sets, as the library's fold computes *)
(* them: elements are taken in an order that CHOOSE fixes, and the sum does *)
(* not depend on it.                                                        *)

Pick(s) == CHOOSE x \in s : TRUE

IterEq(h, g, S) ==
  h = [s \in SUBSET S |-> IF s = {} THEN 0 ELSE g[Pick(s)] + h[s \ {Pick(s)}]]

Iter(g, S) == CHOOSE h : IterEq(h, g, S)

(* The library's sum is a fold over the domain.                             *)
LEMMA SumIsIter ==
  ASSUME NEW g
  PROVE  SumFunction(g) = Iter(g, DOMAIN g)[DOMAIN g]
BY DEF SumFunction, SumFunctionOnSet, FoldFunctionOnSet, MapThenFoldSet, Iter, IterEq, Pick

(* A set of naturals has a least element.                                   *)
LEMMA LeastOf ==
  ASSUME NEW T, T \subseteq Nat, T # {}
  PROVE  \E n \in T : \A m \in T : n <= m
<1>1. PICK n \in T : \A m \in T : ~(<<m, n>> \in OpToRel(<, Nat))
  BY NatLessThanWellFounded, WFMin
<1>2. \A m \in T : ~(m < n)
  BY <1>1 DEF OpToRel
<1> QED BY <1>2

(* The element the fold picks is a member, and leaves a smaller finite set. *)
LEMMA Picked ==
  ASSUME NEW s, s # {}, IsFiniteSet(s)
  PROVE  /\ Pick(s) \in s /\ IsFiniteSet(s \ {Pick(s)})
         /\ Cardinality(s) \in Nat \ {0} /\ Cardinality(s \ {Pick(s)}) = Cardinality(s) - 1
<1>1. Pick(s) \in s
  BY DEF Pick
<1> QED BY <1>1, FS_RemoveElement, FS_CardinalityType, FS_EmptySet

(* Some function satisfies the equation of the fold, by the least size that lacks one. *)
LEMMA IterExists ==
  ASSUME NEW S, IsFiniteSet(S), NEW g \in [S -> Nat]
  PROVE  \E h \in [SUBSET S -> Nat] : IterEq(h, g, S)
<1> DEFINE Small(n) == {s \in SUBSET S : Cardinality(s) <= n}
           Eq(h, s) == h[s] = IF s = {} THEN 0 ELSE g[Pick(s)] + h[s \ {Pick(s)}]
           Good(n) == \E h \in [Small(n) -> Nat] : \A s \in Small(n) : Eq(h, s)
           Bad == {n \in Nat : ~Good(n)}
<1>1. \A s \in SUBSET S : IsFiniteSet(s) /\ Cardinality(s) \in Nat /\ Cardinality(s) <= Cardinality(S)
  BY FS_Subset, FS_CardinalityType
<1>2. \A s \in SUBSET S : s # {} =>
        /\ Pick(s) \in s /\ s \ {Pick(s)} \in SUBSET S
        /\ Cardinality(s) \in Nat \ {0} /\ Cardinality(s \ {Pick(s)}) = Cardinality(s) - 1
  BY <1>1, Picked
<1>3. Bad = {}
  <2> SUFFICES ASSUME Bad # {} PROVE FALSE
    OBVIOUS
  <2>1. PICK n \in Bad : \A m \in Bad : n <= m
    BY LeastOf
  <2>2. CASE n = 0
    <3>1. \A s \in Small(0) : s = {}
      BY <1>1, FS_EmptySet
    <3>2. [s \in Small(0) |-> 0] \in [Small(0) -> Nat]
      OBVIOUS
    <3> HIDE DEF Small
    <3>3. \A s \in Small(0) : Eq([t \in Small(0) |-> 0], s)
      BY <3>1
    <3>4. Good(0)
      BY <3>2, <3>3
    <3> QED BY <2>2, <3>4
  <2>3. CASE n # 0
    <3>1. n \in Nat /\ n - 1 \in Nat /\ n - 1 \notin Bad
      <4>1. n \in Nat
        OBVIOUS
      <4> HIDE DEF Bad
      <4> QED BY <2>1, <2>3, <4>1
    <3>2. PICK h \in [Small(n - 1) -> Nat] : \A s \in Small(n - 1) : Eq(h, s)
      BY <3>1
    <3> DEFINE k == [s \in Small(n) |-> IF s = {} THEN 0 ELSE g[Pick(s)] + h[s \ {Pick(s)}]]
    <3>3. \A s \in Small(n) : s # {} => s \ {Pick(s)} \in Small(n - 1) /\ Pick(s) \in S
      BY <1>2, <3>1
    <3>4. Small(n - 1) \subseteq Small(n)
      BY <1>1, <3>1
    <3> HIDE DEF Small
    <3>5. k \in [Small(n) -> Nat]
      <4>1. \A s \in Small(n) : s # {} => g[Pick(s)] \in Nat /\ h[s \ {Pick(s)}] \in Nat
        BY <3>3
      <4> QED BY <4>1
    <3>6. \A s \in Small(n - 1) : k[s] = h[s]
      BY <3>2, <3>4
    <3>7. \A s \in Small(n) : Eq(k, s)
      BY <3>3, <3>4, <3>6
    <3>8. Good(n)
      BY <3>5, <3>7
    <3> QED BY <2>1, <3>8
  <2> QED BY <2>2, <2>3
<1>4. Cardinality(S) \in Nat /\ Small(Cardinality(S)) = SUBSET S
  BY <1>1
<1>5. PICK h \in [SUBSET S -> Nat] : \A s \in SUBSET S : Eq(h, s)
  <2>1. Good(Cardinality(S))
    BY <1>3, <1>4
  <2> QED BY <1>4, <2>1
<1>6. h = [s \in SUBSET S |-> IF s = {} THEN 0 ELSE g[Pick(s)] + h[s \ {Pick(s)}]]
  BY <1>5
<1> QED BY <1>6 DEF IterEq

(* Hence the fold satisfies its own equation.                               *)
LEMMA IterDefined ==
  ASSUME NEW S, IsFiniteSet(S), NEW g \in [S -> Nat]
  PROVE  \A s \in SUBSET S :
           Iter(g, S)[s] = IF s = {} THEN 0 ELSE g[Pick(s)] + Iter(g, S)[s \ {Pick(s)}]
<1>1. \E h : IterEq(h, g, S)
  BY IterExists
<1>2. IterEq(Iter(g, S), g, S)
  BY <1>1 DEF Iter
<1> QED BY <1>2 DEF IterEq

(* Iter depends on the values it sums only, and yields a natural number.    *)
LEMMA IterAgrees ==
  ASSUME NEW S, IsFiniteSet(S), NEW g \in [S -> Nat],
         NEW T \in SUBSET S, NEW h \in [T -> Nat], \A x \in T : h[x] = g[x]
  PROVE  \A s \in SUBSET T : Iter(g, S)[s] \in Nat /\ Iter(h, T)[s] = Iter(g, S)[s]
<1> DEFINE Fails(s) == ~(Iter(g, S)[s] \in Nat /\ Iter(h, T)[s] = Iter(g, S)[s])
           Sizes == {n \in Nat : \E s \in SUBSET T : Cardinality(s) = n /\ Fails(s)}
<1> SUFFICES ASSUME NEW t \in SUBSET T, Fails(t) PROVE FALSE
  OBVIOUS
<1>1. IsFiniteSet(T) /\ \A s \in SUBSET T : IsFiniteSet(s) /\ Cardinality(s) \in Nat /\ s \in SUBSET S
  BY FS_Subset, FS_CardinalityType
<1>2. Sizes # {}
  BY <1>1
<1>3. PICK n \in Sizes : \A m \in Sizes : n <= m
  BY <1>2, LeastOf
<1>4. PICK s \in SUBSET T : Cardinality(s) = n /\ Fails(s)
  OBVIOUS
<1>5. /\ Iter(g, S)[s] = IF s = {} THEN 0 ELSE g[Pick(s)] + Iter(g, S)[s \ {Pick(s)}]
      /\ Iter(h, T)[s] = IF s = {} THEN 0 ELSE h[Pick(s)] + Iter(h, T)[s \ {Pick(s)}]
  BY <1>1, IterDefined
<1>6. s # {}
  BY <1>4, <1>5
<1>7. /\ Pick(s) \in s /\ s \ {Pick(s)} \in SUBSET T
      /\ n \in Nat \ {0} /\ Cardinality(s \ {Pick(s)}) = n - 1
  BY <1>1, <1>4, <1>6, Picked
<1>8. ~Fails(s \ {Pick(s)})
  <2>1. n - 1 \in Nat /\ ~(n <= n - 1)
    BY <1>7
  <2>2. n - 1 \notin Sizes
    <3> HIDE DEF Sizes
    <3> QED BY <1>3, <2>1
  <2> QED BY <1>7, <2>1, <2>2
<1>9. g[Pick(s)] \in Nat /\ h[Pick(s)] = g[Pick(s)]
  BY <1>7
<1> QED BY <1>4, <1>5, <1>6, <1>8, <1>9

(* Any element may be taken first.                                          *)
LEMMA IterSplits ==
  ASSUME NEW S, IsFiniteSet(S), NEW g \in [S -> Nat]
  PROVE  \A s \in SUBSET S : \A x \in s : Iter(g, S)[s] = g[x] + Iter(g, S)[s \ {x}]
<1> DEFINE I(s) == Iter(g, S)[s]
           Fails(s) == \E x \in s : I(s) # g[x] + I(s \ {x})
           Sizes == {n \in Nat : \E s \in SUBSET S : Cardinality(s) = n /\ Fails(s)}
<1> SUFFICES ASSUME NEW t \in SUBSET S, Fails(t) PROVE FALSE
  OBVIOUS
<1>1. \A s \in SUBSET S : IsFiniteSet(s) /\ Cardinality(s) \in Nat /\ I(s) \in Nat
  BY FS_Subset, FS_CardinalityType, IterAgrees
<1>2. Sizes # {}
  BY <1>1
<1>3. PICK n \in Sizes : \A m \in Sizes : n <= m
  BY <1>2, LeastOf
<1>4. PICK s \in SUBSET S : Cardinality(s) = n /\ Fails(s)
  OBVIOUS
<1>5. PICK x \in s : I(s) # g[x] + I(s \ {x})
  BY <1>4
<1> DEFINE y == Pick(s)
<1>6. /\ y \in s /\ s \ {y} \in SUBSET S /\ n \in Nat \ {0} /\ Cardinality(s \ {y}) = n - 1
  BY <1>1, <1>4, <1>5, Picked
<1>7. /\ s \ {x} \in SUBSET S /\ IsFiniteSet(s \ {x}) /\ Cardinality(s \ {x}) = n - 1
      /\ (s \ {x}) \ {y} = (s \ {y}) \ {x} /\ (s \ {x}) \ {y} \in SUBSET S
  BY <1>1, <1>4, <1>5, FS_RemoveElement
<1>8. I(s) = g[y] + I(s \ {y})
  BY <1>5, IterDefined
<1> HIDE DEF y, I
<1>9. x # y
  BY <1>5, <1>8
<1>10. ~Fails(s \ {y}) /\ ~Fails(s \ {x})
  <2>1. n - 1 \in Nat /\ ~(n <= n - 1)
    BY <1>6
  <2>2. n - 1 \notin Sizes
    <3> HIDE DEF Sizes
    <3> QED BY <1>3, <2>1
  <2> QED BY <1>6, <1>7, <2>1, <2>2
<1>11. /\ I(s \ {y}) = g[x] + I((s \ {y}) \ {x})
       /\ I(s \ {x}) = g[y] + I((s \ {x}) \ {y})
  BY <1>5, <1>6, <1>9, <1>10
<1>12. g[x] \in Nat /\ g[y] \in Nat /\ I((s \ {x}) \ {y}) \in Nat
  BY <1>1, <1>5, <1>6, <1>7
<1>13. I((s \ {y}) \ {x}) = I((s \ {x}) \ {y})
  BY <1>7
<1>14. ASSUME NEW p \in Nat, NEW q \in Nat, NEW r \in Nat PROVE p + (q + r) = q + (p + r)
  OBVIOUS
<1> QED BY <1>5, <1>8, <1>11, <1>12, <1>13, <1>14

(* The sum of a function is that of one value and of the others.            *)
LEMMA SumAdd ==
  ASSUME NEW S, IsFiniteSet(S), NEW x, x \notin S,
         NEW g \in [S -> Nat], NEW h \in [S \cup {x} -> Nat], \A y \in S : h[y] = g[y]
  PROVE  /\ SumFunction(g) \in Nat /\ SumFunction(h) \in Nat
         /\ SumFunction(h) = h[x] + SumFunction(g)
<1> DEFINE T == S \cup {x}
<1>1. IsFiniteSet(T) /\ S \in SUBSET T /\ T \ {x} = S
  BY FS_AddElement
<1>2. SumFunction(g) = Iter(g, S)[S] /\ SumFunction(h) = Iter(h, T)[T]
  BY SumIsIter
<1>3. Iter(g, S)[S] = Iter(h, T)[S] /\ Iter(h, T)[S] \in Nat
  BY <1>1, IterAgrees
<1>4. Iter(h, T)[T] = h[x] + Iter(h, T)[S]
  BY <1>1, IterSplits
<1> QED BY <1>2, <1>3, <1>4

(* A value that becomes smaller makes no sum larger.                        *)
LEMMA SumLowered ==
  ASSUME NEW S, IsFiniteSet(S), NEW x \in S,
         NEW g \in [S -> Nat], NEW h \in [S -> Nat],
         \A y \in S \ {x} : h[y] = g[y], h[x] <= g[x]
  PROVE  SumFunction(h) <= SumFunction(g)
<1> DEFINE R == S \ {x}
           k == [y \in R |-> g[y]]
<1>1. IsFiniteSet(R) /\ x \notin R /\ R \cup {x} = S /\ k \in [R -> Nat]
  BY FS_RemoveElement
<1>2. SumFunction(k) \in Nat /\ SumFunction(g) = g[x] + SumFunction(k)
  BY <1>1, SumAdd
<1>3. SumFunction(h) = h[x] + SumFunction(k)
  BY <1>1, SumAdd
<1> QED BY <1>2, <1>3

-----------------------------------------------------------------------------
(* The budget.                                                              *)

Filled == {i \in Ids : ledger[i] # None}
Use(job, f) == [i \in RowsOf(job) |-> Charged(ledger[i])[f]]

LedgerTypes ==
  /\ IsFiniteSet(Filled)
  /\ \A i \in Ids : ledger[i] # None /\ ledger[i].status = "FINALIZED" => ledger[i].actual \in Usages

LedgerInv == LedgerTypes /\ BudgetRespected

(* What a row is charged is a usage.                                        *)
LEMMA UseTypes ==
  ASSUME SandboxTypes, LedgerTypes, NEW job, NEW f \in Fields
  PROVE  /\ IsFiniteSet(RowsOf(job)) /\ RowsOf(job) \subseteq Ids
         /\ \A i \in RowsOf(job) : Charged(ledger[i])[f] \in Nat
         /\ Use(job, f) \in [RowsOf(job) -> Nat]
         /\ ScopeUsage(job)[f] = SumFunction(Use(job, f))
<1>1. RowsOf(job) \subseteq Filled
  BY DEF RowsOf, Filled
<1>2. IsFiniteSet(RowsOf(job)) /\ RowsOf(job) \subseteq Ids
  BY <1>1, FS_Subset DEF LedgerTypes, RowsOf
<1>3. \A i \in RowsOf(job) : Charged(ledger[i])[f] \in Nat
  <2> SUFFICES ASSUME NEW i \in RowsOf(job) PROVE Charged(ledger[i])[f] \in Nat
    OBVIOUS
  <2>1. ledger[i] \in Rows /\ i \in Ids /\ ledger[i] # None
    BY DEF SandboxTypes, RowsOf
  <2>2. Charged(ledger[i]) \in Usages
    BY <2>1 DEF Charged, Rows, LedgerTypes
  <2> QED BY <2>2, BudgetAssumption DEF Usages
<1> QED BY <1>2, <1>3 DEF Use, ScopeUsage

(* A reservation that reserve accepts keeps every job within its budget.    *)
LEMMA ReserveBudget ==
  ASSUME SandboxInv, SandboxInv', LedgerInv, NEW i \in Ids, NEW want \in Wants,
         CanReserve(i, want), ledger' = Reserved(i, want)
  PROVE  LedgerInv'
<1> DEFINE J == JobOf[want.request]
           row == [request |-> want.request, budget |-> want.budget,
                   reserved |-> want.usage, status |-> "RESERVED", actual |-> None]
<1>1. /\ row.request = want.request /\ row.budget = want.budget /\ row.reserved = want.usage
      /\ row.status = "RESERVED" /\ row \in Rows /\ row # None
  BY BudgetNone DEF Rows, Wants
<1>2. /\ ledger[i] = None /\ ledger' = [ledger EXCEPT ![i] = row] /\ SandboxTypes
  BY DEF CanReserve, Reserved, SandboxInv
<1> HIDE DEF row
<1>3. ledger'[i] = row /\ \A j \in Ids \ {i} : ledger'[j] = ledger[j]
  BY <1>2 DEF SandboxTypes
<1>4. LedgerTypes'
  <2>1. Filled' = Filled \cup {i}
    BY <1>1, <1>2, <1>3 DEF Filled
  <2>2. IsFiniteSet(Filled')
    BY <2>1, FS_AddElement DEF LedgerInv, LedgerTypes
  <2>3. \A j \in Ids : ledger'[j] # None /\ ledger'[j].status = "FINALIZED" => ledger'[j].actual \in Usages
    BY <1>1, <1>3 DEF LedgerInv, LedgerTypes
  <2> QED BY <2>2, <2>3 DEF LedgerTypes
<1>5. RowsOf(J)' = RowsOf(J) \cup {i} /\ i \notin RowsOf(J)
  BY <1>1, <1>2, <1>3 DEF RowsOf
<1>6. \A j \in RowsOf(J) : ledger[j].request = want.request /\ ledger[j].budget = want.budget
  <2> SUFFICES ASSUME NEW j \in RowsOf(J)
               PROVE  ledger[j].request = want.request /\ ledger[j].budget = want.budget
    OBVIOUS
  <2>1. PICK k \in RowsOf(J) : ledger[k].budget = want.budget /\ ledger[k].request = want.request
    BY DEF CanReserve, JobAgrees
  <2> QED BY <2>1 DEF LedgerInv, BudgetRespected, RowsOf
<1>7. ASSUME NEW f \in Fields PROVE ScopeUsage(J)'[f] <= LimitOf[want.budget][f]
  <2>1. /\ IsFiniteSet(RowsOf(J)) /\ Use(J, f) \in [RowsOf(J) -> Nat]
        /\ ScopeUsage(J)[f] = SumFunction(Use(J, f))
    BY <1>2, UseTypes DEF LedgerInv
  <2>2. Use(J, f)' \in [RowsOf(J)' -> Nat] /\ ScopeUsage(J)'[f] = SumFunction(Use(J, f)')
    <3>1. SandboxTypes'
      BY DEF SandboxInv
    <3>2. (Charged(ledger[i])[f])' = want.usage[f] /\ want.usage[f] \in Nat
      BY <1>1, <1>3, BudgetAssumption DEF Charged, Wants, Usages
    <3>3. \A j \in RowsOf(J) : (Charged(ledger[j])[f])' = Charged(ledger[j])[f]
      BY <1>3, <1>5 DEF RowsOf, Charged
    <3>4. \A j \in RowsOf(J) : Charged(ledger[j])[f] \in Nat
      BY <1>2, UseTypes DEF LedgerInv
    <3> QED BY <1>5, <3>2, <3>3, <3>4 DEF Use, ScopeUsage
  <2>3. \A j \in RowsOf(J) : Use(J, f)'[j] = Use(J, f)[j]
    BY <1>3, <1>5 DEF Use, RowsOf, Charged
  <2>4. Use(J, f)'[i] = want.usage[f]
    BY <1>1, <1>3, <1>5 DEF Use, Charged
  <2>5. SumFunction(Use(J, f)') = Use(J, f)'[i] + SumFunction(Use(J, f)) /\ SumFunction(Use(J, f)) \in Nat
    BY <1>5, <2>1, <2>2, <2>3, SumAdd
  <2>6. ScopeUsage(J)[f] + want.usage[f] <= LimitOf[want.budget][f]
    BY DEF CanReserve, FitsSum
  <2>7. want.usage[f] \in Nat
    BY BudgetAssumption DEF Wants, Usages
  <2> QED BY <2>1, <2>2, <2>4, <2>5, <2>6, <2>7
<1>8. ASSUME NEW K, K # J PROVE ScopeUsage(K)' = ScopeUsage(K)
  <2>1. RowsOf(K)' = RowsOf(K) /\ i \notin RowsOf(K)
    BY <1>1, <1>2, <1>3, <1>8 DEF RowsOf
  <2>2. \A j \in RowsOf(K) : ledger'[j] = ledger[j]
    BY <1>3, <2>1 DEF RowsOf
  <2> QED BY <2>1, <2>2 DEF ScopeUsage, Charged
<1>9. BudgetRespected'
  <2> SUFFICES ASSUME NEW j \in Ids, NEW k \in Ids, ledger'[j] # None, ledger'[k] # None,
                      JobOf[ledger'[j].request] = JobOf[ledger'[k].request]
               PROVE  /\ ledger'[j].request = ledger'[k].request /\ ledger'[j].budget = ledger'[k].budget
                      /\ Within(ScopeUsage(JobOf[ledger[j].request]), LimitOf[ledger[j].budget])'
    BY DEF BudgetRespected
  <2>1. CASE JobOf[ledger'[j].request] = J
    <3>1. \A n \in RowsOf(J)' : ledger'[n].request = want.request /\ ledger'[n].budget = want.budget
      BY <1>1, <1>3, <1>5, <1>6 DEF RowsOf
    <3>2. j \in RowsOf(J)' /\ k \in RowsOf(J)'
      BY <2>1 DEF RowsOf
    <3> QED BY <1>7, <2>1, <3>1, <3>2 DEF Within
  <2>2. CASE JobOf[ledger'[j].request] # J
    <3>1. j # i /\ k # i /\ ledger'[j] = ledger[j] /\ ledger'[k] = ledger[k]
      BY <1>1, <1>3, <2>2
    <3>2. ScopeUsage(JobOf[ledger[j].request])' = ScopeUsage(JobOf[ledger[j].request])
      BY <1>8, <2>2, <3>1
    <3> QED BY <3>1, <3>2 DEF LedgerInv, BudgetRespected, Within
  <2> QED BY <2>1, <2>2
<1> QED BY <1>4, <1>9 DEF LedgerInv

(* A charge below its reservation keeps every job within its budget.        *)
LEMMA FinalizeBudget ==
  ASSUME SandboxInv, LedgerInv, NEW i \in Ids, NEW request, NEW actual \in Usages,
         CanFinalize(i, request, actual), ledger' = Finalized(i, actual)
  PROVE  LedgerInv'
<1> DEFINE row == [ledger[i] EXCEPT !.status = "FINALIZED", !.actual = actual]
<1>1. /\ SandboxTypes /\ ledger[i] # None /\ ledger[i] \in Rows
      /\ ledger' = [ledger EXCEPT ![i] = row]
  BY DEF SandboxInv, SandboxTypes, CanFinalize, Finalized
<1>2. /\ row \in Rows /\ row # None /\ row.status = "FINALIZED" /\ row.actual = actual
      /\ row.request = ledger[i].request /\ row.budget = ledger[i].budget
  BY <1>1, BudgetNone DEF Rows
<1> HIDE DEF row
<1>3. ledger'[i] = row /\ \A j \in Ids \ {i} : ledger'[j] = ledger[j]
  BY <1>1 DEF SandboxTypes
<1>4. \A j \in Ids : /\ ledger'[j] # None <=> ledger[j] # None
                     /\ ledger'[j].request = ledger[j].request /\ ledger'[j].budget = ledger[j].budget
  BY <1>1, <1>2, <1>3
<1>5. LedgerTypes'
  <2>1. Filled' = Filled
    BY <1>4 DEF Filled
  <2>2. \A j \in Ids : ledger'[j] # None /\ ledger'[j].status = "FINALIZED" => ledger'[j].actual \in Usages
    BY <1>2, <1>3 DEF LedgerInv, LedgerTypes
  <2> QED BY <2>1, <2>2 DEF LedgerInv, LedgerTypes
<1>6. ASSUME NEW K, NEW f \in Fields, NEW limit \in Nat, ScopeUsage(K)[f] <= limit
      PROVE  ScopeUsage(K)'[f] <= limit
  <2>1. RowsOf(K)' = RowsOf(K)
    BY <1>4 DEF RowsOf
  <2>2. /\ IsFiniteSet(RowsOf(K)) /\ RowsOf(K) \subseteq Ids
        /\ Use(K, f) \in [RowsOf(K) -> Nat] /\ ScopeUsage(K)[f] = SumFunction(Use(K, f))
        /\ \A j \in RowsOf(K) : Charged(ledger[j])[f] \in Nat
    BY <1>1, UseTypes DEF LedgerInv
  <2>3. ScopeUsage(K)'[f] = SumFunction(Use(K, f)')
    BY DEF ScopeUsage, Use
  <2>4. \A j \in RowsOf(K) \ {i} : Use(K, f)'[j] = Use(K, f)[j]
    BY <1>3, <2>1, <2>2 DEF Use, Charged
  <2>5. CASE i \notin RowsOf(K)
    <3>1. Use(K, f)' = Use(K, f)
      BY <2>1, <2>4, <2>5 DEF Use
    <3> QED BY <1>6, <2>2, <2>3, <3>1
  <2>6. CASE i \in RowsOf(K)
    <3>1. Use(K, f)'[i] = actual[f] /\ actual[f] \in Nat
      BY <1>2, <1>3, <2>1, <2>6, BudgetAssumption DEF Use, Charged, Usages
    <3>2. Use(K, f)[i] = Charged(ledger[i])[f] /\ actual[f] <= Charged(ledger[i])[f]
      <4>1. CASE ledger[i].status = "FINALIZED"
        BY <2>6, <3>1, <4>1 DEF CanFinalize, Use, Charged
      <4>2. CASE ledger[i].status # "FINALIZED"
        BY <2>6, <4>2 DEF CanFinalize, Use, Charged, Within
      <4> QED BY <4>1, <4>2
    <3>3. Use(K, f)' \in [RowsOf(K) -> Nat]
      <4>1. DOMAIN Use(K, f)' = RowsOf(K) /\ Use(K, f)' = [j \in RowsOf(K) |-> Use(K, f)'[j]]
        BY <2>1 DEF Use
      <4>2. \A j \in RowsOf(K) : Use(K, f)'[j] \in Nat
        BY <2>2, <2>4, <3>1
      <4> QED BY <4>1, <4>2
    <3>4. SumFunction(Use(K, f)') <= SumFunction(Use(K, f))
      BY <2>2, <2>4, <2>6, <3>1, <3>2, <3>3, SumLowered
    <3>5. SumFunction(Use(K, f)') \in Nat /\ SumFunction(Use(K, f)) \in Nat
      BY <2>2, <3>3, SumIsIter, IterAgrees
    <3> QED BY <1>6, <2>2, <2>3, <3>4, <3>5
  <2> QED BY <2>5, <2>6
<1>7. BudgetRespected'
  <2> SUFFICES ASSUME NEW j \in Ids, NEW k \in Ids, ledger'[j] # None, ledger'[k] # None,
                      JobOf[ledger'[j].request] = JobOf[ledger'[k].request]
               PROVE  /\ ledger'[j].request = ledger'[k].request /\ ledger'[j].budget = ledger'[k].budget
                      /\ Within(ScopeUsage(JobOf[ledger[j].request]), LimitOf[ledger[j].budget])'
    BY DEF BudgetRespected
  <2>0. PICK K, L : K = JobOf[ledger[j].request] /\ L = LimitOf[ledger[j].budget]
    OBVIOUS
  <2>1. /\ ledger[j].request = ledger[k].request /\ ledger[j].budget = ledger[k].budget
        /\ Within(ScopeUsage(K), L)
    BY <1>4, <2>0 DEF LedgerInv, BudgetRespected
  <2>2. L \in [Fields -> Nat]
    BY <1>1, <1>4, <2>0, BudgetAssumption DEF SandboxTypes, Rows
  <2>3. K = JobOf[ledger'[j].request] /\ L = LimitOf[ledger'[j].budget]
    BY <1>4, <2>0
  <2>4. \A f \in Fields : ScopeUsage(K)'[f] <= L[f]
    BY <1>6, <2>1, <2>2 DEF Within
  <2> QED BY <1>4, <2>1, <2>3, <2>4 DEF Within
<1> QED BY <1>5, <1>7 DEF LedgerInv

(* The invariant holds in every reachable state.                            *)
LEMMA LedgerInvHolds == Spec => []LedgerInv
<1>1. Init => LedgerInv
  <2> SUFFICES ASSUME Init PROVE LedgerInv
    OBVIOUS
  <2>1. Filled = {} /\ \A i \in Ids : ledger[i] = None
    BY DEF Filled, Init
  <2> QED BY <2>1, FS_EmptySet DEF LedgerInv, LedgerTypes, BudgetRespected
<1>2. SandboxInv /\ SandboxInv' /\ LedgerInv /\ [Next]_vars => LedgerInv'
  <2> SUFFICES ASSUME SandboxInv, SandboxInv', LedgerInv, [Next]_vars PROVE LedgerInv'
    OBVIOUS
  <2>1. CASE ledger' = ledger
    BY <2>1 DEF LedgerInv, LedgerTypes, Filled, BudgetRespected, ScopeUsage, RowsOf, Charged, Within
  <2>2. \A a \in Attempts : pc[a] # "idle" => call[a] \in Calls
    BY DEF SandboxInv, SandboxTypes
  <2>3. ASSUME NEW a \in Attempts, Reserve(a), ledger' # ledger PROVE LedgerInv'
    <3>1. call[a].id \in Ids /\ Want(a) \in Wants
      BY <2>2, <2>3 DEF Reserve, Want, Wants, Calls
    <3> QED BY <2>3, <3>1, ReserveBudget DEF Reserve
  <2>4. ASSUME NEW a \in Attempts, NEW actual \in Usages, Finalize(a, actual), ledger' # ledger
        PROVE  LedgerInv'
    <3>1. call[a].id \in Ids
      BY <2>2, <2>4 DEF Finalize, Calls
    <3> QED BY <2>4, <3>1, FinalizeBudget DEF Finalize
  <2>5. ASSUME NEW a \in Attempts, FinalizeConservatively(a), ledger' # ledger PROVE LedgerInv'
    <3>1. call[a].id \in Ids /\ call[a].usage \in Usages
      BY <2>2, <2>5 DEF FinalizeConservatively, Calls
    <3> QED BY <2>5, <3>1, FinalizeBudget DEF FinalizeConservatively, ConservativeUsage
  <2> QED BY <2>1, <2>3, <2>4, <2>5 DEF Next, Begin, Propose, Crash, vars
<1> QED BY <1>1, <1>2, SandboxInvHolds, PTL DEF Spec

(* The rows of a job are all for one request and one budget, and together   *)
(* they are never charged more than it allows, for any number of jobs,      *)
(* attempts, concurrent calls and counters (budget.py, reserve and          *)
(* finalize).                                                               *)
THEOREM BudgetsAreRespected == Spec => []BudgetRespected
<1>1. LedgerInv => BudgetRespected
  BY DEF LedgerInv
<1> QED BY <1>1, LedgerInvHolds, PTL

(* Rows stay and keep what they were reserved for; one that is finalized is *)
(* final, and until then its charge can only become less.                   *)
RowsGoForward ==
  \A i \in Ids : ledger[i] # None =>
    /\ ledger'[i] # None /\ ledger'[i].request = ledger[i].request
    /\ ledger'[i].budget = ledger[i].budget /\ ledger'[i].reserved = ledger[i].reserved
    /\ ledger[i].status = "FINALIZED" => ledger'[i] = ledger[i]
    /\ Within(Charged(ledger'[i]), Charged(ledger[i]))

(* finalize, first or again, takes its row forward.                         *)
LEMMA FinalizeGoesForward ==
  ASSUME SandboxTypes, LedgerTypes, NEW i \in Ids, NEW request, NEW actual \in Usages,
         CanFinalize(i, request, actual), ledger' = Finalized(i, actual)
  PROVE  RowsGoForward
<1> SUFFICES ASSUME NEW j \in Ids, ledger[j] # None
             PROVE  /\ ledger'[j] # None /\ ledger'[j].request = ledger[j].request
                    /\ ledger'[j].budget = ledger[j].budget
                    /\ ledger'[j].reserved = ledger[j].reserved
                    /\ ledger[j].status = "FINALIZED" => ledger'[j] = ledger[j]
                    /\ Within(Charged(ledger'[j]), Charged(ledger[j]))
  BY DEF RowsGoForward
<1>1. ledger[j] \in Rows /\ ledger[i] \in Rows
  BY DEF SandboxTypes, CanFinalize
<1>2. CASE j # i
  <2>1. ledger'[j] = ledger[j]
    BY <1>2 DEF SandboxTypes, Finalized
  <2>2. Charged(ledger[j]) \in Usages
    BY <1>1 DEF Charged, Rows, LedgerTypes
  <2>3. Within(Charged(ledger[j]), Charged(ledger[j]))
    BY <2>2, BudgetAssumption DEF Within, Usages
  <2> QED BY <2>1, <2>3
<1>3. CASE j = i
  <2> DEFINE row == [ledger[i] EXCEPT !.status = "FINALIZED", !.actual = actual]
  <2>1. ledger'[i] = row
    BY DEF SandboxTypes, Finalized
  <2>2. /\ row \in Rows /\ row # None /\ row.request = ledger[i].request
        /\ row.budget = ledger[i].budget /\ row.reserved = ledger[i].reserved
        /\ row.status = "FINALIZED" /\ row.actual = actual
    BY <1>1, BudgetNone DEF Rows
  <2>3. ledger[i].status = "FINALIZED" => row = ledger[i]
    BY <1>1 DEF CanFinalize, Rows
  <2> HIDE DEF row
  <2>4. Charged(row) = actual
    BY <2>2 DEF Charged
  <2>5. Within(actual, Charged(ledger[i]))
    <3>1. CASE ledger[i].status = "FINALIZED"
      BY <3>1, BudgetAssumption DEF CanFinalize, Charged, Within, Usages
    <3>2. CASE ledger[i].status # "FINALIZED"
      BY <3>2 DEF CanFinalize, Charged
    <3> QED BY <3>1, <3>2
  <2> QED BY <1>3, <2>1, <2>2, <2>3, <2>4, <2>5
<1> QED BY <1>2, <1>3

(* The ledger only goes forward: a reservation is neither lost nor reused,  *)
(* a settlement is never changed, and no settlement charges more than was   *)
(* reserved, for any calls that share an id, fail or die (budget.py).       *)
THEOREM LedgerGoesForward == Spec => [][RowsGoForward]_vars
<1>1. ASSUME SandboxInv, LedgerInv, Next PROVE RowsGoForward
  <2>0. /\ SandboxTypes /\ LedgerTypes
        /\ \A a \in Attempts : pc[a] # "idle" => call[a] \in Calls
    BY <1>1 DEF SandboxInv, SandboxTypes, LedgerInv
  <2>1. ASSUME NEW i \in Ids, ledger[i] # None PROVE Within(Charged(ledger[i]), Charged(ledger[i]))
    <3>1. Charged(ledger[i]) \in Usages
      BY <2>0, <2>1 DEF Charged, Rows, LedgerTypes, SandboxTypes
    <3> QED BY <3>1, BudgetAssumption DEF Within, Usages
  <2>2. CASE ledger' = ledger
    BY <2>1, <2>2 DEF RowsGoForward
  <2>3. ASSUME NEW a \in Attempts, Reserve(a), ledger' # ledger PROVE RowsGoForward
    <3>1. ledger[call[a].id] = None /\ ledger' = Reserved(call[a].id, Want(a))
      BY <2>3 DEF Reserve, CanReserve
    <3>2. \A i \in Ids : ledger[i] # None => ledger'[i] = ledger[i]
      BY <2>0, <3>1 DEF Reserved, SandboxTypes
    <3> QED BY <2>1, <3>2 DEF RowsGoForward
  <2>4. ASSUME NEW a \in Attempts, NEW actual \in Usages, Finalize(a, actual), ledger' # ledger
        PROVE  RowsGoForward
    <3>1. call[a].id \in Ids
      BY <2>0, <2>4 DEF Finalize, Calls
    <3> QED BY <2>0, <2>4, <3>1, FinalizeGoesForward DEF Finalize
  <2>5. ASSUME NEW a \in Attempts, FinalizeConservatively(a), ledger' # ledger PROVE RowsGoForward
    <3>1. call[a].id \in Ids /\ call[a].usage \in Usages
      BY <2>0, <2>5 DEF FinalizeConservatively, Calls
    <3> QED BY <2>0, <2>5, <3>1, FinalizeGoesForward DEF FinalizeConservatively, ConservativeUsage
  <2> QED BY <1>1, <2>2, <2>3, <2>4, <2>5 DEF Next, Begin, Propose, Crash
<1>2. SandboxInv /\ LedgerInv /\ [Next]_vars => [RowsGoForward]_vars
  BY <1>1
<1> QED BY <1>2, SandboxInvHolds, LedgerInvHolds, PTL DEF Spec

-----------------------------------------------------------------------------
(* The release of a candidate.                                              *)

Stages == {"idle", "canary", "promoting", "promoted", "rolling_back", "rolled_back", "failed"}
Subjects == Candidates \cup {Base}
Transitions == [state: States, subject: Subjects]
Recorded == {chain[j].state : j \in DOMAIN chain}
Reached == {"generated", "validated", "proposed", "approved", "canary"}

(* The states that a chain passes before it is in a state.                  *)
Prior(state) ==
  CASE state \in {"none", "generated"} -> {state} \ {"none"}
    [] state \in {"validated", "rejected"} -> {"generated", state}
    [] state = "proposed" -> {"generated", "validated", "proposed"}
    [] state = "approved" -> {"generated", "validated", "proposed", "approved"}
    [] OTHER -> Reached

LifeTypes ==
  /\ chain \in Seq(Transitions)
  /\ deployed \in Subjects
  /\ decisions \subseteq Decisions
  /\ stage \in [Callers -> Stages]
  /\ work \in [Callers -> Subjects]

LifeInv ==
  /\ LifeTypes
  /\ Prior(LastState) \subseteq Recorded
  /\ decisions # {} => Reached \subseteq Recorded
  /\ \A d \in decisions : d.passed /\ Passed(d.evidence)
  /\ \A k \in Callers :
       /\ stage[k] = "canary" => Reached \subseteq Recorded /\ work[k] \in Candidates
       /\ stage[k] \in {"promoting", "promoted"} => \E d \in decisions : d.candidate = work[k]
  /\ deployed # Base => \E d \in decisions : d.candidate = deployed

(* An allowed transition extends the record of the states before.           *)
LEMMA AppendStep ==
  ASSUME chain \in Seq(Transitions), Prior(LastState) \subseteq Recorded,
         NEW state \in States, NEW subject \in Subjects,
         MayAppend(state), AppendTransition(state, subject)
  PROVE  /\ chain' \in Seq(Transitions) /\ LastState' = state /\ Last(chain)'.subject = subject
         /\ Recorded \subseteq Recorded' /\ Prior(LastState)' \subseteq Recorded'
<1> DEFINE entry == [state |-> state, subject |-> subject]
<1>1. entry \in Transitions /\ entry.state = state /\ entry.subject = subject
  BY DEF Transitions
<1>2. chain' = Append(chain, entry)
  BY DEF AppendTransition
<1> HIDE DEF entry
<1>3. /\ chain' \in Seq(Transitions) /\ Len(chain') = Len(chain) + 1 /\ Len(chain) \in Nat
      /\ DOMAIN chain = 1..Len(chain) /\ DOMAIN chain' = 1..(Len(chain) + 1)
      /\ chain'[Len(chain) + 1] = entry
      /\ \A j \in 1..Len(chain) : chain'[j] = chain[j]
  BY <1>1, <1>2
<1>4. chain' # <<>> /\ Last(chain') = entry
  BY <1>3 DEF Last
<1>5. LastState' = state
  BY <1>1, <1>4 DEF LastState
<1>6. Recorded \subseteq Recorded' /\ state \in Recorded'
  <2>1. 1..Len(chain) \subseteq 1..(Len(chain) + 1) /\ Len(chain) + 1 \in 1..(Len(chain) + 1)
    BY <1>3
  <2> QED BY <1>1, <1>3, <2>1 DEF Recorded
<1>7. Prior(state) \subseteq Prior(LastState) \cup {state}
  BY DEF MayAppend, Allowed, Prior, Reached
<1> QED BY <1>1, <1>3, <1>4, <1>5, <1>6, <1>7

(* The canary's ratio is rounded down, so a rounded ratio that meets the    *)
(* threshold does so exactly.                                               *)
LEMMA RoundedRatio ==
  ASSUME NEW a \in Nat, NEW b \in Nat \ {0}, NEW m \in Nat, a \div b >= m
  PROVE  a >= m * b
<1>1. b * (a \div b) <= a /\ a \div b \in Nat
  OBVIOUS
<1>2. b * m <= b * (a \div b)
  BY <1>1
<1> QED BY <1>1, <1>2

(* A transition recorded outside canary and promote.                        *)
LEMMA RecordStep ==
  ASSUME LifeInv, NEW state \in States, NEW c \in Candidates, Record(state, c)
  PROVE  LifeInv'
<1>1. MayAppend(state) /\ AppendTransition(state, c) /\ UNCHANGED <<deployed, decisions, expired, stage, work>>
  BY DEF Record
<1>2. /\ chain' \in Seq(Transitions) /\ Recorded \subseteq Recorded' /\ Prior(LastState)' \subseteq Recorded'
  BY <1>1, AppendStep DEF LifeInv, LifeTypes, Subjects
<1> QED BY <1>1, <1>2 DEF LifeInv, LifeTypes, Passed

(* A caller goes on without recording, deploying or deciding anything, but  *)
(* may have put the base back in service.                                   *)
LEMMA StageStep ==
  ASSUME LifeInv, NEW k \in Callers, NEW label \in Stages \ {"canary", "promoting", "promoted"},
         Proceed(k, label), UNCHANGED <<chain, decisions, work>>, deployed' \in {deployed, Base}
  PROVE  LifeInv'
<1>1. /\ stage' \in [Callers -> Stages] /\ stage'[k] = label
      /\ \A m \in Callers \ {k} : stage'[m] = stage[m]
  BY DEF Proceed, LifeInv, LifeTypes
<1>2. LifeTypes'
  BY <1>1 DEF LifeInv, LifeTypes, Subjects
<1>3. Recorded' = Recorded /\ LastState' = LastState
  BY DEF Recorded, LastState
<1>4. ASSUME NEW m \in Callers
      PROVE  /\ stage'[m] = "canary" => Reached \subseteq Recorded /\ work[m] \in Candidates
             /\ stage'[m] \in {"promoting", "promoted"} => \E d \in decisions : d.candidate = work[m]
  BY <1>1 DEF LifeInv
<1> QED BY <1>2, <1>3, <1>4 DEF LifeInv, Passed, Prior

(* Every call to the canary or the deployment keeps the invariant.          *)
LEMMA CallStep ==
  ASSUME LifeInv, NEW k \in Callers, Call(k)
  PROVE  LifeInv'
<1> USE DEF LifeInv
<1>1. /\ work[k] \in Subjects /\ chain \in Seq(Transitions) /\ Prior(LastState) \subseteq Recorded
  BY DEF LifeTypes
<1>2. ASSUME NEW c \in Candidates, StartCanary(k, c) PROVE LifeInv'
  <2>1. /\ MayAppend("canary") /\ AppendTransition("canary", c) /\ Proceed(k, "canary")
        /\ work' = [work EXCEPT ![k] = c] /\ UNCHANGED <<deployed, decisions, expired>>
    BY <1>2 DEF StartCanary
  <2>2. /\ chain' \in Seq(Transitions) /\ LastState' = "canary"
        /\ Recorded \subseteq Recorded' /\ Prior(LastState)' \subseteq Recorded'
    BY <1>1, <2>1, AppendStep DEF States, Subjects
  <2>3. Reached \subseteq Recorded'
    BY <2>2 DEF Prior
  <2>4. /\ stage' \in [Callers -> Stages] /\ stage'[k] = "canary"
        /\ work' \in [Callers -> Subjects] /\ work'[k] = c
        /\ \A m \in Callers \ {k} : stage'[m] = stage[m] /\ work'[m] = work[m]
    BY <2>1 DEF Proceed, LifeTypes, Stages, Subjects
  <2>5. LifeTypes'
    BY <2>1, <2>2, <2>4 DEF LifeTypes
  <2> QED BY <2>1, <2>2, <2>3, <2>4, <2>5 DEF Passed
<1>3. ASSUME NEW e \in Evidence, CanaryDecided(k, e) PROVE LifeInv'
  <2> DEFINE d == [candidate |-> work[k], evidence |-> e, passed |-> Passed(e)]
  <2>1. /\ stage[k] = "canary" /\ decisions' = decisions \cup {x \in {d} : x.passed}
        /\ Proceed(k, IF Passed(e) THEN "idle" ELSE "rolling_back")
        /\ UNCHANGED <<chain, deployed, expired, work>>
    BY <1>3 DEF CanaryDecided
  <2>2. work[k] \in Candidates /\ Reached \subseteq Recorded
    BY <2>1
  <2>3. Passed(e) \in BOOLEAN
    BY DEF Passed, Evidence
  <2>4. d \in Decisions /\ d.evidence = e /\ (d.passed <=> Passed(e))
    BY <2>2, <2>3 DEF Decisions
  <2> HIDE DEF d
  <2>5. decisions' \subseteq Decisions /\ decisions \subseteq decisions'
    BY <2>1, <2>4 DEF LifeTypes
  <2>6. \A x \in decisions' : x.passed /\ Passed(x.evidence)
    BY <2>1, <2>4
  <2>7. PICK label \in {"idle", "rolling_back"} : Proceed(k, label)
    BY <2>1
  <2>8. /\ stage' \in [Callers -> Stages] /\ stage'[k] = label
        /\ \A m \in Callers \ {k} : stage'[m] = stage[m]
    BY <2>7 DEF Proceed, LifeTypes, Stages
  <2>9. Recorded' = Recorded /\ LastState' = LastState
    BY <2>1 DEF Recorded, LastState
  <2>10. LifeTypes'
    BY <2>1, <2>5, <2>8 DEF LifeTypes
  <2>11. ASSUME NEW m \in Callers
         PROVE  /\ stage'[m] = "canary" => Reached \subseteq Recorded /\ work[m] \in Candidates
                /\ stage'[m] \in {"promoting", "promoted"} => \E x \in decisions' : x.candidate = work[m]
    BY <2>5, <2>7, <2>8
  <2>12. deployed # Base => \E x \in decisions' : x.candidate = deployed
    BY <2>5
  <2>13. \A x \in decisions' : x.passed /\ Passed(x.evidence)'
    BY <2>6 DEF Passed
  <2> QED BY <2>1, <2>2, <2>9, <2>10, <2>11, <2>12, <2>13 DEF Prior
<1>4. ASSUME NEW d \in decisions, StartPromotion(k, d) PROVE LifeInv'
  <2>1. /\ Proceed(k, "promoting") /\ work' = [work EXCEPT ![k] = d.candidate]
        /\ UNCHANGED <<chain, deployed, decisions, expired>>
    BY <1>4 DEF StartPromotion
  <2>2. d.candidate \in Subjects
    BY DEF LifeTypes, Decisions, Subjects
  <2>3. /\ stage' \in [Callers -> Stages] /\ stage'[k] = "promoting"
        /\ work' \in [Callers -> Subjects] /\ work'[k] = d.candidate
        /\ \A m \in Callers \ {k} : stage'[m] = stage[m] /\ work'[m] = work[m]
    BY <2>1, <2>2 DEF Proceed, LifeTypes, Stages
  <2>4. Recorded' = Recorded /\ LastState' = LastState
    BY <2>1 DEF Recorded, LastState
  <2>5. LifeTypes'
    BY <2>1, <2>3 DEF LifeTypes
  <2>6. \A m \in Callers :
          /\ stage'[m] = "canary" => Reached \subseteq Recorded /\ work'[m] \in Candidates
          /\ stage'[m] \in {"promoting", "promoted"} => \E x \in decisions : x.candidate = work'[m]
    BY <2>3
  <2> QED BY <2>1, <2>4, <2>5, <2>6 DEF Prior, Passed
<1>5. ASSUME DeploymentPromotes(k) PROVE LifeInv'
  <2>1. /\ stage[k] = "promoting" /\ deployed' = work[k] /\ Proceed(k, "promoted")
        /\ UNCHANGED <<chain, decisions, expired, work>>
    BY <1>5 DEF DeploymentPromotes
  <2>2. PICK d \in decisions : d.candidate = work[k]
    BY <2>1
  <2>3. /\ stage' \in [Callers -> Stages] /\ stage'[k] = "promoted"
        /\ \A m \in Callers \ {k} : stage'[m] = stage[m]
    BY <2>1 DEF Proceed, LifeTypes, Stages
  <2>4. Recorded' = Recorded /\ LastState' = LastState
    BY <2>1 DEF Recorded, LastState
  <2>5. LifeTypes'
    BY <1>1, <2>1, <2>3 DEF LifeTypes
  <2>6. \A m \in Callers :
          /\ stage'[m] = "canary" => Reached \subseteq Recorded /\ work[m] \in Candidates
          /\ stage'[m] \in {"promoting", "promoted"} => \E x \in decisions : x.candidate = work[m]
    BY <2>2, <2>3
  <2> QED BY <2>1, <2>2, <2>4, <2>5, <2>6 DEF Prior, Passed
<1>6. ASSUME DeploymentRefuses(k) PROVE LifeInv'
  <2>1. /\ stage[k] = "promoting" /\ deployed' \in {deployed, work[k]} /\ Proceed(k, "rolling_back")
        /\ UNCHANGED <<chain, decisions, expired, work>>
    BY <1>6 DEF DeploymentRefuses
  <2>2. PICK d \in decisions : d.candidate = work[k]
    BY <2>1
  <2>3. /\ stage' \in [Callers -> Stages] /\ stage'[k] = "rolling_back"
        /\ \A m \in Callers \ {k} : stage'[m] = stage[m]
    BY <2>1 DEF Proceed, LifeTypes, Stages
  <2>4. Recorded' = Recorded /\ LastState' = LastState
    BY <2>1 DEF Recorded, LastState
  <2>5. LifeTypes'
    BY <1>1, <2>1, <2>3 DEF LifeTypes
  <2>6. \A m \in Callers :
          /\ stage'[m] = "canary" => Reached \subseteq Recorded /\ work[m] \in Candidates
          /\ stage'[m] \in {"promoting", "promoted"} => \E x \in decisions : x.candidate = work[m]
    BY <2>3
  <2>7. deployed' # Base => \E x \in decisions : x.candidate = deployed'
    BY <2>1, <2>2
  <2> QED BY <2>1, <2>4, <2>5, <2>6, <2>7 DEF Prior, Passed
<1>7. ASSUME RecordPromoted(k) \/ RecordRollback(k) PROVE LifeInv'
  <2>1. /\ Proceed(k, "idle") /\ UNCHANGED <<deployed, decisions, expired, work>>
        /\ \/ UNCHANGED chain
           \/ \E s \in {"promoted", "rolled_back", "failed"}, x \in Subjects :
                MayAppend(s) /\ AppendTransition(s, x)
    BY <1>1, <1>7 DEF RecordPromoted, RecordRollback, RollbackState, Subjects
  <2>2. /\ chain' \in Seq(Transitions) /\ Recorded \subseteq Recorded'
        /\ Prior(LastState)' \subseteq Recorded'
    <3>1. CASE UNCHANGED chain
      BY <1>1, <3>1 DEF Recorded, LastState, Prior
    <3>2. ASSUME NEW s \in {"promoted", "rolled_back", "failed"}, NEW x \in Subjects,
                 MayAppend(s), AppendTransition(s, x)
          PROVE  /\ chain' \in Seq(Transitions) /\ Recorded \subseteq Recorded'
                 /\ Prior(LastState)' \subseteq Recorded'
      BY <1>1, <3>2, AppendStep DEF States
    <3> QED BY <2>1, <3>1, <3>2
  <2>3. /\ stage' \in [Callers -> Stages] /\ stage'[k] = "idle"
        /\ \A m \in Callers \ {k} : stage'[m] = stage[m]
    BY <2>1 DEF Proceed, LifeTypes, Stages
  <2>4. LifeTypes'
    BY <2>1, <2>2, <2>3 DEF LifeTypes
  <2>5. \A m \in Callers :
          /\ stage'[m] = "canary" => Reached \subseteq Recorded' /\ work[m] \in Candidates
          /\ stage'[m] \in {"promoting", "promoted"} => \E x \in decisions : x.candidate = work[m]
    BY <2>2, <2>3
  <2> QED BY <2>1, <2>2, <2>4, <2>5 DEF Passed
<1>8. ASSUME \/ CanaryUnavailable(k) \/ DeploymentRollsBack(k)
             \/ RollbackRaises(k) \/ CallerDies(k)
      PROVE  LifeInv'
  <2>1. PICK label \in {"rolling_back", "rolled_back", "failed", "idle"} : Proceed(k, label)
    BY <1>8 DEF CanaryUnavailable, DeploymentRollsBack, RollbackRaises, CallerDies
  <2>2. UNCHANGED <<chain, decisions, work>> /\ deployed' \in {deployed, Base}
    BY <1>8 DEF CanaryUnavailable, DeploymentRollsBack, RollbackRaises, CallerDies
  <2> QED BY <2>1, <2>2, StageStep DEF Stages
<1> QED BY <1>2, <1>3, <1>4, <1>5, <1>6, <1>7, <1>8 DEF Call

(* The invariant holds in every reachable state.                            *)
LEMMA LifeInvHolds == LifecycleSpec => []LifeInv
<1>1. LifecycleInit => LifeInv
  <2> SUFFICES ASSUME LifecycleInit PROVE LifeInv
    OBVIOUS
  <2>1. LastState = "none" /\ Prior("none") = {}
    BY DEF LifecycleInit, LastState, Prior
  <2> QED BY <2>1 DEF LifecycleInit, LifeInv, LifeTypes, Stages, Subjects
<1>2. LifeInv /\ [LifecycleNext]_lifecycleVars => LifeInv'
  <2> SUFFICES ASSUME LifeInv, [LifecycleNext]_lifecycleVars PROVE LifeInv'
    OBVIOUS
  <2>1. CASE UNCHANGED <<chain, deployed, decisions, stage, work>>
    <3>1. Recorded' = Recorded /\ LastState' = LastState
      BY <2>1 DEF Recorded, LastState
    <3> QED BY <2>1, <3>1 DEF LifeInv, LifeTypes, Passed, Prior
  <2>2. ASSUME NEW c \in Candidates,
               RecordCandidate(c) \/ RecordValidation(c) \/ RecordProposal(c) \/ Approve(c)
        PROVE  LifeInv'
    <3>1. \E s \in States : Record(s, c)
      BY <2>2 DEF RecordCandidate, RecordValidation, RecordProposal, Approve, States
    <3> QED BY <3>1, RecordStep
  <2> QED BY <2>1, <2>2, CallStep DEF LifecycleNext, Expire, lifecycleVars
<1> QED BY <1>1, <1>2, PTL DEF LifecycleSpec

(* What passed in parts per million meets the threshold exactly.            *)
LEMMA PassedMeets ==
  ASSUME NEW e \in Evidence, Passed(e)
  PROVE  MeetsThresholds(e)
<1>1. e.observations \in Nat /\ e.successes \in Nat
  BY LifecycleAssumption DEF Evidence
<1>2. e.observations # 0
  BY <1>1, LifecycleAssumption DEF Passed
<1>3. (e.successes * Million) \div e.observations >= MinSuccessPpm
  BY <1>2 DEF Passed
<1>4. e.successes * Million \in Nat /\ MinSuccessPpm \in Nat
  BY <1>1, LifecycleAssumption
<1>5. e.successes * Million >= MinSuccessPpm * e.observations
  BY <1>1, <1>2, <1>3, <1>4, RoundedRatio
<1> QED BY <1>5 DEF Passed, MeetsThresholds

(* The invariant implies the property.                                      *)
LEMMA LifeJustifies == LifeInv => ReleaseIsJustified
<1> SUFFICES ASSUME LifeInv, deployed # Base PROVE ReleaseIsJustified
  BY DEF ReleaseIsJustified
<1>1. PICK d \in decisions : d.candidate = deployed
  BY DEF LifeInv
<1>2. d.passed /\ MeetsThresholds(d.evidence)
  BY PassedMeets DEF LifeInv, LifeTypes, Decisions
<1>3. Reached \subseteq Recorded
  BY <1>1 DEF LifeInv
<1> QED BY <1>1, <1>2, <1>3 DEF ReleaseIsJustified, Reached, Recorded

(* Whatever is in service went through every stage on record, and its own   *)
(* canary met the thresholds, however many callers drive the lifecycle at   *)
(* once, die and come back.                                                 *)
THEOREM ReleasesAreJustified == LifecycleSpec => []ReleaseIsJustified
BY LifeInvHolds, LifeJustifies, PTL

=============================================================================
