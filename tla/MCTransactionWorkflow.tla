------------------------ MODULE MCTransactionWorkflow ------------------------
(***************************************************************************)
(* Plans of up to three steps for TransactionWorkflow: every pair of the   *)
(* step kinds below, and longer plans that mix compensations.              *)
(***************************************************************************)
EXTENDS TransactionWorkflow

Route(safe, attempts, final) ==
  [safe |-> safe, attempts |-> attempts, final |-> final]

OneRoute(attempts) == <<Route({}, attempts, {})>>

Step(risk, approval, timed, comp, unknown, routed, routes) ==
  [risk |-> risk, approval |-> approval, timed |-> timed, compensation |-> comp,
   unknown |-> unknown, routed |-> routed, routes |-> routes]

(* A routed read with a fallback that is safe on one code only, and retries *)
(* that the other code ends.                                                *)
Read == Step("READ_ONLY", FALSE, FALSE, "none", {}, TRUE,
             <<Route({"e1"}, 2, {"e2"}), Route({}, 1, {})>>)
Plain == Step("REVERSIBLE_WRITE", FALSE, FALSE, "plain", {}, FALSE, OneRoute(2))
Referenced == Step("REVERSIBLE_WRITE", FALSE, FALSE, "referenced", {}, TRUE, OneRoute(1))
Permanent == Step("CONSEQUENTIAL_WRITE", TRUE, TRUE, "none", {}, FALSE, OneRoute(1))
Approved == Step("CONSEQUENTIAL_WRITE", TRUE, FALSE, "plain", {}, FALSE, OneRoute(1))
Unknown == Step("CONSEQUENTIAL_WRITE", FALSE, FALSE, "plain", {"e1"}, FALSE, OneRoute(1))

Kinds == {Read, Plain, Referenced, Permanent, Approved, Unknown}

Plan(steps, verification, level) ==
  [steps |-> steps, verification |-> verification, level |-> level]

(* Every one- and two-step plan without verification, and two-step plans    *)
(* that are verified, or reconciled after an unknown effect.                *)
ShortPlans ==
  {Plan(steps, FALSE, 0) : steps \in {<<a>> : a \in Kinds} \cup (Kinds \X Kinds)}
    \cup {Plan(<<a, b>>, TRUE, 2) : a \in {Read, Plain}, b \in {Unknown, Permanent}}
    \cup {Plan(<<Unknown>>, TRUE, 0)}

(* Three writes, so that compensation has an order and can fail half way.   *)
LongPlans ==
  {Plan(<<Plain, Referenced, Approved>>, FALSE, 0),
   Plan(<<Plain, Permanent, Plain>>, FALSE, 0),
   Plan(<<Unknown, Read, Plain>>, TRUE, 2)}

AllPlans == ShortPlans \cup LongPlans

=============================================================================
