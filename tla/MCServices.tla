------------------------------ MODULE MCServices ------------------------------
(***************************************************************************)
(* Small instances of the services beside the payment paths: the jobs that *)
(* move money on their own, invoices and their card checkouts, and the     *)
(* mirror of onchain agreements.  Their modules share no variable, so an   *)
(* execution of the instance is an execution of one of them, which the     *)
(* initial state chooses; the others stay as they were.                    *)
(***************************************************************************)
EXTENDS PayrollSchedule, RecurringTransfer, YieldRedemption, UnifiedTransfer,
        MoneyRules, InvoiceCheckout, AgreementMirror, TLC

CONSTANTS
  Machines,   \* which of them the instance runs
  w1, w2, r1, d1, k1, k2, t1, t2, i1, c1, x1

VARIABLE machine

MCCost == (k1 :> 1 @@ k2 :> 2)

MCInflow == (t1 :> 2 @@ t2 :> 3)

MCInvoiceOf == (c1 :> i1)

MCTotal == (i1 :> 1)

MCReceived == (c1 :> 1 @@ x1 :> 1)

Init ==
  /\ machine \in Machines
  /\ ScheduleInit /\ RecurringInit /\ YieldInit /\ UnifiedInit /\ RulesInit
  /\ CheckoutInit /\ MirrorInit
  /\ machine # "recurring" => ~internal
  /\ machine # "agreements" => chain.module = "NONE"

Next ==
  /\ UNCHANGED machine
  /\ IF machine = "schedule" THEN ScheduleNext ELSE UNCHANGED scheduleVars
  /\ IF machine = "recurring" THEN RecurringNext ELSE UNCHANGED recurringVars
  /\ IF machine = "yield" THEN YieldNext ELSE UNCHANGED yieldVars
  /\ IF machine = "unified" THEN UnifiedNext ELSE UNCHANGED unifiedVars
  /\ IF machine = "rules" THEN RulesNext ELSE UNCHANGED rulesVars
  /\ IF machine = "invoices" THEN CheckoutNext ELSE UNCHANGED checkoutVars
  /\ IF machine = "agreements" THEN MirrorNext ELSE UNCHANGED mirrorVars

Spec ==
  Init /\ [][Next]_<<machine, scheduleVars, recurringVars, yieldVars, unifiedVars, rulesVars,
                    checkoutVars, mirrorVars>>

Symmetric == Permutations({w1, w2})
=============================================================================
