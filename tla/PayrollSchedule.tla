--------------------------- MODULE PayrollSchedule ---------------------------
(***************************************************************************)
(* One payroll schedule: the daily sweep of lib/payroll/scheduler.ts,      *)
(* which generates a draft run for nextRunDate and then advances it, the   *)
(* edits of lib/payroll/schedules.ts, and the deletion of a draft.         *)
(*                                                                         *)
(* Dates are period numbers: computeNextRunDate is +1.  Sweeps overlap and *)
(* each works from the schedule it listed.  Two of them cannot generate    *)
(* the same date (@@unique([payrollScheduleId, scheduledFor])), but the    *)
(* advance that follows is a blind write of a date computed from what was  *)
(* listed, so nextRunDate can go back; the question is what it may pass.   *)
(***************************************************************************)
EXTENDS Naturals

CONSTANTS
  Sweepers,   \* concurrent sweeps
  LastPeriod, \* bound: the last period that falls due
  MaxFailures \* bound: generations that fail, crashes, and edits of the date

VARIABLES
  nextRunDate, \* PayrollSchedule.nextRunDate
  active,      \* PayrollSchedule.active
  drafts,      \* periods with a PayrollRun row that is still a draft
  approvedRuns, \* periods with a PayrollRun row that is not, and stays for good
  everMade,    \* periods a run was ever generated for
  excused,     \* periods an edit of nextRunDate moved past
  sweeper,     \* sweeper[s]: what the sweep s does with the schedule
  failures     \* failures, crashes and edits of the date so far

scheduleVars == <<nextRunDate, active, drafts, approvedRuns, everMade, excused, sweeper, failures>>

ASSUME ScheduleAssumption == LastPeriod \in Nat /\ MaxFailures \in Nat

-----------------------------------------------------------------------------
Resting == [pc |-> "idle", date |-> 0]

\* createPayrollSchedule
ScheduleInit ==
  /\ nextRunDate = 1
  /\ active = TRUE
  /\ drafts = {}
  /\ approvedRuns = {}
  /\ everMade = {}
  /\ excused = {}
  /\ sweeper = [s \in Sweepers |-> Resting]
  /\ failures = 0

GoOn(s, pc) == sweeper' = [sweeper EXCEPT ![s].pc = pc]

Rest(s) == sweeper' = [sweeper EXCEPT ![s] = Resting]

-----------------------------------------------------------------------------
ListDue(s) ==
  /\ sweeper[s].pc = "idle"
  /\ active
  /\ nextRunDate <= LastPeriod
  /\ sweeper' = [sweeper EXCEPT ![s] = [pc |-> "look", date |-> nextRunDate]]
  /\ UNCHANGED <<nextRunDate, active, drafts, approvedRuns, everMade, excused, failures>>

\* Is there a run for the date already?
LookUp(s) ==
  /\ sweeper[s].pc = "look"
  /\ GoOn(s, IF sweeper[s].date \in drafts \cup approvedRuns THEN "recheck" ELSE "generate")
  /\ UNCHANGED <<nextRunDate, active, drafts, approvedRuns, everMade, excused, failures>>

\* generateDraftRunFromSchedule; the loser of a race violates the constraint.
Generate(s) ==
  LET d == sweeper[s].date
  IN  /\ sweeper[s].pc = "generate"
      /\ IF d \in drafts \cup approvedRuns
         THEN GoOn(s, "recheck") /\ UNCHANGED <<drafts, everMade>>
         ELSE /\ drafts' = drafts \cup {d}
              /\ everMade' = everMade \cup {d}
              /\ GoOn(s, "advance")
      /\ UNCHANGED <<nextRunDate, active, approvedRuns, excused, failures>>

\* Mutant: the schedule advances after a failure too.
AfterFailure_Advance == "advance"

\* Where the sweep goes after a generation that failed: to the next schedule.
AfterFailure == "idle"

GenerateFails(s) ==
  /\ sweeper[s].pc = "generate"
  /\ failures < MaxFailures
  /\ failures' = failures + 1
  /\ GoOn(s, AfterFailure)
  /\ UNCHANGED <<nextRunDate, active, drafts, approvedRuns, everMade, excused>>

\* The read of advanceIfStillDue; its write is AdvanceSchedule.
RecheckDue(s) ==
  /\ sweeper[s].pc = "recheck"
  /\ GoOn(s, IF nextRunDate = sweeper[s].date THEN "advance" ELSE "idle")
  /\ UNCHANGED <<nextRunDate, active, drafts, approvedRuns, everMade, excused, failures>>

AdvanceSchedule(s) ==
  /\ sweeper[s].pc = "advance"
  /\ nextRunDate' = sweeper[s].date + 1
  /\ Rest(s)
  /\ UNCHANGED <<active, drafts, approvedRuns, everMade, excused, failures>>

SweeperDies(s) ==
  /\ sweeper[s].pc # "idle"
  /\ failures < MaxFailures
  /\ failures' = failures + 1
  /\ Rest(s)
  /\ UNCHANGED <<nextRunDate, active, drafts, approvedRuns, everMade, excused>>

-----------------------------------------------------------------------------
\* A draft is deleted, or goes on to approval (PayrollRun).
DropDraft(d) ==
  /\ d \in drafts
  /\ drafts' = drafts \ {d}
  /\ UNCHANGED <<nextRunDate, active, approvedRuns, everMade, excused, sweeper, failures>>

KeepDraft(d) ==
  /\ d \in drafts
  /\ drafts' = drafts \ {d}
  /\ approvedRuns' = approvedRuns \cup {d}
  /\ UNCHANGED <<nextRunDate, active, everMade, excused, sweeper, failures>>

\* updatePayrollSchedule
SetActive ==
  /\ active' = ~active
  /\ UNCHANGED <<nextRunDate, drafts, approvedRuns, everMade, excused, sweeper, failures>>

SetDate(d) ==
  /\ failures < MaxFailures
  /\ failures' = failures + 1
  /\ nextRunDate' = d
  /\ excused' = excused \cup {e \in 1..LastPeriod : e < d}
  /\ UNCHANGED <<active, drafts, approvedRuns, everMade, sweeper>>

-----------------------------------------------------------------------------
SweeperStep(s) ==
  \/ ListDue(s)
  \/ LookUp(s)
  \/ Generate(s)
  \/ GenerateFails(s)
  \/ RecheckDue(s)
  \/ AdvanceSchedule(s)
  \/ SweeperDies(s)

ScheduleNext ==
  \/ \E s \in Sweepers : SweeperStep(s)
  \/ \E d \in 1..LastPeriod : DropDraft(d) \/ KeepDraft(d) \/ SetDate(d)
  \/ SetActive

ScheduleSpec == ScheduleInit /\ [][ScheduleNext]_scheduleVars

-----------------------------------------------------------------------------
ScheduleTypeOK ==
  /\ nextRunDate \in Nat
  /\ active \in BOOLEAN
  /\ drafts \subseteq Nat /\ approvedRuns \subseteq Nat
  /\ everMade \subseteq Nat /\ excused \subseteq Nat
  /\ sweeper \in [Sweepers ->
       [pc : {"idle", "look", "generate", "recheck", "advance"}, date : Nat]]
  /\ failures \in Nat

\* No pay period is passed over: every period before nextRunDate had its draft
\* generated, unless an edit of the schedule moved past it, even when sweeps
\* overlap, die, fail to generate, or write back a date they listed long ago.
NoPeriodSkipped ==
  \A d \in 1..(nextRunDate - 1) : d \in everMade \cup excused

=============================================================================
