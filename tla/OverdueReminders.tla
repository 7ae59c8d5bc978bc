-------------------------- MODULE OverdueReminders --------------------------
(***************************************************************************)
(* The reminders about a leave request that nobody decides                 *)
(* (LeaveLapseService.remindOverdue): every reviewer of the request is     *)
(* reminded once, on a shift of their own, when it has waited long enough, *)
(* and a resubmission starts the wait afresh.  A run reads the request,    *)
(* claims the reviewers who are on duty, and then sends; the next run may  *)
(* begin before it has ended.  No run reads one request for another.       *)
(***************************************************************************)
EXTENDS Naturals, FiniteSets

CONSTANTS
  Reviewers,     \* who may have to decide: a supervisor, the admins
  OnDuty,        \* isReviewerOnDuty: the hours of the day of each
  HoursInDay,
  ReminderHours, \* reviewReminderHours
  Jobs,          \* runs of the job under way at the same time
  MaxRounds,     \* bound: resubmissions
  MaxRoutes,     \* bound: changes of supervisor or admins
  MaxBreaks      \* bound: runs that are broken off

ASSUME ReminderAssumption ==
  /\ HoursInDay \in Nat \ {0} /\ ReminderHours \in Nat
  /\ OnDuty \in [Reviewers -> SUBSET (0..HoursInDay - 1)]
  /\ MaxRounds \in Nat /\ MaxRoutes \in Nat /\ MaxBreaks \in Nat

VARIABLES
  hour,        \* of the day
  progress,    \* of the request: "AWAITING" a reviewer, "NEEDS_REVISION", or "DECIDED"
  waited,      \* hours since filed or resubmitted, counted up to ReminderHours
  recipients,  \* whom the request goes to
  listed,      \* overdueNotifiedUserIds
  done,        \* overdueNotifiedAt is set
  round,       \* resubmissions so far
  sent,        \* reminders each reviewer has had in this round
  lost,        \* reviewers of this round claimed by a run that was broken off
  job,         \* where each run stands
  began,       \* runs begun within the hour
  limits       \* changes of recipients and stops so far

request == <<progress, waited, recipients, listed, done, round>>
remindVars == <<hour, request, sent, lost, job, began, limits>>

NotRunning == [pc |-> "idle"]

-----------------------------------------------------------------------------
RemindInit ==
  /\ hour = 0 /\ progress = "AWAITING" /\ waited = 0
  /\ recipients \in SUBSET Reviewers
  /\ listed = {} /\ done = FALSE /\ round = 0
  /\ sent = [r \in Reviewers |-> 0] /\ lost = {}
  /\ job = [n \in Jobs |-> NotRunning] /\ began = {}
  /\ limits = [routes |-> 0, stops |-> 0]

IsDue == progress = "AWAITING" /\ ~done /\ waited >= ReminderHours

\* The clock.  A run takes seconds and there is one every ten minutes, so a
\* request that is due meets one within the hour.
HourPasses ==
  /\ \A n \in Jobs : job[n] = NotRunning
  /\ IsDue => began # {}
  /\ began' = {}
  /\ hour' = (hour + 1) % HoursInDay
  /\ waited' = IF progress = "AWAITING" /\ waited < ReminderHours THEN waited + 1 ELSE waited
  /\ UNCHANGED <<progress, recipients, listed, done, round, sent, lost, job, limits>>

Decide(outcome) ==
  /\ progress = "AWAITING" /\ progress' = outcome
  /\ UNCHANGED <<hour, waited, recipients, listed, done, round, sent, lost, job, began, limits>>

\* Mutant: the list of a resubmitted request is not emptied.
EmptiedPartly == listed' = listed /\ done' = FALSE

Emptied == listed' = {} /\ done' = FALSE

Resubmit ==
  /\ progress = "NEEDS_REVISION" /\ round < MaxRounds
  /\ progress' = "AWAITING" /\ waited' = 0 /\ round' = round + 1
  /\ Emptied
  /\ sent' = [r \in Reviewers |-> 0] /\ lost' = {}
  /\ UNCHANGED <<hour, recipients, job, began, limits>>

\* The employee's supervisor changes, or an admin comes or goes.
Reroute(S) ==
  /\ limits.routes < MaxRoutes /\ S # recipients
  /\ recipients' = S
  /\ limits' = [limits EXCEPT !.routes = @ + 1]
  /\ UNCHANGED <<hour, progress, waited, listed, done, round, sent, lost, job, began>>

\* A run reads the requests that are due, their recipients, and who is on duty.
BeginJob(n) ==
  /\ job[n] = NotRunning /\ n \notin began /\ IsDue
  /\ began' = began \cup {n}
  /\ job' = [job EXCEPT ![n] =
       [ pc |-> "claim", listed |-> listed, to |-> recipients,
         ready |-> {r \in recipients \ listed : hour \in OnDuty[r]} ]]
  /\ UNCHANGED <<hour, request, sent, lost, limits>>

\* Mutant: overdueNotifiedAt is set with the first reminder.
AnyoneReminded(to, notified) == to \cap notified # {} \/ to = {}

EveryoneReminded(to, notified) == to \subseteq notified

\* Mutant: the claim asks only that the reminders are not finished.
NotFinished(seen) == ~done

\* The where of the claim.
StillAsRead(seen) == ~done /\ listed = seen

\* Claims those who are ready, when there is something to claim.
Claim(n) ==
  /\ job[n].pc = "claim"
  /\ LET c == job[n]
         notified == c.listed \cup c.ready
         all == EveryoneReminded(c.to, notified)
     IN  IF (c.ready # {} \/ all) /\ StillAsRead(c.listed)
           THEN /\ listed' = notified
                /\ done' = all
                /\ job' = [job EXCEPT ![n] =
                     IF c.ready = {} THEN NotRunning
                     ELSE [pc |-> "send", to |-> c.ready, round |-> round]]
           ELSE /\ job' = [job EXCEPT ![n] = NotRunning]
                /\ UNCHANGED <<listed, done>>
  /\ UNCHANGED <<hour, progress, waited, recipients, round, sent, lost, began, limits>>

Send(n) ==
  /\ job[n].pc = "send"
  /\ sent' = [r \in Reviewers |->
                sent[r] + (IF r \in job[n].to /\ job[n].round = round THEN 1 ELSE 0)]
  /\ job' = [job EXCEPT ![n] = NotRunning]
  /\ UNCHANGED <<hour, request, lost, began, limits>>

\* A reminder of this round that is claimed and not sent yet.
Coming(n, r) == job[n].pc = "send" /\ job[n].round = round /\ r \in job[n].to

\* A query or notifyUsers throws, or the server stops, before the claim or
\* between it and the sending.
StopJob(n) ==
  /\ job[n].pc \in {"claim", "send"} /\ limits.stops < MaxBreaks
  /\ lost' = IF job[n].pc = "send" /\ job[n].round = round THEN lost \cup job[n].to ELSE lost
  /\ job' = [job EXCEPT ![n] = NotRunning]
  /\ limits' = [limits EXCEPT !.stops = @ + 1]
  /\ UNCHANGED <<hour, request, sent, began>>

RemindNext ==
  \/ HourPasses
  \/ \E outcome \in {"NEEDS_REVISION", "DECIDED"} : Decide(outcome)
  \/ Resubmit
  \/ \E S \in SUBSET Reviewers : Reroute(S)
  \/ \E n \in Jobs : BeginJob(n) \/ Claim(n) \/ Send(n) \/ StopJob(n)

\* Time passes, the job runs, and a run that is not stopped ends.
RemindSpec ==
  /\ RemindInit /\ [][RemindNext]_remindVars
  /\ WF_remindVars(HourPasses)
  /\ \A n \in Jobs : WF_remindVars(BeginJob(n) \/ Claim(n) \/ Send(n))

-----------------------------------------------------------------------------
\* Runs that overlap and resubmissions between them never remind a reviewer
\* twice of the same wait ("two overlapping runs can't both send the same
\* reviewer the same reminder").
RemindedOnce == \A r \in Reviewers : sent[r] <= 1

\* A claim is kept: whoever is listed as reminded has had the reminder or is
\* about to, unless the run that claimed it was broken off before it sent (a
\* claim is never taken back, so that reminder is gone for this wait).
ClaimsAreKept ==
  \A r \in Reviewers :
    r \in listed => sent[r] = 1 \/ r \in lost \/ \E n \in Jobs : Coming(n, r)

\* No run under way has read the recipients before r was one of them.
KnownTo(r) == \A n \in Jobs : job[n].pc = "claim" => r \in job[n].to

\* A reviewer the request waits for in vain is reminded ("one who is off duty
\* when it comes due gets it once their next shift starts"), unless the run
\* that claimed the reminder was broken off before sending it.  A run broken
\* off before its claim loses nothing.
EventuallyReminded ==
  \A r \in Reviewers :
    OnDuty[r] # {} =>
      ( (progress = "AWAITING" /\ r \in recipients /\ ~done /\ KnownTo(r))
          ~> (progress # "AWAITING" \/ r \notin recipients \/ sent[r] = 1 \/ r \in lost) )
=============================================================================
