----------------------------- MODULE MCCronJobs -----------------------------
(***************************************************************************)
(* The two kinds of job that a cron starts.  They share no state, so a      *)
(* behaviour follows one of them from its initial states and leaves the     *)
(* other's variables at one initial value.                                  *)
(*                                                                         *)
(* RevenueShare: six creators with equal scores share a month, a second     *)
(* learner of the first creator may finish meanwhile, and two calculations  *)
(* are asked for different amounts.                                         *)
(*                                                                         *)
(* Reminders: from Friday noon to Saturday morning, universal time, users  *)
(* east and west of it whose weekend begins at another time, on and off the *)
(* hours.                                                                   *)
(***************************************************************************)
EXTENDS RevenueShare, Reminders, TLC

MCCreators == 1..6
MCSessions == 1..7
MCCreatorOf == [s \in MCSessions |-> IF s = 7 THEN 1 ELSE s]
MCUserOf == [s \in MCSessions |-> s]
MCScoreOf == [s \in MCSessions |-> 1]
MCEarly == 1..6
MCNoEarnings == [c \in MCCreators |-> 0]

\* Nothing but a month, which billing-service answers with 80 or not at all:
\* six shares of 6 2/3, or a negative pool; and parameters out of range, in a
\* month that only the first creator may have two learners in.
MCRequests ==
  { [gross |-> -3, rate |-> 0, cap |-> 0, learners |-> 0],
    [gross |-> 62, rate |-> 150, cap |-> 25, learners |-> 2] }
MCRevenues == {80}
-----------------------------------------------------------------------------
P(kind, zone, weekday, weekend, reminder) ==
  [kind |-> kind, zone |-> zone, weekday |-> weekday, weekend |-> weekend, reminder |-> reminder]

\* Saturday 03:00 in the far east is Friday noon; an hour at and after midnight;
\* hours that were not computed; reminders off the quarters, at five past
\* midnight, and unreadable.  It begins as one window is about to open and
\* another user's day to begin.
MCProfiles ==
  { P("study", 14 * Hour, 20, 3, 21 * Hour),
    P("study", -8 * Hour, 15, 0, 21 * Hour),
    P("study", 5 * Hour + 3 * Window, -1, -1, Hour \div 6),
    P("streak", 7 * Hour, -1, -1, 20 * Hour + Hour \div 6),
    P("streak", 11 * Hour + 2 * Window, -1, -1, Hour \div 12),
    P("streak", 0, 9, 9, -1) }
MCStart == 4 * Day + 12 * Hour + 2 * Window - 1
MCEnd == 5 * Day + 9 * Hour
-----------------------------------------------------------------------------
VARIABLE looked  \* the job that a behaviour follows

FirstProfile == profile = P("streak", 0, 9, 9, -1) /\ due

CronJobsInit ==
  /\ Init /\ RemindersInit
  /\ looked \in {"revenue", "reminders"}
  /\ looked = "revenue" => FirstProfile

CronJobsNext ==
  \/ looked = "revenue" /\ Next /\ UNCHANGED remindersVars /\ UNCHANGED looked
  \/ looked = "reminders" /\ RemindersNext /\ UNCHANGED vars /\ UNCHANGED looked

CronJobsSpec == CronJobsInit /\ [][CronJobsNext]_<<vars, remindersVars, looked>>

Symmetry == Permutations(Calculations) \cup Permutations(Handlers)
=============================================================================
