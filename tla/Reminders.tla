----------------------------- MODULE Reminders -----------------------------
(***************************************************************************)
(* notification-service: the two crons that remind users to study.          *)
(*                                                                         *)
(* Every 15 minutes Cloud Scheduler publishes a tick without a time in it;  *)
(* Pub/Sub delivers it at least once and the handler takes the time of the  *)
(* delivery.  It lists the users, then decides about each of them on his    *)
(* own.  Users share nothing, so one user is modelled, of any profile, with *)
(* one of the two crons.  What is pushed may be pushed again: dedupeSkip    *)
(* looks for a row of notification_log that no code writes.                 *)
(*                                                                         *)
(* Time is in units small enough that ticks and send times fall on even     *)
(* instants while deliveries, which come at no round time, are at odd ones. *)
(* Zones keep one offset; a user without a streak, or without a device,     *)
(* gets nothing and is left out.  Names that every module has carry this    *)
(* one's, so that CronJobsProofs can extend it next to RevenueShare.        *)
(***************************************************************************)
EXTENDS Integers

CONSTANTS
  Profiles,    \* the settings a user may have
  Hour,        \* units in an hour
  Start, End,  \* the time considered, day 0 being a Monday
  Handlers,    \* ticks handled at once
  MaxDelay     \* bound on the units from the firing of a tick to its handling

Day == 24 * Hour
Window == Hour \div 4

\* An hour is -1 when it was not computed; a reminder is -1 when parseHM cannot
\* read it.  Zones and reminders are on even units.
ASSUME ProfilesAssumption ==
  /\ Profiles \subseteq [kind : {"study", "streak"}, zone : Int, weekday : -1..23,
                         weekend : -1..23, reminder : -1..(Day - 1)]
  /\ \A p \in Profiles : p.zone % 2 = 0 /\ (p.reminder >= 0 => p.reminder % 2 = 0)
ASSUME TimeAssumption ==
  /\ Hour \in Nat /\ Hour > 0 /\ Hour % 8 = 0
  /\ Start \in Nat /\ End \in Nat /\ Start <= End /\ MaxDelay \in Nat

VARIABLES
  profile,     \* the user
  now,         \* universal time
  due,         \* he has cards to review
  studied,     \* last_studied_date, a day number
  ticks,       \* ticks fired and not acknowledged
  run,         \* for each handler, the delivery it works on and what it listed
  pushes,      \* pushes of the user's local day, 2 standing for more
  calm,        \* today, every tick was handled once and at once
  entitled     \* the window has been opened, and all is well since

remindersVars == <<profile, now, due, studied, ticks, run, pushes, calm, entitled>>
-----------------------------------------------------------------------------
Local(t) == t + profile.zone
DayOf(l) == l \div Day
Today == DayOf(Local(now))
TimeOfDay == Local(now) % Day
Weekend(d) == d % 7 \in {5, 6}

Idle == [busy |-> FALSE, at |-> 0, studied |-> 0]
Run == [busy : BOOLEAN, at : Int, studied : Int]

RemindersInit ==
  /\ profile \in Profiles
  /\ now = Start
  /\ due \in BOOLEAN
  /\ studied = DayOf(Start + profile.zone) - 1
  /\ ticks = {}
  /\ run = [h \in Handlers |-> Idle]
  /\ pushes = 0
  /\ calm = FALSE
  /\ entitled = FALSE
-----------------------------------------------------------------------------
(* When a push is due *)

\* Wrong on purpose: no default.
ReminderTimeAsGiven == profile.reminder

\* parseHM, 21:00 for what it cannot read.
ReminderTime == IF profile.reminder < 0 THEN 21 * Hour ELSE profile.reminder

\* Wrong on purpose: the day of the week is that of universal time.
PickOptimalHourUTC(l) ==
  IF Weekend(DayOf(l - profile.zone)) THEN profile.weekend ELSE profile.weekday

PickOptimalHour(l) == IF Weekend(DayOf(l)) THEN profile.weekend ELSE profile.weekday

\* Without an hour, the one before the reminder, and 20 when that is yesterday.
OptimalHour(l) ==
  LET before == ReminderTime \div Hour - 1
  IN  IF PickOptimalHour(l) >= 0 THEN PickOptimalHour(l)
      ELSE IF before >= 0 THEN before ELSE 20

\* Anchored to the day of local time l; for hour 0 it is the evening before.
SendTime(l) ==
  DayOf(l) * Day + IF profile.kind = "study" THEN OptimalHour(l) * Hour - Window
                   ELSE ReminderTime

\* Wrong on purpose: a quarter of an hour on both sides.
InWindowAround(l, send) == send - Window <= l /\ l <= send + Window

InWindow(l, send) == send - Window <= l /\ l <= send

\* The types; and a send time is on the local day, or a quarter of an hour before
\* it for the hour 0.
RemindersTypeOK ==
  /\ profile \in Profiles
  /\ now \in Start..End
  /\ due \in BOOLEAN
  /\ studied \in Int
  /\ ticks \subseteq Start..End
  /\ run \in [Handlers -> Run]
  /\ pushes \in 0..2
  /\ calm \in BOOLEAN /\ entitled \in BOOLEAN
  /\ SendTime(Local(now)) - Today * Day \in
       (IF profile.kind = "study" THEN -Window ELSE 0)..(Day - 1)
-----------------------------------------------------------------------------
(* What is promised: pushes in the quarter of an hour that ends at this time of
   the local day d. *)
Promised(d) ==
  LET hour == IF d % 7 \in {5, 6} THEN profile.weekend ELSE profile.weekday
      before == ReminderTime \div Hour - 1
  IN  IF profile.kind = "streak" THEN ReminderTime
      ELSE Hour * (IF hour >= 0 THEN hour ELSE IF before >= 0 THEN before ELSE 20) - Window

Wanting == IF profile.kind = "study" THEN due ELSE studied # Today

Opens == TimeOfDay = Promised(Today) - Window
Closes == TimeOfDay = Promised(Today)
-----------------------------------------------------------------------------
\* Time passes, but neither over a tick that is MaxDelay old nor over a user
\* that a handler has had in hand for long.  Every quarter of an hour it fires
\* a tick.  Ghosts: a new day starts calm; whoever wants a reminder when its
\* window opens is entitled to it, but not if a tick is late for the closing.
Clock ==
  /\ now < End
  /\ \A t \in ticks : now < t + MaxDelay
  /\ \A h \in Handlers : run[h].busy => now < run[h].at + 2
  /\ now' = now + 1
  /\ UNCHANGED <<profile, due, studied, run>>
  /\ ticks' = IF (now + 1) % Window = 0 THEN ticks \cup {now + 1} ELSE ticks
  /\ entitled' =
       IF Opens' THEN Wanting'
       ELSE /\ entitled
            /\ Today' = Today
            /\ Closes => /\ \A t \in ticks : t >= now
                         /\ \A h \in Handlers : ~run[h].busy
  /\ pushes' = IF Today' = Today THEN pushes ELSE 0
  /\ calm' = IF Today' = Today THEN calm ELSE TRUE

\* The user studies, and has no cards left or some; or cards become due.
Study ==
  /\ studied' = Today
  /\ due' \in BOOLEAN
  /\ UNCHANGED <<profile, now, ticks, run, pushes, calm>>
  /\ entitled' = (entitled /\ Wanting')

CardsBecomeDue ==
  /\ ~due /\ due' = TRUE
  /\ UNCHANGED <<profile, now, studied, ticks, run, pushes, calm, entitled>>

\* ListReminderState for tick t; again: the tick is delivered once more.
HandleTick(h, t, again) ==
  /\ ~run[h].busy
  /\ t \in ticks /\ t < now /\ now % 2 = 1
  /\ run' = [run EXCEPT ![h] = [busy |-> TRUE, at |-> now, studied |-> studied]]
  /\ ticks' = IF again THEN ticks ELSE ticks \ {t}
  /\ calm' = (calm /\ ~again /\ now = t + 1)
  /\ UNCHANGED <<profile, now, due, studied, pushes, entitled>>

\* The listing fails: the tick is acknowledged all the same.
TickFails(t) ==
  /\ t \in ticks /\ t < now /\ now % 2 = 1
  /\ ticks' = ticks \ {t}
  /\ entitled' = FALSE
  /\ UNCHANGED <<profile, now, due, studied, run, pushes, calm>>

Finish(h) == run' = [run EXCEPT ![h] = Idle]

Pushed(h) ==
  LET l == Local(run[h].at)
  IN  /\ InWindow(l, SendTime(l))
      /\ IF profile.kind = "study" THEN due ELSE run[h].studied # DayOf(l)

\* runStudyReminderForUser, runStreakWarningForUser: what was listed is old by
\* now, the cards are counted afresh.
RunForUser(h) ==
  /\ run[h].busy
  /\ Finish(h)
  /\ pushes' = IF Pushed(h) /\ DayOf(Local(run[h].at)) = Today /\ pushes < 2
               THEN pushes + 1 ELSE pushes
  /\ UNCHANGED <<profile, now, due, studied, ticks, calm, entitled>>

\* The lookup of the user, the count, the devices or the push itself fails.
RunFails(h) ==
  /\ run[h].busy
  /\ Finish(h)
  /\ entitled' = FALSE
  /\ UNCHANGED <<profile, now, due, studied, ticks, pushes, calm>>

RemindersNext ==
  \/ Clock
  \/ Study
  \/ CardsBecomeDue
  \/ \E h \in Handlers, t \in ticks, again \in BOOLEAN : HandleTick(h, t, again)
  \/ \E t \in ticks : TickFails(t)
  \/ \E h \in Handlers : RunForUser(h) \/ RunFails(h)

RemindersSpec == RemindersInit /\ [][RemindersNext]_remindersVars
-----------------------------------------------------------------------------
\* Whoever wants a reminder from the opening of his window on gets one by its
\* end, in his own zone and by the kind of his own day, unless a call fails or
\* a tick comes too late.  Not so for a time in the first quarter of an hour of
\* the day, or before it: its window began yesterday.
DueIsReminded ==
  entitled /\ Promised(Today) >= Window /\ TimeOfDay > Promised(Today) => pushes > 0

\* On a day whose ticks were all handled once and without delay nobody gets two
\* reminders: the windows of two ticks meet but do not overlap.
OneReminder == calm => pushes <= 1
=============================================================================
