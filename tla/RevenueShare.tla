---------------------------- MODULE RevenueShare ----------------------------
(***************************************************************************)
(* study-service: what the creators of a month earn, and how billing-       *)
(* service is told.                                                         *)
(*                                                                         *)
(* A calculation is one POST, sent by hand or by a cron, that runs five     *)
(* calls one after the other with nothing around them: two of them for the  *)
(* same month interleave, and either stops after any call.  Only one month  *)
(* is modelled, and of study_session_metrics only the rows that count:      *)
(* eligible, with a creator, created in the month.  What billing-service    *)
(* does with earnings already paid out is in CreatorPayouts.                *)
(***************************************************************************)
EXTENDS Integers, FiniteSets, FiniteSetsExt

CONSTANTS
  Creators,
  Sessions,      \* rows of study_session_metrics
  UserOf, CreatorOf, ScoreOf,   \* their columns
  Early,         \* the rows there from the start
  Calculations,  \* calls of CalculateMonthlyRevShare running at once
  Requests,      \* what they are asked: gross amount, rate, cap and learners
  Revenues,      \* what billing-service may answer for the month's revenue
  NoEarnings,
  MaxLate        \* bound on syncs given up on that are still under way

ASSUME RowsAssumption ==
  /\ Early \subseteq Sessions
  /\ CreatorOf \in [Sessions -> Creators]
  /\ ScoreOf \in [Sessions -> Nat]
  /\ DOMAIN UserOf = Sessions
  /\ NoEarnings = [c \in Creators |-> 0]
\* The tables are finite.
ASSUME FiniteAssumption == IsFiniteSet(Sessions) /\ IsFiniteSet(Creators)
\* The rates are percentages; the program reads whatever the body says.
ASSUME RequestsAssumption ==
  /\ Requests \subseteq [gross : Int, rate : Int, cap : Int, learners : Int]
  /\ Revenues \subseteq Nat
  /\ MaxLate \in Nat

VARIABLES
  recorded,   \* study_session_metrics
  pool,       \* monthly_revenue_pools
  earnings,   \* creator_earnings.amount_vnd, 0 when there is no row
  at, job,    \* control state and locals of each calculation
  billing,    \* billing-service's pool and earnings
  late,       \* syncs that were given up on but may still arrive
  alone,      \* calculations that no other one has run beside
  basis,      \* what the earnings that are there were computed from
  clean,      \* the pool was finalized by a calculation that ran alone
  synced      \* billing was told of it since

vars == <<recorded, pool, earnings, at, job, billing, late, alone, basis, clean, synced>>
-----------------------------------------------------------------------------
PoolStatus == {"none", "draft", "finalized"}
Pool == [gross : Int, creator : Int, status : PoolStatus]
NoPool == [gross |-> 0, creator |-> 0, status |-> "none"]

\* Locals of a calculation: the amounts it works with, the earnings it has
\* inserted and the pool that FinalizeRevenuePool returned.
Job == [gross : Int, creator : Int, cap : Int, learners : Nat,
        inserted : [Creators -> Nat], final : Pool]
NoJob == [gross |-> 0, creator |-> 0, cap |-> 0, learners |-> 1,
          inserted |-> NoEarnings, final |-> NoPool]
Message == [pool : Pool, earnings : [Creators -> Nat]]
Basis == [creator : Int, cap : Int, learners : Nat, sessions : SUBSET Sessions]
NoBasis == [creator |-> 0, cap |-> 0, learners |-> 1, sessions |-> {}]

Divided(p) == p.gross >= 0 => p.creator \in 0..p.gross

\* The types, and that the creators' part is a part of the gross amount.
TypeOK ==
  /\ recorded \subseteq Sessions
  /\ pool \in Pool
  /\ earnings \in [Creators -> Nat]
  /\ at \in [Calculations -> {"idle", "upsert", "delete", "insert", "finalize", "sync"}]
  /\ job \in [Calculations -> Job]
  /\ billing \in Message
  /\ late \subseteq Message
  /\ alone \subseteq Calculations
  /\ basis \in Basis
  /\ clean \in BOOLEAN /\ synced \in BOOLEAN
  /\ Divided(pool) /\ Divided(billing.pool)
  /\ \A c \in Calculations : Divided(job[c])

Init ==
  /\ recorded = Early
  /\ pool = NoPool
  /\ earnings = NoEarnings
  /\ at = [c \in Calculations |-> "idle"]
  /\ job = [c \in Calculations |-> NoJob]
  /\ billing = [pool |-> NoPool, earnings |-> NoEarnings]
  /\ late = {}
  /\ alone = {}
  /\ basis = NoBasis
  /\ clean = FALSE
  /\ synced = FALSE
-----------------------------------------------------------------------------
(* The shares *)

\* amount * percent / 100, cut towards zero as int64 cuts a float64.
Part(amount, percent) ==
  IF amount >= 0 THEN (amount * percent) \div 100 ELSE -((-amount * percent) \div 100)

\* Wrong on purpose: a rate above one is taken as it is.
RateAnyPositive(r) == IF r.rate <= 0 THEN 50 ELSE r.rate

Rate(r) == IF r.rate <= 0 \/ r.rate > 100 THEN 50 ELSE r.rate
Cap(r) == IF r.cap <= 0 \/ r.cap > 20 THEN 20 ELSE r.cap
MinLearners(r) == IF r.learners <= 0 THEN 1 ELSE r.learners

\* creator_scores: the sessions in S of creator x, if enough users learned.
Counted(x, S, learners) ==
  LET own == {s \in S : CreatorOf[s] = x}
  IN  IF Cardinality({UserOf[s] : s \in own}) >= learners THEN own ELSE {}

\* Wrong on purpose: SUM(DISTINCT weighted_score).
ScoreDistinct(S) == MapThenSumSet(LAMBDA n : n, {ScoreOf[s] : s \in S})

Score(S) == MapThenSumSet(LAMBDA s : ScoreOf[s], S)

\* ROUND(pool * score / total) of a positive pool.
Share(creatorPool, score, total) == (2 * creatorPool * score + total) \div (2 * total)

\* The rows InsertCreatorEarningsForMonth selects for b: each creator's share
\* is rounded and capped by itself, and only positive amounts become rows.
Allocation(b) ==
  LET counted(x) == Counted(x, b.sessions, b.learners)
      total == Score(UNION {counted(x) : x \in Creators})
      amount(x) ==
        IF total <= 0 \/ b.creator <= 0 THEN 0
        ELSE Min({Share(b.creator, Score(counted(x)), total), b.cap})
  IN  [x \in Creators |-> IF amount(x) > 0 THEN amount(x) ELSE 0]
-----------------------------------------------------------------------------
(* CalculateMonthlyRevShare *)

\* A metrics row is written when a session is completed.
RecordSession(s) ==
  /\ s \notin recorded
  /\ recorded' = recorded \cup {s}
  /\ UNCHANGED <<pool, earnings, at, job, billing, late, alone, basis, clean, synced>>

Goto(c, where) == at' = [at EXCEPT ![c] = where]

Running == {c \in Calculations : at[c] # "idle"}

\* A gross amount that is not given is asked of billing-service; an error
\* leaves it as it was.
Gross(r, answer) == IF r.gross <= 0 THEN answer ELSE r.gross

Begin(c, r, answer) ==
  /\ at[c] = "idle"
  /\ Goto(c, "upsert")
  /\ LET gross == Gross(r, answer)
         creatorPool == Part(gross, Rate(r))
     IN  job' = [job EXCEPT ![c] =
           [gross |-> gross, creator |-> creatorPool, cap |-> Part(creatorPool, Cap(r)),
            learners |-> MinLearners(r), inserted |-> NoEarnings, final |-> NoPool]]
  /\ alone' = IF Running = {} THEN {c} ELSE {}
  /\ UNCHANGED <<recorded, pool, earnings, billing, late, basis, clean, synced>>

\* Wrong on purpose: a pool that is there keeps its status.
UpsertMonthlyRevenuePoolKeepsStatus(c) ==
  /\ at[c] = "upsert"
  /\ pool' = [gross |-> job[c].gross, creator |-> job[c].creator,
              status |-> IF pool.status = "none" THEN "draft" ELSE pool.status]
  /\ synced' = FALSE
  /\ Goto(c, "delete")
  /\ UNCHANGED <<recorded, earnings, job, billing, late, alone, basis, clean>>

UpsertMonthlyRevenuePool(c) ==
  /\ at[c] = "upsert"
  /\ pool' = [gross |-> job[c].gross, creator |-> job[c].creator, status |-> "draft"]
  /\ synced' = FALSE
  /\ Goto(c, "delete")
  /\ UNCHANGED <<recorded, earnings, job, billing, late, alone, basis, clean>>

DeleteCreatorEarningsForMonth(c) ==
  /\ at[c] = "delete"
  /\ earnings' = NoEarnings
  /\ basis' = NoBasis
  /\ Goto(c, "insert")
  /\ UNCHANGED <<recorded, pool, job, billing, late, alone, clean, synced>>

Return(c) ==
  /\ at' = [at EXCEPT ![c] = "idle"]
  /\ job' = [job EXCEPT ![c] = NoJob]
  /\ alone' = alone \ {c}

\* UNIQUE(pool_month, creator_id): the whole INSERT fails when a creator it
\* has a row for is there already.
InsertCreatorEarningsForMonth(c) ==
  /\ at[c] = "insert"
  /\ LET from == [creator |-> job[c].creator, cap |-> job[c].cap,
                  learners |-> job[c].learners, sessions |-> recorded]
         rows == Allocation(from)
     IN  IF \E x \in Creators : rows[x] > 0 /\ earnings[x] > 0
         THEN Return(c) /\ UNCHANGED <<earnings, basis>>
         ELSE /\ earnings' = [x \in Creators |-> IF rows[x] > 0 THEN rows[x] ELSE earnings[x]]
              /\ basis' = from
              /\ job' = [job EXCEPT ![c] = [@ EXCEPT !.inserted = rows]]
              /\ Goto(c, "finalize")
              /\ UNCHANGED alone
  /\ UNCHANGED <<recorded, pool, billing, late, clean, synced>>

\* The row it returns, and sends on, is whichever the last upsert left.
FinalizeRevenuePool(c) ==
  /\ at[c] = "finalize"
  /\ pool' = [pool EXCEPT !.status = "finalized"]
  /\ job' = [job EXCEPT ![c] = [@ EXCEPT !.final = pool']]
  /\ clean' = (c \in alone)
  /\ synced' = FALSE
  /\ Goto(c, "sync")
  /\ UNCHANGED <<recorded, earnings, billing, late, alone, basis>>

MessageOf(c) == [pool |-> job[c].final, earnings |-> job[c].inserted]

\* billing-service takes a sync in one transaction, and sets the amounts of
\* creators it does not name to 0.
TakeSync(m) == billing' = m

\* SyncRevenuePool arrives; whether the answer does changes only the reply.
SyncRevenuePool(c) ==
  /\ at[c] = "sync"
  /\ TakeSync(MessageOf(c))
  /\ synced' = (c \in alone)
  /\ Return(c)
  /\ UNCHANGED <<recorded, pool, earnings, late, basis, clean>>

\* After 15 seconds the client gives up on a sync that may still arrive.
SyncTimesOut(c) ==
  /\ at[c] = "sync"
  /\ Cardinality(late) < MaxLate
  /\ late' = late \cup {MessageOf(c)}
  /\ Return(c)
  /\ UNCHANGED <<recorded, pool, earnings, billing, basis, clean, synced>>

LateSyncArrives(m) ==
  /\ m \in late
  /\ late' = late \ {m}
  /\ TakeSync(m)
  /\ synced' = FALSE
  /\ UNCHANGED <<recorded, pool, earnings, at, job, alone, basis, clean>>

\* A call fails, the caller hangs up or the instance stops.
CalculationDies(c) ==
  /\ at[c] # "idle"
  /\ Return(c)
  /\ UNCHANGED <<recorded, pool, earnings, billing, late, basis, clean, synced>>

Next ==
  \/ \E s \in Sessions : RecordSession(s)
  \/ \E c \in Calculations :
       \/ \E r \in Requests : \E answer \in Revenues \cup {r.gross} : Begin(c, r, answer)
       \/ UpsertMonthlyRevenuePool(c)
       \/ DeleteCreatorEarningsForMonth(c)
       \/ InsertCreatorEarningsForMonth(c)
       \/ FinalizeRevenuePool(c)
       \/ SyncRevenuePool(c)
       \/ SyncTimesOut(c)
       \/ CalculationDies(c)
  \/ \E m \in late : LateSyncArrives(m)

Spec == Init /\ [][Next]_vars
-----------------------------------------------------------------------------
\* A month finalized by a calculation that no other one ran beside has exactly
\* the earnings of its own pool, whatever crashes, stale rows or calculations
\* came before or have begun since; and once billing-service was told of it,
\* and until something else reaches it, both services agree.
FinalPoolIsItsOwn ==
  clean /\ pool.status = "finalized" =>
    /\ basis.creator = pool.creator
    /\ earnings = Allocation(basis)
    /\ synced => billing = [pool |-> pool, earnings |-> earnings]

\* Shares are rounded and capped one by one: together they exceed the pool by
\* at most half a dong for each creator who is paid.
SharesWithinPool ==
  LET paid == {x \in Creators : earnings[x] > 0}
  IN  clean /\ pool.status = "finalized" /\ paid # {} =>
        2 * MapThenSumSet(LAMBDA x : earnings[x], paid) <= 2 * pool.creator + Cardinality(paid)
=============================================================================
