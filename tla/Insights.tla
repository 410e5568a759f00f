------------------------------ MODULE Insights ------------------------------
(***************************************************************************)
(* The metric tables and everything the dashboard computes from them       *)
(* (app/services/insights.py), with the writers that move the tables       *)
(* under the queries: the insights tasks' upserts (workers/db_helpers.py), *)
(* the breakdown tasks, the structure syncs that change a status, and      *)
(* PATCH /accounts/{id}/config.                                            *)
(*                                                                         *)
(* A row of metrics_daily is named by its level, its campaign and its day; *)
(* an ad group or an ad goes by the campaign it belongs to.  Every number  *)
(* the queries add is a spend or a count of action rows, each of value     *)
(* one; ratios are computed from these sums and left out, and so are the   *)
(* formatting, the alignment of keys and the order of rows.  The calendar  *)
(* is a set of days with its first days of a month, and all accounts live  *)
(* in one time zone.                                                       *)
(***************************************************************************)
EXTENDS FiniteSetsExt

CONSTANTS
  Account,     \* accounts of one organisation
  Campaign,    \* campaigns of all accounts
  AccountOf,   \* the account of a campaign
  Currency,    \* the currency of an account
  PlatformOf,  \* the platform of an account
  Level,       \* entity types, "campaign" among them
  Matching,    \* campaigns whose name contains the search text
  WithObjective, \* campaigns of the platform_objective that a request names
  ActionType,  \* action types, "purchase" among them
  Null,        \* SQL's NULL
  Spend,       \* amounts a platform reports
  MonthStart,  \* first days of a month
  FirstDay,    \* the day the behaviour starts on
  LastDay,     \* bound: the last day
  RollingDays, \* how far back a rolling preset reaches (code: 7 to 90)
  TopLimit,    \* rows in top_campaigns (code: 5)
  Writer,      \* transactions of sync tasks
  MaxStamp,    \* bound: writes
  MaxEdits,    \* bound: status and configuration changes, breakdown syncs
  MaxChanges   \* bound: writes and edits together

ASSUME InsightsAssumption ==
  /\ AccountOf \in [Campaign -> Account]
  /\ PlatformOf \in [Account -> {"meta", "tiktok", "google_ads"}]
  /\ "campaign" \in Level
  /\ "purchase" \in ActionType
  /\ Matching \subseteq Campaign
  /\ WithObjective \subseteq Campaign
  /\ Spend \subseteq Nat
  /\ Null \notin Int
  /\ MonthStart \subseteq Int
  /\ FirstDay \in Int /\ LastDay \in Int /\ FirstDay <= LastDay
  \* the calendar has the month of the first day and the one before
  /\ \E last, this \in MonthStart : last < this /\ this <= FirstDay
  /\ RollingDays \in Nat
  /\ TopLimit \in Nat
  /\ MaxStamp \in Nat
  /\ MaxEdits \in Nat
  /\ MaxChanges \in Nat

VARIABLES
  metrics,     \* metrics_daily: a row for each <<level, campaign, day>> it holds
  actions,     \* metric_action_stats: <<level, campaign, day, field, type>>
  breakdowns,  \* metric_breakdowns of an account: the date of each row and the
               \* days its numbers are about
  status,      \* the status of a campaign, ad group or ad
  primary,     \* account_configs.primary_conversion_action
  today,       \* the date in the accounts' time zone
  stamp,       \* the last fetched_at taken
  open,        \* what a transaction has upserted and not committed
  edits        \* changes counted against MaxEdits

insightVars == <<metrics, actions, breakdowns, status, primary, today, stamp,
                 open, edits>>

Status == {"ACTIVE", "PAUSED"}
NoTx == [at |-> 0]

Window == [from : Int, to : Int]

\* A request's filter: a status, a search text and a platform_objective, any of
\* which may be left out.
Filter == [status : Status \cup {Null}, search : BOOLEAN, objective : BOOLEAN]
NoFilter == [status |-> Null, search |-> FALSE, objective |-> FALSE]

Days(w) == w.from .. w.to

-----------------------------------------------------------------------------
(* Periods *)

Preset == {"today", "yesterday", "rolling", "this_month", "last_month"}

MonthOf(d) == Max({m \in MonthStart : m <= d})

\* resolve_date_range: a rolling preset spans its days back *through today*.
ResolveDateRange(preset) ==
  CASE preset = "today"      -> [from |-> today, to |-> today]
    [] preset = "yesterday"  -> [from |-> today - 1, to |-> today - 1]
    [] preset = "rolling"    -> [from |-> today - RollingDays, to |-> today]
    [] preset = "this_month" -> [from |-> MonthOf(today), to |-> today]
    [] preset = "last_month" -> [from |-> MonthOf(MonthOf(today) - 1),
                                 to |-> MonthOf(today) - 1]

IsFullCalendarMonth(w) ==
  w.from \in MonthStart /\ w.from = MonthOf(w.to) /\ w.to + 1 \in MonthStart

\* resolve_prior_period: the month before a whole month, otherwise as many days
\* as the window has, just before it.
ResolvePriorPeriod(w) ==
  [from |-> IF IsFullCalendarMonth(w) THEN MonthOf(w.from - 1)
            ELSE w.from - (w.to - w.from + 1),
   to |-> w.from - 1]

-----------------------------------------------------------------------------
(* What one row adds *)

\* SUM: rows that are NULL add nothing, and no row at all is NULL.
SqlSum(value) ==
  LET known == {x \in {<<k, value[k]>> : k \in DOMAIN value} : x[2] # Null}
  IN IF known = {} THEN Null ELSE MapThenSumSet(LAMBDA x : x[2], known)

\* LEFT JOIN metric_action_stats conv: the rows of the account's primary
\* conversion action, in either of two fields.
ConversionRows(k) ==
  {x \in actions : /\ <<x[1], x[2], x[3]>> = k
                   /\ x[4] \in {"actions", "conversions"}
                   /\ x[5] = primary[AccountOf[k[2]]]}

Conversions(k) ==
  IF ConversionRows(k) = {} THEN Null ELSE Cardinality(ConversionRows(k))

\* A row of metrics_daily appears once for each row it is joined with.
JoinedSpend(k) ==
  IF metrics[k].spend = Null THEN Null
  ELSE metrics[k].spend * Max({1, Cardinality(ConversionRows(k))})

Totals(K) == [spend |-> SqlSum([k \in K |-> JoinedSpend(k)]),
              conversions |-> SqlSum([k \in K |-> Conversions(k)])]

NoTotals == [spend |-> Null, conversions |-> Null]

\* MAX(fetched_at): the freshness token.
CachedAt(K) == IF K = {} THEN Null ELSE Max({metrics[k].at : k \in K})

\* The pivot over metric_action_stats, which is joined with nothing.
Likes(X) ==
  LET likes == {x \in X : x[4] = "actions" /\ x[5] = "like"}
  IN IF likes = {} THEN Null ELSE Cardinality(likes)

MetricRows(accounts, level, w, campaigns) ==
  {k \in DOMAIN metrics : /\ k[1] = level
                          /\ k[2] \in campaigns
                          /\ AccountOf[k[2]] \in accounts
                          /\ k[3] \in Days(w)}

ActionRows(account, level, w, campaigns) ==
  {x \in actions : /\ x[1] = level
                   /\ x[2] \in campaigns
                   /\ AccountOf[x[2]] = account
                   /\ x[3] \in Days(w)}

-----------------------------------------------------------------------------
(* The reports *)

\* _resolve_campaign_ids: no filter is every campaign.
ResolveCampaignIds(account, f) ==
  IF f = NoFilter THEN Campaign
  ELSE {c \in Campaign : /\ AccountOf[c] = account
                         /\ f.status \in {Null, status[<<"campaign", c>>]}
                         /\ f.search => c \in Matching
                         /\ f.objective => c \in WithObjective}

CurrentRows(account, w, f) ==
  MetricRows({account}, "campaign", w, ResolveCampaignIds(account, f))

\* get_overview's cards: OVERVIEW_SQL over one window, and the pivot.
Summary(account, w, f) ==
  [totals |-> Totals(CurrentRows(account, w, f)),
   likes |-> Likes(ActionRows(account, "campaign", w, ResolveCampaignIds(account, f)))]

\* GROUP BY campaign, entity by entity of a level.
ByEntity(K) == [c \in {k[2] : k \in K} |-> Totals({k \in K : k[2] = c})]

\* TOP_CAMPAIGNS_SQL: which campaigns these are, where several spend the same
\* or nothing, is the database's choice.
TopCampaigns(account, w, f) ==
  LET spent == ByEntity(CurrentRows(account, w, f))
      AtLeast(c, d) == \/ spent[d].spend = Null
                       \/ spent[c].spend # Null /\ spent[c].spend >= spent[d].spend
  IN {[c \in T |-> spent[c]] : T \in
        {T \in SUBSET DOMAIN spent :
           /\ Cardinality(T) = Min({TopLimit, Cardinality(DOMAIN spent)})
           /\ \A c \in T, d \in DOMAIN spent \ T : AtLeast(c, d)}}

\* date_trunc: weeks are left out.
Increment == {"day", "month"}
PeriodOf(increment, d) == IF increment = "day" THEN d ELSE MonthOf(d)

ByPeriod(K, increment) ==
  [p \in {PeriodOf(increment, k[3]) : k \in K} |->
     Totals({k \in K : PeriodOf(increment, k[3]) = p})]

\* get_timeseries has no platform_objective: of a filter it takes the rest.
TrendFilter(f) == [f EXCEPT !.objective = FALSE]

\* get_timeseries: the points of a window; the action pivot of a point is that
\* of the *current* window, whichever window the point is in.
Timeseries(account, w, f, increment) ==
  LET Points(x) == ByPeriod(CurrentRows(account, x, TrendFilter(f)), increment)
  IN [series |-> Points(w), previous |-> Points(ResolvePriorPeriod(w))]

\* TIMESERIES_BY_ENTITY_SQL: below the campaigns the filter is dropped.
TimeseriesByEntity(account, level, w, f) ==
  LET campaigns == IF level = "campaign" THEN ResolveCampaignIds(account, TrendFilter(f))
                   ELSE Campaign
      K == MetricRows({account}, level, w, campaigns)
  IN [c \in {k[2] : k \in K} |-> ByPeriod({k \in K : k[2] = c}, "day")]

\* Mutant: the table ignores the platform_objective.
ShownWhateverObjective(level, c, f) ==
  /\ f.status \in {Null, status[<<level, c>>]}
  /\ f.search => c \in Matching

\* The table's filter is on the entity's own status and name; below the
\* campaigns the platform_objective is dropped.
Shown(level, c, f) ==
  /\ f.status \in {Null, status[<<level, c>>]}
  /\ f.search => c \in Matching
  /\ f.objective /\ level = "campaign" => c \in WithObjective

\* TABLE_PREV_SQL: the prior window of every entity, shown or not.
TablePrevious(account, level, w) ==
  ByEntity(MetricRows({account}, level, ResolvePriorPeriod(w), Campaign))

\* get_table: filtered after the grouping; an entity that has no rows in the
\* window is not in the table, whatever it had in the prior one.
Table(account, level, w, f) ==
  LET now == ByEntity(MetricRows({account}, level, w, Campaign))
      then == TablePrevious(account, level, w)
  IN [c \in {c \in DOMAIN now : Shown(level, c, f)} |->
        [current |-> now[c],
         previous |-> IF c \in DOMAIN then THEN then[c] ELSE NoTotals]]

\* Every selected account's campaigns, each joined by its own configuration.
CombinedRows(accounts, w) == MetricRows(accounts, "campaign", w, Campaign)

OneCurrency(accounts) == Cardinality({Currency[a] : a \in accounts}) = 1

\* GROUP BY account_id: an account without rows is not listed.
PerAccount(accounts, w) ==
  [a \in {AccountOf[k[2]] : k \in CombinedRows(accounts, w)} |->
     Totals(CombinedRows({a}, w))]

\* Mutant: the sum is shown whatever the currencies.
CombinedOverviewAnyCurrency(accounts, w) ==
  [totals |-> Totals(CombinedRows(accounts, w)), perAccount |-> PerAccount(accounts, w)]

\* get_combined_overview: every account's own sums, and one sum if all spend
\* the same currency.
CombinedOverview(accounts, w) ==
  [totals |-> IF OneCurrency(accounts) THEN Totals(CombinedRows(accounts, w)) ELSE NoTotals,
   perAccount |-> PerAccount(accounts, w)]

CombinedPoints(accounts, w) == ByPeriod(CombinedRows(accounts, w), "day")

\* get_combined_timeseries: across currencies a point keeps its counts.
CombinedTimeseries(accounts, w) ==
  LET points == CombinedPoints(accounts, w)
  IN [d \in DOMAIN points |->
        IF OneCurrency(accounts) THEN points[d] ELSE [points[d] EXCEPT !.spend = Null]]

\* get_engagement: every level's action rows.
Engagement(account, w) ==
  LET likes == {x \in actions : x[4] = "actions" /\ x[5] = "like"
                                /\ AccountOf[x[2]] = account /\ x[3] \in Days(w)}
  IN Likes(likes)

\* get_breakdown sums the rows dated in the window: how often a day's numbers
\* are in the sum.
TimesCounted(account, w, d) ==
  Cardinality({b \in breakdowns[account] : b.date \in Days(w) /\ d \in b.days})

-----------------------------------------------------------------------------
(* The writers *)

Init ==
  /\ metrics = <<>>
  /\ actions = {}
  /\ breakdowns = [a \in Account |-> {}]
  /\ status = [e \in Level \X Campaign |-> "ACTIVE"]
  /\ primary = [a \in Account |-> "purchase"]
  /\ today = FirstDay
  /\ stamp = 0
  /\ open = [w \in Writer |-> NoTx]
  /\ edits = 0

\* parse_insight_row: Meta lists its actions by type.
MetaActions == {<<"actions", t>> : t \in ActionType}

\* Mutant: TikTok's purchase events are listed among the actions as well.
TikTokActionsTwice(account) ==
  {<<"actions", t>> : t \in ActionType} \cup {<<"conversions", primary[account]>>}

\* TikTok's engagement counts are actions; its conversions are named after the
\* primary conversion action the account has when the report is written.
TikTokActions(account) ==
  {<<"actions", t>> : t \in ActionType \ {"purchase"}} \cup {<<"conversions", primary[account]>>}

\* parse_google_report_row.
GoogleActions(account) == {<<"conversions", primary[account]>>}

Reportable(account) ==
  CASE PlatformOf[account] = "meta" -> MetaActions
    [] PlatformOf[account] = "tiktok" -> TikTokActions(account)
    [] PlatformOf[account] = "google_ads" -> GoogleActions(account)

\* upsert_metrics_daily takes one fetched_at for its rows before it executes:
\* one entity's day of a level, as the platform reports it.
Upsert(w, level, c, d, spend, kinds) ==
  /\ open[w] = NoTx
  /\ stamp < MaxStamp /\ stamp + edits < MaxChanges
  /\ stamp' = stamp + 1
  /\ open' = [open EXCEPT ![w] =
       [at |-> stamp + 1, key |-> <<level, c, d>>, spend |-> spend,
        rows |-> {<<level, c, d, x[1], x[2]>> : x \in kinds}]]
  /\ UNCHANGED <<metrics, actions, breakdowns, status, primary, today, edits>>

\* Mutant: fetched_at is left to a default the insert does not have.
CommitUndated(w) ==
  /\ open[w] # NoTx
  /\ metrics' = [k \in DOMAIN metrics \cup {open[w].key} |->
                   IF k = open[w].key THEN [spend |-> open[w].spend, at |-> 0]
                   ELSE metrics[k]]
  /\ actions' = actions \cup open[w].rows
  /\ open' = [open EXCEPT ![w] = NoTx]
  /\ UNCHANGED <<breakdowns, status, primary, today, stamp, edits>>

\* The get_worker_db block ends: ON CONFLICT DO UPDATE keeps what is known
\* where the new value is NULL, and an action row that is not reported stays.
Commit(w) ==
  /\ open[w] # NoTx
  /\ LET tx == open[w]
         known == IF tx.key \in DOMAIN metrics THEN metrics[tx.key].spend ELSE Null
         row == [spend |-> IF tx.spend = Null THEN known ELSE tx.spend, at |-> tx.at]
     IN /\ metrics' = [k \in DOMAIN metrics \cup {tx.key} |->
                         IF k = tx.key THEN row ELSE metrics[k]]
        /\ actions' = actions \cup tx.rows
  /\ open' = [open EXCEPT ![w] = NoTx]
  /\ UNCHANGED <<breakdowns, status, primary, today, stamp, edits>>

Abort(w) ==
  /\ open[w] # NoTx
  /\ open' = [open EXCEPT ![w] = NoTx]
  /\ UNCHANGED <<metrics, actions, breakdowns, status, primary, today, stamp, edits>>

Edit ==
  /\ edits < MaxEdits /\ stamp + edits < MaxChanges
  /\ edits' = edits + 1

\* Mutant: the old aggregate is not deleted.
SyncAggregateUnpurged(a) ==
  LET w == ResolveDateRange("rolling")
  IN breakdowns' = [breakdowns EXCEPT ![a] =
                      {b \in @ : b.date # w.from} \cup {[date |-> w.from, days |-> Days(w)]}]

\* TikTok and Google Ads: one aggregate of the whole period, dated its first
\* day; the one before is deleted in the same transaction.
SyncAggregate(a) ==
  LET w == ResolveDateRange("rolling")
  IN breakdowns' = [breakdowns EXCEPT ![a] = {[date |-> w.from, days |-> Days(w)]}]

\* Meta: a row for each day the report has, upserted; nothing is deleted.
SyncDaily(a) ==
  \E reported \in SUBSET Days(ResolveDateRange("rolling")) :
    breakdowns' = [breakdowns EXCEPT ![a] =
                     @ \cup {[date |-> d, days |-> {d}] : d \in reported}]

SyncBreakdowns(a) ==
  /\ Edit
  /\ IF PlatformOf[a] = "meta" THEN SyncDaily(a) ELSE SyncAggregate(a)
  /\ UNCHANGED <<metrics, actions, status, primary, today, stamp, open>>

\* A structure sync finds an entity paused or resumed.
SetStatus(level, c) ==
  /\ Edit
  /\ status' = [status EXCEPT ![<<level, c>>] = IF @ = "ACTIVE" THEN "PAUSED" ELSE "ACTIVE"]
  /\ UNCHANGED <<metrics, actions, breakdowns, primary, today, stamp, open>>

\* PATCH /accounts/{id}/config: any text is a conversion action.
SetPrimary(a, type) ==
  /\ Edit
  /\ primary[a] # type
  /\ primary' = [primary EXCEPT ![a] = type]
  /\ UNCHANGED <<metrics, actions, breakdowns, status, today, stamp, open>>

Midnight ==
  /\ today < LastDay
  /\ today' = today + 1
  /\ UNCHANGED <<metrics, actions, breakdowns, status, primary, stamp, open, edits>>

Write ==
  \/ \E w \in Writer : Commit(w) \/ Abort(w)
  \/ \E w \in Writer, level \in Level, c \in Campaign, d \in {today - 1, today},
        spend \in Spend \cup {Null} : \E kinds \in SUBSET Reportable(AccountOf[c]) :
        Upsert(w, level, c, d, spend, kinds)
  \/ \E a \in Account : SyncBreakdowns(a)
  \/ \E level \in Level, c \in Campaign : SetStatus(level, c)
  \/ \E a \in Account, type \in ActionType : SetPrimary(a, type)
  \/ Midnight

Spec == Init /\ [][Write]_insightVars

-----------------------------------------------------------------------------
(* Properties *)

Amount == Nat \cup {Null}

TypeOK ==
  /\ \A k \in DOMAIN metrics : /\ k \in Level \X Campaign \X Int
                               /\ metrics[k] \in [spend : Amount, at : 1 .. stamp]
  /\ actions \subseteq Level \X Campaign \X Int \X {"actions", "conversions"} \X ActionType
  /\ \A a \in Account : breakdowns[a] \subseteq [date : Int, days : SUBSET Int]
  /\ status \in [Level \X Campaign -> Status]
  /\ primary \in [Account -> ActionType]
  /\ today \in FirstDay .. LastDay
  /\ stamp \in 0 .. MaxStamp
  /\ \A w \in Writer : open[w].at \in 0 .. stamp
  /\ edits \in 0 .. MaxEdits

\* The windows a user looks at.
Windows == {ResolveDateRange(p) : p \in Preset}

\* A report's numbers added up.
Added(F) ==
  [spend |-> SqlSum([x \in DOMAIN F |-> F[x].spend]),
   conversions |-> SqlSum([x \in DOMAIN F |-> F[x].conversions])]

\* No transaction is open.  What an open one has upserted no report reads, and
\* its abort leaves the tables as they are: whatever tables the reports can be
\* asked of, they can be asked of while it is quiet.
Quiet == \A w \in Writer : open[w] = NoTx

\* The windows in which, or just before which, the accounts have numbers; of the
\* others every report is empty.
WindowsOf(accounts) ==
  {w \in Windows : \E k \in DOMAIN metrics :
     AccountOf[k[2]] \in accounts /\ k[3] \in ResolvePriorPeriod(w).from .. w.to}

\* The card of the overview is the sum of the campaign table, and a top campaign
\* has the numbers of its table row.  For a filter without a platform_objective,
\* which the trends do not take, the card is also the sum of the points of the
\* trend in every increment and of the campaigns' own trends, now and for the
\* comparison window.
AgreeFor(a, w, f) ==
  LET card == Totals(CurrentRows(a, w, f))
      prior == Totals(CurrentRows(a, ResolvePriorPeriod(w), f))
      rows == Table(a, "campaign", w, f)
      entities == TimeseriesByEntity(a, "campaign", w, f)
  IN /\ card = Added([c \in DOMAIN rows |-> rows[c].current])
     /\ \A top \in TopCampaigns(a, w, f) :
          \A c \in DOMAIN top : top[c] = rows[c].current
     /\ ~f.objective =>
          /\ card = Added([c \in DOMAIN entities |-> Added(entities[c])])
          /\ \A increment \in Increment :
               LET trend == Timeseries(a, w, f, increment)
               IN card = Added(trend.series) /\ prior = Added(trend.previous)

\* One metric, one value (NFR-2): the reports of an account add up to each other,
\* for every window and filter.
ReportsAgree ==
  Quiet => \A a \in Account : \A w \in WindowsOf({a}), f \in Filter : AgreeFor(a, w, f)

\* The combined card is the sum of the accounts' cards and of its own trend,
\* where they have one currency; otherwise it shows no sum, nor does a point.
CombinedFor(accounts, w) ==
  LET both == CombinedOverview(accounts, w)
      points == CombinedTimeseries(accounts, w)
      listed == both.perAccount
  IN /\ \A a \in accounts :
          Summary(a, w, NoFilter).totals = IF a \in DOMAIN listed THEN listed[a] ELSE NoTotals
     /\ both.totals.spend =
          IF OneCurrency(accounts) THEN Added(both.perAccount).spend ELSE Null
     /\ Added(points).spend = both.totals.spend
     /\ OneCurrency(accounts) => Added(points) = both.totals

\* Money is never added across currencies, and accounts that share one add up.
CombinedAgrees ==
  Quiet => \A accounts \in SUBSET Account \ {{}} : \A w \in WindowsOf(accounts) :
             CombinedFor(accounts, w)

\* While an account's conversion action is "purchase", which its platform lists
\* in one field only, the join counts every row's spend once, however often the
\* configuration has changed since the row was written.
SpendCountedOnce ==
  \A k \in DOMAIN metrics :
    primary[AccountOf[k[2]]] = "purchase" => JoinedSpend(k) = metrics[k].spend

\* No window's breakdown counts a day twice, whichever day it was last synced
\* on (the purge's comment: "exactly one set ever exists").
BreakdownCountsOnce ==
  \A a \in Account : \A from, to \in {b.date : b \in breakdowns[a]} :
    \A d \in UNION {b.days : b \in breakdowns[a]} :
      TimesCounted(a, [from |-> from, to |-> to], d) <= 1
=============================================================================
