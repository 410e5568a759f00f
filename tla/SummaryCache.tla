--------------------------- MODULE SummaryCache ---------------------------
(***************************************************************************)
(* The AI summary of the overview (app/api/v1/endpoints/insights.py over   *)
(* app/services/ai_summary.py) on top of the tables and queries of         *)
(* Insights: POST /overview/summary, its force flag, GET                   *)
(* /overview/summary/peek, and the uncached narrative of the deck that     *)
(* GET /overview/export.pptx builds.                                       *)
(*                                                                         *)
(* A request reads the database in several statements, each a snapshot of  *)
(* its own, and then waits for OpenAI; syncs commit in between.  Its       *)
(* narrative is told apart by the window and the sums it was written from. *)
(*                                                                         *)
(* Abstracted: the tenant check, the wording and the prompt, and the       *)
(* order of the rows in it.                                                *)
(***************************************************************************)
EXTENDS Insights

CONSTANTS
  Request,     \* requests being served
  Period,      \* what a request may name: a preset, or explicit dates
  RequestFilter, \* filters a request may give
  MaxStores    \* bound: narratives stored

ASSUME SummaryCacheAssumption ==
  /\ Period \subseteq [preset : Preset, dates : {Null}]
                     \cup [preset : {Null}, dates : Window]
  \* the requests for a summary or a deck have no platform_objective
  /\ RequestFilter \subseteq {f \in Filter : ~f.objective}
  /\ Null \notin Preset
  /\ MaxStores \in Nat

VARIABLES
  pc,          \* the step of a request
  req,         \* what it has been asked and has read
  cache,       \* the aisum:v1 keys in Redis, and the narrative under each
  stores,      \* narratives stored so far
  unmarked     \* history: accounts whose numbers have changed in a way that
               \* no row's fetched_at shows

requestVars == <<pc, req>>
cacheVars == <<cache, stores>>
vars == <<insightVars, requestVars, cacheVars, unmarked>>

Mode == {"summary", "force", "peek", "deck"}
Pc == {"idle", "compare", "lookup", "gather", "generate", "store"}
NoRequest == [mode |-> "none"]

At(r, step) == pc[r] = step
Goto(r, step) == pc' = [pc EXCEPT ![r] = step]

\* The response is sent, whatever it is: a narrative, a deck, 204 or 502.
Answer(r) ==
  /\ Goto(r, "idle")
  /\ req' = [req EXCEPT ![r] = NoRequest]

SummaryInit ==
  /\ Init
  /\ pc = [r \in Request |-> "idle"]
  /\ req = [r \in Request |-> NoRequest]
  /\ cache = <<>>
  /\ stores = 0
  /\ unmarked = {}

\* Mutant: the key names neither the status nor the search text.
CacheKeyUnfiltered(q) ==
  [account |-> q.account, period |-> q.period, token |-> q.token]

\* Mutant: the freshness token is left out of the key.
CacheKeyUndated(q) ==
  [account |-> q.account, period |-> q.period, filter |-> q.filter, token |-> Null]

\* _aisum_cache_key: the preset's *name* where there is one.
CacheKey(q) ==
  [account |-> q.account, period |-> q.period, filter |-> q.filter, token |-> q.token]

\* What is stored of a request; which of the two POSTs it was is not.
Narrative(q) == [q EXCEPT !.mode = "summary"]

-----------------------------------------------------------------------------
(* The database moves: Write, and what of it no token shows *)

Newest(account) ==
  LET K == {k \in DOMAIN metrics : AccountOf[k[2]] = account}
  IN IF K = {} THEN 0 ELSE Max({metrics[k].at : k \in K})

\* Accounts that the step changes without a newer fetched_at.
ChangedUnmarked ==
  {AccountOf[open[w].key[2]] : w \in
     {w \in Writer : /\ open[w] # NoTx /\ open'[w] = NoTx
                     /\ open[w].at < Newest(AccountOf[open[w].key[2]])}}
  \cup {AccountOf[e[2]] : e \in {e \in Level \X Campaign : status'[e] # status[e]}}
  \cup {a \in Account : primary'[a] # primary[a]}

DatabaseStep ==
  /\ Write
  /\ unmarked' = unmarked \cup ChangedUnmarked
  /\ UNCHANGED <<requestVars, cacheVars>>

-----------------------------------------------------------------------------
(* A request *)

\* _resolve_dates, and get_overview's first statement: the sums of the window
\* and the freshness token of the same rows.
Ask(r, account, period, filter, mode) ==
  /\ At(r, "idle")
  /\ LET w == IF period.preset # Null THEN ResolveDateRange(period.preset) ELSE period.dates
         K == CurrentRows(account, w, filter)
     IN req' = [req EXCEPT ![r] =
          [mode |-> mode, account |-> account, period |-> period, filter |-> filter,
           window |-> w, token |-> CachedAt(K), current |-> Totals(K),
           previous |-> NoTotals]]
  /\ Goto(r, "compare")
  /\ UNCHANGED <<insightVars, cacheVars, unmarked>>

\* get_overview's other statements: the prior window, the top campaigns and
\* the pivots.
Compare(r) ==
  /\ At(r, "compare")
  /\ LET q == req[r]
     IN req' = [req EXCEPT ![r].previous =
                  Totals(CurrentRows(q.account, ResolvePriorPeriod(q.window), q.filter))]
  /\ Goto(r, IF req[r].mode \in {"force", "deck"} THEN "generate" ELSE "lookup")
  /\ UNCHANGED <<insightVars, cacheVars, unmarked>>

\* A cached narrative is replayed as it is.
Hit(r) ==
  /\ At(r, "lookup")
  /\ CacheKey(req[r]) \in DOMAIN cache
  /\ Answer(r)
  /\ UNCHANGED <<insightVars, cacheVars, unmarked>>

\* peek answers 204; a summary goes on to the table, the trend and OpenAI.
Miss(r) ==
  /\ At(r, "lookup")
  /\ CacheKey(req[r]) \notin DOMAIN cache
  /\ IF req[r].mode = "peek" THEN Answer(r)
     ELSE Goto(r, "generate") /\ UNCHANGED req
  /\ UNCHANGED <<insightVars, cacheVars, unmarked>>

\* get_table, get_timeseries and generate_overview_diagnosis: the narrative is
\* about the overview that was read at the start.
Generate(r) ==
  /\ At(r, "generate")
  /\ req[r].mode # "deck"
  /\ Goto(r, "store")
  /\ UNCHANGED <<insightVars, req, cacheVars, unmarked>>

\* A deck's narrative goes into the deck, and is written anew for each one.
NarrateDeck(r) ==
  /\ At(r, "generate")
  /\ req[r].mode = "deck"
  /\ Answer(r)
  /\ UNCHANGED <<insightVars, cacheVars, unmarked>>

\* AISummaryError is a 502, never an empty text, and is never stored.
GenerateFails(r) ==
  /\ At(r, "generate")
  /\ Answer(r)
  /\ UNCHANGED <<insightVars, cacheVars, unmarked>>

\* Mutant: the key is made of the token that the rows have at the end.
StoreUnderNewToken(r) ==
  /\ At(r, "store")
  /\ stores < MaxStores
  /\ stores' = stores + 1
  /\ LET q == req[r]
         key == CacheKey([q EXCEPT !.token =
                            CachedAt(CurrentRows(q.account, q.window, q.filter))])
     IN cache' = [k \in DOMAIN cache \cup {key} |->
                    IF k = key THEN Narrative(q) ELSE cache[k]]
  /\ Answer(r)
  /\ UNCHANGED <<insightVars, unmarked>>

\* setex under the key of the token that was read at the start.
Store(r) ==
  /\ At(r, "store")
  /\ stores < MaxStores
  /\ stores' = stores + 1
  /\ cache' = [k \in DOMAIN cache \cup {CacheKey(req[r])} |->
                 IF k = CacheKey(req[r]) THEN Narrative(req[r]) ELSE cache[k]]
  /\ Answer(r)
  /\ UNCHANGED <<insightVars, unmarked>>

\* The process dies, or the client's connection is cut.
Drop(r) ==
  /\ pc[r] # "idle"
  /\ Answer(r)
  /\ UNCHANGED <<insightVars, cacheVars, unmarked>>

\* The TTL of 24 hours, or Redis evicts the key.
Expire(k) ==
  /\ cache' = [j \in DOMAIN cache \ {k} |-> cache[j]]
  /\ UNCHANGED <<insightVars, requestVars, stores, unmarked>>

-----------------------------------------------------------------------------
Next ==
  \/ DatabaseStep
  \/ \E r \in Request : \/ Compare(r) \/ Hit(r) \/ Miss(r) \/ Generate(r)
                        \/ NarrateDeck(r) \/ GenerateFails(r) \/ Store(r) \/ Drop(r)
  \/ \E r \in Request, account \in Account, period \in Period,
        filter \in RequestFilter, mode \in Mode :
        Ask(r, account, period, filter, mode)
  \/ \E k \in DOMAIN cache : Expire(k)

SummarySpec == SummaryInit /\ [][Next]_vars

-----------------------------------------------------------------------------
(* Properties *)

RequestRecord(q) ==
  /\ q.mode \in Mode /\ q.account \in Account /\ q.period \in Period
  /\ q.filter \in RequestFilter /\ q.window \in Window
  /\ q.token \in Nat \cup {Null}
  /\ \A totals \in {q.current, q.previous} :
       totals.spend \in Amount /\ totals.conversions \in Amount

SummaryTypeOK ==
  /\ TypeOK
  /\ pc \in [Request -> Pc]
  /\ \A r \in Request : pc[r] # "idle" => RequestRecord(req[r])
  /\ \A k \in DOMAIN cache : RequestRecord(cache[k]) /\ k = CacheKey(cache[k])
  /\ stores \in 0 .. MaxStores
  /\ unmarked \subseteq Account

\* A request is about to replay what it finds.
Replays(r) == At(r, "lookup") /\ CacheKey(req[r]) \in DOMAIN cache

Replayed(r) == cache[CacheKey(req[r])]

\* What the token is for: a narrative replayed for explicit dates was written
\* from the sums that the request itself has just read, whatever was
\* committed, stored, forced or dropped meanwhile, as long as every change of
\* the account's numbers has left a newer fetched_at behind.
ReplayIsCurrent ==
  \A r \in Request :
    Replays(r) /\ req[r].period.preset = Null /\ req[r].account \notin unmarked =>
      Replayed(r).current = req[r].current

\* A replayed narrative is about the account, the filter and the period that
\* were asked for: the same window for explicit dates, and a window of the
\* same preset otherwise.
ReplayAnswersRequest ==
  \A r \in Request :
    Replays(r) =>
      /\ Replayed(r).account = req[r].account
      /\ Replayed(r).filter = req[r].filter
      /\ Replayed(r).period = req[r].period
      /\ req[r].period.preset = Null => Replayed(r).window = req[r].window

\* "a stale narrative is never served" (endpoints/insights.py:198): whatever
\* is replayed was written from the window and the sums just read, those it compares with too.
NarrativeIsNeverStale ==
  \A r \in Request :
    Replays(r) => /\ Replayed(r).window = req[r].window
                  /\ Replayed(r).current = req[r].current
                  /\ Replayed(r).previous = req[r].previous
=============================================================================
