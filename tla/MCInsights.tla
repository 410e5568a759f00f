----------------------------- MODULE MCInsights -----------------------------
(* Insights for TLC: a Meta account, a TikTok account of another currency,   *)
(* and a Google Ads account; months of two and three days.                  *)
EXTENDS Insights, TLC

CONSTANTS meta, tiktok, google, c1, c2, c3, c4

MCAccountOf == c1 :> meta @@ c2 :> tiktok @@ c3 :> google @@ c4 :> google
MCMonthStart == {-4, -1, 2, 4}
\* The campaigns of one account are interchangeable.
Symmetry == Permutations({c3, c4})

MCPlatformOf == meta :> "meta" @@ tiktok :> "tiktok" @@ google :> "google_ads"
MCCurrency == meta :> "USD" @@ tiktok :> "IDR" @@ google :> "USD"
=============================================================================
