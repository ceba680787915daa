---------------------------- MODULE MCCatalogue ----------------------------
\* Three posts to filter; two listed companies and a de-listed one to sync.
EXTENDS Catalogue

CONSTANTS sa, sb, sd, api

MCByCap == <<sb, sa, sd>>

MCOf == ("p1" :> "acme" @@ "p2" :> "acme" @@ "p3" :> NoFirm)
MCSignal == ("p1" :> "PR" @@ "p2" :> "8-K" @@ "p3" :> "PR")
MCTypes == ("p1" :> {"Earnings"} @@ "p2" :> {"Earnings", "Other"} @@ "p3" :> {"Dividends"})
MCTone == ("p1" :> "Positive" @@ "p2" :> "Mixed" @@ "p3" :> "none")
MCGrade == ("p1" :> [significance |-> "High", tier |-> 3]
         @@ "p2" :> [significance |-> "Low", tier |-> 1]
         @@ "p3" :> [significance |-> NoGrade, tier |-> 1])
MCFiled == ("p1" :> 2 @@ "p2" :> 3 @@ "p3" :> 1)
MCCapBuckets == <<[key |-> "small", low |-> 2, high |-> NoLimit],
                  [key |-> "micro", low |-> 0, high |-> 2]>>

MCSays == ("p1" :> {"merger"} @@ "p2" :> {} @@ "p3" :> {})
MCSpelled == ("energy" :> "Energy" @@ "EARNINGS" :> "Earnings" @@ "banks" :> "Banks")

MCViews == {<<>>, [scope |-> "mine"], [important |-> TRUE, source |-> "pr"]}
MCQueries ==
  {[sector |-> {"energy"}, industry |-> {"banks"}, event_type |-> {"EARNINGS"}, q |-> "merger"],
   [sector |-> {"Energy"}, industry |-> {"Banks"}, event_type |-> {"Earnings"}, q |-> "merger"],
   [cap |-> {"micro"}, since |-> "30d", important |-> TRUE],
   [cap |-> {"micro"}, since |-> "30d", important |-> TRUE, max_tier |-> 2],
   [scope |-> "mine", moved |-> "up", cap |-> {"small"}, since |-> "30d"]}
=============================================================================
