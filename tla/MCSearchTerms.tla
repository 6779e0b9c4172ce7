--------------------------- MODULE MCSearchTerms ---------------------------
(* A term that holds the tenant's brand, which a person may not have       *)
(* registered; the wildcard route leads back to the source ad group.       *)
EXTENDS SearchTerms

Own == [class |-> "own_brand", length |-> 2]
MCBrands == {Own}
MCTerms == {[asin |-> FALSE, brands |-> {Own}]}

Route(class, match, funnel, priority, dest) ==
    [asin |-> "*", class |-> class, strategy |-> "*", match |-> match, funnel |-> funnel,
     priority |-> priority, dest |-> dest]
MCRoutes ==
    {Route("*", "exact", "brand_defense", 1, 1), Route("own_brand", "exact", "brand_defense", 9, 2)}

History(free, proven, bid, breakEven) ==
    [free |-> free, proven |-> proven, bid |-> bid, breakEven |-> breakEven]
MCHistories ==
    {History(TRUE, TRUE, 3, 15), History(TRUE, TRUE, 4, 55), History(TRUE, TRUE, 1, 4),
     History(FALSE, TRUE, 2, 26), History(TRUE, FALSE, 2, 13)}
=============================================================================
