----------------------------- MODULE MCCopilot -----------------------------
(* Two remote providers, one of them too dear for the budget, and a local *)
(* one.                                                                    *)
EXTENDS Copilot

CONSTANTS c1, a1

MCPrice == [p \in Providers |-> IF p = "cheap" THEN 2 ELSE IF p = "dear" THEN 9 ELSE 0]
MCCharge == [p \in Providers |-> IF p = "cheap" THEN 2 ELSE IF p = "dear" THEN 8 ELSE 0]
MCFallbacks == {<<>>, <<"dear", "cheap">>, <<"cheap", "local", "odd">>}

Query(plain, tables, limit, matches) ==
    [plain |-> plain, tables |-> tables, limit |-> limit, matches |-> matches]
MCQueries ==
    {Query(TRUE, {"action"}, 0, 5), Query(TRUE, {"action"}, 4, 5), Query(TRUE, {"action"}, 9, 2),
     Query(TRUE, {"oauth_token"}, 0, 1), Query(FALSE, {"action"}, 0, 1)}
=============================================================================
