-------------------------- MODULE MCBidGuardrails --------------------------
(***************************************************************************)
(* Instances of BidGuardrails for TLC: small bids, where cents are coarse  *)
(* against percentages, and rules that ask for far too much, far too       *)
(* little and a little.                                                    *)
(***************************************************************************)
EXTENDS BidGuardrails

\* the defaults of TenantGuardConfig with automation on, and small bounds
Default == [enabled |-> TRUE, pct |-> 25, cooldown |-> 3, maxChanges |-> 2, blastPct |-> 30,
            minBid |-> 2, maxBid |-> 12, maxAge |-> 48, lag |-> 3]

OneSetting == {Default}

ManySettings == {Default,
                 [Default EXCEPT !.pct = 10, !.minBid = 3, !.maxBid = 8, !.lag = 4],
                 [Default EXCEPT !.enabled = FALSE],
                 [Default EXCEPT !.cooldown = 1, !.maxAge = 24, !.maxBid = 30],
                 [Default EXCEPT !.maxChanges = 0, !.blastPct = 10]}

Rules == {[op |-> "multiply", by |-> 300], [op |-> "multiply", by |-> 110],
          [op |-> "multiply", by |-> 301], [op |-> "add_pct", by |-> -200],
          [op |-> "add", by |-> -1], [op |-> "set", by |-> 5]}

Seen == [clicks : {14, 15}, impressions : {499, 500}, evaluated : {20}, matched : {6, 7}]

Plenty == {[clicks |-> 15, impressions |-> 500, evaluated |-> 20, matched |-> 2]}
=============================================================================
