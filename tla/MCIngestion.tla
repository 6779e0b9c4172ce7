----------------------------- MODULE MCIngestion -----------------------------
(***************************************************************************)
(* Instances of Ingestion for TLC: windows of a few days.  As in the code, *)
(* reingest is no longer than any backfill and sales reaches further back  *)
(* than Ads; the catch-up is longer than the backfill of Ads, as its free  *)
(* option allows.                                                          *)
(***************************************************************************)
EXTENDS Ingestion

AdsSeq == <<"ads">>
Windows == [d \in Datasets |-> IF d = "sales" THEN 3 ELSE 2]
=============================================================================
