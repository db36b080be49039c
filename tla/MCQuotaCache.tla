---------------------------- MODULE MCQuotaCache ----------------------------
(***************************************************************************)
(* The quota cache on a small instance: two sessions of one account.       *)
(***************************************************************************)
EXTENDS QuotaCacheProperties, TLC

CONSTANTS s1, s2, k1

OneAccount == s1 :> k1 @@ s2 :> k1

\* Five minutes, fifteen, an hour.
Backoffs == <<1, 2, 2>>
=============================================================================
