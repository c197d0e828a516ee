---------------------------- MODULE MCSearchPage ----------------------------
(* SearchPage.tla for TLC: two services, pages of one trace.               *)
EXTENDS SearchPage

CONSTANTS s1, s2, o1, o2, t1, t2, t3

MCTraces      == {t1, t2, t3}
MCArrivals    == <<t1, t2, t3>>
MCServiceOf   == t1 :> s1 @@ t2 :> s2 @@ t3 :> s1
MCOperationOf == t1 :> o1 @@ t2 :> o2 @@ t3 :> o2
MCHasError    == t1 :> FALSE @@ t2 :> TRUE @@ t3 :> FALSE

=============================================================================
