----------------------------- MODULE ComparePage ----------------------------
(***************************************************************************)
(* web/src/pages/Compare.tsx: two traces and their difference, fetched by  *)
(* three calls that count only together.  The ids are in the URL and may   *)
(* change under the page.                                                  *)
(***************************************************************************)
EXTENDS PageLoad

CONSTANT TraceIds

VARIABLES
    compareIds,     \* base and compare of the URL, None where missing
    compareShown,   \* the ids of the fetched base, compare and diff, or None
    compareTimer,   \* the timer of the effect is armed
    compareLoad     \* one request stands for the Promise.all of the calls

compareVars == <<compareIds, compareShown, compareTimer, compareLoad>>

Pairs == (TraceIds \cup {None}) \X (TraceIds \cup {None})

(* null is not a pair of ids.                                              *)
ASSUME PairsAssumption == None \notin Pairs

Given(ids) == None \notin {ids[1], ids[2]}

(* Of a Promise.all the answered calls are known: it is accepted, and out  *)
(* of reach of abort(), when all three are.                                *)
CompareCalls == {"base", "compare", "diff"}

CompareTypeOK ==
    /\ compareIds \in Pairs
    /\ compareShown \in {p \in Pairs : Given(p)} \cup {None}
    /\ compareTimer \in BOOLEAN
    /\ compareLoad \in LoadType([ids : Pairs, open : SUBSET CompareCalls], {"all"})

CompareOff ==
    /\ compareIds = <<None, None>> /\ compareShown = None
    /\ compareTimer = FALSE /\ compareLoad = NewLoad

CompareUnmount ==
    /\ compareIds' = <<None, None>> /\ compareShown' = None
    /\ compareTimer' = FALSE /\ compareLoad' = NewLoad

(* The initial value of loading and the first run of the effect.           *)
CompareMount(ids) ==
    /\ compareIds' = ids /\ compareShown' = None
    /\ compareTimer' = Given(ids)
    /\ compareLoad' = [NewLoad EXCEPT !.loading = Given(ids)]

-----------------------------------------------------------------------------
CompareView ==
    IF ~Given(compareIds) THEN "select"
    ELSE IF compareLoad.loading /\ compareShown = None THEN "loading"
    ELSE IF compareLoad.error THEN "error"
    ELSE IF compareShown = None THEN "unavailable" ELSE "comparison"

(* The search parameters change: cleanup, and the effect runs again if it  *)
(* has both ids.                                                           *)
ChangeCompareIds(ids) ==
    /\ ids # compareIds
    /\ compareIds' = ids
    /\ compareLoad' \in IF Given(compareIds) THEN CleanedUp(compareLoad) ELSE {compareLoad}
    /\ compareTimer' = Given(ids)
    /\ UNCHANGED compareShown

(* loadComparison, from the timer or from Retry.                           *)
LoadComparison ==
    /\ \/ compareTimer /\ compareTimer' = FALSE
       \/ CompareView = "error" /\ UNCHANGED compareTimer
    /\ \E load \in Started(compareLoad, [ids |-> compareIds, open |-> CompareCalls]) :
          compareLoad' = [load EXCEPT !.loading = TRUE]
    /\ compareShown' = None
    /\ UNCHANGED compareIds

CompareAnswered(r, call) ==
    /\ ~silent
    /\ r.phase = "open" /\ call \in r.arg.open
    /\ LET s == [r EXCEPT !.arg.open = @ \ {call}]
           rest == [compareLoad EXCEPT !.reqs = (@ \ {r}) \cup {s}]
       IN  compareLoad' = IF s.arg.open = {} THEN Answered(rest, s, "all") ELSE rest
    /\ UNCHANGED <<compareIds, compareShown, compareTimer>>

(* Mutant of CompareDelivers: the request id is not compared.              *)
CompareDeliversAny(r) ==
    /\ r.phase = "body"
    /\ compareLoad' = Settled(compareLoad, r)
    /\ compareShown' = r.arg.ids
    /\ UNCHANGED <<compareIds, compareTimer>>

CompareDelivers(r) ==
    /\ r.phase = "body"
    /\ compareLoad' = Settled(compareLoad, r)
    /\ compareShown' = IF r.newest THEN r.arg.ids ELSE compareShown
    /\ UNCHANGED <<compareIds, compareTimer>>

(* One of the calls fails, and with it the Promise.all.                    *)
CompareFails(r) ==
    /\ compareLoad' = Failed(compareLoad, r)
    /\ UNCHANGED <<compareIds, compareShown, compareTimer>>

CompareNext ==
    \/ \E ids \in Pairs : ChangeCompareIds(ids)
    \/ LoadComparison
    \/ \E r \in compareLoad.reqs :
          \/ \E call \in CompareCalls : CompareAnswered(r, call)
          \/ CompareDelivers(r)
          \/ CompareFails(r)

-----------------------------------------------------------------------------
(* A comparison on the page is one of the traces the URL names, and when   *)
(* nothing is under way the page shows it or an error to retry: late       *)
(* answers, half failed loads and changing ids never leave the panels of   *)
(* other traces under the new ids, nor an empty page.                      *)
ComparisonIsOfUrl ==
    ~compareTimer =>
        /\ CompareView = "comparison" => compareShown = compareIds
        /\ Quiet(compareLoad) => CompareView \in {"select", "error", "comparison"}

=============================================================================
