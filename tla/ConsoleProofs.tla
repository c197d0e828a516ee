---------------------------- MODULE ConsoleProofs ----------------------------
(***************************************************************************)
(* Proofs about Console.tla and the pages it mounts, for every set of      *)
(* trace ids, graphs, services and rates and every bound; and, at the end, *)
(* about the trace page, whose loads follow the same lemmas.               *)
(***************************************************************************)
EXTENDS Console, TraceDetail, TLAPS

-----------------------------------------------------------------------------
(* A load that has started has one newest request, just issued, and keeps  *)
(* superseded requests only of those whose headers were accepted.          *)
JustStarted(load, q, l) ==
    /\ l.loading = load.loading /\ l.error = FALSE
    /\ Issued(q) \in l.reqs
    /\ \A r \in l.reqs : r.newest => r = Issued(q)
    /\ \A r \in l.reqs : r # Issued(q) =>
          \E o \in load.reqs : o.phase = "body" /\ r.phase = "body" /\ r.arg = o.arg /\ r.data = o.data

(* That is what starting a request makes of a load.                        *)
LEMMA StartedLoad ==
  ASSUME NEW A, NEW D, NEW load \in LoadType(A, D), NEW q \in A, NEW l \in Started(load, q)
  PROVE  l \in LoadType(A, D) /\ JustStarted(load, q, l)
<1>1. PICK old \in Surviving(load.reqs, MaxStale) :
        l = [load EXCEPT !.error = FALSE, !.reqs = old \cup {Issued(q)}]
  BY DEF Started
<1>2. old \subseteq Superseded(load.reqs)
  BY DEF Surviving
<1>3. load.reqs \subseteq RequestOf(A, D)
  BY DEF LoadType
<1>4. \A r \in Superseded(load.reqs) :
        \E o \in load.reqs : o.phase = "body" /\ r = [o EXCEPT !.newest = FALSE]
  BY DEF Superseded, AfterAbort
<1>5. ASSUME NEW r \in old
      PROVE  /\ r \in RequestOf(A, D) /\ r.newest = FALSE
             /\ \E o \in load.reqs : o.phase = "body" /\ r.phase = "body"
                                     /\ r.arg = o.arg /\ r.data = o.data
  <2>1. PICK o \in load.reqs : o.phase = "body" /\ r = [o EXCEPT !.newest = FALSE]
    BY <1>2, <1>4
  <2>2. o \in RequestOf(A, D)
    BY <1>3
  <2>3. /\ r \in RequestOf(A, D) /\ r.newest = FALSE
        /\ r.phase = o.phase /\ r.arg = o.arg /\ r.data = o.data
    BY <2>1, <2>2 DEF RequestOf
  <2> QED
    BY <2>1, <2>3
<1>6. \A r \in old : /\ r \in RequestOf(A, D) /\ ~r.newest
                     /\ \E o \in load.reqs : o.phase = "body" /\ r.phase = "body"
                                             /\ r.arg = o.arg /\ r.data = o.data
  BY <1>5
<1>7. Issued(q) \in RequestOf(A, D)
  BY DEF Issued, RequestOf
<1>8. l.loading = load.loading /\ l.error = FALSE /\ l.reqs = old \cup {Issued(q)}
  BY <1>1 DEF LoadType
<1>9. l \in LoadType(A, D)
  BY <1>1, <1>6, <1>7 DEF LoadType
<1> QED
  BY <1>6, <1>8, <1>9 DEF JustStarted

(* Accepted headers change the phase and the data of one request.          *)
LEMMA AnsweredLoad ==
  ASSUME NEW A, NEW D, NEW load \in LoadType(A, D), NEW r \in load.reqs, NEW d \in D
  PROVE  LET l == Answered(load, r, d) IN
         /\ l \in LoadType(A, D)
         /\ l.loading = load.loading /\ l.error = load.error
         /\ \E s \in l.reqs :
               /\ s.arg = r.arg /\ s.newest = r.newest /\ s.phase = "body" /\ s.data = d
               /\ l.reqs = (load.reqs \ {r}) \cup {s}
<1> DEFINE l == Answered(load, r, d)
           s == [r EXCEPT !.phase = "body", !.data = d]
<1>1. r \in RequestOf(A, D)
  BY DEF LoadType
<1>2. s \in RequestOf(A, D) /\ s.arg = r.arg /\ s.phase = "body" /\ s.data = d
  BY <1>1 DEF RequestOf
<1>3. s.newest = r.newest
  BY <1>1 DEF RequestOf
<1>4. l = [load EXCEPT !.reqs = (load.reqs \ {r}) \cup {s}]
  BY DEF Answered, AfterHeaders
<1> HIDE DEF s
<1>5. l \in LoadType(A, D) /\ l.loading = load.loading /\ l.error = load.error
      /\ l.reqs = (load.reqs \ {r}) \cup {s}
  BY <1>2, <1>4 DEF LoadType
<1> QED
  BY <1>2, <1>3, <1>5

(* A request that settles goes; the newest one ends the loading.           *)
LEMMA SettledLoad ==
  ASSUME NEW A, NEW D, NEW load \in LoadType(A, D), NEW r \in load.reqs
  PROVE  LET l == Settled(load, r) IN
         /\ l \in LoadType(A, D)
         /\ l.loading <=> load.loading /\ ~r.newest
         /\ l.error = load.error
         /\ l.reqs = load.reqs \ {r}
<1> DEFINE l == Settled(load, r)
<1>1. r.newest \in BOOLEAN /\ load.loading \in BOOLEAN
  BY DEF LoadType, RequestOf
<1>2. l.error = load.error
  BY DEF LoadType, Settled
<1>3. l.reqs = load.reqs \ {r}
  BY DEF LoadType, Settled, AfterSettle
<1>4. l.loading = (load.loading /\ ~r.newest)
  BY DEF LoadType, Settled
<1>5. l = [f \in {"loading", "error", "reqs"} |-> l[f]]
  BY DEF LoadType, Settled
<1>6. l.loading \in BOOLEAN
  BY <1>4
<1> HIDE DEF l
<1>7. l \in LoadType(A, D)
  BY <1>2, <1>3, <1>5, <1>6 DEF LoadType
<1> QED
  BY <1>2, <1>3, <1>4, <1>7 DEF l

(* A request that fails settles, and the newest one reports its error.     *)
LEMMA FailedLoad ==
  ASSUME NEW A, NEW D, NEW load \in LoadType(A, D), NEW r \in load.reqs
  PROVE  LET l == Failed(load, r) IN
         /\ l \in LoadType(A, D)
         /\ l.loading <=> load.loading /\ ~r.newest
         /\ l.error <=> load.error \/ r.newest
         /\ l.reqs = load.reqs \ {r}
<1> DEFINE m == Settled(load, r)
           l == Failed(load, r)
<1>1. r.newest \in BOOLEAN /\ load.error \in BOOLEAN
  BY DEF LoadType, RequestOf
<1>2. /\ m \in LoadType(A, D) /\ (m.loading <=> load.loading /\ ~r.newest)
      /\ m.error = load.error /\ m.reqs = load.reqs \ {r}
  BY SettledLoad
<1>3. l = [m EXCEPT !.error = m.error \/ r.newest]
  BY DEF Failed
<1> HIDE DEF m, l
<1>4. l.error = (m.error \/ r.newest)
  BY <1>2, <1>3 DEF LoadType
<1>5. l.loading = m.loading
  BY <1>2, <1>3 DEF LoadType
<1>6. l.reqs = m.reqs
  BY <1>2, <1>3 DEF LoadType
<1>7. l = [f \in {"loading", "error", "reqs"} |-> l[f]]
  BY <1>2, <1>3 DEF LoadType
<1>8. l.error \in BOOLEAN
  BY <1>4
<1>9. l \in LoadType(A, D)
  BY <1>2, <1>5, <1>6, <1>7, <1>8 DEF LoadType
<1>10. l.error <=> load.error \/ r.newest
  BY <1>2, <1>4
<1>11. l.loading <=> load.loading /\ ~r.newest
  BY <1>2, <1>5
<1> QED
  BY <1>2, <1>6, <1>9, <1>10, <1>11 DEF l

(* What the cleanup of an effect leaves: the requests with a body.         *)
LEMMA CleanedUpLoad ==
  ASSUME NEW A, NEW D, NEW load \in LoadType(A, D), NEW l \in CleanedUp(load)
  PROVE  /\ l \in LoadType(A, D)
         /\ l.loading => load.loading
         /\ l.reqs = {r \in load.reqs : r.phase = "body"}
<1> DEFINE open == OpenOnes(load.reqs) # {}
<1>1. PICK e \in {load.error, load.error \/ open} :
        l = [loading |-> load.loading /\ ~open, error |-> e, reqs |-> AfterAbort(load.reqs)]
  BY DEF CleanedUp
<1>2. e \in BOOLEAN
  BY DEF LoadType
<1> HIDE DEF open
<1>3. l.loading = (load.loading /\ ~open)
  BY <1>1
<1>4. l.error = e
  BY <1>1
<1>5. l.reqs = AfterAbort(load.reqs)
  BY <1>1
<1>6. l = [f \in {"loading", "error", "reqs"} |-> l[f]]
  BY <1>1
<1>7. l.loading \in BOOLEAN
  BY <1>3
<1>8. l.reqs \subseteq RequestOf(A, D)
  BY <1>5 DEF AfterAbort, LoadType
<1>9. l \in LoadType(A, D)
  BY <1>2, <1>4, <1>6, <1>7, <1>8 DEF LoadType
<1> QED
  BY <1>3, <1>5, <1>9 DEF AfterAbort

-----------------------------------------------------------------------------
(* The compare page.  Once the effect has run for the ids of the URL, the  *)
(* newest request and what is shown are of these ids, and when nothing is  *)
(* under way something is shown or an error is.                            *)
CompareInv ==
    /\ CompareTypeOK
    /\ compareTimer => Given(compareIds)
    /\ \A r \in compareLoad.reqs : Given(r.arg.ids)
    /\ ~compareTimer /\ Given(compareIds) =>
          /\ compareShown \in {None, compareIds}
          /\ \A r \in compareLoad.reqs : r.newest => r.arg.ids = compareIds
          /\ Quiet(compareLoad) => compareShown # None \/ (compareLoad.error /\ ~compareLoad.loading)

CompareArgs == [ids : Pairs, open : SUBSET CompareCalls]

(* A page that is not mounted satisfies its invariant.                     *)
LEMMA CompareOffInv == CompareOff => CompareInv
<1> SUFFICES ASSUME CompareOff PROVE CompareInv
  OBVIOUS
<1> USE DEF CompareOff
<1>1. compareIds \in Pairs /\ ~Given(compareIds) /\ compareLoad.reqs = {}
  BY DEF Pairs, Given, NewLoad
<1>2. CompareTypeOK
  BY <1>1 DEF CompareTypeOK, LoadType, NewLoad
<1> QED
  BY <1>1, <1>2 DEF CompareInv

(* So does one that mounts, with any ids.                                  *)
LEMMA CompareMountInv ==
  ASSUME NEW ids \in Pairs, CompareMount(ids) PROVE CompareInv'
<1> USE DEF CompareMount
<1>1. compareLoad'.reqs = {} /\ compareLoad' \in LoadType(CompareArgs, {"all"})
  BY DEF NewLoad, LoadType, Given
<1>2. CompareTypeOK'
  BY <1>1 DEF CompareTypeOK, CompareArgs, Given
<1> QED
  BY <1>1, <1>2 DEF CompareInv, Given, Quiet, Newest

(* An invariant state shows what the property says.                        *)
LEMMA CompareInvImplies == CompareInv => ComparisonIsOfUrl
  BY DEF CompareInv, ComparisonIsOfUrl, CompareView, CompareTypeOK

(* Headers for one of the three calls.                                     *)
LEMMA CompareAnsweredLoad ==
  ASSUME CompareInv, NEW r \in compareLoad.reqs, NEW call \in CompareCalls,
         CompareAnswered(r, call)
  PROVE  /\ compareLoad' \in LoadType(CompareArgs, {"all"})
         /\ compareLoad'.loading = compareLoad.loading /\ compareLoad'.error = compareLoad.error
         /\ \A x \in compareLoad'.reqs :
               x \in compareLoad.reqs \/ (x.arg.ids = r.arg.ids /\ x.newest = r.newest)
         /\ Quiet(compareLoad') => Quiet(compareLoad)
<1> DEFINE R == RequestOf(CompareArgs, {"all"})
           s == [r EXCEPT !.arg.open = @ \ {call}]
           rest == [compareLoad EXCEPT !.reqs = (compareLoad.reqs \ {r}) \cup {s}]
<1>1. compareLoad \in LoadType(CompareArgs, {"all"}) /\ r \in R
  BY DEF CompareInv, CompareTypeOK, CompareArgs, LoadType
<1>2. s.arg = [r.arg EXCEPT !.open = @ \ {call}]
  BY <1>1 DEF RequestOf
<1>3. s.arg \in CompareArgs /\ s.arg.ids = r.arg.ids
  BY <1>1, <1>2 DEF RequestOf, CompareArgs
<1>4. s.newest = r.newest
  BY <1>1 DEF RequestOf
<1>5. s.phase = r.phase /\ s.data = r.data
  BY <1>1 DEF RequestOf
<1>6. s = [f \in {"arg", "phase", "newest", "data"} |-> s[f]]
  BY <1>1 DEF RequestOf
<1>7. compareLoad' = IF s.arg.open = {} THEN Answered(rest, s, "all") ELSE rest
  BY DEF CompareAnswered
<1> HIDE DEF s
<1>8. s \in R
  BY <1>1, <1>3, <1>4, <1>5, <1>6 DEF RequestOf
<1>9. /\ rest \in LoadType(CompareArgs, {"all"})
      /\ rest.loading = compareLoad.loading /\ rest.error = compareLoad.error
      /\ rest.reqs = (compareLoad.reqs \ {r}) \cup {s}
  BY <1>1, <1>8 DEF LoadType
<1> HIDE DEF rest
<1>10. CASE s.arg.open = {}
  <2>1. compareLoad' = Answered(rest, s, "all")
    BY <1>7, <1>10
  <2>2. s \in rest.reqs
    BY <1>9
  <2>3. /\ compareLoad' \in LoadType(CompareArgs, {"all"})
        /\ compareLoad'.loading = rest.loading /\ compareLoad'.error = rest.error
        /\ \E x \in compareLoad'.reqs :
              /\ x.arg = s.arg /\ x.newest = s.newest
              /\ compareLoad'.reqs = (rest.reqs \ {s}) \cup {x}
    BY <1>9, <2>1, <2>2, AnsweredLoad
  <2> QED
    BY <1>3, <1>4, <1>9, <2>3 DEF Quiet, Newest
<1>11. CASE s.arg.open # {}
  BY <1>3, <1>4, <1>7, <1>9, <1>11 DEF Quiet, Newest
<1> QED
  BY <1>10, <1>11

(* Every step of the page keeps its invariant.                             *)
LEMMA CompareNextInv == CompareInv /\ CompareNext => CompareInv'
<1> SUFFICES ASSUME CompareInv, CompareNext PROVE CompareInv'
  OBVIOUS
<1>0. /\ CompareTypeOK /\ compareLoad \in LoadType(CompareArgs, {"all"})
      /\ \A r \in compareLoad.reqs : Given(r.arg.ids) /\ r.arg.ids \in Pairs
  BY DEF CompareInv, CompareTypeOK, CompareArgs, LoadType, RequestOf
<1>1. ASSUME NEW ids \in Pairs, ChangeCompareIds(ids) PROVE CompareInv'
  <2>1. /\ compareLoad' \in LoadType(CompareArgs, {"all"})
        /\ compareLoad'.reqs \subseteq compareLoad.reqs
    <3>1. CASE Given(compareIds)
      BY <1>0, <1>1, <3>1, CleanedUpLoad DEF ChangeCompareIds
    <3>2. CASE ~Given(compareIds)
      BY <1>0, <1>1, <3>2 DEF ChangeCompareIds
    <3> QED
      BY <3>1, <3>2
  <2>2. compareIds' = ids /\ compareTimer' = Given(ids) /\ compareShown' = compareShown
    BY <1>1 DEF ChangeCompareIds
  <2>3. CompareTypeOK'
    BY <1>0, <2>1, <2>2 DEF CompareTypeOK, CompareArgs, Given
  <2> QED
    BY <1>0, <2>1, <2>2, <2>3 DEF CompareInv, Given
<1>2. CASE LoadComparison
  <2> DEFINE q == [ids |-> compareIds, open |-> CompareCalls]
  <2>1. q \in CompareArgs
    BY <1>0 DEF CompareTypeOK, CompareArgs
  <2>2. PICK load \in Started(compareLoad, q) : compareLoad' = [load EXCEPT !.loading = TRUE]
    BY <1>2 DEF LoadComparison
  <2> HIDE DEF q
  <2>3. /\ load \in LoadType(CompareArgs, {"all"}) /\ Issued(q) \in load.reqs
        /\ \A r \in load.reqs : r.newest => r = Issued(q)
        /\ \A r \in load.reqs : r # Issued(q) => \E o \in compareLoad.reqs : r.arg = o.arg
    <3>1. load \in Started(compareLoad, q) /\ compareLoad \in LoadType(CompareArgs, {"all"})
      BY <1>0, <2>2
    <3>2. load \in LoadType(CompareArgs, {"all"}) /\ JustStarted(compareLoad, q, load)
      BY <2>1, <3>1, StartedLoad
    <3> QED
      BY <3>2 DEF JustStarted
  <2>4. compareLoad' \in LoadType(CompareArgs, {"all"}) /\ compareLoad'.reqs = load.reqs
    BY <2>2, <2>3 DEF LoadType
  <2>5. Given(compareIds) /\ compareTimer' \in BOOLEAN
    BY <1>0, <1>2 DEF CompareInv, LoadComparison, CompareView, CompareTypeOK
  <2>6. Issued(q).arg.ids = compareIds /\ Issued(q).newest
    BY DEF Issued, q
  <2>7. compareShown' = None /\ compareIds' = compareIds
    BY <1>2 DEF LoadComparison
  <2>8. \A r \in compareLoad'.reqs : Given(r.arg.ids) /\ (r.newest => r.arg.ids = compareIds)
    BY <1>0, <2>3, <2>4, <2>5, <2>6
  <2>9. ~Quiet(compareLoad')
    BY <2>3, <2>4, <2>6 DEF Quiet, Newest
  <2>10. CompareTypeOK'
    BY <1>0, <2>4, <2>5, <2>7 DEF CompareTypeOK, CompareArgs
  <2> QED
    BY <2>5, <2>7, <2>8, <2>9, <2>10 DEF CompareInv, Given
<1>3. ASSUME NEW r \in compareLoad.reqs, NEW call \in CompareCalls, CompareAnswered(r, call)
      PROVE  CompareInv'
  <2>1. UNCHANGED <<compareIds, compareShown, compareTimer>>
    BY <1>3 DEF CompareAnswered
  <2>2. /\ compareLoad' \in LoadType(CompareArgs, {"all"})
        /\ compareLoad'.loading = compareLoad.loading /\ compareLoad'.error = compareLoad.error
        /\ \A x \in compareLoad'.reqs :
              x \in compareLoad.reqs \/ (x.arg.ids = r.arg.ids /\ x.newest = r.newest)
        /\ Quiet(compareLoad') => Quiet(compareLoad)
    BY <1>3, CompareAnsweredLoad
  <2>3. CompareTypeOK'
    BY <1>0, <2>1, <2>2 DEF CompareTypeOK, CompareArgs
  <2> QED
    BY <1>0, <2>1, <2>2, <2>3 DEF CompareInv, Given
<1>4. ASSUME NEW r \in compareLoad.reqs, CompareDelivers(r) PROVE CompareInv'
  <2>1. /\ compareLoad' \in LoadType(CompareArgs, {"all"})
        /\ (compareLoad'.loading <=> compareLoad.loading /\ ~r.newest)
        /\ compareLoad'.error = compareLoad.error
        /\ compareLoad'.reqs = compareLoad.reqs \ {r}
    BY <1>0, <1>4, SettledLoad DEF CompareDelivers
  <2>2. /\ UNCHANGED <<compareIds, compareTimer>>
        /\ compareShown' = IF r.newest THEN r.arg.ids ELSE compareShown
    BY <1>4 DEF CompareDelivers
  <2>3. r.newest => r.arg.ids # None
    BY <1>0, PairsAssumption
  <2>4. CompareTypeOK'
    BY <1>0, <2>1, <2>2 DEF CompareTypeOK, CompareArgs
  <2>5. ~r.newest /\ Quiet(compareLoad') => Quiet(compareLoad)
    BY <2>1 DEF Quiet, Newest
  <2> QED
    BY <1>0, <2>1, <2>2, <2>3, <2>4, <2>5 DEF CompareInv, Given
<1>5. ASSUME NEW r \in compareLoad.reqs, CompareFails(r) PROVE CompareInv'
  <2>1. /\ compareLoad' \in LoadType(CompareArgs, {"all"})
        /\ (compareLoad'.loading <=> compareLoad.loading /\ ~r.newest)
        /\ (compareLoad'.error <=> compareLoad.error \/ r.newest)
        /\ compareLoad'.reqs = compareLoad.reqs \ {r}
    BY <1>0, <1>5, FailedLoad DEF CompareFails
  <2>2. UNCHANGED <<compareIds, compareShown, compareTimer>>
    BY <1>5 DEF CompareFails
  <2>3. CompareTypeOK'
    BY <1>0, <2>1, <2>2 DEF CompareTypeOK, CompareArgs
  <2>4. ~r.newest /\ Quiet(compareLoad') => Quiet(compareLoad)
    BY <2>1 DEF Quiet, Newest
  <2> QED
    BY <1>0, <2>1, <2>2, <2>3, <2>4 DEF CompareInv, Given
<1> QED
  BY <1>1, <1>2, <1>3, <1>4, <1>5 DEF CompareNext

-----------------------------------------------------------------------------
(* The sampler page.  The property is inductive: whatever changes the form *)
(* takes the preview back in the same step.                                *)
SamplerInv ==
    /\ SamplerTypeOK
    /\ \A r \in samplerLoad.reqs : r.phase = "body" => r.data \in Reports
    /\ PreviewIsDraft

SamplerLoads == LoadType(BOOLEAN, Reports)

(* The conversions of the collector and of the form.                       *)
LEMMA DraftTypes ==
  /\ NewDraft \in Configs /\ Configs \subseteq Drafts
  /\ \A c \in Configs : Reported(c) \in Reports
  /\ \A c \in Reports : DraftOf(c) \in Drafts
<1> USE SettingsAssumption DEF Drafts
<1>1. NewDraft \in Configs /\ Configs \subseteq Drafts
  BY DEF NewDraft, Configs, ValidDraft
<1>2. \A c \in Configs : Reported(c) \in Reports
  BY DEF Reports
<1>3. ASSUME NEW d \in Configs PROVE DraftOf(Reported(d)) \in Drafts
  <2>1. CASE d.type = "tail"
    <3>1. /\ Reported(d) = [type |-> "tail", setting |-> None]
          /\ DraftOf(Reported(d)) = [type |-> "tail", setting |-> FallbackTail]
      BY <1>1, <2>1 DEF Reported, DraftOf
    <3> QED
      BY <3>1
  <2>2. CASE d.type # "tail"
    BY <1>1, <2>2 DEF Reported, DraftOf
  <2> QED
    BY <2>1, <2>2
<1> QED
  BY <1>1, <1>2, <1>3 DEF Reports

(* A page that is not mounted satisfies its invariant.                     *)
LEMMA SamplerOffInv == SamplerOff => SamplerInv
<1> SUFFICES ASSUME SamplerOff PROVE SamplerInv
  OBVIOUS
<1> USE SettingsAssumption, DraftTypes DEF SamplerOff
<1>1. samplerLoad.reqs = {} /\ samplerLoad \in SamplerLoads
  BY DEF NewLoad, LoadType, SamplerLoads
<1>2. historyLength \in 0 .. MaxHistory
  OBVIOUS
<1>3. SamplerTypeOK
  BY <1>1, <1>2 DEF SamplerTypeOK, SamplerLoads
<1> QED
  BY <1>1, <1>3 DEF SamplerInv, PreviewIsDraft

(* So does one that mounts.                                                *)
LEMMA SamplerMountInv == SamplerOff /\ SamplerMount => SamplerInv'
<1> SUFFICES ASSUME SamplerOff, SamplerMount PROVE SamplerInv'
  OBVIOUS
<1>1. SamplerInv
  BY SamplerOffInv
<1>2. samplerConfig' \in Configs /\ UNCHANGED <<puts, formVars>>
  BY DEF SamplerMount
<1> QED
  BY <1>1, <1>2 DEF formVars, SamplerInv, SamplerTypeOK, PreviewIsDraft

(* The effect of a step on the load keeps the types.                       *)
LEMMA EditEffectLoad ==
  ASSUME NEW pending, NEW edits, NEW load \in SamplerLoads,
         \A r \in load.reqs : r.phase = "body" => r.data \in Reports,
         EditEffect(pending, edits, load)
  PROVE  /\ pendingBody' = pending /\ hasLocalEdits' = edits
         /\ samplerLoad' \in SamplerLoads
         /\ \A r \in samplerLoad'.reqs : r.phase = "body" => r.data \in Reports
<1>1. pendingBody' = pending /\ hasLocalEdits' = edits
  BY DEF EditEffect
<1>2. CASE samplerLoad' = load
  BY <1>1, <1>2
<1>3. CASE samplerLoad' \in CleanedUp(load)
  BY <1>1, <1>3, CleanedUpLoad DEF SamplerLoads
<1> QED
  BY <1>2, <1>3 DEF EditEffect

(* The error of a load does not matter to its type.                        *)
LEMMA ErrorLoad ==
  ASSUME NEW load \in SamplerLoads, NEW e \in BOOLEAN
  PROVE  [load EXCEPT !.error = e] \in SamplerLoads /\ [load EXCEPT !.error = e].reqs = load.reqs
  BY DEF SamplerLoads, LoadType

(* Every step of the page keeps its invariant.                             *)
LEMMA SamplerNextInv == SamplerInv /\ SamplerNext => SamplerInv'
<1> SUFFICES ASSUME SamplerInv, SamplerNext PROVE SamplerInv'
  OBVIOUS
<1>0. /\ SamplerTypeOK /\ PreviewIsDraft /\ samplerLoad \in SamplerLoads
      /\ draft \in Drafts
      /\ \A r \in samplerLoad.reqs : r.phase = "body" => r.data \in Reports
  BY DEF SamplerInv, SamplerTypeOK, SamplerLoads
<1>1. ASSUME NEW c \in Configs, SamplerReplaced(c) PROVE SamplerInv'
  BY <1>0, <1>1 DEF SamplerReplaced, formVars, SamplerInv, SamplerTypeOK, PreviewIsDraft
<1>2. ASSUME NEW d \in Drafts, EditDraft(d) PROVE SamplerInv'
  <2>1. /\ draft' = d /\ UNCHANGED <<samplerConfig, puts, shownConfig, historyLength>>
        /\ EditEffect(None, TRUE, samplerLoad)
    BY <1>2 DEF EditDraft
  <2>2. /\ pendingBody' = None /\ hasLocalEdits' = TRUE
        /\ samplerLoad' \in SamplerLoads
        /\ \A r \in samplerLoad'.reqs : r.phase = "body" => r.data \in Reports
    BY <1>0, <2>1, EditEffectLoad
  <2> QED
    BY <1>0, <2>1, <2>2 DEF SamplerInv, SamplerTypeOK, SamplerLoads, PreviewIsDraft
<1>3. CASE PreviewChange
  <2>1. UNCHANGED <<samplerConfig, puts, shownConfig, draft, hasLocalEdits, historyLength>>
    BY <1>3 DEF PreviewChange
  <2>2. CASE ValidDraft(draft)
    <3> DEFINE load == [samplerLoad EXCEPT !.error = FALSE]
    <3>1. load \in SamplerLoads /\ load.reqs = samplerLoad.reqs
      BY <1>0, ErrorLoad
    <3>2. pendingBody' = draft /\ samplerLoad' \in CleanedUp(load)
      BY <1>3, <2>2 DEF PreviewChange
    <3> HIDE DEF load
    <3>3. /\ samplerLoad' \in SamplerLoads
          /\ samplerLoad'.reqs = {r \in load.reqs : r.phase = "body"}
      BY <3>1, <3>2, CleanedUpLoad DEF SamplerLoads
    <3>4. draft \in Configs
      BY <1>0, <2>2 DEF Configs
    <3> QED
      BY <1>0, <2>1, <2>2, <3>1, <3>2, <3>3, <3>4 DEF SamplerInv, SamplerTypeOK, SamplerLoads, PreviewIsDraft
  <2>3. CASE ~ValidDraft(draft)
    <3>1. /\ samplerLoad' \in SamplerLoads /\ samplerLoad'.reqs = samplerLoad.reqs
          /\ UNCHANGED pendingBody
      BY <1>0, <1>3, <2>3, ErrorLoad DEF PreviewChange
    <3> QED
      BY <1>0, <2>1, <3>1 DEF SamplerInv, SamplerTypeOK, SamplerLoads, PreviewIsDraft
  <2> QED
    BY <2>2, <2>3
<1>4. CASE CancelPreview
  <2>1. /\ UNCHANGED <<samplerConfig, puts, shownConfig, draft, historyLength>>
        /\ EditEffect(None, hasLocalEdits, samplerLoad)
    BY <1>4 DEF CancelPreview
  <2>2. /\ pendingBody' = None /\ hasLocalEdits' = hasLocalEdits
        /\ samplerLoad' \in SamplerLoads
        /\ \A r \in samplerLoad'.reqs : r.phase = "body" => r.data \in Reports
    BY <1>0, <2>1, EditEffectLoad
  <2> QED
    BY <1>0, <2>1, <2>2 DEF SamplerInv, SamplerTypeOK, SamplerLoads, PreviewIsDraft
<1>5. CASE ResetDraft
  <2>1. /\ draft' = DraftOf(shownConfig) /\ shownConfig # None
        /\ UNCHANGED <<samplerConfig, puts, shownConfig, historyLength>>
        /\ EditEffect(None, FALSE, samplerLoad)
    BY <1>5 DEF ResetDraft
  <2>2. /\ pendingBody' = None /\ hasLocalEdits' = FALSE
        /\ samplerLoad' \in SamplerLoads
        /\ \A r \in samplerLoad'.reqs : r.phase = "body" => r.data \in Reports
    BY <1>0, <2>1, EditEffectLoad
  <2>3. draft' \in Drafts
    BY <1>0, <2>1, DraftTypes DEF SamplerTypeOK
  <2> QED
    BY <1>0, <2>1, <2>2, <2>3 DEF SamplerInv, SamplerTypeOK, SamplerLoads, PreviewIsDraft
<1>6. CASE Confirm
  BY <1>0, <1>6 DEF Confirm, formVars, SamplerInv, SamplerTypeOK, PreviewIsDraft
<1>7. ASSUME NEW p \in puts, PutApplied(p) PROVE SamplerInv'
  <2>1. p \in Configs
    BY <1>0, <1>7 DEF PutApplied, SamplerTypeOK
  <2> QED
    BY <1>0, <1>7, <2>1 DEF PutApplied, formVars, SamplerInv, SamplerTypeOK, PreviewIsDraft
<1>8. CASE PutSucceeds
  <2>1. PICK load \in Started(samplerLoad, FALSE) : EditEffect(None, FALSE, load)
    BY <1>8 DEF PutSucceeds
  <2>2. load \in SamplerLoads /\ JustStarted(samplerLoad, FALSE, load)
    BY <1>0, StartedLoad DEF SamplerLoads
  <2>3. \A r \in load.reqs : r.phase = "body" => r.data \in Reports
    <3>1. Issued(FALSE).phase = "open"
      BY DEF Issued
    <3> QED
      BY <1>0, <2>2, <3>1 DEF JustStarted
  <2>4. /\ pendingBody' = None /\ hasLocalEdits' = FALSE
        /\ samplerLoad' \in SamplerLoads
        /\ \A r \in samplerLoad'.reqs : r.phase = "body" => r.data \in Reports
    BY <1>0, <2>1, <2>2, <2>3, EditEffectLoad
  <2>5. puts' = puts \ {None} /\ UNCHANGED <<samplerConfig, shownConfig, draft, historyLength>>
    BY <1>8 DEF PutSucceeds
  <2> QED
    BY <1>0, <2>4, <2>5 DEF SamplerInv, SamplerTypeOK, SamplerLoads, PreviewIsDraft
<1>9. ASSUME NEW p \in puts, PutFails(p) PROVE SamplerInv'
  <2>1. samplerLoad' \in SamplerLoads /\ samplerLoad'.reqs = samplerLoad.reqs
    BY <1>0, <1>9, ErrorLoad DEF PutFails
  <2> QED
    BY <1>0, <1>9, <2>1 DEF PutFails, SamplerInv, SamplerTypeOK, SamplerLoads, PreviewIsDraft
<1>10. CASE FetchConfig
  <2> DEFINE q == Clean
  <2>1. samplerLoad' \in Started(samplerLoad, q) /\ q \in BOOLEAN
    BY <1>10 DEF FetchConfig, Clean
  <2> HIDE DEF q
  <2>2. samplerLoad' \in SamplerLoads /\ JustStarted(samplerLoad, q, samplerLoad')
    BY <1>0, <2>1, StartedLoad DEF SamplerLoads
  <2>3. \A r \in samplerLoad'.reqs : r.phase = "body" => r.data \in Reports
    <3>1. Issued(q).phase = "open"
      BY DEF Issued
    <3> QED
      BY <1>0, <2>2, <3>1 DEF JustStarted
  <2>4. UNCHANGED <<samplerConfig, puts, shownConfig, draft, pendingBody, hasLocalEdits, historyLength>>
    BY <1>0, <1>10 DEF FetchConfig
  <2> QED
    BY <1>0, <2>2, <2>3, <2>4 DEF SamplerInv, SamplerTypeOK, SamplerLoads, PreviewIsDraft
<1>11. ASSUME NEW r \in samplerLoad.reqs, ConfigAnswered(r) PROVE SamplerInv'
  <2>1. samplerLoad' = Answered(samplerLoad, r, Reported(samplerConfig))
        /\ Reported(samplerConfig) \in Reports
    BY <1>0, <1>11, DraftTypes DEF ConfigAnswered, SamplerTypeOK
  <2>2. /\ samplerLoad' \in SamplerLoads
        /\ \E s \in samplerLoad'.reqs : s.data = Reported(samplerConfig)
                                        /\ samplerLoad'.reqs = (samplerLoad.reqs \ {r}) \cup {s}
    BY <1>0, <2>1, AnsweredLoad DEF SamplerLoads
  <2>3. \A x \in samplerLoad'.reqs : x.phase = "body" => x.data \in Reports
    BY <1>0, <2>1, <2>2
  <2> QED
    BY <1>0, <1>11, <2>2, <2>3 DEF ConfigAnswered, SamplerInv, SamplerTypeOK, SamplerLoads, PreviewIsDraft
<1>12. ASSUME NEW r \in samplerLoad.reqs, ConfigFails(r) PROVE SamplerInv'
  <2>1. samplerLoad' \in SamplerLoads /\ samplerLoad'.reqs = samplerLoad.reqs \ {r}
    BY <1>0, <1>12, FailedLoad DEF ConfigFails, SamplerLoads
  <2> QED
    BY <1>0, <1>12, <2>1 DEF ConfigFails, SamplerInv, SamplerTypeOK, SamplerLoads, PreviewIsDraft
<1>13. ASSUME NEW r \in samplerLoad.reqs, ConfigDelivers(r) PROVE SamplerInv'
  <2> DEFINE load == Settled(samplerLoad, r)
  <2>1. load \in SamplerLoads /\ load.reqs = samplerLoad.reqs \ {r}
    BY <1>0, SettledLoad DEF SamplerLoads
  <2>2. r.data \in Reports /\ UNCHANGED <<samplerConfig, puts>>
    BY <1>0, <1>13 DEF ConfigDelivers
  <2>3. CASE r.newest /\ r.arg
    <3>1. /\ shownConfig' = r.data /\ draft' = DraftOf(r.data) /\ EditEffect(None, FALSE, load)
          /\ historyLength' = IF historyLength < MaxHistory THEN historyLength + 1 ELSE MaxHistory
      BY <1>13, <2>3 DEF ConfigDelivers
    <3> HIDE DEF load
    <3>2. /\ pendingBody' = None /\ hasLocalEdits' = FALSE
          /\ samplerLoad' \in SamplerLoads
          /\ \A x \in samplerLoad'.reqs : x.phase = "body" => x.data \in Reports
      BY <1>0, <2>1, <3>1, EditEffectLoad
    <3>3. draft' \in Drafts
      BY <2>2, <3>1, DraftTypes
    <3>4. historyLength' \in 0 .. MaxHistory
      BY <1>0, <3>1, SettingsAssumption DEF SamplerTypeOK
    <3> QED
      BY <1>0, <2>2, <3>1, <3>2, <3>3, <3>4 DEF SamplerInv, SamplerTypeOK, SamplerLoads, PreviewIsDraft
  <2>4. CASE r.newest /\ ~r.arg
    <3>1. /\ shownConfig' = r.data /\ samplerLoad' = load
          /\ historyLength' = IF historyLength < MaxHistory THEN historyLength + 1 ELSE MaxHistory
          /\ UNCHANGED <<draft, pendingBody, hasLocalEdits>>
      BY <1>13, <2>4 DEF ConfigDelivers
    <3> HIDE DEF load
    <3>2. historyLength' \in 0 .. MaxHistory
      BY <1>0, <3>1, SettingsAssumption DEF SamplerTypeOK
    <3> QED
      BY <1>0, <2>1, <2>2, <3>1, <3>2 DEF SamplerInv, SamplerTypeOK, SamplerLoads, PreviewIsDraft
  <2>5. CASE ~r.newest
    <3>1. /\ samplerLoad' = load
          /\ UNCHANGED <<shownConfig, historyLength, draft, pendingBody, hasLocalEdits>>
      BY <1>13, <2>5 DEF ConfigDelivers
    <3> HIDE DEF load
    <3> QED
      BY <1>0, <2>1, <2>2, <3>1 DEF SamplerInv, SamplerTypeOK, SamplerLoads, PreviewIsDraft
  <2> QED
    BY <2>3, <2>4, <2>5
<1> QED
  BY <1>1, <1>2, <1>3, <1>4, <1>5, <1>6, <1>7, <1>8, <1>9, <1>10, <1>11, <1>12, <1>13 DEF SamplerNext

-----------------------------------------------------------------------------
(* The timeline page.  An announced trace is stored, so a load that starts *)
(* after the announcement sees it; until one starts, a timer is armed.     *)
Seen(n) == announced <= n \/ n = TimelineLimit

TimelineInv ==
    /\ TimelineTypeOK
    /\ announced <= completed
    /\ \A i \in 1 .. Len(channel) : channel[i] <= completed
    /\ \A r \in timelineLoad.reqs : r.phase = "body" => r.data \in 0 .. TimelineLimit
    /\ ~refreshTimer => \A r \in timelineLoad.reqs : r.newest /\ r.phase = "body" => Seen(r.data)
    /\ ~startTimer /\ ~refreshTimer /\ Quiet(timelineLoad) /\ ~timelineLoad.error =>
          Seen(timelineShown)

TimelineLoads == LoadType({"traces"}, 0 .. TimelineLimit)

(* A page that is not mounted satisfies its invariant.                     *)
LEMMA TimelineOffInv == TimelineOff => TimelineInv
<1> SUFFICES ASSUME TimelineOff PROVE TimelineInv
  OBVIOUS
<1> USE TimelineAssumption, ChannelAssumption DEF TimelineOff, StreamOff
<1>1. timelineLoad.reqs = {} /\ timelineLoad \in TimelineLoads
  BY DEF NewLoad, LoadType, TimelineLoads
<1>2. channel \in Seq(0 .. MaxTraces) /\ Len(channel) = 0
  OBVIOUS
<1>3. /\ completed \in 0 .. MaxTraces /\ timelineShown \in 0 .. TimelineLimit
      /\ announced \in 0 .. MaxTraces /\ Len(channel) <= ChannelSize
  BY <1>2
<1>4. startTimer \in BOOLEAN /\ refreshTimer \in BOOLEAN /\ reconnect \in BOOLEAN
      /\ es \in {"none", "connecting", "subscribed"}
  OBVIOUS
<1>5. TimelineTypeOK
  BY <1>1, <1>2, <1>3, <1>4 DEF TimelineTypeOK, TimelineLoads
<1> QED
  BY <1>1, <1>2, <1>5 DEF TimelineInv, Seen

(* So does one that mounts, whatever the collector has stored.             *)
LEMMA TimelineMountInv == TimelineMount => TimelineInv'
<1> SUFFICES ASSUME TimelineMount PROVE TimelineInv'
  OBVIOUS
<1> USE TimelineAssumption, ChannelAssumption DEF TimelineMount, StreamConnect
<1>1. timelineLoad'.reqs = {} /\ timelineLoad' \in TimelineLoads
  BY DEF NewLoad, LoadType, TimelineLoads
<1>2. channel' \in Seq(0 .. MaxTraces) /\ Len(channel') = 0
  OBVIOUS
<1>3. /\ completed' \in 0 .. MaxTraces /\ timelineShown' \in 0 .. TimelineLimit
      /\ announced' \in 0 .. MaxTraces /\ Len(channel') <= ChannelSize
  BY <1>2
<1>4. startTimer' \in BOOLEAN /\ refreshTimer' \in BOOLEAN /\ reconnect' \in BOOLEAN
      /\ es' \in {"none", "connecting", "subscribed"}
  OBVIOUS
<1>5. TimelineTypeOK'
  BY <1>1, <1>2, <1>3, <1>4 DEF TimelineTypeOK, TimelineLoads
<1> QED
  BY <1>1, <1>2, <1>5 DEF TimelineInv, Seen

(* An invariant state shows what the property says.                        *)
LEMMA TimelineInvImplies == TimelineInv => AnnouncedIsDrawn
  BY DEF TimelineInv, AnnouncedIsDrawn, Seen

(* A broadcast keeps the type of the channel and adds only its event.      *)
LEMMA BroadcastChannel ==
  ASSUME channel \in Seq(0 .. MaxTraces), Len(channel) <= ChannelSize,
         NEW event \in 0 .. MaxTraces, StreamBroadcast(event)
  PROVE  /\ channel' \in Seq(0 .. MaxTraces) /\ Len(channel') <= ChannelSize
         /\ es' = es /\ reconnect' = reconnect
         /\ \A i \in 1 .. Len(channel') :
               (i \in 1 .. Len(channel) /\ channel'[i] = channel[i]) \/ channel'[i] = event
<1> USE ChannelAssumption
<1>1. CASE es = "subscribed" /\ Len(channel) < ChannelSize
  BY <1>1 DEF StreamBroadcast
<1>2. CASE ~(es = "subscribed" /\ Len(channel) < ChannelSize)
  BY <1>2 DEF StreamBroadcast
<1> QED
  BY <1>1, <1>2

(* Every step of the page keeps its invariant.                             *)
LEMMA TimelineNextInv == TimelineInv /\ TimelineNext => TimelineInv'
<1> SUFFICES ASSUME TimelineInv, TimelineNext PROVE TimelineInv'
  OBVIOUS
<1> USE TimelineAssumption, ChannelAssumption
<1>0. TimelineTypeOK /\ timelineLoad \in TimelineLoads
  BY DEF TimelineInv, TimelineTypeOK, TimelineLoads
<1>1. CASE TraceStored
  <2>1. completed' \in 1 .. MaxTraces /\ completed' = completed + 1 /\ StreamBroadcast(completed')
    BY <1>0, <1>1 DEF TraceStored, TimelineTypeOK
  <2>2. UNCHANGED <<timelineShown, startTimer, refreshTimer, timelineLoad, announced>>
    BY <1>1 DEF TraceStored
  <2>3. /\ channel' \in Seq(0 .. MaxTraces) /\ Len(channel') <= ChannelSize
        /\ es' = es /\ reconnect' = reconnect
        /\ \A i \in 1 .. Len(channel') :
              (i \in 1 .. Len(channel) /\ channel'[i] = channel[i]) \/ channel'[i] = completed'
    BY <1>0, <2>1, BroadcastChannel DEF TimelineTypeOK
  <2>4. TimelineTypeOK'
    BY <1>0, <2>1, <2>2, <2>3 DEF TimelineTypeOK
  <2>5. \A i \in 1 .. Len(channel') : channel'[i] <= completed'
    <3> SUFFICES ASSUME NEW i \in 1 .. Len(channel') PROVE channel'[i] <= completed'
      OBVIOUS
    <3>1. completed \in Nat /\ (i \in 1 .. Len(channel) => channel[i] \in Nat /\ channel[i] <= completed)
      BY <1>0 DEF TimelineInv, TimelineTypeOK
    <3> QED
      BY <2>1, <2>3, <3>1
  <2> QED
    BY <1>0, <2>1, <2>2, <2>4, <2>5 DEF TimelineInv, TimelineTypeOK, Seen
<1>2. CASE SpanProcessed
  <2>1. UNCHANGED <<completed, timelineShown, startTimer, refreshTimer, timelineLoad, announced>>
    BY <1>2 DEF SpanProcessed
  <2>2. /\ channel' \in Seq(0 .. MaxTraces) /\ Len(channel') <= ChannelSize
        /\ es' = es /\ reconnect' = reconnect
        /\ \A i \in 1 .. Len(channel') :
              (i \in 1 .. Len(channel) /\ channel'[i] = channel[i]) \/ channel'[i] = 0
    BY <1>0, <1>2, BroadcastChannel DEF SpanProcessed, TimelineTypeOK
  <2>3. TimelineTypeOK'
    BY <1>0, <2>1, <2>2 DEF TimelineTypeOK
  <2>4. \A i \in 1 .. Len(channel') : channel'[i] <= completed'
    <3> SUFFICES ASSUME NEW i \in 1 .. Len(channel') PROVE channel'[i] <= completed'
      OBVIOUS
    <3>1. completed \in Nat /\ (i \in 1 .. Len(channel) => channel[i] \in Nat /\ channel[i] <= completed)
      BY <1>0 DEF TimelineInv, TimelineTypeOK
    <3> QED
      BY <2>1, <2>2, <3>1
  <2> QED
    BY <2>1, <2>3, <2>4 DEF TimelineInv, Seen
<1>3. CASE LoadTraces
  <2>1. timelineLoad' \in Started(timelineLoad, "traces")
    BY <1>3 DEF LoadTraces
  <2>2. timelineLoad' \in TimelineLoads /\ JustStarted(timelineLoad, "traces", timelineLoad')
    BY <1>0, <2>1, StartedLoad DEF TimelineLoads
  <2>3. UNCHANGED <<completed, timelineShown, announced, streamVars>>
    BY <1>3 DEF LoadTraces
  <2>4. startTimer' \in BOOLEAN /\ refreshTimer' \in BOOLEAN
    BY <1>0, <1>3 DEF LoadTraces, TimelineTypeOK
  <2>5. Issued("traces").phase = "open" /\ Issued("traces").newest
    BY DEF Issued
  <2>6. TimelineTypeOK'
    BY <1>0, <2>2, <2>3, <2>4 DEF TimelineTypeOK, TimelineLoads, streamVars
  <2>7. ~Quiet(timelineLoad')
    BY <2>2, <2>5 DEF JustStarted, Quiet, Newest
  <2>8. \A r \in timelineLoad'.reqs : r.phase = "body" => ~r.newest /\ r.data \in 0 .. TimelineLimit
    BY <2>2, <2>5 DEF JustStarted, TimelineInv
  <2> QED
    BY <2>3, <2>6, <2>7, <2>8 DEF TimelineInv, streamVars
<1>4. ASSUME NEW r \in timelineLoad.reqs, TimelineAnswered(r) PROVE TimelineInv'
  <2>1. OldestFirst \in 0 .. TimelineLimit /\ Seen(OldestFirst)
    BY <1>0 DEF OldestFirst, TimelineTypeOK, TimelineInv, Seen
  <2>2. /\ timelineLoad' \in TimelineLoads
        /\ timelineLoad'.error = timelineLoad.error
        /\ \E s \in timelineLoad'.reqs :
              /\ s.newest = r.newest /\ s.phase = "body" /\ s.data = OldestFirst
              /\ timelineLoad'.reqs = (timelineLoad.reqs \ {r}) \cup {s}
    BY <1>0, <1>4, <2>1, AnsweredLoad DEF TimelineAnswered, TimelineLoads
  <2>3. UNCHANGED <<completed, timelineShown, startTimer, refreshTimer, announced, streamVars>>
    BY <1>4 DEF TimelineAnswered
  <2>4. Quiet(timelineLoad') => Quiet(timelineLoad)
    BY <2>2 DEF Quiet, Newest
  <2>5. TimelineTypeOK'
    BY <1>0, <2>2, <2>3 DEF TimelineTypeOK, TimelineLoads, streamVars
  <2> QED
    BY <2>1, <2>2, <2>3, <2>4, <2>5 DEF TimelineInv, streamVars, Seen
<1>5. ASSUME NEW r \in timelineLoad.reqs, TimelineDelivers(r) PROVE TimelineInv'
  <2>1. /\ timelineLoad' \in TimelineLoads
        /\ timelineLoad'.error = timelineLoad.error
        /\ timelineLoad'.reqs = timelineLoad.reqs \ {r}
    BY <1>0, <1>5, SettledLoad DEF TimelineDelivers, TimelineLoads
  <2>2. /\ UNCHANGED <<completed, startTimer, refreshTimer, announced, streamVars>>
        /\ timelineShown' = IF r.newest THEN r.data ELSE timelineShown
        /\ r.phase = "body"
    BY <1>5 DEF TimelineDelivers
  <2>3. TimelineTypeOK'
    BY <1>0, <2>1, <2>2 DEF TimelineTypeOK, TimelineLoads, streamVars, TimelineInv
  <2>4. ~r.newest /\ Quiet(timelineLoad') => Quiet(timelineLoad)
    BY <2>1 DEF Quiet, Newest
  <2> QED
    BY <2>1, <2>2, <2>3, <2>4 DEF TimelineInv, streamVars, Seen
<1>6. ASSUME NEW r \in timelineLoad.reqs, TimelineFails(r) PROVE TimelineInv'
  <2>1. /\ timelineLoad' \in TimelineLoads
        /\ (timelineLoad'.error <=> timelineLoad.error \/ r.newest)
        /\ timelineLoad'.reqs = timelineLoad.reqs \ {r}
    BY <1>0, <1>6, FailedLoad DEF TimelineFails, TimelineLoads
  <2>2. UNCHANGED <<completed, timelineShown, startTimer, refreshTimer, announced, streamVars>>
    BY <1>6 DEF TimelineFails
  <2>3. TimelineTypeOK'
    BY <1>0, <2>1, <2>2 DEF TimelineTypeOK, TimelineLoads, streamVars
  <2>4. ~r.newest /\ Quiet(timelineLoad') => Quiet(timelineLoad)
    BY <2>1 DEF Quiet, Newest
  <2> QED
    BY <2>1, <2>2, <2>3, <2>4 DEF TimelineInv, streamVars, Seen
<1>7. CASE TimelineEvent
  <2>1. /\ channel # <<>> /\ channel' = Tail(channel) /\ UNCHANGED <<es, reconnect>>
        /\ UNCHANGED <<completed, timelineShown, startTimer, timelineLoad>>
    BY <1>7 DEF TimelineEvent, StreamMessage
  <2>2. /\ Head(channel) \in 0 .. MaxTraces /\ Head(channel) <= completed
        /\ channel' \in Seq(0 .. MaxTraces) /\ Len(channel') <= ChannelSize
        /\ \A i \in 1 .. Len(channel') : channel'[i] <= completed
    BY <1>0, <2>1 DEF TimelineTypeOK, TimelineInv
  <2>3. CASE Head(channel) = 0
    <3>1. UNCHANGED <<refreshTimer, announced>>
      BY <1>7, <2>3 DEF TimelineEvent
    <3>2. TimelineTypeOK'
      BY <1>0, <2>1, <2>2, <3>1 DEF TimelineTypeOK
    <3> QED
      BY <2>1, <2>2, <3>1, <3>2 DEF TimelineInv, Seen
  <2>4. CASE Head(channel) # 0
    <3>1. refreshTimer' = TRUE /\ announced' = Head(channel)
      BY <1>7, <2>4 DEF TimelineEvent, ScheduleReload
    <3>2. TimelineTypeOK'
      BY <1>0, <2>1, <2>2, <3>1 DEF TimelineTypeOK
    <3> QED
      BY <2>1, <2>2, <3>1, <3>2 DEF TimelineInv
  <2> QED
    BY <2>3, <2>4
<1>8. CASE TimelineStream
  <2>1. /\ es' \in {"none", "connecting", "subscribed"} /\ reconnect' \in BOOLEAN
        /\ channel' \in {channel, <<>>}
    BY <1>0, <1>8 DEF TimelineStream, StreamSubscribes, StreamError, StreamReconnects,
       StreamConnect, TimelineTypeOK
  <2>2. UNCHANGED <<completed, timelineShown, startTimer, refreshTimer, timelineLoad, announced>>
    BY <1>8 DEF TimelineStream
  <2>3. /\ channel' \in Seq(0 .. MaxTraces) /\ Len(channel') <= ChannelSize
        /\ \A i \in 1 .. Len(channel') : channel'[i] <= completed
    <3>1. CASE channel' = channel
      BY <1>0, <3>1 DEF TimelineTypeOK, TimelineInv
    <3>2. CASE channel' = <<>>
      BY <3>2
    <3> QED
      BY <2>1, <3>1, <3>2
  <2>4. TimelineTypeOK'
    BY <1>0, <2>1, <2>2, <2>3 DEF TimelineTypeOK
  <2> QED
    BY <2>2, <2>3, <2>4 DEF TimelineInv, Seen
<1> QED
  BY <1>1, <1>2, <1>3, <1>4, <1>5, <1>6, <1>7, <1>8 DEF TimelineNext

-----------------------------------------------------------------------------
(* The metrics page.  Unless the effect is about to fetch anew, the newest *)
(* request is for the service in focus and none of its calls was aborted,  *)
(* so what it brings, or fails to bring, is about that service.            *)
InFocus(r) ==
    r.arg = EffectiveSelectedService /\ \A c \in MetricsCalls : r.calls[c] # "aborted"

MetricsInv ==
    /\ MetricsTypeOK
    /\ \A r \in metricsLoad.reqs : r.calls["metrics"] = "ok" => r.data \in Measured
    /\ ~metricsTimer => \A r \in metricsLoad.reqs : r.newest => InFocus(r)
    /\ MetricsQuiet /\ EffectiveSelectedService \in Range(shownMetrics)
       /\ ~metricsLoad.error /\ "heatmap" \notin warnings => heatmapOf = EffectiveSelectedService

MetricsLoads == [loading : BOOLEAN, error : BOOLEAN, reqs : SUBSET MetricsRequest]

(* A page that is not mounted satisfies its invariant.                     *)
LEMMA MetricsOffInv == MetricsOff => MetricsInv
<1> SUFFICES ASSUME MetricsOff PROVE MetricsInv
  OBVIOUS
<1> USE MetricsAssumption DEF MetricsOff
<1>1. metricsLoad.reqs = {} /\ metricsLoad \in MetricsLoads
  BY DEF NewLoad, MetricsLoads
<1>2. MetricsTypeOK
  BY <1>1 DEF MetricsTypeOK, MetricsLoads
<1>3. Range(shownMetrics) = {}
  BY DEF Range
<1> QED
  BY <1>1, <1>2, <1>3 DEF MetricsInv

(* So does one that mounts.                                                *)
LEMMA MetricsMountInv == MetricsOff /\ MetricsMount => MetricsInv'
<1> SUFFICES ASSUME MetricsOff, MetricsMount PROVE MetricsInv'
  OBVIOUS
<1> USE MetricsAssumption DEF MetricsOff, MetricsMount
<1>1. metricsLoad'.reqs = {} /\ metricsLoad' \in MetricsLoads
  BY DEF NewLoad, MetricsLoads
<1>2. MetricsTypeOK'
  BY <1>1 DEF MetricsTypeOK, MetricsLoads
<1> QED
  BY <1>1, <1>2 DEF MetricsInv, MetricsQuiet

(* An invariant state shows what the property says.                        *)
LEMMA MetricsInvImplies == MetricsInv => HeatmapIsOfFocus
  BY DEF MetricsInv, HeatmapIsOfFocus, MetricsView

(* The focus is None or a service.                                         *)
LEMMA FocusType ==
  ASSUME NEW selected \in Measurable \cup {None}, NEW services \in Measured
  PROVE  Focus(selected, services) \in Measurable \cup {None}
<1>1. services \in Seq(Measurable)
  BY MetricsAssumption
<1> QED
  BY <1>1 DEF Focus

(* abort() changes open calls only, and gives none of them an answer.      *)
LEMMA AbortedRequest ==
  ASSUME NEW r \in MetricsRequest, NEW result \in {"aborted", "failed"}
  PROVE  /\ AbortCalls(r, result) \in MetricsRequest
         /\ AbortCalls(r, result).data = r.data
         /\ AbortCalls(r, result).calls["metrics"] = "ok" => r.calls["metrics"] = "ok"
<1> DEFINE calls == [c \in MetricsCalls |-> IF r.calls[c] = "open" THEN result ELSE r.calls[c]]
           s == AbortCalls(r, result)
<1>1. s = [r EXCEPT !.calls = calls]
  BY DEF AbortCalls
<1>2. calls \in [MetricsCalls -> {"open", "ok", "failed", "aborted"}]
  BY DEF MetricsRequest
<1>3. "metrics" \in MetricsCalls
  BY DEF MetricsCalls
<1>4. calls["metrics"] = "ok" => r.calls["metrics"] = "ok"
  BY <1>3
<1> HIDE DEF calls, s
<1>5. s \in MetricsRequest /\ s.data = r.data /\ s.calls = calls
  BY <1>1, <1>2 DEF MetricsRequest
<1> QED
  BY <1>4, <1>5 DEF s

(* The effect of a step on the load: none, or an abort and a new timer.    *)
LEMMA FocusEffectLoad ==
  ASSUME NEW before, NEW after, NEW load \in MetricsLoads, metricsTimer \in BOOLEAN,
         \A r \in load.reqs : r.calls["metrics"] = "ok" => r.data \in Measured,
         FocusEffect(before, after, load)
  PROVE  /\ metricsLoad' \in MetricsLoads /\ metricsTimer' \in BOOLEAN
         /\ \A r \in metricsLoad'.reqs : r.calls["metrics"] = "ok" => r.data \in Measured
         /\ before = after => metricsLoad' = load /\ metricsTimer' = metricsTimer
         /\ before # after => metricsTimer'
<1>1. CASE before = after
  BY <1>1 DEF FocusEffect
<1>2. CASE before # after
  <2>1. PICK result \in {"aborted", "failed"} :
          metricsLoad' = [load EXCEPT !.reqs = {AbortCalls(r, result) : r \in load.reqs}]
    BY <1>2 DEF FocusEffect
  <2> DEFINE rs == {AbortCalls(r, result) : r \in load.reqs}
  <2>2. metricsTimer' = TRUE
    BY <1>2 DEF FocusEffect
  <2>3. load.reqs \subseteq MetricsRequest
    BY DEF MetricsLoads
  <2>4. \A r \in rs : r \in MetricsRequest /\ (r.calls["metrics"] = "ok" => r.data \in Measured)
    BY <2>3, AbortedRequest
  <2>5. metricsLoad' = [load EXCEPT !.reqs = rs]
    BY <2>1
  <2> HIDE DEF rs
  <2>6. metricsLoad' \in MetricsLoads /\ metricsLoad'.reqs = rs
    BY <2>4, <2>5 DEF MetricsLoads
  <2> QED
    BY <1>2, <2>2, <2>4, <2>6
<1> QED
  BY <1>1, <1>2

(* Every step of the page keeps its invariant.                             *)
LEMMA MetricsNextInv == MetricsInv /\ MetricsNext => MetricsInv'
<1> SUFFICES ASSUME MetricsInv, MetricsNext PROVE MetricsInv'
  OBVIOUS
<1>0. /\ MetricsTypeOK /\ metricsLoad \in MetricsLoads
      /\ metricsLoad.reqs \subseteq MetricsRequest
      /\ shownMetrics \in Measured /\ EffectiveSelectedService \in Measurable \cup {None}
  BY FocusType, MetricsAssumption
     DEF MetricsInv, MetricsTypeOK, MetricsLoads, EffectiveSelectedService
<1>1. ASSUME NEW l \in Measured, MeasuredChange(l) PROVE MetricsInv'
  BY <1>1 DEF MeasuredChange, MetricsInv, MetricsTypeOK, InFocus, EffectiveSelectedService,
     MetricsQuiet
<1>2. ASSUME NEW fromTimer \in BOOLEAN, FetchMetrics(fromTimer) PROVE MetricsInv'
  <2> DEFINE stale == {[r EXCEPT !.newest = FALSE] :
                          r \in {q \in metricsLoad.reqs : Range(q.calls) = {"ok"}}}
             new == [arg |-> EffectiveSelectedService, newest |-> TRUE, data |-> None,
                     calls |-> [c \in MetricsCalls |-> "open"]]
  <2>1. PICK old \in SUBSET stale :
          metricsLoad' = [metricsLoad EXCEPT !.error = FALSE, !.reqs = old \cup {new}]
    BY <1>2 DEF FetchMetrics
  <2>2. /\ UNCHANGED <<measured, shownMetrics, selectedService, heatmapOf, warnings>>
        /\ metricsTimer' \in BOOLEAN
    BY <1>0, <1>2 DEF FetchMetrics, MetricsTypeOK
  <2>3. /\ new \in MetricsRequest /\ new.newest /\ new.arg = EffectiveSelectedService
        /\ \A c \in MetricsCalls : new.calls[c] = "open"
    BY <1>0 DEF MetricsRequest
  <2>4. \A s \in stale : /\ s \in MetricsRequest /\ s.newest = FALSE
                         /\ s.calls["metrics"] = "ok" => s.data \in Measured
    <3> SUFFICES ASSUME NEW s \in stale
                 PROVE  /\ s \in MetricsRequest /\ s.newest = FALSE
                        /\ s.calls["metrics"] = "ok" => s.data \in Measured
      OBVIOUS
    <3>1. PICK r \in metricsLoad.reqs : s = [r EXCEPT !.newest = FALSE]
      OBVIOUS
    <3>2. r \in MetricsRequest /\ (r.calls["metrics"] = "ok" => r.data \in Measured)
      BY <1>0 DEF MetricsInv
    <3> QED
      BY <3>1, <3>2 DEF MetricsRequest
  <2> HIDE DEF new, stale
  <2>5. metricsLoad' \in MetricsLoads /\ metricsLoad'.reqs = old \cup {new}
    BY <1>0, <2>1, <2>3, <2>4 DEF MetricsLoads
  <2>6. "metrics" \in MetricsCalls
    BY DEF MetricsCalls
  <2>7. EffectiveSelectedService' = EffectiveSelectedService
    BY <2>2 DEF EffectiveSelectedService
  <2>8. \A r \in metricsLoad'.reqs : r.newest => InFocus(r)'
    BY <2>3, <2>4, <2>5, <2>7 DEF InFocus
  <2>9. \A r \in metricsLoad'.reqs : r.calls["metrics"] = "ok" => r.data \in Measured
    BY <2>3, <2>4, <2>5, <2>6
  <2>10. ~MetricsQuiet'
    BY <2>3, <2>5 DEF MetricsQuiet
  <2>11. MetricsTypeOK'
    BY <1>0, <2>2, <2>5 DEF MetricsTypeOK, MetricsLoads
  <2> QED
    BY <2>8, <2>9, <2>10, <2>11 DEF MetricsInv
<1>3. ASSUME NEW r \in metricsLoad.reqs, NEW c \in MetricsCalls, NEW result \in {"ok", "failed"},
             CallEnds(r, c, result)
      PROVE  MetricsInv'
  <2> DEFINE s == [r EXCEPT !.calls[c] = result,
                            !.data = IF c = "metrics" /\ result = "ok" THEN measured ELSE @]
  <2>1. metricsLoad' = [metricsLoad EXCEPT !.reqs = (metricsLoad.reqs \ {r}) \cup {s}]
    BY <1>3 DEF CallEnds
  <2>2. UNCHANGED <<measured, shownMetrics, selectedService, heatmapOf, warnings, metricsTimer>>
    BY <1>3 DEF CallEnds
  <2>3. r \in MetricsRequest /\ "metrics" \in MetricsCalls
    BY <1>0 DEF MetricsCalls
  <2>4. s.calls = [r.calls EXCEPT ![c] = result]
    BY <2>3 DEF MetricsRequest
  <2>5. s.data = IF c = "metrics" /\ result = "ok" THEN measured ELSE r.data
    BY <2>3 DEF MetricsRequest
  <2>6. s.arg = r.arg
    BY <2>3 DEF MetricsRequest
  <2>7. s.newest = r.newest
    BY <2>3 DEF MetricsRequest
  <2>8. s = [f \in {"arg", "newest", "data", "calls"} |-> s[f]]
    BY <2>3 DEF MetricsRequest
  <2> HIDE DEF s
  <2>9. s \in MetricsRequest
    BY <1>0, <2>3, <2>4, <2>5, <2>6, <2>7, <2>8 DEF MetricsRequest, MetricsTypeOK
  <2>10. /\ s.calls["metrics"] = "ok" => s.data \in Measured
         /\ (\A d \in MetricsCalls : r.calls[d] # "aborted") =>
               \A d \in MetricsCalls : s.calls[d] # "aborted"
    BY <1>0, <2>3, <2>4, <2>5 DEF MetricsRequest, MetricsTypeOK, MetricsInv
  <2>11. /\ metricsLoad' \in MetricsLoads /\ metricsLoad'.error = metricsLoad.error
         /\ metricsLoad'.reqs = (metricsLoad.reqs \ {r}) \cup {s}
    BY <1>0, <2>1, <2>9 DEF MetricsLoads
  <2>12. EffectiveSelectedService' = EffectiveSelectedService
    BY <2>2 DEF EffectiveSelectedService
  <2>13. ~metricsTimer' => \A x \in metricsLoad'.reqs : x.newest => InFocus(x)'
    BY <2>2, <2>6, <2>7, <2>10, <2>11, <2>12 DEF MetricsInv, InFocus
  <2>14. MetricsQuiet' => MetricsQuiet
    BY <2>2, <2>7, <2>11 DEF MetricsQuiet
  <2>15. MetricsTypeOK'
    BY <1>0, <2>2, <2>11 DEF MetricsTypeOK, MetricsLoads
  <2>16. \A x \in metricsLoad'.reqs : x.calls["metrics"] = "ok" => x.data \in Measured
    BY <2>10, <2>11 DEF MetricsInv
  <2> QED
    BY <2>2, <2>11, <2>12, <2>13, <2>14, <2>15, <2>16 DEF MetricsInv
<1>4. ASSUME NEW r \in metricsLoad.reqs, MetricsSettle(r) PROVE MetricsInv'
  <2> DEFINE metricsOk == r.newest /\ r.calls["metrics"] = "ok"
             failed == r.newest /\ r.calls["metrics"] = "failed"
             next == IF metricsOk THEN r.data ELSE shownMetrics
             settled == [metricsLoad EXCEPT !.loading = @ /\ ~r.newest, !.reqs = @ \ {r}]
             load == [settled EXCEPT !.error = @ \/ failed]
  <2>1. FocusEffect(EffectiveSelectedService, Focus(selectedService, next), load)
    BY <1>4 DEF MetricsSettle
  <2>2. /\ shownMetrics' = next
        /\ heatmapOf' = IF metricsOk /\ r.calls["heatmap"] = "ok" THEN r.arg ELSE heatmapOf
        /\ warnings' = IF metricsOk THEN {c \in Secondary : r.calls[c] # "ok"} ELSE warnings
        /\ ~HasOpenCall(r) /\ UNCHANGED <<measured, selectedService>>
    BY <1>4 DEF MetricsSettle
  <2>3. load \in MetricsLoads /\ (load.error <=> metricsLoad.error \/ failed)
        /\ load.reqs = metricsLoad.reqs \ {r}
    <3>1. settled \in [loading : BOOLEAN, error : BOOLEAN, reqs : SUBSET MetricsRequest]
      BY <1>0 DEF MetricsLoads
    <3>2. settled.error = metricsLoad.error
      BY <1>0 DEF MetricsLoads
    <3>3. settled.reqs = metricsLoad.reqs \ {r}
      BY <1>0 DEF MetricsLoads
    <3> HIDE DEF settled, failed
    <3>4. load \in MetricsLoads
      BY <3>1 DEF MetricsLoads
    <3>5. load.error = (settled.error \/ failed)
      BY <3>1
    <3>6. load.reqs = settled.reqs
      BY <3>1
    <3> QED
      BY <3>2, <3>3, <3>4, <3>5, <3>6
  <2>4. /\ r \in MetricsRequest /\ (r.calls["metrics"] = "ok" => r.data \in Measured)
        /\ "metrics" \in MetricsCalls /\ "heatmap" \in MetricsCalls /\ Secondary \subseteq MetricsCalls
    BY <1>0, MetricsAssumption DEF MetricsInv, MetricsCalls
  <2>5. next \in Measured
    BY <1>0, <2>4
  <2>6. EffectiveSelectedService' = Focus(selectedService, next)
    BY <2>2 DEF EffectiveSelectedService
  <2>7. \A x \in load.reqs : x.calls["metrics"] = "ok" => x.data \in Measured
    BY <2>3 DEF MetricsInv
  <2>8. metricsOk \in BOOLEAN /\ failed \in BOOLEAN
    OBVIOUS
  <2>9. r.newest /\ ~metricsOk => failed \/ r.calls["metrics"] = "aborted"
    BY <2>2, <2>4 DEF MetricsRequest, HasOpenCall
  <2>10. failed => ~metricsOk
    OBVIOUS
  <2>11. heatmapOf' \in Measurable \cup {None} /\ warnings' \subseteq Secondary
    BY <1>0, <2>2, <2>4 DEF MetricsTypeOK, MetricsRequest
  <2> HIDE DEF load
  <2>12. /\ metricsLoad' \in MetricsLoads /\ metricsTimer' \in BOOLEAN
         /\ \A x \in metricsLoad'.reqs : x.calls["metrics"] = "ok" => x.data \in Measured
         /\ EffectiveSelectedService = EffectiveSelectedService' =>
               metricsLoad' = load /\ metricsTimer' = metricsTimer
         /\ EffectiveSelectedService # EffectiveSelectedService' => metricsTimer'
    BY <1>0, <2>1, <2>3, <2>6, <2>7, FocusEffectLoad DEF MetricsTypeOK
  <2>13. MetricsTypeOK'
    BY <1>0, <2>2, <2>5, <2>11, <2>12 DEF MetricsTypeOK, MetricsLoads
  <2>14. ~metricsTimer' => \A x \in metricsLoad'.reqs : x.newest => InFocus(x)'
    BY <2>3, <2>12 DEF MetricsInv, InFocus
  <2>15. ASSUME MetricsQuiet', EffectiveSelectedService' \in Range(shownMetrics'),
                ~metricsLoad'.error, "heatmap" \notin warnings'
         PROVE  heatmapOf' = EffectiveSelectedService'
    <3>1. /\ ~metricsTimer /\ EffectiveSelectedService' = EffectiveSelectedService
          /\ metricsLoad' = load
      BY <2>12, <2>15 DEF MetricsQuiet
    <3>2. CASE r.newest
      <4>1. InFocus(r)
        BY <3>1, <3>2 DEF MetricsInv
      <4>2. metricsOk
        BY <2>3, <2>4, <2>9, <2>15, <3>1, <3>2, <4>1 DEF InFocus
      <4>3. r.calls["heatmap"] = "ok"
        BY <2>2, <2>15, <4>2, MetricsAssumption
      <4> QED
        BY <2>2, <3>1, <4>1, <4>2, <4>3 DEF InFocus
    <3>3. CASE ~r.newest
      <4>1. shownMetrics' = shownMetrics /\ heatmapOf' = heatmapOf /\ warnings' = warnings
        BY <2>2, <3>3
      <4>2. MetricsQuiet /\ ~metricsLoad.error
        BY <2>3, <2>15, <3>1, <3>3 DEF MetricsQuiet
      <4> QED
        BY <2>15, <3>1, <4>1, <4>2 DEF MetricsInv
    <3> QED
      BY <3>2, <3>3
  <2> QED
    BY <2>12, <2>13, <2>14, <2>15 DEF MetricsInv
<1>5. ASSUME NEW s \in Measurable, SelectService(s) PROVE MetricsInv'
  <2>1. /\ selectedService' = s /\ FocusEffect(EffectiveSelectedService, s, metricsLoad)
        /\ UNCHANGED <<measured, shownMetrics, heatmapOf, warnings>>
    BY <1>5 DEF SelectService
  <2>2. EffectiveSelectedService' = s
    BY <2>1, MetricsAssumption DEF EffectiveSelectedService, Focus
  <2>3. \A x \in metricsLoad.reqs : x.calls["metrics"] = "ok" => x.data \in Measured
    BY DEF MetricsInv
  <2>4. /\ metricsLoad' \in MetricsLoads /\ metricsTimer' \in BOOLEAN
        /\ \A x \in metricsLoad'.reqs : x.calls["metrics"] = "ok" => x.data \in Measured
        /\ EffectiveSelectedService = s => metricsLoad' = metricsLoad /\ metricsTimer' = metricsTimer
        /\ EffectiveSelectedService # s => metricsTimer'
    BY <1>0, <2>1, <2>3, FocusEffectLoad DEF MetricsTypeOK
  <2>5. MetricsTypeOK'
    BY <1>0, <2>1, <2>4 DEF MetricsTypeOK, MetricsLoads
  <2>6. CASE EffectiveSelectedService = s
    BY <2>1, <2>2, <2>4, <2>5, <2>6 DEF MetricsInv, InFocus, MetricsQuiet
  <2>7. CASE EffectiveSelectedService # s
    BY <2>1, <2>2, <2>4, <2>5, <2>7 DEF MetricsInv, MetricsQuiet
  <2> QED
    BY <2>6, <2>7
<1> QED
  BY <1>1, <1>2, <1>3, <1>4, <1>5 DEF MetricsNext

-----------------------------------------------------------------------------
(* The service map.  A request with a body has a graph, the canvas is a    *)
(* function, and the rest is the property.                                 *)
MapInv ==
    /\ MapTypeOK
    /\ mapNodes = [s \in DOMAIN mapNodes |-> mapNodes[s]]
    /\ \A r \in mapLoad.reqs : r.phase = "body" => r.data \in Graphs
    /\ CanvasIsOfGraph

MapLoads == LoadType({"poll", "retry"}, Graphs)

(* A page that is not mounted satisfies its invariant.                     *)
LEMMA MapOffInv == MapOff => MapInv
<1> SUFFICES ASSUME MapOff PROVE MapInv
  OBVIOUS
<1> USE GraphsAssumption DEF MapOff
<1>1. mapLoad.reqs = {} /\ mapLoad \in MapLoads
  BY DEF NewLoad, LoadType, MapLoads
<1>2. DOMAIN EmptyCanvas = {} /\ EmptyCanvas = [x \in DOMAIN EmptyCanvas |-> EmptyCanvas[x]]
  BY DEF EmptyCanvas
<1>3. MapTypeOK
  BY <1>1, <1>2 DEF MapTypeOK, MapLoads
<1> QED
  BY <1>1, <1>2, <1>3 DEF MapInv, CanvasIsOfGraph

(* So does one that mounts.                                                *)
LEMMA MapMountInv == MapOff /\ MapMount => MapInv'
<1> SUFFICES ASSUME MapOff, MapMount PROVE MapInv'
  OBVIOUS
<1>1. MapInv
  BY MapOffInv
<1>2. dependencies' \in Graphs /\ mapTimer' = TRUE
      /\ UNCHANGED <<mapGraph, mapNodes, mapEdges, selectedNode, mapLoad>>
  BY DEF MapMount
<1> QED
  BY <1>1, <1>2 DEF MapInv, MapTypeOK, CanvasIsOfGraph

(* The nodes that are not dragged are where one layout put them.           *)
Placed(nodes) ==
    \A s, t \in DOMAIN nodes : {"dragged"} \notin {nodes[s], nodes[t]} => nodes[s] = nodes[t]

(* A new graph keeps the positions of its services or places all of them.  *)
LEMMA NextNodesPlaced ==
  ASSUME MapInv, NEW g \in Graphs
  PROVE  /\ DOMAIN NextNodes(g) = ServicesOf(g)
         /\ NextNodes(g) = [s \in ServicesOf(g) |-> NextNodes(g)[s]]
         /\ \A s \in ServicesOf(g) : NextNodes(g)[s] = {"dragged"} \/ s \in NextNodes(g)[s]
         /\ Placed(NextNodes(g))
<1>1. /\ \A s \in DOMAIN mapNodes : mapNodes[s] = {"dragged"} \/ s \in mapNodes[s]
      /\ Placed(mapNodes)
  BY DEF MapInv, MapTypeOK, CanvasIsOfGraph, Placed, EmptyCanvas
<1>2. CASE ServicesOf(g) \subseteq DOMAIN mapNodes /\ NextNodes(g) = Restrict(mapNodes, ServicesOf(g))
  BY <1>1, <1>2 DEF Restrict, Placed
<1>3. CASE NextNodes(g) = Layout(g)
  BY <1>3 DEF Layout, Placed
<1> QED
  BY <1>2, <1>3 DEF NextNodes

(* Every step of the page keeps its invariant.                             *)
LEMMA MapNextInv == MapInv /\ MapNext => MapInv'
<1> SUFFICES ASSUME MapInv, MapNext PROVE MapInv'
  OBVIOUS
<1> USE GraphsAssumption
<1>0. /\ MapTypeOK /\ CanvasIsOfGraph /\ mapLoad \in MapLoads
      /\ mapNodes = [s \in DOMAIN mapNodes |-> mapNodes[s]]
  BY DEF MapInv, MapTypeOK, MapLoads
<1>1. ASSUME NEW g \in Graphs, DependenciesChange(g) PROVE MapInv'
  BY <1>1 DEF DependenciesChange, MapInv, MapTypeOK, CanvasIsOfGraph
<1>2. ASSUME NEW from \in {"poll", "retry"}, LoadGraph(from) PROVE MapInv'
  <2>1. mapLoad' \in Started(mapLoad, from)
    BY <1>2 DEF LoadGraph
  <2>2. mapLoad' \in MapLoads /\ JustStarted(mapLoad, from, mapLoad')
    BY <1>0, <2>1, StartedLoad DEF MapLoads
  <2>3. UNCHANGED <<dependencies, mapGraph, mapNodes, mapEdges, selectedNode>> /\ mapTimer' \in BOOLEAN
    BY <1>0, <1>2 DEF LoadGraph, MapTypeOK
  <2>4. \A r \in mapLoad'.reqs : r.phase = "body" => r.data \in Graphs
    <3>1. Issued(from).phase = "open"
      BY DEF Issued
    <3> QED
      BY <2>2, <3>1 DEF JustStarted, MapInv
  <2>5. MapTypeOK' /\ CanvasIsOfGraph'
    BY <1>0, <2>2, <2>3 DEF MapTypeOK, MapLoads, CanvasIsOfGraph
  <2> QED
    BY <1>0, <2>3, <2>4, <2>5 DEF MapInv
<1>3. ASSUME NEW r \in mapLoad.reqs, MapAnswered(r) PROVE MapInv'
  <2>1. UNCHANGED <<dependencies, mapGraph, mapNodes, mapEdges, selectedNode, mapTimer>>
        /\ mapLoad' = Answered(mapLoad, r, dependencies)
    BY <1>3 DEF MapAnswered
  <2>2. dependencies \in Graphs
    BY <1>0 DEF MapTypeOK
  <2>3. /\ mapLoad' \in MapLoads
        /\ \E s \in mapLoad'.reqs : s.data = dependencies /\ mapLoad'.reqs = (mapLoad.reqs \ {r}) \cup {s}
    BY <1>0, <2>1, <2>2, AnsweredLoad DEF MapLoads
  <2>4. \A x \in mapLoad'.reqs : x.phase = "body" => x.data \in Graphs
    BY <2>2, <2>3 DEF MapInv
  <2>5. MapTypeOK' /\ CanvasIsOfGraph'
    BY <1>0, <2>1, <2>3 DEF MapTypeOK, MapLoads, CanvasIsOfGraph
  <2> QED
    BY <1>0, <2>1, <2>4, <2>5 DEF MapInv
<1>4. ASSUME NEW r \in mapLoad.reqs, MapDelivers(r) PROVE MapInv'
  <2>1. mapLoad' \in MapLoads /\ mapLoad'.reqs = mapLoad.reqs \ {r}
    BY <1>0, <1>4, SettledLoad DEF MapDelivers, MapLoads
  <2>2. \A x \in mapLoad'.reqs : x.phase = "body" => x.data \in Graphs
    BY <2>1 DEF MapInv
  <2>3. CASE r.newest
    <3> DEFINE g == r.data
    <3>1. /\ mapGraph' = g /\ mapNodes' = NextNodes(g) /\ mapEdges' = NextEdges(g)
          /\ selectedNode' = NextSelected(g) /\ UNCHANGED <<dependencies, mapTimer>>
      BY <1>4, <2>3 DEF MapDelivers
    <3>2. g \in Graphs
      BY <1>4 DEF MapDelivers, MapInv
    <3> HIDE DEF g
    <3>3. /\ DOMAIN mapNodes' = ServicesOf(g)
          /\ mapNodes' = [s \in ServicesOf(g) |-> mapNodes'[s]]
          /\ \A s \in ServicesOf(g) : mapNodes'[s] = {"dragged"} \/ s \in mapNodes'[s]
          /\ Placed(mapNodes')
      BY <3>1, <3>2, NextNodesPlaced
    <3>4. DOMAIN mapEdges' = DOMAIN g.calls /\ \A e \in DOMAIN mapEdges' : mapEdges'[e] \in BOOLEAN
      BY <3>1 DEF NextEdges
    <3>5. selectedNode' # None => /\ selectedNode'.name \in ServicesOf(g)
                                  /\ selectedNode' = Figures(g, selectedNode'.name)
      BY <3>1 DEF NextSelected, Figures
    <3>6. MapTypeOK'
      BY <1>0, <2>1, <3>1, <3>2, <3>3, <3>4 DEF MapTypeOK, MapLoads
    <3>7. CanvasIsOfGraph'
      BY <3>1, <3>2, <3>3, <3>4, <3>5 DEF CanvasIsOfGraph, Placed
    <3> QED
      BY <2>2, <3>3, <3>6, <3>7 DEF MapInv
  <2>4. CASE ~r.newest
    <3>1. UNCHANGED <<dependencies, mapGraph, mapNodes, mapEdges, selectedNode, mapTimer>>
      BY <1>4, <2>4 DEF MapDelivers
    <3>2. MapTypeOK' /\ CanvasIsOfGraph'
      BY <1>0, <2>1, <3>1 DEF MapTypeOK, MapLoads, CanvasIsOfGraph
    <3> QED
      BY <1>0, <2>2, <3>1, <3>2 DEF MapInv
  <2> QED
    BY <2>3, <2>4
<1>5. ASSUME NEW r \in mapLoad.reqs, MapFails(r) PROVE MapInv'
  <2>1. mapLoad' \in MapLoads /\ mapLoad'.reqs = mapLoad.reqs \ {r}
    BY <1>0, <1>5, FailedLoad DEF MapFails, MapLoads
  <2>2. UNCHANGED <<dependencies, mapGraph, mapNodes, mapEdges, selectedNode, mapTimer>>
    BY <1>5 DEF MapFails
  <2>3. MapTypeOK' /\ CanvasIsOfGraph'
    BY <1>0, <2>1, <2>2 DEF MapTypeOK, MapLoads, CanvasIsOfGraph
  <2> QED
    BY <1>0, <2>1, <2>2, <2>3 DEF MapInv
<1>6. ASSUME NEW s \in DOMAIN mapNodes, DragNode(s) PROVE MapInv'
  <2>1. /\ mapNodes' = [mapNodes EXCEPT ![s] = {"dragged"}] /\ mapGraph # None
        /\ UNCHANGED <<dependencies, mapGraph, mapEdges, selectedNode, mapTimer, mapLoad>>
    BY <1>6 DEF DragNode, MapView
  <2>2. /\ DOMAIN mapNodes' = DOMAIN mapNodes
        /\ mapNodes' = [t \in DOMAIN mapNodes' |-> mapNodes'[t]]
        /\ \A t \in DOMAIN mapNodes : mapNodes'[t] = IF t = s THEN {"dragged"} ELSE mapNodes[t]
    BY <1>0, <2>1
  <2>3. MapTypeOK'
    BY <1>0, <2>1, <2>2 DEF MapTypeOK
  <2>4. CanvasIsOfGraph'
    BY <1>0, <2>1, <2>2 DEF CanvasIsOfGraph
  <2> QED
    BY <2>1, <2>2, <2>3, <2>4 DEF MapInv
<1>7. ASSUME NEW s \in DOMAIN mapNodes, DeleteNode(s) PROVE MapInv'
  <2>1. /\ mapNodes' = Restrict(mapNodes, DOMAIN mapNodes \ {s}) /\ mapGraph # None
        /\ mapEdges' = Restrict(mapEdges, {e \in DOMAIN mapEdges : s \notin {e[1], e[2]}})
        /\ UNCHANGED <<dependencies, mapGraph, selectedNode, mapTimer, mapLoad>>
    BY <1>7 DEF DeleteNode, MapView
  <2>2. /\ DOMAIN mapNodes' = DOMAIN mapNodes \ {s}
        /\ mapNodes' = [t \in DOMAIN mapNodes' |-> mapNodes'[t]]
        /\ \A t \in DOMAIN mapNodes' : mapNodes'[t] = mapNodes[t]
    BY <2>1 DEF Restrict
  <2>3. \A e \in DOMAIN mapEdges' :
           e \in DOMAIN mapEdges /\ mapEdges'[e] = mapEdges[e] /\ s \notin {e[1], e[2]}
    BY <2>1 DEF Restrict
  <2>4. MapTypeOK'
    BY <1>0, <2>1, <2>2, <2>3 DEF MapTypeOK
  <2>5. CanvasIsOfGraph'
    <3>1. ASSUME NEW e \in DOMAIN mapEdges'
          PROVE  /\ e \in DOMAIN mapGraph.calls
                 /\ {e[1], e[2]} \cap ServicesOf(mapGraph) \subseteq DOMAIN mapNodes'
      <4>1. /\ e \in DOMAIN mapGraph.calls
            /\ {e[1], e[2]} \cap ServicesOf(mapGraph) \subseteq DOMAIN mapNodes
        BY <1>0, <2>1, <2>3 DEF CanvasIsOfGraph
      <4> QED
        BY <2>2, <2>3, <4>1
    <3>2. DOMAIN mapNodes' \subseteq ServicesOf(mapGraph)
      BY <1>0, <2>1, <2>2 DEF CanvasIsOfGraph
    <3>3. ASSUME NEW t \in DOMAIN mapNodes', NEW u \in DOMAIN mapNodes',
                 {"dragged"} \notin {mapNodes'[t], mapNodes'[u]}
          PROVE  mapNodes'[t] = mapNodes'[u]
      <4>1. /\ t \in DOMAIN mapNodes /\ u \in DOMAIN mapNodes
            /\ mapNodes'[t] = mapNodes[t] /\ mapNodes'[u] = mapNodes[u]
        BY <2>2
      <4> QED
        BY <1>0, <2>1, <3>3, <4>1 DEF CanvasIsOfGraph
    <3> QED
      BY <1>0, <2>1, <3>1, <3>2, <3>3 DEF CanvasIsOfGraph
  <2> QED
    BY <2>1, <2>2, <2>4, <2>5 DEF MapInv
<1>8. ASSUME NEW s \in DOMAIN mapNodes, ClickNode(s) PROVE MapInv'
  <2>1. /\ selectedNode' = IF s \in ServicesOf(mapGraph) THEN Figures(mapGraph, s) ELSE None
        /\ mapGraph # None
        /\ UNCHANGED <<dependencies, mapGraph, mapNodes, mapEdges, mapTimer, mapLoad>>
    BY <1>8 DEF ClickNode, MapView
  <2>2. selectedNode' # None => /\ selectedNode'.name \in ServicesOf(mapGraph)
                                /\ selectedNode' = Figures(mapGraph, selectedNode'.name)
    BY <2>1 DEF Figures
  <2>3. MapTypeOK' /\ CanvasIsOfGraph'
    BY <1>0, <2>1, <2>2 DEF MapTypeOK, CanvasIsOfGraph
  <2> QED
    BY <2>1, <2>3 DEF MapInv
<1>9. CASE CloseSidebar
  <2>1. /\ selectedNode' = None /\ mapGraph # None
        /\ UNCHANGED <<dependencies, mapGraph, mapNodes, mapEdges, mapTimer, mapLoad>>
    BY <1>9 DEF CloseSidebar, MapView
  <2>2. MapTypeOK' /\ CanvasIsOfGraph'
    BY <1>0, <2>1 DEF MapTypeOK, CanvasIsOfGraph
  <2> QED
    BY <2>1, <2>2 DEF MapInv
<1>10. ASSUME NEW e \in DOMAIN mapEdges, DeleteEdge(e) PROVE MapInv'
  <2>1. /\ mapEdges' = Restrict(mapEdges, DOMAIN mapEdges \ {e}) /\ mapGraph # None
        /\ UNCHANGED <<dependencies, mapGraph, mapNodes, selectedNode, mapTimer, mapLoad>>
    BY <1>10 DEF DeleteEdge, MapView
  <2>2. \A f \in DOMAIN mapEdges' : f \in DOMAIN mapEdges /\ mapEdges'[f] = mapEdges[f]
    BY <2>1 DEF Restrict
  <2>3. MapTypeOK' /\ CanvasIsOfGraph'
    BY <1>0, <2>1, <2>2 DEF MapTypeOK, CanvasIsOfGraph
  <2> QED
    BY <2>1, <2>3 DEF MapInv
<1> QED
  BY <1>1, <1>2, <1>3, <1>4, <1>5, <1>6, <1>7, <1>8, <1>9, <1>10 DEF MapNext

-----------------------------------------------------------------------------
(* The console: every page satisfies its invariant, and the pages that are *)
(* not mounted are off.                                                    *)
PagesInv == CompareInv /\ TimelineInv /\ MapInv /\ MetricsInv /\ SamplerInv

OthersOff ==
    /\ page # "compare"  => CompareOff
    /\ page # "timeline" => TimelineOff
    /\ page # "map"      => MapOff
    /\ page # "metrics"  => MetricsOff
    /\ page # "sampler"  => SamplerOff

Inv ==
    /\ page \in Routes \cup {"crashed"} /\ silent \in BOOLEAN
    /\ PagesInv /\ OthersOff

(* The invariant of a page is about the state of that page only.           *)
LEMMA CompareFrame == CompareInv /\ UNCHANGED compareVars => CompareInv'
  BY DEF compareVars, CompareInv, CompareTypeOK, Given, Quiet

(* The same for the timeline.                                              *)
LEMMA TimelineFrame == TimelineInv /\ UNCHANGED timelineVars => TimelineInv'
  BY DEF timelineVars, streamVars, TimelineInv, TimelineTypeOK, Quiet, Seen

(* The same for the service map.                                           *)
LEMMA MapFrame == MapInv /\ UNCHANGED mapVars => MapInv'
  BY DEF mapVars, MapInv, MapTypeOK, CanvasIsOfGraph

(* The same for the metrics page.                                          *)
LEMMA MetricsFrame == MetricsInv /\ UNCHANGED metricsVars => MetricsInv'
  BY DEF metricsVars, MetricsInv, MetricsTypeOK, MetricsQuiet, InFocus, EffectiveSelectedService

(* The same for the sampler page.                                          *)
LEMMA SamplerFrame == SamplerInv /\ UNCHANGED samplerVars => SamplerInv'
  BY DEF samplerVars, formVars, SamplerInv, SamplerTypeOK, PreviewIsDraft

(* A page that is off stays so while nothing touches its state.            *)
LEMMA OffFrame ==
  /\ CompareOff /\ UNCHANGED compareVars => CompareOff'
  /\ TimelineOff /\ UNCHANGED timelineVars => TimelineOff'
  /\ MapOff /\ UNCHANGED mapVars => MapOff'
  /\ MetricsOff /\ UNCHANGED metricsVars => MetricsOff'
  /\ SamplerOff /\ UNCHANGED samplerVars => SamplerOff'
<1>1. CompareOff /\ UNCHANGED compareVars => CompareOff'
  BY DEF CompareOff, compareVars
<1>2. TimelineOff /\ UNCHANGED timelineVars => TimelineOff'
  BY DEF TimelineOff, timelineVars, StreamOff, streamVars
<1>3. MapOff /\ UNCHANGED mapVars => MapOff'
  BY DEF MapOff, mapVars
<1>4. MetricsOff /\ UNCHANGED metricsVars => MetricsOff'
  BY DEF MetricsOff, metricsVars
<1>5. SamplerOff /\ UNCHANGED samplerVars => SamplerOff'
  BY DEF SamplerOff, samplerVars, formVars
<1> QED
  BY <1>1, <1>2, <1>3, <1>4, <1>5

(* Unmounting leaves nothing of a page.                                    *)
LEMMA UnmountOff ==
  /\ CompareUnmount => CompareOff'
  /\ TimelineUnmount => TimelineOff'
  /\ MapUnmount => MapOff'
  /\ MetricsUnmount => MetricsOff'
  /\ SamplerUnmount => SamplerOff'
<1>1. CompareUnmount => CompareOff'
  BY DEF CompareOff, CompareUnmount
<1>2. TimelineUnmount => TimelineOff'
  BY DEF TimelineOff, TimelineUnmount, StreamOff, StreamClose
<1>3. MapUnmount => MapOff'
  BY DEF MapOff, MapUnmount
<1>4. MetricsUnmount => MetricsOff'
  BY DEF MetricsOff, MetricsUnmount
<1>5. SamplerUnmount => SamplerOff'
  BY DEF SamplerOff, SamplerUnmount
<1> QED
  BY <1>1, <1>2, <1>3, <1>4, <1>5

(* A state in which every page is off satisfies the pages' invariants.     *)
LEMMA OffInv == CompareOff /\ TimelineOff /\ MapOff /\ MetricsOff /\ SamplerOff => PagesInv
  BY CompareOffInv, TimelineOffInv, MapOffInv, MetricsOffInv, SamplerOffInv DEF PagesInv

(* The same after a step.                                                  *)
LEMMA OffInvPrimed ==
    CompareOff' /\ TimelineOff' /\ MapOff' /\ MetricsOff' /\ SamplerOff' => PagesInv'
  BY OffInv, PTL

(* The first state satisfies the inductive invariant.                      *)
LEMMA InitInv == Init => Inv
  BY OffInv DEF Init, Inv, OthersOff, Routes

(* Mounting a page where every page is off keeps the invariant.            *)
LEMMA MountKeepsInv ==
  ASSUME Inv, page \in {"elsewhere", "crashed"}, NEW p \in Routes, Mount(p)
  PROVE  Inv'
<1>0. /\ PagesInv /\ silent' = silent /\ page' = p
      /\ CompareOff /\ TimelineOff /\ MapOff /\ MetricsOff /\ SamplerOff
  BY DEF Inv, OthersOff, Mount
<1>1. CompareInv' /\ (p # "compare" => CompareOff')
  <2>1. CASE p = "compare"
    BY <2>1, CompareMountInv DEF Mount
  <2>2. CASE p # "compare"
    BY <1>0, <2>2, CompareFrame, OffFrame DEF Mount, PagesInv
  <2> QED
    BY <2>1, <2>2
<1>2. TimelineInv' /\ (p # "timeline" => TimelineOff')
  <2>1. CASE p = "timeline"
    BY <2>1, TimelineMountInv DEF Mount
  <2>2. CASE p # "timeline"
    BY <1>0, <2>2, TimelineFrame, OffFrame DEF Mount, PagesInv
  <2> QED
    BY <2>1, <2>2
<1>3. MapInv' /\ (p # "map" => MapOff')
  <2>1. CASE p = "map"
    BY <1>0, <2>1, MapMountInv DEF Mount
  <2>2. CASE p # "map"
    BY <1>0, <2>2, MapFrame, OffFrame DEF Mount, PagesInv
  <2> QED
    BY <2>1, <2>2
<1>4. MetricsInv' /\ (p # "metrics" => MetricsOff')
  <2>1. CASE p = "metrics"
    BY <1>0, <2>1, MetricsMountInv DEF Mount
  <2>2. CASE p # "metrics"
    BY <1>0, <2>2, MetricsFrame, OffFrame DEF Mount, PagesInv
  <2> QED
    BY <2>1, <2>2
<1>5. SamplerInv' /\ (p # "sampler" => SamplerOff')
  <2>1. CASE p = "sampler"
    BY <1>0, <2>1, SamplerMountInv DEF Mount
  <2>2. CASE p # "sampler"
    BY <1>0, <2>2, SamplerFrame, OffFrame DEF Mount, PagesInv
  <2> QED
    BY <2>1, <2>2
<1> QED
  BY <1>0, <1>1, <1>2, <1>3, <1>4, <1>5 DEF Inv, PagesInv, OthersOff

(* After unmounting, every page is off.                                    *)
LEMMA UnmountKeepsInv ==
  ASSUME Inv, NEW p \in {"elsewhere", "crashed"}, Unmount(p)
  PROVE  Inv'
<1>0. OthersOff /\ silent' \in BOOLEAN /\ page' = p
  BY DEF Inv, Unmount
<1>1. CompareOff'
  BY <1>0, UnmountOff, OffFrame DEF Unmount, OthersOff
<1>2. TimelineOff'
  BY <1>0, UnmountOff, OffFrame DEF Unmount, OthersOff
<1>3. MapOff'
  BY <1>0, UnmountOff, OffFrame DEF Unmount, OthersOff
<1>4. MetricsOff'
  BY <1>0, UnmountOff, OffFrame DEF Unmount, OthersOff
<1>5. SamplerOff'
  BY <1>0, UnmountOff, OffFrame DEF Unmount, OthersOff
<1>6. PagesInv'
  BY <1>1, <1>2, <1>3, <1>4, <1>5, OffInvPrimed
<1> QED
  BY <1>0, <1>1, <1>2, <1>3, <1>4, <1>5, <1>6 DEF Inv, OthersOff, Routes

(* Every step of the console keeps the inductive invariant.                *)
LEMMA NextInv == Inv /\ [Next]_vars => Inv'
<1> SUFFICES ASSUME Inv, [Next]_vars PROVE Inv'
  OBVIOUS
<1>0. PagesInv /\ OthersOff /\ page \in Routes \cup {"crashed"} /\ silent \in BOOLEAN
  BY DEF Inv
<1>1. ASSUME NEW p \in Routes, Open(p) \/ Reload(p) PROVE Inv'
  BY <1>1, MountKeepsInv DEF Open, Reload
<1>2. CASE Leave \/ Crash
  BY <1>2, UnmountKeepsInv DEF Leave, Crash
<1>3. CASE FallsSilent \/ UNCHANGED vars
  <2>1. /\ UNCHANGED <<page, compareVars, timelineVars, mapVars, metricsVars, samplerVars>>
        /\ silent' \in BOOLEAN
    BY <1>0, <1>3 DEF FallsSilent, vars
  <2>2. PagesInv'
    BY <1>0, <2>1, CompareFrame, TimelineFrame, MapFrame, MetricsFrame, SamplerFrame DEF PagesInv
  <2>3. OthersOff'
    BY <1>0, <2>1, OffFrame DEF OthersOff
  <2> QED
    BY <1>0, <2>1, <2>2, <2>3 DEF Inv
<1>4. CASE CompareStep
  <2>1. /\ page = "compare" /\ page' = page /\ silent' = silent /\ CompareNext
        /\ UNCHANGED timelineVars /\ UNCHANGED mapVars /\ UNCHANGED metricsVars /\ UNCHANGED samplerVars
    BY <1>4 DEF CompareStep, OnCompare
  <2>2. PagesInv'
    BY <1>0, <2>1, CompareNextInv, TimelineFrame, MapFrame, MetricsFrame, SamplerFrame DEF PagesInv
  <2>3. OthersOff'
    BY <1>0, <2>1, OffFrame DEF OthersOff
  <2> QED
    BY <1>0, <2>1, <2>2, <2>3 DEF Inv
<1>5. CASE TimelineStep
  <2>1. /\ page = "timeline" /\ page' = page /\ silent' = silent /\ TimelineNext
        /\ UNCHANGED compareVars /\ UNCHANGED mapVars /\ UNCHANGED metricsVars /\ UNCHANGED samplerVars
    BY <1>5 DEF TimelineStep, OnTimeline
  <2>2. PagesInv'
    BY <1>0, <2>1, CompareFrame, TimelineNextInv, MapFrame, MetricsFrame, SamplerFrame DEF PagesInv
  <2>3. OthersOff'
    BY <1>0, <2>1, OffFrame DEF OthersOff
  <2> QED
    BY <1>0, <2>1, <2>2, <2>3 DEF Inv
<1>6. CASE MapStep
  <2>1. /\ page = "map" /\ page' = page /\ silent' = silent /\ MapNext
        /\ UNCHANGED compareVars /\ UNCHANGED timelineVars /\ UNCHANGED metricsVars /\ UNCHANGED samplerVars
    BY <1>6 DEF MapStep, OnMap
  <2>2. PagesInv'
    BY <1>0, <2>1, CompareFrame, TimelineFrame, MapNextInv, MetricsFrame, SamplerFrame DEF PagesInv
  <2>3. OthersOff'
    BY <1>0, <2>1, OffFrame DEF OthersOff
  <2> QED
    BY <1>0, <2>1, <2>2, <2>3 DEF Inv
<1>7. CASE MetricsStep
  <2>1. /\ page = "metrics" /\ page' = page /\ silent' = silent /\ MetricsNext
        /\ UNCHANGED compareVars /\ UNCHANGED timelineVars /\ UNCHANGED mapVars /\ UNCHANGED samplerVars
    BY <1>7 DEF MetricsStep, OnMetrics
  <2>2. PagesInv'
    BY <1>0, <2>1, CompareFrame, TimelineFrame, MapFrame, MetricsNextInv, SamplerFrame DEF PagesInv
  <2>3. OthersOff'
    BY <1>0, <2>1, OffFrame DEF OthersOff
  <2> QED
    BY <1>0, <2>1, <2>2, <2>3 DEF Inv
<1>8. CASE SamplerStep
  <2>1. /\ page = "sampler" /\ page' = page /\ silent' = silent /\ SamplerNext
        /\ UNCHANGED compareVars /\ UNCHANGED timelineVars /\ UNCHANGED mapVars /\ UNCHANGED metricsVars
    BY <1>8 DEF SamplerStep, OnSampler
  <2>2. PagesInv'
    BY <1>0, <2>1, CompareFrame, TimelineFrame, MapFrame, MetricsFrame, SamplerNextInv DEF PagesInv
  <2>3. OthersOff'
    BY <1>0, <2>1, OffFrame DEF OthersOff
  <2> QED
    BY <1>0, <2>1, <2>2, <2>3 DEF Inv
<1> QED
  BY <1>1, <1>2, <1>3, <1>4, <1>5, <1>6, <1>7, <1>8 DEF Next

(* The inductive invariant holds in every reachable state.                 *)
LEMMA SpecInv == Spec => []Inv
  BY InitInv, NextInv, PTL DEF Spec

-----------------------------------------------------------------------------
(* The console and its pages always have their types.                      *)
THEOREM TypeCorrect == Spec => []TypeOK
<1>1. Inv => TypeOK
  BY DEF Inv, PagesInv, TypeOK, CompareInv, TimelineInv, MapInv, MetricsInv, SamplerInv
<1> QED
  BY <1>1, SpecInv, PTL

(* The compare page shows the traces of its URL, and never nothing at all. *)
THEOREM ComparisonFollowsUrl == Spec => []ComparisonIsOfUrl
<1>1. Inv => ComparisonIsOfUrl
  BY CompareInvImplies DEF Inv, PagesInv
<1> QED
  BY <1>1, SpecInv, PTL

(* No announcement that reached the timeline is lost on the way to it.     *)
THEOREM NoAnnouncementLost == Spec => []AnnouncedIsDrawn
<1>1. Inv => AnnouncedIsDrawn
  BY TimelineInvImplies DEF Inv, PagesInv
<1> QED
  BY <1>1, SpecInv, PTL

(* The canvas and the sidebar of the service map never mix two graphs.     *)
THEOREM CanvasFollowsGraph == Spec => []CanvasIsOfGraph
<1>1. Inv => CanvasIsOfGraph
  BY DEF Inv, PagesInv, MapInv
<1> QED
  BY <1>1, SpecInv, PTL

(* The heatmap of a quiet metrics page is that of the service in focus.    *)
THEOREM HeatmapFollowsFocus == Spec => []HeatmapIsOfFocus
<1>1. Inv => HeatmapIsOfFocus
  BY MetricsInvImplies DEF Inv, PagesInv
<1> QED
  BY <1>1, SpecInv, PTL

(* What the sampler page would send is what its form shows.                *)
THEOREM PreviewFollowsDraft == Spec => []PreviewIsDraft
<1>1. Inv => PreviewIsDraft
  BY DEF Inv, PagesInv, SamplerInv
<1> QED
  BY <1>1, SpecInv, PTL

-----------------------------------------------------------------------------
(* The trace page.  An accepted answer carries the trace its request asked *)
(* for, and a jump to another id arms the timer of the effect: without the *)
(* timer the newest request is for the id of the route.                    *)
OwnTrace == \A r \in traceLoad.reqs : r.phase = "body" => r.data = r.arg

OfRoute == ~loadTimer => \A r \in traceLoad.reqs : r.newest => r.arg = id

TraceInv ==
    /\ id \in Ids /\ loadTimer \in BOOLEAN /\ traceLoad \in LoadType(Ids, Ids)
    /\ OwnTrace /\ OfRoute /\ TraceIsOfRoute

(* A request that goes leaves the others as they were.                     *)
LEMMA TraceSettledKeeps ==
  ASSUME OwnTrace, OfRoute, NEW r \in traceLoad.reqs, traceLoad'.reqs = traceLoad.reqs \ {r},
         UNCHANGED <<id, loadTimer>>
  PROVE  /\ OwnTrace' /\ OfRoute'
         /\ ~r.newest /\ Quiet(traceLoad') => Quiet(traceLoad)
  BY DEF OwnTrace, OfRoute, Quiet, Newest

(* Every step of the trace page keeps its invariant.                       *)
LEMMA TraceNextInv == TraceInv /\ [TraceNext]_traceVars => TraceInv'
<1> SUFFICES ASSUME TraceInv, [TraceNext]_traceVars PROVE TraceInv'
  OBVIOUS
<1>0. /\ id \in Ids /\ loadTimer \in BOOLEAN /\ traceLoad \in LoadType(Ids, Ids)
      /\ OwnTrace /\ OfRoute /\ TraceIsOfRoute
  BY DEF TraceInv
<1>1. ASSUME NEW i \in Ids, ChangeId(i) PROVE TraceInv'
  <2>1. id' = i /\ loadTimer' = TRUE /\ traceLoad' \in CleanedUp(traceLoad)
    BY <1>1 DEF ChangeId
  <2>2. /\ traceLoad' \in LoadType(Ids, Ids)
        /\ traceLoad'.reqs = {r \in traceLoad.reqs : r.phase = "body"}
    BY <1>0, <2>1, CleanedUpLoad
  <2> QED
    BY <1>0, <2>1, <2>2 DEF TraceInv, OwnTrace, OfRoute, TraceIsOfRoute
<1>2. CASE ReloadTrace
  <2>1. PICK load \in Started(traceLoad, id) : traceLoad' = [load EXCEPT !.loading = TRUE]
    BY <1>2 DEF ReloadTrace
  <2>2. load \in LoadType(Ids, Ids) /\ JustStarted(traceLoad, id, load)
    BY <1>0, <2>1, StartedLoad
  <2>3. traceLoad' \in LoadType(Ids, Ids) /\ traceLoad'.reqs = load.reqs
    BY <2>1, <2>2 DEF LoadType
  <2>4. id' = id /\ loadTimer' \in BOOLEAN
    BY <1>0, <1>2 DEF ReloadTrace
  <2>5. Issued(id).arg = id /\ Issued(id).newest /\ Issued(id).phase = "open"
    BY DEF Issued
  <2>6. OwnTrace' /\ OfRoute'
    BY <1>0, <2>2, <2>3, <2>4, <2>5 DEF OwnTrace, OfRoute, JustStarted
  <2>7. TraceIsOfRoute'
    BY <2>2, <2>3, <2>5 DEF TraceIsOfRoute, JustStarted, Quiet, Newest
  <2> QED
    BY <1>0, <2>3, <2>4, <2>6, <2>7 DEF TraceInv
<1>3. ASSUME NEW r \in traceLoad.reqs, TraceAnswered(r) PROVE TraceInv'
  <2>1. traceLoad' = Answered(traceLoad, r, r.arg) /\ UNCHANGED <<id, trace, loadTimer>>
    BY <1>3 DEF TraceAnswered
  <2>2. r.arg \in Ids
    BY <1>0 DEF LoadType, RequestOf
  <2>3. /\ traceLoad' \in LoadType(Ids, Ids) /\ traceLoad'.error = traceLoad.error
        /\ \E s \in traceLoad'.reqs :
              /\ s.arg = r.arg /\ s.newest = r.newest /\ s.phase = "body" /\ s.data = r.arg
              /\ traceLoad'.reqs = (traceLoad.reqs \ {r}) \cup {s}
    BY <1>0, <2>1, <2>2, AnsweredLoad
  <2>4. OwnTrace' /\ OfRoute'
    BY <1>0, <2>1, <2>3 DEF OwnTrace, OfRoute
  <2>5. Quiet(traceLoad') => Quiet(traceLoad)
    BY <2>3 DEF Quiet, Newest
  <2> QED
    BY <1>0, <2>1, <2>3, <2>4, <2>5 DEF TraceInv, TraceIsOfRoute
<1>4. ASSUME NEW r \in traceLoad.reqs, TraceDelivers(r) PROVE TraceInv'
  <2>1. /\ traceLoad' = Settled(traceLoad, r) /\ r.phase = "body" /\ UNCHANGED <<id, loadTimer>>
        /\ trace' = IF r.newest THEN r.data ELSE trace
    BY <1>4 DEF TraceDelivers
  <2>2. /\ traceLoad' \in LoadType(Ids, Ids) /\ traceLoad'.error = traceLoad.error
        /\ traceLoad'.reqs = traceLoad.reqs \ {r}
    BY <1>0, <2>1, SettledLoad
  <2>3. OwnTrace' /\ OfRoute' /\ (~r.newest /\ Quiet(traceLoad') => Quiet(traceLoad))
    BY <1>0, <2>1, <2>2, TraceSettledKeeps
  <2>4. r.newest /\ ~loadTimer => trace' = id
    BY <1>0, <2>1 DEF OwnTrace, OfRoute
  <2>5. TraceIsOfRoute'
    BY <1>0, <2>1, <2>2, <2>3, <2>4 DEF TraceIsOfRoute
  <2> QED
    BY <1>0, <2>1, <2>2, <2>3, <2>5 DEF TraceInv
<1>5. ASSUME NEW r \in traceLoad.reqs, TraceFails(r) PROVE TraceInv'
  <2>1. traceLoad' = Failed(traceLoad, r) /\ UNCHANGED <<id, trace, loadTimer>>
    BY <1>5 DEF TraceFails
  <2>2. /\ traceLoad' \in LoadType(Ids, Ids)
        /\ (traceLoad'.error <=> traceLoad.error \/ r.newest)
        /\ traceLoad'.reqs = traceLoad.reqs \ {r}
    BY <1>0, <2>1, FailedLoad
  <2>3. OwnTrace' /\ OfRoute' /\ (~r.newest /\ Quiet(traceLoad') => Quiet(traceLoad))
    BY <1>0, <2>1, <2>2, TraceSettledKeeps
  <2>4. TraceIsOfRoute'
    BY <1>0, <2>1, <2>2, <2>3 DEF TraceIsOfRoute
  <2> QED
    BY <1>0, <2>1, <2>2, <2>3, <2>4 DEF TraceInv
<1>6. CASE UNCHANGED routeVars
  BY <1>0, <1>6 DEF routeVars, TraceInv, OwnTrace, OfRoute, TraceIsOfRoute, Quiet
<1>7. ASSUME NEW span, SelectSpan(span) PROVE TraceInv'
  BY <1>6, <1>7 DEF SelectSpan
<1>8. CASE NextSpan \/ PreviousSpan \/ ClickRootCause \/ \E bar \in Bars : ClickBar(bar)
  BY <1>7, <1>8 DEF NextSpan, PreviousSpan, ClickRootCause, ClickBar
<1>9. CASE \/ ParentClick \/ CloseDrawer \/ EditSpanFilter
           \/ \E mode \in {"waterfall", "flame"} : SetViewMode(mode)
           \/ UNCHANGED traceVars
  BY <1>6, <1>9 DEF ParentClick, CloseDrawer, EditSpanFilter, SetViewMode, traceVars
<1>10. ASSUME NEW i \in Ids, Restart(i) PROVE TraceInv'
  <2>1. id' = i /\ loadTimer' = TRUE /\ traceLoad' = NewLoad
    BY <1>10 DEF Restart
  <2>2. traceLoad' \in LoadType(Ids, Ids) /\ traceLoad'.reqs = {}
    BY <2>1 DEF NewLoad, LoadType
  <2> QED
    BY <2>1, <2>2 DEF TraceInv, OwnTrace, OfRoute, TraceIsOfRoute
<1> QED
  BY <1>1, <1>2, <1>3, <1>4, <1>5, <1>8, <1>9, <1>10 DEF TraceNext, MountedNext

(* When nothing is under way and no error is shown, the trace page has the *)
(* trace of its route, however late the answers for other ids come.        *)
THEOREM TraceFollowsRoute == TraceSpec => []TraceIsOfRoute
<1>1. TraceInit => TraceInv
  <2> SUFFICES ASSUME TraceInit PROVE TraceInv
    OBVIOUS
  <2>1. id \in Ids /\ loadTimer = TRUE /\ traceLoad = NewLoad
    BY DEF TraceInit
  <2>2. traceLoad \in LoadType(Ids, Ids) /\ traceLoad.reqs = {}
    BY <2>1 DEF NewLoad, LoadType
  <2> QED
    BY <2>1, <2>2 DEF TraceInv, OwnTrace, OfRoute, TraceIsOfRoute
<1>2. TraceInv => TraceIsOfRoute
  BY DEF TraceInv
<1> QED
  BY <1>1, <1>2, TraceNextInv, PTL DEF TraceSpec

=============================================================================
