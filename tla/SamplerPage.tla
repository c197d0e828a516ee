----------------------------- MODULE SamplerPage ----------------------------
(***************************************************************************)
(* web/src/pages/Sampler.tsx: the sampler of the collector is polled while *)
(* the user edits a draft of a new one, previews it and confirms it.       *)
(*                                                                         *)
(* Of the strategies the model has three.  "always" has no setting, and    *)
(* stands for "never" too.  "ratelimit" has a number that can be invalid,  *)
(* which the collector reports under the name it was sent with, and stands *)
(* for "probabilistic" and "adaptive" too.  "tail" has a timeout and       *)
(* policies, which the collector does not report under the names they were *)
(* sent with, and stands for "rules" too.                                  *)
(*                                                                         *)
(* The draft has the setting of the selected strategy only, and buildBody  *)
(* takes no other.  The form keeps those of the others, as they were typed *)
(* or loaded last; here it may come up with any when one is selected.      *)
(***************************************************************************)
EXTENDS Naturals, PageLoad

CONSTANTS
    Rates,          \* what can be typed for tracesPerSec; 0 is not valid
    Tails,          \* what can be typed for the settings of "tail"
    ValidTails,     \* those of them that validateDraft accepts
    FallbackTail,   \* of a draft whose sampler reports none: 10 s and "error"
    MaxPuts,        \* bound: calls of putSampler in flight
    MaxHistory      \* MAX_HISTORY

VARIABLES
    samplerConfig,  \* the sampler of the collector, as it was sent
    puts,           \* calls of putSampler in flight: the body until the
                    \* collector has applied it, then None
    shownConfig,    \* state config, as it was reported, None before it
    draft,          \* the fields of the form
    pendingBody,    \* the previewed request, or None
    hasLocalEdits,
    historyLength,  \* the points of the rate history
    samplerLoad     \* a request remembers whether its closure saw no edits

formVars == <<shownConfig, draft, pendingBody, hasLocalEdits, historyLength, samplerLoad>>
samplerVars == <<samplerConfig, puts, formVars>>

Drafts == [type : {"always"}, setting : {None}]
    \cup [type : {"ratelimit"}, setting : Rates]
    \cup [type : {"tail"}, setting : Tails]

(* validateDraft. *)
ValidDraft(d) ==
    /\ d.type = "ratelimit" => d.setting > 0
    /\ d.type = "tail" => d.setting \in ValidTails

Configs == {d \in Drafts : ValidDraft(d)}

ASSUME SettingsAssumption ==
    /\ Rates \subseteq Nat /\ None \notin Rates
    /\ ValidTails \subseteq Tails /\ FallbackTail \in Tails /\ None \notin Tails
    /\ MaxHistory \in Nat

NewDraft == [type |-> "always", setting |-> None]

(* What HandleGetSampler answers: Config() of a tail sampler has a         *)
(* timeoutSec, but neither the bufferTimeoutSec nor the policies that the  *)
(* form reads; that of a rule sampler has the number of its rules.         *)
Reported(c) == IF c.type = "tail" THEN [c EXCEPT !.setting = None] ELSE c
Reports == {Reported(c) : c \in Configs}

SamplerTypeOK ==
    /\ samplerConfig \in Configs
    /\ puts \subseteq Configs \cup {None}
    /\ shownConfig \in Reports \cup {None} /\ draft \in Drafts
    /\ pendingBody \in Configs \cup {None}
    /\ hasLocalEdits \in BOOLEAN /\ historyLength \in 0 .. MaxHistory
    /\ samplerLoad \in LoadType(BOOLEAN, Reports)

SamplerOff ==
    /\ samplerConfig = NewDraft /\ puts = {}
    /\ shownConfig = None /\ draft = NewDraft /\ pendingBody = None /\ hasLocalEdits = FALSE
    /\ historyLength = 0 /\ samplerLoad = NewLoad

SamplerMount ==
    /\ samplerConfig' \in Configs
    /\ UNCHANGED <<puts, formVars>>

(* putSampler has no signal: a call in flight outlives the page.  When it  *)
(* is applied, the next page to mount sees one more change by others.      *)
SamplerUnmount ==
    /\ samplerConfig' = NewDraft /\ puts' = {}
    /\ shownConfig' = None /\ draft' = NewDraft /\ pendingBody' = None /\ hasLocalEdits' = FALSE
    /\ historyLength' = 0 /\ samplerLoad' = NewLoad

-----------------------------------------------------------------------------
(* The form and its conversions.                                           *)

(* applyDraftFromConfig: a fallback for what the report lacks.             *)
DraftOf(c) ==
    IF c.type = "tail" /\ c.setting = None THEN [c EXCEPT !.setting = FallbackTail] ELSE c

Clean == ~hasLocalEdits /\ pendingBody = None

SamplerView ==
    IF shownConfig = None /\ samplerLoad.loading THEN "loading"
    ELSE IF shownConfig = None /\ samplerLoad.error THEN "error" ELSE "form"

(* pendingBody and hasLocalEdits are dependencies of fetchConfig, and it   *)
(* of the effect: when one changes, cleanup and a new timer (FetchConfig). *)
EditEffect(pending, edits, load) ==
    /\ pendingBody' = pending
    /\ hasLocalEdits' = edits
    /\ IF <<pending, edits>> = <<pendingBody, hasLocalEdits>>
       THEN samplerLoad' = load ELSE samplerLoad' \in CleanedUp(load)

(* Mutant of EditDraft: markDirty keeps the preview.                       *)
EditDraftKeepsPreview(d) ==
    /\ SamplerView = "form"
    /\ draft' = d
    /\ EditEffect(pendingBody, TRUE, samplerLoad)
    /\ UNCHANGED <<samplerConfig, puts, shownConfig, historyLength>>

(* A field of the form is edited: its setter and markDirty.                *)
EditDraft(d) ==
    /\ SamplerView = "form"
    /\ draft' = d
    /\ EditEffect(None, TRUE, samplerLoad)
    /\ UNCHANGED <<samplerConfig, puts, shownConfig, historyLength>>

(* The body is a new object, and a change even if it equals the last one.  *)
PreviewChange ==
    /\ SamplerView = "form"
    /\ IF ValidDraft(draft)
       THEN /\ pendingBody' = draft
            /\ samplerLoad' \in CleanedUp([samplerLoad EXCEPT !.error = FALSE])
       ELSE /\ samplerLoad' = [samplerLoad EXCEPT !.error = TRUE]
            /\ UNCHANGED pendingBody
    /\ UNCHANGED <<samplerConfig, puts, shownConfig, draft, hasLocalEdits, historyLength>>

CancelPreview ==
    /\ pendingBody # None
    /\ EditEffect(None, hasLocalEdits, samplerLoad)
    /\ UNCHANGED <<samplerConfig, puts, shownConfig, draft, historyLength>>

(* applyDraftFromConfig, from the button that resets the form.             *)
ResetDraft ==
    /\ SamplerView = "form" /\ shownConfig # None /\ ~Clean
    /\ draft' = DraftOf(shownConfig)
    /\ EditEffect(None, FALSE, samplerLoad)
    /\ UNCHANGED <<samplerConfig, puts, shownConfig, historyLength>>

-----------------------------------------------------------------------------
(* handleConfirm; the button stays enabled while the call is in flight.    *)
Confirm ==
    /\ pendingBody # None
    /\ Cardinality(puts) < MaxPuts
    /\ puts' = puts \cup {pendingBody}
    /\ UNCHANGED <<samplerConfig, formVars>>

PutApplied(body) ==
    /\ ~silent
    /\ body # None
    /\ samplerConfig' = body
    /\ puts' = (puts \ {body}) \cup {None}
    /\ UNCHANGED formVars

(* The answer: the draft counts as clean, and the fetchConfig of the       *)
(* render that showed the button starts, whose closure saw the preview;    *)
(* then the effect runs again.                                             *)
PutSucceeds ==
    /\ None \in puts
    /\ puts' = puts \ {None}
    /\ \E load \in Started(samplerLoad, FALSE) : EditEffect(None, FALSE, load)
    /\ UNCHANGED <<samplerConfig, shownConfig, draft, historyLength>>

(* An error status, a timeout or a lost connection, whether or not the     *)
(* collector has applied it.  It may still do so: SamplerReplaced.         *)
PutFails(p) ==
    /\ puts' = puts \ {p}
    /\ samplerLoad' = [samplerLoad EXCEPT !.error = TRUE]
    /\ UNCHANGED <<samplerConfig, shownConfig, draft, pendingBody, hasLocalEdits, historyLength>>

(* Another operator changes the sampler, or a call this page no longer     *)
(* waits for.                                                              *)
SamplerReplaced(c) ==
    /\ c # samplerConfig
    /\ samplerConfig' = c
    /\ UNCHANGED <<puts, formVars>>

-----------------------------------------------------------------------------
(* Mutant of FetchConfig: the closure of the first edit is used for good.  *)
FetchConfigStale ==
    /\ samplerLoad' \in Started(samplerLoad, FALSE)
    /\ UNCHANGED <<samplerConfig, puts, shownConfig, draft, pendingBody, hasLocalEdits,
                   historyLength>>

(* fetchConfig: from the timer of the effect, its interval of 3 s, an      *)
(* event, or Retry.  A request has no time for its timeout of 15 s.        *)
FetchConfig ==
    /\ samplerLoad' \in Started(samplerLoad, Clean)
    /\ UNCHANGED <<samplerConfig, puts, shownConfig, draft, pendingBody, hasLocalEdits,
                   historyLength>>

ConfigAnswered(r) ==
    /\ ~silent
    /\ r.phase = "open"
    /\ samplerLoad' = Answered(samplerLoad, r, Reported(samplerConfig))
    /\ UNCHANGED <<samplerConfig, puts, shownConfig, draft, pendingBody, hasLocalEdits,
                   historyLength>>

(* The form follows the answer if the closure of the request saw no edits. *)
ConfigDelivers(r) ==
    /\ r.phase = "body"
    /\ IF r.newest
       THEN /\ shownConfig' = r.data
            /\ historyLength' = IF historyLength < MaxHistory THEN historyLength + 1 ELSE MaxHistory
            /\ IF r.arg
               THEN /\ draft' = DraftOf(r.data)
                    /\ EditEffect(None, FALSE, Settled(samplerLoad, r))
               ELSE /\ samplerLoad' = Settled(samplerLoad, r)
                    /\ UNCHANGED <<draft, pendingBody, hasLocalEdits>>
       ELSE /\ samplerLoad' = Settled(samplerLoad, r)
            /\ UNCHANGED <<shownConfig, historyLength, draft, pendingBody, hasLocalEdits>>
    /\ UNCHANGED <<samplerConfig, puts>>

(* An error status or a lost connection.                                   *)
ConfigFails(r) ==
    /\ ~silent
    /\ samplerLoad' = Failed(samplerLoad, r)
    /\ UNCHANGED <<samplerConfig, puts, shownConfig, draft, pendingBody, hasLocalEdits,
                   historyLength>>

SamplerNext ==
    \/ \E c \in Configs : SamplerReplaced(c)
    \/ \E d \in Drafts : EditDraft(d)
    \/ PreviewChange
    \/ CancelPreview
    \/ ResetDraft
    \/ Confirm
    \/ \E p \in puts : PutApplied(p) \/ PutFails(p)
    \/ PutSucceeds
    \/ FetchConfig
    \/ \E r \in samplerLoad.reqs : ConfigAnswered(r) \/ ConfigDelivers(r) \/ ConfigFails(r)

-----------------------------------------------------------------------------
(* What Confirm sends is what the form shows, and is valid: no edit, reset *)
(* or answer that changes the form leaves an older preview to confirm.     *)
PreviewIsDraft ==
    pendingBody # None => ValidDraft(draft) /\ pendingBody = draft

=============================================================================
