---------------------------- MODULE StatefulSetWait ----------------------------
(***************************************************************************)
(* The Convergence Waiter of pkg/component/etcd/statefulset: Wait polls    *)
(* the StatefulSet every defaultInterval until CheckStatefulSet passes, a  *)
(* severe error occurs or defaultTimeout passes; on failure it enriches    *)
(* the error, best effort, with warning events of the StatefulSet's        *)
(* PersistentVolumeClaims that are not yet bound (fetchPVCEventsFor).      *)
(*                                                                         *)
(* The platform (cache catching up, the StatefulSet controller observing  *)
(* the generation and bringing pods up or losing them, the provisioner    *)
(* binding claims and emitting warnings) interleaves with every API call. *)
(* Names are sequences of characters, so that the name-prefix filter of   *)
(* fetchPVCEventsFor is checked as the string operation it is.  The error *)
(* text is abstracted to its primary error and the set of claims whose     *)
(* warnings it appends.                                                    *)
(***************************************************************************)
EXTENDS Naturals, Sequences, FiniteSets
LOCAL INSTANCE SequencesExt

CONSTANTS
    Replicas,       \* c.values.Replicas
    Name,           \* c.values.Name, a sequence of characters
    TemplateName,   \* the volume claim template name, a sequence of characters
    Claims,         \* names of the PVCs in the namespace, sequences of characters
    Ordinals,       \* pod ordinals, as characters
    Polls,          \* polls of UntilTimeout before the deadline (90s / 5s)
    InitGenerations,\* generations Deploy can leave the StatefulSet with
    ApiErrors,      \* whether API calls may fail with a non-NotFound error
    StaleReads      \* whether c.client's Get may return the object as it was
                    \* before Deploy's last patch (a client reading from a cache)

ASSUME /\ Replicas \in 1..5
       /\ Polls \in 1..20
       /\ ApiErrors \in BOOLEAN
       /\ StaleReads \in BOOLEAN

VARIABLES
    sts,         \* the platform's StatefulSet, as the client's reads see it
    claims,      \* claim name -> its phase and whether it has warning events
    pc,          \* "poll", "list", "events" or "done"
    tick,        \* polls done
    copy,        \* Wait's local sts: has a Get ever filled in its spec?
    retryErr,    \* the error UntilTimeout returned: "none", "timeout", "severe"
    pending,     \* claims fetchPVCEventsFor still fetches events for
    messages,    \* claims whose warnings fetchPVCEventsFor collected
    waitErr,     \* primary error Wait returned ("none" on success)
    reported,    \* claims whose warnings the returned error carries
    listed,      \* the claims as the List call saw them
    startGen     \* generation of the StatefulSet when Wait was called

vars == <<sts, claims, pc, tick, copy, retryErr, pending, messages, waitErr,
          reported, listed, startGen>>

Dash == <<"-">>
ApiFailures == IF ApiErrors THEN BOOLEAN ELSE {FALSE}
ClaimState == [bound: BOOLEAN, warned: BOOLEAN]

\* The PVCs the StatefulSet controller creates for this StatefulSet.
ClaimName(template, stsName, ordinal) == template \o Dash \o stsName \o Dash \o <<ordinal>>
OwnClaims == {c \in Claims : \E o \in Ordinals : c = ClaimName(TemplateName, Name, o)}

TypeOK ==
    /\ sts \in [visible: BOOLEAN, lagging: BOOLEAN, generation: 1..5,
                observedGeneration: 0..5, readyReplicas: 0..Replicas]
    /\ claims \in [Claims -> ClaimState]
    /\ pc \in {"poll", "list", "events", "done"}
    /\ tick \in 0..Polls
    /\ copy \in [hasTemplates: BOOLEAN]
    /\ retryErr \in {"none", "timeout", "severe"}
    /\ pending \subseteq Claims /\ messages \subseteq Claims
    /\ waitErr \in {"none", "timeout", "severe", "listFailed", "eventsFailed"}
    /\ reported \subseteq Claims
    /\ listed \in [Claims -> ClaimState]
    /\ startGen \in 1..5

\* Wait is called after Deploy: the StatefulSet may not be in the client's cache
\* yet, its controller may not have observed the last patch, and claims may be
\* pending with warnings already recorded.  With StaleReads, a read may still
\* return the object as it was before Deploy's patch of generation g.
Init ==
    /\ \E g \in InitGenerations, v \in BOOLEAN, r \in 0..Replicas :
       \E og \in {g - 1, g},
         lag \in IF StaleReads /\ v /\ g > 1 THEN BOOLEAN ELSE {FALSE} :
          sts = [visible |-> v, lagging |-> lag, generation |-> g,
                 observedGeneration |-> og, readyReplicas |-> r]
    /\ claims \in [Claims -> ClaimState]
    /\ pc = "poll"
    /\ tick = 0
    /\ copy = [hasTemplates |-> FALSE]
    /\ retryErr = "none"
    /\ pending = {} /\ messages = {}
    /\ waitErr = "none" /\ reported = {}
    /\ listed = claims
    /\ startGen = sts.generation

-----------------------------------------------------------------------------
\* What a Get returns: the object, or while the read lags behind Deploy's patch
\* the previous generation as the controller had fully rolled it out.
Fetched(s) ==
    IF s.lagging
      THEN [s EXCEPT !.generation = s.generation - 1,
                     !.observedGeneration = s.generation - 1,
                     !.readyReplicas = Replicas]
      ELSE s

\* utils.CheckStatefulSet: the controller observed the current generation and
\* every desired replica is ready.
CheckStatefulSet(s) ==
    /\ s.observedGeneration >= s.generation
    /\ s.readyReplicas = Replicas

\* Mutant: Until instead of UntilTimeout, polling without a deadline.
RetryOrGiveUpNoDeadline ==
    tick' = tick + 1 /\ UNCHANGED <<pc, retryErr>>

\* UntilTimeout after a minor error: wait for the next poll, or at the deadline
\* stop, either with the retry error or, when the timer wins the race with the
\* context, with the severe error of one more Get on the expired context.
RetryOrGiveUp ==
    IF tick + 1 < Polls
      THEN tick' = tick + 1 /\ UNCHANGED <<pc, retryErr>>
      ELSE /\ pc' = "list"
           /\ retryErr' \in {"timeout", "severe"}
           /\ UNCHANGED tick

(* One call of Wait's condition function inside UntilTimeout. *)
Poll(fails) ==
    /\ pc = "poll"
    /\ CASE fails ->
              pc' = "list" /\ retryErr' = "severe" /\ UNCHANGED <<tick, copy>>
         [] ~sts.visible ->
              RetryOrGiveUp /\ UNCHANGED copy
         [] CheckStatefulSet(Fetched(sts)) ->
              /\ pc' = "done" /\ copy' = [hasTemplates |-> TRUE]
              /\ UNCHANGED <<tick, retryErr>>
         [] OTHER ->
              RetryOrGiveUp /\ copy' = [hasTemplates |-> TRUE]
    /\ UNCHANGED <<sts, claims, pending, messages, waitErr, reported, listed, startGen>>

\* Mutant: the phase filter dropped, bound claims included.
MatchingClaimsIgnoringPhase(cl) ==
    IF copy.hasTemplates
      THEN {c \in Claims : IsPrefix(TemplateName \o Dash \o Name, c)}
      ELSE {}

\* The claims fetchPVCEventsFor looks at: named with the prefix
\* "<template>-<sts name>" for a template of Wait's local copy, and not bound.
MatchingClaims(cl) ==
    IF copy.hasTemplates
      THEN {c \in Claims : IsPrefix(TemplateName \o Dash \o Name, c) /\ ~cl[c].bound}
      ELSE {}

\* Wait's return once fetchPVCEventsFor is done or failed.
Return(err, msgs) ==
    /\ pc' = "done"
    /\ waitErr' = err
    /\ reported' = msgs

\* Mutant: the error of the best-effort listing replaces Wait's error.
ListClaimsReturningErr2(fails) ==
    /\ pc = "list"
    /\ IF fails
         THEN Return("listFailed", {}) /\ UNCHANGED <<pending, listed>>
         ELSE /\ pending' = MatchingClaims(claims)
              /\ listed' = claims
              /\ pc' = "events"
              /\ UNCHANGED <<waitErr, reported>>
    /\ UNCHANGED <<sts, claims, tick, copy, retryErr, messages, startGen>>

(* fetchPVCEventsFor: List the claims of the namespace; if that fails, Wait *)
(* logs it and returns its own error unchanged.                             *)
ListClaims(fails) ==
    /\ pc = "list"
    /\ IF fails
         THEN Return(retryErr, {}) /\ UNCHANGED <<pending, listed>>
         ELSE /\ pending' = MatchingClaims(claims)
              /\ listed' = claims
              /\ pc' = "events"
              /\ UNCHANGED <<waitErr, reported>>
    /\ UNCHANGED <<sts, claims, tick, copy, retryErr, messages, startGen>>

(* FetchEventMessages for one matching claim (at most two warnings).  A     *)
(* failure abandons every message collected so far.                         *)
FetchClaimEvents(fails) ==
    /\ pc = "events"
    /\ \E c \in pending :
         IF fails
           THEN Return(retryErr, {}) /\ UNCHANGED <<pending, messages>>
           ELSE /\ pending' = pending \ {c}
                /\ messages' = IF claims[c].warned THEN messages \cup {c} ELSE messages
                /\ UNCHANGED <<pc, waitErr, reported>>
    /\ UNCHANGED <<sts, claims, tick, copy, retryErr, listed, startGen>>

(* Every matching claim visited: Wait returns its error with the messages. *)
WaitReturns ==
    /\ pc = "events"
    /\ pending = {}
    /\ Return(retryErr, messages)
    /\ UNCHANGED <<sts, claims, tick, copy, retryErr, pending, messages, listed, startGen>>

-----------------------------------------------------------------------------
(* Environment *)

CacheSyncs ==
    /\ ~sts.visible \/ sts.lagging
    /\ sts' = [sts EXCEPT !.visible = TRUE, !.lagging = FALSE]
    /\ UNCHANGED <<claims, pc, tick, copy, retryErr, pending, messages, waitErr,
                   reported, listed, startGen>>

\* The StatefulSet controller observes the current generation; a rolling
\* update takes one pod out of the ready set.
ControllerObserves ==
    /\ sts.observedGeneration < sts.generation
    /\ sts' = [sts EXCEPT !.observedGeneration = sts.generation,
                          !.readyReplicas = IF @ > 0 THEN @ - 1 ELSE 0]
    /\ UNCHANGED <<claims, pc, tick, copy, retryErr, pending, messages, waitErr,
                   reported, listed, startGen>>

PodBecomesReady ==
    /\ sts.observedGeneration = sts.generation
    /\ sts.readyReplicas < Replicas
    /\ sts' = [sts EXCEPT !.readyReplicas = @ + 1]
    /\ UNCHANGED <<claims, pc, tick, copy, retryErr, pending, messages, waitErr,
                   reported, listed, startGen>>

PodFails ==
    /\ sts.readyReplicas > 0
    /\ sts' = [sts EXCEPT !.readyReplicas = @ - 1]
    /\ UNCHANGED <<claims, pc, tick, copy, retryErr, pending, messages, waitErr,
                   reported, listed, startGen>>

\* The provisioner binds a claim, or records a warning event for a pending one.
ProvisionerStep ==
    \E c \in Claims :
        /\ ~claims[c].bound
        /\ \/ claims' = [claims EXCEPT ![c].bound = TRUE]
           \/ /\ ~claims[c].warned
              /\ claims' = [claims EXCEPT ![c].warned = TRUE]
        /\ UNCHANGED <<sts, pc, tick, copy, retryErr, pending, messages, waitErr,
                       reported, listed, startGen>>

Waiter ==
    \/ \E f \in ApiFailures : Poll(f) \/ ListClaims(f) \/ FetchClaimEvents(f)
    \/ WaitReturns

Environment ==
    CacheSyncs \/ ControllerObserves \/ PodBecomesReady \/ PodFails \/ ProvisionerStep

Next == Waiter \/ Environment

Spec == Init /\ [][Next]_vars /\ WF_vars(Waiter)

-----------------------------------------------------------------------------
(* Properties *)

(* Wait reports success only for a rollout the StatefulSet controller has  *)
(* observed: at the poll that ends the wait, the object describes at least  *)
(* the generation Deploy left and every desired replica is ready, even when *)
(* the read returns the object as it was before Deploy's patch (Wait's      *)
(* condition function on what c.client.Get returned).                       *)
SuccessOnlyWhenRolledOut ==
    [][ (pc = "poll" /\ pc' = "done")
          => /\ sts.observedGeneration >= startGen
             /\ sts.readyReplicas = Replicas ]_vars

(* The best-effort enrichment never replaces or hides Wait's error: Wait   *)
(* returns exactly the error UntilTimeout returned, whether listing claims *)
(* or fetching their events fails (Wait lines 128-141).                     *)
EnrichmentNeverMasks == pc = "done" => waitErr = retryErr

(* Every claim whose warnings the returned error carries was still pending *)
(* when the claims were listed and has warning events (fetchPVCEventsFor's  *)
(* phase filter).                                                           *)
ReportedClaimsAreStuck ==
    reported \subseteq {c \in Claims : ~listed[c].bound /\ claims[c].warned}

(* The returned error carries warnings of this StatefulSet's own claims    *)
(* only, never of another StatefulSet's claims in the namespace            *)
(* (fetchPVCEventsFor's name-prefix filter).                                *)
OnlyOwnClaimsReported == reported \subseteq OwnClaims

(* Spec 4.4: when Wait fails, the error carries the warnings of every own  *)
(* claim that was pending with warning events, the claims being those      *)
(* named "<volumeClaimTemplateName>-<objectName>..." (fetchPVCEventsFor).  *)
StuckOwnClaimsReported ==
    (pc = "done" /\ waitErr # "none")
        => {c \in OwnClaims : ~listed[c].bound /\ listed[c].warned} \subseteq reported

=============================================================================
