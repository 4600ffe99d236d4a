--------------------------- MODULE ReleaseOperation ---------------------------
(***************************************************************************)
(* The reconciled cross-repository release operation of                    *)
(* lib/operate/saga.mjs: what is known of each participating repository,   *)
(* merged with what an observer reports of some of them, and the phase and *)
(* recovery mode derived from it.  An observation may be old or repeated.  *)
(*                                                                         *)
(* A report that changes the digest-bound plan (names, versions, branches) *)
(* is refused, so the plan is fixed and left out, but for whether it names *)
(* a participant's package.  The next safe action is a text of one of the  *)
(* Candidates.  Commits, checks and approvals are copied and play no part. *)
(***************************************************************************)
CONSTANTS Participants,
          Digests,   \* digests of published tarballs
          Unknown,   \* no digest, or nothing observed
          Named      \* participants whose plan names a package and its version

ASSUME ReleaseAssumption ==
    /\ Participants # {}
    /\ Unknown \notin Digests

ParticipantStates == {"pending", "preparing", "prepared", "promoting", "verified",
                      "completed", "blocked", "compensated", "forward-fix"}

Phases == {"drafted", "preparing", "prepared", "promoting", "verified",
           "completed", "blocked", "compensating", "forward-fix"}

RecoveryModes == {"compensation-available", "forward-fix-only"}

Participant == [state: ParticipantStates, published: BOOLEAN,
                digest: Digests \cup {Unknown}]

ASSUME ObservationAssumption ==
    Unknown \notin ParticipantStates

\* What an observer says of one participant; Unknown for what it leaves out.
Observation == [state: ParticipantStates \cup {Unknown}, published: BOOLEAN,
                digest: Digests \cup {Unknown}]

VARIABLES
    part,      \* what is known of each participant
    phase,     \* the state of the operation
    recovery   \* its recovery mode

releaseVars == <<part, phase, recovery>>

ReleaseTypeOK ==
    /\ part \in [Participants -> Participant]
    /\ phase \in Phases
    /\ recovery \in RecoveryModes

----------------------------------------------------------------------------
\* RELEASE_PARTICIPANT_PROGRESS: what comes at or after each state.
Onwards ==
    [pending   |-> {"pending", "preparing", "prepared", "promoting", "verified", "completed"},
     preparing |-> {"preparing", "prepared", "promoting", "verified", "completed"},
     prepared  |-> {"prepared", "promoting", "verified", "completed"},
     promoting |-> {"promoting", "verified", "completed"},
     verified  |-> {"verified", "completed"},
     completed |-> {"completed"}]

\* assertReleaseParticipantTransition
MayBecome(previous, next) ==
    \/ previous = next
    \/ previous = "blocked"
    \/ previous = "forward-fix" /\ next \in {"verified", "completed", "blocked"}
    \/ /\ previous \in DOMAIN Onwards
       /\ next \in {"blocked", "compensated", "forward-fix"} \cup Onwards[previous]

Seen(p, obs) == IF obs.state = Unknown THEN p.state ELSE obs.state

\* mergeObservedReleaseParticipant throws unless this holds.
Mergeable(p, obs) ==
    /\ MayBecome(p.state, Seen(p, obs))
    /\ p.digest = Unknown \/ obs.digest = Unknown \/ p.digest = obs.digest

\* mergeObservedReleaseParticipant: what was published stays published.
Merged(p, obs) ==
    [state     |-> Seen(p, obs),
     published |-> p.published \/ obs.published,
     digest    |-> IF obs.digest = Unknown THEN p.digest ELSE obs.digest]

\* Mutant: a forward-fix that went well makes compensation available again.
RecoveryFrom(mode, ps) ==
    IF \E i \in Participants : ps[i].published \/ ps[i].state = "forward-fix"
    THEN "forward-fix-only" ELSE "compensation-available"

\* effectiveRecoveryMode
EffectiveRecovery(mode, ps) ==
    IF \/ mode = "forward-fix-only"
       \/ \E i \in Participants : ps[i].published \/ ps[i].state = "forward-fix"
    THEN "forward-fix-only" ELSE "compensation-available"

Among(ps) == {ps[i].state : i \in Participants}

\* Mutant: an operation is prepared as soon as one participant is.
PhaseOfSome(ps) ==
    IF "forward-fix" \in Among(ps) THEN "forward-fix"
    ELSE IF "blocked" \in Among(ps) THEN "blocked"
    ELSE IF "compensated" \in Among(ps) THEN "compensating"
    ELSE IF Among(ps) \subseteq {"completed"} THEN "completed"
    ELSE IF Among(ps) \cap Onwards.verified # {} THEN "verified"
    ELSE IF Among(ps) \cap Onwards.promoting # {} THEN "promoting"
    ELSE IF Among(ps) \cap Onwards.prepared # {} THEN "prepared"
    ELSE "preparing"

\* deriveReleaseOperationState
PhaseOf(ps) ==
    IF "forward-fix" \in Among(ps) THEN "forward-fix"
    ELSE IF "blocked" \in Among(ps) THEN "blocked"
    ELSE IF "compensated" \in Among(ps) THEN "compensating"
    ELSE IF Among(ps) \subseteq {"completed"} THEN "completed"
    ELSE IF Among(ps) \subseteq Onwards.verified THEN "verified"
    ELSE IF Among(ps) \subseteq Onwards.promoting THEN "promoting"
    ELSE IF Among(ps) \subseteq Onwards.prepared THEN "prepared"
    ELSE "preparing"

\* deriveReleaseNextSafeAction: the participants that hold the operation in its
\* phase; the first of them by ID says what to do next.
Candidates(ps, ph) ==
    {i \in Participants :
        \/ ps[i].state = ph /\ ph \notin {"drafted", "completed"}
        \/ ps[i].state = "pending" /\ ph = "preparing"
        \/ ps[i].state = "compensated" /\ ph = "compensating"}

\* assertReleaseParticipantCoherence, for all participants; that a forward-fix
\* needs the forward-fix-only mode follows from EffectiveRecovery.
Coherent(ps) ==
    \A i \in Participants :
        ps[i].published => /\ i \in Named
                           /\ ps[i].digest # Unknown
                           /\ ps[i].state # "compensated"

----------------------------------------------------------------------------
\* createEcosystemReleaseOperation, of a new plan or a release under way.
ReleaseInit ==
    /\ part \in [Participants -> Participant]
    /\ Coherent(part)
    /\ recovery \in RecoveryModes
    /\ recovery = EffectiveRecovery(recovery, part)
    /\ \/ phase = PhaseOf(part)
       \/ /\ phase = "drafted"
          /\ Among(part) = {"pending"}
          /\ recovery = "compensation-available"

\* reconcileEcosystemReleaseOperation with observations of some participants.  It
\* would throw as well if it found no candidate for the next safe action, see
\* NextActionDerivable.
Reconcile(observed) ==
    LET merged == [i \in Participants |->
                      IF i \in DOMAIN observed THEN Merged(part[i], observed[i])
                      ELSE part[i]]
    IN  /\ \A i \in DOMAIN observed : Mergeable(part[i], observed[i])
        /\ Coherent(merged)
        /\ part' = merged
        /\ phase' = PhaseOf(merged)
        /\ recovery' = EffectiveRecovery(recovery, merged)

ReleaseNext == \E S \in SUBSET Participants : \E observed \in [S -> Observation] :
            Reconcile(observed)

ReleaseSpec == ReleaseInit /\ [][ReleaseNext]_releaseVars

----------------------------------------------------------------------------
\* A published package is identified by its digest and never compensated, and its
\* publication forbids compensation as a way of recovery from then on.
PublishedIsBinding ==
    \A i \in Participants : part[i].published =>
        /\ part[i].digest # Unknown
        /\ part[i].state # "compensated"
        /\ recovery = "forward-fix-only"

\* Old or repeated observations take nothing back: what was published stays
\* published with its digest, a compensated participant stays compensated and
\* forward-fix-only recovery stays so, also after the fix was verified.
NoWayBack ==
    [][/\ \A i \in Participants :
             /\ part[i].published => part'[i].published
             /\ part[i].digest # Unknown => part'[i].digest = part[i].digest
             /\ part[i].state = "compensated" => part'[i].state = "compensated"
       /\ recovery = "forward-fix-only" => recovery' = "forward-fix-only"]_releaseVars

\* "replaying a stale observation must be idempotent"
\* (tests/orchestration/ecosystem-saga.test.mjs): what was merged once merges again
\* and changes nothing.
ReplayIsIdempotent ==
    \A i \in Participants : \A obs \in Observation :
        Mergeable(part[i], obs) =>
            LET once == Merged(part[i], obs)
            IN  Mergeable(once, obs) /\ Merged(once, obs) = once

\* Some participant holds the operation in its phase, so reconciling never throws
\* for want of a next safe action.
NextActionDerivable ==
    phase \notin {"drafted", "completed"} => Candidates(part, phase) # {}

\* docs/protocol/operating-board.md: "Before publication, compensation may restore
\* reversible state. After any package is published, the operation is
\* forward-fix-only."  No participant is compensated after a publication.
CompensationOnlyBeforePublication ==
    [][\A i \in Participants :
          /\ \E j \in Participants : part[j].published
          /\ part[i].state # "compensated"
          => part'[i].state # "compensated"]_releaseVars
=============================================================================
