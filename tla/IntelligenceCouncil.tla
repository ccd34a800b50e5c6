------------------------ MODULE IntelligenceCouncil ------------------------
(***************************************************************************)
(* The Strategy Council: immutable artifacts, the reviews of people and of *)
(* the Codex verifier, and the governance status a deterministic consensus *)
(* derives (backend/app/intelligence.py and its routes in main.py).  A     *)
(* route derives the status from the reviews it can see, its own included, *)
(* and commits both later; the verifier's route waits for a model first.   *)
(*                                                                         *)
(* An artifact is its recommendation and whether its evidence is fresh and *)
(* cited when it is created; confidence and rationale texts are left out.  *)
(***************************************************************************)
EXTENDS Integers, Sequences, FiniteSets, FiniteSetsExt, SequencesExt

CONSTANTS
  Artifacts,   \* records: recommendation, evidence, fresh, cited
  People,      \* names reviews may be given under
  Codex,       \* the verifier's reviewer name
  Panels,      \* API threads
  MaxArtifacts \* bound: artifacts created

VARIABLES
  status,      \* intelligence_artifacts.status; ABSENT before creation
  reviews,     \* intelligence_reviews of each artifact, in order
  panel,       \* what each thread is doing
  beside       \* artifacts two threads reviewed at once

councilVars == <<status, reviews, panel, beside>>

Verdicts == {"APPROVE", "REJECT", "ABSTAIN"}
LowImpact == {"HOLD", "RESEARCH", "ADJUST"}
HighImpact == {"BUY", "SELL", "PAUSE", "ESCALATE"}
Review(who, verdict) == [reviewer |-> who, verdict |-> verdict]
Free == [stage |-> "free"]

CouncilInit ==
  /\ status = [a \in Artifacts |-> "ABSENT"]
  /\ reviews = [a \in Artifacts |-> <<>>]
  /\ panel = [c \in Panels |-> Free]
  /\ beside = {}

-----------------------------------------------------------------------------
(* validate_artifact, and the consensus                                    *)

Proposed(a) ==
  IF a.evidence /\ a.fresh /\ a.cited THEN "PROPOSED" ELSE "NEEDS_REVIEW"

VerdictsOf(rs) == {r.verdict : r \in ToSet(rs)}
OfCodex(rs) == {k \in DOMAIN rs : rs[k].reviewer = Codex}
Consensus(a, rs) ==
  IF OfCodex(rs) # {}
  THEN IF rs[Max(OfCodex(rs))].verdict = "APPROVE" /\ a.recommendation \in LowImpact
       THEN "ELIGIBLE_FOR_RISK_REVIEW" ELSE "HUMAN_REVIEW"
  ELSE IF Len(rs) < 2 THEN "HUMAN_REVIEW"
  ELSE IF VerdictsOf(rs) = {"REJECT"} THEN "REJECTED"
  ELSE IF VerdictsOf(rs) = {"APPROVE"} /\ a.recommendation \in LowImpact
       THEN "ELIGIBLE_FOR_RISK_REVIEW"
  ELSE "HUMAN_REVIEW"

-----------------------------------------------------------------------------
(* Routes                                                                  *)

CreateArtifact(a) ==
  /\ status[a] = "ABSENT"
  /\ Cardinality({b \in Artifacts : status[b] # "ABSENT"}) < MaxArtifacts
  /\ status' = [status EXCEPT ![a] = Proposed(a)]
  /\ UNCHANGED <<reviews, panel, beside>>

Reviewed(a, who) == \E r \in ToSet(reviews[a]) : r.reviewer = who
InFlight(c, a) == \E d \in Panels \ {c} : panel[d] # Free /\ panel[d].artifact = a
\* Mutant: the status is derived before the review is added.
SeenBefore(a, r) == reviews[a]
Seen(a, r) == Append(reviews[a], r)

(* A review is added and the status derived from the reviews in sight.  A  *)
(* second insert under the same name waits for the first to commit.        *)
Derives(c, a, r, loaded) ==
  /\ ~\E d \in Panels \ {c} : /\ panel[d].stage = "derived" /\ panel[d].artifact = a
                              /\ panel[d].review.reviewer = r.reviewer
  /\ panel' = [panel EXCEPT ![c] =
       [stage |-> "derived", artifact |-> a, review |-> r, loaded |-> loaded,
        governance |-> Consensus(a, Seen(a, r))]]
  /\ beside' = IF InFlight(c, a) THEN beside \cup {a} ELSE beside
  /\ UNCHANGED <<status, reviews>>

ReviewRoute(c, a, who, verdict) ==
  /\ panel[c] = Free /\ status[a] # "ABSENT"
  /\ who \in People /\ ~Reviewed(a, who)
  /\ Derives(c, a, Review(who, verdict), status[a])

AskCodex(c, a) ==
  /\ panel[c] = Free /\ status[a] # "ABSENT" /\ ~Reviewed(a, Codex)
  /\ panel' = [panel EXCEPT ![c] = [stage |-> "asking", artifact |-> a, loaded |-> status[a]]]
  /\ beside' = IF InFlight(c, a) THEN beside \cup {a} ELSE beside
  /\ UNCHANGED <<status, reviews>>

Cautious(a, verdict) ==
  IF a.recommendation \in HighImpact /\ verdict = "APPROVE" THEN "ABSTAIN" ELSE verdict

CodexAnswers(c, verdict) ==
  /\ panel[c].stage = "asking"
  /\ LET a == panel[c].artifact IN
     IF Reviewed(a, Codex)   \* the insert raises
     THEN panel' = [panel EXCEPT ![c] = Free] /\ UNCHANGED <<status, reviews, beside>>
     ELSE Derives(c, a, Review(Codex, Cautious(a, verdict)), panel[c].loaded)

CodexUnavailable(c) ==
  /\ panel[c].stage = "asking"
  /\ panel' = [panel EXCEPT ![c] = Free]
  /\ UNCHANGED <<status, reviews, beside>>

CommitReview(c) ==
  /\ panel[c].stage = "derived"
  /\ LET w == panel[c] IN
     /\ reviews' = [reviews EXCEPT ![w.artifact] = Append(@, w.review)]
     /\ status' = [status EXCEPT ![w.artifact] = IF w.governance # w.loaded THEN w.governance ELSE @]
  /\ panel' = [panel EXCEPT ![c] = Free]
  /\ UNCHANGED beside

CouncilNext ==
  \/ \E a \in Artifacts : CreateArtifact(a)
  \/ \E c \in Panels :
       \/ \E a \in Artifacts, v \in Verdicts, p \in People : ReviewRoute(c, a, p, v)
       \/ \E a \in Artifacts : AskCodex(c, a)
       \/ \E v \in Verdicts : CodexAnswers(c, v)
       \/ CodexUnavailable(c) \/ CommitReview(c)
CouncilSpec == CouncilInit /\ [][CouncilNext]_councilVars

-----------------------------------------------------------------------------
(* Properties                                                              *)

Governance == {"HUMAN_REVIEW", "REJECTED", "ELIGIBLE_FOR_RISK_REVIEW"}
CouncilTypeOK ==
  /\ status \in [Artifacts -> {"ABSENT", "PROPOSED", "NEEDS_REVIEW"} \cup Governance]
  /\ \A a \in Artifacts : \A r \in ToSet(reviews[a]) :
       r.reviewer \in People \cup {Codex} /\ r.verdict \in Verdicts
  /\ \A c \in Panels : panel[c].stage \in {"free", "asking", "derived"}
  /\ beside \subseteq Artifacts

(* What the documents promise (phase-7-intelligence.md, ADR 0008): only an *)
(* artifact whose evidence is fresh and cited becomes eligible, and only   *)
(* if no review dissents or abstains; all else requires a human.  (That    *)
(* the verifier's approval may stand alone is ADR 0008's last paragraph.)  *)
(* The consensus reads neither the artifact's freshness nor, once the      *)
(* verifier answered, what people said: the code does not keep it.         *)
EligibleIsUndisputed ==
  \A a \in Artifacts :
    status[a] = "ELIGIBLE_FOR_RISK_REVIEW" =>
      Proposed(a) = "PROPOSED" /\ VerdictsOf(reviews[a]) = {"APPROVE"}

(* What of it the code does keep: an eligible artifact is of low impact,   *)
(* and the verifier, or two people under different names, approved it,     *)
(* though others may have rejected it and its evidence be stale.           *)
EligibleIsApproved ==
  \A a \in Artifacts :
    status[a] = "ELIGIBLE_FOR_RISK_REVIEW" =>
      /\ a.recommendation \in LowImpact
      /\ LET approving == {r.reviewer : r \in {x \in ToSet(reviews[a]) : x.verdict = "APPROVE"}}
         IN Codex \in approving \/ Cardinality(approving) >= 2

(* The stored status is what the recorded reviews say, unless two reviews  *)
(* of the artifact were in flight at once.  Then each stores what it       *)
(* derived without the other, or nothing when it loaded that very status:  *)
(* a verifier's rejection can leave an artifact eligible that two people   *)
(* approved while the model was thinking.                                  *)
StatusIsConsensus ==
  \A a \in Artifacts \ beside :
    reviews[a] # <<>> => status[a] = Consensus(a, reviews[a])
=============================================================================
