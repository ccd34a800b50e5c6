--------------------------- MODULE ResearchProofs ---------------------------
(***************************************************************************)
(* Research services, for any records, people, threads and instruments:    *)
(* that the stored status of an artifact is the consensus of its recorded  *)
(* reviews and that an eligible artifact earned it; that the planner reads *)
(* an outcome with the decision that belongs to it; that the paper account *)
(* is its opening cash with every fill booked once.                        *)
(*                                                                         *)
(* A commit of the council stores what its thread derived earlier, and     *)
(* only if it differs from the status loaded earlier still; the invariant  *)
(* says that of an artifact nobody else reviews both are what they would   *)
(* be now.  An eligible status is earned even beside others: what a thread *)
(* derived it from are reviews the artifact keeps, its own included, and   *)
(* no two of them are of one reviewer.  The paper account needs that an    *)
(* execution alone still sees the rows it loaded when it writes.           *)
(*                                                                         *)
(* The types of the three services come last of each part.                 *)
(***************************************************************************)
EXTENDS PaperSimulator, IntelligenceCouncil, CandidateScanner, FiniteSums

-----------------------------------------------------------------------------
(* The council: the status                                                 *)

Busy(c, a) == panel[c] # Free /\ panel[c].artifact = a

ShapeInv ==
  /\ status = [a \in Artifacts |-> status[a]] /\ reviews = [a \in Artifacts |-> reviews[a]]
  /\ panel = [c \in Panels |-> panel[c]]

(* Artifacts under review exist, and have one reviewer each if they are    *)
(* not beside.                                                             *)
PanelInv ==
  /\ \A c \in Panels : panel[c] # Free =>
       /\ panel[c].stage \in {"asking", "derived"}
       /\ panel[c].artifact \in Artifacts /\ status[panel[c].artifact] # "ABSENT"
       /\ panel[c].stage = "derived" => panel[c].governance # "ABSENT"
  /\ \A c, d \in Panels : \A a \in Artifacts \ beside : Busy(c, a) /\ Busy(d, a) => c = d

(* What such a reviewer loaded and derived still holds.                    *)
Current(c) ==
  LET w == panel[c] IN
  w # Free /\ w.artifact \notin beside =>
    /\ w.loaded = status[w.artifact]
    /\ w.stage = "derived" =>
         w.governance = Consensus(w.artifact, Append(reviews[w.artifact], w.review))

LoadedInv == \A c \in Panels : Current(c)
GInv == ShapeInv /\ PanelInv /\ LoadedInv /\ StatusIsConsensus

-----------------------------------------------------------------------------
(* No consensus is the absence of the artifact.                            *)
LEMMA ConsensusIsNotAbsent == \A a, rs : Consensus(a, rs) # "ABSENT"
BY DEF Consensus

(* A new artifact has no reviews and nobody reviews it.                    *)
LEMMA CreateKeeps ==
  ASSUME GInv, NEW a \in Artifacts, CreateArtifact(a) PROVE GInv'
<1>1. status[a] = "ABSENT" /\ UNCHANGED <<reviews, panel, beside>>
      /\ status' = [status EXCEPT ![a] = Proposed(a)]
  BY DEF CreateArtifact
<1>2. Proposed(a) # "ABSENT" BY DEF Proposed
<1>3. \A c \in Panels : panel[c] # Free => panel[c].artifact # a BY <1>1 DEF GInv, PanelInv
<1>4. a \in beside \/ reviews[a] = <<>>
  BY <1>1, ConsensusIsNotAbsent DEF GInv, StatusIsConsensus
<1>5. ShapeInv' BY <1>1 DEF GInv, ShapeInv
<1>6. PanelInv' BY <1>1, <1>2, <1>3 DEF GInv, PanelInv, ShapeInv, Busy
<1>7. LoadedInv' BY <1>1, <1>3 DEF GInv, LoadedInv, PanelInv, Current, ShapeInv
<1>8. StatusIsConsensus' BY <1>1, <1>4 DEF GInv, StatusIsConsensus, ShapeInv
<1>9. QED BY <1>5, <1>6, <1>7, <1>8 DEF GInv

(* A thread that begins, or ends its waiting, finds the rows as they are;  *)
(* if it is not the only one, the artifact is beside.                      *)
LEMMA EnterKeeps ==
  ASSUME GInv, NEW c \in Panels, NEW a \in Artifacts, status[a] # "ABSENT",
         NEW w, w # Free, w.artifact = a, w.stage \in {"asking", "derived"},
         w.stage = "derived" => w.governance = Consensus(a, Append(reviews[a], w.review)),
         a \notin beside => w.loaded = status[a],
         panel[c] = Free \/ panel[c].artifact = a,
         panel' = [panel EXCEPT ![c] = w],
         beside' = IF InFlight(c, a) THEN beside \cup {a} ELSE beside,
         UNCHANGED <<status, reviews>>
  PROVE  GInv'
<1>1. panel'[c] = w /\ \A d \in Panels \ {c} : panel'[d] = panel[d] BY DEF GInv, ShapeInv
<1>2. beside \subseteq beside' /\ beside' \subseteq beside \cup {a}
      /\ (a \notin beside' => \A d \in Panels \ {c} : ~Busy(d, a))
  BY DEF InFlight, Busy
<1>3. ShapeInv' BY DEF GInv, ShapeInv
<1>4. w.stage = "derived" => w.governance # "ABSENT" BY ConsensusIsNotAbsent
<1>5. PanelInv'
  <2>1. ASSUME NEW d \in Panels, panel'[d] # Free
        PROVE  /\ panel'[d].stage \in {"asking", "derived"}
               /\ panel'[d].artifact \in Artifacts /\ status'[panel'[d].artifact] # "ABSENT"
               /\ panel'[d].stage = "derived" => panel'[d].governance # "ABSENT"
    BY <1>1, <1>4, <2>1 DEF GInv, PanelInv
  <2>2. ASSUME NEW d \in Panels, NEW e \in Panels, NEW b \in Artifacts \ beside',
               Busy(d, b)', Busy(e, b)'
        PROVE  d = e
    BY <1>1, <1>2, <2>2 DEF GInv, PanelInv, Busy
  <2>3. QED BY <2>1, <2>2 DEF PanelInv
<1>6. LoadedInv' BY <1>1, <1>2 DEF GInv, LoadedInv, Current
<1>7. StatusIsConsensus' BY <1>2 DEF GInv, StatusIsConsensus
<1>8. QED BY <1>3, <1>5, <1>6, <1>7 DEF GInv

LEMMA AskKeeps ==
  ASSUME GInv, NEW c \in Panels, NEW a \in Artifacts, AskCodex(c, a) PROVE GInv'
<1> DEFINE w == [stage |-> "asking", artifact |-> a, loaded |-> status[a]]
<1>1. w # Free /\ w.artifact = a /\ w.stage = "asking" /\ w.loaded = status[a] BY DEF Free
<1>2. /\ panel[c] = Free /\ status[a] # "ABSENT" /\ panel' = [panel EXCEPT ![c] = w]
      /\ beside' = IF InFlight(c, a) THEN beside \cup {a} ELSE beside
      /\ UNCHANGED <<status, reviews>>
  BY DEF AskCodex
<1> HIDE DEF w
<1>3. QED BY <1>1, <1>2, EnterKeeps

(* Deriving reads the reviews as they are.                                 *)
LEMMA DeriveKeeps ==
  ASSUME GInv, NEW c \in Panels, NEW a \in Artifacts, status[a] # "ABSENT", NEW r, NEW loaded,
         a \notin beside => loaded = status[a], panel[c] = Free \/ panel[c].artifact = a,
         Derives(c, a, r, loaded)
  PROVE  GInv'
<1> DEFINE w == [stage |-> "derived", artifact |-> a, review |-> r, loaded |-> loaded,
                 governance |-> Consensus(a, Seen(a, r))]
<1>1. /\ w # Free /\ w.artifact = a /\ w.stage = "derived" /\ w.loaded = loaded
      /\ w.governance = Consensus(a, Append(reviews[a], w.review))
  BY DEF Free, Seen
<1>2. /\ panel' = [panel EXCEPT ![c] = w] /\ UNCHANGED <<status, reviews>>
      /\ beside' = IF InFlight(c, a) THEN beside \cup {a} ELSE beside
  BY DEF Derives
<1> HIDE DEF w
<1>3. QED BY <1>1, <1>2, EnterKeeps

(* A thread that gives up leaves the others alone.                         *)
LEMMA LeaveKeeps ==
  ASSUME GInv, NEW c \in Panels, panel' = [panel EXCEPT ![c] = Free],
         UNCHANGED <<status, reviews, beside>>
  PROVE  GInv'
<1>1. panel'[c] = Free /\ \A d \in Panels \ {c} : panel'[d] = panel[d] BY DEF GInv, ShapeInv
<1>2. ShapeInv' BY DEF GInv, ShapeInv
<1>3. PanelInv' BY <1>1 DEF GInv, PanelInv, Busy
<1>4. LoadedInv' BY <1>1 DEF GInv, LoadedInv, Current
<1>5. QED BY <1>2, <1>3, <1>4 DEF GInv, StatusIsConsensus

LEMMA AnswerKeeps ==
  ASSUME GInv, NEW c \in Panels, NEW v, CodexAnswers(c, v) PROVE GInv'
<1> DEFINE a == panel[c].artifact
<1>1. panel[c] # Free /\ panel[c].stage = "asking" BY DEF CodexAnswers, Free
<1>2. a \in Artifacts /\ status[a] # "ABSENT" /\ (a \notin beside => panel[c].loaded = status[a])
  BY <1>1 DEF GInv, PanelInv, LoadedInv, Current
<1>3. CASE Reviewed(a, Codex) BY <1>3, LeaveKeeps DEF CodexAnswers
<1>4. CASE ~Reviewed(a, Codex)
  <2>1. Derives(c, a, Review(Codex, Cautious(a, v)), panel[c].loaded)
    BY <1>4 DEF CodexAnswers
  <2>2. QED BY <1>2, <2>1, DeriveKeeps
<1>5. QED BY <1>3, <1>4

(* A commit stores the consensus of all reviews, where nobody was beside.  *)
LEMMA CommitKeeps ==
  ASSUME GInv, NEW c \in Panels, CommitReview(c) PROVE GInv'
<1> DEFINE w == panel[c]
           a == w.artifact
           new == IF w.governance # w.loaded THEN w.governance ELSE status[a]
<1>1. w # Free /\ w.stage = "derived" BY DEF CommitReview, Free
<1>2. /\ reviews' = [reviews EXCEPT ![a] = Append(reviews[a], w.review)]
      /\ status' = [status EXCEPT ![a] = new]
      /\ panel' = [panel EXCEPT ![c] = Free] /\ UNCHANGED beside
  BY DEF CommitReview
<1>3. a \in Artifacts /\ status[a] # "ABSENT" /\ w.governance # "ABSENT"
  BY <1>1 DEF GInv, PanelInv
<1>4. new # "ABSENT" BY <1>3
<1>5. a \notin beside => new = Consensus(a, Append(reviews[a], w.review))
  BY <1>1 DEF GInv, LoadedInv, Current
<1>6. a \notin beside => \A d \in Panels \ {c} : ~Busy(d, a)
  BY <1>1, <1>3 DEF GInv, PanelInv, Busy
<1> HIDE DEF new
<1>7. panel'[c] = Free /\ \A d \in Panels \ {c} : panel'[d] = panel[d]
  BY <1>2 DEF GInv, ShapeInv
<1>8. /\ status'[a] = new /\ reviews'[a] = Append(reviews[a], w.review)
      /\ \A b \in Artifacts \ {a} : status'[b] = status[b] /\ reviews'[b] = reviews[b]
  BY <1>2, <1>3 DEF GInv, ShapeInv
<1>9. ShapeInv' BY <1>2 DEF GInv, ShapeInv
<1>10. PanelInv' BY <1>2, <1>4, <1>7, <1>8 DEF GInv, PanelInv, Busy
<1>11. LoadedInv'
  <2>1. ASSUME NEW d \in Panels, panel'[d] # Free, panel'[d].artifact \notin beside
        PROVE  d # c /\ panel[d].artifact \in Artifacts \ {a}
    BY <1>6, <1>7, <2>1 DEF GInv, PanelInv, Busy
  <2>2. QED BY <1>2, <1>7, <1>8, <2>1 DEF GInv, LoadedInv, Current
<1>12. StatusIsConsensus' BY <1>2, <1>5, <1>8 DEF GInv, StatusIsConsensus
<1>13. QED BY <1>9, <1>10, <1>11, <1>12 DEF GInv

-----------------------------------------------------------------------------
(* Every step of the routes keeps the invariant.                           *)
THEOREM CouncilInductive == CouncilSpec => []GInv
<1>1. CouncilInit => GInv
  BY DEF CouncilInit, GInv, ShapeInv, PanelInv, LoadedInv, Current, StatusIsConsensus, Busy
<1>2. GInv /\ [CouncilNext]_councilVars => GInv'
  <2>1. ASSUME GInv, CouncilNext PROVE GInv'
    <3>1. ASSUME NEW c \in Panels, NEW a \in Artifacts, NEW v \in Verdicts, NEW p \in People,
                 ReviewRoute(c, a, p, v)
          PROVE  GInv'
      BY <2>1, <3>1, DeriveKeeps DEF ReviewRoute
    <3>2. ASSUME NEW c \in Panels, CodexUnavailable(c) PROVE GInv'
      BY <2>1, <3>2, LeaveKeeps DEF CodexUnavailable
    <3>3. QED BY <2>1, <3>1, <3>2, CreateKeeps, AskKeeps, AnswerKeeps, CommitKeeps DEF CouncilNext
  <2>2. ASSUME GInv, UNCHANGED councilVars PROVE GInv'
    BY <2>2 DEF councilVars, GInv, ShapeInv, PanelInv, LoadedInv, Current, StatusIsConsensus, Busy
  <2>3. QED BY <2>1, <2>2
<1>3. QED BY <1>1, <1>2, PTL DEF CouncilSpec

(* The stored status is the consensus of the recorded reviews, but for     *)
(* artifacts that were reviewed twice at once (review_artifact and         *)
(* request_codex_review).                                                  *)
THEOREM StatusesAreConsensus == CouncilSpec => []StatusIsConsensus
BY CouncilInductive, PTL DEF GInv

-----------------------------------------------------------------------------
(* The council: eligibility                                                *)

Low(a) == a.recommendation \in LowImpact

(* Two people approve, or the verifier does.                               *)
Earned(rs) ==
  \/ \E r \in rs : r.reviewer = Codex /\ r.verdict = "APPROVE"
  \/ \E r, q \in rs : r.reviewer # q.reviewer /\ r.verdict = "APPROVE" /\ q.verdict = "APPROVE"

Distinct(rs) == \A i, j \in DOMAIN rs : rs[i].reviewer = rs[j].reviewer => i = j

(* Reviews are finite sequences, with one review of each reviewer.         *)
SeqsInv ==
  /\ reviews = [a \in Artifacts |-> reviews[a]] /\ status = [a \in Artifacts |-> status[a]]
  /\ panel = [c \in Panels |-> panel[c]]
  /\ \A a \in Artifacts : reviews[a] \in Seq(Range(reviews[a])) /\ Distinct(reviews[a])

(* What threads derived: nobody else of that name reviews the artifact,    *)
(* and an eligible governance is earned by what they saw.                  *)
DerivedInv ==
  /\ \A c \in Panels : panel[c].stage \in {"asking", "derived"} => panel[c].artifact \in Artifacts
  /\ \A c \in Panels : panel[c].stage = "derived" =>
       /\ ~Reviewed(panel[c].artifact, panel[c].review.reviewer)
       /\ panel[c].governance = "ELIGIBLE_FOR_RISK_REVIEW" =>
            /\ Low(panel[c].artifact)
            /\ Earned(ToSet(reviews[panel[c].artifact]) \cup {panel[c].review})
  /\ \A c, d \in Panels :
       /\ panel[c].stage = "derived" /\ panel[d].stage = "derived"
       /\ panel[c].artifact = panel[d].artifact
       /\ panel[c].review.reviewer = panel[d].review.reviewer
       => c = d

EarnedInv ==
  \A a \in Artifacts : status[a] = "ELIGIBLE_FOR_RISK_REVIEW" => Low(a) /\ Earned(ToSet(reviews[a]))

EInv == SeqsInv /\ DerivedInv /\ EarnedInv

(* More reviews do not take away what was earned.                          *)
LEMMA EarnedKept == ASSUME NEW R, NEW S, R \subseteq S, Earned(R) PROVE Earned(S)
BY DEF Earned

LEMMA AppendAdds ==
  ASSUME NEW s, s \in Seq(Range(s)), NEW e
  PROVE  /\ Append(s, e) \in Seq(Range(Append(s, e)))
         /\ ToSet(Append(s, e)) = ToSet(s) \cup {e}
         /\ \A i \in DOMAIN s : Append(s, e)[i] = s[i]
         /\ DOMAIN Append(s, e) = 1..(Len(s) + 1) /\ DOMAIN s = 1..Len(s)
         /\ Append(s, e)[Len(s) + 1] = e /\ Len(s) \in Nat
<1> DEFINE t == Append(s, e)
<1>1. Len(s) \in Nat /\ DOMAIN s = 1..Len(s) OBVIOUS
<1>2. /\ t \in Seq(Range(s) \cup {e}) /\ Len(t) = Len(s) + 1
      /\ \A i \in 1..Len(s) : t[i] = s[i]
      /\ t[Len(s) + 1] = e
  <2>1. s \in Seq(Range(s) \cup {e}) BY DEF Range
  <2>2. QED BY <1>1, <2>1
<1> HIDE DEF t
<1>3. DOMAIN t = 1..(Len(s) + 1) BY <1>1, <1>2
<1>4. Range(t) = Range(s) \cup {e} BY <1>1, <1>2, <1>3 DEF Range
<1>5. ToSet(t) = ToSet(s) \cup {e} BY <1>1, <1>2, <1>3 DEF ToSet
<1>6. QED BY <1>1, <1>2, <1>3, <1>4, <1>5 DEF t

(* Appending the review of somebody new keeps the reviewers distinct.      *)
LEMMA StillDistinct ==
  ASSUME NEW s, s \in Seq(Range(s)), Distinct(s), NEW e,
         \A k \in DOMAIN s : s[k].reviewer # e.reviewer
  PROVE  Distinct(Append(s, e))
<1> DEFINE t == Append(s, e)
           n == Len(s)
<1>0. /\ n \in Nat /\ DOMAIN s = 1..n /\ DOMAIN t = 1..(n + 1)
      /\ \A k \in DOMAIN s : t[k] = s[k]
      /\ t[n + 1] = e
  BY AppendAdds
<1> HIDE DEF t, n
<1> SUFFICES ASSUME NEW i \in 1..(n + 1), NEW j \in 1..(n + 1), t[i].reviewer = t[j].reviewer
    PROVE  i = j
  BY <1>0 DEF Distinct, t
<1>1. CASE i = n + 1
  <2>1. CASE j # n + 1
    <3>1. j \in DOMAIN s BY <1>0, <2>1
    <3>2. QED BY <1>0, <1>1, <3>1
  <2>2. QED BY <1>1, <2>1
<1>2. CASE i # n + 1
  <2>1. i \in DOMAIN s BY <1>0, <1>2
  <2>2. CASE j = n + 1 BY <1>0, <2>1, <2>2
  <2>3. CASE j # n + 1
    <3>1. j \in DOMAIN s BY <1>0, <2>3
    <3>2. t[i] = s[i] /\ t[j] = s[j] BY <1>0, <2>1, <3>1
    <3>3. QED BY <2>1, <3>1, <3>2 DEF Distinct
  <2>4. QED BY <2>2, <2>3
<1>3. QED BY <1>1, <1>2

(* A consensus makes an artifact eligible only if its reviews earn it.     *)
LEMMA ConsensusIsEarned ==
  ASSUME NEW a, NEW rs, rs \in Seq(Range(rs)), Consensus(a, rs) = "ELIGIBLE_FOR_RISK_REVIEW",
         Distinct(rs)
  PROVE  Low(a) /\ Earned(ToSet(rs))
<1>1. Low(a) BY DEF Consensus, Low
<1>2. CASE OfCodex(rs) # {}
  <2> DEFINE S == OfCodex(rs)
             Left == {Len(rs) - k : k \in S}
  <2>1. S \subseteq 1..Len(rs) BY DEF OfCodex
  <2>2. Left \in SUBSET Nat /\ Left # {} BY <1>2, <2>1
  <2>3. PICK n \in Left : \A m \in Left : n <= m
    <3> HIDE DEF Left
    <3>1. QED BY <2>2, SmallestNumber
  <2>4. PICK k \in S : n = Len(rs) - k BY <2>3
  <2>5. ASSUME NEW j \in S PROVE j <= k
    <3>1. n <= Len(rs) - j BY <2>3
    <3>2. j \in 1..Len(rs) /\ k \in 1..Len(rs) BY <2>1
    <3>3. QED BY <2>4, <3>1, <3>2
  <2>6. Max(S) \in S BY <2>5 DEF Max
  <2>7. rs[Max(S)].verdict = "APPROVE" BY <1>2 DEF Consensus
  <2>8. rs[Max(S)] \in ToSet(rs) /\ rs[Max(S)].reviewer = Codex BY <2>6 DEF OfCodex, ToSet
  <2>9. QED BY <1>1, <2>7, <2>8 DEF Earned
<1>3. CASE OfCodex(rs) = {}
  <2>1. ~(Len(rs) < 2) /\ VerdictsOf(rs) = {"APPROVE"} BY <1>3 DEF Consensus
  <2>2. 1 \in DOMAIN rs /\ 2 \in DOMAIN rs BY <2>1
  <2>3. rs[1] \in ToSet(rs) /\ rs[2] \in ToSet(rs) BY <2>2 DEF ToSet
  <2>4. rs[1].verdict = "APPROVE" /\ rs[2].verdict = "APPROVE" BY <2>1, <2>3 DEF VerdictsOf
  <2>5. rs[1].reviewer # rs[2].reviewer BY <2>2 DEF Distinct
  <2>6. QED BY <1>1, <2>3, <2>4, <2>5 DEF Earned
<1>4. QED BY <1>2, <1>3

(* Deriving reads the reviews as they are, the thread's own with them.     *)
LEMMA DeriveEarns ==
  ASSUME EInv, NEW c \in Panels, NEW a \in Artifacts, NEW r, NEW loaded,
         ~Reviewed(a, r.reviewer), Derives(c, a, r, loaded)
  PROVE  EInv'
<1> DEFINE g == Consensus(a, Seen(a, r))
           w == [stage |-> "derived", artifact |-> a, review |-> r, loaded |-> loaded,
                 governance |-> g]
<1>1. /\ w.stage = "derived" /\ w.artifact = a /\ w.review = r /\ w.governance = g
      /\ panel' = [panel EXCEPT ![c] = w] /\ UNCHANGED <<status, reviews>>
  BY DEF Derives
<1>2. ASSUME NEW d \in Panels \ {c}, panel[d].stage = "derived", panel[d].artifact = a
      PROVE  panel[d].review.reviewer # r.reviewer
  BY <1>2 DEF Derives
<1>3. g = "ELIGIBLE_FOR_RISK_REVIEW" => Low(a) /\ Earned(ToSet(reviews[a]) \cup {r})
  <2>1. reviews[a] \in Seq(Range(reviews[a])) BY DEF EInv, SeqsInv
  <2>2. /\ Seen(a, r) \in Seq(Range(Seen(a, r)))
        /\ ToSet(Seen(a, r)) = ToSet(reviews[a]) \cup {r}
        /\ \A k \in DOMAIN reviews[a] : Seen(a, r)[k] = reviews[a][k]
        /\ DOMAIN Seen(a, r) = 1..(Len(reviews[a]) + 1) /\ DOMAIN reviews[a] = 1..Len(reviews[a])
        /\ Seen(a, r)[Len(reviews[a]) + 1] = r /\ Len(reviews[a]) \in Nat
    <3>1. Seen(a, r) = Append(reviews[a], r) BY DEF Seen
    <3>2. QED BY <2>1, <3>1, AppendAdds
  <2>3. Distinct(Seen(a, r))
    <3>1. \A k \in DOMAIN reviews[a] : reviews[a][k].reviewer # r.reviewer
      BY DEF Reviewed, ToSet
    <3>2. Distinct(reviews[a]) BY DEF EInv, SeqsInv
    <3>3. QED BY <2>1, <3>1, <3>2, StillDistinct DEF Seen
  <2>4. ASSUME Consensus(a, Seen(a, r)) = "ELIGIBLE_FOR_RISK_REVIEW"
        PROVE  Low(a) /\ Earned(ToSet(Seen(a, r)))
    BY <2>2, <2>3, <2>4, ConsensusIsEarned
  <2>5. QED BY <2>2, <2>4
<1> HIDE DEF g, w
<1>4. panel'[c] = w /\ \A d \in Panels \ {c} : panel'[d] = panel[d] BY <1>1 DEF EInv, SeqsInv
<1>5. SeqsInv' BY <1>1 DEF EInv, SeqsInv
<1>6. DerivedInv'
  <2>1. \A d \in Panels : panel'[d].stage \in {"asking", "derived"} => panel'[d].artifact \in Artifacts
    BY <1>1, <1>4 DEF EInv, DerivedInv
  <2>2. ASSUME NEW d \in Panels, panel'[d].stage = "derived"
        PROVE  /\ ~Reviewed(panel[d].artifact, panel[d].review.reviewer)'
               /\ panel'[d].governance = "ELIGIBLE_FOR_RISK_REVIEW" =>
                    /\ Low(panel'[d].artifact)
                    /\ Earned(ToSet(reviews'[panel'[d].artifact]) \cup {panel'[d].review})
    <3>1. CASE d = c BY <1>1, <1>3, <1>4, <3>1 DEF Reviewed
    <3>2. CASE d # c
      <4>1. panel'[d] = panel[d] /\ reviews' = reviews BY <1>1, <1>4, <3>2
      <4>2. QED BY <2>2, <4>1 DEF EInv, DerivedInv, Reviewed
    <3>3. QED BY <3>1, <3>2
  <2>3. ASSUME NEW d \in Panels, NEW e \in Panels,
               panel'[d].stage = "derived", panel'[e].stage = "derived",
               panel'[d].artifact = panel'[e].artifact,
               panel'[d].review.reviewer = panel'[e].review.reviewer
        PROVE  d = e
    BY <1>1, <1>2, <1>4, <2>3 DEF EInv, DerivedInv
  <2>4. QED BY <2>1, <2>2, <2>3 DEF DerivedInv
<1>7. EarnedInv' BY <1>1 DEF EInv, EarnedInv
<1>8. QED BY <1>5, <1>6, <1>7 DEF EInv

(* A thread that begins to ask, or gives up, derives nothing.              *)
LEMMA WaitingEarns ==
  ASSUME EInv, NEW c \in Panels, NEW w, w.stage # "derived",
         w.stage \in {"asking", "derived"} => w.artifact \in Artifacts,
         panel' = [panel EXCEPT ![c] = w], UNCHANGED <<status, reviews>>
  PROVE  EInv'
<1>1. panel'[c] = w /\ \A d \in Panels \ {c} : panel'[d] = panel[d] BY DEF EInv, SeqsInv
<1>2. SeqsInv' /\ EarnedInv' BY DEF EInv, SeqsInv, EarnedInv
<1>3. DerivedInv'
  <2>1. \A d \in Panels : panel'[d].stage \in {"asking", "derived"} => panel'[d].artifact \in Artifacts
    BY <1>1 DEF EInv, DerivedInv
  <2>2. ASSUME NEW d \in Panels, panel'[d].stage = "derived"
        PROVE  /\ ~Reviewed(panel[d].artifact, panel[d].review.reviewer)'
               /\ panel'[d].governance = "ELIGIBLE_FOR_RISK_REVIEW" =>
                    /\ Low(panel'[d].artifact)
                    /\ Earned(ToSet(reviews'[panel'[d].artifact]) \cup {panel'[d].review})
    <3>1. panel'[d] = panel[d] BY <1>1, <2>2
    <3>2. QED BY <2>2, <3>1 DEF EInv, DerivedInv, Reviewed
  <2>3. ASSUME NEW d \in Panels, NEW e \in Panels,
               panel'[d].stage = "derived", panel'[e].stage = "derived",
               panel'[d].artifact = panel'[e].artifact,
               panel'[d].review.reviewer = panel'[e].review.reviewer
        PROVE  d = e
    <3>1. panel'[d] = panel[d] /\ panel'[e] = panel[e] BY <1>1, <2>3
    <3>2. QED BY <2>3, <3>1 DEF EInv, DerivedInv
  <2>4. QED BY <2>1, <2>2, <2>3 DEF DerivedInv
<1>4. QED BY <1>2, <1>3 DEF EInv

LEMMA AskEarns ==
  ASSUME EInv, NEW c \in Panels, NEW a \in Artifacts, AskCodex(c, a) PROVE EInv'
<1> DEFINE w == [stage |-> "asking", artifact |-> a, loaded |-> status[a]]
<1>1. w.stage = "asking" /\ w.artifact = a OBVIOUS
<1>2. panel' = [panel EXCEPT ![c] = w] /\ UNCHANGED <<status, reviews>> BY DEF AskCodex
<1> HIDE DEF w
<1>3. QED BY <1>1, <1>2, WaitingEarns

LEMMA GiveUpEarns ==
  ASSUME EInv, NEW c \in Panels, panel' = [panel EXCEPT ![c] = Free],
         UNCHANGED <<status, reviews>>
  PROVE  EInv'
<1>1. Free.stage = "free" BY DEF Free
<1>2. QED BY <1>1, WaitingEarns

LEMMA AnswerEarns ==
  ASSUME EInv, NEW c \in Panels, NEW v, CodexAnswers(c, v) PROVE EInv'
<1> DEFINE a == panel[c].artifact
           r == Review(Codex, Cautious(a, v))
<1>1. a \in Artifacts BY DEF CodexAnswers, EInv, DerivedInv
<1>2. r.reviewer = Codex BY DEF Review
<1>3. CASE Reviewed(a, Codex) BY <1>3, GiveUpEarns DEF CodexAnswers
<1>4. CASE ~Reviewed(a, Codex)
  <2>1. Derives(c, a, r, panel[c].loaded) BY <1>4 DEF CodexAnswers
  <2> HIDE DEF r
  <2>2. QED BY <1>1, <1>2, <1>4, <2>1, DeriveEarns
<1>5. QED BY <1>3, <1>4

LEMMA CreateEarns ==
  ASSUME EInv, NEW a \in Artifacts, CreateArtifact(a) PROVE EInv'
<1>1. /\ status' = [status EXCEPT ![a] = Proposed(a)] /\ UNCHANGED <<reviews, panel>>
      /\ Proposed(a) # "ELIGIBLE_FOR_RISK_REVIEW"
  BY DEF CreateArtifact, Proposed
<1>2. SeqsInv' /\ DerivedInv' BY <1>1 DEF EInv, SeqsInv, DerivedInv, Reviewed
<1>3. EarnedInv' BY <1>1 DEF EInv, EarnedInv, SeqsInv
<1>4. QED BY <1>2, <1>3 DEF EInv

(* A commit adds the review the status was derived with.                   *)
LEMMA CommitEarns ==
  ASSUME EInv, NEW c \in Panels, CommitReview(c) PROVE EInv'
<1> DEFINE w == panel[c]
           a == w.artifact
<1>1. /\ w.stage = "derived" /\ panel' = [panel EXCEPT ![c] = Free]
      /\ reviews' = [reviews EXCEPT ![a] = Append(reviews[a], w.review)]
      /\ status' = [status EXCEPT ![a] =
                      IF w.governance # w.loaded THEN w.governance ELSE status[a]]
  BY DEF CommitReview
<1>2. /\ a \in Artifacts /\ ~Reviewed(a, w.review.reviewer)
      /\ w.governance = "ELIGIBLE_FOR_RISK_REVIEW"
           => Low(a) /\ Earned(ToSet(reviews[a]) \cup {w.review})
  BY <1>1 DEF EInv, DerivedInv
<1>3. reviews[a] \in Seq(Range(reviews[a])) BY <1>2 DEF EInv, SeqsInv
<1>4. /\ reviews'[a] \in Seq(Range(reviews'[a]))
      /\ ToSet(reviews'[a]) = ToSet(reviews[a]) \cup {w.review}
      /\ \A i \in DOMAIN reviews[a] : reviews'[a][i] = reviews[a][i]
      /\ DOMAIN reviews'[a] = 1..(Len(reviews[a]) + 1) /\ DOMAIN reviews[a] = 1..Len(reviews[a])
      /\ reviews'[a][Len(reviews[a]) + 1] = w.review /\ Len(reviews[a]) \in Nat
      /\ \A b \in Artifacts \ {a} : reviews'[b] = reviews[b] /\ status'[b] = status[b]
      /\ status'[a] = IF w.governance # w.loaded THEN w.governance ELSE status[a]
  <2>1. reviews'[a] = Append(reviews[a], w.review) BY <1>1, <1>2 DEF EInv, SeqsInv
  <2>2. status'[a] = IF w.governance # w.loaded THEN w.governance ELSE status[a]
    BY <1>1, <1>2 DEF EInv, SeqsInv
  <2>3. \A b \in Artifacts \ {a} : reviews'[b] = reviews[b] /\ status'[b] = status[b]
    BY <1>1 DEF EInv, SeqsInv
  <2>4. QED BY <1>3, <2>1, <2>2, <2>3, AppendAdds
<1>5. panel'[c].stage = "free" /\ \A d \in Panels \ {c} : panel'[d] = panel[d]
  BY <1>1 DEF EInv, SeqsInv, Free
<1>6. SeqsInv'
  <2>1. reviews'[a] \in Seq(Range(reviews'[a])) BY <1>4
  <2>2. Distinct(reviews'[a])
    <3>1. \A k \in DOMAIN reviews[a] : reviews[a][k].reviewer # w.review.reviewer
      BY <1>2 DEF Reviewed, ToSet
    <3>2. reviews[a] \in Seq(Range(reviews[a])) /\ Distinct(reviews[a])
      BY <1>2 DEF EInv, SeqsInv
    <3>3. reviews'[a] = Append(reviews[a], w.review) BY <1>1, <1>2 DEF EInv, SeqsInv
    <3> HIDE DEF a, w
    <3>4. QED BY <3>1, <3>2, <3>3, StillDistinct
  <2>3. /\ reviews' = [b \in Artifacts |-> reviews'[b]] /\ status' = [b \in Artifacts |-> status'[b]]
        /\ panel' = [d \in Panels |-> panel'[d]]
    BY <1>1 DEF EInv, SeqsInv
  <2>4. ASSUME NEW b \in Artifacts
        PROVE  /\ reviews'[b] \in Seq(Range(reviews'[b]))
               /\ Distinct(reviews'[b])
    <3>1. CASE b = a BY <2>1, <2>2, <3>1
    <3>2. CASE b # a
      <4>1. reviews'[b] = reviews[b] BY <1>4, <3>2
      <4>2. QED BY <4>1 DEF EInv, SeqsInv
    <3>3. QED BY <3>1, <3>2
  <2>5. QED BY <2>3, <2>4 DEF SeqsInv
<1>7. DerivedInv'
  <2>1. ASSUME NEW d \in Panels, panel'[d].stage = "derived"
        PROVE  /\ ~Reviewed(panel[d].artifact, panel[d].review.reviewer)'
               /\ panel'[d].governance = "ELIGIBLE_FOR_RISK_REVIEW" =>
                    /\ Low(panel'[d].artifact)
                    /\ Earned(ToSet(reviews'[panel'[d].artifact]) \cup {panel'[d].review})
    <3>1. d # c /\ panel'[d] = panel[d] BY <1>5, <2>1
    <3>2. panel[d].artifact = a => panel[d].review.reviewer # w.review.reviewer
      BY <1>1, <2>1, <3>1 DEF EInv, DerivedInv
    <3>3. panel[d].artifact \in Artifacts BY <2>1, <3>1 DEF EInv, DerivedInv
    <3>4. ToSet(reviews[panel[d].artifact]) \cup {panel[d].review}
            \subseteq ToSet(reviews'[panel[d].artifact]) \cup {panel[d].review}
      BY <1>4, <3>3
    <3>5. ~Reviewed(panel[d].artifact, panel[d].review.reviewer)'
      <4>1. ~Reviewed(panel[d].artifact, panel[d].review.reviewer)
        BY <2>1, <3>1 DEF EInv, DerivedInv
      <4>2. CASE panel[d].artifact = a
        <5>1. ToSet(reviews'[a]) = ToSet(reviews[a]) \cup {w.review} BY <1>4
        <5>2. panel[d].review.reviewer # w.review.reviewer BY <3>2, <4>2
        <5> HIDE DEF w, a
        <5>3. ASSUME NEW x \in ToSet(reviews'[a]) PROVE x.reviewer # panel[d].review.reviewer
          BY <4>1, <4>2, <5>1, <5>2 DEF Reviewed
        <5>4. QED BY <3>1, <4>2, <5>3 DEF Reviewed
      <4>3. CASE panel[d].artifact # a
        <5>1. reviews'[panel[d].artifact] = reviews[panel[d].artifact] BY <1>4, <3>3, <4>3
        <5>2. QED BY <3>1, <4>1, <5>1 DEF Reviewed
      <4>4. QED BY <4>2, <4>3
    <3>6. QED BY <2>1, <3>1, <3>4, <3>5, EarnedKept DEF EInv, DerivedInv
  <2>2. QED BY <1>5, <2>1 DEF EInv, DerivedInv
<1>8. EarnedInv'
  <2>1. status'[a] = "ELIGIBLE_FOR_RISK_REVIEW" => Low(a) /\ Earned(ToSet(reviews'[a]))
    <3>1. status[a] = "ELIGIBLE_FOR_RISK_REVIEW" => Low(a) /\ Earned(ToSet(reviews'[a]))
      BY <1>2, <1>4, EarnedKept DEF EInv, EarnedInv
    <3>2. QED BY <1>2, <1>4, <3>1
  <2>2. QED BY <1>4, <2>1 DEF EInv, EarnedInv
<1>9. QED BY <1>6, <1>7, <1>8 DEF EInv

THEOREM EligibilityInductive == CouncilSpec => []EInv
<1>1. CouncilInit => EInv
  BY DEF CouncilInit, EInv, SeqsInv, DerivedInv, EarnedInv, Free, Range, Distinct
<1>2. EInv /\ [CouncilNext]_councilVars => EInv'
  <2>1. ASSUME EInv, CouncilNext PROVE EInv'
    <3>1. ASSUME NEW c \in Panels, NEW a \in Artifacts, NEW v \in Verdicts, NEW p \in People,
                 ReviewRoute(c, a, p, v)
          PROVE  EInv'
      <4>1. Review(p, v).reviewer = p BY DEF Review
      <4>2. QED BY <2>1, <3>1, <4>1, DeriveEarns DEF ReviewRoute
    <3>2. ASSUME NEW c \in Panels, CodexUnavailable(c) PROVE EInv'
      BY <2>1, <3>2, GiveUpEarns DEF CodexUnavailable
    <3>3. QED BY <2>1, <3>1, <3>2, CreateEarns, AskEarns, AnswerEarns, CommitEarns DEF CouncilNext
  <2>2. ASSUME EInv, UNCHANGED councilVars PROVE EInv'
    BY <2>2 DEF councilVars, EInv, SeqsInv, DerivedInv, EarnedInv, Reviewed
  <2>3. QED BY <2>1, <2>2
<1>3. QED BY <1>1, <1>2, PTL DEF CouncilSpec

(* An eligible artifact is of low impact, and the verifier or two people   *)
(* approved it, however many reviews were in flight beside each other      *)
(* (consensus, create_intelligence_review, verify_intelligence_with_codex). *)
(* Nothing follows about its evidence or about those who dissented.        *)
THEOREM EligibilityIsApproved == CouncilSpec => []EligibleIsApproved
<1>1. EInv => EligibleIsApproved
  <2> SUFFICES ASSUME EInv, NEW a \in Artifacts, status[a] = "ELIGIBLE_FOR_RISK_REVIEW"
      PROVE  /\ a.recommendation \in LowImpact
             /\ LET approving == {r.reviewer : r \in {x \in ToSet(reviews[a]) : x.verdict = "APPROVE"}}
                IN Codex \in approving \/ Cardinality(approving) >= 2
    BY DEF EligibleIsApproved
  <2> DEFINE approving == {r.reviewer : r \in {x \in ToSet(reviews[a]) : x.verdict = "APPROVE"}}
             f == [k \in 1..Len(reviews[a]) |-> reviews[a][k].reviewer]
  <2>1. Low(a) /\ Earned(ToSet(reviews[a])) BY DEF EInv, EarnedInv
  <2>2. Len(reviews[a]) \in Nat /\ DOMAIN reviews[a] = 1..Len(reviews[a])
    <3>1. reviews[a] \in Seq(Range(reviews[a])) BY DEF EInv, SeqsInv
    <3>2. QED BY <3>1
  <2>3. IsFiniteSet(approving)
    <3>1. approving \subseteq {f[k] : k \in 1..Len(reviews[a])}
      <4>1. ASSUME NEW x \in approving PROVE \E k \in 1..Len(reviews[a]) : x = f[k]
        <5>1. PICK r \in ToSet(reviews[a]) : x = r.reviewer BY <4>1
        <5>2. PICK k \in DOMAIN reviews[a] : r = reviews[a][k] BY <5>1 DEF ToSet
        <5>3. QED BY <2>2, <5>1, <5>2
      <4> HIDE DEF approving, f
      <4>2. QED BY <4>1
    <3>2. IsFiniteSet({f[k] : k \in 1..Len(reviews[a])})
      <4> HIDE DEF f
      <4>1. IsFiniteSet(1..Len(reviews[a])) BY <2>2, FS_Interval
      <4>2. QED BY <4>1, ImageIsFinite
    <3> HIDE DEF approving, f
    <3>3. QED BY <3>1, <3>2, FS_Subset
  <2>4. CASE \E r \in ToSet(reviews[a]) : r.reviewer = Codex /\ r.verdict = "APPROVE"
    BY <2>1, <2>4 DEF Low
  <2>5. CASE \E r, q \in ToSet(reviews[a]) :
               r.reviewer # q.reviewer /\ r.verdict = "APPROVE" /\ q.verdict = "APPROVE"
    <3>1. PICK x \in approving, y \in approving : x # y BY <2>5
    <3> HIDE DEF approving
    <3>2. {x, y} \in SUBSET approving BY <3>1
    <3>3. Cardinality({x, y}) = 2 BY <3>1, PairHasTwo
    <3>4. Cardinality({x, y}) <= Cardinality(approving) /\ Cardinality(approving) \in Nat
      BY <2>3, <3>2, FS_Subset, FS_CardinalityType
    <3>5. QED BY <2>1, <3>3, <3>4 DEF Low, approving
  <2>6. QED BY <2>1, <2>4, <2>5 DEF Earned
<1>2. QED BY <1>1, EligibilityInductive, PTL

-----------------------------------------------------------------------------
(* The council: types                                                      *)

ReviewTyped(r) == r.reviewer \in People \cup {Codex} /\ r.verdict \in Verdicts
CouncilTypesInv ==
  /\ status \in [Artifacts -> {"ABSENT", "PROPOSED", "NEEDS_REVIEW"} \cup Governance]
  /\ \A a \in Artifacts : \A r \in ToSet(reviews[a]) : ReviewTyped(r)
  /\ \A c \in Panels : /\ panel[c].stage \in {"free", "asking", "derived"}
                       /\ panel[c].stage = "derived" =>
                            ReviewTyped(panel[c].review) /\ panel[c].governance \in Governance
  /\ beside \subseteq Artifacts

LEMMA ConsensusGoverns == \A a, rs : Consensus(a, rs) \in Governance
BY DEF Consensus, Governance

(* A thread derives from a review of somebody.                             *)
LEMMA DerivesTyped ==
  ASSUME EInv, CouncilTypesInv, NEW c \in Panels, NEW a \in Artifacts, NEW r, ReviewTyped(r),
         NEW loaded, Derives(c, a, r, loaded)
  PROVE  CouncilTypesInv'
<1> DEFINE w == [stage |-> "derived", artifact |-> a, review |-> r, loaded |-> loaded,
                 governance |-> Consensus(a, Seen(a, r))]
<1>1. panel' = [panel EXCEPT ![c] = w] /\ UNCHANGED <<status, reviews>> /\ beside' \subseteq Artifacts
  BY DEF Derives, CouncilTypesInv
<1>2. w.stage = "derived" /\ w.review = r /\ w.governance \in Governance BY ConsensusGoverns
<1> HIDE DEF w
<1>3. \A d \in Panels : panel'[d] = IF d = c THEN w ELSE panel[d]
  BY <1>1 DEF EInv, SeqsInv
<1>4. \A d \in Panels : /\ panel'[d].stage \in {"free", "asking", "derived"}
                        /\ panel'[d].stage = "derived" =>
                             ReviewTyped(panel'[d].review) /\ panel'[d].governance \in Governance
  BY <1>2, <1>3 DEF CouncilTypesInv, ReviewTyped
<1>5. QED BY <1>1, <1>4 DEF CouncilTypesInv, ReviewTyped

LEMMA StoredTyped ==
  ASSUME EInv, CouncilTypesInv, NEW c \in Panels, CommitReview(c) PROVE CouncilTypesInv'
<1> DEFINE w == panel[c]
           a == w.artifact
<1>1. /\ w.stage = "derived" /\ a \in Artifacts /\ ReviewTyped(w.review)
      /\ w.governance \in Governance
      /\ reviews' = [reviews EXCEPT ![a] = Append(reviews[a], w.review)]
      /\ status' = [status EXCEPT ![a] = IF w.governance # w.loaded THEN w.governance ELSE status[a]]
      /\ panel' = [panel EXCEPT ![c] = Free] /\ beside' = beside
  BY DEF CommitReview, EInv, DerivedInv, CouncilTypesInv
<1> HIDE DEF w, a
<1>2. status' \in [Artifacts -> {"ABSENT", "PROPOSED", "NEEDS_REVIEW"} \cup Governance]
  BY <1>1 DEF CouncilTypesInv
<1>3. ASSUME NEW b \in Artifacts PROVE \A r \in ToSet(reviews'[b]) : ReviewTyped(r)
  <2>1. CASE b = a
    <3>1. reviews'[b] = Append(reviews[a], w.review) BY <1>1, <2>1 DEF EInv, SeqsInv
    <3>2. reviews[a] \in Seq(Range(reviews[a])) BY <1>1 DEF EInv, SeqsInv
    <3>3. ToSet(reviews'[b]) = ToSet(reviews[a]) \cup {w.review} BY <3>1, <3>2, AppendAdds
    <3>4. QED BY <1>1, <3>3 DEF CouncilTypesInv
  <2>2. CASE b # a
    <3>1. reviews'[b] = reviews[b] BY <1>1, <2>2 DEF EInv, SeqsInv
    <3>2. QED BY <3>1 DEF CouncilTypesInv
  <2>3. QED BY <2>1, <2>2
<1>4. \A d \in Panels : panel'[d] = Free \/ panel'[d] = panel[d]
  BY <1>1 DEF EInv, SeqsInv
<1>5. QED BY <1>1, <1>2, <1>3, <1>4 DEF CouncilTypesInv, ReviewTyped, Free

(* Every status, review and thread of the council has its type: a status   *)
(* is one the route or the consensus gives (intelligence.py).              *)
THEOREM CouncilTypeCorrect == CouncilSpec => []CouncilTypeOK
<1>1. CouncilInit => CouncilTypesInv
  <2> SUFFICES ASSUME CouncilInit PROVE CouncilTypesInv OBVIOUS
  <2>1. \A a \in Artifacts : ToSet(reviews[a]) = {} BY DEF CouncilInit, ToSet
  <2>2. QED BY <2>1 DEF CouncilInit, CouncilTypesInv, Free
<1>2. EInv /\ CouncilTypesInv /\ [CouncilNext]_councilVars => CouncilTypesInv'
  <2> SUFFICES ASSUME EInv, CouncilTypesInv, [CouncilNext]_councilVars PROVE CouncilTypesInv'
    OBVIOUS
  <2>1. ASSUME NEW a \in Artifacts, CreateArtifact(a) PROVE CouncilTypesInv'
    BY <2>1 DEF CreateArtifact, Proposed, CouncilTypesInv, ReviewTyped
  <2>2. ASSUME NEW c \in Panels, NEW a \in Artifacts, NEW v \in Verdicts, NEW p \in People,
               ReviewRoute(c, a, p, v)
        PROVE  CouncilTypesInv'
    <3>1. ReviewTyped(Review(p, v)) BY DEF ReviewTyped, Review
    <3>2. QED BY <2>2, <3>1, DerivesTyped DEF ReviewRoute
  <2>3. ASSUME NEW c \in Panels, NEW a \in Artifacts, AskCodex(c, a) PROVE CouncilTypesInv'
    <3> DEFINE w == [stage |-> "asking", artifact |-> a, loaded |-> status[a]]
    <3>1. panel' = [panel EXCEPT ![c] = w] /\ UNCHANGED <<status, reviews>>
          /\ beside' \subseteq Artifacts /\ w.stage = "asking"
      BY <2>3 DEF AskCodex, CouncilTypesInv
    <3> HIDE DEF w
    <3>2. \A d \in Panels : panel'[d] = IF d = c THEN w ELSE panel[d]
      BY <3>1 DEF EInv, SeqsInv
    <3>3. QED BY <3>1, <3>2 DEF CouncilTypesInv, ReviewTyped
  <2>4. ASSUME NEW c \in Panels, NEW v \in Verdicts, CodexAnswers(c, v) PROVE CouncilTypesInv'
    <3> DEFINE a == panel[c].artifact
    <3>1. a \in Artifacts BY <2>4 DEF CodexAnswers, EInv, DerivedInv
    <3>2. CASE Reviewed(a, Codex)
      <4>1. panel' = [panel EXCEPT ![c] = Free] /\ UNCHANGED <<status, reviews, beside>>
        BY <2>4, <3>2 DEF CodexAnswers
      <4>2. QED BY <4>1 DEF CouncilTypesInv, ReviewTyped, Free, EInv, SeqsInv
    <3>3. CASE ~ Reviewed(a, Codex)
      <4>1. Derives(c, a, Review(Codex, Cautious(a, v)), panel[c].loaded)
        BY <2>4, <3>3 DEF CodexAnswers
      <4>2. ReviewTyped(Review(Codex, Cautious(a, v)))
        BY DEF ReviewTyped, Review, Cautious, Verdicts
      <4> HIDE DEF a
      <4>3. QED BY <3>1, <4>1, <4>2, DerivesTyped
    <3>4. QED BY <3>2, <3>3
  <2>5. ASSUME NEW c \in Panels, CodexUnavailable(c) PROVE CouncilTypesInv'
    BY <2>5 DEF CodexUnavailable, CouncilTypesInv, ReviewTyped, Free, EInv, SeqsInv
  <2>6. ASSUME NEW c \in Panels, CommitReview(c) PROVE CouncilTypesInv' BY <2>6, StoredTyped
  <2>7. CASE UNCHANGED councilVars BY <2>7 DEF councilVars, CouncilTypesInv, ReviewTyped
  <2>8. QED BY <2>1, <2>2, <2>3, <2>4, <2>5, <2>6, <2>7 DEF CouncilNext
<1>3. CouncilTypesInv => CouncilTypeOK BY DEF CouncilTypesInv, ReviewTyped, CouncilTypeOK
<1>4. QED BY <1>1, <1>2, <1>3, EligibilityInductive, PTL DEF CouncilSpec

-----------------------------------------------------------------------------
(* The scan: decisions                                                     *)

RowShape(row) ==
  row = [outcome |-> row.outcome, evidence |-> row.evidence, decision |-> row.decision,
         next |-> row.next, lapsed |-> row.lapsed]

(* What the planner reads of a row that is ready.                          *)
RowCurrent(row) ==
  row.outcome # "NOT_READY" =>
    /\ row.decision = {[decision |-> row.outcome, inputs |-> d] : d \in row.evidence}
    /\ row.decision # {} /\ ~ row.lapsed

ScanInv ==
  /\ scan = [k \in ScanKeys |-> scan[k]]
  /\ \A k \in ScanKeys : RowShape(scan[k]) /\ RowCurrent(scan[k])

(* A scan leaves a row whose decision is that of its outcome and evidence: *)
(* a new one, or the one before when neither has changed.                  *)
LEMMA ScannedIsCurrent ==
  ASSUME NEW key, RowShape(scan[key]), RowCurrent(scan[key])
  PROVE  RowShape(ScannedRow(key)) /\ RowCurrent(ScannedRow(key))
<1> DEFINE row == scan[key]
           facts == Facts(key[2], history[key[2]], versions[key[1]].specification)
           outcome == Evaluate(versions[key[1]].specification, key[2].symbol, facts)
           fresh == Changed(row, facts, outcome)
<1>1. outcome # "NOT_READY" BY DEF Evaluate
<1>2. CASE Detail(history[key[2]]) # "READY"
  <2>1. ScannedRow(key) = [row EXCEPT !.outcome = "NOT_READY", !.next = 3, !.lapsed = TRUE]
    BY <1>2 DEF ScannedRow
  <2> HIDE DEF row
  <2>2. RowShape(row) BY DEF row
  <2>3. QED BY <2>1, <2>2 DEF RowShape, RowCurrent
<1>3. CASE Detail(history[key[2]]) = "READY"
  <2> DEFINE new == [decision |-> outcome, inputs |-> facts]
             kept == IF fresh THEN {new} ELSE row.decision
             gap == row.lapsed /\ ~ fresh
  <2>1. ScannedRow(key) = [outcome |-> outcome, evidence |-> {facts}, decision |-> kept,
                             next |-> IF outcome = "ENTRY" THEN 1 ELSE 2, lapsed |-> gap]
    BY <1>3 DEF ScannedRow
  <2>2. ~ fresh => row.evidence = {facts} /\ row.outcome = outcome BY DEF Changed
  <2>3. RowCurrent(row) OBVIOUS
  <2>4. gap = (row.lapsed /\ ~ fresh) OBVIOUS
  <2> HIDE DEF row, facts, outcome, fresh, gap
  <2>5. {new} = {[decision |-> outcome, inputs |-> d] : d \in {facts}} OBVIOUS
  <2>6. CASE fresh
    <3>1. kept = {new} /\ ~ gap BY <2>4, <2>6
    <3> HIDE DEF kept, new
    <3>2. QED BY <2>1, <2>5, <3>1 DEF RowShape, RowCurrent
  <2>7. CASE ~ fresh
    <3>1. /\ row.decision = {[decision |-> outcome, inputs |-> d] : d \in {facts}}
          /\ row.decision # {} /\ ~ row.lapsed
      BY <1>1, <2>2, <2>3, <2>7 DEF RowCurrent
    <3>2. kept = row.decision /\ ~ gap BY <2>4, <2>7, <3>1
    <3> HIDE DEF kept, new
    <3>3. QED BY <2>1, <3>1, <3>2 DEF RowShape, RowCurrent
  <2>8. QED BY <2>6, <2>7
<1>4. QED BY <1>2, <1>3

THEOREM ScanInductive == ScannerSpec => []ScanInv
<1>1. ScannerInit => ScanInv
  <2>1. RowShape(NeverScanned) /\ RowCurrent(NeverScanned) BY DEF NeverScanned, RowShape, RowCurrent
  <2>2. QED BY <2>1 DEF ScannerInit, ScanInv
<1>2. ScanInv /\ [ScannerNext]_scannerVars => ScanInv'
  <2> SUFFICES ASSUME ScanInv, [ScannerNext]_scannerVars PROVE ScanInv' OBVIOUS
  <2>1. CASE ScanBatch
    <3>1. PICK chosen : scan' = [k \in ScanKeys |-> IF k[1] \in Scanned /\ k[2] \in chosen[k[1]]
                                                    THEN ScannedRow(k) ELSE scan[k]]
      BY <2>1 DEF ScanBatch
    <3>2. ASSUME NEW key \in ScanKeys
          PROVE  RowShape(scan'[key]) /\ RowCurrent(scan'[key])
      <4>1. scan'[key] = ScannedRow(key) \/ scan'[key] = scan[key] BY <3>1
      <4>2. RowShape(scan[key]) /\ RowCurrent(scan[key]) BY DEF ScanInv
      <4>3. QED BY <4>1, <4>2, ScannedIsCurrent
    <3>3. scan' = [k \in ScanKeys |-> scan'[k]] BY <3>1
    <3>4. QED BY <3>2, <3>3 DEF ScanInv
  <2>2. CASE Wait
    <3>1. scan' = [k \in ScanKeys |-> [scan[k] EXCEPT !.next = IF @ > 0 THEN @ - 1 ELSE @]]
      BY <2>2 DEF Wait
    <3>2. ASSUME NEW key \in ScanKeys
          PROVE  RowShape(scan'[key]) /\ RowCurrent(scan'[key])
      <4> DEFINE row == scan[key]
                 n == IF row.next > 0 THEN row.next - 1 ELSE row.next
      <4>1. scan'[key] = [row EXCEPT !.next = n] BY <3>1
      <4>2. RowShape(row) /\ RowCurrent(row) BY DEF ScanInv
      <4> HIDE DEF row, n
      <4>3. QED BY <4>1, <4>2 DEF RowShape, RowCurrent
    <3>3. scan' = [k \in ScanKeys |-> scan'[k]] BY <3>1
    <3>4. QED BY <3>2, <3>3 DEF ScanInv
  <2>3. CASE UNCHANGED scan BY <2>3 DEF ScanInv
  <2>4. QED BY <2>1, <2>2, <2>3
    DEF ScannerNext, scannerVars, HistoryChanges, VersionCommit, VersionLoad, UpdateScenario
<1>3. QED BY <1>1, <1>2, PTL DEF ScannerSpec

(* Whatever data arrives and whatever passes between two scans, an outcome *)
(* the planner may act on stands beside the decision that was recorded for *)
(* it and for the evidence of the last scan (_scan_instrument).            *)
THEOREM DecisionsAreCurrent == ScannerSpec => []DecisionCurrent
<1>1. ScanInv => DecisionCurrent BY DEF ScanInv, RowCurrent, DecisionCurrent
<1>2. QED BY <1>1, ScanInductive, PTL

(* Types: what threads are about to insert are the specifications that the *)
(* schema admitted.                                                        *)
RowTyped(row) ==
  /\ row.next \in -1..3 /\ row.lapsed \in BOOLEAN
  /\ row.outcome \in {"NOT_READY", "EXCLUDE", "EXIT", "ENTRY", "HOLD"}
ScanTypesInv ==
  /\ history \in [Instruments -> Histories]
  /\ versions \in Seq(Range(versions))
  /\ \A id \in DOMAIN versions : versions[id].specification \in Specs
  /\ author = [c \in Authors |-> author[c]]
  /\ \A c \in Authors : author[c] = {} \/ \E row : author[c] = {row} /\ row.specification \in Specs
  /\ \A k \in ScanKeys : RowTyped(scan[k])

LEMMA ScannedIsTyped ==
  ASSUME NEW key, RowShape(scan[key]), RowTyped(scan[key]) PROVE RowTyped(ScannedRow(key))
<1> DEFINE row == scan[key]
           facts == Facts(key[2], history[key[2]], versions[key[1]].specification)
           outcome == Evaluate(versions[key[1]].specification, key[2].symbol, facts)
           fresh == Changed(row, facts, outcome)
<1>1. CASE Detail(history[key[2]]) # "READY"
  <2>1. ScannedRow(key) = [row EXCEPT !.outcome = "NOT_READY", !.next = 3, !.lapsed = TRUE]
    BY <1>1 DEF ScannedRow
  <2> HIDE DEF row
  <2>2. RowShape(row) BY DEF row
  <2>3. ScannedRow(key) = [outcome |-> "NOT_READY", evidence |-> row.evidence,
                           decision |-> row.decision, next |-> 3, lapsed |-> TRUE]
    BY <2>1, <2>2 DEF RowShape
  <2>4. QED BY <2>3 DEF RowTyped
<1>2. CASE Detail(history[key[2]]) = "READY"
  <2> DEFINE kept == IF fresh THEN {[decision |-> outcome, inputs |-> facts]} ELSE row.decision
             gap == row.lapsed /\ ~ fresh
  <2>1. ScannedRow(key) = [outcome |-> outcome, evidence |-> {facts}, decision |-> kept,
                           next |-> IF outcome = "ENTRY" THEN 1 ELSE 2, lapsed |-> gap]
    BY <1>2 DEF ScannedRow
  <2>2. outcome \in {"EXCLUDE", "EXIT", "ENTRY", "HOLD"} BY DEF Evaluate
  <2>3. gap \in BOOLEAN OBVIOUS
  <2> HIDE DEF facts, outcome, kept, gap
  <2>4. /\ ScannedRow(key).outcome = outcome /\ ScannedRow(key).lapsed = gap
        /\ ScannedRow(key).next \in {1, 2}
    BY <2>1
  <2>5. QED BY <2>2, <2>3, <2>4 DEF RowTyped
<1>3. QED BY <1>1, <1>2

LEMMA VersionsTyped ==
  ASSUME ScanTypesInv, NEW c \in Authors,
         VersionCommit(c) \/ \E s \in Scenarios, spec \in Specs : VersionLoad(c, s, spec)
  PROVE  ScanTypesInv'
<1>1. UNCHANGED <<history, scan>> BY DEF VersionCommit, VersionLoad
<1>2. CASE VersionCommit(c)
  <2>1. PICK row \in author[c] :
          /\ author' = [author EXCEPT ![c] = {}]
          /\ versions' = versions \/ versions' = Append(versions, row)
    BY <1>2 DEF VersionCommit
  <2>2. row.specification \in Specs BY DEF ScanTypesInv
  <2>3. /\ versions' \in Seq(Range(versions'))
        /\ \A id \in DOMAIN versions' : versions'[id].specification \in Specs
    <3>1. CASE versions' = versions BY <3>1 DEF ScanTypesInv
    <3>2. CASE versions' = Append(versions, row)
      <4>1. /\ Append(versions, row) \in Seq(Range(Append(versions, row)))
            /\ \A i \in DOMAIN versions : Append(versions, row)[i] = versions[i]
            /\ DOMAIN Append(versions, row) = 1..(Len(versions) + 1)
            /\ DOMAIN versions = 1..Len(versions)
            /\ Append(versions, row)[Len(versions) + 1] = row /\ Len(versions) \in Nat
        BY AppendAdds DEF ScanTypesInv
      <4>2. QED BY <2>2, <3>2, <4>1 DEF ScanTypesInv
    <3>3. QED BY <2>1, <3>1, <3>2
  <2>4. QED BY <1>1, <2>1, <2>3 DEF ScanTypesInv, ScanKeys, RowTyped
<1>3. ASSUME NEW s \in Scenarios, NEW spec \in Specs, VersionLoad(c, s, spec)
      PROVE  ScanTypesInv'
  <2> DEFINE row == VersionRow(s, Cardinality(VersionsOf(s)) + 1, spec)
  <2>1. author' = [author EXCEPT ![c] = {row}] /\ UNCHANGED versions BY <1>3 DEF VersionLoad
  <2>2. row.specification \in Specs BY DEF VersionRow
  <2> HIDE DEF row
  <2>3. \A d \in Authors : author'[d] = {} \/ \E r : author'[d] = {r} /\ r.specification \in Specs
    BY <2>1, <2>2 DEF ScanTypesInv
  <2>4. author' = [d \in Authors |-> author'[d]] BY <2>1 DEF ScanTypesInv
  <2>5. QED BY <1>1, <2>1, <2>3, <2>4 DEF ScanTypesInv, ScanKeys, RowTyped
<1>4. QED BY <1>2, <1>3

(* Every history, version and row of the scan has its type: a version has  *)
(* the rules its schema admits (schemas.py, candidate_scanner.py).         *)
THEOREM ScannerTypeCorrect == ScannerSpec => []ScannerTypeOK
<1>1. ScannerInit => ScanTypesInv
  <2> SUFFICES ASSUME ScannerInit PROVE ScanTypesInv OBVIOUS
  <2>1. versions = <<>> /\ author = [c \in Authors |-> {}] /\ scan = [k \in ScanKeys |-> NeverScanned]
        /\ history \in [Instruments -> Histories]
    BY DEF ScannerInit
  <2>2. RowTyped(NeverScanned) BY DEF RowTyped, NeverScanned
  <2>3. versions \in Seq(Range(versions)) /\ DOMAIN versions = {} BY <2>1
  <2>4. QED BY <2>1, <2>2, <2>3 DEF ScanTypesInv
<1>2. ScanInv /\ ScanTypesInv /\ [ScannerNext]_scannerVars => ScanTypesInv'
  <2> SUFFICES ASSUME ScanInv, ScanTypesInv, [ScannerNext]_scannerVars PROVE ScanTypesInv' OBVIOUS
  <2>1. ASSUME UNCHANGED <<history, versions, author>>, \A k \in ScanKeys : RowTyped(scan'[k])
        PROVE  ScanTypesInv'
    BY <2>1 DEF ScanTypesInv, ScanKeys
  <2>2. CASE ScanBatch
    <3>1. \A k \in ScanKeys : scan'[k] = ScannedRow(k) \/ scan'[k] = scan[k]
      BY <2>2 DEF ScanBatch
    <3>2. \A k \in ScanKeys : RowTyped(scan'[k])
      BY <3>1, ScannedIsTyped DEF ScanInv, ScanTypesInv
    <3>3. QED BY <2>1, <2>2, <3>2 DEF ScanBatch
  <2>3. CASE Wait
    <3>1. ASSUME NEW k \in ScanKeys PROVE RowTyped(scan'[k])
      <4> DEFINE row == scan[k]
                 n == IF row.next > 0 THEN row.next - 1 ELSE row.next
      <4>1. scan'[k] = [row EXCEPT !.next = n] BY <2>3 DEF Wait
      <4>2. RowShape(row) /\ RowTyped(row) BY DEF ScanInv, ScanTypesInv
      <4>3. n \in -1..3 BY <4>2 DEF RowTyped
      <4> HIDE DEF row, n
      <4>4. QED BY <4>1, <4>2, <4>3 DEF RowShape, RowTyped
    <3>2. QED BY <2>1, <2>3, <3>1 DEF Wait
  <2>4. ASSUME NEW i \in Instruments, HistoryChanges(i) PROVE ScanTypesInv'
    BY <2>4 DEF HistoryChanges, ScanTypesInv, ScanKeys, RowTyped
  <2>5. ASSUME NEW s \in Scenarios, NEW value, UpdateScenario(s, value) PROVE ScanTypesInv'
    BY <2>5 DEF UpdateScenario, ScanTypesInv, ScanKeys, RowTyped
  <2>6. CASE UNCHANGED scannerVars
    BY <2>6 DEF scannerVars, ScanTypesInv, ScanKeys, RowTyped
  <2>7. QED BY <2>2, <2>3, <2>4, <2>5, <2>6, VersionsTyped DEF ScannerNext
<1>3. ScanTypesInv => ScannerTypeOK
  <2> SUFFICES ASSUME ScanTypesInv PROVE ScannerTypeOK OBVIOUS
  <2>1. ASSUME NEW c \in Authors PROVE Cardinality(author[c]) <= 1
    <3>1. author[c] = {} \/ \E row : author[c] = {row} BY DEF ScanTypesInv
    <3>2. CASE author[c] = {}
      <4>1. Cardinality({}) = 0 BY FS_EmptySet
      <4>2. QED BY <3>2, <4>1
    <3>3. ASSUME NEW row, author[c] = {row} PROVE Cardinality(author[c]) <= 1
      <4>1. Cardinality({row}) = 1 BY FS_Singleton
      <4>2. QED BY <3>3, <4>1
    <3>4. QED BY <3>1, <3>2, <3>3
  <2>2. QED BY <2>1, SpecAssumption DEF ScanTypesInv, RowTyped, ScannerTypeOK
<1>4. QED BY <1>1, <1>2, <1>3, ScanInductive, PTL DEF ScannerSpec

-----------------------------------------------------------------------------
(* The paper account                                                       *)

QuoteRow(row) == row.item \in Items /\ row.item.type = "QUOTE"

(* Records are the items of providers, orders and fills are of assessments *)
(* and quotes, and the account counts whole amounts.                       *)
AccountInv ==
  /\ \A row \in records : row.item \in Items
  /\ paper = [cash |-> paper.cash, open |-> paper.open, held |-> paper.held]
  /\ paper.cash \in Int /\ paper.held \in [PaperSymbols -> Int]
  /\ IsFiniteSet(orders) /\ \A o \in orders : o.risk \in Authorized /\ QuoteRow(o.quote)
  /\ trader = [t \in Traders |-> trader[t]]
  /\ \A t \in Traders : trader[t] # Waiting =>
       /\ trader[t].risk \in Authorized /\ QuoteRow(trader[t].quote)
       /\ trader[t].seen.cash \in Int /\ trader[t].seen.held \in [PaperSymbols -> Int]

(* An execution alone writes what it would write now: the account is the   *)
(* one it loaded and checked, and no order took its assessment.            *)
AloneInv ==
  ~overlapped =>
    /\ \A t, u \in Traders : trader[t] # Waiting /\ trader[u] # Waiting => t = u
    /\ \A t \in Traders : trader[t] # Waiting =>
         /\ trader[t].seen = paper
         /\ ~Consumed(trader[t].risk) /\ Covered(trader[t].risk, trader[t].quote)

LedgerInv == AccountInv /\ AloneInv /\ SerialLedger

LEMMA AmountsAreInt ==
  ASSUME NEW a \in Authorized, NEW row, QuoteRow(row)
  PROVE  /\ Cash(a, row) \in Int /\ Shares(a) \in Int
         /\ a.qty \in Nat /\ a.side \in {"BUY", "SELL"} /\ a.symbol \in PaperSymbols
         /\ a.side = "BUY" => Shares(a) = a.qty
         /\ a.side = "SELL" => Shares(a) = -a.qty
<1> DEFINE price == row.item.payload.price
<1>1. price \in Int BY OrderAssumption DEF QuoteRow
<1>2. a.qty \in Nat /\ a.side \in {"BUY", "SELL"} BY OrderAssumption
<1> HIDE DEF price
<1>3. FillPrice(a.side, price) \in Int BY <1>1 DEF FillPrice
<1>4. FillPrice(a.side, price) * a.qty \in Int BY <1>2, <1>3
<1>5. Cash(a, row) \in Int
  <2> DEFINE notional == FillPrice(a.side, price) * a.qty
  <2>1. notional \in Int BY <1>4
  <2>2. Cash(a, row) = IF a.side = "BUY" THEN -(notional + Commission) ELSE notional - Commission
    BY DEF Cash, price
  <2> HIDE DEF notional
  <2>3. QED BY <2>1, <2>2 DEF Commission
<1>6. QED BY <1>2, <1>5 DEF Shares, PaperSymbols

(* Booking one more order adds its amount to the sum of the booked ones.   *)
LEMMA BookingAdds ==
  ASSUME NEW S, NEW e, NEW w, NEW v, IsFiniteSet(S), e \notin S, v[e] \in Int,
         \A x \in S : w[x] \in Int, \A x \in S : v[x] = w[x]
  PROVE  /\ SumFunctionOnSet(v, S \cup {e}) = SumFunctionOnSet(w, S) + v[e]
         /\ SumFunctionOnSet(v, S) = SumFunctionOnSet(w, S)
         /\ SumFunctionOnSet(w, S) \in Int
<1>1. SumFunctionOnSet(v, S \cup {e}) = SumFunctionOnSet(v, S) + v[e] BY SumAdds
<1>2. SumFunctionOnSet(v, S) = SumFunctionOnSet(w, S) BY SumEqual
<1>3. SumFunctionOnSet(w, S) \in Int BY SumIsInt
<1>4. QED BY <1>1, <1>2, <1>3

LEMMA LoadKeepsLedger ==
  ASSUME LedgerInv, NEW t \in Traders, NEW a \in Authorized, NEW row \in records,
         PaperLoad(t, a, row)
  PROVE  LedgerInv'
<1> DEFINE w == [stage |-> "fill", risk |-> a, quote |-> row, seen |-> paper]
<1>1. w # Waiting /\ w.risk = a /\ w.quote = row /\ w.seen = paper BY DEF Waiting
<1>2. /\ trader' = [trader EXCEPT ![t] = w]
      /\ overlapped' = (overlapped \/ \E u \in Traders : trader[u] # Waiting)
      /\ UNCHANGED <<records, paper, orders>>
      /\ ~Consumed(a) /\ Fits(a, row) /\ Covered(a, row)
  BY DEF PaperLoad, dataVars
<1>3. QuoteRow(row) BY <1>2 DEF Fits, QuoteRow, LedgerInv, AccountInv
<1> HIDE DEF w
<1>4. trader'[t] = w /\ \A u \in Traders \ {t} : trader'[u] = trader[u]
  BY <1>2 DEF LedgerInv, AccountInv
<1>5. AccountInv'
  <2>1. trader' = [u \in Traders |-> trader'[u]] BY <1>2 DEF LedgerInv, AccountInv
  <2>2. ASSUME NEW u \in Traders, trader'[u] # Waiting
        PROVE  /\ trader'[u].risk \in Authorized /\ QuoteRow(trader'[u].quote)
               /\ trader'[u].seen.cash \in Int /\ trader'[u].seen.held \in [PaperSymbols -> Int]
    BY <1>1, <1>3, <1>4, <2>2 DEF LedgerInv, AccountInv
  <2>3. QED BY <1>2, <2>1, <2>2 DEF LedgerInv, AccountInv, QuoteRow
<1>6. AloneInv'
  <2> SUFFICES ASSUME ~overlapped' PROVE AloneInv' BY DEF AloneInv
  <2>1. \A u \in Traders \ {t} : trader'[u] = Waiting BY <1>2, <1>4
  <2>2. ~Consumed(a)' /\ Covered(a, row)' BY <1>2 DEF Consumed, Covered
  <2>3. paper' = paper BY <1>2
  <2>4. ASSUME NEW u \in Traders, trader'[u] # Waiting
        PROVE  /\ u = t /\ trader'[u].seen = paper'
               /\ ~Consumed(trader[u].risk)' /\ Covered(trader[u].risk, trader[u].quote)'
    <3>1. u = t /\ trader'[u] = w BY <1>4, <2>1, <2>4
    <3>2. trader'[u].risk = a /\ trader'[u].quote = row /\ trader'[u].seen = paper
      BY <1>1, <3>1
    <3>3. QED BY <2>2, <2>3, <3>1, <3>2 DEF Consumed, Covered
  <2>5. QED BY <2>4 DEF AloneInv
<1>7. SerialLedger' BY <1>2 DEF LedgerInv, SerialLedger
<1>8. QED BY <1>5, <1>6, <1>7 DEF LedgerInv

(* An execution alone books the amount it checked, once.                   *)
LEMMA AloneBooks ==
  ASSUME LedgerInv, ~overlapped, NEW a \in Authorized, NEW row, QuoteRow(row),
         ~Consumed(a), Covered(a, row),
         paper' = [cash |-> paper.cash + Cash(a, row), open |-> paper.open \cup {a.symbol},
                   held |-> [paper.held EXCEPT ![a.symbol] = paper.held[a.symbol] + Shares(a)]],
         orders' = orders \cup {[risk |-> a, quote |-> row]}
  PROVE  SerialLedger'
<1> DEFINE e == [risk |-> a, quote |-> row]
           cash == [o \in orders |-> Cash(o.risk, o.quote)]
           cashNow == [o \in orders' |-> Cash(o.risk, o.quote)]
           share == [o \in orders |-> Shares(o.risk)]
           shareNow == [o \in orders' |-> Shares(o.risk)]
<1>1. e.risk = a /\ e.quote = row OBVIOUS
<1>2. e \notin orders /\ orders' = orders \cup {e} BY <1>1 DEF Consumed
<1>3. /\ Cash(a, row) \in Int /\ Shares(a) \in Int
      /\ a.qty \in Nat /\ a.side \in {"BUY", "SELL"} /\ a.symbol \in PaperSymbols
      /\ a.side = "BUY" => Shares(a) = a.qty
      /\ a.side = "SELL" => Shares(a) = -a.qty
  BY AmountsAreInt
<1>4. ASSUME NEW x \in orders
      PROVE  /\ cash[x] \in Int /\ cashNow[x] = cash[x]
             /\ share[x] \in Int /\ shareNow[x] = share[x]
  <2>1. x.risk \in Authorized /\ QuoteRow(x.quote) BY DEF LedgerInv, AccountInv
  <2>2. Cash(x.risk, x.quote) \in Int /\ Shares(x.risk) \in Int BY <2>1, AmountsAreInt
  <2>3. QED BY <1>2, <2>2
<1>5. /\ \A o \in orders : cash[o] \in Int /\ cashNow[o] = cash[o]
      /\ \A o \in orders : share[o] \in Int /\ shareNow[o] = share[o]
  BY <1>4
<1>6. cashNow[e] = Cash(a, row) /\ shareNow[e] = Shares(a) BY <1>1, <1>2
<1>7. /\ paper'.cash = paper.cash + Cash(a, row)
      /\ paper'.held = [paper.held EXCEPT ![a.symbol] = paper.held[a.symbol] + Shares(a)]
  OBVIOUS
<1>8. /\ IsFiniteSet(orders) /\ paper.cash \in Int /\ paper.held \in [PaperSymbols -> Int]
      /\ paper.cash = InitialCash + SumFunctionOnSet(cash, orders)
      /\ paper.cash >= 0 \/ \E o \in orders : o.risk.side = "SELL" /\ Cash(o.risk, o.quote) < 0
      /\ \A s \in PaperSymbols :
           /\ paper.held[s] >= 0
           /\ paper.held[s] = SumFunctionOnSet(share, {o \in orders : o.risk.symbol = s})
  BY DEF LedgerInv, AccountInv, SerialLedger
<1>9. paper'.cash = InitialCash + SumFunctionOnSet(cashNow, orders')
  <2>1. /\ SumFunctionOnSet(cashNow, orders \cup {e}) = SumFunctionOnSet(cash, orders) + Cash(a, row)
        /\ SumFunctionOnSet(cash, orders) \in Int
    <3>1. e \notin orders /\ cashNow[e] = Cash(a, row) /\ cashNow[e] \in Int /\ IsFiniteSet(orders)
      BY <1>2, <1>3, <1>6, <1>8
    <3> HIDE DEF cash, cashNow, share, shareNow, e
    <3>2. \A o \in orders : cash[o] \in Int BY <1>5
    <3>3. \A o \in orders : cashNow[o] = cash[o] BY <1>5
    <3>4. /\ SumFunctionOnSet(cashNow, orders \cup {e}) = SumFunctionOnSet(cash, orders) + cashNow[e]
          /\ SumFunctionOnSet(cash, orders) \in Int
      BY <3>1, <3>2, <3>3, BookingAdds
    <3>5. QED BY <3>1, <3>4
  <2>2. InitialCash \in Int BY OrderAssumption
  <2> HIDE DEF cash, cashNow, share, shareNow, e
  <2>3. orders' = orders \cup {e} BY <1>2
  <2>4. SumFunctionOnSet(cashNow, orders') = SumFunctionOnSet(cash, orders) + Cash(a, row)
    BY <2>1, <2>3
  <2>5. paper'.cash = paper.cash + Cash(a, row) BY <1>7
  <2>6. paper.cash = InitialCash + SumFunctionOnSet(cash, orders) BY <1>8
  <2>7. Cash(a, row) \in Int BY <1>3
  <2>8. QED BY <2>1, <2>2, <2>4, <2>5, <2>6, <2>7
<1>10. paper'.cash >= 0 \/ \E o \in orders' : o.risk.side = "SELL" /\ Cash(o.risk, o.quote) < 0
  <2>1. CASE a.side = "BUY"
    <3>1. paper.cash + Cash(a, row) >= 0 BY <2>1 DEF Covered
    <3>2. QED BY <1>7, <3>1
  <2>2. CASE a.side = "SELL" /\ Cash(a, row) < 0 BY <1>1, <1>2, <2>2
  <2>3. CASE Cash(a, row) >= 0 BY <1>2, <1>3, <1>7, <1>8, <2>3
  <2>4. QED BY <1>3, <2>1, <2>2, <2>3
<1>11. ASSUME NEW s \in PaperSymbols
       PROVE  /\ paper'.held[s] >= 0
              /\ paper'.held[s] = SumFunctionOnSet(shareNow, {o \in orders' : o.risk.symbol = s})
  <2> DEFINE S == {o \in orders : o.risk.symbol = s}
             T == {o \in orders' : o.risk.symbol = s}
  <2>1. IsFiniteSet(S) /\ S \subseteq orders /\ e \notin S
    <3>1. S \in SUBSET orders OBVIOUS
    <3>2. IsFiniteSet(S) BY <1>8, <3>1, FS_Subset
    <3>3. QED BY <1>2, <3>2
  <2>2. paper.held[s] \in Int /\ paper.held[s] >= 0 /\ paper.held[s] = SumFunctionOnSet(share, S)
    BY <1>8
  <2>3. /\ SumFunctionOnSet(shareNow, S \cup {e}) = SumFunctionOnSet(share, S) + Shares(a)
        /\ SumFunctionOnSet(shareNow, S) = SumFunctionOnSet(share, S)
    <3>1. shareNow[e] = Shares(a) /\ shareNow[e] \in Int BY <1>3, <1>6
    <3>2. \A o \in S : share[o] \in Int BY <1>5, <2>1
    <3>3. \A o \in S : shareNow[o] = share[o] BY <1>5, <2>1
    <3>4. IsFiniteSet(S) /\ e \notin S BY <2>1
    <3> HIDE DEF cash, cashNow, share, shareNow, e, S
    <3>5. /\ SumFunctionOnSet(shareNow, S \cup {e}) = SumFunctionOnSet(share, S) + shareNow[e]
          /\ SumFunctionOnSet(shareNow, S) = SumFunctionOnSet(share, S)
      BY ONLY <3>1, <3>2, <3>3, <3>4, BookingAdds
    <3>6. QED BY <3>1, <3>5
  <2>4. CASE s = a.symbol
    <3>1. T = S \cup {e} BY <1>1, <1>2, <2>4
    <3>2. paper'.held[s] = paper.held[s] + Shares(a) BY <1>7, <1>8, <2>4
    <3>3. a.side = "SELL" => paper.held[s] >= a.qty BY <2>4 DEF Covered
    <3> HIDE DEF cash, cashNow, share, shareNow, e, S
    <3>4. paper'.held[s] >= 0 BY <1>3, <2>2, <3>2, <3>3
    <3>5. SumFunctionOnSet(shareNow, T) = paper'.held[s] BY <2>2, <2>3, <3>1, <3>2
    <3>6. QED BY <3>4, <3>5
  <2>5. CASE s # a.symbol
    <3>1. T = S BY <1>1, <1>2, <2>5
    <3>2. paper'.held[s] = paper.held[s] BY <1>7, <1>8, <2>5
    <3> HIDE DEF cash, cashNow, share, shareNow, e, S
    <3>3. SumFunctionOnSet(shareNow, T) = paper'.held[s] BY <2>2, <2>3, <3>1, <3>2
    <3>4. QED BY <2>2, <3>2, <3>3
  <2>6. QED BY <2>4, <2>5
<1>12. QED BY <1>9, <1>10, <1>11 DEF SerialLedger

LEMMA CommitKeepsLedger ==
  ASSUME LedgerInv, NEW t \in Traders, PaperCommit(t) PROVE LedgerInv'
<1> DEFINE w == trader[t]
           e == [risk |-> w.risk, quote |-> w.quote]
<1>1. /\ w # Waiting /\ trader' = [trader EXCEPT ![t] = Waiting]
      /\ UNCHANGED <<records, overlapped>>
      /\ \/ Raises(w) /\ UNCHANGED <<paper, orders>>
         \/ ~Raises(w) /\ paper' = FilledAccount(w) /\ orders' = orders \cup {e}
  BY DEF PaperCommit, dataVars
<1>2. trader'[t] = Waiting /\ \A u \in Traders \ {t} : trader'[u] = trader[u]
  BY <1>1 DEF LedgerInv, AccountInv
<1>3. /\ w.risk \in Authorized /\ QuoteRow(w.quote)
      /\ w.seen.cash \in Int /\ w.seen.held \in [PaperSymbols -> Int]
  BY <1>1 DEF LedgerInv, AccountInv
<1>4. /\ Cash(w.risk, w.quote) \in Int /\ Shares(w.risk) \in Int /\ w.risk.symbol \in PaperSymbols
  BY <1>3, AmountsAreInt
<1>5. e.risk = w.risk /\ e.quote = w.quote OBVIOUS
<1>6. AccountInv'
  <2>1. trader' = [u \in Traders |-> trader'[u]] BY <1>1 DEF LedgerInv, AccountInv
  <2>2. ASSUME NEW u \in Traders, trader'[u] # Waiting
        PROVE  /\ trader'[u].risk \in Authorized /\ QuoteRow(trader'[u].quote)
               /\ trader'[u].seen.cash \in Int /\ trader'[u].seen.held \in [PaperSymbols -> Int]
    <3>1. trader'[u] = trader[u] BY <1>2, <2>2
    <3>2. QED BY <2>2, <3>1 DEF LedgerInv, AccountInv
  <2>3. CASE UNCHANGED <<paper, orders>>
    BY <1>1, <2>1, <2>2, <2>3 DEF LedgerInv, AccountInv, QuoteRow
  <2>4. CASE paper' = FilledAccount(w) /\ orders' = orders \cup {e}
    <3> HIDE DEF w, e
    <3>1. IsFiniteSet(orders') BY <2>4, FS_AddElement DEF LedgerInv, AccountInv
    <3>2. \A o \in orders' : o.risk \in Authorized /\ QuoteRow(o.quote)
      BY <1>3, <1>5, <2>4 DEF LedgerInv, AccountInv
    <3>3. /\ paper'.cash = w.seen.cash + Cash(w.risk, w.quote)
          /\ paper'.held = [paper.held EXCEPT ![w.risk.symbol]
                              = w.seen.held[w.risk.symbol] + Shares(w.risk)]
          /\ paper' = [cash |-> paper'.cash, open |-> paper'.open, held |-> paper'.held]
      BY <2>4 DEF FilledAccount
    <3>4. paper.held \in [PaperSymbols -> Int] BY DEF LedgerInv, AccountInv
    <3>5. w.seen.held[w.risk.symbol] + Shares(w.risk) \in Int BY <1>3, <1>4
    <3>6. paper'.cash \in Int /\ paper'.held \in [PaperSymbols -> Int]
      BY <1>3, <1>4, <3>3, <3>4, <3>5
    <3>7. \A row \in records' : row.item \in Items BY <1>1 DEF LedgerInv, AccountInv
    <3>8. QED BY <2>1, <2>2, <3>1, <3>2, <3>3, <3>6, <3>7 DEF AccountInv, QuoteRow
  <2>5. QED BY <1>1, <2>3, <2>4
<1>7. AloneInv'
  <2> SUFFICES ASSUME ~overlapped' PROVE AloneInv' BY DEF AloneInv
  <2>1. ASSUME NEW u \in Traders PROVE trader'[u] = Waiting
    <3>1. CASE u = t BY <1>2, <3>1
    <3>2. CASE u # t
      <4>1. trader[u] = Waiting BY <1>1, <3>2 DEF LedgerInv, AloneInv
      <4>2. QED BY <1>2, <3>2, <4>1
    <3>3. QED BY <3>1, <3>2
  <2>2. QED BY <2>1 DEF AloneInv
<1>8. SerialLedger'
  <2>1. CASE overlapped' BY <2>1 DEF SerialLedger
  <2>2. CASE ~overlapped' /\ UNCHANGED <<paper, orders>>
    BY <1>1, <2>2 DEF LedgerInv, SerialLedger
  <2>3. CASE ~overlapped' /\ paper' = FilledAccount(w) /\ orders' = orders \cup {e}
    <3>1. ~overlapped BY <1>1, <2>3
    <3>2. w.seen = paper /\ ~Consumed(w.risk) /\ Covered(w.risk, w.quote)
      BY <1>1, <3>1 DEF LedgerInv, AloneInv
    <3>3. paper' = [cash |-> paper.cash + Cash(w.risk, w.quote),
                    open |-> paper.open \cup {w.risk.symbol},
                    held |-> [paper.held EXCEPT ![w.risk.symbol]
                               = paper.held[w.risk.symbol] + Shares(w.risk)]]
      BY <2>3, <3>2 DEF FilledAccount
    <3> HIDE DEF w
    <3>4. QED BY <1>3, <2>3, <3>1, <3>2, <3>3, AloneBooks
  <2>4. QED BY <1>1, <2>1, <2>2, <2>3
<1>9. QED BY <1>6, <1>7, <1>8 DEF LedgerInv

(* Nothing else touches the account; what providers deliver are items.     *)
LEMMA DataKeepsLedger ==
  ASSUME LedgerInv, UNCHANGED <<paper, orders, trader, overlapped>>,
         \A row \in records' : row.item \in Items
  PROVE  LedgerInv'
BY DEF LedgerInv, AccountInv, AloneInv, SerialLedger, QuoteRow, Consumed, Covered

LEMMA DeliveredItems ==
  ASSUME LedgerInv, DataNext PROVE \A row \in records' : row.item \in Items
<1>1. \A row \in records : row.item \in Items BY DEF LedgerInv, AccountInv
<1>2. ASSUME NEW r \in Runners, NEW items \in SUBSET Items, RunComplete(r, items)
      PROVE  \A row \in records' : row.item \in Items
  <2>1. records' = records \cup {DataRow(running[r].provider, i) : i \in items}
    BY <1>2 DEF RunComplete
  <2>2. QED BY <1>1, <2>1 DEF DataRow
<1>3. QED BY <1>1, <1>2 DEF DataNext, RunBegin, RunError, RunLost

THEOREM LedgerInductive == PaperSpec => []LedgerInv
<1>1. PaperInit => LedgerInv
  <2> SUFFICES ASSUME PaperInit PROVE LedgerInv OBVIOUS
  <2>1. /\ records = {} /\ orders = {} /\ trader = [t \in Traders |-> Waiting]
        /\ paper = [cash |-> InitialCash, open |-> {}, held |-> [s \in PaperSymbols |-> 0]]
        /\ InitialCash \in Nat
    BY OrderAssumption DEF PaperInit, DataInit
  <2>2. paper.cash \in Int /\ paper.held \in [PaperSymbols -> Int] BY <2>1
  <2>3. IsFiniteSet(orders) BY <2>1, FS_EmptySet
  <2>4. AccountInv BY <2>1, <2>2, <2>3 DEF AccountInv
  <2>5. AloneInv BY <2>1 DEF AloneInv
  <2>6. SerialLedger
    <3>1. SumFunctionOnSet([o \in orders |-> Cash(o.risk, o.quote)], orders) = 0
      BY <2>1, SumEmpty
    <3>2. ASSUME NEW s \in PaperSymbols
          PROVE  SumFunctionOnSet([o \in orders |-> Shares(o.risk)], {o \in orders : o.risk.symbol = s}) = 0
      <4>1. {o \in orders : o.risk.symbol = s} = {} BY <2>1
      <4>2. QED BY <4>1, SumEmpty
    <3>3. \A s \in PaperSymbols : paper.held[s] = 0 BY <2>1
    <3>4. paper.cash = InitialCash BY <2>1
    <3>5. QED BY <2>1, <3>1, <3>2, <3>3, <3>4 DEF SerialLedger
  <2>7. QED BY <2>4, <2>5, <2>6 DEF LedgerInv
<1>2. LedgerInv /\ [PaperNext]_paperVars => LedgerInv'
  <2> SUFFICES ASSUME LedgerInv, [PaperNext]_paperVars PROVE LedgerInv' OBVIOUS
  <2>1. CASE DataNext /\ UNCHANGED paperOnly
    BY <2>1, DeliveredItems, DataKeepsLedger DEF paperOnly
  <2>2. CASE UNCHANGED <<records, paper, orders, trader, overlapped>>
    BY <2>2, DataKeepsLedger DEF LedgerInv, AccountInv
  <2>3. CASE QuoteAges BY <2>2, <2>3 DEF QuoteAges, dataVars
  <2>4. CASE UNCHANGED paperVars BY <2>2, <2>4 DEF paperVars, paperOnly, dataVars
  <2>5. ASSUME NEW t \in Traders, NEW a \in Authorized, NEW row \in records, PaperLoad(t, a, row)
        PROVE  LedgerInv'
    BY <2>5, LoadKeepsLedger
  <2>6. ASSUME NEW t \in Traders, PaperCommit(t) PROVE LedgerInv'
    BY <2>6, CommitKeepsLedger
  <2>7. QED BY <2>1, <2>3, <2>4, <2>5, <2>6 DEF PaperNext
<1>3. QED BY <1>1, <1>2, PTL DEF PaperSpec

(* While executions do not overlap, the paper account is its opening cash  *)
(* with every fill booked once, and no purchase overdraws it (execute in   *)
(* paper/service.py).                                                      *)
THEOREM LedgerIsBooked == PaperSpec => []SerialLedger
<1>1. LedgerInv => SerialLedger BY DEF LedgerInv
<1>2. QED BY <1>1, LedgerInductive, PTL

Fetching == {r \in Runners : running[r] # NoRun}

(* Every run that began has ended, was left by its thread or has a runner, *)
(* so the runs begun bound the runs left.                                  *)
DataTypesInv ==
  /\ \A row \in records : \E p \in Providers : \E i \in Items : row = DataRow(p, i)
  /\ running = [r \in Runners |-> running[r]]
  /\ \A r \in Fetching : running[r].provider \in Providers
  /\ provider \in [Providers -> [succeeded: BOOLEAN, error: BOOLEAN]]
  /\ IsFiniteSet(Fetching) /\ orphaned \in Nat /\ runs \in Nat
  /\ orphaned + Cardinality(Fetching) <= runs /\ runs <= MaxRuns

PaperTypesInv ==
  /\ DataTypesInv
  /\ aged \subseteq records
  /\ paper.open \subseteq PaperSymbols
  /\ \A o \in orders : o.quote \in records
  /\ \A t \in Traders : trader[t] # Waiting => trader[t].quote \in records
  /\ overlapped \in BOOLEAN

(* A run that ends leaves its runner free.                                 *)
LEMMA RunEnds ==
  ASSUME DataTypesInv, NEW r \in Runners, running[r].stage = "RUNNING",
         running' = [running EXCEPT ![r] = NoRun]
  PROVE  /\ running' = [q \in Runners |-> running'[q]]
         /\ \A q \in Fetching' : running'[q].provider \in Providers
         /\ running[r].provider \in Providers
         /\ IsFiniteSet(Fetching') /\ Cardinality(Fetching') \in Nat
         /\ orphaned + 1 + Cardinality(Fetching') <= runs
<1>1. running[r] # NoRun BY DEF NoRun
<1>2. r \in Fetching BY <1>1 DEF Fetching
<1>3. running' = [q \in Runners |-> running'[q]] BY DEF DataTypesInv
<1>4. running'[r] = NoRun /\ \A q \in Runners \ {r} : running'[q] = running[q]
  BY DEF DataTypesInv
<1>5. Fetching' = Fetching \ {r} BY <1>4 DEF Fetching
<1>6. \A q \in Fetching' : running'[q].provider \in Providers
  <2>1. \A q \in Fetching' : q \in Fetching /\ running'[q] = running[q]
    BY <1>4, <1>5 DEF Fetching
  <2>2. QED BY <2>1 DEF DataTypesInv
<1>7. IsFiniteSet(Fetching') /\ Cardinality(Fetching') = Cardinality(Fetching) - 1
  BY <1>2, <1>5, FS_RemoveElement DEF DataTypesInv
<1>8. Cardinality(Fetching') \in Nat BY <1>7, FS_CardinalityType
<1>9. Cardinality(Fetching) \in Nat BY FS_CardinalityType DEF DataTypesInv
<1>10. running[r].provider \in Providers BY <1>2 DEF DataTypesInv
<1>11. orphaned + 1 + Cardinality(Fetching') <= runs BY <1>7, <1>8, <1>9 DEF DataTypesInv
<1>12. QED BY <1>3, <1>6, <1>7, <1>8, <1>10, <1>11

LEMMA DataKeepsTypes ==
  ASSUME DataTypesInv, DataNext
  PROVE  DataTypesInv' /\ records \subseteq records'
<1>1. ASSUME NEW r \in Runners, NEW p \in Providers, RunBegin(r, p)
      PROVE  DataTypesInv' /\ records \subseteq records'
  <2> DEFINE run == [stage |-> "RUNNING", provider |-> p]
  <2>1. run # NoRun /\ run.provider \in Providers BY DEF NoRun
  <2>2. running' = [running EXCEPT ![r] = run] /\ running[r] = NoRun /\ runs < MaxRuns
        /\ runs' = runs + 1 /\ UNCHANGED <<records, provider, orphaned>>
    BY <1>1 DEF RunBegin
  <2> HIDE DEF run
  <2>3. running' = [q \in Runners |-> running'[q]] /\ running'[r] = run
        /\ \A q \in Runners \ {r} : running'[q] = running[q]
    BY <2>2 DEF DataTypesInv
  <2>4. Fetching' = Fetching \cup {r} /\ r \notin Fetching BY <2>1, <2>2, <2>3 DEF Fetching
  <2>5. IsFiniteSet(Fetching') /\ Cardinality(Fetching') = Cardinality(Fetching) + 1
    BY <2>4, FS_AddElement DEF DataTypesInv
  <2>6. Cardinality(Fetching) \in Nat BY FS_CardinalityType DEF DataTypesInv
  <2>7. orphaned' + Cardinality(Fetching') <= runs' /\ runs' \in Nat /\ runs' <= MaxRuns
    BY <2>2, <2>5, <2>6, DataAssumption DEF DataTypesInv
  <2>8. ASSUME NEW q \in Fetching' PROVE running'[q].provider \in Providers
    <3>1. CASE q = r BY <2>1, <2>3, <3>1
    <3>2. CASE q # r BY <2>3, <2>4, <3>2 DEF DataTypesInv, Fetching
    <3>3. QED BY <3>1, <3>2
  <2>9. QED BY <2>2, <2>3, <2>5, <2>7, <2>8 DEF DataTypesInv
<1>2. ASSUME NEW r \in Runners, NEW items \in SUBSET Items, RunComplete(r, items)
      PROVE  DataTypesInv' /\ records \subseteq records'
  <2> DEFINE p == running[r].provider
  <2>1. /\ running[r].stage = "RUNNING" /\ running' = [running EXCEPT ![r] = NoRun]
        /\ records' = records \cup {DataRow(p, i) : i \in items}
        /\ provider' = [provider EXCEPT ![p] = [succeeded |-> TRUE, error |-> FALSE]]
        /\ UNCHANGED <<orphaned, runs>>
    BY <1>2 DEF RunComplete
  <2>2. p \in Providers BY <2>1, RunEnds
  <2> HIDE DEF p
  <2>3. \A row \in records' : \E pr \in Providers : \E i \in Items : row = DataRow(pr, i)
    BY <2>1, <2>2 DEF DataTypesInv
  <2>4. provider' \in [Providers -> [succeeded: BOOLEAN, error: BOOLEAN]]
    BY <2>1 DEF DataTypesInv
  <2>5. /\ running' = [q \in Runners |-> running'[q]]
        /\ \A q \in Fetching' : running'[q].provider \in Providers
        /\ IsFiniteSet(Fetching') /\ orphaned' + Cardinality(Fetching') <= runs'
    BY <2>1, RunEnds DEF DataTypesInv
  <2>6. QED BY <2>1, <2>3, <2>4, <2>5 DEF DataTypesInv
<1>3. ASSUME NEW r \in Runners, RunError(r) PROVE DataTypesInv' /\ records \subseteq records'
  <2> DEFINE p == running[r].provider
  <2>1. /\ running[r].stage = "RUNNING" /\ running' = [running EXCEPT ![r] = NoRun]
        /\ provider' = [provider EXCEPT ![p] = [provider[p] EXCEPT !.error = TRUE]]
        /\ UNCHANGED <<records, orphaned, runs>>
    BY <1>3 DEF RunError
  <2>2. p \in Providers BY <2>1, RunEnds
  <2> HIDE DEF p
  <2>3. provider' \in [Providers -> [succeeded: BOOLEAN, error: BOOLEAN]]
    <3>1. [provider[p] EXCEPT !.error = TRUE] \in [succeeded: BOOLEAN, error: BOOLEAN]
      BY <2>2 DEF DataTypesInv
    <3>2. QED BY <2>1, <3>1 DEF DataTypesInv
  <2>4. /\ running' = [q \in Runners |-> running'[q]]
        /\ \A q \in Fetching' : running'[q].provider \in Providers
        /\ IsFiniteSet(Fetching') /\ orphaned' + Cardinality(Fetching') <= runs'
    BY <2>1, RunEnds DEF DataTypesInv
  <2>5. QED BY <2>1, <2>3, <2>4 DEF DataTypesInv
<1>4. ASSUME NEW r \in Runners, RunLost(r) PROVE DataTypesInv' /\ records \subseteq records'
  <2>1. /\ running[r].stage = "RUNNING" /\ running' = [running EXCEPT ![r] = NoRun]
        /\ orphaned' = orphaned + 1 /\ UNCHANGED <<records, provider, runs>>
    BY <1>4 DEF RunLost
  <2>2. /\ running' = [q \in Runners |-> running'[q]]
        /\ \A q \in Fetching' : running'[q].provider \in Providers
        /\ IsFiniteSet(Fetching') /\ orphaned + 1 + Cardinality(Fetching') <= runs
    BY <2>1, RunEnds
  <2>3. QED BY <2>1, <2>2 DEF DataTypesInv
<1>5. QED BY <1>1, <1>2, <1>3, <1>4 DEF DataNext

LEMMA FillKeepsTypes ==
  ASSUME LedgerInv, PaperTypesInv, NEW t \in Traders, PaperCommit(t)
  PROVE  PaperTypesInv'
<1> DEFINE w == trader[t]
<1>1. /\ w # Waiting /\ trader' = [trader EXCEPT ![t] = Waiting]
      /\ UNCHANGED <<records, running, provider, orphaned, runs, aged, overlapped>>
      /\ \/ UNCHANGED <<paper, orders>>
         \/ paper' = FilledAccount(w) /\ orders' = orders \cup {[risk |-> w.risk, quote |-> w.quote]}
  BY DEF PaperCommit, dataVars
<1>2. w.risk \in Authorized /\ w.quote \in records
  BY <1>1 DEF LedgerInv, AccountInv, PaperTypesInv
<1> HIDE DEF w
<1>3. DataTypesInv' BY <1>1 DEF PaperTypesInv, DataTypesInv, Fetching
<1>4. paper'.open \subseteq PaperSymbols
  <2>1. w.risk.symbol \in PaperSymbols BY <1>2 DEF PaperSymbols
  <2>2. FilledAccount(w).open = paper.open \cup {w.risk.symbol} BY DEF FilledAccount
  <2>3. QED BY <1>1, <2>1, <2>2 DEF PaperTypesInv
<1>5. \A u \in Traders : trader'[u] # Waiting => trader'[u].quote \in records'
  BY <1>1 DEF LedgerInv, AccountInv, PaperTypesInv
<1>6. \A o \in orders' : o.quote \in records' BY <1>1, <1>2 DEF PaperTypesInv
<1>7. QED BY <1>1, <1>3, <1>4, <1>5, <1>6 DEF PaperTypesInv

(* Every record is a provider's item, every order an authorized assessment *)
(* and a stored quote, and the runs left RUNNING are runs that began       *)
(* (data/service.py, paper/service.py).                                    *)
THEOREM PaperTypeCorrect == PaperSpec => []PaperTypeOK
<1>1. PaperInit => PaperTypesInv
  <2> SUFFICES ASSUME PaperInit PROVE PaperTypesInv OBVIOUS
  <2>1. DataInit /\ aged = {} /\ orders = {} /\ overlapped = FALSE
        /\ paper.open = {} /\ trader = [t \in Traders |-> Waiting]
    BY DEF PaperInit
  <2>2. Fetching = {} BY <2>1 DEF DataInit, Fetching
  <2>3. IsFiniteSet(Fetching) /\ Cardinality(Fetching) = 0 BY <2>2, FS_EmptySet
  <2>4. DataTypesInv
    <3>1. MaxRuns \in Nat BY DataAssumption
    <3>2. provider \in [Providers -> [succeeded: BOOLEAN, error: BOOLEAN]]
      BY <2>1 DEF DataInit
    <3>3. QED BY <2>1, <2>2, <2>3, <3>1, <3>2 DEF DataInit, DataTypesInv
  <2>5. QED BY <2>1, <2>4 DEF PaperTypesInv
<1>2. LedgerInv /\ PaperTypesInv /\ [PaperNext]_paperVars => PaperTypesInv'
  <2> SUFFICES ASSUME LedgerInv, PaperTypesInv, [PaperNext]_paperVars PROVE PaperTypesInv' OBVIOUS
  <2>1. CASE DataNext /\ UNCHANGED paperOnly
    <3>1. DataTypesInv' /\ records \subseteq records'
      BY <2>1, DataKeepsTypes DEF PaperTypesInv
    <3>2. QED BY <2>1, <3>1 DEF PaperTypesInv, paperOnly, PaperSymbols
  <2>2. CASE QuoteAges
    BY <2>2 DEF QuoteAges, dataVars, PaperTypesInv, DataTypesInv, Fetching
  <2>3. ASSUME NEW t \in Traders, NEW a \in Authorized, NEW row \in records, PaperLoad(t, a, row)
        PROVE  PaperTypesInv'
    <3> DEFINE w == [stage |-> "fill", risk |-> a, quote |-> row, seen |-> paper]
    <3>1. w.quote = row OBVIOUS
    <3>2. /\ trader' = [trader EXCEPT ![t] = w]
          /\ overlapped' = (overlapped \/ \E u \in Traders : trader[u] # Waiting)
          /\ UNCHANGED <<records, running, provider, orphaned, runs, aged, paper, orders>>
      BY <2>3 DEF PaperLoad, dataVars
    <3> HIDE DEF w
    <3>3. \A u \in Traders : trader'[u] # Waiting => trader'[u].quote \in records
      BY <3>1, <3>2 DEF LedgerInv, AccountInv, PaperTypesInv
    <3>4. overlapped' \in BOOLEAN BY <3>2 DEF PaperTypesInv
    <3>5. QED BY <3>2, <3>3, <3>4 DEF PaperTypesInv, DataTypesInv, Fetching
  <2>4. ASSUME NEW t \in Traders, PaperCommit(t) PROVE PaperTypesInv'
    BY <2>4, FillKeepsTypes
  <2>5. CASE UNCHANGED paperVars
    BY <2>5 DEF paperVars, paperOnly, dataVars, PaperTypesInv, DataTypesInv, Fetching
  <2>6. QED BY <2>1, <2>2, <2>3, <2>4, <2>5 DEF PaperNext
<1>3. LedgerInv /\ PaperTypesInv => PaperTypeOK
  <2> SUFFICES ASSUME LedgerInv, PaperTypesInv PROVE PaperTypeOK OBVIOUS
  <2>1. DataTypeOK
    <3>1. Cardinality(Fetching) \in Nat BY FS_CardinalityType DEF PaperTypesInv, DataTypesInv
    <3>2. orphaned \in 0..MaxRuns /\ runs \in 0..MaxRuns
      BY <3>1, DataAssumption DEF PaperTypesInv, DataTypesInv
    <3>3. \A r \in Runners : running[r] = NoRun \/ running[r].provider \in Providers
      BY DEF PaperTypesInv, DataTypesInv, Fetching
    <3>4. \A row \in records : row \in {DataRow(p, i) : p \in Providers, i \in Items}
      BY DEF PaperTypesInv, DataTypesInv
    <3>5. QED BY <3>2, <3>3, <3>4 DEF PaperTypesInv, DataTypesInv, DataTypeOK
  <2>2. QED BY <2>1 DEF LedgerInv, AccountInv, PaperTypesInv, PaperTypeOK
<1>4. QED BY <1>1, <1>2, <1>3, LedgerInductive, PTL DEF PaperSpec
=============================================================================
