------------------------ MODULE CapitalPlanningProofs ------------------------
(***************************************************************************)
(* What capital plans may claim and what they say of themselves, for any   *)
(* number of decisions, plans and API threads and any buying power.        *)
(*                                                                         *)
(* ReadyIsAssessed is not inductive: a commit writes the status when it    *)
(* differs from the loaded one and the assessment when that differs, each  *)
(* on its own.  What saves it is that an assessment, once on a row, is     *)
(* replaced but never removed, and that rows are never inserted again.     *)
(*                                                                         *)
(* Neither is OverbookingBounded: a thread commits what it loaded, and a   *)
(* revived plan reserves again.  So capital is claimed from the moment a   *)
(* thread holds the plan it may commit.  A thread holds one plan, which    *)
(* claims at most a whole buying power; active plans and the planner's     *)
(* share are compared with the buying power whenever the planner loads.    *)
(* The claims are sums over sets of any size: their laws are FiniteSums'.  *)
(***************************************************************************)
EXTENDS CapitalPlanning, FiniteSums

(* A commit leaves a sound row sound, with a status, and with an            *)
(* assessment if it had one.                                                *)
LEMMA WrittenIsSound ==
  ASSUME NEW p \in Plans, NEW seen, NEW new,
         Sound(p, row[p]), Relies(p, seen), Sound(p, new), new.status # "NONE",
         seen.final # None => new.final # None
  PROVE  LET r == Written(row[p], seen, new)
         IN Sound(p, r) /\ r.status # "NONE" /\ (row[p].final # None => r.final # None)
BY DEF Sound, Relies, Written, Row, PlanStatus, ActivePlan

(* Rows are never taken back, nor an assessment removed from one. *)
Forward ==
  \A p \in Plans :
    /\ row[p].status # "NONE" => row'[p].status # "NONE"
    /\ row[p].final # None => row'[p].final # None

(* What a thread relies on survives the steps of the others. *)
LEMMA ReliesKept ==
  ASSUME Forward, NEW p, NEW seen, Relies(p, seen)
  PROVE  Relies(p, seen)'
BY DEF Forward, Relies, Sound

LEMMA RequestKept ==
  ASSUME Forward, NEW h \in Handlers, RequestInv(h), req'[h] = req[h]
  PROVE  RequestInv(h)'
<1>1. req[h].op = "update" /\ Relies(req[h].plan, req[h].seen)
        => Relies(req[h].plan, req[h].seen)'
  BY ReliesKept
<1> QED
  BY <1>1 DEF RequestInv, Relies, Sound

LEMMA LatestKept ==
  ASSUME Forward, LatestInv, latest' = latest
  PROVE  LatestInv'
BY DEF Forward, LatestInv

(* A handler's load changes only what the handler holds. *)
LEMMA HandlerLoads ==
  ASSUME CInv, NEW h \in Handlers, NEW op, NEW p, NEW new, Starts(h, op, p, new),
         RequestInv(h)'
  PROVE  CInv'
<1>1. row' = row /\ latest' = latest /\ fresh' = fresh /\ bought' = bought /\ worker' = worker
  BY DEF Starts, planned, clocks, execution
<1>2. DOMAIN req' = Handlers /\ \A g \in Handlers \ {h} : req'[g] = req[g]
  BY DEF CInv, Starts
<1>3. Forward
  BY <1>1 DEF Forward
<1>4. \A g \in Handlers : RequestInv(g)'
  BY <1>2, <1>3, RequestKept DEF CInv
<1> QED
  BY <1>1, <1>2, <1>4 DEF CInv, RowsInv, LatestInv, WorkerInv, Relies, Sound

(* The worker's load does the same for the worker. *)
LEMMA WorkerLoadsKeeps ==
  ASSUME CInv, NEW from, NEW to, NEW S \in SUBSET Plans, NEW lapsing, NEW registering,
         WorkerLoads(from, to, S, lapsing, registering),
         \A p \in S : row[p].status # "NONE"
  PROVE  CInv'
<1>1. row' = row /\ latest' = latest /\ fresh' = fresh /\ bought' = bought /\ req' = req
  BY DEF WorkerLoads, planned, clocks, execution
<1>2. worker'.seen = [p \in S |-> row[p]] /\ worker'.new = {}
  BY DEF WorkerLoads, AtTurn
<1>3. WorkerInv'
  BY <1>1, <1>2 DEF CInv, RowsInv, WorkerInv, Relies
<1>4. \A h \in Handlers : RequestInv(h)'
  BY <1>1 DEF CInv, RequestInv, Relies, Sound
<1> QED
  BY <1>1, <1>3, <1>4 DEF CInv, RowsInv, LatestInv, Sound

(* A worker's commit of new rows that keep the loaded assessments. *)
LEMMA WorkerCommits ==
  ASSUME CInv, NEW to, NEW new,
         \A p \in DOMAIN worker.seen :
           Sound(p, new[p]) /\ new[p].status # "NONE" /\ new[p].final = worker.seen[p].final,
         row' = [p \in Plans |-> IF p \in DOMAIN worker.seen
                                 THEN Written(row[p], worker.seen[p], new[p]) ELSE row[p]],
         worker' = AtTurn(to), UNCHANGED <<latest, fresh, bought, req>>
  PROVE  CInv'
<1>1. ASSUME NEW p \in Plans
      PROVE  /\ Sound(p, row'[p])
             /\ row[p].status # "NONE" => row'[p].status # "NONE"
             /\ row[p].final # None => row'[p].final # None
  <2>1. CASE p \in DOMAIN worker.seen
    BY <2>1, WrittenIsSound DEF CInv, RowsInv, WorkerInv
  <2>2. CASE p \notin DOMAIN worker.seen
    BY <2>2 DEF CInv, RowsInv
  <2> QED
    BY <2>1, <2>2
<1>2. Forward
  BY <1>1 DEF Forward
<1>3. RowsInv'
  BY <1>1 DEF RowsInv, Sound
<1>4. WorkerInv'
  BY DEF WorkerInv, AtTurn, NothingSeen
<1>5. LatestInv'
  BY <1>2, LatestKept DEF CInv
<1>6. \A h \in Handlers : RequestInv(h)'
  BY <1>2, RequestKept DEF CInv
<1> QED
  BY <1>3, <1>4, <1>5, <1>6 DEF CInv

LEMMA RejectCommitKeeps == CInv /\ RejectCommit => CInv'
<1> SUFFICES ASSUME CInv, RejectCommit PROVE CInv'
  OBVIOUS
<1> DEFINE new == [p \in DOMAIN worker.seen |-> Cancelled(worker.seen[p])]
<1>1. \A p \in DOMAIN worker.seen :
        Sound(p, new[p]) /\ new[p].status # "NONE" /\ new[p].final = worker.seen[p].final
  BY DEF CInv, WorkerInv, Relies, Sound, Cancelled, Row, PlanStatus, ActivePlan
<1>2. /\ row' = [p \in Plans |-> IF p \in DOMAIN worker.seen
                               THEN Written(row[p], worker.seen[p], new[p]) ELSE row[p]]
      /\ worker' = AtTurn("EXPIRE") /\ UNCHANGED <<latest, fresh, bought, req>>
  BY DEF RejectCommit, WorkerWrites, clocks
<1> HIDE DEF new
<1> QED
  BY <1>1, <1>2, WorkerCommits

LEMMA ExpireCommitKeeps == CInv /\ ExpireCommit => CInv'
<1> SUFFICES ASSUME CInv, ExpireCommit PROVE CInv'
  OBVIOUS
<1> DEFINE new == [p \in DOMAIN worker.seen |-> Expired(worker.seen[p])]
<1>1. \A p \in DOMAIN worker.seen :
        Sound(p, new[p]) /\ new[p].status # "NONE" /\ new[p].final = worker.seen[p].final
  BY DEF CInv, WorkerInv, Relies, Sound, Expired, Row, PlanStatus, ActivePlan
<1>2. /\ row' = [p \in Plans |-> IF p \in DOMAIN worker.seen
                               THEN Written(row[p], worker.seen[p], new[p]) ELSE row[p]]
      /\ worker' = AtTurn("CAPTURE") /\ UNCHANGED <<latest, fresh, bought, req>>
  BY DEF ExpireCommit, WorkerWrites, clocks
<1> HIDE DEF new
<1> QED
  BY <1>1, <1>2, WorkerCommits

LEMMA CaptureCommitKeeps == CInv /\ CaptureCommit => CInv'
<1> SUFFICES ASSUME CInv, CaptureCommit PROVE CInv'
  OBVIOUS
<1> DEFINE new == [p \in DOMAIN worker.seen |-> Filled(worker.seen[p])]
<1>1. \A p \in DOMAIN worker.seen :
        Sound(p, new[p]) /\ new[p].status # "NONE" /\ new[p].final = worker.seen[p].final
  BY DEF CInv, WorkerInv, Relies, Sound, Filled, Row, PlanStatus, ActivePlan
<1>2. /\ row' = [p \in Plans |-> IF p \in DOMAIN worker.seen
                               THEN Written(row[p], worker.seen[p], new[p]) ELSE row[p]]
      /\ worker' = AtTurn("PLAN") /\ UNCHANGED <<latest, fresh, bought, req>>
  BY DEF CaptureCommit, WorkerWrites, clocks
<1> HIDE DEF new
<1> QED
  BY <1>1, <1>2, WorkerCommits

(* Handlers: loads. *)
LEMMA CreateLoadKeeps ==
  ASSUME CInv, NEW h \in Handlers, NEW p \in Plans, CreateLoad(h, p)
  PROVE  CInv'
<1>1. Starts(h, "create", p, NewRow(p)) /\ p.why # Planner
  BY DEF CreateLoad
<1>2. req'[h] = [op |-> "create", plan |-> p, seen |-> row[p], new |-> NewRow(p)]
  BY <1>1 DEF Starts, CInv
<1>3. RequestInv(h)'
  BY <1>1, <1>2 DEF RequestInv, NewRow
<1> QED
  BY <1>1, <1>3, HandlerLoads

(* A request to update a row with status may be started with any sound      *)
(* new values that keep the assessment.                                     *)
LEMMA UpdateStarts ==
  ASSUME CInv, NEW h \in Handlers, NEW p \in Plans, NEW new,
         Starts(h, "update", p, new), row[p].status # "NONE",
         Sound(p, new), new.status # "NONE", row[p].final # None => new.final # None
  PROVE  CInv'
<1>1. req'[h] = [op |-> "update", plan |-> p, seen |-> row[p], new |-> new] /\ row' = row
  BY DEF Starts, CInv, planned
<1>2. RequestInv(h)'
  BY <1>1 DEF RequestInv, Relies, Sound, CInv, RowsInv
<1> QED
  BY <1>2, HandlerLoads

LEMMA CancelLoadKeeps ==
  ASSUME CInv, NEW h \in Handlers, NEW p \in Plans, CancelLoad(h, p)
  PROVE  CInv'
<1>1. Starts(h, "update", p, Cancelled(row[p])) /\ row[p].status # "NONE"
  BY DEF CancelLoad, IsActive, ActivePlan
<1>2. Sound(p, Cancelled(row[p])) /\ Cancelled(row[p]).status # "NONE"
        /\ Cancelled(row[p]).final = row[p].final
  BY DEF CInv, RowsInv, Sound, Cancelled, Row, PlanStatus, ActivePlan
<1> QED
  BY <1>1, <1>2, UpdateStarts

LEMMA RevalidateLoadKeeps ==
  ASSUME CInv, NEW h \in Handlers, NEW p \in Plans, NEW a \in Assessments \cup {None},
         RevalidateLoad(h, p, a)
  PROVE  CInv'
<1> DEFINE new == Revalidated(p, a)
<1>1. Starts(h, "update", p, new) /\ row[p].status # "NONE"
  BY DEF RevalidateLoad
<1>2. row[p] \in Row /\ Sound(p, row[p]) /\ fresh \subseteq Assessments
  BY DEF CInv, RowsInv
<1>3. \/ new = Expired(row[p]) \/ new = Blocked(row[p])
      \/ new = Ready(row[p], a) /\ a \in fresh /\ AssessedFor[a] = p.dec
  BY DEF Revalidated
<1>4. Sound(p, new) /\ new.status # "NONE" /\ (row[p].final # None => new.final # None)
  <2> HIDE DEF new
  <2>1. CASE new = Expired(row[p])
    BY <1>2, <2>1 DEF Sound, Expired, Row, PlanStatus, ActivePlan
  <2>2. CASE new = Blocked(row[p])
    BY <1>2, <2>2 DEF Sound, Blocked, Row, PlanStatus, ActivePlan
  <2>3. CASE new = Ready(row[p], a) /\ a \in fresh /\ AssessedFor[a] = p.dec
    BY <1>2, <2>3, AssessmentAssumption DEF Sound, Ready, Row, PlanStatus, ActivePlan
  <2> QED
    BY <1>3, <2>1, <2>2, <2>3
<1> HIDE DEF new
<1> QED
  BY <1>1, <1>4, UpdateStarts

(* Handlers: commits. *)
LEMMA HandlerDone ==
  ASSUME CInv, NEW h \in Handlers, req' = [req EXCEPT ![h] = Idle], Forward,
         RowsInv', LatestInv', WorkerInv', UNCHANGED <<fresh, bought>>
  PROVE  CInv'
<1>1. DOMAIN req' = Handlers /\ req'[h] = Idle /\ \A g \in Handlers \ {h} : req'[g] = req[g]
  BY DEF CInv
<1>2. \A g \in Handlers : RequestInv(g)'
  BY <1>1, RequestKept DEF CInv, RequestInv
<1> QED
  BY <1>1, <1>2 DEF CInv

(* What the worker holds survives a handler's commit, if the row it writes *)
(* is none of those the planner is about to insert.                        *)
LEMMA WorkerKept ==
  ASSUME WorkerInv, Forward, worker' = worker,
         \A p \in worker.new : row'[p] = row[p]
  PROVE  WorkerInv'
<1>1. \A p \in DOMAIN worker.seen : Relies(p, worker.seen[p])'
  BY ReliesKept DEF WorkerInv
<1> QED
  BY <1>1 DEF WorkerInv, Relies, Sound

LEMMA InsertCommitKeeps ==
  ASSUME CInv, NEW h \in Handlers, InsertCommit(h)
  PROVE  CInv'
<1> DEFINE p == req[h].plan
<1>1. p \in Plans /\ p.why # Planner /\ req[h].new = NewRow(p)
  BY DEF CInv, RequestInv, InsertCommit, Idle
<1>2. Sound(p, NewRow(p))
  BY <1>1 DEF Sound, NewRow, Row, PlanStatus, ActivePlan, Amounts
<1>3. CASE row[p].status = "NONE"
  <2>1. row' = [row EXCEPT ![p] = NewRow(p)] /\ latest' = [latest EXCEPT ![p.dec] = p]
    BY <1>1, <1>3 DEF InsertCommit
  <2>2. row'[p] = NewRow(p) /\ \A q \in Plans \ {p} : row'[q] = row[q]
    BY <1>1, <2>1 DEF CInv, RowsInv
  <2>3. Forward
    BY <1>3, <2>2 DEF Forward, CInv, RowsInv, Sound, NewRow
  <2>4. RowsInv'
    BY <1>1, <1>2, <2>1, <2>2 DEF CInv, RowsInv, Sound
  <2>5. LatestInv'
    <3>1. p.dec \in Decisions
      BY <1>1, AmountAssumption
    <3>2. latest' \in [Decisions -> Plans \cup {None}]
      BY <1>1, <2>1, <3>1 DEF CInv, LatestInv
    <3>3. ASSUME NEW d \in Decisions, latest'[d] # None PROVE row'[latest'[d]].status # "NONE"
      <4>1. CASE d = p.dec
        BY <2>1, <2>2, <3>1, <4>1 DEF CInv, LatestInv, NewRow
      <4>2. CASE d # p.dec
        BY <2>1, <2>3, <3>1, <3>3, <4>2 DEF CInv, LatestInv, Forward
      <4> QED
        BY <4>1, <4>2
    <3> QED
      BY <3>2, <3>3 DEF LatestInv
  <2>6. WorkerInv'
    <3>1. \A q \in worker.new : row'[q] = row[q]
      BY <1>1, <2>2 DEF CInv, WorkerInv
    <3> QED
      BY <2>3, <3>1, WorkerKept DEF CInv, InsertCommit
  <2> QED
    BY <2>3, <2>4, <2>5, <2>6, HandlerDone DEF InsertCommit, clocks, execution
<1>4. CASE row[p].status # "NONE"
  <2>1. row' = row /\ latest' = latest /\ worker' = worker
    BY <1>4 DEF InsertCommit, planned
  <2>2. RowsInv' /\ LatestInv' /\ WorkerInv' /\ Forward
    BY <2>1 DEF CInv, RowsInv, LatestInv, WorkerInv, Relies, Sound, Forward
  <2> QED
    BY <2>2, HandlerDone DEF InsertCommit, clocks, execution
<1> QED
  BY <1>3, <1>4

LEMMA UpdateCommitKeeps ==
  ASSUME CInv, NEW h \in Handlers, UpdateCommit(h)
  PROVE  CInv'
<1> DEFINE p == req[h].plan
           r == Written(row[p], req[h].seen, req[h].new)
<1>1. /\ Relies(p, req[h].seen) /\ Sound(p, req[h].new) /\ req[h].new.status # "NONE"
      /\ req[h].seen.final # None => req[h].new.final # None
  BY DEF CInv, RequestInv, UpdateCommit, Idle
<1>2. p \in Plans /\ Sound(p, row[p]) /\ row[p].status # "NONE"
  BY <1>1 DEF Relies, CInv, RowsInv
<1>3. Sound(p, r) /\ r.status # "NONE" /\ (row[p].final # None => r.final # None)
  BY <1>1, <1>2, WrittenIsSound
<1>4. row' = [row EXCEPT ![p] = r] /\ latest' = latest /\ worker' = worker /\ fresh' = fresh
      /\ bought' = bought /\ req' = [req EXCEPT ![h] = Idle]
  BY DEF UpdateCommit, clocks, execution
<1> HIDE DEF r
<1>5. row'[p] = r /\ \A q \in Plans \ {p} : row'[q] = row[q]
  BY <1>2, <1>4 DEF CInv, RowsInv
<1>6. Forward
  BY <1>3, <1>5 DEF Forward
<1>7. RowsInv'
  BY <1>2, <1>3, <1>4, <1>5 DEF CInv, RowsInv, Sound
<1>8. WorkerInv'
  <2>1. \A q \in worker.new : row'[q] = row[q]
    BY <1>2, <1>5 DEF CInv, WorkerInv
  <2> QED
    BY <1>4, <1>6, <2>1, WorkerKept DEF CInv
<1>9. LatestInv'
  BY <1>4, <1>6, LatestKept DEF CInv
<1> QED
  BY <1>4, <1>6, <1>7, <1>8, <1>9, HandlerDone

LEMMA HandlerDiesKeeps ==
  ASSUME CInv, NEW h \in Handlers, HandlerDies(h)
  PROVE  CInv'
<1>1. row' = row /\ latest' = latest /\ worker' = worker /\ fresh' = fresh
      /\ bought' = bought
  BY DEF HandlerDies, planned, clocks, execution
<1>2. RowsInv' /\ LatestInv' /\ WorkerInv' /\ Forward
  BY <1>1 DEF CInv, RowsInv, LatestInv, WorkerInv, Relies, Sound, Forward
<1> QED
  BY <1>1, <1>2, HandlerDone DEF HandlerDies

(* The worker's loads. *)
LEMMA LoadsKeep == CInv /\ (RejectLoad \/ ExpireLoad \/ CaptureLoad) => CInv'
<1> SUFFICES ASSUME CInv, RejectLoad \/ ExpireLoad \/ CaptureLoad PROVE CInv'
  OBVIOUS
<1>1. CASE RejectLoad
  BY <1>1, WorkerLoadsKeeps DEF RejectLoad, IsActive, ActivePlan
<1>2. CASE ExpireLoad
  BY <1>2, WorkerLoadsKeeps DEF ExpireLoad, ExpirablePlans, IsActive, ActivePlan
<1>3. CASE CaptureLoad
  <2> DEFINE S == {latest[AssessedFor[a]] : a \in bought \ position} \ {None}
  <2>1. S \subseteq Plans /\ \A p \in S : row[p].status # "NONE"
    BY AssessmentAssumption DEF CInv, LatestInv
  <2> HIDE DEF S
  <2> QED
    BY <1>3, <2>1, WorkerLoadsKeeps DEF CaptureLoad, S
<1> QED
  BY <1>1, <1>2, <1>3

(* The planner. *)
LEMMA PlannerKeeps ==
  ASSUME CInv, PlannerStays, worker'.seen = NothingSeen \/ worker'.seen = worker.seen,
         \A p \in worker'.new : p \in Plans /\ p.why = Planner /\ row[p].status = "NONE"
  PROVE  CInv'
<1>1. row' = row /\ latest' = latest /\ fresh' = fresh /\ bought' = bought /\ req' = req
  BY DEF PlannerStays, planned, clocks, execution
<1>2. WorkerInv'
  BY <1>1 DEF CInv, WorkerInv, NothingSeen, Relies, Sound
<1>3. \A h \in Handlers : RequestInv(h)'
  BY <1>1 DEF CInv, RequestInv, Relies, Sound
<1> QED
  BY <1>1, <1>2, <1>3 DEF CInv, RowsInv, LatestInv, Sound

LEMMA PlanKeeps == CInv /\ Plan => CInv'
<1> SUFFICES ASSUME CInv, Plan PROVE CInv'
  OBVIOUS
<1> USE DEF AtTurn
<1>1. CASE PlannerSkips
  BY <1>1, PlannerKeeps DEF PlannerSkips
<1>2. CASE PlannerLoad
  <2>1. worker'.seen = NothingSeen /\ worker'.new = {} /\ PlannerStays
    BY <1>2 DEF PlannerLoad
  <2> QED
    BY <2>1, PlannerKeeps
<1>3. ASSUME NEW d \in Decisions, PlannerPasses(d) PROVE CInv'
  <2>1. worker' = [worker EXCEPT !.todo = @ \ {d}] /\ PlannerStays
    BY <1>3 DEF PlannerPasses
  <2>2. worker'.seen = worker.seen /\ worker'.new = worker.new
    BY <2>1 DEF CInv, WorkerInv
  <2> QED
    BY <2>1, <2>2, PlannerKeeps DEF CInv, WorkerInv
<1>4. ASSUME NEW d \in Decisions, PlannerReserves(d) PROVE CInv'
  <2> DEFINE c == Candidate(d)
  <2>1. /\ c \in Plans /\ c.why = Planner /\ row[c].status = "NONE" /\ PlannerStays
        /\ worker' = [worker EXCEPT !.todo = @ \ {d}, !.new = @ \cup {c},
                                    !.left = @ - c.amt]
    BY <1>4 DEF PlannerReserves, Qualifies, Candidate
  <2> HIDE DEF c
  <2>2. worker'.seen = worker.seen /\ worker'.new = worker.new \cup {c}
    BY <2>1 DEF CInv, WorkerInv
  <2> QED
    BY <2>1, <2>2, PlannerKeeps DEF CInv, WorkerInv
<1>5. ASSUME NEW d \in Decisions, PlannerCollides(d) PROVE CInv'
  BY <1>5, PlannerKeeps DEF PlannerCollides
<1>6. CASE PlannerCommits
  <2>1. /\ row' = [p \in Plans |-> IF p \in worker.new THEN NewRow(p) ELSE row[p]]
        /\ worker'.seen = NothingSeen /\ worker'.new = {}
        /\ UNCHANGED <<req, fresh, bought>>
    BY <1>6 DEF PlannerCommits, clocks, execution
  <2>2. \A p \in worker.new : p \in Plans /\ row[p].status = "NONE"
    BY DEF CInv, WorkerInv
  <2>3. ASSUME NEW p \in Plans PROVE Sound(p, NewRow(p)) /\ NewRow(p).status # "NONE"
    BY DEF Sound, NewRow, Row, PlanStatus, ActivePlan, Amounts
  <2>4. Forward
    BY <2>1, <2>2, <2>3 DEF Forward, CInv, RowsInv, Sound
  <2>5. RowsInv'
    BY <2>1, <2>3 DEF CInv, RowsInv, Sound
  <2>6. WorkerInv'
    BY <2>1 DEF WorkerInv, NothingSeen
  <2>7. LatestInv'
    <3>1. \A d \in Decisions :
            \/ latest'[d] \in worker.new
            \/ latest'[d] = latest[d]
      BY <1>6 DEF PlannerCommits
    <3>2. latest' \in [Decisions -> Plans \cup {None}]
      BY <1>6, <2>2, <3>1 DEF PlannerCommits, CInv, LatestInv
    <3>3. ASSUME NEW d \in Decisions, latest'[d] # None PROVE row'[latest'[d]].status # "NONE"
      BY <2>1, <2>2, <2>3, <2>4, <3>1, <3>3 DEF Forward, CInv, LatestInv
    <3> QED
      BY <3>2, <3>3 DEF LatestInv
  <2>8. \A h \in Handlers : RequestInv(h)'
    BY <2>1, <2>4, RequestKept DEF CInv
  <2> QED
    BY <2>1, <2>5, <2>6, <2>7, <2>8 DEF CInv
<1> QED
  BY <1>1, <1>2, <1>3, <1>4, <1>5, <1>6 DEF Plan

(* The worker's death, and the rest of the world. *)
LEMMA WorkerDiesKeeps == CInv /\ WorkerDies => CInv'
BY PlannerKeeps DEF WorkerDies, AtTurn, PlannerStays

LEMMA EnvironmentKeeps == CInv /\ Environment => CInv'
<1> SUFFICES ASSUME CInv, Environment PROVE CInv'
  OBVIOUS
<1>1. UNCHANGED <<row, latest, req, worker>>
  BY DEF Environment, IntentProposed, IntentFilled, EvidenceAges, SnapshotShows, TimePasses,
         RestStays, planned
<1>2. fresh' \subseteq Assessments /\ bought' \subseteq Assessments
  BY DEF CInv, Environment, IntentProposed, IntentFilled, EvidenceAges, SnapshotShows, TimePasses,
         RestStays, execution, clocks
<1>3. \A h \in Handlers : RequestInv(h)'
  BY <1>1 DEF CInv, RequestInv, Relies, Sound
<1> QED
  BY <1>1, <1>2, <1>3 DEF CInv, RowsInv, LatestInv, WorkerInv, Relies, Sound

LEMMA InitHolds == Init => CInv
<1> SUFFICES ASSUME Init PROVE CInv
  OBVIOUS
<1>1. PICK old \in SUBSET Legacy :
        /\ row = [p \in Plans |-> IF p \in old THEN NewRow(p) ELSE NoRow]
        /\ latest = [d \in Decisions |->
             IF \E p \in old : p.dec = d THEN CHOOSE p \in old : p.dec = d ELSE None]
  BY DEF Init
<1>2. old \subseteq Plans
  BY DEF Legacy
<1>3. RowsInv
  BY <1>1 DEF RowsInv, Sound, NewRow, NoRow, Row, PlanStatus, ActivePlan, Amounts
<1>4. \A d \in Decisions : latest[d] \in old \/ latest[d] = None
  BY <1>1
<1>5. LatestInv
  BY <1>1, <1>2, <1>4 DEF LatestInv, NewRow
<1>6. WorkerInv
  BY DEF Init, WorkerInv, AtTurn, NothingSeen
<1> QED
  BY <1>3, <1>5, <1>6 DEF Init, CInv, RequestInv

LEMMA NextKeeps == CInv /\ [Next]_vars => CInv'
<1> SUFFICES ASSUME CInv, [Next]_vars PROVE CInv'
  OBVIOUS
<1>1. ASSUME NEW h \in Handlers, HandlerNext(h) PROVE CInv'
  BY <1>1, CreateLoadKeeps, CancelLoadKeeps, RevalidateLoadKeeps, InsertCommitKeeps,
     UpdateCommitKeeps, HandlerDiesKeeps DEF HandlerNext, HandlerCommits
<1>2. CASE WorkerNext
  BY <1>2, LoadsKeep, RejectCommitKeeps, ExpireCommitKeeps, CaptureCommitKeeps, PlanKeeps,
     WorkerDiesKeeps DEF WorkerNext, Works
<1>3. CASE Environment
  BY <1>3, EnvironmentKeeps
<1>4. CASE UNCHANGED vars
  BY <1>4 DEF vars, planned, execution, clocks, CInv, RowsInv, LatestInv, WorkerInv, RequestInv,
              Relies, Sound
<1> QED
  BY <1>1, <1>2, <1>3, <1>4 DEF Next

-----------------------------------------------------------------------------
(* Claims on capital                                                       *)

LEMMA MaxOfTwo == \A a, b \in Int : Max({a, b}) = IF a >= b THEN a ELSE b
<1> TAKE a \in Int, b \in Int
<1>1. \A x \in {a, b} : (\A y \in {a, b} : x >= y) <=> x = IF a >= b THEN a ELSE b
  OBVIOUS
<1>2. Max({a, b}) = CHOOSE x \in {a, b} : x = IF a >= b THEN a ELSE b
  BY <1>1 DEF Max
<1> QED
  BY <1>2

LEMMA MinOfTwo == \A a, b \in Int : Min({a, b}) = IF a <= b THEN a ELSE b
<1> TAKE a \in Int, b \in Int
<1>1. \A x \in {a, b} : (\A y \in {a, b} : x =< y) <=> x = IF a <= b THEN a ELSE b
  OBVIOUS
<1>2. Min({a, b}) = CHOOSE x \in {a, b} : x = IF a <= b THEN a ELSE b
  BY <1>1 DEF Min
<1> QED
  BY <1>2

(* Every set of plans is finite, and every claim an amount. *)
LEMMA ClaimsAreAmounts ==
  ASSUME CInv
  PROVE  /\ \A p \in Plans : Claim[p] \in Nat /\ row[p].reserved \in Nat
         /\ Held \subseteq Plans /\ worker.new \subseteq Plans /\ Claiming \subseteq Plans
         /\ \A S \in SUBSET Plans : IsFiniteSet(S)
<1>1. \A p \in Plans : row[p].reserved \in Nat /\ p.amt \in Nat
  BY AmountAssumption DEF CInv, RowsInv, Row, Amounts
<1>2. \A h \in Handlers : req[h] # Idle => req[h].plan \in Plans
  BY DEF CInv, RequestInv, Relies
<1>3. Held \subseteq Plans
  BY <1>2 DEF Held
<1>4. worker.new \subseteq Plans
  BY DEF CInv, WorkerInv
<1> QED
  BY <1>1, <1>3, <1>4, FinitenessAssumption, FS_Subset DEF Claim, Claiming, Active

LEMMA ReservedIsClaimed ==
  ASSUME CInv
  PROVE  ReservedBy(Plans) = SumFunctionOnSet(Claim, Active) /\ ReservedBy(Plans) \in Nat
<1> DEFINE w == [p \in Plans |-> row[p].reserved]
<1>1. Active \subseteq Plans /\ IsFiniteSet(Active)
  BY ClaimsAreAmounts DEF Active
<1>2. \A p \in Active : w[p] \in Nat /\ w[p] = Claim[p]
  BY <1>1, ClaimsAreAmounts DEF Claim, Active, IsActive, ActivePlan
<1>3. ReservedBy(Plans) = SumFunctionOnSet(w, Active)
  BY DEF ReservedBy, Active
<1> HIDE DEF w
<1>4. SumFunctionOnSet(w, Active) = SumFunctionOnSet(Claim, Active)
  BY <1>1, <1>2, SumEqual
<1>5. SumFunctionOnSet(w, Active) \in Nat
  BY <1>1, <1>2, SumIsNat
<1> QED
  BY <1>3, <1>4, <1>5

(* The claims of the threads, of one that holds nothing taken out.         *)
LEMMA HeldBounded ==
  ASSUME CInv, ClaimsInv
  PROVE  /\ SumFunctionOnSet(Claim, Held) <= Cardinality(Handlers) * MaxPower
         /\ \A h \in Handlers : req[h] = Idle =>
              SumFunctionOnSet(Claim, Held) <= (Cardinality(Handlers) - 1) * MaxPower
<1> DEFINE busy == {g \in Handlers : req[g] # Idle}
<1>1. IsFiniteSet(busy) /\ Cardinality(busy) <= Cardinality(Handlers)
      /\ Cardinality(busy) \in Nat /\ Cardinality(Handlers) \in Nat
  BY FinitenessAssumption, FS_Subset, FS_CardinalityType
<1>2. IsFiniteSet(Held) /\ Cardinality(Held) <= Cardinality(busy) /\ Cardinality(Held) \in Nat
  <2> DEFINE f == [g \in busy |-> req[g].plan]
  <2>1. f \in Surjection(busy, Held)
    BY DEF Surjection, Held
  <2> QED
    BY <1>1, <2>1, FS_Surjection, FS_CardinalityType
<1>3. \A p \in Held : Claim[p] \in 0 .. MaxPower
  <2>1. ASSUME NEW g \in Handlers, req[g] # Idle PROVE Claim[req[g].plan] <= MaxPower
    <3>1. req[g].plan \in Plans
      BY <2>1, ClaimsAreAmounts DEF Held
    <3>2. CASE row[req[g].plan].status = "NONE"
      <4>1. req[g].op = "create"
        BY <2>1, <3>2 DEF CInv, RequestInv, Relies
      <4> QED
        BY <3>1, <3>2, <4>1 DEF Claim, ClaimsInv
    <3>3. CASE row[req[g].plan].status # "NONE"
      BY <3>1, <3>3 DEF Claim, ClaimsInv
    <3> QED
      BY <3>2, <3>3
  <2> QED
    BY <2>1, ClaimsAreAmounts, AmountAssumption DEF Held
<1>4. SumFunctionOnSet(Claim, Held) <= Cardinality(Held) * MaxPower
  BY <1>2, <1>3, AmountAssumption, SumBounded
<1>5. SumFunctionOnSet(Claim, Held) \in Int
  BY <1>2, <1>3, SumIsInt
<1>6. \A m, n \in Nat : m <= n => m * MaxPower <= n * MaxPower
  BY AmountAssumption
<1>7. SumFunctionOnSet(Claim, Held) <= Cardinality(busy) * MaxPower
  BY <1>1, <1>2, <1>4, <1>5, <1>6, AmountAssumption
<1>8. ASSUME NEW h \in Handlers, req[h] = Idle
      PROVE  SumFunctionOnSet(Claim, Held) <= (Cardinality(Handlers) - 1) * MaxPower
  <2>1. busy \in SUBSET (Handlers \ {h}) /\ IsFiniteSet(Handlers \ {h})
        /\ Cardinality(Handlers \ {h}) = Cardinality(Handlers) - 1
    BY <1>8, FinitenessAssumption, FS_RemoveElement
  <2>2. Cardinality(busy) <= Cardinality(Handlers) - 1
        /\ Cardinality(Handlers) - 1 \in Nat
    BY <2>1, FS_Subset, FS_CardinalityType
  <2>3. Cardinality(busy) * MaxPower <= (Cardinality(Handlers) - 1) * MaxPower
    BY <1>1, <1>6, <2>2
  <2> HIDE DEF busy
  <2> QED
    BY <1>1, <1>5, <1>7, <2>2, <2>3, AmountAssumption
<1>9. Cardinality(busy) * MaxPower <= Cardinality(Handlers) * MaxPower
  BY <1>1, <1>6
<1> HIDE DEF busy
<1> QED
  BY <1>1, <1>5, <1>7, <1>8, <1>9, AmountAssumption

(* The sums of ClaimsInv. *)
SumsInv ==
  /\ SumFunctionOnSet(Claim, worker.new) + worker.left <= MaxPower
  /\ SumFunctionOnSet(Claim, Claiming) + worker.left <= (Cardinality(Handlers) + 1) * MaxPower

(* A step after which no more plans claim, none more than before, leaves   *)
(* the claims within their bounds.                                         *)
LEMMA ClaimsShrink ==
  ASSUME CInv, CInv', ClaimsInv, TypeOK,
         Claiming' \subseteq Claiming, worker'.new \subseteq worker.new,
         \A p \in Claiming' : Claim'[p] <= Claim[p],
         worker'.left \in Nat, worker'.left <= worker.left
  PROVE  SumsInv'
<1>1. ASSUME NEW S \in SUBSET Plans, NEW T \in SUBSET S, T \subseteq Claiming'
      PROVE  SumFunctionOnSet(Claim', T) <= SumFunctionOnSet(Claim, S)
             /\ SumFunctionOnSet(Claim', T) \in Int /\ SumFunctionOnSet(Claim, S) \in Int
  <2>a. \A p \in Plans : row'[p].reserved \in Nat /\ p.amt \in Nat
    BY AmountAssumption DEF CInv, RowsInv, Row, Amounts
  <2>1. IsFiniteSet(S) /\ IsFiniteSet(T)
        /\ \A p \in Plans : Claim[p] \in Nat /\ Claim'[p] \in Nat
    BY <2>a, ClaimsAreAmounts, FS_Subset DEF Claim
  <2>2. SumFunctionOnSet(Claim', T) <= SumFunctionOnSet(Claim, T)
    BY <1>1, <2>1, SumMonotone
  <2>3. SumFunctionOnSet(Claim, T) <= SumFunctionOnSet(Claim, S)
    BY <2>1, SumOfSubset
  <2>4. /\ SumFunctionOnSet(Claim, T) \in Int /\ SumFunctionOnSet(Claim, S) \in Int
        /\ SumFunctionOnSet(Claim', T) \in Int
    BY <2>1, SumIsInt
  <2> QED
    BY <2>2, <2>3, <2>4
<1>2. Claiming \subseteq Plans /\ worker.new \subseteq Plans /\ worker'.new \subseteq Claiming'
  BY ClaimsAreAmounts DEF Claiming
<1>3. /\ SumFunctionOnSet(Claim', worker'.new) <= SumFunctionOnSet(Claim, worker.new)
      /\ SumFunctionOnSet(Claim', worker'.new) \in Int
      /\ SumFunctionOnSet(Claim, worker.new) \in Int
  BY <1>1, <1>2
<1>4. /\ SumFunctionOnSet(Claim', Claiming') <= SumFunctionOnSet(Claim, Claiming)
      /\ SumFunctionOnSet(Claim', Claiming') \in Int
      /\ SumFunctionOnSet(Claim, Claiming) \in Int
  BY <1>1, <1>2
<1>5. worker.left \in Int /\ MaxPower \in Int
      /\ (Cardinality(Handlers) + 1) * MaxPower \in Int
  BY AmountAssumption, FinitenessAssumption, FS_CardinalityType DEF TypeOK
<1>6. /\ SumFunctionOnSet(Claim, worker.new) + worker.left <= MaxPower
      /\ SumFunctionOnSet(Claim, Claiming) + worker.left <= (Cardinality(Handlers) + 1) * MaxPower
  BY DEF ClaimsInv
<1>7. SumFunctionOnSet(Claim', worker'.new) + worker'.left <= MaxPower
  BY <1>3, <1>5, <1>6
<1>8. SumFunctionOnSet(Claim', Claiming') + worker'.left <= (Cardinality(Handlers) + 1) * MaxPower
  BY <1>4, <1>5, <1>6
<1> QED
  BY <1>7, <1>8 DEF SumsInv

(* The rest of PlansInv: types, and what rows, threads and the planner keep *)
(* of amounts.                                                              *)
RowAmounts == \A p \in Plans : row[p].reserved \in {0, p.amt} /\ row[p].reserved <= MaxPower
RequestTypes ==
  \A h \in Handlers :
    /\ req[h] = Idle \/
         req[h] \in [op: {"create", "update"}, plan: Plans, seen: Row, new: Row]
    /\ req[h].op = "create" => req[h].plan.amt <= MaxPower
    /\ req[h].op = "update" => req[h].new.reserved = req[h].seen.reserved
WorkerTypes ==
  /\ worker.turn \in Turn
  /\ worker.left \in 0 .. MaxPower /\ worker.target \in Nat
  /\ worker.turn = "CAPTURING" => worker.todo \subseteq bought
WorldTypes ==
  /\ intent \in [Assessments -> {"NONE", "PENDING", "FILLED", "EXPIRED"}]
  /\ position \subseteq bought
  /\ phase \in [Entries -> Phase] /\ power \in 0 .. MaxPower
TypesInv == RowAmounts /\ RequestTypes /\ WorkerTypes /\ WorldTypes

LEMMA PlansInvParts ==
  CInv /\ DOMAIN worker.seen \subseteq Plans => (PlansInv <=> TypesInv /\ SumsInv)
BY DEF PlansInv, CInv, TypesInv, SumsInv, RowAmounts, RequestTypes, WorkerTypes, WorldTypes,
       ClaimsInv, TypeOK, RowsInv, LatestInv, WorkerInv

LEMMA StartsTypes ==
  ASSUME PlansInv, NEW h \in Handlers, NEW op \in {"create", "update"}, NEW p \in Plans,
         NEW new \in Row, Starts(h, op, p, new), op = "create" => p.amt <= MaxPower,
         op = "update" => new.reserved = row[p].reserved
  PROVE  TypesInv'
<1>1. UNCHANGED <<row, intent, bought, position, phase, power, worker>>
  BY DEF Starts, planned, execution, clocks
<1>2. req' = [req EXCEPT ![h] = [op |-> op, plan |-> p, seen |-> row[p], new |-> new]]
      /\ row[p] \in Row /\ DOMAIN req = Handlers
  BY DEF Starts, PlansInv, CInv, RowsInv
<1>3. RequestTypes'
  BY <1>1, <1>2 DEF RequestTypes, PlansInv, TypeOK, ClaimsInv
<1> QED
  BY <1>1, <1>3 DEF TypesInv, RowAmounts, WorkerTypes, WorldTypes, PlansInv, TypeOK, ClaimsInv

LEMMA HandlerLoadTypes ==
  ASSUME PlansInv, NEW h \in Handlers, NEW p \in Plans,
         CreateLoad(h, p) \/ CancelLoad(h, p) \/ \E a \in Assessments \cup {None} :
           RevalidateLoad(h, p, a)
  PROVE  TypesInv'
<1>1. row[p] \in Row /\ NewRow(p) \in Row /\ p.amt \in Nat
  BY AmountAssumption DEF PlansInv, CInv, RowsInv, NewRow, Row, PlanStatus, ActivePlan, Amounts
<1>2. ASSUME CreateLoad(h, p) PROVE p.amt <= MaxPower
  <2>1. power \in 0 .. MaxPower /\ ReservedBy(Plans) \in Nat
    BY ReservedIsClaimed DEF PlansInv, TypeOK
  <2>2. Deployable(Plans) <= MaxPower /\ Deployable(Plans) \in Nat
    BY <2>1, MaxOfTwo, AmountAssumption DEF Deployable
  <2> QED
    BY <1>1, <1>2, <2>2, AmountAssumption DEF CreateLoad
<1>3. CASE CreateLoad(h, p)
  BY <1>1, <1>2, <1>3, StartsTypes DEF CreateLoad
<1>4. CASE CancelLoad(h, p)
  <2>1. Cancelled(row[p]) \in Row /\ Cancelled(row[p]).reserved = row[p].reserved
    BY <1>1 DEF Cancelled, Row, PlanStatus
  <2> QED
    BY <1>4, <2>1, StartsTypes DEF CancelLoad
<1>5. ASSUME NEW a \in Assessments \cup {None}, RevalidateLoad(h, p, a) PROVE TypesInv'
  <2> DEFINE new == Revalidated(p, a)
  <2>1. new = Expired(row[p]) \/ new = Blocked(row[p]) \/ (new = Ready(row[p], a))
    BY DEF Revalidated
  <2>2. new \in Row /\ new.reserved = row[p].reserved
    <3> HIDE DEF new
    <3> QED
      BY <1>1, <2>1 DEF Expired, Blocked, Ready, Row, PlanStatus, ActivePlan
  <2> HIDE DEF new
  <2> QED
    BY <1>5, <2>2, StartsTypes DEF RevalidateLoad, new
<1> QED
  BY <1>3, <1>4, <1>5

LEMMA HandlerEndTypes ==
  ASSUME PlansInv, NEW h \in Handlers, req' = [req EXCEPT ![h] = Idle], RowAmounts',
         UNCHANGED <<intent, bought, position, phase, power, worker>>
  PROVE  TypesInv'
<1>1. RequestTypes'
  BY DEF RequestTypes, PlansInv, CInv, TypeOK, ClaimsInv, Idle
<1> QED
  BY <1>1 DEF TypesInv, WorkerTypes, WorldTypes, PlansInv, TypeOK, ClaimsInv

LEMMA HandlerCommitTypes ==
  ASSUME PlansInv, NEW h \in Handlers, InsertCommit(h) \/ UpdateCommit(h) \/ HandlerDies(h)
  PROVE  TypesInv'
<1>1. RowAmounts /\ row \in [Plans -> Row] /\ \A p \in Plans : p.amt \in Nat
  BY AmountAssumption DEF PlansInv, ClaimsInv, RowAmounts, CInv, RowsInv
<1>2. CASE InsertCommit(h)
  <2>1. req[h].new = NewRow(req[h].plan) /\ req[h].plan.amt <= MaxPower /\ req[h].plan \in Plans
    BY <1>2 DEF InsertCommit, PlansInv, CInv, RequestInv, ClaimsInv, Idle
  <2>2. row' = row \/ row' = [row EXCEPT ![req[h].plan] = NewRow(req[h].plan)]
    BY <1>2, <2>1 DEF InsertCommit, planned
  <2>3. RowAmounts'
    BY <1>1, <2>1, <2>2 DEF RowAmounts, NewRow
  <2> QED
    BY <1>2, <2>3, HandlerEndTypes DEF InsertCommit, execution, clocks
<1>3. CASE UpdateCommit(h)
  <2> DEFINE p == req[h].plan
  <2>1. p \in Plans /\ req[h].seen \in Row /\ req[h].new \in Row
        /\ req[h].new.reserved = req[h].seen.reserved
    BY <1>3 DEF UpdateCommit, PlansInv, CInv, RequestInv, Relies, Sound, ClaimsInv, Idle
  <2>2. row' = [row EXCEPT ![p] = Written(row[p], req[h].seen, req[h].new)]
    BY <1>3 DEF UpdateCommit
  <2>3. Written(row[p], req[h].seen, req[h].new).reserved = row[p].reserved
    BY <1>1, <2>1 DEF Written, Row
  <2>4. RowAmounts'
    BY <1>1, <2>1, <2>2, <2>3 DEF RowAmounts
  <2> QED
    BY <1>3, <2>4, HandlerEndTypes DEF UpdateCommit, execution, clocks
<1>4. CASE HandlerDies(h)
  BY <1>1, <1>4, HandlerEndTypes DEF HandlerDies, RowAmounts, planned, execution, clocks
<1> QED
  BY <1>2, <1>3, <1>4

LEMMA WorkerStayTypes ==
  ASSUME PlansInv, UNCHANGED <<row, intent, bought, position, phase, power, req>>, WorkerTypes'
  PROVE  TypesInv'
BY DEF TypesInv, RowAmounts, RequestTypes, WorldTypes, PlansInv, TypeOK, ClaimsInv

LEMMA AtTurnTypes ==
  ASSUME NEW t \in Turn, t # "CAPTURING"
  PROVE  worker' = AtTurn(t) => WorkerTypes'
BY AmountAssumption DEF WorkerTypes, AtTurn

LEMMA WorkerLoadTypes ==
  ASSUME PlansInv, RejectLoad \/ ExpireLoad \/ CaptureLoad
  PROVE  TypesInv'
<1>1. UNCHANGED <<row, intent, bought, position, phase, power, req>>
  BY DEF RejectLoad, ExpireLoad, CaptureLoad, WorkerLoads, planned, execution, clocks
<1>2. ASSUME NEW from, NEW to \in Turn, NEW S, NEW lapsing, NEW registering,
             WorkerLoads(from, to, S, lapsing, registering),
             to = "CAPTURING" => registering \subseteq bought
      PROVE  WorkerTypes'
  <2>1. /\ worker'.turn = to /\ worker'.left = 0 /\ worker'.target = 0
        /\ worker'.todo = registering
    BY <1>2 DEF WorkerLoads, AtTurn
  <2> QED
    BY <1>1, <1>2, <2>1, AmountAssumption DEF WorkerTypes
<1>3. CASE RejectLoad
  BY <1>1, <1>2, <1>3, WorkerStayTypes DEF RejectLoad, Turn
<1>4. CASE ExpireLoad
  BY <1>1, <1>2, <1>4, WorkerStayTypes DEF ExpireLoad, Turn
<1>5. CASE CaptureLoad
  BY <1>1, <1>2, <1>5, WorkerStayTypes DEF CaptureLoad, Turn
<1> QED
  BY <1>3, <1>4, <1>5

(* A worker's commit leaves what a row reserves, or sets it to 0.           *)
LEMMA WorkerWriteTypes ==
  ASSUME PlansInv, NEW from, NEW to \in Turn, to # "CAPTURING", NEW new,
         WorkerWrites(from, to, new),
         \A p \in DOMAIN worker.seen : new[p].reserved \in {worker.seen[p].reserved, 0},
         intent' \in [Assessments -> {"NONE", "PENDING", "FILLED", "EXPIRED"}],
         position' \subseteq bought
  PROVE  TypesInv' /\ \A p \in Plans : row'[p].reserved \in {row[p].reserved, 0}
<1>1. UNCHANGED <<bought, phase, power, req>>
  BY DEF WorkerWrites, clocks
<1>2. ASSUME NEW p \in Plans PROVE row'[p].reserved \in {row[p].reserved, 0}
  <2>1. row[p] \in Row
    BY DEF PlansInv, CInv, RowsInv
  <2>2. CASE p \in DOMAIN worker.seen
    <3>1. row'[p] = Written(row[p], worker.seen[p], new[p])
      BY <2>2 DEF WorkerWrites
    <3> QED
      BY <2>1, <2>2, <3>1 DEF Written, Row
  <2>3. CASE p \notin DOMAIN worker.seen
    BY <2>3 DEF WorkerWrites
  <2> QED
    BY <2>2, <2>3
<1>3. RowAmounts'
  BY <1>2, AmountAssumption DEF RowAmounts, PlansInv, ClaimsInv
<1>4. WorkerTypes'
  BY AtTurnTypes DEF WorkerWrites
<1> QED
  BY <1>1, <1>2, <1>3, <1>4 DEF TypesInv, RequestTypes, WorldTypes, PlansInv, TypeOK, ClaimsInv

LEMMA WorkerCommitTypes ==
  ASSUME PlansInv, RejectCommit \/ ExpireCommit \/ CaptureCommit
  PROVE  /\ TypesInv' /\ worker'.new = {} /\ worker'.left = 0 /\ req' = req
         /\ \A p \in Plans : row'[p].reserved \in {row[p].reserved, 0}
         /\ \A p \in Plans : IsActive(p)' => IsActive(p)
<1>1. \A p \in DOMAIN worker.seen : worker.seen[p] \in Row
  BY DEF PlansInv, CInv, WorkerInv, Relies, Sound
<1>2. row \in [Plans -> Row]
  BY DEF PlansInv, CInv, RowsInv
<1>3. ASSUME NEW new, NEW from, NEW to, WorkerWrites(from, to, new),
             \A p \in DOMAIN worker.seen : new[p].status \notin ActivePlan
      PROVE  /\ worker'.new = {} /\ worker'.left = 0 /\ req' = req
             /\ \A p \in Plans : IsActive(p)' => IsActive(p)
  <2>1. ASSUME NEW p \in Plans, IsActive(p)' PROVE IsActive(p)
    <3>1. \/ row'[p] = row[p]
          \/ /\ p \in DOMAIN worker.seen
             /\ row'[p] = Written(row[p], worker.seen[p], new[p])
      BY <1>3 DEF WorkerWrites
    <3>2. row[p] \in Row
      BY <1>2
    <3>3. Written(row[p], worker.seen[p], new[p]).status \in {new[p].status, row[p].status}
      BY <3>2 DEF Written, Row
    <3> QED
      BY <1>3, <2>1, <3>1, <3>3 DEF IsActive
  <2> QED
    BY <1>3, <2>1 DEF WorkerWrites, AtTurn
<1>4. CASE RejectCommit
  <2> DEFINE new == [p \in DOMAIN worker.seen |-> Cancelled(worker.seen[p])]
  <2>1. \A p \in DOMAIN worker.seen : new[p].reserved = worker.seen[p].reserved
          /\ new[p].status \notin ActivePlan
    BY <1>1 DEF Cancelled, Row, ActivePlan
  <2>2. WorkerWrites("REJECTING", "EXPIRE", new) /\ UNCHANGED <<intent, position>>
    BY <1>4 DEF RejectCommit
  <2> HIDE DEF new
  <2> QED
    BY <1>3, <2>1, <2>2, WorkerWriteTypes DEF PlansInv, TypeOK, Turn
<1>5. CASE ExpireCommit
  <2> DEFINE new == [p \in DOMAIN worker.seen |-> Expired(worker.seen[p])]
  <2>1. \A p \in DOMAIN worker.seen : new[p].reserved = worker.seen[p].reserved
          /\ new[p].status \notin ActivePlan
    BY <1>1 DEF Expired, Row, ActivePlan
  <2>2. WorkerWrites("EXPIRING", "CAPTURE", new) /\ UNCHANGED position
        /\ intent' \in [Assessments -> {"NONE", "PENDING", "FILLED", "EXPIRED"}]
    BY <1>5 DEF ExpireCommit, PlansInv, TypeOK
  <2> HIDE DEF new
  <2> QED
    BY <1>3, <2>1, <2>2, WorkerWriteTypes DEF PlansInv, TypeOK, Turn
<1>6. CASE CaptureCommit
  <2> DEFINE new == [p \in DOMAIN worker.seen |-> Filled(worker.seen[p])]
  <2>1. \A p \in DOMAIN worker.seen : new[p].reserved = 0 /\ new[p].status \notin ActivePlan
    BY <1>1 DEF Filled, Row, ActivePlan
  <2>2. WorkerWrites("CAPTURING", "PLAN", new) /\ UNCHANGED intent
        /\ position' = position \cup worker.todo /\ worker.turn = "CAPTURING"
    BY <1>6 DEF CaptureCommit, WorkerWrites
  <2>3. position' \subseteq bought
    BY <2>2 DEF PlansInv, TypeOK
  <2> HIDE DEF new
  <2> QED
    BY <1>3, <2>1, <2>2, <2>3, WorkerWriteTypes DEF PlansInv, TypeOK, Turn
<1> QED
  BY <1>4, <1>5, <1>6

(* What the planner has left comes from the cash and from its share.        *)
LEMMA PlannerLoadLeft ==
  ASSUME PlansInv, PlannerLoad
  PROVE  /\ worker'.turn = "PLANNING" /\ worker'.new = {} /\ worker'.target \in Nat
         /\ worker'.left \in 0 .. MaxPower
         /\ worker'.left = 0 \/ ReservedBy(Plans) + worker'.left <= MaxPower
<1>1. PICK C \in SUBSET {d \in Decisions : phase[EntryOf[d]] # "PAST"},
           target \in Amounts, share \in 0 .. MaxPower :
        worker' = [AtTurn("PLANNING") EXCEPT !.todo = C, !.target = target,
          !.left = Min({Deployable(Plans), Max({0, share - ReservedBy(Plans)})})]
  BY DEF PlannerLoad
<1>2. ReservedBy(Plans) \in Nat /\ power \in 0 .. MaxPower /\ MaxPower \in Nat
  BY ReservedIsClaimed, AmountAssumption DEF PlansInv, TypeOK
<1>3. Deployable(Plans) = (IF 0 >= power - ReservedBy(Plans) THEN 0 ELSE power - ReservedBy(Plans))
  BY <1>2, MaxOfTwo DEF Deployable
<1>4. Max({0, share - ReservedBy(Plans)}) \in Nat
  BY <1>2, MaxOfTwo
<1>5. worker'.left \in Nat /\ worker'.left <= Deployable(Plans)
  <2>1. worker'.left = Min({Deployable(Plans), Max({0, share - ReservedBy(Plans)})})
    BY <1>1 DEF AtTurn
  <2>2. Deployable(Plans) \in Nat
    BY <1>2, <1>3
  <2>3. Min({Deployable(Plans), Max({0, share - ReservedBy(Plans)})}) =
          IF Deployable(Plans) <= Max({0, share - ReservedBy(Plans)})
          THEN Deployable(Plans) ELSE Max({0, share - ReservedBy(Plans)})
    BY <1>4, <2>2, MinOfTwo
  <2> QED
    BY <1>4, <2>1, <2>2, <2>3
<1>6. worker'.target \in Nat /\ worker'.turn = "PLANNING" /\ worker'.new = {}
  BY <1>1, AmountAssumption DEF Amounts, AtTurn
<1> QED
  BY <1>2, <1>3, <1>5, <1>6

LEMMA ReservesLeft ==
  ASSUME PlansInv, NEW d \in Decisions, PlannerReserves(d)
  PROVE  LET c == Candidate(d)
         IN  /\ c \in Plans /\ row[c].status = "NONE" /\ c.amt \in Nat /\ c.amt <= worker.left
             /\ worker'.new = worker.new \cup {c} /\ worker'.left = worker.left - c.amt
             /\ worker'.turn = worker.turn /\ worker'.target = worker.target
<1>1. Candidate(d) \in Plans /\ row[Candidate(d)].status = "NONE"
  BY DEF PlannerReserves, Qualifies
<1>2. Candidate(d).amt \in Nat
  BY <1>1, AmountAssumption
<1>3. Candidate(d).amt = Min({worker.target, worker.left}) /\ worker.target \in Nat
      /\ worker.left \in Nat
  BY AmountAssumption DEF Candidate, PlansInv, ClaimsInv, TypeOK
<1>4. Candidate(d).amt <= worker.left
  BY <1>3, MinOfTwo
<1>5. worker' = [worker EXCEPT !.todo = @ \ {d}, !.new = @ \cup {Candidate(d)},
                              !.left = @ - Candidate(d).amt]
  BY DEF PlannerReserves
<1> HIDE DEF Candidate
<1> QED
  BY <1>1, <1>2, <1>4, <1>5

LEMMA PlannerTypes ==
  ASSUME PlansInv, Plan \/ WorkerDies
  PROVE  TypesInv'
<1>1. ASSUME PlannerStays, WorkerTypes' PROVE TypesInv'
  BY <1>1, WorkerStayTypes DEF PlannerStays, planned, execution, clocks
<1>2. CASE PlannerSkips \/ WorkerDies \/ \E d \in Decisions : PlannerCollides(d)
  BY <1>1, <1>2, AtTurnTypes DEF PlannerSkips, WorkerDies, PlannerCollides, PlannerStays, Turn
<1>3. CASE PlannerLoad
  BY <1>1, <1>3, PlannerLoadLeft DEF PlannerLoad, WorkerTypes, Turn
<1>4. ASSUME NEW d \in Decisions, PlannerPasses(d) PROVE TypesInv'
  <2>1. worker'.turn = "PLANNING" /\ worker'.left = worker.left /\ worker'.target = worker.target
    BY <1>4 DEF PlannerPasses, Considers
  <2> QED
    BY <1>1, <1>4, <2>1 DEF PlannerPasses, WorkerTypes, PlansInv, TypeOK, ClaimsInv
<1>5. ASSUME NEW d \in Decisions, PlannerReserves(d) PROVE TypesInv'
  <2>1. worker.turn = "PLANNING" /\ PlannerStays
    BY <1>5 DEF PlannerReserves, Qualifies, Considers
  <2>2. WorkerTypes'
    BY <1>5, <2>1, ReservesLeft, AmountAssumption DEF WorkerTypes, PlansInv, TypeOK, ClaimsInv
  <2> QED
    BY <1>1, <2>1, <2>2
<1>6. CASE PlannerCommits
  <2>1. ASSUME NEW p \in worker.new PROVE p \in Plans /\ p.amt \in Nat /\ p.amt <= MaxPower
    <3>1. p \in Plans /\ row[p].status = "NONE" /\ p.amt \in Nat
      BY AmountAssumption DEF PlansInv, CInv, WorkerInv
    <3>2. worker.new \subseteq Plans /\ IsFiniteSet(worker.new)
          /\ \A q \in Plans : Claim[q] \in Nat
      BY ClaimsAreAmounts DEF PlansInv
    <3>3. SumFunctionOnSet(Claim, worker.new) \in Nat
          /\ Claim[p] <= SumFunctionOnSet(Claim, worker.new)
      BY <3>2, SumIsNat
    <3>4. Claim[p] = p.amt
      BY <3>1 DEF Claim
    <3> QED
      BY <3>1, <3>3, <3>4, AmountAssumption DEF PlansInv, ClaimsInv, TypeOK
  <2>2. row' = [p \in Plans |-> IF p \in worker.new THEN NewRow(p) ELSE row[p]]
        /\ worker' = AtTurn("REJECT") /\ UNCHANGED <<intent, bought, position, phase, power, req>>
    BY <1>6 DEF PlannerCommits, execution, clocks
  <2>3. RowAmounts'
    BY <2>1, <2>2 DEF RowAmounts, NewRow, PlansInv, ClaimsInv
  <2>4. WorkerTypes'
    BY <2>2, AtTurnTypes DEF Turn
  <2> QED
    BY <2>2, <2>3, <2>4 DEF TypesInv, RequestTypes, WorldTypes, PlansInv, TypeOK, ClaimsInv
<1> QED
  BY <1>2, <1>3, <1>4, <1>5, <1>6 DEF Plan

LEMMA EnvironmentTypes ==
  ASSUME PlansInv, Environment
  PROVE  TypesInv' /\ UNCHANGED <<row, req, worker>>
<1>1. UNCHANGED <<row, req, worker, position>>
  BY DEF Environment, IntentProposed, IntentFilled, EvidenceAges, SnapshotShows, TimePasses,
         RestStays, planned
<1>2. bought \subseteq bought'
  BY DEF Environment, IntentProposed, IntentFilled, EvidenceAges, SnapshotShows, TimePasses,
         execution
<1>3. WorldTypes'
  <2> USE DEF WorldTypes, PlansInv, TypeOK, execution, clocks
  <2>1. CASE \E a \in Assessments : IntentProposed(a) \/ IntentFilled(a) \/ EvidenceAges(a)
    BY <1>1, <2>1 DEF IntentProposed, IntentFilled, EvidenceAges
  <2>2. CASE \E cash \in 0 .. MaxPower : SnapshotShows(cash)
    BY <1>1, <2>2 DEF SnapshotShows
  <2>3. ASSUME NEW e \in Entries, TimePasses(e) PROVE WorldTypes'
    <3>1. phase[e] \in {"FUTURE", "OPEN", "CLOSED"}
      BY <2>3 DEF TimePasses, Phase
    <3>2. NextPhase[phase[e]] \in Phase
      BY <3>1 DEF NextPhase, Phase
    <3> QED
      BY <1>1, <2>3, <3>2 DEF TimePasses
  <2> QED
    BY <2>1, <2>2, <2>3 DEF Environment
<1> QED
  BY <1>1, <1>2, <1>3 DEF TypesInv, RowAmounts, RequestTypes, WorkerTypes, PlansInv, TypeOK,
     ClaimsInv

LEMMA TypesKeep == PlansInv /\ [Next]_vars => TypesInv'
<1> SUFFICES ASSUME PlansInv, [Next]_vars PROVE TypesInv'
  OBVIOUS
<1>1. ASSUME NEW h \in Handlers, HandlerNext(h) PROVE TypesInv'
  BY <1>1, HandlerLoadTypes, HandlerCommitTypes DEF HandlerNext, HandlerCommits
<1>2. CASE WorkerNext
  BY <1>2, WorkerLoadTypes, WorkerCommitTypes, PlannerTypes DEF WorkerNext, Works
<1>3. CASE Environment
  BY <1>3, EnvironmentTypes
<1>4. CASE UNCHANGED vars
  BY <1>4 DEF vars, planned, execution, clocks, TypesInv, RowAmounts, RequestTypes, WorkerTypes,
              WorldTypes, PlansInv, TypeOK, ClaimsInv
<1> QED
  BY <1>1, <1>2, <1>3, <1>4 DEF Next

-----------------------------------------------------------------------------
(* Which plans claim capital after a step, and how much                    *)

LEMMA StayingClaims ==
  ASSUME PlansInv, CInv', UNCHANGED <<row, req>>, worker'.new \subseteq worker.new,
         worker'.left \in Nat, worker'.left <= worker.left
  PROVE  SumsInv'
<1>1. Claim' = Claim /\ Claiming' \subseteq Claiming
  BY DEF Claim, Claiming, Active, IsActive, Held
<1>2. \A p \in Claiming : Claim[p] \in Nat
  BY ClaimsAreAmounts DEF PlansInv
<1> QED
  BY <1>1, <1>2, ClaimsShrink DEF PlansInv

(* A thread takes a plan. *)
LEMMA HeldStarts ==
  ASSUME CInv, NEW h \in Handlers, NEW op, NEW p, NEW new, Starts(h, op, p, new)
  PROVE  /\ Held' = Held \cup {p} /\ row' = row /\ worker' = worker
         /\ Claim' = Claim /\ Active' = Active /\ Claiming' = Claiming \cup {p}
<1>1. req[h] = Idle /\ DOMAIN req = Handlers /\ row' = row /\ worker' = worker
      /\ req' = [req EXCEPT ![h] = [op |-> op, plan |-> p, seen |-> row[p], new |-> new]]
  BY DEF Starts, CInv, planned
<1>2. req'[h].plan = p /\ req'[h] # Idle /\ \A g \in Handlers \ {h} : req'[g] = req[g]
  <2>1. [op |-> op, plan |-> p, seen |-> row[p], new |-> new] # Idle
    <3>1. "plan" \in DOMAIN [op |-> op, plan |-> p, seen |-> row[p], new |-> new]
      OBVIOUS
    <3>2. "plan" \notin DOMAIN Idle
      BY DEF Idle
    <3> QED
      BY <3>1, <3>2
  <2> QED
    BY <1>1, <2>1
<1>3. Held' = Held \cup {p}
  BY <1>1, <1>2 DEF Held
<1>4. Claim' = Claim /\ Active' = Active
  BY <1>1 DEF Claim, Active, IsActive
<1> QED
  BY <1>1, <1>3, <1>4 DEF Claiming

(* A thread lets go of its plan. *)
LEMMA HeldEnds ==
  ASSUME CInv, NEW h \in Handlers, req' = [req EXCEPT ![h] = Idle]
  PROVE  Held' \subseteq Held
<1>1. DOMAIN req = Handlers
  BY DEF CInv
<1>2. \A g \in Handlers : req'[g] # Idle => req'[g] = req[g] /\ req[g] # Idle
  BY <1>1
<1> QED
  BY <1>2 DEF Held

LEMMA HandlerLoadClaims ==
  ASSUME PlansInv, CInv', NEW h \in Handlers, NEW p \in Plans, CreateLoad(h, p)
  PROVE  SumsInv'
<1>1. Starts(h, "create", p, NewRow(p)) /\ p.amt <= Deployable(Plans)
  BY DEF CreateLoad
<1>2. /\ Claim' = Claim /\ Claiming' = Active \cup {p} \cup (Held \cup worker.new)
      /\ worker' = worker
  BY <1>1, HeldStarts DEF PlansInv, Claiming
<1>3. req[h] = Idle
  BY <1>1 DEF Starts
<1> DEFINE Sum(S) == SumFunctionOnSet(Claim, S)
<1>4. /\ \A q \in Plans : Claim[q] \in Nat
      /\ Held \subseteq Plans /\ worker.new \subseteq Plans /\ Active \subseteq Plans
      /\ \A S \in SUBSET Plans : IsFiniteSet(S)
  BY ClaimsAreAmounts DEF PlansInv, Active
<1>5. \A S \in SUBSET Plans : Sum(S) \in Nat
  BY <1>4, SumIsNat
<1>6. Sum(Active \cup {p}) <= MaxPower
  <2>1. Sum(Active) = ReservedBy(Plans) /\ power \in 0 .. MaxPower /\ p.amt \in Nat \ {0}
    BY ReservedIsClaimed, AmountAssumption DEF PlansInv, TypeOK
  <2>2. Sum(Active) + p.amt <= power
    BY <1>1, <1>4, <1>5, <2>1, MaxOfTwo, AmountAssumption DEF Deployable
  <2>3. Claim[p] <= p.amt
    BY <2>1 DEF Claim, PlansInv, ClaimsInv
  <2>4. Sum({p}) = Claim[p]
    <3>1. {p} \ {p} = {} /\ p \in {p} /\ {p} \subseteq Plans
      OBVIOUS
    <3>2. Sum({p}) = Claim[p] + Sum({p} \ {p})
      BY <1>4, <3>1, SumTakesOut
    <3>3. Sum({}) = 0
      BY SumEmpty
    <3> QED
      BY <1>4, <3>1, <3>2, <3>3
  <2>5. Sum(Active \cup {p}) <= Sum(Active) + Sum({p})
    BY <1>4, SumOfUnion
  <2>6. Sum(Active) \in Nat /\ Sum(Active \cup {p}) \in Nat /\ Claim[p] \in Nat
    BY <1>4, <1>5
  <2> HIDE DEF Sum
  <2> QED
    BY <2>1, <2>2, <2>3, <2>4, <2>5, <2>6, AmountAssumption
<1>7. Sum(Held) <= (Cardinality(Handlers) - 1) * MaxPower
  BY <1>3, HeldBounded DEF PlansInv
<1>8. Sum(worker.new) + worker.left <= MaxPower
  BY DEF PlansInv, ClaimsInv
<1>9. Sum(Claiming') <= Sum(Active \cup {p}) + (Sum(Held) + Sum(worker.new))
  <2>1. Sum(Active \cup {p} \cup (Held \cup worker.new))
          <= Sum(Active \cup {p}) + Sum(Held \cup worker.new)
    BY <1>4, SumOfUnion
  <2>2. Sum(Held \cup worker.new) <= Sum(Held) + Sum(worker.new)
    BY <1>4, SumOfUnion
  <2>3. /\ Sum(Active \cup {p} \cup (Held \cup worker.new)) \in Nat
        /\ Sum(Active \cup {p}) \in Nat /\ Sum(Held \cup worker.new) \in Nat
        /\ Sum(Held) \in Nat /\ Sum(worker.new) \in Nat
    BY <1>4, <1>5
  <2> HIDE DEF Sum
  <2> QED
    BY <1>2, <2>1, <2>2, <2>3
<1>10. (Cardinality(Handlers) + 1) * MaxPower
         = (Cardinality(Handlers) - 1) * MaxPower + MaxPower + MaxPower
       /\ (Cardinality(Handlers) - 1) * MaxPower \in Int
  BY FinitenessAssumption, FS_CardinalityType, AmountAssumption
<1>11. /\ Sum(Claiming') \in Int /\ Sum(Active \cup {p}) \in Int /\ Sum(Held) \in Int
       /\ Sum(worker.new) \in Int /\ worker.left \in Int /\ MaxPower \in Int
  BY <1>2, <1>4, <1>5, AmountAssumption DEF PlansInv, TypeOK
<1>12. Sum(Claiming') + worker.left <= (Cardinality(Handlers) + 1) * MaxPower
  <2> HIDE DEF Sum
  <2> QED
    BY <1>6, <1>7, <1>8, <1>9, <1>10, <1>11
<1> QED
  BY <1>2, <1>8, <1>12 DEF SumsInv

LEMMA UpdateLoadClaims ==
  ASSUME PlansInv, CInv', NEW h \in Handlers, NEW p \in Plans, NEW new,
         Starts(h, "update", p, new), IsActive(p)
  PROVE  SumsInv'
<1>1. Claim' = Claim /\ Claiming' = Claiming /\ worker' = worker
  BY HeldStarts DEF PlansInv, Claiming, Active
<1> QED
  BY <1>1 DEF SumsInv, PlansInv, ClaimsInv

(* A thread's commit writes a plan it held, and no plan claims more.        *)
LEMMA HandlerCommitClaims ==
  ASSUME PlansInv, CInv', NEW h \in Handlers,
         InsertCommit(h) \/ UpdateCommit(h) \/ HandlerDies(h)
  PROVE  SumsInv'
<1>1. row \in [Plans -> Row] /\ \A p \in Plans : Claim[p] \in Nat
  BY ClaimsAreAmounts DEF PlansInv, CInv, RowsInv
<1>2. worker' = worker /\ req' = [req EXCEPT ![h] = Idle]
  BY DEF InsertCommit, UpdateCommit, HandlerDies
<1>3. req[h] # Idle
  BY DEF InsertCommit, UpdateCommit, HandlerDies, Idle
<1>4. req[h].plan \in Held
  BY <1>3 DEF Held
<1>5. ASSUME NEW p \in Plans
      PROVE  Claim'[p] <= Claim[p] /\ (IsActive(p)' => IsActive(p) \/ p = req[h].plan)
  <2>1. CASE row'[p] = row[p]
    BY <1>1, <2>1 DEF Claim, IsActive
  <2>2. CASE InsertCommit(h) /\ row'[p] # row[p]
    <3>1. p = req[h].plan /\ row[p].status = "NONE" /\ row'[p] = NewRow(p)
      BY <1>1, <2>2 DEF InsertCommit, planned, PlansInv, CInv, RequestInv, Idle
    <3> QED
      BY <1>1, <3>1 DEF Claim, NewRow
  <2>3. CASE UpdateCommit(h) /\ row'[p] # row[p]
    <3>1. p = req[h].plan /\ row'[p] = Written(row[p], req[h].seen, req[h].new)
      BY <1>1, <2>3 DEF UpdateCommit
    <3>2. row[p].status # "NONE" /\ req[h].new.status # "NONE"
          /\ req[h].new.reserved = req[h].seen.reserved
      BY <2>3, <3>1 DEF UpdateCommit, PlansInv, CInv, RequestInv, Relies, ClaimsInv, Idle
    <3>3. row'[p].reserved = row[p].reserved /\ row'[p].status # "NONE"
      BY <1>1, <3>1, <3>2 DEF Written, Row
    <3> QED
      BY <1>1, <3>1, <3>2, <3>3 DEF Claim
  <2> QED
    BY <2>1, <2>2, <2>3 DEF HandlerDies, planned
<1>6. Held' \subseteq Held
  BY <1>2, HeldEnds DEF PlansInv
<1>7. Claiming' \subseteq Claiming
  BY <1>2, <1>4, <1>5, <1>6 DEF Claiming, Active
<1>8. Claiming \subseteq Plans
  BY ClaimsAreAmounts DEF PlansInv
<1>9. worker.left \in Nat
  BY AmountAssumption DEF PlansInv, TypeOK
<1> QED
  BY <1>2, <1>5, <1>7, <1>8, <1>9, ClaimsShrink DEF PlansInv

LEMMA WorkerCommitClaims ==
  ASSUME PlansInv, CInv', RejectCommit \/ ExpireCommit \/ CaptureCommit
  PROVE  SumsInv'
<1>1. /\ worker'.new = {} /\ worker'.left = 0 /\ req' = req
      /\ \A p \in Plans : row'[p].reserved \in {row[p].reserved, 0}
      /\ \A p \in Plans : IsActive(p)' => IsActive(p)
  BY WorkerCommitTypes
<1>2. Claiming' \subseteq Claiming /\ Claiming \subseteq Plans
  BY <1>1, ClaimsAreAmounts DEF Claiming, Active, Held, PlansInv
<1>3. ASSUME NEW p \in Plans PROVE Claim'[p] <= Claim[p]
  <2>1. row[p].status = "NONE" => row'[p] = row[p]
    <3>1. p \in DOMAIN worker.seen => row[p].status # "NONE"
      BY DEF PlansInv, CInv, WorkerInv, Relies
    <3> QED
      BY <3>1 DEF RejectCommit, ExpireCommit, CaptureCommit, WorkerWrites
  <2>2. row[p].status # "NONE" => row'[p].status # "NONE"
    <3>1. \A q \in DOMAIN worker.seen : worker.seen[q] \in Row
      BY DEF PlansInv, CInv, WorkerInv, Relies, Sound
    <3>2. row[p] \in Row
      BY DEF PlansInv, CInv, RowsInv
    <3>3. ASSUME NEW r \in Row, NEW s \in Row, NEW n, n.status # "NONE", r.status # "NONE"
          PROVE  Written(r, s, n).status # "NONE"
      BY <3>3 DEF Written, Row
    <3>4. \A s \in Row : Cancelled(s).status # "NONE" /\ Expired(s).status # "NONE"
                         /\ Filled(s).status # "NONE"
      BY DEF Cancelled, Expired, Filled, Row
    <3>5. CASE RejectCommit
      BY <3>1, <3>2, <3>3, <3>4, <3>5 DEF RejectCommit, WorkerWrites
    <3>6. CASE ExpireCommit
      BY <3>1, <3>2, <3>3, <3>4, <3>6 DEF ExpireCommit, WorkerWrites
    <3>7. CASE CaptureCommit
      BY <3>1, <3>2, <3>3, <3>4, <3>7 DEF CaptureCommit, WorkerWrites
    <3> QED
      BY <3>5, <3>6, <3>7
  <2>3. row[p].reserved \in Nat /\ p.amt \in Nat
    BY ClaimsAreAmounts, AmountAssumption DEF PlansInv, ClaimsInv
  <2>4. row'[p].reserved <= row[p].reserved
    BY <1>1, <2>3
  <2>5. CASE row[p].status = "NONE"
    BY <2>1, <2>3, <2>5 DEF Claim
  <2>6. CASE row[p].status # "NONE"
    BY <2>2, <2>4, <2>6 DEF Claim
  <2> QED
    BY <2>5, <2>6
<1>4. worker.left \in Nat
  BY AmountAssumption DEF PlansInv, TypeOK
<1> QED
  BY <1>1, <1>2, <1>3, <1>4, ClaimsShrink DEF PlansInv

LEMMA PlannerLoadClaims ==
  ASSUME PlansInv, CInv', PlannerLoad
  PROVE  SumsInv'
<1>1. /\ worker'.new = {} /\ worker'.left \in 0 .. MaxPower
      /\ worker'.left = 0 \/ ReservedBy(Plans) + worker'.left <= MaxPower
      /\ UNCHANGED <<row, req>>
  BY PlannerLoadLeft DEF PlannerLoad, PlannerStays, planned
<1>2. CASE worker'.left = 0
  BY <1>1, <1>2, StayingClaims, AmountAssumption DEF PlansInv, TypeOK
<1>3. CASE ReservedBy(Plans) + worker'.left <= MaxPower
  <2> DEFINE Sum(S) == SumFunctionOnSet(Claim, S)
  <2>1. Claim' = Claim /\ Claiming' = Active \cup Held
    BY <1>1 DEF Claim, Claiming, Active, IsActive, Held
  <2>2. /\ \A q \in Plans : Claim[q] \in Nat
        /\ Held \subseteq Plans /\ Active \subseteq Plans
        /\ IsFiniteSet(Held) /\ IsFiniteSet(Active) /\ IsFiniteSet(Active \cup Held)
    BY ClaimsAreAmounts DEF PlansInv, Active
  <2>3. Sum(Active \cup Held) <= Sum(Active) + Sum(Held)
    <3>1. \A q \in Active \cup Held : Claim[q] \in Nat
      BY <2>2
    <3> QED
      BY <2>2, <3>1, SumOfUnion
  <2>4. Sum(Active) = ReservedBy(Plans)
    BY ReservedIsClaimed DEF PlansInv
  <2>5. Sum(Held) <= Cardinality(Handlers) * MaxPower
    BY HeldBounded DEF PlansInv
  <2>6. (Cardinality(Handlers) + 1) * MaxPower = Cardinality(Handlers) * MaxPower + MaxPower
        /\ Cardinality(Handlers) * MaxPower \in Int
    BY FinitenessAssumption, FS_CardinalityType, AmountAssumption
  <2>7. Sum(Active \cup Held) \in Nat /\ Sum(Active) \in Nat /\ Sum(Held) \in Nat
        /\ worker'.left \in Int /\ MaxPower \in Int
    <3>1. \A q \in Active \cup Held : Claim[q] \in Nat
      BY <2>2
    <3>2. Sum(Active \cup Held) \in Nat
      BY <2>2, <3>1, SumIsNat
    <3>3. Sum(Active) \in Nat
      BY <2>2, <3>1, SumIsNat
    <3>4. Sum(Held) \in Nat
      BY <2>2, <3>1, SumIsNat
    <3> QED
      BY <1>1, <3>2, <3>3, <3>4, AmountAssumption
  <2>8. Sum(Active \cup Held) + worker'.left <= (Cardinality(Handlers) + 1) * MaxPower
    <3> HIDE DEF Sum
    <3> QED
      BY <1>3, <2>3, <2>4, <2>5, <2>6, <2>7
  <2>9. SumFunctionOnSet(Claim', worker'.new) + worker'.left <= MaxPower
    BY <1>1, SumEmpty, AmountAssumption
  <2> QED
    BY <2>1, <2>8, <2>9 DEF SumsInv
<1> QED
  BY <1>1, <1>2, <1>3

LEMMA ReservesClaims ==
  ASSUME PlansInv, CInv', NEW d \in Decisions, PlannerReserves(d)
  PROVE  SumsInv'
<1> DEFINE c == Candidate(d)  Sum(S) == SumFunctionOnSet(Claim, S)
<1>1. /\ c \in Plans /\ row[c].status = "NONE" /\ c.amt \in Nat
      /\ worker'.new = worker.new \cup {c} /\ worker'.left = worker.left - c.amt
      /\ UNCHANGED <<row, req>>
  BY ReservesLeft DEF PlannerReserves, PlannerStays, planned
<1>2. Claim' = Claim /\ Claim[c] = c.amt /\ Claiming' = Claiming \cup {c}
  BY <1>1 DEF Claim, Claiming, Active, IsActive, Held
<1> HIDE DEF c
<1>3. ASSUME NEW S \in SUBSET Plans
      PROVE  Sum(S \cup {c}) <= Sum(S) + c.amt /\ Sum(S \cup {c}) \in Nat /\ Sum(S) \in Nat
  <2>1. \A q \in Plans : Claim[q] \in Nat
    BY ClaimsAreAmounts DEF PlansInv
  <2>2. IsFiniteSet(S) /\ S \cup {c} \subseteq Plans /\ IsFiniteSet(S \cup {c})
    BY <1>1, ClaimsAreAmounts DEF PlansInv
  <2>3. Sum(S) \in Nat /\ Sum(S \cup {c}) \in Nat
    BY <2>1, <2>2, SumIsNat
  <2>4. CASE c \in S
    <3>1. S \cup {c} = S
      BY <2>4
    <3>2. Sum(S \cup {c}) = Sum(S)
      BY <3>1
    <3> HIDE DEF Sum
    <3> QED
      BY <1>1, <2>3, <3>2
  <2>5. CASE c \notin S
    <3>1. Sum(S \cup {c}) = Sum(S) + Claim[c]
      BY <2>1, <2>2, <2>5, SumAdds
    <3> HIDE DEF Sum
    <3> QED
      BY <1>1, <1>2, <2>3, <3>1
  <2> QED
    BY <2>4, <2>5
<1>4. worker.new \subseteq Plans /\ Claiming \subseteq Plans
  BY ClaimsAreAmounts DEF PlansInv
<1>5. /\ Sum(worker.new) + worker.left <= MaxPower
      /\ Sum(Claiming) + worker.left <= (Cardinality(Handlers) + 1) * MaxPower
      /\ worker.left \in Nat /\ MaxPower \in Nat
      /\ (Cardinality(Handlers) + 1) * MaxPower \in Int
  BY AmountAssumption, FinitenessAssumption, FS_CardinalityType DEF PlansInv, ClaimsInv, TypeOK
<1>6. Sum(worker.new \cup {c}) <= Sum(worker.new) + c.amt
      /\ Sum(worker.new \cup {c}) \in Nat /\ Sum(worker.new) \in Nat
  BY <1>3, <1>4
<1>7. Sum(Claiming \cup {c}) <= Sum(Claiming) + c.amt
      /\ Sum(Claiming \cup {c}) \in Nat /\ Sum(Claiming) \in Nat
  BY <1>3, <1>4
<1>8. Sum(worker.new \cup {c}) + (worker.left - c.amt) <= MaxPower
  <2> HIDE DEF Sum
  <2> QED
    BY <1>1, <1>5, <1>6
<1>9. Sum(Claiming \cup {c}) + (worker.left - c.amt) <= (Cardinality(Handlers) + 1) * MaxPower
  <2> HIDE DEF Sum
  <2> QED
    BY <1>1, <1>5, <1>7
<1> QED
  BY <1>1, <1>2, <1>8, <1>9 DEF SumsInv

LEMMA PlannerCommitsClaims ==
  ASSUME PlansInv, CInv', PlannerCommits
  PROVE  SumsInv'
<1>1. row' = [p \in Plans |-> IF p \in worker.new THEN NewRow(p) ELSE row[p]]
      /\ worker'.new = {} /\ worker'.left = 0 /\ req' = req
  BY DEF PlannerCommits, AtTurn
<1>2. \A p \in worker.new : p \in Plans /\ row[p].status = "NONE"
  BY DEF PlansInv, CInv, WorkerInv
<1>3. \A p \in Plans : Claim[p] \in Nat
  BY ClaimsAreAmounts DEF PlansInv
<1>4. \A p \in Plans : Claim'[p] = Claim[p] /\ (IsActive(p)' => IsActive(p) \/ p \in worker.new)
  BY <1>1, <1>2 DEF Claim, NewRow, IsActive
<1>5. Claiming' \subseteq Claiming /\ Claiming \subseteq Plans
  BY <1>1, <1>4, ClaimsAreAmounts DEF Claiming, Active, Held, PlansInv
<1>6. worker.left \in Nat
  BY AmountAssumption DEF PlansInv, TypeOK
<1> QED
  BY <1>1, <1>3, <1>4, <1>5, <1>6, ClaimsShrink DEF PlansInv

LEMMA SumsKeep == PlansInv /\ CInv' /\ [Next]_vars => SumsInv'
<1> SUFFICES ASSUME PlansInv, CInv', [Next]_vars PROVE SumsInv'
  OBVIOUS
<1>1. worker.left \in Nat
  BY AmountAssumption DEF PlansInv, TypeOK
<1>2. ASSUME NEW h \in Handlers, HandlerNext(h) PROVE SumsInv'
  <2>1. ASSUME NEW p \in Plans, CreateLoad(h, p) PROVE SumsInv'
    BY <2>1, HandlerLoadClaims
  <2>2. ASSUME NEW p \in Plans, CancelLoad(h, p) PROVE SumsInv'
    BY <2>2, UpdateLoadClaims DEF CancelLoad
  <2>3. ASSUME NEW p \in Plans, NEW a \in Assessments \cup {None}, RevalidateLoad(h, p, a)
        PROVE  SumsInv'
    BY <2>3, UpdateLoadClaims DEF RevalidateLoad, IsActive, ActivePlan
  <2>4. CASE HandlerCommits(h) \/ HandlerDies(h)
    BY <2>4, HandlerCommitClaims DEF HandlerCommits
  <2> QED
    BY <1>2, <2>1, <2>2, <2>3, <2>4 DEF HandlerNext
<1>3. ASSUME NEW t, worker' = AtTurn(t), UNCHANGED <<row, req>> PROVE SumsInv'
  BY <1>1, <1>3, StayingClaims DEF AtTurn
<1>4. CASE RejectLoad \/ ExpireLoad \/ CaptureLoad
  <2>1. worker'.new = {} /\ worker'.left = 0 /\ UNCHANGED <<row, req>>
    <3>1. ASSUME NEW from, NEW to, NEW S, NEW lapsing, NEW registering,
                 WorkerLoads(from, to, S, lapsing, registering)
          PROVE  worker'.new = {} /\ worker'.left = 0 /\ UNCHANGED <<row, req>>
      BY <3>1 DEF WorkerLoads, AtTurn, planned
    <3> QED
      BY <1>4, <3>1 DEF RejectLoad, ExpireLoad, CaptureLoad
  <2> QED
    BY <1>1, <2>1, StayingClaims
<1>5. CASE RejectCommit \/ ExpireCommit \/ CaptureCommit
  BY <1>5, WorkerCommitClaims
<1>6. CASE PlannerSkips \/ WorkerDies \/ \E d \in Decisions : PlannerCollides(d)
  BY <1>3, <1>6 DEF PlannerSkips, WorkerDies, PlannerCollides, PlannerStays, planned
<1>7. ASSUME NEW d \in Decisions, PlannerPasses(d) PROVE SumsInv'
  <2>1. worker'.new = worker.new /\ worker'.left = worker.left /\ UNCHANGED <<row, req>>
    BY <1>7 DEF PlannerPasses, PlannerStays, planned
  <2> QED
    BY <1>1, <2>1, StayingClaims
<1>8. CASE Environment
  BY <1>1, <1>8, EnvironmentTypes, StayingClaims
<1>9. CASE UNCHANGED vars
  BY <1>1, <1>9, StayingClaims DEF vars, planned
<1> QED
  BY <1>2, <1>4, <1>5, <1>6, <1>7, <1>8, <1>9, PlannerLoadClaims, ReservesClaims,
     PlannerCommitsClaims DEF Next, WorkerNext, Works, Plan

LEMMA InitClaims == Init => PlansInv
<1> SUFFICES ASSUME Init PROVE PlansInv
  OBVIOUS
<1>1. PICK old \in SUBSET Legacy :
        /\ SumFunctionOnSet([p \in Plans |-> p.amt], old) <= MaxPower
        /\ row = [p \in Plans |-> IF p \in old THEN NewRow(p) ELSE NoRow]
  BY DEF Init
<1> DEFINE w == [p \in Plans |-> p.amt]
<1>2. CInv
  BY InitHolds
<1>3. old \subseteq Plans /\ IsFiniteSet(old) /\ \A p \in Plans : w[p] \in Nat /\ w[p] = p.amt
  BY <1>2, ClaimsAreAmounts, AmountAssumption DEF Legacy
<1>4. Claim = w
  BY <1>1 DEF Claim, NewRow, NoRow
<1>5. worker.new = {} /\ worker.left = 0 /\ worker.target = 0 /\ worker.turn = "REJECT"
      /\ DOMAIN worker.seen = {}
  BY DEF Init, AtTurn, NothingSeen
<1>6. Claiming \subseteq old
  BY <1>1, <1>5 DEF Init, Claiming, Active, IsActive, NoRow, Held, ActivePlan
<1> HIDE DEF w
<1>7. SumFunctionOnSet(Claim, Claiming) <= MaxPower /\ SumFunctionOnSet(Claim, Claiming) \in Nat
      /\ \A p \in old : p.amt <= MaxPower
  <2>1. IsFiniteSet(Claiming)
    BY <1>3, <1>6, FS_Subset
  <2>2. SumFunctionOnSet(w, Claiming) <= SumFunctionOnSet(w, old)
    BY <1>3, <1>6, SumOfSubset
  <2>3. SumFunctionOnSet(w, Claiming) \in Nat /\ SumFunctionOnSet(w, old) \in Nat
        /\ \A p \in old : w[p] <= SumFunctionOnSet(w, old)
    BY <1>3, <1>6, <2>1, SumIsNat
  <2>4. SumFunctionOnSet(w, old) <= MaxPower
    BY <1>1 DEF w
  <2> QED
    BY <1>3, <1>4, <2>2, <2>3, <2>4, AmountAssumption
<1>8. MaxPower <= (Cardinality(Handlers) + 1) * MaxPower
  <2>1. Cardinality(Handlers) \in Nat
    BY FinitenessAssumption, FS_CardinalityType
  <2>2. (Cardinality(Handlers) + 1) * MaxPower = Cardinality(Handlers) * MaxPower + MaxPower
        /\ Cardinality(Handlers) * MaxPower \in Nat
    BY <2>1, AmountAssumption
  <2> QED
    BY <2>2, AmountAssumption
<1>9. SumsInv
  <2>1. (Cardinality(Handlers) + 1) * MaxPower \in Int
    BY FinitenessAssumption, FS_CardinalityType, AmountAssumption
  <2> QED
    BY <1>5, <1>7, <1>8, <2>1, SumEmpty, AmountAssumption DEF SumsInv
<1>10. TypesInv
  <2>1. RowAmounts
    BY <1>1, <1>3, <1>7, AmountAssumption DEF RowAmounts, NewRow, NoRow
  <2>2. RequestTypes
    BY DEF Init, RequestTypes, Idle
  <2>3. WorkerTypes
    BY <1>5, AmountAssumption DEF WorkerTypes, Turn
  <2>4. WorldTypes
    BY AmountAssumption DEF Init, WorldTypes, Phase
  <2> QED
    BY <2>1, <2>2, <2>3, <2>4 DEF TypesInv
<1> QED
  BY <1>2, <1>5, <1>9, <1>10, PlansInvParts

-----------------------------------------------------------------------------

(* The invariant holds of every plan, thread and schedule. *)
THEOREM PlansInductive == Spec => []PlansInv
<1>1. Init => PlansInv
  BY InitClaims
<1>2. (CInv /\ DOMAIN worker.seen \subseteq Plans => (PlansInv <=> TypesInv /\ SumsInv))'
  BY PlansInvParts, PTL
<1>3. PlansInv /\ [Next]_vars => PlansInv'
  <2> SUFFICES ASSUME PlansInv, [Next]_vars PROVE PlansInv'
    OBVIOUS
  <2>1. CInv'
    BY NextKeeps DEF PlansInv
  <2>2. SumsInv' /\ TypesInv'
    BY <2>1, SumsKeep, TypesKeep
  <2>3. DOMAIN worker'.seen \subseteq Plans
    BY <2>1 DEF CInv, WorkerInv, Relies
  <2> QED
    BY <1>2, <2>1, <2>2, <2>3
<1> QED
  BY <1>1, <1>3, PTL DEF Spec

(* Rows of plans, and what threads and the worker hold of them, have their *)
(* types whatever they wrote over each other.                              *)
THEOREM PlansTypeCorrect == Spec => []TypeOK
<1>1. PlansInv => TypeOK
  BY DEF PlansInv
<1> QED
  BY <1>1, PlansInductive, PTL

(* However many API threads create, revive and release plans, none of them *)
(* under a lock, the reservations of active plans never exceed the largest *)
(* buying power once for each thread and once for the worker               *)
(* (create_planned_trade, create_qualified_plans, revalidate_planned_trade).*)
THEOREM OverbookingIsBounded == Spec => []OverbookingBounded
<1>1. PlansInv => OverbookingBounded
  <2> SUFFICES ASSUME PlansInv PROVE OverbookingBounded
    OBVIOUS
  <2>1. ReservedBy(Plans) = SumFunctionOnSet(Claim, Active) /\ ReservedBy(Plans) \in Nat
    BY ReservedIsClaimed DEF PlansInv
  <2>2. IsFiniteSet(Claiming) /\ Active \subseteq Claiming /\ \A p \in Claiming : Claim[p] \in Nat
    BY ClaimsAreAmounts DEF PlansInv, Claiming
  <2>3. SumFunctionOnSet(Claim, Active) <= SumFunctionOnSet(Claim, Claiming)
    BY <2>2, SumOfSubset
  <2>4. SumFunctionOnSet(Claim, Claiming) \in Nat
    BY <2>2, SumIsNat
  <2>5. SumFunctionOnSet(Claim, Claiming) + worker.left <= (Cardinality(Handlers) + 1) * MaxPower
        /\ worker.left \in Nat /\ (Cardinality(Handlers) + 1) * MaxPower \in Int
    BY AmountAssumption, FinitenessAssumption, FS_CardinalityType DEF PlansInv, ClaimsInv, TypeOK
  <2> QED
    BY <2>1, <2>3, <2>4, <2>5 DEF OverbookingBounded
<1> QED
  BY <1>1, PlansInductive, PTL

(* A plan ready for final approval carries an assessment of its own        *)
(* decision, whatever stale writes met on its row.                          *)
THEOREM FinalApprovalIsAssessed == Spec => []ReadyIsAssessed
<1>1. PlansInv => ReadyIsAssessed
  BY DEF PlansInv, CInv, RowsInv, Sound, Row, ReadyIsAssessed
<1> QED
  BY <1>1, PlansInductive, PTL
=============================================================================
