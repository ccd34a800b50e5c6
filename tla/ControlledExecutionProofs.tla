--------------------- MODULE ControlledExecutionProofs ---------------------
(***************************************************************************)
(* What ControlledExecution guarantees for every number of intents,        *)
(* threads, fill units and faults.                                         *)
(*                                                                         *)
(* Each step keeps Forward: approvals, references, posted records and the  *)
(* broker's orders and fills are never taken back.  What a thread relies   *)
(* on therefore survives the steps of all other threads (ThreadKept), and  *)
(* each action need only justify the thread and the record it writes.      *)
(***************************************************************************)
EXTENDS ControlledExecution, TLAPS

\* The state only moves forward.
Forward ==
  /\ \A i \in Intents : approval[i] => approval'[i]
  /\ \A i \in Intents : record[i] \in Posted => record'[i] \in Posted
  /\ \A i \in Intents : ref[i] # None => ref'[i] # None
  /\ \A i \in Intents : AtBroker(i) => AtBroker(i)'
  /\ \A i \in Intents : Filled(i, 1) => Filled(i, 1)'
  /\ \A i \in Intents : Filled(i, Qty) => Filled(i, Qty)'

\* A thread's reliance survives any forward step that leaves alone the record
\* whose order it is placing.
LEMMA ThreadKept ==
  ASSUME NEW q \in Request, ThreadInv(q), Forward,
         q.pc = "placing" => record'[q.i] = record[q.i]
  PROVE  ThreadInv(q)'
<1>1. q.pc \notin {"idle", "sweeping"} => q.i \in Intents
  BY DEF ThreadInv
<1>2. q.pc \in AfterSubmission \cup {"reviewing", "placing", "reconciling", "cancelling", "bound"}
        => q.i \in Intents
  BY <1>1 DEF AfterSubmission
<1>3. (\E r \in Intents : AtBroker(r)) => \E r \in Intents : AtBroker(r)'
  BY DEF Forward
<1>4. q.i \in Intents /\ Backed(q.i, q.ev) => Backed(q.i, q.ev)'
  BY DEF Forward, Backed
<1> QED
  BY <1>2, <1>3, <1>4 DEF ThreadInv, Forward, AfterSubmission

\* A step of thread t keeps every thread's reliance if it keeps t's and
\* disturbs no record another thread is placing.
LEMMA ThreadsKept ==
  ASSUME TypeOK, TypeOK', ThreadsInv, Forward,
         NEW t \in Threads, ThreadInv(req[t])',
         \A u \in Threads \ {t} : req'[u] = req[u],
         \A u \in Threads \ {t} : req[u].pc = "placing" => record'[req[u].i] = record[req[u].i]
  PROVE  ThreadsInv'
<1> SUFFICES ASSUME NEW u \in Threads PROVE ThreadInv(req[u])'
  BY DEF ThreadsInv
<1>1. CASE u = t
  BY <1>1
<1>2. CASE u # t
  <2>1. PICK q \in Request : q = req[u]
    BY DEF TypeOK
  <2>2. ThreadInv(q) /\ (q.pc = "placing" => record'[q.i] = record[q.i])
    BY <1>2, <2>1 DEF ThreadsInv
  <2>3. ThreadInv(q)'
    BY <2>2, ThreadKept
  <2> QED
    BY <1>2, <2>1, <2>3 DEF ThreadInv
<1> QED
  BY <1>1, <1>2

\* The records the worker listed stay past submission.
LEMMA BatchKept ==
  ASSUME BatchInv, Forward, UNCHANGED batch
  PROVE  BatchInv'
BY DEF BatchInv, Forward

\* The invariant survives any forward step of one thread that leaves the
\* ledger consistent, leaves the thread justified in what it now holds, and
\* writes no record another thread is placing.
LEMMA CommitKeeps ==
  ASSUME IInv, TypeOK', LedgerInv', Forward,
         NEW t \in Threads, NEW q \in Request, Enters(t, q), ThreadInv(q)',
         q.pc = "placing" => \A u \in Threads : At(u, "placing") => req[u].i # q.i,
         \A u \in Threads \ {t} : req[u].pc = "placing" => record'[req[u].i] = record[req[u].i]
  PROVE  IInv'
<1>1. req'[t] = q /\ \A u \in Threads \ {t} : req'[u] = req[u]
  BY DEF IInv, TypeOK, Enters
<1>2. ThreadInv(req[t])'
  BY <1>1 DEF ThreadInv
<1>3. ThreadsInv'
  BY <1>1, <1>2, ThreadsKept DEF IInv
<1>4. OnePlaces'
  BY <1>1 DEF IInv, OnePlaces, At
<1>5. BatchInv'
  BY BatchKept DEF IInv, Enters
<1> QED
  BY <1>3, <1>4, <1>5 DEF IInv

\* A step of a thread alone: it keeps the invariant if the thread may rely on
\* what it now holds.
LEMMA MoveKeeps ==
  ASSUME IInv, NEW t \in Threads, NEW q \in Request, ThreadInv(q), q.pc # "placing",
         Moves(t, q)
  PROVE  IInv'
<1> USE DEF Moves, rows, ledger, broker, controls
<1>1. TypeOK'
  BY DEF IInv, TypeOK, Enters
<1>2. Forward
  BY DEF Forward, AtBroker, Filled
<1>3. ThreadInv(q)'
  BY <1>2, ThreadKept
<1>4. LedgerInv'
  BY DEF IInv, LedgerInv, AtBroker, Backed, Filled
<1> QED
  BY <1>1, <1>2, <1>3, <1>4, CommitKeeps

\* A thread that ends, or goes back to the worker's list, relies on nothing.
LEMMA RestIsSafe ==
  ASSUME IInv, NEW t \in Threads, NEW brk \in BOOLEAN
  PROVE  /\ Rest(t, brk) \in Request
         /\ Rest(t, brk).pc \in {"idle", "sweeping"}
<1> USE DEF Rest, Idle, Request, Steps, Refs, IntentStatus, RecordStatus, Unsubmitted, Evidence
<1>1. Idle \in Request
  OBVIOUS
<1>2. [Idle EXCEPT !.pc = "sweeping", !.brk = brk] \in Request
  OBVIOUS
<1> QED
  BY <1>1, <1>2

LEMMA AtRest ==
  ASSUME NEW q \in Request, q.pc \in {"idle", "sweeping"}
  PROVE  ThreadInv(q) /\ ThreadInv(q)'
BY DEF ThreadInv, AfterSubmission

LEMMA DropKeeps ==
  ASSUME IInv, NEW t \in Threads, Drops(t)
  PROVE  IInv'
<1>1. req[t].brk \in BOOLEAN
  BY DEF IInv, TypeOK, Request
<1> DEFINE q == Rest(t, req[t].brk)
<1>2. q \in Request /\ q.pc \in {"idle", "sweeping"}
  BY <1>1, RestIsSafe
<1>3. Moves(t, q)
  BY DEF Drops
<1> HIDE DEF q
<1>4. ThreadInv(q) /\ q.pc # "placing"
  BY <1>2, AtRest
<1> QED
  BY <1>2, <1>3, <1>4, MoveKeeps

-----------------------------------------------------------------------------
(* Steps that load, call out or give up                                    *)

\* What reconcile() concludes from a visible order is backed by the broker, so
\* a thread may reconcile a posted record against it.
LEMMA VisibleIsEvidence ==
  ASSUME IInv, NEW i \in Intents, NEW row \in IntentStatus, NEW rec \in RecordStatus,
         NEW r \in Refs, NEW brk \in BOOLEAN,
         Visible(r), record[i] \in Posted, ref[i] # None
  PROVE  /\ Reconciling(i, row, rec, r, brk) \in Request
         /\ ThreadInv(Reconciling(i, row, rec, r, brk))
         /\ Reconciling(i, row, rec, r, brk).pc = "reconciling"
<1> DEFINE q == Reconciling(i, row, rec, r, brk)
<1>1. r \in Intents /\ seen[r] # Absent /\ r # None
  BY DEF Visible, Refs
<1>2. AtBroker(r) /\ order[r].filled >= seen[r] /\ seen[r] \in 0..MaxFilled
      /\ order[r].filled \in 0..MaxFilled
  BY <1>1 DEF IInv, LedgerInv, TypeOK, Order
<1>3. Judged(i, r) \in Evidence
  BY DEF Judged, Evidence
<1>4. Backed(i, Judged(i, r))
  BY <1>1, <1>2, QtyAssumption DEF Judged, Backed, Filled
<1>5. /\ q \in Request
      /\ q.pc = "reconciling" /\ q.i = i /\ q.ref = r /\ q.ev = Judged(i, r)
  BY <1>1, <1>3 DEF Reconciling, Idle, Request, Steps, Refs
<1> HIDE DEF q
<1>6. ThreadInv(q)
  BY <1>1, <1>2, <1>4, <1>5 DEF ThreadInv, AfterSubmission
<1> QED
  BY <1>5, <1>6 DEF q

LEMMA LoadsKeep ==
  ASSUME IInv, NEW t \in Threads, NEW i \in Intents,
         \/ ApproveLoad(t, i) \/ RejectLoad(t, i) \/ ReviewLoad(t, i)
         \/ ExecuteLoad(t, i) \/ CancelLoad(t, i) \/ RecoverLoad(t, i)
  PROVE  IInv'
<1> USE DEF Idle, Request, Steps, Refs, IntentStatus, RecordStatus, Unsubmitted, Evidence
<1>1. CASE ApproveLoad(t, i) \/ RejectLoad(t, i) \/ ReviewLoad(t, i)
  <2> DEFINE q(pc) == [Idle EXCEPT !.pc = pc, !.i = i]
  <2>1. PICK pc \in {"approving", "rejecting", "expiring", "reviewing"} :
          Moves(t, q(pc)) /\ (pc = "reviewing" => approval[i])
    BY <1>1 DEF ApproveLoad, RejectLoad, ReviewLoad
  <2>2. q(pc) \in Request /\ q(pc).pc = pc /\ q(pc).i = i
    OBVIOUS
  <2>3. ThreadInv(q(pc))
    BY <2>1, <2>2 DEF ThreadInv, AfterSubmission
  <2> HIDE DEF q
  <2> QED
    BY <2>1, <2>2, <2>3, MoveKeeps
<1>2. CASE ExecuteLoad(t, i)
  <2> DEFINE q == [Idle EXCEPT !.pc = "executing", !.i = i, !.age = age[i], !.cap = authCap]
  <2>1. q \in Request /\ q.pc = "executing" /\ q.i = i
    BY DEF IInv, TypeOK
  <2>2. ThreadInv(q)
    BY <2>1 DEF ThreadInv, AfterSubmission
  <2>3. Moves(t, q)
    BY <1>2 DEF ExecuteLoad
  <2> HIDE DEF q
  <2> QED
    BY <2>1, <2>2, <2>3, MoveKeeps
<1>3. CASE CancelLoad(t, i)
  <2> DEFINE q == [Idle EXCEPT !.pc = "cancelling", !.i = i]
  <2>1. q \in Request /\ q.pc = "cancelling" /\ q.i = i
    OBVIOUS
  <2>2. record[i] \in KnownRecord /\ ref[i] # None
    BY <1>3 DEF CancelLoad, KnownRecord
  <2>3. \E r \in Intents : AtBroker(r)
    BY <2>2 DEF IInv, LedgerInv
  <2>4. ThreadInv(q)
    BY <2>1, <2>2, <2>3 DEF ThreadInv, AfterSubmission, Posted
  <2>5. Moves(t, q)
    BY <1>3 DEF CancelLoad
  <2> HIDE DEF q
  <2> QED
    BY <2>1, <2>4, <2>5, MoveKeeps
<1>4. CASE RecoverLoad(t, i)
  <2> DEFINE q == [Idle EXCEPT !.pc = "recovering", !.i = i, !.row = intent[i],
                               !.rec = record[i], !.ref = ref[i]]
  <2>1. q \in Request /\ q.pc = "recovering" /\ q.i = i /\ q.ref = ref[i]
    BY DEF IInv, TypeOK
  <2>2. ThreadInv(q)
    BY <1>4, <2>1 DEF ThreadInv, AfterSubmission, Posted, RecoverLoad
  <2>3. Moves(t, q)
    BY <1>4 DEF RecoverLoad
  <2> HIDE DEF q
  <2> QED
    BY <2>1, <2>2, <2>3, MoveKeeps
<1> QED
  BY <1>1, <1>2, <1>3, <1>4

LEMMA ReconcileLoadKeeps ==
  ASSUME IInv, NEW t \in Threads, NEW i \in Intents, ReconcileLoad(t, i)
  PROVE  IInv'
<1> DEFINE q == Reconciling(i, intent[i], record[i], ref[i], breaker)
<1>1. /\ record[i] \in Posted /\ Visible(ref[i]) /\ ref[i] # None
      /\ intent[i] \in IntentStatus /\ record[i] \in RecordStatus /\ ref[i] \in Refs
      /\ breaker \in BOOLEAN
  BY DEF IInv, TypeOK, ReconcileLoad, Reconcilable, Posted, KnownRecord, Visible
<1>2. q \in Request /\ ThreadInv(q) /\ q.pc = "reconciling"
  BY <1>1, VisibleIsEvidence
<1>3. Moves(t, q)
  BY DEF ReconcileLoad
<1> HIDE DEF q
<1> QED
  BY <1>2, <1>3, MoveKeeps

LEMMA GivingUpKeeps ==
  ASSUME IInv, NEW t \in Threads,
         ReviewFails(t) \/ ExecuteReturns(t) \/ PlaceRaises(t) \/ CancelRefused(t)
  PROVE  IInv'
BY DropKeeps DEF ReviewFails, ExecuteReturns, PlaceRaises, CancelRefused

LEMMA CallingOutKeeps ==
  ASSUME IInv, NEW t \in Threads, CancelUnknown(t) \/ RecoverReconciles(t)
  PROVE  IInv'
<1>0. req[t] \in Request /\ ThreadInv(req[t]) /\ breaker \in BOOLEAN
  BY DEF IInv, TypeOK, ThreadsInv
<1>1. CASE CancelUnknown(t)
  <2> DEFINE q == [req[t] EXCEPT !.pc = "alarming", !.brk = breaker]
  <2>1. q \in Request /\ q.pc = "alarming" /\ q.i = req[t].i /\ q.ref = req[t].ref
    BY <1>0 DEF Request, Steps
  <2>2. ThreadInv(q)
    BY <1>0, <1>1, <2>1 DEF ThreadInv, AfterSubmission, CancelUnknown, At
  <2>3. Moves(t, q)
    BY <1>1 DEF CancelUnknown
  <2> HIDE DEF q
  <2> QED
    BY <2>1, <2>2, <2>3, MoveKeeps
<1>2. CASE RecoverReconciles(t) /\ Visible(req[t].ref)
  <2> DEFINE p == req[t]
             q == Reconciling(p.i, p.row, p.rec, p.ref, breaker)
  <2>1. /\ p.i \in Intents /\ record[p.i] \in Posted /\ ref[p.i] # None
        /\ p.row \in IntentStatus /\ p.rec \in RecordStatus /\ p.ref \in Refs
    BY <1>0, <1>2 DEF ThreadInv, AfterSubmission, RecoverReconciles, At, Request
  <2>2. q \in Request /\ ThreadInv(q) /\ q.pc = "reconciling"
    BY <1>0, <1>2, <2>1, VisibleIsEvidence
  <2>3. Moves(t, q)
    BY <1>2 DEF RecoverReconciles
  <2> HIDE DEF q
  <2> QED
    BY <2>2, <2>3, MoveKeeps
<1>3. CASE RecoverReconciles(t) /\ ~Visible(req[t].ref)
  <2>1. Idle \in Request /\ Idle.pc = "idle"
    BY DEF Idle, Request, Steps, Refs, IntentStatus, RecordStatus, Unsubmitted, Evidence
  <2>2. Moves(t, Idle)
    BY <1>3 DEF RecoverReconciles
  <2> QED
    BY <2>1, <2>2, AtRest, MoveKeeps
<1> QED
  BY <1>1, <1>2, <1>3

-----------------------------------------------------------------------------
(* Commits                                                                 *)

\* The intent's own status carries no obligation: whatever a handler writes
\* there, and whomever it overwrites, the ledger is as it was.
LEMMA SetsIntentKeeps ==
  ASSUME IInv, NEW t \in Threads, NEW row \in IntentStatus, SetsIntent(t, row),
         approval' \in [Intents -> BOOLEAN],
         \A i \in Intents : approval[i] => approval'[i]
  PROVE  IInv'
<1>0. req[t].brk \in BOOLEAN
  BY DEF IInv, TypeOK, Request
<1>1. PICK q \in Request : q = Rest(t, req[t].brk) /\ q.pc \in {"idle", "sweeping"}
  BY <1>0, RestIsSafe
<1>2. Enters(t, q)
  BY <1>1 DEF SetsIntent, Leaves
<1> USE DEF SetsIntent, ledger, broker, controls
<1>3. TypeOK'
  BY <1>1, <1>2 DEF IInv, TypeOK, Enters
<1>4. Forward
  BY DEF Forward, AtBroker, Filled
<1>5. LedgerInv'
  BY DEF IInv, LedgerInv, AtBroker, Backed, Filled
<1>6. ThreadInv(q)'
  BY <1>1, AtRest
<1> QED
  BY <1>1, <1>2, <1>3, <1>4, <1>5, <1>6, CommitKeeps

LEMMA IntentCommitsKeep ==
  ASSUME IInv, NEW t \in Threads,
         ApproveCommit(t) \/ RejectCommit(t) \/ ExpireCommit(t) \/ ExecuteExpires(t)
  PROVE  IInv'
<1>1. PICK row \in {"APPROVED_TRIAL_ONLY", "REJECTED", "EXPIRED"} : SetsIntent(t, row)
  BY DEF ApproveCommit, RejectCommit, ExpireCommit, ExecuteExpires
<1>2. row \in IntentStatus
  BY DEF IntentStatus, PendingIntent
<1>3. approval' \in [Intents -> BOOLEAN] /\ \A i \in Intents : approval[i] => approval'[i]
  BY DEF IInv, TypeOK, ApproveCommit, RejectCommit, ExpireCommit, ExecuteExpires
<1> QED
  BY <1>1, <1>2, <1>3, SetsIntentKeeps

\* A commit may write status rec to the record of intent i: it does not step
\* back, it claims no more than the broker shows, and nobody else is placing.
MayRecord(t, i, rec) ==
  /\ record[i] \in Posted => rec \in Posted
  /\ rec \in Unsubmitted <=> record[i] \in Unsubmitted
  /\ rec = "REJECTED" => order[i].state = "refused"
  /\ record[i] = "REJECTED" => rec = "REJECTED"
  /\ rec # "NONE" => approval[i]
  /\ rec \in KnownRecord => \E r \in Intents : AtBroker(r)
  /\ Backed(i, rec)
  /\ rec = record[i] \/ \A u \in Threads \ {t} : ~(At(u, "placing") /\ req[u].i = i)

\* A step that writes one record, as it may, and nothing at the broker.
Recorded ==
  /\ \E t \in Threads, i \in Intents, rec \in RecordStatus :
       record' = [record EXCEPT ![i] = rec] /\ MayRecord(t, i, rec)
  /\ UNCHANGED broker

LEMMA RecordCommitKeeps ==
  ASSUME IInv, NEW t \in Threads, NEW brk \in BOOLEAN, NEW i \in Intents, NEW rec \in RecordStatus,
         Enters(t, Rest(t, brk)), record' = [record EXCEPT ![i] = rec], MayRecord(t, i, rec),
         intent' \in [Intents -> IntentStatus], ref' \in [Intents -> Refs],
         \A j \in Intents : ref[j] # None => ref'[j] # None,
         rec \in KnownRecord => ref'[i] # None,
         kill' \in BOOLEAN, breaker' \in BOOLEAN, authCap' \in Caps \cup {0},
         UNCHANGED <<approval, age, calls, broker>>
  PROVE  IInv' /\ Recorded
<1> USE DEF broker
<1>1. PICK q \in Request : q = Rest(t, brk) /\ q.pc \in {"idle", "sweeping"}
  BY RestIsSafe
<1>2. Enters(t, q)
  BY <1>1
<1>3. TypeOK'
  BY <1>1, <1>2 DEF IInv, TypeOK, Enters
<1>4. record'[i] = rec /\ \A j \in Intents \ {i} : record'[j] = record[j]
  BY DEF IInv, TypeOK
<1>5. Forward
  BY <1>4 DEF Forward, AtBroker, Filled, MayRecord
<1>6. LedgerInv'
  <2>1. ASSUME NEW j \in Intents
        PROVE  /\ calls'[j] = IF record'[j] \in Unsubmitted THEN 0 ELSE 1
               /\ order'[j].state = "none" <=> record'[j] \in Unsubmitted
               /\ record'[j] = "REJECTED" => order'[j].state = "refused"
               /\ record'[j] # "NONE" => approval'[j]
    BY <1>4 DEF IInv, LedgerInv, MayRecord
  <2>2. ASSUME NEW j \in Intents
        PROVE  record'[j] \in KnownRecord => ref'[j] # None /\ \E r \in Intents : AtBroker(r)'
    BY <1>4 DEF IInv, LedgerInv, MayRecord, AtBroker
  <2>3. ASSUME NEW j \in Intents PROVE Backed(j, record[j])'
    <3>1. Backed(j, record'[j])
      BY <1>4 DEF IInv, LedgerInv, MayRecord
    <3> QED
      BY <3>1 DEF Backed, Filled
  <2>4. ASSUME NEW j \in Intents
        PROVE  /\ order'[j].filled > 0 => AtBroker(j)'
               /\ seen'[j] # Absent => AtBroker(j)' /\ order'[j].filled >= seen'[j]
    BY DEF IInv, LedgerInv, AtBroker
  <2> QED
    BY <2>1, <2>2, <2>3, <2>4 DEF LedgerInv
<1>7. \A u \in Threads \ {t} : req[u].pc = "placing" => record'[req[u].i] = record[req[u].i]
  <2> SUFFICES ASSUME NEW u \in Threads \ {t}, req[u].pc = "placing"
               PROVE  record'[req[u].i] = record[req[u].i]
    OBVIOUS
  <2>1. req[u].i \in Intents
    BY DEF IInv, ThreadsInv, ThreadInv
  <2> QED
    BY <1>4, <2>1 DEF MayRecord, At
<1>8. ThreadInv(q)'
  BY <1>1, AtRest
<1>9. Recorded
  BY DEF Recorded
<1> QED
  BY <1>1, <1>2, <1>3, <1>5, <1>6, <1>7, <1>8, <1>9, CommitKeeps

\* What the record of a thread's intent is when the thread comes to commit.
LEMMA PlacingRecord ==
  ASSUME IInv, NEW t \in Threads, At(t, "placing")
  PROVE  /\ req[t].i \in Intents /\ record[req[t].i] = "SUBMITTING" /\ approval[req[t].i]
         /\ \A u \in Threads \ {t} : ~(At(u, "placing") /\ req[u].i = req[t].i)
BY DEF IInv, ThreadsInv, ThreadInv, OnePlaces, LedgerInv, At

LEMMA PostedRecord ==
  ASSUME IInv, NEW t \in Threads, req[t].pc \in AfterSubmission
  PROVE  /\ req[t].i \in Intents /\ record[req[t].i] \in Posted /\ approval[req[t].i]
         /\ \A u \in Threads \ {t} : ~(At(u, "placing") /\ req[u].i = req[t].i)
BY DEF IInv, ThreadsInv, ThreadInv, LedgerInv, At, AfterSubmission, Posted, KnownRecord, OpenRecord

LEMMA SetsBothKeeps ==
  ASSUME IInv, NEW t \in Threads, NEW row \in IntentStatus, NEW rec \in RecordStatus,
         SetsBoth(t, row, rec), req[t].i \in Intents, MayRecord(t, req[t].i, rec),
         ref' \in [Intents -> Refs], \A j \in Intents : ref[j] # None => ref'[j] # None,
         rec \in KnownRecord => ref'[req[t].i] # None,
         kill' \in BOOLEAN, breaker' \in BOOLEAN, authCap' \in Caps \cup {0}
  PROVE  IInv' /\ Recorded
<1>1. PICK i \in Intents : i = req[t].i
  OBVIOUS
<1>2. PICK brk \in BOOLEAN : brk = req[t].brk
  BY DEF IInv, TypeOK, Request
<1>3. /\ Enters(t, Rest(t, brk)) /\ record' = [record EXCEPT ![i] = rec]
      /\ intent' \in [Intents -> IntentStatus]
      /\ UNCHANGED <<approval, age, calls, broker>>
  BY <1>1, <1>2 DEF SetsBoth, Leaves, IInv, TypeOK
<1>4. MayRecord(t, i, rec)
  BY <1>1
<1> QED
  BY <1>1, <1>3, <1>4, RecordCommitKeeps

LEMMA ReviewCommitKeeps ==
  ASSUME IInv, NEW t \in Threads, ReviewCommit(t)
  PROVE  IInv' /\ Recorded
<1> DEFINE old == record[req[t].i]
<1>1. req[t].i \in Intents /\ approval[req[t].i]
  BY DEF IInv, ThreadsInv, ThreadInv, ReviewCommit, At
<1>2. PICK rec \in RecordStatus : rec = IF old = "NONE" THEN "REVIEWED_ONLY" ELSE old
  BY <1>1 DEF IInv, TypeOK, RecordStatus, Unsubmitted
<1>3. SetsBoth(t, "REVIEWED_TRIAL_ONLY", rec) /\ UNCHANGED <<ref, controls>>
  BY <1>2 DEF ReviewCommit
<1>4. MayRecord(t, req[t].i, rec)
  <2>1. CASE old = "NONE"
    <3>1. rec = "REVIEWED_ONLY" /\ old \notin Posted /\ rec \notin KnownRecord /\ rec \in Unsubmitted
      BY <1>2, <2>1 DEF Posted, KnownRecord, OpenRecord, Unsubmitted
    <3>2. \A u \in Threads \ {t} : ~(At(u, "placing") /\ req[u].i = req[t].i)
      BY <2>1 DEF IInv, ThreadsInv, ThreadInv, At
    <3> QED
      BY <1>1, <2>1, <3>1, <3>2 DEF MayRecord, Backed, Unsubmitted
  <2>2. CASE old # "NONE"
    BY <1>1, <1>2, <2>2 DEF MayRecord, IInv, LedgerInv
  <2> QED
    BY <2>1, <2>2
<1>5. rec \in KnownRecord => ref[req[t].i] # None
  BY <1>1, <1>2 DEF IInv, LedgerInv, KnownRecord, OpenRecord
<1>6. "REVIEWED_TRIAL_ONLY" \in IntentStatus
  BY DEF IntentStatus, PendingIntent
<1> QED
  BY <1>1, <1>3, <1>4, <1>5, <1>6, SetsBothKeeps DEF controls, IInv, TypeOK

LEMMA PlacesKeep ==
  ASSUME IInv, NEW t \in Threads,
         PlaceRefused(t) \/ PlaceUnknown(t) \/ PlaceMismatch(t) \/ PlaceConfirmed(t)
  PROVE  IInv' /\ Recorded
<1> DEFINE i == req[t].i
<1>1. /\ i \in Intents /\ record[i] = "SUBMITTING" /\ approval[i]
      /\ \A u \in Threads \ {t} : ~(At(u, "placing") /\ req[u].i = i)
  BY PlacingRecord DEF PlaceRefused, PlaceUnknown, PlaceMismatch, PlaceConfirmed
<1>2. record[i] \notin Posted /\ record[i] \notin Unsubmitted
  BY <1>1 DEF Posted, KnownRecord, OpenRecord, Unsubmitted
<1>3. i \in Refs /\ i # None /\ ref[i] \in Refs /\ ref \in [Intents -> Refs]
  BY <1>1, NoneIsNoIntent DEF Refs, IInv, TypeOK
<1>4. /\ {"BROKER_REJECTED", "EXECUTION_ATTENTION", "SUBMITTED"} \subseteq IntentStatus
      /\ {"REJECTED", "UNKNOWN", "SUBMITTED"} \subseteq RecordStatus
  BY DEF IntentStatus, RecordStatus, KnownRecord, OpenRecord
<1>5. kill \in BOOLEAN /\ breaker \in BOOLEAN /\ authCap \in Caps \cup {0}
  BY DEF IInv, TypeOK
<1>6. CASE PlaceRefused(t)
  <2>1. MayRecord(t, i, "REJECTED")
    BY <1>1, <1>2, <1>6 DEF MayRecord, Backed, Unsubmitted, KnownRecord, OpenRecord, PlaceRefused
  <2> QED
    BY <1>1, <1>3, <1>4, <1>5, <1>6, <2>1, SetsBothKeeps DEF PlaceRefused, controls, KnownRecord, OpenRecord
<1>7. CASE PlaceUnknown(t) \/ PlaceMismatch(t)
  <2>1. MayRecord(t, i, "UNKNOWN")
    BY <1>1, <1>2 DEF MayRecord, Backed, Unsubmitted, KnownRecord, OpenRecord
  <2>2. PICK r \in {ref[i], i} : PlaceDoubted(t, r)
    BY <1>7 DEF PlaceUnknown, PlaceMismatch
  <2>3. ref' \in [Intents -> Refs] /\ \A j \in Intents : ref[j] # None => ref'[j] # None
    BY <1>3, <2>2 DEF PlaceDoubted
  <2>4. "UNKNOWN" \notin KnownRecord
    BY DEF KnownRecord, OpenRecord
  <2> QED
    BY <1>1, <1>4, <1>5, <2>1, <2>2, <2>3, <2>4, SetsBothKeeps DEF PlaceDoubted
<1>8. CASE PlaceConfirmed(t)
  <2>1. MayRecord(t, i, "SUBMITTED")
    BY <1>1, <1>2, <1>8 DEF MayRecord, Backed, Unsubmitted, PlaceConfirmed
  <2>2. /\ ref' \in [Intents -> Refs] /\ \A j \in Intents : ref[j] # None => ref'[j] # None
        /\ ref'[i] # None
    BY <1>1, <1>3, <1>8 DEF PlaceConfirmed
  <2> QED
    BY <1>1, <1>4, <1>5, <1>8, <2>1, <2>2, SetsBothKeeps DEF PlaceConfirmed, controls
<1> QED
  BY <1>6, <1>7, <1>8

LEMMA CancelAcceptedKeeps ==
  ASSUME IInv, NEW t \in Threads, CancelAccepted(t)
  PROVE  IInv' /\ Recorded
<1> DEFINE i == req[t].i
           rec == "CANCEL_REQUESTED"
<1>1. /\ i \in Intents /\ record[i] \in Posted /\ approval[i]
      /\ \A u \in Threads \ {t} : ~(At(u, "placing") /\ req[u].i = i)
  BY PostedRecord DEF CancelAccepted, At, AfterSubmission
<1>2. ref[i] # None /\ \E r \in Intents : AtBroker(r)
  BY DEF IInv, ThreadsInv, ThreadInv, CancelAccepted, At
<1>3. rec \in Posted /\ rec \in RecordStatus /\ rec \in IntentStatus /\ rec \notin Unsubmitted
      /\ record[i] \notin Unsubmitted /\ record[i] # "REJECTED"
  BY <1>1 DEF Posted, KnownRecord, OpenRecord, RecordStatus, IntentStatus, Unsubmitted
<1>4. MayRecord(t, i, rec)
  BY <1>1, <1>2, <1>3 DEF MayRecord, Backed
<1> QED
  BY <1>1, <1>2, <1>3, <1>4, SetsBothKeeps DEF CancelAccepted, controls, IInv, TypeOK

LEMMA AlarmCommitKeeps ==
  ASSUME IInv, NEW t \in Threads, AlarmCommit(t)
  PROVE  IInv' /\ Recorded
<1>0. PICK i \in Intents, brk \in BOOLEAN : i = req[t].i /\ brk = req[t].brk
  BY PostedRecord DEF AlarmCommit, At, AfterSubmission, IInv, TypeOK, Request
<1>1. /\ record[i] \in Posted /\ approval[i]
      /\ \A u \in Threads \ {t} : ~(At(u, "placing") /\ req[u].i = i)
  BY <1>0, PostedRecord DEF AlarmCommit, At, AfterSubmission
<1>2. MayRecord(t, i, "UNKNOWN")
  BY <1>1 DEF MayRecord, Backed, Posted, KnownRecord, OpenRecord, Unsubmitted
<1>3. "UNKNOWN" \in RecordStatus /\ "UNKNOWN" \notin KnownRecord
  BY DEF RecordStatus, KnownRecord, OpenRecord
<1>4. /\ Enters(t, Rest(t, brk)) /\ record' = [record EXCEPT ![i] = "UNKNOWN"]
      /\ UNCHANGED <<approval, age, calls, broker, intent, ref, kill, authCap>>
      /\ breaker' \in BOOLEAN
  BY <1>0 DEF AlarmCommit, Leaves, rows, Written, IInv, TypeOK
<1> QED
  BY <1>1, <1>2, <1>3, <1>4, RecordCommitKeeps DEF IInv, TypeOK

LEMMA ReconcileCommitKeeps ==
  ASSUME IInv, NEW t \in Threads, ReconcileCommit(t)
  PROVE  IInv' /\ Recorded
<1>0. PICK q \in Request : q = req[t] /\ q.pc = "reconciling" /\ ThreadInv(q)
  BY DEF ReconcileCommit, At, IInv, TypeOK, ThreadsInv
<1>1. /\ q.i \in Intents /\ record[q.i] \in Posted /\ approval[q.i]
      /\ \A u \in Threads \ {t} : ~(At(u, "placing") /\ req[u].i = q.i)
  BY <1>0, PostedRecord DEF AfterSubmission
<1>2. /\ Backed(q.i, q.ev) /\ \E r \in Intents : AtBroker(r)
      /\ q.ref # None /\ ref[q.i] # None
  BY <1>0 DEF ThreadInv, AfterSubmission
<1>3. PICK i \in Intents : i = q.i
  BY <1>1
<1>4. PICK rec \in RecordStatus :
        rec = Written(record[i], q.rec, IF q.ev # "MISMATCH" THEN q.ev ELSE "UNKNOWN")
  BY <1>3 DEF Written, Request, Evidence, RecordStatus, KnownRecord, OpenRecord, IInv, TypeOK
<1>5. PICK brk \in BOOLEAN : brk = IF q.ev # "MISMATCH" THEN q.brk ELSE TRUE
  BY DEF Request
<1>6. rec \in Posted /\ Backed(i, rec)
  <2>1. Backed(i, record[i])
    BY <1>3 DEF IInv, LedgerInv
  <2> QED
    BY <1>1, <1>2, <1>3, <1>4, <2>1
       DEF Written, Request, Evidence, Posted, KnownRecord, OpenRecord, Backed
<1>7. MayRecord(t, i, rec)
  BY <1>1, <1>2, <1>3, <1>6 DEF MayRecord, Posted, KnownRecord, OpenRecord, Unsubmitted
<1>8. /\ Enters(t, Rest(t, brk)) /\ record' = [record EXCEPT ![i] = rec]
      /\ UNCHANGED <<approval, age, calls, broker, kill, authCap>>
  BY <1>0, <1>3, <1>4, <1>5 DEF ReconcileCommit
<1>9. intent' \in [Intents -> IntentStatus] /\ breaker' \in BOOLEAN
  BY <1>0, <1>3 DEF ReconcileCommit, Written, IInv, TypeOK, Request, Evidence, IntentStatus
<1>10. PICK r \in {ref[i], q.ref} : ref' = [ref EXCEPT ![i] = r]
  BY <1>0, <1>3 DEF ReconcileCommit
<1>11. r # None /\ r \in Refs /\ ref \in [Intents -> Refs]
  BY <1>2, <1>3, <1>10 DEF IInv, TypeOK, Request
<1>12. /\ ref' \in [Intents -> Refs] /\ \A j \in Intents : ref[j] # None => ref'[j] # None
       /\ ref'[i] # None
  BY <1>10, <1>11
<1> QED
  BY <1>7, <1>8, <1>9, <1>12, RecordCommitKeeps DEF IInv, TypeOK

LEMMA RecoverBindKeeps ==
  ASSUME IInv, NEW t \in Threads, NEW r \in Intents, RecoverBind(t, r)
  PROVE  IInv'
<1> USE DEF RecoverBind, rows, broker, controls
<1>0. PICK p \in Request : p = req[t] /\ p.pc = "recovering" /\ ThreadInv(p)
  BY DEF At, IInv, TypeOK, ThreadsInv
<1>1. /\ p.i \in Intents /\ record[p.i] \in Posted /\ (p.ref # None => ref[p.i] # None)
      /\ r # None /\ r \in Refs
  BY <1>0, NoneIsNoIntent DEF ThreadInv, AfterSubmission, Refs
<1>2. PICK q \in Request : q = [p EXCEPT !.pc = "bound", !.ref = r]
  BY <1>1 DEF Request, Steps
<1>3. q.pc = "bound" /\ q.i = p.i /\ q.ref = r
  BY <1>2 DEF Request
<1>4. Enters(t, q)
  BY <1>0, <1>2
<1>5. /\ ref' \in [Intents -> Refs] /\ \A j \in Intents : ref[j] # None => ref'[j] # None
      /\ ref'[p.i] # None
  BY <1>0, <1>1 DEF Written, IInv, TypeOK
<1>6. TypeOK'
  BY <1>4, <1>5 DEF Enters, IInv, TypeOK
<1>7. Forward
  BY <1>5 DEF Forward, AtBroker, Filled
<1>8. LedgerInv'
  BY <1>5 DEF IInv, LedgerInv, AtBroker, Backed, Filled
<1>9. ThreadInv(q)'
  BY <1>1, <1>3, <1>5 DEF ThreadInv, AfterSubmission
<1> QED
  BY <1>3, <1>4, <1>6, <1>7, <1>8, <1>9, CommitKeeps

\* The one step that makes a broker call: the record goes from reviewed to
\* submitting while no thread is placing it, so the call is the first.
LEMMA ExecuteSubmitsKeeps ==
  ASSUME IInv, NEW t \in Threads, ExecuteSubmits(t)
  PROVE  IInv'
<1> USE DEF controls
<1>0. PICK i \in Intents : i = req[t].i
  BY DEF ExecuteSubmits, At, IInv, ThreadsInv, ThreadInv
<1>1. record[i] = "REVIEWED_ONLY" /\ approval[i]
  BY <1>0 DEF ExecuteSubmits, Submittable, Reviewed
<1>2. order[i].state = "none" /\ calls[i] = 0 /\ record[i] \notin Posted
  BY <1>1 DEF IInv, LedgerInv, Unsubmitted, Posted, KnownRecord, OpenRecord
<1>3. PICK q \in Request : q = [Idle EXCEPT !.pc = "placing", !.i = i]
  BY DEF Idle, Request, Steps, Refs, IntentStatus, RecordStatus, Unsubmitted, Evidence
<1>4. q.pc = "placing" /\ q.i = i
  BY <1>3 DEF Idle
<1>5. /\ Enters(t, q) /\ intent' = [intent EXCEPT ![i] = "SUBMITTING"]
      /\ record' = [record EXCEPT ![i] = "SUBMITTING"]
      /\ calls' = [calls EXCEPT ![i] = calls[i] + 1]
      /\ order' = [order EXCEPT ![i].state = "pending"]
      /\ UNCHANGED <<approval, age, ref, seen, kill, breaker, authCap>>
  BY <1>0, <1>2, <1>3 DEF ExecuteSubmits
<1>6. TypeOK'
  <2>1. intent' \in [Intents -> IntentStatus] /\ record' \in [Intents -> RecordStatus]
    BY <1>5 DEF IInv, TypeOK, IntentStatus, RecordStatus
  <2>2. order[i] \in Order /\ calls[i] \in Nat
    BY DEF IInv, TypeOK
  <2>3. [order[i] EXCEPT !.state = "pending"] \in Order
    BY <2>2 DEF Order
  <2>4. order' \in [Intents -> Order] /\ calls' \in [Intents -> Nat]
    BY <1>5, <2>2, <2>3 DEF IInv, TypeOK
  <2>5. req' \in [Threads -> Request] /\ UNCHANGED batch
    BY <1>5 DEF Enters, IInv, TypeOK
  <2> QED
    BY <1>5, <2>1, <2>4, <2>5 DEF IInv, TypeOK
<1>7. /\ record'[i] = "SUBMITTING" /\ calls'[i] = 1 /\ order'[i].state = "pending"
      /\ \A j \in Intents : order'[j].terms = order[j].terms /\ order'[j].filled = order[j].filled
      /\ \A j \in Intents \ {i} : record'[j] = record[j] /\ calls'[j] = calls[j] /\ order'[j] = order[j]
  BY <1>2, <1>5 DEF IInv, TypeOK, Order
<1>8. \A j \in Intents : AtBroker(j) <=> AtBroker(j)'
  BY <1>2, <1>7 DEF AtBroker
<1>9. \A j \in Intents, n \in {1, Qty} : Filled(j, n) <=> Filled(j, n)'
  BY <1>7 DEF Filled
<1>10. Forward
  BY <1>2, <1>5, <1>7, <1>8, <1>9 DEF Forward
<1>11. LedgerInv'
  <2>1. ASSUME NEW j \in Intents PROVE Backed(j, record[j])'
    BY <1>7, <1>9 DEF IInv, LedgerInv, Backed
  <2>2. ASSUME NEW j \in Intents
        PROVE  /\ calls'[j] = IF record'[j] \in Unsubmitted THEN 0 ELSE 1
               /\ order'[j].state = "none" <=> record'[j] \in Unsubmitted
               /\ record'[j] = "REJECTED" => order'[j].state = "refused"
               /\ record'[j] # "NONE" => approval'[j]
    BY <1>1, <1>5, <1>7 DEF IInv, LedgerInv, Unsubmitted
  <2>3. ASSUME NEW j \in Intents
        PROVE  /\ record'[j] \in KnownRecord => ref'[j] # None /\ \E r \in Intents : AtBroker(r)'
               /\ order'[j].filled > 0 => AtBroker(j)'
               /\ seen'[j] # Absent => AtBroker(j)' /\ order'[j].filled >= seen'[j]
    BY <1>5, <1>7, <1>8 DEF IInv, LedgerInv, KnownRecord, OpenRecord
  <2> QED
    BY <2>1, <2>2, <2>3 DEF LedgerInv
<1>12. \A u \in Threads : req[u].pc = "placing" => req[u].i # i
  BY <1>1 DEF IInv, ThreadsInv, ThreadInv
<1>13. \A u \in Threads \ {t} : req[u].pc = "placing" => record'[req[u].i] = record[req[u].i]
  BY <1>7, <1>12 DEF IInv, ThreadsInv, ThreadInv
<1>14. ThreadInv(q)'
  BY <1>4, <1>7 DEF ThreadInv, AfterSubmission
<1> QED
  BY <1>4, <1>5, <1>6, <1>10, <1>11, <1>12, <1>13, <1>14, CommitKeeps DEF At

-----------------------------------------------------------------------------
(* The worker's list                                                       *)

LEMMA ExpiryLoadKeeps ==
  ASSUME IInv, NEW i \in Intents, PlanExpiryLoad(i)
  PROVE  IInv'
<1> DEFINE q == [Idle EXCEPT !.pc = "expiring", !.i = i]
<1>1. q \in Request /\ q.pc = "expiring" /\ q.i = i
  BY DEF Idle, Request, Steps, Refs, IntentStatus, RecordStatus, Unsubmitted, Evidence
<1>2. Moves(Worker, q)
  BY DEF PlanExpiryLoad
<1> HIDE DEF q
<1>3. ThreadInv(q)
  BY <1>1 DEF ThreadInv, AfterSubmission
<1> QED
  BY <1>1, <1>2, <1>3, MoveKeeps DEF Threads

\* A step of the worker over its list: it keeps the invariant if the list still
\* holds posted records with the references found.
LEMMA SweepKeeps ==
  ASSUME IInv, NEW q \in Request, ThreadInv(q), q.pc # "placing",
         req' = [req EXCEPT ![Worker] = q],
         batch' \in [Intents -> [rec : RecordStatus, ref : Refs]], BatchInv',
         seen' \in [Intents -> {Absent} \cup (0..MaxFilled)],
         \A i \in Intents : seen'[i] # Absent => AtBroker(i) /\ order[i].filled >= seen'[i],
         UNCHANGED <<rows, ledger, order, controls>>
  PROVE  IInv'
<1> USE DEF rows, ledger, controls
<1>1. TypeOK'
  BY DEF IInv, TypeOK
<1>2. Forward
  BY DEF Forward, AtBroker, Filled
<1>3. Worker \in Threads /\ req'[Worker] = q /\ \A u \in Threads \ {Worker} : req'[u] = req[u]
  BY DEF Threads, IInv, TypeOK
<1>4. ThreadInv(q)'
  BY <1>2, ThreadKept
<1>5. ThreadInv(req[Worker])'
  BY <1>3, <1>4 DEF ThreadInv
<1>6. ThreadsInv'
  BY <1>1, <1>2, <1>3, <1>5, ThreadsKept DEF IInv
<1>7. OnePlaces'
  BY <1>3 DEF IInv, OnePlaces, At
<1>8. LedgerInv'
  BY DEF IInv, LedgerInv, AtBroker, Backed, Filled
<1> QED
  BY <1>1, <1>6, <1>7, <1>8 DEF IInv

\* A synchronization shows orders the broker holds, as they are.
LEMMA ObservedIsSeen ==
  ASSUME IInv
  PROVE  /\ Observed \in [Intents -> {Absent} \cup (0..MaxFilled)]
         /\ \A i \in Intents : Observed[i] # Absent => AtBroker(i) /\ order[i].filled >= Observed[i]
<1>1. \A i \in Intents : order[i].filled \in 0..MaxFilled
  BY DEF IInv, TypeOK, Order
<1> QED
  BY <1>1, QtyAssumption DEF Observed

LEMMA SweepStartKeeps ==
  ASSUME IInv, NEW synced \in BOOLEAN, SweepStart(synced)
  PROVE  IInv'
<1> USE DEF SweepStart
<1>1. PICK q \in Request : q = [Idle EXCEPT !.pc = "sweeping", !.brk = breaker]
  BY DEF Idle, Request, Steps, Refs, IntentStatus, RecordStatus, Unsubmitted, Evidence, IInv, TypeOK
<1>2. q.pc = "sweeping" /\ req' = [req EXCEPT ![Worker] = q]
  BY <1>1 DEF Idle
<1>3. Unlisted \in [rec : RecordStatus, ref : Refs]
  BY DEF Unlisted, RecordStatus, Unsubmitted, Refs
<1>4. batch' \in [Intents -> [rec : RecordStatus, ref : Refs]]
  BY <1>3 DEF IInv, TypeOK
<1>5. record' = record /\ ref' = ref
  BY DEF ledger
<1>6. ASSUME NEW i \in Intents
      PROVE  /\ batch'[i] # Unlisted => record'[i] \in Posted
             /\ batch'[i].ref # None => batch'[i] # Unlisted /\ ref'[i] # None
  <2>1. CASE record[i] \in OpenRecord
    <3>1. batch'[i] = [rec |-> record[i], ref |-> ref[i]]
      BY <2>1
    <3>2. batch'[i].ref = ref[i] /\ Unlisted.ref = None
      BY <3>1 DEF Unlisted
    <3> QED
      BY <1>5, <2>1, <3>2 DEF Posted, KnownRecord
  <2>2. CASE record[i] \notin OpenRecord
    <3>1. batch'[i] = Unlisted
      BY <2>2
    <3>2. Unlisted.ref = None
      BY DEF Unlisted
    <3> QED
      BY <3>1, <3>2
  <2> QED
    BY <2>1, <2>2
<1>7. BatchInv'
  BY <1>6 DEF BatchInv
<1>8. /\ seen' \in [Intents -> {Absent} \cup (0..MaxFilled)]
      /\ \A i \in Intents : seen'[i] # Absent => AtBroker(i) /\ order[i].filled >= seen'[i]
  BY ObservedIsSeen DEF IInv, TypeOK, LedgerInv
<1> QED
  BY <1>2, <1>4, <1>7, <1>8, AtRest, SweepKeeps

\* The list without intent i.
LEMMA ListShrinks ==
  ASSUME IInv, NEW i \in Intents, batch' = [batch EXCEPT ![i] = Unlisted], UNCHANGED ledger
  PROVE  batch' \in [Intents -> [rec : RecordStatus, ref : Refs]] /\ BatchInv'
<1>1. Unlisted \in [rec : RecordStatus, ref : Refs] /\ Unlisted.ref = None
  BY DEF Unlisted, RecordStatus, Unsubmitted, Refs
<1>2. batch' \in [Intents -> [rec : RecordStatus, ref : Refs]]
  BY <1>1 DEF IInv, TypeOK
<1>3. batch'[i] = Unlisted /\ \A j \in Intents \ {i} : batch'[j] = batch[j]
  BY DEF IInv, TypeOK
<1>4. BatchInv'
  BY <1>1, <1>3 DEF IInv, BatchInv, ledger
<1> QED
  BY <1>2, <1>4

LEMMA SweepReconcilesKeeps ==
  ASSUME IInv, NEW i \in Intents, SweepReconciles(i)
  PROVE  IInv'
<1> USE DEF SweepReconciles
<1>1. PICK b \in [rec : RecordStatus, ref : Refs] : b = batch[i]
  BY DEF IInv, TypeOK
<1>2. PICK brk \in BOOLEAN : brk = req[Worker].brk
  BY DEF IInv, TypeOK, Threads, Request
<1>3. /\ Visible(b.ref) /\ record[i] \in Posted /\ ref[i] # None
      /\ intent[i] \in IntentStatus /\ b.rec \in RecordStatus /\ b.ref \in Refs
  BY <1>1 DEF IInv, TypeOK, BatchInv, Visible
<1>4. PICK q : q = Reconciling(i, intent[i], b.rec, b.ref, brk)
  OBVIOUS
<1>5. q \in Request /\ ThreadInv(q) /\ q.pc = "reconciling"
  BY <1>3, <1>4, VisibleIsEvidence
<1>6. req' = [req EXCEPT ![Worker] = q]
  BY <1>1, <1>2, <1>4
<1>7. batch' \in [Intents -> [rec : RecordStatus, ref : Refs]] /\ BatchInv'
  BY ListShrinks
<1>8. /\ seen' \in [Intents -> {Absent} \cup (0..MaxFilled)]
      /\ \A j \in Intents : seen'[j] # Absent => AtBroker(j) /\ order[j].filled >= seen'[j]
  BY DEF IInv, TypeOK, LedgerInv, broker
<1> QED
  BY <1>5, <1>6, <1>7, <1>8, SweepKeeps DEF broker

LEMMA SweepSkipsKeeps ==
  ASSUME IInv, NEW i \in Intents, SweepSkips(i)
  PROVE  IInv'
<1> USE DEF SweepSkips
<1>1. Idle \in Request /\ Idle.pc = "idle"
  BY DEF Idle, Request, Steps, Refs, IntentStatus, RecordStatus, Unsubmitted, Evidence
<1>2. req[Worker] \in Request /\ req[Worker].pc = "sweeping"
  BY DEF IInv, TypeOK, Threads, At
<1>3. PICK q \in Request : req' = [req EXCEPT ![Worker] = q] /\ q.pc \in {"idle", "sweeping"}
  BY <1>1, <1>2
<1>4. batch' \in [Intents -> [rec : RecordStatus, ref : Refs]] /\ BatchInv'
  BY ListShrinks
<1>5. /\ seen' \in [Intents -> {Absent} \cup (0..MaxFilled)]
      /\ \A j \in Intents : seen'[j] # Absent => AtBroker(j) /\ order[j].filled >= seen'[j]
  BY DEF IInv, TypeOK, LedgerInv, broker
<1> QED
  BY <1>3, <1>4, <1>5, AtRest, SweepKeeps DEF broker

-----------------------------------------------------------------------------
(* The world around the threads                                            *)

\* A step that moves no thread and writes no record keeps the invariant if the
\* broker's orders only advance and the snapshot shows no more than they hold.
LEMMA WorldKeeps ==
  ASSUME IInv, TypeOK', UNCHANGED <<approval, ledger, threads>>,
         \A i \in Intents :
           /\ AtBroker(i) => AtBroker(i)'
           /\ order'[i].terms = order[i].terms \/ order[i].filled = 0
           /\ order'[i].filled >= order[i].filled
           /\ order'[i].state = "none" <=> order[i].state = "none"
           /\ order[i].state = "refused" => order'[i].state = "refused"
           /\ order'[i].filled > 0 => AtBroker(i)'
           /\ seen'[i] # Absent => AtBroker(i)' /\ order'[i].filled >= seen'[i]
  PROVE  IInv'
<1> USE DEF ledger, threads
<1>1. \A i \in Intents : order[i].filled \in Nat /\ order'[i].filled \in Nat
  BY DEF IInv, TypeOK, Order
<1>2. ASSUME NEW i \in Intents, NEW n \in Nat \ {0}, Filled(i, n)
      PROVE  Filled(i, n)'
  <2>1. PICK r \in Intents : order[r].terms = Terms[i] /\ order[r].filled >= n
    BY <1>2 DEF Filled
  <2>2. order'[r].terms = Terms[i] /\ order'[r].filled >= n
    BY <1>1, <2>1
  <2> QED
    BY <2>2 DEF Filled
<1>3. \A i \in Intents : (Filled(i, 1) => Filled(i, 1)') /\ (Filled(i, Qty) => Filled(i, Qty)')
  BY <1>2, QtyAssumption
<1>4. Forward
  BY <1>3 DEF Forward
<1>5. ThreadsInv'
  <2> SUFFICES ASSUME NEW t \in Threads PROVE ThreadInv(req[t])'
    BY DEF ThreadsInv
  <2>1. PICK q \in Request : q = req[t] /\ ThreadInv(q)
    BY DEF IInv, TypeOK, ThreadsInv
  <2>2. ThreadInv(q)'
    BY <1>4, <2>1, ThreadKept
  <2> QED
    BY <2>1, <2>2 DEF ThreadInv
<1>6. OnePlaces' /\ BatchInv'
  BY <1>4, BatchKept DEF IInv, OnePlaces, At
<1>7. ASSUME NEW i \in Intents PROVE Backed(i, record[i])'
  BY <1>3 DEF IInv, LedgerInv, Backed
<1>8. LedgerInv'
  <2>1. (\E r \in Intents : AtBroker(r)) => \E r \in Intents : AtBroker(r)'
    OBVIOUS
  <2> QED
    BY <1>7, <2>1 DEF IInv, LedgerInv
<1> QED
  BY <1>5, <1>6, <1>8 DEF IInv

\* Rows, controls and the clock carry no obligation of the ledger.
LEMMA RowsAndControlsKeep ==
  ASSUME IInv, TypeOK', UNCHANGED <<approval, ledger, broker, threads>>
  PROVE  IInv'
<1>1. order' = order /\ seen' = seen
  BY DEF broker
<1>2. \A i \in Intents : order[i].filled \in Nat
  BY DEF IInv, TypeOK, Order
<1>3. \A i \in Intents : AtBroker(i)' <=> AtBroker(i)
  BY <1>1 DEF AtBroker
<1>4. \A i \in Intents :
        /\ order[i].filled > 0 => AtBroker(i)
        /\ seen[i] # Absent => AtBroker(i) /\ order[i].filled >= seen[i]
  BY DEF IInv, LedgerInv
<1> QED
  BY <1>1, <1>2, <1>3, <1>4, WorldKeeps

LEMMA OperatorKeeps ==
  ASSUME IInv, NEW t \in Threads, NEW i \in Intents,
         \/ CreateIntent(t, i) \/ TimePasses(i) \/ Operator
  PROVE  IInv'
<1> USE DEF rows, ledger, broker, controls, threads
<1>1. UNCHANGED <<approval, ledger, broker, threads>>
  BY DEF CreateIntent, TimePasses, Operator, OperatorAuthorizes, AuthorizationEnds, OperatorSetsControls
<1>2. TypeOK'
  <2>1. "PROPOSED" \in IntentStatus
    BY DEF IntentStatus, PendingIntent
  <2>2. /\ intent' \in [Intents -> IntentStatus] /\ age' \in [Intents -> {"fresh", "stale", "overdue"}]
        /\ kill' \in BOOLEAN /\ breaker' \in BOOLEAN /\ authCap' \in Caps \cup {0}
    BY <2>1 DEF CreateIntent, TimePasses, Operator, OperatorAuthorizes, AuthorizationEnds,
               OperatorSetsControls, IInv, TypeOK
  <2> QED
    BY <1>1, <2>2 DEF IInv, TypeOK
<1> QED
  BY <1>1, <1>2, RowsAndControlsKeep

\* The broker turns its order for intent i into o: it answers once, fills only
\* what it holds, and forgets nothing.
Advances(i, o) ==
  /\ order' = [order EXCEPT ![i] = o] /\ seen' = seen
  /\ UNCHANGED <<rows, ledger, controls, threads>>
  /\ o.filled >= order[i].filled
  /\ \/ order[i].state = "pending" /\ o.state \in {"working", "refused"} /\ o.filled = order[i].filled
     \/ order[i].state = "working" /\ o.state \in {"working", "dead"} /\ o.terms = order[i].terms

LEMMA BrokerAdvances ==
  ASSUME IInv, Broker
  PROVE  \E i \in Intents, o \in Order : Advances(i, o)
<1>1. PICK i \in Intents :
        \/ BrokerRefuses(i) \/ BrokerFills(i) \/ OrderDies(i)
        \/ \E terms \in TermValues : BrokerAccepts(i, terms)
  BY DEF Broker
<1>2. order[i] \in Order /\ order[i].filled \in 0..MaxFilled /\ MaxFilled \in Nat
  BY QtyAssumption DEF IInv, TypeOK, Order
<1>3. CASE BrokerRefuses(i)
  <2> DEFINE o == [order[i] EXCEPT !.state = "refused"]
  <2>1. o \in Order /\ o.state = "refused" /\ o.filled = order[i].filled
    BY <1>2 DEF Order
  <2>2. order' = [order EXCEPT ![i] = o]
    BY <1>3 DEF BrokerRefuses
  <2>3. /\ order[i].state = "pending"
        /\ seen' = seen /\ UNCHANGED <<rows, ledger, controls, threads>>
    BY <1>3 DEF BrokerRefuses
  <2>4. o.filled >= order[i].filled
    BY <1>2, <2>1
  <2> HIDE DEF o
  <2>5. Advances(i, o)
    BY <2>1, <2>2, <2>3, <2>4 DEF Advances
  <2> QED
    BY <2>1, <2>5
<1>4. CASE BrokerFills(i)
  <2> DEFINE o == [order[i] EXCEPT !.filled = order[i].filled + 1]
  <2>1. o \in Order /\ o.state = "working" /\ o.filled = order[i].filled + 1 /\ o.terms = order[i].terms
    BY <1>2, <1>4 DEF Order, BrokerFills
  <2>2. order' = [order EXCEPT ![i] = o]
    BY <1>4 DEF BrokerFills
  <2>3. /\ order[i].state = "working"
        /\ seen' = seen /\ UNCHANGED <<rows, ledger, controls, threads>>
    BY <1>4 DEF BrokerFills
  <2>4. o.filled >= order[i].filled
    BY <1>2, <2>1
  <2> HIDE DEF o
  <2>5. Advances(i, o)
    BY <2>1, <2>2, <2>3, <2>4 DEF Advances
  <2> QED
    BY <2>1, <2>5
<1>5. CASE OrderDies(i)
  <2> DEFINE o == [order[i] EXCEPT !.state = "dead"]
  <2>1. o \in Order /\ o.state = "dead" /\ o.filled = order[i].filled /\ o.terms = order[i].terms
    BY <1>2 DEF Order
  <2>2. order' = [order EXCEPT ![i] = o]
    BY <1>5 DEF OrderDies
  <2>3. /\ order[i].state = "working"
        /\ seen' = seen /\ UNCHANGED <<rows, ledger, controls, threads>>
    BY <1>5 DEF OrderDies
  <2>4. o.filled >= order[i].filled
    BY <1>2, <2>1
  <2> HIDE DEF o
  <2>5. Advances(i, o)
    BY <2>1, <2>2, <2>3, <2>4 DEF Advances
  <2> QED
    BY <2>1, <2>5
<1>6. ASSUME NEW terms \in TermValues, BrokerAccepts(i, terms)
      PROVE  \E o \in Order : Advances(i, o)
  <2> DEFINE o == [order[i] EXCEPT !.state = "working", !.terms = terms]
  <2>1. o \in Order /\ o.state = "working" /\ o.filled = order[i].filled
    BY <1>2 DEF Order
  <2>2. order' = [order EXCEPT ![i] = o]
    BY <1>6 DEF BrokerAccepts
  <2>3. /\ order[i].state = "pending"
        /\ seen' = seen /\ UNCHANGED <<rows, ledger, controls, threads>>
    BY <1>6 DEF BrokerAccepts
  <2>4. o.filled >= order[i].filled
    BY <1>2, <2>1
  <2> HIDE DEF o
  <2>5. Advances(i, o)
    BY <2>1, <2>2, <2>3, <2>4 DEF Advances
  <2> QED
    BY <2>1, <2>5
<1> QED
  BY <1>1, <1>3, <1>4, <1>5, <1>6

LEMMA BrokerKeeps ==
  ASSUME IInv, Broker
  PROVE  IInv'
<1>1. PICK i \in Intents, o \in Order : Advances(i, o)
  BY BrokerAdvances
<1> USE DEF Advances
<1>2. order'[i] = o /\ \A j \in Intents \ {i} : order'[j] = order[j]
  BY <1>1 DEF IInv, TypeOK
<1>3. TypeOK'
  BY <1>1 DEF IInv, TypeOK, rows, ledger, controls, threads
<1>4. \A j \in Intents : order[j].filled \in Nat /\ seen[j] \in Int
  BY QtyAssumption DEF IInv, TypeOK, Order, Absent
<1>5. ASSUME NEW j \in Intents
      PROVE  /\ AtBroker(j) => AtBroker(j)'
             /\ order'[j].terms = order[j].terms \/ order[j].filled = 0
             /\ order'[j].filled >= order[j].filled
             /\ order'[j].state = "none" <=> order[j].state = "none"
             /\ order[j].state = "refused" => order'[j].state = "refused"
             /\ order'[j].filled > 0 => AtBroker(j)'
             /\ seen'[j] # Absent => AtBroker(j)' /\ order'[j].filled >= seen'[j]
  <2>1. /\ order[j].filled > 0 => AtBroker(j)
        /\ seen[j] # Absent => AtBroker(j) /\ order[j].filled >= seen[j]
    BY DEF IInv, LedgerInv
  <2>2. CASE j = i
    BY <1>1, <1>2, <1>4, <2>1, <2>2 DEF AtBroker, Order
  <2>3. CASE j # i
    BY <1>1, <1>2, <1>4, <2>1, <2>3 DEF AtBroker
  <2> QED
    BY <2>2, <2>3
<1> QED
  BY <1>1, <1>3, <1>5, WorldKeeps DEF rows

LEMMA SnapshotKeeps ==
  ASSUME IInv, Synchronizes \/ SnapshotAges
  PROVE  IInv'
<1>1. seen' = Observed \/ seen' = [i \in Intents |-> Absent]
  BY DEF Synchronizes, SnapshotAges
<1>2. order' = order /\ UNCHANGED <<rows, ledger, controls, threads>>
  BY DEF Synchronizes, SnapshotAges
<1>3. /\ seen' \in [Intents -> {Absent} \cup (0..MaxFilled)]
      /\ \A i \in Intents : seen'[i] # Absent => AtBroker(i) /\ order[i].filled >= seen'[i]
  BY <1>1, ObservedIsSeen
<1>4. TypeOK'
  BY <1>2, <1>3 DEF IInv, TypeOK, rows, ledger, controls, threads
<1>5. \A i \in Intents : order[i].filled \in Nat /\ (AtBroker(i)' <=> AtBroker(i))
                         /\ (order[i].filled > 0 => AtBroker(i))
  BY <1>2 DEF AtBroker, IInv, TypeOK, Order, LedgerInv
<1> QED
  BY <1>2, <1>3, <1>4, <1>5, WorldKeeps DEF rows

LEMMA DiesKeeps ==
  ASSUME IInv, NEW t \in Threads, Dies(t)
  PROVE  IInv'
<1>1. Idle \in Request /\ Idle.pc = "idle"
  BY DEF Idle, Request, Steps, Refs, IntentStatus, RecordStatus, Unsubmitted, Evidence
<1>2. UNCHANGED <<rows, ledger, broker, controls>> /\ req' = [req EXCEPT ![t] = Idle]
  BY DEF Dies
<1>3. CASE t # Worker
  <2>1. Moves(t, Idle)
    BY <1>2, <1>3 DEF Dies, Moves, Enters
  <2> QED
    BY <1>1, <2>1, AtRest, MoveKeeps
<1>4. CASE t = Worker
  <2>1. batch' = [i \in Intents |-> Unlisted]
    BY <1>4 DEF Dies
  <2>2. Unlisted \in [rec : RecordStatus, ref : Refs] /\ Unlisted.ref = None
    BY DEF Unlisted, RecordStatus, Unsubmitted, Refs
  <2>3. batch' \in [Intents -> [rec : RecordStatus, ref : Refs]] /\ BatchInv'
    BY <2>1, <2>2 DEF BatchInv
  <2>4. /\ seen' \in [Intents -> {Absent} \cup (0..MaxFilled)]
        /\ \A j \in Intents : seen'[j] # Absent => AtBroker(j) /\ order[j].filled >= seen'[j]
    BY <1>2 DEF IInv, TypeOK, LedgerInv, broker
  <2> QED
    BY <1>1, <1>2, <1>4, <2>3, <2>4, AtRest, SweepKeeps DEF broker
<1> QED
  BY <1>3, <1>4

-----------------------------------------------------------------------------
(* The invariant                                                           *)

LEMMA InitIsSafe ==
  ASSUME Init
  PROVE  IInv
<1> USE DEF Init
<1>1. Idle \in Request /\ Idle.pc = "idle"
  BY DEF Idle, Request, Steps, Refs, IntentStatus, RecordStatus, Unsubmitted, Evidence
<1>2. Unlisted \in [rec : RecordStatus, ref : Refs] /\ Unlisted.ref = None
  BY DEF Unlisted, RecordStatus, Unsubmitted, Refs
<1>3. NoOrder \in Order /\ NoOrder.state = "none" /\ NoOrder.filled = 0
  BY QtyAssumption DEF NoOrder, Order
<1>4. TypeOK
  BY <1>1, <1>2, <1>3 DEF TypeOK, IntentStatus, RecordStatus, Unsubmitted, Refs
<1>5. ThreadsInv /\ OnePlaces
  BY <1>1 DEF ThreadsInv, ThreadInv, OnePlaces, At, AfterSubmission
<1>6. BatchInv
  BY <1>2 DEF BatchInv
<1>7. LedgerInv
  BY <1>3 DEF LedgerInv, Backed, Unsubmitted, KnownRecord, OpenRecord
<1> QED
  BY <1>4, <1>5, <1>6, <1>7 DEF IInv

\* What a step does to the ledger and at the broker, seen from outside: nothing,
\* a lawful record commit, the one submission, or the broker's own doing.
Effect ==
  \/ UNCHANGED <<record, order>>
  \/ Recorded
  \/ \E t \in Threads : ExecuteSubmits(t)
  \/ Broker

\* Every step of every thread, of the operator, of the broker and of the clock
\* keeps the invariant, and has one of those effects.
LEMMA StepKeeps ==
  ASSUME IInv, [Next]_vars
  PROVE  IInv' /\ Effect
<1> USE DEF Effect
<1>1. ASSUME NEW t \in Handlers, NEW i \in Intents,
             \/ CreateIntent(t, i) \/ ApproveLoad(t, i) \/ RejectLoad(t, i) \/ ReviewLoad(t, i)
             \/ ExecuteLoad(t, i) \/ CancelLoad(t, i) \/ ReconcileLoad(t, i) \/ RecoverLoad(t, i)
      PROVE  IInv' /\ Effect
  <2>1. t \in Threads
    BY DEF Threads
  <2>2. IInv'
    BY <1>1, <2>1, OperatorKeeps, LoadsKeep, ReconcileLoadKeeps
  <2>3. UNCHANGED <<record, order>>
    BY <1>1 DEF CreateIntent, ApproveLoad, RejectLoad, ReviewLoad, ExecuteLoad, CancelLoad,
                ReconcileLoad, RecoverLoad, Moves, ledger, broker
  <2> QED
    BY <2>2, <2>3
<1>2. ASSUME NEW t \in Threads, Continues(t)
      PROVE  IInv' /\ Effect
  <2>1. CASE ApproveCommit(t) \/ RejectCommit(t) \/ ExpireCommit(t) \/ ExecuteExpires(t)
    <3>1. UNCHANGED <<record, order>>
      BY <2>1 DEF ApproveCommit, RejectCommit, ExpireCommit, ExecuteExpires, SetsIntent, ledger, broker
    <3> QED
      BY <2>1, <3>1, IntentCommitsKeep
  <2>2. CASE ReviewFails(t) \/ ExecuteReturns(t) \/ PlaceRaises(t) \/ CancelRefused(t)
    <3>1. UNCHANGED <<record, order>>
      BY <2>2 DEF ReviewFails, ExecuteReturns, PlaceRaises, CancelRefused, Drops, Moves, ledger, broker
    <3> QED
      BY <2>2, <3>1, GivingUpKeeps
  <2>3. CASE CancelUnknown(t) \/ RecoverReconciles(t)
    <3>1. UNCHANGED <<record, order>>
      BY <2>3 DEF CancelUnknown, RecoverReconciles, Moves, ledger, broker
    <3> QED
      BY <2>3, <3>1, CallingOutKeeps
  <2>4. CASE \/ ReviewCommit(t) \/ CancelAccepted(t) \/ AlarmCommit(t) \/ ReconcileCommit(t)
             \/ PlaceRefused(t) \/ PlaceUnknown(t) \/ PlaceMismatch(t) \/ PlaceConfirmed(t)
    BY <2>4, ReviewCommitKeeps, CancelAcceptedKeeps, AlarmCommitKeeps, ReconcileCommitKeeps, PlacesKeep
  <2>5. CASE ExecuteSubmits(t)
    BY <2>5, ExecuteSubmitsKeeps
  <2>6. ASSUME NEW r \in Intents, RecoverBind(t, r)
        PROVE  IInv' /\ Effect
    <3>1. UNCHANGED <<record, order>>
      BY <2>6 DEF RecoverBind, broker
    <3> QED
      BY <2>6, <3>1, RecoverBindKeeps
  <2> QED
    BY <1>2, <2>1, <2>2, <2>3, <2>4, <2>5, <2>6 DEF Continues
<1>3. ASSUME Sweeps
      PROVE  IInv' /\ Effect
  <2>1. UNCHANGED <<record, order>>
    BY <1>3 DEF Sweeps, PlanExpiryLoad, SweepReconciles, SweepSkips, SweepStart, Moves, ledger, broker
  <2>2. IInv'
    BY <1>3, ExpiryLoadKeeps, SweepReconcilesKeeps, SweepSkipsKeeps, SweepStartKeeps DEF Sweeps
  <2> QED
    BY <2>1, <2>2
<1>4. ASSUME Operator \/ \E i \in Intents : TimePasses(i)
      PROVE  IInv' /\ Effect
  <2>1. UNCHANGED <<record, order>>
    BY <1>4 DEF Operator, OperatorAuthorizes, AuthorizationEnds, OperatorSetsControls, TimePasses,
                ledger, broker
  <2>2. CASE \E i \in Intents : TimePasses(i)
    BY <2>1, <2>2, OperatorKeeps DEF Threads
  <2>3. CASE Operator /\ Intents # {}
    BY <2>1, <2>3, OperatorKeeps DEF Threads
  <2>4. CASE Operator /\ Intents = {}
    <3>1. UNCHANGED <<approval, ledger, broker, threads>>
      BY <2>4 DEF Operator, OperatorAuthorizes, AuthorizationEnds, OperatorSetsControls, rows
    <3>2. TypeOK'
      BY <2>4 DEF Operator, OperatorAuthorizes, AuthorizationEnds, OperatorSetsControls,
                  rows, ledger, broker, threads, IInv, TypeOK
    <3> QED
      BY <2>1, <3>1, <3>2, RowsAndControlsKeep
  <2> QED
    BY <1>4, <2>2, <2>3, <2>4
<1>5. ASSUME Broker
      PROVE  IInv' /\ Effect
  BY <1>5, BrokerKeeps
<1>6. ASSUME Synchronizes \/ SnapshotAges
      PROVE  IInv' /\ Effect
  <2>1. UNCHANGED <<record, order>>
    BY <1>6 DEF Synchronizes, SnapshotAges, ledger
  <2> QED
    BY <1>6, <2>1, SnapshotKeeps
<1>7. ASSUME NEW t \in Threads, Dies(t)
      PROVE  IInv' /\ Effect
  <2>1. UNCHANGED <<record, order>>
    BY <1>7 DEF Dies, ledger, broker
  <2> QED
    BY <1>7, <2>1, DiesKeeps
<1>8. ASSUME UNCHANGED vars
      PROVE  IInv' /\ Effect
  <2>1. UNCHANGED <<rows, ledger, broker, controls, req, batch>>
    BY <1>8 DEF vars, threads
  <2>2. UNCHANGED <<intent, approval, age, record, ref, calls, order, seen, kill, breaker, authCap, req, batch>>
    BY <2>1 DEF rows, ledger, broker, controls
  <2>3. TypeOK'
    BY <2>2 DEF IInv, TypeOK
  <2>4. UNCHANGED <<approval, ledger, broker, threads>>
    BY <2>1, <2>2 DEF threads
  <2> QED
    BY <2>2, <2>3, <2>4, RowsAndControlsKeep
<1> QED
  BY <1>1, <1>2, <1>3, <1>4, <1>5, <1>6, <1>7, <1>8 DEF Next, Requests, Environment

\* The inductive invariant: what every thread in flight relies on holds, and
\* record, request history and the broker's orders tell the same story.
THEOREM Inductive == Spec => []IInv
<1>1. Init => IInv
  BY InitIsSafe
<1>2. IInv /\ [Next]_vars => IInv'
  BY StepKeeps
<1> QED
  BY <1>1, <1>2, PTL DEF Spec

\* Every status, reference, quantity and loaded value stays in its domain.
THEOREM TypeCorrect == Spec => []TypeOK
<1>1. IInv => TypeOK
  BY DEF IInv
<1> QED
  BY <1>1, Inductive, PTL

\* However execute() requests race, die and are retried, the broker is asked at
\* most once for each intent, and the ledger's status shows whether it was.
THEOREM AtMostOneSubmission == Spec => []SubmittedOnce
<1>1. IInv => SubmittedOnce
  BY DEF IInv, LedgerInv, SubmittedOnce
<1> QED
  BY <1>1, Inductive, PTL

\* An order the broker holds or may yet accept is on the ledger as possible:
\* no lost, late or malformed answer makes execute() forget it.
THEOREM NoForgottenOrder == Spec => []BrokerOrderAccounted
<1>1. IInv => BrokerOrderAccounted
  BY DEF IInv, LedgerInv, BrokerOrderAccounted
<1> QED
  BY <1>1, Inductive, PTL

\* Status overwrites between approve, reject, expire and review never lead to
\* an order without the human approval.
THEOREM ApprovedBeforePlaced == Spec => []PlacedOnlyApproved
<1>1. IInv => PlacedOnlyApproved
  BY DEF IInv, LedgerInv, PlacedOnlyApproved, Unsubmitted
<1> QED
  BY <1>1, Inductive, PTL

\* Reconciliation, on request, in recovery or in the worker's sweep, with rows
\* as old as it likes, records no fill the broker has not shown.
THEOREM NoInventedFill == Spec => []LedgerFillsHappened
<1>1. IInv => LedgerFillsHappened
  BY DEF IInv, LedgerInv, LedgerFillsHappened
<1> QED
  BY <1>1, Inductive, PTL

\* No interleaving of confirm, recover and reconcile leaves an open record
\* without the order reference that cancel and reconcile look up.
THEOREM OpenRecordsTraceable == Spec => []OpenRecordHasReference
<1>1. IInv => OpenRecordHasReference
  BY DEF IInv, LedgerInv, OpenRecordHasReference
<1> QED
  BY <1>1, Inductive, PTL

-----------------------------------------------------------------------------
(* Steps                                                                   *)

\* A submission takes one reviewed record to SUBMITTING and one request to the
\* broker that had none.
LEMMA Submission ==
  ASSUME IInv, NEW t \in Threads, ExecuteSubmits(t)
  PROVE  \E i \in Intents :
           /\ record[i] = "REVIEWED_ONLY" /\ record' = [record EXCEPT ![i] = "SUBMITTING"]
           /\ order[i].state = "none" /\ order' = [order EXCEPT ![i].state = "pending"]
<1>1. PICK i \in Intents : i = req[t].i
  BY DEF ExecuteSubmits, At, IInv, ThreadsInv, ThreadInv
<1>2. record[i] = "REVIEWED_ONLY"
  BY <1>1 DEF ExecuteSubmits, Submittable, Reviewed
<1>3. order[i].state = "none"
  BY <1>2 DEF IInv, LedgerInv, Unsubmitted
<1> QED
  BY <1>1, <1>2, <1>3 DEF ExecuteSubmits

\* No handler, whatever it loaded and however late it commits, turns a recorded
\* broker rejection into anything else.
THEOREM RejectionStays == Spec => RejectionIsFinal
<1>1. ASSUME IInv, [Next]_vars, NEW i \in Intents, record[i] = "REJECTED"
      PROVE  record'[i] = "REJECTED"
  <2>1. CASE UNCHANGED <<record, order>>
    BY <1>1, <2>1
  <2>2. CASE Recorded
    BY <1>1, <2>2 DEF Recorded, MayRecord, IInv, TypeOK
  <2>3. CASE \E t \in Threads : ExecuteSubmits(t)
    BY <1>1, <2>3, Submission DEF IInv, TypeOK
  <2>4. CASE Broker
    <3>1. PICK j \in Intents, o \in Order : Advances(j, o)
      BY <1>1, <2>4, BrokerAdvances
    <3> QED
      BY <1>1, <3>1 DEF Advances, ledger
  <2> QED
    BY <1>1, <2>1, <2>2, <2>3, <2>4, StepKeeps DEF Effect
<1>2. IInv /\ [Next]_vars => [\A i \in Intents : record[i] = "REJECTED" => record'[i] = "REJECTED"]_vars
  BY <1>1
<1> QED
  BY <1>2, Inductive, PTL DEF Spec, RejectionIsFinal

\* What the promise sees of intent i, from its statuses.
Seen(i, belief, outcome) ==
  /\ record[i] \in Unsubmitted => belief = "unsent"
  /\ record[i] \in {"SUBMITTING", "UNKNOWN"} => belief = "uncertain"
  /\ record[i] \in KnownRecord => belief = "known"
  /\ record[i] = "REJECTED" => belief = "refused"
  /\ order[i].state = "none" => outcome = "none"
  /\ order[i].state = "pending" => outcome = "asked"
  /\ AtBroker(i) => outcome = "held"
  /\ order[i].state = "refused" => outcome = "refused"

LEMMA SeenBefore ==
  ASSUME TypeOK, NEW i \in Intents
  PROVE  Seen(i, Belief(i), Outcome(i))
BY DEF Seen, Belief, Outcome, Unsubmitted, KnownRecord, OpenRecord, AtBroker

LEMMA SeenAfter ==
  ASSUME TypeOK', NEW i \in Intents
  PROVE  Seen(i, Belief(i), Outcome(i))'
BY DEF Seen, Belief, Outcome, Unsubmitted, KnownRecord, OpenRecord, AtBroker

\* The promise's view of the state.
BeliefView == [i \in Intents |-> Belief(i)]
OutcomeView == [i \in Intents |-> Outcome(i)]

LEMMA ViewOutside ==
  ASSUME NEW i \in Intents, \A j \in Intents \ {i} : record'[j] = record[j] /\ order'[j].state = order[j].state
  PROVE  /\ BeliefView' = [BeliefView EXCEPT ![i] = Belief(i)']
         /\ OutcomeView' = [OutcomeView EXCEPT ![i] = Outcome(i)']
<1>1. \A j \in Intents \ {i} : Belief(j)' = Belief(j) /\ Outcome(j)' = Outcome(j)
  BY DEF Belief, Outcome
<1> QED
  BY <1>1 DEF BeliefView, OutcomeView

\* A lawful record commit records an order, a refusal or a doubt, or changes
\* nothing the promise sees.
LEMMA RecordedKeepsPromise ==
  ASSUME IInv, IInv', Recorded
  PROVE  [Promise!Next]_<<BeliefView, OutcomeView>>
<1>1. PICK t \in Threads, i \in Intents, rec \in RecordStatus :
        record' = [record EXCEPT ![i] = rec] /\ MayRecord(t, i, rec)
  BY DEF Recorded
<1>2. order' = order
  BY DEF Recorded, broker
<1>3. record'[i] = rec /\ \A j \in Intents \ {i} : record'[j] = record[j]
  BY <1>1 DEF IInv, TypeOK
<1>4. /\ Seen(i, Belief(i), Outcome(i))
      /\ Seen(i, Belief(i), Outcome(i))'
  BY SeenBefore, SeenAfter DEF IInv
<1>5. \A j \in Intents : Outcome(j)' = Outcome(j)
  BY <1>2 DEF Outcome
<1>6. OutcomeView' = OutcomeView
  BY <1>5 DEF OutcomeView
<1>7. BeliefView' = [BeliefView EXCEPT ![i] = Belief(i)']
  BY <1>2, <1>3, ViewOutside
<1>8. record[i] \in RecordStatus
  BY DEF IInv, TypeOK
<1>9. BeliefView[i] = Belief(i) /\ OutcomeView[i] = Outcome(i)
  BY DEF BeliefView, OutcomeView
<1>10. CASE Belief(i)' = Belief(i)
  BY <1>6, <1>7, <1>9, <1>10 DEF BeliefView
<1>11. CASE Belief(i)' # Belief(i)
  <2>1. CASE rec = "REJECTED"
    <3>1. Belief(i) = "uncertain" /\ Belief(i)' = "refused" /\ Outcome(i) = "refused"
      BY <1>1, <1>3, <1>4, <1>8, <1>11, <2>1
         DEF Seen, MayRecord, RecordStatus, Unsubmitted, Posted, KnownRecord, OpenRecord
    <3> QED
      BY <1>6, <1>7, <1>9, <3>1 DEF Promise!Next, Promise!RecordRefusal, BeliefView, OutcomeView
  <2>2. CASE rec \in KnownRecord
    <3>1. Belief(i) = "uncertain" /\ Belief(i)' = "known"
      BY <1>1, <1>3, <1>4, <1>8, <1>11, <2>2
         DEF Seen, MayRecord, RecordStatus, Unsubmitted, Posted, KnownRecord, OpenRecord
    <3>2. PICK r \in Intents : AtBroker(r)
      BY <1>1, <2>2 DEF MayRecord
    <3>3. Outcome(r) = "held"
      BY <3>2, SeenBefore DEF IInv, Seen
    <3> QED
      BY <1>6, <1>7, <1>9, <3>1, <3>3 DEF Promise!Next, Promise!RecordOrder, BeliefView, OutcomeView
  <2>3. CASE rec \notin KnownRecord \cup {"REJECTED"}
    <3>1. Belief(i) = "known" /\ Belief(i)' = "uncertain"
      BY <1>1, <1>3, <1>4, <1>8, <1>11, <2>3
         DEF Seen, MayRecord, RecordStatus, Unsubmitted, Posted, KnownRecord, OpenRecord
    <3> QED
      BY <1>6, <1>7, <1>9, <3>1 DEF Promise!Next, Promise!Doubt, BeliefView, OutcomeView
  <2> QED
    BY <2>1, <2>2, <2>3
<1> QED
  BY <1>10, <1>11

LEMMA SubmissionKeepsPromise ==
  ASSUME IInv, IInv', NEW t \in Threads, ExecuteSubmits(t)
  PROVE  [Promise!Next]_<<BeliefView, OutcomeView>>
<1>1. PICK i \in Intents :
        /\ record[i] = "REVIEWED_ONLY" /\ record' = [record EXCEPT ![i] = "SUBMITTING"]
        /\ order[i].state = "none" /\ order' = [order EXCEPT ![i].state = "pending"]
  BY Submission
<1>2. record'[i] = "SUBMITTING" /\ \A j \in Intents \ {i} : record'[j] = record[j]
  BY <1>1 DEF IInv, TypeOK
<1>3. order'[i].state = "pending" /\ \A j \in Intents \ {i} : order'[j].state = order[j].state
  BY <1>1 DEF IInv, TypeOK, Order
<1>4. Seen(i, Belief(i), Outcome(i)) /\ Seen(i, Belief(i), Outcome(i))'
  BY SeenBefore, SeenAfter DEF IInv
<1>5. /\ Belief(i) = "unsent" /\ Belief(i)' = "uncertain"
      /\ Outcome(i) = "none" /\ Outcome(i)' = "asked"
  BY <1>1, <1>2, <1>3, <1>4 DEF Seen, Unsubmitted
<1>6. /\ BeliefView' = [BeliefView EXCEPT ![i] = "uncertain"]
      /\ OutcomeView' = [OutcomeView EXCEPT ![i] = "asked"]
  BY <1>2, <1>3, <1>5, ViewOutside
<1>7. BeliefView[i] = "unsent" /\ OutcomeView[i] = "none"
  BY <1>5 DEF BeliefView, OutcomeView
<1> QED
  BY <1>6, <1>7 DEF Promise!Next, Promise!Submit, BeliefView, OutcomeView

LEMMA BrokerKeepsPromise ==
  ASSUME IInv, IInv', Broker
  PROVE  [Promise!Next]_<<BeliefView, OutcomeView>>
<1>1. PICK i \in Intents, o \in Order : Advances(i, o)
  BY BrokerAdvances
<1>2. record' = record
  BY <1>1 DEF Advances, ledger
<1>3. order'[i] = o /\ \A j \in Intents \ {i} : order'[j] = order[j]
  BY <1>1 DEF Advances, IInv, TypeOK
<1>4. Seen(i, Belief(i), Outcome(i)) /\ Seen(i, Belief(i), Outcome(i))'
  BY SeenBefore, SeenAfter DEF IInv
<1>5. \A j \in Intents : Belief(j)' = Belief(j)
  BY <1>2 DEF Belief
<1>6. BeliefView' = BeliefView
  BY <1>5 DEF BeliefView
<1>7. OutcomeView' = [OutcomeView EXCEPT ![i] = Outcome(i)'] /\ OutcomeView[i] = Outcome(i)
  BY <1>2, <1>3, ViewOutside DEF OutcomeView
<1>8. CASE order[i].state = "pending"
  <2>1. Outcome(i) = "asked" /\ Outcome(i)' \in {"held", "refused"}
    BY <1>1, <1>3, <1>4, <1>8 DEF Seen, Advances, AtBroker
  <2> QED
    BY <1>6, <1>7, <2>1 DEF Promise!Next, Promise!Answer, BeliefView, OutcomeView
<1>9. CASE order[i].state = "working"
  <2>1. Outcome(i) = "held" /\ Outcome(i)' = "held"
    BY <1>1, <1>3, <1>4, <1>9 DEF Seen, Advances, AtBroker
  <2> QED
    BY <1>6, <1>7, <2>1 DEF OutcomeView
<1> QED
  BY <1>1, <1>8, <1>9 DEF Advances

\* The whole machinery of threads, stale rows, locks, sweeps and operator
\* switches implements the promise: one request per intent, no refusal or order
\* recorded that the broker has not given, no refusal taken back.
THEOREM ImplementsPromise == Spec => KeepsPromise
<1>1. Init => Promise!Init
  <2> SUFFICES ASSUME Init, NEW i \in Intents
               PROVE  Belief(i) = "unsent" /\ Outcome(i) = "none"
    BY DEF Promise!Init
  <2>1. Seen(i, Belief(i), Outcome(i))
    BY InitIsSafe, SeenBefore DEF IInv
  <2> QED
    BY <2>1 DEF Seen, Init, Unsubmitted, NoOrder
<1>2. IInv /\ IInv' /\ [Next]_vars => [Promise!Next]_<<BeliefView, OutcomeView>>
  <2> SUFFICES ASSUME IInv, IInv', [Next]_vars
               PROVE  [Promise!Next]_<<BeliefView, OutcomeView>>
    OBVIOUS
  <2>1. CASE UNCHANGED <<record, order>>
    <3>1. \A i \in Intents : Belief(i)' = Belief(i) /\ Outcome(i)' = Outcome(i)
      BY <2>1 DEF Belief, Outcome
    <3> QED
      BY <3>1 DEF BeliefView, OutcomeView
  <2> QED
    BY <2>1, StepKeeps, RecordedKeepsPromise, SubmissionKeepsPromise, BrokerKeepsPromise DEF Effect
<1>3. IInv /\ IInv' /\ [Next]_vars => [Promise!Next]_(Promise!vars)
  BY <1>2 DEF Promise!vars, BeliefView, OutcomeView
<1> QED
  BY <1>1, <1>3, Inductive, PTL DEF Spec, KeepsPromise, Promise!Spec

\* A step of thread t that commits to the record of its intent puts no record in
\* doubt unless it engages the breaker, or loaded it engaged after submission.
LEMMA DoubtIsLoud ==
  ASSUME IInv, NEW t \in Threads, Continues(t), NEW i \in Intents,
         record[i] # "UNKNOWN", record'[i] = "UNKNOWN"
  PROVE  breaker' \/ (record[i] # "SUBMITTING" /\ req[t].i = i /\ req[t].brk)
<1>0. record \in [Intents -> RecordStatus]
  BY DEF IInv, TypeOK
<1>1. record' # record
  OBVIOUS
<1>2. \/ ReviewCommit(t) \/ ExecuteSubmits(t) \/ CancelAccepted(t) \/ PlaceRefused(t) \/ PlaceConfirmed(t)
      \/ PlaceUnknown(t) \/ PlaceMismatch(t) \/ AlarmCommit(t) \/ ReconcileCommit(t)
  BY <1>1 DEF Continues, ApproveCommit, RejectCommit, ExpireCommit, ExecuteExpires, ReviewFails,
              ExecuteReturns, PlaceRaises, CancelRefused, CancelUnknown, RecoverReconciles, RecoverBind,
              SetsIntent, Drops, Moves, ledger
<1>3. CASE ReviewCommit(t) \/ ExecuteSubmits(t) \/ CancelAccepted(t) \/ PlaceRefused(t) \/ PlaceConfirmed(t)
  <2>1. PICK rec \in RecordStatus :
          record' = [record EXCEPT ![req[t].i] = rec] /\ (rec # "UNKNOWN" \/ rec = record[req[t].i])
    <3>1. CASE ReviewCommit(t)
      <4>1. req[t].i \in Intents
        BY <3>1 DEF ReviewCommit, At, IInv, ThreadsInv, ThreadInv
      <4> QED
        BY <1>0, <3>1, <4>1 DEF ReviewCommit, SetsBoth, RecordStatus, Unsubmitted
    <3>2. CASE ExecuteSubmits(t) \/ CancelAccepted(t) \/ PlaceRefused(t) \/ PlaceConfirmed(t)
      BY <3>2 DEF ExecuteSubmits, CancelAccepted, PlaceRefused, PlaceConfirmed, SetsBoth,
                  RecordStatus, KnownRecord, OpenRecord
    <3> QED
      BY <1>3, <3>1, <3>2
  <2> QED
    BY <1>0, <2>1
<1>4. CASE PlaceUnknown(t) \/ PlaceMismatch(t)
  BY <1>4 DEF PlaceUnknown, PlaceMismatch, PlaceDoubted
<1>5. CASE AlarmCommit(t) \/ ReconcileCommit(t)
  <2>1. PICK rec : record' = [record EXCEPT ![req[t].i] = rec]
    BY <1>5 DEF AlarmCommit, ReconcileCommit
  <2>2. req[t].i = i
    BY <1>0, <2>1
  <2>3. record[i] # "SUBMITTING"
    BY <1>5, <2>2, PostedRecord
       DEF AlarmCommit, ReconcileCommit, At, AfterSubmission, Posted, KnownRecord, OpenRecord
  <2>4. req[t].brk \in BOOLEAN /\ req[t].ev \in Evidence
    BY DEF IInv, TypeOK, Request
  <2>5. breaker' \/ req[t].brk
    <3>1. CASE AlarmCommit(t)
      BY <2>4, <3>1 DEF AlarmCommit, Written
    <3>2. CASE ReconcileCommit(t)
      <4>1. req[t].ev = "MISMATCH"
        BY <1>0, <2>2, <2>4, <3>2 DEF ReconcileCommit, Written, Evidence
      <4> QED
        BY <2>4, <3>2, <4>1 DEF ReconcileCommit, Written
    <3> QED
      BY <1>5, <3>1, <3>2
  <2> QED
    BY <2>2, <2>3, <2>5
<1> QED
  BY <1>2, <1>3, <1>4, <1>5

\* Whatever puts a record in doubt, an answer lost or mismatched, a cancellation
\* without outcome or contradicting evidence, stops trading in the same commit.
THEOREM DoubtStops == Spec => DoubtStopsTrading
<1> DEFINE Loud(i) == record[i] # "UNKNOWN" /\ record'[i] = "UNKNOWN" =>
             \/ breaker'
             \/ record[i] # "SUBMITTING" /\ \E t \in Threads : req[t].i = i /\ req[t].brk
<1>1. ASSUME IInv, Next, NEW i \in Intents
      PROVE  Loud(i)
  <2>1. CASE \E t \in Threads : Continues(t)
    BY <1>1, <2>1, DoubtIsLoud
  <2>2. CASE Requests
    <3>1. record' = record
      BY <2>2 DEF Requests, CreateIntent, ApproveLoad, RejectLoad, ReviewLoad, ExecuteLoad, CancelLoad,
                  ReconcileLoad, RecoverLoad, Moves, ledger
    <3> QED
      BY <3>1
  <2>3. CASE Sweeps
    <3>1. record' = record
      BY <2>3 DEF Sweeps, PlanExpiryLoad, SweepReconciles, SweepSkips, SweepStart, Moves, ledger
    <3> QED
      BY <3>1
  <2>4. CASE Environment
    <3>1. record' = record
      BY <2>4 DEF Environment, Operator, OperatorAuthorizes, AuthorizationEnds, OperatorSetsControls,
                  Broker, BrokerRefuses, BrokerFills, OrderDies, BrokerAccepts,
                  Synchronizes, SnapshotAges, TimePasses, Dies, ledger
    <3> QED
      BY <3>1
  <2> QED
    BY <1>1, <2>1, <2>2, <2>3, <2>4 DEF Next
<1>2. IInv /\ [Next]_vars => [\A i \in Intents : Loud(i)]_vars
  BY <1>1
<1> QED
  BY <1>2, Inductive, PTL DEF Spec, DoubtStopsTrading
=============================================================================
