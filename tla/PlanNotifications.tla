------------------------- MODULE PlanNotifications -------------------------
(***************************************************************************)
(* What the operator is told by email (scripts/check_attention_alert.py, a *)
(* script the host runs now and then): the pending events of capital       *)
(* plans, and changes of the services' health.  The backend sets an event  *)
(* with the commits that change a plan (the state of CapitalPlanning);     *)
(* the script reads them, sends one email and marks them in a statement    *)
(* of its own, with no transaction around the three.                       *)
(***************************************************************************)
EXTENDS Integers, FiniteSets

CONSTANTS
  NoticePlans,  \* ids of plans, in the order of their creation
  EmailLimit,   \* plans one email reports
  Health,       \* what the health of the services may be
  MaxEvents,    \* bound: events of a plan
  MaxFailures0, \* bound: statements, emails and runs that fail
  MaxSwings     \* bound: changes of health

ASSUME NoticeAssumption == MaxEvents \in Nat \ {0}

VARIABLES
  notice,       \* notification_event and notification_status of each plan
  editing,      \* the notification_status a handler loaded with its plan
  monitor,      \* where the script is, with what it read
  emailed,      \* events the operator was sent
  overtaken,    \* plans whose event was set while the script reported the one before
  health,       \* health of the services
  known,        \* the state file
  told,         \* the health the operator was last sent, or the script began with
  unsaved,      \* the script died after an alert and before it wrote the file
  failures0, swings  \* bound counters

noticeVars == <<notice, editing, monitor, emailed, overtaken, health, known, told,
                unsaved, failures0, swings>>

NoEvent == [event |-> 0, status |-> "NONE"]
NoEdit == "NONE"
NoHealth == "NONE"
Monitoring(at) == [at |-> at, batch |-> [p \in {} |-> 0], seen |-> NoHealth]

NoticeInit ==
  /\ notice = [p \in NoticePlans |-> NoEvent]
  /\ editing = [p \in NoticePlans |-> NoEdit]
  /\ monitor = Monitoring("idle")
  /\ emailed = {} /\ overtaken = {}
  /\ health \in Health /\ known = NoHealth /\ told = NoHealth /\ unsaved = FALSE
  /\ failures0 = 0 /\ swings = 0

-----------------------------------------------------------------------------
(* The backend                                                             *)

healthVars == <<health, known, told, unsaved, swings>>

PlanCreated(p) ==
  /\ notice[p] = NoEvent /\ \A q \in NoticePlans : q < p => notice[q] # NoEvent
  /\ notice' = [notice EXCEPT ![p] = [event |-> 1, status |-> "PENDING"]]
  /\ UNCHANGED <<editing, monitor, emailed, overtaken, healthVars, failures0>>

PlanLoaded(p) ==
  /\ notice[p] # NoEvent /\ editing[p] = NoEdit /\ notice[p].event < MaxEvents
  /\ editing' = [editing EXCEPT ![p] = notice[p].status]
  /\ UNCHANGED <<notice, monitor, emailed, overtaken, healthVars, failures0>>

(* The UPDATE carries the status only if it was not PENDING when loaded.   *)
PlanChanged(p) ==
  LET status == IF editing[p] = "PENDING" THEN notice[p].status ELSE "PENDING" IN
  /\ editing[p] # NoEdit /\ editing' = [editing EXCEPT ![p] = NoEdit]
  /\ notice' = [notice EXCEPT ![p] = [event |-> @.event + 1, status |-> status]]
  /\ overtaken' = IF status = "SENT" THEN overtaken \cup {p} ELSE overtaken \ {p}
  /\ UNCHANGED <<monitor, emailed, healthVars, failures0>>

-----------------------------------------------------------------------------
(* planned_notifications                                                   *)

Pending == {p \in NoticePlans : notice[p].status = "PENDING"}
Oldest(S) == {p \in S : Cardinality({q \in S : q < p}) < EmailLimit}

Query ==
  /\ monitor.at = "idle"
  /\ monitor' =
       IF Pending = {} THEN Monitoring("health")
       ELSE [Monitoring("send") EXCEPT !.batch = [p \in Oldest(Pending) |-> notice[p].event]]
  /\ UNCHANGED <<notice, editing, emailed, overtaken, healthVars, failures0>>

Batched == {<<p, monitor.batch[p]>> : p \in DOMAIN monitor.batch}
SendNotice ==
  /\ monitor.at = "send"
  /\ monitor' = [monitor EXCEPT !.at = "mark"]
  /\ emailed' = emailed \cup Batched
  /\ UNCHANGED <<notice, editing, overtaken, healthVars, failures0>>

\* Mutant: every pending event is marked, the one that came meanwhile too.
MarkedPending == Pending
Marked == DOMAIN monitor.batch \cap Pending
MarkSent ==
  /\ monitor.at = "mark" /\ monitor' = Monitoring("health")
  /\ notice' = [p \in NoticePlans |->
       IF p \in Marked THEN [notice[p] EXCEPT !.status = "SENT"] ELSE notice[p]]
  /\ overtaken' = overtaken \cup
       {p \in Marked \cap DOMAIN monitor.batch : notice[p].event # monitor.batch[p]}
  /\ UNCHANGED <<editing, emailed, healthVars, failures0>>

(* A query that fails is passed over; an email or an UPDATE that fails ends *)
(* the run, before the services are looked at.                             *)
QueryFails ==
  /\ monitor.at = "idle" /\ monitor' = Monitoring("health")
  /\ failures0 < MaxFailures0 /\ failures0' = failures0 + 1
  /\ UNCHANGED <<notice, editing, emailed, overtaken, healthVars>>
RunFails ==
  /\ monitor.at \notin {"idle", "save"} /\ monitor' = Monitoring("idle")
  /\ failures0 < MaxFailures0 /\ failures0' = failures0 + 1
  /\ UNCHANGED <<notice, editing, emailed, overtaken, healthVars>>

-----------------------------------------------------------------------------
(* main: the health of the services.  The first look sends nothing.        *)

noticeOnly == <<notice, editing, emailed, overtaken>>

CheckHealth ==
  /\ monitor.at = "health"
  /\ IF known \in {NoHealth, health}
     THEN /\ known' = health /\ monitor' = Monitoring("idle")
          /\ told' = IF known = NoHealth THEN health ELSE told
     ELSE monitor' = [monitor EXCEPT !.at = "alert", !.seen = health] /\ UNCHANGED <<known, told>>
  /\ UNCHANGED <<noticeOnly, health, unsaved, failures0, swings>>
SendAlert ==
  /\ monitor.at = "alert" /\ monitor' = [monitor EXCEPT !.at = "save"]
  /\ told' = monitor.seen
  /\ UNCHANGED <<noticeOnly, health, known, unsaved, failures0, swings>>
SaveHealth ==
  /\ monitor.at = "save" /\ monitor' = Monitoring("idle")
  /\ known' = monitor.seen /\ unsaved' = FALSE
  /\ UNCHANGED <<noticeOnly, health, told, failures0, swings>>
DiesUnsaved ==
  /\ monitor.at = "save" /\ monitor' = Monitoring("idle")
  /\ failures0 < MaxFailures0 /\ failures0' = failures0 + 1 /\ unsaved' = TRUE
  /\ UNCHANGED <<noticeOnly, health, known, told, swings>>

HealthSwings ==
  /\ swings < MaxSwings /\ swings' = swings + 1
  /\ health' \in Health \ {health}
  /\ UNCHANGED <<noticeOnly, monitor, known, told, unsaved, failures0>>

NoticeNext ==
  \/ \E p \in NoticePlans : PlanCreated(p) \/ PlanLoaded(p) \/ PlanChanged(p)
  \/ Query \/ SendNotice \/ MarkSent \/ QueryFails \/ RunFails
  \/ CheckHealth \/ SendAlert \/ SaveHealth \/ DiesUnsaved \/ HealthSwings

NoticeSpec == NoticeInit /\ [][NoticeNext]_noticeVars

-----------------------------------------------------------------------------
(* Properties                                                              *)

NoticeTypeOK ==
  /\ \A p \in NoticePlans : notice[p] = NoEvent \/
       (notice[p].event \in 1..MaxEvents /\ notice[p].status \in {"PENDING", "SENT"})
  /\ editing \in [NoticePlans -> {NoEdit, "PENDING", "SENT"}]
  /\ emailed \subseteq NoticePlans \X (1..MaxEvents) /\ overtaken \subseteq NoticePlans
  /\ {known, told} \subseteq Health \cup {NoHealth}

(* Whichever statement, email or run fails, a plan event marked SENT was   *)
(* emailed, unless a handler set it while the script reported the event    *)
(* before it; and the state file never runs ahead of what the operator was *)
(* sent, nor behind it unless the script died between the two.             *)
OperatorTold ==
  /\ \A p \in NoticePlans :
       notice[p].status = "SENT" => <<p, notice[p].event>> \in emailed \/ p \in overtaken
  /\ known = told \/ unsaved \/ monitor.at = "save"
=============================================================================
