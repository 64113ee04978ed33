--------------------------- MODULE UeMeasurements ----------------------------
(***************************************************************************)
(* Measurement reporting of the UE's RRC (lte-ue-rrc.cc) for one measurement *)
(* identity: which cells have triggered it, the triggers that wait for their *)
(* time-to-trigger, and the reports that are scheduled.  The state of one    *)
(* identity depends on no other.                                            *)
(*                                                                         *)
(* Time is counted in measurement periods of the UE's PHY (200 ms).  No      *)
(* time-to-trigger is a multiple of the period, so a trigger is due between  *)
(* two measurements: "wait" is 0 for what is due at once and n > 0 for what  *)
(* is due after n - 1 more measurements.                                    *)
(***************************************************************************)
EXTENDS Integers, FiniteSets, SequencesExt

CONSTANTS
  Cells,        \* the cells the UE measures
  Configs,      \* the reporting configurations an eNB may give the UE
  MaxConfigs    \* bound: how many configurations the UE receives later on

Events == {"A1", "A2", "A3", "A4", "A5"}
Config == [event : Events, ttt : Nat, interval : Nat \ {0}, reportOnLeave : BOOLEAN]

ASSUME MeasAssumption == /\ Configs # {} /\ Configs \subseteq Config
                         /\ MaxConfigs \in Nat

\* How a cell compares with the thresholds of the event: it fulfils the entering
\* condition, the leaving condition, or neither of them (hysteresis).
Levels == {"in", "mid", "out"}

VARIABLES
  cfg,      \* the reporting configuration of the identity
  serving,  \* m_cellId
  joining,  \* TRUE in CONNECTED_HANDOVER
  level,    \* what the last measurement said of each cell
  meas,     \* reporting entry, trigger queues and scheduled events, see Meas0
  configs   \* history: how many configurations have been received

vars == <<cfg, serving, joining, level, meas, configs>>

NotRunning == -1

\* triggered: the cells of the entry of m_varMeasReportList; without any there is
\* no entry.  timer: the report its periodicReportTimer refers to; orphans: reports
\* that no handle refers to, by the time they wait.  queue: the cells recorded in
\* m_enteringTriggerQueue and m_leavingTriggerQueue.  scheduled: the events
\* themselves, in the order they are due, each with its own copy of the cells.
Meas0 == [triggered |-> {}, timer |-> NotRunning, orphans |-> <<>>,
          queue |-> [kind \in {"enter", "leave"} |-> <<>>], scheduled |-> <<>>]

Init ==
  /\ cfg \in Configs /\ serving \in Cells /\ joining = FALSE
  /\ level = [c \in Cells |-> "mid"]
  /\ meas = Meas0
  /\ configs = 0

Neighbours == Cells \ {serving}

-----------------------------------------------------------------------------
(* Reports.                                                                  *)

\* Scheduling a report overwrites the handle without cancelling what it refers to.
Scheduled(m, wait) ==
  [m EXCEPT !.timer = wait,
            !.orphans = IF m.timer = NotRunning THEN @ ELSE Append(@, m.timer)]

\* faulty: the entry keeps its timer for one report only
ReportedOnce(m, wait) == [m EXCEPT !.timer = NotRunning]

\* A report has been built: the timer is cancelled and started anew.
Reported(m, wait) == IF m.triggered = {} THEN m ELSE [m EXCEPT !.timer = wait]

\* A report interval that begins between two measurements, "interval" periods and
\* a fraction long.
Intervals == {cfg.interval + 1, cfg.interval + 2}

-----------------------------------------------------------------------------
(* Triggers.                                                                 *)

UsedIds(m) == {e.id : e \in ToSet(m.scheduled)}
FreshId(m) == CHOOSE i \in 0..Len(m.scheduled) : i \notin UsedIds(m)

\* The records once the cells are struck off, with those left without a cell.
Struck(m, kind, cells) ==
  [i \in DOMAIN m.queue[kind] |-> [m.queue[kind][i] EXCEPT !.cells = @ \ cells]]

\* What a loop that erases all entries of s but those at the positions P leaves.
Entries(s, P) ==
  LET n  == Cardinality(P)
      at == CHOOSE f \in [1..n -> P] : \A i, j \in 1..n : i < j => f[i] < f[j]
  IN  [i \in 1..n |-> s[at[i]]]

\* faulty: the record goes, its event stays
CancelRecord(m, kind, cells) ==
  LET struck == Struck(m, kind, cells)
  IN  [m EXCEPT !.queue[kind] = Entries(struck, {i \in DOMAIN struck : struck[i].cells # {}})]

\* CancelEnteringTrigger and CancelLeavingTrigger: the cells are struck off the
\* records, and a record that is left without a cell goes with its event.
Cancel(m, kind, cells) ==
  LET struck == Struck(m, kind, cells)
      left   == {i \in DOMAIN struck : struck[i].cells # {}}
      gone   == {struck[i].id : i \in DOMAIN struck \ left}
  IN  [m EXCEPT !.queue[kind] = Entries(struck, left),
                !.scheduled   = Entries(@, {i \in DOMAIN @ : @[i].id \notin gone})]

\* A trigger begins to wait for its time-to-trigger.
Waiting(m, kind, cells) ==
  LET id == FreshId(m) IN
  [m EXCEPT !.queue[kind] = Append(@, [cells |-> cells, id |-> id]),
            !.scheduled   = Append(@, [kind |-> kind, cells |-> cells,
                                       wait |-> cfg.ttt, id |-> id])]

\* faulty: the later triggers of the same cells stay
DequeuedAlone(m, kind, cells) ==
  IF m.queue[kind] = <<>> THEN m ELSE [m EXCEPT !.queue[kind] = Tail(@)]

\* What the last lines of VarMeasReportListAdd and VarMeasReportListErase do to the
\* queue, taking its first record for the one of the event that calls them.
Dequeued(m, kind, cells) ==
  IF m.queue[kind] = <<>> THEN m
  ELSE Cancel([m EXCEPT !.queue[kind] = Tail(@)], kind, cells)

\* A report goes out one microsecond later.
VarMeasReportListAdd(m, cells) ==
  Dequeued([Scheduled(m, 0) EXCEPT !.triggered = @ \union cells], "enter", cells)

\* reportOnLeave sends a last report at once; the timer goes with the entry.
VarMeasReportListErase(m, cells, wait) ==
  LET left == m.triggered \ cells
      timer == IF left = {} THEN NotRunning ELSE IF cfg.reportOnLeave THEN wait ELSE m.timer
  IN  Dequeued([m EXCEPT !.triggered = left, !.timer = timer], "leave", cells)

\* Only what the queues and the entry refer to is cancelled.
VarMeasReportListClear(m) == [Meas0 EXCEPT !.orphans = m.orphans]

-----------------------------------------------------------------------------
(* MeasurementReportTriggering: the cells that enter and leave, and the cells *)
(* whose waiting triggers are cancelled because they no longer do.            *)

Are(lv, l)   == {c \in Cells : lv[c] = l}
HasTriggered == meas.triggered

\* Events A1 and A2, about the serving cell.
ServingVerdict(lv) ==
  [enter     |-> IF lv[serving] = "in" /\ HasTriggered = {} THEN {serving} ELSE {},
   leave     |-> IF lv[serving] = "out" /\ HasTriggered # {} THEN {serving} ELSE {},
   stopEnter |-> IF lv[serving] = "in"  THEN {} ELSE Cells,
   stopLeave |-> IF lv[serving] = "out" THEN {} ELSE Cells]

\* faulty: each measurement starts the wait for leaving again
NeighbourRestarted(lv) ==
  [enter     |-> (Neighbours \intersect Are(lv, "in")) \ HasTriggered,
   leave     |-> Neighbours \intersect Are(lv, "out") \intersect HasTriggered,
   stopEnter |-> Neighbours \ Are(lv, "in"),
   stopLeave |-> Neighbours]

\* Events A3 and A4, about each neighbour.
NeighbourVerdict(lv) ==
  [enter     |-> (Neighbours \intersect Are(lv, "in")) \ HasTriggered,
   leave     |-> Neighbours \intersect Are(lv, "out") \intersect HasTriggered,
   stopEnter |-> Neighbours \ Are(lv, "in"),
   stopLeave |-> Neighbours \ Are(lv, "out")]

\* Event A5: the serving cell is bad and a neighbour good; either condition is
\* enough to leave.
BothVerdict(lv) ==
  LET bad == lv[serving] = "in"  good == lv[serving] = "out" IN
  [enter     |-> IF bad THEN (Neighbours \intersect Are(lv, "in")) \ HasTriggered ELSE {},
   leave     |-> IF good THEN Neighbours \intersect HasTriggered
                 ELSE Neighbours \intersect Are(lv, "out") \intersect HasTriggered,
   stopEnter |-> IF bad THEN Neighbours \ Are(lv, "in") ELSE Cells,
   stopLeave |-> IF HasTriggered = {} THEN {}
                 ELSE IF good THEN (Neighbours \intersect HasTriggered) \ Are(lv, "out")
                 ELSE Cells]

Verdict(lv) == CASE cfg.event \in {"A1", "A2"} -> ServingVerdict(lv)
                 [] cfg.event \in {"A3", "A4"} -> NeighbourVerdict(lv)
                 [] cfg.event = "A5"           -> BothVerdict(lv)

\* Without a time-to-trigger there is nothing to cancel and nothing waits.
Triggering(m, lv, wait) ==
  LET v       == Verdict(lv)
      stopped == IF cfg.ttt = 0 THEN m
                 ELSE Cancel(Cancel(m, "enter", v.stopEnter), "leave", v.stopLeave)
      entered == IF v.enter = {} THEN stopped
                 ELSE IF cfg.ttt = 0 THEN VarMeasReportListAdd(stopped, v.enter)
                 ELSE Waiting(stopped, "enter", v.enter)
  IN  IF v.leave = {} THEN entered
      ELSE IF cfg.ttt = 0 THEN VarMeasReportListErase(entered, v.leave, wait)
      ELSE Waiting(entered, "leave", v.leave)

-----------------------------------------------------------------------------
(* The events of the simulator and the calls of the RRC.                      *)

IsDue(wait) == wait \in {0, 1}
TriggerDue  == meas.scheduled # <<>> /\ IsDue(Head(meas.scheduled).wait)
ReportDue   == IsDue(meas.timer) \/ \E i \in DOMAIN meas.orphans : IsDue(meas.orphans[i])

Sooner(e) == [e EXCEPT !.wait = @ - 1]

\* faulty: the timer counts on when it is not running
AgedAnyway(m) ==
  [m EXCEPT !.timer     = @ - 1,
            !.orphans   = [i \in DOMAIN @ |-> @[i] - 1],
            !.scheduled = [i \in DOMAIN @ |-> Sooner(@[i])]]

\* A measurement period passes for everything that is scheduled.
Aged(m) ==
  [m EXCEPT !.timer     = IF @ = NotRunning THEN @ ELSE @ - 1,
            !.orphans   = [i \in DOMAIN @ |-> @[i] - 1],
            !.scheduled = [i \in DOMAIN @ |-> Sooner(@[i])]]

\* What the PHY may measure, of the cells the event looks at.
Measurements ==
  {lv \in [Cells -> Levels] : \A c \in Cells :
     \/ lv[c] = "mid"
     \/ IF c = serving THEN cfg.event \notin {"A3", "A4"} ELSE cfg.event \notin {"A1", "A2"}}

DoReportUeMeasurements ==
  /\ ~TriggerDue /\ ~ReportDue
  /\ level' \in Measurements
  /\ \E wait \in Intervals : meas' = Triggering(Aged(meas), level', wait)
  /\ UNCHANGED <<cfg, serving, joining, configs>>

\* A time-to-trigger ends: the event passes on the cells it was scheduled with.
ExpireTrigger ==
  /\ TriggerDue
  /\ LET e == Head(meas.scheduled)
         m == [meas EXCEPT !.scheduled = Tail(@)]
     IN  \/ /\ e.kind = "enter"
            /\ meas' = VarMeasReportListAdd(m, e.cells)
         \/ /\ e.kind = "leave"
            /\ \E wait \in Intervals : meas' = VarMeasReportListErase(m, e.cells, wait)
  /\ UNCHANGED <<cfg, serving, joining, level, configs>>

\* A report one microsecond after a trigger comes after all that is due with it.
MayReport(wait) == wait = 1 \/ (wait = 0 /\ ~TriggerDue)

\* SendMeasurementReport, called by the event of the entry's timer or by one that
\* has lost its handle.  Without an entry there is nothing to report.
SendMeasurementReport ==
  /\ \/ /\ MayReport(meas.timer)
        /\ \E wait \in Intervals : meas' = Reported([meas EXCEPT !.timer = NotRunning], wait)
     \/ \E i \in DOMAIN meas.orphans, wait \in Intervals :
          /\ MayReport(meas.orphans[i])
          /\ meas' = Reported([meas EXCEPT !.orphans = RemoveAt(@, i)], wait)
  /\ UNCHANGED <<cfg, serving, joining, level, configs>>

\* A reconfiguration repeats the measurement configuration, and ApplyMeasConfig
\* clears the reporting of every identity whose objects it updates.
RecvRrcConnectionReconfiguration ==
  /\ ~joining /\ configs < MaxConfigs
  /\ meas' = VarMeasReportListClear(meas)
  /\ configs' = configs + 1
  /\ UNCHANGED <<cfg, serving, joining, level>>

\* A handover command brings the target's configuration; nothing has been
\* compared with its thresholds yet.
RecvHandoverCommand(c) ==
  /\ ~joining /\ configs < MaxConfigs /\ c # serving
  /\ serving' = c /\ joining' = TRUE
  /\ cfg' \in Configs
  /\ level' = [d \in Cells |-> "mid"]
  /\ meas' = VarMeasReportListClear(meas)
  /\ configs' = configs + 1

NotifyRandomAccessSuccessful ==
  /\ joining /\ joining' = FALSE
  /\ meas' = VarMeasReportListClear(meas)
  /\ UNCHANGED <<cfg, serving, level, configs>>

Next == \/ DoReportUeMeasurements \/ ExpireTrigger \/ SendMeasurementReport
        \/ RecvRrcConnectionReconfiguration \/ NotifyRandomAccessSuccessful
        \/ \E c \in Cells : RecvHandoverCommand(c)

Spec == Init /\ [][Next]_vars

\* The PHY measures periodically, what is scheduled happens, and a random access
\* that has begun ends.
FairSpec == /\ Spec
            /\ WF_vars(DoReportUeMeasurements) /\ WF_vars(ExpireTrigger)
            /\ WF_vars(SendMeasurementReport) /\ WF_vars(NotifyRandomAccessSuccessful)

-----------------------------------------------------------------------------
Trigger == [cells : SUBSET Cells, id : Nat]
Event   == [kind : {"enter", "leave"}, cells : SUBSET Cells, wait : Nat, id : Nat]
Meas    == [triggered : SUBSET Cells, timer : Nat \union {NotRunning}, orphans : Seq(Nat),
            queue : [{"enter", "leave"} -> Seq(Trigger)], scheduled : Seq(Event)]

\* The shape of the state.
MeasTypeOK ==
  /\ cfg \in Configs /\ serving \in Cells /\ joining \in BOOLEAN /\ configs \in 0..MaxConfigs
  /\ level \in [Cells -> Levels]
  /\ meas \in Meas

\* What VarMeasReportListAdd and VarMeasReportListErase assume of the queue: its
\* first record is the one of the event that calls.  Records and events go
\* together one by one, whatever has been cancelled and cleared in between.
FirstRecordIsCallers ==
  \A kind \in {"enter", "leave"} :
    LET events == Entries(meas.scheduled,
                          {i \in DOMAIN meas.scheduled : meas.scheduled[i].kind = kind})
    IN  /\ Len(events) = Len(meas.queue[kind])
        /\ \A i \in DOMAIN events : events[i].id = meas.queue[kind][i].id

\* What the assertions on the reporting entry rest on: only cells that have not
\* triggered wait to enter, only cells that have triggered wait to leave, so that a
\* trigger to leave always finds an entry; and the entry of an event about the
\* serving cell has no other cell than the one that serves the UE now.
TriggersMatchEntry ==
  /\ \A i \in DOMAIN meas.queue.enter : meas.queue.enter[i].cells \intersect meas.triggered = {}
  /\ \A i \in DOMAIN meas.queue.leave : meas.queue.leave[i].cells \subseteq meas.triggered
  /\ cfg.event \in {"A1", "A2"} => meas.triggered \subseteq {serving}

\* Periodic reporting goes on as long as there is an entry and not longer: the
\* entry's handle refers to a pending report, through every restart of the timer.
EntryIsTimed == meas.triggered # {} <=> meas.timer # NotRunning

\* Whether a cell fulfils the entering or the leaving condition of the event.
Entering(c) ==
  CASE cfg.event \in {"A1", "A2"} -> c = serving /\ level[c] = "in"
    [] cfg.event \in {"A3", "A4"} -> c # serving /\ level[c] = "in"
    [] cfg.event = "A5"           -> c # serving /\ level[c] = "in" /\ level[serving] = "in"
Leaving(c) ==
  CASE cfg.event \in {"A1", "A2"} -> c = serving /\ level[c] = "out"
    [] cfg.event \in {"A3", "A4"} -> c # serving /\ level[c] = "out"
    [] cfg.event = "A5"           -> c # serving /\ "out" \in {level[c], level[serving]}

\* The entry follows the measurements: a cell that goes on fulfilling a condition
\* ends up in it, or out of it, for good.
EntryFollowsLevels ==
  \A c \in Cells : /\ <>[]Entering(c) => <>[](c \in meas.triggered)
                   /\ <>[]Leaving(c)  => <>[](c \notin meas.triggered)

\* A cell that no longer fulfils the entering condition when its time-to-trigger
\* ends does not trigger (doc/source/lte-testing.rst:408-412).
NoStaleTrigger ==
  [][\A c \in meas'.triggered \ meas.triggered : Entering(c)']_vars
=============================================================================
