# A verification project for ns-O-RAN (ns-3.38 with LTE/mmWave dual connectivity)

The repository is the ns-3.38 network simulator with the stack of ns-O-RAN in it: LTE
cells, 5G NR (mmWave) cells in EN-DC dual connectivity with an LTE anchor, an EPC core,
and E2 agents that report to, and are controlled by, a near-real-time RIC. Most of the
3827 files are upstream ns-3. What the project adds or changes is in `src/src/lte` and
`src/src/mmwave`; all paths below are relative to `src/src/` unless they start there.

This directory models the control plane of that stack, the RLC entities that carry a bearer, and the
UE's measurement reporting: TLA+ modules translated from the
C++ handlers, TLC configurations that check them on small instances, and theorems that
TLAPS proves for all of them. `PROJECT.json` holds the same information for tools: which
definition translates which lines, which run checks which property, and the hazards.

## 1. Inventory

The program is a discrete-event simulator: one event runs at a time, to its end. What is
concurrent is the system it simulates. Every message (radio, X2, S1) and every timer is an
event of its own, so handlers of the UE, of several base stations and of the core network
interleave in every order the delays permit. A wrong order does not corrupt memory: it meets
`NS_ASSERT` or `NS_FATAL_ERROR` and ends the simulation, or it leaves an entity waiting
or a table wrong for good.

| Component | State it keeps | Operations | Interacts with | Hard behaviour | Makes it correct |
|---|---|---|---|---|---|
| UE RRC (`lte/model/lte-ue-rrc.cc`), NAS (`epc-ue-nas.cc`) | state, cell, RNTI, T300, pending connection, SIB2 received | Connect, system information, random access result, setup, reject, reconfiguration, handover command, T300 | MAC (random access), eNB RRC (SRB0, SRB1), NAS | lost SRB0 messages, retries, a command in a wrong state | every attempt ends connected or camped; no message in an unexpected state |
| eNB RRC: `UeManager` and `LteEnbRrc` (`lte-enb-rrc.cc`) | a context per UE: state, target, postponed target, pending reconfiguration, bearers, source, five timers; the X2-U table; the last RNTI | connection handlers, `ScheduleRrcConnectionReconfiguration`, `PrepareHandover`, six X2 handlers, path switch, bearer set-up and release, five timeouts, `AddUe`, `RemoveUe` | UE RRC, other eNBs over X2, S1 application, MAC | three procedures share one completion message; timers race messages; answers are accepted without a check of the state | one serving context, no dangling timer, no dangling route, every context resolves |
| X2 application (`epc-x2.cc`) | sockets per peer cell; TEIDs to redirect | send and receive of each X2-AP message, forwarding of data | eNB RRCs | links of different delay reorder messages | order per link |
| S1 application and S1-AP (`epc-enb-application.cc`, `epc-s1ap.cc`) | IMSI to RNTI; tunnel to RNTI and bearer, and back | initial UE message, context setup, path switch, context release, E-RAB release | eNB RRC, MME, SGW | tables of two eNBs change in several steps during a handover | packets reach the context that serves the UE |
| MME, SGW/PGW (`epc-mme-application.cc`, `epc-sgw-pgw-application.cc`) | cell and eNB address of the UE, bearers, tunnels | attach, path switch, bearer release | S1-AP; S11 is a direct call | the order of path switches | the SGW sends where the UE is |
| LTE MAC (`lte-enb-mac.cc`, `lte-ue-mac.cc`) | preambles, HARQ, buffer reports | random access, scheduling interface | RRC, PHY, RLC | preamble pool empty, late answers | a temporary context per preamble |
| Dual-connectivity coordinator (in `lte-enb-rrc.cc`) | SINR per UE and cell, best and last mmWave cell, pending time-to-trigger events, flags | association update, `PerformHandover`, RIC handover, eviction, LTE/mmWave switching | mmWave RRCs over X2, UE RRC, E2 agent | delayed events act on stale decisions; flags never cleared | one handover per UE at a time; flags agree with the UE |
| PDCP and its MC split (`mc-enb-pdcp.cc`, `mc-ue-pdcp.cc`) | sequence numbers, active leg | transmit, receive, switch | RLC, coordinator | a switch with PDUs in flight | nothing lost by a switch |
| RLC AM (`lte-rlc-am.cc`) | VT(A), VT(S), VR(R), VR(X), VR(MS), VR(H); transmission buffer, two retransmission buffers, reception buffer; poll, reordering, status prohibit and buffer status timers | SDU from PDCP, transmit opportunity, data PDU, STATUS PDU, four timeouts | PDCP, MAC | sequence numbers wrap at 1024; loss, reordering and retransmission, whole or in segments; STATUS PDUs too small for all NACKs | in-order, exactly-once delivery; windows in step; progress |
| RLC UM (`lte-rlc-um.cc`, `lte-rlc-um-lowlat.cc`) | SN, VR(UR), VR(UX), VR(UH), buffers, reordering and buffer status timers | as above, without ARQ | PDCP, MAC | wrap, reordering timer, swallowed buffer reports | whole SDUs, in order, once; nothing stranded |
| UE measurement reporting (in `lte-ue-rrc.cc`) | per measurement identity: the reporting entry with its periodic timer, queues of entering and leaving triggers, scheduled events | measurement from the PHY, end of a time-to-trigger, report, reconfiguration, handover | PHY, eNB RRC | triggers that wait side by side, are cancelled singly or all, and fire on a copy of their cells | records and events agree; the entry is reported and follows the measurements |
| Schedulers, FFR, handover algorithms, ANR | allocations, measurements | requests to the RRC | RRC | requests at any time | (environment) |
| mmWave MAC, PHY, channel | slots, HARQ, SINR | - | RRC, PHY | numeric | (out of reach) |
| E2 agents (`mmwave-enb-net-device.cc`, `lte-enb-net-device.cc`) | counters, controlled UEs | KPM reports, RIC control | RRC, external e2sim | control racing local decisions | control beats a pending decision |

Not part of this project's own logic, and not modelled: wifi, wimax, olsr, aodv, mesh, the
internet stack, the ns-3 core, the examples, the bindings and the build system.

### Hazards

`PROJECT.json` lists each with its line. In short: four procedures (reconfiguration, bearer
release, handover, connection setup) end with the same message and are told apart by the
state at its arrival; five timers must be cancelled by exactly the right handlers; context
removal touches the X2-U table, the S1 tables and the MAC but no timer; the handover answer is
accepted in any state; a secondary handover is decided, scheduled and carried out over four cells while outages,
evictions and RIC commands decide again, with one flag as the lock; the routing of a UE is spread over the SGW, two S1 tables and an
X2-U table that change at different moments; SRB0 messages have no ARQ. Below, RLC compares numbers modulo
1024 over a lower layer that loses and reorders, and any of eight timers may be the only thing that moves a
bearer on; a measurement trigger waits in a queue and in an event, which are cancelled separately.

A hazard names only properties that some run would see violated if it struck. Those without a property are the cases the
runs leave out or in which nothing holds that a document promises; each has a note that says which.

## 2. Plan

In this order; 1 to 9 are done, the rest is ahead.

1. **`LteState`, `UeRrc`, `Epc`, `EnbRrc`, `EnbHandover`, composed by `LteHandover`**: attach,
   reconfiguration and X2 handover of one UE over the LTE cells and the EPC. The most
   important behaviour: every other procedure stands on it.
2. **`LteHandoverProofs`**: types, what may become of leaving and of serving contexts, the one anchor and the routing
   tables, timer discipline and uniqueness of a preparation, for all constants. **`LtePhasesProofs`**: undisturbed handovers as
   a sequence of phases, and the refinement of `Mobility`.
3. **`McState`, `McCoordinator`, `McSecondary`, composed by `DualConnectivity`**: association update,
   time-to-trigger events, secondary handover, LTE/mmWave switching, RIC handover and eviction of one UE.
4. **`Mobility`**: the abstract specification of item 1 (an anchor, cells prepared, cells left, the path of the
   core), which `LteHandover` implements; by TLC.
5. **`RlcPdu`, `RlcService`, `RlcUm`**: framing and reassembly, the promise to PDCP, and unacknowledged mode.
6. **`RlcAm`**: the acknowledged mode, implementing the stronger promise of `RlcService`.
7. **`UeMeasurements`**: triggers, reporting entry and reports of one measurement identity.
8. **`DualConnectivityProofs`, `UeMeasurementsProofs`, `RlcAmProofs`**: the safety invariants of items 3, 6 and 7 for all constants.
9. **`RlcPduProofs`, `RlcUmProofs`, the second half of `RlcAmProofs`**: what framing and reassembly do to the stream of SDUs, and that
   both modes implement `RlcService`.
10. **Left of item 3**: rejection and the timeouts of a secondary handover, losses, the THRESHOLD mode, and an
   abstract specification (the cell that the UE's data goes to, and a lock) that the coordinator refines.
   **PDCP** with its two legs over two RLC entities, and the buffers that a switch moves between cells.
11. **Proofs left**: RLC AM with reordered STATUS PDUs, where only the types and `AmGapTimed` are proved; the handover's `NoAbort` with unequal
   delays between two cells.

## 3. The modules

| Module | Models | Code |
|---|---|---|
| `LteState` | constants, variables, types, queues | `lte-enb-rrc.h`, `lte-ue-rrc.h`, `epc-x2-sap.h`, `epc-enb-application.h` |
| `UeRrc` | RRC of the UE and the NAS retry | `lte-ue-rrc.cc`, `epc-ue-nas.cc` |
| `Epc` | S1 tables, MME, SGW/PGW | `epc-enb-application.cc`, `epc-mme-application.cc`, `epc-sgw-pgw-application.cc`, `epc-s1ap.cc` |
| `EnbRrc` | connection control, reconfiguration, bearers, timers, removal | `lte-enb-rrc.cc` |
| `EnbHandover` | X2 handover at source and target, path switch | `lte-enb-rrc.cc`, `epc-x2.cc` |
| `LteHandover` | composition, specification, properties | |
| `MCLteHandover` | values of the constants for TLC | |
| `LteHandoverProofs`, `LtePhasesProofs` | theorems about `LteHandover` | |
| `Mobility` | the promise of a make-before-break handover, implemented by `LteHandover` | (abstract) |
| `McState` | constants, variables, types, messages of dual connectivity | `lte-enb-rrc.h`, `lte-ue-rrc.h`, `epc-x2.cc` |
| `McCoordinator` | the LTE eNB's decisions and its context of the UE | `lte-enb-rrc.cc`, `lte-enb-net-device.cc`, `mmwave-enb-net-device.cc` |
| `McSecondary` | the mmWave cells' contexts and the UE | `lte-enb-rrc.cc`, `lte-ue-rrc.cc`, `epc-ue-nas.cc` |
| `DualConnectivity` | composition, specification, properties | |
| `MCDualConnectivity` | values of the constants for TLC | |
| `DualConnectivityProofs` | theorems about `DualConnectivity` | |
| `RlcPdu` | segmentation, concatenation, reassembly, the lower layers | `lte-rlc-um.cc`, `lte-rlc-am.cc` |
| `RlcService` | what RLC promises to PDCP, implemented by `RlcUm` and `RlcAm` | (abstract) |
| `RlcUm`, `MCRlcUm` | unacknowledged mode, both classes; constants for TLC | `lte-rlc-um.cc`, `lte-rlc-um-lowlat.cc` |
| `RlcAm`, `MCRlcAm` | acknowledged mode; constants for TLC | `lte-rlc-am.cc` |
| `RlcPduProofs` | lemmas about buffers, PDUs and the channel, for both modes | |
| `RlcUmProofs`, `RlcAmProofs` | theorems about `RlcUm` and `RlcAm` | |
| `UeMeasurements`, `MCUeMeasurements` | measurement reporting; constants for TLC | `lte-ue-rrc.cc` |
| `UeMeasurementsProofs` | theorems about `UeMeasurements` | |
| `NatFacts` | induction over numbers, and minima, by facts about finite sets | |

**State.** `ue` is the UE's RRC. `ctx[<<cell, rnti>>]` is the `UeManager` of that RNTI, with state
`NONE` when there is none; its `timers` are the `EventId`s that are running. `dl` and `ul` are the RRC
messages on the radio link of each context, `x2` the X2-C messages in the order of sending, `s1up` and
`s1down` the S1-AP messages of each cell. `x2u`, `enbApp` and `epc` are the routing state:
`m_x2uTeidInfoMap`, the maps of `EpcEnbApplication`, and the UE's entry in MME and SGW. `removals` are the
`RemoveUe` events scheduled by `HandoverJoiningTimeout`. `fault` names the assertion or fatal error that
has ended the program; nothing happens after it. `asked` counts the requests of the environment and bounds them.

With dual connectivity, `co` is what `LteEnbRrc` of the LTE cell keeps of the UE: the flag
`m_mmWaveCellSetupCompleted` (`completed`), `m_imsiUsingLte`, `m_lastMmWaveCell` (`last`), the scheduled
`PerformHandover` (`event`) and three more. `allowed` is `m_allowHandoverTo`; `lte` is the UE's context at the LTE cell
with the leg of `McEnbPdcp`; `mm[<<cell, rnti>>]` a context at a mmWave cell; `newest`, `lastRnti` and `forward` are
tables of the mmWave cells (`m_imsiRntiMap`, `m_lastAllocatedRnti`, `m_teidToBeForwardedMap`); `ue` has the state of its
secondary RRC, what the primary one knows of the mmWave cell, and the leg of `McUePdcp`.

In `RlcUm` and `RlcAm`, `tx` and `rx` are the members of the transmitting and of the receiving entity of one bearer
(the class plays both parts; data flow one way in the model), `mac` and `rxMac` whether the MAC of each side has been told of
something to send, `channel` and `statuses` the PDUs on their way with how often each was overtaken. `accepted`
and `delivered` are what `RlcService` speaks about. In `UeMeasurements`, `meas` is the reporting entry of one
identity, its trigger queues, the events of the simulator behind them, and reports whose `EventId` was overwritten (`orphans`);
`level` is the verdict of the last measurement on each cell.

**Actions.** One action is one handler with everything it calls: `RecvRrcConnectionRequest`
includes the timers it stops and starts, the message it sends and the S1 message that follows;
`SwitchToState(CONNECTED_NORMALLY)` sends a pending reconfiguration in the same step (`Connected`,
`ConnectedDl`). A handler that the code ends with an assertion in some state has that branch here, as
`Abort`. S11 between MME and SGW is a direct call in the code and part of the same action here.

**Abstractions.**
* One UE. The other UEs of a cell appear as choices: whether admission succeeds (`Admission`),
  whether a preamble is left (`Preambles`), when the scheduler asks for a reconfiguration.
* All bearers of one attach share the number of the attach as tunnel endpoint: the code
  allocates one TEID per bearer, in the same step. So the release of a dedicated bearer leaves their common X2-U entry,
  where the code erases the bearer's own (`lte-enb-rrc.cc:626`).
* RNTIs are handed out in order and not reused (the code's counter has 16 bits).
* A removed context takes its radio messages with it; the eNB's MAC grants nothing to an RNTI it
  does not know.
* One component carrier; the ideal/real RRC protocols differ in encoding only, the real one's queues
  and losses are modelled.
* Payload packets are not modelled; where a packet would go is (`DownlinkEnd`).

Of dual connectivity:
* SINRs are not state. An action takes place when some SINRs lead to it: `TriggerUeAssociationUpdate`
  is split into its outcomes (`DetectOutage`, `ConnectAfterOutage`, `ReturnToMmWave`, `ScheduleHandover`, ...), with
  any allowed cell as the best one. The time to trigger is a scheduled event that is due at any later time.
* One LTE cell: its own handover to another LTE cell, and with it the postponed one (`m_queuedHandoverRequestCellId`), is
  part of the LTE models only.
* One UE, one bearer, one component carrier; FIXED_TTT or DYNAMIC_TTT mode.
* The UE's access to a mmWave cell (random access and set-up) is one step (`UeConnectSecondary`): nothing else
  can reach the context before. The handover's access is a step of its own.
* An eviction is due at once, as it is for up to 24 UEs.
* RIC commands come through the control file, which leaves out the UE's current cell. `RicRace` allows them
  while a handover is scheduled.
* Links lose nothing, and a target accepts every handover.

Of RLC:
* An SDU is its number and a length of a few units; header bytes are absorbed (`RlcPdu`). Framing is modelled: pieces,
  their tags FULL, FIRST, MIDDLE, LAST, the length-indicator limit of 2047 bytes (`MaxLi`), and the
  reassembly states with what each keeps. A stretch that mixes SDUs is `Junk`, which `UmWhole` and `AmWhole` exclude.
* The MAC is a flag: told of data or not. What it believes after a grant is its own estimate, so either value, except
  after a grant that is too small.
* An opportunity of 0 units stands for one with room for headers at most: nothing is sent, or, for a retransmission,
  a first segment without data and the rest behind it.
* Timers may expire at any time they run.
* `Window` is 2 or 4 for 512, so that numbers wrap within a few PDUs.

Of measurements:
* One measurement identity; the state of others is disjoint. Measured values, offsets and hysteresis appear as the verdict
  of a measurement: entering condition, leaving condition, or neither. Layer-3 filtering is data.
* Time is counted in periods of the PHY (200 ms). No time-to-trigger of the standard is a multiple of it,
  so a trigger is due between two measurements. A report comes one microsecond after its trigger, or one interval
  after the report before.

A definition marked "faulty" is not used by any specification. It is a plausible error in the
definition after it, and documents which property notices it.

## 4. Properties and runs

`handover` to `late_removal` are instances of `MCLteHandover`, `dual` and `ric_race` of `MCDualConnectivity`, `rlc_*` of `MCRlcUm` and
`MCRlcAm`, the last two of `MCUeMeasurements`. `CHECK_DEADLOCK` is `FALSE` in the LTE and RLC runs: with the bounded
requests or SDUs used up, a system in which everything has arrived really has nothing to do. The others are
checked for deadlock.

| Run | Instance | Checks | States |
|---|---|---|---|
| `handover` | 3 cells, 4 handovers, 2 reconfigurations, no timeouts, no loss, rejections and missing preambles possible | `TypeOK`, `NoAbort`, `DownlinkPath`, `LeavingIsFinal`, `MakesBeforeBreaking` | 27 thousand |
| `failures` | 2 cells, 2 RNTIs each, attach from camped, 1 handover, 1 reconfiguration, 1 bearer release, loss, every timer, delayed removals | `OneAnchor`, `UplinkPath`, `NoDanglingRoutes` | 146 thousand |
| `timers` | as `failures`, 2 handovers, no delayed removal, preambles available | `TimerDiscipline`, `OnePreparation` | 355 thousand |
| `liveness` | 2 cells, attach, 3 handovers, 2 reconfigurations, unequal X2 delays, no loss | `NoAbort`, `ContextsResolve`, `UeGetsBearers` | 2 thousand |
| `late_removal` | a handover that joins after its timeout | violates `ServingContextKept` | |
| `dual` | 2 mmWave cells with 2 RNTIs, one may be turned off and on, RIC commands, outages, no race of RIC and scheduled event, equal X2 delays | `McTypeOK`, `McNoAbort`, `EventIsCurrent`, `OneHandover`, `McDownlinkEnds`, `Settled`, `LegFollowsCoordinator`, `McSetupEnds`, `HandoverEnds` | 140 thousand |
| `ric_race` | as `dual`, RIC commands at any time, no cell turned off | violates `McNoAbort` | |
| `rlc_um` | 5 SDUs of lengths 1 to 3, window 4, both classes, opportunities of 0 to 2 units, 2 PDUs in flight that may overtake, 2 losses | `UmTypeOK`, `UmWhole`, `UmGapTimed`, `UmKeepsItsPromise`, `UmDelivers` | 256 thousand |
| `rlc_am` | 2 SDUs, window 2, opportunities of 0 to 2 units, retransmissions whole or cut, at most 3 PDUs in flight, STATUS PDUs of 1 or 2 NACKs, overtaking data, 1 loss | `AmTypeOK`, `AmWhole`, `NothingForgotten`, `WindowsInStep`, `NackedIsKept`, `AmKeepsItsPromise` | 2.0 million |
| `rlc_am_live` | 2 SDUs in 4 PDUs, window 2 (so a wrap), whole retransmissions, 1 NACK, 2 losses | `AmGapTimed`, `AmDelivers` | 289 thousand |
| `measurements` | 3 cells, 12 configurations of events A1 to A5, 2 reconfigurations or handovers | `MeasTypeOK`, `FirstRecordIsCallers`, `TriggersMatchEntry`, `EntryIsTimed`, `EntryFollowsLevels` | 75 thousand |
| `stale_trigger` | event A3 with 256 ms, 3 cells | violates `NoStaleTrigger` | |

What they show:

* `NoAbort`: with loss-free links no order of radio, X2 and S1 messages brings a handler into a
  state it does not expect. This includes handovers asked for during a reconfiguration or while
  joining, rejected ones, and ones the target drops.
* `MakesBeforeBreaking`: the detailed model implements `Mobility`. A cell becomes the anchor only after it has made
  room and the last anchor has sent the UE away, the path of the core moves only from a cell that has sent the UE away to the
  anchor, and no cell forgets the UE while the path still leads to it. It is checked with loss-free links; with
  losses and timeouts the code breaks off handovers in more ways than the promise knows.
* `OneAnchor`, `DownlinkPath`, `UplinkPath`: the same for states. At no time do two eNBs
  serve; a downlink packet sent at any time ends at a context that holds it for the UE: its own, or
  the one the handover command under way leads to; an eNB that serves can always send uplink.
* `NoDanglingRoutes`: no table of an eNB keeps a tunnel for a context that is gone, whatever tears it down.
* `TimerDiscipline`, `OnePreparation`: the two facts the assertions of the timeout handlers and
  the unguarded `RecvHandoverRequestAck` silently rely on.
* `LeavingIsFinal`: nothing that arrives late makes the source serve again.
* `ContextsResolve`, `UeGetsBearers`: every half-way state is left, and an attach ends with bearers.
* `OneHandover`: `m_mmWaveCellSetupCompleted` is a lock. While it is `FALSE` after the first set-up, exactly one
  step of one handover waits somewhere; while it is `TRUE`, none does. Four functions take the lock and two
  handlers release it.
* `EventIsCurrent`: what `PerformHandover` asserts, and the reason: outage, return, eviction and each decision
  cancel or replace the scheduled event. Only the RIC's handover does not, which `ric_race` shows.
* `McDownlinkEnds`: a packet the coordinator sends over X2-U at any moment of a handover ends, through
  redirections, at a context with an RLC that the UE is at or has been sent to.
* `Settled`: when nothing is in transit, coordinator, UE, cells and X2 agree on one context, and that context has
  the RLC request that its next handover needs.
* `LegFollowsCoordinator`: the decision kept in `m_imsiUsingLte` and the leg of the eNB's PDCP never part, although
  five places write one or the other. The leg of the UE's PDCP has no such invariant: a reconfiguration turns it to
  mmWave during an outage, a secondary handover leaves it on LTE.
* `McSetupEnds`, `HandoverEnds`: a UE told to connect gets its mmWave leg; the lock is always released.
* `UmKeepsItsPromise`, `AmKeepsItsPromise`: both modes implement `RlcService`. What unacknowledged mode delivers was accepted,
  once and in order; acknowledged mode leaves nothing out either.
* `UmWhole`, `AmWhole`: PDCP gets whole SDUs only, and a PDU put together from segments has neither holes nor bytes twice.
* `UmGapTimed`, `AmGapTimed`: whatever is missing is waited for by a running timer, or will be asked for.
* `UmDelivers`, `AmDelivers`: an accepted SDU gets through; in unacknowledged mode unless a part of it was lost
  or came after t-Reordering had given it up.
* `WindowsInStep`, `NothingForgotten`, `NackedIsKept`: VT(A) <= VR(R) <= VR(MS) <= VR(H) <= VT(S) around the wrap; the
  transmitter keeps, once, each PDU that the receiver has not completed; a NACK never asks for one that is gone.
* `FirstRecordIsCallers`: `VarMeasReportListAdd` and `VarMeasReportListErase` take the head of the queue for the record of
  the event that calls them, a comment says; queue and events indeed stay in step through every cancellation.
* `TriggersMatchEntry`: what the assertions of these functions on the entry rest on.
* `EntryIsTimed`, `EntryFollowsLevels`: an entry is reported periodically as long as it exists, and it follows
  a condition that lasts.

**Bounds.** `MaxRnti` limits contexts per cell, `MaxHandovers`, `MaxReconfs` and `MaxReleases` the requests of
the environment. Four handovers between three cells include returning to a cell that still holds the old
context, handing over during a reconfiguration and during joining, and a rejection in between; two RNTIs
per cell are an attempt and its retry, or a context and the one that replaces it. Two bearers
distinguish the default bearer from a dedicated one and one reconfiguration for several bearers from one for
each. `failures` and `timers` ask for handovers even before the bearers are set up (`EarlyHandover`) and go on past
none of the resulting aborts: an abort ends the behaviour, the properties are about the states before and at it.
`failures` was also run once with two handovers, three RNTIs and no loss (2.8 million states), with the same
result; it is too long to keep.

In `dual`, `MaxQueue` keeps new decisions back while more than one message to the UE, or on X2, waits. It does not
bound the number of handovers, outages or reconfigurations: the run covers all of them. Two cells suffice for a UE that comes
back to a cell that still has its last context, two RNTIs for the old context and the new one. Three cells
(1.9 million states) and `MaxQueue = 2` (410 thousand) gave the same result for the invariants. One cell
may be turned off, so that another one is left; with all of them off, the handover to "cell 0" fails an assertion
on X2 (a hazard).

In the RLC runs, `Harq` is how many PDUs are in flight, `Depth` how many later ones may overtake one, `MaxLost` the
losses; two of each allow a loss of a PDU and of its retransmission or report, and a duplicate that arrives after both.
`rlc_am` has a `CONSTRAINT` on top (`FewInFlight`), without which it takes too long: data and STATUS PDUs in flight are three
together, and two while there is a segment without data, which must be gone before the second SDU comes. The first SDU is
enough for it: its two units are two PDUs, or one that is cut into an empty segment and the rest. The proofs need no such bound. Four bounds stand
for conditions the code does not enforce:
* `StatusDepth = 0`: STATUS PDUs stay in order. With 1, an old STATUS PDU whose ACK_SN is below VT(A) counts as ahead of
  everything, and `WindowsInStep` fails (a hazard).
* `NotAWindowAhead`: no PDU is overtaken by one 512 numbers newer.
* `LossySns = 3` in `rlc_um`: the losses come before the numbers wrap. Where a gap is passed over by more than a window of PDUs
  before t-Reordering expires, with PDUs of both ends of the number space buffered, `ReassembleOutsideWindow` walks the map from the lowest
  number and stops at the first one inside the window: older PDUs with higher numbers stay behind and come out late. The condition
  that is really needed is `InStep` (section 5), with which the proofs permit losses anywhere.
* `RetxOptions = {TRUE}` in `rlc_am_live`: retransmissions are not cut. With cut ones (the attribute's default) TLC finds an SDU
  that is never delivered; `lte/doc/source/lte-design.rst:1738-1742` calls re-segmentation unsupported.

In `measurements`, `MaxConfigs = 2` lets a handover follow a reconfiguration or another handover, while triggers and orphaned
reports of the first configuration wait. Three cells give two neighbours that trigger together or one after the other; times to
trigger of 0, 1, 2 and 3 periods give no, one and two measurements in between. Event A5 occurs with short times only: with
more than 200 ms it restarts the wait for leaving at each measurement, and `EntryFollowsLevels` fails (a hazard; no
algorithm of the repository uses A5).

**Equal delays.** `EqualDelays` makes the X2 links deliver in the order of sending, as the point-to-point
links of the helpers with one common delay do. With links of different delay each link is in order
on its own. With three cells and unequal delays `NoAbort` does not hold (a hazard in `PROJECT.json`);
over two cells it does, and `liveness` runs with it. `McDownlinkEnds` does not hold with unequal delays either: the source cell
may still redirect to the target when the UE is already back.

**Fairness.** The simulator executes every event that is scheduled. So the delivery of radio, X2 and S1
messages, the UE's own steps, T300 and the eNB timers are weakly fair, each link and context on its own.
Requests of the environment (handovers, reconfigurations, bearer releases) and losses are not fair: nobody has to
make them. In `liveness` no timer may expire, which says that progress does not come from clean-up.
In `dual`, the delivery of each kind of message, the UE's access to a cell and the bearer set-up by the MME are
weakly fair; association updates, scheduled handovers, RIC commands and the switches of cells are not.
Loss with fair timers is not claimed to be live: repeated losses may use up the bounded RNTIs.
In the RLC runs, running timers expire, a MAC that was told of data grants an opportunity large enough
for a PDU, and what is in flight arrives or is given up; PDCP's offers and losses are not fair. A MAC that was told
nothing grants nothing, which is where a swallowed report would show. In `measurements` the PHY measures on,
what is scheduled happens, and a random access that has begun ends; reconfigurations and handovers are not fair.

**Findings.** The violations are disagreements between the code and its own comments, messages or documents:
the removal after a joining timeout is delayed by 300 ms and not cancelled when the UE arrives
(`late_removal`); a RIC handover leaves the scheduled event that then fails the assertion of `PerformHandover`
(`ric_race`); a cell that stops fulfilling the entering condition triggers all the same if another cell of the same
trigger still does (`stale_trigger`; the tests have one neighbour only, and 256 ms is the default of the A3 algorithm).
Each is quoted in `PROJECT.json`. What else was met, and is a hazard without a run because no sentence of the repository
promises the contrary: a postponed handover target is never cleared; without a preamble the source waits for good;
a report whose event was overwritten cannot be cancelled; UE and eNB may use different legs; and the RLC and A5 cases
under Bounds.

## 5. Proofs

Each theorem holds for all values of the constants that fulfil the named `ASSUME`s of its modules
(`LteState`, `McState`, `RlcPdu`, `RlcUm`, `RlcAm`, `UeMeasurements`), which TLC evaluates in the runs: cells are positive numbers and there is at least one,
bounds are natural numbers, windows are positive, option sets have their types. Where a theorem needs more, that is a hypothesis
in its statement, named below with what goes wrong without it.

### The LTE handover

Cells, RNTIs, bearers and requests are arbitrary in number. In `LteHandoverProofs` losses, timers and unequal delays are all permitted; `LtePhasesProofs` is about undisturbed handovers.

* `Invariance`: `Spec => []IInv`. `TypeOK` is not inductive alone: the X2 message UE CONTEXT RELEASE is addressed to
  the context's source, which must be known (`SourceKnown`: a context that joins or switches the path has one);
  that a new context does not overwrite another needs `Fresh` (no context above the last RNTI handed out); an uplink
  message after a handover needs an RNTI (`UeHasRnti`). `IInv` is their conjunction. One lemma per handler shows that it
  preserves `IInv`; `NextKeeps` collects them, one step per disjunct of `Next`.
* `TypeCorrect`: `Spec => []TypeOK`, from it.
* `LeavingContextIsFinal`: `Spec => LeavingIsFinal`. For each handler, the context it writes is either not the one that
  leaves or is written `HANDOVER_LEAVING` or `NONE`. The freshness part of `IInv` is what keeps `AddUe` away from it.
* `OnlyTheScheduledRemoval`: `Spec => ServingContextKept` if the RemoveUe event of `HandoverJoiningTimeout` never occurs. Each
  handler that removes a context has tested that it is in a state in which it does not serve; the event alone has not. So the cause of
  the violation that `late_removal` shows is the only one.
* `OneServingContext`: `Spec => []OneAnchor`, without hypotheses. Counting contexts is not inductive, as no handler looks at
  another cell's contexts. `AnchorInv` says instead where the UE is: whoever serves is the context the UE takes for its own; a message that
  ends the connection (HANDOVER COMMAND, REJECT) is only under way from a context that is over; a message that shows the
  UE's presence is only under way to the context the UE is at, or to one that is over; and T300 does not run out when the UE is connected.
* `TablesCorrect`: `Spec => []TablesInv`, without hypotheses, and from it `UplinkHasTunnel` and `RoutesLeadToContexts`. A
  route must lead to a context that has the tunnel *and* the default bearer, since the removal of a context clears its routes
  bearer by bearer; hence a context with bearers has the default one, the S1 links never ask for its release, and the application knows the
  tunnel of each context with bearers but for a joining one. PATH SWITCH and HANDOVER REQUEST ACK write the tables of contexts that
  other cells name, so the invariant also says that whoever waits for the answer of a preparation has been given its RNTI and is
  not being handed over itself.
* `TimersDisciplined`, `OnePreparationAtATime`: `Spec => []TimerDiscipline` and `Spec => []OnePreparation` under
  `Assured`: no delayed removal fires and a preamble is always found. Without either condition the properties are false, as
  the run `late_removal` and the hazard of the missing preamble show. The two are proved together (`JInv`): the timer that guards leaving is
  started by an answer whose context must still be preparing, and a context prepares once only because no
  handler that could end the preparation runs in between.

* `PhasesFollow`: `Spec => []Phased` under `WellBehaved`: no timer runs out, nothing is lost, the X2 links have
  equal delays, and handovers and reconfigurations are asked for only in the states in which the code takes them (the constants of
  the run `handover` are such; refusals and missing preambles are permitted). What `NoAbort` needs is that each message meets its
  context in the right state, and no handler keeps track of that; so the invariant is the history: camped, connecting, without
  bearers, resting, preparing, refused, forgotten (no preamble: the source waits for good), granted, commanded, moving, arriving,
  switching the path, switched. Each phase fixes the UE's contexts and their states, all that is under way on every radio, X2 and S1 link,
  and what the tables say; besides, the source of the last handover may still be waiting for its release.
* `HandoverNeverAborts` and `DownlinkReachesUe` follow, the latter when the UE starts connected (`StartConnected`; before its
  bearers are set up there is no downlink to speak of). Under losses and timeouts neither holds in general: a UE whose HANDOVER COMMAND is lost is
  nowhere, and with unequal delays `NoAbort` fails (a hazard).
* `HandoverMakesBeforeItBreaks`: the refinement `MakesBeforeBreaking` under the same hypotheses. Each phase determines what
  `Mobility` sees (anchor, cells prepared, cells left, path); so each action either leaves that alone or is one action of `Mobility`, and a
  lemma per action says which.

All inductive invariants (`JInv`, `AnchorInv`, `TablesInv`, `Phased`) were checked by TLC first, on the constants of the runs
`timers` (the first), `failures` and `handover` (the next two), and `handover` (the last).

### Dual connectivity

* `McTypes`: `McSpec => []McTypeOK`, without hypotheses: RIC commands at any time, unequal delays. `McTypeOK` says
  that every message names cells and RNTIs that exist; the strengthening adds which RNTIs have been handed out, who is the source of
  a joining context, and which context each message is addressed to.
* `McPhases`: the inductive invariant of everything else. The handlers of coordinator, cells and UE never check that a message is
  expected; that it is follows from the whole history of the handover. So the invariant describes that history: the UE's secondary
  connection is always in one of a few phases (not connected, being set up, served, and the steps of a handover from the request
  to the context release), and each phase fixes the one message that the next step waits for, which contexts exist and in which state, where the
  UE is, what X2-U forwards, and how the lock `m_mmWaveCellSetupCompleted` stands. None of the properties is inductive, or implied by
  any smaller set of facts we know of: the step that follows a message is harmless only because of what the phase says of the other variables.
  Each lemma takes one action in one phase to the next phase.
* `McNeverAborts`, `McEventCurrent`, `McOneHandover`, `McSettled`, `McLegFollows`, `McDownlink` follow from it, for any number of
  cells and handovers. `McDownlinkEnds` chases redirections from cell to cell; that the chase ends is an
  argument on the age of the redirections, and needs finitely many cells.

  The hypotheses: `EqualDelays` (with links of different delay a redirection outlives its handover, and `McDownlinkEnds` is false); no RIC command
  while a handover is scheduled (`RicRace = FALSE`; else `McNoAbort` is false, as the run `ric_race` shows); and some cell that is never turned
  off (else there is the handover to "cell 0"). `OneHandover` and `LegFollowsCoordinator` hold in TLC's instances without the
  first two; their proofs need them, because the phases do.

### Measurement reporting

* `MeasInvariant`: `Spec => []MeasInv`, for every set of configurations. The claim of the code's comment, that the head of a queue is
  the record of the trigger that fires, is `FirstRecordIsCallers`. It is not inductive: cancellation takes records and their events
  out of the middle. `MeasInv` says that records and events of a queue carry the same numbers in the same order, that no number occurs twice, and
  that events are due in the order in which they were scheduled, because between two clearings there is one
  configuration and so one time to trigger. The second part relates each queue to the reporting entry (a cell that waits to enter is not in it,
  one that waits to leave is), the third the timer to the entry's existence.
* `MeasTypes`, `MeasFirstRecord`, `MeasTriggersMatch`, `MeasEntryIsTimed` follow. No hypotheses.

### RLC AM

* `AmTypes`, `AmGaps`: `AmSpec => []AmTypeOK` and `AmSpec => []AmGapTimed` for every window, every SDU length, and whatever the lower layers lose
  or reorder. The receiving entity's invariant (`RxOK`: VR(R) <= VR(MS) <= VR(H) within a window, all between VR(R) and VR(MS)
  complete, all in the buffer below VR(H), VR(X) inside the window while t-Reordering runs) needs nothing of the transmitting entity.
* `AmWindowsInStep`, `AmNothingForgotten`, `AmNackedIsKept`: the windows of both entities, under `StatusDepth = 0`: STATUS PDUs arrive in
  the order of sending. With reordered STATUS PDUs they are false (Bounds, above). `AmWindows` is the invariant: both windows in step; each
  data PDU on its way that the receiver would take lies below VT(S), and the number half a ring from it is neither buffered nor on its
  way before it (`Fresh`); each STATUS PDU on its way tells the truth: it acknowledges only what has been received, reports missing only what
  is kept, and later ones never report missing what earlier ones acknowledge (`Reports`); what is outstanding is kept or has been seen
  (`Remembers`). The order of STATUS PDUs is what keeps ACK_SN from pointing behind VT(A), where "before" would mean "far ahead".
  Numbers live on a ring of two windows, so every comparison is one of distances from a common base, and the first lemmas say when a base may be changed.

* `AmDeliversWhole`, `AmKeepsPromise`: `AmSpec => []AmWhole`, and `AmSpec => AmKeepsItsPromise`, the refinement of the acknowledged
  service of `RlcService`, again under `StatusDepth = 0`. No handler knows where in the stream of accepted SDUs it is, so the invariant
  (`AmData`) supplies that: each number between VR(R) and VT(S) has a *place* in the stream (how many SDUs lie before it,
  how far into the next it begins), and the PDU of that number carries the stream from its place to the next one's (`Streamed`). Then the
  transmission buffer holds the stream from the place of VT(S) on (`Buffered`), the retransmission buffers hold PDUs of the stream, whole or
  in segments (`Keeps`), so does the channel (`Travels`), the reception buffer has collected segments that fit together
  (`Collected`), and the reassembly has delivered the stream up to the place of VR(R), but for the beginning of an SDU it keeps (`Rebuilt`).
  Each handler moves places or the stretches between them; `AmDataNext` shows that whatever PDCP gets by that is what comes next in the stream.

### RLC UM

Unacknowledged mode takes its numbers from the same ring, but nothing comes back from the receiver, so nothing keeps the transmitter
from running a whole ring ahead of it. `lte-rlc-um.cc` relies on t-Reordering expiring first. Hence a hypothesis on the behaviour, `InStep`: neither
VR(UR) nor the number of a PDU that is on its way lies more than a window (half the numbers, 512 in the code) behind the next number to be sent. It
is not always true: TLC finds it violated on the constants of `rlc_um`, where t-Reordering may take longer than five PDUs, with a window of
4. `UmStaysInStep` gives a case in which it holds by itself: no more PDUs have been sent than a window has numbers. The other hypothesis,
`Window > 1`, rules out a ring of two numbers.

* `UmTypes`, `UmGaps`: `UmTypeOK` and `UmGapTimed` throughout. `UmShape` is the invariant: seen from VR(UR), the buffered numbers lie below VR(UH), the
  number below VR(UH) is buffered when there is a gap, VR(UX) lies above VR(UR) and right above a buffered number while the timer
  runs (`InWindow`), and VR(UH) is not beyond what has been sent. From it, `MoveWindowIs` shows that `ReassembleOutsideWindow` never finds
  anything in step, `FirstMissingIs` that the search for the next gap ends at a gap or at the wrap but passes over none, and `ReceivedIs` and `ExpiredIs` that either handler,
  all its calls together, moves VR(UR) on by some n and reassembles what is buffered below (`MovesOn`).
* `UmDeliversWhole`, `UmKeepsPromise`: `UmWhole` throughout, and the refinement of the unacknowledged service of `RlcService`. `UmData` is the
  invariant of places in the stream again, with the difference that losses leave no trace in the receiver: what it has delivered is
  a selection of the SDUs before the place of VR(UR), whole and in order (`Chosen`), and a start that it keeps is one that
  the PDU numbered VR(UR), if it comes, continues. `UmReassembles` goes through the cases of `ReassembleAndDeliver`: PDU expected or not, start kept
  or not, framing information of both ends.

### Buffers and PDUs

`RlcPduProofs` has the lemmas both modes rest on. `PackIs`: an opportunity of any size cuts a buffer in two somewhere behind its first byte. `Packs`: so the
new PDU carries the stream from the buffer's place to some later one, and what is left is the buffer there. `Pack`, `BufferSize` and
the reassembly loops are folds, whose definition chooses a function on sets of positions; `PackSteps` and its like show that such a function
exists and satisfies the loop's equation step by step, by induction on the number of positions (`NatInd` in `NatFacts`, from the facts
about finite sets, as the library's induction rule cannot be instantiated here).

### What stays with TLC

Liveness under fairness (`UmDelivers`, `AmDelivers` and those of the other runs) and `ENABLED` are beyond the proof system, as is
anything that reaches a `RECURSIVE` operator; no module uses one. Of safety, the LTE handover's `NoAbort` with unequal X2 delays between two
cells (the run `liveness`) is checked only. What the hypotheses exclude is not proved, and mostly false: with reordered STATUS PDUs
`WindowsInStep` fails, so of RLC AM only `AmTypes` and `AmGaps` cover them; out of step RLC UM breaks its promise; the others are named with
their components. Bounds says how each fails.

## 6. Not modelled, and why

Handover algorithms and ANR (tables of measured values; their decisions appear as requests), layer-3 filtering and the contents
of reports, PHY, channel, schedulers and HARQ (numeric), RRC re-establishment (no UE ever sends a request), radio link failure
(`DoNotifyRadioLinkFailure`, `lte-ue-rrc.cc:767`, only logs), carrier aggregation, ASN.1 and S1/X2 encodings, tracing, the E2
reports. Of RLC: the buffers handed over to another cell (`DoSendMcPdcpSdu`, `GetTxBuffer`), the optional CoDel queue,
the saturation mode and transparent mode. PDCP's numbering. Of dual connectivity: rejected, timed-out and preamble-less secondary
handovers (the coordinator is never told, and its lock stays), losses on SRB0, reconfigurations inside
`MC_CONNECTION_RECONFIGURATION` (fatal at once), the THRESHOLD and inter-RAT modes, several bearers, and the RIC's command
through the E2 message (which does not check the current cell).
A failed handover leaves the UE in `CONNECTED_HANDOVER` for good: so does the code (`lte-ue-rrc.cc:823`, and
`lte-design.rst:3330`, "there is no proper handling of handover failure").

The models cover a small part of the repository's lines because most of those are upstream ns-3 (wifi, internet, routing, core),
tables of error models, encodings and numeric code; of the control plane named in section 1 they cover the handlers that
change protocol state.
