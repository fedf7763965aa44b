# A formal model of the GSR Logistics warehouse system

GSR Logistics runs consolidation warehouses in China and collection points in
Uzbekistan. Its ERP (TypeScript: Next.js server actions and API routes over
PostgreSQL, background jobs on pg-boss, phones with an offline queue) records
where every carton is: received into a warehouse, packed into crates, planned
onto a truck, scanned aboard, on the road, scanned off, handed over; who was told
of it; and what the client owes. This directory holds TLA+ modules of the part of
that system whose correctness depends on order, concurrency and failure, the TLC
configurations that check them, and TLAPS proofs.

Paths below are relative to the repository root.

## 1. Inventory of the system

### Parts with a state machine of their own

| Component | State | Operations | Talks to |
|---|---|---|---|
| Truck loading (`src/modules/wms/scanning/service.ts`, `batches/`, `planning/`) | `boxes`, `batches`, `load_plans`, `box_movements`, `scan_events` | open a quick truck, approve a plan, load scan, remove a loaded code, finish loading, depart, cancel | phones (sync route), events, office lock `lockTruckLoading` |
| Truck unloading (`scanning/unload.ts`, `batches/reroute.ts`) | the same tables | reroute, unload scan, finish unload, resolve missing, close | phones, arrival notices, shelf rules |
| Shelf rules (`boxes/shelf.ts`, `warehouses/landed.ts`, `documents/arrivals.ts`, `boxes/road-loss.ts`) | derived from `box_movements` | which shelf status a carton goes back to, whether it landed here before, which truck lost it | both sides of the truck |
| Floor and counter (`boxes/status.ts`, `inventory/service.ts`, `issue/service.ts`) | `boxes`, `handovers` | mark lost/void, restore, write off, stocktake, accept a found carton, issue | the truck components, through the box rows |
| Crates (`crates/service.ts`) | `crates`, `boxes.crate_id` | pack, update, dissolve | loading |
| Receiving and receipts (`receipts/service.ts`, `receipts/annul.ts`) | `receipts`, `boxes` | confirm, edit a lot, void, annul | the floor, trucks |
| Phone outbox (`src/offline/scan-outbox.ts`, `loading-screen.tsx`, `scanning/sync.ts`, `api/scan/sync/route.ts`) | IndexedDB queue, flushes in flight | queue, flush, cut into slices, halve a refused body, forget a settled scan | the sync route, which judges the person and dispatches to loading and unloading |
| Event fan-out (`platform/notifications/service.ts`, `platform/events/service.ts`) | `events`, `notifications` | emit inside a business transaction, claim, write notifications, run rules | every component emits; rules write tasks, deal stages |
| Telegram delivery (the same file, `platform/notifications/retire-tasks.ts`) | `notifications` with attempts and claim times, Telegram message ids | claim, reclaim, send, settle, release, fail; retire the buttons of a task that was closed or handed on | Telegram, tasks |
| Client notices (`notices/arrival.ts`, `notices/arrival-staff.ts`) | `client_notices` | claim for a landing, window, tell the staff, send, defer, settle | unloading, Telegram |
| Load plans and road cargo (`planning/service.ts`, `planning/road.ts`) | plan versions, lines, owed counts | submit, verdict, cancel; reserve what stands, owe what comes, claim it as it lands | loading, unloading |
| Release debts and approvals (`issue/service.ts`, `issue/approvals.ts`, `debt/`) | `issue_approvals`, `handovers` | ask, decide, expire, consume | counter, ledger |
| Client money (`finance/`, `costing/fx-reprice.ts`) | `client_transactions`, the setting `fx_residue_auto` | type, void, move and split a row; reconcile exchange differences; reprice; close by hand | counter, costing |

The rest (CRM, deals, customs documents, labels, tracking, client cabinet, bots,
reports, settings, accounts, audit, backups, screens, Android apps) keeps rows
one person edits at a time, reads what the above wrote, or is input and output.
`PROJECT.json` lists each with the reason it is not modelled.

### What is hard

* **Two doors of different discipline on one truck.** The office's doors take an
  advisory lock per truck and re-read the truck under it. The phone's load scan
  does neither: it reads the truck without a lock, then locks boxes and writes,
  the truck's status included. The unload scan reads without a lock too but, for
  a truck in transit, locks and re-judges the row.
* **Delivery.** Phones work offline, resend what they got no answer to, and a
  crate code becomes one row per carton with derived ids.
* **State spread over three columns and a history.** Status, warehouse and truck of
  a box must tell one story; what a carton returns to is read back from movement
  rows; a dozen doors write them.
* **Destination changes on the road**, while scans made for the old one are queued.
* **Claims before work.** Events are marked processed, then handled; notifications
  and notices are claimed with a time-out of ten minutes, then sent; the workers
  overlap, are slow and die.
* **Work started after a commit.** A closed task's buttons are retired by a job that
  sees only rows already sent.
* **Reads before locks.** A plan's verdict and cancellation, the counter's debt and a
  moved charge are read before the transaction that acts on them.
* **Promises over cargo that is not there yet.** A plan takes cartons still on the
  road; their landings must find it, once.
* **Rows that are settled by a sum.** Whether an exchange difference may be closed
  depends on where a running sum returns to zero, and any dated row moves that.
* **One bad row among two hundred** in a phone's queue.

`PROJECT.json` lists each hazard at its line with the properties that watch it, or
why none does.

### What makes each modelled component correct

* Loading and unloading: a carton is in one place; what rides a truck agrees with
  the truck's stage; a truck moves forward only; nothing is forgotten on the road;
  cargo lands where the truck is bound; a replay of a carton's scan moves nothing.
* Shelf rules: a carton on a shelf has a status that fits that warehouse.
* Outbox: nothing is lost, nothing waits for ever.
* Fan-out: nobody is told twice, what is marked processed is handled or known to be
  with a drain that died.
* Telegram: a row becomes one message; a finished task keeps no button; each row settles.
* Notices: whoever has cargo on the shelf is told, once per arming; the staff hear
  of every landing.
* Plans: a reservation is never counted twice or forgotten; a landing never passes a
  truck that is owed; a plan lives and dies with its truck.
* Counter: one permission opens one handover, of what its decider was shown; a carton
  leaves once; the operator can always ask.
* Money: a client owes his open rows and nothing else, and no correction of form
  changes what he owes.

## 2. The modules

```
 Cargo  (state of boxes, trucks, scans; the rules all doors share)
  |-- Loading      one action per door of the loading side
  |-- Unloading    one action per door of the unloading side
  |-- Desk         floor, counter, crates, receipts
        |
      Truck  (composition, properties, refinement mapping) -- refines --> Custody
        |-- MCTruck        instances for TLC
        |-- TruckProofs    types, safety invariants, the refinement of Custody

 ScanOutbox    -- MCScanOutbox, ScanOutboxProofs        phone queue, flushes, sync door
 EventDrain    -- EventDrainProofs                      fan-out of events (its own TLC instance)
 TelegramDrain -- MCTelegramDrain, TelegramDrainProofs  sending what the fan-out queued,
                                                        retiring buttons
 ArrivalNotice -- MCArrivalNotice, ArrivalNoticeProofs  the client's "your cargo has arrived"
 PlanRoad      -- MCPlanRoad, PlanRoadProofs            plan versions, cargo owed from the road
 IssueGate     -- MCIssueGate, IssueGateProofs          debt and price gates of the counter
 ClientMoney   -- MCClientMoney, ClientMoneyProofs      one client's ledger in two currencies
```

### Cargo, Loading, Unloading, Desk, Truck

A box row is five functions of the carton: `status`, `place`
(current_warehouse_id), `ride` (current_batch_id), `crateOf` (crate_id), `missing`
(the flag `missing_in_transit`). Of `box_movements` the model keeps what later code
asks of it: `readyBefore` (the newest taking by a truck was from a ready_for_pickup
shelf: `shelfBeforeSql`), `landedAt` (where a truck's landings put the carton,
cleared when it is found at the origin: `notSentBackSql`), `lostOff` (the truck of
the newest loss on the road). A truck is `tstat`, `from`, `to`, `hasPlan`.
`recorded` is the set of scan ids stored in `scan_events` exactly as the phone sent
them, which is what the replay lookup asks.

Each office or counter operation is one transaction that locks what it decides on,
so it is one action. The two scans are two actions each, because PostgreSQL runs
them READ COMMITTED and they read the truck before they lock anything:

| Action | Code |
|---|---|
| `ReadForLoad`, `CommitLoad` | `loadScanInTx` up to and from the lock of the boxes |
| `ReadForUnload`, `CommitUnload` | `landUnloadInput`, the commit starting at the lock of the truck row |
| `ApprovePlan` | the approving branch of `recordVerdict` |
| `Reroute`, `FinishUnload`, `CloseTruck`, `CancelTruck`, `Depart`, ... | the function of that name |
| `ResolveLost/FoundHere/FoundAtOrigin` | the branches of `resolveOneMissingInTx` |
| `Reconcile` | `reconcileInventory`: finds and losses in one transaction |
| `DissolveCrate` | `dissolveCrate`: members go loose, on the shelf or planned |
| `VoidReceipt` | `voidReceipt`: the receipt's cartons still on the shelf become void together |

A handler between its two steps is a member of `jobs`, with what it read
(`seen`, `seenDest`). Answers may be lost (`Answer`), after which the phone sends
the scan again; up to `MaxDeliveries` deliveries of it are at work at once, as the tick
and a scan's flush send the same row. The histories are written only for properties:
`applied` counts how often a scan moved cargo, `overtaken` holds the deliveries at work
(past the lookup for a replay) while another of their scan moved cargo, and `late` the
trucks that got a load scan after they had left loading.

**Custody** is what the warehouse promises of a carton, with nothing of its rows:
it is on a shelf, in a truck's yard, on a truck's road, or gone. `Truck` maps its
rows to it (`CustodyView`) and `RefinesCustody` says every interleaving of every
door is a step of Custody or a stutter. That rules out a carton going from truck to
truck without a shelf, an issued or void carton coming back, and a truck leaving
without part of what it held.

### ScanOutbox

The queue in IndexedDB (`outbox`), the two kinds of flush (a scan's, of which one
runs at a time, and the tick's, which asks nobody), the cutting into slices and
halving of refused bodies (IndexedDB hands scans out in key order, so a slice keeps
it), and the route's answers 200, 400, 401, 403 or none. What
the server does with an admitted scan is `Truck`'s; here it accepts or refuses.
`right` is the person's standing at each truck's door.

### EventDrain and TelegramDrain

`EventDrain` models `emitEvent`, `claimNextEvent` (one atomic statement, oldest
first), the batch of `processEventBatch`, the two notification rows per recipient and
the rules. Recipients are any set of people.

`TelegramDrain` takes the rows from there. Each run of `sendPendingTelegram` takes
back what was claimed over ten minutes ago (`Reclaim`), claims the oldest rows that
are ready (`Claim`),
and per row judges whether the task is still open and still this person's (`Judge`,
`Mute`), sends (`Deliver`), writes `sent` (`Settle`) and looks at the task again
(`LookAgain`). Both questions may fail, which the code catches: a check that fails before
the send lets the copy go out as it was queued, one that fails after it is only logged. A failed send counts an attempt (`Fail`), a 429 releases the rest of
the batch and pauses the process (`Throttle`). The doors `Close` and `Reassign`
begin a retirement, which mutes waiting copies (`MuteCopies`), reads the sent ones
(`ReadCopies`) and redraws each (`EditCopy`). It is a promise of its process that nobody
awaits or repeats, so it may be lost at any step (`Lose`): the process ends, or a query of
it fails and is logged. A drain's death (`Die`) and a retirement's are separate steps, so
every way in which a dying process takes several of them with it is among the behaviours.
`chat` is what Telegram shows. The histories are `doubt` (rows whose sender died or was
overtaken, or whose send arrived though it was answered with a failure) and `unedited`
(rows whose edit Telegram refused, whose second look failed with a task gone, or which showed
a button of a retirement's task, in no drain's hands, when that retirement was lost).

### ArrivalNotice

One notice row per client of one truck. A landing that finds the notice waiting writes
nothing to it and so holds no lock: it is two steps (`LandQuietly`, `LandCommit`).
One that arms it is one step (`LandArming`). `Due` is the window running out,
`ReleaseArrivals` the end of the unload. A sweep tells the staff (`TellStaff`), claims
(`Claim`), and per notice skips, sends, settles, fails or defers it; `BotDown` is the
refused token that puts everything back. `credit` counts armings less messages;
`crossed` and `passed` name the cartons that landed while a sweep had their notice
or the staff were being told.

### PlanRoad

Plans of one origin and one lot. `submitPlan`, `recordVerdict` and `cancelPlan` read
the plan row unlocked and write it by key: `ReadTo...` and the writing action are two
steps joined by a member of `doors`. An approval is three: its reading, the taking
of the shelf cartons under their locks (`Approve`), and the commit; with a road part it
holds the origin's road lock from its count of the cartons on the road to the commit
(`RoadLocked`). A landing takes that lock if some line lives (`StartLanding`,
`LandHooked`) or runs without (`LandUnhooked`). `line[v].owed` and `missed` are the
columns of `plan_line_road`. The trucks' doors are there for what they do to plan and claims.
`crossed` is the history of plans that a door wrote on a reading that had changed: such a
plan may have two trucks, or live again after its cancellation, so the properties except it.

### IssueGate

A press of the issue button reads the debt (`Press`), then runs one transaction: its
questions under the cartons' and the approval's row locks (`Begin`), its writes
(`Commit`). Between the two, the ledger moves (`Owe`, `Charge`) but nobody else takes
those rows. `Ask`/`Insert` are the request, `ReadToDecide`/`Decide` the verdict, a
statement that asks `status = 'pending'` again. `PressAgain` is the screen after a
lost answer: a new handover id each time.

### ClientMoney

One client's ledger in soums and dollars. `row[p]` is the live row at a place of the
ledger's order (day, time, id), `diff` the `fx_diff` the reconciler keeps on the row
that closes a cycle, `hand` the dollar row written by a hand close. Every writer
runs `Reconcile` under the client's money lock, so each door is one step; a moved
charge is read before the lock (`ReadToMove`, `MoveCharge`). `Closing` is the
reconciler's rule: a cycle is closed if it was managed before, or if the switch is
on and either all its rows are from after the rule or no dollar row offsets its
residue. All sums are one running sum along the ledger (`SumTo`).

## 3. What is checked

| Run | Instance | Properties | Shows |
|---|---|---|---|
| `boarding` | 2 cartons and 1 truck at one origin; 2 load scans of loose cartons, 1 with two deliveries of it at work at once, or 1 of a crate and its fellows delivered again and again | `AboardTruckState`, `ForwardOnly`, `RefinesCustody`, `ReplayMovesNothing` | scans race each other, their own replays and every office, floor, crate and receipt door |
| `arrival` | 2 cartons, a crate on the road of one truck that may be rerouted among 3 warehouses; or 1 carton over 2 trucks between an origin and a collection point | `CustodyConsistent`, `NobodyForgotten`, `ShelfMatchesWarehouse`, `LandsAtDestination`, `RefinesCustody` | arrival, missing and resolved cartons, cargo changing trucks, given back, found, restored |
| `outbox` | 3 scans of 2 trucks, one malformed, slices of 2 | `TypeOK`, `NothingLost`, `EveryScanLeaves` | halving, withheld slices, lost replies, overlapping flushes |
| `drain` | 3 events, 2 drains, batches of 2 | `TypeOK`, `NobodyToldTwice`, `ProcessedMeansHandled`, `EveryEventLeaves` | overlapping drains that die anywhere |
| `telegram` | a task copy and a digest; two rows and one drain, one row, two drains and one change of the task, or one row, one drain and two changes | `TypeOK`, `SentOnce`, `NoButtonOutlivesItsTask`, `EveryRowSettles` | slow, dying, throttled drains beside retirements |
| `notices` | two sweeps over one client's two cartons that stay, or one sweep over two clients' cartons that come and go | `TypeOK`, `NobodyUntold`, `StaffHear`, `OneMessagePerArming`, `EveryNoticeSettles` | waves of cargo beside overlapping, dying sweeps |
| `plan` | 2 cartons, 2 doors at once; one plan in two versions, or two plans of one version | `TypeOK`, `PromiseAccounted`, `RoadNotOverpromised`, `LandedIsClaimed`, `PlanFollowsTruck` | shelf and road reservations while cartons land, load, return and get lost |
| `counter` | 2 presses; 2 cartons and one request, or two requests about one carton | `TypeOK`, `OneReleasePerApproval`, `HandedOverOnce`, `NothingLeavesUnpermitted`, `NoDeadEnd`, `AnswerStands` | presses overlap, die, lose their answer; verdicts cross; permissions expire |
| `money` | 4 places on days 1, 1, 2, 2, two rates, rows worth 4 in all, 2 presses of the move button | `TypeOK`, `OnlyOpenMoneyOwed`, `MoveMovesNoMoney`, `RepriceMovesOnlyOpenDebt` | typing, voiding, back-dating, splitting, repricing and closing in any order |
| `replay`, `drain-crash`, `plan-cancel` | as small as shows it | one each | see below |

### Bounds, and why they are enough

* **Trucks** (`boarding` 752,030 distinct states, `arrival` 551,239). Every guard looks at
  one carton, the other members of its crate or the other riders of its truck, so two
  cartons give each case (with a stray, with a sibling left aboard); two trucks let a
  carton ride onward; three warehouses are needed only to reroute. A scan's deliveries come
  one after the other, a second being the first whose answer was lost, but for the scans
  of `twice`, of which the tick and a scan's flush have two at work at once: there a lone
  load scan of either loose carton, in `boarding`. A third delivery would meet the lookup
  before or after the first commit, as the second does; a crate's overlap breaks nothing
  its replay does not (a run of one scan of either kind with two deliveries at work, checking
  `ReplayMovesNothing` alone, passes with 1,343,036 states). The theorem has no bound on
  deliveries. `MCTruck` leaves out scans of codes that are nobody's.
* **Outbox** (114,282). Three scans in slices of two give a full slice, a short one, a
  body that must be halved and a slice wholly of another truck.
* **Drain** (19,272). Two drains and batches of two give a full batch, a short one and a
  claim beside another drain.
* **Telegram** (233,942). `Limit`, `MaxAttempts`, `MaxSends` and `MaxRetires` are 2: a
  retry that is the last, a second send, a retirement behind another. A digest needs a
  second row; the overlap of drains and the chain of task changes each need one.
* **Notices** (135,723). Cartons meet only in their client's notice, so two of one client
  make a wave; two clients show that a sweep's batch does not mix them.
* **Plans** (1,393,916). Two versions make a resubmission, two plans contend for
  the same cartons. `MaxDoors = 2` lets a door cross one other. A third at one plan
  matters: an approval read before a cancellation revives a plan that a resubmission
  crossed as well. One plan of two versions with three doors (1.2 million states) also
  passes, too long for a standing run; all the properties of the run are proved for any
  number of doors.
* **Counter** (984,902). Debt 0 or 1 is "covered or not"; two cartons let a permission
  cover one and not the other; the third press of a button adds no new pair.
* **Money** (98,260). Two rates a cent apart on two days are the least that leaves a residue;
  four places hold two cycles, or one that a back-dated row cuts or joins. `Small` in
  `MCClientMoney` names the combinations: old rows, dollar rows, refunds and hand
  closes are kept apart from the largest ledgers. The run's properties are all proved for
  any number of places and presses.

Symmetry among cartons, trucks, scans, plans, presses and approvals is used only in
runs without liveness. Deadlock is not checked in any run: trucks close, scans end,
events and rows run out, a ledger fills its places.

### Fairness

`Truck`, `PlanRoad`, `IssueGate` and `ClientMoney` have none: people decide.
`ScanOutbox` assumes weak fairness of the tick's flush, a `setInterval` of 15 seconds
plus a refresh on wake-up, and of the server's reply or the failure of the request; not
of the scan's flush and not of the person's rights. The property itself asks for the
phone to stay online and signed in from some time on. `EventDrain`, `TelegramDrain` and
`ArrivalNotice` assume weak fairness of each worker's next step: pg-boss starts
`events.process` every minute and the notice sweep every two, and a live process goes
on. `TelegramDrain` adds a retirement's work and the end of a pause, and both delivery
modules that time passes (`Age` of a claim, `Due` of a window). Deaths, lost retirements,
failing checks, throttling and refused tokens are never fair, and the liveness properties assume that at some time
they stop: a worker that dies at every attempt delivers nothing.

### Where the code differs from what it says of itself

Three runs expect a violation; each checks one sentence of the repository.

| Run | The repository says | The code |
|---|---|---|
| `replay` | load ingest is idempotent by `clientEventUuid` (`scanning/service.ts:91`, `docs/ARCHITECTURE.md:169`) | the uuid is stored only when one row is written; a crate's replay is not recognised and loads again what was taken off meanwhile |
| `drain-crash` | one event per claim, so a crash loses one message (`notifications/service.ts:868`) | up to fifty events are claimed before the first is handled |
| `plan-cancel` | a plan is cancelled before its approval, or by its truck (`planning/service.ts:533`) | `cancelPlan` reads unlocked and writes by id: over an approval that committed in between, cartons stay reserved for a cancelled plan |

Others were met while modelling. They have no run; the properties except exactly the
states they make, through a history variable or a condition in their comment.

| Where | The repository says | The code |
|---|---|---|
| Truck, `late` | departing turns all scanned boxes `in_transit` (`docs/SPEC.md:339`) | a load scan that read the truck before it left commits after (`scanning/service.ts:145`, `411`): a carton is `loading` on a departed truck |
| Truck, `overtaken` | replays are safe, the server dedupes on the uuid (`scanning/service.ts:91`, `offline/scan-outbox.ts:5`) | the lookup (`scanning/service.ts:152`) comes before the cartons' lock, and the tick's flush (`loading-screen.tsx:450`) runs beside the scan's: two deliveries of a loose carton's scan pass the lookup together, and the second loads again what the office took off after the first |
| `Reconcile` | landing retires the journey flags (`scanning/unload.ts:481`) | a stocktake puts a carton declared missing on a shelf and leaves the flag (`inventory/service.ts:218`) |
| `Reconcile` | before departure a member box is `planned` or `loading` (`scanning/unload.ts:1635`) | a stocktake marks a planned carton lost and leaves its truck pointer (`inventory/service.ts:289`) |
| ScanOutbox | acks are returned so that the screen can roll back (`offline/scan-outbox.ts:275`) | a later slice that throws discards the acks of the slices before it, whose rows have left the queue (`:271`) |
| TelegramDrain, digests | a digest's keyboard is redrawn from the tasks still open (`notifications/retire-tasks.ts:16`) | two retirements read, then redraw in the other order (`:202`): a digest can show a closed task again |
| TelegramDrain, `unedited` | a task's copies stop offering buttons once it is no longer the assignee's to act on (`notifications/retire-tasks.ts:7`) | a retirement that fails or dies with its process is not tried again (`retire-tasks.ts:260`), nor is a failed look after the send (`notifications/service.ts:1613`): the buttons stay, and the server refuses their presses |
| TelegramDrain, `Fail` | counting a reclaim stops a row from being sent without limit (`notifications/service.ts:1007`) | a slow sender's failure writes the count it read at its claim plus one (`:1636`), forgetting a reclaim's |
| ArrivalNotice, `crossed` | a second wave arms the notice again, or nobody is told of it (`notices/arrival-staff.ts:113`) | the sweep writes `sent` by id over the fresh `pending` (`notices/arrival.ts:446`) |
| PlanRoad, `crossed` | a plan once approved is its truck's (`planning/service.ts:533`) | a resubmission read before an approval writes over it, and a second approval bears a second truck; an approval read before a cancellation revives the plan, which is owed cartons again |
| PlanRoad, `astray` | said so itself: `docs/YOLDAGI-YUK.md`, section 10 | a landing that looked for road lines before a plan's submit and commits after its approval is not claimed for it |
| IssueGate, `PressAgain` | a replay must get the act back (`issue/service.ts:124`) | the screen draws a new handover id per press (`issue-screen.tsx:319`), so the second press of a release that happened is refused |
| IssueGate, `Insert` | one live question at a time (`issue/approvals.ts:124`) | two requests that asked at once both insert: no index forbids it |
| ClientMoney, switch off | once managed, maintained, even with the switch off (`finance/fx-residue.ts:266`) | moving a managed cycle's anchor gives the row a new id, the difference is voided and not written again: the balance jumps |
| ClientMoney, reprice | a reprice of settled charges closes their difference (`costing/fx-reprice.ts:249`) | a new residue that equals a dollar row is taken for closed by hand and left open |

## 4. What is proved

For all values of the constants, finite or infinite, that satisfy the named
assumptions:

| Module | Theorem | States |
|---|---|---|
| `TruckProofs` | `TypeCorrect` | `Spec => []TypeOK` of `Truck` |
| | `ReplaysMoveNothing` | `Spec => ReplayMovesNothing`, for any number of deliveries at once |
| | `CustodyInvariant` | `Spec => []CustodyInv`, the inductive invariant |
| | `CustodyIsConsistent`, `AboardMatchesTruck`, `NobodyIsForgotten`, `ShelvesMatch` | the four safety invariants of the truck runs |
| | `TrucksMoveForward` | `Spec => ForwardOnly` |
| | `LandingsAreAtDestination` | `Spec => LandsAtDestination` |
| | `TruckRefinesCustody` | `Spec => RefinesCustody`: `Truck` implements `Custody` |
| `IssueGateProofs` | `IssueInvariant` | `Spec => []IssueInv`, the inductive invariant |
| | `IssueTypes`, `ApprovalSpentOnce`, `CartonHandedOverOnce`, `NothingUnpermitted`, `CounterNeverStuck` | the types and four safety invariants of the counter |
| | `AnswersStand` | `Spec => AnswerStands` |
| `ScanOutboxProofs` | `OutboxKeepsFaith` | `Spec => []OutboxInv`, the inductive invariant |
| | `OutboxTyped`, `NoScanLost` | `TypeOK`, `NothingLost` |
| `EventDrainProofs` | `DrainsKeepCount` | `Spec => []DrainInv`, the inductive invariant |
| | `DrainTyped`, `ToldOnce`, `ProcessedHandled` | `TypeOK`, `NobodyToldTwice`, `ProcessedMeansHandled` |
| `TelegramDrainProofs` | `DrainsKeepFaith` | `Spec => []DrainInv`, the inductive invariant |
| | `TelegramTyped`, `MessageSentOnce`, `ButtonsRetired` | `TypeOK`, `SentOnce`, `NoButtonOutlivesItsTask` |
| `ArrivalNoticeProofs` | `NoticesKeepCount` | `Spec => []NoticeInv`, the inductive invariant |
| | `NoticeTyped`, `NoOneUntold`, `StaffAreTold`, `MessagePerArming` | `TypeOK`, `NobodyUntold`, `StaffHear`, `OneMessagePerArming` |
| `PlanRoadProofs` | `PlansKeepFaith` | `Spec => []PlanInv`, the inductive invariant |
| | `PlansTyped`, `EveryPromiseAccounted`, `LandingsAreClaimed`, `PlansFollowTrucks`, `RoadPromisedOnce` | `TypeOK`, `PromiseAccounted`, `LandedIsClaimed`, `PlanFollowsTruck`, `RoadNotOverpromised` |
| `ClientMoneyProofs` | `LedgerAgrees` | `MoneySpec => []LedgerInv`, the inductive invariant |
| | `MoneyTyped`, `OwesOpenMoney` | `TypeOK`, `OnlyOpenMoneyOwed` |
| | `RepricesOpenDebtOnly`, `MovesMoveNoMoney` | the action properties `RepriceMovesOnlyOpenDebt`, `MoveMovesNoMoney` |

**Trucks.** The proofs are of `Truck`'s `Spec` under `CargoAssumption` (names are
distinct, collection points are warehouses, at least one delivery); the runs use
narrower initial states of the same actions. The four safety invariants are not
inductive. `CustodyInv` adds two facts. Nothing rides or is being scanned for a truck
nobody has opened (`OnlyOpenTrucks`): otherwise opening a truck would change the origin
under a rider. And while a carton has a truck, its movement rows remember a status that
fits the shelf it left (`ShelfRemembered`): this is what makes giving back, which looks
only at those rows, safe. One lemma per door shows it keeps the invariant; the doors
that bring cargo ashore share `AshoreCustody`, those that give it back before departure
share `GiveBackCustody`. `LandingsAreAtDestination` needs a second, small invariant,
`ArrivalSettled`: a truck a handler read as arrived can no longer be rerouted, so what
it read is still true when it commits; a truck read in transit is locked and judged
again. `TruckRefinesCustody` uses the same invariant: it makes a box row show one of
Custody's places (`SeenIs`, `SeenInPlaces`), and each door's rows are mapped to a step of
`Custody` or to none by a few lemmas about what rows may change together (`RowsBoard`,
`RowsToShelf` and their like). `ReplaysMoveNothing` needs a history of scans: a delivery at work
carries what the phone queued (`JobsFit`), and a scan that moved cargo is a crate's, or is
known by its uuid, and whatever delivery still has it in hand was overtaken (`SpentKnown`).
It rests on a scan of one carton writing one row, whose uuid is stored as the phone sent
it. The two exceptions, crates and overtaken deliveries, are needed: the run `replay`
shows the one moving cargo a second time, and with two deliveries at work `ScanAppliedOnce`
fails of a single carton too.

**Counter.** The assumptions are `IssueAssumption` and `ReleaseAssumption`, that no
absence is mistaken for a press, an approval or a handover. A commit acts on what its
beginning saw, so the safety invariants need what the locks keep true in between:
`CartonsHeld` (the cartons of a press that holds are here and in no other press's hands)
and `ApprovalHeld` (its approval is live, unspent, covers its question, and is nobody
else's). `AsksFresh` keeps a request that has asked apart from the rows that exist.
`IssueInv` is these with `TypeOK` and the three safety invariants; a press's
steps and `Move` have a lemma each, and `KeepingKeeps` covers every step of the ledger,
a request or a verdict, which leave the cartons, the presses and each approved row alone.
The debt and the prices appear in none of the invariants: whatever the ledger
does after the reading, a handover carries the question it was asked. That is also the
limit of `NothingLeavesUnpermitted`: it holds a permission against the debt the press read,
and a debt that grows between that reading and the commit is asked about by nobody, in the
model as in the code (`issue/service.ts:102`).

`CounterNeverStuck` needs only the types: a permission for all the gates stop today covers
whatever one press may ask, so who lacks the one lacks the other and may ask for it.

**Outbox** (`OutboxAssumption`: the key order lists scans once each, a slice holds at least
one). `NothingLost` is not inductive, as a flush takes rows off the queue on an answer it
was given earlier. `InHand` says what a flush has cut and not yet sent is made of scans it
took, in slices neither empty nor too long; `AcksDecided` that an acknowledged scan was
decided by the server; `RefusedForCause` that a refused body holds a malformed scan. A
refused body of one scan is therefore that scan, and only it is dropped.

**Fan-out** (`DrainAssumption`: a batch is at least one event). `ClaimedOnce`: what a drain
has claimed is processed and stands in one batch, once, which is what marking and taking in
one statement buys. `WaitingUntouched`: nothing is written for an event no drain has come
to. `InHandAccounted`: of the event in hand, the rows written are those crossed off the
drain's list. A death loses the batch whole, so the two invariants survive it.

**Delivery** (`TelegramAssumption`: the limits are at least one, digests are rows, nobody is
called `None`). A row in `doubt` is one whose sender died, was overtaken, or was told of a
failure that was none; for those nothing is claimed. For the others `HeldFits` and
`HeldOnce` say that what a drain holds is claimed, held by it alone, and sent as far as
the drain's step says; `OldInDoubt` makes a reclaim harmless to them, and `ChatFits`
covers the rows nobody holds. For the buttons, `ButtonsCovered` is the heart: every button on
a single copy that outlived its task belongs to a drain that is yet to look again, or to a
retirement that has the row in its scope and, once it has read, among its edits. The race
of a send with a retirement is settled by it: a retirement that read before the
send was settled misses the row, so the sender's second look must catch it. The same look
makes good a check that failed before the send. What nothing makes good, a
retirement lost (`Loses`) or a look that failed (`LooksAgain`), puts the rows it leaves
uncovered into `unedited`, and no others: a lost retirement of a row that a drain still has
in hand costs nothing, and the proof shows it.

**Notices** (`NoticeAssumption`: each carton has an owner, an attempt is allowed). A landing
may arm a notice again while a sweep has it, and the next sweep claims it beside the
first, so a notice can be in several batches and there is no "held once". What bounds
the messages is a count (`ArmingsCounted`): the sweeps that may still speak a notice, and
the notice if it waits, are together no more than the armings no message has answered.
`SentCountsShelf` ties what a sweep has just sent to the shelf it counted, and
`StaffCountLandings` adds the landings still open to what the staff's message covered.

**Plans** (`PlanAssumption`: finitely many cartons, `None` is no version). A door acts on what it read, so the
invariant says of each door what of its reading is still true (`DoorFits`): the plan's
row may have changed, its line's numbers not, and the cartons an approval has locked are on
the shelf and no other's (`DoorsApart`). `ShelfTaken` is why an approval and a landing do
not miss each other: an approval that will be owed something has taken all the shelf had,
and keeps the road lock until it commits. `VersionFits`, `PlanFits` and `Reserved`
relate a carton's claims, the version's verdict and the plan's truck; with them
`PromiseAccounted` is a sum of three numbers that each door changes in step.
`RoadPromisedOnce` has an invariant of its own on top: cartons still to land were never
reserved (`Unlanded`), one approval at a time has the road (`RoadHeldOnce`), and the road
covers what is owed and, besides, what an approval half-way through is short of
(`RoadCovers`). What is owed is a sum over versions; the model counts it as a set of pairs,
so that facts about cardinalities stand in for an induction over the versions.

**Money** (`MoneyAssumption`: days do not decrease along the ledger, a dollar slip is worth
a dollar; `AbsenceAssumption`: no absence is mistaken for a row). The ledger may have any
number of places. What a running sum comes to is an induction over the places, which is
replaced by a least counterexample: a set of numbers that is not empty has a least
(`LeastNumber`), so what holds at 0 and one place further wherever it holds, holds all along
(`UpTheLedger`). Two facts about sums carry the rest: whatever grows by each place's number
is the sum (`SumIs`), and what a stretch between two places adds (`SumOfSlice`). `CyclesPart`
follows: the cycles and the open rows part the soum rows, so their worths add up to the
soums' dollars. `LedgerInv` is `TypeOK`, that a dollar row is worth its dollars, and
`DiffsAgree`: a difference stands where a maintained cycle ends, is minus its residue, and
stands nowhere else. The differences of the last state do not matter to the next: each door
ends in `Reconcile`, which writes them all anew (`ReconcilerAgrees`), and switching the
automatic close on or off touches none of them. `OnlyOpenMoneyOwed` is then addition.
It counts the residue of a cycle nobody maintains as waiting for a person, so it says that
what is closed is closed exactly and stays so, not that the reconciler closes every cycle it might.
A reprice changes neither the natives nor, so, where the cycles end
(`PricingKeepsCycles`); a maintained cycle stays so, and one nobody maintains keeps its
dollars because its charges are left alone (`PricingSparesLegacy`). The hypotheses of
`RepriceMovesOnlyOpenDebt` are needed there and only there. A move puts parts that make up the charge
where no live row lies between it and them, so the sums before and after differ by steps that
cancel at every other live row (`SumsDiffer`, `MoveKeepsSums`); this rests on the charge
still being what the press read, which is the claim's condition.

**What the proofs found.** Two definitions were wrong in ways no run had shown. The
exception for crossed doors in `LandedIsClaimed` and `RoadNotOverpromised` was missing:
with three doors of one plan the code breaks both, and with two it does not. In
`TelegramDrain`, the retirement of a task that was handed on took in copies of the new
holder, whom the code spares; `ButtonsCovered` was not inductive until this was put right.

**Only model-checked.** The four liveness properties, `EveryScanLeaves`,
`EveryEventLeaves`, `EveryRowSettles` and `EveryNoticeSettles`, which the prover does not
handle, and the three runs that expect a violation. Every other property of a passing run
is a theorem.

## 5. What is abstracted, module by module

* **Truck.** Counted lots without stickers (`lotModeOnTruck`, `count-load.ts`,
  `count-accept.ts`); road cargo (`PlanRoad`); the price and debt gates (`IssueGate`),
  which only refuse more; events, notices and audit rows. Packing a crate: each run
  starts from every way of packing its cartons, and `crateOf` is only cleared. The crate
  row's own status. Editing a lot (`receipts/edit.ts:380-440`) voids shelf cartons like
  `VoidReceipt`. The annulment of a receipt, see below.
* **ScanOutbox.** A page reload, snapshot refresh, two ticks' flushes at once.
* **EventDrain.** The cap of 40 batches a run and pg-boss's retries; whom an event is for.
* **TelegramDrain.** Telegram's 48-hour window for edits, copies to authors, forwards and
  approval copies; one process and so one pause; a claim's select and update are one
  step, as are a reassignment's clock and update.
* **ArrivalNotice.** The other kinds of notice, photos, several chats of a client, the
  limit of 50 a sweep, cartons that land twice.
* **PlanRoad.** Crate lines, several lots, presets, cartons loaded off the plan, the
  counting door.
* **IssueGate.** One client and one warehouse; deferrals are part of the debt figure; only
  people who may tick do; among several covering approvals the choice is free (the code
  takes one by date); a request's reads are one step; a press whose answer was lost is
  pressed again once; `NoDeadEnd` does not count a permission a press holds at the moment
  as gone.
* **ClientMoney.** Compensation, partner ledgers and settlements, deals and deferral, tills,
  the checks of truck and cabinet, the order in which payments pay charges (`fifo.ts`),
  splits into more than two, a third currency, the 2 % allowance (only its floor), the
  rate windows (a day's rate is chosen directly), the preview's hash. The condition
  "two currencies since the last square" is judged over all live rows, which is weaker.
  `closeAllLegacyFx` is its single steps. A voided row frees its place unless a close
  or a press still names it. Rows from before the rule are only in the initial states.

### Not modelled

* Annulling a receipt (`receipts/annul.ts`) takes a truck on the road back to `cancelled`,
  reading it without a lock (309-333). It is the one door `ForwardOnly` does not allow
  for and would be a two-step door of the truck modules; next in the plan.
* Telegram's inbound side (`telegram/once.ts`, `staff-handlers.ts`): each press calls a
  door of another component after claiming its key.
* Costing, customs calculation, HS codes, labels, documents, reports, search: functions of
  committed rows, long and mostly arithmetic or layout, without an order of steps.
* CRM, deals, calls, pickups, tasks, automation, broadcast: rows one person edits at a time.
* Tracking, cabinet, staff chat, screens, Android apps, jobs, files, backup: input and
  output. Accounts and roles appear as preconditions.

These are the greater part of the repository's lines and the lesser part of what can go
wrong between two steps.

## 6. Plan

Done: cargo custody and its refinement, phone outbox, event fan-out, Telegram delivery,
arrival notices, plans and road cargo, the counter's gates and the client's ledger, each
with its proofs; dissolving crates and voiding receipts.

1. `annulReceipt` as a door of the truck in two steps, `ForwardOnly` restated with it,
   and the packing of crates.
2. The inbound key of `once.ts` with a repeated update.
3. Payments by date over charges (`fifo.ts`) and deferral; the partner ledger; cost
   shares that add up, against a reference over bounded inputs.
4. With each of these, its proofs: every safety property the runs check is a theorem now.
