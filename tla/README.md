# Verification of saas-preflight

TLA+ specifications, TLC runs and TLAPS proofs for the `saas_preflight` package
(`src/src/saas_preflight`). The package decides whether a software-comparison site may publish,
measure and spend, and it carries a signed decision to one external mutation (activate or disable
the public release). Nearly all of its code prepares or verifies signed artifacts; the parts that
keep state between calls, and that several processes share, were modelled first; then the artifacts that
those parts take on trust.

## 1. Inventory

| Part | Source | State it keeps | Operations | What makes it correct |
|---|---|---|---|---|
| P13/P14 global STOP store | `production_consumer.py` 2277-3601, 4907-5837 | one authenticated SQLite file: revision, epoch, STOP flag, trusted time, one row per request with token, journal and result; an external monotonic anchor; two lock files | `create`, open with recovery, `claim`, `redeem`, `_invoke_and_record_provider`, `dispatch_fence`, `commit_result`, `_close_uncertain_provider_attempt`, `freeze_after_clock_failure`, `apply_reset`, `snapshot`, `close`, fork hook | at most one provider run per idempotency key; STOP kills every outstanding activation; a result is immutable and carries the durable evidence; reset only with nothing pending |
| P13 production consumer | `production_consumer.py` 3679-4105 | last observation, sticky clock and root failures, claim flag | `execute` | ends in a terminal verdict; never success without proof; failures before the claim stop the store |
| Provider adapter and probe | `production_consumer.py` 4108-4633, `synthetic_provider_*.py` | child process, capability registry | `execute`, `probe` | one child per capability, killed at its deadline |
| P11 external action guard | `external_actions.py` | SQLite store of revocations, claims, receipts; external anchor; action journal | `register_revocation`, `claim`, `dispatch_fence`, `sign_action_receipt`, journal append and fold | a revoked grant is never claimed or dispatched; one claim per grant; receipts are immutable |
| P17 traction control | `traction_control.py` | hash-chained SQLite ledger of observations, settlement snapshots, evaluations and finalizations; the head and the previous anchor; external anchor; lock file and two host locks | `append`, `append_settlement`, `evaluate`, `observations`, `reports`, recovery of a pending tail on every call | what was accepted was finalized in time and stays; scaling is recommended only on complete, current settlements |
| P19 verified runner | `verified_runner.py` | SQLite chain of consumption receipts, freeze flag, external anchor | sign and bind the artifacts of a run, `consume` | a run's evidence is consumed once, as it was, at a time nobody could choose |
| P18 repository acceptance | `repository_acceptance.py` | none of its own, a run lock; signed manifest and chain of human decisions | inventory, fixed checks, local run, attest, assemble, decide, evaluate | a bundle describes one tree; acceptance follows the newest decision over proof that is still good |
| P15 readiness | `production_readiness.py` | reconciliation ledger: SQLite chain with external anchor | plan, evaluate, attest, approve, authorize; `append`, `verifies_for_reset` | no authorization outlives its parts; a stop is reset only on the one record of its result |
| P16/P21 launch gates | `launch_handoff.py`, `launch_semantics.py` | none (pure evaluation of a bundle) | evaluate | complete, current, non-overlapping authority |
| P12 measurement integrity | `measurement_integrity.py` | none (pure evaluation of signed batches) | plan, batches, attestations, index, report | counts and amounts of the report are those of the batch, which is consistent in itself |
| P9 control cycle, P10 release assurance | `control_cycle.py`, `release_assurance.py`, `release.py` | none | evaluate | hard stops dominate |
| Settlement amendments | `settlement_amendment.py` | none (pure evaluation) | bind, amend, attest completeness, evaluate | every later event is applied once, in the order of its time |
| Partner ledger | `affiliate_partner_ledger.py` | none | read CSV exports | amounts per partner |
| Snapshot storage | `storage.py` | SQLite snapshots and approvals | record, approve, detect changes | append-only, idempotent |
| Growth, cells, learning gate | `growth_system.py`, `revenue_cells.py`, `initial_learning_quality.py` | lifecycle state in files | evaluate | gates are monotone in the evidence |
| Calculations | `tco.py`, `economics.py`, `operations*.py`, `measurement.py` | none | compute | bands, rounding and totals |
| Tools | `cli.py`, `editorial_input.py`, `mvp.py`, `preview.py`, `goldset.py`, `readiness_builder.py`, `preflight.py`, ... | none | convert, render, validate | - |
| Site and worker | `site/` | none shared | serve | - |

How they interact: `ProductionConsumer.execute` claims a request whose authority spans P9, P10, P11,
P12, P15, P16, P18 and P21; it asks P11's store before every mutation, holds P11's dispatch fence while
the provider child runs, and writes P11's receipt before it commits its own success. A Human reset
consults P15's reconciliation ledger. P18 accepts a candidate on evidence that P19 consumed. A P12 report becomes
an observation of P17, and settlement amendments of its cohort become P17's settlement snapshots. All of that goes through files and callbacks, and several
processes may do it at once.

What is hard: transactions that are durable and still raise (the anchor is published after the SQLite
commit); a lock file that is released by the death of a process while its child goes on; two clocks
in one call (the consumer's own observation and the one each transaction takes); STOP and reset
racing the phases of a request; recovery that only happens when a store is opened. PROJECT.json
lists these hazards line by line with the properties that watch them.

## 2. Modules

### `GlobalStop`: the store, its consumers and the provider

State. `revision`, `epoch`, `stopped`, `trustedAt` are `production_meta`, `anchor` the external anchor
(by the revision it names). `state`, `token`, `journal`, `result` are the row of a request and its three
journal tables. `owner` is the process that holds the in-flight lock file, `store[p]` the store
object of process `p`. `pc`, `cur`, `lastObs`, `frozen`, `hasClaimed` are one `ProductionConsumer` per
process: where `execute()` is, the request, `_last_observed_at`, the two sticky failures, `_has_claimed`.
`child`, `launches`, `mutated`, `receipt` are the provider's side; `revoked`, `p11Receipts` the P11
database; `probed` when the probe last read a request's post-state back; `reset` the Human reset that was signed last.

Actions. One action is one store transaction (with its checks, its journal entry, its STOP and its
lock release) or one step of `execute()` between two of them:

| Code | Action |
|---|---|
| `GlobalStopStore.__init__`, `_recover_inflight` | `Open` with `Recover` |
| `_assert_integrity` on an anchor one revision behind | `RecoverAnchor` |
| `claim` | `Claim`, `ClaimRefused` |
| `redeem` | `Redeem` |
| boundary check in `execute` | `CheckBoundary` |
| `_invoke_and_record_provider` | `RecordIntent`, `Launch`, `ProviderReturns` or `ProviderEscapes` then `CloseUncertain`, `RecordAttempt`, `RecordReceipt` |
| `execute` after the provider | `JudgeProvider` |
| `dispatch_fence` and the probe | `RecordProbeIntent`, `ProbeReturns`, `ProbeFails` |
| P11 receipt | `SignActionReceipt` |
| `commit_result` | `CommitSuccess`, `CommitNonSuccess`, `CommitUnknown` |
| `_require_authority` failing | `AuthorityFails` |
| `_now` failing, `freeze_after_clock_failure` | `FailsBeforeClaim`, `FailsAfterClaim` |
| lock time-out, unreadable anchor, SQLite error | `TransactionFails`; `Advance("raised")` for a transaction that is durable and raises |
| `apply_reset`, signing it | `ApplyReset`, `IssueReset` |
| `close`, `os.fork`, death of a process | `Close`, `Fork`, `Crash` |
| the child process | `Mutate`, `OrphanEnds` |

Abstractions. Hashes, MACs, signatures and Pydantic validation are reduced to what they
authenticate: a row, a token or a receipt is the record itself. A request's authority (P9 to P21) is one
`Deadline` and membership in `revoked`. A callback that times out has either taken effect or not when
the caller goes on. `Ttl` serves as token and reset limit alike.

### `StopContract`: what the store promises

The abstract specification: requests are begun one at a time, succeed only in the epoch they were
begun in, end otherwise only with a STOP that closes that epoch, and only a resume with nothing
open clears a STOP. `GlobalStop!ImplementsContract` is the refinement: `status` forgets the phases of a
row, `born` is the token's epoch.

### `ExternalActions`: the P11 guard and its store

State. `revision`, `claims`, `receipts`, `revocations` are the SQLite file (`_STATE_SCHEMA_SQL`); `file` and `torn`
are the anchor file beside it, `pin` the external monotonic pin, each by the revision it names; `late[p]`
is what the daemon thread of a timed-out callback of `p` still has to publish. Every process has one
`ExternalActionExecutionGuard`, whose `RLock` admits one call: `pc` is where that call is, `job` its grant
and its time argument, `view` what a journal fold has read. `now` is the guards' clock.

| Code | Action |
|---|---|
| `ExternalActionExecutionGuard.open`, `_verify_existing` | `Open` |
| `register_revocation`, `_register_revocation` | `AskRevocation`, then `Register` or `RegisterAgain` |
| `claim`, `_claim_if_unrevoked` | `Claim` |
| `sign_action_receipt`, `_commit_receipt` | `Conclude` |
| `dispatch_fence`, `_execution_fence` | `EnterFence`, `LeaveFence` |
| `verifies_claim` | `CheckClaim`, `CheckRevocations`, `Return` |
| `fold_action_journal` | `FoldSnapshot`, `FoldReturns`, `Return` |
| `_write_anchor` | `WriteFile`, `PublishPin`; cut short: `WriteFails`, `PublishFails`, `Crash` |
| `_bounded_external_store_callback` abandoned | `LatePublish`, `ReadFails` |
| `_file_lock` at its deadline, `_assert_integrity` | `TimesOut`, `Refused` |

Only a revocation queues visibly (`revoking`), because what may happen while it waits matters; the other
transactions are one step, since a call that has not got the lock yet holds nothing. A transaction is three
writes (`Commits`, `WriteFile`, `PublishPin`) with the lock held across them. Unlike P13's store, this one has
no recovery: any difference between its three parts makes every call refuse (`Intact`), and the
runbook (section 4.7) says so; a late pin may heal it. Signatures, hashes and the request's artifacts
are the grant itself; a revocation is its effective time. `now` is the guard's clock; the times a caller names (`at` of a
fence or a verification) may lie before or after it, as the code compares them with no clock. Only a fold's is kept to the past and present, which halves
the states: a later one differs in the same comparison with the revocations that `CheckClaim` makes at any time.

### `OnceOnly`: what a one-shot store promises

The abstract specification of a register whose items are taken at most once, never beside a rival and never once
withdrawn, and end with at most one outcome. `ExternalActions!ImplementsOnceOnly` maps `taken` to the claims,
`outcome` to the receipts, `withdrawn` to the revocations; rivals are grants that share a request or a key. 
### `TractionLedger` and `TractionEvaluation`: the P17 ledger

State. `log` is the four tables of `_TRACTION_LEDGER_SCHEMA` in the order of `event_revision`: a target (an observation, a
settlement snapshot or an evaluation) and the finalization that the clock's answer makes of it. `prior` and `anchor` are
`previous_anchor_sha256` and the external anchor by the revision they name, `holder` the lock file, `worker` the
anchor callback that timed out and still holds the host's anchor lock (with the revision it may publish), `clock`
the same for the clock service. `pc[p]` and `appended[p]` say where the call of a process is, `answer` what
was returned last.

| Code | Action |
|---|---|
| `_file_lock` | `Enter`; released with every return and raise (`Ends`) |
| `_assert_integrity`, recovery of an anchor one behind | `Verify` |
| `_commit_state` and its anchor | the commit in `AppendObservation`, `AppendSettlement`, `Evaluate`, `Stamp`; then `Publish` |
| `_finalize_event`, `_recover_pending_finalization` | `Stamp` |
| `append`, `append_settlement`, `evaluate` | `AppendObservation`, `ReplayObservation`, `AppendSettlement`, `ReplaySettlement`, `Evaluate` |
| `observations`, `reports` | `Read` |
| `_bounded_store_callback`, `_obtain_clock_attestation` timing out, and their threads ending | `AnchorHangs`, `AnchorReturns`, `ClockHangs`, `ClockReturns` |
| a callback that raises, the death of a process | `Fail`, `Crash` |

`TractionEvaluation` holds the pure part: `verify_traction_plan`, `verify_traction_observation` and `_evaluate_traction` with its
refusals, its checks and its decision. An observation is a record of the facts that these tell apart; hashes and
signatures are the records themselves. The evaluation runs over the active projection, as in the code: when the last
window expired before it was finalized, the earlier ones are still evaluated and may be ready for review, while `append` refuses
to go on. `ReadyIsEarned` says exactly that.

`TimelyLog` is the abstract specification: a log to which entries are added one at a time, each settled before the next, in
the order of time, and accepted only if it was settled before it ended. `TractionLedger!ImplementsTimelyLog` maps an
entry to a target row with the finalization that follows it.

### `RunnerEvidence` and `VerifiedRunner`: the P19 runner

`RunnerEvidence` are the validators of the artifacts of one run (challenge, results, image, advisory, clock and runner
attestations) and what the bundle binds. `VerifiedRunner` is the consumption store: `rows` the chained receipts, `revision`, `frozen`,
`prior` its meta row, `anchor` the external anchor, `late` what abandoned anchor callbacks may still write, `asked` how often the
trusted clock was asked. `consume` is `Enter`, `Recover`, `Arm` (`_arm_clock_freeze`), `AskClock`, `Consume` and `Return`, with
`Refuse`, `AnchorHangs`, `LateWrite` and `Crash` between any two. The anchor service is external and assumed to be
monotonic, as the repository's tests implement it (`tests/test_verified_runner.py:521`). The flag `_clock_failed` of one process is not
kept apart: the persistent freeze that precedes it refuses the same calls.

### `RepositoryChecks`, `RepositoryVerification`, `RepositoryAcceptance`: P18

`RepositoryChecks` judges the fixed checks: what the children did, the counts, and the fact in the bundle.
`RepositoryVerification` is a local run on a tree that others edit: two passes over the files (`ReadFile`, `TakesInventory`, `Changed`), the
run lock (`Lock`, `Refused`), the checks (`RunCheck`), the second inventory and the comparison (`ScanAgain`, `Compare`), and the death of the
process (`Die`). `RepositoryAcceptance` is the controlled way: `Prove` (evidence consumed by P19), `Attest` by two roles, `Assemble`, the
chain of human decisions (`Decide`), pins that move later (`Pin`), and the evaluation, which reads all of it with the tree on disk.

### `IntegrationFacts`, `ProductionReadiness`, `ReconciliationLedger`: P15

`IntegrationFacts` are the eleven checks, number by number. `ProductionReadiness` is the chain from evidence (`Collect`) through report
(`Evaluate`), the TCO/QA attestation (`Accept`), the Human approval (`Approve`) and the controller's authorization (`Authorize`) to its
verification. The code lets the approval precede the attestation, and nobody can revoke either; they only expire. `ReconciliationLedger`
is `append` with its checks before the lock (`Ask`), the unbounded wait (`Lock`), `Recover`, `Replay`, `Commit`, `Refuse` and `Return`, a crash or a failing
anchor callback (`Fail`), and the read-only calls (`Inspect`); `Verifies` is `verifies_for_reset`. A result that was once recorded as applied or
ambiguous can never earn a reset: there is one record per result.

### `MeasurementIntegrity`, `SettlementAmendments`, `CohortSettlement`: P12 and its settlement

`MeasurementIntegrity` is P12's pure core: what the validators demand of the cohort and operations batches, what the runtime demands of a
packet, and the amounts and facts of the report. `SettlementAmendments` is the binding, the amendment, the completeness attestation and
the evaluation, which applies later events once, in the order of their times. `CohortSettlement` composes both with the P17
ingestion: sales change at the network (`Change`, `ReverseSale`), a packet is exported and measured (`Measure`, possibly flawed), becomes an
observation (`Ingest`), and amendments and attestations follow (`Amend`, `Attest`). What the network and the verifier do is external: the
verifier attests `complete` only if the amendment has all later events up to its time and does not look at what came
before the snapshot; producers export times that are over. In the code a sale that becomes paid only after P12 cannot be adjusted
(`settlement_amendment.py:1220`): such a reversal makes the evaluation refuse, here as there. The rows of an export are in an order that says
nothing (`SetToSeq`), and every sum is a fold over the members of a finite set.

### `EvidenceStores`: the evidence components side by side

`EvidenceStores` puts the P19 store, the P18 local run and acceptance, the P15 authorization and the P15 ledger next to each other, for any
values of their constants, and names the properties of each. They share no state: `part` says which one a behaviour is about (`PartSpec`).
It is the module that the proofs extend; `MCEvidenceStores` gives it small instances.

## 3. Runs

The `GlobalStop` runs use `MCGlobalStop`. `MaxTime` stops the clock and `MaxIncidents` bounds crashes, closes, forks,
failures, revocations and reset signatures together; nothing else is bounded, and every request
reaches each phase and each verdict within them.

| Run | Instance | Shows |
|---|---|---|
| `MCGlobalStop` | two symmetric processes, one activation, one disable, no store faults, `MaxTime` 1, two incidents | the epoch, fence and ownership rules; refinement of `StopContract` |
| `MCGlobalStopFaults` | as above with failing transactions, lagging clocks, longer tokens and one idempotency key for both requests | one launch per key; intent before mutation; one owned row in flight; evidence and chronology |
| `MCGlobalStopLive` | two processes, the disable, failing transactions, one incident, `FairSpec` | `execute()` ends; an outage is resolved; a row whose owner alone died is recovered |
| `MCStaleReceiptTime`, `MCWedgedRow`, `MCStaleClaimFlag` | one process, more time and incidents | three disagreements between the code and `docs/P13_PRODUCTION_CONSUMER.md`, below |
| `MCExternalActions` | two processes, two grants of one request, `MaxTime` 2, two transactions, two incidents, `FairSpec` | the guard's inductive invariant; clean mutation windows; a pin that never falls back; current answers; refinement of `OnceOnly`; every queued call ends |
| `MCRevocationLost` | two processes, one grant, two transactions, one incident | a disagreement between the code and `docs/P13_ACCEPTANCE_TESTS.md`, below |
| `MCTractionLedger` | two processes, two windows and a rewritten first one, two snapshots of the first, eight rows, `MaxTime` 2, one mishap, `FairSpec` | the ledger's structure, answers, anchor and history; earned recommendations; refinement of `TimelyLog`; pending tails are finalized |
| `MCTractionOverlap` | three windows of which the first and third share an identity token, six rows | a disagreement between the code and `docs/P17_ACCEPTANCE_TESTS.md`, below |
| `MCEvidenceStores` | P19, P18 (run, acceptance) and P15 (readiness, ledger), each an instance of its own; the variable `part` says which one a behaviour is about | recoverable stores and honest use of the clock; honest inventories, bundles and acceptances; authorizations and resets that rest on what is still good |
| `MCCohortSettlement` | two partners, three sales of one window, `MaxTime` 4, three changes of the sales, two amendments, every single flaw of a packet | settlements that P17 accepts are the network's |

The `ExternalActions` bounds: two transactions are the rival claims of two grants, a claim with its receipt, or a claim and a
revocation in either order, so every pair of transactions that can get into each other's way is there. (A grant that is claimed, revoked and concluded
in one behaviour needs three; the theorems of section 4 cover any number.) Two incidents are one transaction cut short and one more blow to what it
left behind, such as a crash while its callback is outstanding. The grants are issued at 0 and 1 and expire at 2, so that each
half-open window is met at both ends, and `MaxDelay` 1 lets a receipt come exactly at its limit and too late. The processes are
interchangeable, but the run checks a liveness property, so it uses no symmetry; its 276,000 distinct states take a minute and a half.

The `TractionLedger` bounds: eight rows are four targets with their finalizations: a window, two snapshots of it (a complete one without events, and
a later one that expires at once) and an evaluation or a second window, which expires early enough that its own finalization may come
too late. A rewritten first window competes for its place. Windows are one step long and start three steps before the
ledger does (`PlanStart`, `WindowLength`), so that a window has ended when it is observed. `MaxTime` 2 puts each expiry on both sides of a finalization. One mishap is a crash, a
hung anchor or clock callback, or a failure; what comes after it needs no second one, because `AnchorReturns` and the second process
then meet whatever it left. Ratios of the code's policy (mature clicks, windows) are compressed to the least numbers that can be missed and met.

The `MCEvidenceStores` bounds: *P19*: five runs by three challenges, whose artifacts are shuffled into every bundle that its own validator
accepts, two processes, two mishaps (one to leave a store behind its anchor, one to disturb its recovery). *P18*: a tree of two files and its runtime
closure, two runners, two edits (a change and one more between two readings), all five checks; for the acceptance one bundle, two contents, two
expiries, two decisions, so that a GO can follow a STOP and the reverse. *P15*: evidence sound for all eleven checks with each
number at its limit, and for each check, each attribute of an item and each defect of the set one bundle that is unsound in nothing else; four artifacts (one of each kind); the ledger with two processes,
facts on three results and two stops, one mishap. The times are compressed: what the code counts in days and seconds are steps of one
clock, with each limit met from both sides. Processes are interchangeable (symmetry); the run has no liveness property. Its 300,000
distinct states take about a minute.

The `CohortSettlement` bounds: one sale that is pending, one that is paid, and one that is not new; a new sale passes
through two statuses after the first, and one more change reverses a paid one, before or after the snapshot. Two amendments are enough
for one to overlap, precede or lack what the other has; a third meets the same pairs. The producer drops one event of an amendment at most; what lacks
several is refused for the same count. The 182,000 distinct states take a minute.

Why the `GlobalStop` bounds are enough: the store serialises transactions, and a row passes through six
phases once. One incident breaks a phase, a second one breaks the recovery from the first or sets up a
reset (the initial state is stopped, so every activation costs one incident for its reset). Two processes are
needed for ownership and for a bystander who resets, freezes or opens; a third would only repeat the
bystander. A second request is needed to compete for the row and for the key. Time 1 puts the activation's deadline
exactly at the last instant, so that every half-open comparison is met on both sides.

Fairness (`FairSpec` of `GlobalStop`): weak fairness on each process's `Execute`, because every callback, lock wait and
child in the code has a time-out, and on opening the store, because a supervisor is expected to
restart the consumer. No fairness is assumed for resets, for the clock or for any failure. `OrphanIsRecovered` speaks
of an outage of all processes, and of the death of a row's owner alone: the processes that have the store
open then go on without recovering its row (`_recover_inflight` is called by `__init__` alone), and the next one to open the store
ends it. Such a row may stay only while every process has the store open, which is why the property says so: then nobody is left to open it, the
code has no other recovery, and an operator must restart one of them. One incident is enough in this run, for the death of the owner is one.

`FairSpec` of `ExternalActions` is weak fairness on each process's `Proceeds`: a lock wait polls until its deadline and
then raises, a callback has a time-out, and a dispatch ends with its provider call's. Whether the lock is given to the
waiting call or its deadline comes first is left open, and new calls may take the lock for ever.

`FairSpec` of `TractionLedger`: a callback that hangs ends some time (weak fairness on `AnchorReturns`, `ClockReturns`), somebody keeps calling (weak
fairness on `Enter`), and a service that is asked again and again answers in time now and then (strong fairness on `Verify`, `Publish` and
`Stamp`, which failures may interrupt but not for ever, since mishaps are finite). None of it is assumed of one particular process.

Findings.

* `MCStaleReceiptTime`: `execute()` judges the provider's receipt at the observation made before the call
  (`production_consumer.py:3788`); the document promises the fresh post-provider time. A success is
  turned into UNKNOWN + STOP.
* `MCWedgedRow`: the STOP committed by a request's own authority failure raises the epoch, so that the UNKNOWN
  commit is refused as an old-epoch result (`production_consumer.py:5762`) and the row stays in flight.
* `MCStaleClaimFlag`: `_has_claimed` survives an `execute()` that raised (`production_consumer.py:3966`); a later
  clock failure before a claim commits no STOP, and the exception says it did.
* `MCRevocationLost`: the acceptance tests say that a revocation writer blocks until a fenced mutation exits. In another
  process it polls the lock file for five seconds (`external_actions.py:1181`), then raises; nothing stores the revocation
  later, and the fence may last longer than that.
* `MCTractionOverlap`: `append` compares the identity tokens of a window with those of the last window only
  (`traction_control.py:1875`), `_assert_integrity` with all: a window that repeats a token of an older one is committed,
  anchored and answered as accepted, and every later call refuses the ledger. The acceptance tests say that overlaps are refused.

## 4. Proofs

For every number of processes and requests, every deadline and policy value, with and without store
faults (the assumptions are the named ones in `GlobalStop`: the constants have their types, `None` is
neither a process nor a request):

* `GlobalStopStoreProofs`: `TypeCorrect`, the type invariant, one lemma per group of actions; then
  `StoreCorrect`. None of `PhaseFence`, `StopKillsActivation`, `FailureEndsEpoch` and `EvidencePreserved` is
  inductive alone. `StoreInvariant` adds that one row is in flight at a time, that no token is younger than
  the epoch, and which facts a row in each state has. With these, every transaction falls into one of four
  kinds, each with a lemma: it claims a row while none is in flight, moves the one row to its next phase and
  raises the revision by one, ends it together with a STOP, or stops without touching rows.
  `TerminalIsFinalCorrect` follows from the same cases.
  The same module proves the refinement, `ContractCorrect`, step by step: phases stutter, a claim is `Begin`, a success
  is `Succeed`, every STOP is `Halt`, a reset is `Resume`.
* `GlobalStopProcessProofs`: `ProcessesCorrect`, the invariant of the processes, the provider and the P11 receipts. Its heart is
  `LockedOwns`: whoever is in a phase under the store lock owns the row in flight, so two processes are never in such phases at once,
  and what the launch checked still holds at the next phase (`LockedStill`: under the lock nothing moves but its holder). From it follow
  `RunningUnderAuthority`; then that the launch count of a row is known from the phase of its process (`PhaseLaunches`) and that
  everything outside follows a noted launch (`LaunchesAreNoted`); then `AtMostOneLaunch`, `MutationHasIntent` and `ReceiptChronology`.
  `SuccessIsProven` uses the fence: `commit_result` demands the revision five after the token's, and by `PhaseFence` only a row with all four
  facts is there. Four lemmas say once how a row, a journal, the provider's side and the launch count can change (`RowSteps`,
  `JournalSteps`, `ProviderSteps`, `LaunchSteps`); the steps of the invariant rest on these instead of on the actions.

For every number of processes and grants, every policy delay and every bound of `ExternalActions` (assuming only that
its constants have their types and that `None` is neither a time nor a receipt):

* `ExternalActionsProofs`: `GuardCorrect`. Every step is quiet, opens a fence, transacts, or writes an anchor; one
  lemma per kind and conjunct. `AnchorsTrail` is the part that none of the code states: while nobody holds the lock, the
  parts differ only by the last transaction, and the one callback that may still be outstanding carries exactly the
  revision that is missing; while it is outstanding nobody gets in. `MutationWindowCorrect`, `PinCorrect`, `AnswersCorrect` and
  `OnceOnlyCorrect` (the refinement) follow from it.

For every number of processes, any observations and settlements and any policy of `TractionLedger` (assuming `LedgerBounds`: the
times, expiries, coverages and bounds are numbers, `None` is no process):

* `TractionLedgerProofs`: `LedgerIsSound`, the inductive invariant: targets and finalizations alternate, rows follow each other in time and
  a finalization's outcome is the verdict of its time, the anchor is at the last row or the one before, and a call that has passed the
  integrity check holds the lock. Its heart is that a callback which outlived its time-out can publish nothing but the last row: it keeps the
  host's anchor lock, so nobody can commit past it. `AnchorNeverReturns`, `AnswersWereFinalized` and `LedgerIsTimely` (the refinement) follow.
  So does `HistoryIsKept`: `append_settlement` compares a snapshot with the newest accepted one only; the invariant
  adds that there always is a newest one, which every later snapshot extends, and extension is transitive.
* `ReadyWasEarned`: what an evaluation read is still there, as it was, under every later row. `EarnedInv` states `ReadyIsEarned` row by row,
  and that an observation which expired is the last one, as `append` refuses any after it. The projections of the code are
  sequences numbered by rank (`Items`); `ItemsHoldRows` and `ItemsAreRows` say once that they hold all their rows and nothing else, by
  the counting theorems of finite sets.
* `LedgerReopens`, `Spec => [](IdentitiesAreUnique => LedgerInvariant)`. `LedgerInvariant` alone is false for some constants, as
  `MCTractionOverlap` shows: `RowsHold` demands what `append` does not check. The theorem says that nothing else can be wrong.
  `RowsInv` keeps the rest of what opening verifies, with no condition at all: ordinals and predecessors follow the chain, windows were current
  when recorded, snapshots name an observation, finalizations agree with their deadlines. Only the last step uses that
  identities are unique. That a deadline exists (`EvidenceEnds`, the least of a set of times) rests on the well-foundedness of the numbers.

For every value of the constants of `EvidenceStores` (the named assumptions of its modules, explained below). A behaviour of `PartSpec` is one of
its component, or never is (`RunnerPart`, `RunPart` and so on), so each theorem about `PartSpec` rests on one about the component:

* `VerifiedRunnerProofs` (P19): `RunnerCorrect` follows a call of `consume`. Between the freeze it commits and the receipt that lifts it the
  store holds one clock answer more than receipts and nobody else is in; the anchor is one commit behind at most, and abandoned callbacks
  know nothing newer. From it follow `RunnerStoreCorrect`, `ClockAnswersCorrect` and `ConsumedEvidenceCorrect`. The last is about the validators:
  a bundle whose image seal is of one run and whose clock attestation is of another would need both to bind one challenge and one
  set of records.
* `RepositoryProofs` (P18, a local run): `RunCorrect`. Edits only raise the version of a file, so two equal passes name a tree that was there when the
  first pass had ended and the second not yet begun (`Middle`), and a tree that lies between two equal trees is that tree
  (`Between`). Neither needs the run lock, which only keeps two runs apart. `InventoryCorrect` and `DiagnosticCorrect` follow.
* `AuthorityProofs` (P18 acceptance, P15): `GoCorrect` and `StagesCorrect` over `AcceptanceCorrect`; `AuthorizationCorrect` over `ReadinessCorrect`;
  `ResetsAreEarned` over `LedgerIsSound`, whose invariant follows a job from the checks before the lock to the
  row it becomes. What these need of time is one lemma, `LeastDeadline`: a set of deadlines that are all still to come has a
  least one, which is still to come. Its existence comes from the well-foundedness of the numbers, whose theorem takes
  no operator.

For every finite set of sales, any amounts, histories, packets and amendments of `CohortSettlement`:

* `CohortSettlementProofs`: `EvidenceStaysTrue`, the inductive invariant. The network's record of a sale only grows, and only now (`RecordsGrow`), so
  what was known at a time that is over is known for ever (`PastIsKept`); a packet about a window that is over and an amendment that
  was complete stay so. That a packet is true when it is measured is a fact about the validators (`CohortIsTrue`): an old status contradicts the
  history, and a reversal left out makes the statement's sum too large, as amounts are positive (`TailIsLess`).
* `SettlementStaysTrue` (`SettlementIsTrue`). Complete amendments have every event up to the newest time they cover (`EvidenceIsAll`). The loop
  that applies them is followed from the original state to the last (`Progress`): each sale has one of its entries, none of its applied events is
  newer, and the reversed sales are those an event named. If the last state is accepted, all before it were
  (`AcceptedFromTheFirst`), so when the events run out, every sale is as the network knew it then (`FinalIsTrue`). The order of application is not needed: an
  event that is older than its sale's newest entry is refused. The two sums are then one, because the rows that settle are the sales that
  had settled, one for one (`AmountsAreTrue`, `SumTransfer`).

The recursion in a sum or a fold is a `CHOOSE` of a function in the community modules. `SumIsAdditive` and `FinalIsReached` say once what that function
computes: its existence and its value come from the well-foundedness of strict inclusion among finite sets and of the
numbers, by the least counterexample, since no induction rule can be instantiated here.

What they assume. `CountsAreNumbers`, `PartBounds` and the bounds of each module say that times, limits and counts are numbers, that `None` and
`Free` name nobody, and that an evidence item is of one of the checks and of one of two provenances, all of which the Pydantic
models enforce (integers, dates and enumerations). `SignersAreHonest` is about who signs, not about the code: the image builder and the
trusted clock, which the code authenticates and otherwise trusts (`verified_runner.py:1180-1210`), sign only what is of a
run; and no two runs gave the same records to one challenge, as each challenge is a fresh nonce. In `CohortSettlement`, `SalesAreNumbered` (finitely many
sales, named by numbers), `AmountsArePositive` (`Field(gt=0, ..., decimal_places=8)` in `measurement_integrity.py:496`, counted in units of the last
place) and `TimesAreNumbers`. TLC evaluates all of them. The truth of exports and verdicts is not assumed but modelled: a producer may leave out an event, and the
verifier attests completeness of what came after the snapshot only.

Only model-checked: liveness, which is out of the proof system's reach (`CallsReturn`, `OrphanIsRecovered`, `ExecuteEnds`,
`PendingIsFinalized`). Every safety invariant, action property and refinement that a passing run checks is a theorem.

## 5. Plan

1. Done: `GlobalStop` (P13/P14), `ExternalActions` (P11), `TractionLedger` (P17), `VerifiedRunner` (P19), the P18 modules, the P15
   modules, P12 with its settlement.
2. Left of P11: `append_action_journal_entry` with the chain and sidecar checks of the fold.
3. Compositions: P11 and P13 through `revoked` and `p11Receipts`; the reset of P13 with P15's ledger; P18's acceptance on P19's store.
4. `LaunchGates` (P16, P21) and `ReleaseAssurance` (P10): evaluation functions and effective expiry; `ControlCycle` (P9).
5. `Storage`, `Growth`, `Tco`: ledgers and pure algorithms against reference definitions.

Theorems to add: those of the compositions of item 3, from the invariants that are proved of their parts.

## 6. Not modelled

Cryptography and canonical JSON; file permissions; the wire format between parent and child; the
synthetic provider's own file; `_shared_file_lock`, which nothing calls; threads of one process inside
`execute()` (the consumer's lock admits one), except `close()`. A `KeyboardInterrupt` in the exchange with the provider child
(`production_consumer.py:4181`) is not among the exceptions the code catches and leaves the child running until its own end; nothing in
the model interrupts a process there short of its death.

Of P17: fork guards, file permissions and the DDL of the ledger. Of P18: the sandbox profile and the lookup of tools; trust roots,
policy and pins are constants. Of P19: the operator's entry point, and the parsing of SBOM and advisory files. Of P12: the demand
batch beyond its name and clusters, the bound dossier; the pins of the rules are one value. The components of section 1 that have no
module yet.
