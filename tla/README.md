# agent-registry in TLA+

A formal model of the Anchor program in `src/programs/agent-registry`, and of the
devnet walkthrough that drives it: what its instructions do to the accounts on
chain, what that makes true, and proofs that it stays true. Paths below are
relative to that program's `src/` unless they start with `src/`.

## 1. Inventory

A Solana instruction is one atomic transaction: it commits all of its writes or
none, and the runtime serialises transactions that write the same account. So
the concurrency of this system is not inside an instruction. It is in the
*order* of instructions, sent by mutually distrustful signers over days, while
the clock advances, other accounts change, and checks made at one time are
relied on at another.

| Component | State | Operations | What makes it correct |
|---|---|---|---|
| Tier table (`state.rs`, `impl Config`) | none: a table in `Config` | `tier_for_bond`, `ceiling_for_tier`, `validate_tiers` | the tier is the highest whose threshold is met; tables are strictly increasing |
| Fee guardrails (`state.rs`, `constants.rs`) | none | `FeeConfig::validate`, `default` | nobody's listing exceeds them |
| Configuration (`instructions/config.rs`) | `Config` PDA: authority, vault authority, tier table, unbonding period | `initialize_config`, `set_unbond_period` | always valid; only the period moves without notice |
| Governance (`instructions/governance.rs`) | `Governance` PDA: guardian, delay; one `PendingChange` PDA per kind | `initialize_governance`, `set_guardian`, `set_timelock_delay`, three `queue_*`, `execute_change`, `veto_change` | every lever moves only after a full, public delay; the guardian can stop it |
| Builders and bonds (`builder.rs`, `bond.rs`) | `Builder` PDA, `BondVault` token account | register, stake, request / cancel unbond, withdraw, slash | bonds are backed; capital deployed stays covered; notice before a withdrawal |
| Listings (`listing.rs`, `guardian_pause_listing`) | `AgentListing` PDA per builder and index | submit, approve, pause (three signers), resume, delist, rotate | approval is not bypassed; delisted is final; indices are contiguous |
| AUM (`aum.rs`) | `Builder.total_aum`, `AgentListing.aum_current`, `vault_count` | `record_deposit`, `record_withdrawal` | the total agrees with the listings; the ceiling holds |
| `agent-vault` | not in the repository; trader capital, which it reports by CPI | `record_deposit`, `record_withdrawal` | reports match what traders put in and take out |
| Whole program (`lib.rs`) | all of the above over one `Config` and one clock | every instruction | each half is an environment the other allows for |
| Devnet walkthrough (`src/scripts/devnet-walkthrough.ts`) | a JSON state file, the process's memory, transactions in flight | twelve steps, re-runnable | keys are not lost, expected failures are failures, a stopped run can be carried to its end |
| Tests, build scripts, migration, `src/app/*.rs` (byte-identical copies of two handlers), `errors.rs` | none of their own | | not modelled (PROJECT.json says why for each) |

**Interactions.** Everything goes through shared accounts. `Config` is written
by configuration and governance and read by every instruction: who the
authority is, which key may report AUM, which table gives a tier, how long
unbonding lasts. `Builder` is written by bond, listing and AUM instructions:
a listing needs a tier and no unbond in flight, a deposit needs room under the
tier's ceiling, a withdrawal needs the remaining bond to cover the capital.
Tokens move through the SPL token program, where strangers may send tokens to
an escrow as well.

**Hard behaviours.** Values checked at queue time and used at execution;
tiers cached in `Builder` while the table they came from changes; a delay that
changes while notices hang; veto and re-queue; two independent saturating
subtractions of one amount; a slash as two transfers and a subtraction; a
request, its cancellation and re-request around a period that governance may
move; a script that may die between sending a transaction and learning of its
fate, and whose transactions may land after it. `PROJECT.json` ("hazards") lists
each with its line and its property.

## 2. Modules

```
Tiers, Fees
  Accounts - Bonds, Listings, Aum - Capital - CapitalHistory
                                       |  \---- Vaults
  Governance - Timelock (abstract)     |
      |  \---- GuardianWatch           |
      \---------------- Registry ------/
                            \---- Walkthrough

proofs   GovernanceProofs - GuardianWatchProofs, RegistryProofs, WalkthroughProofs
         CapitalProofs - LifecycleProofs - HistoryProofs, LedgerProofs
         (RegistryProofs instantiates LifecycleProofs as well)
TLC      MCGovernance, MCGuardianWatch, MCCapital, MCCapitalHistory, MCVaults,
         MCRegistry, MCWalkthrough
```

- **Tiers, Fees**: pure operators. `TierForBond` states which tier is meant (the
  highest reached, with no higher threshold reached); the loop in
  `tier_for_bond` computes it for increasing tables and also for others,
  since its last match is the highest.
- **Governance**: `config`, `governance` and `pending[kind]` are the PDAs
  (`NoAccount` before creation and after `close`); `now` is the Clock sysvar.
  One action per instruction; the account constraints of Anchor (`has_one`,
  `seeds`, `init`, `constraint`) and the `require!`s are its guards. A queue
  instruction takes `slot`, the `kind` argument that seeds the PDA, apart from
  the kind it stores, as the code does. `initialize_config` may be sent by
  anybody, with any authority; its first call wins.
- **Timelock**: what governance promises, without keys or accounts: levers,
  notices with the delay in force when they were hung, a delay that only grows.
  `Governance!TimelockSpec` instantiates it with a refinement mapping:
  `SettingBar` (the three levers out of `Config`), `NoticeBar` (each slot),
  `DelayBar`. `set_unbond_period`, `set_guardian` map to stutters: they are not
  under the timelock.
- **GuardianWatch**: Governance, with the clock held back while a change that the
  guardian can veto is `Vigilance` old and the guardian has not been replaced.
  That is what "stay awake" (`governance.rs`, `veto_change`) means: the guardian
  acts within a bounded time. `rotated` records that `set_guardian` ran.
- **Accounts**: the state of the economic half, with the SPL token program's
  transfer (external). **Bonds, Listings, Aum**: one action per instruction.
  **Capital** puts them together with their environment: `Tick`;
  `TokenTransfer`, anybody sending tokens; `Reconfigure`, which sets `Config`
  and `Governance` to any of a set of valid accounts, an over-approximation of
  configuration and governance.
- **CapitalHistory** adds one history variable, the time at which each builder
  last took anything on (stake, listing, trader capital) or withdrew.
- **Registry** is the program: `lib.rs`'s instructions over one `Config`, one
  `Governance` and one clock. It extends Governance and instantiates Capital with
  every valid configuration as what its environment may arrive at, so that
  `ImplementsCapital` (`Cap!Spec`) says that the real governance is no more than the
  `Reconfigure` of Capital, and `ImplementsGovernance` that the other instructions
  leave what is under the timelock alone.
- **Vaults** is Capital with a vault program that reports what traders really put in
  and take out, in the same transaction. Each trader has one vault under a listing:
  its first deposit opens it (`is_new_vault`), and a withdrawal may close it
  (`vault_closed`) with capital still in it, as `tests/agent-registry.ts:717` does,
  or empty it and leave it open; `open` has the vaults not reported closed,
  `principal` the capital, whatever the flags said. Builders decide to leave:
  from then on such a builder stakes nothing, and gives up its request only for
  the whole bond. Trading gains, losses and fees are not in it: nothing in the
  repository says how the vault program will report them.
- **Walkthrough** is the script, one process over Registry's instructions. `pc` is
  its step, `mem` its state object, `file` the state file, `fetched` what the run has
  read from the chain and uses later (the index of its listing, and the key of the
  change that it executes), `awaited` the transaction it waits for. The script's own
  assertions on what it fetches are steps (`Check`: the tier, the status after
  submission, approval and the guardian's pause, the authority after queueing, the
  closed proposal, the vault authority after execution); a run that fails one ends.
  Step 12 asks the local clock, which may be a second fast (it sends too early, and
  the run ends) or slow (it leaves the change to another run). A transaction is simulated when it is sent (`Accepted`)
  and takes effect when it lands (`Confirm`); a process that dies, or whose
  confirmation times out, leaves it in `abandoned`, to land later or expire.
  `TornWrite` is a crash inside `writeFileSync`. `RunAgain` starts from the file.
  `Ensure` is the script's way of skipping what exists already; `ExpectFail` is its
  `expectFail`, with a `try` that contains its own throw. `Accepted` names two guards
  of `execute_change` next to the `ENABLED` that implies them, because the provers do not
  know `ENABLED`; what is accepted is the same.

Left out: bumps, rent payers, `created_at`, `approved_at`, `market`,
`metadata_hash`, `reason_hash`, logs and error codes: no guard reads them. The
rent recipient of a resolved change (`ResolveChange.rent_refund`) is a guard that
the caller can always meet with the right account, so it is left out too.
`approve_listing(None)` is `ApproveListing` with `LaunchDefaults`. `agent_mint`
is one mint; token accounts of other mints are refused everywhere.
`u64` overflow of bonds is unreachable (the mint's supply is a `u64`), so bonds
are naturals; the counters whose width bites (`slash_count`, `agent_count`,
`vault_count`, `aum_current`) have it as a constant.

## 3. Runs

| Run | Instance | Shows |
|---|---|---|
| `governance` | two keys, three tables (one out of order), periods 0..2 of at most 1, delays 0..3 of 1..2, clock to 3, at most two slots open (`AtMostTwoOpen`) | `PendingHonoursDelay`, `ExecutionNeverFailsValidation`, `ConfigStaysValid`, the refinement `TimelockSpec`, and types (the guardian is never the default key) |
| `guardian_watch` | delays 2..3, vigilance 1, clock to 4, all slots | `LeversHeld` |
| `bonds` | one builder, one listing, a stranger's wallet, two configurations (table and period), clock to 4 | `BondsBacked`, `TierStaleOnlyByUpdate`, `CoverLostTwoWays`, `NoticeServed`, types and counter widths |
| `listings` | one builder, two listings, fees that pass and fees that do not, clock to 2 | `CapitalUnderGuardrails`, `IndicesContiguous`, `TotalAumWithinSum`, `DelistedIsFinal` |
| `registry` | one builder, amount 1, two tables, periods 0 to 3 with a maximum of 2, clock to 3, one change open, no transfer of the authority and no odd keys (`UsualKeys`) | the refinement `ImplementsCapital`; `CoverLostOnlyWithNotice`, `ServedNoticeStands` |
| `vaults` | one builder, one listing, two traders, two configurations, clock to 4, decisions to leave up to 2 | `LedgersAgree`, `NobodyStranded`, and the liveness property `BondComesHome` |
| `walkthrough` | two faults (crash, timeout, torn write, wrong local clock) anywhere, three keys of each use, one delay of 2 | `RerunsReuseKeys`, `AuthorityKept`, `ExpectedFailuresFail`, and the liveness property `JourneyEnds` |
| `veto`, `independence`, `total_aum`, `exit`, `expect_fail` | as `governance`, `listings`, `registry` and `walkthrough` | the disagreements of section 5 |

**Bounds.** Changes interact through the one
`Config` they write, in pairs, so two open slots show every interaction; the
inputs include every kind of value a guard turns away (zero, over the maximum,
an unordered table, the default key, the guardian's own key). Three units of
$AGENT and tier bonds 1, 2, 3 put a builder in every tier and on both sides of
every threshold; amounts 1 and 2 make saturation happen; width bounds of 1, 2
and 3 put every counter at its limit; two traders under one listing let one vault
close early while the other stays, and `listings` has the two listings; periods of
up to 3 over a maximum of 2 include one that only `initialize_config` takes; a clock
to 4 lets a request be made, cancelled, made again and served, under both periods. `bonds` has one builder, whose own
escrow may be the destination of its withdrawal or slash; that several builders
and escrows do not disturb one another is theorem `Solvency`. `registry` keeps to
one open change and the usual keys, and to tables and vault authorities among the
changes, because `governance` alone covers the rest.
Two faults in `walkthrough` let a process die with a transaction in flight and its
successor die again; three keys of each use are one more than two torn writes can
waste, so `CreateMint` never waits for a key. The clock starts at 1 because a
request stores the clock and 0 means none. Larger values of everything are
what the proofs are for.

**Fairness.** Only `vaults` and `walkthrough` state it. `VaultFairness`: the clock
goes on, and a builder that leaves sends its own `request_unbond` and
`withdraw_bond` when they would succeed, which is its own interest; no trader, no
authority and no guardian has to do anything, and the clock of the model waits for
the request of a builder that leaves (`HasAsked`), so that `MaxTime` leaves room for
a whole period. `BondComesHome` is under the condition that no trader is in, since
the code lets none be driven out. `WalkFairness`: the process goes on (or one of at
most `MaxFaults` faults ends it), the operator runs the script again as its
output says, and the clock goes on; the clock of Walkthrough runs only while a
change waits, because nothing else there reads it. Strong fairness is nowhere
assumed.

`CHECK_DEADLOCK FALSE` everywhere, because the clock stops at `MaxTime`, a bound of
the model, and nobody has to send another instruction.

`Punctual` says that step 11 of the walkthrough, from queueing the transfer to
its veto, is quicker than the timelock delay, as it is when nobody suspends the
process. `AuthorityKept` and `ExpectedFailuresFail` need it; `expect_fail` shows
what happens without. A crash in step 11 may take any time: the next run vetoes the
leftover first, and the clock is free then.

`governance` and `guardian_watch` use the symmetry of the keys, which
no definition names, and `listings` that of the bot keys, which are stored and
never compared; all their properties are over states and single steps, for which
symmetry is sound. The runs with liveness use none.

Each property of a passing run has a mutant of a mapped definition (the operators
whose comment begins with "Mutant") that TLC must find to break it.

## 4. Proofs

Checked by TLAPS for every value of the constants that meets the named
assumptions. The assumptions say: `NoKey` is not a key that signs; `NoAccount` is
not an account; inputs are of their types; `MIN_TIMELOCK_DELAY` is positive
(Governance); vigilance is shorter than it (GuardianWatch); builders are keys,
wallets are not escrows, widths and amounts are naturals (Accounts, and again
Registry, which instantiates them); the configurations that governance may arrive at
are valid (Capital; `ConfigValid` proves that of the real ones); the
script's keys are keys and its settings inputs (`ScriptAssumption`), and
`Keypair.generate()` does not return a guardian key that another party signs with
(`GuardianKeysAssumption`).

Every invariant and action property of section 3's passing runs is a theorem:

- `GovernanceProofs`. The invariant `IInv` joins types with: governance exists
  only if config does, the delay in force lies within its bounds, every pending
  change was queued no later than now with a wait between the floor and the
  delay in force, a pending tier table is well shaped, and the configuration is
  valid. The last two need each other: execution installs the pending table,
  and it is accepted because both halves are valid at that moment.
  `DelaysHonoured`, `ConfigValid` and `ExecutionValid` follow.
  `ImplementsTimelock` is the refinement, one
  lemma per instruction under `IInv`; executing needs `eta = queued_at + wait`, and
  that a slot is resolved only under its own kind.
- `GuardianWatchProofs`: `AwakeGuardianHolds`. The extra invariant: while the
  guardian has not been replaced, every resolvable change is at most `Vigilance`
  old, hence, with a wait of at least the floor, not due; so no `execute_change`
  is enabled.
- `CapitalProofs`: `CapitalTypes` (no width exceeded, nothing negative) and
  `Solvency`. Solvency is inductive with the types: an escrow loses only what the
  bond behind it loses (`Moves`), strangers only add, and different builders have
  different escrows. The slash needs `SlashSplitsExactly` (the two shares add
  up to the amount) and that either receiver may be an escrow, its own included.
  `TierForBondSpec` says that the tier of a bond exists, lies in 0..3 and is
  the highest whose threshold the bond reaches.
- `LifecycleProofs`: `TiersStayFresh` and `CoverHasTwoExits`. First what a step may change
  at all: at most one builder's account (`OneBuilder`), in one of the shapes of
  `BuilderShape`. Then monotonicity (`TierMonotone`, `CeilingMonotone`): a larger
  bond has no lower tier and a higher tier no lower ceiling, so that only a step
  which lowers the bond or raises the total can cost cover. `withdraw_bond` checks
  the remaining bond's ceiling; `record_deposit` checks the cached tier's, which is
  the bond's if the tier is fresh. What is left is slashing, and a deposit under a
  stale tier. `GuardrailsHold` needs that a delisted listing holds no capital, since
  approval is what sets fees and a listing still being vetted takes none;
  `IndicesHaveNoGaps`, that only `submit_listing` moves `agent_count`, to the index
  after the one it fills; `DelistingIsFinal`.
  `TotalNeverAboveSum` is about sums over any number of listings. `SumChange` is the
  lemma it needs: if one listing's AUM moves, the sum moves by as much. The library's
  sum folds over a set, and TLAPS cannot cite its induction theorems, so the lemmas
  about it look for a least part of the finite set on which they fail (`LeastPart`)
  and find none. The total is the first to saturate, as it is no larger than the sum
  it should equal; `record_deposit` adds the same to both.
- `LedgerProofs`: with honest reports the invariant is `VaultInv`: each listing's AUM is
  the sum of what its traders have in it, its vault count the number of vaults open,
  it has no capital once it is delisted, and the total is the sum of the listings.
  Then no subtraction saturates, which keeps the equalities, and `delist`, which asks
  for no AUM, strands nobody, because a sum of naturals is zero only if each is: `LedgersStayEqual`, `NobodyIsStranded`.
- `HistoryProofs`: `NoticeIsServed`. The invariant: a request in flight is no older
  than the builder's last inflow or withdrawal. It is inductive because staking,
  listing and deposits all refuse a builder that is unbonding, and a withdrawal
  consumes the request.
- `RegistryProofs`: `GovernanceImplemented`, every step of the program is a step of
  Governance or leaves its state alone; and from it, with `IInv` carried over,
  `CapitalImplemented`: a privileged instruction arrives at a valid configuration,
  so it is a `Reconfigure`. `CapitalAssumptions` then proves what Capital assumes of
  its constants from Registry's own, so that the theorems of `LifecycleProofs` are
  cited for the program: `CapitalStaysSound` (solvency, guardrails, indices, totals) and
  `CapitalStepsStaySound` (stale tiers, delisting).
  `CoverLostWithNotice` joins both halves: `CoverHasTwoExits` leaves a slash, a
  deposit under a stale tier or a new table, and by `IInv` a new table, without which
  no tier goes stale, is one that `execute_change` took from its slot at least the
  minimal delay after it was queued. `NoticeStands`: only `set_unbond_period` brings a
  longer period, of `MAX_UNBOND_PERIOD` at most, and the rest leaves the request in
  place or takes it away.
- `WalkthroughProofs`. `ScriptInv` relates the process, its file and its
  transactions: memory and file agree except while the mint is being saved, a step
  past the creation of a key has that key, what is awaited is what the step sends. With it every
  transaction that lands is one of Governance's (`WalkthroughIsGoverned`), so `IInv`
  holds along the walkthrough. `KeysAreKept`: what is on chain, and what is on its
  way there, was created with the keys now in the file, because keys are only added
  to it. `LeverInv`, in a punctual run: from the moment the transfer is queued for show until
  it is vetoed, it is not due; and whichever change of the authority hangs names
  the throwaway key. Hence `ExpectedFailuresHold`, and `AuthorityStays`, whose
  invariant adds that no transaction executing a transfer is awaited or in flight:
  `Accepted` refuses it while the transfer is not due, and a simulation that is
  refused is not sent. The last two have `Punctual` as their hypothesis, which
  `walkthrough` meets and `expect_fail` does without.

Only model-checked, because they are out of TLAPS's reach: liveness under fairness
(`BondComesHome`, `JourneyEnds`). `ENABLED`, on which `Accepted` rests, is not
expanded in any proof: they use the guards that `Accepted` names besides it.

## 5. Where the code and its comments disagree

1. `veto`: a change queued under a `kind` argument other than its own can be
   neither executed nor vetoed, and holds its slot for good
   (`instructions/governance.rs:160`, `:281`; `state.rs:156` "Can veto any
   pending change").
2. `independence`: an authority transfer may make the guardian the authority
   (`governance.rs:331`; `:63` "A guardian that is the authority is not a
   guardian").
3. `total_aum`: independent saturating subtractions let `total_aum` fall below
   the sum of the listings (`aum.rs:109`; `state.rs:191`). The other direction
   holds: `TotalAumWithinSum`.
4. `exit`: `queue_set_vault_authority` takes `Pubkey::default()`, which
   `RecordAum::assert_vault` reads as "not set"; once executed, no withdrawal can be
   recorded until another change has waited its turn (`governance.rs:335`,
   `aum.rs:34`; `src/README.md:67` "Withdrawals always work").
5. `expect_fail`: in the walkthrough, an expected failure that does not fail is
   reported as the failure expected, because the error thrown for it is caught by
   its own `try` and names the code looked for (`devnet-walkthrough.ts:91`; `:87`
   "Assert a transaction fails with a specific Anchor error code").

Smaller ones that no run shows:

- A tier update re-tiers nobody (`governance.rs:339`; `state.rs:74`). How far it
  goes: `TierStaleOnlyByUpdate`, and the next movement of the bond repairs it. Until
  then `record_deposit` looks up the ceiling of the cached tier in the new table
  (`aum.rs:73`), and may admit capital that the bond no longer covers:
  `CoverLostTwoWays` and `CoverLostOnlyWithNotice` have that case as a disjunct.
- `delist` asks for no AUM and not for `vault_count` (`listing.rs:198`), so a vault that
  was emptied and not reported closed stays counted. As `record_withdrawal` takes no
  amount of zero (`aum.rs:106`), it can then not be reported closed without reporting
  capital that is not there. `NobodyStranded` is about capital only.
- A slash of one base unit rounds the traders' share down to nothing
  (`bond.rs:269`; `constants.rs:54`).
- `initialize_config` takes an unbonding period over `MAX_UNBOND_PERIOD`
  (`config.rs:43`; `constants.rs:22`), `set_unbond_period` does not. A request waits
  as long as that until the period is set again, but once it has waited out the period
  in force no later one can make it wait beyond `MAX_UNBOND_PERIOD`
  (`ServedNoticeStands`).
- Every re-run of the walkthrough submits and approves another listing
  (`devnet-walkthrough.ts:313`; `:15` "steps that already exist are detected and
  skipped"). A run that dies after the guardian's pause leaves its listing paused.
- The state file is rewritten in place and an unparsable one is taken for none
  (`devnet-walkthrough.ts:116`, `:123`; `:109`). `RerunsReuseKeys` and `JourneyEnds`
  hold unless a crash tears a write (`torn`).

## 6. Not modelled, and the plan

- Gains, losses and fees of trading in `agent-vault`: external, and nothing in the
  repository says how they will be reported. Capital covers them as reports of
  any amount; what of it holds then is `TotalAumWithinSum` and the properties of the
  bond.
- Which error a refused instruction returns (`errors.rs`): it changes no state, a
  refused instruction is a disabled action. The walkthrough looks at some of them;
  `ErrorOf` has those.
- SOL balances, funding and rent; what the walkthrough prints.
- Build scripts, the empty migration, the tests (read for which sequences they
  cover), `src/app` (byte-identical copies of two handlers).

Next, in order: two builders in `registry`, with a slash into one another's escrow;
`NoticeIsServed` for the whole program, which needs the history variable beside
Registry; two operators running the walkthrough at once.
