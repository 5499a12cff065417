----------------------------- MODULE Walkthrough -----------------------------
(***************************************************************************)
(* The devnet walkthrough (scripts/devnet-walkthrough.ts): one process     *)
(* that drives the program through a builder's whole journey, keeps the    *)
(* keys it generates in a state file, and may be stopped anywhere and run  *)
(* again.  The instructions it sends are those of Registry.                *)
(*                                                                         *)
(* A transaction is simulated when it is sent and takes effect when it     *)
(* lands; the process waits in between.  A process that dies while it      *)
(* waits leaves its transaction behind, to land later or never.            *)
(*                                                                         *)
(* Left out: SOL balances and funding, the rent, what is printed, and the  *)
(* check after step 4 for a tier without a bond, which no builder has.     *)
(***************************************************************************)
EXTENDS Registry, Sequences

CONSTANTS
  Cli,           \* the CLI wallet, which plays the multisig
  Mints,         \* addresses of mints that may be created
  BuilderKeys,   \* keys that may be generated, by use
  GuardianKeys,
  VaultKeys,
  Throwaway,     \* the key that step 11 pretends is an attacker's
  Ata,           \* the $AGENT account of each builder
  TierSetup,     \* TIER_BONDS, TIER_CEILINGS
  UnbondPeriod,  \* DEVNET_UNBOND_PERIOD
  Delay,         \* DEVNET_TIMELOCK_DELAY
  None,          \* a field that is not set
  MaxFaults,     \* bound on crashes, timeouts and runs with a wrong local clock
  Punctual       \* whether step 11 ends before the change it queues is due

VARIABLES
  pc,           \* the step the process is at; "idle" without a process
  mem,          \* `state`, in memory
  file,         \* STATE_FILE
  fetched,      \* what this run has fetched: the index of its listing, the key of the
                \* change that it executes
  awaited,      \* the transaction the process waits for
  abandoned,    \* transactions of processes that died waiting
  configMint,   \* config.agent_mint
  generated,    \* keys and mints generated so far
  faults,
  torn          \* whether a crash has cut a write of the state file short

ASSUME ScriptAssumption ==
  /\ Cli \in Keys /\ Throwaway \in Keys
  /\ BuilderKeys \subseteq Builders
  /\ GuardianKeys \subseteq Keys /\ VaultKeys \subseteq Keys
  /\ TierSetup \in TierTables /\ UnbondPeriod \in UnbondPeriods /\ Delay \in Delays
  /\ None \notin Mints \cup BuilderKeys \cup GuardianKeys \cup VaultKeys

\* Keypair.generate() does not come up with a key that is in use.
ASSUME GuardianKeysAssumption == GuardianKeys \cap (Builders \cup {Cli, Throwaway}) = {}

script == <<pc, mem, fetched, awaited, generated>>

walkVars == <<registryVars, script, file, abandoned, configMint, faults, torn>>

Bot == CHOOSE bot \in BotKeys : TRUE

NothingSaved == [mint |-> None, builder |-> None, guardian |-> None, vaultAuthority |-> None]

NothingFetched == [index |-> 0, target |-> None]

WalkInit ==
  /\ RegistryInit
  /\ pc = "idle"
  /\ mem = NothingSaved
  /\ file = NothingSaved
  /\ fetched = NothingFetched
  /\ awaited = None
  /\ abandoned = {}
  /\ configMint = None
  /\ generated = {}
  /\ faults = 0
  /\ torn = FALSE

Steps ==
  <<"mint", "save_mint", "builder", "config", "register", "fund", "stake", "fetch",
    "submit", "check_listing", "approve", "check_fees", "guardian", "governance", "resume",
    "guardian_pause", "check_paused", "guardian_resumes", "builder_resumes", "reset",
    "queue_transfer", "check_authority", "early_execute", "guardian_executes", "veto",
    "check_vetoed", "vault", "check_vault">>

SlotTaken(kind) == pending[kind] # NoAccount

Following(step) ==
  LET k == CHOOSE n \in 1..Len(Steps) : Steps[n] = step
  IN  IF k = Len(Steps) THEN "done" ELSE Steps[k + 1]

-----------------------------------------------------------------------------
\* Transactions

Tx(op, signer, key) ==
  [op |-> op, signer |-> signer, key |-> key, builder |-> mem.builder, index |-> fetched.index]

Economic(A) == A /\ UNCHANGED <<pending, configMint>>

Privileged(A) == A /\ UNCHANGED <<builder, listing, token, configMint>>

\* What a transaction does when it lands.
Effect(tx) ==
  \/ /\ tx.op = "initialize_config"
     /\ InitializeConfig(tx.signer, TierSetup, UnbondPeriod)
     /\ configMint' = tx.key
     /\ UNCHANGED <<builder, listing, token>>
  \/ /\ tx.op = "register_builder"
     /\ tx.key = configMint
     /\ Economic(Cap!RegisterBuilder(tx.builder))
  \/ /\ tx.op = "mint_to"
     /\ token' = [token EXCEPT ![Ata[tx.builder]] = @ + TierSetup.bonds[2]]
     /\ UNCHANGED <<now, config, governance, pending, builder, listing, configMint>>
  \/ /\ tx.op = "stake_bond"
     /\ Economic(Cap!StakeBond(tx.builder, Ata[tx.builder], TierSetup.bonds[1]))
  \/ /\ tx.op = "submit_listing"
     /\ builder[tx.builder].agentCount = tx.key
     /\ Economic(Cap!SubmitListing(tx.builder, Bot))
  \/ /\ tx.op = "approve_listing"
     /\ Economic(Cap!ApproveListing(tx.signer, tx.builder, tx.index, LaunchDefaults))
  \/ /\ tx.op = "resume_listing"
     /\ Economic(Cap!ResumeListing(tx.signer, tx.builder, tx.index))
  \/ /\ tx.op = "guardian_pause_listing"
     /\ Economic(Cap!GuardianPauseListing(tx.signer, tx.builder, tx.index))
  \/ /\ tx.op = "initialize_governance"
     /\ Privileged(InitializeGovernance(tx.signer, tx.key, Delay))
  \/ /\ tx.op = "queue_transfer_authority"
     /\ Privileged(QueueTransferAuthority(tx.signer, "TransferAuthority", tx.key))
  \/ /\ tx.op = "queue_set_vault_authority"
     /\ Privileged(QueueSetVaultAuthority(tx.signer, "SetVaultAuthority", tx.key))
  \/ tx.op = "execute_change" /\ Privileged(ExecuteChange(tx.signer, tx.key))
  \/ tx.op = "veto_change" /\ Privileged(VetoChange(tx.signer, tx.key))

\* The cluster simulates a transaction before it forwards it.  That a change is not
\* executed before it is due follows from ENABLED; it is spelled out because the
\* provers know nothing of ENABLED.
Accepted(tx) ==
  /\ tx.op = "execute_change" => SlotTaken(tx.key) /\ Due(pending[tx.key])
  /\ ENABLED Effect(tx)

\* The error of a refused transaction that the script looks at.
ErrorOf(tx) ==
  CASE tx.op = "execute_change" /\ ~SlotTaken(tx.key) -> "AccountNotInitialized"
    [] tx.op = "execute_change" /\ config.authority = tx.signer -> "TimelockNotElapsed"
    [] tx.op = "resume_listing" /\ Cap!BuilderOrAuthority(tx.signer, tx.builder) ->
         "ListingNotPaused"
    [] OTHER -> "Unauthorized"

-----------------------------------------------------------------------------
\* The process, one action per kind of step.  Unprimed `pc` names the step.

At(step) == pc = step /\ awaited = None

Goes == pc' = Following(pc)

\* Send a transaction and wait, or end the run with its error.
Sent(tx) ==
  /\ IF Accepted(tx) THEN awaited' = tx /\ UNCHANGED pc
                     ELSE pc' = "idle" /\ UNCHANGED awaited
  /\ UNCHANGED <<registryVars, configMint, mem, file, abandoned, generated, faults, torn>>

Send(tx) == Sent(tx) /\ UNCHANGED fetched

Pass ==
  /\ Goes
  /\ UNCHANGED <<registryVars, configMint, mem, file, fetched, awaited, abandoned, generated,
                 faults, torn>>

\* An assertion of the script on what it fetches: a run that fails it ends.
Check(step, holds) ==
  /\ At(step)
  /\ IF holds THEN Goes ELSE pc' = "idle"
  /\ UNCHANGED <<registryVars, configMint, mem, file, fetched, awaited, abandoned, generated,
                 faults, torn>>

Do(step, tx) == At(step) /\ Send(tx)

\* A step whose work exists already is skipped.
Ensure(step, exists, tx) ==
  /\ At(step)
  /\ IF exists THEN Pass ELSE Send(tx)

\* An expected failure.  The check of the error is inside the `try` whose `catch`
\* reads it: when the transaction succeeds, the error thrown for that names the
\* expected code, which is all that the `catch` looks for.
ExpectFail(step, tx, code) ==
  /\ At(step)
  /\ IF ~Accepted(tx) /\ ErrorOf(tx) = code THEN Pass ELSE Send(tx)

Fresh(pool) == CHOOSE key \in pool : key \notin generated

\* Mutant: the key is kept in memory and not written.
Saved_NotWritten(state) == file' = file

Saved(state) == file' = state

\* Step 1.  The mint is created on chain before it is saved.
CreateMint ==
  /\ At("mint")
  /\ IF mem.mint # None
     THEN pc' = "builder" /\ UNCHANGED <<mem, generated>>
     ELSE /\ Mints \ generated # {}
          /\ mem' = [mem EXCEPT !.mint = Fresh(Mints)]
          /\ generated' = generated \cup {Fresh(Mints)}
          /\ Goes
  /\ UNCHANGED <<registryVars, configMint, file, fetched, awaited, abandoned, faults, torn>>

SaveMint ==
  /\ At("save_mint")
  /\ Saved(mem)
  /\ Goes
  /\ UNCHANGED <<registryVars, configMint, mem, fetched, awaited, abandoned, generated, faults,
                 torn>>

\* Steps 2 and 9.  The key is saved before anything is done with it.
GenerateKey(step, field, pool) ==
  /\ At(step)
  /\ IF mem[field] # None
     THEN UNCHANGED <<mem, file, generated>>
     ELSE /\ pool \ generated # {}
          /\ mem' = [mem EXCEPT ![field] = Fresh(pool)]
          /\ generated' = generated \cup {Fresh(pool)}
          /\ Saved(mem')
  /\ Goes
  /\ UNCHANGED <<registryVars, configMint, fetched, awaited, abandoned, faults, torn>>

\* Steps 3 to 6.
FoundBuilder ==
  \/ Ensure("config", config # NoAccount, Tx("initialize_config", Cli, mem.mint))
  \/ Ensure("register", Cap!Exists(mem.builder),
            Tx("register_builder", mem.builder, mem.mint))
  \/ Ensure("fund", token[Ata[mem.builder]] >= TierSetup.bonds[1], Tx("mint_to", Cli, mem.mint))
  \/ Ensure("stake", builder[mem.builder].tier >= 1, Tx("stake_bond", mem.builder, None))

\* The builder is fetched, its tier checked, and its agent_count kept for step 7.
FetchBuilder ==
  /\ At("fetch")
  /\ IF builder[mem.builder].tier >= 1
     THEN fetched' = [fetched EXCEPT !.index = builder[mem.builder].agentCount] /\ Goes
     ELSE pc' = "idle" /\ UNCHANGED fetched
  /\ UNCHANGED <<registryVars, configMint, mem, file, awaited, abandoned, generated, faults,
                 torn>>

Listing == listing[mem.builder][fetched.index]

\* Steps 7 and 8.  The client takes the address of a new listing from the builder
\* account as it is by then.
ListAgent ==
  \/ Ensure("submit",
            fetched.index \in Cap!Indices /\ Cap!HasListing(mem.builder, fetched.index),
            Tx("submit_listing", mem.builder, builder[mem.builder].agentCount))
  \/ Check("check_listing", Listing.status \in {"Vetting", "Live"})
  \/ Ensure("approve", Listing.status = "Live", Tx("approve_listing", Cli, None))
  \/ Check("check_fees", Listing.status = "Live" /\ Listing.fees = LaunchDefaults)

\* Steps 9 and 10: the guardian may stop a listing, and not start it again.
StopAndRestart ==
  \/ Ensure("governance", governance # NoAccount,
            Tx("initialize_governance", Cli, mem.guardian))
  \/ Ensure("resume", Listing.status = "Live", Tx("resume_listing", mem.builder, None))
  \/ Do("guardian_pause", Tx("guardian_pause_listing", mem.guardian, None))
  \/ Check("check_paused", Listing.status = "Paused")
  \/ ExpectFail("guardian_resumes", Tx("resume_listing", mem.guardian, None), "Unauthorized")
  \/ Do("builder_resumes", Tx("resume_listing", mem.builder, None))

\* Mutant: a proposal left over from an earlier run is not looked for.
Leftover_Ignored(kind) == FALSE

Leftover(kind) == SlotTaken(kind)

\* Step 11: a transfer of the authority is queued, not executable, and vetoed.
AnnounceAndVeto ==
  LET kind == "TransferAuthority"
  IN  \/ Ensure("reset", ~Leftover(kind), Tx("veto_change", mem.guardian, kind))
      \/ Do("queue_transfer", Tx("queue_transfer_authority", Cli, Throwaway))
      \/ Check("check_authority", config.authority = Cli)
      \/ ExpectFail("early_execute", Tx("execute_change", Cli, kind), "TimelockNotElapsed")
      \/ ExpectFail("guardian_executes", Tx("execute_change", mem.guardian, kind),
                    "Unauthorized")
      \/ Do("veto", Tx("veto_change", mem.guardian, kind))
      \/ Check("check_vetoed", ~SlotTaken(kind))

\* Step 12: the vault authority, queued by one run and executed by a later one.
\* Whether it is due is asked of the local clock, which may be a second off: a fast
\* one sends too early, and a slow one puts it off to another run.
ExecuteVaultChange ==
  LET kind == "SetVaultAuthority"
      wrongly(step) ==
        /\ faults < MaxFaults
        /\ faults' = faults + 1
        /\ pc' = step
        /\ UNCHANGED <<registryVars, configMint, mem, file, fetched, awaited,
                       abandoned, generated, torn>>
  IN  /\ At("vault")
      /\ config.vaultAuthority = NoKey
      /\ SlotTaken(kind)
      /\ \/ now < pending[kind].eta /\ Pass
         \/ /\ now >= pending[kind].eta
            /\ Sent(Tx("execute_change", Cli, kind))
            /\ fetched' = [fetched EXCEPT !.target = pending[kind].newKey]
         \/ now + 1 = pending[kind].eta /\ wrongly("idle")
         \/ now = pending[kind].eta /\ wrongly(Following(pc))

QueueVaultChange ==
  /\ At("vault")
  /\ config.vaultAuthority = NoKey
  /\ ~SlotTaken("SetVaultAuthority")
  /\ IF mem.vaultAuthority # None
     THEN Send(Tx("queue_set_vault_authority", Cli, mem.vaultAuthority))
     ELSE /\ VaultKeys \ generated # {}
          /\ mem' = [mem EXCEPT !.vaultAuthority = Fresh(VaultKeys)]
          /\ generated' = generated \cup {Fresh(VaultKeys)}
          /\ Saved(mem')
          /\ UNCHANGED <<registryVars, configMint, pc, fetched, awaited, abandoned, faults,
                         torn>>

VaultAuthorityIsSet == At("vault") /\ config.vaultAuthority # NoKey /\ Pass

\* Only the branch of step 12 that executes the change looks at what came of it.
CheckVaultAuthority ==
  Check("check_vault", fetched.target \in {None, config.vaultAuthority})

\* The transaction that the process waits for lands, or is refused after all.
Confirm ==
  /\ awaited # None
  /\ \/ Effect(awaited) /\ Goes
     \/ ~Accepted(awaited) /\ pc' = "idle" /\ UNCHANGED <<registryVars, configMint>>
  /\ awaited' = None
  /\ UNCHANGED <<mem, file, fetched, abandoned, generated, faults, torn>>

ScriptStep ==
  \/ CreateMint
  \/ SaveMint
  \/ GenerateKey("builder", "builder", BuilderKeys)
  \/ FoundBuilder
  \/ FetchBuilder
  \/ ListAgent
  \/ GenerateKey("guardian", "guardian", GuardianKeys)
  \/ StopAndRestart
  \/ AnnounceAndVeto
  \/ ExecuteVaultChange
  \/ QueueVaultChange
  \/ VaultAuthorityIsSet
  \/ CheckVaultAuthority
  \/ Confirm

-----------------------------------------------------------------------------
\* Crashes and re-runs

\* A process dies: its memory is gone, what it sent is not.  A confirmation that
\* times out ends a run in the same way.
Dies ==
  /\ faults < MaxFaults
  /\ faults' = faults + 1
  /\ pc' = "idle"
  /\ awaited' = None
  /\ abandoned' = IF awaited = None THEN abandoned ELSE abandoned \cup {awaited}
  /\ UNCHANGED <<registryVars, configMint, mem, fetched, generated>>

Crash == pc \notin {"idle", "done"} /\ Dies /\ UNCHANGED <<file, torn>>

\* The process is about to write a key that the state file does not hold.
Writes ==
  /\ awaited = None
  /\ \/ pc = "save_mint"
     \/ pc \in {"builder", "guardian"} /\ mem[pc] = None
     \/ pc = "vault" /\ ENABLED QueueVaultChange /\ mem.vaultAuthority = None

\* writeFileSync truncates the file and writes it anew: a crash in between
\* leaves what loadState cannot parse, and then it starts from nothing.
TornWrite == Writes /\ Dies /\ file' = NothingSaved /\ torn' = TRUE

\* The operator runs the script again after a failure, and, as it tells them to,
\* once the proposal of a complete run is due.
RunAgain ==
  /\ \/ pc = "idle"
     \/ /\ pc = "done"
        /\ SlotTaken("SetVaultAuthority")
        /\ Due(pending["SetVaultAuthority"])
  /\ pc' = "mint"
  /\ mem' = file
  /\ fetched' = NothingFetched
  /\ UNCHANGED <<registryVars, configMint, file, awaited, abandoned, generated, faults, torn>>

\* A transaction of a dead process lands late, or never.
LandsLate(tx) ==
  /\ Effect(tx)
  /\ abandoned' = abandoned \ {tx}
  /\ UNCHANGED <<script, file, faults, torn>>

Expires(tx) ==
  /\ abandoned' = abandoned \ {tx}
  /\ UNCHANGED <<registryVars, configMint, script, file, faults, torn>>

\* Nothing reads the clock but a change that waits, so it stands still otherwise.
SomethingWaits == \E kind \in Kinds : SlotTaken(kind) /\ ~Due(pending[kind])

\* Between queueing the transfer and its veto, a punctual run leaves no time for
\* the delay to pass.
InTime ==
  /\ pc \in {"check_authority", "early_execute", "guardian_executes", "veto"}
  /\ SlotTaken("TransferAuthority")
  => now + 1 < pending["TransferAuthority"].eta

WalkTick ==
  /\ SomethingWaits
  /\ Punctual => InTime
  /\ RegistryTick
  /\ UNCHANGED <<configMint, script, file, abandoned, faults, torn>>

WalkNext ==
  \/ ScriptStep
  \/ Crash
  \/ TornWrite
  \/ RunAgain
  \/ \E tx \in abandoned : LandsLate(tx) \/ Expires(tx)
  \/ WalkTick

\* A process that runs goes on, its transactions are confirmed or it dies waiting,
\* the operator runs it again, and the clock goes on.
WalkFairness ==
  WF_walkVars(ScriptStep) /\ WF_walkVars(RunAgain) /\ WF_walkVars(WalkTick)

WalkSpec == WalkInit /\ [][WalkNext]_walkVars /\ WalkFairness

-----------------------------------------------------------------------------
\* Properties

\* "Persist generated keys so re-runs reuse the same builder and mint": what is on
\* chain under a generated key, the state file knows the key of, after every
\* crash.  Else the next run could not go on with it: register_builder refuses
\* another mint, and a pending transfer could not be vetoed.  A torn write is the
\* one exception: saveState rewrites the file in place.
RerunsReuseKeys ==
  ~torn =>
    /\ config # NoAccount => file.mint = configMint
    /\ \A b \in Builders : Cap!Exists(b) => file.builder = b
    /\ governance # NoAccount => file.guardian = governance.guardian

\* "A compromised multisig buys an announcement, not the registry": the transfer
\* that step 11 queues for show never takes effect, whatever is left hanging by
\* a crash and whatever lands late.
AuthorityKept == config # NoAccount => config.authority = Cli

\* "Assert a transaction fails with a specific Anchor error code": the run goes on
\* past an expected failure only if the transaction did nothing.
ExpectedFailuresFail ==
  [][ \A step \in {"guardian_resumes", "early_execute", "guardian_executes"} :
        pc = step /\ pc' = Following(step) =>
          UNCHANGED <<config, governance, pending, builder, listing, token>> ]_walkVars

\* However often the script is stopped, running it again carries the journey to
\* its end: the vault authority it saved is in force, and stays so.  Only a torn
\* write can keep it from there.
JourneyEnds ==
  <>[](torn \/ (config # NoAccount /\ config.vaultAuthority = file.vaultAuthority))
=============================================================================
