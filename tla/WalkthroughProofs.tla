-------------------------- MODULE WalkthroughProofs --------------------------
(***************************************************************************)
(* The devnet walkthrough under crashes, late transactions and re-runs:    *)
(* what it puts on chain it holds the keys of, and what it expects to fail *)
(* does nothing, for every value of the constants.                         *)
(***************************************************************************)
EXTENDS Walkthrough, GovernanceProofs

-----------------------------------------------------------------------------
\* The order of the steps

LEMMA StepsDistinct ==
  ASSUME NEW k \in 1..28, NEW n \in 1..28, Steps[k] = Steps[n]
  PROVE  k = n
  BY DEF Steps

LEMMA StepsLength == Len(Steps) = 28
  BY DEF Steps

LEMMA Position ==
  ASSUME NEW k \in 1..28
  PROVE  Following(Steps[k]) = IF k = 28 THEN "done" ELSE Steps[k + 1]
  <1> DEFINE chosen == CHOOSE n \in 1..Len(Steps) : Steps[n] = Steps[k]
  <1>1. chosen \in 1..Len(Steps) /\ Steps[chosen] = Steps[k]
    BY StepsLength
  <1>2. chosen = k
    BY <1>1, StepsDistinct, StepsLength
  <1>3. Following(Steps[k]) = IF chosen = Len(Steps) THEN "done" ELSE Steps[chosen + 1]
    BY DEF Following
  <1> QED
    BY <1>2, <1>3, StepsLength

\* The step after each step.
LEMMA Successors ==
  /\ Following("mint") = "save_mint"
  /\ Following("save_mint") = "builder"
  /\ Following("builder") = "config"
  /\ Following("config") = "register"
  /\ Following("register") = "fund"
  /\ Following("fund") = "stake"
  /\ Following("stake") = "fetch"
  /\ Following("fetch") = "submit"
  /\ Following("submit") = "check_listing"
  /\ Following("check_listing") = "approve"
  /\ Following("approve") = "check_fees"
  /\ Following("check_fees") = "guardian"
  /\ Following("guardian") = "governance"
  /\ Following("governance") = "resume"
  /\ Following("resume") = "guardian_pause"
  /\ Following("guardian_pause") = "check_paused"
  /\ Following("check_paused") = "guardian_resumes"
  /\ Following("guardian_resumes") = "builder_resumes"
  /\ Following("builder_resumes") = "reset"
  /\ Following("reset") = "queue_transfer"
  /\ Following("queue_transfer") = "check_authority"
  /\ Following("check_authority") = "early_execute"
  /\ Following("early_execute") = "guardian_executes"
  /\ Following("guardian_executes") = "veto"
  /\ Following("veto") = "check_vetoed"
  /\ Following("check_vetoed") = "vault"
  /\ Following("vault") = "check_vault"
  /\ Following("check_vault") = "done"
  <1>1. \A k \in 1..27 : Following(Steps[k]) = Steps[k + 1]
    BY Position
  <1>2. /\ Following(Steps[28]) = "done"
        /\ Following(Steps[1]) = Steps[2]
        /\ Following(Steps[2]) = Steps[3]
        /\ Following(Steps[3]) = Steps[4]
        /\ Following(Steps[4]) = Steps[5]
        /\ Following(Steps[5]) = Steps[6]
        /\ Following(Steps[6]) = Steps[7]
        /\ Following(Steps[7]) = Steps[8]
        /\ Following(Steps[8]) = Steps[9]
        /\ Following(Steps[9]) = Steps[10]
        /\ Following(Steps[10]) = Steps[11]
        /\ Following(Steps[11]) = Steps[12]
        /\ Following(Steps[12]) = Steps[13]
        /\ Following(Steps[13]) = Steps[14]
        /\ Following(Steps[14]) = Steps[15]
        /\ Following(Steps[15]) = Steps[16]
        /\ Following(Steps[16]) = Steps[17]
        /\ Following(Steps[17]) = Steps[18]
        /\ Following(Steps[18]) = Steps[19]
        /\ Following(Steps[19]) = Steps[20]
        /\ Following(Steps[20]) = Steps[21]
        /\ Following(Steps[21]) = Steps[22]
        /\ Following(Steps[22]) = Steps[23]
        /\ Following(Steps[23]) = Steps[24]
        /\ Following(Steps[24]) = Steps[25]
        /\ Following(Steps[25]) = Steps[26]
        /\ Following(Steps[26]) = Steps[27]
        /\ Following(Steps[27]) = Steps[28]
    BY <1>1, Position
  <1> QED
    BY <1>2 DEF Steps

\* Where the process waits for a transaction, and where it may move on by itself.
Sending ==
  {"config", "register", "fund", "stake", "submit", "approve", "governance", "resume",
   "guardian_pause", "guardian_resumes", "builder_resumes", "reset", "queue_transfer",
   "early_execute", "guardian_executes", "veto", "vault"}

Marching ==
  Sending \cup {"fetch", "check_listing", "check_fees", "check_paused", "check_authority",
                "check_vetoed", "check_vault"}

\* Where the script has no mint, no builder key, no guardian key yet.
NoMint == {"idle", "mint", "save_mint"}

NoBuilder == NoMint \cup {"builder"}

NoGuardian ==
  NoBuilder \cup {"config", "register", "fund", "stake", "fetch", "submit",
                  "check_listing", "approve", "check_fees", "guardian"}

\* Where a transfer of the authority is queued for show.
Exposed == {"check_authority", "early_execute", "guardian_executes", "veto"}

LEMMA March ==
  ASSUME NEW p \in Marching
  PROVE  /\ Following(p) \notin NoBuilder
         /\ p \in NoGuardian <=> Following(p) \in NoGuardian
         /\ Following(p) \in Exposed => p \in Exposed \cup {"queue_transfer"}
         /\ Following(p) # p
  BY Successors DEF Marching, Sending, NoMint, NoBuilder, NoGuardian, Exposed

-----------------------------------------------------------------------------
\* What the process keeps, and what it sends

SavedState ==
  [mint : Mints \cup {None}, builder : BuilderKeys \cup {None},
   guardian : GuardianKeys \cup {None}, vaultAuthority : VaultKeys \cup {None}]

\* A transaction of the script is signed with its keys and says what it should.
Proper(tx) ==
  /\ tx.op = "initialize_config" => tx.signer = Cli /\ tx.key \in Mints
  /\ tx.op = "register_builder" => tx.builder \in BuilderKeys
  /\ tx.op = "initialize_governance" => tx.signer = Cli /\ tx.key \in GuardianKeys
  /\ tx.op = "queue_transfer_authority" => tx.signer = Cli /\ tx.key = Throwaway
  /\ tx.op = "queue_set_vault_authority" => tx.signer = Cli /\ tx.key \in VaultKeys
  /\ tx.op \in {"execute_change", "veto_change"} => tx.signer \in Keys /\ tx.key \in Kinds

\* What is sent where the theorems look.
SentFrom(p, tx) ==
  /\ p = "queue_transfer" => tx.op = "queue_transfer_authority"
  /\ p = "guardian_resumes" =>
       tx.op = "resume_listing" /\ tx.signer \in GuardianKeys /\ tx.builder \in Builders
  /\ p \in {"early_execute", "guardian_executes"} =>
       tx.op = "execute_change" /\ tx.key = "TransferAuthority"
  /\ p = "guardian_executes" => tx.signer \in GuardianKeys
  /\ tx.op = "execute_change" =>
       p \in {"early_execute", "guardian_executes"} \/ tx.key = "SetVaultAuthority"

\* A transaction that creates an account does it with the keys in a state.
From(tx, state) ==
  /\ tx.op = "initialize_config" => tx.key = state.mint
  /\ tx.op = "register_builder" => tx.builder = state.builder
  /\ tx.op = "initialize_governance" => tx.key = state.guardian

ScriptInv ==
  /\ mem \in SavedState /\ file \in SavedState
  /\ pc \notin {"idle", "save_mint"} => mem = file
  /\ pc = "save_mint" => mem.mint # None /\ file = [mem EXCEPT !.mint = None]
  /\ pc \notin NoMint => file.mint # None
  /\ pc \notin NoBuilder => file.builder # None
  /\ pc \notin NoGuardian => file.guardian # None
  /\ awaited # None => pc \in Sending /\ SentFrom(pc, awaited) /\ Proper(awaited)
  /\ \A tx \in abandoned : Proper(tx)

\* The ways a step may go.
Sends(tx) ==
  /\ awaited = None
  /\ pc \in Sending
  /\ SentFrom(pc, tx) /\ Proper(tx) /\ From(tx, file)
  /\ Accepted(tx)
  /\ awaited' = tx
  /\ UNCHANGED <<registryVars, configMint, pc, mem, file, abandoned, torn>>

\* The process goes on, ends its run, or stays, and writes nothing.
Walks ==
  /\ awaited = None /\ awaited' = None
  /\ pc' \in {pc, "idle"} \/ (pc \in Marching \ {"queue_transfer"} /\ pc' = Following(pc))
  /\ UNCHANGED <<registryVars, configMint, mem, file, abandoned, torn>>

LEMMA SendShape ==
  ASSUME NEW tx, awaited = None, pc \in Sending,
         SentFrom(pc, tx), Proper(tx), From(tx, file), Sent(tx)
  PROVE  Walks \/ Sends(tx)
  BY DEF Sent, Sends, Walks

LEMMA PassShape ==
  ASSUME awaited = None, pc \in Marching \ {"queue_transfer"}, Pass
  PROVE  Walks
  BY DEF Pass, Goes, Walks

\* The process at a step that sends its transaction, or passes it over.
Fit(tx) == SentFrom(pc, tx) /\ Proper(tx) /\ From(tx, file)

LEMMA StepShape ==
  ASSUME NEW step \in Sending, NEW tx, At(step), Fit(tx),
         Sent(tx) \/ Send(tx) \/ (Pass /\ step # "queue_transfer")
  PROVE  Walks \/ \E t : Sends(t)
  BY SendShape, PassShape DEF At, Fit, Marching, Send

\* What the memory of the process holds where it sends.
LEMMA Held ==
  ASSUME ScriptInv, pc \in Sending
  PROVE  /\ mem = file
         /\ mem.mint \in Mints
         /\ mem.builder \in BuilderKeys /\ mem.builder \in Builders
         /\ pc \notin NoGuardian => mem.guardian \in GuardianKeys
  BY ScriptAssumption
     DEF ScriptInv, SavedState, Sending, NoMint, NoBuilder

LEMMA FoundBuilderShape ==
  ASSUME ScriptInv, FoundBuilder
  PROVE  Walks \/ \E tx : Sends(tx)
  <1>1. CASE Ensure("config", config # NoAccount,
                Tx("initialize_config", Cli, mem.mint))
    <2> DEFINE tx == Tx("initialize_config", Cli, mem.mint)
    <2>1. At("config") /\ (Pass \/ Send(tx))
      BY <1>1 DEF Ensure
    <2>2. Fit(tx)
      BY <2>1, Held, ScriptAssumption
         DEF At, Tx, Fit, SentFrom, Proper, From, Sending, Kinds, NoMint, NoBuilder, NoGuardian
    <2> QED
      BY <2>1, <2>2, StepShape DEF Sending
  <1>2. CASE Ensure("register", Cap!Exists(mem.builder),
                Tx("register_builder", mem.builder, mem.mint))
    <2> DEFINE tx == Tx("register_builder", mem.builder, mem.mint)
    <2>1. At("register") /\ (Pass \/ Send(tx))
      BY <1>2 DEF Ensure
    <2>2. Fit(tx)
      BY <2>1, Held, ScriptAssumption
         DEF At, Tx, Fit, SentFrom, Proper, From, Sending, Kinds, NoMint, NoBuilder, NoGuardian
    <2> QED
      BY <2>1, <2>2, StepShape DEF Sending
  <1>3. CASE Ensure("fund", token[Ata[mem.builder]] >= TierSetup.bonds[1],
                Tx("mint_to", Cli, mem.mint))
    <2> DEFINE tx == Tx("mint_to", Cli, mem.mint)
    <2>1. At("fund") /\ (Pass \/ Send(tx))
      BY <1>3 DEF Ensure
    <2>2. Fit(tx)
      BY <2>1, Held, ScriptAssumption
         DEF At, Tx, Fit, SentFrom, Proper, From, Sending, Kinds, NoMint, NoBuilder, NoGuardian
    <2> QED
      BY <2>1, <2>2, StepShape DEF Sending
  <1>4. CASE Ensure("stake", builder[mem.builder].tier >= 1,
                Tx("stake_bond", mem.builder, None))
    <2> DEFINE tx == Tx("stake_bond", mem.builder, None)
    <2>1. At("stake") /\ (Pass \/ Send(tx))
      BY <1>4 DEF Ensure
    <2>2. Fit(tx)
      BY <2>1, Held, ScriptAssumption
         DEF At, Tx, Fit, SentFrom, Proper, From, Sending, Kinds, NoMint, NoBuilder, NoGuardian
    <2> QED
      BY <2>1, <2>2, StepShape DEF Sending
  <1> QED
    BY <1>1, <1>2, <1>3, <1>4 DEF FoundBuilder

LEMMA ListAgentShape ==
  ASSUME ScriptInv, ListAgent
  PROVE  Walks \/ \E tx : Sends(tx)
  <1>1. CASE Ensure("submit",
                fetched.index \in Cap!Indices /\ Cap!HasListing(mem.builder, fetched.index),
                Tx("submit_listing", mem.builder, builder[mem.builder].agentCount))
    <2> DEFINE tx == Tx("submit_listing", mem.builder, builder[mem.builder].agentCount)
    <2>1. At("submit") /\ (Pass \/ Send(tx))
      BY <1>1 DEF Ensure
    <2>2. Fit(tx)
      BY <2>1, Held, ScriptAssumption
         DEF At, Tx, Fit, SentFrom, Proper, From, Sending, Kinds, NoMint, NoBuilder, NoGuardian
    <2> QED
      BY <2>1, <2>2, StepShape DEF Sending
  <1>2. CASE Ensure("approve", Listing.status = "Live",
                Tx("approve_listing", Cli, None))
    <2> DEFINE tx == Tx("approve_listing", Cli, None)
    <2>1. At("approve") /\ (Pass \/ Send(tx))
      BY <1>2 DEF Ensure
    <2>2. Fit(tx)
      BY <2>1, Held, ScriptAssumption
         DEF At, Tx, Fit, SentFrom, Proper, From, Sending, Kinds, NoMint, NoBuilder, NoGuardian
    <2> QED
      BY <2>1, <2>2, StepShape DEF Sending
  <1>3. CASE Check("check_fees", Listing.status = "Live" /\ Listing.fees = LaunchDefaults)
    BY <1>3 DEF Check, At, Goes, Walks, Marching
  <1>4. CASE Check("check_listing", Listing.status \in {"Vetting", "Live"})
    BY <1>4 DEF Check, At, Goes, Walks, Marching
  <1> QED
    BY <1>1, <1>2, <1>3, <1>4 DEF ListAgent

LEMMA StopAndRestartShape ==
  ASSUME ScriptInv, StopAndRestart
  PROVE  Walks \/ \E tx : Sends(tx)
  <1>1. CASE Ensure("governance", governance # NoAccount,
                Tx("initialize_governance", Cli, mem.guardian))
    <2> DEFINE tx == Tx("initialize_governance", Cli, mem.guardian)
    <2>1. At("governance") /\ (Pass \/ Send(tx))
      BY <1>1 DEF Ensure
    <2>2. Fit(tx)
      BY <2>1, Held, ScriptAssumption
         DEF At, Tx, Fit, SentFrom, Proper, From, Sending, Kinds, NoMint, NoBuilder, NoGuardian
    <2> QED
      BY <2>1, <2>2, StepShape DEF Sending
  <1>2. CASE Ensure("resume", Listing.status = "Live",
                Tx("resume_listing", mem.builder, None))
    <2> DEFINE tx == Tx("resume_listing", mem.builder, None)
    <2>1. At("resume") /\ (Pass \/ Send(tx))
      BY <1>2 DEF Ensure
    <2>2. Fit(tx)
      BY <2>1, Held, ScriptAssumption
         DEF At, Tx, Fit, SentFrom, Proper, From, Sending, Kinds, NoMint, NoBuilder, NoGuardian
    <2> QED
      BY <2>1, <2>2, StepShape DEF Sending
  <1>3. CASE Do("guardian_pause", Tx("guardian_pause_listing", mem.guardian, None))
    <2> DEFINE tx == Tx("guardian_pause_listing", mem.guardian, None)
    <2>1. At("guardian_pause") /\ Send(tx)
      BY <1>3 DEF Do
    <2>2. Fit(tx)
      BY <2>1, Held, ScriptAssumption
         DEF At, Tx, Fit, SentFrom, Proper, From, Sending, Kinds, NoMint, NoBuilder, NoGuardian
    <2> QED
      BY <2>1, <2>2, StepShape DEF Sending
  <1>4. CASE ExpectFail("guardian_resumes", Tx("resume_listing", mem.guardian, None),
                    "Unauthorized")
    <2> DEFINE tx == Tx("resume_listing", mem.guardian, None)
    <2>1. At("guardian_resumes") /\ (Pass \/ Send(tx))
      BY <1>4 DEF ExpectFail
    <2>2. Fit(tx)
      BY <2>1, Held, ScriptAssumption
         DEF At, Tx, Fit, SentFrom, Proper, From, Sending, Kinds, NoMint, NoBuilder, NoGuardian
    <2> QED
      BY <2>1, <2>2, StepShape DEF Sending
  <1>5. CASE Do("builder_resumes", Tx("resume_listing", mem.builder, None))
    <2> DEFINE tx == Tx("resume_listing", mem.builder, None)
    <2>1. At("builder_resumes") /\ Send(tx)
      BY <1>5 DEF Do
    <2>2. Fit(tx)
      BY <2>1, Held, ScriptAssumption
         DEF At, Tx, Fit, SentFrom, Proper, From, Sending, Kinds, NoMint, NoBuilder, NoGuardian
    <2> QED
      BY <2>1, <2>2, StepShape DEF Sending
  <1>6. CASE Check("check_paused", Listing.status = "Paused")
    BY <1>6 DEF Check, At, Goes, Walks, Marching
  <1> QED
    BY <1>1, <1>2, <1>3, <1>4, <1>5, <1>6 DEF StopAndRestart

LEMMA AnnounceAndVetoShape ==
  ASSUME ScriptInv, AnnounceAndVeto
  PROVE  Walks \/ \E tx : Sends(tx)
  <1>1. CASE Ensure("reset", ~Leftover("TransferAuthority"),
                Tx("veto_change", mem.guardian, "TransferAuthority"))
    <2> DEFINE tx == Tx("veto_change", mem.guardian, "TransferAuthority")
    <2>1. At("reset") /\ (Pass \/ Send(tx))
      BY <1>1 DEF Ensure
    <2>2. Fit(tx)
      BY <2>1, Held, ScriptAssumption
         DEF At, Tx, Fit, SentFrom, Proper, From, Sending, Kinds, NoMint, NoBuilder, NoGuardian
    <2> QED
      BY <2>1, <2>2, StepShape DEF Sending
  <1>2. CASE Do("queue_transfer", Tx("queue_transfer_authority", Cli, Throwaway))
    <2> DEFINE tx == Tx("queue_transfer_authority", Cli, Throwaway)
    <2>1. At("queue_transfer") /\ Send(tx)
      BY <1>2 DEF Do
    <2>2. Fit(tx)
      BY <2>1, Held, ScriptAssumption
         DEF At, Tx, Fit, SentFrom, Proper, From, Sending, Kinds, NoMint, NoBuilder, NoGuardian
    <2> QED
      BY <2>1, <2>2, StepShape DEF Sending
  <1>3. CASE Check("check_authority", config.authority = Cli)
    BY <1>3 DEF Check, At, Goes, Walks, Marching
  <1>4. CASE ExpectFail("early_execute", Tx("execute_change", Cli, "TransferAuthority"),
                    "TimelockNotElapsed")
    <2> DEFINE tx == Tx("execute_change", Cli, "TransferAuthority")
    <2>1. At("early_execute") /\ (Pass \/ Send(tx))
      BY <1>4 DEF ExpectFail
    <2>2. Fit(tx)
      BY <2>1, Held, ScriptAssumption
         DEF At, Tx, Fit, SentFrom, Proper, From, Sending, Kinds, NoMint, NoBuilder, NoGuardian
    <2> QED
      BY <2>1, <2>2, StepShape DEF Sending
  <1>5. CASE ExpectFail("guardian_executes", Tx("execute_change", mem.guardian, "TransferAuthority"),
                    "Unauthorized")
    <2> DEFINE tx == Tx("execute_change", mem.guardian, "TransferAuthority")
    <2>1. At("guardian_executes") /\ (Pass \/ Send(tx))
      BY <1>5 DEF ExpectFail
    <2>2. Fit(tx)
      BY <2>1, Held, ScriptAssumption
         DEF At, Tx, Fit, SentFrom, Proper, From, Sending, Kinds, NoMint, NoBuilder, NoGuardian
    <2> QED
      BY <2>1, <2>2, StepShape DEF Sending
  <1>6. CASE Do("veto", Tx("veto_change", mem.guardian, "TransferAuthority"))
    <2> DEFINE tx == Tx("veto_change", mem.guardian, "TransferAuthority")
    <2>1. At("veto") /\ Send(tx)
      BY <1>6 DEF Do
    <2>2. Fit(tx)
      BY <2>1, Held, ScriptAssumption
         DEF At, Tx, Fit, SentFrom, Proper, From, Sending, Kinds, NoMint, NoBuilder, NoGuardian
    <2> QED
      BY <2>1, <2>2, StepShape DEF Sending
  <1>7. CASE Check("check_vetoed", ~SlotTaken("TransferAuthority"))
    BY <1>7 DEF Check, At, Goes, Walks, Marching
  <1> QED
    BY <1>1, <1>2, <1>3, <1>4, <1>5, <1>6, <1>7 DEF AnnounceAndVeto

LEMMA FetchShape ==
  ASSUME FetchBuilder
  PROVE  Walks
  BY DEF FetchBuilder, At, Goes, Walks, Marching

\* The last step: the vault authority is set, executed or queued.
NewVaultKey ==
  /\ pc = "vault" /\ awaited = None
  /\ \E key \in VaultKeys : mem' = [mem EXCEPT !.vaultAuthority = key] /\ file' = mem'
  /\ UNCHANGED <<registryVars, configMint, pc, awaited, abandoned, torn>>

LEMMA VaultShape ==
  ASSUME ScriptInv, ExecuteVaultChange \/ QueueVaultChange \/ VaultAuthorityIsSet
  PROVE  Walks \/ NewVaultKey \/ \E tx : Sends(tx)
  <1>0. At("vault") /\ "vault" \in Sending
    BY DEF ExecuteVaultChange, QueueVaultChange, VaultAuthorityIsSet, Sending
  <1>1. CASE Pass
    BY <1>0, <1>1, PassShape DEF At, Marching
  <1>2. CASE Sent(Tx("execute_change", Cli, "SetVaultAuthority"))
    <2> DEFINE tx == Tx("execute_change", Cli, "SetVaultAuthority")
    <2>1. Fit(tx)
      BY <1>0, ScriptAssumption DEF At, Tx, Fit, SentFrom, Proper, From, Kinds
    <2> QED
      BY <1>0, <1>2, <2>1, StepShape
  <1>3. CASE /\ pc' \in {"idle", Following(pc)} /\ awaited' = awaited
             /\ UNCHANGED <<registryVars, configMint, mem, file, abandoned, torn>>
    BY <1>0, <1>3 DEF At, Walks, Marching
  <1>4. CASE /\ mem.vaultAuthority # None
             /\ Send(Tx("queue_set_vault_authority", Cli, mem.vaultAuthority))
    <2> DEFINE tx == Tx("queue_set_vault_authority", Cli, mem.vaultAuthority)
    <2>1. Fit(tx)
      BY <1>0, <1>4 DEF At, Tx, Fit, SentFrom, Proper, From, ScriptInv, SavedState
    <2> QED
      BY <1>0, <1>4, <2>1, StepShape
  <1>5. ASSUME QueueVaultChange, mem.vaultAuthority = None
        PROVE  NewVaultKey
    <2>1. Fresh(VaultKeys) \in VaultKeys
      BY <1>5 DEF QueueVaultChange, Fresh
    <2> QED
      BY <1>0, <1>5, <2>1 DEF QueueVaultChange, Saved, At, NewVaultKey
  <1>6. CASE ExecuteVaultChange
    BY <1>1, <1>2, <1>3, <1>6 DEF ExecuteVaultChange
  <1>7. CASE QueueVaultChange
    BY <1>4, <1>5, <1>7 DEF QueueVaultChange
  <1>8. CASE VaultAuthorityIsSet
    BY <1>1, <1>8 DEF VaultAuthorityIsSet
  <1> QED
    BY <1>6, <1>7, <1>8

LEMMA CheckVaultShape ==
  ASSUME CheckVaultAuthority
  PROVE  Walks
  BY DEF CheckVaultAuthority, Check, At, Goes, Walks, Marching

\* Where a key comes from.
NewKey(step, field, pool) ==
  /\ pc = step /\ awaited = None /\ awaited' = None
  /\ pc' = Following(step)
  /\ \/ mem[field] # None /\ UNCHANGED <<mem, file>>
     \/ /\ mem[field] = None
        /\ \E key \in pool : mem' = [mem EXCEPT ![field] = key] /\ file' = mem'
  /\ UNCHANGED <<registryVars, configMint, abandoned, torn>>

LEMMA GenerateShape ==
  ASSUME NEW step, NEW field, NEW pool, GenerateKey(step, field, pool)
  PROVE  NewKey(step, field, pool)
  <1>1. CASE mem[field] # None
    BY <1>1 DEF GenerateKey, NewKey, At, Goes
  <1>2. CASE mem[field] = None
    <2>1. Fresh(pool) \in pool
      BY <1>2 DEF GenerateKey, Fresh
    <2> QED
      BY <1>2, <2>1 DEF GenerateKey, NewKey, At, Goes, Saved
  <1> QED
    BY <1>1, <1>2

\* The mint is in memory before it is in the file.
NewMint ==
  /\ pc = "mint" /\ awaited = None /\ awaited' = None
  /\ \/ mem.mint # None /\ pc' = "builder" /\ mem' = mem
     \/ /\ mem.mint = None /\ pc' = "save_mint"
        /\ \E key \in Mints : mem' = [mem EXCEPT !.mint = key]
  /\ UNCHANGED <<registryVars, configMint, file, abandoned, torn>>

SavesMint ==
  /\ pc = "save_mint" /\ awaited = None /\ awaited' = None
  /\ pc' = "builder" /\ file' = mem
  /\ UNCHANGED <<registryVars, configMint, mem, abandoned, torn>>

LEMMA MintShape ==
  ASSUME CreateMint \/ SaveMint
  PROVE  NewMint \/ SavesMint
  <1>1. CASE CreateMint
    <2>1. ASSUME mem.mint = None PROVE Fresh(Mints) \in Mints
      BY <1>1, <2>1 DEF CreateMint, Fresh
    <2> QED
      BY <1>1, <2>1, Successors DEF CreateMint, NewMint, At, Goes
  <1>2. CASE SaveMint
    BY <1>2, Successors DEF SaveMint, SavesMint, Saved, At, Goes
  <1> QED
    BY <1>1, <1>2

\* A transaction lands while the process waits for it.
Lands ==
  /\ awaited # None /\ awaited' = None
  /\ Effect(awaited)
  /\ pc' = Following(pc)
  /\ UNCHANGED <<mem, file, abandoned, torn>>

\* A run ends: refused, or dead with its transaction on the way.
Ends ==
  /\ pc' = "idle" /\ awaited' = None
  /\ \A tx \in abandoned' : tx \in abandoned \/ (tx = awaited /\ awaited # None)
  /\ UNCHANGED <<registryVars, configMint, mem>>
  /\ UNCHANGED <<file, torn>> \/ (torn' = TRUE /\ file' = NothingSaved)

LEMMA EndShape ==
  ASSUME Confirm \/ Crash \/ TornWrite
  PROVE  Lands \/ Ends
  <1>1. CASE Confirm
    BY <1>1 DEF Confirm, Goes, Lands, Ends
  <1>2. CASE Crash
    BY <1>2 DEF Crash, Dies, Ends
  <1>3. CASE TornWrite
    BY <1>3 DEF TornWrite, Dies, Ends
  <1> QED
    BY <1>1, <1>2, <1>3

\* A step goes one of these ways.
LEMMA WalkShape ==
  ASSUME ScriptInv, [WalkNext]_walkVars
  PROVE  \/ Walks
         \/ \E tx : Sends(tx)
         \/ NewMint
         \/ SavesMint
         \/ NewKey("builder", "builder", BuilderKeys)
         \/ NewKey("guardian", "guardian", GuardianKeys)
         \/ NewVaultKey
         \/ Lands
         \/ Ends
         \/ RunAgain
         \/ \E tx \in abandoned : LandsLate(tx) \/ Expires(tx)
         \/ WalkTick
         \/ UNCHANGED walkVars
  <1>1. CASE ScriptStep
    BY <1>1, MintShape, GenerateShape, FoundBuilderShape, FetchShape, ListAgentShape,
       StopAndRestartShape, AnnounceAndVetoShape, VaultShape, CheckVaultShape, EndShape
       DEF ScriptStep
  <1> QED
    BY <1>1, EndShape DEF WalkNext

-----------------------------------------------------------------------------
\* The invariant of the process itself, torn writes or not

LEMMA ScriptInit == WalkInit => ScriptInv
  BY DEF WalkInit, ScriptInv, NothingSaved, SavedState, NoMint, NoBuilder, NoGuardian

LEMMA ScriptStepInv ==
  ASSUME ScriptInv, [WalkNext]_walkVars
  PROVE  ScriptInv'
  <1> USE DEF NoMint, NoBuilder, NoGuardian
  <1>1. CASE Walks
    <2>1. CASE pc' \in {pc, "idle"}
      BY <1>1, <2>1 DEF Walks, ScriptInv
    <2>2. CASE pc \in Marching /\ pc' = Following(pc)
      <3>1. pc \notin NoBuilder
        BY <2>2 DEF Marching, Sending
      <3>2. pc' \notin NoBuilder /\ (pc' \in NoGuardian <=> pc \in NoGuardian)
        BY <2>2, March
      <3> QED
        BY <1>1, <3>1, <3>2 DEF Walks, ScriptInv
    <2> QED
      BY <1>1, <2>1, <2>2 DEF Walks
  <1>2. ASSUME NEW tx, Sends(tx) PROVE ScriptInv'
    BY <1>2 DEF Sends, ScriptInv, Proper, SentFrom
  <1>3. CASE NewMint
    BY <1>3, ScriptAssumption DEF NewMint, ScriptInv, SavedState
  <1>4. CASE SavesMint
    BY <1>4 DEF SavesMint, ScriptInv, SavedState
  <1>5. CASE NewKey("builder", "builder", BuilderKeys)
    BY <1>5, Successors, ScriptAssumption DEF NewKey, ScriptInv, SavedState
  <1>6. CASE NewKey("guardian", "guardian", GuardianKeys)
    BY <1>6, Successors, ScriptAssumption DEF NewKey, ScriptInv, SavedState
  <1>7. CASE NewVaultKey
    BY <1>7, ScriptAssumption DEF NewVaultKey, ScriptInv, SavedState
  <1>8. CASE Lands
    <2>1. pc \in Sending /\ pc \in Marching
      BY <1>8 DEF Lands, ScriptInv, Marching
    <2>2. pc' \notin NoBuilder /\ (pc' \in NoGuardian <=> pc \in NoGuardian)
      BY <1>8, <2>1, March DEF Lands
    <2> QED
      BY <1>8, <2>1, <2>2 DEF Lands, ScriptInv, Sending
  <1>9. CASE Ends
    BY <1>9 DEF Ends, ScriptInv, Proper, NothingSaved, SavedState
  <1>10. CASE RunAgain
    BY <1>10 DEF RunAgain, ScriptInv, Sending
  <1>11. ASSUME NEW tx \in abandoned, LandsLate(tx) \/ Expires(tx) PROVE ScriptInv'
    BY <1>11 DEF LandsLate, Expires, script, ScriptInv, Proper, SentFrom
  <1>12. CASE WalkTick \/ UNCHANGED walkVars
    BY <1>12 DEF WalkTick, walkVars, script, ScriptInv, Proper, SentFrom
  <1> QED
    BY <1>1, <1>2, <1>3, <1>4, <1>5, <1>6, <1>7, <1>8, <1>9, <1>10, <1>11, <1>12, WalkShape

\* What the process holds in memory, what it waits for and what it left behind fit
\* the step it is at, crashes, torn writes and re-runs included.
THEOREM ScriptInvariance == WalkSpec => []ScriptInv
  BY ScriptInit, ScriptStepInv, PTL DEF WalkSpec

-----------------------------------------------------------------------------
\* What a transaction does when it lands

\* Nothing of Governance's.
GovernanceKept == UNCHANGED <<now, config, governance, pending, configMint>>

EconomicOps ==
  {"register_builder", "mint_to", "stake_bond", "submit_listing", "approve_listing",
   "resume_listing", "guardian_pause_listing"}

LEMMA EconomicEffect ==
  ASSUME NEW tx, Effect(tx),
         tx.op \in EconomicOps
  PROVE  /\ GovernanceKept
         /\ \/ builder' = builder
            \/ /\ tx.op = "register_builder"
               /\ tx.key = configMint /\ config # NoAccount
               /\ \E account : builder' = [builder EXCEPT ![tx.builder] = account]
            \/ /\ Cap!Exists(tx.builder)
               /\ \E account : builder' = [builder EXCEPT ![tx.builder] = account]
  <1> USE DEF GovernanceKept, Economic
  <1>1. CASE tx.op = "register_builder"
    BY <1>1 DEF Effect, Cap!RegisterBuilder
  <1>2. CASE tx.op = "mint_to"
    BY <1>2 DEF Effect
  <1>3. CASE tx.op = "stake_bond"
    BY <1>3 DEF Effect, Cap!StakeBond
  <1>4. CASE tx.op = "submit_listing"
    <2>1. Cap!SubmitListing(tx.builder, Bot) /\ UNCHANGED <<pending, configMint>>
      BY <1>4 DEF Effect
    <2>2. /\ UNCHANGED <<now, config, governance>>
          /\ Cap!Exists(tx.builder)
          /\ \E account : builder' = [builder EXCEPT ![tx.builder] = account]
      BY <2>1 DEF Cap!SubmitListing
    <2> QED
      BY <2>1, <2>2
  <1>5. CASE tx.op = "approve_listing"
    <2>1. Cap!ApproveListing(tx.signer, tx.builder, tx.index, LaunchDefaults)
          /\ UNCHANGED <<pending, configMint>>
      BY <1>5 DEF Effect
    <2> QED
      BY <2>1 DEF Cap!ApproveListing
  <1>6. CASE tx.op \in {"resume_listing", "guardian_pause_listing"}
    BY <1>6 DEF Effect, Cap!ResumeListing, Cap!GuardianPauseListing, Cap!MoveTo
  <1> QED
    BY <1>1, <1>2, <1>3, <1>4, <1>5, <1>6 DEF EconomicOps

\* One of Governance's.
GovernanceMoved(tx) ==
  /\ \/ /\ tx.op = "initialize_config"
        /\ InitializeConfig(Cli, TierSetup, UnbondPeriod)
        /\ configMint' = tx.key
     \/ /\ tx.op # "initialize_config"
        /\ configMint' = configMint
        /\ \/ tx.op = "initialize_governance" /\ InitializeGovernance(Cli, tx.key, Delay)
           \/ /\ tx.op = "queue_transfer_authority"
              /\ QueueTransferAuthority(Cli, "TransferAuthority", Throwaway)
           \/ /\ tx.op = "queue_set_vault_authority"
              /\ QueueSetVaultAuthority(Cli, "SetVaultAuthority", tx.key)
           \/ tx.op = "execute_change" /\ ExecuteChange(tx.signer, tx.key)
           \/ tx.op = "veto_change" /\ VetoChange(tx.signer, tx.key)
  /\ builder' = builder

LEMMA PrivilegedEffect ==
  ASSUME NEW tx, Proper(tx), Effect(tx),
         tx.op \notin EconomicOps
  PROVE  GovernanceMoved(tx)
  BY DEF Effect, Privileged, Proper, GovernanceMoved, EconomicOps

LEMMA EffectIsGoverned ==
  ASSUME NEW tx, Proper(tx), Effect(tx)
  PROVE  [Next]_vars
  <1>1. CASE GovernanceKept
    BY <1>1 DEF GovernanceKept, vars
  <1>2. CASE GovernanceMoved(tx)
    <2>1. CASE tx.op = "initialize_config"
      <3>1. InitializeConfig(Cli, TierSetup, UnbondPeriod)
        BY <1>2, <2>1 DEF GovernanceMoved
      <3> QED
        BY <3>1, ScriptAssumption DEF Next, Instruction, AnyKey
    <2>2. CASE tx.op = "initialize_governance"
      <3>1. InitializeGovernance(Cli, tx.key, Delay) /\ tx.key \in AnyKey
        BY <1>2, <2>2, ScriptAssumption DEF GovernanceMoved, Proper, AnyKey
      <3> QED
        BY <3>1, ScriptAssumption DEF Next, Instruction
    <2>3. CASE tx.op = "queue_transfer_authority"
      <3>1. QueueTransferAuthority(Cli, "TransferAuthority", Throwaway)
        BY <1>2, <2>3 DEF GovernanceMoved
      <3> QED
        BY <3>1, ScriptAssumption DEF Next, Instruction, AnyKey, Kinds
    <2>4. CASE tx.op = "queue_set_vault_authority"
      <3>1. QueueSetVaultAuthority(Cli, "SetVaultAuthority", tx.key) /\ tx.key \in AnyKey
        BY <1>2, <2>4, ScriptAssumption DEF GovernanceMoved, Proper, AnyKey
      <3> QED
        BY <3>1, ScriptAssumption DEF Next, Instruction, Kinds
    <2>5. CASE tx.op \in {"execute_change", "veto_change"}
      <3>1. ExecuteChange(tx.signer, tx.key) \/ VetoChange(tx.signer, tx.key)
        BY <1>2, <2>5 DEF GovernanceMoved
      <3>2. tx.signer \in Keys /\ tx.key \in Kinds
        BY <2>5 DEF Proper
      <3> QED
        BY <3>1, <3>2 DEF Next, Instruction
    <2> QED
      BY <1>2, <2>1, <2>2, <2>3, <2>4, <2>5 DEF GovernanceMoved
  <1> QED
    BY <1>1, <1>2, EconomicEffect, PrivilegedEffect

LEMMA WalkIsGoverned ==
  ASSUME ScriptInv, [WalkNext]_walkVars
  PROVE  [Next]_vars
  <1>1. CASE UNCHANGED registryVars
    BY <1>1 DEF registryVars, vars
  <1>2. CASE Lands
    BY <1>2, EffectIsGoverned DEF Lands, ScriptInv
  <1>3. CASE \E tx \in abandoned : LandsLate(tx)
    BY <1>3, EffectIsGoverned DEF LandsLate, ScriptInv
  <1>4. CASE WalkTick
    BY <1>4 DEF WalkTick, RegistryTick, Next
  <1> QED
    BY <1>1, <1>2, <1>3, <1>4, WalkShape
       DEF Walks, Sends, NewMint, SavesMint, NewKey, NewVaultKey, Ends, RunAgain, Expires,
           walkVars

\* The script only does with the registry's governance what the program lets it do,
\* with the arguments that Governance allows for, so what is proved of Governance
\* holds along every walkthrough, crashes, re-runs and late transactions included.
THEOREM WalkthroughIsGoverned == WalkSpec => ImplementsGovernance
  <1>1. WalkInit => Init
    BY DEF WalkInit, RegistryInit
  <1> QED
    BY <1>1, WalkIsGoverned, ScriptInvariance, PTL DEF WalkSpec, ImplementsGovernance, Spec

LEMMA WalkthroughGovernance == WalkSpec => []IInv
  BY WalkthroughIsGoverned, Invariance, PTL DEF ImplementsGovernance

-----------------------------------------------------------------------------
\* What is on chain, and in the file

\* What is on its way creates accounts with the keys in the file, too.
OnChain ==
  /\ config # NoAccount => configMint # None /\ configMint = file.mint
  /\ \A b \in Builders : Cap!Exists(b) => b # None /\ file.builder = b
  /\ governance # NoAccount => governance.guardian # None /\ file.guardian = governance.guardian

OnTheWay ==
  /\ awaited # None => From(awaited, file) /\ Proper(awaited)
  /\ \A tx \in abandoned : From(tx, file) /\ Proper(tx)

KeyInv == DOMAIN builder = Builders /\ (~torn => OnChain /\ OnTheWay)

LEMMA KeyInit == WalkInit => KeyInv
  BY DEF WalkInit, RegistryInit, Init, Cap!Init, Cap!Exists, KeyInv, OnChain, OnTheWay

\* Whatever lands, accounts are created with the keys in the file.
LEMMA EffectKeeps ==
  ASSUME DOMAIN builder = Builders, NEW tx, Effect(tx), Proper(tx), UNCHANGED file
  PROVE  /\ DOMAIN builder' = Builders
         /\ OnChain /\ From(tx, file) => OnChain'
  <1>1. CASE GovernanceKept
    <2>1. CASE builder' = builder
      BY <1>1, <2>1 DEF GovernanceKept, OnChain, Cap!Exists
    <2>2. ASSUME NEW account, builder' = [builder EXCEPT ![tx.builder] = account],
                 Cap!Exists(tx.builder) \/ tx.op = "register_builder"
          PROVE  /\ DOMAIN builder' = Builders
                 /\ OnChain /\ From(tx, file) => OnChain'
      <3>1. DOMAIN builder' = Builders
        BY <2>2
      <3>2. ASSUME NEW b \in Builders, builder'[b] # NoAccount, OnChain, From(tx, file)
            PROVE  b # None /\ file.builder = b
        <4>1. CASE b # tx.builder
          BY <2>2, <3>2, <4>1 DEF OnChain, Cap!Exists
        <4>2. CASE b = tx.builder /\ tx.op = "register_builder"
          BY <3>2, <4>2, ScriptAssumption DEF From, Proper
        <4>3. CASE b = tx.builder /\ Cap!Exists(tx.builder)
          BY <3>2, <4>3 DEF OnChain
        <4> QED
          BY <2>2, <4>1, <4>2, <4>3
      <3> QED
        BY <1>1, <3>1, <3>2 DEF GovernanceKept, OnChain, Cap!Exists
    <2> QED
      BY <1>1, <2>1, <2>2, EconomicEffect, PrivilegedEffect DEF GovernanceMoved
  <1>2. CASE GovernanceMoved(tx)
    <2>1. CASE tx.op = "initialize_config"
      BY <1>2, <2>1, ScriptAssumption
         DEF GovernanceMoved, InitializeConfig, Proper, From, OnChain, Cap!Exists
    <2>2. CASE tx.op = "initialize_governance"
      BY <1>2, <2>2, ScriptAssumption
         DEF GovernanceMoved, InitializeGovernance, Proper, From, OnChain, Cap!Exists
    <2>3. CASE tx.op \notin {"initialize_config", "initialize_governance"}
      <3>1. /\ UNCHANGED <<governance, configMint, builder>>
            /\ config # NoAccount \/ UNCHANGED config
        BY <1>2, <2>3
           DEF GovernanceMoved, QueueTransferAuthority, QueueSetVaultAuthority, Queue,
               ExecuteChange, VetoChange, SignedByAuthority
      <3> QED
        BY <3>1 DEF OnChain, Cap!Exists
    <2> QED
      BY <2>1, <2>2, <2>3
  <1> QED
    BY <1>1, <1>2, EconomicEffect, PrivilegedEffect

\* What the file holds stays there: keys are only added to it.
LEMMA FileGrows ==
  ASSUME OnChain, OnTheWay, UNCHANGED <<registryVars, configMint, abandoned>>,
         awaited' \in {awaited, None},
         file.mint # None => file'.mint = file.mint,
         file.builder # None => file'.builder = file.builder,
         file.guardian # None => file'.guardian = file.guardian
  PROVE  OnChain' /\ OnTheWay'
  <1>1. OnChain'
    BY DEF registryVars, OnChain, Cap!Exists
  <1>2. ASSUME NEW tx, From(tx, file), Proper(tx)
        PROVE  /\ tx.op = "initialize_config" => tx.key = file'.mint
               /\ tx.op = "register_builder" => tx.builder = file'.builder
               /\ tx.op = "initialize_governance" => tx.key = file'.guardian
    BY <1>2, ScriptAssumption DEF From, Proper
  <1>3. OnTheWay'
    BY <1>2 DEF OnTheWay, From, Proper
  <1> QED
    BY <1>1, <1>3

LEMMA KeyStep ==
  ASSUME ScriptInv, KeyInv, [WalkNext]_walkVars
  PROVE  KeyInv'
  <1> USE DEF KeyInv
  <1>1. CASE Walks
    BY <1>1, FileGrows DEF Walks, registryVars
  <1>2. ASSUME NEW tx, Sends(tx) PROVE KeyInv'
    BY <1>2 DEF Sends, registryVars, OnChain, OnTheWay, From, Proper, Cap!Exists
  <1>3. CASE NewMint
    BY <1>3, FileGrows DEF NewMint, registryVars
  <1>4. CASE SavesMint
    BY <1>4, FileGrows DEF SavesMint, registryVars, ScriptInv, SavedState
  <1>5. CASE NewKey("builder", "builder", BuilderKeys)
    BY <1>5, FileGrows DEF NewKey, registryVars, ScriptInv, SavedState
  <1>6. CASE NewKey("guardian", "guardian", GuardianKeys)
    BY <1>6, FileGrows DEF NewKey, registryVars, ScriptInv, SavedState
  <1>7. CASE NewVaultKey
    BY <1>7, FileGrows DEF NewVaultKey, registryVars, ScriptInv, SavedState
  <1>8. CASE Lands
    <2>1. /\ Effect(awaited) /\ Proper(awaited) /\ awaited # None
          /\ UNCHANGED <<file, abandoned, torn>> /\ awaited' = None
      BY <1>8 DEF Lands, ScriptInv
    <2>2. DOMAIN builder' = Builders /\ (OnChain /\ From(awaited, file) => OnChain')
      BY <2>1, EffectKeeps
    <2> QED
      BY <2>1, <2>2 DEF OnTheWay, From, Proper
  <1>9. CASE Ends
    <2>1. DOMAIN builder' = Builders
      BY <1>9 DEF Ends, registryVars
    <2>2. ASSUME OnChain, OnTheWay, UNCHANGED file
          PROVE  OnChain' /\ OnTheWay'
      BY <1>9, <2>2 DEF Ends, registryVars, OnChain, OnTheWay, From, Proper, Cap!Exists
    <2> QED
      BY <1>9, <2>1, <2>2 DEF Ends
  <1>10. CASE RunAgain
    BY <1>10, FileGrows DEF RunAgain, registryVars
  <1>11. ASSUME NEW tx \in abandoned, LandsLate(tx)
         PROVE  KeyInv'
    <2>1. /\ Effect(tx) /\ Proper(tx)
          /\ UNCHANGED <<file, awaited, torn>> /\ abandoned' \subseteq abandoned
      BY <1>11 DEF LandsLate, script, ScriptInv
    <2>2. DOMAIN builder' = Builders /\ (OnChain /\ From(tx, file) => OnChain')
      BY <2>1, EffectKeeps
    <2> QED
      BY <2>1, <2>2 DEF OnTheWay, From, Proper
  <1>12. ASSUME NEW tx \in abandoned, Expires(tx)
         PROVE  KeyInv'
    BY <1>12 DEF Expires, script, registryVars, OnChain, OnTheWay, From, Proper, Cap!Exists
  <1>13. CASE WalkTick \/ UNCHANGED walkVars
    BY <1>13 DEF WalkTick, RegistryTick, Tick, walkVars, script, registryVars, OnChain, OnTheWay,
                 From, Proper, Cap!Exists
  <1> QED
    BY <1>1, <1>2, <1>3, <1>4, <1>5, <1>6, <1>7, <1>8, <1>9, <1>10, <1>11, <1>12, <1>13,
       WalkShape

\* Re-runs reuse the keys: wherever crashes fall and whatever lands late, the state
\* file has the key of every account that the script created on chain, unless a
\* write of the file itself was cut short (saveState, main).
THEOREM KeysAreKept == WalkSpec => []RerunsReuseKeys
  <1>1. KeyInv => RerunsReuseKeys
    BY DEF KeyInv, OnChain, RerunsReuseKeys
  <1> QED
    BY <1>1, KeyInit, KeyStep, ScriptInvariance, PTL DEF WalkSpec

-----------------------------------------------------------------------------
\* What is expected to fail

\* The authority is the multisig or the one that step 11 announces, and in a
\* punctual run that announcement is not due before it is vetoed.
AuthorityKnown ==
  /\ config # NoAccount => config.authority \in {Cli, Throwaway}
  /\ \A k \in Kinds : pending[k] # NoAccount /\ pending[k].kind = "TransferAuthority" =>
       pending[k].newKey = Throwaway

NotDue == SlotTaken("TransferAuthority") => now < pending["TransferAuthority"].eta

LeverInv == AuthorityKnown /\ (Punctual /\ pc \in Exposed => NotDue)

LEMMA LeverInit == WalkInit => LeverInv
  BY DEF WalkInit, RegistryInit, Init, LeverInv, AuthorityKnown, Exposed

\* A change that is announced now is not due now.
LEMMA AnnouncedIsNotDue ==
  ASSUME IInv, IInv', NEW signer, NEW slot \in Kinds, NEW kind \in Kinds, NEW key, NEW table,
         Queue(signer, slot, kind, key, table)
  PROVE  /\ UNCHANGED <<now, config>>
         /\ pending'[slot].kind = kind /\ pending'[slot].newKey = key
         /\ now' < pending'[slot].eta
         /\ \A k \in Kinds \ {slot} : pending'[k] = pending[k]
  <1>1. /\ governance # NoAccount /\ UNCHANGED <<now, config>>
        /\ pending' = [pending EXCEPT ![slot] = Announced(kind, key, table)]
    BY DEF Queue
  <1>2. now \in Nat /\ governance.timelockDelay \in Int /\ governance.timelockDelay > 0
    BY <1>1, BoundsAssumption DEF IInv, GovernanceTypeOK, GovernanceAccount, GovernanceInBounds
  <1>3. /\ pending'[slot] = Announced(kind, key, table)
        /\ \A k \in Kinds \ {slot} : pending'[k] = pending[k]
    BY <1>1 DEF IInv, GovernanceTypeOK
  <1> QED
    BY <1>1, <1>2, <1>3 DEF Announced

LEMMA EffectOnLevers ==
  ASSUME IInv, IInv', AuthorityKnown, NEW tx, Proper(tx), Effect(tx)
  PROVE  /\ AuthorityKnown'
         /\ NotDue => NotDue'
         /\ tx.op = "queue_transfer_authority" => NotDue'
  <1> USE DEF NotDue, SlotTaken
  <1>1. CASE tx.op \in EconomicOps
    BY <1>1, EconomicEffect DEF EconomicOps, GovernanceKept, AuthorityKnown
  <1>2. CASE GovernanceMoved(tx)
    <2>1. CASE tx.op = "initialize_config"
      BY <1>2, <2>1 DEF GovernanceMoved, InitializeConfig, AuthorityKnown
    <2>2. CASE tx.op = "initialize_governance"
      BY <1>2, <2>2 DEF GovernanceMoved, InitializeGovernance, AuthorityKnown
    <2>3. CASE tx.op = "queue_transfer_authority"
      <3>1. Queue(Cli, "TransferAuthority", "TransferAuthority", Throwaway, ZeroTable)
        BY <1>2, <2>3 DEF GovernanceMoved, QueueTransferAuthority
      <3> QED
        BY <3>1, AnnouncedIsNotDue DEF AuthorityKnown, Kinds
    <2>4. CASE tx.op = "queue_set_vault_authority"
      <3>1. Queue(Cli, "SetVaultAuthority", "SetVaultAuthority", tx.key, ZeroTable)
        BY <1>2, <2>4 DEF GovernanceMoved, QueueSetVaultAuthority
      <3> QED
        BY <2>4, <3>1, AnnouncedIsNotDue DEF AuthorityKnown, Kinds
    <2>5. CASE tx.op = "execute_change"
      <3>1. tx.key \in Kinds /\ ExecuteChange(tx.signer, tx.key)
        BY <1>2, <2>5 DEF GovernanceMoved, Proper
      <3>2. /\ config # NoAccount /\ pending[tx.key] # NoAccount
            /\ config' = Applied(pending[tx.key]) /\ now' = now
            /\ pending' = [pending EXCEPT ![tx.key] = NoAccount]
        BY <3>1 DEF ExecuteChange, Resolvable, SignedByAuthority
      <3>3. config \in ConfigAccount /\ pending[tx.key] \in PendingChange
        BY <3>1, <3>2 DEF IInv, GovernanceTypeOK
      <3>4. config'.authority \in {config.authority, Throwaway}
        BY <3>1, <3>2, <3>3 DEF Applied, ConfigAccount, PendingChange, Kinds, AuthorityKnown
      <3>5. \A k \in Kinds : pending'[k] \in {pending[k], NoAccount}
        BY <3>2 DEF IInv, GovernanceTypeOK
      <3> QED
        BY <2>5, <3>2, <3>4, <3>5 DEF AuthorityKnown, Kinds
    <2>6. CASE tx.op = "veto_change"
      <3>1. /\ tx.key \in Kinds /\ UNCHANGED <<now, config>>
            /\ pending' = [pending EXCEPT ![tx.key] = NoAccount]
        BY <1>2, <2>6 DEF GovernanceMoved, Proper, VetoChange
      <3>2. \A k \in Kinds : pending'[k] \in {pending[k], NoAccount}
        BY <3>1 DEF IInv, GovernanceTypeOK
      <3> QED
        BY <2>6, <3>1, <3>2 DEF AuthorityKnown, Kinds
    <2> QED
      BY <1>2, <2>1, <2>2, <2>3, <2>4, <2>5, <2>6 DEF GovernanceMoved
  <1> QED
    BY <1>1, <1>2, PrivilegedEffect

LEMMA LeverStep ==
  ASSUME ScriptInv, IInv, IInv', LeverInv, [WalkNext]_walkVars
  PROVE  LeverInv'
  <1>1. ASSUME UNCHANGED registryVars, pc' \in Exposed => pc \in Exposed
        PROVE  LeverInv'
    BY <1>1 DEF registryVars, LeverInv, AuthorityKnown, NotDue, SlotTaken
  <1>2. CASE Walks
    BY <1>1, <1>2, March DEF Walks, Exposed
  <1>3. CASE \/ \E tx : Sends(tx)
             \/ NewMint \/ SavesMint \/ NewVaultKey \/ Ends \/ RunAgain
             \/ NewKey("builder", "builder", BuilderKeys)
             \/ NewKey("guardian", "guardian", GuardianKeys)
             \/ \E tx \in abandoned : Expires(tx)
             \/ UNCHANGED walkVars
    BY <1>1, <1>3, Successors
       DEF Sends, NewMint, SavesMint, NewVaultKey, Ends, RunAgain, NewKey, Expires, script,
           walkVars, Exposed
  <1>4. CASE Lands
    <2>1. /\ Effect(awaited) /\ Proper(awaited) /\ pc' = Following(pc)
          /\ pc \in Marching /\ SentFrom(pc, awaited)
      BY <1>4 DEF Lands, ScriptInv, Marching
    <2>2. pc' \in Exposed => pc \in Exposed \cup {"queue_transfer"}
      BY <2>1, March
    <2> QED
      BY <2>1, <2>2, EffectOnLevers DEF LeverInv, SentFrom
  <1>5. ASSUME NEW tx \in abandoned, LandsLate(tx)
        PROVE  LeverInv'
    <2>1. Effect(tx) /\ Proper(tx) /\ pc' = pc
      BY <1>5 DEF LandsLate, script, ScriptInv
    <2> QED
      BY <2>1, EffectOnLevers DEF LeverInv
  <1>6. CASE WalkTick
    <2>1. /\ now' = now + 1 /\ UNCHANGED <<config, pending, pc>> /\ (Punctual => InTime)
      BY <1>6 DEF WalkTick, RegistryTick, Tick, script
    <2> QED
      BY <2>1 DEF LeverInv, AuthorityKnown, NotDue, SlotTaken, InTime, Exposed
  <1> QED
    BY <1>2, <1>3, <1>4, <1>5, <1>6, WalkShape

\* None of the three expected failures can succeed in a punctual run.
LEMMA RefusedWhenSent ==
  ASSUME ScriptInv, IInv, LeverInv, Punctual, awaited # None, Effect(awaited),
         pc \in {"guardian_resumes", "early_execute", "guardian_executes"}
  PROVE  FALSE
  <1>1. SentFrom(pc, awaited) /\ Proper(awaited)
    BY DEF ScriptInv
  <1>2. CASE pc = "guardian_resumes"
    <2>1. Cap!ResumeListing(awaited.signer, awaited.builder, awaited.index)
      BY <1>1, <1>2 DEF SentFrom, Effect, Economic
    <2>2. config # NoAccount
          /\ (awaited.signer = awaited.builder \/ awaited.signer = config.authority)
      BY <2>1 DEF Cap!ResumeListing, Cap!BuilderOrAuthority
    <2> QED
      BY <1>1, <1>2, <2>2, GuardianKeysAssumption DEF SentFrom, LeverInv, AuthorityKnown
  <1>3. CASE pc \in {"early_execute", "guardian_executes"}
    <2>1. ExecuteChange(awaited.signer, awaited.key)
      BY <1>1, <1>3 DEF SentFrom, Effect, Privileged
    <2>2. CASE pc = "early_execute"
      <3>1. /\ awaited.key = "TransferAuthority"
            /\ pending["TransferAuthority"] # NoAccount
            /\ Due(pending["TransferAuthority"])
        BY <1>1, <2>1, <2>2 DEF SentFrom, ExecuteChange, Resolvable
      <3>2. pending["TransferAuthority"] \in PendingChange /\ now \in Nat
        BY <3>1 DEF IInv, GovernanceTypeOK, Kinds
      <3>3. now < pending["TransferAuthority"].eta
        BY <2>2, <3>1 DEF LeverInv, Exposed, NotDue, SlotTaken
      <3> QED
        BY <3>1, <3>2, <3>3 DEF Due, PendingChange
    <2>3. CASE pc = "guardian_executes"
      BY <1>1, <2>1, <2>3, GuardianKeysAssumption
         DEF SentFrom, ExecuteChange, SignedByAuthority, LeverInv, AuthorityKnown
    <2> QED
      BY <1>3, <2>2, <2>3
  <1> QED
    BY <1>2, <1>3

LEMMA FailureStep ==
  ASSUME ScriptInv, IInv, LeverInv, Punctual, [WalkNext]_walkVars,
         NEW step \in {"guardian_resumes", "early_execute", "guardian_executes"},
         pc = step, pc' = Following(step)
  PROVE  UNCHANGED <<config, governance, pending, builder, listing, token>>
  <1>1. pc' # pc /\ pc \in Sending /\ pc' # "idle"
    BY Successors DEF Sending
  <1>2. ~Lands
    BY RefusedWhenSent DEF Lands
  <1>3. CASE UNCHANGED registryVars
    BY <1>3 DEF registryVars
  <1>4. CASE WalkTick
    BY <1>4 DEF WalkTick, RegistryTick, Tick
  <1> QED
    BY <1>1, <1>2, <1>3, <1>4, WalkShape
       DEF Walks, Sends, NewMint, SavesMint, NewKey, NewVaultKey, Ends, RunAgain, LandsLate,
           Expires, script, walkVars

\* A punctual run passes an expected failure only when the transaction did nothing:
\* the guardian's key is neither the builder's nor the authority's, and the transfer
\* that is tried early is not due, even if a crash left another in its slot
\* (expectFail, steps 10 and 11).
THEOREM ExpectedFailuresHold ==
  ASSUME Punctual
  PROVE  WalkSpec => ExpectedFailuresFail
  <1>1. ScriptInv /\ IInv /\ LeverInv /\ [WalkNext]_walkVars =>
          [ \A step \in {"guardian_resumes", "early_execute", "guardian_executes"} :
              pc = step /\ pc' = Following(step) =>
                UNCHANGED <<config, governance, pending, builder, listing, token>> ]_walkVars
    BY FailureStep
  <1>2. WalkSpec => []LeverInv
    BY LeverInit, LeverStep, ScriptInvariance, WalkthroughGovernance, PTL DEF WalkSpec
  <1> QED
    BY <1>1, <1>2, ScriptInvariance, WalkthroughGovernance, PTL
       DEF WalkSpec, ExpectedFailuresFail

-----------------------------------------------------------------------------
\* The authority

\* What is on its way executes no transfer of the authority.
NoTransfer(tx) == tx.op = "execute_change" => tx.key = "SetVaultAuthority"

AuthorityInv ==
  /\ AuthorityKept
  /\ awaited # None => NoTransfer(awaited)
  /\ \A tx \in abandoned : NoTransfer(tx)

LEMMA EffectOnAuthority ==
  ASSUME IInv, AuthorityKept, NEW tx, Proper(tx), NoTransfer(tx), Effect(tx)
  PROVE  AuthorityKept'
  <1>1. CASE tx.op \in EconomicOps
    BY <1>1, EconomicEffect DEF GovernanceKept, AuthorityKept
  <1>2. CASE GovernanceMoved(tx)
    <2>1. CASE tx.op = "initialize_config"
      BY <1>2, <2>1 DEF GovernanceMoved, InitializeConfig, AuthorityKept
    <2>2. CASE tx.op = "execute_change"
      <3>1. ExecuteChange(tx.signer, "SetVaultAuthority")
        BY <1>2, <2>2 DEF GovernanceMoved, NoTransfer
      <3> DEFINE change == pending["SetVaultAuthority"]
      <3>2. /\ config # NoAccount /\ change # NoAccount
            /\ change.kind = "SetVaultAuthority" /\ config' = Applied(change)
        BY <3>1 DEF ExecuteChange, Resolvable, SignedByAuthority
      <3>3. config \in ConfigAccount
        BY <3>2 DEF IInv, GovernanceTypeOK
      <3>4. config'.authority = config.authority
        BY <3>2, <3>3 DEF Applied, ConfigAccount
      <3> QED
        BY <3>2, <3>4 DEF AuthorityKept
    <2>3. CASE tx.op \notin {"initialize_config", "execute_change"}
      <3>1. UNCHANGED config
        BY <1>2, <2>3 DEF GovernanceMoved, InitializeGovernance, QueueTransferAuthority,
                          QueueSetVaultAuthority, Queue, VetoChange
      <3> QED
        BY <3>1 DEF AuthorityKept
    <2> QED
      BY <2>1, <2>2, <2>3
  <1> QED
    BY <1>1, <1>2, PrivilegedEffect

\* A punctual run sends no execution of a transfer: the simulation refuses it.
LEMMA NoTransferSent ==
  ASSUME IInv, LeverInv, Punctual, NEW tx, Sends(tx)
  PROVE  NoTransfer(tx)
  <1> SUFFICES ASSUME tx.op = "execute_change", tx.key # "SetVaultAuthority"
               PROVE  FALSE
    BY DEF NoTransfer
  <1>1. pc \in {"early_execute", "guardian_executes"}
    BY DEF Sends, SentFrom
  <1>2. tx.key = "TransferAuthority"
    BY <1>1 DEF Sends, SentFrom
  <1>3. SlotTaken("TransferAuthority") /\ Due(pending["TransferAuthority"])
    BY <1>2 DEF Sends, Accepted
  <1>4. pending["TransferAuthority"] \in PendingChange /\ now \in Nat
    BY <1>3 DEF SlotTaken, IInv, GovernanceTypeOK, Kinds
  <1>5. now < pending["TransferAuthority"].eta
    BY <1>1, <1>3 DEF LeverInv, Exposed, NotDue
  <1> QED
    BY <1>3, <1>4, <1>5 DEF Due, PendingChange

LEMMA AuthorityStep ==
  ASSUME ScriptInv, IInv, LeverInv, Punctual, AuthorityInv, [WalkNext]_walkVars
  PROVE  AuthorityInv'
  <1> USE DEF AuthorityInv
  <1>1. ASSUME UNCHANGED registryVars, awaited' \in {awaited, None},
               \A tx \in abandoned' : tx \in abandoned \/ (tx = awaited /\ awaited # None)
        PROVE  AuthorityInv'
    BY <1>1 DEF registryVars, AuthorityKept, NoTransfer
  <1>2. ASSUME NEW tx, Sends(tx) PROVE AuthorityInv'
    BY <1>2, NoTransferSent DEF Sends, registryVars, AuthorityKept, NoTransfer
  <1>3. CASE Lands
    BY <1>3, EffectOnAuthority DEF Lands, ScriptInv, NoTransfer
  <1>4. ASSUME NEW tx \in abandoned, LandsLate(tx) PROVE AuthorityInv'
    BY <1>4, EffectOnAuthority DEF LandsLate, script, ScriptInv, NoTransfer
  <1>5. CASE WalkTick
    BY <1>5 DEF WalkTick, RegistryTick, Tick, script, AuthorityKept, NoTransfer
  <1> QED
    BY <1>1, <1>2, <1>3, <1>4, <1>5, WalkShape
       DEF Walks, NewMint, SavesMint, NewKey, NewVaultKey, Ends, RunAgain, Expires, script,
           walkVars

\* In punctual runs the transfer that step 11 announces for show never takes effect:
\* not from a slot that a crash left taken, not from a transaction that lands late
\* (execute_change, and the order of step 11).
THEOREM AuthorityStays ==
  ASSUME Punctual
  PROVE  WalkSpec => []AuthorityKept
  <1>1. WalkInit => AuthorityInv
    BY DEF WalkInit, RegistryInit, Init, AuthorityInv, AuthorityKept
  <1>2. AuthorityInv => AuthorityKept
    BY DEF AuthorityInv
  <1>3. WalkSpec => []LeverInv
    BY LeverInit, LeverStep, ScriptInvariance, WalkthroughGovernance, PTL DEF WalkSpec
  <1>4. ScriptInv /\ IInv /\ LeverInv /\ AuthorityInv /\ [WalkNext]_walkVars => AuthorityInv'
    BY AuthorityStep
  <1> QED
    BY <1>1, <1>2, <1>3, <1>4, ScriptInvariance, WalkthroughGovernance, PTL DEF WalkSpec
=============================================================================
