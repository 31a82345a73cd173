# TLA+ models of ShinyCoin: the RAMHOG pool, the signed-hash caches, the address-info store, info submission, alerts and the wallet model

This directory holds TLA+ models of the concurrent and stateful parts of the
ShinyCoin sources under `src/src/`, together with the TLC configurations that
check them. `PROJECT.json` lists the components, the runs, the mutants, the
source lines that each definition models (`map`), the findings and the hazards.

## The system and its parts

| Part | Source | State | Operations | Model |
|---|---|---|---|---|
| RAMHOG thread pool | `hashblock/ramhog_mt.cpp` | semaphore `waitPads`, `fPadUsed[]`, `scratchpads[slot][pad]`, command and worker `io_service` queues, promises | `ramhog()`, `ramhog_mt`, `ramhog_gen_pad_mt` | `RamhogPool` |
| Block-check flag | `ramhog_mt.cpp:122-133`, `signedhash.cpp:185-198` | `fNeedCheckBlock` | `SetNeedCheckBlock`, `SendSignedHash` around `ComputeBlockPoWHash` | `RamhogPool` (checker callers) |
| Info validation | `txinfo.h`, `txinfo.cpp:42-93` | none | `TxInfoKey::IsValid`, `CTxInfo::IsValid` | `TxInfo` |
| Info store | `txinfo.cpp:104-424`, `txinfo.h:117-204` | SQLite table `TxDbEntry` (id, is_latest, record), `curTransaction`, `byteEstimate` | `Process`, `Undo`, `BeginTransaction`, `Commit`, `Rollback`, `Reset`, `Get`, `AddressesWithValue`, `UniqueAddressWithValue`, `IsValid` | `TxInfoStore` refines `TxInfoHistory` |
| Wallet info submission | `qt/addinfosdialog.cpp:54-147`, `qt/addinfoentry.cpp:27-139`, `qt/walletmodel.cpp:199-268` | the entries' fields, the dialog's question, the call in progress | `AddInfoEntry::validate`/`getValue`, `on_submitButton_clicked` (validation, warning level, confirmation, unlock), `setInfos` (checks, a dry run of every info in a `CTxInfoView` that is always rolled back, then the send) | `WalletSetInfos` (extends `TxInfoStore`) |
| Wallet status and unlock context | `qt/walletmodel.cpp:23-26, 61-82, 104-196, 286-386` | the figure and status caches, `fWalletUnlockMintOnly`, `UnlockContext`, a running `sendCoins` | `update`, `getEncryptionStatus`, `setWalletEncrypted`, `setWalletLocked`, `changePassphrase`, `requestUnlock`, `UnlockContext` copy and destructor, `sendCoins` | `WalletStatus` |
| Signed PoW hash caches | `signedhash.cpp` | `mapPoWCache`, `mapSigCache`, `mapInvSignedHash`, txdb | `GetPoWHash`, `UncheckedAdd*`, `LoadHashCache`, `ProcessRelaySignedHash`, `SendSignedHash`, `SetSignedHashPrivKey` | `SignedHashCache` |
| Alerts | `alert.cpp` | `mapAlerts` | `ProcessAlert`, `GetWarnings` | `Alerts` |
| Info lookup dialog, entry widget layout, transaction description, raw-transaction RPC, tests | `qt/lookupinfo*`, the rest of `qt/addinfoentry.cpp`, `qt/transactiondesc.cpp`, `rpcrawtransaction.cpp`, `test/*` | widget contents only | formatting and I/O | not modelled |

How the parts interact:
- Mining threads and block validation both call `CRamhogThreadPool::ramhog`.
  Each call takes a permit from `waitPads` and takes a free scratchpad slot.
  It then hands `ramhog_mt` to one of `numSimultaneous` command threads.
- `ramhog_mt` posts N pad jobs to the worker threads and joins their promises.
  It then mixes the pads.
- A new best block (`pindexBest` moves) interrupts miner computations at three
  checks: after the semaphore, at the start of `ramhog_mt`, and at the start of
  each pad job.
- `SendSignedHash` raises `fNeedCheckBlock` so that miner calls return
  immediately while it computes a block's hash.
- The info store is written under `cs_main` by block connection, which is not
  in `src/`, and by `WalletModel::setInfos`. Because of that lock, its calls
  never interleave. `setInfos` takes the lock twice, for the dry run and for
  the send, and block connection may use the store in between.
- `AddInfosDialog` asks `WalletModel::requestUnlock` for an `UnlockContext`
  before it calls `setInfos`; the context relocks the wallet when the dialog's
  scope ends.
- Alerts arrive from peers through `ProcessAlert`; `GetWarnings` combines
  the stored alerts with the node's own warning conditions for the status bar
  and for RPC, where a non-empty warning is "safe mode".

## Modules

### `RamhogPool` (with `MC_RamhogPool`)

One process per caller thread: miners and checkers. Each command thread and
each worker thread is also a process.

Variables:
- `sem`: `waitPads`
- `padUsed`: `fPadUsed`
- `pads[slot][pad]`: which call's input last filled the pad. The hash itself is
  abstracted to this.
- `pc`, `snap`, `slot`: the caller's position, its `pindexForBest` and its
  `whichPad`.
- `done`: the `ramhog_done` promise.
- `cmdQueue`, `workQueue`: the two `io_service` queues.
- `cmd`: the call a command thread is joining.
- `worker`: the job a worker is filling.
- `padDone`: `pad_dones[]`.
- `tip`: `pindexBest`.
- `needCheck`: `fNeedCheckBlock`.

Actions follow the code's own steps:
- `RamhogBegin`: the busy test and the snapshot of the tip.
- `RamhogWait`: `waitPads.wait()`.
- `RamhogPick`: the stale re-check, the `fPadUsed` scan (including the
  "mismatch" throw) and the post to the command queue.
- `RamhogCollect`: `get()` and the clearing of `fPadUsed`.
- `RamhogPost`: `waitPads.post()`.
- `CmdStart`: the stale check of `ramhog_mt` and the posting of the N jobs.
- `CmdJoin`: the join over all promises, then either "interrupted" or the mix.
- `WorkerStart`: the stale check of a pad job.
- `WorkerFill`: filling the pad and `set_value(true)`.
- `SetNeedCheckBlock`: the flag, set and cleared by checker callers around their
  `ramhog` call, as `SendSignedHash` does.
- `NewBestBlock`: the environment moving the tip. The tip has no source here: it
  is set in `main.cpp`, which is not in this repository.

The unsynchronised reads of `pindexBest` (`ramhog_mt.cpp:60,86,148`) are a data
race. The model lets each read see the tip current at that step, so it can see
the old tip or the new one.

### `SignedHashCache` (with `MC_SignedHashCache`)

The three maps and the txdb records behind them:
- `powCache`, `sigCache` and `inv` are `mapPoWCache`, `mapSigCache` and
  `mapInvSignedHash`.
- `dbPow`, `dbSig` and `dbPubKey` are the txdb entries: PoW hashes, signed
  hashes and the stored master public key.
- `privKey` is `strMasterPrivKey`.
- `loaded` records whether `LoadHashCache` has run in this process.

How signatures and hashes are abstracted:
- A signature is abstracted to the key that made it, and `CheckSignature` holds
  when that key is the master key.
- `TruePow(id)` is the block's real PoW hash.
- Peers may relay forged hashes, or hashes signed with other keys. The master
  key signs only hashes it computed.

How the actions follow the code:
- Every txdb write in `UncheckedAddHash` and `UncheckedAddSignedHash` may fail.
  The map keeps the entry anyway, as the code does.
- The key-change branch of `LoadHashCache` either commits completely or leaves
  the txdb unchanged.
- `Crash` loses the maps and the private key and keeps the txdb.
- Init is any txdb a previous run, possibly of another build, could have left.
- Every operation is one step. Cache operations hold `cs_caches`, and the
  callers (message handling and RPC, outside `src/`) are assumed to hold
  `cs_main`.

### `TxInfo`

The data of the info subsystem: key types, keys, infos and records, and the two
validity checks.
- Strings are abstracted to small sets of model strings: `Empty` is the empty
  string and `IDStrings` are the strings whose every character passes
  `IsValidIDCharacter`.
- `Requests` is the set of records the node is asked to process or undo.
- A record's origin (block hash and the three indices) is a model value in
  `Origins`.

### `TxInfoHistory` (abstract)

What the store promises:
- Every (address, key) has a history of (value, origin) entries, and its current
  value is the top entry.
- Process pushes an entry if the record is acceptable: it is valid, a unique
  value has no other current holder, and a non-overwritable key has no history
  yet.
- Undo pops only if the top entry is exactly the record.
- Transactions snapshot all histories, and rollback restores them.

### `TxInfoStore`

The table is a set of rows `[id, latest, rec]`, with `seqId` standing for
SQLite's `sqlite_sequence`.
- `Process` is `CTxInfoStore::Process`. Inside an open transaction it runs
  `_Process`. Outside one, it runs `_Process` in a `CTxInfoView` that commits on
  success and rolls back on failure. The whole call is one action, including
  `IsValid`, both SQL statements and the `byteEstimate` update.
- `Undo` is `_Undo`: the DELETE of the matching latest row, then the UPDATE that
  re-flags the newest remaining row.
- `BeginTransaction`, `Commit`, `Rollback` and `Reset` follow the code.
- A call that throws changes nothing, so it is not a step. Such calls are
  `BeginTransaction` in a transaction, `Commit`/`Rollback` outside one, and
  `IsValid` when `UniqueAddressWithValue` finds two holders.
- The destructor's rollback, and a crash inside a transaction (SQLite's journal
  rolls it back on reopen), are the same step as `Rollback`.
- The refinement mapping `HistOf` reads each (address, key)'s rows in id order
  as its history.

### `WalletSetInfos` (with `MC_WalletSetInfos`)

This module extends `TxInfoStore`. Its store actions are the node's
environment: they may run between any two of the wallet's steps, as block
connection can.

Variables:
- `wpc`: where the call is: `"idle"`, `"confirm"` (the question is shown) or
  `"send"` (between the two locked sections of `setInfos`).
- `wAddr`, `wBatch`: the call's address and infos.
- `wret`: the last `SetInfosReturn`.
- `warning`: the dialog's `warningLevel`.

The user submits a list of `Entry` records: the text of an `AddInfoEntry`'s
key-type combo box (`"Name"`, `"Normal"`, `"Write-Once"`, `"Unique"`,
`"Id"`), its key string field and its value field. The list is never empty,
since a remove button is enabled only when there are two entries or more.
- `CurrentKeyType` is `currentKeyType`; both `"Name"` and `"Id"` give
  `INFO_ID`.
- `GetValue` is `getValue`: a `"Name"` entry sets the ID key `"n"` whatever
  its key string field holds.
- `Validate` is `validate`: `TxInfoKey::IsValid` on the key, then
  `CTxInfo::IsValid` on the info.

Actions:
- `Submit`: the dialog's checks (`ownValidAddress`, every entry's
  `validate`, at least one info) and its `warningLevel`, which is the
  maximum of `EntryWarning` over the infos the entries' `getValue` gives.
  Every entry is validated even after one fails, as the loop does.
- `Cancel`: the user answers Cancel, or the unlock is cancelled.
- `SetInfosDryRun`: the whole first section of `setInfos`.
  - `PreCheck` holds the early returns in code order.
  - If the store already has a transaction open, `BeginTransaction` throws.
  - Otherwise `DryRun` folds `CTxInfoStore::Process` (in a transaction, that is
    `_Process`) over the batch, stopping at the first false or throw.
  - `ViewEnd` is the view's destructor: the table returns to its contents
    before the view.
- `SetInfosSend`: the second section. The wallet's outcomes
  (`CreateTransaction`, `ThreadSafeAskFee`, `CommitTransaction`) are free
  choices.

The reference for the dry run is `HistAccepts`. It folds the abstract
`TxInfoHistory`'s `Acceptable` over the batch through a parameterised
instance `H(h)`.

### `Alerts` (with `MC_Alerts`)

- An alert is its hash: a number, so that `mapAlerts`'s order is the numbers'
  order.
- `CAlert`'s fields and its `IsInEffect`, `Cancels`, `AppliesToMe` and
  `CheckSignature` come from `alert.h`, which is not in the repository. The
  model takes them as constants: `Priority`, `Expiration`, `CancelsRel`,
  `ForMe` and `Signed`.
- `now` is the adjusted time, and `conds` holds the node's own warning
  conditions. Code outside `src/` sets both, so they change freely.

How the code maps to the model:
- `ProcessAlert` is one action, because it holds `cs_mapAlerts` throughout.
  It returns early on a bad signature or an expired alert. Otherwise:
  - `Kept` is the erase loop;
  - `AlreadyCancelled` is the second loop;
  - the insert follows.
- `GetWarnings` is a fold. `FixedStep` runs over the fixed warnings in code
  order, then `AlertStep` runs over the stored alerts in hash order.

### `WalletStatus`

Variables:
- `fig`, `cachedFig`, `shownFig`: the wallet's figures (balance, unconfirmed,
  generated, transaction count), the caches `update()` compares against, and
  the figures last signalled. The balance runs from 0 to `MaxBalance`, every
  other figure is 0 or 1. `fig` and `shownFig` include `getStake()`, which
  `balanceChanged` carries; `cachedFig` does not, since `update()` neither
  caches nor compares the stake (lines 69 and 78-81). A change of the stake
  alone therefore never reaches the GUI (hazard at `walletmodel.cpp:69`).
- `crypted`, `locked`, `mintOnly`: the wallet's lock state.
- `cachedEnc`, `shown`: the status cache and the last signalled status.
- `temp`, `ctx`, `relocked`: the returned `UnlockContext`, the dialog's copy,
  and the number of relocks in the current request.
- `found`: `locked` and `fWalletUnlockMintOnly` when the current request
  began, a history variable for `SendScopeRestoresLock`.
- `spc`, `rcps`, `sret`: where a running `sendCoins` is ("none", "fee"
  or "create"), its recipients, and the status it last returned.

Constants: `Dests` are the addresses `validateAddress` accepts, `BadDest` is
one it rejects, `SendLists` are the recipient lists passed to `sendCoins`,
`TxFee` is `nTransactionFee`, `FeesRequired` are the fees `CreateTransaction`
may require, and `MaxBalance` bounds the balance. `MC_WalletStatus` gives
one valid and one invalid address, lists of one, of an invalid and of a
duplicated recipient, `TxFee = 1`, fees 1 and 2 and balances 0 to 2.

Actions:
- `Update` is the whole of `update()`.
- `Encrypt`, `Lock` and `Unlock` are the forwarding setters.
- `RequestUnlock` is `requestUnlock`. The passphrase dialog's answer is a free
  choice: it unlocks or not, and when it unlocks it sets
  `fWalletUnlockMintOnly` either way (the dialog is outside `src/`). `Returned`
  builds the context from the state after the dialog, as line 363 reads the
  flag after `emit requireUnlock()`.
- `TakeContext` is the dialog's `UnlockContext ctx(model->requestUnlock())`.
  The copy may be elided. If it is not, `CopyFrom` runs and then the
  temporary's destructor.
- `EndScope` is the destructor of `ctx`.
- `WalletChanges` is the wallet's figures moving.
- `sendCoins` is three actions, because blocks on other threads can move
  the balance between them. `SendCheck` is everything up to and including
  `total > getBalance()`: the empty list, `validateAddress`, the duplicate
  test and the first balance test (`PreCheck`). `SendFeeCheck` is the
  second `getBalance()` test, with `nTransactionFee`. `SendCreate` is the
  section under `LOCK2(cs_main, cs_wallet)`. `CreateTransaction`,
  `ThreadSafeAskFee` and `CommitTransaction` are free choices, except that
  creation needs an unlocked wallet and a balance that covers the total and
  the required fee. A commit spends both. Nothing in `src/` calls `sendCoins`.
  The model lets a dialog call it in scope with a valid context, the way
  `AddInfosDialog` calls `setInfos`. The address-book label updates after
  the commit are left out.

## Runs

| Run | Config | Result | States | What it shows |
|---|---|---|---|---|
| ramhog_safety | `MC_RamhogPool_safety.cfg` | pass | 3.07M distinct, ~40 s | `PermitSlotAccounting`: permits and used slots stay in step, and the "waitPads/fPadUsed mismatch" throw is unreachable. `PadJobsOwned`: no pad job outlives its `ramhog_mt` or its caller's slot. `MixReadsOwnPads`: a successful mix reads only pads filled by its own call. |
| ramhog_live | `MC_RamhogPool_live.cfg` | pass | 75k | `AdmittedReturns`: every call that took a slot returns, whichever early-return path its command or pad jobs take. |
| ramhog_check | `MC_RamhogPool_check.cfg` | pass | 67k | `CheckerCompletes`: with one block check, the flag keeps miners out and the check finishes despite the unfair semaphore. |
| ramhog_twochecks | `MC_RamhogPool_twochecks.cfg` | violation | | `CheckerCompletes` fails with two overlapping checks (see Findings). |
| signedhash_cache | `MC_SignedHashCache.cfg` | pass | 57k distinct, 2 s | `TrustedHashesOnly`: `GetPoWHash` yields only true hashes, and only master-signed hashes are relayed. It holds across failed txdb writes, crashes, and reloads under a changed master key. |
| txinfo_store | `MC_TxInfoStore_inv.cfg` | pass | 3.2M distinct, ~100 s | `LatestIsNewest`: the is_latest flag is on exactly the newest row of each address and key. `UniqueValueSingleHolder`: no unique value is current at two addresses. |
| txinfo_refines | `MC_TxInfoStore_refine.cfg` | pass | 35k distinct, ~70 s | `ImplementsHistory`: the table refines `TxInfoHistory`. |
| wallet_setinfos | `MC_WalletSetInfos.cfg` | pass | 79k distinct, ~100 s | `DryRunAgreesWithHistory`: a dry run that passes the argument checks succeeds exactly when the abstract history accepts the batch's infos in order, each judged with the earlier ones set. |
| wallet_warning | `MC_WalletSetInfos_warning.cfg` | violation | | `IrreversibleInfosWarned` fails for an ID key other than `"n"` (see Findings). |
| alerts | `MC_Alerts.cfg` | pass | 960 distinct, 1 s | `NoStoredAlertCancelsAnother`: in any arrival and expiry order, no stored alert cancels another. `SafeModeExactly`: the RPC warning is non-empty exactly when `-testsafemode`, an invalid checkpoint or the upgrade deadline holds, or an applying stored alert has priority above 1000. |
| alerts_statusbar | `MC_Alerts_statusbar.cfg` | violation | | `StatusBarShowsHighestPriority` fails when the misc and old-checkpoint warnings both hold (see Findings). |
| walletstatus | `MC_WalletStatus.cfg` | pass | 1.5M distinct, ~90 s | `ContextRelocksOnlyAtScopeEnd`: with or without copy elision, the wallet is unlocked while the dialog holds a valid context and is relocked at most once, at scope end. `SendScopeRestoresLock`: after a send the wallet is unlocked for sending only if it was before, and a mint-only unlock that the dialog kept survives the send. The sends include `sendCoins` while the balance moves under it. |

Every property has a mutant in `PROJECT.json`: a plausible bug in the mapped
definition that TLC catches under the run's own configuration. The mutants are:
- the slot is never unmarked;
- the join stops at the first stale pad;
- an interrupted pad reports success;
- the early return forgets `set_value`;
- the busy test is dropped;
- the wait does not block;
- `_Undo` does not re-flag the newest row;
- the unique check covers only `INFO_UNIQUE`;
- the DELETE lacks `is_latest=1`;
- `ProcessRelaySignedHash` does not check the signature;
- the dry run checks each info against the table as the loop found it;
- the erase loop ignores cancellation;
- the "already cancelled" loop is missing;
- safe mode starts at priority 1000 rather than above it;
- `CopyFrom` leaves the source's relock flag set;
- the unlock context relocks whenever the wallet was locked, without the
  mint-only exception.

## Bounds and why they suffice

**RamhogPool.** Two miners and one checker, two slots (`NumSimultaneous`), two
pads and one worker, and one tip change (`MaxTip = 1`). This is the smallest
setup in which these things happen:
- two computations compete for slots;
- a slot is reused by a second call while the first call's jobs might still be
  queued;
- a stale job overwrites a pad of a live call;
- every one of the three interruption points is reached.

Symmetry over the miners is used only in the safety run, which has no liveness
property. The liveness runs use one miner (or one slot) so that they finish
within minutes.

**TxInfoStore.** Two addresses, two origins, and at most three processed rows in
`txinfo_store` (two in `txinfo_refines`, where checking the refinement is
costly). `Requests` takes one record for each path of `CTxInfoStore::IsValid`:
- normal-key records at both addresses and with both origins, and a second
  value, which are enough to stack and unwind a history;
- a write-once record;
- the same value for a unique key and for an ID key at both addresses;
- three records that `CTxInfo::IsValid` rejects: a non-ID value of an ID key, an
  unknown key type and an empty value.

The key string is a single valid one, because keys are told apart by their type.
An invalid key string takes the same path as an unknown key type: the record is
rejected. `MaxRows` also bounds `byteEstimate`, which grows without limit when
`Reset` runs inside a transaction.

**SignedHashCache.** The chain is genesis then `b1`, and `b2` is a block off the
chain. There are two keys, the master key and one other. Peers relay four
messages: master-signed hashes of `b1` and of `b2`, and two hashes of `b1`
signed by the other key, one of them with a forged PoW. Every initial txdb built
from these is checked, which covers:
- a txdb under the master key or under another key;
- a genesis block that the walk skips;
- an off-chain block that the key-change branch does not erase.

**WalletSetInfos.** Two addresses, the wallet owning one, and at most two
rows. The node's requests are: another address claiming the unique value,
and a write-once and a normal value at the wallet's address. Together they
make a dry run fail against the store. The batches are:
- an entry left clear (rejected by `validate`);
- one entry of each kind, including a name that is not an ID string;
- two batches whose second info must be judged with the first set: a second
  write-once value, and two normal values.

The warning run adds a second key string, so that an `"Id"` entry can set an
ID key other than `"n"`.

**Alerts.** Four alerts:
- priorities 1000, 1500, 100 and 5000, covering below, at and above the
  safe-mode threshold;
- one signed by another key;
- two that do not apply to this node;
- a chain of cancellations (3 cancels 2, 2 cancels 1);
- expiry times 1 and 2, with time running to 2.

Every subset of the six conditions is a possible initial state.

**WalletStatus.** There is one dialog at a time: it runs on the GUI thread,
as the whole model does. Figures other than the balance take values 0 and 1, which is enough for
every comparison in `update()` to differ or not. Every combination of
locked, mint-only and the dialog's two answers is reached, including a
mint-only flag left set by an earlier unlock of a wallet locked since.
Balances 0 to 2 with amounts of 1, `nTransactionFee = 1` and required fees
of 1 and 2 reach every return of `sendCoins`. `AmountExceedsBalance` needs
balance 0. The fee check fails at balance 1. Creation fails for want of
the fee when the balance is 2 and the fee is 2, and fails otherwise
whatever the balance. The balance can also fall between `SendCheck`, the
fee check and the locked section.

## Fairness

- Pool threads run `io_service::run` forever, and a caller blocks only in
  `waitPads.wait()` and in `get()`. So every step after a call has started is
  weakly fair, and so are the command-thread and worker-thread steps.
- Clearing the flag is weakly fair, because it follows the hash computation
  directly in `SendSignedHash`.
- A checker's busy test is weakly fair.
- Starting a miner call, starting a check and moving the tip are not fair: the
  code does not force them to happen.
- The semaphore is not fair. Boost's interprocess semaphore gives no order among
  waiters, and the model gives `RamhogWait` only weak fairness, so a waiting
  caller can lose every race for a permit.

## Findings

Findings 4 to 6 come from `Alerts`, `WalletSetInfos` and `WalletStatus`.

1. **Overlapping block checks can starve (`ramhog_twochecks`).**
   `fNeedCheckBlock` is a single boolean (`ramhog_mt.cpp:132`).
   `SendSignedHash` sets it before its hash computation and clears it after
   (`signedhash.cpp:194-196`). The violation happens in this order:
   1. Two checks overlap.
   2. The first to finish clears the flag while the second still waits for a
      permit.
   3. Miners pass the busy test again.
   4. With the unfair semaphore, the miners can take every freed permit, so the
      second check never completes.

   A counter of pending checks would keep miners out until the last check ends.
   Whether two `SendSignedHash` calls can overlap depends on the RPC layer, which
   is outside `src/`.

2. **Permits and slots are only eventually equal.** Permits in flight and
   `fPadUsed` slots are not equal at every instant. A caller holds a permit but
   no slot in two windows: between `wait()` and the scan, and between clearing
   its slot and `post()`. `PermitSlotAccounting` states the relation that really
   holds, and that relation is what makes the "mismatch" throw unreachable.

3. **The mix does not re-check the tip (a hazard now; the run is retired).**
   - `ramhog_mt` checks `pindexBest` before posting the pad jobs, and each pad
     job checks it before filling its pad.
   - After the join, nothing checks it again: the mix runs and the promise
     becomes true (`ramhog_mt.cpp:104-119`).
   - So when the tip moves after the last pad job's check, a miner call returns
     success for a stale tip. §8 of the spec says such a call returns
     Interrupted, but §4.3 calls the per-job check best-effort.
   - The cost is one wasted hash attempt: the mining loop sees the new tip at its
     next attempt.
   - `CmdJoin` still models this exactly. The violation run that showed it
     was retired, because the spec itself calls the check best-effort.

4. **The status bar hides the misc warning (`alerts_statusbar`).**
   `GetWarnings` sets `nPriority = 100` for a too-old sync checkpoint
   (`alert.cpp:46-50`) after the misc warning (disk space, wrong clock) has set
   it to 1000. The status bar then shows the lower-priority warning, and any
   alert with priority above 100 can replace the misc warning as well.

5. **No warning for ID keys other than the name (`wallet_warning`).**
   The confirmation question warns only for an ID key whose string is `"n"`
   (`addinfosdialog.cpp:95`). The store treats every ID key as unique and
   write-once. So setting any other ID key is confirmed with no warning that
   it can never be changed.

6. **The encryption-status cache is never written.** `update()` compares the
   status with `cachedEncryptionStatus` (`walletmodel.cpp:75`), but nothing
   assigns that cache after the constructor. For an encrypted wallet,
   `encryptionStatusChanged` is emitted on every call. This is listed as a
   hazard, not a run: the `Update` action states it directly, and its only
   effect is a redundant refresh.

## Not modelled, and the plan

What is left is recorded as hazards without a property, each with its reason:
- `ProcessAlert` refuses an alert after it has erased the alerts that alert
  cancels. `ProcessAlert` models this exactly, but nothing in the repository
  says which outcome is intended.
- A mint-only wallet stays locked when the user cancels the unlock.
- The mix does not re-check the tip (finding 3).
- The stale lookup table.
Each would need a violation run, and a claim in the repository to check it
against.

Left out entirely:
- the hash arithmetic (`ramhog_gen_pad`, `ramhog_run_iterations`), abstracted to
  which input a pad holds;
- `alert.h` (`CUnsignedAlert`, `IsInEffect`, `Cancels`, `AppliesToMe`), which is
  not in the repository and is taken as constants;
- block connection in `main.cpp`, which runs between `setInfos`'s two locked
  sections and decides whether a sent info is mined;
- `sendCoins`'s address-book label updates, the address and transaction
  table models, and the getters, which only forward to `CWallet`;
- the lookup dialog and model: `setAddress` builds a model that copies
  `RecordsWithAddress` once, and nothing refreshes it (`update()` has no
  caller). A display snapshot has no property beyond the store's own, and
  keeping old tables in the store's runs would multiply their states. A
  snapshot variable added to the store's runs was tried. With
  `ImplementsHistory` they ran past ten minutes, and without it past two
  and a half, so the lookup dialog has no run;
- one run for the pool's safety and starvation. The merge was tried and
  dropped: at one simultaneous hash the `AdmittedReturns` mutant deadlocks
  instead of violating, and the starvation case needs two;
- the composition of `WalletStatus` with `WalletSetInfos`: for the dialog an
  unlock only decides whether `setInfos` is called, which `Cancel` already
  leaves free, and what an unlock does to the wallet is checked by
  `SendScopeRestoresLock`;
- `transactiondesc.cpp` (HTML formatting of a transaction), the entry
  widget's layout and tab order, `pasteEntry` (no caller, and its `setValue`
  is empty), `rpcrawtransaction.cpp` (decoding, the mempool and relay, all
  outside `src/`), the JSON RPC and the tests: formatting and I/O with no
  state of their own.
