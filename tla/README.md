# Verification of Benzo's core

Benzo is private payments on Avalanche: a confidential token (encrypted ERC20,
"eERC") on its own L1, an API that runs payroll, treasury funding, onramp and
onboarding for organisations, and a wallet, a console, an explorer and a landing
page. This directory holds TLA+ models of the parts where money is kept and
moved and of the two services that feed them, TLC configurations that check them
on small instances, and theorems that TLAPS proves for all instances. Paths below
are relative to the repository; `contracts/` stands for
`backend/contracts/contracts/`, `api/` for `backend/services/api/src/`.

Run a model with `tlc -config MCEncryptedERC.cfg MCEncryptedERC.tla`,
a proof with `tlapm EncryptedERC_Proofs.tla`. `PROJECT.json` lists the runs, the
properties, the source lines of every definition, the hazards and the findings.

## 1. Inventory

| Component | State | Operations | Hard behaviour | What makes it correct |
|---|---|---|---|---|
| **EncryptedERC** (`contracts/eerc/EncryptedERC.sol`, `EncryptedUserBalances.sol`, `tokens/TokenTracker.sol`, `auditor/AuditorManager.sol`, `Registrar.sol`) | per user and token: ciphertext, history of spendable ciphertexts, nonce, transaction index, amount and balance PCTs; token ids; registered keys; auditor; used nullifiers; ERC20 reserve | register, deposit, depositFor, transfer, withdraw, privateMint, privateBurn, settings of the owner | proofs are built off-chain against a balance that is old when they land; replays; purge of the history; decimals, dust, fee tokens | it is a ledger: nobody spends more than they hold; owners can decrypt; reserve covers all balances; nobody else can invalidate a proof |
| **Treasury deposits** (`api/routes/orgs.ts` deposit route, `api/payroll/chain.ts`, `api/treasury/reconciler.ts`) | `treasury_deposits` row per idempotency key; nonce sequence of the managed key | claim, approve, sign, persist the hash, send, wait, confirm; reconcile | retries, crashes, lost answers, a lease, a shared nonce sequence, a concurrent reconciler | funded at most once; status agrees with the chain; rows settle |
| **Payroll** (`api/routes/payroll.ts`, `api/payroll/runner.ts`, `api/jobs/index.ts`) | `payroll_runs`, `payroll_items`, pg-boss jobs, per-org advisory lock | create, start, pause, resume; deliver, prove, sign, persist, send, confirm, finalize | at-least-once delivery, restarts, time-outs, operators racing handlers, throttled jobs | every item is paid at most once; statuses agree with the chain; a run ends; a pause holds |
| **Onramp** (`api/onramp/*`, `api/routes/onramp.ts`, `contracts/benzo/BenzoCCTPRouter.sol`) | `onramp_intents`, CCTP message nonces, mirror rows in `treasury_deposits` | create an intent; poll, attest, reassociate, park, settle, credit; receive for rescue | overlapping polls with rows read earlier, used nonces, lost receipts, an error that ends a whole poll | credits follow the burn; credited and mirrored agree; an attested burn is credited |
| **Gift escrow** (`contracts/benzo/PrivateGiftEscrow.sol`, `wallet/apps/wallet/src/lib/giftEscrow.ts`) | gifts, escrowed ERC20 | create, claim, refund | expiry, dust, fee tokens, a shared balance | open gifts are covered exactly; each pays out once |
| **Onboarding** (`api/onboarding/*`) | `onboardings`, `kyc_records`, `drips`, queue with dead letter | start, advance through KYC, allowlist, gas, registration | crash between a transaction and its record, handlers that outlive their jobs, unconditional writes | KYC before the allowlist; one drip a day; ends stay; registered users get to one |
| **Indexer** (`api/indexer/*`) | cursor and block hash per contract, events | scan a window, rewind, backfill | reorganisations before, between and during the calls of a scan; overlapping scans | events up to the cursor are those of the chain; nothing unconfirmed; it catches up |
| **Orgs, provisioning** (`api/routes/orgs.ts`) | orgs, members, sealed keys | CRUD, provision a treasury | retries after a partial failure | one key pair per treasury |
| **Identity, handles, invites, invoices** (`api/routes/identity.ts`, `contracts/benzo/HandleRegistry.sol`, `InvoiceRegistry.sol`) | handle bindings and their cache, contacts, invites, invoice status | claim, release, transfer; create, cancel, pay | cache against chain, races for one invite | one owner per handle, one claim per invite |
| **Auditor and disclosure** (`api/auditor/*`, `api/disclosure/*`) | audit log | decrypt, report, attest | none of its own: reads | - |
| **Auth, admin, API shell** | sessions, SIWE nonces, roles | login, CRUD | a nonce is consumed by one statement | - |
| **Wallet, console, explorer, landing, infra, scripts** | user interfaces and operations | - | - | - |
| **Verifier contracts, circomlib** | generated and vendored | - | - | - |

How they interact. The API signs the treasury's transactions with a managed key;
payroll transfers and treasury deposits therefore share one nonce sequence, without
a common lock (`TreasuryAccount`): each module has the other's transactions in its
environment (`SignOther`, `SendOther`, `MineOther`). A deposit converts ERC20 into private balance, a payroll
item is a private transfer: both are calls of EncryptedERC. The onramp router and
the gift escrow are authorized depositors that call `depositFor`; the escrow is
modelled composed with the token it credits. The API talks to itself through
pg-boss jobs and rows in Postgres, and operators talk to it through routes that do
not take the lock the job handlers take. Only an onboarded user has a registered
key, and only a registered key can be credited: the onramp parks what arrives
before. The indexer reads the contract's events; auditor, activity and disclosure
read the indexer's table.

## 2. Modules

| Module | Models | Used by |
|---|---|---|
| `EncryptedUserBalances` | the balance record and its storage operations, as pure operators | `EncryptedERC` |
| `HistoryPurge` | the loop of `_deleteUserHistory`, one iteration a step | - |
| `EncryptedERC` | the contract and its clients | the next two |
| `PrivateGiftEscrow` | the escrow, composed with `EncryptedERC` | `MCPrivateGiftEscrow` |
| `EncryptedERCRefinement` | the refinement mapping to `PrivateLedger` | `MCEncryptedERC` |
| `PrivateLedger` | the abstract promise: credit, debit, move | `EncryptedERCRefinement` |
| `TreasuryAccount` | nonces, pool and receipts of one account (chain and viem, external) | next two |
| `TreasuryDeposits` | deposit route, approve and deposit, reconciler | `MCTreasuryDeposits` |
| `PayrollRunner` | routes, queue and worker of a run | `MCPayrollRunner` |
| `Onramp` | intents, poller, relayer, router contract | `MCOnramp` |
| `Onboarding` | the advance loop of one user, its queue, the chain it acts on | `MCOnboarding` |
| `Indexer` | polls and backfills against a chain that reorganises | `MCIndexer` |
| `*_Proofs` | theorems | - |

### EncryptedERC

A call is one step: the EVM is atomic. What is not atomic is a *spend*: the client
reads the chain (`BuildSpend`: `getDecryptedBalance`, the balance check of
`buildTransferProofInput` and what the circuit constrains), proves, and submits
later. A built proof is a record in `proofs`, it names the ciphertext it was made
against, and `Transfer`, `Withdraw`, `PrivateBurn` and `PrivateMint` land it at any
time, any number of times, after whatever else has happened.

Correspondences:

* A ciphertext is `[m, r]`, what its owner decrypts from it and its randomness;
  addition and subtraction are those of ElGamal. The contract encrypts deposits
  and withdrawals itself, with fixed randomness 1, so two balances *can* have
  equal ciphertexts: `VerifyUserBalance` may then find a different entry than the
  one the prover read, as in the code.
* `balanceList` is the mapping keyed by the hash of ciphertext and nonce: an entry
  replaces one with its key (`Remember`). `amountPCTs` is a set because the order
  of the array has no meaning; `HistoryPurge` justifies that for the purge.
* `ConvertCredit` differs from `AddToUserBalance` as the code does: a deposit stores
  its amount under one index and commits the balance under the next.
* Token decimals appear as the factors `ScaleDown` and `ScaleUp` of each token, one of
  them 1.
* `depositFor` stores an `amountPCT` that is off by any member of `PctDrift`.
* `isConverter` is chosen once, from `Modes`: a converter takes deposits and pays
  withdrawals, a standalone token mints and burns. `Listable` are the tokens the
  owner may blacklist.
* Left out: proof verification (the verifiers are sound), chain id, metadata
  messages, events, access control of the owner's calls (the owner may make any).

### PrivateGiftEscrow

The escrow is one of the `Depositors`, its ERC20s are `erc[Escrow]`. `claim` is the
contract's transaction with the `depositFor` inside it (`CollectFrom`), the check
that something was credited and the dust that goes back to the sender. The status
machine, the shared balance, fees and dust are those of the source; the signature
of the link's key is the freedom to claim for any registered recipient. The
`amountPCT` of a claim is that of the gift's amount as the wallet computes it, in
units of the token, and not scaled to the decimals of the eERC.

### HistoryPurge

State: the array, the argument, the loop counter. `Iterate` is one pass of the loop
body with its swap and pop.

### TreasuryAccount

A transaction is `unsigned`, `signed`, in the `pooled` state, `dropped` because a
transaction with its nonce replaced it, or mined with an outcome. Nonces come from
the pending count when a transaction is signed. `waitForTransactionReceipt` of viem
follows a transaction it has seen in the pool to the one that replaced it and returns
the receipt of that one, and so does `ReceiptStatuses`; `eth_getTransactionReceipt`
(`OwnReceipt`) does not. A transaction that was dropped may be sent again as long as
its nonce is free.

### TreasuryDeposits

One row, several requests with its key: retries by a client that saw no answer, a
202 or a 502. Each request runs from await to await in one step (`pc`). `fresh`
says that less than 90 seconds have passed since `updatedAt`; the route's lease and
the reconciler's grace are the same 90 seconds. Every way out of the `try` block of
the route is an action: `GiveUp` (202 before the broadcast), `FailRow` (a revert),
`Refused` and the lost answer of `Broadcast` (the hash is cleared), `TimeOut` (the
hash stays for the reconciler), `ConfirmRow`. `Crash` ends a request at any point.
`PersistHash` may take effect and still report an error. The approval reads its nonce
in one step and is sent in the next (`SignApprove`, `SendApprove`), like the deposit.

The reconciler fetches a receipt in one step (`FetchReceipt`; `poll` is what it holds)
and writes it, after it has read the row again under its lock, in another
(`SettleRow`). `Others` are transactions of payroll and of deposits with other keys:
each takes its nonce whenever it likes, replaces a pooled transaction with that nonce or
is replaced by one, and lands or reverts. The requests of the key are numbered in the
order in which they arrive, which loses nothing and saves TLC the permutations.

`Faults` makes explicit on what the guarantees depend: `"slow"` allows a request to
outlive its lease, `"lost"` allows the node to take a transaction and the send to
report an error. A behaviour has none of them or all (`env`), and each property
says in its first conjunct, and in its comment, under which it holds.

### PayrollRunner

One run. `Load` to `WriteStatus` are the steps of `processPayrollItem` and
`confirmSubmittedItem` between two awaits, with `catch` and `throw` where the code
has them; `Lock` and `Unlock` are the org's advisory lock. `Fetch`, `GiveBack`,
`Unlock` and `Expire` are pg-boss: retries up to `retryLimit`, expiry after
`expireInSeconds` while the handler runs on, and `SendJob` with its singleton key:
no second job in the same slot of 30 days, even if the first is finished. `Restart`
kills handlers and requests and enqueues what running runs have outstanding
(`enqueueOutstandingPayrollItems`), the jobs of the dead process staying active
until they expire. Start, pause and resume check the run's status in one step and
write it in another. `EndStart` is also the end of a resume. `Finalize` counts the items
and `WriteStatus` writes the run, while the other actors move.

The handler's wait has two forms: after a send the node took, or answered with
"already known", viem has the transfer in the pool before it and follows a
replacement (`watch`); after "nonce too low" it can only find the transfer's own
receipt (`await`).

A transfer succeeds only if the treasury's balance is the one it was proved against:
here every landed transfer changes it, which is what EncryptedERC's nonce does to
the proofs of an account that has spent.

Left out: the branch for a missing address (pending rows always have one), the
branch for a submitted item without a hash (both are written together), CSV
parsing, the funding check at start, more than one run per org. The transactions of deposits and of other runs are
`Others`: a deposit signs and sends without the payroll lock at any time; those of
another run are sent under the lock, but stay in the pool after it is released.

### Onramp

An intent is the row of a source transaction hash, the first submission of which
counts, with the owner and the source domain its submitter named. A burn is a
CCTP message: whom it is for and what may be wrong with it (`Forms`). A poll reads
the rows in the order of `updatedAt` (`StartPoll`), and then drives each, with the
status it has *read*, through the calls of `processIntent`; `transitionIntent`
reads the status again and compares when it writes, `patchIntent` does not.
Several polls run at once, because a poll that outlives its job goes on. The
relayer's estimate, send and wait are three steps; `settleDeposit` is the router
contract, in which a used nonce reverts; `receiveForRescue` uses a nonce without a
deposit. `Abort` is any exception: it ends the poll with all intents behind it.

`byUpdate` holds the intents a poll would select, those not settled, in the order of
their `updatedAt`: `Write` moves a row to the end, or takes it out when it settles
(`Without`).

The states `attested`, `minted` and `credited` are entered as the code does:
`minted` and `credited` in one database transaction with the mirror row, so
`minted` is never seen and the poller's fast path for a `minted` intent with a
hash is not reachable from the code's own writes.

Left out: the byte layouts of message, hook data and attestation; the owner's
configuration of the router; and the two early returns of `finalizeTreasuryFunding`
(`api/onramp/poller.ts:247`, `257`). The first needs an intent without an amount, and
every intent that is credited has got one from `reassociateIntent` or
`attestationPatch`. The second needs a token that is not configured: the fund route refuses
such an intent (`api/routes/orgs.ts:842-850`), so it takes a deployment that drops the
token while a burn is under way, and `MirrorAgrees` presumes that there is none.

### Onboarding

One user. A handler runs `advanceOnboarding`: it reads the row, makes one call, and
writes unconditionally, one step each. A job is delivered with its try; a job that
expires goes back to the queue while its handler goes on (`run[h].mine`). `failJob`
is pg-boss: a retry up to `RetryLimit`, then the dead letter queue. `setEnabled` and
the drip are sent and mined later, or, for `setEnabled`, dropped. `sent`, `blind` and
`slow` are history variables of the properties: drips of the day, a drip that
another could not see in the table, a handler that outlived its job. A deployment has
an allowlist (`allow = "none"` at first) or is the public testnet, which has none
(`"open"`, `api/onboarding/chain.ts:144-149`): there `readAllowList` goes on at once.

Left out: `balance_sufficient` of the drip itself (no chain client returns it), the
content of KYC, and the admin drip of `api/routes/admin.ts`.

### Indexer

One contract: contracts are scanned one after the other and share nothing. A block
is its height and the fork it was made on, which stands for its hash. `Reorg`
replaces the last blocks by as many of another fork. The scan's answers are two
steps in any order, `getLogs` and `getBlock`; the parent hash is compared in a
third; the transaction that stores rows and cursor is a fourth. Only the reads a scan
starts with (`scanner.ts:65`, `122`, `125`) are one step (`StartPoll`): until it asks for
the first boundary it has acted on none of them, and a cursor or target that is old
by then is what a slow scan has anyway. A poll starts from
the stored cursor, a backfill from a block the operator names, and deletes each
window before it writes it.

`Faults` says what the environment may do beyond that: `"torn"`, confirmed blocks are
reorganised during a scan; `"gap"` and `"mask"`, a backfill starts beyond the first
unscanned block or over a mismatch; `"overlap"`, a poll starts over a mismatch beside
another scan. The run has none of them; see the observations. Backfills start at or
after `StartBlock`, where the code takes any number.

## 3. Properties and runs

### Runs that pass

| Run | Instance | Checks | States |
|---|---|---|---|
| `token` | 2 users, 1 depositor, 1 token coarser than the eERC, 2 proofs used up to twice; converter and standalone | `TypeOK`, `AlwaysDecryptable`, `SnapshotsCovered`, `MintedOnce`, `ImplementsLedger`, `OthersKeepProofsValid` | 372k |
| `gifts` | 2 gifts, 2 users, 4 tokens (finer than the eERC by 2 and by 4, coarser, with a fee) of which 2 are added, 1 proof, 2 points in time | `GiftsTypeOK`, `EscrowIsExact`, `ClaimsPayOut`, `Solvent` | 934k |
| `history_purge` | every array of at most 4 of 5 indexes | `PurgesExactly` | 4.6k |
| `deposits` | 3 requests without faults, or 2 with both; a transaction of payroll or of another key | `TypeOK`, `NeverDoubleFunds`, `NullHashIsUnsent`, `ConfirmedIsSettled`, `FailedMovedNothing`, `FundedUnlessReplaced`, `ReconciledByItsReceipt`, `BroadcastRowsSettle` | 339k |
| `payroll_pair` | 2 items, 2 handlers, 1 attempt, 2 slots, 1 fault, 1 request, a competing deposit | `TypeOK`, `ConfirmedIsPaid`, `TerminalMeansSettled` | 4.4M |
| `payroll_settling` | 1 item, 2 handlers, 2 attempts, 2 faults, 2 requests, a competing deposit | `PaidOnce`, `FailedIsUnpaid`, `OnlyOperatorsResume`, `RunSettles` | 796k |
| `onramp` | 1 burn of any form, 2 users of whom one is a treasury, 2 polls, 2 faults | `TypeOK`, `CreditedIsReceived`, `MirrorAgrees`, `SettledStays`, `BurnsAreCredited` | 87k |
| `indexer` | 2 scans, 5 blocks, windows of 2, 1 confirmation, 1 reorganisation, 1 fault or backfill | `TypeOK`, `IndexIsCanonical`, `OnlyConfirmed`, `CatchesUp` | 162k |
| `onboarding` | 2 handlers, 2 tries, 2 drips, 2 faults | `TypeOK`, `CompleteIsOnboarded`, `DripsAreLimited`, `TerminalIsFinal`, `RegisteredEnds` | 612k |

What they show, in words:

* The confidential token **is a ledger** (`ImplementsLedger`), although spends are
  checked against old ciphertexts: the nonce retires exactly the balances a spend
  has made unsafe, and the set of balances it leaves keeps everyone else's proofs
  good (`OthersKeepProofsValid`). Owners can always decrypt (`AlwaysDecryptable`)
  as long as depositors state the right amount, and the reserve redeems every
  balance (`Solvent`), the escrow's claims included.
* The gift escrow holds **exactly** what its open gifts add up to, through dust, fees
  and tokens of any decimals, and a claim splits a gift without loss between the
  recipient and the sender.
* A deposit key funds **at most once**, provided requests finish within the lease
  and the node does not lose answers. "Confirmed" can lie in one way only: a
  transaction that funds nothing replaced the deposit in the pool, and its success
  was taken for the deposit's (`FundedUnlessReplaced`, with any faults; the run
  `deposit_replaced` shows that it happens). The reconciler never adds a lie of its
  own, whatever became of the row since it asked for the receipt.
* A payroll item is **paid at most once**, and neither "failed" nor an ended run lies,
  through retries, expiry, restarts, failing queries and deposits that compete for
  nonces. "Confirmed" means paid but for the same case: a deposit that replaced the
  transfer in the pool.
* An onramp credit goes to **the owner the burn names**, whoever submitted the hash,
  after the message was received, together with its ledger row, once; overlapping
  polls never move an intent that is settled.
* Nobody enters the allowlist before KYC and no onboarding is complete before the
  registration is on chain, although every write is unconditional; a second drip in
  a day always has a lost or late record behind it.
* The index, when its boundary hash is on the chain, **is** the chain up to the
  cursor, after reorganisations of up to one window of confirmed blocks.

Deadlock is not checked: requests, proofs, blocks and jobs run out in every
instance, and a system with nothing left to do has stopped.

### Runs that are violated

These state what the repository says and exhibit behaviour of the code that
differs; details and quotations are under `findings` in `PROJECT.json`.

* `payroll_stranded`: "nonce too low" is taken for success, so a stored transfer
  that was never sent can stay `submitted` for ever.
* `deposit_replaced`: "a persisted `confirmed` deposit reflects a tx that actually
  settled" (`api/payroll/chain.ts:459-461`). A payroll transfer takes the nonce of the
  pooled deposit; `waitForReceipt` (`chain.ts:341-351`) gets the receipt of the transfer,
  looks at its status and not at its hash, and the row is confirmed without funds. The
  worker waits the same way (`api/payroll/runner.ts:363-384`), so a deposit that
  replaces a pooled transfer confirms an item that was not paid.
* `onramp_blocked`: the first submission of a hash names another source domain; the
  poller asks for it there for ever, and the recipient is never credited.

Observations without a run of their own; the models contain the behaviour:

* Deposits. With `"lost"` or `"slow"` alone TLC finds `NeverDoubleFunds` violated when
  its condition is dropped. A send error of a node that took the transaction clears
  the hash (`api/payroll/chain.ts:509`, `api/routes/orgs.ts:674-692`) and the retry
  funds again; the lease of 90 seconds (`orgs.ts:562`) is not renewed while the
  approval is awaited, so two requests may both send and overwrite each other's row.
  The comment at `chain.ts:478-481` rules both out. Nothing bounds the wait for a
  receipt by the lease either, so `"slow"` is no exotic case: `FailRow`
  (`orgs.ts:701-704`) of a request that comes back late is not guarded by the row's hash.
* A deposit that was replaced while its request timed out, or died, is never settled:
  the reconciler asks for the receipt of a transaction that will not have one, and
  the row stays `submitted` (`Replaced` in `BroadcastRowsSettle`).
* A deposit has the same problem as `payroll_stranded`: the request waits for a
  transaction no node has, and its row keeps a dead hash (`Refused`).
* A crash between storing the hash and sending leaves a row with a hash of a
  transaction nobody has, which no path of the code ever revisits. The comment in
  `onBeforeBroadcast` (`orgs.ts:661-664`) says a failed update marks the row
  `failed`; the code leaves it `submitted`, as the model does.
* `amountPCT` of `depositFor` is unverified. EncryptedERC.sol:521-524 calls an error
  of a fee "cosmetic"; with `PctDrift = {0, 1}` TLC finds `AlwaysDecryptable`
  violated, and `getDecryptedBalance` (`api/payroll/eerc.ts:332`) then refuses to build
  any spend. The wallet's claim of a gift states the amount in units of the token
  (`giftEscrow.ts:343-366`): right for USDC, which has the eERC's decimals, and
  wrong for a token with others. The `gifts` run therefore does not check
  `AlwaysDecryptable`.
* Start, pause and resume check the status and write it unconditionally after an
  await (`BeginPause`, `EndPause`): a run that ended in between is paused or running
  again, the latter with nothing left to do, so `RunSettles` speaks of runs with items
  outstanding. A job that runs while its run is paused is consumed, and the resume cannot
  send it again for 30 days (`api/payroll/runner.ts:162`): the item waits for a
  restart of the API.
* Onramp. An intent whose burn does not decode, or any call that throws, ends the
  poll with the intents behind it (`api/onramp/poller.ts:109`), and comes first again in
  the next poll unless its row was written; the run has one intent and does not show
  this. An intent that Iris
  has no answer for keeps its `updatedAt`, and fifty of them fill every poll
  (`poller.ts:107`). A burn that was rescued and is valid afterwards, because its
  user has registered, is credited without a deposit (`api/onramp/relayer.ts:223`).
  Two messages of one source transaction, with polls that overlap, may leave an
  intent with the owner of one and the nonce of the other: the properties speak of
  transactions with one message (`Alone`).
  A fund intent that is reassociated to a user keeps its org, and its credit is
  mirrored as the org's.
* Indexer. Each of `"torn"`, `"gap"`, `"mask"` and `"overlap"` in `Faults` makes TLC
  find `IndexIsCanonical` violated. `"torn"` is the one the code can meet unaided: logs
  and boundary block are two calls (`api/indexer/scanner.ts:219`), and the logs of
  one fork under the hash of the other are never noticed. It takes a reorganisation of
  confirmed blocks: a scan asks only for blocks up to its confirmed target, which
  shallower ones never touch, so the run, which has no `"torn"`, has no torn answers.
  A reorganisation deeper
  than confirmations and window is not noticed either: the rewound boundary takes
  the hash of the chain of now (`scanner.ts:379`).
* Onboarding. An onboarding that is complete can be marked failed by the last try of
  a job, or by its dead letter. A `setEnabled` that is dropped is never sent again:
  the row says allowlisted, and the user waits for ever. A handler that outlives
  its job can move a row that ended back (`updateOnboarding`, unconditional).

### Bounds

Every bound is a CONSTANT and a guard: `MaxIndex` (history per account), `MaxUses`
(executions of a proof), `MaxTokens`, `Listable`, `MaxLength`, `StormRequests`,
`MaxSlots`, `MaxFaults`, `MaxRequests`, `MaxTime`, `PollLimit`, `MaxBlocks`,
`MaxReorgs`, `MaxDrips`. They are enough for the cases that matter.
A spend goes wrong only through something between its read and its landing: two
proofs of one account, a second account that credits it and a depositor give every
order of two spends, a replay and credits, and `MaxIndex` of 6 leaves room for
two spends and two credits on the same account. In standalone mode the same two
proofs are a mint and one spend, each submitted twice, in any order: few states, but
every replay of a mint. Two gifts are what it takes for one
to be paid from the other's money; a gift of 3 leaves dust at a factor of 2, is all
dust at a factor of 4 and is exact for the coarser token, and a deposit of 0
registers the token with a fee, whose gifts can only be refunded. A `MaxIndex` of 4 lets
an account be credited, by a deposit, a transfer or a claim, and then spend: a deposit
of 3 of the coarser token is 6 private, and a withdrawal of 3 of those pays 1, the rounding `Solvent` has to survive; with two token ids a balance may belong to a
token the reserve of the other would cover. `Listable` is empty there, the `token` run
has the blacklist. In `TreasuryDeposits` a hazard
needs one request that is overtaken and one that overtakes; the third, without
faults, retries what is left. A competing
transaction may take the nonce of the approval or of a deposit before it is sent,
while it is in the pool, or between two deposits. In `PayrollRunner` `MaxAttempts` of 2 has a
first and a last attempt, and two faults a crash on top of a lost answer; with two
items the one attempt is the last, and a second slot sends a job again. `payroll_settling` has more
deliveries than faults, because a run whose jobs are used up by
more failures than `retryLimit` is not expected to end by itself. Two polls are a
stale one and one that overtakes it, and two faults a lost receipt and an abort.
Five blocks from the second, in windows of two, give two full windows, one that
begins at the start block and one cut off by the target, and a rewind that stops
at the start block. Two tries are a first and a last one, and two faults an expiry
beside an error. Symmetry is used only in runs without liveness properties.

Each property of a passing run has a mutant, an operator beside the definition it
replaces that changes it the way a plausible bug would (a nonce that is not bumped,
a missing recheck under the row lock, a time-out that counts as a failure, a rewind
that leaves its rows); TLC finds the property violated with it.

### Fairness

`EncryptedERC` and `PrivateGiftEscrow` need none: nobody must act.
`TreasuryDeposits` assumes weak fairness
of each request's handler (Node runs a promise to its end), of the chain's
inclusion of what is in the pool, of the clock and of the reconciler (a cron job of
`api/jobs/index.ts`). `PayrollRunner` assumes it of the requests in progress, of
every enqueued send, of delivery and of each handler, of the chain, and of the
expiry of jobs that nobody works on. `Onramp` assumes it of each poll, which a cron
job starts, and of the chain; `Indexer` of each scan, another cron job; `Onboarding`
of delivery, of each handler, of the expiry of orphaned jobs and of the dead letter
worker. Nothing is assumed about operators, users, faults, restarts, attestations,
new blocks or time-outs, and a step that may fail is allowed to fail each time the
bound permits.

## 4. Proofs

TLAPS proves, from the named assumptions on the constants alone:

| Theorem | Module | Statement |
|---|---|---|
| `Invariance` | `EncryptedERC_Proofs` | `Spec => []IInv` |
| `TypeCorrect` | `EncryptedERC_Proofs` | `Spec => []TypeOK` |
| `SpendsAreCovered` | `EncryptedERC_Proofs` | `Spec => []SnapshotsCovered` |
| `MintsAreSingle` | `EncryptedERC_Proofs` | `Spec => []MintedOnce` |
| `ContractImplementsLedger` | `EncryptedERC_Proofs` | `Spec => ImplementsLedger` |
| `ContractIsSolvent` | `EncryptedERC_Proofs` | `Spec => []Solvent` |
| `PctsAccountForBalance` | `EncryptedERC_Proofs` | `PctDrift \subseteq {0}` proves `Spec => []AlwaysDecryptable` |
| `AcceptedProofsStayValid` | `EncryptedERC_Proofs` | `Spec => OthersKeepProofsValid` |
| `GiftsInvariance` | `EncryptedERC_Proofs` | `GiftsSpec => [](IInv /\ SInv /\ GInv)` |
| `GiftTypes` | `EncryptedERC_Proofs` | `GiftsSpec => []GiftsTypeOK` |
| `SolventWithGifts` | `EncryptedERC_Proofs` | `GiftsSpec => []Solvent` |
| `EscrowBalances` | `EncryptedERC_Proofs` | `GiftsSpec => []EscrowIsExact` |
| `ClaimsPayInFull` | `EncryptedERC_Proofs` | `GiftsSpec => ClaimsPayOut` |
| `PurgeIsExact` | `HistoryPurge_Proofs` | `Spec => []PurgesExactly` |
| `Invariance` | `Onboarding_Proofs` | `Spec => []IInv` |
| `TypeCorrect` | `Onboarding_Proofs` | `Spec => []TypeOK` |
| `CompleteMeansOnboarded` | `Onboarding_Proofs` | `Spec => []CompleteIsOnboarded` |
| `DripLimit` | `Onboarding_Proofs` | `Spec => []DripsAreLimited` |
| `EndIsFinal` | `Onboarding_Proofs` | `Spec => TerminalIsFinal` |
| `Invariance` | `Indexer_Proofs` | `Spec => []IInv` |
| `TypeCorrect` | `Indexer_Proofs` | `Spec => []TypeOK` |
| `NothingUnconfirmed` | `Indexer_Proofs` | `Spec => []OnlyConfirmed` |
| `IndexIsExact` | `Indexer_Proofs` | `Faults = {}` proves `Spec => []IndexIsCanonical` |
| `Invariance` | `Onramp_Proofs` | `Spec => []IInv` |
| `TypeCorrect` | `Onramp_Proofs` | `Spec => []TypeOK` |
| `CreditsAreReceived` | `Onramp_Proofs` | `Spec => []CreditedIsReceived` |
| `MirrorIsExact` | `Onramp_Proofs` | `Spec => []MirrorAgrees` |
| `SettledRowsStay` | `Onramp_Proofs` | `Spec => SettledStays` |
| `InductiveInvariant` | `TreasuryDeposits_Proofs` | `Spec => []IInv` |
| `DepositTypes` | `TreasuryDeposits_Proofs` | `Spec => []TypeOK` |
| `FundedOnce` | `TreasuryDeposits_Proofs` | `Spec => []NeverDoubleFunds` |
| `NothingBehindNull` | `TreasuryDeposits_Proofs` | `Spec => []NullHashIsUnsent` |
| `FailedIsFree` | `TreasuryDeposits_Proofs` | `Spec => []FailedMovedNothing` |
| `ConfirmedLanded` | `TreasuryDeposits_Proofs` | `Spec => []ConfirmedIsSettled` |
| `ConfirmedFunded` | `TreasuryDeposits_Proofs` | `Spec => []FundedUnlessReplaced` |
| `ReconcilerIsCurrent` | `TreasuryDeposits_Proofs` | `Spec => ReconciledByItsReceipt` |
| `InductiveInvariant` | `PayrollRunner_Proofs` | `Spec => []IInv` |
| `RunTypes` | `PayrollRunner_Proofs` | `Spec => []TypeOK` |
| `NobodyPaidTwice` | `PayrollRunner_Proofs` | `Spec => []PaidOnce` |
| `ConfirmedRowsPaid` | `PayrollRunner_Proofs` | `Spec => []ConfirmedIsPaid` |
| `FailedRowsUnpaid` | `PayrollRunner_Proofs` | `Spec => []FailedIsUnpaid` |
| `EndedRunsSettled` | `PayrollRunner_Proofs` | `Spec => []TerminalMeansSettled` |
| `WorkersKeepPauses` | `PayrollRunner_Proofs` | `Spec => OnlyOperatorsResume` |

These are all the safety properties of the passing runs. The assumptions are bounds
in `Nat` and sets that are finite (`UserAssumption`, because accounts are added up;
`RequestsAssumption` and `ItemsAssumption`, because the pending count is a
cardinality), and that the escrow contract is not an account (`EscrowAssumption`).
Two theorems have a hypothesis beyond these, the one their run is made under:

* `PctsAccountForBalance` speaks of `depositFor` callers that encrypt the amount they
  deposit. The contract does not check that (a listed hazard, and section 3), and
  nothing can be proved without it.
* `IndexIsExact` assumes `Faults = {}`. Each of the four faults alone leaves rows of an
  abandoned fork or a gap, which is what they are declared for.

The lemmas of `TreasuryAccount_Proofs` say of one account that a nonce just taken has
no rival, that the pool holds no two of one nonce and that the pending count never
falls; the theorems of both its users rest on them.

The argument for the contract. `SnapshotsCovered` is not inductive: that a spend
from an old snapshot leaves the other snapshots covered depends on the spend moving
the account to a nonce no entry has yet. `NoncesPast` says that (no entry carries a
later nonce than the account), `ProofsSound` keeps what the circuits guarantee of a
proof until it lands (the amount is between 0 and the balance in the ciphertext it
names), and `UnusedUntilBuilt` keeps counters at zero until a slot holds a proof.
`IInv` is their conjunction with the type invariant. The storage operators get
lemmas of their own (`CommitGood`, `AddGood`, `ConvertGood`, `SpendGood`): each
keeps a record good if its input is; there is then one step per action. In the
refinement a registration, a setting or a built proof is a stutter; a deposit or a
mint a `Credit`; a withdrawal or a burn a `Debit`; a transfer, to oneself included,
a `Move`, whose amount `SpendGood` bounds by what the sender holds.

The argument for sums. `SumFunctionOnSet` and `MapThenSumSet` of the community modules
are folds. The library's induction takes a formula as a parameter, which the provers
cannot instantiate; the first section of `EncryptedERC_Proofs` does without: a finite
set of subsets has a minimal one (`MinimalSubset`, from the library's theorem that strict
inclusion of finite sets is well-founded), so a property of sums fails at a smallest set or nowhere. That gives the
recursion (`SumStep`), that any element may be taken out first (`SumSplit`), and what
inserting or changing one value does (`SumInsert`, `SumUpdate`).

The argument for solvency. `Backed` states `Solvent` of the total of the ledger, which
`DepositMoves` and `SpendMoves` change by one value a step; `DepositBacked` and
`WithdrawBacked` are the scaling. What a token backs is found through its id, so the
token table must be in order (`TokensAssigned`: no two tokens share an id), an id must
be empty before it is given out (`UnassignedEmpty`), and mints go to id 0 only
(`MintsOwnToken`).

The argument for the PCTs. That they add up now says nothing of what a spend from an
older balance leaves. `PctsCounted` says it for each snapshot of the current nonce: its
plaintext and the amounts credited after its index are the balance. A spend purges
exactly the amounts up to that index, and `SpendsCounted` fixes the PCT it stores.

The argument for proofs in flight. While the nonce of the sender stays, its keys in
`balanceList` only grow (`StepKeepsHistory`), so the snapshot a proof names is found
again; a withdrawal found payable stays so because the reserve backs the balance it is
taken from (`Payable`, from `Backed` and `SnapshotsCovered`), and a token keeps its
address.

The argument for gifts. To the escrow's contract, a claim is a deposit that returns the
dust to somebody else, so `IInv` and `SInv` carry over from the lemmas on
`CollectFrom`. `EscrowHolds` is `EscrowIsExact` with the sum over the open gifts as a
function of the gifts, which each action changes at one gift (`SumOpened`,
`SumClosed`); that only the escrow moves its ERC20s is `OthersKeepEscrow`. For
`ClaimsPayOut` a claim must credit the id the gift's token had when the gift was
created (`TokensKnown`), and scaling up again must return the amount without its dust
(`ValueReturns`).

The argument for the loop: what is above the counter has been examined, what is at
or below it is untouched, the entries above are exactly those to keep, and no entry
occurs twice.

The argument for onboarding. The row alone says nothing, because a handler may hold
an answer from long ago: `KycFirst` and `RegisteredFirst` state of every program
counter beyond the KYC step, or about to write `complete`, what the row's statuses
mean, and both facts are monotone. `DripsRecorded` says that, as long as no drip
went unseen, at most one handler is dripping, it is the first of the day, and each
drip has its row or a handler about to write it. `OneOwner`, `JobsInOrder` and
`EndedIsLeft` tie handlers to the active job: while none outlives its job, a handler
that finds the row ended only reads, finishes, or is the last try that gives up.

The argument for the indexer. A scan writes cursors and rows it computed steps ago;
`Bounded` says of its target, its cursor and the logs it holds what `OnlyConfirmed`
says of the table, and is kept because a reorganisation does not shorten the chain.
It holds for any `Faults`, torn answers and gaps included. `IndexIsCanonical` needs more
than is true of the table: `ScanOn` says what a scan on the chain has read and has
stored up to its cursor, `ScanOff` that a scan standing on a hash that left the chain is
alone and will rewind, and `RowsSound` that below the point it rewinds to the rows are
those of the present chain (`RewindPoint`: a confirmed reorganisation is no deeper than
a window below the cursor).

The argument for the onramp. The properties speak of transactions that carry one
message (`Alone`); of those with more, the code takes the first that fits the row as it
is then. A poll works on a row it read long ago, so `IInv` cannot say that its copy is
right: `WorkSound` says what stays true of it whatever other polls write (a message read
belongs to the transaction, a status beyond `initiated` means the row has its nonce, a
settled status is final), and `StageSound` what each stage of `processIntent` has
established. `Grows` states once what no step of anybody takes away (messages and used
nonces, an owner once it is the burn's, a settled row), and with it the facts of the
other polls are kept in every action. The credit needs `Only(t) \in used` at the stage
`credit`, which holds because settling returns only after the nonce is used, by itself
or by another.

The argument for deposits has a layer for each condition. Under any faults
(`SuccessFunds`): a deposit that landed moved funds; a request that has seen a success
saw that of its own deposit, of another deposit, or of an approval or foreign
transaction that replaced its own, because a nonce that is used up belongs to one
transaction (`Ordered`, in `TreasuryAccount_Proofs`); what was mined and what was
dropped with a used nonce stays so, which carries it on to the row. `PollTrue`: the receipt the
reconciler holds is the outcome of the deposit it names, for good, and the row it
writes has that hash when it writes. While requests keep to their lease (`HeldAlone`): the
one that works holds the row under the hash its place says, every other request of
the key is finished or has not begun, so what takes the nonce of its deposit is
foreign (`ForeignTakes`). In a quiet environment (`NamedByRow`): a deposit in the pool
or on the chain is the one the row names, in a status no retry takes over, which is
what makes funding happen once.

The argument for payroll. `PaidOnce` speaks of transfers that landed; what is
inductive is `Ledger`: whatever was ever *sent* for an item is the transfer its row
names, and an attempt above the row's counter is unsigned. A handler may stop anywhere
because the name is written before the transfer is sent and never changed while a
transfer can land; `AtWork` states what a handler knows at each step and `OneAtWork`
that the org lock lets nobody else change it. What a wait may return is settled by
`Unrivalled`: while a handler waits, no transfer of the run, of whatever item, holds the
nonce of its own, so the success it sees is its own or somebody else's (`Lands`). That
count and write are apart does no harm because the items of a settled run do not move
(`EndsAreTrue`, `CountedToWrite`). Nothing is assumed of faults, restarts, expiry,
competing transactions or the number of deliveries.

What is only model-checked. The liveness properties (`BroadcastRowsSettle`,
`RunSettles`, `BurnsAreCredited`, `CatchesUp`, `RegisteredEnds`): fairness and `ENABLED`
are beyond the prover. Reorganisations are modelled for the indexer
only: elsewhere the code waits for confirmations, and the models take a mined
transaction as final.

## 5. Not modelled

* The cache of handles (`api/routes/identity.ts:203-259`). A lookup reads the cache,
  asks the chain, and mirrors the answer; two lookups that overlap a release and a
  new claim may mirror in the wrong order, and the cache answers when the chain does
  not (`source: "cache"`). Nothing else in the API acts on it; the registry contract
  is a map with one guard per call. Invites are claimed by one conditional update;
  contacts are CRUD. The orchestrator that starts onboarding for a claimed invite
  does nothing in this build.
* `InvoiceRegistry.sol` and `GiftEscrow.sol`: status machines of single transactions,
  the latter the older form of the escrow that is modelled, without private credit.
* Treasury provisioning and members (`api/routes/orgs.ts`): sequential, with updates
  that fill only what is empty; its partial failures are listed as a hazard.
* The payroll lock's connection (`api/payroll/runner.ts:503`) is assumed to outlive the
  handler.
* Auditor reports, disclosure, authentication, administration (with its own drip) and
  the API shell: reads, single statements and CRUD.
* `packages/core` of wallet and console (`client.ts`, `pool.ts`): the client of an
  earlier note-pool protocol; the applications use its types and account helpers.
* User interfaces, infrastructure, deployment scripts, generated verifiers, circuits
  beyond what their proofs state, and cryptography.

## 6. Plan

1. *(done)* The confidential token, its abstract ledger, refinement and proofs; the
   purge loop; treasury deposits; payroll; the onramp; the gift escrow; onboarding;
   the indexer; proofs of the last two, of deposits and of payroll.
2. *(done)* Theorems on solvency, decryptability, proofs in flight, the gift escrow, the
   onramp and the rows of the indexer: with them, every safety property the passing
   runs check.
3. `PayrollRunner` with a lock connection that may break; payroll and deposits
   composed over one `TreasuryAccount`, where today each has the other's
   transactions as an environment that signs and sends them at any time.
4. The cache of handles and the provisioning of treasuries.
