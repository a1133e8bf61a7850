# A TLA+ model of 0pnMatrx

0pnMatrx is a self-hosted gateway that puts a chat agent in front of some fifty
blockchain services, with the accounts, conversations, memory and gas budget that
belong to it, and a set of Solidity contracts those services call. This
directory holds TLA+ modules of its core, TLC configurations that check them on
small instances, and TLAPS proofs of what matters most. Paths below are relative
to the repository, which the modules and `PROJECT.json` call `src/`.

## Inventory

A request comes in over REST or a WebSocket (`gateway/server.py`,
`gateway/bridge.py`), is attributed to an account by its bearer token
(`runtime/auth/session_store.py`), is admitted to a conversation
(`runtime/memory/manager.py`), and runs through the ReAct loop
(`runtime/react_loop.py`), which calls a model, the protocol stack and tools.
Everything is stored in one SQLite file (`runtime/db/database.py`). The whole
gateway is one process on one asyncio event loop; the one thing several worker
processes write at once is the sponsorship ledger.

| Component | State it keeps | Operations | What makes it correct |
|---|---|---|---|
| Conversations, claims, erasure: `memory/manager.py`, `gateway/server.py`, `react_loop.py` | tables `conversation_owners`, `conversation_turns`, `agent_turns`, `conversation_erasures`, `conversation_erasure_state`; two bounded caches in the manager; the gateway's working set; protocol stacks by scope | admit a turn, claim a conversation, start, remember and record the turn, erase an account, prune the erasure log, evict, restart | no turn writes past a claim or an erasure; nothing erased is left or comes back; nobody sees another account's words; no turn is refused for nothing |
| Sessions and nonces: `auth/session_store.py`, `gateway/server.py` | `wallet_sessions`, `siwe_nonces`, a cache of each | ask for a nonce, verify, sign in with Apple, expire, clean up, remove, restart | a nonce is exchanged once; who is told he is signed in stays so |
| Account deletion and push tokens: `gateway/server.py`, `notifications/token_store.py`, `gateway/bridge.py` | `push_tokens`, what the deletion read before it erased | adopt, erase, unregister, close the session, each committed alone; retry | a deletion that says it is complete is; a retry can finish one that is not; nobody else's device goes |
| Gas sponsorship: `blockchain/sponsorship.py`, the paymaster routes | `sponsorship_spend`, shared by the worker processes | authorize and reserve, sign, commit, hand over, release, settle, abandon | the daily cap holds over what was signed; nobody is charged for what was not |
| Tool gate, dispatcher, handoff: `react_loop.py`, `protocols/integration.py`, `tools/dispatcher.py`, `agents/handoff.py` | the turn's messages, which gates could be built, who called | ask for a tool, consult each gate, refuse, dispatch, hand off to Neo | no call that could move value runs past a gate that is missing, failed or said no |
| Transactions: `blockchain/web3_manager.py` | the nonce lock, receipts | sign, send, wait for the receipt | one nonce, one transaction; an answer that is true later as well |
| Attestations: `services/attestation/`, `eas_client.py` | a queue in memory, attempts | add, flush at the threshold, submit, put back | what landed is not written again for its neighbours' failure; the queue stays bounded |
| Real estate: `services/real_estate/`, `PropertyEscrow.sol`, `PropertyDeed.sol` | escrow rows, property rows, papers; the contract's listings and escrows | list, lock, settle, refund; prepare, confirm, refund, complete; upload, supersede, judge | deed and money settle together; a record says sold of what the chain settled; the verdict is about the newest papers |
| Lending: `services/defi/` | loans, pool lending, collateral positions | create, repay, liquidate | the three ledgers agree |
| Contracts: `contracts/*.sol` | balances, pools, proposals, checkpoints, guardians | each external function, an atomic step | solvency; each position is paid out once; votes of the past stay; guardians decide together and not before their time |
| Event broadcaster: `gateway/event_broadcaster.py` and its handler in `service_routes.py` | bounded history, bounded queues | register, publish, replay, write, disconnect | a client misses nothing it is not counted as missing |
| Purchases: `monetization/entitlement_store.py`, `gateway/iap.py`, two routes of `server.py` | `iap_transactions`, `iap_entitlements` | verify, subscribe, renew, refund, revoke | terminal statuses stay, in whatever order notifications come; who was answered 200 has what he bought |
| Approval bridge, agent marketplace, hivemind: `bridge/`, `runtime/a2a/`, `hivemind/` | requests, jobs, work units | - | nothing in this commit starts them |

Everything else - service adapters, provider clients, feed and badge formulas,
plugins, setup, SDKs, web pages, teaching material - keeps no state with a
protocol over it. `PROJECT.json` lists every part with the reason it is in or out,
and under `hazards` what in this code is hard to test, at its line.

How they interact: the account deletion calls the erasure and removes the session
it was asked with; the memory scope of a turn is read from the session; the claim
of a conversation is checked by the loop before it feeds the protocol stacks and
again inside the transactions that write; a push registration is allowed or refused
by the conversation's claim; the paymaster routes and the metered signer of the
transaction manager reserve in the sponsorship ledger; the sale service watches the
escrow contract and writes only what it has seen there; the tool gate stands between
the turn and everything the dispatcher reaches.

The hard behaviours are: turns that straddle a claim, an erasure, or both; five copies
of what a conversation says (tables, two caches, working set, protocol stacks);
an erasure log that is pruned by age while turns run; a state row that may be
edited away; statements that fail after others have committed; restarts that bring
the tables back and not the caches; worker processes that read the clock before they
wait for the lock; requests of several statements, cut off between any two by a failure or
a crash and then sent again, while the chain moves on by itself; App Store notifications in any order; a protocol
stack with gates that could not be built; contracts that pay several people out of one
balance, in rounded amounts, in any order of calls.

## The modules

| Module | What it is | Its properties in a run | Proved |
|---|---|---|---|
| `ConversationAuthority` | what the store promises: a holder, a set of messages, claims and erasures, and that only the holder's turns of the present epoch are recorded | - | - |
| `ConversationClaims` | the detailed system: store, caches, working set, protocol stacks, turns in flight, deletion, pruning, evictions, restarts, the lost state row | eight, and that it implements `ConversationAuthority` | all of them, the refinement, types |
| `AccountSessions` | nonces, sessions, their caches, expiry, cleanup, restart | `NonceAdmitsOnce`, `SignedInSurvivesRestart` | both, types |
| `AccountDeletion` | extends `AccountSessions` by conversations' owners, devices and the stages of `DELETE /api/v1/auth/account` | `RetryIsPossible`, `DeletedTokenStaysClosed`, `DeletionIsComplete`, `OthersDevicesStay` | all four, types |
| `SponsorshipLedger` | the spend ledger and the workers that share it | `DailyCapHolds`, `BudgetIsAccountedFor`, `PaidGasStaysCounted` | all three, types |
| `Entitlements` | purchases: the ledger, the row of each lineage, the verify and notification routes as requests that fail or die at any statement | `VerifiedIsEntitled`, `TerminalIsSticky` | both, types |
| `EscrowDeal` | what an escrow promises: a deal of one buyer, which ends once | - | - |
| `PropertyEscrow` | the escrow and deed contracts, over deeds whose contract may lie | `DepositGoesOneWay`, `MoneyComesBack`, and that it implements `EscrowDeal` | all but liveness, types |
| `PropertySale` | the platform's record of a sale, by requests that fail or die at any statement, written against `EscrowDeal` | `SoldMeansSettled`, `LegalTransitions` | both, types |
| `PropertyDocuments` | documents, proofs of funds and the readiness verdict | `NewestDocumentsClear` | it |
| `MatrixStaking` | the staking contract | `PrincipalIsThere`, `RewardsAreForStakeAndTime` | both, and cover of the books, types |
| `MatrixInsurance` | the insurance contract | `CoverageIsBacked`, `PoliciesAreCounted` | both, types |
| `MatrixDAO` | the governance contract: checkpoints, votes, timelock, treasury | `SnapshotsHold`, `DepositorsAreWhole`, `OutcomeIsFinal` | all three |
| `MatrixDEX` | the exchange contract | `ProvidersAreWhole` | it |
| `MatrixAccount` | the smart account's guardians and recovery | `GuardiansDecide` | it |
| `Lending` | loans and the three ledgers that record them | `PoolBorrowedIsLent` | it |
| `TransactionNonces` | the platform account's transactions, the node, and what a service is told | `AnswersStayTrue` | it |
| `AttestationBatches` | the queue of attestations, its batches, receipts and retries | `AttestationsAreKept` | it |
| `EventBroadcaster` | the hub and the handler of a connection | `NothingIsLostSilently` | it |
| `ToolGate` | the gates before a tool, the dispatcher's boundaries, the hand-off | `RunsOnlyIfAllowed` | it |
| `Sums`, `Filters` | the sum of a function's values over a finite set; the members of a sequence that are in a set, in order | - | their laws, in `DataTheorems` |
| `ConversationClaimsProofs`, `PropertyEscrowProofs`, `PropertySaleProofs` | theorems and proofs of the module named | | |
| `AccountDeletionProofs` | those of `AccountSessions` and `AccountDeletion` | | |
| `MatrixContractsProofs` | those of `MatrixStaking`, `MatrixInsurance`, `MatrixAccount` and `MatrixDAO` | | |
| `ServicesProofs` | those of `Entitlements`, `SponsorshipLedger`, `PropertyDocuments` and `AttestationBatches` | | |
| `PlatformProofs` | those of `ToolGate`, `TransactionNonces`, `Lending`, `MatrixDEX` and `EventBroadcaster` | | |
| `DataTheorems` | lemmas on sums, quotients, sequences and counts that the others cite | | |
| `MC...` | the instances for TLC: model values, symmetry, one action constraint, and three compositions | | |

Which modules compose. `AccountDeletion` extends `AccountSessions` and the two really
interact, as do the halves of `ConversationClaims`; `PropertySale` extends `EscrowDeal`
and takes the chain's steps from it, while `PropertyEscrow` is shown to be such a
deal. `MCServices`, `MCContracts` and `MCPlatform` put components side by side that share
no state and call none of each other: `subject`, chosen at the start, says
which of them a behaviour is about, so that one run explores the sum of
their state spaces and not the product.

### One step of a model

A handler is cut where the event loop can really run something else. Every
statement of the store goes through one lock and a synchronous SQLite call, and
that lock is never held over a suspension; so an `await` of the database never
waits, and nothing else runs before a handler that only awaits the database, or the synchronous
web3 client, is done. A turn is therefore five steps: admission; the start, from the claim check to the protocol stack's
feed; the read of scoped memory after the knowledge fetch of the pre-process; the
save into scoped memory after the model call, which a turn that runs out of reasoning steps
skips (`OutOfSteps`); the record after the loop has
answered. Between any two of them, anything else may happen.

Where a statement that raises, or a crash, leaves half of a request behind, the request is cut at
its statements as well. In `PropertySale`, `PropertyDocuments` and `Entitlements` one request is in
progress at a time (`task`, `stamping`, `route`): its next statement runs, or it ends there
(`CutShort`, `Interrupted`, `StorageFailure`), and no other request begins before. Only the chain
and the clock, which are not of the process, move in between. A deletion is cut at each commit
too; it takes steps of other requests between its own, which is more than one process
shows, and its properties hold all the same. In
the sponsorship ledger, where processes share the file, a step is one transaction.
A contract call is one step: a revert undoes all of it, and what a receiver of ETH
does from within its call comes after it, since `nonReentrant` keeps it from all that the
caller has yet to write (the headers say what remains). In `Lending` an
operation awaits its prices first and then reads and writes without giving the loop
away: one step. In `EventBroadcaster` a step is what the handler does between two awaits; in
`ToolGate` every gate is awaited and decides in a step of its own.

### Correspondence

`PROJECT.json` maps each definition to its lines. In `ConversationClaims`,
`owner`/`claimId` are `conversation_owners`; `stored`/`storedOwner` are
`conversation_turns`; `memory` is `agent_turns` by scope, an account or
`conv:<id>`; `erasures`, `stateRow`, `erasureSeq`, `prunedThrough` are the
erasure log; `convCache`, `convOwner`, `turnCache` with the `loaded...` sets are
the manager's caches; `working`/`conversations` the gateway's copy; `stacks` what
each scope's protocol stack was fed. `Stands` is `_claim_stands`, the one check all
writes make; `OpenTurn`, `OpenAndClaim`, `ClaimHalfDone` are `_open_turn` and
`claim_conversation`; `StartTurn` and `ReadMemory` are the loop's start;
`RememberTurn` and `RecordTurn` are `save_turn` and `save_conversation`, `OutOfSteps` the
return at the limit of steps;
`EraseOwner` is `erase_owner` with all it drops. `epoch`, `erasedBefore` and
`nextClaimId` are bookkeeping: a claim and an erasure each begin a new epoch, and a
message carries the epoch its turn was admitted in, which is how a property can
tell an erased message from a new one. Abstractions that give the model more
behaviours than the code, never fewer: ages are a nondeterministic choice of what
a prune takes; a history at its cap keeps any newer part; an entry of a bounded
cache may be evicted at any time. Claim ids are random in the code and fresh here.

In `AccountSessions`, `sessionCache` and `sessionRows` (and the same of nonces)
are cache and table, `expired` the tokens past their time, `answered` the tokens
a client has received. In `AccountDeletion`, a deletion's `stage` is how far the handler has
come; `holding` is what it read before the erasure; `registrant` and `due` are
bookkeeping of the properties. In `SponsorshipLedger`, `sent` holds the signatures
that left a worker and may still land.

In `MatrixStaking`, the variables have the contract's names; `earned`, `paid` and
`roundings` are bookkeeping. `Settle` is `_accrueRewards` with `_payRewards`; its
`taken` is whether the fee recipient accepts its commission, which comes back as
reserve when the recipient is the contract itself.

`PropertyEscrow`, `MatrixInsurance`, `MatrixDAO`, `MatrixDEX` and `MatrixAccount` likewise keep the
contracts' names, with the contract in front where two contracts have the same one. Bookkeeping
there is what a property compares with: `deposited`, `paidSeller`, `paidBuyer`, `delivered`;
in the DAO the power each block really had; in the account `proposedAt` and `backers`.
`PropertySale`'s `records` are the escrow rows, `task` the request in progress with the row it is
about and what it writes next; the set `_settling` is empty whenever one begins and needs no
variable. `PropertyDocuments`' `papers` are the rows in the order of their insertion, `stamping` the older
one an upload has yet to supersede. `Entitlements`' `purchases` and `entitlements` are the two tables,
`route` the request in progress. `EventBroadcaster`'s `ring` is the replay deque, `conn` a registration
with the handler's place in its code; `cursor`, `received` and `lost` are the client's side
and what a counter or a gap in the ring accounts for. `ToolGate`'s `call` is one tool call on
its way through the stages of `ReActLoop.run` and `ProtocolStack._pre_action`, `Stacks` the
sets of gates a constructor may leave out. `TransactionNonces` and `AttestationBatches` model the node
from what the code asks of it (external): it mines, refuses, replaces, forgets or answers late.

Names beginning like the definition they follow and marked `mutant:` are wrong
versions kept beside the right one: `PROJECT.json` pairs each property with one that
breaks it.

## The runs

| Run | Instance | Distinct states | Question |
|---|---|---|---|
| `shared_conversation` | one conversation, two accounts and anonymous callers, two turns, two claims, two erasures | 1.5 M | does a turn see what it must not, does memory mix accounts, is a copy left behind? |
| `faulty_store` | one account, one turn, evictions of everything, restarts, the state row lost | 1.9 M | can a turn write past a claim or an erasure, does anything erased come back? |
| `account_conversation` | an ordinary conversation beside `user:<s>`, which is erased but never logged | 2.4 M | is a turn ever refused for another conversation's erasure; does the store implement `ConversationAuthority`? |
| `account_deletion` | two accounts, three tokens, one device, a shared and a reserved conversation | 1.4 M | is a deletion that answers 200 complete, after any number of attempts that stopped or died? |
| `services` | the ledger with two workers, sign-in, purchases, papers, sale, attestations | 0.7 M | do services whose state is written by one statement after another keep their promises when requests fail, die and are sent again, and workers overlap? |
| `contracts` | staking, insurance, DAO, account | 1.8 M | is everybody's money there in every order of calls; do past votes and present guardians count as they should? |
| `platform` | escrow, exchange, lending, transactions, event stream, tool gate | 0.3 M | safety, refinement and liveness of what deals with a chain, a node or a client that lies, is late or is gone |
| `failed_removal` | as `account_deletion` | violation | is the token still valid when its removal failed? |
| `refund_lost` | as purchases | violation | does a refund win in whatever order it comes? |
| `lending_ledgers` | one borrower, two loans, one token | violation | do positions and loans agree? |
| `transaction_nonces` | two sends | violation | has each send a nonce of its own? |

Bounds, and why they are enough.

* Conversations. Two claims and two erasures (`MaxClaims`, `MaxSeq`) are the least with
  which a conversation is claimed, erased and claimed again by the same account under
  one turn, and erased again afterwards: the sequences the code's claim ids and log were written
  for. Two turns on one conversation let one write between another's
  steps. `HistoryCap` 2 to 4 puts a history at its cap. `KeepsStateRow`
  switches off the hand edit in the two runs that are not about it.
* Deletion. One device meets every stage; three tokens are an
  attempt, its retry from a new session, and the other account.
* Ledger. Two costs fit the cap and two plus three do not; the clock passes more than a window,
  with the time to live and the longest live request (`Stall`) one tick each. `Stall <= Ttl`
  is a fact of the code's numbers (at most 10 s of waiting for the database
  against 300 s); without it `DailyCapHolds` fails.
* Purchases. A subscription and a consumable, each reported any number of times and in any order: the
  ledger and the rows are finite, so nothing is bounded. Sale: two escrow ids so that a receipt of one can be offered for the
  other, two parties who may buy, a property listed or not, and as many requests as one likes. Papers: three of a
  document, so that one follows another that was interrupted, beside two proofs of funds; days
  enough for either to go out of date.
* Attestations. Batches of two, four in all, three attempts: a batch can succeed in half, be given
  up, and leave the queue at its bound.
* Staking. An ether of 2 wei makes an odd stake accrue half a wei per block and a reward of 1 have no
  commission; three blocks and a reserve of at most 3 are a settlement in full, one in part and one of
  what was owed from before. Insurance: a pool that backs one policy or two small ones. DAO: two voters, who deposit and leave
  while a proposal is open, with a quorum of all the power there was (`QuorumBps` equals its denominator), so that one vote more or less
  changes the outcome. Account: three guardians, two keys, and time for a proposal, one that replaces it,
  and its timelock.
* Escrow. Two ids over one deed are two buyers of it, past the deadline of whatever is locked.
  Exchange: two pools that share a coin; reserves up to 5 are where rounding costs most. Lending: two
  loans, amounts 1 and 2, prices that make one due. Stream: a queue of one and a replay of two overflow
  with four events; two connections of one client overlap. Tool gate: each kind of call, and as
  many in a turn as trip the loop detector.

Symmetry is used over interchangeable turns, accounts, tokens, stakers, holders, voters, parties and
escrow ids, in runs without liveness properties; `platform` has liveness and no symmetry.

Fairness is assumed for one thing: `EscrowFairness`, that blocks advance and that a buyer who
can have a deposit back asks for it and accepts it. Under it `MoneyComesBack` holds: no seller,
deed contract or approval can keep a deposit in the contract for good. The first half is what
`block.timestamp` is; the second is the buyer's own interest, and says what the
contract asks of him. Nothing else is assumed fair: a turn, a request or a stream may end at any point, so that
of the gateway nothing must eventually happen; the loops that sweep catch their
exceptions, but no property is about their being in time. The three conversation runs and the
two of the deletion are checked for deadlock; the others really stop, when their bounded supply of
requests, blocks or ids is used up, and say `CHECK_DEADLOCK FALSE`.

### What the violation runs show

* `failed_removal`: `WalletSessionStore.remove` empties the cache before its `DELETE`.
  When that raises, the log says the token is still valid, but a retry with it is
  answered 401, and a restart brings it back.
* `refund_lost`: a refund of a lineage that has no row yet is answered 200 and written nowhere; the
  purchase that is reported after it is active. `entitlement_store.py:20-21` says "Refund wins regardless of
  arrival order". The trace is one request after the other, with no failure in it. Once there is a row, refunds
  do win: `TerminalIsSticky`, by which no renewal, expiry or report takes a row out of its terminal statuses.
* `lending_ledgers`: a repayment sets the borrower's position in a token to what remains of the one loan
  that was paid, and forgets the other loans of that token; `service.py:195` says the ledgers "can no
  longer disagree". The pools' figures do agree: `PoolBorrowedIsLent`.
* `transaction_nonces`: the nonce is the count of mined transactions, and the lock around it ends
  at the broadcast; two sends within a block take the same one.

## What is proved

Every invariant and every action property of the passing runs, the two refinements included, is a theorem:
it holds for all values of the constants that satisfy the named assumptions, with no bound on turns,
accounts, tokens, workers, loans, events, claims or sequence numbers. Where an amount is summed, the set it is summed
over is finite. Each proof has the same outline: an inductive invariant, one lemma per action that it is kept (with lemmas
on the operators under it), one that the initial states have it, and a last step that it implies the
property.

**`ConversationClaimsProofs`.** `StandingClaimsAreCurrent` is not inductive: whether a turn's claim will
stand again depends on what the log, the state row and the next claim id can still become. `ClaimsInv` says
it: cached and stored owners are those of the claim table and ids are below the next one
(`OwnersAgree`); the state row, while it is there, is ahead of the log (`StateRowIsAhead`); and each turn in
flight is of the present epoch under its claim, or of an earlier one whose end is still visible - the owner or the id
has changed, or the log, its pruning mark or the missing row says so (`TurnIsAccountedFor`). The other
properties are of the histories, and follow from `HistoriesInv` on top of it: copies are what is stored
(`CopiesInv`), what is told of a conversation was said since its last erasure by its present owner or
anonymously, and is kept in the scope it belongs to (`TagsInv`), each turn writes for its own caller
(`TurnIsItsCallers`), and `AccountConversationsInv`. The one interference that matters is a write, and `WrittenTagIsLive` is where the two invariants
meet: a turn whose claim stands is of the present epoch, so what it writes is live. `RefusedForGood` is the
same visible end of an earlier epoch, which no step takes back. `ImplementsAuthority` shows each step to
be a claim, a record, an erasure or a stutter of `ConversationAuthority` (`AuthorityStep`), under the mapping of its holder to the
claim table and of its messages to the stored turns.

**`AccountDeletionProofs`.** Of signing in: `SessionTypes`, `NonceSingleUse` (an exchanged nonce is in neither
table nor cache: `SpentNonces`), `RestartKeepsSessions` (`AnsweredAreStored`). Of deletion: `DeletionTypes`, `DeletedTokens` and
`Retries` (from `TokensInv`: what is stored, cached, answered and in flight of each token),
`OthersDevices` and `CompleteDeletion` (from `DevicesInv`: what each stage has done with the devices of its
account, and that a device somebody registered is that account's by its row).

**`ServicesProofs`.**

* Purchases: `EntitlementTypes`, `PurchasesAreKept`, `RefundsStick`. Where a request is tells what it has written and which
  notifications it can be of (`RouteSound`); rows, once written, stay (`Kept`), so that a retry after a
  failure adds to what the earlier attempt left.
* The ledger: `CapHolds`, `BudgetAccounted`, `PaidGasCounted`, from `LedgerInv`. The code adds up rows; the
  cap is about signatures. So the invariant counts what may still land - what was sent, and what a worker holds signed or reserved
  (`Live`) - and says that each of these has its row for as long as it is in the window (`RowsInv`), that
  ids are handed out once (`IdsInv`), and that a worker's clock reading is at most `Stall` old
  (`ClocksInv`). A row that stops counting because it is older than `Ttl` is then no live request's.
  This is where `StandingAssumption` (`Stall <= Ttl`, and a cap that what older builds left in the table is within) is
  needed; the other two theorems share the invariant.
* Papers: `NewestClear`. Uploads that stop half way may leave several current rows, but the one an upload stamps is
  older than the one it has inserted (`DocumentInv`): the last is never stamped, and what a verdict reads is the newest (`CurrentIsNewest`).
* Attestations: `AttestationsKept`, from `AttInv`. That an attestation is in one place, and that the log is true, is
  `PlacesInv` and `ChainInv`. The bound on the queue is the hard part: each flush puts back what failed,
  in its order, and more can be added behind it. `Staggered` says that from the place of a full batch on, each entry has
  failed more often than those behind it, which makes failure counts an injection of those places into the
  attempts that are left (`StaggeredBound`).

**`MatrixContractsProofs`.**

* Staking: `StakingTypes` and `CoveredBooks`, from each other (that an amount stays natural needs the cover, and the reverse), by a
  lemma on `Settle` every caller uses; `PrincipalHolds`, which adds that the contract's own total is the sum of the
  stakes; `RewardsHold`, which adds that a settlement turns what accrued into whole wei at the cost of one
  cut (`SettlementCutsOnce`) and that a block adds the same to both sides (`AccrualIsEarned`).
* Insurance: `InsuranceTypes`, `PoolBacksCoverage`, from each other, and that a premium is never more than the
  coverage it buys (`PremiumsAreParts`), without which a cancellation's refund could reach into what backs the
  others; `PoliciesCounted`, by what one purchase and one closing do to each sum and each count.
* Account: `Guardians`. `SupportIsCurrent` is inductive once it is said that a proposal names a key, waits for
  the timelock since it was made, and that its backers are finitely many (`AccountInv`).
* DAO: `SnapshotsKept`, `DepositsCovered`, `OutcomesStay`, from `DaoInv`. It says of every checkpoint list that it
  is in order of blocks and ends with what is held now (`Histories`), that it splits at every
  block that is over into entries up to it and after it, the last of the first part being what was held
  (`PastIsTold`), that powers add up to totals now and at the end of every block (`TotalsAddUp`), and that what was cast on a proposal is at most
  what those who voted held at its snapshot (`ProposalsAreSound`). The code's two loops need a lemma each: the binary search returns the number of entries up to the block (`UptoSplits`), and Newton's
  iteration gives no more than the number it is asked about (`SqrtWithin`), so that a quadratic vote is never more than the weight it
  comes from; that the result is the root is left to TLC (`SquareRoot` of `MCContracts`). `OutcomesStay` takes `State` apart by block (`StateInTime`).

**`PlatformProofs`.**

* Tool gate: `GateAllows`. `GateInv` is the trail of a call: behind each stage, every gate the call has passed
  allowed it, and past the dispatcher the call is within its caller's reach.
* Transactions: `AnswersTrue`. What the node still holds, or was never given, has no receipt (`NonceInv`).
* Lending: `LendingCounted`: with the count equal to what is lent, the floor of zero in a repayment is
  never reached, which is what keeps it equal.
* Exchange: `ProvidersWhole`. `ExchangeInv` adds up shares and reserves; that adding and leaving, and swapping there and back, never pays
  is proved from it for all reserves, by lemmas on quotients (`ShareBound`, `RatioBound`, `AddAndLeave`, `SwapAndBack`).
* Events: `StreamHasNoGaps`, from `StreamInv`. The ring holds the last events; a queue that holds an event holds all
  later ones its client asked for (`Queued`); what a connection still has to write closes every gap after what its
  client has received (`Serves`); and an empty ring means that every event is accounted for (`RingInv`).
  `ConnectionSteps` reduces each step of a handler to what it does to its own connection.

**`PropertyEscrowProofs`.** `EscrowTypes`; `DepositIsSafe`, from `GoesOneWay` of a single escrow, which a step of that
escrow makes true again (`OneWayStep`) and any other step leaves alone (`OthersStay`); `KeepsDeals`, that `EscrowSpec` implements
`EscrowDeal` under the mapping that takes an escrow to its state and buyer (`Outline`): each step makes a deal, ends one, or
changes none (`DealStep`).

**`PropertySaleProofs`.** `SaleTypes`, `SalesAreSettled`, `RecordsMoveLegally`. `SaleInv` says of each record what it tells of the
chain (`RecordSound`), which the chain cannot take back (`SettledToBuyer`), and of the request in progress what the record it is at must say for
its next statement to be legal (`TaskSound`): the walk of a confirmation asserts no transition, and is legal because
each statement finds what the one before it wrote.

**`DataTheorems`.** What the others need to know of sums, filters and counts for every input. The library's induction
theorems take an operator as a parameter, which the provers cannot instantiate. So a recursive definition is
reasoned about by facts that quantify over sets: the sets or indices for which something holds are themselves a set, and in a finite
one there is a smallest that is left out (`SetInduction`, from the library's well-foundedness of strict subsets;
`LeastMember`). In this way a function that satisfies the recursion is shown to exist (`AddsExists`, `FilterExists`), which is what a
`CHOOSE` needs, and then what it returns. The search and the iteration of the DAO are treated alike (`SearchExists`, by giving the
function outright; `IterationExists`). The models sum with `SumOf` and select with `Selected`, which are defined so that this can be done; the built-in
`SelectSeq` hides its recursion.

The named assumptions are as weak as the code's constants allow: amounts and times are natural numbers, denominators are
not zero, delays that the contracts fix at more than nothing are positive, distinguished values are not members of the
sets they stand beside, what is summed over is finite, and `StandingAssumption` above. No proof uses
`SquareRoot`.

Only model-checked: `MoneyComesBack`, a liveness property, and with it whatever is said of `ENABLED`; both are out of the prover's reach. The violation
runs are counterexamples and have nothing to prove. No module uses a `RECURSIVE` operator. Each module has a
`...TypeOK`; where neither a theorem nor a run names it, it is there for the reader, the proofs using it or a
stronger form.

## Not in a property, and worth knowing

What reading the code for these models turned up, where no statement of the repository is contradicted
or the code says so itself:

* An upload that stops between its two statements leaves two current rows for good; `current_verification` then
  picks the older proof of funds (`real_estate/store.py:186`). The verdict still needs it fresh and
  sufficient.
* A confirmation that stops after `funds_locked` leaves a record that cannot be confirmed again
  (`real_estate/service.py:551`), but can be refunded and its property listed again, although the chain has settled. A
  record still `initiated` may likewise be marked refunded whatever the chain did: `refund_escrow` does
  not look at it, and `SoldMeansSettled` speaks of the other direction.
* An attestation whose receipt comes too late may be written twice, or logged as never written
  although it is (`batch_processor.py:249-252`). `start()` of the batch processor has no caller: only the
  threshold flushes. A flush never gives the event loop away.
* `supportRecovery` names no key: support sent for one proposal counts for the one that replaced it
  before it was mined.
* An abandoned sponsorship reservation stays in the table for 24 h (`sponsorship.py:224`); it stops
  counting after 300 s.
* A nonce's age is looked at by the cleanup and not when it is presented (`session_store.py:166`).
* A loan is recorded before the deposit that may refuse its token, which `defi/service.py:118-128` explains.
* An exchange pool its last provider has left cannot be revived, an addition of very little liquidity may mint no share, and
  tokens that keep a fee of what they move would leave reserves above balances.

## What is left

1. Proofs of more than the runs ask: that `Sqrt` is the root for every number, as `SquareRoot` says of the first 200; that a
   price of the exchange is right to the unit; that `PropertySale` composed with the contract itself, and not with `EscrowDeal`,
   keeps `SoldMeansSettled`, which `KeepsDeals` and `SalesAreSettled` give together but no theorem states.
2. Larger instances of the components in `platform`, where a second borrower or a third connection would
   ask something new.

## Not modelled

Cryptography (signatures and identity tokens are verified or refused), models' answers, protocol
heuristics that advise and do not decide, network encoding, rendering and configuration: data, which the
modules take as given.

Most of the repository's lines are of this kind: routes that validate and forward one call, adapters
that encode one or answer `not_deployed`, catalogues, formulas, text matching, generated routes, SDKs,
pages and course material. Beyond them:

* Services that keep records in a dictionary of the process (insurance, NFTs, fundraising, securities,
  gaming): records of one owner with one status. Where there is a protocol, this commit leaves half of
  it out of reach: a milestone's verification always refuses, orders are matched by nothing.
* The approval bridge, the coordinator of the agent marketplace and the hivemind: nothing in `gateway/` or
  `runtime/` constructs them, and which of their operations overlap would be invented here.
* Marketplace, token, identity, attestation and paymaster contracts: each function is a transaction that
  holds nothing between calls, a registry with one writer per entry, or a signature check.
* Backup and restore of the database file: an operator's action on a stopped gateway, which takes every table
  back together.
* Of the components that are modelled in part: `PROJECT.json` says what is left out of each.
