# PORST on Solana: models, checks and proofs

This directory holds TLA+ models of the programs, the backends and the
signature scheme of this repository, the TLC configurations that check them
on small instances, and theorems about them that TLAPS has checked for every
value of the constants. Paths below are relative to `src/`.

Contents: [the system](#the-system), [the modules](#the-modules),
[runs](#the-runs), [bounds](#bounds), [fairness](#fairness),
[proofs](#proofs), [divergences found](#divergences-found),
[what is not modelled](#what-is-not-modelled), [plan](#plan).

## The system

PORST is a few-time hash-based signature: a digest selects `SUBSET_SIZE`
leaves of a Merkle tree and the signature reveals their preimages with a
multiproof. A second tree over `NUM_EPOCHS` such trees makes a many-time key
of it, each epoch good for `SIGNING_CAPACITY` signatures. Three Solana
programs hold funds that move only on such a signature; two Node backends
ask an isolated signer for signatures on behalf of a user or an agent.

| component | source | state it keeps | operations | talks to |
| --- | --- | --- | --- | --- |
| settlement math | `solana/programs/porst_perp/src/lib.rs` (`math`) | none | pnl, fees, maintenance, settle | porst_perp |
| porst_perp | `solana/programs/porst_perp/src/lib.rs` | oracle, market, trader and position accounts; token accounts of traders and of the market's vault | init_oracle, update_oracle, init_market, create_trader, open_position, close_position, liquidate, trigger, write_buffer | verifies with porst-core, moves tokens through the token program |
| perp SDK, perp backend, policy | `solana/agent/perp.ts`, `perp-routes.ts`, `perp-policy.ts` | nothing but the requests under way | perpOpen, perpClose | reads the chain, asks the signer, sends transactions |
| keeper | `solana/agent/oracle.ts` | nothing between ticks | a tick every 8 s: fetch, post, sweep | price service, chain |
| isolated signer | `solana/agent/signer/*`, `solana/wasm`, `solana/signer` | the keystore, constant | sign_swap, sign_open_perp, sign_close_perp, transfer signing | backends, over a socket, one request at a time |
| porst-core | `solana/core` | none | digests, derive_subset, compute_porst_root, verify_porst, verify_wallet_sig | all programs, the signer |
| porst_wallet | `solana/programs/porst_wallet` | wallet account, vault lamports, signature buffers | create_wallet, write_buffer, execute_transfer | system program |
| porst_agent | `solana/programs/porst_agent` | agent account, its token accounts, signature buffers | create_agent, write_buffer, execute_swap | calls cpswap |
| cpswap | `solana/programs/cpswap` | pool account, two vaults | init_pool, add_liquidity, swap | token program |
| swap backend | `solana/agent/server.ts`, `pipeline.ts`, `policy.ts`, `sdk.ts`, `bootstrap.ts` | the spend tracker | interpret, execute, runSwap | chain, signer |
| porst, PORST.sol | `solana/programs/porst`, `src/PORST.sol` | one public key | verify | - |
| perp bootstrap | `solana/agent/perp-bootstrap.ts`, set-up calls of `perp.ts` | keystore and environment files | ensurePerpKeystore, bootstrapPerp | file system, chain, starts the signer |
| intent parsing | `solana/agent/perp-llm.ts`, `llm.ts` | none | interpretPerp | language model, backends |
| web interface | `solana/web/src` | what it shows, the busy flag, the proposals on the screen | chat, approve, close, poll | backends over HTTP |
| tests, scripts | `solana/tests`, `test`, `solana/scripts` | none | | all of the above |

Components interact in three ways. The programs share the accounts of the
chain, and a transaction is atomic: it executes whole or not at all. The
backends see the chain only through awaited reads and transactions, so that
between any two awaits of a handler other requests, keeper ticks, other
users and the clock may do anything. The signer is a function: it signs what
it is given at the slot it is given and remembers nothing.

What is hard about it:

* signed intents outlive the moment they were made in. They may be
  delivered late, repeatedly, in any order, to any account, in pieces;
* the signing state of an account (`epoch`, `used`, `nonce`) is all that
  stands between a key and its overuse, over a rollover and to exhaustion;
* every handler decides on what it read several awaits ago;
* a transaction that timed out for its client may still land;
* ticks of the keeper overlap and may fail anywhere;
* the backend can be killed between any two set-up calls and within a write
  of its two files, and starts again from what is left;
* a view in the browser is unmounted with its operations under way, its polls
  overtake each other, and the signer may die holding a request;
* money arithmetic rounds, truncates towards zero, saturates and overflows.

What makes each component correct:

* *porst_perp*: one intent per slot of the key and no more than the key can
  bear; positions come and go only on their owner's signature or where
  liquidation or the signed triggers apply; open interest equals the open
  positions; USDT is conserved; what a position is worth is paid while the
  vault can pay; the settlement is always defined.
* *perp backend*: nothing is signed that the policy refuses; a request
  that lands got the terms it quoted; the chain and the signer take only
  steps that the program's own model knows.
* *perp bootstrap*: a restarted engine serves the market it served before
  with the key its trader was created with; no mint is left behind without a
  crash to account for it; boots that fail finitely often end in one that
  serves.
* *web interface*: what it says of a click is true of that click's own
  transaction; it becomes idle again; it comes to show the chain.
* *intent parsing*: what the agent proposes by itself the policy allows; a
  model's figures are brought within the market's.
* *keeper*: no position outlives a stop, a take-profit or a liquidation for
  ever, and the price on chain converges to the feed.
* *porst_wallet*, *porst_agent*: lamports or tokens leave only as one signed
  intent says, once, by the signed route; the counters are the ledger of a
  many-time key.
* *cpswap*: a swap never lowers the product of the reserves, a round trip
  never gains, tokens are conserved.
* *swap backend*: limits decided before signing, fills within slippage;
  what is spent in spite of the daily limit is bounded by the runs under way
  and the swaps that were never counted.
* *porst-core, signer*: signer and verifier agree on every subset; what is
  accepted is what was signed.

## The modules

| module | models | extends |
| --- | --- | --- |
| `PerpMath` | module `math` of porst_perp | |
| `FiniteSums` | sums over a finite set, without recursion | |
| `PorstPerp` | porst_perp, signer at its side, clock and feed | `PerpMath`, `FiniteSums` |
| `PerpServer` | perp backend, policy, keeper, network | `PorstPerp` |
| `FewTimeLedger` | abstract: what a program guarded by a many-time key promises | |
| `SignatureBuffer` | write_buffer of porst_wallet and porst_agent | |
| `PorstWallet` | porst_wallet | `SignatureBuffer` |
| `CpSwap` | cpswap | `FiniteSums` |
| `PorstAgent` | porst_agent over cpswap | `CpSwap`, `SignatureBuffer` |
| `SwapServer` | swap backend, policy, spend tracker, network | `PorstAgent` |
| `PerpBootstrap` | the perp engine's boots, with crashes, resets and removals | |
| `PerpIntent` | interpretPerp, its fallback and normalization; no state | |
| `PerpClient` | the perps view, its polls, and the handlers as it can tell them | `PerpIntent` |
| `PorstMultiproof` | derive_subset, porst_sign, compute_porst_root, verify_wallet_sig, verify_porst | |
| `MC...` | values of the constants for TLC, nothing else | the module they are named after |
| `...Proofs` | theorems, see [proofs](#proofs) | the module they are named after |

Correspondence:

* An account is a record with the fields of the Rust struct, and `live` for
  "has been created". `PorstPerp!positions` is the set of position accounts
  that exist; a position's address, derived in the code from the trader and
  `position_count`, is the pair of `trader` and `seq`.
* An instruction is one action with the guards in the order of its
  `require!`s. `advance` of the signing state, the transfer, the open
  interest and the closing of the account are part of the action.
* A digest is a record of the fields it binds and no others, so that what it
  does not bind can be varied by whoever submits it: an open does not name
  the trader's account, a transfer names the recipient, a swap its route.
* `write_buffer` of porst_perp has no action of its own: anybody may stage
  anything, and an instruction that verifies may present any intent in
  `signed`, which is all that staging could make possible. `PorstWallet` and
  `PorstAgent` do have it, chunk by chunk, in `SignatureBuffer`.
* A stop-loss or take-profit level is a number that may be negative in the
  backend. The signer is given it as a JSON number and converts it to a u64,
  which makes 0 of it (`Saturated`, in `TermsOf`); the transaction carries it
  as a `BN`, whose magnitude goes on the wire (`Magnitude`, in `TermsSent`).
  `IntentOf` and `Land` of `PerpServer` use the one and the other.
* `signed` is everything the signer ever signed. It may sign for any slot
  the account has been read at, the present one included, since readers may
  be behind. Anybody may submit anything in it, at any time, again.
* `spent` is a history of what executed; no guard reads it.
* A handler of a backend is a record with a program counter that moves at
  each `await`. What lies between two awaits is one step. `pending` holds
  transactions that were sent; `Land` executes one, by the program's own
  action, `Drop` loses or refuses it; `GiveUp` is the client's time limit,
  after which `Land` is still possible.
* A keeper tick is such a record too; `TickSlots` is how many overlap.
* Actions of a backend use the program's actions and not copies of them.
  `EngineSteps` and `AgentSteps` state that every step of a backend is a
  step, or a stutter, of the program's model. What is proved of the program
  therefore holds in the presence of the backend, and is stated of it there.
* In `PerpBootstrap` a file is absent, torn, or holds a key or a mint: a
  write is two steps, truncation and content, and `JSON.parse` of a torn
  file throws. Each `await` of the boot is a value of `pc`. `late` holds the
  transactions of boots that are gone. `home`, `orphaned` and `aborted` are
  histories. New keypairs are interchangeable, so `NewMint` is any one.
* In `PerpClient` a request is one record from the click to the message: its
  `pc` is in the view, at an await of the handler, or in the network, and
  `mount` says which view asked for it. The chain is reduced to the nonce,
  the number of positions and the book; `PerpServer` has the rest.
* In `PerpIntent` a message is what the regular expressions capture of it.
* In `PorstMultiproof` Keccak is a free constructor: two hashes are equal
  only if their arguments are. `walk` is the loop state the signer and the
  verifier share; the signer appends to `signature` where the verifier reads
  at `cursor`.

`FewTimeLedger` keeps nothing but the list of executed intents of each
account. `PorstPerp`, `PorstWallet` and `PorstAgent` implement it (property
`ImplementsLedger` of each) under a mapping that forgets the counters.

## The runs

| run | question | size |
| --- | --- | --- |
| `perp_engine` | does a nonce execute one intent, over a rollover, and is it a many-time ledger; open interest, conservation, authority, payment in full, on winning and losing positions with stops and a short vault | two traders with a key each, two epochs of two, three signatures, one market, good and bad terms |
| `perp_restarts` | does a restarted engine come back to its market and its key, leave behind no more mints than boots ended before they had saved theirs, and come to serve? | two kills or failures, one stop, one reset, one removal; six mints, two keys |
| `perp_view` | is what the view says true, does it become idle, does it come to show the chain? | three clicks, two overlapping polls, two mounts, one failure or the death of the signer |
| `server_requests` | do two concurrent requests stay within the program's steps, is all that is signed within the policy, does what executes have the stop the policy requires, and do they get what they were quoted, timeouts and late landings included? | two requests, good and bad plans (one with a stop 103% below the entry), one tick |
| `server_keeper` | liveness of the keeper and the oracle | two overlapping ticks, one error |
| `wallet_transfers` | do lamports move only as signed, with rent, self transfers, emptied vaults and half-written buffers, and are the counters a many-time ledger? | two wallets, two epochs of two, four signatures, a stranger |
| `agent_swaps` | do agent tokens move only as signed, by the signed route, of two pools over one pair, and are the counters a many-time ledger; does no swap lower a pool's product, no round trip gain, no token appear? | two pools, two epochs of two, three signatures |
| `swap_requests` | is what is signed within limits, from offers that were over them, too far ahead or are old by now; is a fill within slippage, with other traders in the pool and late landings? | three requests of `/api/interpret` and `/api/execute`, two at a time |
| `swap_session` | is what the agent spends bounded, with runs that are never counted, and is every step one of the agent's? | four runs, two at a time |
| `porst_signature` | subsets, frontier, minimality, verification with an authentication path | all subsets of 4 of 8 leaves, 2 epochs |

The two runs with expected violations, `server_slot_reuse` and
`swap_daily_limit`, are described under [divergences](#divergences-found).

Some properties deserve a word. `PositionsChangeWithAuthority` and
`SettledInFull` are action properties: they look at every appearance and
disappearance of a position and ask for the intent or the condition that
justifies it, and for the payment that went with it, whichever of the three
closing instructions was used. `FilledAsQuoted` ties what the handler
remembers to the position that came of it, when the transaction may have
landed long after its client gave up and its sequence number may have gone
elsewhere. `SignedWithinPolicy` compares what was signed, and not what was
checked, with the policy; for the stop it has to wait for the execution, see
the [divergences](#divergences-found). `SpendingBounded` is what remains true
of the daily limit: it bounds the sum of the swaps that *executed*, whatever
the tracker says, by the limit, one swap for each other run that was checked
against the same count, and one for each swap that executed and was never
counted (`missed`: its run stopped waiting or threw before `pipeline.ts:168`).
`swap_session` reaches the bound, with such swaps and without.
`StrandedAtACost` charges each mint to one boot that ended before it had
saved it, at the end of that boot, although the mint may appear much later;
boots that end with the saved mint pay for nothing. `AnswersAreTrue` speaks
of the click and not of the view: while a request of an earlier mount is
under way, a second one at the same nonce must not be told the first one's
success. `DisplayConverges` makes up for what `AnswersAreTrue` has to allow,
an open that is reported as rejected and lands: the view comes to
show it. In `FrontierServesTheNextLeaf` the loop invariant of the multiproof
is stated: a frontier slot is the left sibling of the coming leaves' path at
that level and never anything else.

Every property has a mutant: a definition is replaced by one with a
plausible bug (comments beginning "Fault:" in the modules) and the run must
then fail. A property that no bug could break would show nothing.

## Bounds

* `MaxTime`, `TickSeconds`: two or three readings of the clock; enough for a
  price to become stale and an intent to expire, each before or after
  anything else.
* `MaxSigned`: intents the signer signs. `perp_engine` allows one more than
  an epoch can bear, `wallet_transfers` as many as the key can,
  `agent_swaps` enough to sign in the second epoch.
* `NumEpochs` and `SigningCapacity` of 1 or 2: a rollover and the last epoch
  are reached in every program, exhaustion in `wallet_transfers`.
* `MaxMinted`, `MaxToppedUp`: the money in the system; chosen so that the
  vault can run dry, collateral can be short, and lamports can fall under
  the rent.
* `U64Max`: the widest amount, small where overflow must be met (two opens
  of 30 against the 50 of `perp_engine`).
* `AmountsIn`, `RequestTTL` of the swap backend: in `swap_requests` one amount
  is over the limit of a transaction, and an intent is made to live for two
  units where the policy allows one, so that an offer is refused when it is
  new, passes when it has aged, and is refused when it has expired. The
  code's own figures (120 or 60 s of life, 300 s allowed) would never have an
  offer refused for being too far ahead. In `swap_session` the daily limit is one swap, so that each further
  one shows; four are run.
* `Requests`, `TickSlots` of 2: two is what it takes to interleave, and each
  handler reads and writes only its own record and the chain.
* `MaxFeedMoves`, `MaxKeeperErrors`: the feed moves and ticks fail finitely
  often, as liveness needs.
* `MaxStarted`: requests of a session, so that slots of requests are reused.
* `perp_restarts`: a second fault can meet the transaction the first one left
  behind, an orderly stop makes there be a market to come back to, and a
  reset or a removal comes before, between or after them. The mints suffice
  for every boot to make one.
* `perp_view`: the third click can be one of the second mount while an
  operation of the first is still under way; two polls suffice for an answer
  to overtake another. One message typed, and no language model: the answers
  differ in their figures only, which `PerpClientProofs` treats for all.
* `TreeHeight` of 3 with 4 leaves: every shape of merging paths and up
  to two parked nodes at a time. One thing is wrong with a presented
  signature at a time (`Present`).
* Amounts are small, with fees and margins scaled so that every comparison
  goes both ways. The arithmetic for all amounts is proved, not enumerated.

Runs allow deadlock where everything stops at its bound.

## Fairness

`FairServerSpec` assumes weak fairness of the steps of each keeper tick.
`setInterval` fires for ever while the process lives, each await of a tick is
answered or throws, and a throw ends the tick and not the timer
(`startKeeper`). Errors are finitely many. Nothing is assumed of requests,
the network, the feed or the clock. A keeper's transaction executes when it
is sent, or fails for a reason the program gives.

`FairSpec` of `PerpBootstrap` assumes that a backend that is down is started
again by whoever runs it (`perp-bootstrap.ts:83` calls the top-up idempotent
across reboots) and that the awaits of a boot are answered or throw. Nothing
makes a late transaction land. Kills are bounded by `MaxFaults`: an engine killed for ever never
serves.

`PerpClient` assumes weak fairness of each request's handler and of each
poll: `setInterval` fires while the view is mounted, an HTTP answer or an
error arrives. It assumes nothing of the user, of transactions landing, of
the daemon's life, and a request the dead daemon holds may hang for ever
(`client.ts` has no time limit): `OperationsEnd` names that one exception.

The keeper computes equity with floating point and does not truncate where
the program does. `KeeperSeesLiquidation` compares without those
truncations, in integers scaled by the entry price, so the liveness of liquidations is shown up to a difference of one unit around the
margin: at equity within one unit of it the keeper may send a liquidation
that the program refuses, or wait for the price to move by one unit more.

## Proofs

Eight modules hold theorems, each checked to the last leaf:

| module | about | of |
| --- | --- | --- |
| `FiniteSumsProofs` | sums over finite sets | `FiniteSums` |
| `PorstPerpProofs` | the perp program | `PorstPerp`, `PerpMath` |
| `PerpServerProofs` | its backend and keeper | `PerpServer` |
| `SwapProofs` | the market maker, the agent and the swap backend | `CpSwap`, `PorstAgent`, `SwapServer` |
| `PorstWalletProofs` | the wallet program | `PorstWallet`, `SignatureBuffer` |
| `PorstMultiproofProofs` | a signature word by word | `PorstMultiproof` |
| `PerpBootstrapProofs` | the boots of the perp engine | `PerpBootstrap` |
| `PerpClientProofs` | the co-pilot and the view | `PerpIntent`, `PerpClient` |

With these every invariant, every action property and every refinement that a
passing run checks is a theorem for all values of the constants; what is left
to TLC, liveness, is listed at the end of this section.

Assumptions are the named `ASSUME`s of the modules, which TLC evaluates in
the runs: constants are natural numbers, sets that are summed over are finite,
capacities are positive, a pool has two different mints. Two say how a
backend's constants fit those of the program below it, since the program's
model draws the fields of its intents from sets: `BackendAssumption` that
what the signer makes of a plan and a published price (`TermsOf`), where the
program could sign it at all, is among the engine's `OpenTerms`, and the
expiries among its `Expiries`; `PlanAssumption` that the minimum of a plan is
among the agent's `MinOuts`, for every quote up to `Supply`, all there is of a
token. They restrict no plan: the figures of a plan are any integers, negative
percentages and stops beyond the entry among them, and where the sets hold all
natural numbers both assumptions are true, since `TermsOf` saturates.
`ClientAssumption` says that `None` is not a message of the
view.

*FiniteSums.* A sum over a finite set is the cardinality of a set of unit
tokens, without recursion, so that adding, removing and changing one summand
(`SumAdd`, `SumRemove`, `SumUpdate`), leaving out zeros (`SumSupport`) and a
bound on equal summands (`SumBound`) follow from the library's facts about
cardinality.

*PorstPerp.* Twelve theorems, in order of dependence:

1. `TypeCorrect`, `SettlementAlwaysDefined`. Types are not inductive alone:
   a settlement subtracts from the vault a payout that is a number only
   because entry prices are positive and the oracle has a price. `TypeInv`
   adds both, and that an oracle that does not exist has price 0.
2. `SigningLedgerHolds`, `ReplayProtected`, `CapacityRespected`. The
   invariant `SigningInv` adds that every executed intent carries the epoch
   its nonce belongs to and a nonce below the trader's; the number of
   executed intents under one epoch is then bounded by an injection into
   the nonces of that epoch.
3. `AddressesUnique`, `OpenInterestExact`, `UsdtIsConserved`, by the lemmas
   on sums.
4. `AuthorityHolds`, `SettlementsPayInFull`: one case per action, from 1
   and 2.
5. `SoundMarketsHaveMargin`: where `max_leverage * (maintenance_bps +
   open_fee_bps) < 10000`, no position is liquidatable at birth, for all
   amounts and prices.
6. `PerpImplementsLedger`, the refinement of `FewTimeLedger`. The ledger is a
   list, and the program keeps only the set `spent` of what executed; the
   mapping picks the intent of each nonce. `SlotsFilled`, that every nonce
   below a trader's was used, and `OneIntentPerSlot` from 2 make the pick
   unique, so that an execution appends and every other step leaves the list
   alone (`StepConsumes` says that a step consumes one slot or none).

*PerpServer.* The proof carries the engine's invariants along: a step of the
backend is an engine step (`ServerStepOfEngine`), and an engine step keeps
them (`EngineInvKept`). But a handler asks for a signature several awaits
after it decided, so that `EngineSteps` itself needs to know what a handler
holds at each await. That is `ServerInv`:

* `RequestsInv`: a handler that has read its slot holds one the trader's
  account has been at; one that has signed holds the intent that follows
  from its plan and its quote, and it is in `signed`; from the policy check
  on, its terms are within the policy.
* `NetworkInv`: what is on its way was sent and has not landed, so that no
  transaction executes twice.
* `SignedInv`: there are no more signatures than requests that asked for
  one. The engine's model bounds the signatures by `MaxSigned`, and a step of
  the backend is a step of it only if that bound is kept.
* `KeeperInv`, `ChainInv`: what a tick is about to post was published, and
  time advances in whole ticks.
* `FilledInv`: a landed open finds its sequence number taken, by a position
  of its plan or by none any more. `FilledAsQuoted` is not inductive without
  the first half, since a later open could take the number.
* `StopsInv`: every open that executed has the stop its leverage requires.
  The policy's check gives the handler a level that is not 0, and what the
  signer makes of it may be 0 all the same. But an open that lands was sent
  with the terms that were signed, and where the two conversions agree the
  level was not negative (`SentAsSigned`).

From it follow `ServerTypeCorrect`, `ServerTakesEngineSteps`,
`SignedAsAllowed` and `FilledAsItWasQuoted`, and through the refinement what
the engine promises holds behind the backend, whatever its requests do:
`ServerKeepsEngine` (signing ledger, one intent per slot, open interest,
addresses), `ServerMovesWithAuthority` (authority, settlement in full,
conservation) and `ServerImplementsLedger`. `ServerInit` is a set-up engine
and not the engine's `Init`, which is why these are proved again from its
start and do not simply follow.

*CpSwap and PorstAgent.* For all reserves and amounts, a swap never lowers
the product and a round trip never gains: the bound
`out * (reserve_in + after_fee) <= reserve_out * after_fee` of floor division
carries both. These are proved of the market maker with any traders
(`AmmTypeCorrect`, `ProductKept`, `RoundTripsNeverGain`,
`TokensAreConserved`) and then of the market with the agents in it
(`AgentKeepsProduct`, `AgentRoundTrips`, `AgentConservesTokens`), where
`StepInMarket` finds the swap in each step of the whole. The agent's
invariant is `AgentInv`: the types, and `Counts`, that an agent's nonce is
the number of its swaps and `epoch * SigningCapacity + used`, with `used` 0
after the last epoch and no swap before the account is created. From it
follow `AgentTypeCorrect`, `SwapsFollowSignatures` and
`AgentImplementsLedger`. `SwapAuthorised` is the lemma that matters: a swap
that passes verification has its intent in `signed`, by the route it takes.

*SwapServer.* As for the perp backend, `ServerSteps` and the agent's
invariants support each other. `ServerInv` adds:

* `PoolInv`: the pool stays funded and no reserve exceeds `Supply`, from
  the product and the conservation of tokens. A handler's plan is one that the
  agent's model can sign only if its quote is no more than there is of a
  token, although its two reserves were read at different times.
* `RequestsInv`: what a handler holds at each await (`Held`): the reserve it
  read first is positive, a plan's minimum is that of its quote, what was
  allowed is within the limits and stays so as time passes, the intent it
  submits is the one it was signed.
* `OffersInv`: an offer sent back at any time is a plan.
* `SpendInv`: for each token the count of the tracker *and everything that
  runs under way may still add to it* is within the overrun. The count alone
  is not inductive: a confirmation would add an amount about which nothing is
  known. When a run passes the check, the count and its own amount are within
  the daily limit, and each other run owes a transaction's limit at most
  (`SumBound`).
* `CountInv`: what the swaps that executed have spent of a token is within
  the tracker's count, what runs whose swap is confirmed have yet to add to
  it, and a transaction's limit for each swap in `missed`. This ties the
  count to what happened on chain: each step that executes a swap owes it to
  the count or to `missed`, each one that counts or gives up pays it
  (`Accounts`, with one lemma for `Land`, for `Finish` and for the others).

From `SpendInv` and `CountInv` together follows `SpendingIsBounded`, since
what is still to be added is among what may be (`ToCountIsDue`). From
`ServerInv` follow `SwapServerTypeCorrect`, `ServerTakesAgentSteps`,
`SignedAsThePolicyAllows` and `FilledAsItWasPlanned`, and for what is behind the backend `SwapServerKeepsTokens` and
`SwapServerKeepsAgent` (`SwapsAsSigned`, `ProductNeverFalls`,
`ImplementsLedger`).

*PorstWallet.* The invariant `WalletInv` types the buffers by what was
signed (a chunk is junk or a piece of a signed intent), says for every wallet
that the nonce is the length of its history and `epoch * SigningCapacity +
used`, that `used` is 0 when the epochs are exhausted (without it the lifetime
of the key could be overrun by a part of an epoch), and that a wallet not yet
created has executed nothing (its creation sets the counters to 0). From it
follow `WalletTypeCorrect`, `LedgerHolds`, `TransfersFollowSignatures` and
`WalletImplementsLedger`, the refinement of `FewTimeLedger`: a transfer is
`Execute` of the intent its buffer holds, every other step a `Sign` or a
stutter. `BufferTells` is the lemma that matters: a buffer that verifies for
an intent holds only pieces of it, and something signed.

*PorstMultiproof.* The four invariants of a signature's words, for trees of
any height, subsets of any size, any number of epochs and any selections:
`MultiproofTypeCorrect`, `FrontierServesTheNextLeafAlways`,
`SignatureIsAlwaysMinimal` and `AcceptsOnlyWhatWasSigned`. The one assumption
is that a subset fits in the tree; that hashes are free constructors is part
of the model.

Rows of a tree, nodes of a fold and the search of an insertion are recursive
functions, and what they compute at every level needs induction. The
library's induction theorems take an operator as a parameter, which the
installed provers cannot instantiate; its theorem that a well-founded
relation has minimal elements takes a set. `Induction` is that theorem for
`<` on the natural numbers. Powers of two, which the provers know nothing
of, are the numbers of subsets (`PowerFacts`).

The argument, in the order of the module:

1. `PathUp`, `Together`, `InOrder` and `Siblings`: paths of leaves that have
   met stay together, keep their order, and where two meet the earlier leaf's
   node is the left of two siblings. `TreeStep`: hashing a node with its
   sibling gives the tree's node above them if *and only if* both are the
   tree's. `FoldReachesTheKey` is the same for a whole path to the key.
2. `LowerBoundFinds` and `InsertionKeepsOrder`: the binary search finds the
   place, and an insertion keeps the subset strictly increasing. Only then is
   a park level defined (`ParkLevelMeets`).
3. `Shape`: a slot of the frontier is taken exactly where an earlier leaf
   has left a left sibling of the present leaf's path, at the walk's level
   or above it (`Waiting`). It holds whatever words the walk reads
   (`OnwardShape`), so that the signer's walk and the verifier's, on any
   input, read at the same places.
4. `Authentic`: what the walk holds is the tree's. `OnwardAuthentic` says
   that this is so after a step if and only if it was so before it and the
   word that was read was the one that belongs there. One direction makes the
   verifier accept what was signed, the other makes it accept nothing else.
5. `Position`: the place of a word is the number of places before it at
   which the walk reads. `Written`, `Matches` and `Complete` say with it what
   has been written, what has been read and what a whole signature is;
   `CompleteUnique` and `CompleteSubset` that a signature is one of a kind and
   tells the subset and the epoch it is for. For the latter every place has to
   be known to hold a word (`Filled`), since the preimages could otherwise be
   among words of another kind.
6. `MultiproofInv`, the inductive invariant, says these of each phase: the
   signer's walk is authentic, the verifier's is so if and only if the words
   read so far match.
7. `SignatureIsAlwaysMinimal` is a count: the places at which the walk reads
   a witness are in one-to-one correspondence with the nodes that cover no
   selected leaf while their siblings cover one. Such a node is read at the
   last leaf below its sibling (`NeededIsRead`), one that is read covers
   nothing (`WitnessCoversNothing`), and none is read twice (`PathsApart`).

*PerpBootstrap.* `BootTypeCorrect`, `MarketKept`, `TraderKeyKept` and
`StrandingCosts`, for any number of crashes, stops, resets and removals: no
bound enters the proof. The properties speak of a serving backend or of the
mints left over and are not inductive, since they say nothing of a boot under
way. `IInv` adds three facts.
`KeyRead`: from the moment the keystore is written, the daemon's key and the
boot's are the one on disk. `KeyOfTrader`: the trader account has that key,
and so has one that a dead boot's transaction may still create. `HomeKept`:
while the cluster has the mint first served, the environment file names it or
is torn, no boot is about to make another, and one that has a mint has that
one. `BootKeepsIInv` and `EventsKeepIInv` have one step per action.

For `StrandingCosts` the count itself has to change: a mint is stranded when
the cluster creates it, which may be long after the boot that sent it died,
and paid for when that boot ended. `Lost` therefore counts mints still to
land as well as those that exist, except the one of the file and the one in
hand, and `Counted` bounds it by the boots that ended at a mint the file did
not name and the removals (`MintGivenUp`). `HeldApart` is what lets a boot go on with a mint other than the
file's without losing one: the cluster has not got the file's mint, and will
not get it.

*PerpIntent.* `DecidedAllowed`: what the agent decides by itself passes every
check of `checkOpen` on figures, for every balance of at least 1 USDT and all
limits no tighter than 3x, 250 USDT and 750 USDT of notional, the default
limits among them. `NormalizedClamped`: whatever numbers a model answers,
the plan has a leverage from 1 to the market's and no negative collateral.

*PerpClient.* `AnswersHold`, for any number of clicks, mounts and failures.
`TrueSoFar` says of each request what it has come to: one whose transaction
is being read back or answered has executed for its own position, what was
said stays said, and what had an effect was sent. The last conjunct is what
carries "rejected": a request that was never sent cannot take effect later.

A note on form: where two entries under one key change (the two vaults of a
pool, two accounts of a holder, a vault that pays itself) the modules update
one after the other instead of listing both in one `EXCEPT`, a form that tlapm
1.4.5 mistranslates when two updates share a key, so that a proof about it
would not be one.

*Only model-checked:* liveness, that is `StopsExecuted`,
`LiquidationsExecuted`, `OracleConverges`, `OperationsEnd`, `DisplayConverges`
and `EventuallyServes`: the prover has no reasoning about enabledness.

## Divergences found

Two runs show by a counterexample that the code does not do what the
repository says of it; the findings in `PROJECT.json` quote the lines.

| run | what the repository says | what happens |
| --- | --- | --- |
| `server_slot_reuse` | the signer never signs twice at a slot | two concurrent requests read one nonce and both get signatures |
| `swap_daily_limit` | a limit on what the agent spends per session | `/api/execute` checks without the spend tracker, and concurrent runs share one count |

Met while modelling, and visible in the models, but not the subject of a
run:

* a stop-loss of more than 100% below the entry of a long has a negative
  level (`perp-routes.ts:169`), which the policy takes for a stop
  (`perp-policy.ts:66`, `:71`) and the signer converts to 0, which is none
  (`solana/wasm/src/lib.rs:201`). So an open is signed without the stop its
  leverage requires, where the policy says that an unsafe position is
  "rejected without a signature ever being requested"
  (`perp-policy.ts:4-5`). It does not execute: the transaction carries the
  magnitude of the level, and the digest the program computes is another.
  `SignedWithinPolicy` says this much and no more, with `DeepStop` among the
  plans of `server_requests`; a signature of the key is spent on nothing. A
  take-profit of more than 100% on a short goes the same way;
* runs of the swap agent that stop waiting for a transaction that lands, or
  throw between the confirmation and the count (`pipeline.ts:158-168`), are
  never counted by the `SpendTracker`, nor are those of `/api/execute`. The
  "max cumulative input per token per session" (`policy.ts:15`) is therefore
  exceeded by one swap for each of them, besides the concurrent ones
  (`SpendingBounded`);
* two trader accounts may be created with one key (`lib.rs:171`), and each
  counts the key's capacity for itself: together they have the key sign more
  than it can bear in an epoch. `EpochCapacity` has the premise that accounts
  have keys of their own (`DistinctKeys`);
* a request to the signer has no time limit and its promise is not told of
  the end of the connection (`client.ts:86`): the handler that waits for a
  daemon that died waits for ever, and so does the view, which stays busy.
  `OperationsEnd` excludes just this (`Hung`);
* the bootstrap's market parameters (`agent/perp-bootstrap.ts:69-74`: 5%
  maintenance, 20x, 0.1% fee) let a position at 20x be liquidatable in the
  slot it opens in. `SoundMarketsOpenAboveMaintenance` is about the markets
  where that cannot happen;
* `close_position` never compares the clock with the age of the price, so a
  close at "the live mark price" may be at an old one (`lib.rs:327-370`);
* `perpOpen` counts the open positions several awaits before its own opens,
  so that two concurrent opens both pass `maxOpenPositions`
  (`perp-routes.ts:260`);
* stops are computed from the quoted price and the entry is at a later one,
  so that a long may enter below its own stop-loss (`perp-routes.ts:246`);
* what a close is reported to have returned is a difference of two balance
  reads, which other requests change, and which take a failed read for 0
  (`perp-routes.ts:336`, `perp.ts:198-204`);
* an open whose transaction landed is reported as rejected if the read of the
  state after it fails, or the confirmation takes too long (`perp-routes.ts:305`,
  `Perp.tsx:65-66`); the poll shows it all the same (`DisplayConverges`);
* the comment "Top up only if depleted" (`perp-bootstrap.ts:83`) is not what
  happens when the read of the balance fails: it counts as 0, and a full
  account is topped up (`perp.ts:198-204`);
* a kill within `writeFileSync` leaves a keystore or an environment file that
  exists and does not parse; every boot from then on throws until the file is
  removed by hand (`perp-bootstrap.ts:33-39`, `:48-49`). `EventuallyServes`
  excludes it by its premise `FilesWhole`;
* removing `.demo` leaves the trader account with a key that is gone, and
  `createTrader` does not make another: the engine serves and nothing it
  signs is accepted, until the cluster is reset as well (`orphaned`);
* the fallback takes the first number of a message for the amount even if it
  is followed by an x: "long 10x" is not asked "for whatever's missing"
  (`perp-llm.ts:167`) but proposed with 10 USDT (`AmountOf`). Asked to decide,
  it ignores the side the message names (`Fallback`);
* overlapping ticks can post an older price after a newer one
  (`oracle.ts:92`); `OracleConverges` is what remains;
* the two reserves of a quote are read in two awaits, and a trade between
  them gives a quote the pool would never have paid (`sdk.ts:181-182`);
  `FilledWithinSlippage` holds relative to such a quote too.

## What is not modelled

* Keccak, byte layouts and decoding of accounts: hashes and digests are
  constructors over what they bind.
* The price service, the validator, the token and system programs are
  external, modelled by what the code relies on. The runtime's rent rule is
  part of `PorstWallet`.
* Intents posted to `/api/execute` other than those the interface was shown:
  `offers` holds what `/api/interpret` answered, and these may come back late
  or repeatedly.
* The language models, and `llm.ts` of the swap agent: requests to the
  backends may ask for any action, so that whatever a model makes of a text
  is included. Of `perp-llm.ts` the patterns themselves are not modelled,
  only what they capture, and fractions of USDT are not either.
* The swap view of the web interface, and all rendering. Its requests are
  those of `SwapServer`, which lets several come at a time.
* Torn reads of the two files by a signer that starts during a write: the
  boot writes them before it starts the signer.
* Amounts in `PerpBootstrap`: nothing bounds what the authority mints, and a
  top-up may happen whatever the balance.
* Percentages of plans are whole, and 0 stands for one that is not set; a
  posted 0 gives a level at the entry, which the policy refuses. Prices on
  chain are integers as they are in the code. Numbers beyond 2^53, where a
  float that carries an amount to the signer loses digits: what is signed is
  then not what is sent, and the program refuses it.
* The width of 128 bits: `saturating_mul` in `pnl` and the product of
  `borrow_fee` are exact in `PerpMath`, as they are in the code for notionals
  below 2^63 base units and ages below 2^40 seconds.
* Pools over twice the same mint, which `init_pool` does not refuse.
* Tests, scripts, deployment.
* `porst`'s own initialize and write_buffer, and the crash windows of the swap
  agent's bootstrap, which creates everything anew where the perp's looks
  first.

## Plan

Done: the programs, both backends, the perp engine's boots, its view in the
browser, the abstract ledger, the multiproof, and the theorems above. In this
order, next:

1. The swap view and `llm.ts`, as `PerpClient` and `PerpIntent` are.
2. The wallet's owner as a client of `PorstWallet`, as `PerpServer` is one of
   `PorstPerp`: staging in order, with failures.
