# FALARON: a TLA+ model of the shop, its bots and its second generation

This directory specifies, checks and partly proves the repository's own logic under
`src/app/`: money (wallet, orders, deposits, prices, referrals), the Telegram bot's
conversations, the catalogue and its synchronisation, boots and seeding, and the
components of the second generation. Paths below are relative to `src/app/` unless they
start with `src/`.

## 1. Inventory

Two generations of the program live side by side. The first ("FALARON", described by
`src/README.md`, `src/DEPLOY.md`, `src/HANDOVER.md`, started by `app/__main__.py`) is
what is deployed. The second ("phases", `src/PHASE_24_AUDIT.md`, started by `app/main.py`)
has its own ledger, order engine, provider registry, admin and tenant code; `app/orders/`,
`app/wallet/`, `app/workers/`, `app/sync/`, `app/pricing/`, `app/audit/` and
`app/security/` contain no `__init__.py` and share their names with modules of the first
generation, which win on import. Those directories are modelled as what they say, not as
what Python would import beside the first generation.

| component | state | operations | hard behaviour | what makes it correct |
|---|---|---|---|---|
| wallet (`wallet.py`, `db.py`) | `users.cached_balance/reserved`, `ledger_entries` | lock, credit, debit, reserve, release, capture | concurrent sessions with stale ORM objects, rollback | no lost update, solvent postings, one posting per key, cache = ledger |
| order engine (`orders.py`, `adapters/perfectpanel.py`) | `orders`, its ledger entries, coupons' use | place, sync, cancel, refill, resolve, flag stuck | panel calls inside a transaction, lost answers, crashes, cancel racing sync, retries | every charge held once then taken or returned once, repaid up to the charge; nothing delivered for free, nothing undelivered kept |
| deposits (`payments/service.py`, `payments/razorpay.py`, `api/webhooks.py`) | `payments`, `payment_events` | create, webhook, check, reconcile, confirm by hand | repeated, lost, reordered webhooks; lookups racing them; late payment | credited at most once, only the exact amount, eventually |
| pricing (`pricing.py`, `pricemath.py`) | rates, markups, star prices, settings | quote | rounding of floats, layers, coupons against margins | never below cost, margin kept |
| coupons (`pricing.py`, `orders.py`) | `coupons.used_count`, `coupon_redemptions` | check, redeem, return | check before lock, write-back after a panel call | limits hold, count exact |
| referrals (`referrals.py`) | `referred_by`, commissions, payouts | start hit, order and deposit commission, payout | completion out of order, locks of a second user | capped, paid for deliveries, no deadlock |
| workers (`workers.py`) | none of their own | order sync, payment reconcile, stuck orders, health, catalogue | loops beside requests | everything open is looked at again |
| catalogue (`catalog.py`, `sync.py`, `sync_normalize.py`, `cli.py`) | services, categories, providers, adapter cache | sync, operator's switches, key rotation, adapter look-up | truncated lists, two syncs, a stale cache | what the operator switched off stays off; catalogue and panel agree in the end |
| seeding (`seed.py`, `db.py`, `__main__.py`) | every fixture row | boot | overlapping boots, death half-way, a CLI beside them | nothing an operator has set is overwritten |
| Telegram bot (`bot/`) | conversations in memory | middlewares, forms, staff desk | concurrent updates of one user, rows loaded before locks, old buttons, roles that change | terms first, staff only, one bonus, no posting lost |
| rate limiting (`ratelimit.py`, `api/limits.py`) | sliding windows in memory | hit, garbage collection | full key table | at most `limit` hits per window |
| API, CLI (`api/`, `cli.py`) | none | call the services above, commit | - | - |
| audit, notifications, ads, security, config | write-only rows, messages | - | - | - |
| 2nd gen. ledger, webhooks, orders (`wallet/`, `payments/adapters.py`, `payments/stripe_adapter.py`, `orders/engine.py`) | wallets, transactions, payments | deposit, adjust, order | repeated and concurrent events, a key looked up before the lock | each verified payment credited once, balance = sum of entries |
| 2nd gen. rates and prices (`fx/`, `pricing/engine.py`, `coupons/engine.py`) | cached rate, rules | refresh, calculate, confirm | rules change between preview and order, floors in some branches only | charged as shown, never below the floor by discounts |
| 2nd gen. providers (`providers/`, `sync/engine.py`) | registry in memory, services | call, reload, sync, batch status | calls in flight during a reload; refused and partial batches | breakers keep their state, each order gets its own status |
| 2nd gen. administrators' bot (`admin_bot/`) | conversations, flags | prompt, form, switch | abandoned forms, old buttons | done = asked |
| 2nd gen. tenants (`tenants/`) | tenant rows, bots in memory | create, activate, suspend, rotate, delete, startup | row committed, then the bot; restarts | bots match rows |
| 2nd gen. CMS (`cms/`) | broadcasts | queue, deliver | death half-way, retries, bans meanwhile | counters exact |
| 2nd gen. premium (`premium/`) | subscriptions, a flag | grant, revoke, expire, gate | overlapping transactions | flag honest |
| 2nd gen. the rest: sign-in and sessions, risk, notifications, monitoring, Mini App | own tables, Redis | see `PROJECT.json` | little: one step each | not modelled |

Interaction: API handlers, bot updates, CLI commands and workers each open a database
session, call one service function and commit when it returns (`db.py` `session_scope`,
`api/telegram_auth.py` `get_db`, `bot/main.py` `DbSessionMiddleware`). The order engine
and the deposits post through the wallet. They wait for the panel or the gateway *inside*
the transaction. Row locks (`SELECT ... FOR UPDATE`, the row lock of an `UPDATE`) and the
unique idempotency keys are the only synchronisation.

`PROJECT.json` lists the components with what is modelled of each, and under
"hazards" what is hard to test in this code, each at its line.

## 2. Modules

| module | role |
|---|---|
| `Statement` | what the wallet promises: an append-only list of legal postings |
| `Wallet` | `wallet.py` by concurrent sessions; implements `Statement` |
| `MCWallet`, `MCWallet.cfg` | its instance for TLC |
| `WalletProofs` | TLAPS proofs about `Wallet` |
| `Escrow` | what the order engine promises about money |
| `Orders` | `orders.py`, the panel adapter, coupons' use and the order commission; implements `Escrow` |
| `MCOrders`, `MCOrders*.cfg` | its instances |
| `OrdersProofs` | TLAPS proofs about `Orders` |
| `Deposits` | what deposits promise |
| `Payments` | `payments/service.py`, webhooks, reconcile worker; implements `Deposits` |
| `MCPayments`, `MCPayments*.cfg` | its instances |
| `PaymentsProofs` | TLAPS proofs about `Payments` |
| `Pricing` | `pricing.py` and `pricemath.py` |
| `MCPricing`, `MCPricing.cfg` | its instance |
| `PricingProofs` | TLAPS proofs about `Pricing` |
| `Referrals` | `referrals.py` inside the transactions of webhooks, taps and workers |
| `MCReferrals`, `MCReferrals*.cfg` | its instances |
| `ReferralsProofs` | TLAPS proofs about `Referrals` |
| `Bot` | the middlewares and conversations of `bot/` |
| `MCBot`, `MCBot.cfg` | its instance |
| `BotProofs` | TLAPS proofs about `Bot` |
| `Catalog` | `sync.py`, `sync_normalize.py`, the adapter cache, the operator's switches |
| `MCCatalog`, `MCCatalog*.cfg` | its instances |
| `CatalogProofs` | TLAPS proofs about `Catalog` |
| `Boots` | `seed.py`, `db.py` and the start of `__main__.py` |
| `Market` | the second generation's ledger and the transactions that post to it |
| `Rates` | `fx/rates.py` and `pricing/engine.py` |
| `Providers` | `providers/registry.py`, the health check, `sync/engine.py` |
| `Panel` | `providers/smmpromax.py` over `providers/base.py` |
| `AdminDesk` | `admin_bot/handlers.py` |
| `Tenants` | `tenants/` |
| `Broadcasts` | `cms/service.py`, `cms/broadcast_worker.py` |
| `Premium` | `premium/service.py` |
| `MCScenes`, `MCScenes.cfg` | one instance of each of the last nine |
| `ScenesProofs` | TLAPS proofs about the nine, as `MCScenes` instantiates them |

Each specification also contains, directly before a definition, an operator of the same
parameters that is not used by it: a plausible bug of that definition (a missing guard, a
stale read). Substituting it must break the property `PROJECT.json` pairs it with under
"mutants".

### Wallet

One customer's row. `row` and `ledger` are the committed state, `lock` the row lock,
`sess[t]` a session: its `User` object (`user`) and the postings it flushed (`added`).
`Open` is an unlocked `session.get`, whose object goes stale; `LockUser` is `lock_user`,
which flushes and re-reads; the five money operations take the lock, look up the key, test
the funds and call `_append`, refusals leaving only the lock behind; `Commit` and
`Rollback` end the session. SQLAlchemy sends an `UPDATE` only for changed attributes, so a
session that posted nothing does not write its stale balances (`CommittedRow`).
The interleaving is that of PostgreSQL under READ COMMITTED; on SQLite writers are
serialised by the database and there are fewer behaviours.

### Orders

`account` is the `users` row, `order[o]` the `orders` row with the ledger entries and
idempotency keys that refer to it (`posts`, `refunded`), `panel[o]` the panel's own view,
`locked` the row lock that `place_order` holds across its panel call, `sess[s]` what a
session is doing and its copy of the row. A handler is cut where another session can get
between: after unlocked reads and at panel calls. From the last such point to COMMIT it
takes row locks only and is one action. So

- `place_order` is `PlaceQuote` (validation and price, no lock), then under the lock
  `PlaceReplay`, `PlaceRefuse` or `PlaceReserve`, then `PanelAccepts`/`PanelDeclines`, and
  `PlaceAccepted`, `PlaceReview` or `PlaceFailed`. Until it commits the order is in nobody
  else's view; `Crash` in between makes it vanish.
- `sync_order_status` is `SyncLoad`, `SyncReport`/`SyncUnavailable`, and one action for
  each way to apply a report. The loaded status decides whether anything happens.
- `request_cancel` is `CancelLoad`, `CancelConfirmed`/`CancelRefused`, `CancelCount` (the
  unlocked sum of refunds), `CancelCredit` or `CancelRelease`.
- `request_refill` is `RefillLoad`, `RefillCommit`; `resolve_review_order` is
  `ResolveLoad`, `ResolveRelease` or `ResolveAttach`. The operator is assumed to follow the
  instruction in the notification: look the order up on the panel, then release or attach.

The panel is external and modelled from how the adapter uses it: it accepts an order or
not, moves its status forward (`Later`; a partial order may still be cancelled), and a
confirmed cancellation cancels. `Faults` selects what may go wrong: "reject" (an error
body or 4xx), "timeout" (a retryable error; the panel may have accepted), "garbled" (an
accepted order whose answer is unreadable), "crash".

Abstractions. The worker's batch is one transaction in the code and one per order here:
it applies the same steps with fewer commits, so it has fewer interleavings of commits
but more of locks (see "deadlock" in the hazards). A deadlock that PostgreSQL breaks is a
`Crash` after the panel call. Opening balances stand for deposits. Coupon discounts do
not change `Charge`: `Pricing` deals with amounts, `Orders` with uses. What a partial order leaves undelivered is a
value of `Undelivered`. The kill switches and bans are guards that only
remove behaviours. `flag_stuck_orders` selects committed rows in
"pending"/"awaiting_provider" without a provider id, and `place_order` never commits one,
so the function has no effect on any reachable state and no action.

### Payments

`payment` the rows, `deposits[p]` the ledger entries under the invoice's deposit key,
`events` the processed webhooks, `link` the gateway's payment link, `sent` the webhooks
it emitted: any of them may be delivered, repeatedly and in any order, or never. A lookup
(`Load`, `Lookup`, `LookupSettles`/`LookupExpires`) stands for `check_payment` and for an
item of `reconcile_pending`'s batch. `settle_payment` locks the row with
`select(...).with_for_update()`, which in SQLAlchemy does not refresh an object the session
holds already: after a lookup it decides on the status *seen* before it (`Settle`). Only the
ledger's key, checked under the user's lock, then prevents a second credit. In a webhook
the row is loaded by that very statement, so it decides on the current status.

### Pricing

Integer arithmetic in paise. The code multiplies rates by floats `1.0 + p/100.0` and
rounds up; whether that noise lifts an exact integer product by one is chosen per
percentage (`shop.noise`), consistently within a quote as in the code. For products below
2^53 any other case rounds as the exact product does. A percentage here is an integer.

### Referrals

Everything that posts a commission is a transaction that takes row locks one after the
other: the payment or order, its buyer, the buyer's referrer. `lock[r]` is the queue at a
row, its head the holder; PostgreSQL grants a row lock in the order of arrival. A worker's
batch is ONE transaction (`workers.py` commits once, after the loop), so it holds every row
it has touched while it waits for the next; a webhook or a "refresh" holds up to three.
Users may have referred each other (`record_start_hit` looks at nobody's referrer but the
visitor's), so they can wait in a circle; the database aborts one of them (`Victim`), and
its whole batch starts again at the next round. `first` is history: which deposit was
credited first, and whether its buyer had a referrer then.

What else the module says: the stamp of a second `/start` tap, loaded while the first was
not committed, replaces the referrer (`LoadVisitor`/`StartHit`).

### Bot

An update is a task of four steps, as the middlewares cut it: its handler is picked by the
conversation's state when it arrives, then the sender's row is loaded, then the handler runs
on that row, then the session is committed or lost. Conversations (`chat`) are in memory and
change at once, rows at the commit. What a handler does between its first lock and the commit
is one action. Staff screens re-check the role in every handler, on the row the task loaded:
`Admit` and `SetRole` (the CLI) may come in either order. `Uses` chooses which handlers each
user's updates are for; buttons of any old message are always there to be tapped.

### Catalog and Boots

`Catalog`: a sync asks the panel (`SyncBegin`, `SyncFails`), reads services and categories
(`SyncLoad`) and commits the columns it changed (`SyncCommit`): `Synced` mixes them with what
was committed meanwhile, as an ORM's `UPDATE` does. An answer may be cut short, contain
invalid rows, or fail; `Trusted` is the code's test of it (`MinRows`, `MinLive` stand for its
10 and 20). The CLI's activation is `Toggle`/`ToggleCommit`; `Tick` ages the cached adapter.

`Boots`: a boot migrates in one transaction and seeds in a second one; each row is read,
found missing or present, and written, and two boots may do this side by side or be killed.
`EnvOwns` names the rows a boot rewrites: the panel's credentials, in production the legal links
(both from the environment), and a `brand_name` that is "velora", which becomes "FALARON" at every
boot, whoever set it (`seed.py:434-436`). An operator's CLI and a customer's use of a coupon go on
meanwhile. A demo's SQLite file and production's PostgreSQL
are never the same database, so `production` is fixed in a behaviour.

### The second generation

`Market`: a webhook, an adjustment and an order each open a session, look their key up, lock
the wallet, write, and commit or roll back; what is flushed is private until then. `Submit`,
the provider call of an order, always fails: `orders/engine.py` calls
`registry.create_order` with keywords while it takes an `OrderRequest`, the refund is posted
in the same session, and the `OrderError` that follows leaves the session without a commit.
Hence no order row is ever stored, and `refund_order`, `update_order_status` and the order
monitor, which start from one, have no reachable effect. `transfer_coupon`, which starts from a
coupon's owner, has no caller. The reconciler's `_check_provider` always answers "pending", so it
never posts anything.

`Rates`: the rate from cache or fallback, every branch of `calculate_price` with its
roundings (halves to even), and a preview followed by an order that calculates again and is
refused when the price has moved by more than a paisa. The coupon's discount is any of `Coupons`;
`create_order`, the one caller, previews the coupon without an order total
(`orders/engine.py:163`), which makes it 0, so the model allows more than the code does. Nothing runs the refresh, as
`run_fx_rate_refresh` is registered in no scheduler; the model lets it run, which covers both.

`Providers`: calls end in any order and record their result in the entry that is current
then; a reload builds a copy and, when clients of dropped panels must be closed first,
installs it later. `redis` is the record of a breaker that `record_failure` writes with a
time-out of 30 minutes; `Expire` lets it run out, which changes nothing else, because nothing reads
it. `Panel`: one call of the adapter, from its first request to its answer,
with refused chunks, the fallback to single requests, missing entries, answers without a status
(in a batch as alone the default stands in), and a panel that moves
its orders on between two requests; an order may also be cancelled.

`AdminDesk`: a button notes in the conversation what a text will be about and sets the state
(two writes); the text's handler does what it finds there; most other buttons leave what is
noted. `Tenants`: the row is committed first, then the bot is started or stopped; `startup()`
works through rows it read earlier; the process restarts. `Broadcasts`: one transaction per
broadcast, committed at its end, with retries per message and batches for the counters. A segment
is the rows of its query (`ResolveSegment`): one per user for "all" and "inactive_30d", one per
active `user_premiums` row for "premium" and "vip", whose query joins that table
(`cms/broadcast_worker.py:141-160`). `listing` keeps what the last delivery read, `result` what
came of each row.
`Premium`: grants, revocations, gates and the expiry job read, decide and commit separately.

### MCScenes

The nine modules `Tenants` to `Rates` share no state: none reads or writes what another
keeps. `scene` picks one in the initial state and only it takes steps. A property that speaks of
one component holds of all of them running together exactly when it holds of that component
alone, so nothing is lost; checking their product would cost its size and show no more. This
also keeps one configuration for the nine instead of nine that differ in constants only.

## 3. What is checked

`PROJECT.json` has every run with its properties. The passing ones:

| run | shows | bounds and why they are enough |
|---|---|---|
| `wallet` | `TypeOK`, `LedgerLegal`, `RowMatchesLedger`, `ImplementsStatement` | 2 sessions (one holds the lock, one is stale), 3 keys (so at most 3 postings), amounts 1 and 2 (a partial release, a refused debit); `WalletProofs` removes the bounds |
| `orders_concurrent` | `TypeOK`, `HoldsBacked`, `NoFreeDelivery`, `UndeliveredPaidBack`, `ImplementsEscrow` | 2 sessions, 3 orders of different charges that a balance of 5 cannot all pay, rejections and time-outs; without cancellation, "pending"/"refunded" reports, garbled answers and crashes, which break these (below) |
| `orders_sequential` | `RefundCap`, `DeliveredNotRefunded`, `CommissionOnDelivery`, `CouponWithinLimits`, `CouponCountExact`, `FinishedStays` | all operations and faults, 2 customers, 3 orders with and without a coupon for one use each and two in all, but one handler at a time: the properties are about sequences of handlers; with two at a time most of them fail (below) |
| `orders_liveness` | `KeyPlacedOnce`, and `EventuallySettled` under `FairSpec` | 2 sessions, 2 orders under one key, time-outs, cancels racing syncs; without rejections (below; `OneOrderPerKey` allows any faults until an order fails) |
| `payments` | `StatusHonest`, `ImplementsDeposits` | 2 invoices (one online, one by hand), 2 sessions and the webhooks, batch limit 1, all faults |
| `payments_lost` | `ReceivedIsCredited` under `FairSpec` | the same with late payments; a batch that holds every open invoice, no ageing |
| `pricing` | `NeverBelowCost`, `MarginKept` | rates 0, with and without exact products, markups below cost, discounts at 0, inside and beyond the clamp, quantities at and beyond both limits |
| `bot` | `CashAccounted`, `WelcomeOnce`, `TermsFirst`, `StaffOnly` | a newcomer, a regular and an admin, 2 updates at a time, 5 in all: an admin's conversation of four messages with a role change or a second update inside it; two taps on one button with the accept of the terms |
| `referrals` | `OneCommission`, `CommissionDue`, and `EventuallyRecorded` under `FairSpec` | 2 users who refer each other, 3 deposits (two of one user) and an order, both workers, a webhook and a tap: the circles of two and three transactions exist |
| `catalog` | `OffStaysOff`, and `CatalogueConverges` under `FairSpec` | 2 services of a category, 2 sessions (two syncs, or a sync and a command), all faults, 2 events; limits 2 and 2 so that both sides of the code's tests occur |
| `scenes` | the nine properties of section 2's last nine modules | tenants: 1 owner, 2 slugs and tokens, 5 requests, 2 restarts; broadcasts: 2 readers with up to 2 premium rows each, in batches of 2 (so up to 4 rows, two batches), 2 broadcasts, one run at a time, a crash, 2 bans or changes of premium rows; providers: 2 panels, 2 calls at once, 5 in all, thresholds 2 and 3; premium: 2 transactions at a time, 3 subscriptions; desk: 5 taps of one admin over all forms; market: 1 payment, 2 sessions at a time, 3 in all; panel: 3 orders in chunks of 2; boots: 2 at a time, one row at a time that the operator or a customer has made something of (`MaxWords`; the rows of a boot do not depend on each other's values, `ScenesProofs` removes the bound); rates: a believable and an unbelievable rate, costs and percentages around the rounding boundaries |

The properties of `scenes`: `BotsMatchRows` (while no request is about a tenant, its bot runs
exactly when its row says so, with the current token), `CountsExact` (a completed broadcast's
counters say what its last delivery did with each row of the segment it had read, and whoever is
counted as sent has the message), `TripKept` (a tripped breaker stays so through
successes, failures, reloads and the end of its Redis record), `FlagHonest` (a premium flag has an active subscription),
`AsAsked` (a form is carried out for what its admin was last asked about), `DepositOnce`
(verified and credited once are the same thing, balances are sums), `HonestAnswers` (a batch
answer names each number asked once at most, in the order asked, and says of it only what the
panel said of it during the call), `OperatorKept` (boots keep what operators and customers made
of the rows; not the panel's key and, in production, the links, which are the environment's, and a
brand name stays or becomes FALARON), `ChargedFairly` (an order is charged as shown, no discount undercuts the floor).

`TypeOK` includes that balances and reservations are natural numbers, which the
code only ensures by its guards.

`FinishedStays`, `CouponWithinLimits` and `CouponCountExact` are claimed for one session
only. With two, a sync that loaded an order before a cancellation can write an older status
over it, two requests can pass the coupon's limits before either takes the lock, and two
placements can lose an increment of `used_count`. `EventuallySettled` shows that the first
is healed by the worker; the others are not.

`CHECK_DEADLOCK FALSE` is set in the runs of payments, bot, referrals, catalog and scenes:
once the bounded invoices are settled, the jobs recorded or the bounded updates and events
used up, nothing happens any more. That nobody waits for ever in `Referrals` is
`EventuallyRecorded`.

### Violations

Two findings are disagreements between the code and what the repository says of it, each with
the line quoted. The run `orders_crash` violates `NoFreeDelivery`: a crash after the panel's
acceptance leaves no order and no reservation (`orders.py:352`), although `flag_stuck_orders`
describes funds that stay held. And `providers/registry.py:8-9` and `:55` promise that a provider
that is down resets itself after 30 minutes, while in the code only the Redis record runs out,
which nothing reads: `TripKept` passes, since it says what the code does, and `AutoReset`, which is
the comment, is violated (`ProvidersAutoReset.cfg`).

More configurations of the same kind are in this directory; `tlc -config X.cfg M` finds each
violated.

| configuration | property | what the code does |
|---|---|---|
| `MCOrdersRefunded.cfg` | `UndeliveredPaidBack` | an order the panel itself reports "refunded" is not credited (`orders.py:459`) |
| `MCOrdersPendingCancel.cfg` | `UndeliveredPaidBack` | cancelling a captured order whose reported status is "pending" credits nothing (`orders.py:587`) |
| `MCOrdersCancelRace.cfg` | `RefundCap` | a cancel and a sync can together refund more than the charge (`orders.py:600`) |
| `MCOrdersCommission.cfg` | `CommissionCapped` | orders completing out of id order earn more commissions than the cap (`referrals.py:199`) |
| `MCReferralsFirst.cfg` | `FirstDepositOnly` | the payment being settled is not flushed as paid when the paid ones are counted (`db.py:63`, `payments/service.py:215`), so the second deposit still counts as a first: a user attributed between the two earns the referrer a commission with it (`referrals.py:233`) |
| `ProvidersAutoReset.cfg` (of `Providers`) | `AutoReset` | a provider that is DOWN stays so after the 30 minutes in which `registry.py:8-9` and `:55` say it resets itself (`providers/registry.py:239`) |
| `MCCatalogCategory.cfg` | `CategoryVisible` | the CLI counts a category's active services before its own change is flushed (`cli.py:137`) |

Others were met while modelling; each follows from the model as it stands, with the
constants named here.

- `KeyPlacedOnce` fails with `Faults = {"reject"}` and `MaxOrders = 3`: a rejected request retried under its
  key gets a fresh, time-stamped key (`orders.py:276`), so a second retry places it again.
- `NoFreeDelivery` fails with `Faults = {"garbled"}`: an acceptance the adapter cannot read
  (`perfectpanel.py:151`) counts as a refusal and releases the funds (`orders.py:372`).
- `CouponWithinLimits` fails with two sessions (`pricing.py:217`).
- A refund or dispute notice that arrives before the paid event leaves no mark on the
  invoice (`payments/service.py:273`), which is still credited afterwards, while
  `src/DEPLOY.md:150` says such payments are never auto-resolved. A gateway link that was
  refunded counts as received in `Payments!Holding` for this reason.
- A minimum margin configured above 10% is not kept for resellers who bring no coupon
  (`pricing.py:121`), so `Pricing!KeptMargin` is 10% for them.
- With a retail margin below 10% a reseller pays more than retail (`pricing.py:121`,
  where the floor lifts the discounted rate).

In the components added beside the money core:

- Referrals. `bot/messages.py:290` promises "10 rupees per friend", the code pays 5 % of a deposit and
  8 % of orders. Webhooks re-delivered without end can deadlock with the batch again and
  again; `MaxChances` bounds them, as a gateway that gets no 200 gives up.
- Catalogue. A service can be activated while a sync that finds its type unsupported
  commits: both write their own columns and it stays sellable (`SellableOnly`, against the
  comment at `sync.py:206`). An answer whose valid rows are all new passes `looks_malformed`.
  A panel that really drops more than half of its services is never believed. An
  `IntegrityError` of one provider spoils the session that `sync_all` goes on using.
- Boots. A key of `prov_main` rotated by the CLI is overwritten from the environment at the
  next boot, and a brand name set to "velora" is renamed to FALARON by it (`seed.py:434-436`),
  even if it was changed to something else after the boot had read it. Overlapping boots are kept from doubling rows by primary keys; the ads have none
  that would clash and are saved by another row's key in the same transaction.
- Market. `orders/engine.py` cannot store an order (section 2). `verify_ledger_invariant`
  adds debits as positive amounts. Webhooks answer 200 after a swallowed error, so the gateway
  never tries again. Stripe's failure events carry an empty reference, and its webhook does
  not look at the currency. An adjustment's key is a fresh uuid, so a repeated request
  posts twice.
- Rates. After every source has failed the fallback is cached over a good rate. A service's
  own price bypasses the floor, and a discount on a price below the floor raises it to the
  floor (`ChargedFairly` allows for both). `provider.profit_pct`, a level named in the
  docstring, is never read. The Mini App's preview shows the own price or "0" and sends no
  confirmed price with the order.
- Panel. `HonestAnswers` fails with `ShortLists = TRUE` (a list with an order left out gives
  its neighbour's status to the next one; `providers/base.py:252` promises one status per id, in
  order) and with `Misleading = TRUE` ("unsuccessful" contains "success"). An order missing from
  a batch, or with an error in it, shows "processing" for ever. A single refill's "error" is
  failed, a batch's pending. `_retryable`, the three retries of the documentation, decorates
  nothing.
- Providers. What calls record while a reload closes clients is lost (the exception in
  `TripKept`). DOWN ends only by a manual reset, which nothing calls; the auto-reset after 30
  minutes that `registry.py:8-9` and `:55` announce does not exist (above). The health check job always
  writes "healthy". The catalogue sync only ever deactivates rows.
- AdminDesk. `AsAsked` fails with `Serial = FALSE` and two tasks: two updates of one
  administrator are handled at once, and the target of the one is taken for the form of the other. A
  coupon's type can be chosen on an old keyboard (the exception in `AsAsked`). Two
  concurrent `set_global` leave two active rules, after which pricing's
  `scalar_one_or_none` raises.
- Tenants. `BotsMatchRows` fails with `Overlap = TRUE`: activation of a tenant overtakes its
  suspension, deletion or rotation. `main.py` never calls the manager's `startup`. The limit
  of bots per owner is counted before the insert.
- Broadcasts. A user with two active premium rows (a downgrade adds one, see Premium) is messaged
  and counted twice by a broadcast to "premium" or "vip" (`cms/broadcast_worker.py:141-160`).
  `CountsExact` fails with `Runs = {w1, w2}`. Progress is only committed with the
  whole broadcast, though the docstring speaks of batches. `run_pending_broadcasts` is
  registered in no scheduler.
- Premium. A downgrade adds a second active row, on which `scalar_one_or_none` raises, and
  the end of one of two rows takes the flag away (`FlagHonest` is the other direction).
  Concurrent extensions lose time.

### Fairness

`Orders!Fairness`: the worker loads every open order again and again (strong fairness of
`SyncLoad` per order: a 20-second loop over `list_open_orders`, whose order by `updated_at`,
renewed by every sync, makes it a round robin), the panel keeps answering in the long run (strong fairness of `SyncReport` per
order), keeps working on what it accepted, and a handler that runs ends. Starting requests
and cancellations has no fairness. `Payments!Fairness`: the reconcile worker asks about
each invoice of its batch again and again, the gateway answers in the long run, an
operator confirms what was paid by hand, transactions end. Webhooks and customers' checks
have none. `ReceivedIsCredited` so assumes that the workers are not down for the 72 hours
after which `reconcile_pending` gives up on an invoice, and no more than `limit` open
invoices. `Referrals!Fairness`: the workers come round (every 20 seconds, and every 60 or more), a
transaction that can go on does, the database resolves deadlocks (its `deadlock_timeout`).
`Catalog!Fairness`: the catalogue loop and the health check come round, a request ends, time
passes; a panel that keeps answering badly is bounded by `MaxEvents`.

## 4. What is proved

`WalletProofs`, for any sessions, keys and positive amounts
(`AmountsAssumption`, `NoneAssumption`):

- `TypeCorrect`: `Spec => []TypeOK`
- `LedgerStaysLegal`: `Spec => []LedgerLegal`
- `RowAlwaysMatches`: `Spec => []RowMatchesLedger`
- `Implements`: `Spec => ImplementsStatement`

`LedgerLegal` is not inductive: a commit publishes rows that were computed earlier. The
inductive invariant `Inv` adds that only the holder of the lock has uncommitted postings
(`OnlyHolderWrites`) and that what it sees, the committed ledger followed by its own
postings, is a legal statement that closes with the balances of its `User` object
(`HolderSeesLegal`). `LockedView` derives from it what any session finds that takes the
lock, `AppendLegal` that one legal posting under a new key extends a legal statement,
`OperationKeepsInv` that each money operation makes such a posting, `CommitPublishes`
what a commit does. The refinement follows: a commit extends the ledger to a legal one,
every other step leaves it alone.

`PricingProofs`, for any rates, star prices, markups, percentages, discounts, coupons,
quantities and float noise (`PricingAssumption`):

- `NeverSoldBelowCost`: `Spec => []NeverBelowCost`
- `MarginAlwaysKept`: `Spec => []MarginKept`

The argument: the floor is never below cost (`FloorAboveCost`) and grows with the margin it is
taken at, which no float noise can invert; every rate passes the floor of its branch; scaling
and rounding up are monotonic (`ScaleMono`), and a capped discount is zero or leaves the floor
(`CapKeepsFloor`).

`PaymentsProofs`, for any invoices, sessions, batch limits and faults (`PaymentsAssumption`):

- `StatusesHonest`: `Spec => []StatusHonest`
- `Implements`: `Spec => ImplementsDeposits`

A session decides on what it was told before it waited for a lock, so the invariant says that
what it was told, what a webhook says and what was credited stay true of the link
(`EvidenceStands`: a link that took the exact amount keeps saying so, even refunded), and that
nobody else opens the link of an invoice that is being created (`LinksOpenOnce`). The
refinement maps each settlement to the one credit or to a stutter; the second credit of an
invoice is excluded by the ledger's key alone, because the status in a stale session's row does
not exclude it.

`OrdersProofs`, for any customers, sessions, order numbers, charges, coupon limits, statuses
the panel reports and faults (`OrdersAssumption`; `PerUserLimit` is not 0 because 0 means no
limit in `pricing.py:217-230`). Without any further condition:

- `TypeCorrect`: `Spec => []TypeOK`
- `CommissionEarned`: `Spec => []CommissionOnDelivery`
- `DeliveredKept`: `Spec => []DeliveredNotRefunded`

under a condition on the constants, each of which a run or a configuration of section 3 shows
to be needed:

| theorem | property | condition |
|---|---|---|
| `NothingForFree` | `NoFreeDelivery` | no "garbled" answer, no "crash" |
| `RefundsCapped` | `RefundCap` | `NoRace`: no cancellation, or one session |
| `PaidBack` | `UndeliveredPaidBack` | `Tidy`: `NoRace`, no cancellation of a "pending" order, no "refunded" report |
| `ReservationsBacked` | `HoldsBacked` | `NoPendingCancel`: no cancellation of a "pending" order |
| `ImplementsTheEscrow` | `ImplementsEscrow` | `NoRace` and `NoPendingCancel` |
| `CouponCounted`, `CouponLimited`, `FinishedKept` | `CouponCountExact`, `CouponWithinLimits`, `FinishedStays` | `Alone`: one session |

and under a condition on the behaviour, since a rejected order gives its key free again:

- `OneOrderPerKey`: `Spec /\ []NoneFailed => []KeyPlacedOnce`

The invariant `Inv` has, beside the types and `CommissionOnDelivery`, four parts. `RowSound`
says of an order what its status, its postings and the panel's view allow of each other: one
that was placed is captured and on the panel, one that was not is under review, or failed and
released; whatever was repaid, the panel has ended it short. `SessionSound` says what a handler
may still rely on after others have moved: its copy of the row may be old, but an order that
was placed stays so, a report that was read is still the panel's or an earlier one on its way,
a confirmed cancellation is one, an order under placement is seen by nobody else. `IdsFresh`
keeps the next number unused, and `Solvent` keeps reservations within balances, on which the
type of the balances depends.

Reservations are sums over orders. Instead of following them action by action,
`MoneyMoves` shows once that every step leaves the money alone, buys an order, settles one that
was held, or rewrites the row of one, with what that does to its owner's account; `ReservationsBacked`
and `ImplementsTheEscrow` both follow from that classification. The lemmas on sums are proved by the smallest counterexample among the
subsets of a finite set (`WFMin` with `FS_StrictSubsetOrderingWellFounded`), as the induction
theorems cannot be instantiated. Under `Alone`, `Solo` adds that what a handler has loaded is
still the case, that the coupon's count is the number of its redemptions, and that an
order repaid as failed is closed. `Keyed` is the invariant behind `OneOrderPerKey`: every order
carries the key that was asked for, no two of a customer do, and while a session places an order
under the customer's lock no order has its key.

`BotProofs`, for any users, handlers and numbers of concurrent updates (`BotAssumption`):

- `BooksKept`: `Spec => []CashAccounted`
- `WelcomedOnce`: `Spec => []WelcomeOnce`
- `TermsComeFirst`: `Spec => []TermsFirst`
- `StaffWork`: `Spec => StaffOnly`

A task acts on a row that was loaded before the lock. The invariant says that what it
concludes from that row is still right, because the facts concerned only grow (`Grows`: known,
terms accepted), that a conversation is only ever open for somebody who accepted the terms, and
that a task which would pass a check of the role belongs to somebody who was staff while the
task was handled.

`ReferralsProofs`, for any users, jobs and chances (`ReferralsAssumption`):

- `CommissionOnce`: `Spec => []OneCommission`
- `CommissionNotLost`: `Spec => []CommissionDue`

A commission of a deposit is looked for under the buyer's row lock and one of an order under the
order's: that guard row makes the search exact although no constraint forbids a second
posting. `HoldsKept` says that nobody else's step takes a lock away, the abortion of a deadlock's
victim included. The buyer's lock keeps a `/start` from attributing the buyer until the commit.

`CatalogProofs`, for any services, sessions, thresholds and panels (`CatalogAssumption`):

- `OffMeansOff`: `Spec => []OffStaysOff`

What a session read is old when it writes, and still: a command only toggles services that
were known, no sync writes "active" to one it found, and a sync that found one missing which
another has inserted meanwhile loses its whole transaction.

`ScenesProofs`, about the components of `MCScenes` for any values of their constants. A step is
one of a single component (`OneScene`), so each theorem is about that component's steps. Where a
condition is named, the configuration that violates it shows that it is needed (section 3):

- `BreakerStaysTripped`: `Spec => TripKept`. The copy of the registry that a reload prepares
  carries the breakers with it; a copy taken before the trip is the exception the property states.
  The end of a Redis record leaves every entry as it was.
- `FlagsHonest`: `Spec => []FlagHonest`, for a duration that is a natural number. What a
  transaction has read of its user's rows is old when it writes. The invariant says which of it
  still holds: rows are added and end, and none is given to another user.
- `OperatorsKept`: `Spec => []OperatorKept`. The statement excepts what boots do rewrite: the
  panel's key, the links in production, and a brand name that is the old one. The invariant says which rows a boot has written and
  not committed: they are missing for everybody else, a row with a unique key keeps the others
  waiting, and the ads of a demonstration come with its stock.
- `DoneAsAsked`: `Spec => []AsAsked` when an admin waits for each answer (`Serial`). An admin then
  has one task, and the state and the data of the conversation agree with the last question
  except between the two writes of that task.
- `FairCharges`: `Spec => []ChargedFairly` for natural amounts, percentages and margins
  (`NothingNegative`). `HalfEvenNear` bounds what rounding moves, `DiscountKeeps` keeps each price
  between the floor and the undiscounted one; what is left is arithmetic.
- `BotsFollowRows`: `Spec => []BotsMatchRows` when requests about one tenant do not overlap
  (`OneAtATime`). What a request has loaded is then still the case, and `ReqSound` says of each of
  its stages what it has still to do; a running bot has its tenant's row and token whenever no
  request is in between, restarts included.
- `CountsAreExact`: `Spec => []CountsExact` for one run at a time (`OneRun`) and any number of
  broadcasts. The rows that were read are the results so far followed by the rows still to
  message, position by position, and the counters of the batch and of the object add up to the
  numbers of results (`Delivery`). The argument needs nothing of the query: whatever rows a
  delivery was given, a user twice among them or not, each row is counted once.
  `ListingExists` only serves the order in which a run takes the broadcasts.
- `DepositsOnce`: `Spec => []DepositOnce` for whole amounts (`MarketTyped`). A session looks its
  key up before it holds the lock, so that what it found is worth nothing later; from its own
  check under the lock to its commit nobody else can post under that key, because equal keys are
  of one wallet (`OneWallet`), nor change the balance it has read (`Progress`). Balances are sums of
  sets of postings: `SumIs` to `SumWith` show of the library's recursive sum that one posting more
  adds exactly its amount.
- `AnswersAreHonest`: `Spec => []HonestAnswers` for any numbers and chunk size, when lists are
  complete and no refusal reads as a success (`PanelSized`; section 3 says what fails
  otherwise). What was found so far stands, in order, before a position of what was asked
  (`Below`): the start of the next chunk, or in a refused chunk the number whose turn it is, so
  that an answer for the numbers from there on can be appended (`LongerBelow`, `MoreReported`).
  The panel may move on between two requests because a number has heard every word since the
  call began (`Listens`).

Only model-checked: the liveness properties (`EventuallySettled`, `ReceivedIsCredited`,
`EventuallyRecorded`, `CatalogueConverges`), since fairness and `ENABLED` are beyond the prover.
Every invariant and every action property of the passing runs has a theorem.

## 5. Not modelled, and the plan

Left out for good:

- presentation: menus, texts, API formatting, Mini App, frontend, lists and statistics;
- write-only records: audit and order events, notifications, risk scores, monitoring;
- signature checks, encryption, configuration, migrations, scripts, the backup worker;
- the rate limiter and the second generation's sign-in and sessions: each operation is one
  atomic step on one key or row. What can go wrong there needs no interleaving: the limiter
  forgets every window at once when it holds `max_keys` (`ratelimit.py:52`);
- star services, the services catalogue, resellers and content blocks of the second
  generation: row-by-row editing without protocol state;
- `flag_stuck_orders` and the second generation's order life cycle: unreachable (section 2).

Planned, in this order:

1. Ageing and starvation in `reconcile_pending` with fairness.
2. The bot over the wallet: `Bot` with `Wallet`'s sessions instead of its own postings.
