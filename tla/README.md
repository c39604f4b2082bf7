# Local Roots: formal models of orders, payments, payouts and the pages over them

Local Roots is a marketplace for local food: sellers publish pickup windows and
offer boxes in them, buyers order one-off or subscribe, the card is authorized
when the order is placed (or some days before the pickup) and captured when the
box is handed over.  The backend is one Go process over PostgreSQL
(`src/backend`), with Stripe for the cards and an in-process scheduler for the
recurring jobs.

The order of one sale is recorded in three places that no transaction updates
together: the row of the order, the counters of its offering, and the payment
intent at Stripe.  Five kinds of actors write to them concurrently: buyers,
sellers, Stripe's webhooks, the billing job, and the rest of a request after its
commit.  Once an order has ended, the seller's share goes to the seller's Connect
account, and a job looks after the transfers that fail.  These are the models of
the server.

In front of it is a Next.js application (`src/frontend`): pages in a browser that
hold copies of the server's state, call the API with a session whose tokens they
exchange on the way, and let handlers overlap.  A page is asynchronous code
over shared variables as much as the server is: what it does with an answer
depends on what else was clicked, answered or lost meanwhile.  The models of the
pages are about that.

- [Inventory](#inventory-of-the-system)
- [Modules](#modules) and [how they correspond to the code](#correspondence)
- [Runs](#runs), [bounds](#bounds), [fairness](#fairness)
- [What the violating runs show](#findings)
- [Proofs](#proofs)
- [Abstractions](#abstractions), [not modelled](#not-modelled)

## Inventory of the system

Paths without a directory are in `src/backend/internal/api/v1`.

| Component | State | Operations | Talks to | What is hard | What makes it correct |
|---|---|---|---|---|---|
| Order lifecycle: `orders.go`, `seller_orders.go`, `pickup_execute.go`, `pickup_confirm.go` | rows of `orders` (status, payment_status, captured_cents, intent) | place, ready, cancel, no-show, confirm pickup (with just-in-time authorization), refund | inventory in the same transaction, Stripe after the commit or inside it | Stripe calls outside the transaction, several ways to end one order | a terminal status is final, units are sold once, the card is charged once and only for a fulfilled order |
| Offering inventory: `adjustOfferingsForOrder`, `createOrderForOffering` | `quantity_available`, `quantity_reserved` | reserve, release, finalize | every order handler | `greatest(0, …)` hides an underflow | counters agree with the orders, reserved ≤ available ≤ offered |
| Stripe client: `payments/stripepay` | intents, charges, transfers, accounts (at Stripe) | authorize, capture, cancel, refund, transfer | called by handlers and jobs | lost calls, idempotency keys, replayed answers, expiring holds | one hold and one capture for each order |
| Stripe webhook: `stripe_webhook.go` | – | five payment events, `account.updated` | order rows, inventory | late, duplicated, reordered events | an event never undoes newer state; a dead hold frees the units |
| Billing job: `internal_billing.go` | a snapshot of candidates | scan, authorize, store or fail-and-cancel | Stripe, order rows, inventory | works from a snapshot, may overlap with itself and with pickups | every pending order is settled, once |
| Subscriptions: `subscriptions.go`, `buyer_subscriptions.go`, `seller.go` | `subscriptions`, `subscription_plans` | checkout, subscribe, pause, resume, cancel by buyer or seller, change card | orders, inventory, Stripe | unlocked limit count, double submits, unlocked list of orders | limit respected, canceled is final, a cancel frees hold and units once |
| Cycle generation: `GenerateNextCycle` | `subscription_cycles`, windows, offerings | next window, an order for each active subscription | orders, billing | two generators, cancel meanwhile | one order for each subscription and window |
| Seller transfers: `order_helpers.go`, `internal_transfer_retry.go`, `seller_payouts.go` | `stripe_transfer_id`, `transfer_error`, `transfer_retry_count` | transfer after capture, retry, payout page | Stripe Connect | skipped, failed and repeated transfers | the seller is paid once what is owed |
| Connect onboarding: `seller_connect.go` | `stores.stripe_account_id`, status | onboard, status, links | Stripe | two onboardings at once | one account for each store |
| Accounts: `auth.go`, `oauth.go`, `buyer_auth.go` | users, refresh tokens, magic links, token version | register, login, refresh, verify | – | concurrent rotation, reuse | a token is used once, logout ends sessions |
| Email jobs: `internal_email.go`, `internal_reengagement.go`, `internal_milestones.go`, `internal_digest.go` | sent markers | select, send, mark | Resend | send before mark, overlap, crash | each mail at most once |
| Scheduler: `internal/scheduler` | tickers | start a job | all jobs | ticks overlap with running jobs and with the HTTP trigger | every job runs again and again |
| Connection pool: `internal/db` | 10 connections | acquire, release | all handlers | a handler that holds one and waits for a second | no circular wait |
| Rate limiter: `internal/httpx/ratelimit.go` | token buckets by address | allow, clean up | all routes | concurrent cleanup | a tier's rate is never exceeded |
| Schedule arithmetic: `nextStartAt`, `addCadence`, `timeutil` | – | next pickup date | subscriptions, cycles | daylight saving, month ends | the next start is in the future, on the cadence |
| Browser session: `lib/http.ts`, `lib/session.ts` | token pair in local storage, requests under way | request, refresh, second try, give up, sign out | every page, all tabs, `auth.go` | parallel 401s spend one token; late answers; page loads cut scripts off | a spent token does not stay behind, every request ends |
| Sign-in pages: `seller/login`, `seller/register`, `buyer/login`, `buyer/auth/verify` | form, calls under way | password, Google, emailed link | session, `auth.go`, `buyer_auth.go` | two ways at once, answers after the page was left, a link opened twice | a link opens one session, no form stays disabled |
| Checkout and subscribe forms: `checkout-form.tsx`, `subscribe-form.tsx`, `stripe-card-auth.tsx` | quantities, intent, items it is for | start checkout, confirm card, place | API, Stripe | three calls of which each may fail after it was carried out; fields open during the first | one order for a form, for what the card is held, no hold forgotten |
| Subscription page: `subscriptions/[subscriptionId]` | loaded subscription, one busy flag, card setup | load, pause, resume, cancel, change card | API, Stripe | handlers share the flag and overlap | choices take effect in order, the page shows the truth at rest |
| Seller dashboard and pickup: `seller/stores/[storeId]`, `global-pickup-entry.tsx`, `pickup/confirm` | copy of the orders, dialogs, busy slots, typed code | ready, cancel, no-show, refund, end a subscription, look up, confirm, scan | API; a phone and the buyers change the same orders | late answers, overlapping handlers, two devices | "confirmed" is said of the right order, nothing stays disabled, the list is current at rest |
| Setup wizard: `setup/*` | what each page loaded, where the router was sent | location, box, payouts, launch | API, Connect | redirects decided by each page alone, writes answered on another page | no circles, one box, "live" only if live |
| Store settings: `settings` | a form for each section | save, add, reload all | API | every reload fills the texts of all forms | no old value is written again |
| Catalog, templates, geocoding, HTTP plumbing, other pages | rows, none | CRUD, formatting, I/O | – | – | – |

## Modules

| Module | What it is |
|---|---|
| `Inventory` | the two counters of an offering and the three updates made on them |
| `PaymentIntents` | Stripe as `stripepay` uses it: intents with manual capture, replayed answers, faults |
| `Fees` | the no-show fee and its split with the seller |
| `Orders` | the handlers, jobs and webhooks over orders, subscriptions and the two modules above |
| `OrderBook` | the abstract specification: exactly the status machine of `docs/domain.md:26-28`, in which an order that is ready cannot be canceled, and "units are sold once" |
| `OrderProperties` | what should hold, fairness, the refinement mapping into `OrderBook`, and the one step the code takes beyond it (`SubscriptionEnds`) |
| `Payouts` | the seller's transfer after an order, its retry job, the payout page |
| `Session` | the token pair of a browser and `requestJSON` |
| `SignIn` | the sign-in pages over `Session` |
| `Checkout` | the checkout and the subscribe form, with the server and Stripe as they see them |
| `SubscriptionPage` | the page of a subscription, with the server and Stripe |
| `Visitor` | `SignIn`, `Checkout` and `SubscriptionPage` side by side, fairness, liveness |
| `Desk` | the seller's dashboard, the pickup-code field, the phone, and the orders they change |
| `Setup` | the setup wizard and its router |
| `Settings` | the settings page |
| `Seller` | `Desk`, `Setup` and `Settings` side by side |
| `MCOrders`, `MCPayouts`, `MCVisitor`, `MCSeller` | instances for TLC |
| `Inventory_proofs`, `PaymentIntents_proofs`, `Orders_proofs` | TLAPS: types, stock and statuses of `Orders`, with the lemmas about counters and Stripe |
| `OrderProperties_proofs` | TLAPS: the counters, the refinement into `OrderBook`, the money, the subscriber limit |
| `Payouts_proofs` | TLAPS: the transfers, the page's sums, no share lost |
| `Checkout_proofs`, `Visitor_proofs` | TLAPS: the payment form; session, sign-in pages, subscription page, the visit |
| `Seller_proofs` | TLAPS: dashboard, setup and settings, and the three together |

`Orders` extends `Inventory` and `PaymentIntents`: one handler transaction
updates the row and the counters, so both appear in one action, by name
(`Reserve`, `Release`, `Finalize`, `CaptureAuthorization`, …).  `OrderProperties`
instantiates `OrderBook` with `status` defined from the rows.  `Payouts` stands
beside them: it takes from an order how its handler ended it, and that a late
`CancelSubscription` may turn it into a canceled one afterwards (`LateCancel`, which is
`SellerCancelApply` of `Orders` for an order that has ended), so the two specifications
need not be composed.

`SignIn` extends `Session`: a sign-in stores a pair, a tab that gives up its
session is sent to a form.  The pages share nothing in the browser but the
session, and a page that is left loses its state; `Visitor` and `Seller` therefore
put them side by side, with a variable `at` for the page of a visit, rather than
multiply their states.  What the server does to an order, an intent or a
subscription behind a page is there as far as the page can tell; the whole of it
is in `Orders` and `PaymentIntents`.

### Correspondence

One action is what the code does atomically: a transaction that holds the row
lock of the order (`SELECT … FOR UPDATE`), one SQL statement, or one call to
Stripe.

| Code | Actions |
|---|---|
| `OrdersAPI.CreateOrder` | `CreateOrder` |
| `SubscriptionAPI.Subscribe` | `SubscribeAdmit` / `SubscribeRefuse` (verify the intent, count the active subscriptions, without a lock), then `SubscribeCommit` / `SubscribeRollback` |
| `SellerOrdersAPI.UpdateOrderStatus` | `MarkReady`, `CancelOrder`, `NoShow` |
| `ExecutePickupConfirm` (both pickup endpoints) | `ConfirmPickup`, `PickupFails` |
| `SellerOrdersAPI.RefundOrder` | `RefundOrder` |
| Stripe calls after commit or after the lock is given up | `Defer` puts the call into `deferred`; `RunDeferred` makes it, `LoseDeferred` is a process that stops first |
| `updatePaymentByPI` for the five payment events | `Webhook` |
| `BuyerSubscriptionsAPI.UpdateStatus` | `BuyerSetStatus`, `BuyerCancel` |
| `SellerAPI.CancelSubscription` | `SellerCancelEmpty`, or `SellerCancelRead` (lists the orders, no order lock) and later `SellerCancelApply` / `SellerCancelAbort` |
| `RunBillingAuthorization` | `BillingScan`, `BillingCharge` (Stripe), `BillingStore` (the unguarded update), `BillingFail` (`failAndCancel`), `BillingCrash` |
| clock | `PassCutoff`, `Expire` |
| `transferToSeller` (called by pickup and no-show) | `Settle` (the commit), `Send` (the store's account, Stripe), `Record` (the note on the order); each of the last two may `Leave` without a note |
| `SellerAPI.CancelSubscription`, for an order that has ended meanwhile | `LateCancel` |
| `RunTransferRetry` | `RetryScan` (the query), `RetryTry` (account status, Stripe), `RetryRecord` |
| `GetPickupWindowPayoutSummary` | the function `SellerPayout` of the state |
| `account.updated` webhook | `AccountUpdated` |
| process stops; a statement fails, as when the client has disconnected | `Restart`; `Mishap` in `Send`, `Record`, `RetryRecord` |

For a page, one action is what its script does between two awaits, one call as
the server carries it out, or an event of the browser.  A call is sent by one
action, carried out or refused by another, and its answer (`granted`, `failed`)
is taken up by a third; a lost answer is `failed` although the call was carried
out.

| Code | Actions |
|---|---|
| `requestJSON`, `tryRefreshSession` | `Send`, `Answered`, `Unauthorized`, `Repeat`, `RepeatAnswered`, `RepeatRefused`, `GiveUp` |
| `AuthAPI.Refresh` | `RefreshCheck` (reads the row), `RefreshRotate` (marks it, issues the next pair), `RefreshLost` |
| page loads, links, sign-out | `LoadAnew`, `Open`, `LogOut` |
| `SellerLogin`, `SellerRegister`, `BuyerLogin` | `Submit`, `SignedInBy`, `SignInFailed`, `LinkSent`, `TryAgain` |
| `VerifyInner`, `BuyerAuthAPI` | `OpenLink`, `LinkLeft`, `Mails`, `Grants`, `Denies` |
| `startCardCheckout`, `startCheckout` | `StartCheckout`, `MakesIntent`, `CheckoutStarted` |
| `AuthorizeCardInner.confirm` | `Confirm`, `StripeConfirms`, `StripeRefuses`, `CallFailed` |
| `completeCardOrder`, `completeSubscribe` | `Confirmed`, `Places`, `NotPlaceable`, `BoxFull`, `Placed`, `CallFailed` |
| `load`, `setStatus`, `startUpdateCard`, `confirmUpdateCard` of the subscription page | `RetryLoad`, `SetStatus`, `StatusChanged`, `StartUpdateCard`, `CardUpdateStarted`, `ConfirmCard`, `CardConfirmed`, `CardUpdated`, `Loaded`, `ScriptFailed` |
| `setOrderStatus`, `executeOrderStatus`, `executeRefund` | `MarkReady`, `AskStatus`, `ConfirmStatus`, `ExecuteRefund`, `StatusUpdated`, `Listed`, `ScriptFailed` |
| tabs, `cancelSubscription`, `refreshAll` of the dashboard | `TurnTab`, `AskUnsubscribe`, `ConfirmUnsubscribe`, `Unsubscribed`, `Refreshed` |
| `SellerAPI.CancelSubscription` as the dashboard sees it | `CancelSubscriptionRead`, `CancelSubscriptionApply`, `ListSubscriptions` |
| `GlobalPickupEntry` | `TypeCode`, `LookUp`, `LookedUp`, `ConfirmEntry`, `EntryConfirmed` |
| `PickupConfirmInner` | `Scan`, `PhoneConfirm`, `PhoneAnswered` |
| `SetupRouter.resolve`, the effects of the steps, `handleSubmit`, `handleConnect`, `handleLaunch` | `LoadServed`, `LoadAnswered`, `LoadFailed`, `Arrive`, `SaveSpot`, `SaveBox`, `Connect`, `Launch`, `WriteAnswered`, `WriteFailed` |
| `refreshAll`, `saveStore`, `saveLocation`, `saveBox`, `createWindow`, `createProduct`, `createOffering` | `ReadRows`, `RefreshDone`, `SaveSection`, `AddRow`, `UpdateRow`, `WriteDone`, `HandlerFailed` |

State: `orders` is the table, `subscription` the status column,
`available`/`reserved` the offering's counters, `intent`/`received`/`reply`
Stripe's side, `admitted`, `closing`, `deferred`, `scan` and `charged` the
requests and jobs between two of their steps.  `stale` is a history variable:
the orders that `CancelSubscription` canceled after another handler had closed
them.  It appears in properties only.  In `Payouts`, `row` is what the transfer
columns of an order say, `ended` and `canceled` together its status (`Status`), `paying`
and `tried` are results a handler or a pass holds and has not written yet, `transfers`
is Stripe's memory of the idempotency keys, `mishaps` counts restarts and failed
statements, and `lost` and `dropped` are history variables.

In the pages, `access` and `refresh` are the two keys of local storage, a pair of
tokens being named by the order in which it was issued; `form`, `page`, `dash`,
`entry`, `wizard` and `fields` are the React state of a component; `request`,
`signing`, `call`, `script`, `saver` and `handler` are the functions that stand
at an `await`, with what they captured; `intents`, `orders` (of `Checkout`), `sub`,
`setups`, `served`, `store` and `rows` are the server's and Stripe's, and so are `asked` and `active` (the
subscriptions that are not canceled) of `Desk`.  `forgotten`,
`opened`, `mine`, `left`, `seen`, `trail` and `story` are history variables; in `seen` of `Desk`, `late` are the orders that a
subscription's cancel closed after they had ended, `unlisted` those closed with their
subscription since the list was loaded.

## Runs

`MCOrders_<run>.cfg` with `MCOrders.tla`; for `payouts` and `unpaid`
`MCPayouts_<run>.cfg` with `MCPayouts.tla`; `MCVisitor_visitor.cfg` and
`MCSeller_seller.cfg` with theirs.

| Run | Question | Properties |
|---|---|---|
| `stock` | Do the counters stay right when everybody changes them at once? | `TypeOK`, `ReservedWithinStock`, `CountersExact`, `OnlyLateCancelOverwrites` |
| `payments` | Is the card charged once, for a fulfilled order, and for the amount on record, under every fault? | `ChargedAtMostOnce`, `ChargedOnlyIfFulfilled`, `CapturedAgrees` |
| `reconcile` | Do the handlers implement `OrderBook` when no seller cancels a subscription, but for ready orders whose subscription ends?  With a double-submitted checkout, is the hold of a canceled order released, and are the units of an order whose hold died put back on sale? | `KeepsPromise`, `CanceledHoldsNothing`, `DeadHoldReconciled` |
| `settle` | Is every pending order settled by overlapping passes, and a paid one backed by a hold and captured, when the calls that follow a commit arrive? | `PaidIsCovered`, `PendingGetsCharged`, `PaidGetsCaptured` |
| `payouts` | Is the seller paid once, within the limit of attempts, what the page shows, and no share or failed transfer forgotten? | `PayoutsTypeOK`, `PaidAtMostOnce`, `RetriesBounded`, `PageAgrees`, `EachAccountedFor`, `FailedTransferSettled` |
| `visitor` | Do session, forms and subscription page survive every order of answers, losses and page loads? | `TypeOK`, `SpentTokenLeaves`, `LinkOpensOnce`, `PlacesWhatIsHeld`, `OneOrder`, `HoldsRemembered`, `ShowsTheTruth`, `DisabledIsWaiting`, `CallsEnd`, `ButtonsReturn`, `ChoicesInOrder` |
| `seller` | Do the seller's pages, with handlers that overlap and other devices on the same orders? | `TypeOK`, `SaidSo`, `ListCurrent`, `BusyIsWaiting`, `Settles`, `OneBox`, `LaunchedIsLive`, `NothingReverts` |

`KeepsPromise` is the strongest of them: whatever payments, webhooks and billing
passes do, each handler's step is a legal step of the order book or none, and
the check of two counters under a row lock implements a condition on the sum
over all orders.  The book is the documented machine and no more.  Beyond it the
property allows one step, by name: `SubscriptionEnds`, a ready order that is canceled
because its subscription ends, which `order_lifecycle_test.go:16` excludes and
both subscription cancels do (the run has the buyer's, the theorem `BookKept` both).  Any other cancel of a ready order, a decline or a
seller's cancel of one order for instance, violates it.

`CountersExact` excuses exactly the offerings of the orders in `stale`: the run
shows that the seller's cancel is the only way the counters can go wrong.

`PaidIsCovered` is what "paid" is worth in between: the handlers write it before they
ask Stripe, so the money has been taken or the call that takes the amount of the row
is on its way and will find the hold.

`PaidAtMostOnce` excuses the orders whose answer from Stripe was lost to the
handler: the retry job then pays under a key of its own and the seller has the
money twice.  `RetriesBounded` allows one attempt above three for each further
overlapping pass.  `PageAgrees` bounds what the payout page and the transfers
differ by.  The page splits the sum of the fees, the transfers each fee, so the
page shows less, by less than one cent for each no-show; and it omits what was sent for
an order that a late `CancelSubscription` has turned into a canceled one.
`EachAccountedFor` says when a share that is owed goes missing without a note, so that
no retry ever looks at it (`dropped`): the handler found the account inactive, could
not look it up (`order_helpers.go:21-27`), could not write the note (`:36`, `:47`), or
the process was stopped under it.  `FailedTransferSettled` excuses the orders that a
late `CancelSubscription` hides from the job's query.

The properties of the pages say what the code achieves and name what it does not:

- `SpentTokenLeaves`: between the server's exchange and the browser's storing of the
  new pair the old token is in local storage; whoever spends it again will remove
  it.  Only a page load in that moment leaves it there (`forgotten`), and the next
  401 then signs the visitor out.
- `CallsEnd` needs the second try to be outside the 401 path.
- `DisabledIsWaiting` is the part of `CallsEnd` and `ButtonsReturn` that does not rest on
  fairness: no page is left disabled without a call that will enable it, and the payment
  form is disabled exactly as long as it has a call, so that it has one at a time.
- `PlacesWhatIsHeld` rests on the items the form keeps beside the intent,
  `OneOrder` on the form keeping the intent after a failure, and on the server
  refusing a second order for one intent; for a setup intent, which the
  server would take again, on Stripe refusing to confirm it again.
  `HoldsRemembered` excuses the intents of a page that was left.
- `ChoicesInOrder` and `ShowsTheTruth` hold as long as no handler has enabled
  the buttons under another (`freed`), and as no loads crossed (`crossed`).
- `SaidSo` needs the server to compare the code: the field itself confirms
  whatever order a late lookup has put there.  Only a `CancelSubscription` that listed
  the order while it was open takes back what was said.
- `ListCurrent` excuses crossing handlers, changes from elsewhere and failures; the
  dashboard learns of none of them until its next load.  It names one change of the
  dashboard's own that it does not learn of either: `cancelSubscription`
  (`stores/[storeId]/page.tsx:274-296`) closes the subscription's orders and loads
  everything but the orders.
- `Settles` counts the pages the router goes through by itself; it depends on the
  dashboard and the setup page asking the same question of a plan.
- `OneBox` excuses a write that was lost or whose page was left (`excused`).
- `NothingReverts` needs each save button to be disabled until the load after its
  save has ended, and excuses a load that crosses the write of another section.

### Findings

Five runs look for a violation of something a document, comment or test of the
repository states, and find it.

| Run | Stated | What happens |
|---|---|---|
| `oversell` | `docs/domain.md:39` no overselling under concurrency | `CancelSubscription` lists an order, the buyer collects it, the cancel releases its units again; the units of another open order are now sold twice |
| `doublehold` | `stripepay.go:160` the key avoids double authorization | the billing job and the pickup handler authorize one order under two keys; the job's late write also takes the collected order back from `paid` to `authorized` |
| `staledecline` | `stripe_webhook.go:161` out-of-order events cannot corrupt state | a late `payment_failed` about the buyer's first card cancels an order with an intact hold |
| `lostcapture` | `pickup_execute.go:172` the webhook reconciles a failed capture | no event exists for a capture that did not happen; the order stays paid and uncaptured |
| `unpaid` | `internal_transfer_retry.go:21` failed transfers are retried | the query names `orders.refunded_at`, which no migration creates: every pass ends with an error |

`unpaid` is the `payouts` instance with `RefundedAtColumn` false, as the
migrations leave the table; `payouts` shows what the job does on a table that has
the column.

More disagreements have no run of their own.  Two are named in a property that
passes, which shows that they are the only ones of their kind: the race of `oversell`
also leaves the collected order canceled, against `order_lifecycle_test.go:17`
(`OnlyLateCancelOverwrites`); and both subscription cancels include `ready` orders,
against `order_lifecycle_test.go:16` (`SubscriptionEnds` in `KeepsPromise`, run
`reconcile`).  Four can be read off the actions: a configured no-show fee of 0 means
"unset" in `ConfiguredNoShowFee`, against `docs/ops/payments.md:42`; `BuyerSetStatus`
resumes a canceled subscription, against `cancellation-policy.md:80` (the page
offers it: `Choices` of `SubscriptionPage`); the seller's subscription cancel
never releases the hold of the orders it cancels, against
`cancellation-policy.md:43`; and after an order failed on an authorized card the
form says to authorize again (`checkout-form.tsx:124`), which Stripe refuses for an
intent that is authorized already (`StripeRefuses`), so the retry the message
offers cannot succeed.

The models also show behaviour that no document speaks about.  In `Payouts`, a share
whose handler left without a note is never paid (`EachAccountedFor` lists how that comes
about); an order that a late `CancelSubscription` hides is paid out but not on the page,
and if its transfer failed it is never retried; `RetryTry` sends the subtotal also
for a no-show, of which only a fee was captured; and a refund does not take the
transfer back.  In `Desk`, the dashboard goes on showing as open the orders it closed
with their subscription (`ListCurrent`), and an order of which "Pickup confirmed!"
was said can be canceled by such a close that had already begun (`SaidSo`).

### Bounds

- **Orders and offerings.**  Two or three orders of one offering.  Offerings
  share nothing but an order's transaction, so one is enough for the counters;
  the proofs cover any number.  A stock of 2 against quantities 1, 1 and 2
  makes orders compete for the last unit.
- **Billing passes.**  Two, which is what it takes to overlap; each can start
  again without limit.
- **Amounts.**  A total of 5 and a fee of 2 tell the two captures apart.
- **Faults.**  `Faults` names what may go wrong in a run.  `payments` has all
  of them.  There is no bound on how often: an idempotent replay and the
  statuses of an intent keep the state finite.
- **Payouts.**  Two orders, two passes, one order that a cancel may come late for
  (`Closable`), one mishap (`MaxMishaps`: a restart or a failing statement); fees of 3 and 5 cents
  split at the default 30% round differently one by one and in sum, and a subtotal of 8
  is not mistaken for a fee.  Sums are counted cent by cent (`TotalOf`), so the amounts are small.  The limit of
  three attempts is the code's.
- **Session.**  One tab with two requests, as the buyer's dashboard sends them
  together, or one request beside two sign-ins; three pairs of tokens.  The
  second request is what it takes for two to spend one token.  A second tab
  would share the storage and nothing else; what it adds, requests and page
  loads that do not stop each other, the two requests of one tab show but for the load.
- **Forms.**  Stock 2 (quantities that differ), three intents, so that two can be
  lost or left.
- **Subscription page.**  Two handlers under way, two changes of status, one card
  update: enough for a handler to lower the flag of another and for a second choice to
  overtake the first.
- **Desk.**  Two orders (the wrong one and the right one), of which at most one is a
  subscription's (`Subscribed`), two handlers at a time, three in all.
- **Setup.**  Two handlers at a time, four writes: each step once, or one step again.
- **Settings.**  Two handlers at a time, two edits, one added row.
- There is no state constraint.  The `seller` run alone uses symmetry, of the dashboard's orders and
  of the handlers of each page, which no action tells apart; it checks no liveness.
- Deadlock is not checked: a window in which every order is closed, and paid
  out, has nothing left to do, and neither has a visit whose bounds are used up.

### Fairness

`FairSpec` is used by the runs with a liveness property only.  Weak fairness is assumed for what
runs by itself:

- `RunDeferred`: the request continues after its commit;
- `Webhook`: Stripe redelivers an event until it is answered with success, and
  the handler answers with an error when its transaction fails;
- `BillingScan`, `BillingCharge`, `BillingStore`/`BillingFail`: the ticker
  starts a pass every 30 minutes (`scheduler.go:39`) and a pass is a loop over
  its candidates.

- in `Payouts`, `HandlerStep` (the request goes on after its commit) and
  `PassStep` (a pass is a loop over its list, started every hour,
  `scheduler.go:69`).

- in `Visitor`, `FetchStep`, `CallStep`, `MailStep`, `Answers`, `Continues`, `Serves`
  and `Goes`: a call is answered or fails (the browser ends a fetch that is not
  answered), and the script goes on with it.

Nothing is assumed about visitors, buyers, sellers, cards, crashes, expiry or the clock,
nor about Stripe refusing a transfer or losing a call.  The process
stops, or a statement fails, at most `MaxMishaps` times in `Payouts`.

`settle` leaves out `crash`, `lost_call`, `expiry` and `action`, because with each of
them `PaidIsCovered` fails, and a paid order stays uncaptured for good: a call after
the commit that does not arrive is not repeated (`lostcapture`), and the pickup handler looks at the
status of the order alone, so it hands over, and shows as paid, an order whose
hold has lapsed or still waits for the buyer.

## Proofs

Each safety property that a passing run checks is proved here for every value of the
constants, some under conditions that the theorem names; and of the safety properties
that fail, the condition under which they hold.  The run came first: it shows on a small
instance that the property holds.  `StatusInv`, `MoneyInv` and the invariants of
`Seller_proofs` were checked with TLC on the instances of `stock`, `payments`,
`reconcile`, `doublehold` and `seller` before they were proved.

The constants are assumed to be what the code makes of them.  Most assumptions give
types (`StockAssumption`, `FaultsAssumption`, `PayoutsAssumption`,
`CheckoutAssumption`, `DeskAssumption`, `SetupAssumption`, …).  Three say more:
orders of one double-submitted checkout either all save a card or all hold an amount,
because a checkout makes one intent of one of the two kinds and Subscribe takes
one (`OrdersAssumption`; `subscriptions.go:266`, `:490`), a browser has a tab
(`SessionAssumption`), and a page has a handler (`SubscriptionAssumption`).

`Orders_proofs` proves, for any sets of orders, offerings and passes, any
quantities, stock, fees, and any set of faults:

| Theorem | States |
|---|---|
| `TypeCorrect` | `Spec => []TypeOK` |
| `StockBound` | `Spec => []ReservedWithinStock` |
| `LateCancelOnly` | `Spec => OnlyLateCancelOverwrites` |

`OrderProperties_proofs` proves, of the same specification:

| Theorem | States |
|---|---|
| `CountersAreExact` | `Spec => []CountersExact` |
| `OversoldOnlyLate` | `Spec => [](stale = {} => NoOversell)` |
| `BookKept` | `Spec /\ [](stale = {}) => KeepsPromise` |
| `BookKeptWithoutClosing` | `Closable = {}` implies `Spec => KeepsPromise` |
| `FulfilledOnly` | `Spec => []ChargedOnlyIfFulfilled` |
| `AmountAgrees` | `Spec => []CapturedAgrees` |
| `ChargedOnce` | `Spec => []ChargedAtMostOnce` |
| `CanceledReleases` | `NoLooseEnds` implies `Spec => []CanceledHoldsNothing` |
| `PaidCovered` | `Calm` implies `Spec => []PaidIsCovered` |
| `SubscribersBounded` | `Spec /\ []AtMostPending(k) /\ [][NobodyResumes]_vars => [](ActiveCount <= Limit + k - 1)`, for any k above 0 |
| `OnlyLateDeclines` | `"late_decline" \notin Faults` implies `Spec => WebhookKeepsLiveOrder` |
| `OneHoldUnlessBilled` | `Pass = {} \/ SetupCheckout = {}` implies `Spec => []OneHoldPerOrder` |

`Payouts_proofs` proves, for any orders, amounts, faults, number of mishaps and
finite set of passes (`PayoutsAssumption`):

| Theorem | States |
|---|---|
| `PayoutsTypeCorrect` | `Spec => []PayoutsTypeOK` |
| `PaidOnce` | `Spec => []PaidAtMostOnce` |
| `AttemptsBounded` | `Spec => []RetriesBounded` |
| `PageIsRight` | `Spec => []PageAgrees` |
| `SharesAccounted` | `Spec => []EachAccountedFor` |

`Checkout_proofs` proves of a payment form, for any stock, number of intents and set
of mishaps (`CheckoutAssumption`):

| Theorem | States |
|---|---|
| `CheckoutTypes` | `CheckoutSpec => []CheckoutTypeOK` |
| `PlacedAsHeld` | `CheckoutSpec => []PlacesWhatIsHeld` |
| `FormMakesOneOrder` | `CheckoutSpec => []OneOrder` |
| `NoHoldForgotten` | `CheckoutSpec => []HoldsRemembered` |

`Visitor_proofs` proves, for any tabs, requests, handlers, presses and mishaps:

| Theorem | States |
|---|---|
| `SpentLeaves` | `SignInSpec => []SpentTokenLeaves` |
| `LinkOnce` | `SignInSpec => []LinkOpensOnce` |
| `PageTruth` | `SubscriptionSpec => []ShowsTheTruth` |
| `PressesInOrder` | `SubscriptionSpec => ChoicesInOrder` |
| `NoPageLeftDead` | `Spec => []DisabledIsWaiting` |
| `VisitIsTheirs` | `Spec => SignInSpec /\ CheckoutSpec /\ SubscriptionSpec` |
| `VisitTypes` | `Spec => []TypeOK` |

`Seller_proofs` proves, for any orders, handlers, clicks, presses, edits and mishaps:

| Theorem | States |
|---|---|
| `SaysWhatIs` | `DeskSpec => []SaidSo` |
| `RestIsCurrent` | `DeskSpec => []ListCurrent` |
| `NothingStuck` | `DeskSpec => []BusyIsWaiting` |
| `RouteSettles` | `SetupSpec => []Settles` |
| `MakesOneBox` | `SetupSpec => []OneBox` |
| `LiveIsLive` | `SetupSpec => []LaunchedIsLive` |
| `SavesForward` | `SettingsSpec => NothingReverts` |
| `PagesAreTheirs` | `Spec => DeskSpec /\ SetupSpec /\ SettingsSpec` |
| `PagesTypes` | `Spec => []TypeOK` |

`CheckoutSpec`, `DeskSpec` and their like are what `Visitor` and `Seller` say of the
variables of one page: each of its steps is one of the page's or leaves them alone.
`VisitIsTheirs` and `PagesAreTheirs` are the proofs of that, and carry what is proved
of a page over to the whole.

**TypeCorrect.**  `TypeOK` is inductive.  There is one lemma for each family of
handlers, and they rest on lemmas about the updates of the counters
(`Inventory_proofs`), about the calls to Stripe (`PaymentIntents_proofs`), about
the rows a handler writes (`StatusUpdate`, `SettlementUpdate`, …) and about the
fee (`FeeWithinTotal`: the code never asks Stripe to capture more than was
authorized).

**StockBound.**  `ReservedWithinStock` is inductive together with `TypeOK`.
`InventoryStep` shows that every step is one of the three updates for the items
of one order or leaves the counters alone; `ReserveWithin` needs the check under
the row lock, `ReleaseWithin` holds for any release, also one that comes a second
time, and `FinalizeWithin` holds because both counters are reduced by the same
quantity (`MonusMonotone`).  This is the part of the inventory that survives the
race found by `oversell`.

**LateCancelOnly.**  The property alone is not enough: the second half of
Subscribe inserts an order without looking at the table again, so it must be
known that a request past its limit check has no order yet.  The invariant is
`StatusInv`, `TypeOK` with `RequestsCurrent` (admitted requests have no order,
listed orders exist).  `StepTidy` says what each step does to each status
(`Moved`) and to the lists of requests (`Listed`); both the induction and the
action property follow from it.

**The counters and the order book.**  `StepBook` reduces the twenty-odd actions of
`Orders` to one statement, `BookStep`: a step changes no status and no counter, or
changes one order in one of five ways (`BookChange`), each with its update of the
counters.  `CountersInv` is `CountersExact` with what it needs to be inductive: an
order whose handler finalized it is `picked_up` or was canceled late
(`HandedOver`), and the sets of units are finite, without which their cardinality
means nothing (`FiniteBook`).  The clamp of `greatest(0, ...)` is never reached while
the counters are exact; it is, once a late cancel has released units again.

`BookKept` is the refinement: `Place` of the book, whose condition is about the units
of all orders, follows from the two counters that the handler reads under the row
lock (`PlaceWithinOffer`), because the counters are exact; the other four changes are
`Move`s.  The condition `stale = {}` excludes late cancels, as in `oversell`, and nothing else: to
cancel an order that has ended is a step the book does not have.  To cancel a ready
one it does not have either: of the five ways, `StepBook` allows that one only in the
steps that end the order's subscription, and there it is `SubscriptionEnds`.

**The money.**  `MoneyInv` has five parts.  An order carries an intent of its own, and no
two orders the same (`IntentsBound`); the billing job has only placed orders
with a saved card on its lists and among its results (`JobsBound`); Stripe knows
intents of these orders only and has answered for the authorizations that
exist, so that a repeated call under the same key makes no second one
(`StripeBound`).  With these, `SettledOnce`: an intent is captured, or will be, only
for an order that is collected, not shown for, or canceled late after that, and of
the two authorizations of a saved card only one, because the pickup takes the
intent of the row when the row has one and writes the one it makes.
`RowAgrees` follows the amount from the row through the call that waits to the
intent, and allows what `doublehold` shows: a billing pass may write
`authorized` over `paid`, but not another amount.

`CanceledReleases` is for the part of the system in which the code does release holds
(`NoLooseEnds`): amounts held at checkout, subscriptions ended by buyers, no calls
lost to an error or a stop of the process, no late decline.  Each exception is
a real one: a billing pass that authorizes a card while the order is canceled, the
seller's subscription cancel, `lostcapture` and `staledecline` each leave a hold.
`reconcile` checks the property under these conditions.

`PaidCovered` is about what is still to come, so its invariant `CoverInv` follows every
order from the checkout on.  As long as an order may still be placed or
settled, nothing is about to release its holds, and an authorization that Stripe granted is
one (`HoldsSafe`); an open order has its hold or is pending (`OpenHeld`); the
requests and billing passes have in hand what is true at Stripe (`RequestsHeld`,
`AnswersHeld`).  Then a handler that writes `paid` leaves a capture that finds the hold,
and stays able to (`PaidHeld`).  What the step does at Stripe is summed up first
(`CalmStep`): a hold ends only by being captured or by a call that releases it.  `Calm`
excludes crashes, lost calls, lapsed holds, cards that ask for the buyer and checkouts
submitted twice; TLC finds `PaidIsCovered` violated when any one of them is allowed.
Declines, late ones too, lost answers, overlapping passes and every webhook are in.

`SubscribersBounded` gives a number to the limit that is checked without a lock:
`LimitInv` bounds the active subscriptions together with the requests that have passed
the check.  That no buyer resumes is a hypothesis because `UpdateStatus` counts
nobody.

`OnlyLateDeclines` and `OneHoldUnlessBilled` are the counterparts of `staledecline` and
`doublehold`: the event and the job that those runs show are the only ways.
Without a pass the billing key of an order is never used (`NeverBilled`); without saved
cards there is no second key.

**PaidOnce.**  Two keys can pay an order, the handler's and the job's.  The
invariant `PaidInv` says, of each order, that the job knows it (`Retried`) only
when its handler is finished and has not paid it as far as Stripe answered
(`Unpaid`), and that no third key is used.  The step that matters is `Record`:
only an error brings the order to the job, and an error means that the transfer
was not made or that the answer was lost (`CallStep`).

**AttemptsBounded.**  `Joined(o)` are the passes that have listed the order and not
yet counted their attempt.  The attempts counted plus the passes joined stay
within 2 + |Pass|: a pass joins only below the limit, and when it counts an attempt
it leaves `Joined`.  For that a pass must hold one result at a time, of an
order no longer on its list (`PassInv`), and the handler's own attempt must be the
first (`AttemptInv`).

**PageIsRight.**  A sum over orders is the number of their cents (`TotalOf`), which the
theorems about cardinalities speak of: an order that ends adds its amount to a total
(`TotalRises`).  `ShareInv` keeps two facts of the totals from step to step: what is sent
and what the platform keeps is what came in, and what it keeps order by order
is its share of the sum of the fees, less than a cent short for each no-show.
The totals are of the orders by `Status`: what is sent for an order that is canceled late
leaves the page's total and enters that of the hidden ones.  `PageAgrees` follows from
these by arithmetic of one division.

**SharesAccounted.**  `ShareKept` adds to `PaidInv` that an answer "made" which a handler or a
pass holds is true (`TriedMade`), and, of each order (`AccountInv`), that what is
owed is being sent, sent, noted or dropped; that a dropped order is one without a note
or a retry is part of it, since a handler that leaves has not been to `Record`.  A note is removed only by a transfer that went
through.

**The payment form.**  The four theorems rest on one invariant, `FormInv`, with a lemma
for each action.  Types alone are not inductive: that the answer of a call names an
intent is part of `CallInv`.  `ItemsInv` follows the items from the
call that asks for the intent to the one that places the order.  `MineInv` says that a
form has had one intent and has it until it is done, `OrdersInv` that the intent
is sent once between Stripe's confirmation and the order, which is what a setup
intent, unprotected by the server, depends on.  `HandInv` lists where an intent can
be: in the form, on its way there, in an order, or left.  Intents are made one after
the other (`MadeInOrder`), so a new one is none of these.

**The session.**  A refresh token can be spent by one request, so the proof follows
tokens: a pair that was issued and waits to be stored is fresh, that is, spent
by nobody, not in local storage and not another's (`PairsInv`, `ComingInv`,
`ApartInv`).  Then a stored token that has been used was used by a request that is
still to store its successor or to remove it, or was cut off (`SpentInv`).
A step leaves the pairs alone, stores one or issues one, with a lemma for each
(`QuietPairs`, `StoredPairs`, `IssuedPairs`), and the actions are sorted into them.

**The subscription page.**  As long as nothing crossed and the seller stayed away, a load is
alone with the status (`LoadInv`), and the page shows the truth, loads it, or
has a change under way that will load it (`TruthInv`).  `PressInv` says that a change
under way is the latest press; it needs `FlagInv`, that the flag is up for every
handler that raised it, which a card being saved breaks for the others (`freed`).

**Disabled buttons.**  Three invariants, one for each kind of page.  `FormWaits` needs no
other.  `RaisedInv` of the subscription page needs to know which handlers lower the flag at their
end: one that saves a card does not while it waits for Stripe, and does after.
`SignInWaits` follows a form through calls that overlap: the one that ends lowers the flag
for all, a page change replaces the form, and a call left behind tells nobody.

**The desk.**  `SaidInv` carries the order of a code from the call to its answer: the
server has compared the code, so the order that is said to be picked up is, whatever a
late lookup shows, or is one that a listed cancel has closed since (`late`).  `ListInv` has the disjunction of `TruthInv`: the list is right, is on
its way (and right when it arrives, `ListedInv`), or a change under way will fetch it;
what the end of a subscription closed is in `unlisted` until then; `AloneInv` says that
without crossing there is one handler.  `BusyIsWaiting` is
inductive with `FieldInv`, that the handlers of the pickup-code field lower no flag of the
dashboard.  Four lemmas carry the induction: a handler begins, goes on or is answered,
or something happens elsewhere.

**The setup.**  `HopsInv` is why the router settles: a page that it went to has what the page is
for (`Has`), a store never loses that, and a page that has seen so stays
(`Stays`).  `BoxInv` is why there is one plan: a form that would make one is the form of a
store without, unless its own write has just made it, and it has one write
(`OwnInv`).  Even the types need an invariant: the rows made, and those being made, are
no more than the presses (`CountInv`).

**The settings.**  `CalmInv`: without crossing, no load is under way with a save, an
answered load has the rows as they are, and the row, the value being saved and the form
are in this order.  `UniqueInv` (a form that saves has one handler) makes the last part
inductive.

**What stays with TLC.**  The liveness properties (`DeadHoldReconciled`,
`PendingGetsCharged`, `PaidGetsCaptured`, `FailedTransferSettled`, `CallsEnd`,
`ButtonsReturn`) rest on fairness.  The findings are counterexamples and need a run.
`Fees` has no theorem of its own; what the others need of it is `FeeWithinTotal`.

## Abstractions

- **One pickup window.**  A subscription has one order in it
  (`orders_subscription_pickup_window_uniq`), so the order names the
  subscription.  Reservations of other windows are on other offerings.
- **Time.**  The cutoff passes once.  The billing job's seven-day horizon is
  left out: every window of the model is inside it.
- **Checks that only refuse** (authorization, validation, pickup code, a
  window's status) are left out; a refused request changes nothing.
- **Amounts.**  The amount of an intent equals the order's total, which
  `CreateOrder` and `Subscribe` verify; prices and buyer fees are inside
  `Total`, and overflow of `int` cents is ignored.
- **Idempotency keys of cancel, capture and refund** are left out: a second
  cancel or capture of an intent has no effect.
- **Stripe.**  A status event has been sent once the intent reached it, and may
  be delivered at any time after, any number of times.  The handler also accepts
  `payment_intent.requires_capture`, so the model sends it.
- **Just-in-time authorization** happens inside the pickup transaction, under
  the order's lock; the lookup of the card on a second connection is left out
  here.
- **Transfers.**  The charge a transfer draws on is left out: transfers before the
  capture are allowed, as in the code when the charge cannot be read
  (`order_helpers.go:29` drops that error).  Stripe repeats its answer to a key, also
  a refusal.  A pass lists all candidates, not twenty.
- **Locks.**  A handler that would wait for a lock takes its step later.  The
  deadlock of `CancelSubscription` with an order handler is an abort of the
  former (`SellerCancelAbort`).
- **Pages.**  What a page shows is left out but for what its buttons depend on.  Fields
  are a quantity, a code or a value; validation only refuses.  A status of the
  session's user (role, email) is left out.
- **Answers.**  A 401 is possible for any request at any time: the JWT a page took when it
  was mounted may have expired.  A request refused for other reasons ends like one answered.
- **Stripe's element.**  A confirmation that needs a redirect is left out; the page
  asks for one only `if_required`.
- **Pickup codes** stand for their order: that six digits may repeat within a
  window is left out.
- **Dashboard.**  One window.  A list of offerings loaded beside that of the orders is
  part of it.  The refund that the code would also offer and serve for a ready order
  that is paid (`order-list.tsx:214-216`, `seller_orders.go:657`) is left out: no handler
  makes a ready order paid.  A buyer's cancel after the cutoff changes no order.  Two clicks are two events, with the page rendered anew between them.
- **Setup.**  Locations and plans are counted; forms take the first.  A launch makes the
  store live if it has a plan and payouts are active.  What a page loads in parallel is one
  snapshot, and one browser page is open.
- **Settings.**  The six reads of a reload are one snapshot.  A value stands for a text that is not
  empty: an emptied description or label is sent as null, which the server takes for "keep"
  (`seller.go:175`, `:402`).  A reload does not refill coordinates; the values are the texts.
- **Lost calls.**  A call that the client saw fail has been carried out before that or
  never is; a call of the payment form that a page load cuts off is not carried out
  later.  (The properties of the form excuse the intents of a page that was left.)
- **Tabs.**  The session of the `visitor` run has one tab; `LinkOnce` and `SpentLeaves` are
  proved for any number.

## Not modelled

- **Cycle generation** over several windows, with the subscriber limit and two
  generators at once.  Its transaction inserts while the result set of active
  subscriptions is still open (`subscriptions.go:1358`), which the driver refuses,
  so that beyond the first cycle there is little behaviour to be faithful to.
- **Email jobs**: each selects, sends and marks, so overlapping runs send twice.  No
  document or test says what is expected of them.
- **Connection pool, rate limiter, schedule arithmetic**: the first is a
  hazard without a property; the second enters as calls that fail; the third is
  the calendar of the standard library.
- **Connect onboarding**: only the account's status enters `Setup` and `Payouts`.
- **Accounts**: passwords, roles, the token version.
- **Other pages**: catalog, landing page, order page, posters, analytics and admin pages
  read and show.  On modelled pages, images, copied links, the choice of a
  window, the next window made by hand (`generateNextCycle`) and the pausing of a plan
  (`togglePlan`) are left out, and so is a location that is removed
  (`DeletePickupLocation`) while the setup pages are open: `Settles` does not count the hop
  that could add.  The form for a pickup window in the
  settings offers the status `active`, which the table refuses
  (`migrations/0001_init.sql:82`); in `Settings` that is an addition that fails.
- Catalog and store management, box previews, seller analytics, templates,
  geocoding and routing are single statements, formatting and I/O.
