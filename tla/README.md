# OpenCert: models of the server's money, certificates and proofs, and of the card sessions

OpenCert is a certificate platform: a cloud server (`src/servers`, Go and SQLite) that
sells and issues certificates and keeps cloud smart cards, a local manager
(`src/clients`, Go) that presents local, TPM and cloud cards to the operating system, and
drivers (`src/drivers`, C) that forward PKCS#11, KSP and FIDO calls to it.

This directory models what is concurrent in it: how the server takes payment for an
order, cancels it, issues certificates against it and refunds it; how stock, coupons,
subscriptions and balances follow; how revocation is published; how the owner of a name or
a subject proves to be that; how cloud cards are opened and locked; and how connections
share the sessions of a card. All of it is Go code whose steps are single SQL statements
and a few transactions, or sections under a mutex, run by concurrent handlers, by
background jobs, and by callbacks that arrive late, twice or out of order.

## Inventory

Paths are below `src/servers/internal` unless they say otherwise.

| Component | State | Operations | What is hard | What makes it correct | Module |
|---|---|---|---|---|---|
| Cashier, `payment/checkout.go` | `cert_orders.status`, `payment_attempts`, `consume_records`, `user_balances` | create a payment (free, balance, channel), confirm offline money, channel callback | several statements each, with a network call in the middle of one | an order is sold once, booked once, never unless somebody paid; no trade number pays twice; what a channel reports is booked or kept for a person to see, with two exceptions that the property names | `Checkout` |
| Workflow, `workflow/service.go` | `cert_orders.status`, `cert_applications`, `certificates` | create and cancel an order, submit, approve and reject an application, issue | no transactions; counts and loaded rows are used statements later | completed means all units issued; an approval is final and has a certificate | `Fulfilment`, `OrderLifecycle` |
| Refund desk, `payment/refund.go` | `refund_requests`, `consume_records`, `user_balances`, `cert_orders.status` | request, approve (by balance, channel or hand), reject | checks at the request, money at the approval; the channel pays before the record is written | no refund is recorded without money; the balance adds up | `Refund`, `OrderLifecycle` |
| Recharge, `payment/service.go` | `recharge_orders`, `user_balances` | create, callback, close after expiry, refund | callback against the closing job; two refunds of one order; a balance that is spent meanwhile | a payment is credited once, a refund deducted once | `Wallet` |
| Storefront, `portal/service.go`, `storage/portal_repo.go` | stock, catalogue, settings | place an order, cancel it, edit the catalogue | stock, coupon and order are reserved one after the other and released on failure | stock plus live orders is what was put on sale | `Storefront` |
| Promotions, `promo/service.go` | coupons, plans, subscriptions, redeem codes | use and release a coupon, grant a plan, reserve a quota, redeem a code | a mutex over some operations only | a coupon, a quota and a code have limits; a paid plan is granted once | `Storefront`, `Activation`, `SubscriptionQuota`, `Wallet` |
| Revocation, `revocation/`, `ca/service.go` | `revoked_certs`, `certificates.revocation_status`, CRL cache, schedulers | revoke, publish, answer OCSP | two tables, a cache, goroutines that overlap; serial numbers as text | what is revoked is listed, what is listed is published and never vouched for | `Revocation` |
| Subjects, `verification/service.go`, `identity/` | `subject_infos`, `identity_sessions` | submit, review, start a session with a provider, its answer | repeated and late answers, failing starts, reviewers at the same time | only what a provider confirmed counts as confirmed, which may be an earlier submission of the same subject; decisions stand | `Identity` |
| Domains, addresses, mail boxes, `verification/service.go` | `extension_infos` | create, look up, try a code, renew, review | a lookup answers for a token that is gone; codes are tried in parallel | what is verified was proved; tries are limited, but for those of requests that run together | `Ownership` |
| Cloud cards, `card/`, `api/handler_card.go`, `api/handler_business.go` | `cards`, keys in devices, `certificates.card_uuid`, PIN sessions (in memory) | open for an order, delete, PIN, PUK, admin key, make and delete keys | database, device and memory change one after the other | an order gives the cards it was paid for; keys have certificates; sessions end with their PIN | `CloudCards` |
| Local manager: card sessions, `src/clients/internal/card`, `src/clients/internal/ipc` | sessions of a slot, login, operations in progress | open, log in, sign (also in parts), decrypt, close | every connection may name any session; mutexes of sessions are taken in turn | every request returns; one operation, one answer | `CardSessions` |
| HTTP interface, `api/` | none | decode, authorise, call services in turn | several services in one request | | where a handler calls several services |
| Background jobs, `cmd/server-card/main.go` | none | cancel stale orders, close recharge orders, renew CRLs | against requests | | `Storefront`, `Checkout`, `Wallet`, `Revocation` |
| Certificate authority, ACME, certificate transparency, key back ends, issuance policies, mail, help, authentication | CA keys, texts, logs | sign, validate, store | | | none |
| The rest of the local manager, drivers, desktop shell, front ends | | devices, forwarding, pages | | | none |

The services share the database. The cashier, the workflow, the refund desk, the
activation of plans and the opening of cards all write `cert_orders.status`, and what they
may assume about each other is in the WHERE clauses of their UPDATE statements. Beside it
there are two mutexes (`promo.Service.mu`, the sessions of the local manager), caches in
memory (CRLs, PIN sessions) and devices, none of which a transaction spans.

## Modules

| Module | Models |
|---|---|
| `OrderStore` | the tables of the commerce part and the statements on them (`storage/db.go`, helpers of `checkout.go`) |
| `Checkout` | the cashier, cancellation, and the channels around them |
| `OrderBook` | the promise of a sale; abstract |
| `Fulfilment` | applications, approval, issuance |
| `Refund` | refund requests and their approval |
| `OrderLifecycle` | cashier, issuing desk and refund desk together on one database: extends `Checkout` and `Fulfilment`, with an instance of `Refund` |
| `Activation` | extends `Checkout`: pages that turn paid plan orders into subscriptions |
| `Storefront` | stock and a coupon around placing and cancelling orders |
| `Wallet` | recharge orders, their refunds, and redeem codes that grant a balance |
| `SubscriptionQuota` | orders and applications out of the quota of a subscription |
| `Revocation` | the revocation list of a CA, its cached CRL, the schedulers, OCSP |
| `Identity` | review of subjects and sessions with identity providers |
| `Ownership` | verification of domains, addresses and mail boxes |
| `CloudCards` | cards for an order, their PIN sessions, their keys in a device |
| `CardSessions` | sessions of one slot of the local manager |
| `CheckoutProofs`, `LifecycleProofs` (of `Fulfilment`, `Refund`, `OrderLifecycle` and `Activation`), `StorefrontProofs`, `WalletProofs`, `RevocationProofs`, `ApplicationProofs` (of `Identity`, `Ownership` and `SubscriptionQuota`), `CardProofs` (of `CloudCards` and `CardSessions`) | theorems |
| `SumLemmas` | what the sum of a function over a finite set is: lemmas for the others |
| `MC*` | small instances for TLC |

**State.** In the commerce modules `status` is `cert_orders.status`, a function from
orders; `attempts[o]` is the sequence of the `payment_attempts` rows of an order, oldest
first; `booked[o]` and `returned[o]` count the purchase and refund rows of
`consume_records`, which all carry the amount of the order; `accounts` are the users with a
row in `user_balances`, and `available` and `consumed` two columns of it. Nobody has such a
row before the first recharge or redeemed code (`OpenAccount`), and an UPDATE that finds none
changes nothing. `apps[o]` and `refunds[o]` are the rows of
`cert_applications` and `refund_requests`. `links`, `reported`, `acked` and `sentBack`
belong to the channels: sessions handed to a user, payments whose callbacks a channel sends,
callbacks answered with success, refunds executed.

`Activation` adds to the cashier the subscriptions (`granted`), whether the plan is still
there (`offered`), and the pages. `Storefront` and `Wallet` have tables of their own. Of an
order `Storefront` keeps the status and whether it has a coupon; `stock` is
`portal_product_skus.stock`, `used` is `promo_coupons.used_count`, and `usages` are the rows
of `promo_coupon_usages` (in `Wallet`, of the redeem codes). In `Wallet`, `recharge` and
`tickets` are `recharge_orders.status` and the `refund_requests` of recharge orders;
purchases out of the balance and refunds into it, which `Checkout` and `Refund` model in
full, are the one-step actions `Buy` and `GiveBack`: of any of `Prices`, any number of times,
and a refund also of what was never bought out of the balance, because `refundToBalance`
(`payment/refund.go:299`) asks for none of it. `mu` is the mutex of the promotion
service: `ConsumeCoupon`, `Redeem` and the handler of applications out of a quota hold it,
`ReleaseCoupon` does not.

`Revocation` has the two tables that say what is revoked (`status`, `rows`), the CRL that is
served (`cache`), the registered scheduler and all goroutines, also those that were told to
stop. A row of the list is a certificate and the way its serial number is written: `%x` of a
number drops a leading zero and has no capital letters, the requests of OCSP are written from
bytes, and an administrator may type either, or superfluous zeros in front (`Typing`), which are
stored as they are typed (`api/handler_ca.go:466`). `Identity` and `Ownership` have the rows
and, of a provider's answer or of a published token, only what it proves: of an answer, which
submission of the subject it was asked about. `CloudCards` keeps of a card whether it is there,
belongs to the order, its counter and its lock; of a session, which card it is for.
`CardSessions` has the manager's table of sessions, the login of the token, the operation in
progress of each session, and the buffers of multi-part signatures.

Some variables and fields exist for the properties only and are named so where they are
declared: `adrift`, `unbooked`, `supplied`, `misread`, `disturbed`, `unlisted`, `counted` and
`reserved`, `version`, `vouched`, `usedUp`, `missed`, `left`, `abandoned`, `signedIn`, `due`, and
the state of a PIN session. No guard reads them, but for the supply that bounds `Storefront`
and the `version` that bounds resubmissions. `spent` and `returned` of `Wallet` are sums over
`consume_records`.

**Steps.** A handler is a record in `req` (`work`, `clerk`, `front`, `desk`, `page`,
`worker`, `conn`): `pc` names the statement it runs next and the other fields are the local
variables it carries. One action is one statement outside a transaction, one whole
`BeginTx ... Commit`, or one section under a mutex. So everything the code reads in one
statement and uses in a later one can be stale in the model too. `Abort`, the `...Fails`
actions, the failing disjuncts of a statement and `Restart` end a handler between two
statements: the client went away, a statement failed, SQLite was busy, or the process
died. Nothing that a handler holds in memory survives it.

**Channels and providers.** A channel opens sessions for an order number. Alipay and WeChat
capture at most one payment per order number, Stripe and PayPal one per session, and number
the session (`Numbered`): that number is written into `transaction_id` after the channel
has answered, whatever the row has become (`RecordLink`). The user may pay any session at
any time, also after the order was cancelled, and the channel reports each payment any
number of times, to any handler, until it is answered with success.

PayPal reports an approval as well (`Approving`; `paypal.go:260`), before any money moves,
under the number that it gave to the session (145), and the code takes it for a payment;
nothing in the code captures the money. So what a callback proves is that something was
`reported`, and only for other channels that it was captured (`Captured`). As the number is
then both that of a session and a trade number, the unique index on trade numbers may
refuse the callback. Stripe's session numbers are never reported as trade numbers, and
which of them a row has makes no difference: one value stands for them. An identity provider
decides a session once and reports it any number of times; `Polled` tells whether its
driver believes the callback or asks the provider.

## Runs

All runs pass. Type invariants are in the modules; those of modules with theorems are
proved, so the runs spend their time on the others.

| Run | Instance | Asks |
|---|---|---|
| `cashier` | one order at 2 and an account that is opened with 2 at any time, two handlers, a channel without numbers and PayPal, a payment or approval each, a voucher, two attempts; fairness | `OnePendingAttempt`, `PaidRowIsReported`, `TradeBookedOnce`, `BalanceExplained`, `PaidRowsAreFinal`; it implements `OrderBook`; `ReportedIsAccounted` |
| `activation` | two plan orders at 1 and 0 of one user, whose account is opened with 1, two handlers, two pages; fairness | `SubscriptionsMatchOrders`, `KeptPlanIsActivated` |
| `issuing` | one order of two units, two workers, two applications; the reads of the quantity and of the count may fail | `CompletedIsFulfilled`, `ApprovedHasCertificate`, `ApprovalIsFinal` |
| `lifecycle` | one order, Stripe, a handler, a worker, two clerks, two refund requests; the account is opened at any time | `OnlySoldIsIssued`, `AccountExplained`, `PaidRefundWasSent`, `RefundIsDecidedOnce`; it implements `OrderBook` |
| `storefront` | three orders of two users, one of two units; three units; a coupon for two uses, one per user; two requests, whose count of the uses may fail | `NotOversold`, `CouponLimitsKept`, `DiscountIsRecorded`, `NothingLeaks` |
| `wallet` | two recharge orders of 2, two tickets each, a code of 1 for one use and two users, purchases and refunds of 2 each, the refunds up to 4, two desks | `BalanceAddsUp`, `RechargeExplained`, `RefundedIsTakenBack`, `RechargeIsDecidedOnce` |
| `revocation` | one certificate whose serial has letters, typed in lower case or with zeros, two configurations with intervals of 5 and 60 minutes, one request, two schedulers, one failure or restart; fairness | `RevokedIsListed`, `OneSchedulerRuns`, `NeverVouchedFor`, `ListedIsPublished` |
| `quota` | one subscription with a quota of one, two orders, two applications, two requests, two reviewers, one failure (also of the count) or restart | `ReservedWithinQuota` |
| `identity` | a subject that needs review and one that is approved at once, two sessions, two requests, one resubmission | `DecisionIsFinal`, `IdentityIsProved` |
| `ownership` | a domain and a mail box, two requests, two tries per code, one renewal, all three policies | `VerifiedWasProved`, `TriesAreLimited` |
| `sessions` | two connections, two sessions, one of them read-only, signatures of one part; fairness | `OneAnswerPerInit`, `PartSignedOnce`, `EveryRequestReturns` |
| `cards` | two cards for an order of one, one key, one session, two requests, two entries of the PIN | `CardOrderKept`, `NothingStrays`, `SessionsFollowPin` |

**Bounds.** `MaxAttempts`, `MaxPays`, `MaxApps`, `MaxSigned`, `MaxRefunds`, `MaxTickets`,
`MaxSupply`, `MaxMishaps`, `MaxResubmits`, `MaxRenewals`, `MaxReturned`, `MaxSessions` and
`MaxParts` bound what the environment may cause; they occur in the guards of the actions that
begin an operation. Rows of different orders meet in the balance, in the index on trade numbers,
in stock, coupons and quotas, and in nothing else, so one order is enough where none of these is
asked about: for trade numbers, where two orders matter, `TradeAlwaysBookedOnce` holds for any
number. Two actors show every race of two operations; that three are not different is what the
theorems add. The instances are chosen so that limits bite: in `storefront` one user orders
twice and the orders do not fit in the stock together; in `wallet` the code alone does not pay
for a purchase, and refunds may come twice for one purchase, or without one; in `cashier`,
`lifecycle` and `activation` nobody has an account at first (`Members`), and it may be opened
before, between or after purchase and refund (the theorems hold for any `Members`); in `quota`,
`cards` and `ownership` two requests want the last unit, card or try. One certificate is enough
in `revocation` because the lists are sets without a limit; the two configurations are what
makes schedulers come and go.

`CHECK_DEADLOCK FALSE` is said in all configurations because the systems may stop: an order that
is cancelled and has used up the bounds, a subject that is deleted, two desks that wait for a
bounded number of tokens have nothing left to do. For the mutexes of `CardSessions`, where
stopping is the question, `EveryRequestReturns` asks it. Desks and recharge orders of `wallet`,
desks and sessions of `identity`, desks of `ownership`, cards and desks of `cards` are
interchangeable and taken as symmetric. The runs with liveness use no symmetry.

**Fairness.** `FairCheckoutSpec` assumes that a handler goes on unless it is cut off (weak
fairness of its next statement: goroutines are scheduled), that a channel repeats a
callback until it has been answered with success (strong fairness of `Unanswered`, since
an occupied server is not a reason to give up), and that the transaction of a callback is
not cut off for ever (strong fairness of `Booking`). `Abort` and the user's payments have
no fairness. The channels document their retries with an end after hours or days, so
`ReportedIsAccounted` says what happens if the server recovers within that time.
`FairActivationSpec` assumes that the user goes on opening pages, which is what triggers
the activation, and that these are not cut off for ever at the same statement.
`FairRevocationSpec` assumes that goroutines run, that tickers tick and that requests go on;
failures and restarts may happen as far as `MaxMishaps` allows. `ListedIsPublished` adds as
its own premise that administrators stop changing the interval. `FairSessionsSpec` has strong
fairness of each connection, because a goroutine that waits for a `sync.Mutex` is not
overtaken for ever (its starvation mode).

## Disagreements between the code and its texts

Each module ends with the sentences of comments and documents that the code does not
keep, as properties. They are not in the configurations. With the property in place of
those of the configuration, TLC shows how it fails; where the table names other values,
the configuration has to have them.

| Property | Text | What the code does | Instance |
|---|---|---|---|
| `Checkout!ChargedOnce` | `payment/checkout.go:6`: never charged twice | a balance payment (331) deducts without looking at whether the order was settled since it was loaded | `MCCheckout.cfg` |
| `Checkout!BookedOncePerCapture` | `storage/db.go:1105`: one payment is never booked twice | the number of a session (`checkout.go:189`) overwrites the trade number that a callback has booked, and the repeated callback is booked on a new attempt | `MCCheckout.cfg` with a third handler |
| `Checkout!NoSilentMoney` | `checkout.go:493`: money is not ignored in silence | a callback whose attempt was closed between its lookup and its transaction (523) changes nothing and is answered with success | `MCCheckout.cfg` |
| `Checkout!PaidRowIsCaptured` | `roadmap/18-PORTAL-COMMERCE-DELIVERY-PLAN.md:293`: an order is paid when a channel has taken the money | the approval of a PayPal order counts as payment (`payment/paypal.go:260`), and nothing captures it | `MCCheckout.cfg` |
| `Fulfilment!WithinQuantity` | `workflow/service.go:363`: no more certificates than were bought | applications are counted (371) and inserted in separate statements, and approvals write unconditionally (659) | `MCFulfilment.cfg` |
| `Fulfilment!CompletedInFull` | `workflow/service.go:666`: completed when all units are issued | the errors of two reads (669) are ignored; an order whose quantity could not be read counts as one unit | `MCFulfilment.cfg` |
| `OrderLifecycle!RefundReachesBalance` | `payment/refund.go:298`: the money goes back to the balance | the UPDATE (319) finds no row when the user never had an account, and the refund is recorded as paid | `MCLifecycle.cfg` with a second handler |
| `OrderLifecycle!ReturnedOnce` | `roadmap/18-PORTAL-COMMERCE-DELIVERY-PLAN.md:307`: nothing is returned twice | two requests may be pending (`refund.go:62`), and a late approval takes the order back from refunded (`workflow/service.go:680`) | `MCLifecycle.cfg` with `Units = 2` |
| `SubscriptionQuota!QuotaKept` | `help/docs/user/07-subscription-finance.md:25`: a fixed number of certificates | an application that names an order made for the quota earlier (`api/handler_apply.go:75`) is not counted against it, and a failed count (`promo/service.go:533`) admits whatever is asked | `MCSubscriptionQuota.cfg` |
| `Revocation!OcspReadsTheList` | `revocation/service.go:345`: the texts of the table are the ones looked for | the list is written in lower case, the built-in OCSP answer compares in upper case | `MCRevocation.cfg` |
| `Revocation!RevokedIsAnswered` | `revocation/responder.go:264`: what is revoked is answered as revoked | a serial that was typed with superfluous zeros is on the CRL (`ca/service.go:387`), and the responder finds only the certificate, which it calls good | `MCRevocation.cfg` |
| `Activation!PaidPlanIsActivated` | `help/docs/admin/04-products-orders.md:58`: the payment opens the plan | a plan may be deleted between payment and activation (`promo/service.go:389`), and the order stays paid | `MCActivation.cfg` |
| `Identity!ConfirmedAsSubmitted` | `verification/service.go:200`: a subject that is submitted again is verified again | a session that was started with the data of the submission before may still pass and confirms the new one (287) | `MCIdentity.cfg` |
| `Ownership!FlatLimit` | `verification/service.go:721`: a new code is needed after five wrong ones | the number is read, compared and increased in separate statements (736), so requests that read the same number all go on | `MCOwnership.cfg` |
| `CloudCards!NoOrphanKeys` | `card/service.go:446`: no orphan keys | deleting a card deletes its certificates and no key (`storage/repo.go:448`); a certificate of another card, or one that cannot be read, is deleted without its key (452) | `MCCloudCards.cfg` |
| `CardSessions!LoginIsShared` | `src/clients/internal/card/manager.go:288`: all sessions share the login | a session that is opened while another logs in stays public | `MCCardSessions.cfg` |

They do not contradict the properties that hold. The books (`consume_records`,
`cert_orders`) stay right in all races of the cashier; what is not kept is that money is
taken at all, that it is taken only once, and that surplus money leaves a trace. Where a
property of a run stops short of such a sentence, it names the cases that it leaves out, and
only those: `ReportedIsAccounted` (`unbooked`, `Refused`), `CompletedIsFulfilled` (`misread`),
`AccountExplained` (`adrift`), `CouponLimitsKept` (`misread`), `ReservedWithinQuota`
(`reserved`), `NeverVouchedFor` (zeros), `IdentityIsProved` (an earlier submission),
`TriesAreLimited` (requests that run together), `NothingStrays` (`left`, `abandoned`),
`SessionsFollowPin` (a PIN read before the change, a reset that fails halfway).

Smaller ones, visible in the models and stated nowhere in the repository: a
second approval of one application may overwrite a revocation that came between
(`workflow/service.go:659`), so that a unit that was released counts again; parts of an
abandoned multi-part signature join the next one of the session; a reset by admin key
that fails at the PUK has changed the PIN and leaves the sessions of the old one
(`api/handler_card.go:679`); a session may begin with a PIN that was changed since it was
read; a right PIN that was read before the last wrong one unlocks the card
(`card/service.go:208`); a failed count of a user's uses of a coupon counts as none
(`promo/service.go:193`), so that its limit per user is not kept; a purchase through a
channel by a user without an account is missing in `total_consume` for ever
(`payment/checkout.go:415`); a domain may be verified by a lookup that answers for a token
which was replaced meanwhile (`verification/service.go:815`).

## Proofs

All theorems hold for any number of orders, users, certificates, requests and so on, and
without the instances of TLC. They use only the named assumptions of the modules: prices
and limits are natural numbers, owners are users, the placeholders (`NoOrder`, `NoTxn`,
`"none"` and so on) are not rows, and, where rows or requests are counted or summed, the
sets of orders, users, applications and requests are finite. They are as finite in the
program: rows of a table and goroutines of a process.

- `SumLemmas`: `SumFunctionOnSet` of the community modules is defined by recursion over
  `CHOOSE`, so that nothing about it follows from unfolding. The recursion is shown to
  have a solution on every finite set (a smallest set without one is impossible), and
  from that a sum has a type, gains what an element brings, changes by what one value
  changes, and vanishes with its terms. All statements about money, stock and units below
  rest on these lemmas.
- `CheckoutProofs!TypeCorrect`: `CheckoutTypeOK`. It is not inductive alone, since a
  statement that updates a row needs the row to exist. `RowsInHand` adds that a handler
  which carries a row number carries one of its order; rows are never deleted.
- `CheckoutProofs`, safety: `OnePendingAttempt`, `PaidRowIsReported`, `TradeBookedOnce` as
  invariants and `PaidRowsAreFinal` as an action property. The inductive invariant `Inv` is the
  types, the three properties, `InHand`, which says what a handler in the middle of an operation
  knows of its row (it belongs to its channel, and a callback carries a payment that its channel
  reported for its order), and `NumbersIssued`: what stands on the row of a channel was given to
  a session or reported as paid, and no session is paid before it is opened. Hence the number of
  the next session stands on no row, which is what keeps `TradeBookedOnce` although a session of
  PayPal bears a trade number. Every action is first reduced to one of five changes of a row
  (`RowStep`: it stays, is closed, becomes paid, is disputed, or gets a session number) or to an
  appended row, and the invariants are proved of these, so no property is proved once per
  action.
- `CheckoutProofs!BalanceAlwaysExplained`: `BalanceExplained`. A row that becomes paid out of
  the balance is deducted in the same transaction, so one term of the sum over the orders
  of a user and the balance change together.
- `CheckoutProofs!CashierImplementsOrderBook`: `CheckoutSpec => ImplementsOrderBook`.
  It rests on `BooksAgree` (an order is booked once if it is sold and priced, and not at
  all otherwise) and on `Inv`, because a sale by callback is funded only if the attempt
  that the handler carries stands for a reported payment.
- `LifecycleProofs`, the issuing desk: `FulfilmentTypeOK`, `CompletedIsFulfilled`,
  `ApprovedHasCertificate` and the action property `ApprovalIsFinal`. Statements here are
  unconditional, so the inductive invariant `FInv` says what a worker still knows when it
  writes (`Knows`): its application is there, its certificate is stored before it approves,
  the approvals it counted are no more than there are, and it asks for as many as complete the
  order (`Needed`: its quantity, or one once that was misread). This survives the other workers
  because every step lets the applications grow (`Grows`): none is deleted or loses a
  certificate or its approval, so the number of approvals never falls, nor does the number
  needed rise.
- `LifecycleProofs`, the three desks together: `LifecycleImplementsOrderBook`,
  `OnlySoldIsIssued`, `AccountExplained`, `PaidRefundWasSent` and the action property
  `RefundIsDecidedOnce`. Each desk writes the tables of the others, so the invariant of the
  cashier and `FInv` are not enough. `LInv` adds what one desk may assume of another: a
  worker is busy for an order that was sold, applications are made for such orders
  (`WorkOnSold`, `AppsOnSold`), and what a clerk carries of a refund is what its row says,
  so that its branch is the one for the channel (`ClerkKnows`). `SentIsCounted` counts: the
  refunds of an order that are recorded as paid by a channel, and the clerks that have been
  told so and have not recorded it yet, are no more than the channel has sent.
  `DriftSettled` says that a refund which found no account is one that was paid, so that none
  is counted again when an account is opened.
  A step of one desk is then a stutter of `OrderBook` unless it is one of the cashier, and
  each step changes at most one term of the sums over the orders.
- `LifecycleProofs`, plans: `ActivationTypeOK`, `SubscriptionsMatchOrders`. `PlanInv` adds the
  invariant of the cashier, and that a page works on an order which was sold and completes
  one only when it has its subscription (`PageKnows`). A page carries an order over several
  statements, and the steps of the cashier and the refund may not take its sale back
  meanwhile; that they do not is what `Sold(o) => Sold(o)'` says of each.
- `StorefrontProofs`: `ShopTypeOK`, `CouponLimitsKept`, `DiscountIsRecorded`. The inductive
  invariant `SInv` adds what a request knows at its statement (`Sound`): inside
  `ConsumeCoupon` it holds the mutex; a new order is its alone until it is inserted; the
  count of a user's uses, unless its query failed, is still the count, because all inserts are
  under the mutex. That this survives a release outside the mutex is the point of the
  proof.
- `StorefrontProofs`, nothing lost: `NotOversold` and `NothingLeaks`. `HInv` says that two
  requests never hold units for the same order and none holds them for a live one
  (`HoldersApart`), so that units move between the terms of one sum (`StockCounted`); that
  every use of the coupon has its live order or a request on the way to take it back; and
  that the counter is the uses and the requests on the way together, until one is cut off.
- `WalletProofs`: `WalletTypeOK`, `BalanceAddsUp`, `RechargeExplained`,
  `RefundedIsTakenBack` and the action property `RechargeIsDecidedOnce`. `WInv` is about
  control: whoever is inside `Redeem` holds the mutex, and a refund is requested and
  decided only for an order that was credited (`RefundsOfCredited`), which is why the
  unconditional UPDATE of the order in the approval cannot revive a closed one. `MInv` is about
  money: `RechargeExplained` holds only between redemptions, so `TotalsExplained` adds what
  the holder of the mutex has recorded and not credited (`Owed`), and `UsesCounted` the use
  that it has counted and not recorded (`OnTheWay`).
- `ApplicationProofs`, quota: `QuotaTypeOK`, `ReservedWithinQuota`. `QInv` adds that the mutex
  has one holder, what orders and applications a request or an approval has in hand, and
  `RoomForAll`: what was admitted by a count and what the holder of the mutex has counted but
  not yet inserted fits in the quota together. The steps are about cardinalities of sets that
  gain or lose one element.
- `RevocationProofs`: the types, `RevokedIsListed`, `OneSchedulerRuns`, `NeverVouchedFor`. `RInv`
  adds that what a refresh has read is on the list, because nothing is taken off it.
  `NeverVouchedFor` follows from how serial numbers are written, for every way but
  one with superfluous zeros, for which it is false.
- `ApplicationProofs`, subjects: the types, `IdentityIsProved`, `DecisionIsFinal`. `IdInv`
  adds that a session passes only with the provider's word and stays with its subject and the
  submission that it was started for, and what each request carries from its last statement
  (`InHand`).
- `ApplicationProofs`, domains: the types, `VerifiedWasProved`, `TriesAreLimited` and
  `VerifiedStays`, which is proved only. `OInv` adds who stands behind a request that is
  about to verify (`StandsBehind`), and that the tries counted and those in flight stay
  below the bound together (`TriesBounded`).
- `CardProofs`, cloud cards: `CardTypeOK`, `CardOrderKept`, `NothingStrays`,
  `SessionsFollowPin`. `CardInv` adds that a card which is not locked has retries left and
  what each request has in hand (`Typed`); that an order is used up as soon as all its cards
  are opened, and is when a request is about to complete it (`OrderInv`); and which request
  holds a card or key that nothing else belongs to yet (`CardsHeld`, `KeyInv`), so that the
  one which cleans up does not clean up behind another. `KeyInv` is relative to the keys that
  stray for good (`Lost`: `left` and `abandoned`), so these may end in no hand.
  `CardAssumption` says that no card is a key: `left` records both.
- `CardProofs`, sessions of the local manager: `SessionsTypeOK`, `OneAnswerPerInit`,
  `PartSignedOnce`, and `MutexesAreHeld`, which is proved only. `SessionsInv` adds what a
  connection knows (`ConnKnows`), that those which do anything are finitely many although
  `Conns` need not be finite, and that a part is in one place at most: a buffer, the hands
  of a connection or a signature (`PartInv`). `MutexesAreHeld` is the safety half of
  `EveryRequestReturns`: a request that holds the mutex of a session is at a statement that
  waits for no other, so no circle of requests can form for any number of them; that each
  is served in the end is left to TLC.

**Model-checked only.** Liveness (`ReportedIsAccounted`, `KeptPlanIsActivated`,
`ListedIsPublished`, `EveryRequestReturns`) needs fairness and ENABLED, which are out of
the prover's reach. Every other property of the runs is a theorem.

## What the models leave out

- Amounts: all attempts of an order carry the amount of the order, because
  `handleCertOrderCallback` refuses callbacks with another one. Currencies are equal.
- A failing read is not distinguished from a failing request, except where the code goes
  on after it, and so does the model: `RecordLink`, `CountApproved`, `CountUsages`, the count
  in `Reserve`, `DeleteCert`.
- A channel that accepts a refund without executing it yet ("pending") counts as having
  paid, because `approveCertOrderRefund` treats it so.
- Stock below zero means unlimited, and its statements change nothing; `Storefront` has
  limited stock only. One coupon and one specification stand for all: no statement
  touches two. Editing or deleting a coupon while it is in use is left out.
- A payment for a recharge order that the job has closed is answered and skipped
  (`checkout.go:559`); in `Wallet` it stays in `captured` and changes nothing.
- The order of `created_at` is the order of insertion. `expires_at` of an attempt is
  stored and never enforced by the code.
- The amount frozen on an order (`frozen_cents`) is zero for every order the present code
  creates, so the branches of `workflow/service.go` for it are never taken.
- Subscriptions do not expire, plans are not edited, and codes that grant a subscription
  are left out. One CA, one plan item and one slot stand for all: no statement spans two.
- Configuration of responders and providers, signatures of callbacks, validity in time.
- Cards have a PIN and are opened for an order; importing and exporting keys, signing and
  decrypting do not change what the properties are about.
- Objects, searches, digests and key generation of local cards. Handles of objects are
  renumbered when certificates are loaded again (`src/clients/internal/card/local/slot.go:429`),
  which a model of objects would have to show.
- Contents of certificates, templates, mail, logging and HTTP.

## Not modelled

- **ACME** (`acme/`): the handler of new orders inserts the account `unknown`
  (`api/handler_system.go:145`), which the foreign key of `acme_orders`
  (`storage/db.go:965`, switched on at 72) refuses. The states of orders and challenges are
  not reached by a running server.
- **Certificate authority, key back ends, certificate transparency**: sequential code
  around cryptography, devices and external logs. What other components see of it is in
  `Fulfilment` (`Sign`), `Revocation` (the list) and `CloudCards` (the keys of a device).
- **Issuance policies and templates**: pure validation of a request against a row, covered
  by its inputs.
- **Authentication, mail, help, practice statements, metadata**: plain storage of texts, and
  tokens without state.
- **TPM, PKI, TOTP, FIDO and the HTTP interface of the local manager**: device input and
  output, encodings and the files of one user.
- **Drivers, native helper, desktop shell, front ends**: C code that forwards calls, build
  files and pages.

The larger part of the repository is of these kinds: encodings, devices, HTTP handlers
that decode, call one service and encode, and pages. The models cover the services whose
state several actors change at once; line for line that is a small part of the code.
