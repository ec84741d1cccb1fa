# Anchor business server: TLA+ models, checks and proofs

The program is a Stellar anchor's business server in Rust. It runs behind the
Anchor Platform, which speaks the SEP protocols to wallets; the server keeps the
KYC data, quotes prices, holds the distribution account's key, signs and submits
deposits, watches the account for incoming payments and reports every movement
of money back to the platform. Paths below are relative to the repository.

## 1. Inventory

| Component | State | Operations | Talks to |
|---|---|---|---|
| SEP-24 deposits: `src/sep24/interactive.rs` (`submit_form`), `src/sep24/worker.rs` (`process_deposit`), `src/ledger/mod.rs` | row of `sep24_transactions`; the payee's `customers` row; the distribution account's sequence number on the network | insert on `transaction_created`; submit the form (find and write the customer, store the amounts); load, sign, submit, record, report; error path | Postgres, Horizon, platform |
| SEP-24 withdrawals: `src/event.rs`, `interactive.rs`, `sep24/worker.rs` (`complete_withdrawal`) | row with the drawn memo, and an amount if the event brings one | insert and PATCH; submit the form; match, report, pay out, record, report | observer, platform |
| SEP-31 receives: `src/sep31/worker.rs`, `src/event.rs` | row of `sep31_transactions` | insert; match, report, KYC gate, settle or park; resume | observer, SEP-12, platform |
| Observer: `src/observer.rs` | the open stream, no cursor | connect, deliver, reconnect after 5 s | Horizon, both workers |
| SEP-12 customers: `src/sep12.rs`, `src/db/customers.rs`, `src/kyc.rs` | `customers` rows: identity, type, fields | GET, PUT (merge of fields, spawn of the resume task), DELETE | SEP-31 worker |
| Rates and fees: `src/sep38.rs`, `src/fee.rs` | none | quote, fee, payout | the form uses the same fee |
| Platform client: `src/platform_api.rs` | none | `notify_*`, PATCH | platform |
| Plumbing: `main.rs`, `routes.rs`, `config.rs`, `jwt.rs`, `callback_auth.rs`, `error.rs`, `db/mod.rs`, migrations | the pool; the schema | start, route, authenticate | |

Who runs concurrently: one HTTP handler per request, one spawned task per
submitted deposit and per PUT of a receiver, and exactly one observer task, which
handles payments one after the other. They share the tables (every statement is
a transaction of its own, and no UPDATE has a condition on the status), the one
distribution account and the platform. A task loses control at each `.await`,
so whatever it read before may be stale after.

What is hard: status checks that are followed by unconditional updates; the
sequence number, read without a lock; calls whose error does not say that they
had no effect; spawned tasks that a restart forgets; a stream that replays or
skips; the KYC gate, where two tasks each look at what the other has not
written yet. `PROJECT.json` lists these hazards with their lines and properties.

What makes each component correct:

- deposits: nothing is claimed that was not paid, nothing paid that was not asked
  for, one payment per deposit, each submitted deposit ends and is reported;
- withdrawals and receives: one payout each, none without a payment, none
  without KYC (receives), no way back from `completed`, no payment lost while
  the stream is open;
- the observer: a payment is used for one transfer only, and neither kind waits
  for ever behind the other;
- customers: one row per identity, a row holds what was given to it and nothing
  of anyone else's, and an answered call has stored what it gave;
- rates: a quote is what a deposit then brings.

## 2. Modules

| Module | Models | Main correspondence |
|---|---|---|
| `Payout` | the promise every kind of transfer makes about money leaving the anchor | requests, payouts, rows that say so, reports that say so |
| `Deposit` | SEP-24 deposits | a *session* is one POST of the form and the task it spawns; its `pc` names the last `.await`; an `Envelope` is a signed transaction, identified by what it says, as its hash is; `customers` are the payee's rows, which the form finds and then writes, and DELETE removes |
| `Sep31` | SEP-31 receives, with PUT and DELETE of the receiver | a *worker* is the observer or one PUT call with its resume task; both run `CheckKyc`, `Payout`, `SetCompleted`, `NotifySent` (the code's `settle`) |
| `PaymentStream` | the log of payments and the observer's position in it | a new stream starts at the beginning or at the end of the log |
| `Withdrawal` | SEP-24 withdrawals over a `PaymentStream` | `obs` is the observer inside `complete_withdrawal` |
| `Observer` | the one task over one stream, serving `Withdrawal` and `Sep31` | `W` and `S` are instances of the two; `looking` is the payment between its two lookups, `opened` counts the streams |
| `Customers` | the `customers` table under GET, PUT, DELETE and the form, with the table of `kyc.rs` | a *call* looks with one statement and writes with another |
| `Rate` | fee, `amount_out` and quote arithmetic, in stroops | |
| `PayoutProofs`, `DepositProofs`, `Sep31Proofs`, `WithdrawalProofs`, `ObserverProofs`, `CustomersProofs`, `RateProofs` | theorems about each | section 5 |
| `MC...` | small instances for TLC | section 3 |

Each action is the code from one `.await` to the next, with every outcome of the
call it ends in: done; refused; or, for a write, done with its answer lost. All
the faults of a module share one budget, `MaxFaults`: a refused statement, a
lost reply, an error of the platform, a client that hangs up (the server drops
its handler's future), a broken stream, a crash. So every combination of that
many faults happens, and what holds only while nothing fails can be said in the
same run: liveness is stated "or `faults > 0`". Horizon's own errors in
`Deposit` need no budget. A crash ends every handler and task; only the
observer and the router start again (`main.rs`).

What is external and how it is modelled, from the way `src/` uses it:

- Stellar applies an envelope on the next sequence number once, successfully or
  not; envelopes on used numbers can never apply (`Apply`).
- Horizon confirms a hash that has been applied, to everybody who submitted it;
  any answer may instead be an error, which decides nothing (`HorizonAnswers`).
- The platform applies a call, refuses it, or applies it and its answer is lost.
- Wallets pay what and when they like, to a memo they were told (`WalletPays`);
  others may pay to a memo that is also a withdrawal's (`SenderPays`). Payments
  without a memo or in another asset are passed over and are not in the log.
- In `Sep31` any payment may be delivered at any time and again, so that its
  safety properties do not depend on what the stream does; `Observer` puts the
  stream back.

### The abstract specification

`Payout` has four variables: how often a payout of each transfer was asked for,
how often it was made, which transfers are recorded as paid out and which are
reported as such. A payout spends a request; a record follows a payout; a report
follows a record. It promises neither ONE payout (the findings below show two)
nor any record or report (a crash may lose both). `ImplementsPayout` is the
refinement, under these mappings:

| | asked | paid | recorded | reported |
|---|---|---|---|---|
| `Deposit` | submissions of the form | applied payments of the deposit's sessions | rows with a hash | `sent` |
| `Withdrawal` | submissions of the form | `payouts` | rows with a hash | `sent` |
| `Sep31` | payments delivered, and PUTs that name the receiver | `payouts` | completed rows | `sent` |

That a withdrawal is paid at most once per *submission*, however often payments
are replayed, and a receive at most once per payment or PUT, is what is left of
"paid once" in this code.

## 3. Runs

| Run | Instance | Distinct states | Shows |
|---|---|---|---|
| `DepositAll` | 2 deposits to one payee, 2 sessions, one amount that Stellar can express and one it cannot, 2 faults, weak fairness | 717 204 | `TypeOK`, `ClaimsArePaid`, `PaymentsAreAsked`, `NothingIsForgotten`, `ImplementsPayout`, `ResubmitRefused`, `SoloGoesForward`, `SubmittedIsResolved`, `PlatformHears` hold |
| `DepositDouble` | 1 deposit, 2 sessions, no fault | | `PaidOnce` fails |
| `DepositShared` | 2 deposits, 2 sessions, no fault | | `OwnPayment` fails |
| `DepositUnreported` | 1 deposit, 1 session, fairness | | `PaymentsAreReported` fails |
| `Sep31All` | 2 receives with one memo (one without a receiver), 1 field, 1 payment delivered up to twice, 2 PUTs, 2 faults, weak fairness | 390 560 | `TypeOK`, `KycGate`, `BackedByPayment`, `SoloPaidOnce`, `NothingIsForgotten`, `ImplementsPayout`, `GoesForward`, `NoNewHolder`, `MatchedIsHandled`, `ResumeSettles` hold |
| `Sep31Double` | 1 receive, 2 PUTs, no fault | | `PaidOnce` fails |
| `Sep31LostWakeup` | 1 receive, 2 PUTs, fairness | | `CompleteKycSettles` fails |
| `WithdrawalAll` | 2 withdrawals, created with or without an amount, 2 sessions, 2 memos, 2 payments, 2 faults, weak fairness | 480 299 | `TypeOK`, `SoloPaidOnce`, `PayoutsAreBacked`, `ClaimsAreTrue`, `NothingIsForgotten`, `ImplementsPayout`, `AwaitedPaymentCompletes` hold |
| `WithdrawalAmount` | 1 withdrawal, 2 amounts, no fault | | `CompletedByExactAmount` fails |
| `ObserverAll` | 1 withdrawal with 1 session, 1 receive with 1 PUT, 2 memos the two may share, 2 payments, one fault of each kind, weak fairness of the task | 692 307 | `TypeOK`, `OneTransferEach`, `TransfersArePaidFor`, `AwaitedReceiveIsHandled` hold |
| `CustomersAll` | 2 ids, 1 account with and without a memo, types `sep24` and `sep31-sender`, 3 calls, 1 fault, symmetry of ids and calls | 1 755 060 | `TypeOK`, `TwinsAreConcurrent`, `FieldsWereGiven`, `AnsweredIsStored`, `PassedStays` hold |
| `RateAll` | all queries about amounts up to 180 stroops | 198 744 | `TypeOK`, `DepositsHonourQuotes`, `DirectionsAgree` hold |

Why these bounds are enough. Every hazard here is between two actors: two
sessions on one row, two tasks on one sequence number, the observer and a PUT,
two PUTs, two calls on one identity. Two of each let every such pair interleave,
and the second deposit or receive shares payee or memo with the first, the case
in which they can be mistaken for each other. `Customers` has a third call, so
that something may be deleted, nulled or retried around two that overlap. Two
faults let a failure be followed by another during its recovery; one crash
reaches every state a task can leave behind. `Observer` has one transfer of each
kind, so of `OneTransferEach` the run exercises that a withdrawal and a receive
never share a payment; that two of a kind do not is left to its proof. Every
action of `Observer` is one of `Withdrawal`'s, of `Sep31`'s or of both, so what
the runs of those two modules say of two of a kind holds beside the other kind.
Two payments let the second arrive while the first is handled. The fee's rounding repeats every 20
stroops (ten, and the parity a half is rounded by) and the buy direction's every
9 or 18: amounts up to their common multiple 180 contain every combination of
the two, and `RateProofs` removes the bound. Section 5 removes most of the
others.

Sessions and PUTs are used at most once and other resources are bounded, so runs
end: deadlock is not checked.

Fairness. Weak fairness of a session's task, of a PUT's task and of the observer
says that tokio polls every ready task and every call returns or fails. The
calls have no timeout of their own, so this is an assumption about the network.
In `Observer` the fairness is that of the whole task: that it starves neither
kind is then a consequence of its code. Nothing is assumed of wallets, of the
network applying a transaction, or of the platform sending events.

## 4. Where the code and its words disagree

Each violation run checks one sentence of the repository:

- `DepositDouble`: "has already been submitted" (`src/sep24/interactive.rs:162`).
  Two overlapping submissions are both accepted, and both are paid.
- `DepositShared`: "our custody layer sent the Stellar asset to the user and
  Horizon confirmed" (`src/platform_api.rs:78-79`). Two deposits that build one
  transaction are both reported with its hash.
- `DepositUnreported`: "every time our custody layer ... moves money ... it
  reports the fact here" (`src/platform_api.rs:2-5`). A payment that is applied
  after Horizon's timeout is not.
- `Sep31Double`: "re-checks one `pending_customer_info_update` transaction"
  (`src/sep31/worker.rs:131-132`). The status is not re-checked.
- `Sep31LostWakeup`: "resuming a KYC-gated transaction once fields are complete"
  (`src/sep31/mod.rs:4-5`). Not one parked just after the PUT looked.
- `WithdrawalAmount`: "Send exactly {amount} ... Once received, your withdrawal
  will be completed" (`src/sep24/interactive.rs:217-218`). Any amount will do.

The passing runs say what is left. Where nothing fails, no transfer is dropped
between two steps (`NothingIsForgotten`) and a receive that at most one PUT names
is paid out once. Until the stream is opened a second time, whatever else fails,
a payment serves one transfer, and no more transfers are paid out than payments
came in; that counts transfers, and a receive that two PUTs name may still be
paid out twice (`Sep31Double`). Whatever fails, a deposit that was submitted
once goes forward only, a withdrawal that was submitted once is paid out at most
once, a late second submission is refused, and nobody new starts to pay a
completed receive.

Two things the code does that no sentence of it denies, and that the properties
therefore leave room for:

- a customer that is deleted between a form's find and its UPDATE is not stored
  again, the UPDATE succeeds all the same (`src/db/customers.rs:68-72`), and the
  deposit is paid; `PaymentsAreAsked` says that only a DELETE leads there;
- a withdrawal pays out `amount_in` and keeps no fee
  (`src/sep24/worker.rs:78,99-106`), although the form has stored an `amount_out`
  and a fee for it and GET /rate quotes with that fee. `DepositsHonourQuotes` is
  about deposits, which pay `amount_out` (`src/sep24/worker.rs:31`).

## 5. Proofs

All theorems hold for every value of the constants that satisfies the module's
assumption; of the sets, only those of sessions and PUTs are taken to be finite.

**`PayoutProofs`**: `Promises`. What implementing `Payout` is worth: payouts are at
most requests, every record stands on a payout and every report on a record.
`SubmissionsBoundPayouts` (`WithdrawalProofs`) and `RequestsBoundPayouts`
(`Sep31Proofs`) are it, drawn through the refinement.

**`DepositProofs`**: `Invariance` (`Spec => [](TypeOK /\ IInv)`), `NoFalseClaims`
(`ClaimsArePaid`), `NoUnaskedPayments` (`PaymentsAreAsked`),
`ReportsFollowRecords` (what was reported is recorded), `NoLateResubmission`
(`ResubmitRefused`), `SoloDepositsGoForward` (`SoloGoesForward`),
`DepositsImplementPayout` (`ImplementsPayout`), `NoDepositIsForgotten`
(`NothingIsForgotten`).

The properties are not inductive by themselves, for they relate what is on the
network to what sessions hold. `IInv` adds the missing links: what a session's
program counter says of its locals (a session past the form has a deposit and
an amount; one that is through with the customer has a payee that has had a row,
`HaveHadRow`; one that has loaded holds an amount some session asked for this
deposit; one that has signed holds an envelope for its payee, with that amount), that a row's amount was asked by a session of that
deposit, that every envelope seen by the network is some session's, that a
session past Horizon's answer holds a paid envelope, and that what was sent was
recorded. There is one lemma per action, under it one step per part of `IInv`
the action can disturb, and small lemmas for the parts it leaves alone.
`SoloDepositsGoForward` needs a second invariant, `SoloInv`: while the only
session of a deposit is on its way, the row's status is the one that session
left it with and it names no payment, and a session that is to mark as an error
what is completed got there by a fault. It is inductive because a deposit that
two sessions hold is never held by one again. `DepositsImplementPayout` needs a
third, `SeqInv`: what the network has applied is on used sequence numbers, so
one envelope is applied, and counted, once. `NoDepositIsForgotten` needs no more
than `IInv`: `Owed` names, for each deposit, the task that answers for it; only
that task's own step can let go of it, and where nothing fails that step hands
it on to its next program counter or has just marked or reported the deposit.
The writes of *other* sessions of the deposit are harmless, as each of them is
by a task that is in the set itself.

**`Sep31Proofs`**: `Invariance`, `KycIsGated` (`KycGate`), `PayoutsAreBacked`
(`BackedByPayment`), `ClaimsFollowPayouts` (what is completed or reported was
paid out), `ReceivesGoForward` (`GoesForward`), `NobodyStartsAgain`
(`NoNewHolder`), `ReceivesImplementPayout` (`ImplementsPayout`),
`RequestsBoundPayouts`, `ReceivesArePaidOnce` (`SoloPaidOnce`),
`NoReceiveIsForgotten` (`NothingIsForgotten`).

Its `IInv` says what a worker's program counter says of its locals (from the KYC
check on, the platform has heard of the payment in hand; about to pay, the
receiver's KYC has been complete; past the payout, there was one) and, in
`Owns`, who may hold which receive: the observer only those that wait for a
payment, a PUT's task only those parked or completed, with the hash of their
row. `Owns` is why the unconditional UPDATEs do no harm: only the observer, of
which there is one, moves a receive out of `pending_receiver`, and whoever
overwrites a completed row writes what is there. `Keeps` collects what every
step leaves standing, so that each action is only examined for the worker it
moves and the row it writes. The refinement adds `ListsInv` (a PUT that has
found no row names no receiver, the receive in hand is off the list, one about to
be reported is completed) and `CountInv`: payouts made, and those that workers may still make, are at most the
payments delivered and the PUTs that name the receiver.

That count is too coarse for `SoloPaidOnce`, since a replayed payment raises it.
`CalmInv` says it of the runs in which nothing fails: a PUT's task lists and holds
receives only of the receiver it names (`ServesInv`); with `Owns`, a receive
that one PUT names is never with two workers; and whoever has it ahead finds it
never paid out before, while one that was paid out is completed or with the
worker that is about to store it (`OnceInv`). `NothingIsForgotten` is preserved
beside it.

**`WithdrawalProofs`**: `Invariance`, `WithdrawalsArePaidOnce` (`SoloPaidOnce`),
`PayoutsWereBacked` (`PayoutsAreBacked`), `NoFalseClaims` (`ClaimsAreTrue`),
`WithdrawalsImplementPayout` (`ImplementsPayout`), `SubmissionsBoundPayouts`,
`NoWithdrawalIsForgotten` (`NothingIsForgotten`).

`IInv` is `TypeOK` with what a row's status says of the submissions, payments and
payouts behind it (`RowInv`), what a session and the observer hold (`SessionInv`,
`ObsInv`), and `CountInv`: the payouts of a withdrawal, plus the one its status
or the observer still allows, are at most its submissions that have ended. Each
submission puts the row back to `awaiting_stellar_payment` at most once, and only
from there can the observer take it; that is the whole reason why replayed
payments pay nothing twice. `NoWithdrawalIsForgotten` adds that a withdrawal in
`awaiting_offchain_payout` is the observer's: a form never leaves that status
behind, and where nothing fails the observer lets go of it only at a report.

**`CustomersProofs`**: `Invariance` (`Spec => [](TypeOK /\ IInv)`), `TwinsComeFromOverlap` (`TwinsAreConcurrent`),
`FieldsComeFromTheirOwner` (`FieldsWereGiven`), `NoUpdateIsLost`
(`AnsweredIsStored`), `AcceptedIsStable` (`PassedStays`).

`IInv` adds to the four properties what links a row to its calls: what a call has
seen exists (`SeenAreBorn`), a call that found nothing saw no row of its identity
that is there now (`NoneWasSeen`), nor did the call that inserted a row
(`MakersSawNone`), and what a call found is a row of its identity
(`FoundIsNamed`).

**`ObserverProofs`**: `Invariance` (`Spec => [](TypeOK /\ Parts)`),
`PaymentsServeOneTransfer` (`OneTransferEach`), `PaidTransfersHavePayments`
(`TransfersArePaidFor`).

Every action is an action of one kind, or of both, or changes neither
(`StepsOfWithdrawals`, `StepsOfReceives`), so `Parts` carries the inductive
invariants of `Withdrawal` and of `Sep31` over; all it takes is that the payment
a receive is looked up for is one of the log. `PaymentsServeOneTransfer` adds
`FreshInv`: until a stream is opened again every payment in use has been
delivered (`Seen`), the one being looked up is the latest and nobody's, and no
two transfers hold one (`Fresher`). Faults do not disturb it: a broken stream, a
crash or a failed lookup only takes payments away from whoever was about to get
them. In `PaidTransfersHavePayments` every withdrawal or receive that was paid
out holds a payment, for the platform was told of one before
(`PaidWithdrawals`, `PaidReceives`, from `Parts`); by `FreshInv` no two hold the
same, so they map one to one into places of the log (`PlacesOf`), and a set of
places of the log has at most `Len(log)` members.

**`RateProofs`**: `SellForPaysOut` (for every amount, what `SellFor` asks to sell
has exactly what was to be bought as its `amount_out`: the two roundings never
differ by a stroop), `QuotesAreHonouredByDeposits` (`DepositsHonourQuotes`),
`Invariance` (the three numbers are natural and add up), `DirectionsAlwaysAgree`
(`DirectionsAgree`).

Every safety property of every passing run, invariant or action property, is
thus proved. Only model-checked is liveness, which is beyond the prover:
`SubmittedIsResolved`, `PlatformHears`, `MatchedIsHandled`, `ResumeSettles`,
`AwaitedPaymentCompletes` and `AwaitedReceiveIsHandled`. Where nothing fails
`NothingIsForgotten` of the three kinds is the safety half of those: somebody is
always about to take the next step.

## 6. Not modelled

- Authentication and tokens (`callback_auth.rs`, `jwt.rs`,
  `verify_interactive_token`): stateless checks before the handlers.
- Rendering: the form's page and JSON answers, other than which fields are
  missing (`ShowForm`, `Answer`).
- Single KYC fields: `Customers` takes them in the groups that are given
  together, `Sep31` as the constant `Field`, and `Deposit` knows only whether the
  payee has a row: the form asks for what is missing, and nothing checks what
  it brings.
- What a withdrawal's fee would be: its payout is of `amount_in`.
- Amounts with more than seven decimals or below zero, other than as amounts
  that Stellar cannot express (`Amount \ Sendable` in `Deposit`).
- What the platform does with a PATCH that comes late or never: that is outside
  `src/`. The models let it come at any time after the insert, or not at all.
- The database pool's limit: a statement that gets no connection fails like any
  other.
- Calls that never return. No call has a timeout, so without that assumption
  nothing can be promised of any task.
- Account ids, HTTP, logging, configuration.
- The five-second wait before a reconnection, beyond its order.
- The smoke examples: clients of the program.

`Customers` and `Sep31` are not composed: `Sep31` knows receivers by id, with
rows of one type, which is all its tasks look at. That an identity may have two
rows, of which only one is named by a receive, shows there as a receiver whose
row gets no further PUT.

## 7. Further work

In the order of what it would add:

1. `Customers` composed with `Sep31`, so that `KycGate` speaks of identities.
2. A bound on what failures can cost: after `k` faults, at most `k` more payouts
   than payments, over both kinds.
3. Larger instances of `Observer`, with two PUTs of one receiver beside a
   withdrawal.
