# THOrs in TLA+

THOrs is a Rust service that takes and makes Lightning payments. It talks to two
LND nodes over gRPC, "Alice" who receives and "Bob" who sends, keeps every
transaction in PostgreSQL, serves a REST API and a Leptos web page, and tells the
page of every change through server-sent events. This directory holds its
specification: TLA+ modules translated from the source, TLC configurations that
check them on small instances, and TLAPS proofs of what matters most for every
instance. Paths below are relative to the repository.

## 1. Inventory

| Component | State it keeps | Operations | Correct when |
|---|---|---|---|
| Database (`migrations/`, `src/server/db.rs`) | `transactions`, one row per (type, hash); `balance`, one row | insert, update status, upsert; a trigger on every write of a status | a final row never changes; `balance` counts each succeeded row once, with the fee of a payment |
| Payment path (`api.rs:102-188`, `functions.rs:75-140`, `lnd.rs:72-110`) | one tokio task per request; the Mutex of the sending client | decode, check, insert, send, save, broadcast | LND is called once per invoice; the row never says more than the node; every answer is true; no error leaks the Mutex |
| Invoice path (`background.rs`, `main.rs:42-53`) | the position of one background task; LND's stream | list and sync at start-up, subscribe, handle a report, reconnect | the rows mirror the node; each change is broadcast once, in order |
| Invoice creation (`api.rs:57-81`, `functions.rs:47-72`) | none (the Mutex of the receiving client) | check the amount, add the invoice | nothing is written here: the row comes from the report |
| Event feed (`sse.rs`, `dto.rs`, `use_websocket.rs`) | a broadcast channel of 100 slots, one receiver per browser | send, receive, lag, reconnect | a browser sees events in order, and misses only what the channel dropped |
| Transaction list of the page (`transaction_list.rs`) | a vector of transactions | load the newest 50 once, update on each event | it ends up showing what the database has |
| Balance summary (`db.rs:174-241`, `api.rs:231-242`) | none | six SELECTs | what it adds up existed at one moment |
| Listing (`db.rs:94-110`, `api.rs:209-227`) | none | one page by limit and offset | a client that walks through the pages misses no row, although the list grows at its head, but those a page parts from others of one `created_at` |
| BOLT#11 decoder of the page (`components/functions.rs`) | none | amount, expiry, tagged fields | what it finds, and how the page words it, is what BOLT#11 says; it refuses only what is wrong |
| Panels (`send_panel.rs`, `receive_panel.rs`) | signals; a nonce by which starting one panel clears the other | type, submit, clear, answer, copy | a late answer is never taken for that of a later call; a button does not stay disabled |
| Start-up (`main.rs`, `initialize.rs`) | none | configuration, migrations, connections, wiring | the listing precedes the subscription |

How they interact: a request task and the background task share the database
pool and the broadcast channel, and nothing else; request tasks that pay share the
Mutex of `lnd_send`, which is held across each RPC. The invoice path learns of
invoices only from Alice's stream, also of those THOrs itself created. The page
calls the two server functions, and refreshes from the events.

What is hard: two requests for one invoice; the window between `INSERT` and
`UPDATE`, in which LND works, the client may go away (axum drops the task at
the await it is in), the RPC may fail with the payment still under way, or the
process may die; a trigger that looks at the new row only; a snapshot followed
by a subscription without replay; reports lost with a stream; a channel that
drops; a page that loads once. `PROJECT.json` lists each at its line.

## 2. Plan

| Order | Module | What | Abstract specification | Proofs | State |
|---|---|---|---|---|---|
| 1 | `Ledger` | tables, unique key, trigger | | lemmas in `LedgerProofs` | done |
| 2 | `Payments` | payment path with faults | `PayOnce` | `PaymentsProofs`: invariant, safety, refinement | done |
| 3 | `Invoices` | invoice path with faults | | `InvoicesProofs`: invariant, safety, final rows | done |
| 4 | `Commits`, `ByDate`, `Feed` | channel, SSE, transaction list | | `FeedProofs`: invariant, `NeverAhead`, `PageCaughtUp` | done |
| 5 | `Commits`, `BalanceSummary` | the summary's statements, the panel | | `BalanceProofs`: `CountsOnce`, `PaidOnRecord`, `PanelTrue` | done |
| 6 | `Thors`, `ByDate`, `Listing` | both writing paths in one process, over one ledger; pages of a growing list | `Commits` | `ThorsProofs`: both invariants, refinement, final rows; `ListingProofs`: lemmas for `NoneSkipped` | done |
| 7 | `Bolt11` | the decoder of the page as functions | BOLT#11 amounts, expiry, tagged fields | `PanelsProofs`: `AmountsExact`, `MessageExact`, `BigEndianExact`, `ExpiriesExact`, `DecodeExact` | done |
| 8 | `Panels` | the two panels of the page | | `PanelsProofs`: `AnswersTheLast`, `CopiedIsShown`, `TypeOK`, `PreviewExact` | done |

What is left: two paths read and write one table, and no theorem yet says what a page
shows of the *server*; that takes `Thors` and `Feed` together, `CommitsRefinement` being the
link.

## 3. Modules and code

**`Ledger`** is the database. `tx[<<type, hash>>]` is the row under the unique key
`(tx_type, payment_hash)`, reduced to `status` and `fee_sats`, the two columns
that change after insertion and that anything depends on. The single row of
`balance` is kept as what it has been credited *for each key*: the columns
`received_sats` and `paid_sats` are the sums over the invoices and over the
payments. Invoices ask for msat (`AmountMsat`); what is stored, and booked, is LND's
`num_satoshis`, which is cut to whole sats (`AmountSats`). The trigger adds without looking at what it has added before, so the
decomposition loses nothing, and it lets `BalanceExact` be stated, and
proved, row by row. One SQL statement is one step. `upsert_transaction` has three
statements, and is one step nevertheless: a single task calls it (start-up sync,
then subscription, in sequence), and nobody else writes invoice rows.

**`Payments`** has one process per request. `pc[r]` is the await the request is at,
or the answer it ended with:

| `pc` | code |
|---|---|
| `decode`, `decoding` | waiting for the Mutex of `lnd_send`; inside `DecodePayReq` (`lnd.rs:72-88`) |
| `check` | the `SELECT` of `pay_invoice` (`api.rs:117`); `pay_invoice_fn` has none |
| `insert` | `create_transaction` (`api.rs:136`, `functions.rs:97`) |
| `send`, `sending` | waiting for the Mutex; inside `SendPaymentSync` (`lnd.rs:90-111`) |
| `saveFailed` | the update to `failed`, of `pay_invoice` only (`api.rs:141-158`) |
| `saveSucceeded` | the update to `succeeded` (`api.rs:160-177`, `functions.rs:111-128`) |
| `publish` | the update is committed, the broadcast has not run |

`kind[r]` is the entry point; both are in one module because they share every
resource, and differ in three steps. `lndPay`, `lndFee` and `calls` are the sending
node as the code uses it: a payment it has taken on resolves whether or not
anybody still listens. `maker[h]` is the request whose `INSERT` put the payment on record; the
liveness properties excuse what *it* broke, and not what another request for the invoice did. It may
also end `unmarked`: the payment failed, and the update that should say so failed too, an error
`api.rs:149` ignores. Faults, each a constant that a configuration can leave out:
a statement fails (`db`), the node refuses a call or its answer is lost (`rpc`),
axum drops the task because its client went away (`drop`), the process dies
(`crash`).

**`PayOnce`** is what the payment path promises about one hash, without requests,
locks or faults: on record, then asked once, then the node's verdict on record,
then announced at most once.

**`Invoices`** is the background task and the receiving node. `phase` is where the
task stands, from start-up (`down`, `list`, `sync`) to the loop (`subscribe`, `stream`,
`publish`, `backoff`); `batch` is what the listing found and has still to be
upserted, `stream` what LND has reported and the task not read. `lost` is a
history variable: the invoices whose last change will not reach the task before it
lists again. LND is taken to report each change to whoever is subscribed, in
order; with the fault `silent` it need not (LND documents its stream for
additions and settlements only). `Outlook` is the last word the task has on an invoice: the
last report in the stream, else what it has listed, else the row. `InvoicesInv` at the end
of the module is the inductive invariant of its proofs; `Payments`, `Feed`, `Listing` and
`BalanceSummary` have one each as well.

**`Commits`** is what the readers see of the two writing paths: a status is
committed, and for every change of an invoice and every success of a payment an
event follows, unless the start-up sync made it or an error came back for it
(`CommitUnheard`). `CommitsSpec` is an abstract specification: `Thors` is shown to implement
it, and `Feed` and `BalanceSummary` take its steps for those of the writers. **`Feed`** adds the broadcast channel, the SSE endpoint and the
transaction list of each page, which loads the newest `LoadLimit` rows (50 in the code,
`transaction_list.rs:33`); `stale` (history) holds the transactions whose last change a page has not
got and will not hear of, be it a lost event or a row beyond the limit, and why is in the action that
adds to it.
tokio rounds the 100 slots of the channel up to 128; the model has `Capacity`.
**`BalanceSummary`** adds the summary's statements and the balance panel. The panel
takes an event for nothing but a reason to call again, so its channel is a
number; a sum is the set of rows that it adds up. That an answer to an earlier
call is not shown once a later one has begun is Leptos' behaviour
(`LocalResource`), not this repository's. Likewise that effects run between
two messages of an event source, which makes `Receive` and `Trigger` one step.

**`Thors`** is the server: it extends `Payments` and `Invoices`, which share `tx` and `balance`
(both extend `Ledger`) and nothing else. Requests arrive when the sync is over (`Serving`), each step of either
path is interleaved with those of the other, and `Crash` is one death for both. Its
`Outbox` is what `Commits` calls `outbox`: the event between a commit and its broadcast,
found in `toSend` and in the requests at `publish`. **`ByDate`** is the table as
`list_transactions` hands it out, and both its readers extend it: `created` is the `created_at` of each
row, given by its `INSERT` and kept by later writes (`Stamp`). It is not unique, and as `NOW()` is taken
when the `INSERT` begins, a row may be committed after one with a later `created_at`. `ORDER BY
created_at DESC` has no tie-breaker (`db.rs:102`): rows of one `created_at` come in any order, and in another
the next time, so a SELECT has a set of answers (`ListTransactions`). **`Listing`** is a client that walks
through the pages, test_api.sh's and README.md:366's, a reader who raises `offset` by what it
has received. Where a page ends among rows of one `created_at`, the next may repeat some of
them and skip others: `split` (history) holds those a page has left out in this way, the
only ones a walk can miss.

**`Bolt11`** is `components/functions.rs` on data cut to what it tells apart: an HRP is its
prefix, number and multiplier, a payment request the 5-bit words without the
signature. A loop over an index is a recursive function on the same index (`Packing`, `Values`,
`FieldsFrom`); guards that overlap are an IF chain in the order of the code; the arithmetic
(division, `checked_mul`, a `u64` that loses its upper bits, a bit accumulator) is as in the
code. `FieldsFrom[i]` is what the rest of the loop makes of the words from `i` on: of two
errors it does not matter which is found, as the page treats all alike. The last part of the
module says what BOLT#11 says of a request, from the fields it was composed of: `Octets` picks
each bit of a message by its position, `Number` is a sum of place values, `Whole` and `LastOf`
find fields by their number and not by their place. Nothing of it models code. Two things say
themselves. What UTF-8 is (`IsUtf8`, table 3-7 of the Unicode standard) stands once, for what
`String::from_utf8` accepts and for what BOLT#11 asks of a description. And the decoder refuses some
amounts that BOLT#11 allows and that fit a `u64` of msat: it reads the number as a `u64` before
it looks at the multiplier (`functions.rs:167`), and with `p` the number is ten times the
msat. That is said by name, `TooLong`, and is no part of `Unpayable`; such an amount is of 18 million
bitcoin and more.
**`Panels`** has the state of both panels and one action per handler; `paying` and
`creating` are the calls under way, numbered, and what a panel shows is the number of
the call it came from. An effect (the clearing of the other panel) runs before the next
event of the browser, so it is part of the handler's step.

Definitions named "Mutant of ..." are plausible mistakes in the code they stand
beside; none is part of a specification. They serve to see each property fail.

## 4. Runs

| Run | Asks | Result |
|---|---|---|
| `payments_faults` | Three requests, two invoices, both entry points, every fault at every await: all safety of the payment path, `PaymentsInv`, `PayOnce` | holds |
| `payments_live` | Three requests for one invoice, every fault: every request is answered; what is paid is on record and announced, and a row does not stay pending, unless the very request that made it broke, or its payment failed and the update that marks it failed too, or was never made, the request having come from the page | holds |
| `payments_fn_failure` | README.md:87, "result is saved to PostgreSQL" | violated: `pay_invoice_fn` returns on a payment error without saving it; the row stays `pending` |
| `payments_duplicate_race` | README.md:460, paying twice is answered with 400 | violated: two requests that both pass the check; the second gets a database error (500). It does not pay |
| `invoices_faults` | Two invoices through every state, every fault: the mirror is exact but for known losses, events are in order and unrepeated over restarts; what is not lost gets on record, and the task gets back to the stream unless it dies | holds |
| `invoices_gap` | background.rs:77 and README.md:89, a change of state is upserted | violated with nothing failing: settled between the listing and the subscription |
| `feed` | A page loads and listens, every fault: it shows nothing the database does not have, and misses only what it lost or what was beyond the limit of its load | holds |
| `feed_load_race` | transaction_list.rs:11-13, no refetch needed | violated with nothing failing: an event broadcast after the load's SELECT and before the page subscribes reaches it neither way |
| `balance_summary` | Six statements outside a transaction and a panel that calls again: nothing is counted twice, and the panel ends up exact | holds |
| `balance_total` | models.rs:178-180 and README.md:377-379, total = received - paid | violated: the total is pending received - pending paid |
| `thors` | One `POST`, one invoice, both paths, every fault, a client with pages of one row: together the paths implement `Commits`; no row is skipped but one that a page parted from another of its `created_at`, and one comes twice only in the place of such a row or when another has pushed it down | holds |
| `page` | Some ninety payment requests, with messages in UTF-8 and out of it, two calls of each panel: the preview is exact, late answers do no harm, buttons are enabled again | holds |

What the passing runs taught about the code, beyond that it is right: the only
thing that keeps an invoice from being paid twice is the unique key (the
check before it is a courtesy); `BalanceExact` and `InvoiceRowsFinal` hold because of
the order in which reports come, not because of the upsert or the
trigger, which would both do wrong with a late report; a page may show an
event older than its snapshot for good, if the newer event was lost before the
page loaded (`Feed`, found by `PageCaughtUp`); and the balance panel, unlike the
transaction list, survives a full channel, because one event is as good as all. A late
answer is harmless in the panels only because clearing a panel leaves its button disabled. A walk
through the pages is complete only as far as `created_at` tells rows apart, and what is booked falls short of what
LND charged by up to two sats a payment, one from the amount and one from the fee.

## 5. Bounds, and why they are enough

- *Requests and hashes.* Two requests race for one invoice; the third is the one
  that finds what they left, or waits for the Mutex they hold. Two invoices, because
  requests for different ones share the Mutex and the balance. Requests are
  interchangeable (symmetry); entry point and invoice of each are chosen freely
  in `Init`. The proofs need no bound.
- *Amounts and fees.* 3999 and 5000 msat, and a fee of 1999 msat, so that both truncations
  lose as much as they can; and an answer without a route. For the proofs any natural numbers.
- *Invoices.* Two, each through all its states: the task's losses concern one, the
  second is there for reports and listings that interleave. Streams are as
  long as the changes there are (at most six).
- *Feed.* A page, an invoice and two payments have four events, the channel two
  slots: it overflows. The load takes one row of up to three, which are of one `created_at`, so that any
  one of them may be what it gets. Pages share nothing but the channel's sender, so one will do.
- *BalanceSummary.* An invoice and a payment have three events, the channel two
  slots. No property relates two payments.
- *Thors.* One request and one invoice: two rows, and an event of each path between its
  commit and its broadcast. What two requests do to each other is the matter of
  `payments_faults`; rows are independent in `Commits`, but for the invoices' one task. Two
  rows and pages of one are enough for a row to be pushed down between two pages, and two values of
  `created_at` for rows in order, out of it, and parted at the same one. The request is a `POST`; `pay_invoice_fn` is in
  `payments_faults`, and in the proofs.
- *The decoder.* Numbers are scaled: from one multiplier to the next it is 20, not 1000, and
  `u64` has 15 bits (TLC computes with 32), so that every multiplier meets a number that
  just fits and one that does not. Expiries have up to four words, so one loses its upper
  bits. The fields are those that decide a branch: empty, one word, ends with a byte, a bit
  set in the padding, twice the same tag, an unknown one; and one request is cut
  short after each word. Messages have characters of one byte to four, and the ways not to be UTF-8: cut short, out of
  place, written too long, a surrogate, beyond the last character. The least number that is `TooLong` is
  among the amounts. The proofs are for any timestamp and fields, cut anywhere, and for any
  `u64` of a multiple of 32.
- *Panels.* Two calls each: an answer and the call it could be mistaken for.
- Restarts, cuts and retries are not bounded. `calls`, `published`, `events` and
  the channels have no guard on them either: they are bounded by what
  can happen.

Every request is handled once, so that a behaviour can end; a client that tries again
is another request.

## 6. Fairness

Weak fairness of each request's own steps and of the background task: tokio polls
every ready task, and PostgreSQL answers or fails. A tokio Mutex is granted in order
of arrival, so waiting for it ends; the model needs less, as requests
are finitely many. Weak fairness of `Resolve`: LND times every payment out. Strong
fairness of `Subscribe`: a node that is asked every five seconds, without end, accepts
in the end. Weak fairness of an open page's connection (`reconnect_limit` is infinite)
and of its load, and of the answers to the panels' calls: a browser settles every `fetch`, with an
answer or an error. No fairness of anything a person or a fault does: requests need not
arrive, invoices need not be paid, pages need not be opened.

## 7. Proofs

Assumptions: amounts in msat are natural numbers (`AmountAssumption`: `create_invoice` refuses
others, LND's are not negative); `Null` is no number, hash or request, and no event of an
invoice (`NoEventAssumption`); `None` and `Invalid` are nothing that they stand beside
(`NoneAssumption`, `InvalidAssumption`: `Err`, `None` and `Some` are three things); what is put
into the box has an HRP, and data that is a timestamp and any fields, cut short somewhere,
which all data is (`TextsAssumption`); `U64` is a multiple of 32; entry points are the two
there are, fees are natural numbers or absent; a channel holds at least one event; a page of the
listing, and the load of the page, have at least one row; `created_at` is an integer; no transaction is both invoice and payment; from one multiplier to
the next is a multiple of 10. Nothing is assumed of the sets of requests, hashes, pages
and amounts, nor of which texts there are, not even that they are finite, and nothing of `Faults`.

**`LedgerProofs`** has the lemmas on a single statement: what `Store` keeps of
`LedgerTypeOK` and `BalanceExact`, that writing `succeeded` is sound exactly
over a row that is not, and what the upsert does.

**`PaymentsProofs`** proves `PaymentsInv` inductive, one step per action. The properties by
themselves are not: that LND is called once does not say why the second request
cannot get there. `Owned` says it: a request between its `INSERT` and its update owns
its invoice (the row is pending, nobody else is there for the same hash, and
the call has been made exactly if the request is past it). Only `InsertPending` takes
ownership, and the unique key lets it do so once. `NodeFollows` ties
the node to that (no verdict without a call, no call without a row), `Published`
the broadcast to the row, `FeesBooked` the row's fee to the one LND charged, for
`BooksMatchNode`: what is booked is never more than was charged, and less than two sats short of it. From the invariant follow the safety properties (`PaysOnce`, `RecordsFirst`,
`TruthfulRows`, `HonestAnswers`, `ExactBalance`, `NoLeakedLock`, `BooksAgree`), that no step
rewrites a final row (`FinalRows`), and `Refinement`: each action maps to one of
`PayOnce` or to a stutter, with `record`, `node`, `asked` and `announced` the row's
status, `lndPay`, `calls` and `published`.

**`InvoicesProofs`** proves `InvoicesInv` inductive. The upsert writes any status over any
other and the trigger credits every `succeeded`; why that does no harm is in what may still
be upserted. `Leads` is the order of an invoice's life. Whatever is listed or in the stream
is a state from which the node's can have come (`Sound`), reports of one invoice are in that
order (`StreamSound`), and a final row has nothing but its own status to come. So a row is
written `succeeded` over something else once (`InvoicesBalance`), and none is rewritten that is
final (`FinalInvoiceRows`). `CaughtUp` is inductive with that: every action that
takes a word away from `Outlook` either writes it into the row or adds the invoice to
`lost`. `ToSendSound` says that the event on its way is of the last write and newer
than those broadcast, for `OrderedEvents` and `RecordedEvents`. Restarts need no
argument of their own: a crash only empties `batch` and `stream`.

**`ListingProofs`** proves `ListingInv` inductive under `Stored`, `Begin` and `NextPage`, for rows out
of any set, any `created_at` and any limit. A row the client has still to receive is `Unread`: at least as many
rows are newer than it as have been received, so it lies beyond the offset whatever the order among
equals. Nothing removes a row or gives it another `created_at`, so that number only grows. Where a page ends,
each row that has not come has enough newer ones (and stays `Unread`) or is of the `created_at` at which the
page ends, and goes to `split`. A row with fewer newer ones than have been received is thus received, parted
or come since, and there are at least as many of these as have been received, which bounds the
repetitions.

**`ThorsProofs`** puts the paths together. Each invariant reads `tx` and `balance`, and each step of
the other path writes them, so neither is kept for free: `PaymentsInv` looks at keys
`<<"payment", h>>` only, `InvoicesInv` at `<<"invoice", h>>`, what both say of the whole table
(`LedgerTypeOK`, `BalanceExact`) is kept by each statement (`BothInvariants`).
`CommitsRefinement` maps a row's status to `status` and the event between a commit and its
broadcast to `outbox`. That an invoice is written only when no invoice's event is outstanding
is where the task stands (`Staged`); that a status is one that can follow the last is
`Sound`; that a payment's event is not outstanding twice is `Owned`. The refinement is what entitles
`Feed` and `BalanceSummary` to start from `Commits`. `CompleteWalk` and `FinalStatuses` are about the
server as a whole: the rows a step writes are those the listing takes in.

**`FeedProofs`** proves `FeedInv`. `PageCaughtUp` is not inductive, as it speaks only of what a page
has at the end. Of each transaction that the page has not lost an event of, either
an event is still to be sent, or the last one on the way is current (`LastWord`),
or none is on the way and the snapshot, or the list, is (`SnapshotCurrent`). A channel
drops its oldest event, which is the last word on a transaction only if no other event of it
follows. `NeverAhead` needs that everything on the way is of the past
(`AnswerBehind`, `ChanBehind`). All of it is for any `LoadLimit`: what the load leaves out for good, it puts
into `stale`.

**`BalanceProofs`** proves that what a call has found paid stays paid (no commit
starts from a final status), so that what it then finds pending was not among it
(`CountsOnce`). `PanelTrue` says why a summary of statements of six moments is exact in the end:
what a call has read of a transaction, and what the panel shows, is what the
database has, unless an event of it is due (`ExactInv`); and a due event has a
tick behind it, which brings another call. The history `due` holds the transactions whose
event is sent and not yet acted on; a channel that overflows loses none, as it is full.

**`PanelsProofs`** proves that a call of a panel under way is its last (`LateAnswersHarmless`): what is
cleared is cleared with the button disabled, so none starts before the answer. `PreviewOfRequest`
says that what is under the box is what the decoder makes of the text in it, whatever the
decoder is; the rest of the module is about the decoder, and ends in `DecodeExact`: for every
payment request, `Exact(text, Decode(text))`. From both follow `PreviewsExact` and
`TypeCorrect`, since the panels only ever show what was decoded. Its parts:

- *Induction.* A recursive function is first shown to exist (`RecursionExists`: one that is
  determined on each rank by those below is there for all ranks up to `n`), so that
  its defining equation may be used; a statement on numbers holds for all of them if the set of
  those for which it holds contains 0 and each successor (`NatSetInduction`, `UpTo`). Both come
  from the well-foundedness of `<`.
- *Messages* (`MessageExact`). After `i` turns of `five_bit_to_bytes` (`PackedTo`), `bits` and eight for each
  octet shifted out make up `5 * i`, the octets are those at their positions, and the low `bits`
  bits of the accumulator are the bits behind them, whatever has been pushed out at its top.
  At the end the low bits are zero exactly if the padding is. The octets may be any, and the message is
  accepted exactly if they are UTF-8, of characters of any length.
- *Expiry* (`BigEndianExact`, `HornerPrefix`). The value after `k` turns is what the first `k`
  words spell modulo `U64`. That the shift is a product and the addition carries nothing takes
  `U64` to be a multiple of 32: `(v * 32) % U64` is one again, and leaves room for a word.
- *Fields* (`FieldStep`, `FoundAll`), by induction from the last field to the first. At the
  beginning of a field the loop finds its tag and length and jumps to the beginning of the
  next (`32 * (n \div 32) + n % 32 = n`); a field that is cut short, in its header or its
  data, is refused, and nothing else is but a message that is no text. Of two fields of one
  kind the later one is the last.
- *Amounts* (`AmountsExact`), for every number, every multiplier, every `Milli` (1000 in
  the code) and width of `u64`: right to the msat, and refused exactly if no `u64` has it or the
  number itself has no place in one (`Unpayable`, `TooLong`).
- *Wording* (`ExpiriesExact`): days, hours, minutes and seconds add up to the expiry.

In all of them the proof of a step has one case per action. A conjunct that an action
does not touch is got by its frame.

## 8. Model-checked only

Every invariant and every action property of a passing run is stated by a theorem of section 7,
which leaves:

- All liveness (`Answered`, `PaidIsAnnounced`, `PendingResolves`, `RecordedOrLost`, `Reconnects`,
  `SuccessShows`, `PaidShows`, `LoadingEnds`): it rests on fairness and ENABLED.
- The runs that end in a violation: a counterexample needs no proof.

## 9. Not modelled, and why

- Preimage, failure reason, description, timestamps, JSON and HTTP: no property here
  tells their values apart. The two statements for the time of the last update.
- The connection pool (a wait for a connection that fails is the fault `db`);
  the `i64` overflow of a sum (21e14 sats exist).
- The order of the entries in the page's list and the expanded row. The
  lookups by hash, which read one row and keep nothing.
- Bech32 itself (case, checksum, the prefix `lightning:`), which is a library's or decides
  nothing but an error; the page being loaded anew.
- Of `POST /api/invoice`: the Mutex of the receiving client and the check of the amount.
- Configuration, TLS, migrations, wiring: a sequence that ends in a running server or
  in exit. What matters of its order, the listing before the subscription and both
  before the server, is in `Invoices` and `Thors`.
- Layout, styles, the generated schema, the QR code.
