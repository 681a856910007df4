# Oracle BIP reconciler: TLA+ models and proofs

The service takes a batch of invoice lines read off a remittance advice, finds
out which customer it belongs to, fetches that customer's invoices and receipts
from Oracle BI Publisher (BIP), and binds each line to at most one row of the
ledger. These modules model its control: how a report is fetched once for many
callers, how the customer is discovered by queries that run side by side, how
lines are bound to rows, how a batch is answered and sent again, how the cells
that are compared are read, and what a request passes on its way in and out.
TLC checks them on small instances; TLAPS proves the safety properties for every
value of the constants.

Paths below are relative to the repository's root; `src/services/...` is the
package's own `src` directory.

## 1. The system

| Part | State | Operations | Talks to |
|---|---|---|---|
| Report fetch and cache, `services/oracle_bip.py` | `AsyncCache.local`, Redis, `_inflight`, the future of each flight, the retry count of each call | `fetch_bip_invoices`, `fetch_bip_receipts`, `_run_bip_report`, `_fetch_once`, `_post_bip_report`, `AsyncCache.get/set` | Oracle, Redis; every request of the worker shares the cache and the flights, all workers share Redis |
| Customer discovery, `services/discovery.py` | level, chunk of tasks, `discovered_candidates` | steps 1 to 3, `asyncio.as_completed`, cancel and `gather` | the report fetch, whose tasks it cancels |
| Invoice matching, `map_ledger_to_payload` STEP 4 | `mapped` of each ledger row, the rewritten lines | the tiers, `_apply_invoice_mapping` | gets both ledgers from the batch |
| Receipt matching, `map_ledger_to_payload` STEP 3 | the payload's header | `_apply_receipt_mapping` | as above |
| Batch orchestration, `process_reconciliation_batch` and the endpoint | the payload; the client keeps what it was answered | blanking of the fusion fields, discovery, two ledger fetches, mapping, error to status | all of the above |
| Readers of cells, `utils/validators.py`, `utils/date_formatter.py` | none | `sanitize_float_val`, `format_oracle_date`, `_is_num_ok` | make the keys that both matchings compare |
| The way in and out, `main.py`, `core/middleware.py`, `core/dependencies.py` | the byte count and the flag of a body, the hits of each bucket (in Redis for the service, else in each worker), `REQUEST_COUNT` | `RequestBodyLimitMiddleware`, `require_public_access_opt_in`, `rate_limit_key`, the metrics, the exception handlers | the web server, the batch endpoint |
| Cache key, report parsing | none | pure functions | |
| Settings, request ids, CORS, logging, probes | values read at start-up | | |

What is hard in it:

- **One thread, many awaits.** Requests share `_inflight` and the cache. Between
  two awaits nothing else runs; at each await anything may. A call may join a
  flight, retry after a sleep, be cancelled, or find that another call has filled
  the cache meanwhile.
- **Cancellation crosses requests.** Discovery cancels the tasks it no longer
  needs; a task may own a flight that calls of other requests wait on.
- **Failure.** Oracle may be busy, fail, have no report at a path, or not answer;
  Redis may fail before or after it applied a write.
- **Order.** Answers of a level arrive in any order and the first two customers
  stop the reading. The rows of a ledger come in an order that must mean nothing.
- **Time.** Cache entries lapse while calls hold what they read.
- **Two ways to answer.** A body that runs over the limit is answered from below
  the application, which goes on and answers too.
- **Spelling.** One text may be read as several amounts or several days.

What makes each part correct:

- fetch: one request to Oracle per report and worker; everybody who waits is
  answered; a failure is not kept; nobody gets a cache entry older than the time
  to live; only those concerned are cancelled.
- discovery: no customer is chosen while an answer that could contradict it
  failed or went unread, whatever the order; no task is left running.
- matching: no row is used twice, nothing is chosen by position, the reported
  rule is true, a reconciled batch reconciles to itself.
- receipt and batch: the receipt named was found in this round and is undisputed,
  the caller's own fields are kept, a batch that is sent again does not wander,
  every status has its cause, no fetch is left running.
- cells: a text is read in the one way it can be meant, or not at all.
- requests: every request taken up is answered once, a batch runs only for those
  admitted, nobody exceeds the quota of a limiter by what it claims to be.

`PROJECT.json` lists every component with its status, and the hazards, each at
its line with the properties that watch it.

## 2. The modules

| Module | Models |
|---|---|
| `BipFetch` | `oracle_bip.py`: retry, cache, single flight, path walk, cancellation |
| `MCBipFetch` + `Fetch*.cfg` | its instances |
| `BipFetchProofs` | its theorems |
| `Discovery` | `discovery.py` |
| `Identify` | what discovery promises: a level is decided by all its answers together |
| `MCDiscovery` + `DiscoveryChunks.cfg` | the instance of `Discovery`, with `Identify` as a property |
| `DiscoveryProofs` | its theorems, the refinement included |
| `LedgerMatch` | STEP 4 of `map_ledger_to_payload` in `reconciliation.py` |
| `MCLedgerMatch` + `Ledger*.cfg` | its instances |
| `LedgerMatchProofs` | its theorems about one line at a time |
| `LedgerOrderProofs` | its theorems about the whole loop: order and resubmission |
| `ReceiptMatch` | STEP 3 of `map_ledger_to_payload`, as operators |
| `Batch` | the endpoint and `process_reconciliation_batch`, with `ReceiptMatch` inside |
| `MCBatch` + `BatchRounds.cfg` | its instance |
| `BatchProofs` | the theorems of both |
| `Amounts` | `sanitize_float_val`, as operators, and the spellings its docstring names |
| `Dates` | `format_oracle_date`, as operators, and every reading a date allows |
| `Cells` | one cell being read, with `Amounts` and `Dates` inside |
| `MCCells` + `Cells*.cfg` | its instances |
| `CellsProofs` | its theorems |
| `Requests` | the layers of `main.py` around the batch endpoint and the routes without a body |
| `MCRequests` + `RequestsServed.cfg` | its instance |
| `RequestsProofs` | its theorems |

Operators marked *wrong on purpose* are mutated forms of the definition that
follows them, each the kind of mistake a change to the code could make. They are
part of no specification; with one in place of its original the run named in
`PROJECT.json` fails.

### BipFetch

A *caller* is one call of `fetch_bip_*`. Its `pc` says where it is suspended:

| `pc` | In the code |
|---|---|
| `reading`, `gotEntry`, `readFailed` | `await self.redis.get` (before the read, after it, after it failed) |
| `waiting` | `await asyncio.shield(existing)` |
| `posting` | inside `client.stream`, for report path `path` |
| `storing`, `stored` | `await self.redis.set` (before and after Redis applied it) |
| `backoff` | the sleep of the retry decorator |

One action runs from one await to the next, so without Redis the lookup, the
check of `_inflight` and the registration are one step, as the comment on
`_fetch_once` says, and with Redis the lookup is separated from them by two
steps. `Settle` is the owner's way out (resolve the future, drop the entry,
return or raise) with no await in it. `Cancel` is `task.cancel()`: the task
raises at its next turn (`Unwind`), and until then it does nothing else. A flight
is named by its owner and attempt, and `on` remembers which flight each attempt
owned or joined; `asked`, `outcome` and `on` are history.

Rows are represented by two times: when their cache entry lapses, and when the
flight that fetched them was resolved. An entry in Redis lapses a time to live
after Redis stored it (`RedisStores`), which may be well before the reply reaches
the owner (`WriteReturns`), so a waiter may be handed rows whose entry has lapsed
already. What `FreshRows` promises a waiter is that the flight was still open
when it asked. Left out: which live entry the full local cache evicts
(any may go), a Redis write applied after its cancelled caller has unwound, and
the handler at `oracle_bip.py:326-328`, which no 404 reaches because line 308
has already continued. The default report paths are not blank, so a walk has at
least one path.

### Discovery

`receipt` and `name` are the awaits of steps 1 and 2; `level` is the point
between chunks, where nothing else of this discovery runs; `reading` is the loop
over `as_completed`; `draining` is the `finally` with its `gather`. `answer`
holds what each query of the current level came to, `read` what the loop has
taken. A report is the set of customers it names, after `_filter_data_rows` and,
for receipts, the match of their numbers. `Fold` is `casefold`: step 2 compares
folded names, steps 1 and 3 the names as spelled.

A query ends as `BipFetch` lets a call end, and so do the calls of steps 1 and 2,
which fetch the receipt report. In particular either may end `cancelled`
although this discovery cancelled nothing (`CancelBlame` there says by whose
doing), and then the discovery does. A task that this discovery cancelled is
never read: `as_completed` is no longer awaited.
The limit and the width are both 10 in `constants.py`, so in production a level
is one chunk; the model keeps them apart because the code does.

`Identify` is the same decision without chunks, tasks, an order of reading or a
cancellation halfway. Its `replies` is a table with one entry for each query of
the level. A level is decided by the customers the replies name together: one,
all queries having been answered, is the customer; two, or none, is the next
level; an error or a cancellation can only be one that a reply gave. The mapping
of `Discovery`'s property `Identifies` keeps the level and the outcome, and maps each query to
its reply once it has ended by itself (`Told`). Sending, reading, cancelling and
draining are stutters. So what is read late, or never, cannot make a difference
beyond what the table already allows.

### LedgerMatch

Cells are comparison keys: what `format_oracle_date`, `sanitize_float_val` and
stripping leave. `None` is a blank number or date or an absent amount;
`Unreadable` is an amount that is blank or cannot be read. `text` distinguishes
rows that read the same and are spelled differently, as the code compares raw
cells before it calls rows identical. `Alike` is `_is_num_ok`, any relation that
holds of equal numbers. `Bind` and `Refuse` are one turn of the loop; `Match` is
the tiers, returning the rule and the rows it settles on; the code takes the
first of them. `Run` is the whole loop as a function of a ledger and lines, for
the properties that compare two runs of it; `Taken`, its recursive part, says
which row each line takes of those the earlier lines left (`FreeBefore`). That
the actions compute it is a theorem (`LoopIsRun`). `Applied` includes the validation on assignment of `InvoiceItem`:
an unreadable amount becomes `None` and then leaves the line's own amount alone.

### ReceiptMatch and Batch

`ReceiptMatch` has no state: `Candidates` are the receipts that fit a header,
`Filled` is the header afterwards. `Within` is `_is_substring_num_ok` (letter
case aside, one contains the other, and both reach the minimum length), `Fold`
is `casefold`; the two are independent relations, as in the code. A reference
too short to be compared resembles nothing, itself included. A receipt may be
entered under another name than the one asked for, or under none: a blank name
is filled from the receipt's own, and from the discovered customer only where
the receipt has none.

`Batch` follows one client over several rounds. `discovery` is the await of
`discover_potential_customers`, `ledgers` the gather of both fetches, `invoices`
the await of the invoice report alone after step 2 brought the receipts along.
`Map` has no await in it. It may raise while the lines are rewritten (500), after
the header was filled; the client then keeps its copy. `escaped` is a
`CancelledError` that leaves `process_reconciliation_batch`; `Requests` has what
the web framework makes of it. `mine` is the client's copy and comes
back as it is, fusion fields included; `Submit` blanks those. `sent` and `last`
are history.

Discovery and the fetches are taken by their contracts: they end in any way
`Discovery` and `BipFetch` allow, and which receipts Oracle lists is chosen anew
for every report, so that a later round may see fewer receipts than an earlier
one, which a report cached by another worker makes possible. A ledger fetch
ends `cancelled` only with the request whose flight it joined; discovery never
cancels a fetch by customer name, so this takes a server that tears a request
down.

### Amounts, Dates and Cells

`Cells` has one cell and its key; `ReadAmount` and `ReadDate` are the two
conversions that `_OracleInvoice` applies to a row of a ledger; the matchings and
the validators of the models use the same functions. Currency marks, blanks and
plus signs are taken as removed. A text is a sequence of six characters: a digit,
a comma, a dot, an underscore, `e`, and `-`, which is a minus sign in front of a
number or of its exponent and stands for every other character elsewhere; `inf`
stands for a whole text that `float` reads as no finite number. The code passes
digits through in their order, so a reading is a sign and a *scale*, the number
of digits behind the point. A separator taken for the other kind is a wrong
scale. `Float` is Python's, external; a number it reads by an exponent is kept as
`scientific`, without the place of its point. `Stripped` is what is left when
the separators of the groups go, so that `1,2e3` reaches `float` as `12e3`.

A date in figures is three fields with their widths, or a year and the digits
behind it (the compact format, where `strptime` itself decides how many digits
the month takes). `FormatDate` is the check for ambiguity and the first order of
`FORMATS` that reads the cell; `Readings` is all days that any order makes of it.

The operators `Spells` and `Readings` are the references: they say what a text
can mean without following the code. `Spells` has the spellings of the
docstring. The code reads more than those, because `float` does: `1_000`, `2e3`,
and behind a stripped comma `1,2e3`, which is 12000. `AmountIsSpelled` names
these exceptions and leaves no others: a text with an underscore, and a text
with an exponent and no dot. The third is `--5`, which reads as 5 because the
sign is stripped once and parsed once more; the property does not speak of a
text that has a minus behind the first.

Left out: where the point of a number with an exponent goes, exponents behind a
separator that are beyond `float`'s range, characters that `isdigit` takes and
`float` does not (superscripts), names of months (the name says which field is
the month), the time of day, and cells that are numbers already.

### Requests

A request passes, from the outside in: the handler of last resort
(`global_exception_handler`), the limiter's layer, `RequestBodyLimitMiddleware`,
CORS, the metrics, the request id, and the router. `pc` follows it there and
back.

| `pc` | In the code |
|---|---|
| `new` | before `RequestBodyLimitMiddleware` |
| `receiving` | FastAPI's `await request.body()`, each part through `limited_receive` |
| `received`, `parsed` | JSON decoded; dependencies, then validation |
| `admitted` | the decorator of the limiter |
| `batch` | `reconcile_data_batch` |
| `respond`, `uncounted` | the response goes out, through `metrics_middleware` or past its count |
| `raised` | an exception on its way to `global_exception_handler` |

The order matters and is the framework's: the body is read and decoded (400 when
it is no text, 422 when it is no JSON) before the gate is asked (503), the gate
before validation (422), and the limiter (429) last, because it decorates the
endpoint. Beyond the limit `limited_receive`
sends the 413 itself and hands the application a disconnect; the application
answers 400, which the metrics count and `guarded_send` withholds. Exceptions,
and a `CancelledError` that leaves the endpoint, become a 500 behind the
metrics' back.

`setting` holds the switches of the configuration and whether a proxy stands in
front; the header is to be trusted only behind one, as `rate_limit_key`'s
docstring requires. `Forwarded` is what the client wrote with the proxy's entry
behind it. `used` counts the hits per bucket in a fixed window, refused ones
included, in the limiter's table: `Table(w)` is the one in Redis that all workers
share when `REDIS_URL` is set, and the memory of the worker that serves the
request when it is not (`dependencies.py:44`). As shipped it is not set, and the
service runs two workers (`render.yaml`, `Dockerfile`). `begun`, a history
variable, counts the batches of each caller in the window of its bucket, by
worker and in the whole service. `NewWindow` may come at any time. Which route,
header or body a request has, and which worker serves it, is chosen when the code
looks at it, and sizes are in units of which a few make the limit. Routes without
a body are answered by their status alone, the router's redirects (307), unknown
routes (404) and wrong methods (405) included; the metrics page and the
preflights that CORS answers pass the metrics by (`ServeUncounted`).

The batch is taken by the statuses `Batch` shows it to answer, or an exception.
Not modelled here: `RECONCILIATION_COUNT` and the latencies, request ids, the
headers CORS adds, logging, the life of the HTTP client.

Two things that the module makes visible and no property states. `X-Request-ID`
is set by a layer inside the body limit and inside the handler of last resort, so
responses of 413 and 500 lack it. And `REQUEST_COUNT` misses a declared length
beyond the limit and every 500, and has a streamed 413 as 400.

## 3. What is checked

| Run | Instance | Shows |
|---|---|---|
| `fetch_one_report` | 3 calls, 1 worker, 1 report, 2 attempts, no Redis | types, no orphan flight, one request, a resolver for every waiter, who is to blame for a cancellation, attempts are spent honestly, no refetch while cached |
| `fetch_redis` | 4 calls, two of them of one worker and report, 2 workers sharing Redis that may fail, 2 reports, local cache of 1, 1 attempt | rows are fresh through Redis, the fallback and the flight of another call, the cache is bounded |
| `fetch_ends` | fair, with retries, 2 paths, failing Redis, cancellations | every call ends |
| `fetch_cancel_isolation` | 1 worker, 2 calls | **violated**, see below |
| `discovery_chunks` | up to 4 lines, limit 3, chunks of 2, three names of two customers; fair | sole customer, causes for giving a level up, no stray query, cancellation from outside only; every behaviour is one of `Identify`; discovery ends |
| `ledger_anchored` | up to 3 rows with number and amount (one in two spellings), up to 2 lines | no row twice, order is no evidence, resubmission is stable |
| `ledger_ragged` | up to 2 rows that lack cells or cannot be read, up to 2 lines | types, no guess, the rule is true, the number is kept, twins are found |
| `batch_rounds` | up to 3 rounds, reports of up to 2 receipts of the customer, of another name or of none, a header with or without each field | types, the receipt is earned, the header is honest, answers have causes, no stray fetch, the receipt is kept |
| `cells_read` | texts of up to 5 characters and up to 4 runs between separators; dates at the edges | amounts are read as spelled but for the exceptions named, spelled amounts are read, the order of `FORMATS` decides nothing |
| `cells_finite` | the same | **violated**, see below |
| `cells_ambiguous` | the same | **violated**, see below |
| `requests_served` | 2 requests, 2 callers, 2 workers, one batch a window, body limit 1, with and without a proxy, hits in Redis or in each worker; fair | types, one answer, admission, the quota of a caller, every request is answered |

Why the bounds are enough. *Fetch*: three calls are an owner, a waiter and a
newcomer that arrives while the owner fails, the waiter sleeps and the entry is
dropped; two attempts are a first and a last. With Redis, an owner and a waiter of one
report are joined by a call for another report, which fills the local cache of
one, and by a call of the other worker, which reads what Redis was given.
`MaxClock` only bounds the clock. Without Redis it exceeds the time to live, so
that entries lapse while others are stored; with Redis it equals it, which is
enough for what was stored at the start to lapse while its owner still awaits the
reply. Callers of one worker and key are interchangeable, so the safety runs use
symmetry among them. *Discovery*: two chunks, the second one shorter; a
number of lines at, below and above the limit; two customers, one of them in two
spellings. *Matching*: three rows are the row a line should get, its twin and a
bystander; two lines are needed for one to take what the other wanted. The
three numbers make resemblance that is not transitive. *Batch*: two receipts
dispute each other; three rounds are one that binds, one that fails, and one
that binds again. References come in two spellings, as two parts of one another's
whole, too short, and blank; the receipts are entered under the name asked for,
another, or none. *Cells*: the code looks at the first group, the
groups behind it, the last separator and what follows; four runs of one, three
or four characters between separators of both kinds have all of these, right and
wrong by one, some of them with an underscore, an exponent or a stray character,
and every text of five characters has what is stranger. Dates take
fields at the edges of months, days, leap years and of the century of `%y`. The
operators were also compared with the Python functions on every cell of the
instance; the exponents beyond `float`'s range were the only difference. *Requests*: a body limit of one unit received in
parts of at most one is at, below and beyond the limit, by one part or several;
two callers of which one may claim the other's address, and a quota of one,
are enough for one to spend what is the other's; with two workers its two
requests go to one table or to two.

**Fairness.** `fetch_ends` assumes weak fairness of each call's own steps, of
Oracle and of Redis on its behalf: the event loop runs every ready task, a
request to Oracle ends by `BIP_TIMEOUT`, a sleep ends. That a Redis command is
answered or fails is a condition and not the code's doing: the client is made
without a timeout (`oracle_bip.py:52`), and a Redis that holds a connection open
and says nothing holds the call. Nothing obliges a caller to call, to cancel, or time to pass.
`DiscoveryEnds` assumes weak fairness of the discovery's steps, its queries
ending being what `fetch_ends` shows. `Answered` assumes weak fairness of the
service's steps, the end of a batch being what the former two show, and that a
client that began a body sends the rest or goes away.

**Deadlock** is checked in every run; a stutter `Finished` marks the states
where nothing is left to do.

### The disagreements found

**A cancellation that is not one's own.** `oracle_bip.py:102-103` says of a flight's waiters: "A failure reaches the
waiters too, because they would have received the same error had they issued the
request themselves." The owner hands on every `BaseException`, its own
`CancelledError` included. Discovery cancels owners (`discovery.py:138`), so a
call of another request that nobody cancelled ends cancelled, and would not have,
had it issued the request itself. `CancelIsolation` states the comment;
`fetch_cancel_isolation` violates it in a few steps: a second call joins, the
owner is cancelled and unwinds, the waiter resumes with `CancelledError`.
`CancelBlame` is what does hold, and `Discovery` shows the consequence: a
discovery may end `cancelled`, which `except Exception` in
`process_reconciliation_batch` does not catch.

**Amounts that are not finite, or raise.** `validators.py:76` says
"Coerce a cell to a finite float, or return None and log why it could not be."
`FiniteOrNone` states it and `cells_finite` violates it. A negative cell is
returned before its finiteness is looked at (`validators.py:150`): `-inf` and
`(1e400)` read as minus infinity. And `_strip_thousands` looks only at the length
of the groups behind the first one (`validators.py:40`), so `5,EUR` or `1,-50`
reach the last `float` with a character it refuses, although the comment at
`validators.py:152` says that this cannot happen. The `ValueError` leaves the
mapping: one such row of a ledger makes the whole batch fail.

**A compact date with two readings.** `date_formatter.py:75` says "Returns None
when the value cannot be parsed, including when it is ambiguous."
`AmbiguousIsRefused` states it and `cells_ambiguous` violates it: `2026111` is
read as 1 November although it spells 11 January as well, because `strptime`
takes the longest month and the check for ambiguity looks at separated dates
only. `ListOrderIsNoEvidence` is what does hold, of separated dates.

### Limits worth knowing

`ResubmissionIsStable` needs every row to have a number and a readable amount.
A row without an amount leaves the line's amount in place while its number and
date are replaced; that amount may agree with other rows of the same number, and
on the next submission several rows fit.

`KeepsItsReceipt` is about which receipt a batch is given, not about what the
header says besides: a batch that moves to a receipt bearing its very reference
keeps the date and the amount that an earlier receipt filled in, because only
blanks are filled. And a batch found by amount and date whose receipt has a
number of fewer than five characters is refused when it is sent again, because
its reference is then too short to be compared.

`CallerQuota` is a limiter's promise, and without `REDIS_URL` every worker has a
limiter of its own. As the repository is deployed, with two workers and the
variable empty, a caller whose requests reach both may begin 20 batches a minute.
The property says so in its second half; with Redis it holds of the whole
service.

`FreshRows` bounds the age of what comes out of a cache. It bounds nothing of how
long the flight a call joins takes, a slow write to Redis included.

`NoRefetchWhileCached` is about a service without Redis, where lookup and join
are one step. With Redis a report that is stored between a call's lookup and its
join is fetched again.

## 4. What is proved

The theorems are of the form `Spec => []P` or `Spec => [][A]_vars`, and one is a
refinement; all follow from the named assumptions on the constants alone.

**BipFetchProofs** (`FetchAssumption`: at least one path, one attempt, one entry).
The properties are not inductive: that one key has one owner follows from where
each owner is registered, and that a waiter has a resolver from what was joined.
`IInv` adds: a call that is fetching is registered under its slot with its own
flight pending; a registered flight belongs to such a call; a flight is born
when its attempt registers it and never pends again; a call has joined a flight
exactly for the attempts it has made; attempts of one call are on different
flights and every earlier attempt's flight ended transient; for `FreshRows`, an
entry a call has read had not lapsed when it asked, and a flight a call waits on
was not resolved before it asked. `TypeCorrect`, `NoOrphans`, `OneFlight`,
`WaitersResolved`, `CancelBlamed`, `GivesUpLast` and `RowsAreFresh` hold for all
constants, a time to live of zero included; `CacheSpares` needs Redis to be off. `CacheIsBounded`
counts a worker's live entries across a store: the new one takes the place of its
own key's entry, of an evicted one, or there is room. No finiteness of the keys is
assumed; the invariant carries that of the live entries. Why calls end is a
budget: a call starts with `MaxAttempts` times the longest attempt (each path,
and five awaits besides), a retry takes a whole attempt off, and every other
step takes it further within the attempt. `BudgetIsBounded` bounds it,
`StepsAreSpent` says that a call's steps lower its own and that nobody else's
step, a cancellation or the owner of the flight it joined included, raises it.

**DiscoveryProofs** (`DiscoveryAssumption`: the width is positive). `IInv` adds:
tasks were made for a prefix of the level's queries; the candidates are what the
read answers named; a read failure is what is being raised, and the reading is
over; at the point between chunks all that was sent was read, unless two
customers are known. Then `TypeCorrect`, `NoneAstray`, `SoleCustomer`,
`CancelledFromOutside` and `GivenUpForCause` follow, and `Refinement`:
every step of `Discovery` maps to a step of `Identify` or to a stutter. The step
to the next level is the one that needs the invariant: that a level with one
customer or none has been read to its end, and that a second customer the loop
read is in the table too. `LimitsHold` counts: the queries with Oracle are those
of one chunk, because a chunk is sent only when the one before it has left
nobody there, and no level sends more than the limit. `BudgetIsBounded` and
`StepsAreSpent` are the same argument as for the fetch: a level costs five steps
a query and one to judge it.

**LedgerMatchProofs** (`MatchAssumption`: every number resembles itself, rows and
lines have their types). Lemmas about the tiers come first, for any ledger, line
and set of free rows: what they settle on is free, undisputed, keeps the number,
and has the properties its rule claims. `IInv` says that a line not reached is
as sent, and that each line passed was `Handled` as the tiers say of the rows
that the earlier lines left: it has the rule they give, the first of the rows
they settle on, and that row's data, or none of them. Then `TypeCorrect`,
`RowsAreUsedOnce`, `NothingIsGuessed`, `RulesAreTrue`, `NumbersAreKept`,
`TwinsAreFound`.

**LedgerOrderProofs** (`MatchAssumption`). `LedgerOrderIsNoEvidence` and
`ResubmissionIsStable` compare two runs of the loop, so the first result is that
the loop computes `Run`. `Taken` recurses over the lines; that it has a solution,
and one only, is an induction over the lines, made from the fact that a set of
naturals that is not empty has a least element (`WFMin`), because the library's
induction theorems take an operator as a parameter. `LoopIsRun` follows from
`Handled`. The two runs need not take the same rows: of identical rows each takes
the first in its own ledger. So the proofs carry a *pairing*, a bijection between
the rows the two runs have left under which paired rows read the same. The tiers
give paired sets of rows the same verdict (`SameVerdict`: each tier tests a set
for being single or identical, and both carry over), what they settle on reads
the same, and when each run takes a row a pairing of the rest remains, after the
partners of the two rows taken have been paired with one another
(`PairingAfterTaking`). `OrderDecidesNothing` starts with the permutation as
pairing. For `SentAgainIsTheSame` the pairing starts as the identity, and the
lines differ between the two runs: a line that was bound now reads as its row
reads, so that row, or an identical one, fits it on everything the row has, and
a line that was not bound is as it was. That every row has a number and a
readable amount is used there: without it the rewritten line keeps evidence of
its own.

**BatchProofs** (`ReceiptAssumption`: only numbers long enough to be compared
contain one another; `BatchAssumption`). `IInv` adds: while a round runs the
payload is what the client holds, unbound and unanswered; what discovery and the
fetches came to at each await; and `Told`, the reason for `KeepsItsReceipt`: the
header the client holds goes with the receipt it was last told of, by its
reference, by a reference equal to the receipt's and too short to match any, or
by amount and date when neither has a reference. Lemmas about `Candidates` show
that a receipt the header goes with is displaced only by one that bears the
reference. `HeadersAreHonest` follows from what one round fills in: the name is
the receipt's own or, where it has none, the discovered customer's.

**CellsProofs** (`CellsAssumption`: the cells have their types, at any length).
`Cells` has a two-step life, so the work is in the operators. The groups the
code counts from the left are the ones `Spells` counts from the right: both
count in fours. The rightmost separator exists, which is a minimum over the
distances from the end. Stripping takes exactly the separators out of groups of
digits (`BehindSkips`), and reaches every character that is no separator
(`BehindReaches`), so what `float` is given is digits when the text is, and has
an underscore or an exponent only when the text has. A text spells one scale at
most, so what is spelled is read (`SpelledAreRead`), and what is read is spelled
or is one of the exceptions `AmountIsSpelled` names (`AmountsAreSpelled`, by
`ReadIsExplained`). Of
dates, one order of `FORMATS` at most reads a separated cell unless the check
for ambiguity refuses it or two orders make the same day of it
(`ListOrderDecidesNothing`).

**RequestsProofs** (`RequestsAssumption`: sizes are numbers, the proxy and the
blank entry are no callers). `Progress` says of each place what a request there
has been sent, counted and answered, and that a rejected request can only be on
its way out with 400; `Counts` says that a bucket of a table has at least the hits of
each of its callers' batches, of the one table in Redis or of each worker's. The key lemma is that a request spends its own caller's
bucket whatever it claims, because the last entry of a trusted header is the
proxy's. Then `TypeCorrect`, `AnsweredOnce`, `OnlyAdmitted`, `QuotaHolds`, which is of the whole
service with Redis and of each worker without. The
budget of `BudgetIsBounded` and `StepsAreSpent` is the rest of the body limit and
one step for each layer: a part of a body that does not end it carries something,
and no layer is passed twice.

Model-checked only: `EveryCallEnds`, `DiscoveryEnds` and `Answered`, which are
liveness under fairness and need `ENABLED`. What is proved of them is the part
about the data, for every value of the constants: the budgets. With them, what
TLC adds on the instances is that something can be done while a budget is left
(no deadlock), and that what fairness grants is enough to do it. The three runs
that expect a violation are TLC's alone.

## 5. Not modelled, and the plan

In this order:

1. `ReportService`, an abstract specification of the fetch (a call ends with
   fresh rows, a failure Oracle gave, or a cancellation), with `BipFetch` shown
   to implement it.
2. Two discoveries over one `BipFetch`, so that a cancellation crosses requests
   in a composed model instead of by contract, and the batch on top of them.
3. `_is_num_ok` with its typo budget, which `LedgerMatch` has as a relation, and
   the injectivity of the cache key, which `BipFetch` has as the identity of
   requests.
4. Proofs for 1 and 2.

Left out for good: the SOAP envelope, base64 and CSV (conversions of text that
no property is about), the limits on the lengths of fields and the aliases of the
models, logging, request ids, latencies, probes beyond their statuses, settings
validation at start-up, the headers of CORS, and the life of the HTTP client.
