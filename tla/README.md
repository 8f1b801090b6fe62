# Sovereign Bio-Shield in TLA+

Models of the parts of this repository whose correctness depends on the order
in which things happen, the TLC runs that check them on small instances, and
TLAPS proofs of their main properties for every value of their constants.

- `<Module>.tla` is one component; its actions are named for the functions they
  stand for. `MC<Module>.tla` and `.cfg` are the instance TLC checks.
  `<Module>Proofs.tla` holds the theorems and extends the component.
- `PROJECT.json` maps each definition to the source lines it stands for, lists
  the runs, and gives for each property a mutant: a plausible bug in the code
  (an operator named `<Definition>_<Bug>`, defined beside the one it stands in
  for and used nowhere) that TLC finds the property violated by.

To check: `tlc -config MCEngine.cfg MCEngine.tla`, `tlapm EngineProofs.tla`.

## 1. The system

Telemetry of voice calls reaches a host. A filter in the kernel drops suspicious
datagrams; an engine process analyses packets from a queue; an HTTP API audits
voice streams for clients, who buy credits through PayPal. Scripts set the host
up and watch over it.

| Component | State | Operations | Interacts with |
|---|---|---|---|
| Telemetry queue `core/lockfree_queue.*` | ring of slots, two atomic cursors | `push`, `pop`, `size` | a producer (not in the repository), the engine's main thread, its telemetry thread |
| Engine `core/main_engine.cpp` | `g_running`, two counters, queue, pool | start-up, main loop, `telemetry_thread`, `signal_handler`, shutdown | queue, loader, pool, signals |
| eBPF loader `core/ebpf_loader.cpp` | program descriptor, count of blocks; the interface's XDP hook | load, unload, `block_ip` | kernel, engine, `setup_ebpf.sh` (same hook) |
| XDP filter `core/nic_xdp.c` | `block_map` shared by all CPUs | one run per frame | NIC queues, kernel hash map |
| Memory pool `core/memory_pool.cpp` | free list of blocks | initialize, allocate, deallocate, shutdown | engine (only initialize and shutdown) |
| API middleware `api/main.py`, `api/middleware/` | token buckets per process and key | authenticate, rate-limit, log, compress | every router; the wall clock |
| Payments `api/routers/paypal.py`, `api/services/{paypal,database}_service.py` | table `payment_orders`; a PayPal token per worker | create, capture, webhook, refund; `get_access_token` | PayPal, credits ledger, several workers |
| Voice audit `api/routers/voice_audit.py`, `api/services/{deepfake,cache,billing}_service.py` | shared cache, background tasks | audit, multi-channel, batch | Redis, billing |
| Host operations `scripts/{watchdog,restore,upgrade,rollback}.sh`, `config/systemd/` | units | a script's commands, watch loop, automatic restart | operator, systemd, database |
| XDP hook `scripts/{setup_ebpf,emergency_stop}.sh` | XDP hook, pinned maps | set-up, emergency stop | kernel, watchdog, engine |
| Detection `core/{deepfake_detector,multi_channel_core,frequency_analyzer,avx512_math}.cpp` | none | float signal processing, ensemble vote | engine |
| Database functions `db/` | tables, triggers | risk score, statistics, anomaly detection | API |
| Reports, monitoring, web, deployment | none of their own | - | - |

What is hard, and what makes each component correct:

- *Queue.* Plain (non-atomic) copies of packets between two threads, ordered
  only by acquire/release cursors. Correct: it is a bounded FIFO.
- *Engine.* Two threads and a signal handler over plain and volatile globals;
  kills at any moment; failures half way through start-up. Correct: every packet
  is accounted for, statistics are true, a signal ends it, and an orderly end
  leaves nothing behind.
- *Detection.* Loops over whole vectors and what is left, in unsigned numbers.
  Correct: every sample counts once, and the verdict is the one it is named for.
- *XDP filter.* An unlocked read-modify-write of a shared map from every CPU,
  through a pointer to an element the kernel may recycle. Correct: no innocent
  source is dropped, and guilty ones are counted.
- *Middleware.* A wall clock that can be set. Correct: clients get the rate they
  are promised, no more and no less.
- *Payments.* Distributed state (PayPal, database, ledger) without transactions:
  lost answers, failed calls, redelivered and reordered events, concurrent
  handlers; a shared token judged by a wall clock. Correct: no status or credit
  without the capture, refund or denial it claims, no payment is forgotten, and
  PayPal sees no expired token.
- *Voice audit.* Concurrent handlers over a shared cache; billing after the
  answer. Correct: an answer belongs to its audio, each analysis is billed once.
- *Host operations.* Scripts that end at the first failure, beside a watchdog
  and systemd that restart services on their own. Correct: no service uses a
  database that is being replaced, and none stays down.
- *XDP hook.* Several programs replace each other's filter on one hook. Correct:
  the host is never left without its filter for good, and a running engine not
  even for a while, but for a reload.

The repository as committed does not start its API: `api/main.py` imports
routers whose modules (`models.billing`, `services.admin_service`) do not exist,
`lifespan` awaits `DeepfakeService.initialize()`, which is no coroutine, and
`BillingService.add_credits` is not defined. The models of the API are of its
handlers as written, with those calls as external parts; where the missing
part matters to a result it is a constant (`CreditCall`).

## 2. Modules

### LockFreeQueue, BoundedFifo

`BoundedFifo` is what the queue promises: a sequence of at most `Bound` values.
`LockFreeQueue` has one action per atomic access. Each thread keeps a cached value
of the other's cursor: an acquire load may return any value from the last one it has
seen up to the current one, so the thread may work on an old view as long as it
likes. A packet is copied in two halves; what a slot shows between them is a torn
packet. Indices are kept modulo `Modulus`, a multiple of the capacity that stands
for 2^64. `size()` is called by a third thread, as `telemetry_thread` does, and
makes two loads. That thread owns neither cursor and keeps nothing between calls, so
its first load may return any of the last `Oldest` stores of the write index; the
second, any read index not older than the one that store makes visible: `published`
keeps it for each store (`Release`), as a release store and the acquire load that
reads it order what came before and what comes after.

Run `queue`: capacity 2, indices modulo 4 (they wrap every fourth packet), two
packets, the two last stores for `size()` (the theorems are for any number), so that
the queue is full, empty and wrapped with every interleaving. `QueueInv` is the
inductive invariant; `NoDataRace`: no slot is copied by both threads at once;
`SizeReport`: what `size()` returns of stale indices is at most the capacity, or
else the difference is below zero and has wrapped, by no more than the pops that
went past the write index it loaded (such a call returns nearly 2^64; nothing in the
code prevents it). It holds because the stores are release stores: the mutant
`PushPublish_Relaxed` breaks it. `ImplementsFifo`: refinement of `BoundedFifo` by a
mapping that reads the slots between the cursors; `EveryPacketPopped`: liveness,
under weak fairness of the main loop (it polls without end) and of loads (a stored
value becomes visible at last).

### Engine

`main()`, `telemetry_thread()` and `signal_handler()` of one process over the
abstract queue, with the pool's and the loader's set-up and tear-down. `hook` is
what the interface runs: nothing, this engine's filter, or another's. The kill
is an action of its own that leaves the hook as it is; the next run finds it.

Run `engine`: capacity 2 and three packets. `EngineInv`: the counters account
for every packet popped and every verdict; `OrderlyEnd`: what holds at each step
of start-up and shutdown and after it; `StatsHonest`: a printed line never shows
more blocked than are counted (within a line Blocked may exceed Total: the two are
read one after the other), nor, Total and Queue together, more packets than have
arrived, unless Queue has wrapped. Queue is a `size_t` (`Modulus`, 256 in the run)
made of two loads that may be old, though not older than the packets in Total: it
is within the capacity, or the read index has overtaken the write index that was
loaded and the line shows a number near 2^64. The run contains such lines. `SignalEnds`:
after a signal the process ends. Fairness: weak, of both threads' steps, which
the operating system schedules; signals, packets and kills need not happen.
Proved and not a property of the run: `JoinReturns` (main() joins only a thread that
was started and told to return) and `StopStaysStopped` (a stopped engine takes no
more packets). Not modelled: `std::cout` in the signal handler is not
async-signal-safe, and `g_running` is volatile instead of atomic; both work on the
supported builds.

### Detection, EngineDetector

Where the engine's verdict on a packet comes from: the loops of
`avx512_math.cpp` that take 16 samples at a time and then the rest, and
`analyze_voice_channel` with its three weights and its threshold. Samples are
integers, scores hundredths: as floats, too, 0.40 and 0.25 add up to exactly the
threshold, which is then not exceeded. `length - 16` is taken modulo `Word`, as
`size_t` does. `EngineDetector` puts the two together: `Contents` is what each
packet holds, and the engine's `Deepfake` are the packets `analyze_voice_channel`
answers true for. `MCEngine` gives it three packets.

Run `engine` again: `VectorsAgree`: for data of 1 to 64 samples, the mean is the sum
over all samples, the variance the textbook's (`Spread`: n times the sum of squares,
less the square of the sum), and the dot product of any two of one length the sum of
products; `FlatnessNeverDecides`: what `main()` is about to block has at least 32
samples, a textbook variance below 0.045 and few zero crossings, and the function
answers true for exactly such packets, whatever their spectral flatness.
`VectorsAgree` and the latter half are about functions, so they are evaluated in the
run's initial states; both are proved for all data. Rounding of floats is left out.
The zero-crossing rate is given with a packet: the vector loop that computes it
calls `_mm512_sign_ps`, which compilers do not have. The neural network never
decides, as nothing loads its weights.

### XdpFilter

Every CPU runs `xdp_deepfake_filter` in three steps (look up; read and decide;
update) over `block_map` as the kernel implements it: preallocated elements, an
update links a fresh element and recycles the old one, which another CPU may
still be reading. `Steer` says which CPUs the NIC delivers a source's frames to.

Run `xdp`: two CPUs, one source pinned to each and one delivered to both, room
for two of the three in the map, threshold 2. `InnocentPasses`: a source that
sent no low-variance datagram is in no element and loses none; `PinnedExact`: a
source steered to one CPU is counted exactly, until the map is full; `FilterInv`:
their inductive strengthening. Proved besides: `VerdictsExact` (a pinned source with
an entry is passed before its threshold-th low-variance datagram and never after)
and `BansStay` (it stays blacklisted). For a source delivered to several CPUs the count
is *not* exact: two CPUs lose each other's updates, and one that read the count
before others blacklisted the source puts a smaller one back. A pinned source
needs no lock; RSS steers by flow, so a source with several flows may be both.

### Gateway

`AuthMiddleware` and `RateLimitMiddleware` of one worker. No `await` in between
suspends, so a request passes both in a step. Tokens are integers, `Cost` of
them to a request, so that `Rate` a tick gives fractions of a token; floating
point rounding is left out. `Clock` sets the wall clock to any value.

Run `gateway`: two valid keys and an unknown one, burst of two requests, a request's
worth of tokens in three ticks, two ticks to the second, clock 0 to 4: refills of a
third of a request add up, and waits of less than, just and more than a second
occur. The model has three ghost variables: `window` counts what was admitted since
any request, `sinceFull` since the bucket was last full, `retryAt` is when the
`Retry-After` header told a refused client to return. `RateBound` and
`RefusedOverBudget` say that the limiter is neither too generous nor too strict,
whatever the clock does; `GatewayInv` is the inductive invariant. `Retry-After` is
`int(wait_time)`: a client that comes back when told may be refused again (at once,
if it was told 0). `RetryAfterHolds` is what is true of it: it is less than a second
too early, so that a client that adds a second is admitted unless another request
with its key was, and refused requests in between, which refill the bucket as well,
do not push that time away. All of it is per worker and per run of the worker:
a client has `WORKERS_COUNT` buckets.

### PaypalPayments, OrderLedger

The create, capture, webhook and refund handlers, one step per call to PayPal or
to the database, in several workers at once. PayPal's side is external: it holds
orders, and captures an approved order once (`Captures`): the capture takes the
money, is declined, or is held for review and settled later. The handler looks only
at the order's status, which is COMPLETED in all three cases (`CaptureCompleted`), so
it records and credits a capture whose money is still held or was declined. Another
status of the order (`CaptureIncomplete`) leads to FAILED. PayPal delivers each event
again until it is answered with 200, also several times at once. An event may not
name the order (`UNNAMED`): it is acknowledged and nothing is stored. The event of a
refund names, as its resource, the refund or the capture (`RefundNames`); only the
capture's id is a transaction id. Any call may fail (`Abort`), the answer to a capture
may be lost, and so may that to a create request whose row was inserted. The
signature check is taken as configured: as committed `webhook_id` is a
placeholder. Handlers are modelled as if reached; see `PaymentsBehindAuth`.

Run `payments`: one order, two requests at a time (orders share nothing but the
workers), `add_credits` returning or raising. `ImplementsLedger`:
whatever interleaves, fails or is repeated, an order goes through the stages of
`OrderLedger` one at a time and never back: its row, its capture, its transaction id,
its credits, and a deduction only after a refund of a recorded payment, while the
money of a capture comes with it, later or never (from the
tables, PayPal's state and the calls to billing, all derived, no history variable);
`Backed`: what a status and a credit do claim: COMPLETED and the capture's credits a
capture that was made, the webhook's credits money that came, REFUNDED and deductions
money that went back, DENIED a capture that was declined, FAILED only an order that
was approved; `CaptureCreditsOnce`: all captures of an order add its credits at most
once; `NoPaymentForgotten`: a payment that the table does not hold yet is one PayPal
still delivers the event of, and one whose event was answered is in the table, but
for events that do not name their order; `PaymentInv`: the inductive invariant;
`PaymentRecorded`: a payment PayPal has taken is stored in the end, unless its event
does not name the order. Proved besides: `PaidHasRow`, that
money is taken only for orders the table holds, `RowsKept`, that a row keeps its
client and its transaction id, and `WebhookCreditsNothing`, that without a second
request beside it the webhook never adds credits (with one that changes the row
between its update and its look, it can). Fairness: PayPal delivers an unanswered event
again and again (strong, per event), a request ends, and not every try of the
webhook fails before its first update.

Run `payments_credit` (violated): the webhook should add credits the capture did
not ("Add credits (if not already added)"). It sets the status it then tests.

The code has no guards against: a capture that is declined or stays held (the
customer is credited, and a DENIED event only changes the status), a REFUNDED event
that carries the refund's id or comes before the row has its transaction id
(acknowledged, lost), a REFUNDED event delivered twice (deducted twice), a late
COMPLETED, DENIED or FAILED that overwrites a later status, and a partial refund
(all credits are deducted). When FAILED or REFUNDED is written between the webhook's
update and its look, the webhook does add credits, also to an order the capture has
credited. The model contains all of these behaviours; no property excludes them.

### PaypalToken

`get_access_token` of one worker: coroutines that call PayPal share a token,
several may ask for one at once while they wait, and answers are stored in the
order they come in. The code takes 60 seconds off the token's life (`Margin`)
and judges it by `datetime.now()`, a wall clock in local time: `SetClock` sets it
to any of `Skew`. `Delay` and `Use` bound how long an answer and a request are
under way, as httpx's time-outs do (five seconds each by default, so well within
the minute). `Restart` is a worker whose `PayPalService` is constructed anew.

Run `token`: two calls, tokens that outlive the margin and tokens granted for no
longer than it, a clock set back or forward by more than it, eight ticks, so that
a token is stored, used, ended and stored again. `TokenFresh`: PayPal sees a
token after its end only if the clock was set back between its storing and its
use, or the token was granted for less than the way there and back; `RefreshDue`:
none is asked for before its last `Margin`, but for what the clock was set
forward; `TokenInv`: the expiry that is stored belongs to the token that is
stored, and the rest of the inductive invariant. The hour that summer time sets
the clock back is such a case: for that hour expired tokens may be presented, and
as a refused token is kept, all calls to PayPal fail until the clock has caught
up or the worker restarts.

### PaymentsBehindAuth

`PaypalPayments` with the middleware of `api/main.py` before it. Run
`webhook_auth` (violated): every delivery of a webhook is answered 401. With
the webhook's path in `Unchecked` the same property holds. A browser that PayPal
sends back to `/capture-order` carries no key either: its 401 changes nothing, so
captures here are a client's own calls. `GatedSpec` implements
the specification of the handlers, so their theorems hold behind the middleware;
`NoDeliveryHandled` and `EventsPileUp` are what the 401 comes to.

### VoiceAudit

The three audit endpoints in several workers over one Redis cache. A handler is
cut at its awaits that do suspend: after the look-up, after the store, when the
answer is sent, and after the background task; `analyze_stream` is a coroutine
that awaits nothing, so `gather` runs the analyses of a request one after the
other in one step. `redis` maps each key to the result stored under it. Any call
to Redis may fail (the code takes a failure for a miss and ignores a failed
store), an entry may expire at any time, and a worker may die with what it was
doing; a worker that could not load the engine analyses by variance. `Faults`
says which of these happen. `charged` is what `deduct_credit` was called with,
in cents. `Finite` are the streams whose statistics are numbers: an empty stream in a
batch, a NaN (which no validator refuses) and samples too large for their sums make
others of them, which the JSON answer cannot hold: the request ends as a 500
(`RenderFails`). Its result has been stored by then, and until it expires every audit
of its key ends as a 500 as well (`"unserved"`), also one of finite samples.

Run `voice`: two workers, two requests, all faults; two streams of one key, one of
them with a NaN, one that ends in the same samples on another channel, two and three
channels, a NaN in a batch. `AuditInv` is the inductive invariant, with *charged
exactly for what was answered* as its point; its part `HitsPaidFor` says that what
is served from the cache for nothing, or can be, is the analysis of an audit that
pays for it (what cannot be rendered is never served); `AnswerOfItsKey`: the shared
cache mixes up no channels (it does serve another client's result, and one of other
audio that ends in the same ten samples: that is its key); `EnsemblesAgree`: the
API's `n / 2` and the engine's integer `n / 2` report the same deepfakes;
`EveryAuditEnds`: liveness, with weak fairness of each request, since an event loop
runs every task that is ready and Redis calls time out.

Run `voice_duplicates` (violated, without any fault): "prevent duplicate
processing". Two audits of one key that overlap are both analysed and charged.

Left out: `_analysis_cache`, which is written and never read (and never shrinks),
and `log_result`, which does nothing. The model contains, and no property excludes,
that one suspicious channel turning out to be a deepfake can lower the verdict from
suspicious to verified, since the two votes are counted apart: `VoteCanFall` proves
that it does on a list of four, and `VotesRise` that it cannot fall as long as only
channels that were taken for human change. Nor does any property exclude that a
worker's death after the answer leaves it uncharged.

### Maintenance

`restore.sh`, `upgrade.sh` and `rollback.sh` as lists of their commands, of
which every one may fail and end the script (`set -e`), run by an operator one
at a time; the watchdog's loop, cut after each check, since what it found may no
longer be so when it restarts a service; and systemd, which restarts services
that died but not those that were stopped. A watchdog whose own command fails is
dead. The units are taken as the scripts use them: as committed
`bioshield-engine.service` is a copy of the API's unit, and
`bioshield-watchdog.service` one of the eBPF loader's. `MigrationScript` says
whether `data_migration.sh`, which `upgrade.sh` calls, is there; as committed it
is not, and `upgrade.sh` always ends with the services stopped.

`MigrationScript` is true in the runs (the behaviours include those without it, in
which the command can only fail). Run `maintenance`, of `XdpHook`, checks here:
`OfflineButForWatchdog` and `NothingLeftStopped` say that the scripts stop and start
the services in the right places, whatever fails and whatever systemd does;
`MaintenanceInv` is their inductive strengthening; `ServicesComeBack`: a service
that is down runs again, unless the watchdog has died. Fairness: weak, of the
watchdog's loop and of systemd's restarts; scripts need not get on. The model is
finite without bounds.

Run `maintenance_offline` (violated): `Offline` is what restore.sh says of itself: the
services are stopped while it restores the database. The watchdog restarts them.

The weak fairness of the watchdog takes its commands to end; its `curl` has no
time-out, so an API that accepts the connection and never answers would hold it up.

Left out: that stopping the API's unit runs `docker-compose down`
(`bioshield-api.service:15`), which takes the compose file's other containers along;
what the commands do to images and files (`upgrade.sh` and
`rollback.sh` pull `$VERSION`, while the compose file starts `${TAG:-latest}`;
`restore.sh` copies `config/*`, which skips `.env.production`).

### XdpHook

`Maintenance` with eth0's XDP hook. Two programs use it and neither knows of the
other: the engine attaches its filter in SKB mode when it has started and
detaches what is there when it ends; the watchdog that finds no filter runs
`setup_ebpf.sh`. Every step of `Maintenance` takes the engine's part of the hook
along (`EngineSide`), and the step in which the watchdog checks the host becomes
a look at the hook and the script's commands, each of which may fail and end the
script and, as it also runs under `set -e`, the watchdog. The services thus
behave as in `Maintenance`, which the run checks (`ServicesAsBefore`).

What the kernel and the tools do with one hook is external and taken as follows.
`ip link set xdp obj` does not replace a filter that is attached, and uses the
driver's hook where the driver has one; the engine asks for the kernel's, and the
two cannot be in use together: on such a host (`native`) an engine cannot attach
over the script's filter and ends. On others it replaces it. `bpftool map pin`
does not overwrite a file, and the files stay when their program is gone
(`pinned`); they then show the maps of a filter that no longer runs. Engine and
scripts are taken to see the same eth0, as the units have it; an engine in a
network namespace of its own is contained as one that never attaches. As
committed the script fails after each load, since `packet_count_map` is longer
than a map's name can be and the last `grep` finds no such map: that is
contained too, as `SetupFails`.

Run `maintenance`, further: `EngineFiltered`: an engine that has attached its
filter has none under it only while a reload replaces it, or after one that
failed; `HookInv`: its inductive strengthening; `FilterComesBack`: eth0 does not
stay without a filter unless the watchdog dies; `ReloadEndsWatchdog`: with maps
already pinned, which the boot's own run of the script sees to, a reload always
ends the watchdog. `ReloadTraps` is its safe half: such a reload is left by
nothing else. Fairness: that of `Maintenance`, with the script as a part of
the watchdog's loop. The model is finite without bounds.

## 3. What is proved

Each proof module shows an inductive invariant (`Init => Inv`, preserved by each
action, one lemma per part of the invariant and one case per action), and gets
the other properties from it.

| Module | Theorems | Assumptions |
|---|---|---|
| LockFreeQueueProofs | `QueueInvariant`, `SlotExclusion`, `SizeReported`, `Refinement` | any packets and any stale loads; `Modulus` a multiple of the capacity, at least twice it |
| EngineProofs | `EngineInvariant`, `EndsInOrder`, `StatsAreHonest`, `JoinIsSafe`, `StopsForGood`; with the detector `EachSampleOnce`, `StatisticsAreExact`, `ProductsAreExact`, `VectorLoopsAgree`, `FlatnessIsIdle` | any packets and contents, queue capacity > 0, `Modulus` above it; any vector width; integer samples, fewer than `Word` |
| XdpFilterProofs | `FilterInvariant`, `InnocentSourcesPass`, `PinnedSourcesExact`, `VerdictsAreExact`, `BansAreForGood` | finitely many CPUs, any steering, threshold 1..254 |
| GatewayProofs | `GatewayInvariant`, `RateIsBounded`, `RefusalsAreDue`, `RetriesSucceed` | a request costs no more than the burst |
| VoiceAuditProofs | `AuditInvariant`, `AnswersAreOfTheirKey`, `HitsArePaidFor`, `VotesAgree`, `VotesRise`, `VoteCanFall` | any workers, requests, streams and lists; any faults |
| MaintenanceProofs | `MaintenanceInvariant`, `DatabaseIsOffline`, `DoneMeansStarted`; with the hook `ServicesSafeWithHook`, `HookInvariant`, `RunningEngineFiltered`, `HookImplementsServices`, `ReloadsTrap` | none |
| PaypalPaymentsProofs | `PaymentInvariant`, `PaidOrdersHaveRows`, `RowsAreBacked`, `CapturesCreditOnce`, `PaymentsAreRemembered`, `RowsStay`, `HandlersKeepLedger`; `WebhookAddsNoCredits`; behind the middleware `GatedImplements`, `GatedInvariant`, `WebhooksNeverHandled` | any orders and workers; one worker for `WebhookAddsNoCredits`; the webhook's path not in `Unchecked` for the last |
| PaypalTokenProofs | `TokenInvariant`, `TokensAreFresh`, `RefreshesAreDue` | any calls, grants and clocks; `Delay + Use <= Margin` |

Why the invariants need strengthening: the queue's needs the distance between the
cursors and the cached cursors to lie within the capacity at every program counter,
and, for `size()`, that every store of the write index makes visible a read index at
most one lap behind it; the engine's needs what each program counter implies about
the counters not yet incremented; the filter's that no element is in two places and
that a CPU's pointer to a pinned source's element is the current one; the gateway's
that tokens held plus tokens spent lie on a line in the clock, and that the tokens a
refused client waits for are on their way to it; the payments' that at most one
worker is past PayPal's capture of an order, whatever became of the money, and that
PayPal's events are true, and, so that no payment is forgotten, that a delivery
which got past its update has its order's transaction id in the table, for that is
the only way an event leaves PayPal's list; `HandlersKeepLedger` needs besides that
a handler about to add or deduct credits stands at an order whose transaction id is
stored; the audits' what each state of a request implies about its results, that
what is cached has its key, and that an audit whose results are of `Finite` streams
cannot end as a 500, so that one which pays still pays; the scripts' what the
position of a script between its stop and its starts implies about each service; the
token's how far the stored expiry may lie from the token's end, which is the delay
of its answer, and by how much the clock was off when a call looked at it; the
hook's where setup_ebpf.sh stands whenever the watchdog is elsewhere.
`BansAreForGood` uses that a pinned source's run that is about to write has read a
count below the threshold and that this count is still the current one, so that none
is under way for a source that is blacklisted. `VotesAgree` uses that the results
are the streams', in order, and that for integers the two halves are the same test.

The detector's sums are folds over finite sets of indices. `EachSampleOnce` says
that the chunks' lanes and the rest are these indices, each once. That the sums are
then equal needs induction on finite sets. The library's induction theorems
take an operator, which the provers cannot instantiate; but its theorem that strict
inclusion of finite sets is well-founded does not, so `SubsetInduction` takes the
*set* of the subsets for which an equation holds and shows that no least one is
missing. From the fold's defining equation follow, by it, that a sum loses just
the term of an element taken out (`SumRemove`), and that sums can be renamed, cut
into parts and taken apart linearly (`SumRenamed`, `SumOfSums`, `SumLinear`).
`TotalIsSum` then joins lanes and rest for any term; `StatisticsAreExact` puts in
the squared differences from the mean and gets the textbook's variance, for data of
any length. `FlatnessIsIdle` rests on it.

Only model-checked: the liveness properties (`EveryPacketPopped`, `SignalEnds`,
`PaymentRecorded`, `EveryAuditEnds`, `ServicesComeBack`, `FilterComesBack`,
`ReloadEndsWatchdog`), which are beyond the prover; of three of them it proves the
part that is safety (`JoinReturns`, `NoPaymentForgotten`, `ReloadTraps`). Of
`ServicesAsBefore` the safety part is proved (`HookImplementsServices`); its
fairness is not. Every invariant of the passing runs is stated by a theorem.

## 4. Order of work

Queue, engine, filter, gateway, payments and the webhook's gate, voice audit, and
the scripts came first, with their theorems; then the PayPal token, the XDP hook
composed with the scripts, and the detector's loops; then more theorems about all of
these, the exactness of the detector's sums last. What could still be added: an
abstract specification that the rate limiter implements (a budget per window), and
`unblock_ip`, `allocate` and `deallocate` once something calls them.

## 5. Not modelled

- *Emergency stop.* It starts a second engine in the pod with `--block-all`, but
  `main()` looks at no arguments: what runs is an engine as in `Engine`, until it
  is killed, and the script's next steps wait for it. The rest is Kubernetes.
- *Start-up of the API.* A straight line that, as committed, fails (section 1).
- *Memory pool beyond set-up and tear-down.* Nothing in the repository allocates
  from it. (`allocate` never splits a block, so the pool would serve one caller at
  a time whatever its size.)
- *Signal processing.* Zero crossings, flatness and the Fourier transform are
  floating-point functions; `FrequencyAnalyzer` and `MultiChannelProcessor` have
  no caller.
- *SQL functions and triggers.* No code in the repository reads or writes their
  tables; each runs in one transaction.
- *Monitoring.* The exporter reads pinned maps as text files, which the BPF file
  system does not let it; alert mails and the ring buffer's reader keep no state.
- *Reports, admin, billing and notification routers* return constants or random
  data, or call modules that are not there. Compression, logging and tracing wrap
  a request and keep no state.
- *Core pinning, deployment, infrastructure, web pages*: no state of their own.
