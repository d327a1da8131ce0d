# Verification of the AI gateway backend

The gateway (`src/app`) is a FastAPI service that takes chat, image, audio,
video and embedding requests, picks one of thirteen AI providers for which the
user has stored a key, and calls it. It runs as several Gunicorn worker
processes, each with one asyncio event loop, and one or more arq workers for
long jobs; they share PostgreSQL, Redis and S3, and nothing else.

This directory holds TLA+ models of the parts in which order, failure and
concurrency matter, TLC configurations that check them on small instances, and
TLAPS proofs of some of the properties for all values of the constants.
`PROJECT.json` lists every run, which lines of code each definition models, for
each property a mutated definition that breaks it, the hazards the properties
are aimed at, and the theorems.

    tlc -config ProviderRetry.cfg ProviderRetry     # check one run
    tlapm ProviderRetry_proofs.tla                  # check one module's proofs

## 1. Inventory

| Component | Code (under `src/app`) | State it keeps | Operations |
|---|---|---|---|
| Retry loop, in-process breaker | `providers/retry.py`, `api/v1/routes/admin.py` | per worker and provider: `_open`, `_failures`, `_last_failure`; per call: the attempt | call, retry, health, disable, enable |
| Redis breaker | `providers/retry.py` | `cb:state`, `cb:failures`, `cb:last_fail`, `cb:probe_lock` | the same, one Redis command at a time |
| Modality router | `services/router.py`, `providers/registry.py`, `providers/capabilities.py` | capability map (constant after start-up); per request: candidates left, `req.model` | `route`, `_dispatch` |
| Key service | `services/key_service.py`, `db/repositories/key_repo.py`, `api/v1/routes/keys.py`, `db/session.py` | table `api_keys`; per worker a cache of decrypted keys with a TTL | add, delete, list, look up |
| Rate limiter | `core/ratelimit.py` | hash `ratelimit:<id>` with an expiry | `check` |
| Authentication state | `core/security.py`, `api/v1/routes/auth.py`, `api/v1/deps.py` | `failed_login:<email>`, `revoked:<jti>` | login, refresh, logout, every authenticated request |
| Chat service | `services/chat_service.py`, `services/cache.py`, repositories | conversations, messages, usage; `cache:<hash>` | chat; delete a conversation |
| Video jobs | `api/v1/routes/video.py`, `workers/worker.py`, `workers/tasks/video_generation.py`, `providers/fal/adapter.py`, `providers/replicate/adapter.py` | arq's queue; `job:<id>:status`, `job:<id>:result`; the provider's predictions | enqueue, run, poll |
| Streaming | `services/streaming.py`, `api/v1/routes/chat.py`, the adapters' `stream_chat` | per stream: the provider chosen, its open response, what was sent | SSE stream; a WebSocket loop that cannot be reached |
| Conversions | `services/conversion_service.py`, `services/pipeline.py`, `api/v1/routes/conversions.py` | per request: steps left, the data handed on | convert, pipeline |
| Media routes | `api/v1/routes/images.py`, `audio.py`, `embeddings.py` | per request: the field its input goes into | generate, describe, speak, transcribe, embed |
| Files | `services/file_service.py`, `api/v1/routes/files.py` | S3 objects, table `files` | upload, read, link, delete |
| Other tasks | `workers/tasks/file_processing.py`, `batch_transcribe.py` | `job:<id>:status` | run (nothing enqueues them) |
| Ranker | `services/ranker.py` | `stats:*` in Redis | rank, record (never constructed) |
| Cost, usage, budgets | `services/cost_service.py`, `services/usage_service.py` | table `usage` | record, report |
| Adapters, mappings | `providers/*/` | none | list conversions, translate, call under `with_retry`, stream |
| Guardrails, parsers, shell | the rest | none that a protocol depends on | |

How they interact. A request passes `get_current_user_id` (blacklist) and
`rate_limit` (bucket), then a service. Chat, conversions, the media routes and
the video task call `ModalityRouter.route` (`POST /conversions` once for the
direct route, and then once for each step of a pipeline), which asks the key service which
providers the user has keys for, and then, candidate by candidate, for the key,
and calls the adapter. The adapter's methods are wrapped in `with_retry`, which
asks the breaker, calls the provider over HTTP and reports each result to the
breaker. A chat stream takes another way: `get_streaming_context` repeats the
router's choice, takes the first candidate, and the route reads from its
`stream_chat` without retry, breaker, failover or history. Everything a request
writes to the database is one transaction,
committed by `get_session` after the handler; everything it writes to Redis, to
S3 or into the memory of its worker takes effect at once.

What is hard. An `await` is a point where any other request of the worker may
run; between two Redis commands any request of any worker may. State is read on
one side of an await and used on the other: the breaker's answer, the list of
providers, a key's row, the lock of an account, the blacklist, the clock. Redis
keys expire on their own. Workers are replaced, jobs are cancelled by timeout
and started again; what was half done stays in Redis and is rolled back in
PostgreSQL and left as it is in S3. Retries repeat calls that are not
idempotent, and failover and fallback repeat the retries. A client may leave its
stream at any byte. The hazards are listed
one by one in `PROJECT.json`, each at its line.

What makes each component correct, in a sentence:

- *retry loop*: a caller gets one answer, for at most `max_retries + 1`
  requests; a tripped breaker stops new calls and recovers;
- *breakers*: flag and counter agree; no death of a worker shuts a provider out;
- *router*: candidates are tried in order, preferences are kept in failover,
  every request is answered;
- *key service*: only committed keys are used; a deleted one is forgotten;
- *limiter*: in no window of time are more requests allowed than the limit;
- *authentication*: a limit on failed logins, with an end to the lock; a revoked
  token stays revoked; a refresh token is used up;
- *chat*: histories are made of whole turns, answers are accounted for, the
  cache answers with what was asked for;
- *conversions and media routes*: what the caller sent is what the adapter
  reads; each step is paid for once, in order; the number of dispatches is
  bounded; every request is answered;
- *streams*: the pieces of the provider's answer, each once and in order; the
  error if and only if the answer broke; one end marker, last; nothing after the
  client has left; the provider's connection is given back;
- *files*: what is said to be stored has its object; an object without a row is
  the trace of a failure;
- *video jobs*: each ends, stores its verdict, costs a bounded number of
  predictions, and shows no URL that does not exist.

## 2. Modules

Each component has one module; it is checked directly or through an `MC` module
that gives constants values a `.cfg` cannot express. The theorems stand in the
modules `*_proofs`, one for each component, except that `Worker_proofs` has those
of `VideoJobs` and `FileStore`, `Redis_proofs` those of `RedisBreaker` and
`TokenBucket`, and `Conversion_proofs` those of `Conversion` and of the router
that it extends. The second module of each pair has names of its own for what
every specification has (`FilesInit`, `FilesNext`, `BucketSpec`, `BucketTypeOK`),
so that one module can extend both. No module uses a RECURSIVE operator; some
lists and tables are written as recursive functions (`Among`, `CandidatesUpTo`)
or by their rows (`Table`), since the provers can expand neither `SelectSeq` nor
`:>` and `@@`.

Time. Where the code compares times, models keep an *age* or a *countdown* that
`Tick` moves, up to the point from which nothing changes any more, in place of a
clock that would grow for ever. Only `TokenBucket` has a clock, since the value
itself is an argument there.

Steps. A step is what the code does between two awaits that matter. A Redis
command, a Lua script, a MULTI/EXEC and an SQL statement each take effect at one
moment; what the caller does with the reply up to its next await is part of the
same step, except in `KeyService` and `VideoJobs.ReadStatus/ReadResult`, where
the reply is taken up in a step of its own because others run in between.

**ProviderRetry** models `with_retry` and the breaker each worker keeps in
memory. `open`, `failures`, `age` are `_open`, `_failures` and the time since
`_last_failure` of one provider, by worker; `pc`, `worker`, `attempt`, `answer`
are the calls. `Start` is `is_open` and the entry of the loop (no suspension in
between), `Succeed`, `Reject`, `Fail` the three ways a request ends, `Resend` the
end of the back-off, `Cancel` a CancelledError, `Health`, `Disable`, `Enable` the
admin routes, `Restart` Gunicorn's replacement of a worker. A provider's entry is
only touched under its own name, so one provider stands for all.

**CallContract** is the abstract specification of what a caller is promised:
at most `MaxSends` requests, one answer, and answers that tell how many requests
were spent. `ProviderRetry` implements it under the mapping
`sends[c] = attempt[c] + 1` for a call that was admitted, `0` otherwise.

**RedisBreaker** models the Redis half of the class `CircuitBreaker`. Every
command of `_redis_is_open`, `_redis_record_success` and
`_redis_record_failure` is an action, `Crash` may end a caller between any two,
and each key with an expiry has its countdown. The counter saturates at the
threshold, as nothing compares it with more. No code hands the breaker a Redis
client today (see Findings); the class is modelled because it is there to be
used, and the docs describe it.

**Catalogue** holds what the router and the chat stream share, each with a copy
of the same code: the capability map and the choice of candidates from it
(`Candidates`: `Among` the list those of the user's keys, `Narrow`ed by the preferred
provider and then by the preferred model, where a preference that fits nothing is
dropped). **Adapters** is the thirteen adapters
as tables: the conversions each lists, the field of the request that each of
their methods reads, the model it asks its provider for (`AskedModel`: the one in
`req.model`, but for OpenAI's transcription), and whether its result may be empty;
`CapabilityMap` builds the map from them as `build_capability_map` does. **UserKeys** is the key service
as the router sees it: what a lookup finds or raises, and how the user's other
requests change it.

**ModalityRouter** models `route`: `Call` and `Filter` (`get_user_providers`,
preferences), then for each candidate the key lookup (`KeyFound` with the
dispatch, or `KeyError`), and `Succeed` or `FailOver`. The user's keys change in
between (`KeysNext`): these are KeyService's operations with their inner steps
left out. `sent` and `offered` record what happened: `sent` is what each adapter
was handed, its name and `req.model`, and what the adapter asks its provider for
is `AskedModel` of that. `model` is `req.model`, which the loop itself writes. The map holds loaded providers only
(`load_all` builds it from them), so `if not provider: continue` never applies.
On its own (`Arrive`) the module serves the run `router_pair`.

**Conversion** composes the router with the keys, the adapters, and the code that
calls it: `Submit` and `Refuse` are the six media endpoints and `POST
/conversions` with their checks; `Sends`, `Answers` and `Routes` are the router's
steps, extended by which field the adapter reads and what it returns; `FallBack`
is `ConversionService.convert` after an exception of the direct route (the same
route again without the model, or the pipeline's steps, or the exception);
`NextHop` is the loop of `Pipeline.execute`; `Respond` and `Abort` end the
handler. Content is abstracted to where it comes from: what the caller sent, the
n-th answer, or `Missing` when the adapter reads a field that nobody set.

**Dialects** is `stream_chat` of the nine chat adapters as tables: what each does
with a line of its provider, by the kind of the line. **Streaming** is `POST
/chat/stream` over them: `Choose` and `Lookup` are `get_streaming_context`, `Open`,
`Read`, `Exhaust` and `Raise` the provider's response, `Send`, `Tell` and `End` the
yields of `sse_stream` (a chunk, the error, `[DONE]`), `Disconnect` the client's
departure and `Collect` the event loop's closing of the generators dropped by it.
The keys may change between the two reads, so each read finds any keys. A stream
touches nothing that another one reads.

**EventStream** is the abstract specification of what a client is promised: the
pieces of the answer, then the error if and only if the answer broke, then one
end marker, or silence from the moment it leaves. (That the pieces are in order
and, up to a finish, complete is `FinishMeansWhole`, which says `Whole` of the events
and the lines of every stream.) `Streaming` implements it
(`KeepsPromise`): `told` are the events, `broken` is whether `stream_chat` raised,
and the phases before the first event are the empty stream.

**KeyService** models one user's keys for one provider: rows with their
transaction state, the cache of each worker, and requests at their awaits. A row
is `pending` between flush and commit and `deleting` between DELETE and commit;
`Rollback` and `Restart` undo both. `Query` (the database's answer) and `Fill`
(caching it) are two steps.

**KeyStore** is the abstract specification of it: keys are stored and dropped once
each, a worker learns a key only while it is the one the user has stored, and
forgets keys at any time; so a deleted key that a worker has forgotten stays
forgotten (`StaysForgotten`). `KeyService` implements it (`KeepsKeyStore`): `stored`
are the committed rows (`Visible`), and `known[w]` the key that worker `w` has cached
and those that its lookups have read or return. A lookup that reads a row, is
overtaken by the deletion and fills the cache after it learns nothing by `Fill`: it
has known the key since `Query`. `UserKeys` has the same steps with a lookup in one
piece; that a deleted key may live on in a cache is in both.

**TokenBucket** models the limiter. The Lua script is one step (`Run`), but its
time argument was taken in an earlier one (`Ask`), at most `MaxDelay` before.
Tokens are scaled so that one tick refills one unit and a request costs `Cost`
units, which keeps everything in the integers. `Observe` starts a window of
time; `spent` counts what was allowed in it.

**AuthService** models one account's failure counter and one token with its
blacklist entry. `Check`, `Verify`, `Record`, `Expire`, `Clear` are the awaits of
`login`; `Decode`, `Ask`, `Revoke` those of whatever presents a token, of which
`/auth/refresh` and `/auth/logout` revoke it and the rest `Leave`. The clock
ticks several times a second since `exp` and the TTL are whole seconds.

**ChatService** models `ChatService.chat` with its transaction: `flushed[r]` is
what the transaction of request `r` holds, seen by nobody else until `Commit`.
The cache is written before the commit and survives a rollback. Messages,
answers and token counts are abstracted to their number and to who gave them
with which settings. One list of messages stands for all; it has a last message
(with an empty list the code stores an answer without a question). The
conversation id stored in a cache entry is left out: a hit returns the id of the
conversation in which the answer was first given.

**FileStore** models uploads (`Submit`, `Put`, `PutFails`, `Insert`, `Commit`,
`Fail`), the requests that read or delete a file (`Arrive`, `NotFound`, `Find`,
`Sign`, `Delete`), and the tasks `process_file`, which may fail with or without a
row, and `batch_transcribe`. S3 keeps
what was put; the row is there from the commit on. A failed put may have stored
the object. FastAPI answers before or after `get_session` commits depending on
its version (the requirement is `fastapi>=0.115.0`, and 0.118 changed it); no
property depends on it.

**VideoJobs** models one job from `enqueue_job` to its end. arq is external:
`Start`, `GiveUp`, `WorkerStops` and `Cancel` are what it does as used by
`worker.py`. The task's steps follow `generate_video`, and within it the loop of
the router over the two video adapters: `Filter` (Fal, Replicate, both or none),
`Lookup` (the key), `FailOver`. `Create`, `Poll` and `Retry` are `_run_prediction`
of Replicate under `with_retry`; `CreateAnswered`, `PollFal` and `Fetch` are
`_submit_and_poll` of Fal, which raises where Replicate returns. `MaxPolls` stands
for the 120 polls of the one and the 180 of the other. The breaker is
ProviderRetry's; here an open one is a `Refused`.

## 3. Runs

Each run finishes in about a minute at most. "States" are distinct states.

| Run | Instance | States | What it shows |
|---|---|---|---|
| `retry` | 1 worker, 3 calls, threshold 2, recovery 2 ticks, 1 retry | 53 000 | `OpenIffThreshold`, `OverrunShrinks`; `ImplementsContract`; `CallsAreAnswered`, `CircuitRecovers` |
| `redis_breaker` | 2 callers, threshold 2, recovery 2 ticks, lock 1 tick, 1 retry | 155 000 | `RefusalExpires`, `OpenHasLastFailure`; `AdmitsAgain`, `PhasesEnd` |
| `keys` | 2 workers, 2 requests, 2 keys, TTL 2 ticks | 15 000 | `OnlyCommittedKeys`; `KeepsKeyStore`; `DeletedKeysAreForgotten` |
| `conversion` | 1 request at a time, Google and OpenAI, every endpoint and pair, 3 preferences, up to 2 keys each | 122 000 | `TypeInv`, `TriedInOrder`, `PreferenceKept`, `NamedModelAsked`, `StepsAskListedModel`, `MediaReachesProvider`, `StepsAnsweredOnce`, `TriesBounded`; `ConversionsAreAnswered` |
| `stream` | 1 stream at a time, 5 providers (one of each dialect), 3 preferences, answers of up to 4 lines | 160 000 | `FinishMeansWhole`; `KeepsPromise`; `StreamsEnd` |
| `chat` | 2 requests, 2 conversations, 2 targets, 3 answers | 196 000 | `TurnsAreWhole`, `UsageMatches`, `NamedIsWhoAnswers` |
| `bucket` | 3 calls, bucket of 2 requests, delay up to 2, 12 ticks | 388 000 | `RateBound`, `DebtBound`, `Balance` |
| `auth` | 3 requests, 2 failures allowed, lock of 1 s, token of 3 s, 2 ticks a second | 737 000 | `OverrunBounded`, `RevocationHolds`, `UsesBounded`; `LockEnds` |
| `files` | 3 files, 2 uploads, 1 reader, 1 task | 110 000 | `StoredIsThere`, `OrphansAreFailures` |
| `jobs` | 2 starts, 2 providers, 1 retry, 2 polls | 793 000 | `ReturnedMeansStored`, `PredictionsBounded`, `UrlIsReal`; `JobsEnd` |
| `router_pair`, `jobs_url` | one router call; one start without retries | | expected violations: see Findings |

Why the bounds are enough. In `retry` the threshold is smaller than the number
of calls, so that a circuit opens while others are in flight, with retries left;
calls in separate workers have separate breakers, so one worker shows everything
that holds of each. `FailureBound` keeps
`Disable` from counting for ever; it admits a disable on top of a tripped
circuit. In `redis_breaker` two callers are enough for every race of two
commands, the lock expires before the recovery time, as in the code (10 s and
30 s). In `conversion` both adapters list vision, images, chat and embeddings and one of them
speech and transcription, so that failover, a single candidate, and the known
pipelines of two and three steps all occur, and the two models of OpenAI give
"same provider, other model" next to "other provider". Requests share nothing but
the keys and the worker's cache, whose changes by others `KeysNext` already
includes, hence one request at a time; its slot is used again, with what the cache
holds by then. In `stream` four lines are enough for text, reason, text and an
error in any order, and streams share nothing. In `files` two uploads race with
each other, with a reader of their files and with a task, and a third file can
follow a failure. In `keys` two keys
reach the case of two rows for one provider, two requests every race between a
lookup, a deletion and an addition. The clock of `bucket` runs for two lifetimes
of the key (`KeyTTL = 6`), three calls are reordered in every way. In `auth` the
requests outnumber the failures allowed, and a token's lifetime spans several
roundings. `MaxTurns` in `chat` allows three answers over two conversations, so
that one conversation gets more than one turn next to another. In `jobs` the
job is started again, each provider is retried and failover follows, so that the
product of the three is reached.
The bound `UseLimit` in `AuthService` counts one more use than is allowed, so a
violation is not hidden. `VideoJobs` stops when the job has ended (deadlock
checking is off in its run for that reason); all other systems run for ever.

Fairness. Safety properties are checked without any. For liveness only this is
assumed, by name in each `FairSpec`:

- time passes (`WF(Tick)`) where something has to expire;
- an HTTP request ends and a sleep ends (`client_pool.py` sets timeouts, the
  event loop runs its timers): `Respond`, `Resend`; likewise the awaits of a
  handler in `Conversion` and of a lookup in the key service;
- a stream's awaits return: httpx has timeouts, a provider's answer is finite, a
  client takes what it is sent or leaves, and the event loop closes dropped
  generators (`Streaming`);
- Redis executes an EXPIRE it has been sent (`AuthService`), unless the sender
  dies first (`Stranded` excepts that case, which the code does not handle);
- some arq worker is up, and a task's awaits return (`VideoJobs`).

Nobody is assumed to send requests, and in `RedisBreaker` no caller is assumed to
go on: `AdmitsAgain` and `PhasesEnd` hold by expiry alone, with the exception of
an administrator who disables a provider again and again (`KeptDisabled`).

## 4. Proofs

TLAPS proves, for any number of workers, calls, requests, keys, streams and files,
any capability map, and all values of the constants allowed by the `ASSUME`s of
the modules, that every reachable state is well typed (`TypeCorrect`,
`FilesTypeCorrect`, `BucketTypeCorrect`, `ConvTypeCorrect`, which is why most runs
do not check it), every safety property that the passing runs check, and the three
refinements. By module:

- `ProviderRetry_proofs`: `OpenIffThreshold`, `OverrunShrinks`, and
  that the module implements `CallContract`. The inductive invariant is `Inv`,
  the conjunction of `TypeOK`, `CallState` and `OpenIffThreshold`. `CallState` is
  needed for the refinement (a call that gives up has made its last attempt) and
  for `OverrunShrinks` (a sleeping call has a retry left). The flag and the
  counter agree because the threshold is positive and every step that clears one
  clears the other. A step of the loop maps to a step of the contract or to a
  stutter; a worker's restart maps to `CutShort` of all its calls.
- `Redis_proofs`, of the breaker: `RefusalExpires`, `OpenHasLastFailure`. The
  last is not inductive: a caller about to write `open` must have found or written
  the time before. `LastFailureKnown` says so, of every state but `closed` and of
  the callers that are past reading or writing the time; `RetryLeft` says that a
  sleeping caller has a retry left, which keeps its count of attempts in its type.
- `Redis_proofs`, of the limiter: `RateBound`, `DebtBound` and `Balance`, of which
  the others follow: what is left in the bucket and what was spent in the window
  never exceed a full bucket and the refill up to `last`. An expiry of the key
  keeps it because `KeyTTL >= Capacity + MaxDelay`, which `BucketAssumption` states
  and which holds for the tiers of `ratelimit.py` with a minute to spare.
- `KeyService_proofs`: `OnlyCommittedKeys`, and that the module implements
  `KeyStore` (`KeepsKeyStore`). The inductive invariant has one more conjunct,
  `OneWriterPerRow`, which ties the transaction state of a row to the request that
  holds it; it follows from the database's row lock and is a step of the proof, not
  a property of the code. A commit maps to `Store` or `Drop` (the row is the request's
  own, by `OneWriterPerRow`), the query that finds one row to `Learn`, everything
  else to `Forget`, a rollback and a worker's restart among it. `Forgotten` follows
  from `KeyStore` alone and so holds of `KeyService`.
- `AuthService_proofs`: `OverrunBounded`, `RevocationHolds`, `UsesBounded`. Each has
  an invariant that counts those under way: `CounterInv`, that the failures counted
  and the logins that were let in together never exceed what the bound allows;
  `UsesInv`, the same for uses of the token and the requests about to revoke it;
  `RevocationInv`, that whoever is about to write the blacklist entry carries a TTL
  that reaches into the last second of the token's life. The sets are finite, so
  the steps rest on the library's facts about cardinality.
- `Worker_proofs`, of the video jobs: `ReturnedMeansStored`, `UrlIsReal`,
  `PredictionsBounded`. `Control` ties arq's view to the task's, `Written` says what
  the task has written by each step, `Genuine` that a URL anywhere has a prediction
  behind it. `WithinAllowance` gives every point of the task the number of
  predictions that the starts, candidates and attempts before it may have created.
- `Worker_proofs`, of the files: `StoredIsThere`, `OrphansAreFailures`. `PutFirst`
  says that an upload at the insert or commit has its object, `FoundStays` that
  what a request or a task has found remains.
- `ChatService_proofs`: `TypeOK`, `TurnsAreWhole`, `NamedIsWhoAnswers`,
  `UsageMatches`. `RequestShape` and `TransactionShape` say what record, answer and
  rows a request holds at each place, `Belongs` that a conversation written to is
  there, or opened by this transaction and by no other, so that a commit adds whole
  turns to it and a deletion takes whole turns away; `CacheSays`, that an entry is
  stored under the name of who gave it. `EachPaid` counts the requests between answer
  and commit, which `UsageMatches` needs. The sum over conversations in
  `UsageMatches` is a fold over a finite set: that the fold is there, and changes by
  what one conversation changes, is shown by induction on the size of the set.
- `Streaming_proofs`: that the module implements `EventStream`, for any number of
  streams and answers of any length. The invariant `Standing` says
  where an error can be: a stream that goes on has not raised and holds chunks
  only, one that has raised and told ends with the error. Every step then maps to
  one of the abstract specification or to a stutter. `FinishMeansWhole` needs more:
  a chunk may be due while others were sent. `Texts` takes what was sent and what is
  due as one sequence and says `Whole` of it, and that it holds all the text read so
  far while the stream goes on. Sending leaves the sequence alone, a departure cuts
  it (`WholeBefore`), a line extends it (`WholeGrows`), for which every dialect gives
  a line's text in one chunk and not after its finish (`DialectsSpeak`).
- `Conversion_proofs`: `TypeInv`, `TriedInOrder`, `PreferenceKept`,
  `NamedModelAsked`, `StepsAskListedModel`, `MediaReachesProvider`, `StepsAnsweredOnce`, `TriesBounded`, in
  three layers. The lists: what `Among`, `Narrow` and `Candidates` leave of a list is
  part of it, in its order, and fits the preference if anything does, by induction on
  its length. The router: `RouterInv` says of each request that what was sent and
  what is left are what was offered (`InOrder`), that what was offered answers the
  preference and the keys at the filter (`OfferedFor`), that a model once written to
  `req.model` is the caller's, or one of those offered (`Named`), and where the loop
  stands (`At`); each step of `ModalityRouter` keeps it, whatever the service around
  it does. The service: `ConvInv` ties the stage to the plan, so that what was paid
  for is the plan up to the step under way (`Tracks`, `Asks`, `Paid`, `Hopping`), what
  an adapter reads by a media route is what the caller sent (`Reads`), and the
  dispatches so far are within what the steps before may have used (`Tried`). What
  the service prefers at each stage (`Prefers`) turns what `Named` says of the
  router's call into what the two properties say of the request: the caller's model
  on its own route, a listed one from the fallback on, where each step has a request
  object of its own. The tables of endpoints,
  adapters and pipelines enter by three lemmas (`EndpointTable`, `MethodsFit`,
  `RouteTable`). Assumed are `CatalogueAssumption` (no pair is listed twice for a
  conversion), `ConversionAssumption` (the map was built from what the adapters
  list, as `build_capability_map` does, and an adapter that asks for a model of its
  own lists that one, as OpenAI's whisper-1), `MethodsAssumption` (an adapter has a method
  for what it lists; the tables satisfy it) and `RouterAssumption` (no error is named like an answer).

Induction. The library's theorems of induction take an operator and cannot be
used; `InductionOn` (in `Conversion_proofs`) and the lemmas on sums and on
finite sets (in `ChatService_proofs`) are proved from the library's `WFMin`
for sets instead.

Only model-checked: the liveness properties, `CallsAreAnswered`,
`CircuitRecovers`, `AdmitsAgain`, `PhasesEnd`, `ConversionsAreAnswered`,
`StreamsEnd`, `LockEnds`, `JobsEnd` and `DeletedKeysAreForgotten`
(TLAPS does not treat fairness and ENABLED).

## 5. Findings

Two statements of the repository are refuted by a run:

- `router_pair`: router.py:4 and README.md:216-220 describe failover over
  (provider, model) pairs; `req.model = req.model or model_id` (router.py:89)
  keeps the first candidate's model for the next provider.
- `jobs_url`: video.py:219 says a completed job's result is the URL; a failed or
  unfinished Replicate prediction is returned as a success without output. The
  property speaks of jobs that Replicate answered; at Fal a POST answered with
  neither a video nor a `request_id` ends the same way (fal/adapter.py:49-51).

Five are stated in a module, are false of it, and can be seen by naming them in
the run's configuration, as an INVARIANT but for `UnlocksItself`, a PROPERTY:

- `SharedAcrossWorkers` (ProviderRetry, with two workers): README.md:224 and
  retry.py:3 say the breaker is shared via Redis; `circuit_breaker` is built without
  a client and nothing injects one, so each worker has its own.
- `CacheIsExact` (ChatService, with two settings): README.md:42 and cache.py:3
  promise an exact-match cache; the key leaves out `max_tokens`, `tools` and
  `tool_choice`.
- `RefreshedOnce` (AuthService): auth.py:107 says a refresh token is revoked so that
  it cannot be reused; the blacklist is read and written with awaits in between, so
  two requests at the same time both get new tokens. `UsesBounded` says how many can.
- `UnlocksItself` (AuthService): README.md:54 promises automatic unlock; INCR and
  EXPIRE are two commands, and if every login counted is cut short between them, the
  account stays locked. `LockEnds` says that this is the only case.
- `ConversionReadsInput` (Conversion): conversions.py:25 shows image→text with a
  file id as the input; it is put into `prompt`, and vision and transcription read
  `input_url` and `input_data`. The picture never reaches a provider.

Read from the code (each in `PROJECT.json` with its quotation):

- OpenAI's transcription asks for whisper-1 whatever model the caller names
  (openai/adapter.py:118), and a named model that no candidate lists is neither
  refused nor replaced, but passed on to whoever is tried (router.py:72-75, 89);
- in the Redis breaker the caller that makes the circuit half open takes no probe
  lock (retry.py:97), so a second one is let through as well; in the breaker that is
  in use there is no half-open state at all, and README.md:226's single probe is
  every call after the recovery time (retry.py:142-146);
- a pipeline's step with an empty result hands on its own input (pipeline.py:62);
- speech, and Google's images, are answered with an empty `file_url`: the adapters
  leave the upload to the caller, and no caller uploads;
- of a list of texts only the first is embedded (embeddings.py:65);
- a blocked chat message raises a TypeError, not the 422 (chat_service.py:57);
- `FileService` has no `delete`, which `routes/files.py:167` calls;
- the SSE heartbeat (streaming.py:49-53) is never merged into the stream;
- the WebSocket route depends on a `Request` and so cannot be called
  (routes/chat.py:42);
- tools are dropped by all mappings but Ollama's;
- a failed video job leaves its HTTP clients open (video_generation.py:68);
- `batch_transcribe` transcribes nothing.

Noticed besides: the ranker of README.md:39 and 212-220 is
never constructed; nothing checks budgets (README.md:75) or writes the audit log
(README.md:55); tiers and endpoints are never passed to the limiter
(deps.py:68-74), so that README.md:414-415 hold for the free tier only, and there
for a burst of 30 on top of the refill; two keys for one provider make every
uncached lookup raise (key_repo.py:26); a key error ends failover
(router.py:88); the poll's `queued` state (video.py:218) is answered 404; a job
that is cancelled by timeout stays `processing`, and one whose Fal predictions
stay queued always is: four attempts of three minutes exceed the ten of
worker.py:15, so it never gets to Replicate; `job:<id>:error` and `:progress`
are never written; a chat request that names no provider and model never hits the
cache, for the entry is stored under the names of who answered
(chat_service.py:73, 184); five of the dialects skip a line that carries an
error, so such an answer ends as if it were whole; a stream leaves no message,
usage or cache entry.

## 6. Not modelled, and plan

Not modelled:

- the WebSocket loop, since no call reaches it;
- the ranker, which nothing constructs;
- cost arithmetic, report queries, guardrail patterns, file parsers, the
  adapters' payloads and token counts, metrics and logging: pure functions or
  reads, with no part in a protocol (what they may decide is a choice in the
  models: a blocked message, an unparsed file, an empty result);
- encryption of keys, hashing of passwords; registration, where the second of two
  concurrent requests fails on the database's unique constraint;
- the order of messages within one transaction (both get its timestamp), and the
  conversation id inside a cached answer;
- whether Redis failed before or after a provider had answered, which would tell a
  lost answer from a failed call in `RedisBreaker`;
- start-up and shutdown.

Next, in this order:

1. `ChatService` over the steps of `ModalityRouter` in place of its single choice,
   and `UserKeys` as an implementation of `KeyStore`.
2. An abstract breaker (closed, open, half open, with a time of recovery) that
   `RedisBreaker` implements up to the races it allows.
3. A promise for the callers of `/conversions`, as `EventStream` is one for those
   of a stream.
