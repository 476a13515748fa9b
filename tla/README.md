# A TLA+ verification project for aws-model-router

The repository is a serverless router for language models: a client names a capability
and an application, the router's policy decides which model answers, tries others when
one fails, keeps an audit record of every decision, and is meant never to run two
identical requests at once. These modules model that logic from the code under `src/src/`; TLC
checks them on small instances, and TLAPS proves the most important results for every
size. `PROJECT.json` lists runs, mutants, findings, hazards, theorems, and for every
definition the source lines it stands for.

## Inventory

| Part | State | Operations | Talks to |
|---|---|---|---|
| Route evaluation (`domain/`, `application/route_evaluation_service.py`) | none of its own; catalogue and policies are immutable | `evaluate` | catalogue, policy repository, model health |
| Model health (`adapters/memory/in_memory_model_health_repository.py`) | consecutive failures per model, per process, under a lock | `get_health`, `record_outcome` | read by route evaluation, written by the orchestrator |
| Invocation orchestrator (`application/invocation_orchestrator.py`) | local variables of each call | `invoke`, `invoke_stream` | everything below |
| Idempotency store (`adapters/dynamodb/dynamodb_idempotency_store.py`) | one item per (application, key), with an expiry | `reserve`, `complete`, `release` | DynamoDB, shared by all Lambda environments |
| Decision repository (`adapters/dynamodb/dynamodb_decision_repository.py`) | one audit record per decision | `save`, `get` | DynamoDB |
| Provider adapters (`adapters/bedrock`, `adapters/openai`, `adapters/common`, `composite_model_provider.py`) | local variables of each call | `invoke`, `invoke_stream` | Bedrock, OpenAI |
| Catalogue (`adapters/config/local_model_catalogue.py`) | models by alias and by capability, loaded once | constructor, two lookups | a file |
| Policy repository (`adapters/config/local_policy_repository.py`) | a cache, the default policy and a loaded flag | `resolve` | files |
| Event and metrics publishers | none | `publish` (never raises) | EventBridge, CloudWatch |
| API handler (`handlers/`) | the services, built by the first call an environment serves | six routes; status and error mapping | all of the above |
| In-memory idempotency store and decision repository (`adapters/memory/`) | dicts under a lock | the ports' | stand in for DynamoDB in tests and locally |
| Fakes, scripts, CDK | test and deployment support | | |

**How they interact.** A Lambda environment serves one HTTP request at a time; several
environments share the two tables and nothing else. `invoke()` reserves the key,
evaluates the route, calls models one after the other, saves the audit record, emits
metrics and an event, completes the key, and returns. A library user may have several
`invoke_stream()` generators open in one process, interleaved pull by pull.

**What is hard.** Each of those calls can fail, be applied and lose its answer, or be
the last thing its environment does. Reads of the table may be stale, clocks differ, and
DynamoDB deletes expired items at any time. Health is read at evaluation and used later.
A stream has side effects only at its end, which the caller may never reach. Retries
happen in three layers (client, chain of models, adapter). `PROJECT.json` lists these
under "hazards", at their lines, with the property that would catch each.

**What makes each part correct.** Route evaluation stays within the policy and explains
itself. The store lets at most one request per key invoke, as long as it keeps its records, and
frees every key. The
chain tries distinct eligible models, within its cap, and stops at a permanent failure.
The audit record exists before anybody sees a result, and tells the truth. A stream
comes from one model and is recorded once. An adapter retries only what may pass and
speaks to the right API. To its clients the function tells one story per decision: the
same record through every endpoint, the same answer to every retry, and a status that
says whether a model was paid for, whether the key is free again and whether waiting
helps.

## Modules

| Module | Models | Correspondence |
|---|---|---|
| `RouterTypes` | enumerations, the status and reason code of an error category | reason codes are a set: the code sorts them canonically and drops duplicates |
| `RouteEvaluation` | effective requirements, candidate evaluation, strategies, cohorts, cost | one operator per function of `domain/`; money in nano-USD, so rounding is exact |
| `HttpMapping` | `error_mapping.py`, `request_mapping.py`: statuses, refused bodies, the route object, the listing of `/v1/models` | an exception is its class, a body the way it is wrong |
| `RouteEvaluationService` | the same request evaluated again while health changes (`/v1/routes/evaluate`) | state: policy, request, health, decision |
| `ModelHealth` | the failure counters | two operators, used on each environment's counters |
| `FallbackChain` | `_build_candidate_chain`, `_aggregate_decision`, results and records | shared by the two orchestrators; the chain is consumed one alias at a time |
| `DynamoIdempotencyStore` | put condition, items, what a read item means | operators on one item |
| `InvocationOrchestrator` | `invoke()` in several environments over shared tables | `pc` and `frame` are a call's position and locals; one action per remote call and outcome; `table` and `replica` are the idempotency table and a lagging copy |
| `IdempotencyContract` | what the port `IdempotencyStore` promises, with atomic steps and no time | abstract: callers ask, are granted the key or turned away, record, complete, leave |
| `InMemoryIdempotencyStore` | the store of the tests | operators on one record: each method holds the lock throughout |
| `IdempotencyRefinement` | the orchestrator as an implementation of the contract; DynamoDB and in-memory store compared | refinement mapping |
| `PolicyRepository` | `resolve()`, its cache, the default policy and its flag | operators on one process's repository; a file is a policy, absent or bad, and may be unreadable for once |
| `ApiHandler` | `handler()`, `dispatch()` and the endpoints over orchestrator, policy repository and decision table | `services[e]` is `_SERVICES` of an environment, `response[c]` what a client got; the steps of an inference are the orchestrator's, joined with what they do to the repository and the response |
| `StreamingOrchestrator` | `invoke_stream()` and its callers | one action per resumption of the generator |
| `ProviderAdapter` | catalogue load, dispatch, resolution, retries, classification, parsing | both adapters at once: where they differ (exceptions, events) the definition takes the provider |
| `MC*` | instances for TLC | |
| `RouteEvaluationLemmas`, `RouteEvaluationServiceProofs` | proofs about route evaluation | the lemmas are used by both orchestrators' proofs |
| `InvocationOrchestratorProofs`, `InvocationLoopProofs` | proofs about `invoke()`: types and exclusion; the fallback loop, health, results | the second builds on the first |
| `IdempotencyRefinementProofs` | proof that the orchestrator implements the contract of the port | |
| `StreamingOrchestratorProofs`, `ProviderAdapterProofs`, `ApiHandlerProofs` | proofs about those modules | the last builds on `InvocationLoopProofs` |

`RouteEvaluation` is extended by both orchestrators: the decisions they handle are real
decisions, not arbitrary records. `DynamoIdempotencyStore` and `ModelHealth` hold the
data rules of their components; the orchestrators own the variables, because the steps
of these components interleave with everything else. A definition commented "Seeded
fault" is a plausible mistake at the place of the definition that follows it; no
specification uses it. Each shows that a property can fail (`PROJECT.json`, "mutants").
The map names one adapter's lines for definitions of `ProviderAdapter` that stand for
both; the other adapter's are their mirror image.

Abstractions worth knowing:

* A message is its length; a request's content is its hash; a response is the alias of
  the model that gave it. A stream's id and a request's id double as decision id (the
  generator of ids is taken to give unique ones).
* SHA-256 is an arbitrary function from subjects to the hash space.
* `put_item` in `reserve` reads the clock before it is sent, so the stamp is kept in the
  frame; the put happens later. `complete()` does the same, so its stamp is read as the
  request leaves `Publish`.
* botocore sends a call again when its answer was lost. For the put of `reserve()` this is
  `PutAnswerLost`; for the unconditional writes of `complete()` and `release()` it is
  `CompleteAnswerLost` and `ReleaseAnswerLost`: the write is applied and the request stays
  where it is, `resending`, while anybody else may move. A repeat that hits an item other
  than the one it wrote is remembered in the history variable `unguarding`, as is a
  `reserve()` that gave up.
* Metrics and event publishing swallow every exception, so they are one step that may
  lose the event. Tracing, logging, latencies and the wording of errors are left out.
* `complete()` and `release()` overwrite and delete without looking, as in the code.
* A provider's fault is what went wrong; the exceptions an SDK may raise for it are sets
  (`BedrockExceptions`, `OpenAIExceptions`), given to the adapter's own classification. An
  established stream reports faults in its events, with other classes and other spellings
  of the codes, and has sets of its own (`BedrockStreamExceptions`,
  `OpenAIStreamExceptions`).
* In `ApiHandler` only inferences take several steps; every other call writes nothing
  outside its process and is one step. An error response names no decision, as in the code.
* A decision's application is that of its request (the record keeps no copy).
* An author gives a catalogue entry an id of its own provider
  (`AdapterAssumption`); everything else about a catalogue is unrestricted.

## Runs

| Run | Question | Size |
|---|---|---|
| `route_evaluation` | Is every decision within policy, explained, correctly priced, with proportional and stable cohorts? Is what can be routed to listed, and a final status final? | 82,944 states: 16 policies, 192 requests, every health |
| `idempotency` | When do two identical requests invoke at once? Do retries get one result? Does the whole implement the port's contract? | 677,027 states: 3 requests, 2 environments, 2 instants |
| `replay` | Is a replayed result the right one, and the in-memory store a faithful stand-in? | 1,430,135 states: 3 requests, one with other content |
| `fallback` | Are chain and audit right under every provider failure, is a failing model left alone, and does every step lead on? | 424,885 states: 3 models, 1 request that may call them all, 2 whose preferred model is too dear |
| `liveness` | Does every request end, is every lock short, every key freed? | 403,762 states: 2 requests, one clock fast |
| `streaming` | Are streams single-sourced, recorded once with all their attempts, and healthy? | 105,064 states: 2 streams of 5 kinds |
| `provider` | Are retries bounded, errors classified alike, APIs not confused, streams whole? | 1,325,230 states: every catalogue of up to 2 entries |
| `api` | What may clients conclude from their answers? | 661,370 states: 2 inferences under one key, 1 call of any other kind by 3 applications, 2 environments |
| `never_both`, `explained`, `silent_fallback`, `provider_failures` | violations, see Findings | |

**Bounds.** `StaleReservationSeconds`, `LambdaTimeout`, `DegradedAfter` and
`UnavailableAfter` are scaled down (0 to 2 instead of 300, 30, 3, 5), keeping their
order and the assumption the deployment satisfies: a request's life and the clock skew
fit into the time a reservation is honoured (`TimeoutAssumption`). In `liveness` requests
live on while time passes; time matters only around one expiry, so `MaxTime` is a little
beyond the last possible one, and `LastStart` keeps requests from starting so late that the
clock stops under them. In `idempotency` requests start at either of two instants and end
within theirs (`LambdaTimeout` is 0), which leaves the whole of a reservation to the skew of
the clocks: what the slow environment reserves at the first instant is expired at the second
on the fast clock and not on its own. In `replay` and `api` all happens at one instant; in `replay` a
result cached by one environment has expired on the clock of the other. Three requests are
what it takes for one to inherit an expired reservation while its owner and another retry
are about, and for a repeated delete of the first to remove the reservation of the second
before the third asks. Two chunks tell a first chunk from a later one; two pieces of text in a
stream do the same for the adapter. A list of fallback aliases that
repeats itself and the selected model, under a cap of three, and one of two aliases that
follows no selected model, under a cap of one, meet all limits of `_build_candidate_chain`;
the second is also the case in which a decision ends without a reason code. The three requests
of `fallback` run in one environment, which is what it takes to call a model once more after it
became unavailable at the second failure. The adapter runs
with the code's own three attempts. Prices are chosen to make sums fall on and beside
the half micro-dollar, and to make two models tie after rounding. In `api` the two inferences share key and application, which lives on
the default policy; the third call is what can disturb or observe them: an evaluation that
fails to load that policy, a lookup, a body that does not parse. The other two applications
have a file of their own, one of them a bad one. Expiry, and what retries get within a
retention, is the subject of `idempotency`, `replay` and `liveness`. The one model fails
permanently or succeeds, so health stays out of it; 402 and 422 are the subject of
`route_evaluation`. The proofs do not depend on any of these values.

**Symmetry** is used for requests, environments and streams that differ in their name
only, and never in the liveness run.

**Deadlock** is checked for `route_evaluation`. The other systems stop when all requests
or streams have ended, so their configurations switch it off; `EveryRequestEnds` says
that stopping early does not happen.

**Refinement** (`ImplementsContract`). The contract has four variables: where each caller
is, what it took away, whose result is recorded, and the keys without a guard. A
caller is *asking* between its first put and the end of `reserve()`, *working* while it is
invoking, *leaving* while its `complete()` or `release()` is carried out and not yet answered,
*gone* after that; the recorded results are the audit records. A key loses its guard when
`reserve()` gives up on it, and when the write of a leaving caller is repeated after another
caller came under the key. Puts, gets, lost answers, expiry, TTL deletions, stale
replicas and calls of the model are then stutters or single steps of the contract. It
follows that NEW is granted to one at a time on guarded keys, that a replayed result was
recorded, by a caller with the same key and content that has ended, and that a conflict is
never invented. `DoublesAgree` (run `replay`) compares the two stores on every item that the
table holds: they agree on all but the second of the expiry, where the in-memory store (`now <
expires_at`) frees a record and DynamoDB (`expiresAt < :now`) still honours it. Tests that
pass on the stand-in therefore say nothing about that second; `OneInvocationPerKey` does,
and it depends on it.

**Fairness** (`FairSpec`). Lambda runs the code it was given and every remote call
answers or raises, after a bounded number of repeats, because both SDKs have timeouts and
count their attempts: a request in flight keeps moving. This is weak fairness of the steps of
`Advance(r)` that move `r` (a repeated write need not), one of which is possible exactly while
`r` is in flight, written without `ENABLED` to keep TLC fast. Time passes (`WF(Tick)`). Nothing obliges
the TTL to sweep, a replica to catch up, or an environment to die.

## Findings

1. `never_both`: `reserve()` gives up after two rounds and answers NEW without a record.
   If the item vanishes between put and get twice (a release and a new reservation, a TTL
   deletion, or a stale read), two identical requests invoke at once, although
   `domain/idempotency.py` rules that out. `OneInvocationPerKey` states what does hold,
   and is proved: this and finding 5 are the only ways.
2. `explained`: `_aggregate_decision` drops NO_ELIGIBLE_MODEL and a permanent failure adds
   nothing. A request whose strategy selected nothing, and whose fallback is rejected,
   gets a decision with no reason code (against FR-2.4).
3. `silent_fallback`: a fallback model's stream that breaks after its first chunk is
   audited with FALLBACK_SELECTED but `fallback_used` false.
4. `provider_failures`: a response with an unusable token count raises a ValidationError
   past the adapter, where the docstrings promise a ProviderError. The orchestrator then
   neither records the attempt nor tries the next model.

The next four have no run of their own: a property of a passing run states what the code
does, exception included, and says in its comment which sentence of the repository it departs
from.

5. `OneInvocationPerKey`: `complete()` and `release()` write without a condition, and the SDK
   repeats a write whose answer was lost. r1's delete is applied and its answer lost, r2
   reserves and invokes, r1's repeat deletes r2's reservation, r3 reserves: r2 and r3 invoke
   together, and nobody gave up. The store's docstring says that two instances "can never both
   succeed". The same repeat removes or replaces a cached result inside its retention, which
   `RetriesAgree` has to except, and `ImplementsContract` allows as the loss of the guard.
6. `RetryDiscipline`, `OneTaxonomy`: every BotoCoreError but the timeouts is TRANSIENT and is
   sent three times, a ParamValidationError (a defect of the request) and a NoCredentialsError
   included. The docstring says that what is unrecognized "defaults to `PERMANENT`", and
   OpenAI's adapter does that. Within an established ConverseStream it is the other way round:
   throttling and server errors arrive under names that begin with a small letter, which the
   adapter does not know, and are PERMANENT.
7. `AuditedExactlyOnce`: a stream ended by anything but a ProviderError is never recorded,
   although ADR-032 has one record for each stream that "terminally fails".
8. `AttemptsAccounted`: an empty chain in `invoke_stream` is finalized through
   `_aggregate_decision`, whose comment says that it is only called with a non-empty one. The
   NO_ELIGIBLE_MODEL it strips was not stale, and the record of the stream is left without
   that code; `invoke()` keeps it.

Also met while reading:

* A failure that breaks a stream after its first chunk adds no reason code, where the same
  failure before it does (`AttemptsAccounted`).
* The default policy's flag is set before it is loaded: after a failed load one caller is
  told 500 and all later ones, of every application without a file, 403 "no routing policy
  is configured", until the environment ends. `DenialFollowsServerError` states the most
  that holds.
* A body that is JSON but no object, bytes that do not decode, and `requirements` that are
  no object raise outside the handlers' except clauses: 500, where
  `docs/architecture/api-contracts.md` gives 400 to what fails the schema.
* `_SERVICES` is built inside the first `handler()` call, not at import, although the
  comment in `handle_ready` says that a failure "fails Lambda initialization before any
  invocation is handled": it fails that call, and the next one tries again.
* A capability that the policy does not allow is answered 422, where the documented table
  has 403 for the caller and 422 for the catalogue.
* A failed inference that was cached is replayed: retries get its 502 until the retention
  ends (`RetriesAgree`). Error responses carry no decision id, although the decision is
  recorded.
* The put of `reserve()` may be met by its own sender: with the answer lost and the SDK's
  repetition refused, a request is told 409 by its own reservation, which stays until it is
  stale (`OrphansHaveWitness` has to allow for it).
* Both SDK clients retry on their own, which ADR-014's ceiling does not count.

## Proofs

All proofs hold for arbitrary constants that satisfy the named assumptions.

**Route evaluation** (`RouteEvaluationServiceProofs`, lemmas in `RouteEvaluationLemmas`).
The invariant of all of them is that the decision is `Evaluate` of the current policy,
request and health; the work is in the lemmas.

* `TypeCorrect`, `PolicyRespected` (`SelectedWithinPolicy`), `EligibilityExplained`
  (`CodesExplainEligibility`): effective requirements never exceed the policy
  (`EffectiveWithinPolicy`), a candidate's codes and eligibility are what they should be
  (`EvaluateCandidateFacts`), every strategy selects an eligible candidate or none
  (`SelectsEligible`, which needs a least element of a set of naturals).
* `LowestCostIsLow` (`CheapestWins`, ties included) and `CostVerdictExact`
  (`CostVerdictExactToHalfMicro`): quantizing moves an amount by at most 500
  nano-USD (`QuantizeRounds`), so a comparison with a limit is wrong by no more, and one of
  two estimates by no more than twice that.
* `ListingIsComplete` (`RoutableIsAdvertised`): what a policy can select is in the listing
  of `/v1/models`.
* `CohortsGetTheirShare` (`CohortsAreProportional`): the hashes of arm i are those between
  two rounded-up multiples of the hash space, of the weights before it and with it
  (`CohortBounds`), and rounding moves each end by less than one hash (`CohortShare`). What
  the recursive function `CumulativeWeight` computes (`CumulativeWeightEquation`,
  `CumulativeWeightGrows`) is shown without the library's induction theorems: a set of
  counterexamples would have a least element, and the equation of the function leads from it
  to a smaller one.
* Of a step: `CohortsStick` (`CohortIsStable`: a subject keeps its arm, and loses or regains it
  only with the health of that arm's model), `DegradationDecidesNothing`
  (`DegradedIsInformational`), `RefusalsAreFinal` (`RefusalOutlivesHealth`).

Assumptions: a well-formed catalogue (`CatalogueAssumption`), valid policies and requests
(`ConfigurationAssumption`).

**Orchestrator** (`InvocationOrchestratorProofs`). `TypeCorrect` is `Spec => []TypeOK`.
`TypeOK` alone is not inductive: that a chain's next alias is a model rests on the
decision in the frame and on its candidates, so `TypeInv` adds per position what the
frame holds (`LocalOK`, `Callable`).

`ExclusiveInvocation` is `Spec => []OneInvocationPerKey`. The property says nothing about
the table, so it is strengthened to `LeaseInv`, for keys that nobody in `unguarding` carries
(`Guarded`) and for requests that hold one, that is, invoke and have not yet written their
completion or release (`Holding`):

* `Timely`: a request in flight started at most `LambdaTimeout` ago and its stamp is a
  clock reading since then;
* `Leased`: while a keyed request holds its key there is an item under it, which
  expires no earlier than the stale time after the request's start, on its own clock;
* `Alone`: no two requests hold one key.

A put succeeds only on an absent or expired item. By `Leased`, `Timely` and
`TimeoutAssumption` the item of a running request is neither, at any environment's clock
(`PutFindsNobody`), so nobody joins it. A first completion or release is sent by a
request that holds its key, which by `Alone` is the one the item stands for, and which
stops holding it with that very step. A repeated one either finds nothing or the item it
wrote itself, and then no holder is disturbed, or it unguards the key. Killed requests and
lost answers of puts leave items behind and never remove them. A read that finds nothing
leads to invoking only through the second round of `reserve()`, which is recorded in
`unguarding` as well.

`LocksExpire` (`LocksAreShort`) bounds from above what `Leased` bounds from below: an
in-progress item, in the table or in a copy, expires no later than the stale time from now on
some environment's clock. A stamp is never ahead of its clock (`Timely`), a put that is
repeated or late carries the old stamp, and time only shortens what is left. It holds of every
item, of keys without a guard as well.

**The loop and its results** (`InvocationLoopProofs`). A property of an audit record, which
is written at the end, needs to be known of the request that will write it.

* `AttemptsDisciplined` (`FallbackDiscipline`) and `DecisionsTruthful`
  (`DecisionMatchesAttempts`) rest on `LoopInv`: a request in the loop has tried eligible
  models, each once, and all failed in a way that allows another (`Spent`); the reason codes
  collected are those of its attempts (`Collected`); the candidate it is about to call comes
  from the rest of the chain (`Chained`); and a result that leaves the loop is `Truthful`.
  `DecisionMatchesAttempts` also fixes how far finding 2 goes: a decision is left without a
  code only if every model called rejected the request for good.
* `BreakerHolds` (`CircuitBreaker`) and `NoHalfOpen` (`UnavailableUntilRestart`) rest on
  `BreakerInv`: the models a request may still call have not reached the threshold
  (`Unspent`). Health is read once, before the loop, and used after many calls. This is
  sound only because an environment serves one request at a time (`OneServed`) and a request
  calls a model once (`Spent`).
* `BothLoopsEnd` (`WorkShrinks`): a request has at most `StepsLeft` steps to go, and every
  step that moves it, a kill included, leaves it fewer. The measure counts down rounds of
  `reserve()` and calls of models; that neither runs below zero is `RoundsInv`, which says that a
  request in a round has not had its last one, and `Chained`. A write
  whose answer is lost moves its request once, and further repeats of it not at all. No such bound involves other
  requests, so they can delay a request only by what they leave in the table.
* `NothingUnaudited` (`AuditedBeforeSeen`) and `ReplaysAreGenuine` (`ReplayIntegrity`) rest on
  `AuditInv`: a request works on a result of its own (`OwnResult`), audited before
  `complete()` is sent; every completed item, in the table or in a lagging replica, is the
  audited result of a request with that key and content that has ended or is only waiting for
  the answer of `complete()` (`Over`, `Sound`), and so is what a later caller took away
  (`Reported`). Such requests never change their result (`Kept`), so copies may be as old as
  they like. `ResendInv`: only `complete()` and `release()` are sent again without a condition.

**Refinement** (`IdempotencyRefinementProofs`). `StoreKeepsContract` is `Spec =>
ImplementsContract`, step by step: each action of the orchestrator moves one caller
(`OnlyMoves`), and is shown to be one action of the contract or to leave its four
variables alone (`Unseen`). That NEW is granted to one at a time comes from `LeaseInv`, that
replays were recorded from `AuditInv`. That a repeated write takes the guard from a key only
after another caller came under it is `CameInv`: while a write is sent again, its item is gone
or its own, or somebody came. `StandInIsFaithful` (`DoublesAgree`) compares the two
stores for every item and clock; `RecordAssumption` says that "no record" is not a record.

**Provider adapters** (`ProviderAdapterProofs`). `AdapterTypeOK`, `RetriesDisciplined`
(`RetryDiscipline`), `WireIsRight` (`RightWire`), `TaxonomiesAgree` (`OneTaxonomy`) and
`StreamsAreWhole` (`StreamIsWhole`), for any catalogue and any `max_attempts`. `CallInv`:
while the retry loop runs, all calls so far failed in a way that may pass and attempts are
left, and it is only entered for an entry that is registered, capable and resolved
(`Sendable`). `CategoryFacts` compares the two classifications, fault by fault, of calls and of
established streams, down to the exceptions of finding 6. `StreamInv`: a
stream that is being read has yielded deltas only. `AdapterAssumption` says what the author of
a catalogue owes: direct ids belong to the entry's provider, profiles to Bedrock.

**Streaming** (`StreamingOrchestratorProofs`). `StreamTypeOK`, `CommittedToOneModel`
(`OneModelPerStream`), `SavedOnce` (`AuditedExactlyOnce`, which includes that a stream ended by
a foreign exception is not saved), `DelivererIsNamed`
(`DecisionNamesTheDeliverer`), `AttemptsAreAccounted` (`AttemptsAccounted`) and, of a step,
`OutcomesCount` (`HealthFollowsOutcomes`).
`StreamInv` says per position of the generator what it carries towards the record: while
models are tried nothing has been delivered, each attempt was of another eligible model, and
the codes collected are those of its failures (`Trying`); after the first chunk everything
delivered is of the current model, and the result `_finalize_stream` is entered with is
already `Told` as the record will be. `DecisionNamesTheDeliverer` says exactly how far finding 3
goes: the code without the flag means that a fallback model had delivered something and
then did not deliver all.

**API handler** (`ApiHandlerProofs`). `FunctionRunsOrchestrator` is `ApiSpec => Spec`: every
step of the function is a step of the orchestrator or leaves it alone, so what is proved
above holds behind the handler, for whatever clients send. Two more invariants of the orchestrator
are needed: `RecordInv` (an audit record is written once, by a request that goes on to answer
for it) and `RetentionInv` (a cached result stays, and stays the only one, while retained and
guarded; a `complete()` that is sent again finds it as it wrote it).
Of the function itself, `ApiInv`:

* `RepositoryInv`: a repository holds what the files say (`Faithful`); if its default policy was
  given up on (`Spoiled`), somebody was told 500 for it (`Confessed`) or is about to be, on the
  way through `release()` (`Confessing`). The flag that is set before the default is
  loaded makes this a history property: the 403s follow from an earlier 500.
* `CallInv`: while a request is past evaluation its policy is in memory (`Settled`), and the
  exception carried to `release()` is one that is justified by then.
* `AnswerInv`: what is known of each answer when it is given stays true of it.

A step of an inference is of one of five kinds (`KeepsGoing`, `MustRelease`, `SendsAgain`,
`Succeeded`, `Failed`; lemma `InferenceKinds`), and the invariant is shown for each kind rather than for each
of the orchestrator's actions. From it follow `ApiTypeCorrect`, `OneStoryHolds`
(`OneStory`), `ClientErrorsFree` (`ClientErrorsAreFree`), `DenialsExplained`
(`DenialFollowsServerError`), `PolicyStaysSettled` (`PolicySettledWhileInvoking`),
`RetriesGetOneResult` (`RetriesAgree`, of the orchestrator; run `idempotency`) and
`RetriesGetOneAnswer`, which carries it over to the answers of the API (`RetriesAnsweredAlike`,
without a run: three inferences at two instants are out of TLC's reach behind the handler).
`OrphansWitnessed` (`OrphansHaveWitness`) needs one more:
for every reservation in the table there is a request, of that key, that is in flight or whose
end excuses it (`Excused`). Assumptions: `FilesAssumption` (`PolicyOf` is what the files
say), `CallsAssumption` (ids are unique, a body that parses is a request),
`AbsenceAssumption` ("none" is not a value).

Two properties had to be stated more carefully before they could be proved. `RetriesAgree`
holds while no clock has passed the end of the retention; the clocks that count include real
time, because the table's TTL sweeps by it and not by an environment's clock
(`WithinRetention`). The 500 that `DenialFollowsServerError` points to must be one given to an
application: answers to calls without one prove nothing about the default policy. No
instance of the runs tells these statements from the looser ones.

**Checked by TLC only.** Liveness: `EveryRequestEnds` and `KeyIsFreed` need fairness, ENABLED
and an induction over time. Their safety halves are proved: `WorkShrinks` and `LocksAreShort`
leave only that requests move and time passes, which is what `FairSpec` assumes. The violations
are counterexamples and need no proof. Every other property of a passing run is the subject
of a theorem. The type invariants of `StreamingOrchestrator` and `ApiHandler` are proved and
need no run.

## Not modelled

YAML and JSON parsing and pydantic's field checks (only whether they fail), payload
building for the two APIs, the contents of metrics and events, the usage figures and
timestamps of responses, tracing and logging, the authorization in front of the function
(API Gateway and IAM), the CDK stacks (but for the timeout and the TTL), the in-memory
decision repository (a dict behind a lock), and the scripts, which drive the library and
keep no state.

## Plan

Order of work; all items are done.

1. `RouterTypes`, `RouteEvaluation`, `RouteEvaluationService`; run `route_evaluation`.
2. `ModelHealth`, `DynamoIdempotencyStore`, `InvocationOrchestrator`; runs `idempotency`,
   `replay`, `fallback`, `never_both`, `explained`.
3. `FairSpec` and the run `liveness`.
4. Proofs of route evaluation.
5. Proofs of `TypeCorrect` and `ExclusiveInvocation`.
6. `FallbackChain` split out.
7. `StreamingOrchestrator`; runs `streaming`, `silent_fallback`.
8. `ProviderAdapter`; runs `provider`, `provider_failures`.
9. `HttpMapping`, `PolicyRepository`, `ApiHandler`; run `api`.
10. `IdempotencyContract`, `InMemoryIdempotencyStore`, `IdempotencyRefinement`, checked in
    the runs `idempotency` and `replay`.
11. Proofs about the loop, health and results of `invoke()`, the rest of route evaluation,
    `StreamingOrchestrator` and `ProviderAdapter`.
12. Proof of `ImplementsContract`, from `LeaseInv` and `AuditInv`.
13. Proofs about `ApiHandler`.
14. What recorded streams owe to their attempts: `AttemptsAccounted`, checked and proved.
15. Proof of `CohortsAreProportional`; `WorkShrinks` and `LocksAreShort`, checked and proved;
    `DecisionMatchesAttempts` and `DecisionNamesTheDeliverer` sharpened to the extent of
    findings 2 and 3.
16. The SDK's repeats of `complete()` and `release()`, botocore's own errors, errors inside
    established streams, streams ended by foreign exceptions: findings 5 to 8, with what
    rests on them restated and proved again.

Left: every safety property that the runs check is proved, and liveness is out of the prover's
reach. Worth adding is what is listed under Not modelled, beginning with the contents of
metrics and events.
