----------------------------- MODULE ApiHandler -----------------------------
(***************************************************************************)
(* The Lambda function behind API Gateway (handlers/api_handler.py): the   *)
(* orchestrator, the policy repository and the decision table composed     *)
(* into what a client sees.  A call is one HTTP request; the members of    *)
(* Requests are POST /v1/inference with a valid body, whose steps are the  *)
(* orchestrator's.  Every other call is answered in one step: it writes    *)
(* nothing outside its own process.                                        *)
(***************************************************************************)
EXTENDS InvocationOrchestrator, PolicyRepository, HttpMapping

CONSTANTS
    Others,         \* calls that are not in Requests
    EventsOf,       \* [Others -> set of events such a call may be]
    NoServices,     \* _SERVICES is None
    NoResponse,     \* the call has not been answered
    NoId            \* a response that shows no decision, a path without an id

Calls == Requests \cup Others

\* PolicyOf is what the files say; None is no file.
ASSUME FilesAssumption ==
    /\ \A a \in Applications :
          LET file == IF ApplicationFile[a] = NoFile THEN DefaultFile ELSE ApplicationFile[a]
          IN  PolicyOf[a] = IF file \in {NoFile, BadFile} THEN NoPolicy ELSE file
    /\ DOMAIN ApplicationFile = Applications
    /\ \A file \in {DefaultFile} \cup {ApplicationFile[a] : a \in Applications} :
          file # NoPolicy /\ file # NotLoaded

\* Decision ids are unique; a body that parses is a request of some application.
ASSUME CallsAssumption ==
    /\ Others \cap Requests = {} /\ NoId \notin Calls
    /\ \A c \in Others : \A event \in EventsOf[c] :
          /\ event.endpoint = "decision" => event.application \in Applications \cup {NoId}
          /\ event.endpoint = "evaluate" /\ event.body = "valid" =>
                ValidRequest(event.request) /\ event.request.application \in Applications

VARIABLES
    services,       \* per environment: _SERVICES, of which the policy repository
                    \* is kept (the health counters are failures[e])
    raised,         \* the exception a request is about to leave invoke() with
    response        \* what each call was answered

apiVars == << vars, services, raised, response >>

-----------------------------------------------------------------------------
(* Responses. *)

\* endpoint, application and decision are those of the call that is answered;
\* shows and route are those of the decision in the body.
Failure(endpoint, application, error) ==
    [ endpoint |-> endpoint, application |-> application, status |-> error.status,
      code |-> error.code, shows |-> NoId, route |-> NoId ]

Success(endpoint, application, shows, route) ==
    [ endpoint |-> endpoint, application |-> application, status |-> 200, code |-> "none",
      shows |-> shows, route |-> route ]

\* The function raised, timed out or died: API Gateway answers for it.
GatewayError == Error(502, "none")

InferenceFailure(r, error) == Failure("inference", Request(r).application, error)

\* handle_inference, after invoke() has returned.
InferenceResponse(r, result) ==
    IF result.decision.selected = NoModel
    THEN InferenceFailure(r, MapNoSelection(result.decision, result.attempts # << >>))
    ELSE Success("inference", Request(r).application,
                 result.decision.decision_id, SerializeRoute(result.decision))

Respond(c, what) == response' = [response EXCEPT ![c] = what]

-----------------------------------------------------------------------------
(* handler(): _SERVICES is built by the first call an environment serves. *)

Available(e) == \A r \in Requests : ~Serving(e, r)

Built(e) == IF services[e] = NoServices THEN FreshRepository ELSE services[e]

\* The call reaches dispatch() in environment e, and leaves the repository so.
Dispatched(c, e, repository) ==
    /\ response[c] = NoResponse /\ now <= LastStart
    /\ Available(e)
    /\ services' = [services EXCEPT ![e] = repository]

\* build_services() raises: a catalogue or table name is missing, a secret cannot
\* be read.  _SERVICES stays None, and the next call tries again.
InitializationFails(c, e) ==
    /\ response[c] = NoResponse /\ now <= LastStart
    /\ c \in Requests => pc[c] = "idle"
    /\ Available(e)
    /\ services[e] = NoServices
    /\ Respond(c, Failure("none", NoId, GatewayError))
    /\ UNCHANGED << vars, services, raised >>

-----------------------------------------------------------------------------
(* The endpoints that are answered at once. *)

\* GET /health, /ready and /v1/models, any other path, and bodies that do not
\* parse.  (What /v1/models lists is SerializeModelsResponse.)
HandleStatic(c, e, event) ==
    /\ Dispatched(c, e, Built(e))
    /\ \/ event.endpoint \in {"health", "ready", "models"}
          /\ Respond(c, Success(event.endpoint, NoId, NoId, NoId))
       \/ event.endpoint = "unknown"
          /\ Respond(c, Failure("unknown", NoId, Error(404, "NOT_FOUND")))
       \/ event.endpoint \in {"inference", "evaluate"} /\ event.body # "valid"
          /\ Respond(c, Failure(event.endpoint, NoId, BodyError(event.body)))
    /\ UNCHANGED << vars, raised >>

\* POST /v1/routes/evaluate: a decision with an id of its own, which nobody saves.
HandleEvaluate(c, e, event) ==
    /\ event.endpoint = "evaluate" /\ event.body = "valid"
    /\ \E readable \in BOOLEAN :
          LET a        == event.request.application
              resolved == Resolve(Built(e), a, readable)
              health   == [m \in Models |-> GetHealth(failures[e], m)]
              d        == Evaluate(c, event.request, resolved.policy, health)
          IN  /\ Dispatched(c, e, resolved.repository)
              /\ Respond(c, IF resolved.raises = "none"
                            THEN Success("evaluate", a, c, SerializeRoute(d))
                            ELSE Failure("evaluate", a, MapException(resolved.raises)))
    /\ UNCHANGED << vars, raised >>

\* Seeded fault: any application may look.
DecisionResponseToAnyone(event, record) ==
    IF record = NoRecord
    THEN Failure("decision", event.application, Error(404, "NOT_FOUND"))
    ELSE Success("decision", event.application,
                 record.decision.decision_id, SerializeRoute(record.decision))

\* GET /v1/decisions/{decisionId}, once the record was read.  The application of
\* a decision is that of the request it was made for.
DecisionResponse(event, record) ==
    IF record = NoRecord
    THEN Failure("decision", event.application, Error(404, "NOT_FOUND"))
    ELSE IF event.application # Request(record.decision.decision_id).application
    THEN Failure("decision", event.application, Error(403, "POLICY_DENIED"))
    ELSE Success("decision", event.application,
                 record.decision.decision_id, SerializeRoute(record.decision))

\* The read is eventually consistent: it may miss a record that was just saved.
ReadableRecords(d) == {NoRecord} \cup {audit[r] : r \in Requests \cap {d}}

\* An error of the read, as of anything else in dispatch, is a 500.
HandleGetDecision(c, e, event) ==
    /\ event.endpoint = "decision"
    /\ Dispatched(c, e, Built(e))
    /\ IF event.decision = NoId
       THEN Respond(c, Failure("decision", event.application, Error(400, "INVALID_REQUEST")))
       ELSE \/ \E record \in ReadableRecords(event.decision) :
                   Respond(c, DecisionResponse(event, record))
            \/ Respond(c, Failure("decision", event.application, MapException("ClientError")))
    /\ UNCHANGED << vars, raised >>

-----------------------------------------------------------------------------
(* POST /v1/inference: the steps of invoke(). *)

StartInference(r, e) ==
    /\ Dispatched(r, e, Built(e))
    /\ Start(r, e)
    /\ UNCHANGED << raised, response >>

\* The exception is mapped now, or after the reservation has been released.
Fails(r, exception) ==
    IF pc'[r] = "done"
    THEN /\ Respond(r, InferenceFailure(r, MapException(exception)))
         /\ UNCHANGED raised
    ELSE /\ raised' = [raised EXCEPT ![r] = exception]
         /\ UNCHANGED response

Returns(r) ==
    /\ IF pc'[r] = "done" THEN Respond(r, InferenceResponse(r, returned'[r]))
       ELSE UNCHANGED response
    /\ UNCHANGED raised

\* Steps that neither need a policy nor end the call.
Proceed(r) ==
    /\ \/ PutAccepted(r) \/ PutAnswerLost(r) \/ PutRefused(r) \/ GetVanished(r)
       \/ ProviderSucceeds(r) \/ Persist(r) \/ ReleaseAnswerLost(r)
       \/ \E category \in ProviderErrors : ProviderFails(r, category)
    /\ UNCHANGED << services, raised, response >>

Answer(r) ==
    /\ \/ ReserveRaises(r) /\ Fails(r, "ClientError")
       \/ GetRejected(r) /\ Fails(r, IF outcome'[r] = "conflict" THEN "IdempotencyConflictError"
                                     ELSE "IdempotencyInProgressError")
       \/ GetReplayed(r) /\ Returns(r)
       \/ ProviderRaises(r) /\ Fails(r, "Exception")
       \/ PersistRaises(r) /\ Fails(r, "ClientError")
       \/ Publish(r) /\ Returns(r)
    /\ UNCHANGED services

\* resolve() in the environment serving r, on behalf of r's application.
ResolveFor(r, readable) ==
    Resolve(services[frame[r].env], Request(r).application, readable)

KeepRepository(r, resolved) ==
    services' = [services EXCEPT ![frame[r].env] = resolved.repository]

\* evaluate() resolves the policy, and _invoke_uncached at once a second time.
EvaluateInference(r) ==
    /\ pc[r] = "evaluate"
    /\ \E readable \in BOOLEAN :
           LET resolved == ResolveFor(r, readable)
           IN  /\ KeepRepository(r, resolved)
               /\ IF resolved.raises = "none"
                  THEN EvaluateRoute(r) /\ UNCHANGED << raised, response >>
                  ELSE PolicyUnresolved(r) /\ Fails(r, resolved.raises)

\* _invoke_with_idempotency resolves it a third time, to complete the key.  (A
\* repeat of the write resolves nothing, but see PolicySettledWhileInvoking.)
CompleteInference(r) ==
    /\ pc[r] = "complete"
    /\ \E readable \in BOOLEAN :
           LET resolved == ResolveFor(r, readable)
           IN  /\ KeepRepository(r, resolved)
               /\ IF resolved.raises = "none"
                  THEN \/ Complete(r) /\ Returns(r)
                       \/ CompleteRaises(r) /\ Fails(r, "ClientError")
                       \/ CompleteAnswerLost(r) /\ UNCHANGED << raised, response >>
                  ELSE CompleteRaises(r) /\ UNCHANGED table /\ Fails(r, resolved.raises)

\* release() works and the exception goes on its way, or release() raises its own.
ReleaseInference(r) ==
    /\ Release(r)
    /\ \/ /\ table'[ItemKey(r)] = Released
          /\ Respond(r, InferenceFailure(r, MapException(raised[r])))
       \/ Respond(r, InferenceFailure(r, MapException("ClientError")))
    /\ raised' = [raised EXCEPT ![r] = "none"]
    /\ UNCHANGED services

\* Lambda ends the environment and with it the services it built.
EndEnvironment(e) ==
    /\ Kill(e)
    /\ services' = [services EXCEPT ![e] = NoServices]
    /\ raised' = [r \in Requests |-> IF Serving(e, r) THEN "none" ELSE raised[r]]
    /\ response' = [c \in Calls |-> IF c \in Requests /\ Serving(e, c)
                                    THEN InferenceFailure(c, GatewayError) ELSE response[c]]

\* Time, the tables' TTL and replication go on whatever the function does.
Elapse ==
    /\ Tick \/ \E k \in ItemKeys : TtlSweep(k) \/ Replicate(k)
    /\ UNCHANGED << services, raised, response >>

-----------------------------------------------------------------------------
ApiInit ==
    /\ Init
    /\ services = [e \in Envs |-> NoServices]
    /\ raised = [r \in Requests |-> "none"]
    /\ response = [c \in Calls |-> NoResponse]

ApiNext ==
    \/ \E c \in Others, e \in Envs : \E event \in EventsOf[c] :
          HandleStatic(c, e, event) \/ HandleEvaluate(c, e, event) \/ HandleGetDecision(c, e, event)
    \/ \E c \in Calls, e \in Envs : InitializationFails(c, e)
    \/ \E r \in Requests, e \in Envs : StartInference(r, e)
    \/ \E r \in Requests :
          \/ Proceed(r) \/ Answer(r)
          \/ EvaluateInference(r) \/ CompleteInference(r) \/ ReleaseInference(r)
    \/ \E e \in Envs : EndEnvironment(e)
    \/ Elapse

ApiSpec == ApiInit /\ [][ApiNext]_apiVars

-----------------------------------------------------------------------------
(***************************************************************************)
(* Types.                                                                  *)
(***************************************************************************)
Endpoints == {"health", "ready", "models", "unknown", "inference", "evaluate", "decision", "none"}
ErrorCodes ==
    {"none", "INVALID_REQUEST", "NOT_FOUND", "POLICY_DENIED", "NO_ELIGIBLE_MODEL",
     "REQUIRED_CAPABILITY_UNAVAILABLE", "COST_LIMIT_EXCEEDED", "PROVIDER_UNAVAILABLE",
     "IDEMPOTENCY_CONFLICT", "IDEMPOTENCY_IN_PROGRESS", "INTERNAL_ERROR"}

\* What may leave _invoke_uncached.
Exceptions == {"ConfigurationError", "RoutingPolicyNotFoundError", "ClientError", "Exception"}

Routes ==
    [ modelAlias : Models \cup {NoModel}, provider : Providers \cup {Unset},
      fallbackUsed : BOOLEAN, reasonCodes : SUBSET RoutingReasonCode ]

Responses ==
    [ endpoint : Endpoints, application : Applications \cup {NoId},
      status : {200, 400, 402, 403, 404, 409, 422, 500, 502}, code : ErrorCodes,
      shows : Calls \cup {NoId}, route : Routes \cup {NoId} ]

Repositories ==
    [ cache : [Applications -> {PolicyOf[a] : a \in Applications} \cup {NotLoaded}],
      default_policy : {DefaultFile, NotLoaded}, default_policy_loaded : BOOLEAN ]

\* None is not a value.
ASSUME AbsenceAssumption ==
    NoId \notin Routes /\ NoResponse \notin Responses /\ NoServices \notin Repositories

\* The type invariant; a response shows an id and a route, or neither.
ApiTypeOK ==
    /\ services \in [Envs -> Repositories \cup {NoServices}]
    /\ raised \in [Requests -> Exceptions \cup {"none"}]
    /\ response \in [Calls -> Responses \cup {NoResponse}]
    /\ \A c \in Calls : response[c] # NoResponse =>
          (response[c].shows = NoId <=> response[c].route = NoId)

-----------------------------------------------------------------------------
(***************************************************************************)
(* Safety.                                                                 *)
(***************************************************************************)
Answered(c, statuses) == response[c] # NoResponse /\ response[c].status \in statuses

\* Whoever is shown a decision, by the inference that made it, by a replay or by
\* GET /v1/decisions, is of the application it was made for, and is shown the
\* route that the decision table holds.
OneStory ==
    \A c \in Calls : Answered(c, {200}) /\ response[c].shows \in Requests =>
        LET d == response[c].shows
        IN  /\ response[c].application = Request(d).application
            /\ audit[d] # NoRecord
            /\ response[c].route = SerializeRoute(audit[d].decision)

\* A 4xx answer to an inference was free: no model was called for it.
ClientErrorsAreFree ==
    \A r \in Requests : Answered(r, 400..499) /\ audit[r] # NoRecord =>
        audit[r].attempts = << >>

\* A key is only left reserved by a call that is still running, that was answered
\* with a 5xx, or whose reserve() met its own lost put.  In particular an answer
\* that invites a corrected retry under the same key (4xx from evaluation) leaves
\* no reservation behind.
OrphansHaveWitness ==
    \A k \in ItemKeys : table[k] # NoItem /\ table[k].status = "in_progress" =>
        \E r \in Requests :
            /\ ItemKey(r) = k
            /\ \/ InFlight(r)
               \/ Answered(r, 500..599)
               \/ outcome[r] \in {"conflict", "in_progress", "replayed"}

\* What RetriesAgree says of results, said of what the clients are answered.
RetriesAnsweredAlike == \A r, s \in Requests : MustAgree(r, s) => response[r] = response[s]

\* 403 says that no policy is configured.  An application with a file of its own
\* is never told so; where a default exists, others are told so only after one of
\* them was answered 500 for it (the flag set before the default is loaded).
DenialFollowsServerError ==
    \A c \in Calls :
        Answered(c, {403}) /\ response[c].endpoint \in {"evaluate", "inference"} =>
            /\ ApplicationFile[response[c].application] = NoFile
            /\ \/ DefaultFile = NoFile
               \/ \E d \in Calls :
                      /\ Answered(d, {500})
                      /\ response[d].endpoint \in {"evaluate", "inference"}
                      /\ response[d].application \in Applications
                      /\ ApplicationFile[response[d].application] = NoFile

\* The policy an inference was evaluated under is the one it is completed under:
\* once evaluated, resolve() answers from memory, so a file that has become
\* unreadable cannot fail a call whose model has been paid for.
PolicySettledWhileInvoking ==
    \A r \in Requests : Invoking(r) /\ pc[r] \notin {"evaluate", "release"} =>
        ResolveFor(r, FALSE) = Found(Policy(r), services[frame[r].env])

=============================================================================
