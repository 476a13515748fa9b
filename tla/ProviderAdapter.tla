-------------------------- MODULE ProviderAdapter --------------------------
(***************************************************************************)
(* The provider side of the router: LocalFileModelCatalogue validates the  *)
(* catalogue at start, CompositeModelProvider picks the adapter of a model *)
(* alias, and the adapter (Bedrock or OpenAI, alike but for their wire)    *)
(* resolves the alias to a provider's model id, calls the provider with    *)
(* bounded retries, classifies what the SDK raises and normalises what the *)
(* provider answers.  A behaviour is one start of the process and one call *)
(* of invoke() or invoke_stream(); calls share nothing but the catalogue,  *)
(* which never changes.                                                    *)
(*                                                                         *)
(* Response text, token counts and stop reasons are abstracted to whether  *)
(* they are there and well formed.  Backoff delays only pass time.  Both   *)
(* adapters stream, so the check that one does is left out.                *)
(***************************************************************************)
EXTENDS RouterTypes, Naturals, Sequences, FiniteSets

CONSTANTS
    CatalogueFiles,     \* the catalogues the process may be started with
    ProviderRequests,   \* the calls it may be given
    ModelIds,           \* the providers' own model identifiers
    MaxAttempts,        \* RetryPolicy.max_attempts
    MaxTexts,           \* bound: the pieces of text of a stream
    None

ProviderName == {"bedrock", "openai"}
Wired == "direct_model_id"
Profile == "cross_region_inference_profile"
Indirect == "router_alias"

\* The provider that knows a model id (a fact about the outside world).
OwnerOf(id) == ModelIds[id]

ASSUME AdapterAssumption ==
    /\ MaxAttempts \in Nat \ {0} /\ MaxTexts \in Nat
    /\ \A id \in DOMAIN ModelIds : ModelIds[id] \in ProviderName
    /\ \A file \in CatalogueFiles : \A i \in DOMAIN file :
          /\ file[i].type \in {Wired, Profile, Indirect} /\ file[i].provider \in ProviderName
          \* An author gives a direct id of the entry's own provider; profiles are Bedrock's.
          /\ file[i].type # Indirect => file[i].value \in DOMAIN ModelIds
          /\ file[i].type = Wired => OwnerOf(file[i].value) = file[i].provider
          /\ file[i].type = Profile => OwnerOf(file[i].value) = "bedrock"

VARIABLES
    file,           \* the catalogue file
    registered,     \* providers with an adapter: OpenAI only with a secret
    request,        \* the ProviderRequest, and whether it is to be streamed
    catalogue,      \* models by alias, None until loaded
    pc,
    attempt,        \* calls of the client so far
    seen,           \* stop reason and usage read from the stream
    outcome,        \* what the caller got in the end
    wire,           \* history: every call of a provider's client and its fault
    texts,          \* history: non-empty pieces of text the provider streamed
    chunks          \* history: what the caller was yielded

call == << registered, request, file >>
vars == << call, catalogue, pc, attempt, seen, outcome, wire, texts, chunks >>

-----------------------------------------------------------------------------
(* LocalFileModelCatalogue.__init__ *)

DuplicateAlias(f) == \E i, j \in DOMAIN f : i # j /\ f[i].model_alias = f[j].model_alias

\* ModelDefinition: only Bedrock has inference profiles.
BadResolution(f) == \E i \in DOMAIN f : f[i].provider # "bedrock" /\ f[i].type = Profile

\* A router_alias may name no entry at all, but not one of another provider.
CrossProvider(f) ==
    \E i, j \in DOMAIN f :
        /\ f[i].type = Indirect /\ f[i].value = f[j].model_alias
        /\ f[i].provider # f[j].provider

\* Seeded fault: targets are not looked at.
AcceptAnyTarget(f) == ~ DuplicateAlias(f) /\ ~ BadResolution(f)

Accepted(f) == ~ DuplicateAlias(f) /\ ~ BadResolution(f) /\ ~ CrossProvider(f)

Aliases(f) == {f[i].model_alias : i \in DOMAIN f}

LoadCatalogue ==
    /\ pc = "start"
    /\ IF Accepted(file)
       THEN /\ catalogue' = [a \in Aliases(file) |->
                               file[CHOOSE i \in DOMAIN file : file[i].model_alias = a]]
            /\ pc' = "ready"
            /\ UNCHANGED outcome
       ELSE pc' = "done" /\ outcome' = "refused" /\ UNCHANGED catalogue
    /\ UNCHANGED << call, attempt, seen, wire, texts, chunks >>

-----------------------------------------------------------------------------
(* Dispatch and resolution: everything checked before the network is touched.*)

Known(alias) == alias \in DOMAIN catalogue
Model == catalogue[request.model_alias]

\* CompositeModelProvider._resolve_provider.
Dispatchable == Known(request.model_alias) /\ Model.provider \in registered

\* check_capabilities, on the entry asked for.
Capable ==
    /\ request.requires_tool_use => Model.supports_tool_use
    /\ request.requires_structured_output => Model.supports_structured_output

\* resolve_target_model_id: one hop at most; None if there is nothing to invoke.
Target ==
    IF Model.type # Indirect THEN Model.value
    ELSE IF Known(Model.value) /\ catalogue[Model.value].type # Indirect
    THEN catalogue[Model.value].value
    ELSE None

\* The call ends.  An error category stands for a ProviderError of it, "raised"
\* for any other exception.
Finish(how) == pc' = "done" /\ outcome' = how

\* invoke() goes on to call the provider; invoke_stream() hands out a generator.
Resolve ==
    /\ pc = "ready"
    /\ IF Dispatchable /\ Capable /\ Target # None
       THEN pc' = (IF request.stream THEN "open" ELSE "calling") /\ UNCHANGED outcome
       ELSE Finish("permanent")
    /\ UNCHANGED << call, catalogue, attempt, seen, wire, texts, chunks >>

FirstPull ==
    /\ pc = "open"
    /\ pc' = "calling"
    /\ UNCHANGED << call, catalogue, attempt, seen, outcome, wire, texts, chunks >>

-----------------------------------------------------------------------------
(* What can go wrong at a provider, how its SDK raises it, and what the     *)
(* adapter makes of that.                                                   *)

\* sdk_error: the SDK itself fails or refuses the call (a parameter, no credentials);
\* unrecognized: the provider answers with an error the adapter does not know.
Faults == {"rate_limited", "timed_out", "unreachable", "server_error", "rejected", "sdk_error",
           "unrecognized"}

\* What an exception without an error code has instead.
NoCode == ""

SdkException(class, code) == [class |-> class, code |-> code]

BedrockExceptions(fault) ==
    CASE fault = "rate_limited" ->
            {SdkException("ClientError", c) : c \in {"ThrottlingException", "TooManyRequestsException"}}
      [] fault = "timed_out" ->
            {SdkException("ClientError", "ModelTimeoutException"),
             SdkException("ConnectTimeoutError", NoCode), SdkException("ReadTimeoutError", NoCode)}
      [] fault = "unreachable" -> {SdkException("EndpointConnectionError", NoCode)}
      [] fault = "server_error" ->
            {SdkException("ClientError", c) : c \in
                {"ServiceUnavailableException", "InternalServerException", "ModelNotReadyException"}}
      [] fault = "rejected" -> {SdkException("ClientError", "ValidationException")}
      [] fault = "sdk_error" ->
            {SdkException(c, NoCode) : c \in
                {"ParamValidationError", "NoCredentialsError", "BotoCoreError"}}
      [] fault = "unrecognized" -> {SdkException("ClientError", NoCode)}

\* Once ConverseStream is established an error is one of its events: its code is
\* the event's name, which begins with a small letter.
BedrockStreamExceptions(fault) ==
    CASE fault = "rate_limited" -> {SdkException("EventStreamError", "throttlingException")}
      [] fault = "timed_out"    -> {SdkException("ReadTimeoutError", NoCode)}
      [] fault = "unreachable"  -> {SdkException("ConnectionClosedError", NoCode)}
      [] fault = "server_error" ->
            {SdkException("EventStreamError", c) : c \in
                {"serviceUnavailableException", "internalServerException", "modelStreamErrorException"}}
      [] fault = "rejected"     -> {SdkException("EventStreamError", "validationException")}
      [] fault = "sdk_error"    -> {SdkException("BotoCoreError", NoCode)}
      [] fault = "unrecognized" -> {SdkException("EventStreamError", NoCode)}

OpenAIExceptions(fault) ==
    CASE fault = "rate_limited" -> {SdkException("RateLimitError", 429)}
      [] fault = "timed_out"    -> {SdkException("APITimeoutError", NoCode)}
      [] fault = "unreachable"  -> {SdkException("APIConnectionError", NoCode)}
      [] fault = "server_error" -> {SdkException("APIStatusError", c) : c \in {500, 503}}
      [] fault = "rejected"     -> {SdkException("APIStatusError", c) : c \in {400, 499}}
      [] fault \in {"sdk_error", "unrecognized"} -> {SdkException("OpenAIError", NoCode)}

\* An error event of an established stream is an APIError without a status.
OpenAIStreamExceptions(fault) ==
    CASE fault \in {"timed_out", "unreachable", "sdk_error"} -> OpenAIExceptions(fault)
      [] OTHER -> {SdkException("APIError", NoCode)}

\* Any other BotoCoreError is transient, whatever it is about.
ClassifyBedrock(exc) ==
    IF exc.class \in {"ClientError", "EventStreamError"}
    THEN CASE exc.code \in {"ThrottlingException", "TooManyRequestsException"} -> "throttled"
           [] exc.code = "ModelTimeoutException" -> "timeout"
           [] exc.code \in {"ServiceUnavailableException", "InternalServerException",
                            "ModelNotReadyException"} -> "transient"
           [] OTHER -> "permanent"
    ELSE IF exc.class \in {"ConnectTimeoutError", "ReadTimeoutError"} THEN "timeout"
    ELSE "transient"

\* isinstance: a timeout is an APIConnectionError, a rate limit an APIStatusError.
OpenAIClasses(exc) ==
    {exc.class} \cup (IF exc.class = "APITimeoutError" THEN {"APIConnectionError"} ELSE {})
                \cup (IF exc.class = "RateLimitError" THEN {"APIStatusError"} ELSE {})

\* Seeded fault: the superclass is asked about first.
ClassifyConnectionFirst(exc) ==
    IF "RateLimitError" \in OpenAIClasses(exc) THEN "throttled"
    ELSE IF "APIConnectionError" \in OpenAIClasses(exc) THEN "transient"
    ELSE IF "APITimeoutError" \in OpenAIClasses(exc) THEN "timeout"
    ELSE IF "APIStatusError" \in OpenAIClasses(exc) /\ exc.code >= 500 THEN "transient"
    ELSE "permanent"

ClassifyOpenAI(exc) ==
    IF "RateLimitError" \in OpenAIClasses(exc) THEN "throttled"
    ELSE IF "APITimeoutError" \in OpenAIClasses(exc) THEN "timeout"
    ELSE IF "APIConnectionError" \in OpenAIClasses(exc) THEN "transient"
    ELSE IF "APIStatusError" \in OpenAIClasses(exc) /\ exc.code >= 500 THEN "transient"
    ELSE "permanent"

\* The categories a fault may be classified as, of a call or of its stream.
Categories(provider, fault) ==
    IF provider = "bedrock" THEN {ClassifyBedrock(e) : e \in BedrockExceptions(fault)}
    ELSE {ClassifyOpenAI(e) : e \in OpenAIExceptions(fault)}

StreamCategories(provider, fault) ==
    IF provider = "bedrock" THEN {ClassifyBedrock(e) : e \in BedrockStreamExceptions(fault)}
    ELSE {ClassifyOpenAI(e) : e \in OpenAIStreamExceptions(fault)}

-----------------------------------------------------------------------------
(* The retry loop of invoke() and of _stream(). *)

\* fault: what went wrong with the call, or with the stream it established.
Called(fault, established) ==
    /\ attempt' = attempt + 1
    /\ wire' = Append(wire, [client |-> Model.provider, target |-> Target,
                             fault |-> fault, established |-> established])

\* Seeded fault: whatever went wrong is tried again.
RetryAnything(category) == attempt + 1 < MaxAttempts

\* Seeded fault: one call too many.
RetryOnceMore(category) == category # "permanent" /\ attempt < MaxAttempts

Retried(category) ==
    category \in {"throttled", "transient", "timeout"} /\ attempt + 1 < MaxAttempts

CallFails(fault) ==
    /\ pc = "calling"
    /\ Called(fault, FALSE)
    /\ \E category \in Categories(Model.provider, fault) :
          IF Retried(category) THEN UNCHANGED << pc, outcome >> ELSE Finish(category)
    /\ UNCHANGED << call, catalogue, seen, texts, chunks >>

\* Not one of the SDK's exceptions: it passes through the adapter.
CallRaises ==
    /\ pc = "calling"
    /\ Called("foreign", FALSE)
    /\ Finish("raised")
    /\ UNCHANGED << call, catalogue, seen, texts, chunks >>

\* parse_*_response: a response with a field missing is a ProviderError; one
\* whose token count is no natural number is refused by Usage itself.
Parsed(raw) ==
    CASE raw = "whole" -> "returned" [] raw = "partial" -> "permanent" [] raw = "invalid" -> "raised"

CallAnswers(raw) ==
    /\ pc = "calling" /\ ~ request.stream
    /\ Called("none", FALSE)
    /\ Finish(Parsed(raw))
    /\ UNCHANGED << call, catalogue, seen, texts, chunks >>

StreamEstablished ==
    /\ pc = "calling" /\ request.stream
    /\ Called("none", TRUE)
    /\ pc' = "reading"
    /\ UNCHANGED << call, catalogue, seen, outcome, texts, chunks >>

-----------------------------------------------------------------------------
(* iter_*: reading an established stream. *)

\* A Bedrock event carries text, a stop reason or usage; an OpenAI chunk any of
\* them at once.
WireEvents(provider) ==
    {e \in [text : BOOLEAN, stop : BOOLEAN, usage : {"absent", "valid", "invalid"}] :
        provider = "bedrock" =>
            \/ ~ e.text /\ ~ e.stop
            \/ e.usage = "absent" /\ (~ e.text \/ ~ e.stop)}

Reading == {"reading", "suspended"}

\* Seeded fault: the final chunk is yielded as soon as usage arrives.
FinalAtUsage(event) ==
    /\ pc \in Reading
    /\ texts' = IF event.text THEN texts + 1 ELSE texts
    /\ chunks' = chunks \o (IF event.text THEN << "delta" >> ELSE << >>)
                        \o (IF event.usage # "absent" THEN << "final" >> ELSE << >>)
    /\ pc' = IF event.text \/ event.usage # "absent" THEN "suspended" ELSE "reading"
    /\ seen' = [stop  |-> seen.stop \/ event.stop,
                usage |-> IF event.usage = "absent" THEN seen.usage ELSE event.usage]
    /\ UNCHANGED << call, catalogue, attempt, outcome, wire >>

ReadEvent(event) ==
    /\ pc \in Reading
    /\ texts' = IF event.text THEN texts + 1 ELSE texts
    /\ chunks' = IF event.text THEN Append(chunks, "delta") ELSE chunks
    /\ pc' = IF event.text THEN "suspended" ELSE "reading"
    /\ seen' = [stop  |-> seen.stop \/ event.stop,
                usage |-> IF event.usage = "absent" THEN seen.usage ELSE event.usage]
    /\ UNCHANGED << call, catalogue, attempt, outcome, wire >>

\* The provider's stream ends: the final chunk, unless something is missing.
ReadExhausted ==
    /\ pc \in Reading
    /\ IF ~ seen.stop \/ seen.usage = "absent" THEN Finish("permanent") /\ UNCHANGED chunks
       ELSE IF seen.usage = "invalid" THEN Finish("raised") /\ UNCHANGED chunks
       ELSE Finish("returned") /\ chunks' = Append(chunks, "final")
    /\ UNCHANGED << call, catalogue, attempt, seen, wire, texts >>

\* The SDK raises while the stream is read: classified, never retried.
StreamBreaks(fault) ==
    /\ pc \in Reading
    /\ wire' = [wire EXCEPT ![Len(wire)].fault = fault]
    /\ \E category \in StreamCategories(Model.provider, fault) : Finish(category)
    /\ UNCHANGED << call, catalogue, attempt, seen, texts, chunks >>

\* Any other exception passes through; a Bedrock stop or usage event without its
\* fields is a KeyError.
ReadRaises(fault) ==
    /\ pc \in Reading
    /\ fault = "malformed" => Model.provider = "bedrock"
    /\ wire' = [wire EXCEPT ![Len(wire)].fault = fault]
    /\ Finish("raised")
    /\ UNCHANGED << call, catalogue, attempt, seen, texts, chunks >>

\* The caller drops the generator, before the first pull or at a chunk.
Abandon ==
    /\ pc \in {"open", "suspended"}
    /\ Finish("abandoned")
    /\ UNCHANGED << call, catalogue, attempt, seen, wire, texts, chunks >>

Init ==
    /\ file \in CatalogueFiles
    /\ registered \in {{"bedrock"}, {"bedrock", "openai"}}
    /\ request \in ProviderRequests
    /\ catalogue = None
    /\ pc = "start"
    /\ attempt = 0
    /\ seen = [stop |-> FALSE, usage |-> "absent"]
    /\ outcome = "none"
    /\ wire = << >> /\ texts = 0 /\ chunks = << >>

Next ==
    \/ LoadCatalogue \/ Resolve \/ FirstPull
    \/ \E fault \in Faults : CallFails(fault) \/ StreamBreaks(fault)
    \/ CallRaises \/ StreamEstablished
    \/ \E raw \in {"whole", "partial", "invalid"} : CallAnswers(raw)
    \/ pc \in Reading /\ \E event \in WireEvents(Model.provider) :
          (event.text => texts < MaxTexts) /\ ReadEvent(event)
    \/ \E fault \in {"foreign", "malformed"} : ReadRaises(fault)
    \/ ReadExhausted \/ Abandon

Spec == Init /\ [][Next]_vars

-----------------------------------------------------------------------------
Outcomes == ProviderErrorCategory \cup {"none", "refused", "returned", "abandoned", "raised"}

\* The type invariant.  The client is called at most max_attempts times.
TypeOK ==
    /\ pc \in {"start", "ready", "open", "calling", "reading", "suspended", "done"}
    /\ attempt \in 0..MaxAttempts
    /\ outcome \in Outcomes
    /\ texts \in 0..MaxTexts
    /\ \A i \in DOMAIN wire : wire[i].client \in registered /\ wire[i].target \in DOMAIN ModelIds
    /\ \A i \in DOMAIN chunks : chunks[i] \in {"delta", "final"}

\* What an adapter is to make of a fault.
CategoryOf(fault) ==
    CASE fault = "rate_limited" -> "throttled"
      [] fault = "timed_out" -> "timeout"
      [] fault \in {"unreachable", "server_error"} -> "transient"
      [] fault \in {"rejected", "sdk_error", "unrecognized"} -> "permanent"

Retryable(fault) == fault \in {"rate_limited", "timed_out", "unreachable", "server_error"}

\* Botocore's own errors: not the provider's answer, and transient to the adapter.
Botocores(c) == c.client = "bedrock" /\ c.fault = "sdk_error"

\* error_mapping.py: "An unmapped or unrecognized error defaults to PERMANENT",
\* since retrying what is not known to be transient "risks retry amplification".
\* This holds of every error but botocore's own: a provider is called again only
\* after a fault that may pass or a Botocores one, and never once a stream is
\* established; a call is given up with a fault that may pass only when no attempt
\* is left.  An error the provider itself answered with and the adapter does not
\* know is never repeated, and neither is any such error of OpenAI.
RetryDiscipline ==
    \A i \in DOMAIN wire :
        /\ i < Len(wire) =>
              ~ wire[i].established /\ (Retryable(wire[i].fault) \/ Botocores(wire[i]))
        /\ i = Len(wire) /\ outcome \in ProviderErrorCategory
              /\ Retryable(wire[i].fault) /\ ~ wire[i].established
           => i = MaxAttempts

\* ADR-029: a cross-provider target "would silently send the wrong wire format to
\* the wrong API".  Every call reaches the API of the provider that owns the model
\* id, for a request the model is declared capable of.
RightWire ==
    \A i \in DOMAIN wire : OwnerOf(wire[i].target) = wire[i].client /\ Capable

\* ADR-029, "the same ProviderErrorCategory taxonomy": both adapters make the same
\* of a fault, with two exceptions that the code has.  Throttling and server errors
\* that an established stream reports are permanent, at either provider, and
\* Bedrock alone makes botocore's own errors transient.
OneTaxonomy ==
    wire # << >> =>
        LET last == wire[Len(wire)]
        IN  last.fault \in Faults /\ outcome \in ProviderErrorCategory =>
                \/ outcome = CategoryOf(last.fault)
                \/ /\ outcome = "permanent" /\ last.established
                   /\ last.fault \in {"rate_limited", "server_error"}
                \/ outcome = "transient" /\ Botocores(last)

\* ProviderResponseChunk: the chunks of a stream reconstruct the response.  Every
\* piece of text the provider sent is yielded, in its place, and one final chunk
\* closes a stream that was read whole, and no other.
StreamIsWhole ==
    /\ Cardinality({i \in DOMAIN chunks : chunks[i] = "delta"}) = texts
    /\ \A i \in DOMAIN chunks : chunks[i] = "final" => i = Len(chunks) /\ outcome = "returned"
    /\ request.stream /\ outcome = "returned" => chunks # << >> /\ chunks[Len(chunks)] = "final"

\* ports.py on a ModelProvider: "Raises ProviderError for every failure category",
\* and converse_mapper.py: "if required fields are missing or malformed".  As long
\* as the SDK raises its own exceptions only, so does the adapter.
FailuresAreProviderErrors ==
    outcome = "raised" => wire[Len(wire)].fault = "foreign"

=============================================================================
