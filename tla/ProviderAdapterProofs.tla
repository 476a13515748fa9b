----------------------- MODULE ProviderAdapterProofs ------------------------
(***************************************************************************)
(* What a call of a provider adapter does, for any catalogue, any request  *)
(* and any max_attempts: the type invariant, RetryDiscipline, RightWire,   *)
(* OneTaxonomy and StreamIsWhole.                                          *)
(*                                                                         *)
(* CallInv strengthens the first four: while the retry loop runs, all      *)
(* calls so far failed in a way that may pass or with an error of          *)
(* botocore's own, attempts are left, and the loop is only entered for an  *)
(* entry that is registered, capable and resolved (Sendable).              *)
(* CategoryFacts and StreamCategoryFacts are where the two adapters'       *)
(* classifications are compared.  StreamInv says that a stream being read  *)
(* has yielded nothing but deltas.                                         *)
(***************************************************************************)
EXTENDS ProviderAdapter, FiniteSetTheorems, SequenceTheorems, TLAPS

\* What Resolve has established before the network is touched.
Sendable ==
    /\ Accepted(file)
    /\ catalogue = [a \in Aliases(file) |->
                       file[CHOOSE i \in DOMAIN file : file[i].model_alias = a]]
    /\ Dispatchable /\ Capable /\ Target # None

WireCalls == [client : ProviderName, target : DOMAIN ModelIds,
              fault : Faults \cup {"none", "foreign", "malformed"}, established : BOOLEAN]

\* Every call but the last is one the loop may go on after.
Excused(n) ==
    \A i \in 1 .. n : (Retryable(wire[i].fault) \/ Botocores(wire[i])) /\ ~ wire[i].established

\* Botocores and OneTaxonomy of one call, by its parts.
Own(provider, fault) == provider = "bedrock" /\ fault = "sdk_error"
Agrees(provider, fault, established, result) ==
    fault \in Faults /\ result \in ProviderErrorCategory =>
        \/ result = CategoryOf(fault)
        \/ result = "permanent" /\ established /\ fault \in {"rate_limited", "server_error"}
        \/ result = "transient" /\ Own(provider, fault)

\* The calls of the client so far.
CallInv ==
    /\ file \in CatalogueFiles /\ request \in ProviderRequests
    /\ registered \in {{"bedrock"}, {"bedrock", "openai"}}
    /\ pc \in {"start", "ready", "open", "calling", "reading", "suspended", "done"}
    /\ outcome \in Outcomes
    /\ attempt \in 0 .. MaxAttempts
    /\ wire \in Seq(WireCalls) /\ Len(wire) = attempt
    /\ \A i \in DOMAIN wire : wire[i].client = Model.provider /\ wire[i].target = Target
    /\ pc # "done" => outcome = "none"
    /\ pc \in {"start", "ready", "open"} => attempt = 0
    /\ pc = "ready" => Accepted(file) /\ catalogue = [a \in Aliases(file) |->
                       file[CHOOSE i \in DOMAIN file : file[i].model_alias = a]]
    /\ pc \in {"open", "calling", "reading", "suspended"} \/ attempt > 0 => Sendable
    /\ pc = "calling" => attempt < MaxAttempts /\ Excused(attempt)
    /\ attempt > 0 => Excused(attempt - 1)
    /\ pc \in Reading => attempt > 0 /\ wire[attempt].established /\ wire[attempt].fault = "none"
    /\ RetryDiscipline /\ OneTaxonomy

\* The chunks of a stream so far.
StreamInv ==
    /\ texts \in 0 .. MaxTexts
    /\ chunks \in Seq({"delta", "final"})
    /\ pc \in Reading => request.stream
    /\ pc # "done" => outcome = "none" /\ \A i \in DOMAIN chunks : chunks[i] = "delta"
    /\ StreamIsWhole

-----------------------------------------------------------------------------
(***************************************************************************)
(* Classification and the catalogue.                                       *)
(***************************************************************************)
\* A fault that may pass is retryable to both adapters, and to Bedrock its own
\* errors are too; a call is otherwise classified alike.
LEMMA CategoryFacts ==
    ASSUME NEW provider \in ProviderName, NEW fault \in Faults,
           NEW category \in Categories(provider, fault)
    PROVE  /\ category \in ProviderErrorCategory
           /\ Retryable(fault) => category # "permanent"
           /\ category # "permanent" => Retryable(fault) \/ Own(provider, fault)
           /\ Agrees(provider, fault, FALSE, category)
<1> DEFINE Good(p, c) ==
           /\ c \in ProviderErrorCategory
           /\ Retryable(fault) => c # "permanent"
           /\ c # "permanent" => Retryable(fault) \/ Own(p, fault)
           /\ Agrees(p, fault, FALSE, c)
<1>0. /\ \A code \in {NoCode, "ValidationException", "throttlingException", "validationException",
                    "serviceUnavailableException", "internalServerException",
                    "modelStreamErrorException"} :
            code \notin {"ThrottlingException", "TooManyRequestsException", "ModelTimeoutException",
                         "ServiceUnavailableException", "InternalServerException",
                         "ModelNotReadyException"}
  BY Zenon DEF NoCode
<1>1. ASSUME NEW e \in BedrockExceptions(fault)
      PROVE  Good("bedrock", ClassifyBedrock(e))
  <2>1. CASE fault = "rate_limited"
    <3>1. e.class = "ClientError" /\ e.code \in {"ThrottlingException", "TooManyRequestsException"}
      BY <2>1 DEF BedrockExceptions, SdkException
    <3>2. ClassifyBedrock(e) = "throttled"
      BY <1>0, <3>1 DEF ClassifyBedrock
    <3> QED BY <2>1, <3>2 DEF Retryable, Own, Agrees, CategoryOf, ProviderErrorCategory
  <2>2. CASE fault = "timed_out"
    <3>1. \/ e.class = "ClientError" /\ e.code = "ModelTimeoutException"
          \/ e.class \in {"ConnectTimeoutError", "ReadTimeoutError"}
      BY <2>2 DEF BedrockExceptions, SdkException
    <3>2. ClassifyBedrock(e) = "timeout"
      BY <1>0, <3>1 DEF ClassifyBedrock
    <3> QED BY <2>2, <3>2 DEF Retryable, Own, Agrees, CategoryOf, ProviderErrorCategory
  <2>3. CASE fault = "unreachable"
    <3>1. e.class = "EndpointConnectionError"
      BY <2>3 DEF BedrockExceptions, SdkException
    <3>2. ClassifyBedrock(e) = "transient"
      BY <1>0, <3>1 DEF ClassifyBedrock
    <3> QED BY <2>3, <3>2 DEF Retryable, Own, Agrees, CategoryOf, ProviderErrorCategory
  <2>4. CASE fault = "server_error"
    <3>1. /\ e.class = "ClientError"
          /\ e.code \in {"ServiceUnavailableException", "InternalServerException",
                         "ModelNotReadyException"}
      BY <2>4 DEF BedrockExceptions, SdkException
    <3>2. ClassifyBedrock(e) = "transient"
      BY <1>0, <3>1 DEF ClassifyBedrock
    <3> QED BY <2>4, <3>2 DEF Retryable, Own, Agrees, CategoryOf, ProviderErrorCategory
  <2>5. CASE fault = "rejected"
    <3>1. e.class = "ClientError" /\ e.code = "ValidationException"
      BY <2>5 DEF BedrockExceptions, SdkException
    <3>2. ClassifyBedrock(e) = "permanent"
      BY <1>0, <3>1 DEF ClassifyBedrock
    <3> QED BY <2>5, <3>2 DEF Retryable, Own, Agrees, CategoryOf, ProviderErrorCategory
  <2>6. CASE fault = "sdk_error"
    <3>1. e.class \in {"ParamValidationError", "NoCredentialsError", "BotoCoreError"}
      BY <2>6 DEF BedrockExceptions, SdkException
    <3>2. ClassifyBedrock(e) = "transient"
      BY <1>0, <3>1 DEF ClassifyBedrock
    <3> QED BY <2>6, <3>2 DEF Retryable, Own, Agrees, CategoryOf, ProviderErrorCategory
  <2>7. CASE fault = "unrecognized"
    <3>1. e.class = "ClientError" /\ e.code = NoCode
      BY <2>7 DEF BedrockExceptions, SdkException
    <3>2. ClassifyBedrock(e) = "permanent"
      BY <1>0, <3>1 DEF ClassifyBedrock, NoCode
    <3> QED BY <2>7, <3>2 DEF Retryable, Own, Agrees, CategoryOf, ProviderErrorCategory
  <2> QED BY <2>1, <2>2, <2>3, <2>4, <2>5, <2>6, <2>7 DEF Faults, BedrockExceptions
<1>2. ASSUME NEW e \in OpenAIExceptions(fault)
      PROVE  Good("openai", ClassifyOpenAI(e))
  <2>1. CASE fault = "rate_limited"
    <3>1. e.class = "RateLimitError"
      BY <2>1 DEF OpenAIExceptions, SdkException
    <3>2. ClassifyOpenAI(e) = "throttled"
      BY <1>0, <3>1 DEF ClassifyOpenAI, OpenAIClasses
    <3> QED BY <2>1, <3>2 DEF Retryable, Own, Agrees, CategoryOf, ProviderErrorCategory
  <2>2. CASE fault = "timed_out"
    <3>1. e.class = "APITimeoutError"
      BY <2>2 DEF OpenAIExceptions, SdkException
    <3>2. ClassifyOpenAI(e) = "timeout"
      BY <1>0, <3>1 DEF ClassifyOpenAI, OpenAIClasses
    <3> QED BY <2>2, <3>2 DEF Retryable, Own, Agrees, CategoryOf, ProviderErrorCategory
  <2>3. CASE fault = "unreachable"
    <3>1. e.class = "APIConnectionError"
      BY <2>3 DEF OpenAIExceptions, SdkException
    <3>2. ClassifyOpenAI(e) = "transient"
      BY <1>0, <3>1 DEF ClassifyOpenAI, OpenAIClasses
    <3> QED BY <2>3, <3>2 DEF Retryable, Own, Agrees, CategoryOf, ProviderErrorCategory
  <2>4. CASE fault = "server_error"
    <3>1. e.class = "APIStatusError" /\ e.code \in {500, 503}
      BY <2>4 DEF OpenAIExceptions, SdkException
    <3>2. ClassifyOpenAI(e) = "transient"
      BY <1>0, <3>1 DEF ClassifyOpenAI, OpenAIClasses
    <3> QED BY <2>4, <3>2 DEF Retryable, Own, Agrees, CategoryOf, ProviderErrorCategory
  <2>5. CASE fault = "rejected"
    <3>1. e.class = "APIStatusError" /\ e.code \in {400, 499}
      BY <2>5 DEF OpenAIExceptions, SdkException
    <3>2. ClassifyOpenAI(e) = "permanent"
      BY <1>0, <3>1 DEF ClassifyOpenAI, OpenAIClasses
    <3> QED BY <2>5, <3>2 DEF Retryable, Own, Agrees, CategoryOf, ProviderErrorCategory
  <2>6. CASE fault = "sdk_error"
    <3>1. e.class = "OpenAIError"
      BY <2>6 DEF OpenAIExceptions, SdkException
    <3>2. ClassifyOpenAI(e) = "permanent"
      BY <1>0, <3>1 DEF ClassifyOpenAI, OpenAIClasses
    <3> QED BY <2>6, <3>2 DEF Retryable, Own, Agrees, CategoryOf, ProviderErrorCategory
  <2>7. CASE fault = "unrecognized"
    <3>1. e.class = "OpenAIError"
      BY <2>7 DEF OpenAIExceptions, SdkException
    <3>2. ClassifyOpenAI(e) = "permanent"
      BY <1>0, <3>1 DEF ClassifyOpenAI, OpenAIClasses
    <3> QED BY <2>7, <3>2 DEF Retryable, Own, Agrees, CategoryOf, ProviderErrorCategory
  <2> QED BY <2>1, <2>2, <2>3, <2>4, <2>5, <2>6, <2>7 DEF Faults, OpenAIExceptions
<1> HIDE DEF Good
<1>3. Good(provider, category)
  BY <1>1, <1>2 DEF Categories, ProviderName
<1> QED BY <1>3 DEF Good

\* Inside an established stream a fault may also be permanent.
LEMMA StreamCategoryFacts ==
    ASSUME NEW provider \in ProviderName, NEW fault \in Faults,
           NEW category \in StreamCategories(provider, fault)
    PROVE  /\ category \in ProviderErrorCategory
           /\ Agrees(provider, fault, TRUE, category)
<1> DEFINE Good(p, c) ==
           /\ c \in ProviderErrorCategory
           /\ Agrees(p, fault, TRUE, c)
<1>0. /\ \A code \in {NoCode, "ValidationException", "throttlingException", "validationException",
                    "serviceUnavailableException", "internalServerException",
                    "modelStreamErrorException"} :
            code \notin {"ThrottlingException", "TooManyRequestsException", "ModelTimeoutException",
                         "ServiceUnavailableException", "InternalServerException",
                         "ModelNotReadyException"}
  BY Zenon DEF NoCode
<1>1. ASSUME NEW e \in BedrockStreamExceptions(fault)
      PROVE  Good("bedrock", ClassifyBedrock(e))
  <2>1. CASE fault = "rate_limited"
    <3>1. e.class = "EventStreamError" /\ e.code = "throttlingException"
      BY <2>1 DEF BedrockStreamExceptions, SdkException
    <3>2. ClassifyBedrock(e) = "permanent"
      BY <1>0, <3>1 DEF ClassifyBedrock
    <3> QED BY <2>1, <3>2 DEF Retryable, Own, Agrees, CategoryOf, ProviderErrorCategory
  <2>2. CASE fault = "timed_out"
    <3>1. e.class = "ReadTimeoutError"
      BY <2>2 DEF BedrockStreamExceptions, SdkException
    <3>2. ClassifyBedrock(e) = "timeout"
      BY <1>0, <3>1 DEF ClassifyBedrock
    <3> QED BY <2>2, <3>2 DEF Retryable, Own, Agrees, CategoryOf, ProviderErrorCategory
  <2>3. CASE fault = "unreachable"
    <3>1. e.class = "ConnectionClosedError"
      BY <2>3 DEF BedrockStreamExceptions, SdkException
    <3>2. ClassifyBedrock(e) = "transient"
      BY <1>0, <3>1 DEF ClassifyBedrock
    <3> QED BY <2>3, <3>2 DEF Retryable, Own, Agrees, CategoryOf, ProviderErrorCategory
  <2>4. CASE fault = "server_error"
    <3>1. /\ e.class = "EventStreamError"
          /\ e.code \in {"serviceUnavailableException", "internalServerException",
                         "modelStreamErrorException"}
      BY <2>4 DEF BedrockStreamExceptions, SdkException
    <3>2. ClassifyBedrock(e) = "permanent"
      BY <1>0, <3>1 DEF ClassifyBedrock
    <3> QED BY <2>4, <3>2 DEF Retryable, Own, Agrees, CategoryOf, ProviderErrorCategory
  <2>5. CASE fault = "rejected"
    <3>1. e.class = "EventStreamError" /\ e.code = "validationException"
      BY <2>5 DEF BedrockStreamExceptions, SdkException
    <3>2. ClassifyBedrock(e) = "permanent"
      BY <1>0, <3>1 DEF ClassifyBedrock
    <3> QED BY <2>5, <3>2 DEF Retryable, Own, Agrees, CategoryOf, ProviderErrorCategory
  <2>6. CASE fault = "sdk_error"
    <3>1. e.class = "BotoCoreError"
      BY <2>6 DEF BedrockStreamExceptions, SdkException
    <3>2. ClassifyBedrock(e) = "transient"
      BY <1>0, <3>1 DEF ClassifyBedrock
    <3> QED BY <2>6, <3>2 DEF Retryable, Own, Agrees, CategoryOf, ProviderErrorCategory
  <2>7. CASE fault = "unrecognized"
    <3>1. e.class = "EventStreamError" /\ e.code = NoCode
      BY <2>7 DEF BedrockStreamExceptions, SdkException
    <3>2. ClassifyBedrock(e) = "permanent"
      BY <1>0, <3>1 DEF ClassifyBedrock, NoCode
    <3> QED BY <2>7, <3>2 DEF Retryable, Own, Agrees, CategoryOf, ProviderErrorCategory
  <2> QED BY <2>1, <2>2, <2>3, <2>4, <2>5, <2>6, <2>7 DEF Faults, BedrockStreamExceptions
<1>2. ASSUME NEW e \in OpenAIStreamExceptions(fault)
      PROVE  Good("openai", ClassifyOpenAI(e))
  <2>1. CASE fault = "rate_limited"
    <3>1. e.class = "APIError"
      BY <2>1 DEF OpenAIStreamExceptions, OpenAIExceptions, SdkException
    <3>2. ClassifyOpenAI(e) = "permanent"
      BY <1>0, <3>1 DEF ClassifyOpenAI, OpenAIClasses
    <3> QED BY <2>1, <3>2 DEF Retryable, Own, Agrees, CategoryOf, ProviderErrorCategory
  <2>2. CASE fault = "timed_out"
    <3>1. e.class = "APITimeoutError"
      BY <2>2 DEF OpenAIStreamExceptions, OpenAIExceptions, SdkException
    <3>2. ClassifyOpenAI(e) = "timeout"
      BY <1>0, <3>1 DEF ClassifyOpenAI, OpenAIClasses
    <3> QED BY <2>2, <3>2 DEF Retryable, Own, Agrees, CategoryOf, ProviderErrorCategory
  <2>3. CASE fault = "unreachable"
    <3>1. e.class = "APIConnectionError"
      BY <2>3 DEF OpenAIStreamExceptions, OpenAIExceptions, SdkException
    <3>2. ClassifyOpenAI(e) = "transient"
      BY <1>0, <3>1 DEF ClassifyOpenAI, OpenAIClasses
    <3> QED BY <2>3, <3>2 DEF Retryable, Own, Agrees, CategoryOf, ProviderErrorCategory
  <2>4. CASE fault = "server_error"
    <3>1. e.class = "APIError"
      BY <2>4 DEF OpenAIStreamExceptions, OpenAIExceptions, SdkException
    <3>2. ClassifyOpenAI(e) = "permanent"
      BY <1>0, <3>1 DEF ClassifyOpenAI, OpenAIClasses
    <3> QED BY <2>4, <3>2 DEF Retryable, Own, Agrees, CategoryOf, ProviderErrorCategory
  <2>5. CASE fault = "rejected"
    <3>1. e.class = "APIError"
      BY <2>5 DEF OpenAIStreamExceptions, OpenAIExceptions, SdkException
    <3>2. ClassifyOpenAI(e) = "permanent"
      BY <1>0, <3>1 DEF ClassifyOpenAI, OpenAIClasses
    <3> QED BY <2>5, <3>2 DEF Retryable, Own, Agrees, CategoryOf, ProviderErrorCategory
  <2>6. CASE fault = "sdk_error"
    <3>1. e.class = "OpenAIError"
      BY <2>6 DEF OpenAIStreamExceptions, OpenAIExceptions, SdkException
    <3>2. ClassifyOpenAI(e) = "permanent"
      BY <1>0, <3>1 DEF ClassifyOpenAI, OpenAIClasses
    <3> QED BY <2>6, <3>2 DEF Retryable, Own, Agrees, CategoryOf, ProviderErrorCategory
  <2>7. CASE fault = "unrecognized"
    <3>1. e.class = "APIError"
      BY <2>7 DEF OpenAIStreamExceptions, OpenAIExceptions, SdkException
    <3>2. ClassifyOpenAI(e) = "permanent"
      BY <1>0, <3>1 DEF ClassifyOpenAI, OpenAIClasses
    <3> QED BY <2>7, <3>2 DEF Retryable, Own, Agrees, CategoryOf, ProviderErrorCategory
  <2> QED BY <2>1, <2>2, <2>3, <2>4, <2>5, <2>6, <2>7 DEF Faults, OpenAIStreamExceptions
<1> HIDE DEF Good
<1>3. Good(provider, category)
  BY <1>1, <1>2 DEF StreamCategories, ProviderName
<1> QED BY <1>3 DEF Good

\* A loaded catalogue maps an alias to an entry of the file with that alias.
LEMMA EntryFacts ==
    ASSUME file \in CatalogueFiles, Sendable
    PROVE  \A a \in DOMAIN catalogue :
              \E i \in DOMAIN file : file[i].model_alias = a /\ catalogue[a] = file[i]
<1> SUFFICES ASSUME NEW a \in DOMAIN catalogue
             PROVE  \E i \in DOMAIN file : file[i].model_alias = a /\ catalogue[a] = file[i]
  OBVIOUS
<1> DEFINE pick == CHOOSE i \in DOMAIN file : file[i].model_alias = a
<1>1. a \in Aliases(file) /\ catalogue[a] = file[pick]
  BY DEF Sendable
<1>2. \E i \in DOMAIN file : file[i].model_alias = a
  BY <1>1 DEF Aliases
<1>3. pick \in DOMAIN file /\ file[pick].model_alias = a
  BY <1>2
<1> QED BY <1>1, <1>3

\* A call goes to a registered provider, with an id that is that provider's own.
LEMMA SendableFacts ==
    ASSUME file \in CatalogueFiles, Sendable
    PROVE  /\ Model.provider \in registered /\ Model.provider \in ProviderName
           /\ Target \in DOMAIN ModelIds
           /\ OwnerOf(Target) = Model.provider
           /\ Capable
<1>1. PICK i \in DOMAIN file : file[i].model_alias = request.model_alias /\ Model = file[i]
  BY EntryFacts DEF Sendable, Dispatchable, Known, Model
<1>2. /\ Model.type \in {Wired, Profile, Indirect} /\ Model.provider \in ProviderName
      /\ Model.provider \in registered /\ Capable
  BY <1>1, AdapterAssumption DEF Sendable, Dispatchable
<1>3. CASE Model.type = Wired
  <2>1. Target = Model.value
    BY <1>3 DEF Target, Wired, Indirect
  <2> QED BY <1>1, <1>2, <1>3, <2>1, AdapterAssumption DEF Wired, Indirect
<1>4. CASE Model.type = Profile
  <2>1. Target = Model.value
    BY <1>4 DEF Target, Profile, Indirect
  <2>2. Model.provider = "bedrock"
    BY <1>1, <1>4 DEF Sendable, Accepted, BadResolution
  <2> QED BY <1>1, <1>2, <1>4, <2>1, <2>2, AdapterAssumption DEF Profile, Indirect
<1>5. CASE Model.type = Indirect
  <2>1. /\ Model.value \in DOMAIN catalogue
        /\ Target = catalogue[Model.value].value /\ catalogue[Model.value].type # Indirect
    BY <1>5 DEF Sendable, Target, Known
  <2>2. PICK j \in DOMAIN file :
              file[j].model_alias = Model.value /\ catalogue[Model.value] = file[j]
    BY <2>1, EntryFacts
  <2>3. file[j].provider = Model.provider
    BY <1>1, <1>5, <2>2 DEF Sendable, Accepted, CrossProvider
  <2>4. /\ file[j].type \in {Wired, Profile} /\ file[j].value \in DOMAIN ModelIds
        /\ Target = file[j].value
    BY <2>1, <2>2, AdapterAssumption
  <2>5. file[j].type = Profile => file[j].provider = "bedrock"
    BY <2>2 DEF Sendable, Accepted, BadResolution
  <2>6. OwnerOf(file[j].value) = file[j].provider
    BY <2>2, <2>4, <2>5, AdapterAssumption
  <2> QED BY <1>2, <2>3, <2>4, <2>6
<1> QED BY <1>2, <1>3, <1>4, <1>5

-----------------------------------------------------------------------------
(***************************************************************************)
(* The calls of the client.                                                *)
(***************************************************************************)
\* What a call is about is settled before the first attempt.
LEMMA SettledCall ==
    ASSUME UNCHANGED << call, catalogue >>
    PROVE  /\ Sendable' <=> Sendable
           /\ Model' = Model /\ Target' = Target /\ (Capable' <=> Capable)
           /\ file' = file /\ request' = request /\ registered' = registered
<1>1. /\ file' = file /\ request' = request /\ registered' = registered
      /\ catalogue' = catalogue
  BY DEF call
<1>2. Model' = Model /\ (Dispatchable' <=> Dispatchable)
  BY <1>1 DEF Model, Dispatchable, Known
<1>3. (Capable' <=> Capable) /\ Target' = Target
  BY <1>1, <1>2 DEF Capable, Target, Known
<1>4. Sendable' <=> Sendable
  BY <1>1, <1>2, <1>3 DEF Sendable
<1> QED BY <1>1, <1>2, <1>3, <1>4

\* One call of the client is one more entry of the wire.
LEMMA CalledFacts ==
    ASSUME CallInv, Sendable, NEW fault \in Faults \cup {"none", "foreign", "malformed"},
           NEW established \in BOOLEAN, Called(fault, established)
    PROVE  /\ attempt' = attempt + 1
           /\ wire' \in Seq(WireCalls) /\ Len(wire') = attempt + 1
           /\ \A i \in 1 .. attempt : wire'[i] = wire[i]
           /\ wire'[attempt + 1].client = Model.provider
           /\ wire'[attempt + 1].target = Target
           /\ wire'[attempt + 1].fault = fault
           /\ wire'[attempt + 1].established = established
<1> DEFINE new == [client |-> Model.provider, target |-> Target,
                   fault |-> fault, established |-> established]
<1>1. Model.provider \in ProviderName /\ Target \in DOMAIN ModelIds
  BY SendableFacts DEF CallInv
<1>2. new \in WireCalls
  BY <1>1 DEF WireCalls
<1>3. /\ new.client = Model.provider /\ new.target = Target
      /\ new.fault = fault /\ new.established = established
  OBVIOUS
<1>4. wire' = Append(wire, new) /\ attempt' = attempt + 1
  BY DEF Called
<1>5. wire \in Seq(WireCalls) /\ Len(wire) = attempt
  BY DEF CallInv
<1> HIDE DEF new
<1>6. /\ wire' \in Seq(WireCalls) /\ Len(wire') = attempt + 1
      /\ \A i \in 1 .. attempt : wire'[i] = wire[i]
      /\ wire'[attempt + 1] = new
  BY <1>2, <1>4, <1>5
<1> QED BY <1>3, <1>4, <1>6

\* After a call of the client the invariant holds again, if what became of the
\* call fits its fault.
LEMMA CallPreserves ==
    ASSUME CallInv, pc = "calling", NEW established \in BOOLEAN,
           NEW fault \in Faults \cup {"none", "foreign", "malformed"},
           Called(fault, established), UNCHANGED << call, catalogue >>,
           \/ /\ UNCHANGED << pc, outcome >>
              /\ attempt + 1 < MaxAttempts /\ ~ established
              /\ Retryable(fault) \/ Own(Model.provider, fault)
           \/ pc' = "reading" /\ UNCHANGED outcome /\ established /\ fault = "none"
           \/ /\ pc' = "done" /\ outcome' \in Outcomes
              /\ outcome' \in ProviderErrorCategory /\ Retryable(fault) /\ ~ established
                    => attempt + 1 = MaxAttempts
              /\ Agrees(Model.provider, fault, established, outcome')
    PROVE  CallInv'
<1>1. Sendable /\ attempt \in Nat /\ MaxAttempts \in Nat /\ attempt < MaxAttempts
      /\ wire \in Seq(WireCalls) /\ Len(wire) = attempt
  BY AdapterAssumption DEF CallInv
<1>2. /\ attempt' = attempt + 1
      /\ wire' \in Seq(WireCalls) /\ Len(wire') = attempt + 1
      /\ \A i \in 1 .. attempt : wire'[i] = wire[i]
      /\ wire'[attempt + 1].client = Model.provider
      /\ wire'[attempt + 1].target = Target
      /\ wire'[attempt + 1].fault = fault
      /\ wire'[attempt + 1].established = established
  BY <1>1, CalledFacts
<1>3. /\ Sendable' /\ Model' = Model /\ Target' = Target
      /\ file' = file /\ request' = request /\ registered' = registered
  BY <1>1, SettledCall
<1>4. /\ DOMAIN wire = 1 .. attempt /\ DOMAIN wire' = 1 .. (attempt + 1)
      /\ WireCalls' = WireCalls
  BY <1>1, <1>2 DEF WireCalls
<1>5. \A i \in DOMAIN wire' : wire'[i].client = Model.provider /\ wire'[i].target = Target
  BY <1>1, <1>2, <1>4 DEF CallInv
<1>6. \A i \in 1 .. attempt : /\ Retryable(wire'[i].fault) \/ Botocores(wire'[i])
                              /\ ~ wire'[i].established
  BY <1>2 DEF CallInv, Excused
<1>7. /\ pc' \in {"calling", "reading", "done"} /\ outcome' \in Outcomes
      /\ pc' # "done" => outcome' = "none"
      /\ pc' = "calling" => /\ attempt + 1 < MaxAttempts
                            /\ Retryable(fault) \/ Own(Model.provider, fault)
                            /\ ~ established
      /\ pc' = "reading" => established /\ fault = "none"
      /\ outcome' \in ProviderErrorCategory /\ Retryable(fault) /\ ~ established
            => attempt + 1 = MaxAttempts
      /\ Agrees(Model.provider, fault, established, outcome')
  BY DEF CallInv, ProviderErrorCategory, Agrees
<1>8. pc' = "calling" => Excused(attempt)'
  BY <1>1, <1>2, <1>6, <1>7 DEF Excused, Botocores, Own
<1>9. Excused(attempt - 1)'
  BY <1>1, <1>2, <1>6 DEF Excused
<1>10. RetryDiscipline'
  BY <1>1, <1>2, <1>4, <1>6, <1>7 DEF RetryDiscipline
<1>11. OneTaxonomy'
  <2>1. /\ wire'[Len(wire')].fault = fault /\ wire'[Len(wire')].client = Model.provider
        /\ wire'[Len(wire')].established = established
    BY <1>2
  <2> QED BY <1>7, <2>1 DEF OneTaxonomy, Agrees, Own, Botocores
<1>12. attempt + 1 \in 0 .. MaxAttempts /\ attempt + 1 > 0 /\ (attempt + 1) - 1 = attempt
  BY <1>1
<1> QED BY <1>2, <1>3, <1>4, <1>5, <1>7, <1>8, <1>9, <1>10, <1>11, <1>12
        DEF CallInv, Reading

\* A step that calls nothing keeps the invariant, if it enters the retry loop
\* resolved and gives up with nothing that may pass.
LEMMA QuietPreserves ==
    ASSUME CallInv, UNCHANGED << call, catalogue, attempt, wire >>,
           \/ /\ pc \in {"ready", "open"} /\ pc' \in {"open", "calling"}
              /\ Sendable /\ UNCHANGED outcome
           \/ pc \in Reading /\ pc' \in Reading /\ UNCHANGED outcome
           \/ /\ pc' = "done" /\ outcome' \in {"returned", "raised", "abandoned", "permanent"}
              /\ outcome' = "permanent" => pc = "ready" \/ pc \in Reading
    PROVE  CallInv'
<1>1. /\ attempt' = attempt /\ wire' = wire /\ attempt \in 0 .. MaxAttempts
      /\ wire \in Seq(WireCalls) /\ Len(wire) = attempt /\ MaxAttempts \in Nat
      /\ MaxAttempts > 0 /\ WireCalls' = WireCalls
  BY AdapterAssumption DEF CallInv, WireCalls
<1>2. /\ Sendable' <=> Sendable
      /\ Model' = Model /\ Target' = Target
      /\ file' = file /\ request' = request /\ registered' = registered
  BY SettledCall
<1>3. pc \in Reading => attempt > 0 /\ wire[attempt].established /\ wire[attempt].fault = "none"
  BY DEF CallInv
<1>4. attempt > 0 => Excused(attempt - 1)'
  BY <1>1 DEF CallInv, Excused
<1>5. pc' = "calling" => pc \in {"ready", "open"} /\ attempt = 0
  BY DEF CallInv, Reading
<1>6. pc' = "calling" => attempt < MaxAttempts /\ Excused(attempt)'
  BY <1>1, <1>5 DEF Excused
<1>7. /\ outcome' \in {"none", "returned", "raised", "abandoned", "permanent"}
      /\ pc' # "done" => outcome' = "none"
      /\ outcome' = "permanent" =>
            attempt = 0 \/ (wire[attempt].established /\ wire[attempt].fault = "none")
  BY <1>3 DEF CallInv, Reading
<1>8. RetryDiscipline'
  BY <1>1, <1>7 DEF RetryDiscipline, ProviderErrorCategory, CallInv
<1>9. OneTaxonomy'
  BY <1>1, <1>7 DEF OneTaxonomy, ProviderErrorCategory, Faults
<1>10. \A i \in DOMAIN wire' : (wire[i].client = Model.provider /\ wire[i].target = Target)'
  BY <1>1, <1>2 DEF CallInv
<1>11. /\ pc' \in {"open", "calling", "reading", "suspended", "done"}
       /\ pc' \in {"open", "calling", "reading", "suspended"} \/ attempt > 0 => Sendable
       /\ pc' = "open" => attempt = 0
       /\ pc' \in Reading => pc \in Reading
  BY <1>1 DEF CallInv, Reading
<1>12. outcome' \in Outcomes
  BY <1>7 DEF Outcomes, ProviderErrorCategory
<1>13. /\ file \in CatalogueFiles /\ request \in ProviderRequests
       /\ registered \in {{"bedrock"}, {"bedrock", "openai"}}
  BY DEF CallInv
<1> QED BY <1>1, <1>2, <1>3, <1>4, <1>6, <1>7, <1>8, <1>9, <1>10, <1>11, <1>12, <1>13
        DEF CallInv

\* A stream that breaks is the end of the call; its fault is put down where the
\* stream was established.
LEMMA BreakPreserves ==
    ASSUME CallInv, pc \in Reading, UNCHANGED << call, catalogue, attempt >>,
           NEW fault \in Faults \cup {"none", "foreign", "malformed"},
           wire' = [wire EXCEPT ![Len(wire)].fault = fault],
           pc' = "done", outcome' \in ProviderErrorCategory \cup {"raised"},
           Agrees(Model.provider, fault, TRUE, outcome')
    PROVE  CallInv'
<1>1. /\ attempt' = attempt /\ attempt \in 1 .. MaxAttempts
      /\ wire \in Seq(WireCalls) /\ Len(wire) = attempt /\ MaxAttempts \in Nat
      /\ WireCalls' = WireCalls /\ wire[attempt].established /\ Sendable
  BY AdapterAssumption DEF CallInv, WireCalls, Reading
<1>2. /\ DOMAIN wire = 1 .. attempt /\ attempt \in DOMAIN wire
      /\ \A i \in DOMAIN wire : wire[i] \in WireCalls
  BY <1>1
<1> DEFINE last == [wire[attempt] EXCEPT !.fault = fault]
<1>3. /\ last \in WireCalls /\ last.fault = fault /\ last.established
      /\ last.client = wire[attempt].client /\ last.target = wire[attempt].target
  BY <1>1, <1>2 DEF WireCalls
<1>4. wire' = [wire EXCEPT ![attempt] = last]
  BY <1>1
<1> HIDE DEF last
<1>5. /\ wire' \in Seq(WireCalls) /\ Len(wire') = attempt /\ DOMAIN wire' = 1 .. attempt
      /\ wire'[attempt] = last /\ \A i \in 1 .. (attempt - 1) : wire'[i] = wire[i]
  BY <1>1, <1>2, <1>3, <1>4
<1>6. /\ Sendable' /\ Model' = Model /\ Target' = Target
      /\ file' = file /\ request' = request /\ registered' = registered
  BY <1>1, SettledCall
<1>7. \A i \in 1 .. (attempt - 1) : /\ Retryable(wire'[i].fault) \/ Botocores(wire'[i])
                                    /\ ~ wire'[i].established
  BY <1>1, <1>5 DEF CallInv, Excused
<1>8. Excused(attempt - 1)'
  BY <1>1, <1>7 DEF Excused
<1>9. RetryDiscipline'
  BY <1>1, <1>3, <1>5, <1>7 DEF RetryDiscipline
<1>10. OneTaxonomy'
  <2>1. wire[attempt].client = Model.provider
    BY <1>2 DEF CallInv
  <2>2. /\ wire'[Len(wire')].fault = fault /\ wire'[Len(wire')].client = Model.provider
        /\ wire'[Len(wire')].established
    BY <1>3, <1>5, <2>1
  <2> QED BY <2>2 DEF OneTaxonomy, Agrees, Own, Botocores
<1>11. \A i \in DOMAIN wire' : (wire[i].client = Model.provider /\ wire[i].target = Target)'
  <2> SUFFICES ASSUME NEW i \in DOMAIN wire'
               PROVE  wire'[i].client = Model.provider /\ wire'[i].target = Target
    BY <1>6
  <2>1. wire[i].client = Model.provider /\ wire[i].target = Target
    BY <1>2, <1>5 DEF CallInv
  <2> QED BY <1>1, <1>3, <1>5, <2>1
<1>12. outcome' \in Outcomes
  BY DEF Outcomes
<1>13. /\ file \in CatalogueFiles /\ request \in ProviderRequests
       /\ registered \in {{"bedrock"}, {"bedrock", "openai"}}
  BY DEF CallInv
<1> QED BY <1>1, <1>5, <1>6, <1>8, <1>9, <1>10, <1>11, <1>12, <1>13 DEF CallInv, Reading

LEMMA CallInit == Init => CallInv
<1> SUFFICES ASSUME Init PROVE CallInv
  OBVIOUS
<1>1. /\ wire = << >> /\ attempt = 0 /\ outcome = "none" /\ pc = "start"
      /\ file \in CatalogueFiles /\ request \in ProviderRequests
      /\ registered \in {{"bedrock"}, {"bedrock", "openai"}}
  BY DEF Init
<1>2. wire \in Seq(WireCalls) /\ Len(wire) = 0 /\ DOMAIN wire = {}
  BY <1>1
<1>3. RetryDiscipline /\ OneTaxonomy
  BY <1>1, <1>2 DEF RetryDiscipline, OneTaxonomy
<1> QED BY <1>1, <1>2, <1>3, AdapterAssumption DEF CallInv, Outcomes, Reading

LEMMA CallStep == CallInv /\ [Next]_vars => CallInv'
<1> SUFFICES ASSUME CallInv, [Next]_vars PROVE CallInv'
  OBVIOUS
<1>1. ASSUME LoadCatalogue PROVE CallInv'
  <2>1. /\ wire' = wire /\ attempt' = attempt /\ attempt = 0 /\ wire \in Seq(WireCalls)
        /\ Len(wire) = 0 /\ file' = file /\ request' = request /\ registered' = registered
        /\ WireCalls' = WireCalls
    BY <1>1 DEF LoadCatalogue, CallInv, call, WireCalls
  <2>2. \/ /\ pc' = "ready" /\ outcome' = "none" /\ Accepted(file)
           /\ catalogue' = [a \in Aliases(file) |->
                               file[CHOOSE i \in DOMAIN file : file[i].model_alias = a]]
        \/ pc' = "done" /\ outcome' = "refused"
    BY <1>1 DEF LoadCatalogue, CallInv
  <2>3. DOMAIN wire' = {} /\ wire' = << >>
    BY <2>1
  <2>4. RetryDiscipline' /\ OneTaxonomy'
    BY <2>3 DEF RetryDiscipline, OneTaxonomy
  <2>5. pc' = "ready" => Accepted(file)' /\ (catalogue = [a \in Aliases(file) |->
                               file[CHOOSE i \in DOMAIN file : file[i].model_alias = a]])'
    BY <2>1, <2>2
  <2>6. pc' \in {"ready", "done"} /\ outcome' \in Outcomes /\ (pc' # "done" => outcome' = "none")
    BY <2>2 DEF Outcomes
  <2>7. /\ file \in CatalogueFiles /\ request \in ProviderRequests
        /\ registered \in {{"bedrock"}, {"bedrock", "openai"}} /\ attempt \in 0 .. MaxAttempts
    BY DEF CallInv
  <2> QED BY <2>1, <2>3, <2>4, <2>5, <2>6, <2>7 DEF CallInv, Reading
<1>2. ASSUME Resolve PROVE CallInv'
  <2>1. pc = "ready" /\ UNCHANGED << call, catalogue, attempt, wire >>
    BY <1>2 DEF Resolve
  <2>2. CASE Dispatchable /\ Capable /\ Target # None
    <3>1. Sendable
      BY <2>1, <2>2 DEF CallInv, Sendable
    <3>2. pc' \in {"open", "calling"} /\ UNCHANGED outcome
      BY <1>2, <2>2 DEF Resolve
    <3> QED BY <2>1, <3>1, <3>2, QuietPreserves
  <2>3. CASE ~ (Dispatchable /\ Capable /\ Target # None)
    <3>1. pc' = "done" /\ outcome' = "permanent"
      BY <1>2, <2>3 DEF Resolve, Finish
    <3> QED BY <2>1, <3>1, QuietPreserves
  <2> QED BY <2>2, <2>3
<1>3. ASSUME FirstPull PROVE CallInv'
  BY <1>3, QuietPreserves DEF FirstPull, CallInv
<1>4. ASSUME NEW fault \in Faults, CallFails(fault) PROVE CallInv'
  <2>1. /\ pc = "calling" /\ Called(fault, FALSE) /\ UNCHANGED << call, catalogue >>
        /\ Model.provider \in ProviderName
    BY <1>4, SendableFacts DEF CallFails, CallInv
  <2>2. PICK category \in Categories(Model.provider, fault) :
              IF Retried(category) THEN UNCHANGED << pc, outcome >> ELSE Finish(category)
    BY <1>4 DEF CallFails
  <2>3. /\ category \in ProviderErrorCategory
        /\ Retryable(fault) => category # "permanent"
        /\ category # "permanent" => Retryable(fault) \/ Own(Model.provider, fault)
        /\ Agrees(Model.provider, fault, FALSE, category)
    BY <2>1, <2>2, CategoryFacts
  <2>4. CASE Retried(category)
    <3>1. /\ UNCHANGED << pc, outcome >>
          /\ attempt + 1 < MaxAttempts /\ (Retryable(fault) \/ Own(Model.provider, fault))
      BY <2>2, <2>3, <2>4 DEF Retried
    <3> QED BY <2>1, <3>1, CallPreserves
  <2>5. CASE ~ Retried(category)
    <3>1. pc' = "done" /\ outcome' = category /\ category \in Outcomes
      BY <2>2, <2>3, <2>5 DEF Finish, Outcomes
    <3>2. attempt \in Nat /\ MaxAttempts \in Nat /\ attempt < MaxAttempts
      BY <2>1, AdapterAssumption DEF CallInv
    <3>3. Retryable(fault) => attempt + 1 = MaxAttempts
      BY <2>3, <2>5, <3>2 DEF Retried, ProviderErrorCategory
    <3> QED BY <2>1, <2>3, <3>1, <3>3, CallPreserves
  <2> QED BY <2>4, <2>5
<1>5. ASSUME NEW fault \in Faults, StreamBreaks(fault) PROVE CallInv'
  <2>1. /\ pc \in Reading /\ UNCHANGED << call, catalogue, attempt >>
        /\ wire' = [wire EXCEPT ![Len(wire)].fault = fault]
        /\ Model.provider \in ProviderName
    BY <1>5, SendableFacts DEF StreamBreaks, CallInv, Reading
  <2>2. PICK category \in StreamCategories(Model.provider, fault) : Finish(category)
    BY <1>5 DEF StreamBreaks
  <2>3. /\ category \in ProviderErrorCategory
        /\ Agrees(Model.provider, fault, TRUE, category)
    BY <2>1, <2>2, StreamCategoryFacts
  <2> QED BY <2>1, <2>2, <2>3, BreakPreserves DEF Finish
<1>6. ASSUME CallRaises PROVE CallInv'
  <2>1. /\ pc = "calling" /\ Called("foreign", FALSE) /\ UNCHANGED << call, catalogue >>
        /\ pc' = "done" /\ outcome' = "raised"
    BY <1>6 DEF CallRaises, Finish
  <2> QED BY <2>1, CallPreserves DEF Outcomes, ProviderErrorCategory, Agrees
<1>7. ASSUME StreamEstablished PROVE CallInv'
  BY <1>7, CallPreserves DEF StreamEstablished
<1>8. ASSUME NEW raw \in {"whole", "partial", "invalid"}, CallAnswers(raw) PROVE CallInv'
  <2>1. /\ pc = "calling" /\ Called("none", FALSE) /\ UNCHANGED << call, catalogue >>
        /\ pc' = "done" /\ outcome' = Parsed(raw)
    BY <1>8 DEF CallAnswers, Finish
  <2>2. Parsed(raw) \in {"returned", "permanent", "raised"}
    BY DEF Parsed
  <2>3. /\ Parsed(raw) \in Outcomes /\ ~ Retryable("none")
        /\ Agrees(Model.provider, "none", FALSE, Parsed(raw))
    BY <2>2 DEF Outcomes, ProviderErrorCategory, Retryable, Agrees, Faults
  <2> QED BY <2>1, <2>2, <2>3, CallPreserves
<1>9. ASSUME NEW event, ReadEvent(event) PROVE CallInv'
  BY <1>9, QuietPreserves DEF ReadEvent, Reading
<1>10. ASSUME NEW fault \in {"foreign", "malformed"}, ReadRaises(fault) PROVE CallInv'
  BY <1>10, BreakPreserves DEF ReadRaises, Finish, ProviderErrorCategory, Agrees
<1>11. ASSUME ReadExhausted PROVE CallInv'
  BY <1>11, QuietPreserves DEF ReadExhausted, Finish
<1>12. ASSUME Abandon PROVE CallInv'
  BY <1>12, QuietPreserves DEF Abandon, Finish
<1>13. ASSUME UNCHANGED vars PROVE CallInv'
  <2>1. /\ UNCHANGED << call, catalogue >>
        /\ attempt' = attempt /\ wire' = wire /\ pc' = pc /\ outcome' = outcome
    BY <1>13 DEF vars
  <2>2. /\ Sendable' <=> Sendable
        /\ Model' = Model /\ Target' = Target
        /\ file' = file /\ request' = request /\ registered' = registered
        /\ catalogue' = catalogue
    BY <2>1, SettledCall
  <2> QED BY <2>1, <2>2 DEF CallInv, Excused, RetryDiscipline, OneTaxonomy, WireCalls, Botocores
<1> QED BY <1>1, <1>2, <1>3, <1>4, <1>5, <1>6, <1>7, <1>8, <1>9, <1>10, <1>11, <1>12, <1>13
        DEF Next

-----------------------------------------------------------------------------
(***************************************************************************)
(* The chunks of a stream.                                                 *)
(***************************************************************************)
Deltas(sequence) == {i \in DOMAIN sequence : sequence[i] = "delta"}

\* A chunk more is a delta more exactly if it is one.
LEMMA AppendDelta ==
    ASSUME NEW sequence \in Seq({"delta", "final"}), NEW chunk \in {"delta", "final"}
    PROVE  LET longer == Append(sequence, chunk)
           IN  /\ longer \in Seq({"delta", "final"}) /\ longer # << >>
               /\ longer[Len(longer)] = chunk
               /\ \A i \in DOMAIN longer : i < Len(longer) =>
                     i \in DOMAIN sequence /\ longer[i] = sequence[i]
               /\ Cardinality(Deltas(longer)) =
                     Cardinality(Deltas(sequence)) + (IF chunk = "delta" THEN 1 ELSE 0)
<1> DEFINE longer == Append(sequence, chunk)
           n == Len(sequence) + 1
<1>1. /\ longer \in Seq({"delta", "final"}) /\ Len(longer) = n /\ n \in Nat \ {0}
      /\ DOMAIN longer = 1 .. n /\ DOMAIN sequence = 1 .. (n - 1)
      /\ longer[n] = chunk /\ \A i \in 1 .. (n - 1) : longer[i] = sequence[i]
  OBVIOUS
<1>2. longer # << >>
  BY <1>1
<1> HIDE DEF longer
<1>3. IsFiniteSet(Deltas(sequence))
  <2>1. IsFiniteSet(1 .. (n - 1))
    BY <1>1, FS_Interval
  <2>2. Deltas(sequence) \subseteq 1 .. (n - 1)
    BY <1>1 DEF Deltas
  <2> QED BY <2>1, <2>2, FS_Subset
<1>4. n \notin Deltas(sequence)
  BY <1>1 DEF Deltas
<1>5. Cardinality(Deltas(sequence)) \in Nat
  BY <1>3, FS_CardinalityType
<1>6. CASE chunk = "delta"
  <2>1. Deltas(longer) = Deltas(sequence) \cup {n}
    BY <1>1, <1>6 DEF Deltas
  <2>2. Cardinality(Deltas(longer)) = Cardinality(Deltas(sequence)) + 1
    BY <1>3, <1>4, <2>1, FS_AddElement
  <2> QED BY <1>1, <1>2, <1>6, <2>2 DEF longer
<1>7. CASE chunk = "final"
  <2>1. Deltas(longer) = Deltas(sequence)
    BY <1>1, <1>7 DEF Deltas
  <2> QED BY <1>1, <1>2, <1>5, <1>7, <2>1 DEF longer
<1> QED BY <1>6, <1>7

LEMMA StreamInit == Init => StreamInv
<1> SUFFICES ASSUME Init PROVE StreamInv
  OBVIOUS
<1>1. chunks = << >> /\ texts = 0 /\ pc = "start" /\ outcome = "none"
  BY DEF Init
<1>2. chunks \in Seq({"delta", "final"}) /\ DOMAIN chunks = {}
  BY <1>1
<1>3. Cardinality({i \in DOMAIN chunks : chunks[i] = "delta"}) = 0
  BY <1>2, FS_EmptySet
<1> QED BY <1>1, <1>2, <1>3, AdapterAssumption DEF StreamInv, StreamIsWhole, Reading

\* A step that yields no chunk keeps the invariant, if it returns no stream.
LEMMA SilentPreserves ==
    ASSUME StreamInv, UNCHANGED << call, texts, chunks >>,
           pc # "done", pc' \in Reading => request.stream,
           \/ pc' # "done" /\ outcome' = outcome
           \/ pc' = "done" /\ (outcome' = "returned" => ~ request.stream)
    PROVE  StreamInv'
<1>1. /\ chunks' = chunks /\ texts' = texts /\ request' = request
      /\ outcome = "none" /\ \A i \in DOMAIN chunks : chunks[i] = "delta"
  BY DEF StreamInv, call
<1>2. pc' # "done" => outcome' = "none"
  BY <1>1
<1>3. StreamIsWhole'
  BY <1>1, <1>2 DEF StreamInv, StreamIsWhole
<1> QED BY <1>1, <1>2, <1>3 DEF StreamInv, Reading

LEMMA StreamStep == CallInv /\ StreamInv /\ [Next]_vars => StreamInv'
<1> SUFFICES ASSUME CallInv, StreamInv, [Next]_vars PROVE StreamInv'
  OBVIOUS
<1>1. ASSUME LoadCatalogue PROVE StreamInv'
  BY <1>1, SilentPreserves DEF LoadCatalogue, Reading
<1>2. ASSUME Resolve PROVE StreamInv'
  BY <1>2, SilentPreserves DEF Resolve, Finish, Reading
<1>3. ASSUME FirstPull PROVE StreamInv'
  BY <1>3, SilentPreserves DEF FirstPull, Reading
<1>4. ASSUME NEW fault \in Faults, CallFails(fault) PROVE StreamInv'
  <2>1. pc = "calling" /\ UNCHANGED << call, texts, chunks >> /\ Model.provider \in ProviderName
    BY <1>4, SendableFacts DEF CallFails, CallInv
  <2>2. PICK category \in Categories(Model.provider, fault) :
              IF Retried(category) THEN UNCHANGED << pc, outcome >> ELSE Finish(category)
    BY <1>4 DEF CallFails
  <2>3. category # "returned"
    BY <2>1, <2>2, CategoryFacts DEF ProviderErrorCategory
  <2> QED BY <2>1, <2>2, <2>3, SilentPreserves DEF Finish, Reading
<1>5. ASSUME NEW fault \in Faults, StreamBreaks(fault) PROVE StreamInv'
  <2>1. pc \in Reading /\ UNCHANGED << call, texts, chunks >> /\ Model.provider \in ProviderName
    BY <1>5, SendableFacts DEF StreamBreaks, CallInv, Reading
  <2>2. PICK category \in StreamCategories(Model.provider, fault) : Finish(category)
    BY <1>5 DEF StreamBreaks
  <2>3. category # "returned"
    BY <2>1, <2>2, StreamCategoryFacts DEF ProviderErrorCategory
  <2> QED BY <2>1, <2>2, <2>3, SilentPreserves DEF Finish, Reading
<1>6. ASSUME CallRaises PROVE StreamInv'
  BY <1>6, SilentPreserves DEF CallRaises, Finish, Reading
<1>7. ASSUME StreamEstablished PROVE StreamInv'
  BY <1>7, SilentPreserves DEF StreamEstablished
<1>8. ASSUME NEW raw \in {"whole", "partial", "invalid"}, CallAnswers(raw) PROVE StreamInv'
  BY <1>8, SilentPreserves DEF CallAnswers, Finish, Reading
<1>9. ASSUME NEW event, ReadEvent(event), event.text => texts < MaxTexts PROVE StreamInv'
  <2>1. /\ pc \in Reading /\ pc' \in Reading /\ request' = request /\ request.stream
        /\ outcome' = outcome /\ outcome = "none"
        /\ \A i \in DOMAIN chunks : chunks[i] = "delta"
        /\ chunks \in Seq({"delta", "final"}) /\ texts \in 0 .. MaxTexts /\ MaxTexts \in Nat
        /\ Cardinality(Deltas(chunks)) = texts
    BY <1>9, AdapterAssumption DEF ReadEvent, StreamInv, StreamIsWhole, Deltas, Reading, call
  <2>2. CASE ~ event.text
    BY <1>9, <2>1, <2>2, SilentPreserves DEF ReadEvent, Reading
  <2>3. CASE event.text
    <3>1. chunks' = Append(chunks, "delta") /\ texts' = texts + 1 /\ texts < MaxTexts
      BY <1>9, <2>3 DEF ReadEvent
    <3>2. /\ chunks' \in Seq({"delta", "final"}) /\ chunks' # << >>
          /\ chunks'[Len(chunks')] = "delta"
          /\ \A i \in DOMAIN chunks' : i < Len(chunks') =>
                i \in DOMAIN chunks /\ chunks'[i] = chunks[i]
          /\ Cardinality(Deltas(chunks')) = texts'
      BY <2>1, <3>1, AppendDelta
    <3>3. \A i \in DOMAIN chunks' : chunks'[i] = "delta"
      BY <2>1, <3>2
    <3>4. StreamIsWhole'
      BY <2>1, <3>2, <3>3 DEF StreamIsWhole, Deltas
    <3> QED BY <2>1, <3>1, <3>2, <3>3, <3>4 DEF StreamInv, Reading
  <2> QED BY <2>2, <2>3
<1>10. ASSUME NEW fault \in {"foreign", "malformed"}, ReadRaises(fault) PROVE StreamInv'
  BY <1>10, SilentPreserves DEF ReadRaises, Finish, Reading
<1>11. ASSUME ReadExhausted PROVE StreamInv'
  <2>1. /\ pc \in Reading /\ pc' = "done" /\ request' = request /\ texts' = texts
        /\ UNCHANGED call
    BY <1>11 DEF ReadExhausted, Finish, call
  <2>2. CASE outcome' # "returned"
    <3>1. chunks' = chunks
      BY <1>11, <2>2 DEF ReadExhausted, Finish
    <3> QED BY <2>1, <2>2, <3>1, SilentPreserves DEF Reading
  <2>3. CASE outcome' = "returned"
    <3>1. chunks' = Append(chunks, "final")
      BY <1>11, <2>3 DEF ReadExhausted, Finish
    <3>2. /\ chunks \in Seq({"delta", "final"}) /\ texts \in 0 .. MaxTexts /\ MaxTexts \in Nat
          /\ Cardinality(Deltas(chunks)) = texts
          /\ \A i \in DOMAIN chunks : chunks[i] = "delta"
      BY <2>1, AdapterAssumption DEF StreamInv, StreamIsWhole, Deltas, Reading
    <3>3. /\ chunks' \in Seq({"delta", "final"}) /\ chunks' # << >>
          /\ chunks'[Len(chunks')] = "final"
          /\ \A i \in DOMAIN chunks' : i < Len(chunks') =>
                i \in DOMAIN chunks /\ chunks'[i] = chunks[i]
          /\ Cardinality(Deltas(chunks')) = texts'
      BY <2>1, <3>1, <3>2, AppendDelta
    <3>4. \A i \in DOMAIN chunks' : chunks'[i] = "final" => i = Len(chunks')
      BY <3>2, <3>3
    <3>5. StreamIsWhole'
      BY <2>3, <3>3, <3>4 DEF StreamIsWhole, Deltas
    <3> QED BY <2>1, <3>2, <3>3, <3>5 DEF StreamInv, Reading
  <2> QED BY <2>2, <2>3
<1>12. ASSUME Abandon PROVE StreamInv'
  BY <1>12, SilentPreserves DEF Abandon, Finish, Reading
<1>13. ASSUME UNCHANGED vars PROVE StreamInv'
  BY <1>13 DEF vars, call, StreamInv, StreamIsWhole, Reading
<1> QED BY <1>1, <1>2, <1>3, <1>4, <1>5, <1>6, <1>7, <1>8, <1>9, <1>10, <1>11, <1>12, <1>13
        DEF Next

-----------------------------------------------------------------------------
(***************************************************************************)
(* The theorems.                                                           *)
(***************************************************************************)
LEMMA AdapterInvariant == Spec => [](CallInv /\ StreamInv)
BY CallInit, CallStep, StreamInit, StreamStep, PTL DEF Spec

\* Every call goes to a registered provider with a model id that exists, and
\* max_attempts is never exceeded.
THEOREM AdapterTypeOK == Spec => []TypeOK
<1>1. ASSUME CallInv, StreamInv PROVE TypeOK
  <2>1. ASSUME NEW i \in DOMAIN wire
        PROVE  wire[i].client \in registered /\ wire[i].target \in DOMAIN ModelIds
    <3>1. attempt > 0
      BY <1>1 DEF CallInv
    <3>2. Sendable /\ wire[i].client = Model.provider /\ wire[i].target = Target
      BY <1>1, <3>1 DEF CallInv
    <3> QED BY <1>1, <3>2, SendableFacts DEF CallInv
  <2>2. \A i \in DOMAIN chunks : chunks[i] \in {"delta", "final"}
    BY <1>1 DEF StreamInv
  <2> QED BY <1>1, <2>1, <2>2 DEF TypeOK, CallInv, StreamInv
<1> QED BY <1>1, AdapterInvariant, PTL

\* The retry loop of invoke() and _stream(): only faults that may pass and botocore's
\* own errors are tried again, never an established stream, and no fault that may
\* pass is given up early, for every number of attempts.
THEOREM RetriesDisciplined == Spec => []RetryDiscipline
<1>1. CallInv => RetryDiscipline
  BY DEF CallInv
<1> QED BY <1>1, AdapterInvariant, PTL

\* Whatever the catalogue's author wrote, if the catalogue was accepted a request
\* reaches the API that owns the model id, one hop of router_alias included.
THEOREM WireIsRight == Spec => []RightWire
<1>1. ASSUME CallInv PROVE RightWire
  <2> SUFFICES ASSUME NEW i \in DOMAIN wire
               PROVE  OwnerOf(wire[i].target) = wire[i].client /\ Capable
    BY DEF RightWire
  <2>1. attempt > 0
    BY <1>1 DEF CallInv
  <2>2. Sendable /\ wire[i].client = Model.provider /\ wire[i].target = Target
    BY <1>1, <2>1 DEF CallInv
  <2> QED BY <1>1, <2>2, SendableFacts DEF CallInv
<1> QED BY <1>1, AdapterInvariant, PTL

\* Both classify_provider_exception put a fault into one category, but for botocore's
\* own errors and for what an established stream reports.
THEOREM TaxonomiesAgree == Spec => []OneTaxonomy
<1>1. CallInv => OneTaxonomy
  BY DEF CallInv
<1> QED BY <1>1, AdapterInvariant, PTL

\* The chunks of a stream are the provider's pieces of text and, if it was read
\* whole, one final chunk.
THEOREM StreamsAreWhole == Spec => []StreamIsWhole
<1>1. StreamInv => StreamIsWhole
  BY DEF StreamInv
<1> QED BY <1>1, AdapterInvariant, PTL

=============================================================================
