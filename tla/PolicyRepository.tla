-------------------------- MODULE PolicyRepository --------------------------
(***************************************************************************)
(* LocalFileRoutingPolicyRepository: the policies of one process, read     *)
(* from files on first use.  Resolve gives what resolve() answers or       *)
(* raises, and the repository after it.                                    *)
(*                                                                         *)
(* Data.  A file is absent, or refused by every load (bad syntax, no       *)
(* mapping, fails validation), or the policy it describes.  A read that    *)
(* fails this once is the parameter readable.                              *)
(***************************************************************************)
EXTENDS Integers

CONSTANTS
    ApplicationFile,    \* application_id -> policy, NoFile or BadFile
    DefaultFile,        \* a policy, NoFile or BadFile
    NoFile, BadFile,
    NotLoaded           \* None

FreshRepository ==
    [ cache |-> [a \in DOMAIN ApplicationFile |-> NotLoaded],
      default_policy |-> NotLoaded, default_policy_loaded |-> FALSE ]

Found(policy, repository) ==
    [raises |-> "none", policy |-> policy, repository |-> repository]
Raises(exception, repository) ==
    [raises |-> exception, policy |-> NotLoaded, repository |-> repository]

\* load_structured_file and model_validate raise one ConfigurationError.
Loads(file, readable) == readable /\ file # BadFile

\* Seeded fault: the policy is returned but not kept.
LoadDefaultForgotten(repository, readable) ==
    LET marked == [repository EXCEPT !.default_policy_loaded = TRUE]
    IN  IF repository.default_policy_loaded \/ DefaultFile = NoFile
        THEN Found(repository.default_policy, marked)
        ELSE IF ~Loads(DefaultFile, readable) THEN Raises("ConfigurationError", marked)
        ELSE Found(DefaultFile, marked)

\* Seeded fault: a file that cannot be loaded counts as absent.
LoadDefaultQuietly(repository, readable) ==
    LET marked == [repository EXCEPT !.default_policy_loaded = TRUE]
    IN  IF repository.default_policy_loaded \/ ~Loads(DefaultFile, readable)
        THEN Found(repository.default_policy, marked)
        ELSE Found(DefaultFile, [marked EXCEPT !.default_policy = DefaultFile])

\* The flag is set before the file is looked for and loaded; if the load raises,
\* it stays set and the policy stays None.
LoadDefaultPolicy(repository, readable) ==
    LET marked == [repository EXCEPT !.default_policy_loaded = TRUE]
    IN  IF repository.default_policy_loaded \/ DefaultFile = NoFile
        THEN Found(repository.default_policy, marked)
        ELSE IF ~Loads(DefaultFile, readable) THEN Raises("ConfigurationError", marked)
        ELSE Found(DefaultFile, [marked EXCEPT !.default_policy = DefaultFile])

\* The application's own file decides; its failure is not remembered.
Resolve(repository, a, readable) ==
    IF repository.cache[a] # NotLoaded THEN Found(repository.cache[a], repository)
    ELSE IF ApplicationFile[a] # NoFile
    THEN IF ~Loads(ApplicationFile[a], readable) THEN Raises("ConfigurationError", repository)
         ELSE Found(ApplicationFile[a], [repository EXCEPT !.cache[a] = ApplicationFile[a]])
    ELSE LET default == LoadDefaultPolicy(repository, readable)
         IN  IF default.raises = "none" /\ default.policy = NotLoaded
             THEN Raises("RoutingPolicyNotFoundError", default.repository)
             ELSE default

=============================================================================
