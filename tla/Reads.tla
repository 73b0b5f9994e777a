-------------------------------- MODULE Reads --------------------------------
(***************************************************************************)
(* A read of a user: list_instances, get_one_healthy_instance and          *)
(* get_config, with the finite retries of run_with_retry.  Reads share     *)
(* only the client (ProcessRuntime), so the module follows one thread      *)
(* through one read after another, in an application of any configuration. *)
(***************************************************************************)
EXTENDS Discovery, FiniteSets

CONSTANTS
    Configs,   \* the configurations of the application
    Rows,      \* the rows Nacos may answer
    MaxRows    \* bound on their number

(* A retry setting is checked when it is used, not when it is configured.  *)
(* An interval may be finite and too long for time.sleep.                  *)
Config ==
    [enabled : BOOLEAN, config_enabled : BOOLEAN, normalize : BOOLEAN,
     retry_enabled : BOOLEAN, retry_times : Nat,
     retry_interval : {"valid", "overflows", "invalid"}]

ASSUME ReadsAssumption == Configs \subseteq Config /\ Rows \subseteq Row /\ MaxRows \in Nat

VARIABLES
    cfg,        \* the configuration of the application
    pc,
    request,    \* what the user asked for
    attempt,    \* number of the attempt that runs or ran last
    sdk_calls,  \* history: calls of the SDK made for this request
    failure,    \* how the last attempt failed (last_exc)
    answer,     \* the rows of the last answer of Nacos
    rows,       \* what list_instances made of them
    outcome     \* how the read ended

vars == <<cfg, pc, request, attempt, sdk_calls, failure, answer, rows, outcome>>

(* valid: every argument passes the checks at the head of list_instances   *)
(* or get_config.  strategy: of the call, or else of the configuration.    *)
Request ==
    [operation : {"config"}, valid : BOOLEAN]
    \cup [operation : {"list"}, valid : BOOLEAN, query : Query]
    \cup [operation : {"one"}, valid : BOOLEAN, query : Query,
          strategy : Strategies \cup {"unsupported"}]

NoFailure == [attempt |-> 0, kind |-> "none"]
Failure == [attempt : Nat, kind : {"none", "sdk", "shape"}]

Answers == UNION {[1 .. n -> Rows] : n \in 0 .. MaxRows}

Returned(value) == [ended |-> "returned", value |-> value]
Raised(error) == [ended |-> "raised", value |-> error]
NoOutcome == [ended |-> "no", value |-> "none"]

NoRequest == [operation |-> "config", valid |-> TRUE]

Init ==
    /\ cfg \in Configs
    /\ pc = "idle" /\ request = NoRequest
    /\ attempt = 0 /\ sdk_calls = 0 /\ failure = NoFailure
    /\ answer = <<>> /\ rows = <<>> /\ outcome = NoOutcome

End(o) == outcome' = o /\ pc' = "ended"

(***************************************************************************)
(* The public calls, up to the client.  A request for a disabled           *)
(* configuration center ends before a client is asked for.                 *)
(***************************************************************************)
Begin ==
    /\ pc = "idle"
    /\ request' \in Request
    /\ IF request'.operation = "config" /\ ~cfg.config_enabled
       THEN End(Returned("none"))
       ELSE pc' = "client" /\ UNCHANGED outcome
    /\ UNCHANGED <<cfg, attempt, sdk_calls, failure, answer, rows>>

(* A disabled application has no client and no rows to choose from.        *)
WithoutClient ==
    /\ pc = "client" /\ ~cfg.enabled
    /\ CASE request.operation = "list" -> End(Returned("rows"))
         [] request.operation = "one" -> pc' = "choose" /\ UNCHANGED outcome
         [] OTHER -> End(Returned("none"))
    /\ UNCHANGED <<cfg, request, attempt, sdk_calls, failure, answer, rows>>

ClientFails ==
    /\ pc = "client" /\ cfg.enabled
    /\ End(Raised("client"))
    /\ UNCHANGED <<cfg, request, attempt, sdk_calls, failure, answer, rows>>

(***************************************************************************)
(* run_with_retry                                                          *)
(***************************************************************************)
SettingsIgnored == FALSE   \* mutant: the retry settings are not checked

InvalidSettings ==
    cfg.retry_enabled /\ (cfg.retry_times = 0 \/ cfg.retry_interval = "invalid")

CheckSettings ==
    /\ pc = "client" /\ cfg.enabled
    /\ IF InvalidSettings THEN End(Raised("validation")) /\ UNCHANGED attempt
       ELSE pc' = "attempt" /\ attempt' = 1 /\ UNCHANGED outcome
    /\ UNCHANGED <<cfg, request, sdk_calls, failure, answer, rows>>

Budget == IF cfg.retry_enabled THEN cfg.retry_times ELSE 1

InputRetried ==   \* mutant: a validation error is retried like any other
    /\ pc = "attempt" /\ ~request.valid
    /\ failure' = [attempt |-> attempt, kind |-> "shape"]
    /\ IF attempt < Budget THEN pc' = "sleep" /\ UNCHANGED outcome ELSE End(Raised("failure"))
    /\ UNCHANGED <<cfg, request, attempt, sdk_calls, answer, rows>>

(* Invalid input is deterministic and not retried.                         *)
InputRefused ==
    /\ pc = "attempt" /\ ~request.valid
    /\ End(Raised("validation"))
    /\ UNCHANGED <<cfg, request, attempt, sdk_calls, failure, answer, rows>>

KeepFirst(kind) ==   \* mutant: the first failure is the one reported
    /\ failure' = IF failure = NoFailure THEN [attempt |-> attempt, kind |-> kind] ELSE failure
    /\ IF attempt < Budget THEN pc' = "sleep" /\ UNCHANGED outcome ELSE End(Raised("failure"))

(* The except clause: remember the error, sleep or re-raise the last one.  *)
AttemptFails(kind) ==
    /\ failure' = [attempt |-> attempt, kind |-> kind]
    /\ IF attempt < Budget THEN pc' = "sleep" /\ UNCHANGED outcome ELSE End(Raised("failure"))

CallFails ==
    /\ pc = "attempt" /\ request.valid
    /\ sdk_calls' = sdk_calls + 1
    /\ AttemptFails("sdk")
    /\ UNCHANGED <<cfg, request, attempt, answer, rows>>

(* extract_instances does not recognize the answer: inside the attempt.    *)
Unrecognized ==
    /\ pc = "attempt" /\ request.valid /\ request.operation # "config"
    /\ sdk_calls' = sdk_calls + 1
    /\ AttemptFails("shape")
    /\ UNCHANGED <<cfg, request, attempt, answer, rows>>

CallSucceeds ==
    /\ pc = "attempt" /\ request.valid
    /\ sdk_calls' = sdk_calls + 1
    /\ IF request.operation = "config"
       THEN End(Returned("content")) /\ UNCHANGED <<answer, rows>>
       ELSE /\ answer' \in Answers
            /\ rows' = ListInstances(answer', request.query, cfg.normalize)
            /\ IF request.operation = "list" THEN End(Returned("rows"))
               ELSE pc' = "choose" /\ UNCHANGED outcome
    /\ UNCHANGED <<cfg, request, attempt, failure>>

SleptOn ==   \* mutant: the attempt is not counted
    /\ pc = "sleep" /\ cfg.retry_interval = "valid"
    /\ pc' = "attempt"
    /\ UNCHANGED <<cfg, request, attempt, sdk_calls, failure, answer, rows, outcome>>

Slept ==
    /\ pc = "sleep" /\ cfg.retry_interval = "valid"
    /\ pc' = "attempt" /\ attempt' = attempt + 1
    /\ UNCHANGED <<cfg, request, sdk_calls, failure, answer, rows, outcome>>

(* time.sleep raises out of the except clause, past the loop.              *)
SleepRaises ==
    /\ pc = "sleep" /\ cfg.retry_interval = "overflows"
    /\ End(Raised("overflow"))
    /\ UNCHANGED <<cfg, request, attempt, sdk_calls, failure, answer, rows>>

(***************************************************************************)
(* get_one_healthy_instance_sync: the strategy is looked at when the rows  *)
(* are there.                                                              *)
(***************************************************************************)
Choose ==
    /\ pc = "choose"
    /\ IF request.strategy = "unsupported" THEN End(Raised("strategy"))
       ELSE IF ChoiceRaises(rows, request.strategy) THEN End(Raised("weights"))
       ELSE IF rows = <<>> THEN End(Returned("none"))
       ELSE \E i \in Choices(rows, request.strategy) :
                End([ended |-> "returned", value |-> "row", row |-> rows[i]])
    /\ UNCHANGED <<cfg, request, attempt, sdk_calls, failure, answer, rows>>

(* The thread may read again.  *)
Again ==
    /\ pc = "ended"
    /\ pc' = "idle" /\ request' = NoRequest
    /\ attempt' = 0 /\ sdk_calls' = 0 /\ failure' = NoFailure
    /\ answer' = <<>> /\ rows' = <<>> /\ outcome' = NoOutcome
    /\ UNCHANGED cfg

Attempt == InputRefused \/ CallFails \/ Unrecognized \/ CallSucceeds

Step ==
    \/ WithoutClient \/ ClientFails \/ CheckSettings
    \/ Attempt \/ Slept \/ SleepRaises \/ Choose

Next == Begin \/ Step \/ Again

Spec == Init /\ [][Next]_vars

(***************************************************************************)
(* Properties                                                              *)
(***************************************************************************)
Pcs == {"idle", "client", "attempt", "sleep", "choose", "ended"}

(* Every variable keeps its type, and an attempt makes one call of the SDK *)
(* at most.                                                                *)
TypeOK ==
    /\ cfg \in Configs /\ pc \in Pcs /\ request \in Request
    /\ attempt \in Nat /\ sdk_calls \in 0 .. attempt
    /\ failure \in Failure /\ failure.attempt <= attempt
    /\ outcome.ended \in {"no", "returned", "raised"}

(* NACOS_RETRY_TIMES is the number of calls a read may cost, one when      *)
(* retries are off, and none, nor a wait, for invalid arguments and        *)
(* settings.  A read that gives up has used them all, and raises the error *)
(* of the last one, not of an earlier attempt.                             *)
RetriesAreBounded ==
    LET invalid == ~request.valid \/ outcome = Raised("validation")
    IN  /\ sdk_calls <= Budget
        /\ invalid => sdk_calls = 0 /\ attempt <= 1
        /\ outcome = Raised("failure") => sdk_calls = Budget /\ failure.attempt = Budget

(* The list is the rows of the last answer that match the query and, if    *)
(* they are normalized, can be: all of them, once, in the order of Nacos.  *)
(* What normalization changes never makes a row match or cease to match.   *)
ListIsTheMatchingRows ==
    request.operation # "config" /\ (pc = "choose" \/ outcome.ended = "returned") =>
        LET wanted == {i \in DOMAIN answer : /\ MatchesFilters(answer[i], request.query)
                                             /\ cfg.normalize => answer[i].endpoint = "valid"}
            Place(i) == Cardinality({j \in wanted : j <= i})
        IN  /\ Len(rows) = Cardinality(wanted)
            /\ \A i \in wanted :
                  rows[Place(i)] = IF cfg.normalize THEN Normalized(answer[i]) ELSE answer[i]
            /\ \A k \in DOMAIN rows : MatchesFilters(rows[k], request.query)

(* The instance chosen is one of the list; a row without weight is chosen  *)
(* by weight only if there is no other, and nothing is chosen only if      *)
(* there is nothing.                                                       *)
ChoiceIsJustified ==
    request.operation = "one" /\ outcome.ended = "returned" =>
        \/ outcome.value = "none" /\ rows = <<>>
        \/ /\ outcome.value = "row" /\ \E i \in DOMAIN rows : outcome.row = rows[i]
           /\ request.strategy = "first" => outcome.row = rows[1]
           /\ request.strategy = "weight" /\ outcome.row.weight = "zero" =>
                \A i \in DOMAIN rows : rows[i].weight = "zero"
=============================================================================
