--------------------------- MODULE Configuration ---------------------------
(***************************************************************************)
(* config.py and the settings of logging.py: how the configuration of an   *)
(* application comes about and what is found wrong with it, and when.      *)
(*                                                                         *)
(* A setting is abstracted to what is looked at.  Settings that are only   *)
(* checked together are one key: NACOS_SERVICE is the name, the port, the  *)
(* weight, the metadata and the heartbeat of the service, NACOS_RETRY the  *)
(* times and the interval, NACOS_LOG the level and the format,             *)
(* NACOS_LOG_TARGET the path, the file name and the rotation.              *)
(***************************************************************************)

DEFAULTS ==
    [NACOS_ENABLED |-> "yes", NACOS_AUTO_REGISTER |-> "yes", NACOS_DEREGISTER_ON_EXIT |-> "yes",
     NACOS_SERVER_ADDR |-> "valid", NACOS_USERNAME |-> "unset", NACOS_PASSWORD |-> "unset",
     NACOS_ACCESS_KEY |-> "unset", NACOS_SECRET_KEY |-> "unset", NACOS_SERVICE |-> "missing",
     NACOS_RETRY_ENABLED |-> "yes", NACOS_RETRY |-> "valid",
     NACOS_HEALTH_CHECK_ENABLED |-> "no", NACOS_HEALTH_CHECK_PATH |-> "/health/nacos",
     NACOS_LOG_ENABLED |-> "no", NACOS_LOG_CONSOLE_ENABLED |-> "yes",
     NACOS_LOG_FILE_ENABLED |-> "yes", NACOS_LOG |-> "valid", NACOS_LOG_TARGET |-> "valid"]

BoolKeys ==
    {"NACOS_ENABLED", "NACOS_AUTO_REGISTER", "NACOS_DEREGISTER_ON_EXIT", "NACOS_RETRY_ENABLED",
     "NACOS_HEALTH_CHECK_ENABLED", "NACOS_LOG_ENABLED", "NACOS_LOG_CONSOLE_ENABLED",
     "NACOS_LOG_FILE_ENABLED"}

KeptAsGiven(value, default) == value   \* mutant: no coercion

(* What to_bool cannot read counts as the default.                         *)
ToBool(value, default) == IF value \in {"yes", "no"} THEN value ELSE default

(***************************************************************************)
(* load_config: the mapping of the constructor, then that of init_app,     *)
(* over the defaults.  A mapping has any domain; unknown keys are ignored. *)
(***************************************************************************)
Given(key, base, overrides) ==
    IF key \in DOMAIN overrides THEN overrides[key]
    ELSE IF key \in DOMAIN base THEN base[key]
    ELSE DEFAULTS[key]

LoadConfig(base, overrides) ==
    [key \in DOMAIN DEFAULTS |->
        IF key \in BoolKeys THEN ToBool(Given(key, base, overrides), DEFAULTS[key])
        ELSE Given(key, base, overrides)]

On(cfg, key) == cfg[key] = "yes"

ShouldAutoRegister(cfg) == On(cfg, "NACOS_ENABLED") /\ On(cfg, "NACOS_AUTO_REGISTER")

(***************************************************************************)
(* Validation.  A credential is "set", "unset" (None or empty) or          *)
(* "malformed".                                                            *)
(***************************************************************************)
InvalidConnection(cfg) ==
    \/ cfg.NACOS_SERVER_ADDR # "valid"
    \/ "malformed" \in {cfg.NACOS_USERNAME, cfg.NACOS_PASSWORD,
                        cfg.NACOS_ACCESS_KEY, cfg.NACOS_SECRET_KEY}
    \/ cfg.NACOS_USERNAME # cfg.NACOS_PASSWORD
    \/ cfg.NACOS_ACCESS_KEY # cfg.NACOS_SECRET_KEY
    \/ cfg.NACOS_USERNAME = "set" /\ cfg.NACOS_ACCESS_KEY = "set"

ConnectionError(cfg) == On(cfg, "NACOS_ENABLED") /\ InvalidConnection(cfg)

InvalidRegistration(cfg) == cfg.NACOS_SERVICE # "valid"

RegistrationErrorAlone(cfg) ==   \* mutant: the error of the connection is not carried over
    /\ On(cfg, "NACOS_ENABLED")
    /\ \/ InvalidRegistration(cfg)
       \/ On(cfg, "NACOS_RETRY_ENABLED") /\ cfg.NACOS_RETRY # "valid"

RegistrationError(cfg) ==
    /\ On(cfg, "NACOS_ENABLED")
    /\ \/ ConnectionError(cfg)
       \/ InvalidRegistration(cfg)
       \/ On(cfg, "NACOS_RETRY_ENABLED") /\ cfg.NACOS_RETRY # "valid"

InvalidLog(cfg) == cfg.NACOS_LOG # "valid"
InvalidLogTarget(cfg) == cfg.NACOS_LOG_TARGET # "valid"

(* Only what is switched on is checked.                                    *)
LoggingError(cfg) ==
    /\ On(cfg, "NACOS_LOG_ENABLED")
    /\ InvalidLog(cfg) \/ (On(cfg, "NACOS_LOG_FILE_ENABLED") /\ InvalidLogTarget(cfg))

(* What init_app raises before it changes anything *)
Refused(cfg) ==
    LoggingError(cfg) \/ (ShouldAutoRegister(cfg) /\ RegistrationError(cfg))

(***************************************************************************)
(* _desired_handlers: the kinds of handlers of the extension's logger      *)
(***************************************************************************)
Wanted(cfg) ==
    {kind \in {"console", "file"} :
        /\ On(cfg, "NACOS_LOG_ENABLED")
        /\ kind = "console" => On(cfg, "NACOS_LOG_CONSOLE_ENABLED")
        /\ kind = "file" => On(cfg, "NACOS_LOG_FILE_ENABLED")}

DesiredHandlers(cfg) == IF Wanted(cfg) = {} THEN {"null"} ELSE Wanted(cfg)
=============================================================================
