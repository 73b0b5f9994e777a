---------------------------- MODULE MCApplication ----------------------------
(* Application for TLC: two extensions, one constructed with settings of   *)
(* its own, and mappings that differ in what init_app looks at.            *)
EXTENDS Application, TLC

Valid == "NACOS_SERVICE" :> "valid"

MCBaseConfig ==
    [e \in Extensions |-> IF e = "x1" THEN Valid ELSE "NACOS_AUTO_REGISTER" :> "no"]

MCOverrides ==
    {<<>>,
     Valid @@ "NACOS_DEREGISTER_ON_EXIT" :> "no" @@ "NACOS_LOG_ENABLED" :> "yes",
     "NACOS_HEALTH_CHECK_ENABLED" :> "yes" @@ "NACOS_DEREGISTER_ON_EXIT" :> "malformed"
        @@ "NACOS_PASSWORD" :> "set"}

MCLoggers == <<"nacos", "nacos.client">>

Symmetry == Permutations(Callers) \cup Permutations(Apps)
=============================================================================
