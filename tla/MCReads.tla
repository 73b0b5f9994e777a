------------------------------- MODULE MCReads -------------------------------
(* Reads for TLC: rows and configurations that deviate from an ordinary    *)
(* one, at least once in every field.                                      *)
EXTENDS Reads

Ordinary == [cluster |-> "blue", metadata |-> "v", endpoint |-> "valid", weight |-> "positive"]

MCRows ==
    {[Ordinary EXCEPT !.cluster = c] : c \in {"blue", "DEFAULT", "missing"}}
    \cup {[Ordinary EXCEPT !.metadata = m] : m \in {"w", "missing", "malformed"}}
    \cup {[Ordinary EXCEPT !.weight = w] : w \in {"huge", "zero", "malformed"}}
    \cup {[Ordinary EXCEPT !.endpoint = "malformed"]}

Usual == [enabled |-> TRUE, config_enabled |-> TRUE, normalize |-> TRUE, retry_enabled |-> TRUE,
          retry_times |-> 2, retry_interval |-> "valid"]

MCConfigs ==
    {Usual, [Usual EXCEPT !.enabled = FALSE], [Usual EXCEPT !.config_enabled = FALSE],
     [Usual EXCEPT !.normalize = FALSE], [Usual EXCEPT !.retry_enabled = FALSE]}
    \cup {[Usual EXCEPT !.retry_times = n] : n \in {0, 1, 3}}
    \cup {[Usual EXCEPT !.retry_interval = i] : i \in {"overflows", "invalid"}}
=============================================================================
