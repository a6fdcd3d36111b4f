---- MODULE MCProviderGate ----
(* Small instances of ProviderGate for TLC. *)
EXTENDS ProviderGate

(* The retry table with one delay instead of four. *)
OneRetry == <<1>>

(* No retry: enough for the run about the spacing alone. *)
NoRetry == <<>>
====
