-------------------------------- MODULE MCCeiling -------------------------------
(***************************************************************************)
(* The gateway alone: two calls of one tenant under way together.          *)
(***************************************************************************)
EXTENDS InferenceGateway

DeclaredV == [a \in {"a", "b"} |-> IF a = "a" THEN 10 ELSE 7]
ExpectedV == [a \in {"a", "b"} |-> IF a = "a" THEN 1 ELSE 0]
PinV == [policy |-> "any", declared |-> <<5, 2>>]
VersionsV == {<<5, 2>>, <<6>>}
===============================================================================
