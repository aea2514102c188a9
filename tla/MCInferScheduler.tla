-------------------------- MODULE MCInferScheduler --------------------------
(* Small instances of InferScheduler for TLC: a and b with one prompt, c     *)
(* that goes on from what a may have answered, d of another adapter with    *)
(* two completions, e that can never fit, f of an adapter that is broken.   *)
(* Token 9 is sampled.                                                      *)
EXTENDS InferScheduler, TLC

CONSTANTS a, b, c, d, e, f, Tuned, Missing

MCPrompt == (a :> <<1, 2, 3>>) @@ (b :> <<1, 2, 3>>) @@ (c :> <<1, 2, 3, 9, 4>>)
    @@ (d :> <<1, 5>>) @@ (e :> <<1, 2>>) @@ (f :> <<1, 2>>)
MCCopies == [r \in {a, b, c, d, e, f} |-> IF r \in {d} THEN 2 ELSE 1]
MCBudget == [r \in {a, b, c, d, e, f} |-> IF r = e THEN 40 ELSE 2]
MCAdapter == [r \in {a, b, c, d, e, f} |->
    CASE r = d -> Tuned [] r = f -> Missing [] OTHER -> None]
=============================================================================
