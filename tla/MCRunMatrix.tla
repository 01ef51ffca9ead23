---------------------------- MODULE MCRunMatrix ----------------------------
(* A small matrix for TLC: two runs of one engine, of which the name of    *)
(* the first begins that of the second, and one of another engine.         *)
EXTENDS RunMatrix, TLC

ThreeRuns == <<"vllm-tp1", "vllm-tp1-fp8", "sglang-tp1">>

Engines ==
    ("vllm-tp1" :> "vllm") @@ ("vllm-tp1-fp8" :> "vllm") @@ ("sglang-tp1" :> "sglang")

Prefixes ==
    ("vllm-tp1" :> {"vllm-tp1", "vllm-tp1-fp8"})
    @@ ("vllm-tp1-fp8" :> {"vllm-tp1-fp8"}) @@ ("sglang-tp1" :> {"sglang-tp1"})

=============================================================================
