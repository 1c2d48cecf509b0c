----------------------- MODULE MCSpeculativePipeline -----------------------
(* Predicted steps: three reads, a navigation that depends on the first of  *)
(* them, a step the fence refuses, and a step that depends on itself.       *)
EXTENDS SpeculativePipeline

CONSTANTS read, look, peek, nav, post, loopy

MCDependsOn == [x \in Request |-> CASE x = nav -> {read} [] x = loopy -> {loopy}
                                    [] OTHER -> {}]
=============================================================================
