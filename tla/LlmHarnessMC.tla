---------------------------- MODULE LlmHarnessMC ----------------------------
(* LlmHarness with a provider of two models and one of four whose default is *)
(* not its first; the judge of the code is a model of the second.            *)
EXTENDS LlmHarness

MCCatalog == [openai |-> <<"o1", "o2">>, gemini |-> <<"g1", "g2", "g3", "g4">>]
MCDefault == [openai |-> "o1", gemini |-> "g2"]
MCJudge == <<"gemini", "g2">>
=============================================================================
