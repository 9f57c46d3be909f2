--------------------------- MODULE MCAnalysisFlow ----------------------------
(***************************************************************************)
(* An instance of AnalysisFlow for TLC: compositions of one step, of two   *)
(* full ones and with a repeated word; a request takes a minute's requests *)
(* of an account, so two accounts admit two requests in a minute.          *)
(***************************************************************************)
EXTENDS AnalysisFlow

Name(word) == <<word, " ">>

Cream(names, unit) ==
  [article |-> "1", type |-> "serum", composition |-> names, unit |-> unit,
   quantity |-> 50, price |-> 700]

MCProducts ==
  {Cream(<<Name("citric acid"), <<"citric acid", "_">>, Name("aqua")>>, "ml"),
   Cream(<<Name("aqua")>>, "pcs")}

MCAccounts == <<"account_1", "account_2">>
=============================================================================
