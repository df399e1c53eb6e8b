------------------------------ MODULE MCEngine ------------------------------
(***************************************************************************)
(* Values for the constants of Engine: a foreground line whose output goes *)
(* to a file named &, a background line, a job through the daemon's pipe;  *)
(* and the lines up to MaxTokens on which parseLine is compared.           *)
(***************************************************************************)
EXTENDS Engine

CONSTANTS fg, bg, d1, w1, w2, MaxTokens

MCJobs == {fg, bg, d1}
MCWorkers == {w1, w2}
MCKind == [j \in Jobs |-> "program"]
MCPriority == [j \in Jobs |-> 0]
MCLine == (fg :> <<"prog", ">", "&">>) @@ (bg :> <<"prog", "&">>)

\* parseLine on every line of up to MaxTokens words.
ASSUME ParserAssumption ==
    \A n \in 0..MaxTokens : \A tokens \in [1..n -> {"prog", "&", ">", "<"}] :
        ParsesAsWritten(tokens)
=============================================================================
