-------------------------------- MODULE Parser --------------------------------
(***************************************************************************)
(* Parser::parseLine over the tokens that operator>> splits a line into.   *)
(* A loop iteration is a step of a fold; what the extra stream >> token    *)
(* after a redirection consumes is kept in next.                           *)
(***************************************************************************)
EXTENDS Naturals, SequencesExt

emptyCommand ==
    [executable |-> "", arguments |-> <<>>, isBackground |-> FALSE,
     redirectOutput |-> "", redirectInput |-> "", next |-> "executable"]

\* One token: the first is the executable, > and < take the next one as their target.
scan(cmd, token) ==
    CASE cmd.next = "executable" ->
            [cmd EXCEPT !.executable = token, !.arguments = <<token>>, !.next = "any"]
      [] cmd.next = "output" -> [cmd EXCEPT !.redirectOutput = token, !.next = "any"]
      [] cmd.next = "input" -> [cmd EXCEPT !.redirectInput = token, !.next = "any"]
      [] cmd.next = "any" /\ token = "&" -> [cmd EXCEPT !.isBackground = TRUE]
      [] cmd.next = "any" /\ token = ">" -> [cmd EXCEPT !.next = "output"]
      [] cmd.next = "any" /\ token = "<" -> [cmd EXCEPT !.next = "input"]
      [] OTHER -> [cmd EXCEPT !.arguments = Append(@, token)]

parseLine(tokens) == FoldLeft(scan, emptyCommand, tokens)

-------------------------------------------------------------------------------
(* The same without a scan, by looking at a token's neighbours.            *)

Redirections == {">", "<"}

\* The token at i is the target of the one before it: that one ends a run of an odd
\* number of redirection signs, as the second, fourth ... of a run are targets.
IsTarget(tokens, i) ==
    \E n \in 1..(i - 2) :
        /\ n % 2 = 1
        /\ \A k \in (i - n)..(i - 1) : tokens[k] \in Redirections
        /\ i - n = 2 \/ tokens[i - n - 1] \notin Redirections

\* A line waits for its job unless some & on it is neither its first word nor a target.
WaitsForJob(tokens) ==
    \A i \in 2..Len(tokens) : tokens[i] = "&" => IsTarget(tokens, i)

Arguments(tokens) ==
    {i \in DOMAIN tokens :
        i > 1 => ~IsTarget(tokens, i) /\ tokens[i] \notin Redirections \cup {"&"}}

\* parseLine agrees with what the neighbours say, on one line.
ParsesAsWritten(tokens) ==
    LET cmd == parseLine(tokens)
        Targets(sign) == {i \in DOMAIN tokens : IsTarget(tokens, i) /\ tokens[i - 1] = sign}
        LastOf(S) == IF S = {} THEN "" ELSE tokens[CHOOSE i \in S : \A k \in S : k <= i]
    IN  /\ cmd.isBackground = ~WaitsForJob(tokens)
        /\ cmd.arguments = [n \in 1..Cardinality(Arguments(tokens)) |->
              tokens[CHOOSE i \in Arguments(tokens) :
                        Cardinality({k \in Arguments(tokens) : k <= i}) = n]]
        /\ cmd.redirectOutput = LastOf(Targets(">"))
        /\ cmd.redirectInput = LastOf(Targets("<"))

===============================================================================
