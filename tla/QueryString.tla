----------------------------- MODULE QueryString -----------------------------
(***************************************************************************)
(* Query::Create<Input>: Tokenize takes the query string apart at any of   *)
(* its delimiters, ToTypes collects the tokens, and AsName and AsIndex     *)
(* turn each of them into a token of the query.                            *)
(*                                                                         *)
(* "." stands for the three delimiters, "x" for letters and underscores,   *)
(* " " for what is neither they nor a digit; the NUL is in the string and, *)
(* as Delimiter.string has one as well, it is a delimiter.                 *)
(*                                                                         *)
(* The state and the specification carry the module's name in theirs, for  *)
(* a module that extends this one and Blend, whose states they share none  *)
(* of, to name both.                                                       *)
(***************************************************************************)
EXTENDS Integers, Sequences, SequencesExt

CONSTANTS
  Inputs,      \* the strings to consider, without the NUL
  MaxDigits    \* std::numeric_limits<usize>::digits10

Value == [c \in {"0", "1", "2"} |-> CASE c = "0" -> 0 [] c = "1" -> 1 [] c = "2" -> 2]

Digits     == DOMAIN Value
Delimiters == {".", "NUL"}
Chars      == Digits \cup {".", "x", " "}

ASSUME QueryStringAssumption == Inputs \subseteq Seq(Chars) /\ MaxDigits \in Nat

VARIABLES
  m_Source,
  m_Position,    \* of the tokenizer: where its token begins
  m_Next,        \* and where it ends
  tokens,        \* the tokens collected, as texts
  m_Tokens,      \* of the query
  at             \* "tokenize", "create", "accepted" or "InvalidQueryString"

queryVars == <<m_Source, m_Position, m_Next, tokens, m_Tokens, at>>

Query == [kind : {"name"}, value : Seq(Chars)] \cup [kind : {"index"}, value : Nat]

size    == Len(m_Source)
Char(i) == m_Source[i + 1]    \* the code counts from 0

QueryTypeOK ==
  /\ \E input \in {Front(m_Source)} : input \in Seq(Chars) /\ m_Source = Append(input, "NUL")
  /\ m_Position \in 0 .. size /\ m_Next \in m_Position .. size
  /\ tokens \in Seq(Seq(Chars) \ {<<>>})
  /\ m_Tokens \in Seq(Query)
  /\ at \in {"tokenize", "create", "accepted", "InvalidQueryString"}

-----------------------------------------------------------------------------
(* GetNext: the end of the token at a position, and past empty tokens.     *)
IsDelimiter(c) == c \in Delimiters

EndFrom(source, p) ==
  LET end[i \in 0 .. Len(source)] ==
        IF i = Len(source) \/ IsDelimiter(source[i + 1]) THEN i ELSE end[i + 1]
  IN  end[p]

\* Mutant: empty tokens are tokens.
SkipNothing(source, p) == p

SkipEmpty(source, p) ==
  LET begin[i \in 0 .. Len(source)] ==
        IF EndFrom(source, i) = i /\ i < Len(source) THEN begin[i + 1] ELSE i
  IN  begin[p]

(* The constructor of the tokenizer.                                       *)
QueryInit ==
  /\ \E input \in Inputs : m_Source = Append(input, "NUL")
  /\ m_Position = SkipEmpty(m_Source, 0)
  /\ m_Next = EndFrom(m_Source, m_Position)
  /\ tokens = <<>>
  /\ m_Tokens = <<>>
  /\ at = "tokenize"

(* One round of the loop in ToTypes: the token, and Advance.               *)
\* Mutant: the token begins behind all delimiters' characters.
CollectBehind ==
  LET next == SkipEmpty(m_Source, m_Next + 1)
      pos  == IF m_Position = 0 THEN 0 ELSE m_Position + 2
  IN  /\ at = "tokenize"
      /\ m_Position < size
      /\ tokens' = Append(tokens, SubSeq(m_Source, pos + 1, m_Next))
      /\ m_Position' = next
      /\ m_Next' = EndFrom(m_Source, next)
      /\ UNCHANGED <<m_Source, m_Tokens, at>>

Collect ==
  LET next == SkipEmpty(m_Source, m_Next + 1)
  IN  /\ at = "tokenize"
      /\ m_Position < size
      /\ tokens' = Append(tokens, SubSeq(m_Source, m_Position + 1, m_Next))
      /\ m_Position' = next
      /\ m_Next' = EndFrom(m_Source, next)
      /\ UNCHANGED <<m_Source, m_Tokens, at>>

EndTokens ==
  /\ at = "tokenize"
  /\ m_Position = size
  /\ at' = "create"
  /\ UNCHANGED <<m_Source, m_Position, m_Next, tokens, m_Tokens>>

-----------------------------------------------------------------------------
AsName(input) ==
  IF /\ input # <<>> /\ Head(input) = "x"
     /\ \A i \in DOMAIN input : input[i] \in Digits \cup {"x"}
  THEN <<[kind |-> "name", value |-> input]>> ELSE <<>>

(* The first digit counts once, the second one ten times, and so on.       *)
Weighed(input) ==
  FoldRight(LAMBDA digit, rest : Value[digit] + 10 * rest, input, 0)

AsIndex(input) ==
  IF /\ input # <<>> /\ Len(input) <= MaxDigits
     /\ \A i \in DOMAIN input : input[i] \in Digits
  THEN <<[kind |-> "index", value |-> Weighed(input)]>> ELSE <<>>

(* A token that is neither is left out, and missed at the end.             *)
\* Mutant: a token that is neither is left out.
CreateOfSome ==
  LET Turned(token) == IF AsName(token) # <<>> THEN AsName(token) ELSE AsIndex(token)
      turned        == FlattenSeq([i \in DOMAIN tokens |-> Turned(tokens[i])])
  IN  /\ at = "create"
      /\ IF turned = <<>>
         THEN at' = "InvalidQueryString" /\ UNCHANGED m_Tokens
         ELSE at' = "accepted" /\ m_Tokens' = turned
      /\ UNCHANGED <<m_Source, m_Position, m_Next, tokens>>

Create ==
  LET Turned(token) == IF AsName(token) # <<>> THEN AsName(token) ELSE AsIndex(token)
      turned        == FlattenSeq([i \in DOMAIN tokens |-> Turned(tokens[i])])
  IN  /\ at = "create"
      /\ IF turned = <<>> \/ Len(turned) # Len(tokens)
         THEN at' = "InvalidQueryString" /\ UNCHANGED m_Tokens
         ELSE at' = "accepted" /\ m_Tokens' = turned
      /\ UNCHANGED <<m_Source, m_Position, m_Next, tokens>>

QueryNext == Collect \/ EndTokens \/ Create

QuerySpec == QueryInit /\ [][QueryNext]_queryVars

-----------------------------------------------------------------------------
(***************************************************************************)
(* Properties.                                                             *)
(***************************************************************************)
(* The tokens are the longest runs of characters between delimiters, none  *)
(* of them left out and none of them empty, whatever delimiters the string *)
(* begins or ends with.                                                    *)
IsRun(i, j) ==
  /\ i < j
  /\ \A k \in i .. j - 1 : ~IsDelimiter(Char(k))
  /\ i = 0 \/ IsDelimiter(Char(i - 1))
  /\ IsDelimiter(Char(j))

Runs == {run \in (0 .. size - 1) \X (0 .. size - 1) : IsRun(run[1], run[2])}

TokensAreTheRuns ==
  at # "tokenize" =>
    \E runs \in [DOMAIN tokens -> Runs] :
      /\ Range(runs) = Runs
      /\ \A m, n \in DOMAIN tokens : m < n => runs[m][2] < runs[n][1]
      /\ \A n \in DOMAIN tokens : tokens[n] = SubSeq(m_Source, runs[n][1] + 1, runs[n][2])

(* A query is made exactly of a string whose tokens are all names or       *)
(* numbers, with a token for each, in their order.                         *)
IsName(token)  == token[1] = "x" /\ \A i \in DOMAIN token : token[i] # " "
IsIndex(token) == Len(token) <= MaxDigits /\ \A i \in DOMAIN token : token[i] \in Digits

QueriesAreWhole ==
  /\ at = "accepted" =>
       /\ DOMAIN m_Tokens = DOMAIN tokens /\ tokens # <<>>
       /\ \A i \in DOMAIN tokens :
            \/ IsName(tokens[i]) /\ m_Tokens[i] = [kind |-> "name", value |-> tokens[i]]
            \/ IsIndex(tokens[i]) /\ m_Tokens[i].kind = "index"
  /\ at = "InvalidQueryString" =>
       \/ \A i \in 0 .. size - 1 : IsDelimiter(Char(i))
       \/ \E i \in DOMAIN tokens : ~IsName(tokens[i]) /\ ~IsIndex(tokens[i])

(* An index is the number that its digits say.                             *)
Number(digits) == FoldLeft(LAMBDA n, c : 10 * n + Value[c], 0, digits)

IndicesAreNumbers ==
  at = "accepted" =>
    \A i \in DOMAIN tokens :
      m_Tokens[i].kind = "index" => m_Tokens[i].value = Number(tokens[i])
=============================================================================
