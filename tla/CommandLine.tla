---------------------------- MODULE CommandLine -----------------------------
(***************************************************************************)
(* tokenizer.c, the same file in project2a and project2b, and the parsing  *)
(* half of their penn-sh.c: "2a" knows redirections, "2b" pipes as well.  A *)
(* line is a sequence of characters; any two characters that are neither a *)
(* space nor a delimiter are the same to this code.                        *)
(***************************************************************************)
EXTENDS Integers, Sequences, SequencesExt

CONSTANT
    Lines       \* the lines a user may enter, without their newline

ASSUME LinesAssumption == \A line \in Lines : line \in Seq(STRING)

IsSpace(ch) == ch = " "
IsDelimiter(ch) == ch \in {"|", "&", "<", ">"}

\* The first position of s from p on that holds no space.
SkipSpaces(s, p) ==
    Min({q \in p .. Len(s) + 1 : q = Len(s) + 1 \/ ~IsSpace(s[q])})

\* The position after the token that starts at p.  Its first character is not
\* looked at, whatever it is.
TokenEnd(s, p) ==
    Min({q \in p + 1 .. Len(s) + 1 :
           q = Len(s) + 1 \/ IsDelimiter(s[q]) \/ IsSpace(s[q])})

NoToken == << >>

\* Mutant of NextToken: the spaces after a token stay.
NextTokenKeepsSpaces(s, p) ==
    IF p <= Len(s) /\ IsDelimiter(s[p])
    THEN [token |-> <<s[p]>>, pos |-> p + 1]
    ELSE LET q == SkipSpaces(s, p) IN
         IF q = Len(s) + 1
         THEN [token |-> NoToken, pos |-> p]
         ELSE [token |-> SubSeq(s, q, TokenEnd(s, q) - 1), pos |-> TokenEnd(s, q)]

(***************************************************************************)
(* get_next_token on the string s with pos = p.  Spaces are skipped at the *)
(* start of a word and after a word, and not after a delimiter.            *)
(***************************************************************************)
NextToken(s, p) ==
    IF p <= Len(s) /\ IsDelimiter(s[p])
    THEN [token |-> <<s[p]>>, pos |-> p + 1]
    ELSE LET q == SkipSpaces(s, p) IN
         IF q = Len(s) + 1
         THEN [token |-> NoToken, pos |-> p]
         ELSE [token |-> SubSeq(s, q, TokenEnd(s, q) - 1),
               pos |-> SkipSpaces(s, TokenEnd(s, q))]

\* All tokens of s, in order.
Tokens(s) ==
    LET from[p \in 1 .. Len(s) + 1] ==
            LET next == NextToken(s, p) IN
            IF next.token = NoToken THEN << >>
            ELSE <<next.token>> \o from[next.pos]
    IN from[1]

-----------------------------------------------------------------------------
(***************************************************************************)
(* What executeShell makes of the tokens: for each of the two stages of a  *)
(* pipeline the number of its arguments and of its redirections.           *)
(***************************************************************************)
NoStage == [args |-> 0, outs |-> 0, ins |-> 0]

Unparsed == [stage |-> <<NoStage, NoStage>>, flag |-> 0, pending |-> "none"]

Count(parsed, list) ==
    [parsed EXCEPT !.stage[parsed.flag + 1][list] = @ + 1, !.pending = "none"]

\* Mutant of TreatToken: a '|' does not start the second stage.
TreatTokenOneStage(parsed, token) ==
    IF parsed.pending # "none" THEN Count(parsed, parsed.pending)
    ELSE CASE token[1] = "<" -> [parsed EXCEPT !.pending = "ins"]
           [] token[1] = ">" -> [parsed EXCEPT !.pending = "outs"]
           [] OTHER -> Count(parsed, "args")

\* One token: the name a '<' or '>' waits for, whatever it is, or a '|', a '<'
\* or a '>' by its first character, or an argument.
TreatToken(parsed, token) ==
    IF parsed.pending # "none" THEN Count(parsed, parsed.pending)
    ELSE CASE token[1] = "|" -> [parsed EXCEPT !.flag = 1]
           [] token[1] = "<" -> [parsed EXCEPT !.pending = "ins"]
           [] token[1] = ">" -> [parsed EXCEPT !.pending = "outs"]
           [] OTHER -> Count(parsed, "args")

\* The same without pipes: a '|' is an argument like any other.
TreatPlainToken(parsed, token) ==
    IF parsed.pending # "none" THEN Count(parsed, parsed.pending)
    ELSE CASE token[1] = "<" -> [parsed EXCEPT !.pending = "ins"]
           [] token[1] = ">" -> [parsed EXCEPT !.pending = "outs"]
           [] OTHER -> Count(parsed, "args")

Parse(s) ==
    LET parsed == FoldLeft(TreatToken, Unparsed, Tokens(s))
    IN [stage |-> parsed.stage, flag |-> parsed.flag]

ParsePlain(s) ==
    LET parsed == FoldLeft(TreatPlainToken, Unparsed, Tokens(s))
    IN [stage |-> parsed.stage, flag |-> parsed.flag]

\* Mutant of ParseIn: a '|' makes a pipeline in either version.
ParseAsPipeline(version, s) == Parse(s)

ParseIn(version, s) == IF version = "2a" THEN ParsePlain(s) ELSE Parse(s)

\* A line of spaces, or one that starts with a space, is refused.
Refused(s) == s = << >> \/ IsSpace(s[1])

\* What the shell may be asked to run.
Accepted == {s \in Lines : ~Refused(s)}
Pipelines == {Parse(s) : s \in Accepted}
PlainCommands == {ParsePlain(s) : s \in Accepted}

-----------------------------------------------------------------------------
(***************************************************************************)
(* What PennSh states about tokens and counts, without the position.      *)
(***************************************************************************)

\* The k-th smallest member of a set of numbers.
Nth(S, k) == CHOOSE p \in S : Cardinality({q \in S : q <= p}) = k

\* The characters of s other than its spaces, in their order.
Visible(s) == {p \in 1 .. Len(s) : ~IsSpace(s[p])}
WithoutSpaces(s) == [k \in 1 .. Cardinality(Visible(s)) |-> s[Nth(Visible(s), k)]]

\* The README's description, "Tokens are delimited by spaces, >, <, &, and |":
\* a token starts at a delimiter, and at any other character after a space, a
\* delimiter or nothing.
Starts(s) ==
    {p \in Visible(s) :
        IsDelimiter(s[p]) \/ p = 1 \/ IsDelimiter(s[p - 1]) \/ IsSpace(s[p - 1])}

Described(s) ==
    [k \in 1 .. Cardinality(Starts(s)) |->
        LET p == Nth(Starts(s), k) IN
        IF IsDelimiter(s[p]) THEN <<s[p]>> ELSE SubSeq(s, p, TokenEnd(s, p) - 1)]

\* A delimiter after a space, with no word before that space: the tokenizer
\* takes such a delimiter for the first character of a word.
Hidden(s) ==
    \E p, q \in 1 .. Len(s) :
        /\ p < q /\ IsDelimiter(s[q])
        /\ \A r \in p .. q - 1 : IsSpace(s[r])
        /\ p = 1 \/ IsDelimiter(s[p - 1])

\* The tokens that are names: those after a redirection that is not itself a name.
Names(tokens) ==
    LET IsName[k \in 0 .. Len(tokens)] ==
            k > 1 /\ tokens[k - 1][1] \in {"<", ">"} /\ ~IsName[k - 1]
    IN {k \in 1 .. Len(tokens) : IsName[k]}

NamesAfter(tokens, sign) == {k \in Names(tokens) : tokens[k - 1][1] = sign}

\* The pipe signs and the arguments among the tokens that are not names.
Bars(version, tokens) ==
    {k \in (1 .. Len(tokens)) \ Names(tokens) : version = "2b" /\ tokens[k][1] = "|"}

Arguments(version, tokens) ==
    {k \in (1 .. Len(tokens)) \ (Names(tokens) \cup Bars(version, tokens)) :
        tokens[k][1] \notin {"<", ">"}}

\* The counts of the parser, told by the kinds of the tokens.
CountsOnce(version, s) ==
    LET tokens == Tokens(s)
        parsed == ParseIn(version, s)
        Second(S) == {k \in S : \E b \in Bars(version, tokens) : b < k}
        Counted(list, S) == /\ parsed.stage[1][list] = Cardinality(S \ Second(S))
                            /\ parsed.stage[2][list] = Cardinality(Second(S))
    IN /\ parsed.flag = 1 <=> Bars(version, tokens) # {}
       /\ Counted("args", Arguments(version, tokens))
       /\ Counted("outs", NamesAfter(tokens, ">"))
       /\ Counted("ins", NamesAfter(tokens, "<"))

=============================================================================
