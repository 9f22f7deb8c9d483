---------------------------- MODULE PennShProofs ----------------------------
(***************************************************************************)
(* Theorems about PennSh, for any set of lines, of any length, and any     *)
(* capacity of the pipe.  The first part is about CommandLine, which       *)
(* PennSh's commands come from: what the tokenizer and the parser, two     *)
(* recursive definitions, return for every line.  The library's induction  *)
(* theorems have an operator as a parameter; sets of numbers do instead.   *)
(***************************************************************************)
EXTENDS PennSh, SequenceTheorems, FiniteSetTheorems, TLAPS

LEMMA LeastNumber ==
    ASSUME NEW S, S \subseteq Nat, S # {}
    PROVE  \E k \in S : \A j \in S : k <= j
<1>1. PICK k \in S : \A j \in S : ~ (<<j, k>> \in OpToRel(<, Nat))
  BY WFMin, NatLessThanWellFounded
<1>2. \A j \in S : k <= j
  <2> TAKE j \in S
  <2>1. j \in Nat /\ k \in Nat
    OBVIOUS
  <2>2. ~ (j < k)
    BY <1>1, <2>1 DEF OpToRel
  <2> QED
    BY <2>1, <2>2
<1> QED
  BY <1>2

\* Induction: S is the set of the numbers that a statement holds for.
LEMMA Induction ==
    ASSUME NEW S, S \subseteq Nat, 0 \in S, \A n \in S : n + 1 \in S
    PROVE  S = Nat
<1> SUFFICES ASSUME Nat \ S # {} PROVE FALSE
  OBVIOUS
<1>1. PICK k \in Nat \ S : \A j \in Nat \ S : k <= j
  BY LeastNumber
<1>2. k - 1 \in Nat /\ k - 1 + 1 = k /\ ~ (k <= k - 1)
  BY <1>1
<1> QED
  BY <1>1, <1>2

LEMMA MinIs ==
    ASSUME NEW S, S \subseteq Nat, S # {}
    PROVE  Min(S) \in S /\ \A j \in S : Min(S) <= j
BY LeastNumber DEF Min

-----------------------------------------------------------------------------
(***************************************************************************)
(* The tokenizer.                                                          *)
(***************************************************************************)
LEMMA SkipSpacesIs ==
    ASSUME NEW s \in Seq(STRING), NEW p \in 1 .. Len(s) + 1
    PROVE  /\ SkipSpaces(s, p) \in p .. Len(s) + 1
           /\ SkipSpaces(s, p) = Len(s) + 1 \/ ~IsSpace(s[SkipSpaces(s, p)])
           /\ \A r \in p .. SkipSpaces(s, p) - 1 : IsSpace(s[r])
<1> DEFINE S == {q \in p .. Len(s) + 1 : q = Len(s) + 1 \/ ~IsSpace(s[q])}
<1>1. Len(s) \in Nat
  BY LenProperties
<1>2. S \subseteq Nat /\ Len(s) + 1 \in S
  BY <1>1
<1>3. Min(S) \in S /\ \A j \in S : Min(S) <= j
  BY <1>2, MinIs
<1>4. SkipSpaces(s, p) = Min(S)
  BY DEF SkipSpaces
<1>5. \A r \in p .. Min(S) - 1 : IsSpace(s[r])
  <2> TAKE r \in p .. Min(S) - 1
  <2>1. r \in p .. Len(s) + 1 /\ ~ (Min(S) <= r)
    BY <1>1, <1>2, <1>3
  <2> QED
    BY <1>3, <2>1
<1> QED
  BY <1>3, <1>4, <1>5

LEMMA TokenEndIs ==
    ASSUME NEW s \in Seq(STRING), NEW p \in 1 .. Len(s)
    PROVE  /\ TokenEnd(s, p) \in p + 1 .. Len(s) + 1
           /\ \/ TokenEnd(s, p) = Len(s) + 1
              \/ IsDelimiter(s[TokenEnd(s, p)])
              \/ IsSpace(s[TokenEnd(s, p)])
           /\ \A r \in p + 1 .. TokenEnd(s, p) - 1 : ~IsDelimiter(s[r]) /\ ~IsSpace(s[r])
<1> DEFINE S == {q \in p + 1 .. Len(s) + 1 :
                   q = Len(s) + 1 \/ IsDelimiter(s[q]) \/ IsSpace(s[q])}
<1>1. Len(s) \in Nat
  BY LenProperties
<1>2. S \subseteq Nat /\ Len(s) + 1 \in S
  BY <1>1
<1>3. Min(S) \in S /\ \A j \in S : Min(S) <= j
  BY <1>2, MinIs
<1>4. TokenEnd(s, p) = Min(S)
  BY DEF TokenEnd
<1>5. \A r \in p + 1 .. Min(S) - 1 : ~IsDelimiter(s[r]) /\ ~IsSpace(s[r])
  <2> TAKE r \in p + 1 .. Min(S) - 1
  <2>1. r \in p + 1 .. Len(s) + 1 /\ ~ (Min(S) <= r)
    BY <1>1, <1>2, <1>3
  <2> QED
    BY <1>3, <2>1
<1> QED
  BY <1>3, <1>4, <1>5

\* A token takes at least one character.
LEMMA NextTokenIs ==
    ASSUME NEW s \in Seq(STRING), NEW p \in 1 .. Len(s) + 1,
           NextToken(s, p).token # NoToken
    PROVE  /\ NextToken(s, p).token \in Seq(STRING)
           /\ NextToken(s, p).pos \in p + 1 .. Len(s) + 1
<1>1. Len(s) \in Nat /\ \A k \in 1 .. Len(s) : s[k] \in STRING
  BY LenProperties, ElementOfSeq
<1>2. CASE p <= Len(s) /\ IsDelimiter(s[p])
  <2>1. NextToken(s, p) = [token |-> <<s[p]>>, pos |-> p + 1]
    BY <1>2 DEF NextToken
  <2>2. p \in 1 .. Len(s) /\ s[p] \in STRING
    BY <1>1, <1>2
  <2>3. <<s[p]>> \in Seq(STRING)
    BY <2>2
  <2> QED
    BY <1>1, <2>1, <2>2, <2>3
<1>3. CASE ~ (p <= Len(s) /\ IsDelimiter(s[p]))
  <2> DEFINE q == SkipSpaces(s, p)
             e == TokenEnd(s, q)
  <2>1. NextToken(s, p) = IF q = Len(s) + 1
                          THEN [token |-> NoToken, pos |-> p]
                          ELSE [token |-> SubSeq(s, q, e - 1), pos |-> SkipSpaces(s, e)]
    BY <1>3 DEF NextToken
  <2>2. q # Len(s) + 1
    BY <2>1
  <2>3. q \in p .. Len(s) + 1
    BY SkipSpacesIs
  <2>4. q \in 1 .. Len(s)
    BY <1>1, <2>2, <2>3
  <2>5. e \in q + 1 .. Len(s) + 1
    BY <2>4, TokenEndIs
  <2>6. e \in 1 .. Len(s) + 1
    BY <1>1, <2>4, <2>5
  <2>7. SkipSpaces(s, e) \in e .. Len(s) + 1
    BY <2>6, SkipSpacesIs
  <2>8. SubSeq(s, q, e - 1) \in Seq(STRING)
    <3>1. q \in Int /\ e - 1 \in Int /\ \A k \in q .. e - 1 : s[k] \in STRING
      BY <1>1, <2>4, <2>5
    <3> QED
      BY <3>1, SubSeqProperties
  <2>9. NextToken(s, p) = [token |-> SubSeq(s, q, e - 1), pos |-> SkipSpaces(s, e)]
    BY <2>1, <2>2
  <2>10. SkipSpaces(s, e) \in p + 1 .. Len(s) + 1
    BY <1>1, <2>3, <2>5, <2>7
  <2> HIDE DEF q, e
  <2> QED
    BY <2>8, <2>9, <2>10
<1> QED
  BY <1>2, <1>3

\* The function that Tokens defines by recursion, and the right side of its
\* definition: the tokens from position p on.
Rest(s, g, p) ==
    IF NextToken(s, p).token = NoToken THEN << >>
    ELSE <<NextToken(s, p).token>> \o g[NextToken(s, p).pos]

From(s) == CHOOSE g : g = [p \in 1 .. Len(s) + 1 |-> Rest(s, g, p)]

TokenSeqs == Seq(Seq(STRING))

LEMMA TokensFrom == ASSUME NEW s PROVE Tokens(s) = From(s)[1]
BY DEF Tokens, From, Rest

\* The right side uses its function further on in the line only.
LEMMA RestIs ==
    ASSUME NEW s \in Seq(STRING), NEW p \in 1 .. Len(s) + 1, NEW g,
           \A r \in p + 1 .. Len(s) + 1 : g[r] \in TokenSeqs
    PROVE  /\ Rest(s, g, p) \in TokenSeqs
           /\ \A h : (\A r \in p + 1 .. Len(s) + 1 : h[r] = g[r]) => Rest(s, h, p) = Rest(s, g, p)
<1>1. CASE NextToken(s, p).token = NoToken
  BY <1>1 DEF Rest, TokenSeqs
<1>2. CASE NextToken(s, p).token # NoToken
  <2>1. /\ NextToken(s, p).token \in Seq(STRING)
        /\ NextToken(s, p).pos \in p + 1 .. Len(s) + 1
    BY <1>2, NextTokenIs
  <2>2. /\ <<NextToken(s, p).token>> \in Seq(Seq(STRING))
        /\ g[NextToken(s, p).pos] \in Seq(Seq(STRING))
    BY <2>1 DEF TokenSeqs
  <2>3. <<NextToken(s, p).token>> \o g[NextToken(s, p).pos] \in Seq(Seq(STRING))
    BY <2>2, ConcatProperties
  <2> QED
    BY <1>2, <2>1, <2>3 DEF Rest, TokenSeqs
<1> QED
  BY <1>1, <1>2

\* There is such a function: built from the end of the line to its start.
LEMMA FromExists ==
    ASSUME NEW s \in Seq(STRING)
    PROVE  \E g : g = [p \in 1 .. Len(s) + 1 |-> Rest(s, g, p)]
<1> DEFINE n == Len(s)
           Part(k) == n + 2 - k .. n + 1
           Good(g, k) == \A p \in Part(k) : g[p] = Rest(s, g, p)
           K == {k \in Nat : k <= n + 1 => \E g \in [Part(k) -> TokenSeqs] : Good(g, k)}
<1>1. n \in Nat
  BY LenProperties
<1>2. 0 \in K
  <2>1. Part(0) = {}
    BY <1>1
  <2>2. [x \in {} |-> x] \in [{} -> TokenSeqs]
    OBVIOUS
  <2> QED
    BY <2>1, <2>2
<1>3. ASSUME NEW k \in K PROVE k + 1 \in K
  <2> SUFFICES ASSUME k + 1 <= n + 1
               PROVE  \E g \in [Part(k + 1) -> TokenSeqs] : Good(g, k + 1)
    OBVIOUS
  <2>1. k \in Nat /\ k <= n + 1
    BY <1>1
  <2>2. PICK g \in [Part(k) -> TokenSeqs] : Good(g, k)
    BY <2>1
  <2> DEFINE q == n + 1 - k
             h == [p \in Part(k + 1) |-> IF p = q THEN Rest(s, g, q) ELSE g[p]]
  <2>3. q \in 1 .. n + 1 /\ Part(k + 1) = {q} \cup Part(k) /\ Part(k) = q + 1 .. n + 1
    BY <1>1, <2>1
  <2>4. /\ Rest(s, g, q) \in TokenSeqs
        /\ \A f : (\A r \in q + 1 .. n + 1 : f[r] = g[r]) => Rest(s, f, q) = Rest(s, g, q)
    BY <2>2, <2>3, RestIs
  <2>5. \A r \in Part(k) : h[r] = g[r]
    BY <1>1, <2>1, <2>3
  <2>6. h[q] = Rest(s, g, q)
    BY <2>3
  <2>7. h \in [Part(k + 1) -> TokenSeqs]
    BY <2>2, <2>3, <2>4
  <2>8. ASSUME NEW p \in Part(k + 1) PROVE h[p] = Rest(s, h, p)
    <3>1. CASE p = q
      BY <2>3, <2>4, <2>5, <2>6, <3>1
    <3>2. CASE p \in Part(k)
      <4>1. p \in 1 .. n + 1 /\ \A r \in p + 1 .. n + 1 : r \in Part(k)
        BY <1>1, <2>1, <3>2
      <4>2. \A r \in p + 1 .. n + 1 : g[r] \in TokenSeqs /\ h[r] = g[r]
        BY <2>2, <2>5, <4>1
      <4>3. \A f : (\A r \in p + 1 .. n + 1 : f[r] = g[r]) => Rest(s, f, p) = Rest(s, g, p)
        BY <4>1, <4>2, RestIs
      <4>4. Rest(s, h, p) = Rest(s, g, p)
        <5> HIDE DEF h
        <5> QED
          BY <4>2, <4>3
      <4> QED
        BY <2>2, <2>5, <3>2, <4>4
    <3> QED
      BY <2>3, <3>1, <3>2
  <2> QED
    BY <2>7, <2>8
<1>4. K = Nat
  <2>1. K \subseteq Nat
    OBVIOUS
  <2> HIDE DEF K
  <2> QED
    BY <1>2, <1>3, <2>1, Induction
<1>5. n + 1 \in K
  <2>1. n + 1 \in Nat
    BY <1>1
  <2> HIDE DEF K
  <2> QED
    BY <1>4, <2>1
<1>6. PICK g \in [Part(n + 1) -> TokenSeqs] : Good(g, n + 1)
  BY <1>1, <1>5
<1>7. Part(n + 1) = 1 .. n + 1
  BY <1>1
<1>8. g \in [1 .. n + 1 -> TokenSeqs] /\ \A p \in 1 .. n + 1 : g[p] = Rest(s, g, p)
  BY <1>6, <1>7
<1>9. g = [p \in 1 .. n + 1 |-> Rest(s, g, p)]
  BY <1>8
<1> QED
  BY <1>9

\* So it satisfies its equation, and its values are sequences of tokens.
LEMMA FromIs ==
    ASSUME NEW s \in Seq(STRING), NEW p \in 1 .. Len(s) + 1
    PROVE  From(s)[p] = Rest(s, From(s), p) /\ From(s)[p] \in TokenSeqs
<1> DEFINE n == Len(s)
           F == From(s)
           K == {k \in Nat : \A r \in 1 .. n + 1 : n + 1 - k <= r => F[r] \in TokenSeqs}
<1>1. n \in Nat
  BY LenProperties
<1>2. F = [r \in 1 .. n + 1 |-> Rest(s, F, r)]
  BY FromExists DEF From
<1> HIDE DEF F
<1>3. \A r \in 1 .. n + 1 : F[r] = Rest(s, F, r)
  BY <1>2
<1>4. ASSUME NEW r \in 1 .. n + 1, \A t \in r + 1 .. n + 1 : F[t] \in TokenSeqs
      PROVE  F[r] \in TokenSeqs
  BY <1>3, <1>4, RestIs
<1>5. 0 \in K
  <2>1. ASSUME NEW r \in 1 .. n + 1, n + 1 - 0 <= r PROVE F[r] \in TokenSeqs
    <3>1. r + 1 .. n + 1 = {}
      BY <1>1, <2>1
    <3> QED
      BY <1>4, <3>1
  <2> QED
    BY <2>1
<1>6. ASSUME NEW k \in K PROVE k + 1 \in K
  <2>1. ASSUME NEW r \in 1 .. n + 1, n + 1 - (k + 1) <= r PROVE F[r] \in TokenSeqs
    <3>1. \A t \in r + 1 .. n + 1 : t \in 1 .. n + 1 /\ n + 1 - k <= t
      BY <1>1, <2>1
    <3> QED
      BY <1>4, <3>1
  <2> QED
    BY <2>1
<1>7. K = Nat
  <2>1. K \subseteq Nat
    OBVIOUS
  <2> HIDE DEF K
  <2> QED
    BY <1>5, <1>6, <2>1, Induction
<1>8. n + 1 \in K
  <2>1. n + 1 \in Nat
    BY <1>1
  <2> HIDE DEF K
  <2> QED
    BY <1>7, <2>1
<1>9. F[p] \in TokenSeqs
  BY <1>1, <1>8
<1> QED
  BY <1>3, <1>9 DEF F

LEMMA TokensIs == ASSUME NEW s \in Seq(STRING) PROVE Tokens(s) \in Seq(Seq(STRING))
<1>1. 1 \in 1 .. Len(s) + 1
  BY LenProperties
<1> QED
  BY <1>1, FromIs, TokensFrom DEF TokenSeqs

-----------------------------------------------------------------------------
(***************************************************************************)
(* The parser: a fold over the tokens.                                     *)
(***************************************************************************)
Treat(v, parsed, token) ==
    IF v = "2a" THEN TreatPlainToken(parsed, token) ELSE TreatToken(parsed, token)

Stages == [args : Nat, outs : Nat, ins : Nat]

\* What a line is taken for at any point of its parsing; project2a has no pipe.
ParseStates(v) ==
    {parsed \in [stage : Seq(Stages), flag : {0, 1}, pending : {"none", "ins", "outs"}] :
        Len(parsed.stage) = 2 /\ (v = "2a" => parsed.flag = 0)}

\* The function that the fold defines by recursion, over sets of positions.
FoldStep(v, tokens, g, S) ==
    IF S = {} THEN Unparsed ELSE Treat(v, g[S \ {Max(S)}], tokens[Max(S)])

Fold(v, tokens) ==
    CHOOSE g : g = [S \in SUBSET DOMAIN tokens |-> FoldStep(v, tokens, g, S)]

LEMMA FoldIs ==
    ASSUME NEW tokens
    PROVE  /\ FoldLeft(TreatToken, Unparsed, tokens) = Fold("2b", tokens)[DOMAIN tokens]
           /\ FoldLeft(TreatPlainToken, Unparsed, tokens) = Fold("2a", tokens)[DOMAIN tokens]
<1> DEFINE D == DOMAIN tokens
<1>1. \A g, S : FoldStep("2b", tokens, g, S) =
          IF S = {} THEN Unparsed ELSE TreatToken(g[S \ {Max(S)}], tokens[Max(S)])
  BY DEF FoldStep, Treat
<1>2. \A g, S : FoldStep("2a", tokens, g, S) =
          IF S = {} THEN Unparsed ELSE TreatPlainToken(g[S \ {Max(S)}], tokens[Max(S)])
  BY DEF FoldStep, Treat
<1>3. FoldLeft(TreatToken, Unparsed, tokens)
      = (CHOOSE g : g = [S \in SUBSET D |-> IF S = {} THEN Unparsed
                              ELSE TreatToken(g[S \ {Max(S)}], tokens[Max(S)])])[D]
  BY DEF FoldLeft, MapThenFoldSet
<1>4. FoldLeft(TreatPlainToken, Unparsed, tokens)
      = (CHOOSE g : g = [S \in SUBSET D |-> IF S = {} THEN Unparsed
                              ELSE TreatPlainToken(g[S \ {Max(S)}], tokens[Max(S)])])[D]
  BY DEF FoldLeft, MapThenFoldSet
<1> QED
  BY <1>3, <1>4 DEF Fold, FoldStep, Treat

LEMMA TreatIs ==
    ASSUME NEW v, NEW parsed \in ParseStates(v), NEW token
    PROVE  Treat(v, parsed, token) \in ParseStates(v)
<1>1. /\ parsed \in [stage : Seq(Stages), flag : {0, 1}, pending : {"none", "ins", "outs"}]
      /\ Len(parsed.stage) = 2 /\ (v = "2a" => parsed.flag = 0)
  BY DEF ParseStates
<1>2. ASSUME NEW list \in {"args", "ins", "outs"}
      PROVE  Count(parsed, list) \in ParseStates(v)
  <2> DEFINE j == parsed.flag + 1
             one == [parsed.stage[j] EXCEPT ![list] = @ + 1]
  <2>1. j \in 1 .. Len(parsed.stage)
    BY <1>1
  <2>2. parsed.stage[j] \in Stages
    BY <1>1, <2>1, ElementOfSeq
  <2>3. one \in Stages
    BY <2>2 DEF Stages
  <2> DEFINE stage == [parsed.stage EXCEPT ![j] = one]
  <2>4. stage \in Seq(Stages) /\ Len(stage) = 2
    BY <1>1, <2>1, <2>3, ExceptSeq
  <2>5. Count(parsed, list) = [parsed EXCEPT !.stage = stage, !.pending = "none"]
    BY <1>1 DEF Count
  <2> HIDE DEF stage
  <2> QED
    BY <1>1, <2>4, <2>5 DEF ParseStates
<1>3. parsed.pending # "none" => parsed.pending \in {"ins", "outs"}
  BY <1>1
<1>4. \A kind \in {"ins", "outs"} : [parsed EXCEPT !.pending = kind] \in ParseStates(v)
  BY <1>1 DEF ParseStates
<1>5. v # "2a" => [parsed EXCEPT !.flag = 1] \in ParseStates(v)
  BY <1>1 DEF ParseStates
<1> QED
  BY <1>2, <1>3, <1>4, <1>5 DEF Treat, TreatToken, TreatPlainToken

LEMMA MaxIs ==
    ASSUME NEW n \in Nat, NEW S, S \subseteq 1 .. n, S # {}
    PROVE  Max(S) \in S /\ \A j \in S : j <= Max(S)
<1> DEFINE D == {n - k : k \in S}
<1>1. D \subseteq Nat /\ D # {}
  <2>1. \A k \in S : n - k \in Nat
    OBVIOUS
  <2> QED
    BY <2>1
<1>2. PICK d \in D : \A e \in D : d <= e
  BY <1>1, LeastNumber
<1>3. PICK k \in S : d = n - k
  BY <1>2
<1>4. \A j \in S : k >= j
  <2> TAKE j \in S
  <2>1. n - k <= n - j
    BY <1>2, <1>3
  <2> QED
    BY <2>1
<1>5. Max(S) \in S /\ \A j \in S : Max(S) >= j
  BY <1>3, <1>4 DEF Max
<1> QED
  BY <1>5

LEMMA UnparsedIs == ASSUME NEW v PROVE Unparsed \in ParseStates(v)
<1>1. NoStage \in Stages
  BY DEF NoStage, Stages
<1>2. <<NoStage, NoStage>> \in Seq(Stages) /\ Len(<<NoStage, NoStage>>) = 2
  BY <1>1
<1> QED
  BY <1>2 DEF Unparsed, ParseStates

LEMMA FoldExists ==
    ASSUME NEW v, NEW tokens, NEW n \in Nat
    PROVE  \E g : g = [S \in SUBSET (1 .. n) |-> FoldStep(v, tokens, g, S)]
<1> DEFINE Good(g, k) == \A S \in SUBSET (1 .. k) : g[S] = FoldStep(v, tokens, g, S)
           K == {k \in Nat : \E g \in [SUBSET (1 .. k) -> ParseStates(v)] : Good(g, k)}
<1>1. 0 \in K
  <2> DEFINE g == [S \in SUBSET (1 .. 0) |-> Unparsed]
  <2>1. g \in [SUBSET (1 .. 0) -> ParseStates(v)]
    BY UnparsedIs
  <2>2. \A S \in SUBSET (1 .. 0) : S = {}
    OBVIOUS
  <2>3. Good(g, 0)
    BY <2>2 DEF FoldStep
  <2> QED
    BY <2>1, <2>3
<1>2. ASSUME NEW k \in K PROVE k + 1 \in K
  <2>1. k \in Nat
    OBVIOUS
  <2>2. PICK g \in [SUBSET (1 .. k) -> ParseStates(v)] : Good(g, k)
    OBVIOUS
  <2> DEFINE h == [S \in SUBSET (1 .. k + 1) |->
                     IF k + 1 \in S THEN Treat(v, g[S \ {k + 1}], tokens[k + 1]) ELSE g[S]]
  <2>3. ASSUME NEW S \in SUBSET (1 .. k + 1), k + 1 \in S
        PROVE  h[S] = FoldStep(v, tokens, h, S) /\ h[S] \in ParseStates(v)
    <3>1. S \ {k + 1} \in SUBSET (1 .. k) /\ S \ {k + 1} \in SUBSET (1 .. k + 1)
      BY <2>1
    <3>2. Max(S) = k + 1
      <4>1. k + 1 \in Nat /\ S # {}
        BY <2>1, <2>3
      <4>2. Max(S) \in S /\ \A j \in S : j <= Max(S)
        BY <4>1, MaxIs
      <4>3. Max(S) \in 1 .. k + 1 /\ k + 1 <= Max(S)
        BY <2>3, <4>2
      <4> QED
        BY <2>1, <4>3
    <3>3. h[S \ {k + 1}] = g[S \ {k + 1}]
      BY <3>1
    <3>4. h[S] = Treat(v, g[S \ {k + 1}], tokens[k + 1])
      BY <2>3
    <3>5. g[S \ {k + 1}] \in ParseStates(v)
      BY <2>2, <3>1
    <3> HIDE DEF h
    <3>6. FoldStep(v, tokens, h, S) = Treat(v, h[S \ {k + 1}], tokens[k + 1])
      BY <2>3, <3>2 DEF FoldStep
    <3> QED
      BY <3>3, <3>4, <3>5, <3>6, TreatIs
  <2>4. ASSUME NEW S \in SUBSET (1 .. k + 1), k + 1 \notin S
        PROVE  h[S] = FoldStep(v, tokens, h, S) /\ h[S] \in ParseStates(v)
    <3>1. S \in SUBSET (1 .. k)
      BY <2>1, <2>4
    <3>2. h[S] = g[S] /\ h[S \ {Max(S)}] = g[S \ {Max(S)}]
      BY <2>4, <3>1
    <3>3. g[S] = FoldStep(v, tokens, g, S) /\ g[S] \in ParseStates(v)
      BY <2>2, <3>1
    <3> HIDE DEF h
    <3> QED
      BY <3>2, <3>3 DEF FoldStep
  <2>5. h \in [SUBSET (1 .. k + 1) -> ParseStates(v)] /\ Good(h, k + 1)
    <3>1. \A S \in SUBSET (1 .. k + 1) : h[S] = FoldStep(v, tokens, h, S) /\ h[S] \in ParseStates(v)
      BY <2>3, <2>4
    <3>2. h = [S \in SUBSET (1 .. k + 1) |-> h[S]]
      OBVIOUS
    <3> HIDE DEF h
    <3> QED
      BY <3>1, <3>2
  <2>6. k + 1 \in Nat
    BY <2>1
  <2> HIDE DEF h, Good
  <2> QED
    BY <2>5, <2>6
<1>3. K = Nat
  <2>1. K \subseteq Nat
    OBVIOUS
  <2> HIDE DEF K
  <2> QED
    BY <1>1, <1>2, <2>1, Induction
<1>4. n \in K
  <2> HIDE DEF K
  <2> QED
    BY <1>3
<1>5. PICK g \in [SUBSET (1 .. n) -> ParseStates(v)] : Good(g, n)
  BY <1>4
<1>6. g = [S \in SUBSET (1 .. n) |-> FoldStep(v, tokens, g, S)]
  BY <1>5
<1> QED
  BY <1>6

\* The states of the parser, token by token.
LEMMA Parsing ==
    ASSUME NEW v, NEW tokens, NEW n \in Nat, DOMAIN tokens = 1 .. n
    PROVE  \E f \in [0 .. n -> ParseStates(v)] :
             /\ f[0] = Unparsed
             /\ \A k \in 1 .. n : f[k] = Treat(v, f[k - 1], tokens[k])
             /\ f[n] = Fold(v, tokens)[DOMAIN tokens]
<1> DEFINE g == Fold(v, tokens)
           f == [k \in 0 .. n |-> g[1 .. k]]
           K == {k \in Nat : k <= n => f[k] \in ParseStates(v)}
<1>1. g = [S \in SUBSET (1 .. n) |-> FoldStep(v, tokens, g, S)]
  BY FoldExists DEF Fold
<1> HIDE DEF g
<1>2. \A S \in SUBSET (1 .. n) : g[S] = FoldStep(v, tokens, g, S)
  BY <1>1
<1>3. f[0] = Unparsed
  <2>1. 1 .. 0 = {} /\ {} \in SUBSET (1 .. n) /\ 0 \in 0 .. n
    OBVIOUS
  <2> QED
    BY <1>2, <2>1 DEF FoldStep
<1>4. ASSUME NEW k \in 1 .. n PROVE f[k] = Treat(v, f[k - 1], tokens[k])
  <2>1. 1 .. k \in SUBSET (1 .. n) /\ k \in 1 .. k
    OBVIOUS
  <2>2. Max(1 .. k) = k
    <3>1. k \in Nat /\ 1 .. k \subseteq 1 .. k /\ 1 .. k # {}
      BY <2>1
    <3>2. Max(1 .. k) \in 1 .. k /\ \A j \in 1 .. k : j <= Max(1 .. k)
      BY <3>1, MaxIs
    <3> QED
      BY <2>1, <3>2
  <2>3. (1 .. k) \ {k} = 1 .. k - 1
    OBVIOUS
  <2>4. g[1 .. k] = Treat(v, g[1 .. k - 1], tokens[k])
    BY <1>2, <2>1, <2>2, <2>3 DEF FoldStep
  <2>5. k \in 0 .. n /\ k - 1 \in 0 .. n
    OBVIOUS
  <2> QED
    BY <2>4, <2>5
<1> HIDE DEF f
<1>5. 0 \in K
  BY <1>3, UnparsedIs
<1>6. ASSUME NEW k \in K PROVE k + 1 \in K
  <2>1. ASSUME k + 1 <= n PROVE f[k + 1] \in ParseStates(v)
    <3>1. k + 1 \in 1 .. n /\ k + 1 - 1 = k /\ k <= n /\ f[k] \in ParseStates(v)
      BY <2>1
    <3>2. f[k + 1] = Treat(v, f[k], tokens[k + 1])
      BY <1>4, <3>1
    <3> QED
      BY <3>1, <3>2, TreatIs
  <2> QED
    BY <2>1
<1>7. K = Nat
  <2>1. K \subseteq Nat
    OBVIOUS
  <2> HIDE DEF K
  <2> QED
    BY <1>5, <1>6, <2>1, Induction
<1>8. \A k \in 0 .. n : f[k] \in ParseStates(v)
  <2> TAKE k \in 0 .. n
  <2>1. k \in K /\ k <= n
    <3>1. k \in Nat
      OBVIOUS
    <3> HIDE DEF K
    <3> QED
      BY <1>7, <3>1
  <2> QED
    BY <2>1
<1>9. f \in [0 .. n -> ParseStates(v)]
  BY <1>8 DEF f
<1>10. f[n] = g[DOMAIN tokens]
  BY DEF f
<1> QED
  BY <1>3, <1>4, <1>9, <1>10 DEF g

\* What PennSh relies on of a parsed line: the flag, and counts that are numbers.
Commands(v) ==
    {parsed \in [stage : Seq(Stages), flag : {0, 1}] :
        Len(parsed.stage) = 2 /\ (v = "2a" => parsed.flag = 0)}

LEMMA ParsedIs ==
    ASSUME NEW s \in Seq(STRING)
    PROVE  Parse(s) \in Commands("2b") /\ ParsePlain(s) \in Commands("2a")
<1>1. DOMAIN Tokens(s) = 1 .. Len(Tokens(s)) /\ Len(Tokens(s)) \in Nat
  BY TokensIs, LenProperties
<1>2. ASSUME NEW v PROVE Fold(v, Tokens(s))[DOMAIN Tokens(s)] \in ParseStates(v)
  <2> DEFINE n == Len(Tokens(s))
  <2>1. PICK f \in [0 .. n -> ParseStates(v)] :
             /\ f[0] = Unparsed
             /\ \A k \in 1 .. n : f[k] = Treat(v, f[k - 1], Tokens(s)[k])
             /\ f[n] = Fold(v, Tokens(s))[DOMAIN Tokens(s)]
    <3> HIDE DEF n
    <3> QED
      BY <1>1, Parsing DEF n
  <2>2. n \in 0 .. n
    BY <1>1
  <2> QED
    BY <2>1, <2>2
<1> QED
  BY <1>2, FoldIs DEF Parse, ParsePlain, ParseStates, Commands

\* No tokens leave the parser where it starts.
LEMMA EmptyLineIs == << >> \in Seq(STRING) /\ Parse(<< >>).flag = 0
<1> DEFINE s == << >>
<1>1. s \in Seq(STRING) /\ Len(s) = 0
  OBVIOUS
<1>2. 1 \in 1 .. Len(s) + 1
  BY <1>1
<1>3. SkipSpaces(s, 1) \in 1 .. Len(s) + 1
  <2> HIDE DEF s
  <2> QED
    BY <1>1, <1>2, SkipSpacesIs
<1>4. SkipSpaces(s, 1) = Len(s) + 1
  BY <1>1, <1>3
<1>5. NextToken(s, 1).token = NoToken
  BY <1>1, <1>4 DEF NextToken
<1>6. From(s)[1] = << >>
  <2> HIDE DEF s
  <2> QED
    BY <1>1, <1>2, <1>5, FromIs DEF Rest
<1>7. Tokens(s) = << >>
  BY <1>6, TokensFrom
<1>8. DOMAIN Tokens(s) = 1 .. 0
  BY <1>7
<1>9. Fold("2b", Tokens(s))[DOMAIN Tokens(s)] = Unparsed
  <2>1. PICK f \in [0 .. 0 -> ParseStates("2b")] :
             /\ f[0] = Unparsed
             /\ \A k \in 1 .. 0 : f[k] = Treat("2b", f[k - 1], Tokens(s)[k])
             /\ f[0] = Fold("2b", Tokens(s))[DOMAIN Tokens(s)]
    BY <1>8, Parsing
  <2> QED
    BY <2>1
<1> QED
  BY <1>1, <1>9, FoldIs DEF Parse, Unparsed

-----------------------------------------------------------------------------
(***************************************************************************)
(* What the parser counts.                                                 *)
(***************************************************************************)

\* The right side of the recursion in Names.
NameStep(tokens, g, k) == k > 1 /\ tokens[k - 1][1] \in {"<", ">"} /\ ~g[k - 1]

LEMMA NamesIs ==
    ASSUME NEW tokens, NEW n \in Nat, Len(tokens) = n
    PROVE  /\ Names(tokens) \subseteq 1 .. n
           /\ \A k \in 1 .. n : k \in Names(tokens)
                <=> k > 1 /\ tokens[k - 1][1] \in {"<", ">"} /\ k - 1 \notin Names(tokens)
<1> DEFINE Good(g, k) == \A j \in 0 .. k : g[j] = NameStep(tokens, g, j)
           K == {k \in Nat : \E g \in [0 .. k -> BOOLEAN] : Good(g, k)}
           IsName == CHOOSE g : g = [k \in 0 .. n |-> NameStep(tokens, g, k)]
<1>1. 0 \in K
  <2> DEFINE g == [j \in 0 .. 0 |-> FALSE]
  <2>1. g \in [0 .. 0 -> BOOLEAN] /\ \A j \in 0 .. 0 : g[j] = FALSE /\ ~(j > 1)
    OBVIOUS
  <2>2. Good(g, 0)
    BY <2>1 DEF NameStep
  <2> HIDE DEF g, Good
  <2> QED
    BY <2>1, <2>2
<1>2. ASSUME NEW k \in K PROVE k + 1 \in K
  <2>1. PICK g \in [0 .. k -> BOOLEAN] : Good(g, k)
    OBVIOUS
  <2> DEFINE h == [j \in 0 .. k + 1 |-> IF j = k + 1 THEN NameStep(tokens, g, j) ELSE g[j]]
  <2>2. k \in Nat
    OBVIOUS
  <2>3. \A j \in 0 .. k : h[j] = g[j] /\ h[j] \in BOOLEAN
    BY <2>1, <2>2
  <2>4. h[k + 1] = NameStep(tokens, g, k + 1)
    BY <2>2
  <2>5. h = [j \in 0 .. k + 1 |-> h[j]]
    OBVIOUS
  <2> HIDE DEF h
  <2>6. \A j \in 0 .. k + 1 : h[j] \in BOOLEAN /\ h[j] = NameStep(tokens, h, j)
    <3> TAKE j \in 0 .. k + 1
    <3>1. j > 1 => j - 1 \in 0 .. k
      BY <2>2
    <3>2. CASE j = k + 1
      BY <2>3, <2>4, <3>1, <3>2 DEF NameStep
    <3>3. CASE j \in 0 .. k
      BY <2>1, <2>3, <3>1, <3>3 DEF NameStep
    <3> QED
      BY <2>2, <3>2, <3>3
  <2>7. h \in [0 .. k + 1 -> BOOLEAN] /\ k + 1 \in Nat
    BY <2>2, <2>5, <2>6
  <2>8. Good(h, k + 1)
    BY <2>6
  <2> HIDE DEF Good
  <2> QED
    BY <2>7, <2>8
<1>3. K = Nat
  <2>1. K \subseteq Nat
    OBVIOUS
  <2> HIDE DEF K
  <2> QED
    BY <1>1, <1>2, <2>1, Induction
<1>4. n \in K
  <2> HIDE DEF K
  <2> QED
    BY <1>3
<1>5. PICK g \in [0 .. n -> BOOLEAN] : Good(g, n)
  BY <1>4
<1>6. g = [k \in 0 .. n |-> NameStep(tokens, g, k)]
  BY <1>5
<1>7. IsName = [k \in 0 .. n |-> NameStep(tokens, IsName, k)]
  <2> HIDE DEF K
  <2> QED
    BY <1>6
<1>8. Names(tokens) = {k \in 1 .. n : IsName[k]}
  BY DEF Names, NameStep
<1> HIDE DEF IsName
<1>9. \A k \in 1 .. n : IsName[k] = NameStep(tokens, IsName, k)
  BY <1>7
<1>10. \A k \in 1 .. n : k > 1 => k - 1 \in 1 .. n
  OBVIOUS
<1> QED
  BY <1>8, <1>9, <1>10 DEF NameStep

\* What one token is taken for: an argument, a name, or a sign.
Kind(v, parsed, token) ==
    IF parsed.pending # "none" THEN parsed.pending
    ELSE IF v # "2a" /\ token[1] = "|" THEN "|"
    ELSE IF token[1] \in {"<", ">"} THEN token[1] ELSE "args"

Lists == {"args", "outs", "ins"}

LEMMA TreatCounts ==
    ASSUME NEW v, NEW parsed \in ParseStates(v), NEW token
    PROVE  LET kind == Kind(v, parsed, token)
               next == Treat(v, parsed, token) IN
           /\ next.flag = IF kind = "|" THEN 1 ELSE parsed.flag
           /\ next.pending = IF kind = "<" THEN "ins" ELSE IF kind = ">" THEN "outs" ELSE "none"
           /\ \A list \in Lists, j \in {1, 2} : next.stage[j][list] =
                parsed.stage[j][list] + (IF list = kind /\ j = parsed.flag + 1 THEN 1 ELSE 0)
<1> DEFINE kind == Kind(v, parsed, token)
           next == Treat(v, parsed, token)
<1>1. /\ parsed \in [stage : Seq(Stages), flag : {0, 1}, pending : {"none", "ins", "outs"}]
      /\ Len(parsed.stage) = 2 /\ (v = "2a" => parsed.flag = 0)
  BY DEF ParseStates
<1>2. /\ \A j \in {1, 2} : parsed.stage[j] \in Stages
      /\ DOMAIN parsed.stage = {1, 2}
  <2>1. \A j \in 1 .. Len(parsed.stage) : parsed.stage[j] \in Stages
    BY <1>1, ElementOfSeq
  <2>2. DOMAIN parsed.stage = 1 .. Len(parsed.stage)
    BY <1>1, LenProperties
  <2> QED
    BY <1>1, <2>1, <2>2
<1>3. ASSUME NEW list \in Lists, next = Count(parsed, list), kind = list
      PROVE  /\ next.flag = parsed.flag
             /\ next.pending = "none"
             /\ \A l \in Lists, j \in {1, 2} : next.stage[j][l] =
                  parsed.stage[j][l] + (IF l = kind /\ j = parsed.flag + 1 THEN 1 ELSE 0)
  <2> DEFINE one == [parsed.stage[parsed.flag + 1] EXCEPT ![list] = @ + 1]
             stage == [parsed.stage EXCEPT ![parsed.flag + 1] = one]
  <2>1. next = [parsed EXCEPT !.stage = stage, !.pending = "none"]
    BY <1>1, <1>3 DEF Count
  <2>2. next.stage = stage /\ next.flag = parsed.flag /\ next.pending = "none"
    <3> HIDE DEF stage, next
    <3> QED
      BY <1>1, <2>1
  <2>3. \A j \in {1, 2} : stage[j] = IF j = parsed.flag + 1 THEN one ELSE parsed.stage[j]
    BY <1>2
  <2>4. \A l \in Lists : one[l] = parsed.stage[parsed.flag + 1][l] + (IF l = list THEN 1 ELSE 0)
    <3>1. parsed.stage[parsed.flag + 1] \in [args : Nat, outs : Nat, ins : Nat]
      BY <1>1, <1>2 DEF Stages
    <3> QED
      BY <3>1 DEF Lists
  <2>5. \A l \in Lists, j \in {1, 2} : parsed.stage[j][l] + 0 = parsed.stage[j][l]
    BY <1>2 DEF Stages, Lists
  <2> HIDE DEF one, stage, next, kind
  <2> QED
    BY <1>3, <2>2, <2>3, <2>4, <2>5
<1>4. \A l \in Lists, j \in {1, 2} : parsed.stage[j][l] + 0 = parsed.stage[j][l]
  BY <1>2 DEF Stages, Lists
<1>5. CASE parsed.pending # "none"
  <2>1. next = Count(parsed, parsed.pending) /\ kind = parsed.pending
    BY <1>5 DEF Treat, TreatToken, TreatPlainToken, Kind
  <2>2. parsed.pending \in Lists /\ kind \notin {"|", "<", ">"}
    BY <1>1, <1>5, <2>1 DEF Lists
  <2> HIDE DEF next, kind
  <2>3. /\ next.flag = parsed.flag /\ next.pending = "none"
        /\ \A l \in Lists, j \in {1, 2} : next.stage[j][l] =
             parsed.stage[j][l] + (IF l = kind /\ j = parsed.flag + 1 THEN 1 ELSE 0)
    BY <1>3, <2>1, <2>2
  <2> QED
    BY <2>2, <2>3 DEF next, kind
<1>6. CASE parsed.pending = "none" /\ kind = "args"
  <2>1. next = Count(parsed, "args")
    BY <1>6 DEF Treat, TreatToken, TreatPlainToken, Kind
  <2> HIDE DEF next, kind
  <2>2. /\ next.flag = parsed.flag /\ next.pending = "none"
        /\ \A l \in Lists, j \in {1, 2} : next.stage[j][l] =
             parsed.stage[j][l] + (IF l = kind /\ j = parsed.flag + 1 THEN 1 ELSE 0)
    BY <1>3, <1>6, <2>1 DEF Lists
  <2> QED
    BY <1>6, <2>2 DEF next, kind
<1>7. CASE parsed.pending = "none" /\ kind # "args"
  <2>1. \/ kind = "|" /\ next = [parsed EXCEPT !.flag = 1]
        \/ kind = "<" /\ next = [parsed EXCEPT !.pending = "ins"]
        \/ kind = ">" /\ next = [parsed EXCEPT !.pending = "outs"]
    BY <1>7 DEF Treat, TreatToken, TreatPlainToken, Kind
  <2>2. kind \notin Lists
    BY <2>1 DEF Lists
  <2> HIDE DEF next, kind
  <2>3. /\ next.flag = IF kind = "|" THEN 1 ELSE parsed.flag
        /\ next.pending = IF kind = "<" THEN "ins" ELSE IF kind = ">" THEN "outs" ELSE "none"
        /\ next.stage = parsed.stage
    BY <1>1, <1>7, <2>1
  <2> QED
    BY <1>4, <2>2, <2>3 DEF next, kind
<1> QED
  BY <1>5, <1>6, <1>7

\* Counting a set of numbers in their order.
UpTo(S, k) == {x \in S : x <= k}

LEMMA UpToGrows ==
    ASSUME NEW n \in Nat, NEW S \in SUBSET (1 .. n), NEW k \in Nat
    PROVE  /\ Cardinality(UpTo(S, k)) \in Nat
           /\ k + 1 \in S => Cardinality(UpTo(S, k + 1)) = Cardinality(UpTo(S, k)) + 1
           /\ k + 1 \notin S => Cardinality(UpTo(S, k + 1)) = Cardinality(UpTo(S, k))
<1>1. IsFiniteSet(1 .. n) /\ UpTo(S, k) \in SUBSET (1 .. n)
  <2>1. 1 \in Int /\ n \in Int
    OBVIOUS
  <2> QED
    BY <2>1, FS_Interval DEF UpTo
<1>2. IsFiniteSet(UpTo(S, k)) /\ Cardinality(UpTo(S, k)) \in Nat
  BY <1>1, FS_Subset, FS_CardinalityType
<1>3. k + 1 \notin UpTo(S, k)
  BY DEF UpTo
<1>4. UpTo(S, k + 1) = IF k + 1 \in S THEN UpTo(S, k) \cup {k + 1} ELSE UpTo(S, k)
  <2>1. ASSUME NEW x \in 1 .. n PROVE x <= k + 1 <=> x <= k \/ x = k + 1
    OBVIOUS
  <2> QED
    BY <2>1 DEF UpTo
<1>5. Cardinality(UpTo(S, k) \cup {k + 1}) = Cardinality(UpTo(S, k)) + 1
  BY <1>2, <1>3, FS_AddElement
<1> QED
  BY <1>2, <1>4, <1>5

LEMMA UpToEnds ==
    ASSUME NEW n \in Nat, NEW S \in SUBSET (1 .. n)
    PROVE  UpTo(S, 0) = {} /\ UpTo(S, n) = S
<1>1. ASSUME NEW x \in S PROVE ~(x <= 0) /\ x <= n
  OBVIOUS
<1> QED
  BY <1>1 DEF UpTo

\* The tokens that belong to a list, and those of them in one of the stages.
Listed(v, tokens, list) ==
    IF list = "args" THEN Arguments(v, tokens)
    ELSE NamesAfter(tokens, IF list = "outs" THEN ">" ELSE "<")

InStage(v, tokens, list, j) ==
    {k \in Listed(v, tokens, list) : j = 2 <=> \E b \in Bars(v, tokens) : b < k}

\* After k tokens the parser has met the bars among them, waits for a name if
\* the k-th is a sign, and has counted those of each list and stage.
CountedUpTo(v, tokens, parsed, k) ==
    /\ parsed.flag = 1 <=> \E b \in Bars(v, tokens) : b <= k
    /\ parsed.pending = IF k = 0 \/ k \in Names(tokens) THEN "none"
                        ELSE IF tokens[k][1] = ">" THEN "outs"
                        ELSE IF tokens[k][1] = "<" THEN "ins" ELSE "none"
    /\ \A list \in Lists, j \in {1, 2} :
         parsed.stage[j][list] = Cardinality(UpTo(InStage(v, tokens, list, j), k))

LEMMA ListedIs ==
    ASSUME NEW v \in {"2a", "2b"}, NEW tokens, NEW n \in Nat, Len(tokens) = n
    PROVE  /\ Bars(v, tokens) \subseteq 1 .. n
           /\ \A list \in Lists : Listed(v, tokens, list) \subseteq 1 .. n
           /\ \A list \in Lists, j \in {1, 2} : InStage(v, tokens, list, j) \subseteq 1 .. n
<1>1. Names(tokens) \subseteq 1 .. n
  BY NamesIs
<1>2. \A list \in Lists : Listed(v, tokens, list) \subseteq 1 .. n
  BY <1>1 DEF Listed, Arguments, NamesAfter
<1> QED
  BY <1>2 DEF Bars, InStage

\* One more token.
LEMMA CountsOn ==
    ASSUME NEW v \in {"2a", "2b"}, NEW tokens, NEW n \in Nat, Len(tokens) = n,
           NEW k \in 0 .. n - 1, NEW parsed \in ParseStates(v),
           CountedUpTo(v, tokens, parsed, k)
    PROVE  CountedUpTo(v, tokens, Treat(v, parsed, tokens[k + 1]), k + 1)
<1> DEFINE token == tokens[k + 1]
           kind == Kind(v, parsed, token)
           next == Treat(v, parsed, token)
           N == Names(tokens)
           B == Bars(v, tokens)
<1>1. /\ next.flag = IF kind = "|" THEN 1 ELSE parsed.flag
      /\ next.pending = IF kind = "<" THEN "ins" ELSE IF kind = ">" THEN "outs" ELSE "none"
      /\ \A list \in Lists, j \in {1, 2} : next.stage[j][list] =
           parsed.stage[j][list] + (IF list = kind /\ j = parsed.flag + 1 THEN 1 ELSE 0)
  BY TreatCounts
<1>2. /\ N \subseteq 1 .. n /\ k + 1 \in 1 .. n /\ k + 1 > 0 /\ k + 1 - 1 = k
      /\ k + 1 \in N <=> k > 0 /\ tokens[k][1] \in {"<", ">"} /\ k \notin N
  <2>1. k + 1 \in 1 .. n /\ k + 1 > 0 /\ k + 1 - 1 = k /\ (k + 1 > 1 <=> k > 0)
    OBVIOUS
  <2>2. /\ Names(tokens) \subseteq 1 .. n
        /\ \A i \in 1 .. n : i \in Names(tokens)
             <=> i > 1 /\ tokens[i - 1][1] \in {"<", ">"} /\ i - 1 \notin Names(tokens)
    BY NamesIs
  <2> QED
    BY <2>1, <2>2
<1>3. parsed.pending = IF k = 0 \/ k \in N THEN "none"
                       ELSE IF tokens[k][1] = ">" THEN "outs"
                       ELSE IF tokens[k][1] = "<" THEN "ins" ELSE "none"
  BY DEF CountedUpTo
<1>4. /\ k + 1 \in N => kind = IF tokens[k][1] = ">" THEN "outs" ELSE "ins"
      /\ k + 1 \notin N => kind = IF v # "2a" /\ token[1] = "|" THEN "|"
                                  ELSE IF token[1] \in {"<", ">"} THEN token[1] ELSE "args"
  <2>1. k \in Nat /\ (k > 0 <=> k # 0)
    OBVIOUS
  <2> HIDE DEF N, token
  <2> QED
    BY <1>2, <1>3, <2>1 DEF Kind
<1>5. kind = "|" <=> k + 1 \in B
  BY <1>2, <1>4 DEF Bars
<1>6. ASSUME NEW list \in Lists PROVE list = kind <=> k + 1 \in Listed(v, tokens, list)
  <2>1. CASE list = "args"
    BY <1>2, <1>4, <2>1 DEF Listed, Arguments, Bars
  <2>2. CASE list = "outs"
    BY <1>2, <1>4, <2>2 DEF Listed, NamesAfter
  <2>3. CASE list = "ins"
    BY <1>2, <1>4, <2>3 DEF Listed, NamesAfter
  <2> QED
    BY <2>1, <2>2, <2>3 DEF Lists
<1>7. B \subseteq 1 .. n /\ \A b \in B : /\ b <= k + 1 <=> b <= k \/ b = k + 1
                                         /\ b < k + 1 <=> b <= k
  <2>1. B \subseteq 1 .. n
    BY ListedIs
  <2> HIDE DEF B
  <2> QED
    BY <2>1
<1>8. (parsed.flag = 1 <=> \E b \in B : b <= k) /\ parsed.flag \in {0, 1}
  BY DEF CountedUpTo, ParseStates
<1>9. next.flag = 1 <=> \E b \in B : b <= k + 1
  <2> HIDE DEF B, kind, next
  <2> QED
    BY <1>1, <1>5, <1>7, <1>8
<1>10. next.pending = IF k + 1 = 0 \/ k + 1 \in N THEN "none"
                      ELSE IF token[1] = ">" THEN "outs"
                      ELSE IF token[1] = "<" THEN "ins" ELSE "none"
  <2>1. k + 1 # 0
    OBVIOUS
  <2> HIDE DEF N, kind, next, token
  <2> QED
    BY <1>1, <1>4, <2>1
<1>11. ASSUME NEW list \in Lists, NEW j \in {1, 2}
       PROVE  next.stage[j][list] = Cardinality(UpTo(InStage(v, tokens, list, j), k + 1))
  <2> DEFINE S == InStage(v, tokens, list, j)
  <2>1. S \in SUBSET (1 .. n)
    BY ListedIs
  <2>2. /\ Cardinality(UpTo(S, k)) \in Nat
        /\ k + 1 \in S => Cardinality(UpTo(S, k + 1)) = Cardinality(UpTo(S, k)) + 1
        /\ k + 1 \notin S => Cardinality(UpTo(S, k + 1)) = Cardinality(UpTo(S, k))
    <3>1. k \in Nat
      OBVIOUS
    <3> HIDE DEF S
    <3> QED
      BY <2>1, <3>1, UpToGrows
  <2>3. j = 2 <=> ~ (j = 1)
    OBVIOUS
  <2>4. k + 1 \in S <=> list = kind /\ j = parsed.flag + 1
    <3>1. (\E b \in B : b < k + 1) <=> parsed.flag = 1
      <4> HIDE DEF B
      <4> QED
        BY <1>7, <1>8
    <3>2. (j = 2 <=> parsed.flag = 1) <=> j = parsed.flag + 1
      BY <1>8
    <3>3. k + 1 \in S <=> k + 1 \in Listed(v, tokens, list) /\ (j = 2 <=> \E b \in B : b < k + 1)
      BY DEF InStage
    <3> HIDE DEF S, B, kind
    <3> QED
      BY <1>6, <3>1, <3>2, <3>3
  <2>5. parsed.stage[j][list] = Cardinality(UpTo(S, k))
    BY DEF CountedUpTo
  <2>6. next.stage[j][list] =
          parsed.stage[j][list] + (IF list = kind /\ j = parsed.flag + 1 THEN 1 ELSE 0)
    BY <1>1
  <2> HIDE DEF S, kind, next
  <2>7. CASE k + 1 \in S
    BY <2>2, <2>4, <2>5, <2>6, <2>7 DEF S
  <2>8. CASE k + 1 \notin S
    BY <2>2, <2>4, <2>5, <2>6, <2>8 DEF S
  <2> QED
    BY <2>7, <2>8
<1> HIDE DEF next, B, N
<1> QED
  BY <1>9, <1>10, <1>11 DEF CountedUpTo, B, N, next

\* So it is after all of them.
LEMMA CountedIs ==
    ASSUME NEW v \in {"2a", "2b"}, NEW s \in Seq(STRING)
    PROVE  CountsOnce(v, s)
<1> DEFINE tokens == Tokens(s)
           n == Len(tokens)
<1>1. DOMAIN tokens = 1 .. n /\ n \in Nat
  BY TokensIs, LenProperties
<1>2. PICK f \in [0 .. n -> ParseStates(v)] :
        /\ f[0] = Unparsed
        /\ \A k \in 1 .. n : f[k] = Treat(v, f[k - 1], tokens[k])
        /\ f[n] = Fold(v, tokens)[DOMAIN tokens]
  <2> HIDE DEF tokens, n
  <2> QED
    BY <1>1, Parsing
<1> HIDE DEF tokens
<1> DEFINE K == {k \in Nat : k <= n => CountedUpTo(v, tokens, f[k], k)}
<1>3. 0 \in K
  <2>1. /\ Bars(v, tokens) \subseteq 1 .. n
        /\ \A list \in Lists, j \in {1, 2} : InStage(v, tokens, list, j) \in SUBSET (1 .. n)
    BY <1>1, ListedIs
  <2>2. ~ \E b \in Bars(v, tokens) : b <= 0
    <3> HIDE DEF n
    <3> QED
      BY <1>1, <2>1
  <2>3. \A list \in Lists, j \in {1, 2} :
           Cardinality(UpTo(InStage(v, tokens, list, j), 0)) = 0
    BY <1>1, <2>1, UpToEnds, FS_EmptySet
  <2>4. Unparsed.flag = 0 /\ Unparsed.pending = "none"
        /\ \A list \in Lists, j \in {1, 2} : Unparsed.stage[j][list] = 0
    BY DEF Unparsed, NoStage, Lists
  <2>5. CountedUpTo(v, tokens, f[0], 0)
    BY <1>2, <2>2, <2>3, <2>4 DEF CountedUpTo
  <2> QED
    BY <2>5
<1>4. ASSUME NEW k \in K PROVE k + 1 \in K
  <2>1. ASSUME k + 1 <= n PROVE CountedUpTo(v, tokens, f[k + 1], k + 1)
    <3> HIDE DEF n
    <3>1. k \in Nat /\ k <= n /\ k \in 0 .. n - 1 /\ k + 1 \in 1 .. n /\ k + 1 - 1 = k /\ k \in 0 .. n
      BY <1>1, <2>1
    <3>2. CountedUpTo(v, tokens, f[k], k)
      BY <3>1
    <3>3. f[k + 1] = Treat(v, f[k], tokens[k + 1]) /\ f[k] \in ParseStates(v)
      BY <1>2, <3>1
    <3>4. Len(tokens) = n
      BY DEF n
    <3> HIDE DEF K
    <3>5. CountedUpTo(v, tokens, Treat(v, f[k], tokens[k + 1]), k + 1)
      BY <1>1, <3>1, <3>2, <3>3, <3>4, CountsOn
    <3> QED
      BY <3>3, <3>5
  <2> QED
    BY <2>1
<1>5. K = Nat
  <2>1. K \subseteq Nat
    OBVIOUS
  <2> HIDE DEF K
  <2> QED
    BY <1>3, <1>4, <2>1, Induction
<1>6. CountedUpTo(v, tokens, f[n], n)
  <2>1. n \in K
    <3> HIDE DEF K
    <3> QED
      BY <1>1, <1>5
  <2> QED
    BY <1>1, <2>1
<1>7. /\ ParseIn(v, s).flag = f[n].flag
      /\ ParseIn(v, s).stage = f[n].stage
  BY <1>2, FoldIs DEF ParseIn, Parse, ParsePlain, tokens
<1>8. \A list \in Lists, j \in {1, 2} :
        UpTo(InStage(v, tokens, list, j), n) = InStage(v, tokens, list, j)
  <2>1. \A list \in Lists, j \in {1, 2} : InStage(v, tokens, list, j) \in SUBSET (1 .. n)
    BY <1>1, ListedIs
  <2> QED
    BY <1>1, <2>1, UpToEnds
<1>9. \A list \in Lists : LET S == Listed(v, tokens, list)
                              second == {k \in S : \E b \in Bars(v, tokens) : b < k} IN
        InStage(v, tokens, list, 1) = S \ second /\ InStage(v, tokens, list, 2) = second
  BY DEF InStage
<1>10. (\E b \in Bars(v, tokens) : b <= n) <=> Bars(v, tokens) # {}
  <2>1. Bars(v, tokens) \subseteq 1 .. n
    BY <1>1, ListedIs
  <2> HIDE DEF n
  <2> QED
    BY <1>1, <2>1
<1>11. /\ ParseIn(v, s).flag = 1 <=> Bars(v, tokens) # {}
       /\ \A list \in Lists : LET S == Listed(v, tokens, list)
                                  second == {k \in S : \E b \in Bars(v, tokens) : b < k} IN
            /\ ParseIn(v, s).stage[1][list] = Cardinality(S \ second)
            /\ ParseIn(v, s).stage[2][list] = Cardinality(second)
  BY <1>6, <1>7, <1>8, <1>9, <1>10 DEF CountedUpTo
<1>12. /\ Listed(v, tokens, "args") = Arguments(v, tokens)
       /\ Listed(v, tokens, "outs") = NamesAfter(tokens, ">")
       /\ Listed(v, tokens, "ins") = NamesAfter(tokens, "<")
       /\ "args" \in Lists /\ "outs" \in Lists /\ "ins" \in Lists
  BY DEF Listed, Lists
<1> QED
  BY <1>11, <1>12 DEF CountsOnce, tokens

-----------------------------------------------------------------------------
(***************************************************************************)
(* What the tokens are: the text of the line without its spaces, and, but  *)
(* for hidden delimiters, the tokens the README describes.                 *)
(***************************************************************************)

\* The line between p and the position after the token: spaces, the token from
\* q to e - 1, spaces.
TokenBetween(s, p, q, e) ==
    LET next == NextToken(s, p) IN
    /\ next.pos \in e .. Len(s) + 1
    /\ next.token = SubSeq(s, q, e - 1)
    /\ \A x \in q .. e - 1 : ~IsSpace(s[x])
    /\ \A x \in p .. q - 1 : IsSpace(s[x])
    /\ \A x \in e .. next.pos - 1 : IsSpace(s[x])
    /\ \/ /\ IsDelimiter(s[p]) /\ q = p /\ e = p + 1 /\ next.pos = p + 1
          /\ next.token = <<s[p]>>
       \/ /\ ~IsDelimiter(s[p])
          /\ e = TokenEnd(s, q)
          /\ next.pos = Len(s) + 1 \/ ~IsSpace(s[next.pos])

LEMMA TokenIs ==
    ASSUME NEW s \in Seq(STRING), NEW p \in 1 .. Len(s) + 1
    PROVE  IF NextToken(s, p).token = NoToken
           THEN \A x \in p .. Len(s) : IsSpace(s[x])
           ELSE \E q \in p .. Len(s) : \E e \in q + 1 .. Len(s) + 1 : TokenBetween(s, p, q, e)
<1>1. Len(s) \in Nat /\ \A k \in 1 .. Len(s) : s[k] \in STRING
  BY LenProperties, ElementOfSeq
<1>2. CASE p <= Len(s) /\ IsDelimiter(s[p])
  <2>1. NextToken(s, p) = [token |-> <<s[p]>>, pos |-> p + 1]
    BY <1>2 DEF NextToken
  <2>2. p \in p .. Len(s) /\ p + 1 \in p + 1 .. Len(s) + 1 /\ p \in 1 .. Len(s)
    BY <1>1, <1>2
  <2>3. SubSeq(s, p, p + 1 - 1) = <<s[p]>>
    <3>1. p \in Int /\ p + 1 - 1 = p /\ \A k \in p .. p : s[k] \in STRING
      BY <1>1, <2>2
    <3>2. /\ SubSeq(s, p, p) \in Seq(STRING)
          /\ Len(SubSeq(s, p, p)) = IF p <= p THEN p - p + 1 ELSE 0
          /\ \A k \in 1 .. p - p + 1 : SubSeq(s, p, p)[k] = s[p + k - 1]
      BY <3>1, SubSeqProperties
    <3>3. Len(SubSeq(s, p, p)) = 1 /\ SubSeq(s, p, p)[1] = s[p]
      BY <3>1, <3>2
    <3>4. <<s[p]>> \in Seq(STRING) /\ Len(<<s[p]>>) = 1 /\ <<s[p]>>[1] = s[p]
      BY <1>1, <2>2
    <3>5. \A k \in 1 .. 1 : SubSeq(s, p, p)[k] = <<s[p]>>[k]
      BY <3>3, <3>4
    <3> QED
      BY <3>1, <3>2, <3>3, <3>4, <3>5, SeqEqual
  <2>4. /\ \A x \in p .. p + 1 - 1 : x = p
        /\ \A x \in p .. p - 1 : FALSE
        /\ \A x \in p + 1 .. p + 1 - 1 : FALSE
    BY <1>1
  <2>7. ~IsSpace(s[p])
    BY <1>2 DEF IsSpace, IsDelimiter
  <2>5. TokenBetween(s, p, p, p + 1)
    BY <1>1, <1>2, <2>1, <2>2, <2>3, <2>4, <2>7 DEF TokenBetween
  <2>6. NextToken(s, p).token # NoToken
    BY <2>1 DEF NoToken
  <2> QED
    BY <2>2, <2>5, <2>6
<1>3. CASE ~ (p <= Len(s) /\ IsDelimiter(s[p]))
  <2> DEFINE q == SkipSpaces(s, p)
             e == TokenEnd(s, q)
             r == SkipSpaces(s, e)
             token == SubSeq(s, q, e - 1)
  <2>1. NextToken(s, p) = IF q = Len(s) + 1
                          THEN [token |-> NoToken, pos |-> p]
                          ELSE [token |-> token, pos |-> r]
    BY <1>3 DEF NextToken
  <2>2. q \in p .. Len(s) + 1 /\ (q = Len(s) + 1 \/ ~IsSpace(s[q]))
        /\ \A x \in p .. q - 1 : IsSpace(s[x])
    BY SkipSpacesIs
  <2>3. CASE q = Len(s) + 1
    <3>1. NextToken(s, p).token = NoToken
      BY <2>1, <2>3
    <3> HIDE DEF q
    <3>2. \A x \in p .. Len(s) : IsSpace(s[x])
      BY <1>1, <2>2, <2>3
    <3> QED
      BY <3>1, <3>2
  <2>4. CASE q # Len(s) + 1
    <3>1. q \in 1 .. Len(s) /\ q \in p .. Len(s) /\ p <= Len(s)
      <4> HIDE DEF q
      <4> QED
        BY <1>1, <2>2, <2>4
    <3>2. e \in q + 1 .. Len(s) + 1
          /\ \A x \in q + 1 .. e - 1 : ~IsDelimiter(s[x]) /\ ~IsSpace(s[x])
      BY <3>1, TokenEndIs
    <3>3. e \in 1 .. Len(s) + 1
      BY <1>1, <3>1, <3>2
    <3>4. r \in e .. Len(s) + 1 /\ (r = Len(s) + 1 \/ ~IsSpace(s[r]))
          /\ \A x \in e .. r - 1 : IsSpace(s[x])
      BY <3>3, SkipSpacesIs
    <3>5. NextToken(s, p).pos = r /\ NextToken(s, p).token = token
      <4> HIDE DEF q, e, r, token
      <4> QED
        BY <2>1, <2>4
    <3>6. token # NoToken
      <4> HIDE DEF q, e
      <4>1. q \in Int /\ e - 1 \in Int /\ q <= e - 1 /\ \A k \in q .. e - 1 : s[k] \in STRING
        BY <1>1, <3>1, <3>2
      <4>2. Len(SubSeq(s, q, e - 1)) = e - 1 - q + 1
        BY <4>1, SubSeqProperties
      <4>3. e - 1 - q + 1 # 0 /\ Len(<< >>) = 0
        BY <4>1
      <4> QED
        BY <4>2, <4>3 DEF NoToken
    <3>7. TokenBetween(s, p, q, e)
      <4>1. e = TokenEnd(s, q) /\ ~IsDelimiter(s[p])
        BY <1>3, <3>1
      <4> HIDE DEF q, e, r
      <4>2. \A x \in q .. e - 1 : x = q \/ x \in q + 1 .. e - 1
        BY <1>1, <3>1, <3>2
      <4>5. ~IsSpace(s[q])
        BY <2>2, <2>4
      <4>3. \A x \in q .. e - 1 : ~IsSpace(s[x])
        BY <3>2, <4>2, <4>5 DEF IsSpace
      <4> QED
        BY <2>2, <3>4, <3>5, <4>1, <4>3 DEF TokenBetween
    <3> HIDE DEF q, e, r, token
    <3> QED
      BY <3>1, <3>2, <3>5, <3>6, <3>7
  <2> QED
    BY <2>3, <2>4
<1> QED
  BY <1>2, <1>3

\* The function that FlattenSeq defines by recursion.
Join(t, u) == t \o u

FlatStep(u, g, i) == IF i = 1 THEN u[i] ELSE Join(g[i - 1], u[i])

Flat(u) == CHOOSE g : g = [i \in 1 .. Len(u) |-> FlatStep(u, g, i)]

LEMMA FlatStepIs ==
    ASSUME NEW u, NEW g, NEW i
    PROVE  /\ i = 1 => FlatStep(u, g, i) = u[i]
           /\ i # 1 => FlatStep(u, g, i) = Join(g[i - 1], u[i])
BY DEF FlatStep

LEMMA JoinIs ==
    ASSUME NEW t \in Seq(STRING), NEW u \in Seq(STRING)
    PROVE  /\ Join(t, u) \in Seq(STRING)
           /\ \A w \in Seq(STRING) : Join(Join(t, u), w) = Join(t, Join(u, w))
BY ConcatProperties, ConcatAssociative DEF Join

LEMMA FlatIs ==
    ASSUME NEW u \in TokenSeqs
    PROVE  \A i \in 1 .. Len(u) : /\ Flat(u)[i] = FlatStep(u, Flat(u), i)
                                  /\ Flat(u)[i] \in Seq(STRING)
<1> DEFINE n == Len(u)
           Good(g, k) == \A i \in 1 .. k : g[i] = FlatStep(u, g, i)
           K == {k \in Nat : k <= n => \E g \in [1 .. k -> Seq(STRING)] : Good(g, k)}
<1>1. n \in Nat /\ \A i \in 1 .. n : u[i] \in Seq(STRING)
  BY LenProperties, ElementOfSeq DEF TokenSeqs
<1>2. 0 \in K
  <2> DEFINE g == [i \in 1 .. 0 |-> << >>]
  <2>1. g \in [1 .. 0 -> Seq(STRING)] /\ 1 .. 0 = {}
    OBVIOUS
  <2>2. Good(g, 0)
    BY <2>1
  <2> HIDE DEF g, Good
  <2> QED
    BY <2>1, <2>2
<1>3. ASSUME NEW k \in K PROVE k + 1 \in K
  <2> HIDE DEF Good
  <2> SUFFICES ASSUME k + 1 <= n
               PROVE  \E g \in [1 .. k + 1 -> Seq(STRING)] : Good(g, k + 1)
    OBVIOUS
  <2>1. k \in Nat /\ k <= n /\ k + 1 \in 1 .. n
    BY <1>1
  <2>2. PICK g \in [1 .. k -> Seq(STRING)] : Good(g, k)
    BY <2>1
  <2> USE DEF Good
  <2> DEFINE h == [i \in 1 .. k + 1 |-> IF i = k + 1 THEN FlatStep(u, g, i) ELSE g[i]]
  <2>3. \A i \in 1 .. k : h[i] = g[i] /\ h[i] \in Seq(STRING)
    BY <2>1, <2>2
  <2>4. h[k + 1] = FlatStep(u, g, k + 1)
    BY <2>1
  <2>5. FlatStep(u, g, k + 1) \in Seq(STRING)
    <3>1. u[k + 1] \in Seq(STRING)
      BY <1>1, <2>1
    <3>2. k + 1 # 1 => g[k + 1 - 1] \in Seq(STRING)
      BY <2>1, <2>2
    <3>3. k + 1 # 1 => Join(g[k + 1 - 1], u[k + 1]) \in Seq(STRING)
      BY <3>1, <3>2, JoinIs
    <3>4. CASE k + 1 = 1
      BY <3>1, <3>4, FlatStepIs
    <3>5. CASE k + 1 # 1
      <4>1. FlatStep(u, g, k + 1) = Join(g[k + 1 - 1], u[k + 1])
        <5> DEFINE i == k + 1
        <5>1. i # 1
          BY <3>5
        <5> HIDE DEF i
        <5>2. FlatStep(u, g, i) = Join(g[i - 1], u[i])
          BY <5>1, FlatStepIs
        <5> QED
          BY <5>2 DEF i
      <4> QED
        BY <3>3, <3>5, <4>1
    <3> QED
      BY <3>4, <3>5
  <2>6. h = [i \in 1 .. k + 1 |-> h[i]]
    OBVIOUS
  <2> HIDE DEF h
  <2>7. \A i \in 1 .. k + 1 : h[i] \in Seq(STRING) /\ h[i] = FlatStep(u, h, i)
    <3> TAKE i \in 1 .. k + 1
    <3>1. i # 1 => i - 1 \in 1 .. k
      BY <2>1
    <3>2. FlatStep(u, h, i) = FlatStep(u, g, i)
      BY <2>3, <3>1 DEF FlatStep
    <3>3. CASE i = k + 1
      BY <2>4, <2>5, <3>2, <3>3
    <3>4. CASE i \in 1 .. k
      BY <2>2, <2>3, <3>2, <3>4
    <3> QED
      BY <2>1, <3>3, <3>4
  <2>8. h \in [1 .. k + 1 -> Seq(STRING)]
    BY <2>6, <2>7
  <2>9. Good(h, k + 1)
    BY <2>7
  <2> HIDE DEF Good
  <2> QED
    BY <2>8, <2>9
<1>4. K = Nat
  <2>1. K \subseteq Nat
    OBVIOUS
  <2> HIDE DEF K
  <2> QED
    BY <1>2, <1>3, <2>1, Induction
<1>5. n \in K
  <2> HIDE DEF K
  <2> QED
    BY <1>1, <1>4
<1>6. PICK g \in [1 .. n -> Seq(STRING)] : Good(g, n)
  BY <1>1, <1>5
<1>7. g = [i \in 1 .. n |-> FlatStep(u, g, i)]
  BY <1>6
<1>8. Flat(u) = [i \in 1 .. n |-> FlatStep(u, Flat(u), i)]
  <2> HIDE DEF K, Good
  <2> QED
    BY <1>7 DEF Flat
<1> DEFINE f == Flat(u)
<1> HIDE DEF f
<1>9. \A i \in 1 .. n : f[i] = FlatStep(u, f, i)
  BY <1>8 DEF f
<1> DEFINE L == {k \in Nat : k + 1 <= n => f[k + 1] \in Seq(STRING)}
<1>10. 0 \in L
  BY <1>1, <1>9 DEF FlatStep
<1>11. ASSUME NEW k \in L PROVE k + 1 \in L
  <2>1. ASSUME k + 1 + 1 <= n PROVE f[k + 1 + 1] \in Seq(STRING)
    <3>1. k + 1 + 1 \in 1 .. n /\ k + 1 + 1 # 1 /\ k + 1 + 1 - 1 = k + 1 /\ k + 1 <= n
      BY <1>1, <2>1
    <3>2. f[k + 1 + 1] = Join(f[k + 1], u[k + 1 + 1])
      <4>1. f[k + 1 + 1] = FlatStep(u, f, k + 1 + 1)
        BY <1>9, <3>1
      <4>2. FlatStep(u, f, k + 1 + 1) = Join(f[k + 1 + 1 - 1], u[k + 1 + 1])
        <5> DEFINE i == k + 1 + 1
        <5>1. i # 1
          BY <3>1
        <5> HIDE DEF i
        <5>2. FlatStep(u, f, i) = Join(f[i - 1], u[i])
          BY <5>1, FlatStepIs
        <5> QED
          BY <5>2 DEF i
      <4> QED
        BY <3>1, <4>1, <4>2
    <3>3. f[k + 1] \in Seq(STRING) /\ u[k + 1 + 1] \in Seq(STRING)
      BY <1>1, <3>1
    <3> QED
      BY <3>2, <3>3, JoinIs
  <2> QED
    BY <2>1
<1>12. L = Nat
  <2>1. L \subseteq Nat
    OBVIOUS
  <2> HIDE DEF L
  <2> QED
    BY <1>10, <1>11, <2>1, Induction
<1>13. \A i \in 1 .. n : f[i] \in Seq(STRING)
  <2> TAKE i \in 1 .. n
  <2>1. i - 1 \in L /\ i - 1 + 1 = i
    <3>1. i - 1 \in Nat /\ i - 1 + 1 = i
      BY <1>1
    <3> HIDE DEF L
    <3> QED
      BY <1>12, <3>1
  <2> QED
    BY <1>1, <2>1
<1> QED
  BY <1>9, <1>13 DEF f

LEMMA FlattenIs ==
    ASSUME NEW u \in TokenSeqs
    PROVE  /\ FlattenSeq(u) = IF Len(u) = 0 THEN u ELSE Flat(u)[Len(u)]
           /\ FlattenSeq(u) \in Seq(STRING)
<1>1. FlattenSeq(u) = IF Len(u) = 0 THEN u ELSE Flat(u)[Len(u)]
  BY DEF FlattenSeq, Flat, FlatStep, Join
<1>2. Len(u) \in Nat
  BY LenProperties DEF TokenSeqs
<1>3. CASE Len(u) = 0
  <2>1. u = << >>
    BY <1>3, EmptySeq DEF TokenSeqs
  <2> QED
    BY <1>1, <1>3, <2>1, EmptySeq
<1>4. CASE Len(u) # 0
  BY <1>1, <1>2, <1>4, FlatIs
<1> QED
  BY <1>1, <1>3, <1>4

\* FlattenSeq goes from left to right; Tokens adds to the left.
LEMMA FlattenCons ==
    ASSUME NEW t \in Seq(STRING), NEW u \in TokenSeqs
    PROVE  FlattenSeq(<<t>> \o u) = t \o FlattenSeq(u)
<1> DEFINE w == <<t>> \o u
           n == Len(u)
<1>1. n \in Nat /\ \A i \in 1 .. n : u[i] \in Seq(STRING)
  BY LenProperties, ElementOfSeq DEF TokenSeqs
<1>2. <<t>> \in Seq(Seq(STRING)) /\ Len(<<t>>) = 1 /\ <<t>>[1] = t
  OBVIOUS
<1>3. /\ w \in TokenSeqs /\ Len(w) = n + 1
      /\ w[1] = t /\ \A i \in 1 .. n : w[i + 1] = u[i]
  <2>1. /\ w \in Seq(Seq(STRING))
        /\ Len(w) = Len(<<t>>) + Len(u)
        /\ \A i \in 1 .. Len(<<t>>) + Len(u) : w[i] =
             IF i <= Len(<<t>>) THEN <<t>>[i] ELSE u[i - Len(<<t>>)]
    BY <1>2, ConcatProperties DEF TokenSeqs
  <2> HIDE DEF w
  <2>2. \A i \in 1 .. 1 + n : w[i] = IF i <= 1 THEN t ELSE u[i - 1]
    BY <1>2, <2>1
  <2>3. Len(w) = n + 1
    BY <1>1, <1>2, <2>1
  <2>4. ASSUME NEW i \in 1 .. n PROVE w[i + 1] = u[i]
    <3>1. i + 1 \in 1 .. 1 + n /\ ~(i + 1 <= 1) /\ i + 1 - 1 = i
      BY <1>1
    <3> QED
      BY <2>2, <3>1
  <2>5. w[1] = t
    BY <1>1, <2>2
  <2> QED
    BY <2>1, <2>3, <2>4, <2>5 DEF TokenSeqs
<1> HIDE DEF w
<1> DEFINE fw == Flat(w)
           fu == Flat(u)
<1>4. /\ \A i \in 1 .. n + 1 : fw[i] = FlatStep(w, fw, i) /\ fw[i] \in Seq(STRING)
      /\ \A i \in 1 .. n : fu[i] = FlatStep(u, fu, i) /\ fu[i] \in Seq(STRING)
  BY <1>3, FlatIs
<1> HIDE DEF fw, fu
<1>5. fw[1] = t
  BY <1>1, <1>3, <1>4 DEF FlatStep
<1> DEFINE K == {k \in Nat : k + 1 <= n => fw[k + 1 + 1] = Join(t, fu[k + 1])}
<1>6. 0 \in K
  <2>1. ASSUME 1 <= n PROVE fw[2] = Join(t, fu[1])
    <3>1. 2 \in 1 .. n + 1 /\ 1 \in 1 .. n /\ 2 # 1 /\ 2 - 1 = 1 /\ 1 + 1 = 2
      BY <1>1, <2>1
    <3>2. fu[1] = u[1]
      BY <1>4, <3>1 DEF FlatStep
    <3>3. fw[2] = Join(fw[1], w[2])
      BY <1>4, <3>1 DEF FlatStep
    <3>4. w[2] = u[1]
      BY <1>3, <3>1
    <3> QED
      BY <1>5, <3>2, <3>3, <3>4
  <2> QED
    BY <2>1
<1>7. ASSUME NEW k \in K PROVE k + 1 \in K
  <2>1. ASSUME k + 1 + 1 <= n PROVE fw[k + 1 + 1 + 1] = Join(t, fu[k + 1 + 1])
    <3> DEFINE j == k + 1
    <3>1. /\ j + 1 + 1 \in 1 .. n + 1 /\ j + 1 + 1 # 1 /\ j + 1 + 1 - 1 = j + 1
          /\ j + 1 \in 1 .. n /\ j + 1 # 1 /\ j + 1 - 1 = j
          /\ j \in 1 .. n /\ j <= n
      BY <1>1, <2>1
    <3>2. fw[j + 1] = Join(t, fu[j])
      BY <3>1
    <3> HIDE DEF j
    <3>3. fw[j + 1 + 1] = Join(fw[j + 1], w[j + 1 + 1])
      <4>1. fw[j + 1 + 1] = FlatStep(w, fw, j + 1 + 1)
        BY <1>4, <3>1
      <4>2. FlatStep(w, fw, j + 1 + 1) = Join(fw[j + 1 + 1 - 1], w[j + 1 + 1])
        BY <3>1, FlatStepIs
      <4> QED
        BY <3>1, <4>1, <4>2
    <3>4. fu[j + 1] = Join(fu[j], u[j + 1])
      <4>1. fu[j + 1] = FlatStep(u, fu, j + 1)
        BY <1>4, <3>1
      <4>2. FlatStep(u, fu, j + 1) = Join(fu[j + 1 - 1], u[j + 1])
        BY <3>1, FlatStepIs
      <4> QED
        BY <3>1, <4>1, <4>2
    <3>5. w[j + 1 + 1] = u[j + 1]
      BY <1>3, <3>1
    <3>6. fu[j] \in Seq(STRING) /\ u[j + 1] \in Seq(STRING)
      BY <1>1, <1>4, <3>1
    <3>7. Join(Join(t, fu[j]), u[j + 1]) = Join(t, Join(fu[j], u[j + 1]))
      BY <3>6, JoinIs
    <3> QED
      BY <3>2, <3>3, <3>4, <3>5, <3>7 DEF j
  <2> QED
    BY <2>1
<1>8. K = Nat
  <2>1. K \subseteq Nat
    OBVIOUS
  <2> HIDE DEF K
  <2> QED
    BY <1>6, <1>7, <2>1, Induction
<1>9. CASE n = 0
  <2>1. FlattenSeq(u) = << >>
    <3>1. u = << >>
      BY <1>9, EmptySeq DEF TokenSeqs
    <3> QED
      BY <1>9, <3>1, FlattenIs
  <2>2. FlattenSeq(w) = fw[1]
    <3>1. Len(w) = 1
      BY <1>3, <1>9
    <3>2. FlattenSeq(w) = IF Len(w) = 0 THEN w ELSE Flat(w)[Len(w)]
      BY <1>3, FlattenIs
    <3> QED
      BY <3>1, <3>2 DEF fw
  <2>3. t \o << >> = t
    BY ConcatEmptySeq
  <2> QED
    BY <1>5, <2>1, <2>2, <2>3 DEF w
<1>10. CASE n # 0
  <2>1. n - 1 \in Nat /\ n - 1 + 1 = n /\ n + 1 # 0
    BY <1>1, <1>10
  <2>2. n - 1 \in K
    <3> HIDE DEF K
    <3> QED
      BY <1>8, <2>1
  <2>3. fw[n + 1] = Join(t, fu[n])
    <3> HIDE DEF n
    <3> QED
      BY <1>1, <2>1, <2>2
  <2>4. FlattenSeq(w) = fw[n + 1] /\ FlattenSeq(u) = fu[n]
    BY <1>3, <1>10, <2>1, FlattenIs DEF fw, fu
  <2> QED
    BY <2>3, <2>4 DEF w, Join
<1> QED
  BY <1>9, <1>10

\* How many members of a set of positions come before p.
Rank(S, p) == Cardinality(UpTo(S, p - 1))

LEMMA RankIs ==
    ASSUME NEW n \in Nat, NEW S \in SUBSET (1 .. n)
    PROVE  /\ Cardinality(S) \in Nat /\ Rank(S, 1) = 0 /\ Rank(S, n + 1) = Cardinality(S)
           /\ \A p \in 1 .. n + 1 : Rank(S, p) \in 0 .. Cardinality(S)
<1>1. IsFiniteSet(1 .. n)
  <2>1. 1 \in Int /\ n \in Int
    OBVIOUS
  <2> QED
    BY <2>1, FS_Interval
<1>2. IsFiniteSet(S)
  BY <1>1, FS_Subset
<1>3. UpTo(S, 0) = {} /\ UpTo(S, n) = S
  BY UpToEnds
<1>4. 1 - 1 = 0 /\ n + 1 - 1 = n
  OBVIOUS
<1>5. ASSUME NEW p \in 1 .. n + 1 PROVE Rank(S, p) \in 0 .. Cardinality(S)
  <2> DEFINE U == UpTo(S, p - 1)
  <2>1. U \in SUBSET S
    BY DEF UpTo
  <2> HIDE DEF U
  <2>2. IsFiniteSet(U) /\ Cardinality(U) <= Cardinality(S)
    BY <1>2, <2>1, FS_Subset
  <2>3. Cardinality(U) \in Nat /\ Cardinality(S) \in Nat
    BY <1>2, <2>2, FS_CardinalityType
  <2> QED
    BY <2>2, <2>3 DEF Rank, U
<1>6. Rank(S, 1) = 0 /\ Rank(S, n + 1) = Cardinality(S)
  <2>1. Rank(S, 1) = Cardinality(UpTo(S, 0)) /\ Rank(S, n + 1) = Cardinality(UpTo(S, n))
    BY <1>4 DEF Rank
  <2> QED
    BY <1>3, <2>1, FS_EmptySet
<1> QED
  BY <1>2, <1>5, <1>6, FS_CardinalityType

\* The members of S are numbered by their rank.
LEMMA RankOfMember ==
    ASSUME NEW n \in Nat, NEW S \in SUBSET (1 .. n), NEW p \in S
    PROVE  /\ Rank(S, p + 1) = Rank(S, p) + 1
           /\ Nth(S, Rank(S, p) + 1) = p
           /\ Rank(S, p) + 1 <= Cardinality(S)
<1>1. p \in 1 .. n /\ p - 1 \in Nat /\ p - 1 + 1 = p /\ p + 1 - 1 = p /\ p + 1 \in 1 .. n + 1
  OBVIOUS
<1>2. Cardinality(UpTo(S, p)) = Rank(S, p) + 1
  <2> DEFINE k == p - 1
  <2>1. k \in Nat /\ k + 1 \in S /\ k + 1 = p
    BY <1>1
  <2> HIDE DEF k
  <2>2. Cardinality(UpTo(S, k + 1)) = Cardinality(UpTo(S, k)) + 1
    BY <2>1, UpToGrows
  <2> QED
    BY <2>1, <2>2 DEF Rank, k
<1>3. Rank(S, p + 1) = Rank(S, p) + 1
  BY <1>1, <1>2 DEF Rank
<1>4. Rank(S, p) + 1 <= Cardinality(S)
  <2>1. Rank(S, p + 1) \in 0 .. Cardinality(S) /\ Cardinality(S) \in Nat
    BY <1>1, RankIs
  <2> QED
    BY <1>3, <2>1
<1>5. \A x \in S : UpTo(S, x) = {q \in S : q <= x}
  BY DEF UpTo
<1>6. ASSUME NEW x \in S, NEW y \in S, x < y
      PROVE  Cardinality(UpTo(S, x)) # Cardinality(UpTo(S, y))
  <2>1. x \in 1 .. n /\ y \in 1 .. n
    OBVIOUS
  <2>2. UpTo(S, x) \in SUBSET UpTo(S, y) /\ y \in UpTo(S, y) /\ y \notin UpTo(S, x)
    <3>1. \A q \in 1 .. n : q <= x => q <= y
      BY <1>6, <2>1
    <3>2. y <= y /\ ~ (y <= x)
      BY <1>6, <2>1
    <3> QED
      BY <3>1, <3>2 DEF UpTo
  <2>3. IsFiniteSet(UpTo(S, y))
    <3>1. UpTo(S, y) \in SUBSET (1 .. n)
      BY DEF UpTo
    <3>2. 1 \in Int /\ n \in Int
      OBVIOUS
    <3> QED
      BY <3>1, <3>2, FS_Interval, FS_Subset
  <2>4. UpTo(S, x) # UpTo(S, y)
    BY <2>2
  <2> HIDE DEF UpTo
  <2> QED
    BY <2>2, <2>3, <2>4, FS_Subset
<1>7. \A x \in S : Cardinality(UpTo(S, x)) = Cardinality(UpTo(S, p)) => x = p
  <2> TAKE x \in S
  <2>1. x \in 1 .. n /\ (x = p \/ x < p \/ p < x)
    BY <1>1
  <2> QED
    BY <1>6, <2>1
<1>8. Nth(S, Rank(S, p) + 1) = CHOOSE x \in S : Cardinality(UpTo(S, x)) = Cardinality(UpTo(S, p))
  BY <1>2, <1>5 DEF Nth
<1>9. Nth(S, Rank(S, p) + 1) = p
  BY <1>7, <1>8
<1> QED
  BY <1>3, <1>4, <1>9

LEMMA RankSame ==
    ASSUME NEW n \in Nat, NEW S \in SUBSET (1 .. n), NEW p \in 1 .. n + 1, NEW r \in p .. n + 1,
           \A x \in p .. r - 1 : x \notin S
    PROVE  Rank(S, p) = Rank(S, r)
<1>1. ASSUME NEW x \in S PROVE x <= p - 1 <=> x <= r - 1
  <2>1. x \in 1 .. n /\ x \notin p .. r - 1
    OBVIOUS
  <2> QED
    BY <2>1
<1> QED
  BY <1>1 DEF Rank, UpTo

LEMMA RankRuns ==
    ASSUME NEW n \in Nat, NEW S \in SUBSET (1 .. n), NEW q \in 1 .. n + 1, NEW x \in q .. n + 1,
           q .. x - 1 \subseteq S
    PROVE  Rank(S, x) = Rank(S, q) + (x - q)
<1> DEFINE U == UpTo(S, q - 1)
           I == q .. x - 1
<1>1. UpTo(S, x - 1) = U \cup I /\ U \cap I = {}
  <2>1. ASSUME NEW y \in 1 .. n PROVE y <= x - 1 <=> y <= q - 1 \/ y \in q .. x - 1
    OBVIOUS
  <2>2. ASSUME NEW y \in q .. x - 1 PROVE ~(y <= q - 1) /\ y \in 1 .. n
    OBVIOUS
  <2> QED
    BY <2>1, <2>2 DEF UpTo
<1>2. IsFiniteSet(I) /\ Cardinality(I) = x - q
  <2>1. q \in Int /\ x - 1 \in Int /\ q <= x
    OBVIOUS
  <2>2. IsFiniteSet(I) /\ Cardinality(I) = IF q > x - 1 THEN 0 ELSE x - 1 - q + 1
    BY <2>1, FS_Interval
  <2> QED
    BY <2>1, <2>2
<1>3. IsFiniteSet(U)
  <2>1. U \in SUBSET (1 .. n)
    BY DEF UpTo
  <2>2. 1 \in Int /\ n \in Int
    OBVIOUS
  <2> HIDE DEF U
  <2> QED
    BY <2>1, <2>2, FS_Interval, FS_Subset
<1>4. Cardinality(U) \in Nat
  BY <1>3, FS_CardinalityType
<1> HIDE DEF U, I
<1>5. Cardinality(U \cup I) = Cardinality(U) + Cardinality(I) - Cardinality(U \cap I)
  BY <1>2, <1>3, FS_Union
<1>6. Cardinality(U \cap I) = 0
  BY <1>1, FS_EmptySet
<1>7. Cardinality(U \cup I) = Cardinality(U) + (x - q)
  BY <1>2, <1>4, <1>5, <1>6
<1> QED
  BY <1>1, <1>7 DEF Rank, U

LEMMA SeqOver ==
    ASSUME NEW N \in Nat, NEW W, W = [k \in 1 .. N |-> W[k]]
    PROVE  W \in Seq({W[k] : k \in 1 .. N}) /\ Len(W) = N
<1> DEFINE T == {W[k] : k \in 1 .. N}
<1>1. W \in [1 .. N -> T]
  <2>1. \A k \in 1 .. N : W[k] \in T
    OBVIOUS
  <2> HIDE DEF T
  <2> QED
    BY <2>1
<1> HIDE DEF T
<1>2. W \in Seq(T)
  BY <1>1, SeqDef
<1>3. DOMAIN W = 1 .. N /\ DOMAIN W = 1 .. Len(W) /\ Len(W) \in Nat
  BY <1>1, <1>2, LenProperties
<1>4. Len(W) = N
  BY <1>3
<1> QED
  BY <1>2, <1>4 DEF T

\* The text from position p on.
TextFrom(s, p) ==
    SubSeq(WithoutSpaces(s), Rank(Visible(s), p) + 1, Cardinality(Visible(s)))

LEMMA VisibleIs ==
    ASSUME NEW s \in Seq(STRING)
    PROVE  /\ Len(s) \in Nat
           /\ Visible(s) \in SUBSET (1 .. Len(s))
           /\ \A x \in 1 .. Len(s) : x \in Visible(s) <=> ~IsSpace(s[x])
BY LenProperties DEF Visible

\* A token is the text from its first character to its last.
LEMMA TokenText ==
    ASSUME NEW s \in Seq(STRING), NEW q \in 1 .. Len(s), NEW e \in q + 1 .. Len(s) + 1,
           \A x \in q .. e - 1 : ~IsSpace(s[x])
    PROVE  /\ SubSeq(s, q, e - 1) \in Seq(STRING)
           /\ SubSeq(s, q, e - 1) =
                SubSeq(WithoutSpaces(s), Rank(Visible(s), q) + 1, Rank(Visible(s), e))
           /\ Rank(Visible(s), q) <= Rank(Visible(s), e)
<1> DEFINE n == Len(s)
           V == Visible(s)
           W == WithoutSpaces(s)
           c == Rank(V, q)
           d == Rank(V, e)
<1>1. n \in Nat /\ V \in SUBSET (1 .. n) /\ \A x \in 1 .. n : x \in V <=> ~IsSpace(s[x])
  BY VisibleIs
<1>2. \A x \in 1 .. n : s[x] \in STRING
  BY ElementOfSeq
<1>3. W = [k \in 1 .. Cardinality(V) |-> s[Nth(V, k)]]
  BY DEF WithoutSpaces
<1> HIDE DEF V, W
<1>4. c \in 0 .. Cardinality(V) /\ d \in 0 .. Cardinality(V) /\ Cardinality(V) \in Nat
  BY <1>1, RankIs
<1>5. ASSUME NEW x \in q .. e - 1
      PROVE  Rank(V, x) = c + (x - q) /\ W[c + (x - q) + 1] = s[x] /\ s[x] \in STRING
  <2>1. x \in 1 .. n /\ x \in q .. n + 1 /\ q \in 1 .. n + 1
    BY <1>1
  <2>2. q .. x - 1 \subseteq V /\ x \in V
    <3>1. ASSUME NEW y \in q .. x PROVE y \in V
      <4>1. y \in q .. e - 1 /\ y \in 1 .. n
        BY <1>1
      <4> QED
        BY <1>1, <4>1
    <3>2. x \in q .. x /\ \A y \in q .. x - 1 : y \in q .. x
      OBVIOUS
    <3> QED
      BY <3>1, <3>2
  <2>3. Rank(V, x) = c + (x - q)
    BY <1>1, <2>1, <2>2, RankRuns
  <2>4. Nth(V, Rank(V, x) + 1) = x /\ Rank(V, x) + 1 <= Cardinality(V)
    BY <1>1, <2>2, RankOfMember
  <2>5. Rank(V, x) + 1 \in 1 .. Cardinality(V)
    BY <1>4, <2>3, <2>4
  <2>6. W[Rank(V, x) + 1] = s[Nth(V, Rank(V, x) + 1)]
    BY <1>3, <2>5
  <2> QED
    BY <1>2, <2>1, <2>3, <2>4, <2>6
<1>6. d = c + (e - q)
  <2>1. q \in 1 .. n + 1 /\ e \in q .. n + 1
    BY <1>1
  <2>2. ASSUME NEW y \in q .. e - 1 PROVE y \in V
    <3>1. y \in 1 .. n
      BY <1>1
    <3> QED
      BY <1>1, <3>1
  <2>3. q .. e - 1 \subseteq V
    BY <2>2
  <2> QED
    BY <1>1, <2>1, <2>3, RankRuns
<1> HIDE DEF c, d
<1> DEFINE t == SubSeq(s, q, e - 1)
           u == SubSeq(W, c + 1, d)
<1>7. /\ t \in Seq(STRING) /\ Len(t) = e - q
      /\ \A i \in 1 .. e - q : t[i] = s[q + i - 1]
  <2>1. q \in Int /\ e - 1 \in Int /\ q <= e - 1 /\ e - 1 - q + 1 = e - q
        /\ \A x \in q .. e - 1 : s[x] \in STRING
    BY <1>1, <1>2
  <2> QED
    BY <2>1, SubSeqProperties
<1>8. /\ u \in Seq(STRING) /\ Len(u) = e - q
      /\ \A i \in 1 .. e - q : u[i] = W[c + 1 + i - 1]
  <2>1. c + 1 \in Int /\ d \in Int /\ c + 1 <= d /\ d - (c + 1) + 1 = e - q
    BY <1>1, <1>4, <1>6
  <2>2. ASSUME NEW k \in c + 1 .. d PROVE W[k] \in STRING
    <3> DEFINE x == q + (k - c - 1)
    <3>1. x \in q .. e - 1 /\ c + (x - q) + 1 = k
      BY <1>1, <1>4, <1>6
    <3> QED
      BY <1>5, <3>1
  <2>3. /\ u \in Seq(STRING)
        /\ Len(u) = IF c + 1 <= d THEN d - (c + 1) + 1 ELSE 0
        /\ \A i \in 1 .. d - (c + 1) + 1 : u[i] = W[c + 1 + i - 1]
    BY <2>1, <2>2, SubSeqProperties
  <2> HIDE DEF u
  <2> QED
    BY <2>1, <2>3
<1>9. ASSUME NEW i \in 1 .. e - q PROVE t[i] = u[i]
  <2>1. q + i - 1 \in q .. e - 1 /\ c + (q + i - 1 - q) + 1 = c + 1 + i - 1
    BY <1>1, <1>4
  <2>2. W[c + 1 + i - 1] = s[q + i - 1]
    BY <1>5, <2>1
  <2> QED
    BY <1>7, <1>8, <2>2
<1>10. t = u
  <2> HIDE DEF t, u
  <2> QED
    BY <1>7, <1>8, <1>9, SeqEqual
<1>11. c <= d
  BY <1>1, <1>4, <1>6
<1> QED
  BY <1>7, <1>10, <1>11 DEF c, d, V, W

LEMMA TextStep ==
    ASSUME NEW s \in Seq(STRING), NEW p \in 1 .. Len(s) + 1,
           \A r \in p + 1 .. Len(s) + 1 : FlattenSeq(From(s)[r]) = TextFrom(s, r)
    PROVE  FlattenSeq(From(s)[p]) = TextFrom(s, p)
<1> DEFINE n == Len(s)
           V == Visible(s)
           W == WithoutSpaces(s)
           N == Cardinality(V)
<1>1. n \in Nat /\ V \in SUBSET (1 .. n) /\ \A x \in 1 .. n : x \in V <=> ~IsSpace(s[x])
  BY VisibleIs
<1>2. N \in Nat /\ Rank(V, n + 1) = N /\ \A x \in 1 .. n + 1 : Rank(V, x) \in 0 .. N
  BY <1>1, RankIs
<1>3. From(s)[p] = Rest(s, From(s), p)
  BY FromIs
<1>4. \A x \in 1 .. n + 1 : TextFrom(s, x) = SubSeq(W, Rank(V, x) + 1, N)
  BY DEF TextFrom
<1>5. CASE NextToken(s, p).token = NoToken
  <2>1. \A x \in p .. n : IsSpace(s[x])
    BY <1>5, TokenIs
  <2>2. Rank(V, p) = Rank(V, n + 1)
    <3>1. ASSUME NEW x \in p .. n + 1 - 1 PROVE x \notin V
      <4>1. x \in 1 .. n /\ x \in p .. n
        BY <1>1
      <4> QED
        BY <1>1, <2>1, <4>1
    <3>2. n + 1 \in p .. n + 1
      BY <1>1
    <3> HIDE DEF V
    <3> QED
      BY <1>1, <3>1, <3>2, RankSame
  <2>3. TextFrom(s, p) = << >>
    <3>1. N + 1 \in Int /\ N \in Int /\ N < N + 1
      BY <1>2
    <3>2. SubSeq(W, N + 1, N) = << >>
      <4> HIDE DEF N, W
      <4> QED
        BY <3>1, SubSeqEmpty
    <3> HIDE DEF N, V, W
    <3> QED
      BY <1>2, <1>4, <2>2, <3>2
  <2>4. From(s)[p] = << >>
    BY <1>3, <1>5 DEF Rest
  <2>5. FlattenSeq(<< >>) = << >>
    BY EmptySeq DEF FlattenSeq
  <2> QED
    BY <2>3, <2>4, <2>5
<1>6. CASE NextToken(s, p).token # NoToken
  <2> DEFINE r == NextToken(s, p).pos
             t == NextToken(s, p).token
  <2>1. PICK q \in p .. n : \E e \in q + 1 .. n + 1 : TokenBetween(s, p, q, e)
    BY <1>6, TokenIs
  <2>2. PICK e \in q + 1 .. n + 1 : TokenBetween(s, p, q, e)
    BY <2>1
  <2>3. /\ r \in e .. n + 1 /\ t = SubSeq(s, q, e - 1)
        /\ \A x \in q .. e - 1 : ~IsSpace(s[x])
        /\ \A x \in p .. q - 1 : IsSpace(s[x])
        /\ \A x \in e .. r - 1 : IsSpace(s[x])
    BY <2>2 DEF TokenBetween
  <2> HIDE DEF r, t
  <2>4. q \in 1 .. n /\ q \in p .. n + 1 /\ e \in 1 .. n + 1 /\ r \in p + 1 .. n + 1 /\ r \in 1 .. n + 1
    BY <1>1, <2>3
  <2>5. Rank(V, p) = Rank(V, q)
    <3>1. ASSUME NEW x \in p .. q - 1 PROVE x \notin V
      <4>1. x \in 1 .. n
        BY <1>1, <2>4
      <4> QED
        BY <1>1, <2>3, <4>1
    <3> HIDE DEF V
    <3> QED
      BY <1>1, <2>4, <3>1, RankSame
  <2>6. Rank(V, e) = Rank(V, r)
    <3>1. ASSUME NEW x \in e .. r - 1 PROVE x \notin V
      <4>1. x \in 1 .. n
        BY <1>1, <2>3, <2>4
      <4> QED
        BY <1>1, <2>3, <4>1
    <3> HIDE DEF V
    <3> QED
      BY <1>1, <2>3, <2>4, <3>1, RankSame
  <2>7. /\ t \in Seq(STRING)
        /\ t = SubSeq(W, Rank(V, q) + 1, Rank(V, e))
        /\ Rank(V, q) <= Rank(V, e)
    BY <2>3, <2>4, TokenText
  <2>8. From(s)[p] = <<t>> \o From(s)[r]
    BY <1>3, <1>6 DEF Rest, r, t
  <2>9. FlattenSeq(From(s)[p]) = t \o TextFrom(s, r)
    <3>1. From(s)[r] \in TokenSeqs
      BY <2>4, FromIs
    <3>2. FlattenSeq(<<t>> \o From(s)[r]) = t \o FlattenSeq(From(s)[r])
      BY <2>7, <3>1, FlattenCons
    <3> QED
      BY <2>4, <2>8, <3>2
  <2>10. W \in Seq({W[k] : k \in 1 .. N}) /\ Len(W) = N
    <3>1. W = [k \in 1 .. N |-> s[Nth(V, k)]]
      BY DEF WithoutSpaces
    <3>2. W = [k \in 1 .. N |-> W[k]]
      BY <3>1
    <3> HIDE DEF N, W
    <3> QED
      BY <1>2, <3>2, SeqOver
  <2>11. SubSeq(W, Rank(V, q) + 1, Rank(V, e)) \o SubSeq(W, Rank(V, e) + 1, N)
         = SubSeq(W, Rank(V, q) + 1, N)
    <3> DEFINE m == Rank(V, q) + 1
               k == Rank(V, e)
               T == {W[i] : i \in 1 .. N}
    <3>1. Rank(V, q) \in 0 .. N /\ Rank(V, e) \in 0 .. N
      BY <1>2, <2>4
    <3> HIDE DEF N
    <3>2. m \in 1 .. N + 1 /\ k \in m - 1 .. N /\ N \in k .. N
      BY <1>2, <2>7, <3>1
    <3> HIDE DEF m, k, W, T
    <3>3. W \in Seq(T) /\ Len(W) = N
      BY <2>10 DEF T
    <3>4. SubSeq(W, m, k) \o SubSeq(W, k + 1, N) = SubSeq(W, m, N)
      BY <3>2, <3>3, ConcatAdjacentSubSeq
    <3> QED
      BY <3>4 DEF m, k
  <2> HIDE DEF V, W, N
  <2> QED
    BY <1>4, <2>4, <2>5, <2>6, <2>7, <2>9, <2>11
<1> QED
  BY <1>5, <1>6

\* A fact that holds at a position when it holds at all later ones holds at the
\* first: S is the set of the positions that it holds at.
LEMMA Downward ==
    ASSUME NEW n \in Nat, NEW S,
           \A p \in 1 .. n + 1 : (\A r \in p + 1 .. n + 1 : r \in S) => p \in S
    PROVE  1 \in S
<1> DEFINE K == {k \in Nat : \A p \in 1 .. n + 1 : n + 1 - k <= p => p \in S}
<1>1. 0 \in K
  <2>1. ASSUME NEW p \in 1 .. n + 1, n + 1 - 0 <= p PROVE p \in S
    <3>1. \A r \in p + 1 .. n + 1 : FALSE
      BY <2>1
    <3> QED
      BY <3>1
  <2> QED
    BY <2>1
<1>2. ASSUME NEW k \in K PROVE k + 1 \in K
  <2>1. ASSUME NEW p \in 1 .. n + 1, n + 1 - (k + 1) <= p PROVE p \in S
    <3>1. \A r \in p + 1 .. n + 1 : r \in 1 .. n + 1 /\ n + 1 - k <= r
      BY <2>1
    <3>2. \A r \in p + 1 .. n + 1 : r \in S
      BY <3>1
    <3> QED
      BY <3>2
  <2> QED
    BY <2>1
<1>3. K = Nat
  <2>1. K \subseteq Nat
    OBVIOUS
  <2> HIDE DEF K
  <2> QED
    BY <1>1, <1>2, <2>1, Induction
<1>4. n + 1 \in K
  <2>1. n + 1 \in Nat
    OBVIOUS
  <2> HIDE DEF K
  <2> QED
    BY <1>3, <2>1
<1> QED
  BY <1>4

LEMMA TextIs ==
    ASSUME NEW s \in Seq(STRING)
    PROVE  FlattenSeq(Tokens(s)) = WithoutSpaces(s)
<1> DEFINE n == Len(s)
           V == Visible(s)
           W == WithoutSpaces(s)
           S == {p \in 1 .. n + 1 : FlattenSeq(From(s)[p]) = TextFrom(s, p)}
<1>1. n \in Nat /\ V \in SUBSET (1 .. n)
  BY VisibleIs
<1>2. \A p \in 1 .. n + 1 : (\A r \in p + 1 .. n + 1 : r \in S) => p \in S
  <2> TAKE p \in 1 .. n + 1
  <2> HAVE \A r \in p + 1 .. n + 1 : r \in S
  <2>1. \A r \in p + 1 .. n + 1 : FlattenSeq(From(s)[r]) = TextFrom(s, r)
    OBVIOUS
  <2> QED
    BY <2>1, TextStep
<1>3. 1 \in S
  <2> HIDE DEF S, n
  <2> QED
    BY <1>1, <1>2, Downward
<1>4. FlattenSeq(Tokens(s)) = TextFrom(s, 1)
  BY <1>3, TokensFrom
<1>5. Rank(V, 1) = 0 /\ Cardinality(V) \in Nat
  BY <1>1, RankIs
<1>6. TextFrom(s, 1) = SubSeq(W, 1, Cardinality(V))
  <2>1. 0 + 1 = 1
    OBVIOUS
  <2> QED
    BY <1>5, <2>1 DEF TextFrom
<1>7. W = [k \in 1 .. Cardinality(V) |-> s[Nth(V, k)]]
  BY DEF WithoutSpaces
<1> DEFINE N == Cardinality(V)
<1> HIDE DEF W, V, N
<1>8. SubSeq(W, 1, N) = W
  <2>1. W = [k \in 1 .. N |-> W[k]] /\ N \in Nat
    BY <1>5, <1>7 DEF N
  <2>2. W \in Seq({W[k] : k \in 1 .. N}) /\ Len(W) = N
    BY <2>1, SeqOver
  <2> QED
    BY <2>2, SubSeqFull
<1> QED
  BY <1>4, <1>6, <1>8 DEF W, N

\* The described tokens from position p on.
DescribedFrom(s, p) ==
    SubSeq(Described(s), Rank(Starts(s), p) + 1, Cardinality(Starts(s)))

\* The positions get_next_token is called with, in a line without hidden
\* delimiters: after a delimiter, or where a token starts, or at either end.
Boundary(s, p) ==
    \/ p = Len(s) + 1 \/ p = 1
    \/ IsDelimiter(s[p - 1])
    \/ ~IsSpace(s[p]) /\ (IsDelimiter(s[p]) \/ IsSpace(s[p - 1]))

LEMMA StartsAre ==
    ASSUME NEW s \in Seq(STRING)
    PROVE  /\ Starts(s) \in SUBSET (1 .. Len(s))
           /\ \A x \in 1 .. Len(s) : x \in Starts(s) <=>
                /\ ~IsSpace(s[x])
                /\ IsDelimiter(s[x]) \/ x = 1 \/ IsDelimiter(s[x - 1]) \/ IsSpace(s[x - 1])
BY VisibleIs DEF Starts

\* A token starts at one of the starts, which the spaces and the characters up
\* to the next position are not, and that position is a boundary again.
LEMMA TokenStarts ==
    ASSUME NEW s \in Seq(STRING), ~Hidden(s),
           NEW p \in 1 .. Len(s) + 1, Boundary(s, p),
           NEW q \in p .. Len(s), NEW e \in q + 1 .. Len(s) + 1, TokenBetween(s, p, q, e)
    PROVE  LET next == NextToken(s, p) IN
           /\ q \in Starts(s)
           /\ \A x \in p .. q - 1 : x \notin Starts(s)
           /\ \A x \in q + 1 .. next.pos - 1 : x \notin Starts(s)
           /\ Boundary(s, next.pos)
           /\ next.token = IF IsDelimiter(s[q]) THEN <<s[q]>> ELSE SubSeq(s, q, TokenEnd(s, q) - 1)
<1> DEFINE n == Len(s)
           A == Starts(s)
           r == NextToken(s, p).pos
           token == NextToken(s, p).token
<1>1. /\ n \in Nat
      /\ \A x \in 1 .. n : x \in A <=>
           /\ ~IsSpace(s[x])
           /\ IsDelimiter(s[x]) \/ x = 1 \/ IsDelimiter(s[x - 1]) \/ IsSpace(s[x - 1])
  BY StartsAre, LenProperties
<1>2. A \in SUBSET (1 .. n)
  BY StartsAre
<1>3. /\ r \in e .. n + 1
      /\ token = SubSeq(s, q, e - 1)
      /\ \A x \in q .. e - 1 : ~IsSpace(s[x])
      /\ \A x \in p .. q - 1 : IsSpace(s[x])
      /\ \A x \in e .. r - 1 : IsSpace(s[x])
      /\ \/ IsDelimiter(s[p]) /\ q = p /\ e = p + 1 /\ r = p + 1 /\ token = <<s[p]>>
         \/ /\ ~IsDelimiter(s[p])
            /\ e = TokenEnd(s, q)
            /\ r = n + 1 \/ ~IsSpace(s[r])
  BY DEF TokenBetween
<1> HIDE DEF A, r, token
<1>4. /\ q \in 1 .. n /\ q \in q .. e - 1 /\ e \in 1 .. n + 1 /\ r \in 1 .. n + 1
      /\ \A x \in p .. q - 1 : x \in 1 .. n
  BY <1>1, <1>3
<1>5. ASSUME NEW x \in 1 .. n, IsSpace(s[x]) PROVE x \notin A
  BY <1>1, <1>5
<1>6. \A x \in p .. q - 1 : x \notin A
  BY <1>3, <1>4, <1>5
<1>7. CASE IsDelimiter(s[p]) /\ q = p /\ e = p + 1 /\ r = p + 1 /\ token = <<s[p]>>
  <2>1. q \in A
    BY <1>1, <1>3, <1>4, <1>7
  <2>2. \A x \in q + 1 .. r - 1 : x \notin A
    <3>1. \A x \in q + 1 .. r - 1 : FALSE
      BY <1>1, <1>7
    <3> QED
      BY <3>1
  <2>3. Boundary(s, r)
    <3>1. r - 1 = p
      BY <1>4, <1>7
    <3> QED
      BY <1>7, <3>1 DEF Boundary
  <2> QED
    BY <1>6, <1>7, <2>1, <2>2, <2>3 DEF A, r, token
<1>8. CASE /\ ~IsDelimiter(s[p])
           /\ e = TokenEnd(s, q)
           /\ r = n + 1 \/ ~IsSpace(s[r])
  <2>1. /\ e = n + 1 \/ IsDelimiter(s[e]) \/ IsSpace(s[e])
        /\ \A x \in q + 1 .. e - 1 : ~IsDelimiter(s[x]) /\ ~IsSpace(s[x])
    BY <1>4, <1>8, TokenEndIs
  <2>2. ~IsSpace(s[q])
    BY <1>3, <1>4
  <2>3. ~IsDelimiter(s[q]) /\ q \in A
    <3>1. CASE q = p
      <4>1. IsDelimiter(s[q]) \/ q = 1 \/ IsDelimiter(s[q - 1]) \/ IsSpace(s[q - 1])
        <5>1. q # n + 1
          BY <1>1, <1>4
        <5> QED
          BY <3>1, <5>1 DEF Boundary
      <4> QED
        BY <1>1, <1>4, <1>8, <2>2, <3>1, <4>1
    <3>2. CASE q # p
      <4>1. p \in p .. q - 1 /\ q - 1 \in p .. q - 1 /\ p \in 1 .. n /\ p < q
        BY <1>1, <1>4, <3>2
      <4>2. IsSpace(s[p]) /\ IsSpace(s[q - 1])
        BY <1>3, <4>1
      <4>3. p = 1 \/ IsDelimiter(s[p - 1])
        <5>1. p # n + 1
          BY <1>1, <4>1
        <5> QED
          BY <4>2, <5>1 DEF Boundary
      <4>4. ~IsDelimiter(s[q])
        BY <1>3, <1>4, <4>1, <4>3 DEF Hidden
      <4> QED
        BY <1>1, <1>4, <2>2, <4>2, <4>4
    <3> QED
      BY <3>1, <3>2
  <2>4. ASSUME NEW x \in q + 1 .. r - 1 PROVE x \notin A
    <3>1. x \in 1 .. n /\ x # 1 /\ (x - 1 = q \/ x - 1 \in q + 1 .. x - 1)
      BY <1>1, <1>4
    <3>2. CASE x \in e .. r - 1
      BY <1>3, <1>5, <3>1, <3>2
    <3>3. CASE x \in q + 1 .. e - 1
      <4>1. x - 1 = q \/ x - 1 \in q + 1 .. e - 1
        BY <1>1, <1>4, <3>1, <3>3
      <4>2. ~IsDelimiter(s[x - 1]) /\ ~IsSpace(s[x - 1])
        <5>1. CASE x - 1 = q
          BY <2>2, <2>3, <5>1
        <5>2. CASE x - 1 \in q + 1 .. e - 1
          BY <2>1, <5>2
        <5> QED
          BY <4>1, <5>1, <5>2
      <4>3. ~IsDelimiter(s[x])
        BY <2>1, <3>3
      <4> QED
        BY <1>1, <3>1, <4>2, <4>3
    <3> QED
      BY <1>1, <1>4, <3>2, <3>3
  <2>5. Boundary(s, r)
    <3>1. CASE r = n + 1
      BY <3>1 DEF Boundary
    <3>2. CASE r # n + 1 /\ r = e
      <4>1. IsDelimiter(s[r]) /\ ~IsSpace(s[r])
        BY <1>8, <2>1, <3>2
      <4> QED
        BY <4>1 DEF Boundary
    <3>3. CASE r # n + 1 /\ r # e
      <4>1. r - 1 \in e .. r - 1
        BY <1>1, <1>3, <1>4, <3>3
      <4>2. IsSpace(s[r - 1]) /\ ~IsSpace(s[r])
        BY <1>3, <1>8, <3>3, <4>1
      <4> QED
        BY <4>2 DEF Boundary
    <3> QED
      BY <3>1, <3>2, <3>3
  <2>6. token = SubSeq(s, q, TokenEnd(s, q) - 1)
    BY <1>3, <1>8
  <2> QED
    BY <1>6, <2>3, <2>4, <2>5, <2>6 DEF A, r, token
<1> QED
  BY <1>3, <1>7, <1>8

LEMMA DescribedStep ==
    ASSUME NEW s \in Seq(STRING), ~Hidden(s), NEW p \in 1 .. Len(s) + 1, Boundary(s, p),
           \A r \in p + 1 .. Len(s) + 1 : Boundary(s, r) => From(s)[r] = DescribedFrom(s, r)
    PROVE  From(s)[p] = DescribedFrom(s, p)
<1> DEFINE n == Len(s)
           A == Starts(s)
           D == Described(s)
           N == Cardinality(A)
<1>1. n \in Nat /\ A \in SUBSET (1 .. n)
  BY StartsAre, LenProperties
<1>2. N \in Nat /\ Rank(A, n + 1) = N /\ \A x \in 1 .. n + 1 : Rank(A, x) \in 0 .. N
  BY <1>1, RankIs
<1>3. From(s)[p] = Rest(s, From(s), p)
  BY FromIs
<1>4. \A x \in 1 .. n + 1 : DescribedFrom(s, x) = SubSeq(D, Rank(A, x) + 1, N)
  BY DEF DescribedFrom
<1>5. CASE NextToken(s, p).token = NoToken
  <2>1. \A x \in p .. n : IsSpace(s[x])
    BY <1>5, TokenIs
  <2>2. Rank(A, p) = Rank(A, n + 1)
    <3>1. ASSUME NEW x \in p .. n + 1 - 1 PROVE x \notin A
      <4>1. x \in 1 .. n /\ x \in p .. n
        BY <1>1
      <4> QED
        BY <2>1, <4>1, StartsAre
    <3>2. n + 1 \in p .. n + 1
      BY <1>1
    <3> HIDE DEF A
    <3> QED
      BY <1>1, <3>1, <3>2, RankSame
  <2>3. DescribedFrom(s, p) = << >>
    <3>1. N + 1 \in Int /\ N \in Int /\ N < N + 1
      BY <1>2
    <3>2. SubSeq(D, N + 1, N) = << >>
      <4> HIDE DEF N, D
      <4> QED
        BY <3>1, SubSeqEmpty
    <3> HIDE DEF N, A, D
    <3> QED
      BY <1>2, <1>4, <2>2, <3>2
  <2>4. From(s)[p] = << >>
    BY <1>3, <1>5 DEF Rest
  <2> QED
    BY <2>3, <2>4
<1>6. CASE NextToken(s, p).token # NoToken
  <2> DEFINE r == NextToken(s, p).pos
             t == NextToken(s, p).token
             m == Rank(A, p) + 1
  <2>1. PICK q \in p .. n : \E e \in q + 1 .. n + 1 : TokenBetween(s, p, q, e)
    BY <1>6, TokenIs
  <2>2. PICK e \in q + 1 .. n + 1 : TokenBetween(s, p, q, e)
    BY <2>1
  <2>3. /\ q \in A
        /\ \A x \in p .. q - 1 : x \notin A
        /\ \A x \in q + 1 .. r - 1 : x \notin A
        /\ Boundary(s, r)
        /\ t = IF IsDelimiter(s[q]) THEN <<s[q]>> ELSE SubSeq(s, q, TokenEnd(s, q) - 1)
    BY <2>2, TokenStarts
  <2>4. r \in e .. n + 1
    BY <2>2 DEF TokenBetween
  <2> HIDE DEF r, t
  <2>5. q \in 1 .. n /\ q \in p .. n + 1 /\ q + 1 \in 1 .. n + 1 /\ r \in q + 1 .. n + 1
        /\ r \in p + 1 .. n + 1 /\ r \in 1 .. n + 1
    BY <1>1, <2>4
  <2>6. Rank(A, p) = Rank(A, q)
    <3> HIDE DEF A
    <3> QED
      BY <1>1, <2>3, <2>5, RankSame
  <2>7. Rank(A, q + 1) = Rank(A, r)
    <3>1. \A x \in q + 1 .. r - 1 : x \notin A
      BY <2>3
    <3> HIDE DEF A
    <3> QED
      BY <1>1, <2>5, <3>1, RankSame
  <2>8. /\ Rank(A, q + 1) = Rank(A, q) + 1
        /\ Nth(A, Rank(A, q) + 1) = q
        /\ Rank(A, q) + 1 <= Cardinality(A)
    <3> HIDE DEF A
    <3> QED
      BY <1>1, <2>3, RankOfMember
  <2>9. m \in 1 .. N /\ N \in m .. N /\ Nth(A, m) = q /\ Rank(A, r) + 1 = m + 1
    <3>1. Rank(A, q) \in 0 .. N /\ Rank(A, q) + 1 <= N
      BY <1>2, <2>5, <2>8
    <3> HIDE DEF N, A
    <3> QED
      BY <1>2, <2>6, <2>7, <2>8, <3>1
  <2>10. D = [k \in 1 .. N |-> IF IsDelimiter(s[Nth(A, k)]) THEN <<s[Nth(A, k)]>>
                               ELSE SubSeq(s, Nth(A, k), TokenEnd(s, Nth(A, k)) - 1)]
    BY DEF Described
  <2> HIDE DEF D, N, A, m
  <2>11. D[m] = t
    BY <2>3, <2>9, <2>10
  <2>12. SubSeq(D, m, N) = <<D[m]>> \o SubSeq(D, m + 1, N)
    <3> DEFINE T == {D[k] : k \in 1 .. N}
    <3>1. D = [k \in 1 .. N |-> D[k]]
      BY <2>10
    <3>2. D \in Seq(T) /\ Len(D) = N
      BY <1>2, <3>1, SeqOver
    <3> HIDE DEF T
    <3> QED
      BY <2>9, <3>2, SubSeqRecursiveFirst
  <2>13. From(s)[p] = <<t>> \o From(s)[r]
    BY <1>3, <1>6 DEF Rest, r, t
  <2>14. From(s)[r] = SubSeq(D, m + 1, N)
    <3>1. From(s)[r] = DescribedFrom(s, r)
      BY <2>3, <2>5
    <3>2. DescribedFrom(s, r) = SubSeq(D, Rank(A, r) + 1, N)
      BY <1>4, <2>5
    <3> QED
      BY <2>9, <3>1, <3>2
  <2>15. DescribedFrom(s, p) = SubSeq(D, m, N)
    BY <1>4 DEF m
  <2> QED
    BY <2>11, <2>12, <2>13, <2>14, <2>15
<1> QED
  BY <1>5, <1>6

LEMMA DescribedIs ==
    ASSUME NEW s \in Seq(STRING), ~Hidden(s)
    PROVE  Tokens(s) = Described(s)
<1> DEFINE n == Len(s)
           A == Starts(s)
           D == Described(s)
           N == Cardinality(A)
           S == {p \in 1 .. n + 1 : Boundary(s, p) => From(s)[p] = DescribedFrom(s, p)}
<1>1. n \in Nat /\ A \in SUBSET (1 .. n)
  BY StartsAre, LenProperties
<1>2. \A p \in 1 .. n + 1 : (\A r \in p + 1 .. n + 1 : r \in S) => p \in S
  <2> TAKE p \in 1 .. n + 1
  <2> HAVE \A r \in p + 1 .. n + 1 : r \in S
  <2>1. \A r \in p + 1 .. n + 1 : Boundary(s, r) => From(s)[r] = DescribedFrom(s, r)
    OBVIOUS
  <2> QED
    BY <2>1, DescribedStep
<1>3. 1 \in S
  <2> HIDE DEF S, n
  <2> QED
    BY <1>1, <1>2, Downward
<1>4. Boundary(s, 1)
  BY DEF Boundary
<1>5. Tokens(s) = DescribedFrom(s, 1)
  BY <1>3, <1>4, TokensFrom
<1>6. Rank(A, 1) = 0 /\ N \in Nat
  BY <1>1, RankIs
<1>7. DescribedFrom(s, 1) = SubSeq(D, 1, N)
  <2>1. 0 + 1 = 1
    OBVIOUS
  <2> QED
    BY <1>6, <2>1 DEF DescribedFrom
<1>8. D = [k \in 1 .. N |-> D[k]]
  BY DEF Described
<1> HIDE DEF D, A, N
<1>9. D \in Seq({D[k] : k \in 1 .. N}) /\ Len(D) = N
  BY <1>6, <1>8, SeqOver
<1>10. SubSeq(D, 1, N) = D
  BY <1>9, SubSeqFull
<1> QED
  BY <1>5, <1>7, <1>10 DEF D, N

-----------------------------------------------------------------------------
(***************************************************************************)
(* The inductive invariant of PennSh: for each place in executeShell,      *)
(* which children there are, who holds the pipe and whom pid names.        *)
(***************************************************************************)
ChildrenAt ==
    /\ spc = "prompt" => NoChild
    /\ spc \in {"parse", "fork", "failed", "pipe", "fork1"}
         => \A i \in Children : procs[i] = "none"
    /\ spc \in {"assign", "wait"} => procs[1] \notin {"none", "close", "reaped"}
    /\ spc \in {"assign", "wait", "fork2"} => procs[2] = "none"
    /\ spc \in {"fork2", "closeRead", "closeWrite"}
         => \A i \in Children : procs[i] # "reaped"
    /\ spc = "wait1" => \/ \A i \in Children : procs[i] # "reaped"
                        \/ NoChild /\ \E i \in Children : procs[i] = "none"
    /\ spc = "wait2" => \E i, j \in Children : procs[i] = "reaped" /\ procs[j] # "reaped"
    /\ spc = "reset" => NoChild /\ (command.flag = 0 => procs[1] = "reaped")

LineAt ==
    /\ spc = "parse" => line \in Accepted
    /\ spc \in {"fork", "failed", "assign", "wait"} => command.flag = 0
    /\ spc \in {"pipe", "fork1", "fork2", "closeRead", "closeWrite", "wait1", "wait2"}
         => command.flag = 1

PidAt ==
    /\ pid = 1 => spc = "wait" \/ (spc = "reset" /\ command.flag = 0)
    /\ pid = -1 => spc = "failed"

\* A child has an end until it ends, and the one it does not use until it has
\* closed it; the shell has the ends from pipe() to its two close().
EndsAt ==
    /\ \A i \in Children : \A e \in Ends : <<i, e>> \in ends =>
          Alive(i) /\ (procs[i] # "close" => e # Unneeded(i))
    /\ \A e \in Ends : <<Shell, e>> \in ends =>
          /\ mode = "up"
          /\ spc \in {"fork1", "fork2", "closeRead"} \/ (spc = "closeWrite" /\ e = "write")

\* The streams of a child that is ready to run its command.
Streams(i) ==
    /\ StageOf(i).outs <= 1 /\ StageOf(i).ins <= 1
    /\ version = "2b" => /\ stdout[i] = "file" <=> StageOf(i).outs = 1
                         /\ stdin[i] = "file" <=> StageOf(i).ins = 1
    /\ version = "2a" => /\ stdout[i] \in {"tty", Redirected(i).out}
                         /\ stdin[i] \in {"tty", Redirected(i).in}
    /\ command.flag = 1 => /\ i = 1 => stdout[i] = "pipe" /\ stdin[i] # "pipe"
                           /\ i = 2 => stdin[i] = "pipe" /\ stdout[i] # "pipe"
    /\ command.flag = 0 => i = 1 /\ "pipe" \notin {stdin[i], stdout[i]}

StreamsAt ==
    /\ \A i \in Children :
         procs[i] \in {"none", "close", "setup", "reaped"} => stdin[i] = "tty" /\ stdout[i] = "tty"
    /\ \A i \in Children : procs[i] \in {"exec", "running"} => Streams(i)
    /\ procs[2] \notin {"none", "reaped"} => command.flag = 1

Inv == TypeOK /\ ChildrenAt /\ LineAt /\ PidAt /\ EndsAt /\ StreamsAt

LEMMA LinesAreText == ASSUME NEW s \in Accepted PROVE s \in Seq(STRING)
BY LinesAssumption DEF Accepted

LEMMA CommandIs ==
    ASSUME NEW v \in {"2a", "2b"},
           NEW c \in {Parse(<< >>)} \cup (IF v = "2a" THEN PlainCommands ELSE Pipelines)
    PROVE  /\ c.flag \in {0, 1}
           /\ v = "2a" => c.flag = 0
           /\ \A i \in 1 .. 2 : c.stage[i].outs \in Nat /\ c.stage[i].ins \in Nat
<1>1. c \in Commands(v)
  <2>1. CASE c = Parse(<< >>)
    <3>1. c \in Commands("2b") /\ c.flag = 0
      BY <2>1, EmptyLineIs, ParsedIs
    <3> QED
      BY <3>1 DEF Commands
  <2>2. CASE v = "2a" /\ c \in PlainCommands
    BY <2>2, LinesAreText, ParsedIs DEF PlainCommands
  <2>3. CASE v = "2b" /\ c \in Pipelines
    BY <2>3, LinesAreText, ParsedIs DEF Pipelines
  <2> QED
    BY <2>1, <2>2, <2>3
<1>2. c.stage \in Seq(Stages) /\ Len(c.stage) = 2
  BY <1>1 DEF Commands
<1>3. \A i \in 1 .. 2 : c.stage[i] \in Stages
  BY <1>2, ElementOfSeq
<1> QED
  BY <1>1, <1>3 DEF Commands, Stages

LEMMA InitInv == Init => Inv
<1> SUFFICES ASSUME Init PROVE Inv
  OBVIOUS
<1>1. TypeOK
  BY PipeAssumption DEF Init, TypeOK, ShellPCs, ChildPCs
<1>2. ChildrenAt /\ LineAt /\ PidAt /\ EndsAt /\ StreamsAt
  BY DEF Init, ChildrenAt, LineAt, PidAt, EndsAt, StreamsAt, NoChild, Children
<1> QED
  BY <1>1, <1>2 DEF Inv

-----------------------------------------------------------------------------
(* executeShell *)

LEMMA PromptStep == ASSUME Inv, Prompt PROVE Inv'
<1> USE DEF Inv, TypeOK, ChildrenAt, LineAt, PidAt, EndsAt, StreamsAt, NoChild, Alive, Children,
            Ends, ShellPCs, ChildPCs, lineVars, childVars, pipeVars, ShellGoto, Shell
<1>1. CASE ReadLine
  <2>1. PICK s \in Lines : ~Refused(s) /\ line' = s
    BY <1>1 DEF ReadLine
  <2>2. line' \in Accepted /\ line' \in Seq(STRING)
    BY <2>1, LinesAssumption DEF Accepted
  <2>3. TypeOK'
    BY <1>1, <2>2 DEF ReadLine
  <2> QED
    BY <1>1, <2>2, <2>3 DEF ReadLine
<1>2. CASE EndOfInput
  BY <1>2 DEF EndOfInput, Exit, EndsOf, Streams, StageOf, Redirected
<1>3. CASE ParseLine
  <2>1. line \in Accepted
    BY <1>3 DEF ParseLine
  <2>2. command' \in IF version = "2a" THEN PlainCommands ELSE Pipelines
    BY <1>3, <2>1 DEF ParseLine, ParseIn, PlainCommands, Pipelines
  <2>3. TypeOK'
    BY <1>3, <2>2, EmptyLineIs DEF ParseLine
  <2>4. command'.flag \in {0, 1}
    BY <1>3, <2>2, CommandIs DEF ParseLine
  <2>5. LineAt'
    BY <1>3, <2>4 DEF ParseLine
  <2>6. ChildrenAt' /\ PidAt' /\ EndsAt' /\ StreamsAt'
    BY <1>3, <2>4 DEF ParseLine
  <2> QED
    BY <2>3, <2>5, <2>6
<1> QED
  BY <1>1, <1>2, <1>3 DEF Prompt

LEMMA StreamsKept ==
    ASSUME UNCHANGED <<version, command>>, NEW i \in Children,
           stdin'[i] = stdin[i], stdout'[i] = stdout[i]
    PROVE  Streams(i)' <=> Streams(i)
BY DEF Streams, StageOf, Redirected

LEMMA SingleStep == ASSUME Inv, mode = "up", Single PROVE Inv'
<1> USE DEF Inv, TypeOK, ChildrenAt, LineAt, PidAt, EndsAt, StreamsAt, NoChild, Alive, Children,
            Ends, ShellPCs, ChildPCs, lineVars, childVars, pipeVars, ShellGoto, Shell
<1>1. CASE Fork
  <2>1. \A i \in Children : Streams(i)' <=> Streams(i)
    BY <1>1, StreamsKept DEF Fork
  <2>2. CASE procs' = [procs EXCEPT ![1] = "setup"] /\ spc' = "assign" /\ pid' = pid
    BY <1>1, <2>1, <2>2 DEF Fork, Unneeded
  <2>3. CASE pid' = -1 /\ spc' = "failed" /\ procs' = procs
    BY <1>1, <2>1, <2>3 DEF Fork
  <2> QED
    BY <1>1, <2>2, <2>3 DEF Fork
<1>2. CASE ForkFailed
  <2>1. \A i \in Children : Streams(i)' <=> Streams(i)
    BY <1>2, StreamsKept DEF ForkFailed
  <2> QED
    BY <1>2, <2>1 DEF ForkFailed, Exit, EndsOf
<1>3. CASE AssignPid
  <2>1. \A i \in Children : Streams(i)' <=> Streams(i)
    BY <1>3, StreamsKept DEF AssignPid
  <2> QED
    BY <1>3, <2>1 DEF AssignPid
<1>4. CASE Wait
  <2>1. PICK i \in Children :
           /\ procs[i] = "zombie"
           /\ procs' = [procs EXCEPT ![i] = "reaped"]
           /\ stdin' = [stdin EXCEPT ![i] = "tty"]
           /\ stdout' = [stdout EXCEPT ![i] = "tty"]
    BY <1>4 DEF Wait, Reap
  <2>2. \A j \in Children \ {i} : Streams(j)' <=> Streams(j)
    BY <1>4, <2>1, StreamsKept DEF Wait, Reap
  <2>3. i = 1
    BY <1>4, <2>1 DEF Wait
  <2> QED
    BY <1>4, <2>1, <2>2, <2>3 DEF Wait, Reap
<1>5. CASE ResetPid
  BY <1>5, PipeAssumption DEF ResetPid
<1> QED
  BY <1>1, <1>2, <1>3, <1>4, <1>5 DEF Single

LEMMA CopiedEnds ==
    ASSUME NEW E, NEW i, NEW S
    PROVE  \A p, e : <<p, e>> \in E \cup {<<i, f>> : f \in S} => <<p, e>> \in E \/ p = i
OBVIOUS

LEMMA PipelineStep == ASSUME Inv, mode = "up", Pipeline PROVE Inv'
<1> USE DEF Inv, TypeOK, ChildrenAt, LineAt, PidAt, EndsAt, StreamsAt, NoChild, Alive, Children,
            Ends, ShellPCs, ChildPCs, lineVars, childVars, pipeVars, ShellGoto, Shell
<1>1. CASE MakePipe
  <2>1. \A i \in Children : Streams(i)' <=> Streams(i)
    BY <1>1, StreamsKept DEF MakePipe
  <2> QED
    BY <1>1, <2>1, PipeAssumption DEF MakePipe, EndsOf
<1>2. ASSUME NEW i \in Children, NEW next \in {"fork2", "closeRead"}, ForkStage(i, next),
             (i = 1 /\ next = "fork2" /\ spc = "fork1") \/ (i = 2 /\ next = "closeRead" /\ spc = "fork2")
      PROVE  Inv'
  <2>1. \A j \in Children : Streams(j)' <=> Streams(j)
    BY <1>2, StreamsKept DEF ForkStage
  <2>2. CASE UNCHANGED <<procs, ends>>
    BY <1>2, <2>1, <2>2 DEF ForkStage
  <2>3. CASE /\ procs' = [procs EXCEPT ![i] = "close"]
             /\ ends' = ends \cup {<<i, e>> : e \in {f \in Ends : <<Shell, f>> \in ends}}
    <3>1. procs' = [procs EXCEPT ![i] = "close"]
      BY <2>3
    <3>2. spc' = next /\ UNCHANGED <<mode, pid, lineVars, stdin, stdout, inPipe>>
      BY <1>2 DEF ForkStage
    <3>3. \A p \in Children \cup {Shell} : \A e \in Ends : <<p, e>> \in ends' =>
              <<p, e>> \in ends \/ p = i
      BY <2>3, CopiedEnds
    <3>4. ends' \subseteq (Children \cup {Shell}) \X Ends
      <4>1. \A f \in Ends : <<i, f>> \in (Children \cup {Shell}) \X Ends
        OBVIOUS
      <4>2. {<<i, e>> : e \in {f \in Ends : <<Shell, f>> \in ends}}
              \subseteq (Children \cup {Shell}) \X Ends
        BY <4>1
      <4>3. ends \subseteq (Children \cup {Shell}) \X Ends
        OBVIOUS
      <4> QED
        BY <2>3, <4>2, <4>3
    <3>5. \A j \in Children : \A e \in Ends : <<j, e>> \in ends' =>
              Alive(j)' /\ (procs'[j] # "close" => e # Unneeded(j))
      BY <3>1, <3>3
    <3> QED
      BY <1>2, <2>1, <3>1, <3>2, <3>3, <3>4, <3>5
  <2> QED
    BY <1>2, <2>2, <2>3 DEF ForkStage
<1>3. CASE CloseRead \/ CloseWrite
  <2>1. \A i \in Children : Streams(i)' <=> Streams(i)
    BY <1>3, StreamsKept DEF CloseRead, CloseWrite, CloseShellEnd
  <2> QED
    BY <1>3, <2>1 DEF CloseRead, CloseWrite, CloseShellEnd
<1>4. ASSUME NEW next \in {"wait2", "reset"}, Reap(next),
             (spc = "wait1" /\ next = "wait2") \/ (spc = "wait2" /\ next = "reset")
      PROVE  Inv'
  <2>1. PICK i \in Children :
           /\ procs[i] = "zombie"
           /\ procs' = [procs EXCEPT ![i] = "reaped"]
           /\ stdin' = [stdin EXCEPT ![i] = "tty"]
           /\ stdout' = [stdout EXCEPT ![i] = "tty"]
    BY <1>4 DEF Reap
  <2>2. \A j \in Children \ {i} : Streams(j)' <=> Streams(j)
    BY <1>4, <2>1, StreamsKept DEF Reap
  <2> QED
    BY <1>4, <2>1, <2>2 DEF Reap
<1>5. CASE Wait1 /\ NoChild /\ Exit /\ UNCHANGED <<spc, pid, lineVars, childVars, inPipe>>
  <2>1. \A i \in Children : Streams(i)' <=> Streams(i)
    BY <1>5, StreamsKept
  <2> QED
    BY <1>5, <2>1 DEF Exit, EndsOf
<1>6. CASE Wait2 /\ NoChild /\ spc' = "wait1" /\ UNCHANGED <<mode, pid, lineVars, childVars, pipeVars>>
  <2>1. \A i \in Children : Streams(i)' <=> Streams(i)
    BY <1>6, StreamsKept
  <2> QED
    BY <1>6, <2>1 DEF Wait2
<1> QED
  BY <1>1, <1>2, <1>3, <1>4, <1>5, <1>6 DEF Pipeline, Fork1, Fork2, Wait1, Wait2

-----------------------------------------------------------------------------
(* The children *)

\* A child ends, whatever of it, and leaves its ends of the pipe.
LEMMA DieStep ==
    ASSUME Inv, NEW i \in Children, Alive(i) \/ procs[i] = "zombie", Die(i),
           UNCHANGED <<shellVars, stdin, stdout>>, inPipe' \in 0 .. PipeCap
    PROVE  Inv'
<1> USE DEF Inv, TypeOK, ChildrenAt, LineAt, PidAt, EndsAt, StreamsAt, NoChild, Alive, Children,
            Ends, ShellPCs, ChildPCs, lineVars, shellVars, Shell
<1>1. \A j \in Children : Streams(j)' <=> Streams(j)
  BY StreamsKept
<1>2. procs' = [procs EXCEPT ![i] = "zombie"]
  BY DEF Die
<1>3. /\ ends' \subseteq ends
      /\ \A e \in Ends : <<i, e>> \notin ends'
  BY DEF Die, EndsOf
<1>4. spc' = spc /\ version' = version /\ mode' = mode /\ pid' = pid /\ line' = line
      /\ command' = command /\ stdin' = stdin /\ stdout' = stdout
  OBVIOUS
<1>5. TypeOK'
  BY <1>2, <1>3, <1>4
<1>6. ChildrenAt' /\ LineAt' /\ PidAt'
  BY <1>2, <1>4
<1>7. EndsAt'
  BY <1>2, <1>3, <1>4
<1>8. StreamsAt'
  BY <1>1, <1>2, <1>4
<1> QED
  BY <1>5, <1>6, <1>7, <1>8

LEMMA PrepareStep == ASSUME Inv, NEW i \in Children, Prepare(i) PROVE Inv'
<1> USE DEF Inv, TypeOK, ChildrenAt, LineAt, PidAt, EndsAt, StreamsAt, NoChild, Alive, Children,
            Ends, ShellPCs, ChildPCs, lineVars, shellVars, pipeVars, Shell
<1>0. /\ command.flag \in {0, 1} /\ (version = "2a" => command.flag = 0)
      /\ StageOf(i).outs \in Nat /\ StageOf(i).ins \in Nat
  BY CommandIs DEF StageOf
<1>1. CASE CloseEnd(i)
  <2>1. \A j \in Children : Streams(j)' <=> Streams(j)
    BY <1>1, StreamsKept DEF CloseEnd
  <2> QED
    BY <1>1, <2>1 DEF CloseEnd
<1>2. ASSUME procs[i] = "setup", ~Invalid(i), procs' = [procs EXCEPT ![i] = "exec"], ends' = ends,
             stdin' \in {stdin, [stdin EXCEPT ![i] = Redirected(i).in]},
             stdout' \in {stdout, [stdout EXCEPT ![i] = Redirected(i).out]},
             version = "2b" => /\ stdin' = [stdin EXCEPT ![i] = Redirected(i).in]
                               /\ stdout' = [stdout EXCEPT ![i] = Redirected(i).out],
             UNCHANGED <<shellVars, inPipe>>
      PROVE  Inv'
  <2>1. \A j \in Children \ {i} : Streams(j)' <=> Streams(j)
    BY <1>2, StreamsKept
  <2>2. Redirected(i).in \in {"tty", "file", "pipe"} /\ Redirected(i).out \in {"tty", "file", "pipe"}
    BY DEF Redirected
  <2>3. TypeOK'
    BY <1>2, <2>2
  <2>4. Streams(i)'
    BY <1>0, <1>2 DEF Streams, Invalid, Redirected, StageOf
  <2>5. ChildrenAt' /\ LineAt' /\ PidAt'
    BY <1>2
  <2>6. EndsAt'
    BY <1>2
  <2>7. StreamsAt'
    BY <1>2, <2>1, <2>4
  <2> QED
    BY <2>3, <2>5, <2>6, <2>7
<1>3. CASE Setup(i)
  <2>1. CASE Die(i) /\ UNCHANGED <<stdin, stdout>>
    BY <1>3, <2>1, DieStep DEF Setup
  <2>2. CASE /\ ~Invalid(i)
             /\ procs' = [procs EXCEPT ![i] = "exec"]
             /\ stdin' = [stdin EXCEPT ![i] = Redirected(i).in]
             /\ stdout' = [stdout EXCEPT ![i] = Redirected(i).out]
             /\ UNCHANGED ends
    BY <1>2, <1>3, <2>2 DEF Setup
  <2> QED
    BY <1>3, <2>1, <2>2 DEF Setup
<1>4. CASE SetupPlain(i)
  BY <1>2, <1>4 DEF SetupPlain
<1>5. CASE Exec(i)
  <2>1. CASE Die(i)
    BY <1>5, <2>1, DieStep DEF Exec
  <2>2. CASE procs' = [procs EXCEPT ![i] = "running"] /\ UNCHANGED ends
    <3>1. \A j \in Children : Streams(j)' <=> Streams(j)
      BY <1>5, StreamsKept DEF Exec
    <3> QED
      BY <1>5, <2>2, <3>1 DEF Exec
  <2> QED
    BY <1>5, <2>1, <2>2 DEF Exec
<1> QED
  BY <1>1, <1>3, <1>4, <1>5 DEF Prepare

LEMMA CommandStep == ASSUME Inv, NEW i \in Children, Write(i) \/ Read(i) \/ Finish(i) PROVE Inv'
<1>1. procs[i] = "running" /\ Alive(i) /\ UNCHANGED <<shellVars, stdin, stdout>>
  BY DEF Write, Read, Finish, Alive
<1>2. inPipe' \in 0 .. PipeCap
  BY PipeAssumption DEF Write, Read, Finish, Inv, TypeOK
<1>3. CASE Die(i)
  BY <1>1, <1>2, <1>3, DieStep
<1>4. CASE UNCHANGED <<procs, ends>>
  <2>1. \A j \in Children : Streams(j)' <=> Streams(j)
    BY <1>1, StreamsKept DEF shellVars, lineVars
  <2> QED
    BY <1>1, <1>2, <1>4, <2>1 DEF Inv, TypeOK, ChildrenAt, LineAt, PidAt, EndsAt, StreamsAt,
          NoChild, Alive, lineVars, shellVars
<1> QED
  BY <1>3, <1>4 DEF Write, Read, Finish

LEMMA SigintStep == ASSUME Inv, SigintHandler PROVE Inv'
<1>1. CASE pid \in {0, -1}
  <2>1. UNCHANGED vars
    BY <1>1 DEF SigintHandler, vars, shellVars, childVars, pipeVars
  <2>2. \A j \in Children : Streams(j)' <=> Streams(j)
    BY <2>1, StreamsKept DEF vars, shellVars, lineVars, childVars
  <2> QED
    BY <2>1, <2>2 DEF vars, Inv, TypeOK, ChildrenAt, LineAt, PidAt, EndsAt, StreamsAt,
          NoChild, Alive, lineVars, shellVars, childVars, pipeVars
<1>2. CASE pid = 1 /\ procs[1] = "reaped"
  <2>1. Exit /\ UNCHANGED <<spc, pid, lineVars, childVars, inPipe>>
    BY <1>2 DEF SigintHandler, childVars
  <2>2. \A j \in Children : Streams(j)' <=> Streams(j)
    BY <2>1, StreamsKept DEF lineVars, childVars
  <2> QED
    BY <2>1, <2>2 DEF Exit, EndsOf, Inv, TypeOK, ChildrenAt, LineAt, PidAt, EndsAt, StreamsAt,
          NoChild, Alive, lineVars, childVars, Shell, Children, Ends
<1>3. CASE pid = 1 /\ procs[1] # "reaped"
  <2>1. Die(1) /\ UNCHANGED <<shellVars, stdin, stdout, inPipe>>
    BY <1>3 DEF SigintHandler, shellVars
  <2>2. Alive(1) \/ procs[1] = "zombie"
    BY <1>3 DEF Inv, TypeOK, PidAt, ChildrenAt, NoChild, Alive, Children, ChildPCs
  <2>3. 1 \in Children /\ inPipe' \in 0 .. PipeCap
    BY <2>1 DEF Inv, TypeOK, Children
  <2> QED
    BY <2>1, <2>2, <2>3, DieStep
<1> QED
  BY <1>1, <1>2, <1>3 DEF Inv, TypeOK

LEMMA InvStep == Inv /\ [Next]_vars => Inv'
<1> SUFFICES ASSUME Inv, [Next]_vars PROVE Inv'
  OBVIOUS
<1>1. CASE Prompt
  BY <1>1, PromptStep
<1>2. CASE ExecuteLine
  BY <1>2, SingleStep, PipelineStep DEF ExecuteLine
<1>3. CASE \E i \in Children : Prepare(i) \/ Write(i) \/ Read(i) \/ Finish(i)
  BY <1>3, PrepareStep, CommandStep
<1>4. CASE SigintHandler
  BY <1>4, SigintStep
<1>5. CASE UNCHANGED vars
  <2>1. \A j \in Children : Streams(j)' <=> Streams(j)
    BY <1>5, StreamsKept DEF vars, shellVars, lineVars, childVars
  <2> QED
    BY <1>5, <2>1 DEF vars, Inv, TypeOK, ChildrenAt, LineAt, PidAt, EndsAt, StreamsAt,
          NoChild, Alive, lineVars, shellVars, childVars, pipeVars
<1> QED
  BY <1>1, <1>2, <1>3, <1>4, <1>5 DEF Next, Over

LEMMA InvAlways == Spec => []Inv
  BY InitInv, InvStep, PTL DEF Spec

-----------------------------------------------------------------------------

\* The variables keep the values that the program gives them; in particular
\* command is always what the parser makes of some line.
THEOREM TypeCorrect == Spec => []TypeOK
<1>1. Inv => TypeOK
  BY DEF Inv
<1> QED
  BY <1>1, InvAlways, PTL

\* However the line, the forks and the commands went and whatever signals came,
\* nothing of a line is left when the shell prompts for the next one.
THEOREM PromptClean == Spec => []PromptIsClean
<1>1. Inv => PromptIsClean
  <2> SUFFICES ASSUME Inv, mode = "up", spc = "prompt" PROVE NoChild /\ ends = {} /\ pid = 0
    BY DEF PromptIsClean
  <2>1. NoChild
    BY DEF Inv, ChildrenAt
  <2>2. \A i \in Children \cup {Shell} : \A e \in Ends : <<i, e>> \notin ends
    BY <2>1 DEF Inv, EndsAt, NoChild, Alive
  <2>3. ends \subseteq (Children \cup {Shell}) \X Ends
    BY DEF Inv, TypeOK
  <2>4. pid = 0
    BY DEF Inv, TypeOK, PidAt
  <2> QED
    BY <2>1, <2>2, <2>3, <2>4
<1> QED
  BY <1>1, InvAlways, PTL

\* Every command runs with the streams its line asks for, and in a pipeline
\* without the end of the pipe that it does not use.
THEOREM StreamsCorrect == Spec => []StreamsAsTyped
<1>1. Inv => StreamsAsTyped
  <2> SUFFICES ASSUME Inv, NEW i \in Children, procs[i] = "running"
               PROVE  /\ Streams(i)
                      /\ i = 1 => <<i, "read">> \notin ends
                      /\ i = 2 => <<i, "write">> \notin ends
    BY DEF StreamsAsTyped, Streams
  <2>1. Streams(i)
    BY DEF Inv, StreamsAt
  <2>2. <<i, Unneeded(i)>> \notin ends
    BY DEF Inv, EndsAt, Ends, Unneeded
  <2> QED
    BY <2>1, <2>2 DEF Unneeded
<1> QED
  BY <1>1, InvAlways, PTL

\* The tokens of a line of any length are its text without the spaces, and,
\* unless a delimiter is hidden behind a space, those the README describes.
THEOREM TokensCorrect == Spec => []TokensAsDescribed
<1>1. Inv => TokensAsDescribed
  <2> SUFFICES ASSUME Inv, spc = "parse"
               PROVE  /\ FlattenSeq(Tokens(line)) = WithoutSpaces(line)
                      /\ ~Hidden(line) => Tokens(line) = Described(line)
    BY DEF TokensAsDescribed
  <2>1. line \in Seq(STRING)
    BY LinesAreText DEF Inv, LineAt
  <2> QED
    BY <2>1, TextIs, DescribedIs
<1> QED
  BY <1>1, InvAlways, PTL

\* In either version the parser counts every argument and every name of a
\* line of any length once, in its stage and as what its sign says.
THEOREM EachCountedOnce == Spec => []CountedOnce
<1>1. Inv => CountedOnce
  <2> SUFFICES ASSUME Inv, spc = "parse" PROVE CountsOnce(version, line)
    BY DEF CountedOnce
  <2>1. version \in {"2a", "2b"} /\ line \in Seq(STRING)
    BY LinesAreText DEF Inv, TypeOK, LineAt
  <2> QED
    BY <2>1, CountedIs
<1> QED
  BY <1>1, InvAlways, PTL

\* What ends the shell: the end of the input, a fork() that failed, or a SIGINT
\* between wait() and pid = 0 of a single command.
THEOREM ShellEndsForAReason == Spec => ShellSurvives
<1> DEFINE Survives == (mode = "up" /\ mode' = "exited") =>
         \/ spc \in {"prompt", "failed"}
         \/ spc = "wait1" /\ \E i \in Children : procs[i] = "none"
         \/ spc = "reset" /\ command.flag = 0 /\ procs[1] = "reaped"
<1>1. ASSUME Inv, [Next]_vars PROVE [Survives]_vars
  <2> SUFFICES ASSUME mode = "up", mode' = "exited" PROVE Survives
    OBVIOUS
  <2>1. CASE Prompt
    BY <2>1 DEF Prompt, ReadLine, EndOfInput, ParseLine
  <2>2. CASE ExecuteLine
    <3>1. CASE ForkFailed
      BY <3>1 DEF ForkFailed
    <3>2. CASE Wait1 /\ NoChild
      BY <1>1, <3>2 DEF Wait1, Inv, ChildrenAt, NoChild, Children
    <3>3. CASE Single /\ ~ForkFailed
      BY <3>3 DEF Single, Fork, AssignPid, Wait, Reap, ResetPid
    <3>4. CASE Pipeline /\ ~ (Wait1 /\ NoChild)
      BY <3>4 DEF Pipeline, MakePipe, Fork1, Fork2, ForkStage, CloseRead, CloseWrite, CloseShellEnd,
            Wait1, Wait2, Reap
    <3> QED
      BY <2>2, <3>1, <3>2, <3>3, <3>4 DEF ExecuteLine
  <2>3. CASE \E i \in Children : Prepare(i) \/ Write(i) \/ Read(i) \/ Finish(i)
    BY <2>3 DEF Prepare, CloseEnd, Setup, SetupPlain, Exec, Write, Read, Finish, shellVars
  <2>4. CASE SigintHandler
    <3>1. pid = 1 /\ procs[1] = "reaped"
      BY <1>1, <2>4 DEF SigintHandler, Inv, TypeOK
    <3> QED
      BY <1>1, <3>1 DEF Inv, PidAt, ChildrenAt
  <2>5. CASE UNCHANGED vars
    BY <2>5 DEF vars, shellVars
  <2> QED
    BY <1>1, <2>1, <2>2, <2>3, <2>4, <2>5 DEF Next, Over
<1> QED
  BY <1>1, InvAlways, PTL DEF Spec, ShellSurvives
=============================================================================
