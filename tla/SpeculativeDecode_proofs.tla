---------------------- MODULE SpeculativeDecode_proofs ----------------------
(***************************************************************************)
(* Proofs about the generators of SpeculativeDecode.                       *)
(***************************************************************************)
EXTENDS SpeculativeDecode, OrderLists_proofs

\* The verifier chooses a token of the vocabulary whatever it attended to.
VerifierChooses == \A rows \in Seq(RowSet) : Argmax(rows) \in Token

\* Each token of answer is the verifier's own choice after prompt and the ones before.
Exact(prompt, answer) ==
    \A i \in 1 .. Len(answer) :
        answer[i] = Greedy(prompt \o SubSeq(answer, 1, i - 1))

\* ids are the verifier's choices after context and each prefix of candidates.
IdsExact(context, cands, ids) ==
    /\ ids \in Seq(Token)
    /\ Len(ids) \in 1 .. Len(cands) + 1
    /\ \A i \in 1 .. Len(ids) :
          ids[i] = Greedy(context \o SubSeq(cands, 1, i - 1))

-----------------------------------------------------------------------------
(***************************************************************************)
(* Sequences, rows and forward passes.                                     *)
(***************************************************************************)
\* The first n of a sequence.
LEMMA Prefix ==
  ASSUME NEW S, NEW s \in Seq(S), NEW n \in 0 .. Len(s)
  PROVE  /\ SubSeq(s, 1, n) \in Seq(S)
         /\ Len(SubSeq(s, 1, n)) = n
         /\ \A i \in 1 .. n : SubSeq(s, 1, n)[i] = s[i]
  BY SubSeqProperties

\* Appending is concatenation, and what it gives.
LEMMA AppendFacts ==
  ASSUME NEW S, NEW s \in Seq(S), NEW t \in S
  PROVE  /\ Append(s, t) \in Seq(S)
         /\ Len(Append(s, t)) = Len(s) + 1
         /\ \A i \in 1 .. Len(s) : Append(s, t)[i] = s[i]
         /\ Append(s, t)[Len(s) + 1] = t
  OBVIOUS

\* A prefix that reaches into the second of two sequences.
LEMMA PrefixOfConcat ==
  ASSUME NEW S, NEW a \in Seq(S), NEW b \in Seq(S), NEW n \in 0 .. Len(b)
  PROVE  SubSeq(a \o b, 1, Len(a) + n) = a \o SubSeq(b, 1, n)
<1>1. a \o b \in Seq(S) /\ Len(a \o b) = Len(a) + Len(b)
  BY ConcatProperties
<1>2. SubSeq(b, 1, n) \in Seq(S) /\ Len(SubSeq(b, 1, n)) = n
      /\ \A i \in 1 .. n : SubSeq(b, 1, n)[i] = b[i]
  BY Prefix
<1>3. Len(a) + n \in 0 .. Len(a \o b)
  BY <1>1
<1>4. SubSeq(a \o b, 1, Len(a) + n) \in Seq(S)
      /\ Len(SubSeq(a \o b, 1, Len(a) + n)) = Len(a) + n
      /\ \A i \in 1 .. Len(a) + n : SubSeq(a \o b, 1, Len(a) + n)[i] = (a \o b)[i]
  BY <1>1, <1>3, Prefix
<1>5. a \o SubSeq(b, 1, n) \in Seq(S) /\ Len(a \o SubSeq(b, 1, n)) = Len(a) + n
  BY <1>2, ConcatProperties
<1>6. ASSUME NEW i \in 1 .. Len(a) + n
      PROVE  SubSeq(a \o b, 1, Len(a) + n)[i] = (a \o SubSeq(b, 1, n))[i]
  <2>1. CASE i <= Len(a)
    BY <2>1, <1>1, <1>2, <1>4, <1>5, ConcatProperties
  <2>2. CASE i > Len(a)
    <3>1. i - Len(a) \in 1 .. n
      BY <2>2
    <3>2. (a \o b)[i] = b[i - Len(a)]
      BY <2>2, <1>1
    <3>3. (a \o SubSeq(b, 1, n))[i] = SubSeq(b, 1, n)[i - Len(a)]
      BY <2>2, <1>2, <1>5
    <3> QED
      BY <3>1, <3>2, <3>3, <1>2, <1>4
  <2> QED
    BY <2>1, <2>2
<1> QED
  BY <1>4, <1>5, <1>6, SeqEqual

\* A prefix that ends within the first of two sequences.
LEMMA PrefixOfFirst ==
  ASSUME NEW S, NEW a \in Seq(S), NEW b \in Seq(S), NEW n \in 0 .. Len(a)
  PROVE  SubSeq(a \o b, 1, n) = SubSeq(a, 1, n)
<1>1. a \o b \in Seq(S) /\ Len(a \o b) = Len(a) + Len(b)
  BY ConcatProperties
<1>2. n \in 0 .. Len(a \o b)
  BY <1>1
<1>3. /\ SubSeq(a \o b, 1, n) \in Seq(S) /\ Len(SubSeq(a \o b, 1, n)) = n
      /\ \A i \in 1 .. n : SubSeq(a \o b, 1, n)[i] = (a \o b)[i]
  BY <1>1, <1>2, Prefix
<1>4. /\ SubSeq(a, 1, n) \in Seq(S) /\ Len(SubSeq(a, 1, n)) = n
      /\ \A i \in 1 .. n : SubSeq(a, 1, n)[i] = a[i]
  BY Prefix
<1>5. \A i \in 1 .. n : (a \o b)[i] = a[i]
  OBVIOUS
<1> QED
  BY <1>3, <1>4, <1>5, SeqEqual

\* A prefix of a prefix.
LEMMA PrefixOfPrefix ==
  ASSUME NEW S, NEW s \in Seq(S), NEW n \in 0 .. Len(s), NEW m \in 0 .. n
  PROVE  SubSeq(SubSeq(s, 1, n), 1, m) = SubSeq(s, 1, m)
<1>1. /\ SubSeq(s, 1, n) \in Seq(S) /\ Len(SubSeq(s, 1, n)) = n
      /\ \A i \in 1 .. n : SubSeq(s, 1, n)[i] = s[i]
  BY Prefix
<1>2. m \in 0 .. Len(s) /\ m \in 0 .. Len(SubSeq(s, 1, n))
  BY <1>1
<1>3. /\ SubSeq(s, 1, m) \in Seq(S) /\ Len(SubSeq(s, 1, m)) = m
      /\ \A i \in 1 .. m : SubSeq(s, 1, m)[i] = s[i]
  BY <1>2, Prefix
<1>4. /\ SubSeq(SubSeq(s, 1, n), 1, m) \in Seq(S)
      /\ Len(SubSeq(SubSeq(s, 1, n), 1, m)) = m
      /\ \A i \in 1 .. m : SubSeq(SubSeq(s, 1, n), 1, m)[i] = SubSeq(s, 1, n)[i]
  BY <1>1, <1>2, Prefix
<1>5. \A i \in 1 .. m : SubSeq(SubSeq(s, 1, n), 1, m)[i] = SubSeq(s, 1, m)[i]
  BY <1>1, <1>3, <1>4
<1> QED
  BY <1>3, <1>4, <1>5, SeqEqual

RowAt(t, i) == [token |-> t, position |-> i]

\* Rows are rows, as many as there are tokens.
LEMMA RowsFacts ==
  ASSUME NEW tokens \in Seq(Token), NEW off \in Nat
  PROVE  /\ Rows(tokens, off) \in Seq(RowSet)
         /\ Len(Rows(tokens, off)) = Len(tokens)
         /\ \A i \in 1 .. Len(tokens) :
               Rows(tokens, off)[i] = RowAt(tokens[i], off + i - 1)
<1>1. ASSUME NEW i \in 1 .. Len(tokens)
      PROVE  RowAt(tokens[i], off + i - 1) \in RowSet
  BY DEF RowSet, RowAt
<1> QED
  BY <1>1, IsASeq DEF Rows, RowAt

LEMMA RowsFromStart ==
  ASSUME NEW tokens \in Seq(Token)
  PROVE  /\ Rows(tokens, 0) \in Seq(RowSet)
         /\ Len(Rows(tokens, 0)) = Len(tokens)
         /\ \A i \in 1 .. Len(tokens) : Rows(tokens, 0)[i] = RowAt(tokens[i], i - 1)
<1>1. \A i \in 1 .. Len(tokens) : 0 + i - 1 = i - 1
  OBVIOUS
<1> QED
  BY <1>1, RowsFacts

\* Rows of tokens that follow others continue their positions.
LEMMA RowsConcat ==
  ASSUME NEW a \in Seq(Token), NEW b \in Seq(Token)
  PROVE  Rows(a \o b, 0) = Rows(a, 0) \o Rows(b, Len(a))
<1>1. a \o b \in Seq(Token) /\ Len(a \o b) = Len(a) + Len(b)
  BY ConcatProperties
<1>2. /\ Rows(a \o b, 0) \in Seq(RowSet) /\ Len(Rows(a \o b, 0)) = Len(a) + Len(b)
      /\ \A i \in 1 .. Len(a) + Len(b) :
            Rows(a \o b, 0)[i] = RowAt((a \o b)[i], i - 1)
  BY <1>1, RowsFromStart
<1>3. /\ Rows(a, 0) \in Seq(RowSet) /\ Len(Rows(a, 0)) = Len(a)
      /\ \A i \in 1 .. Len(a) : Rows(a, 0)[i] = RowAt(a[i], i - 1)
  BY RowsFromStart
<1>4. /\ Rows(b, Len(a)) \in Seq(RowSet) /\ Len(Rows(b, Len(a))) = Len(b)
      /\ \A i \in 1 .. Len(b) :
            Rows(b, Len(a))[i] = RowAt(b[i], Len(a) + i - 1)
  BY RowsFacts
<1>5. ASSUME NEW i \in 1 .. Len(a) + Len(b)
      PROVE  Rows(a \o b, 0)[i] = (Rows(a, 0) \o Rows(b, Len(a)))[i]
  <2>1. CASE i <= Len(a)
    BY <2>1, <1>1, <1>2, <1>3, <1>4
  <2>2. CASE i > Len(a)
    <3>1. i - Len(a) \in 1 .. Len(b) /\ Len(a) + (i - Len(a)) - 1 = i - 1
      BY <2>2
    <3>2. (Rows(a, 0) \o Rows(b, Len(a)))[i] = Rows(b, Len(a))[i - Len(a)]
      BY <2>2, <1>3, <1>4
    <3>3. (a \o b)[i] = b[i - Len(a)]
      BY <2>2
    <3> QED
      BY <3>1, <3>2, <3>3, <1>2, <1>4
  <2>3. i <= Len(a) \/ i > Len(a)
    OBVIOUS
  <2> QED
    BY <2>1, <2>2, <2>3
<1>6. /\ Rows(a, 0) \o Rows(b, Len(a)) \in Seq(RowSet)
      /\ Len(Rows(a, 0) \o Rows(b, Len(a))) = Len(a) + Len(b)
  <2>1. Rows(a, 0) \in Seq(RowSet) /\ Len(Rows(a, 0)) = Len(a)
    BY <1>3
  <2>2. Rows(b, Len(a)) \in Seq(RowSet) /\ Len(Rows(b, Len(a))) = Len(b)
    BY <1>4
  <2>3. Rows(a, 0) \o Rows(b, Len(a)) \in Seq(RowSet)
    BY <2>1, <2>2
  <2>4. Len(Rows(a, 0) \o Rows(b, Len(a))) = Len(Rows(a, 0)) + Len(Rows(b, Len(a)))
    BY <2>1, <2>2
  <2> QED
    BY <2>1, <2>2, <2>3, <2>4
<1> QED
  BY <1>2, <1>5, <1>6, SeqEqual

\* The first rows are the rows of the first tokens.
LEMMA RowsPrefix ==
  ASSUME NEW a \in Seq(Token), NEW n \in 0 .. Len(a)
  PROVE  SubSeq(Rows(a, 0), 1, n) = Rows(SubSeq(a, 1, n), 0)
<1>1. /\ Rows(a, 0) \in Seq(RowSet) /\ Len(Rows(a, 0)) = Len(a)
      /\ \A i \in 1 .. Len(a) : Rows(a, 0)[i] = RowAt(a[i], i - 1)
  BY RowsFromStart
<1>2. /\ SubSeq(a, 1, n) \in Seq(Token) /\ Len(SubSeq(a, 1, n)) = n
      /\ \A i \in 1 .. n : SubSeq(a, 1, n)[i] = a[i]
  BY Prefix
<1>3. /\ Rows(SubSeq(a, 1, n), 0) \in Seq(RowSet) /\ Len(Rows(SubSeq(a, 1, n), 0)) = n
      /\ \A i \in 1 .. n : Rows(SubSeq(a, 1, n), 0)[i] =
                              RowAt(SubSeq(a, 1, n)[i], i - 1)
  BY <1>2, RowsFromStart
<1>4. /\ SubSeq(Rows(a, 0), 1, n) \in Seq(RowSet) /\ Len(SubSeq(Rows(a, 0), 1, n)) = n
      /\ \A i \in 1 .. n : SubSeq(Rows(a, 0), 1, n)[i] = Rows(a, 0)[i]
  BY <1>1, Prefix
<1>5. \A i \in 1 .. n : SubSeq(Rows(a, 0), 1, n)[i] = Rows(SubSeq(a, 1, n), 0)[i]
  BY <1>1, <1>2, <1>3, <1>4
<1> QED
  BY <1>3, <1>4, <1>5, SeqEqual

\* A cut of the rows leaves those of the tokens that are kept.
LEMMA KeepRows ==
  ASSUME NEW a \in Seq(Token), NEW b \in Seq(Token), NEW n \in 0 .. Len(b)
  PROVE  Keep(Rows(a \o b, 0), Len(a) + n) = Rows(a \o SubSeq(b, 1, n), 0)
<1>1. a \o b \in Seq(Token) /\ Len(a \o b) = Len(a) + Len(b)
  BY ConcatProperties
<1>2. Len(Rows(a \o b, 0)) = Len(a) + Len(b)
  BY <1>1, RowsFromStart
<1>3. Least(Len(a) + n, Len(Rows(a \o b, 0))) = Len(a) + n
  BY <1>2 DEF Least
<1>4. SubSeq(Rows(a \o b, 0), 1, Len(a) + n) = Rows(SubSeq(a \o b, 1, Len(a) + n), 0)
  <2>1. Len(a) + n \in 0 .. Len(a \o b)
    BY <1>1
  <2> QED
    BY <1>1, <2>1, RowsPrefix
<1> QED
  BY <1>3, <1>4, PrefixOfConcat DEF Keep

\* A cut of rows is rows, and not more than there were.
LEMMA KeepFacts ==
  ASSUME NEW S, NEW s \in Seq(S), NEW n \in Nat
  PROVE  /\ Keep(s, n) \in Seq(S)
         /\ Len(Keep(s, n)) = Least(n, Len(s))
         /\ Len(Keep(s, n)) <= n
         /\ Least(n, Len(s)) \in 0 .. Len(s)
         /\ Keep(s, n) = SubSeq(s, 1, Least(n, Len(s)))
<1>1. Len(s) \in Nat
  OBVIOUS
<1>2. Least(n, Len(s)) \in 0 .. Len(s) /\ Least(n, Len(s)) <= n
  BY <1>1 DEF Least
<1> QED
  BY <1>2, Prefix DEF Keep

\* A forward pass chooses a token after each of those it ran.
LEMMA PredictedType ==
  ASSUME VerifierChooses, NEW past \in Seq(RowSet), NEW off \in Nat,
         NEW tokens \in Seq(Token)
  PROVE  /\ Predicted(past, off, tokens) \in Seq(Token)
         /\ Len(Predicted(past, off, tokens)) = Len(tokens)
<1>1. ASSUME NEW i \in 1 .. Len(tokens)
      PROVE  Argmax(past \o Rows(SubSeq(tokens, 1, i), off)) \in Token
  <2>1. i \in 0 .. Len(tokens)
    OBVIOUS
  <2>2. SubSeq(tokens, 1, i) \in Seq(Token)
    BY <2>1, Prefix
  <2>3. Rows(SubSeq(tokens, 1, i), off) \in Seq(RowSet)
    BY <2>2, RowsFacts
  <2>4. past \o Rows(SubSeq(tokens, 1, i), off) \in Seq(RowSet)
    BY <2>3
  <2> QED
    BY <2>4 DEF VerifierChooses
<1> QED
  BY <1>1, IsASeq DEF Predicted

\* The verifier's choice after tokens is a token.
LEMMA GreedyType ==
  ASSUME VerifierChooses, NEW tokens \in Seq(Token)
  PROVE  Greedy(tokens) \in Token /\ Greedy(tokens) # NoToken
<1>1. Rows(tokens, 0) \in Seq(RowSet)
  BY RowsFromStart
<1> QED
  BY <1>1, TokenAssumption DEF Greedy, VerifierChooses

\* A pass over the rows of a context chooses what the verifier would choose for
\* the context and each prefix of the tokens from the start.
LEMMA PredictedExact ==
  ASSUME NEW c \in Seq(Token), NEW d \in Seq(Token), NEW i \in 1 .. Len(d)
  PROVE  Predicted(Rows(c, 0), Len(c), d)[i] = Greedy(c \o SubSeq(d, 1, i))
<1>1. i \in 0 .. Len(d)
  OBVIOUS
<1>2. SubSeq(d, 1, i) \in Seq(Token)
  BY <1>1, Prefix
<1>3. Rows(c \o SubSeq(d, 1, i), 0) = Rows(c, 0) \o Rows(SubSeq(d, 1, i), Len(c))
  BY <1>2, RowsConcat
<1> QED
  BY <1>3 DEF Predicted, Greedy

\* The verifier's ids of a pass of d over the rows of c, with its choice after c.
LEMMA IdsOfPass ==
  ASSUME VerifierChooses, NEW c \in Seq(Token), NEW d \in Seq(Token)
  PROVE  /\ IdsExact(c, d, <<Greedy(c)>> \o Predicted(Rows(c, 0), Len(c), d))
         /\ Len(<<Greedy(c)>> \o Predicted(Rows(c, 0), Len(c), d)) = Len(d) + 1
<1> DEFINE p   == Predicted(Rows(c, 0), Len(c), d)
           ids == <<Greedy(c)>> \o p
<1>1. Rows(c, 0) \in Seq(RowSet) /\ Len(c) \in Nat
  BY RowsFromStart
<1>2. p \in Seq(Token) /\ Len(p) = Len(d)
  BY <1>1, PredictedType
<1>3. Greedy(c) \in Token
  BY GreedyType
<1>4. \A i \in 1 .. Len(d) : p[i] = Greedy(c \o SubSeq(d, 1, i))
  BY PredictedExact
<1> HIDE DEF p
<1>5. ids \in Seq(Token) /\ Len(ids) = Len(d) + 1 /\ ids[1] = Greedy(c)
      /\ \A i \in 2 .. Len(ids) : ids[i] = p[i - 1]
  BY <1>2, <1>3
<1>6. ASSUME NEW i \in 1 .. Len(ids)
      PROVE  ids[i] = Greedy(c \o SubSeq(d, 1, i - 1))
  <2>1. CASE i = 1
    <3>1. i - 1 = 0
      BY <2>1
    <3>2. SubSeq(d, 1, 0) = <<>>
      OBVIOUS
    <3>3. c \o SubSeq(d, 1, i - 1) = c
      BY <3>1, <3>2, ConcatEmptySeq
    <3> QED
      BY <1>5, <2>1, <3>3
  <2>2. CASE i # 1
    <3>1. i \in 2 .. Len(ids) /\ i - 1 \in 1 .. Len(d)
      BY <1>5, <2>2
    <3> QED
      BY <1>4, <1>5, <3>1
  <2> QED
    BY <2>1, <2>2
<1> QED
  BY <1>5, <1>6 DEF IdsExact, p

\* The ids after the context in a pass over the context and the candidates.
LEMMA IdsOfWholePass ==
  ASSUME VerifierChooses, NEW c \in Seq(Token), NEW d \in Seq(Token), c # <<>>,
         NEW ids, ids = SubSeq(Predicted(<<>>, 0, c \o d), Len(c), Len(c) + Len(d))
  PROVE  IdsExact(c, d, ids) /\ Len(ids) = Len(d) + 1
<1> DEFINE p == Predicted(<<>>, 0, c \o d)
<1>1. c \o d \in Seq(Token) /\ Len(c \o d) = Len(c) + Len(d)
  BY ConcatProperties
<1>2. p \in Seq(Token) /\ Len(p) = Len(c) + Len(d)
  <2>1. <<>> \in Seq(RowSet) /\ 0 \in Nat
    OBVIOUS
  <2> QED
    BY <1>1, <2>1, PredictedType
<1>3. ASSUME NEW i \in 0 .. Len(d)
      PROVE  p[Len(c) + i] = Greedy(c \o SubSeq(d, 1, i))
  <2>1. Len(c) + i \in 1 .. Len(c \o d)
    BY <1>1
  <2>2. p[Len(c) + i] = Argmax(<<>> \o Rows(SubSeq(c \o d, 1, Len(c) + i), 0))
    BY <2>1 DEF Predicted
  <2>3. SubSeq(c \o d, 1, Len(c) + i) = c \o SubSeq(d, 1, i)
    BY PrefixOfConcat
  <2>4. SubSeq(d, 1, i) \in Seq(Token)
    BY Prefix
  <2>5. Rows(c \o SubSeq(d, 1, i), 0) \in Seq(RowSet)
    BY <2>4, RowsFromStart, ConcatProperties
  <2>6. <<>> \o Rows(c \o SubSeq(d, 1, i), 0) = Rows(c \o SubSeq(d, 1, i), 0)
    BY <2>5, ConcatEmptySeq
  <2> QED
    BY <2>2, <2>3, <2>6 DEF Greedy
<1>4. Len(c) \in Nat \ {0}
  OBVIOUS
<1>5. /\ ids \in Seq(Token) /\ Len(ids) = Len(d) + 1
      /\ \A i \in 1 .. Len(d) + 1 : ids[i] = p[Len(c) + i - 1]
  <2> HIDE DEF p
  <2>1. ids = SubSeq(p, Len(c), Len(c) + Len(d))
    BY DEF p
  <2>2. Len(c) \in 1 .. Len(p) + 1 /\ Len(c) + Len(d) \in Len(c) - 1 .. Len(p)
    BY <1>2, <1>4
  <2>3. /\ SubSeq(p, Len(c), Len(c) + Len(d)) \in Seq(Token)
        /\ Len(SubSeq(p, Len(c), Len(c) + Len(d))) = Len(c) + Len(d) - Len(c) + 1
        /\ \A i \in 1 .. Len(c) + Len(d) - Len(c) + 1 :
              SubSeq(p, Len(c), Len(c) + Len(d))[i] = p[Len(c) + i - 1]
    BY <1>2, <2>2, SubSeqProperties
  <2>4. Len(c) + Len(d) - Len(c) + 1 = Len(d) + 1
    OBVIOUS
  <2> QED
    BY <2>1, <2>3, <2>4
<1>6. ASSUME NEW i \in 1 .. Len(d) + 1
      PROVE  ids[i] = Greedy(c \o SubSeq(d, 1, i - 1))
  <2> HIDE DEF p
  <2>1. i - 1 \in 0 .. Len(d) /\ Len(c) + i - 1 = Len(c) + (i - 1)
    OBVIOUS
  <2> QED
    BY <1>3, <1>5, <2>1
<1> QED
  BY <1>5, <1>6 DEF IdsExact

-----------------------------------------------------------------------------
(***************************************************************************)
(* What agrees is the verifier's own.                                      *)
(***************************************************************************)
\* A set of positive integers with all that lie below its members is an interval.
LEMMA InitialSegment ==
  ASSUME NEW n \in Nat, NEW S \in SUBSET (1 .. n),
         \A i \in S : \A j \in 1 .. i : j \in S
  PROVE  Cardinality(S) \in 0 .. n /\ S = 1 .. Cardinality(S)
<1>1. \A m \in Nat : IsFiniteSet(1 .. m) /\ Cardinality(1 .. m) = m
  BY FS_Interval
<1>2. IsFiniteSet(S) /\ Cardinality(S) \in Nat /\ Cardinality(S) <= n
  <2>1. IsFiniteSet(1 .. n) /\ Cardinality(1 .. n) = n
    BY <1>1
  <2>2. IsFiniteSet(S) /\ Cardinality(S) <= Cardinality(1 .. n)
    BY <2>1, FS_Subset
  <2> QED
    BY <2>1, <2>2, FS_CardinalityType
<1>3. ASSUME NEW i \in S
      PROVE  i <= Cardinality(S)
  <2>1. 1 .. i \subseteq S /\ i \in Nat
    OBVIOUS
  <2> QED
    BY <1>1, <1>2, <2>1, FS_Subset
<1>4. S \subseteq 1 .. Cardinality(S)
  BY <1>2, <1>3
<1>5. S = 1 .. Cardinality(S)
  BY <1>1, <1>2, <1>4, FS_Subset
<1> QED
  BY <1>2, <1>5

\* Agreed counts candidates from the first one that are the verifier's ids.
LEMMA AgreedFacts ==
  ASSUME NEW d \in Seq(Token), NEW ids \in Seq(Token)
  PROVE  /\ Agreed(d, ids) \in 0 .. Len(d) /\ Agreed(d, ids) <= Len(ids)
         /\ \A i \in 1 .. Agreed(d, ids) : d[i] = ids[i]
         /\ (d # <<>> /\ ids # <<>> /\ d[1] = ids[1]) => Agreed(d, ids) >= 1
<1> DEFINE n == Least(Len(d), Len(ids))
           S == {m \in 1 .. n : \A i \in 1 .. m : d[i] = ids[i]}
<1>1. n \in Nat /\ n <= Len(d) /\ n <= Len(ids)
      /\ (d # <<>> /\ ids # <<>> => n >= 1)
  BY DEF Least
<1>2. \A i \in S : \A j \in 1 .. i : j \in S
  BY <1>1
<1>3. S \in SUBSET (1 .. n)
  OBVIOUS
<1> HIDE DEF n
<1>4. Cardinality(S) \in 0 .. n /\ S = 1 .. Cardinality(S)
  <2> HIDE DEF S
  <2> QED
    BY <1>1, <1>2, <1>3, InitialSegment
<1>5. Agreed(d, ids) = Cardinality(S)
  BY DEF Agreed, n
<1>6. \A i \in 1 .. Cardinality(S) : d[i] = ids[i]
  <2>1. \A i \in S : d[i] = ids[i]
    OBVIOUS
  <2> HIDE DEF S
  <2> QED
    BY <2>1, <1>4
<1>7. (d # <<>> /\ ids # <<>> /\ d[1] = ids[1]) => 1 \in S
  BY <1>1
<1> HIDE DEF S
<1> QED
  BY <1>1, <1>4, <1>5, <1>6, <1>7

\* A context extended by the verifier's choice after it stays exact.
LEMMA ExactAppend ==
  ASSUME VerifierChooses, NEW p \in Seq(Token), NEW a \in Seq(Token), Exact(p, a),
         NEW t, t = Greedy(p \o a)
  PROVE  Append(a, t) \in Seq(Token) /\ Exact(p, Append(a, t))
<1>1. t \in Token
  BY GreedyType, ConcatProperties
<1>2. /\ Append(a, t) \in Seq(Token) /\ Len(Append(a, t)) = Len(a) + 1
      /\ \A i \in 1 .. Len(a) : Append(a, t)[i] = a[i]
      /\ Append(a, t)[Len(a) + 1] = t
  BY <1>1, AppendFacts
<1>3. Append(a, t) = a \o <<t>> /\ <<t>> \in Seq(Token)
  BY <1>1, AppendIsConcat
<1>4. ASSUME NEW i \in 1 .. Len(a) + 1
      PROVE  SubSeq(Append(a, t), 1, i - 1) = SubSeq(a, 1, i - 1)
  <2>1. i - 1 \in 0 .. Len(a)
    OBVIOUS
  <2> QED
    BY <1>3, <2>1, PrefixOfFirst
<1>5. ASSUME NEW i \in 1 .. Len(a) + 1
      PROVE  Append(a, t)[i] = Greedy(p \o SubSeq(Append(a, t), 1, i - 1))
  <2>1. CASE i = Len(a) + 1
    <3>1. i - 1 = Len(a)
      BY <2>1
    <3>2. SubSeq(a, 1, Len(a)) = a
      BY SubSeqFull
    <3> QED
      BY <1>2, <1>4, <2>1, <3>1, <3>2
  <2>2. CASE i # Len(a) + 1
    <3>1. i \in 1 .. Len(a)
      BY <2>2
    <3> QED
      BY <1>2, <1>4, <3>1 DEF Exact
  <2> QED
    BY <2>1, <2>2
<1> QED
  BY <1>2, <1>5 DEF Exact

\* The first tokens of an exact answer are exact.
LEMMA ExactPrefix ==
  ASSUME NEW p \in Seq(Token), NEW a \in Seq(Token), Exact(p, a), NEW n \in 0 .. Len(a)
  PROVE  SubSeq(a, 1, n) \in Seq(Token) /\ Exact(p, SubSeq(a, 1, n))
<1>1. /\ SubSeq(a, 1, n) \in Seq(Token) /\ Len(SubSeq(a, 1, n)) = n
      /\ \A i \in 1 .. n : SubSeq(a, 1, n)[i] = a[i]
  BY Prefix
<1>2. ASSUME NEW i \in 1 .. n
      PROVE  SubSeq(a, 1, n)[i] = Greedy(p \o SubSeq(SubSeq(a, 1, n), 1, i - 1))
  <2>1. i - 1 \in 0 .. n /\ i - 1 \in 0 .. Len(a) /\ i \in 1 .. Len(a)
    OBVIOUS
  <2>2. SubSeq(SubSeq(a, 1, n), 1, i - 1) = SubSeq(a, 1, i - 1)
    BY <2>1, PrefixOfPrefix
  <2> QED
    BY <1>1, <2>1, <2>2 DEF Exact
<1> QED
  BY <1>1, <1>2 DEF Exact

\* Candidates that are the verifier's ids extend an exact answer exactly, and so
\* does the id that follows them.
LEMMA ExactExtend ==
  ASSUME VerifierChooses, NEW p \in Seq(Token), NEW a \in Seq(Token), Exact(p, a),
         NEW d \in Seq(Token), NEW ids, IdsExact(p \o a, d, ids),
         NEW n \in 0 .. Len(d), n <= Len(ids), \A i \in 1 .. n : d[i] = ids[i]
  PROVE  /\ a \o SubSeq(d, 1, n) \in Seq(Token)
         /\ Len(a \o SubSeq(d, 1, n)) = Len(a) + n
         /\ Exact(p, a \o SubSeq(d, 1, n))
         /\ n < Len(ids) => /\ ids[n + 1] \in Token
                            /\ ids[n + 1] = Greedy(p \o (a \o SubSeq(d, 1, n)))
                            /\ Exact(p, Append(a \o SubSeq(d, 1, n), ids[n + 1]))
<1> DEFINE e == SubSeq(d, 1, n)
           b == a \o e
<1>0. ASSUME NEW u \in Seq(Token)
      PROVE  (p \o a) \o u = p \o (a \o u)
  BY ConcatAssociative, SMTT(30)
<1>1. e \in Seq(Token) /\ Len(e) = n /\ \A i \in 1 .. n : e[i] = d[i]
  BY Prefix
<1> HIDE DEF e
<1>2. /\ b \in Seq(Token) /\ Len(b) = Len(a) + n
      /\ \A i \in 1 .. Len(a) : b[i] = a[i]
      /\ \A i \in 1 .. n : b[Len(a) + i] = e[i]
  <2>1. b \in Seq(Token) /\ Len(b) = Len(a) + n
    BY <1>1, ConcatProperties
  <2>2. \A i \in 1 .. Len(a) : b[i] = a[i]
    BY <1>1
  <2>3. ASSUME NEW i \in 1 .. n PROVE b[Len(a) + i] = e[i]
    BY <1>1
  <2> QED
    BY <2>1, <2>2, <2>3
<1>3. ASSUME NEW i \in 1 .. n
      PROVE  SubSeq(e, 1, i - 1) = SubSeq(d, 1, i - 1)
  <2>1. i - 1 \in 0 .. n /\ i - 1 \in 0 .. Len(d)
    OBVIOUS
  <2>2. /\ SubSeq(e, 1, i - 1) \in Seq(Token) /\ Len(SubSeq(e, 1, i - 1)) = i - 1
        /\ \A j \in 1 .. i - 1 : SubSeq(e, 1, i - 1)[j] = e[j]
    BY <1>1, <2>1, Prefix
  <2>3. /\ SubSeq(d, 1, i - 1) \in Seq(Token) /\ Len(SubSeq(d, 1, i - 1)) = i - 1
        /\ \A j \in 1 .. i - 1 : SubSeq(d, 1, i - 1)[j] = d[j]
    BY <2>1, Prefix
  <2>4. \A j \in 1 .. i - 1 : e[j] = d[j]
    BY <1>1
  <2> QED
    BY <2>2, <2>3, <2>4, SeqEqual
<1>4. ASSUME NEW i \in 1 .. Len(b)
      PROVE  b[i] = Greedy(p \o SubSeq(b, 1, i - 1))
  <2>1. CASE i <= Len(a)
    <3>1. i \in 1 .. Len(a) /\ i - 1 \in 0 .. Len(a)
      BY <2>1
    <3>2. SubSeq(b, 1, i - 1) = SubSeq(a, 1, i - 1)
      BY <1>1, <3>1, PrefixOfFirst
    <3> QED
      BY <1>2, <3>1, <3>2 DEF Exact
  <2>2. CASE i > Len(a)
    <3> DEFINE j == i - Len(a)
    <3>1. j \in 1 .. n /\ i = Len(a) + j /\ i - 1 = Len(a) + (j - 1)
          /\ j - 1 \in 0 .. n /\ j \in 1 .. Len(ids)
      BY <1>2, <2>2 DEF IdsExact
    <3> HIDE DEF j
    <3>2. SubSeq(b, 1, i - 1) = a \o SubSeq(e, 1, j - 1)
      <4>1. j - 1 \in 0 .. Len(e)
        BY <1>1, <3>1
      <4>2. SubSeq(b, 1, Len(a) + (j - 1)) = a \o SubSeq(e, 1, j - 1)
        BY <1>1, <4>1, PrefixOfConcat
      <4> QED
        BY <3>1, <4>2
    <3>3. b[i] = d[j] /\ d[j] = ids[j]
      BY <1>1, <1>2, <3>1
    <3>4. ids[j] = Greedy((p \o a) \o SubSeq(d, 1, j - 1))
      BY <3>1 DEF IdsExact
    <3>5. SubSeq(d, 1, j - 1) \in Seq(Token)
      <4>1. j - 1 \in 0 .. Len(d)
        BY <3>1
      <4> QED
        BY <4>1, Prefix
    <3>6. (p \o a) \o SubSeq(d, 1, j - 1) = p \o (a \o SubSeq(d, 1, j - 1))
      BY <1>0, <3>5
    <3> QED
      BY <1>3, <3>1, <3>2, <3>3, <3>4, <3>6
  <2> QED
    BY <1>2, <2>1, <2>2
<1>5. Exact(p, b)
  BY <1>4 DEF Exact
<1>6. ASSUME n < Len(ids)
      PROVE  /\ ids[n + 1] \in Token
             /\ ids[n + 1] = Greedy(p \o b)
             /\ Exact(p, Append(b, ids[n + 1]))
  <2>1. n + 1 \in 1 .. Len(ids) /\ ids \in Seq(Token) /\ n + 1 - 1 = n
    BY <1>6 DEF IdsExact
  <2>2. ids[n + 1] = Greedy((p \o a) \o e)
    BY <2>1 DEF IdsExact, e
  <2>3. (p \o a) \o e = p \o b
    BY <1>1, ConcatAssociative, SMTT(30)
  <2> HIDE DEF b
  <2> QED
    BY <1>2, <1>5, <2>1, <2>2, <2>3, ExactAppend
<1> QED
  BY <1>2, <1>5, <1>6 DEF e

LEMMA TokensAssociate ==
  \A x, y, z \in Seq(Token) : (x \o y) \o z = x \o (y \o z)
  BY ConcatAssociative

\* What an answer becomes when tokens join it.
Grows(a, b) == \E x \in Seq(Token) : b = a \o x

LEMMA GrowsFacts ==
  ASSUME NEW a \in Seq(Token), NEW x \in Seq(Token)
  PROVE  /\ Grows(a, a) /\ Grows(a, a \o x)
         /\ \A t \in Token : Grows(a, Append(a, t)) /\ Grows(a, Append(a \o x, t))
<1>1. Grows(a, a)
  <2>1. <<>> \in Seq(Token) /\ a = a \o <<>>
    BY EmptySeq, ConcatEmptySeq
  <2> QED
    BY <2>1 DEF Grows
<1>2. Grows(a, a \o x)
  BY DEF Grows
<1>3. ASSUME NEW t \in Token
      PROVE  Grows(a, Append(a, t)) /\ Grows(a, Append(a \o x, t))
  <2>1. <<t>> \in Seq(Token) /\ Append(a, t) = a \o <<t>>
    BY AppendIsConcat
  <2>2. x \o <<t>> \in Seq(Token) /\ a \o x \in Seq(Token)
    BY <2>1, ConcatProperties
  <2>3. Append(a \o x, t) = a \o (x \o <<t>>)
    <3>1. Append(a \o x, t) = (a \o x) \o <<t>>
      BY <2>2, AppendIsConcat
    <3> QED
      BY <2>1, <3>1, TokensAssociate
  <2> QED
    BY <2>1, <2>2, <2>3 DEF Grows
<1> QED
  BY <1>1, <1>2, <1>3

\* An answer that grew still begins with what it was.
LEMMA GrowsPrefix ==
  ASSUME NEW a \in Seq(Token), NEW b, Grows(a, b)
  PROVE  Len(b) >= Len(a) /\ SubSeq(b, 1, Len(a)) = a
<1>1. PICK x \in Seq(Token) : b = a \o x
  BY DEF Grows
<1>2. Len(a) \in 0 .. Len(a) /\ Len(a \o x) = Len(a) + Len(x)
  BY ConcatProperties
<1>3. SubSeq(a \o x, 1, Len(a)) = SubSeq(a, 1, Len(a))
  BY <1>2, PrefixOfFirst
<1> QED
  BY <1>1, <1>2, <1>3, SubSeqFull

-----------------------------------------------------------------------------
(***************************************************************************)
(* The inductive invariant.                                                *)
(***************************************************************************)
NativeSet == [on : BOOLEAN, rows : Seq(RowSet)]

Shape ==
    /\ req \in Requests
    /\ status \in {"idle", "running", "ready", "blocked"}
    /\ status = "running" <=> pc # "idle"
    /\ generated \in Seq(Token) /\ committed \in Seq(Token)
    /\ kv \in Seq(RowSet)
    /\ nextToken \in Token \cup {NoToken}
    /\ drafts \in Seq(Seq(Token)) /\ ver \in Seq(Seq(Token))
    /\ native \in NativeSet
    /\ position \in Nat /\ served \in 0 .. MaxRequests /\ fault \in BOOLEAN

\* The prefill cache holds what prompts alone give.
PrefillEntries == {PrefillEntry(p, t) : p \in Prompts, t \in BOOLEAN}

PrefillsInv == prefills \in Seq(PrefillEntries) /\ Len(prefills) <= MaxEntries

\* The fields of a pager that its sequences have no part in.
PagerShape(p) ==
    /\ DOMAIN p = {"layers", "lru", "pending", "at", "ahead", "last"}
    /\ DOMAIN p.layers \subseteq Executed /\ p.pending \subseteq Executed
    /\ p.at \in Executed /\ p.ahead \in 0 .. LayerCount
    /\ p.last \in 0 .. LayerCount

PagerInv == PagerShape(pager)

\* Only a native session asked for one candidate at a time decodes exactly.
Trusted == req.gen = "stateful" => Calm

AnswerInv == Trusted => Exact(req.prompt, generated)

BlockedInv ==
    status = "blocked" => fault \/ (req.gen = "mtp" /\ position >= req.passes)

\* Native rows stand for what is committed, and only a session has any.
NativeInv ==
    native.on => /\ req.gen = "stateful" /\ req.native
                 /\ Calm => native.rows = Rows(committed, 0) /\ kv = <<>>

\* What was asked and is not answered when candidates are drafted.
Drafted == pc \in {"verify", "accept"}

\* One row of candidates, no longer than what is still wanted.
OneRow == Len(drafts) = 1 /\ Len(drafts[1]) = Least(req.k, Remaining)

StatelessInv ==
    /\ pc \in {"propose", "verify", "accept"}
    /\ Len(generated) < req.max
    /\ committed = <<>> /\ kv = <<>> /\ nextToken = NoToken
    /\ Drafted => OneRow
    /\ pc = "accept" => /\ Len(ver) = 1
                        /\ IdsExact(req.prompt \o generated, drafts[1], ver[1])
                        /\ Len(ver[1]) = Len(drafts[1]) + 1

\* The tentative state of a verification stands for the committed tokens and
\* the candidates, in Python rows or in native ones.
TentativeSet == [kv : Seq(RowSet), native : NativeSet]

Stands(t, tokens) ==
    IF t.native.on THEN t.native.rows = Rows(tokens, 0) /\ t.kv = <<>>
                   ELSE t.kv = Rows(tokens, 0)

TentativeInv ==
    /\ Len(tent) = 1 /\ tent[1] \in TentativeSet
    /\ tent[1].native.on => req.native
    /\ Calm => Stands(tent[1], committed \o drafts[1])

StatefulInv ==
    /\ pc \in {"propose", "verify", "accept", "append"}
    /\ Len(generated) <= req.max /\ (pc # "append" => Len(generated) < req.max)
    /\ pc = "append" => generated # <<>>
    /\ req.prompt \o generated =
          committed \o (IF pc = "append" THEN <<generated[Len(generated)]>> ELSE <<>>)
    /\ nextToken = NoToken =>
          /\ pc \in {"propose", "verify"} /\ committed = req.prompt
          /\ kv = <<>> /\ ~native.on
    /\ nextToken # NoToken /\ Calm => nextToken = Greedy(committed)
    /\ nextToken # NoToken /\ Calm /\ ~native.on /\ pc # "accept" =>
          kv = Rows(committed, 0)
    /\ Drafted => OneRow
    /\ pc = "accept" => /\ Len(ver) = 1 /\ Len(ver[1]) = Len(drafts[1]) + 1
                        /\ Calm => IdsExact(committed, drafts[1], ver[1])
                        /\ TentativeInv

CachedInv ==
    /\ pc \in {"prefill", "propose", "verify", "accept"}
    /\ Len(generated) < req.max
    /\ pc = "prefill" => generated = <<>> /\ committed = <<>>
    /\ pc # "prefill" => /\ nextToken = Greedy(req.prompt \o committed)
                         /\ kv = Rows(req.prompt \o committed, 0)
                         /\ generated \in {committed, Append(committed, nextToken)}
    /\ Drafted => OneRow /\ drafts[1][1] = nextToken
    /\ pc = "accept" => /\ Len(ver) = 1 /\ Len(ver[1]) = Len(drafts[1]) + 1
                        /\ IdsExact(req.prompt \o committed, drafts[1], ver[1])
                        /\ tent = <<Rows((req.prompt \o committed) \o drafts[1], 0)>>

\* A loop answers one token for each position after the prompt.
AnsweredUpTo(n) ==
    /\ n <= Len(req.prompt) => generated = <<>>
    /\ n >= Len(req.prompt) => Len(generated) = n - Len(req.prompt)

PlainInv ==
    /\ pc \in {"prefill", "step"}
    /\ pc = "prefill" => position = 0 /\ kv = <<>> /\ nextToken = NoToken
    /\ position <= Len(req.prompt) + req.max
    /\ AnsweredUpTo(position)
    /\ MorePositions => kv = Rows(SubSeq(req.prompt \o generated, 1, position), 0)
    /\ MorePositions /\ position >= Len(req.prompt) =>
          nextToken = Greedy(SubSeq(req.prompt \o generated, 1, position))

\* The rows a paged pass has: the position's own once its last layer has run.
RowsRun == IF pc = "tail" \/ (pc \in {"trim", "ahead"} /\ pager.at = LayerCount)
             THEN position + 1 ELSE position

PagedInv ==
    /\ pc \in {"token", "page", "run", "trim", "ahead", "tail"}
    /\ req.gen # "paged" => position = 0
    /\ position <= Len(req.prompt) + req.max
    /\ pc = "token" => AnsweredUpTo(position)
    /\ pc # "token" => AnsweredUpTo(position + 1) /\ position < Len(req.prompt) + req.max
    /\ kv = Rows(SubSeq(req.prompt \o generated, 1, RowsRun), 0)
    /\ position < Len(req.prompt) => nextToken = NoToken
    /\ pc = "token" /\ position >= Len(req.prompt) =>
          nextToken = Greedy(SubSeq(req.prompt \o generated, 1, position))

\* How far an answer may run past what was asked: a linear row is not cut.
Excess == IF req.tree THEN 0 ELSE req.k - 1

\* Every candidate row starts with the verifier's token; the rows of a tree are
\* one token or as deep as the tree.
MtpRows ==
    /\ Len(drafts) \in 1 .. 2
    /\ \A b \in 1 .. Len(drafts) :
          /\ drafts[b] # <<>> /\ drafts[b][1] = nextToken
          /\ Len(drafts[b]) = Len(drafts[1])
          /\ IF req.tree THEN Len(drafts[b]) \in {1, TreeDepth}
                         ELSE Len(drafts[b]) <= req.k

MtpVerified ==
    /\ Len(ver) = Len(drafts) /\ Len(tent) = Len(drafts)
    /\ \A b \in 1 .. Len(drafts) :
          /\ IdsExact(req.prompt \o generated, drafts[b], ver[b])
          /\ Len(ver[b]) = Len(drafts[b]) + (IF Trimmed THEN 0 ELSE 1)
          /\ tent[b] = Rows((req.prompt \o generated)
                               \o SubSeq(drafts[b], 1, Len(ver[b]) - 1), 0)

MtpInv ==
    /\ pc \in {"prefill", "draft", "verify", "accept"}
    /\ pc = "prefill" => generated = <<>>
    /\ ~StoppedByEos(generated) /\ Len(generated) <= req.max + Excess
    /\ pc # "prefill" /\ Len(generated) < req.max =>
          /\ kv = Rows(req.prompt \o generated, 0)
          /\ nextToken = Greedy(req.prompt \o generated)
    /\ Drafted => Len(generated) < req.max /\ MtpRows
    /\ pc = "accept" => MtpVerified

RunningInv ==
    status = "running" =>
        /\ req.gen = "stateless" => StatelessInv
        /\ req.gen = "stateful"  => StatefulInv
        /\ req.gen = "cached"    => CachedInv
        /\ req.gen = "plain"     => PlainInv
        /\ req.gen = "mtp"       => MtpInv
        /\ Paging                => PagedInv

IInv == /\ Shape /\ PrefillsInv /\ PagerInv
        /\ AnswerInv /\ NativeInv /\ BlockedInv /\ ReadyIsComplete
        /\ RunningInv

-----------------------------------------------------------------------------
(***************************************************************************)
(* Requests, the initial state, and the steps that begin or give up one.   *)
(***************************************************************************)
LEMMA RequestFacts ==
  ASSUME NEW r \in Requests
  PROVE  /\ r.gen \in Generators
         /\ r.prompt \in Prompts /\ r.prompt \in Seq(Token)
         /\ r.prompt # <<>> /\ Len(r.prompt) \in Nat \ {0}
         /\ r.max \in 0 .. MaxNew /\ r.max \in Nat
         /\ r.k \in Nat \ {0} /\ r.depth \in Nat \ {0} /\ r.passes \in Nat
         /\ r.native \in BOOLEAN /\ r.tree \in BOOLEAN /\ r.trim \in BOOLEAN
         /\ r.window \in Nat
         /\ r.gen \in {"stateful", "stateless", "cached", "mtp"} => r.max > 0
         /\ r.gen \in {"probe", "remote"} => r.max = 0
<1>1. r \in RequestSet
  BY RequestAssumption
<1>2. /\ r.gen \in {"stateful", "stateless", "cached", "mtp"} => r.max > 0
      /\ r.gen \in {"probe", "remote"} => r.max = 0
  BY RequestAssumption
<1>3. /\ r.gen \in Generators /\ r.prompt \in Prompts /\ r.max \in 0 .. MaxNew
      /\ r.k \in Nat \ {0} /\ r.depth \in Nat \ {0} /\ r.passes \in Nat
      /\ r.native \in BOOLEAN /\ r.tree \in BOOLEAN /\ r.trim \in BOOLEAN
      /\ r.window \in Nat
  BY <1>1 DEF RequestSet
<1>4. r.max \in Nat
  BY <1>3, BoundAssumption
<1>5. r.prompt \in Seq(Token) /\ r.prompt # <<>>
  BY <1>3, TokenAssumption
<1>6. Len(r.prompt) \in Nat \ {0}
  BY <1>5
<1> QED
  BY <1>2, <1>3, <1>4, <1>5, <1>6

LEMMA NoPagerShape == PagerShape(NoPager)
<1>1. 1 \in Executed /\ 0 \in 0 .. LayerCount
  BY LayerAssumption DEF Executed
<1>2. DOMAIN NoPager.layers = {}
  BY DEF NoPager
<1> QED
  BY <1>1, <1>2 DEF PagerShape, NoPager

LEMMA NoSessionType == NoSession \in NativeSet /\ ~NoSession.on /\ NoSession.rows = <<>>
  BY DEF NoSession, NativeSet

LEMMA EmptySequences ==
  <<>> \in Seq(Token) /\ <<>> \in Seq(RowSet) /\ <<>> \in Seq(Seq(Token))
  BY EmptySeq

LEMMA NothingAnswered == Exact(req.prompt, <<>>)
  BY DEF Exact

LEMMA InitIInv ==
  ASSUME Init
  PROVE  IInv
<1>1. req \in Requests
  BY RequestAssumption DEF Init, CoreInit
<1>2. Shape
  <2>1. 0 \in 0 .. MaxRequests
    BY BoundAssumption
  <2>2. /\ pc = "idle" /\ status = "idle"
        /\ generated = <<>> /\ committed = <<>> /\ kv = <<>> /\ nextToken = NoToken
        /\ drafts = <<>> /\ ver = <<>> /\ native = NoSession
        /\ position = 0 /\ fault = FALSE /\ served = 0
    BY DEF Init, CoreInit
  <2> QED
    BY <1>1, <2>1, <2>2, NoSessionType, EmptySequences DEF Shape
<1>3. PrefillsInv
  BY BoundAssumption DEF Init, CoreInit, PrefillsInv
<1>4. PagerInv
  BY NoPagerShape DEF Init, PagerInv
<1>5. AnswerInv
  BY NothingAnswered DEF Init, CoreInit, AnswerInv
<1> QED
  BY <1>2, <1>3, <1>4, <1>5 DEF Init, CoreInit, IInv, NativeInv, NoSession, BlockedInv,
     ReadyIsComplete, RunningInv

\* A step that leaves a request unfinished keeps the invariant.
LEMMA GiveUpStep ==
  ASSUME IInv, pc # "idle", GiveUp, pager' = pager
  PROVE  IInv'
<1>1. Shape'
  BY DEF IInv, Shape, GiveUp, Leave
<1>2. PrefillsInv' /\ PagerInv'
  BY DEF IInv, PrefillsInv, PagerInv, GiveUp
<1>3. AnswerInv' /\ NativeInv'
  BY DEF IInv, AnswerInv, NativeInv, Trusted, Calm, GiveUp
<1>4. BlockedInv' /\ ReadyIsComplete' /\ RunningInv'
  BY DEF BlockedInv, ReadyIsComplete, RunningInv, GiveUp, Leave
<1> QED
  BY <1>1, <1>2, <1>3, <1>4 DEF IInv

\* What a generator starts with.
LEMMA BeginFacts ==
  ASSUME IInv, NEW gens, NEW first, first # "idle", Begin(gens, first)
  PROVE  /\ Shape' /\ PrefillsInv' /\ AnswerInv' /\ NativeInv' /\ BlockedInv'
         /\ ReadyIsComplete'
         /\ req' \in Requests /\ req'.gen \in gens /\ status' = "running" /\ pc' = first
<1>1. req' \in Requests /\ req'.gen \in gens /\ status' = "running" /\ pc' = first
  BY DEF Begin
<1>2. req'.prompt \in Seq(Token)
  BY <1>1, RequestFacts
<1>3. committed' \in Seq(Token)
  BY <1>2 DEF Begin
<1>4. served' \in 0 .. MaxRequests
  BY BoundAssumption DEF Begin, IInv, Shape
<1>5. Shape'
  BY <1>1, <1>3, <1>4, NoSessionType, EmptySequences DEF Begin, Shape
<1>6. PrefillsInv'
  BY DEF IInv, PrefillsInv, Begin
<1>7. AnswerInv'
  BY DEF AnswerInv, Exact, Begin
<1>8. NativeInv' /\ BlockedInv' /\ ReadyIsComplete'
  BY DEF NativeInv, BlockedInv, ReadyIsComplete, Begin, NoSession
<1> QED
  BY <1>1, <1>5, <1>6, <1>7, <1>8

LEMMA BeginSession ==
  ASSUME IInv, Begin({"stateful", "stateless"}, "propose"), UNCHANGED pager
  PROVE  IInv'
<1>1. /\ Shape' /\ PrefillsInv' /\ AnswerInv' /\ NativeInv' /\ BlockedInv'
      /\ ReadyIsComplete'
      /\ req' \in Requests /\ req'.gen \in {"stateful", "stateless"}
      /\ status' = "running" /\ pc' = "propose"
  BY BeginFacts
<1>2. PagerInv'
  BY DEF IInv, PagerInv
<1>3. req'.max > 0 /\ req'.max \in Nat /\ req'.prompt \in Seq(Token)
  BY <1>1, RequestFacts
<1>4. req'.prompt \o <<>> = req'.prompt
  BY <1>3, ConcatEmptySeq
<1>5. CASE req'.gen = "stateful"
  <2>1. StatefulInv'
    BY <1>1, <1>3, <1>5 DEF StatefulInv, Begin, Drafted, NoSession
  <2> QED
    BY <1>1, <1>2, <1>5, <2>1 DEF IInv, RunningInv, Paging, PagedKinds
<1>6. CASE req'.gen = "stateless"
  <2>1. StatelessInv'
    BY <1>1, <1>3, <1>6 DEF StatelessInv, Begin, Drafted, NoSession
  <2> QED
    BY <1>1, <1>2, <1>6, <2>1 DEF IInv, RunningInv, Paging, PagedKinds
<1> QED
  BY <1>1, <1>5, <1>6

LEMMA BeginFP8 ==
  ASSUME IInv, Begin({"plain", "cached"}, "prefill"), UNCHANGED pager
  PROVE  IInv'
<1>1. /\ Shape' /\ PrefillsInv' /\ AnswerInv' /\ NativeInv' /\ BlockedInv'
      /\ ReadyIsComplete'
      /\ req' \in Requests /\ req'.gen \in {"plain", "cached"}
      /\ status' = "running" /\ pc' = "prefill"
  BY BeginFacts
<1>2. PagerInv'
  BY DEF IInv, PagerInv
<1>3. /\ req'.max \in Nat /\ req'.prompt \in Seq(Token) /\ Len(req'.prompt) \in Nat \ {0}
      /\ req'.gen = "cached" => req'.max > 0
  BY <1>1, RequestFacts
<1>4. CASE req'.gen = "cached"
  <2>1. CachedInv'
    BY <1>1, <1>3, <1>4 DEF CachedInv, Begin, Drafted
  <2> QED
    BY <1>1, <1>2, <1>4, <2>1 DEF IInv, RunningInv, Paging, PagedKinds
<1>5. CASE req'.gen = "plain"
  <2>1. Rows(SubSeq(req'.prompt \o <<>>, 1, 0), 0) = <<>>
    BY <1>3 DEF Rows
  <2>2. PlainInv'
    BY <1>1, <1>3, <1>5, <2>1 DEF PlainInv, Begin, AnsweredUpTo
  <2> QED
    BY <1>1, <1>2, <1>5, <2>2 DEF IInv, RunningInv, Paging, PagedKinds
<1> QED
  BY <1>1, <1>4, <1>5

LEMMA BeginMtp ==
  ASSUME IInv, Begin({"mtp"}, "prefill"), UNCHANGED pager
  PROVE  IInv'
<1>1. /\ Shape' /\ PrefillsInv' /\ AnswerInv' /\ NativeInv' /\ BlockedInv'
      /\ ReadyIsComplete'
      /\ req' \in Requests /\ req'.gen \in {"mtp"}
      /\ status' = "running" /\ pc' = "prefill"
  BY BeginFacts
<1>2. PagerInv'
  BY DEF IInv, PagerInv
<1>3. req'.max \in Nat /\ req'.k \in Nat \ {0}
  BY <1>1, RequestFacts
<1>4. MtpInv'
  BY <1>1, <1>3 DEF MtpInv, Begin, Drafted, StoppedByEos, Excess
<1> QED
  BY <1>1, <1>2, <1>4 DEF IInv, RunningInv, Paging, PagedKinds

LEMMA BeginPager ==
  ASSUME IInv, BeginPaged
  PROVE  IInv'
<1>1. /\ Shape' /\ PrefillsInv' /\ AnswerInv' /\ NativeInv' /\ BlockedInv'
      /\ ReadyIsComplete'
      /\ req' \in Requests /\ req'.gen \in PagedKinds
      /\ status' = "running" /\ pc' = "token"
  BY BeginFacts DEF BeginPaged
<1>2. PagerInv'
  BY NoPagerShape DEF BeginPaged, PagerInv
<1>3. /\ req'.max \in Nat /\ req'.prompt \in Seq(Token) /\ Len(req'.prompt) \in Nat \ {0}
  BY <1>1, RequestFacts
<1>4. Rows(SubSeq(req'.prompt \o <<>>, 1, 0), 0) = <<>>
  BY <1>3 DEF Rows
<1>5. PagedInv'
  BY <1>1, <1>3, <1>4 DEF PagedInv, BeginPaged, Begin, AnsweredUpTo, RowsRun
<1> QED
  BY <1>1, <1>2, <1>5 DEF IInv, RunningInv, PagedKinds

-----------------------------------------------------------------------------
(***************************************************************************)
(* The generators of SpeculativeSession.                                   *)
(***************************************************************************)
LEMMA LeastFacts ==
  ASSUME NEW a \in Nat \ {0}, NEW b \in Nat \ {0}
  PROVE  Least(a, b) \in Nat \ {0} /\ Least(a, b) <= a /\ Least(a, b) <= b
  BY DEF Least

\* A list of one row.
LEMMA OneRowFacts ==
  ASSUME NEW n \in Nat, NEW c \in [1 .. n -> Token]
  PROVE  /\ c \in Seq(Token) /\ Len(c) = n
         /\ <<c>> \in Seq(Seq(Token)) /\ Len(<<c>>) = 1 /\ <<c>>[1] = c
  OBVIOUS

\* Steps that change neither the answer nor a request's end need only restore
\* the invariant of their generator.
LEMMA InnerStep ==
  ASSUME IInv, status = "running", pc' # "idle", Shape', RunningInv',
         UNCHANGED <<req, status, generated, committed, kv, native, prefills, pager>>
  PROVE  IInv'
<1>1. PrefillsInv' /\ PagerInv'
  BY DEF IInv, PrefillsInv, PagerInv
<1>2. AnswerInv' /\ NativeInv'
  BY DEF IInv, AnswerInv, NativeInv, Trusted, Calm
<1>3. BlockedInv' /\ ReadyIsComplete'
  BY DEF BlockedInv, ReadyIsComplete
<1> QED
  BY <1>1, <1>2, <1>3 DEF IInv

LEMMA RowType ==
  ASSUME NEW s \in Seq(Seq(Token)), NEW b \in 1 .. Len(s)
  PROVE  s[b] \in Seq(Token) /\ Len(s[b]) \in Nat
<1>1. s[b] \in Seq(Token)
  BY ElementOfSeq
<1> QED
  BY <1>1

LEMMA FirstRow ==
  ASSUME NEW s \in Seq(Seq(Token)), Len(s) = 1
  PROVE  s[1] \in Seq(Token) /\ Len(s[1]) \in Nat
<1>1. 1 \in 1 .. Len(s)
  OBVIOUS
<1> QED
  BY <1>1, RowType

\* A row of drafts for a generator that drafts one.
LEMMA ProposedRow ==
  ASSUME IInv, req' = req, generated' = generated,
         Len(generated) < req.max,
         NEW c \in [1 .. Least(req.k, Remaining) -> Token], drafts' = <<c>>
  PROVE  drafts' \in Seq(Seq(Token)) /\ OneRow' /\ Len(c) \in Nat \ {0}
<1>1. req.k \in Nat \ {0} /\ Remaining \in Nat \ {0}
  BY RequestFacts DEF IInv, Shape, Remaining
<1>2. Least(req.k, Remaining) \in Nat \ {0}
  BY <1>1, LeastFacts
<1>3. /\ c \in Seq(Token) /\ Len(c) = Least(req.k, Remaining)
      /\ <<c>> \in Seq(Seq(Token)) /\ Len(<<c>>) = 1 /\ <<c>>[1] = c
  BY <1>2, OneRowFacts
<1>4. Remaining' = Remaining
  BY DEF Remaining
<1> QED
  BY <1>2, <1>3, <1>4 DEF OneRow

LEMMA ProposeStep ==
  ASSUME IInv, Propose, UNCHANGED pager
  PROVE  IInv'
<1> USE DEF IInv
<1>1. status = "running" /\ pc' = "verify" /\ pc = "propose"
  BY DEF Propose, Shape
<1>2. PICK c \in [1 .. Least(req.k, Remaining) -> Token] : drafts' = <<c>>
  BY DEF Propose
<1>3. Len(generated) < req.max
  BY <1>1 DEF Propose, RunningInv, StatefulInv, StatelessInv
<1>4. req' = req /\ generated' = generated
  BY DEF Propose
<1>5. drafts' \in Seq(Seq(Token)) /\ OneRow'
  BY <1>2, <1>3, <1>4, ProposedRow
<1>6. Shape'
  BY <1>1, <1>5 DEF Propose, Shape
<1>7. ASSUME req.gen = "stateful" PROVE RunningInv'
  <2>1. StatefulInv
    BY <1>1, <1>7 DEF RunningInv
  <2>2. StatefulInv'
    BY <2>1, <1>1, <1>5 DEF StatefulInv, Propose, Drafted, Calm
  <2> QED
    BY <2>2, <1>4, <1>7 DEF RunningInv, Paging, PagedKinds
<1>8. ASSUME req.gen = "stateless" PROVE RunningInv'
  <2>1. StatelessInv
    BY <1>1, <1>8 DEF RunningInv
  <2>2. StatelessInv'
    BY <2>1, <1>1, <1>5 DEF StatelessInv, Propose, Drafted
  <2> QED
    BY <2>2, <1>4, <1>8 DEF RunningInv, Paging, PagedKinds
<1>9. RunningInv'
  BY <1>7, <1>8 DEF Propose
<1> QED
  BY <1>1, <1>6, <1>9, InnerStep DEF Propose

\* What a stateless verification gives, by either verifier.
LEMMA VerifyStatelessStep ==
  ASSUME VerifierChooses, IInv, VerifyStateless, UNCHANGED pager
  PROVE  IInv'
<1> DEFINE c == req.prompt \o generated
           d == drafts[1]
<1>1. /\ status = "running" /\ pc' = "accept" /\ pc = "verify" /\ req.gen = "stateless"
      /\ UNCHANGED <<req, status, generated, committed, kv, nextToken, drafts,
                     tent, native, position, prefills, fault, served>>
  BY DEF IInv, Shape, VerifyStateless
<1>2. StatelessInv
  BY <1>1 DEF IInv, RunningInv
<1>3. /\ req.prompt \in Seq(Token) /\ req.prompt # <<>> /\ generated \in Seq(Token)
      /\ drafts \in Seq(Seq(Token))
  BY RequestFacts DEF IInv, Shape
<1>4. d \in Seq(Token) /\ Len(drafts) = 1
  <2>1. OneRow
    BY <1>1, <1>2 DEF StatelessInv, Drafted
  <2> QED
    BY <1>3, <2>1, FirstRow DEF OneRow
<1>5. c \in Seq(Token) /\ c # <<>>
  BY <1>3
<1> HIDE DEF c, d
<1>6. ASSUME NEW ids, IdsExact(c, d, ids), Len(ids) = Len(d) + 1, ver' = <<ids>>
      PROVE  IInv'
  <2>1. ids \in Seq(Token)
    BY <1>6 DEF IdsExact
  <2>2. ver' \in Seq(Seq(Token)) /\ Len(ver') = 1 /\ ver'[1] = ids
    BY <1>6, <2>1
  <2>3. Shape'
    BY <1>1, <2>2 DEF IInv, Shape
  <2>4. OneRow'
    BY <1>1, <1>2 DEF StatelessInv, Drafted, OneRow, Remaining
  <2>5. IdsExact(req'.prompt \o generated', drafts'[1], ver'[1])
    BY <1>1, <1>6, <2>2 DEF c, d
  <2>6. StatelessInv'
    BY <1>1, <1>2, <1>6, <2>2, <2>4, <2>5 DEF StatelessInv, d
  <2>7. RunningInv'
    BY <1>1, <2>6 DEF RunningInv, Paging, PagedKinds
  <2> QED
    BY <1>1, <2>3, <2>7, InnerStep
<1>7. CASE ver' = <<VerifyOnce(req.prompt \o generated, drafts[1])>>
  <2>1. VerifyOnce(c, d) = SubSeq(Predicted(<<>>, 0, c \o d), Len(c), Len(c) + Len(d))
    BY DEF VerifyOnce
  <2>2. /\ IdsExact(c, d, VerifyOnce(c, d))
        /\ Len(VerifyOnce(c, d)) = Len(d) + 1
    BY <1>4, <1>5, <2>1, IdsOfWholePass
  <2> QED
    BY <1>6, <1>7, <2>2 DEF c, d
<1>8. CASE ver' = <<VerifyCachedOnce(req.prompt \o generated, drafts[1])>>
  <2>1. /\ IdsExact(c, d, VerifyCachedOnce(c, d))
        /\ Len(VerifyCachedOnce(c, d)) = Len(d) + 1
    BY <1>4, <1>5, IdsOfPass DEF VerifyCachedOnce
  <2> QED
    BY <1>6, <1>8, <2>1 DEF c, d
<1> QED
  BY <1>7, <1>8 DEF VerifyStateless

\* A stateless step that has its answer: AcceptStateless.
LEMMA AcceptStatelessStep ==
  ASSUME VerifierChooses, IInv, AcceptStateless, UNCHANGED pager
  PROVE  IInv' /\ Grows(generated, generated')
<1> DEFINE p == req.prompt
           a == generated
           d == drafts[1]
           ids == ver[1]
           n == Agreed(d, ids)
           taken == SubSeq(d, 1, n)
           more == Append(taken, ids[n + 1])
           extra == n < Len(d) \/ Len(a) + n < req.max
           new == Keep(IF extra THEN more ELSE taken, Remaining)
<1>1. /\ status = "running" /\ pc = "accept" /\ req.gen = "stateless"
      /\ generated' = a \o new
      /\ UNCHANGED <<req, committed, kv, nextToken, native, position, prefills,
                     fault, served>>
      /\ drafts' = <<>> /\ ver' = <<>>
      /\ IF Len(generated') >= req.max THEN pc' = "idle" /\ status' = "ready"
                                       ELSE pc' = "propose" /\ status' = status
  BY DEF IInv, Shape, AcceptStateless, Rollback, Leave
<1>2. StatelessInv
  BY <1>1 DEF IInv, RunningInv
<1>3. OneRow /\ Len(ver) = 1 /\ IdsExact(p \o a, d, ids) /\ Len(ids) = Len(d) + 1
      /\ Len(a) < req.max
  BY <1>1, <1>2 DEF StatelessInv, Drafted
<1>4. /\ p \in Seq(Token) /\ a \in Seq(Token) /\ req.max \in Nat
      /\ drafts \in Seq(Seq(Token)) /\ Exact(p, a)
  BY <1>1, RequestFacts DEF IInv, Shape, AnswerInv, Trusted
<1>5. d \in Seq(Token)
  BY <1>3, <1>4, FirstRow DEF OneRow
<1>6. ids \in Seq(Token)
  BY <1>3 DEF IdsExact
<1>7. Remaining \in Nat /\ Len(a) + Remaining = req.max /\ Len(a) \in Nat
  <2>1. Len(a) \in Nat /\ Len(a) < req.max
    BY <1>3, <1>4
  <2> QED
    BY <1>4, <2>1 DEF Remaining
<1> HIDE DEF p, a, d, ids
<1>8. n \in 0 .. Len(d) /\ n <= Len(ids) /\ \A i \in 1 .. n : d[i] = ids[i]
  BY <1>5, <1>6, AgreedFacts
<1> HIDE DEF n
<1>9. taken \in Seq(Token) /\ Len(taken) = n
  BY <1>5, <1>8, Prefix
<1>10. n < Len(ids)
  BY <1>3, <1>8
<1>11. ids[n + 1] \in Token
  BY <1>6, <1>8, <1>10
<1>12. /\ a \o taken \in Seq(Token) /\ Exact(p, a \o taken)
       /\ ids[n + 1] = Greedy(p \o (a \o taken))
  <2>1. IdsExact(p \o a, d, ids)
    BY <1>3
  <2>2. /\ a \o SubSeq(d, 1, n) \in Seq(Token)
        /\ Exact(p, a \o SubSeq(d, 1, n))
        /\ n < Len(ids) => ids[n + 1] = Greedy(p \o (a \o SubSeq(d, 1, n)))
    BY <1>4, <1>5, <1>8, <2>1, ExactExtend, SMTT(30)
  <2> QED
    BY <1>10, <2>2
<1>13. a \o more = Append(a \o taken, ids[n + 1]) /\ more \in Seq(Token) /\ Len(more) = n + 1
  <2> HIDE DEF taken
  <2>1. more = taken \o <<ids[n + 1]>> /\ <<ids[n + 1]>> \in Seq(Token)
    BY <1>9, <1>11, AppendIsConcat
  <2>2. more \in Seq(Token) /\ Len(more) = n + 1
    BY <1>9, <1>11, AppendFacts
  <2>3. Append(a \o taken, ids[n + 1]) = (a \o taken) \o <<ids[n + 1]>>
    BY <1>11, <1>12, AppendIsConcat
  <2>4. (a \o taken) \o <<ids[n + 1]>> = a \o (taken \o <<ids[n + 1]>>)
    BY <1>4, <1>9, <2>1, TokensAssociate
  <2> QED
    BY <2>1, <2>2, <2>3, <2>4
<1>14. Exact(p, a \o more)
  <2>1. Exact(p, Append(a \o taken, ids[n + 1]))
    <3> HIDE DEF taken
    <3> QED
      BY <1>4, <1>12, ExactAppend
  <2> QED
    BY <2>1, <1>13
<1> HIDE DEF taken, more
<1>15. ASSUME NEW s \in Seq(Token), Exact(p, a \o s), NEW m \in Nat
       PROVE  /\ Keep(s, m) \in Seq(Token) /\ Len(Keep(s, m)) = Least(m, Len(s))
              /\ a \o Keep(s, m) \in Seq(Token)
              /\ Exact(p, a \o Keep(s, m)) 
  <2>1. /\ Keep(s, m) \in Seq(Token) /\ Len(Keep(s, m)) = Least(m, Len(s))
        /\ Least(m, Len(s)) \in 0 .. Len(s)
        /\ Keep(s, m) = SubSeq(s, 1, Least(m, Len(s)))
    BY <1>15, KeepFacts
  <2>2. SubSeq(a \o s, 1, Len(a) + Least(m, Len(s))) = a \o Keep(s, m)
    <3>1. SubSeq(a \o s, 1, Len(a) + Least(m, Len(s)))
             = a \o SubSeq(s, 1, Least(m, Len(s)))
      BY <1>4, <2>1, PrefixOfConcat
    <3> QED
      BY <2>1, <3>1
  <2>3. Exact(p, SubSeq(a \o s, 1, Len(a) + Least(m, Len(s))))
    <3>1. a \o s \in Seq(Token) /\ Len(a \o s) = Len(a) + Len(s)
      BY <1>4, ConcatProperties
    <3>2. Len(a) + Least(m, Len(s)) \in 0 .. Len(a \o s)
      BY <1>7, <2>1, <3>1
    <3> QED
      BY <1>4, <1>15, <3>1, <3>2, ExactPrefix
  <2>4. a \o Keep(s, m) \in Seq(Token)
    BY <1>4, <2>1, ConcatProperties
  <2> QED
    BY <2>1, <2>2, <2>3, <2>4
<1>16. /\ new \in Seq(Token) /\ a \o new \in Seq(Token) /\ Exact(p, a \o new)
       /\ Len(new) <= Remaining
  <2>1. CASE extra
    <3>1. new = Keep(more, Remaining)
      BY <2>1
    <3> QED
      BY <1>7, <1>13, <1>14, <1>15, <3>1, KeepFacts
  <2>2. CASE ~extra
    <3>1. new = Keep(taken, Remaining)
      BY <2>2
    <3> QED
      BY <1>7, <1>9, <1>12, <1>15, <3>1, KeepFacts
  <2> QED
    BY <2>1, <2>2
<1> HIDE DEF new
<1>17. Len(a \o new) = Len(a) + Len(new) /\ Len(a \o new) <= req.max
  BY <1>4, <1>7, <1>16
<1>18. Shape'
  BY <1>1, <1>16, EmptySequences DEF IInv, Shape, a
<1>19. AnswerInv' /\ PrefillsInv' /\ PagerInv'
  BY <1>1, <1>16 DEF IInv, AnswerInv, PrefillsInv, PagerInv, p
<1>20. NativeInv' /\ BlockedInv'
  BY <1>1 DEF IInv, NativeInv, BlockedInv, Calm
<1>21. ReadyIsComplete'
  BY <1>1, <1>17 DEF ReadyIsComplete
<1>22. RunningInv'
  <2>1. CASE Len(generated') >= req.max
    BY <1>1, <2>1 DEF RunningInv
  <2>2. CASE ~(Len(generated') >= req.max)
    <3>1. Len(generated') < req.max
      BY <1>1, <1>4, <1>17, <2>2
    <3>2. StatelessInv'
      BY <1>1, <1>2, <2>2, <3>1 DEF StatelessInv, Drafted
    <3> QED
      BY <1>1, <3>2 DEF RunningInv, Paging, PagedKinds
  <2> QED
    BY <2>1, <2>2
<1>23. Grows(generated, generated')
  BY <1>1, <1>4, <1>16, GrowsFacts DEF a
<1> QED
  BY <1>23, <1>18, <1>19, <1>20, <1>21, <1>22 DEF IInv

-----------------------------------------------------------------------------
(***************************************************************************)
(* The session: what a pass over its rows gives, and what a commit keeps.  *)
(***************************************************************************)
LEMMA StackType ==
  ASSUME VerifierChooses, kv \in Seq(RowSet), native \in NativeSet,
         committed \in Seq(Token), NEW t \in Seq(Token)
  PROVE  /\ StackOver(t).ids \in Seq(Token) /\ Len(StackOver(t).ids) = Len(t)
         /\ StackOver(t).tent \in TentativeSet
         /\ StackOver(t).tent.native.on => req.native
<1>1. native.rows \in Seq(RowSet)
  BY DEF NativeSet
<1>2. CASE req.native /\ Len(t) = 1
  <2> DEFINE past == IF native.on THEN native.rows ELSE kv
             rows == past \o Rows(t, Len(past))
  <2>1. past \in Seq(RowSet) /\ Len(past) \in Nat
    BY <1>1
  <2>2. StackOver(t) = [ids  |-> Predicted(past, Len(past), t),
                        tent |-> [kv |-> <<>>, native |-> [on |-> TRUE, rows |-> rows]]]
    BY <1>2 DEF StackOver
  <2> HIDE DEF past
  <2>3. Rows(t, Len(past)) \in Seq(RowSet)
    BY <2>1, RowsFacts
  <2>4. rows \in Seq(RowSet)
    BY <2>1, <2>3
  <2>5. Predicted(past, Len(past), t) \in Seq(Token)
        /\ Len(Predicted(past, Len(past), t)) = Len(t)
    BY <2>1, PredictedType
  <2> HIDE DEF rows
  <2>6. [on |-> TRUE, rows |-> rows] \in NativeSet
    BY <2>4 DEF NativeSet
  <2>7. [kv |-> <<>>, native |-> [on |-> TRUE, rows |-> rows]] \in TentativeSet
    BY <2>6, EmptySequences DEF TentativeSet
  <2> QED
    BY <1>2, <2>2, <2>5, <2>7
<1>3. CASE ~(req.native /\ Len(t) = 1)
  <2> DEFINE rows == kv \o Rows(t, Len(committed))
  <2>1. StackOver(t) = [ids  |-> Predicted(kv, Len(committed), t),
                        tent |-> [kv |-> rows, native |-> NoSession]]
    BY <1>3 DEF StackOver
  <2>2. Len(committed) \in Nat
    OBVIOUS
  <2>3. Rows(t, Len(committed)) \in Seq(RowSet)
    BY <2>2, RowsFacts
  <2>4. rows \in Seq(RowSet)
    BY <2>3
  <2>5. Predicted(kv, Len(committed), t) \in Seq(Token)
        /\ Len(Predicted(kv, Len(committed), t)) = Len(t)
    BY <2>2, PredictedType
  <2> HIDE DEF rows
  <2>6. [kv |-> rows, native |-> NoSession] \in TentativeSet
    BY <2>4, NoSessionType DEF TentativeSet
  <2> QED
    BY <2>1, <2>5, <2>6, NoSessionType
<1> QED
  BY <1>2, <1>3

\* What the session reads is its committed tokens, in one of the two caches.
ReadsCommitted ==
    /\ native.on => req.native /\ native.rows = Rows(committed, 0) /\ kv = <<>>
    /\ ~native.on => kv = Rows(committed, 0)

LEMMA StackExact ==
  ASSUME VerifierChooses, committed \in Seq(Token), NEW t \in Seq(Token),
         ReadsCommitted, req.native => Len(t) = 1
  PROVE  /\ StackOver(t).ids = Predicted(Rows(committed, 0), Len(committed), t)
         /\ Stands(StackOver(t).tent, committed \o t)
<1> DEFINE rows == Rows(committed, 0)
<1>1. Len(rows) = Len(committed)
  BY RowsFromStart
<1>2. rows \o Rows(t, Len(committed)) = Rows(committed \o t, 0)
  BY RowsConcat
<1>3. CASE req.native
  <2>1. (IF native.on THEN native.rows ELSE kv) = rows
    BY DEF ReadsCommitted
  <2>2. StackOver(t) =
          [ids  |-> Predicted(rows, Len(rows), t),
           tent |-> [kv |-> <<>>, native |-> [on |-> TRUE, rows |-> rows \o Rows(t, Len(rows))]]]
    BY <1>3, <2>1 DEF StackOver
  <2> HIDE DEF rows
  <2>3. StackOver(t).ids = Predicted(rows, Len(committed), t)
    BY <1>1, <2>2
  <2>4. /\ StackOver(t).tent.native.on
        /\ StackOver(t).tent.native.rows = rows \o Rows(t, Len(committed))
        /\ StackOver(t).tent.kv = <<>>
    BY <1>1, <2>2
  <2>5. Stands(StackOver(t).tent, committed \o t)
    BY <1>2, <2>4 DEF Stands
  <2> QED
    BY <2>3, <2>5 DEF rows
<1>4. CASE ~req.native
  <2>1. kv = rows
    BY <1>4 DEF ReadsCommitted
  <2>2. StackOver(t) = [ids  |-> Predicted(rows, Len(committed), t),
                        tent |-> [kv |-> rows \o Rows(t, Len(committed)),
                                  native |-> NoSession]]
    BY <1>4, <2>1 DEF StackOver
  <2> HIDE DEF rows
  <2>3. StackOver(t).ids = Predicted(rows, Len(committed), t)
    BY <2>2
  <2>4. /\ ~StackOver(t).tent.native.on
        /\ StackOver(t).tent.kv = rows \o Rows(t, Len(committed))
    BY <2>2, NoSessionType
  <2>5. Stands(StackOver(t).tent, committed \o t)
    BY <1>2, <2>4 DEF Stands
  <2> QED
    BY <2>3, <2>5 DEF rows
<1> QED
  BY <1>3, <1>4

\* A cut at any length, even a negative one, leaves rows.
LEMMA KeepType ==
  ASSUME NEW S, NEW s \in Seq(S), NEW n \in Int
  PROVE  Keep(s, n) \in Seq(S)
<1>1. Least(n, Len(s)) \in Int /\ Least(n, Len(s)) <= Len(s)
  BY DEF Least
<1>2. \A i \in 1 .. Least(n, Len(s)) : s[i] \in S
  BY <1>1
<1> QED
  BY <1>1, <1>2, SubSeqProperties DEF Keep

LEMMA CommitFacts ==
  ASSUME committed \in Seq(Token), NEW d \in Seq(Token), NEW ids \in Seq(Token),
         Len(ids) = Len(d) + 1, NEW n \in 0 .. Len(d), NEW t \in TentativeSet,
         Commit(n, d, ids, t)
  PROVE  /\ kv' \in Seq(RowSet) /\ native' \in NativeSet
         /\ committed' \in Seq(Token)
         /\ committed' = committed \o SubSeq(d, 1, n)
         /\ nextToken' = ids[n + 1] /\ nextToken' \in Token
         /\ native'.on <=> t.native.on
         /\ Stands(t, committed \o d) =>
              /\ native'.on => native'.rows = Rows(committed', 0) /\ kv' = <<>>
              /\ ~native'.on => kv' = Rows(committed', 0)
<1>1. t.kv \in Seq(RowSet) /\ t.native \in NativeSet
  BY DEF TentativeSet
<1>2. t.native.on \in BOOLEAN /\ t.native.rows \in Seq(RowSet)
  BY <1>1 DEF NativeSet
<1>3. Len(committed) + n \in Int /\ Len(t.native.rows) - Len(d) + n \in Int
  BY <1>2
<1>4. /\ Keep(t.kv, Len(committed) + n) \in Seq(RowSet)
      /\ Keep(t.native.rows, Len(t.native.rows) - Len(d) + n) \in Seq(RowSet)
  BY <1>1, <1>2, <1>3, KeepType
<1>5. kv' \in Seq(RowSet)
  BY <1>4 DEF Commit
<1>6. native' \in NativeSet /\ (native'.on <=> t.native.on)
  <2>1. CASE t.native.on
    <3>1. native' = [on |-> TRUE,
                     rows |-> Keep(t.native.rows, Len(t.native.rows) - Len(d) + n)]
      BY <2>1 DEF Commit
    <3> QED
      BY <1>4, <2>1, <3>1 DEF NativeSet
  <2>2. CASE ~t.native.on
    <3>1. native' = NoSession
      BY <2>2 DEF Commit
    <3> QED
      BY <2>2, <3>1, NoSessionType
  <2> QED
    BY <2>1, <2>2
<1>7. SubSeq(d, 1, n) \in Seq(Token)
  BY Prefix
<1>8. committed' = committed \o SubSeq(d, 1, n)
  BY DEF Commit
<1>9. committed' \in Seq(Token)
  BY <1>7, <1>8, ConcatProperties
<1>10. n < Len(ids) /\ n + 1 \in 1 .. Len(ids)
  OBVIOUS
<1>11. nextToken' = ids[n + 1] /\ nextToken' \in Token
  BY <1>10 DEF Commit
<1>12. ASSUME Stands(t, committed \o d), t.native.on
       PROVE  native'.rows = Rows(committed', 0) /\ kv' = <<>>
  <2>1. t.native.rows = Rows(committed \o d, 0) /\ t.kv = <<>>
    BY <1>12 DEF Stands
  <2>2. committed \o d \in Seq(Token) /\ Len(committed \o d) = Len(committed) + Len(d)
    BY ConcatProperties
  <2>3. Len(t.native.rows) = Len(committed) + Len(d)
    BY <2>1, <2>2, RowsFromStart
  <2>4. Len(t.native.rows) - Len(d) + n = Len(committed) + n
    BY <2>3
  <2>5. native'.rows = Keep(t.native.rows, Len(committed) + n)
    BY <1>12, <2>4 DEF Commit
  <2>6. kv' = Keep(<<>>, Len(committed) + n)
    BY <2>1 DEF Commit
  <2>7. Keep(<<>>, Len(committed) + n) = <<>>
    <3>1. <<>> \in Seq(RowSet) /\ Len(committed) + n \in Nat
      OBVIOUS
    <3>2. Keep(<<>>, Len(committed) + n) \in Seq(RowSet)
          /\ Len(Keep(<<>>, Len(committed) + n)) = Least(Len(committed) + n, Len(<<>>))
          /\ Least(Len(committed) + n, Len(<<>>)) \in 0 .. Len(<<>>)
      BY <3>1, KeepFacts
    <3> QED
      BY <3>2, EmptySeq
  <2> QED
    BY <1>8, <2>1, <2>5, <2>6, <2>7, KeepRows
<1>13. ASSUME Stands(t, committed \o d), ~t.native.on
       PROVE  kv' = Rows(committed', 0)
  <2>1. t.kv = Rows(committed \o d, 0)
    BY <1>13 DEF Stands
  <2>2. kv' = Keep(t.kv, Len(committed) + n)
    BY DEF Commit
  <2> QED
    BY <1>8, <2>1, <2>2, KeepRows
<1> QED
  BY <1>5, <1>6, <1>8, <1>9, <1>11, <1>12, <1>13

\* The prompt and the first candidates in one pass.
LEMMA VerifyInitialStep ==
  ASSUME VerifierChooses, IInv, VerifyInitialCandidates, UNCHANGED pager
  PROVE  IInv'
<1> DEFINE p == req.prompt
           d == drafts[1]
           input == p \o d
           ids == SubSeq(Predicted(<<>>, 0, input), Len(p), Len(input))
           t == [kv |-> Rows(input, 0), native |-> NoSession]
<1>1. /\ status = "running" /\ pc = "verify" /\ pc' = "accept"
      /\ req.gen = "stateful" /\ nextToken = NoToken
      /\ ver' = <<ids>> /\ nextToken' = ids[1] /\ tent' = <<t>>
      /\ committed' = p /\ kv' = <<>> /\ native' = NoSession
      /\ UNCHANGED <<req, status, generated, drafts, position, prefills, fault,
                     served>>
  BY DEF IInv, Shape, VerifyInitialCandidates
<1>2. StatefulInv
  BY <1>1 DEF IInv, RunningInv
<1>3. OneRow /\ generated = <<>> /\ committed = p /\ Len(generated) < req.max
  <2>1. p \o generated = committed
    <3>1. p \o generated = committed \o <<>>
      BY <1>1, <1>2 DEF StatefulInv
    <3> QED
      BY <3>1, ConcatEmptySeq DEF IInv, Shape
  <2>2. committed = p
    BY <1>1, <1>2 DEF StatefulInv
  <2>3. p \in Seq(Token) /\ generated \in Seq(Token)
    BY RequestFacts DEF IInv, Shape
  <2>4. generated = <<>>
    BY <2>1, <2>2, <2>3, ConcatEqualIffEmpty
  <2> QED
    BY <1>1, <1>2, <2>2, <2>4 DEF StatefulInv, Drafted
<1>4. p \in Seq(Token) /\ p # <<>> /\ drafts \in Seq(Seq(Token)) /\ req.max \in Nat
  BY RequestFacts DEF IInv, Shape
<1>5. d \in Seq(Token)
  BY <1>3, <1>4, FirstRow DEF OneRow
<1> HIDE DEF p, d
<1>6. input \in Seq(Token) /\ Len(input) = Len(p) + Len(d)
  BY <1>4, <1>5, ConcatProperties
<1>7. IdsExact(p, d, ids) /\ Len(ids) = Len(d) + 1
  <2>1. ids = SubSeq(Predicted(<<>>, 0, p \o d), Len(p), Len(p) + Len(d))
    BY <1>6
  <2> HIDE DEF ids
  <2> QED
    BY <1>4, <1>5, <2>1, IdsOfWholePass
<1> HIDE DEF ids
<1>8. ids \in Seq(Token) /\ 1 \in 1 .. Len(ids) /\ ids[1] = Greedy(p \o SubSeq(d, 1, 1 - 1))
  BY <1>5, <1>7 DEF IdsExact
<1>9. ids[1] = Greedy(p) /\ ids[1] \in Token /\ ids[1] # NoToken
  <2>1. SubSeq(d, 1, 1 - 1) = <<>>
    BY SubSeqEmpty
  <2>2. p \o <<>> = p
    BY <1>4, ConcatEmptySeq
  <2> QED
    BY <1>4, <1>8, <2>1, <2>2, GreedyType
<1>10. Rows(input, 0) \in Seq(RowSet)
  BY <1>6, RowsFromStart
<1>11. t \in TentativeSet /\ ~t.native.on /\ t.kv = Rows(p \o d, 0)
  BY <1>10, NoSessionType DEF TentativeSet
<1> HIDE DEF t, input
<1>12. ver' \in Seq(Seq(Token)) /\ Len(ver') = 1 /\ ver'[1] = ids
  BY <1>1, <1>8
<1>13. Shape'
  BY <1>1, <1>4, <1>9, <1>12, EmptySequences, NoSessionType DEF IInv, Shape
<1>14. PrefillsInv' /\ PagerInv' /\ AnswerInv' /\ BlockedInv' /\ ReadyIsComplete'
  BY <1>1 DEF IInv, PrefillsInv, PagerInv, AnswerInv, Trusted, Calm, BlockedInv,
              ReadyIsComplete
<1>15. NativeInv'
  BY <1>1, NoSessionType DEF NativeInv
<1>16. TentativeInv'
  BY <1>1, <1>11 DEF TentativeInv, Stands, d
<1>17. OneRow' /\ Drafted'
  BY <1>1, <1>3 DEF OneRow, Remaining, Drafted
<1>18. req.prompt \o generated = committed' \o <<>>
  BY <1>1, <1>3 DEF p
<1>19. StatefulInv'
  <2>1. pc' = "accept" /\ nextToken' # NoToken /\ Len(generated') < req'.max
        /\ nextToken' = Greedy(committed')
    BY <1>1, <1>3, <1>9
  <2>2. IdsExact(committed', drafts'[1], ver'[1]) /\ Len(ver'[1]) = Len(drafts'[1]) + 1
    BY <1>1, <1>7, <1>12 DEF d
  <2>3. req'.prompt \o generated' = committed' \o <<>>
    BY <1>1, <1>18
  <2>4. Len(generated') \in Nat /\ req'.max \in Nat
    BY <1>1, <1>4 DEF IInv, Shape
  <2> QED
    BY <1>12, <1>16, <1>17, <2>1, <2>2, <2>3, <2>4 DEF StatefulInv
<1>20. RunningInv'
  BY <1>1, <1>19 DEF RunningInv, Paging, PagedKinds
<1> QED
  BY <1>13, <1>14, <1>15, <1>20 DEF IInv

\* What a session with a first verification reads is what it committed.
LEMMA SessionReads ==
  ASSUME IInv, status = "running", req.gen = "stateful", pc # "accept",
         nextToken # NoToken, Calm
  PROVE  ReadsCommitted /\ nextToken = Greedy(committed)
<1>1. StatefulInv
  BY DEF IInv, RunningInv
<1>2. native.on => req.native /\ native.rows = Rows(committed, 0) /\ kv = <<>>
  BY DEF IInv, NativeInv
<1> QED
  BY <1>1, <1>2 DEF StatefulInv, ReadsCommitted

\* The candidates over the committed tokens.
LEMMA VerifyCandidatesStep ==
  ASSUME VerifierChooses, IInv, VerifyCandidates, UNCHANGED pager
  PROVE  IInv'
<1> DEFINE d == drafts[1]
           pass == StackOver(d)
           ids == <<nextToken>> \o pass.ids
<1>1. /\ status = "running" /\ pc = "verify" /\ pc' = "accept"
      /\ req.gen = "stateful" /\ nextToken # NoToken
      /\ ver' = <<ids>> /\ tent' = <<pass.tent>>
      /\ UNCHANGED <<req, status, generated, committed, kv, nextToken, native,
                     drafts, position, prefills, fault, served>>
  BY DEF IInv, Shape, VerifyCandidates
<1>2. StatefulInv
  BY <1>1 DEF IInv, RunningInv
<1>3. OneRow /\ Len(generated) < req.max
  BY <1>1, <1>2 DEF StatefulInv, Drafted
<1>4. /\ drafts \in Seq(Seq(Token)) /\ kv \in Seq(RowSet) /\ native \in NativeSet
      /\ committed \in Seq(Token) /\ nextToken \in Token
  BY <1>1 DEF IInv, Shape
<1>5. d \in Seq(Token) /\ Len(d) = Least(req.k, Remaining)
  BY <1>3, <1>4, FirstRow DEF OneRow
<1>6. Calm /\ req.native => Len(d) = 1
  <2>1. Remaining \in Nat \ {0}
    BY <1>3, RequestFacts DEF IInv, Shape, Remaining
  <2> QED
    BY <1>5, <2>1 DEF Calm, Least
<1> HIDE DEF d
<1>7. /\ pass.ids \in Seq(Token) /\ Len(pass.ids) = Len(d)
      /\ pass.tent \in TentativeSet
      /\ pass.tent.native.on => req.native
  BY <1>4, <1>5, StackType
<1>8. ASSUME Calm
      PROVE  IdsExact(committed, d, ids) /\ Stands(pass.tent, committed \o d)
  <2>1. ReadsCommitted /\ nextToken = Greedy(committed)
    BY <1>1, <1>8, SessionReads
  <2>2. /\ pass.ids = Predicted(Rows(committed, 0), Len(committed), d)
        /\ Stands(pass.tent, committed \o d)
    BY <1>4, <1>5, <1>6, <1>8, <2>1, StackExact
  <2>3. IdsExact(committed, d, <<Greedy(committed)>>
                     \o Predicted(Rows(committed, 0), Len(committed), d))
    BY <1>4, <1>5, IdsOfPass
  <2> QED
    BY <2>1, <2>2, <2>3
<1> HIDE DEF pass
<1>9. ids \in Seq(Token) /\ Len(ids) = Len(d) + 1
  BY <1>4, <1>5, <1>7
<1> HIDE DEF ids
<1>10. ver' \in Seq(Seq(Token)) /\ Len(ver') = 1 /\ ver'[1] = ids
  BY <1>1, <1>9
<1>11. Shape'
  BY <1>1, <1>10 DEF IInv, Shape
<1>12. TentativeInv'
  BY <1>1, <1>7, <1>8 DEF TentativeInv, Calm, d
<1>13. OneRow' /\ Drafted'
  BY <1>1, <1>3 DEF OneRow, Remaining, Drafted
<1>14. /\ Calm => IdsExact(committed', drafts'[1], ver'[1])
       /\ Len(ver'[1]) = Len(drafts'[1]) + 1
  BY <1>1, <1>8, <1>9, <1>10 DEF d
<1>15. StatefulInv'
  BY <1>1, <1>2, <1>10, <1>12, <1>13, <1>14 DEF StatefulInv, Calm
<1>16. RunningInv'
  BY <1>1, <1>15 DEF RunningInv, Paging, PagedKinds
<1> QED
  BY <1>1, <1>11, <1>16, InnerStep

\* The agreeing prefix is committed, and the first disagreement is corrected.
LEMMA AcceptStatefulStep ==
  ASSUME VerifierChooses, IInv, AcceptStateful, UNCHANGED pager
  PROVE  IInv' /\ Grows(generated, generated')
<1> DEFINE p == req.prompt
           a == generated
           d == drafts[1]
           ids == ver[1]
           t == tent[1]
           n == Agreed(d, ids)
           new == SubSeq(d, 1, n)
<1>1. /\ status = "running" /\ pc = "accept" /\ req.gen = "stateful"
      /\ Commit(n, d, ids, t)
      /\ UNCHANGED <<req, position, prefills, fault, served>>
      /\ drafts' = <<>> /\ ver' = <<>>
      /\ IF Len(a) + n >= req.max
           THEN generated' = a \o new /\ pc' = "idle" /\ status' = "ready"
         ELSE IF n < Len(d)
           THEN generated' = Append(a \o new, ids[n + 1]) /\ pc' = "append" /\ status' = status
           ELSE generated' = a \o new /\ pc' = "propose" /\ status' = status
  BY DEF IInv, Shape, AcceptStateful, Rollback, Leave
<1>2. StatefulInv
  BY <1>1 DEF IInv, RunningInv
<1>3. /\ OneRow /\ Len(ver) = 1 /\ Len(ids) = Len(d) + 1 /\ TentativeInv
      /\ Calm => IdsExact(committed, d, ids)
      /\ Len(a) < req.max /\ p \o a = committed \o <<>>
  BY <1>1, <1>2 DEF StatefulInv, Drafted
<1>4. /\ p \in Seq(Token) /\ a \in Seq(Token) /\ req.max \in Nat
      /\ drafts \in Seq(Seq(Token)) /\ ver \in Seq(Seq(Token))
      /\ committed \in Seq(Token)
      /\ Calm => Exact(p, a)
  BY <1>1, RequestFacts DEF IInv, Shape, AnswerInv, Trusted
<1>5. p \o a = committed
  BY <1>3, <1>4, ConcatEmptySeq
<1>6. d \in Seq(Token) /\ ids \in Seq(Token) /\ Len(d) = Least(req.k, Remaining)
  BY <1>3, <1>4, FirstRow DEF OneRow
<1>7. Len(a) \in Nat /\ Len(d) <= req.max - Len(a)
  <2>1. Len(a) \in Nat /\ Len(a) < req.max /\ req.k \in Nat \ {0}
    BY <1>3, <1>4, RequestFacts DEF IInv, Shape
  <2> QED
    BY <1>4, <1>6, <2>1 DEF Least, Remaining
<1>8. /\ t \in TentativeSet /\ (t.native.on => req.native)
      /\ Calm => Stands(t, committed \o d)
  BY <1>3 DEF TentativeInv
<1> HIDE DEF p, a, d, ids, t
<1>9. n \in 0 .. Len(d) /\ n <= Len(ids) /\ \A i \in 1 .. n : d[i] = ids[i]
  BY <1>6, AgreedFacts
<1> HIDE DEF n
<1>10. n < Len(ids) /\ ids[n + 1] \in Token
  BY <1>3, <1>6, <1>9
<1>11. new \in Seq(Token) /\ Len(new) = n
  BY <1>6, <1>9, Prefix
<1>12. /\ kv' \in Seq(RowSet) /\ native' \in NativeSet
       /\ committed' \in Seq(Token) /\ committed' = committed \o new
       /\ nextToken' = ids[n + 1] /\ nextToken' \in Token
       /\ native'.on <=> t.native.on
       /\ Stands(t, committed \o d) =>
            /\ native'.on => native'.rows = Rows(committed', 0) /\ kv' = <<>>
            /\ ~native'.on => kv' = Rows(committed', 0)
  BY <1>1, <1>3, <1>4, <1>6, <1>8, <1>9, CommitFacts, ZenonT(30)
<1>13. /\ a \o new \in Seq(Token) /\ Len(a \o new) = Len(a) + n
       /\ (p \o a) \o new = p \o (a \o new)
  <2> HIDE DEF new
  <2>1. a \o new \in Seq(Token) /\ Len(a \o new) = Len(a) + Len(new)
    BY <1>4, <1>11, ConcatProperties
  <2> QED
    BY <1>4, <1>11, <2>1, TokensAssociate, SMTT(30)
<1>14. ASSUME Calm
       PROVE  /\ Exact(p, a \o new)
              /\ ids[n + 1] = Greedy(p \o (a \o new))
              /\ Exact(p, Append(a \o new, ids[n + 1]))
  <2>1. IdsExact(p \o a, d, ids) /\ Exact(p, a)
    BY <1>3, <1>4, <1>5, <1>14
  <2>2. n \in 0 .. Len(d) /\ n <= Len(ids)
    BY <1>9
  <2>3. /\ Exact(p, a \o SubSeq(d, 1, n))
        /\ n < Len(ids) => /\ ids[n + 1] = Greedy(p \o (a \o SubSeq(d, 1, n)))
                           /\ Exact(p, Append(a \o SubSeq(d, 1, n), ids[n + 1]))
    BY <1>4, <1>6, <1>9, <2>1, <2>2, ExactExtend, SMTT(30)
  <2> QED
    BY <1>10, <2>3
<1> HIDE DEF new
<1>15. committed' = p \o (a \o new)
  BY <1>5, <1>12, <1>13
<1>16. /\ Append(a \o new, ids[n + 1]) \in Seq(Token)
       /\ Append(a \o new, ids[n + 1]) = (a \o new) \o <<ids[n + 1]>>
       /\ Len(Append(a \o new, ids[n + 1])) = Len(a) + n + 1
       /\ Append(a \o new, ids[n + 1])[Len(a) + n + 1] = ids[n + 1]
  BY <1>10, <1>13, AppendIsConcat, AppendFacts
<1>17. generated' \in Seq(Token) /\ generated' \in {a \o new, Append(a \o new, ids[n + 1])}
  BY <1>1, <1>13, <1>16
<1>18. Shape'
  BY <1>1, <1>12, <1>17, EmptySequences DEF IInv, Shape
<1>19. PrefillsInv' /\ PagerInv'
  BY <1>1 DEF IInv, PrefillsInv, PagerInv
<1>20. AnswerInv'
  BY <1>1, <1>14, <1>17 DEF AnswerInv, Trusted, Calm, p
<1>21. NativeInv'
  BY <1>1, <1>8, <1>12 DEF NativeInv, Calm
<1>22. BlockedInv'
  BY <1>1 DEF BlockedInv
<1>23. ReadyIsComplete'
  <2> SUFFICES ASSUME status' = "ready"
               PROVE  Len(generated') >= req.max /\ Len(generated') <= req.max
    BY <1>1 DEF ReadyIsComplete
  <2>1. generated' = a \o new /\ Len(a) + n >= req.max
    BY <1>1
  <2> QED
    BY <1>4, <1>7, <1>9, <1>13, <2>1
<1>24. ASSUME status' = "running"
       PROVE  StatefulInv'
  <2>1. /\ Len(a) + n < req.max
        /\ nextToken' # NoToken /\ (Calm' => nextToken' = Greedy(committed'))
        /\ (Calm' /\ ~native'.on => kv' = Rows(committed', 0))
    <3>1. ~(Len(a) + n >= req.max)
      BY <1>1, <1>24
    <3>2. Calm' <=> Calm
      BY <1>1 DEF Calm
    <3> QED
      BY <1>4, <1>7, <1>8, <1>9, <1>12, <1>14, <1>15, <3>1, <3>2, TokenAssumption, SMTT(30)
  <2>2. CASE n < Len(d)
    <3>1. generated' = Append(a \o new, ids[n + 1]) /\ pc' = "append"
      BY <1>1, <1>4, <1>7, <1>9, <1>24, <2>1, <2>2
    <3>2. Len(generated') = Len(a) + n + 1 /\ Len(generated') <= req.max
      BY <1>4, <1>7, <1>9, <1>16, <2>1, <3>1
    <3>3. generated' # <<>> /\ generated'[Len(generated')] = ids[n + 1]
      BY <1>7, <1>9, <1>16, <3>1, <3>2
    <3>4. p \o generated' = committed' \o <<generated'[Len(generated')]>>
      <4>1. <<ids[n + 1]>> \in Seq(Token)
        BY <1>10
      <4>2. p \o ((a \o new) \o <<ids[n + 1]>>) = (p \o (a \o new)) \o <<ids[n + 1]>>
        BY <1>4, <1>13, <4>1, TokensAssociate, SMTT(30)
      <4> QED
        BY <1>15, <1>16, <3>1, <3>3, <4>2
    <3> QED
      BY <1>1, <2>1, <3>1, <3>2, <3>3, <3>4 DEF StatefulInv, Drafted, p
  <2>3. CASE ~(n < Len(d))
    <3>1. generated' = a \o new /\ pc' = "propose"
      BY <1>1, <1>4, <1>7, <1>9, <1>24, <2>1, <2>3
    <3>2. Len(generated') < req.max /\ Len(generated') <= req.max
      BY <1>13, <2>1, <3>1, <1>4, <1>7, <1>9
    <3>3. p \o generated' = committed' \o <<>>
      BY <1>12, <1>15, <3>1, ConcatEmptySeq
    <3> QED
      BY <1>1, <2>1, <3>1, <3>2, <3>3 DEF StatefulInv, Drafted, p
  <2> QED
    BY <2>2, <2>3
<1>25. RunningInv'
  BY <1>1, <1>24 DEF RunningInv, Paging, PagedKinds
<1>26. Grows(generated, generated')
  BY <1>4, <1>10, <1>11, <1>17, GrowsFacts DEF a
<1> QED
  BY <1>26, <1>18, <1>19, <1>20, <1>21, <1>22, <1>23, <1>25 DEF IInv

\* The corrected token is verified alone and committed.
LEMMA AppendTokenStep ==
  ASSUME VerifierChooses, IInv, AppendToken, UNCHANGED pager
  PROVE  IInv'
<1> DEFINE p == req.prompt
           d == <<generated[Len(generated)]>>
           pass == StackOver(d)
           ids == <<nextToken>> \o pass.ids
           t == pass.tent
<1>1. /\ status = "running" /\ pc = "append" /\ req.gen = "stateful"
      /\ Commit(1, d, ids, t)
      /\ UNCHANGED <<req, generated, position, prefills, fault, served>>
      /\ drafts' = <<>> /\ ver' = <<>>
      /\ IF Len(generated) >= req.max THEN pc' = "idle" /\ status' = "ready"
                                      ELSE pc' = "propose" /\ status' = status
  BY DEF IInv, Shape, AppendToken, Rollback, Leave
<1>2. StatefulInv
  BY <1>1 DEF IInv, RunningInv
<1>3. /\ generated # <<>> /\ Len(generated) <= req.max /\ nextToken # NoToken
      /\ p \o generated = committed \o d
  BY <1>1, <1>2 DEF StatefulInv
<1>4. /\ p \in Seq(Token) /\ generated \in Seq(Token) /\ req.max \in Nat
      /\ committed \in Seq(Token) /\ kv \in Seq(RowSet) /\ native \in NativeSet
      /\ nextToken \in Token
  BY <1>3, RequestFacts DEF IInv, Shape
<1>5. d \in Seq(Token) /\ Len(d) = 1
  BY <1>3, <1>4
<1> HIDE DEF d
<1>6. /\ pass.ids \in Seq(Token) /\ Len(pass.ids) = Len(d)
      /\ t \in TentativeSet /\ (t.native.on => req.native)
  BY <1>4, <1>5, StackType
<1>7. ASSUME Calm
      PROVE  IdsExact(committed, d, ids) /\ Stands(t, committed \o d)
  <2>1. ReadsCommitted /\ nextToken = Greedy(committed)
    BY <1>1, <1>3, <1>7, SessionReads
  <2>2. /\ pass.ids = Predicted(Rows(committed, 0), Len(committed), d)
        /\ Stands(t, committed \o d)
    BY <1>4, <1>5, <2>1, StackExact
  <2>3. IdsExact(committed, d, <<Greedy(committed)>>
                     \o Predicted(Rows(committed, 0), Len(committed), d))
    BY <1>4, <1>5, IdsOfPass
  <2> QED
    BY <2>1, <2>2, <2>3
<1> HIDE DEF pass, t
<1>8. ids \in Seq(Token) /\ Len(ids) = Len(d) + 1
  <2>1. <<nextToken>> \in Seq(Token) /\ Len(<<nextToken>>) = 1
    BY <1>4
  <2>2. Len(ids) = 1 + Len(pass.ids) /\ ids \in Seq(Token)
    BY <1>6, <2>1, ConcatProperties
  <2> QED
    BY <1>5, <1>6, <2>2
<1> HIDE DEF ids
<1>9. SubSeq(d, 1, 1) = d
  BY <1>5, SubSeqFull
<1>10. /\ kv' \in Seq(RowSet) /\ native' \in NativeSet
       /\ committed' \in Seq(Token) /\ committed' = committed \o SubSeq(d, 1, 1)
       /\ nextToken' = ids[1 + 1] /\ nextToken' \in Token
       /\ native'.on <=> t.native.on
       /\ Stands(t, committed \o d) =>
            /\ native'.on => native'.rows = Rows(committed', 0) /\ kv' = <<>>
            /\ ~native'.on => kv' = Rows(committed', 0)
  <2>1. PICK n \in 0 .. Len(d) : n = 1
    BY <1>5
  <2>2. Commit(n, d, ids, t)
    BY <1>1, <2>1
  <2>3. /\ kv' \in Seq(RowSet) /\ native' \in NativeSet
        /\ committed' \in Seq(Token) /\ committed' = committed \o SubSeq(d, 1, n)
        /\ nextToken' = ids[n + 1] /\ nextToken' \in Token
        /\ native'.on <=> t.native.on
        /\ Stands(t, committed \o d) =>
             /\ native'.on => native'.rows = Rows(committed', 0) /\ kv' = <<>>
             /\ ~native'.on => kv' = Rows(committed', 0)
    BY <1>4, <1>5, <1>6, <1>8, <2>2, CommitFacts
  <2> QED
    BY <2>1, <2>3
<1>11. committed' = committed \o d
  BY <1>9, <1>10
<1>12. ASSUME Calm
       PROVE  nextToken' = Greedy(committed')
  <2>1. 2 \in 1 .. Len(ids) /\ 1 + 1 = 2 /\ 2 - 1 = 1
    BY <1>5, <1>8
  <2>2. ids[2] = Greedy(committed \o SubSeq(d, 1, 1))
    BY <1>7, <1>12, <2>1 DEF IdsExact
  <2> QED
    BY <1>9, <1>10, <1>11, <2>1, <2>2
<1>13. Shape'
  BY <1>1, <1>10, EmptySequences DEF IInv, Shape
<1>14. PrefillsInv' /\ PagerInv' /\ AnswerInv' /\ BlockedInv'
  BY <1>1 DEF IInv, PrefillsInv, PagerInv, AnswerInv, Trusted, Calm, BlockedInv
<1>15. NativeInv'
  BY <1>1, <1>6, <1>7, <1>10 DEF NativeInv, Calm
<1>16. ReadyIsComplete'
  BY <1>1, <1>3 DEF ReadyIsComplete
<1>17. ASSUME status' = "running"
       PROVE  StatefulInv'
  <2>1. pc' = "propose" /\ ~(Len(generated) >= req.max)
    BY <1>1, <1>17
  <2>2. Len(generated) < req.max
    BY <1>4, <2>1
  <2>3. req'.prompt \o generated' = committed' \o <<>>
    BY <1>1, <1>3, <1>10, <1>11, ConcatEmptySeq DEF p
  <2>4. Calm' => Calm
    BY <1>1 DEF Calm
  <2>5. nextToken' # NoToken
    BY <1>10, TokenAssumption
  <2>6. ~native'.on /\ Calm' => kv' = Rows(committed', 0)
    BY <1>7, <1>10, <2>4
  <2> QED
    BY <1>1, <1>3, <1>12, <2>1, <2>2, <2>3, <2>4, <2>5, <2>6 DEF StatefulInv, Drafted
<1>18. RunningInv'
  BY <1>1, <1>17 DEF RunningInv, Paging, PagedKinds
<1> QED
  BY <1>13, <1>14, <1>15, <1>16, <1>18 DEF IInv

\* Every step of the sessions keeps the invariant.
LEMMA SessionPreserves ==
  ASSUME VerifierChooses, IInv, SessionStep, UNCHANGED pager
  PROVE  IInv'
<1>1. CASE ProposeFails \/ VerifyFails \/ AppendFails
  BY <1>1, GiveUpStep DEF ProposeFails, VerifyFails, AppendFails
<1> QED
  BY <1>1, BeginSession, ProposeStep, VerifyInitialStep, VerifyCandidatesStep,
     AcceptStatefulStep, AppendTokenStep, VerifyStatelessStep, AcceptStatelessStep
     DEF SessionStep

-----------------------------------------------------------------------------
(***************************************************************************)
(* The prefill cache.                                                      *)
(***************************************************************************)
LEMMA EntryFacts ==
  ASSUME NEW p \in Prompts, NEW tail \in BOOLEAN
  PROVE  /\ PrefillEntry(p, tail) \in PrefillEntries
         /\ PrefillEntry(p, tail).key = PrefillKey(p, tail)
         /\ PrefillEntry(p, tail).kv = Rows(p, 0)
         /\ PrefillEntry(p, tail).next = IF tail THEN Greedy(p) ELSE NoToken
  BY DEF PrefillEntry, PrefillEntries

\* The key tells what an entry holds.
LEMMA EntryOfKey ==
  ASSUME NEW e \in PrefillEntries, NEW p \in Prompts, NEW tail \in BOOLEAN,
         e.key = PrefillKey(p, tail)
  PROVE  e = PrefillEntry(p, tail)
<1>1. PICK q \in Prompts, u \in BOOLEAN : e = PrefillEntry(q, u)
  BY DEF PrefillEntries
<1>2. e.key = <<q, u>>
  BY <1>1, EntryFacts DEF PrefillKey
<1>3. q = p /\ u = tail
  BY <1>2 DEF PrefillKey
<1> QED
  BY <1>1, <1>3

LEMMA TouchedFacts ==
  ASSUME PrefillsInv, NEW i \in 1 .. Len(prefills)
  PROVE  /\ Touched(i) \in Seq(PrefillEntries) /\ Len(Touched(i)) <= MaxEntries
         /\ prefills[i] \in PrefillEntries
<1>1. prefills \in Seq(PrefillEntries) /\ Len(prefills) <= MaxEntries
      /\ Len(prefills) \in Nat
  BY DEF PrefillsInv
<1>2. \A j \in 1 .. Len(prefills) : prefills[j] \in PrefillEntries
  BY <1>1
<1>3. SubSeq(prefills, 1, i - 1) \in Seq(PrefillEntries)
      /\ Len(SubSeq(prefills, 1, i - 1)) = i - 1
  <2>1. i - 1 \in 0 .. Len(prefills)
    OBVIOUS
  <2> QED
    BY <1>1, <2>1, Prefix
<1>4. SubSeq(prefills, i + 1, Len(prefills)) \in Seq(PrefillEntries)
      /\ Len(SubSeq(prefills, i + 1, Len(prefills))) = Len(prefills) - i
  <2>1. /\ i + 1 \in Int /\ Len(prefills) \in Int
        /\ \A j \in i + 1 .. Len(prefills) : prefills[j] \in PrefillEntries
    BY <1>1, <1>2
  <2>2. /\ SubSeq(prefills, i + 1, Len(prefills)) \in Seq(PrefillEntries)
        /\ Len(SubSeq(prefills, i + 1, Len(prefills))) =
              IF i + 1 <= Len(prefills) THEN Len(prefills) - (i + 1) + 1 ELSE 0
    BY <2>1, SubSeqProperties
  <2> QED
    BY <1>1, <2>2
<1>5. Without(i) \in Seq(PrefillEntries) /\ Len(Without(i)) = Len(prefills) - 1
  <2>1. /\ Without(i) \in Seq(PrefillEntries)
        /\ Len(Without(i)) = Len(SubSeq(prefills, 1, i - 1))
                             + Len(SubSeq(prefills, i + 1, Len(prefills)))
    BY <1>3, <1>4, ConcatProperties DEF Without
  <2>2. i \in Nat /\ (i - 1) + (Len(prefills) - i) = Len(prefills) - 1
    BY <1>1
  <2> QED
    BY <1>3, <1>4, <2>1, <2>2
<1>6. prefills[i] \in PrefillEntries
  BY <1>2
<1>7. Touched(i) \in Seq(PrefillEntries) /\ Len(Touched(i)) = Len(Without(i)) + 1
  BY <1>5, <1>6, AppendFacts DEF Touched
<1> QED
  BY <1>1, <1>5, <1>6, <1>7, BoundAssumption

LEMMA StoredFacts ==
  ASSUME PrefillsInv, NEW entry \in PrefillEntries
  PROVE  Stored(entry) \in Seq(PrefillEntries) /\ Len(Stored(entry)) <= MaxEntries
<1> DEFINE low == 1 + (IF Len(prefills) >= MaxEntries
                         THEN Len(prefills) - MaxEntries + 1 ELSE 0)
           room == SubSeq(prefills, low, Len(prefills))
           same == {i \in 1 .. Len(room) : room[i].key = entry.key}
           over == [i \in 1 .. Len(room) |-> IF i \in same THEN entry ELSE room[i]]
<1>1. prefills \in Seq(PrefillEntries) /\ Len(prefills) <= MaxEntries
      /\ Len(prefills) \in Nat /\ MaxEntries \in Nat
  BY BoundAssumption DEF PrefillsInv
<1>2. CASE MaxEntries = 0
  BY <1>1, <1>2 DEF Stored
<1>3. CASE MaxEntries # 0
  <2>1. low \in Nat \ {0} /\ Len(prefills) - low + 1 <= MaxEntries - 1
    BY <1>1, <1>3
  <2> HIDE DEF low
  <2>2. \A i \in low .. Len(prefills) : prefills[i] \in PrefillEntries
    BY <1>1, <2>1
  <2>3. /\ room \in Seq(PrefillEntries)
        /\ Len(room) = IF low <= Len(prefills) THEN Len(prefills) - low + 1 ELSE 0
    BY <1>1, <2>1, <2>2, SubSeqProperties
  <2> HIDE DEF room
  <2>4. Len(room) \in Nat /\ Len(room) + 1 <= MaxEntries
    BY <1>1, <1>3, <2>1, <2>3
  <2>5. Append(room, entry) \in Seq(PrefillEntries) /\ Len(Append(room, entry)) = Len(room) + 1
    BY <2>3, AppendFacts
  <2>6. over \in Seq(PrefillEntries) /\ Len(over) = Len(room)
    <3>1. \A i \in 1 .. Len(room) : (IF i \in same THEN entry ELSE room[i]) \in PrefillEntries
      BY <2>3
    <3> HIDE DEF same
    <3> QED
      BY <2>4, <3>1, IsASeq
  <2>7. Stored(entry) = IF same = {} THEN Append(room, entry) ELSE over
    BY <1>3 DEF Stored, room, low
  <2> HIDE DEF same, over
  <2> QED
    BY <1>1, <2>4, <2>5, <2>6, <2>7
<1> QED
  BY <1>2, <1>3

\* A prompt from the cache or from a pass of its own gives the same rows and
\* the same choice, and the cache stays exact.
LEMMA PrefillFacts ==
  ASSUME PrefillsInv, req.prompt \in Prompts, NEW tail \in BOOLEAN,
         PrefillWithCache(tail)
  PROVE  /\ PrefillsInv'
         /\ kv' = Rows(req.prompt, 0)
         /\ nextToken' = IF tail THEN Greedy(req.prompt) ELSE NoToken
<1> DEFINE key == PrefillKey(req.prompt, tail)
           new == PrefillEntry(req.prompt, tail)
<1>1. /\ new \in PrefillEntries /\ new.kv = Rows(req.prompt, 0)
      /\ new.next = IF tail THEN Greedy(req.prompt) ELSE NoToken
  BY EntryFacts
<1>2. CASE MaxEntries > 0 /\ Cached(key) # {}
  <2> DEFINE i == CHOOSE i \in Cached(key) : TRUE
  <2>1. i \in Cached(key)
    BY <1>2
  <2>2. kv' = prefills[i].kv /\ nextToken' = prefills[i].next /\ prefills' = Touched(i)
    BY <1>2 DEF PrefillWithCache
  <2> HIDE DEF i
  <2>3. i \in 1 .. Len(prefills) /\ prefills[i].key = key
    BY <2>1 DEF Cached
  <2>4. /\ Touched(i) \in Seq(PrefillEntries) /\ Len(Touched(i)) <= MaxEntries
        /\ prefills[i] \in PrefillEntries
    BY <2>3, TouchedFacts
  <2>5. prefills[i] = new
    BY <2>3, <2>4, EntryOfKey
  <2> HIDE DEF new
  <2> QED
    BY <1>1, <2>2, <2>4, <2>5 DEF PrefillsInv
<1>3. CASE ~(MaxEntries > 0 /\ Cached(key) # {})
  <2>1. kv' = new.kv /\ nextToken' = new.next /\ prefills' = Stored(new)
    BY <1>3 DEF PrefillWithCache
  <2> HIDE DEF new
  <2> QED
    BY <1>1, <2>1, StoredFacts DEF PrefillsInv
<1> QED
  BY <1>2, <1>3

LEMMA WarmPrefillStep ==
  ASSUME IInv, WarmPrefill, UNCHANGED pager
  PROVE  IInv'
<1>1. PICK r \in Requests : prefills' = Stored(PrefillEntry(r.prompt, TRUE))
  BY DEF WarmPrefill
<1>2. r.prompt \in Prompts
  BY RequestFacts
<1>3. PrefillsInv'
  BY <1>1, <1>2, EntryFacts, StoredFacts DEF IInv, PrefillsInv
<1>4. served' \in 0 .. MaxRequests
  BY BoundAssumption DEF WarmPrefill, IInv, Shape
<1>5. Shape'
  BY <1>4 DEF WarmPrefill, IInv, Shape
<1>6. PagerInv' /\ AnswerInv' /\ NativeInv' /\ BlockedInv' /\ ReadyIsComplete'
  BY DEF WarmPrefill, IInv, PagerInv, AnswerInv, NativeInv, BlockedInv, ReadyIsComplete,
         Trusted, Calm
<1>7. status' # "running"
  BY DEF WarmPrefill, IInv, Shape
<1> QED
  BY <1>3, <1>5, <1>6, <1>7 DEF IInv, RunningInv

-----------------------------------------------------------------------------
(***************************************************************************)
(* The cached FP8 session.                                                 *)
(***************************************************************************)
LEMMA OpenSessionStep ==
  ASSUME VerifierChooses, IInv, OpenSession, UNCHANGED pager
  PROVE  IInv'
<1>1. /\ status = "running" /\ pc = "prefill" /\ pc' = "propose" /\ req.gen = "cached"
      /\ kv' = Rows(req.prompt, 0) /\ nextToken' = Greedy(req.prompt)
      /\ UNCHANGED <<req, status, generated, committed, drafts, ver, native,
                     position, prefills, fault, served>>
  BY DEF IInv, Shape, OpenSession
<1>2. CachedInv
  BY <1>1 DEF IInv, RunningInv
<1>3. req.prompt \in Seq(Token) /\ committed = <<>> /\ generated = <<>>
  BY <1>1, <1>2, RequestFacts DEF CachedInv, IInv, Shape
<1>4. kv' \in Seq(RowSet) /\ nextToken' \in Token
  BY <1>1, <1>3, RowsFromStart, GreedyType
<1>5. req.prompt \o committed = req.prompt
  BY <1>3, ConcatEmptySeq
<1>6. Shape'
  BY <1>1, <1>4 DEF IInv, Shape
<1>7. PrefillsInv' /\ PagerInv' /\ AnswerInv' /\ BlockedInv' /\ ReadyIsComplete'
  BY <1>1 DEF IInv, PrefillsInv, PagerInv, AnswerInv, Trusted, Calm, BlockedInv,
              ReadyIsComplete
<1>8. NativeInv'
  BY <1>1 DEF IInv, NativeInv
<1>9. CachedInv'
  BY <1>1, <1>2, <1>3, <1>5 DEF CachedInv, Drafted
<1> QED
  BY <1>1, <1>6, <1>7, <1>8, <1>9 DEF IInv, RunningInv, Paging, PagedKinds

LEMMA ProposeCachedStep ==
  ASSUME IInv, ProposeCached, UNCHANGED pager
  PROVE  IInv'
<1>1. /\ status = "running" /\ pc = "propose" /\ pc' = "verify" /\ req.gen = "cached"
      /\ UNCHANGED <<req, status, generated, committed, kv, nextToken, ver, tent,
                     native, position, prefills, fault, served>>
  BY DEF IInv, Shape, ProposeCached
<1>2. CachedInv
  BY <1>1 DEF IInv, RunningInv
<1>3. Len(generated) < req.max
  BY <1>2 DEF CachedInv
<1>4. PICK c \in ForceFirst(nextToken, Least(req.k, Remaining)) : drafts' = <<c>>
  BY DEF ProposeCached
<1>5. c \in [1 .. Least(req.k, Remaining) -> Token] /\ c[1] = nextToken
  BY <1>4 DEF ForceFirst
<1>6. drafts' \in Seq(Seq(Token)) /\ OneRow'
  BY <1>1, <1>3, <1>4, <1>5, ProposedRow
<1>7. drafts'[1][1] = nextToken
  BY <1>4, <1>5
<1>8. Shape'
  BY <1>1, <1>6 DEF IInv, Shape
<1>9. CachedInv'
  BY <1>1, <1>2, <1>6, <1>7 DEF CachedInv, Drafted
<1>10. RunningInv'
  BY <1>1, <1>9 DEF RunningInv, Paging, PagedKinds
<1> QED
  BY <1>1, <1>8, <1>10, InnerStep

LEMMA VerifyCachedStep ==
  ASSUME VerifierChooses, IInv, VerifyCached, UNCHANGED pager
  PROVE  IInv'
<1> DEFINE c == req.prompt \o committed
           d == drafts[1]
           ids == <<nextToken>> \o Predicted(kv, CommittedCount, d)
<1>1. /\ status = "running" /\ pc = "verify" /\ pc' = "accept" /\ req.gen = "cached"
      /\ ver' = <<ids>> /\ tent' = <<kv \o Rows(d, CommittedCount)>>
      /\ UNCHANGED <<req, status, generated, committed, kv, nextToken, drafts,
                     native, position, prefills, fault, served>>
  BY DEF IInv, Shape, VerifyCached
<1>2. CachedInv
  BY <1>1 DEF IInv, RunningInv
<1>3. /\ OneRow /\ drafts[1][1] = nextToken
      /\ nextToken = Greedy(c) /\ kv = Rows(c, 0)
  BY <1>1, <1>2 DEF CachedInv, Drafted
<1>4. /\ req.prompt \in Seq(Token) /\ committed \in Seq(Token)
      /\ drafts \in Seq(Seq(Token))
  BY RequestFacts DEF IInv, Shape
<1>5. d \in Seq(Token)
  BY <1>3, <1>4, FirstRow DEF OneRow
<1>6. c \in Seq(Token) /\ Len(c) = CommittedCount
  BY <1>4, ConcatProperties DEF CommittedCount
<1> HIDE DEF c, d
<1>7. IdsExact(c, d, ids) /\ Len(ids) = Len(d) + 1
  <2>1. ids = <<Greedy(c)>> \o Predicted(Rows(c, 0), Len(c), d)
    BY <1>3, <1>6
  <2> HIDE DEF ids
  <2> QED
    BY <1>5, <1>6, <2>1, IdsOfPass
<1> HIDE DEF ids
<1>8. tent' = <<Rows(c \o d, 0)>>
  <2>1. Rows(c \o d, 0) = Rows(c, 0) \o Rows(d, Len(c))
    BY <1>5, <1>6, RowsConcat
  <2> QED
    BY <1>1, <1>3, <1>6, <2>1
<1>9. ver' \in Seq(Seq(Token)) /\ Len(ver') = 1 /\ ver'[1] = ids
  <2>1. ids \in Seq(Token)
    BY <1>7 DEF IdsExact
  <2> QED
    BY <1>1, <2>1
<1>10. Shape'
  BY <1>1, <1>9 DEF IInv, Shape
<1>11. OneRow'
  BY <1>1, <1>3 DEF OneRow, Remaining
<1>12. /\ IdsExact(req'.prompt \o committed', drafts'[1], ver'[1])
       /\ Len(ver'[1]) = Len(drafts'[1]) + 1
       /\ tent' = <<Rows((req'.prompt \o committed') \o drafts'[1], 0)>>
  BY <1>1, <1>7, <1>8, <1>9 DEF c, d
<1>13. CachedInv'
  BY <1>1, <1>2, <1>3, <1>9, <1>11, <1>12 DEF CachedInv
<1>14. RunningInv'
  BY <1>1, <1>13 DEF RunningInv, Paging, PagedKinds
<1> QED
  BY <1>1, <1>10, <1>14, InnerStep

\* The candidates that catch the session up are already in the answer.
LEMMA AcceptCachedStep ==
  ASSUME VerifierChooses, IInv, AcceptCached, UNCHANGED pager
  PROVE  IInv' /\ Grows(generated, generated')
<1> DEFINE p == req.prompt
           m == committed
           a == generated
           d == drafts[1]
           ids == ver[1]
           n == Least(Agreed(d, ids), Pending + Remaining)
           new == SubSeq(d, 1, n)
           shown == a \o SubSeq(d, Pending + 1, n)
<1>1. /\ status = "running" /\ pc = "accept" /\ req.gen = "cached"
      /\ AcceptPrefix(n)
      /\ UNCHANGED <<req, native, position, prefills, fault, served>>
      /\ IF Len(shown) >= req.max
           THEN generated' = shown /\ pc' = "idle" /\ status' = "ready"
           ELSE /\ generated' = Append(shown, ids[n + 1])
                /\ IF Len(shown) + 1 >= req.max
                     THEN pc' = "idle" /\ status' = "ready"
                     ELSE pc' = "propose" /\ status' = status
  BY DEF IInv, Shape, AcceptCached, Leave
<1>2. CachedInv
  BY <1>1 DEF IInv, RunningInv
<1>3. /\ OneRow /\ d[1] = nextToken /\ Len(ver) = 1 /\ Len(ids) = Len(d) + 1
      /\ IdsExact(p \o m, d, ids)
      /\ tent = <<Rows((p \o m) \o d, 0)>>
      /\ nextToken = Greedy(p \o m)
      /\ a \in {m, Append(m, nextToken)} /\ Len(a) < req.max
  BY <1>1, <1>2 DEF CachedInv, Drafted
<1>4. /\ p \in Seq(Token) /\ a \in Seq(Token) /\ m \in Seq(Token) /\ req.max \in Nat
      /\ drafts \in Seq(Seq(Token)) /\ ver \in Seq(Seq(Token)) /\ Exact(p, a)
      /\ req.k \in Nat \ {0}
  BY <1>1, RequestFacts DEF IInv, Shape, AnswerInv, Trusted
<1>5. /\ d \in Seq(Token) /\ ids \in Seq(Token) /\ Len(d) = Least(req.k, Remaining)
      /\ Len(a) \in Nat /\ Len(m) \in Nat
  BY <1>3, <1>4, FirstRow DEF OneRow
<1>6. /\ Remaining \in Nat \ {0} /\ Remaining = req.max - Len(a)
      /\ Pending = Len(a) - Len(m) /\ CommittedCount = Len(p \o m)
  <2>1. CommittedCount = Len(p \o m)
    BY <1>4, ConcatProperties DEF CommittedCount
  <2> QED
    BY <1>3, <1>4, <1>5, <2>1, SMTT(30) DEF Remaining, Pending
<1>7. Len(d) \in Nat \ {0} /\ Len(d) <= Remaining
  BY <1>4, <1>5, <1>6, LeastFacts
<1>8. nextToken \in Token
  BY <1>3, <1>4, GreedyType, ConcatProperties
<1> HIDE DEF p, m, a, d, ids
<1>9. /\ Agreed(d, ids) \in 1 .. Len(d)
      /\ \A i \in 1 .. Agreed(d, ids) : d[i] = ids[i]
  <2>1. /\ Agreed(d, ids) \in 0 .. Len(d)
        /\ \A i \in 1 .. Agreed(d, ids) : d[i] = ids[i]
        /\ (d # <<>> /\ ids # <<>> /\ d[1] = ids[1]) => Agreed(d, ids) >= 1
    BY <1>5, AgreedFacts
  <2>2. d # <<>> /\ ids # <<>>
    BY <1>3, <1>5, <1>7
  <2>3. ids[1] = nextToken
    <3>1. 1 \in 1 .. Len(ids)
      BY <1>3, <1>7
    <3>2. ids[1] = Greedy((p \o m) \o SubSeq(d, 1, 1 - 1))
      BY <1>3, <3>1 DEF IdsExact
    <3>3. (p \o m) \o SubSeq(d, 1, 1 - 1) = p \o m
      <4>1. SubSeq(d, 1, 1 - 1) = <<>>
        BY SubSeqEmpty
      <4>2. p \o m \in Seq(Token)
        BY <1>4, ConcatProperties
      <4> QED
        BY <4>1, <4>2, ConcatEmptySeq
    <3> QED
      BY <1>3, <3>2, <3>3
  <2> QED
    BY <1>3, <2>1, <2>2, <2>3
<1>10. Pending \in {0, 1} /\ (Pending = 0 => a = m) /\ (Pending = 1 => a = Append(m, nextToken))
  <2>1. Len(Append(m, nextToken)) = Len(m) + 1
    BY <1>4, <1>8, AppendFacts
  <2> QED
    BY <1>3, <1>5, <1>6, <2>1
<1>11. n \in 1 .. Len(d) /\ n <= Agreed(d, ids) /\ n <= Pending + Remaining
  BY <1>6, <1>7, <1>9, <1>10 DEF Least
<1> HIDE DEF n
<1>12. /\ n \in 0 .. Len(d) /\ n < Len(ids) /\ n <= Len(ids)
       /\ \A i \in 1 .. n : d[i] = ids[i]
  BY <1>3, <1>9, <1>11
<1>13. Exact(p, m)
  <2>1. CASE Pending = 0
    BY <1>4, <1>10, <2>1
  <2>2. CASE Pending = 1
    <3>1. a = m \o <<nextToken>> /\ <<nextToken>> \in Seq(Token)
      BY <1>4, <1>8, <1>10, <2>2, AppendIsConcat
    <3>2. Len(m) \in 0 .. Len(m) /\ Len(m) \in 0 .. Len(a)
      BY <1>5, <1>6, <2>2
    <3>3. SubSeq(a, 1, Len(m)) = m
      BY <1>4, <3>1, <3>2, PrefixOfFirst, SubSeqFull
    <3>4. Exact(p, SubSeq(a, 1, Len(m)))
      BY <1>4, <3>2, ExactPrefix
    <3> QED
      BY <3>3, <3>4
  <2> QED
    BY <1>10, <2>1, <2>2
<1>14. new \in Seq(Token) /\ Len(new) = n
  BY <1>5, <1>12, Prefix
<1>15. shown = m \o new
  <2>1. CASE Pending = 0
    <3>1. Pending + 1 = 1 /\ a = m
      BY <1>10, <2>1
    <3> QED
      BY <3>1
  <2>2. CASE Pending = 1
    <3>1. a = m \o <<nextToken>> /\ <<nextToken>> \in Seq(Token)
      BY <1>4, <1>8, <1>10, <2>2, AppendIsConcat
    <3>2. SubSeq(d, 1, n) = <<d[1]>> \o SubSeq(d, 2, n)
      <4>1. 1 \in 1 .. Len(d) /\ n \in 1 .. Len(d) /\ 1 + 1 = 2
        BY <1>7, <1>11
      <4>2. SubSeq(d, 1, n) = <<d[1]>> \o SubSeq(d, 1 + 1, n)
        BY <1>5, <4>1, SubSeqRecursiveFirst
      <4> QED
        BY <4>1, <4>2
    <3>3. SubSeq(d, 2, n) \in Seq(Token)
      <4>1. \A i \in 2 .. n : d[i] \in Token
        BY <1>5, <1>11
      <4> QED
        BY <1>11, <4>1, SubSeqProperties
    <3>4. Pending + 1 = 2
      BY <2>2
    <3>5. (m \o <<nextToken>>) \o SubSeq(d, 2, n) = m \o (<<nextToken>> \o SubSeq(d, 2, n))
      BY <1>4, <3>1, <3>3, TokensAssociate, ZenonT(30)
    <3> QED
      BY <1>3, <3>1, <3>2, <3>4, <3>5
  <2> QED
    BY <1>10, <2>1, <2>2
<1>15a. Grows(a, shown) /\ \A t \in Token : Grows(a, Append(shown, t))
  <2>1. \A i \in Pending + 1 .. n : d[i] \in Token
    BY <1>5, <1>10, <1>11
  <2>2. SubSeq(d, Pending + 1, n) \in Seq(Token)
    BY <1>10, <1>11, <2>1, SubSeqProperties
  <2> QED
    BY <1>4, <2>2, GrowsFacts
<1> HIDE DEF shown
<1>16. /\ m \o new \in Seq(Token) /\ Len(m \o new) = Len(m) + n
       /\ Exact(p, m \o new)
       /\ ids[n + 1] \in Token /\ ids[n + 1] = Greedy(p \o (m \o new))
       /\ Exact(p, Append(m \o new, ids[n + 1]))
  <2>1. IdsExact(p \o m, d, ids)
    BY <1>3
  <2>2. /\ m \o SubSeq(d, 1, n) \in Seq(Token)
        /\ Len(m \o SubSeq(d, 1, n)) = Len(m) + n
        /\ Exact(p, m \o SubSeq(d, 1, n))
        /\ n < Len(ids) => /\ ids[n + 1] \in Token
                           /\ ids[n + 1] = Greedy(p \o (m \o SubSeq(d, 1, n)))
                           /\ Exact(p, Append(m \o SubSeq(d, 1, n), ids[n + 1]))
    BY <1>4, <1>5, <1>12, <1>13, <2>1, ExactExtend
  <2> QED
    BY <1>12, <2>2
<1>17. /\ committed' = m \o new
       /\ kv' = Keep(Rows((p \o m) \o d, 0), CommittedCount + n)
       /\ nextToken' = ids[n + 1]
       /\ drafts' = <<>> /\ ver' = <<>>
  BY <1>1, <1>3, <1>12 DEF AcceptPrefix, m, d, ids
<1>18. p \o m \in Seq(Token) /\ (p \o m) \o new = p \o (m \o new)
  <2> HIDE DEF new
  <2> QED
    BY <1>4, <1>14, ConcatProperties, TokensAssociate
<1>19. kv' = Rows(p \o (m \o new), 0)
  <2>1. Keep(Rows((p \o m) \o d, 0), Len(p \o m) + n) = Rows((p \o m) \o SubSeq(d, 1, n), 0)
    BY <1>5, <1>12, <1>18, KeepRows
  <2> QED
    BY <1>6, <1>17, <1>18, <2>1
<1> HIDE DEF new
<1>20. kv' \in Seq(RowSet)
  <2>1. p \o (m \o new) \in Seq(Token)
    BY <1>4, <1>16, ConcatProperties
  <2> QED
    BY <1>19, <2>1, RowsFromStart
<1>21. Len(shown) \in Nat /\ Len(shown) <= req.max
  <2>1. Len(shown) = Len(m) + n /\ n \in Nat
    BY <1>11, <1>15, <1>16
  <2>2. n <= (Len(a) - Len(m)) + (req.max - Len(a))
    BY <1>6, <1>11
  <2> QED
    BY <1>4, <1>5, <2>1, <2>2
<1>22. /\ Append(shown, ids[n + 1]) \in Seq(Token)
       /\ Len(Append(shown, ids[n + 1])) = Len(shown) + 1
  BY <1>15, <1>16, AppendFacts
<1>23. generated' \in {shown, Append(shown, ids[n + 1])}
  BY <1>1
<1>24. generated' \in Seq(Token)
  BY <1>15, <1>16, <1>22, <1>23
<1>25. Shape'
  BY <1>1, <1>16, <1>17, <1>20, <1>24, EmptySequences DEF IInv, Shape
<1>26. PrefillsInv' /\ PagerInv' /\ BlockedInv'
  BY <1>1 DEF IInv, PrefillsInv, PagerInv, BlockedInv
<1>27. AnswerInv'
  BY <1>1, <1>15, <1>16, <1>23 DEF AnswerInv, p
<1>28. NativeInv'
  BY <1>1 DEF IInv, NativeInv
<1>29. ReadyIsComplete'
  <2> SUFFICES ASSUME status' = "ready"
               PROVE  Len(generated') >= req.max /\ Len(generated') <= req.max
    BY <1>1 DEF ReadyIsComplete
  <2>1. CASE Len(shown) >= req.max
    BY <1>1, <1>21, <2>1
  <2>2. CASE ~(Len(shown) >= req.max)
    BY <1>1, <1>4, <1>21, <1>22, <2>2
  <2> QED
    BY <2>1, <2>2
<1>30. ASSUME status' = "running"
       PROVE  CachedInv'
  <2>1. /\ pc' = "propose" /\ generated' = Append(shown, ids[n + 1])
        /\ Len(shown) + 1 < req.max
    BY <1>1, <1>4, <1>21, <1>30
  <2>2. generated' = Append(committed', nextToken') /\ Len(generated') < req'.max
    BY <1>1, <1>15, <1>17, <1>22, <2>1
  <2>3. /\ nextToken' = Greedy(req'.prompt \o committed')
        /\ kv' = Rows(req'.prompt \o committed', 0)
    BY <1>1, <1>16, <1>17, <1>19 DEF p
  <2> QED
    BY <2>1, <2>2, <2>3 DEF CachedInv, Drafted
<1>31. RunningInv'
  BY <1>1, <1>30 DEF RunningInv, Paging, PagedKinds
<1>32. Grows(generated, generated')
  BY <1>15a, <1>16, <1>23 DEF a
<1> QED
  BY <1>32, <1>25, <1>26, <1>27, <1>28, <1>29, <1>31 DEF IInv

-----------------------------------------------------------------------------
(***************************************************************************)
(* The plain loop.                                                         *)
(***************************************************************************)
\* One more token of s: its row, and the choice after it.
LEMMA OneMore ==
  ASSUME NEW s \in Seq(Token), NEW n \in 0 .. Len(s), n < Len(s)
  PROVE  /\ Rows(SubSeq(s, 1, n + 1), 0) = Rows(SubSeq(s, 1, n), 0) \o Rows(<<s[n + 1]>>, n)
         /\ Predicted(Rows(SubSeq(s, 1, n), 0), n, <<s[n + 1]>>)[1]
               = Greedy(SubSeq(s, 1, n + 1))
         /\ Rows(SubSeq(s, 1, n + 1), 0) \in Seq(RowSet)
         /\ SubSeq(s, 1, n + 1) \in Seq(Token)
<1> DEFINE c == SubSeq(s, 1, n)
           d == <<s[n + 1]>>
<1>1. c \in Seq(Token) /\ Len(c) = n
  BY Prefix
<1>2. n + 1 \in 0 .. Len(s) /\ n + 1 \in 1 .. Len(s)
  OBVIOUS
<1>3. SubSeq(s, 1, n + 1) \in Seq(Token)
  BY <1>2, Prefix
<1>4. d \in Seq(Token) /\ Len(d) = 1
  BY <1>2
<1>5. SubSeq(s, 1, n + 1) = c \o d
  <2>1. c \o d \in Seq(Token) /\ Len(c \o d) = n + 1
    BY <1>1, <1>4, ConcatProperties
  <2>2. /\ Len(SubSeq(s, 1, n + 1)) = n + 1
        /\ \A i \in 1 .. n + 1 : SubSeq(s, 1, n + 1)[i] = s[i]
    BY <1>2, Prefix
  <2>3. \A i \in 1 .. n : c[i] = s[i]
    BY Prefix
  <2>4. d[1] = s[n + 1] /\ n \in Nat
    OBVIOUS
  <2> HIDE DEF c, d
  <2>5. ASSUME NEW i \in 1 .. n + 1
        PROVE  (c \o d)[i] = s[i]
    <3>1. CASE i <= n
      BY <1>1, <1>4, <2>3, <3>1
    <3>2. CASE i = n + 1
      <4>1. i > Len(c) /\ i \in 1 .. Len(c) + Len(d) /\ i - Len(c) = 1
        BY <1>1, <1>4, <2>4, <3>2
      <4>2. d \in Seq(Token) /\ c \in Seq(Token)
        BY <1>1, <1>4
      <4>3. (c \o d)[i] = d[i - Len(c)]
        BY <4>1, <4>2
      <4> QED
        BY <2>4, <3>2, <4>1, <4>3
    <3>3. i <= n \/ i = n + 1
      BY <2>4
    <3> QED
      BY <3>1, <3>2, <3>3
  <2> QED
    BY <1>3, <2>1, <2>2, <2>5, SeqEqual
<1> HIDE DEF c, d
<1>6. Rows(c \o d, 0) = Rows(c, 0) \o Rows(d, n)
  BY <1>1, <1>4, RowsConcat
<1>7. Predicted(Rows(c, 0), n, d)[1] = Greedy(c \o d)
  <2>1. 1 \in 1 .. Len(d)
    BY <1>4
  <2>2. Predicted(Rows(c, 0), Len(c), d)[1] = Greedy(c \o SubSeq(d, 1, 1))
    BY <1>1, <1>4, <2>1, PredictedExact
  <2>3. SubSeq(d, 1, 1) = d
    BY <1>4, SubSeqFull
  <2> QED
    BY <1>1, <2>2, <2>3
<1>8. Rows(SubSeq(s, 1, n + 1), 0) \in Seq(RowSet)
  BY <1>3, RowsFromStart
<1> QED
  BY <1>3, <1>5, <1>6, <1>7, <1>8 DEF c, d

\* A prompt and its answer, and the token that joins the answer.
LEMMA WholeAnswer ==
  ASSUME NEW p \in Seq(Token), NEW a \in Seq(Token), NEW n \in Nat,
         n >= Len(p), Len(a) = n - Len(p), NEW t \in Token
  PROVE  /\ p \o a \in Seq(Token) /\ Len(p \o a) = n
         /\ SubSeq(p \o a, 1, n) = p \o a
         /\ p \o Append(a, t) \in Seq(Token) /\ Len(p \o Append(a, t)) = n + 1
         /\ n \in 0 .. Len(p \o Append(a, t))
         /\ SubSeq(p \o Append(a, t), 1, n) = p \o a
         /\ (p \o Append(a, t))[n + 1] = t
<1>1. p \o a \in Seq(Token) /\ Len(p \o a) = n
  <2>1. p \o a \in Seq(Token) /\ Len(p \o a) = Len(p) + Len(a)
    BY ConcatProperties
  <2>2. Len(p) \in Nat /\ Len(p) + (n - Len(p)) = n
    OBVIOUS
  <2> QED
    BY <2>1, <2>2
<1>2. SubSeq(p \o a, 1, n) = p \o a
  BY <1>1, SubSeqFull
<1>3. <<t>> \in Seq(Token) /\ Len(<<t>>) = 1 /\ <<t>>[1] = t
  OBVIOUS
<1>4. p \o Append(a, t) = (p \o a) \o <<t>>
  BY <1>3, AppendIsConcat, TokensAssociate
<1>5. (p \o a) \o <<t>> \in Seq(Token) /\ Len((p \o a) \o <<t>>) = n + 1
      /\ ((p \o a) \o <<t>>)[n + 1] = t
  <2> DEFINE s == p \o a
  <2>1. s \in Seq(Token) /\ Len(s) = n
    BY <1>1
  <2> HIDE DEF s
  <2>2. s \o <<t>> \in Seq(Token) /\ Len(s \o <<t>>) = n + 1 /\ (s \o <<t>>)[n + 1] = t
    BY <2>1
  <2> QED
    BY <2>2 DEF s
<1>6. SubSeq((p \o a) \o <<t>>, 1, n) = SubSeq(p \o a, 1, n)
  <2>1. n \in 0 .. Len(p \o a)
    BY <1>1
  <2> QED
    BY <1>1, <1>3, <2>1, PrefixOfFirst
<1> QED
  BY <1>1, <1>2, <1>4, <1>5, <1>6

\* An unanswered prompt.
LEMMA NoAnswer ==
  ASSUME NEW p \in Seq(Token)
  PROVE  p \o <<>> = p /\ SubSeq(p \o <<>>, 1, Len(p)) = p
  BY ConcatEmptySeq, SubSeqFull

\* What the plain loop keeps whatever it does with its rows and its answer.
LEMMA PlainFrame ==
  ASSUME IInv, req.gen = "plain", req' = req, native' = native, prefills' = prefills,
         pager' = pager
  PROVE  PrefillsInv' /\ PagerInv' /\ NativeInv'
<1>1. ~native.on
  BY DEF IInv, NativeInv
<1> QED
  BY <1>1 DEF IInv, PrefillsInv, PagerInv, NativeInv

LEMMA PlainRunning ==
  ASSUME req'.gen = "plain", status' = "running" => PlainInv'
  PROVE  RunningInv'
  BY DEF RunningInv, Paging, PagedKinds

LEMMA PlainPrefillStep ==
  ASSUME VerifierChooses, IInv, PlainPrefill, UNCHANGED pager
  PROVE  IInv'
<1> DEFINE p == req.prompt
<1>1. /\ status = "running" /\ pc = "prefill" /\ pc' = "step" /\ req.gen = "plain"
      /\ IF Len(p) > 1 /\ req.prefill
           THEN PrefillWithCache(WantsTail) /\ position' = Len(p)
           ELSE UNCHANGED <<kv, nextToken, prefills, position>>
      /\ UNCHANGED <<req, status, generated, committed, drafts, ver, native,
                     fault, served>>
  BY DEF IInv, Shape, PlainPrefill
<1>2. PlainInv
  BY <1>1 DEF IInv, RunningInv
<1>3. /\ p \in Prompts /\ p \in Seq(Token) /\ Len(p) \in Nat \ {0} /\ req.max \in Nat
  BY RequestFacts DEF IInv, Shape
<1>4. generated = <<>> /\ position = 0
  BY <1>1, <1>2, <1>3 DEF PlainInv, AnsweredUpTo
<1>5. PagerInv' /\ AnswerInv' /\ NativeInv' /\ BlockedInv' /\ ReadyIsComplete'
  BY <1>1 DEF IInv, PagerInv, AnswerInv, Trusted, Calm, NativeInv, BlockedInv, ReadyIsComplete
<1>6. CASE Len(p) > 1 /\ req.prefill
  <2>1. PrefillWithCache(WantsTail) /\ WantsTail \in BOOLEAN /\ PrefillsInv
    BY <1>1, <1>6 DEF WantsTail, IInv
  <2>2. /\ PrefillsInv' /\ kv' = Rows(p, 0)
        /\ nextToken' = IF WantsTail THEN Greedy(p) ELSE NoToken
    BY <1>3, <2>1, PrefillFacts
  <2>3. kv' \in Seq(RowSet) /\ nextToken' \in Token \cup {NoToken}
    BY <1>3, <2>2, RowsFromStart, GreedyType
  <2>4. position' = Len(p)
    BY <1>1, <1>6
  <2>5. Shape'
    BY <1>1, <1>3, <2>3, <2>4 DEF IInv, Shape
  <2>6. SubSeq(p \o <<>>, 1, Len(p)) = p
    BY <1>3, NoAnswer
  <2>7. MorePositions' => WantsTail
    BY <1>1, <1>3, <2>4 DEF MorePositions, WantsTail
  <2>8. PlainInv'
    <3>1. AnsweredUpTo(position)'
      BY <1>1, <1>3, <1>4, <2>4 DEF AnsweredUpTo
    <3>2. SubSeq(req'.prompt \o generated', 1, position') = p
      BY <1>1, <1>4, <2>4, <2>6
    <3>3. position' <= Len(req'.prompt) + req'.max
      BY <1>1, <1>3, <2>4
    <3>4. MorePositions' => nextToken' = Greedy(p)
      BY <2>2, <2>7
    <3> QED
      BY <1>1, <2>2, <3>1, <3>2, <3>3, <3>4 DEF PlainInv
  <2> QED
    BY <1>1, <1>5, <2>2, <2>5, <2>8, PlainRunning DEF IInv
<1>7. CASE ~(Len(p) > 1 /\ req.prefill)
  <2>1. UNCHANGED <<kv, nextToken, prefills, position>>
    BY <1>1, <1>7
  <2>2. Shape' /\ PrefillsInv'
    BY <1>1, <2>1 DEF IInv, Shape, PrefillsInv
  <2>3. PlainInv'
    BY <1>1, <1>2, <2>1 DEF PlainInv, AnsweredUpTo, MorePositions
  <2> QED
    BY <1>1, <1>5, <2>2, <2>3, PlainRunning DEF IInv
<1> QED
  BY <1>6, <1>7

LEMMA PromptStepStep ==
  ASSUME VerifierChooses, IInv, PromptStep, UNCHANGED pager
  PROVE  IInv'
<1> DEFINE p == req.prompt
           n == position
           s == p \o generated
           t == p[n + 1]
           last == n + 1 = Len(p) /\ WantsTail
<1>1. /\ status = "running" /\ pc = "step" /\ pc' = pc /\ req.gen = "plain"
      /\ n < Len(p)
      /\ kv' = kv \o Rows(<<t>>, n)
      /\ nextToken' = IF last THEN Predicted(kv, n, <<t>>)[1] ELSE nextToken
      /\ position' = n + 1
      /\ UNCHANGED <<req, status, generated, committed, drafts, ver, native,
                     prefills, fault, served>>
  BY DEF IInv, Shape, PromptStep, ForwardToken
<1>2. PlainInv
  BY <1>1 DEF IInv, RunningInv
<1>3. /\ p \in Seq(Token) /\ Len(p) \in Nat \ {0} /\ req.max \in Nat /\ n \in Nat
  BY RequestFacts DEF IInv, Shape
<1>4. generated = <<>> /\ s = p
  BY <1>1, <1>2, <1>3, NoAnswer DEF PlainInv, AnsweredUpTo
<1>5. n \in 0 .. Len(p) /\ n < Len(p) /\ MorePositions
  BY <1>1, <1>3 DEF MorePositions
<1>6. kv = Rows(SubSeq(p, 1, n), 0)
  BY <1>2, <1>4, <1>5 DEF PlainInv
<1>7. /\ kv' = Rows(SubSeq(p, 1, n + 1), 0)
      /\ Predicted(kv, n, <<t>>)[1] = Greedy(SubSeq(p, 1, n + 1))
      /\ kv' \in Seq(RowSet)
      /\ SubSeq(p, 1, n + 1) \in Seq(Token)
  <2>1. /\ Rows(SubSeq(p, 1, n + 1), 0) = Rows(SubSeq(p, 1, n), 0) \o Rows(<<t>>, n)
        /\ Predicted(Rows(SubSeq(p, 1, n), 0), n, <<t>>)[1] = Greedy(SubSeq(p, 1, n + 1))
        /\ Rows(SubSeq(p, 1, n + 1), 0) \in Seq(RowSet)
        /\ SubSeq(p, 1, n + 1) \in Seq(Token)
    BY <1>3, <1>5, OneMore
  <2> QED
    BY <1>1, <1>6, <2>1
<1>8. nextToken' \in Token \cup {NoToken}
  <2>1. Greedy(SubSeq(p, 1, n + 1)) \in Token
    BY <1>7, GreedyType
  <2> QED
    BY <1>1, <1>7, <2>1 DEF IInv, Shape
<1>9. Shape'
  BY <1>1, <1>3, <1>7, <1>8 DEF IInv, Shape
<1>10. PrefillsInv' /\ PagerInv' /\ NativeInv'
  BY <1>1, PlainFrame
<1>11. AnswerInv' /\ BlockedInv' /\ ReadyIsComplete'
  BY <1>1 DEF IInv, AnswerInv, Trusted, Calm, BlockedInv, ReadyIsComplete
<1>12. PlainInv'
  <2>1. AnsweredUpTo(position)'
    BY <1>1, <1>3, <1>4 DEF AnsweredUpTo
  <2>2. position' <= Len(p) + req.max /\ (MorePositions' => WantsTail \/ n + 1 < Len(p))
    BY <1>1, <1>3, <1>5 DEF MorePositions, WantsTail
  <2>3. n + 1 >= Len(p) => n + 1 = Len(p)
    BY <1>3, <1>5
  <2>4. SubSeq(req'.prompt \o generated', 1, position') = SubSeq(p, 1, n + 1)
    BY <1>1, <1>4
  <2>5. MorePositions' /\ position' >= Len(req'.prompt) =>
           nextToken' = Greedy(SubSeq(p, 1, n + 1))
    BY <1>1, <1>3, <1>7, <2>2, <2>3
  <2> QED
    BY <1>1, <1>7, <2>1, <2>2, <2>4, <2>5 DEF PlainInv
<1> QED
  BY <1>1, <1>9, <1>10, <1>11, <1>12, PlainRunning DEF IInv

\* Where the plain loop answers: the answer so far is exact, its next token is the
\* verifier's choice, and one more can be run over its rows.
LEMMA PlainAnswers ==
  ASSUME VerifierChooses, IInv, status = "running", req.gen = "plain", MorePositions,
         position >= Len(req.prompt)
  PROVE  LET p == req.prompt
             s == p \o Append(generated, nextToken)
         IN  /\ p \in Seq(Token) /\ req.max \in Nat /\ position \in Nat
             /\ nextToken \in Token /\ nextToken # NoToken
             /\ generated \in Seq(Token) /\ Len(generated) = position - Len(p)
             /\ Append(generated, nextToken) \in Seq(Token)
             /\ Len(Append(generated, nextToken)) = Len(generated) + 1
             /\ Exact(p, Append(generated, nextToken))
             /\ Rows(SubSeq(s, 1, position + 1), 0) = kv \o Rows(<<nextToken>>, position)
             /\ Predicted(kv, position, <<nextToken>>)[1]
                   = Greedy(SubSeq(s, 1, position + 1))
             /\ Rows(SubSeq(s, 1, position + 1), 0) \in Seq(RowSet)
             /\ Greedy(SubSeq(s, 1, position + 1)) \in Token
<1> DEFINE p == req.prompt
           a == generated
           t == nextToken
           n == position
           s == p \o Append(a, t)
<1>1. PlainInv
  BY DEF IInv, RunningInv
<1>2. /\ p \in Seq(Token) /\ Len(p) \in Nat \ {0} /\ req.max \in Nat
      /\ a \in Seq(Token) /\ n \in Nat /\ Exact(p, a)
  BY RequestFacts DEF IInv, Shape, AnswerInv, Trusted
<1>3. n >= Len(p) /\ Len(a) = n - Len(p)
  BY <1>1, <1>2 DEF PlainInv, AnsweredUpTo
<1>4. kv = Rows(SubSeq(p \o a, 1, n), 0) /\ t = Greedy(SubSeq(p \o a, 1, n))
  BY <1>1 DEF PlainInv
<1> HIDE DEF p, a, t, n, s
<1>5. p \o a \in Seq(Token) /\ SubSeq(p \o a, 1, n) = p \o a
  <2>1. p \o a \in Seq(Token)
    BY <1>2, ConcatProperties
  <2>2. Len(p \o a) = n
    <3>1. Len(p \o a) = Len(p) + Len(a)
      BY <1>2, ConcatProperties
    <3> QED
      BY <1>2, <1>3, <3>1
  <2> QED
    BY <2>1, <2>2, SubSeqFull
<1>6. t = Greedy(p \o a) /\ t \in Token /\ t # NoToken
  BY <1>4, <1>5, GreedyType
<1>7. /\ s \in Seq(Token) /\ Len(s) = n + 1 /\ n \in 0 .. Len(s)
      /\ SubSeq(s, 1, n) = p \o a /\ s[n + 1] = t
  BY <1>2, <1>3, <1>6, WholeAnswer DEF s
<1>8. Append(a, t) \in Seq(Token) /\ Exact(p, Append(a, t))
  BY <1>2, <1>6, ExactAppend
<1>9. Len(Append(a, t)) = Len(a) + 1
  BY <1>2, <1>6, AppendFacts
<1>10. /\ Rows(SubSeq(s, 1, n + 1), 0) = kv \o Rows(<<t>>, n)
       /\ Predicted(kv, n, <<t>>)[1] = Greedy(SubSeq(s, 1, n + 1))
       /\ Rows(SubSeq(s, 1, n + 1), 0) \in Seq(RowSet)
       /\ SubSeq(s, 1, n + 1) \in Seq(Token)
  <2>1. n < Len(s)
    BY <1>2, <1>7
  <2>2. /\ Rows(SubSeq(s, 1, n + 1), 0) = Rows(SubSeq(s, 1, n), 0) \o Rows(<<s[n + 1]>>, n)
        /\ Predicted(Rows(SubSeq(s, 1, n), 0), n, <<s[n + 1]>>)[1]
              = Greedy(SubSeq(s, 1, n + 1))
        /\ Rows(SubSeq(s, 1, n + 1), 0) \in Seq(RowSet)
        /\ SubSeq(s, 1, n + 1) \in Seq(Token)
    BY <1>7, <2>1, OneMore
  <2> QED
    BY <1>4, <1>5, <1>7, <2>2
<1>11. Greedy(SubSeq(s, 1, n + 1)) \in Token
  BY <1>10, GreedyType
<1> QED
  BY <1>2, <1>3, <1>6, <1>8, <1>9, <1>10, <1>11 DEF p, a, t, n, s

LEMMA GenerateStepStep ==
  ASSUME VerifierChooses, IInv, GenerateStep, UNCHANGED pager
  PROVE  IInv' /\ Grows(generated, generated')
<1> DEFINE p == req.prompt
           a == generated
           t == nextToken
           n == position
           b == Append(a, t)
           s == p \o b
           more == Len(b) < req.max
<1>1. status = "running" /\ pc = "step" /\ req.gen = "plain" /\ MorePositions /\ n >= Len(p)
  BY DEF IInv, Shape, GenerateStep
<1>2. /\ p \in Seq(Token) /\ req.max \in Nat /\ n \in Nat
      /\ t \in Token /\ t # NoToken
      /\ a \in Seq(Token) /\ Len(a) = n - Len(p)
      /\ b \in Seq(Token) /\ Len(b) = Len(a) + 1 /\ Exact(p, b)
      /\ Rows(SubSeq(s, 1, n + 1), 0) = kv \o Rows(<<t>>, n)
      /\ Predicted(kv, n, <<t>>)[1] = Greedy(SubSeq(s, 1, n + 1))
      /\ Rows(SubSeq(s, 1, n + 1), 0) \in Seq(RowSet)
      /\ Greedy(SubSeq(s, 1, n + 1)) \in Token
  BY <1>1, PlainAnswers
<1>3. /\ generated' = b
      /\ IF t \in Eos
           THEN /\ position' = n + 1 /\ pc' = "idle" /\ status' = "ready"
                /\ UNCHANGED <<kv, nextToken>>
         ELSE IF more \/ req.final
           THEN /\ kv' = kv \o Rows(<<t>>, n)
                /\ nextToken' = IF more THEN Predicted(kv, n, <<t>>)[1] ELSE t
                /\ position' = n + 1 /\ pc' = pc /\ status' = status
           ELSE /\ position' = n + 1 /\ pc' = pc /\ status' = status
                /\ kv' = kv /\ nextToken' = t
      /\ UNCHANGED <<req, committed, drafts, ver, native, prefills, fault, served>>
  BY <1>2 DEF GenerateStep, ForwardToken, Leave
<1>4. n < Len(p) + req.max
  BY <1>1 DEF MorePositions
<1> HIDE DEF b
<1>5. /\ Len(p) \in Nat /\ Len(a) \in Nat /\ Len(b) = n + 1 - Len(p) /\ Len(b) <= req.max
      /\ (MorePositions' <=> more) /\ position' = n + 1
  <2>1. Len(p) \in Nat /\ Len(a) \in Nat
    BY <1>2
  <2>2. Len(b) = n + 1 - Len(p) /\ Len(b) <= req.max
    <3>1. n \in Nat /\ req.max \in Nat /\ Len(a) = n - Len(p) /\ Len(b) = Len(a) + 1
      BY <1>2
    <3> HIDE DEF p, a, n
    <3> QED
      BY <1>4, <2>1, <3>1
  <2>3. position' = n + 1
    BY <1>3
  <2>4. MorePositions' <=> n + 1 < Len(p) + req.max
    BY <1>3, <2>3 DEF MorePositions
  <2>5. (n + 1 < Len(p) + req.max) <=> Len(b) < req.max
    <3>1. n \in Nat /\ req.max \in Nat
      BY <1>2
    <3> HIDE DEF p, a, n
    <3> QED
      BY <2>1, <2>2, <3>1
  <2> QED
    BY <2>1, <2>2, <2>3, <2>4, <2>5
<1> DEFINE r == Rows(SubSeq(s, 1, n + 1), 0)
           g == Greedy(SubSeq(s, 1, n + 1))
<1>6. /\ kv' \in {kv, r} /\ nextToken' \in {t, g}
      /\ more /\ status' = "running" => kv' = r /\ nextToken' = g
      /\ t \notin Eos => status' = "running" /\ pc' = "step"
      /\ t \in Eos => status' = "ready" /\ pc' = "idle"
  BY <1>1, <1>2, <1>3
<1>7. req'.prompt \o generated' = s /\ req'.prompt = p
  BY <1>3
<1>8. r \in Seq(RowSet) /\ g \in Token
  BY <1>2
<1> HIDE DEF r, g, s, more
<1>9. Shape'
  <2>1. kv' \in Seq(RowSet) /\ nextToken' \in Token \cup {NoToken}
    BY <1>2, <1>6, <1>8 DEF IInv, Shape
  <2>2. n + 1 \in Nat
    BY <1>2
  <2> QED
    BY <1>2, <1>3, <1>5, <1>6, <2>1, <2>2 DEF IInv, Shape
<1>10. PrefillsInv' /\ PagerInv' /\ NativeInv'
  BY <1>1, <1>3, PlainFrame
<1>11. AnswerInv'
  BY <1>2, <1>3 DEF AnswerInv, p
<1>12. BlockedInv'
  BY <1>6 DEF BlockedInv
<1>13. ReadyIsComplete'
  <2>1. ASSUME t \in Eos PROVE StoppedByEos(generated')
    <3>1. b[Len(a) + 1] = t
      BY <1>2, AppendFacts, ZenonT(30) DEF b
    <3>2. Len(a) + 1 \in 1 .. Len(b)
      BY <1>2, <1>5
    <3> QED
      BY <1>3, <2>1, <3>1, <3>2 DEF StoppedByEos
  <2> QED
    BY <1>1, <1>3, <1>5, <1>6, <2>1 DEF ReadyIsComplete
<1>14. ASSUME status' = "running" PROVE PlainInv'
  <2>1. pc' = "step"
    BY <1>6, <1>14
  <2>2. AnsweredUpTo(position)'
    BY <1>2, <1>3, <1>5, <1>1 DEF AnsweredUpTo
  <2>3. position' <= Len(req'.prompt) + req'.max
    BY <1>2, <1>3, <1>4, <1>5
  <2>4. (kv' = r /\ nextToken' = g) \/ ~MorePositions'
    BY <1>5, <1>6, <1>14
  <2> QED
    BY <1>5, <1>7, <2>1, <2>2, <2>3, <2>4 DEF PlainInv, r, g
<1>15. RunningInv'
  BY <1>1, <1>3, <1>14, PlainRunning
<1>16. Grows(generated, generated')
  BY <1>2, <1>3, GrowsFacts DEF b
<1> QED
  BY <1>16, <1>9, <1>10, <1>11, <1>12, <1>13, <1>15 DEF IInv

LEMMA StepFailsStep ==
  ASSUME VerifierChooses, IInv, StepFails, UNCHANGED pager
  PROVE  IInv' /\ Grows(generated, generated')
<1>1. /\ status = "running" /\ req.gen = "plain" /\ MorePositions
      /\ fault' = TRUE /\ pc' = "idle" /\ status' = "blocked"
      /\ \/ generated' = generated
         \/ /\ position >= Len(req.prompt)
            /\ generated' = Append(generated, nextToken)
      /\ UNCHANGED <<req, committed, kv, nextToken, drafts, ver, native,
                     position, prefills, served>>
  BY DEF IInv, Shape, StepFails, Leave
<1>2. generated' \in Seq(Token) /\ Exact(req.prompt, generated')
  <2>1. CASE generated' = generated
    BY <1>1, <2>1 DEF IInv, Shape, AnswerInv, Trusted
  <2>2. CASE position >= Len(req.prompt) /\ generated' = Append(generated, nextToken)
    BY <1>1, <2>2, PlainAnswers
  <2> QED
    BY <1>1, <2>1, <2>2
<1>3. Shape'
  BY <1>1, <1>2 DEF IInv, Shape
<1>4. PrefillsInv' /\ PagerInv' /\ NativeInv'
  BY <1>1, PlainFrame
<1>5. AnswerInv' /\ BlockedInv' /\ ReadyIsComplete' /\ RunningInv'
  BY <1>1, <1>2 DEF AnswerInv, BlockedInv, ReadyIsComplete, RunningInv
<1>6. Grows(generated, generated')
  <2>1. generated \in Seq(Token)
    BY DEF IInv, Shape
  <2>2. CASE generated' = generated
    BY <2>1, <2>2, GrowsFacts
  <2>3. CASE position >= Len(req.prompt) /\ generated' = Append(generated, nextToken)
    BY <1>1, <2>1, <2>3, PlainAnswers, GrowsFacts
  <2> QED
    BY <1>1, <2>2, <2>3
<1> QED
  BY <1>6, <1>3, <1>4, <1>5 DEF IInv

LEMMA PlainDoneStep ==
  ASSUME IInv, PlainDone, UNCHANGED pager
  PROVE  IInv'
<1>1. /\ status = "running" /\ req.gen = "plain" /\ ~MorePositions
      /\ pc' = "idle" /\ status' = "ready"
      /\ UNCHANGED <<req, generated, committed, kv, nextToken, drafts, ver, native,
                     position, prefills, fault, served>>
  BY DEF IInv, Shape, PlainDone, Leave
<1>2. PlainInv
  BY <1>1 DEF IInv, RunningInv
<1>3. Len(req.prompt) \in Nat /\ req.max \in Nat /\ position \in Nat
  BY RequestFacts DEF IInv, Shape
<1>4. Len(generated) = req.max
  BY <1>1, <1>2, <1>3 DEF PlainInv, AnsweredUpTo, MorePositions
<1>5. Shape'
  BY <1>1 DEF IInv, Shape
<1>6. PrefillsInv' /\ PagerInv' /\ NativeInv'
  BY <1>1, PlainFrame
<1>7. AnswerInv' /\ BlockedInv' /\ ReadyIsComplete' /\ RunningInv'
  BY <1>1, <1>3, <1>4 DEF IInv, AnswerInv, Trusted, Calm, BlockedInv, ReadyIsComplete, RunningInv
<1> QED
  BY <1>5, <1>6, <1>7 DEF IInv

\* Every step of the plain and of the cached FP8 generator keeps the invariant.
LEMMA FP8Preserves ==
  ASSUME VerifierChooses, IInv, FP8Step, UNCHANGED pager
  PROVE  IInv'
<1>1. CASE PlainPrefillFails \/ OpenSessionFails \/ VerifyCachedFails
  BY <1>1, GiveUpStep DEF PlainPrefillFails, PrefillFails, OpenSessionFails, VerifyCachedFails
<1> QED
  BY <1>1, BeginFP8, PlainPrefillStep, PromptStepStep, GenerateStepStep, StepFailsStep,
     PlainDoneStep, OpenSessionStep, ProposeCachedStep, VerifyCachedStep, AcceptCachedStep
     DEF FP8Step

-----------------------------------------------------------------------------
(***************************************************************************)
(* Multi-token prediction.                                                 *)
(***************************************************************************)
\* What is shown of an answer: all of it, or what comes before its first end token.
LEMMA VisibleFacts ==
  ASSUME NEW s \in Seq(Token)
  PROVE  /\ Len(Visible(s)) \in 0 .. Len(s)
         /\ ~StoppedByEos(s) => Visible(s) = s
         /\ \A i \in 1 .. Len(s) : s[i] \in Eos => Len(Visible(s)) < i
<1> DEFINE ends == {i \in 1 .. Len(s) : s[i] \in Eos}
           stop == {n \in 0 .. Len(s) : \A i \in ends : n < i}
           most(n) == \A m \in stop : m <= n
           some == stop \ {0}
<1>1. 0 \in stop
  OBVIOUS
<1>2. Len(s) \in Nat /\ stop \in SUBSET (0 .. Len(s))
  OBVIOUS
<1>3. ASSUME NEW i \in some, NEW j \in 1 .. i
      PROVE  j \in some
  <2>1. i \in 1 .. Len(s) /\ \A e \in ends : i < e
    OBVIOUS
  <2>2. j \in 1 .. Len(s) /\ j <= i
    BY <2>1
  <2>3. \A e \in ends : j < e
    BY <2>1, <2>2
  <2> QED
    BY <2>2, <2>3
<1>4. (~StoppedByEos(s)) => Len(s) \in stop
  BY DEF StoppedByEos
<1>5. \A n \in stop : \A i \in 1 .. Len(s) : s[i] \in Eos => n < i
  OBVIOUS
<1>6. Visible(s) = SubSeq(s, 1, CHOOSE n \in stop : most(n))
  BY DEF Visible
<1> HIDE DEF stop
<1>7. some \in SUBSET (1 .. Len(s))
  BY <1>2
<1> HIDE DEF some
<1>8. Cardinality(some) \in 0 .. Len(s) /\ some = 1 .. Cardinality(some)
  BY <1>2, <1>3, <1>7, InitialSegment
<1>9. \E n \in stop : most(n)
  <2>1. CASE Cardinality(some) = 0
    <3>1. some = {}
      BY <1>8, <2>1
    <3>2. \A m \in stop : m <= 0
      BY <3>1 DEF some
    <3> QED
      BY <1>1, <3>2
  <2>2. CASE Cardinality(some) # 0
    <3>1. Cardinality(some) \in some
      BY <1>8, <2>2
    <3>2. Cardinality(some) \in stop
      BY <3>1 DEF some
    <3>3. \A m \in stop : m = 0 \/ m \in 1 .. Cardinality(some)
      BY <1>8 DEF some
    <3>4. most(Cardinality(some))
      BY <1>8, <3>3
    <3> QED
      BY <3>2, <3>4
  <2> QED
    BY <2>1, <2>2
<1> DEFINE n == CHOOSE n \in stop : most(n)
<1>10. n \in stop /\ most(n)
  BY <1>9
<1> HIDE DEF n, most
<1>11. n \in 0 .. Len(s)
  BY <1>2, <1>10
<1>12. Visible(s) = SubSeq(s, 1, n)
  BY <1>6 DEF n
<1>13. Len(Visible(s)) = n
  BY <1>11, <1>12, Prefix
<1>14. ASSUME ~StoppedByEos(s) PROVE Visible(s) = s
  <2>1. Len(s) <= n
    BY <1>4, <1>10, <1>14 DEF most
  <2>2. n = Len(s)
    BY <1>2, <1>11, <2>1
  <2> QED
    BY <1>12, <2>2, SubSeqFull
<1> QED
  BY <1>5, <1>10, <1>11, <1>13, <1>14

\* What is wanted of a request that may draft, and how deep its trees are.
LEMMA MtpWants ==
  ASSUME IInv, req.gen = "mtp", status = "running"
  PROVE  /\ MtpInv /\ req.prompt \in Prompts /\ req.prompt \in Seq(Token)
         /\ req.max \in Nat \ {0} /\ req.k \in Nat \ {0} /\ req.tree \in BOOLEAN
         /\ generated \in Seq(Token) /\ Len(generated) \in Nat
         /\ Exact(req.prompt, generated)
         /\ Visible(generated) = generated
         /\ Enough(generated) <=> Len(generated) >= req.max
         /\ RemainingVisible = req.max - Len(generated)
         /\ Excess \in Nat /\ (req.tree => Excess = 0) /\ (~req.tree => Excess = req.k - 1)
         /\ ~native.on
         /\ Len(generated) < req.max => TreeDepth \in 1 .. req.max - Len(generated)
<1>1. MtpInv /\ Exact(req.prompt, generated)
  BY DEF IInv, RunningInv, AnswerInv, Trusted
<1>2. /\ req.prompt \in Prompts /\ req.prompt \in Seq(Token)
      /\ req.max \in Nat \ {0} /\ req.k \in Nat \ {0} /\ req.tree \in BOOLEAN
      /\ req.depth \in Nat \ {0}
      /\ generated \in Seq(Token) /\ Len(generated) \in Nat
  BY RequestFacts DEF IInv, Shape
<1>3. ~StoppedByEos(generated)
  BY <1>1 DEF MtpInv
<1>4. Visible(generated) = generated
  BY <1>2, <1>3, VisibleFacts
<1>5. RemainingVisible = req.max - Len(generated)
  BY <1>4 DEF RemainingVisible
<1>6. Enough(generated) <=> Len(generated) >= req.max
  BY <1>3, <1>4 DEF Enough
<1>7. Excess \in Nat /\ (req.tree => Excess = 0) /\ (~req.tree => Excess = req.k - 1)
  BY <1>2 DEF Excess
<1>8. ~native.on
  BY DEF IInv, NativeInv
<1>9. ASSUME Len(generated) < req.max
      PROVE  TreeDepth \in 1 .. req.max - Len(generated)
  <2>1. RemainingVisible \in Nat \ {0}
    BY <1>2, <1>5, <1>9
  <2>2. TreeDepth \in {RemainingVisible, Least(req.depth, RemainingVisible)}
    BY DEF TreeDepth
  <2>3. Least(req.depth, RemainingVisible) \in Nat \ {0}
        /\ Least(req.depth, RemainingVisible) <= RemainingVisible
    BY <1>2, <2>1, LeastFacts
  <2> QED
    BY <1>5, <2>1, <2>2, <2>3
<1> QED
  BY <1>1, <1>2, <1>4, <1>5, <1>6, <1>7, <1>8, <1>9

LEMMA MtpRunning ==
  ASSUME req'.gen = "mtp", status' = "running" => MtpInv'
  PROVE  RunningInv'
  BY DEF RunningInv, Paging, PagedKinds

LEMMA MtpPrefillStep ==
  ASSUME VerifierChooses, IInv, MtpPrefill, UNCHANGED pager
  PROVE  IInv'
<1> DEFINE p == req.prompt
<1>1. /\ status = "running" /\ pc = "prefill" /\ req.gen = "mtp"
      /\ PrefillWithCache(TRUE)
      /\ UNCHANGED <<req, generated, committed, drafts, ver, native,
                     position, fault, served>>
  BY DEF IInv, Shape, MtpPrefill
<1>2. MtpInv /\ p \in Prompts /\ p \in Seq(Token) /\ ~native.on
  BY <1>1, MtpWants
<1>3. /\ PrefillsInv' /\ kv' = Rows(p, 0) /\ nextToken' = Greedy(p)
  BY <1>1, <1>2, PrefillFacts DEF IInv
<1>4. kv' \in Seq(RowSet) /\ nextToken' \in Token /\ nextToken' # NoToken
  BY <1>2, <1>3, RowsFromStart, GreedyType
<1>5. pc' = "draft" /\ status' = status
  BY <1>4 DEF MtpPrefill
<1>6. Shape'
  BY <1>1, <1>4, <1>5 DEF IInv, Shape
<1>7. PagerInv' /\ AnswerInv' /\ NativeInv' /\ BlockedInv' /\ ReadyIsComplete'
  BY <1>1, <1>2, <1>5 DEF IInv, PagerInv, AnswerInv, Trusted, Calm, NativeInv,
     BlockedInv, ReadyIsComplete
<1>8. generated = <<>>
  BY <1>1, <1>2 DEF MtpInv
<1>9. p \o <<>> = p
  BY <1>2, NoAnswer
<1>10. MtpInv'
  BY <1>1, <1>2, <1>3, <1>5, <1>8, <1>9 DEF MtpInv, Drafted, Excess
<1> QED
  BY <1>1, <1>3, <1>6, <1>7, <1>10, MtpRunning DEF IInv

LEMMA MtpDoneStep ==
  ASSUME IInv, MtpDone, UNCHANGED pager
  PROVE  IInv'
<1>1. /\ status = "running" /\ req.gen = "mtp" /\ pc' = "idle"
      /\ status' = IF Enough(generated) THEN "ready" ELSE "blocked"
      /\ Enough(generated) \/ position >= req.passes
      /\ UNCHANGED <<req, generated, committed, kv, nextToken, drafts, ver, native,
                     position, prefills, fault, served>>
  BY DEF IInv, Shape, MtpDone, Leave
<1>2. /\ MtpInv /\ ~native.on /\ Visible(generated) = generated
      /\ Enough(generated) <=> Len(generated) >= req.max
  BY <1>1, MtpWants
<1>3. Shape'
  BY <1>1 DEF IInv, Shape
<1>4. PrefillsInv' /\ PagerInv' /\ AnswerInv' /\ NativeInv'
  BY <1>1, <1>2 DEF IInv, PrefillsInv, PagerInv, AnswerInv, Trusted, Calm, NativeInv
<1>5. BlockedInv' /\ RunningInv'
  BY <1>1 DEF BlockedInv, RunningInv
<1>6. ReadyIsComplete'
  BY <1>1, <1>2 DEF ReadyIsComplete, MtpInv, Excess
<1> QED
  BY <1>3, <1>4, <1>5, <1>6 DEF IInv

\* Drafting: what a row or some rows must be for the invariant to hold.
LEMMA DraftStep ==
  ASSUME IInv, DraftStarts, pc' = "verify", fault' \in BOOLEAN,
         UNCHANGED <<req, status, generated, committed, kv, nextToken, ver,
                     native, position, prefills, served>>,
         UNCHANGED pager,
         drafts' \in Seq(Seq(Token)), MtpRows'
  PROVE  IInv'
<1>1. status = "running" /\ req.gen = "mtp" /\ pc = "draft" /\ ~Enough(generated)
  BY DEF DraftStarts, IInv, Shape
<1>2. /\ MtpInv /\ Len(generated) \in Nat /\ req.max \in Nat
      /\ Enough(generated) <=> Len(generated) >= req.max
  BY <1>1, MtpWants
<1>3. Len(generated) < req.max
  BY <1>1, <1>2
<1>4. Shape'
  BY <1>1 DEF IInv, Shape
<1>5. MtpInv'
  BY <1>1, <1>2, <1>3 DEF MtpInv, Drafted, Excess
<1>6. RunningInv'
  BY <1>1, <1>5, MtpRunning
<1> QED
  BY <1>1, <1>4, <1>6, InnerStep

LEMMA DraftLinearStep ==
  ASSUME IInv, DraftLinear, UNCHANGED pager
  PROVE  IInv'
<1>1. /\ DraftStarts /\ ~req.tree /\ pc' = "verify"
      /\ UNCHANGED <<req, status, generated, committed, kv, nextToken, ver, tent,
                     native, position, prefills, fault, served>>
  BY DEF DraftLinear
<1>2. PICK c \in UpTo(Token, req.k) : LinearRow(c) /\ drafts' = <<c>>
  BY DEF DraftLinear
<1>3. req.k \in Nat \ {0}
  BY RequestFacts DEF IInv, Shape
<1>4. PICK m \in 0 .. req.k : c \in [1 .. m -> Token]
  BY <1>2 DEF UpTo
<1>5. /\ c \in Seq(Token) /\ Len(c) = m
      /\ <<c>> \in Seq(Seq(Token)) /\ Len(<<c>>) = 1 /\ <<c>>[1] = c
  BY <1>3, <1>4, OneRowFacts
<1>6. Len(c) \in 1 .. req.k /\ c[1] = nextToken
  BY <1>2 DEF LinearRow
<1>7. c # <<>>
  BY <1>5, <1>6
<1>8. MtpRows'
  BY <1>1, <1>2, <1>3, <1>5, <1>6, <1>7 DEF MtpRows
<1>9. fault' \in BOOLEAN /\ drafts' \in Seq(Seq(Token))
  BY <1>1, <1>2, <1>5 DEF IInv, Shape
<1> QED
  BY <1>1, <1>8, <1>9, DraftStep

\* Rows of one length that each start with the verifier's token.
LEMMA TreeRows ==
  ASSUME NEW m \in Nat \ {0}, NEW c \in [1 .. m -> Token], c[1] = nextToken
  PROVE  c \in Seq(Token) /\ Len(c) = m /\ c # <<>> /\ c[1] = nextToken
<1>1. c \in Seq(Token) /\ Len(c) = m
  BY OneRowFacts
<1> QED
  BY <1>1

LEMMA DraftTreeStep ==
  ASSUME VerifierChooses, IInv, DraftTree, UNCHANGED pager
  PROVE  IInv'
<1>1. /\ DraftStarts /\ req.tree /\ pc' = "verify"
      /\ UNCHANGED <<req, status, generated, committed, kv, nextToken, ver, tent,
                     native, position, prefills, fault, served>>
  BY DEF DraftTree
<1>2. status = "running" /\ req.gen = "mtp" /\ pc = "draft" /\ ~Enough(generated)
  BY <1>1 DEF DraftStarts, IInv, Shape
<1>3. /\ MtpInv /\ Len(generated) < req.max /\ TreeDepth \in Nat \ {0}
      /\ req.prompt \in Seq(Token) /\ generated \in Seq(Token)
  <2>1. /\ MtpInv /\ req.max \in Nat /\ Len(generated) \in Nat
        /\ req.prompt \in Seq(Token) /\ generated \in Seq(Token)
        /\ Enough(generated) <=> Len(generated) >= req.max
        /\ Len(generated) < req.max => TreeDepth \in 1 .. req.max - Len(generated)
    BY <1>2, MtpWants
  <2> QED
    BY <1>2, <2>1
<1>4. nextToken \in Token
  <2>1. nextToken = Greedy(req.prompt \o generated)
    BY <1>2, <1>3 DEF MtpInv
  <2> QED
    BY <1>3, <2>1, GreedyType, ConcatProperties
<1>5. TreeDepth' = TreeDepth
  BY <1>1 DEF TreeDepth, RemainingVisible
<1>6. drafts' \in Seq(Seq(Token)) /\ MtpRows'
  <2>1. CASE drafts' = <<<<nextToken>>>>
    <3>1. <<nextToken>> \in Seq(Token) /\ <<nextToken>> # <<>> /\ Len(<<nextToken>>) = 1
          /\ <<nextToken>>[1] = nextToken
      BY <1>4
    <3>2. drafts' \in Seq(Seq(Token)) /\ Len(drafts') = 1 /\ drafts'[1] = <<nextToken>>
      BY <2>1, <3>1
    <3> QED
      BY <1>1, <3>1, <3>2 DEF MtpRows
  <2>2. CASE \E n \in 1 .. 2 :
               \E rows \in [1 .. n -> {c \in [1 .. TreeDepth -> Token] : TreeRow(c)}] :
                   (n = 2 => rows[1] # rows[2]) /\ drafts' = rows
    <3>0. PICK n \in 1 .. 2 :
               \E rows \in [1 .. n -> {c \in [1 .. TreeDepth -> Token] : TreeRow(c)}] :
                   drafts' = rows
      BY <2>2
    <3>1. PICK rows \in [1 .. n -> {c \in [1 .. TreeDepth -> Token] : TreeRow(c)}] :
                   drafts' = rows
      BY <3>0
    <3>2. ASSUME NEW b \in 1 .. n
          PROVE  /\ rows[b] \in Seq(Token) /\ Len(rows[b]) = TreeDepth
                 /\ rows[b] # <<>> /\ rows[b][1] = nextToken
      <4>1. rows[b] \in [1 .. TreeDepth -> Token] /\ rows[b][1] = nextToken
        BY DEF TreeRow
      <4> QED
        BY <1>3, <4>1, TreeRows
    <3>3. n \in Nat /\ 1 \in 1 .. n
      OBVIOUS
    <3>4. rows \in [1 .. n -> Seq(Token)]
      BY <3>2
    <3>5. rows \in Seq(Seq(Token)) /\ Len(rows) = n
      BY <3>3, <3>4
    <3> QED
      BY <1>1, <1>5, <3>1, <3>2, <3>3, <3>5 DEF MtpRows
  <2> QED
    BY <2>1, <2>2 DEF DraftTree
<1>7. fault' \in BOOLEAN
  BY <1>1 DEF IInv, Shape
<1> QED
  BY <1>1, <1>6, <1>7, DraftStep

LEMMA DraftTreeCutStep ==
  ASSUME IInv, DraftTreeCut, UNCHANGED pager
  PROVE  IInv'
<1>1. /\ DraftStarts /\ req.tree /\ pc' = "verify" /\ fault' = TRUE
      /\ UNCHANGED <<req, status, generated, committed, kv, nextToken, ver, tent,
                     native, position, prefills, served>>
  BY DEF DraftTreeCut
<1>2. status = "running" /\ req.gen = "mtp" /\ pc = "draft" /\ ~Enough(generated)
  BY <1>1 DEF DraftStarts, IInv, Shape
<1>3. TreeDepth \in Nat \ {0}
  <2>1. /\ req.max \in Nat /\ Len(generated) \in Nat
        /\ Enough(generated) <=> Len(generated) >= req.max
        /\ Len(generated) < req.max => TreeDepth \in 1 .. req.max - Len(generated)
    BY <1>2, MtpWants
  <2> QED
    BY <1>2, <2>1
<1>4. TreeDepth' = TreeDepth
  BY <1>1 DEF TreeDepth, RemainingVisible
<1>5. PICK c \in [1 .. TreeDepth -> Token] : TreeRow(c) /\ drafts' = <<c>>
  BY DEF DraftTreeCut
<1>6. c \in Seq(Token) /\ Len(c) = TreeDepth /\ c # <<>> /\ c[1] = nextToken
  BY <1>3, <1>5, TreeRows DEF TreeRow
<1>7. drafts' \in Seq(Seq(Token)) /\ Len(drafts') = 1 /\ drafts'[1] = c
  BY <1>5, <1>6
<1>8. MtpRows'
  BY <1>1, <1>4, <1>6, <1>7 DEF MtpRows
<1> QED
  BY <1>1, <1>7, <1>8, DraftStep

\* A pass of the first candidates of a row gives the verifier's ids of the row.
LEMMA IdsOfPrefix ==
  ASSUME VerifierChooses, NEW c \in Seq(Token), NEW d \in Seq(Token), NEW m \in 0 .. Len(d)
  PROVE  LET run == SubSeq(d, 1, m)
             ids == <<Greedy(c)>> \o Predicted(Rows(c, 0), Len(c), run)
         IN  /\ IdsExact(c, d, ids) /\ Len(ids) = m + 1
             /\ Rows(c, 0) \o Rows(run, Len(c)) = Rows(c \o run, 0)
<1> DEFINE run == SubSeq(d, 1, m)
           ids == <<Greedy(c)>> \o Predicted(Rows(c, 0), Len(c), run)
<1>1. run \in Seq(Token) /\ Len(run) = m
  BY Prefix
<1>2. \A i \in 0 .. m : SubSeq(run, 1, i) = SubSeq(d, 1, i)
  BY PrefixOfPrefix
<1> HIDE DEF run
<1>3. IdsExact(c, run, ids) /\ Len(ids) = Len(run) + 1
  BY <1>1, IdsOfPass
<1>4. Rows(c, 0) \o Rows(run, Len(c)) = Rows(c \o run, 0)
  BY <1>1, RowsConcat
<1> HIDE DEF ids
<1>5. ids \in Seq(Token) /\ Len(ids) = m + 1 /\ Len(ids) \in 1 .. Len(d) + 1
  BY <1>1, <1>3 DEF IdsExact
<1>6. ASSUME NEW i \in 1 .. Len(ids)
      PROVE  ids[i] = Greedy(c \o SubSeq(d, 1, i - 1))
  <2>1. i - 1 \in 0 .. m
    BY <1>5
  <2>2. ids[i] = Greedy(c \o SubSeq(run, 1, i - 1))
    BY <1>3 DEF IdsExact
  <2> QED
    BY <1>2, <2>1, <2>2
<1> QED
  BY <1>4, <1>5, <1>6 DEF IdsExact, ids, run

LEMMA VerifyMtpStep ==
  ASSUME VerifierChooses, IInv, VerifyMtp, UNCHANGED pager
  PROVE  IInv'
<1> DEFINE c == req.prompt \o generated
           off(d) == Len(d) - (IF Trimmed THEN 1 ELSE 0)
           run(d) == IF Trimmed THEN SubSeq(d, 1, Len(d) - 1) ELSE d
           ids(d) == <<nextToken>> \o Predicted(kv, StartPos, run(d))
           rows(d) == kv \o Rows(run(d), StartPos)
<1>1. /\ status = "running" /\ req.gen = "mtp" /\ pc = "verify" /\ pc' = "accept"
      /\ ver' = [b \in 1 .. Len(drafts) |-> ids(drafts[b])]
      /\ tent' = [b \in 1 .. Len(drafts) |-> rows(drafts[b])]
      /\ UNCHANGED <<req, status, generated, committed, kv, nextToken, drafts,
                     native, position, prefills, fault, served>>
  BY DEF IInv, Shape, VerifyMtp
<1>2. /\ MtpInv /\ req.prompt \in Seq(Token) /\ generated \in Seq(Token)
      /\ drafts \in Seq(Seq(Token))
  BY <1>1, MtpWants DEF IInv, Shape
<1>3. /\ kv = Rows(c, 0) /\ nextToken = Greedy(c) /\ MtpRows /\ Len(generated) < req.max
  BY <1>1, <1>2 DEF MtpInv, Drafted
<1>4. c \in Seq(Token) /\ StartPos = Len(c)
  BY <1>2, ConcatProperties DEF StartPos
<1>5. ASSUME NEW b \in 1 .. Len(drafts)
      PROVE  /\ Len(drafts[b]) \in Nat
             /\ IdsExact(c, drafts[b], ids(drafts[b]))
             /\ Len(ids(drafts[b])) = off(drafts[b]) + 1
             /\ rows(drafts[b]) = Rows(c \o SubSeq(drafts[b], 1, off(drafts[b])), 0)
  <2> DEFINE d == drafts[b]
  <2>1. d \in Seq(Token) /\ Len(d) \in Nat /\ d # <<>>
    BY <1>2, <1>3, RowType DEF MtpRows
  <2> HIDE DEF d
  <2>2. off(d) \in 0 .. Len(d)
    BY <2>1
  <2>3. run(d) = SubSeq(d, 1, off(d))
    BY <2>1, SubSeqFull
  <2> DEFINE m == off(d)
             r == SubSeq(d, 1, m)
             i == <<Greedy(c)>> \o Predicted(Rows(c, 0), Len(c), r)
  <2>4. m \in 0 .. Len(d) /\ run(d) = r
    BY <2>2, <2>3
  <2> HIDE DEF c, m, run
  <2>5. /\ IdsExact(c, d, i) /\ Len(i) = m + 1
        /\ Rows(c, 0) \o Rows(r, Len(c)) = Rows(c \o r, 0)
    BY <1>4, <2>1, <2>4, IdsOfPrefix
  <2>6. ids(d) = i /\ rows(d) = Rows(c, 0) \o Rows(r, Len(c))
    BY <1>3, <1>4, <2>4
  <2> QED
    BY <2>1, <2>5, <2>6 DEF d, m
<1> HIDE DEF ids, rows, run, c
<1>6. ver' \in Seq(Seq(Token)) /\ Len(ver') = Len(drafts)
  <2>1. \A b \in 1 .. Len(drafts) : ids(drafts[b]) \in Seq(Token)
    BY <1>5 DEF IdsExact
  <2>2. Len(drafts) \in Nat
    BY <1>2
  <2> QED
    BY <1>1, <2>1, <2>2, IsASeq
<1>7. Len(tent') = Len(drafts)
  <2>1. Len(drafts) \in Nat
    BY <1>2
  <2> QED
    BY <1>1, <2>1
<1>8. Shape'
  BY <1>1, <1>6 DEF IInv, Shape
<1>9. MtpVerified'
  <2>1. Trimmed' <=> Trimmed
    BY <1>1 DEF Trimmed, TreeDepth, RemainingVisible
  <2>2. ASSUME NEW b \in 1 .. Len(drafts)
        PROVE  /\ IdsExact(c, drafts[b], ver'[b])
               /\ Len(ver'[b]) = Len(drafts[b]) + (IF Trimmed THEN 0 ELSE 1)
               /\ tent'[b] = Rows(c \o SubSeq(drafts[b], 1, Len(ver'[b]) - 1), 0)
    <3>1. ver'[b] = ids(drafts[b]) /\ tent'[b] = rows(drafts[b])
      BY <1>1
    <3> DEFINE d == drafts[b]
               m == off(d)
    <3>2. /\ Len(d) \in Nat /\ IdsExact(c, d, ids(d)) /\ Len(ids(d)) = m + 1
          /\ rows(d) = Rows(c \o SubSeq(d, 1, m), 0)
      BY <1>5
    <3> HIDE DEF d
    <3>3. m + 1 = Len(d) + (IF Trimmed THEN 0 ELSE 1) /\ m + 1 - 1 = m /\ m \in Int
      BY <3>2
    <3> HIDE DEF m
    <3>4. /\ Len(ids(d)) = Len(d) + (IF Trimmed THEN 0 ELSE 1)
          /\ rows(d) = Rows(c \o SubSeq(d, 1, Len(ids(d)) - 1), 0)
      BY <3>2, <3>3
    <3> QED
      BY <3>1, <3>2, <3>4 DEF d
  <2> QED
    BY <1>1, <1>6, <1>7, <2>1, <2>2 DEF MtpVerified, c
<1>10. MtpRows'
  BY <1>1, <1>3 DEF MtpRows, TreeDepth, RemainingVisible
<1>11. MtpInv'
  BY <1>1, <1>2, <1>3, <1>9, <1>10 DEF MtpInv, Excess
<1>12. RunningInv'
  BY <1>1, <1>11, MtpRunning
<1> QED
  BY <1>1, <1>8, <1>12, InnerStep

\* Of one or two rows one is the best.
LEMMA BestRowFacts ==
  ASSUME drafts \in Seq(Seq(Token)), ver \in Seq(Seq(Token)), Len(drafts) \in 1 .. 2,
         Len(ver) = Len(drafts)
  PROVE  BestRow \in 1 .. Len(drafts)
<1> DEFINE n(b) == Agreed(drafts[b], ver[b])
           best(b) == \A o \in 1 .. Len(drafts) : n(o) < n(b) \/ (n(o) = n(b) /\ b <= o)
<1>1. ASSUME NEW b \in 1 .. Len(drafts)
      PROVE  n(b) \in Nat
  <2>1. drafts[b] \in Seq(Token) /\ ver[b] \in Seq(Token)
    BY RowType
  <2>2. Agreed(drafts[b], ver[b]) \in 0 .. Len(drafts[b])
    BY <2>1, AgreedFacts
  <2> QED
    BY <2>2
<1>2. BestRow = CHOOSE b \in 1 .. Len(drafts) : best(b)
  BY DEF BestRow
<1> HIDE DEF n
<1>3. \E b \in 1 .. Len(drafts) : best(b)
  <2>1. CASE Len(drafts) = 1
    BY <1>1, <2>1
  <2>2. CASE Len(drafts) = 2
    <3>1. 1 \in 1 .. Len(drafts) /\ 2 \in 1 .. Len(drafts)
          /\ \A o \in 1 .. Len(drafts) : o = 1 \/ o = 2
      BY <2>2
    <3>2. n(1) \in Nat /\ n(2) \in Nat
      BY <1>1, <3>1
    <3>3. CASE n(2) <= n(1)
      <4>1. ASSUME NEW o \in 1 .. Len(drafts)
            PROVE  n(o) < n(1) \/ (n(o) = n(1) /\ 1 <= o)
        <5>1. CASE o = 1
          BY <3>2, <5>1
        <5>2. CASE o = 2
          BY <3>2, <3>3, <5>2
        <5> QED
          BY <3>1, <5>1, <5>2
      <4> QED
        BY <3>1, <4>1
    <3>4. CASE ~(n(2) <= n(1))
      <4>1. ASSUME NEW o \in 1 .. Len(drafts)
            PROVE  n(o) < n(2) \/ (n(o) = n(2) /\ 2 <= o)
        <5>1. CASE o = 1
          BY <3>2, <3>4, <5>1
        <5>2. CASE o = 2
          BY <3>2, <5>2
        <5> QED
          BY <3>1, <5>1, <5>2
      <4> QED
        BY <3>1, <4>1
    <3> QED
      BY <3>3, <3>4
  <2>3. Len(drafts) = 1 \/ Len(drafts) = 2
    OBVIOUS
  <2> QED
    BY <2>1, <2>2, <2>3
<1> HIDE DEF best
<1> QED
  BY <1>2, <1>3

\* What the best row of a verified pass is.
LEMMA BestRowVerified ==
  ASSUME IInv, req.gen = "mtp", status = "running", pc = "accept"
  PROVE  LET c == req.prompt \o generated
             d == drafts[BestRow]
             ids == ver[BestRow]
         IN  /\ d \in Seq(Token) /\ ids \in Seq(Token)
             /\ d # <<>> /\ d[1] = Greedy(c)
             /\ IdsExact(c, d, ids)
             /\ Len(d) <= req.max - Len(generated) + Excess
             /\ Len(ids) <= Len(d) => Len(generated) + Len(ids) >= req.max
             /\ tent[BestRow] = Rows(c \o SubSeq(d, 1, Len(ids) - 1), 0)
             /\ Len(generated) < req.max
<1> DEFINE b == BestRow
           c == req.prompt \o generated
           d == drafts[b]
           ids == ver[b]
<1>1. /\ MtpInv /\ req.max \in Nat \ {0} /\ req.k \in Nat \ {0} /\ req.tree \in BOOLEAN
      /\ Len(generated) \in Nat
      /\ RemainingVisible = req.max - Len(generated)
      /\ Excess \in Nat /\ (req.tree => Excess = 0) /\ (~req.tree => Excess = req.k - 1)
      /\ Len(generated) < req.max => TreeDepth \in 1 .. req.max - Len(generated)
  BY MtpWants
<1>2. /\ Len(generated) < req.max /\ MtpRows /\ MtpVerified
      /\ nextToken = Greedy(c)
  BY <1>1 DEF MtpInv, Drafted
<1>3. drafts \in Seq(Seq(Token)) /\ ver \in Seq(Seq(Token))
  BY DEF IInv, Shape
<1>4. Len(drafts) \in 1 .. 2 /\ Len(ver) = Len(drafts)
  BY <1>2 DEF MtpRows, MtpVerified
<1>5. b \in 1 .. Len(drafts) /\ b \in 1 .. Len(ver)
  BY <1>3, <1>4, BestRowFacts
<1> HIDE DEF b
<1>6. d \in Seq(Token) /\ Len(d) \in Nat /\ ids \in Seq(Token) /\ Len(ids) \in Nat
  BY <1>3, <1>5, RowType
<1>7. /\ d # <<>> /\ d[1] = nextToken /\ Len(d) = Len(drafts[1])
      /\ IF req.tree THEN Len(d) \in {1, TreeDepth} ELSE Len(d) <= req.k
  BY <1>2, <1>5 DEF MtpRows
<1>8. /\ IdsExact(c, d, ids)
      /\ Len(ids) = Len(d) + (IF Trimmed THEN 0 ELSE 1)
      /\ tent[b] = Rows(c \o SubSeq(d, 1, Len(ids) - 1), 0)
  BY <1>2, <1>5 DEF MtpVerified
<1> HIDE DEF c, d, ids
<1>9. Len(d) <= req.max - Len(generated) + Excess
  <2>1. /\ req.max \in Nat /\ req.k \in Nat /\ Len(generated) \in Nat /\ Excess \in Nat
        /\ Len(generated) < req.max /\ TreeDepth \in 1 .. req.max - Len(generated)
    BY <1>1, <1>2
  <2>2. CASE req.tree
    <3>1. Len(d) = 1 \/ Len(d) = TreeDepth
      BY <1>7, <2>2
    <3>2. 1 <= req.max - Len(generated) /\ TreeDepth <= req.max - Len(generated)
      BY <2>1
    <3>3. Len(d) <= req.max - Len(generated)
      BY <3>1, <3>2
    <3> QED
      BY <1>6, <2>1, <3>3
  <2>3. CASE ~req.tree
    <3>1. Len(d) <= req.k /\ Excess = req.k - 1
      BY <1>1, <1>7, <2>3
    <3> QED
      BY <1>6, <2>1, <3>1
  <2> QED
    BY <2>2, <2>3
<1>10. ASSUME Len(ids) <= Len(d)
       PROVE  Len(generated) + Len(ids) >= req.max
  <2>1. Trimmed /\ Len(ids) = Len(d)
    BY <1>6, <1>8, <1>10
  <2>2. req.tree /\ TreeDepth >= RemainingVisible /\ Len(d) > 1
    BY <1>7, <2>1 DEF Trimmed
  <2>3. Len(d) = TreeDepth
    <3>1. Len(d) = 1 \/ Len(d) = TreeDepth
      BY <1>7, <2>2
    <3>2. \A m \in Nat : m > 1 => m # 1
      OBVIOUS
    <3>3. Len(d) \in Nat /\ Len(d) > 1
      BY <1>6, <2>2
    <3> QED
      BY <3>1, <3>2, <3>3
  <2> QED
    BY <1>1, <1>2, <2>1, <2>2, <2>3
<1> QED
  BY <1>2, <1>6, <1>7, <1>8, <1>9, <1>10 DEF b, c, d, ids

\* An answer that ends with a token of its own shows nothing past what it had.
LEMMA FinishFacts ==
  ASSUME NEW s \in Seq(Token), NEW t \in Token
  PROVE  LET u == Append(s, t) IN
         /\ u \in Seq(Token) /\ Len(u) = Len(s) + 1
         /\ StoppedByEos(u) => Len(Visible(u)) <= Len(s)
         /\ ~StoppedByEos(u) => ~StoppedByEos(s) /\ t \notin Eos
<1> DEFINE u == Append(s, t)
<1>1. /\ u \in Seq(Token) /\ Len(u) = Len(s) + 1
      /\ \A i \in 1 .. Len(s) : u[i] = s[i]
      /\ u[Len(s) + 1] = t
  BY AppendFacts
<1>2. Len(s) \in Nat
  OBVIOUS
<1> HIDE DEF u
<1>3. ASSUME StoppedByEos(u) PROVE Len(Visible(u)) <= Len(s)
  <2>1. PICK i \in 1 .. Len(u) : u[i] \in Eos
    BY <1>3 DEF StoppedByEos
  <2>2. Len(Visible(u)) \in 0 .. Len(u) /\ Len(Visible(u)) < i
    BY <1>1, <2>1, VisibleFacts
  <2> QED
    BY <1>1, <1>2, <2>1, <2>2
<1>4. ASSUME ~StoppedByEos(u) PROVE ~StoppedByEos(s) /\ t \notin Eos
  <2>1. \A i \in 1 .. Len(s) + 1 : u[i] \notin Eos
    BY <1>1, <1>4 DEF StoppedByEos
  <2>2. Len(s) + 1 \in 1 .. Len(s) + 1 /\ \A i \in 1 .. Len(s) : i \in 1 .. Len(s) + 1
    BY <1>2
  <2> QED
    BY <1>1, <2>1, <2>2 DEF StoppedByEos
<1> QED
  BY <1>1, <1>3, <1>4 DEF u

LEMMA AcceptMtpStep ==
  ASSUME VerifierChooses, IInv, AcceptMtp, UNCHANGED pager
  PROVE  IInv' /\ Grows(generated, generated')
<1> DEFINE p == req.prompt
           a == generated
           c == p \o a
           d == drafts[BestRow]
           ids == ver[BestRow]
           n == Agreed(d, ids)
           new == SubSeq(d, 1, n)
           taken == a \o new
           x == ids[n + 1]
           u == Append(taken, x)
           added == n = Len(d) /\ n < Len(ids) /\ FinishesWith(taken, x)
           limit == req.max + Excess
<1>1. /\ status = "running" /\ pc = "accept" /\ req.gen = "mtp"
      /\ position' = position + 1
      /\ drafts' = <<>> /\ ver' = <<>>
      /\ UNCHANGED <<req, committed, native, prefills, fault, served>>
  BY DEF IInv, Shape, AcceptMtp
<1>2. /\ d \in Seq(Token) /\ ids \in Seq(Token)
      /\ d # <<>> /\ d[1] = Greedy(c)
      /\ IdsExact(c, d, ids)
      /\ Len(d) <= req.max - Len(a) + Excess
      /\ Len(ids) <= Len(d) => Len(a) + Len(ids) >= req.max
      /\ tent[BestRow] = Rows(c \o SubSeq(d, 1, Len(ids) - 1), 0)
      /\ Len(a) < req.max
  BY <1>1, BestRowVerified
<1>3. /\ p \in Seq(Token) /\ a \in Seq(Token) /\ Len(a) \in Nat /\ Exact(p, a)
      /\ req.max \in Nat /\ Excess \in Nat /\ ~native.on
      /\ (req.tree => Excess = 0) /\ (~req.tree => Excess = req.k - 1)
  BY <1>1, MtpWants
<1>4. c \in Seq(Token) /\ Len(c) = Len(p) + Len(a)
  BY <1>3, ConcatProperties
<1>5. IF n = 0 THEN UNCHANGED <<kv, nextToken, generated>> /\ Leave("blocked")
      ELSE /\ kv' = Keep(tent[BestRow], Len(p) + Len(taken))
           /\ nextToken' = IF n < Len(ids) THEN x ELSE nextToken
           /\ generated' = IF added THEN u ELSE taken
           /\ IF fault THEN pc' = "idle" /\ status' = "blocked"
              ELSE IF StoppedByEos(generated') THEN pc' = "idle" /\ status' = "ready"
              ELSE pc' = "draft" /\ status' = status
  BY DEF AcceptMtp, CommitRow, Leave
<1>6. Len(d) \in Nat \ {0} /\ Len(ids) \in 1 .. Len(d) + 1 /\ Len(ids) \in Nat
  BY <1>2 DEF IdsExact
<1> HIDE DEF d, ids, c
<1>7. ids[1] = Greedy(c)
  <2>1. 1 \in 1 .. Len(ids)
    BY <1>6
  <2>2. ids[1] = Greedy(c \o SubSeq(d, 1, 1 - 1))
    BY <1>2, <2>1 DEF IdsExact
  <2>3. c \o SubSeq(d, 1, 1 - 1) = c
    <3>1. SubSeq(d, 1, 1 - 1) = <<>>
      BY SubSeqEmpty
    <3> QED
      BY <1>4, <3>1, ConcatEmptySeq
  <2> QED
    BY <2>2, <2>3
<1>8. /\ n \in 1 .. Len(d) /\ n <= Len(ids) /\ \A i \in 1 .. n : d[i] = ids[i]
  <2>1. /\ Agreed(d, ids) \in 0 .. Len(d) /\ Agreed(d, ids) <= Len(ids)
        /\ \A i \in 1 .. Agreed(d, ids) : d[i] = ids[i]
        /\ (d # <<>> /\ ids # <<>> /\ d[1] = ids[1]) => Agreed(d, ids) >= 1
    BY <1>2, AgreedFacts
  <2>2. d # <<>> /\ ids # <<>> /\ d[1] = ids[1]
    BY <1>2, <1>6, <1>7
  <2> QED
    BY <2>1, <2>2
<1> HIDE DEF n
<1>9. /\ kv' = Keep(tent[BestRow], Len(p) + Len(taken))
      /\ nextToken' = IF n < Len(ids) THEN x ELSE nextToken
      /\ generated' = IF added THEN u ELSE taken
      /\ IF fault THEN pc' = "idle" /\ status' = "blocked"
         ELSE IF StoppedByEos(generated') THEN pc' = "idle" /\ status' = "ready"
         ELSE pc' = "draft" /\ status' = status
  <2>1. n # 0
    BY <1>8
  <2> HIDE DEF taken, x, u, added
  <2> QED
    BY <1>5, <2>1
<1>10. new \in Seq(Token) /\ n \in 0 .. Len(d)
  BY <1>2, <1>8, Prefix
<1>11. /\ taken \in Seq(Token) /\ Len(taken) = Len(a) + n
       /\ Exact(p, taken)
       /\ n < Len(ids) => /\ x \in Token /\ x = Greedy(p \o taken)
                          /\ Exact(p, u)
  <2>1. IdsExact(p \o a, d, ids)
    BY <1>2 DEF c
  <2>2. /\ a \o SubSeq(d, 1, n) \in Seq(Token)
        /\ Len(a \o SubSeq(d, 1, n)) = Len(a) + n
        /\ Exact(p, a \o SubSeq(d, 1, n))
        /\ n < Len(ids) => /\ ids[n + 1] \in Token
                           /\ ids[n + 1] = Greedy(p \o (a \o SubSeq(d, 1, n)))
                           /\ Exact(p, Append(a \o SubSeq(d, 1, n), ids[n + 1]))
    BY <1>2, <1>3, <1>8, <1>10, <2>1, ExactExtend
  <2> QED
    BY <2>2
<1>12. c \o new = p \o taken
  <2> HIDE DEF new
  <2> QED
    BY <1>3, <1>10, TokensAssociate DEF c
<1> HIDE DEF x
<1> DEFINE e == SubSeq(d, 1, Len(ids) - 1)
<1>13. Len(ids) - 1 \in 0 .. Len(d)
  BY <1>6
<1>14. e \in Seq(Token) /\ Len(e) = Len(ids) - 1
  BY <1>2, <1>13, Prefix
<1>15. kv' \in Seq(RowSet)
  <2>1. c \o e \in Seq(Token)
    BY <1>4, <1>14, ConcatProperties
  <2>2. Rows(c \o e, 0) \in Seq(RowSet)
    BY <2>1, RowsFromStart
  <2>3. Len(p) + Len(taken) \in Nat
    BY <1>3, <1>11
  <2> HIDE DEF e, taken
  <2>4. Keep(Rows(c \o e, 0), Len(p) + Len(taken)) \in Seq(RowSet)
    BY <2>2, <2>3, KeepFacts
  <2> QED
    BY <1>2, <1>9, <2>4 DEF e
<1>16. ASSUME n < Len(ids)
       PROVE  kv' = Rows(p \o taken, 0)
  <2>1. n \in 0 .. Len(e) /\ n \in 0 .. Len(ids) - 1
    BY <1>6, <1>8, <1>14, <1>16
  <2>2. SubSeq(e, 1, n) = new
    BY <1>2, <1>13, <2>1, PrefixOfPrefix
  <2>3. Keep(Rows(c \o e, 0), Len(c) + n) = Rows(c \o SubSeq(e, 1, n), 0)
    <3> HIDE DEF e
    <3> QED
      BY <1>4, <1>14, <2>1, KeepRows
  <2>4. Len(p) + Len(taken) = Len(c) + n
    <3>1. Len(p) \in Nat /\ n \in Nat /\ Len(a) \in Nat
      BY <1>3, <1>8
    <3>2. Len(taken) = Len(a) + n /\ Len(c) = Len(p) + Len(a)
      BY <1>4, <1>11
    <3> HIDE DEF taken, p, a
    <3> QED
      BY <3>1, <3>2
  <2> HIDE DEF taken, new
  <2> QED
    BY <1>2, <1>9, <1>12, <2>2, <2>3, <2>4 DEF e
<1> HIDE DEF taken, new, e
<1>17. /\ Len(taken) \in Nat /\ Len(taken) <= limit
       /\ ~(n < Len(ids)) => Len(taken) >= req.max
  BY <1>2, <1>3, <1>6, <1>8, <1>11
<1>17a. limit \in Nat /\ req.max \in Nat /\ req.max <= limit
  BY <1>3
<1> HIDE DEF limit
<1>18. generated' = taken \/ (n < Len(ids) /\ generated' = u /\ FinishesWith(taken, x))
  BY <1>9
<1>19. ASSUME n < Len(ids)
       PROVE  /\ u \in Seq(Token) /\ Len(u) = Len(taken) + 1
              /\ StoppedByEos(u) => Len(Visible(u)) <= Len(taken)
              /\ ~StoppedByEos(u) => ~StoppedByEos(taken) /\ x \notin Eos
  BY <1>11, <1>19, FinishFacts
<1>20. /\ generated' \in Seq(Token) /\ Exact(p, generated')
       /\ StoppedByEos(generated') => Len(Visible(generated')) <= limit
       /\ ~StoppedByEos(generated') =>
            /\ Len(generated') <= limit
            /\ Len(generated') < req.max =>
                 /\ kv' = Rows(p \o generated', 0)
                 /\ nextToken' = Greedy(p \o generated')
  <2>1. CASE generated' = taken
    <3>1. Len(Visible(taken)) \in 0 .. Len(taken)
      BY <1>11, VisibleFacts
    <3>2. Len(Visible(taken)) <= limit
      <4>1. Len(taken) \in Nat /\ Len(taken) <= limit
        BY <1>17
      <4>2. Len(Visible(taken)) \in Nat /\ Len(Visible(taken)) <= Len(taken)
        BY <3>1, <4>1
      <4> QED
        BY <1>17a, <4>1, <4>2
    <3>3. Len(taken) < req.max => n < Len(ids)
      BY <1>17, <1>17a
    <3>4. Len(taken) < req.max => kv' = Rows(p \o taken, 0) /\ nextToken' = Greedy(p \o taken)
      BY <1>9, <1>11, <1>16, <3>3
    <3>5. Len(taken) <= limit
      BY <1>17
    <3> HIDE DEF p
    <3> QED
      BY <1>11, <2>1, <3>2, <3>4, <3>5
  <2>2. CASE n < Len(ids) /\ generated' = u /\ FinishesWith(taken, x)
    <3>1. /\ u \in Seq(Token) /\ Len(u) = Len(taken) + 1 /\ Exact(p, u)
          /\ StoppedByEos(u) => Len(Visible(u)) <= Len(taken)
          /\ ~StoppedByEos(u) => ~StoppedByEos(taken) /\ x \notin Eos
      BY <1>11, <1>19, <2>2
    <3>2. Len(Visible(u)) \in 0 .. Len(u)
      BY <3>1, VisibleFacts
    <3>3. ASSUME StoppedByEos(u) PROVE Len(Visible(u)) <= limit
      <4>1. Len(taken) \in Nat /\ Len(taken) <= limit
        BY <1>17
      <4>2. Len(u) \in Nat
        BY <3>1, <4>1
      <4>3. Len(Visible(u)) \in Nat /\ Len(Visible(u)) <= Len(taken)
        BY <3>1, <3>2, <3>3, <4>2
      <4> QED
        BY <1>17a, <4>1, <4>3
    <3>4. ASSUME ~StoppedByEos(u)
          PROVE  Len(u) <= limit /\ ~(Len(u) < req.max)
      <4>1. Visible(u) = u /\ Visible(taken) = taken
        BY <1>11, <3>1, <3>4, VisibleFacts
      <4>2. Len(u) >= req.max /\ Len(taken) < req.max
        BY <2>2, <3>1, <3>4, <4>1 DEF FinishesWith
      <4> QED
        BY <1>17, <1>17a, <3>1, <4>2
    <3> HIDE DEF u
    <3> QED
      BY <2>2, <3>1, <3>3, <3>4
  <2> QED
    BY <1>18, <2>1, <2>2
<1>21. nextToken' \in Token \cup {NoToken}
  BY <1>9, <1>11 DEF IInv, Shape
<1> HIDE DEF u, added
<1>22. Shape'
  BY <1>1, <1>9, <1>15, <1>20, <1>21, EmptySequences DEF IInv, Shape
<1>23. PrefillsInv' /\ PagerInv' /\ NativeInv'
  BY <1>1, <1>3 DEF IInv, PrefillsInv, PagerInv, NativeInv
<1>24. AnswerInv'
  BY <1>1, <1>20 DEF AnswerInv, p
<1>25. BlockedInv'
  BY <1>1, <1>9 DEF BlockedInv
<1>26. ReadyIsComplete'
  <2>1. status' = "ready" => StoppedByEos(generated')
    BY <1>1, <1>9
  <2> QED
    BY <1>1, <1>20, <2>1 DEF ReadyIsComplete, Excess, limit
<1>27. ASSUME status' = "running" PROVE MtpInv'
  <2>1. pc' = "draft" /\ ~StoppedByEos(generated')
    BY <1>9, <1>27
  <2>2. req'.max + Excess' = limit
    BY <1>1 DEF Excess, limit
  <2> QED
    BY <1>1, <1>20, <2>1, <2>2 DEF MtpInv, Drafted, p
<1>28. RunningInv'
  BY <1>1, <1>27, MtpRunning
<1>29. Grows(generated, generated')
  BY <1>3, <1>10, <1>11, <1>18, GrowsFacts DEF u, taken
<1> QED
  BY <1>29, <1>22, <1>23, <1>24, <1>25, <1>26, <1>28 DEF IInv

\* Every step of the multi-token loop keeps the invariant.
LEMMA MtpPreserves ==
  ASSUME VerifierChooses, IInv, MtpStep, UNCHANGED pager
  PROVE  IInv'
<1>1. CASE MtpPrefillFails \/ MtpFails
  BY <1>1, GiveUpStep DEF MtpPrefillFails, PrefillFails, MtpFails
<1> QED
  BY <1>1, BeginMtp, MtpPrefillStep, WarmPrefillStep, DraftLinearStep, DraftTreeStep,
     DraftTreeCutStep, VerifyMtpStep, AcceptMtpStep, MtpDoneStep DEF MtpStep

-----------------------------------------------------------------------------
(***************************************************************************)
(* The pager: what its operations do to the fields that are not sequences. *)
(***************************************************************************)
LEMMA TouchFields ==
  ASSUME NEW p, PagerShape(p), NEW l
  PROVE  PagerShape(Touch(p, l)) /\ Touch(p, l).at = p.at
  BY DEF PagerShape, Touch

\* A layer is taken: it is resident, and no longer on its way.
LEMMA GotFields ==
  ASSUME NEW p, PagerShape(p), NEW l \in Executed
  PROVE  PagerShape(Got(p, l)) /\ Got(p, l).at = p.at
<1> DEFINE f == [k \in DOMAIN p.layers \cup {l} |-> IF k = l THEN FreshLayer ELSE p.layers[k]]
           q == [p EXCEPT !.layers = f, !.pending = p.pending \ {l}]
<1>1. DOMAIN f = {l} \cup DOMAIN p.layers
  OBVIOUS
<1> HIDE DEF f
<1>2. PagerShape(q) /\ q.at = p.at
  BY <1>1 DEF PagerShape
<1>3. Got(p, l) = Touch(p, l) \/ Got(p, l) = Touch(q, l)
  BY DEF Got, f
<1> HIDE DEF q
<1> QED
  BY <1>2, <1>3, TouchFields

LEMMA PrefetchedFields ==
  ASSUME NEW p, PagerShape(p)
  PROVE  PagerShape(Prefetched(p)) /\ Prefetched(p).at = p.at
  BY DEF PagerShape, Prefetched

\* Whichever layers are evicted.
LEMMA WithoutFields ==
  ASSUME NEW p, PagerShape(p), NEW gone
  PROVE  PagerShape(WithoutLayers(p, gone)) /\ WithoutLayers(p, gone).at = p.at
<1>1. DOMAIN Restrict(p.layers, DOMAIN p.layers \ gone) \subseteq DOMAIN p.layers
  BY DEF Restrict
<1> QED
  BY <1>1 DEF PagerShape, WithoutLayers

LEMMA EnforcedFields ==
  ASSUME NEW p, PagerShape(p), NEW protected \in Executed
  PROVE  PagerShape(Enforced(p, protected)) /\ Enforced(p, protected).at = p.at
<1>1. PICK gone : Enforced(p, protected) = [WithoutLayers(p, gone) EXCEPT !.last = protected]
  BY DEF Enforced
<1>2. PagerShape(WithoutLayers(p, gone)) /\ WithoutLayers(p, gone).at = p.at
  BY WithoutFields
<1>3. protected \in 0 .. LayerCount
  BY DEF Executed
<1> QED
  BY <1>1, <1>2, <1>3 DEF PagerShape

-----------------------------------------------------------------------------
(***************************************************************************)
(* The paged loop and its probes.                                          *)
(***************************************************************************)
\* What a step of a paged request leaves alone, and what it has to restore.
LEMMA PagedStep ==
  ASSUME IInv, Paging, status = "running", UNCHANGED coreRest,
         PagerInv', generated' \in Seq(Token), Exact(req.prompt, generated'),
         kv' \in Seq(RowSet), nextToken' \in Token \cup {NoToken}, position' \in Nat,
         fault' \in BOOLEAN, status' \in {"running", "ready", "blocked"},
         status' = "running" <=> pc' # "idle",
         status' = "running" => PagedInv',
         status' = "ready" => Len(generated') = req.max,
         status' = "blocked" => fault'
  PROVE  IInv'
<1>1. /\ UNCHANGED <<req, committed, drafts, ver, tent, native, prefills, served>>
      /\ req.gen \in PagedKinds
  BY DEF coreRest, Paging
<1>2. Shape'
  BY <1>1 DEF IInv, Shape
<1>3. PrefillsInv' /\ NativeInv'
  <2>1. ~native.on
    BY <1>1 DEF IInv, NativeInv, PagedKinds
  <2> QED
    BY <1>1, <2>1 DEF IInv, PrefillsInv, NativeInv
<1>4. AnswerInv' /\ BlockedInv'
  BY <1>1 DEF AnswerInv, BlockedInv
<1>5. ReadyIsComplete'
  <2>1. req.max \in Nat
    BY RequestFacts DEF IInv, Shape
  <2> QED
    BY <1>1, <2>1 DEF ReadyIsComplete, PagedKinds
<1>6. RunningInv'
  BY <1>1 DEF RunningInv, PagedKinds
<1> QED
  BY <1>2, <1>3, <1>4, <1>5, <1>6 DEF IInv

\* What is known of a paged request that runs.
LEMMA PagedFacts ==
  ASSUME IInv, Paging, status = "running"
  PROVE  /\ PagedInv /\ req.gen \in PagedKinds
         /\ req.prompt \in Seq(Token) /\ Len(req.prompt) \in Nat \ {0} /\ req.max \in Nat
         /\ req.gen # "paged" => req.max = 0
         /\ generated \in Seq(Token) /\ Len(generated) \in Nat
         /\ Exact(req.prompt, generated)
         /\ kv \in Seq(RowSet) /\ nextToken \in Token \cup {NoToken}
         /\ position \in Nat /\ fault \in BOOLEAN
         /\ PagerShape(pager) /\ pager.at \in Executed
<1>1. PagedInv /\ req.gen \in PagedKinds
  BY DEF IInv, RunningInv, Paging
<1>2. /\ req.prompt \in Seq(Token) /\ Len(req.prompt) \in Nat \ {0} /\ req.max \in Nat
      /\ req.gen # "paged" => req.max = 0
  BY <1>1, RequestFacts DEF IInv, Shape, PagedKinds
<1>3. Exact(req.prompt, generated)
  BY <1>1 DEF IInv, AnswerInv, Trusted, PagedKinds
<1>4. PagerShape(pager) /\ pager.at \in Executed
  BY DEF IInv, PagerInv, PagerShape
<1> QED
  BY <1>1, <1>2, <1>3, <1>4 DEF IInv, Shape

\* A step of the pager alone: the rows and the answer stay.
LEMMA PagerOnlyStep ==
  ASSUME IInv, Paging, status = "running", pc # "token",
         UNCHANGED coreRest, UNCHANGED <<status, generated, kv, nextToken, position, fault>>,
         PagerShape(pager'), RowsRun' = RowsRun,
         pc' \in {"page", "run", "trim", "ahead", "tail"}
  PROVE  IInv'
<1>1. /\ PagedInv
      /\ req.prompt \in Seq(Token) /\ Len(req.prompt) \in Nat \ {0}
      /\ generated \in Seq(Token) /\ Exact(req.prompt, generated)
      /\ kv \in Seq(RowSet) /\ nextToken \in Token \cup {NoToken}
      /\ position \in Nat /\ fault \in BOOLEAN
  BY PagedFacts
<1>2. PagerInv'
  BY DEF PagerInv
<1>3. req' = req
  BY DEF coreRest
<1>4. PagedInv'
  BY <1>1, <1>3 DEF PagedInv, AnsweredUpTo
<1> QED
  BY <1>1, <1>2, <1>4, PagedStep

LEMMA TakeTokenStep ==
  ASSUME VerifierChooses, IInv, TakeToken
  PROVE  IInv' /\ Grows(generated, generated')
<1> DEFINE p == req.prompt
           a == generated
           t == nextToken
           n == position
           b == Append(a, t)
<1>1. /\ Paging /\ pc = "token" /\ status = "running"
      /\ UNCHANGED coreRest /\ UNCHANGED <<kv, nextToken, position, fault>>
  BY DEF TakeToken, IInv, Shape
<1>2. /\ PagedInv /\ req.gen \in PagedKinds
      /\ p \in Seq(Token) /\ Len(p) \in Nat \ {0} /\ req.max \in Nat
      /\ a \in Seq(Token) /\ Len(a) \in Nat /\ Exact(p, a)
      /\ kv \in Seq(RowSet) /\ t \in Token \cup {NoToken} /\ n \in Nat /\ fault \in BOOLEAN
      /\ PagerShape(pager)
  BY <1>1, PagedFacts
<1>3. req' = req
  BY <1>1 DEF coreRest
<1>4. /\ req.gen # "paged" => n = 0
      /\ n <= Len(p) + req.max /\ AnsweredUpTo(n)
      /\ kv = Rows(SubSeq(p \o a, 1, n), 0)
      /\ n < Len(p) => t = NoToken
      /\ n >= Len(p) => t = Greedy(SubSeq(p \o a, 1, n))
  BY <1>1, <1>2 DEF PagedInv, RowsRun
<1>5. CASE req.gen = "paged" /\ n >= Len(p) + req.max
  <2>1. pc' = "idle" /\ status' = "ready" /\ pager' = NoPager /\ generated' = a
    BY <1>5 DEF TakeToken, Leave
  <2>2. Len(a) = req.max
    <3>1. n \in Nat /\ Len(p) \in Nat /\ req.max \in Nat
      BY <1>2
    <3>2. n <= Len(p) + req.max /\ n >= Len(p) + req.max
      BY <1>4, <1>5
    <3>3. n >= Len(p) => Len(a) = n - Len(p)
      BY <1>4 DEF AnsweredUpTo
    <3> HIDE DEF n, p, a
    <3> QED
      BY <3>1, <3>2, <3>3
  <2>3. PagerInv'
    BY <2>1, NoPagerShape DEF PagerInv
  <2> QED
    BY <1>1, <1>2, <2>1, <2>2, <2>3, PagedStep, GrowsFacts
<1>6. CASE ~(req.gen = "paged" /\ n >= Len(p) + req.max)
  <2>1. n < Len(p) + req.max
    <3>1. req.gen # "paged" => n < Len(p)
      BY <1>2, <1>4
    <3> QED
      BY <1>2, <1>6, <3>1
  <2>2. ASSUME n >= Len(p)
        PROVE  /\ t \in Token /\ t # NoToken /\ Len(a) = n - Len(p)
               /\ b \in Seq(Token) /\ Len(b) = n + 1 - Len(p) /\ Exact(p, b)
               /\ SubSeq(p \o b, 1, n) = SubSeq(p \o a, 1, n)
    <3>1. Len(a) = n - Len(p)
      BY <1>4, <2>2 DEF AnsweredUpTo
    <3> HIDE DEF p, a, t, n
    <3>2. Len(p \o a) = n /\ p \o a \in Seq(Token)
      <4>1. Len(p \o a) = Len(p) + Len(a) /\ p \o a \in Seq(Token)
        BY <1>2, ConcatProperties
      <4> QED
        BY <1>2, <3>1, <4>1
    <3>3. SubSeq(p \o a, 1, n) = p \o a
      BY <3>2, SubSeqFull
    <3>4. t = Greedy(p \o a) /\ t \in Token /\ t # NoToken
      BY <1>4, <2>2, <3>2, <3>3, GreedyType
    <3>5. b \in Seq(Token) /\ Exact(p, b)
      BY <1>2, <3>4, ExactAppend
    <3>6. Len(b) = Len(a) + 1
      BY <1>2, <3>4, AppendFacts
    <3>7. Len(b) = n + 1 - Len(p)
      <4> HIDE DEF b
      <4> QED
        BY <1>2, <3>1, <3>6
    <3>8. SubSeq(p \o b, 1, n) = p \o a
      BY <1>2, <2>2, <3>1, <3>4, WholeAnswer
    <3> QED
      BY <3>1, <3>3, <3>4, <3>5, <3>7, <3>8
  <2>3. /\ generated' = IF n < Len(p) THEN a ELSE b
        /\ pager' = [pager EXCEPT !.at = 1]
        /\ pc' = "page" /\ status' = status
    <3>1. ~(n >= Len(p) /\ t = NoToken)
      BY <2>2
    <3> QED
      BY <1>6, <3>1 DEF TakeToken
  <2>3a. n < Len(p) \/ Grows(a, b)
    <3>1. n < Len(p) \/ n >= Len(p)
      BY <1>2
    <3> QED
      BY <1>2, <2>2, <3>1, GrowsFacts
  <2> HIDE DEF b
  <2>4. PagerInv'
    <3>1. 1 \in Executed
      BY LayerAssumption DEF Executed
    <3> QED
      BY <1>2, <2>3, <3>1 DEF PagerInv, PagerShape
  <2>5. /\ generated' \in Seq(Token) /\ Exact(p, generated')
        /\ AnsweredUpTo(position + 1)'
        /\ SubSeq(p \o generated', 1, n) = SubSeq(p \o a, 1, n)
    <3>1. CASE n < Len(p)
      <4>1. generated' = a /\ a = <<>>
        BY <1>2, <1>4, <2>3, <3>1 DEF AnsweredUpTo
      <4>2. n + 1 >= Len(p) => n + 1 = Len(p)
        BY <1>2, <3>1
      <4> QED
        BY <1>1, <1>2, <1>3, <4>1, <4>2 DEF AnsweredUpTo
    <3>2. CASE ~(n < Len(p))
      <4>1. n >= Len(p) /\ generated' = b
        BY <1>2, <2>3, <3>2
      <4>2. ~(n + 1 <= Len(p))
        BY <1>2, <4>1
      <4>3. AnsweredUpTo(position + 1)'
        <5>1. Len(generated') = n + 1 - Len(p)
          BY <2>2, <4>1
        <5>2. req'.prompt = p /\ position' = n
          BY <1>1, <1>3
        <5>3. /\ position' + 1 <= Len(req'.prompt) => generated' = <<>>
              /\ position' + 1 >= Len(req'.prompt) =>
                    Len(generated') = position' + 1 - Len(req'.prompt)
          BY <4>2, <5>1, <5>2
        <5>4. /\ position' \in Nat /\ Len(req'.prompt) \in Nat
              /\ generated' \in Seq(Token) /\ Len(generated') \in Nat
          BY <1>1, <1>2, <1>3, <2>2, <4>1
        <5> HIDE DEF n, p, a, t
        <5> QED
          BY <5>3, <5>4 DEF AnsweredUpTo
      <4> QED
        BY <2>2, <4>1, <4>3
    <3> QED
      BY <3>1, <3>2
  <2>6. PagedInv'
    <3>1. RowsRun' = n
      BY <1>1, <2>3 DEF RowsRun
    <3>2. AnsweredUpTo(position + 1)'
      BY <1>1, <2>5
    <3>3. kv' = Rows(SubSeq(req'.prompt \o generated', 1, RowsRun'), 0)
      BY <1>1, <1>3, <1>4, <2>5, <3>1
    <3> QED
      BY <1>1, <1>3, <1>4, <2>1, <2>3, <3>2, <3>3 DEF PagedInv
  <2>7. Grows(generated, generated')
    BY <1>2, <2>3, <2>3a, GrowsFacts
  <2> QED
    BY <1>1, <1>2, <2>3, <2>4, <2>5, <2>6, <2>7, PagedStep
<1> QED
  BY <1>5, <1>6

\* A layer is taken, after the layers of the window were sent for.
LEMMA PageLayerStep ==
  ASSUME IInv, PageLayer
  PROVE  IInv'
<1>1. /\ Paging /\ pc = "page" /\ status = "running" /\ pc' = "run"
      /\ UNCHANGED coreRest
      /\ UNCHANGED <<status, generated, kv, nextToken, position, fault>>
  BY DEF PageLayer, IInv, Shape
<1>2. PagerShape(pager) /\ pager.at \in Executed
  BY <1>1, PagedFacts
<1>3. PICK q : /\ q = pager \/ q = Prefetched(pager)
               /\ pager' = Got(q, pager.at)
  BY DEF PageLayer
<1>4. PagerShape(q)
  BY <1>2, <1>3, PrefetchedFields
<1>5. PagerShape(pager')
  BY <1>2, <1>3, <1>4, GotFields
<1>6. RowsRun' = RowsRun
  BY <1>1 DEF RowsRun
<1> QED
  BY <1>1, <1>5, <1>6, PagerOnlyStep

\* The oldest layers leave.
LEMMA TrimLayersStep ==
  ASSUME IInv, TrimLayers
  PROVE  IInv'
<1>1. /\ Paging /\ pc = "trim" /\ status = "running" /\ pc' = "ahead"
      /\ UNCHANGED coreRest
      /\ UNCHANGED <<status, generated, kv, nextToken, position, fault>>
      /\ pager' = Enforced(pager, pager.at)
  BY DEF TrimLayers, IInv, Shape
<1>2. PagerShape(pager) /\ pager.at \in Executed
  BY <1>1, PagedFacts
<1>3. PagerShape(pager') /\ pager'.at = pager.at
  BY <1>1, <1>2, EnforcedFields
<1>4. RowsRun' = RowsRun
  BY <1>1, <1>3 DEF RowsRun
<1> QED
  BY <1>1, <1>3, <1>4, PagerOnlyStep

\* A remote layer is taken ahead: there is one, and it is not the last one's successor.
LEMMA TakeAheadStep ==
  ASSUME IInv, TakeAhead
  PROVE  IInv'
<1> DEFINE l == pager.at + pager.ahead + 1
           g == Got(pager, l)
           e == Enforced(g, pager.at)
<1>1. /\ Paging /\ pc = "ahead" /\ status = "running" /\ pc' = pc /\ MoreAhead
      /\ UNCHANGED coreRest
      /\ UNCHANGED <<status, generated, kv, nextToken, position, fault>>
      /\ pager' = [e EXCEPT !.ahead = pager.ahead + 1]
  BY DEF TakeAhead, IInv, Shape
<1>2. PagerShape(pager) /\ pager.at \in Executed
  BY <1>1, PagedFacts
<1>3. l \in Executed /\ pager.ahead + 1 \in 0 .. LayerCount
  <2>1. /\ pager.at \in 1 .. LayerCount /\ pager.ahead \in 0 .. LayerCount
        /\ LayerCount \in Nat
    BY <1>2, LayerAssumption DEF PagerShape, Executed
  <2>2. pager.at + pager.ahead < LayerCount
    BY <1>1 DEF MoreAhead
  <2> QED
    BY <2>1, <2>2 DEF Executed
<1> HIDE DEF l
<1>4. PagerShape(g) /\ g.at = pager.at
  BY <1>2, <1>3, GotFields
<1> HIDE DEF g
<1>5. PagerShape(e) /\ e.at = pager.at
  BY <1>2, <1>4, EnforcedFields
<1> HIDE DEF e
<1>6. PagerShape(pager') /\ pager'.at = pager.at
  BY <1>1, <1>3, <1>5 DEF PagerShape
<1>7. RowsRun' = RowsRun
  BY <1>1, <1>6 DEF RowsRun
<1> QED
  BY <1>1, <1>6, <1>7, PagerOnlyStep

\* The pass goes on to its next layer, or to the tail.
LEMMA NextLayerStep ==
  ASSUME IInv, NextLayer
  PROVE  IInv'
<1>1. /\ Paging /\ pc = "ahead" /\ status = "running"
      /\ UNCHANGED coreRest
      /\ UNCHANGED <<status, generated, kv, nextToken, position, fault>>
  BY DEF NextLayer, IInv, Shape
<1>2. PagerShape(pager) /\ pager.at \in Executed
  BY <1>1, PagedFacts
<1>3. pager.at \in 1 .. LayerCount /\ LayerCount \in Nat
  BY <1>2, LayerAssumption DEF Executed
<1>4. CASE pager.at < LayerCount
  <2>1. pager' = [pager EXCEPT !.at = pager.at + 1, !.ahead = 0] /\ pc' = "page"
    BY <1>4 DEF NextLayer
  <2>2. pager.at + 1 \in Executed /\ 0 \in 0 .. LayerCount
    BY <1>3, <1>4 DEF Executed
  <2>3. PagerShape(pager')
    BY <1>2, <2>1, <2>2 DEF PagerShape
  <2>4. pager.at # LayerCount
    BY <1>3, <1>4
  <2>5. RowsRun' = RowsRun
    BY <1>1, <2>1, <2>4 DEF RowsRun
  <2> QED
    BY <1>1, <2>1, <2>3, <2>5, PagerOnlyStep
<1>5. CASE ~(pager.at < LayerCount)
  <2>1. pager' = pager /\ pc' = "tail"
    BY <1>5 DEF NextLayer
  <2>2. pager.at = LayerCount
    BY <1>3, <1>5
  <2>3. RowsRun' = RowsRun
    BY <1>1, <2>1, <2>2 DEF RowsRun
  <2> QED
    BY <1>1, <1>2, <2>1, <2>3, PagerOnlyStep
<1> QED
  BY <1>4, <1>5

\* A layer is run.  The last one completes the row of the position.
LEMMA RunLayerStep ==
  ASSUME IInv, RunLayer
  PROVE  IInv'
<1> DEFINE p == req.prompt
           a == generated
           s == p \o a
           n == position
<1>1. /\ Paging /\ pc = "run" /\ status = "running" /\ pc' = "trim"
      /\ UNCHANGED coreRest
      /\ UNCHANGED <<status, generated, nextToken, position, fault>>
      /\ kv' = IF pager.at < LayerCount THEN kv ELSE kv \o Rows(<<s[n + 1]>>, n)
  BY DEF RunLayer, IInv, Shape
<1>2. /\ PagedInv /\ p \in Seq(Token) /\ Len(p) \in Nat \ {0} /\ req.max \in Nat
      /\ a \in Seq(Token) /\ Len(a) \in Nat /\ Exact(p, a)
      /\ kv \in Seq(RowSet) /\ nextToken \in Token \cup {NoToken}
      /\ n \in Nat /\ fault \in BOOLEAN
      /\ PagerShape(pager) /\ pager.at \in Executed
  BY <1>1, PagedFacts
<1>3. req' = req
  BY <1>1 DEF coreRest
<1>4. PagerShape(pager') /\ pager'.at = pager.at
  <2>1. PICK chosen : pager' = [pager EXCEPT !.layers[pager.at] = Ran(@, chosen)]
    BY DEF RunLayer
  <2> DEFINE f == [pager.layers EXCEPT ![pager.at] = Ran(@, chosen)]
  <2>2. DOMAIN f = DOMAIN pager.layers
    OBVIOUS
  <2>3. pager' = [pager EXCEPT !.layers = f]
    BY <2>1
  <2> HIDE DEF f
  <2> QED
    BY <1>2, <2>2, <2>3 DEF PagerShape
<1>5. /\ AnsweredUpTo(n + 1) /\ kv = Rows(SubSeq(s, 1, n), 0)
  BY <1>1, <1>2 DEF PagedInv, RowsRun
<1>6. s \in Seq(Token) /\ n \in 0 .. Len(s) /\ n < Len(s)
  <2>1. s \in Seq(Token) /\ Len(s) = Len(p) + Len(a)
    BY <1>2, ConcatProperties
  <2>3. n \in Nat /\ Len(p) \in Nat /\ Len(a) \in Nat /\ a \in Seq(Token)
    BY <1>2
  <2>2. n + 1 >= Len(p) => Len(a) = n + 1 - Len(p)
    BY <1>5, <2>3 DEF AnsweredUpTo
  <2> HIDE DEF s, p, a, n
  <2>4. Len(s) \in Nat /\ n < Len(s)
    BY <2>1, <2>2, <2>3
  <2> QED
    BY <2>1, <2>3, <2>4
<1>7. /\ kv \o Rows(<<s[n + 1]>>, n) = Rows(SubSeq(s, 1, n + 1), 0)
      /\ Rows(SubSeq(s, 1, n + 1), 0) \in Seq(RowSet)
  <2> HIDE DEF s, n
  <2> QED
    BY <1>5, <1>6, OneMore
<1>8. RowsRun' = IF pager.at < LayerCount THEN n ELSE n + 1
  <2>1. pager.at < LayerCount <=> pager.at # LayerCount
    BY <1>2, LayerAssumption DEF Executed
  <2> QED
    BY <1>1, <1>4, <2>1 DEF RowsRun
<1>9. kv' \in Seq(RowSet) /\ kv' = Rows(SubSeq(s, 1, RowsRun'), 0)
  <2> HIDE DEF s, n
  <2> QED
    BY <1>1, <1>2, <1>5, <1>7, <1>8
<1>10. PagedInv'
  <2>1. kv' = Rows(SubSeq(req'.prompt \o generated', 1, RowsRun'), 0)
    BY <1>1, <1>3, <1>9
  <2> QED
    BY <1>1, <1>2, <1>3, <2>1 DEF PagedInv, AnsweredUpTo
<1>11. PagerInv'
  BY <1>4 DEF PagerInv
<1> QED
  BY <1>1, <1>2, <1>9, <1>10, <1>11, PagedStep

\* The end of a position: the tail chooses after the rows of the pass.
LEMMA FinishPositionStep ==
  ASSUME VerifierChooses, IInv, FinishPosition
  PROVE  IInv'
<1> DEFINE p == req.prompt
           a == generated
           s == p \o a
           n == position
<1>1. /\ Paging /\ pc = "tail" /\ status = "running"
      /\ UNCHANGED coreRest /\ UNCHANGED <<generated, kv, fault>>
  BY DEF FinishPosition, IInv, Shape
<1>2. /\ PagedInv /\ req.gen \in PagedKinds
      /\ p \in Seq(Token) /\ Len(p) \in Nat \ {0} /\ req.max \in Nat
      /\ req.gen # "paged" => req.max = 0
      /\ a \in Seq(Token) /\ Len(a) \in Nat /\ Exact(p, a)
      /\ kv \in Seq(RowSet) /\ nextToken \in Token \cup {NoToken}
      /\ n \in Nat /\ fault \in BOOLEAN
      /\ PagerShape(pager)
  BY <1>1, PagedFacts
<1>3. req' = req
  BY <1>1 DEF coreRest
<1>4. /\ req.gen # "paged" => n = 0
      /\ n < Len(p) + req.max /\ AnsweredUpTo(n + 1)
      /\ kv = Rows(SubSeq(s, 1, n + 1), 0)
      /\ n < Len(p) => nextToken = NoToken
  BY <1>1, <1>2 DEF PagedInv, RowsRun
<1>5. CASE req.gen = "paged"
  <2>1. /\ nextToken' = IF n >= Len(p) - 1 THEN Argmax(kv) ELSE nextToken
        /\ position' = n + 1 /\ pc' = "token" /\ UNCHANGED <<status, pager>>
    BY <1>5 DEF FinishPosition, NeedTail
  <2>2. Argmax(kv) \in Token /\ Argmax(kv) = Greedy(SubSeq(s, 1, n + 1))
    BY <1>2, <1>4 DEF VerifierChooses, Greedy
  <2>3. nextToken' \in Token \cup {NoToken} /\ n + 1 \in Nat
    BY <1>2, <2>1, <2>2
  <2>4. PagerInv'
    BY <1>2, <2>1 DEF PagerInv
  <2>5. RowsRun' = n + 1
    BY <2>1 DEF RowsRun
  <2>6. kv' = Rows(SubSeq(req'.prompt \o generated', 1, RowsRun'), 0)
    BY <1>1, <1>3, <1>4, <2>5
  <2>7. /\ position' <= Len(req'.prompt) + req'.max
        /\ position' < Len(req'.prompt) => nextToken' = NoToken
        /\ position' >= Len(req'.prompt) => nextToken' = Argmax(kv)
    <3>1. /\ n + 1 <= Len(p) + req.max
          /\ n + 1 < Len(p) => n < Len(p) /\ ~(n >= Len(p) - 1)
          /\ n + 1 >= Len(p) => n >= Len(p) - 1
      <4>1. n \in Nat /\ Len(p) \in Nat /\ req.max \in Nat /\ n < Len(p) + req.max
        BY <1>2, <1>4
      <4> HIDE DEF n, p
      <4> QED
        BY <4>1
    <3> QED
      BY <1>3, <1>4, <2>1, <3>1
  <2>8. position' >= Len(req'.prompt) =>
           nextToken' = Greedy(SubSeq(req'.prompt \o generated', 1, position'))
    BY <1>1, <1>3, <2>1, <2>2, <2>7
  <2>9. AnsweredUpTo(position)'
    <3>1. /\ n + 1 <= Len(p) => a = <<>>
          /\ n + 1 >= Len(p) => Len(a) = n + 1 - Len(p)
      BY <1>2, <1>4 DEF AnsweredUpTo
    <3>2. position' = n + 1 /\ req'.prompt = p /\ generated' = a
      BY <1>1, <1>3, <2>1
    <3>3. /\ position' <= Len(req'.prompt) => generated' = <<>>
          /\ position' >= Len(req'.prompt) => Len(generated') = position' - Len(req'.prompt)
      <4>1. n \in Nat /\ Len(p) \in Nat
        BY <1>2
      <4> HIDE DEF n, p, a
      <4> QED
        BY <3>1, <3>2, <4>1
    <3> QED
      BY <1>2, <3>2, <3>3 DEF AnsweredUpTo
  <2>10. PagedInv'
    BY <1>3, <1>5, <2>1, <2>6, <2>7, <2>8, <2>9 DEF PagedInv
  <2> QED
    BY <1>1, <1>2, <2>1, <2>3, <2>4, <2>10, PagedStep
<1>6. CASE req.gen # "paged"
  <2>1. pc' = "idle" /\ status' = "ready" /\ pager' = NoPager
        /\ UNCHANGED <<nextToken, position>>
    BY <1>6 DEF FinishPosition, Leave
  <2>2. Len(a) = req.max
    <3>1. n = 0 /\ 0 + 1 <= Len(p)
      BY <1>2, <1>4, <1>6
    <3>2. a = <<>>
      BY <1>4, <3>1 DEF AnsweredUpTo
    <3> QED
      BY <1>2, <1>6, <3>2
  <2>3. PagerInv'
    BY <2>1, NoPagerShape DEF PagerInv
  <2> QED
    BY <1>1, <1>2, <2>1, <2>2, <2>3, PagedStep
<1> QED
  BY <1>5, <1>6

\* Something raises, and the pager is closed.
LEMMA PagedFailsStep ==
  ASSUME IInv, PagedFails
  PROVE  IInv'
<1>1. /\ Paging /\ status = "running" /\ UNCHANGED coreRest
      /\ fault' = TRUE /\ pc' = "idle" /\ status' = "blocked" /\ pager' = NoPager
      /\ UNCHANGED <<generated, kv, nextToken, position>>
  BY DEF PagedFails, Leave, IInv, Shape
<1>2. /\ generated \in Seq(Token) /\ Exact(req.prompt, generated)
      /\ kv \in Seq(RowSet) /\ nextToken \in Token \cup {NoToken} /\ position \in Nat
  BY <1>1, PagedFacts
<1>3. PagerInv'
  BY <1>1, NoPagerShape DEF PagerInv
<1> QED
  BY <1>1, <1>2, <1>3, PagedStep

\* Every step of the paged loop and its probes keeps the invariant.
LEMMA PagerPreserves ==
  ASSUME VerifierChooses, IInv, PagerStep
  PROVE  IInv'
BY BeginPager, TakeTokenStep, PageLayerStep, RunLayerStep, TrimLayersStep,
   TakeAheadStep, NextLayerStep, FinishPositionStep, PagedFailsStep DEF PagerStep

-----------------------------------------------------------------------------
(***************************************************************************)
(* The pager's books: the order of use, the budget, and what is on its way. *)
(***************************************************************************)
\* The order of use lists each resident layer once, and none of them is on its way.
Listed(p) ==
    /\ p.lru \in Seq(Executed) /\ Once(p.lru)
    /\ \A x : Lists(p.lru, x) <=> x \in DOMAIN p.layers
    /\ p.pending \cap DOMAIN p.layers = {}

\* What the last enforce_budget left.
Fits(p) == ResidentBytes(p.layers) <= req.budget \/ DOMAIN p.layers \subseteq {p.last}

OnTheirWay ==
    /\ \A l \in pager.pending : l > pager.at \/ (l = pager.at /\ pc = "page")
    /\ pc = "token" => pager.pending = {}

PagerBooks ==
    Paging => /\ Listed(pager) /\ OnTheirWay
              /\ pc \in {"ahead", "tail", "token", "page"} => Fits(pager)
              /\ pc = "tail" => pager.at = LayerCount

LEMMA NoPagerBooks ==
  Listed(NoPager) /\ Fits(NoPager) /\ NoPager.pending = {} /\ NoPager.at = 1
<1>1. NoPager.lru \in Seq(Executed) /\ Once(NoPager.lru) /\ \A x : ~Lists(NoPager.lru, x)
  BY EmptySeq DEF NoPager, Once, Lists
<1>2. DOMAIN NoPager.layers = {}
  BY DEF NoPager
<1>3. NoPager.pending = {} /\ NoPager.at = 1
  BY DEF NoPager
<1> QED
  BY <1>1, <1>2, <1>3 DEF Listed, Fits

\* A layer that is used moves to the young end.
LEMMA TouchBooks ==
  ASSUME NEW p, PagerShape(p), NEW l \in Executed, NEW q, q = Touch(p, l)
  PROVE  /\ q.layers = p.layers /\ q.pending = p.pending
         /\ p.lru \in Seq(Executed) => q.lru \in Seq(Executed)
         /\ p.lru \in Seq(Executed) /\ Once(p.lru) => Once(q.lru)
         /\ p.lru \in Seq(Executed) => \A x : Lists(q.lru, x) <=> x = l \/ Lists(p.lru, x)
<1>1. PICK full : full = PutLast(p.lru, {l}, l)
  OBVIOUS
<1>2. q.layers = p.layers /\ q.pending = p.pending /\ q.lru = full
  BY <1>1 DEF Touch, PagerShape
<1>3. ASSUME p.lru \in Seq(Executed)
      PROVE  /\ full \in Seq(Executed)
             /\ Once(p.lru) => Once(full)
             /\ \A y : Lists(full, y) <=> y = l \/ (y \notin {l} /\ Lists(p.lru, y))
  <2>1. PICK order, gone : order = p.lru /\ gone = {l} /\ order \in Seq(Executed)
    BY <1>3
  <2>2. order \in Seq(Executed) /\ l \in gone /\ full = PutLast(order, gone, l)
    BY <1>1, <2>1
  <2>3. /\ full \in Seq(Executed)
        /\ \A y : Lists(full, y) <=> y = l \/ (y \notin gone /\ Lists(order, y))
        /\ Once(order) => Once(full)
    BY <2>2, PutLastFacts
  <2> QED
    BY <2>1, <2>3
<1> QED
  BY <1>2, <1>3

\* A layer that is taken is resident, and no longer on its way.
LEMMA GotBooks ==
  ASSUME NEW p, PagerShape(p), Listed(p), NEW l \in Executed, NEW q, q = Got(p, l)
  PROVE  Listed(q) /\ q.pending = p.pending \ {l}
<1>1. CASE l \in DOMAIN p.layers
  <2>1. q = Touch(p, l)
    BY <1>1 DEF Got
  <2>2. p.pending \ {l} = p.pending
    BY <1>1 DEF Listed
  <2> QED
    BY <1>1, <2>1, <2>2, TouchBooks DEF Listed
<1>2. CASE l \notin DOMAIN p.layers
  <2> DEFINE f == [k \in DOMAIN p.layers \cup {l} |-> IF k = l THEN FreshLayer ELSE p.layers[k]]
  <2>1. DOMAIN f = {l} \cup DOMAIN p.layers
    OBVIOUS
  <2>2. PICK r : r = [p EXCEPT !.layers = f, !.pending = p.pending \ {l}]
    OBVIOUS
  <2>3. q = Touch(r, l)
    BY <1>2, <2>2 DEF Got
  <2> HIDE DEF f
  <2>4. PagerShape(r)
    BY <2>1, <2>2 DEF PagerShape
  <2>5. r.lru = p.lru /\ DOMAIN r.layers = {l} \cup DOMAIN p.layers /\ r.pending = p.pending \ {l}
    BY <2>1, <2>2 DEF PagerShape
  <2>6. r.lru \in Seq(Executed) /\ Once(r.lru) /\ p.pending \cap DOMAIN p.layers = {}
    BY <2>5 DEF Listed
  <2>7. \A x : Lists(r.lru, x) <=> x \in DOMAIN p.layers
    BY <2>5 DEF Listed
  <2>8. /\ q.layers = r.layers /\ q.pending = r.pending
        /\ q.lru \in Seq(Executed) /\ Once(q.lru)
        /\ \A x : Lists(q.lru, x) <=> x = l \/ Lists(r.lru, x)
    <3>1. /\ q.layers = r.layers /\ q.pending = r.pending
          /\ r.lru \in Seq(Executed) => q.lru \in Seq(Executed)
          /\ r.lru \in Seq(Executed) /\ Once(r.lru) => Once(q.lru)
          /\ r.lru \in Seq(Executed) => \A x : Lists(q.lru, x) <=> x = l \/ Lists(r.lru, x)
      BY <2>3, <2>4, TouchBooks
    <3> QED
      BY <2>6, <3>1
  <2>9. q.pending \cap DOMAIN q.layers = {}
    BY <2>5, <2>6, <2>8
  <2>10. \A x : Lists(q.lru, x) <=> x \in DOMAIN q.layers
    BY <2>5, <2>7, <2>8
  <2> QED
    BY <2>5, <2>8, <2>9, <2>10 DEF Listed
<1> QED
  BY <1>1, <1>2

\* Layers of the window that are not resident are sent ahead.
LEMMA PrefetchedBooks ==
  ASSUME NEW p, PagerShape(p), Listed(p), NEW q, q = Prefetched(p)
  PROVE  /\ Listed(q)
         /\ \A l \in q.pending : l \in p.pending \/ (l \in Executed /\ p.at < l)
<1> DEFINE window == {l \in Executed : p.at < l /\ l <= p.at + req.window}
<1>1. q = [p EXCEPT !.pending = p.pending \cup (window \ DOMAIN p.layers)]
  BY DEF Prefetched
<1>2. \A l \in window : l \in Executed /\ p.at < l
  OBVIOUS
<1> HIDE DEF window
<1>3. /\ q.lru = p.lru /\ q.layers = p.layers
      /\ q.pending = p.pending \cup (window \ DOMAIN p.layers)
  BY <1>1 DEF PagerShape
<1> QED
  BY <1>2, <1>3 DEF Listed

\* Whichever layers are evicted, they leave the order of use too.
LEMMA WithoutBooks ==
  ASSUME NEW p, PagerShape(p), Listed(p), NEW gone, NEW q, q = WithoutLayers(p, gone)
  PROVE  /\ Listed(q) /\ q.pending = p.pending
         /\ DOMAIN q.layers = DOMAIN p.layers \ gone
<1>1. PICK left : left = Restrict(p.layers, DOMAIN p.layers \ gone)
  OBVIOUS
<1>2. DOMAIN left = DOMAIN p.layers \ gone
  BY <1>1 DEF Restrict
<1>3. PICK order, rest : /\ order = p.lru /\ order \in Seq(Executed)
                         /\ rest = WithoutAll(order, gone)
  BY DEF Listed
<1>4. /\ rest \in Seq(Executed)
      /\ Once(order) => Once(rest)
      /\ \A x : Lists(rest, x) <=> x \notin gone /\ Lists(order, x)
  BY <1>3, WithoutAllFacts
<1>5. q = [p EXCEPT !.layers = left, !.lru = rest]
  BY <1>1, <1>3 DEF WithoutLayers
<1>6. q.layers = left /\ q.lru = rest /\ q.pending = p.pending
  BY <1>5 DEF PagerShape
<1> QED
  BY <1>2, <1>3, <1>4, <1>6 DEF Listed

\* enforce_budget evicts the oldest layers until the others fit, or only the
\* protected one is left.
LEMMA EnforcedBooks ==
  ASSUME NEW p, PagerShape(p), Listed(p), NEW protected \in Executed,
         NEW q, q = Enforced(p, protected)
  PROVE  Listed(q) /\ q.pending = p.pending /\ Fits(q)
<1> DEFINE old       == WithoutAll(p.lru, {protected})
           oldest(n) == {old[i] : i \in 1 .. n}
           after(n)  == WithoutLayers(p, oldest(n))
           enough(n) == ResidentBytes(after(n).layers) <= req.budget \/ n = Len(old)
           least     == CHOOSE n \in 0 .. Len(old) :
                           enough(n) /\ \A m \in 0 .. n - 1 : ~enough(m)
           T         == {n \in 0 .. Len(old) : enough(n)}
<1>1. q = [after(least) EXCEPT !.last = protected]
  BY DEF Enforced
<1>2. /\ Len(old) \in Nat
      /\ \A x : Lists(old, x) <=> x # protected /\ Lists(p.lru, x)
  <2>1. PICK order, gone, rest :
           /\ order = p.lru /\ order \in Seq(Executed)
           /\ gone = {protected} /\ rest = WithoutAll(order, gone)
    BY DEF Listed
  <2>2. /\ Len(rest) \in Nat
        /\ \A x : Lists(rest, x) <=> x \notin gone /\ Lists(order, x)
    BY <2>1, WithoutAllFacts
  <2>3. rest = old
    BY <2>1
  <2> QED
    BY <2>1, <2>2, <2>3
<1> HIDE DEF old
<1>3. \E n \in T : \A m \in 0 .. n - 1 : m \notin T
  <2>1. PICK L \in Nat : L = Len(old)
    BY <1>2
  <2>2. T \in SUBSET (0 .. L) /\ L \in T
    BY <2>1
  <2> HIDE DEF T
  <2> QED
    BY <2>2, LeastOf
<1>4. \E n \in 0 .. Len(old) : enough(n) /\ \A m \in 0 .. n - 1 : ~enough(m)
  <2>1. PICK n \in T : \A m \in 0 .. n - 1 : m \notin T
    BY <1>3
  <2>2. \A m \in 0 .. n - 1 : m \in 0 .. Len(old)
    BY <1>2, <2>1
  <2> HIDE DEF enough
  <2> QED
    BY <2>1, <2>2
<1>5. least \in 0 .. Len(old) /\ enough(least)
  <2> HIDE DEF enough
  <2> QED
    BY <1>4
<1> HIDE DEF least
<1>6. PICK a : a = after(least)
  OBVIOUS
<1>7. /\ Listed(a) /\ a.pending = p.pending
      /\ DOMAIN a.layers = DOMAIN p.layers \ oldest(least)
  <2> HIDE DEF oldest
  <2> QED
    BY <1>6, WithoutBooks
<1>8. PagerShape(a)
  <2> HIDE DEF oldest
  <2> QED
    BY <1>6, WithoutFields
<1>9. q = [a EXCEPT !.last = protected]
  BY <1>1, <1>6
<1>10. /\ q.layers = a.layers /\ q.lru = a.lru /\ q.pending = a.pending
       /\ q.last = protected
  BY <1>8, <1>9 DEF PagerShape
<1>11. ResidentBytes(a.layers) <= req.budget \/ least = Len(old)
  BY <1>5, <1>6
<1>12. ASSUME least = Len(old) PROVE DOMAIN a.layers \subseteq {protected}
  <2> SUFFICES ASSUME NEW x \in DOMAIN p.layers, x # protected PROVE x \in oldest(least)
    BY <1>7
  <2>1. Lists(old, x)
    BY <1>2 DEF Listed
  <2> QED
    BY <1>12, <2>1 DEF Lists
<1>13. Listed(q)
  BY <1>7, <1>10 DEF Listed
<1>14. Fits(q)
  BY <1>10, <1>11, <1>12 DEF Fits
<1> QED
  BY <1>7, <1>10, <1>13, <1>14

\* What a step of the pager finds.
LEMMA BooksFacts ==
  ASSUME IInv, PagerBooks, Paging
  PROVE  /\ PagerShape(pager) /\ Listed(pager) /\ OnTheirWay
         /\ pager.at \in 1 .. LayerCount /\ LayerCount \in Nat
         /\ pc \in {"ahead", "tail", "token", "page"} => Fits(pager)
         /\ pc = "tail" => pager.at = LayerCount
         /\ \A l \in pager.pending : l \in 1 .. LayerCount
  BY LayerAssumption DEF IInv, PagerInv, PagerShape, PagerBooks, Executed

\* The pager is closed, and a new one is made.
LEMMA ClosedBooks ==
  ASSUME pager' = NoPager, pc' \in {"idle", "token"}
  PROVE  PagerBooks'
<1>1. Listed(pager)'
  BY NoPagerBooks DEF Listed
<1>2. DOMAIN NoPager.layers = {}
  BY DEF NoPager
<1>3. Fits(pager)' /\ OnTheirWay'
  BY <1>2, NoPagerBooks DEF Fits, OnTheirWay
<1> QED
  BY <1>1, <1>3 DEF PagerBooks

\* Steps of the other generators are of requests that are not paged.
LEMMA OthersBooks ==
  ASSUME PagerBooks, SessionStep \/ FP8Step \/ MtpStep, UNCHANGED pager
  PROVE  PagerBooks'
<1>7. CASE WarmPrefill
  BY <1>7 DEF WarmPrefill, PagerBooks, Paging, Listed, Fits, OnTheirWay
<1> SUFFICES ASSUME ~WarmPrefill PROVE ~Paging'
  BY <1>7 DEF PagerBooks
<1>1. CASE Begin({"stateful", "stateless"}, "propose") \/ Begin({"plain", "cached"}, "prefill")
           \/ Begin({"mtp"}, "prefill")
  BY <1>1 DEF Begin, Paging, PagedKinds
<1>2. CASE Propose \/ ProposeFails \/ VerifyInitialCandidates \/ VerifyCandidates
           \/ VerifyFails \/ AcceptStateful \/ AppendToken \/ AppendFails
           \/ VerifyStateless \/ AcceptStateless
  BY <1>2 DEF Propose, ProposeFails, VerifyInitialCandidates, VerifyCandidates, VerifyFails,
     AcceptStateful, AppendToken, AppendFails, VerifyStateless, AcceptStateless, GiveUp,
     Paging, PagedKinds
<1>3. CASE PlainPrefill \/ PlainPrefillFails \/ PromptStep \/ GenerateStep \/ StepFails
           \/ PlainDone
  BY <1>3 DEF PlainPrefill, PlainPrefillFails, PrefillFails, PromptStep, GenerateStep,
     StepFails, PlainDone, GiveUp, Paging, PagedKinds
<1>4. CASE OpenSession \/ OpenSessionFails \/ ProposeCached \/ VerifyCached
           \/ VerifyCachedFails \/ AcceptCached
  BY <1>4 DEF OpenSession, OpenSessionFails, ProposeCached, VerifyCached,
     VerifyCachedFails, AcceptCached, GiveUp, Paging, PagedKinds
<1>5. CASE MtpPrefill \/ MtpPrefillFails \/ MtpFails \/ MtpDone \/ AcceptMtp
  BY <1>5 DEF MtpPrefill, MtpPrefillFails, PrefillFails, MtpFails, DraftStarts, MtpDone,
     AcceptMtp, GiveUp, Paging, PagedKinds
<1>6. CASE DraftLinear \/ DraftTree \/ DraftTreeCut \/ VerifyMtp
  BY <1>6 DEF DraftLinear, DraftTree, DraftTreeCut, DraftStarts, VerifyMtp, Paging, PagedKinds
<1> QED
  BY <1>1, <1>2, <1>3, <1>4, <1>5, <1>6 DEF SessionStep, FP8Step, MtpStep

LEMMA PageLayerBooks ==
  ASSUME IInv, PagerBooks, PageLayer
  PROVE  PagerBooks'
<1>1. /\ Paging /\ pc = "page" /\ pc' = "run"
  BY DEF PageLayer
<1>2. /\ PagerShape(pager) /\ Listed(pager) /\ OnTheirWay
      /\ pager.at \in 1 .. LayerCount /\ LayerCount \in Nat
  BY <1>1, BooksFacts
<1>3. \A l \in pager.pending : l > pager.at \/ l = pager.at
  BY <1>2 DEF OnTheirWay
<1>4. PICK q : /\ q = pager \/ q = Prefetched(pager)
               /\ pager' = Got(q, pager.at)
  BY DEF PageLayer
<1>5. pager.at \in Executed
  BY <1>2 DEF Executed
<1>6. PagerShape(q) /\ Listed(q) /\ q.at = pager.at
  BY <1>2, <1>4, PrefetchedFields, PrefetchedBooks
<1>7. \A l \in q.pending : l > pager.at \/ l = pager.at
  <2>1. \A l \in Executed : pager.at < l => l > pager.at
    BY <1>2 DEF Executed
  <2>2. CASE q = pager
    BY <1>3, <2>2
  <2>3. CASE q = Prefetched(pager)
    <3>1. \A l \in q.pending : l \in pager.pending \/ (l \in Executed /\ pager.at < l)
      BY <1>2, <2>3, PrefetchedBooks
    <3> QED
      BY <1>3, <2>1, <3>1
  <2> QED
    BY <1>4, <2>2, <2>3
<1>8. PICK r : r = Got(q, pager.at)
  OBVIOUS
<1>9. Listed(r) /\ r.pending = q.pending \ {pager.at} /\ r.at = pager.at
  BY <1>5, <1>6, <1>8, GotBooks, GotFields
<1>10. pager' = r
  BY <1>4, <1>8
<1>11. Listed(pager)'
  BY <1>9, <1>10 DEF Listed
<1>12. OnTheirWay'
  BY <1>1, <1>7, <1>9, <1>10 DEF OnTheirWay
<1> QED
  BY <1>1, <1>11, <1>12 DEF PagerBooks

\* The layer grows; the layers that are resident stay the same.
LEMMA RunLayerBooks ==
  ASSUME IInv, PagerBooks, RunLayer
  PROVE  PagerBooks'
<1>1. /\ Paging /\ pc = "run" /\ pc' = "trim"
  BY DEF RunLayer
<1>2. PagerShape(pager) /\ Listed(pager) /\ OnTheirWay
  BY <1>1, BooksFacts
<1>3. PICK f : DOMAIN f = DOMAIN pager.layers /\ pager' = [pager EXCEPT !.layers = f]
  BY DEF RunLayer
<1>4. /\ pager'.lru = pager.lru /\ pager'.layers = f /\ pager'.pending = pager.pending
      /\ pager'.at = pager.at
  BY <1>2, <1>3 DEF PagerShape
<1>5. Listed(pager)' /\ OnTheirWay'
  BY <1>1, <1>2, <1>3, <1>4 DEF Listed, OnTheirWay
<1> QED
  BY <1>1, <1>5 DEF PagerBooks

LEMMA TrimLayersBooks ==
  ASSUME IInv, PagerBooks, TrimLayers
  PROVE  PagerBooks'
<1>1. /\ Paging /\ pc = "trim" /\ pc' = "ahead" /\ req' = req
      /\ pager' = Enforced(pager, pager.at)
  BY DEF TrimLayers, coreRest
<1>2. PagerShape(pager) /\ Listed(pager) /\ OnTheirWay /\ pager.at \in Executed
  BY <1>1, BooksFacts DEF Executed
<1>3. PICK r : r = Enforced(pager, pager.at)
  OBVIOUS
<1>4. Listed(r) /\ Fits(r) /\ r.pending = pager.pending /\ r.at = pager.at
  BY <1>2, <1>3, EnforcedBooks, EnforcedFields
<1>5. pager' = r
  BY <1>1, <1>3
<1>6. Listed(pager)' /\ Fits(pager)' /\ OnTheirWay'
  BY <1>1, <1>2, <1>4, <1>5 DEF Listed, Fits, OnTheirWay
<1> QED
  BY <1>1, <1>6 DEF PagerBooks

LEMMA TakeAheadBooks ==
  ASSUME IInv, PagerBooks, TakeAhead
  PROVE  PagerBooks'
<1> DEFINE l == pager.at + pager.ahead + 1
<1>1. /\ Paging /\ pc = "ahead" /\ pc' = "ahead" /\ req' = req /\ MoreAhead
      /\ pager' = [Enforced(Got(pager, l), pager.at) EXCEPT !.ahead = pager.ahead + 1]
  BY DEF TakeAhead, coreRest
<1>2. /\ PagerShape(pager) /\ Listed(pager) /\ OnTheirWay /\ pager.at \in Executed
      /\ pager.at \in 1 .. LayerCount /\ LayerCount \in Nat
  BY <1>1, BooksFacts DEF Executed
<1>3. l \in Executed
  <2>1. pager.ahead \in 0 .. LayerCount
    BY <1>2 DEF PagerShape
  <2>2. pager.at + pager.ahead < LayerCount
    BY <1>1 DEF MoreAhead
  <2> QED
    BY <1>2, <2>1, <2>2 DEF Executed
<1> HIDE DEF l
<1>4. PICK g : g = Got(pager, l)
  OBVIOUS
<1>5. PagerShape(g) /\ Listed(g) /\ g.pending = pager.pending \ {l} /\ g.at = pager.at
  BY <1>2, <1>3, <1>4, GotFields, GotBooks
<1>6. PICK r : r = Enforced(g, pager.at)
  OBVIOUS
<1>7. /\ PagerShape(r) /\ Listed(r) /\ Fits(r)
      /\ r.pending = g.pending /\ r.at = pager.at
  BY <1>2, <1>5, <1>6, EnforcedBooks, EnforcedFields
<1>8. pager' = [r EXCEPT !.ahead = pager.ahead + 1]
  BY <1>1, <1>4, <1>6
<1>9. /\ pager'.layers = r.layers /\ pager'.lru = r.lru /\ pager'.pending = r.pending
      /\ pager'.at = r.at /\ pager'.last = r.last
  BY <1>7, <1>8 DEF PagerShape
<1>10. Listed(pager)' /\ Fits(pager)'
  BY <1>1, <1>7, <1>9 DEF Listed, Fits
<1>11. OnTheirWay'
  BY <1>1, <1>2, <1>5, <1>7, <1>9 DEF OnTheirWay
<1> QED
  BY <1>1, <1>10, <1>11 DEF PagerBooks

\* What is on its way is for the next layer or a later one; after the last layer
\* nothing is.
LEMMA NextLayerBooks ==
  ASSUME IInv, PagerBooks, NextLayer
  PROVE  PagerBooks'
<1>1. Paging /\ pc = "ahead" /\ req' = req
  BY DEF NextLayer, coreRest
<1>2. /\ PagerShape(pager) /\ Listed(pager) /\ OnTheirWay /\ Fits(pager)
      /\ pager.at \in 1 .. LayerCount /\ LayerCount \in Nat
      /\ \A l \in pager.pending : l \in 1 .. LayerCount
  BY <1>1, BooksFacts
<1>3. \A l \in pager.pending : l > pager.at
  BY <1>1, <1>2 DEF OnTheirWay
<1>4. CASE pager.at < LayerCount
  <2>1. pager' = [pager EXCEPT !.at = pager.at + 1, !.ahead = 0] /\ pc' = "page"
    BY <1>4 DEF NextLayer
  <2>2. /\ pager'.layers = pager.layers /\ pager'.lru = pager.lru
        /\ pager'.pending = pager.pending
        /\ pager'.at = pager.at + 1 /\ pager'.last = pager.last
    BY <1>2, <2>1 DEF PagerShape
  <2>3. Listed(pager)' /\ Fits(pager)'
    BY <1>1, <1>2, <2>2 DEF Listed, Fits
  <2>4. \A l \in pager.pending : l > pager.at + 1 \/ l = pager.at + 1
    BY <1>2, <1>3
  <2>5. OnTheirWay'
    BY <2>1, <2>2, <2>4 DEF OnTheirWay
  <2> QED
    BY <2>1, <2>3, <2>5 DEF PagerBooks
<1>5. CASE ~(pager.at < LayerCount)
  <2>1. pager' = pager /\ pc' = "tail" /\ pager.at = LayerCount
    BY <1>2, <1>5 DEF NextLayer
  <2>2. Listed(pager)' /\ Fits(pager)'
    BY <1>1, <1>2, <2>1 DEF Listed, Fits
  <2>3. OnTheirWay'
    BY <1>3, <2>1 DEF OnTheirWay
  <2> QED
    BY <2>1, <2>2, <2>3 DEF PagerBooks
<1> QED
  BY <1>4, <1>5

LEMMA TakeTokenBooks ==
  ASSUME IInv, PagerBooks, TakeToken
  PROVE  PagerBooks'
<1>1. Paging /\ pc = "token" /\ req' = req
  BY DEF TakeToken, coreRest
<1>2. CASE pager' = NoPager /\ pc' = "idle"
  BY <1>2, ClosedBooks
<1>3. CASE pager' = [pager EXCEPT !.at = 1] /\ pc' = "page"
  <2>1. PagerShape(pager) /\ Listed(pager) /\ Fits(pager) /\ pager.pending = {}
    BY <1>1, BooksFacts DEF OnTheirWay
  <2>2. /\ pager'.layers = pager.layers /\ pager'.lru = pager.lru
        /\ pager'.pending = pager.pending /\ pager'.last = pager.last
    BY <1>3, <2>1 DEF PagerShape
  <2>3. Listed(pager)' /\ Fits(pager)' /\ OnTheirWay'
    BY <1>1, <1>3, <2>1, <2>2 DEF Listed, Fits, OnTheirWay
  <2> QED
    BY <1>3, <2>3 DEF PagerBooks
<1> QED
  BY <1>2, <1>3 DEF TakeToken, Leave

LEMMA FinishPositionBooks ==
  ASSUME IInv, PagerBooks, FinishPosition
  PROVE  PagerBooks'
<1>1. Paging /\ pc = "tail" /\ req' = req
  BY DEF FinishPosition, coreRest
<1>2. CASE pager' = NoPager /\ pc' = "idle"
  BY <1>2, ClosedBooks
<1>3. CASE pager' = pager /\ pc' = "token"
  <2>1. /\ Listed(pager) /\ Fits(pager) /\ OnTheirWay
        /\ pager.at = LayerCount /\ LayerCount \in Nat
        /\ \A l \in pager.pending : l \in 1 .. LayerCount
    BY <1>1, BooksFacts
  <2>2. pager.pending = {}
    BY <1>1, <2>1 DEF OnTheirWay
  <2>3. Listed(pager)' /\ Fits(pager)' /\ OnTheirWay'
    BY <1>1, <1>3, <2>1, <2>2 DEF Listed, Fits, OnTheirWay
  <2> QED
    BY <1>3, <2>3 DEF PagerBooks
<1> QED
  BY <1>2, <1>3 DEF FinishPosition, Leave

LEMMA StepBooks ==
  ASSUME IInv, PagerBooks, [Next]_allVars
  PROVE  PagerBooks'
<1>1. CASE BeginPaged \/ PagedFails
  BY <1>1, ClosedBooks DEF BeginPaged, Begin, PagedFails, Leave
<1>2. CASE UNCHANGED allVars
  <2>1. req' = req /\ pc' = pc /\ pager' = pager
    BY <1>2 DEF allVars, vars
  <2> QED
    BY <2>1 DEF PagerBooks, Paging, Listed, Fits, OnTheirWay
<1>3. CASE PagerStep
  BY <1>1, <1>3, TakeTokenBooks, PageLayerBooks, RunLayerBooks, TrimLayersBooks,
     TakeAheadBooks, NextLayerBooks, FinishPositionBooks DEF PagerStep
<1> QED
  BY <1>2, <1>3, OthersBooks DEF Next

-----------------------------------------------------------------------------
(***************************************************************************)
(* The invariant, and what it says of the properties that are checked.     *)
(***************************************************************************)
LEMMA Stutter ==
  ASSUME IInv, UNCHANGED allVars
  PROVE  IInv'
<1>1. /\ UNCHANGED <<req, pc, status, generated, committed, kv, nextToken, drafts>>
      /\ UNCHANGED <<ver, tent, native, position, prefills, fault, served, pager>>
  BY DEF allVars, vars
<1>2. Shape' /\ PrefillsInv' /\ PagerInv'
  BY <1>1 DEF IInv, Shape, PrefillsInv, PagerInv
<1>3. AnswerInv' /\ NativeInv' /\ BlockedInv' /\ ReadyIsComplete'
  BY <1>1 DEF IInv, AnswerInv, Trusted, Calm, NativeInv, BlockedInv, ReadyIsComplete
<1>4. StatelessInv' = StatelessInv /\ StatefulInv' = StatefulInv
  BY <1>1 DEF StatelessInv, StatefulInv, Drafted, OneRow, Remaining, Calm, TentativeInv
<1>5. CachedInv' = CachedInv /\ PlainInv' = PlainInv /\ PagedInv' = PagedInv
  BY <1>1 DEF CachedInv, PlainInv, PagedInv, Drafted, OneRow, Remaining, AnsweredUpTo,
     MorePositions, RowsRun
<1>6. MtpInv' = MtpInv
  BY <1>1 DEF MtpInv, MtpRows, MtpVerified, Drafted, Excess, Trimmed, TreeDepth,
     RemainingVisible
<1>7. RunningInv'
  BY <1>1, <1>4, <1>5, <1>6 DEF IInv, RunningInv, Paging
<1> QED
  BY <1>2, <1>3, <1>7 DEF IInv

\* Every step of every generator keeps the invariant.
LEMMA StepIInv ==
  ASSUME VerifierChooses, IInv, [Next]_allVars
  PROVE  IInv'
BY Stutter, SessionPreserves, FP8Preserves, MtpPreserves, PagerPreserves DEF Next

LEMMA TypesFollow == IInv => TypeOK
<1> SUFFICES ASSUME IInv PROVE TypeOK
  OBVIOUS
<1>1. req.gen \in Generators
  BY RequestFacts DEF IInv, Shape
<1>2. pc \in {"idle", "prefill", "propose", "draft", "verify", "accept",
              "append", "step", "token", "page", "run", "trim", "ahead", "tail"}
  <2>1. CASE status # "running"
    BY <2>1 DEF IInv, Shape
  <2>2. CASE status = "running"
    BY <1>1, <2>2 DEF IInv, RunningInv, StatelessInv, StatefulInv, CachedInv, PlainInv,
       MtpInv, PagedInv, Generators, Paging, PagedKinds
  <2> QED
    BY <2>1, <2>2
<1>3. /\ \A b \in 1 .. Len(drafts) : drafts[b] \in Seq(Token)
      /\ \A b \in 1 .. Len(ver) : ver[b] \in Seq(Token)
  BY DEF IInv, Shape
<1> QED
  BY <1>2, <1>3 DEF IInv, Shape, NativeSet, PrefillsInv, PagerInv, PagerShape, TypeOK

LEMMA AnswersFollow == IInv => AnswerIsGreedy
BY DEF IInv, AnswerInv, Trusted, Exact, AnswerIsGreedy

\* What a waiting generator is, and what its context is.
LEMMA WaitingFacts ==
  ASSUME IInv, Waiting
  PROVE  /\ status = "running"
         /\ \/ req.gen = "stateful" /\ StatefulInv /\ pc # "accept" /\ Context = committed
            \/ req.gen = "stateless" /\ StatelessInv /\ Context = <<>>
            \/ req.gen = "cached" /\ CachedInv /\ pc = "propose"
                 /\ Context = req.prompt \o committed
            \/ req.gen = "mtp" /\ MtpInv /\ pc = "draft" /\ Context = req.prompt \o generated
                 /\ (~Enough(generated) => Len(generated) < req.max)
            \/ req.gen = "plain" /\ PlainInv
                 /\ Context = SubSeq(req.prompt \o generated, 1, position)
            \/ req.gen \in PagedKinds /\ PagedInv /\ pc = "token"
                 /\ Context = SubSeq(req.prompt \o generated, 1, position)
<1>1. /\ status = "running"
      /\ pc \in {"propose", "draft", "append", "step", "token"}
  BY DEF Waiting, IInv, Shape
<1>2. req.gen \in Generators
  BY RequestFacts DEF IInv, Shape
<1>3. ASSUME req.gen = "mtp", ~Enough(generated) PROVE Len(generated) < req.max
  <2>1. ~(Len(generated) >= req.max) /\ Len(generated) \in Nat /\ req.max \in Nat
    BY <1>1, <1>3, MtpWants
  <2> QED
    BY <2>1
<1>4. RunningInv
  BY DEF IInv
<1> QED
  BY <1>1, <1>2, <1>3, <1>4 DEF RunningInv, Generators, Paging, PagedKinds, Context,
     StatefulInv, StatelessInv, CachedInv, MtpInv, PlainInv, PagedInv

LEMMA CachesFollow == IInv => CachesMatch
<1> SUFFICES ASSUME IInv PROVE CachesMatch
  OBVIOUS
<1>1. KvMatchesContext
  <2> SUFFICES ASSUME Calm, Waiting, ~native.on,
                      ~(req.gen = "stateful" /\ nextToken = NoToken),
                      ~(req.gen = "mtp" /\ Enough(generated)),
                      ~(req.gen = "plain" /\ ~MorePositions)
               PROVE  kv = Rows(Context, 0)
    BY DEF KvMatchesContext
  <2>1. Rows(<<>>, 0) = <<>>
    BY DEF Rows
  <2> QED
    BY <2>1, WaitingFacts DEF StatefulInv, StatelessInv, CachedInv, MtpInv, PlainInv,
       PagedInv, RowsRun, PagedKinds
<1>2. NativeMatchesCommitted
  BY DEF IInv, NativeInv, NativeMatchesCommitted
<1>3. OnePending
  BY DEF IInv, RunningInv, StatefulInv, CachedInv, OnePending
<1>4. PrefillEntriesExact
  BY DEF IInv, PrefillsInv, PrefillEntries, PrefillEntriesExact
<1> QED
  BY <1>1, <1>2, <1>3, <1>4 DEF CachesMatch

LEMMA NextTokensFollow == IInv => NextTokenIsGreedy
<1> SUFFICES ASSUME IInv, Calm, Waiting, nextToken # NoToken,
                    ~(req.gen = "mtp" /\ Enough(generated)),
                    ~(req.gen = "plain" /\ (position < Len(req.prompt) \/ ~MorePositions))
             PROVE  nextToken = Greedy(Context)
  BY DEF NextTokenIsGreedy
<1>1. position \in Nat /\ Len(req.prompt) \in Nat
  BY RequestFacts DEF IInv, Shape
<1>2. position >= Len(req.prompt) \/ position < Len(req.prompt)
  BY <1>1
<1> QED
  BY <1>2, WaitingFacts DEF StatefulInv, StatelessInv, CachedInv, MtpInv, PlainInv,
     PagedInv, PagedKinds

LEMMA EndsFollow == IInv => EndsAsItShould
BY DEF IInv, BlockedInv, BlockedByFault, EndsAsItShould

LEMMA PagersFollow == PagerBooks => PagerSound
<1> SUFFICES ASSUME PagerBooks, Paging PROVE PagerSound
  BY DEF PagerSound
<1>1. Listed(pager) /\ OnTheirWay
  BY DEF PagerBooks
<1>2. PICK s, D : /\ s = pager.lru /\ D = DOMAIN pager.layers
                  /\ s \in Seq(Executed) /\ Once(s)
                  /\ \A x : Lists(s, x) <=> x \in D
  BY <1>1 DEF Listed
<1>3. Len(s) = Cardinality(D)
  BY <1>2, OnceLength
<1>4. ASSUME NEW l \in D PROVE Cardinality({i \in 1 .. Len(s) : s[i] = l}) = 1
  <2>1. PICK i \in 1 .. Len(s) : s[i] = l
    BY <1>2, <1>4 DEF Lists
  <2>2. {j \in 1 .. Len(s) : s[j] = l} = {i}
    BY <1>2, <2>1 DEF Once
  <2> QED
    BY <2>2, FS_Singleton
<1>5. pc \in {"ahead", "tail", "token", "page"} =>
         \/ ResidentBytes(pager.layers) <= req.budget
         \/ DOMAIN pager.layers \subseteq {pager.last}
  BY DEF PagerBooks, Fits
<1> QED
  BY <1>1, <1>2, <1>3, <1>4, <1>5 DEF PagerSound, Listed, OnTheirWay

-----------------------------------------------------------------------------
\* The generators keep the invariant whatever they are asked, in any order.
THEOREM Invariance ==
  ASSUME VerifierChooses
  PROVE  Spec => []IInv
<1>1. Init => IInv
  BY InitIInv
<1>2. IInv /\ [Next]_allVars => IInv'
  BY StepIInv
<1> QED
  BY <1>1, <1>2, PTL DEF Spec

\* The variables keep their types.
THEOREM TypeCorrect ==
  ASSUME VerifierChooses
  PROVE  Spec => []TypeOK
BY Invariance, TypesFollow, PTL

\* Every token of every answer is the verifier's own greedy choice, whatever was
\* drafted, rejected, corrected, restored or paged out on the way.
THEOREM AnswersAreGreedy ==
  ASSUME VerifierChooses
  PROVE  Spec => []AnswerIsGreedy
BY Invariance, AnswersFollow, PTL

\* Between verifications the rows that are kept are those of the committed tokens,
\* and a prefill entry is what its prompt alone gives.
THEOREM CachesMatchContexts ==
  ASSUME VerifierChooses
  PROVE  Spec => []CachesMatch
BY Invariance, CachesFollow, PTL

\* The token a loop will force or compare first is the verifier's choice.
THEOREM NextTokenGreedy ==
  ASSUME VerifierChooses
  PROVE  Spec => []NextTokenIsGreedy
BY Invariance, NextTokensFollow, PTL

\* Ready answers are complete, and a request is refused only after a failure or
\* when an MTP loop has used up its passes.
THEOREM EndsWell ==
  ASSUME VerifierChooses
  PROVE  Spec => []EndsAsItShould
BY Invariance, EndsFollow, PTL

\* The pager's order of use, its budget and its prefetches are consistent, whatever
\* was evicted, prefetched, taken ahead or closed by a failure.
THEOREM PagerIsSound ==
  ASSUME VerifierChooses
  PROVE  Spec => []PagerSound
<1>1. Init => PagerBooks
  <2>1. Init => pager = NoPager /\ pc = "idle"
    BY DEF Init, CoreInit
  <2> QED
    BY <2>1, NoPagerBooks DEF PagerBooks, OnTheirWay
<1>2. IInv /\ PagerBooks /\ [Next]_allVars => PagerBooks'
  BY StepBooks
<1> QED
  BY Invariance, <1>1, <1>2, PagersFollow, PTL DEF Spec

-----------------------------------------------------------------------------
(***************************************************************************)
(* The generators implement greedy decoding.                               *)
(***************************************************************************)
\* Each step begins a request, or belongs to the one that runs and only adds to
\* its answer.
StartsOne ==
    /\ pc = "idle" /\ req' \in Requests /\ generated' = <<>> /\ status' = "running"

AddsToAnswer ==
    /\ status = "running" /\ status' \in {"running", "ready", "blocked"}
    /\ req' = req /\ Grows(generated, generated')

\* A warm-up runs between requests.
LeavesAnswer == UNCHANGED <<req, generated, status>>

LEMMA LongerAnswer ==
  ASSUME IInv, pc # "idle", req' = req, Grows(generated, generated'),
         status' \in {status, "ready", "blocked"}
  PROVE  AddsToAnswer
BY DEF IInv, Shape, AddsToAnswer

LEMMA SameAnswer ==
  ASSUME IInv, pc # "idle", req' = req, generated' = generated,
         status' \in {status, "ready", "blocked"}
  PROVE  AddsToAnswer
<1>1. generated \in Seq(Token)
  BY DEF IInv, Shape
<1> QED
  BY <1>1, GrowsFacts, LongerAnswer

LEMMA SessionAdds ==
  ASSUME VerifierChooses, IInv, SessionStep, UNCHANGED pager
  PROVE  StartsOne \/ AddsToAnswer
<1>1. CASE Begin({"stateful", "stateless"}, "propose")
  BY <1>1 DEF Begin, StartsOne
<1>2. CASE Propose \/ ProposeFails \/ VerifyInitialCandidates \/ VerifyCandidates
           \/ VerifyFails \/ AppendToken \/ AppendFails \/ VerifyStateless
  BY <1>2, SameAnswer DEF Propose, ProposeFails, VerifyInitialCandidates,
     VerifyCandidates, VerifyFails, AppendToken, AppendFails, VerifyStateless, GiveUp, Leave
<1>3. CASE AcceptStateful
  BY <1>3, AcceptStatefulStep, LongerAnswer DEF AcceptStateful, Leave
<1>4. CASE AcceptStateless
  BY <1>4, AcceptStatelessStep, LongerAnswer DEF AcceptStateless, Leave
<1> QED
  BY <1>1, <1>2, <1>3, <1>4 DEF SessionStep

LEMMA FP8Adds ==
  ASSUME VerifierChooses, IInv, FP8Step, UNCHANGED pager
  PROVE  StartsOne \/ AddsToAnswer
<1>1. CASE Begin({"plain", "cached"}, "prefill")
  BY <1>1 DEF Begin, StartsOne
<1>2. CASE PlainPrefill \/ PlainPrefillFails \/ PromptStep \/ PlainDone
  BY <1>2, SameAnswer DEF PlainPrefill, PlainPrefillFails, PrefillFails, PromptStep,
     PlainDone, GiveUp, Leave
<1>3. CASE OpenSession \/ OpenSessionFails \/ ProposeCached \/ VerifyCached
           \/ VerifyCachedFails
  BY <1>3, SameAnswer DEF OpenSession, OpenSessionFails, ProposeCached, VerifyCached,
     VerifyCachedFails, GiveUp, Leave
<1>4. CASE GenerateStep
  BY <1>4, GenerateStepStep, LongerAnswer DEF GenerateStep, Leave
<1>5. CASE StepFails
  BY <1>5, StepFailsStep, LongerAnswer DEF StepFails, Leave
<1>6. CASE AcceptCached
  BY <1>6, AcceptCachedStep, LongerAnswer DEF AcceptCached, Leave
<1> QED
  BY <1>1, <1>2, <1>3, <1>4, <1>5, <1>6 DEF FP8Step

LEMMA MtpAdds ==
  ASSUME VerifierChooses, IInv, MtpStep, UNCHANGED pager
  PROVE  StartsOne \/ AddsToAnswer \/ LeavesAnswer
<1>1. CASE Begin({"mtp"}, "prefill")
  BY <1>1 DEF Begin, StartsOne
<1>2. CASE MtpPrefill \/ MtpPrefillFails \/ MtpFails \/ MtpDone
  BY <1>2, SameAnswer DEF MtpPrefill, MtpPrefillFails, PrefillFails, MtpFails, DraftStarts,
     MtpDone, GiveUp, Leave
<1>3. CASE WarmPrefill
  BY <1>3 DEF WarmPrefill, LeavesAnswer
<1>4. CASE DraftLinear \/ DraftTree \/ DraftTreeCut \/ VerifyMtp
  BY <1>4, SameAnswer DEF DraftLinear, DraftTree, DraftTreeCut, DraftStarts, VerifyMtp
<1>5. CASE AcceptMtp
  BY <1>5, AcceptMtpStep, LongerAnswer DEF AcceptMtp, Leave
<1> QED
  BY <1>1, <1>2, <1>3, <1>4, <1>5 DEF MtpStep

LEMMA PagerAdds ==
  ASSUME VerifierChooses, IInv, PagerStep
  PROVE  StartsOne \/ AddsToAnswer
<1>1. CASE BeginPaged
  BY <1>1 DEF BeginPaged, Begin, StartsOne
<1>2. CASE PageLayer \/ RunLayer \/ TrimLayers \/ TakeAhead \/ NextLayer
  BY <1>2, SameAnswer DEF PageLayer, RunLayer, TrimLayers, TakeAhead, NextLayer, coreRest
<1>3. CASE FinishPosition \/ PagedFails
  BY <1>3, SameAnswer DEF FinishPosition, PagedFails, Leave, coreRest
<1>4. CASE TakeToken
  BY <1>4, TakeTokenStep, LongerAnswer DEF TakeToken, Leave, coreRest
<1> QED
  BY <1>1, <1>2, <1>3, <1>4 DEF PagerStep

\* The native layers of a session are asked for one candidate at a time.
CalmRequests == \A r \in Requests : r.gen = "stateful" /\ r.native => r.k = 1

LEMMA StepsImplement ==
  ASSUME VerifierChooses, CalmRequests, IInv, [Next]_allVars
  PROVE  [Promise!Next]_(Promise!vars)
<1>1. IInv'
  BY StepIInv
<1>2. CASE UNCHANGED allVars \/ LeavesAnswer
  BY <1>2 DEF allVars, vars, LeavesAnswer, Promise!vars
<1>3. CASE StartsOne
  <2>1. status # "running"
    BY <1>3 DEF StartsOne, IInv, Shape
  <2>2. req'.prompt \in Prompts /\ req'.max \in 0 .. MaxNew
    BY <1>3, RequestFacts DEF StartsOne
  <2>3. Promise!Begin
    BY <1>3, <2>1, <2>2 DEF StartsOne, Promise!Begin
  <2> QED
    BY <2>3 DEF Promise!Next
<1>4. CASE AddsToAnswer
  <2>1. status = "running" /\ req' = req
    BY <1>4 DEF AddsToAnswer
  <2>2. generated \in Seq(Token) /\ Grows(generated, generated')
    BY <1>4 DEF AddsToAnswer, IInv, Shape
  <2>3. Len(generated') >= Len(generated) /\ SubSeq(generated', 1, Len(generated)) = generated
    BY <2>2, GrowsPrefix
  <2>4. Exact(req.prompt, generated')
    <3>1. Trusted'
      BY <1>1 DEF CalmRequests, IInv, Shape, Trusted, Calm
    <3> QED
      BY <1>1, <2>1, <3>1 DEF IInv, AnswerInv
  <2>5. Promise!FollowsGreedy(req.prompt, generated', Len(generated))
    <3>1. ASSUME NEW i \in Len(generated) + 1 .. Len(generated')
          PROVE  i \in 1 .. Len(generated')
      BY <2>2
    <3> QED
      BY <2>4, <3>1 DEF Exact, Promise!FollowsGreedy
  <2>6. status' \in {"running", "ready", "blocked"}
    BY <1>4 DEF AddsToAnswer
  <2>7. status' = "ready" => Promise!EndsWell(generated', req.max)
    BY <1>1, <2>1 DEF IInv, ReadyIsComplete, StoppedByEos, Promise!EndsWell
  <2>8. Promise!Extend
    BY <2>1, <2>3, <2>5, <2>6, <2>7 DEF Promise!Extend
  <2> QED
    BY <2>8 DEF Promise!Next
<1> QED
  BY <1>2, <1>3, <1>4, SessionAdds, FP8Adds, MtpAdds, PagerAdds DEF Next

\* Whatever they draft, cache or page, the generators are greedy decoding: an answer
\* only grows, by the verifier's own choices, and is ready only when it is complete.
THEOREM Implements ==
  ASSUME VerifierChooses, CalmRequests
  PROVE  Spec => ImplementsGreedy
<1>1. Init => Promise!Init
  <2>1. ASSUME Init PROVE Promise!Init
    <3>1. req \in Requests /\ generated = <<>> /\ status = "idle"
      BY <2>1, RequestAssumption DEF Init, CoreInit
    <3>2. req.prompt \in Prompts /\ req.max \in 0 .. MaxNew
      BY <3>1, RequestFacts
    <3> QED
      BY <3>1, <3>2 DEF Promise!Init
  <2> QED
    BY <2>1
<1>2. IInv /\ [Next]_allVars => [Promise!Next]_(Promise!vars)
  BY StepsImplement
<1> QED
  BY <1>1, <1>2, Invariance, PTL DEF Spec, ImplementsGreedy, Promise!Spec
=============================================================================
