--------------------------- MODULE JsonDoc_proofs ---------------------------
(* What holds of a document on its way, for every alphabet, every set of    *)
(* names, values and parts, every buffer of at least two bytes and every    *)
(* bound on the documents.                                                  *)
EXTENDS JsonDoc, JsonGen_proofs, JsonParse_proofs

----------------------------------------------------------------------------
(* The client uses the generator as it is meant to be used, and the reader *)
(* leaves it alone.                                                        *)

LEMMA StepOfGen ==
  ASSUME DocNext
  PROVE  Next \/ UNCHANGED genVars
<1>1. CASE AddStep
  BY <1>1 DEF AddStep, Next
<1>2. CASE Reader
  BY <1>2 DEF Reader, ReadText, Parse, GoDown, GoUp, EndRead, ByReader
<1>3. CASE StartText
  BY <1>3 DEF StartText, Next
<1>4. CASE Root
  BY <1>4 DEF Root, Next, Interface
<1>5. CASE AddToObject
  BY <1>5 DEF AddToObject, Next, Interface
<1>6. CASE AddToArray
  BY <1>6 DEF AddToArray, Next, Interface
<1>7. CASE MoreOfLong
  BY <1>7 DEF MoreOfLong, Next, Interface
<1>8. CASE Close
  BY <1>8 DEF Close, Next, Interface, json_pop_object, json_pop_array
<1>9. CASE EndText
  BY <1>9 DEF EndText, Next
<1>10. QED BY <1>1, <1>2, <1>3, <1>4, <1>5, <1>6, <1>7, <1>8, <1>9 DEF DocNext, Client

\* The generator inside a document is the generator: every behaviour of a
\* document is one of it.
THEOREM DocIsText == DocSpec => Spec
<1>1. DocInit => Init
  BY DEF DocInit
<1>2. [DocNext]_vars => [Next]_genVars
  <2>1. CASE DocNext
    BY <2>1, StepOfGen
  <2>2. CASE UNCHANGED vars
    BY <2>2 DEF vars
  <2>3. QED BY <2>1, <2>2
<1>3. QED BY <1>1, <1>2, PTL DEF DocSpec, Spec

\* What json_generator.c owes its caller, in the words the documents are
\* checked with: the text, full chunks, and dropped text reported.
THEOREM DocDelivers == DocSpec => Delivers /\ FullChunks /\ DropsAreTold
BY DocIsText, Refinement, ChunksAreFull, DropsReported

----------------------------------------------------------------------------
(* The text the reader has.                                                *)

\* FlattenSeq puts the pieces together one after the other.
LEMMA Flattens ==
  ASSUME NEW S, NEW ss \in Seq(Seq(S))
  PROVE  \E f \in [0..Len(ss) -> Seq(S)] :
           /\ f[0] = <<>>
           /\ \A i \in 1..Len(ss) : f[i] = f[i - 1] \o ss[i]
           /\ FlattenSeq(ss) = f[Len(ss)]
<1> DEFINE Step(h, i) == IF i = 1 THEN ss[i] ELSE h[i - 1] \o ss[i]
           Built(h, n) == h = [i \in 1..n |-> Step(h, i)]
           f == CHOOSE h : Built(h, Len(ss))
           N == {n \in Nat : n <= Len(ss) => \E h : Built(h, n)}
<1>1. /\ Len(ss) \in Nat /\ <<>> \in Seq(S)
      /\ \A i \in 1..Len(ss) : ss[i] \in Seq(S)
  BY LenProperties, ElementOfSeq, EmptySeq
<1>2. 0 \in N
  <2>1. Built([i \in 1..0 |-> <<>>], 0)
    OBVIOUS
  <2>2. QED BY <2>1
<1>3. ASSUME NEW n \in Nat, n \in N
      PROVE  n + 1 \in N
  <2>1. ASSUME n + 1 <= Len(ss)
        PROVE  \E h : Built(h, n + 1)
    <3>1. PICK h : Built(h, n)
      <4> HIDE DEF Built
      <4>1. n <= Len(ss)
        BY <1>1, <2>1
      <4>2. QED BY <4>1, <1>3
    <3> DEFINE g == [i \in 1..(n + 1) |-> IF i = n + 1 THEN Step(h, i) ELSE h[i]]
    <3>2. ASSUME NEW i \in 1..(n + 1)
          PROVE  g[i] = Step(g, i)
      <4>1. i # 1 => i - 1 \in 1..n
        OBVIOUS
      <4>2. i # 1 => g[i - 1] = h[i - 1]
        BY <4>1
      <4>3. g[i] = Step(h, i)
        <5>1. CASE i = n + 1
          BY <5>1
        <5>2. CASE i # n + 1
          <6>1. i \in 1..n
            BY <5>2
          <6>2. QED BY <6>1, <3>1
        <5>3. QED BY <5>1, <5>2
      <4> HIDE DEF g
      <4>4. QED BY <4>2, <4>3
    <3>3. Built(g, n + 1)
      BY <3>2
    <3> HIDE DEF Built, g
    <3>4. QED BY <3>3
  <2> HIDE DEF Built
  <2>2. QED BY <2>1
<1>4. Built(f, Len(ss))
  <2>1. Nat \subseteq N
    <3> HIDE DEF N
    <3>1. QED BY <1>2, <1>3, SetInduction
  <2> HIDE DEF Built
  <2>2. \E h : Built(h, Len(ss))
    BY <2>1, <1>1
  <2>3. QED BY <2>2
<1>5. FlattenSeq(ss) = IF Len(ss) = 0 THEN ss ELSE f[Len(ss)]
  BY DEF FlattenSeq
<1>6. \A i \in 1..Len(ss) : f[i] = Step(f, i)
  <2> HIDE DEF f
  <2>1. QED BY <1>4
<1> DEFINE Q == {n \in Nat : n + 1 <= Len(ss) => f[n + 1] \in Seq(S)}
<1>7. 0 \in Q
  <2> HIDE DEF f
  <2>1. QED BY <1>1, <1>6
<1>8. ASSUME NEW n \in Nat, n \in Q
      PROVE  n + 1 \in Q
  <2> HIDE DEF f
  <2>1. ASSUME (n + 1) + 1 <= Len(ss)
        PROVE  f[(n + 1) + 1] \in Seq(S)
    <3>1. /\ (n + 1) + 1 \in 1..Len(ss) /\ (n + 1) + 1 # 1
          /\ ((n + 1) + 1) - 1 = n + 1 /\ n + 1 <= Len(ss)
      BY <2>1, <1>1
    <3>2. f[(n + 1) + 1] = f[n + 1] \o ss[(n + 1) + 1]
      BY <3>1, <1>6
    <3>3. f[n + 1] \in Seq(S) /\ ss[(n + 1) + 1] \in Seq(S)
      BY <3>1, <1>1, <1>8
    <3>4. QED BY <3>2, <3>3, ConcatProperties
  <2>2. QED BY <2>1
<1>9. \A i \in 1..Len(ss) : f[i] \in Seq(S)
  <2>1. Nat \subseteq Q
    <3> HIDE DEF Q
    <3>1. QED BY <1>7, <1>8, SetInduction
  <2> HIDE DEF f
  <2>2. ASSUME NEW i \in 1..Len(ss)
        PROVE  f[i] \in Seq(S)
    <3>1. i - 1 \in Nat /\ (i - 1) + 1 = i /\ i <= Len(ss)
      BY <1>1
    <3>2. i - 1 \in Q
      <4> HIDE DEF Q
      <4>1. QED BY <2>1, <3>1
    <3>3. (i - 1) + 1 <= Len(ss)
      BY <3>1
    <3>4. f[(i - 1) + 1] \in Seq(S)
      BY <3>2, <3>3
    <3>5. QED BY <3>1, <3>4
  <2>3. QED BY <2>2
<1> HIDE DEF f
<1> DEFINE F == [i \in 0..Len(ss) |-> IF i = 0 THEN <<>> ELSE f[i]]
<1>10. F \in [0..Len(ss) -> Seq(S)] /\ F[0] = <<>>
  BY <1>1, <1>9
<1>11. ASSUME NEW i \in 1..Len(ss)
       PROVE  F[i] = F[i - 1] \o ss[i]
  <2>1. CASE i = 1
    <3>1. F[i] = ss[1] /\ F[i - 1] = <<>> /\ ss[1] \in Seq(S)
      BY <2>1, <1>1, <1>6
    <3>2. QED BY <3>1, <2>1, ConcatEmptySeq
  <2>2. CASE i # 1
    <3>1. i - 1 \in 1..Len(ss) /\ i - 1 # 0 /\ i # 0
      BY <2>2, <1>1
    <3>2. F[i] = f[i] /\ F[i - 1] = f[i - 1]
      BY <3>1
    <3>3. f[i] = f[i - 1] \o ss[i]
      BY <2>2, <1>6
    <3>4. QED BY <3>2, <3>3
  <2>3. QED BY <2>1, <2>2
<1>12. FlattenSeq(ss) = F[Len(ss)]
  <2>1. CASE Len(ss) = 0
    <3>1. ss = <<>>
      BY <2>1, EmptySeq
    <3>2. QED BY <3>1, <2>1, <1>5, <1>10
  <2>2. CASE Len(ss) # 0
    BY <2>2, <1>1, <1>5
  <2>3. QED BY <2>1, <2>2
<1> HIDE DEF F
<1>13. QED BY <1>10, <1>11, <1>12

TextChar == Char \cup Blank

\* What Spaced flattens.
Piece(text, i) == IF text[i] \in {",", ":"} /\ Outside(text, i)
                  THEN <<text[i], " ">> ELSE <<text[i]>>
Pieces(text) == [i \in 1..Len(text) |-> Piece(text, i)]

LEMMA PiecesOK ==
  ASSUME NEW text \in Seq(Char)
  PROVE  /\ Pieces(text) \in Seq(Seq(TextChar))
         /\ Len(Pieces(text)) = Len(text)
         /\ Spaced(text) = FlattenSeq(Pieces(text))
<1>1. Len(text) \in Nat /\ \A i \in 1..Len(text) : text[i] \in TextChar
  BY LenProperties, ElementOfSeq DEF TextChar
<1>2. \A c, d \in TextChar : <<c>> \in Seq(TextChar) /\ <<c, d>> \in Seq(TextChar)
  OBVIOUS
<1>3. \A i \in 1..Len(text) : Piece(text, i) \in Seq(TextChar)
  <2>1. ASSUME NEW i \in 1..Len(text)
        PROVE  <<text[i], " ">> \in Seq(TextChar) /\ <<text[i]>> \in Seq(TextChar)
    BY <1>1, <1>2, " " \in TextChar DEF TextChar, Blank
  <2>2. QED BY <2>1 DEF Piece
<1>4. Pieces(text) \in [1..Len(text) -> Seq(TextChar)]
  BY <1>3 DEF Pieces
<1>5. Pieces(text) \in Seq(Seq(TextChar)) /\ Len(Pieces(text)) = Len(text)
  <2>1. \A n \in Nat : \A g \in [1..n -> Seq(TextChar)] :
          g \in Seq(Seq(TextChar)) /\ Len(g) = n
    OBVIOUS
  <2>2. QED BY <2>1, <1>1, <1>4
<1>6. Spaced(text) = FlattenSeq(Pieces(text))
  BY Zenon DEF Spaced, Pieces, Piece
<1>7. QED BY <1>5, <1>6

LEMMA SpacedIsText ==
  ASSUME NEW text \in Seq(Char)
  PROVE  Spaced(text) \in Seq(TextChar)
<1>1. /\ Pieces(text) \in Seq(Seq(TextChar)) /\ Len(Pieces(text)) \in Nat
      /\ Spaced(text) = FlattenSeq(Pieces(text))
  BY PiecesOK, LenProperties
<1>2. PICK f \in [0..Len(Pieces(text)) -> Seq(TextChar)] :
             FlattenSeq(Pieces(text)) = f[Len(Pieces(text))]
  BY <1>1, Flattens
<1>3. QED BY <1>1, <1>2

----------------------------------------------------------------------------
(* The parser inside a document.                                           *)

\* What a step does to the parser, but for where it looks.
LEMMA StepOfParser ==
  ASSUME DocNext
  PROVE  \/ UNCHANGED <<js, pass, pos, tokens, toksuper, count, num_tokens>>
         \/ \E text \in {sent \o buf, Spaced(sent \o buf)} : json_parse_start(text)
         \/ ParseStep
         \/ json_parse_end
<1>1. CASE AddStep
  BY <1>1 DEF AddStep, ByClient, parseVars
<1>2. CASE Client
  BY <1>2 DEF Client, StartText, Root, AddToObject, AddToArray, MoreOfLong, Close,
              EndText, Opens, Sets, ByClient, parseVars
<1>3. CASE ReadText
  BY <1>3 DEF ReadText
<1>4. CASE Parse
  BY <1>4 DEF Parse
<1>5. CASE GoDown
  BY <1>5 DEF GoDown, json_obj_get, json_arr_get, MoveTo
<1>6. CASE GoUp
  BY <1>6 DEF GoUp, json_obj_leave, json_arr_leave, MoveTo
<1>7. CASE EndRead
  BY <1>7 DEF EndRead
<1>8. QED BY <1>1, <1>2, <1>3, <1>4, <1>5, <1>6, <1>7 DEF DocNext, Reader

\* The text the reader has is one of characters and blanks.
ReadInv == ParserOK /\ PassInv /\ js \in Seq(TextChar)

LEMMA ReadInit ==
  DocInit => ReadInv
BY InitParser, EmptySeq DEF DocInit, ParserInit, ReadInv

LEMMA ReadStep ==
  ASSUME ReadInv, TypeOK, [DocNext]_vars
  PROVE  ReadInv'
<1>1. ParserOK /\ PassInv /\ js \in Seq(TextChar)
  BY DEF ReadInv
<1>2. CASE UNCHANGED <<js, pass, pos, tokens, toksuper, count, num_tokens>>
  BY <1>1, <1>2, StillParser DEF ReadInv
<1>3. ASSUME NEW text \in {sent \o buf, Spaced(sent \o buf)}, json_parse_start(text)
      PROVE  ReadInv'
  <2>1. sent \o buf \in Seq(Char)
    BY ConcatProperties DEF TypeOK
  <2>2. sent \o buf \in Seq(TextChar)
    BY <2>1, SeqMonotonic, Char \subseteq TextChar DEF TextChar
  <2>3. text \in Seq(TextChar)
    BY <1>3, <2>1, <2>2, SpacedIsText
  <2>4. Len(text) \in Nat
    BY <2>3, LenProperties
  <2>5. js' = text
    BY <1>3 DEF json_parse_start
  <2>6. QED BY <1>3, <2>3, <2>4, <2>5, StartParser DEF ReadInv
<1>4. CASE ParseStep
  <2>1. js' = js
    BY <1>4 DEF ParseStep, OpenBracket, CloseBracket, StringStarts, Primitive, Element,
                Colon, Comma, SkipBlank, Counted, NoTokens, Tokenized, Continue, Refuse
  <2>2. QED BY <1>1, <1>4, <2>1, ParseStepOK, ParseStepAgrees DEF ReadInv
<1>5. CASE json_parse_end
  <2>1. js' = <<>> /\ <<>> \in Seq(TextChar)
    BY <1>5, EmptySeq DEF json_parse_end
  <2>2. QED BY <1>1, <1>5, <2>1, EndParser DEF ReadInv
<1>6. CASE UNCHANGED vars
  BY <1>2, <1>6 DEF vars, parseVars
<1>7. QED BY <1>2, <1>3, <1>4, <1>5, <1>6, StepOfParser

\* Every behaviour of a document is one of the parser by itself, given texts
\* of these characters: what JsonParse_proofs says of every text holds of the
\* whole, cut and widened documents.
THEOREM DocIsParsed == DocSpec => ParserSpec(Seq(TextChar))
<1>1. DocSpec => []TypeOK
  <2>1. DocSpec => [](TypeOK /\ InBuffer)
    BY DocIsText, TypeCorrect, PTL
  <2>2. QED BY <2>1, PTL
<1>2. DocInit => ParserInit
  BY DEF DocInit
<1>3. TypeOK /\ [DocNext]_vars => [ParserNext(Seq(TextChar))]_textVars
  <2> SUFFICES ASSUME TypeOK, [DocNext]_vars
               PROVE  ParserNext(Seq(TextChar)) \/ UNCHANGED textVars
    OBVIOUS
  <2>1. sent \o buf \in Seq(Char)
    BY ConcatProperties DEF TypeOK
  <2>2. {sent \o buf, Spaced(sent \o buf)} \subseteq Seq(TextChar)
    <3>1. sent \o buf \in Seq(TextChar)
      BY <2>1, SeqMonotonic, Char \subseteq TextChar DEF TextChar
    <3>2. QED BY <2>1, <3>1, SpacedIsText
  <2>3. CASE DocNext
    <3>1. CASE UNCHANGED <<js, pass, pos, tokens, toksuper, count, num_tokens>>
      BY <3>1 DEF textVars
    <3>2. ASSUME NEW text \in {sent \o buf, Spaced(sent \o buf)}, json_parse_start(text)
          PROVE  ParserNext(Seq(TextChar))
      <4>1. pass = "off"
        BY <3>2 DEF json_parse_start
      <4>2. text \in Seq(TextChar)
        BY <2>2
      <4>3. QED BY <3>2, <4>1, <4>2 DEF ParserNext
    <3>3. CASE ParseStep \/ json_parse_end
      BY <3>3 DEF ParserNext
    <3>4. QED BY <2>3, <3>1, <3>2, <3>3, StepOfParser
  <2>4. CASE UNCHANGED vars
    BY <2>4 DEF vars, parseVars, textVars
  <2>5. QED BY <2>3, <2>4
<1>4. QED BY <1>1, <1>2, <1>3, PTL DEF DocSpec, ParserSpec

----------------------------------------------------------------------------
(* What the client writes.                                                 *)

\* Written in state s of a document, the text leads to state t; where u has
\* been told before it, v has been told after it.
Writes(s, u, text, t, v) ==
    /\ text \in Seq(TextChar) /\ s \in States /\ t \in States
    /\ \E r, q : /\ Path(r, text) /\ r[0] = s /\ r[Len(text)] = t
                 /\ Tale(q, r, text) /\ q[0] = u /\ q[Len(text)] = v

Stories == {Story(opens, told) : opens \in Seq(Nat), told \in Seq(Things(TextChar))}

LEMMA StoryIs ==
  ASSUME NEW u \in Stories
  PROVE  /\ u = Story(u.opens, u.told) /\ u.opens \in Seq(Nat)
         /\ u.told \in Seq(Things(TextChar)) /\ Len(u.told) \in Nat /\ Len(u.opens) \in Nat
<1>1. PICK o \in Seq(Nat), w \in Seq(Things(TextChar)) : u = Story(o, w)
  BY DEF Stories
<1>2. u.opens = o /\ u.told = w
  BY <1>1 DEF Story
<1>3. QED BY <1>1, <1>2, LenProperties

LEMMA WritesNothing ==
  ASSUME NEW s \in States, NEW u
  PROVE  Writes(s, u, <<>>, s, u)
<1> DEFINE r == [k \in 0..0 |-> s]
           q == [k \in 0..0 |-> u]
<1>1. <<>> \in Seq(TextChar) /\ Len(<<>>) = 0
  BY EmptySeq
<1>2. Path(r, <<>>) /\ r[0] = s /\ q[0] = u
  BY <1>1 DEF Path
<1>3. Tale(q, r, <<>>)
  BY <1>1 DEF Tale
<1> HIDE DEF r, q
<1>4. QED BY <1>1, <1>2, <1>3 DEF Writes

LEMMA WritesOne ==
  ASSUME NEW s \in States, NEW t \in States, NEW c \in TextChar, Reads(s, c, t), NEW u
  PROVE  Writes(s, u, <<c>>, t, Tell(s, u, c))
<1> DEFINE v == Tell(s, u, c)
           r == [k \in 0..1 |-> IF k = 0 THEN s ELSE t]
           q == [k \in 0..1 |-> IF k = 0 THEN u ELSE v]
<1>1. <<c>> \in Seq(TextChar) /\ Len(<<c>>) = 1 /\ <<c>>[1] = c
  OBVIOUS
<1> HIDE DEF v
<1>2. r \in [0..1 -> States] /\ r[0] = s /\ r[1] = t /\ q[0] = u /\ q[1] = v
  OBVIOUS
<1> HIDE DEF r, q
<1>3. \A k \in 1..1 : k - 1 = 0 /\ k = 1
  OBVIOUS
<1>4. Path(r, <<c>>)
  BY <1>1, <1>2, <1>3 DEF Path
<1>5. Tale(q, r, <<c>>)
  BY <1>1, <1>2, <1>3 DEF Tale, v
<1>6. QED BY <1>1, <1>2, <1>4, <1>5 DEF Writes, v

\* Two functions on 0..n and 0..m, where the second begins as the first ends,
\* as one.
Joined(f, g, n, m) == [k \in 0..(n + m) |-> IF k <= n THEN f[k] ELSE g[k - n]]

LEMMA JoinedIs ==
  ASSUME NEW n \in Nat, NEW m \in Nat, NEW f, NEW g, f[n] = g[0]
  PROVE  /\ \A k \in 0..(n + m) : k <= n => Joined(f, g, n, m)[k] = f[k]
         /\ \A k \in 0..(n + m) : n <= k => Joined(f, g, n, m)[k] = g[k - n]
         /\ Joined(f, g, n, m)[0] = f[0]
         /\ Joined(f, g, n, m)[n + m] = g[m]
<1> DEFINE p == Joined(f, g, n, m)
<1>1. \A k \in 0..(n + m) : p[k] = IF k <= n THEN f[k] ELSE g[k - n]
  BY DEF Joined
<1> HIDE DEF p
<1>2. ASSUME NEW k \in 0..(n + m), n <= k
      PROVE  p[k] = g[k - n]
  <2>1. CASE k = n
    <3>1. p[k] = f[n] /\ k - n = 0
      BY <1>1, <2>1
    <3>2. QED BY <3>1
  <2>2. CASE k # n
    <3>1. ~ (k <= n)
      BY <1>2, <2>2
    <3>2. QED BY <3>1, <1>1
  <2>3. QED BY <2>1, <2>2
<1>3. 0 \in 0..(n + m) /\ 0 <= n /\ n + m \in 0..(n + m) /\ n <= n + m /\ (n + m) - n = m
  OBVIOUS
<1>4. p[0] = f[0] /\ p[n + m] = g[m]
  BY <1>1, <1>2, <1>3
<1>5. QED BY <1>1, <1>2, <1>4 DEF p

LEMMA WritesMore ==
  ASSUME NEW s, NEW t, NEW z, NEW a, NEW b, NEW u, NEW v, NEW w,
         Writes(s, u, a, t, v), Writes(t, v, b, z, w)
  PROVE  Writes(s, u, a \o b, z, w)
<1> DEFINE n == Len(a)
           m == Len(b)
           c == a \o b
<1>1. PICK r, q : /\ Path(r, a) /\ r[0] = s /\ r[n] = t
                  /\ Tale(q, r, a) /\ q[0] = u /\ q[n] = v
  BY DEF Writes
<1>2. PICK r2, q2 : /\ Path(r2, b) /\ r2[0] = t /\ r2[m] = z
                    /\ Tale(q2, r2, b) /\ q2[0] = v /\ q2[m] = w
  BY DEF Writes
<1>3. /\ a \in Seq(TextChar) /\ b \in Seq(TextChar) /\ s \in States /\ z \in States
      /\ n \in Nat /\ m \in Nat
  BY LenProperties DEF Writes
<1>4. /\ c \in Seq(TextChar) /\ Len(c) = n + m
      /\ \A k \in 1..(n + m) : c[k] = IF k <= n THEN a[k] ELSE b[k - n]
  BY <1>3, ConcatProperties
<1> DEFINE p == Joined(r, r2, n, m)
           y == Joined(q, q2, n, m)
<1>5. /\ r \in [0..n -> States] /\ r2 \in [0..m -> States]
      /\ \A k \in 1..n : /\ Reads(r[k - 1], a[k], r[k])
                         /\ q[k] = Tell(r[k - 1], q[k - 1], a[k])
      /\ \A k \in 1..m : /\ Reads(r2[k - 1], b[k], r2[k])
                         /\ q2[k] = Tell(r2[k - 1], q2[k - 1], b[k])
  BY <1>1, <1>2 DEF Path, Tale
<1>6. p \in [0..(n + m) -> States]
  <2>1. ASSUME NEW k \in 0..(n + m)
        PROVE  (IF k <= n THEN r[k] ELSE r2[k - n]) \in States
    <3>1. CASE k <= n
      <4>1. k \in 0..n
        BY <3>1, <1>3
      <4>2. QED BY <4>1, <3>1, <1>5
    <3>2. CASE ~ (k <= n)
      <4>1. k - n \in 0..m
        BY <3>2, <1>3
      <4>2. QED BY <4>1, <3>2, <1>5
    <3>3. QED BY <3>1, <3>2
  <2>2. QED BY <2>1 DEF Joined
<1> HIDE DEF n, m, c
<1>7. /\ \A k \in 0..(n + m) : k <= n => p[k] = r[k] /\ y[k] = q[k]
      /\ \A k \in 0..(n + m) : n <= k => p[k] = r2[k - n] /\ y[k] = q2[k - n]
      /\ p[0] = s /\ y[0] = u /\ p[n + m] = z /\ y[n + m] = w
  <2>1. n \in Nat /\ m \in Nat /\ r[n] = r2[0] /\ q[n] = q2[0]
    BY <1>1, <1>2, <1>3 DEF n, m
  <2>2. /\ \A k \in 0..(n + m) : k <= n => p[k] = r[k]
        /\ \A k \in 0..(n + m) : n <= k => p[k] = r2[k - n]
        /\ p[0] = r[0] /\ p[n + m] = r2[m]
    BY <2>1, JoinedIs
  <2>3. /\ \A k \in 0..(n + m) : k <= n => y[k] = q[k]
        /\ \A k \in 0..(n + m) : n <= k => y[k] = q2[k - n]
        /\ y[0] = q[0] /\ y[n + m] = q2[m]
    BY <2>1, JoinedIs
  <2> HIDE DEF p, y
  <2>4. QED BY <2>2, <2>3, <1>1, <1>2 DEF n, m
<1> HIDE DEF p, y
<1>8. ASSUME NEW k \in 1..(n + m)
      PROVE  Reads(p[k - 1], c[k], p[k]) /\ y[k] = Tell(p[k - 1], y[k - 1], c[k])
  <2>1. k \in 0..(n + m) /\ k - 1 \in 0..(n + m)
    BY <1>3 DEF n, m
  <2>2. CASE k <= n
    <3>1. k \in 1..n /\ k - 1 <= n
      BY <2>2, <1>3 DEF n, m
    <3>2. /\ p[k] = r[k] /\ p[k - 1] = r[k - 1]
          /\ y[k] = q[k] /\ y[k - 1] = q[k - 1]
      BY <2>1, <2>2, <3>1, <1>7
    <3>3. c[k] = a[k]
      BY <2>2, <1>4
    <3>4. QED BY <3>1, <3>2, <3>3, <1>5
  <2>3. CASE ~ (k <= n)
    <3>1. k - n \in 1..m /\ n <= k /\ n <= k - 1 /\ (k - n) - 1 = (k - 1) - n
      BY <2>3, <1>3
    <3>2. /\ p[k] = r2[k - n] /\ p[k - 1] = r2[(k - n) - 1]
          /\ y[k] = q2[k - n] /\ y[k - 1] = q2[(k - n) - 1]
      BY <2>1, <3>1, <1>7
    <3>3. c[k] = b[k - n]
      BY <2>3, <1>4
    <3>4. QED BY <3>1, <3>2, <3>3, <1>5
  <2>4. QED BY <2>2, <2>3
<1>9. Path(p, c) /\ Tale(y, p, c)
  BY <1>4, <1>6, <1>8 DEF Path, Tale
<1>10. QED BY <1>3, <1>4, <1>7, <1>9 DEF Writes, c

\* A text that leaves the state as it is all along, and only goes on with
\* what was told last.
Continues(s, text) ==
    /\ \A k \in 1..Len(text) : Reads(s, text[k], s)
    /\ \A k \in 1..Len(text) : \A w : Tell(s, w, text[k]) = Longer(w, text[k])

LEMMA WritesOn ==
  ASSUME NEW s \in States, NEW text \in Seq(TextChar), Continues(s, text),
         NEW opens, NEW base \in Seq(Things(TextChar)), NEW x \in Things(TextChar)
  PROVE  Writes(s, Story(opens, Append(base, x)), text,
                s, Story(opens, Append(base, On(x, text))))
<1> DEFINE n == Len(text)
           Is(k) == Story(opens, Append(base, On(x, SubSeq(text, 1, k))))
           r == [k \in 0..n |-> s]
           q == [k \in 0..n |-> Is(k)]
<1>1. n \in Nat
  BY LenProperties
<1>2. /\ r \in [0..n -> States]
      /\ \A k \in 0..n : r[k] = s
  OBVIOUS
<1> HIDE DEF Is
<1>3. \A k \in 0..n : q[k] = Is(k)
  OBVIOUS
<1> HIDE DEF r, q
<1>4. \A k \in 1..n : k \in 0..n /\ k - 1 \in 0..n
  BY <1>1
<1>5. Path(r, text)
  BY <1>2, <1>4 DEF Path, Continues
<1>6. ASSUME NEW k \in 1..n
      PROVE  q[k] = Tell(r[k - 1], q[k - 1], text[k])
  <2>1. k - 1 \in Nat /\ 0 \in Nat /\ 0 <= k - 1 /\ k - 1 < n /\ (k - 1) + 1 = k /\ 0 + 1 = 1
    BY <1>1
  <2>2. Longer(Is(k - 1), text[k]) = Is(k)
    <3> DEFINE j == k - 1
    <3>1. j \in Nat /\ 0 <= j /\ j < Len(text) /\ j + 1 = k
      BY <2>1
    <3> HIDE DEF j
    <3>2. Longer(Story(opens, Append(base, On(x, SubSeq(text, 0 + 1, j)))), text[j + 1])
            = Story(opens, Append(base, On(x, SubSeq(text, 0 + 1, j + 1))))
      BY <2>1, <3>1, LongerOn
    <3>3. QED BY <2>1, <3>1, <3>2 DEF Is, j
  <2>3. Tell(s, Is(k - 1), text[k]) = Longer(Is(k - 1), text[k])
    BY DEF Continues
  <2>4. QED BY <2>2, <2>3, <1>2, <1>3, <1>4
<1>7. Tale(q, r, text)
  BY <1>6 DEF Tale
<1>8. 0 \in 0..n /\ n \in 0..n
  BY <1>1
<1>9. Is(0) = Story(opens, Append(base, x))
  <2>1. SubSeq(text, 1, 0) = <<>>
    BY SubSeqEmpty, 1 \in Int, 0 \in Int, 0 < 1
  <2>2. On(x, <<>>) = x
    BY OnNothing
  <2>3. QED BY <2>1, <2>2 DEF Is
<1>10. Is(n) = Story(opens, Append(base, On(x, text)))
  <2>1. SubSeq(text, 1, n) = text
    BY SubSeqFull
  <2>2. QED BY <2>1 DEF Is
<1>11. QED BY <1>2, <1>3, <1>5, <1>7, <1>8, <1>9, <1>10 DEF Writes
\* Inside an object or array.
Inner == {s \in States : s.mode \notin {"start", "end"}}

LEMMA InnerStates ==
  ASSUME NEW s \in Inner
  PROVE  /\ s \in States /\ s.stack # <<>> /\ s.stack \in Seq({"object", "array"})
         /\ \A mode \in Modes \ {"start", "end"} :
              /\ To(s, mode) \in Inner /\ To(s, mode).mode = mode
              /\ To(s, mode).stack = s.stack
         /\ \A c : Opened(s, c) \in Inner
         /\ Closed(s) \in States
<1>1. s \in States /\ s.stack # <<>> /\ s.stack \in Seq({"object", "array"})
  BY DEF Inner, States
<1>2. ASSUME NEW mode \in Modes \ {"start", "end"}
      PROVE  To(s, mode) \in Inner /\ To(s, mode).mode = mode /\ To(s, mode).stack = s.stack
  BY <1>1 DEF To, Inner, States
<1>3. ASSUME NEW c
      PROVE  Opened(s, c) \in Inner
  <2>1. TypeOf(c) \in {"object", "array"}
    BY DEF TypeOf
  <2>2. /\ Append(s.stack, TypeOf(c)) \in Seq({"object", "array"})
        /\ Len(Append(s.stack, TypeOf(c))) = Len(s.stack) + 1
    BY <1>1, <2>1, AppendProperties
  <2>3. Append(s.stack, TypeOf(c)) # <<>>
    BY <1>1, <2>2, EmptySeq, LenProperties
  <2>4. QED BY <2>2, <2>3 DEF Opened, Inner, States, Modes
<1>4. Closed(s) \in States
  <2> DEFINE d == Len(s.stack)
  <2>1. d \in Nat /\ d # 0 /\ \A i \in 1..d : s.stack[i] \in {"object", "array"}
    BY <1>1, EmptySeq, LenProperties, ElementOfSeq
  <2>2. /\ 1 \in Int /\ d - 1 \in Int
        /\ \A i \in 1..(d - 1) : s.stack[i] \in {"object", "array"}
    BY <2>1
  <2>3. /\ SubSeq(s.stack, 1, d - 1) \in Seq({"object", "array"})
        /\ Len(SubSeq(s.stack, 1, d - 1)) = IF 1 <= d - 1 THEN (d - 1) - 1 + 1 ELSE 0
    BY <2>2, SubSeqProperties
  <2>4. SubSeq(s.stack, 1, d - 1) = <<>> <=> d = 1
    <3>1. SubSeq(s.stack, 1, d - 1) = <<>> <=> Len(SubSeq(s.stack, 1, d - 1)) = 0
      BY <2>3, EmptySeq
    <3>2. Len(SubSeq(s.stack, 1, d - 1)) = d - 1
      <4>1. \A e \in Nat : e # 0 => (IF 1 <= e - 1 THEN (e - 1) - 1 + 1 ELSE 0) = e - 1
        OBVIOUS
      <4>2. QED BY <4>1, <2>1, <2>3
    <3>3. \A e \in Nat : e - 1 = 0 <=> e = 1
      OBVIOUS
    <3>4. QED BY <3>1, <3>2, <3>3, <2>1
  <2>5. QED BY <2>3, <2>4 DEF Closed, States, Modes
<1>5. QED BY <1>1, <1>2, <1>3, <1>4

LEMMA CharsOfText ==
  /\ Mark \in TextChar /\ "{" \in TextChar /\ "}" \in TextChar /\ "[" \in TextChar
  /\ "]" \in TextChar /\ "," \in TextChar /\ ":" \in TextChar
  /\ Seq(Char) \subseteq Seq(TextChar)
<1>1. Punctuation \subseteq TextChar
  BY GenAssumption DEF TextChar
<1>2. /\ "{" \in TextChar /\ "}" \in TextChar /\ "[" \in TextChar
      /\ "]" \in TextChar /\ "," \in TextChar /\ ":" \in TextChar
  BY <1>1 DEF Punctuation
<1>3. Mark \in TextChar
  <2>1. Mark \in Punctuation
    BY Zenon DEF Mark, Punctuation
  <2>2. QED BY <1>1, <2>1
<1>4. Char \subseteq TextChar
  BY DEF TextChar
<1>5. QED BY <1>2, <1>3, <1>4, SeqMonotonic

\* What the caller may write between quotation marks, and the words.
LEMMA NoMarkInside ==
  /\ Quote = <<Mark>>
  /\ \A text \in Name \cup Part : /\ text \in Seq(TextChar)
                                  /\ \A i \in 1..Len(text) : text[i] # Mark
  /\ \A v \in Value : v.type = "string" =>
       v.val \in Seq(TextChar) /\ \A i \in 1..Len(v.val) : v.val[i] # Mark
  /\ \A v \in Value : v.type # "string" =>
       /\ Word(v) \in Seq(TextChar) /\ Word(v) # <<>> /\ Word(v)[1] \in Start
       /\ \A i \in 1..Len(Word(v)) : Word(v)[i] \notin Opening \cup Passed \cup {Mark}
<1>1. Quote = <<Mark>>
  BY Zenon DEF Quote, Mark
<1>2. \A text : Unquoted(text) => \A i \in 1..Len(text) : text[i] # Mark
  BY Zenon DEF Unquoted, Mark
<1>3. \A text \in Name \cup Part : text \in Seq(TextChar)
  BY GenAssumption, CharsOfText
<1>4. \A v \in Value : IF v.type = "string" THEN v.val \in Seq(TextChar)
                                            ELSE Word(v) \in Seq(TextChar)
  BY GenAssumption, CharsOfText
<1>5. /\ \A text \in Name \cup Part : Unquoted(text)
      /\ \A v \in Value : IF v.type = "string" THEN Unquoted(v.val) ELSE Plain(Word(v))
  BY DocAssumption
<1>6. Opening \cup Passed \cup {Mark} \subseteq Punctuation \cup Blank
  <2>1. Mark \in Punctuation
    BY Zenon DEF Mark, Punctuation
  <2>2. \A x \in Opening \cup Passed : x \in Punctuation \cup Blank
    BY DEF Opening, Passed, Closing, Punctuation
  <2>3. QED BY <2>1, <2>2
<1>7. \A word : Plain(word) =>
        /\ word # <<>> /\ word[1] \in Start
        /\ \A i \in 1..Len(word) : word[i] \notin Opening \cup Passed \cup {Mark}
  BY <1>6 DEF Plain
<1>8. QED BY <1>1, <1>2, <1>3, <1>4, <1>5, <1>7

\* What is told of names, strings and words.
LEMMA AboveNat ==
  ASSUME NEW s, NEW u \in Stories
  PROVE  Above(s, u) \in Nat
<1>1. /\ u.opens \in Seq(Nat) /\ Len(u.opens) \in Nat /\ Len(u.told) \in Nat
      /\ u.opens # <<>> => Len(u.opens) # 0
  BY StoryIs, EmptySeq
<1>2. u.opens # <<>> => u.opens[Len(u.opens)] \in Nat
  <2>1. u.opens # <<>> => Len(u.opens) \in 1..Len(u.opens)
    BY <1>1
  <2>2. QED BY <2>1, <1>1, ElementOfSeq
<1>3. QED BY <1>1, <1>2 DEF Above

LEMMA ThingsOfText ==
  ASSUME NEW parent \in Nat, NEW text \in Seq(TextChar)
  PROVE  /\ \A type \in {"object", "array", "string", "primitive"} :
              Thing(type, parent, text) \in Things(TextChar)
         /\ \A type, c : On(Thing(type, parent, c), text) = Thing(type, parent, c \o text)
         /\ \A type : On(Thing(type, parent, <<>>), text) = Thing(type, parent, text)
<1>1. \A type \in {"object", "array", "string", "primitive"} :
        Thing(type, parent, text) \in Things(TextChar)
  BY DEF Thing, Things
<1>2. \A type, c : On(Thing(type, parent, c), text) = Thing(type, parent, c \o text)
  BY DEF On, Thing
<1>3. <<>> \o text = text
  BY ConcatEmptySeq
<1>4. QED BY <1>1, <1>2, <1>3

LEMMA StoryGrows ==
  ASSUME NEW u \in Stories, NEW thing \in Things(TextChar)
  PROVE  /\ Adds(u, thing) \in Stories /\ Adds(u, thing).opens = u.opens
         /\ Adds(u, thing).told = Append(u.told, thing)
         /\ Adds(u, thing) = Story(u.opens, Append(u.told, thing))
<1> DEFINE told == Append(u.told, thing)
<1>1. u.opens \in Seq(Nat) /\ u.told \in Seq(Things(TextChar))
  BY StoryIs
<1>2. told \in Seq(Things(TextChar))
  BY <1>1, AppendProperties
<1>3. Adds(u, thing) = Story(u.opens, told)
  BY DEF Adds
<1> HIDE DEF told
<1>4. \A o \in Seq(Nat), w \in Seq(Things(TextChar)) :
        /\ Story(o, w) \in Stories /\ Story(o, w).opens = o /\ Story(o, w).told = w
  BY DEF Stories, Story
<1>5. /\ Adds(u, thing) \in Stories /\ Adds(u, thing).opens = u.opens
      /\ Adds(u, thing).told = told
  BY <1>1, <1>2, <1>3, <1>4
<1>6. QED BY <1>3, <1>5 DEF told

\* One character of the punctuation.
LEMMA WritesMark ==
  ASSUME NEW s \in Inner, NEW u
  PROVE  /\ WantsKey(s) => Writes(s, u, Quote, To(s, "key"),
                                  Adds(u, Thing("string", Above(s, u), <<>>)))
         /\ WantsValue(s) => Writes(s, u, Quote, To(s, "str"),
                                    Adds(u, Thing("string", Above(s, u), <<>>)))
         /\ s.mode = "key" => Writes(s, u, Quote, To(s, "colon"), u)
         /\ s.mode = "str" => Writes(s, u, Quote, To(s, "after"), u)
<1>1. /\ s \in States /\ Mark \in TextChar /\ Quote = <<Mark>>
      /\ To(s, "key") \in States /\ To(s, "str") \in States
      /\ To(s, "colon") \in States /\ To(s, "after") \in States
  BY InnerStates, CharsOfText, NoMarkInside DEF Modes, Inner
<1>2. /\ WantsKey(s) => Reads(s, Mark, To(s, "key"))
      /\ WantsValue(s) => Reads(s, Mark, To(s, "str"))
      /\ s.mode = "key" => Reads(s, Mark, To(s, "colon"))
      /\ s.mode = "str" => Reads(s, Mark, To(s, "after"))
  BY DEF Reads
<1>3. Mark \notin Opening /\ Mark \notin Closing
  BY CharKinds DEF Passed
<1>4. /\ s.mode \in {"key", "str"} => Tell(s, u, Mark) = u
      /\ s.mode \notin {"key", "str"} =>
           Tell(s, u, Mark) = Adds(u, Thing("string", Above(s, u), <<>>))
  BY <1>3 DEF Tell
<1>5. WantsKey(s) \/ WantsValue(s) => s.mode \notin {"key", "str"}
  BY DEF WantsKey, WantsValue
<1>6. \A t : t \in States /\ Reads(s, Mark, t) => Writes(s, u, Quote, t, Tell(s, u, Mark))
  BY <1>1, WritesOne
<1>7. QED BY <1>1, <1>2, <1>4, <1>5, <1>6

\* The text of a name or a string.
LEMMA WritesInside ==
  ASSUME NEW s \in Inner, s.mode \in {"key", "str"}, NEW text \in Seq(TextChar),
         \A i \in 1..Len(text) : text[i] # Mark,
         NEW opens, NEW base \in Seq(Things(TextChar)), NEW x \in Things(TextChar)
  PROVE  Writes(s, Story(opens, Append(base, x)), text,
                s, Story(opens, Append(base, On(x, text))))
<1>1. s \in States
  BY InnerStates
<1>2. \A k \in 1..Len(text) : Reads(s, text[k], s)
  BY DEF Reads
<1>3. \A k \in 1..Len(text) : \A w : Tell(s, w, text[k]) = Longer(w, text[k])
  BY DEF Tell
<1>4. Continues(s, text)
  BY <1>2, <1>3 DEF Continues
<1>5. QED BY <1>1, <1>4, WritesOn

LEMMA WritesText ==
  ASSUME NEW s \in Inner, s.mode \in {"key", "str"}, NEW text \in Seq(TextChar),
         \A i \in 1..Len(text) : text[i] # Mark,
         NEW u \in Stories, NEW parent \in Nat
  PROVE  Writes(s, Adds(u, Thing("string", parent, <<>>)), text,
                s, Adds(u, Thing("string", parent, text)))
<1> DEFINE x == Thing("string", parent, <<>>)
<1>1. <<>> \in Seq(TextChar)
  BY EmptySeq
<1>2. x \in Things(TextChar) /\ On(x, text) = Thing("string", parent, text)
  BY <1>1, ThingsOfText
<1>3. u.told \in Seq(Things(TextChar))
  BY StoryIs
<1> HIDE DEF x
<1>4. Writes(s, Story(u.opens, Append(u.told, x)), text,
             s, Story(u.opens, Append(u.told, On(x, text))))
  BY <1>2, <1>3, WritesInside
<1>5. QED BY <1>2, <1>4 DEF Adds, x

LEMMA WritesWord ==
  ASSUME NEW s \in Inner, WantsValue(s), NEW word \in Seq(TextChar),
         word # <<>>, word[1] \in Start,
         \A i \in 1..Len(word) : word[i] \notin Opening \cup Passed \cup {Mark},
         NEW u \in Stories
  PROVE  Writes(s, u, word, To(s, "prim"), Adds(u, Thing("primitive", Above(s, u), word)))
<1> DEFINE t == To(s, "prim")
           n == Len(word)
           c == word[1]
           rest == SubSeq(word, 2, n)
           x == Thing("primitive", Above(s, u), <<c>>)
<1>1. s \in States /\ t \in States /\ t.mode = "prim"
  BY InnerStates DEF Modes, Inner
<1>2. n \in Nat /\ n # 0
  BY EmptySeq, LenProperties
<1>3. c \in TextChar /\ \A k \in 2..n : k \in 1..n /\ word[k] \in TextChar
  <2>1. 1 \in 1..n /\ \A k \in 2..n : k \in 1..n
    BY <1>2
  <2>2. QED BY <2>1, ElementOfSeq
<1>4. /\ rest \in Seq(TextChar)
      /\ Len(rest) = IF 2 <= n THEN n - 2 + 1 ELSE 0
      /\ \A i \in 1..(n - 2 + 1) : rest[i] = word[2 + i - 1]
  <2>1. 2 \in Int /\ n \in Int
    BY <1>2
  <2> HIDE DEF n
  <2>2. QED BY <2>1, <1>3, SubSeqProperties
<1>5. \A i \in 1..Len(rest) : rest[i] \notin Opening \cup Passed \cup {Mark}
  <2>1. ASSUME NEW i \in 1..Len(rest)
        PROVE  rest[i] \notin Opening \cup Passed \cup {Mark}
    <3>1. i \in 1..(n - 2 + 1) /\ 2 + i - 1 \in 1..n
      BY <1>2, <1>4
    <3>2. QED BY <3>1, <1>4
  <2>2. QED BY <2>1
<1>6. <<c>> \o rest = word
  <2>1. 1 \in 1..Len(word) /\ n \in 1..Len(word) /\ 1 + 1 = 2
    BY <1>2
  <2>2. SubSeq(word, 1, n) = <<word[1]>> \o SubSeq(word, 1 + 1, n)
    BY <2>1, SubSeqRecursiveFirst
  <2>3. SubSeq(word, 1, n) = word
    BY SubSeqFull
  <2>4. QED BY <2>1, <2>2, <2>3
<1>7. c \notin Opening /\ c \notin Closing /\ c # Mark /\ c \notin Passed
  <2>1. 1 \in 1..n
    BY <1>2
  <2>2. c \notin Opening \cup Passed \cup {Mark}
    BY <2>1
  <2>3. QED BY <2>2 DEF Passed
<1>8. s.mode \notin {"key", "str", "prim"}
  BY DEF WantsValue
<1>9. Tell(s, u, c) = Adds(u, x)
  BY <1>7, <1>8 DEF Tell
<1>10. Writes(s, u, <<c>>, t, Adds(u, x))
  <2>1. Reads(s, c, t)
    BY DEF Reads
  <2> HIDE DEF t, c, x
  <2>2. QED BY <2>1, <1>1, <1>3, <1>9, WritesOne
<1>11. Above(s, u) \in Nat /\ u.told \in Seq(Things(TextChar)) /\ <<c>> \in Seq(TextChar)
  BY <1>3, AboveNat, StoryIs
<1> HIDE DEF c, rest, t
<1>12. x \in Things(TextChar) /\ On(x, rest) = Thing("primitive", Above(s, u), word)
  <2>1. x \in Things(TextChar)
    BY <1>11, ThingsOfText
  <2>2. On(x, rest) = Thing("primitive", Above(s, u), <<c>> \o rest)
    BY <1>4, <1>11, ThingsOfText
  <2>3. QED BY <2>1, <2>2, <1>6
<1> HIDE DEF x
<1>13. Continues(t, rest)
  <2>1. \A k \in 1..Len(rest) : Reads(t, rest[k], t)
    BY <1>1, <1>5 DEF Reads
  <2>2. \A k \in 1..Len(rest) : \A w : Tell(t, w, rest[k]) = Longer(w, rest[k])
    BY <1>1, <1>5 DEF Tell, Passed
  <2>3. QED BY <2>1, <2>2 DEF Continues
<1>14. Writes(t, Story(u.opens, Append(u.told, x)), rest,
              t, Story(u.opens, Append(u.told, On(x, rest))))
  BY <1>1, <1>4, <1>11, <1>12, <1>13, WritesOn
<1>15. Writes(s, u, <<c>> \o rest, t, Adds(u, On(x, rest)))
  BY <1>10, <1>14, WritesMore DEF Adds
<1>16. QED BY <1>6, <1>12, <1>15 DEF t

\* json_handle_comma, json_handle_name: in front of an element.
LEMMA WritesName ==
  ASSUME NEW s \in Inner, WantsKey(s), NEW name \in Name, NEW u \in Stories
  PROVE  Writes(s, u, json_handle_name(name), To(s, "value"),
                Adds(u, Thing("string", Above(s, u), name)))
<1> DEFINE key == To(s, "key")
           colon == To(s, "colon")
           a == Above(s, u)
           v == Adds(u, Thing("string", a, <<>>))
           w == Adds(u, Thing("string", a, name))
<1>1. /\ key \in Inner /\ key.mode = "key" /\ colon \in Inner /\ colon.mode = "colon"
      /\ To(key, "colon") = colon /\ To(colon, "value") = To(s, "value")
      /\ To(s, "value") \in States
  <2>1. To(key, "colon") = colon /\ To(colon, "value") = To(s, "value")
    BY DEF To
  <2>2. QED BY <2>1, InnerStates DEF Modes, Inner
<1>2. Writes(s, u, Quote, key, v)
  BY WritesMark
<1>3. Writes(key, v, name, key, w)
  <2>1. a \in Nat
    BY AboveNat
  <2> HIDE DEF key, a
  <2>2. QED BY <2>1, <1>1, NoMarkInside, WritesText
<1> HIDE DEF v, w
<1>4. Writes(key, w, Quote, colon, w)
  <2> HIDE DEF key, colon
  <2>1. QED BY <1>1, WritesMark
<1>5. Writes(colon, w, <<":">>, To(s, "value"), w)
  <2>1. Reads(colon, ":", To(colon, "value"))
    <3> HIDE DEF colon
    <3>1. QED BY <1>1 DEF Reads
  <2>2. colon \in States
    BY <1>1 DEF Inner
  <2> HIDE DEF colon
  <2>3. ":" \notin Opening /\ ":" \notin Closing /\ ":" # Mark /\ ":" \in Passed
    BY CharKinds DEF Opening, Closing, Passed, Blank
  <2>4. Tell(colon, w, ":") = w
    BY <2>3, <1>1 DEF Tell
  <2>5. QED BY <2>1, <2>2, <2>4, <1>1, CharsOfText, WritesOne
<1> HIDE DEF key, colon
<1>6. Writes(s, u, Quote \o name, key, w)
  BY <1>2, <1>3, WritesMore
<1>7. Writes(s, u, (Quote \o name) \o Quote, colon, w)
  BY <1>6, <1>4, WritesMore
<1>8. Writes(s, u, ((Quote \o name) \o Quote) \o <<":">>, To(s, "value"), w)
  BY <1>7, <1>5, WritesMore
<1>9. QED BY <1>8 DEF json_handle_name, w, a

----------------------------------------------------------------------------
(* What has been told and the document: each element has its thing, and in *)
(* an object its key in front of it.                                       *)

Nodes == [parent : Nat, name : Name \cup {NoName},
          type : {"object", "array", "string"} \cup {v.type : v \in Value},
          val : Seq(Char) \cup {v.val : v \in Value}]

Kind(type) == IF type \in Container \cup {"string"} THEN type ELSE "primitive"
TextAt(node) == IF node.type \in Container THEN <<>>
                ELSE IF node.type = "string" THEN node.val ELSE Word(node)

\* What is neither an object nor an array has been given by the client.
Proper(node) ==
    \/ node.type \in Container \cup {"string"}
    \/ \E v \in Value : v.type # "string" /\ v.type = node.type /\ v.val = node.val

\* p[n] is the thing of element n of the document d.
HasKey(d, node) == node.parent # 0 /\ d[node.parent].type = "object"
Holder(p, node) == IF node.parent = 0 THEN 0 ELSE p[node.parent]
Begins(d, p, n) == IF HasKey(d, d[n]) THEN p[n] - 1 ELSE p[n]

Mirrors(d, told, p, n) ==
    /\ d[n].parent \in 0..(n - 1) /\ Proper(d[n])
    /\ Begins(d, p, n) \in 1..Len(told) /\ p[n] \in 1..Len(told)
    /\ told[p[n]] = Thing(Kind(d[n].type),
                          IF HasKey(d, d[n]) THEN p[n] - 1 ELSE Holder(p, d[n]),
                          TextAt(d[n]))
    /\ HasKey(d, d[n]) => told[p[n] - 1] = Thing("string", Holder(p, d[n]), d[n].name)

Mirror(d, told, p) ==
    /\ d \in Seq(Nodes) /\ told \in Seq(Things(TextChar))
    /\ p \in Seq(Nat) /\ Len(p) = Len(d)
    /\ \A n \in 1..Len(d) : Mirrors(d, told, p, n)
    /\ \A n, m \in 1..Len(d) : n < m => p[n] < Begins(d, p, m)
    /\ \A i \in 1..Len(told) : \E n \in 1..Len(d) : i \in Begins(d, p, n)..p[n]
    /\ Len(d) # 0 => p[1] = 1 /\ p[Len(d)] = Len(told)

LEMMA MirrorEmpty == Mirror(<<>>, <<>>, <<>>)
<1>1. /\ <<>> \in Seq(Nodes) /\ <<>> \in Seq(Things(TextChar)) /\ <<>> \in Seq(Nat)
      /\ Len(<<>>) = 0
  BY EmptySeq
<1>2. QED BY <1>1 DEF Mirror

\* What is told when an element is added.
Put(d, told, p, node) ==
    IF HasKey(d, node)
    THEN Append(Append(told, Thing("string", Holder(p, node), node.name)),
                Thing(Kind(node.type), Len(told) + 1, TextAt(node)))
    ELSE Append(told, Thing(Kind(node.type), Holder(p, node), TextAt(node)))

LEMMA PutAdds ==
  ASSUME NEW d, NEW told, NEW p, Mirror(d, told, p),
         NEW node \in Nodes, node.parent \in 0..Len(d), TextAt(node) \in Seq(TextChar)
  PROVE  LET told2 == Put(d, told, p, node)
             t == Len(told)
             last2 == Len(told2)
         IN  /\ told2 \in Seq(Things(TextChar)) /\ t \in Nat
             /\ last2 = IF HasKey(d, node) THEN t + 2 ELSE t + 1
             /\ \A i \in 1..t : told2[i] = told[i]
             /\ told2[last2] = Thing(Kind(node.type),
                                  IF HasKey(d, node) THEN last2 - 1 ELSE Holder(p, node),
                                  TextAt(node))
             /\ HasKey(d, node) =>
                  told2[last2 - 1] = Thing("string", Holder(p, node), node.name)
<1> DEFINE t == Len(told)
           key == Thing("string", Holder(p, node), node.name)
           one == Append(told, key)
           thing == Thing(Kind(node.type), t + 1, TextAt(node))
           alone == Thing(Kind(node.type), Holder(p, node), TextAt(node))
<1>1. told \in Seq(Things(TextChar)) /\ t \in Nat
  BY LenProperties DEF Mirror
<1>2. Holder(p, node) \in Nat
  <2>1. ASSUME node.parent # 0 PROVE p[node.parent] \in Nat
    <3>1. node.parent \in 1..Len(p) /\ p \in Seq(Nat)
      BY <2>1 DEF Mirror
    <3>2. QED BY <3>1, ElementOfSeq
  <2>2. QED BY <2>1 DEF Holder
<1>3. key \in Things(TextChar) /\ thing \in Things(TextChar) /\ alone \in Things(TextChar)
  <2>1. node.name \in Seq(TextChar)
    <3>1. NoName \in Seq(TextChar)
      BY EmptySeq DEF NoName
    <3>2. node.name \in Name \cup {NoName}
      BY DEF Nodes
    <3>3. QED BY <3>1, <3>2, NoMarkInside
  <2>2. Kind(node.type) \in {"object", "array", "string", "primitive"}
    BY DEF Kind, Container
  <2>3. t + 1 \in Nat
    BY <1>1
  <2>4. QED BY <2>1, <2>2, <2>3, <1>2, ThingsOfText
<1> HIDE DEF t, key, thing, alone
<1>4. CASE HasKey(d, node)
  <2>1. /\ one \in Seq(Things(TextChar)) /\ Len(one) = t + 1 /\ one[t + 1] = key
        /\ \A i \in 1..t : one[i] = told[i]
    BY <1>1, <1>3, AppendProperties DEF t
  <2> HIDE DEF one
  <2>2. /\ Append(one, thing) \in Seq(Things(TextChar)) /\ Len(Append(one, thing)) = t + 2
        /\ Append(one, thing)[t + 2] = thing
        /\ \A i \in 1..(t + 1) : Append(one, thing)[i] = one[i]
    <3>1. (t + 1) + 1 = t + 2
      BY <1>1
    <3>2. QED BY <3>1, <2>1, <1>3, AppendProperties
  <2>3. Put(d, told, p, node) = Append(one, thing)
    BY <1>4 DEF Put, one, key, thing, t
  <2>4. (t + 2) - 1 = t + 1 /\ t + 1 \in 1..(t + 1) /\ \A i \in 1..t : i \in 1..(t + 1)
    BY <1>1
  <2> DEFINE two == Append(one, thing)
  <2>5. /\ two \in Seq(Things(TextChar)) /\ Len(two) = t + 2 /\ two[t + 2] = thing
        /\ two[(t + 2) - 1] = key /\ \A i \in 1..t : two[i] = told[i]
    BY <2>1, <2>2, <2>4
  <2> HIDE DEF two
  <2>6. thing = Thing(Kind(node.type), (t + 2) - 1, TextAt(node))
    BY <2>4 DEF thing
  <2>7. Put(d, told, p, node) = two
    BY <2>3 DEF two
  <2>8. QED BY <2>5, <2>6, <2>7, <1>1, <1>4 DEF key, t
<1>5. CASE ~ HasKey(d, node)
  <2> DEFINE two == Append(told, alone)
  <2>1. /\ two \in Seq(Things(TextChar)) /\ Len(two) = t + 1 /\ two[t + 1] = alone
        /\ \A i \in 1..t : two[i] = told[i]
    BY <1>1, <1>3, AppendProperties DEF t
  <2>2. Put(d, told, p, node) = two
    BY <1>5 DEF Put, alone
  <2> HIDE DEF two
  <2>3. QED BY <2>1, <2>2, <1>1, <1>5 DEF alone, t
<1>6. QED BY <1>4, <1>5

\* Element n of the document, where d, p and told have only been added to.
SameTo(n, f, g) == \A i \in 1..n : g[i] = f[i]

LEMMA MirrorsStill ==
  ASSUME NEW d, NEW told, NEW p, NEW n \in Nat, Mirrors(d, told, p, n),
         NEW d2, NEW told2, NEW p2, SameTo(n, d, d2), SameTo(n, p, p2), n # 0,
         SameTo(Len(told), told, told2),
         Len(told) \in Nat, Len(told2) \in Nat, Len(told) <= Len(told2)
  PROVE  Mirrors(d2, told2, p2, n) /\ Begins(d2, p2, n) = Begins(d, p, n)
<1>1. d2[n] = d[n] /\ p2[n] = p[n]
  BY n \in 1..n DEF SameTo
<1> DEFINE node == d[n]
<1>2. node.parent \in 0..(n - 1)
  BY DEF Mirrors
<1>3. node.parent # 0 => node.parent \in 1..n
  BY <1>2
<1> HIDE DEF node
<1>4. HasKey(d2, node) = HasKey(d, node) /\ Holder(p2, node) = Holder(p, node)
  BY <1>3 DEF HasKey, Holder, SameTo
<1>5. Begins(d2, p2, n) = Begins(d, p, n)
  BY <1>1, <1>4 DEF Begins, node
<1>6. /\ Begins(d, p, n) \in 1..Len(told) /\ p[n] \in 1..Len(told)
      /\ Begins(d, p, n) \in 1..Len(told2) /\ p[n] \in 1..Len(told2)
  BY DEF Mirrors
<1>7. told2[p[n]] = told[p[n]]
  BY <1>6 DEF SameTo
<1>8. HasKey(d, node) => told2[p[n] - 1] = told[p[n] - 1]
  BY <1>6 DEF Begins, node, SameTo
<1>9. QED BY <1>1, <1>2, <1>4, <1>5, <1>6, <1>7, <1>8 DEF Mirrors, node

Mirrored(d, told, p, node) ==
    LET told2 == Put(d, told, p, node)
        p2 == Append(p, Len(told2))
    IN  /\ Mirror(Append(d, node), told2, p2)
        /\ \A n \in 1..Len(d) : p2[n] = p[n]
        /\ p2[Len(d) + 1] = Len(told2)

LEMMA MirrorPut ==
  ASSUME NEW d, NEW told, NEW p, Mirror(d, told, p),
         NEW node \in Nodes, node.parent \in 0..Len(d), Proper(node),
         TextAt(node) \in Seq(TextChar), Len(d) = 0 => ~ HasKey(d, node)
  PROVE  Mirrored(d, told, p, node)
<1> DEFINE told2 == Put(d, told, p, node)
           e == Len(d)
           t == Len(told)
           t2 == Len(told2)
           d2 == Append(d, node)
           p2 == Append(p, t2)
           key == HasKey(d, node)
<1>1. /\ d \in Seq(Nodes) /\ p \in Seq(Nat) /\ Len(p) = e /\ e \in Nat
      /\ \A n \in 1..e : Mirrors(d, told, p, n)
      /\ \A n, m \in 1..e : n < m => p[n] < Begins(d, p, m)
      /\ \A i \in 1..t : \E n \in 1..e : i \in Begins(d, p, n)..p[n]
      /\ e # 0 => p[1] = 1 /\ p[e] = t
  BY LenProperties DEF Mirror
<1>2. /\ told2 \in Seq(Things(TextChar)) /\ t \in Nat
      /\ t2 = IF key THEN t + 2 ELSE t + 1
      /\ \A i \in 1..t : told2[i] = told[i]
      /\ told2[t2] = Thing(Kind(node.type), IF key THEN t2 - 1 ELSE Holder(p, node),
                           TextAt(node))
      /\ key => told2[t2 - 1] = Thing("string", Holder(p, node), node.name)
  BY PutAdds
<1> HIDE DEF told2
<1>3. t2 \in Nat /\ t < t2
  BY <1>2
<1> HIDE DEF t2, t
<1>4. /\ d2 \in Seq(Nodes) /\ Len(d2) = e + 1 /\ d2[e + 1] = node
      /\ \A n \in 1..e : d2[n] = d[n]
  BY <1>1, AppendProperties
<1>5. /\ p2 \in Seq(Nat) /\ Len(p2) = e + 1 /\ p2[e + 1] = t2
      /\ \A n \in 1..e : p2[n] = p[n]
  BY <1>1, <1>3, AppendProperties
<1> HIDE DEF d2, p2, e
<1>6. ASSUME NEW n \in 1..e
      PROVE  Mirrors(d2, told2, p2, n) /\ Begins(d2, p2, n) = Begins(d, p, n)
  <2>1. SameTo(n, d, d2) /\ SameTo(n, p, p2)
    BY <1>1, <1>4, <1>5 DEF SameTo
  <2>2. Mirrors(d, told, p, n) /\ n \in Nat /\ n # 0
    BY <1>1
  <2>3. Len(told) \in Nat /\ Len(told2) \in Nat /\ Len(told) <= Len(told2)
        /\ SameTo(Len(told), told, told2)
    BY <1>2, <1>3 DEF t, t2, SameTo
  <2>4. QED BY <2>1, <2>2, <2>3, MirrorsStill
<1>7. HasKey(d2, node) = key /\ Holder(p2, node) = Holder(p, node)
  <2>1. node.parent # 0 => node.parent \in 1..e
    BY <1>1 DEF e
  <2>2. QED BY <2>1, <1>4, <1>5 DEF HasKey, Holder
<1> HIDE DEF key
<1>8. Begins(d2, p2, e + 1) = t + 1 /\ p2[e + 1] = t2
  BY <1>2, <1>3, <1>4, <1>5, <1>7 DEF Begins
<1>9. Mirrors(d2, told2, p2, e + 1)
  <2>1. node.parent \in 0..((e + 1) - 1)
    BY <1>1 DEF e
  <2>2. t + 1 \in 1..Len(told2) /\ t2 \in 1..Len(told2)
    BY <1>2, <1>3 DEF t2
  <2>3. QED BY <2>1, <2>2, <1>2, <1>4, <1>7, <1>8 DEF Mirrors
<1>10. ASSUME NEW n \in 1..(e + 1)
       PROVE  Mirrors(d2, told2, p2, n)
  <2>1. n \in 1..e \/ n = e + 1
    BY <1>1
  <2>2. QED BY <2>1, <1>6, <1>9
<1>11. ASSUME NEW n \in 1..(e + 1), NEW m \in 1..(e + 1), n < m
       PROVE  p2[n] < Begins(d2, p2, m)
  <2>1. n \in 1..e
    BY <1>1, <1>11
  <2>2. CASE m \in 1..e
    BY <2>1, <2>2, <1>1, <1>5, <1>6, <1>11
  <2>3. CASE m = e + 1
    <3>1. p[n] \in 1..t
      BY <2>1, <1>1 DEF Mirrors, t
    <3>2. QED BY <3>1, <2>1, <2>3, <1>2, <1>5, <1>8
  <2>4. QED BY <2>2, <2>3, <1>1
<1>12. ASSUME NEW i \in 1..t2
       PROVE  \E n \in 1..(e + 1) : i \in Begins(d2, p2, n)..p2[n]
  <2>1. CASE i \in 1..t
    <3>1. PICK n \in 1..e : i \in Begins(d, p, n)..p[n]
      BY <2>1, <1>1
    <3>2. n \in 1..(e + 1) /\ i \in Begins(d2, p2, n)..p2[n]
      BY <3>1, <1>1, <1>5, <1>6
    <3>3. QED BY <3>2
  <2>2. CASE i \notin 1..t
    <3>1. i \in (t + 1)..t2
      BY <2>2, <1>2, <1>3
    <3>2. e + 1 \in 1..(e + 1)
      BY <1>1
    <3>3. QED BY <3>1, <3>2, <1>8
  <2>3. QED BY <2>1, <2>2
<1>13. p2[1] = 1
  <2>1. CASE e # 0
    <3>1. 1 \in 1..e
      BY <2>1, <1>1
    <3>2. QED BY <3>1, <2>1, <1>1, <1>5
  <2>2. CASE e = 0
    <3>1. t = 0
      <4>1. ASSUME t # 0 PROVE FALSE
        <5>1. 1 \in 1..t
          BY <4>1, <1>2
        <5>2. PICK n \in 1..e : TRUE
          BY <5>1, <1>1
        <5>3. QED BY <5>2, <2>2
      <4>2. QED BY <4>1
    <3>2. ~ key
      BY <2>2 DEF key, e
    <3>3. QED BY <3>1, <3>2, <2>2, <1>2, <1>5
  <2>3. QED BY <2>1, <2>2
<1>14. Len(d2) = e + 1 /\ Len(told2) = t2 /\ p2[Len(d2)] = Len(told2)
  BY <1>4, <1>5 DEF t2
<1>15. Mirror(d2, told2, p2)
  BY <1>2, <1>4, <1>5, <1>10, <1>11, <1>12, <1>13, <1>14 DEF Mirror
<1>16. QED BY <1>5, <1>15 DEF d2, p2, told2, t2, e, Mirrored

\* The last string goes on.
LEMMA MirrorLonger ==
  ASSUME NEW d, NEW p, NEW base \in Seq(Things(TextChar)), NEW x \in Things(TextChar),
         Mirror(d, Append(base, x), p), NEW n, n = Len(d), n # 0,
         NEW part \in Seq(TextChar), NEW d2 \in Seq(Nodes), Len(d2) = n,
         \A i \in 1..(n - 1) : d2[i] = d[i],
         d[n].type = "string", d2[n].type = "string", d2[n].parent = d[n].parent,
         d2[n].name = d[n].name, d2[n].val = d[n].val \o part
  PROVE  Mirror(d2, Append(base, On(x, part)), p)
<1> DEFINE told == Append(base, x)
           told2 == Append(base, On(x, part))
           t == Len(base) + 1
<1>1. /\ d \in Seq(Nodes) /\ p \in Seq(Nat) /\ Len(p) = n /\ n \in Nat
      /\ \A m \in 1..n : Mirrors(d, told, p, m)
      /\ \A k, m \in 1..n : k < m => p[k] < Begins(d, p, m)
      /\ \A i \in 1..Len(told) : \E m \in 1..n : i \in Begins(d, p, m)..p[m]
      /\ p[1] = 1 /\ p[n] = Len(told)
  BY LenProperties DEF Mirror
<1>2. On(x, part) \in Things(TextChar)
  <2>1. x.text \o part \in Seq(TextChar)
    BY ConcatProperties DEF Things
  <2> DEFINE text == x.text \o part
  <2> HIDE DEF text
  <2>2. Thing(x.type, x.parent, text) \in Things(TextChar)
    BY <2>1 DEF Thing, Things, text
  <2>3. QED BY <2>2 DEF On, text
<1>3. /\ Len(base) \in Nat /\ Len(told) = t /\ told[t] = x
      /\ \A i \in 1..Len(base) : told[i] = base[i]
  BY AppendProperties, LenProperties
<1>4. /\ told2 \in Seq(Things(TextChar)) /\ Len(told2) = t /\ told2[t] = On(x, part)
      /\ \A i \in 1..Len(base) : told2[i] = base[i]
  BY <1>2, AppendProperties
<1> HIDE DEF told, told2
<1>5. t \in Nat /\ \A i \in 1..t : i # t => i \in 1..Len(base)
  BY <1>3
<1> HIDE DEF t
<1>6. \A i \in 1..t : i # t => told2[i] = told[i]
  BY <1>3, <1>4, <1>5
<1>7. \A m \in 1..n : d2[m].parent = d[m].parent /\ d2[m].type = d[m].type
                      /\ (m # n => d2[m] = d[m])
  <2>1. \A m \in 1..n : m # n => m \in 1..(n - 1)
    BY <1>1
  <2>2. QED BY <2>1
<1>8. ASSUME NEW m \in 1..n
      PROVE  /\ HasKey(d2, d2[m]) = HasKey(d, d[m]) /\ Holder(p, d2[m]) = Holder(p, d[m])
             /\ Begins(d2, p, m) = Begins(d, p, m)
  <2>1. d[m].parent \in 0..(m - 1)
    BY <1>1 DEF Mirrors
  <2>2. d[m].parent # 0 => d[m].parent \in 1..n
    BY <2>1, <1>1
  <2>3. HasKey(d2, d2[m]) = HasKey(d, d[m]) /\ Holder(p, d2[m]) = Holder(p, d[m])
    BY <2>2, <1>7 DEF HasKey, Holder
  <2>4. QED BY <2>3 DEF Begins
<1>9. ASSUME NEW m \in 1..n, m # n
      PROVE  Mirrors(d2, told2, p, m)
  <2>1. /\ d2[m] = d[m] /\ Mirrors(d, told, p, m)
    BY <1>1, <1>7, <1>9
  <2>2. p[m] \in 1..t /\ p[m] # t
    <3>1. n \in 1..n /\ m < n
      BY <1>1, <1>9
    <3>2. p[m] < Begins(d, p, n) /\ Mirrors(d, told, p, n)
      BY <3>1, <1>1
    <3>3. Begins(d, p, n) \in 1..t /\ p[m] \in 1..t
      BY <2>1, <3>2, <1>3 DEF Mirrors
    <3>4. QED BY <3>2, <3>3, <1>5
  <2>3. told2[p[m]] = told[p[m]]
    BY <2>2, <1>6
  <2>4. HasKey(d, d[m]) => told2[p[m] - 1] = told[p[m] - 1]
    <3>1. ASSUME HasKey(d, d[m]) PROVE p[m] - 1 \in 1..t /\ p[m] - 1 # t
      BY <3>1, <2>1, <2>2, <1>3, <1>5 DEF Mirrors, Begins
    <3>2. QED BY <3>1, <1>6
  <2>5. QED BY <2>1, <2>3, <2>4, <1>3, <1>4, <1>8 DEF Mirrors
<1>10. Mirrors(d2, told2, p, n)
  <2>1. n \in 1..n
    BY <1>1
  <2>2. Mirrors(d, told, p, n) /\ p[n] = t
    BY <2>1, <1>1, <1>3
  <2> DEFINE up == IF HasKey(d, d[n]) THEN t - 1 ELSE Holder(p, d[n])
  <2>3. x = Thing("string", up, d[n].val)
    <3>1. Kind(d[n].type) = "string" /\ TextAt(d[n]) = d[n].val
      BY DEF Kind, TextAt, Container
    <3>2. told[t] = Thing(Kind(d[n].type), up, TextAt(d[n]))
      BY <2>2 DEF Mirrors
    <3>3. QED BY <3>1, <3>2, <1>3
  <2> HIDE DEF up
  <2>4. On(x, part) = Thing("string", up, d2[n].val)
    BY <2>3 DEF On, Thing
  <2>5. Kind(d2[n].type) = "string" /\ TextAt(d2[n]) = d2[n].val /\ Proper(d2[n])
    BY DEF Kind, TextAt, Container, Proper
  <2>6. told2[p[n]] = Thing(Kind(d2[n].type),
                            IF HasKey(d2, d2[n]) THEN p[n] - 1 ELSE Holder(p, d2[n]),
                            TextAt(d2[n]))
    BY <2>1, <2>2, <2>4, <2>5, <1>4, <1>8 DEF up
  <2>7. HasKey(d, d[n]) => told2[p[n] - 1] = told[p[n] - 1]
    <3>1. ASSUME HasKey(d, d[n]) PROVE p[n] - 1 \in 1..t /\ p[n] - 1 # t
      BY <3>1, <2>2, <1>3, <1>5 DEF Mirrors, Begins
    <3>2. QED BY <3>1, <1>6
  <2>8. QED BY <2>1, <2>2, <2>5, <2>6, <2>7, <1>3, <1>4, <1>8 DEF Mirrors
<1>11. \A m \in 1..n : Mirrors(d2, told2, p, m)
  BY <1>9, <1>10
<1>12. Mirror(d2, told2, p)
  BY <1>1, <1>3, <1>4, <1>8, <1>11 DEF Mirror
<1>13. QED BY <1>12 DEF told2

----------------------------------------------------------------------------
(* The client and what it has written.                                     *)

\* The client is inside what it has opened, and done when that is closed.
ClientOK ==
    /\ doc \in Seq(Nodes)
    /\ nest \in Seq(1..Len(doc))
    /\ long \in BOOLEAN
    /\ long => /\ nest # <<>> /\ comma_req
               /\ doc[Len(doc)].val \in Seq(Char) /\ doc[Len(doc)].type = "string"
    /\ stage = "idle" => doc = <<>>
    /\ doc = <<>> => nest = <<>>
    /\ stage = "open" /\ doc = <<>> => ~ comma_req
    /\ stage = "ended" => nest = <<>> /\ doc # <<>>

\* Where in the document the client is.
ClientAt(s) ==
    /\ Len(s.stack) = Len(nest)
    /\ \A k \in 1..Len(nest) : s.stack[k] = doc[nest[k]].type
    /\ s.mode \in CASE long -> {"str"}
                    [] ~ long /\ nest # <<>> -> IF comma_req THEN {"after", "prim"}
                                                             ELSE {"first"}
                    [] ~ long /\ nest = <<>> -> IF doc = <<>> THEN {"start"} ELSE {"end"}

\* What has been told is the document, p being the things of its elements,
\* and what is open is what the client has open.
OpenAt(u, ns, p) == /\ Len(u.opens) = Len(ns)
                     /\ \A k \in 1..Len(ns) : u.opens[k] = p[ns[k]]
Holds(u, d, ns, p) == u \in Stories /\ Mirror(d, u.told, p) /\ OpenAt(u, ns, p)

Beginning == [mode |-> "start", stack |-> <<>>]

Written == \E s, u, p : /\ Writes(Beginning, NoTale, asked, s, u)
                        /\ ClientAt(s) /\ Holds(u, doc, nest, p)

LEMMA CallWrites ==
  ASSUME NEW h, NEW l, NEW c, Call(h, l, c), NEW s, NEW t, NEW z, NEW u, NEW v, NEW w,
         Writes(Beginning, NoTale, asked, s, u), Writes(s, u, h, t, v), Writes(t, v, l, z, w)
  PROVE  /\ Writes(Beginning, NoTale, asked', z, w)
         /\ comma_req' = c /\ stage' = stage /\ stage = "open"
<1>1. asked' = (asked \o h) \o l
  BY DEF Call
<1>2. Writes(Beginning, NoTale, asked \o h, t, v)
  BY WritesMore
<1>3. Writes(Beginning, NoTale, (asked \o h) \o l, z, w)
  BY <1>2, WritesMore
<1>4. QED BY <1>1, <1>3 DEF Call

\* In front of an element: the comma, and in an object the name.
LEMMA WritesFront ==
  ASSUME NEW s \in Inner, s.mode \in IF comma_req THEN {"after", "prim"} ELSE {"first"},
         NEW u
  PROVE  \E t \in Inner : /\ Writes(s, u, json_handle_comma, t, u)
                          /\ t.mode \in {"first", "next"} /\ t.stack = s.stack
<1>1. CASE comma_req
  <2>1. /\ To(s, "next") \in Inner /\ To(s, "next").mode = "next"
        /\ To(s, "next").stack = s.stack
    BY InnerStates DEF Modes
  <2>2. Reads(s, ",", To(s, "next"))
    BY <1>1 DEF Reads
  <2>3. "," \notin Opening /\ "," \notin Closing /\ "," # Mark /\ "," \in Passed
    BY CharKinds DEF Opening, Closing, Passed, Blank
  <2>4. Tell(s, u, ",") = u
    BY <2>3, <1>1 DEF Tell
  <2>5. Writes(s, u, <<",">>, To(s, "next"), u)
    BY <2>1, <2>2, <2>4, CharsOfText, WritesOne DEF Inner
  <2>6. json_handle_comma = <<",">>
    BY <1>1 DEF json_handle_comma
  <2>7. QED BY <2>1, <2>5, <2>6
<1>2. CASE ~ comma_req
  <2>1. Writes(s, u, <<>>, s, u)
    BY WritesNothing DEF Inner
  <2>2. QED BY <2>1, <1>2 DEF json_handle_comma
<1>3. QED BY <1>1, <1>2

LEMMA ClientInside ==
  ASSUME ClientOK, NEW s \in States, ClientAt(s), ~ long, nest # <<>>
  PROVE  /\ s \in Inner
         /\ s.mode \in IF comma_req THEN {"after", "prim"} ELSE {"first"}
         /\ Topmost(s) = doc[Top].type
<1>1. s.mode \in IF comma_req THEN {"after", "prim"} ELSE {"first"}
  BY DEF ClientAt
<1>2. s \in Inner
  BY <1>1 DEF Inner
<1>3. Len(nest) \in 1..Len(nest)
  <2>1. Len(nest) \in Nat /\ Len(nest) # 0
    BY EmptySeq, LenProperties DEF ClientOK
  <2>2. QED BY <2>1
<1>4. Topmost(s) = doc[Top].type
  BY <1>3 DEF ClientAt, Topmost, Top
<1>5. QED BY <1>1, <1>2, <1>4

\* What is open last, and what has been told when the element itself comes.
Outer(u) == IF u.opens = <<>> THEN 0 ELSE u.opens[Len(u.opens)]
Fronted(u, name, t, w) ==
    IF nest # <<>> /\ doc[Top].type = "object"
    THEN t.mode = "value" /\ w = Adds(u, Thing("string", Outer(u), name))
    ELSE t.mode # "value" /\ w = u

LEMMA WritesBefore ==
  ASSUME ClientOK, NEW s \in States, ClientAt(s), ~ long, nest # <<>>, NEW u \in Stories
  PROVE  /\ doc[Top].type = "object" => \A name \in Name :
              \E t \in Inner : \E w :
                 /\ Writes(s, u, json_handle_comma \o json_handle_name(name), t, w)
                 /\ WantsValue(t) /\ t.stack = s.stack /\ Fronted(u, name, t, w)
         /\ doc[Top].type = "array" =>
              \E t \in Inner : \E w :
                 /\ Writes(s, u, json_handle_comma, t, w)
                 /\ WantsValue(t) /\ t.stack = s.stack /\ Fronted(u, NoName, t, w)
<1>1. /\ s \in Inner /\ s.mode \in IF comma_req THEN {"after", "prim"} ELSE {"first"}
      /\ Topmost(s) = doc[Top].type
  BY ClientInside
<1>2. PICK t \in Inner : /\ Writes(s, u, json_handle_comma, t, u)
                         /\ t.mode \in {"first", "next"} /\ t.stack = s.stack
  BY <1>1, WritesFront
<1>3. Topmost(t) = doc[Top].type
  BY <1>1, <1>2 DEF Topmost
<1>4. ASSUME doc[Top].type = "object", NEW name \in Name
      PROVE  \E z \in Inner : \E w :
                /\ Writes(s, u, json_handle_comma \o json_handle_name(name), z, w)
                /\ WantsValue(z) /\ z.stack = s.stack /\ Fronted(u, name, z, w)
  <2> DEFINE z == To(t, "value")
             w == Adds(u, Thing("string", Above(t, u), name))
  <2>1. WantsKey(t)
    BY <1>2, <1>3, <1>4 DEF WantsKey
  <2>2. Writes(t, u, json_handle_name(name), z, w)
    BY <2>1, WritesName
  <2>3. z \in Inner /\ z.mode = "value" /\ z.stack = t.stack
    BY InnerStates DEF Modes
  <2>4. Above(t, u) = Outer(u)
    BY <1>2 DEF Above, Outer
  <2>5. Fronted(u, name, z, w)
    BY <2>3, <2>4, <1>4 DEF Fronted
  <2> HIDE DEF z, w
  <2>6. Writes(s, u, json_handle_comma \o json_handle_name(name), z, w)
    BY <1>2, <2>2, WritesMore
  <2>7. WantsValue(z)
    BY <2>3 DEF WantsValue
  <2>8. QED BY <1>2, <2>3, <2>5, <2>6, <2>7
<1>5. ASSUME doc[Top].type = "array"
      PROVE  WantsValue(t) /\ Fronted(u, NoName, t, u)
  BY <1>2, <1>3, <1>5 DEF WantsValue, Fronted
<1>6. QED BY <1>2, <1>4, <1>5

\* The element itself.
LEMMA WritesBracket ==
  ASSUME NEW s \in States, s.mode = "start" \/ (s \in Inner /\ WantsValue(s)),
         NEW c \in Opening, NEW u
  PROVE  /\ Writes(s, u, <<c>>, Opened(s, c),
                   Enters(u, Thing(TypeOf(c), Above(s, u), <<>>)))
         /\ Opened(s, c).mode = "first"
         /\ Opened(s, c).stack = Append(s.stack, TypeOf(c))
<1>1. Reads(s, c, Opened(s, c))
  BY DEF Reads
<1>2. Opened(s, c) \in States
  <2>1. TypeOf(c) \in {"object", "array"} /\ s.stack \in Seq({"object", "array"})
    BY DEF TypeOf, States
  <2>2. /\ Append(s.stack, TypeOf(c)) \in Seq({"object", "array"})
        /\ Len(Append(s.stack, TypeOf(c))) = Len(s.stack) + 1
    BY <2>1, AppendProperties
  <2>3. Append(s.stack, TypeOf(c)) # <<>>
    BY <2>1, <2>2, EmptySeq, LenProperties
  <2>4. QED BY <2>2, <2>3 DEF Opened, States, Modes
<1>3. c \in TextChar
  BY CharsOfText DEF Opening
<1>4. s.mode \notin {"key", "str"}
  BY DEF WantsValue
<1>5. Tell(s, u, c) = Enters(u, Thing(TypeOf(c), Above(s, u), <<>>))
  BY <1>4 DEF Tell
<1> DEFINE v == Enters(u, Thing(TypeOf(c), Above(s, u), <<>>))
<1> HIDE DEF v
<1>6. Writes(s, u, <<c>>, Opened(s, c), v)
  BY <1>1, <1>2, <1>3, <1>5, WritesOne DEF v
<1>7. QED BY <1>6 DEF Opened, v

LEMMA WritesValue ==
  ASSUME NEW s \in Inner, WantsValue(s), NEW front, NEW s0, NEW u0, NEW u \in Stories,
         Writes(s0, u0, front, s, u),
         NEW v \in Value, SetAfter(front, v), Writes(Beginning, NoTale, asked, s0, u0)
  PROVE  \E t \in Inner :
           /\ Writes(Beginning, NoTale, asked', t,
                     Adds(u, IF v.type = "string"
                             THEN Thing("string", Above(s, u), v.val)
                             ELSE Thing("primitive", Above(s, u), Word(v))))
           /\ t.mode \in {"after", "prim"} /\ t.stack = s.stack
           /\ comma_req' = TRUE /\ stage' = stage /\ stage = "open"
<1>1. CASE v.type = "string"
  <2>1. Call(front \o Quote \o v.val, Quote, TRUE)
    BY <1>1 DEF SetAfter
  <2> DEFINE z == To(s, "str")
             a == Above(s, u)
             w0 == Adds(u, Thing("string", a, <<>>))
             w == Adds(u, Thing("string", a, v.val))
  <2>2. z \in Inner /\ z.mode = "str" /\ To(z, "after") = To(s, "after") /\ a \in Nat
    BY InnerStates, AboveNat DEF Modes, To
  <2>3. Writes(s, u, Quote, z, w0)
    BY WritesMark
  <2>4. Writes(z, w0, v.val, z, w)
    <3> HIDE DEF z, a
    <3>1. QED BY <1>1, <2>2, NoMarkInside, WritesText
  <2> HIDE DEF w0, w
  <2>5. Writes(z, w, Quote, To(z, "after"), w)
    <3> HIDE DEF z
    <3>1. QED BY <2>2, WritesMark
  <2>6. Writes(s0, u0, (front \o Quote) \o v.val, z, w)
    <3>1. Writes(s0, u0, front \o Quote, z, w0)
      BY <2>3, WritesMore
    <3>2. QED BY <3>1, <2>4, WritesMore
  <2>7. /\ Writes(Beginning, NoTale, asked', To(s, "after"), w)
        /\ comma_req' = TRUE /\ stage' = stage /\ stage = "open"
    <3> HIDE DEF z
    <3>1. QED BY <2>1, <2>2, <2>5, <2>6, CallWrites
  <2>8. /\ To(s, "after") \in Inner /\ To(s, "after").mode = "after"
        /\ To(s, "after").stack = s.stack
    BY InnerStates DEF Modes
  <2>9. QED BY <2>7, <2>8, <1>1 DEF w, a
<1>2. CASE v.type # "string"
  <2>1. Call(front, Word(v), TRUE)
    BY <1>2 DEF SetAfter
  <2> DEFINE w == Adds(u, Thing("primitive", Above(s, u), Word(v)))
  <2>2. Writes(s, u, Word(v), To(s, "prim"), w)
    BY <1>2, NoMarkInside, WritesWord
  <2> HIDE DEF w
  <2>3. /\ Writes(Beginning, NoTale, asked', To(s, "prim"), w)
        /\ comma_req' = TRUE /\ stage' = stage /\ stage = "open"
    BY <2>1, <2>2, CallWrites
  <2>4. /\ To(s, "prim") \in Inner /\ To(s, "prim").mode = "prim"
        /\ To(s, "prim").stack = s.stack
    BY InnerStates DEF Modes
  <2>5. QED BY <2>3, <2>4, <1>2 DEF w
<1>3. QED BY <1>1, <1>2

\* Elements are added, in the document and in what is told of it.
LEMMA NodeAdded ==
  ASSUME ClientOK, NEW node \in Nodes, doc' = Append(doc, node)
  PROVE  /\ doc' \in Seq(Nodes) /\ Len(doc)' = Len(doc) + 1 /\ Len(doc) \in Nat
         /\ doc'[Len(doc) + 1] = node
         /\ \A i \in 1..Len(doc) : doc'[i] = doc[i]
         /\ doc' # <<>>
<1>1. doc \in Seq(Nodes) /\ Len(doc) \in Nat
  BY LenProperties DEF ClientOK
<1>2. /\ doc' \in Seq(Nodes) /\ Len(doc') = Len(doc) + 1
      /\ doc'[Len(doc) + 1] = node
      /\ \A i \in 1..Len(doc) : doc'[i] = doc[i]
  BY <1>1, AppendProperties
<1>3. doc' # <<>>
  BY <1>1, <1>2, EmptySeq
<1>4. QED BY <1>1, <1>2, <1>3

LEMMA NodeIsNode ==
  ASSUME ClientOK, NEW name \in Name \cup {NoName}
  PROVE  /\ \A type \in {"object", "array"} : Node(name, type, <<>>) \in Nodes
         /\ \A v \in Value : Node(name, v.type, v.val) \in Nodes
         /\ \A part \in Part : Node(name, "string", part) \in Nodes
<1>1. (IF nest = <<>> THEN 0 ELSE Top) \in Nat
  <2>1. ASSUME nest # <<>> PROVE Top \in Nat
    <3>1. nest \in Seq(1..Len(doc)) /\ Len(nest) \in Nat /\ Len(nest) # 0
      BY <2>1, EmptySeq, LenProperties DEF ClientOK
    <3>2. nest[Len(nest)] \in 1..Len(doc)
      BY <3>1, ElementOfSeq, Len(nest) \in 1..Len(nest)
    <3>3. QED BY <3>2 DEF Top
  <2>2. QED BY <2>1
<1>2. <<>> \in Seq(Char) /\ \A part \in Part : part \in Seq(Char)
  BY EmptySeq, GenAssumption
<1>3. QED BY <1>1, <1>2 DEF Node, Nodes

\* An object or an array is opened.
LEMMA OpensKeeps ==
  ASSUME ClientOK, NEW s \in States, ClientAt(s), ~ long, stage = "open",
         NEW c \in Opening, NEW name \in Name \cup {NoName}, Opens(name, TypeOf(c)),
         NEW t \in States, t.mode = "first", t.stack = Append(s.stack, TypeOf(c)),
         comma_req' = FALSE, stage' = stage
  PROVE  ClientOK' /\ ClientAt(t)'
<1> DEFINE n == Len(doc)
           node == Node(name, TypeOf(c), <<>>)
<1>1. /\ doc' = Append(doc, node) /\ nest' = Append(nest, n + 1) /\ long' = long
      /\ TypeOf(c) \in {"object", "array"} /\ node.type = TypeOf(c)
  BY DEF Opens, TypeOf, Node
<1>2. node \in Nodes
  BY <1>1, NodeIsNode
<1> HIDE DEF node
<1>3. /\ doc' \in Seq(Nodes) /\ Len(doc') = n + 1 /\ n \in Nat
      /\ doc'[n + 1] = node /\ \A i \in 1..n : doc'[i] = doc[i]
      /\ doc' # <<>>
  BY <1>1, <1>2, NodeAdded
<1>4. /\ nest \in Seq(1..n) /\ Len(nest) \in Nat
      /\ \A k \in 1..Len(nest) : nest[k] \in 1..n
  BY ElementOfSeq, LenProperties DEF ClientOK
<1>5. nest \in Seq(1..(n + 1))
  <2>1. 1..n \subseteq 1..(n + 1)
    BY <1>3
  <2>2. QED BY <2>1, <1>4, SeqMonotonic
<1>6. /\ nest' \in Seq(1..(n + 1)) /\ Len(nest') = Len(nest) + 1
      /\ nest'[Len(nest) + 1] = n + 1
      /\ \A k \in 1..Len(nest) : nest'[k] = nest[k]
  BY <1>1, <1>3, <1>5, AppendProperties, n + 1 \in 1..(n + 1)
<1>7. nest' # <<>>
  BY <1>4, <1>6, EmptySeq
<1>8. /\ s.stack \in Seq({"object", "array"}) /\ Len(s.stack) = Len(nest)
      /\ \A k \in 1..Len(nest) : s.stack[k] = doc[nest[k]].type
  BY DEF States, ClientAt
<1>9. /\ Len(t.stack) = Len(nest) + 1 /\ t.stack[Len(nest) + 1] = TypeOf(c)
      /\ \A k \in 1..Len(nest) : t.stack[k] = s.stack[k]
  BY <1>1, <1>8, AppendProperties
<1>10. \A k \in 1..Len(nest') : t.stack[k] = doc'[nest'[k]].type
  <2>1. ASSUME NEW k \in 1..Len(nest')
        PROVE  t.stack[k] = doc'[nest'[k]].type
    <3>1. CASE k = Len(nest) + 1
      BY <3>1, <1>1, <1>3, <1>6, <1>9
    <3>2. CASE k # Len(nest) + 1
      <4>1. k \in 1..Len(nest)
        BY <3>2, <1>4, <1>6
      <4>2. nest'[k] = nest[k] /\ nest[k] \in 1..n /\ t.stack[k] = doc[nest[k]].type
        BY <4>1, <1>4, <1>6, <1>8, <1>9
      <4>3. QED BY <4>2, <1>3
    <3>3. QED BY <3>1, <3>2
  <2>2. QED BY <2>1
<1>11. ClientOK'
  BY <1>1, <1>3, <1>6, <1>7 DEF ClientOK
<1>12. ClientAt(t)'
  <2>1. Len(t.stack) = Len(nest')
    BY <1>6, <1>9
  <2>2. t.mode = "first" /\ ~ long' /\ nest' # <<>> /\ ~ comma_req'
    BY <1>1, <1>7
  <2>3. QED BY <2>1, <2>2, <1>10 DEF ClientAt
<1>13. QED BY <1>11, <1>12

\* A value is set, or a long string opened.
LEMMA SetsKeeps ==
  ASSUME ClientOK, NEW s \in States, ClientAt(s), nest # <<>>, stage = "open",
         NEW name \in Name \cup {NoName}, NEW v, NEW open \in BOOLEAN,
         IF open THEN \E part \in Part : v = Str(part) ELSE v \in Value,
         Sets(name, v, open),
         NEW t \in States, t.stack = s.stack,
         IF open THEN t.mode = "str" ELSE t.mode \in {"after", "prim"},
         comma_req' = TRUE, stage' = stage
  PROVE  ClientOK' /\ ClientAt(t)'
<1> DEFINE n == Len(doc)
           node == Node(name, v.type, v.val)
<1>1. doc' = Append(doc, node) /\ nest' = nest /\ long' = open
  BY DEF Sets
<1>2. node \in Nodes /\ (open => node.val \in Seq(Char) /\ node.type = "string")
  <2>1. CASE open
    <3>1. PICK part \in Part : v = Str(part)
      BY <2>1
    <3>2. v.type = "string" /\ v.val = part /\ part \in Seq(Char)
      BY <3>1, GenAssumption DEF Str
    <3>3. /\ node = Node(name, "string", part) /\ node.val = part
          /\ node.type = "string"
      BY <3>2 DEF Node
    <3>4. QED BY <3>2, <3>3, NodeIsNode
  <2>2. CASE ~ open
    BY <2>2, NodeIsNode
  <2>3. QED BY <2>1, <2>2
<1> HIDE DEF node
<1>3. /\ doc' \in Seq(Nodes) /\ Len(doc') = n + 1 /\ n \in Nat
      /\ doc'[n + 1] = node /\ \A i \in 1..n : doc'[i] = doc[i]
      /\ doc' # <<>>
  BY <1>1, <1>2, NodeAdded
<1>4. /\ nest \in Seq(1..n) /\ Len(nest) \in Nat
      /\ \A k \in 1..Len(nest) : nest[k] \in 1..n
  BY ElementOfSeq, LenProperties DEF ClientOK
<1>5. nest \in Seq(1..(n + 1))
  <2>1. 1..n \subseteq 1..(n + 1)
    BY <1>3
  <2>2. QED BY <2>1, <1>4, SeqMonotonic
<1>6. ClientOK'
  BY <1>1, <1>2, <1>3, <1>5 DEF ClientOK
<1>7. \A k \in 1..Len(nest') : t.stack[k] = doc'[nest'[k]].type
  BY <1>1, <1>3, <1>4 DEF ClientAt
<1>8. Len(t.stack) = Len(nest')
  BY <1>1 DEF ClientAt
<1>9. ClientAt(t)'
  <2>1. nest' # <<>> /\ comma_req' = TRUE /\ long' = open
    BY <1>1
  <2>2. QED BY <2>1, <1>7, <1>8 DEF ClientAt
<1>10. QED BY <1>6, <1>9


\* Where an element stands and what is told of it.
LEMMA PutIs ==
  ASSUME ClientOK, NEW u, NEW p, Holds(u, doc, nest, p),
         NEW name, NEW t, NEW w, Fronted(u, name, t, w),
         NEW type, NEW val, NEW node, node = Node(name, type, val), NEW text,
         TextAt(node) = text
  PROVE  /\ node.parent \in 0..Len(doc) /\ (Len(doc) = 0 => ~ HasKey(doc, node))
         /\ w.opens = u.opens
         /\ Append(w.told, Thing(Kind(type), Above(t, w), text))
              = Put(doc, u.told, p, node)
<1>1. /\ u \in Stories /\ Len(u.opens) = Len(nest)
      /\ \A k \in 1..Len(nest) : u.opens[k] = p[nest[k]]
  BY DEF Holds, OpenAt
<1>2. /\ u.opens \in Seq(Nat) /\ u.told \in Seq(Things(TextChar)) /\ Len(u.told) \in Nat
  BY <1>1, StoryIs
<1>3. nest \in Seq(1..Len(doc)) /\ Len(nest) \in Nat /\ Len(doc) \in Nat
  BY LenProperties DEF ClientOK
<1>4. nest # <<>> => /\ Top \in 1..Len(doc) /\ Outer(u) = p[Top]
                     /\ node.parent = Top /\ Top # 0
  <2>1. ASSUME nest # <<>> PROVE Len(nest) \in 1..Len(nest) /\ u.opens # <<>>
    <3>1. Len(nest) # 0
      BY <2>1, <1>3, EmptySeq
    <3>2. u.opens # <<>>
      BY <3>1, <1>1, <1>2, EmptySeq
    <3>3. QED BY <3>1, <3>2, <1>3
  <2>2. ASSUME nest # <<>> PROVE Top \in 1..Len(doc)
    BY <2>1, <2>2, <1>3, ElementOfSeq DEF Top
  <2>3. ASSUME nest # <<>> PROVE Outer(u) = p[Top]
    BY <2>1, <2>3, <1>1 DEF Outer, Top
  <2>4. nest # <<>> => node.parent = Top
    BY DEF Node
  <2>5. QED BY <2>2, <2>3, <2>4, <1>3
<1>5. nest = <<>> => Outer(u) = 0 /\ node.parent = 0
  <2>1. ASSUME nest = <<>> PROVE u.opens = <<>>
    BY <2>1, <1>1, <1>2, EmptySeq
  <2>2. nest = <<>> => node.parent = 0
    BY DEF Node
  <2>3. QED BY <2>1, <2>2 DEF Outer
<1>6. Holder(p, node) = Outer(u)
  BY <1>4, <1>5 DEF Holder
<1>7. HasKey(doc, node) <=> nest # <<>> /\ doc[Top].type = "object"
  BY <1>4, <1>5 DEF HasKey
<1>8. node.parent \in 0..Len(doc) /\ (Len(doc) = 0 => ~ HasKey(doc, node))
  BY <1>3, <1>4, <1>5, <1>7
<1>9. node.name = name /\ node.type = type
  BY DEF Node
<1>10. CASE HasKey(doc, node)
  <2> DEFINE key == Thing("string", Outer(u), name)
  <2>1. t.mode = "value" /\ w = Adds(u, key)
    BY <1>7, <1>10 DEF Fronted
  <2> HIDE DEF key
  <2>2. w.opens = u.opens /\ w.told = Append(u.told, key)
    BY <2>1 DEF Adds, Story
  <2>3. Len(Append(u.told, key)) = Len(u.told) + 1
    <3>1. u.told \in Seq(Things(TextChar) \cup {key}) /\ key \in Things(TextChar) \cup {key}
      BY <1>2, SeqMonotonic, Things(TextChar) \subseteq Things(TextChar) \cup {key}
    <3>2. QED BY <3>1, AppendProperties
  <2>4. Above(t, w) = Len(u.told) + 1
    BY <2>1, <2>2, <2>3 DEF Above
  <2>5. Put(doc, u.told, p, node) = Append(Append(u.told, key),
                                           Thing(Kind(type), Len(u.told) + 1, text))
    BY <1>6, <1>9, <1>10 DEF Put, key
  <2>6. QED BY <2>2, <2>4, <2>5, <1>8
<1>11. CASE ~ HasKey(doc, node)
  <2>1. t.mode # "value" /\ w = u
    BY <1>7, <1>11 DEF Fronted
  <2>2. Above(t, w) = Outer(u)
    BY <2>1 DEF Above, Outer
  <2>3. Put(doc, u.told, p, node) = Append(u.told, Thing(Kind(type), Outer(u), text))
    BY <1>6, <1>9, <1>11 DEF Put
  <2>4. QED BY <2>1, <2>2, <2>3, <1>8
<1>12. QED BY <1>10, <1>11

LEMMA HoldsPut ==
  ASSUME ClientOK, NEW u, NEW p, Holds(u, doc, nest, p),
         NEW name, NEW t, NEW w \in Stories, Fronted(u, name, t, w),
         NEW type, NEW val, NEW node, node = Node(name, type, val), NEW text,
         TextAt(node) = text, text \in Seq(TextChar), node \in Nodes, Proper(node),
         doc' = Append(doc, node), NEW thing, thing = Thing(Kind(type), Above(t, w), text)
  PROVE  /\ thing \in Things(TextChar)
         /\ \E p2 : /\ Mirror(doc', Append(w.told, thing), p2)
                    /\ \A n \in 1..Len(doc) : p2[n] = p[n]
                    /\ p2[Len(doc) + 1] = Len(w.told) + 1
<1> DEFINE told2 == Append(w.told, thing)
<1>1. /\ node.parent \in 0..Len(doc) /\ (Len(doc) = 0 => ~ HasKey(doc, node))
      /\ w.opens = u.opens
      /\ Append(w.told, thing) = Put(doc, u.told, p, node)
  BY PutIs
<1>2. thing \in Things(TextChar)
  <2>1. Above(t, w) \in Nat
    BY AboveNat
  <2>2. Kind(type) \in {"object", "array", "string", "primitive"}
    BY DEF Kind, Container
  <2>3. QED BY <2>1, <2>2, ThingsOfText
<1>3. Len(told2) = Len(w.told) + 1
  BY <1>2, StoryIs, AppendProperties
<1> HIDE DEF told2
<1>4. told2 = Put(doc, u.told, p, node)
  BY <1>1 DEF told2
<1> DEFINE p2 == Append(p, Len(told2))
<1>5. /\ Mirror(Append(doc, node), told2, p2)
      /\ \A n \in 1..Len(doc) : p2[n] = p[n]
      /\ p2[Len(doc) + 1] = Len(told2)
  <2>1. Mirror(doc, u.told, p)
    BY DEF Holds
  <2>2. TextAt(node) \in Seq(TextChar)
    OBVIOUS
  <2> DEFINE put == Put(doc, u.told, p, node)
  <2>3. /\ Mirror(Append(doc, node), put, Append(p, Len(put)))
        /\ \A n \in 1..Len(doc) : Append(p, Len(put))[n] = p[n]
        /\ Append(p, Len(put))[Len(doc) + 1] = Len(put)
    <3> HIDE DEF put
    <3>1. Mirrored(doc, u.told, p, node)
      BY <2>1, <2>2, <1>1, MirrorPut
    <3>2. QED BY <3>1 DEF Mirrored, put
  <2>4. put = told2
    BY <1>4
  <2> HIDE DEF put
  <2>5. QED BY <2>3, <2>4
<1> HIDE DEF p2
<1>6. Mirror(doc', told2, p2)
  BY <1>5
<1>7. QED BY <1>2, <1>3, <1>5, <1>6 DEF told2

LEMMA HoldsOpens ==
  ASSUME ClientOK, NEW u, NEW p, Holds(u, doc, nest, p),
         NEW name \in Name \cup {NoName}, NEW t, NEW w \in Stories, Fronted(u, name, t, w),
         NEW type \in Container, Opens(name, type),
         NEW v, v = Enters(w, Thing(type, Above(t, w), <<>>))
  PROVE  \E p2 : Holds(v, doc', nest', p2)
<1> DEFINE node == Node(name, type, <<>>)
           thing == Thing(type, Above(t, w), <<>>)
           n == Len(doc)
           l == Len(nest)
<1>1. doc' = Append(doc, node) /\ nest' = Append(nest, n + 1)
  BY DEF Opens
<1>2. node \in Nodes /\ node.type = type
  BY NodeIsNode DEF Container, Node
<1>3. Kind(type) = type /\ Proper(node) /\ TextAt(node) = <<>> /\ <<>> \in Seq(TextChar)
  BY <1>2, EmptySeq DEF Kind, Proper, TextAt
<1>4. thing = Thing(Kind(type), Above(t, w), <<>>)
  BY <1>3
<1> HIDE DEF thing
<1>5. /\ thing \in Things(TextChar)
      /\ \E p2 : /\ Mirror(doc', Append(w.told, thing), p2)
                 /\ \A k \in 1..n : p2[k] = p[k]
                 /\ p2[n + 1] = Len(w.told) + 1
  <2> HIDE DEF n
  <2> DEFINE same == node
             nil == <<>>
  <2>1. same = Node(name, type, nil) /\ thing = Thing(Kind(type), Above(t, w), nil)
    BY <1>4
  <2>2. nil \in Seq(TextChar) /\ TextAt(same) = nil
    BY <1>3
  <2> HIDE DEF same, nil
  <2>3. same \in Nodes /\ Proper(same) /\ doc' = Append(doc, same)
    BY <1>1, <1>2, <1>3 DEF same
  <2>4. /\ thing \in Things(TextChar)
        /\ \E p2 : /\ Mirror(doc', Append(w.told, thing), p2)
                   /\ \A k \in 1..Len(doc) : p2[k] = p[k]
                   /\ p2[Len(doc) + 1] = Len(w.told) + 1
    BY <2>1, <2>2, <2>3, HoldsPut
  <2>5. QED BY <2>4 DEF n
<1> HIDE DEF node
<1>6. PICK p2 : /\ Mirror(doc', Append(w.told, thing), p2)
                /\ \A k \in 1..n : p2[k] = p[k]
                /\ p2[n + 1] = Len(w.told) + 1
  BY <1>5
<1>7. /\ w.opens = u.opens /\ Len(u.opens) = l /\ \A k \in 1..l : u.opens[k] = p[nest[k]]
  <2>1. w.opens = u.opens
    BY DEF Fronted, Adds, Story
  <2>2. QED BY <2>1 DEF Holds, OpenAt
<1>8. /\ w.opens \in Seq(Nat) /\ w.told \in Seq(Things(TextChar)) /\ Len(w.told) \in Nat
  BY StoryIs
<1>9. /\ nest \in Seq(1..n) /\ l \in Nat /\ n \in Nat
      /\ \A k \in 1..l : nest[k] \in 1..n
  BY ElementOfSeq, LenProperties DEF ClientOK
<1> DEFINE last2 == Len(w.told) + 1
           opens2 == Append(w.opens, last2)
           told2 == Append(w.told, thing)
<1>10. v = Story(opens2, told2)
  BY DEF Enters, thing
<1>11. /\ opens2 \in Seq(Nat) /\ Len(opens2) = l + 1 /\ opens2[l + 1] = last2
       /\ \A k \in 1..l : opens2[k] = w.opens[k]
  <2>1. last2 \in Nat
    BY <1>8
  <2> HIDE DEF last2
  <2>2. QED BY <2>1, <1>7, <1>8, AppendProperties
<1>12. told2 \in Seq(Things(TextChar))
  BY <1>5, <1>8, AppendProperties
<1> HIDE DEF opens2, told2, last2
<1>13. v \in Stories /\ v.opens = opens2 /\ v.told = told2
  BY <1>10, <1>11, <1>12 DEF Stories, Story
<1>14. /\ Len(nest') = l + 1 /\ nest'[l + 1] = n + 1
       /\ \A k \in 1..l : nest'[k] = nest[k]
  <2>1. nest \in Seq(Nat) /\ n + 1 \in Nat
    <3>1. 1..n \subseteq Nat
      BY <1>9
    <3>2. QED BY <3>1, <1>9, SeqMonotonic
  <2>2. QED BY <2>1, <1>1, AppendProperties
<1>15. \A k \in 1..(l + 1) : opens2[k] = p2[nest'[k]]
  <2>1. ASSUME NEW k \in 1..l PROVE opens2[k] = p2[nest'[k]]
    <3>1. nest'[k] \in 1..n /\ opens2[k] = p[nest'[k]]
      BY <1>7, <1>9, <1>11, <1>14
    <3>2. QED BY <3>1, <1>6
  <2>2. opens2[l + 1] = p2[nest'[l + 1]]
    BY <1>6, <1>11, <1>14 DEF last2
  <2>3. \A k \in 1..(l + 1) : k \in 1..l \/ k = l + 1
    BY <1>9
  <2>4. QED BY <2>1, <2>2, <2>3
<1>16. OpenAt(v, nest', p2)
  BY <1>11, <1>13, <1>14, <1>15 DEF OpenAt
<1>17. Mirror(doc', v.told, p2)
  BY <1>6, <1>13 DEF told2
<1>18. QED BY <1>13, <1>16, <1>17 DEF Holds

LEMMA HoldsSets ==
  ASSUME ClientOK, NEW u, NEW p, Holds(u, doc, nest, p),
         NEW name \in Name \cup {NoName}, NEW t, NEW w \in Stories, Fronted(u, name, t, w),
         NEW v, NEW open \in BOOLEAN, Sets(name, v, open),
         v \in Value \/ (\E part \in Part : v = Str(part)),
         NEW z, z = Adds(w, IF v.type = "string" THEN Thing("string", Above(t, w), v.val)
                            ELSE Thing("primitive", Above(t, w), Word(v)))
  PROVE  \E p2 : Holds(z, doc', nest', p2)
<1> DEFINE node == Node(name, v.type, v.val)
           text == TextAt(node)
           thing == Thing(Kind(v.type), Above(t, w), text)
           n == Len(doc)
<1>1. doc' = Append(doc, node) /\ nest' = nest
  BY DEF Sets
<1>2. node.type = v.type /\ node.val = v.val
  BY DEF Node
<1>3. node \in Nodes
  <2>1. ASSUME NEW part \in Part, v = Str(part)
        PROVE  v.type = "string" /\ v.val = part
    BY <2>1 DEF Str
  <2>2. ASSUME NEW part \in Part, v = Str(part)
        PROVE  node \in Nodes
    <3>1. node = Node(name, "string", part)
      BY <2>1, <2>2
    <3>2. QED BY <3>1, NodeIsNode
  <2>3. v \in Value => node \in Nodes
    BY NodeIsNode
  <2>4. QED BY <2>2, <2>3
<1>4. v.type \notin Container /\ Proper(node)
  <2>1. CASE v \in Value
    <3>1. v.type \in {"bool", "int", "float", "null", "string"}
      BY <2>1, WordAssumption
    <3>2. v.type \notin Container
      BY <3>1 DEF Container
    <3>3. QED BY <3>2, <2>1, <1>2 DEF Proper
  <2>2. ASSUME NEW part \in Part, v = Str(part) PROVE v.type = "string"
    BY <2>2 DEF Str
  <2>3. QED BY <2>1, <2>2, <1>2 DEF Proper, Container
<1>5. text = IF v.type = "string" THEN v.val ELSE Word(v)
  <2>1. Word(node) = Word(v)
    BY <1>2 DEF Word
  <2>2. QED BY <2>1, <1>2, <1>4 DEF TextAt
<1>6. text \in Seq(TextChar)
  <2>1. ASSUME NEW part \in Part, v = Str(part) PROVE v.type = "string" /\ v.val = part
    BY <2>1 DEF Str
  <2>2. QED BY <2>1, <1>5, NoMarkInside
<1>7. z = Adds(w, thing)
  <2>1. Kind(v.type) = IF v.type = "string" THEN "string" ELSE "primitive"
    BY <1>4 DEF Kind
  <2>2. QED BY <2>1, <1>5
<1> HIDE DEF text
<1>8. /\ thing \in Things(TextChar)
      /\ \E p2 : /\ Mirror(doc', Append(w.told, thing), p2)
                 /\ \A k \in 1..n : p2[k] = p[k]
                 /\ p2[n + 1] = Len(w.told) + 1
  <2> HIDE DEF n
  <2> DEFINE same == node
             one == thing
             type == v.type
             val == v.val
  <2>1. same = Node(name, type, val) /\ one = Thing(Kind(type), Above(t, w), text)
    OBVIOUS
  <2> HIDE DEF same, one, type, val
  <2>2. TextAt(same) = text /\ same \in Nodes /\ Proper(same) /\ doc' = Append(doc, same)
    BY <1>1, <1>3, <1>4 DEF same, text
  <2>3. /\ one \in Things(TextChar)
        /\ \E p2 : /\ Mirror(doc', Append(w.told, one), p2)
                   /\ \A k \in 1..Len(doc) : p2[k] = p[k]
                   /\ p2[Len(doc) + 1] = Len(w.told) + 1
    BY <2>1, <2>2, <1>6, HoldsPut
  <2>4. QED BY <2>3 DEF one, n
<1> HIDE DEF node, thing
<1>9. PICK p2 : /\ Mirror(doc', Append(w.told, thing), p2)
                /\ \A k \in 1..n : p2[k] = p[k]
  BY <1>8
<1>10. w.opens = u.opens
  BY DEF Fronted, Adds, Story
<1>11. z \in Stories /\ z.opens = w.opens /\ z.told = Append(w.told, thing)
  BY <1>7, <1>8, StoryGrows
<1>12. OpenAt(z, nest', p2)
  <2>1. \A k \in 1..Len(nest) : nest[k] \in 1..n
    BY ElementOfSeq DEF ClientOK
  <2>2. Len(u.opens) = Len(nest) /\ \A k \in 1..Len(nest) : u.opens[k] = p[nest[k]]
    BY DEF Holds, OpenAt
  <2>3. QED BY <2>1, <2>2, <1>1, <1>9, <1>10, <1>11 DEF OpenAt
<1>13. Mirror(doc', z.told, p2)
  BY <1>9, <1>11
<1>14. QED BY <1>11, <1>12, <1>13 DEF Holds

\* All but the last of a sequence.
LEMMA AllButLast ==
  ASSUME NEW S, NEW q \in Seq(S), q # <<>>
  PROVE  /\ SubSeq(q, 1, Len(q) - 1) \in Seq(S)
         /\ Len(SubSeq(q, 1, Len(q) - 1)) = Len(q) - 1
         /\ \A k \in 1..(Len(q) - 1) : SubSeq(q, 1, Len(q) - 1)[k] = q[k]
<1> DEFINE d == Len(q)
<1>1. d \in Nat /\ d # 0 /\ \A k \in 1..d : q[k] \in S
  BY EmptySeq, LenProperties, ElementOfSeq
<1>2. 1 \in Int /\ d - 1 \in Int /\ \A k \in 1..(d - 1) : q[k] \in S
  BY <1>1
<1>3. /\ SubSeq(q, 1, d - 1) \in Seq(S)
      /\ Len(SubSeq(q, 1, d - 1)) = IF 1 <= d - 1 THEN (d - 1) - 1 + 1 ELSE 0
      /\ \A k \in 1..(d - 1 - 1 + 1) : SubSeq(q, 1, d - 1)[k] = q[1 + k - 1]
  BY <1>2, SubSeqProperties
<1>4. \A e \in Nat : e # 0 => /\ (IF 1 <= e - 1 THEN (e - 1) - 1 + 1 ELSE 0) = e - 1
                              /\ e - 1 - 1 + 1 = e - 1
  OBVIOUS
<1>5. \A k \in 1..(d - 1) : 1 + k - 1 = k
  BY <1>1
<1>6. Len(SubSeq(q, 1, d - 1)) = d - 1
  <2> HIDE DEF d
  <2>1. QED BY <1>1, <1>3, <1>4
<1>7. \A k \in 1..(d - 1) : SubSeq(q, 1, d - 1)[k] = q[k]
  <2> HIDE DEF d
  <2>1. d - 1 - 1 + 1 = d - 1
    BY <1>1, <1>4
  <2>2. QED BY <2>1, <1>3, <1>5
<1>8. QED BY <1>3, <1>6, <1>7

LEMMA LastApart ==
  ASSUME NEW S, NEW q \in Seq(S), q # <<>>
  PROVE  /\ SubSeq(q, 1, Len(q) - 1) \in Seq(S) /\ q[Len(q)] \in S
         /\ q = Append(SubSeq(q, 1, Len(q) - 1), q[Len(q)])
<1> DEFINE d == Len(q)
           base == SubSeq(q, 1, Len(q) - 1)
           x == q[Len(q)]
<1>1. d \in Nat /\ d # 0 /\ \A k \in 1..d : q[k] \in S
  BY EmptySeq, LenProperties, ElementOfSeq
<1>2. /\ base \in Seq(S) /\ Len(base) = d - 1 /\ \A k \in 1..(d - 1) : base[k] = q[k]
  BY AllButLast
<1>3. x \in S /\ x = q[d]
  BY <1>1
<1> HIDE DEF base, x
<1>4. /\ Append(base, x) \in Seq(S) /\ Len(Append(base, x)) = (d - 1) + 1
      /\ Append(base, x)[(d - 1) + 1] = x
      /\ \A k \in 1..(d - 1) : Append(base, x)[k] = base[k]
  BY <1>2, <1>3, AppendProperties
<1> DEFINE long2 == Append(base, x)
<1>5. /\ long2 \in Seq(S) /\ Len(long2) = d /\ long2[d] = x
      /\ \A k \in 1..(d - 1) : long2[k] = base[k]
  <2>1. (d - 1) + 1 = d
    BY <1>1
  <2>2. QED BY <2>1, <1>4
<1> HIDE DEF long2
<1>6. \A k \in 1..d : k = d \/ k \in 1..(d - 1)
  BY <1>1
<1>7. \A k \in 1..d : long2[k] = q[k]
  BY <1>2, <1>3, <1>5, <1>6
<1>8. long2 = q
  BY <1>5, <1>7, SeqEqual
<1>9. QED BY <1>2, <1>3, <1>8 DEF base, x, long2

LEMMA FrontedStory ==
  ASSUME NEW u \in Stories, NEW name \in Name \cup {NoName}, NEW t, NEW w,
         Fronted(u, name, t, w)
  PROVE  w \in Stories
<1>1. Outer(u) \in Nat
  <2>1. u.opens \in Seq(Nat) /\ Len(u.opens) \in Nat
    BY StoryIs
  <2>2. ASSUME u.opens # <<>> PROVE u.opens[Len(u.opens)] \in Nat
    BY <2>1, <2>2, LastApart
  <2>3. QED BY <2>2 DEF Outer
<1>2. name \in Seq(TextChar)
  <2>1. NoName \in Seq(TextChar)
    BY EmptySeq DEF NoName
  <2>2. QED BY <2>1, NoMarkInside
<1> DEFINE thing == Thing("string", Outer(u), name)
<1>3. thing \in Things(TextChar)
  BY <1>1, <1>2, ThingsOfText
<1> HIDE DEF thing
<1>4. Adds(u, thing) \in Stories
  BY <1>3, StoryGrows
<1>5. QED BY <1>4 DEF Fronted, thing

\* More of a long string, or its end.
LEMMA LongKeeps ==
  ASSUME ClientOK, GenInv, Written, MoreOfLong
  PROVE  ClientOK' /\ Written'
<1>1. /\ long /\ nest # <<>> /\ comma_req /\ doc \in Seq(Nodes)
      /\ nest \in Seq(1..Len(doc)) /\ doc[Len(doc)].val \in Seq(Char)
      /\ doc[Len(doc)].type = "string" /\ Len(doc) \in Nat /\ nest' = nest
  BY LenProperties DEF MoreOfLong, ClientOK
<1>2. doc # <<>> /\ Len(doc) \in 1..Len(doc)
  <2>1. doc # <<>>
    BY <1>1 DEF ClientOK
  <2>2. Len(doc) # 0
    BY <2>1, <1>1, EmptySeq
  <2>3. QED BY <2>1, <2>2, <1>1
<1>3. PICK s, u, p : /\ Writes(Beginning, NoTale, asked, s, u)
                     /\ ClientAt(s) /\ Holds(u, doc, nest, p)
  BY DEF Written
<1>4. s \in Inner /\ s.mode = "str"
  BY <1>1, <1>3 DEF ClientAt, Writes, Inner
<1>5. Writes(s, u, <<>>, s, u)
  BY <1>4, WritesNothing DEF Inner
<1>6. ASSUME NEW part \in Part, json_add_to_long_string(part),
             doc' = [doc EXCEPT ![Len(doc)].val = @ \o part], long' = long
      PROVE  ClientOK' /\ Written'
  <2> DEFINE n == Len(doc)
             node == [doc[n] EXCEPT !.val = @ \o part]
             told == u.told
             base == SubSeq(told, 1, Len(told) - 1)
             x == told[Len(told)]
             told2 == Append(base, On(x, part))
             v == Story(u.opens, told2)
  <2>1. /\ base \in Seq(Things(TextChar)) /\ x \in Things(TextChar)
        /\ told = Append(base, x)
    <3>1. Mirror(doc, told, p) /\ told \in Seq(Things(TextChar))
      BY <1>3 DEF Holds, Mirror
    <3>2. told # <<>>
      <4>1. Mirrors(doc, told, p, n)
        BY <3>1, <1>2 DEF Mirror
      <4>2. p[n] \in 1..Len(told)
        BY <4>1 DEF Mirrors
      <4>3. QED BY <4>2
    <3> HIDE DEF told
    <3>3. QED BY <3>1, <3>2, LastApart
  <2> HIDE DEF base, x
  <2>2. /\ doc[n] \in Nodes
    BY <1>1, <1>2, ElementOfSeq
  <2>3. doc[n].val \o part \in Seq(Char)
    BY <1>1, ConcatProperties, GenAssumption
  <2>4. /\ node \in Nodes /\ node.type = doc[n].type /\ node.parent = doc[n].parent
        /\ node.name = doc[n].name /\ node.val = doc[n].val \o part
    <3> DEFINE val == doc[n].val \o part
    <3>1. node = [doc[n] EXCEPT !.val = val]
      OBVIOUS
    <3>2. val \in Seq(Char)
      BY <2>3
    <3> HIDE DEF val, node
    <3>3. QED BY <3>1, <3>2, <2>2 DEF Nodes, val
  <2>5. doc' = [doc EXCEPT ![n] = node]
    BY <1>6
  <2> HIDE DEF node
  <2>6. /\ doc' \in Seq(Nodes) /\ Len(doc') = n
        /\ \A i \in 1..n : doc'[i] = IF i = n THEN node ELSE doc[i]
    BY <2>4, <2>5, <1>1, <1>2, ExceptSeq
  <2>7. doc' # <<>>
    BY <2>6, <1>2, EmptySeq
  <2>8. Writes(s, u, part, s, v)
    <3>1. u = Story(u.opens, Append(base, x))
      BY <2>1, <1>3, StoryIs DEF Holds
    <3>2. part \in Seq(TextChar) /\ \A i \in 1..Len(part) : part[i] # Mark
      BY <1>6, NoMarkInside
    <3> DEFINE opens == u.opens
    <3> HIDE DEF opens
    <3>3. Writes(s, Story(opens, Append(base, x)), part, s,
                 Story(opens, Append(base, On(x, part))))
      BY <3>2, <2>1, <1>4, WritesInside
    <3>4. QED BY <3>1, <3>3 DEF opens
  <2>9. Mirror(doc', told2, p)
    <3>1. Mirror(doc, Append(base, x), p)
      BY <2>1, <1>3 DEF Holds
    <3>2. part \in Seq(TextChar) /\ n # 0 /\ doc' \in Seq(Nodes) /\ Len(doc') = n
      BY <1>2, <1>6, <2>6, NoMarkInside
    <3>3. \A i \in 1..(n - 1) : doc'[i] = doc[i]
      <4>1. \A i \in 1..(n - 1) : i \in 1..n /\ i # n
        BY <1>1
      <4>2. QED BY <4>1, <2>6
    <3>4. doc'[n] = node
      BY <2>6, <1>2
    <3>5. /\ doc[n].type = "string" /\ doc'[n].type = "string"
          /\ doc'[n].parent = doc[n].parent /\ doc'[n].name = doc[n].name
          /\ doc'[n].val = doc[n].val \o part
      BY <3>4, <2>4, <1>1
    <3> DEFINE d2 == doc'
    <3> HIDE DEF d2
    <3>6. /\ d2 \in Seq(Nodes) /\ Len(d2) = n /\ d2[n].type = "string"
          /\ d2[n].parent = doc[n].parent /\ d2[n].name = doc[n].name
          /\ d2[n].val = doc[n].val \o part
          /\ \A i \in 1..(n - 1) : d2[i] = doc[i]
      BY <3>2, <3>3, <3>5 DEF d2
    <3>7. Mirror(d2, Append(base, On(x, part)), p)
      BY <3>1, <3>2, <3>5, <3>6, <2>1, MirrorLonger
    <3>8. QED BY <3>7 DEF d2
  <2> HIDE DEF told2
  <2>10. Holds(v, doc', nest', p)
    <3>1. v.opens = u.opens /\ v.told = told2
      BY DEF Story
    <3>2. v \in Stories
      <4>1. u.opens \in Seq(Nat) /\ told2 \in Seq(Things(TextChar))
        BY <2>9, <1>3, StoryIs DEF Holds, Mirror
      <4>2. QED BY <4>1 DEF Stories
    <3> HIDE DEF v
    <3>3. OpenAt(v, nest', p)
      BY <3>1, <1>1, <1>3 DEF Holds, OpenAt
    <3>4. QED BY <3>1, <3>2, <3>3, <2>9 DEF Holds
  <2> HIDE DEF v
  <2>11. /\ Writes(Beginning, NoTale, asked', s, v) /\ comma_req' = comma_req
         /\ stage' = stage /\ stage = "open"
    BY <1>3, <1>5, <1>6, <2>8, CallWrites DEF json_add_to_long_string
  <2>12. ClientOK'
    <3>1. doc'[Len(doc')].val \in Seq(Char) /\ doc'[Len(doc')].type = "string"
      BY <2>3, <2>4, <2>6, <1>1, <1>2
    <3>2. nest' \in Seq(1..Len(doc')) /\ nest' # <<>> /\ long' \in BOOLEAN
      BY <2>6, <1>1, <1>6
    <3>3. comma_req' /\ stage' = "open"
      BY <2>11, <1>1
    <3>4. QED BY <3>1, <3>2, <3>3, <2>6, <2>7 DEF ClientOK
  <2>13. ClientAt(s)'
    <3>1. \A k \in 1..Len(nest) : nest[k] \in 1..n
      BY <1>1, ElementOfSeq
    <3>2. \A i \in 1..n : doc'[i].type = doc[i].type
      BY <2>4, <2>6
    <3>3. \A k \in 1..Len(nest') : s.stack[k] = doc'[nest'[k]].type
      BY <3>1, <3>2, <1>1, <1>3 DEF ClientAt
    <3>4. QED BY <3>3, <1>1, <1>3, <1>4, <1>6 DEF ClientAt
  <2>14. QED BY <2>10, <2>11, <2>12, <2>13 DEF Written
<1>7. ASSUME json_end_long_string, long' = FALSE, doc' = doc
      PROVE  ClientOK' /\ Written'
  <2> DEFINE t == To(s, "after")
  <2>1. Writes(s, u, Quote, t, u) /\ t.mode = "after" /\ t.stack = s.stack
    BY <1>4, WritesMark, InnerStates DEF Modes
  <2> HIDE DEF t
  <2>2. /\ Writes(Beginning, NoTale, asked', t, u) /\ comma_req' = comma_req
        /\ stage' = stage /\ stage = "open"
    BY <1>3, <1>5, <1>7, <2>1, CallWrites DEF json_end_long_string
  <2>3. ClientOK'
    BY <2>2, <1>1, <1>7 DEF ClientOK
  <2>4. ClientAt(t)'
    BY <2>1, <2>2, <1>1, <1>3, <1>7 DEF ClientAt
  <2>5. Holds(u, doc', nest', p)
    BY <1>1, <1>3, <1>7
  <2>6. QED BY <2>2, <2>3, <2>4, <2>5 DEF Written
<1>8. QED BY <1>6, <1>7 DEF MoreOfLong

\* An element is opened, set, or opened as a long string, after the text in
\* front of it.
LEMMA OpenCall ==
  ASSUME ClientOK, NEW s, NEW u, Writes(Beginning, NoTale, asked, s, u), ClientAt(s),
         NEW p, Holds(u, doc, nest, p), ~ long,
         NEW front, NEW t, NEW w, Writes(s, u, front, t, w), t.stack = s.stack,
         t.mode = "start" \/ (t \in Inner /\ WantsValue(t)),
         NEW c \in Opening, Call(front, <<c>>, FALSE),
         NEW name \in Name \cup {NoName}, Opens(name, TypeOf(c)), Fronted(u, name, t, w)
  PROVE  ClientOK' /\ Written'
<1> DEFINE z == Opened(t, c)
           v == Enters(w, Thing(TypeOf(c), Above(t, w), <<>>))
<1>1. t \in States /\ s \in States /\ u \in Stories
  BY DEF Writes, Holds
<1>2. Writes(t, w, <<c>>, z, v) /\ z.mode = "first" /\ z.stack = Append(s.stack, TypeOf(c))
  BY <1>1, WritesBracket
<1>3. \E p2 : Holds(v, doc', nest', p2)
  <2>1. w \in Stories
    BY <1>1, FrontedStory
  <2> DEFINE type == TypeOf(c)
  <2>2. type \in Container
    BY DEF TypeOf, Container
  <2>3. Opens(name, type) /\ v = Enters(w, Thing(type, Above(t, w), <<>>))
    OBVIOUS
  <2> HIDE DEF type, v
  <2>4. QED BY <2>1, <2>2, <2>3, HoldsOpens
<1> HIDE DEF z, v
<1>4. z \in States
  BY <1>2 DEF Writes
<1>5. /\ Writes(Beginning, NoTale, asked', z, v)
      /\ comma_req' = FALSE /\ stage' = stage /\ stage = "open"
  BY <1>2, CallWrites
<1>6. ClientOK' /\ ClientAt(z)'
  BY <1>1, <1>2, <1>4, <1>5, OpensKeeps
<1>7. QED BY <1>3, <1>5, <1>6 DEF Written

LEMMA SetCall ==
  ASSUME ClientOK, NEW s, NEW u, Writes(Beginning, NoTale, asked, s, u), ClientAt(s),
         NEW p, Holds(u, doc, nest, p), nest # <<>>,
         NEW front, NEW t \in Inner, NEW w, Writes(s, u, front, t, w), t.stack = s.stack,
         WantsValue(t), NEW v \in Value, SetAfter(front, v),
         NEW name \in Name \cup {NoName}, Sets(name, v, FALSE), Fronted(u, name, t, w)
  PROVE  ClientOK' /\ Written'
<1>1. w \in Stories
  BY FrontedStory DEF Holds
<1> DEFINE x == Adds(w, IF v.type = "string" THEN Thing("string", Above(t, w), v.val)
                        ELSE Thing("primitive", Above(t, w), Word(v)))
<1>2. PICK z \in Inner : /\ Writes(Beginning, NoTale, asked', z, x)
                         /\ z.mode \in {"after", "prim"} /\ z.stack = t.stack
                         /\ comma_req' = TRUE /\ stage' = stage /\ stage = "open"
  BY <1>1, WritesValue
<1>3. \E p2 : Holds(x, doc', nest', p2)
  BY <1>1, HoldsSets
<1> HIDE DEF x
<1>4. s \in States /\ z \in States
  BY <1>2 DEF Writes
<1>5. ClientOK' /\ ClientAt(z)'
  BY <1>2, <1>4, SetsKeeps
<1>6. QED BY <1>2, <1>3, <1>5 DEF Written

LEMMA LongCall ==
  ASSUME ClientOK, NEW s, NEW u, Writes(Beginning, NoTale, asked, s, u), ClientAt(s),
         NEW p, Holds(u, doc, nest, p), nest # <<>>,
         NEW front, NEW t \in Inner, NEW w, Writes(s, u, front, t, w), t.stack = s.stack,
         WantsValue(t), NEW part \in Part, Call(front \o Quote, part, TRUE),
         NEW name \in Name \cup {NoName}, Sets(name, Str(part), TRUE),
         Fronted(u, name, t, w)
  PROVE  ClientOK' /\ Written'
<1> DEFINE z == To(t, "str")
           a == Above(t, w)
           v == Adds(w, Thing("string", a, <<>>))
           x == Adds(w, Thing("string", a, part))
<1>1. w \in Stories
  BY FrontedStory DEF Holds
<1>2. z \in Inner /\ z.mode = "str" /\ z.stack = s.stack /\ a \in Nat
  BY <1>1, InnerStates, AboveNat DEF Modes
<1>3. Writes(t, w, Quote, z, v)
  BY WritesMark
<1>4. Writes(z, v, part, z, x)
  <2> HIDE DEF z, a
  <2>1. QED BY <1>1, <1>2, NoMarkInside, WritesText
<1>5. \E p2 : Holds(x, doc', nest', p2)
  <2> DEFINE st == Str(part)
  <2>1. st.type = "string" /\ st.val = part
    BY DEF Str
  <2>2. st = Str(part)
    OBVIOUS
  <2> HIDE DEF st
  <2>3. x = Adds(w, IF st.type = "string" THEN Thing("string", Above(t, w), st.val)
                    ELSE Thing("primitive", Above(t, w), Word(st)))
    BY <2>1
  <2> HIDE DEF x
  <2>4. TRUE \in BOOLEAN /\ Sets(name, st, TRUE) /\ \E q \in Part : st = Str(q)
    BY <2>2
  <2>5. QED BY <2>3, <2>4, <1>1, HoldsSets
<1> HIDE DEF z, v, x
<1>6. Writes(s, u, front \o Quote, z, v)
  BY <1>3, WritesMore
<1>7. /\ Writes(Beginning, NoTale, asked', z, x)
      /\ comma_req' = TRUE /\ stage' = stage /\ stage = "open"
  BY <1>4, <1>6, CallWrites
<1>8. s \in States /\ z \in States
  BY <1>7 DEF Writes
<1>9. ClientOK' /\ ClientAt(z)'
  BY <1>2, <1>7, <1>8, SetsKeeps
<1>10. QED BY <1>5, <1>7, <1>9 DEF Written

LEMMA Brackets ==
  /\ "{" \in Opening /\ TypeOf("{") = "object" /\ "[" \in Opening /\ TypeOf("[") = "array"
  /\ "}" \in Closing /\ TypeOf("}") = "object" /\ "]" \in Closing /\ TypeOf("]") = "array"
BY DEF Opening, Closing, TypeOf

LEMMA RootKeeps ==
  ASSUME ClientOK, Written, Root
  PROVE  ClientOK' /\ Written'
<1>1. stage = "open" /\ doc = <<>> /\ nest = <<>> /\ ~ comma_req /\ ~ long
  BY DEF Root, Building, ClientOK
<1>2. PICK s, u, p : /\ Writes(Beginning, NoTale, asked, s, u)
                     /\ ClientAt(s) /\ Holds(u, doc, nest, p)
  BY DEF Written
<1>3. s \in States /\ s.mode = "start"
  BY <1>1, <1>2 DEF ClientAt, Writes
<1>4. /\ json_handle_comma = <<>> /\ Writes(s, u, <<>>, s, u)
      /\ Fronted(u, NoName, s, u)
  BY <1>1, <1>3, WritesNothing DEF json_handle_comma, Fronted
<1>5. CASE json_start_object /\ Opens(NoName, "object")
  <2>1. Call(<<>>, <<"{">>, FALSE)
    BY <1>4, <1>5 DEF json_start_object
  <2>2. QED BY <2>1, <1>1, <1>2, <1>3, <1>4, <1>5, Brackets, OpenCall
<1>6. CASE json_start_array /\ Opens(NoName, "array")
  <2>1. Call(<<>>, <<"[">>, FALSE)
    BY <1>4, <1>6 DEF json_start_array
  <2>2. QED BY <2>1, <1>1, <1>2, <1>3, <1>4, <1>6, Brackets, OpenCall
<1>7. QED BY <1>5, <1>6 DEF Root

LEMMA ObjectKeeps ==
  ASSUME ClientOK, Written, AddToObject
  PROVE  ClientOK' /\ Written'
<1>1. ~ long /\ nest # <<>> /\ doc[Top].type = "object"
  BY DEF AddToObject, InObject
<1>2. PICK s, u, p : /\ Writes(Beginning, NoTale, asked, s, u)
                     /\ ClientAt(s) /\ Holds(u, doc, nest, p)
  BY DEF Written
<1>3. s \in States /\ u \in Stories
  BY <1>2 DEF Writes, Holds
<1>4. PICK name \in Name :
         \/ json_push_object(name) /\ Opens(name, "object")
         \/ json_push_array(name) /\ Opens(name, "array")
         \/ \E v \in Value : json_obj_set(name, v) /\ Sets(name, v, FALSE)
         \/ \E part \in Part :
              json_obj_start_long_string(name, part) /\ Sets(name, Str(part), TRUE)
  BY DEF AddToObject
<1> DEFINE front == json_handle_comma \o json_handle_name(name)
<1>5. PICK t, w : /\ t \in Inner /\ Writes(s, u, front, t, w) /\ WantsValue(t)
                  /\ t.stack = s.stack /\ Fronted(u, name, t, w)
  BY <1>1, <1>2, <1>3, WritesBefore
<1>6. CASE json_push_object(name) /\ Opens(name, "object")
  <2>1. Call(front, <<"{">>, FALSE)
    BY <1>6 DEF json_push_object
  <2> HIDE DEF front
  <2>2. QED BY <2>1, <1>1, <1>2, <1>5, <1>6, Brackets, OpenCall
<1>7. CASE json_push_array(name) /\ Opens(name, "array")
  <2>1. Call(front, <<"[">>, FALSE)
    BY <1>7 DEF json_push_array
  <2> HIDE DEF front
  <2>2. QED BY <2>1, <1>1, <1>2, <1>5, <1>7, Brackets, OpenCall
<1>8. ASSUME NEW v \in Value, json_obj_set(name, v), Sets(name, v, FALSE)
      PROVE  ClientOK' /\ Written'
  <2>1. SetAfter(front, v)
    BY <1>8 DEF json_obj_set
  <2> HIDE DEF front
  <2>2. QED BY <2>1, <1>1, <1>2, <1>5, <1>8, SetCall
<1>9. ASSUME NEW part \in Part, json_obj_start_long_string(name, part),
             Sets(name, Str(part), TRUE)
      PROVE  ClientOK' /\ Written'
  <2>1. Call(front \o Quote, part, TRUE)
    BY <1>9 DEF json_obj_start_long_string
  <2> HIDE DEF front
  <2>2. QED BY <2>1, <1>1, <1>2, <1>5, <1>9, LongCall
<1>10. QED BY <1>4, <1>6, <1>7, <1>8, <1>9

LEMMA ArrayKeeps ==
  ASSUME ClientOK, Written, AddToArray
  PROVE  ClientOK' /\ Written'
<1>1. ~ long /\ nest # <<>> /\ doc[Top].type = "array"
  BY DEF AddToArray, InArray
<1>2. PICK s, u, p : /\ Writes(Beginning, NoTale, asked, s, u)
                     /\ ClientAt(s) /\ Holds(u, doc, nest, p)
  BY DEF Written
<1>3. s \in States /\ u \in Stories
  BY <1>2 DEF Writes, Holds
<1>4. PICK t, w : /\ t \in Inner /\ Writes(s, u, json_handle_comma, t, w) /\ WantsValue(t)
                  /\ t.stack = s.stack /\ Fronted(u, NoName, t, w)
  BY <1>1, <1>2, <1>3, WritesBefore
<1>5. CASE json_start_object /\ Opens(NoName, "object")
  <2>1. Call(json_handle_comma, <<"{">>, FALSE)
    BY <1>5 DEF json_start_object
  <2>2. QED BY <2>1, <1>1, <1>2, <1>4, <1>5, Brackets, OpenCall
<1>6. CASE json_start_array /\ Opens(NoName, "array")
  <2>1. Call(json_handle_comma, <<"[">>, FALSE)
    BY <1>6 DEF json_start_array
  <2>2. QED BY <2>1, <1>1, <1>2, <1>4, <1>6, Brackets, OpenCall
<1>7. ASSUME NEW v \in Value, json_arr_set(v), Sets(NoName, v, FALSE)
      PROVE  ClientOK' /\ Written'
  <2>1. SetAfter(json_handle_comma, v)
    BY <1>7 DEF json_arr_set
  <2>2. QED BY <2>1, <1>1, <1>2, <1>4, <1>7, SetCall
<1>8. ASSUME NEW part \in Part, json_arr_start_long_string(part),
             Sets(NoName, Str(part), TRUE)
      PROVE  ClientOK' /\ Written'
  <2>1. Call(json_handle_comma \o Quote, part, TRUE)
    BY <1>8 DEF json_arr_start_long_string
  <2>2. QED BY <2>1, <1>1, <1>2, <1>4, <1>8, LongCall
<1>9. QED BY <1>5, <1>6, <1>7, <1>8 DEF AddToArray

\* The innermost object or array is closed.
LEMMA CloseKeeps ==
  ASSUME ClientOK, Written, Close
  PROVE  ClientOK' /\ Written'
<1>1. /\ ~ long /\ nest # <<>> /\ stage = "open"
      /\ nest' = Front(nest) /\ doc' = doc /\ long' = long
  BY DEF Close, InObject, InArray, Building
<1>2. PICK s, u, p : /\ Writes(Beginning, NoTale, asked, s, u)
                     /\ ClientAt(s) /\ Holds(u, doc, nest, p)
  BY DEF Written
<1>3. /\ s \in Inner /\ Topmost(s) = doc[Top].type
      /\ s.mode \in {"first", "after", "prim"}
  <2>1. s \in States
    BY <1>2 DEF Writes
  <2>2. /\ s \in Inner /\ Topmost(s) = doc[Top].type
        /\ s.mode \in IF comma_req THEN {"after", "prim"} ELSE {"first"}
    BY <2>1, <1>1, <1>2, ClientInside
  <2>3. QED BY <2>2
<1>4. PICK c \in Closing : TypeOf(c) = doc[Top].type /\ Call(<<>>, <<c>>, TRUE)
  BY Brackets DEF Close, InObject, InArray, json_pop_object, json_pop_array,
                  json_end_object, json_end_array
<1> DEFINE z == Closed(s)
           d == Len(nest)
           v == Leaves(u)
<1>5. z \in States
  BY <1>3, InnerStates
<1>6. Writes(s, u, <<c>>, z, v)
  <2>1. Reads(s, c, z)
    BY <1>3, <1>4 DEF Reads
  <2>2. c \in TextChar
    BY CharsOfText DEF Closing
  <2>3. Tell(s, u, c) = v
    <3>1. c \notin Opening
      BY <1>4 DEF Opening, Closing
    <3>2. QED BY <3>1, <1>3, <1>4 DEF Tell
  <2> HIDE DEF z, v
  <2>4. QED BY <2>1, <2>2, <2>3, <1>3, <1>5, WritesOne DEF Inner
<1>7. Writes(s, u, <<>>, s, u)
  BY <1>3, WritesNothing DEF Inner
<1>8. /\ Writes(Beginning, NoTale, asked', z, v)
      /\ comma_req' = TRUE /\ stage' = stage
  <2> HIDE DEF z, v
  <2>1. QED BY <1>2, <1>4, <1>6, <1>7, CallWrites
<1>9. /\ d \in Nat /\ d # 0 /\ nest \in Seq(1..Len(doc))
      /\ \A k \in 1..d : nest[k] \in 1..Len(doc)
  BY <1>1, EmptySeq, LenProperties, ElementOfSeq DEF ClientOK
<1>10. /\ nest' \in Seq(1..Len(doc)) /\ Len(nest') = d - 1
       /\ \A k \in 1..(d - 1) : nest'[k] = nest[k]
  BY <1>1, <1>9, AllButLast DEF Front
<1>11. /\ s.stack \in Seq({"object", "array"}) /\ Len(s.stack) = d
       /\ \A k \in 1..d : s.stack[k] = doc[nest[k]].type /\ s.stack[k] \in {"object", "array"}
  BY <1>2, <1>3, InnerStates, ElementOfSeq DEF ClientAt
<1>12. Len(z.stack) = d - 1 /\ \A k \in 1..(d - 1) : z.stack[k] = s.stack[k]
  <2>1. s.stack # <<>>
    BY <1>3, InnerStates
  <2>2. z.stack = SubSeq(s.stack, 1, Len(s.stack) - 1)
    BY DEF Closed
  <2> HIDE DEF z, d
  <2>3. QED BY <2>1, <2>2, <1>11, AllButLast
<1>13. \A k \in 1..Len(nest') : z.stack[k] = doc'[nest'[k]].type
  <2> HIDE DEF z, d
  <2>1. \A k \in 1..(d - 1) : k \in 1..d
    BY <1>9
  <2>2. QED BY <2>1, <1>1, <1>10, <1>11, <1>12
<1>14. doc # <<>>
  BY <1>1 DEF ClientOK
<1>15. ClientOK'
  BY <1>1, <1>8, <1>10, <1>14 DEF ClientOK
<1>16. z.mode \in IF nest' # <<>> THEN {"after"} ELSE {"end"}
  <2>1. z.mode = IF d = 1 THEN "end" ELSE "after"
    BY <1>11 DEF Closed
  <2>2. nest' = <<>> <=> d = 1
    <3>1. nest' = <<>> <=> Len(nest') = 0
      BY <1>10, EmptySeq
    <3>2. QED BY <3>1, <1>9, <1>10
  <2>3. QED BY <2>1, <2>2
<1>17. ClientAt(z)'
  <2> HIDE DEF z, d
  <2>1. QED BY <1>1, <1>8, <1>10, <1>12, <1>13, <1>14, <1>16 DEF ClientAt
<1>18. Holds(v, doc', nest', p)
  <2>1. /\ u \in Stories /\ Mirror(doc, u.told, p) /\ Len(u.opens) = d
        /\ \A k \in 1..d : u.opens[k] = p[nest[k]]
    BY <1>2 DEF Holds, OpenAt
  <2>2. u.opens \in Seq(Nat) /\ u.told \in Seq(Things(TextChar)) /\ u.opens # <<>>
    <3>1. u.opens \in Seq(Nat) /\ u.told \in Seq(Things(TextChar))
      BY <2>1, StoryIs
    <3>2. QED BY <3>1, <2>1, <1>9, EmptySeq
  <2> DEFINE opens == u.opens
             rest == SubSeq(opens, 1, Len(opens) - 1)
  <2>3. /\ rest \in Seq(Nat) /\ Len(rest) = Len(opens) - 1
        /\ \A k \in 1..(Len(opens) - 1) : rest[k] = opens[k]
    <3> HIDE DEF opens
    <3>1. opens \in Seq(Nat) /\ opens # <<>>
      BY <2>2 DEF opens
    <3>2. QED BY <3>1, AllButLast
  <2>4. v = Story(rest, u.told)
    BY DEF Leaves
  <2> HIDE DEF rest, v, z
  <2>5. v \in Stories /\ v.opens = rest /\ v.told = u.told
    BY <2>2, <2>3, <2>4 DEF Stories, Story
  <2>6. OpenAt(v, nest', p)
    <3>1. Len(rest) = d - 1 /\ \A k \in 1..(d - 1) : rest[k] = p[nest[k]]
      <4> HIDE DEF d
      <4>1. \A k \in 1..(d - 1) : k \in 1..d
        BY <1>9
      <4>2. QED BY <4>1, <2>1, <2>3
    <3> HIDE DEF d
    <3>2. QED BY <3>1, <2>5, <1>10 DEF OpenAt
  <2>7. QED BY <2>1, <2>5, <2>6, <1>1 DEF Holds
<1> HIDE DEF z, v
<1>19. QED BY <1>8, <1>15, <1>17, <1>18 DEF Written

LEMMA ClientStill ==
  ASSUME ClientOK, Written, UNCHANGED <<asked, comma_req, stage, doc, nest, long>>
  PROVE  ClientOK' /\ Written'
<1>1. ClientOK'
  BY DEF ClientOK
<1>2. PICK s, u, p : /\ Writes(Beginning, NoTale, asked, s, u)
                     /\ ClientAt(s) /\ Holds(u, doc, nest, p)
  BY DEF Written
<1>3. /\ Writes(Beginning, NoTale, asked', s, u)
      /\ ClientAt(s)' /\ Holds(u, doc', nest', p)
  BY <1>2 DEF ClientAt
<1>4. QED BY <1>1, <1>3 DEF Written

LEMMA ClientInit ==
  ASSUME DocInit
  PROVE  ClientOK /\ Written
<1>1. /\ asked = <<>> /\ stage = "idle" /\ doc = <<>> /\ nest = <<>> /\ long = FALSE
      /\ Len(<<>>) = 0
  BY DEF DocInit, ParserInit, Init
<1>2. <<>> \in Seq(Nodes) /\ <<>> \in Seq(1..Len(doc))
  BY EmptySeq
<1>3. ClientOK
  BY <1>1, <1>2 DEF ClientOK
<1>4. Beginning \in States
  BY EmptySeq DEF Beginning, States, Modes
<1>5. Writes(Beginning, NoTale, asked, Beginning, NoTale)
  BY <1>1, <1>4, WritesNothing
<1>6. ClientAt(Beginning)
  BY <1>1 DEF ClientAt, Beginning
<1>7. Holds(NoTale, doc, nest, <<>>)
  <2>1. NoTale \in Stories /\ NoTale.told = <<>> /\ NoTale.opens = <<>>
    <3>1. <<>> \in Seq(Nat) /\ <<>> \in Seq(Things(TextChar))
      BY EmptySeq
    <3>2. \A o \in Seq(Nat), w \in Seq(Things(TextChar)) : Story(o, w) \in Stories
      BY DEF Stories
    <3>3. NoTale \in Stories
      BY <3>1, <3>2 DEF NoTale
    <3>4. QED BY <3>3 DEF NoTale, Story
  <2>2. OpenAt(NoTale, <<>>, <<>>)
    BY <2>1, <1>1 DEF OpenAt
  <2>3. QED BY <2>1, <2>2, <1>1, MirrorEmpty DEF Holds
<1>8. QED BY <1>3, <1>5, <1>6, <1>7 DEF Written

\* The client never writes anything but the beginning of a document, and has
\* written a whole one when it ends the text.
LEMMA ClientKeeps ==
  ASSUME GenInv, ClientOK, Written, [DocNext]_vars
  PROVE  ClientOK' /\ Written'
<1>1. CASE AddStep
  BY <1>1, ClientStill DEF AddStep, Add, AddRest, AddAndFlush, AddAndDrop, docVars
<1>2. CASE Reader
  BY <1>2, ClientStill DEF Reader, ReadText, Parse, GoDown, GoUp, EndRead, ByReader,
                           genVars
<1>3. CASE UNCHANGED vars
  BY <1>3, ClientStill DEF vars, genVars, docVars
<1>4. CASE StartText
  <2>1. /\ stage = "idle" /\ stage' = "open" /\ comma_req' = FALSE
        /\ asked' = asked /\ doc' = doc /\ nest' = nest /\ long' = long
    BY <1>4 DEF StartText, json_str_start, docVars
  <2>2. doc = <<>> /\ nest = <<>> /\ ~ long
    BY <2>1 DEF ClientOK
  <2>3. ClientOK'
    BY <2>1, <2>2 DEF ClientOK
  <2>4. PICK s, u, p : /\ Writes(Beginning, NoTale, asked, s, u)
                       /\ ClientAt(s) /\ Holds(u, doc, nest, p)
    BY DEF Written
  <2>5. ClientAt(s)'
    BY <2>1, <2>2, <2>4 DEF ClientAt
  <2>6. QED BY <2>1, <2>3, <2>4, <2>5 DEF Written
<1>5. CASE EndText
  <2>1. /\ stage = "open" /\ stage' = "ended" /\ comma_req' = FALSE
        /\ asked' = asked /\ doc' = doc /\ nest' = nest /\ long' = long
        /\ nest = <<>> /\ doc # <<>>
    BY <1>5 DEF EndText, json_str_end, docVars
  <2>2. ~ long
    BY <2>1 DEF ClientOK
  <2>3. ClientOK'
    BY <2>1, <2>2 DEF ClientOK
  <2>4. PICK s, u, p : /\ Writes(Beginning, NoTale, asked, s, u)
                       /\ ClientAt(s) /\ Holds(u, doc, nest, p)
    BY DEF Written
  <2>5. ClientAt(s)'
    BY <2>1, <2>2, <2>4 DEF ClientAt
  <2>6. QED BY <2>1, <2>3, <2>4, <2>5 DEF Written
<1>6. QED BY <1>1, <1>2, <1>3, <1>4, <1>5, RootKeeps, ObjectKeeps, ArrayKeeps, LongKeeps,
             CloseKeeps DEF DocNext, Client


----------------------------------------------------------------------------
(* A text that was cut is shorter than what was asked for.                 *)

OverLong == cut => buf_size <= Len(asked)

LEMMA OverLongStep ==
  ASSUME GenInv, OverLong, [Next]_genVars
  PROVE  OverLong'
<1>1. /\ buf \in Seq(Char) /\ sent \in Seq(Char) /\ asked \in Seq(Char)
      /\ head \in Seq(Char) /\ last \in Seq(Char)
      /\ Len(buf) \in Nat /\ Len(head) \in Nat /\ Len(last) \in Nat
      /\ Len(asked) \in Nat /\ buf_size \in Nat
  BY GenAssumption, LenProperties DEF GenInv, TypeOK
<1>2. ASSUME NEW size, NEW cb, json_str_start(size, cb)
      PROVE  OverLong'
  BY <1>2 DEF json_str_start, GenInv, Quiet, OverLong
<1>3. CASE Interface
  <2>1. PICK h, l \in Seq(Char), c \in BOOLEAN : Call(h, l, c)
    BY <1>3, CallsAdd DEF GenInv
  <2>2. asked' = (asked \o h) \o l /\ cut' = cut /\ buf_size' = buf_size
    BY <2>1 DEF Call
  <2>3. Len(asked') = Len(asked) + Len(h) + Len(l) /\ Len(h) \in Nat /\ Len(l) \in Nat
    BY <2>2, <1>1, ConcatProperties, LenProperties
  <2>4. QED BY <2>2, <2>3, <1>1 DEF OverLong
<1>4. CASE AddRest \/ AddAndFlush \/ json_str_end \/ UNCHANGED genVars
  BY <1>4 DEF AddRest, AddAndFlush, json_str_end, genVars, OverLong
<1>5. CASE AddAndDrop
  <2>1. asked' = asked /\ buf_size' = buf_size
    BY <1>5 DEF AddAndDrop
  <2>2. CASE cut
    BY <2>1, <2>2 DEF OverLong
  <2>3. CASE ~ cut
    <3>1. asked = (sent \o buf) \o (head \o last) /\ sent = <<>>
      BY <1>5, <2>3 DEF AddAndDrop, GenInv, Whole, Dropped
    <3>2. Len(asked) = Len(buf) + Len(head) + Len(last)
      <4>1. /\ sent \o buf \in Seq(Char) /\ Len(sent \o buf) = Len(sent) + Len(buf)
            /\ head \o last \in Seq(Char) /\ Len(head \o last) = Len(head) + Len(last)
        BY <1>1, ConcatProperties
      <4>2. Len(sent) = 0
        BY <3>1
      <4>3. Len(asked) = Len(sent \o buf) + Len(head \o last)
        BY <3>1, <4>1, ConcatProperties
      <4>4. QED BY <4>1, <4>2, <4>3, <1>1
    <3>3. ~ (Len(Adding) <= buf_size - Len(buf) - 1)
      BY <1>5 DEF AddAndDrop, Fits, json_get_empty_len
    <3>4. Len(Adding) \in Nat /\ Len(Adding) <= Len(head) + Len(last)
      <4>1. CASE head # <<>>
        BY <4>1, <1>1 DEF Adding
      <4>2. CASE head = <<>>
        BY <4>2, <1>1 DEF Adding
      <4>3. QED BY <4>1, <4>2
    <3> DEFINE A == Len(asked)  B == Len(buf)  H == Len(head) + Len(last)
               G == Len(Adding)
    <3>5. /\ A \in Nat /\ B \in Nat /\ H \in Nat /\ G \in Nat /\ A = B + H
          /\ G <= H /\ ~ (G <= buf_size - B - 1)
      BY <1>1, <3>2, <3>3, <3>4
    <3> HIDE DEF A, B, H, G
    <3>6. buf_size <= A
      BY <3>5, <1>1
    <3>7. QED BY <3>6, <2>1 DEF OverLong, A
  <2>4. QED BY <2>2, <2>3
<1>6. QED BY <1>2, <1>3, <1>4, <1>5 DEF Next, Add

----------------------------------------------------------------------------
(* What the parser is given.                                               *)

\* A path goes on from every place but the end of a document.
LEMMA WritesFrontOf ==
  ASSUME NEW s, NEW t, NEW u, NEW v, NEW text, Writes(s, u, text, t, v),
         NEW front \in Seq(TextChar), Text!IsPrefix(front, text), Len(front) < Len(text)
  PROVE  \E z, w : Writes(s, u, front, z, w) /\ z.mode # "end"
<1>1. PICK r, y : /\ Path(r, text) /\ r[0] = s /\ r[Len(text)] = t
                  /\ Tale(y, r, text) /\ y[0] = u
  BY DEF Writes
<1>2. text \in Seq(TextChar) /\ Len(text) \in Nat /\ Len(front) \in Nat
  BY LenProperties DEF Writes
<1> DEFINE n == Len(front)
           m == Len(text)
           q == [k \in 0..n |-> r[k]]
<1>3. \A k \in 1..n : front[k] = text[k]
  <2>1. front = SubSeq(text, 1, n)
    BY <1>2, PrefixIsFront
  <2>2. \A k \in 1..n : text[k] \in TextChar
    BY <1>2, ElementOfSeq
  <2>3. \A k \in 1..(n - 1 + 1) : SubSeq(text, 1, n)[k] = text[1 + k - 1]
    BY <2>2, <1>2, SubSeqProperties, 1 \in Int, n \in Int
  <2>4. \A k \in 1..n : 1 + k - 1 = k /\ k \in 1..(n - 1 + 1)
    BY <1>2
  <2>5. QED BY <2>1, <2>3, <2>4
<1>4. /\ r \in [0..m -> States]
      /\ \A k \in 1..m : /\ Reads(r[k - 1], text[k], r[k])
                         /\ y[k] = Tell(r[k - 1], y[k - 1], text[k])
  BY <1>1 DEF Path, Tale
<1>5. \A k \in 0..n : k \in 0..m
  BY <1>2
<1>6. q \in [0..n -> States] /\ \A k \in 0..n : q[k] = r[k]
  BY <1>4, <1>5
<1>7. \A k \in 1..n : k \in 0..n /\ k - 1 \in 0..n /\ k \in 1..m
  BY <1>2
<1> HIDE DEF q
<1>8. Path(q, front)
  BY <1>3, <1>4, <1>6, <1>7 DEF Path
<1>9. Tale(y, q, front)
  BY <1>3, <1>4, <1>6, <1>7 DEF Tale
<1>10. 0 \in 0..n /\ n \in 0..n /\ n + 1 \in 1..m /\ (n + 1) - 1 = n /\ n \in 0..m
  BY <1>2
<1>11. q[0] = s /\ q[n] = r[n] /\ r[n] \in States
  BY <1>1, <1>4, <1>6, <1>10
<1>12. Reads(r[n], text[n + 1], r[n + 1])
  BY <1>4, <1>10
<1>13. r[n].mode # "end"
  BY <1>12 DEF Reads, WantsKey, WantsValue
<1>14. s \in States
  BY DEF Writes
<1>15. Writes(s, u, front, r[n], y[n])
  BY <1>1, <1>8, <1>9, <1>11, <1>14 DEF Writes
<1>16. QED BY <1>13, <1>15

\* Outside of names and strings a blank after a comma or a colon changes
\* nothing.
LEMMA WritesBlank ==
  ASSUME NEW t \in States, t.mode \in {"value", "next"}, NEW d \in Blank, NEW v
  PROVE  Writes(t, v, <<d>>, t, v)
<1>1. d # Mark /\ d \in TextChar /\ d \in Passed /\ d \notin Opening /\ d \notin Closing
  BY CharKinds DEF Blank, TextChar, Opening, Closing
<1>2. Reads(t, d, t)
  BY <1>1 DEF Reads
<1>3. Tell(t, v, d) = v
  BY <1>1 DEF Tell
<1>4. QED BY <1>1, <1>2, <1>3, WritesOne

LEMMA TwoOf ==
  ASSUME NEW c \in TextChar, NEW d \in TextChar
  PROVE  <<c>> \o <<d>> = <<c, d>>
<1>1. <<c>> \in Seq(TextChar) /\ <<d>> \in Seq(TextChar) /\ Len(<<c>>) = 1
  OBVIOUS
<1>2. Append(<<c>>, d) = <<c>> \o <<d>>
  BY <1>1, AppendIsConcat
<1>3. Append(<<c>>, d) = <<c, d>>
  <2>1. /\ Append(<<c>>, d) \in Seq(TextChar) /\ Len(Append(<<c>>, d)) = Len(<<c>>) + 1
        /\ \A i \in 1..Len(<<c>>) : Append(<<c>>, d)[i] = <<c>>[i]
        /\ Append(<<c>>, d)[Len(<<c>>) + 1] = d
    BY <1>1, AppendProperties
  <2>2. /\ Append(<<c>>, d) \in Seq(TextChar) /\ Len(Append(<<c>>, d)) = 2
        /\ Append(<<c>>, d)[1] = c /\ Append(<<c>>, d)[2] = d
    <3>1. 1 \in 1..Len(<<c>>) /\ Len(<<c>>) + 1 = 2 /\ <<c>>[1] = c
      BY <1>1
    <3>2. QED BY <3>1, <2>1
  <2>3. /\ <<c, d>> \in Seq(TextChar) /\ Len(<<c, d>>) = 2
        /\ <<c, d>>[1] = c /\ <<c, d>>[2] = d
    OBVIOUS
  <2>4. \A i \in 1..2 : Append(<<c>>, d)[i] = <<c, d>>[i]
    <3> HIDE DEF TextChar
    <3>1. \A i \in 1..2 : i = 1 \/ i = 2
      OBVIOUS
    <3>2. QED BY <3>1, <2>2, <2>3, Zenon
  <2>5. QED BY <2>2, <2>3, <2>4, SeqEqual
<1>4. QED BY <1>2, <1>3

LEMMA WritesWide ==
  ASSUME NEW s \in States, NEW t \in States, NEW c \in {",", ":"}, Reads(s, c, t),
         s.mode \notin {"key", "str"}, NEW d \in Blank, NEW u
  PROVE  Writes(s, u, <<c, d>>, t, Tell(s, u, c))
<1>1. /\ c \in Passed /\ c # Mark /\ c \notin Opening /\ c \notin Closing
      /\ c \notin Start /\ c \notin Blank
  BY CharKinds, ParseAssumption DEF Opening, Closing, Blank
<1>2. t = To(s, "value") \/ t = To(s, "next")
  BY <1>1 DEF Reads
<1>3. t.mode \in {"value", "next"}
  <2>1. \A mode : To(s, mode).mode = mode
    BY DEF To
  <2>2. QED BY <2>1, <1>2
<1>4. c \in TextChar /\ d \in TextChar
  BY CharsOfText DEF TextChar
<1> DEFINE v == Tell(s, u, c)
<1>5. Writes(s, u, <<c>>, t, v)
  BY <1>4, WritesOne
<1> HIDE DEF v
<1>6. Writes(t, v, <<d>>, t, v)
  BY <1>3, WritesBlank
<1>7. Writes(s, u, <<c>> \o <<d>>, t, v)
  BY <1>5, <1>6, WritesMore
<1>8. QED BY <1>4, <1>7, TwoOf DEF v

\* A character stands outside of names and strings if the run is there.
MarksTo(text, k) == {i \in 1..k : text[i] = Mark}

LEMMA MarksMore ==
  ASSUME NEW text, NEW k \in Nat
  PROVE  /\ Outside(text, k) <=> Cardinality(MarksTo(text, k)) % 2 = 0
         /\ text[k + 1] # Mark => (Outside(text, k + 1) <=> Outside(text, k))
         /\ text[k + 1] = Mark => (Outside(text, k + 1) <=> ~ Outside(text, k))
         /\ Outside(text, 0)
<1>1. \A j : Outside(text, j) <=> Cardinality(MarksTo(text, j)) % 2 = 0
  BY Zenon DEF Outside, MarksTo, Mark
<1>2. IsFiniteSet(MarksTo(text, k)) /\ Cardinality(MarksTo(text, k)) \in Nat
  <2>1. IsFiniteSet(1..k) /\ MarksTo(text, k) \in SUBSET (1..k)
    BY FS_Interval DEF MarksTo
  <2>2. QED BY <2>1, FS_Subset, FS_CardinalityType
<1>3. \A i : i \in 1..(k + 1) <=> i \in 1..k \/ i = k + 1
  OBVIOUS
<1>4. ASSUME text[k + 1] # Mark PROVE MarksTo(text, k + 1) = MarksTo(text, k)
  <2>1. \A i : i \in MarksTo(text, k + 1) <=> i \in MarksTo(text, k)
    BY <1>3, <1>4 DEF MarksTo
  <2>2. QED BY <2>1
<1>5. ASSUME text[k + 1] = Mark
      PROVE  Cardinality(MarksTo(text, k + 1)) = Cardinality(MarksTo(text, k)) + 1
  <2>1. \A i : i \in MarksTo(text, k + 1) <=> i \in MarksTo(text, k) \cup {k + 1}
    BY <1>3, <1>5 DEF MarksTo
  <2>2. MarksTo(text, k + 1) = MarksTo(text, k) \cup {k + 1}
    BY <2>1
  <2>3. k + 1 \notin MarksTo(text, k)
    BY DEF MarksTo
  <2>4. QED BY <2>2, <2>3, <1>2, FS_AddElement
<1>6. text[k + 1] # Mark => (Outside(text, k + 1) <=> Outside(text, k))
  BY <1>1, <1>4
<1>7. \A n \in Nat : (n + 1) % 2 = 0 <=> ~ (n % 2 = 0)
  OBVIOUS
<1>8. text[k + 1] = Mark => (Outside(text, k + 1) <=> ~ Outside(text, k))
  BY <1>1, <1>2, <1>5, <1>7
<1>9. Outside(text, 0)
  <2>1. \A i : i \notin MarksTo(text, 0)
    BY DEF MarksTo
  <2>2. MarksTo(text, 0) = {}
    BY <2>1
  <2>3. Cardinality(MarksTo(text, 0)) = 0 /\ 0 % 2 = 0
    BY <2>2, FS_EmptySet
  <2>4. QED BY <2>3, <1>1
<1>10. QED BY <1>1, <1>6, <1>8, <1>9

OutsideAt(r, k) == r[k].mode \notin {"key", "str"}

LEMMA OutsideIs ==
  ASSUME NEW text, Len(text) \in Nat, NEW r, Path(r, text), r[0].mode = "start"
  PROVE  \A k \in 0..Len(text) : Outside(text, k) <=> OutsideAt(r, k)
<1> DEFINE n == Len(text)
           S == {k \in Nat : k <= n => (Outside(text, k) <=> OutsideAt(r, k))}
<1>1. 0 \in S
  BY MarksMore DEF OutsideAt
<1>2. ASSUME NEW k \in Nat, k \in S
      PROVE  k + 1 \in S
  <2>1. ASSUME k + 1 <= n
        PROVE  Outside(text, k + 1) <=> OutsideAt(r, k + 1)
    <3>1. k + 1 \in 1..n /\ (k + 1) - 1 = k /\ k <= n
      BY <2>1
    <3>2. Reads(r[k], text[k + 1], r[k + 1])
      BY <3>1 DEF Path
    <3>3. Outside(text, k) <=> OutsideAt(r, k)
      BY <3>1, <1>2
    <3>4. ASSUME text[k + 1] = Mark PROVE OutsideAt(r, k + 1) <=> ~ OutsideAt(r, k)
      <4>1. Mark \notin Opening /\ Mark \notin Closing /\ Mark \notin Blank
            /\ Mark # ":" /\ Mark # ","
        BY CharKinds DEF Passed
      <4>2. Mark \notin Start
        BY ParseAssumption DEF Mark
      <4>3. \/ WantsKey(r[k]) /\ r[k + 1] = To(r[k], "key")
            \/ r[k].mode = "key" /\ r[k + 1] = To(r[k], "colon")
            \/ WantsValue(r[k]) /\ r[k + 1] = To(r[k], "str")
            \/ r[k].mode = "str" /\ r[k + 1] = To(r[k], "after")
        BY <3>2, <3>4, <4>1, <4>2 DEF Reads
      <4>4. \A mode : To(r[k], mode).mode = mode
        BY DEF To
      <4>5. QED BY <4>3, <4>4 DEF OutsideAt, WantsKey, WantsValue
    <3>5. ASSUME text[k + 1] # Mark PROVE OutsideAt(r, k + 1) <=> OutsideAt(r, k)
      <4>1. /\ \A mode : To(r[k], mode).mode = mode
            /\ \A c : Opened(r[k], c).mode = "first"
            /\ Closed(r[k]).mode \in {"end", "after"}
        BY DEF To, Opened, Closed
      <4>2. QED BY <3>2, <3>5, <4>1 DEF Reads, OutsideAt, WantsKey, WantsValue
    <3>6. QED BY <3>3, <3>4, <3>5, MarksMore
  <2>2. QED BY <2>1
<1>3. \A k \in Nat : k \in S
  <2> HIDE DEF S
  <2>1. QED BY <1>1, <1>2, SetInduction
<1>4. QED BY <1>3

LEMMA WritesSpaced ==
  ASSUME NEW s, NEW t, NEW u, NEW v, NEW text \in Seq(Char), Writes(s, u, text, t, v),
         s.mode = "start"
  PROVE  Writes(s, u, Spaced(text), t, v)
<1> DEFINE n == Len(text)
<1>1. n \in Nat /\ \A k \in 1..n : text[k] \in TextChar
  BY LenProperties, ElementOfSeq DEF TextChar
<1>2. PICK r, q : /\ Path(r, text) /\ r[0] = s /\ r[n] = t
                  /\ Tale(q, r, text) /\ q[0] = u /\ q[n] = v
  BY DEF Writes
<1>3. /\ r \in [0..n -> States]
      /\ \A k \in 1..n : /\ Reads(r[k - 1], text[k], r[k])
                         /\ q[k] = Tell(r[k - 1], q[k - 1], text[k])
  BY <1>2 DEF Path, Tale
<1>4. /\ Pieces(text) \in Seq(Seq(TextChar)) /\ Len(Pieces(text)) = n
      /\ Spaced(text) = FlattenSeq(Pieces(text))
  BY PiecesOK
<1> DEFINE ss == Pieces(text)
<1>5. PICK f \in [0..Len(ss) -> Seq(TextChar)] :
           /\ f[0] = <<>>
           /\ \A k \in 1..Len(ss) : f[k] = f[k - 1] \o ss[k]
           /\ FlattenSeq(ss) = f[Len(ss)]
  <2> HIDE DEF ss
  <2>1. ss \in Seq(Seq(TextChar))
    BY <1>4 DEF ss
  <2>2. QED BY <2>1, Flattens
<1>6. \A k \in 1..n : ss[k] = Piece(text, k)
  BY DEF Pieces
<1> HIDE DEF ss
<1>7. ASSUME NEW k \in Nat, k + 1 \in 1..n, Reads(r[k], text[k + 1], r[k + 1]),
             r[k] \in States, r[k + 1] \in States
      PROVE  Writes(r[k], q[k], Piece(text, k + 1), r[k + 1],
                    Tell(r[k], q[k], text[k + 1]))
  <2> DEFINE c == text[k + 1]
             z == r[k]
             y == r[k + 1]
             x == q[k]
  <2>1. c \in TextChar
    BY <1>1, <1>7
  <2>2. CASE c \in {",", ":"} /\ Outside(text, k + 1)
    <3>1. c # Mark
      BY <2>2, CharKinds
    <3>2. Outside(text, k)
      BY <3>1, <2>2, MarksMore
    <3>3. z.mode \notin {"key", "str"}
      <4>1. k \in 0..n
        BY <1>1, <1>7
      <4>2. QED BY <4>1, <3>2, <1>1, <1>2, OutsideIs DEF OutsideAt
    <3>4. \E d \in Blank : Piece(text, k + 1) = <<c, d>>
      BY <2>2, Zenon DEF Piece, Blank
    <3>5. PICK d \in Blank : Piece(text, k + 1) = <<c, d>>
      BY <3>4
    <3> HIDE DEF c, z, y, x
    <3>6. c \in {",", ":"} /\ Reads(z, c, y) /\ z \in States /\ y \in States
      BY <2>2, <1>7 DEF c, z, y
    <3>7. Writes(z, x, <<c, d>>, y, Tell(z, x, c))
      BY <3>3, <3>6, WritesWide
    <3>8. QED BY <3>5, <3>7 DEF c, z, y, x
  <2>3. CASE ~ (c \in {",", ":"} /\ Outside(text, k + 1))
    <3>1. Piece(text, k + 1) = <<c>>
      BY <2>3, Zenon DEF Piece
    <3> HIDE DEF c
    <3>2. Reads(r[k], c, r[k + 1])
      BY <1>7 DEF c
    <3>3. Writes(r[k], q[k], <<c>>, r[k + 1], Tell(r[k], q[k], c))
      BY <3>2, <2>1, <1>7, WritesOne
    <3>4. QED BY <3>1, <3>3 DEF c
  <2>4. QED BY <2>2, <2>3
<1> DEFINE S == {k \in Nat : k <= n => Writes(s, u, f[k], r[k], q[k])}
<1>8. 0 \in S
  <2>1. s \in States
    BY DEF Writes
  <2>2. Writes(s, u, f[0], r[0], q[0])
    BY <2>1, <1>2, <1>5, WritesNothing
  <2>3. QED BY <2>2
<1>9. ASSUME NEW k \in Nat, k \in S
      PROVE  k + 1 \in S
  <2>1. ASSUME k + 1 <= n
        PROVE  Writes(s, u, f[k + 1], r[k + 1], q[k + 1])
    <3>1. k + 1 \in 1..n /\ (k + 1) - 1 = k /\ k \in 0..n /\ k + 1 \in 0..n /\ k <= n
      BY <2>1, <1>1
    <3>2. Writes(s, u, f[k], r[k], q[k])
      BY <3>1, <1>9
    <3>3. /\ Reads(r[k], text[k + 1], r[k + 1]) /\ r[k] \in States /\ r[k + 1] \in States
          /\ q[k + 1] = Tell(r[k], q[k], text[k + 1])
      BY <3>1, <1>3
    <3>4. Writes(r[k], q[k], Piece(text, k + 1), r[k + 1], q[k + 1])
      BY <3>1, <3>3, <1>7
    <3>5. f[k + 1] = f[k] \o Piece(text, k + 1)
      <4>1. k + 1 \in 1..Len(ss)
        BY <3>1, <1>4 DEF ss
      <4>2. QED BY <4>1, <3>1, <1>5, <1>6
    <3>6. QED BY <3>2, <3>4, <3>5, WritesMore
  <2>2. QED BY <2>1
<1>10. n \in S
  <2> HIDE DEF S
  <2>1. QED BY <1>1, <1>8, <1>9, SetInduction
<1>11. QED BY <1>1, <1>2, <1>4, <1>5, <1>10 DEF ss

\* What the reader gets is a whole document, with all its elements, or the
\* beginning of one if the buffer could not take it.
LEMMA TextAtEnd ==
  ASSUME GenInv, ClientOK, Written, OverLong, stage = "ended",
         NEW text \in {sent \o buf, Spaced(sent \o buf)}
  PROVE  \E s, v : /\ Writes(Beginning, NoTale, text, s, v)
                   /\ (s.mode = "end" <=> ~ cut)
                   /\ ~ cut => \E p : Mirror(doc, v.told, p)
<1>1. /\ buf \in Seq(Char) /\ sent \in Seq(Char) /\ asked \in Seq(Char)
      /\ head = <<>> /\ last = <<>>
      /\ sent \o buf \in Seq(Char) /\ <<>> \o <<>> = <<>>
  BY ConcatProperties DEF GenInv, TypeOK, Quiet
<1>2. PICK s, u, p : /\ Writes(Beginning, NoTale, asked, s, u)
                     /\ ClientAt(s) /\ Holds(u, doc, nest, p)
  BY DEF Written
<1>3. s.mode = "end"
  BY <1>2 DEF ClientOK, ClientAt
<1>4. \E z, v : /\ Writes(Beginning, NoTale, sent \o buf, z, v)
                /\ (z.mode = "end" <=> ~ cut)
                /\ ~ cut => \E p2 : Mirror(doc, v.told, p2)
  <2>1. CASE ~ cut
    <3>1. asked = (sent \o buf) \o (head \o last)
      BY <2>1 DEF GenInv, Whole
    <3>2. asked = sent \o buf
      BY <3>1, <1>1, ConcatEmptySeq
    <3>3. Mirror(doc, u.told, p)
      BY <1>2 DEF Holds
    <3>4. QED BY <3>2, <3>3, <2>1, <1>2, <1>3
  <2>2. CASE cut
    <3>1. sent = <<>> /\ Text!IsPrefix(buf, asked)
      BY <2>2 DEF GenInv, Dropped
    <3>2. sent \o buf = buf
      BY <3>1, <1>1, ConcatEmptySeq
    <3>3. Len(buf) < Len(asked)
      <4>1. Len(buf) < buf_size /\ buf_size <= Len(asked) /\ buf_size \in Nat
            /\ Len(buf) \in Nat /\ Len(asked) \in Nat
        BY <2>2, <1>1, GenAssumption, LenProperties DEF GenInv, InBuffer, OverLong, TypeOK
      <4>2. QED BY <4>1
    <3>4. buf \in Seq(TextChar)
      BY <1>1, CharsOfText
    <3>5. \E z, v : Writes(Beginning, NoTale, buf, z, v) /\ z.mode # "end"
      BY <3>1, <3>3, <3>4, <1>2, WritesFrontOf
    <3>6. QED BY <3>2, <3>5, <2>2
  <2>3. QED BY <2>1, <2>2
<1>5. PICK z, v : /\ Writes(Beginning, NoTale, sent \o buf, z, v)
                  /\ (z.mode = "end" <=> ~ cut)
                  /\ ~ cut => \E p2 : Mirror(doc, v.told, p2)
  BY <1>4
<1>6. Beginning.mode = "start"
  BY DEF Beginning
<1>7. Writes(Beginning, NoTale, Spaced(sent \o buf), z, v)
  <2> DEFINE whole == sent \o buf
  <2>1. whole \in Seq(Char) /\ Writes(Beginning, NoTale, whole, z, v)
    BY <1>1, <1>5
  <2> HIDE DEF whole
  <2>2. Writes(Beginning, NoTale, Spaced(whole), z, v)
    BY <2>1, <1>6, WritesSpaced
  <2>3. QED BY <2>2 DEF whole
<1>8. QED BY <1>5, <1>7

----------------------------------------------------------------------------
(* What becomes of the document.                                           *)

\* Only a finished text is read; along it the parser keeps to the grammar,
\* and only a whole one comes out as accepted, with all its elements.
Reflected == \E p : Mirror(doc, ShowAll(tokens), p)
Comes(r, q) == /\ r[Len(js)].mode = "end" <=> ~ cut
               /\ ~ cut => \E p : Mirror(doc, q[Len(js)].told, p)

Fate == /\ pass # "off" => stage = "ended"
        /\ Parsing => \E r, q : Along(r, q) /\ Comes(r, q)
        /\ pass = "ready" => ~ cut /\ Keyed(tokens, "end") /\ Reflected

\* Nothing happens to a finished text and its document.
LEMMA EndedStays ==
  ASSUME GenInv, [DocNext]_vars, stage = "ended"
  PROVE  stage' = "ended" /\ cut' = cut /\ doc' = doc
<1>1. ~ busy
  BY DEF GenInv, Quiet
<1>2. CASE UNCHANGED vars
  BY <1>2 DEF vars, genVars, docVars
<1>3. CASE DocNext
  <2>1. Next \/ UNCHANGED genVars
    BY <1>3, StepOfGen
  <2>2. doc' = doc
    <3>1. ~ Client
      BY DEF Client, StartText, Root, AddToObject, AddToArray, MoreOfLong, Close, EndText,
             InObject, InArray, Building, json_str_start, json_str_end
    <3>2. AddStep \/ Reader
      BY <3>1, <1>3 DEF DocNext
    <3>3. QED BY <3>2 DEF AddStep, docVars, Reader, ReadText, Parse, GoDown, GoUp, EndRead,
                          ByReader
  <2>3. CASE UNCHANGED genVars
    BY <2>2, <2>3 DEF genVars
  <2>4. CASE Next
    <3>1. ~ Interface
      <4>1. ~ \E h, l \in Seq(Char), c \in BOOLEAN : Call(h, l, c)
        BY DEF Call
      <4>2. QED BY <4>1, CallsAdd DEF GenInv
    <3>2. ~ Add /\ ~ json_str_end
      BY <1>1 DEF Add, AddRest, AddAndFlush, AddAndDrop, json_str_end
    <3>3. ~ \E size \in BufSize, cb \in BOOLEAN : json_str_start(size, cb)
      BY DEF json_str_start
    <3>4. QED BY <2>4, <3>1, <3>2, <3>3 DEF Next
  <2>5. QED BY <2>1, <2>3, <2>4
<1>4. QED BY <1>2, <1>3

LEMMA AlongStays ==
  ASSUME NEW r, NEW q, Along(r, q),
         UNCHANGED <<js, pass, pos, tokens, toksuper, count, num_tokens>>
  PROVE  Along(r, q)'
<1>1. ShowAll(tokens)' = ShowAll(tokens)
  BY DEF ShowAll, Show
<1>2. QED BY <1>1 DEF Along, Telling, RunAt, At

LEMMA FateStep ==
  ASSUME GenInv, ClientOK, Written, OverLong, ReadInv, Fate, [DocNext]_vars
  PROVE  Fate'
<1>1. CASE UNCHANGED <<js, pass, pos, tokens, toksuper, count, num_tokens>>
  <2>1. CASE pass = "off"
    BY <1>1, <2>1 DEF Fate, Parsing
  <2>2. CASE pass # "off"
    <3>1. stage = "ended" /\ stage' = "ended" /\ cut' = cut /\ doc' = doc
      BY <2>2, EndedStays DEF Fate
    <3>2. Parsing' => \E r, q : Along(r, q)' /\ Comes(r, q)'
      <4>1. ASSUME Parsing
            PROVE  \E r, q : Along(r, q)' /\ Comes(r, q)'
        <5>1. PICK r, q : Along(r, q) /\ Comes(r, q)
          BY <4>1 DEF Fate
        <5>2. Along(r, q)' /\ js' = js
          BY <1>1, <5>1, AlongStays
        <5>3. Comes(r, q)'
          BY <5>1, <5>2, <3>1 DEF Comes
        <5>4. QED BY <5>2, <5>3
      <4>2. Parsing' => Parsing
        BY <1>1 DEF Parsing
      <4>3. QED BY <4>1, <4>2
    <3>3. Reflected => Reflected'
      <4>1. ShowAll(tokens)' = ShowAll(tokens)
        BY <1>1 DEF ShowAll, Show
      <4>2. QED BY <4>1, <3>1 DEF Reflected
    <3>4. QED BY <1>1, <3>1, <3>2, <3>3 DEF Fate
  <2>3. QED BY <2>1, <2>2
<1>2. ASSUME DocNext, NEW text \in {sent \o buf, Spaced(sent \o buf)}, json_parse_start(text)
      PROVE  Fate'
  <2>1. pass' = "count" /\ js' = text /\ pos' = 0
    BY <1>2 DEF json_parse_start
  <2>2. stage = "ended"
    <3>1. pass = "off"
      BY <1>2 DEF json_parse_start
    <3>2. ~ AddStep /\ ~ Client
      <4>1. pass' # pass
        BY <2>1, <3>1
      <4>2. QED BY <4>1 DEF AddStep, Client, StartText, Root, AddToObject, AddToArray,
                   MoreOfLong, Close, EndText, Opens, Sets, ByClient, parseVars
    <3>3. ~ Parse /\ ~ GoDown /\ ~ GoUp /\ ~ EndRead
      BY <3>1 DEF Parse, ParseStep, OpenBracket, CloseBracket, StringStarts, Primitive,
                  Colon, Comma, SkipBlank, Counted, NoTokens, Tokenized, Parsing,
                  GoDown, GoUp, EndRead, json_obj_get, json_arr_get, json_parse_end
    <3>4. QED BY <1>2, <3>2, <3>3 DEF DocNext, Reader, ReadText
  <2>3. PICK s, v : /\ Writes(Beginning, NoTale, text, s, v)
                    /\ (s.mode = "end" <=> ~ cut)
                    /\ ~ cut => \E p : Mirror(doc, v.told, p)
    BY <1>2, <2>2, TextAtEnd
  <2>4. PICK r, q : /\ Path(r, text) /\ r[0] = Beginning /\ r[Len(text)] = s
                    /\ Tale(q, r, text) /\ q[0] = NoTale /\ q[Len(text)] = v
    BY <2>3 DEF Writes
  <2>5. r[0].mode = "start"
    BY <2>4 DEF Beginning
  <2>6. Along(r, q)'
    <3>1. IsRun(r, js') /\ r[pos'].mode = "start" /\ pass' # "fill"
      BY <2>1, <2>4, <2>5 DEF IsRun
    <3>2. Tale(q, r, js') /\ q[0] = NoTale
      BY <2>1, <2>4
    <3>3. QED BY <3>1, <3>2 DEF Along, RunAt
  <2>7. stage' = "ended" /\ cut' = cut /\ doc' = doc
    BY <1>2, <2>2, EndedStays
  <2>8. Comes(r, q)'
    BY <2>1, <2>3, <2>4, <2>7 DEF Comes
  <2>9. QED BY <2>1, <2>6, <2>7, <2>8 DEF Fate
<1>3. CASE ParseStep
  <2>1. Parsing
    BY <1>3 DEF ParseStep, OpenBracket, CloseBracket, StringStarts, Primitive,
                Colon, Comma, SkipBlank, Counted, NoTokens, Tokenized, Parsing
  <2>2. stage' = "ended" /\ cut' = cut /\ doc' = doc
    BY <2>1, EndedStays DEF Fate, Parsing
  <2>3. PICK r, q : Along(r, q) /\ Comes(r, q)
    BY <2>1 DEF Fate
  <2>4. js' = js
    BY <1>3 DEF ParseStep, OpenBracket, CloseBracket, StringStarts, Primitive, Element,
                Colon, Comma, SkipBlank, Counted, NoTokens, Tokenized, Continue, Refuse
  <2>5. \/ pass' \in {"count", "fill"} /\ Along(r, q)'
        \/ /\ pass' = "ready" /\ r[Len(js)].mode = "end" /\ Keyed(tokens', "end")
           /\ ShowAll(tokens)' = q[Len(js)].told
        \/ pass' = "refused"
    BY <1>3, <2>3, StepAlong DEF ReadInv
  <2>6. CASE pass' \in {"count", "fill"} /\ Along(r, q)'
    <3>1. Comes(r, q)'
      BY <2>2, <2>3, <2>4 DEF Comes
    <3>2. QED BY <2>2, <2>6, <3>1 DEF Fate
  <2>7. CASE /\ pass' = "ready" /\ r[Len(js)].mode = "end" /\ Keyed(tokens', "end")
             /\ ShowAll(tokens)' = q[Len(js)].told
    <3>1. ~ cut /\ \E p : Mirror(doc, q[Len(js)].told, p)
      BY <2>3, <2>7 DEF Comes
    <3>2. Reflected'
      BY <3>1, <2>2, <2>7 DEF Reflected
    <3>3. QED BY <3>1, <3>2, <2>2, <2>7 DEF Fate, Parsing
  <2>8. CASE pass' = "refused"
    BY <2>2, <2>8 DEF Fate, Parsing
  <2>9. QED BY <2>5, <2>6, <2>7, <2>8
<1>4. CASE json_parse_end
  BY <1>4 DEF json_parse_end, Fate, Parsing
<1>5. CASE UNCHANGED vars
  BY <1>1, <1>5 DEF vars, parseVars
<1>6. QED BY <1>1, <1>2, <1>3, <1>4, <1>5, StepOfParser

----------------------------------------------------------------------------
(* Where the parser looks, and where the reader is in the document.        *)

LEMMA PlacedStep ==
  ASSUME ReadInv, Fate, Placed, [DocNext]_vars
  PROVE  Placed'
<1>1. ParserOK
  BY DEF ReadInv
<1>2. ASSUME UNCHANGED parseVars PROVE Placed'
  BY <1>2 DEF parseVars, Placed, TreeOK, toknext
<1>3. CASE ReadText
  <2>1. PICK text : json_parse_start(text)
    BY <1>3 DEF ReadText
  <2>2. pass' = "count" /\ cur' = 0 /\ tokens' = <<>> /\ toksuper' = 0
    BY <2>1 DEF json_parse_start
  <2>3. QED BY <2>2, TreeEmpty DEF Placed, TreeOK
<1>4. CASE EndRead
  <2>1. pass' = "off" /\ cur' = 0 /\ tokens' = <<>> /\ toksuper' = 0
    BY <1>4 DEF EndRead, json_parse_end
  <2>2. QED BY <2>1, TreeEmpty DEF Placed, TreeOK
<1>5. CASE Parse
  BY <1>1, <1>5, ParseStepPlaces DEF Parse
<1>6. CASE GoDown
  <2>1. \/ \E name, type : json_obj_get(name, type)
        \/ \E index \in Nat : \E type : json_arr_get(index, type)
    BY <1>6, DocAssumption DEF GoDown
  <2>2. QED BY <2>1, <1>1, GetPlaces DEF Fate
<1>7. CASE GoUp
  BY <1>1, <1>7, LeavePlaces DEF GoUp
<1>8. CASE AddStep \/ Client
  <2>1. UNCHANGED parseVars
    BY <1>8 DEF AddStep, Client, StartText, Root, AddToObject, AddToArray, MoreOfLong,
                Close, EndText, Opens, Sets, ByClient
  <2>2. QED BY <2>1, <1>2
<1>9. CASE UNCHANGED vars
  BY <1>2, <1>9 DEF vars
<1>10. QED BY <1>3, <1>4, <1>5, <1>6, <1>7, <1>8, <1>9 DEF DocNext, Reader

\* Each element comes after the one it is in, and the reader is at one.
Standing == /\ \A i \in 1..Len(doc) : doc[i].parent \in 0..(i - 1)
            /\ at \in 0..Len(doc)

LEMMA DocGrows ==
  ASSUME ClientOK, AddStep \/ Client
  PROVE  \/ doc' = doc
         \/ \E node \in Nodes : node.parent \in 0..Len(doc) /\ doc' = Append(doc, node)
         \/ /\ Len(doc') = Len(doc)
            /\ \A i \in 1..Len(doc) : doc'[i].parent = doc[i].parent
<1>1. doc \in Seq(Nodes) /\ Len(doc) \in Nat /\ nest \in Seq(1..Len(doc))
  BY LenProperties DEF ClientOK
<1>2. \A name, type, val : Node(name, type, val).parent \in 0..Len(doc)
  <2>1. ASSUME nest # <<>> PROVE Top \in 1..Len(doc)
    <3>1. Len(nest) \in 1..Len(nest)
      BY <2>1, <1>1, EmptySeq, LenProperties
    <3>2. QED BY <3>1, <1>1, ElementOfSeq DEF Top
  <2>2. QED BY <2>1, <1>1 DEF Node
<1>3. CASE AddStep \/ StartText \/ Close \/ EndText
  BY <1>3 DEF AddStep, StartText, Close, EndText, docVars
<1>4. CASE MoreOfLong
  <2>1. CASE doc' = doc
    BY <2>1
  <2>2. ASSUME NEW part \in Part, doc' = [doc EXCEPT ![Len(doc)].val = @ \o part]
        PROVE  /\ Len(doc') = Len(doc)
               /\ \A i \in 1..Len(doc) : doc'[i].parent = doc[i].parent
    <3> DEFINE n == Len(doc)
               val == doc[n].val \o part
               node == [doc[n] EXCEPT !.val = val]
    <3>1. \A i \in 1..n : doc[i] \in Nodes
      BY <1>1, ElementOfSeq
    <3>2. doc' = [doc EXCEPT ![n] = node]
      BY <2>2
    <3> HIDE DEF val
    <3>3. n \in 1..n => node.parent = doc[n].parent
      BY <3>1 DEF Nodes
    <3> HIDE DEF node
    <3>4. DOMAIN doc = 1..n /\ doc \in [1..n -> Nodes]
      BY <1>1, LenProperties
    <3>5. doc' = [i \in 1..n |-> IF i = n THEN node ELSE doc[i]]
      BY <3>2, <3>4
    <3>6. Len(doc') = n /\ \A i \in 1..n : doc'[i] = IF i = n THEN node ELSE doc[i]
      <4>1. doc' \in [1..n -> {node} \cup Nodes] /\ DOMAIN doc' = 1..n
        BY <3>4, <3>5
      <4>2. doc' \in Seq({node} \cup Nodes)
        BY <4>1, <1>1, SeqDef
      <4>3. QED BY <4>1, <4>2, <3>5, <1>1, LenProperties
    <3>7. QED BY <3>3, <3>6
  <2>3. QED BY <2>1, <2>2, <1>4 DEF MoreOfLong
<1>5. ASSUME NEW name \in Name \cup {NoName},
             \/ \E type \in {"object", "array"} : Opens(name, type)
             \/ \E v \in Value : Sets(name, v, FALSE)
             \/ \E part \in Part : Sets(name, Str(part), TRUE)
      PROVE  \E node \in Nodes : node.parent \in 0..Len(doc) /\ doc' = Append(doc, node)
  <2>1. CASE \E type \in {"object", "array"} : Opens(name, type)
    BY <2>1, <1>2, NodeIsNode DEF Opens
  <2>2. CASE \E v \in Value : Sets(name, v, FALSE)
    BY <2>2, <1>2, NodeIsNode DEF Sets
  <2>3. CASE \E part \in Part : Sets(name, Str(part), TRUE)
    <3>1. PICK part \in Part : Sets(name, Str(part), TRUE)
      BY <2>3
    <3>2. Str(part).type = "string" /\ Str(part).val = part
      BY DEF Str
    <3>3. doc' = Append(doc, Node(name, "string", part))
      BY <3>1, <3>2 DEF Sets
    <3>4. QED BY <3>3, <1>2, NodeIsNode
  <2>4. QED BY <1>5, <2>1, <2>2, <2>3
<1>6. CASE Root
  BY <1>5, <1>6 DEF Root
<1>7. CASE AddToObject
  BY <1>5, <1>7 DEF AddToObject
<1>8. CASE AddToArray
  BY <1>5, <1>8 DEF AddToArray
<1>9. QED BY <1>3, <1>4, <1>6, <1>7, <1>8 DEF Client

\* Named and Item give an element of the document, or 0.
LEMMA FindsElement ==
  ASSUME NEW n, Len(doc) \in Nat
  PROVE  /\ \A name : Named(n, name) \in 0..Len(doc)
         /\ \A index \in Nat : Item(n, index) \in 0..Len(doc)
<1>1. Children(n) \subseteq 1..Len(doc) /\ IsFiniteSet(Children(n))
  <2>1. IsFiniteSet(1..Len(doc)) /\ Children(n) \in SUBSET (1..Len(doc))
    BY FS_Interval DEF Children
  <2>2. QED BY <2>1, FS_Subset
<1>2. ASSUME NEW S, S \subseteq 1..Len(doc), S # {}
      PROVE  Min(S) \in 0..Len(doc)
  <2>1. S \subseteq Nat
    BY <1>2
  <2>2. Min(S) \in S
    BY <2>1, <1>2, LeastOf
  <2>3. Min(S) \in 1..Len(doc)
    BY <2>2, <1>2
  <2>4. QED BY <2>3
<1>3. ASSUME NEW name PROVE Named(n, name) \in 0..Len(doc)
  <2> DEFINE same == {c \in Children(n) : doc[c].name = name}
  <2>1. same \subseteq 1..Len(doc)
    BY <1>1
  <2>2. Named(n, name) = 0 \/ (same # {} /\ Named(n, name) = Min(same))
    BY DEF Named
  <2> HIDE DEF same
  <2>3. same # {} => Min(same) \in 0..Len(doc)
    BY <2>1, <1>2
  <2>4. 0 \in 0..Len(doc)
    OBVIOUS
  <2>5. QED BY <2>2, <2>3, <2>4
<1>4. ASSUME NEW index \in Nat PROVE Item(n, index) \in 0..Len(doc)
  <2> DEFINE there == {c \in Children(n) :
                         Cardinality({b \in Children(n) : b < c}) = index}
  <2>1. there \subseteq 1..Len(doc)
    BY <1>1
  <2>2. Item(n, index) = 0 \/ (there # {} /\ Item(n, index) = Min(there))
    BY DEF Item
  <2> HIDE DEF there
  <2>3. there # {} => Min(there) \in 0..Len(doc)
    BY <2>1, <1>2
  <2>4. 0 \in 0..Len(doc)
    OBVIOUS
  <2>5. QED BY <2>2, <2>3, <2>4
<1>5. QED BY <1>3, <1>4

LEMMA StandingStep ==
  ASSUME ClientOK, Fate, Standing, [DocNext]_vars
  PROVE  Standing'
<1>1. /\ doc \in Seq(Nodes) /\ Len(doc) \in Nat /\ at \in 0..Len(doc)
      /\ \A i \in 1..Len(doc) : doc[i].parent \in 0..(i - 1)
  BY LenProperties DEF ClientOK, Standing
<1>2. CASE AddStep \/ Client
  <2>1. at' = at
    BY <1>2 DEF AddStep, Client, StartText, Root, AddToObject, AddToArray, MoreOfLong,
                Close, EndText, Opens, Sets, ByClient
  <2>2. CASE doc' = doc
    BY <2>1, <2>2 DEF Standing
  <2>3. ASSUME NEW node \in Nodes, node.parent \in 0..Len(doc), doc' = Append(doc, node)
        PROVE  Standing'
    <3>1. /\ Len(doc') = Len(doc) + 1
          /\ doc'[Len(doc) + 1] = node
          /\ \A i \in 1..Len(doc) : doc'[i] = doc[i]
      BY <1>1, <2>3, AppendProperties
    <3>2. \A i \in 1..(Len(doc) + 1) : i \in 1..Len(doc) \/ i = Len(doc) + 1
      BY <1>1
    <3>3. \A i \in 1..Len(doc') : doc'[i].parent \in 0..(i - 1)
      BY <3>1, <3>2, <2>3, <1>1
    <3>4. QED BY <3>1, <3>3, <2>1, <1>1 DEF Standing
  <2>4. CASE /\ Len(doc') = Len(doc)
             /\ \A i \in 1..Len(doc) : doc'[i].parent = doc[i].parent
    BY <1>1, <2>1, <2>4 DEF Standing
  <2>5. QED BY <1>2, <2>2, <2>3, <2>4, DocGrows
<1>3. ASSUME Reader PROVE Standing'
  <2>1. doc' = doc
    BY <1>3 DEF Reader, ReadText, Parse, GoDown, GoUp, EndRead, ByReader
  <2>2. CASE ReadText
    <3>1. at' = 1 /\ doc # <<>>
      BY <2>2 DEF ReadText, ClientOK
    <3>2. Len(doc) # 0
      BY <3>1, <1>1, EmptySeq
    <3>3. QED BY <3>1, <3>2, <2>1, <1>1 DEF Standing
  <2>3. CASE Parse \/ EndRead
    BY <2>1, <2>3 DEF Parse, EndRead, Standing
  <2>4. CASE GoDown
    <3>1. \A index \in 0..MaxNodes : index \in Nat
      BY DocAssumption
    <3>2. at' \in 0..Len(doc)
      BY <2>4, <3>1, <1>1, FindsElement DEF GoDown
    <3>3. QED BY <2>1, <3>2 DEF Standing
  <2>5. CASE GoUp
    <3>1. at > 1 /\ at' = doc[at].parent
      BY <2>5 DEF GoUp
    <3>2. at' \in 0..(at - 1)
      BY <3>1, <1>1
    <3>3. QED BY <2>1, <3>2, <1>1 DEF Standing
  <2>6. QED BY <1>3, <2>2, <2>3, <2>4, <2>5 DEF Reader
<1>4. CASE UNCHANGED vars
  BY <1>4 DEF vars, docVars, Standing
<1>5. QED BY <1>2, <1>3, <1>4 DEF DocNext


----------------------------------------------------------------------------
(* The tokens and the document.                                            *)

\* The tokens are those of the document, p[n] that of element n.
Seen(p) == Arranged /\ Keyed(tokens, "end") /\ Mirror(doc, ShowAll(tokens), p)

LEMMA TokenOf ==
  ASSUME NEW p, Seen(p), NEW n \in 1..Len(doc)
  PROVE  /\ p[n] \in 1..toknext /\ tokens[p[n]].type = Kind(doc[n].type)
         /\ doc[n].type \notin Container => TextOf(p[n]) = TextAt(doc[n])
         /\ tokens[p[n]].parent = IF HasKey(doc, doc[n]) THEN p[n] - 1
                                  ELSE Holder(p, doc[n])
         /\ HasKey(doc, doc[n]) => /\ p[n] - 1 \in 1..toknext
                                   /\ tokens[p[n] - 1].parent = Holder(p, doc[n])
                                   /\ TextOf(p[n] - 1) = doc[n].name
<1> DEFINE told == ShowAll(tokens)
<1>1. /\ tokens \in Seq(TokenSet) /\ toknext \in Nat
  BY DEF Seen, Arranged, ParserOK
<1>2. /\ Len(told) = toknext /\ \A i \in 1..toknext : told[i] = Show(tokens[i])
  BY <1>1, ShowAllIs DEF toknext
<1> HIDE DEF told
<1>3. Mirrors(doc, told, p, n)
  BY DEF Seen, Mirror, told
<1>4. /\ Begins(doc, p, n) \in 1..toknext /\ p[n] \in 1..toknext
      /\ told[p[n]] = Thing(Kind(doc[n].type),
                            IF HasKey(doc, doc[n]) THEN p[n] - 1 ELSE Holder(p, doc[n]),
                            TextAt(doc[n]))
      /\ HasKey(doc, doc[n]) =>
           told[p[n] - 1] = Thing("string", Holder(p, doc[n]), doc[n].name)
  BY <1>2, <1>3 DEF Mirrors
<1>5. ASSUME NEW i \in 1..toknext, NEW type, NEW parent, NEW text,
             told[i] = Thing(type, parent, text)
      PROVE  /\ tokens[i].type = type /\ tokens[i].parent = parent
             /\ type \in {"string", "primitive"} => TextOf(i) = text
  <2>1. Show(tokens[i]) = Thing(type, parent, text)
    BY <1>2, <1>5
  <2> DEFINE shown == IF tokens[i].type \in {"string", "primitive"}
                      THEN SubSeq(js, tokens[i].start + 1, tokens[i].end) ELSE <<>>
  <2>2. Show(tokens[i]) = Thing(tokens[i].type, tokens[i].parent, shown)
    BY DEF Show
  <2> HIDE DEF shown
  <2>3. tokens[i].type = type /\ tokens[i].parent = parent /\ shown = text
    BY <2>1, <2>2 DEF Thing
  <2>4. QED BY <2>3 DEF shown, TextOf
<1>6. doc[n].type \notin Container => Kind(doc[n].type) \in {"string", "primitive"}
  BY DEF Kind
<1>7. HasKey(doc, doc[n]) => p[n] - 1 \in 1..toknext
  BY <1>4 DEF Begins
<1>8. QED BY <1>4, <1>5, <1>6, <1>7

\* The tokens of two elements, and where a token belongs.
LEMMA TokenOrder ==
  ASSUME NEW p, Seen(p)
  PROVE  /\ \A n, m \in 1..Len(doc) : n < m => p[n] < p[m]
         /\ \A n, m \in 1..Len(doc) : p[n] < p[m] => n < m
         /\ \A n, m \in 1..Len(doc) : p[n] = p[m] => n = m
         /\ \A n, m \in 1..Len(doc) : HasKey(doc, doc[m]) => p[n] # p[m] - 1
         /\ \A i \in 1..toknext : \E n \in 1..Len(doc) :
              \/ i = p[n]
              \/ HasKey(doc, doc[n]) /\ i = p[n] - 1
<1> DEFINE told == ShowAll(tokens)
           D == 1..Len(doc)
<1>1. /\ tokens \in Seq(TokenSet) /\ toknext \in Nat
  BY DEF Seen, Arranged, ParserOK
<1>2. Len(told) = toknext
  BY <1>1, ShowAllIs DEF toknext
<1> HIDE DEF told
<1>3. /\ \A n, m \in D : n < m => p[n] < Begins(doc, p, m)
      /\ \A i \in 1..toknext : \E n \in D : i \in Begins(doc, p, n)..p[n]
      /\ Len(doc) \in Nat
  BY <1>2, LenProperties DEF Seen, Mirror, told
<1>4. \A n \in D : p[n] \in 1..toknext
  BY TokenOf
<1>5. \A n \in D : Begins(doc, p, n) = IF HasKey(doc, doc[n]) THEN p[n] - 1 ELSE p[n]
  BY DEF Begins
<1> DEFINE K(n) == HasKey(doc, doc[n])
<1>6. \A n \in D : n \in Int /\ p[n] \in Int
  BY <1>4
<1> HIDE DEF K
<1>7. \A n, m \in D : n < m => p[n] < p[m] /\ (K(m) => p[n] < p[m] - 1)
  BY <1>3, <1>5, <1>6 DEF K
<1>8. \A n, m \in D : n < m \/ n = m \/ m < n
  BY <1>6
<1> HIDE DEF D
<1>9. \A n, m \in D : p[n] < p[m] => n < m
  BY <1>6, <1>7, <1>8
<1>10. \A n, m \in D : p[n] = p[m] => n = m
  BY <1>6, <1>7, <1>8
<1>11. \A n, m \in D : K(m) => p[n] # p[m] - 1
  BY <1>6, <1>7, <1>8
<1>12. ASSUME NEW i \in 1..toknext
       PROVE  \E n \in D : i = p[n] \/ (K(n) /\ i = p[n] - 1)
  <2>1. PICK n \in D : i \in Begins(doc, p, n)..p[n]
    BY <1>3
  <2>2. i = p[n] \/ (K(n) /\ i = p[n] - 1)
    BY <2>1, <1>5, <1>6 DEF K
  <2>3. QED BY <2>2
<1>13. QED BY <1>7, <1>9, <1>10, <1>11, <1>12 DEF D, K


\* The keys of an object, and the elements of an array.
LEMMA KidsOf ==
  ASSUME NEW p, Seen(p), NEW n \in 1..Len(doc)
  PROVE  /\ doc[n].type = "object" => \A k :
              k \in Kids(tokens, p[n]) <=> \E m \in Children(n) : k = p[m] - 1
         /\ doc[n].type = "array" => \A k :
              k \in Kids(tokens, p[n]) <=> \E m \in Children(n) : k = p[m]
<1> DEFINE D == 1..Len(doc)
           P(m) == doc[m].parent
           K(m) == HasKey(doc, doc[m])
<1>1. Len(doc) \in Nat /\ toknext = Len(tokens)
  BY LenProperties DEF Seen, Mirror, toknext
<1>2. \A m \in D : P(m) \in 0..(m - 1)
  BY DEF Seen, Mirror, Mirrors
<1>3. \A m \in D : P(m) # 0 => P(m) \in D
  BY <1>1, <1>2
<1>4. \A m \in D : K(m) <=> P(m) # 0 /\ doc[P(m)].type = "object"
  BY DEF HasKey
<1>5. \A m : m \in Children(n) <=> m \in D /\ P(m) = n
  BY DEF Children
<1>6. \A m \in D : p[m] \in 1..toknext /\ (K(m) => p[m] - 1 \in 1..toknext)
  BY TokenOf
<1>7. \A m \in D : Holder(p, doc[m]) = IF P(m) = 0 THEN 0 ELSE p[P(m)]
  BY DEF Holder
<1>8. \A m \in D : tokens[p[m]].parent = IF K(m) THEN p[m] - 1 ELSE Holder(p, doc[m])
  BY TokenOf
<1>9. \A m \in D : K(m) => tokens[p[m] - 1].parent = Holder(p, doc[m])
  BY TokenOf
<1>10. /\ \A a, b \in D : p[a] = p[b] => a = b
       /\ \A a, b \in D : K(b) => p[a] # p[b] - 1
       /\ \A i \in 1..toknext : \E m \in D : i = p[m] \/ (K(m) /\ i = p[m] - 1)
  BY TokenOrder
<1>11. \A k : k \in Kids(tokens, p[n]) <=> k \in 1..toknext /\ tokens[k].parent = p[n]
  BY <1>1 DEF Kids
<1>12. n \in D /\ n # 0 /\ p[n] # 0
  BY <1>6
<1> HIDE DEF D, P, K
\* Whose key and whose value a token of the element is.
<1>13. ASSUME NEW m \in D, p[n] = Holder(p, doc[m])
       PROVE  P(m) = n
  <2>1. P(m) # 0 /\ p[n] = p[P(m)]
    BY <1>13, <1>7, <1>12
  <2>2. QED BY <2>1, <1>3, <1>10, <1>12
<1>14. ASSUME NEW m \in D, P(m) = n
       PROVE  Holder(p, doc[m]) = p[n]
  BY <1>14, <1>7, <1>12
<1>15. ASSUME NEW k, k \in Kids(tokens, p[n])
       PROVE  \E m \in D : P(m) = n /\ IF K(m) THEN k = p[m] - 1 ELSE k = p[m]
  <2>1. k \in 1..toknext /\ tokens[k].parent = p[n]
    BY <1>11, <1>15
  <2>2. PICK m \in D : k = p[m] \/ (K(m) /\ k = p[m] - 1)
    BY <2>1, <1>10
  <2>3. CASE K(m) /\ k = p[m] - 1
    <3>1. p[n] = Holder(p, doc[m])
      BY <2>1, <2>3, <1>9
    <3>2. QED BY <3>1, <2>3, <1>13
  <2>4. CASE K(m) /\ k = p[m]
    <3>1. p[n] = p[m] - 1
      BY <2>1, <2>4, <1>8
    <3>2. QED BY <3>1, <2>4, <1>10, <1>12
  <2>5. CASE ~ K(m)
    <3>1. k = p[m]
      BY <2>2, <2>5
    <3>2. p[n] = Holder(p, doc[m])
      BY <2>1, <2>5, <3>1, <1>8
    <3>3. QED BY <3>1, <3>2, <2>5, <1>13
  <2>6. QED BY <2>2, <2>3, <2>4, <2>5
<1>16. ASSUME NEW m \in D, P(m) = n
       PROVE  (IF K(m) THEN p[m] - 1 ELSE p[m]) \in Kids(tokens, p[n])
  <2>1. Holder(p, doc[m]) = p[n]
    BY <1>14, <1>16
  <2>2. CASE K(m)
    <3>1. tokens[p[m] - 1].parent = p[n] /\ p[m] - 1 \in 1..toknext
      BY <2>1, <2>2, <1>6, <1>9
    <3> DEFINE k == p[m] - 1
    <3> HIDE DEF k
    <3>2. k \in Kids(tokens, p[n])
      BY <3>1, <1>11 DEF k
    <3>3. QED BY <3>2, <2>2 DEF k
  <2>3. CASE ~ K(m)
    <3>1. tokens[p[m]].parent = p[n] /\ p[m] \in 1..toknext
      BY <2>1, <2>3, <1>6, <1>8
    <3>2. QED BY <3>1, <2>3, <1>11
  <2>4. QED BY <2>2, <2>3
<1>17. \A m \in D : P(m) = n => (K(m) <=> doc[n].type = "object")
  BY <1>4, <1>12
<1>18. ASSUME doc[n].type = "object", NEW k
       PROVE  k \in Kids(tokens, p[n]) <=> \E m \in Children(n) : k = p[m] - 1
  <2>1. ASSUME k \in Kids(tokens, p[n]) PROVE \E m \in Children(n) : k = p[m] - 1
    BY <1>5, <1>15, <1>17, <1>18, <2>1
  <2>2. ASSUME NEW m \in Children(n), k = p[m] - 1 PROVE k \in Kids(tokens, p[n])
    BY <1>5, <1>16, <1>17, <1>18, <2>2
  <2>3. QED BY <2>1, <2>2
<1>19. ASSUME doc[n].type = "array", NEW k
       PROVE  k \in Kids(tokens, p[n]) <=> \E m \in Children(n) : k = p[m]
  <2>1. ASSUME k \in Kids(tokens, p[n]) PROVE \E m \in Children(n) : k = p[m]
    BY <1>5, <1>15, <1>17, <1>19, <2>1
  <2>2. ASSUME NEW m \in Children(n), k = p[m] PROVE k \in Kids(tokens, p[n])
    BY <1>5, <1>16, <1>17, <1>19, <2>2
  <2>3. QED BY <2>1, <2>2
<1>20. QED BY <1>18, <1>19

\* What the reader finds for element m when it asks for a type.
Answer(p, m, type) == IF m # 0 /\ Kind(doc[m].type) = type THEN p[m] ELSE 0

\* The parser finds under a name what the client has put there first.
LEMMA NamedIs ==
  ASSUME NEW p, Seen(p), at \in 1..Len(doc), cur = p[at], NEW name
  PROVE  \A type : ValueOf(name, type) = Answer(p, Named(at, name), type)
<1> DEFINE D == 1..Len(doc)
           C == Children(at)
           same == {c \in C : doc[c].name = name}
           key == Key(name)
<1>1. /\ Len(doc) \in Nat
      /\ Arranged
      /\ cur \in 1..toknext
      /\ tokens[cur].type = Kind(doc[at].type)
  BY TokenOf, LenProperties DEF Seen, Mirror
<1>2. CASE doc[at].type # "object"
  <2>1. tokens[cur].type # "object"
    BY <1>1, <1>2 DEF Kind, Container
  <2>2. key = 0
    BY <2>1 DEF Key
  <2>3. Named(at, name) = 0
    BY <1>2 DEF Named
  <2>4. QED BY <2>2, <2>3 DEF ValueOf, Answer
<1>3. CASE doc[at].type = "object"
  <2>1. tokens[cur].type = "object"
    BY <1>1, <1>3 DEF Kind, Container
  <2>2. KeyFinds(name)
    BY <1>1, <2>1, KeyIs
  <2>3. \A k : k \in Kids(tokens, cur) <=> \E m \in C : k = p[m] - 1
    BY <1>3, KidsOf
  <2>4. \A m \in C : m \in D /\ HasKey(doc, doc[m])
    <3>1. at # 0
      BY <1>1
    <3>2. QED BY <3>1, <1>3 DEF Children, HasKey
  <2>5. \A m \in C : /\ p[m] \in Nat /\ p[m] # 0
                     /\ TextOf(p[m] - 1) = doc[m].name
                     /\ tokens[p[m]].type = Kind(doc[m].type)
    BY <2>4, TokenOf
  <2>6. \A a, b \in C : a < b => p[a] < p[b]
    BY <2>4, TokenOrder
  <2>7. Named(at, name) = IF same = {} THEN 0 ELSE Min(same)
    BY <1>3 DEF Named
  <2>8. key = 0 => \A c \in Kids(tokens, cur) : TextOf(c) # name
    BY <2>2 DEF KeyFinds
  <2>9. key # 0 => /\ key \in Kids(tokens, cur) /\ TextOf(key) = name
                   /\ \A c \in Kids(tokens, cur) : c < key => TextOf(c) # name
    BY <2>2 DEF KeyFinds
  <2>10. \A m : m \in same <=> m \in C /\ doc[m].name = name
    OBVIOUS
  <2>11. C \subseteq Nat /\ same \subseteq C
    BY <2>4
  <2>12. 0 \notin C
    BY <2>4
  <2> HIDE DEF C, same, D, key
  <2>13. CASE same = {}
    <3>1. key = 0
      BY <2>3, <2>5, <2>9, <2>10, <2>13
    <3>2. QED BY <3>1, <2>7, <2>13 DEF ValueOf, Answer, key
  <2>14. CASE same # {}
    <3> DEFINE m == Min(same)
    <3>1. m \in same /\ \A y \in same : m <= y
      BY <2>11, <2>14, LeastOf
    <3> HIDE DEF m
    <3>2. m \in C /\ doc[m].name = name
      BY <3>1, <2>10
    <3>3. p[m] - 1 \in Kids(tokens, cur) /\ TextOf(p[m] - 1) = name
      BY <3>2, <2>3, <2>5
    <3>4. key # 0
      BY <3>3, <2>8
    <3>5. PICK m2 \in C : key = p[m2] - 1
      BY <3>4, <2>3, <2>9
    <3>6. m2 \in same
      BY <3>4, <3>5, <2>5, <2>9, <2>10
    <3>7. ~ (p[m] - 1 < key)
      BY <3>3, <3>4, <2>9
    <3>8. p[m] \in Nat /\ p[m2] \in Nat /\ m \in Nat /\ m2 \in Nat
      BY <3>2, <2>5, <2>11
    <3>9. ~ (p[m] < p[m2])
      BY <3>5, <3>7, <3>8
    <3>10. ~ (m < m2)
      BY <3>2, <3>9, <2>6
    <3>11. m2 = m
      BY <3>1, <3>6, <3>8, <3>10
    <3>12. key + 1 = p[m]
      BY <3>5, <3>8, <3>11
    <3>13. tokens[p[m]].type = Kind(doc[m].type) /\ m # 0
      BY <3>2, <2>5, <2>12
    <3>14. Named(at, name) = m
      BY <2>7, <2>14 DEF m
    <3>15. \A type : ValueOf(name, type) = IF tokens[p[m]].type = type THEN p[m] ELSE 0
      BY <3>4, <3>12 DEF ValueOf, key
    <3>16. QED BY <3>13, <3>14, <3>15 DEF Answer
  <2>15. QED BY <2>13, <2>14
<1>4. QED BY <1>2, <1>3

\* As many tokens as elements.
LEMMA OneEach ==
  ASSUME NEW p, Seen(p), NEW S, S \subseteq 1..Len(doc)
  PROVE  /\ IsFiniteSet(S) /\ IsFiniteSet({p[m] : m \in S})
         /\ Cardinality({p[m] : m \in S}) = Cardinality(S)
<1> DEFINE T == {p[m] : m \in S}
           f == [m \in S |-> p[m]]
<1>1. IsFiniteSet(S)
  <2>1. Len(doc) \in Nat /\ 1 \in Int
    BY LenProperties DEF Seen, Mirror
  <2>2. IsFiniteSet(1..Len(doc)) /\ S \in SUBSET (1..Len(doc))
    BY <2>1, FS_Interval
  <2>3. QED BY <2>2, FS_Subset
<1>2. f \in [S -> T] /\ \A t \in T : \E s \in S : f[s] = t
  OBVIOUS
<1>3. \A a, b \in S : f[a] = f[b] => a = b
  <2>1. \A a, b \in S : p[a] = p[b] => a = b
    BY TokenOrder
  <2>2. QED BY <2>1
<1> HIDE DEF f, T
<1>4. f \in Bijection(S, T)
  <2>1. DOMAIN f = S
    BY DEF f
  <2>2. IsInjective(f)
    BY <1>3, <2>1 DEF IsInjective
  <2>3. QED BY <1>2, <2>2 DEF Bijection, Injection, Surjection
<1>5. ExistsBijection(S, T)
  BY <1>4 DEF ExistsBijection
<1>6. IsFiniteSet(T) /\ Cardinality(T) = Cardinality(S)
  BY <1>1, <1>5, FS_Bijection
<1>7. QED BY <1>1, <1>6 DEF T

\* A smaller part of a set of elements is smaller.
LEMMA FewerOf ==
  ASSUME NEW S, IsFiniteSet(S), NEW T, T \subseteq S, NEW m \in S, m \notin T
  PROVE  Cardinality(T) \in Nat /\ Cardinality(S) \in Nat /\ Cardinality(T) < Cardinality(S)
<1>1. /\ IsFiniteSet(T) /\ Cardinality(T) <= Cardinality(S)
      /\ Cardinality(S) = Cardinality(T) => S = T
  BY FS_Subset
<1>2. Cardinality(T) \in Nat /\ Cardinality(S) \in Nat
  BY <1>1, FS_CardinalityType
<1>3. Cardinality(S) # Cardinality(T)
  BY <1>1
<1> DEFINE s == Cardinality(S)
           t == Cardinality(T)
<1>4. s \in Nat /\ t \in Nat /\ t <= s /\ s # t
  BY <1>1, <1>2, <1>3
<1> HIDE DEF s, t
<1>5. t < s
  BY <1>4
<1>6. QED BY <1>2, <1>5 DEF s, t

\* The parser finds at an index what the client has put there.
LEMMA IndexedIs ==
  ASSUME NEW p, Seen(p), at \in 1..Len(doc), cur = p[at], NEW index \in Nat
  PROVE  \A type : ItemAt(index, type) = Answer(p, Item(at, index), type)
<1> DEFINE D == 1..Len(doc)
           C == Children(at)
           K == Kids(tokens, cur)
           before(m) == {b \in C : b < m}
           ahead(c) == {b \in K : b < c}
           there == {c \in C : Cardinality(before(c)) = index}
           size == tokens[cur].size
<1>1. /\ Len(doc) \in Nat
      /\ Arranged
      /\ cur \in 1..toknext /\ toknext = Len(tokens)
      /\ tokens[cur].type = Kind(doc[at].type)
  BY TokenOf, LenProperties DEF Seen, Mirror, toknext
<1>2. CASE doc[at].type # "array"
  <2>1. tokens[cur].type # "array"
    BY <1>1, <1>2 DEF Kind, Container
  <2>2. \A type : ItemAt(index, type) = 0
    BY <2>1 DEF ItemAt
  <2>3. Item(at, index) = 0
    BY <1>2 DEF Item
  <2>4. QED BY <2>2, <2>3 DEF Answer
<1>3. CASE doc[at].type = "array"
  <2>1. tokens[cur].type = "array"
    BY <1>1, <1>3 DEF Kind, Container
  <2>2. \A type : ItemFinds(index, type)
    BY <1>1, <2>1, ItemIs
  <2>3. \A k : k \in K <=> \E m \in C : k = p[m]
    <3>1. \A k : k \in Kids(tokens, p[at]) <=> \E m \in Children(at) : k = p[m]
      BY <1>3, KidsOf
    <3>2. QED BY <3>1
  <2>4. C \subseteq D /\ 0 \notin C
    BY DEF Children
  <2>5. \A m \in C : p[m] \in Nat /\ p[m] # 0 /\ tokens[p[m]].type = Kind(doc[m].type)
    BY <2>4, TokenOf
  <2>6. /\ \A a, b \in C : a < b => p[a] < p[b]
        /\ \A a, b \in C : p[a] < p[b] => a < b
    BY <2>4, TokenOrder
  <2>7. Item(at, index) = IF there = {} THEN 0 ELSE Min(there)
    BY <1>3 DEF Item
  <2>8. size = Cardinality(K)
    BY <1>1 DEF Arranged, Sized
  <2> HIDE DEF size, K, C, D
  <2>9. IsFiniteSet(C) /\ Cardinality(K) = Cardinality(C)
    <3>1. K = {p[m] : m \in C}
      BY <2>3
    <3>2. QED BY <3>1, <2>4, OneEach DEF D
  <2>10. ASSUME NEW m \in C
         PROVE  Cardinality(ahead(p[m])) = Cardinality(before(m))
    <3> DEFINE S == before(m)
    <3>1. S \subseteq C
      OBVIOUS
    <3>2. ahead(p[m]) = {p[b] : b \in S}
      <4>1. ASSUME NEW k \in ahead(p[m]) PROVE k \in {p[b] : b \in S}
        BY <2>3, <2>6
      <4>2. ASSUME NEW b \in S PROVE p[b] \in ahead(p[m])
        BY <2>3, <2>6
      <4>3. QED BY <4>1, <4>2
    <3> HIDE DEF S
    <3>3. S \subseteq 1..Len(doc)
      BY <3>1, <2>4 DEF D
    <3>4. Cardinality({p[b] : b \in S}) = Cardinality(S)
      BY <3>3, OneEach
    <3>5. QED BY <3>2, <3>4 DEF S
  <2>11. \A m \in C : m \in Nat /\ m \in D
    BY <2>4 DEF D
  <2>12. ASSUME NEW m \in C
         PROVE  /\ Cardinality(before(m)) \in Nat /\ Cardinality(C) \in Nat
                /\ Cardinality(before(m)) < Cardinality(C)
    <3> DEFINE S == before(m)
    <3>1. S \subseteq C /\ m \notin S
      BY <2>11
    <3> HIDE DEF S
    <3>2. Cardinality(S) \in Nat /\ Cardinality(C) \in Nat /\ Cardinality(S) < Cardinality(C)
      BY <3>1, <2>9, FewerOf
    <3>3. QED BY <3>2 DEF S
  <2>13. ASSUME NEW a \in C, NEW b \in C, a < b
         PROVE  Cardinality(before(a)) < Cardinality(before(b))
    <3> DEFINE S == before(a)
               T == before(b)
    <3>1. S \subseteq T /\ a \in T /\ a \notin S
      BY <2>11, <2>13
    <3>2. IsFiniteSet(T)
      <4>1. T \in SUBSET C
        OBVIOUS
      <4>2. QED BY <4>1, <2>9, FS_Subset
    <3> HIDE DEF S, T
    <3>3. Cardinality(S) < Cardinality(T)
      BY <3>1, <3>2, FewerOf
    <3>4. QED BY <3>3 DEF S, T
  <2>14. \A m : m \in there <=> m \in C /\ Cardinality(before(m)) = index
    OBVIOUS
  <2> HIDE DEF before, there
  <2>15. CASE index < size
    <3>1. ASSUME NEW type
          PROVE  ItemAt(index, type) = Answer(p, Item(at, index), type)
      <4>1. PICK c : /\ IsChild(cur, index + 1, c)
                     /\ ItemAt(index, type) = IF tokens[c].type = type THEN c ELSE 0
        BY <2>2, <2>15 DEF ItemFinds, size
      <4>2. c \in K /\ Cardinality(ahead(c)) = index
        <5>1. (index + 1) - 1 = index
          OBVIOUS
        <5>2. QED BY <4>1, <5>1 DEF IsChild, K
      <4> HIDE DEF ahead
      <4>3. PICK m \in C : c = p[m]
        BY <4>2, <2>3
      <4>4. Cardinality(before(m)) = index
        BY <4>2, <4>3, <2>10
      <4>5. m \in there
        BY <4>4, <2>14
      <4>6. there \subseteq Nat
        BY <2>11, <2>14
      <4> DEFINE least == Min(there)
      <4>7. least \in there
        BY <4>5, <4>6, LeastOf
      <4>8. Item(at, index) = least
        BY <4>5, <2>7
      <4> HIDE DEF least
      <4>9. least \in C /\ Cardinality(before(least)) = index
        BY <4>7, <2>14
      <4>10. ~ (least < m) /\ ~ (m < least)
        <5>1. ~ (index < index)
          OBVIOUS
        <5>2. QED BY <5>1, <4>4, <4>9, <2>13
      <4>11. least = m
        BY <4>9, <4>10, <2>11
      <4>12. m # 0 /\ tokens[p[m]].type = Kind(doc[m].type)
        BY <2>4, <2>5
      <4>13. QED BY <4>1, <4>3, <4>8, <4>11, <4>12 DEF Answer
    <3>2. QED BY <3>1
  <2>16. CASE ~ (index < size)
    <3>1. \A type : ItemAt(index, type) = 0
      BY <2>2, <2>16 DEF ItemFinds, size
    <3>2. there = {}
      <4>1. ASSUME NEW m \in there PROVE FALSE
        <5>1. m \in C /\ Cardinality(before(m)) = index
          BY <2>14, <4>1
        <5>2. index < Cardinality(C)
          BY <5>1, <2>12
        <5>3. index < size
          BY <5>2, <2>8, <2>9
        <5>4. QED BY <5>3, <2>16
      <4>2. QED BY <4>1
    <3>3. Item(at, index) = 0
      BY <3>2, <2>7
    <3>4. QED BY <3>1, <3>3 DEF Answer
  <2>17. QED BY <2>15, <2>16
<1>4. QED BY <1>2, <1>3

----------------------------------------------------------------------------
(* What the parser reads in the token of an element is what the client has *)
(* put there.                                                              *)

\* The word of a value, read as a truth value.
Truth(word) == CASE word \in {<<"true">>, <<"1">>}  -> Found(TRUE)
                 [] word \in {<<"false">>, <<"0">>} -> Found(FALSE)
                 [] OTHER -> Nothing
AsBool(v) == CASE v.type = "bool" -> Found(v.val)
               [] v.type = "int" /\ v.val \in {0, 1} -> Found(v.val = 1)
               [] OTHER -> Nothing

LEMMA WordsRead ==
  ASSUME NEW v \in Value, v.type # "string"
  PROVE  /\ Truth(Word(v)) = AsBool(v)
         /\ Reading(Integer, Word(v), AsInt(v))
         /\ Reading(Float, Word(v), AsFloat(v))
<1> DEFINE w == Word(v)
<1>1. /\ Reading(Integer, w, AsInt(v)) /\ Reading(Float, w, AsFloat(v))
      /\ v.type \in {"bool", "int", "float", "null"}
      /\ v.type = "bool" => v.val \in BOOLEAN
      /\ v.type = "int" => /\ w = <<"1">> <=> v.val = 1
                           /\ w = <<"0">> <=> v.val = 0
                           /\ w \notin {<<"true">>, <<"false">>}
  BY WordAssumption
<1>2. CASE v.type = "bool"
  <2>1. w = <<IF v.val THEN "true" ELSE "false">>
    BY <1>2 DEF Word
  <2>2. AsBool(v) = Found(v.val)
    BY <1>2 DEF AsBool
  <2> HIDE DEF w
  <2>3. CASE v.val = TRUE
    <3>1. w = <<"true">>
      BY <2>1, <2>3
    <3>2. Truth(w) = Found(TRUE)
      BY <3>1 DEF Truth
    <3>3. QED BY <3>2, <2>2, <2>3, <1>1 DEF w
  <2>4. CASE v.val = FALSE
    <3>1. w = <<"false">>
      BY <2>1, <2>4
    <3>2. Truth(w) = Found(FALSE)
      <4>1. w \notin {<<"true">>, <<"1">>}
        BY <3>1
      <4>2. QED BY <3>1, <4>1 DEF Truth
    <3>3. QED BY <3>2, <2>2, <2>4, <1>1 DEF w
  <2>5. v.val = TRUE \/ v.val = FALSE
    BY <1>1, <1>2
  <2>6. QED BY <2>3, <2>4, <2>5
<1>3. CASE v.type = "int"
  <2>1. AsBool(v) = IF v.val \in {0, 1} THEN Found(v.val = 1) ELSE Nothing
    BY <1>3 DEF AsBool
  <2>2. /\ w = <<"1">> <=> v.val = 1
        /\ w = <<"0">> <=> v.val = 0
        /\ w # <<"true">> /\ w # <<"false">>
    BY <1>1, <1>3
  <2> HIDE DEF w
  <2>3. CASE v.val = 1
    <3>1. Truth(w) = Found(TRUE)
      <4>1. w = <<"1">>
        BY <2>2, <2>3
      <4>2. QED BY <4>1 DEF Truth
    <3>2. AsBool(v) = Found(TRUE)
      BY <2>1, <2>3
    <3>3. QED BY <3>1, <3>2, <1>1 DEF w
  <2>4. CASE v.val = 0
    <3>1. w \notin {<<"true">>, <<"1">>}
      BY <2>2, <2>4
    <3>2. Truth(w) = Found(FALSE)
      BY <2>2, <2>4, <3>1 DEF Truth
    <3>3. AsBool(v) = Found(FALSE)
      <4>1. (v.val = 1) = FALSE /\ v.val \in {0, 1}
        BY <2>4
      <4>2. QED BY <2>1, <4>1
    <3>4. QED BY <3>2, <3>3, <1>1 DEF w
  <2>5. CASE v.val # 1 /\ v.val # 0
    <3>1. Truth(w) = Nothing
      BY <2>2, <2>5 DEF Truth
    <3>2. AsBool(v) = Nothing
      BY <2>1, <2>5
    <3>3. QED BY <3>1, <3>2, <1>1 DEF w
  <2>6. QED BY <2>3, <2>4, <2>5
<1>4. CASE v.type = "float" \/ v.type = "null"
  <2>1. AsBool(v) = Nothing
    BY <1>4 DEF AsBool
  <2>2. \A c \in {"true", "false", "1", "0"} : w # <<c>>
    <3>1. CASE v.type = "float"
      <4> DEFINE a == ToString(FloatPrinted(v.val) \div 100000)
                 b == ToString(FloatPrinted(v.val) % 100000)
      <4>1. w = <<a, ".", b>>
        BY <3>1 DEF Word
      <4> HIDE DEF a, b, w
      <4>2. Len(w) = 3
        BY <4>1
      <4>3. \A c : Len(<<c>>) = 1
        OBVIOUS
      <4>4. QED BY <4>2, <4>3
    <3>2. CASE v.type = "null"
      <4>1. w = <<"null">>
        BY <3>2 DEF Word
      <4> HIDE DEF w
      <4>2. QED BY <4>1
    <3>3. QED BY <1>4, <3>1, <3>2
  <2> HIDE DEF w
  <2>3. Truth(w) = Nothing
    BY <2>2 DEF Truth
  <2>4. QED BY <2>1, <2>3, <1>1 DEF w
<1>5. QED BY <1>1, <1>2, <1>3, <1>4

\* The answers for an element of which the parser has the token, and for
\* what is not there.
LEMMA AnswersAgree ==
  ASSUME NEW p, Seen(p), NEW n \in 0..Len(doc)
  PROVE  Agrees(n, Answer(p, n, "primitive"), Answer(p, n, "string"),
                Answer(p, n, "object"), Answer(p, n, "array"))
<1>1. MaxLong \in Nat /\ Len(doc) \in Nat
  BY DocAssumption, LenProperties DEF Seen, Mirror
<1>2. CASE n = 0
  <2>1. \A type : Answer(p, n, type) = 0
    BY <1>2 DEF Answer
  <2>2. QED BY <1>2, <2>1 DEF Agrees, json_get_bool, json_get_int, json_get_float,
                 json_get_string, json_get_strlen, WantBool, WantInt, WantFloat,
                 WantString, WantStrlen
<1>3. CASE n # 0
  <2> DEFINE node == doc[n]
             i == p[n]
             prim == Answer(p, n, "primitive")
             str == Answer(p, n, "string")
             obj == Answer(p, n, "object")
             arr == Answer(p, n, "array")
  <2>1. n \in 1..Len(doc)
    BY <1>1, <1>3
  <2>2. i # 0 /\ (node.type \notin Container => TextOf(i) = TextAt(node))
    BY <2>1, TokenOf
  <2>3. Proper(node) /\ TextAt(node) \in Seq(TextChar)
    <3>1. Mirrors(doc, ShowAll(tokens), p, n) /\ ShowAll(tokens) \in Seq(Things(TextChar))
      BY <2>1 DEF Seen, Mirror
    <3> DEFINE type == Kind(node.type)
               parent == IF HasKey(doc, node) THEN p[n] - 1 ELSE Holder(p, node)
               text == TextAt(node)
               told == ShowAll(tokens)
    <3>2. told[i] = Thing(type, parent, text) /\ i \in 1..Len(told) /\ Proper(node)
      BY <3>1 DEF Mirrors
    <3>3. told \in Seq(Things(TextChar))
      BY <3>1
    <3> HIDE DEF told, type, parent, text
    <3>4. told[i] \in Things(TextChar)
      BY <3>2, <3>3, ElementOfSeq
    <3>5. text \in Seq(TextChar)
      BY <3>2, <3>4 DEF Things, Thing
    <3>6. QED BY <3>2, <3>5 DEF text
  <2>4. \A type : Answer(p, n, type) = IF Kind(node.type) = type THEN i ELSE 0
    BY <1>3 DEF Answer
  <2>5. /\ WantBool(n) = AsBool(node) /\ WantInt(n) = AsInt(node)
        /\ WantFloat(n) = AsFloat(node)
    BY <1>3 DEF WantBool, WantInt, WantFloat, AsBool
  <2>6. \A size \in 1..(MaxLong + 1) :
          WantString(n, size) = IF node.type = "string" /\ Len(node.val) < size
                                THEN Found(node.val) ELSE Nothing
    BY <1>3 DEF WantString
  <2>7. WantStrlen(n) = IF node.type = "string" THEN Found(Len(node.val)) ELSE Nothing
    BY <1>3 DEF WantStrlen
  <2>8. /\ (n # 0 /\ doc[n].type = "object") = (node.type = "object")
        /\ (n # 0 /\ doc[n].type = "array") = (node.type = "array")
    BY <1>3
  <2> HIDE DEF node, i
  <2>9. CASE node.type \in Container
    <3>1. Kind(node.type) = node.type /\ node.type \in {"object", "array"}
      BY <2>9 DEF Kind, Container
    <3>2. prim = 0 /\ str = 0 /\ (obj # 0) = (node.type = "object")
          /\ (arr # 0) = (node.type = "array")
      BY <2>2, <2>4, <3>1
    <3>3. /\ AsBool(node) = Nothing /\ AsInt(node) = Nothing /\ AsFloat(node) = Nothing
          /\ node.type # "string"
      BY <3>1 DEF AsBool, AsInt, AsFloat
    <3> HIDE DEF prim, str, obj, arr
    <3>4. Agrees(n, prim, str, obj, arr)
      BY <2>5, <2>6, <2>7, <2>8, <3>2, <3>3 DEF Agrees, json_get_bool, json_get_int,
         json_get_float, json_get_string, json_get_strlen, node
    <3>5. QED BY <3>4 DEF prim, str, obj, arr
  <2>10. CASE node.type = "string"
    <3>1. Kind(node.type) = "string" /\ node.type \notin Container
      BY <2>10 DEF Kind, Container
    <3>2. prim = 0 /\ str = i /\ obj = 0 /\ arr = 0
      BY <2>4, <3>1
    <3>3. AsBool(node) = Nothing /\ AsInt(node) = Nothing /\ AsFloat(node) = Nothing
      BY <2>10 DEF AsBool, AsInt, AsFloat
    <3>4. TextOf(i) = node.val /\ Len(node.val) \in Nat
      <4>1. TextAt(node) = node.val
        BY <3>1, <2>10 DEF TextAt
      <4>2. QED BY <4>1, <3>1, <2>2, <2>3, LenProperties
    <3> HIDE DEF prim, str, obj, arr
    <3>5. ASSUME NEW size \in 1..(MaxLong + 1)
          PROVE  json_get_string(str, size) = WantString(n, size)
      <4>1. json_get_string(str, size) = IF Len(node.val) > size - 1 THEN Nothing
                                         ELSE Found(node.val)
        BY <3>2, <3>4, <2>2 DEF json_get_string, TokToString
      <4>2. Len(node.val) > size - 1 <=> ~ (Len(node.val) < size)
        BY <3>4, <1>1
      <4>3. QED BY <4>1, <4>2, <2>6, <2>10
    <3>6. json_get_strlen(str) = WantStrlen(n)
      BY <3>2, <3>4, <2>2, <2>7, <2>10 DEF json_get_strlen, TokToStrlen
    <3>7. /\ json_get_bool(prim) = WantBool(n) /\ json_get_int(prim) = WantInt(n)
          /\ json_get_float(prim) = WantFloat(n)
      BY <3>2, <3>3, <2>5 DEF json_get_bool, json_get_int, json_get_float
    <3>8. /\ (obj # 0) = (node.type = "object")
          /\ (arr # 0) = (node.type = "array")
      BY <3>2, <2>10
    <3>9. Agrees(n, prim, str, obj, arr)
      BY <3>5, <3>6, <3>7, <3>8, <2>8 DEF Agrees
    <3>10. QED BY <3>9 DEF prim, str, obj, arr
  <2>11. CASE node.type \notin Container \cup {"string"}
    <3>1. Kind(node.type) = "primitive" /\ node.type \notin {"object", "array", "string"}
      BY <2>11 DEF Kind, Container
    <3>2. prim = i /\ str = 0 /\ obj = 0 /\ arr = 0
      BY <2>4, <3>1
    <3>3. PICK v \in Value : v.type # "string" /\ v.type = node.type /\ v.val = node.val
      BY <2>3, <2>11 DEF Proper
    <3>4. /\ Word(v) = Word(node) /\ AsBool(v) = AsBool(node)
          /\ AsInt(v) = AsInt(node) /\ AsFloat(v) = AsFloat(node)
      BY <3>3 DEF Word, AsBool, AsInt, AsFloat
    <3> DEFINE w == Word(node)
    <3>5. TextOf(i) = w
      BY <2>2, <2>11, <3>1 DEF TextAt
    <3>6. /\ Truth(w) = AsBool(node)
          /\ Reading(Integer, w, AsInt(node)) /\ Reading(Float, w, AsFloat(node))
      BY <3>3, <3>4, WordsRead
    <3> HIDE DEF prim, str, obj, arr, w
    <3>7. json_get_bool(prim) = WantBool(n)
      <4>1. json_get_bool(prim) = Truth(w)
        BY <2>2, <3>2, <3>5 DEF json_get_bool, TokToBool, Truth
      <4>2. QED BY <4>1, <3>6, <2>5
    <3>8. json_get_int(prim) = WantInt(n)
      <4>1. json_get_int(prim) = IF w \in DOMAIN Integer THEN Found(Integer[w]) ELSE Nothing
        BY <2>2, <3>2, <3>5 DEF json_get_int, TokToInt
      <4>2. CASE node.type = "int"
        <5>1. AsInt(node) = Found(node.val)
          BY <4>2 DEF AsInt
        <5>2. w \in DOMAIN Integer /\ Integer[w] = node.val
          BY <5>1, <3>6 DEF Reading, Found
        <5>3. QED BY <4>1, <5>1, <5>2, <2>5
      <4>3. CASE node.type # "int"
        <5>1. AsInt(node) = Nothing
          BY <4>3 DEF AsInt
        <5>2. w \notin DOMAIN Integer
          BY <5>1, <3>6 DEF Reading, Nothing
        <5>3. QED BY <4>1, <5>1, <5>2, <2>5
      <4>4. QED BY <4>2, <4>3
    <3>9. json_get_float(prim) = WantFloat(n)
      <4>1. json_get_float(prim) = IF w \in DOMAIN Float THEN Found(Float[w]) ELSE Nothing
        BY <2>2, <3>2, <3>5 DEF json_get_float, TokToFloat
      <4>2. CASE node.type \in {"int", "float"}
        <5>1. PICK x : AsFloat(node) = Found(x)
          BY <4>2 DEF AsFloat
        <5>2. w \in DOMAIN Float /\ Float[w] = x
          BY <5>1, <3>6 DEF Reading, Found
        <5>3. QED BY <4>1, <5>1, <5>2, <2>5
      <4>3. CASE node.type \notin {"int", "float"}
        <5>1. AsFloat(node) = Nothing
          BY <4>3 DEF AsFloat
        <5>2. w \notin DOMAIN Float
          BY <5>1, <3>6 DEF Reading, Nothing
        <5>3. QED BY <4>1, <5>1, <5>2, <2>5
      <4>4. QED BY <4>2, <4>3
    <3>10. /\ \A size \in 1..(MaxLong + 1) : json_get_string(str, size) = WantString(n, size)
           /\ json_get_strlen(str) = WantStrlen(n)
      BY <3>1, <3>2, <2>6, <2>7 DEF json_get_string, json_get_strlen
    <3>11. /\ (obj # 0) = (node.type = "object")
           /\ (arr # 0) = (node.type = "array")
      BY <3>1, <3>2
    <3>12. Agrees(n, prim, str, obj, arr)
      BY <3>7, <3>8, <3>9, <3>10, <3>11, <2>8 DEF Agrees
    <3>13. QED BY <3>12 DEF prim, str, obj, arr
  <2>12. QED BY <2>9, <2>10, <2>11
<1>4. QED BY <1>2, <1>3

----------------------------------------------------------------------------
(* The parser is at the token of the element the reader is at.             *)

Followed == /\ Parsing => at = 1
            /\ pass = "ready" => /\ at \in 1..Len(doc)
                                 /\ \E p : Mirror(doc, ShowAll(tokens), p) /\ cur = p[at]

\* With the tokens and the document as they are, the reader has moved.
LEMMA FollowedMove ==
  ASSUME NEW p, Mirror(doc, ShowAll(tokens), p), pass = "ready", doc' = doc,
         at' \in 1..Len(doc), MoveTo(p[at'])
  PROVE  Followed'
<1>1. /\ pass' = "ready" /\ cur' = p[at'] /\ ~ Parsing' /\ tokens' = tokens /\ js' = js
  BY DEF MoveTo, Parsing
<1>2. ShowAll(tokens)' = ShowAll(tokens)
  BY <1>1 DEF ShowAll, Show
<1>3. Mirror(doc, ShowAll(tokens), p)' /\ cur' = p[at']
  <2>1. Mirror(doc', ShowAll(tokens)', p)
    BY <1>2
  <2>2. QED BY <1>1, <2>1
<1>4. (\E q : Mirror(doc, ShowAll(tokens), q) /\ cur = q[at])'
  BY <1>3
<1>5. QED BY <1>1, <1>4 DEF Followed

LEMMA FollowedStep ==
  ASSUME GenInv, ClientOK, Written, OverLong, ReadInv, Fate, Placed, Standing, Followed,
         [DocNext]_vars
  PROVE  Followed'
<1>1. /\ doc \in Seq(Nodes) /\ Len(doc) \in Nat
      /\ \A i \in 1..Len(doc) : doc[i].parent \in 0..(i - 1)
  BY LenProperties DEF ClientOK, Standing
<1>2. pass # "off" => stage = "ended" /\ doc' = doc
  BY EndedStays DEF Fate
<1>3. ASSUME UNCHANGED <<parseVars, at>>
      PROVE  Followed'
  <2>1. pass' = pass /\ tokens' = tokens /\ js' = js /\ cur' = cur /\ at' = at
    BY <1>3 DEF parseVars
  <2>2. ShowAll(tokens)' = ShowAll(tokens)
    BY <2>1 DEF ShowAll, Show
  <2>3. CASE pass = "ready"
    <3>1. PICK p : Mirror(doc, ShowAll(tokens), p) /\ cur = p[at]
      BY <2>3 DEF Followed
    <3>2. doc' = doc /\ at \in 1..Len(doc)
      BY <1>2, <2>3 DEF Followed
    <3>3. Mirror(doc', ShowAll(tokens)', p) /\ cur' = p[at']
      BY <2>1, <2>2, <3>1, <3>2
    <3>4. (\E q : Mirror(doc, ShowAll(tokens), q) /\ cur = q[at])'
      BY <3>3
    <3>5. QED BY <2>1, <2>3, <3>2, <3>4 DEF Followed, Parsing
  <2>4. CASE pass # "ready"
    BY <2>1, <2>4 DEF Followed, Parsing
  <2>5. QED BY <2>3, <2>4
<1>4. CASE AddStep \/ Client
  <2>1. UNCHANGED <<parseVars, at>>
    BY <1>4 DEF AddStep, Client, StartText, Root, AddToObject, AddToArray, MoreOfLong,
                Close, EndText, Opens, Sets, ByClient
  <2>2. QED BY <2>1, <1>3
<1>5. CASE ReadText
  <2>1. pass' = "count" /\ at' = 1
    BY <1>5 DEF ReadText, json_parse_start
  <2>2. QED BY <2>1 DEF Followed
<1>6. CASE Parse
  <2>1. Parsing /\ at' = at
    BY <1>6 DEF Parse, ParseStep, OpenBracket, CloseBracket, StringStarts, Primitive,
                Colon, Comma, SkipBlank, Counted, NoTokens, Tokenized, Parsing
  <2>2. at' = 1
    BY <2>1 DEF Followed
  <2>3. pass' = "ready" => cur' = 1
    BY <2>1, <1>6 DEF Parse, ParseStep, OpenBracket, CloseBracket, StringStarts, Primitive,
       Element, Colon, Comma, SkipBlank, Counted, NoTokens, Tokenized, Continue, Refuse,
       Parsing
  <2>4. stage = "ended" /\ doc' = doc
    BY <1>2, <2>1 DEF Parsing
  <2>5. 1 \in 1..Len(doc) /\ Len(doc) # 0
    <3>1. doc # <<>>
      BY <2>4 DEF ClientOK
    <3>2. Len(doc) # 0
      BY <3>1, <1>1, EmptySeq
    <3>3. QED BY <3>2, <1>1
  <2>6. CASE pass' = "ready"
    <3>1. Reflected'
      BY <2>6, FateStep DEF Fate
    <3>2. PICK p : Mirror(doc', ShowAll(tokens)', p)
      BY <3>1 DEF Reflected
    <3>3. p[1] = 1
      BY <3>2, <2>4, <2>5 DEF Mirror
    <3>4. cur' = p[at']
      BY <2>2, <2>3, <2>6, <3>3
    <3>5. (\E q : Mirror(doc, ShowAll(tokens), q) /\ cur = q[at])'
      BY <3>2, <3>4
    <3>6. at' \in 1..Len(doc')
      BY <2>2, <2>4, <2>5
    <3>7. QED BY <2>2, <3>5, <3>6 DEF Followed
  <2>7. QED BY <2>2, <2>6 DEF Followed
<1>7. CASE EndRead
  BY <1>7 DEF EndRead, json_parse_end, Followed, Parsing
<1>8. ASSUME pass = "ready" PROVE \E p : Seen(p) /\ cur = p[at] /\ at \in 1..Len(doc)
  BY <1>8 DEF Followed, Seen, Arranged, ReadInv, Placed, TreeOK, Fate
<1>9. CASE GoDown
  <2>1. pass = "ready"
    BY <1>9 DEF GoDown, json_obj_get, json_arr_get
  <2>2. PICK p : Seen(p) /\ cur = p[at] /\ at \in 1..Len(doc)
    BY <2>1, <1>8
  <2>3. Mirror(doc, ShowAll(tokens), p) /\ doc' = doc
    BY <2>1, <2>2, <1>2 DEF Seen
  <2>4. ASSUME NEW n \in 0..Len(doc), NEW type, Answer(p, n, type) # 0,
               MoveTo(Answer(p, n, type)), at' = n
        PROVE  Followed'
    <3>1. Answer(p, n, type) = p[n] /\ n # 0
      BY <2>4 DEF Answer
    <3>2. at' \in 1..Len(doc) /\ MoveTo(p[at'])
      BY <2>4, <3>1, <1>1
    <3>3. QED BY <3>2, <2>1, <2>3, FollowedMove
  <2>5. ASSUME NEW name, NEW type, json_obj_get(name, type), at' = Named(at, name)
        PROVE  Followed'
    <3>1. ValueOf(name, type) # 0 /\ MoveTo(ValueOf(name, type))
      BY <2>5 DEF json_obj_get
    <3>2. ValueOf(name, type) = Answer(p, Named(at, name), type)
      BY <2>2, NamedIs
    <3>3. Named(at, name) \in 0..Len(doc)
      BY <1>1, FindsElement
    <3>4. QED BY <3>1, <3>2, <3>3, <2>4, <2>5
  <2>6. ASSUME NEW index \in Nat, NEW type, json_arr_get(index, type), at' = Item(at, index)
        PROVE  Followed'
    <3>1. ItemAt(index, type) # 0 /\ MoveTo(ItemAt(index, type))
      BY <2>6 DEF json_arr_get
    <3>2. ItemAt(index, type) = Answer(p, Item(at, index), type)
      BY <2>2, IndexedIs
    <3>3. Item(at, index) \in 0..Len(doc)
      BY <1>1, FindsElement
    <3>4. QED BY <3>1, <3>2, <3>3, <2>4, <2>6
  <2>7. \A index \in 0..MaxNodes : index \in Nat
    BY DocAssumption
  <2>8. QED BY <1>9, <2>5, <2>6, <2>7 DEF GoDown
<1>10. CASE GoUp
  <2> DEFINE q == doc[at].parent
  <2>1. /\ pass = "ready" /\ at' = q
        /\ IF doc[q].type = "object" THEN json_obj_leave ELSE json_arr_leave
    BY <1>10 DEF GoUp
  <2>2. PICK p : Seen(p) /\ cur = p[at] /\ at \in 1..Len(doc)
    BY <2>1, <1>8
  <2>3. Mirror(doc, ShowAll(tokens), p) /\ doc' = doc
    BY <2>1, <2>2, <1>2 DEF Seen
  <2>4. /\ tokens[cur].parent = IF HasKey(doc, doc[at]) THEN p[at] - 1
                                ELSE Holder(p, doc[at])
        /\ HasKey(doc, doc[at]) => tokens[p[at] - 1].parent = Holder(p, doc[at])
    BY <2>2, TokenOf
  <2>5. /\ HasKey(doc, doc[at]) <=> q # 0 /\ doc[q].type = "object"
        /\ Holder(p, doc[at]) = IF q = 0 THEN 0 ELSE p[q]
    BY DEF HasKey, Holder
  <2>6. tokens[cur].parent # 0
    BY <2>1 DEF json_obj_leave, json_arr_leave
  <2>7. q # 0
    BY <2>4, <2>5, <2>6
  <2>8. q \in 1..Len(doc)
    <3>1. at \in Nat /\ q \in 0..(at - 1) /\ at <= Len(doc)
      BY <2>2, <1>1
    <3> HIDE DEF q
    <3>2. QED BY <3>1, <2>7, <1>1
  <2>9. p[q] # 0
    BY <2>2, <2>8, TokenOf
  <2> HIDE DEF q
  <2>10. MoveTo(p[q])
    <3>1. CASE doc[q].type = "object"
      <4> DEFINE key == tokens[cur].parent
      <4>1. MoveTo(IF tokens[key].parent = 0 THEN key ELSE tokens[key].parent)
        BY <2>1, <3>1 DEF json_obj_leave
      <4>2. tokens[key].parent = p[q]
        BY <2>4, <2>5, <2>7, <3>1
      <4> HIDE DEF key
      <4>3. QED BY <4>1, <4>2, <2>9
    <3>2. CASE doc[q].type # "object"
      <4>1. MoveTo(tokens[cur].parent)
        BY <2>1, <3>2 DEF json_arr_leave
      <4>2. tokens[cur].parent = p[q]
        BY <2>4, <2>5, <2>7, <3>2
      <4>3. QED BY <4>1, <4>2
    <3>3. QED BY <3>1, <3>2
  <2>11. at' \in 1..Len(doc) /\ MoveTo(p[at'])
    BY <2>1, <2>8, <2>10
  <2>12. QED BY <2>1, <2>3, <2>11, FollowedMove
<1>11. CASE UNCHANGED vars
  BY <1>3, <1>11 DEF vars, docVars
<1>12. QED BY <1>4, <1>5, <1>6, <1>7, <1>9, <1>10, <1>11 DEF DocNext, Reader

\* Where the parser is at the token of the reader's element, it answers as the
\* document says.
LEMMA FollowedAnswers ==
  ASSUME ParserOK, TreeOK, Fate, Followed, ClientOK
  PROVE  RoundTrip
<1>1. Len(doc) \in Nat
  BY LenProperties DEF ClientOK
<1>2. ASSUME pass = "ready"
      PROVE  /\ \A name \in Name :
                  Agrees(Named(at, name), ValueOf(name, "primitive"),
                         ValueOf(name, "string"), ValueOf(name, "object"),
                         ValueOf(name, "array"))
             /\ \A index \in 0..MaxNodes :
                  Agrees(Item(at, index), ItemAt(index, "primitive"),
                         ItemAt(index, "string"), ItemAt(index, "object"),
                         ItemAt(index, "array"))
  <2>1. PICK p : Seen(p) /\ cur = p[at] /\ at \in 1..Len(doc)
    BY <1>2 DEF Followed, Seen, Arranged, TreeOK, Fate
  <2>2. ASSUME NEW name \in Name
        PROVE  Agrees(Named(at, name), ValueOf(name, "primitive"),
                      ValueOf(name, "string"), ValueOf(name, "object"),
                      ValueOf(name, "array"))
    <3> DEFINE n == Named(at, name)
    <3>1. n \in 0..Len(doc)
      BY <1>1, FindsElement
    <3>2. \A type : ValueOf(name, type) = Answer(p, n, type)
      BY <2>1, NamedIs
    <3> HIDE DEF n
    <3>3. Agrees(n, Answer(p, n, "primitive"), Answer(p, n, "string"),
                 Answer(p, n, "object"), Answer(p, n, "array"))
      BY <2>1, <3>1, AnswersAgree
    <3>4. Agrees(n, ValueOf(name, "primitive"), ValueOf(name, "string"),
                 ValueOf(name, "object"), ValueOf(name, "array"))
      BY <3>2, <3>3
    <3>5. QED BY <3>4 DEF n
  <2>3. ASSUME NEW index \in 0..MaxNodes
        PROVE  Agrees(Item(at, index), ItemAt(index, "primitive"),
                      ItemAt(index, "string"), ItemAt(index, "object"),
                      ItemAt(index, "array"))
    <3> DEFINE n == Item(at, index)
    <3>1. index \in Nat
      BY DocAssumption
    <3>2. n \in 0..Len(doc)
      BY <1>1, <3>1, FindsElement
    <3>3. \A type : ItemAt(index, type) = Answer(p, n, type)
      BY <2>1, <3>1, IndexedIs
    <3> HIDE DEF n
    <3>4. Agrees(n, Answer(p, n, "primitive"), Answer(p, n, "string"),
                 Answer(p, n, "object"), Answer(p, n, "array"))
      BY <2>1, <3>2, AnswersAgree
    <3>5. Agrees(n, ItemAt(index, "primitive"), ItemAt(index, "string"),
                 ItemAt(index, "object"), ItemAt(index, "array"))
      BY <3>3, <3>4
    <3>6. QED BY <3>5 DEF n
  <2>4. QED BY <2>2, <2>3
<1>3. QED BY <1>2 DEF RoundTrip

----------------------------------------------------------------------------
(* All of it.                                                              *)

DocInv == /\ GenInv /\ ClientOK /\ Written /\ OverLong /\ ReadInv /\ Fate
          /\ Placed /\ Standing /\ Followed

LEMMA DocInvInit == DocInit => DocInv
<1> SUFFICES ASSUME DocInit PROVE DocInv
  OBVIOUS
<1>1. GenInv
  BY InitInv DEF DocInit
<1>2. OverLong
  BY DEF DocInit, ParserInit, Init, OverLong
<1>3. Fate /\ Followed
  BY DEF DocInit, ParserInit, Fate, Followed, Parsing
<1>4. Len(<<>>) = 0
  BY EmptySeq
<1>5. Placed /\ Standing
  BY <1>4, TreeEmpty DEF DocInit, ParserInit, Placed, TreeOK, Standing
<1>6. QED BY <1>1, <1>2, <1>3, <1>5, ClientInit, ReadInit DEF DocInv

LEMMA DocInvStep ==
  ASSUME DocInv, [DocNext]_vars
  PROVE  DocInv'
<1>1. /\ GenInv /\ ClientOK /\ Written /\ OverLong /\ ReadInv /\ Fate /\ TypeOK
      /\ Placed /\ Standing /\ Followed
  BY DEF DocInv, GenInv
<1>2. [Next]_genVars
  <2>1. CASE DocNext
    BY <2>1, StepOfGen
  <2>2. CASE UNCHANGED vars
    BY <2>2 DEF vars
  <2>3. QED BY <2>1, <2>2
<1>3. GenInv' /\ OverLong'
  BY <1>1, <1>2, NextInv, OverLongStep
<1>4. ClientOK' /\ Written'
  BY <1>1, ClientKeeps
<1>5. ReadInv'
  BY <1>1, ReadStep
<1>6. Fate' /\ Followed'
  BY <1>1, FateStep, FollowedStep
<1>7. Placed' /\ Standing'
  BY <1>1, PlacedStep, StandingStep
<1>8. QED BY <1>3, <1>4, <1>5, <1>6, <1>7 DEF DocInv

THEOREM DocCorrect == DocSpec => []DocInv
<1>1. DocInv /\ [DocNext]_vars => DocInv'
  BY DocInvStep
<1>2. QED BY <1>1, DocInvInit, PTL DEF DocSpec

\* The types, with the token the parser looks at and the element the reader
\* is at: json_obj_get_object and the like leave cur at a token there is.
THEOREM DocTypeCorrect == DocSpec => []DocTypeOK
<1>1. DocInv => DocTypeOK
  BY DEF DocInv, GenInv, ReadInv, ParserOK, Placed, Standing, DocTypeOK
<1>2. QED BY <1>1, DocCorrect, PTL

\* json_obj_search finds the first key of that name, with a value after it,
\* and misses none; json_arr_get_val_tok finds the element at that index:
\* json_skip_elem goes over an element with all that is in it, however deep.
LookUps ==
    pass = "ready" =>
        /\ tokens[cur].type = "object" => \A name :
              /\ KeyFinds(name)
              /\ Key(name) # 0 => Key(name) + 1 \in Kids(tokens, Key(name))
        /\ tokens[cur].type = "array" =>
              \A index \in Nat : \A type : ItemFinds(index, type)

THEOREM LookUpsCorrect == DocSpec => []LookUps
<1>1. ASSUME DocInv PROVE LookUps
  <2>1. pass = "ready" => Arranged /\ cur \in 1..toknext /\ Keyed(tokens, "end")
    BY <1>1 DEF DocInv, ReadInv, Fate, Placed, TreeOK, Arranged
  <2>2. QED BY <2>1, KeyIs, ValueIs, ItemIs DEF LookUps
<1>2. QED BY <1>1, DocCorrect, PTL

\* The tokens of an accepted text are the elements of the document the client
\* has built, each with its kind, its text and its key, under the token of
\* the element it is in: the generator's commas, quotes and brackets and the
\* tokenizer's sizes and parents lose nothing and add nothing.
TokensAreElements == pass = "ready" => Reflected

THEOREM TokensOfDocument == DocSpec => []TokensAreElements
<1>1. DocInv => TokensAreElements
  BY DEF DocInv, Fate, TokensAreElements
<1>2. QED BY <1>1, DocCorrect, PTL

\* Wherever json_obj_get_object, json_obj_leave_object and the like have
\* taken the reader, json_obj_get_* and json_arr_get_* give what the client
\* has put under that name or at that index with json_obj_set_* and
\* json_arr_set_*, and fail for everything else.
THEOREM ReaderGetsWhatClientPut == DocSpec => []RoundTrip
<1>1. ASSUME DocInv PROVE RoundTrip
  BY <1>1, FollowedAnswers DEF DocInv, ReadInv, Placed
<1>2. QED BY <1>1, DocCorrect, PTL

\* json_generator.c drops what finds no room, and no caller in the agent
\* looks at that: json_parse_start refuses every document this has happened
\* to, wherever it was cut.
THEOREM CutRefused == DocSpec => []CutIsRefused
<1>1. DocInv => CutIsRefused
  BY DEF DocInv, Fate, CutIsRefused
<1>2. QED BY <1>1, DocCorrect, PTL

\* And it accepts all others, unless it gets no memory for the tokens.
THEOREM WholeAccepted == DocSpec => WholeIsAccepted
<1> DEFINE Accepted == pass # "refused" /\ pass' = "refused" => cut \/ NoTokens
<1>1. ASSUME DocInv, [DocNext]_vars
      PROVE  [Accepted]_vars
  <2>1. ASSUME pass # "refused", pass' = "refused"
        PROVE  cut \/ NoTokens
    <3>1. DocNext
      BY <1>1, <2>1 DEF vars, parseVars
    <3>2. ParseStep
      <4>1. /\ ~ UNCHANGED <<js, pass, pos, tokens, toksuper, count, num_tokens>>
            /\ \A text : ~ json_parse_start(text)
            /\ ~ json_parse_end
        BY <2>1 DEF json_parse_start, json_parse_end
      <4>2. QED BY <3>1, <4>1, StepOfParser
    <3>3. Parsing
      BY <3>2 DEF ParseStep, OpenBracket, CloseBracket, StringStarts, Primitive,
                  Colon, Comma, SkipBlank, Counted, NoTokens, Tokenized, Parsing
    <3>4. PICK r, q : Along(r, q) /\ (r[Len(js)].mode = "end" <=> ~ cut)
      BY <1>1, <3>3 DEF DocInv, Fate, Comes
    <3>5. r[Len(js)].mode # "end" \/ NoTokens
      <4>1. \/ pass' \in {"count", "fill"} /\ Along(r, q)'
            \/ pass' = "ready" /\ r[Len(js)].mode = "end"
            \/ pass' = "refused" /\ (r[Len(js)].mode # "end" \/ NoTokens)
        BY <1>1, <3>2, <3>4, StepAlong DEF DocInv, ReadInv
      <4>2. QED BY <4>1, <2>1
    <3>6. QED BY <3>4, <3>5
  <2>2. QED BY <2>1
<1>2. QED BY <1>1, DocCorrect, PTL DEF DocSpec, WholeIsAccepted
=============================================================================
