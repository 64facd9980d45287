--------------------------- MODULE JsonParse_proofs --------------------------
(* What holds of the tokenizer of JsonParse for every text: where it is, the *)
(* tokens it has made, and what its two passes have in common.               *)
EXTENDS JsonParse, SequenceTheorems, FiniteSetTheorems, TLAPS

\* Induction over a set of naturals, from the well-foundedness of <.
LEMMA SetInduction ==
  ASSUME NEW S, 0 \in S, \A n \in Nat : n \in S => n + 1 \in S
  PROVE  Nat \subseteq S
<1> DEFINE T == Nat \ S
           R == OpToRel(<, Nat)
<1>1. SUFFICES ASSUME T # {} PROVE FALSE
  OBVIOUS
<1>2. IsWellFoundedOn(R, Nat)
  BY NatLessThanWellFounded
<1>3. PICK x \in T : \A y \in T : ~ (<<y, x>> \in R)
  <2>1. T \subseteq Nat
    OBVIOUS
  <2> HIDE DEF R, T
  <2>2. QED BY <1>1, <1>2, <2>1, WFMin
<1>4. x \in Nat /\ x # 0 /\ x - 1 \in Nat
  <2>1. x \in Nat /\ x \notin S
    BY <1>3
  <2>2. x # 0
    BY <2>1
  <2>3. QED BY <2>1, <2>2
<1>5. x - 1 \notin T
  <2>1. ASSUME x - 1 \in T PROVE FALSE
    <3>1. <<x - 1, x>> \in R
      BY <1>4 DEF OpToRel
    <3>2. QED BY <3>1, <2>1, <1>3
  <2>2. QED BY <2>1
<1>6. x \in S
  BY <1>4, <1>5, x = (x - 1) + 1
<1>7. QED BY <1>6, <1>3

\* A set of naturals has a least element.
LEMMA LeastOf ==
  ASSUME NEW T, T \subseteq Nat, T # {}
  PROVE  Min(T) \in T /\ \A y \in T : Min(T) <= y
<1> DEFINE S == {n \in Nat : \A m \in 0..n : m \notin T}
<1>1. ASSUME \A x \in T : \E y \in T : y < x
      PROVE  FALSE
  <2>1. 0 \in S
    BY <1>1
  <2>2. \A n \in Nat : n \in S => n + 1 \in S
    BY <1>1
  <2>3. Nat \subseteq S
    <3> HIDE DEF S
    <3>1. QED BY <2>1, <2>2, SetInduction
  <2>4. ASSUME NEW x \in T PROVE FALSE
    <3>1. x \in Nat /\ x \in 0..x
      OBVIOUS
    <3>2. QED BY <2>3, <3>1
  <2>5. QED BY <2>4
<1>2. PICK x \in T : \A y \in T : x <= y
  BY <1>1
<1>3. QED BY <1>2 DEF Min

----------------------------------------------------------------------------
(* Where a turn of the loop leads to.                                      *)

\* Next1 stays inside the text, and finds the first of the characters.
LEMMA Next1Finds ==
  ASSUME Len(js) \in Nat, NEW from \in 0..Len(js), NEW chars
  PROVE  /\ Next1(from, chars) \in from..Len(js)
         /\ Next1(from, chars) < Len(js) => js[Next1(from, chars) + 1] \in chars
         /\ \A i \in from..(Next1(from, chars) - 1) : js[i + 1] \notin chars
<1> DEFINE I == {i \in (from + 1)..Len(js) : js[i] \in chars}
<1>1. Next1(from, chars) = IF (IF I # {} THEN Min(I) ELSE 0) = 0 THEN Len(js)
                           ELSE (IF I # {} THEN Min(I) ELSE 0) - 1
  BY DEF Next1, SelectInSubSeq
<1>2. CASE I = {}
  <2>1. Next1(from, chars) = Len(js)
    BY <1>1, <1>2
  <2>2. \A i \in from..(Len(js) - 1) : i + 1 \in (from + 1)..Len(js)
    OBVIOUS
  <2>3. QED BY <2>1, <2>2, <1>2
<1>3. CASE I # {}
  <2>1. I \subseteq Nat
    OBVIOUS
  <2>2. Min(I) \in I /\ \A y \in I : Min(I) <= y
    <3> HIDE DEF I
    <3>1. QED BY <1>3, <2>1, LeastOf
  <2>3. Min(I) \in (from + 1)..Len(js) /\ js[Min(I)] \in chars
    BY <2>2
  <2>4. Next1(from, chars) = Min(I) - 1
    <3> HIDE DEF I
    <3>1. QED BY <1>1, <1>3, <2>3
  <2>5. ASSUME NEW i \in from..(Min(I) - 2)
        PROVE  js[i + 1] \notin chars
    <3>1. i + 1 \in (from + 1)..Len(js) /\ ~ (Min(I) <= i + 1)
      <4> HIDE DEF I
      <4>1. QED BY <2>3
    <3>2. i + 1 \notin I
      BY <2>2, <3>1
    <3>3. QED BY <3>1, <3>2
  <2> HIDE DEF I
  <2>6. QED BY <2>3, <2>4, <2>5
<1>4. QED BY <1>2, <1>3

\* The quotation mark, by a name: the provers see no more in it.
Mark == "\""

\* The position after the turn at this position.
NextPos(p) ==
    IF js[p + 1] \in Opening \cup Passed THEN p + 1
    ELSE IF js[p + 1] = Mark THEN Next1(p + 1, {Mark}) + 1
    ELSE Next1(p, Closing \cup Blank \cup {","})

LEMMA NextPosGrows ==
  ASSUME Len(js) \in Nat, NEW p \in 0..(Len(js) - 1)
  PROVE  NextPos(p) \in (p + 1)..(Len(js) + 1)
<1>1. CASE js[p + 1] \in Opening \cup Passed
  BY <1>1 DEF NextPos
<1>2. CASE js[p + 1] \notin Opening \cup Passed /\ js[p + 1] = Mark
  <2>1. Next1(p + 1, {Mark}) \in (p + 1)..Len(js)
    BY Next1Finds, p + 1 \in 0..Len(js)
  <2>2. NextPos(p) = Next1(p + 1, {Mark}) + 1
    BY <1>2 DEF NextPos
  <2>3. \A e \in (p + 1)..Len(js) : e + 1 \in (p + 1)..(Len(js) + 1)
    OBVIOUS
  <2>4. QED BY <2>1, <2>2, <2>3
<1>3. CASE js[p + 1] \notin Opening \cup Passed /\ js[p + 1] # Mark
  <2> DEFINE ends == Closing \cup Blank \cup {","}
  <2>1. /\ Next1(p, ends) \in p..Len(js)
        /\ Next1(p, ends) < Len(js) => js[Next1(p, ends) + 1] \in ends
    <3> HIDE DEF ends
    <3>1. QED BY Next1Finds, p \in 0..Len(js)
  <2>2. NextPos(p) = Next1(p, ends)
    BY <1>3 DEF NextPos
  <2>3. js[p + 1] \notin ends
    BY <1>3 DEF Passed
  <2> HIDE DEF ends
  <2>4. QED BY <2>1, <2>2, <2>3
<1>4. QED BY <1>1, <1>2, <1>3

\* The positions the tokenizer comes to, whatever the pass: the fewest that
\* hold 0 and, with a position inside the text, the one after its turn.
Follows(S) == 0 \in S /\ \A p \in S : p < Len(js) => NextPos(p) \in S
Visited == {p \in Nat : \A S \in SUBSET Nat : Follows(S) => p \in S}

\* The loop is at one of them, and has stepped over none.
AtVisited == /\ pos \in Visited
             /\ \A p \in Visited : p < pos => NextPos(p) <= pos

\* The positions before p where the passes meet a token.
StartsBefore(p) == {q \in Visited : q < p /\ Starts(q)}

LEMMA VisitedFollows ==
  ASSUME Len(js) \in Nat
  PROVE  Visited \subseteq Nat /\ Follows(Visited)
<1>1. ASSUME NEW p \in Visited, p < Len(js)
      PROVE  NextPos(p) \in Visited
  <2>1. NextPos(p) \in Nat
    BY NextPosGrows, <1>1 DEF Visited
  <2>2. ASSUME NEW S \in SUBSET Nat, Follows(S)
        PROVE  NextPos(p) \in S
    BY <1>1, <2>2 DEF Visited, Follows
  <2>3. QED BY <2>1, <2>2 DEF Visited
<1>2. 0 \in Visited
  BY DEF Visited, Follows
<1>3. QED BY <1>1, <1>2 DEF Visited, Follows

\* At the start of a pass nothing has been stepped over, and no token met.
LEMMA StartOfPass ==
  ASSUME Len(js) \in Nat
  PROVE  /\ 0 \in Visited /\ \A p \in Visited : ~ (p < 0)
         /\ StartsBefore(0) = {} /\ Cardinality(StartsBefore(0)) = 0
<1>1. /\ 0 \in Visited /\ \A p \in Visited : ~ (p < 0)
      /\ StartsBefore(0) = {}
  BY VisitedFollows DEF Follows, StartsBefore
<1>2. QED BY <1>1, FS_EmptySet

\* A turn steps over no position of either pass.
LEMMA NothingSteppedOver ==
  ASSUME Len(js) \in Nat, pos \in 0..(Len(js) - 1), AtVisited
  PROVE  /\ NextPos(pos) \in Visited
         /\ \A p \in Visited : p < NextPos(pos) => p <= pos
         /\ \A p \in Visited : p < NextPos(pos) => NextPos(p) <= NextPos(pos)
<1> DEFINE S == {p \in Visited : p <= pos \/ NextPos(pos) <= p}
<1>1. Visited \subseteq Nat /\ Follows(Visited)
  BY VisitedFollows
<1>2. NextPos(pos) \in Visited /\ NextPos(pos) \in Nat /\ pos < NextPos(pos)
  BY <1>1, NextPosGrows DEF AtVisited, Follows
<1>3. Follows(S)
  <2>1. 0 \in S
    BY <1>1 DEF Follows
  <2>2. ASSUME NEW p \in S, p < Len(js)
        PROVE  NextPos(p) \in S
    <3>1. /\ p \in Visited /\ p \in Nat /\ NextPos(p) \in Visited
          /\ NextPos(p) \in Nat /\ p < NextPos(p)
      BY <1>1, <2>2, NextPosGrows DEF Follows
    <3>2. CASE p < pos
      BY <3>1, <3>2 DEF AtVisited
    <3>3. CASE p = pos
      BY <3>1, <3>3, <1>2
    <3>4. CASE NextPos(pos) <= p
      BY <3>1, <3>4, <1>2
    <3>5. QED BY <3>2, <3>3, <3>4, <3>1, <2>2
  <2>3. QED BY <2>1, <2>2 DEF Follows
<1>4. Visited \subseteq S
  BY <1>1, <1>3 DEF Visited
<1>5. \A p \in Visited : p < NextPos(pos) => p <= pos
  BY <1>1, <1>2, <1>4
<1>6. \A p \in Visited : p < NextPos(pos) => NextPos(p) <= NextPos(pos)
  <2>1. ASSUME NEW p \in Visited, p < NextPos(pos), p # pos
        PROVE  NextPos(p) <= NextPos(pos)
    <3>1. p < pos /\ p \in Nat /\ NextPos(p) \in Nat
      BY <2>1, <1>5, <1>1, NextPosGrows
    <3>2. QED BY <3>1, <1>2 DEF AtVisited
  <2>2. QED BY <2>1, <1>2
<1>7. QED BY <1>2, <1>5, <1>6

LEMMA StartsBeforeFinite ==
  ASSUME Len(js) \in Nat, NEW p \in Nat
  PROVE  IsFiniteSet(StartsBefore(p)) /\ Cardinality(StartsBefore(p)) \in Nat
<1>1. StartsBefore(p) \in SUBSET Nat /\ \A q \in StartsBefore(p) : q <= p
  BY VisitedFollows DEF StartsBefore
<1>2. IsFiniteSet(StartsBefore(p))
  BY <1>1, FS_BoundedSetOfNaturals
<1>3. QED BY <1>2, FS_CardinalityType

\* A turn adds its token, if it starts one, to those before it.
LEMMA TurnCounts ==
  ASSUME Len(js) \in Nat, pos \in 0..(Len(js) - 1), AtVisited
  PROVE  Cardinality(StartsBefore(NextPos(pos)))
           = IF Starts(pos) THEN Cardinality(StartsBefore(pos)) + 1
                            ELSE Cardinality(StartsBefore(pos))
<1>1. /\ Visited \subseteq Nat /\ pos \in Visited
      /\ NextPos(pos) \in Nat /\ pos < NextPos(pos)
  BY VisitedFollows, NextPosGrows DEF AtVisited
<1>2. \A q \in Visited : q < NextPos(pos) <=> q < pos \/ q = pos
  BY <1>1, NothingSteppedOver
<1>3. CASE Starts(pos)
  <2>1. /\ StartsBefore(NextPos(pos)) = StartsBefore(pos) \cup {pos}
        /\ pos \notin StartsBefore(pos)
    <3>1. pos \notin StartsBefore(pos)
      BY <1>1 DEF StartsBefore
    <3>2. \A q : q \in StartsBefore(NextPos(pos))
                  <=> q \in Visited /\ (q < pos \/ q = pos) /\ Starts(q)
      BY <1>2 DEF StartsBefore
    <3>3. \A q : q \in StartsBefore(pos) \cup {pos}
                  <=> q \in Visited /\ (q < pos \/ q = pos) /\ Starts(q)
      BY <1>1, <1>3 DEF StartsBefore
    <3>4. QED BY <3>1, <3>2, <3>3
  <2>2. IsFiniteSet(StartsBefore(pos))
    BY StartsBeforeFinite
  <2>3. Cardinality(StartsBefore(pos) \cup {pos})
          = Cardinality(StartsBefore(pos)) + 1
    BY <2>1, <2>2, FS_AddElement
  <2>4. QED BY <2>1, <2>3, <1>3
<1>4. CASE ~ Starts(pos)
  <2>1. StartsBefore(NextPos(pos)) = StartsBefore(pos)
    BY <1>1, <1>2, <1>4 DEF StartsBefore
  <2>2. QED BY <2>1, <1>4
<1>5. QED BY <1>3, <1>4

\* Where a token starts there is one more in the whole text than before it.
LEMMA OneMoreInText ==
  ASSUME Len(js) \in Nat, pos \in 0..(Len(js) - 1), pos \in Visited, Starts(pos)
  PROVE  Cardinality(StartsBefore(pos)) < Cardinality(StartsBefore(Len(js)))
<1>1. /\ StartsBefore(pos) \cup {pos} \in SUBSET StartsBefore(Len(js))
      /\ pos \notin StartsBefore(pos)
  <2>1. pos \in StartsBefore(Len(js)) /\ pos \notin StartsBefore(pos)
    BY VisitedFollows DEF StartsBefore
  <2>2. \A q \in StartsBefore(pos) : q \in StartsBefore(Len(js))
    BY VisitedFollows DEF StartsBefore
  <2>3. QED BY <2>1, <2>2
<1>2. /\ IsFiniteSet(StartsBefore(pos)) /\ Cardinality(StartsBefore(pos)) \in Nat
      /\ IsFiniteSet(StartsBefore(Len(js)))
      /\ Cardinality(StartsBefore(Len(js))) \in Nat
  BY StartsBeforeFinite
<1>3. Cardinality(StartsBefore(pos) \cup {pos}) = Cardinality(StartsBefore(pos)) + 1
  BY <1>1, <1>2, FS_AddElement
<1>4. Cardinality(StartsBefore(pos) \cup {pos}) <= Cardinality(StartsBefore(Len(js)))
  BY <1>1, <1>2, FS_Subset
<1>5. QED BY <1>2, <1>3, <1>4

----------------------------------------------------------------------------
(* The tokens.                                                             *)

TokenSet == [type : {"object", "array", "string", "primitive"},
             start : Nat, end : Nat \cup {-1}, size : Nat, parent : Nat]

ParserOK ==
    /\ Len(js) \in Nat
    /\ pass \in {"off", "count", "fill", "ready", "refused"}
    /\ pos \in 0..Len(js)
    /\ tokens \in Seq(TokenSet) /\ toknext \in Nat
    /\ toksuper \in 0..toknext
    /\ count \in Nat /\ num_tokens \in Nat
    /\ \A i \in 1..toknext : InText(tokens[i], i, pos)
    /\ pass \in {"off", "count", "refused"} => tokens = <<>> /\ num_tokens = 0
    /\ pass = "fill" => count = toknext
    /\ pass = "ready" => 1 <= toknext /\ \A i \in 1..toknext : ~ IsOpen(tokens[i])

\* A new token is the last, and leaves the others as they are but for the
\* size of the superior token.
LEMMA WithTokenAdds ==
  ASSUME ParserOK, NEW tok \in TokenSet
  PROVE  /\ WithToken(tok) \in Seq(TokenSet)
         /\ Len(WithToken(tok)) = toknext + 1
         /\ WithToken(tok)[toknext + 1] = tok
         /\ \A i \in 1..toknext :
              /\ WithToken(tok)[i].type = tokens[i].type
              /\ WithToken(tok)[i].start = tokens[i].start
              /\ WithToken(tok)[i].end = tokens[i].end
              /\ WithToken(tok)[i].parent = tokens[i].parent
<1> DEFINE sized == [tokens EXCEPT ![toksuper].size = @ + 1]
           old == IF toksuper = 0 THEN tokens ELSE sized
<1>1. tokens \in Seq(TokenSet) /\ toknext \in Nat /\ toksuper \in 0..toknext
  BY DEF ParserOK
<1>2. /\ old \in Seq(TokenSet) /\ Len(old) = toknext
      /\ \A i \in 1..toknext :
           /\ old[i].type = tokens[i].type
           /\ old[i].start = tokens[i].start
           /\ old[i].end = tokens[i].end
           /\ old[i].parent = tokens[i].parent
  <2>1. CASE toksuper = 0
    BY <1>1, <2>1 DEF toknext
  <2>2. CASE toksuper # 0
    <3> DEFINE t == [tokens[toksuper] EXCEPT !.size = @ + 1]
    <3>1. toksuper \in 1..toknext
      BY <1>1, <2>2
    <3>2. tokens[toksuper] \in TokenSet
      BY <1>1, <3>1, ElementOfSeq DEF toknext
    <3>3. /\ t \in TokenSet /\ t.type = tokens[toksuper].type
          /\ t.start = tokens[toksuper].start /\ t.end = tokens[toksuper].end
          /\ t.parent = tokens[toksuper].parent
      BY <3>2 DEF TokenSet
    <3>4. old = [tokens EXCEPT ![toksuper] = t]
      BY <2>2
    <3>5. /\ [tokens EXCEPT ![toksuper] = t] \in Seq(TokenSet)
          /\ Len([tokens EXCEPT ![toksuper] = t]) = Len(tokens)
          /\ \A j \in 1..Len(tokens) : [tokens EXCEPT ![toksuper] = t][j] =
                                         IF j = toksuper THEN t ELSE tokens[j]
      <4> HIDE DEF t
      <4>1. QED BY <1>1, <3>1, <3>3, ExceptSeq DEF toknext
    <3> HIDE DEF t, old
    <3>6. QED BY <3>3, <3>4, <3>5 DEF toknext
  <2>3. QED BY <2>1, <2>2
<1>3. WithToken(tok) = Append(old, tok)
  BY DEF WithToken
<1> HIDE DEF old
<1>4. /\ Append(old, tok) \in Seq(TokenSet)
      /\ Len(Append(old, tok)) = Len(old) + 1
      /\ \A i \in 1..Len(old) : Append(old, tok)[i] = old[i]
      /\ Append(old, tok)[Len(old) + 1] = tok
  BY <1>2, AppendProperties
<1>5. QED BY <1>2, <1>3, <1>4

LEMMA ParentsBefore ==
  ASSUME ParserOK, NEW i \in 1..toknext
  PROVE  tokens[i].parent \in Nat /\ tokens[i].parent < i /\ tokens[i] \in TokenSet
<1>1. tokens[i] \in TokenSet
  BY ElementOfSeq DEF ParserOK, toknext
<1>2. QED BY <1>1 DEF TokenSet, ParserOK, InText

\* The walk to the root, for which every superior token must come before its
\* own.
LEMMA Walks ==
  ASSUME ParserOK
  PROVE  \E f : /\ \A i \in 0..toknext : f[i] = IF i = 0 \/ IsOpen(tokens[i])
                                               THEN i ELSE f[tokens[i].parent]
                /\ Innermost = f[toknext]
<1> DEFINE Step(h, i) == IF i = 0 \/ IsOpen(tokens[i]) THEN i
                                                       ELSE h[tokens[i].parent]
           Walk(h, n) == h = [i \in 0..n |-> Step(h, i)]
           f == CHOOSE h : Walk(h, toknext)
           S == {n \in Nat : n <= toknext => \E h : Walk(h, n)}
<1>1. /\ toknext \in Nat
      /\ \A i \in 1..toknext : tokens[i].parent \in Nat /\ tokens[i].parent < i
  <2>1. ASSUME NEW i \in 1..toknext
        PROVE  tokens[i].parent \in Nat
    <3>1. tokens[i] \in TokenSet
      BY ElementOfSeq DEF ParserOK, toknext
    <3>2. QED BY <3>1 DEF TokenSet
  <2>2. QED BY <2>1 DEF ParserOK, InText
<1>2. 0 \in S
  <2>1. Walk([i \in 0..0 |-> 0], 0)
    OBVIOUS
  <2>2. QED BY <2>1
<1>3. ASSUME NEW n \in Nat, n \in S
      PROVE  n + 1 \in S
  <2>1. ASSUME n + 1 <= toknext
        PROVE  \E h : Walk(h, n + 1)
    <3>1. PICK h : Walk(h, n)
      BY <1>3, <2>1, <1>1
    <3> DEFINE g == [i \in 0..(n + 1) |-> IF i = n + 1 THEN Step(h, i) ELSE h[i]]
    <3>2. ASSUME NEW i \in 0..(n + 1)
          PROVE  g[i] = Step(g, i)
      <4>1. i # 0 => tokens[i].parent \in 0..n /\ tokens[i].parent < i
        BY <1>1, <2>1
      <4>2. CASE i = n + 1
        BY <4>1, <4>2
      <4>3. CASE i # n + 1
        <5>1. i \in 0..n
          BY <4>3
        <5>2. h[i] = Step(h, i)
          BY <3>1, <5>1
        <5>3. i # 0 => g[tokens[i].parent] = h[tokens[i].parent]
          BY <4>1, <5>1
        <5>4. g[i] = h[i]
          BY <5>1
        <5> HIDE DEF g
        <5>5. QED BY <5>2, <5>3, <5>4
      <4>4. QED BY <4>2, <4>3
    <3>3. Walk(g, n + 1)
      BY <3>2
    <3>4. QED BY <3>3
  <2>2. QED BY <2>1
<1>4. Walk(f, toknext)
  <2>1. Nat \subseteq S
    <3> HIDE DEF S
    <3>1. QED BY <1>2, <1>3, SetInduction
  <2>2. \E h : Walk(h, toknext)
    BY <2>1, <1>1
  <2> HIDE DEF Walk
  <2>3. QED BY <2>2
<1>5. Innermost = f[toknext]
  BY DEF Innermost
<1>6. \A i \in 0..toknext : f[i] = Step(f, i)
  <2> HIDE DEF f
  <2>1. QED BY <1>4
<1> HIDE DEF f
<1>7. QED BY <1>5, <1>6

\* It ends at a token that is open, or at none.
LEMMA InnermostIsOpen ==
  ASSUME ParserOK
  PROVE  /\ Innermost \in 0..toknext
         /\ Innermost # 0 => IsOpen(tokens[Innermost])
<1>1. PICK f : /\ \A i \in 0..toknext : f[i] = IF i = 0 \/ IsOpen(tokens[i])
                                               THEN i ELSE f[tokens[i].parent]
               /\ Innermost = f[toknext]
  BY Walks
<1>2. toknext \in Nat
  BY DEF ParserOK
<1> DEFINE Q == {n \in Nat : \A i \in 0..n : i <= toknext =>
                   f[i] \in 0..toknext /\ (f[i] # 0 => IsOpen(tokens[f[i]]))}
<1>3. 0 \in Q
  BY <1>1, <1>2
<1>4. ASSUME NEW n \in Nat, n \in Q
      PROVE  n + 1 \in Q
  <2>1. ASSUME n + 1 <= toknext
        PROVE  f[n + 1] \in 0..toknext /\ (f[n + 1] # 0 => IsOpen(tokens[f[n + 1]]))
    <3>1. n + 1 \in 0..toknext /\ n + 1 \in 1..toknext
      BY <2>1, <1>2
    <3>2. tokens[n + 1].parent \in 0..n
      BY <3>1, ParentsBefore
    <3>3. QED BY <3>1, <3>2, <1>1, <1>2, <1>4, <2>1
  <2>2. QED BY <2>1, <1>4
<1>5. toknext \in Q
  <2> HIDE DEF Q
  <2>1. QED BY <1>2, <1>3, <1>4, SetInduction
<1>6. QED BY <1>1, <1>2, <1>5

\* What depends on the text only stays while the text does.
LEMMA SameText ==
  ASSUME js' = js
  PROVE  /\ Visited' = Visited
         /\ \A p \in Nat : /\ NextPos(p)' = NextPos(p)
                           /\ StartsBefore(p)' = StartsBefore(p)
<1>1. \A p, chars : Next1(p, chars)' = Next1(p, chars)
  BY DEF Next1, SelectInSubSeq, Min
<1>2. \A p : NextPos(p)' = NextPos(p) /\ (Starts(p)' <=> Starts(p))
  BY <1>1 DEF NextPos, Starts
<1>3. \A S : Follows(S)' <=> Follows(S)
  BY <1>2 DEF Follows
<1>4. Visited' = Visited
  BY <1>3 DEF Visited
<1>5. \A p \in Nat : StartsBefore(p)' = StartsBefore(p)
  BY <1>2, <1>4 DEF StartsBefore
<1>6. QED BY <1>2, <1>4, <1>5

----------------------------------------------------------------------------
(* Each turn of the loop keeps the parser well-formed.                     *)

LEMMA RefuseOK ==
  ASSUME ParserOK, Refuse
  PROVE  ParserOK'
<1>1. <<>> \in Seq(TokenSet) /\ Len(<<>>) = 0
  BY EmptySeq
<1>2. /\ pass' = "refused" /\ tokens' = <<>> /\ num_tokens' = 0 /\ pos' = 0
      /\ toksuper' = 0 /\ js' = js /\ count' = count
  BY DEF Refuse
<1>3. QED BY <1>1, <1>2 DEF ParserOK, toknext

\* What lies before a position lies before every later one.
LEMMA StillInText ==
  ASSUME NEW tok \in TokenSet, NEW i, NEW p \in Nat, NEW q \in Nat, p <= q,
         InText(tok, i, p)
  PROVE  InText(tok, i, q)
<1>1. tok.start \in Nat /\ tok.end \in Int
  BY DEF TokenSet
<1>2. QED BY <1>1 DEF InText, IsOpen

LEMMA ContinueOK ==
  ASSUME ParserOK, Parsing,
         NEW p, p + 1 \in 0..Len(js), NEW toks \in Seq(TokenSet),
         NEW super \in 0..Len(toks), NEW n \in Nat,
         \A i \in 1..Len(toks) : InText(toks[i], i, p + 1),
         pass = "count" => toks = <<>>, pass = "fill" => n = Len(toks),
         Continue(p, toks, super, n)
  PROVE  ParserOK'
<1>1. /\ pos' = p + 1 /\ tokens' = toks /\ toksuper' = super /\ count' = n
      /\ js' = js /\ pass' = pass /\ num_tokens' = num_tokens
  BY DEF Continue
<1>2. Len(toks) \in Nat
  BY LenProperties
<1>3. \A i \in 1..Len(toks) : InText(toks[i], i, pos)'
  BY <1>1 DEF InText, IsOpen
<1>4. pass \in {"count", "fill"}
  BY DEF Parsing
<1>5. QED BY <1>1, <1>2, <1>3, <1>4 DEF ParserOK, toknext

\* A turn that makes no token.
LEMMA NoTokenOK ==
  ASSUME ParserOK, Parsing, pos < Len(js), NEW super \in 0..toknext,
         NEW n \in Nat, pass = "fill" => n = count,
         Continue(pos, tokens, super, n)
  PROVE  ParserOK'
<1>1. /\ pos + 1 \in 0..Len(js) /\ tokens \in Seq(TokenSet)
      /\ super \in 0..Len(tokens)
      /\ \A i \in 1..Len(tokens) : InText(tokens[i], i, pos + 1)
      /\ (pass = "count" => tokens = <<>>) /\ (pass = "fill" => n = Len(tokens))
  <2>1. \A i \in 1..Len(tokens) : InText(tokens[i], i, pos) /\ tokens[i] \in TokenSet
    BY ElementOfSeq DEF ParserOK, toknext
  <2>2. \A i \in 1..Len(tokens) : InText(tokens[i], i, pos + 1)
    BY <2>1, StillInText, pos \in Nat, pos + 1 \in Nat, pos <= pos + 1 DEF ParserOK
  <2>3. QED BY <2>2 DEF ParserOK, toknext
<1>2. QED BY <1>1, ContinueOK

\* A turn that makes one.
LEMMA TokenOK ==
  ASSUME ParserOK, Parsing, pass = "fill", NEW tok \in TokenSet,
         NEW p, p + 1 \in 0..Len(js), pos <= p + 1, InText(tok, toknext + 1, p + 1),
         NEW super \in 0..(toknext + 1),
         Continue(p, WithToken(tok), super, count + 1)
  PROVE  ParserOK'
<1> DEFINE toks == WithToken(tok)
<1>1. /\ toks \in Seq(TokenSet) /\ Len(toks) = toknext + 1
      /\ toks[toknext + 1] = tok
      /\ \A i \in 1..toknext :
           /\ toks[i].start = tokens[i].start
           /\ toks[i].end = tokens[i].end
           /\ toks[i].parent = tokens[i].parent
  BY WithTokenAdds
<1>2. toknext \in Nat /\ \A i \in 1..toknext : InText(tokens[i], i, pos)
  BY DEF ParserOK
<1> HIDE DEF toks
<1>3. \A i \in 1..Len(toks) : InText(toks[i], i, p + 1)
  <2>1. ASSUME NEW i \in 1..Len(toks) PROVE InText(toks[i], i, p + 1)
    <3>1. CASE i = toknext + 1
      BY <1>1, <3>1
    <3>2. CASE i # toknext + 1
      <4>1. i \in 1..toknext
        BY <1>1, <1>2, <3>2
      <4>2. tokens[i] \in TokenSet /\ pos \in Nat
        BY <4>1, ElementOfSeq DEF ParserOK, toknext
      <4>3. InText(tokens[i], i, p + 1)
        BY <1>2, <4>1, <4>2, StillInText, p + 1 \in Nat
      <4>4. QED BY <1>1, <4>1, <4>3 DEF InText, IsOpen
    <3>3. QED BY <3>1, <3>2
  <2>2. QED BY <2>1
<1>4. Continue(p, toks, super, count + 1) /\ super \in 0..Len(toks)
  BY <1>1 DEF toks
<1>5. count + 1 \in Nat /\ count + 1 = Len(toks)
  BY <1>1 DEF ParserOK
<1>6. QED BY <1>1, <1>3, <1>4, <1>5, ContinueOK

\* Closing a token sets where it ends and nothing else.
LEMMA TokenEnds ==
  ASSUME NEW tok \in TokenSet, NEW e \in Nat
  PROVE  /\ [tok EXCEPT !.end = e] \in TokenSet
         /\ [tok EXCEPT !.end = e].end = e
         /\ [tok EXCEPT !.end = e].type = tok.type
         /\ [tok EXCEPT !.end = e].start = tok.start
         /\ [tok EXCEPT !.end = e].parent = tok.parent
BY DEF TokenSet

LEMMA OpenBracketOK ==
  ASSUME ParserOK, OpenBracket
  PROVE  ParserOK'
<1>1. /\ Parsing /\ pos \in 0..(Len(js) - 1) /\ pos < Len(js)
      /\ count \in Nat /\ toknext \in Nat /\ toksuper \in 0..toknext
  BY DEF ParserOK, OpenBracket, AtEnd
<1>2. CASE pass = "count"
  <2>1. Continue(pos, tokens, toksuper, count + 1)
    BY <1>2 DEF OpenBracket, HasToken, ParserOK
  <2>2. QED BY <2>1, <1>1, <1>2, NoTokenOK
<1>3. CASE pass # "count" /\ HasToken
  <2> DEFINE tok == Token(TypeOf(At), pos, -1, toksuper)
  <2>1. Continue(pos, WithToken(tok), toknext + 1, count + 1) /\ pass = "fill"
    BY <1>3 DEF OpenBracket, Parsing
  <2>2. tok \in TokenSet /\ InText(tok, toknext + 1, pos + 1)
    BY <1>1 DEF TokenSet, Token, TypeOf, InText, IsOpen
  <2> HIDE DEF tok
  <2>3. /\ pos + 1 \in 0..Len(js) /\ pos <= pos + 1
        /\ toknext + 1 \in 0..(toknext + 1) /\ count + 1 \in Nat
    BY <1>1
  <2>4. QED BY <2>1, <2>2, <2>3, <1>1, TokenOK
<1>4. CASE pass # "count" /\ ~ HasToken
  BY <1>4, RefuseOK DEF OpenBracket
<1>5. QED BY <1>2, <1>3, <1>4

LEMMA CloseBracketOK ==
  ASSUME ParserOK, CloseBracket
  PROVE  ParserOK'
<1>1. /\ Parsing /\ pos \in 0..(Len(js) - 1) /\ pos < Len(js)
      /\ count \in Nat /\ toknext \in Nat /\ toksuper \in 0..toknext
      /\ tokens \in Seq(TokenSet) /\ Len(tokens) = toknext
      /\ \A i \in 1..toknext : InText(tokens[i], i, pos)
  BY DEF ParserOK, CloseBracket, AtEnd, toknext
<1>2. CASE pass = "count"
  <2>1. Continue(pos, tokens, toksuper, count)
    BY <1>2 DEF CloseBracket
  <2>2. QED BY <2>1, <1>1, NoTokenOK
<1>3. CASE pass # "count" /\ Refuse
  BY <1>3, RefuseOK
<1>4. CASE pass # "count" /\ Innermost = 0 /\ ~ Refuse
  <2>1. Continue(pos, tokens, toksuper, count)
    BY <1>4 DEF CloseBracket
  <2>2. QED BY <2>1, <1>1, NoTokenOK
<1>5. CASE pass # "count" /\ Innermost # 0 /\ ~ Refuse
  <2> DEFINE i == Innermost
             t == [tokens[i] EXCEPT !.end = pos + 1]
             toks == [tokens EXCEPT ![i].end = pos + 1]
  <2>1. Continue(pos, toks, tokens[i].parent, count)
    BY <1>5 DEF CloseBracket
  <2>2. i \in 1..toknext /\ IsOpen(tokens[i])
    BY <1>1, <1>5, InnermostIsOpen
  <2> HIDE DEF i
  <2>3. tokens[i] \in TokenSet /\ InText(tokens[i], i, pos)
    BY <1>1, <2>2, ElementOfSeq
  <2>4. /\ t \in TokenSet
        /\ t.start = tokens[i].start /\ t.end = pos + 1
        /\ t.parent = tokens[i].parent
    BY <2>3, <1>1, TokenEnds, pos + 1 \in Nat
  <2>5. toks = [tokens EXCEPT ![i] = t]
    OBVIOUS
  <2>6. /\ [tokens EXCEPT ![i] = t] \in Seq(TokenSet)
        /\ Len([tokens EXCEPT ![i] = t]) = Len(tokens)
        /\ \A j \in 1..Len(tokens) :
             [tokens EXCEPT ![i] = t][j] = IF j = i THEN t ELSE tokens[j]
    <3> HIDE DEF t
    <3>1. QED BY <1>1, <2>2, <2>4, ExceptSeq
  <2> HIDE DEF t, toks
  <2>7. InText(t, i, pos + 1)
    BY <2>3, <2>4, <1>1 DEF InText, IsOpen, TokenSet
  <2>8. \A j \in 1..toknext : tokens[j] \in TokenSet /\ InText(tokens[j], j, pos + 1)
    <3>1. \A j \in 1..toknext : tokens[j] \in TokenSet
      BY <1>1, ElementOfSeq
    <3>2. QED BY <3>1, <1>1, StillInText, pos \in Nat, pos + 1 \in Nat, pos <= pos + 1
  <2>9. \A j \in 1..Len(toks) : InText(toks[j], j, pos + 1)
    BY <2>5, <2>6, <2>7, <2>8, <1>1
  <2>10. tokens[i].parent \in 0..Len(toks)
    BY <2>2, <2>3, <2>5, <2>6, <1>1 DEF InText, TokenSet
  <2>11. toks \in Seq(TokenSet) /\ pos + 1 \in 0..Len(js)
    BY <2>5, <2>6, <1>1
  <2>12. pass = "fill" => count = Len(toks)
    BY <2>5, <2>6, <1>1 DEF ParserOK
  <2>13. QED BY <2>1, <2>9, <2>10, <2>11, <2>12, <1>1, <1>5, ContinueOK
<1>6. QED BY <1>2, <1>3, <1>4, <1>5

\* Strings and primitives, found between two positions.
LEMMA ElementOK ==
  ASSUME ParserOK, Parsing, pos < Len(js),
         NEW type \in {"string", "primitive"},
         NEW start \in Nat, NEW end \in Nat, NEW p, p + 1 \in 0..Len(js),
         start <= end, end <= p + 1, pos <= p + 1,
         Element(type, start, end, p)
  PROVE  ParserOK'
<1>1. count \in Nat /\ toknext \in Nat /\ toksuper \in 0..toknext /\ pos \in Nat
  BY DEF ParserOK
<1>2. CASE pass = "count"
  <2>1. Continue(p, tokens, toksuper, count + 1)
    BY <1>2 DEF Element, HasToken, ParserOK
  <2>2. /\ <<>> \in Seq(TokenSet) /\ Len(<<>>) = 0 /\ tokens = <<>>
        /\ toksuper \in 0..Len(tokens) /\ count + 1 \in Nat
        /\ \A i \in 1..Len(tokens) : InText(tokens[i], i, p + 1)
    BY <1>1, <1>2, EmptySeq DEF ParserOK, toknext
  <2>3. QED BY <2>1, <2>2, <1>2, ContinueOK
<1>3. CASE pass # "count" /\ HasToken
  <2> DEFINE tok == Token(type, start, end, toksuper)
  <2>1. Continue(p, WithToken(tok), toksuper, count + 1) /\ pass = "fill"
    BY <1>3 DEF Element, Parsing
  <2>2. tok \in TokenSet /\ InText(tok, toknext + 1, p + 1)
    BY <1>1 DEF TokenSet, Token, InText, IsOpen
  <2> HIDE DEF tok
  <2>3. toksuper \in 0..(toknext + 1) /\ count + 1 \in Nat
    BY <1>1
  <2>4. QED BY <2>1, <2>2, <2>3, TokenOK
<1>4. CASE pass # "count" /\ ~ HasToken
  BY <1>4, RefuseOK DEF Element
<1>5. QED BY <1>2, <1>3, <1>4

LEMMA InLoop ==
  ASSUME ParserOK, Parsing, ~ AtEnd
  PROVE  /\ pass \in {"count", "fill"}
         /\ pos \in Nat /\ pos < Len(js) /\ Len(js) \in Nat
         /\ pos \in 0..(Len(js) - 1) /\ pos \in 0..Len(js) /\ pos + 1 \in 0..Len(js)
         /\ count \in Nat /\ toknext \in Nat /\ toksuper \in 0..toknext
BY DEF ParserOK, Parsing, AtEnd

LEMMA StringStartsOK ==
  ASSUME ParserOK, StringStarts
  PROVE  ParserOK'
<1> DEFINE end == Next1(pos + 1, {Mark})
<1>1. /\ Parsing /\ pos \in Nat /\ pos < Len(js) /\ Len(js) \in Nat
      /\ pos + 1 \in 0..Len(js)
  BY InLoop DEF StringStarts
<1>2. end \in (pos + 1)..Len(js)
  BY <1>1, Next1Finds
<1>3. end = Len(js) => Refuse
  BY DEF Mark, StringStarts
<1>4. end # Len(js) => Element("string", pos + 1, end, end)
  BY DEF Mark, StringStarts
<1> HIDE DEF end
<1>5. CASE end = Len(js)
  BY <1>3, <1>5, RefuseOK
<1>6. CASE end # Len(js)
  <2>1. /\ end \in Nat /\ end + 1 \in 0..Len(js) /\ pos + 1 \in Nat /\ pos + 1 <= end
        /\ end <= end + 1 /\ pos <= end + 1
    BY <1>1, <1>2, <1>6
  <2>2. Element("string", pos + 1, end, end)
    BY <1>4, <1>6
  <2>3. QED BY <2>1, <2>2, <1>1, ElementOK
<1>7. QED BY <1>5, <1>6

LEMMA PrimitiveOK ==
  ASSUME ParserOK, Primitive
  PROVE  ParserOK'
<1> DEFINE end == Next1(pos, Closing \cup Blank \cup {","})
<1>1. /\ Parsing /\ pos \in Nat /\ pos < Len(js) /\ Len(js) \in Nat
      /\ pos \in 0..Len(js)
  BY InLoop DEF Primitive
<1>2. end \in pos..Len(js)
  BY <1>1, Next1Finds
<1>3. Refuse \/ (end # Len(js) /\ Element("primitive", pos, end, end - 1))
  BY DEF Primitive
<1> HIDE DEF end
<1>4. CASE Refuse
  BY <1>4, RefuseOK
<1>5. CASE end # Len(js) /\ Element("primitive", pos, end, end - 1)
  <2>1. /\ end \in Nat /\ (end - 1) + 1 \in 0..Len(js) /\ pos <= end
        /\ end <= (end - 1) + 1 /\ pos <= (end - 1) + 1
    BY <1>1, <1>2, <1>5
  <2>2. QED BY <2>1, <1>5, <1>1, ElementOK
<1>6. QED BY <1>3, <1>4, <1>5

LEMMA SeparatorOK ==
  ASSUME ParserOK, Colon \/ Comma \/ SkipBlank
  PROVE  ParserOK'
<1>1. /\ Parsing /\ pos < Len(js) /\ count \in Nat /\ toknext \in Nat
      /\ toksuper \in 0..toknext
  BY InLoop DEF Colon, Comma, SkipBlank
<1>2. toksuper # 0 => tokens[toksuper].parent \in 0..toknext
  <2>1. ASSUME toksuper # 0
        PROVE  tokens[toksuper] \in TokenSet /\ InText(tokens[toksuper], toksuper, pos)
    BY <1>1, <2>1, ElementOfSeq DEF ParserOK, toknext
  <2>2. QED BY <1>1, <2>1 DEF InText, TokenSet
<1>3. \E super \in 0..toknext : Continue(pos, tokens, super, count)
  <2>1. CASE Colon
    BY <2>1, <1>1, toknext \in 0..toknext DEF Colon
  <2>2. CASE Comma
    BY <2>2, <1>1, <1>2 DEF Comma
  <2>3. CASE SkipBlank
    BY <2>3, <1>1 DEF SkipBlank
  <2>4. QED BY <2>1, <2>2, <2>3
<1>4. QED BY <1>1, <1>3, NoTokenOK

LEMMA PassEndsOK ==
  ASSUME ParserOK, Counted \/ NoTokens \/ Tokenized
  PROVE  ParserOK'
<1>1. CASE Refuse
  BY <1>1, RefuseOK
<1>2. CASE ~ Refuse
  <2>1. CASE Counted
    <3>1. /\ js' = js /\ tokens' = tokens /\ num_tokens' = count /\ pass' = "fill"
          /\ pos' = 0 /\ toksuper' = 0 /\ count' = 0 /\ pass = "count"
      BY <1>2, <2>1 DEF Counted
    <3>2. tokens = <<>> /\ Len(<<>>) = 0
      BY <3>1, EmptySeq DEF ParserOK
    <3>3. QED BY <3>1, <3>2 DEF ParserOK, toknext
  <2>2. CASE Tokenized
    <3>1. /\ pass = "fill" /\ pass' = "ready" /\ ~ (count <= 0)
          /\ ~ \E i \in 1..toknext : IsOpen(tokens[i])
          /\ UNCHANGED <<js, pos, tokens, toksuper, count, num_tokens>>
      BY <1>2, <2>2 DEF Tokenized
    <3>2. 1 <= toknext
      BY <3>1 DEF ParserOK
    <3>3. \A i \in 1..toknext : InText(tokens[i], i, pos) /\ ~ IsOpen(tokens[i])
      BY <3>1 DEF ParserOK
    <3>4. QED BY <3>1, <3>2, <3>3 DEF ParserOK, toknext, InText, IsOpen
  <2>3. QED BY <1>1, <1>2, <2>1, <2>2 DEF NoTokens
<1>3. QED BY <1>1, <1>2

LEMMA ParseStepOK ==
  ASSUME ParserOK, ParseStep
  PROVE  ParserOK'
BY OpenBracketOK, CloseBracketOK, StringStartsOK, PrimitiveOK, SeparatorOK,
   PassEndsOK DEF ParseStep

----------------------------------------------------------------------------
(* What the passes have in common.                                         *)

Loop == \/ OpenBracket \/ CloseBracket \/ StringStarts \/ Primitive
        \/ Colon \/ Comma \/ SkipBlank

\* A turn of the loop, in either pass: the position and what is counted
\* depend on the text only.
Turn == /\ pos' = NextPos(pos)
        /\ count' = IF Starts(pos) THEN count + 1 ELSE count
        /\ UNCHANGED <<js, pass, num_tokens>>

LEMMA CharKinds ==
  /\ \A c \in Opening : c \notin Passed /\ c # Mark
  /\ \A c \in Closing \cup Blank \cup {":", ","} : c \in Passed /\ c # Mark
  /\ Mark \notin Opening \cup Passed
BY DEF Mark, Opening, Passed, Closing, Blank

LEMMA EachTurn ==
  ASSUME ParserOK, Loop
  PROVE  Parsing /\ ~ AtEnd /\ (Refuse \/ Turn)
<1>1. Parsing /\ ~ AtEnd
  BY DEF Loop, OpenBracket, CloseBracket, StringStarts, Primitive, Colon, Comma,
         SkipBlank
<1>2. pass = "count" => ~ HasToken
  BY DEF ParserOK, HasToken
<1>3. CASE OpenBracket
  <2>1. At \in Opening
    BY <1>3 DEF OpenBracket
  <2>2. Starts(pos) /\ NextPos(pos) = pos + 1
    BY <2>1, CharKinds DEF Starts, NextPos, At
  <2>3. Refuse \/ \E toks, super : Continue(pos, toks, super, count + 1)
    BY <1>2, <1>3 DEF OpenBracket
  <2>4. QED BY <1>1, <2>2, <2>3 DEF Continue, Turn
<1>4. CASE CloseBracket \/ Colon \/ Comma \/ SkipBlank
  <2>1. At \in Passed
    BY <1>4, CharKinds DEF CloseBracket, Colon, Comma, SkipBlank
  <2>2. ~ Starts(pos) /\ NextPos(pos) = pos + 1
    BY <2>1 DEF Starts, NextPos, At
  <2>3. Refuse \/ \E toks, super : Continue(pos, toks, super, count)
    <3>1. CASE CloseBracket
      BY <3>1 DEF CloseBracket
    <3>2. CASE Colon
      BY <3>2 DEF Colon
    <3>3. CASE Comma
      BY <3>3 DEF Comma
    <3>4. CASE SkipBlank
      BY <3>4 DEF SkipBlank
    <3>5. QED BY <1>4, <3>1, <3>2, <3>3, <3>4
  <2>4. QED BY <1>1, <2>2, <2>3 DEF Continue, Turn
<1>5. CASE StringStarts
  <2> DEFINE end == Next1(pos + 1, {Mark})
  <2>1. At = Mark
    BY <1>5 DEF Mark, StringStarts
  <2>2. Starts(pos) /\ NextPos(pos) = end + 1
    BY <2>1, CharKinds DEF Starts, NextPos, At
  <2>3. Refuse \/ Element("string", pos + 1, end, end)
    BY <1>5 DEF Mark, StringStarts
  <2> HIDE DEF end
  <2>4. Refuse \/ \E toks, super : Continue(end, toks, super, count + 1)
    BY <2>3, <1>2 DEF Element
  <2>5. QED BY <1>1, <2>2, <2>4 DEF Continue, Turn
<1>6. CASE Primitive
  <2> DEFINE end == Next1(pos, Closing \cup Blank \cup {","})
  <2>1. At \notin Opening \cup Passed \cup {Mark}
    BY <1>6 DEF Mark, Primitive, Passed
  <2>2. Starts(pos) /\ NextPos(pos) = end
    BY <2>1 DEF Starts, NextPos, At
  <2>3. Refuse \/ Element("primitive", pos, end, end - 1)
    BY <1>6 DEF Primitive
  <2>4. end \in Nat /\ (end - 1) + 1 = end
    <3>1. Len(js) \in Nat /\ pos \in 0..Len(js)
      BY DEF ParserOK
    <3>2. end \in pos..Len(js)
      BY <3>1, Next1Finds
    <3> HIDE DEF end
    <3>3. QED BY <3>1, <3>2
  <2> HIDE DEF end
  <2>5. Refuse \/ \E toks, super : Continue(end - 1, toks, super, count + 1)
    BY <2>3, <1>2 DEF Element
  <2>6. QED BY <1>1, <2>2, <2>4, <2>5 DEF Continue, Turn
<1>7. QED BY <1>3, <1>4, <1>5, <1>6 DEF Loop

\* Both passes count the tokens that start before pos; the second fills as
\* many as the first has found in the whole text.
PassInv ==
    /\ Parsing => AtVisited /\ count = Cardinality(StartsBefore(pos))
    /\ pass = "fill" => num_tokens = Cardinality(StartsBefore(Len(js)))
    /\ pass = "ready" => toknext = num_tokens

LEMMA StartOfNextPass ==
  (Len(js) \in Nat => /\ 0 \in Visited /\ \A p \in Visited : ~ (p < 0)
                      /\ Cardinality(StartsBefore(0)) = 0)'
<1>1. Len(js) \in Nat => /\ 0 \in Visited /\ \A p \in Visited : ~ (p < 0)
                         /\ Cardinality(StartsBefore(0)) = 0
  BY StartOfPass
<1>2. QED BY <1>1, PTL

LEMMA PassStarts ==
  ASSUME Len(js)' \in Nat, pos' = 0, count' = 0
  PROVE  AtVisited' /\ (count = Cardinality(StartsBefore(pos)))'
BY StartOfNextPass DEF AtVisited

LEMMA TurnAgrees ==
  ASSUME ParserOK, PassInv, Loop
  PROVE  PassInv'
<1>1. Parsing /\ ~ AtEnd /\ (Refuse \/ Turn)
  BY EachTurn
<1>2. /\ Len(js) \in Nat /\ pos \in Nat /\ pos < Len(js) /\ pos \in 0..(Len(js) - 1)
      /\ count \in Nat
  BY <1>1, InLoop
<1>3. CASE Refuse
  BY <1>3 DEF Refuse, PassInv, Parsing
<1>4. CASE Turn
  <2>1. AtVisited /\ count = Cardinality(StartsBefore(pos)) /\ pass \in {"count", "fill"}
    BY <1>1 DEF PassInv, Parsing
  <2>2. /\ js' = js /\ pass' = pass /\ num_tokens' = num_tokens
        /\ pos' = NextPos(pos)
    BY <1>4 DEF Turn
  <2>3. NextPos(pos) \in Nat
    BY <1>2, NextPosGrows
  <2>4. /\ Visited' = Visited
        /\ \A p \in Nat : /\ NextPos(p)' = NextPos(p)
                          /\ StartsBefore(p)' = StartsBefore(p)
    BY <2>2, SameText
  <2>5. AtVisited'
    <3>1. pos' \in Visited'
      BY <2>1, <2>2, <2>4, <1>2, NothingSteppedOver
    <3>2. ASSUME NEW p \in Visited, p < pos'
          PROVE  NextPos(p)' <= pos'
      BY <2>1, <2>2, <2>4, <1>2, <3>2, NothingSteppedOver, VisitedFollows
    <3>3. QED BY <3>1, <3>2, <2>4 DEF AtVisited
  <2>6. count' = Cardinality(StartsBefore(NextPos(pos)))
    BY <2>1, <1>2, <1>4, TurnCounts DEF Turn
  <2>7. (StartsBefore(pos))' = StartsBefore(NextPos(pos))
    BY <2>2, <2>3, <2>4 DEF StartsBefore, Starts
  <2>8. (StartsBefore(Len(js)))' = StartsBefore(Len(js))
    BY <2>2, <2>4, <1>2 DEF StartsBefore, Starts
  <2>9. QED BY <2>1, <2>2, <2>5, <2>6, <2>7, <2>8 DEF PassInv, Parsing
<1>5. QED BY <1>1, <1>3, <1>4

LEMMA PassEndAgrees ==
  ASSUME ParserOK, PassInv, Counted \/ NoTokens \/ Tokenized
  PROVE  PassInv'
<1>1. CASE Refuse
  BY <1>1 DEF Refuse, PassInv, Parsing
<1>2. CASE ~ Refuse /\ Counted
  <2>1. /\ js' = js /\ num_tokens' = count /\ pass' = "fill" /\ pos' = 0
        /\ count' = 0 /\ pass = "count" /\ AtEnd
    BY <1>2 DEF Counted
  <2>2. Len(js) \in Nat /\ pos = Len(js)
    BY <2>1 DEF AtEnd, ParserOK
  <2>3. num_tokens' = Cardinality(StartsBefore(Len(js)))
    BY <2>1, <2>2 DEF PassInv, Parsing
  <2>4. (StartsBefore(Len(js)))' = StartsBefore(Len(js))
    BY <2>1, <2>2, SameText DEF StartsBefore, Starts
  <2>5. AtVisited' /\ (count = Cardinality(StartsBefore(pos)))'
    BY <2>1, <2>2, PassStarts
  <2>6. QED BY <2>1, <2>3, <2>4, <2>5 DEF PassInv
<1>3. CASE ~ Refuse /\ Tokenized
  <2>1. pass = "fill" /\ AtEnd /\ pass' = "ready"
        /\ UNCHANGED <<js, pos, tokens, toksuper, count, num_tokens>>
    BY <1>3 DEF Tokenized
  <2>2. Len(js) \in Nat /\ pos = Len(js) /\ count = toknext
    BY <2>1 DEF AtEnd, ParserOK
  <2>3. toknext = num_tokens
    BY <2>1, <2>2 DEF PassInv, Parsing
  <2>4. QED BY <2>1, <2>3 DEF PassInv, Parsing, toknext
<1>4. QED BY <1>1, <1>2, <1>3 DEF NoTokens

LEMMA ParseStepAgrees ==
  ASSUME ParserOK, PassInv, ParseStep
  PROVE  PassInv'
BY TurnAgrees, PassEndAgrees DEF ParseStep, Loop

\* jsmn_alloc_token finds a token each time: the second pass never asks for
\* more than the first has counted.
LEMMA RoomForEach ==
  ASSUME ParserOK, PassInv, pass = "fill", ~ AtEnd, Starts(pos)
  PROVE  HasToken
<1>1. /\ Len(js) \in Nat /\ pos \in 0..(Len(js) - 1) /\ count = toknext
  BY DEF ParserOK, AtEnd
<1>2. /\ pos \in Visited /\ count = Cardinality(StartsBefore(pos))
      /\ num_tokens = Cardinality(StartsBefore(Len(js)))
  BY DEF PassInv, Parsing, AtVisited
<1>3. QED BY <1>1, <1>2, OneMoreInText DEF HasToken

----------------------------------------------------------------------------
(* The other steps of the parser.                                          *)

\* Whatever only moves about among the tokens.
LEMMA StillParser ==
  ASSUME ParserOK, PassInv,
         UNCHANGED <<js, pass, pos, tokens, toksuper, count, num_tokens>>
  PROVE  ParserOK' /\ PassInv'
<1>1. ParserOK'
  BY DEF ParserOK, toknext, InText, IsOpen
<1>2. /\ Visited' = Visited
      /\ \A p \in Nat : NextPos(p)' = NextPos(p)
      /\ (StartsBefore(pos))' = StartsBefore(pos)
      /\ (StartsBefore(Len(js)))' = StartsBefore(Len(js))
  BY SameText DEF StartsBefore, Starts
<1>3. AtVisited => AtVisited'
  BY <1>2, VisitedFollows DEF AtVisited, ParserOK
<1>4. PassInv'
  BY <1>2, <1>3 DEF PassInv, Parsing, toknext
<1>5. QED BY <1>1, <1>4

LEMMA StartParser ==
  ASSUME NEW text, Len(text) \in Nat, json_parse_start(text)
  PROVE  ParserOK' /\ PassInv'
<1>1. /\ js' = text /\ pass' = "count" /\ pos' = 0 /\ tokens' = <<>>
      /\ toksuper' = 0 /\ count' = 0 /\ num_tokens' = 0
  BY DEF json_parse_start
<1>2. <<>> \in Seq(TokenSet) /\ Len(<<>>) = 0
  BY EmptySeq
<1>3. ParserOK'
  BY <1>1, <1>2 DEF ParserOK, toknext
<1>4. AtVisited' /\ (count = Cardinality(StartsBefore(pos)))'
  BY <1>1, PassStarts
<1>5. QED BY <1>1, <1>3, <1>4 DEF PassInv

LEMMA EndParser ==
  ASSUME ParserOK, json_parse_end
  PROVE  ParserOK' /\ PassInv'
<1>1. /\ js' = <<>> /\ pass' = "off" /\ pos' = 0 /\ tokens' = <<>>
      /\ toksuper' = 0 /\ count' = count /\ num_tokens' = 0
  BY DEF json_parse_end
<1>2. <<>> \in Seq(TokenSet) /\ Len(<<>>) = 0
  BY EmptySeq
<1>3. ParserOK'
  BY <1>1, <1>2 DEF ParserOK, toknext
<1>4. QED BY <1>1, <1>3 DEF PassInv, Parsing

LEMMA InitParser ==
  ASSUME ParserInit
  PROVE  ParserOK /\ PassInv
<1>1. /\ js = <<>> /\ pass = "off" /\ pos = 0 /\ tokens = <<>> /\ toksuper = 0
      /\ count = 0 /\ num_tokens = 0
  BY DEF ParserInit
<1>2. Len(<<>>) = 0 /\ <<>> \in Seq(TokenSet)
  BY EmptySeq
<1>3. ParserOK
  BY <1>1, <1>2 DEF ParserOK, toknext
<1>4. QED BY <1>1, <1>3 DEF PassInv, Parsing

----------------------------------------------------------------------------
(* The parser by itself, for every set of texts, JSON or not.              *)

\* Both invariants hold whatever the parser is given, and whoever moves about
\* its tokens in between.
LEMMA ParserInvariant ==
  ASSUME NEW Texts, \A text \in Texts : Len(text) \in Nat
  PROVE  ParserSpec(Texts) => [](ParserOK /\ PassInv)
<1>1. ParserInit => ParserOK /\ PassInv
  BY InitParser
<1>2. ParserOK /\ PassInv /\ [ParserNext(Texts)]_textVars => ParserOK' /\ PassInv'
  <2> SUFFICES ASSUME ParserOK, PassInv, [ParserNext(Texts)]_textVars
               PROVE  ParserOK' /\ PassInv'
    OBVIOUS
  <2>1. CASE UNCHANGED textVars
    BY <2>1, StillParser DEF textVars
  <2>2. ASSUME NEW text \in Texts, json_parse_start(text)
        PROVE  ParserOK' /\ PassInv'
    BY <2>2, StartParser
  <2>3. CASE ParseStep
    BY <2>3, ParseStepOK, ParseStepAgrees
  <2>4. CASE json_parse_end
    BY <2>4, EndParser
  <2>5. QED BY <2>1, <2>2, <2>3, <2>4 DEF ParserNext
<1>3. QED BY <1>1, <1>2, PTL DEF ParserSpec

\* __jsmn_parse: no token of any text reaches outside the text or is its own
\* superior, and none of an accepted text is left open.
THEOREM ParserCorrect ==
  ASSUME NEW Texts, \A text \in Texts : Len(text) \in Nat
  PROVE  ParserSpec(Texts) => []TokensInText
<1>1. ParserOK => TokensInText
  BY DEF ParserOK, TokensInText
<1>2. QED BY <1>1, ParserInvariant, PTL

\* __jsmn_parse: the second pass finds as many tokens as the first has
\* counted, so json_parse_start leaves no token of any text unset.
THEOREM Agreement ==
  ASSUME NEW Texts, \A text \in Texts : Len(text) \in Nat
  PROVE  ParserSpec(Texts) => []PassesAgree
<1>1. PassInv => PassesAgree
  BY DEF PassInv, PassesAgree
<1>2. QED BY <1>1, ParserInvariant, PTL

\* JSMN_ERROR_NOMEM cannot come out of the second pass, whatever the text.
THEOREM NeverOutOfTokens ==
  ASSUME NEW Texts, \A text \in Texts : Len(text) \in Nat
  PROVE  ParserSpec(Texts) => []AllocationHolds
<1>1. ParserOK /\ PassInv => AllocationHolds
  BY RoomForEach DEF AllocationHolds
<1>2. QED BY <1>1, ParserInvariant, PTL

----------------------------------------------------------------------------
(* The documents the tokenizer accepts.  A state tells what has been read  *)
(* of a document: what may come next, and the types of the objects and     *)
(* arrays that are open, the innermost last.                               *)

Modes == {"start",      \* nothing has been read
          "first",      \* an object or array has just been opened
          "next",       \* a comma has been read
          "key",        \* in the name of an element of an object
          "colon",      \* after that name
          "value",      \* after the colon
          "str",        \* in a string
          "prim",       \* in a primitive
          "after",      \* after an element
          "end"}        \* the document is complete

States == {s \in [mode : Modes, stack : Seq({"object", "array"})] :
             s.stack = <<>> <=> s.mode \in {"start", "end"}}

Topmost(s) == s.stack[Len(s.stack)]
To(s, mode) == [mode |-> mode, stack |-> s.stack]

WantsKey(s) == s.mode \in {"first", "next"} /\ Topmost(s) = "object"
WantsValue(s) == \/ s.mode = "value"
                 \/ s.mode \in {"first", "next"} /\ Topmost(s) = "array"

Opened(s, c) == [mode |-> "first", stack |-> Append(s.stack, TypeOf(c))]
Closed(s) == [mode |-> IF Len(s.stack) = 1 THEN "end" ELSE "after",
              stack |-> SubSeq(s.stack, 1, Len(s.stack) - 1)]

\* In state s the character c may come, and leads to state t.
Reads(s, c, t) ==
    \/ /\ c \in Opening /\ (s.mode = "start" \/ WantsValue(s))
       /\ t = Opened(s, c)
    \/ /\ c \in Closing /\ s.mode \in {"first", "after", "prim"}
       /\ Topmost(s) = TypeOf(c)
       /\ t = Closed(s)
    \/ c = Mark /\ WantsKey(s) /\ t = To(s, "key")
    \/ c = Mark /\ s.mode = "key" /\ t = To(s, "colon")
    \/ c = Mark /\ WantsValue(s) /\ t = To(s, "str")
    \/ c = Mark /\ s.mode = "str" /\ t = To(s, "after")
    \/ c # Mark /\ s.mode \in {"key", "str"} /\ t = s
    \/ c = ":" /\ s.mode = "colon" /\ t = To(s, "value")
    \/ c = "," /\ s.mode \in {"after", "prim"} /\ t = To(s, "next")
    \/ c \in Blank /\ s.mode \in {"next", "value"} /\ t = s
    \/ c \in Start /\ WantsValue(s) /\ t = To(s, "prim")
    \/ c \notin Opening \cup Passed \cup {Mark} /\ s.mode = "prim" /\ t = s

\* The states r that reading a text leads through.
Path(r, text) == /\ r \in [0..Len(text) -> States]
                 /\ \A k \in 1..Len(text) : Reads(r[k - 1], text[k], r[k])
IsRun(r, text) == Path(r, text) /\ r[0].mode = "start"

Ends == Closing \cup Blank \cup {","}

\* What changes at no place between two does not change.
LEMMA StaysPut ==
  ASSUME NEW r, NEW a \in Nat, NEW b \in Nat, a <= b,
         \A i \in a..(b - 1) : r[i] = r[a] => r[i + 1] = r[a]
  PROVE  r[b] = r[a]
<1> DEFINE S == {n \in Nat : a + n <= b => r[a + n] = r[a]}
<1>1. 0 \in S
  OBVIOUS
<1>2. ASSUME NEW n \in Nat, n \in S
      PROVE  n + 1 \in S
  <2>1. ASSUME a + (n + 1) <= b
        PROVE  r[a + (n + 1)] = r[a]
    <3>1. a + n \in a..(b - 1) /\ a + (n + 1) = (a + n) + 1
      BY <2>1
    <3>2. r[a + n] = r[a]
      BY <3>1, <1>2
    <3>3. QED BY <3>1, <3>2
  <2>2. QED BY <2>1
<1>3. b - a \in S
  <2> HIDE DEF S
  <2>1. Nat \subseteq S
    BY <1>1, <1>2, SetInduction
  <2>2. QED BY <2>1
<1>4. QED BY <1>3, a + (b - a) = b

\* In a name or a string everything but a quote leaves the state as it is.
LEMMA RunThroughString ==
  ASSUME NEW text, Len(text) \in Nat, NEW r, IsRun(r, text), NEW a \in Nat,
         NEW b \in Nat, a <= b, b <= Len(text), r[a].mode \in {"key", "str"},
         \A i \in a..(b - 1) : text[i + 1] # Mark
  PROVE  r[b] = r[a]
<1>1. ASSUME NEW i \in a..(b - 1), r[i] = r[a]
      PROVE  r[i + 1] = r[a]
  <2>1. i + 1 \in 1..Len(text) /\ (i + 1) - 1 = i
    OBVIOUS
  <2>2. Reads(r[i], text[i + 1], r[i + 1])
    BY <2>1 DEF IsRun, Path
  <2>3. QED BY <2>2, <1>1, CharKinds DEF Reads, WantsKey, WantsValue
<1>2. QED BY <1>1, StaysPut

\* So does, in a primitive, everything that does not end it.
LEMMA RunThroughPrimitive ==
  ASSUME NEW text, Len(text) \in Nat, NEW r, IsRun(r, text), NEW a \in Nat,
         NEW b \in Nat, a <= b, b <= Len(text), r[a].mode = "prim",
         \A i \in a..(b - 1) : text[i + 1] \notin Ends
  PROVE  r[b] = r[a]
<1>1. ASSUME NEW i \in a..(b - 1), r[i] = r[a]
      PROVE  r[i + 1] = r[a]
  <2>1. i + 1 \in 1..Len(text) /\ (i + 1) - 1 = i
    OBVIOUS
  <2>2. Reads(r[i], text[i + 1], r[i + 1])
    BY <2>1 DEF IsRun, Path
  <2>3. QED BY <2>2, <1>1, CharKinds DEF Reads, WantsKey, WantsValue, Ends
<1>2. QED BY <1>1, StaysPut

\* One character on.
LEMMA RunStep ==
  ASSUME NEW text, Len(text) \in Nat, NEW r, IsRun(r, text),
         NEW k \in Nat, k < Len(text)
  PROVE  /\ r[k] \in States /\ r[k + 1] \in States
         /\ Reads(r[k], text[k + 1], r[k + 1])
<1>1. k \in 0..Len(text) /\ k + 1 \in 0..Len(text) /\ k + 1 \in 1..Len(text)
      /\ (k + 1) - 1 = k
  OBVIOUS
<1>2. QED BY <1>1 DEF IsRun, Path

\* What a quotation mark, read from outside of strings, leads to.
LEMMA RunString ==
  ASSUME NEW text, Len(text) \in Nat, NEW r, IsRun(r, text),
         NEW a \in Nat, a < Len(text), text[a + 1] = Mark,
         r[a].mode \notin {"key", "str", "prim"},
         NEW b \in (a + 1)..Len(text),
         \A i \in (a + 1)..(b - 1) : text[i + 1] # Mark,
         b < Len(text) => text[b + 1] = Mark
  PROVE  /\ b < Len(text) => \/ WantsKey(r[a]) /\ r[b + 1] = To(r[a], "colon")
                             \/ WantsValue(r[a]) /\ r[b + 1] = To(r[a], "after")
         /\ b = Len(text) => r[b].mode \in {"key", "str"}
<1>1. Reads(r[a], text[a + 1], r[a + 1])
  BY RunStep
<1>2. \/ WantsKey(r[a]) /\ r[a + 1] = To(r[a], "key")
      \/ WantsValue(r[a]) /\ r[a + 1] = To(r[a], "str")
  BY <1>1, CharKinds, ParseAssumption DEF Reads, Mark
<1>3. r[a + 1].mode \in {"key", "str"} /\ r[a + 1].stack = r[a].stack
  BY <1>2 DEF To
<1>4. r[b] = r[a + 1]
  BY <1>3, RunThroughString, a + 1 \in Nat, b \in Nat, a + 1 <= b, b <= Len(text)
<1>5. ASSUME b < Len(text)
      PROVE  \/ WantsKey(r[a]) /\ r[b + 1] = To(r[a], "colon")
             \/ WantsValue(r[a]) /\ r[b + 1] = To(r[a], "after")
  <2>1. Reads(r[b], text[b + 1], r[b + 1]) /\ text[b + 1] = Mark
    BY <1>5, RunStep, b \in Nat
  <2>2. \/ r[b].mode = "key" /\ r[b + 1] = To(r[b], "colon")
        \/ r[b].mode = "str" /\ r[b + 1] = To(r[b], "after")
    BY <2>1, <1>3, <1>4, CharKinds, ParseAssumption DEF Reads, WantsKey, WantsValue, Mark
  <2>3. QED BY <2>2, <1>2, <1>4 DEF To
<1>6. QED BY <1>3, <1>4, <1>5

\* What the first character of a primitive leads to.
LEMMA RunPrimitive ==
  ASSUME NEW text, Len(text) \in Nat, NEW r, IsRun(r, text),
         NEW a \in Nat, a < Len(text), text[a + 1] \notin Opening \cup Passed \cup {Mark},
         r[a].mode \notin {"key", "str", "prim"},
         NEW b \in a..Len(text),
         \A i \in a..(b - 1) : text[i + 1] \notin Ends,
         b < Len(text) => text[b + 1] \in Ends
  PROVE  /\ text[a + 1] \in Start /\ WantsValue(r[a]) /\ a < b
         /\ r[b] = To(r[a], "prim")
<1>1. Reads(r[a], text[a + 1], r[a + 1])
  BY RunStep
<1>2. text[a + 1] \in Start /\ WantsValue(r[a]) /\ r[a + 1] = To(r[a], "prim")
  BY <1>1, CharKinds DEF Reads, Passed
<1>3. a < b
  <2>1. text[a + 1] \notin Ends
    BY DEF Passed, Ends
  <2>2. b # a
    BY <2>1
  <2>3. QED BY <2>2
<1>4. r[b] = r[a + 1]
  <2>1. r[a + 1].mode = "prim"
    BY <1>2 DEF To
  <2>2. QED BY <1>3, <2>1, RunThroughPrimitive, a + 1 \in Nat, b \in Nat, a + 1 <= b,
               b <= Len(text)
<1>5. QED BY <1>2, <1>3, <1>4

----------------------------------------------------------------------------
(* The loop along a document.                                              *)

\* Between two turns the loop is not inside a string, and inside a primitive
\* only at its end.
RunAt(r) == /\ IsRun(r, js)
            /\ r[pos].mode \notin {"key", "str"}
            /\ r[pos].mode = "prim" /\ pos < Len(js) => At \in Ends

\* What a turn leads to.
LEMMA TurnRuns ==
  ASSUME ParserOK, NEW r, RunAt(r), pos < Len(js), NextPos(pos) <= Len(js)
  PROVE  /\ r[NextPos(pos)].mode \notin {"key", "str"}
         /\ r[NextPos(pos)].mode = "prim" /\ NextPos(pos) < Len(js)
              => js[NextPos(pos) + 1] \in Ends
         /\ At = Mark =>
              \/ WantsKey(r[pos]) /\ r[NextPos(pos)] = To(r[pos], "colon")
              \/ WantsValue(r[pos]) /\ r[NextPos(pos)] = To(r[pos], "after")
         /\ At \notin Opening \cup Passed \cup {Mark} =>
              At \in Start /\ WantsValue(r[pos]) /\ r[NextPos(pos)] = To(r[pos], "prim")
<1>1. /\ Len(js) \in Nat /\ pos \in Nat /\ pos \in 0..Len(js) /\ pos + 1 \in 0..Len(js)
      /\ IsRun(r, js) /\ At = js[pos + 1]
  BY DEF ParserOK, RunAt, At
<1>2. Reads(r[pos], At, r[pos + 1])
  BY <1>1, RunStep
<1>3. CASE At \in Opening \cup Passed
  <2>1. NextPos(pos) = pos + 1
    BY <1>3 DEF NextPos, At
  <2>2. At # Mark /\ r[pos].mode \notin {"key", "str"}
    BY <1>3, CharKinds DEF RunAt
  <2>3. r[pos + 1].mode \notin {"key", "str", "prim"}
    <3>1. ~ (At \in Start /\ WantsValue(r[pos]))
      BY <1>3, ParseAssumption DEF Passed
    <3>2. \/ r[pos + 1] = Opened(r[pos], At)
          \/ r[pos + 1] = Closed(r[pos])
          \/ r[pos + 1] = To(r[pos], "value")
          \/ r[pos + 1] = To(r[pos], "next")
          \/ r[pos].mode \in {"next", "value"} /\ r[pos + 1] = r[pos]
      BY <1>2, <1>3, <2>2, <3>1 DEF Reads
    <3>3. QED BY <3>2 DEF Opened, Closed, To
  <2>4. QED BY <2>1, <2>2, <2>3, <1>3
<1>4. CASE At = Mark
  <2> DEFINE end == Next1(pos + 1, {Mark})
  <2>1. NextPos(pos) = end + 1
    BY <1>4, CharKinds DEF NextPos, At
  <2>2. /\ end \in (pos + 1)..Len(js)
        /\ end < Len(js) => js[end + 1] = Mark
        /\ \A i \in (pos + 1)..(end - 1) : js[i + 1] # Mark
    BY <1>1, Next1Finds
  <2>3. r[pos].mode \notin {"key", "str", "prim"}
    BY <1>4, CharKinds DEF RunAt, Ends, Passed
  <2> HIDE DEF end
  <2>4. end < Len(js) /\ end \in Nat
    BY <2>1, <2>2, <1>1
  <2>5. \/ WantsKey(r[pos]) /\ r[end + 1] = To(r[pos], "colon")
        \/ WantsValue(r[pos]) /\ r[end + 1] = To(r[pos], "after")
    <3>1. js[pos + 1] = Mark
      BY <1>1, <1>4
    <3>2. QED BY <1>1, <2>2, <2>3, <2>4, <3>1, RunString
  <2>6. r[end + 1].mode \in {"colon", "after"}
    BY <2>5 DEF To
  <2>7. QED BY <2>1, <2>5, <2>6, <1>4
<1>5. CASE At \notin Opening \cup Passed \cup {Mark}
  <2> DEFINE end == Next1(pos, Ends)
  <2>1. NextPos(pos) = end
    BY <1>5 DEF NextPos, At, Ends
  <2>2. /\ end \in pos..Len(js)
        /\ end < Len(js) => js[end + 1] \in Ends
        /\ \A i \in pos..(end - 1) : js[i + 1] \notin Ends
    BY <1>1, Next1Finds
  <2>3. r[pos].mode \notin {"key", "str", "prim"}
    BY <1>5, CharKinds DEF RunAt, Ends, Passed
  <2> HIDE DEF end
  <2>4. At \in Start /\ WantsValue(r[pos]) /\ r[end] = To(r[pos], "prim")
    BY <1>1, <1>5, <2>2, <2>3, RunPrimitive
  <2>5. r[end].mode = "prim"
    BY <2>4 DEF To
  <2>6. QED BY <2>1, <2>2, <2>4, <2>5, <1>5
<1>6. QED BY <1>3, <1>4, <1>5

----------------------------------------------------------------------------
(* The tokens along a document.  Whatever is open in the text read so far  *)
(* has a token that is open: o holds the indexes of these.                 *)

\* Token i is p, or a key of p.
Under(toks, i, p) ==
    \/ i = p
    \/ /\ i \in 1..Len(toks)
       /\ toks[i].type = "string" /\ toks[i].parent = p

\* The open tokens are those of st, one inside the other, and whatever comes
\* after one of them lies in it.
Nested(toks, st, o) ==
    /\ o \in Seq(Nat) /\ Len(o) = Len(st)
    /\ \A j \in 1..Len(o) : /\ o[j] \in 1..Len(toks)
                            /\ IsOpen(toks[o[j]]) /\ toks[o[j]].type = st[j]
    /\ \A i, j \in 1..Len(o) : i < j => o[i] < o[j]
    /\ \A k \in 1..Len(toks) : IsOpen(toks[k]) => \E j \in 1..Len(o) : o[j] = k
    /\ \A j \in 1..Len(o), k \in 1..Len(toks) : o[j] < k => o[j] <= toks[k].parent
    /\ \A j \in 1..Len(o) : j # 1 => Under(toks, toks[o[j]].parent, o[j - 1])

\* The last token is a key of p that has no value yet.
LastIsKey(toks, p) ==
    /\ p < Len(toks)
    /\ toks[Len(toks)].type = "string" /\ toks[Len(toks)].size = 0
    /\ toks[Len(toks)].parent = p

\* What toksuper is, by what comes next.
Superior(toks, super, mode, p) ==
    /\ mode \in {"first", "next", "colon"} => super = p
    /\ mode \in {"colon", "value"} => LastIsKey(toks, p)
    /\ mode = "value" => super = Len(toks)
    /\ mode \in {"after", "prim"} => Under(toks, super, p)

Stacked(toks, super, s, o) == /\ Nested(toks, s.stack, o)
                              /\ Superior(toks, super, s.mode, o[Len(o)])

\* What a new token leaves as it was.
Extends(toks2, toks) ==
    /\ Len(toks2) = Len(toks) + 1
    /\ \A i \in 1..Len(toks) : /\ toks2[i].type = toks[i].type
                               /\ toks2[i].end = toks[i].end
                               /\ toks2[i].parent = toks[i].parent

\* A string or a primitive opens nothing.
LEMMA ElementNests ==
  ASSUME NEW toks, Len(toks) \in Nat, NEW toks2, Extends(toks2, toks),
         NEW st, NEW o, Nested(toks, st, o),
         ~ IsOpen(toks2[Len(toks) + 1]),
         \A j \in 1..Len(o) : o[j] <= toks2[Len(toks) + 1].parent
  PROVE  Nested(toks2, st, o)
<1> DEFINE n == Len(toks)
<1>1. /\ Len(toks2) = n + 1 /\ n \in Nat
      /\ \A i \in 1..(n + 1) : i # n + 1 => i \in 1..n
  BY DEF Extends
<1>2. \A j \in 1..Len(o) : /\ o[j] \in 1..Len(toks2)
                           /\ IsOpen(toks2[o[j]]) /\ toks2[o[j]].type = st[j]
  <2>1. ASSUME NEW j \in 1..Len(o)
        PROVE  /\ o[j] \in 1..Len(toks2)
               /\ IsOpen(toks2[o[j]]) /\ toks2[o[j]].type = st[j]
    <3>1. o[j] \in 1..n /\ IsOpen(toks[o[j]]) /\ toks[o[j]].type = st[j]
      BY DEF Nested
    <3>2. QED BY <3>1, <1>1 DEF Extends, IsOpen
  <2>2. QED BY <2>1
<1>3. ASSUME NEW k \in 1..Len(toks2), IsOpen(toks2[k])
      PROVE  \E j \in 1..Len(o) : o[j] = k
  <2>1. k \in 1..n
    BY <1>1, <1>3
  <2>2. IsOpen(toks[k])
    BY <2>1, <1>3 DEF Extends, IsOpen
  <2>3. QED BY <2>1, <2>2 DEF Nested
<1>4. ASSUME NEW j \in 1..Len(o), NEW k \in 1..Len(toks2), o[j] < k
      PROVE  o[j] <= toks2[k].parent
  <2>1. CASE k = n + 1
    BY <2>1
  <2>2. CASE k # n + 1
    <3>1. k \in 1..n
      BY <1>1, <2>2
    <3>2. QED BY <3>1, <1>4 DEF Nested, Extends
  <2>3. QED BY <2>1, <2>2
<1>5. ASSUME NEW j \in 1..Len(o), j # 1
      PROVE  Under(toks2, toks2[o[j]].parent, o[j - 1])
  <2>1. o[j] \in 1..n /\ Under(toks, toks[o[j]].parent, o[j - 1])
    BY <1>5 DEF Nested
  <2>2. toks2[o[j]].parent = toks[o[j]].parent
    BY <2>1 DEF Extends
  <2>3. QED BY <2>1, <2>2, <1>1 DEF Under, Extends
<1>6. QED BY <1>2, <1>3, <1>4, <1>5 DEF Nested

\* An opening bracket puts its token on top.
LEMMA BracketNests ==
  ASSUME NEW toks, Len(toks) \in Nat, NEW toks2, Extends(toks2, toks),
         NEW st \in Seq({"object", "array"}), NEW o, Nested(toks, st, o),
         NEW type \in {"object", "array"},
         IsOpen(toks2[Len(toks) + 1]), toks2[Len(toks) + 1].type = type,
         \A j \in 1..Len(o) : o[j] <= toks2[Len(toks) + 1].parent,
         o # <<>> => Under(toks, toks2[Len(toks) + 1].parent, o[Len(o)])
  PROVE  Nested(toks2, Append(st, type), Append(o, Len(toks) + 1))
<1> DEFINE n == Len(toks)
           d == Len(o)
           o2 == Append(o, n + 1)
           st2 == Append(st, type)
<1>1. /\ Len(toks2) = n + 1 /\ n \in Nat /\ n + 1 \in Nat
      /\ \A i \in 1..(n + 1) : i # n + 1 => i \in 1..n
  BY DEF Extends
<1>2. o \in Seq(Nat) /\ d \in Nat /\ d = Len(st)
  BY LenProperties DEF Nested
<1>3. /\ o2 \in Seq(Nat) /\ Len(o2) = d + 1 /\ o2[d + 1] = n + 1
      /\ \A j \in 1..d : o2[j] = o[j]
  BY <1>1, <1>2, AppendProperties
<1>4. Len(st2) = d + 1 /\ st2[d + 1] = type /\ \A j \in 1..d : st2[j] = st[j]
  BY <1>2, AppendProperties
<1>5. /\ \A j \in 1..(d + 1) : j = d + 1 \/ j \in 1..d
      /\ \A j \in 1..d : o[j] \in 1..n /\ IsOpen(toks[o[j]]) /\ toks[o[j]].type = st[j]
  BY <1>2 DEF Nested
<1> HIDE DEF o2, st2
<1>6. ASSUME NEW j \in 1..Len(o2)
      PROVE  /\ o2[j] \in 1..Len(toks2)
             /\ IsOpen(toks2[o2[j]]) /\ toks2[o2[j]].type = st2[j]
  <2>1. CASE j = d + 1
    BY <2>1, <1>1, <1>3, <1>4
  <2>2. CASE j \in 1..d
    <3>1. o2[j] = o[j] /\ st2[j] = st[j]
      BY <2>2, <1>3, <1>4
    <3>2. o[j] \in 1..n /\ IsOpen(toks[o[j]]) /\ toks[o[j]].type = st[j]
      BY <2>2, <1>5
    <3>3. /\ toks2[o[j]].end = toks[o[j]].end /\ toks2[o[j]].type = toks[o[j]].type
          /\ o[j] \in 1..Len(toks2)
      BY <3>2, <1>1 DEF Extends
    <3>4. QED BY <3>1, <3>2, <3>3 DEF IsOpen
  <2>3. QED BY <2>1, <2>2, <1>3, <1>5
<1>7. ASSUME NEW i \in 1..Len(o2), NEW j \in 1..Len(o2), i < j
      PROVE  o2[i] < o2[j]
  <2>1. i \in 1..d
    BY <1>2, <1>3, <1>7
  <2>2. CASE j = d + 1
    BY <2>1, <2>2, <1>1, <1>3, <1>5
  <2>3. CASE j \in 1..d
    BY <2>1, <2>3, <1>3, <1>7 DEF Nested
  <2>4. QED BY <2>2, <2>3, <1>3, <1>5
<1>8. ASSUME NEW k \in 1..Len(toks2), IsOpen(toks2[k])
      PROVE  \E j \in 1..Len(o2) : o2[j] = k
  <2>1. CASE k = n + 1
    <3>1. d + 1 \in 1..Len(o2)
      BY <1>2, <1>3
    <3> HIDE DEF o2, d, n
    <3>2. o2[d + 1] = k
      BY <2>1, <1>3
    <3>3. QED BY <3>1, <3>2
  <2>2. CASE k # n + 1
    <3>1. k \in 1..n
      BY <1>1, <2>2
    <3>2. IsOpen(toks[k])
      BY <3>1, <1>8 DEF Extends, IsOpen
    <3>3. PICK j \in 1..d : o[j] = k
      BY <3>1, <3>2 DEF Nested
    <3>4. o2[j] = k
      BY <3>3, <1>3
    <3>5. j \in 1..Len(o2)
      BY <1>2, <1>3
    <3>6. QED BY <3>4, <3>5
  <2>3. QED BY <2>1, <2>2
<1>9. ASSUME NEW j \in 1..Len(o2), NEW k \in 1..Len(toks2), o2[j] < k
      PROVE  o2[j] <= toks2[k].parent
  <2>1. j \in 1..d /\ o2[j] = o[j]
    BY <1>1, <1>3, <1>5, <1>9
  <2>2. CASE k = n + 1
    BY <2>1, <2>2
  <2>3. CASE k # n + 1
    <3>1. k \in 1..n
      BY <1>1, <2>3
    <3>2. QED BY <3>1, <2>1, <1>9 DEF Nested, Extends
  <2>4. QED BY <2>2, <2>3
<1>10. \A i, p : Under(toks, i, p) => Under(toks2, i, p)
  BY <1>1 DEF Under, Extends
<1>11. ASSUME NEW j \in 1..Len(o2), j # 1
       PROVE  Under(toks2, toks2[o2[j]].parent, o2[j - 1])
  <2>1. CASE j = d + 1
    <3>1. o # <<>> /\ j - 1 = d /\ o2[j - 1] = o[d] /\ o2[j] = n + 1
      <4>1. d # 0 /\ d \in 1..d /\ j - 1 = d
        BY <2>1, <1>11, <1>2
      <4>2. QED BY <4>1, <2>1, <1>3, EmptySeq
    <3>2. QED BY <3>1, <1>10
  <2>2. CASE j \in 1..d
    <3>1. j - 1 \in 1..d /\ o2[j - 1] = o[j - 1] /\ o2[j] = o[j]
      BY <2>2, <1>3, <1>11
    <3>2. Under(toks, toks[o[j]].parent, o[j - 1])
      BY <2>2, <1>11 DEF Nested
    <3>3. toks2[o[j]].parent = toks[o[j]].parent
      BY <2>2, <1>5 DEF Extends
    <3>4. QED BY <3>1, <3>2, <3>3, <1>10
  <2>3. QED BY <2>1, <2>2, <1>3, <1>5
<1>12. Nested(toks2, st2, o2)
  BY <1>3, <1>4, <1>6, <1>7, <1>8, <1>9, <1>11 DEF Nested
<1>13. QED BY <1>12 DEF st2, o2

\* A closing bracket takes the token on top away.
LEMMA ClosingNests ==
  ASSUME NEW toks, Len(toks) \in Nat, NEW toks2, Len(toks2) = Len(toks),
         NEW st \in Seq({"object", "array"}), NEW o, Nested(toks, st, o), o # <<>>,
         \A i \in 1..Len(toks) : /\ toks2[i].type = toks[i].type
                                 /\ toks2[i].parent = toks[i].parent
                                 /\ i # o[Len(o)] => toks2[i].end = toks[i].end,
         ~ IsOpen(toks2[o[Len(o)]])
  PROVE  Nested(toks2, SubSeq(st, 1, Len(st) - 1), SubSeq(o, 1, Len(o) - 1))
<1> DEFINE n == Len(toks)
           d == Len(o)
           o2 == SubSeq(o, 1, d - 1)
           st2 == SubSeq(st, 1, d - 1)
<1>1. o \in Seq(Nat) /\ d \in Nat /\ d # 0 /\ d = Len(st) /\ d \in 1..d
  <2>1. o \in Seq(Nat) /\ Len(o) = Len(st)
    BY DEF Nested
  <2>2. Len(o) # 0 /\ Len(o) \in Nat
    BY <2>1, EmptySeq, LenProperties
  <2>3. QED BY <2>1, <2>2
<1>2. /\ \A j \in 1..d : /\ o[j] \in 1..n
                         /\ IsOpen(toks[o[j]]) /\ toks[o[j]].type = st[j]
      /\ \A j \in 1..(d - 1) : j \in 1..d /\ o[j] < o[d] /\ o[j] # o[d]
  <2>1. \A j \in 1..d : /\ o[j] \in 1..n
                        /\ IsOpen(toks[o[j]]) /\ toks[o[j]].type = st[j]
    BY DEF Nested
  <2>2. \A j \in 1..(d - 1) : j \in 1..d /\ d \in 1..d /\ j < d
    BY <1>1
  <2>3. \A j \in 1..(d - 1) : o[j] < o[d]
    BY <2>2 DEF Nested
  <2>4. QED BY <2>1, <2>2, <2>3, <1>1
<1>3. /\ o2 \in Seq(Nat) /\ Len(o2) = d - 1 /\ \A j \in 1..(d - 1) : o2[j] = o[j]
      /\ Len(st2) = d - 1 /\ \A j \in 1..(d - 1) : st2[j] = st[j]
  <2>1. /\ 1 \in Int /\ d - 1 \in Int /\ d - 1 >= 0
        /\ \A j \in 1..(d - 1) : o[j] \in Nat /\ st[j] \in {"object", "array"}
        /\ \A j \in 1..(d - 1) : (1 + j) - 1 = j
    BY <1>1, <1>2, ElementOfSeq
  <2>2. /\ SubSeq(o, 1, d - 1) \in Seq(Nat)
        /\ Len(SubSeq(o, 1, d - 1)) = IF 1 <= d - 1 THEN (d - 1) - 1 + 1 ELSE 0
        /\ \A j \in 1..(d - 1) - 1 + 1 : SubSeq(o, 1, d - 1)[j] = o[1 + j - 1]
    BY <2>1, SubSeqProperties
  <2>3. /\ Len(SubSeq(st, 1, d - 1)) = IF 1 <= d - 1 THEN (d - 1) - 1 + 1 ELSE 0
        /\ \A j \in 1..(d - 1) - 1 + 1 : SubSeq(st, 1, d - 1)[j] = st[1 + j - 1]
    BY <2>1, SubSeqProperties
  <2>4. QED BY <2>1, <2>2, <2>3, <1>1
<1> HIDE DEF o2, st2
<1>4. ASSUME NEW j \in 1..Len(o2)
      PROVE  /\ o2[j] \in 1..Len(toks2)
             /\ IsOpen(toks2[o2[j]]) /\ toks2[o2[j]].type = st2[j]
  <2>1. o2[j] = o[j] /\ st2[j] = st[j] /\ j \in 1..d /\ o[j] # o[d]
    BY <1>2, <1>3
  <2>2. o[j] \in 1..n /\ IsOpen(toks[o[j]]) /\ toks[o[j]].type = st[j]
    BY <2>1, <1>2
  <2>3. toks2[o[j]].end = toks[o[j]].end /\ toks2[o[j]].type = toks[o[j]].type
    BY <2>1, <2>2
  <2>4. QED BY <2>1, <2>2, <2>3 DEF IsOpen
<1>5. \A i, j \in 1..Len(o2) : i < j => o2[i] < o2[j]
  <2>1. \A i, j \in 1..d : i < j => o[i] < o[j]
    BY DEF Nested
  <2>2. QED BY <2>1, <1>2, <1>3
<1>6. ASSUME NEW k \in 1..Len(toks2), IsOpen(toks2[k])
      PROVE  \E j \in 1..Len(o2) : o2[j] = k
  <2>1. k \in 1..n /\ k # o[d]
    BY <1>6
  <2>2. IsOpen(toks[k])
    BY <2>1, <1>6 DEF IsOpen
  <2>3. PICK j \in 1..d : o[j] = k
    BY <2>1, <2>2 DEF Nested
  <2>4. j \in 1..(d - 1)
    BY <2>1, <2>3, <1>1
  <2>5. QED BY <2>3, <2>4, <1>3
<1>7. ASSUME NEW j \in 1..Len(o2), NEW k \in 1..Len(toks2), o2[j] < k
      PROVE  o2[j] <= toks2[k].parent
  <2>1. j \in 1..d /\ o2[j] = o[j] /\ k \in 1..n
    BY <1>2, <1>3
  <2>2. o[j] <= toks[k].parent
    BY <2>1, <1>7 DEF Nested
  <2>3. QED BY <2>1, <2>2
<1>8. ASSUME NEW j \in 1..Len(o2), j # 1
      PROVE  Under(toks2, toks2[o2[j]].parent, o2[j - 1])
  <2>1. /\ j \in 1..d /\ j - 1 \in 1..(d - 1) /\ o2[j] = o[j] /\ o2[j - 1] = o[j - 1]
        /\ o[j] \in 1..n
    <3>1. j \in 1..(d - 1) /\ j - 1 \in 1..(d - 1)
      BY <1>1, <1>3, <1>8
    <3>2. QED BY <3>1, <1>2, <1>3
  <2>2. Under(toks, toks[o[j]].parent, o[j - 1])
    BY <2>1, <1>8 DEF Nested
  <2>3. QED BY <2>1, <2>2 DEF Under
<1>9. Nested(toks2, st2, o2)
  BY <1>3, <1>4, <1>5, <1>6, <1>7, <1>8 DEF Nested
<1>10. QED BY <1>1, <1>9 DEF st2, o2

\* The innermost open token, and the superior one, which is it or its key.
LEMMA OnTop ==
  ASSUME ParserOK, NEW s \in States, NEW o, Stacked(tokens, toksuper, s, o),
         s.mode \notin {"start", "end", "key", "str"}
  PROVE  /\ o # <<>> /\ Len(o) \in Nat /\ Len(o) \in 1..Len(o)
         /\ o[Len(o)] \in 1..toknext /\ IsOpen(tokens[o[Len(o)]])
         /\ tokens[o[Len(o)]].type = Topmost(s) /\ Topmost(s) \in {"object", "array"}
         /\ Under(tokens, toksuper, o[Len(o)])
         /\ toksuper \in 1..toknext
         /\ \A j \in 1..Len(o) : o[j] <= toksuper
<1> DEFINE d == Len(o)
<1>1. /\ s.stack \in Seq({"object", "array"}) /\ s.stack # <<>>
      /\ s.mode \in {"first", "next", "colon", "value", "prim", "after"}
  BY DEF States, Modes
<1>2. /\ o \in Seq(Nat) /\ d = Len(s.stack)
      /\ \A j \in 1..d : /\ o[j] \in 1..Len(tokens)
                         /\ IsOpen(tokens[o[j]]) /\ tokens[o[j]].type = s.stack[j]
      /\ \A i, j \in 1..d : i < j => o[i] < o[j]
  BY DEF Stacked, Nested
<1>3. d \in Nat /\ d # 0 /\ d \in 1..d /\ o # <<>>
  <2>1. Len(s.stack) \in Nat /\ Len(s.stack) # 0
    BY <1>1, EmptySeq, LenProperties
  <2>2. QED BY <2>1, <1>2, EmptySeq
<1>4. s.stack[d] \in {"object", "array"} /\ Topmost(s) = s.stack[d]
  BY <1>1, <1>2, <1>3, ElementOfSeq DEF Topmost
<1>5. /\ o[d] \in 1..toknext /\ IsOpen(tokens[o[d]])
      /\ tokens[o[d]].type = Topmost(s)
  BY <1>2, <1>3, <1>4 DEF toknext
<1>6. Superior(tokens, toksuper, s.mode, o[d])
  BY DEF Stacked
<1>7. toknext \in Nat /\ toknext = Len(tokens)
  BY DEF ParserOK, toknext
<1>8. Under(tokens, toksuper, o[d])
  <2>1. CASE s.mode \in {"first", "next", "colon"}
    BY <2>1, <1>6 DEF Superior, Under
  <2>2. CASE s.mode = "value"
    <3>1. toksuper = toknext /\ LastIsKey(tokens, o[d])
      BY <2>2, <1>6, <1>7 DEF Superior
    <3>2. o[d] < toknext /\ toknext \in 1..toknext
      BY <3>1, <1>5, <1>7 DEF LastIsKey
    <3>3. QED BY <3>1, <3>2, <1>7 DEF LastIsKey, Under
  <2>3. CASE s.mode \in {"after", "prim"}
    BY <2>3, <1>6 DEF Superior
  <2>4. QED BY <1>1, <2>1, <2>2, <2>3
<1>9. toksuper \in 1..toknext /\ o[d] <= toksuper
  <2>1. CASE toksuper = o[d]
    BY <2>1, <1>5, <1>7
  <2>2. CASE toksuper \in 1..toknext /\ tokens[toksuper].parent = o[d]
    BY <2>2, <1>7, ParentsBefore
  <2>3. QED BY <1>8, <2>1, <2>2, <1>7 DEF Under
<1>10. ASSUME NEW j \in 1..d
       PROVE  o[j] <= toksuper
  <2>1. CASE j = d
    BY <2>1, <1>9
  <2>2. CASE j # d
    <3>1. j < d
      BY <2>2, <1>3
    <3>2. o[j] < o[d] /\ o[j] \in Nat /\ o[d] \in Nat /\ toksuper \in Nat
      BY <3>1, <1>2, <1>3, <1>9, <1>7
    <3>3. QED BY <3>2, <1>9
  <2>3. QED BY <2>1, <2>2
<1>11. QED BY <1>3, <1>4, <1>5, <1>8, <1>9, <1>10

\* The walk of a closing bracket ends at the innermost open token.
LEMMA InnermostIsTop ==
  ASSUME ParserOK, NEW st, NEW o, Nested(tokens, st, o), Len(o) \in 1..Len(o)
  PROVE  Innermost = o[Len(o)]
<1> DEFINE top == o[Len(o)]
<1>1. PICK f : /\ \A i \in 0..toknext : f[i] = IF i = 0 \/ IsOpen(tokens[i])
                                               THEN i ELSE f[tokens[i].parent]
               /\ Innermost = f[toknext]
  BY Walks
<1>2. toknext \in Nat /\ toknext = Len(tokens)
  BY DEF ParserOK, toknext
<1>3. /\ top \in 1..toknext /\ IsOpen(tokens[top])
      /\ \A k \in 1..toknext : top < k => top <= tokens[k].parent
  BY <1>2 DEF Nested
<1>4. ASSUME NEW k \in 1..toknext, top < k
      PROVE  ~ IsOpen(tokens[k])
  <2>1. ASSUME NEW j \in 1..Len(o) PROVE o[j] # k
    <3>1. CASE j = Len(o)
      BY <3>1, <1>3, <1>4
    <3>2. CASE j # Len(o)
      <4>1. j < Len(o)
        BY <3>2
      <4>2. o[j] < top /\ o[j] \in 1..toknext
        BY <4>1, <1>2 DEF Nested
      <4>3. QED BY <4>2, <1>3, <1>4
    <3>3. QED BY <3>1, <3>2
  <2>2. QED BY <2>1, <1>2 DEF Nested
<1> HIDE DEF top
<1> DEFINE Q == {n \in Nat : \A i \in top..(top + n) : i <= toknext => f[i] = top}
<1>5. 0 \in Q
  <2>1. f[top] = top
    BY <1>1, <1>3
  <2>2. QED BY <2>1, <1>3
<1>6. ASSUME NEW n \in Nat, n \in Q
      PROVE  n + 1 \in Q
  <2>1. ASSUME NEW i \in top..(top + (n + 1)), i <= toknext
        PROVE  f[i] = top
    <3>1. CASE i \in top..(top + n)
      BY <3>1, <2>1, <1>6
    <3>2. CASE i \notin top..(top + n)
      <4>1. i \in 1..toknext /\ top < i /\ i \in 0..toknext /\ i # 0 /\ i = top + n + 1
        BY <3>2, <2>1, <1>3
      <4>2. f[i] = f[tokens[i].parent]
        BY <4>1, <1>1, <1>4
      <4>3. /\ tokens[i].parent \in Nat /\ tokens[i].parent < i
            /\ top <= tokens[i].parent
        BY <4>1, <1>3, ParentsBefore
      <4>4. tokens[i].parent \in top..(top + n) /\ tokens[i].parent <= toknext
        BY <4>1, <4>3, <1>3, <1>2
      <4>5. f[tokens[i].parent] = top
        BY <4>4, <1>6
      <4>6. QED BY <4>2, <4>5
    <3>3. QED BY <3>1, <3>2
  <2>2. QED BY <2>1
<1>7. toknext - top \in Nat /\ top + (toknext - top) = toknext
      /\ toknext \in top..toknext /\ toknext <= toknext
  BY <1>2, <1>3
<1>8. toknext - top \in Q
  <2> HIDE DEF Q
  <2>1. QED BY <1>5, <1>6, <1>7, SetInduction
<1>9. f[toknext] = top
  BY <1>7, <1>8
<1>10. QED BY <1>1, <1>9 DEF top

----------------------------------------------------------------------------
(* What each turn finds, by the character it is at.                        *)

LEMMA WhatIsRead ==
  ASSUME ParserOK, NEW r, RunAt(r), pos < Len(js)
  PROVE  /\ r[pos] \in States /\ r[pos + 1] \in States
         /\ At \in Opening => /\ r[pos].mode = "start" \/ WantsValue(r[pos])
                              /\ r[pos + 1] = Opened(r[pos], At)
         /\ At \in Closing => /\ r[pos].mode \in {"first", "after", "prim"}
                              /\ Topmost(r[pos]) = TypeOf(At)
                              /\ r[pos + 1] = Closed(r[pos])
         /\ At = ":" => r[pos].mode = "colon" /\ r[pos + 1] = To(r[pos], "value")
         /\ At = "," => /\ r[pos].mode \in {"after", "prim"}
                        /\ r[pos + 1] = To(r[pos], "next")
         /\ At \in Blank => r[pos].mode \in {"next", "value"} /\ r[pos + 1] = r[pos]
<1>1. /\ r[pos] \in States /\ r[pos + 1] \in States
      /\ Reads(r[pos], At, r[pos + 1]) /\ r[pos].mode \notin {"key", "str"}
  <2>1. Len(js) \in Nat /\ pos \in Nat /\ IsRun(r, js)
    BY DEF ParserOK, RunAt
  <2>2. QED BY <2>1, RunStep DEF At, RunAt
<1>2. CASE At \in Opening
  <2>1. /\ At # Mark /\ At \notin Start /\ At \notin Closing /\ At # ":" /\ At # ","
        /\ At \notin Blank
    BY <1>2, CharKinds, ParseAssumption DEF Passed
  <2>2. QED BY <1>1, <1>2, <2>1 DEF Reads
<1>3. CASE At \in Passed
  <2>1. At \notin Opening /\ At # Mark /\ At \notin Start
    BY <1>3, CharKinds, ParseAssumption DEF Passed
  <2>2. QED BY <1>1, <1>3, <2>1 DEF Reads, Closing, Blank
<1>4. QED BY <1>1, <1>2, <1>3 DEF Passed

----------------------------------------------------------------------------
(* What each turn of the second pass does to the open tokens.              *)

LEMMA TokenAdded ==
  ASSUME ParserOK, NEW tok \in TokenSet
  PROVE  /\ Extends(WithToken(tok), tokens)
         /\ WithToken(tok)[Len(tokens) + 1] = tok
         /\ Len(tokens) \in Nat /\ Len(WithToken(tok)) = Len(tokens) + 1
BY WithTokenAdds DEF Extends, toknext, ParserOK

LEMMA OpenBracketStacks ==
  ASSUME ParserOK, PassInv, pass = "fill", NEW r, RunAt(r), NEW o,
         Stacked(tokens, toksuper, r[pos], o), OpenBracket
  PROVE  /\ pass' = "fill"
         /\ Stacked(tokens', toksuper', r[pos + 1], Append(o, Len(tokens) + 1))
<1> DEFINE s == r[pos]
           tok == Token(TypeOf(At), pos, -1, toksuper)
           n == Len(tokens)
           o2 == Append(o, n + 1)
<1>1. /\ Parsing /\ ~ AtEnd /\ At \in Opening /\ pos \in Nat /\ pos < Len(js)
      /\ toknext \in Nat /\ toksuper \in 0..toknext /\ toknext = n /\ n \in Nat
  BY InLoop DEF OpenBracket, toknext
<1>2. /\ s \in States /\ (s.mode = "start" \/ WantsValue(s))
      /\ r[pos + 1] = Opened(s, At)
  BY <1>1, WhatIsRead
<1>3. Starts(pos)
  BY <1>1, CharKinds DEF Starts, At
<1>4. HasToken
  BY <1>1, <1>3, RoomForEach
<1>5. Continue(pos, WithToken(tok), toknext + 1, count + 1)
  BY <1>4 DEF OpenBracket
<1>6. /\ tok \in TokenSet /\ TypeOf(At) \in {"object", "array"}
      /\ tok.type = TypeOf(At) /\ IsOpen(tok) /\ tok.parent = toksuper
  BY <1>1 DEF TokenSet, Token, TypeOf, IsOpen
<1> HIDE DEF tok
<1>7. /\ tokens' = WithToken(tok) /\ toksuper' = n + 1 /\ pass' = pass
  BY <1>1, <1>5 DEF Continue
<1>8. /\ Extends(WithToken(tok), tokens)
      /\ WithToken(tok)[n + 1] = tok
  BY <1>6, TokenAdded
<1>9. /\ Nested(tokens, s.stack, o) /\ o \in Seq(Nat) /\ Len(o) = Len(s.stack)
      /\ s.stack \in Seq({"object", "array"})
  BY <1>2 DEF Stacked, Nested, States
<1>10. /\ \A j \in 1..Len(o) : o[j] <= toksuper
       /\ o # <<>> => Under(tokens, toksuper, o[Len(o)])
  <2>1. CASE s.mode = "start"
    <3>1. s.stack = <<>>
      BY <2>1, <1>2 DEF States
    <3>2. o = <<>> /\ Len(o) = 0
      BY <3>1, <1>9, EmptySeq
    <3>3. QED BY <3>2
  <2>2. CASE WantsValue(s)
    <3>1. s.mode \notin {"start", "end", "key", "str"}
      BY <2>2 DEF WantsValue
    <3>2. QED BY <3>1, <1>2, OnTop
  <2>3. QED BY <1>2, <2>1, <2>2
<1>11. Nested(WithToken(tok), Append(s.stack, TypeOf(At)), o2)
  BY <1>1, <1>6, <1>8, <1>9, <1>10, BracketNests
<1>12. o2[Len(o2)] = n + 1
  BY <1>1, <1>9, AppendProperties
<1>13. r[pos + 1].mode = "first" /\ r[pos + 1].stack = Append(s.stack, TypeOf(At))
  BY <1>2 DEF Opened
<1>14. Superior(WithToken(tok), n + 1, "first", n + 1)
  BY DEF Superior
<1> HIDE DEF s, o2
<1>15. Stacked(tokens', toksuper', r[pos + 1], o2)
  BY <1>7, <1>11, <1>12, <1>13, <1>14 DEF Stacked
<1>16. QED BY <1>7, <1>15 DEF o2

LEMMA CloseBracketStacks ==
  ASSUME ParserOK, PassInv, pass = "fill", NEW r, RunAt(r), NEW o,
         Stacked(tokens, toksuper, r[pos], o), CloseBracket
  PROVE  /\ pass' = "fill"
         /\ Stacked(tokens', toksuper', r[pos + 1], SubSeq(o, 1, Len(o) - 1))
<1> DEFINE s == r[pos]
           d == Len(o)
           top == o[d]
           t == [tokens[top] EXCEPT !.end = pos + 1]
           toks == [tokens EXCEPT ![top].end = pos + 1]
           o2 == SubSeq(o, 1, d - 1)
<1>1. /\ Parsing /\ ~ AtEnd /\ At \in Closing /\ pos \in Nat /\ pos < Len(js)
      /\ toknext \in Nat /\ toksuper \in 0..toknext /\ toknext = Len(tokens)
      /\ tokens \in Seq(TokenSet)
  BY InLoop DEF CloseBracket, toknext, ParserOK
<1>2. /\ s \in States /\ s.mode \in {"first", "after", "prim"}
      /\ Topmost(s) = TypeOf(At) /\ r[pos + 1] = Closed(s)
  BY <1>1, WhatIsRead
<1>3. /\ o # <<>> /\ d \in Nat /\ d \in 1..d /\ top \in 1..toknext
      /\ IsOpen(tokens[top]) /\ tokens[top].type = Topmost(s)
  <2>1. s.mode \notin {"start", "end", "key", "str"}
    BY <1>2
  <2>2. QED BY <2>1, <1>2, OnTop
<1>4. Nested(tokens, s.stack, o) /\ Len(s.stack) = d /\ o \in Seq(Nat)
      /\ s.stack \in Seq({"object", "array"})
  BY <1>2 DEF Stacked, Nested, States
<1>5. Innermost = top
  BY <1>3, <1>4, InnermostIsTop
<1>6. Continue(pos, toks, tokens[top].parent, count)
  <2>1. top # 0 /\ ~ (toknext < 1)
    BY <1>1, <1>3
  <2> HIDE DEF s, top
  <2>2. QED BY <2>1, <1>2, <1>3, <1>5 DEF CloseBracket
<1>7. tokens' = toks /\ toksuper' = tokens[top].parent /\ pass' = pass
  BY <1>6 DEF Continue
<1>8. /\ t \in TokenSet /\ t.end = pos + 1 /\ t.type = tokens[top].type
      /\ t.parent = tokens[top].parent
  <2>1. tokens[top] \in TokenSet
    BY <1>1, <1>3, ElementOfSeq
  <2>2. QED BY <2>1, <1>1, TokenEnds, pos + 1 \in Nat
<1>9. /\ Len(toks) = Len(tokens)
      /\ \A j \in 1..Len(tokens) : toks[j] = IF j = top THEN t ELSE tokens[j]
  <2>1. toks = [tokens EXCEPT ![top] = t]
    OBVIOUS
  <2> HIDE DEF t, toks, top
  <2>2. QED BY <2>1, <1>1, <1>3, <1>8, ExceptSeq
<1> HIDE DEF t, toks
<1>10. ~ IsOpen(toks[top])
  <2>1. toks[top] = t
    BY <1>1, <1>3, <1>9
  <2>2. QED BY <2>1, <1>1, <1>8 DEF IsOpen
<1>11. \A i \in 1..Len(tokens) : /\ toks[i].type = tokens[i].type
                                 /\ toks[i].parent = tokens[i].parent
                                 /\ i # top => toks[i].end = tokens[i].end
  BY <1>8, <1>9
<1>12. Nested(toks, SubSeq(s.stack, 1, Len(s.stack) - 1), o2)
  BY <1>1, <1>3, <1>4, <1>9, <1>10, <1>11, ClosingNests
<1>13. /\ r[pos + 1].stack = SubSeq(s.stack, 1, Len(s.stack) - 1)
       /\ r[pos + 1].mode = IF d = 1 THEN "end" ELSE "after"
  BY <1>2, <1>4 DEF Closed
<1>14. Superior(toks, tokens[top].parent, r[pos + 1].mode, o2[Len(o2)])
  <2>1. CASE d = 1
    BY <2>1, <1>13 DEF Superior
  <2>2. CASE d # 1
    <3>1. d - 1 \in 1..(d - 1) /\ d - 1 \in Nat
      <4>1. \A e \in Nat : e \in 1..e /\ e # 1 => e - 1 \in 1..(e - 1) /\ e - 1 \in Nat
        OBVIOUS
      <4>2. QED BY <4>1, <2>2, <1>3
    <3>2. Len(o2) = d - 1 /\ o2[d - 1] = o[d - 1]
      <4>1. /\ 1 \in Int /\ d - 1 \in Int
            /\ \A i \in 1..(d - 1) : o[i] \in Nat
        BY <1>3, <1>4, ElementOfSeq
      <4>2. /\ Len(o2) = IF 1 <= d - 1 THEN (d - 1) - 1 + 1 ELSE 0
            /\ \A j \in 1..(d - 1) - 1 + 1 : o2[j] = o[1 + j - 1]
        BY <4>1, SubSeqProperties
      <4>3. QED BY <4>1, <4>2, <3>1
    <3>3. Under(tokens, tokens[top].parent, o[d - 1])
      BY <2>2, <1>3, <1>4 DEF Nested
    <3>4. Under(toks, tokens[top].parent, o[d - 1])
      BY <3>3, <1>9, <1>11 DEF Under
    <3>5. QED BY <3>2, <3>4, <2>2, <1>13 DEF Superior
  <2>3. QED BY <2>1, <2>2
<1> HIDE DEF s, o2, top
<1>15. Stacked(tokens', toksuper', r[pos + 1], o2)
  BY <1>7, <1>12, <1>13, <1>14 DEF Stacked
<1>16. QED BY <1>7, <1>15 DEF o2

\* A string is a key of the object on top, or a value there.
LEMMA StringStacks ==
  ASSUME ParserOK, PassInv, pass = "fill", NEW r, RunAt(r), NEW o,
         Stacked(tokens, toksuper, r[pos], o), StringStarts, NextPos(pos) <= Len(js)
  PROVE  /\ pass' = "fill"
         /\ Stacked(tokens', toksuper', r[NextPos(pos)], o)
<1> DEFINE s == r[pos]
           t == r[NextPos(pos)]
           end == Next1(pos + 1, {Mark})
           tok == Token("string", pos + 1, end, toksuper)
           n == Len(tokens)
           top == o[Len(o)]
<1>1. /\ Parsing /\ ~ AtEnd /\ pos \in Nat /\ pos < Len(js) /\ Len(js) \in Nat
      /\ toknext \in Nat /\ toksuper \in 0..toknext /\ toknext = n /\ n \in Nat
      /\ pos + 1 \in 0..Len(js)
  BY InLoop DEF StringStarts, toknext
<1>2. At = Mark
  BY DEF Mark, StringStarts
<1>3. /\ \/ WantsKey(s) /\ t = To(s, "colon")
         \/ WantsValue(s) /\ t = To(s, "after")
      /\ s \in States
  BY <1>1, <1>2, TurnRuns, WhatIsRead
<1>4. end \in (pos + 1)..Len(js) /\ end # Len(js)
  <2>1. end \in (pos + 1)..Len(js)
    BY <1>1, Next1Finds
  <2>2. NextPos(pos) = end + 1
    BY <1>2, CharKinds DEF NextPos, At
  <2> HIDE DEF end
  <2>3. QED BY <2>1, <2>2, <1>1
<1>5. Element("string", pos + 1, end, end)
  BY <1>4 DEF Mark, StringStarts
<1> HIDE DEF end
<1>6. HasToken
  <2>1. Starts(pos)
    BY <1>2, CharKinds DEF Starts, At
  <2>2. QED BY <1>1, <2>1, RoomForEach
<1>7. /\ tokens' = WithToken(tok) /\ toksuper' = toksuper /\ pass' = pass
  BY <1>5, <1>6 DEF Element, Continue
<1>8. /\ tok \in TokenSet /\ tok.type = "string" /\ ~ IsOpen(tok)
      /\ tok.parent = toksuper /\ tok.size = 0
  <2>1. pos + 1 \in Nat /\ end \in Nat /\ toksuper \in Nat
    BY <1>1, <1>4
  <2>2. QED BY <2>1 DEF TokenSet, Token, IsOpen
<1> HIDE DEF tok
<1>9. /\ Extends(WithToken(tok), tokens) /\ WithToken(tok)[n + 1] = tok
      /\ Len(WithToken(tok)) = n + 1
  BY <1>8, TokenAdded
<1>10. /\ top \in 1..n /\ Under(tokens, toksuper, top)
       /\ \A j \in 1..Len(o) : o[j] <= toksuper
  <2>1. s.mode \notin {"start", "end", "key", "str"}
    BY <1>3 DEF WantsKey, WantsValue
  <2>2. QED BY <2>1, <1>1, <1>3, OnTop
<1>11. Nested(WithToken(tok), s.stack, o)
  <2>1. Nested(tokens, s.stack, o)
    BY DEF Stacked
  <2>2. QED BY <2>1, <1>1, <1>8, <1>9, <1>10, ElementNests
<1>12. t.stack = s.stack
  BY <1>3 DEF To
<1>13. Superior(WithToken(tok), toksuper, t.mode, top)
  <2>1. CASE WantsKey(s) /\ t = To(s, "colon")
    <3>1. toksuper = top
      BY <2>1 DEF Stacked, Superior, WantsKey
    <3>2. LastIsKey(WithToken(tok), top)
      BY <3>1, <1>1, <1>8, <1>9, <1>10 DEF LastIsKey
    <3>3. t.mode = "colon"
      BY <2>1 DEF To
    <3> HIDE DEF s, t, top
    <3>4. QED BY <3>1, <3>2, <3>3 DEF Superior
  <2>2. CASE WantsValue(s) /\ t = To(s, "after")
    <3>1. Under(WithToken(tok), toksuper, top)
      BY <1>1, <1>9, <1>10 DEF Under, Extends
    <3>2. t.mode = "after"
      BY <2>2 DEF To
    <3> HIDE DEF s, t, top
    <3>3. QED BY <3>1, <3>2 DEF Superior
  <2>3. QED BY <1>3, <2>1, <2>2
<1>14. Stacked(tokens', toksuper', t, o)
  <2> HIDE DEF s, t
  <2>1. QED BY <1>7, <1>11, <1>12, <1>13 DEF Stacked
<1>15. QED BY <1>7, <1>14

\* A primitive is a value, never a key.
LEMMA PrimitiveStacks ==
  ASSUME ParserOK, PassInv, pass = "fill", NEW r, RunAt(r), NEW o,
         Stacked(tokens, toksuper, r[pos], o), Primitive, NextPos(pos) < Len(js)
  PROVE  /\ pass' = "fill"
         /\ Stacked(tokens', toksuper', r[NextPos(pos)], o)
<1> DEFINE s == r[pos]
           t == r[NextPos(pos)]
           end == Next1(pos, Ends)
           tok == Token("primitive", pos, end, toksuper)
           n == Len(tokens)
           top == o[Len(o)]
           asKey == /\ pass = "fill" /\ toksuper # 0
                    /\ \/ tokens[toksuper].type = "object"
                       \/ /\ tokens[toksuper].type = "string"
                          /\ tokens[toksuper].size # 0
<1>1. /\ Parsing /\ ~ AtEnd /\ pos \in Nat /\ pos < Len(js) /\ Len(js) \in Nat
      /\ toknext \in Nat /\ toksuper \in 0..toknext /\ toknext = n /\ n \in Nat
      /\ pos \in 0..Len(js)
  BY InLoop DEF Primitive, toknext
<1>2. At \notin Opening \cup Passed \cup {Mark}
  BY DEF Mark, Primitive, Passed
<1>3. At \in Start /\ WantsValue(s) /\ t = To(s, "prim") /\ s \in States
  <2>1. NextPos(pos) \in Nat
    BY <1>1, NextPosGrows, pos \in 0..(Len(js) - 1)
  <2>2. NextPos(pos) <= Len(js)
    BY <2>1, <1>1
  <2>3. QED BY <1>1, <1>2, <2>2, TurnRuns, WhatIsRead
<1>4. end \in pos..Len(js) /\ end # Len(js)
  <2>1. end \in pos..Len(js)
    BY <1>1, Next1Finds
  <2>2. NextPos(pos) = end
    BY <1>2 DEF NextPos, At, Ends
  <2> HIDE DEF end
  <2>3. QED BY <2>1, <2>2, <1>1
<1>5. /\ top \in 1..n /\ Under(tokens, toksuper, top)
      /\ \A j \in 1..Len(o) : o[j] <= toksuper
      /\ tokens[top].type = Topmost(s)
  <2>1. s.mode \notin {"start", "end", "key", "str"}
    BY <1>3 DEF WantsValue
  <2>2. QED BY <2>1, <1>1, <1>3, OnTop
<1>6. ~ asKey
  <2>1. CASE s.mode = "value"
    <3>1. toksuper = n /\ tokens[n].type = "string" /\ tokens[n].size = 0
      BY <2>1 DEF Stacked, Superior, LastIsKey
    <3>2. QED BY <3>1
  <2>2. CASE s.mode \in {"first", "next"} /\ Topmost(s) = "array"
    <3>1. toksuper = top
      BY <2>2 DEF Stacked, Superior
    <3>2. QED BY <3>1, <2>2, <1>5
  <2>3. QED BY <1>3, <2>1, <2>2 DEF WantsValue
<1>7. Element("primitive", pos, end, end - 1)
  <2> HIDE DEF s, t
  <2>1. QED BY <1>3, <1>4, <1>6 DEF Primitive, Ends
<1> HIDE DEF end
<1>8. HasToken
  <2>1. Starts(pos)
    BY <1>2 DEF Starts, At
  <2>2. QED BY <1>1, <2>1, RoomForEach
<1>9. /\ tokens' = WithToken(tok) /\ toksuper' = toksuper /\ pass' = pass
  BY <1>7, <1>8 DEF Element, Continue
<1>10. /\ tok \in TokenSet /\ ~ IsOpen(tok) /\ tok.parent = toksuper
  <2>1. pos \in Nat /\ end \in Nat /\ toksuper \in Nat
    BY <1>1, <1>4
  <2>2. QED BY <2>1 DEF TokenSet, Token, IsOpen
<1> HIDE DEF tok
<1>11. /\ Extends(WithToken(tok), tokens) /\ WithToken(tok)[n + 1] = tok
       /\ Len(WithToken(tok)) = n + 1
  BY <1>10, TokenAdded
<1>12. Nested(WithToken(tok), s.stack, o)
  <2>1. Nested(tokens, s.stack, o)
    BY DEF Stacked
  <2>2. QED BY <2>1, <1>1, <1>10, <1>11, <1>5, ElementNests
<1>13. t.stack = s.stack /\ t.mode = "prim"
  BY <1>3 DEF To
<1>14. Under(WithToken(tok), toksuper, top)
  BY <1>1, <1>5, <1>11 DEF Under, Extends
<1>15. Stacked(tokens', toksuper', t, o)
  <2> HIDE DEF s, t
  <2>1. QED BY <1>9, <1>12, <1>13, <1>14 DEF Stacked, Superior
<1>16. QED BY <1>9, <1>15

\* Colons, commas and blanks leave the tokens alone.  After a comma the
\* superior token is the one on top again.
LEMMA SeparatorStacks ==
  ASSUME ParserOK, pass = "fill", NEW r, RunAt(r), NEW o,
         Stacked(tokens, toksuper, r[pos], o), Colon \/ Comma \/ SkipBlank
  PROVE  /\ pass' = "fill"
         /\ Stacked(tokens', toksuper', r[pos + 1], o)
<1> DEFINE s == r[pos]
           t == r[pos + 1]
           top == o[Len(o)]
<1>1. /\ pos < Len(js) /\ toknext = Len(tokens)
      /\ tokens' = tokens /\ pass' = pass
  BY InLoop DEF Colon, Comma, SkipBlank, Continue, toknext
<1>2. s \in States /\ Nested(tokens, s.stack, o) /\ Superior(tokens, toksuper, s.mode, top)
  BY <1>1, WhatIsRead DEF Stacked
<1>3. ASSUME Colon PROVE Stacked(tokens', toksuper', t, o)
  <2>1. s.mode = "colon" /\ t.stack = s.stack /\ t.mode = "value"
    <3>1. At = ":"
      BY <1>3 DEF Colon
    <3>2. s.mode = "colon" /\ t = To(s, "value")
      BY <3>1, <1>1, WhatIsRead
    <3>3. QED BY <3>2 DEF To
  <2>2. toksuper' = Len(tokens)
    BY <1>1, <1>3 DEF Colon, Continue
  <2> HIDE DEF s, t, top
  <2>3. QED BY <2>1, <2>2, <1>1, <1>2 DEF Stacked, Superior, top
<1>4. ASSUME Comma PROVE Stacked(tokens', toksuper', t, o)
  <2>1. s.mode \in {"after", "prim"} /\ t.stack = s.stack /\ t.mode = "next"
    <3>1. At = ","
      BY <1>4 DEF Comma
    <3>2. s.mode \in {"after", "prim"} /\ t = To(s, "next")
      BY <3>1, <1>1, WhatIsRead
    <3>3. QED BY <3>2 DEF To
  <2>2. /\ tokens[top].type \in {"object", "array"}
        /\ Under(tokens, toksuper, top) /\ toksuper \in 1..toknext
        /\ top \in 1..toknext
    <3>1. s.mode \notin {"start", "end", "key", "str"}
      BY <2>1
    <3>2. QED BY <3>1, <1>2, OnTop
  <2>3. toksuper' = IF tokens[toksuper].type \notin {"array", "object"}
                    THEN tokens[toksuper].parent ELSE toksuper
    <3>1. toksuper # 0
      BY <2>2
    <3>2. QED BY <3>1, <1>4 DEF Comma, Continue
  <2>4. toksuper' = top
    BY <2>2, <2>3 DEF Under
  <2> HIDE DEF s, t, top
  <2>5. QED BY <2>1, <2>4, <1>1, <1>2 DEF Stacked, Superior, top
<1>5. ASSUME SkipBlank PROVE Stacked(tokens', toksuper', t, o)
  <2>1. t = s /\ toksuper' = toksuper
    BY <1>1, <1>5, WhatIsRead DEF SkipBlank, Continue
  <2> HIDE DEF s, t
  <2>2. QED BY <2>1, <1>1, <1>2 DEF Stacked
<1>6. QED BY <1>1, <1>3, <1>4, <1>5

----------------------------------------------------------------------------
(* The tokens as a tree, for every text: the superior token is the parent. *)

Kids(toks, p) == {k \in 1..Len(toks) : toks[k].parent = p}

\* The size of a token is the number of its children.
Sized(toks) == \A i \in 1..Len(toks) : toks[i].size = Cardinality(Kids(toks, i))

\* Once a token has come that lies outside of i, no later one may lie in i:
\* x is none of the tokens from i on that came before.
OnPath(toks, x) ==
    \A i, j \in 1..Len(toks) : i < j /\ toks[j].parent < i => x < i \/ j <= x

\* The tokens come in the order of a walk over the tree, parents first.
Preorder(toks) ==
    \A i, j, k \in 1..Len(toks) :
        i < j /\ j <= k /\ toks[j].parent < i
            => toks[k].parent < i \/ j <= toks[k].parent

TreeOK == Sized(tokens) /\ Preorder(tokens) /\ OnPath(tokens, toksuper)

\* What the size of a token becomes when another is added.
LEMMA WithTokenSizes ==
  ASSUME ParserOK, NEW tok \in TokenSet, NEW i \in 1..toknext
  PROVE  WithToken(tok)[i].size
           = IF i = toksuper THEN tokens[i].size + 1 ELSE tokens[i].size
<1> DEFINE old == IF toksuper = 0 THEN tokens
                                  ELSE [tokens EXCEPT ![toksuper].size = @ + 1]
<1>1. tokens \in Seq(TokenSet) /\ toknext \in Nat /\ toksuper \in 0..toknext
  BY DEF ParserOK
<1>2. /\ old \in Seq(TokenSet) /\ Len(old) = toknext
      /\ old[i].size = IF i = toksuper THEN tokens[i].size + 1 ELSE tokens[i].size
  <2>1. CASE toksuper = 0
    BY <1>1, <2>1 DEF toknext
  <2>2. CASE toksuper # 0
    <3> DEFINE t == [tokens[toksuper] EXCEPT !.size = @ + 1]
    <3>1. toksuper \in 1..toknext
      BY <1>1, <2>2
    <3>2. tokens[toksuper] \in TokenSet
      BY <1>1, <3>1, ElementOfSeq DEF toknext
    <3>3. t \in TokenSet /\ t.size = tokens[toksuper].size + 1
      BY <3>2 DEF TokenSet
    <3>4. old = [tokens EXCEPT ![toksuper] = t]
      BY <2>2
    <3>5. /\ [tokens EXCEPT ![toksuper] = t] \in Seq(TokenSet)
          /\ Len([tokens EXCEPT ![toksuper] = t]) = Len(tokens)
          /\ \A j \in 1..Len(tokens) : [tokens EXCEPT ![toksuper] = t][j] =
                                         IF j = toksuper THEN t ELSE tokens[j]
      <4> HIDE DEF t
      <4>1. QED BY <1>1, <3>1, <3>3, ExceptSeq DEF toknext
    <3> HIDE DEF t, old
    <3>6. QED BY <3>3, <3>4, <3>5 DEF toknext
  <2>3. QED BY <2>1, <2>2
<1>3. WithToken(tok) = Append(old, tok)
  BY DEF WithToken
<1> HIDE DEF old
<1>4. \A j \in 1..Len(old) : Append(old, tok)[j] = old[j]
  BY <1>2, AppendProperties
<1>5. QED BY <1>2, <1>3, <1>4

LEMMA KidsFinite ==
  ASSUME NEW toks, Len(toks) \in Nat, NEW p
  PROVE  IsFiniteSet(Kids(toks, p)) /\ Cardinality(Kids(toks, p)) \in Nat
<1>1. IsFiniteSet(1..Len(toks)) /\ Kids(toks, p) \in SUBSET (1..Len(toks))
  BY FS_Interval DEF Kids
<1>2. QED BY <1>1, FS_Subset, FS_CardinalityType

\* A new token is a child of the superior token.
LEMMA TreeGrows ==
  ASSUME ParserOK, TreeOK, NEW tok \in TokenSet, tok.parent = toksuper, tok.size = 0
  PROVE  /\ Sized(WithToken(tok)) /\ Preorder(WithToken(tok))
         /\ OnPath(WithToken(tok), toksuper) /\ OnPath(WithToken(tok), toknext + 1)
<1> DEFINE W == WithToken(tok)
           n == Len(tokens)
<1>1. /\ Len(W) = n + 1 /\ n \in Nat /\ W[n + 1] = tok
      /\ toksuper \in 0..n /\ toknext = n
      /\ \A i \in 1..n : W[i].parent = tokens[i].parent
  BY WithTokenAdds DEF toknext, ParserOK
<1>2. \A i \in 1..n : W[i].size = IF i = toksuper THEN tokens[i].size + 1
                                                  ELSE tokens[i].size
  BY <1>1, WithTokenSizes
<1>3. \A i \in 1..n : tokens[i].parent \in Nat /\ tokens[i].parent < i
  BY <1>1, ParentsBefore
<1> HIDE DEF W
<1>4. \A i \in 1..(n + 1) : i \in 1..n \/ i = n + 1
  BY <1>1
<1>5. Sized(W)
  <2>1. ASSUME NEW i \in 1..n
        PROVE  W[i].size = Cardinality(Kids(W, i))
    <3>1. CASE i = toksuper
      <4>1. Kids(W, i) = Kids(tokens, i) \cup {n + 1}
        BY <1>1, <1>4, <3>1 DEF Kids
      <4>2. n + 1 \notin Kids(tokens, i)
        BY <1>1 DEF Kids
      <4>3. IsFiniteSet(Kids(tokens, i))
        BY <1>1, KidsFinite
      <4>4. Cardinality(Kids(tokens, i) \cup {n + 1}) = Cardinality(Kids(tokens, i)) + 1
        BY <4>2, <4>3, FS_AddElement
      <4>5. tokens[i].size = Cardinality(Kids(tokens, i))
        BY <1>1 DEF TreeOK, Sized
      <4>6. QED BY <4>1, <4>4, <4>5, <1>2, <3>1
    <3>2. CASE i # toksuper
      <4>1. Kids(W, i) = Kids(tokens, i)
        BY <1>1, <1>4, <3>2 DEF Kids
      <4>2. QED BY <4>1, <1>2, <3>2 DEF TreeOK, Sized
    <3>3. QED BY <3>1, <3>2
  <2>2. Kids(W, n + 1) = {}
    BY <1>1, <1>3, <1>4 DEF Kids
  <2>3. W[n + 1].size = Cardinality(Kids(W, n + 1))
    BY <2>2, <1>1, FS_EmptySet
  <2>4. QED BY <2>1, <2>3, <1>1, <1>4 DEF Sized
<1>6. OnPath(W, toksuper)
  <2>1. ASSUME NEW i \in 1..(n + 1), NEW j \in 1..(n + 1), i < j, W[j].parent < i
        PROVE  toksuper < i \/ j <= toksuper
    <3>1. CASE j = n + 1
      BY <3>1, <2>1, <1>1
    <3>2. CASE j \in 1..n
      <4>1. i \in 1..n
        BY <3>2, <2>1, <1>1
      <4>2. QED BY <4>1, <3>2, <2>1, <1>1 DEF TreeOK, OnPath
    <3>3. QED BY <3>1, <3>2, <1>4
  <2>2. QED BY <2>1, <1>1 DEF OnPath
<1>7. OnPath(W, n + 1)
  BY <1>1 DEF OnPath
<1>8. Preorder(W)
  <2>1. ASSUME NEW i \in 1..(n + 1), NEW j \in 1..(n + 1), NEW k \in 1..(n + 1),
               i < j, j <= k, W[j].parent < i
        PROVE  W[k].parent < i \/ j <= W[k].parent
    <3>1. CASE k = n + 1
      BY <3>1, <2>1, <1>1, <1>6 DEF OnPath
    <3>2. CASE k \in 1..n
      <4>1. i \in 1..n /\ j \in 1..n
        BY <3>2, <2>1, <1>1
      <4>2. QED BY <4>1, <3>2, <2>1, <1>1 DEF TreeOK, Preorder
    <3>3. QED BY <3>1, <3>2, <1>4
  <2>2. QED BY <2>1, <1>1 DEF Preorder
<1>9. QED BY <1>1, <1>5, <1>6, <1>7, <1>8 DEF W

\* With the parents and the sizes the tree stays.
LEMMA TreeStays ==
  ASSUME NEW toks, NEW toks2, Len(toks2) = Len(toks),
         \A i \in 1..Len(toks) : /\ toks2[i].parent = toks[i].parent
                                 /\ toks2[i].size = toks[i].size
  PROVE  /\ Sized(toks) => Sized(toks2)
         /\ Preorder(toks) => Preorder(toks2)
         /\ \A x : OnPath(toks, x) => OnPath(toks2, x)
<1>1. \A i : Kids(toks2, i) = Kids(toks, i)
  BY DEF Kids
<1>2. QED BY <1>1 DEF Sized, Preorder, OnPath

LEMMA PathUp ==
  ASSUME ParserOK, Preorder(tokens), NEW x \in 1..toknext, OnPath(tokens, x)
  PROVE  OnPath(tokens, tokens[x].parent)
<1>1. tokens[x].parent \in Nat /\ tokens[x].parent < x /\ toknext = Len(tokens)
  BY ParentsBefore DEF toknext
<1>2. ASSUME NEW i \in 1..toknext, NEW j \in 1..toknext, i < j, tokens[j].parent < i
      PROVE  tokens[x].parent < i \/ j <= tokens[x].parent
  <2>1. CASE x < i
    BY <2>1, <1>1
  <2>2. CASE j <= x
    BY <2>2, <1>1, <1>2 DEF Preorder
  <2>3. QED BY <2>1, <2>2, <1>1, <1>2 DEF OnPath
<1>3. QED BY <1>1, <1>2 DEF OnPath

\* The walk of a closing bracket goes along the parents.
LEMMA InnermostOnPath ==
  ASSUME ParserOK, TreeOK
  PROVE  OnPath(tokens, Innermost)
<1>1. PICK f : /\ \A i \in 0..toknext : f[i] = IF i = 0 \/ IsOpen(tokens[i])
                                               THEN i ELSE f[tokens[i].parent]
               /\ Innermost = f[toknext]
  BY Walks
<1>2. toknext \in Nat /\ toknext = Len(tokens)
  BY DEF ParserOK, toknext
<1> DEFINE Q == {n \in Nat : \A i \in 0..n : i <= toknext /\ OnPath(tokens, i)
                                               => OnPath(tokens, f[i])}
<1>3. 0 \in Q
  BY <1>1, <1>2
<1>4. ASSUME NEW n \in Nat, n \in Q
      PROVE  n + 1 \in Q
  <2>1. ASSUME n + 1 <= toknext, OnPath(tokens, n + 1)
        PROVE  OnPath(tokens, f[n + 1])
    <3>1. n + 1 \in 0..toknext /\ n + 1 \in 1..toknext
      BY <2>1, <1>2
    <3>2. tokens[n + 1].parent \in 0..n /\ tokens[n + 1].parent <= toknext
      BY <3>1, <1>2, ParentsBefore
    <3>3. OnPath(tokens, tokens[n + 1].parent)
      BY <2>1, <3>1, PathUp DEF TreeOK
    <3>4. OnPath(tokens, f[tokens[n + 1].parent])
      BY <3>2, <3>3, <1>4
    <3>5. QED BY <3>1, <3>4, <1>1, <2>1
  <2>2. QED BY <2>1, <1>4
<1>5. toknext \in Q
  <2> HIDE DEF Q
  <2>1. QED BY <1>2, <1>3, <1>4, SetInduction
<1>6. OnPath(tokens, toknext)
  BY <1>2 DEF OnPath
<1>7. QED BY <1>1, <1>2, <1>5, <1>6

\* The tree without its tokens, and with the superior token at the root.
LEMMA TreeEmpty == Sized(<<>>) /\ Preorder(<<>>) /\ OnPath(<<>>, 0)
<1>1. Len(<<>>) = 0
  BY EmptySeq
<1>2. QED BY <1>1 DEF Sized, Preorder, OnPath

\* Every turn of either pass keeps the tree.
LEMMA NewTokenTree ==
  ASSUME ParserOK, TreeOK, NEW tok \in TokenSet, tok.parent = toksuper, tok.size = 0,
         NEW p, NEW super \in {toksuper, toknext + 1}, NEW n,
         Continue(p, WithToken(tok), super, n)
  PROVE  TreeOK'
BY TreeGrows DEF TreeOK, Continue

LEMMA SameTokensTree ==
  ASSUME TreeOK, NEW p, NEW super, OnPath(tokens, super), NEW n,
         Continue(p, tokens, super, n)
  PROVE  TreeOK'
BY DEF TreeOK, Continue

LEMMA RefuseTree ==
  ASSUME Refuse
  PROVE  TreeOK'
BY TreeEmpty DEF TreeOK, Refuse

LEMMA CloseBracketTree ==
  ASSUME ParserOK, TreeOK, CloseBracket
  PROVE  TreeOK'
<1> DEFINE i == Innermost
           t == [tokens[i] EXCEPT !.end = pos + 1]
           toks == [tokens EXCEPT ![i].end = pos + 1]
<1>1. /\ pos \in Nat /\ toknext \in Nat /\ toknext = Len(tokens)
      /\ tokens \in Seq(TokenSet) /\ Innermost \in 0..toknext
  BY InnermostIsOpen DEF ParserOK, toknext
<1>2. \/ Refuse
      \/ Continue(pos, tokens, toksuper, count)
      \/ i # 0 /\ Continue(pos, toks, tokens[i].parent, count)
  BY DEF CloseBracket
<1>3. CASE Refuse
  BY <1>3, RefuseTree
<1>4. CASE Continue(pos, tokens, toksuper, count)
  <2>1. OnPath(tokens, toksuper)
    BY DEF TreeOK
  <2>2. QED BY <2>1, <1>4, SameTokensTree
<1>5. CASE i # 0 /\ Continue(pos, toks, tokens[i].parent, count)
  <2>1. i \in 1..toknext
    BY <1>1, <1>5
  <2>2. OnPath(tokens, tokens[i].parent)
    BY <2>1, InnermostOnPath, PathUp DEF TreeOK
  <2> HIDE DEF i
  <2>3. tokens[i] \in TokenSet
    BY <1>1, <2>1, ElementOfSeq
  <2>4. t \in TokenSet /\ t.parent = tokens[i].parent /\ t.size = tokens[i].size
    <3>1. pos + 1 \in Nat
      BY <1>1
    <3>2. QED BY <2>3, <3>1 DEF TokenSet
  <2>5. toks = [tokens EXCEPT ![i] = t]
    OBVIOUS
  <2>6. /\ Len([tokens EXCEPT ![i] = t]) = Len(tokens)
        /\ \A j \in 1..Len(tokens) :
             [tokens EXCEPT ![i] = t][j] = IF j = i THEN t ELSE tokens[j]
    <3> HIDE DEF t
    <3>1. QED BY <1>1, <2>1, <2>4, ExceptSeq
  <2> HIDE DEF t, toks
  <2>7. /\ Len(toks) = Len(tokens)
        /\ \A j \in 1..Len(tokens) : /\ toks[j].parent = tokens[j].parent
                                     /\ toks[j].size = tokens[j].size
    BY <2>4, <2>5, <2>6
  <2>8. Sized(toks) /\ Preorder(toks) /\ OnPath(toks, tokens[i].parent)
    BY <2>2, <2>7, TreeStays DEF TreeOK
  <2>9. tokens' = toks /\ toksuper' = tokens[i].parent
    BY <1>5 DEF Continue
  <2>10. QED BY <2>8, <2>9 DEF TreeOK
<1>6. QED BY <1>2, <1>3, <1>4, <1>5

LEMMA ElementTree ==
  ASSUME ParserOK, TreeOK, NEW type \in {"string", "primitive"},
         NEW start \in Nat, NEW end \in Nat, NEW p, Element(type, start, end, p)
  PROVE  TreeOK'
<1> DEFINE tok == Token(type, start, end, toksuper)
<1>1. toksuper \in Nat /\ OnPath(tokens, toksuper)
  BY DEF ParserOK, TreeOK
<1>2. tok \in TokenSet /\ tok.parent = toksuper /\ tok.size = 0
  BY <1>1 DEF TokenSet, Token
<1>3. \/ Refuse
      \/ Continue(p, tokens, toksuper, count + 1)
      \/ Continue(p, WithToken(tok), toksuper, count + 1)
  BY DEF Element
<1> HIDE DEF tok
<1>4. QED BY <1>1, <1>2, <1>3, RefuseTree, SameTokensTree, NewTokenTree

LEMMA ParseStepTree ==
  ASSUME ParserOK, TreeOK, ParseStep
  PROVE  TreeOK'
<1>1. /\ toksuper \in 0..toknext /\ toknext \in Nat /\ Len(js) \in Nat /\ pos \in Nat
      /\ toknext = Len(tokens) /\ OnPath(tokens, toksuper)
  BY DEF ParserOK, TreeOK, toknext
<1>2. CASE OpenBracket
  <2> DEFINE tok == Token(TypeOf(At), pos, -1, toksuper)
  <2>1. \/ Refuse
        \/ Continue(pos, tokens, toksuper, count + 1)
        \/ Continue(pos, WithToken(tok), toknext + 1, count + 1)
    BY <1>2 DEF OpenBracket
  <2>2. tok \in TokenSet /\ tok.parent = toksuper /\ tok.size = 0
    BY <1>1 DEF TokenSet, Token, TypeOf
  <2> HIDE DEF tok
  <2>3. QED BY <1>1, <2>1, <2>2, RefuseTree, SameTokensTree, NewTokenTree
<1>3. CASE CloseBracket
  BY <1>3, CloseBracketTree
<1>4. CASE StringStarts
  <2> DEFINE end == Next1(pos + 1, {Mark})
  <2>1. /\ pos < Len(js) /\ pos + 1 \in 0..Len(js) /\ pos + 1 \in Nat
    <3>1. Parsing /\ ~ AtEnd
      BY <1>4 DEF StringStarts
    <3>2. QED BY <3>1, <1>1, InLoop
  <2>2. end \in (pos + 1)..Len(js)
    BY <1>1, <2>1, Next1Finds
  <2>3. Refuse \/ Element("string", pos + 1, end, end)
    BY <1>4 DEF StringStarts, Mark
  <2> HIDE DEF end
  <2>4. end \in Nat
    BY <2>1, <2>2
  <2>5. QED BY <2>1, <2>3, <2>4, RefuseTree, ElementTree
<1>5. CASE Primitive
  <2> DEFINE end == Next1(pos, Closing \cup Blank \cup {","})
  <2>1. pos < Len(js) /\ pos \in 0..Len(js)
    BY <1>5, InLoop DEF Primitive
  <2>2. end \in pos..Len(js)
    BY <1>1, <2>1, Next1Finds
  <2>3. Refuse \/ Element("primitive", pos, end, end - 1)
    BY <1>5 DEF Primitive
  <2> HIDE DEF end
  <2>4. end \in Nat
    BY <1>1, <2>1, <2>2
  <2>5. QED BY <1>1, <2>3, <2>4, RefuseTree, ElementTree
<1>6. CASE Colon
  <2>1. OnPath(tokens, toknext)
    BY <1>1 DEF OnPath
  <2>2. QED BY <1>6, <2>1, SameTokensTree DEF Colon
<1>7. CASE Comma
  <2>1. toksuper # 0 => OnPath(tokens, tokens[toksuper].parent)
    BY <1>1, PathUp DEF TreeOK
  <2>2. \E super : OnPath(tokens, super) /\ Continue(pos, tokens, super, count)
    BY <1>1, <1>7, <2>1 DEF Comma
  <2>3. QED BY <2>2, SameTokensTree
<1>8. CASE SkipBlank
  BY <1>1, <1>8, SameTokensTree DEF SkipBlank
<1>9. CASE Counted
  <2>1. \/ Refuse
        \/ tokens' = tokens /\ toksuper' = 0
    BY <1>9 DEF Counted
  <2>2. tokens = <<>>
    BY <1>9 DEF Counted, ParserOK
  <2>3. QED BY <2>1, <2>2, RefuseTree, TreeEmpty DEF TreeOK
<1>10. CASE NoTokens
  BY <1>10, RefuseTree DEF NoTokens
<1>11. CASE Tokenized
  <2>1. \/ Refuse
        \/ tokens' = tokens /\ toksuper' = toksuper
    BY <1>11 DEF Tokenized
  <2>2. QED BY <2>1, RefuseTree DEF TreeOK
<1>12. QED BY <1>2, <1>3, <1>4, <1>5, <1>6, <1>7, <1>8, <1>9, <1>10, <1>11 DEF ParseStep

\* A document is more than nothing, and begins with a bracket.
LEMMA RunLeavesStart ==
  ASSUME NEW text, Len(text) \in Nat, NEW r, IsRun(r, text),
         NEW k \in 1..Len(text)
  PROVE  r[k].mode # "start" /\ text[1] \in Opening
<1>1. ASSUME NEW s, NEW c, NEW t, Reads(s, c, t)
      PROVE  t.mode # "start"
  <2>1. \/ t = Opened(s, c) \/ t = Closed(s)
        \/ \E m \in {"key", "colon", "str", "after", "value", "next", "prim"} : t = To(s, m)
        \/ s.mode \in {"key", "str", "next", "value", "prim"} /\ t = s
    BY <1>1 DEF Reads
  <2>2. QED BY <2>1 DEF Opened, Closed, To
<1>2. Reads(r[k - 1], text[k], r[k])
  BY DEF IsRun, Path
<1>3. Reads(r[0], text[1], r[1]) /\ r[0].mode = "start"
  <2>1. 1 \in 1..Len(text) /\ 1 - 1 = 0
    OBVIOUS
  <2>2. QED BY <2>1 DEF IsRun, Path
<1>4. text[1] \in Opening
  BY <1>3 DEF Reads, WantsKey, WantsValue
<1>5. QED BY <1>1, <1>2, <1>4

----------------------------------------------------------------------------
(* The keys.                                                               *)

\* The children of an object are its keys: strings, and each has a value,
\* but for the last one before its value has come.
Keyed(toks, mode) ==
    \A k \in 1..Len(toks) :
        toks[k].parent # 0 /\ toks[toks[k].parent].type = "object"
            => /\ toks[k].type = "string"
               /\ toks[k].size = 0 => k = Len(toks) /\ mode \in {"colon", "value"}

LEMMA TokenKeyed ==
  ASSUME ParserOK, NEW m, Keyed(tokens, m), NEW tok \in TokenSet, tok.parent = toksuper,
         NEW m2,
         \/ tok.type = "string" /\ m2 = "colon" /\ m \notin {"colon", "value"}
         \/ /\ toksuper = 0 \/ tokens[toksuper].type # "object"
            /\ m \in {"colon", "value"} => toksuper = toknext
  PROVE  Keyed(WithToken(tok), m2)
<1> DEFINE W == WithToken(tok)
           n == Len(tokens)
<1>1. /\ Len(W) = n + 1 /\ n \in Nat /\ W[n + 1] = tok
      /\ toksuper \in 0..n /\ toknext = n
      /\ \A i \in 1..n : W[i].parent = tokens[i].parent /\ W[i].type = tokens[i].type
  BY WithTokenAdds DEF toknext, ParserOK
<1>2. \A i \in 1..n : W[i].size = IF i = toksuper THEN tokens[i].size + 1
                                                  ELSE tokens[i].size
  BY <1>1, WithTokenSizes
<1>3. \A i \in 1..n : /\ tokens[i].parent \in Nat /\ tokens[i].parent < i
                      /\ tokens[i].size \in Nat
  BY <1>1, ParentsBefore DEF TokenSet
<1> HIDE DEF W
<1>4. ASSUME NEW k \in 1..(n + 1), W[k].parent # 0, W[W[k].parent].type = "object"
      PROVE  /\ W[k].type = "string"
             /\ W[k].size = 0 => k = n + 1 /\ m2 \in {"colon", "value"}
  <2>1. CASE k \in 1..n
    <3>1. tokens[k].parent \in 1..n /\ tokens[k].parent # 0 /\ W[k].parent = tokens[k].parent
      BY <2>1, <1>1, <1>3, <1>4
    <3>2. tokens[tokens[k].parent].type = "object"
      BY <3>1, <1>1, <1>4
    <3>3. /\ tokens[k].type = "string"
          /\ tokens[k].size = 0 => k = n /\ m \in {"colon", "value"}
      BY <2>1, <3>1, <3>2 DEF Keyed
    <3>4. W[k].size = 0 => tokens[k].size = 0 /\ k # toksuper
      BY <2>1, <1>2, <1>3
    <3>5. ASSUME W[k].size = 0 PROVE FALSE
      BY <3>3, <3>4, <3>5, <1>1
    <3>6. QED BY <3>3, <3>5, <2>1, <1>1
  <2>2. CASE k = n + 1
    <3>1. W[k].parent = toksuper /\ toksuper # 0 /\ toksuper \in 1..n
      BY <2>2, <1>1, <1>4
    <3>2. tokens[toksuper].type = "object"
      BY <3>1, <1>1, <1>4
    <3>3. tok.type = "string" /\ m2 = "colon"
      BY <3>1, <3>2
    <3>4. QED BY <2>2, <3>3, <1>1
  <2>3. QED BY <2>1, <2>2, <1>1
<1>5. QED BY <1>1, <1>4 DEF Keyed, W

\* What a value is put into is no object.
LEMMA NoKeyWanted ==
  ASSUME ParserOK, PassInv, pass = "fill", NEW r, RunAt(r), pos < Len(js),
         NEW o, Stacked(tokens, toksuper, r[pos], o),
         r[pos].mode = "start" \/ WantsValue(r[pos])
  PROVE  /\ toksuper = 0 \/ tokens[toksuper].type # "object"
         /\ r[pos].mode \in {"colon", "value"} => toksuper = toknext
<1>1. /\ Len(js) \in Nat /\ pos \in 0..Len(js) /\ count = toknext /\ toknext \in Nat
      /\ toksuper \in 0..toknext /\ IsRun(r, js) /\ r[pos] \in States
  BY WhatIsRead DEF ParserOK, RunAt
<1>2. CASE r[pos].mode = "start"
  <2>1. pos = 0
    <3>1. ASSUME pos \in 1..Len(js) PROVE FALSE
      BY <1>1, <1>2, <3>1, RunLeavesStart
    <3>2. QED BY <3>1, <1>1
  <2>2. count = Cardinality(StartsBefore(0))
    BY <2>1 DEF PassInv, Parsing
  <2>3. toksuper = 0
    BY <2>2, <1>1, StartOfPass
  <2>4. QED BY <2>3, <1>2
<1>3. CASE r[pos].mode = "value"
  <2>1. toksuper = Len(tokens) /\ tokens[Len(tokens)].type = "string"
    BY <1>3 DEF Stacked, Superior, LastIsKey
  <2>2. QED BY <2>1 DEF toknext
<1>4. CASE r[pos].mode \in {"first", "next"} /\ Topmost(r[pos]) = "array"
  <2>1. tokens[o[Len(o)]].type = Topmost(r[pos])
    BY <1>1, <1>4, OnTop
  <2>2. toksuper = o[Len(o)]
    BY <1>4 DEF Stacked, Superior
  <2>3. QED BY <2>1, <2>2, <1>4
<1>5. QED BY <1>2, <1>3, <1>4 DEF WantsValue

\* Each turn of the second pass keeps to it.
LEMMA BracketKeyed ==
  ASSUME ParserOK, PassInv, pass = "fill", NEW r, RunAt(r), ~ Refuse,
         NEW o, Stacked(tokens, toksuper, r[pos], o), Keyed(tokens, r[pos].mode),
         OpenBracket
  PROVE  Keyed(tokens', r[pos + 1].mode)
<1> DEFINE tok == Token(TypeOf(At), pos, -1, toksuper)
<1>1. /\ pos \in Nat /\ pos < Len(js) /\ toksuper \in Nat /\ At \in Opening
  BY InLoop DEF OpenBracket
<1>2. Continue(pos, WithToken(tok), toknext + 1, count + 1)
  BY DEF OpenBracket
<1>3. tok \in TokenSet /\ tok.parent = toksuper
  BY <1>1 DEF TokenSet, Token, TypeOf
<1> HIDE DEF tok
<1>4. r[pos].mode = "start" \/ WantsValue(r[pos])
  BY <1>1, WhatIsRead
<1>5. Keyed(WithToken(tok), r[pos + 1].mode)
  BY <1>1, <1>3, <1>4, NoKeyWanted, TokenKeyed
<1>6. QED BY <1>2, <1>5 DEF Continue

LEMMA ElementKeyed ==
  ASSUME ParserOK, PassInv, pass = "fill", NEW r, RunAt(r), pos < Len(js), ~ Refuse,
         NEW o, Stacked(tokens, toksuper, r[pos], o), Keyed(tokens, r[pos].mode),
         NEW type \in {"string", "primitive"}, NEW start \in Nat, NEW end \in Nat, NEW p,
         Element(type, start, end, p), NEW t,
         \/ type = "string" /\ WantsKey(r[pos]) /\ t = To(r[pos], "colon")
         \/ WantsValue(r[pos])
  PROVE  Keyed(tokens', t.mode)
<1> DEFINE tok == Token(type, start, end, toksuper)
<1>1. toksuper \in Nat
  BY DEF ParserOK
<1>2. tokens' = WithToken(tok)
  BY DEF Element, Continue
<1>3. tok \in TokenSet /\ tok.parent = toksuper /\ tok.type = type
  BY <1>1 DEF TokenSet, Token
<1> HIDE DEF tok
<1>4. CASE WantsValue(r[pos])
  <2>1. Keyed(WithToken(tok), t.mode)
    BY <1>3, <1>4, NoKeyWanted, TokenKeyed
  <2>2. QED BY <1>2, <2>1
<1>5. CASE type = "string" /\ WantsKey(r[pos]) /\ t = To(r[pos], "colon")
  <2>1. t.mode = "colon" /\ r[pos].mode \notin {"colon", "value"}
    BY <1>5 DEF To, WantsKey
  <2>2. Keyed(WithToken(tok), t.mode)
    BY <1>3, <1>5, <2>1, TokenKeyed
  <2>3. QED BY <1>2, <2>2
<1>6. QED BY <1>4, <1>5

LEMMA ClosingKeyed ==
  ASSUME ParserOK, pass = "fill", NEW r, RunAt(r), ~ Refuse,
         Keyed(tokens, r[pos].mode), CloseBracket
  PROVE  Keyed(tokens', r[pos + 1].mode)
<1> DEFINE i == Innermost
           t == [tokens[i] EXCEPT !.end = pos + 1]
           toks == [tokens EXCEPT ![i].end = pos + 1]
<1>1. /\ pos \in Nat /\ pos < Len(js) /\ toknext \in Nat /\ toknext = Len(tokens)
      /\ tokens \in Seq(TokenSet) /\ Innermost \in 0..toknext /\ At \in Closing
  BY InLoop, InnermostIsOpen DEF CloseBracket, ParserOK, toknext
<1>2. r[pos].mode \notin {"colon", "value"}
  BY <1>1, WhatIsRead
<1>3. tokens' = tokens \/ (i # 0 /\ tokens' = toks)
  BY DEF CloseBracket, Continue
<1>4. ASSUME i # 0
      PROVE  /\ Len(toks) = Len(tokens)
             /\ \A j \in 1..Len(tokens) : /\ toks[j].parent = tokens[j].parent
                                          /\ toks[j].type = tokens[j].type
                                          /\ toks[j].size = tokens[j].size
  <2>1. i \in 1..toknext
    BY <1>1, <1>4
  <2> HIDE DEF i
  <2>2. tokens[i] \in TokenSet
    BY <1>1, <2>1, ElementOfSeq
  <2>3. /\ t \in TokenSet /\ t.parent = tokens[i].parent /\ t.size = tokens[i].size
        /\ t.type = tokens[i].type
    <3>1. pos + 1 \in Nat
      BY <1>1
    <3>2. QED BY <2>2, <3>1 DEF TokenSet
  <2>4. toks = [tokens EXCEPT ![i] = t]
    OBVIOUS
  <2>5. /\ Len([tokens EXCEPT ![i] = t]) = Len(tokens)
        /\ \A j \in 1..Len(tokens) :
             [tokens EXCEPT ![i] = t][j] = IF j = i THEN t ELSE tokens[j]
    <3> HIDE DEF t
    <3>1. QED BY <1>1, <2>1, <2>3, ExceptSeq
  <2> HIDE DEF t, toks
  <2>6. QED BY <2>3, <2>4, <2>5
<1> HIDE DEF i, toks
<1>5. /\ Len(tokens') = Len(tokens)
      /\ \A j \in 1..Len(tokens) : /\ tokens'[j].parent = tokens[j].parent
                                   /\ tokens'[j].type = tokens[j].type
                                   /\ tokens'[j].size = tokens[j].size
  BY <1>3, <1>4
<1>6. \A j \in 1..Len(tokens) : tokens[j].parent # 0 => tokens[j].parent \in 1..Len(tokens)
  BY <1>1, ParentsBefore
<1>7. QED BY <1>2, <1>5, <1>6 DEF Keyed

LEMMA TurnKeyed ==
  ASSUME ParserOK, PassInv, pass = "fill", NEW r, RunAt(r), Loop, ~ Refuse,
         NEW o, Stacked(tokens, toksuper, r[pos], o), Keyed(tokens, r[pos].mode)
  PROVE  Keyed(tokens', r[pos'].mode)
<1>1. Parsing /\ ~ AtEnd /\ Turn /\ ParserOK'
  BY EachTurn, ParseStepOK DEF ParseStep, Loop
<1>2. /\ pos \in Nat /\ pos < Len(js) /\ Len(js) \in Nat /\ pos \in 0..Len(js)
      /\ pos + 1 \in 0..Len(js) /\ pos + 1 \in Nat
  BY <1>1, InLoop
<1>3. pos' = NextPos(pos) /\ js' = js
  BY <1>1 DEF Turn
<1>4. NextPos(pos) <= Len(js) /\ NextPos(pos) \in Nat
  BY <1>1, <1>3 DEF ParserOK
<1>5. ASSUME At \in Opening \cup Passed
      PROVE  pos' = pos + 1
  BY <1>3, <1>5 DEF NextPos, At
<1>6. CASE OpenBracket
  <2>1. At \in Opening
    BY <1>6 DEF OpenBracket
  <2>2. QED BY <2>1, <1>5, <1>6, BracketKeyed
<1>7. CASE CloseBracket
  <2>1. At \in Passed
    BY <1>7 DEF CloseBracket, Passed
  <2>2. QED BY <2>1, <1>5, <1>7, ClosingKeyed
<1>8. CASE StringStarts
  <2> DEFINE end == Next1(pos + 1, {Mark})
  <2>1. At = Mark
    BY <1>8 DEF Mark, StringStarts
  <2>2. Element("string", pos + 1, end, end)
    BY <1>8 DEF Mark, StringStarts
  <2>3. end \in Nat
    <3>1. end \in (pos + 1)..Len(js)
      BY <1>2, Next1Finds
    <3>2. QED BY <3>1, <1>2
  <2>4. \/ WantsKey(r[pos]) /\ r[NextPos(pos)] = To(r[pos], "colon")
        \/ WantsValue(r[pos])
    BY <1>2, <1>4, <2>1, TurnRuns
  <2> HIDE DEF end
  <2>5. QED BY <1>2, <1>3, <2>2, <2>3, <2>4, ElementKeyed
<1>9. CASE Primitive
  <2> DEFINE end == Next1(pos, Ends)
  <2>1. At \notin Opening \cup Passed \cup {Mark}
    BY <1>9 DEF Mark, Primitive, Passed
  <2>2. Element("primitive", pos, end, end - 1)
    BY <1>9 DEF Primitive, Ends
  <2>3. end \in Nat
    <3>1. end \in pos..Len(js)
      BY <1>2, Next1Finds
    <3>2. QED BY <3>1, <1>2
  <2>4. WantsValue(r[pos])
    BY <1>2, <1>4, <2>1, TurnRuns
  <2> HIDE DEF end
  <2>5. QED BY <1>2, <2>2, <2>3, <2>4, ElementKeyed
<1>10. CASE Colon \/ Comma \/ SkipBlank
  <2>1. At \in Passed /\ tokens' = tokens
    BY <1>10 DEF Colon, Comma, SkipBlank, Passed, Continue
  <2>2. pos' = pos + 1
    BY <2>1, <1>5
  <2>3. r[pos].mode \in {"colon", "value"} => r[pos + 1].mode \in {"colon", "value"}
    <3>1. CASE Colon
      <4>1. At = ":"
        BY <3>1 DEF Colon
      <4>2. r[pos + 1] = To(r[pos], "value")
        BY <4>1, <1>2, WhatIsRead
      <4>3. QED BY <4>2 DEF To
    <3>2. CASE Comma
      <4>1. At = ","
        BY <3>2 DEF Comma
      <4>2. r[pos].mode \in {"after", "prim"}
        BY <4>1, <1>2, WhatIsRead
      <4>3. QED BY <4>2
    <3>3. CASE SkipBlank
      <4>1. At \in Blank
        BY <3>3 DEF SkipBlank
      <4>2. r[pos + 1] = r[pos]
        BY <4>1, <1>2, WhatIsRead
      <4>3. QED BY <4>2
    <3>4. QED BY <3>1, <3>2, <3>3, <1>10
  <2>4. Keyed(tokens, r[pos + 1].mode)
    BY <2>3 DEF Keyed
  <2>5. QED BY <2>1, <2>2, <2>4
<1>11. QED BY <1>6, <1>7, <1>8, <1>9, <1>10 DEF Loop

----------------------------------------------------------------------------
(* What a run tells: the tokens its text stands for, with their texts, and *)
(* those of them that are open, as the characters come.                    *)

Things(S) == [type : {"object", "array", "string", "primitive"}, parent : Nat,
              text : Seq(S)]
Thing(type, parent, text) == [type |-> type, parent |-> parent, text |-> text]

\* The open ones, by their indexes, and all of them.
Story(opens, told) == [opens |-> opens, told |-> told]
NoTale == Story(<<>>, <<>>)

\* What the next thing lies in, when state s has told u.
Above(s, u) == IF s.mode = "value" THEN Len(u.told)
               ELSE IF u.opens = <<>> THEN 0 ELSE u.opens[Len(u.opens)]

Adds(u, thing) == Story(u.opens, Append(u.told, thing))
Longer(u, c) ==
    LET n == Len(u.told)
        thing == u.told[n]
    IN  Story(u.opens, Append(SubSeq(u.told, 1, n - 1),
                              Thing(thing.type, thing.parent, Append(thing.text, c))))
Enters(u, thing) == Story(Append(u.opens, Len(u.told) + 1), Append(u.told, thing))
Leaves(u) == Story(SubSeq(u.opens, 1, Len(u.opens) - 1), u.told)

\* A thing whose text goes on.
On(x, text) == Thing(x.type, x.parent, x.text \o text)

\* The character c, read in state s.
Tell(s, u, c) ==
    IF s.mode \in {"key", "str"} THEN (IF c = Mark THEN u ELSE Longer(u, c))
    ELSE IF c \in Opening THEN Enters(u, Thing(TypeOf(c), Above(s, u), <<>>))
    ELSE IF c \in Closing THEN Leaves(u)
    ELSE IF c = Mark THEN Adds(u, Thing("string", Above(s, u), <<>>))
    ELSE IF c \in Passed THEN u
    ELSE IF s.mode = "prim" THEN Longer(u, c)
    ELSE Adds(u, Thing("primitive", Above(s, u), <<c>>))

Tale(q, r, text) == \A k \in 1..Len(text) : q[k] = Tell(r[k - 1], q[k - 1], text[k])

LEMMA FrontOfAppend ==
  ASSUME NEW T, NEW base \in Seq(T), NEW x \in T
  PROVE  /\ Len(Append(base, x)) = Len(base) + 1
         /\ Append(base, x)[Len(base) + 1] = x
         /\ SubSeq(Append(base, x), 1, Len(base)) = base
<1> DEFINE b == Append(base, x)
           n == Len(base)
<1>1. /\ b \in Seq(T) /\ Len(b) = n + 1 /\ b[n + 1] = x /\ n \in Nat
      /\ \A i \in 1..n : b[i] = base[i]
  BY AppendProperties, LenProperties
<1> HIDE DEF b
<1>2. \A i \in 1..n : b[i] \in T
  BY <1>1, ElementOfSeq
<1>3. /\ SubSeq(b, 1, n) \in Seq(T)
      /\ Len(SubSeq(b, 1, n)) = IF 1 <= n THEN n - 1 + 1 ELSE 0
      /\ \A i \in 1..(n - 1 + 1) : SubSeq(b, 1, n)[i] = b[1 + i - 1]
  BY <1>1, <1>2, SubSeqProperties, 1 \in Int, n \in Int
<1>4. Len(SubSeq(b, 1, n)) = n /\ n - 1 + 1 = n /\ \A i \in 1..n : 1 + i - 1 = i
  BY <1>1, <1>3
<1>5. \A i \in 1..n : SubSeq(b, 1, n)[i] = base[i]
  BY <1>1, <1>3, <1>4
<1>6. SubSeq(b, 1, n) = base
  BY <1>1, <1>3, <1>4, <1>5, SeqEqual
<1>7. QED BY <1>1, <1>6 DEF b

\* One more character of the last thing told.
LEMMA LongerIs ==
  ASSUME NEW S, NEW base \in Seq(Things(S)), NEW opens, NEW type, NEW parent, NEW text,
         Thing(type, parent, text) \in Things(S), NEW c
  PROVE  Longer(Story(opens, Append(base, Thing(type, parent, text))), c)
           = Story(opens, Append(base, Thing(type, parent, Append(text, c))))
<1> DEFINE x == Thing(type, parent, text)
           b == Append(base, x)
           n == Len(base)
<1>1. /\ Len(b) = n + 1 /\ b[n + 1] = x /\ SubSeq(b, 1, n) = base
      /\ n \in Nat /\ (n + 1) - 1 = n
  <2> HIDE DEF x
  <2>1. n \in Nat
    BY LenProperties
  <2>2. QED BY <2>1, FrontOfAppend
<1>2. x.type = type /\ x.parent = parent /\ x.text = text
  BY DEF Thing
<1> HIDE DEF b, x
<1>3. Longer(Story(opens, b), c)
        = Story(opens, Append(base, Thing(type, parent, Append(text, c))))
  BY <1>1, <1>2 DEF Longer, Story
<1>4. QED BY <1>3 DEF b, x

\* A text that goes on by none of its characters, and by one more.
LEMMA OnNothing ==
  ASSUME NEW S, NEW x \in Things(S)
  PROVE  On(x, <<>>) = x
<1>1. x.text \o <<>> = x.text /\ x = Thing(x.type, x.parent, x.text)
  BY ConcatEmptySeq DEF Things, Thing
<1>2. QED BY <1>1 DEF On

LEMMA LongerOn ==
  ASSUME NEW S, NEW text \in Seq(S), NEW a \in Nat, NEW k \in Nat, a <= k, k < Len(text),
         NEW opens, NEW base \in Seq(Things(S)), NEW x \in Things(S)
  PROVE  Longer(Story(opens, Append(base, On(x, SubSeq(text, a + 1, k)))), text[k + 1])
           = Story(opens, Append(base, On(x, SubSeq(text, a + 1, k + 1))))
<1> DEFINE front == x.text
           mid == SubSeq(text, a + 1, k)
           c == text[k + 1]
           type == x.type
           parent == x.parent
           whole == front \o mid
<1>1. /\ front \in Seq(S) /\ parent \in Nat
      /\ type \in {"object", "array", "string", "primitive"}
  BY DEF Things
<1>2. /\ Len(text) \in Nat /\ a + 1 \in Int /\ k \in Int /\ (k + 1) - 1 = k
      /\ a + 1 \in 1..Len(text) /\ k + 1 \in (a + 1)..Len(text) /\ k + 1 \in 1..Len(text)
      /\ \A i \in (a + 1)..k : i \in 1..Len(text)
  <2>1. Len(text) \in Nat
    BY LenProperties
  <2>2. QED BY <2>1
<1>3. mid \in Seq(S) /\ c \in S
  <2>1. \A i \in (a + 1)..k : text[i] \in S
    BY <1>2, ElementOfSeq
  <2>2. c \in S
    BY <1>2, ElementOfSeq
  <2>3. QED BY <2>1, <2>2, <1>2, SubSeqProperties
<1>4. SubSeq(text, a + 1, k + 1) = Append(mid, c)
  <2>1. SubSeq(text, a + 1, k + 1) = SubSeq(text, a + 1, (k + 1) - 1) \o <<text[k + 1]>>
    BY <1>2, SubSeqRecursiveSecond
  <2>2. SubSeq(text, a + 1, k + 1) = mid \o <<c>>
    BY <2>1, <1>2
  <2> HIDE DEF mid, c
  <2>3. QED BY <2>2, <1>3, AppendIsConcat
<1> HIDE DEF front, mid, c, type, parent, whole
<1>5. whole \in Seq(S) /\ <<c>> \in Seq(S)
  BY <1>1, <1>3, ConcatProperties DEF whole
<1>6. Append(whole, c) = front \o Append(mid, c)
  <2>1. Append(whole, c) = (front \o mid) \o <<c>>
    BY <1>3, <1>5, AppendIsConcat DEF whole
  <2>2. Append(mid, c) = mid \o <<c>>
    BY <1>3, AppendIsConcat
  <2>3. \A one \in Seq(S) : (front \o mid) \o one = front \o (mid \o one)
    BY <1>1, <1>3, ConcatAssociative, SMTT(60)
  <2>4. (front \o mid) \o <<c>> = front \o (mid \o <<c>>)
    BY <1>5, <2>3
  <2>5. QED BY <2>1, <2>2, <2>4
<1>7. Thing(type, parent, whole) \in Things(S)
  BY <1>1, <1>5 DEF Thing, Things
<1>8. Longer(Story(opens, Append(base, Thing(type, parent, whole))), c)
        = Story(opens, Append(base, Thing(type, parent, Append(whole, c))))
  BY <1>7, LongerIs
<1>9. On(x, SubSeq(text, a + 1, k + 1)) = Thing(type, parent, Append(whole, c))
  BY <1>4, <1>6 DEF On, front, type, parent
<1>10. On(x, SubSeq(text, a + 1, k)) = Thing(type, parent, whole)
  BY DEF On, front, mid, type, parent, whole
<1>11. QED BY <1>8, <1>9, <1>10 DEF c

\* The characters after the first a, up to the first b, go on with something.
Lengthens(q, r, text, a, b) ==
    \A i \in a..(b - 1) : Tell(r[i], q[i], text[i + 1]) = Longer(q[i], text[i + 1])

\* A name, a string or a primitive is told character by character.
LEMMA ToldOn ==
  ASSUME NEW S, NEW text \in Seq(S), NEW r, NEW q, Tale(q, r, text),
         NEW a \in Nat, NEW b \in Nat, a <= b, b <= Len(text),
         Lengthens(q, r, text, a, b)
  PROVE  \A opens : \A base \in Seq(Things(S)), x \in Things(S) :
           q[a] = Story(opens, Append(base, x))
             => q[b] = Story(opens, Append(base, On(x, SubSeq(text, a + 1, b))))
<1> SUFFICES ASSUME NEW opens, NEW base \in Seq(Things(S)), NEW x \in Things(S),
                    q[a] = Story(opens, Append(base, x))
             PROVE  q[b] = Story(opens, Append(base, On(x, SubSeq(text, a + 1, b))))
  OBVIOUS
<1> DEFINE Is(k) == Story(opens, Append(base, On(x, SubSeq(text, a + 1, k))))
           N == {n \in Nat : a + n <= b => q[a + n] = Is(a + n)}
<1>1. Len(text) \in Nat
  BY LenProperties
<1>2. 0 \in N
  <2>1. SubSeq(text, a + 1, a) = <<>>
    <3>1. a + 1 \in Int /\ a \in Int /\ a < a + 1
      OBVIOUS
    <3>2. QED BY <3>1, SubSeqEmpty
  <2>2. On(x, SubSeq(text, a + 1, a)) = x
    BY <2>1, OnNothing
  <2>3. a + 0 = a
    OBVIOUS
  <2>4. QED BY <2>2, <2>3
<1>3. ASSUME NEW n \in Nat, n \in N
      PROVE  n + 1 \in N
  <2>1. ASSUME a + (n + 1) <= b
        PROVE  q[a + (n + 1)] = Is(a + (n + 1))
    <3> DEFINE k == a + n
    <3>1. /\ k \in a..(b - 1) /\ k + 1 = a + (n + 1) /\ k + 1 \in 1..Len(text)
          /\ (k + 1) - 1 = k /\ k <= b /\ k \in Nat /\ a <= k /\ k < Len(text)
      BY <2>1, <1>1
    <3>2. q[k] = Is(k)
      <4> HIDE DEF Is
      <4>1. QED BY <1>3, <3>1
    <3> HIDE DEF k
    <3>3. q[k + 1] = Longer(q[k], text[k + 1])
      <4>1. q[k + 1] = Tell(r[(k + 1) - 1], q[(k + 1) - 1], text[k + 1])
        BY <3>1 DEF Tale
      <4>2. QED BY <4>1, <3>1 DEF Lengthens
    <3>4. Longer(Is(k), text[k + 1]) = Is(k + 1)
      BY <3>1, LongerOn
    <3> HIDE DEF Is
    <3>5. QED BY <3>1, <3>2, <3>3, <3>4
  <2>2. QED BY <2>1
<1>4. b - a \in N
  <2> HIDE DEF N
  <2>1. Nat \subseteq N
    BY <1>2, <1>3, SetInduction
  <2>2. QED BY <2>1
<1>5. a + (b - a) = b
  OBVIOUS
<1>6. q[b] = Is(b)
  <2> HIDE DEF Is
  <2>1. QED BY <1>4, <1>5
<1>7. QED BY <1>6

----------------------------------------------------------------------------
(* The tokens tell the same.                                               *)

Show(tok) == Thing(tok.type, tok.parent,
                   IF tok.type \in {"string", "primitive"}
                   THEN SubSeq(js, tok.start + 1, tok.end) ELSE <<>>)
ShowAll(toks) == [i \in 1..Len(toks) |-> Show(toks[i])]

LEMMA ShowAllIs ==
  ASSUME NEW toks \in Seq(TokenSet)
  PROVE  /\ ShowAll(toks) \in Seq({Show(tok) : tok \in TokenSet})
         /\ Len(ShowAll(toks)) = Len(toks) /\ Len(toks) \in Nat
         /\ \A i \in 1..Len(toks) : ShowAll(toks)[i] = Show(toks[i])
<1> DEFINE T == {Show(tok) : tok \in TokenSet}
           f == [i \in 1..Len(toks) |-> Show(toks[i])]
<1>1. Len(toks) \in Nat /\ \A i \in 1..Len(toks) : toks[i] \in TokenSet
  BY LenProperties, ElementOfSeq
<1>2. \A i \in 1..Len(toks) : Show(toks[i]) \in T
  BY <1>1
<1> HIDE DEF T
<1>3. f \in [1..Len(toks) -> T]
  BY <1>2
<1>4. f \in Seq(T) /\ Len(f) = Len(toks)
  BY <1>1, <1>3, SeqDef, LenProperties
<1>5. QED BY <1>1, <1>4 DEF ShowAll, T

LEMMA ShowAdded ==
  ASSUME ParserOK, NEW tok \in TokenSet
  PROVE  ShowAll(WithToken(tok)) = Append(ShowAll(tokens), Show(tok))
<1> DEFINE T == {Show(t) : t \in TokenSet}
           W == WithToken(tok)
           n == Len(tokens)
           a == ShowAll(W)
           b == Append(ShowAll(tokens), Show(tok))
<1>1. /\ W \in Seq(TokenSet) /\ Len(W) = n + 1 /\ W[n + 1] = tok
      /\ tokens \in Seq(TokenSet) /\ n \in Nat
      /\ \A i \in 1..n : /\ W[i].type = tokens[i].type
                         /\ W[i].start = tokens[i].start
                         /\ W[i].end = tokens[i].end
                         /\ W[i].parent = tokens[i].parent
  BY WithTokenAdds DEF toknext, ParserOK
<1>2. \A i \in 1..n : Show(W[i]) = Show(tokens[i])
  BY <1>1 DEF Show
<1> HIDE DEF W
<1>3. /\ a \in Seq(T) /\ Len(a) = n + 1
      /\ \A i \in 1..(n + 1) : a[i] = Show(W[i])
  BY <1>1, ShowAllIs
<1>4. /\ ShowAll(tokens) \in Seq(T) /\ Len(ShowAll(tokens)) = n
      /\ \A i \in 1..n : ShowAll(tokens)[i] = Show(tokens[i])
      /\ Show(tok) \in T
  BY <1>1, ShowAllIs
<1> DEFINE old == ShowAll(tokens)
           new == Show(tok)
<1> HIDE DEF T, a, old, new
<1>5. /\ Append(old, new) \in Seq(T) /\ Len(Append(old, new)) = n + 1
      /\ Append(old, new)[n + 1] = new
      /\ \A i \in 1..n : Append(old, new)[i] = old[i]
  BY <1>4, AppendProperties DEF old, new
<1>6. \A i \in 1..(n + 1) : a[i] = Append(old, new)[i]
  <2>1. ASSUME NEW i \in 1..(n + 1) PROVE a[i] = Append(old, new)[i]
    <3>1. CASE i = n + 1
      BY <3>1, <1>1, <1>3, <1>5 DEF new
    <3>2. CASE i # n + 1
      <4>1. i \in 1..n
        BY <3>2, <1>1
      <4>2. QED BY <4>1, <1>2, <1>3, <1>4, <1>5 DEF old
    <3>3. QED BY <3>1, <3>2
  <2>2. QED BY <2>1
<1>7. a = Append(old, new)
  BY <1>1, <1>3, <1>5, <1>6, SeqEqual
<1>8. QED BY <1>7 DEF a, old, new, W

\* What the tokens tell is made of characters of the text.
LEMMA ShowsThings ==
  ASSUME ParserOK, NEW S, js \in Seq(S)
  PROVE  ShowAll(tokens) \in Seq(Things(S)) /\ Len(ShowAll(tokens)) = Len(tokens)
<1>1. /\ tokens \in Seq(TokenSet) /\ Len(tokens) \in Nat /\ toknext = Len(tokens)
      /\ pos \in 0..Len(js) /\ Len(js) \in Nat
      /\ \A i \in 1..toknext : InText(tokens[i], i, pos)
  BY DEF ParserOK, toknext
<1>2. ASSUME NEW i \in 1..Len(tokens)
      PROVE  Show(tokens[i]) \in Things(S)
  <2>1. /\ tokens[i] \in TokenSet /\ tokens[i].start <= pos /\ tokens[i].end <= pos
    BY <1>1, ElementOfSeq DEF InText
  <2>2. SubSeq(js, tokens[i].start + 1, tokens[i].end) \in Seq(S)
    <3> DEFINE start == tokens[i].start
               m == start + 1
               n == tokens[i].end
    <3>1. m \in Int /\ n \in Int /\ 1 <= m /\ n <= Len(js)
      <4>1. start \in Nat /\ n \in Nat \cup {-1} /\ n <= pos
        BY <2>1 DEF TokenSet
      <4> HIDE DEF start, n
      <4>2. QED BY <4>1, <1>1
    <3> HIDE DEF m, n
    <3>2. \A j \in m..n : js[j] \in S
      <4>1. \A j \in m..n : j \in 1..Len(js)
        BY <1>1, <3>1
      <4>2. QED BY <4>1, ElementOfSeq
    <3>3. SubSeq(js, m, n) \in Seq(S)
      BY <3>1, <3>2, SubSeqProperties
    <3>4. QED BY <3>3 DEF m, n, start
  <2>3. <<>> \in Seq(S)
    BY EmptySeq
  <2>4. QED BY <2>1, <2>2, <2>3 DEF Show, Thing, Things, TokenSet
<1>3. /\ Len(ShowAll(tokens)) = Len(tokens)
      /\ \A i \in 1..Len(tokens) : ShowAll(tokens)[i] = Show(tokens[i])
  BY <1>1, ShowAllIs
<1> DEFINE T == Things(S)
           f == [i \in 1..Len(tokens) |-> Show(tokens[i])]
<1> HIDE DEF T
<1>4. f \in [1..Len(tokens) -> T]
  BY <1>2 DEF T
<1>5. f \in Seq(T)
  BY <1>1, <1>4, SeqDef
<1>6. QED BY <1>3, <1>5 DEF ShowAll, T

\* The superior token is what the next thing is said to lie in.
LEMMA AboveIs ==
  ASSUME ParserOK, PassInv, pass = "fill", NEW r, RunAt(r), pos < Len(js),
         NEW o, Stacked(tokens, toksuper, r[pos], o),
         NEW told, Len(told) = Len(tokens),
         r[pos].mode = "start" \/ WantsKey(r[pos]) \/ WantsValue(r[pos])
  PROVE  Above(r[pos], Story(o, told)) = toksuper
<1> DEFINE s == r[pos]
<1>1. /\ Len(js) \in Nat /\ pos \in 0..Len(js) /\ count = toknext /\ toknext \in Nat
      /\ IsRun(r, js) /\ s \in States /\ toknext = Len(tokens)
      /\ toksuper \in 0..toknext
      /\ o \in Seq(Nat) /\ Len(o) = Len(s.stack)
  BY WhatIsRead DEF ParserOK, RunAt, toknext, Stacked, Nested
<1>2. Story(o, told).opens = o /\ Story(o, told).told = told
  BY DEF Story
<1>3. CASE s.mode = "start"
  <2>1. pos = 0
    <3>1. ASSUME pos \in 1..Len(js) PROVE FALSE
      BY <1>1, <1>3, <3>1, RunLeavesStart
    <3>2. QED BY <3>1, <1>1
  <2>2. count = Cardinality(StartsBefore(0))
    BY <2>1 DEF PassInv, Parsing
  <2>3. toksuper = 0
    BY <2>2, <1>1, StartOfPass
  <2>4. s.stack = <<>>
    BY <1>1, <1>3 DEF States
  <2>5. o = <<>>
    BY <1>1, <2>4, EmptySeq
  <2>6. QED BY <1>2, <1>3, <2>3, <2>5 DEF Above
<1>4. CASE s.mode = "value"
  <2>1. toksuper = Len(tokens)
    BY <1>4 DEF Stacked, Superior
  <2>2. QED BY <2>1, <1>2, <1>4 DEF Above
<1>5. CASE s.mode \in {"first", "next"}
  <2>1. toksuper = o[Len(o)]
    BY <1>5 DEF Stacked, Superior
  <2>2. o # <<>>
    <3>1. s.mode \notin {"start", "end", "key", "str"}
      BY <1>5
    <3>2. QED BY <3>1, <1>1, OnTop
  <2>3. QED BY <2>1, <2>2, <1>2, <1>5 DEF Above
<1>6. QED BY <1>3, <1>4, <1>5 DEF WantsKey, WantsValue

LEMMA TaleStep ==
  ASSUME NEW text, Len(text) \in Nat, NEW r, NEW q, Tale(q, r, text),
         NEW k \in Nat, k < Len(text)
  PROVE  q[k + 1] = Tell(r[k], q[k], text[k + 1])
<1>1. k + 1 \in 1..Len(text) /\ (k + 1) - 1 = k
  OBVIOUS
<1>2. q[k + 1] = Tell(r[(k + 1) - 1], q[(k + 1) - 1], text[k + 1])
  BY <1>1 DEF Tale
<1>3. QED BY <1>1, <1>2

\* In the second pass the text read so far tells the tokens there are, o
\* being the open ones.
Telling(r, q, o) == /\ RunAt(r) /\ Tale(q, r, js)
                    /\ Stacked(tokens, toksuper, r[pos], o)
                    /\ q[pos] = Story(o, ShowAll(tokens))

LEMMA OpenBracketTold ==
  ASSUME ParserOK, PassInv, pass = "fill", NEW r, NEW q, NEW o, Telling(r, q, o), ~ Refuse,
         OpenBracket
  PROVE  q[pos + 1] = Story(Append(o, Len(tokens) + 1), ShowAll(tokens'))
<1> DEFINE tok == Token(TypeOf(At), pos, -1, toksuper)
           x == Thing(TypeOf(At), toksuper, <<>>)
<1>1. /\ pos \in Nat /\ pos < Len(js) /\ Len(js) \in Nat /\ toksuper \in Nat
      /\ At \in Opening /\ At = js[pos + 1] /\ tokens \in Seq(TokenSet)
  BY InLoop DEF OpenBracket, At, ParserOK
<1>2. tokens' = WithToken(tok)
  BY DEF OpenBracket, Continue
<1>3. tok \in TokenSet /\ Show(tok) = x
  BY <1>1 DEF TokenSet, Token, TypeOf, Show
<1> HIDE DEF tok
<1>4. ShowAll(tokens') = Append(ShowAll(tokens), x)
  BY <1>2, <1>3, ShowAdded
<1>5. Len(ShowAll(tokens)) = Len(tokens)
  BY <1>1, ShowAllIs
<1>6. Above(r[pos], q[pos]) = toksuper
  <2>1. r[pos].mode = "start" \/ WantsValue(r[pos])
    BY <1>1, WhatIsRead DEF Telling
  <2>2. QED BY <1>1, <1>5, <2>1, AboveIs DEF Telling
<1>7. q[pos + 1] = Tell(r[pos], q[pos], At) /\ r[pos].mode \notin {"key", "str"}
  BY <1>1, TaleStep DEF Telling, RunAt
<1>8. q[pos + 1] = Enters(q[pos], x)
  BY <1>1, <1>6, <1>7 DEF Tell
<1>9. q[pos].opens = o /\ q[pos].told = ShowAll(tokens)
  BY DEF Telling, Story
<1> HIDE DEF x
<1>10. QED BY <1>4, <1>5, <1>8, <1>9 DEF Enters

LEMMA CloseBracketTold ==
  ASSUME ParserOK, PassInv, pass = "fill", NEW r, NEW q, NEW o, Telling(r, q, o), ~ Refuse,
         CloseBracket
  PROVE  q[pos + 1] = Story(SubSeq(o, 1, Len(o) - 1), ShowAll(tokens'))
<1> DEFINE s == r[pos]
           top == o[Len(o)]
           t == [tokens[top] EXCEPT !.end = pos + 1]
           toks == [tokens EXCEPT ![top].end = pos + 1]
<1>1. /\ pos \in Nat /\ pos < Len(js) /\ Len(js) \in Nat /\ toknext = Len(tokens)
      /\ At \in Closing /\ At = js[pos + 1] /\ tokens \in Seq(TokenSet) /\ toknext \in Nat
  BY InLoop DEF CloseBracket, At, ParserOK, toknext
<1>2. /\ s \in States /\ s.mode \in {"first", "after", "prim"}
  BY <1>1, WhatIsRead DEF Telling
<1>3. /\ o # <<>> /\ top \in 1..toknext
      /\ IsOpen(tokens[top]) /\ tokens[top].type \in {"object", "array"}
  <2>1. s.mode \notin {"start", "end", "key", "str"}
    BY <1>2
  <2>2. QED BY <2>1, <1>2, OnTop DEF Telling
<1>4. Innermost = top
  BY <1>2, <1>3, InnermostIsTop DEF Telling, Stacked
<1>5. tokens' = toks
  <2>1. top # 0
    BY <1>3
  <2> HIDE DEF top
  <2>2. QED BY <2>1, <1>4 DEF CloseBracket, Continue
<1>6. /\ t \in TokenSet /\ t.type = tokens[top].type /\ t.parent = tokens[top].parent
  <2>1. tokens[top] \in TokenSet
    BY <1>1, <1>3, ElementOfSeq
  <2>2. QED BY <2>1, <1>1, TokenEnds, pos + 1 \in Nat
<1>7. /\ Len(toks) = Len(tokens) /\ toks \in Seq(TokenSet)
      /\ \A j \in 1..Len(tokens) : toks[j] = IF j = top THEN t ELSE tokens[j]
  <2>1. toks = [tokens EXCEPT ![top] = t]
    OBVIOUS
  <2> HIDE DEF t, toks, top
  <2>2. QED BY <2>1, <1>1, <1>3, <1>6, ExceptSeq
<1> HIDE DEF toks
<1>8. Show(t) = Show(tokens[top])
  <2>1. t.type \notin {"string", "primitive"}
    BY <1>3, <1>6
  <2> HIDE DEF t, top
  <2>2. QED BY <2>1, <1>6 DEF Show
<1>9. \A j \in 1..Len(tokens) : Show(toks[j]) = Show(tokens[j])
  <2> HIDE DEF t, top
  <2>1. QED BY <1>7, <1>8
<1>10. ShowAll(toks) = ShowAll(tokens)
  BY <1>7, <1>9 DEF ShowAll
<1>11. q[pos + 1] = Tell(r[pos], q[pos], At) /\ r[pos].mode \notin {"key", "str"}
  BY <1>1, TaleStep DEF Telling, RunAt
<1>12. q[pos + 1] = Leaves(q[pos])
  BY <1>1, <1>11 DEF Tell, Opening, Closing
<1>13. q[pos].opens = o /\ q[pos].told = ShowAll(tokens)
  BY DEF Telling, Story
<1>14. QED BY <1>5, <1>10, <1>12, <1>13 DEF Leaves

LEMMA SeparatorTold ==
  ASSUME ParserOK, NEW r, NEW q, NEW o, Telling(r, q, o), Colon \/ Comma \/ SkipBlank
  PROVE  q[pos + 1] = Story(o, ShowAll(tokens'))
<1>1. /\ pos \in Nat /\ pos < Len(js) /\ Len(js) \in Nat
      /\ At \in Passed /\ At \notin Closing /\ At = js[pos + 1] /\ tokens' = tokens
  BY InLoop DEF Colon, Comma, SkipBlank, Continue, At, Passed, Blank, Closing
<1>2. q[pos + 1] = Tell(r[pos], q[pos], At) /\ r[pos].mode \notin {"key", "str"}
  BY <1>1, TaleStep DEF Telling, RunAt
<1>3. At \notin Opening \cup {Mark}
  BY <1>1, CharKinds
<1>4. q[pos + 1] = q[pos]
  BY <1>1, <1>2, <1>3 DEF Tell
<1>5. QED BY <1>1, <1>4 DEF Telling

LEMMA StringTold ==
  ASSUME ParserOK, PassInv, pass = "fill", NEW r, NEW q, NEW o, Telling(r, q, o), ~ Refuse,
         NEW S, js \in Seq(S), StringStarts, NextPos(pos) <= Len(js)
  PROVE  q[NextPos(pos)] = Story(o, ShowAll(tokens'))
<1> DEFINE s == r[pos]
           end == Next1(pos + 1, {Mark})
           tok == Token("string", pos + 1, end, toksuper)
           base == ShowAll(tokens)
           x == Thing("string", toksuper, <<>>)
           text == SubSeq(js, (pos + 1) + 1, end)
           y == Thing("string", toksuper, text)
<1>1. /\ pos \in Nat /\ pos < Len(js) /\ Len(js) \in Nat /\ toksuper \in Nat
      /\ pos + 1 \in 0..Len(js) /\ tokens \in Seq(TokenSet) /\ IsRun(r, js) /\ RunAt(r)
      /\ Tale(q, r, js)
  <2>1. /\ pos \in Nat /\ pos < Len(js) /\ Len(js) \in Nat /\ toksuper \in 0..toknext
        /\ toknext \in Nat /\ pos + 1 \in 0..Len(js) /\ pos \in 0..Len(js)
    BY InLoop DEF StringStarts
  <2>2. tokens \in Seq(TokenSet) /\ IsRun(r, js) /\ RunAt(r) /\ Tale(q, r, js)
    BY DEF ParserOK, Telling, RunAt
  <2>3. QED BY <2>1, <2>2
<1>2. At = Mark /\ At = js[pos + 1]
  BY DEF Mark, StringStarts, At
<1>3. NextPos(pos) = end + 1
  BY <1>2, CharKinds DEF NextPos, At
<1>4. /\ end \in (pos + 1)..Len(js)
      /\ end < Len(js) => js[end + 1] = Mark
      /\ \A i \in (pos + 1)..(end - 1) : js[i + 1] # Mark
  BY <1>1, Next1Finds
<1>5. end \in Nat /\ end < Len(js)
  <2> HIDE DEF end
  <2>1. QED BY <1>1, <1>3, <1>4
<1>6. Element("string", pos + 1, end, end)
  BY <1>5 DEF Mark, StringStarts
<1> HIDE DEF end
<1>7. tokens' = WithToken(tok)
  BY <1>6 DEF Element, Continue
<1>8. tok \in TokenSet /\ Show(tok) = y
  BY <1>1, <1>5 DEF TokenSet, Token, Show
<1> HIDE DEF tok
<1>9. ShowAll(tokens') = Append(base, y)
  BY <1>7, <1>8, ShowAdded
<1>10. base \in Seq(Things(S)) /\ Len(base) = Len(tokens)
  BY <1>1, ShowsThings
<1>11. /\ WantsKey(s) \/ WantsValue(s)
       /\ s.mode \notin {"key", "str", "prim"}
       /\ r[pos + 1].mode \in {"key", "str"}
  <2>1. s.mode \notin {"key", "str", "prim"}
    BY <1>1, <1>2, CharKinds DEF RunAt, Ends, Passed
  <2>2. Reads(s, Mark, r[pos + 1])
    BY <1>1, <1>2, RunStep
  <2>3. \/ WantsKey(s) /\ r[pos + 1] = To(s, "key")
        \/ WantsValue(s) /\ r[pos + 1] = To(s, "str")
    BY <2>1, <2>2, CharKinds, ParseAssumption DEF Reads, Mark
  <2> HIDE DEF s
  <2>4. QED BY <2>1, <2>3 DEF To
<1>12. Above(s, q[pos]) = toksuper
  BY <1>1, <1>10, <1>11, AboveIs DEF Telling
<1>13. q[pos].opens = o /\ q[pos].told = base
  BY DEF Telling, Story
<1>14. q[pos + 1] = Story(o, Append(base, x))
  <2>1. q[pos + 1] = Tell(s, q[pos], Mark)
    BY <1>1, <1>2, TaleStep
  <2>2. q[pos + 1] = Adds(q[pos], x)
    <3>1. Mark \notin Opening \cup Closing
      BY CharKinds DEF Passed
    <3> HIDE DEF x, s
    <3>2. QED BY <2>1, <3>1, <1>11, <1>12 DEF Tell, x
  <2> HIDE DEF x, base
  <2>3. QED BY <2>2, <1>13 DEF Adds
<1>15. ASSUME NEW i \in (pos + 1)..end
       PROVE  r[i].mode \in {"key", "str"} /\ i \in Nat /\ i <= Len(js)
  <2>1. i \in Nat /\ pos + 1 \in Nat /\ pos + 1 <= i /\ i <= Len(js)
    BY <1>1, <1>4, <1>5
  <2>2. \A j \in (pos + 1)..(i - 1) : js[j + 1] # Mark
    BY <1>1, <1>4, <1>5
  <2>3. r[i] = r[pos + 1]
    BY <1>1, <1>11, <2>1, <2>2, RunThroughString
  <2>4. QED BY <2>1, <2>3, <1>11
<1>16. \A i \in (pos + 1)..(end - 1) : Tell(r[i], q[i], js[i + 1]) = Longer(q[i], js[i + 1])
  <2>1. ASSUME NEW i \in (pos + 1)..(end - 1)
        PROVE  Tell(r[i], q[i], js[i + 1]) = Longer(q[i], js[i + 1])
    <3>1. i \in (pos + 1)..end
      BY <1>1, <1>5
    <3>2. r[i].mode \in {"key", "str"} /\ js[i + 1] # Mark
      BY <3>1, <1>4, <1>15
    <3>3. QED BY <3>2 DEF Tell
  <2>2. QED BY <2>1
<1>17. q[end] = Story(o, Append(base, On(x, text)))
  <2>1. x \in Things(S)
    BY <1>1, EmptySeq DEF Things, Thing
  <2>2. pos + 1 \in Nat /\ pos + 1 <= end /\ end <= Len(js)
    BY <1>1, <1>4, <1>5
  <2> DEFINE a == pos + 1
  <2> HIDE DEF x, base
  <2>3. a \in Nat /\ a <= end /\ q[a] = Story(o, Append(base, x))
        /\ Lengthens(q, r, js, a, end)
    BY <2>2, <1>14, <1>16 DEF Lengthens
  <2> HIDE DEF a
  <2>4. q[end] = Story(o, Append(base, On(x, SubSeq(js, a + 1, end))))
    <3>1. js \in Seq(S) /\ Tale(q, r, js) /\ end \in Nat /\ end <= Len(js)
          /\ base \in Seq(Things(S)) /\ x \in Things(S)
      BY <1>1, <1>5, <1>10, <2>1, <2>2
    <3>2. \A opens : \A base1 \in Seq(Things(S)), x1 \in Things(S) :
            q[a] = Story(opens, Append(base1, x1))
             => q[end] = Story(opens, Append(base1, On(x1, SubSeq(js, a + 1, end))))
      BY <3>1, <2>3, ToldOn
    <3>3. QED BY <3>1, <2>3, <3>2
  <2>5. QED BY <2>4 DEF a
<1>18. On(x, text) = y
  <2>1. text \in Seq(S)
    <3>1. /\ (pos + 1) + 1 \in Int /\ end \in Int
          /\ \A j \in ((pos + 1) + 1)..end : j \in 1..Len(js)
      BY <1>1, <1>5
    <3>2. \A j \in ((pos + 1) + 1)..end : js[j] \in S
      BY <3>1, ElementOfSeq
    <3>3. QED BY <3>1, <3>2, SubSeqProperties
  <2> HIDE DEF text
  <2>2. <<>> \o text = text
    BY <2>1, ConcatEmptySeq
  <2>3. x.type = "string" /\ x.parent = toksuper /\ x.text = <<>>
    BY DEF Thing
  <2> HIDE DEF x
  <2>4. QED BY <2>2, <2>3 DEF On
<1>19. q[end + 1] = q[end]
  <2>1. end \in (pos + 1)..end
    BY <1>1, <1>4, <1>5
  <2>2. r[end].mode \in {"key", "str"}
    BY <2>1, <1>15
  <2>3. q[end + 1] = Tell(r[end], q[end], js[end + 1])
    BY <1>1, <1>5, TaleStep
  <2>4. js[end + 1] = Mark
    BY <1>4, <1>5
  <2>5. QED BY <2>2, <2>3, <2>4 DEF Tell
<1>20. QED BY <1>3, <1>9, <1>17, <1>18, <1>19

LEMMA PrimitiveTold ==
  ASSUME ParserOK, PassInv, pass = "fill", NEW r, NEW q, NEW o, Telling(r, q, o), ~ Refuse,
         NEW S, js \in Seq(S), Primitive, NextPos(pos) <= Len(js)
  PROVE  q[NextPos(pos)] = Story(o, ShowAll(tokens'))
<1> DEFINE s == r[pos]
           c == js[pos + 1]
           end == Next1(pos, Ends)
           tok == Token("primitive", pos, end, toksuper)
           base == ShowAll(tokens)
           x == Thing("primitive", toksuper, <<c>>)
           rest == SubSeq(js, (pos + 1) + 1, end)
           text == SubSeq(js, pos + 1, end)
           y == Thing("primitive", toksuper, text)
<1>1. /\ pos \in Nat /\ pos < Len(js) /\ Len(js) \in Nat /\ toksuper \in Nat
      /\ pos \in 0..Len(js) /\ tokens \in Seq(TokenSet) /\ IsRun(r, js) /\ RunAt(r)
      /\ Tale(q, r, js)
  <2>1. /\ pos \in Nat /\ pos < Len(js) /\ Len(js) \in Nat /\ toksuper \in 0..toknext
        /\ toknext \in Nat /\ pos + 1 \in 0..Len(js) /\ pos \in 0..Len(js)
    BY InLoop DEF Primitive
  <2>2. tokens \in Seq(TokenSet) /\ IsRun(r, js) /\ RunAt(r) /\ Tale(q, r, js)
    BY DEF ParserOK, Telling, RunAt
  <2>3. QED BY <2>1, <2>2
<1>2. c \notin Opening \cup Passed \cup {Mark} /\ At = c
  BY DEF Mark, Primitive, Passed, At
<1>3. NextPos(pos) = end
  BY <1>2 DEF NextPos, At, Ends
<1>4. /\ end \in pos..Len(js)
      /\ end < Len(js) => js[end + 1] \in Ends
      /\ \A i \in pos..(end - 1) : js[i + 1] \notin Ends
  BY <1>1, Next1Finds
<1>5. Element("primitive", pos, end, end - 1)
  BY DEF Primitive, Ends
<1> HIDE DEF end
<1>6. s.mode \notin {"key", "str", "prim"}
  BY <1>1, <1>2 DEF RunAt, Ends, Passed
<1>7. WantsValue(s) /\ pos < end /\ end \in Nat
  <2>1. WantsValue(s) /\ pos < end
    BY <1>1, <1>2, <1>4, <1>6, RunPrimitive
  <2>2. QED BY <2>1, <1>1, <1>4
<1>8. r[pos + 1].mode = "prim"
  <2>1. Reads(s, c, r[pos + 1])
    BY <1>1, RunStep
  <2>2. r[pos + 1] = To(s, "prim")
    BY <2>1, <1>2, <1>6, CharKinds DEF Reads, Passed
  <2>3. QED BY <2>2 DEF To
<1>9. tokens' = WithToken(tok)
  BY <1>5 DEF Element, Continue
<1>10. tok \in TokenSet /\ Show(tok) = y
  BY <1>1, <1>7 DEF TokenSet, Token, Show
<1> HIDE DEF tok
<1>11. ShowAll(tokens') = Append(base, y)
  BY <1>9, <1>10, ShowAdded
<1>12. base \in Seq(Things(S)) /\ Len(base) = Len(tokens)
  BY <1>1, ShowsThings
<1>13. Above(s, q[pos]) = toksuper
  BY <1>1, <1>7, <1>12, AboveIs DEF Telling
<1>14. q[pos].opens = o /\ q[pos].told = base
  BY DEF Telling, Story
<1>15. q[pos + 1] = Story(o, Append(base, x))
  <2>1. q[pos + 1] = Tell(s, q[pos], c)
    BY <1>1, TaleStep
  <2>2. q[pos + 1] = Adds(q[pos], x)
    <3>1. c \notin Opening /\ c \notin Closing /\ c # Mark /\ c \notin Passed
      BY <1>2 DEF Passed
    <3> HIDE DEF s, c
    <3>2. QED BY <2>1, <3>1, <1>6, <1>13 DEF Tell
  <2> HIDE DEF x, base
  <2>3. QED BY <2>2, <1>14 DEF Adds
<1>16. ASSUME NEW i \in (pos + 1)..end
       PROVE  r[i].mode = "prim" /\ i \in Nat /\ i <= Len(js)
  <2>1. i \in Nat /\ pos + 1 \in Nat /\ pos + 1 <= i /\ i <= Len(js)
    BY <1>1, <1>4, <1>7
  <2>2. \A j \in (pos + 1)..(i - 1) : js[j + 1] \notin Ends
    BY <1>1, <1>4, <1>7
  <2>3. r[i] = r[pos + 1]
    BY <1>1, <1>8, <2>1, <2>2, RunThroughPrimitive
  <2>4. QED BY <2>1, <2>3, <1>8
<1>17. \A i \in (pos + 1)..(end - 1) : Tell(r[i], q[i], js[i + 1]) = Longer(q[i], js[i + 1])
  <2>1. ASSUME NEW i \in (pos + 1)..(end - 1)
        PROVE  Tell(r[i], q[i], js[i + 1]) = Longer(q[i], js[i + 1])
    <3>1. i \in (pos + 1)..end /\ i \in pos..(end - 1) /\ i < Len(js)
      BY <1>1, <1>4, <1>7
    <3>2. r[i].mode = "prim" /\ js[i + 1] \notin Ends /\ i \in Nat
      BY <3>1, <1>4, <1>16
    <3>3. Reads(r[i], js[i + 1], r[i + 1])
      BY <1>1, <3>1, <3>2, RunStep
    <3>4. js[i + 1] \notin Opening \cup Passed \cup {Mark}
      BY <3>2, <3>3, CharKinds DEF Reads, WantsKey, WantsValue, Ends
    <3>5. QED BY <3>2, <3>4 DEF Tell, Passed
  <2>2. QED BY <2>1
<1>18. /\ \A j \in (pos + 1)..end : j \in 1..Len(js) /\ js[j] \in S
       /\ (pos + 1) + 1 \in Int /\ end \in Int /\ c \in S
       /\ pos + 1 \in 1..Len(js) /\ end \in (pos + 1)..Len(js)
  <2>1. /\ \A j \in (pos + 1)..end : j \in 1..Len(js)
        /\ pos + 1 \in 1..Len(js) /\ end \in (pos + 1)..Len(js)
    BY <1>1, <1>4, <1>7
  <2>2. QED BY <2>1, <1>1, <1>7, ElementOfSeq
<1>19. q[end] = Story(o, Append(base, On(x, rest)))
  <2>1. x \in Things(S)
    <3>1. <<c>> \in Seq(S)
      BY <1>18
    <3> HIDE DEF c
    <3>2. QED BY <3>1, <1>1 DEF Things, Thing
  <2>2. pos + 1 \in Nat /\ pos + 1 <= end /\ end <= Len(js)
    BY <1>1, <1>4, <1>7
  <2> DEFINE a == pos + 1
  <2> HIDE DEF x, base
  <2>3. a \in Nat /\ a <= end /\ q[a] = Story(o, Append(base, x))
        /\ Lengthens(q, r, js, a, end)
    BY <2>2, <1>15, <1>17 DEF Lengthens
  <2> HIDE DEF a
  <2>4. q[end] = Story(o, Append(base, On(x, SubSeq(js, a + 1, end))))
    BY <1>1, <1>7, <1>12, <2>1, <2>2, <2>3, ToldOn
  <2>5. QED BY <2>4 DEF a
<1>20. On(x, rest) = y
  <2>1. <<c>> \o rest = text
    BY <1>18, SubSeqRecursiveFirst
  <2> HIDE DEF rest, text
  <2>2. x.type = "primitive" /\ x.parent = toksuper /\ x.text = <<c>>
    BY DEF Thing
  <2> HIDE DEF x
  <2>3. QED BY <2>1, <2>2 DEF On
<1>21. QED BY <1>3, <1>11, <1>19, <1>20

----------------------------------------------------------------------------
(* Both passes along a document, or along the beginning of one.            *)

\* The text, r being what the states of its reading are and q what it tells:
\* what is open is what the second pass has open tokens for, these tell what
\* has been read, and the keys have their values.
Along(r, q) == /\ RunAt(r) /\ Tale(q, r, js) /\ q[0] = NoTale
               /\ pass = "fill" => /\ \E o : Telling(r, q, o)
                                  /\ Keyed(tokens, r[pos].mode)

\* Only inside a name, a string or a primitive can the text end before the
\* turn does.
LEMMA EndsInside ==
  ASSUME ParserOK, PassInv, NEW r, NEW q, Along(r, q), Loop, Refuse
  PROVE  r[Len(js)].mode \in {"key", "str", "prim"}
<1>1. /\ Parsing /\ ~ AtEnd /\ pos \in Nat /\ pos < Len(js) /\ Len(js) \in Nat
      /\ pos \in 0..Len(js) /\ pos + 1 \in 0..Len(js) /\ pass' = "refused"
      /\ pass \in {"count", "fill"} /\ IsRun(r, js) /\ toksuper \in 0..toknext
      /\ RunAt(r)
      /\ pass = "fill" => \E o : Stacked(tokens, toksuper, r[pos], o)
  <2>1. Parsing /\ ~ AtEnd
    BY EachTurn
  <2>2. QED BY <2>1, InLoop DEF Refuse, RunAt, Along, Telling
<1>2. pass = "count" => ~ OpenBracket /\ ~ CloseBracket
  BY <1>1 DEF OpenBracket, CloseBracket, Continue
<1>3. pass = "fill" => ~ OpenBracket /\ ~ CloseBracket
  BY <1>1, OpenBracketStacks, CloseBracketStacks
<1>4. ~ (Colon \/ Comma \/ SkipBlank)
  BY <1>1 DEF Colon, Comma, SkipBlank, Continue
<1>5. CASE StringStarts
  <2> DEFINE end == Next1(pos + 1, {Mark})
  <2>1. At = Mark
    BY <1>5 DEF Mark, StringStarts
  <2>2. /\ end \in (pos + 1)..Len(js)
        /\ end < Len(js) => js[end + 1] = Mark
        /\ \A i \in (pos + 1)..(end - 1) : js[i + 1] # Mark
    BY <1>1, Next1Finds
  <2>3. end = Len(js)
    <3>1. ASSUME end # Len(js) PROVE FALSE
      <4>1. NextPos(pos) <= Len(js)
        <5>1. NextPos(pos) = end + 1
          BY <2>1, CharKinds DEF NextPos, At
        <5> HIDE DEF end
        <5>2. QED BY <5>1, <2>2, <3>1, <1>1
      <4>2. pass = "count"
        BY <1>1, <1>5, <4>1, StringStacks
      <4>3. Element("string", pos + 1, end, end)
        BY <1>5, <3>1 DEF Mark, StringStarts
      <4> HIDE DEF end
      <4>4. QED BY <4>2, <4>3, <1>1 DEF Element, Continue
    <3>2. QED BY <3>1
  <2>4. r[pos].mode \notin {"key", "str", "prim"}
    BY <1>1, <2>1, CharKinds DEF RunAt, Ends, Passed
  <2> HIDE DEF end
  <2>5. js[pos + 1] = Mark
    BY <2>1 DEF At
  <2>6. r[end].mode \in {"key", "str"}
    BY <1>1, <2>2, <2>3, <2>4, <2>5, RunString
  <2>7. QED BY <2>3, <2>6
<1>6. CASE Primitive
  <2> DEFINE end == Next1(pos, Ends)
             asKey == /\ pass = "fill" /\ toksuper # 0
                      /\ \/ tokens[toksuper].type = "object"
                         \/ /\ tokens[toksuper].type = "string"
                            /\ tokens[toksuper].size # 0
  <2>1. At \notin Opening \cup Passed \cup {Mark} /\ js[pos + 1] = At
    BY <1>6 DEF Mark, Primitive, Passed, At
  <2>2. /\ end \in pos..Len(js)
        /\ end < Len(js) => js[end + 1] \in Ends
        /\ \A i \in pos..(end - 1) : js[i + 1] \notin Ends
    BY <1>1, Next1Finds
  <2>3. r[pos].mode \notin {"key", "str", "prim"}
    BY <1>1, <2>1 DEF RunAt, Ends, Passed
  <2>4. /\ At \in Start /\ WantsValue(r[pos]) /\ r[end] = To(r[pos], "prim")
    <3> HIDE DEF end
    <3>1. QED BY <1>1, <2>1, <2>2, <2>3, RunPrimitive
  <2>5. end = Len(js)
    <3>1. ASSUME end # Len(js) PROVE FALSE
      <4>1. NextPos(pos) < Len(js)
        <5>1. NextPos(pos) = end
          BY <2>1 DEF NextPos, At, Ends
        <5> HIDE DEF end
        <5>2. QED BY <5>1, <2>2, <3>1, <1>1
      <4>2. pass = "count"
        BY <1>1, <1>6, <4>1, PrimitiveStacks
      <4>3. Element("primitive", pos, end, end - 1)
        BY <1>6, <2>4, <3>1, <4>2 DEF Primitive, Ends
      <4> HIDE DEF end
      <4>4. QED BY <4>2, <4>3, <1>1 DEF Element, Continue
    <3>2. QED BY <3>1
  <2> HIDE DEF end
  <2>6. QED BY <2>4, <2>5 DEF To
<1>7. QED BY <1>1, <1>2, <1>3, <1>4, <1>5, <1>6 DEF Loop

LEMMA TurnTold ==
  ASSUME ParserOK, PassInv, pass = "fill", NEW r, NEW q, NEW o, Telling(r, q, o),
         NEW S, js \in Seq(S), Loop, ~ Refuse
  PROVE  \E o2 : Telling(r, q, o2)'
<1>1. Parsing /\ ~ AtEnd /\ Turn /\ ParserOK'
  BY EachTurn, ParseStepOK DEF ParseStep, Loop
<1>2. /\ pos \in Nat /\ pos < Len(js) /\ Len(js) \in Nat /\ RunAt(r)
      /\ IsRun(r, js) /\ Tale(q, r, js) /\ Stacked(tokens, toksuper, r[pos], o)
  BY <1>1, InLoop DEF Telling, RunAt
<1>3. js' = js /\ pos' = NextPos(pos)
  BY <1>1 DEF Turn
<1>4. NextPos(pos) <= Len(js) /\ NextPos(pos) \in Nat
  BY <1>1, <1>3 DEF ParserOK
<1>5. RunAt(r)'
  <2>1. /\ r[NextPos(pos)].mode \notin {"key", "str"}
        /\ r[NextPos(pos)].mode = "prim" /\ NextPos(pos) < Len(js)
             => js[NextPos(pos) + 1] \in Ends
    BY <1>2, <1>4, TurnRuns
  <2>2. QED BY <2>1, <1>2, <1>3 DEF RunAt, IsRun, Path, At
<1>6. ASSUME At \in Opening \cup Passed
      PROVE  NextPos(pos) = pos + 1
  BY <1>6 DEF NextPos, At
<1>7. ASSUME NEW o2, Stacked(tokens', toksuper', r[pos'], o2),
             q[pos'] = Story(o2, ShowAll(tokens'))
      PROVE  \E o3 : Telling(r, q, o3)'
  <2>1. ShowAll(tokens') = ShowAll(tokens)'
    BY <1>3 DEF ShowAll, Show
  <2>2. Tale(q, r, js)'
    BY <1>2, <1>3 DEF Tale
  <2>3. Telling(r, q, o2)'
    BY <1>5, <1>7, <2>1, <2>2 DEF Telling
  <2>4. QED BY <2>3
<1>8. CASE OpenBracket
  <2>1. pos' = pos + 1
    BY <1>3, <1>6, <1>8 DEF OpenBracket
  <2>2. QED BY <2>1, <1>2, <1>7, <1>8, OpenBracketStacks, OpenBracketTold
<1>9. CASE CloseBracket
  <2>1. pos' = pos + 1
    BY <1>3, <1>6, <1>9 DEF CloseBracket, Passed
  <2>2. QED BY <2>1, <1>2, <1>7, <1>9, CloseBracketStacks, CloseBracketTold
<1>10. CASE Colon \/ Comma \/ SkipBlank
  <2>1. pos' = pos + 1
    BY <1>3, <1>6, <1>10 DEF Colon, Comma, SkipBlank, Passed
  <2>2. QED BY <2>1, <1>2, <1>7, <1>10, SeparatorStacks, SeparatorTold
<1>11. CASE StringStarts
  BY <1>2, <1>3, <1>4, <1>7, <1>11, StringStacks, StringTold
<1>12. CASE Primitive
  <2>1. At \notin Opening \cup Passed \cup {Mark}
    BY <1>12 DEF Mark, Primitive, Passed
  <2>2. NextPos(pos) = Next1(pos, Ends)
    BY <2>1 DEF NextPos, At, Ends
  <2>3. Next1(pos, Ends) # Len(js)
    BY <1>12 DEF Primitive, Ends
  <2>4. NextPos(pos) < Len(js)
    BY <2>2, <2>3, <1>2, <1>4
  <2>5. QED BY <2>4, <1>2, <1>3, <1>4, <1>7, <1>12, PrimitiveStacks, PrimitiveTold
<1>13. QED BY <1>8, <1>9, <1>10, <1>11, <1>12 DEF Loop

LEMMA TurnAlong ==
  ASSUME ParserOK, PassInv, NEW r, NEW q, Along(r, q), NEW S, js \in Seq(S),
         Loop, ~ Refuse
  PROVE  pass' = pass /\ Along(r, q)'
<1>1. Parsing /\ ~ AtEnd /\ Turn /\ ParserOK'
  BY EachTurn, ParseStepOK DEF ParseStep, Loop
<1>2. /\ pos \in Nat /\ pos < Len(js) /\ Len(js) \in Nat /\ RunAt(r)
      /\ IsRun(r, js) /\ Tale(q, r, js) /\ q[0] = NoTale
  BY <1>1, InLoop DEF Along, RunAt
<1>3. js' = js /\ pass' = pass /\ pos' = NextPos(pos)
  BY <1>1 DEF Turn
<1>4. NextPos(pos) <= Len(js) /\ NextPos(pos) \in Nat
  BY <1>1, <1>3 DEF ParserOK
<1>5. RunAt(r)'
  <2>1. /\ r[NextPos(pos)].mode \notin {"key", "str"}
        /\ r[NextPos(pos)].mode = "prim" /\ NextPos(pos) < Len(js)
             => js[NextPos(pos) + 1] \in Ends
    BY <1>2, <1>4, TurnRuns
  <2>2. QED BY <2>1, <1>2, <1>3 DEF RunAt, IsRun, Path, At
<1>6. Tale(q, r, js)'
  BY <1>2, <1>3 DEF Tale
<1>7. ASSUME pass = "fill"
      PROVE  /\ \E o : Telling(r, q, o)'
             /\ Keyed(tokens', r[pos'].mode)
  <2>1. PICK o : Telling(r, q, o)
    BY <1>7 DEF Along
  <2>2. Stacked(tokens, toksuper, r[pos], o) /\ Keyed(tokens, r[pos].mode)
    BY <1>7, <2>1 DEF Along, Telling
  <2>3. Keyed(tokens', r[pos'].mode)
    BY <1>2, <1>7, <2>2, TurnKeyed
  <2>4. \E o2 : Telling(r, q, o2)'
    BY <1>7, <2>1, TurnTold
  <2>5. QED BY <2>3, <2>4
<1>8. QED BY <1>2, <1>3, <1>5, <1>6, <1>7 DEF Along

\* The passes over a document find tokens, those over nothing find none.
LEMMA FindsTokens ==
  ASSUME ParserOK, PassInv, Parsing, AtEnd, NEW r, IsRun(r, js)
  PROVE  count <= 0 <=> r[Len(js)].mode = "start"
<1>1. /\ Len(js) \in Nat /\ pos = Len(js) /\ count \in Nat
      /\ count = Cardinality(StartsBefore(Len(js)))
  BY DEF ParserOK, PassInv, AtEnd
<1>2. CASE Len(js) = 0
  BY <1>1, <1>2, StartOfPass DEF IsRun
<1>3. CASE Len(js) # 0
  <2>1. Len(js) \in 1..Len(js)
    BY <1>1, <1>3
  <2>2. r[Len(js)].mode # "start" /\ js[1] \in Opening
    BY <1>1, <2>1, RunLeavesStart
  <2>3. Starts(0)
    <3>1. js[0 + 1] \in Opening
      BY <2>2
    <3>2. js[0 + 1] \notin Passed
      BY <3>1, CharKinds
    <3>3. QED BY <3>2 DEF Starts
  <2>4. 0 \in StartsBefore(Len(js))
    BY <1>1, <1>3, <2>3, VisitedFollows DEF StartsBefore, Follows
  <2>5. IsFiniteSet(StartsBefore(Len(js)))
    BY <1>1, StartsBeforeFinite
  <2>6. Cardinality(StartsBefore(Len(js))) # 0
    BY <2>4, <2>5, FS_EmptySet
  <2>7. QED BY <1>1, <2>2, <2>6
<1>4. QED BY <1>2, <1>3

\* What is left open in the text is left open among the tokens.
LEMMA OpenAtEnd ==
  ASSUME ParserOK, NEW s \in States, NEW o, Stacked(tokens, toksuper, s, o)
  PROVE  (\E i \in 1..toknext : IsOpen(tokens[i])) <=> s.mode \notin {"start", "end"}
<1>1. /\ o \in Seq(Nat) /\ Len(o) = Len(s.stack) /\ toknext = Len(tokens)
      /\ \A j \in 1..Len(o) : o[j] \in 1..Len(tokens) /\ IsOpen(tokens[o[j]])
      /\ \A k \in 1..Len(tokens) : IsOpen(tokens[k]) => \E j \in 1..Len(o) : o[j] = k
  BY DEF Stacked, Nested, toknext
<1>2. /\ s.stack \in Seq({"object", "array"})
      /\ s.stack = <<>> <=> s.mode \in {"start", "end"}
  BY DEF States
<1>3. Len(o) \in Nat /\ (Len(o) = 0 <=> s.stack = <<>>)
  BY <1>1, <1>2, EmptySeq, LenProperties
<1>4. CASE Len(o) = 0
  BY <1>1, <1>2, <1>3, <1>4
<1>5. CASE Len(o) # 0
  <2>1. 1 \in 1..Len(o)
    BY <1>3, <1>5
  <2>2. o[1] \in 1..toknext /\ IsOpen(tokens[o[1]])
    BY <1>1, <2>1
  <2>3. QED BY <2>2, <1>2, <1>3, <1>5
<1>6. QED BY <1>4, <1>5

\* A step of either pass stays along the text, accepts a document, or
\* refuses what is none, or what there is no memory for.
LEMMA StepAlong ==
  ASSUME ParserOK, PassInv, NEW r, NEW q, Along(r, q), NEW S, js \in Seq(S),
         ParseStep
  PROVE  \/ pass' \in {"count", "fill"} /\ Along(r, q)'
         \/ /\ pass' = "ready" /\ r[Len(js)].mode = "end" /\ Keyed(tokens', "end")
            /\ js' = js /\ ShowAll(tokens)' = q[Len(js)].told
         \/ pass' = "refused" /\ (r[Len(js)].mode # "end" \/ NoTokens)
<1>1. CASE Loop
  <2>1. CASE Refuse
    BY <1>1, <2>1, EndsInside DEF Refuse
  <2>2. CASE ~ Refuse
    <3>1. pass \in {"count", "fill"}
      BY <1>1, EachTurn DEF Parsing
    <3>2. QED BY <1>1, <2>2, <3>1, TurnAlong
  <2>3. QED BY <2>1, <2>2
<1>2. IsRun(r, js) /\ Len(js) \in Nat /\ r[0].mode = "start" /\ r[0] \in States
      /\ r[Len(js)] \in States
  <2>1. IsRun(r, js) /\ Len(js) \in Nat
    BY DEF Along, RunAt, ParserOK
  <2>2. 0 \in 0..Len(js) /\ Len(js) \in 0..Len(js)
    BY <2>1
  <2>3. QED BY <2>1, <2>2 DEF IsRun, Path
<1>3. CASE Counted
  <2>1. pass = "count" /\ AtEnd /\ Parsing
    BY <1>3 DEF Counted, Parsing
  <2>2. CASE count <= 0
    <3>1. pass' = "refused"
      BY <1>3, <2>2 DEF Counted, Refuse
    <3>2. QED BY <3>1, <2>1, <2>2, <1>2, FindsTokens
  <2>3. CASE ~ (count <= 0)
    <3>1. /\ js' = js /\ tokens' = tokens /\ pass' = "fill" /\ pos' = 0 /\ toksuper' = 0
      BY <1>3, <2>3 DEF Counted
    <3>2. tokens = <<>> /\ Len(<<>>) = 0 /\ <<>> \in Seq(Nat)
      BY <2>1, EmptySeq DEF ParserOK
    <3>3. r[0].stack = <<>>
      BY <1>2 DEF States
    <3>4. Stacked(<<>>, 0, r[0], <<>>)
      BY <3>2, <3>3, <1>2 DEF Stacked, Nested, Superior
    <3>5. RunAt(r)'
      BY <3>1, <1>2 DEF RunAt, IsRun, Path
    <3>6. Stacked(tokens', toksuper', r[pos'], <<>>)
      BY <3>1, <3>2, <3>4
    <3>7. Keyed(tokens', r[pos'].mode)
      BY <3>1, <3>2 DEF Keyed
    <3>8. Tale(q, r, js)' /\ q[0] = NoTale
      BY <3>1 DEF Tale, Along
    <3>9. Telling(r, q, <<>>)'
      <4>1. ShowAll(tokens)' = <<>>
        BY <3>1, <3>2 DEF ShowAll
      <4>2. QED BY <3>1, <3>5, <3>6, <3>8, <4>1 DEF Telling, NoTale
    <3>10. QED BY <3>1, <3>5, <3>7, <3>8, <3>9 DEF Along
  <2>4. QED BY <2>2, <2>3
<1>4. CASE NoTokens
  BY <1>4 DEF NoTokens, Refuse
<1>5. CASE Tokenized
  <2>1. pass = "fill" /\ AtEnd /\ Parsing /\ pos = Len(js)
    BY <1>5 DEF Tokenized, Parsing, AtEnd, ParserOK
  <2>2. PICK o : Telling(r, q, o)
    BY <2>1 DEF Along
  <2>3. (\E i \in 1..toknext : IsOpen(tokens[i]))
           <=> r[Len(js)].mode \notin {"start", "end"}
    BY <2>1, <2>2, <1>2, OpenAtEnd DEF Telling
  <2>4. count <= 0 <=> r[Len(js)].mode = "start"
    BY <2>1, <1>2, FindsTokens
  <2>5. pass' = IF count <= 0 \/ \E i \in 1..toknext : IsOpen(tokens[i])
                THEN "refused" ELSE "ready"
    BY <1>5 DEF Tokenized, Refuse
  <2>6. pass' = "ready" /\ r[Len(js)].mode = "end"
          => Keyed(tokens', "end") /\ js' = js /\ ShowAll(tokens)' = q[Len(js)].told
    <3>1. Keyed(tokens, r[Len(js)].mode)
      BY <2>1 DEF Along
    <3>2. pass' = "ready" => tokens' = tokens /\ js' = js
      BY <1>5 DEF Tokenized, Refuse
    <3>3. q[Len(js)].told = ShowAll(tokens)
      BY <2>1, <2>2 DEF Telling, Story
    <3>4. pass' = "ready" => ShowAll(tokens)' = ShowAll(tokens)
      BY <3>2 DEF ShowAll, Show
    <3>5. QED BY <3>1, <3>2, <3>3, <3>4
  <2>7. QED BY <2>3, <2>4, <2>5, <2>6
<1>6. QED BY <1>1, <1>3, <1>4, <1>5 DEF ParseStep, Loop

----------------------------------------------------------------------------
(* The walk over the tokens.                                               *)

Arranged == ParserOK /\ Sized(tokens) /\ Preorder(tokens)

\* The tokens from i to e are token i with all that lies in it.
Lies(i, e) == /\ e \in i..toknext
              /\ \A k \in (i + 1)..e : i <= tokens[k].parent
              /\ e < toknext => tokens[e + 1].parent < i
LastIn(i) == CHOOSE e : Lies(i, e)

LEMMA LastLies ==
  ASSUME ParserOK, NEW i \in 1..toknext
  PROVE  Lies(i, LastIn(i))
<1> DEFINE T == {k \in (i + 1)..toknext : tokens[k].parent < i}
<1>1. /\ toknext \in Nat /\ i \in Nat /\ i <= toknext
      /\ \A k \in 1..toknext : tokens[k].parent \in Nat
  BY ParentsBefore DEF ParserOK
<1>2. CASE T = {}
  <2>1. ASSUME NEW k \in (i + 1)..toknext PROVE i <= tokens[k].parent
    <3>1. ~ (tokens[k].parent < i)
      BY <1>2
    <3>2. tokens[k].parent \in Nat
      BY <1>1
    <3>3. QED BY <3>1, <3>2, <1>1
  <2>2. Lies(i, toknext)
    BY <1>1, <2>1 DEF Lies
  <2>3. QED BY <2>2 DEF LastIn
<1>3. CASE T # {}
  <2>1. T \subseteq Nat
    BY <1>1
  <2> HIDE DEF T
  <2>2. PICK e \in T : \A y \in T : e <= y
    BY <2>1, <1>3, LeastOf
  <2>3. e \in (i + 1)..toknext /\ tokens[e].parent < i
    BY DEF T
  <2>4. ASSUME NEW k \in (i + 1)..(e - 1) PROVE i <= tokens[k].parent
    <3>1. k \in (i + 1)..toknext /\ ~ (e <= k)
      BY <2>3, <1>1
    <3>2. ~ (tokens[k].parent < i)
      BY <3>1, <2>2 DEF T
    <3>3. QED BY <3>1, <3>2, <1>1
  <2>5. Lies(i, e - 1)
    BY <1>1, <2>3, <2>4, (e - 1) + 1 = e DEF Lies
  <2>6. QED BY <2>5 DEF LastIn
<1>4. QED BY <1>2, <1>3

\* The children of i lie in it.  The first comes right after it.
LEMMA KidsWithin ==
  ASSUME Arranged, NEW i \in 1..toknext
  PROVE  /\ LastIn(i) \in i..toknext
         /\ \A k \in Kids(tokens, i) : k \in (i + 1)..LastIn(i)
         /\ i < LastIn(i) => i + 1 \in Kids(tokens, i)
<1>1. /\ toknext \in Nat /\ toknext = Len(tokens)
      /\ \A k \in 1..toknext : tokens[k].parent \in Nat /\ tokens[k].parent < k
      /\ Lies(i, LastIn(i))
  BY ParentsBefore, LastLies DEF Arranged, ParserOK, toknext
<1> DEFINE e == LastIn(i)
<1>2. e \in i..toknext
  BY <1>1 DEF Lies
<1> HIDE DEF e
<1>3. ASSUME NEW k \in Kids(tokens, i) PROVE k \in (i + 1)..e
  <2>1. k \in 1..toknext /\ tokens[k].parent = i
    BY <1>1 DEF Kids
  <2>2. i < k
    BY <1>1, <2>1
  <2>3. ASSUME e < k PROVE FALSE
    <3>1. e + 1 \in 1..toknext /\ tokens[e + 1].parent < i /\ i < e + 1 /\ e + 1 <= k
      BY <1>1, <1>2, <2>1, <2>3 DEF Lies, e
    <3>2. tokens[k].parent < i \/ e + 1 <= tokens[k].parent
      BY <3>1, <2>1, <1>1 DEF Arranged, Preorder
    <3>3. QED BY <3>1, <3>2, <2>1
  <2>4. QED BY <1>2, <2>1, <2>2, <2>3
<1>4. ASSUME i < e PROVE i + 1 \in Kids(tokens, i)
  <2>1. i + 1 \in (i + 1)..e /\ i + 1 \in 1..toknext
    BY <1>1, <1>2, <1>4
  <2>2. i <= tokens[i + 1].parent
    BY <2>1, <1>1 DEF Lies, e
  <2>3. tokens[i + 1].parent = i
    BY <2>1, <2>2, <1>1
  <2>4. QED BY <2>1, <2>3, <1>1 DEF Kids
<1>5. QED BY <1>2, <1>3, <1>4 DEF e

\* After a child with all that lies in it comes the next child.
LEMMA NextKid ==
  ASSUME Arranged, NEW i \in 1..toknext, NEW c \in Kids(tokens, i)
  PROVE  /\ c \in 1..toknext /\ LastIn(c) \in c..LastIn(i)
         /\ LastIn(c) < LastIn(i) => LastIn(c) + 1 \in Kids(tokens, i)
         /\ \A k \in (c + 1)..LastIn(c) : k \notin Kids(tokens, i)
<1> DEFINE e == LastIn(i)
           d == LastIn(c)
<1>1. /\ toknext \in Nat /\ toknext = Len(tokens)
      /\ \A k \in 1..toknext : tokens[k].parent \in Nat /\ tokens[k].parent < k
      /\ Lies(i, e) /\ c \in 1..toknext /\ tokens[c].parent = i /\ i < c
  BY ParentsBefore, LastLies DEF Arranged, ParserOK, toknext, Kids
<1>2. Lies(c, d) /\ c \in (i + 1)..e /\ e \in i..toknext
  BY <1>1, LastLies, KidsWithin DEF Arranged
<1>3. d \in c..toknext
  BY <1>2 DEF Lies
<1> HIDE DEF e, d
<1>4. d <= e
  <2>1. ASSUME e < d PROVE FALSE
    <3>1. e + 1 \in (c + 1)..d /\ e < toknext
      BY <1>1, <1>2, <1>3, <2>1
    <3>2. tokens[e + 1].parent < i /\ c <= tokens[e + 1].parent
      BY <3>1, <1>1, <1>2 DEF Lies
    <3>3. e + 1 \in 1..toknext
      BY <1>1, <3>1, <1>2
    <3>4. QED BY <3>2, <3>3, <1>1
  <2>2. QED BY <2>1, <1>2, <1>3
<1>5. ASSUME d < e PROVE d + 1 \in Kids(tokens, i)
  <2> DEFINE p == tokens[d + 1].parent
  <2>1. d + 1 \in 1..toknext /\ d + 1 \in (i + 1)..e /\ d < toknext /\ c <= d + 1
    BY <1>1, <1>2, <1>3, <1>5
  <2>2. p < c /\ i <= p /\ p \in Nat
    BY <2>1, <1>1, <1>2 DEF Lies
  <2> HIDE DEF p
  <2>3. ASSUME i < p PROVE FALSE
    <3>1. p \in 1..Len(tokens) /\ c \in 1..Len(tokens) /\ d + 1 \in 1..Len(tokens)
      BY <2>1, <2>2, <1>1
    <3>2. p < p \/ c <= p
      BY <3>1, <2>1, <2>2, <2>3, <1>1 DEF Arranged, Preorder, p
    <3>3. QED BY <3>2, <2>2, <1>1
  <2>4. p = i
    BY <2>2, <2>3
  <2>5. QED BY <2>1, <2>4, <1>1 DEF Kids, p
<1>6. ASSUME NEW k \in (c + 1)..d PROVE k \notin Kids(tokens, i)
  BY <1>1, <1>2 DEF Lies, Kids
<1>7. QED BY <1>1, <1>3, <1>4, <1>5, <1>6 DEF e, d

\* The first k children of i, with all that lies in them, end at x.
Past(i, k, x) == /\ x \in i..LastIn(i)
                 /\ Cardinality(Kids(tokens, i) \cap (1..x)) = k
                 /\ x < LastIn(i) => x + 1 \in Kids(tokens, i)

LEMMA PastFinite ==
  ASSUME ParserOK, NEW i, NEW x
  PROVE  IsFiniteSet(Kids(tokens, i) \cap (1..x))
<1>1. IsFiniteSet(Kids(tokens, i))
  BY KidsFinite DEF ParserOK, toknext
<1>2. QED BY <1>1, FS_Subset

LEMMA PastFirst ==
  ASSUME Arranged, NEW i \in 1..toknext
  PROVE  Past(i, 0, i)
<1>1. toknext \in Nat /\ LastIn(i) \in i..toknext
  BY KidsWithin DEF Arranged, ParserOK
<1>2. Kids(tokens, i) \cap (1..i) = {}
  BY <1>1, KidsWithin
<1>3. Cardinality(Kids(tokens, i) \cap (1..i)) = 0
  BY <1>2, FS_EmptySet
<1>4. i \in i..LastIn(i)
  BY <1>1
<1>5. i < LastIn(i) => i + 1 \in Kids(tokens, i)
  BY KidsWithin
<1>6. QED BY <1>3, <1>4, <1>5 DEF Past

LEMMA PastNext ==
  ASSUME Arranged, NEW i \in 1..toknext, NEW k \in Nat, NEW x, Past(i, k, x),
         k < tokens[i].size
  PROVE  x + 1 \in Kids(tokens, i) /\ Past(i, k + 1, LastIn(x + 1))
<1> DEFINE K == Kids(tokens, i)
           y == LastIn(x + 1)
<1>1. /\ toknext \in Nat /\ toknext = Len(tokens) /\ LastIn(i) \in i..toknext
      /\ ParserOK /\ x \in i..LastIn(i) /\ x \in Nat
  BY KidsWithin DEF Arranged, ParserOK, Past, toknext
<1>2. x + 1 \in K
  <2>1. ASSUME x = LastIn(i) PROVE FALSE
    <3>1. \A c \in K : c \in 1..x
      BY <1>1, <2>1, KidsWithin
    <3>2. K \cap (1..x) = K
      BY <3>1
    <3>3. Cardinality(K) = tokens[i].size
      BY <1>1 DEF Arranged, Sized
    <3>4. Cardinality(K) = k
      BY <3>2 DEF Past
    <3>5. QED BY <3>3, <3>4
  <2>2. QED BY <2>1, <1>1 DEF Past
<1>3. /\ y \in (x + 1)..LastIn(i)
      /\ y < LastIn(i) => y + 1 \in K
      /\ \A c \in (x + 2)..y : c \notin K
  <2>1. (x + 1) + 1 = x + 2
    BY <1>1
  <2>2. QED BY <1>2, <2>1, NextKid
<1> HIDE DEF y
<1>4. \A c : c \in 1..y <=> c \in 1..x \/ c = x + 1 \/ c \in (x + 2)..y
  BY <1>1, <1>3
<1>5. K \cap (1..y) = (K \cap (1..x)) \cup {x + 1}
  <2> HIDE DEF K
  <2>1. QED BY <1>2, <1>3, <1>4
<1>6. x + 1 \notin K \cap (1..x)
  BY <1>1
<1>7. Cardinality(K \cap (1..y)) = k + 1
  <2>1. IsFiniteSet(K \cap (1..x)) /\ Cardinality(K \cap (1..x)) = k
    BY <1>1, PastFinite DEF Past
  <2> HIDE DEF K
  <2>2. QED BY <1>5, <1>6, <2>1, FS_AddElement
<1>8. y \in i..LastIn(i)
  BY <1>1, <1>3
<1>9. QED BY <1>2, <1>3, <1>7, <1>8 DEF Past, y

\* The last of them ends where i does.
LEMMA PastEnd ==
  ASSUME Arranged, NEW i \in 1..toknext, NEW x, Past(i, tokens[i].size, x)
  PROVE  x = LastIn(i)
<1> DEFINE K == Kids(tokens, i)
<1>1. /\ toknext \in Nat /\ toknext = Len(tokens) /\ LastIn(i) \in i..toknext
      /\ ParserOK /\ x \in i..LastIn(i) /\ x \in Nat
      /\ Cardinality(K) = tokens[i].size /\ Cardinality(K \cap (1..x)) = tokens[i].size
  BY KidsWithin DEF Arranged, ParserOK, Past, toknext, Sized
<1>2. IsFiniteSet(K) /\ K \cap (1..x) \in SUBSET K
  BY <1>1, KidsFinite
<1>3. K \cap (1..x) = K
  BY <1>1, <1>2, FS_Subset
<1>4. x + 1 \notin K
  BY <1>1, <1>3
<1>5. QED BY <1>1, <1>4 DEF Past

\* There is only one such place.
LEMMA PastLess ==
  ASSUME Arranged, NEW i \in 1..toknext, NEW k, NEW x, Past(i, k, x),
         NEW y, Past(i, k, y)
  PROVE  ~ (x < y)
<1> DEFINE K == Kids(tokens, i)
           X == K \cap (1..x)
           Y == K \cap (1..y)
<1>1. /\ ParserOK /\ LastIn(i) \in i..toknext
      /\ x \in i..LastIn(i) /\ y \in i..LastIn(i)
      /\ Cardinality(X) = k /\ Cardinality(Y) = k
  BY KidsWithin DEF Arranged, Past
<1>2. IsFiniteSet(Y)
  BY <1>1, PastFinite
<1>3. ASSUME x < y PROVE FALSE
  <2>1. x + 1 \in K
    BY <1>1, <1>3 DEF Past
  <2>2. x + 1 \in Y /\ x + 1 \notin X
    BY <2>1, <1>1, <1>3
  <2>3. X \in SUBSET Y
    BY <1>1, <1>3
  <2>4. X = Y
    BY <1>1, <1>2, <2>3, FS_Subset
  <2>5. QED BY <2>2, <2>4
<1>4. QED BY <1>3

LEMMA PastOne ==
  ASSUME Arranged, NEW i \in 1..toknext, NEW k, NEW x, Past(i, k, x),
         NEW y, Past(i, k, y)
  PROVE  x = y
<1>1. ~ (x < y) /\ ~ (y < x)
  BY PastLess
<1>2. LastIn(i) \in i..toknext /\ x \in i..LastIn(i) /\ y \in i..LastIn(i)
  BY KidsWithin DEF Past
<1>3. QED BY <1>1, <1>2

\* What json_skip_elem does with token i, once it is right about the later
\* ones.
SkipStep(f, i) ==
    LET past[k \in 0..tokens[i].size] == IF k = 0 THEN i ELSE f[past[k - 1] + 1]
    IN  past[tokens[i].size]

LEMMA PastEach ==
  ASSUME Arranged, NEW i \in 1..toknext, NEW k \in Nat, k <= tokens[i].size
  PROVE  \E x : Past(i, k, x)
<1> DEFINE S == {j \in Nat : j <= tokens[i].size => \E x : Past(i, j, x)}
<1>1. tokens[i].size \in Nat
  BY ParentsBefore DEF Arranged, TokenSet
<1>2. 0 \in S
  BY PastFirst
<1>3. ASSUME NEW j \in Nat, j \in S PROVE j + 1 \in S
  <2>1. ASSUME j + 1 <= tokens[i].size PROVE \E x : Past(i, j + 1, x)
    <3>1. j <= tokens[i].size /\ j < tokens[i].size
      BY <1>1, <2>1
    <3>2. PICK x : Past(i, j, x)
      BY <1>3, <3>1
    <3>3. QED BY <3>1, <3>2, PastNext
  <2>2. QED BY <2>1
<1>4. k \in S
  <2> HIDE DEF S
  <2>1. QED BY <1>2, <1>3, SetInduction
<1>5. QED BY <1>4

LEMMA SkipAt ==
  ASSUME Arranged, NEW i \in 1..toknext, NEW f,
         \A c \in (i + 1)..toknext : f[c] = LastIn(c)
  PROVE  SkipStep(f, i) = LastIn(i)
<1> DEFINE size == tokens[i].size
           Walk(p) == p = [k \in 0..size |-> IF k = 0 THEN i ELSE f[p[k - 1] + 1]]
           past == CHOOSE p : Walk(p)
           p0 == [k \in 0..size |-> CHOOSE x : Past(i, k, x)]
<1>1. SkipStep(f, i) = past[size]
  BY DEF SkipStep
<1>2. size \in Nat /\ toknext \in Nat
  BY ParentsBefore DEF Arranged, TokenSet, ParserOK
<1> HIDE DEF size
<1>3. \A k \in 0..size : Past(i, k, p0[k])
  <2>1. ASSUME NEW k \in 0..size PROVE Past(i, k, p0[k])
    <3>1. k \in Nat /\ k <= size
      BY <1>2
    <3>2. \E x : Past(i, k, x)
      BY <3>1, PastEach DEF size
    <3>3. QED BY <3>2
  <2>2. QED BY <2>1
\* One step of the walk, from where it should be.
<1>4. ASSUME NEW k \in 0..size, k # 0, NEW x, Past(i, k - 1, x)
      PROVE  Past(i, k, f[x + 1])
  <2>1. k - 1 \in Nat /\ k - 1 < tokens[i].size /\ (k - 1) + 1 = k
    BY <1>2, <1>4 DEF size
  <2>2. x + 1 \in Kids(tokens, i) /\ Past(i, k, LastIn(x + 1))
    BY <2>1, <1>4, PastNext
  <2>3. x + 1 \in (i + 1)..toknext
    <3>1. x + 1 \in (i + 1)..LastIn(i) /\ LastIn(i) \in i..toknext
      BY <2>2, KidsWithin
    <3>2. QED BY <3>1, <1>2
  <2>4. QED BY <2>2, <2>3
<1>5. Walk(p0)
  <2>1. ASSUME NEW k \in 0..size
        PROVE  p0[k] = IF k = 0 THEN i ELSE f[p0[k - 1] + 1]
    <3>1. CASE k = 0
      <4>1. Past(i, k, p0[k]) /\ Past(i, k, i)
        BY <1>3, <3>1, PastFirst
      <4> HIDE DEF p0
      <4>2. p0[k] = i
        BY <4>1, PastOne
      <4>3. QED BY <4>2, <3>1
    <3>2. CASE k # 0
      <4>1. k - 1 \in 0..size
        BY <1>2, <3>2
      <4>2. Past(i, k - 1, p0[k - 1]) /\ Past(i, k, p0[k])
        BY <1>3, <4>1
      <4> HIDE DEF p0
      <4>3. Past(i, k, f[p0[k - 1] + 1])
        BY <1>4, <3>2, <4>2
      <4>4. p0[k] = f[p0[k - 1] + 1]
        BY <4>2, <4>3, PastOne
      <4>5. QED BY <4>4, <3>2
    <3>3. QED BY <3>1, <3>2
  <2>2. p0 = [k \in 0..size |-> IF k = 0 THEN i ELSE f[p0[k - 1] + 1]]
    <3>1. p0 = [k \in 0..size |-> p0[k]]
      OBVIOUS
    <3> HIDE DEF p0
    <3>2. QED BY <2>1, <3>1
  <2>3. QED BY <2>2
<1>6. Walk(past)
  <2> HIDE DEF p0, Walk
  <2>1. QED BY <1>5
<1> HIDE DEF past
<1> DEFINE S == {k \in Nat : k <= size => Past(i, k, past[k])}
<1>7. 0 \in S
  <2>1. 0 \in 0..size
    BY <1>2
  <2>2. past[0] = i
    BY <1>6, <2>1
  <2>3. QED BY <2>2, PastFirst
<1>8. ASSUME NEW k \in Nat, k \in S PROVE k + 1 \in S
  <2>1. ASSUME k + 1 <= size PROVE Past(i, k + 1, past[k + 1])
    <3>1. k <= size /\ k + 1 \in 0..size /\ (k + 1) - 1 = k /\ k + 1 # 0
      BY <1>2, <2>1
    <3>2. past[k + 1] = f[past[k] + 1]
      BY <1>6, <3>1
    <3>3. Past(i, (k + 1) - 1, past[k])
      BY <1>8, <3>1
    <3>4. QED BY <1>4, <3>1, <3>2, <3>3
  <2>2. QED BY <2>1
<1>9. size \in S
  <2> HIDE DEF S
  <2>1. QED BY <1>2, <1>7, <1>8, SetInduction
<1>10. Past(i, tokens[i].size, past[size])
  BY <1>2, <1>9 DEF size
<1>11. QED BY <1>1, <1>10, PastEnd

\* json_skip_elem ends at the last token of the element.
LEMMA Skips ==
  ASSUME Arranged
  PROVE  \A i \in 1..toknext : json_skip_elem[i] = LastIn(i)
<1> DEFINE n == toknext
           Skip(f) == f = [i \in 1..n |-> SkipStep(f, i)]
           f0 == [i \in 1..n |-> LastIn(i)]
           skip == CHOOSE f : Skip(f)
<1>1. n \in Nat
  BY DEF Arranged, ParserOK
<1>2. json_skip_elem = skip
  BY DEF json_skip_elem, SkipStep
<1>3. Skip(f0)
  <2>1. ASSUME NEW i \in 1..n PROVE f0[i] = SkipStep(f0, i)
    <3>1. \A c \in (i + 1)..n : f0[c] = LastIn(c)
      BY <1>1
    <3>2. f0[i] = LastIn(i)
      OBVIOUS
    <3> HIDE DEF f0
    <3>3. QED BY <3>1, <3>2, SkipAt
  <2>2. QED BY <2>1
<1>4. Skip(skip)
  <2> HIDE DEF Skip, f0
  <2>1. QED BY <1>3
<1> HIDE DEF skip
<1> DEFINE S == {m \in Nat : \A i \in 1..n : n - i < m => skip[i] = LastIn(i)}
<1>5. 0 \in S
  BY <1>1
<1>6. ASSUME NEW m \in Nat, m \in S PROVE m + 1 \in S
  <2>1. ASSUME NEW i \in 1..n, n - i < m + 1 PROVE skip[i] = LastIn(i)
    <3>1. \A c \in (i + 1)..n : c \in 1..n /\ n - c < m
      BY <1>1, <2>1
    <3>2. \A c \in (i + 1)..n : skip[c] = LastIn(c)
      BY <3>1, <1>6
    <3>3. SkipStep(skip, i) = LastIn(i)
      BY <3>2, SkipAt
    <3>4. QED BY <3>3, <1>4
  <2>2. QED BY <2>1
<1>7. n \in S
  <2> HIDE DEF S
  <2>1. QED BY <1>1, <1>5, <1>6, SetInduction
<1>8. \A i \in 1..n : skip[i] = LastIn(i)
  BY <1>1, <1>7
<1>9. QED BY <1>2, <1>8

\* Elements holds the children of cur, in order.
LEMMA ElementsAre ==
  ASSUME Arranged, cur \in 1..toknext
  PROVE  /\ Elements \in Seq(Kids(tokens, cur)) /\ Len(Elements) = tokens[cur].size
         /\ \A k \in 1..tokens[cur].size : Past(cur, k - 1, Elements[k] - 1)
<1> DEFINE size == tokens[cur].size
           Each(h) == h = [k \in 1..size |-> IF k = 1 THEN cur + 1
                                              ELSE json_skip_elem[h[k - 1]] + 1]
           nth == CHOOSE h : Each(h)
           n0 == [k \in 1..size |-> (CHOOSE x : Past(cur, k - 1, x)) + 1]
<1>1. Elements = nth
  BY DEF Elements
<1>2. size \in Nat /\ toknext \in Nat
  BY ParentsBefore DEF Arranged, TokenSet, ParserOK
<1> HIDE DEF size
<1>3. \A x \in Nat : (x + 1) - 1 = x
  OBVIOUS
<1>4. ASSUME NEW k \in 1..size
      PROVE  \E x \in Nat : Past(cur, k - 1, x)
  <2>1. k - 1 \in Nat /\ k - 1 <= tokens[cur].size
    BY <1>2 DEF size
  <2>2. PICK x : Past(cur, k - 1, x)
    BY <2>1, PastEach
  <2>3. LastIn(cur) \in cur..toknext /\ x \in cur..LastIn(cur)
    BY <2>2, KidsWithin DEF Past
  <2>4. x \in Nat
    BY <2>3, <1>2
  <2>5. QED BY <2>2, <2>4
<1>5. ASSUME NEW k \in 1..size
      PROVE  n0[k] \in Nat /\ Past(cur, k - 1, n0[k] - 1)
  <2>1. PICK x \in Nat : Past(cur, k - 1, x)
    BY <1>4
  <2>2. (CHOOSE y : Past(cur, k - 1, y)) = x
    <3>1. Past(cur, k - 1, CHOOSE y : Past(cur, k - 1, y))
      BY <2>1
    <3>2. QED BY <2>1, <3>1, PastOne
  <2>3. n0[k] = x + 1
    BY <2>2
  <2> HIDE DEF n0
  <2>4. QED BY <2>1, <2>3, <1>3
\* One step along the elements.
<1>6. ASSUME NEW k \in 1..size, k # 1, NEW x \in Nat, Past(cur, (k - 1) - 1, x - 1)
      PROVE  Past(cur, k - 1, json_skip_elem[x])
  <2>1. (k - 1) - 1 \in Nat /\ (k - 1) - 1 < tokens[cur].size /\ ((k - 1) - 1) + 1 = k - 1
        /\ (x - 1) + 1 = x
    BY <1>2, <1>6 DEF size
  <2>2. x \in Kids(tokens, cur) /\ Past(cur, k - 1, LastIn(x))
    BY <2>1, <1>6, PastNext
  <2>3. x \in 1..toknext
    BY <2>2 DEF Kids, toknext
  <2>4. QED BY <2>2, <2>3, Skips
<1>7. Each(n0)
  <2>1. ASSUME NEW k \in 1..size
        PROVE  n0[k] = IF k = 1 THEN cur + 1 ELSE json_skip_elem[n0[k - 1]] + 1
    <3>1. n0[k] \in Nat /\ Past(cur, k - 1, n0[k] - 1)
      BY <1>5
    <3>2. CASE k = 1
      <4>1. Past(cur, k - 1, cur)
        BY <3>2, PastFirst
      <4> HIDE DEF n0
      <4>2. n0[k] - 1 = cur
        BY <3>1, <4>1, PastOne
      <4>3. QED BY <3>1, <3>2, <4>2
    <3>3. CASE k # 1
      <4>1. k - 1 \in 1..size
        BY <1>2, <3>3
      <4>2. n0[k - 1] \in Nat /\ Past(cur, (k - 1) - 1, n0[k - 1] - 1)
        BY <1>5, <4>1
      <4> HIDE DEF n0
      <4>3. Past(cur, k - 1, json_skip_elem[n0[k - 1]])
        BY <1>6, <3>3, <4>2
      <4>4. n0[k] - 1 = json_skip_elem[n0[k - 1]]
        BY <3>1, <4>3, PastOne
      <4>5. QED BY <3>1, <3>3, <4>4
    <3>4. QED BY <3>2, <3>3
  <2>2. n0 = [k \in 1..size |-> n0[k]]
    OBVIOUS
  <2> HIDE DEF n0
  <2>3. QED BY <2>1, <2>2
<1>8. Each(nth)
  <2> HIDE DEF n0, Each
  <2>1. QED BY <1>7
<1> HIDE DEF nth, n0
<1> DEFINE S == {k \in Nat : k + 1 \in 1..size =>
                    nth[k + 1] \in Nat /\ Past(cur, k, nth[k + 1] - 1)}
<1>9. 0 \in S
  <2>1. ASSUME 1 \in 1..size PROVE nth[1] = cur + 1
    BY <1>8, <2>1
  <2>2. (cur + 1) - 1 = cur /\ cur + 1 \in Nat
    BY <1>2
  <2>3. QED BY <2>1, <2>2, PastFirst
<1>10. ASSUME NEW k \in Nat, k \in S PROVE k + 1 \in S
  <2>1. ASSUME (k + 1) + 1 \in 1..size
        PROVE  /\ nth[(k + 1) + 1] \in Nat
               /\ Past(cur, k + 1, nth[(k + 1) + 1] - 1)
    <3> DEFINE x == nth[k + 1]
    <3>1. k + 1 \in 1..size /\ (k + 1) + 1 # 1 /\ ((k + 1) + 1) - 1 = k + 1
          /\ (k + 1) - 1 = k
      BY <1>2, <2>1
    <3>2. x \in Nat /\ Past(cur, k, x - 1)
      BY <1>10, <3>1
    <3>3. nth[(k + 1) + 1] = json_skip_elem[x] + 1
      <4>1. \A j \in 1..size : nth[j] = IF j = 1 THEN cur + 1
                                        ELSE json_skip_elem[nth[j - 1]] + 1
        BY <1>8
      <4>2. nth[(k + 1) + 1] = json_skip_elem[nth[((k + 1) + 1) - 1]] + 1
        BY <4>1, <2>1, <3>1
      <4>3. QED BY <4>2, <3>1
    <3> HIDE DEF x
    <3>4. Past(cur, k + 1, json_skip_elem[x])
      BY <1>6, <2>1, <3>1, <3>2
    <3>5. json_skip_elem[x] \in Nat
      <4>1. LastIn(cur) \in cur..toknext /\ json_skip_elem[x] \in cur..LastIn(cur)
        BY <3>4, KidsWithin DEF Past
      <4>2. QED BY <4>1, <1>2
    <3>6. json_skip_elem[x] + 1 \in Nat /\ (json_skip_elem[x] + 1) - 1 = json_skip_elem[x]
      BY <3>5, <1>3
    <3>7. QED BY <3>3, <3>4, <3>6
  <2>2. QED BY <2>1
<1>11. Nat \subseteq S
  <2> HIDE DEF S
  <2>1. QED BY <1>9, <1>10, SetInduction
<1>12. ASSUME NEW k \in 1..size
       PROVE  nth[k] \in Kids(tokens, cur) /\ Past(cur, k - 1, nth[k] - 1)
  <2>1. k - 1 \in Nat /\ (k - 1) + 1 = k /\ k - 1 < tokens[cur].size
    BY <1>2 DEF size
  <2>2. nth[k] \in Nat /\ Past(cur, k - 1, nth[k] - 1)
    <3>1. k - 1 \in S
      BY <2>1, <1>11
    <3>2. (k - 1) + 1 \in 1..size
      BY <2>1
    <3>3. nth[(k - 1) + 1] \in Nat /\ Past(cur, k - 1, nth[(k - 1) + 1] - 1)
      BY <3>1, <3>2
    <3>4. QED BY <3>3, <2>1
  <2>3. (nth[k] - 1) + 1 \in Kids(tokens, cur)
    BY <2>1, <2>2, PastNext
  <2>4. (nth[k] - 1) + 1 = nth[k]
    BY <2>2
  <2>5. QED BY <2>2, <2>3, <2>4
<1>13. nth = [k \in 1..size |-> nth[k]]
  <2>1. nth = [k \in 1..size |-> IF k = 1 THEN cur + 1
                                              ELSE json_skip_elem[nth[k - 1]] + 1]
    BY <1>8
  <2>2. QED BY <2>1
<1>14. nth \in Seq(Kids(tokens, cur)) /\ Len(nth) = size
  <2>1. nth \in [1..size -> Kids(tokens, cur)]
    BY <1>12, <1>13
  <2>2. QED BY <2>1, <1>2, SeqDef, LenProperties
<1>15. QED BY <1>1, <1>12, <1>14 DEF size

----------------------------------------------------------------------------
(* What is looked up.                                                      *)

\* The elements come in order, and all of them.
LEMMA ElementsOrdered ==
  ASSUME Arranged, cur \in 1..toknext,
         NEW j \in 1..tokens[cur].size, NEW k \in 1..tokens[cur].size, j < k
  PROVE  Elements[j] < Elements[k]
<1> DEFINE K == Kids(tokens, cur)
           x == Elements[j] - 1
           y == Elements[k] - 1
<1>1. /\ Past(cur, j - 1, x) /\ Past(cur, k - 1, y) /\ ParserOK
      /\ tokens[cur].size \in Nat
  BY ElementsAre, ParentsBefore DEF Arranged, TokenSet
<1>2. Elements[j] \in Nat /\ Elements[k] \in Nat
  <2>1. \A i \in 1..tokens[cur].size : Elements[i] \in K
    BY ElementsAre, ElementOfSeq
  <2>2. QED BY <2>1 DEF Kids
<1>3. ASSUME y <= x PROVE FALSE
  <2>1. IsFiniteSet(K \cap (1..x)) /\ K \cap (1..y) \in SUBSET (K \cap (1..x))
    <3>1. IsFiniteSet(K \cap (1..x))
      BY <1>1, PastFinite
    <3>2. 1..y \subseteq 1..x
      BY <1>2, <1>3
    <3> HIDE DEF K, x, y
    <3>3. QED BY <3>1, <3>2
  <2>2. Cardinality(K \cap (1..y)) <= Cardinality(K \cap (1..x))
    BY <2>1, FS_Subset
  <2>3. Cardinality(K \cap (1..y)) = k - 1 /\ Cardinality(K \cap (1..x)) = j - 1
    BY <1>1 DEF Past
  <2>4. QED BY <2>2, <2>3, <1>1
<1>4. QED BY <1>2, <1>3

LEMMA ElementsAll ==
  ASSUME Arranged, cur \in 1..toknext, NEW c \in Kids(tokens, cur)
  PROVE  \E k \in 1..tokens[cur].size : Elements[k] = c
<1> DEFINE K == Kids(tokens, cur)
           X == K \cap (1..(c - 1))
           k == Cardinality(X) + 1
<1>1. /\ toknext \in Nat /\ toknext = Len(tokens) /\ ParserOK
      /\ LastIn(cur) \in cur..toknext /\ c \in (cur + 1)..LastIn(cur)
      /\ Cardinality(K) = tokens[cur].size
  BY KidsWithin DEF Arranged, Sized, ParserOK, toknext
<1>2. /\ IsFiniteSet(K) /\ X \in SUBSET K /\ c \notin X
  BY <1>1, KidsFinite
<1>3. /\ Cardinality(X) \in Nat /\ Cardinality(X) < Cardinality(K)
      /\ Cardinality(K) \in Nat
  <2>1. Cardinality(X) <= Cardinality(K) /\ IsFiniteSet(X)
    BY <1>2, FS_Subset
  <2>2. Cardinality(X) # Cardinality(K)
    BY <1>2, FS_Subset
  <2>3. Cardinality(X) \in Nat /\ Cardinality(K) \in Nat
    BY <1>2, <2>1, FS_CardinalityType
  <2> HIDE DEF X, K
  <2>4. QED BY <2>1, <2>2, <2>3
<1>4. Past(cur, Cardinality(X), c - 1)
  <2>1. c - 1 \in cur..LastIn(cur) /\ (c - 1) + 1 = c
    BY <1>1
  <2>2. QED BY <2>1 DEF Past
<1> HIDE DEF X
<1>5. k \in 1..tokens[cur].size /\ k - 1 = Cardinality(X)
  BY <1>1, <1>3
<1>6. Past(cur, k - 1, Elements[k] - 1)
  BY <1>5, ElementsAre
<1>7. Elements[k] - 1 = c - 1
  BY <1>4, <1>5, <1>6, PastOne
<1>8. Elements[k] \in Nat
  <2>1. Elements[k] \in K
    BY <1>5, ElementsAre, ElementOfSeq
  <2>2. QED BY <2>1 DEF Kids
<1>9. QED BY <1>1, <1>5, <1>7, <1>8

\* The k-th child of i.
IsChild(i, k, c) == /\ c \in Kids(tokens, i)
                    /\ Cardinality({b \in Kids(tokens, i) : b < c}) = k - 1

LEMMA ElementsCounted ==
  ASSUME Arranged, cur \in 1..toknext, NEW k \in 1..tokens[cur].size
  PROVE  IsChild(cur, k, Elements[k])
<1> DEFINE K == Kids(tokens, cur)
           c == Elements[k]
<1>1. c \in K /\ Past(cur, k - 1, c - 1)
  BY ElementsAre, ElementOfSeq
<1>2. Cardinality(K \cap (1..(c - 1))) = k - 1
  BY <1>1 DEF Past
<1>3. K \subseteq 1..Len(tokens)
  BY DEF Kids
<1> HIDE DEF K, c
<1>4. K \cap (1..(c - 1)) = {b \in K : b < c}
  <2>1. \A b \in K : b \in Nat /\ 1 <= b /\ c \in Nat
    BY <1>1, <1>3
  <2>2. \A b \in K : b \in 1..(c - 1) <=> b < c
    BY <2>1
  <2>3. QED BY <2>2
<1>5. QED BY <1>1, <1>2, <1>4 DEF IsChild, K, c

\* json_obj_search: the first key of that name.
KeyFinds(name) ==
    LET i == Key(name) IN
    IF i = 0
    THEN \A c \in Kids(tokens, cur) : TextOf(c) # name
    ELSE /\ i \in Kids(tokens, cur) /\ TextOf(i) = name
         /\ \A c \in Kids(tokens, cur) : c < i => TextOf(c) # name

LEMMA KeyIs ==
  ASSUME Arranged, cur \in 1..toknext, tokens[cur].type = "object", NEW name
  PROVE  KeyFinds(name)
<1> DEFINE n == tokens[cur].size
           K == Kids(tokens, cur)
           I == {i \in 1..n : TextOf(Elements[i]) = name}
           i == Min(I)
<1>1. /\ n \in Nat /\ Elements \in Seq(K) /\ Len(Elements) = n
      /\ \A k \in 1..n : Elements[k] \in K
      /\ K \subseteq Nat \ {0}
  <2>1. tokens[cur].size \in Nat
    BY ParentsBefore DEF Arranged, TokenSet
  <2>2. QED BY <2>1, ElementsAre, ElementOfSeq DEF Kids
<1>2. I = {} => Key(name) = 0
  BY <1>1 DEF Key, SelectInSeq
<1>3. I # {} => i # 0 /\ i \in I /\ \A y \in I : i <= y
  <2>1. I \subseteq Nat /\ 0 \notin I
    BY <1>1
  <2> HIDE DEF I
  <2>2. QED BY <2>1, LeastOf
<1>4. I # {} => Key(name) = Elements[i]
  <2>1. ASSUME I # {} PROVE Key(name) = Elements[i]
    <3>1. SelectInSeq(Elements, LAMBDA t : TextOf(t) = name) = i
      BY <1>1, <2>1 DEF SelectInSeq
    <3> HIDE DEF i
    <3>2. QED BY <3>1, <1>3, <2>1 DEF Key
  <2>2. QED BY <2>1
<1> HIDE DEF i
<1>5. CASE I = {}
  <2>1. ASSUME NEW c \in K PROVE TextOf(c) # name
    <3>1. PICK k \in 1..n : Elements[k] = c
      BY ElementsAll
    <3>2. QED BY <3>1, <1>5
  <2>2. QED BY <2>1, <1>2, <1>5 DEF KeyFinds
<1>6. CASE I # {}
  <2>1. i \in 1..n /\ TextOf(Elements[i]) = name /\ Elements[i] \in K /\ Elements[i] # 0
    BY <1>1, <1>3, <1>6
  <2>2. ASSUME NEW c \in K, c < Elements[i] PROVE TextOf(c) # name
    <3>1. PICK k \in 1..n : Elements[k] = c
      BY ElementsAll
    <3>2. ASSUME k \in I PROVE FALSE
      <4>1. i <= k /\ i # k
        BY <3>1, <3>2, <1>1, <1>3, <1>6, <2>1, <2>2
      <4>2. i < k
        BY <4>1, <2>1
      <4>3. Elements[i] < Elements[k]
        BY <4>2, <2>1, ElementsOrdered
      <4>4. QED BY <4>3, <3>1, <2>1, <2>2, <1>1
    <3>3. QED BY <3>1, <3>2
  <2>3. QED BY <2>1, <2>2, <1>4, <1>6 DEF KeyFinds
<1>7. QED BY <1>5, <1>6

\* json_arr_get_val_tok: the element at that index, if it has the type.
ItemFinds(index, type) ==
    IF index < tokens[cur].size
    THEN \E c : /\ IsChild(cur, index + 1, c)
                /\ ItemAt(index, type) = IF tokens[c].type = type THEN c ELSE 0
    ELSE ItemAt(index, type) = 0

LEMMA ItemIs ==
  ASSUME Arranged, cur \in 1..toknext, tokens[cur].type = "array", NEW index \in Nat,
         NEW type
  PROVE  ItemFinds(index, type)
<1>1. tokens[cur].size \in Nat
  BY ParentsBefore DEF Arranged, TokenSet
<1>2. CASE index < tokens[cur].size
  <2>1. index + 1 \in 1..tokens[cur].size
    BY <1>1, <1>2
  <2>2. IsChild(cur, index + 1, Elements[index + 1])
    BY <2>1, ElementsCounted
  <2>3. ItemAt(index, type) = IF tokens[Elements[index + 1]].type = type
                              THEN Elements[index + 1] ELSE 0
    BY <1>2 DEF ItemAt
  <2>4. QED BY <2>2, <2>3, <1>2 DEF ItemFinds
<1>3. CASE ~ (index < tokens[cur].size)
  BY <1>3 DEF ItemFinds, ItemAt
<1>4. QED BY <1>2, <1>3

\* A key that is found has its value right after it.
LEMMA ValueIs ==
  ASSUME Arranged, cur \in 1..toknext, Keyed(tokens, "end"), NEW name, Key(name) # 0
  PROVE  /\ tokens[cur].type = "object" /\ Key(name) \in Kids(tokens, cur)
         /\ Key(name) + 1 \in Kids(tokens, Key(name))
         /\ Key(name) \in 1..toknext /\ Key(name) + 1 \in 1..toknext
<1> DEFINE key == Key(name)
<1>1. tokens[cur].type = "object"
  BY DEF Key
<1>2. key \in Kids(tokens, cur) /\ key \in 1..toknext /\ toknext = Len(tokens)
  BY <1>1, KeyIs DEF KeyFinds, Kids, toknext
<1> HIDE DEF key
<1>3. tokens[key].size # 0
  <2>1. tokens[key].parent = cur /\ cur # 0
    BY <1>2 DEF Kids
  <2>2. QED BY <2>1, <1>1, <1>2 DEF Keyed
<1>4. Kids(tokens, key) # {}
  <2>1. tokens[key].size = Cardinality(Kids(tokens, key))
    BY <1>2 DEF Arranged, Sized
  <2>2. QED BY <2>1, <1>3, FS_EmptySet
<1>5. key + 1 \in Kids(tokens, key)
  <2>1. PICK c : c \in Kids(tokens, key)
    BY <1>4
  <2>2. c \in (key + 1)..LastIn(key) /\ LastIn(key) \in key..toknext /\ toknext \in Nat
    BY <2>1, <1>2, KidsWithin DEF Arranged, ParserOK
  <2>3. key < LastIn(key)
    BY <2>2, <1>2
  <2>4. QED BY <2>3, <1>2, KidsWithin
<1>6. key + 1 \in 1..toknext
  BY <1>5, <1>2 DEF Kids
<1>7. QED BY <1>1, <1>2, <1>5, <1>6 DEF key

LEMMA ItemIn ==
  ASSUME Arranged, cur \in 1..toknext, NEW index \in Nat, NEW type,
         ItemAt(index, type) # 0
  PROVE  /\ ItemAt(index, type) \in Kids(tokens, cur)
         /\ ItemAt(index, type) \in 1..toknext
<1>1. index < tokens[cur].size /\ ItemAt(index, type) = Elements[index + 1]
  BY DEF ItemAt
<1>2. tokens[cur].size \in Nat
  BY ParentsBefore DEF Arranged, TokenSet
<1>3. index + 1 \in 1..tokens[cur].size
  BY <1>1, <1>2
<1>4. Elements[index + 1] \in Kids(tokens, cur)
  BY <1>3, ElementsAre, ElementOfSeq
<1>5. QED BY <1>1, <1>4 DEF Kids, toknext

\* Where the parser looks, once it is ready: at a token, whatever the calls.
Placed == /\ TreeOK
          /\ pass = "ready" => cur \in 1..toknext
          /\ pass # "ready" => cur = 0

LEMMA ParseStepPlaces ==
  ASSUME ParserOK, Placed, ParseStep
  PROVE  Placed'
<1>1. TreeOK'
  BY ParseStepTree DEF Placed
<1>2. pass \in {"count", "fill"} /\ cur = 0
  BY DEF Placed, ParseStep, OpenBracket, CloseBracket, StringStarts, Primitive,
         Colon, Comma, SkipBlank, Counted, NoTokens, Tokenized, Parsing
<1>3. \/ pass' = pass /\ cur' = cur
      \/ pass' \in {"fill", "refused"} /\ cur' = 0
      \/ Tokenized /\ pass' = "ready" /\ cur' = 1 /\ tokens' = tokens
  BY <1>2 DEF ParseStep, OpenBracket, CloseBracket, StringStarts, Primitive, Element,
         Colon, Comma, SkipBlank, Counted, NoTokens, Tokenized, Refuse, Continue
<1>4. pass' = "ready" => 1 <= Len(tokens') /\ Len(tokens') \in Nat
  <2>1. ParserOK'
    BY ParseStepOK
  <2>2. QED BY <2>1 DEF ParserOK, toknext
<1>5. QED BY <1>1, <1>2, <1>3, <1>4 DEF Placed, toknext

LEMMA MovePlaces ==
  ASSUME Placed, pass = "ready", NEW i \in 1..toknext, MoveTo(i)
  PROVE  Placed'
BY DEF Placed, MoveTo, TreeOK, toknext

\* json_obj_get_object and its like, and json_obj_leave_object and its like.
LEMMA GetPlaces ==
  ASSUME ParserOK, Placed, pass = "ready" => Keyed(tokens, "end"),
         \/ \E name, type : json_obj_get(name, type)
         \/ \E index \in Nat : \E type : json_arr_get(index, type)
  PROVE  Placed'
<1>1. pass = "ready"
  BY DEF json_obj_get, json_arr_get
<1>2. Arranged /\ cur \in 1..toknext /\ Keyed(tokens, "end")
  BY <1>1 DEF Arranged, Placed, TreeOK
<1>3. ASSUME NEW name, NEW type, json_obj_get(name, type) PROVE Placed'
  <2>1. ValueOf(name, type) # 0 /\ MoveTo(ValueOf(name, type))
    BY <1>3 DEF json_obj_get
  <2>2. Key(name) # 0 /\ ValueOf(name, type) = Key(name) + 1
    BY <2>1 DEF ValueOf
  <2>3. ValueOf(name, type) \in 1..toknext
    BY <1>2, <2>2, ValueIs
  <2>4. QED BY <1>1, <2>1, <2>3, MovePlaces
<1>4. ASSUME NEW index \in Nat, NEW type, json_arr_get(index, type) PROVE Placed'
  <2>1. ItemAt(index, type) # 0 /\ MoveTo(ItemAt(index, type))
    BY <1>4 DEF json_arr_get
  <2>2. ItemAt(index, type) \in 1..toknext
    BY <1>2, <2>1, ItemIn
  <2>3. QED BY <1>1, <2>1, <2>2, MovePlaces
<1>5. QED BY <1>3, <1>4

LEMMA LeavePlaces ==
  ASSUME ParserOK, Placed, json_obj_leave \/ json_arr_leave
  PROVE  Placed'
<1>1. pass = "ready" /\ cur \in 1..toknext /\ tokens[cur].parent # 0 /\ toknext \in Nat
  BY DEF json_obj_leave, json_arr_leave, Placed, ParserOK
<1>2. \A i \in 1..toknext : tokens[i].parent # 0 => tokens[i].parent \in 1..toknext
  BY <1>1, ParentsBefore
<1>3. \E i \in 1..toknext : MoveTo(i)
  <2>1. CASE json_arr_leave
    BY <2>1, <1>1, <1>2 DEF json_arr_leave
  <2>2. CASE json_obj_leave
    <3> DEFINE key == tokens[cur].parent
    <3>1. key \in 1..toknext
      BY <1>1, <1>2
    <3>2. MoveTo(IF tokens[key].parent = 0 THEN key ELSE tokens[key].parent)
      BY <2>2 DEF json_obj_leave
    <3> HIDE DEF key
    <3>3. (IF tokens[key].parent = 0 THEN key ELSE tokens[key].parent) \in 1..toknext
      BY <3>1, <1>2
    <3>4. QED BY <3>2, <3>3
  <2>3. QED BY <2>1, <2>2
<1>4. QED BY <1>1, <1>3, MovePlaces
=============================================================================
