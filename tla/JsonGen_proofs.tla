--------------------------- MODULE JsonGen_proofs ---------------------------
(* What holds of JsonGen for every alphabet, every set of names, values and *)
(* parts, and every buffer of at least two bytes.                           *)
EXTENDS JsonGen, SequenceTheorems, TLAPS

(***************************************************************************)
(* Facts about sequences: associativity with three parts, the two halves   *)
(* of a string that is added in two turns, prefixes.                       *)
(***************************************************************************)

\* Copying the first n characters and then the others copies the string.
LEMMA Halves ==
  ASSUME NEW S, NEW s \in Seq(S), NEW n \in 0..Len(s)
  PROVE  /\ SubSeq(s, 1, n) \in Seq(S) /\ Len(SubSeq(s, 1, n)) = n
         /\ SubSeq(s, n + 1, Len(s)) \in Seq(S)
         /\ Len(SubSeq(s, n + 1, Len(s))) = Len(s) - n
         /\ SubSeq(s, 1, n) \o SubSeq(s, n + 1, Len(s)) = s
<1>1. Len(s) \in Nat /\ \A i \in 1..Len(s) : s[i] \in S
  BY LenProperties, ElementOfSeq
<1>2. /\ SubSeq(s, 1, n) \in Seq(S) /\ Len(SubSeq(s, 1, n)) = n
  BY <1>1, SubSeqProperties, 1 \in Int, n \in Int, \A i \in 1..n : s[i] \in S
<1>3. /\ SubSeq(s, n + 1, Len(s)) \in Seq(S)
      /\ Len(SubSeq(s, n + 1, Len(s))) = Len(s) - n
  <2>1. n + 1 \in Int /\ Len(s) \in Int /\ \A i \in (n + 1)..Len(s) : s[i] \in S
    BY <1>1
  <2>2. /\ SubSeq(s, n + 1, Len(s)) \in Seq(S)
        /\ Len(SubSeq(s, n + 1, Len(s))) =
             IF n + 1 <= Len(s) THEN Len(s) - (n + 1) + 1 ELSE 0
    BY <2>1, SubSeqProperties
  <2>3. QED BY <2>2, <1>1
<1>4. SubSeq(s, 1, n) \o SubSeq(s, n + 1, Len(s)) = s
  <2>1. 1 \in 1..Len(s)+1 /\ n \in (1-1)..Len(s) /\ Len(s) \in n..Len(s)
    BY <1>1
  <2>2. SubSeq(s, 1, n) \o SubSeq(s, n + 1, Len(s)) = SubSeq(s, 1, Len(s))
    BY <2>1, ConcatAdjacentSubSeq
  <2>3. QED BY <2>2, SubSeqFull
<1>5. QED BY <1>2, <1>3, <1>4

\* What is in front of a text is a prefix of it.
LEMMA FrontIsPrefix ==
  ASSUME NEW S, NEW s \in Seq(S), NEW t \in Seq(S)
  PROVE  Text!IsPrefix(s, s \o t)
<1>1. /\ s \o t \in Seq(S) /\ Len(s \o t) = Len(s) + Len(t)
      /\ Len(s) \in Nat /\ Len(t) \in Nat
  BY ConcatProperties, LenProperties
<1>2. SubSeq(s, 1, Len(s)) = SubSeq(s \o t, 1, Len(s))
  <2>1. CASE Len(s) = 0
    BY <2>1, SubSeqEmpty, 1 \in Int, 0 \in Int
  <2>2. CASE Len(s) # 0
    <3>1. 1 \in 1..Len(s) /\ Len(s) \in 1..Len(s)
      BY <1>1, <2>2
    <3>2. QED BY <3>1, SubSeqOfConcat1
  <2>3. QED BY <2>1, <2>2
<1>3. QED BY <1>1, <1>2 DEF Text!IsPrefix

\* A prefix of a text is one of every longer text.
LEMMA PrefixGrows ==
  ASSUME NEW S, NEW s \in Seq(S), NEW t \in Seq(S), NEW u \in Seq(S),
         Text!IsPrefix(s, t)
  PROVE  Text!IsPrefix(s, t \o u)
<1>1. /\ Len(s) \in Nat /\ Len(t) \in Nat /\ Len(u) \in Nat
      /\ Len(t \o u) = Len(t) + Len(u)
      /\ Len(s) <= Len(t)
  BY ConcatProperties, LenProperties DEF Text!IsPrefix
<1>2. SubSeq(t, 1, Len(s)) = SubSeq(t \o u, 1, Len(s))
  <2>1. CASE Len(s) = 0
    BY <2>1, SubSeqEmpty, 1 \in Int, 0 \in Int
  <2>2. CASE Len(s) # 0
    <3>1. 1 \in 1..Len(t) /\ Len(s) \in 1..Len(t)
      BY <1>1, <2>2
    <3>2. QED BY <3>1, SubSeqOfConcat1
  <2>3. QED BY <2>1, <2>2
<1>3. QED BY <1>1, <1>2 DEF Text!IsPrefix

LEMMA PrefixReflexive ==
  ASSUME NEW S, NEW s \in Seq(S)
  PROVE  Text!IsPrefix(s, s)
BY LenProperties DEF Text!IsPrefix

\* A prefix is the beginning of its length, and the whole if that is all.
LEMMA PrefixIsFront ==
  ASSUME NEW S, NEW s \in Seq(S), NEW t \in Seq(S), Text!IsPrefix(s, t)
  PROVE  /\ s = SubSeq(t, 1, Len(s))
         /\ Len(t) <= Len(s) => s = t
<1>1. SubSeq(s, 1, Len(s)) = s /\ SubSeq(t, 1, Len(t)) = t
  BY SubSeqFull
<1>2. Len(s) \in Nat /\ Len(t) \in Nat
  BY LenProperties
<1>3. QED BY <1>1, <1>2 DEF Text!IsPrefix
(***************************************************************************)
(* The invariant.                                                          *)
(***************************************************************************)

\* Between calls nothing is left to add, and before json_str_start there is
\* nothing at all.
Quiet == /\ ~busy => head = <<>> /\ last = <<>>
         /\ stage # "open" => ~busy
         /\ stage = "idle" => asked = <<>> /\ sent = <<>> /\ buf = <<>> /\ ~cut

\* As long as nothing was dropped, what is out, what is in the buffer and
\* what is still to be added make up the text.
Whole == ~cut => asked = (sent \o buf) \o (head \o last)

\* Text is dropped only without a callback, and then the buffer is full, and
\* so stays as it is: the beginning of the text.
Dropped == /\ ~flush_cb => sent = <<>>
           /\ cut => /\ ~flush_cb
                     /\ Len(buf) = buf_size - 1
                     /\ Text!IsPrefix(buf, asked)

GenInv == TypeOK /\ InBuffer /\ Quiet /\ Whole /\ Dropped

\* Every function of the interface adds two strings of characters.
LEMMA CallsAdd ==
  ASSUME TypeOK, Interface
  PROVE  \E h, l \in Seq(Char), c \in BOOLEAN : Call(h, l, c)
<1>1. \A p \in Punctuation : <<p>> \in Seq(Char)
  BY GenAssumption
<1>2. /\ <<"{">> \in Seq(Char) /\ <<"}">> \in Seq(Char) /\ <<"[">> \in Seq(Char)
      /\ <<"]">> \in Seq(Char) /\ Quote \in Seq(Char) /\ <<":">> \in Seq(Char)
      /\ <<",">> \in Seq(Char) /\ <<>> \in Seq(Char)
  <2>1. /\ "{" \in Punctuation /\ "}" \in Punctuation /\ "[" \in Punctuation
        /\ "]" \in Punctuation /\ ":" \in Punctuation /\ "," \in Punctuation
    BY DEF Punctuation
  <2>2. "\"" \in Punctuation
    BY Zenon DEF Punctuation
  <2>3. Quote \in Seq(Char)
    BY <1>1, <2>2, Zenon DEF Quote
  <2>4. <<>> \in Seq(Char)
    BY EmptySeq
  <2>5. QED BY <1>1, <2>1, <2>3, <2>4, Zenon
<1>3. json_handle_comma \in Seq(Char)
  BY <1>2 DEF json_handle_comma
<1>4. \A s, t \in Seq(Char) : s \o t \in Seq(Char)
  BY ConcatProperties
<1>5. \A name \in Name : json_handle_name(name) \in Seq(Char)
  BY <1>2, <1>4, GenAssumption DEF json_handle_name
<1>6. \A name \in Name : json_handle_comma \o json_handle_name(name) \in Seq(Char)
  BY <1>3, <1>4, <1>5
<1>7. ASSUME NEW front \in Seq(Char), NEW v \in Value, SetAfter(front, v)
      PROVE  \E h, l \in Seq(Char), c \in BOOLEAN : Call(h, l, c)
  <2>1. CASE v.type = "string"
    <3>1. (front \o Quote) \o v.val \in Seq(Char)
      BY <1>2, <1>4, <2>1, GenAssumption
    <3>2. Call((front \o Quote) \o v.val, Quote, TRUE)
      BY <1>7, <2>1 DEF SetAfter
    <3>3. QED BY <3>1, <3>2, <1>2
  <2>2. CASE v.type # "string"
    BY <1>7, <2>2, GenAssumption DEF SetAfter
  <2>3. QED BY <2>1, <2>2
<1>8. CASE json_start_object \/ json_end_object \/ json_start_array \/ json_end_array
  BY <1>2, <1>3, <1>8 DEF json_start_object, json_end_object, json_start_array,
                          json_end_array
<1>9. ASSUME NEW name \in Name, json_push_object(name) \/ json_push_array(name)
      PROVE  \E h, l \in Seq(Char), c \in BOOLEAN : Call(h, l, c)
  BY <1>2, <1>6, <1>9 DEF json_push_object, json_push_array
<1>10. ASSUME NEW name \in Name, NEW v \in Value, json_obj_set(name, v)
       PROVE  \E h, l \in Seq(Char), c \in BOOLEAN : Call(h, l, c)
  BY <1>6, <1>7, <1>10 DEF json_obj_set
<1>11. ASSUME NEW name \in Name, NEW part \in Part,
              json_obj_start_long_string(name, part)
       PROVE  \E h, l \in Seq(Char), c \in BOOLEAN : Call(h, l, c)
  <2>1. (json_handle_comma \o json_handle_name(name)) \o Quote \in Seq(Char)
    BY <1>2, <1>4, <1>6
  <2>2. QED BY <2>1, <1>11, GenAssumption DEF json_obj_start_long_string
<1>12. ASSUME NEW v \in Value, json_arr_set(v)
       PROVE  \E h, l \in Seq(Char), c \in BOOLEAN : Call(h, l, c)
  BY <1>3, <1>7, <1>12 DEF json_arr_set
<1>13. ASSUME NEW part \in Part,
              json_arr_start_long_string(part) \/ json_add_to_long_string(part)
       PROVE  \E h, l \in Seq(Char), c \in BOOLEAN : Call(h, l, c)
  <2>1. json_handle_comma \o Quote \in Seq(Char)
    BY <1>2, <1>3, <1>4
  <2>2. QED BY <2>1, <1>2, <1>13, GenAssumption
            DEF json_arr_start_long_string, json_add_to_long_string, TypeOK
<1>14. CASE json_end_long_string
  BY <1>2, <1>14 DEF json_end_long_string, TypeOK
<1>15. QED
  BY <1>8, <1>9, <1>10, <1>11, <1>12, <1>13, <1>14 DEF Interface

\* How much room there is, and what one turn of json_add_to_str moves.
LEMMA Room ==
  ASSUME TypeOK, InBuffer
  PROVE  /\ buf_size \in Nat /\ Len(buf) \in Nat /\ Len(Adding) \in Nat
         /\ json_get_empty_len \in Nat
         /\ Adding \in Seq(Char)
BY GenAssumption, LenProperties DEF TypeOK, InBuffer, json_get_empty_len, Adding

\* A string that does not fit fills the buffer and leaves its second half.
LEMMA Filling ==
  ASSUME TypeOK, InBuffer, ~Fits
  PROVE  /\ Filled \in Seq(Char) /\ Len(Filled) = buf_size - 1
         /\ Filled = buf \o SubSeq(Adding, 1, json_get_empty_len)
         /\ SubSeq(Adding, 1, json_get_empty_len) \in Seq(Char)
         /\ SubSeq(Adding, json_get_empty_len + 1, Len(Adding)) \in Seq(Char)
         /\ Adding = SubSeq(Adding, 1, json_get_empty_len)
                       \o SubSeq(Adding, json_get_empty_len + 1, Len(Adding))
<1>1. json_get_empty_len \in 0..Len(Adding) /\ Adding \in Seq(Char)
  BY Room DEF Fits
<1>2. /\ SubSeq(Adding, 1, json_get_empty_len) \in Seq(Char)
      /\ Len(SubSeq(Adding, 1, json_get_empty_len)) = json_get_empty_len
      /\ SubSeq(Adding, json_get_empty_len + 1, Len(Adding)) \in Seq(Char)
      /\ SubSeq(Adding, 1, json_get_empty_len)
           \o SubSeq(Adding, json_get_empty_len + 1, Len(Adding)) = Adding
  BY <1>1, Halves
<1>3. buf \in Seq(Char)
  BY DEF TypeOK
<1>4. Filled \in Seq(Char) /\ Len(Filled) = Len(buf) + json_get_empty_len
  BY <1>2, <1>3, ConcatProperties DEF Filled
<1>5. Len(Filled) = buf_size - 1
  BY <1>4, Room DEF json_get_empty_len
<1>6. QED BY <1>2, <1>4, <1>5, Zenon DEF Filled

(***************************************************************************)
(* Each step keeps the invariant.                                          *)
(***************************************************************************)

\* Texts join to texts, in whatever order they are joined.
LEMMA Joining ==
  /\ <<>> \in Seq(Char)
  /\ \A s, t \in Seq(Char) : s \o t \in Seq(Char)
  /\ \A s \in Seq(Char) : s \o <<>> = s /\ <<>> \o s = s
  /\ \A s, t, u \in Seq(Char) : (s \o t) \o u = s \o (t \o u)
<1>1. <<>> \in Seq(Char)
  BY EmptySeq
<1>2. \A s, t \in Seq(Char) : s \o t \in Seq(Char)
  BY ConcatProperties
<1>3. \A s \in Seq(Char) : s \o <<>> = s /\ <<>> \o s = s
  BY ConcatEmptySeq
<1>4. \A s, t, u \in Seq(Char) : (s \o t) \o u = s \o (t \o u)
  BY ConcatAssociative, SMTT(30)
<1>5. QED BY <1>1, <1>2, <1>3, <1>4

\* The last part alone, for the steps that only regroup.
LEMMA Associating ==
  \A s, t, u \in Seq(Char) : (s \o t) \o u = s \o (t \o u)
BY Joining

\* What is still to be added when the string being added is.
Rest == IF head # <<>> THEN last ELSE <<>>

LEMMA AddingFirst ==
  ASSUME TypeOK
  PROVE  /\ Adding \in Seq(Char) /\ Rest \in Seq(Char)
         /\ head \o last = Adding \o Rest
<1>1. head \in Seq(Char) /\ last \in Seq(Char)
  BY DEF TypeOK
<1>2. /\ <<>> \in Seq(Char)
      /\ \A s \in Seq(Char) : s \o <<>> = s /\ <<>> \o s = s
  BY Joining, Zenon
<1>3. CASE head # <<>>
  BY <1>1, <1>3, Zenon DEF Adding, Rest
<1>4. CASE head = <<>>
  <2>1. Adding = last /\ Rest = <<>>
    BY <1>4, Zenon DEF Adding, Rest
  <2>2. QED BY <2>1, <1>1, <1>2, <1>4, Zenon
<1>5. QED BY <1>3, <1>4

\* A string that is done with leaves the others.
LEMMA AddedLeavesRest ==
  ASSUME TypeOK, NEW result \in {0, -1}, Added(result), busy
  PROVE  /\ head' \in Seq(Char) /\ last' \in Seq(Char)
         /\ busy' \in BOOLEAN /\ ret' \in {0, -1}
         /\ head' \o last' = Rest
         /\ ~busy' => head' = <<>> /\ last' = <<>>
<1>1. /\ head \in Seq(Char) /\ last \in Seq(Char) /\ <<>> \in Seq(Char)
      /\ \A s \in Seq(Char) : s \o <<>> = s /\ <<>> \o s = s
  BY Joining, Zenon DEF TypeOK
<1>2. CASE head # <<>>
  <2>1. head' = <<>> /\ last' = last /\ busy' = busy /\ ret' = ret /\ Rest = last
    BY <1>2 DEF Added, Rest
  <2>2. QED BY <1>1, <2>1 DEF TypeOK
<1>3. CASE head = <<>>
  <2>1. last' = <<>> /\ busy' = FALSE /\ ret' = result /\ head' = <<>> /\ Rest = <<>>
    BY <1>3 DEF Added, Rest
  <2>2. QED BY <1>1, <2>1
<1>4. QED BY <1>2, <1>3

\* With the buffer full nothing fits, and what is copied is nothing.
LEMMA FullStaysFull ==
  ASSUME TypeOK, InBuffer, Len(buf) = buf_size - 1
  PROVE  /\ Fits => Adding = <<>>
         /\ Filled = buf
<1>1. json_get_empty_len = 0 /\ Adding \in Seq(Char) /\ buf \in Seq(Char)
  BY Room DEF json_get_empty_len, TypeOK
<1>2. Fits => Adding = <<>>
  BY <1>1, EmptySeq, LenProperties DEF Fits
<1>3. SubSeq(Adding, 1, 0) = <<>>
  BY SubSeqEmpty, 1 \in Int, 0 \in Int
<1>4. QED BY <1>1, <1>2, <1>3, ConcatEmptySeq DEF Filled

LEMMA InitInv ==
  Init => GenInv
<1> SUFFICES ASSUME Init PROVE GenInv
  OBVIOUS
<1>1. <<>> \in Seq(Char) /\ Len(<<>>) = 0
  BY EmptySeq
<1>2. <<>> \o <<>> = <<>>
  BY <1>1, ConcatEmptySeq
<1>3. TypeOK
  BY <1>1 DEF Init, TypeOK
<1>4. InBuffer
  BY <1>1, GenAssumption DEF Init, InBuffer
<1>5. Quiet
  BY DEF Init, Quiet
<1>6. Whole
  BY <1>2 DEF Init, Whole
<1>7. Dropped
  BY DEF Init, Dropped
<1>8. QED BY <1>3, <1>4, <1>5, <1>6, <1>7 DEF GenInv

LEMMA StartInv ==
  ASSUME GenInv, NEW size \in BufSize, NEW cb \in BOOLEAN, json_str_start(size, cb)
  PROVE  GenInv'
<1>1. <<>> \in Seq(Char) /\ Len(<<>>) = 0 /\ <<>> \o <<>> = <<>>
  BY EmptySeq, ConcatEmptySeq
<1>2. TypeOK'
  BY <1>1 DEF GenInv, TypeOK, json_str_start
<1>3. InBuffer'
  BY <1>1, GenAssumption DEF InBuffer, json_str_start
<1>4. Quiet'
  BY DEF GenInv, Quiet, json_str_start
<1>5. Whole'
  <2>1. asked = <<>> /\ sent = <<>> /\ head = <<>> /\ last = <<>>
    BY DEF GenInv, Quiet, json_str_start
  <2>2. QED BY <1>1, <2>1 DEF Whole, json_str_start
<1>6. Dropped'
  BY DEF GenInv, Quiet, Dropped, json_str_start
<1>7. QED BY <1>2, <1>3, <1>4, <1>5, <1>6 DEF GenInv

LEMMA CallInv ==
  ASSUME GenInv, NEW h \in Seq(Char), NEW l \in Seq(Char), NEW c \in BOOLEAN,
         Call(h, l, c)
  PROVE  GenInv' /\ Text!IsPrefix(asked, asked')
<1>1. /\ buf \in Seq(Char) /\ sent \in Seq(Char) /\ asked \in Seq(Char)
      /\ sent \o buf \in Seq(Char) /\ asked \o h \in Seq(Char)
      /\ h \o l \in Seq(Char) /\ <<>> \in Seq(Char)
  BY Joining, Zenon DEF GenInv, TypeOK
<1>2. asked' = asked \o (h \o l) /\ asked' = (asked \o h) \o l /\ asked' \in Seq(Char)
  <2>1. asked' = (asked \o h) \o l
    BY DEF Call
  <2>2. (asked \o h) \o l = asked \o (h \o l) /\ (asked \o h) \o l \in Seq(Char)
    <3>1. asked \in Seq(Char) /\ h \in Seq(Char) /\ l \in Seq(Char)
      BY <1>1
    <3>2. (asked \o h) \o l = asked \o (h \o l)
      BY <3>1, Associating, Zenon
    <3>3. asked \o (h \o l) \in Seq(Char)
      BY <1>1, Joining, Zenon
    <3>4. QED BY <3>2, <3>3, Zenon
  <2>3. QED BY <2>1, <2>2
<1>3. TypeOK'
  BY <1>2 DEF GenInv, TypeOK, Call
<1>4. InBuffer' /\ Quiet'
  BY DEF GenInv, InBuffer, Quiet, Call
<1>5. Whole'
  <2>1. SUFFICES ASSUME ~cut PROVE asked' = (sent \o buf) \o (h \o l)
    BY DEF Whole, Call
  <2>2. head = <<>> /\ last = <<>>
    BY DEF GenInv, Quiet, Call
  <2>3. asked = (sent \o buf) \o (<<>> \o <<>>)
    BY <2>1, <2>2 DEF GenInv, Whole
  <2>4. asked = sent \o buf
    <3>1. <<>> \o <<>> = <<>> /\ (sent \o buf) \o <<>> = sent \o buf
      BY <1>1, ConcatEmptySeq, Zenon
    <3>2. QED BY <2>3, <3>1, Zenon
  <2>5. QED BY <1>2, <2>4
<1>6. Dropped'
  <2>1. Text!IsPrefix(buf, asked) => Text!IsPrefix(buf, asked')
    BY <1>1, <1>2, PrefixGrows
  <2>2. QED BY <2>1 DEF GenInv, Dropped, Call, Text!IsPrefix
<1>7. Text!IsPrefix(asked, asked')
  BY <1>1, <1>2, FrontIsPrefix
<1>8. QED BY <1>3, <1>4, <1>5, <1>6, <1>7 DEF GenInv

\* What joins the buffer comes out behind what is out already.
LEMMA Regroup ==
  ASSUME TypeOK
  PROVE  \A x, y \in Seq(Char) :
            /\ (sent \o buf) \o (x \o y) = (sent \o (buf \o x)) \o y
            /\ sent \o (buf \o x) = (sent \o buf) \o x
            /\ (buf \o x) \o y = buf \o (x \o y)
<1> SUFFICES ASSUME NEW x \in Seq(Char), NEW y \in Seq(Char)
             PROVE  /\ (sent \o buf) \o (x \o y) = (sent \o (buf \o x)) \o y
                    /\ sent \o (buf \o x) = (sent \o buf) \o x
                    /\ (buf \o x) \o y = buf \o (x \o y)
  OBVIOUS
<1>1. sent \in Seq(Char) /\ buf \in Seq(Char)
  BY DEF TypeOK
<1>2. sent \o buf \in Seq(Char)
  BY <1>1, Joining, Zenon
<1>3. (sent \o buf) \o x = sent \o (buf \o x)
  BY <1>1, Joining, Zenon
<1>4. \A u \in Seq(Char) : (u \o x) \o y = u \o (x \o y)
  BY Associating, Zenon
<1>5. ((sent \o buf) \o x) \o y = (sent \o buf) \o (x \o y)
  BY <1>2, <1>4, Zenon
<1>6. (buf \o x) \o y = buf \o (x \o y)
  BY <1>1, <1>4, Zenon
<1>7. QED BY <1>3, <1>5, <1>6, Zenon

LEMMA AddRestInv ==
  ASSUME GenInv, AddRest
  PROVE  /\ GenInv' /\ sent' \o buf' = (sent \o buf) \o Adding
         /\ busy /\ ~busy' => ret' = 0 /\ (cut' => last = <<>>)
<1>1. TypeOK /\ InBuffer /\ Quiet /\ Whole /\ Dropped /\ busy /\ Fits
  BY DEF GenInv, AddRest
<1>2. /\ Adding \in Seq(Char) /\ Rest \in Seq(Char) /\ head \o last = Adding \o Rest
      /\ buf \in Seq(Char) /\ sent \in Seq(Char) /\ asked \in Seq(Char)
  BY <1>1, AddingFirst DEF TypeOK
<1>0. /\ Adding \in Seq(Char) /\ Rest \in Seq(Char)
      /\ buf \in Seq(Char) /\ sent \in Seq(Char)
  BY <1>2
<1>3. Added(0) /\ buf' = buf \o Adding /\ sent' = sent /\ asked' = asked
      /\ cut' = cut /\ stage' = stage /\ flush_cb' = flush_cb /\ buf_size' = buf_size
      /\ comma_req' = comma_req
  BY DEF AddRest
<1>4. /\ head' \in Seq(Char) /\ last' \in Seq(Char)
      /\ busy' \in BOOLEAN /\ ret' \in {0, -1}
      /\ head' \o last' = Rest
      /\ ~busy' => head' = <<>> /\ last' = <<>>
  BY <1>1, <1>3, AddedLeavesRest
<1>5. buf' \in Seq(Char) /\ Len(buf') = Len(buf) + Len(Adding)
  BY <1>2, <1>3, ConcatProperties
<1>6. TypeOK'
  BY <1>1, <1>3, <1>4, <1>5 DEF TypeOK
<1>7. InBuffer'
  BY <1>1, <1>3, <1>5, Room DEF InBuffer, Fits, json_get_empty_len
<1>8. Quiet'
  BY <1>1, <1>3, <1>4 DEF Quiet
<1>9. sent' \o buf' = (sent \o buf) \o Adding
  <2>1. sent \o (buf \o Adding) = (sent \o buf) \o Adding
    BY <1>0, <1>1, Regroup, Zenon
  <2>2. QED BY <2>1, <1>3
<1>10. Whole'
  <2>1. SUFFICES ASSUME ~cut PROVE asked = (sent' \o buf') \o (head' \o last')
    BY <1>3 DEF Whole
  <2>2. asked = (sent \o buf) \o (Adding \o Rest)
    BY <2>1, <1>1, <1>2 DEF Whole
  <2>3. (sent \o buf) \o (Adding \o Rest) = (sent \o (buf \o Adding)) \o Rest
    BY <1>0, <1>1, Regroup, Zenon
  <2>4. QED BY <2>2, <2>3, <1>3, <1>4
<1>11. cut => Adding = <<>> /\ buf' = buf
  <2>1. cut => Len(buf) = buf_size - 1
    BY <1>1 DEF Dropped
  <2>2. cut => Adding = <<>>
    BY <2>1, <1>1, FullStaysFull
  <2>3. QED BY <2>2, <1>2, <1>3, ConcatEmptySeq
<1>12. Dropped'
  <2>1. ~flush_cb' => sent' = <<>>
    BY <1>1, <1>3 DEF Dropped
  <2>2. CASE cut
    <3>1. buf' = buf
      BY <2>2, <1>11
    <3>2. QED BY <2>1, <3>1, <1>1, <1>3 DEF Dropped, Text!IsPrefix
  <2>3. CASE ~cut
    BY <2>1, <2>3, <1>3 DEF Dropped
  <2>4. QED BY <2>2, <2>3
<1>13. busy /\ ~busy' => ret' = 0 /\ (cut' => last = <<>>)
  <2>1. SUFFICES ASSUME ~busy' PROVE ret' = 0 /\ (cut => last = <<>>)
    BY <1>3
  <2>2. head = <<>> /\ ret' = 0
    BY <2>1, <1>1, <1>3 DEF Added
  <2>3. Adding = last
    BY <2>2, Zenon DEF Adding
  <2>4. QED BY <2>2, <2>3, <1>11
<1>14. QED BY <1>6, <1>7, <1>8, <1>9, <1>10, <1>12, <1>13 DEF GenInv

LEMMA AddAndFlushInv ==
  ASSUME GenInv, AddAndFlush
  PROVE  /\ GenInv'
         /\ \E x \in Seq(Char) : sent' \o buf' = (sent \o buf) \o x
         /\ Len(sent') - Len(sent) = buf_size - 1
<1> DEFINE room == json_get_empty_len
           x == SubSeq(Adding, 1, room)
           left == SubSeq(Adding, room + 1, Len(Adding))
<1>1. TypeOK /\ InBuffer /\ Quiet /\ Whole /\ Dropped /\ busy /\ ~Fits /\ flush_cb
  BY DEF GenInv, AddAndFlush
<1>2. /\ Filled \in Seq(Char) /\ Len(Filled) = buf_size - 1 /\ Filled = buf \o x
      /\ x \in Seq(Char) /\ left \in Seq(Char) /\ Adding = x \o left
  BY <1>1, Filling
<1>3. /\ Adding \in Seq(Char) /\ Rest \in Seq(Char) /\ head \o last = Adding \o Rest
      /\ buf \in Seq(Char) /\ sent \in Seq(Char) /\ asked \in Seq(Char)
      /\ head \in Seq(Char) /\ last \in Seq(Char)
  BY <1>1, AddingFirst DEF TypeOK
<1>4. /\ sent' = sent \o Filled /\ buf' = <<>> /\ asked' = asked /\ cut' = cut
      /\ stage' = stage /\ flush_cb' = flush_cb /\ buf_size' = buf_size
      /\ comma_req' = comma_req /\ busy' = busy /\ ret' = ret
  BY DEF AddAndFlush
<1>5. /\ head' \in Seq(Char) /\ last' \in Seq(Char)
      /\ head' \o last' = left \o Rest
  <2>1. CASE head # <<>>
    <3>1. head' = left /\ last' = last
      BY <2>1 DEF AddAndFlush
    <3>2. Rest = last
      BY <2>1, Zenon DEF Rest
    <3>3. QED BY <3>1, <3>2, <1>2, <1>3, Zenon
  <2>2. CASE head = <<>>
    <3>1. last' = left /\ head' = <<>>
      BY <2>2 DEF AddAndFlush
    <3>2. Rest = <<>>
      BY <2>2, Zenon DEF Rest
    <3>3. <<>> \o left = left \o <<>> /\ <<>> \in Seq(Char)
      BY <1>2, Joining, Zenon
    <3>4. QED BY <3>1, <3>2, <3>3, <1>2, Zenon
  <2>3. QED BY <2>1, <2>2
<1> HIDE DEF x, left, room
<1>0. /\ x \in Seq(Char) /\ left \in Seq(Char) /\ Rest \in Seq(Char)
      /\ buf \in Seq(Char) /\ sent \in Seq(Char)
  BY <1>2, <1>3
<1>6. /\ sent' \in Seq(Char) /\ buf' \in Seq(Char) /\ Len(buf') = 0
      /\ Len(sent') - Len(sent) = buf_size - 1
  BY <1>2, <1>3, <1>4, ConcatProperties, EmptySeq, LenProperties
<1>7. TypeOK'
  BY <1>1, <1>4, <1>5, <1>6 DEF TypeOK
<1>8. InBuffer'
  BY <1>1, <1>4, <1>6, GenAssumption DEF InBuffer, TypeOK
<1>9. Quiet'
  BY <1>1, <1>4 DEF Quiet
<1>10. sent' \o buf' = sent \o (buf \o x)
  <2>1. sent' = sent \o (buf \o x) /\ buf' = <<>>
    BY <1>2, <1>4
  <2>2. (sent \o (buf \o x)) \o <<>> = sent \o (buf \o x)
    <3>1. sent \o (buf \o x) \in Seq(Char)
      BY <1>0, Joining, Zenon
    <3>2. QED BY <3>1, ConcatEmptySeq, Zenon
  <2>3. QED BY <2>1, <2>2
<1>11. Whole'
  <2>1. asked = (sent \o buf) \o ((x \o left) \o Rest)
    BY <1>1, <1>2, <1>3 DEF Whole, Dropped
  <2>2. (x \o left) \o Rest = x \o (left \o Rest) /\ left \o Rest \in Seq(Char)
    <3>1. (x \o left) \o Rest = x \o (left \o Rest)
      BY <1>0, Associating, Zenon
    <3>2. left \o Rest \in Seq(Char)
      BY <1>0, Joining, Zenon
    <3>3. QED BY <3>1, <3>2, Zenon
  <2>3. (sent \o buf) \o (x \o (left \o Rest)) = (sent \o (buf \o x)) \o (left \o Rest)
    BY <2>2, <1>0, <1>1, Regroup, Zenon
  <2>4. asked' = (sent' \o buf') \o (head' \o last')
    BY <2>1, <2>2, <2>3, <1>4, <1>5, <1>10
  <2>5. QED BY <2>4 DEF Whole
<1>12. Dropped'
  BY <1>1, <1>4 DEF Dropped
<1>13. sent \o (buf \o x) = (sent \o buf) \o x
  BY <1>0, <1>1, Regroup, Zenon
<1>14. QED BY <1>2, <1>6, <1>7, <1>8, <1>9, <1>10, <1>11, <1>12, <1>13 DEF GenInv

LEMMA AddAndDropInv ==
  ASSUME GenInv, AddAndDrop
  PROVE  /\ GenInv'
         /\ \E x \in Seq(Char) : sent' \o buf' = (sent \o buf) \o x
         /\ cut' /\ (busy /\ ~busy' => ret' = -1)
<1> DEFINE room == json_get_empty_len
           x == SubSeq(Adding, 1, room)
           left == SubSeq(Adding, room + 1, Len(Adding))
<1>1. TypeOK /\ InBuffer /\ Quiet /\ Whole /\ Dropped /\ busy /\ ~Fits /\ ~flush_cb
  BY DEF GenInv, AddAndDrop
<1>2. /\ Filled \in Seq(Char) /\ Len(Filled) = buf_size - 1 /\ Filled = buf \o x
      /\ x \in Seq(Char) /\ left \in Seq(Char) /\ Adding = x \o left
  BY <1>1, Filling
<1>3. /\ Adding \in Seq(Char) /\ Rest \in Seq(Char) /\ head \o last = Adding \o Rest
      /\ buf \in Seq(Char) /\ sent \in Seq(Char) /\ asked \in Seq(Char)
  BY <1>1, AddingFirst DEF TypeOK
<1>4. /\ Added(-1) /\ buf' = Filled /\ sent' = sent /\ asked' = asked /\ cut' = TRUE
      /\ stage' = stage /\ flush_cb' = flush_cb /\ buf_size' = buf_size
      /\ comma_req' = comma_req
  BY DEF AddAndDrop
<1>5. /\ head' \in Seq(Char) /\ last' \in Seq(Char)
      /\ busy' \in BOOLEAN /\ ret' \in {0, -1}
      /\ head' \o last' = Rest
      /\ ~busy' => head' = <<>> /\ last' = <<>>
  BY <1>1, <1>4, AddedLeavesRest
<1> HIDE DEF x, left, room
<1>0. /\ x \in Seq(Char) /\ left \in Seq(Char) /\ Rest \in Seq(Char)
      /\ buf \in Seq(Char) /\ sent \in Seq(Char)
  BY <1>2, <1>3
<1>6. TypeOK'
  BY <1>1, <1>2, <1>4, <1>5 DEF TypeOK
<1>7. InBuffer'
  BY <1>1, <1>2, <1>4, Room DEF InBuffer
<1>8. Quiet'
  BY <1>1, <1>4, <1>5 DEF Quiet
<1>9. Whole'
  BY <1>4 DEF Whole
<1>10. Text!IsPrefix(Filled, asked)
  <2>1. CASE cut
    <3>1. Len(buf) = buf_size - 1 /\ Text!IsPrefix(buf, asked)
      BY <2>1, <1>1 DEF Dropped
    <3>2. QED BY <3>1, <1>1, FullStaysFull
  <2>2. CASE ~cut
    <3>1. asked = (<<>> \o buf) \o ((x \o left) \o Rest)
      BY <2>2, <1>1, <1>2, <1>3 DEF Whole, Dropped
    <3>2. /\ (x \o left) \o Rest = x \o (left \o Rest) /\ left \o Rest \in Seq(Char)
          /\ <<>> \o buf = buf
      <4>1. (x \o left) \o Rest = x \o (left \o Rest)
        BY <1>0, Associating, Zenon
      <4>2. left \o Rest \in Seq(Char)
        BY <1>0, Joining, Zenon
      <4>3. <<>> \o buf = buf
        BY <1>0, ConcatEmptySeq, Zenon
      <4>4. QED BY <4>1, <4>2, <4>3, Zenon
    <3>3. buf \o (x \o (left \o Rest)) = (buf \o x) \o (left \o Rest)
      BY <3>2, <1>0, <1>1, Regroup, Zenon
    <3>4. asked = Filled \o (left \o Rest)
      BY <3>1, <3>2, <3>3, <1>2
    <3>5. QED BY <3>2, <3>4, <1>2, FrontIsPrefix
  <2>3. QED BY <2>1, <2>2
<1>11. Dropped'
  <2>1. sent = <<>>
    BY <1>1 DEF Dropped
  <2>2. QED BY <2>1, <1>1, <1>2, <1>4, <1>10 DEF Dropped, Text!IsPrefix
<1>12. sent' \o buf' = (sent \o buf) \o x
  <2>1. sent \o (buf \o x) = (sent \o buf) \o x
    BY <1>0, <1>1, Regroup, Zenon
  <2>2. QED BY <2>1, <1>2, <1>4
<1>13. busy /\ ~busy' => ret' = -1
  BY <1>4 DEF Added
<1>14. QED
  BY <1>2, <1>4, <1>6, <1>7, <1>8, <1>9, <1>11, <1>12, <1>13 DEF GenInv

LEMMA EndInv ==
  ASSUME GenInv, json_str_end
  PROVE  /\ GenInv' /\ sent' \o buf' = sent \o buf
         /\ sent \o buf = Text!Promised
<1>1. TypeOK /\ InBuffer /\ Quiet /\ Whole /\ Dropped /\ stage = "open" /\ ~busy
  BY DEF GenInv, json_str_end
<1>2. /\ buf \in Seq(Char) /\ sent \in Seq(Char) /\ asked \in Seq(Char)
      /\ <<>> \in Seq(Char) /\ Len(<<>>) = 0 /\ sent \o buf \in Seq(Char)
      /\ (sent \o buf) \o <<>> = sent \o buf /\ sent \o <<>> = sent
      /\ <<>> \o <<>> = <<>> /\ <<>> \o buf = buf
  BY <1>1, Joining, EmptySeq, Zenon DEF TypeOK
<1>3. /\ asked' = asked /\ cut' = cut /\ flush_cb' = flush_cb /\ buf_size' = buf_size
      /\ head' = head /\ last' = last /\ busy' = busy /\ ret' = ret
      /\ comma_req' = FALSE /\ stage' = "ended"
  BY DEF json_str_end
<1>4. head = <<>> /\ last = <<>>
  BY <1>1 DEF Quiet
<1>5. /\ sent' \in Seq(Char) /\ buf' \in Seq(Char) /\ sent' \o buf' = sent \o buf
      /\ ~flush_cb => sent' = sent /\ buf' = buf
      /\ Len(buf') < buf_size
  <2>1. CASE flush_cb
    <3>1. sent' = sent \o buf /\ buf' = <<>>
      BY <2>1 DEF json_str_end
    <3>2. QED BY <2>1, <3>1, <1>1, <1>2, GenAssumption DEF TypeOK
  <2>2. CASE ~flush_cb
    <3>1. sent' = sent /\ buf' = buf
      BY <2>2 DEF json_str_end
    <3>2. QED BY <3>1, <1>1, <1>2 DEF InBuffer
  <2>3. QED BY <2>1, <2>2
<1>6. TypeOK'
  BY <1>1, <1>3, <1>5 DEF TypeOK
<1>7. InBuffer'
  BY <1>3, <1>5 DEF InBuffer
<1>8. Quiet'
  BY <1>1, <1>3, <1>4 DEF Quiet
<1>9. Whole'
  BY <1>1, <1>3, <1>5 DEF Whole
<1>10. Dropped'
  <2>1. CASE flush_cb
    BY <2>1, <1>1, <1>3 DEF Dropped
  <2>2. CASE ~flush_cb
    BY <2>2, <1>1, <1>3, <1>5 DEF Dropped, Text!IsPrefix
  <2>3. QED BY <2>1, <2>2
<1>11. sent \o buf = Text!Promised
  <2>1. buf_size \in Nat /\ buf_size - 1 # -1 /\ Len(buf) <= buf_size - 1
    BY <1>1, Room, GenAssumption DEF TypeOK, InBuffer
  <2>2. CASE ~cut
    <3>1. asked = sent \o buf
      BY <2>2, <1>1, <1>2, <1>4 DEF Whole
    <3>2. ~flush_cb => asked = buf
      BY <3>1, <1>1, <1>2 DEF Dropped
    <3>3. QED BY <3>1, <3>2, <2>1 DEF Text!Promised, Text!Unlimited
  <2>3. CASE cut
    <3>1. /\ ~flush_cb /\ sent \o buf = buf /\ Len(buf) = buf_size - 1
          /\ Text!IsPrefix(buf, asked)
      BY <2>3, <1>1, <1>2 DEF Dropped
    <3>2. /\ buf = SubSeq(asked, 1, buf_size - 1)
          /\ Len(asked) <= buf_size - 1 => buf = asked
      BY <3>1, <1>2, PrefixIsFront
    <3>3. QED BY <3>1, <3>2, <2>1 DEF Text!Promised, Text!Unlimited
  <2>4. QED BY <2>2, <2>3
<1>12. QED BY <1>5, <1>6, <1>7, <1>8, <1>9, <1>10, <1>11 DEF GenInv

(***************************************************************************)
(* The theorems.                                                           *)
(***************************************************************************)

\* The disjuncts of a step.
LEMMA Steps ==
  ASSUME TypeOK, Next
  PROVE  \/ \E size \in BufSize, cb \in BOOLEAN : json_str_start(size, cb)
         \/ \E h, l \in Seq(Char), c \in BOOLEAN : Call(h, l, c)
         \/ AddRest \/ AddAndFlush \/ AddAndDrop
         \/ json_str_end
BY CallsAdd DEF Next, Add

LEMMA StutterInv ==
  ASSUME GenInv, UNCHANGED genVars
  PROVE  GenInv'
BY DEF GenInv, TypeOK, InBuffer, Quiet, Whole, Dropped, genVars, Text!IsPrefix

LEMMA NextInv ==
  ASSUME GenInv, [Next]_genVars
  PROVE  GenInv'
<1>1. CASE UNCHANGED genVars
  BY <1>1, StutterInv
<1>2. CASE Next
  <2>1. TypeOK
    BY DEF GenInv
  <2>2. CASE \E size \in BufSize, cb \in BOOLEAN : json_str_start(size, cb)
    BY <2>2, StartInv
  <2>3. CASE \E h, l \in Seq(Char), c \in BOOLEAN : Call(h, l, c)
    BY <2>3, CallInv
  <2>4. CASE AddRest
    BY <2>4, AddRestInv
  <2>5. CASE AddAndFlush
    BY <2>5, AddAndFlushInv
  <2>6. CASE AddAndDrop
    BY <2>6, AddAndDropInv
  <2>7. CASE json_str_end
    BY <2>7, EndInv
  <2>8. QED BY <1>2, <2>1, <2>2, <2>3, <2>4, <2>5, <2>6, <2>7, Steps
<1>3. QED BY <1>1, <1>2

\* The invariant holds of every state (json_add_to_str with all its callers).
THEOREM Invariance == Spec => []GenInv
<1>1. Init => GenInv
  BY InitInv
<1>2. GenInv /\ [Next]_genVars => GenInv'
  BY NextInv
<1>3. QED BY <1>1, <1>2, PTL DEF Spec

\* The variables hold what they are for, and the text never reaches the last
\* byte of the buffer, which the final 0 takes (json_get_empty_len).
THEOREM TypeCorrect == Spec => [](TypeOK /\ InBuffer)
<1>1. GenInv => TypeOK /\ InBuffer
  BY DEF GenInv
<1>2. QED BY <1>1, Invariance, PTL

\* At any time what has come out is a beginning of what was asked for.
LEMMA OutIsPrefix ==
  GenInv => Text!IsPrefix(sent \o buf, asked)
<1> SUFFICES ASSUME GenInv PROVE Text!IsPrefix(sent \o buf, asked)
  OBVIOUS
<1>1. TypeOK /\ Whole /\ Dropped /\ <<>> \in Seq(Char)
  BY Joining, Zenon DEF GenInv
<1>2. /\ sent \o buf \in Seq(Char) /\ head \o last \in Seq(Char)
      /\ buf \in Seq(Char) /\ <<>> \o buf = buf
  BY <1>1, Joining, Zenon DEF TypeOK
<1>3. CASE cut
  <2>1. sent = <<>> /\ Text!IsPrefix(buf, asked)
    BY <1>1, <1>3 DEF Dropped
  <2>2. QED BY <2>1, <1>2
<1>4. CASE ~cut
  <2>1. asked = (sent \o buf) \o (head \o last)
    BY <1>1, <1>4 DEF Whole
  <2>2. QED BY <2>1, <1>2, FrontIsPrefix
<1>5. QED BY <1>3, <1>4

\* A turn of json_add_to_str gives some more of the text.
LEMMA AddGives ==
  ASSUME GenInv, AddRest \/ AddAndFlush \/ AddAndDrop
  PROVE  Text!Give
<1>1. /\ GenInv'
      /\ \E x \in Seq(Char) : sent' \o buf' = (sent \o buf) \o x
  <2>1. TypeOK
    BY DEF GenInv
  <2>2. Adding \in Seq(Char)
    BY <2>1, AddingFirst
  <2>3. CASE AddRest
    BY <2>2, <2>3, AddRestInv
  <2>4. CASE AddAndFlush
    BY <2>4, AddAndFlushInv
  <2>5. CASE AddAndDrop
    BY <2>5, AddAndDropInv
  <2>6. QED BY <2>3, <2>4, <2>5
<1>2. sent \o buf \in Seq(Char)
  BY Joining, Zenon DEF GenInv, TypeOK
<1>3. Text!IsPrefix(sent \o buf, sent' \o buf')
  BY <1>1, <1>2, FrontIsPrefix
<1>4. /\ asked' = asked /\ stage' = stage /\ flush_cb' = flush_cb
      /\ buf_size' = buf_size
  BY DEF AddRest, AddAndFlush, AddAndDrop
<1>5. Text!IsPrefix(sent' \o buf', asked')
  <2>1. (Text!IsPrefix(sent \o buf, asked))'
    BY <1>1, OutIsPrefix, PTL
  <2>2. QED BY <2>1 DEF Text!IsPrefix
<1>6. stage = "open"
  <2>1. busy /\ Quiet /\ TypeOK
    BY DEF GenInv, AddRest, AddAndFlush, AddAndDrop
  <2>2. QED BY <2>1 DEF Quiet
<1>7. QED BY <1>3, <1>4, <1>5, <1>6 DEF Text!Give

\* Every step of the generator is one of the promise, or none.
LEMMA StepRefines ==
  ASSUME GenInv, [Next]_genVars
  PROVE  [Text!Next]_(Text!textVars)
<1>1. TypeOK /\ Quiet
  BY DEF GenInv
<1>2. CASE UNCHANGED genVars
  BY <1>2 DEF genVars, Text!textVars
<1>3. ASSUME NEW size \in BufSize, NEW cb \in BOOLEAN, json_str_start(size, cb)
      PROVE  Text!Begin
  <2>1. sent' \o buf' = sent \o buf /\ asked' = asked
    BY <1>1, <1>3 DEF Quiet, json_str_start
  <2>2. (IF cb THEN -1 ELSE size - 1) \in Nat \cup {-1}
    BY GenAssumption
  <2>3. QED BY <1>3, <2>1, <2>2, GenAssumption
            DEF json_str_start, Text!Begin, Text!Unlimited
<1>4. ASSUME NEW h \in Seq(Char), NEW l \in Seq(Char), NEW c \in BOOLEAN, Call(h, l, c)
      PROVE  Text!Ask
  <2>1. Text!IsPrefix(asked, asked')
    BY <1>4, CallInv
  <2>2. QED BY <1>4, <2>1 DEF Call, Text!Ask
<1>5. CASE AddRest \/ AddAndFlush \/ AddAndDrop
  BY <1>5, AddGives DEF Text!Next
<1>6. CASE json_str_end
  <2>1. sent' \o buf' = sent \o buf /\ sent \o buf = Text!Promised
    BY <1>6, EndInv
  <2>2. Text!End
    BY <1>6, <2>1 DEF json_str_end, Text!End
  <2>3. QED BY <2>2 DEF Text!Next
<1>7. CASE Next
  BY <1>1, <1>3, <1>4, <1>5, <1>6, <1>7, Steps DEF Text!Next
<1>8. QED BY <1>2, <1>7

LEMMA InitRefines ==
  Init => Text!Init
<1> SUFFICES ASSUME Init PROVE Text!Init
  OBVIOUS
<1>1. sent \o buf = <<>>
  BY Joining, Zenon DEF Init
<1>2. buf_size - 1 \in Nat
  BY GenAssumption DEF Init
<1>3. QED BY <1>1, <1>2 DEF Init, Text!Init, Text!Unlimited

\* The generator implements JsonText: the text of the calls comes out in
\* order and unchanged, the whole of it if there is a flush callback or room,
\* and otherwise what the buffer holds (json_add_to_str, json_str_end).
THEOREM Refinement == Spec => Delivers
<1>1. Init => Text!Init
  BY InitRefines
<1>2. GenInv /\ [Next]_genVars => [Text!Next]_(Text!textVars)
  BY StepRefines
<1>3. QED BY <1>1, <1>2, Invariance, PTL DEF Spec, Delivers, Text!Spec

\* What the callback gets before the end is a whole buffer
\* (json_add_to_str).
THEOREM ChunksAreFull == Spec => FullChunks
<1>1. ASSUME GenInv, [Next]_genVars
      PROVE  [sent' # sent => \/ Len(sent') - Len(sent) = buf_size - 1
                              \/ stage' = "ended"]_genVars
  <2>1. TypeOK
    BY <1>1 DEF GenInv
  <2>2. CASE UNCHANGED genVars
    BY <2>2
  <2>3. CASE AddAndFlush
    BY <1>1, <2>3, AddAndFlushInv
  <2>4. CASE AddRest \/ AddAndDrop
    BY <2>4 DEF AddRest, AddAndDrop
  <2>5. CASE json_str_end
    BY <2>5 DEF json_str_end
  <2>6. CASE \E size \in BufSize, cb \in BOOLEAN : json_str_start(size, cb)
    BY <2>6 DEF json_str_start
  <2>7. CASE \E h, l \in Seq(Char), c \in BOOLEAN : Call(h, l, c)
    BY <2>7 DEF Call
  <2>8. QED BY <1>1, <2>1, <2>2, <2>3, <2>4, <2>5, <2>6, <2>7, Steps
<1>2. QED BY <1>1, Invariance, PTL DEF Spec, FullChunks

\* A call returns -1 only if some text has been dropped, and 0 with text
\* dropped only if its last string was empty (json_add_to_str and the
\* functions that return its last result).
THEOREM DropsReported == Spec => DropsAreTold
<1> DEFINE Told == busy /\ ~busy' =>
                     IF ret' = -1 THEN cut' ELSE cut' => last = <<>>
<1>1. ASSUME GenInv, [Next]_genVars
      PROVE  [Told]_genVars
  <2>1. TypeOK
    BY <1>1 DEF GenInv
  <2>2. CASE UNCHANGED genVars
    BY <2>2
  <2>3. CASE AddRest
    BY <1>1, <2>3, AddRestInv
  <2>4. CASE AddAndDrop
    BY <1>1, <2>4, AddAndDropInv
  <2>5. CASE AddAndFlush
    BY <2>5 DEF AddAndFlush
  <2>6. CASE json_str_end
    BY <2>6 DEF json_str_end
  <2>7. CASE \E size \in BufSize, cb \in BOOLEAN : json_str_start(size, cb)
    BY <2>7 DEF json_str_start
  <2>8. CASE \E h, l \in Seq(Char), c \in BOOLEAN : Call(h, l, c)
    BY <2>8 DEF Call
  <2>9. QED BY <1>1, <2>1, <2>2, <2>3, <2>4, <2>5, <2>6, <2>7, <2>8, Steps
<1>2. QED BY <1>1, Invariance, PTL DEF Spec, DropsAreTold
=============================================================================
