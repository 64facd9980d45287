------------------------------ MODULE JsonGen -------------------------------
(***************************************************************************)
(* The JSON generator (json_generator.c): a buffer of fixed size that the  *)
(* functions json_obj_set_*, json_push_object, ... fill with the pieces of *)
(* a text, handed to a callback each time it is full.                      *)
(*                                                                         *)
(* A text is a sequence of characters.  What stands for a word or a number *)
(* is one character: the code never looks into it.  A function adds        *)
(* several strings, one json_add_to_str after the other, and returns the   *)
(* result of the last one; nothing happens between them, so all but the    *)
(* last are one string here.                                               *)
(***************************************************************************)
EXTENDS Integers, Sequences, TLC

CONSTANTS
    Char,        \* the characters of a text
    Name,        \* names of elements, sequences of characters
    Value,       \* values of elements, records [type, val]
    Part,        \* parts of long strings, sequences of characters
    BufSize      \* the buffers a caller may bring

VARIABLES
    flush_cb,    \* jstr->flush_cb is set
    buf_size,    \* jstr->buf_size
    buf,         \* the characters before jstr->free_ptr
    comma_req,   \* jstr->comma_req
    sent,        \* what flush_cb has been given so far
    head, last,  \* what the running function has still to add
    busy,        \* a function of the generator is running
    ret,         \* what the last function returned
    stage,       \* "idle", "open" after json_str_start, "ended"
    asked,       \* history: the text of all calls so far
    cut          \* history: some of it found no room and was dropped

genVars == <<flush_cb, buf_size, buf, comma_req, sent, head, last, busy, ret,
             stage, asked, cut>>

Punctuation == {"{", "}", "[", "]", ",", ":", "\""}

Quote == <<"\"">>

----------------------------------------------------------------------------
(* Values.  Floats are counted in millionths, one digit more than          *)
(* JSON_FLOAT_PRECISION prints, and "%.*f" rounds the last one away.       *)

FloatPrinted(f) == (f + 5) \div 10

\* json_set_bool, json_set_int, json_set_float, json_set_null: the word.
Word(v) ==
    CASE v.type = "bool"  -> <<IF v.val THEN "true" ELSE "false">>
      [] v.type = "int"   -> <<ToString(v.val)>>
      [] v.type = "float" -> <<ToString(FloatPrinted(v.val) \div 100000), ".",
                               ToString(FloatPrinted(v.val) % 100000)>>
      [] v.type = "null"  -> <<"null">>

ASSUME GenAssumption ==
    /\ Punctuation \subseteq Char
    /\ Name \subseteq Seq(Char)
    /\ Part \subseteq Seq(Char)
    /\ \A v \in Value : /\ v.type = "string" => v.val \in Seq(Char)
                        /\ v.type # "string" => Word(v) \in Seq(Char)
    /\ BufSize \subseteq Nat \ {0, 1}

----------------------------------------------------------------------------
(* json_str_start, json_str_end                                            *)

json_str_start(size, cb) ==
    /\ stage = "idle"
    /\ buf_size' = size
    /\ flush_cb' = cb
    /\ buf' = <<>>
    /\ comma_req' = FALSE
    /\ stage' = "open"
    /\ UNCHANGED <<sent, head, last, busy, ret, asked, cut>>

\* Without a callback the text stays in the caller's buffer.
json_str_end ==
    /\ stage = "open" /\ ~busy
    /\ IF flush_cb THEN /\ sent' = sent \o buf
                        /\ buf' = <<>>
                   ELSE UNCHANGED <<sent, buf>>
    /\ comma_req' = FALSE
    /\ stage' = "ended"
    /\ UNCHANGED <<flush_cb, buf_size, head, last, busy, ret, asked, cut>>

----------------------------------------------------------------------------
(* json_add_to_str.  One step is one turn of its loop, for the strings     *)
(* before the last or, when these are done, for the last.                  *)

\* Mutant: no byte is kept for the final 0.
ToTheEnd == buf_size - Len(buf)

json_get_empty_len == buf_size - Len(buf) - 1

Adding == IF head # <<>> THEN head ELSE last

Fits == Len(Adding) <= json_get_empty_len

\* Mutant: the buffer is flushed before the piece is copied into it.
NotCopied == buf

Filled == buf \o SubSeq(Adding, 1, json_get_empty_len)

\* Mutant: the -1 of a full buffer is lost.
AlwaysZero(result) ==
    IF head # <<>>
    THEN /\ head' = <<>>
         /\ UNCHANGED <<last, busy, ret>>
    ELSE /\ last' = <<>>
         /\ busy' = FALSE
         /\ ret' = 0
         /\ UNCHANGED head

\* The string being added is done with, with this result.
Added(result) ==
    IF head # <<>>
    THEN /\ head' = <<>>
         /\ UNCHANGED <<last, busy, ret>>
    ELSE /\ last' = <<>>
         /\ busy' = FALSE
         /\ ret' = result
         /\ UNCHANGED head

AddRest ==
    /\ busy /\ Fits
    /\ buf' = buf \o Adding
    /\ Added(0)
    /\ UNCHANGED <<flush_cb, buf_size, comma_req, sent, stage, asked, cut>>

\* Mutant: the length of the piece is taken to be 0.
FlushOnly ==
    /\ busy /\ ~Fits /\ flush_cb
    /\ sent' = sent \o buf
    /\ buf' = <<>>
    /\ UNCHANGED <<flush_cb, buf_size, comma_req, head, last, busy, ret, stage,
                   asked, cut>>

\* Mutant: after a flush the string goes on one character too late.
FlushAndSkip ==
    /\ busy /\ ~Fits /\ flush_cb
    /\ sent' = sent \o Filled
    /\ buf' = <<>>
    /\ LET left == SubSeq(Adding, json_get_empty_len + 2, Len(Adding))
       IN  IF head # <<>> THEN head' = left /\ UNCHANGED last
                          ELSE last' = left /\ UNCHANGED head
    /\ UNCHANGED <<flush_cb, buf_size, comma_req, busy, ret, stage, asked, cut>>

AddAndFlush ==
    /\ busy /\ ~Fits /\ flush_cb
    /\ sent' = sent \o Filled
    /\ buf' = <<>>
    /\ LET left == SubSeq(Adding, json_get_empty_len + 1, Len(Adding))
       IN  IF head # <<>> THEN head' = left /\ UNCHANGED last
                          ELSE last' = left /\ UNCHANGED head
    /\ UNCHANGED <<flush_cb, buf_size, comma_req, busy, ret, stage, asked, cut>>

AddAndDrop ==
    /\ busy /\ ~Fits /\ ~flush_cb
    /\ buf' = Filled
    /\ Added(-1)
    /\ cut' = TRUE
    /\ UNCHANGED <<flush_cb, buf_size, comma_req, sent, stage, asked>>

----------------------------------------------------------------------------
(* The functions of the interface.                                         *)

\* A function that adds h and then l, and leaves comma_req = c.
Call(h, l, c) ==
    /\ stage = "open" /\ ~busy
    /\ head' = h
    /\ last' = l
    /\ comma_req' = c
    /\ busy' = TRUE
    /\ asked' = asked \o h \o l
    /\ UNCHANGED <<flush_cb, buf_size, buf, sent, ret, stage, cut>>

json_handle_comma == IF comma_req THEN <<",">> ELSE <<>>

json_handle_name(name) == Quote \o name \o Quote \o <<":">>

json_start_object == Call(json_handle_comma, <<"{">>, FALSE)
json_end_object   == Call(<<>>, <<"}">>, TRUE)
json_start_array  == Call(json_handle_comma, <<"[">>, FALSE)
json_end_array    == Call(<<>>, <<"]">>, TRUE)

json_push_object(name) ==
    Call(json_handle_comma \o json_handle_name(name), <<"{">>, FALSE)
json_pop_object == json_end_object
json_push_array(name) ==
    Call(json_handle_comma \o json_handle_name(name), <<"[">>, FALSE)
json_pop_array == json_end_array

\* json_set_bool, ..., json_set_string after the text in front.
SetAfter(front, v) ==
    IF v.type = "string" THEN Call(front \o Quote \o v.val, Quote, TRUE)
                         ELSE Call(front, Word(v), TRUE)

json_obj_set(name, v) ==
    SetAfter(json_handle_comma \o json_handle_name(name), v)
json_arr_set(v) == SetAfter(json_handle_comma, v)

\* A long string is opened with a first part, NULL being <<>>, continued
\* part by part and closed.
json_obj_start_long_string(name, part) ==
    Call(json_handle_comma \o json_handle_name(name) \o Quote, part, TRUE)
json_arr_start_long_string(part) ==
    Call(json_handle_comma \o Quote, part, TRUE)
json_add_to_long_string(part) == Call(<<>>, part, comma_req)
json_end_long_string == Call(<<>>, Quote, comma_req)

----------------------------------------------------------------------------
(* The generator under any sequence of calls.                              *)

\* The structure lies on the caller's stack: until json_str_start it holds
\* anything.
Init ==
    /\ flush_cb \in BOOLEAN
    /\ buf_size \in BufSize
    /\ comma_req \in BOOLEAN
    /\ buf = <<>> /\ sent = <<>>
    /\ head = <<>> /\ last = <<>>
    /\ busy = FALSE
    /\ ret = 0
    /\ stage = "idle"
    /\ asked = <<>>
    /\ cut = FALSE

Add == AddRest \/ AddAndFlush \/ AddAndDrop

Interface ==
    \/ json_start_object \/ json_end_object
    \/ json_start_array \/ json_end_array
    \/ \E name \in Name :
         \/ json_push_object(name) \/ json_push_array(name)
         \/ \E v \in Value : json_obj_set(name, v)
         \/ \E part \in Part : json_obj_start_long_string(name, part)
    \/ \E v \in Value : json_arr_set(v)
    \/ \E part \in Part :
         json_arr_start_long_string(part) \/ json_add_to_long_string(part)
    \/ json_end_long_string

Next ==
    \/ \E size \in BufSize, cb \in BOOLEAN : json_str_start(size, cb)
    \/ Interface
    \/ Add
    \/ json_str_end

Spec == Init /\ [][Next]_genVars

----------------------------------------------------------------------------
(* Properties.                                                             *)

TypeOK ==
    /\ flush_cb \in BOOLEAN /\ comma_req \in BOOLEAN
    /\ buf_size \in BufSize
    /\ buf \in Seq(Char) /\ sent \in Seq(Char) /\ asked \in Seq(Char)
    /\ head \in Seq(Char) /\ last \in Seq(Char)
    /\ busy \in BOOLEAN /\ cut \in BOOLEAN
    /\ ret \in {0, -1}
    /\ stage \in {"idle", "open", "ended"}

\* The last byte of the buffer stays free for the final 0.
InBuffer == Len(buf) < buf_size

\* What the caller sees of all this: the text of its calls, or what its
\* buffer holds of it.
Text == INSTANCE JsonText WITH
            out <- sent \o buf,
            limit <- IF flush_cb THEN -1 ELSE buf_size - 1

\* The generator does what JsonText promises: whatever the buffer, the text
\* comes out as the calls asked for it, nothing lost, doubled or out of
\* order where json_add_to_str flushes in the middle of a string; without a
\* flush callback a prefix of it (json_add_to_str, json_str_end).
Delivers == Text!Spec

\* The callback is called with a full buffer except for the last time
\* (json_generator.c:17-21).
FullChunks ==
    [][sent' # sent => \/ Len(sent') - Len(sent) = buf_size - 1
                       \/ stage' = "ended"]_genVars

\* A function that drops some of its text says so, and one that says so has:
\* it returns the result of its last json_add_to_str only, and that tells
\* the truth because a full buffer stays full -- unless the last string is
\* empty, as the first part of a long string may be.
DropsAreTold ==
    [][busy /\ ~busy' => IF ret' = -1 THEN cut' ELSE cut' => last = <<>>]_genVars
=============================================================================
