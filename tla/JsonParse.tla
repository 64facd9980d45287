----------------------------- MODULE JsonParse ------------------------------
(***************************************************************************)
(* The JSON parser: the tokenizer (jsmn-changed.c, built with JSMN_STRICT  *)
(* and JSMN_PARENT_LINKS) and the functions that look things up among its  *)
(* tokens (json_parser.c).                                                 *)
(*                                                                         *)
(* A text is a sequence of characters, as in JsonGen; positions count from *)
(* 0, as in the code, tokens from 1, and 0 is "no token".                  *)
(***************************************************************************)
EXTENDS Integers, Sequences, SequencesExt

CONSTANTS
    Integer,    \* the texts strtoul reads to the end, with what it returns
    Float,      \* the same for strtof, in millionths
    Start       \* the characters a primitive may start with

VARIABLES
    js,         \* the text
    pass,       \* "off", "count", "fill", "ready", "refused"
    pos,        \* parser->pos
    tokens,     \* jctx->tokens[0 .. toknext - 1]; <<>> in the counting pass
    toksuper,   \* parser->toksuper
    count,      \* what the running pass has counted
    num_tokens, \* jctx->num_tokens
    cur         \* jctx->cur

parseVars == <<js, pass, pos, tokens, toksuper, count, num_tokens, cur>>

Opening == {"{", "["}
Closing == {"}", "]"}
Blank == {" "}

AtEnd == pos >= Len(js)
At == js[pos + 1]
toknext == Len(tokens)

\* jsmn_parse_primitive is called for none of the characters that the loop of
\* __jsmn_parse has a case for.
ASSUME ParseAssumption ==
    Start \cap (Opening \cup Closing \cup Blank \cup {"\"", ":", ","}) = {}

TypeOf(bracket) == IF bracket \in {"{", "}"} THEN "object" ELSE "array"

Token(type, start, end, parent) ==
    [type |-> type, start |-> start, end |-> end, size |-> 0, parent |-> parent]

IsOpen(tok) == tok.end = -1

\* Mutant: the superior token does not count its elements.
Unsized(tok) == Append(tokens, tok)

\* tokens with a new one, the size of the superior token counted up.
WithToken(tok) ==
    Append(IF toksuper = 0 THEN tokens
                           ELSE [tokens EXCEPT ![toksuper].size = @ + 1], tok)

----------------------------------------------------------------------------
(* json_parse_start: __jsmn_init and two passes of __jsmn_parse, the first *)
(* without tokens, to count them.                                          *)

json_parse_start(text) ==
    /\ pass = "off"
    /\ js' = text
    /\ pass' = "count"
    /\ pos' = 0 /\ tokens' = <<>> /\ toksuper' = 0 /\ count' = 0
    /\ num_tokens' = 0
    /\ cur' = 0

\* Any error frees what there is: the caller gets nothing.  What is left in
\* jctx then, the code never reads.
Refuse ==
    /\ pass' = "refused"
    /\ tokens' = <<>> /\ num_tokens' = 0 /\ cur' = 0
    /\ pos' = 0 /\ toksuper' = 0
    /\ UNCHANGED <<js, count>>

Parsing == pass \in {"count", "fill"}

\* jsmn_alloc_token has a token left.
HasToken == toknext < num_tokens

\* One turn of the loop is over, at this position.
Continue(at, toks, super, n) ==
    /\ pos' = at + 1
    /\ tokens' = toks
    /\ toksuper' = super
    /\ count' = n
    /\ UNCHANGED <<js, pass, num_tokens, cur>>

\* Mutant: the counting pass leaves out objects and arrays.
BracketUncounted ==
    /\ Parsing /\ ~AtEnd /\ At \in Opening
    /\ CASE pass = "count" -> Continue(pos, tokens, toksuper, count)
         [] HasToken -> Continue(pos, WithToken(Token(TypeOf(At), pos, -1, toksuper)),
                                 toknext + 1, count + 1)
         [] OTHER -> Refuse

OpenBracket ==
    /\ Parsing /\ ~AtEnd /\ At \in Opening
    /\ CASE pass = "count" -> Continue(pos, tokens, toksuper, count + 1)
         [] HasToken -> Continue(pos, WithToken(Token(TypeOf(At), pos, -1, toksuper)),
                                 toknext + 1, count + 1)
         [] OTHER -> Refuse

\* The token a closing bracket meets first on its way from the last token
\* to the root that is still open, or 0.
Innermost ==
    LET f[i \in 0..toknext] ==
          IF i = 0 \/ IsOpen(tokens[i]) THEN i ELSE f[tokens[i].parent]
    IN  f[toknext]

CloseBracket ==
    /\ Parsing /\ ~AtEnd /\ At \in Closing
    /\ LET i == Innermost IN
       CASE pass = "count" -> Continue(pos, tokens, toksuper, count)
         [] pass = "fill" /\ (toknext < 1 \/ (i # 0 /\ tokens[i].type # TypeOf(At)))
              -> Refuse
         [] OTHER -> IF i = 0
                     THEN Continue(pos, tokens, toksuper, count)
                     ELSE Continue(pos, [tokens EXCEPT ![i].end = pos + 1],
                                   tokens[i].parent, count)

\* jsmn_parse_string, jsmn_parse_primitive: a token from start to end, with
\* the loop to go on after the character at the last position.
Element(type, start, end, at) ==
    CASE pass = "count" -> Continue(at, tokens, toksuper, count + 1)
      [] HasToken -> Continue(at, WithToken(Token(type, start, end, toksuper)),
                              toksuper, count + 1)
      [] OTHER -> Refuse

\* The position of the first character from position "from" on that is one
\* of "chars", or the length of the text.
Next1(from, chars) ==
    LET i == SelectInSubSeq(js, from + 1, Len(js), LAMBDA c : c \in chars)
    IN  IF i = 0 THEN Len(js) ELSE i - 1

\* Names and strings hold no backslash here, so no escapes.
StringStarts ==
    /\ Parsing /\ ~AtEnd /\ At = "\""
    /\ LET end == Next1(pos + 1, {"\""})
       IN  IF end = Len(js) THEN Refuse
                            ELSE Element("string", pos + 1, end, end)

\* A primitive is no key of an object, and something must follow it.
Primitive ==
    /\ Parsing /\ ~AtEnd
    /\ At \notin Opening \cup Closing \cup Blank \cup {"\"", ":", ","}
    /\ LET end == Next1(pos, Closing \cup Blank \cup {","})
           asKey == /\ pass = "fill" /\ toksuper # 0
                    /\ \/ tokens[toksuper].type = "object"
                       \/ /\ tokens[toksuper].type = "string"
                          /\ tokens[toksuper].size # 0
       IN  IF At \notin Start \/ asKey \/ end = Len(js)
           THEN Refuse
           ELSE Element("primitive", pos, end, end - 1)

\* Mutant: the counting pass counts a token per colon as well.
ColonCounted ==
    /\ Parsing /\ ~AtEnd /\ At = ":"
    /\ Continue(pos, tokens, toknext, IF pass = "count" THEN count + 1 ELSE count)

Colon == /\ Parsing /\ ~AtEnd /\ At = ":"
         /\ Continue(pos, tokens, toknext, count)

\* After the value of a key the superior token is the object again.
Comma ==
    /\ Parsing /\ ~AtEnd /\ At = ","
    /\ Continue(pos, tokens,
                IF /\ pass = "fill" /\ toksuper # 0
                   /\ tokens[toksuper].type \notin {"array", "object"}
                THEN tokens[toksuper].parent
                ELSE toksuper,
                count)

\* Mutant: a blank is not passed over.
StayAtBlank == /\ Parsing /\ ~AtEnd /\ At \in Blank
               /\ UNCHANGED parseVars

SkipBlank == /\ Parsing /\ ~AtEnd /\ At \in Blank
             /\ Continue(pos, tokens, toksuper, count)

Counted ==
    /\ pass = "count" /\ AtEnd
    /\ IF count <= 0
       THEN Refuse
       ELSE /\ num_tokens' = count
            /\ pass' = "fill"
            /\ pos' = 0 /\ toksuper' = 0 /\ count' = 0
            /\ UNCHANGED <<js, tokens, cur>>

\* esp_cloud_mem_calloc fails.
NoTokens == pass = "count" /\ AtEnd /\ count > 0 /\ Refuse

\* Mutant: tokens left open are not looked for.
OpenAccepted ==
    /\ pass = "fill" /\ AtEnd
    /\ IF count <= 0
       THEN Refuse
       ELSE /\ pass' = "ready"
            /\ cur' = 1
            /\ UNCHANGED <<js, pos, tokens, toksuper, count, num_tokens>>

Tokenized ==
    /\ pass = "fill" /\ AtEnd
    /\ IF count <= 0 \/ \E i \in 1..toknext : IsOpen(tokens[i])
       THEN Refuse
       ELSE /\ pass' = "ready"
            /\ cur' = 1
            /\ UNCHANGED <<js, pos, tokens, toksuper, count, num_tokens>>

ParseStep == \/ OpenBracket \/ CloseBracket \/ StringStarts \/ Primitive
             \/ Colon \/ Comma \/ SkipBlank
             \/ Counted \/ NoTokens \/ Tokenized

----------------------------------------------------------------------------
(* Looking up.  Every function returns what it finds or Nothing.           *)

Nothing == [found |-> FALSE]
Found(x) == [found |-> TRUE, is |-> x]

TextOf(i) == SubSeq(js, tokens[i].start + 1, tokens[i].end)

\* The last token of the element that starts with token i.
json_skip_elem[i \in 1..toknext] ==
    LET past[k \in 0..tokens[i].size] ==
          IF k = 0 THEN i ELSE json_skip_elem[past[k - 1] + 1]
    IN  past[tokens[i].size]

\* The tokens of the elements of cur: its keys, or the elements of an array.
Elements ==
    LET nth[k \in 1..tokens[cur].size] ==
          IF k = 1 THEN cur + 1 ELSE json_skip_elem[nth[k - 1]] + 1
    IN  nth

\* json_obj_search
Key(name) ==
    IF tokens[cur].type # "object" THEN 0
    ELSE LET i == SelectInSeq(Elements, LAMBDA t : TextOf(t) = name)
         IN  IF i = 0 THEN 0 ELSE Elements[i]

\* json_obj_get_val_tok, json_arr_get_val_tok
ValueOf(name, type) ==
    IF Key(name) # 0 /\ tokens[Key(name) + 1].type = type THEN Key(name) + 1 ELSE 0
ItemAt(index, type) ==
    IF /\ tokens[cur].type = "array" /\ index < tokens[cur].size
       /\ tokens[Elements[index + 1]].type = type
    THEN Elements[index + 1] ELSE 0

\* json_tok_to_bool, _int, _float, json_tok_to_string with room for size
\* characters, the final 0 included, and the length a string has.
TokToBool(i) == CASE TextOf(i) \in {<<"true">>, <<"1">>}  -> Found(TRUE)
                  [] TextOf(i) \in {<<"false">>, <<"0">>} -> Found(FALSE)
                  [] OTHER -> Nothing
TokToInt(i) ==
    IF TextOf(i) \in DOMAIN Integer THEN Found(Integer[TextOf(i)]) ELSE Nothing
TokToFloat(i) ==
    IF TextOf(i) \in DOMAIN Float THEN Found(Float[TextOf(i)]) ELSE Nothing
TokToString(i, size) == IF Len(TextOf(i)) > size - 1 THEN Nothing ELSE Found(TextOf(i))
TokToStrlen(i) == Found(Len(TextOf(i)))

json_get_bool(i) == IF i = 0 THEN Nothing ELSE TokToBool(i)
json_get_int(i) == IF i = 0 THEN Nothing ELSE TokToInt(i)
json_get_float(i) == IF i = 0 THEN Nothing ELSE TokToFloat(i)
json_get_string(i, size) == IF i = 0 THEN Nothing ELSE TokToString(i, size)
json_get_strlen(i) == IF i = 0 THEN Nothing ELSE TokToStrlen(i)

----------------------------------------------------------------------------
(* Moving about.                                                           *)

MoveTo(i) == /\ cur' = i
             /\ UNCHANGED <<js, pass, pos, tokens, toksuper, count, num_tokens>>

json_obj_get(name, type) ==
    /\ pass = "ready"
    /\ ValueOf(name, type) # 0
    /\ MoveTo(ValueOf(name, type))

json_arr_get(index, type) ==
    /\ pass = "ready"
    /\ ItemAt(index, type) # 0
    /\ MoveTo(ItemAt(index, type))

\* json_obj_leave_object, json_obj_leave_array: past the key, to the object.
json_obj_leave ==
    /\ pass = "ready"
    /\ tokens[cur].parent # 0
    /\ LET key == tokens[cur].parent
       IN  MoveTo(IF tokens[key].parent = 0 THEN key ELSE tokens[key].parent)

\* json_arr_leave_object, json_arr_leave_array: to the array.
json_arr_leave ==
    /\ pass = "ready"
    /\ tokens[cur].parent # 0
    /\ MoveTo(tokens[cur].parent)

json_parse_end ==
    /\ pass \in {"ready", "refused"}
    /\ pass' = "off"
    /\ tokens' = <<>> /\ num_tokens' = 0 /\ cur' = 0
    /\ pos' = 0 /\ toksuper' = 0
    /\ js' = <<>>
    /\ UNCHANGED count

----------------------------------------------------------------------------
(* The parser by itself, given one of these texts after the other, which   *)
(* need not be JSON.  A move about the tokens changes nothing but cur: a   *)
(* stuttering step here.                                                   *)

textVars == <<js, pass, pos, tokens, toksuper, count, num_tokens>>

ParserInit ==
    /\ js = <<>> /\ pass = "off" /\ pos = 0 /\ tokens = <<>> /\ toksuper = 0
    /\ count = 0 /\ num_tokens = 0 /\ cur = 0

ParserNext(Texts) ==
    \/ pass = "off" /\ \E text \in Texts : json_parse_start(text)
    \/ ParseStep
    \/ json_parse_end

ParserSpec(Texts) == ParserInit /\ [][ParserNext(Texts)]_textVars

----------------------------------------------------------------------------
(* Properties.                                                             *)

\* Token i lies in the text before p, and its superior token comes before it.
InText(tok, i, p) ==
    /\ tok.start <= p /\ tok.end <= p
    /\ IsOpen(tok) \/ tok.start <= tok.end
    /\ tok.parent < i

\* The tokens of any text lie in what has been read of it, each after its
\* superior, where __jsmn_parse looks for the bracket to close; those of an
\* accepted text have an end, where the lookups cut the text.
TokensInText ==
    /\ \A i \in 1..toknext : InText(tokens[i], i, pos)
    /\ pass = "ready" => 1 <= toknext /\ \A i \in 1..toknext : ~ IsOpen(tokens[i])

\* The second pass finds the tokens the first has counted, no less, so none
\* of those allocated is left unset.
PassesAgree == pass = "ready" => toknext = num_tokens

\* A token starts at this position, if the tokenizer comes there.
Passed == Closing \cup Blank \cup {":", ","}
Starts(p) == js[p + 1] \notin Passed

\* What jsmn_alloc_token returns in the second pass is never NULL: that pass
\* asks for no more tokens than the first has counted, though it alone knows
\* the tokens.
AllocationHolds == pass = "fill" /\ ~ AtEnd /\ Starts(pos) => HasToken
=============================================================================
