------------------------------ MODULE JsonDoc -------------------------------
(***************************************************************************)
(* A document on its way: a client builds it with JsonGen, as the notes of *)
(* json_generator.h ask (elements between the start and the end of their   *)
(* object or array), and a reader looks things up in it with JsonParse.    *)
(***************************************************************************)
EXTENDS JsonGen, JsonParse

CONSTANTS MaxNodes,     \* elements of a document, the root included
          MaxDepth,     \* objects and arrays inside each other
          MaxLong       \* characters of a long string

VARIABLES
    doc,    \* history: the elements in the order the client added them
    nest,   \* the objects and arrays the client has open, the innermost last
    long,   \* the client has a long string open
    at,     \* the element of doc the reader is at
    read    \* the reader has had the text

docVars == <<doc, nest, long, at, read>>
vars == <<genVars, parseVars, docVars>>

\* The generator escapes nothing, so a caller gives it names and strings
\* without a quotation mark; the words it prints are ones the parser knows
\* from their first character (true, false, null and the numbers, but not
\* inf).
Unquoted(text) == \A i \in 1..Len(text) : text[i] # "\""
Plain(word) == /\ word # <<>> /\ word[1] \in Start
               /\ \A i \in 1..Len(word) : word[i] \notin Punctuation \cup Blank

ASSUME DocAssumption ==
    /\ \A text \in Name \cup Part : Unquoted(text)
    /\ \A v \in Value : IF v.type = "string" THEN Unquoted(v.val) ELSE Plain(Word(v))
    /\ {MaxNodes, MaxDepth, MaxLong} \subseteq Nat

\* What strtoul and strtof read is what "%d" and "%.*f" print: a word of
\* digits and no other.
Reading(numbers, word, wanted) ==
    IF wanted.found THEN word \in DOMAIN numbers /\ numbers[word] = wanted.is
                    ELSE word \notin DOMAIN numbers

AsInt(v) == IF v.type = "int" THEN Found(v.val) ELSE Nothing
AsFloat(v) == CASE v.type = "int"   -> Found(v.val * 1000000)
                [] v.type = "float" -> Found(FloatPrinted(v.val) * 10)
                [] OTHER            -> Nothing

ASSUME WordAssumption ==
    \A v \in Value :
        /\ v.type \in {"bool", "int", "float", "null", "string"}
        /\ v.type = "bool" => v.val \in BOOLEAN
        /\ v.type # "string" => /\ Reading(Integer, Word(v), AsInt(v))
                                /\ Reading(Float, Word(v), AsFloat(v))
        /\ v.type = "int" => /\ Word(v) = <<"1">> <=> v.val = 1
                             /\ Word(v) = <<"0">> <=> v.val = 0
                             /\ Word(v) \notin {<<"true">>, <<"false">>}

NoName == <<>>
Container == {"object", "array"}

Top == nest[Len(nest)]
Building == stage = "open" /\ ~busy
InObject == Building /\ ~long /\ nest # <<>> /\ doc[Top].type = "object"
InArray == Building /\ ~long /\ nest # <<>> /\ doc[Top].type = "array"

Node(name, type, val) ==
    [parent |-> IF nest = <<>> THEN 0 ELSE Top, name |-> name, type |-> type, val |-> val]

ByClient == UNCHANGED <<parseVars, at, read>>
ByReader == UNCHANGED <<genVars, doc, nest, long>>

----------------------------------------------------------------------------
(* The client.                                                             *)

Opens(name, type) ==
    /\ Len(doc) < MaxNodes /\ Len(nest) < MaxDepth
    /\ doc' = Append(doc, Node(name, type, <<>>))
    /\ nest' = Append(nest, Len(doc) + 1)
    /\ UNCHANGED long /\ ByClient

Sets(name, v, open) ==
    /\ Len(doc) < MaxNodes
    /\ doc' = Append(doc, Node(name, v.type, v.val))
    /\ long' = open
    /\ UNCHANGED nest /\ ByClient

Str(part) == [type |-> "string", val |-> part]

StartText ==
    /\ \E size \in BufSize, cb \in BOOLEAN : json_str_start(size, cb)
    /\ UNCHANGED docVars /\ ByClient

Root == /\ Building /\ doc = <<>>
        /\ \/ json_start_object /\ Opens(NoName, "object")
           \/ json_start_array /\ Opens(NoName, "array")

AddToObject ==
    /\ InObject
    /\ \E name \in Name :
         \/ json_push_object(name) /\ Opens(name, "object")
         \/ json_push_array(name) /\ Opens(name, "array")
         \/ \E v \in Value : json_obj_set(name, v) /\ Sets(name, v, FALSE)
         \/ \E part \in Part :
              json_obj_start_long_string(name, part) /\ Sets(name, Str(part), TRUE)

AddToArray ==
    /\ InArray
    /\ \/ json_start_object /\ Opens(NoName, "object")
       \/ json_start_array /\ Opens(NoName, "array")
       \/ \E v \in Value : json_arr_set(v) /\ Sets(NoName, v, FALSE)
       \/ \E part \in Part :
            json_arr_start_long_string(part) /\ Sets(NoName, Str(part), TRUE)

MoreOfLong ==
    /\ Building /\ long
    /\ \/ \E part \in Part :
            /\ Len(doc[Len(doc)].val) + Len(part) <= MaxLong
            /\ json_add_to_long_string(part)
            /\ doc' = [doc EXCEPT ![Len(doc)].val = @ \o part]
            /\ UNCHANGED long
       \/ json_end_long_string /\ long' = FALSE /\ UNCHANGED doc
    /\ UNCHANGED nest /\ ByClient

Close ==
    /\ \/ InObject /\ json_pop_object
       \/ InArray /\ json_pop_array
    /\ nest' = Front(nest)
    /\ UNCHANGED <<doc, long>> /\ ByClient

EndText ==
    /\ nest = <<>> /\ doc # <<>>
    /\ json_str_end
    /\ UNCHANGED docVars /\ ByClient

Client == StartText \/ Root \/ AddToObject \/ AddToArray \/ MoreOfLong \/ Close \/ EndText

----------------------------------------------------------------------------
(* The reader.                                                             *)

\* Character i of the text stands in no name and no string.
Outside(text, i) == Cardinality({k \in 1..i : text[k] = "\""}) % 2 = 0

\* The text as another writer would print it, with blanks.
Spaced(text) ==
    FlattenSeq([i \in 1..Len(text) |-> IF text[i] \in {",", ":"} /\ Outside(text, i)
                                       THEN <<text[i], " ">> ELSE <<text[i]>>])

ReadText ==
    /\ stage = "ended" /\ ~read
    /\ \E text \in {sent \o buf, Spaced(sent \o buf)} : json_parse_start(text)
    /\ read' = TRUE
    /\ at' = 1
    /\ ByReader

Parse == ParseStep /\ UNCHANGED <<at, read>> /\ ByReader

Children(n) == {c \in 1..Len(doc) : doc[c].parent = n}

\* The first child of n with this name, or 0; the item of n at this index.
Named(n, name) ==
    LET same == {c \in Children(n) : doc[c].name = name}
    IN  IF doc[n].type # "object" \/ same = {} THEN 0 ELSE Min(same)
Item(n, index) ==
    LET there == {c \in Children(n) : Cardinality({b \in Children(n) : b < c}) = index}
    IN  IF doc[n].type # "array" \/ there = {} THEN 0 ELSE Min(there)

GoDown ==
    /\ \/ \E name \in Name, type \in Container :
            json_obj_get(name, type) /\ at' = Named(at, name)
       \/ \E index \in 0..MaxNodes, type \in Container :
            json_arr_get(index, type) /\ at' = Item(at, index)
    /\ UNCHANGED read /\ ByReader

GoUp ==
    /\ at > 1 /\ pass = "ready"
    /\ IF doc[doc[at].parent].type = "object" THEN json_obj_leave ELSE json_arr_leave
    /\ at' = doc[at].parent
    /\ UNCHANGED read /\ ByReader

EndRead == json_parse_end /\ UNCHANGED <<at, read>> /\ ByReader

Reader == ReadText \/ Parse \/ GoDown \/ GoUp \/ EndRead

----------------------------------------------------------------------------

AddStep == Add /\ UNCHANGED docVars /\ ByClient

DocInit ==
    /\ Init
    /\ ParserInit
    /\ doc = <<>> /\ nest = <<>> /\ long = FALSE /\ at = 0 /\ read = FALSE

DocNext == AddStep \/ Client \/ Reader

\* The loops of json_add_to_str and of the tokenizer run on.
DocSpec == DocInit /\ [][DocNext]_vars /\ WF_vars(AddStep) /\ WF_vars(Parse)

----------------------------------------------------------------------------
(* Properties.                                                             *)

\* The types, the buffer within its bounds and the parser within its text
\* and its tokens (json_get_empty_len, __jsmn_parse).
DocTypeOK ==
    /\ TypeOK
    /\ InBuffer
    /\ pass \in {"off", "count", "fill", "ready", "refused"}
    /\ pos \in 0..Len(js)
    /\ toksuper \in 0..toknext
    /\ cur \in 0..toknext
    /\ at \in 0..Len(doc)

\* What element n of the document gives to each kind of question.
WantBool(n) ==
    CASE n # 0 /\ doc[n].type = "bool" -> Found(doc[n].val)
      [] n # 0 /\ doc[n].type = "int" /\ doc[n].val \in {0, 1} -> Found(doc[n].val = 1)
      [] OTHER -> Nothing
WantInt(n) == IF n # 0 THEN AsInt(doc[n]) ELSE Nothing
WantFloat(n) == IF n # 0 THEN AsFloat(doc[n]) ELSE Nothing
WantString(n, size) ==
    IF n # 0 /\ doc[n].type = "string" /\ Len(doc[n].val) < size
    THEN Found(doc[n].val) ELSE Nothing
WantStrlen(n) ==
    IF n # 0 /\ doc[n].type = "string" THEN Found(Len(doc[n].val)) ELSE Nothing

\* The answers the parser gives, and whether they are those: prim, str, obj
\* and arr are the tokens it finds when asked for each type.
Agrees(n, prim, str, obj, arr) ==
    /\ json_get_bool(prim) = WantBool(n)
    /\ json_get_int(prim) = WantInt(n)
    /\ json_get_float(prim) = WantFloat(n)
    /\ \A size \in 1..(MaxLong + 1) : json_get_string(str, size) = WantString(n, size)
    /\ json_get_strlen(str) = WantStrlen(n)
    /\ (obj # 0) = (n # 0 /\ doc[n].type = "object")
    /\ (arr # 0) = (n # 0 /\ doc[n].type = "array")

\* Wherever the reader has gone, it finds under each name and at each index
\* what the client has put there, and nothing where it has put nothing:
\* commas and quotes of the generator, token sizes and parents of the
\* tokenizer, and the walk over the tokens fit together.
RoundTrip ==
    pass = "ready" =>
        /\ \A name \in Name :
             Agrees(Named(at, name), ValueOf(name, "primitive"), ValueOf(name, "string"),
                    ValueOf(name, "object"), ValueOf(name, "array"))
        /\ \A index \in 0..MaxNodes :
             Agrees(Item(at, index), ItemAt(index, "primitive"), ItemAt(index, "string"),
                    ItemAt(index, "object"), ItemAt(index, "array"))

\* A document that did not fit its buffer, and every caller in the agent
\* ignores that, is refused by json_parse_start and never read as another.
CutIsRefused == pass = "ready" => ~cut

\* A complete document is accepted, unless there is no memory: the parser
\* refuses nothing the generator makes.
WholeIsAccepted ==
    [][pass # "refused" /\ pass' = "refused" => cut \/ NoTokens]_vars

\* Every call returns, and so does json_parse_start.
CallReturns == busy ~> ~busy
ParseReturns == Parsing ~> ~Parsing
=============================================================================
