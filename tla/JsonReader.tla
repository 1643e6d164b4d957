----------------------------- MODULE JsonReader -----------------------------
(***************************************************************************)
(* The JSON reader and writer of llc/gpk_json.cpp: a machine that takes a  *)
(* character (or a number, a keyword, a code point) per step and keeps a   *)
(* list of tokens, each with its parent, from which the tree is built.     *)
(*                                                                         *)
(* A text is a sequence of characters, a keyword being one of them.  The   *)
(* texts read are those of documents: what jsonWrite writes, and the same  *)
(* with spaces and a comma before each closing bracket, which the reader   *)
(* allows.  Numbers are unsigned integers: their value is their digits.    *)
(* The count of values that a container token keeps is left out.           *)
(***************************************************************************)
EXTENDS Integers, Sequences, SequencesExt

CONSTANTS
    JsonScalars,    \* the documents that are not containers
    JsonKeys,       \* the keys of objects, in order
    JsonDepth       \* bound: how deep containers nest

ASSUME JsonAssumption == JsonDepth \in Nat

VARIABLES
    jsonDocument,   \* the document whose text is read
    jsonText,       \* jsonAsString
    jsonReader      \* SJSONReader: its Token and StateRead

jsonVars == <<jsonDocument, jsonText, jsonReader>>

JsonDigit == "1"
JsonSpace == " "
JsonKeyword == "null"

----------------------------------------------------------------------------
\* Documents and their texts

RECURSIVE JsonDocuments(_)
JsonDocuments(depth) ==
    IF depth = 0 THEN JsonScalars
    ELSE LET values == BoundedSeq(JsonDocuments(depth - 1), Len(JsonKeys))
         IN  JsonScalars
             \cup [type : {"ARRAY"}, children : values]
             \cup {[type |-> "OBJECT",
                    children |-> [k \in 1..2 * Len(v) |->
                        IF k % 2 = 0 THEN v[k \div 2]
                        ELSE [type |-> "STRING", text |-> JsonKeys[(k + 1) \div 2]]]] : v \in values}

\* jsonWrite; loose texts differ from what it writes by spaces and trailing commas.
RECURSIVE JsonWrite(_, _)
JsonWrite(d, loose) ==
    LET separator(k) ==
            IF d.type = "OBJECT" /\ k % 2 = 1 THEN <<":">>
            ELSE IF k < Len(d.children) THEN <<",">> ELSE IF loose THEN <<",">> ELSE <<>>
        parts == [k \in DOMAIN d.children |->
            JsonWrite(d.children[k], loose) \o separator(k) \o (IF loose THEN <<JsonSpace>> ELSE <<>>)]
    IN  CASE d.type = "ARRAY" -> <<"[">> \o FlattenSeq(parts) \o <<"]">>
          [] d.type = "OBJECT" -> <<"{">> \o FlattenSeq(parts) \o <<"}">>
          [] d.type = "STRING" -> <<"\"">> \o d.text \o <<"\"">>
          [] OTHER -> d.text

----------------------------------------------------------------------------
\* Elements.  r is the reader; positions and tokens count from 1, and 0 is no element.

JsonReset ==
    [pos |-> 1, tokens |-> <<>>, current |-> 0, nest |-> 0, escaping |-> FALSE,
     inString |-> FALSE, separator |-> FALSE, done |-> FALSE, failed |-> FALSE]

JsonCurrentIs(r, type) == r.current # 0 /\ r.tokens[r.current].type = type
JsonFail(r) == [r EXCEPT !.failed = TRUE]

JsonPush(r, type, begin, end) ==
    [r EXCEPT !.tokens = Append(@, [parent |-> r.current, type |-> type, begin |-> begin, end |-> end])]

JsonOpenElement(r, type, begin) ==
    [JsonPush(r, type, begin, begin) EXCEPT !.current = Len(r.tokens) + 1, !.nest = @ + 1]

JsonCloseElement(r, last) ==
    IF r.current = 0 THEN JsonFail(r)
    ELSE [r EXCEPT !.tokens[r.current].end = last + 1,
                   !.current = r.tokens[r.current].parent,
                   !.nest = @ - 1,
                   !.done = @ \/ r.nest = 1]

JsonCloseElementOf(r, last, type) ==
    IF JsonCurrentIs(r, type) THEN JsonCloseElement(r, last) ELSE JsonFail(r)

\* A value ends with what it holds.
JsonTestAndCloseValue(r) ==
    IF JsonCurrentIs(r, "VALUE") THEN [JsonCloseElement(r, r.pos) EXCEPT !.separator = TRUE] ELSE r

JsonTestAndCloseKey(r) ==
    IF JsonCurrentIs(r, "KEY") THEN [JsonCloseElement(r, r.pos) EXCEPT !.separator = TRUE] ELSE r

\* The key or value that was opened for an element which did not come is taken back.
JsonCloseOrDiscardEmpty(r, wrapper) ==
    IF Last(r.tokens).type = wrapper
    THEN [r EXCEPT !.current = Last(r.tokens).parent, !.tokens = Front(@), !.nest = @ - 1]
    ELSE IF wrapper = "VALUE" THEN JsonTestAndCloseValue(r) ELSE JsonTestAndCloseKey(r)

\* A container other than the root is inside a value.  Closing one of the other type is an
\* error that is not reported.
JsonCloseContainer(r, type) ==
    LET emptied == JsonCloseOrDiscardEmpty(r, IF type = "ARRAY" THEN "VALUE" ELSE "KEY")
        closed == IF JsonCurrentIs(emptied, type) THEN JsonCloseElement(emptied, r.pos) ELSE emptied
        expecting == [closed EXCEPT !.separator = FALSE]
    IN  IF expecting.nest > 0 THEN JsonTestAndCloseValue(expecting) ELSE expecting

\* A scalar at the root gets a value of its own.
JsonInValue(r) == IF r.current = 0 THEN JsonOpenElement(r, "VALUE", r.pos) ELSE r

\* parseJsonNumber: all the digits, which something that may follow a number must follow, unless
\* that is the last character.
JsonNumber(r, text) ==
    LET size == (CHOOSE n \in 1..Len(text) - r.pos + 1 :
                    /\ \A k \in 0..n - 1 : text[r.pos + k] = JsonDigit
                    /\ r.pos + n > Len(text) \/ text[r.pos + n] # JsonDigit)
        read == [JsonPush(r, "INTEGER", r.pos, r.pos + size) EXCEPT !.pos = @ + size - 1]
    IN  IF read.pos + 1 < Len(text) /\ text[read.pos + 1] \notin {JsonSpace, "]", "}", ","}
        THEN JsonFail(read) ELSE JsonTestAndCloseValue(read)

----------------------------------------------------------------------------
\* jsonParseStringCharacter, for the character c at the position

BugJsonEndsEscaped(r, c) ==
    CASE c = "\"" ->
            LET closed == JsonTestAndCloseValue(JsonCloseElementOf(r, r.pos - 1, "STRING"))
            IN  [closed EXCEPT !.inString = FALSE, !.separator = TRUE, !.escaping = FALSE]
      [] OTHER -> [r EXCEPT !.escaping = FALSE]
JsonStringCharacter(r, c) ==
    LET read == [r EXCEPT !.escaping = FALSE]
    IN  CASE c = "\\" /\ ~r.escaping -> [r EXCEPT !.escaping = TRUE]
          [] c = "\"" /\ ~r.escaping ->
                LET closed == JsonTestAndCloseValue(JsonCloseElementOf(read, r.pos - 1, "STRING"))
                IN  [closed EXCEPT !.inString = FALSE, !.separator = TRUE]
          [] c = "u" /\ r.escaping ->
                [JsonPush(read, "CODEPOINT", r.pos + 1, r.pos + 5) EXCEPT !.pos = @ + 4]
          [] c \notin {"\\", "\"", JsonSpace} /\ r.escaping -> JsonFail(read)
          [] OTHER -> read

\* jsonParseDocumentCharacter
JsonDocumentCharacter(r, c, text) ==
    LET begins == c \in {JsonKeyword, JsonDigit, "{", "[", "\""}
    IN  CASE begins /\ r.separator -> JsonFail(r)
          [] c = JsonKeyword /\ ~r.separator ->
                JsonTestAndCloseValue(JsonPush(JsonInValue(r), "NULL", r.pos, r.pos + 1))
          [] c = JsonDigit /\ ~r.separator ->
                IF JsonCurrentIs(JsonInValue(r), "VALUE") THEN JsonNumber(JsonInValue(r), text)
                ELSE JsonFail(r)
          [] c = "{" /\ ~r.separator ->
                JsonOpenElement(JsonOpenElement(r, "OBJECT", r.pos), "KEY", r.pos + 1)
          [] c = "[" /\ ~r.separator ->
                JsonOpenElement(JsonOpenElement(r, "ARRAY", r.pos), "VALUE", r.pos + 1)
          [] c = "\"" /\ ~r.separator ->
                [JsonOpenElement(r, "STRING", r.pos + 1) EXCEPT !.inString = TRUE]
          [] c = "," /\ r.separator ->
                LET opened == IF JsonCurrentIs(r, "OBJECT") THEN JsonOpenElement(r, "KEY", r.pos + 1)
                              ELSE IF JsonCurrentIs(r, "ARRAY") THEN JsonOpenElement(r, "VALUE", r.pos + 1)
                              ELSE r
                IN  [opened EXCEPT !.separator = FALSE]
          [] c = ":" /\ (r.separator \/ JsonCurrentIs(r, "KEY")) ->
                LET closed == JsonCloseElementOf([r EXCEPT !.separator = FALSE], r.pos - 1, "KEY")
                IN  IF closed.failed THEN closed ELSE JsonOpenElement(closed, "VALUE", r.pos + 1)
          [] c = "]" -> JsonCloseContainer(r, "ARRAY")
          [] c = "}" /\ ~(JsonCurrentIs(r, "KEY") /\ r.current # Len(r.tokens)) ->
                JsonCloseContainer(r, "OBJECT")
          [] c = JsonSpace -> r
          [] OTHER -> JsonFail(r)

----------------------------------------------------------------------------
JsonInit ==
    /\ jsonDocument \in JsonDocuments(JsonDepth)
    /\ \E loose \in BOOLEAN : jsonText = JsonWrite(jsonDocument, loose)
    /\ jsonReader = JsonReset

\* The loop of jsonParse: it ends with the text, the root or an error.
JsonParseStep ==
    /\ jsonReader.pos <= Len(jsonText) /\ ~jsonReader.done /\ ~jsonReader.failed
    /\ LET c == jsonText[jsonReader.pos]
           read == IF jsonReader.inString THEN JsonStringCharacter(jsonReader, c)
                   ELSE JsonDocumentCharacter(jsonReader, c, jsonText)
       IN  jsonReader' = IF read.done \/ read.failed THEN read ELSE [read EXCEPT !.pos = @ + 1]
    /\ UNCHANGED <<jsonDocument, jsonText>>

JsonNext == JsonParseStep

----------------------------------------------------------------------------
\* What is read from the tokens

\* The view of a token.
JsonView(i) == SubSeq(jsonText, jsonReader.tokens[i].begin, jsonReader.tokens[i].end - 1)

\* jsonTreeRebuild: the children of a token, without the keys and values that wrap those of
\* containers.
JsonWrapped(i) ==
    SelectSeq([k \in DOMAIN jsonReader.tokens |-> k], LAMBDA k : jsonReader.tokens[k].parent = i)
JsonChildren(i) ==
    IF jsonReader.tokens[i].type \in {"ARRAY", "OBJECT"}
    THEN [k \in DOMAIN JsonWrapped(i) |-> JsonWrapped(JsonWrapped(i)[k])[1]]
    ELSE JsonWrapped(i)

BugJsonNextToken(i, key) == CHOOSE k \in DOMAIN jsonReader.tokens : k > i /\ JsonView(k - 1) = key
\* jsonObjectValueGet: the second token after that of the key, which the value and its wrapper
\* follow if the key has no code points.
JsonObjectValueGet(i, key) ==
    LET nodes == JsonChildren(i)
        found == CHOOSE k \in DOMAIN nodes :
                    /\ k % 2 = 1 /\ JsonView(nodes[k]) = key
                    /\ \A l \in 1..k - 1 : l % 2 = 1 => JsonView(nodes[l]) # key
    IN  nodes[found] + 2

RECURSIVE JsonReads(_, _)
JsonReads(i, d) ==
    LET type == jsonReader.tokens[i].type
        children == JsonChildren(i)
    IN  IF type = "VALUE" THEN children # <<>> /\ JsonReads(children[1], d)
        ELSE /\ type = d.type
             /\ IF type \notin {"ARRAY", "OBJECT"} THEN JsonView(i) = d.text
                ELSE /\ Len(children) = Len(d.children)
                     /\ \A k \in DOMAIN children : JsonReads(children[k], d.children[k])
                     /\ type = "OBJECT" => \A k \in DOMAIN children :
                            k % 2 = 1 => JsonObjectValueGet(i, d.children[k].text) = children[k + 1]

----------------------------------------------------------------------------
\* Properties

JsonTypeOK ==
    /\ jsonReader.pos \in 1..Len(jsonText) + 1
    /\ jsonReader.current \in 0..Len(jsonReader.tokens)
    /\ jsonReader.nest \in 0..Len(jsonReader.tokens)
    /\ \A i \in DOMAIN jsonReader.tokens : jsonReader.tokens[i].parent \in 0..i - 1

\* The reader never refuses the text of a document, ends with its last character, and reads the
\* document back from it; each key of an object leads to the value that was written with it.
JsonReadsWhatIsWritten ==
    /\ ~jsonReader.failed
    /\ jsonReader.pos = Len(jsonText) + 1 => jsonReader.done
    /\ jsonReader.done =>
           jsonReader.pos = Len(jsonText) /\ jsonReader.nest = 0 /\ JsonReads(1, jsonDocument)
=============================================================================
