------------------------------ MODULE XmlReader ------------------------------
(***************************************************************************)
(* The XML reader of llc/gpk_xml_reader.cpp: a machine that takes one      *)
(* character per step and keeps a list of tokens, each with its parent.    *)
(* What a '<' opens is only known from the character that follows it, and  *)
(* whether a tag also closes from the one before its '>'.                  *)
(*                                                                         *)
(* The texts read are those of elements, with a declaration before them,   *)
(* attributes, spaces in tags and texts between tags.  Comments, escapes   *)
(* and document types, which the reader does not tell from tags, are left  *)
(* out.  Names, values and texts are one character each.                   *)
(***************************************************************************)
EXTENDS Integers, Sequences, SequencesExt

CONSTANTS
    XmlLeaves,  \* the elements without elements inside
    XmlItems    \* bound: what an element has inside

ASSUME XmlAssumption == XmlItems \in Nat

VARIABLES
    xmlDocument, \* the element whose text is read
    xmlText,     \* xmlDoc
    xmlReader    \* SXMLReader: its Token and StateRead

xmlVars == <<xmlDocument, xmlText, xmlReader>>

----------------------------------------------------------------------------
\* Elements and their texts. An element has a name, attributes, perhaps a space at the end of its
\* tag, and what is inside of it; or it is empty, of one tag. A text has the name "text".

XmlCharacters == [type |-> "text"]
XmlElements ==
    LET inside == {s \in BoundedSeq(XmlLeaves \cup {XmlCharacters}, XmlItems) :
                      \A k \in 1..Len(s) - 1 : s[k] = s[k + 1] => s[k] # XmlCharacters}
    IN  XmlLeaves \cup
        [type : {"element"}, name : {"a"}, attributes : {0, 1}, space : BOOLEAN, empty : {FALSE}, inside : inside]

RECURSIVE XmlWrite(_)
XmlWrite(e) ==
    IF e = XmlCharacters THEN <<"t">>
    ELSE LET attribute == <<" ", "k", "=", "\"", "v", "\"">>
             tag == <<"<", e.name>> \o (IF e.attributes = 1 THEN attribute ELSE <<>>)
                                    \o (IF e.space THEN <<" ">> ELSE <<>>)
         IN  IF e.empty THEN tag \o <<"/", ">">>
             ELSE tag \o <<">">> \o FlattenSeq([k \in DOMAIN e.inside |-> XmlWrite(e.inside[k])])
                      \o <<"<", "/", e.name, ">">>
XmlDeclaration == <<"<", "?", "x", " ", "k", "=", "\"", "v", "\"", "?", ">", " ">>

----------------------------------------------------------------------------
\* Tokens. r is the reader; positions and tokens count from 1, and 0 is no token.

XmlReset == [pos |-> 1, tokens |-> <<>>, current |-> 0, nest |-> 0, failed |-> FALSE]
XmlFail(r) == [r EXCEPT !.failed = TRUE]
XmlType(r) == IF r.current = 0 THEN "NONE" ELSE r.tokens[r.current].type
XmlBegin(r) == r.tokens[r.current].begin

XmlOpen(r, type, begin) ==
    [r EXCEPT !.tokens = Append(@, [type |-> type, begin |-> begin, end |-> begin, parent |-> r.current]),
              !.current = Len(r.tokens) + 1, !.nest = @ + 1]
XmlClose(r, end) ==
    IF r.current = 0 THEN XmlFail(r)
    ELSE [r EXCEPT !.tokens[r.current].end = end, !.current = r.tokens[r.current].parent, !.nest = @ - 1]
XmlRetype(r, i, type) == [r EXCEPT !.tokens[i].type = type]

XmlNext(r, text) == IF r.pos < Len(text) THEN text[r.pos + 1] ELSE "end"
XmlSkip(r, text) ==
    LET spaces == {n \in r.pos..Len(text) : \A k \in r.pos..n : text[k] = " "}
    IN  [r EXCEPT !.pos = CHOOSE n \in spaces : n + 1 \notin spaces]

XmlOpenAttribute(r) == XmlOpen(XmlOpen(r, "ATTR", r.pos), "ATTR_NAME", r.pos)

\* A tag ends, and with it its element if the tag closes it.
XmlCloses(r) == XmlType(r) \in {"TAG_CLOSE", "TAG_OPENCLOSE"}
XmlCloseTag(r) ==
    IF XmlCloses(r) THEN XmlClose(XmlClose(r, r.pos + 1), r.pos + 1) ELSE XmlClose(r, r.pos + 1)
XmlOpenText(r) == IF XmlType(r) = "TAG_NODE" THEN XmlOpen(r, "TAG_TEXT", r.pos + 1) ELSE r

----------------------------------------------------------------------------
\* The four kinds of places in which a character is read

XmlStringCharacter(r, c, text) ==
    LET closed == XmlClose(r, r.pos)
    IN  CASE c = " " -> XmlSkip(r, text)
          [] c = "\"" -> IF XmlType(closed) = "ATTR" THEN XmlClose(closed, r.pos + 1) ELSE closed
          [] c \in {"<", "&", "?", ">"} -> XmlFail(r)
          [] OTHER -> r

\* After the '>' of a tag that has attributes or spaces no text is opened.
XmlTagCharacter(r, c, text) ==
    CASE c = " " -> XmlSkip(r, text)
      [] c = "/" ->
            IF XmlType(r) = "TAG_OPEN" /\ XmlNext(r, text) = ">" THEN XmlRetype(r, r.current, "TAG_OPENCLOSE") ELSE r
      [] c = "\"" -> IF XmlType(r) = "ATTR" THEN XmlOpen(r, "ATTR_VALUE", r.pos + 1) ELSE XmlFail(r)
      [] c = ">" -> IF XmlType(r) \in {"TAG_OPEN", "TAG_CLOSE"} THEN XmlCloseTag(r) ELSE XmlFail(r)
      [] c = "?" ->
            IF XmlType(r) = "PI" /\ XmlNext(r, text) = ">"
            THEN [XmlClose(XmlClose(r, r.pos + 2), r.pos + 2) EXCEPT !.pos = @ + 1] ELSE r
      [] c = "<" -> r
      [] OTHER -> IF XmlType(r) \in {"PI", "TAG_OPEN"} THEN XmlOpenAttribute(r) ELSE r

\* The '<' opened an element: a '/' right after it takes back the name and the tag, and the element
\* becomes a tag that closes the one around it.
BugXmlTagCloses(r) ==
    LET popped == [r EXCEPT !.tokens = SubSeq(@, 1, Len(@) - 1), !.current = Len(r.tokens) - 1, !.nest = @ - 1]
    IN  XmlOpen(XmlRetype(popped, popped.current, "TAG_CLOSE"), "TAG_NAME", r.pos + 1)
XmlTagCloses(r) ==
    LET popped == [r EXCEPT !.tokens = SubSeq(@, 1, Len(@) - 2), !.current = Len(r.tokens) - 2, !.nest = @ - 2]
    IN  XmlOpen(XmlRetype(popped, popped.current, "TAG_CLOSE"), "TAG_NAME", r.pos + 1)

XmlNameCharacter(r, c, text) ==
    LET first == XmlType(r) = "TAG_NAME" /\ XmlBegin(r) = r.pos
        tag   == r.tokens[r.current].parent
    IN  CASE c = " " \/ c = "=" -> XmlClose(r, r.pos)
          [] c = "/" /\ first -> XmlTagCloses(r)
          [] c = "/" /\ XmlType(r) = "TAG_NAME" /\ ~first /\ XmlNext(r, text) = ">" -> XmlRetype(r, tag, "TAG_OPENCLOSE")
          [] c = "?" -> IF first THEN XmlRetype(XmlRetype(r, tag, "PI"), r.current, "PI_NAME") ELSE XmlFail(r)
          [] c = ">" -> IF XmlType(r) = "TAG_NAME" THEN XmlOpenText(XmlCloseTag(XmlClose(r, r.pos))) ELSE XmlFail(r)
          [] OTHER -> r

XmlDocumentCharacter(r, c, text) ==
    LET texts == IF XmlType(r) = "DOCUMENT" THEN XmlOpen(r, "TAG_TEXT", r.pos) ELSE r
        outer == IF XmlType(r) = "TAG_TEXT" THEN XmlClose(r, r.pos) ELSE r
    IN  CASE c = "<" ->
                IF XmlType(r) \in {"DOCUMENT", "TAG_TEXT", "TAG_NODE"}
                THEN XmlOpen(XmlOpen(XmlOpen(outer, "TAG_NODE", r.pos), "TAG_OPEN", r.pos), "TAG_NAME", r.pos + 1)
                ELSE XmlFail(r)
          [] c = ">" -> IF XmlType(r) = "TAG_OPENCLOSE" THEN XmlCloseTag(r) ELSE XmlFail(r)
          [] c = " " -> XmlSkip(texts, text)
          [] c = "\"" -> r
          [] OTHER -> IF XmlType(r) \in {"DOCUMENT", "TAG_TEXT", "TAG_NODE"} THEN texts ELSE XmlFail(r)

\* With the last character the text and the document are closed.
XmlEnd(r, text) ==
    LET closed == IF XmlType(r) = "TAG_TEXT" THEN XmlClose(r, r.pos) ELSE r
    IN  IF r.pos < Len(text) \/ r.failed THEN r
        ELSE IF XmlType(closed) = "DOCUMENT" THEN XmlClose(closed, r.pos + 1) ELSE closed

XmlParseCharacter(reader, text) ==
    LET r == IF reader.current = 0 THEN XmlOpen(reader, "DOCUMENT", reader.pos) ELSE reader
        c == text[r.pos]
    IN  XmlEnd(CASE XmlType(r) = "ATTR_VALUE" -> XmlStringCharacter(r, c, text)
                 [] XmlType(r) \in {"TAG_OPEN", "TAG_CLOSE", "PI", "ATTR"} -> XmlTagCharacter(r, c, text)
                 [] XmlType(r) \in {"ATTR_NAME", "TAG_NAME", "PI_NAME"} -> XmlNameCharacter(r, c, text)
                 [] OTHER -> XmlDocumentCharacter(r, c, text), text)

----------------------------------------------------------------------------
XmlInit ==
    /\ xmlDocument \in XmlElements
    /\ xmlText = (IF xmlDocument.space THEN XmlDeclaration ELSE <<>>) \o XmlWrite(xmlDocument)
    /\ xmlReader = XmlReset

XmlParse ==
    /\ xmlReader.pos <= Len(xmlText) /\ ~xmlReader.failed
    /\ LET read == XmlParseCharacter(xmlReader, xmlText) IN xmlReader' = [read EXCEPT !.pos = @ + 1]
    /\ UNCHANGED <<xmlDocument, xmlText>>

----------------------------------------------------------------------------
\* Properties

XmlTypeOK ==
    /\ xmlReader.current \in 0..Len(xmlReader.tokens) /\ xmlReader.nest \in 0..Len(xmlReader.tokens)
    /\ \A i \in DOMAIN xmlReader.tokens : xmlReader.tokens[i].parent \in 0..i - 1

XmlView(i) == SubSeq(xmlText, xmlReader.tokens[i].begin, xmlReader.tokens[i].end - 1)
XmlInside(i, types) ==
    SelectSeq([k \in DOMAIN xmlReader.tokens |-> k],
              LAMBDA k : xmlReader.tokens[k].parent = i /\ xmlReader.tokens[k].type \in types)
XmlHas(i, type, view) ==
    LET found == XmlInside(i, {type}) IN Len(found) = 1 /\ XmlView(found[1]) = view

\* A text is kept when the tag before it has neither attributes nor spaces.
XmlKeeps(e, k) ==
    LET before == IF k = 1 THEN e ELSE e.inside[k - 1]
    IN  (k > 1 /\ ~before.empty) \/ (before.attributes = 0 /\ ~before.space)

\* The name of an empty tag goes to its '>' when nothing is between them.
XmlName(e) == IF e.empty /\ e.attributes = 0 /\ ~e.space THEN <<e.name, "/">> ELSE <<e.name>>

RECURSIVE XmlReads(_, _)
XmlReads(i, e) ==
    LET tags   == XmlInside(i, {"TAG_OPEN", "TAG_OPENCLOSE"})
        nodes  == XmlInside(i, {"TAG_NODE"})
        texts  == SelectSeq(XmlInside(i, {"TAG_TEXT"}), LAMBDA k : XmlView(k) # <<>>)
        inside == IF e.empty THEN <<>> ELSE e.inside
        elements == SelectSeq([k \in DOMAIN inside |-> k], LAMBDA k : inside[k] # XmlCharacters)
        kept == SelectSeq([k \in DOMAIN inside |-> k], LAMBDA k : inside[k] = XmlCharacters /\ XmlKeeps(e, k))
    IN  /\ XmlView(i) = XmlWrite(e)
        /\ Len(tags) = 1 /\ XmlHas(tags[1], "TAG_NAME", XmlName(e))
        /\ xmlReader.tokens[tags[1]].type = (IF e.empty THEN "TAG_OPENCLOSE" ELSE "TAG_OPEN")
        /\ Len(XmlInside(tags[1], {"ATTR"})) = e.attributes
        /\ \A k \in Range(XmlInside(tags[1], {"ATTR"})) : XmlHas(k, "ATTR_NAME", <<"k">>) /\ XmlHas(k, "ATTR_VALUE", <<"v">>)
        /\ Len(XmlInside(i, {"TAG_CLOSE"})) = (IF e.empty THEN 0 ELSE 1)
        /\ Len(texts) = Len(kept) /\ \A k \in DOMAIN texts : XmlView(texts[k]) = <<"t">>
        /\ Len(nodes) = Len(elements) /\ \A k \in DOMAIN nodes : XmlReads(nodes[k], inside[elements[k]])

\* The text of an element is read without error to its end, everything opened is closed there, and
\* the tokens are the element: its name, attributes, elements in order and the texts that are kept,
\* each with the characters that were written for it.
XmlReadsElements ==
    /\ ~xmlReader.failed
    /\ xmlReader.pos > Len(xmlText) =>
           /\ xmlReader.nest = 0 /\ xmlReader.tokens[1].type = "DOCUMENT" /\ XmlView(1) = xmlText
           /\ XmlReads(Last(XmlInside(1, {"TAG_NODE"})), xmlDocument)
=============================================================================
