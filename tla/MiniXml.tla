------------------------------- MODULE MiniXml ------------------------------
(***************************************************************************)
(* minixml.c, the XML parser of the bundled miniupnpc, and the list of     *)
(* names and values that upnpreplyparse.c makes of what it reports.  The   *)
(* input is every text that can be put together from a few pieces of XML,  *)
(* cut after any of the characters of its last piece.                      *)
(***************************************************************************)
EXTENDS Integers, Sequences, SequencesExt, FiniteSets

CONSTANTS
  Kinds,       \* the kinds of pieces that a text is made of
  MaxPieces    \* bound: pieces of a text

VARIABLES
  pieces,   \* the text, as its author sees it
  buffer,   \* its characters, from xmlstart
  beyond,   \* what is in the memory after them
  xml,      \* the position of the parser
  events    \* the calls of starteltfunc, attfunc, datafunc and endeltfunc so far

vars == <<pieces, buffer, beyond, xml, events>>

White == {" "}
Quotes == {"'", "\""}

-----------------------------------------------------------------------------
(* The texts.                                                              *)

Piece ==
  [open   |-> <<"<", "a", ">">>,
   other  |-> <<"<", "b", "b", ">">>,
   att    |-> <<"<", "a", " ", "b", "=", "'", "/", " ", ">", "'", " ", "c", " ", "=", " ",
                "\"", "'", "\"", ">">>,
   prefix |-> <<"<", "n", ":", "a", ">">>,
   empty  |-> <<"<", "a", "/", ">">>,
   close  |-> <<"<", "/", "a", ">">>,
   prefixclose |-> <<"<", "/", "n", ":", "a", ">">>,
   text   |-> <<"t", " ", "u">>,
   number |-> <<"1">>,
   spaced |-> <<" ", " ", "t", "u", "v">>,
   space  |-> <<" ">>,
   proc   |-> <<"<", "?", "x", "?", ">">>]

Characters == {"text", "number", "spaced", "space"}
Starts == {"open", "other", "att", "prefix", "empty"}

\* Between two pieces of markup there is at most one piece of characters.
Texts ==
  {t \in SeqOf(Kinds, MaxPieces) \ {<<>>} :
     \A i \in 1 .. Len(t) - 1 : t[i] \in Characters => t[i + 1] \notin Characters}

\* The characters of the first n pieces of a text.
Chars(text, n) == FlattenSeq([i \in 1 .. n |-> Piece[text[i]]])

Start(name) == [event |-> "start", name |-> name, value |-> <<>>]
Att(name, value) == [event |-> "att", name |-> name, value |-> value]
Data(value) == [event |-> "data", name |-> <<>>, value |-> value]
End(name) == [event |-> "end", name |-> name, value |-> <<>>]

-----------------------------------------------------------------------------
(* The parser.                                                             *)

xmlend == Len(buffer) + 1

\* Where the loops stop that go on while a character is not, or is, in a set; xmlend
\* when they run into the end and return.
Find(p, stop) ==
  CHOOSE q \in p .. xmlend : /\ q = xmlend \/ buffer[q] \in stop
                            /\ \A r \in p .. q - 1 : buffer[r] \notin stop
FindNot(p, skip) ==
  CHOOSE q \in p .. xmlend : /\ q = xmlend \/ buffer[q] \notin skip
                            /\ \A r \in p .. q - 1 : buffer[r] \in skip

\* The attribute at p: where its name ends, from where to where its value goes, and whether
\* it comes to an end.  After a '=' at the end of the buffer the code reads on: the value is
\* empty when it finds the end of a tag there.
Attribute(p) ==
  LET nameend == Find(p, White \cup {"="})
      equals  == Find(nameend, {"="})
      first   == IF equals = xmlend THEN xmlend ELSE FindNot(equals + 1, White)
      quoted  == first < xmlend /\ buffer[first] \in Quotes
      from    == IF quoted THEN first + 1 ELSE first
      to      == Find(from, IF quoted THEN {buffer[first]} ELSE White \cup {">", "/"})
  IN  [nameend |-> nameend, from |-> from, to |-> to,
       ends |-> to < xmlend \/ (equals + 1 = xmlend /\ beyond \in {">", "/"})]

\* Attributes from start on.  at: the '/' or '>' after them, or xmlend (it returns -1).
parseatt(start) ==
  LET from[p \in 1 .. xmlend] ==
        IF p = xmlend THEN [at |-> xmlend, events |-> <<>>]
        ELSE IF buffer[p] \in {"/", ">"} THEN [at |-> p, events |-> <<>>]
        ELSE IF buffer[p] \in White THEN from[p + 1]
        ELSE CHOOSE r \in
               {IF ~a.ends THEN [at |-> xmlend, events |-> <<>>]
                ELSE [at |-> rest.at,
                      events |-> <<Att(SubSeq(buffer, p, a.nameend - 1),
                                       SubSeq(buffer, a.from, a.to - 1))>> \o rest.events] :
                a \in {Attribute(p)}, rest \in {from[Min({Attribute(p).to + 1, xmlend})]}} : TRUE
  IN  from[start]

\* Faulty variant of CharData: white space is data too.
WrongCharData(p) ==
  LET lt == Find(p, {"<"})
  IN  [at |-> lt, events |-> IF lt = xmlend \/ lt = p THEN <<>>
                             ELSE <<Data(SubSeq(buffer, p, lt - 1))>>]

\* What comes from p on, after a start tag.  White space in front is not counted,
\* but the data that is reported starts with it.
CharData(p) ==
  LET first == FindNot(p, White)
      lt    == Find(first, {"<"})
  IN  [at |-> lt, events |-> IF lt = xmlend \/ lt = first THEN <<>>
                             ELSE <<Data(SubSeq(buffer, p, p + (lt - first) - 1))>>]

\* parseelt: its loop goes on, at a '<' that is not that of a '<?'.
AtElement == xml < xmlend - 1 /\ buffer[xml] = "<" /\ buffer[xml + 1] # "?"

\* Where the name of the element ends, and where it starts without the namespace.  After a
\* ':' at the end of the buffer the code reads on, and returns whatever it finds.
NameEnd == Find(xml + 1, White \cup {">", "/"})
NameStart ==
  LET from[p \in xml + 1 .. NameEnd] ==
        LET colons == {c \in p + 1 .. NameEnd - 1 : buffer[c] = ":"}
        IN  IF colons = {} THEN p ELSE from[Min(colons) + 1]
  IN  from[xml + 1]

\* The name runs into the end of the buffer.
CutName ==
  /\ AtElement /\ NameEnd = xmlend
  /\ xml' = xmlend
  /\ UNCHANGED <<pieces, buffer, beyond, events>>

StartElement ==
  /\ AtElement /\ NameStart < NameEnd /\ NameEnd < xmlend
  /\ \E att \in {parseatt(NameEnd)} :
     \E data \in {IF att.at = xmlend \/ buffer[att.at] = "/"
                   THEN [at |-> att.at, events |-> <<>>] ELSE CharData(att.at + 1)} :
       /\ xml' = data.at
       /\ events' = events \o <<Start(SubSeq(buffer, NameStart, NameEnd - 1))>>
                           \o att.events \o data.events
  /\ UNCHANGED <<pieces, buffer, beyond>>

EndElement ==
  /\ AtElement /\ NameStart = NameEnd /\ NameEnd < xmlend /\ buffer[NameEnd] = "/"
  /\ \E gt \in {Find(NameEnd + 1, {">"})} :
       /\ xml' = IF gt = xmlend THEN xmlend ELSE gt + 1
       /\ events' = IF gt = xmlend THEN events
                    ELSE Append(events, End(SubSeq(buffer, NameEnd + 1, gt - 1)))
  /\ UNCHANGED <<pieces, buffer, beyond>>

\* A '<' whose name is empty.
NoElement == AtElement /\ NameStart = NameEnd /\ NameEnd < xmlend /\ buffer[NameEnd] # "/"

\* Faulty variant of Skip: it stays at a '<' that starts no element.
StuckSkip ==
  /\ xml < xmlend - 1 /\ (AtElement => NoElement)
  /\ xml' = IF buffer[xml] = "<" THEN xml ELSE xml + 1
  /\ UNCHANGED <<pieces, buffer, beyond, events>>

\* Any other character.
Skip ==
  /\ xml < xmlend - 1 /\ (AtElement => NoElement)
  /\ xml' = IF NoElement THEN NameEnd ELSE xml + 1
  /\ UNCHANGED <<pieces, buffer, beyond, events>>

-----------------------------------------------------------------------------
(* upnpreplyparse.c                                                        *)

\* NameValueParserStartElt and NameValueParserGetData.
NameValueParser(data, e) ==
  CASE e.event = "start" -> [data EXCEPT !.curelt = e.name]
    [] e.event = "data" -> [data EXCEPT !.head = <<[name |-> data.curelt, value |-> e.value]>> \o @]
    [] OTHER -> data

\* ParseNameValue: the list after the events so far.
ParseNameValue == FoldLeft(NameValueParser, [curelt |-> <<>>, head |-> <<>>], events).head

\* NULL is the empty set.
GetValueFromNameValueList(list, name) ==
  LET Match == {i \in DOMAIN list : list[i].name = name}
  IN  IF Match = {} THEN {} ELSE {list[Min(Match)].value}

-----------------------------------------------------------------------------
\* parsexml: the parser starts.
Init ==
  /\ pieces \in Texts
  /\ \E size \in 1 .. Len(Piece[Last(pieces)]) :
       buffer = Chars(pieces, Len(pieces) - 1) \o SubSeq(Piece[Last(pieces)], 1, size)
  /\ beyond \in {">", "x"}
  /\ xml = 1
  /\ events = <<>>

Next == CutName \/ StartElement \/ EndElement \/ Skip

Spec == Init /\ [][Next]_vars

\* parseelt returns.
Ended == xml >= xmlend - 1

-----------------------------------------------------------------------------
(* Properties.                                                             *)

\* Type invariant.
TypeOK == /\ pieces \in Seq(Kinds)
          /\ xml \in 1 .. xmlend
          /\ \A i \in DOMAIN events : events[i].event \in {"start", "att", "data", "end"}

\* The text of the element that starts with piece i, if there is one: characters
\* that follow at once, up to the next markup.  White space in front is reported as part
\* of it but not counted: as many characters are missing at the end.
TextOf(i) ==
  IF pieces[i] \in Starts \ {"empty"} /\ i + 2 <= Len(pieces)
  THEN CASE pieces[i + 1] \in {"text", "number"} -> {Piece[pieces[i + 1]]}
         [] pieces[i + 1] = "spaced" -> {<<" ", " ", "t">>}
         [] OTHER -> {}
  ELSE {}

NameOf(i) == IF pieces[i] = "other" THEN <<"b", "b">> ELSE <<"a">>

\* How many characters of piece i are there.
Present(i) == IF i < Len(pieces) THEN Len(Piece[pieces[i]])
              ELSE Len(buffer) - Len(Chars(pieces, Len(pieces) - 1))

\* The character of a start tag that ends its name, and those of its attributes that are
\* the '=' and the last quote.
AfterName == [open |-> 3, other |-> 4, att |-> 3, prefix |-> 5, empty |-> 3]
Atts == <<[name |-> <<"b">>, value |-> <<"/", " ", ">">>, equals |-> 5, quote |-> 10],
          [name |-> <<"c">>, value |-> <<"'">>, equals |-> 14, quote |-> 18]>>

\* What has to be reported of the attributes, of which n characters are there.
AttsOf(n) ==
  FlattenSeq([k \in DOMAIN Atts |->
    IF n >= Atts[k].quote THEN <<Att(Atts[k].name, Atts[k].value)>>
    ELSE IF n = Atts[k].equals /\ beyond = ">" THEN <<Att(Atts[k].name, <<>>)>>
    ELSE <<>>])

\* What has to be reported of piece i.
Expected(i) ==
  CASE pieces[i] \in Starts /\ Present(i) >= AfterName[pieces[i]] ->
         <<Start(NameOf(i))>>
         \o (IF pieces[i] = "att" THEN AttsOf(Present(i)) ELSE <<>>)
         \o (IF TextOf(i) = {} THEN <<>> ELSE <<Data(CHOOSE t \in TextOf(i) : TRUE)>>)
    [] pieces[i] \in {"close", "prefixclose"} /\ Present(i) = Len(Piece[pieces[i]]) ->
         <<End(IF pieces[i] = "close" THEN <<"a">> ELSE <<"n", ":", "a">>)>>
    [] OTHER -> <<>>

\* The reference of minixmlvalid.c ("evtref"), for these texts, cut anywhere: when the
\* parser has come to the end, it has reported each tag, attribute and text that is whole
\* once, in order, and nothing of what is cut.  There are two exceptions: a text with white
\* space in front is short, and an attribute that is cut after its '=' is reported as
\* empty if the byte after the buffer happens to end a tag.  A start tag is reported without
\* its namespace, an end tag with it.
EventsAsExpected ==
  Ended => events = FlattenSeq([i \in DOMAIN pieces |-> Expected(i)])

\* A command finds the text of the last element of that name that has one.
ValueIsLast ==
  Ended =>
    \A name \in {<<"a">>, <<"b", "b">>} :
      LET With == {i \in DOMAIN pieces : pieces[i] \in Starts /\ NameOf(i) = name /\ TextOf(i) # {}}
      IN  GetValueFromNameValueList(ParseNameValue, name)
            = IF With = {} THEN {} ELSE TextOf(Max(With))
=============================================================================
