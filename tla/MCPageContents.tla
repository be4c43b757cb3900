---------------------------- MODULE MCPageContents ----------------------------
(***************************************************************************)
(* PageContents for TLC: two pages below one node.                         *)
(***************************************************************************)
EXTENDS PageContents

\* Characters 1 to 5, of which the two sets have some, at different bytes.
MCSets == [n \in {"StandardEncoding", "WinAnsiEncoding"} |->
              IF n = "StandardEncoding" THEN [b \in 0 .. 2 |-> b + 1] ELSE [b \in 0 .. 3 |-> IF b = 0 THEN 2 ELSE IF b = 1 THEN 1 ELSE b + 1]]
MCPdfDoc == [b \in 0 .. 3 |-> b]

MCPages == <<"p1", "p2">>
MCDefault == << >>

MCJpeg == Wrapped("DCTDecode", Plain(<<0>>))

FontName(n) == Element("name", n)
Str(bytes) == Element("string", bytes)
Arr(items) == Element("array", items)
Num(n) == Element("number", n)

Select(n) == <<FontName(n), Operator("Tf")>>
Show(e) == <<e, Operator(IF e.t = "array" THEN "TJ" ELSE "Tj")>>

\* Byte 0, a kern that counts as a space, byte 1.
Kerned == Arr(<<Str(<<0>>), Num(-200), Str(<<1>>), Num(-10)>>)

Flate(s) == [s EXCEPT !.filter = {<<"FlateDecode">>}, !.data = Wrapped("FlateDecode", @)]

Cont(tokens) == Stream("Content", Plain(tokens))

Map(lo, hi, units) == [len |-> 1, lo |-> lo, hi |-> hi, targets |-> <<units>>]

Font(isFont, encoding, toUnicode) == [type |-> "Font", isFont |-> isFont, encoding |-> encoding, toUnicode |-> toUnicode]

Entries(f) == [type |-> "Dictionary", entries |-> f]
Resources(fonts, xobjects) == [type |-> "Dictionary", fonts |-> {fonts}, xobjects |-> xobjects]

Glyph(n) == [type |-> "Name", value |-> n]

Fonts == Entries(
    ("F1" :> Font(TRUE, {Name("WinAnsiEncoding")}, {})) @@ ("F2" :> Font(TRUE, {Name("Identity-H")}, {Reference(5)}))
    @@ ("F3" :> Font(TRUE, {Reference(6)}, {})))

BadFonts(bad) == Entries(("F1" :> bad) @@ ("F2" :> Font(TRUE, {}, {Reference(5)})))

MCObjects ==
    << Cont(Select("F1") \o Show(Str(<<0, 1>>)) \o Show(Kerned)),
       Flate(Cont(Select("F2") \o Show(Str(<<0, 2>>)))),
       [type |-> "Array", items |-> <<Reference(1), Reference(2)>>],
       Reference(1),
       Flate(Stream("CMap", Plain(<<Map(0, 1, <<3>>), Map(2, 2, <<1, 2>>)>> \o [n \in 1 .. 4 |-> Map(3, 3, <<n>>)]))),
       [type |-> "Encoding", base |-> {}, differences |-> {<<[type |-> "Integer", value |-> 3], Glyph(4)>>}],
       Resources(Fonts, {Reference(8)}),
       Entries("X1" :> Reference(9)),
       Stream("Image", Plain(<<0>>)),
       Cont(Select("F3") \o <<Element("comment", "")>> \o Show(Arr(<<Str(<<3>>), Str(<<1>>)>>)) \o <<FontName("X1"), Operator("Do")>>),
       [Cont(Show(Str(<<0>>))) EXCEPT !.data = Wrapped("ASCIIHexDecode", Wrapped("FlateDecode", Wrapped("Predictor", @))),
              !.filter = {<<"ASCIIHexDecode", "FlateDecode">>}, !.parms = TRUE],
       Cont(<<Element("image", "sized"), FontName("X1"), Operator("Do")>>),
       Cont(<<Element("image", "filtered"), Operator("Q")>>),
       Cont(<<Operator("q"), FontName("X1"), Other, Operator("Do")>>),
       [Cont(Show(Str(<<0>>))) EXCEPT !.filter = {<<"Crypt">>}],
       [Cont(Show(Str(<<0>>))) EXCEPT !.filter = {<< >>}],
       [Cont(Show(Str(<<0>>)) \o Show(Str(<<0>>))) EXCEPT !.parms = TRUE],
       Resources(Fonts, {Entries("X1" :> Reference(9))}),
       Reference(18) >>

List(ids) == {[type |-> "Array", items |-> [i \in DOMAIN ids |-> Reference(ids[i])]]}

\* /Contents and /Resources of the first page; 30 is the number of no object.
MCContentShapes ==
    {{}, {[type |-> "Null"]}} \cup {{Reference(id)} : id \in {1, 2, 3, 4, 10, 11, 12, 13, 14, 15, 16, 17, 30}}
    \cup {List(l) : l \in {<< >>, <<1>>, <<1, 2>>, <<10, 10>>, <<11, 1>>, <<3>>}}

MCResourceShapes ==
    {{}, {Reference(7)}, {Reference(19)}, {Reference(30)}, {Resources(Fonts, {})}, {[type |-> "Null"]}}

Node(contents, resources, parent) == [contents |-> contents, resources |-> resources, parent |-> parent]

Nodes(contents, resources, root, parent) ==
    ("p1" :> Node(contents, resources, {"root"})) @@ ("p2" :> Node({Reference(1)}, {Reference(7)}, {"root"}))
    @@ ("root" :> Node({}, root, parent))

Document(ns, font) == [nodes |-> ns, objects |-> [MCObjects EXCEPT ![7].fonts = {font}]]

MCDocuments ==
    {Document(Nodes(c, {Reference(7)}, {}, {}), Fonts) : c \in MCContentShapes}
    \cup {Document(Nodes({Reference(10)}, r, {Reference(7)}, {}), Fonts) : r \in MCResourceShapes}
    \cup {Document(Nodes({Reference(10)}, {}, root, parent), Fonts) : root \in {{}, {Resources(Fonts, {})}}, parent \in {{}, {"root"}, {"none"}}}
    \cup {Document(Nodes({Reference(id)}, {Reference(7)}, {}, {}), BadFonts(f)) : id \in {1, 2},
             f \in {Font(FALSE, {}, {}), Font(TRUE, {Name("Unknown")}, {}), Font(TRUE, {Name("Identity-V")}, {})}}

MCContents == {<<Operation("Tf", <<FontName("F2")>>), Operation("'", <<Str(<<0, 1>>)>>), Plot("ET")>>}

MCSearches == {[text |-> <<2, 1>>, other |-> <<1>>], [text |-> <<2, Space, 1>>, other |-> <<4, 3>>], [text |-> <<1>>, other |-> <<1, 3>>]}
===============================================================================
