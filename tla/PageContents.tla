----------------------------- MODULE PageContents -----------------------------
(***************************************************************************)
(* What pages show, and the calls that change it: page contents and        *)
(* resources of src/src/document.rs, src/src/creator.rs,                   *)
(* src/src/processor.rs, src/src/parser_aux.rs and                         *)
(* src/src/incremental_document.rs.                                        *)
(*                                                                         *)
(* A page is a node of the page tree with /Contents, /Resources and        *)
(* /Parent, each {} where it is absent.  Contents are a reference or an    *)
(* array of references, and resources are dictionaries with /Font and      *)
(* /XObject.  Two pages may share any of these objects.                    *)
(***************************************************************************)
EXTENDS FontText

CONSTANTS
    Pages,      \* the page nodes, in page order
    Documents,  \* documents to begin with: [nodes, objects]
    Contents,   \* operations callers add to a page
    Searches,   \* texts callers look for, and what they replace them by: [text, other]
    Default,    \* what callers give for characters that cannot be encoded
    Limits,     \* what callers allow a page to be long
    MaxNesting, \* MAX_NESTING_DEPTH
    OpLimit     \* bound: calls

VARIABLES
    nodes,    \* pages and their parents: [contents, resources, parent]
    objects,  \* the other objects, by number
    max_id,
    call,     \* (history) the last call, and the state before it
    ops

vars == <<nodes, objects, max_id, call, ops>>

PageIds == ToSet(Pages)

Put(f, k, v) == [x \in DOMAIN f \cup {k} |-> IF x = k THEN v ELSE f[x]]

-----------------------------------------------------------------------------
(***************************************************************************)
(* Reading a page.                                                         *)
(***************************************************************************)
References(array) == LET refs == SelectSeq(array.items, LAMBDA v : v.type = "Reference") IN [i \in DOMAIN refs |-> refs[i].id]

RECURSIVE ContentIds(_, _, _)

\* The walk from /Contents: a reference to a stream, or to nothing, is the one content; an
\* array, however it was reached, lists them.
ContentIds(objs, value, seen) ==
    CASE value.type = "Array" -> References(value)
      [] value.type = "Reference" ->
            IF value.id \notin DOMAIN objs \/ objs[value.id].type = "Stream" THEN <<value.id>>
            ELSE IF value.id \in seen THEN << >>
            ELSE ContentIds(objs, objs[value.id], seen \cup {value.id})
      [] OTHER -> << >>

get_page_contents(ns, objs, page) == FlattenSeq(SetToSeq({ContentIds(objs, v, {}) : v \in ns[page].contents}))

\* The streams among them, in order.
Streams(ns, objs, page) ==
    FlattenSeq([i \in DOMAIN get_page_contents(ns, objs, page) |->
        SetToSeq(OfType(get_object(objs, get_page_contents(ns, objs, page)[i]), "Stream"))])

\* The elements of data; data that are still in layers are no content.
Elements(data) == IF data.layers = << >> THEN data.tokens ELSE <<Other>>

Remaining(limit, size) == IF limit = Unlimited THEN Unlimited ELSE IF size > limit THEN 0 ELSE limit - size

\* A stream that cannot be decoded stands for itself, and each ends with a line feed.
OrItself(r, stream, limit) == IF r.status = "failed" THEN Limited(stream.data, limit) ELSE r

ReadOn(s, r) ==
    IF s.status = "limit" \/ r.status = "limit" THEN [s EXCEPT !.status = "limit"]
    ELSE [s EXCEPT !.size = @ + Size(r.out) + 1, !.tokens = @ \o Elements(r.out)]

ReadWithin(stream, limit) == OrItself(decode_filters(stream, limit), stream, limit)

\* get_page_content and get_page_content_with_limit: [status, size, tokens].
get_page_content(ns, objs, page, limit) ==
    FoldLeft(LAMBDA s, stream : ReadOn(s, ReadWithin(stream, Remaining(limit, s.size))),
             [status |-> "ok", size |-> 0, tokens |-> << >>], Streams(ns, objs, page))

\* get_and_decode_page_content.
Operations(ns, objs, page) == content(get_page_content(ns, objs, page, Unlimited).tokens)

RECURSIVE Ancestry(_, _, _)

\* collect_resources: the page and the nodes above it, {} if they are a circle, too many,
\* or one of them is not there.
Ancestry(ns, node, seen) ==
    IF ns[node].parent = {} THEN {<<node>>}
    ELSE LET parent == CHOOSE p \in ns[node].parent : TRUE IN
         IF parent \in seen \/ Cardinality(seen) >= MaxNesting \/ parent \notin DOMAIN ns THEN {}
         ELSE {<<node>> \o above : above \in Ancestry(ns, parent, seen \cup {parent})}

\* get_page_resources: the page's own dictionary, then those that it and its parents refer
\* to.  Parents' own dictionaries are not among them.
get_page_resources(ns, objs, page) ==
    LET Own(node) == OfType(ns[node].resources, "Dictionary")
        Referred(node) == OfType(UNION {get_object(objs, v.id) : v \in OfType(ns[node].resources, "Reference")}, "Dictionary")
    IN  {SetToSeq(Own(page)) \o FlattenSeq([i \in DOMAIN a |-> SetToSeq(Referred(a[i]))]) : a \in Ancestry(ns, page, {})}

\* A name that was found is not looked for any more.
Keeps(fonts, more) == [n \in DOMAIN fonts \cup DOMAIN more |-> IF n \in DOMAIN fonts THEN fonts[n] ELSE more[n]]

\* get_page_fonts: {} is an error.
get_page_fonts(ns, objs, page) ==
    LET Fonts(resources) ==
            LET dicts == OfType(Value(objs, resources.fonts), "Dictionary")
                all == IF dicts = {} THEN [n \in {} |-> {}] ELSE [n \in DOMAIN (CHOOSE d \in dicts : TRUE).entries |->
                           OfType(Value(objs, {(CHOOSE d \in dicts : TRUE).entries[n]}), "Font")]
            IN  [n \in {n \in DOMAIN all : all[n] # {}} |-> CHOOSE f \in all[n] : TRUE]
    IN  {FoldLeft(LAMBDA fonts, r : Keeps(fonts, Fonts(r)), [n \in {} |-> {}], all) : all \in get_page_resources(ns, objs, page)}

TextOfPage(part, encodings) ==
    LET good == {n \in DOMAIN encodings : encodings[n].status = "ok"}
        errors == [i \in 1 .. Cardinality(DOMAIN encodings \ good) |-> ErrorChunk]
    IN  IF part.status = "limit" THEN {}
        ELSE UNION {ExtractFrom(o, [n \in good |-> encodings[n].encoding], errors) : o \in content(part.tokens)}

\* extract_text_chunks_from_page: {} is an error, otherwise the chunks; the fonts that have no
\* encoding are errors before them.
Chunks(ns, objs, page, limit) ==
    UNION {TextOfPage(get_page_content(ns, objs, page, limit), [n \in DOMAIN fonts |-> get_font_encoding(objs, fonts[n], limit)]) :
           fonts \in get_page_fonts(ns, objs, page)}

\* extract_text: the text of all chunks if none is an error.
extract_text(ns, objs, page, limit) ==
    {FlattenSeq([i \in DOMAIN c |-> c[i].text]) : c \in {c \in Chunks(ns, objs, page, limit) : \A i \in DOMAIN c : c[i].ok}}

\* get_dict_in_dict of a page's own resources and their XObjects; the objects of names.
XObjects(ns, objs, page) ==
    UNION {OfType(Value(objs, r.xobjects), "Dictionary") : r \in OfType(Value(objs, ns[page].resources), "Dictionary")}

\* get_page_images: the numbers of the images, {} is an error; a page must have resources.
get_page_images(ns, objs, page) ==
    LET resources == OfType(Value(objs, ns[page].resources), "Dictionary")
        none == \E r \in resources : r.xobjects = {}
        Ids(d) == {d.entries[n].id : n \in DOMAIN d.entries}
        Found(d) == {id \in Ids(d) : \E s \in OfType(get_object(objs, id), "Stream") : s.subtype = "Image"}
    IN  IF none THEN {{}}
        ELSE {Found(d) : d \in {d \in XObjects(ns, objs, page) : \A id \in Ids(d) : OfType(get_object(objs, id), "Stream") # {}}}

-----------------------------------------------------------------------------
(***************************************************************************)
(* Changing a page.  A state is [nodes, objects, max_id]; an operator      *)
(* gives [ok, s] with what was changed before an error.                    *)
(***************************************************************************)
State == [nodes |-> nodes, objects |-> objects, max_id |-> max_id]

Done(s) == [ok |-> TRUE, s |-> s]
Error(s) == [ok |-> FALSE, s |-> s]

add_object(s, object) == [s EXCEPT !.max_id = @ + 1, !.objects = Put(@, s.max_id + 1, object)]

SetContents(s, page, value) == [s EXCEPT !.nodes[page].contents = {value}]

\* add_page_contents: a reference is put into the new array as it is, whatever it refers to.
add_page_contents(s, page, tokens) ==
    LET old == s.nodes[page].contents
        list == FlattenSeq(SetToSeq({IF v.type = "Array" THEN v.items ELSE <<v>> : v \in old}))
        new == add_object(s, Stream("Content", Plain(tokens)))
    IN  SetContents(new, page, [type |-> "Array", items |-> Append(list, Reference(new.max_id))])

\* change_content_stream: nothing, if the number is not that of a stream.
change_content_stream(s, id, tokens) ==
    IF id \in DOMAIN s.objects /\ s.objects[id].type = "Stream"
    THEN [s EXCEPT !.objects[id] = compress(set_plain_content(@, Plain(tokens)))] ELSE s

\* A slip: the first of the streams is changed, the others stay.
Sole_First(items) == items # << >>

\* An array of one item, whose stream is changed.
Sole(items) == Len(items) = 1

\* change_page_content: the one stream is changed where it is; several are replaced by a
\* new one, and stay as they were for whoever else uses them.
change_page_content(s, page, tokens) ==
    LET Change(v) ==
            CASE v.type = "Reference" -> change_content_stream(s, v.id, tokens)
              [] v.type = "Array" /\ Sole(v.items) ->
                    IF Head(v.items).type = "Reference" THEN change_content_stream(s, Head(v.items).id, tokens) ELSE s
              [] v.type = "Array" ->
                    LET new == add_object(s, Stream("Content", Plain(tokens))) IN SetContents(new, page, Reference(new.max_id))
              [] OTHER -> s
    IN  IF s.nodes[page].contents = {} THEN Error(s)
        ELSE Done(Change(CHOOSE v \in s.nodes[page].contents : TRUE))

NoEntries == [type |-> "Dictionary", entries |-> [n \in {} |-> 0]]
NoResources == [type |-> "Dictionary", fonts |-> {}, xobjects |-> {}]

\* A slip: only a dictionary of the page's own is used.
get_or_create_resources_Own(s, page) ==
    IF OfType(s.nodes[page].resources, "Dictionary") = {} THEN [s EXCEPT !.nodes[page].resources = {NoResources}] ELSE s

\* get_or_create_resources: the value of a page's /Resources, which is made if there is
\* none; what a parent has is not looked at.
get_or_create_resources(s, page) ==
    IF s.nodes[page].resources = {} THEN [s EXCEPT !.nodes[page].resources = {NoResources}] ELSE s

RECURSIVE Final(_, _)

\* The number at the end of a chain of references.
Final(objs, id) == IF objs[id].type = "Reference" THEN Final(objs, objs[id].id) ELSE id

\* A resource dictionary, the page's own or one it refers to, is changed where it is.
SetResources(s, page, resources) ==
    LET v == CHOOSE v \in s.nodes[page].resources : TRUE IN
    IF v.type = "Reference" THEN [s EXCEPT !.objects[Final(s.objects, v.id)] = resources]
    ELSE [s EXCEPT !.nodes[page].resources = {resources}]

\* The rest of add_xobject, where a document has some of the objects only: without resources
\* that are a dictionary nothing happens, and no error.
NameXObject(t, page, name, id, present) ==
    LET found == OfType(Value(t.objects, t.nodes[page].resources), "Dictionary")
        r == CHOOSE r \in found : TRUE
        u == IF r.xobjects = {} THEN SetResources(t, page, [r EXCEPT !.xobjects = {NoEntries}]) ELSE t
        v == IF r.xobjects = {} THEN NoEntries ELSE CHOOSE v \in r.xobjects : TRUE
        dicts == OfType(Dereferenced(Restrict(u.objects, present \cap DOMAIN u.objects), v, {}), "Dictionary")
        With(d) == [d EXCEPT !.entries = Put(@, name, Reference(id))]
    IN  IF found = {} THEN Done(t)
        ELSE IF dicts = {} THEN Error(u)
        ELSE LET new == With(CHOOSE d \in dicts : TRUE) IN
             IF v.type = "Reference" THEN Done([u EXCEPT !.objects[Final(u.objects, v.id)] = new])
             ELSE Done(SetResources(u, page, [r EXCEPT !.xobjects = {new}]))

add_xobject(s, page, name, id) == NameXObject(get_or_create_resources(s, page), page, name, id, DOMAIN s.objects)

\* get_or_create_resources and add_xobject of an IncrementalDocument: s is the previous document
\* with the new one over it.  The page is taken over, and with it the object its
\* /Resources lead to, under the number the page refers to; then only what the new
\* document has is found.
UpdateXObjects(s, page, name, id) ==
    LET referred == {v.id : v \in OfType(s.nodes[page].resources, "Reference")}
        taken == {n \in referred : get_object(s.objects, n) # {}}
        Copy(n) == IF n \in taken THEN CHOOSE o \in get_object(s.objects, n) : TRUE ELSE s.objects[n]
        copied == [s EXCEPT !.objects = [n \in DOMAIN s.objects |-> Copy(n)]]
    IN  NameXObject(get_or_create_resources(copied, page), page, name, id, taken \cup {id})

\* The name X<number> of a new object.
XName(id) == "X" \o ToString(id)

Draw(id) == Operation("Do", <<Element("name", XName(id))>>)
Plot(operator) == Operation(operator, << >>)

\* insert_image: the object is added first, then the name, and last the content.
insert_image(s, page, image) ==
    LET t == add_object(s, image)
        Drawn(u, old) ==
            change_page_content(u, page, encode(old \o <<Plot("q"), Plot("cm"), Draw(t.max_id), Plot("Q")>>))
        Then(named) ==
            IF ~named.ok THEN named
            ELSE Some({Drawn(named.s, o) : o \in Operations(named.s.nodes, named.s.objects, page)}, Error(named.s))
    IN  Then(add_xobject(t, page, XName(t.max_id), t.max_id))

\* insert_form_object: the content is decoded before the name is given.
insert_form_object(s, page, object) ==
    LET t == add_object(s, object)
        Drawn(named, old) ==
            IF ~named.ok THEN named
            ELSE change_page_content(named.s, page, encode(<<Plot("q")>> \o old \o <<Plot("Q"), Draw(t.max_id)>>))
    IN  Some({Drawn(add_xobject(t, page, XName(t.max_id), t.max_id), o) : o \in Operations(t.nodes, t.objects, page)}, Error(t))

\* The encodings for a replacement: {} if one font has none.
Encodings(ns, objs, page) ==
    {[n \in DOMAIN e |-> e[n].encoding] :
        e \in {e \in {[n \in DOMAIN fonts |-> get_font_encoding(objs, fonts[n], Unlimited)] : fonts \in get_page_fonts(ns, objs, page)} :
                  \A n \in DOMAIN e : e[n].status = "ok"}}

\* replace_text, which always writes, and replace_partial_text, which writes if there is
\* something new.
Replace(s, page, asked, partial) ==
    LET results == UNION {UNION {ReplaceIn(o, e, asked, partial, Default) : o \in Operations(s.nodes, s.objects, page)} :
                          e \in Encodings(s.nodes, s.objects, page)}
        Write(r) == IF partial /\ r.count = 0 THEN Done(s) ELSE change_page_content(s, page, encode(r.operations))
    IN  Some({Write(r) : r \in results}, Error(s))

-----------------------------------------------------------------------------
(***************************************************************************)
(* Calls.                                                                  *)
(***************************************************************************)

Init ==
    /\ \E d \in Documents :
          /\ nodes = d.nodes /\ objects = d.objects
          /\ max_id = CHOOSE n \in DOMAIN d.objects : \A m \in DOMAIN d.objects : m <= n
    /\ call = [name |-> "none", page |-> Pages[1], ok |-> TRUE, arg |-> << >>, before |-> State]
    /\ ops = 0

Become(name, page, arg, r) ==
    /\ ops < OpLimit /\ ops' = ops + 1
    /\ nodes' = r.s.nodes /\ objects' = r.s.objects /\ max_id' = r.s.max_id
    /\ call' = [name |-> name, page |-> page, ok |-> r.ok, arg |-> arg, before |-> State]

AddToPageContent(page) ==
    \E operations \in Contents : Become("add", page, operations, Done(add_page_contents(State, page, encode(operations))))

InsertImage(page) ==
    \E format \in {"Jpeg", "Png"} : Become("image", page, << >>, insert_image(State, page, image_from(format, Plain(<<0, 0, 0>>))))

InsertFormObject(page) == Become("form", page, << >>, insert_form_object(State, page, form(Plain(<<0>>))))

\* An incremental update of the document, which adds an image and gives it a name on a page.
UpdateIncrementally(page) ==
    LET t == add_object(State, image_from("Jpeg", Plain(<<0, 0, 0>>))) IN
    Become("update", page, << >>, UpdateXObjects(t, page, XName(t.max_id), t.max_id))

ReplaceText(page) == \E r \in Searches : Become("replace", page, r, Replace(State, page, r, FALSE))

ReplacePartialText(page) == \E r \in Searches : Become("partial", page, r, Replace(State, page, r, TRUE))

OnStreams(Change(_)) ==
    [State EXCEPT !.objects = [id \in DOMAIN objects |-> IF objects[id].type = "Stream" THEN Change(objects[id]) ELSE objects[id]]]

Compress ==
    LET Change(s) == IF s.allows_compression THEN compress(s) ELSE s IN
    Become("compress", Pages[1], << >>, Done(OnStreams(Change)))

Decompress ==
    LET Change(s) == decompress(s, Unlimited) IN
    Become("decompress", Pages[1], << >>, Done(OnStreams(Change)))

Next ==
    \/ \E page \in PageIds :
          \/ AddToPageContent(page) \/ InsertImage(page) \/ InsertFormObject(page) \/ UpdateIncrementally(page)
          \/ ReplaceText(page) \/ ReplacePartialText(page)
    \/ Compress \/ Decompress

Spec == Init /\ [][Next]_vars

-----------------------------------------------------------------------------
(***************************************************************************)
(* What pages show is what callers asked for: the state s before the last  *)
(* call and the state t after it.                                          *)
(***************************************************************************)
Shows(s, page) == Operations(s.nodes, s.objects, page)

IsStream(s, v) == v.type = "Reference" /\ v.id \in DOMAIN s.objects /\ s.objects[v.id].type = "Stream"

\* Contents that a change reaches: a stream, or an array that names it.  A reference to an
\* array is read, but not written.
Reached(s, page) ==
    \E v \in s.nodes[page].contents :
        IsStream(s, v) \/ (v.type = "Array" /\ (Len(v.items) = 1 => IsStream(s, Head(v.items))))

\* Content that is understood to its end, without inline images, which are not written
\* as they were read.
Understood(s, page) ==
    \E o \in content_strict(get_page_content(s.nodes, s.objects, page, Unlimited).tokens) :
        \A i \in DOMAIN o : o[i].operator # "BI"

\* A list of contents is not hidden in an object of its own.
Listed(s, page) ==
    \A v \in s.nodes[page].contents : v.type = "Reference" => OfType(get_object(s.objects, v.id), "Array") = {}

\* Streams whose dictionaries agree with their data.
Regular(s, page) == \A x \in ToSet(Streams(s.nodes, s.objects, page)) : x.filter # {<< >>} /\ (x.parms => x.filter # {})

\* The stream that a change writes to where it is, if there is one.
InPlace(s, page) ==
    UNION {CASE v.type = "Reference" -> {v.id}
             [] v.type = "Array" /\ Len(v.items) = 1 -> ToSet(References(v))
             [] OTHER -> {} : v \in s.nodes[page].contents}

Shares(s, page, other) ==
    LET read == {id \in ToSet(get_page_contents(s.nodes, s.objects, page)) : get_object(s.objects, id) # {}} IN
    InPlace(s, other) \cap {Final(s.objects, id) : id \in read} # {}

\* What the call asks for; the texts of a replacement are for TextReplaced.
Asked(o, id) ==
    CASE call.name = "add" -> o \o call.arg
      [] call.name = "image" -> o \o <<Plot("q"), Plot("cm"), Draw(id), Plot("Q")>>
      [] call.name = "form" -> <<Plot("q")>> \o o \o <<Plot("Q"), Draw(id)>>
      [] OTHER -> o

Replacing == call.name \in {"replace", "partial"}

WithoutText(o) ==
    [i \in DOMAIN o |-> Operation(o[i].operator,
        [j \in DOMAIN o[i].operands |-> IF o[i].operands[j].t \in {"string", "array"} THEN Element(o[i].operands[j].t, "")
                                        ELSE o[i].operands[j]])]

Changes(page) == call.ok /\ call.page = page /\ call.name \notin {"none", "compress", "decompress"}

\* The change of a page that is understood and reached.
Affects(page) ==
    /\ Changes(page) /\ Understood(call.before, page)
    /\ IF call.name = "add" THEN Listed(call.before, page) ELSE Reached(call.before, page)

\* No call loses or repeats what a page shows: added content comes after what is there,
\* an image is drawn last, a form object is framed, a replacement keeps all operators.
\* A call that fails changes what no page shows, and a call on one page changes nothing of
\* another, unless the only stream it writes to is the other's too; compressing and
\* decompressing change nothing.  What a change does not reach, or does not understand,
\* is not claimed to be kept.
ContentsKept ==
    \A page \in PageIds :
        LET s == call.before
            before == Shows(s, page)
            after == Shows(State, page)
        IN  /\ Affects(page) =>
                   \E o \in before, p \in after :
                       IF Replacing THEN WithoutText(p) = WithoutText(o) ELSE p = Asked(o, s.max_id + 1)
            /\ ~Changes(page) => after = before \/ ~Regular(s, page) \/ (call.ok /\ Shares(s, page, call.page))

-----------------------------------------------------------------------------
\* The texts of the strings of operations, by operation and operand, or of the arrays as one:
\* [place -> [text, encoding]].
PartsOf(o, e, whole) ==
    LET Fonts(i) == {j \in 1 .. i : o[j].operator = "Tf"}
        Font(i) == o[CHOOSE j \in Fonts(i) : \A k \in Fonts(i) : k <= j].operands[1]
        Items(i) == o[i].operands
        places == {p \in {<<i, j, k>> : i \in DOMAIN o, j \in 1 .. 3, k \in 0 .. 3} :
                      /\ o[p[1]].operator \in {"Tj", "TJ"} /\ Fonts(p[1]) # {} /\ Selects(Font(p[1]), e)
                      /\ p[2] \in DOMAIN Items(p[1])
                      /\ IF whole \/ Items(p[1])[p[2]].t # "array" THEN p[3] = 0
                         ELSE p[3] \in DOMAIN Items(p[1])[p[2]].v /\ Items(p[1])[p[2]].v[p[3]].t = "string"}
        Operands(p) ==
            LET operand == Items(p[1])[p[2]] IN
            IF operand.t # "array" THEN <<operand>> ELSE IF whole THEN operand.v ELSE <<operand.v[p[3]]>>
    IN  [p \in places |-> [text |-> collect_text(e[Font(p[1]).v], Operands(p)).text, encoding |-> e[Font(p[1]).v]]]

Parts(s, page, whole) ==
    Some({PartsOf(o, e, whole) : o \in Shows(s, page), e \in Encodings(s.nodes, s.objects, page)}, [p \in {} |-> 0])

Expressible(encoding, text) == Decode(encoding, encode_text(encoding, text, << >>)) = [ok |-> TRUE, text |-> text]

Visible(text) == SelectSeq(text, LAMBDA c : c # Space)

New(text, whole) ==
    IF ~whole THEN Replaced(text, call.arg.text, call.arg.other)
    ELSE IF text = call.arg.text THEN call.arg.other ELSE text

SaysNew(part, later, new) ==
    IF new = part.text THEN later.text = new ELSE Expressible(part.encoding, new) => Visible(later.text) = new

AllSayNew(before, after, whole) ==
    DOMAIN after = DOMAIN before /\ \A p \in DOMAIN before : SaysNew(before[p], after[p], New(before[p].text, whole))

\* replace_text changes the strings, and the arrays as one, that say just what is looked
\* for, and replace_partial_text every occurrence within a string, into the new text, if
\* the font of the place can express it; and they change no other text.
TextReplaced ==
    \A page \in PageIds :
        Affects(page) /\ Replacing =>
            AllSayNew(Parts(call.before, page, call.name = "replace"), Parts(State, page, call.name = "replace"), call.name = "replace")

-----------------------------------------------------------------------------
\* What the names a page draws stand for, if it has resources of its own.
Named(s, page) ==
    LET dicts == XObjects(s.nodes, s.objects, page)
        d == CHOOSE d \in dicts : TRUE
    IN  IF dicts = {} THEN [n \in {} |-> 0] ELSE [n \in DOMAIN d.entries |-> d.entries[n].id]

Naming == call.name \in {"image", "form", "update"}

\* A name stands for the same object after every call, on every page, unless it is the very
\* name X<number> the new object gets; and that one stands for the new object, which is
\* found among the page's images if it is one, if the page has resources that are a
\* dictionary.
DrawnKept ==
    LET s == call.before
        id == s.max_id + 1
    IN  /\ \A page \in PageIds : \A n \in DOMAIN Named(s, page) :
               n \in DOMAIN Named(State, page) /\ (Named(State, page)[n] = Named(s, page)[n] \/ (n = XName(id) /\ Naming))
        /\ LET page == call.page IN
           call.ok /\ Naming /\ XObjects(nodes, objects, page) # {} =>
               /\ XName(id) \in DOMAIN Named(State, page) /\ Named(State, page)[XName(id)] = id
               /\ \A images \in get_page_images(nodes, objects, page) : id \in images <=> call.name # "form"

-----------------------------------------------------------------------------
\* How large data get while a stream is decoded, before a predictor too.
Widest(stream) ==
    LET names == IF stream.filter = {} THEN << >> ELSE CHOOSE names \in stream.filter : TRUE
        After(n, parms) == Size(decode_filters([stream EXCEPT !.filter = {SubSeq(names, 1, n)}, !.parms = parms], Unlimited).out)
    IN  Max({Size(decode_filters(stream, Unlimited).out), Size(stream.data)}
            \cup {After(n, parms) : n \in DOMAIN names, parms \in {FALSE, stream.parms}})

\* The size of what is read before the n-th stream.
SizeBefore(streams, n) ==
    LET Read(x) == IF decode_filters(x, Unlimited).status = "ok" THEN decode_filters(x, Unlimited).out ELSE x.data IN
    FoldLeft(LAMBDA sum, x : sum + 1 + Size(Read(x)), 0, SubSeq(streams, 1, n - 1))

\* A page read with a limit is the page read without, of no more than the limit and a line
\* feed for each stream, or it is refused; and it is refused only if some stream, decoded
\* after the others, does not fit.  Text extracted with a limit is the text extracted
\* without: a font whose map is too large does not fall back to another encoding.
LimitsHold ==
    \A page \in PageIds, limit \in Limits :
        LET whole == get_page_content(nodes, objects, page, Unlimited)
            part == get_page_content(nodes, objects, page, limit)
            streams == Streams(nodes, objects, page)
            room == {i \in DOMAIN streams : Widest(streams[i]) > limit - SizeBefore(streams, i)}
        IN  /\ part.status = "ok" => part.tokens = whole.tokens /\ part.size = whole.size /\ part.size <= limit + Len(streams)
            /\ part.status = "limit" => room # {}
            /\ extract_text(nodes, objects, page, limit) \subseteq extract_text(nodes, objects, page, Unlimited)
===============================================================================
