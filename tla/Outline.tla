------------------------------- MODULE Outline -------------------------------
(***************************************************************************)
(* Bookmarks, the outline built from them, and the table of contents read  *)
(* from an outline (src/src/bookmarks.rs, src/src/outlines.rs,             *)
(* src/src/destinations.rs, src/src/toc.rs, and adjust_zero_pages of       *)
(* src/src/document.rs).                                                   *)
(*                                                                         *)
(* Bookmarks are a tree of their own: a table of nodes with sequences of   *)
(* children.  An outline is made of objects that point at each other:      *)
(* First and Last child, Count of them, Next and Prev sibling, Parent, and *)
(* an action with the destination.  A field that is absent is {}, one that is there is a  *)
(* singleton.  Objects are named by their numbers.                         *)
(***************************************************************************)
EXTENDS Naturals, Sequences, FiniteSets, SequencesExt

CONSTANTS
    Pages,       \* the page objects of the document, in page order
    Marks,       \* title and page of the bookmarks callers add
    WideTitles,  \* the titles that are not ASCII
    Foreign,     \* outlines of other writers a document may come with, see Init
    MaxNesting,  \* MAX_NESTING_DEPTH
    BookmarkLimit, OpLimit  \* bounds: bookmarks, calls

ASSUME OutlineAssumption ==
    /\ Pages \in Seq(Nat \ {0})
    /\ MaxNesting \in Nat /\ BookmarkLimit \in Nat /\ OpLimit \in Nat

NoPage == 0   \* the object id (0, 0)

PageIds == {Pages[i] : i \in DOMAIN Pages}

ASSUME MarksAssumption == \A m \in Marks : m[2] \in PageIds \cup {NoPage}

VARIABLES
    table, roots,  \* bookmark_table, bookmarks
    maxBookmark,   \* max_bookmark_id
    objects,       \* the objects that belong to outlines and name trees
    maxId,         \* max_id
    catalog,       \* [outlines, dests]: the catalog's /Outlines and name tree
    built,         \* (history) what the outline was built from: {} or {[table, roots]}
    ops

bookmarks == <<table, roots, maxBookmark>>
vars == <<bookmarks, objects, maxId, catalog, built, ops>>

Put(f, g) ==
    [x \in DOMAIN f \cup DOMAIN g |-> IF x \in DOMAIN g THEN g[x] ELSE f[x]]

Nothing == [n \in {} |-> 0]

-----------------------------------------------------------------------------
(***************************************************************************)
(* adjust_zero_pages.                                                      *)
(***************************************************************************)
RECURSIVE recursive_fix_pages(_, _, _)

\* A slip: one level is adjusted, not those below.
recursive_fix_pages_Shallow(t, ids, first) ==
    LET lost == {i \in DOMAIN ids : t[ids[i]].page = NoPage /\ t[ids[i]].children # << >>}
        FirstChild(i) == t[t[ids[i]].children[1]].page
    IN  [table |-> [id \in DOMAIN t |->
                       IF \E i \in lost : ids[i] = id
                       THEN [t[id] EXCEPT !.page = FirstChild(CHOOSE i \in lost : ids[i] = id)]
                       ELSE t[id]],
         page |-> NoPage]

\* The table and the page found: with first, every level is adjusted and nothing
\* is returned; without, the first bookmark that has a page or gets one ends it.
recursive_fix_pages(t, ids, first) ==
    IF ids = << >> \/ Head(ids) \notin DOMAIN t THEN [table |-> t, page |-> NoPage]
    ELSE LET id == Head(ids)
             children == t[id].children
             inner == IF t[id].page = NoPage /\ children # << >>
                      THEN recursive_fix_pages(t, children, FALSE)
                      ELSE [table |-> t, page |-> t[id].page]
             here == [inner.table EXCEPT ![id].page = inner.page]
             below == IF first /\ children # << >>
                      THEN recursive_fix_pages(here, children, first).table ELSE here
         IN  IF ~first /\ inner.page # NoPage
             THEN [table |-> here, page |-> inner.page]
             ELSE recursive_fix_pages(below, Tail(ids), first)

-----------------------------------------------------------------------------
(***************************************************************************)
(* build_outline.                                                          *)
(***************************************************************************)
Destination(page) == <<"page", page>>

Action(command, dest) == [kind |-> "action", command |-> command, dest |-> dest]

\* A slip: titles are written as they are.
Written_Plain(title) == [bom |-> FALSE, text |-> title]

\* ASCII as it is, anything else in UTF-16 with a byte order mark.
Written(title) == [bom |-> title \in WideTitles, text |-> title]

\* A slip: Next is set, Prev is not.
Before_None(last) == {}

Before(last) == last

RECURSIVE outline_child(_, _, _, _, _)

\* The items for the bookmarks ids below parent, numbered from n + 1 on: an item,
\* its action, the items of its children, the next item.  last: the item before.
outline_child(t, ids, parent, n, last) ==
    IF ids = << >> THEN [objs |-> Nothing, maxId |-> n, last |-> last]
    ELSE LET id == n + 1
             info == n + 2
             bookmark == t[Head(ids)]
             below == outline_child(t, bookmark.children, id, info, {})
             after == outline_child(t, Tail(ids), parent, below.maxId, {id})
             item ==
                 [kind |-> "item", parent |-> {parent}, prev |-> Before(last),
                  next |-> IF Tail(ids) = << >> THEN {} ELSE {below.maxId + 1},
                  first |-> IF bookmark.children = << >> THEN {} ELSE {info + 1},
                  last |-> below.last,
                  count |-> IF bookmark.children = << >> THEN {} ELSE {Len(bookmark.children)},
                  title |-> {Written(bookmark.title)}, action |-> {info}, dest |-> {}]
         IN  [objs |-> Put(Put(below.objs, after.objs),
                           [o \in {id, info} |->
                               IF o = id THEN item ELSE Action("GoTo", Destination(bookmark.page))]),
              maxId |-> after.maxId, last |-> after.last]

Root(first, last, count) ==
    [kind |-> "item", parent |-> {}, prev |-> {}, next |-> {}, first |-> first, last |-> last,
     count |-> count, title |-> {}, action |-> {}, dest |-> {}]

-----------------------------------------------------------------------------
(***************************************************************************)
(* get_named_destinations: {} is an error.  A node of the name tree is     *)
(* [kids, names]; names are pairs of a name and a page.                    *)
(***************************************************************************)
RECURSIVE NamesBelow(_, _, _)

NamesOf(pairs) ==
    [k \in {pairs[i][1] : i \in DOMAIN pairs} |->
        pairs[CHOOSE i \in DOMAIN pairs : pairs[i][1] = k /\ \A j \in DOMAIN pairs : pairs[j][1] = k => j <= i][2]]

\* Kids that are no dictionaries are passed over; the names of the node itself
\* replace those of its kids, those of later kids the ones of earlier kids.
NamesBelow(objs, node, depth) ==
    IF depth >= MaxNesting THEN {}
    ELSE LET kids == SelectSeq(objs[node].kids, LAMBDA k : k \in DOMAIN objs)
             Joined[i \in 0 .. Len(kids)] ==
                 IF i = 0 THEN {Nothing}
                 ELSE {Put(f, g) : f \in Joined[i - 1], g \in NamesBelow(objs, kids[i], depth + 1)}
         IN  {Put(f, NamesOf(objs[node].names)) : f \in Joined[Len(kids)]}

-----------------------------------------------------------------------------
(***************************************************************************)
(* get_outline and build_outline_result: {} when the item yields nothing.  *)
(***************************************************************************)
build_outline_result(names, dest, title) ==
    CASE dest[1] = "name" -> {[title |-> title, page |-> Destination(names[k])] :
                                 k \in {dest[2]} \cap DOMAIN names}
      [] dest[1] = "none" -> {}
      [] OTHER -> {[title |-> title, page |-> dest]}

get_outline(objs, names, item) ==
    LET actions == {objs[a] : a \in item.action \cap DOMAIN objs}
        dests == IF actions = {} THEN item.dest
                 ELSE {a.dest : a \in {a \in actions : a.command \in {"GoTo", "GoToR"}}}
    IN  UNION {build_outline_result(names, dest, title) : dest \in dests, title \in item.title}

RECURSIVE get_outlines_impl(_, _, _, _)

\* The destinations of an item, of its children, and of the items after it, as
\* setup_outline_page_ids lists them: {} is an error, of the nesting or of a first
\* child that is not there.  (A next item that is not there ends the list.)
get_outlines_impl(objs, names, id, depth) ==
    IF depth >= MaxNesting \/ id \notin DOMAIN objs THEN {}
    ELSE LET item == objs[id]
             own == SetToSeq({[level |-> depth + 1, title |-> o.title, page |-> o.page] :
                                 o \in get_outline(objs, names, item)})
             Below == UNION {get_outlines_impl(objs, names, c, depth + 1) : c \in item.first}
             After == UNION {get_outlines_impl(objs, names, s, depth) : s \in item.next \cap DOMAIN objs}
         IN  {own \o b \o a : b \in IF item.first = {} THEN {<< >>} ELSE Below,
                              a \in IF item.next \cap DOMAIN objs = {} THEN {<< >>} ELSE After}

\* get_outlines: the catalog's outline, from its first item on.
get_outlines(objs, cat) ==
    LET names == IF cat.dests = {} THEN {Nothing}
                 ELSE UNION {NamesBelow(objs, n, 0) : n \in cat.dests}
        start == IF objs[CHOOSE o \in cat.outlines : TRUE].first \cap DOMAIN objs # {}
                 THEN objs[CHOOSE o \in cat.outlines : TRUE].first \cap DOMAIN objs
                 ELSE cat.outlines
    IN  IF ~cat.outlines \subseteq DOMAIN objs \/ cat.outlines = {} THEN {}
        ELSE UNION {get_outlines_impl(objs, ns, n, 0) : ns \in names, n \in start}

\* The title that was written, if it is read the way it was written.
Read(title) ==
    IF title.bom \/ title.text \notin WideTitles THEN title.text ELSE <<"garbled", title.text>>

PageNumber(p) == CHOOSE i \in DOMAIN Pages : Pages[i] = p

\* get_toc: an error when a page is not a reference; pages that are not in the
\* document are left out.
TocOf(listed) ==
    LET inDocument == SelectSeq(listed, LAMBDA e : e.page[2] \in PageIds) IN
    IF \E i \in DOMAIN listed : listed[i].page[1] # "page" THEN {}
    ELSE {[i \in DOMAIN inDocument |->
              [level |-> inDocument[i].level, title |-> Read(inDocument[i].title),
               page |-> PageNumber(inDocument[i].page[2])]]}

Toc == UNION {TocOf(listed) : listed \in get_outlines(objects, catalog)}

-----------------------------------------------------------------------------
(***************************************************************************)
(* delete_outlines.                                                        *)
(***************************************************************************)
\* delete_object: what refers to the object does so no longer.
Without(objs, id) ==
    [o \in DOMAIN objs \ {id} |->
        IF objs[o].kind # "item" THEN objs[o]
        ELSE [objs[o] EXCEPT !.next = @ \ {id}, !.prev = @ \ {id}, !.parent = @ \ {id},
                             !.first = @ \ {id}, !.last = @ \ {id}]]

RECURSIVE walk_outlines_del(_, _, _)

\* A slip: the next item is looked up when the current one is gone.
walk_outlines_del_Late(objs, id, depth) == [objs |-> Without(objs, id), ok |-> TRUE]

\* The children first, then the item, then those after it, which were noted before.
walk_outlines_del(objs, id, depth) ==
    IF depth >= MaxNesting \/ id \notin DOMAIN objs THEN [objs |-> objs, ok |-> FALSE]
    ELSE LET first == objs[id].first
             next == objs[id].next
             below == IF first = {} THEN [objs |-> objs, ok |-> TRUE]
                      ELSE walk_outlines_del(objs, CHOOSE c \in first : TRUE, depth + 1)
             here == Without(below.objs, id)
         IN  IF ~below.ok THEN below
             ELSE IF next = {} THEN [objs |-> here, ok |-> TRUE]
             ELSE walk_outlines_del(here, CHOOSE s \in next : TRUE, depth)

Deletion(objs, outlines) ==
    LET first == objs[outlines].first IN
    IF first = {} THEN [objs |-> Without(objs, outlines), ok |-> TRUE]
    ELSE LET r == walk_outlines_del(objs, CHOOSE c \in first : TRUE, 0)
         IN  IF r.ok THEN [objs |-> Without(r.objs, outlines), ok |-> TRUE] ELSE r

-----------------------------------------------------------------------------
\* An empty document, or one that comes with the outline of another writer:
\* [objects, maxId, catalog].
Init ==
    /\ \E f \in Foreign :
          objects = f.objects /\ maxId = f.maxId /\ catalog = f.catalog
    /\ table = Nothing /\ roots = << >> /\ maxBookmark = 0
    /\ built = {}
    /\ ops = 0

Counted == ops < OpLimit /\ ops' = ops + 1

\* add_bookmark: {} is no parent.  A parent that does not exist is ignored, the
\* bookmark is in the table and below nothing.
AddBookmark(title, page, parent) ==
    LET id == maxBookmark + 1
        bookmark == [title |-> title, page |-> page, children |-> << >>]
        grown == [b \in DOMAIN table |->
                     IF {b} = parent THEN [table[b] EXCEPT !.children = Append(@, id)] ELSE table[b]]
    IN  /\ Counted /\ id <= BookmarkLimit
        /\ table' = Put(grown, [b \in {id} |-> bookmark])
        /\ roots' = IF parent = {} THEN Append(roots, id) ELSE roots
        /\ maxBookmark' = id
        /\ UNCHANGED <<objects, maxId, catalog, built>>

AdjustZeroPages ==
    /\ Counted
    /\ table' = recursive_fix_pages(table, roots, TRUE).table
    /\ UNCHANGED <<roots, maxBookmark, objects, maxId, catalog, built>>

\* build_outline, and the caller makes it the document's outline.
BuildOutline ==
    /\ Counted /\ roots # << >>
    /\ LET id == maxId + 1
           items == outline_child(table, roots, id, id, {})
       IN  /\ objects' = Put(Put(objects, items.objs), [o \in {id} |-> Root({id + 1}, items.last, {Len(roots)})])
           /\ maxId' = items.maxId
           /\ catalog' = [catalog EXCEPT !.outlines = {id}]
    /\ built' = {[table |-> table, roots |-> roots]}
    /\ UNCHANGED bookmarks

\* delete_outlines; it stops where it runs into an error.
DeleteOutlines ==
    /\ Counted /\ catalog.outlines # {}
    /\ LET r == Deletion(objects, CHOOSE o \in catalog.outlines : TRUE)
       IN  /\ objects' = r.objs
           /\ catalog' = IF r.ok THEN [catalog EXCEPT !.outlines = {}] ELSE catalog
    /\ built' = {}
    /\ UNCHANGED <<bookmarks, maxId>>

Next ==
    \/ \E m \in Marks, parent \in {{}} \cup {{b} : b \in 1 .. maxBookmark + 1} :
          AddBookmark(m[1], m[2], parent)
    \/ AdjustZeroPages \/ BuildOutline \/ DeleteOutlines

Spec == Init /\ [][Next]_vars

-----------------------------------------------------------------------------
(***************************************************************************)
(* Properties.                                                             *)
(***************************************************************************)
\* The bookmarks below ids in reading order, with their levels.
RECURSIVE Listed(_, _, _)

Listed(t, ids, level) ==
    FlattenSeq([i \in DOMAIN ids |->
        <<[level |-> level, bookmark |-> t[ids[i]]]>> \o Listed(t, t[ids[i]].children, level + 1)])

RECURSIVE Reached(_, _)

Reached(t, ids) == ToSet(ids) \cup UNION {Reached(t, t[ids[i]].children) : i \in DOMAIN ids}

RECURSIVE ItemsFrom(_, _)

ItemsFrom(objs, ids) ==
    LET more == (ids \cup UNION {objs[o].first \cup objs[o].next : o \in ids}) \cap DOMAIN objs
    IN  IF more = ids THEN ids ELSE ItemsFrom(objs, more)

\* What an item leads to, however it says so: every name of the tree counts, the
\* depth of the node that defines it does not.
LeadsTo(o) ==
    LET dests == {objects[a].dest : a \in {a \in objects[o].action : objects[a].command \in {"GoTo", "GoToR"}}}
                 \cup objects[o].dest
        pairs == UNION {ToSet(objects[n].names) : n \in {n \in DOMAIN objects : objects[n].kind = "names"}}
    IN  {p \in PageIds : <<"page", p>> \in dests \/ \E d \in dests : d[1] = "name" /\ <<d[2], p>> \in pairs}

\* The table of contents is the tree of bookmarks the outline was built from: every
\* bookmark that has a page, in reading order, at its level, with its title and the
\* number of its page, after whatever bookmarks were added since.  When the tree is
\* deeper than a reader nests, there is none.  And that of any outline, of lopdf or
\* another writer, has one entry for every item that leads to a page of the document,
\* and no others: a dead link among them costs only itself.
TocIsOutline ==
    /\ \A b \in built :
          LET all == Listed(b.table, b.roots, 1)
              shown == SelectSeq(all, LAMBDA e : e.bookmark.page # NoPage)
          IN  Toc = IF \E i \in DOMAIN all : all[i].level > MaxNesting THEN {}
                    ELSE {[i \in DOMAIN shown |->
                              [level |-> shown[i].level, title |-> shown[i].bookmark.title,
                               page |-> PageNumber(shown[i].bookmark.page)]]}
    /\ \A toc \in Toc :
          LET items == {o \in ItemsFrom(objects, catalog.outlines) : LeadsTo(o) # {}} IN
          /\ Len(toc) = Cardinality(items)
          /\ \A o \in items : \E i \in DOMAIN toc : Pages[toc[i].page] \in LeadsTo(o)

\* The five links of the items below the outline agree: what is next has this
\* item as its previous and the same parent, a first child has no previous, a last
\* one no next, both have the item as their parent, and Count is the number of items
\* that do, at every level.  (Viewers follow what lopdf itself never reads.)
WellLinked ==
    built # {} =>
        \A o \in ItemsFrom(objects, catalog.outlines) :
            /\ \A n \in objects[o].next :
                  objects[n].prev = {o} /\ objects[n].parent = objects[o].parent
            /\ \A n \in objects[o].prev : objects[n].next = {o}
            /\ \A c \in objects[o].first : objects[c].prev = {} /\ objects[c].parent = {o}
            /\ \A c \in objects[o].last : objects[c].next = {} /\ objects[c].parent = {o}
            /\ objects[o].first = {} <=> objects[o].last = {}
            /\ LET children == {c \in DOMAIN objects : objects[c].kind = "item" /\ objects[c].parent = {o}}
               IN  objects[o].count = IF children = {} THEN {} ELSE {Cardinality(children)}

RECURSIVE PagesBelow(_, _)

PagesBelow(t, b) ==
    LET children == t[b].children IN
    FlattenSeq([i \in DOMAIN children |->
        (IF t[children[i]].page = NoPage THEN << >> ELSE <<t[children[i]].page>>)
            \o PagesBelow(t, children[i])])

\* adjust_zero_pages gives a bookmark that has no page the first page below it, at
\* every level ("till all parents of children are set"), and changes no other; one
\* in the tree is left without only if nothing below it has one.
ZeroPagesAdjusted ==
    [][AdjustZeroPages =>
          /\ \A b \in DOMAIN table :
                \/ table'[b] = table[b]
                \/ /\ table[b].page = NoPage
                   /\ table'[b] = [table[b] EXCEPT !.page = Head(PagesBelow(table, b))]
          /\ \A b \in Reached(table, roots) :
                table'[b].page = NoPage => PagesBelow(table, b) = << >>]_vars

LinksOf(item) == item.first \cup item.last \cup item.next \cup item.prev \cup item.parent

\* Deleting the outline leaves no item of it in the document, children and siblings
\* included.  When it stops half way, at a link that leads nowhere or at too many
\* levels, the catalog still has its outline, which is there.  Either way it deletes
\* nothing but items of the outline, and no item that stays links to one that is gone.
DeletedWhole ==
    [][DeleteOutlines =>
          LET items == ItemsFrom(objects, catalog.outlines)
              gone == DOMAIN objects \ DOMAIN objects'
          IN  /\ gone \subseteq items
              /\ IF catalog'.outlines = {} THEN gone = items
                 ELSE catalog'.outlines = catalog.outlines /\ gone \cap catalog.outlines = {}
              /\ \A o \in DOMAIN objects' :
                    objects'[o].kind = "item" => gone \cap LinksOf(objects'[o]) = {}]_vars
=============================================================================
