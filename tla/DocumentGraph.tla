----------------------------- MODULE DocumentGraph -----------------------------
(***************************************************************************)
(* Editing the graph of a document: objects and pages are deleted, what is *)
(* unused is pruned, and everything is given new numbers                   *)
(* (src/src/processor.rs, src/src/creator.rs).  References, in objects and *)
(* in bookmarks, must go on meaning what they meant.                       *)
(***************************************************************************)
EXTENDS ObjectGraph

CONSTANTS
    Documents,  \* the documents to start from: [objs, trailer, maxId]
    MaxNesting, \* MAX_NESTING_DEPTH of the metadata loader
    Starts,     \* bound: starting_id of renumber_objects_with
    OpLimit     \* bound: how many calls there are

ASSUME DocumentsAssumption ==
    \A d \in Documents :
        /\ IsObjects(d.objs) /\ IsFiniteSet(DOMAIN d.objs)
        /\ IsTree(d.objs, d.trailer)
        /\ \A id \in DOMAIN d.objs : id[1] <= d.maxId

ASSUME StartsAssumption == Starts \subseteq Nat \ {0} /\ OpLimit \in Nat /\ MaxNesting \in Nat

VARIABLES
    objs,       \* Document::objects
    trailer,    \* the references in Document::trailer
    maxId,      \* Document::max_id
    bookmarks,  \* the pages of the bookmarks, in the order they were added
    last,       \* the last call, what it was given, and whether it failed
    ops         \* how many calls there were

vars == <<objs, trailer, maxId, bookmarks, last, ops>>

Init ==
    /\ \E d \in Documents : objs = d.objs /\ trailer = d.trailer /\ maxId = d.maxId
    /\ bookmarks = << >>
    /\ last = [op |-> "new", arg |-> << >>, ok |-> TRUE]
    /\ ops = 0

Call(op, arg, ok) ==
    ops < OpLimit /\ ops' = ops + 1 /\ last' = [op |-> op, arg |-> arg, ok |-> ok]

Pages == PagesOf(objs, trailer)

RefTo(id) == [id |-> id, to |-> objs[id].tag]

NewTag == 100 + ops

--------------------------------------------------------------------------------
\* add_object, and a reference to the new object in a page.
AddObject(page) ==
    /\ Call("add", <<page>>, TRUE)
    /\ LET new == <<maxId + 1, 0>>
           ref == [id |-> new, to |-> NewTag]
           obj == [tag |-> NewTag, type |-> "Other", count |-> 0,
                   links |-> [k \in {} |-> ref], lists |-> [k \in {} |-> << >>]]
       IN  objs' = Put(objs, [id \in {page, new} |->
                          IF id = new THEN obj
                          ELSE [objs[page] EXCEPT !.links = Put(@, [k \in {"Link"} |-> ref])]])
    /\ maxId' = maxId + 1
    /\ UNCHANGED <<trailer, bookmarks>>

\* add_bookmark, for a page of the document
AddBookmark(page) ==
    /\ Call("bookmark", <<page>>, TRUE)
    /\ bookmarks' = Append(bookmarks, RefTo(page))
    /\ UNCHANGED <<objs, trailer, maxId>>

\* remove_object: references to it may stay behind.
RemoveObject(id) ==
    /\ Call("remove", <<id>>, TRUE)
    /\ objs' = Without(objs, {id})
    /\ UNCHANGED <<trailer, maxId, bookmarks>>

--------------------------------------------------------------------------------
(***************************************************************************)
(* delete_object: of a dictionary every entry that refers to the object,   *)
(* of an array the first one.  The entries of a stream's dictionary and of *)
(* the trailer are not looked at.                                          *)
(***************************************************************************)
FirstTaken(list, id) ==
    LET hits == {i \in DOMAIN list : list[i].id = id}
    IN  IF hits = {} THEN list
        ELSE RemoveAt(list, CHOOSE i \in hits : \A j \in hits : i <= j)

Unlinked(o, id) ==
    [o EXCEPT !.links = IF o.type = "Stream" THEN @
                        ELSE Without(@, {k \in DOMAIN @ : o.links[k].id = id}),
              !.lists = [k \in DOMAIN @ |-> FirstTaken(o.lists[k], id)]]

Visiting(os, id) == Traversed(os, [x \in DOMAIN os |-> Unlinked(os[x], id)], trailer)

Deleted(os, id) == Without(Visiting(os, id), {id})

DeleteObject(id) ==
    /\ Call("delete", <<id>>, TRUE)
    /\ objs' = Deleted(objs, id)
    /\ UNCHANGED <<trailer, maxId, bookmarks>>

\* delete_zero_length_streams: the length of a stream is its count.
DeleteZeroLengthStreams ==
    LET empty == {id \in DOMAIN objs : objs[id].type = "Stream" /\ objs[id].count = 0}
    IN  /\ Call("delete empty", << >>, TRUE)
        /\ objs' = FoldLeft(Deleted, objs, Ordered(empty))
        /\ UNCHANGED <<trailer, maxId, bookmarks>>

ParentOf(o) ==
    IF o.type # "Stream" /\ "Parent" \in DOMAIN o.links THEN {o.links["Parent"].id} ELSE {}

\* The dictionaries above an object that was taken out of os, as /Parent names them.
Above(os, o) ==
    LET Dicts(ids) == {id \in ids \cap DOMAIN os : os[id].type # "Stream"}
        hops[k \in Nat] ==
            IF k = 0 THEN Dicts(ParentOf(o))
            ELSE LET h == hops[k - 1] IN h \cup Dicts(UNION {ParentOf(os[id]) : id \in h})
    IN  hops[Cardinality(DOMAIN os)]

OneLess(os, above) ==
    [id \in DOMAIN os |->
        IF id \in above /\ os[id].type = "Pages" THEN [os[id] EXCEPT !.count = @ - 1] ELSE os[id]]

\* A slip: only the page's own parent counts one page less.
PageDeleted_OneLevel(os, page) ==
    OneLess(Deleted(os, page),
            UNION {ParentOf(Visiting(os, page)[p]) : p \in {page} \cap DOMAIN os})

\* One turn of delete_pages: the page, and one less in every node above it.  (The
\* loop does not end where /Parent goes round in a circle.)  /Count is in /Pages.
PageDeleted(os, page) ==
    LET rest == Deleted(os, page)
    IN  OneLess(rest, UNION {Above(rest, Visiting(os, page)[p]) : p \in {page} \cap DOMAIN os})

\* The numbers are those of the pages before anything is deleted.
PagesDeleted(numbers) ==
    FoldLeft(LAMBDA os, n : IF n \in DOMAIN Pages THEN PageDeleted(os, Pages[n]) ELSE os,
             objs, numbers)

DeletePages(numbers) ==
    /\ Call("delete pages", numbers, TRUE)
    /\ objs' = PagesDeleted(numbers)
    /\ UNCHANGED <<trailer, maxId, bookmarks>>

\* prune_objects
PruneObjects ==
    /\ Call("prune", << >>, TRUE)
    /\ objs' = Without(objs, DOMAIN objs \ Visited(objs, trailer))
    /\ UNCHANGED <<trailer, maxId, bookmarks>>

(***************************************************************************)
(* remove_annot: the pages are gone through one by one, and the first that *)
(* has no /Annots ends the call with an error.                             *)
(***************************************************************************)
RemoveAnnot(id) ==
    LET bare == {i \in DOMAIN Pages : "Annots" \notin DOMAIN objs[Pages[i]].lists}
        reached == {Pages[i] : i \in {j \in DOMAIN Pages : \A b \in bare : j < b}}
        kept == [x \in DOMAIN objs |->
                    IF x \in reached
                    THEN [objs[x] EXCEPT !.lists["Annots"] = SelectSeq(@, LAMBDA r : r.id # id)]
                    ELSE objs[x]]
    IN  /\ Call("remove annot", <<id>>, bare = {})
        /\ objs' = IF bare = {} THEN Without(kept, {id}) ELSE kept
        /\ UNCHANGED <<trailer, maxId, bookmarks>>

--------------------------------------------------------------------------------
(***************************************************************************)
(* renumber_objects_with.  A renumbering is a sequence of pairs, an old    *)
(* identifier and a new one; references are rewritten in what the trailer  *)
(* leads to.                                                               *)
(***************************************************************************)
MapOf(pairs) ==
    [id \in {p[1] : p \in Range(pairs)} |->
        pairs[CHOOSE i \in DOMAIN pairs : pairs[i][1] = id /\ \A j \in 1 .. i - 1 : pairs[j][1] # id][2]]

Renamed(ref, map) == IF ref.id \in DOMAIN map THEN [ref EXCEPT !.id = map[ref.id]] ELSE ref

\* A slip: references in arrays are forgotten.
Rewritten_Links(o, map) == [o EXCEPT !.links = [k \in DOMAIN @ |-> Renamed(@[k], map)]]

Rewritten(o, map) ==
    [o EXCEPT !.links = [k \in DOMAIN @ |-> Renamed(@[k], map)],
              !.lists = [k \in DOMAIN @ |-> [i \in DOMAIN @[k] |-> Renamed(@[k][i], map)]]]

\* A slip: objects are put back at once, over those still to be moved.
Moved_OneByOne(os, pairs) ==
    FoldLeft(LAMBDA f, p : IF p[1] \in DOMAIN f
                           THEN Put(Without(f, {p[1]}), [x \in {p[2]} |-> f[p[1]]]) ELSE f,
             os, pairs)

\* All objects are taken out before any is put back.
Moved(os, pairs) ==
    LET out == FoldLeft(LAMBDA f, p :
                           IF p[1] \in DOMAIN f.rest
                           THEN [rest |-> Without(f.rest, {p[1]}),
                                 new |-> Put(f.new, [x \in {p[2]} |-> f.rest[p[1]]])]
                           ELSE f,
                        [rest |-> os, new |-> Without(os, DOMAIN os)], pairs)
    IN  Put(out.rest, out.new)

NewTrailer(tr, pairs) == [k \in DOMAIN tr |-> Renamed(tr[k], MapOf(pairs))]

NewObjects(os, tr, pairs) ==
    LET moved == Moved(os, pairs)
        acted == [id \in DOMAIN moved |-> Rewritten(moved[id], MapOf(pairs))]
    IN  Traversed(moved, acted, NewTrailer(tr, pairs))

\* A slip: bookmarks are renumbered from the highest number down.
NewBookmarks_Downwards(bms, pairs) ==
    FoldLeft(LAMBDA b, p : [i \in DOMAIN b |-> IF b[i].id = p[1] THEN [b[i] EXCEPT !.id = p[2]] ELSE b[i]],
             bms, Reverse(pairs))

\* renumber_bookmarks, once for every pair, one pair after the other.
NewBookmarks(bms, pairs) ==
    FoldLeft(LAMBDA b, p : [i \in DOMAIN b |-> IF b[i].id = p[1] THEN [b[i] EXCEPT !.id = p[2]] ELSE b[i]],
             bms, pairs)

\* A slip: the order of the pages is not looked at.
PagePairs_None == << >>

\* First the pages are put in order: their numbers are dealt out again, the lowest
\* to the first page, if one stands behind a page of a higher number.
PagePairs ==
    LET sorted == SortSeq(Pages, Less)
    IN  IF sorted = Pages THEN << >>
        ELSE [i \in DOMAIN Pages |-> <<Pages[i], <<sorted[i][1], Pages[i][2]>>>>]

\* Then all objects are numbered in the order of their identifiers.
NumberPairs(os, start) ==
    LET order == Ordered(DOMAIN os)
        pairs == [i \in DOMAIN order |-> <<order[i], <<start + i - 1, order[i][2]>>>>]
    IN  SelectSeq(pairs, LAMBDA p : p[1] # p[2])

RenumberObjectsWith(start) ==
    LET first == PagePairs
        objs1 == NewObjects(objs, trailer, first)
        trailer1 == NewTrailer(trailer, first)
        second == NumberPairs(objs1, start)
    IN  /\ Call("renumber", <<start>>, TRUE)
        /\ objs' = NewObjects(objs1, trailer1, second)
        /\ trailer' = NewTrailer(trailer1, second)
        /\ bookmarks' = NewBookmarks(NewBookmarks(bookmarks, first), second)
        /\ maxId' = start + Cardinality(DOMAIN objs1) - 1

--------------------------------------------------------------------------------
(***************************************************************************)
(* The number of pages as the metadata loader tells it, which reads no     *)
(* more of a file than it needs: a node that has a /Count is believed.     *)
(***************************************************************************)
RECURSIVE get_pages_tree_count(_, _, _, _)

\* The pages at and below a node, and the nodes seen so far; a node that was seen
\* before counts nothing, and whatever is no node of the tree counts as a page.
get_pages_tree_count(os, id, seen, depth) ==
    LET Known(total) == [total |-> total, seen |-> seen \cup {id}]
        Kid(s, r) ==
            LET k == get_pages_tree_count(os, r.id, s.seen, depth + 1)
            IN  [total |-> s.total + k.total, seen |-> k.seen]
    IN  IF depth >= MaxNesting \/ id \in seen THEN [total |-> 0, seen |-> seen]
        ELSE IF id \notin DOMAIN os \/ os[id].type = "Stream" THEN Known(0)
        ELSE IF os[id].type # "Pages" THEN Known(1)
        ELSE IF os[id].count >= 0 THEN Known(os[id].count)
        ELSE FoldLeft(Kid, Known(0), KidsOf(os, id))

extract_page_count(os, tr) ==
    IF PageRoots(os, tr) = {} THEN 0
    ELSE get_pages_tree_count(os, CHOOSE r \in PageRoots(os, tr) : TRUE, {}, 0).total

AnnotsOf(os, tr) ==
    UNION {{r.id : r \in Range(os[p].lists["Annots"])} :
              p \in {q \in Range(PagesOf(os, tr)) : "Annots" \in DOMAIN os[q].lists}}

\* Objects a caller may delete: not the catalog and the root of the page tree.
Expendable == {id \in DOMAIN objs : objs[id].type # "Catalog"} \ PageRoots(objs, trailer)

Numbers == UNION {[1 .. n -> 1 .. Len(Pages)] : n \in 1 .. 2}

Next ==
    \/ \E p \in Range(Pages) : AddObject(p) \/ AddBookmark(p)
    \/ \E id \in Expendable : RemoveObject(id) \/ DeleteObject(id)
    \/ DeleteZeroLengthStreams
    \/ \E id \in AnnotsOf(objs, trailer) : RemoveAnnot(id)
    \/ \E ns \in Numbers : DeletePages(ns)
    \/ PruneObjects
    \/ \E s \in Starts : RenumberObjectsWith(s)

Spec == Init /\ [][Next]_vars

--------------------------------------------------------------------------------
(***************************************************************************)
(* Properties.                                                             *)
(***************************************************************************)

Hits(r) == r.id \in DOMAIN objs /\ objs[r.id].tag = r.to

\* What the trailer leads to by references that mean what they were written for.
Meant ==
    LET Follow(refs) == {r.id : r \in {x \in refs : Hits(x)}}
        hops[k \in Nat] ==
            IF k = 0 THEN Follow(Range(trailer))
            ELSE LET h == hops[k - 1]
                 IN  h \cup Follow(UNION {RefsOf(objs[id]) : id \in h})
    IN  hops[Cardinality(DOMAIN objs)]

RefsInUse == Range(trailer) \cup UNION {RefsOf(objs[id]) : id \in Meant}

\* However a document is edited, pruned and renumbered, a reference in use whose
\* object is still there leads to that object and to no other.
LiveRefsResolve == \A r \in RefsInUse : r.to \in Tags(objs) => Hits(r)

PageTags(os, tr) == [i \in DOMAIN PagesOf(os, tr) |-> os[PagesOf(os, tr)[i]].tag]

\* After a renumbering the pages are in the order they were in, and their numbers
\* ascend in that order.
PagesKeepOrder ==
    [][last'.op = "renumber" /\ IsTree(objs, trailer) =>
          /\ PageTags(objs', trailer') = PageTags(objs, trailer)
          /\ \A i, j \in DOMAIN PagesOf(objs', trailer') :
                i < j => Less(PagesOf(objs', trailer')[i], PagesOf(objs', trailer')[j])]_vars

Closed(S) ==
    \A r \in Range(trailer) \cup UNION {RefsOf(objs[id]) : id \in S} :
        r.id \in DOMAIN objs => r.id \in S

\* Renumbering moves objects and loses none: the two rounds of renaming, in which
\* new numbers are the old numbers of other objects, never overwrite one, and max_id
\* is a ceiling of the numbers again.  prune_objects leaves the least set of objects
\* that has what the trailer refers to and, with an object, what that refers to.
NothingLost ==
    [][/\ last'.op = "renumber" =>
            Tags(objs') = Tags(objs) /\ \A id \in DOMAIN objs' : id[1] <= maxId'
       /\ last'.op = "prune" =>
            Closed(DOMAIN objs') /\ \A S \in SUBSET DOMAIN objs : Closed(S) => DOMAIN objs' \subseteq S]_vars

\* A page tree as it should be, /Parent included, and /Count where it is used.
WellCounted(os, tr) ==
    /\ IsTree(os, tr)
    /\ \A n \in TreeNodes(os, tr) :
          /\ os[n].type = "Pages" /\ os[n].count >= 0 => os[n].count = Len(LeavesOf(os, n))
          /\ \A r \in Range(KidsOf(os, n)) :
                "Parent" \in DOMAIN os[r.id].links /\ os[r.id].links["Parent"].id = n

\* delete_pages deletes the pages that had the numbers it was given, whatever their
\* order, leaves the others in their order, and a tree whose counts are right: the
\* metadata loader and the page iterator agree on how many pages there are.
PagesDeletedAsNumbered ==
    [][last'.op = "delete pages" /\ WellCounted(objs, trailer) =>
          /\ PageTags(objs', trailer') =
                SelectSeq(PageTags(objs, trailer),
                          LAMBDA t : \A n \in Range(last'.arg) : t # objs[Pages[n]].tag)
          /\ WellCounted(objs', trailer')
          /\ extract_page_count(objs', trailer') = Len(PagesOf(objs', trailer'))]_vars

BookmarkHits(i) == i \in DOMAIN bookmarks /\ Hits(bookmarks[i])

NumbersGoDown(start) == \A id \in DOMAIN objs : start <= id[1]

\* Where numbers only go down, bookmarks go on naming the pages they were made
\* for: a page's old number is never given to another one before its turn.
BookmarksFollow ==
    [][last'.op = "renumber" /\ PagePairs = << >> /\ NumbersGoDown(last'.arg[1]) =>
          \A i \in DOMAIN bookmarks : BookmarkHits(i) => BookmarkHits(i)']_vars
================================================================================
