# A TLA+ model of lopdf

lopdf is a Rust library that reads, edits and writes PDF files.  This directory
holds a formal model of it: what happens to the objects of a document while they
are numbered, edited, saved, loaded again, updated incrementally, encrypted and
renumbered; what its pages show and its outlines lead to; and whether what is
written - objects, streams, cross-references, encoded data, text - is read back.
The modules are checked by TLC on small instances, and the properties that matter
most of the core - numbers, saves, loads, updates, encryption - are proved by TLAPS for
every instance.

## 1. Inventory: the parts of the system

| Part | Source (`src/src/...`) | State | Operations | Hard behaviour |
|---|---|---|---|---|
| Object store | `document.rs`, `creator.rs` | `objects`, `max_id`, `trailer`, `version` | `new_object_id`, `add_object`, `set_object`, `remove_object` | one counter shared by callers, containers and the cross-reference stream |
| Full save | `writer.rs`, `object_stream.rs`, `save_options.rs`, `xref.rs` | none of its own; changes `max_id`, `version`, `trailer`, the cross-reference type | `save`, `save_to`, `save_with_options`, `save_modern` | packing, two forms of cross-reference, numbers taken while writing |
| Load | `reader.rs`, `parser/mod.rs`, `parser_aux.rs` | `reference_table`, `normal_offsets`, `raw_objects` | `load`, `load_mem`, `read`, `read_metadata` | `Prev` chains with cycles, hybrid files, stale copies, worker threads, reconstruction |
| Incremental update | `incremental_document.rs`, `writer.rs` | the previous revision (bytes and document), the new objects | `create_from`, `opt_clone_object_to_new_document`, `save`, `save_to` | appending without touching what is there, encryption of what is appended, refusal before the target is truncated |
| Renumbering and pruning | `processor.rs`, `document.rs` | `objects`, `max_id`, bookmarks | `renumber_objects_with`, `prune_objects`, `delete_object`, `delete_pages` | simultaneous substitution done one step at a time; dangling references; cycles |
| Bookmarks and outlines | `bookmarks.rs`, `outlines.rs`, `destinations.rs`, `toc.rs` | `bookmarks`, `bookmark_table`, `max_bookmark_id` | `add_bookmark`, `build_outline`, `get_toc` | linked lists of object identifiers computed before the objects exist |
| Encryption | `encryption.rs`, `encryption/*` | `encryption_state`, `/Encrypt` in the trailer | `encrypt`, `decrypt`, `decrypt_raw`, `encrypt_object`, `decrypt_object` | objects must be encrypted once and only once; key recovered or refused |
| Page tree | `document.rs` | the iterator: what is left of a level, the levels above, a limit | `page_iter`, `get_pages` | malformed and cyclic trees |
| Page contents | `document.rs`, `parser_aux.rs`, `processor.rs`, `content.rs`, `incremental_document.rs` | `/Contents` and `/Resources` of pages, their streams | `add_page_contents`, `change_page_content`, `insert_image`, `insert_form_object`, `add_xobject`, `extract_text`, `replace_text` | streams, arrays and dictionaries that pages share; content that is understood in part; limits over several streams; failures half-way |
| Object model and filters | `object.rs`, `filters/*` | values | dictionaries, streams, `dereference`, filters, `compress`, `decompress` | reference cycles, decompression limits, partial groups |
| Low-level parsing | `parser/mod.rs`, `parser_aux.rs`, `parser/cmap_parser.rs`, `cmap_section.rs` | none | objects, strings, names, cross-reference sections, stream-length recovery | numeric edges, malformed input |
| Marker scan | `reader.rs` | none | `scan_object_markers`, `find_latest_trailer` | payloads that look like objects, streams without an end |
| Text | `encodings/*`, `font.rs` | none | encodings, `/Differences`, CMaps, glyph names, embedding | overlapping ranges, codes given twice, tables of data |
| Images and forms | `xobject.rs` | none | `image_from`, `form` | none of their own |
| Small parts | `datetime.rs`, `error.rs`, `load_options.rs`, `common_data_structures/` | none | text strings, conversions, options | none |
| Command line tool | `pdfutil/` | none | one call of the library per invocation | none |

How they interact.  `Document` is passed by reference to every part; the only
threads are the loader's workers (`rayon`), which share one mutex-protected list
of container members.  The loader hands the store three things every other part
relies on: the objects, `max_id` and the form of the cross-reference.  A save
changes the document it writes: it raises `max_id`, the version and the
cross-reference type.  An incremental document wraps a loaded one and the bytes
it came from.  Renumbering rewrites identifiers everywhere, bookmarks included.
Encryption rewrites every object in place and, after it, saves must not pack.

What makes each part correct:

- **Store and full save.** An identifier newly handed out names no live object;
  `max_id` is never below a number in use, after edits, saves and loads alike; a
  file that was saved gives back the objects it was saved from, whatever the
  options; every object is where its cross-reference entry says.
- **Cross-reference chain.** The newest entry of a number wins; no section the
  chain reaches is left out; the walk ends on a circle; a correction of an offset
  never picks an older section; a rebuilt table finds what the chain would find.
- **Parallel loading.** Whatever the schedule, the result is one that a
  sequential reading allows; no stale copy replaces an object the
  cross-reference locates; the pool comes to rest.
- **Incremental update.** What is saved reads back as the previous objects with
  the new ones in their place; the document in memory stays plain when the file
  is encrypted, so that it can be saved again.
- **Encryption.** Nothing is sealed twice or unsealed twice; a file either says
  it is encrypted and is, or is plain; decrypting gives back what was encrypted.
- **Renumbering and deleting.** A reference whose object is still there goes on
  leading to it; no object is lost; pages keep their order and counts.
- **Page tree.** A well-formed tree is read from left to right; any graph is
  read in bounded time.
- **Page contents.** A change is seen where it was asked for and nowhere else; a call
  that fails changes nothing a page shows; limits hold over all streams of a page.
- **Outlines.** The linked list that is built is well formed and reads back as the
  tree of bookmarks; deleting it leaves nothing behind that is reachable.
- **Passwords.** The owner's and the user's password open a document and no other
  does, through every rewrite.
- **Syntax, filters, text.** What is written is read back, whatever stands next to it,
  and what is damaged is refused or recovered, never confused with its neighbour.

## 2. Modules

| Module | Models | Uses |
|---|---|---|
| `PdfFile` | what is in a file: objects, containers, the entries of the cross-reference, and all results a load of it may have | |
| `DocumentStore` | a document in memory, its numbers, its saves and loads | `PdfFile` |
| `XrefChain` | reading the cross-reference of a buffer, step by step | |
| `LoadOutcomes` | the set of outcomes loading the objects of a file may have | `PdfFile` |
| `LoadPromise` | loading as its caller sees it: one step from a source to an outcome | `LoadOutcomes` |
| `ParallelLoader` | the worker threads of the loader; implements `LoadPromise` | `LoadOutcomes`, `LoadPromise` (`INSTANCE ... WITH`) |
| `IncrementalUpdate` | revisions appended to a file, plain and encrypted | `PdfFile` |
| `DocumentEncryption` | sealing and unsealing of a document in place | |
| `Passwords` | which password opens a document: the algorithms of revisions 2 to 6 as terms | |
| `ObjectGraph` | objects as a graph of references; `traverse_objects` and the page iterator as operators | |
| `PageTree` | the page iterator, turn by turn, on any graph | `ObjectGraph` |
| `DocumentGraph` | deleting, pruning and renumbering in a document | `ObjectGraph` |
| `Outline` | bookmarks, the outline built from them, the table of contents read from it | |
| `StreamData` | streams, chains of filters and their limits; `compress` and `decompress` | |
| `ContentSyntax` | content as operands and operators: parsing and encoding | |
| `FontText` | the encoding of a font; text extracted and replaced through it | `StreamData`, `ContentSyntax`, `TextCodec` (`INSTANCE`) |
| `PageContents` | what pages show, and the calls that change it | `FontText` |
| `Syntax` | objects and streams as they are written and parsed, in characters | |
| `XrefCodec` | cross-reference tables and streams as they are written and parsed, in fields and bytes | |
| `MarkerScan` | the scan of a buffer for the headers of objects, in words | |
| `ByteFilters` | ASCII85, ASCIIHex, run lengths, PNG and TIFF predictors, in bytes | |
| `TextCodec` | one-byte encodings, `/Differences`, ToUnicode maps, text strings | |
| `Codecs` | inputs that grow by one element, and what comes back of them | `Syntax`, `XrefCodec`, and `MarkerScan`, `ByteFilters`, `TextCodec` (`INSTANCE`) |
| `PdfFileFacts` | lemmas on finite sets of numbers, their ranks and divisions with rest; on object maps, entries and readings of a file | `PdfFile` |
| `DocumentStoreProofs`, `IncrementalUpdateProofs`, `ParallelLoaderProofs` | theorems | the module they are about, `PdfFileFacts` |
| `XrefChainProofs`, `DocumentEncryptionProofs`, `PasswordsProofs`, `PageTreeProofs` | theorems | the module they are about |
| `MC...` | the constants of the runs | the module of the same name |

A definition with the comment "A slip: ..." is not the code: it is the code with
a plausible mistake in it, and stands next to the definition it distorts.  Put in
its place it makes a run fail, which shows that the properties can tell the two
apart.

### How state and actions correspond to the code

**`DocumentStore`.** `objects`, `maxId`, `version` and `xrefType` are the fields of
`Document`; `file` is what was last written, `saved` the objects at that moment,
`held` the identifiers a caller still has in hand (references in objects, or an id
`new_object_id` returned).  `NewObjectId`, `AddObject`, `SetObject` and
`RemoveObject` are the functions of `creator.rs`.  `SaveInternal` and
`SaveWithObjectStreams` are the two writers, `SaveWithOptions` the choice between
them with the change of version and of cross-reference type it makes first.
`Load` is `Reader::read` of an undamaged file; its result is one of
`LoadResults`, a set, because of two containers that offer the same number the
faster worker's wins.  An object is a value (which may be packed) or a stream
(which may not); container and cross-reference streams are objects too.

**`XrefChain`.** A buffer is a row of cells: objects, sections and what lies
between.  An action is an iteration of the loop in `resolve_xref_and_trailer`:
`startxref` and its correction, a section and its merge, the stream of a hybrid
file, the next `/Prev`.  When that fails in lenient mode, `Reconstruct` is
`reconstruct_xref_and_trailer`: markers for the entries, and a bounded search for
the newest trailer.

**`ParallelLoader`.** A cross-reference entry is a task.  A worker takes an entry,
reads the object, and for a container decodes it, asks for the mutex, lists the
members and returns.  While it waits for the parts of a decoding it may take up
another task (work stealing in `rayon`), so that a worker has a stack.  Then the
members are merged, and hollow streams are filled.

**`IncrementalUpdate`.** A file is a sequence of revisions.  `disk` is the
target, `base` the bytes the document came from, `prevObjs` and `newObjs` the
two documents, `layers` what each new object was sealed with.  `Save` appends a
revision, `SaveFails` leaves part of one, `SaveRefused` is the check that comes
before the target is created.

**`DocumentEncryption`.** A cipher is a seal with a key; an object carries the
sequence of seals put on its strings and on its content.  `EncryptFails` and
`DecryptFails` break off at an object whose filter refuses the key, or where a padded
cipher notices the wrong one: the objects before it are changed and the trailer says
nothing of it.  `plain` keeps what the caller put into the document, and `loose` the
numbers of which the properties claim nothing: what was added to a document that was
encrypted, and what a call that broke off had reached.  All others, those from the
failing object on included, have to be right after any number of further tries.

**`DocumentGraph`.** An object has references in its dictionary (`links`) and in
arrays (`lists`), and every reference has, beside the identifier it is written
with, the tag of the object it was written for, which only the properties read.
An action is a whole call; `RenumberObjectsWith` has the two rounds of the code:
pages exchange numbers, then everything is numbered.  `last` is the call that
led to a state.

**`PageTree`.** `walk` is the iterator: what is left of the `/Kids` being read, the
stack of those above, the limit, and the pages it has given.

**`Passwords`.** A hash is the tuple of what was hashed and a cipher a term with its
key; RC4, which adds a key stream, is the set of keys applied an odd number of
times, so that the twenty rounds of revision 3 come out as they do.  `Encrypt`
computes the owner and user values and the file key and seals the objects;
`EncryptFails` leaves those that come before the one a filter refuses sealed, as the
loop does, and `damaged` remembers which these are; `Rewrite` is another writer who keeps the dictionary and drops what the
format allows to drop; `Decrypt` and `Load` try a password.

**`Outline`.** `table` and `roots` are `bookmark_table` and `bookmarks`; the objects of
an outline are records with the fields of the dictionaries, `/Count` included.  `BuildOutline` is the
whole of `build_outline`, with the numbers taken ahead; `get_toc` and
`get_outlines` are operators on a state; `DeleteOutlines` is the call with its
order (children first) and its limit.

**`PageContents`.** A state is the page nodes and the other objects; an operator per
function of the code maps a state to `[ok, s]`, where `s` is what was changed even
if the call fails, and an action is a call of one.  Content is a sequence of
elements below any number of filter layers.  `UpdateIncrementally` is an
incremental update that adds an image and names it on a page: the page and its
resources are copied, and what they refer to is looked for among the copies only.
`call` keeps the state before the last call, for the properties.

**`Codecs`.** There is no state in this code; the state of the model is an input, which
grows, and the invariants say of every input what writing and reading it give.
'Reference encoders' (`Ascii85Of`, `HexOf`, `RunsOf`, `TiffOf`) are what the formats
say, since lopdf decodes these and does not encode them.

## 3. Runs

| Run | Instance | What it shows |
|---|---|---|
| `document_store` | 3 files of other producers (a PDF 1.4 table with a hole and a second generation; a container with a stale member; a container whose members no table lists), new documents of both forms, 4 edits, numbers to 6, 2 objects per container | nothing is lost, resurrected or overwritten and no number is used twice, in every order of edits, saves and loads |
| `xref_chain` | every buffer of up to 3 revisions of 4 cells: tables, streams, hybrid and damaged sections, `/Prev` exact, a line late, in a circle, negative, at no section; six kinds of `startxref`; strict and lenient | the newest copy is found, no reachable section is missed and the first that lists an object decides, the remembered offset is that of the nearest keyword, and reading ends |
| `parallel_loader` | 2 workers, 2 containers that offer the same numbers, a hollow stream whose length is a member, damaged and filtered objects, strict and lenient | every schedule gives an outcome of `LoadPromise`, and one it does give |
| `incremental_update` | 7 files (plain and encrypted, tables and containers, one and two revisions; with a damaged section, with a damaged update, not readable at all), 5 calls, up to 3 revisions | what is saved is what is read, through failed, refused and repeated saves |
| `document_encryption` | RC4 for everything, AES for streams without metadata, and AES with a key too short for it; 7 numbers, 7 calls | objects are sealed once, files are consistent, plain objects come back, through calls that break off too |
| `page_tree` | every way to fill the `/Kids` of 3 inner nodes with up to 2 entries each, depth limit 1 | leaves in order in a tree with one level of inner nodes below the root, one or two of them, an end and a bound in every graph |
| `document_graph` | a document in order, one with pages out of order, gaps and a second generation, and that one without a usable `/Count`; 3 calls; numbering from 1 and from 4 | references, pages, counts and bookmarks survive editing; pages deleted are those that were numbered; the loader of metadata counts them as the iterator does where `/Count` is right |
| `passwords` | every version with 7 pairs of passwords, key lengths, crypt filters that fit and do not; 12 passwords tried; 4 calls | either password opens and gives back the contents, in every revision and after every rewrite; nothing else opens |
| `passwords_at_load` | the same | a password that is encoded before use is accepted by a load and then fails to decrypt (violation) |
| `outline` | 4 bookmarks nested anywhere, of which some have no page or a wide title; 6 calls; 3 foreign outlines; nesting limit 2 | the list is well linked and reads back as the tree; pages are filled in; deleting is complete, or stops half way and then leaves no link to what is gone |
| `codecs` | every string of 5 characters, name of 3, object two deep, stream content of 5, 4 cross-reference entries, buffers of 3 objects, data of 5 bytes, 2 CMap mappings, 4 differences, text of 3 | what is written is read back, and what is damaged is recovered or refused |
| `contents` | 37 documents of 2 pages in which `/Contents`, `/Resources`, fonts and filters are arranged in every way the code tells apart; 2 calls; limits 0, 1, 4, 7 | changes are seen where they were asked for and nowhere else; limits hold |

**Why the bounds are enough.** The properties relate at most three numbers: an
object, the number that names it in another place, and the one it is confused
with.  Six numbers give room for two objects, their containers, a second save's
containers and the cross-reference stream.  Four edits between saves are enough
to remove, add under a new number, overwrite and save twice.  Three revisions
are the first length of a chain in which a `/Prev` can jump over a section or
come back to one that is not its own.  Two workers are the first that can
interleave, and a stack of two tasks the first that can hold a lock below a
suspended task.  Renumbering needs an object that takes the number of another
that itself moves: the second document has such a chain in both rounds, and a
third call can use what the first two left behind.  A depth limit of 1 is the
smallest with a tree it does not cut and one it does.

For passwords three bytes of padding stand for 32 and four bytes for the 127 that
count: what matters is a password shorter than that, as long, and longer, and
one whose bytes differ between encodings.  Four bookmarks make every shape with a
first, a middle and a last sibling below another item; the nesting limit of 2 can be
crossed.  In `Codecs` a byte has four values and two hexadecimal digits: every
carry, wrap, partial group and field width from one byte to four comes up, and
ASCII85 digits below 4 keep the property of 85 that five digits say more than four
bytes do not.  A string of five characters holds an escape in parentheses within
parentheses; a stream content of five holds `endstream`, a line end and `endobj`
in every order; two objects of a cross-reference with a gap need four numbers.
Two objects and a damaged stream are enough for the marker scan to take an end that
is not its own; its cap of 2 is reached by the third.  In `PageContents` two calls
are the least in which the second meets what the first left, and a page's stream can
be sole, listed, listed twice, shared with the other page or missing.  `Limit`,
`OpLimit`, `EditLimit`, `IdLimit`, `BookmarkLimit` and `RevisionLimit` are bounds of
the model; `MaxNesting`, `MaxDepth`, `MaxBracket`, `DepthLimit`, `MaxReconstructed`
and `MaxTrailers` are limits of the code, with smaller values.

`CHECK_DEADLOCK FALSE` is set where a bound on calls ends the behaviour, or where
the program is done (a loaded document, an iterator at its end).

**Fairness.** `XrefChain`: weak fairness of its step, for it is a loop of one thread
that nothing can stop.  `ParallelLoader`: weak fairness of every worker's next
step and of the merge; the threads of the pool run until their tasks are done,
and a worker that waits for the mutex gets it when it is free (the mutex is not
fair, but a holder takes it once for a container and there are finitely many).
`PageTree`: weak fairness of the turn, for a caller who takes all pages.  The
other specifications have no fairness: their actions are calls that a program
may or may not make.

### Differences between the code and what is written about it

One run ends with a violation of what the repository says of itself, and is listed as a
finding: `reader.rs:1238` derives the key from the raw UTF-8 bytes of a password
that was accepted in its encoded form.  Besides it the modelling met these.

Files and numbers:

- Object streams together with a classic table: the entries of packed objects are
  written as free (`writer.rs:497`), while `writer.rs:33` calls the two features
  independent.  `SavedFilesConform` excepts the combination.
- `Document::new` is version 1.4 and writes a cross-reference stream, which came
  with 1.5 (`document.rs:64`, `writer.rs:35`).
- `Xref.size` "including free entries" (`xref.rs:14`): a load replaces it by one
  more than the highest entry in use (`reader.rs:1398`).
- A rebuilt document keeps the `/Prev` of the trailer that was found
  (`document.rs:80`), where `reader.rs:1435` says it is omitted.
- A document loaded without its password and then decrypted is empty
  (`reader.rs:868`, `document.rs:459`).
- `decrypt_raw` adds the members of containers that are still in the document
  (`document.rs:475`): what was removed after a load is back.
- A dangling reference can come to mean another object after a renumbering
  (`processor.rs:251`), and after a save and a load, which give the number of the
  removed object again if it was the highest (`reader.rs:812`).
- `delete_object` takes a reference out of an array once, and leaves those in the
  dictionaries of streams and in the trailer (`processor.rs:84`).
- A stale member of a container and an object of a higher generation with the same
  number are both loaded; packing gives the entry to the stale one.
- The stream of a hybrid file (`/XRefStm`) is read after the first `/Prev` has been
  followed, so that of a file with one section it never is (`reader.rs:1386`,
  against the comment in the line before it).
- The update of a file that was recovered by scanning lists only the objects it
  appends (`document.rs:81`): a reader that follows the cross-reference finds no others.
  `UpdateReloads` is about files that have a section where `startxref` says.
- The marker scan is said never to mistake a header within a string
  (`reader.rs:1490`); it does where the header begins a line of the string, and a
  string that holds `stream` and a line end hides what follows up to an `endstream`.
  A stream without an end hides the objects up to the end of a later one, and
  `/Length1` behind `/Length` makes its Length unusable.
- `remove_annot` stops at the first page that has no `/Annots` (`creator.rs:48`); pages
  before it have lost the annotation, those after it keep it.
- Renumbering upwards moves bookmarks to other objects (`processor.rs:243`): a new
  number is an old number of another object.  `BookmarksFollow` is about numbering
  downwards.
- The loader of metadata believes `/Count`, counts every kid that is not a node as a
  page, and below 100 levels counts none, where the iterator goes on to 256.

Pages:

- `add_page_contents` puts a reference to an array into the new array as it is: what
  the page showed before is no longer read (`document.rs:579` promises that it is).
  Contents behind a reference to an array, or a chain of references, are read, but
  `change_page_content` silently writes nothing.
- A stream that is the only content of two pages is changed for both.
- Bytes that are not content, or a comment between operands and operator, end the
  parse, and a rewrite drops the rest; a stream that cannot be decoded stands for
  itself, and a rewrite makes that permanent.  Inline images are not written as they
  were read.
- A page that inherits `/Resources` gets an empty dictionary of its own by
  `add_xobject`, and the fonts of its parent are out of sight.  Where `/Resources` is no
  dictionary nothing happens and there is no error.  `insert_image` adds the image and
  its name before it fails on the content.  The name `X<number>` may be taken.
- In an incremental update `add_xobject` fails where `/XObject` is an object of the
  previous revision, which is not copied (`incremental_document.rs:106`); a chain of
  references to `/Resources` becomes a copy at its first link.
- `replace_text` passes over `'` and `"`, fails if one font has no usable encoding,
  takes page 0 for page 1, and writes the default for an empty replacement.
- A limit may be exceeded by one line feed per stream.

Outlines and passwords:

- Short destination arrays end the program (`outlines.rs:127`); arrays that stand
  directly in a name tree are ignored (`destinations.rs:79`); one remote action, or a
  title that is a reference, makes `get_toc` fail as a whole; a `/Next` that leads back
  is followed for ever (`outlines.rs:98`).
- Outlines deeper than the nesting limit can be built, but not read or deleted; a
  deletion stops half-way, and leaves action objects behind in any case.
- Strings in the dictionaries of streams are not encrypted (`encryption.rs:746`,
  against line 726).
- Passwords of more than 127 bytes are cut before they are compared in revisions 5 and
  6; a V2 key length of 32, or one that is no multiple of 8, gives files that do not
  open; `/StmF` without an entry in `/CF` means RC4; characters outside PDFDocEncoding are
  dropped, so that different passwords open; an encryption that fails leaves some
  objects sealed.

Syntax, filters and text:

- `/Filter []` loses the content on `decompress`; `/DecodeParms` stays behind after
  `compress`, arrays of them are ignored and one dictionary counts for every filter;
  PNG rows that decode to exactly the limit are refused.
- An entry of unknown type in a cross-reference stream leaves its other fields to the
  next entry; fields of more than four bytes are cut to 32 bits.
- Whole Reals become Integers, and those beyond 64 bits, like NaN and infinity, cannot
  be read; strings and objects nested too deep are written and cannot be read.  A
  wrong Length that happens to land on another stream's `endstream` is believed.
- Encrypted objects are cut at the first `endobj` in their bytes (`reader.rs:1299`).
- A code that `/Differences` take from the base, or give twice, can still be used to
  encode, and then decodes to something else; ligatures cannot be encoded; an array of
  one string in a `bfrange` is taken for a range; joined ranges count from the start of
  the join.  ASCII control characters of a text string that PDFDocEncoding has for
  others are written as they are.

## 4. Proofs

TLAPS proves the following for every value of the constants that satisfies their
assumptions: finite sets of files, generations that are natural numbers with 0 among
them, at least one object in a container, at least one worker, requests of the five
versions there are.  Where a theorem needs more of the files to start from, that is its
`ASSUME`, and the files of the runs satisfy it.  `PdfFileFacts` holds the lemmas several
of the proofs cite: greatest numbers, ranks and the groups a division makes of them, maps
put over one another, what a table written from objects lists, what a load finds in a
file.

**`DocumentStoreProofs`.**  `TypeCorrect` is inductive as it stands, but needs that every
result of a load is a well-formed map with `max_id` above it.  `MaxIdIsCeiling` is the
strengthening on which the rest stands: from it follow `NewIdsAreFresh` (a new number is
one above a ceiling) and `SizeIsAboveEntries` (numbers taken during a save lie between
the old and the new ceiling).  `MaxIdIsCeiling` and `NewIdsAreFresh` are theorems only:
the run checks what they are needed for.  `SavedFilesReload` is about the file: its
entries, its containers and the cross-reference stream are kept apart by their numbers,
every directly written object is found by its entry, every packed one is a member of the
one container that has its number, and so a load has one result only.
`SavedFilesAreConforming` adds where in its container an object is: the rank of a number
among those that are packed, divided by the capacity, is the container, and the rest the
place; the ranks are a row without gaps, so that no container has more members than its
capacity and none is empty.  `HeldNumbersNotReused` follows from the ceiling and from
what the writer writes.  It is about a document that stays in memory: `held` is emptied
by a load, after which the code does give the number of a removed object again.

The last three assume `OneGeneration`: no two identifiers of a file to start from, members
of containers included, have the same number.  That nothing breaks it afterwards is part
of the invariant (`StoreInv`).  The writer's table is indexed by number alone, so with two
generations one of them has no entry and the theorems are false; a file in which a
container still holds a member whose number was freed and reused is such a file.

**`XrefChainProofs`.**  `ChainInv` adds to the types that the buffer is one of those given,
that the remembered offset is at a readable section as soon as there is one, and that it
is 0 in a rebuilt document.  `RememberedOffsetIsExact` is the property the next
incremental update relies on; `ChainTypes` is the part of `ChainInv` about types, and
that the newest trailer has lost its `/Prev` once that is followed.
`NewestCopiesWin` needs three invariants more.  `MergedInv`: what has been followed is
closed under `/Prev`, but for the one that comes next, and all it lists is merged; at the
end nothing comes next, so that what is merged is closed and no section the chain reaches
is left out.  `FirstListingCounts` is about any buffer and says which section decides.
`OrderInv`: what is merged is closed under the chain up to the section it came to last,
which is how a section is known to be on every way to a later one (`Ahead`); and each
object is where such a section puts it, or where the stream of a hybrid file does, which
comes after the first `/Prev` and so never before the newest section.  `AppendedInv`, for a buffer that grew by appending: the reader stands at a
section, has the newest copies of what was written since the section before it and
nothing else, and has not been further back; one more section is one more stretch of the
buffer, of which each object is older than what is there.  `RecoveredInv`: a scan that
succeeded has the last copy of everything and the trailer of the last keyword, which a
cap on trailers excludes only if it is 0.  `EveryStepLeadsOn` is the safety half of
`LoadEnds`: `FollowedOk` says that only offsets of the buffer are followed, `already_seen`
that none is followed twice, so a count of the steps left (`ToGo`) decreases with every
step, and a load of a buffer of `Len` bytes takes at most `2 * (Len + 1) + 4` of them.

**`ParallelLoaderProofs`.**  An entry is, at any time, in the queue, on the stack of a worker,
or accounted for: its object is there unless it is broken or dropped, its members are
listed if they are offered, and in a strict load its failure is noted.  What is there
or listed always belongs to a kept entry.  When all entries are accounted for, the
merge picks for every offered number some container that offers it, and the filling
completes the streams that came out hollow: that is an outcome (`LoadInv`, with an
assertion for every phase).  From it `StepsImplementLoad` is the safety part of the
refinement `KeepsPromise`: each step of the pool is the one step of `LoadPromise` or a
stutter.  `LocatedIsLoaded` follows from what an outcome is.  `HolderCanRelease` is about
the mutex: the task that holds it is on top of its worker's stack, so that its release
never waits for another task.  It is the reason why `LoadEnds`, which stays with TLC,
holds for any number of workers.

**`IncrementalUpdateProofs`.**  The theorems assume that each file to start from is
`IsGiven`: in the sections a reader sees, an entry leads to an object of its own number,
every object of a revision is listed by it and no number has two generations; and what is
encrypted is encrypted once, with its own key.  `FilesStayGiven` says that what a save
leaves is such a file again, so that the assumption is about the first file only.  The
invariant `IncrementalInv` has a part for the new document (`UpdateInv`: nothing in it is
sealed), one for what is remembered of the file (`PrevInv`: the objects are a reading of
it, decrypted with its own keys, and `/Prev` is its last section if that can be read) and
one for the numbers (`NumbersInv`: what is new is either a number nothing in the file
has, or replaces an object with its own identifier).  `PlainBetweenSaves` and
`TakenNumbersAreUnused` follow directly.  `SavedUpdatesReload` goes over what a reader of
the appended file sees: the sections it reaches are those it reached before and the new
one; the table it merges is the old with the new entries over it; so a load has the old
objects with the new ones put over them, members of old containers whose numbers were
replaced included, and the appended cross-reference stream is the only addition.

**`DocumentEncryptionProofs`.**  `EncryptionInv` says of every object, containers and
dictionaries included, what the properties say of the caller's, and the same of the
document and of the file: all is plain, members of containers included, or all but the
dictionary and what is in `loose` is sealed once with the key of its number, by filters
that do not refuse it (which is why an encrypted document can be decrypted).  A save carries it from the document to
the file, a load back.  `EncryptedOnceOrPlain` and `FilesAreConsistent` are its parts.

**`PasswordsProofs`.**  What a password gives is told from how `/O`, `/U` and the key were
made (`Keyed`).  Up to revision 4: RC4 with the same keys takes off what it put on, and
with others leaves a term that is no padded password, so that the owner password, and no
other that differs in the bytes that count, recovers the user password; the hashes are
tuples of what was hashed, so that `/U` compares equal for the user password only, which
is also what makes the key the key.  From revision 5 on: the validation salts tell owner
from user, and the sealed key opens with the hash of either.  `PasswordsInv` says that the
dictionary of an encrypted document was made from one request, by lopdf, and perhaps
rewritten by another writer in the ways that change no key (`SameAlgorithm`), and that
every object outside `damaged` carries exactly the seal of the state it was made from.
From it follow `EitherPasswordOpens` (for requests within the limits `Reopenable` names),
`NoOtherPasswordOpens`, and `OpeningRestoresContents`: a key that is obtained in whichever
way is the one that encrypted the document, and the crypt filters that are read are those
that were written.

**`PageTreeProofs`.**  `WalkInv` says that pages given and limit left add up to no more
than the number of objects.  A turn takes an entry off the limit and puts at most
one level on the stack, or takes a level off.  Hence `NoMorePagesThanObjects`,
and `EveryTurnUsesUp`: twice the limit plus the height of the stack goes down with
each turn.  That the iterator ends is a liveness property and stays with TLC; this is
the argument why it does on every document.  `PagesInOrder` is about the documents
whose pages are a tree: `CourseInv` adds that what has been found, what is below the
entries being read and what is below each level put aside are, one after the other, the
leaves of the tree (`Split`), and that the entries looked at are as many as the limit has
gone down, each once, and that the level at height k of the stack is no fewer than k hops
from the root (`Levels`, `Deep`).  A tree is shallow when its inner nodes are within
`DepthLimit` hops, however many there are on a level: so the limit on entries is never
used up, that on depth never met, and when nothing is left the leaves
have all been given.  The definitions a tree is described by are recursive functions and a
fold: `SetInduction` and `RecursionExists` state induction and recursion over the numbers
with sets and functions for operators, so that they can be cited; from them it follows that
the hops from the root come to rest on the nodes of the tree (`TreeIsSound`) and that after
as many rounds as there are objects a node has the leaves of its kids (`HasLeaves`).
A root of type `/Page` is not a tree in the sense of `IsTree`: the iterator reads the
`/Kids` of the root, whatever it is, and never gives the root itself.

**Only model-checked.**

- Liveness: `LoadEnds` of `ParallelLoader` and of `XrefChain`, `WalkEnds`, and in
  `KeepsPromise` that the abstract load returns.  Liveness under fairness, like `ENABLED`,
  is out of the prover's reach.
- `Outline`, `PageContents` and `Codecs`: `RECURSIVE` operators over trees, contents and
  characters.
- `DocumentGraph`: its actions are chains of several traversals and renamings, each a
  recursive function; the induction lemmas of `PageTreeProofs` are where its proofs would
  start, see the plan.

## 5. Not modelled

- The arithmetic of RC4, AES, MD5 and SHA, and of zlib, LZW and Brotli: ideal, or a layer
  that is put on and taken off.
- The header and comments of a file, the tokens of CMap files (what their sections say is
  in `TextCodec`), the tables of glyph names and code pages, predefined CMaps, the
  descriptors of embedded fonts: data, or records built field by field.
- `add_graphics_state`, which does to `/ExtGState` what `add_xobject` does to `/XObject`
  but refuses a reference; `add_font`, `change_producer`; the typed accessors.
- The loader of metadata of encrypted files; `async` loading, which calls the same
  functions; the file system below a save; the command line tool; dates.
- What is particular to linearized files: the dictionary that `save_internal` leaves out
  (`writer.rs:80`), and the catalog, which `can_be_compressed` does not pack then.
- `set_object` with a number nobody handed out, `max_id` beyond 32 bits, containers of
  more than 65535 objects, an empty text to search for.

## 6. Plan

1. Proofs about `DocumentGraph`: the types, and that a renumbering is a bijection on the
   objects (`NothingLost`), with the traversal as a closed set of objects as `XrefChain`
   has its reachable sections.
2. `WellLinked` of `Outline`, with `build_outline` as a function rather than a
   recursive operator.
3. The tokens of CMap files, written by a reference writer and parsed.
