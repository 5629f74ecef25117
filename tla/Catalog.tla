------------------------------- MODULE Catalog -------------------------------
(***************************************************************************)
(* Contents, their tags and their reviews: ContentService, ReviewService   *)
(* and the writer of the import, ContentItemWriter.                        *)
(*                                                                         *)
(* As in Playlists a request is a transaction of two steps, its reads and  *)
(* its commit, and a changed content is written back as a whole row. The   *)
(* exception is createContent, which runs without a transaction: each of   *)
(* its repository calls commits alone.                                     *)
(***************************************************************************)
EXTENDS SequencesExt, FiniteSetsExt, FiniteSets, Integers

CONSTANTS
    Users, Names, Titles, Ratings,
    Keys,        \* external_id and source_type of what the import brings
    TagLists,    \* the sets of names that an administrator may enter
    Requests,    \* the requests and chunks that are ever run
    MaxContents, \* contents that are ever stored
    Modes,       \* the settings to explore
    None

\* overlap: transactions run at the same time. generated: the tables are those
\* that Hibernate generates; otherwise those of schema.sql. edits: reviews are
\* edited and deleted. admin: contents are created, edited and deleted by hand.
\* import: the import runs.
Settings == [overlap : BOOLEAN, generated : BOOLEAN, edits : BOOLEAN,
             admin : BOOLEAN, import : BOOLEAN]

VARIABLES
    setting,       \* chosen once
    content,       \* committed row of each content
    lastId,        \* of the contents; ids are handed out in order
    tags,          \* names in the table tags
    mapping,       \* rows of contents_tags
    review,        \* rows of reviews
    pc, tx         \* progress of each request; what it does and what it has read

tables == <<content, lastId, tags, mapping, review>>
vars   == <<setting, tables, pc, tx>>

Contents == 1..MaxContents

\* total_rating times total_reviews is kept as the sum it stands for. A content
\* entered by hand has an external id nobody else has: None.
Rows     == [key : Keys \cup {None}, title : Titles, sum : Nat, count : Nat]
Mappings == [id : Requests, content : Contents, tag : Names]
Reviews  == [id : Requests, author : Users, content : Contents, rating : Ratings]

\* What the import brings: at most one item for each key.
Items == [title : Titles, names : SUBSET Names]

\* What a request does, with what it has read.
Transactions ==
    [op : {"review"}, author : Users, content : Contents, row : Rows, rating : Ratings]
    \cup [op : {"editReview"}, id : Requests, rating : Ratings]
    \cup [op : {"deleteReview"}, id : Requests]
    \cup [op : {"patch"}, content : Contents, row : Rows, title : Titles,
          held : SUBSET Mappings, names : SUBSET Names, fresh : SUBSET Names]
    \cup [op : {"deleteContent"}, content : Contents, held : SUBSET Mappings]
    \cup [op : {"create"}, content : Contents, todo : SUBSET Names,
          tag : Names \cup {None}, known : BOOLEAN]

\* The same for a chunk of the items with keys K.
Imports(K) ==
    [op : {"import"}, chunk : [K -> Items], found : [K -> Contents \cup {None}],
     row : [K -> Rows \cup {None}], lacks : [K -> SUBSET Names], fresh : SUBSET Names]

ASSUME CatalogAssumption ==
    /\ Modes \subseteq Settings
    /\ Ratings \subseteq Nat
    /\ TagLists \subseteq SUBSET Names
    /\ MaxContents \in Nat \ {0}
    /\ None \notin Keys \cup Nat \cup Names \cup Rows \cup Transactions
    /\ \A K \in SUBSET Keys : None \notin Imports(K)

TypeOK ==
    /\ setting \in Modes
    /\ content \in [Contents -> Rows \cup {None}]
    /\ lastId \in 0..MaxContents
    /\ \A c \in Contents : content[c] # None => c <= lastId
    /\ tags \subseteq Names
    /\ mapping \subseteq Mappings
    /\ \A m \in mapping : m.tag \in tags /\ content[m.content] # None
    /\ review \subseteq Reviews
    /\ pc \in [Requests -> {"new", "open", "done", "failed"}]
    /\ DOMAIN tx = Requests
    /\ \A r \in Requests : \/ tx[r] \in Transactions \cup {None}
                          \/ \E K \in SUBSET Keys : tx[r] \in Imports(K)
    /\ \A r \in Requests : (pc[r] = "open") <=> (tx[r] # None)

\* One content, entered by hand, is there.
Init ==
    /\ setting \in Modes
    /\ \E title \in Titles :
           content = [c \in Contents |->
                         IF c = 1 THEN [key |-> None, title |-> title, sum |-> 0, count |-> 0]
                         ELSE None]
    /\ lastId = 1
    /\ tags = {} /\ mapping = {} /\ review = {}
    /\ pc = [r \in Requests |-> "new"]
    /\ tx = [r \in Requests |-> None]

MappingsOf(c) == {m \in mapping : m.content = c}
TagsOf(c)     == {m.tag : m \in MappingsOf(c)}
ReviewsOf(c)  == {v \in review : v.content = c}

-----------------------------------------------------------------------------
(* The reads of a request.                                                  *)

MayStart(r) ==
    /\ pc[r] = "new"
    /\ setting.overlap \/ \A q \in Requests : pc[q] # "open"

\* Request r goes on with what it has read, or throws.
Begin(r, goes, t) ==
    /\ MayStart(r)
    /\ pc' = [pc EXCEPT ![r] = IF goes THEN "open" ELSE "failed"]
    /\ tx' = IF goes THEN [tx EXCEPT ![r] = t] ELSE tx
    /\ UNCHANGED tables

CreateReview(r, u, c, rating) ==
    Begin(r, content[c] # None /\ \A v \in ReviewsOf(c) : v.author # u,
          [op |-> "review", author |-> u, content |-> c, row |-> content[c],
           rating |-> rating])

UpdateReview(r, u, v, rating) ==
    Begin(r, v.author = u, [op |-> "editReview", id |-> v.id, rating |-> rating])

DeleteReview(r, u, v) ==
    Begin(r, v.author = u, [op |-> "deleteReview", id |-> v.id])

\* tagged: the request names tags, and no longer the ones there are. syncTags
\* deletes all mappings and inserts one for each name, and the missing tags.
PatchContent(r, c, title, tagged, names) ==
    Begin(r, content[c] # None,
          [op |-> "patch", content |-> c, row |-> content[c], title |-> title,
           held |-> IF tagged THEN MappingsOf(c) ELSE {},
           names |-> names, fresh |-> names \ tags])

DeleteContent(r, c) ==
    Begin(r, content[c] # None,
          [op |-> "deleteContent", content |-> c, held |-> MappingsOf(c)])

\* findByExternalIdAndSourceType
Find(k) ==
    IF \E c \in Contents : content[c] # None /\ content[c].key = k
    THEN CHOOSE c \in Contents : content[c] # None /\ content[c].key = k
    ELSE None

\* The write of one chunk. lacks: the names that are not yet mapped.
WriteChunk(r, chunk) ==
    LET found == [k \in DOMAIN chunk |-> Find(k)]
    IN  Begin(r, TRUE,
          [op |-> "import", chunk |-> chunk, found |-> found,
           row   |-> [k \in DOMAIN chunk |->
                        IF found[k] = None THEN None ELSE content[found[k]]],
           lacks |-> [k \in DOMAIN chunk |->
                        IF found[k] = None THEN chunk[k].names
                        ELSE chunk[k].names \ TagsOf(found[k])],
           fresh |-> (UNION {chunk[k].names : k \in DOMAIN chunk}) \ tags])

-----------------------------------------------------------------------------
(* The commit of a transaction.                                             *)

Doing(r, op) == pc[r] = "open" /\ tx[r].op = op

End(r, how) ==
    /\ pc' = [pc EXCEPT ![r] = how]
    /\ tx' = [tx EXCEPT ![r] = None]

\* Content c, read as row old, is written back as row new; an entity that did
\* not change is not written, and without the row the flush fails.
WriteBack(c, old, new) ==
    /\ new # old => content[c] # None
    /\ content' = IF new = old THEN content ELSE [content EXCEPT ![c] = new]

\* tags.name is unique: a name that somebody else has inserted since fails.
InsertTags(fresh) ==
    /\ fresh \cap tags = {}
    /\ tags' = tags \cup fresh

\* Content.addReviewRating
Rated(row, rating) == [row EXCEPT !.sum = @ + rating, !.count = @ + 1]

CommitReview(r) ==
    LET t == tx[r]
    IN  /\ Doing(r, "review")
        /\ WriteBack(t.content, t.row, Rated(t.row, t.rating))
        /\ review' = review \cup {[id |-> r, author |-> t.author,
                                   content |-> t.content, rating |-> t.rating]}
        /\ End(r, "done")
        /\ UNCHANGED <<lastId, tags, mapping>>

\* The totals of the content stay as they are.
CommitUpdateReview(r) ==
    /\ Doing(r, "editReview")
    /\ \E v \in review :
           /\ v.id = tx[r].id
           /\ review' = (review \ {v}) \cup {[v EXCEPT !.rating = tx[r].rating]}
    /\ End(r, "done")
    /\ UNCHANGED <<content, lastId, tags, mapping>>

CommitDeleteReview(r) ==
    /\ Doing(r, "deleteReview")
    /\ \E v \in review : v.id = tx[r].id /\ review' = review \ {v}
    /\ End(r, "done")
    /\ UNCHANGED <<content, lastId, tags, mapping>>

CommitPatch(r) ==
    LET t == tx[r]
    IN  /\ Doing(r, "patch")
        /\ WriteBack(t.content, t.row, [t.row EXCEPT !.title = t.title])
        /\ t.held \subseteq mapping
        /\ t.names # {} => content[t.content] # None
        /\ InsertTags(t.fresh)
        /\ mapping' = (mapping \ t.held) \cup
               {[id |-> r, content |-> t.content, tag |-> n] : n \in t.names}
        /\ End(r, "done")
        /\ UNCHANGED <<lastId, review>>

\* Mutation: the foreign key from reviews is not there.
CommitDeleteAnyway(r) ==
    LET t == tx[r]
    IN  /\ Doing(r, "deleteContent")
        /\ content[t.content] # None
        /\ MappingsOf(t.content) = t.held
        /\ content' = [content EXCEPT ![t.content] = None]
        /\ mapping' = mapping \ t.held
        /\ End(r, "done")
        /\ UNCHANGED <<lastId, tags, review>>

\* Foreign keys keep a content that has other mappings, and in generated tables
\* one that has reviews.
CommitDeleteContent(r) ==
    LET t == tx[r]
    IN  /\ Doing(r, "deleteContent")
        /\ content[t.content] # None
        /\ MappingsOf(t.content) = t.held
        /\ setting.generated => ReviewsOf(t.content) = {}
        /\ content' = [content EXCEPT ![t.content] = None]
        /\ mapping' = mapping \ t.held
        /\ End(r, "done")
        /\ UNCHANGED <<lastId, tags, review>>

\* Mutation: the item is stored as it came, with no reviews.
Fresh(row, item) == [row EXCEPT !.title = item.title, !.sum = 0, !.count = 0]

NewRow(k, item) == [key |-> k, title |-> item.title, sum |-> 0, count |-> 0]

\* Content.update
Updated(row, item) == [row EXCEPT !.title = item.title]

\* The content of each item: the one that was found, or a new one. In schema.sql
\* a key is unique. A chunk is all or nothing.
CommitImport(r) ==
    LET t     == tx[r]
        keys  == DOMAIN t.chunk
        new   == {k \in keys : t.found[k] = None}
        stale == {k \in keys \ new : Updated(t.row[k], t.chunk[k]) # t.row[k]}
        order == SetToSeq(new)
        id    == [k \in keys |-> IF k \notin new THEN t.found[k]
                                 ELSE lastId + CHOOSE i \in 1..Len(order) : order[i] = k]
        Row(k) == IF k \in new THEN NewRow(k, t.chunk[k])
                  ELSE Updated(t.row[k], t.chunk[k])
    IN  /\ Doing(r, "import")
        /\ ~setting.generated => \A k \in new : Find(k) = None
        /\ InsertTags(t.fresh)
        /\ \A k \in keys \ new :
               k \in stale \/ t.lacks[k] # {} => content[id[k]] # None
        /\ lastId' = lastId + Cardinality(new)
        /\ lastId' <= MaxContents
        /\ content' = [c \in Contents |->
               IF \E k \in stale \cup new : id[k] = c
               THEN Row(CHOOSE k \in stale \cup new : id[k] = c) ELSE content[c]]
        /\ mapping' = mapping \cup
               UNION {{[id |-> r, content |-> id[k], tag |-> n] : n \in t.lacks[k]} :
                      k \in keys}
        /\ End(r, "done")
        /\ UNCHANGED review

\* The transaction rolls back: its flush failed, or anything else did. Of a
\* createContent everything stays that it has saved so far.
Fail(r) ==
    /\ pc[r] = "open"
    /\ End(r, "failed")
    /\ UNCHANGED tables

-----------------------------------------------------------------------------
(* createContent, call by call.                                             *)

SaveContent(r, title, names) ==
    /\ MayStart(r)
    /\ lastId < MaxContents
    /\ lastId' = lastId + 1
    /\ content' = [content EXCEPT ![lastId'] = [key |-> None, title |-> title,
                                                sum |-> 0, count |-> 0]]
    /\ pc' = [pc EXCEPT ![r] = "open"]
    /\ tx' = [tx EXCEPT ![r] = [op |-> "create", content |-> lastId', todo |-> names,
                                tag |-> None, known |-> FALSE]]
    /\ UNCHANGED <<tags, mapping, review>>

\* tagRepository.findByName
FindTag(r) ==
    /\ Doing(r, "create") /\ tx[r].tag = None
    /\ \E n \in tx[r].todo :
           tx' = [tx EXCEPT ![r].tag = n, ![r].known = (n \in tags)]
    /\ UNCHANGED <<tables, pc>>

SaveTag(r) ==
    /\ Doing(r, "create") /\ tx[r].tag # None /\ ~tx[r].known
    /\ InsertTags({tx[r].tag})
    /\ tx' = [tx EXCEPT ![r].known = TRUE]
    /\ UNCHANGED <<content, lastId, mapping, review, pc>>

\* existsByContentAndTag, then save; the foreign key needs the content.
SaveMapping(r) ==
    LET t == tx[r]
    IN  /\ Doing(r, "create") /\ t.tag # None /\ t.known
        /\ content[t.content] # None
        /\ mapping' = IF t.tag \in TagsOf(t.content) THEN mapping
                      ELSE mapping \cup {[id |-> r, content |-> t.content, tag |-> t.tag]}
        /\ tx' = [tx EXCEPT ![r].todo = @ \ {t.tag}, ![r].tag = None, ![r].known = FALSE]
        /\ UNCHANGED <<content, lastId, tags, review, pc>>

Created(r) ==
    /\ Doing(r, "create") /\ tx[r].tag = None /\ tx[r].todo = {}
    /\ End(r, "done")
    /\ UNCHANGED tables

CreateContent(r) == FindTag(r) \/ SaveTag(r) \/ SaveMapping(r) \/ Created(r)

-----------------------------------------------------------------------------

StartReview(r) ==
    \E u \in Users :
        \/ \E c \in 1..lastId, rating \in Ratings : CreateReview(r, u, c, rating)
        \/ /\ setting.edits
           /\ \E v \in review : \/ DeleteReview(r, u, v)
                                 \/ \E rating \in Ratings : UpdateReview(r, u, v, rating)

StartAdmin(r) ==
    /\ setting.admin
    /\ \/ \E c \in 1..lastId, title \in Titles :
              \/ PatchContent(r, c, title, FALSE, {})
              \/ \E names \in TagLists : PatchContent(r, c, title, TRUE, names)
       \/ \E c \in 1..lastId : DeleteContent(r, c)
       \/ \E title \in Titles, names \in TagLists : SaveContent(r, title, names)

Finish(r) ==
    \/ CommitReview(r) \/ CommitUpdateReview(r) \/ CommitDeleteReview(r)
    \/ CommitPatch(r) \/ CommitDeleteContent(r)
    \/ CreateContent(r)

-----------------------------------------------------------------------------
(* Correctness.                                                             *)

\* The average and the number of reviews are those of the reviews, if
\* transactions do not overlap and no review is edited or deleted: neither an
\* administrator's edit nor an import touches them.
TotalsMatch ==
    ~setting.overlap /\ ~setting.edits =>
        \A c \in Contents : content[c] # None =>
            /\ content[c].count = Cardinality(ReviewsOf(c))
            /\ content[c].sum = MapThenSumSet(LAMBDA v : v.rating, ReviewsOf(c))

\* In generated tables a review's content exists, though it may be deleted
\* while somebody writes a review.
ReviewsHaveContent ==
    setting.generated => \A v \in review : content[v.content] # None

\* A key of the import belongs to one content. A user reviews a content once, if
\* transactions do not overlap.
KeyOnce ==
    /\ \A c, d \in Contents :
           /\ content[c] # None /\ content[d] # None
           /\ content[c].key = content[d].key /\ content[c].key # None
           => c = d
    /\ ~setting.overlap =>
           \A v, w \in review : v.author = w.author /\ v.content = w.content => v = w
=============================================================================
