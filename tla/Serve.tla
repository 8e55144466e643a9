------------------------------- MODULE Serve -------------------------------
(***************************************************************************)
(* A server that has started answers readers (server/app.py, core/pages.py *)
(* and render/): a page is read by one request and its links are resolved  *)
(* by another, the body in between comes from a cache every reader shares, *)
(* and the wiki, the rights of the reader and the server's own PostgREST   *)
(* change meanwhile.                                                       *)
(***************************************************************************)
EXTENDS Start, Sequences

CONSTANTS Readers, Pages,
          Mentions,  \* page -> the pages its text links to
          Size,      \* page -> the bytes of its rendered body
          MaxBytes,  \* render_cache_bytes
          NoBody, NoView,
          Menus      \* bounds: the runs to look at

ASSUME ServeAssumption ==
  /\ Mentions \in [Pages -> SUBSET Pages] /\ Size \in [Pages -> Nat \ {0}]
  /\ MaxBytes \in Nat
  /\ \A m \in Menus : /\ m.servers \subseteq Servers /\ m.existing \subseteq Existing
                      /\ m.starts <= MaxStarts /\ m.faults <= MaxFaults
                      /\ m.views \in Nat /\ m.edits \in Nat

VARIABLES version,  \* page -> its published revision
          may,      \* reader -> the pages PostgREST shows them
          cache,    \* server -> its render cache, the least recently used first
          view,     \* reader -> the request under way, or the last answer
          asked, edits,
          menu

wiki == <<version, may>>
serveVars == <<vars, version, may, cache, view, asked, edits, menu>>

Body == [page : Pages, version : 1..(1 + edits), links : SUBSET Pages]

Key(p, v) == <<p, v>>

(* live, ever and always are history: the revisions of the page that were  *)
(* live while the request was under way, and the pages its reader could    *)
(* see at some moment of it and at every moment of it.                     *)
View == [at : Servers, route : {"page", "index", "search", "link"}, page : Pages,
         step : {"document", "tree", "done"}, status : {0, 200, 404, 502},
         body : Body \cup {NoBody}, links : SUBSET Pages,
         live : SUBSET (1..(1 + edits)), ever : SUBSET Pages, always : SUBSET Pages]

Asking(r) == view[r] # NoView /\ view[r].step # "done"

-----------------------------------------------------------------------------
(* The render cache                                                        *)

NoCache == [entries |-> <<>>, bytes |-> 0]

Holds(c, k) == \E i \in 1..Len(c.entries) : c.entries[i].key = k

Place(c, k) == CHOOSE i \in 1..Len(c.entries) : c.entries[i].key = k

Stored(c, k) == c.entries[Place(c, k)]

(* A hit makes the entry the most recently used.                           *)
Touch(c, k) ==
  LET es == c.entries
      i == Place(c, k)
  IN [entries |-> Append(SubSeq(es, 1, i - 1) \o SubSeq(es, i + 1, Len(es)), es[i]),
      bytes |-> c.bytes]

(* What some entries take: each byte of each of them, counted.             *)
BytesOf(es) == UNION {{i} \X (1..es[i].size) : i \in DOMAIN es}

Weight(es) == Cardinality(BytesOf(es))

(* With the k least recently used gone the rest fits, or nothing is left.  *)
Fits(c, k) ==
  \/ c.bytes - Weight(SubSeq(c.entries, 1, k)) <= MaxBytes
  \/ k = Len(c.entries)

Excess(c) ==
  CHOOSE k \in 0..Len(c.entries) : Fits(c, k) /\ \A j \in 0..(k - 1) : ~ Fits(c, j)

(* Mutant of Evict: what goes is not taken off the count.                  *)
EvictUncounted(c) ==
  [c EXCEPT !.entries = SubSeq(@, Excess(c) + 1, Len(@))]

(* The least recently used go until the rest fits.                         *)
Evict(c) ==
  LET gone == SubSeq(c.entries, 1, Excess(c)) IN
  [entries |-> SubSeq(c.entries, Excess(c) + 1, Len(c.entries)),
   bytes |-> c.bytes - Weight(gone)]

(* A body larger than the whole cache is not stored at all.                *)
Put(c, k, html) ==
  LET size == Size[html.page] IN
  IF size > MaxBytes THEN c
  ELSE Evict([entries |-> Append(c.entries, [key |-> k, html |-> html, size |-> size]),
              bytes |-> c.bytes + size])

(* The sanitised body, its links still neutral.                            *)
Render(p) == [page |-> p, version |-> version[p], links |-> Mentions[p]]

(* Mutant of Row: the body is looked up by document alone.                 *)
RowOfDocument(p) == Key(p, 1)

(* What the row that was read is cached under.                             *)
Row(p) == Key(p, version[p])

-----------------------------------------------------------------------------
(* A request                                                               *)

Rest == UNCHANGED <<vars, wiki, edits, menu>>

Serving(s) == pc[s] = "serving"

(* A reader opens a page, the contents, the search or a neutral link.      *)
Ask(r, s, p) ==
  /\ ~ Asking(r) /\ Serving(s) /\ asked < menu.views
  /\ \E route \in {"page", "index", "search", "link"} :
       view' = [view EXCEPT ![r] = [at |-> s, route |-> route, page |-> p,
         step |-> IF route = "page" THEN "document" ELSE "tree", status |-> 0,
         body |-> NoBody, links |-> {},
         live |-> {version[p]}, ever |-> may[r], always |-> may[r]]]
  /\ asked' = asked + 1
  /\ UNCHANGED cache /\ Rest

Answer(r, status) == view' = [view EXCEPT ![r].status = status, ![r].step = "done"]

(* client.document, which shows what this reader may read and nothing      *)
(* else; then, with nothing in between, the body from the cache or into it.*)
Document(r) ==
  LET v == view[r]
      c == cache[v.at]
      k == Row(v.page)
      body == IF Holds(c, k) THEN Stored(c, k).html ELSE Render(v.page)
  IN
  /\ Asking(r) /\ v.step = "document" /\ UpAt(Address[v.at])
  /\ \/ /\ v.page \notin may[r]
        /\ Answer(r, 404) /\ UNCHANGED cache
     \/ /\ v.page \in may[r]
        /\ cache' = [cache EXCEPT ![v.at] = IF Holds(c, k) THEN Touch(c, k) ELSE Put(c, k, body)]
        /\ view' = [view EXCEPT ![r].body = body, ![r].step = "tree"]
  /\ UNCHANGED asked /\ Rest

(* Mutant of Links: the neutral body goes out as it is.                    *)
LinksOfBody(r, body) == body.links

(* A link is live for a reader who can see where it goes.                  *)
Links(r, body) == body.links \cap may[r]

(* client.outline, and the links of the page resolved with its answer.     *)
Compose(r) ==
  /\ Asking(r) /\ view[r].step = "tree" /\ view[r].route = "page"
  /\ UpAt(Address[view[r].at])
  /\ view' = [view EXCEPT ![r].links = Links(r, view[r].body),
                          ![r].status = 200, ![r].step = "done"]
  /\ UNCHANGED <<cache, asked>> /\ Rest

(* The contents: every page there is for this reader.                      *)
Index(r) ==
  /\ Asking(r) /\ view[r].route = "index" /\ UpAt(Address[view[r].at])
  /\ view' = [view EXCEPT ![r].links = may[r], ![r].status = 200, ![r].step = "done"]
  /\ UNCHANGED <<cache, asked>> /\ Rest

(* wiki.search finds some of them.                                         *)
Search(r) ==
  /\ Asking(r) /\ view[r].route = "search" /\ UpAt(Address[view[r].at])
  /\ \E found \in SUBSET may[r] :
       view' = [view EXCEPT ![r].links = found, ![r].status = 200, ![r].step = "done"]
  /\ UNCHANGED <<cache, asked>> /\ Rest

(* /-/fswiki/<target>: a link nobody resolved leads on for who may see it. *)
Follow(r) ==
  /\ Asking(r) /\ view[r].route = "link" /\ UpAt(Address[view[r].at])
  /\ Answer(r, IF view[r].page \in may[r] THEN 200 ELSE 404)
  /\ UNCHANGED <<cache, asked>> /\ Rest

(* PostgREST does not answer.                                              *)
BadGateway(r) ==
  /\ Asking(r) /\ ~ UpAt(Address[view[r].at])
  /\ Answer(r, 502)
  /\ UNCHANGED <<cache, asked>> /\ Rest

-----------------------------------------------------------------------------
(* The wiki meanwhile                                                      *)

Edit == edits < menu.edits /\ edits' = edits + 1 /\ UNCHANGED <<vars, cache, asked, menu>>

(* Somebody publishes.                                                     *)
Publish(p) ==
  /\ Edit
  /\ version' = [version EXCEPT ![p] = @ + 1]
  /\ view' = [r \in Readers |-> IF Asking(r) /\ view[r].page = p
                                THEN [view[r] EXCEPT !.live = @ \cup {version[p] + 1}]
                                ELSE view[r]]
  /\ UNCHANGED may

(* Somebody grants or denies.                                              *)
Grant(r, p) ==
  LET pages == IF p \in may[r] THEN may[r] \ {p} ELSE may[r] \cup {p} IN
  /\ Edit
  /\ may' = [may EXCEPT ![r] = pages]
  /\ view' = IF Asking(r)
             THEN [view EXCEPT ![r].ever = @ \cup pages, ![r].always = @ \cap pages]
             ELSE view
  /\ UNCHANGED version

-----------------------------------------------------------------------------
(* The servers start, stop and crash as in Start; a server that does not   *)
(* serve has no cache, and the requests it had under way are cut off.      *)
StartStep ==
  /\ Next
  /\ starts' <= menu.starts /\ faults' <= menu.faults
  /\ \A s \in Servers \ menu.servers : pc'[s] = "off"
  /\ cache' = [s \in Servers |-> IF pc'[s] = "serving" THEN cache[s] ELSE NoCache]
  /\ view' = [r \in Readers |-> IF Asking(r) /\ pc'[view[r].at] # "serving" THEN NoView
                                ELSE view[r]]
  /\ UNCHANGED <<wiki, asked, edits, menu>>

Request(r) == Document(r) \/ Compose(r) \/ Index(r) \/ Search(r) \/ Follow(r) \/ BadGateway(r)

ServeInit ==
  /\ Init
  /\ menu \in Menus /\ db \in menu.existing
  /\ version = [p \in Pages |-> 1]
  /\ may = [r \in Readers |-> Pages]
  /\ cache = [s \in Servers |-> NoCache]
  /\ view = [r \in Readers |-> NoView]
  /\ asked = 0 /\ edits = 0

ServeNext ==
  \/ StartStep
  \/ \E r \in Readers : \/ \E s \in Servers, p \in Pages : Ask(r, s, p)
                        \/ Request(r)
                        \/ \E p \in Pages : Grant(r, p)
  \/ \E p \in Pages : Publish(p)

ServeSpec == ServeInit /\ [][ServeNext]_serveVars /\ Fairness

-----------------------------------------------------------------------------
(* Properties                                                              *)

(* What every variable holds, Start's and this module's; and the count a   *)
(* Cache keeps of its bytes is that of its entries, which are one to a key *)
(* and stay within render_cache_bytes whatever was stored and evicted.     *)
ServeTypeOK ==
  /\ TypeOK
  /\ version \in [Pages -> 1..(1 + edits)]
  /\ may \in [Readers -> SUBSET Pages]
  /\ view \in [Readers -> View \cup {NoView}]
  /\ \A s \in Servers :
       LET es == cache[s].entries IN
       /\ cache[s].bytes = Weight(es) /\ cache[s].bytes <= MaxBytes
       /\ \A i \in DOMAIN es : es[i].html \in Body /\ es[i].size = Size[es[i].html.page]
       /\ \A i, j \in DOMAIN es : es[i].key = es[j].key => i = j

(* What a reader gets is of the time of the request and for this reader: a *)
(* page in a revision that was live meanwhile and that they could see, no  *)
(* link, no entry of the contents and no hit that leads where they could   *)
(* not look, although the body came from a cache another reader filled,    *)
(* perhaps before an edit; and nothing they could see throughout is denied.*)
ReadersOwnPage ==
  \A r \in Readers :
    LET v == view[r] IN
    v # NoView /\ v.step = "done" =>
      /\ v.status = 200 /\ v.route # "index" /\ v.route # "search" => v.page \in v.ever
      /\ v.status = 200 /\ v.route = "page" => /\ v.body.page = v.page
                                               /\ v.body.version \in v.live
      /\ v.links \subseteq v.ever
      /\ v.status = 200 /\ v.route = "index" => v.always \subseteq v.links
      /\ v.status = 200 /\ v.route = "page" => Mentions[v.page] \cap v.always \subseteq v.links
      /\ v.status = 404 => v.page \notin v.always
=============================================================================
