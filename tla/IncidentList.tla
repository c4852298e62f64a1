---------------------------- MODULE IncidentList ----------------------------
(***************************************************************************)
(* One browser tab on the incidents list: the view lives in the URL, the   *)
(* search box is debounced, rows come from cached server answers, and the  *)
(* browser's history, the TopBar's "back" and the answers of requests that *)
(* were sent earlier move the tab as well.  Other analysts create, close   *)
(* and delete incidents meanwhile.                                         *)
(*                                                                         *)
(* An incident is its number in creation order.  A status, a search word   *)
(* and a sort key each come from a small set; a search word is matched by  *)
(* the incidents Matching gives.  A parameter of a URL that is absent or   *)
(* that the code cannot read is zero or the empty text.                    *)
(***************************************************************************)
EXTENDS Integers, Sequences, FiniteSets

CONSTANTS Incidents,      \* numbers an incident can have
          Statuses, SortKeys, Words,
          PageSizes, DefaultPerPage,
          Matching,       \* Matching[word]: the incidents whose title or ref has it
          Links,          \* URLs the tab may be opened with
          MaxHistory, MaxClicks, MaxForeign

ASSUME IncidentListAssumption ==
    /\ Incidents \subseteq Nat \ {0} /\ IsFiniteSet(Incidents)
    /\ {"open", "closed"} \subseteq Statuses /\ {"all", ""} \cap Statuses = {}
    /\ "created" \in SortKeys /\ "" \notin SortKeys /\ "" \in Words
    /\ PageSizes \subseteq Nat \ {0} /\ DefaultPerPage \in PageSizes
    /\ Matching \in [Words -> SUBSET Incidents] /\ Matching[""] = Incidents
    /\ MaxHistory \in Nat \ {0} /\ MaxClicks \in Nat /\ MaxForeign \in Nat

VARIABLES
    history,    \* the entries of the tab's history: list URLs and workspaces
    at,         \* the entry on screen
    remembered, \* sessionStorage: the last list URL shown
    box,        \* the search box: the word, and whether white space follows it
    cache,      \* query -> answer: rows, total, whether it is stale
    fetching,   \* queries whose GET has not been answered
    dialog,     \* the dialog on screen and the incident it names, or None
    titled,     \* the create form's title is not blank
    request,    \* the mutation in flight, or None
    server,     \* incident -> status, for the incidents that exist
    clicks, foreign

vars == <<history, at, remembered, box, cache, fetching, dialog, titled, request, server,
          clicks, foreign>>

-----------------------------------------------------------------------------
(* Queries and URLs: lib/incidentListQuery.ts. *)

Filters == Statuses \cup {"all"}
Orders == {"asc", "desc"}
LastPage(total, perPage) == IF total = 0 THEN 1 ELSE (total + perPage - 1) \div perPage
Pages == 1 .. LastPage(Cardinality(Incidents), 1)
Sortings == [key : SortKeys, order : Orders]
Queries == [page : Pages, perPage : PageSizes, status : Filters, search : Words,
            sorting : Sortings]

FirstClickOrder(key) == IF key \in {"severity", "created"} THEN "desc" ELSE "asc"

DefaultQuery == [page |-> 1, perPage |-> DefaultPerPage, status |-> "all", search |-> "",
                 sorting |-> [key |-> "created", order |-> "desc"]]

URLs == [page : Pages \cup {0}, perPage : PageSizes \cup {0}, status : Statuses \cup {""},
         search : Words, sort : SortKeys \cup {""}, order : Orders \cup {""}]

ASSUME LinksAssumption == Links \subseteq URLs

BareURL == [page |-> 0, perPage |-> 0, status |-> "", search |-> "", sort |-> "", order |-> ""]

ParseListQuery(url) ==
    LET Number(n, default) == IF n = 0 THEN default ELSE n
        Text(t, default) == IF t = "" THEN default ELSE t
        key == Text(url.sort, "created")
    IN [page |-> Number(url.page, 1), perPage |-> Number(url.perPage, DefaultPerPage),
        status |-> Text(url.status, "all"), search |-> url.search,
        sorting |-> [key |-> key, order |-> Text(url.order, FirstClickOrder(key))]]

(* Slips kept for the checks: one parameter is left out when it equals the  *)
(* default of its own, though the other is not left out with it.            *)
ToSearchParamsTerse(q) ==
    LET Text(t, default) == IF t = default THEN "" ELSE t IN
    [page |-> q.page, perPage |-> q.perPage, status |-> Text(q.status, "all"),
     search |-> q.search, sort |-> Text(q.sorting.key, "created"),
     order |-> Text(q.sorting.order, "desc")]

ToSearchParams(q) ==
    LET Number(n, default) == IF n = default THEN 0 ELSE n
        sorted == q.sorting # DefaultQuery.sorting
    IN [page |-> Number(q.page, 1), perPage |-> Number(q.perPage, DefaultPerPage),
        status |-> IF q.status = "all" THEN "" ELSE q.status, search |-> q.search,
        sort |-> IF sorted THEN q.sorting.key ELSE "",
        order |-> IF sorted THEN q.sorting.order ELSE ""]

-----------------------------------------------------------------------------
(* The server's answer to GET /incidents: incident_service.list_incidents.  *)

Hits(q) == {i \in DOMAIN server \cap Matching[q.search] :
                q.status = "all" \/ server[i] = q.status}

(* The rows of the page: those whose rank in the order asked for falls in it. *)
RowsOf(q) ==
    LET Before(i) == {j \in Hits(q) : IF q.sorting.order = "asc" THEN j < i ELSE j > i}
    IN {i \in Hits(q) : Cardinality(Before(i)) \in
                            (q.page - 1) * q.perPage .. q.page * q.perPage - 1}

AnswerOf(q) == [rows |-> RowsOf(q), total |-> Cardinality(Hits(q)), stale |-> FALSE]

-----------------------------------------------------------------------------
(* What the tab shows. *)

Workspace(i) == [page |-> "workspace", incident |-> i]
ListAt(url) == [page |-> "list", url |-> url]
None == [kind |-> "none", incident |-> 0]

OnList == history[at].page = "list"
Query == ParseListQuery(history[at].url)
Known(q, c) == q \in DOMAIN c
Busy(q, c) == ~Known(q, c) \/ c[q].stale
Rows == IF OnList /\ Known(Query, cache) THEN cache[Query].rows ELSE {}

(* Pages the bar offers: lib/pagination.ts, the first, the last and a window. *)
PageWindow(page, last) ==
    ( {1, last} \cup (page - 1 .. page + 1)
      \cup (IF page <= 3 THEN 2 .. 4 ELSE {})
      \cup (IF page >= last - 2 THEN last - 3 .. last - 1 ELSE {}) ) \cap (1 .. last)

(* The Pagination bar under the rows: arrows, page numbers, page sizes.      *)
OffersPage(p) ==
    /\ OnList /\ Known(Query, cache)
    /\ LET last == LastPage(cache[Query].total, Query.perPage) IN
       /\ last > 1
       /\ \/ p \in PageWindow(Query.page, last)
          \/ p = Query.page - 1 /\ Query.page > 1
          \/ p = Query.page + 1 /\ Query.page < last

(* Past the last page of an answer that is not being fetched again, the page *)
(* goes to the last one.                                                     *)
(* Slip kept for the checks: the page is clamped only when there are no rows *)
(* at all. *)
ClampedAbsurd(url, c) ==
    LET q == ParseListQuery(url) IN
    IF Busy(q, c) \/ c[q].total > 0 THEN url
    ELSE ToSearchParams([q EXCEPT !.page = 1])

Clamped(url, c) ==
    LET q == ParseListQuery(url) IN
    IF Busy(q, c) \/ q.page <= LastPage(c[q].total, q.perPage) THEN url
    ELSE ToSearchParams([q EXCEPT !.page = LastPage(c[q].total, q.perPage)])

(* The effect runs after each rendering, and the answers of two pages may    *)
(* disagree on the total: these are the URLs it leads through.               *)
Renderings(url, c) ==
    LET q == ParseListQuery(url)
        lower == {url} \cup {ToSearchParams([q EXCEPT !.page = n]) : n \in 1 .. q.page}
    IN {u \in lower : \A V \in SUBSET lower :
            url \in V /\ (\A v \in V : Clamped(v, c) \in V) => u \in V}

(* It rests on a page that fits, or whose answer is being fetched. *)
Fitted(url, c) == CHOOSE u \in Renderings(url, c) : Clamped(u, c) = u

-----------------------------------------------------------------------------
(* Slip kept for the checks: an answer that is invalid is shown for good.    *)
ShowFromCache(h, n, c) ==
    IF h[n].page = "list"
    THEN LET url == Fitted(h[n].url, c)
             q == ParseListQuery(url)
         IN /\ history' = [h EXCEPT ![n] = ListAt(url)]
            /\ remembered' = url
            /\ box' = IF OnList /\ q.search = Query.search THEN box ELSE <<q.search, FALSE>>
            /\ fetching' = IF ~Known(q, c) THEN fetching \cup {q} ELSE fetching
            /\ at' = n /\ cache' = c
    ELSE /\ history' = h /\ at' = n /\ cache' = c
         /\ UNCHANGED <<remembered, box, fetching>>

(* Effects of a render with history h at entry n and cache c: the URL is    *)
(* clamped and remembered, the box follows a search that changed, and a     *)
(* view without a fresh answer is fetched.                                  *)
Show(h, n, c) ==
    IF h[n].page = "list"
    THEN LET url == Fitted(h[n].url, c)
             q == ParseListQuery(url)
         IN /\ history' = [h EXCEPT ![n] = ListAt(url)]
            /\ remembered' = url
            /\ box' = IF OnList /\ q.search = Query.search THEN box ELSE <<q.search, FALSE>>
            /\ fetching' = IF Busy(q, c) THEN fetching \cup {q} ELSE fetching
            /\ at' = n /\ cache' = c
    ELSE /\ history' = h /\ at' = n /\ cache' = c
         /\ UNCHANGED <<remembered, box, fetching>>

(* A new entry takes the place of those the browser could go forward to.    *)
Push(entry, c) ==
    LET kept == IF at = MaxHistory THEN SubSeq(history, 2, at) ELSE SubSeq(history, 1, at)
    IN Show(Append(kept, entry), Len(kept) + 1, c)
Replace(entry, c) == Show([history EXCEPT ![at] = entry], at, c)

(* Slip kept for the checks: the page is kept when the filter changes. *)
UpdateQueryKeepingPage(change, replace) ==
    LET url == ToSearchParams([f \in DOMAIN Query |->
                   IF f \in DOMAIN change THEN change[f] ELSE Query[f]])
    IN IF replace THEN Replace(ListAt(url), cache) ELSE Push(ListAt(url), cache)

(* Anything but a page change starts again from page 1. *)
UpdateQuery(change, replace) ==
    LET url == ToSearchParams([f \in DOMAIN Query |->
                   IF f \in DOMAIN change THEN change[f]
                   ELSE IF f = "page" THEN 1 ELSE Query[f]])
    IN IF replace THEN Replace(ListAt(url), cache) ELSE Push(ListAt(url), cache)

Click == OnList /\ dialog = None /\ clicks < MaxClicks /\ clicks' = clicks + 1

-----------------------------------------------------------------------------
(* The user on the list. *)

Init ==
    /\ \E url \in Links :
          /\ history = <<ListAt(url)>> /\ remembered = url
          /\ box = <<url.search, FALSE>> /\ fetching = {ParseListQuery(url)}
    /\ at = 1 /\ cache = << >> /\ dialog = None /\ titled = FALSE /\ request = None
    /\ server = [i \in Incidents \ {CHOOSE n \in Incidents : \A m \in Incidents : m <= n} |-> "open"]
    /\ clicks = 0 /\ foreign = 0

ChooseStatus(s) ==
    /\ Click /\ UpdateQuery([status |-> s], FALSE)
    /\ UNCHANGED <<dialog, titled, request, server, foreign>>

(* A click on the column that sorts reverses it, another one sorts afresh.  *)
HandleSort(key) ==
    [key |-> key, order |-> IF Query.sorting.key # key THEN FirstClickOrder(key)
                            ELSE IF Query.sorting.order = "asc" THEN "desc" ELSE "asc"]

ClickHeader(key) ==
    /\ Click /\ UpdateQuery([sorting |-> HandleSort(key)], FALSE)
    /\ UNCHANGED <<dialog, titled, request, server, foreign>>

ChoosePage(p) ==
    /\ Click /\ OffersPage(p) /\ UpdateQuery([page |-> p], FALSE)
    /\ UNCHANGED <<dialog, titled, request, server, foreign>>

ChoosePerPage(n) ==
    /\ Click /\ Known(Query, cache) /\ UpdateQuery([perPage |-> n], FALSE)
    /\ UNCHANGED <<dialog, titled, request, server, foreign>>

Type(word, space) ==
    /\ Click /\ box' = <<word, space>> /\ box' # box
    /\ UNCHANGED <<history, at, remembered, cache, fetching, dialog, titled, request, server, foreign>>

(* The debounce timer: armed whenever the trimmed box differs from the URL. *)
SearchDue == OnList /\ box[1] # Query.search
SearchTimer ==
    /\ SearchDue /\ UpdateQuery([search |-> box[1]], TRUE)
    /\ UNCHANGED <<dialog, titled, request, server, clicks, foreign>>

OpenIncident(i) ==
    /\ Click /\ i \in Rows /\ Push(Workspace(i), cache)
    /\ UNCHANGED <<dialog, titled, request, server, foreign>>

(* The TopBar of an incident leads back to the last list view. *)
BackToList ==
    /\ ~OnList /\ clicks < MaxClicks /\ clicks' = clicks + 1
    /\ Push(ListAt(remembered), cache)
    /\ UNCHANGED <<dialog, titled, request, server, foreign>>

(* The left navigation leads to the default view of the list. *)
GoToList ==
    /\ dialog = None /\ clicks < MaxClicks /\ clicks' = clicks + 1
    /\ Push(ListAt(BareURL), cache)
    /\ UNCHANGED <<dialog, titled, request, server, foreign>>

(* The browser's own buttons; leaving the list closes its dialog. *)
Browse(n) ==
    /\ n \in 1 .. Len(history) /\ n # at /\ clicks < MaxClicks /\ clicks' = clicks + 1
    /\ Show(history, n, cache)
    /\ dialog' = IF history[n].page = "list" /\ OnList THEN dialog ELSE None
    /\ UNCHANGED <<titled, request, server, foreign>>

-----------------------------------------------------------------------------
(* Dialogs and mutations. *)

Ask(d) ==
    /\ Click /\ (d.kind = "create" \/ d.incident \in Rows) /\ dialog' = d
    /\ UNCHANGED <<history, at, remembered, box, cache, fetching, titled, request, server, foreign>>

Cancel ==
    /\ dialog # None /\ dialog' = None
    /\ UNCHANGED <<history, at, remembered, box, cache, fetching, titled, request, server, clicks, foreign>>

(* The create form keeps what was typed when it is closed without success;  *)
(* its button needs a title.                                                *)
EditTitle ==
    /\ dialog.kind = "create" /\ request = None /\ titled' = ~titled
    /\ UNCHANGED <<history, at, remembered, box, cache, fetching, dialog, request, server, clicks, foreign>>

(* What may be sent: a deletion that is confirmed, a creation with a title,  *)
(* and a row picked up behind no dialog.                                     *)
Deletes(r) == r.kind = "delete" /\ dialog = r
Creates(r) == r.kind = "create" /\ dialog.kind = "create" /\ titled /\ r.incident \in Incidents \ DOMAIN server
PicksUp(r) == r.kind = "pickup" /\ dialog = None /\ r.incident \in Rows

Send(r) ==
    /\ request = None /\ OnList
    /\ (Deletes(r) \/ Creates(r) \/ PicksUp(r))
    /\ request' = r
    /\ UNCHANGED <<history, at, remembered, box, cache, fetching, dialog, titled, server, clicks, foreign>>

Invalidated == [q \in DOMAIN cache |-> [cache[q] EXCEPT !.stale = TRUE]]

(* The answer is a success: the lists are invalidated, the dialog closes,   *)
(* and a created incident is opened wherever the tab is by then.            *)
Succeed ==
    LET i == request.incident IN
    /\ request # None
    /\ CASE request.kind = "delete" ->
              /\ i \in DOMAIN server
              /\ server' = [j \in DOMAIN server \ {i} |-> server[j]]
              /\ dialog' = None /\ Show(history, at, Invalidated) /\ UNCHANGED titled
         [] request.kind = "create" ->
              /\ server' = [j \in DOMAIN server \cup {i} |-> IF j = i THEN "open" ELSE server[j]]
              /\ dialog' = None /\ titled' = FALSE /\ Push(Workspace(i), Invalidated)
         [] request.kind = "pickup" ->
              /\ i \in DOMAIN server /\ Show(history, at, Invalidated) /\ UNCHANGED <<server, dialog, titled>>
    /\ request' = None
    /\ UNCHANGED <<clicks, foreign>>

(* The request fails: the incident is gone, or the answer is lost after the *)
(* work was done, or the request never arrived.  The dialog stays open.     *)
Fail ==
    LET i == request.incident IN
    /\ request # None /\ request' = None
    /\ server' \in {server, IF request.kind = "delete"
                            THEN [j \in DOMAIN server \ {i} |-> server[j]] ELSE server}
    /\ UNCHANGED <<history, at, remembered, box, cache, fetching, dialog, titled, clicks, foreign>>

-----------------------------------------------------------------------------
(* Answers of GETs, time, and other analysts. *)

Answer(q) ==
    /\ q \in fetching
    /\ LET c == [k \in DOMAIN cache \cup {q} |-> IF k = q THEN AnswerOf(q) ELSE cache[k]]
           url == IF OnList THEN Fitted(history[at].url, c) ELSE remembered
           shown == ParseListQuery(url)
       IN /\ cache' = c
          /\ history' = IF OnList THEN [history EXCEPT ![at] = ListAt(url)] ELSE history
          /\ remembered' = url
          /\ fetching' = (fetching \ {q}) \cup (IF OnList /\ Busy(shown, c) THEN {shown} ELSE {})
    /\ UNCHANGED <<at, box, dialog, titled, request, server, clicks, foreign>>

(* Thirty seconds pass, or the window is focused again: what is on screen   *)
(* is fetched again.                                                        *)
Refocus ==
    /\ OnList /\ Known(Query, cache)
    /\ \E q \in DOMAIN cache : ~cache[q].stale
    /\ cache' = Invalidated /\ fetching' = fetching \cup {Query}
    /\ UNCHANGED <<history, at, remembered, box, dialog, titled, request, server, clicks, foreign>>

Foreign(change) ==
    /\ foreign < MaxForeign /\ foreign' = foreign + 1
    /\ server' = change /\ change # server
    /\ UNCHANGED <<history, at, remembered, box, cache, fetching, dialog, titled, request, clicks>>

Close(i) == i \in DOMAIN server /\ Foreign([server EXCEPT ![i] = "closed"])
Remove(i) == i \in DOMAIN server /\ Foreign([j \in DOMAIN server \ {i} |-> server[j]])

Dialogs == [kind : {"delete"}, incident : Incidents] \cup {[kind |-> "create", incident |-> 0]}
Requests == [kind : {"delete", "create", "pickup"}, incident : Incidents]

Next ==
    \/ \E s \in Filters : ChooseStatus(s)
    \/ \E key \in SortKeys : ClickHeader(key)
    \/ \E p \in Pages : ChoosePage(p)
    \/ \E n \in PageSizes : ChoosePerPage(n)
    \/ \E w \in Words : \E space \in BOOLEAN : Type(w, space)
    \/ SearchTimer
    \/ \E i \in Incidents : OpenIncident(i)
    \/ BackToList
    \/ GoToList
    \/ \E n \in 1 .. MaxHistory : Browse(n)
    \/ \E d \in Dialogs : Ask(d)
    \/ Cancel
    \/ EditTitle
    \/ \E r \in Requests : Send(r)
    \/ Succeed
    \/ Fail
    \/ \E q \in fetching : Answer(q)
    \/ Refocus
    \/ \E i \in Incidents : Close(i)
    \/ \E i \in Incidents : Remove(i)

Spec == Init /\ [][Next]_vars

-----------------------------------------------------------------------------
(* Properties. *)

TypeOK ==
    /\ at \in 1 .. Len(history) /\ Len(history) <= MaxHistory
    /\ \A n \in 1 .. Len(history) :
          history[n] \in [page : {"list"}, url : URLs] \cup [page : {"workspace"}, incident : Incidents]
    /\ remembered \in URLs /\ box \in Words \X BOOLEAN
    /\ DOMAIN cache \subseteq Queries /\ fetching \subseteq Queries
    /\ \A q \in DOMAIN cache :
          cache[q] \in [rows : SUBSET Incidents, total : 0 .. Cardinality(Incidents), stale : BOOLEAN]
    /\ OnList /\ Busy(Query, cache) => Query \in fetching
    /\ dialog \in Dialogs \cup {None} /\ titled \in BOOLEAN /\ request \in Requests \cup {None}
    /\ DOMAIN server \subseteq Incidents /\ \A i \in DOMAIN server : server[i] \in {"open", "closed"}

(* A list that has matching incidents is never left on an empty page: after *)
(* a deletion here or elsewhere, a shared link or a filter, the rows of an  *)
(* answer that is up to date are those of a page that exists.               *)
NoEmptyPage ==
    OnList /\ ~Busy(Query, cache) /\ cache[Query].total > 0 => Rows # {}

(* Every view a click leads to has a URL that is read back as that view,    *)
(* though defaults are left out of it.                                      *)
HasAURL(q) == ParseListQuery(ToSearchParams(q)) = q
EveryViewHasAURL ==
    OnList =>
        /\ \A p \in Pages : HasAURL([Query EXCEPT !.page = p])
        /\ \A n \in PageSizes : HasAURL([Query EXCEPT !.perPage = n])
        /\ \A s \in Filters : HasAURL([Query EXCEPT !.status = s])
        /\ \A w \in Words : HasAURL([Query EXCEPT !.search = w])
        /\ \A s \in Sortings : HasAURL([Query EXCEPT !.sorting = s])

(* The URL carries the whole view: the tab implements ListView with the     *)
(* view read back from its URL, so a reload, a shared link, the browser's   *)
(* buttons and the TopBar's "back" lead to the view the user had.           *)
Promise == INSTANCE ListView WITH
    Views <- Queries, DefaultView <- DefaultQuery,
    view <- IF OnList THEN Query ELSE ParseListQuery(remembered),
    trail <- {ParseListQuery(e.url) : e \in {history[n] : n \in {m \in 1 .. Len(history) :
                                                          history[m].page = "list"}}}
             \cup {ParseListQuery(remembered)}
ImplementsListView == Promise!Spec

=============================================================================
