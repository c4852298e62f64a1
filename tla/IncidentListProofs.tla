--------------------------- MODULE IncidentListProofs ---------------------------
(***************************************************************************)
(* What is proved of the incidents list, for any number of incidents,      *)
(* statuses, search words, sort keys, page sizes and history entries: a    *)
(* view and its URL give each other, and the tab implements ListView.      *)
(***************************************************************************)
EXTENDS IncidentList, SequenceTheorems, FiniteSetTheorems, WellFoundedInduction, TLAPS

USE DEF Orders

-----------------------------------------------------------------------------
(* Pages, views and URLs. *)

LEMMA PagesAreOneTo ==
    /\ Cardinality(Incidents) \in Nat
    /\ 1 \in Pages /\ Pages \subseteq Nat \ {0}
    /\ \A p \in Pages : 1 .. p \subseteq Pages
    /\ \A n \in 1 .. Cardinality(Incidents) : n \in Pages
  <1>1. Cardinality(Incidents) \in Nat
    BY IncidentListAssumption, FS_CardinalityType
  <1>2. Pages = 1 .. (IF Cardinality(Incidents) = 0 THEN 1 ELSE Cardinality(Incidents))
    BY <1>1 DEF Pages, LastPage
  <1> QED
    BY <1>1, <1>2

LEMMA PageNumbers == Pages \subseteq Nat \ {0}
  BY PagesAreOneTo

LEMMA OneIsTheFirst == \A p \in Nat : p # 0 /\ p <= 1 => p = 1
  OBVIOUS

LEMMA PageOfAQuery ==
    ASSUME NEW q \in Queries
    PROVE  q.page \in Pages /\ q.page \in Nat /\ q.page # 0
  <1>1. q.page \in Pages
    BY DEF Queries
  <1> QED
    BY <1>1, PageNumbers

(* The last page of an answer about some of the incidents is a page. *)
LEMMA LastPageIsAPage ==
    ASSUME NEW total \in 0 .. Cardinality(Incidents), NEW perPage \in Nat \ {0}
    PROVE  LastPage(total, perPage) \in Pages
  <1>1. CASE total = 0
    BY <1>1, PagesAreOneTo DEF LastPage
  <1>2. CASE total # 0
    <2>1. total \in Nat /\ total >= 1 /\ total <= Cardinality(Incidents)
      BY <1>2, PagesAreOneTo
    <2>2. (total + perPage - 1) \div perPage \in 1 .. total
      <3> DEFINE d == (total + perPage - 1) \div perPage
      <3>1. d \in Int /\ d * perPage <= total + perPage - 1 /\ total + perPage - 1 < (d + 1) * perPage
        BY <2>1, SMT
      <3>2. d >= 1
        BY <2>1, <3>1, SMT
      <3>3. d <= total
        BY <2>1, <3>1, SMT
      <3> QED
        BY <3>1, <3>2, <3>3
    <2> QED
      BY <1>2, <2>1, <2>2, PagesAreOneTo DEF LastPage
  <1> QED
    BY <1>1, <1>2

LEMMA DefaultIsAQuery == DefaultQuery \in Queries
  BY PagesAreOneTo, IncidentListAssumption DEF DefaultQuery, Queries, Filters, Sortings

(* Whatever URL the tab is opened with is read as a view. *)
LEMMA ParsedIsAQuery ==
    ASSUME NEW url \in URLs
    PROVE  ParseListQuery(url) \in Queries
  <1> DEFINE key == IF url.sort = "" THEN "created" ELSE url.sort
  <1>1. /\ (IF url.page = 0 THEN 1 ELSE url.page) \in Pages
        /\ (IF url.perPage = 0 THEN DefaultPerPage ELSE url.perPage) \in PageSizes
        /\ (IF url.status = "" THEN "all" ELSE url.status) \in Filters
        /\ url.search \in Words
    BY PagesAreOneTo, IncidentListAssumption DEF URLs, Filters
  <1>2. [key |-> key, order |-> IF url.order = "" THEN FirstClickOrder(key) ELSE url.order]
            \in Sortings
    BY IncidentListAssumption DEF URLs, Sortings, FirstClickOrder
  <1> QED
    BY <1>1, <1>2 DEF ParseListQuery, Queries

LEMMA WrittenIsAURL ==
    ASSUME NEW q \in Queries
    PROVE  ToSearchParams(q) \in URLs
  BY PagesAreOneTo, IncidentListAssumption
     DEF ToSearchParams, Queries, URLs, Filters, Sortings

LEMMA BareIsTheDefault == BareURL \in URLs /\ ParseListQuery(BareURL) = DefaultQuery
  BY IncidentListAssumption DEF BareURL, URLs, ParseListQuery, DefaultQuery, FirstClickOrder

(* toSearchParams leaves defaults out, parseListQuery puts them back.       *)
LEMMA ReadsBack ==
    ASSUME NEW q \in Queries
    PROVE  HasAURL(q)
  <1> DEFINE url == ToSearchParams(q)
  <1>0. /\ q.page \in Pages /\ q.perPage \in PageSizes /\ q.status \in Filters
        /\ q.search \in Words /\ q.sorting \in Sortings
        /\ q = [page |-> q.page, perPage |-> q.perPage, status |-> q.status,
                search |-> q.search, sorting |-> q.sorting]
    BY DEF Queries
  <1>1. /\ (IF url.page = 0 THEN 1 ELSE url.page) = q.page
        /\ (IF url.perPage = 0 THEN DefaultPerPage ELSE url.perPage) = q.perPage
        /\ (IF url.status = "" THEN "all" ELSE url.status) = q.status
        /\ url.search = q.search
    BY <1>0, PagesAreOneTo, IncidentListAssumption DEF ToSearchParams, Filters
  <1>2. CASE q.sorting = DefaultQuery.sorting
    <2>1. url.sort = "" /\ url.order = ""
      BY <1>2 DEF ToSearchParams
    <2>2. q.sorting = [key |-> "created", order |-> FirstClickOrder("created")]
      BY <1>2 DEF DefaultQuery, FirstClickOrder
    <2> QED
      BY <1>0, <1>1, <2>1, <2>2 DEF HasAURL, ParseListQuery
  <1>3. CASE q.sorting # DefaultQuery.sorting
    <2>1. url.sort = q.sorting.key /\ url.order = q.sorting.order
      BY <1>3 DEF ToSearchParams
    <2>2. url.sort # "" /\ url.order # ""
      BY <1>0, <2>1, IncidentListAssumption DEF Sortings
    <2>3. q.sorting = [key |-> q.sorting.key, order |-> q.sorting.order]
      BY <1>0 DEF Sortings
    <2> QED
      BY <1>0, <1>1, <2>1, <2>2, <2>3 DEF HasAURL, ParseListQuery
  <1> QED
    BY <1>2, <1>3

-----------------------------------------------------------------------------
(* A render may put the page back within the answer: nothing else changes.  *)

Answers == [rows : SUBSET Incidents, total : 0 .. Cardinality(Incidents), stale : BOOLEAN]

(* An answer for a page that it has shows a row of it. *)
Filled(q, answer) ==
    answer.total > 0 /\ q.page <= LastPage(answer.total, q.perPage) => answer.rows # {}

SoundCache(c) ==
    DOMAIN c \subseteq Queries /\ \A q \in DOMAIN c : c[q] \in Answers /\ Filled(q, c[q])

Lowers(r, q) == r = [q EXCEPT !.page = r.page] /\ r.page <= q.page

(* Where an answer that is up to date lets a query be.                      *)
Within(q, c) == Busy(q, c) \/ q.page <= LastPage(c[q].total, q.perPage)

LEMMA ClampedStops ==
    ASSUME NEW url \in URLs, NEW c, SoundCache(c)
    PROVE  LET q == ParseListQuery(url) IN
           /\ Clamped(url, c) = url => Within(q, c)
           /\ Clamped(url, c) # url =>
                 \E n \in 1 .. q.page : /\ n < q.page
                                       /\ Clamped(url, c) = ToSearchParams([q EXCEPT !.page = n])
                                       /\ [q EXCEPT !.page = n] \in Queries
  <1> DEFINE q == ParseListQuery(url)
             last == LastPage(c[q].total, q.perPage)
             r == [q EXCEPT !.page = last]
  <1>0. q \in Queries /\ q.page \in Nat /\ q.page # 0 /\ q.perPage \in Nat \ {0}
    <2>1. q \in Queries
      BY ParsedIsAQuery
    <2> HIDE DEF q
    <2> QED
      BY <2>1, PageOfAQuery, IncidentListAssumption DEF Queries
  <1>1. Clamped(url, c) = IF Busy(q, c) \/ q.page <= last THEN url ELSE ToSearchParams(r)
    BY DEF Clamped
  <1>2. ~Busy(q, c) => last \in Pages
    BY <1>0, LastPageIsAPage DEF Busy, Known, SoundCache, Answers
  <1>3. Within(q, c) <=> Busy(q, c) \/ q.page <= last
    BY DEF Within
  <1>4. last \in Pages => r \in Queries /\ r.page = last
    BY <1>0 DEF Queries
  <1>5. q = ParseListQuery(url) /\ r = [q EXCEPT !.page = last]
    OBVIOUS
  <1> HIDE DEF q, last, r
  <1>6. CASE Within(q, c)
    BY <1>1, <1>3, <1>5, <1>6
  <1>7. CASE ~Within(q, c)
    <2>1. last \in Pages /\ ~(q.page <= last)
      BY <1>2, <1>3, <1>7
    <2>2. last \in Nat /\ last # 0
      BY <2>1, PageNumbers
    <2>3. last \in 1 .. q.page /\ last < q.page
      BY <1>0, <2>1, <2>2
    <2>4. r \in Queries /\ r.page = last /\ ParseListQuery(ToSearchParams(r)) = r
      BY <1>4, <2>1, ReadsBack DEF HasAURL
    <2>5. Clamped(url, c) = ToSearchParams(r)
      BY <1>1, <1>3, <1>7
    <2>6. Clamped(url, c) # url
      <3>1. q = ParseListQuery(url)
        BY <1>5
      <3>2. q # r
        BY <2>3, <2>4
      <3> QED
        BY <2>4, <2>5, <3>1, <3>2
    <2> QED
      BY <1>5, <2>3, <2>4, <2>5, <2>6
  <1> QED
    BY <1>5, <1>6, <1>7

(* A set of numbers that is not empty has a least element. *)
LEMMA LeastNumber ==
    ASSUME NEW S \in SUBSET Nat, S # {}
    PROVE  \E m \in S : \A n \in S : m <= n
  <1> DEFINE R == OpToRel(<, Nat)
  <1>1. IsWellFoundedOn(R, Nat)
    BY NatLessThanWellFounded
  <1>2. \A x, y \in Nat : <<y, x>> \in R <=> y < x
    BY DEF OpToRel
  <1> HIDE DEF R
  <1>3. PICK m \in S : \A n \in S : ~(<<n, m>> \in R)
    BY <1>1, WFMin
  <1>4. ASSUME NEW n \in S PROVE m <= n
    <2>1. m \in Nat /\ n \in Nat
      OBVIOUS
    <2>2. ~(n < m)
      BY <1>2, <1>3, <2>1
    <2> QED
      BY <2>1, <2>2
  <1> QED
    BY <1>3, <1>4

(* Each rendering lowers the page, so the effect comes to rest. *)
LEMMA FittedLowers ==
    ASSUME NEW url \in URLs, NEW c, SoundCache(c)
    PROVE  /\ Fitted(url, c) \in URLs
           /\ ParseListQuery(Fitted(url, c)) \in Queries
           /\ Lowers(ParseListQuery(Fitted(url, c)), ParseListQuery(url))
           /\ Within(ParseListQuery(Fitted(url, c)), c)
  <1> DEFINE q == ParseListQuery(url)
             lower == {url} \cup {ToSearchParams([q EXCEPT !.page = n]) : n \in 1 .. q.page}
             R == Renderings(url, c)
  <1>1. q \in Queries /\ q.page \in Nat /\ q.page # 0 /\ q.page \in Pages
    <2>1. q \in Queries
      BY ParsedIsAQuery
    <2> HIDE DEF q
    <2> QED
      BY <2>1, PageOfAQuery
  <1>2. \A n \in 1 .. q.page : n \in Pages /\ [q EXCEPT !.page = n] \in Queries
    <2>1. \A n \in 1 .. q.page : n \in Pages
      BY <1>1, PagesAreOneTo
    <2> HIDE DEF q
    <2> QED
      BY <1>1, <2>1 DEF Queries
  <1>3. q = ParseListQuery(url)
    OBVIOUS
  <1>4. R = {u \in lower : \A V \in SUBSET lower :
                 url \in V /\ (\A v \in V : Clamped(v, c) \in V) => u \in V}
    BY DEF Renderings
  <1>5. /\ url \in lower
        /\ \A n \in 1 .. q.page : ToSearchParams([q EXCEPT !.page = n]) \in lower
        /\ \A u \in lower : u = url \/ \E n \in 1 .. q.page : u = ToSearchParams([q EXCEPT !.page = n])
    OBVIOUS
  <1> HIDE DEF q, R, lower
  <1>6. ASSUME NEW u \in lower
        PROVE  /\ u \in URLs /\ ParseListQuery(u) \in Queries
               /\ ParseListQuery(u) = [q EXCEPT !.page = ParseListQuery(u).page]
               /\ ParseListQuery(u).page \in 1 .. q.page
    <2>1. CASE u = url
      BY <1>1, <1>3, <2>1 DEF Queries
    <2>2. ASSUME NEW n \in 1 .. q.page, u = ToSearchParams([q EXCEPT !.page = n])
          PROVE  /\ u \in URLs /\ ParseListQuery(u) = [q EXCEPT !.page = n]
                 /\ [q EXCEPT !.page = n] \in Queries /\ [q EXCEPT !.page = n].page = n
      <3>1. [q EXCEPT !.page = n] \in Queries /\ [q EXCEPT !.page = n].page = n
        BY <1>1, <1>2 DEF Queries
      <3> QED
        BY <2>2, <3>1, WrittenIsAURL, ReadsBack DEF HasAURL
    <2> QED
      BY <1>5, <2>1, <2>2
  <1>7. ASSUME NEW u \in lower, Clamped(u, c) # u
        PROVE  /\ Clamped(u, c) \in lower
               /\ ParseListQuery(Clamped(u, c)).page < ParseListQuery(u).page
    <2> DEFINE p == ParseListQuery(u)
    <2>1. /\ u \in URLs /\ p \in Queries
          /\ p = [q EXCEPT !.page = p.page] /\ p.page \in 1 .. q.page
      BY <1>6
    <2>2. PICK n \in 1 .. p.page : /\ n < p.page
                                   /\ Clamped(u, c) = ToSearchParams([p EXCEPT !.page = n])
                                   /\ [p EXCEPT !.page = n] \in Queries
      BY <1>7, <2>1, ClampedStops
    <2> HIDE DEF p
    <2>3. [p EXCEPT !.page = n] = [q EXCEPT !.page = n]
      BY <1>1, <2>1 DEF Queries
    <2>4. n \in 1 .. q.page /\ [p EXCEPT !.page = n].page = n
      BY <1>1, <2>1, <2>2 DEF Queries
    <2>5. ParseListQuery(Clamped(u, c)) = [p EXCEPT !.page = n]
      BY <2>2, ReadsBack DEF HasAURL
    <2> QED
      BY <1>5, <2>2, <2>3, <2>4, <2>5 DEF p
  <1>8. url \in R /\ R \subseteq lower /\ \A u \in R : Clamped(u, c) \in R
    BY <1>4, <1>5, <1>7
  <1>9. \E u \in R : Clamped(u, c) = u
    <2> DEFINE numbers == {ParseListQuery(u).page : u \in R}
    <2>1. numbers \in SUBSET Nat /\ numbers # {}
      BY <1>1, <1>6, <1>8
    <2>2. PICK m \in numbers : \A n \in numbers : m <= n
      BY <2>1, LeastNumber
    <2>3. PICK u \in R : m = ParseListQuery(u).page
      BY <2>2
    <2>4. CASE Clamped(u, c) # u
      <3>1. Clamped(u, c) \in R /\ ParseListQuery(Clamped(u, c)).page < m
        BY <1>7, <1>8, <2>3, <2>4
      <3>2. ParseListQuery(Clamped(u, c)).page \in numbers
        BY <3>1
      <3> HIDE DEF numbers
      <3>3. m \in Nat /\ ParseListQuery(Clamped(u, c)).page \in Nat
        BY <2>1, <3>2
      <3>4. m <= ParseListQuery(Clamped(u, c)).page
        BY <2>2, <3>2
      <3> QED
        BY <3>1, <3>3, <3>4
    <2> QED
      BY <2>3, <2>4
  <1>10. Fitted(url, c) \in R /\ Clamped(Fitted(url, c), c) = Fitted(url, c)
    BY <1>9 DEF Fitted, R
  <1>11. Fitted(url, c) \in lower
    BY <1>8, <1>10
  <1>12. /\ Fitted(url, c) \in URLs /\ ParseListQuery(Fitted(url, c)) \in Queries
         /\ ParseListQuery(Fitted(url, c)) = [q EXCEPT !.page = ParseListQuery(Fitted(url, c)).page]
         /\ ParseListQuery(Fitted(url, c)).page <= q.page
    BY <1>1, <1>6, <1>11
  <1>13. Within(ParseListQuery(Fitted(url, c)), c)
    BY <1>10, <1>12, ClampedStops
  <1> QED
    BY <1>3, <1>12, <1>13 DEF Lowers

-----------------------------------------------------------------------------
(* The invariant: the URL remembered is that of the list on screen, or of   *)
(* the list that was on screen last.                                        *)

Entries == [page : {"list"}, url : URLs] \cup [page : {"workspace"}, incident : Incidents]

Placed ==
    /\ history \in Seq(Entries) /\ at \in 1 .. Len(history) /\ remembered \in URLs
    /\ OnList => remembered = history[at].url /\ Within(Query, cache)
    /\ SoundCache(cache) /\ fetching \subseteq Queries /\ box[1] \in Words

Inductive == Placed /\ DOMAIN server \subseteq Incidents /\ request \in Requests \cup {None}

View == IF OnList THEN Query ELSE ParseListQuery(remembered)
Trail == {ParseListQuery(e.url) : e \in {history[n] : n \in {m \in 1 .. Len(history) :
                                                       history[m].page = "list"}}}
         \cup {ParseListQuery(remembered)}

(* The views that a history h remembers, apart from its entry n.            *)
Remembers(h, n, v) ==
    \E m \in 1 .. Len(h) \ {n} : h[m].page = "list" /\ v = ParseListQuery(h[m].url)

LEMMA ViewIsRemembered ==
    ASSUME Placed
    PROVE  View = ParseListQuery(remembered) /\ View \in Queries
  BY ParsedIsAQuery DEF Placed, View, Query, OnList

LEMMA TrailRemembers ==
    ASSUME Placed
    PROVE  \A v : v \in Trail <=> v = View \/ Remembers(history, at, v)
  BY ViewIsRemembered DEF Placed, Trail, Remembers, OnList

(* The same of the state after a step. *)
LEMMA PlacedNext ==
    ASSUME Placed'
    PROVE  /\ View' = ParseListQuery(remembered') /\ View' \in Queries
           /\ \A v : v \in Trail' <=> v = View' \/ Remembers(history', at', v)
  <1>1. View' = ParseListQuery(remembered') /\ View' \in Queries
    BY ParsedIsAQuery DEF Placed, View, Query, OnList
  <1>2. \A v : v \in Trail' <=> v = View' \/ Remembers(history', at', v)
    BY <1>1 DEF Placed, Trail, Remembers, OnList
  <1> QED
    BY <1>1, <1>2

(* What a render of entry n of history h with cache c leaves.               *)
LEMMA ShowPlaces ==
    ASSUME Placed, NEW h \in Seq(Entries), NEW n \in 1 .. Len(h), NEW c, SoundCache(c),
           Show(h, n, c)
    PROVE  /\ Placed'
           /\ IF h[n].page = "list"
              THEN Lowers(ParseListQuery(remembered'), ParseListQuery(h[n].url))
              ELSE remembered' = remembered
           /\ \A v : Remembers(history', at', v) => Remembers(h, n, v)
  <1>1. CASE h[n].page = "list"
    <2> DEFINE url == Fitted(h[n].url, c)
    <2>0. h[n] \in Entries
      OBVIOUS
    <2>1. h[n].url \in URLs
      BY <1>1, <2>0 DEF Entries
    <2>2. url \in URLs /\ ParseListQuery(url) \in Queries
            /\ Lowers(ParseListQuery(url), ParseListQuery(h[n].url))
            /\ Within(ParseListQuery(url), c)
      BY <2>1, FittedLowers
    <2>3. /\ history' = [h EXCEPT ![n] = ListAt(url)] /\ at' = n /\ cache' = c
          /\ remembered' = url
          /\ fetching' \subseteq fetching \cup {ParseListQuery(url)}
          /\ box' = box \/ box' = <<ParseListQuery(url).search, FALSE>>
      BY <1>1 DEF Show
    <2> HIDE DEF url
    <2>4. ListAt(url) \in Entries /\ ListAt(url).page = "list" /\ ListAt(url).url = url
      BY <2>2 DEF ListAt, Entries
    <2>5. /\ history' \in Seq(Entries) /\ Len(history') = Len(h)
          /\ history'[n] = ListAt(url)
          /\ \A m \in 1 .. Len(h) : m # n => history'[m] = h[m]
      BY <2>3, <2>4
    <2>6. box'[1] \in Words /\ fetching' \subseteq Queries
      <3>1. ParseListQuery(url).search \in Words
        BY <2>2 DEF Queries
      <3>2. box[1] \in Words /\ fetching \subseteq Queries
        BY DEF Placed
      <3>3. <<ParseListQuery(url).search, FALSE>>[1] = ParseListQuery(url).search
        OBVIOUS
      <3> QED
        BY <2>2, <2>3, <3>1, <3>2, <3>3
    <2>7. \A v : Remembers(history', at', v) => Remembers(h, n, v)
      BY <2>3, <2>5 DEF Remembers
    <2>8. Query' = ParseListQuery(url)
      BY <2>3, <2>4, <2>5 DEF Query
    <2>9. Placed'
      BY <2>2, <2>3, <2>4, <2>5, <2>6, <2>8 DEF Placed, OnList, Within, Busy, Known
    <2> QED
      BY <1>1, <2>2, <2>3, <2>7, <2>9
  <1>2. CASE h[n].page # "list"
    <2>1. /\ history' = h /\ at' = n /\ cache' = c
          /\ UNCHANGED <<remembered, box, fetching>>
      BY <1>2 DEF Show
    <2> QED
      BY <1>2, <2>1 DEF Placed, OnList
  <1> QED
    BY <1>1, <1>2

(* Where a push, a replacement and a render of the present entry lead.      *)
Leads(entry) ==
    /\ Placed'
    /\ IF entry.page = "list" THEN Lowers(View', ParseListQuery(entry.url)) ELSE View' = View
    /\ View' \in Queries /\ Trail' \subseteq Trail \cup {View'}

LEMMA ShowLeads ==
    ASSUME Placed, NEW h \in Seq(Entries), NEW n \in 1 .. Len(h), NEW c, SoundCache(c),
           \A v : Remembers(h, n, v) => v \in Trail, Show(h, n, c)
    PROVE  Leads(h[n])
  <1>1. /\ Placed'
        /\ IF h[n].page = "list"
           THEN Lowers(ParseListQuery(remembered'), ParseListQuery(h[n].url))
           ELSE remembered' = remembered
        /\ \A v : Remembers(history', at', v) => Remembers(h, n, v)
    BY ShowPlaces
  <1>2. View = ParseListQuery(remembered)
    BY ViewIsRemembered
  <1>3. View' = ParseListQuery(remembered') /\ View' \in Queries
    BY <1>1, PlacedNext
  <1>4. \A v : v \in Trail' => v = View' \/ Remembers(history', at', v)
    BY <1>1, PlacedNext
  <1> QED
    BY <1>1, <1>2, <1>3, <1>4 DEF Leads

LEMMA StayLeads ==
    ASSUME Placed, NEW n \in 1 .. Len(history), NEW c, SoundCache(c), Show(history, n, c)
    PROVE  Leads(history[n])
  <1>1. history \in Seq(Entries) /\ \A v : Remembers(history, n, v) => v \in Trail
    BY DEF Placed, Remembers, Trail
  <1> QED
    BY <1>1, ShowLeads

LEMMA ReplaceLeads ==
    ASSUME Placed, NEW entry \in Entries, NEW c, SoundCache(c), Replace(entry, c)
    PROVE  Leads(entry)
  <1> DEFINE h == [history EXCEPT ![at] = entry]
  <1>1. history \in Seq(Entries) /\ at \in 1 .. Len(history)
    BY DEF Placed
  <1>2. /\ h \in Seq(Entries) /\ Len(h) = Len(history) /\ h[at] = entry
        /\ \A m \in 1 .. Len(h) : m # at => h[m] = history[m]
    BY <1>1
  <1>3. Show(h, at, c)
    BY DEF Replace
  <1> HIDE DEF h
  <1>4. \A v : Remembers(h, at, v) => v \in Trail
    BY <1>1, <1>2 DEF Remembers, Trail
  <1>5. at \in 1 .. Len(h)
    BY <1>1, <1>2
  <1> QED
    BY <1>2, <1>3, <1>4, <1>5, ShowLeads

LEMMA PushLeads ==
    ASSUME Placed, NEW entry \in Entries, NEW c, SoundCache(c), Push(entry, c)
    PROVE  Leads(entry)
  <1> DEFINE kept == IF at = MaxHistory THEN SubSeq(history, 2, at) ELSE SubSeq(history, 1, at)
             h == Append(kept, entry)
  <1>1. history \in Seq(Entries) /\ at \in 1 .. Len(history)
    BY DEF Placed
  <1>2. /\ kept \in Seq(Entries)
        /\ \A m \in 1 .. Len(kept) : \E k \in 1 .. Len(history) : kept[m] = history[k]
    <2>1. CASE at = MaxHistory
      <3>1. kept = SubSeq(history, 2, at)
        BY <2>1
      <3>2. SubSeq(history, 2, at) \in Seq(Entries)
        BY <1>1, SubSeqProperties
      <3>3. Len(SubSeq(history, 2, at)) = at - 1
        BY <1>1, SubSeqProperties
      <3>4. \A m \in 1 .. at - 1 : SubSeq(history, 2, at)[m] = history[m + 1]
        BY <1>1, SubSeqProperties
      <3>5. \A m \in 1 .. at - 1 : m + 1 \in 1 .. Len(history)
        BY <1>1
      <3> QED
        BY <3>1, <3>2, <3>3, <3>4, <3>5
    <2>2. CASE at # MaxHistory
      <3>1. kept = SubSeq(history, 1, at)
        BY <2>2
      <3>2. SubSeq(history, 1, at) \in Seq(Entries)
        BY <1>1, SubSeqProperties
      <3>3. Len(SubSeq(history, 1, at)) = at
        BY <1>1, SubSeqProperties
      <3>4. \A m \in 1 .. at : SubSeq(history, 1, at)[m] = history[m]
        BY <1>1, SubSeqProperties
      <3>5. \A m \in 1 .. at : m \in 1 .. Len(history)
        BY <1>1
      <3> QED
        BY <3>1, <3>2, <3>3, <3>4, <3>5
    <2> QED
      BY <2>1, <2>2
  <1>3. Show(h, Len(kept) + 1, c)
    BY DEF Push
  <1> HIDE DEF kept
  <1>4. /\ h \in Seq(Entries) /\ Len(h) = Len(kept) + 1 /\ h[Len(kept) + 1] = entry
        /\ \A m \in 1 .. Len(kept) : h[m] = kept[m]
        /\ Len(kept) \in Nat
    BY <1>2, AppendProperties, LenProperties
  <1> HIDE DEF h
  <1>5. \A m \in 1 .. Len(h) \ {Len(kept) + 1} : m \in 1 .. Len(kept)
    BY <1>4
  <1>6. \A v : Remembers(h, Len(kept) + 1, v) => v \in Trail
    BY <1>2, <1>4, <1>5 DEF Remembers, Trail
  <1>7. Len(kept) + 1 \in 1 .. Len(h)
    BY <1>4
  <1> QED
    BY <1>3, <1>4, <1>6, <1>7, ShowLeads

-----------------------------------------------------------------------------
(* The steps of ListView, in the terms of the tab. *)

Narrowed ==
    /\ View' \in Queries
    /\ \E aspect \in {"perPage", "status", "search", "sorting"} :
          View' = [View EXCEPT ![aspect] = View'[aspect], !.page = 1]
Turned == View' \in Queries /\ View' = [View EXCEPT !.page = View'.page]
Revisited == \E v \in Trail \cup {DefaultQuery} :
                 View'.page <= v.page /\ View' = [v EXCEPT !.page = View'.page]
Moved == /\ Narrowed \/ Turned \/ Revisited
         /\ Trail' \subseteq Trail \cup {View, View', DefaultQuery}

LEMMA EntriesOfURLs ==
    /\ \A url \in URLs : /\ ListAt(url) \in Entries /\ ListAt(url).page = "list"
                         /\ ListAt(url).url = url
    /\ \A i \in Incidents : Workspace(i) \in Entries /\ Workspace(i).page # "list"
  BY DEF ListAt, Workspace, Entries

(* Nothing but the page may change when the view stays. *)
LEMMA StaysTurned ==
    ASSUME Placed, View' \in Queries, View' = View \/ Lowers(View', View)
    PROVE  Turned
  <1>1. View \in Queries
    BY ViewIsRemembered
  <1> QED
    BY <1>1 DEF Turned, Lowers, Queries

(* A workspace is opened, or the list on screen is rendered again.          *)
LEMMA WorkspaceMoves ==
    ASSUME Placed, NEW i \in Incidents, NEW c, SoundCache(c), Push(Workspace(i), c)
    PROVE  Placed' /\ Moved
  <1>1. Leads(Workspace(i)) /\ Workspace(i).page # "list"
    BY PushLeads, EntriesOfURLs
  <1>2. Turned
    BY <1>1, StaysTurned DEF Leads
  <1> QED
    BY <1>1, <1>2 DEF Leads, Moved

LEMMA RenderMoves ==
    ASSUME Placed, NEW c, SoundCache(c), Show(history, at, c)
    PROVE  Placed' /\ Moved
  <1>1. at \in 1 .. Len(history)
    BY DEF Placed
  <1>2. Leads(history[at])
    BY <1>1, StayLeads
  <1>3. CASE OnList
    <2>1. View = ParseListQuery(history[at].url)
      BY <1>3 DEF View, Query
    <2>2. Turned
      BY <1>2, <1>3, <2>1, StaysTurned DEF Leads, OnList
    <2> QED
      BY <1>2, <2>2 DEF Leads, Moved
  <1>4. CASE ~OnList
    <2>1. Turned
      BY <1>2, <1>4, StaysTurned DEF Leads, OnList
    <2> QED
      BY <1>2, <2>1 DEF Leads, Moved
  <1> QED
    BY <1>3, <1>4

(* A new query goes through its URL and is the view, but for the page.      *)
LEMMA QueryLeads ==
    ASSUME Placed, NEW q \in Queries,
           \/ Push(ListAt(ToSearchParams(q)), cache)
           \/ Replace(ListAt(ToSearchParams(q)), cache)
    PROVE  /\ Placed' /\ Lowers(View', q)
           /\ View' \in Queries /\ Trail' \subseteq Trail \cup {View'}
  <1>1. ListAt(ToSearchParams(q)) \in Entries /\ ListAt(ToSearchParams(q)).page = "list"
        /\ ListAt(ToSearchParams(q)).url = ToSearchParams(q)
    BY WrittenIsAURL, EntriesOfURLs
  <1>2. SoundCache(cache)
    BY DEF Placed
  <1>3. Leads(ListAt(ToSearchParams(q)))
    BY <1>1, <1>2, PushLeads, ReplaceLeads
  <1>4. ParseListQuery(ToSearchParams(q)) = q
    BY ReadsBack DEF HasAURL
  <1> QED
    BY <1>1, <1>3, <1>4 DEF Leads

-----------------------------------------------------------------------------
(* The user's clicks. *)

Updated(q, change) ==
    [f \in DOMAIN q |-> IF f \in DOMAIN change THEN change[f] ELSE IF f = "page" THEN 1 ELSE q[f]]

LEMMA UpdatedQueries ==
    ASSUME NEW q \in Queries
    PROVE  /\ \A s \in Filters :
                 Updated(q, [status |-> s]) = [q EXCEPT !.status = s, !.page = 1]
           /\ \A t \in Sortings :
                 Updated(q, [sorting |-> t]) = [q EXCEPT !.sorting = t, !.page = 1]
           /\ \A n \in PageSizes :
                 Updated(q, [perPage |-> n]) = [q EXCEPT !.perPage = n, !.page = 1]
           /\ \A w \in Words :
                 Updated(q, [search |-> w]) = [q EXCEPT !.search = w, !.page = 1]
           /\ \A p \in Pages : Updated(q, [page |-> p]) = [q EXCEPT !.page = p]
  <1>0. DOMAIN q = {"page", "perPage", "status", "search", "sorting"}
    BY DEF Queries
  <1>1. ASSUME NEW s \in Filters
        PROVE  Updated(q, [status |-> s]) = [q EXCEPT !.status = s, !.page = 1]
    <2>1. DOMAIN [status |-> s] = {"status"} /\ [status |-> s]["status"] = s
      OBVIOUS
    <2> QED
      BY <1>0, <2>1 DEF Updated
  <1>2. ASSUME NEW t \in Sortings
        PROVE  Updated(q, [sorting |-> t]) = [q EXCEPT !.sorting = t, !.page = 1]
    <2>1. DOMAIN [sorting |-> t] = {"sorting"} /\ [sorting |-> t]["sorting"] = t
      OBVIOUS
    <2> QED
      BY <1>0, <2>1 DEF Updated
  <1>3. ASSUME NEW n \in PageSizes
        PROVE  Updated(q, [perPage |-> n]) = [q EXCEPT !.perPage = n, !.page = 1]
    <2>1. DOMAIN [perPage |-> n] = {"perPage"} /\ [perPage |-> n]["perPage"] = n
      OBVIOUS
    <2> QED
      BY <1>0, <2>1 DEF Updated
  <1>4. ASSUME NEW w \in Words
        PROVE  Updated(q, [search |-> w]) = [q EXCEPT !.search = w, !.page = 1]
    <2>1. DOMAIN [search |-> w] = {"search"} /\ [search |-> w]["search"] = w
      OBVIOUS
    <2> QED
      BY <1>0, <2>1 DEF Updated
  <1>5. ASSUME NEW p \in Pages PROVE Updated(q, [page |-> p]) = [q EXCEPT !.page = p]
    <2>1. DOMAIN [page |-> p] = {"page"} /\ [page |-> p]["page"] = p
      OBVIOUS
    <2> QED
      BY <1>0, <2>1 DEF Updated
  <1> QED
    BY <1>1, <1>2, <1>3, <1>4, <1>5

LEMMA UpdateNavigates ==
    ASSUME NEW change, NEW replace \in BOOLEAN, UpdateQuery(change, replace)
    PROVE  \/ Push(ListAt(ToSearchParams(Updated(Query, change))), cache)
           \/ Replace(ListAt(ToSearchParams(Updated(Query, change))), cache)
  BY DEF UpdateQuery, Updated

LEMMA NarrowMoves ==
    ASSUME Placed, OnList, NEW q \in Queries,
           NEW aspect \in {"perPage", "status", "search", "sorting"},
           q = [Query EXCEPT ![aspect] = q[aspect], !.page = 1],
           \/ Push(ListAt(ToSearchParams(q)), cache)
           \/ Replace(ListAt(ToSearchParams(q)), cache)
    PROVE  Placed' /\ Moved
  <1>1. Query \in Queries /\ View = Query
    BY ViewIsRemembered DEF View
  <1>2. q.page = 1
    BY <1>1 DEF Queries
  <1>3. /\ Placed' /\ Lowers(View', q)
        /\ View' \in Queries /\ Trail' \subseteq Trail \cup {View'}
    BY QueryLeads
  <1>4. View'.page = 1
    <2>1. View'.page \in Nat /\ View'.page # 0
      BY <1>3, PageOfAQuery
    <2>2. View'.page <= 1
      BY <1>2, <1>3 DEF Lowers
    <2> QED
      BY <2>1, <2>2, OneIsTheFirst
  <1>5. View' = q
    BY <1>2, <1>3, <1>4 DEF Lowers, Queries
  <1>6. Narrowed
    BY <1>1, <1>3, <1>5 DEF Narrowed
  <1> QED
    BY <1>3, <1>6 DEF Moved

LEMMA ClicksMove ==
    ASSUME Placed, OnList,
           \/ \E s \in Filters : UpdateQuery([status |-> s], FALSE)
           \/ \E t \in Sortings : UpdateQuery([sorting |-> t], FALSE)
           \/ \E n \in PageSizes : UpdateQuery([perPage |-> n], FALSE)
           \/ \E w \in Words : UpdateQuery([search |-> w], TRUE)
    PROVE  Placed' /\ Moved
  <1>0. Query \in Queries
    BY ViewIsRemembered DEF View
  <1>1. ASSUME NEW s \in Filters, UpdateQuery([status |-> s], FALSE) PROVE Placed' /\ Moved
    <2> DEFINE q == Updated(Query, [status |-> s])
    <2>1. q = [Query EXCEPT !.status = s, !.page = 1]
      BY ZenonT(40), <1>0, UpdatedQueries
    <2>2. Push(ListAt(ToSearchParams(q)), cache) \/ Replace(ListAt(ToSearchParams(q)), cache)
      BY <1>1, UpdateNavigates
    <2> HIDE DEF q
    <2>3. q \in Queries /\ q = [Query EXCEPT !.status = q.status, !.page = 1]
      BY <1>0, <2>1, PagesAreOneTo DEF Queries
    <2> QED
      BY <2>2, <2>3, NarrowMoves
  <1>2. ASSUME NEW t \in Sortings, UpdateQuery([sorting |-> t], FALSE) PROVE Placed' /\ Moved
    <2> DEFINE q == Updated(Query, [sorting |-> t])
    <2>1. q = [Query EXCEPT !.sorting = t, !.page = 1]
      BY <1>0, UpdatedQueries
    <2>2. Push(ListAt(ToSearchParams(q)), cache) \/ Replace(ListAt(ToSearchParams(q)), cache)
      BY <1>2, UpdateNavigates
    <2> HIDE DEF q
    <2>3. q \in Queries /\ q = [Query EXCEPT !.sorting = q.sorting, !.page = 1]
      BY <1>0, <2>1, PagesAreOneTo DEF Queries
    <2> QED
      BY <2>2, <2>3, NarrowMoves
  <1>3. ASSUME NEW n \in PageSizes, UpdateQuery([perPage |-> n], FALSE) PROVE Placed' /\ Moved
    <2> DEFINE q == Updated(Query, [perPage |-> n])
    <2>1. q = [Query EXCEPT !.perPage = n, !.page = 1]
      BY <1>0, UpdatedQueries
    <2>2. Push(ListAt(ToSearchParams(q)), cache) \/ Replace(ListAt(ToSearchParams(q)), cache)
      BY <1>3, UpdateNavigates
    <2> HIDE DEF q
    <2>3. q \in Queries /\ q = [Query EXCEPT !.perPage = q.perPage, !.page = 1]
      BY <1>0, <2>1, PagesAreOneTo DEF Queries
    <2> QED
      BY <2>2, <2>3, NarrowMoves
  <1>4. ASSUME NEW w \in Words, UpdateQuery([search |-> w], TRUE) PROVE Placed' /\ Moved
    <2> DEFINE q == Updated(Query, [search |-> w])
    <2>1. q = [Query EXCEPT !.search = w, !.page = 1]
      BY <1>0, UpdatedQueries
    <2>2. Push(ListAt(ToSearchParams(q)), cache) \/ Replace(ListAt(ToSearchParams(q)), cache)
      BY <1>4, UpdateNavigates
    <2> HIDE DEF q
    <2>3. q \in Queries /\ q = [Query EXCEPT !.search = q.search, !.page = 1]
      BY <1>0, <2>1, PagesAreOneTo DEF Queries
    <2> QED
      BY <2>2, <2>3, NarrowMoves
  <1> QED
    BY <1>1, <1>2, <1>3, <1>4

(* Turning a page. *)
LEMMA PageMoves ==
    ASSUME Placed, NEW p \in Pages, ChoosePage(p)
    PROVE  Placed' /\ Moved
  <1> DEFINE q == Updated(Query, [page |-> p])
  <1>0. OnList /\ Query \in Queries /\ View = Query /\ UpdateQuery([page |-> p], FALSE)
    BY ViewIsRemembered DEF View, ChoosePage, Click
  <1>1. q = [Query EXCEPT !.page = p]
    BY <1>0, UpdatedQueries
  <1>2. Push(ListAt(ToSearchParams(q)), cache) \/ Replace(ListAt(ToSearchParams(q)), cache)
    BY <1>0, UpdateNavigates
  <1> HIDE DEF q
  <1>3. q \in Queries
    BY <1>0, <1>1 DEF Queries
  <1>4. /\ Placed' /\ Lowers(View', q)
        /\ View' \in Queries /\ Trail' \subseteq Trail \cup {View'}
    BY <1>2, <1>3, QueryLeads
  <1>5. View' = [View EXCEPT !.page = View'.page]
    BY <1>0, <1>1, <1>4 DEF Lowers, Queries
  <1> QED
    BY <1>4, <1>5 DEF Moved, Turned

(* The ways back: the TopBar, the navigation and the browser.               *)
LEMMA BackMoves ==
    ASSUME Placed, BackToList
    PROVE  Placed' /\ Moved
  <1>1. /\ remembered \in URLs /\ SoundCache(cache) /\ Push(ListAt(remembered), cache)
    BY DEF Placed, BackToList
  <1>2. Leads(ListAt(remembered))
    BY <1>1, PushLeads, EntriesOfURLs
  <1>3. View = ParseListQuery(ListAt(remembered).url) /\ ListAt(remembered).page = "list"
    BY <1>1, ViewIsRemembered, EntriesOfURLs
  <1>4. Turned
    BY <1>2, <1>3, StaysTurned DEF Leads
  <1> QED
    BY <1>2, <1>4 DEF Leads, Moved

LEMMA MenuMoves ==
    ASSUME Placed, GoToList
    PROVE  Placed' /\ Moved
  <1>1. SoundCache(cache) /\ Push(ListAt(BareURL), cache)
    BY DEF Placed, GoToList
  <1>2. /\ BareURL \in URLs /\ ListAt(BareURL) \in Entries /\ ListAt(BareURL).page = "list"
        /\ ParseListQuery(ListAt(BareURL).url) = DefaultQuery
    BY BareIsTheDefault, EntriesOfURLs
  <1>3. Leads(ListAt(BareURL))
    BY <1>1, <1>2, PushLeads
  <1>4. Revisited
    BY <1>2, <1>3 DEF Leads, Revisited, Lowers
  <1> QED
    BY <1>3, <1>4 DEF Leads, Moved

LEMMA BrowseMoves ==
    ASSUME Placed, NEW n \in 1 .. MaxHistory, Browse(n)
    PROVE  Placed' /\ Moved
  <1>1. n \in 1 .. Len(history) /\ SoundCache(cache) /\ Show(history, n, cache)
    BY DEF Placed, Browse
  <1>2. Leads(history[n])
    BY <1>1, StayLeads
  <1>3. CASE history[n].page = "list"
    <2>1. ParseListQuery(history[n].url) \in Trail
      BY <1>1, <1>3 DEF Trail
    <2>2. Revisited
      BY <1>2, <1>3, <2>1 DEF Leads, Revisited, Lowers
    <2> QED
      BY <1>2, <2>2 DEF Leads, Moved
  <1>4. CASE history[n].page # "list"
    <2>1. Turned
      BY <1>2, <1>4, StaysTurned DEF Leads
    <2> QED
      BY <1>2, <2>1 DEF Leads, Moved
  <1> QED
    BY <1>3, <1>4

-----------------------------------------------------------------------------
(* Answers, and what moves the tab without the user. *)

LEMMA AnswersAreSound ==
    ASSUME NEW q, DOMAIN server \subseteq Incidents
    PROVE  AnswerOf(q) \in Answers
  <1>1. Hits(q) \subseteq Incidents /\ RowsOf(q) \subseteq Incidents
    BY DEF Hits, RowsOf
  <1>2. Cardinality(Incidents) \in Nat /\ Cardinality(Hits(q)) \in Nat
        /\ Cardinality(Hits(q)) <= Cardinality(Incidents)
    BY <1>1, IncidentListAssumption, FS_Subset, FS_CardinalityType
  <1>3. Cardinality(Hits(q)) \in 0 .. Cardinality(Incidents)
    BY <1>2
  <1> QED
    BY <1>1, <1>3 DEF AnswerOf, Answers

(* In a finite total order (B[i]: what comes before i), some element has any *)
(* number of others before it that is less than how many there are.          *)
LEMMA EveryRankIsTaken ==
    ASSUME NEW S, IsFiniteSet(S), NEW B \in [S -> SUBSET S],
           \A i \in S : i \notin B[i],
           \A i, j \in S : i = j \/ i \in B[j] \/ j \in B[i],
           \A i, j \in S : i \in B[j] => B[i] \subseteq B[j],
           NEW k \in Nat, k < Cardinality(S)
    PROVE  \E i \in S : Cardinality(B[i]) = k
  <1> DEFINE n == Cardinality(S)
             T == 0 .. n - 1
             rank == [i \in S |-> Cardinality(B[i])]
  <1>1. n \in Nat /\ k \in T /\ \A m \in Nat : m < n => m \in T
    BY FS_CardinalityType
  <1>2. ASSUME NEW i \in S
        PROVE  IsFiniteSet(B[i]) /\ Cardinality(B[i]) \in Nat /\ Cardinality(B[i] \cup {i}) = Cardinality(B[i]) + 1
    <2>1. IsFiniteSet(B[i])
      BY FS_Subset
    <2> QED
      BY <2>1, FS_CardinalityType, FS_AddElement
  <1>3. ASSUME NEW i \in S, NEW V \in SUBSET S, B[i] \cup {i} \subseteq V
        PROVE  Cardinality(B[i]) < Cardinality(V)
    <2>1. IsFiniteSet(V)
      BY FS_Subset
    <2>2. Cardinality(V) \in Nat /\ Cardinality(B[i] \cup {i}) <= Cardinality(V)
      BY <1>3, <2>1, FS_CardinalityType, FS_Subset
    <2> QED
      BY <1>2, <2>2
  <1>4. rank \in [S -> T]
    <2>1. ASSUME NEW i \in S PROVE Cardinality(B[i]) \in T
      <3>1. S \in SUBSET S /\ B[i] \cup {i} \subseteq S
        OBVIOUS
      <3>2. Cardinality(B[i]) < n
        BY <1>3, <3>1
      <3> HIDE DEF n, T
      <3> QED
        BY <1>1, <1>2, <3>2
    <2> QED
      BY <2>1
  <1>5. ASSUME NEW i \in S, NEW j \in S, i # j PROVE rank[i] # rank[j]
    <2>1. ASSUME NEW x \in S, NEW y \in S, x \in B[y] PROVE Cardinality(B[x]) < Cardinality(B[y])
      <3>1. B[y] \in SUBSET S /\ B[x] \cup {x} \subseteq B[y]
        BY <2>1
      <3> QED
        BY <1>3, <3>1
    <2>2. Cardinality(B[i]) < Cardinality(B[j]) \/ Cardinality(B[j]) < Cardinality(B[i])
      BY <1>5, <2>1
    <2>3. Cardinality(B[i]) \in Nat /\ Cardinality(B[j]) \in Nat
      BY <1>2
    <2>4. Cardinality(B[i]) # Cardinality(B[j])
      BY <2>2, <2>3
    <2>5. rank[i] = Cardinality(B[i]) /\ rank[j] = Cardinality(B[j])
      OBVIOUS
    <2> QED
      BY <2>4, <2>5
  <1> HIDE DEF rank
  <1>6. rank \in Injection(S, T)
    <2>1. \A i, j \in S : rank[i] = rank[j] => i = j
      BY <1>5
    <2> QED
      BY <1>4, <2>1 DEF Injection, IsInjective
  <1>7. IsFiniteSet(T) /\ Cardinality(T) = n
    BY <1>1, FS_Interval
  <1>8. rank \in Surjection(S, T)
    BY <1>6, <1>7, FS_Injection
  <1>9. \E i \in S : rank[i] = k
    BY <1>1, <1>8 DEF Surjection
  <1> QED
    BY <1>9 DEF rank

(* The first place of a page that exists is a place among those found. *)
LEMMA PageStartsWithin ==
    ASSUME NEW total \in Nat, total > 0, NEW perPage \in Nat \ {0}, NEW page \in Nat \ {0},
           page <= LastPage(total, perPage)
    PROVE  LET k == (page - 1) * perPage IN
           k \in Nat /\ k < total /\ k \in k .. page * perPage - 1
  <1> DEFINE last == (total + perPage - 1) \div perPage
             k == (page - 1) * perPage
  <1>1. last \in Int /\ last * perPage <= total + perPage - 1
    BY SMT
  <1>2. page <= last
    BY DEF LastPage
  <1> HIDE DEF last
  <1>3. page * perPage <= last * perPage
    BY <1>1, <1>2, SMT
  <1>4. k \in Nat /\ page * perPage = k + perPage
    BY SMT
  <1> QED
    BY <1>1, <1>3, <1>4, SMT

LEMMA AnswersAreFilled ==
    ASSUME NEW q \in Queries, DOMAIN server \subseteq Incidents
    PROVE  Filled(q, AnswerOf(q))
  <1> DEFINE S == Hits(q)
             total == Cardinality(S)
             B == [i \in S |-> {j \in S : IF q.sorting.order = "asc" THEN j < i ELSE j > i}]
             k == (q.page - 1) * q.perPage
  <1> SUFFICES ASSUME total > 0, q.page <= LastPage(total, q.perPage)
               PROVE  RowsOf(q) # {}
    BY DEF Filled, AnswerOf
  <1>1. S \subseteq Incidents /\ S \subseteq Nat /\ IsFiniteSet(S) /\ total \in Nat
    <2>1. S \subseteq Incidents
      BY DEF Hits
    <2>2. IsFiniteSet(S)
      BY <2>1, IncidentListAssumption, FS_Subset
    <2> QED
      BY <2>1, <2>2, IncidentListAssumption, FS_CardinalityType
  <1>2. q.page \in Nat \ {0} /\ q.perPage \in Nat \ {0}
    BY PageOfAQuery, IncidentListAssumption DEF Queries
  <1>3. k \in Nat /\ k < total /\ k \in k .. q.page * q.perPage - 1
    BY <1>1, <1>2, PageStartsWithin
  <1>4. /\ B \in [S -> SUBSET S]
        /\ \A i \in S : i \notin B[i]
        /\ \A i, j \in S : i = j \/ i \in B[j] \/ j \in B[i]
        /\ \A i, j \in S : i \in B[j] => B[i] \subseteq B[j]
    BY <1>1
  <1>5. PICK i \in S : Cardinality(B[i]) = k
    <2> HIDE DEF B, S, k
    <2>1. k < Cardinality(S) /\ IsFiniteSet(S) /\ k \in Nat
      BY <1>1, <1>3
    <2> QED
      BY <1>4, <2>1, EveryRankIsTaken
  <1> DEFINE Before == {j \in Hits(q) : IF q.sorting.order = "asc" THEN j < i ELSE j > i}
  <1>6. B[i] = Before
    OBVIOUS
  <1>7. i \in S /\ Cardinality(Before) \in k .. q.page * q.perPage - 1
    <2> HIDE DEF B, Before, S
    <2> QED
      BY <1>3, <1>5, <1>6, Zenon
  <1>8. i \in RowsOf(q)
    BY <1>7, Zenon DEF RowsOf
  <1> QED
    BY <1>8

LEMMA InvalidatedIsSound ==
    ASSUME SoundCache(cache)
    PROVE  SoundCache(Invalidated)
  <1>1. DOMAIN Invalidated = DOMAIN cache
    BY DEF Invalidated
  <1>2. ASSUME NEW q \in DOMAIN cache
        PROVE  Invalidated[q] \in Answers /\ Filled(q, Invalidated[q])
    BY DEF Invalidated, SoundCache, Answers, Filled
  <1> QED
    BY <1>1, <1>2 DEF SoundCache

LEMMA AnswerMoves ==
    ASSUME Inductive, NEW q \in fetching, Answer(q)
    PROVE  Placed' /\ Moved
  <1> DEFINE c == [k \in DOMAIN cache \cup {q} |-> IF k = q THEN AnswerOf(q) ELSE cache[k]]
  <1>0. Placed /\ q \in Queries /\ at \in 1 .. Len(history) /\ history \in Seq(Entries)
    BY DEF Inductive, Placed
  <1>1. SoundCache(c)
    <2>1. AnswerOf(q) \in Answers /\ Filled(q, AnswerOf(q))
      BY <1>0, AnswersAreSound, AnswersAreFilled DEF Inductive
    <2> QED
      BY <1>0, <2>1 DEF Placed, SoundCache
  <1>2. cache' = c /\ at' = at /\ box' = box
    BY DEF Answer
  <1>3. CASE OnList
    <2> DEFINE url == Fitted(history[at].url, c)
    <2>0. history[at] \in Entries /\ history[at].page = "list"
      BY <1>0, <1>3 DEF OnList
    <2>1. history[at].url \in URLs /\ View = ParseListQuery(history[at].url)
      BY <1>3, <2>0 DEF Entries, View, Query
    <2>2. url \in URLs /\ ParseListQuery(url) \in Queries /\ Lowers(ParseListQuery(url), View)
          /\ Within(ParseListQuery(url), c)
      BY <1>1, <2>1, FittedLowers
    <2>3. /\ history' = [history EXCEPT ![at] = ListAt(url)] /\ remembered' = url
          /\ fetching' \subseteq fetching \cup {ParseListQuery(url)}
      BY <1>3 DEF Answer
    <2> HIDE DEF url, c
    <2>4. ListAt(url) \in Entries /\ ListAt(url).page = "list" /\ ListAt(url).url = url
      BY <2>2, EntriesOfURLs
    <2>5. /\ history' \in Seq(Entries) /\ Len(history') = Len(history)
          /\ history'[at] = ListAt(url)
          /\ \A m \in 1 .. Len(history) : m # at => history'[m] = history[m]
      BY <1>0, <2>3, <2>4
    <2>6. fetching' \subseteq Queries /\ box'[1] \in Words
      BY <1>0, <1>2, <2>2, <2>3 DEF Placed
    <2>7. Placed'
      <3>1. Query' = ParseListQuery(url)
        BY <1>2, <2>4, <2>5 DEF Query
      <3>2. Within(Query, cache)'
        BY <1>2, <2>2, <3>1 DEF Within, Busy, Known
      <3> QED
        BY <1>0, <1>1, <1>2, <2>2, <2>3, <2>4, <2>5, <2>6, <3>2 DEF Placed, OnList
    <2>8. View' = ParseListQuery(url) /\ View' \in Queries
      BY <2>3, <2>7, PlacedNext
    <2>9. Trail' \subseteq Trail \cup {View'}
      <3>1. \A v : Remembers(history', at', v) => Remembers(history, at, v)
        BY <1>2, <2>5 DEF Remembers
      <3> QED
        BY <1>0, <2>7, <3>1, PlacedNext, TrailRemembers
    <2> QED
      BY <1>0, <2>2, <2>7, <2>8, <2>9, StaysTurned DEF Moved
  <1>4. CASE ~OnList
    <2>1. UNCHANGED <<history, remembered>> /\ fetching' \subseteq fetching
      BY <1>4 DEF Answer
    <2> HIDE DEF c
    <2>2. Placed'
      BY <1>0, <1>1, <1>2, <1>4, <2>1 DEF Placed, OnList
    <2>3. View' = View /\ Trail' = Trail
      BY <1>2, <2>1 DEF View, Trail, OnList, Query
    <2>4. View' \in Queries
      BY <2>2, PlacedNext
    <2> QED
      BY <1>0, <2>2, <2>3, <2>4, StaysTurned DEF Moved
  <1> QED
    BY <1>3, <1>4

(* Steps that leave the history alone. *)
LEMMA StandsStill ==
    ASSUME Placed, UNCHANGED <<history, at, remembered>>,
           SoundCache(cache'), cache' = cache \/ cache' = Invalidated,
           fetching' \subseteq Queries, box'[1] \in Words
    PROVE  Placed' /\ View' = View /\ Trail' = Trail
  <1>1. OnList' = OnList /\ Query' = Query
    BY DEF OnList, Query
  <1>2. Within(Query, cache) => Within(Query, Invalidated)
    BY DEF Within, Busy, Known, Invalidated
  <1>3. Within(Query, cache)' <=> Within(Query, cache')
    BY <1>1 DEF Within, Busy, Known
  <1>4. Within(Query, cache) => Within(Query, cache)'
    BY <1>2, <1>3
  <1>5. OnList' => remembered' = history'[at'].url /\ Within(Query, cache)'
    BY <1>1, <1>4 DEF Placed
  <1>6. Placed'
    BY <1>5 DEF Placed
  <1>7. View' = View /\ Trail' = Trail
    BY <1>1 DEF View, Trail
  <1> QED
    BY <1>6, <1>7

Steps == Inductive' /\ (Moved \/ (View' = View /\ Trail' = Trail))

LEMMA UserSteps ==
    ASSUME Inductive,
           \/ \E s \in Filters : ChooseStatus(s)
           \/ \E key \in SortKeys : ClickHeader(key)
           \/ \E p \in Pages : ChoosePage(p)
           \/ \E n \in PageSizes : ChoosePerPage(n)
           \/ SearchTimer
           \/ \E i \in Incidents : OpenIncident(i)
           \/ BackToList
           \/ GoToList
           \/ \E n \in 1 .. MaxHistory : Browse(n)
    PROVE  Steps
  <1>1. UNCHANGED <<request, server>>
    BY DEF ChooseStatus, ClickHeader, ChoosePage, ChoosePerPage, SearchTimer, OpenIncident,
           BackToList, GoToList, Browse
  <1>2. Placed /\ SoundCache(cache) /\ box[1] \in Words
    BY DEF Inductive, Placed
  <1>3. ASSUME NEW key \in SortKeys, ClickHeader(key)
        PROVE  OnList /\ HandleSort(key) \in Sortings /\ UpdateQuery([sorting |-> HandleSort(key)], FALSE)
    BY <1>3 DEF ClickHeader, Click, HandleSort, Sortings, FirstClickOrder
  <1>4. ASSUME \/ \E s \in Filters : ChooseStatus(s)
               \/ \E key \in SortKeys : ClickHeader(key)
               \/ \E n \in PageSizes : ChoosePerPage(n)
               \/ SearchTimer
        PROVE  Placed' /\ Moved
    <2>1. /\ OnList
          /\ \/ \E s \in Filters : UpdateQuery([status |-> s], FALSE)
             \/ \E t \in Sortings : UpdateQuery([sorting |-> t], FALSE)
             \/ \E n \in PageSizes : UpdateQuery([perPage |-> n], FALSE)
             \/ \E w \in Words : UpdateQuery([search |-> w], TRUE)
      BY <1>2, <1>3, <1>4 DEF ChooseStatus, ChoosePerPage, SearchTimer, SearchDue, Click
    <2> QED
      BY <1>2, <2>1, ClicksMove
  <1>5. ASSUME NEW i \in Incidents, OpenIncident(i) PROVE Placed' /\ Moved
    BY <1>2, <1>5, WorkspaceMoves DEF OpenIncident
  <1>6. Placed' /\ Moved
    BY <1>2, <1>4, <1>5, PageMoves, BackMoves, MenuMoves, BrowseMoves
  <1> QED
    BY <1>1, <1>6 DEF Steps, Inductive

LEMMA SucceedSteps ==
    ASSUME Inductive, Succeed
    PROVE  Steps
  <1>0. Placed /\ SoundCache(cache) /\ SoundCache(Invalidated)
    BY InvalidatedIsSound DEF Inductive, Placed
  <1>1. request \in Requests /\ request.incident \in Incidents /\ request' = None
        /\ request.kind \in {"delete", "create", "pickup"}
    BY DEF Succeed, Inductive, Requests
  <1>2. DOMAIN server' \subseteq Incidents
    BY <1>1 DEF Succeed, Inductive
  <1>3. Push(Workspace(request.incident), Invalidated) \/ Show(history, at, Invalidated)
    BY <1>1 DEF Succeed
  <1>4. Placed' /\ Moved
    BY <1>0, <1>1, <1>3, WorkspaceMoves, RenderMoves
  <1> QED
    BY <1>1, <1>2, <1>4 DEF Steps, Inductive

LEMMA OtherSteps ==
    ASSUME Inductive,
           \/ \E w \in Words : \E space \in BOOLEAN : Type(w, space)
           \/ \E d \in Dialogs : Ask(d)
           \/ Cancel
           \/ EditTitle
           \/ \E r \in Requests : Send(r)
           \/ Fail
           \/ Refocus
           \/ \E i \in Incidents : Close(i)
           \/ \E i \in Incidents : Remove(i)
           \/ UNCHANGED vars
    PROVE  Steps
  <1>0. Placed /\ SoundCache(cache) /\ SoundCache(Invalidated) /\ DOMAIN server \subseteq Incidents
        /\ fetching \subseteq Queries /\ box[1] \in Words /\ request \in Requests \cup {None}
    BY InvalidatedIsSound DEF Inductive, Placed
  <1>1. UNCHANGED <<history, at, remembered>>
    BY DEF Type, Ask, Cancel, EditTitle, Send, Fail, Refocus, Close, Remove, Foreign, vars
  <1>2. box'[1] \in Words
    <2>1. ASSUME NEW w \in Words, NEW space \in BOOLEAN, Type(w, space) PROVE box'[1] \in Words
      <3>1. box' = <<w, space>>
        BY <2>1 DEF Type
      <3>2. <<w, space>>[1] = w
        OBVIOUS
      <3> QED
        BY <3>1, <3>2
    <2>2. CASE ~\E w \in Words : \E space \in BOOLEAN : Type(w, space)
      <3>1. UNCHANGED box
        BY <2>2 DEF Ask, Cancel, EditTitle, Send, Fail, Refocus, Close, Remove, Foreign, vars
      <3> QED
        BY <1>0, <3>1
    <2> QED
      BY <2>1, <2>2
  <1>3. cache' = cache \/ cache' = Invalidated
    BY DEF Type, Ask, Cancel, EditTitle, Send, Fail, Refocus, Close, Remove, Foreign, vars
  <1>4. fetching' \subseteq Queries
    <2>1. CASE Refocus
      <3>1. Query \in Queries
        BY <1>0, <2>1, ViewIsRemembered DEF Refocus, View
      <3> QED
        BY <1>0, <2>1, <3>1 DEF Refocus
    <2>2. CASE ~Refocus
      BY <1>0, <2>2 DEF Type, Ask, Cancel, EditTitle, Send, Fail, Close, Remove, Foreign, vars
    <2> QED
      BY <2>1, <2>2
  <1>5. request' \in Requests \cup {None}
    <2>1. ASSUME NEW r \in Requests, Send(r) PROVE request' \in Requests
      BY <2>1 DEF Send
    <2>2. CASE Fail
      BY <2>2 DEF Fail
    <2>3. CASE ~Fail /\ ~\E r \in Requests : Send(r)
      <3>1. UNCHANGED request
        BY <2>3 DEF Type, Ask, Cancel, EditTitle, Refocus, Close, Remove, Foreign, vars
      <3> QED
        BY <1>0, <3>1
    <2> QED
      BY <2>1, <2>2, <2>3
  <1>6. DOMAIN server' \subseteq Incidents
    BY <1>0 DEF Type, Ask, Cancel, EditTitle, Send, Fail, Refocus, Close, Remove, Foreign, vars
  <1>7. SoundCache(cache')
    BY <1>0, <1>3
  <1>8. Placed' /\ View' = View /\ Trail' = Trail
    BY <1>0, <1>1, <1>2, <1>3, <1>4, <1>7, StandsStill
  <1> QED
    BY <1>5, <1>6, <1>8 DEF Steps, Inductive

LEMMA AnswerSteps ==
    ASSUME Inductive, NEW q \in fetching, Answer(q)
    PROVE  Steps
  <1>1. UNCHANGED <<server, request>>
    BY DEF Answer
  <1> QED
    BY <1>1, AnswerMoves DEF Steps, Inductive

LEMMA EveryStep ==
    ASSUME Inductive, [Next]_vars
    PROVE  Steps
  BY UserSteps, SucceedSteps, OtherSteps, AnswerSteps DEF Next

LEMMA InitInductive ==
    ASSUME Init
    PROVE  Inductive /\ View \in Queries /\ Trail = {View}
  <1>1. PICK url \in Links : /\ history = <<ListAt(url)>> /\ remembered = url
                             /\ box = <<url.search, FALSE>> /\ fetching = {ParseListQuery(url)}
    BY DEF Init
  <1>2. url \in URLs /\ url.search \in Words /\ ParseListQuery(url) \in Queries
    BY LinksAssumption, ParsedIsAQuery DEF URLs
  <1>3. ListAt(url) \in Entries /\ ListAt(url).page = "list" /\ ListAt(url).url = url
    BY <1>2, EntriesOfURLs
  <1>4. /\ history \in Seq(Entries) /\ Len(history) = 1 /\ history[1] = ListAt(url)
        /\ at = 1 /\ box[1] = url.search
    BY <1>1, <1>3 DEF Init
  <1>5. SoundCache(cache)
    BY DEF Init, SoundCache
  <1>6. Placed
    <2>1. Within(Query, cache)
      BY DEF Init, Within, Busy, Known
    <2> QED
      BY <1>1, <1>2, <1>3, <1>4, <1>5, <2>1 DEF Placed, OnList
  <1>7. Inductive
    BY <1>6 DEF Init, Inductive
  <1>8. \A v : ~Remembers(history, at, v)
    BY <1>4 DEF Remembers
  <1> QED
    BY <1>6, <1>7, <1>8, ViewIsRemembered, TrailRemembers

-----------------------------------------------------------------------------
(* Results. *)

LEMMA InductiveHolds == Spec => []Inductive
  <1>1. Init => Inductive
    BY InitInductive
  <1>2. Inductive /\ [Next]_vars => Inductive'
    BY EveryStep DEF Steps
  <1> QED
    BY <1>1, <1>2, PTL DEF Spec

(* Whatever page, size, filter, search and order a click leads to, its URL   *)
(* is read back as that view.                                                *)
THEOREM ViewsHaveURLs == Spec => []EveryViewHasAURL
  <1>1. Inductive => EveryViewHasAURL
    <2> SUFFICES ASSUME Inductive, OnList PROVE EveryViewHasAURL
      BY DEF EveryViewHasAURL
    <2>1. Query \in Queries
      BY ViewIsRemembered DEF Inductive, View
    <2>2. /\ \A p \in Pages : [Query EXCEPT !.page = p] \in Queries
          /\ \A n \in PageSizes : [Query EXCEPT !.perPage = n] \in Queries
          /\ \A s \in Filters : [Query EXCEPT !.status = s] \in Queries
          /\ \A w \in Words : [Query EXCEPT !.search = w] \in Queries
          /\ \A s \in Sortings : [Query EXCEPT !.sorting = s] \in Queries
      BY <2>1 DEF Queries
    <2> QED
      BY <2>2, ReadsBack DEF EveryViewHasAURL
  <1> QED
    BY <1>1, InductiveHolds, PTL

(* Whatever is deleted here or elsewhere, whatever link is followed and in   *)
(* whatever order answers come: a list that has matching incidents shows     *)
(* some once its answer is up to date.                                       *)
THEOREM NoPageIsEmpty == Spec => []NoEmptyPage
  <1>1. Inductive => NoEmptyPage
    <2> SUFFICES ASSUME Inductive, OnList, ~Busy(Query, cache), cache[Query].total > 0
                 PROVE  Rows # {}
      BY DEF NoEmptyPage
    <2>1. Query \in DOMAIN cache /\ Query.page <= LastPage(cache[Query].total, Query.perPage)
      BY DEF Inductive, Placed, Within, Busy, Known
    <2>2. Filled(Query, cache[Query])
      BY <2>1 DEF Inductive, Placed, SoundCache
    <2> QED
      BY <2>1, <2>2 DEF Filled, Rows, Known
  <1> QED
    BY <1>1, InductiveHolds, PTL

(* The tab implements ListView: through clicks, timers, late answers,       *)
(* dialogs, the browser's buttons and other analysts' changes the view only *)
(* ever narrows, turns a page, or comes back to one it had.                 *)
THEOREM ImplementsItsPromise == Spec => ImplementsListView
  <1>1. Init => Promise!Init
    BY InitInductive DEF Promise!Init, View, Trail
  <1>2. Inductive /\ [Next]_vars => [Promise!Next]_(Promise!vars)
    <2> SUFFICES ASSUME Inductive, [Next]_vars PROVE [Promise!Next]_(Promise!vars)
      OBVIOUS
    <2>1. CASE Moved
      <3>1. CASE Narrowed
        BY <2>1, <3>1 DEF Moved, Narrowed, View, Trail, Promise!Next, Promise!Narrow, Promise!Aspects
      <3>2. CASE Turned
        BY <2>1, <3>2 DEF Moved, Turned, View, Trail, Promise!Next, Promise!Turn
      <3>3. CASE Revisited
        BY <2>1, <3>3 DEF Moved, Revisited, View, Trail, Promise!Next, Promise!Revisit
      <3> QED
        BY <2>1, <3>1, <3>2, <3>3 DEF Moved
    <2>2. CASE View' = View /\ Trail' = Trail
      BY <2>2 DEF View, Trail, Promise!vars
    <2> QED
      BY <2>1, <2>2, EveryStep DEF Steps
  <1> QED
    BY <1>1, <1>2, InductiveHolds, PTL DEF Spec, ImplementsListView, Promise!Spec

-----------------------------------------------------------------------------
(* Types.  Besides the invariant: the history keeps to its length, and a    *)
(* view without an answer that is up to date has been asked for.            *)

HistoryFits == Len(history) <= MaxHistory
BoxTyped == box \in Words \X BOOLEAN
AskedFor == OnList /\ Busy(Query, cache) => Query \in fetching
Fits == HistoryFits /\ BoxTyped /\ AskedFor
RestTyped ==
    /\ dialog \in Dialogs \cup {None} /\ titled \in BOOLEAN
    /\ \A i \in DOMAIN server : server[i] \in {"open", "closed"}

LEMMA ShowFits ==
    ASSUME Placed', Fits, NEW S, NEW h \in Seq(S), NEW n \in 1 .. Len(h), NEW c,
           Len(h) <= MaxHistory, Show(h, n, c)
    PROVE  Fits'
  <1>1. CASE h[n].page = "list"
    <2> DEFINE url == Fitted(h[n].url, c)
    <2>1. /\ history' = [h EXCEPT ![n] = ListAt(url)] /\ at' = n /\ cache' = c /\ remembered' = url
          /\ box' = box \/ box' = <<ParseListQuery(url).search, FALSE>>
          /\ Busy(ParseListQuery(url), c) => ParseListQuery(url) \in fetching'
      BY <1>1 DEF Show
    <2> HIDE DEF url
    <2>2. Len(history') = Len(h) /\ history'[n] = ListAt(url)
      BY <2>1
    <2>3. Query' = ParseListQuery(url)
      BY <2>1, <2>2 DEF Query, ListAt
    <2>4. ParseListQuery(url).search \in Words
      BY <2>1, ParsedIsAQuery DEF Placed, Queries
    <2>5. BoxTyped'
      <3>1. <<ParseListQuery(url).search, FALSE>> \in Words \X BOOLEAN
        BY <2>4
      <3> QED
        BY <2>1, <3>1 DEF Fits, BoxTyped
    <2> QED
      BY <2>1, <2>2, <2>3, <2>5 DEF Fits, HistoryFits, AskedFor, Busy, Known
  <1>2. CASE h[n].page # "list"
    BY <1>2 DEF Show, Fits, HistoryFits, BoxTyped, AskedFor, OnList
  <1> QED
    BY <1>1, <1>2

LEMMA HistoryBound == MaxHistory \in Nat /\ MaxHistory >= 1
  <1>1. MaxHistory \in Nat \ {0}
    BY IncidentListAssumption, Zenon
  <1> QED
    BY <1>1

LEMMA PushFits ==
    ASSUME Placed, Placed', Fits, NEW entry, NEW c, Push(entry, c)
    PROVE  Fits'
  <1> DEFINE kept == IF at = MaxHistory THEN SubSeq(history, 2, at) ELSE SubSeq(history, 1, at)
             h == Append(kept, entry)
             S == Entries \cup {entry}
  <1>1. history \in Seq(Entries) /\ at \in 1 .. Len(history) /\ Len(history) \in Nat
        /\ Len(history) <= MaxHistory /\ MaxHistory \in Nat
    BY HistoryBound DEF Placed, Fits, HistoryFits
  <1>2. kept \in Seq(Entries) /\ Len(kept) \in Nat /\ Len(kept) + 1 <= MaxHistory
    <2>1. CASE at = MaxHistory
      <3>1. SubSeq(history, 2, at) \in Seq(Entries) /\ Len(SubSeq(history, 2, at)) = at - 1
        BY <1>1, SubSeqProperties
      <3> QED
        BY <1>1, <2>1, <3>1
    <2>2. CASE at # MaxHistory
      <3>1. SubSeq(history, 1, at) \in Seq(Entries) /\ Len(SubSeq(history, 1, at)) = at
        BY <1>1, SubSeqProperties
      <3> QED
        BY <1>1, <2>2, <3>1
    <2> QED
      BY <2>1, <2>2
  <1>3. Show(h, Len(kept) + 1, c)
    BY DEF Push
  <1> HIDE DEF kept
  <1>4. h \in Seq(S) /\ Len(h) = Len(kept) + 1
    BY <1>2, AppendProperties
  <1>5. Len(kept) + 1 \in 1 .. Len(h)
    BY <1>2, <1>4
  <1> HIDE DEF h, S
  <1> QED
    BY <1>2, <1>3, <1>4, <1>5, ShowFits

LEMMA StayFits ==
    ASSUME Placed, Placed', Fits, NEW n \in 1 .. Len(history), NEW c, Show(history, n, c)
    PROVE  Fits'
  BY ShowFits DEF Placed, Fits, HistoryFits

LEMMA ReplaceFits ==
    ASSUME Placed, Placed', Fits, NEW entry, NEW c, Replace(entry, c)
    PROVE  Fits'
  <1> DEFINE h == [history EXCEPT ![at] = entry]
             S == Entries \cup {entry}
  <1>1. h \in Seq(S) /\ Len(h) = Len(history) /\ at \in 1 .. Len(h)
    BY DEF Placed
  <1>2. Show(h, at, c)
    BY DEF Replace
  <1> HIDE DEF h, S
  <1> QED
    BY <1>1, <1>2, ShowFits DEF Fits, HistoryFits

LEMMA UpdateFits ==
    ASSUME Placed, Placed', Fits, NEW change, NEW replace \in BOOLEAN, UpdateQuery(change, replace)
    PROVE  Fits'
  BY UpdateNavigates, PushFits, ReplaceFits

LEMMA AnswerFits ==
    ASSUME Fits, Placed, Placed', NEW q \in fetching, Answer(q)
    PROVE  Fits'
  <1> DEFINE c == [k \in DOMAIN cache \cup {q} |-> IF k = q THEN AnswerOf(q) ELSE cache[k]]
             url == Fitted(history[at].url, c)
  <1>1. at' = at /\ box' = box /\ cache' = c
    BY DEF Answer
  <1>2. CASE OnList
    <2>1. /\ history' = [history EXCEPT ![at] = ListAt(url)]
          /\ Busy(ParseListQuery(url), c) => ParseListQuery(url) \in fetching'
      BY <1>2 DEF Answer
    <2> HIDE DEF url, c
    <2>2. Len(history') = Len(history) /\ history'[at] = ListAt(url)
      BY <2>1 DEF Placed
    <2>3. Query' = ParseListQuery(url)
      BY <1>1, <2>2 DEF Query, ListAt
    <2> QED
      BY <1>1, <2>1, <2>2, <2>3 DEF Fits, HistoryFits, BoxTyped, AskedFor, Busy, Known
  <1>3. CASE ~OnList
    <2>1. history' = history
      BY <1>3 DEF Answer
    <2> QED
      BY <1>1, <1>3, <2>1 DEF Fits, HistoryFits, BoxTyped, AskedFor, OnList
  <1> QED
    BY <1>2, <1>3

LEMMA StepFits ==
    ASSUME Inductive, Fits, [Next]_vars
    PROVE  Fits'
  <1>0. Placed /\ Placed'
    BY EveryStep DEF Inductive, Steps
  <1>1. CASE \/ \E s \in Filters : ChooseStatus(s)
             \/ \E key \in SortKeys : ClickHeader(key)
             \/ \E p \in Pages : ChoosePage(p)
             \/ \E n \in PageSizes : ChoosePerPage(n)
             \/ SearchTimer
    <2>1. \E change : \E replace \in BOOLEAN : UpdateQuery(change, replace)
      BY <1>1 DEF ChooseStatus, ClickHeader, ChoosePage, ChoosePerPage, SearchTimer
    <2> QED
      BY <1>0, <2>1, UpdateFits
  <1>2. CASE BackToList \/ GoToList \/ \E i \in Incidents : OpenIncident(i)
    <2>1. \E entry : Push(entry, cache)
      BY <1>2 DEF BackToList, GoToList, OpenIncident
    <2> QED
      BY <1>0, <2>1, PushFits
  <1>3. ASSUME NEW n \in 1 .. MaxHistory, Browse(n) PROVE Fits'
    BY <1>0, <1>3, StayFits DEF Browse
  <1>4. CASE Succeed
    <2>1. Push(Workspace(request.incident), Invalidated) \/ Show(history, at, Invalidated)
      BY <1>4 DEF Succeed, Inductive, Requests
    <2>2. at \in 1 .. Len(history)
      BY <1>0 DEF Placed
    <2> QED
      BY <1>0, <2>1, <2>2, PushFits, StayFits
  <1>5. ASSUME NEW w \in Words, NEW space \in BOOLEAN, Type(w, space) PROVE Fits'
    BY <1>5 DEF Type, Fits, HistoryFits, BoxTyped, AskedFor, OnList, Busy, Known, Query
  <1>6. CASE Refocus
    BY <1>6 DEF Refocus, Fits, HistoryFits, BoxTyped, AskedFor, OnList, Query
  <1>7. ASSUME NEW q \in fetching, Answer(q) PROVE Fits'
    BY <1>0, <1>7, AnswerFits
  <1>8. CASE UNCHANGED <<history, at, box, cache, fetching>>
    BY <1>8 DEF Fits, HistoryFits, BoxTyped, AskedFor, OnList, Busy, Known, Query
  <1>9. CASE \/ \E d \in Dialogs : Ask(d)
             \/ Cancel \/ EditTitle \/ Fail
             \/ \E r \in Requests : Send(r)
             \/ \E i \in Incidents : Close(i) \/ Remove(i)
             \/ UNCHANGED vars
    BY <1>8, <1>9 DEF Ask, Cancel, EditTitle, Fail, Send, Close, Remove, Foreign, vars
  <1> QED
    BY <1>1, <1>2, <1>3, <1>4, <1>5, <1>6, <1>7, <1>9 DEF Next

LEMMA StepRestTyped ==
    ASSUME Inductive, RestTyped, [Next]_vars
    PROVE  RestTyped'
  <1>1. CASE \/ \E s \in Filters : ChooseStatus(s)
             \/ \E key \in SortKeys : ClickHeader(key)
             \/ \E p \in Pages : ChoosePage(p)
             \/ \E n \in PageSizes : ChoosePerPage(n)
             \/ SearchTimer
             \/ \E i \in Incidents : OpenIncident(i)
             \/ BackToList \/ GoToList
             \/ \E w \in Words : \E space \in BOOLEAN : Type(w, space)
             \/ \E r \in Requests : Send(r)
             \/ \E q \in fetching : Answer(q)
             \/ Refocus
             \/ UNCHANGED vars
    <2>1. UNCHANGED <<dialog, titled, server>>
      BY <1>1 DEF ChooseStatus, ClickHeader, ChoosePage, ChoosePerPage, SearchTimer, OpenIncident,
                  BackToList, GoToList, Type, Send, Answer, Refocus, vars
    <2> QED
      BY <2>1 DEF RestTyped
  <1>2. ASSUME NEW n \in 1 .. MaxHistory, Browse(n) PROVE RestTyped'
    BY <1>2 DEF Browse, RestTyped
  <1>3. ASSUME NEW d \in Dialogs, Ask(d) PROVE RestTyped'
    BY <1>3 DEF Ask, RestTyped
  <1>4. CASE Cancel \/ EditTitle
    BY <1>4 DEF Cancel, EditTitle, RestTyped
  <1>5. CASE Succeed
    <2>1. request.kind \in {"delete", "create", "pickup"}
      BY <1>5 DEF Succeed, Inductive, Requests
    <2>2. dialog' \in {dialog, None} /\ titled' \in {titled, FALSE}
          /\ \/ server' = server
             \/ server' = [j \in DOMAIN server \ {request.incident} |-> server[j]]
             \/ server' = [j \in DOMAIN server \cup {request.incident} |->
                             IF j = request.incident THEN "open" ELSE server[j]]
      BY <1>5, <2>1 DEF Succeed
    <2> QED
      BY <2>2 DEF RestTyped
  <1>6. CASE Fail
    BY <1>6 DEF Fail, RestTyped
  <1>7. ASSUME NEW i \in Incidents, Close(i) \/ Remove(i) PROVE RestTyped'
    BY <1>7 DEF Close, Remove, Foreign, RestTyped
  <1> QED
    BY <1>1, <1>2, <1>3, <1>4, <1>5, <1>6, <1>7 DEF Next

LEMMA InitTyped ==
    ASSUME Init
    PROVE  Fits /\ RestTyped
  <1>1. PICK url \in Links : /\ history = <<ListAt(url)>> /\ remembered = url
                             /\ box = <<url.search, FALSE>> /\ fetching = {ParseListQuery(url)}
    BY DEF Init
  <1>2. url.search \in Words /\ at = 1
    <2>1. url \in URLs
      BY LinksAssumption, Zenon
    <2>2. URLs = [page : Pages \cup {0}, perPage : PageSizes \cup {0}, status : Statuses \cup {""},
                  search : Words, sort : SortKeys \cup {""}, order : Orders \cup {""}]
      BY Zenon DEF URLs
    <2> QED
      BY <2>1, <2>2 DEF Init
  <1>3. HistoryFits /\ BoxTyped
    BY <1>1, <1>2, HistoryBound DEF HistoryFits, BoxTyped
  <1>4. Query = ParseListQuery(url)
    BY <1>1, <1>2 DEF Query, ListAt
  <1>5. AskedFor
    BY <1>1, <1>4 DEF AskedFor
  <1> QED
    BY <1>3, <1>5 DEF Init, Fits, RestTyped

(* Types, in every state: the tab's history never grows past its bound, and *)
(* whatever is on screen without an answer that is up to date has been      *)
(* asked for, after every click, timer, answer, mutation and way back.      *)
THEOREM TypeCorrect == Spec => []TypeOK
  <1>1. Init => Fits /\ RestTyped
    BY InitTyped
  <1>2. Inductive /\ Fits /\ RestTyped /\ [Next]_vars => Fits' /\ RestTyped'
    BY StepFits, StepRestTyped
  <1>3. Inductive /\ Fits /\ RestTyped => TypeOK
    BY DEF Inductive, Placed, SoundCache, Answers, Entries, Fits, HistoryFits, BoxTyped, AskedFor,
           RestTyped, TypeOK
  <1> QED
    BY <1>1, <1>2, <1>3, InductiveHolds, PTL DEF Spec

=============================================================================
