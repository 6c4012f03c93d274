------------------------------ MODULE Catalogue ------------------------------
(***************************************************************************)
(* The public catalogue: lists read page by page, similar vehicles,        *)
(* comparison, facets, sitemaps, dealers, guides, charging places and a    *)
(* customer's saved vehicles (src/app/modules/vehicles, dealers, content,  *)
(* charging, users/profile_service.py).                                    *)
(*                                                                         *)
(* A list is two calls, rows and then a count, and a visitor makes them    *)
(* once per page: documents change in between.  Attributes that no         *)
(* operation changes are constants.  Within a page the order is left out;  *)
(* which documents the page holds is not.                                  *)
(***************************************************************************)
EXTENDS Integers, FiniteSets, FiniteSetsExt, Sequences, SequencesExt

CONSTANTS
  Vehicles, Dealers, Guides, Chargers,
  Group,        \* body type of a vehicle, kind of a guide, district of a charger
  Price,        \* agency_price of a vehicle
  Published,    \* the date documents are sorted by
  DealerOf,     \* the dealer of a vehicle, None for a private seller
  Queries,      \* what visitors of the list ask for
  PageSizes,    \* the page sizes they ask for, 0 for none
  FixedSize,    \* the page sizes of the other directories
  DefaultPerPage, MaxPerPage,  \* 24 and 48
  CountCap,     \* 10,000
  MaxPage,      \* 500
  SimilarLimit, \* 6
  FacetLimit,   \* 40
  SavedLimit,   \* 200
  MaxEdits,     \* bound: changes to documents
  None

Items == Vehicles \union Dealers \union Guides \union Chargers

VARIABLES
  state,    \* status of each document; "published" for anything shown that is no vehicle
  deleted,  \* vehicles collection: whether deleted_at is set
  saved,    \* saved_vehicles collection of one customer, oldest first
  edits,    \* how many changes there have been
  visit     \* the visitor: where, what was asked, what was shown

catalogueVars == <<state, deleted, saved, edits, visit>>

VehicleStatus ==
  {"DRAFT", "PENDING_REVIEW", "REJECTED", "AVAILABLE", "RESERVED", "SOLD", "UNPUBLISHED"}
VISIBLE == {"AVAILABLE", "RESERVED", "SOLD", "UNPUBLISHED"}

Collection ==
  [vehicles |-> Vehicles, vehicle_sitemap |-> Vehicles, dealers |-> Dealers,
   guides |-> Guides, guide_sitemap |-> Guides, charging |-> Chargers]
Directories == DOMAIN Collection

\* Directories that are one page, whose total is the number of its rows.
OnePage == {"guide_sitemap", "charging"}

Sorts == {"newest", "price_asc", "price_desc"}

\* No restriction at all.
AnyQuery == [group |-> {}, dealer |-> None, minPrice |-> None, maxPrice |-> None]

ASSUME CatalogueAssumption ==
  /\ {CountCap, MaxPage, SimilarLimit, FacetLimit, SavedLimit, DefaultPerPage, MaxPerPage}
       \subseteq Nat \ {0}
  /\ FixedSize \in [Directories \ {"vehicles"} -> Nat \ {0}]
  /\ PageSizes \subseteq Nat /\ MaxEdits \in Nat
  /\ IsFiniteSet(Items)
  /\ Price \in [Vehicles -> Nat]
  /\ DealerOf \in [Vehicles -> Dealers \union {None}] /\ None \notin Dealers
  /\ AnyQuery \in Queries

Nobody == [at |-> "home", dir |-> "vehicles", query |-> AnyQuery, sort |-> "newest", per |-> 1,
           page |-> 1, rows |-> {}, seen |-> [i \in Items |-> 0], calm |-> TRUE]

\* seed.py: everything is on show.
CatalogueInit ==
  /\ state = [i \in Items |-> IF i \in Vehicles THEN "AVAILABLE" ELSE "published"]
  /\ deleted = [v \in Vehicles |-> FALSE]
  /\ saved = <<>>
  /\ edits = 0
  /\ visit = Nobody

-----------------------------------------------------------------------------
\* What the queries match

IsVisible(i) ==
  IF i \in Vehicles THEN state[i] \in VISIBLE /\ ~deleted[i] ELSE state[i] = "published"

\* _filter: every criterion given has to hold.
Wanted(v, q) ==
  /\ q.group # {} => Group[v] \in q.group
  /\ q.dealer # None => DealerOf[v] = q.dealer
  /\ q.minPrice # None => Price[v] >= q.minPrice
  /\ q.maxPrice # None => Price[v] <= q.maxPrice

Found(dir, q) ==
  {i \in Collection[dir] : IsVisible(i) /\ (dir = "vehicles" => Wanted(i, q))}

\* SORTS: one ascending and one descending key stand for the rest; every other
\* directory is sorted by its own key.
Before(sort, i, j) ==
  CASE sort = "price_asc" -> Price[i] < Price[j]
    [] sort = "price_desc" -> Price[i] > Price[j]
    [] OTHER -> Published[i] > Published[j]

NoneBefore(sort, A, B) == \A a \in A, b \in B : ~Before(sort, a, b)

\* The documents .sort().skip().limit() may return: of those that sort alike the
\* database returns any first, and need not do the same for the next page.
Slices(S, sort, skip, limit) ==
  LET size(n) == Min({n, Cardinality(S)})
      first == size(skip)
  IN {R \in kSubset(size(skip + limit) - first, S) :
        \E P \in kSubset(first, S \ R) :
          /\ NoneBefore(sort, S \ P, P)
          /\ NoneBefore(sort, S \ (P \union R), R)}

\* per_page or 24, from 1 to 48; fixed in the other directories.
PerPage(dir, n) ==
  IF dir # "vehicles" THEN FixedSize[dir]
  ELSE Min({MaxPerPage, Max({1, IF n = 0 THEN DefaultPerPage ELSE n})})

\* count_documents, or the number of rows.
Total(dir, q, rows) ==
  LET n == Cardinality(Found(dir, q)) IN
    CASE dir = "vehicles" -> Min({CountCap, n})
      [] dir \in OnePage -> Cardinality(rows)
      [] OTHER -> n

\* Mutation of TotalPages: a last page that is not full is forgotten.
FullPages(total, per) == Max({1, total \div per})

TotalPages(total, per) == Max({1, (total + per - 1) \div per})

-----------------------------------------------------------------------------
\* A visitor

Enter(dir, q, sort, n) ==
  /\ visit.at = "home"
  /\ dir # "vehicles" => q = AnyQuery /\ sort = "newest" /\ n = 0
  /\ visit' = [Nobody EXCEPT !.at = "rows", !.dir = dir, !.query = q, !.sort = sort,
                             !.per = PerPage(dir, n)]
  /\ UNCHANGED <<state, deleted, saved, edits>>

ReadRows ==
  /\ visit.at = "rows"
  /\ \E R \in Slices(Found(visit.dir, visit.query), visit.sort,
                     (visit.page - 1) * visit.per, visit.per) :
       visit' = [visit EXCEPT !.at = "count", !.rows = R,
                              !.seen = [i \in Items |-> @[i] + (IF i \in R THEN 1 ELSE 0)]]
  /\ UNCHANGED <<state, deleted, saved, edits>>

\* The count comes after the rows; with it the visitor knows whether there is a next
\* page to ask for.  The list of vehicles has no page past the 500th.
CountRows ==
  LET pages == IF visit.dir \in OnePage THEN 1
               ELSE TotalPages(Total(visit.dir, visit.query, visit.rows), visit.per)
      more == visit.page < pages /\ (visit.dir = "vehicles" => visit.page < MaxPage)
  IN
    /\ visit.at = "count"
    /\ visit' = IF more THEN [visit EXCEPT !.at = "rows", !.page = @ + 1]
                ELSE [visit EXCEPT !.at = "end"]
    /\ UNCHANGED <<state, deleted, saved, edits>>

Leave ==
  /\ visit.at = "end"
  /\ visit' = Nobody
  /\ UNCHANGED <<state, deleted, saved, edits>>

\* Orders reserve and sell, the tools around the program publish, withdraw and delete.
Change(i) ==
  /\ edits < MaxEdits
  /\ \/ /\ state' \in {[state EXCEPT ![i] = s] :
                         s \in IF i \in Vehicles THEN {"DRAFT", "AVAILABLE", "SOLD"}
                               ELSE {"published", "draft"}}
        /\ UNCHANGED deleted
     \/ /\ i \in Vehicles
        /\ deleted' = [deleted EXCEPT ![i] = TRUE]
        /\ UNCHANGED state
  /\ edits' = edits + 1
  /\ visit' = [visit EXCEPT !.calm = FALSE]
  /\ UNCHANGED saved

\* An upsert that keeps the first save's time.  Any vehicle that exists can be saved.
SaveVehicle(v) ==
  /\ ~Contains(saved, v)
  /\ saved' = Append(saved, v)
  /\ UNCHANGED <<state, deleted, edits, visit>>

\* delete_one of the row.
UnsaveVehicle(v) ==
  /\ \E i \in DOMAIN saved : saved[i] = v /\ saved' = RemoveAt(saved, i)
  /\ UNCHANGED <<state, deleted, edits, visit>>

-----------------------------------------------------------------------------
\* What other reads answer

\* get_by_slug
Opens(v) == IsVisible(v)

Distance(v, w) == Max({Price[v] - Price[w], Price[w] - Price[v]})

\* Same body type and a price within 30 percent, if there is a price (the code rounds
\* floats down to whole francs).
Comparable(v) ==
  {w \in Vehicles \ {v} :
     /\ IsVisible(w)
     /\ Group[w] = Group[v]
     /\ Price[v] # 0 => Price[w] \in ((7 * Price[v]) \div 10)..((13 * Price[v]) \div 10)}

\* similar: of twice the limit of comparable vehicles, whichever the database returns,
\* the closest.
Similar(v) ==
  LET S == Comparable(v)
      size(n, T) == Min({n, Cardinality(T)})
  IN UNION {{A \in kSubset(size(SimilarLimit, R), R) :
               \A a \in A, b \in R \ A : Distance(v, a) <= Distance(v, b)} :
              R \in kSubset(size(2 * SimilarLimit, S), S)}

\* compare and saved_vehicles look at the status only.  The latest saves come first: of
\* the first SavedLimit of them, the places in this order whose vehicle is shown.
Compare(ids) == {v \in ids : state[v] \in VISIBLE}
Latest(i) == saved[Len(saved) - i + 1]
SavedVehicles == {i \in 1..Min({SavedLimit, Len(saved)}) : state[Latest(i)] \in VISIBLE}

\* Mutation of VehicleCount: whatever has no visible status is left out, deleted or not.
CountDeleted(d) == Cardinality({v \in Vehicles : DealerOf[v] = d /\ state[v] \in VISIBLE})

\* The vehicle_count of a dealer's summary.
VehicleCount(d) ==
  Cardinality({v \in Vehicles : DealerOf[v] = d /\ state[v] \in VISIBLE /\ ~deleted[v]})

\* facets: the largest groups with their sizes, and the bounds of the price, 0 for none.
\* Read at one moment here; the code runs one aggregation per facet.
Facets ==
  LET base == {v \in Vehicles : state[v] \in VISIBLE /\ ~deleted[v]}
      count(g) == Cardinality({v \in base : Group[v] = g})
      groups == {Group[v] : v \in base}
      prices == {Price[v] : v \in base}
  IN {[groups |-> [g \in G |-> count(g)],
       min |-> IF prices = {} THEN 0 ELSE Min(prices),
       max |-> IF prices = {} THEN 0 ELSE Max(prices)] :
        G \in {H \in kSubset(Min({FacetLimit, Cardinality(groups)}), groups) :
                 \A g \in H, h \in groups \ H : count(g) >= count(h)}}

-----------------------------------------------------------------------------
CatalogueNext ==
  \/ \E dir \in Directories, q \in Queries, s \in Sorts, n \in PageSizes : Enter(dir, q, s, n)
  \/ ReadRows \/ CountRows \/ Leave
  \/ \E i \in Items : Change(i)
  \/ \E v \in Vehicles : SaveVehicle(v) \/ UnsaveVehicle(v)

CatalogueSpec == CatalogueInit /\ [][CatalogueNext]_catalogueVars

-----------------------------------------------------------------------------
\* Properties

\* Every variable stays in its type, and nothing has been shown more often than pages
\* were read.
CatalogueTypeOK ==
  /\ \A i \in Items :
       state[i] \in IF i \in Vehicles THEN VehicleStatus ELSE {"published", "draft"}
  /\ deleted \in [Vehicles -> BOOLEAN]
  /\ saved \in Seq(Vehicles)
  /\ edits \in 0..MaxEdits
  /\ visit.at \in {"home", "rows", "count", "end"}
  /\ visit.dir \in Directories
  /\ visit.rows \subseteq Items
  /\ \A i \in Items : visit.seen[i] \in 0..visit.page

\* The sort key tells any two matching documents apart.
NoTies ==
  \A i, j \in Found(visit.dir, visit.query) :
    i # j => Before(visit.sort, i, j) \/ Before(visit.sort, j, i)

\* The count is not capped, the last page not out of reach, the one page not too short.
WithinReach ==
  LET n == Cardinality(Found(visit.dir, visit.query)) IN
    /\ visit.dir = "vehicles" => n <= CountCap /\ n <= MaxPage * visit.per
    /\ visit.dir \in OnePage => n <= visit.per

\* A visitor who reads a directory to its end while no document changes is shown every
\* matching document once, and nothing else.
BrowseSeesAll ==
  visit.at = "end" /\ visit.calm /\ NoTies /\ WithinReach =>
    \A i \in Items :
      visit.seen[i] = IF i \in Found(visit.dir, visit.query) THEN 1 ELSE 0

\* "Ordered by how close the price is": as long as no more than twice the limit compare,
\* no vehicle left out is closer in price than one that is shown.
SimilarAreClosest ==
  \A v \in Vehicles : \A A \in Similar(v) :
    Cardinality(Comparable(v)) <= 2 * SimilarLimit =>
      \A a \in A, b \in Comparable(v) \ A : Distance(v, a) <= Distance(v, b)

\* The reads agree with each other: the counts of dealers and facets are those of the
\* list they lead to; similar vehicles are the closest and can be opened; and so can those
\* compared or saved, each saved one listed once, except that deleted ones still show there.
CatalogueAgrees ==
  /\ \A d \in Dealers :
       VehicleCount(d) = Cardinality(Found("vehicles", [AnyQuery EXCEPT !.dealer = d]))
  /\ \A F \in Facets :
       /\ \A g \in DOMAIN F.groups :
            F.groups[g] = Cardinality(Found("vehicles", [AnyQuery EXCEPT !.group = {g}]))
       /\ Found("vehicles", [AnyQuery EXCEPT !.minPrice = F.min, !.maxPrice = F.max])
            = Found("vehicles", AnyQuery)
  /\ SimilarAreClosest
  /\ \A v \in Vehicles : \A A \in Similar(v) : v \notin A /\ \A w \in A : Opens(w)
  /\ \A v \in Compare(Vehicles) \union {Latest(i) : i \in SavedVehicles} :
       Opens(v) \/ deleted[v]
  /\ \A i, j \in SavedVehicles : Latest(i) = Latest(j) => i = j
=============================================================================
