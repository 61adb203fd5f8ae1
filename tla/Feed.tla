--------------------------------- MODULE Feed ---------------------------------
(***************************************************************************)
(* The gallery: the cards of get_days, and the pages get_day_photos and    *)
(* get_photos cut with load_captures_for_day and load_photos_page of       *)
(* repository.py.  A client asks for page after page; a page takes three   *)
(* queries, each of which sees the table of its own moment; and photos are *)
(* registered, dated and starred all the while.                            *)
(*                                                                         *)
(* Photos are numbered in the order in which the database sorts their      *)
(* names and paths.  PyOrder is Python's order of them, which may be       *)
(* another one: func.lower and the database's collation against casefold   *)
(* and code points.  Names that differ by case only are left out.  A day   *)
(* is a number, and Epoch is 1970-01-01.                                   *)
(***************************************************************************)
EXTENDS Integers, FiniteSets

CONSTANTS
  Shots,       \* photos, as the database sorts their names
  PyOrder,     \* the place of a photo in Python's order
  LastDay,     \* days photos may be taken on: 2..LastDay
  Limit,       \* photos on a page
  MaxChanges   \* bound: changes of the table

ASSUME FeedAssumption ==
  /\ Shots \subseteq Nat /\ IsFiniteSet(Shots)
  /\ PyOrder \in [Shots -> Nat] /\ \A p, q \in Shots : PyOrder[p] = PyOrder[q] => p = q
  /\ LastDay \in Nat \ {0, 1} /\ Limit \in Nat \ {0} /\ MaxChanges \in Nat

NoDate == 0   \* no capture_date, mtime 0 or NULL in capture_day
Epoch  == 1
Dates  == 2..LastDay
Undated == NoDate
AllPhotos == -1
Favourites == -2
Scopes == {AllPhotos, Favourites, Undated} \cup Dates

VARIABLES
  shots,      \* photos with a row
  date,       \* date[p]: capture_date, mtime[p]: the day of mtime
  mtime,
  starred,    \* is_favourite
  changes,
  fPc,        \* where the request is: "idle", "count", "legacy", "rows", "asked"
  scope,      \* what the client pages through: a feed or the card of a day
  offset,
  total,      \* normal_total, then total
  legacy,     \* matching_legacy: entries of rows without a capture_day
  atStart,    \* history: photos on the card when the client opened it
  shown,      \* history: photos it has been shown, and those shown again
  again,
  strayed,    \* history: photos that left their place since then
  departed,   \* history: how many left a place before the offset,
  arrived,    \*          and how many took one
  cut,        \* history: a photo moved while a page was being read
  mixed       \* history: rows were merged that the two orders sort differently

gallery  == <<shots, date, mtime, starred, changes>>
pageRequest == <<fPc, scope, offset, total, legacy>>
view == <<atStart, shown, again>>
shifts == <<strayed, departed, arrived, cut>>
feedVars == <<gallery, pageRequest, view, shifts, mixed>>

\* get_days: the card a photo is counted on.
CardDay(p) == IF date[p] # NoDate THEN date[p] ELSE mtime[p]
OnCard(p, s) ==
  CASE s = AllPhotos -> TRUE [] s = Favourites -> p \in starred [] OTHER -> CardDay(p) = s

\* The column capture_day, which upsert_captures derives.
CaptureDay(p) == IF date[p] # NoDate THEN date[p] ELSE mtime[p]

\* A row without one is shown at the day of its mtime, and 0 is a time, too.
LegacyDay == Epoch
EntryOf(p) == <<IF CaptureDay(p) = NoDate THEN LegacyDay ELSE CaptureDay(p), p>>

\* The filters of the queries.
InPage(p, s) ==
  CASE s = AllPhotos -> TRUE [] s = Favourites -> p \in starred [] OTHER -> EntryOf(p)[1] = s
Normal(s)  == {p \in shots : CaptureDay(p) # NoDate /\ InPage(p, s)}
Legacy(s)  == {p \in shots : CaptureDay(p) = NoDate /\ InPage(p, s)}

FeedRows   == {EntryOf(p) : p \in {q \in shots : InPage(q, scope)}}

\* Newest day first, then by name and path: ORDER BY, and the two sort().
Before(e, f)   == e[1] > f[1] \/ (e[1] = f[1] /\ e[2] < f[2])
PyBefore(e, f) == e[1] > f[1] \/ (e[1] = f[1] /\ PyOrder[e[2]] < PyOrder[f[2]])
OrdersAgree(E) == \A e, f \in E : PyBefore(e, f) <=> Before(e, f)

\* The index of e when E is sorted, and what slices cut out then.
Rank(e, E)   == Cardinality({f \in E : Before(f, e)})
PyRank(e, E) == Cardinality({f \in E : PyBefore(f, e)})
Slice(E, from, to)   == {e \in E : from <= Rank(e, E) /\ Rank(e, E) < to}
PySlice(E, from, to) == {e \in E : from <= PyRank(e, E) /\ PyRank(e, E) < to}

FeedInit ==
  /\ shots \in SUBSET Shots
  /\ date \in [Shots -> {NoDate} \cup Dates] /\ mtime \in [Shots -> {NoDate, LastDay}]
  /\ \A p \in Shots \ shots : date[p] = NoDate /\ mtime[p] = NoDate
  /\ starred \in {{}, shots}
  /\ changes = 0
  /\ fPc = "idle" /\ scope = AllPhotos /\ offset = 0 /\ total = 0 /\ legacy = {}
  /\ atStart = {} /\ shown = {} /\ again = {}
  /\ strayed = {} /\ departed = 0 /\ arrived = 0 /\ cut = FALSE /\ mixed = FALSE

-----------------------------------------------------------------------------
\* The client opens a feed, or a card.
Open(s) ==
  /\ fPc = "idle"
  /\ fPc' = "count"
  /\ scope' = s /\ offset' = 0
  /\ atStart' = {p \in shots : OnCard(p, s)}
  /\ shown' = {} /\ again' = {}
  /\ strayed' = {} /\ departed' = 0 /\ arrived' = 0 /\ cut' = FALSE /\ mixed' = FALSE
  /\ UNCHANGED <<gallery, total, legacy>>

CountRows ==
  /\ fPc = "count"
  /\ fPc' = "legacy"
  /\ total' = Cardinality(Normal(scope))
  /\ UNCHANGED <<gallery, scope, offset, legacy, view, shifts, mixed>>

ReadLegacy ==
  /\ fPc = "legacy"
  /\ fPc' = "rows"
  /\ legacy' = {EntryOf(p) : p \in Legacy(scope)}
  /\ total' = total + Cardinality(Legacy(scope))
  /\ UNCHANGED <<gallery, scope, offset, view, shifts, mixed>>

\* Mutated form: the legacy rows are merged with the rows before the page only.
PrefixTooShort ==
  LET rows == {EntryOf(p) : p \in Normal(scope)} IN
  PySlice(legacy \cup Slice(rows, 0, offset), offset, offset + Limit)

\* Legacy rows are merged with every row up to the end of the page.
MergedPage ==
  LET rows == {EntryOf(p) : p \in Normal(scope)} IN
  PySlice(legacy \cup Slice(rows, 0, offset + Limit), offset, offset + Limit)

\* The page goes out; the client asks for the next while has_more.
ReadRows ==
  LET rows == {EntryOf(p) : p \in Normal(scope)}
      page == IF legacy = {} THEN Slice(rows, offset, offset + Limit) ELSE MergedPage
      new  == {e[2] : e \in page}
      next_offset == offset + Cardinality(page)
  IN
  /\ fPc = "rows"
  /\ fPc' = IF next_offset < total THEN "count" ELSE "asked"
  /\ offset' = next_offset
  /\ shown' = shown \cup new
  /\ again' = again \cup (new \cap shown)
  /\ mixed' = (mixed \/ (legacy # {} /\ ~OrdersAgree(legacy \cup rows)))
  /\ legacy' = {} /\ total' = 0
  /\ UNCHANGED <<gallery, scope, atStart, shifts>>

Close ==
  /\ fPc = "asked"
  /\ fPc' = "idle" /\ scope' = AllPhotos /\ offset' = 0
  /\ atStart' = {} /\ shown' = {} /\ again' = {}
  /\ strayed' = {} /\ departed' = 0 /\ arrived' = 0 /\ cut' = FALSE /\ mixed' = FALSE
  /\ UNCHANGED <<gallery, total, legacy>>

-----------------------------------------------------------------------------
\* What a change of photo p does to the places of the feed being read.
Places(p) == IF p \in shots /\ InPage(p, scope) THEN {EntryOf(p)} ELSE {}
Passed(E, F) == \E e \in E : Rank(e, F) < offset

Change(p) ==
  /\ changes < MaxChanges /\ changes' = changes + 1
  /\ fPc # "idle"
  /\ UNCHANGED <<pageRequest, view, mixed>>
  /\ strayed' = IF Places(p) \subseteq Places(p)' THEN strayed ELSE strayed \cup {p}
  /\ departed' = IF Passed(Places(p) \ Places(p)', FeedRows) THEN departed + 1 ELSE departed
  /\ arrived' = IF Passed(Places(p)' \ Places(p), FeedRows') THEN arrived + 1 ELSE arrived
  /\ cut' = (cut \/ (Places(p)' # Places(p) /\ fPc \in {"legacy", "rows"}))

\* A pipeline step, a WebDAV job, or a star for a file without a row.
Register(p, d, m) ==
  /\ p \notin shots
  /\ shots' = shots \cup {p}
  /\ date' = [date EXCEPT ![p] = d]
  /\ mtime' = [mtime EXCEPT ![p] = m]
  /\ UNCHANGED starred
  /\ Change(p)

\* fix_capture_dates, or a later upsert with a date.
Redate(p, d) ==
  /\ p \in shots
  /\ date' = [date EXCEPT ![p] = d]
  /\ UNCHANGED <<shots, mtime, starred>>
  /\ Change(p)

\* toggle_favourite and bulk_action
Star(p) ==
  /\ p \in shots
  /\ starred' = IF p \in starred THEN starred \ {p} ELSE starred \cup {p}
  /\ UNCHANGED <<shots, date, mtime>>
  /\ Change(p)

FeedNext ==
  \/ \E s \in Scopes : Open(s)
  \/ CountRows \/ ReadLegacy \/ ReadRows \/ Close
  \/ \E p \in Shots :
       \/ \E d, m \in {NoDate} \cup Dates : Register(p, d, m)
       \/ \E d \in Dates : Redate(p, d)
       \/ Star(p)

FeedSpec == FeedInit /\ [][FeedNext]_feedVars

-----------------------------------------------------------------------------
FeedTypeOK ==
  /\ shots \subseteq Shots /\ starred \subseteq shots
  /\ date \in [Shots -> {NoDate} \cup Dates] /\ mtime \in [Shots -> {NoDate} \cup Dates]
  /\ changes \in 0..MaxChanges
  /\ fPc \in {"idle", "count", "legacy", "rows", "asked"} /\ scope \in Scopes
  /\ {offset, total} \subseteq Nat
  /\ legacy \subseteq ({Epoch} \cup Dates) \X Shots
  /\ atStart \subseteq Shots /\ shown \subseteq Shots
  /\ again \subseteq shown /\ strayed \subseteq Shots /\ {departed, arrived} \subseteq Nat
  /\ {cut, mixed} \subseteq BOOLEAN

\* A client that pages through a feed, or through a card of get_days, is shown
\* the photos that were there when it began and have kept their places, all but
\* as many as other photos left before its offset; and it is shown no more of
\* them again than others came before it: the offsets of get_day_photos.py
\* 66-67 and get_photos.py 55-56 hold against the merge with rows that have no
\* day.  Not so when a photo moves between the queries of one page, or when rows
\* are merged that Python sorts otherwise than the database.  The card of
\* undated photos is left out: its page finds none.
PagesShowFeed ==
  fPc = "asked" /\ ~cut /\ ~mixed =>
    /\ scope # Undated => Cardinality((atStart \ strayed) \ shown) <= departed
    /\ Cardinality(again \ strayed) <= arrived
=============================================================================
