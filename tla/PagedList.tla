----------------------------- MODULE PagedList -----------------------------
(***************************************************************************)
(* A table that loads its rows page by page (EGPagedArray and              *)
(* EGPagedTableViewDataSource), as the activity list uses it               *)
(* (ActivityViewController): the search can be changed, the list hidden    *)
(* behind the calendar, a page may fail, come back empty or never be       *)
(* answered, and the server's results may change meanwhile.                *)
(*                                                                         *)
(* Everything runs on the main queue; what interleaves are the answers,    *)
(* the user and the moments the table asks for a cell.  A search is a      *)
(* filter together with the position of the My/Team switch.                *)
(***************************************************************************)
EXTENDS Integers, Sequences, SequencesExt

CONSTANTS
    Searches,
    PageSize,     \* "size" of the request
    MaxResults,   \* bound: results of a search
    MaxChanges,   \* bound: changes of search, of screen and of the server's results
    MaxFaults     \* bound: pages that fail, come back empty or are never answered

ASSUME PageSizeIsPositive == PageSize \in Nat \ {0}
ASSUME PagedListBounds == {MaxResults, MaxChanges, MaxFaults} \subseteq Nat

VARIABLES
    array,        \* EGPagedArray: the rows received and the total the server gave, -1 for none
    hasList,      \* the controller has an array (it is nil before the first answer)
    isLoading, isError,   \* of the data source
    endRow,       \* the table has a row after the last one, as of its last reloadData
    bottom,       \* the end of the table is within the screen
    doNotFetchData,       \* of the application's delegate
    search,       \* what the user asks for
    calendar,     \* the calendar covers the table
    requests,     \* pages asked for and not answered, oldest first
    results,      \* the server's number of results of each search
    overtaken,    \* history: a request or a row is older than the search or the results
    lost,         \* history: a request left the table waiting
    changes, faults

vars == <<array, hasList, isLoading, isError, endRow, bottom, doNotFetchData, search, calendar, requests, results, overtaken, lost,
          changes, faults>>
list == <<array, hasList>>
flags == <<isLoading, isError>>
history == <<overtaken, lost>>
table == <<endRow, bottom>>
counters == <<changes, faults>>

Row(s, i) == [search |-> s, index |-> i]
Page(s, from, n) == [i \in 1..n |-> Row(s, from + i)]
EmptyArray == [rows |-> <<>>, total |-> -1]
LargerOf(a, b) == IF a > b THEN a ELSE b
LesserOf(a, b) == IF a < b THEN a ELSE b

currentSize == Len(array.rows)
Fresh == array = EmptyArray /\ requests = <<>>

\* Faulty: a list that has everything still asks for more.
CanLoadMoreAlways == array.total = -1 \/ currentSize <= array.total

CanLoadMore == array.total = -1 \/ currentSize < array.total

\* The row after the last one: "no result", an error with a button, or "loading".
ErrorCellShown == endRow /\ array.total # 0 /\ isError
LoadingCellShown == endRow /\ array.total # 0 /\ ~isError /\ CanLoadMore

\* reloadData: whether there is a row after the last one is decided now, and a table in
\* another screen may be told to fetch nothing.
ReloadData == endRow' = (array'.total = 0 \/ (~doNotFetchData /\ CanLoadMore'))

-----------------------------------------------------------------------------
(* The array.                                                              *)

\* Faulty: the new rows come first.
MergedInFront(a, page, total) == [rows |-> page \o a.rows, total |-> LargerOf(a.total, total)]

\* mergeWithCopy:withPagination:.  A controller without an array has -1 and no rows.
Merged(a, page, total) == [rows |-> a.rows \o page, total |-> LargerOf(a.total, total)]

\* Faulty: the total is forgotten as well, but becomes 0.
ClearedToNothing == [rows |-> <<>>, total |-> 0]

\* clearAllItems, sent to the controller's array, which is the data source's after the
\* first answer (before it both are empty).
Cleared == EmptyArray

-----------------------------------------------------------------------------
(* The data source.                                                        *)

\* loadMoreData, and the request the controller makes of it.  A request for the first
\* page clears the list.
LoadMore ==
    /\ isLoading' = TRUE
    /\ isError' = FALSE
    /\ requests' = Append(requests, [search |-> search, offset |-> currentSize])
    /\ array' = IF currentSize = 0 THEN EmptyArray ELSE array
    /\ ReloadData

\* Faulty: a table that is already loading asks again.
CellForRowAgain ==
    /\ LoadingCellShown /\ bottom
    /\ LoadMore
    /\ UNCHANGED <<hasList, bottom, doNotFetchData, search, calendar, results, history, counters>>

\* tableView:cellForRowAtIndexPath: for the row after the last one, once it is within the
\* screen.  A table behind the calendar may be laid out too.
CellForRow ==
    /\ LoadingCellShown /\ bottom
    /\ ~isLoading
    /\ LoadMore
    /\ UNCHANGED <<hasList, bottom, doNotFetchData, search, calendar, results, history, counters>>

\* The button of the error cell.
RefreshButtonClicked ==
    /\ ErrorCellShown /\ bottom /\ ~calendar
    /\ LoadMore
    /\ UNCHANGED <<hasList, bottom, doNotFetchData, search, calendar, results, history, counters>>

-----------------------------------------------------------------------------
(* The answers.                                                            *)

\* A page of the search the request was made for, and the number of its results.  Its
\* rows may push the end of the table out of the screen.
Answered(k) ==
    LET r == requests[k]
        total == results[r.search]
        n == LargerOf(0, LesserOf(PageSize, total - r.offset))
    IN
    /\ array' = Merged(array, Page(r.search, r.offset, n), total)
    /\ hasList' = TRUE
    /\ isLoading' = FALSE
    /\ requests' = RemoveAt(requests, k)
    /\ ReloadData
    /\ bottom' \in (IF n = 0 THEN {bottom} ELSE {FALSE, bottom})
    /\ UNCHANGED <<isError, doNotFetchData, search, calendar, results, history, counters>>

Fault == faults < MaxFaults /\ faults' = faults + 1

\* An answer without content.  Before the first page there is no array to show, and the
\* table is not told.
AnsweredEmpty(k) ==
    /\ Fault
    /\ requests' = RemoveAt(requests, k)
    /\ UNCHANGED list
    /\ \/ hasList /\ isLoading' = FALSE /\ ReloadData /\ UNCHANGED lost
       \/ ~hasList /\ lost' = TRUE /\ UNCHANGED <<isLoading, endRow>>
    /\ UNCHANGED <<isError, bottom, doNotFetchData, search, calendar, results, overtaken, changes>>

\* Faulty: the failure is not reported to the table.
FailedUnreported(k) ==
    /\ Fault
    /\ requests' = RemoveAt(requests, k)
    /\ UNCHANGED <<list, flags, table, doNotFetchData, search, calendar, results, history, changes>>

\* The failure is shown; isLoading stays until the button is pressed.
Failed(k) ==
    /\ Fault
    /\ requests' = RemoveAt(requests, k)
    /\ isError' = TRUE
    /\ UNCHANGED list
    /\ ReloadData
    /\ UNCHANGED <<isLoading, bottom, doNotFetchData, search, calendar, results, history, changes>>

\* A request parked in the token manager's queue and never replayed.
AnswerSwallowed(k) ==
    /\ Fault
    /\ requests' = RemoveAt(requests, k)
    /\ lost' = TRUE
    /\ UNCHANGED <<list, flags, table, doNotFetchData, search, calendar, results, overtaken, changes>>

-----------------------------------------------------------------------------
(* The user and the server.                                                *)

Change == changes < MaxChanges /\ changes' = changes + 1

\* The list is emptied and reloaded: its one row is on the screen.
Clear ==
    /\ array' = Cleared
    /\ ReloadData
    /\ bottom' = TRUE
    /\ overtaken' = (requests # <<>>)

\* The user scrolls to the end of the list, or away from it.
Scroll ==
    /\ ~calendar /\ currentSize > 0
    /\ bottom' = ~bottom
    /\ UNCHANGED <<list, flags, endRow, doNotFetchData, search, calendar, requests, results, history, counters>>

\* searchWithActivityDictionary: the filter changes.  Behind the calendar the list keeps
\* its rows.
FilterChanged ==
    /\ Change
    /\ search' \in Searches
    /\ IF calendar
       THEN /\ overtaken' = (overtaken \/ (search' # search /\ ~Fresh))
            /\ UNCHANGED <<array, table>>
       ELSE Clear
    /\ UNCHANGED <<hasList, flags, doNotFetchData, calendar, requests, results, lost, faults>>

\* activitySegmentSwitch: the list is cleared wherever it is.
SegmentSwitched ==
    /\ Change
    /\ search' \in Searches \ {search}
    /\ Clear
    /\ UNCHANGED <<hasList, flags, doNotFetchData, calendar, requests, results, lost, faults>>

\* viewWillAppear: a list that has rows is loaded anew.
ViewWillAppear ==
    /\ Change
    /\ currentSize > 0
    /\ Clear
    /\ UNCHANGED <<hasList, flags, doNotFetchData, search, calendar, requests, results, lost, faults>>

ShowOrHideCalendar ==
    /\ Change
    /\ calendar' = ~calendar
    /\ UNCHANGED <<list, flags, table, doNotFetchData, search, requests, results, history, faults>>

\* Activities are added and closed on the server.
ResultsChange ==
    /\ Change
    /\ \E s \in Searches, n \in 0..MaxResults :
          /\ n # results[s]
          /\ results' = [results EXCEPT ![s] = n]
          /\ overtaken' = (overtaken \/ (s = search /\ array # EmptyArray) \/
                           \E k \in DOMAIN requests : requests[k].search = s /\ requests[k].offset > 0)
    /\ UNCHANGED <<list, flags, table, doNotFetchData, search, calendar, requests, lost, faults>>

\* An opportunity is selected in the search for an NFA, whose table shall not load more ...
OpportunitySelected ==
    /\ Change
    /\ doNotFetchData' = TRUE
    /\ UNCHANGED <<list, flags, table, search, calendar, requests, results, history, faults>>

\* ... for a second; no table is reloaded when it is over.
SetDoNotFetchDataFlagNO ==
    /\ doNotFetchData
    /\ doNotFetchData' = FALSE
    /\ UNCHANGED <<list, flags, table, search, calendar, requests, results, history, counters>>

-----------------------------------------------------------------------------

Init ==
    /\ array = EmptyArray /\ hasList = FALSE
    /\ isLoading = FALSE /\ isError = FALSE
    /\ endRow = TRUE /\ bottom = TRUE /\ doNotFetchData = FALSE
    /\ search \in Searches
    /\ calendar = FALSE
    /\ requests = <<>>
    /\ results \in [Searches -> 0..MaxResults]
    /\ overtaken = FALSE /\ lost = FALSE
    /\ changes = 0 /\ faults = 0

\* The web layer: a mapped answer, a timeout or a refusal.
Web == \E k \in DOMAIN requests : Answered(k) \/ AnsweredEmpty(k) \/ Failed(k)

Next ==
    \/ CellForRow \/ RefreshButtonClicked
    \/ Web \/ \E k \in DOMAIN requests : AnswerSwallowed(k)
    \/ FilterChanged \/ SegmentSwitched \/ ViewWillAppear \/ ShowOrHideCalendar \/ ResultsChange
    \/ Scroll \/ OpportunitySelected \/ SetDoNotFetchDataFlagNO

Spec == Init /\ [][Next]_vars

\* A table on the screen asks for a cell whenever its row comes into view, before the user
\* can scroll it away again; a request is answered or times out.  The user need not scroll.
FairSpec == Spec /\ SF_vars(~calendar /\ CellForRow) /\ WF_vars(Web)

-----------------------------------------------------------------------------
(* Properties.                                                             *)

\* Type invariant.
TypeOK ==
    /\ array \in [rows : Seq([search : Searches, index : 1..MaxResults]), total : -1..MaxResults]
    /\ {hasList, isLoading, isError, endRow, bottom, doNotFetchData, calendar, overtaken, lost} \subseteq BOOLEAN
    /\ search \in Searches
    /\ requests \in Seq([search : Searches, offset : 0..MaxResults])
    /\ results \in [Searches -> 0..MaxResults]
    /\ (~hasList => array = EmptyArray)

\* A list that was neither searched anew nor changed on the server behind its back holds
\* the first results of the search, each once and in order, whatever failed or was loaded
\* anew in between, and its total is the server's.
RowsArePrefix ==
    ~overtaken => /\ array.rows = Page(search, 0, currentSize)
                  /\ array # EmptyArray => array.total = results[search]

\* No page is asked for while another one is on its way, not even by the button of an
\* error: two answers would both be appended.
OneRequest == Len(requests) <= 1

\* The table was reloaded while another screen had told it to fetch nothing: it has no row
\* to load more with, nor to report an error in.
Cut == CanLoadMore /\ ~endRow

\* A table that says it is loading waits for an answer that may come, or offers a button
\* to ask again, unless its last row is cut off, or the web layer dropped the request or
\* answered it with nothing before the first page: then it spins for as long as the
\* screen lives.
LoadingEnds == isLoading /\ ~lost => requests # <<>> \/ ErrorCellShown \/ Cut

\* A list that is left alone but for scrolling, and to whose end the user comes again and
\* again, is loaded to the end, once, and then asks for nothing.
LeftAlone == ~calendar /\ ~overtaken /\ ~isError /\ ~lost /\ ~Cut
LoadsToTheEnd ==
    <>[]LeftAlone /\ []<>bottom => <>[](requests = <<>> /\ currentSize = results[search])

=============================================================================
