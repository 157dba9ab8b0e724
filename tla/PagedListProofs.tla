-------------------------- MODULE PagedListProofs --------------------------
(***************************************************************************)
(* Theorems about the paged list, for every page size, any searches and    *)
(* any numbers of results, changes and faults.                             *)
(***************************************************************************)
EXTENDS PagedList, SequenceTheorems, TLAPS

USE DEF list, flags, history, table, counters

Rows == [search : Searches, index : 1..MaxResults]
Requests == [search : Searches, offset : 0..MaxResults]

-----------------------------------------------------------------------------
(* Pages.                                                                  *)

\* A page is a sequence of its rows.
LEMMA PageIsSeq ==
  ASSUME NEW s, NEW from \in Nat, NEW n \in Nat
  PROVE  /\ Page(s, from, n) \in Seq([search : {s}, index : Nat])
         /\ Len(Page(s, from, n)) = n
         /\ \A i \in 1..n : Page(s, from, n)[i] = Row(s, from + i)
<1>1. \A i \in 1..n : Row(s, from + i) \in [search : {s}, index : Nat]
  BY DEF Row
<1> QED
  BY <1>1, IsASeq DEF Page

LEMMA NoPage == ASSUME NEW s PROVE Page(s, 0, 0) = <<>>
<1>1. Page(s, 0, 0) \in Seq([search : {s}, index : Nat]) /\ Len(Page(s, 0, 0)) = 0
  <2>1. 0 \in Nat
    OBVIOUS
  <2> QED
    BY <2>1, PageIsSeq
<1> QED
  BY <1>1, EmptySeq

\* The page that begins where another one ends continues it.
LEMMA PagesJoin ==
  ASSUME NEW s, NEW k \in Nat, NEW n \in Nat
  PROVE  Page(s, 0, k) \o Page(s, k, n) = Page(s, 0, k + n)
<1> DEFINE R == [search : {s}, index : Nat]
           a == Page(s, 0, k)
           b == Page(s, k, n)
           c == Page(s, 0, k + n)
<1>1. a \in Seq(R) /\ Len(a) = k /\ \A i \in 1..k : a[i] = Row(s, 0 + i)
  BY PageIsSeq
<1>2. b \in Seq(R) /\ Len(b) = n /\ \A i \in 1..n : b[i] = Row(s, k + i)
  BY PageIsSeq
<1>3. c \in Seq(R) /\ Len(c) = k + n /\ \A i \in 1..(k + n) : c[i] = Row(s, 0 + i)
  <2>1. k + n \in Nat
    OBVIOUS
  <2> QED
    BY <2>1, PageIsSeq
<1> HIDE DEF a, b, c, R
<1>4. /\ a \o b \in Seq(R) /\ Len(a \o b) = k + n
      /\ \A i \in 1..(k + n) : (a \o b)[i] = IF i <= k THEN a[i] ELSE b[i - k]
  BY <1>1, <1>2, ConcatProperties
<1>5. ASSUME NEW i \in 1..(k + n) PROVE (a \o b)[i] = c[i]
  <2>1. CASE i <= k
    BY <1>1, <1>3, <1>4, <2>1
  <2>2. CASE ~(i <= k)
    <3>1. i - k \in 1..n /\ k + (i - k) = 0 + i
      BY <2>2
    <3>2. (a \o b)[i] = Row(s, k + (i - k))
      BY <1>2, <1>4, <2>2, <3>1
    <3> QED
      BY <1>3, <3>1, <3>2
  <2> QED
    BY <2>1, <2>2
<1>6. a \o b = c
  BY <1>3, <1>4, <1>5, SeqEqual
<1> QED
  BY <1>6 DEF a, b, c

\* The only request is answered, and none remains.
LEMMA LastRequestGoes ==
  ASSUME requests \in Seq(Requests), Len(requests) <= 1, NEW k \in DOMAIN requests
  PROVE  /\ k = 1 /\ Len(requests) = 1 /\ requests[1] \in Requests
         /\ RemoveAt(requests, k) = <<>>
<1>1. k = 1 /\ Len(requests) = 1 /\ requests[1] \in Requests
  <2>1. Len(requests) \in Nat /\ DOMAIN requests = 1..Len(requests)
    BY LenProperties
  <2>2. k = 1 /\ Len(requests) = 1
    BY <2>1
  <2> QED
    BY <2>2, ElementOfSeq
<1>2. SubSeq(requests, 1, 0) = <<>> /\ SubSeq(requests, 2, 1) = <<>>
  BY <1>1, SubSeqEmpty
<1> QED
  BY <1>1, <1>2 DEF RemoveAt

-----------------------------------------------------------------------------
(* The inductive invariant.                                                *)

\* A list without a total has no rows.
TotalInv == array.total = -1 => array.rows = <<>>

\* Who waits for an answer, or has been refused one, had something to ask for, and an
\* error is shown only when nothing is on its way.
WaitInv ==
    /\ requests # <<>> \/ isError => isLoading /\ array.total # 0 /\ CanLoadMore
    /\ requests # <<>> => ~isError
    /\ isLoading /\ ~lost => requests # <<>> \/ isError

\* Nothing that is on its way is older than the search or the rows.
CurrentInv ==
    ~overtaken => /\ RowsArePrefix
                  /\ \A k \in DOMAIN requests : /\ requests[k].search = search
                                                /\ requests[k].offset = currentSize

ListInv == TypeOK /\ OneRequest /\ TotalInv /\ WaitInv /\ CurrentInv

LEMMA ListInit == Init => ListInv
<1> SUFFICES ASSUME Init PROVE ListInv
  OBVIOUS
<1>1. TypeOK
  <2>1. <<>> \in Seq(Rows) /\ <<>> \in Seq(Requests) /\ -1 \in -1..MaxResults
    BY PagedListBounds
  <2> QED
    BY <2>1 DEF Init, TypeOK, EmptyArray, Rows, Requests
<1>2. Page(search, 0, 0) = <<>>
  BY NoPage
<1>3. currentSize = 0 /\ Len(requests) = 0
  BY DEF Init, EmptyArray, currentSize
<1> QED
  BY <1>1, <1>2, <1>3 DEF Init, EmptyArray, ListInv, OneRequest, TotalInv, WaitInv, CurrentInv, RowsArePrefix

-----------------------------------------------------------------------------
(* Each action keeps it.                                                   *)

LEMMA Types ==
  ASSUME TypeOK
  PROVE  /\ array.rows \in Seq(Rows) /\ array.total \in -1..MaxResults /\ MaxResults \in Nat
         /\ array = [rows |-> array.rows, total |-> array.total]
         /\ currentSize \in Nat
         /\ requests \in Seq(Requests)
<1>1. array.rows \in Seq(Rows) /\ requests \in Seq(Requests)
  BY DEF TypeOK, Rows, Requests
<1> QED
  BY <1>1, PagedListBounds DEF TypeOK, currentSize

\* A new request, when none is on its way and the table has something to ask for.
LEMMA LoadMoreKeeps ==
  ASSUME ListInv, LoadMore, requests = <<>>, array.total # 0, CanLoadMore,
         UNCHANGED <<hasList, bottom, doNotFetchData, search, calendar, results, history>>
  PROVE  ListInv'
<1> DEFINE r == [search |-> search, offset |-> currentSize]
<1>1. r \in Requests
  <2>1. currentSize \in 0..MaxResults
    BY Types DEF ListInv, TotalInv, CanLoadMore, currentSize
  <2> QED
    BY <2>1 DEF ListInv, TypeOK, Requests
<1>2. requests' = <<r>>
  BY DEF LoadMore
<1> HIDE DEF r
<1>3. requests' \in Seq(Requests) /\ Len(requests') = 1 /\ requests' # <<>>
  BY <1>1, <1>2
<1>4. /\ array' \in {array, EmptyArray} /\ array'.rows = array.rows
      /\ array'.total # 0 /\ CanLoadMore' /\ TotalInv'
  <2>1. CASE currentSize = 0
    <3>1. array.rows = <<>>
      BY <2>1, Types, EmptySeq DEF ListInv, currentSize
    <3>2. array' = EmptyArray
      BY <2>1 DEF LoadMore
    <3> QED
      BY <3>1, <3>2 DEF EmptyArray, CanLoadMore, TotalInv
  <2>2. CASE currentSize # 0
    <3>1. array' = array
      BY <2>2 DEF LoadMore
    <3> QED
      BY <3>1 DEF ListInv, TotalInv, CanLoadMore, currentSize
  <2> QED
    BY <2>1, <2>2
<1>5. TypeOK'
  <2>1. array' \in [rows : Seq(Rows), total : -1..MaxResults]
    <3>1. <<>> \in Seq(Rows) /\ -1 \in -1..MaxResults
      BY Types DEF ListInv
    <3> QED
      BY <1>4, <3>1 DEF ListInv, TypeOK, EmptyArray, Rows
  <2>2. hasList' = FALSE => array' = EmptyArray
    BY <1>4 DEF ListInv, TypeOK
  <2>3. endRow' \in BOOLEAN
    BY DEF LoadMore, ReloadData
  <2> QED
    BY <1>3, <2>1, <2>2, <2>3 DEF LoadMore, ListInv, TypeOK, Rows, Requests
<1>6. CurrentInv'
  <2>1. ASSUME NEW k \in DOMAIN requests' PROVE requests'[k].search = search /\ requests'[k].offset = currentSize
    BY <1>2 DEF r
  <2>2. ~overtaken' => RowsArePrefix'
    BY <1>4 DEF ListInv, CurrentInv, RowsArePrefix, currentSize
  <2> QED
    BY <1>4, <2>1, <2>2 DEF CurrentInv, currentSize
<1> QED
  BY <1>3, <1>4, <1>5, <1>6 DEF LoadMore, ListInv, OneRequest, WaitInv

\* The list is cleared, under the same search or a new one.
LEMMA ClearKeeps ==
  ASSUME ListInv, Clear, search' \in Searches,
         UNCHANGED <<hasList, flags, doNotFetchData, calendar, requests, results, lost>>
  PROVE  ListInv'
<1>1. array'.rows = <<>> /\ array'.total = -1 /\ currentSize' = 0
  BY DEF Clear, Cleared, EmptyArray, currentSize
<1>2. TypeOK'
  <2>1. <<>> \in Seq(Rows) /\ -1 \in -1..MaxResults
    BY Types DEF ListInv
  <2> QED
    BY <2>1 DEF Clear, ReloadData, ListInv, TypeOK, Cleared, EmptyArray, Rows
<1>3. CurrentInv'
  <2>1. Page(search', 0, 0) = <<>>
    BY NoPage
  <2>2. ~overtaken' => DOMAIN requests' = {}
    <3>1. DOMAIN << >> = {}
      OBVIOUS
    <3> QED
      BY <3>1 DEF Clear
  <2>3. RowsArePrefix'
    BY <1>1, <2>1 DEF RowsArePrefix, Clear, Cleared
  <2> QED
    BY <2>2, <2>3 DEF CurrentInv
<1> QED
  BY <1>1, <1>2, <1>3 DEF ListInv, OneRequest, TotalInv, WaitInv, CanLoadMore

\* A request goes without rows.
LEMMA RequestGoes ==
  ASSUME ListInv, NEW k \in DOMAIN requests, requests' = RemoveAt(requests, k),
         UNCHANGED <<list, search, calendar, results, overtaken>>,
         isLoading' \in BOOLEAN, isError' \in BOOLEAN, lost' \in BOOLEAN,
         endRow' \in BOOLEAN, UNCHANGED <<bottom, doNotFetchData>>,
         isError' => isLoading',
         isLoading' /\ ~lost' => isError'
  PROVE  ListInv'
<1>1. requests' = <<>> /\ requests # <<>>
  BY Types, LastRequestGoes DEF ListInv, OneRequest
<1>2. TypeOK'
  BY <1>1 DEF ListInv, TypeOK
<1>3. CurrentInv'
  BY <1>1 DEF ListInv, CurrentInv, RowsArePrefix, currentSize
<1> QED
  BY <1>1, <1>2, <1>3 DEF ListInv, OneRequest, TotalInv, WaitInv, CanLoadMore, currentSize

\* A page is appended to the rows it continues.
LEMMA AnsweredKeeps ==
  ASSUME ListInv, NEW k \in DOMAIN requests, Answered(k)
  PROVE  ListInv'
<1> DEFINE r == requests[k]
           total == results[r.search]
           n == LargerOf(0, LesserOf(PageSize, total - r.offset))
           page == Page(r.search, r.offset, n)
<1>1. requests' = <<>> /\ requests # <<>> /\ r \in Requests
  BY Types, LastRequestGoes DEF ListInv, OneRequest, Answered
<1>2. /\ r.search \in Searches /\ r.offset \in Nat /\ total \in 0..MaxResults
      /\ n \in Nat /\ (n > 0 => r.offset + n <= total)
  <2>1. r.search \in Searches /\ r.offset \in Nat
    BY <1>1 DEF Requests
  <2>2. total \in 0..MaxResults /\ MaxResults \in Nat
    BY <2>1, Types DEF ListInv, TypeOK
  <2> QED
    BY <2>1, <2>2, PageSizeIsPositive DEF LargerOf, LesserOf
<1>3. page \in Seq(Rows) /\ Len(page) = n
  <2>1. page \in Seq([search : {r.search}, index : Nat]) /\ Len(page) = n
        /\ \A i \in 1..n : page[i] = Row(r.search, r.offset + i)
    BY <1>2, PageIsSeq
  <2>2. ASSUME NEW i \in 1..n PROVE page[i] \in Rows
    <3> HIDE DEF page, total, n
    <3>1. MaxResults \in Nat
      BY PagedListBounds
    <3>2. r.offset + i \in 1..MaxResults
      BY <1>2, <2>2, <3>1
    <3>3. page[i] = Row(r.search, r.offset + i)
      BY <2>1, <2>2
    <3> QED
      BY <1>2, <3>2, <3>3 DEF Row, Rows
  <2> HIDE DEF page, n
  <2>3. page \in [1..n -> Rows]
    BY <1>2, <2>1, <2>2, LenProperties
  <2> QED
    BY <1>2, <2>1, <2>3, IsASeq
<1>4. /\ array' = [rows |-> array.rows \o page, total |-> LargerOf(array.total, total)]
      /\ hasList' = TRUE /\ isLoading' = FALSE
      /\ UNCHANGED <<isError, doNotFetchData, search, calendar, results, history>>
      /\ endRow' \in BOOLEAN /\ bottom' \in BOOLEAN
  <2>1. endRow' \in BOOLEAN
    BY DEF Answered, ReloadData
  <2>2. bottom' \in BOOLEAN
    BY DEF Answered, ListInv, TypeOK
  <2> QED
    BY <2>1, <2>2 DEF Answered, Merged
<1> HIDE DEF r, total, n, page
<1>5. /\ array'.rows \in Seq(Rows) /\ currentSize' = currentSize + n
      /\ array'.total \in 0..MaxResults
      /\ array' = [rows |-> array'.rows, total |-> array'.total]
  <2>1. array.rows \o page \in Seq(Rows) /\ Len(array.rows \o page) = Len(array.rows) + n
    BY <1>3, Types, ConcatProperties DEF ListInv
  <2>2. LargerOf(array.total, total) \in 0..MaxResults
    BY <1>2, Types DEF ListInv, LargerOf
  <2> QED
    BY <1>4, <2>1, <2>2 DEF currentSize
<1>6. TypeOK'
  <2>1. array' \in [rows : Seq(Rows), total : -1..MaxResults]
    <3>1. array'.total \in -1..MaxResults
      BY <1>5, PagedListBounds
    <3> QED
      BY <1>5, <3>1
  <2>2. requests' \in Seq(Requests)
    BY <1>1
  <2> QED
    BY <1>4, <2>1, <2>2 DEF ListInv, TypeOK, Rows, Requests
<1>7. CurrentInv'
  <2> SUFFICES ASSUME ~overtaken' PROVE RowsArePrefix'
    BY <1>1 DEF CurrentInv
  <2>1. /\ r.search = search /\ r.offset = currentSize /\ total = results[search]
        /\ array.rows = Page(search, 0, currentSize)
        /\ array # EmptyArray => array.total = results[search]
    BY <1>4 DEF ListInv, CurrentInv, RowsArePrefix, r, total
  <2>2. array.rows \o page = Page(search, 0, currentSize + n)
    <3>1. currentSize \in Nat /\ page = Page(search, currentSize, n)
      BY <2>1, Types DEF ListInv, page
    <3>2. Page(search, 0, currentSize) \o Page(search, currentSize, n) = Page(search, 0, currentSize + n)
      BY <1>2, <3>1, PagesJoin
    <3> QED
      BY <2>1, <3>1, <3>2
  <2>3. array.total \in {-1, results[search]}
    BY <2>1 DEF EmptyArray
  <2>4. LargerOf(array.total, total) = results[search]
    BY <1>2, <2>1, <2>3 DEF LargerOf
  <2> QED
    BY <1>4, <1>5, <2>2, <2>4 DEF RowsArePrefix
<1> QED
  BY <1>1, <1>4, <1>5, <1>6, <1>7 DEF ListInv, OneRequest, TotalInv, WaitInv

\* The search changes behind the calendar.
LEMMA HiddenSearchKeeps ==
  ASSUME ListInv, search' \in Searches,
         overtaken' = (overtaken \/ (search' # search /\ ~Fresh)),
         UNCHANGED <<list, flags, table, doNotFetchData, calendar, requests, results, lost>>
  PROVE  ListInv'
<1>1. TypeOK'
  BY DEF ListInv, TypeOK
<1>2. CurrentInv'
  <2> SUFFICES ASSUME ~overtaken' PROVE CurrentInv'
    BY DEF CurrentInv
  <2>1. CASE search' = search
    BY <2>1 DEF ListInv, CurrentInv, RowsArePrefix, currentSize
  <2>2. CASE Fresh
    <3>1. currentSize' = 0 /\ array'.rows = <<>> /\ array' = EmptyArray /\ requests' = <<>>
      BY <2>2 DEF Fresh, EmptyArray, currentSize
    <3>2. Page(search', 0, 0) = <<>>
      BY NoPage
    <3> QED
      BY <3>1, <3>2 DEF CurrentInv, RowsArePrefix
  <2> QED
    BY <2>1, <2>2
<1> QED
  BY <1>1, <1>2 DEF ListInv, OneRequest, TotalInv, WaitInv, CanLoadMore, currentSize

\* The server's results change.
LEMMA ResultsChangeKeeps == ASSUME ListInv, ResultsChange PROVE ListInv'
<1>1. TypeOK'
  BY DEF ListInv, TypeOK, ResultsChange
<1>2. CurrentInv'
  <2> SUFFICES ASSUME ~overtaken' PROVE CurrentInv'
    BY DEF CurrentInv
  <2>1. ~overtaken /\ (results'[search] = results[search] \/ array = EmptyArray)
    BY DEF ResultsChange, ListInv, TypeOK
  <2> QED
    BY <2>1 DEF ResultsChange, ListInv, CurrentInv, RowsArePrefix, currentSize
<1> QED
  BY <1>1, <1>2 DEF ResultsChange, ListInv, OneRequest, TotalInv, WaitInv, CanLoadMore, currentSize

LEMMA ListStep == ListInv /\ [Next]_vars => ListInv'
<1> SUFFICES ASSUME ListInv, [Next]_vars PROVE ListInv'
  OBVIOUS
<1>1. CASE CellForRow
  <2>1. requests = <<>>
    BY <1>1 DEF CellForRow, ListInv, WaitInv
  <2> QED
    BY <1>1, <2>1, LoadMoreKeeps DEF CellForRow, LoadingCellShown
<1>2. CASE RefreshButtonClicked
  <2>1. requests = <<>> /\ array.total # 0 /\ CanLoadMore
    BY <1>2 DEF RefreshButtonClicked, ErrorCellShown, ListInv, WaitInv
  <2> QED
    BY <1>2, <2>1, LoadMoreKeeps DEF RefreshButtonClicked
<1>3. ASSUME NEW k \in DOMAIN requests, Answered(k) PROVE ListInv'
  BY <1>3, AnsweredKeeps
<1>4. ASSUME NEW k \in DOMAIN requests, AnsweredEmpty(k) \/ Failed(k) \/ AnswerSwallowed(k) PROVE ListInv'
  <2>1. requests # <<>> /\ isLoading /\ ~isError /\ {isLoading, isError, lost} \subseteq BOOLEAN
    BY DEF ListInv, WaitInv, TypeOK
  <2>2. CASE AnsweredEmpty(k)
    <3>1. endRow' \in BOOLEAN
      BY <2>2 DEF AnsweredEmpty, ReloadData, ListInv, TypeOK
    <3> QED
      BY <2>1, <2>2, <3>1, RequestGoes DEF AnsweredEmpty
  <2>3. CASE Failed(k)
    <3>1. endRow' \in BOOLEAN
      BY <2>3 DEF Failed, ReloadData
    <3> QED
      BY <2>1, <2>3, <3>1, RequestGoes DEF Failed
  <2>4. CASE AnswerSwallowed(k)
    <3>1. endRow' \in BOOLEAN
      BY <2>4 DEF AnswerSwallowed, ListInv, TypeOK
    <3> QED
      BY <2>1, <2>4, <3>1, RequestGoes DEF AnswerSwallowed
  <2> QED
    BY <1>4, <2>2, <2>3, <2>4
<1>5. CASE FilterChanged
  BY <1>5, ClearKeeps, HiddenSearchKeeps DEF FilterChanged
<1>6. CASE SegmentSwitched \/ ViewWillAppear
  <2>1. search' \in Searches
    BY <1>6 DEF SegmentSwitched, ViewWillAppear, ListInv, TypeOK
  <2> QED
    BY <1>6, <2>1, ClearKeeps DEF SegmentSwitched, ViewWillAppear
<1>7. CASE ShowOrHideCalendar \/ Scroll \/ OpportunitySelected \/ SetDoNotFetchDataFlagNO \/ UNCHANGED vars
  <2>1. /\ UNCHANGED <<list, flags, endRow, search, requests, results, history>>
        /\ {calendar', bottom', doNotFetchData'} \subseteq BOOLEAN
    BY <1>7 DEF ShowOrHideCalendar, Scroll, OpportunitySelected, SetDoNotFetchDataFlagNO, vars, ListInv, TypeOK
  <2>2. TypeOK'
    BY <2>1 DEF ListInv, TypeOK
  <2>3. CurrentInv'
    BY <2>1 DEF ListInv, CurrentInv, RowsArePrefix, currentSize
  <2> QED
    BY <2>1, <2>2, <2>3 DEF ListInv, OneRequest, TotalInv, WaitInv, CanLoadMore, currentSize
<1>8. CASE ResultsChange
  BY <1>8, ResultsChangeKeeps
<1> QED
  BY <1>1, <1>2, <1>3, <1>4, <1>5, <1>6, <1>7, <1>8 DEF Next, Web

-----------------------------------------------------------------------------
(* The theorems.                                                           *)

LEMMA ListInvHolds == Spec => []ListInv
  BY ListInit, ListStep, PTL DEF Spec

\* Every variable of the paged list keeps to its values, however many searches, results,
\* changes and faults there are; no row and no offset lies past the server's results.
THEOREM TypeCorrect == Spec => []TypeOK
<1>1. ListInv => TypeOK
  BY DEF ListInv
<1> QED
  BY <1>1, ListInvHolds, PTL

\* However the answers, the user and the cells interleave, one page is asked for at a time
\* (EGPagedTableViewDataSource, isLoading and isError).
THEOREM OneRequestCorrect == Spec => []OneRequest
<1>1. ListInv => OneRequest
  BY DEF ListInv
<1> QED
  BY <1>1, ListInvHolds, PTL

\* A list nobody overtook is a prefix of the server's results, for every page size: no page
\* is missing, doubled or out of place (EGPagedArray, mergeWithCopy:withPagination:).
THEOREM PrefixCorrect == Spec => []RowsArePrefix
<1>1. ListInv => RowsArePrefix
  BY DEF ListInv, CurrentInv, RowsArePrefix
<1> QED
  BY <1>1, ListInvHolds, PTL

\* A table that says it is loading has a request on its way or shows the button that asks
\* again, unless its last row is cut off or the web layer lost the request.
THEOREM LoadingCorrect == Spec => []LoadingEnds
<1>1. ListInv => LoadingEnds
  BY DEF ListInv, WaitInv, LoadingEnds, ErrorCellShown, Cut
<1> QED
  BY <1>1, ListInvHolds, PTL
=============================================================================
