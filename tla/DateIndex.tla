----------------------------- MODULE DateIndex -----------------------------
(***************************************************************************)
(* A date index (src/internal/invertedindex/dateindex/dateindex.go): a     *)
(* slice of (day, document) entries kept in the order of the days.         *)
(***************************************************************************)
EXTENDS Integers, Sequences

LOCAL INSTANCE SequencesExt

CONSTANT
    SecondsPerDay       \* 86400 in the code

ASSUME DateIndexAssumption == SecondsPerDay \in Nat \ {0}

\* Integer division of Go, which truncates towards zero.
GoDiv(a, b) == IF a >= 0 THEN a \div b ELSE -((-a) \div b)

\* DayFromTime, of a time in seconds since 1970.
DayFromTime(t) == GoDiv(t, SecondsPerDay)

\* sort.Search: the first position where ok holds, one past the end if none.
\* The code searches for days, in slices that have to be sorted for it.
SortSearch(n, ok) ==
    LET search[r \in (0 .. n) \X (0 .. n)] ==
            LET mid == (r[1] + r[2]) \div 2
            IN  IF r[1] >= r[2] THEN r[1]
                ELSE IF ~ok[mid + 1] THEN search[<<mid + 1, r[2]>>]
                ELSE search[<<r[1], mid>>]
    IN  search[<<0, n>>] + 1

SearchDay(entries, day) ==
    SortSearch(Len(entries), [j \in DOMAIN entries |-> entries[j].day >= day])

\* Add(day, docID).
Insert_PreviousDoc(entries, day, docID) ==
    InsertAt(entries, SearchDay(entries, day), [day |-> day, docID |-> docID - 1])
Insert_AtEnd(entries, day, docID) ==
    Append(entries, [day |-> day, docID |-> docID])
Insert(entries, day, docID) ==
    InsertAt(entries, SearchDay(entries, day), [day |-> day, docID |-> docID])

\* The documents of the entries from position lo on, up to the first one that
\* is later than to.
Run(entries, lo, to) ==
    {entries[i].docID :
        i \in {i \in lo .. Len(entries) : \A j \in lo .. i : entries[j].day <= to}}

DayRange(entries, from, to) == Run(entries, SearchDay(entries, from), to)

LeBitmap(entries, d) == Run(entries, 1, d)

GeBitmap(entries, d) ==
    {entries[i].docID : i \in SearchDay(entries, d) .. Len(entries)}
=============================================================================
