---------------------------- MODULE SettingsPages ----------------------------
(***************************************************************************)
(* A walk over a table that changes meanwhile, page by page: by cursor, as *)
(* SettingsService.getAllWithPaginationCursor serves them, or by page      *)
(* number, as its getAllWithPagination and that of GenericService do.  A   *)
(* row is its place in the order of the walk; a place is used once.        *)
(***************************************************************************)
EXTENDS Integers, FiniteSets, FiniteSetsExt

CONSTANTS
    Places,         \* a finite set of positive integers
    Limit           \* rows on a page

ASSUME SettingsPagesConstants ==
    Places \subseteq Nat \ {0} /\ IsFiniteSet(Places) /\ Limit \in Nat \ {0}

VARIABLES
    table,          \* the rows there are
    spent,          \* places whose row was deleted
    way,            \* the client asks next with the cursor the page "named", with the id of
                    \* the "last" row of the page, or with the "number" of the next page;
                    \* "none" before it begins
    askWith,        \* that cursor or number; 0: at the start
    halves,         \* what a page by number has read of "docs" and "total"
    totalPages,     \* the pages there were at the second of them
    given,          \* the rows the client was given
    done,           \* it was told there is no more
    seated,         \* history: the rows there since its first read
    skipped,        \* history: the rows a page named as cursors
    hurt            \* history: the cursor's row was gone when the client asked with it; by
                    \* number, the walk saw a deletion, or a row created after the total and
                    \* before the rows of a page were read

pageVars == <<table, spent, way, askWith, halves, totalPages, given, done, seated, skipped, hurt>>

Firsts(S, n) == {p \in S : Cardinality({q \in S : q < p}) < n}

-----------------------------------------------------------------------------
(* createOrUpdateSettings where its type has no row, deleteSettingsByType *)

CreateRow(p) ==
    /\ p \in Places \ (table \cup spent)
    /\ table' = table \cup {p}
    /\ hurt' = (hurt \/ halves = {"total"})
    /\ UNCHANGED <<spent, way, askWith, halves, totalPages, given, done, seated, skipped>>

DeleteRow(p) ==
    /\ p \in table
    /\ table' = table \ {p} /\ spent' = spent \cup {p}
    /\ seated' = seated \ {p}
    /\ hurt' = (hurt \/ (way = "number" /\ (askWith # 0 \/ halves # {})))
    /\ UNCHANGED <<way, askWith, halves, totalPages, given, done, skipped>>

Begin(w) ==
    /\ way = "none" /\ way' = w
    /\ UNCHANGED <<table, spent, askWith, halves, totalPages, given, done, seated, skipped, hurt>>

-----------------------------------------------------------------------------
(* getAllWithPaginationCursor *)

\* Mutant: the row of the cursor is not skipped.
MutBeyond(cursor) ==
    IF cursor = 0 THEN table ELSE IF cursor \in table THEN {p \in table : p >= cursor} ELSE {}

\* What comes after the cursor; a row that is gone has nothing after it.
Beyond(cursor) ==
    IF cursor = 0 THEN table ELSE IF cursor \in table THEN {p \in table : p > cursor} ELSE {}

\* Limit + 1 rows are read from the cursor on, the cursor's own skipped; one too many says that
\* there is more, is taken off the page and named as the next cursor.
PageByCursor ==
    /\ way \in {"named", "last"} /\ ~done
    /\ LET ahead == Beyond(askWith)
           docs == Firsts(ahead, Limit)
       IN  /\ given' = given \cup docs
           /\ done' = (ahead = docs)
           /\ IF done'
              THEN UNCHANGED <<askWith, skipped>>
              ELSE LET nextItem == Min(ahead \ docs)
                   IN  /\ askWith' = IF way = "named" THEN nextItem ELSE Max(docs)
                       /\ skipped' = skipped \cup {nextItem}
    /\ seated' = IF askWith = 0 THEN table ELSE seated
    /\ hurt' = (hurt \/ askWith \in spent)
    /\ UNCHANGED <<table, spent, way, halves, totalPages>>

-----------------------------------------------------------------------------
(* getAllWithPagination: the rows and the total are asked for together, in two queries. *)

\* The second of them makes the answer.
Reads(half) ==
    /\ way = "number" /\ ~done /\ half \notin halves
    /\ IF halves = {}
       THEN halves' = {half} /\ UNCHANGED <<askWith, done>>
       ELSE halves' = {} /\ askWith' = askWith + 1 /\ done' = (askWith' >= totalPages')
    /\ seated' = IF askWith = 0 /\ halves = {} THEN table ELSE seated
    /\ UNCHANGED <<table, spent, way, skipped, hurt>>

ReadDocs ==
    /\ given' = given \cup Firsts(table \ Firsts(table, askWith * Limit), Limit)
    /\ UNCHANGED totalPages
    /\ Reads("docs")

\* Math.ceil(total / limit)
ReadTotal ==
    /\ totalPages' = (Cardinality(table) + Limit - 1) \div Limit
    /\ UNCHANGED given
    /\ Reads("total")

-----------------------------------------------------------------------------
PagesInit ==
    /\ way = "none" /\ askWith = 0 /\ halves = {} /\ totalPages = 0
    /\ table = {} /\ spent = {} /\ given = {} /\ seated = {} /\ skipped = {}
    /\ done = FALSE /\ hurt = FALSE

PagesNext ==
    \/ \E p \in Places : CreateRow(p) \/ DeleteRow(p)
    \/ \E w \in {"named", "last", "number"} : Begin(w)
    \/ PageByCursor \/ ReadDocs \/ ReadTotal

PagesSpec == PagesInit /\ [][PagesNext]_pageVars

-----------------------------------------------------------------------------
\* A client that was told there is no more, and was not hurt, was given every row that was
\* there all along if it asked with the last row of each page or by number.  One that asks
\* with the cursor the page names was given all but the rows named: that cursor is the first
\* row of the next page, and the next page leaves the cursor's row out.
PagesComplete ==
    done /\ ~hurt => seated \ given = IF way = "named" THEN seated \cap skipped ELSE {}
=============================================================================
