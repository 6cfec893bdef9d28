------------------------------ MODULE Messages ------------------------------
(***************************************************************************)
(* MessageService: the messages of one conversation, read by one of its    *)
(* two participants.  Messages are ordered by createdAt, a millisecond     *)
(* that several may share; a page of them is read in one call and moves    *)
(* the reader's cursor, lastMessageReadAt, in another.  A client walks the *)
(* conversation page by page while messages come and go.                   *)
(***************************************************************************)
EXTENDS Integers, FiniteSets, FiniteSetsExt

CONSTANTS
    Reader, Peer,   \* the participants
    Limit,          \* messages on a page
    MaxMessages,    \* bound: messages
    MaxTime,        \* bound: milliseconds
    MaxReads,       \* bound: read requests at once
    MaxSends        \* bound: send requests at once

ASSUME MessagesConstants ==
    /\ Reader # Peer
    /\ Limit \in Nat \ {0} /\ MaxMessages \in Nat /\ MaxTime \in Nat \ {0}
    /\ MaxReads \in Nat /\ MaxSends \in Nat

VARIABLES
    count,          \* messages created: ids are 1..count
    createdAt, author,
    deleted,        \* messages with isDeleted
    time,           \* the current millisecond
    sending,        \* those who passed the check of sendMessage
    readAt,         \* lastMessageReadAt, 0 before the first read
    marking,        \* read requests that have their page and have not moved the cursor yet
    shownUntil,     \* history: the newest moment the reader was shown, by a page answered or by
                    \* marking the whole conversation
    walk            \* the client's walk through the pages

textVars == <<count, createdAt, author, deleted, time>>
readVars == <<readAt, marking, shownUntil>>
messageVars == <<textVars, sending, readVars, walk>>

Talkers == {Reader, Peer}
Ids == 1..MaxMessages
Times == 1..MaxTime
Visible == (1..count) \ deleted

\* getUnreadCount counts these.
Unread == {m \in Visible : author[m] # Reader /\ createdAt[m] > readAt}

NoWalk == [dir |-> "none", done |-> FALSE, cursor |-> 0, seen |-> {}, upTo |-> 0]

-----------------------------------------------------------------------------
\* sendMessage: the conversation and the sender's row are looked up, both participants stay,
\* then the message is stored; the jobs and the emission that follow belong to the workers.
CheckParticipantOf(p) ==
    /\ p \notin sending /\ Cardinality(sending) < MaxSends /\ count < MaxMessages
    /\ sending' = sending \cup {p}
    /\ UNCHANGED <<textVars, readVars, walk>>

StoreMessage(p) ==
    /\ p \in sending /\ count < MaxMessages
    /\ count' = count + 1
    /\ createdAt' = [createdAt EXCEPT ![count + 1] = time]
    /\ author' = [author EXCEPT ![count + 1] = p]
    /\ sending' = sending \ {p}
    /\ UNCHANGED <<deleted, time, readVars, walk>>

\* deleteMessage: the author's message, marked and kept.
DeleteMessage(m) ==
    /\ m \in Visible
    /\ deleted' = deleted \cup {m}
    /\ UNCHANGED <<count, createdAt, author, time, sending, readVars, walk>>

MillisecondPasses ==
    /\ time < MaxTime
    /\ time' = time + 1
    /\ UNCHANGED <<count, createdAt, author, deleted, sending, readVars, walk>>

-----------------------------------------------------------------------------
\* findMany with take: the n newest (or oldest) of a set; which of those that share a
\* millisecond is up to the database.
Newest(n, S) ==
    {T \in SUBSET S : Cardinality(T) = (IF Cardinality(S) < n THEN Cardinality(S) ELSE n)
                      /\ \A p \in T, q \in S \ T : createdAt[p] >= createdAt[q]}
Oldest(n, S) ==
    {T \in SUBSET S : Cardinality(T) = (IF Cardinality(S) < n THEN Cardinality(S) ELSE n)
                      /\ \A p \in T, q \in S \ T : createdAt[p] <= createdAt[q]}

TimesOf(T) == {createdAt[m] : m \in T}

\* The page is there; markMessagesAsRead takes the last id of it as the database returned
\* it, which of a page in descending order is the oldest message. An empty page marks nothing.
MarkLast(page, last) ==
    /\ Cardinality(marking) < MaxReads
    /\ marking' = IF page = {} THEN marking ELSE marking \cup {[page |-> page, last |-> last]}
    /\ UNCHANGED <<textVars, sending, readAt, shownUntil>>

\* The client's next position: upTo is the newest message its walk has to show.
Walk(dir, page, cursor, more, upTo) ==
    walk' = [dir |-> dir, done |-> ~more, seen |-> walk.seen \cup page, upTo |-> upTo,
             cursor |-> IF more THEN cursor ELSE walk.cursor]

Walking(dir) == walk.dir = dir /\ ~walk.done

\* getMessagesByConversation: a page by number, newest first. From the first a client may walk
\* back, before the oldest message it shows.
GetMessagesByConversation(n) ==
    \E skipped \in Newest((n - 1) * Limit, Visible) :
        \E page \in Newest(Limit, Visible \ skipped) :
            /\ MarkLast(page, Min(TimesOf(page)))
            /\ \/ UNCHANGED walk
               \/ n = 1 /\ page # {} /\ walk = NoWalk
                  /\ Walk("back", page, Min(TimesOf(page)), TRUE, count)

\* Mutant: hasMore is tested with the page already cut to the limit.
MutHasMore ==
    /\ Walking("back")
    /\ LET older == {m \in Visible : createdAt[m] < walk.cursor} IN
        \E page \in Newest(Limit, older) :
            /\ MarkLast(page, Min(TimesOf(page)))
            /\ Walk("back", page, Max(TimesOf(page)), Cardinality(page) > Limit, walk.upTo)

\* getMessagesWithCursor with before: newest first, below the cursor. nextCursor is taken from
\* the list after reverse() turned it round in place: it is the newest message of the page.
GetMessagesBefore ==
    /\ Walking("back")
    /\ LET older == {m \in Visible : createdAt[m] < walk.cursor} IN
        \E page \in Newest(Limit, older) :
            /\ MarkLast(page, Min(TimesOf(page)))
            /\ Walk("back", page, Max(TimesOf(page)), Cardinality(older) > Limit, walk.upTo)

\* getMessagesWithCursor with after, or without a cursor to begin with: oldest first.
GetMessagesAfter ==
    /\ walk = NoWalk \/ Walking("forth")
    /\ LET newer == {m \in Visible : createdAt[m] > walk.cursor} IN
        \E page \in Oldest(Limit, newer) :
            /\ MarkLast(page, Max(TimesOf(page)))
            /\ Walk("forth", page, Max(TimesOf(page)), Cardinality(newer) > Limit, count)

Show(times) == shownUntil' = Max(times \cup {shownUntil})

\* Mutant: the cursor becomes the present moment.
MutReadNow(r) ==
    /\ r \in marking
    /\ readAt' = time /\ marking' = marking \ {r} /\ Show(TimesOf(r.page))
    /\ UNCHANGED <<textVars, sending, walk>>

\* markMessagesAsRead, the update, after which the page is answered.
MarkMessagesAsRead(r) ==
    /\ r \in marking
    /\ readAt' = r.last
    /\ marking' = marking \ {r}
    /\ Show(TimesOf(r.page))
    /\ UNCHANGED <<textVars, sending, walk>>

\* The update rejects: the page is not answered, the cursor stays, and the client starts over.
MarkFails(r) ==
    /\ r \in marking
    /\ marking' = marking \ {r}
    /\ walk' = NoWalk
    /\ UNCHANGED <<textVars, sending, readAt, shownUntil>>

\* ConversationService.markAsRead: everything up to now.
MarkAsRead ==
    /\ readAt' = time /\ Show({time})
    /\ UNCHANGED <<textVars, sending, marking, walk>>

-----------------------------------------------------------------------------
MessagesInit ==
    /\ count = 0 /\ deleted = {} /\ time = 1
    /\ createdAt = [m \in Ids |-> 1]
    /\ author = [m \in Ids |-> Peer]
    /\ sending = {}
    /\ readAt = 0 /\ marking = {} /\ shownUntil = 0
    /\ walk = NoWalk

MessagesNext ==
    \/ MillisecondPasses \/ MarkAsRead
    \/ \E p \in Talkers : CheckParticipantOf(p) \/ StoreMessage(p)
    \/ \E m \in Ids : DeleteMessage(m)
    \/ \E n \in 1..2 : GetMessagesByConversation(n)
    \/ GetMessagesBefore \/ GetMessagesAfter
    \/ \E r \in marking : MarkMessagesAsRead(r) \/ MarkFails(r)

MessagesSpec == MessagesInit /\ [][MessagesNext]_messageVars

-----------------------------------------------------------------------------
MessagesTypeOK ==
    /\ count \in 0..MaxMessages /\ deleted \subseteq 1..count /\ time \in Times
    /\ createdAt \in [Ids -> Times] /\ author \in [Ids -> Talkers]
    /\ sending \subseteq Talkers
    /\ readAt \in 0..MaxTime /\ shownUntil \in 0..MaxTime
    /\ marking \subseteq [page : SUBSET (1..count), last : Times]
    /\ walk \in [dir : {"none", "back", "forth"}, done : BOOLEAN, cursor : 0..MaxTime,
                 seen : SUBSET (1..count), upTo : 0..count]

\* A message of the other participant that is newer than everything the reader was shown is
\* counted as unread, whichever requests were on their way when it arrived and in whatever
\* order their cursors were written.
NewStaysUnread ==
    \A m \in Visible : author[m] # Reader /\ createdAt[m] > shownUntil => m \in Unread

\* A finished walk has shown every message it had to and that is not deleted, those that were
\* there when it began (back) or at its last page (forth), though messages were sent and
\* deleted between its pages: except one that shares its millisecond with a message shown,
\* which the strict comparison with the cursor may skip.
WalkComplete ==
    \A m \in Visible :
        walk.done /\ m <= walk.upTo =>
            \E s \in walk.seen : s = m \/ createdAt[s] = createdAt[m]

\* The pages shown are read: with no request on its way, what is counted as unread is newer
\* than everything the reader was shown.
ShownIsRead == marking = {} => \A m \in Unread : createdAt[m] > shownUntil
=============================================================================
