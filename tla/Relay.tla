-------------------------------- MODULE Relay --------------------------------
(***************************************************************************)
(* fastql/relay.py: connection_from_list, and a client that pages through  *)
(* a list with it while the list changes at its end.                       *)
(*                                                                         *)
(* The client goes forward with first and the end cursor it got, or        *)
(* backward with last and the start cursor, until the page info says there *)
(* is no more.  The other cursor argument, if it has one, stays the same.  *)
(* An element is a number, so that one that takes the place of another is  *)
(* not taken for it.                                                       *)
(*                                                                         *)
(* Operators named Bug... are plausible mistakes in the definition below   *)
(* them; no specification uses them (see PROJECT.json, "mutants").         *)
(***************************************************************************)
EXTENDS Integers, Sequences

CONSTANTS
  MaxLength,      \* bound: the length of the list
  MaxElements,    \* bound: elements there ever are; those from MaxLength on are appended
  PageSizes,      \* the values of first and last the client asks for
  CursorOffsets   \* the offsets of cursors a client may begin with, of the list or not

ASSUME RelayAssumption ==
  MaxLength \in Nat /\ MaxElements \in Nat /\ PageSizes \subseteq Nat \ {0} /\ CursorOffsets \subseteq Int

\* A cursor is the offset it encodes, any integer.  None stands for a cursor that
\* cursor_to_offset cannot read, too: both give the default.
Cursor(o) == [given |-> TRUE, offset |-> o]
NoCursor == [given |-> FALSE, offset |-> 0]
NoLimit == -1
Cursors == {NoCursor} \cup {Cursor(o) : o \in CursorOffsets}

VARIABLES
  data,       \* the list, a sequence of elements
  upcoming,   \* the next element to be appended
  direction,  \* "forward" or "backward"
  origin,     \* the cursor the client began with: after going forward, before going backward
  limit,      \* the other one
  cursor,     \* the cursor the client goes on from
  edges,      \* the edges it got so far, in the order of the pages' places in the list
  finished    \* the page info said there is no more

pagingVars == <<data, upcoming, direction, origin, limit, cursor, edges, finished>>

AtLeast(a, b) == IF a < b THEN b ELSE a  \* max(a, b)
AtMost(a, b) == IF a < b THEN a ELSE b   \* min(a, b)

OffsetOr(c, default) == IF c.given THEN c.offset ELSE default

\* start_offset and end_offset: after, before and first, then last, then the clamps.
BugStartsAtCursor(after) == AtLeast(0, OffsetOr(after, -1))
StartAfter(after) == AtLeast(-1, OffsetOr(after, -1)) + 1
EndByFirst(len, first, after, before) ==
  LET end == AtMost(len, OffsetOr(before, len))
  IN IF first = NoLimit THEN end ELSE AtMost(end, StartAfter(after) + first)
StartOffset(len, first, after, last, before) ==
  LET start == StartAfter(after)
  IN AtLeast(0, IF last = NoLimit THEN start
                ELSE AtLeast(start, EndByFirst(len, first, after, before) - last))
EndOffset(len, first, after, last, before) ==
  AtLeast(StartOffset(len, first, after, last, before),
          AtMost(EndByFirst(len, first, after, before), len))

\* The edges for range(start_offset, end_offset).
Edges(first, after, last, before) ==
  LET start == StartOffset(Len(data), first, after, last, before)
  IN [n \in 1..EndOffset(Len(data), first, after, last, before) - start |->
        [node |-> data[start + n], offset |-> start + n - 1]]

HasPreviousPage(len, first, after, last, before) ==
  last # NoLimit /\ StartOffset(len, first, after, last, before) > OffsetOr(after, -1) + 1
HasNextPage(len, first, after, last, before) ==
  first # NoLimit /\ EndOffset(len, first, after, last, before) < OffsetOr(before, len)

PagingInit ==
  /\ \E length \in 0..MaxLength : data = [n \in 1..length |-> n - 1]
  /\ upcoming = MaxLength
  /\ direction \in {"forward", "backward"}
  /\ origin \in Cursors /\ limit \in Cursors
  /\ cursor = origin
  /\ edges = <<>>
  /\ finished = FALSE

\* A page without edges has no cursors: the client keeps the one it has.
Forward(first) ==
  LET page == Edges(first, cursor, NoLimit, limit) IN
  /\ direction = "forward" /\ ~finished
  /\ edges' = edges \o page
  /\ cursor' = IF page = <<>> THEN cursor ELSE Cursor(page[Len(page)].offset)
  /\ finished' = ~HasNextPage(Len(data), first, cursor, NoLimit, limit)
  /\ UNCHANGED <<data, upcoming, direction, origin, limit>>

Backward(last) ==
  LET page == Edges(NoLimit, limit, last, cursor) IN
  /\ direction = "backward" /\ ~finished
  /\ edges' = page \o edges
  /\ cursor' = IF page = <<>> THEN cursor ELSE Cursor(page[1].offset)
  /\ finished' = ~HasPreviousPage(Len(data), NoLimit, limit, last, cursor)
  /\ UNCHANGED <<data, upcoming, direction, origin, limit>>

\* The list changes at its end between two requests.
Grow ==
  /\ ~finished /\ Len(data) < MaxLength /\ upcoming < MaxElements
  /\ data' = Append(data, upcoming)
  /\ upcoming' = upcoming + 1
  /\ UNCHANGED <<direction, origin, limit, cursor, edges, finished>>
Shrink ==
  /\ ~finished /\ data # <<>>
  /\ data' = SubSeq(data, 1, Len(data) - 1)
  /\ UNCHANGED <<upcoming, direction, origin, limit, cursor, edges, finished>>

PagingNext ==
  \/ \E n \in PageSizes : Forward(n) \/ Backward(n)
  \/ Grow \/ Shrink

-----------------------------------------------------------------------------
Appended(element) == element >= MaxLength
Got(element) == \E n \in DOMAIN edges : edges[n].node = element

\* What the client asked for: the part of the list between its two cursors.
Asked(offset) ==
  LET after == IF direction = "forward" THEN origin ELSE limit
      before == IF direction = "forward" THEN limit ELSE origin
  IN (after.given => offset > after.offset) /\ (before.given => offset < before.offset)

\* The client was past the place before the element that stands there now came: going
\* forward it got one that stood there and is gone, going backward one before it.
Passed(offset) ==
  \E n \in DOMAIN edges :
    IF direction = "forward" THEN edges[n].offset = offset ELSE edges[n].offset <= offset

\* A client that pages to the end gets no element twice, and all in the order of the
\* list.  It gets every element it asked for that stayed in the list from the
\* beginning, and of the appended ones all but those that came to a place behind it.
PagesCoverTheList ==
  /\ \A m, n \in DOMAIN edges : m < n =>
       /\ edges[m].node # edges[n].node
       /\ \A i, j \in DOMAIN data : data[i] = edges[m].node /\ data[j] = edges[n].node => i < j
  /\ finished => \A i \in DOMAIN data : Asked(i - 1) =>
       Got(data[i]) \/ (Appended(data[i]) /\ Passed(i - 1))
=============================================================================
