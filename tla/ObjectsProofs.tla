---------------------------- MODULE ObjectsProofs ----------------------------
(***************************************************************************)
(* Proofs about Relay's connections, Federation's entities and the files   *)
(* of Uploads, for lists, page sizes, representations, resolvers and       *)
(* requests of any number.                                                 *)
(***************************************************************************)
EXTENDS Objects, TLAPS, WellFoundedInduction, SequenceTheorems

USE DEF NoLimit

-----------------------------------------------------------------------------
(* Relay *)

AnyCursor == [given : BOOLEAN, offset : Int]
AnyEdge == [node : Nat, offset : Nat]

LEMMA CursorsAre ==
  /\ NoCursor \in AnyCursor /\ ~NoCursor.given
  /\ \A o \in Int : Cursor(o) \in AnyCursor /\ Cursor(o).given /\ Cursor(o).offset = o
  /\ Cursors \subseteq AnyCursor
<1>1. NoCursor \in AnyCursor /\ ~NoCursor.given
  BY DEF AnyCursor, NoCursor
<1>2. ASSUME NEW o \in Int
      PROVE  Cursor(o) \in AnyCursor /\ Cursor(o).given /\ Cursor(o).offset = o
  BY DEF AnyCursor, Cursor
<1>3. CursorOffsets \subseteq Int
  BY RelayAssumption
<1> QED
  BY <1>1, <1>2, <1>3, Zenon DEF Cursors

\* Whatever the arguments, a page lies within the list and within after and
\* before, and has at most first and at most last elements.
LEMMA PageBounds ==
  ASSUME NEW len \in Nat,
         NEW first \in Nat \cup {NoLimit}, NEW after \in AnyCursor,
         NEW last \in Nat \cup {NoLimit}, NEW before \in AnyCursor
  PROVE  LET start == StartOffset(len, first, after, last, before)
             end == EndOffset(len, first, after, last, before)
         IN /\ start \in Nat /\ end \in Nat /\ start <= end
            /\ after.given => start > after.offset
            /\ start < end => end <= len /\ (before.given => end <= before.offset)
            /\ first # NoLimit => end - start <= first
            /\ last # NoLimit => end - start <= last
<1>1. /\ after.given \in BOOLEAN /\ after.offset \in Int
      /\ before.given \in BOOLEAN /\ before.offset \in Int
  BY DEF AnyCursor
<1>2. StartAfter(after) \in Nat /\ (after.given => StartAfter(after) > after.offset)
  BY <1>1 DEF StartAfter, AtLeast, OffsetOr
<1>3. /\ EndByFirst(len, first, after, before) \in Int
      /\ EndByFirst(len, first, after, before) <= len
      /\ before.given => EndByFirst(len, first, after, before) <= before.offset
      /\ first # NoLimit => EndByFirst(len, first, after, before) <= StartAfter(after) + first
  BY <1>1, <1>2 DEF EndByFirst, OffsetOr, AtMost
<1>4. /\ StartOffset(len, first, after, last, before) \in Nat
      /\ StartOffset(len, first, after, last, before) >= StartAfter(after)
      /\ last # NoLimit => StartOffset(len, first, after, last, before) >= EndByFirst(len, first, after, before) - last
  BY <1>2, <1>3 DEF StartOffset, AtLeast
<1> DEFINE e == EndByFirst(len, first, after, before)
           start == StartOffset(len, first, after, last, before)
           end == EndOffset(len, first, after, last, before)
<1>5. end \in Nat /\ start <= end /\ (end = start \/ (start < end /\ end <= e))
  <2>1. end = AtLeast(start, AtMost(e, len))
    BY DEF EndOffset
  <2>2. e \in Int /\ start \in Nat
    BY <1>3, <1>4
  <2> HIDE DEF e, start, end
  <2> QED
    BY <2>1, <2>2 DEF AtLeast, AtMost
<1> HIDE DEF e, start, end
<1>6. /\ e \in Int /\ e <= len /\ (before.given => e <= before.offset)
      /\ first # NoLimit => e <= StartAfter(after) + first
  BY <1>3 DEF e
<1>7. start \in Nat /\ start >= StartAfter(after) /\ (last # NoLimit => start >= e - last)
  BY <1>4 DEF e, start
<1>8. /\ start \in Nat /\ end \in Nat /\ start <= end
      /\ after.given => start > after.offset
      /\ start < end => end <= len /\ (before.given => end <= before.offset)
      /\ first # NoLimit => end - start <= first
      /\ last # NoLimit => end - start <= last
  BY <1>1, <1>2, <1>5, <1>6, <1>7
<1> QED
  BY <1>8 DEF start, end

\* Offsets o that a pair of cursors leaves of the list.
Within(o, len, after, before) ==
  /\ o < len
  /\ after.given => o > after.offset
  /\ before.given => o < before.offset

\* A page of first elements begins behind its cursor; without a next one nothing is left.
LEMMA ForwardPage ==
  ASSUME NEW len \in Nat, NEW first \in Nat, NEW after \in AnyCursor, NEW before \in AnyCursor
  PROVE  LET start == StartOffset(len, first, after, NoLimit, before)
             end == EndOffset(len, first, after, NoLimit, before)
         IN /\ \A o \in Nat : o < start => after.given /\ o <= after.offset
            /\ ~HasNextPage(len, first, after, NoLimit, before) =>
                 \A o \in Nat : Within(o, len, after, before) => o < end
<1>1. /\ after.given \in BOOLEAN /\ after.offset \in Int
      /\ before.given \in BOOLEAN /\ before.offset \in Int
  BY DEF AnyCursor
<1>2. /\ StartAfter(after) \in Nat
      /\ StartAfter(after) = 0 \/ (after.given /\ StartAfter(after) = after.offset + 1)
  BY <1>1 DEF StartAfter, AtLeast, OffsetOr
<1>3. StartOffset(len, first, after, NoLimit, before) = StartAfter(after)
  BY <1>2 DEF StartOffset, AtLeast
<1>4. ~HasNextPage(len, first, after, NoLimit, before)
        => EndOffset(len, first, after, NoLimit, before) >= OffsetOr(before, len)
  <2>1. EndOffset(len, first, after, NoLimit, before) \in Nat /\ OffsetOr(before, len) \in Int
    BY <1>1, PageBounds DEF OffsetOr
  <2> QED
    BY <2>1 DEF HasNextPage
<1>5. EndOffset(len, first, after, NoLimit, before) \in Nat
  BY PageBounds
<1> QED
  BY <1>1, <1>2, <1>3, <1>4, <1>5 DEF Within, OffsetOr

\* A page of last elements ends before its cursor, and is empty only where nothing is
\* left; without a previous one it begins behind the other cursor.
LEMMA BackwardPage ==
  ASSUME NEW len \in Nat, NEW last \in Nat \ {0}, NEW after \in AnyCursor, NEW before \in AnyCursor
  PROVE  LET start == StartOffset(len, NoLimit, after, last, before)
             end == EndOffset(len, NoLimit, after, last, before)
         IN /\ \A o \in Nat : Within(o, len, after, before) => o < end /\ start < end
            /\ ~HasPreviousPage(len, NoLimit, after, last, before) =>
                 \A o \in Nat : (after.given => o > after.offset) => o >= start
<1> DEFINE E == EndByFirst(len, NoLimit, after, before)
           start == StartOffset(len, NoLimit, after, last, before)
           end == EndOffset(len, NoLimit, after, last, before)
<1>1. /\ after.given \in BOOLEAN /\ after.offset \in Int
      /\ before.given \in BOOLEAN /\ before.offset \in Int
  BY DEF AnyCursor
<1>2. /\ StartAfter(after) \in Nat
      /\ StartAfter(after) = 0 \/ (after.given /\ StartAfter(after) = after.offset + 1)
  BY <1>1 DEF StartAfter, AtLeast, OffsetOr
<1>3. E \in Int /\ E <= len /\ \A o \in Nat : Within(o, len, after, before) => o < E
  BY <1>1 DEF EndByFirst, OffsetOr, AtMost, Within
<1>4. start \in Nat /\ start >= E - last /\ (start = StartAfter(after) \/ start = E - last)
  BY <1>2, <1>3 DEF StartOffset, AtLeast
<1>5. end \in Nat /\ ((end = start /\ E <= start) \/ (end = E /\ start < E))
  <2>1. end = AtLeast(start, AtMost(E, len))
    BY DEF EndOffset
  <2> HIDE DEF E, start, end
  <2> QED
    BY <1>3, <1>4, <2>1 DEF AtLeast, AtMost
<1>6. \A o \in Nat : (after.given => o > after.offset) => o >= StartAfter(after)
  BY <1>1, <1>2
<1>7. ~HasPreviousPage(len, NoLimit, after, last, before) => start <= OffsetOr(after, -1) + 1
  BY <1>1, <1>4 DEF HasPreviousPage, OffsetOr
<1> HIDE DEF E, start, end
<1>8. ASSUME NEW o \in Nat, Within(o, len, after, before)
      PROVE  o < end /\ start < end
  <2>1. o < E /\ o >= StartAfter(after)
    BY <1>3, <1>6, <1>8 DEF Within
  <2> QED
    BY <1>2, <1>3, <1>4, <1>5, <2>1
<1>9. ASSUME ~HasPreviousPage(len, NoLimit, after, last, before), NEW o \in Nat, after.given => o > after.offset
      PROVE  o >= start
  BY <1>1, <1>4, <1>7, <1>9 DEF OffsetOr
<1> QED
  BY <1>8, <1>9 DEF start, end

\* The list: an element that was there from the beginning has its own place, and no
\* element is there twice.
ListInv ==
  /\ data \in Seq(Nat) /\ upcoming \in Nat /\ upcoming >= MaxLength
  /\ \A i \in DOMAIN data : data[i] < upcoming /\ (~Appended(data[i]) => data[i] = i - 1)
  /\ \A i, j \in DOMAIN data : data[i] = data[j] => i = j

\* Edges of elements that stand where they stood, or are gone; what stands in the
\* place of one that is gone was appended.
EdgesAreTrue(s) ==
  /\ s \in Seq(AnyEdge)
  /\ \A n \in DOMAIN s :
       /\ s[n].node < upcoming
       /\ \A i \in DOMAIN data :
            /\ data[i] = s[n].node => i = s[n].offset + 1
            /\ i = s[n].offset + 1 => data[i] = s[n].node \/ Appended(data[i])

Ordered(s) ==
  \A m, n \in DOMAIN s : m < n => s[m].offset < s[n].offset /\ s[m].node # s[n].node

\* The client has all places up to its cursor, or what it asked for behind it.
PlaceOfCursor ==
  /\ edges = <<>> => cursor = origin
  /\ edges # <<>> => cursor = Cursor(edges[IF direction = "forward" THEN Len(edges) ELSE 1].offset)
NothingLeftOut ==
  edges # <<>> =>
    /\ direction = "forward" => \A o \in Nat : Asked(o) /\ o <= cursor.offset =>
         \E n \in DOMAIN edges : edges[n].offset = o
    /\ direction = "backward" => \A i \in DOMAIN data : Asked(i - 1) /\ i - 1 >= cursor.offset =>
         Got(data[i]) \/ (Appended(data[i]) /\ Passed(i - 1))
AllThere == \A i \in DOMAIN data : Asked(i - 1) => Got(data[i]) \/ (Appended(data[i]) /\ Passed(i - 1))

PagingInv ==
  /\ direction \in {"forward", "backward"}
  /\ origin \in AnyCursor /\ limit \in AnyCursor /\ cursor \in AnyCursor
  /\ ListInv
  /\ EdgesAreTrue(edges) /\ Ordered(edges)
  /\ PlaceOfCursor
  /\ NothingLeftOut
  /\ finished => AllThere

LEMMA PagingInitially == PagingInit => PagingInv
<1> SUFFICES ASSUME PagingInit PROVE PagingInv
  OBVIOUS
<1>1. PICK length \in 0..MaxLength : data = [n \in 1..length |-> n - 1]
  BY DEF PagingInit
<1>2. data \in Seq(Nat) /\ DOMAIN data = 1..length /\ \A i \in 1..length : data[i] = i - 1
  BY <1>1, RelayAssumption
<1>3. ListInv
  BY <1>2, RelayAssumption DEF ListInv, PagingInit, Appended
<1>4. origin \in AnyCursor /\ limit \in AnyCursor /\ cursor = origin
  BY CursorsAre DEF PagingInit
<1>5. edges = <<>> /\ EdgesAreTrue(edges) /\ Ordered(edges)
  BY DEF PagingInit, EdgesAreTrue, Ordered
<1> QED
  BY <1>3, <1>4, <1>5 DEF PagingInv, PagingInit, PlaceOfCursor, NothingLeftOut

\* A page has the elements that stand at its offsets.
PageFrom(page, start, end) ==
  /\ page \in Seq(AnyEdge) /\ Len(page) = end - start
  /\ \A n \in 1..end - start :
       /\ start + n \in DOMAIN data
       /\ page[n].offset = start + n - 1 /\ page[n].node = data[start + n]

LEMMA PageIs ==
  ASSUME ListInv, NEW first \in Nat \cup {NoLimit}, NEW last \in Nat \cup {NoLimit},
         NEW after \in AnyCursor, NEW before \in AnyCursor
  PROVE  PageFrom(Edges(first, after, last, before),
                  StartOffset(Len(data), first, after, last, before),
                  EndOffset(Len(data), first, after, last, before))
<1>1. PICK start : start = StartOffset(Len(data), first, after, last, before)
  OBVIOUS
<1>2. PICK end : end = EndOffset(Len(data), first, after, last, before)
  OBVIOUS
<1>3. data \in Seq(Nat) /\ Len(data) \in Nat
  BY DEF ListInv
<1>4. start \in Nat /\ end \in Nat /\ start <= end /\ (start < end => end <= Len(data))
  BY <1>1, <1>2, <1>3, PageBounds
<1>5. Edges(first, after, last, before)
        = [n \in 1..end - start |-> [node |-> data[start + n], offset |-> start + n - 1]]
  BY <1>1, <1>2 DEF Edges
<1>6. \A n \in 1..end - start : start + n \in 1..Len(data) /\ start + n - 1 \in Nat /\ data[start + n] \in Nat
  BY <1>3, <1>4
<1>7. PICK page : page = [n \in 1..end - start |-> [node |-> data[start + n], offset |-> start + n - 1]]
  OBVIOUS
<1>8. end - start \in Nat /\ page \in Seq(AnyEdge) /\ Len(page) = end - start
  <2>1. page \in [1..end - start -> AnyEdge]
    BY <1>6, <1>7 DEF AnyEdge
  <2>2. PICK size \in Nat : size = end - start
    BY <1>4
  <2>3. page \in [1..size -> AnyEdge]
    BY <2>1, <2>2
  <2>4. page \in Seq(AnyEdge) /\ Len(page) = size
    BY <2>3
  <2> QED
    BY <2>2, <2>4
<1>9. \A n \in 1..end - start : page[n].offset = start + n - 1 /\ page[n].node = data[start + n]
  BY <1>7
<1>10. page = Edges(first, after, last, before) /\ DOMAIN data = 1..Len(data)
  BY <1>3, <1>5, <1>7
<1>11. PageFrom(page, start, end)
  BY <1>6, <1>8, <1>9, <1>10 DEF PageFrom
<1> QED
  BY <1>1, <1>2, <1>10, <1>11

\* A page is true of the list, whatever was there before.
LEMMA PageIsTrue ==
  ASSUME ListInv, NEW page, NEW start \in Nat, NEW end \in Nat, PageFrom(page, start, end)
  PROVE  EdgesAreTrue(page) /\ Ordered(page)
<1>1. /\ page \in Seq(AnyEdge) /\ DOMAIN page = 1..end - start
      /\ \A n \in 1..end - start :
           start + n \in DOMAIN data /\ page[n].offset = start + n - 1 /\ page[n].node = data[start + n]
  <2>1. page \in Seq(AnyEdge) /\ Len(page) = end - start
    BY DEF PageFrom
  <2>2. DOMAIN page = 1..Len(page)
    BY <2>1
  <2> QED
    BY <2>1, <2>2, Zenon DEF PageFrom
<1>2. /\ \A i \in DOMAIN data : data[i] < upcoming
      /\ \A i, j \in DOMAIN data : data[i] = data[j] => i = j
      /\ DOMAIN data \subseteq Nat
  BY DEF ListInv
<1>3. ASSUME NEW n \in DOMAIN page
      PROVE  /\ page[n].node < upcoming
             /\ \A i \in DOMAIN data :
                  /\ data[i] = page[n].node => i = page[n].offset + 1
                  /\ i = page[n].offset + 1 => data[i] = page[n].node \/ Appended(data[i])
  <2>1. /\ n \in Int /\ start + n \in DOMAIN data
        /\ page[n].offset = start + n - 1 /\ page[n].node = data[start + n]
    <3>1. n \in 1..end - start
      BY <1>1
    <3> QED
      BY <1>1, <3>1
  <2>2. page[n].offset + 1 = start + n
    BY <2>1
  <2> QED
    BY <1>2, <2>1, <2>2, Zenon
<1>4. Ordered(page)
  BY <1>1, <1>2 DEF Ordered
<1> QED
  BY <1>1, <1>3, <1>4 DEF EdgesAreTrue

\* Two sequences of edges one behind the other.
LEMMA Joined ==
  ASSUME NEW a \in Seq(AnyEdge), NEW b \in Seq(AnyEdge)
  PROVE  /\ a \o b \in Seq(AnyEdge) /\ Len(a \o b) = Len(a) + Len(b)
         /\ \A n \in DOMAIN (a \o b) : \/ n \in DOMAIN a /\ (a \o b)[n] = a[n]
                                       \/ n - Len(a) \in DOMAIN b /\ (a \o b)[n] = b[n - Len(a)]
         /\ \A n \in DOMAIN a : n \in DOMAIN (a \o b) /\ (a \o b)[n] = a[n]
         /\ \A n \in DOMAIN b : Len(a) + n \in DOMAIN (a \o b) /\ (a \o b)[Len(a) + n] = b[n]
<1>1. /\ a \o b \in Seq(AnyEdge) /\ Len(a \o b) = Len(a) + Len(b)
      /\ \A i \in 1..Len(a) + Len(b) : (a \o b)[i] = IF i <= Len(a) THEN a[i] ELSE b[i - Len(a)]
  BY ConcatProperties
<1>2. PICK s : s = a \o b
  OBVIOUS
<1>3. /\ Len(a) \in Nat /\ DOMAIN a = 1..Len(a) /\ Len(b) \in Nat /\ DOMAIN b = 1..Len(b)
      /\ DOMAIN s = 1..Len(a) + Len(b)
  BY <1>1, <1>2
<1>4. \A i \in 1..Len(a) + Len(b) : s[i] = IF i <= Len(a) THEN a[i] ELSE b[i - Len(a)]
  BY <1>1, <1>2
<1>5. \A n \in DOMAIN s : \/ n \in DOMAIN a /\ s[n] = a[n]
                          \/ n - Len(a) \in DOMAIN b /\ s[n] = b[n - Len(a)]
  BY <1>3, <1>4
<1>6. \A n \in DOMAIN a : n \in DOMAIN s /\ s[n] = a[n]
  BY <1>3, <1>4
<1>7. ASSUME NEW n \in DOMAIN b
      PROVE  Len(a) + n \in DOMAIN s /\ s[Len(a) + n] = b[n]
  <2>1. Len(a) + n \in 1..Len(a) + Len(b) /\ ~(Len(a) + n <= Len(a)) /\ (Len(a) + n) - Len(a) = n
    BY <1>3
  <2> QED
    BY <1>3, <1>4, <2>1
<1> QED
  BY <1>1, <1>2, <1>5, <1>6, <1>7

LEMMA JoinedIsTrue ==
  ASSUME NEW a, NEW b, EdgesAreTrue(a), EdgesAreTrue(b), Ordered(a), Ordered(b),
         \A m \in DOMAIN a, n \in DOMAIN b : a[m].offset < b[n].offset /\ a[m].node # b[n].node
  PROVE  EdgesAreTrue(a \o b) /\ Ordered(a \o b)
<1>1. a \in Seq(AnyEdge) /\ b \in Seq(AnyEdge)
  BY DEF EdgesAreTrue
<1>2. PICK s : s = a \o b
  OBVIOUS
<1>3. /\ s \in Seq(AnyEdge)
      /\ \A n \in DOMAIN s : \/ n \in DOMAIN a /\ s[n] = a[n]
                             \/ n - Len(a) \in DOMAIN b /\ s[n] = b[n - Len(a)]
  BY <1>1, <1>2, Joined
<1>4. EdgesAreTrue(s)
  BY <1>3 DEF EdgesAreTrue
<1>5. ASSUME NEW m \in DOMAIN s, NEW n \in DOMAIN s, m < n
      PROVE  s[m].offset < s[n].offset /\ s[m].node # s[n].node
  <2>1. m \in Nat /\ n \in Nat /\ Len(a) \in Nat /\ DOMAIN a = 1..Len(a) /\ DOMAIN b = 1..Len(b) /\ Len(b) \in Nat
    BY <1>1, <1>3
  <2>2. CASE m \in DOMAIN a /\ s[m] = a[m] /\ n \in DOMAIN a /\ s[n] = a[n]
    BY <1>5, <2>2 DEF Ordered
  <2>3. CASE m - Len(a) \in DOMAIN b /\ s[m] = b[m - Len(a)] /\ n - Len(a) \in DOMAIN b /\ s[n] = b[n - Len(a)]
    <3>1. m - Len(a) < n - Len(a)
      BY <1>5, <2>1
    <3> QED
      BY <2>3, <3>1 DEF Ordered
  <2>4. CASE m \in DOMAIN a /\ s[m] = a[m] /\ n - Len(a) \in DOMAIN b /\ s[n] = b[n - Len(a)]
    BY <2>4
  <2>5. ~(m - Len(a) \in DOMAIN b /\ n \in DOMAIN a)
    BY <1>5, <2>1
  <2> QED
    BY <1>3, <2>2, <2>3, <2>4, <2>5
<1> QED
  BY <1>2, <1>4, <1>5 DEF Ordered

\* A new page has no element the client got: they would stand in the same place.
LEMMA PageIsNew ==
  ASSUME ListInv, EdgesAreTrue(edges), NEW page, NEW start \in Nat, NEW end \in Nat,
         PageFrom(page, start, end), NEW m \in DOMAIN edges, NEW n \in DOMAIN page,
         edges[m].offset # page[n].offset
  PROVE  edges[m].node # page[n].node
<1>1. /\ n \in 1..end - start /\ start + n \in DOMAIN data
      /\ page[n].offset = start + n - 1 /\ page[n].node = data[start + n]
  BY DEF PageFrom
<1>2. data[start + n] = edges[m].node => start + n = edges[m].offset + 1
  BY <1>1 DEF EdgesAreTrue
<1>3. edges[m].offset \in Nat
  <2>1. edges \in Seq(AnyEdge)
    BY DEF EdgesAreTrue
  <2>2. edges[m] \in AnyEdge
    BY <2>1
  <2> QED
    BY <2>2 DEF AnyEdge
<1> QED
  BY <1>1, <1>2, <1>3

\* The parts of the invariant a request of a page changes.
LEMMA PagingParts ==
  ASSUME PagingInv
  PROVE  /\ direction \in {"forward", "backward"}
         /\ origin \in AnyCursor /\ limit \in AnyCursor /\ cursor \in AnyCursor
         /\ ListInv /\ EdgesAreTrue(edges) /\ Ordered(edges) /\ PlaceOfCursor /\ NothingLeftOut
         /\ data \in Seq(Nat) /\ Len(data) \in Nat /\ DOMAIN data = 1..Len(data)
         /\ edges \in Seq(AnyEdge) /\ Len(edges) \in Nat /\ DOMAIN edges = 1..Len(edges)
         /\ edges = <<>> <=> Len(edges) = 0
         /\ \A m \in DOMAIN edges : edges[m].offset \in Nat
<1>1. /\ direction \in {"forward", "backward"}
      /\ origin \in AnyCursor /\ limit \in AnyCursor /\ cursor \in AnyCursor
      /\ ListInv /\ EdgesAreTrue(edges) /\ Ordered(edges) /\ PlaceOfCursor /\ NothingLeftOut
  BY DEF PagingInv
<1>2. data \in Seq(Nat) /\ edges \in Seq(AnyEdge)
  BY <1>1 DEF ListInv, EdgesAreTrue
<1>3. /\ Len(data) \in Nat /\ DOMAIN data = 1..Len(data)
      /\ Len(edges) \in Nat /\ DOMAIN edges = 1..Len(edges)
      /\ edges = <<>> <=> Len(edges) = 0
  BY <1>2
<1>4. ASSUME NEW m \in DOMAIN edges
      PROVE  edges[m].offset \in Nat
  <2>1. edges[m] \in AnyEdge
    BY <1>2
  <2> QED
    BY <2>1 DEF AnyEdge
<1> QED
  BY <1>1, <1>2, <1>3, <1>4

\* What a page does not touch stays as it is.
LEMMA PageKeeps ==
  ASSUME UNCHANGED <<data, upcoming, direction, origin, limit>>, ListInv,
         EdgesAreTrue(edges'), Ordered(edges')
  PROVE  /\ ListInv' /\ EdgesAreTrue(edges)' /\ Ordered(edges)'
         /\ \A o : Asked(o)' <=> Asked(o)
<1>1. ListInv'
  BY DEF ListInv, Appended
<1>2. EdgesAreTrue(edges)' /\ Ordered(edges)'
  BY DEF EdgesAreTrue, Ordered, Appended
<1>3. \A o : Asked(o)' <=> Asked(o)
  BY DEF Asked
<1> QED
  BY <1>1, <1>2, <1>3

LEMMA ForwardPreserves ==
  ASSUME PagingInv, NEW n \in PageSizes, Forward(n)
  PROVE  PagingInv'
<1>1. n \in Nat \ {0} /\ n \in Nat \cup {NoLimit} /\ NoLimit \in Nat \cup {NoLimit}
  BY RelayAssumption
<1>2. /\ direction = "forward"
      /\ origin \in AnyCursor /\ limit \in AnyCursor /\ cursor \in AnyCursor
      /\ ListInv /\ EdgesAreTrue(edges) /\ Ordered(edges) /\ PlaceOfCursor /\ NothingLeftOut
      /\ data \in Seq(Nat) /\ Len(data) \in Nat /\ DOMAIN data = 1..Len(data)
      /\ edges \in Seq(AnyEdge) /\ Len(edges) \in Nat /\ DOMAIN edges = 1..Len(edges)
      /\ edges = <<>> <=> Len(edges) = 0
      /\ \A m \in DOMAIN edges : edges[m].offset \in Nat
  BY PagingParts DEF Forward
<1>3. PICK page : page = Edges(n, cursor, NoLimit, limit)
  OBVIOUS
<1>4. PICK start : start = StartOffset(Len(data), n, cursor, NoLimit, limit)
  OBVIOUS
<1>5. PICK end : end = EndOffset(Len(data), n, cursor, NoLimit, limit)
  OBVIOUS
<1>6. PageFrom(page, start, end)
  BY <1>1, <1>2, <1>3, <1>4, <1>5, PageIs
<1>7. /\ start \in Nat /\ end \in Nat /\ start <= end /\ (start < end => end <= Len(data))
      /\ cursor.given => start > cursor.offset
  BY <1>1, <1>2, <1>4, <1>5, PageBounds
<1>8. /\ \A o \in Nat : o < start => cursor.given /\ o <= cursor.offset
      /\ ~HasNextPage(Len(data), n, cursor, NoLimit, limit) =>
           \A o \in Nat : Within(o, Len(data), cursor, limit) => o < end
  BY <1>1, <1>2, <1>4, <1>5, ForwardPage
<1>9. /\ edges' = edges \o page
      /\ cursor' = IF page = <<>> THEN cursor ELSE Cursor(page[Len(page)].offset)
      /\ finished' = ~HasNextPage(Len(data), n, cursor, NoLimit, limit)
      /\ UNCHANGED <<data, upcoming, direction, origin, limit>>
  BY <1>3 DEF Forward
<1>10. /\ page \in Seq(AnyEdge) /\ Len(page) = end - start /\ DOMAIN page = 1..end - start
       /\ page = <<>> <=> start = end
       /\ \A k \in 1..end - start : page[k].offset = start + k - 1
  <2>1. page \in Seq(AnyEdge) /\ Len(page) = end - start /\ \A k \in 1..end - start : page[k].offset = start + k - 1
    BY <1>6 DEF PageFrom
  <2>2. DOMAIN page = 1..Len(page) /\ (page = <<>> <=> Len(page) = 0)
    BY <2>1
  <2> QED
    BY <1>7, <2>1, <2>2
<1>11. edges # <<>> => cursor.given /\ cursor.offset = edges[Len(edges)].offset
  BY <1>2, CursorsAre DEF PlaceOfCursor
<1>12. \A m \in DOMAIN edges : edges[m].offset < start
  <2> SUFFICES ASSUME NEW m \in DOMAIN edges PROVE edges[m].offset < start
    OBVIOUS
  <2>1. m = Len(edges) \/ m < Len(edges)
    BY <1>2
  <2>2. edges[m].offset <= edges[Len(edges)].offset
    BY <1>2, <2>1 DEF Ordered
  <2> QED
    BY <1>2, <1>7, <1>11, <2>2
<1>13. EdgesAreTrue(edges') /\ Ordered(edges')
  <2>1. EdgesAreTrue(page) /\ Ordered(page)
    BY <1>2, <1>6, <1>7, PageIsTrue
  <2>2. ASSUME NEW m \in DOMAIN edges, NEW k \in DOMAIN page
        PROVE  edges[m].offset < page[k].offset /\ edges[m].node # page[k].node
    <3> k \in 1..end - start
      BY <1>10
    <3>1. page[k].offset \in Nat /\ page[k].offset >= start
      BY <1>7, <1>10
    <3>2. edges[m].offset \in Nat /\ edges[m].offset < start
      BY <1>2, <1>12
    <3>3. edges[m].offset < page[k].offset /\ edges[m].offset # page[k].offset
      BY <1>7, <3>1, <3>2
    <3> QED
      BY <1>2, <1>6, <1>7, <3>3, PageIsNew
  <2> QED
    BY <1>2, <1>9, <2>1, <2>2, JoinedIsTrue
<1>14. /\ ListInv' /\ EdgesAreTrue(edges)' /\ Ordered(edges)'
       /\ \A o : Asked(o)' <=> Asked(o)
  BY <1>2, <1>9, <1>13, PageKeeps
<1>15. /\ \A m \in DOMAIN edges : m \in DOMAIN edges' /\ edges'[m] = edges[m]
       /\ \A k \in DOMAIN page : Len(edges) + k \in DOMAIN edges' /\ edges'[Len(edges) + k] = page[k]
  BY <1>2, <1>9, <1>10, Joined
<1>16. ASSUME NEW o \in Nat, Asked(o), o < end
       PROVE  \E m \in DOMAIN edges' : edges'[m].offset = o
  <2>1. CASE o >= start
    <3>1. o - start + 1 \in 1..end - start /\ page[o - start + 1].offset = o
      BY <1>7, <1>10, <1>16, <2>1
    <3> QED
      BY <1>10, <1>15, <3>1
  <2>2. CASE o < start
    <3>1. cursor.given /\ o <= cursor.offset
      BY <1>8, <2>2
    <3>2. CASE edges = <<>>
      <4>1. origin.given /\ o <= origin.offset /\ origin.offset \in Int
        BY <1>2, <3>1, <3>2 DEF PlaceOfCursor, AnyCursor
      <4> QED
        BY <1>2, <1>16, <4>1 DEF Asked
    <3>3. CASE edges # <<>>
      BY <1>2, <1>15, <1>16, <3>1, <3>3 DEF NothingLeftOut
    <3> QED
      BY <3>2, <3>3
  <2> QED
    BY <1>7, <2>1, <2>2
<1>17. ASSUME finished', NEW i \in DOMAIN data, Asked(i - 1)
       PROVE  i - 1 \in Nat /\ i - 1 < end
  <2>1. i - 1 \in Nat /\ i - 1 < Len(data)
    BY <1>2
  <2>2. \A o \in Nat : Within(o, Len(data), cursor, limit) => o < end
    BY <1>8, <1>9, <1>17
  <2>3. limit.given => i - 1 < limit.offset
    BY <1>2, <1>17 DEF Asked
  <2>4. cursor.given /\ i - 1 <= cursor.offset => i - 1 < end
    BY <1>2, <1>7, <2>1 DEF AnyCursor
  <2>5. CASE ~cursor.given \/ i - 1 > cursor.offset
    BY <2>1, <2>2, <2>3, <2>5 DEF Within
  <2> QED
    BY <1>2, <2>1, <2>4, <2>5 DEF AnyCursor
<1>18. (finished => AllThere)'
  <2> SUFFICES ASSUME finished', NEW i \in DOMAIN data', Asked(i - 1)'
               PROVE  (Got(data[i]) \/ (Appended(data[i]) /\ Passed(i - 1)))'
    BY DEF AllThere
  <2>1. i \in DOMAIN data /\ Asked(i - 1)
    BY <1>9, <1>14
  <2>2. \E m \in DOMAIN edges' : edges'[m].offset = i - 1
    BY <1>16, <1>17, <2>1
  <2>3. PICK m \in DOMAIN edges' : edges'[m].offset = i - 1
    BY <2>2
  <2>4. data'[i] = edges'[m].node \/ Appended(data[i])'
    <3>1. i = edges'[m].offset + 1
      BY <1>2, <2>1, <2>3
    <3> QED
      BY <1>14, <3>1 DEF EdgesAreTrue
  <2>5. Passed(i - 1)'
    BY <1>2, <1>9, <2>3 DEF Passed
  <2> QED
    BY <2>4, <2>5 DEF Got
<1>19. CASE page = <<>>
  <2>1. edges' = edges /\ cursor' = cursor /\ start = end
    BY <1>2, <1>9, <1>10, <1>19
  <2>2. PlaceOfCursor' /\ cursor' \in AnyCursor
    BY <1>2, <1>9, <2>1 DEF PlaceOfCursor
  <2>3. NothingLeftOut'
    BY <1>2, <1>9, <1>14, <2>1 DEF NothingLeftOut
  <2> QED
    BY <1>2, <1>9, <1>14, <1>18, <2>2, <2>3 DEF PagingInv
<1>20. CASE page # <<>>
  <2>1. start < end /\ Len(page) \in DOMAIN page /\ page[Len(page)].offset = end - 1
    BY <1>7, <1>10, <1>20
  <2>2. cursor' = Cursor(end - 1) /\ cursor' \in AnyCursor /\ cursor'.offset = end - 1
    BY <1>7, <1>9, <1>20, <2>1, CursorsAre
  <2>3. Len(edges') = Len(edges) + Len(page) /\ edges'[Len(edges')].offset = end - 1 /\ edges' # <<>>
    <3>1. Len(edges') = Len(edges) + Len(page) /\ edges' \in Seq(AnyEdge)
      BY <1>2, <1>9, <1>10, Joined
    <3>2. Len(edges') # 0
      BY <1>2, <1>7, <1>10, <2>1, <3>1
    <3> QED
      BY <1>15, <2>1, <3>1, <3>2
  <2>4. PlaceOfCursor'
    BY <1>2, <1>9, <2>2, <2>3 DEF PlaceOfCursor
  <2>5. NothingLeftOut'
    <3>1. ASSUME NEW o \in Nat, Asked(o)', o <= cursor'.offset
          PROVE  \E m \in DOMAIN edges' : edges'[m].offset = o
      BY <1>7, <1>14, <1>16, <2>2, <3>1
    <3>2. direction' = "forward"
      BY <1>2, <1>9
    <3> QED
      BY <3>1, <3>2 DEF NothingLeftOut
  <2> QED
    BY <1>2, <1>9, <1>14, <1>18, <2>2, <2>4, <2>5 DEF PagingInv
<1> QED
  BY <1>19, <1>20

LEMMA BackwardPreserves ==
  ASSUME PagingInv, NEW n \in PageSizes, Backward(n)
  PROVE  PagingInv'
<1>1. n \in Nat \ {0} /\ n \in Nat \cup {NoLimit} /\ NoLimit \in Nat \cup {NoLimit}
  BY RelayAssumption
<1>2. /\ direction = "backward" /\ direction # "forward"
      /\ origin \in AnyCursor /\ limit \in AnyCursor /\ cursor \in AnyCursor
      /\ ListInv /\ EdgesAreTrue(edges) /\ Ordered(edges) /\ PlaceOfCursor /\ NothingLeftOut
      /\ data \in Seq(Nat) /\ Len(data) \in Nat /\ DOMAIN data = 1..Len(data)
      /\ edges \in Seq(AnyEdge) /\ Len(edges) \in Nat /\ DOMAIN edges = 1..Len(edges)
      /\ edges = <<>> <=> Len(edges) = 0
      /\ \A m \in DOMAIN edges : edges[m].offset \in Nat
  BY PagingParts DEF Backward
<1>3. PICK page : page = Edges(NoLimit, limit, n, cursor)
  OBVIOUS
<1>4. PICK start : start = StartOffset(Len(data), NoLimit, limit, n, cursor)
  OBVIOUS
<1>5. PICK end : end = EndOffset(Len(data), NoLimit, limit, n, cursor)
  OBVIOUS
<1>6. PageFrom(page, start, end)
  BY <1>1, <1>2, <1>3, <1>4, <1>5, PageIs
<1>7. /\ start \in Nat /\ end \in Nat /\ start <= end
      /\ start < end => end <= Len(data) /\ (cursor.given => end <= cursor.offset)
  BY <1>1, <1>2, <1>4, <1>5, PageBounds
<1>8. /\ \A o \in Nat : Within(o, Len(data), limit, cursor) => o < end /\ start < end
      /\ ~HasPreviousPage(Len(data), NoLimit, limit, n, cursor) =>
           \A o \in Nat : (limit.given => o > limit.offset) => o >= start
  BY <1>1, <1>2, <1>4, <1>5, BackwardPage
<1>9. /\ edges' = page \o edges
      /\ cursor' = IF page = <<>> THEN cursor ELSE Cursor(page[1].offset)
      /\ finished' = ~HasPreviousPage(Len(data), NoLimit, limit, n, cursor)
      /\ UNCHANGED <<data, upcoming, direction, origin, limit>>
  BY <1>3 DEF Backward
<1>10. /\ page \in Seq(AnyEdge) /\ Len(page) = end - start /\ DOMAIN page = 1..end - start
       /\ page = <<>> <=> start = end
       /\ \A k \in 1..end - start :
            start + k \in DOMAIN data /\ page[k].offset = start + k - 1 /\ page[k].node = data[start + k]
  <2>1. /\ page \in Seq(AnyEdge) /\ Len(page) = end - start
        /\ \A k \in 1..end - start :
             start + k \in DOMAIN data /\ page[k].offset = start + k - 1 /\ page[k].node = data[start + k]
    BY <1>6 DEF PageFrom
  <2>2. DOMAIN page = 1..Len(page) /\ (page = <<>> <=> Len(page) = 0)
    BY <2>1
  <2> QED
    BY <1>7, <2>1, <2>2
<1>11. edges # <<>> => cursor.given /\ cursor.offset = edges[1].offset /\ 1 \in DOMAIN edges
  BY <1>2, CursorsAre DEF PlaceOfCursor
<1>12. ASSUME NEW m \in DOMAIN edges
       PROVE  edges[m].offset >= cursor.offset /\ cursor.offset \in Nat /\ cursor.given
  <2>1. edges # <<>> /\ (m = 1 \/ 1 < m)
    BY <1>2
  <2>2. edges[m].offset >= edges[1].offset
    BY <1>2, <1>11, <2>1 DEF Ordered
  <2> QED
    BY <1>2, <1>11, <2>1, <2>2
<1>13. EdgesAreTrue(edges') /\ Ordered(edges')
  <2>1. EdgesAreTrue(page) /\ Ordered(page)
    BY <1>2, <1>6, <1>7, PageIsTrue
  <2>2. ASSUME NEW k \in DOMAIN page, NEW m \in DOMAIN edges
        PROVE  page[k].offset < edges[m].offset /\ page[k].node # edges[m].node
    <3> k \in 1..end - start
      BY <1>10
    <3>1. page[k].offset \in Nat /\ page[k].offset < end /\ start < end
      <4>1. page[k].offset = start + k - 1
        BY <1>10
      <4> QED
        BY <1>7, <4>1
    <3>2. edges[m].offset \in Nat /\ end <= edges[m].offset
      <4>1. edges[m].offset >= cursor.offset /\ cursor.offset \in Nat /\ cursor.given
        BY <1>12
      <4>2. edges[m].offset \in Nat
        BY <1>2
      <4> QED
        BY <1>7, <3>1, <4>1, <4>2
    <3>3. page[k].offset < edges[m].offset /\ edges[m].offset # page[k].offset
      BY <1>7, <3>1, <3>2
    <3> QED
      BY <1>2, <1>6, <1>7, <3>3, PageIsNew
  <2> QED
    BY <1>2, <1>9, <2>1, <2>2, JoinedIsTrue
<1>14. /\ ListInv' /\ EdgesAreTrue(edges)' /\ Ordered(edges)'
       /\ \A o : Asked(o)' <=> Asked(o)
  BY <1>2, <1>9, <1>13, PageKeeps
<1>15. /\ \A k \in DOMAIN page : k \in DOMAIN edges' /\ edges'[k] = page[k]
       /\ \A m \in DOMAIN edges : Len(page) + m \in DOMAIN edges' /\ edges'[Len(page) + m] = edges[m]
  BY <1>2, <1>9, <1>10, Joined
<1>16. ASSUME NEW i \in DOMAIN data, Got(data[i]) \/ (Appended(data[i]) /\ Passed(i - 1))
       PROVE  (Got(data[i]) \/ (Appended(data[i]) /\ Passed(i - 1)))'
  <2>1. CASE Got(data[i])
    <3>1. PICK m \in DOMAIN edges : edges[m].node = data[i]
      BY <2>1 DEF Got
    <3>2. Len(page) + m \in DOMAIN edges' /\ edges'[Len(page) + m].node = data'[i]
      BY <1>9, <1>15, <3>1
    <3> QED
      BY <3>2 DEF Got
  <2>2. CASE Appended(data[i]) /\ Passed(i - 1)
    <3>1. PICK m \in DOMAIN edges : edges[m].offset <= i - 1
      BY <1>2, <2>2 DEF Passed
    <3>2. Len(page) + m \in DOMAIN edges' /\ edges'[Len(page) + m].offset <= i - 1
      BY <1>15, <3>1
    <3>3. Passed(i - 1)' /\ Appended(data[i])'
      BY <1>2, <1>9, <2>2, <3>2 DEF Passed, Appended
    <3> QED
      BY <3>3
  <2> QED
    BY <1>16, <2>1, <2>2
<1>17. ASSUME NEW i \in DOMAIN data, Asked(i - 1), i - 1 >= start
       PROVE  (Got(data[i]) \/ (Appended(data[i]) /\ Passed(i - 1)))'
  <2>1. i - 1 \in Nat /\ i - 1 < Len(data) /\ (limit.given => i - 1 > limit.offset)
    BY <1>2, <1>17 DEF Asked
  <2>2. cursor.given \in BOOLEAN /\ cursor.offset \in Int
    BY <1>2 DEF AnyCursor
  <2>3. CASE cursor.given => i - 1 < cursor.offset
    <3>1. i - 1 < end
      BY <1>8, <2>1, <2>3 DEF Within
    <3>2. i - start \in 1..end - start /\ start + (i - start) = i
      <4>1. i \in Nat
        BY <1>2
      <4> QED
        BY <1>7, <1>17, <3>1, <4>1
    <3>3. i - start \in DOMAIN edges' /\ edges'[i - start].node = data'[i]
      BY <1>9, <1>10, <1>15, <3>2
    <3> QED
      BY <3>3 DEF Got
  <2>4. CASE cursor.given /\ i - 1 >= cursor.offset
    <3>1. edges # <<>>
      <4> SUFFICES ASSUME edges = <<>> PROVE FALSE
        OBVIOUS
      <4>1. cursor = origin
        BY <1>2 DEF PlaceOfCursor
      <4> QED
        BY <1>2, <1>17, <2>1, <2>2, <2>4, <4>1 DEF Asked
    <3>2. Got(data[i]) \/ (Appended(data[i]) /\ Passed(i - 1))
      BY <1>2, <1>17, <2>4, <3>1 DEF NothingLeftOut
    <3> QED
      BY <1>16, <3>2
  <2> QED
    BY <2>1, <2>2, <2>3, <2>4
<1>18. (finished => AllThere)'
  <2> SUFFICES ASSUME finished', NEW i \in DOMAIN data', Asked(i - 1)'
               PROVE  (Got(data[i]) \/ (Appended(data[i]) /\ Passed(i - 1)))'
    BY DEF AllThere
  <2>1. i \in DOMAIN data /\ Asked(i - 1) /\ i - 1 \in Nat /\ (limit.given => i - 1 > limit.offset)
    BY <1>2, <1>9, <1>14 DEF Asked
  <2>2. i - 1 >= start
    BY <1>8, <1>9, <2>1
  <2> QED
    BY <1>17, <2>1, <2>2
<1>19. CASE page = <<>>
  <2>1. edges' = edges /\ cursor' = cursor
    BY <1>2, <1>9, <1>19
  <2>2. PlaceOfCursor' /\ cursor' \in AnyCursor
    BY <1>2, <1>9, <2>1 DEF PlaceOfCursor
  <2>3. NothingLeftOut'
    <3>1. ASSUME edges' # <<>>, NEW i \in DOMAIN data', Asked(i - 1)', i - 1 >= cursor'.offset
          PROVE  (Got(data[i]) \/ (Appended(data[i]) /\ Passed(i - 1)))'
      <4>1. edges # <<>> /\ i \in DOMAIN data /\ Asked(i - 1) /\ i - 1 >= cursor.offset
        BY <1>9, <1>14, <2>1, <3>1
      <4> QED
        BY <1>2, <1>16, <4>1 DEF NothingLeftOut
    <3>2. direction' # "forward"
      BY <1>2, <1>9
    <3> QED
      BY <3>1, <3>2 DEF NothingLeftOut
  <2> QED
    BY <1>2, <1>9, <1>14, <1>18, <2>2, <2>3 DEF PagingInv
<1>20. CASE page # <<>>
  <2>1. start < end /\ 1 \in DOMAIN page /\ page[1].offset = start
    BY <1>7, <1>10, <1>20
  <2>2. cursor' = Cursor(start) /\ cursor' \in AnyCursor /\ cursor'.offset = start
    BY <1>7, <1>9, <1>20, <2>1, CursorsAre
  <2>3. edges'[1].offset = start /\ edges' # <<>>
    BY <1>15, <2>1
  <2>4. PlaceOfCursor'
    BY <1>2, <1>9, <2>2, <2>3 DEF PlaceOfCursor
  <2>5. NothingLeftOut'
    <3>1. ASSUME NEW i \in DOMAIN data', Asked(i - 1)', i - 1 >= cursor'.offset
          PROVE  (Got(data[i]) \/ (Appended(data[i]) /\ Passed(i - 1)))'
      <4>1. i \in DOMAIN data /\ Asked(i - 1) /\ i - 1 >= start
        BY <1>9, <1>14, <2>2, <3>1
      <4> QED
        BY <1>17, <4>1
    <3>2. direction' # "forward"
      BY <1>2, <1>9
    <3> QED
      BY <3>1, <3>2 DEF NothingLeftOut
  <2> QED
    BY <1>2, <1>9, <1>14, <1>18, <2>2, <2>4, <2>5 DEF PagingInv
<1> QED
  BY <1>19, <1>20

\* The list may end in an element more or less.
LEMMA GrowPreserves ==
  ASSUME PagingInv, Grow
  PROVE  PagingInv'
<1>1. /\ direction \in {"forward", "backward"}
      /\ origin \in AnyCursor /\ limit \in AnyCursor /\ cursor \in AnyCursor
      /\ ListInv /\ EdgesAreTrue(edges) /\ Ordered(edges) /\ PlaceOfCursor /\ NothingLeftOut
      /\ data \in Seq(Nat) /\ Len(data) \in Nat /\ DOMAIN data = 1..Len(data)
      /\ edges \in Seq(AnyEdge) /\ Len(edges) \in Nat /\ DOMAIN edges = 1..Len(edges)
      /\ edges = <<>> <=> Len(edges) = 0
      /\ \A m \in DOMAIN edges : edges[m].offset \in Nat
  BY PagingParts
<1>2. /\ data' = Append(data, upcoming) /\ upcoming' = upcoming + 1 /\ ~finished'
      /\ UNCHANGED <<direction, origin, limit, cursor, edges, finished>>
  BY DEF Grow
<1>3. upcoming \in Nat /\ upcoming >= MaxLength /\ MaxLength \in Nat
  BY <1>1, RelayAssumption DEF ListInv
<1>4. /\ data' \in Seq(Nat) /\ DOMAIN data' = 1..Len(data) + 1
      /\ data'[Len(data) + 1] = upcoming
      /\ \A i \in DOMAIN data : i \in DOMAIN data' /\ data'[i] = data[i]
      /\ \A i \in DOMAIN data' : i \in DOMAIN data \/ i = Len(data) + 1
  BY <1>1, <1>2, <1>3
<1>5. \A i \in DOMAIN data : data[i] \in Nat /\ data[i] < upcoming
  BY <1>1 DEF ListInv
<1>6. ListInv'
  <2>1. ASSUME NEW i \in DOMAIN data'
        PROVE  data'[i] < upcoming' /\ (~Appended(data[i])' => data'[i] = i - 1)
    <3>1. CASE i \in DOMAIN data
      <4>1. data'[i] = data[i] /\ (~Appended(data[i]) => data[i] = i - 1)
        BY <1>1, <1>4, <3>1 DEF ListInv
      <4> QED
        BY <1>2, <1>3, <1>5, <3>1, <4>1 DEF Appended
    <3>2. CASE i = Len(data) + 1
      BY <1>2, <1>3, <1>4, <3>2 DEF Appended
    <3> QED
      BY <1>4, <3>1, <3>2
  <2>2. ASSUME NEW i \in DOMAIN data', NEW j \in DOMAIN data', data'[i] = data'[j]
        PROVE  i = j
    <3>1. CASE i \in DOMAIN data /\ j \in DOMAIN data
      BY <1>1, <1>4, <2>2, <3>1 DEF ListInv
    <3>2. CASE i \in DOMAIN data /\ j = Len(data) + 1
      BY <1>3, <1>4, <1>5, <2>2, <3>2
    <3>3. CASE i = Len(data) + 1 /\ j \in DOMAIN data
      BY <1>3, <1>4, <1>5, <2>2, <3>3
    <3> QED
      BY <1>4, <3>1, <3>2, <3>3
  <2> QED
    BY <1>2, <1>3, <1>4, <2>1, <2>2 DEF ListInv
<1>7. EdgesAreTrue(edges)' /\ Ordered(edges)'
  <2>1. ASSUME NEW n \in DOMAIN edges
        PROVE  /\ edges[n].node < upcoming'
               /\ \A i \in DOMAIN data' :
                    /\ data'[i] = edges[n].node => i = edges[n].offset + 1
                    /\ i = edges[n].offset + 1 => data'[i] = edges[n].node \/ Appended(data[i])'
    <3>1. edges[n].node \in Nat /\ edges[n].node < upcoming
      <4>1. edges[n] \in AnyEdge
        BY <1>1
      <4> QED
        BY <1>1, <4>1 DEF EdgesAreTrue, AnyEdge
    <3>2. ASSUME NEW i \in DOMAIN data
          PROVE  /\ data'[i] = edges[n].node => i = edges[n].offset + 1
                 /\ i = edges[n].offset + 1 => data'[i] = edges[n].node \/ Appended(data[i])'
      BY <1>1, <1>4 DEF EdgesAreTrue, Appended
    <3>3. ASSUME NEW i \in DOMAIN data', i = Len(data) + 1
          PROVE  Appended(data[i])' /\ data'[i] # edges[n].node
      BY <1>3, <1>4, <3>1, <3>3 DEF Appended
    <3>4. edges[n].node < upcoming'
      BY <1>2, <1>3, <3>1
    <3> QED
      BY <1>4, <3>2, <3>3, <3>4
  <2> QED
    BY <1>1, <1>2, <2>1 DEF EdgesAreTrue, Ordered
<1>8. PlaceOfCursor'
  BY <1>1, <1>2 DEF PlaceOfCursor
<1>9. \A o : Asked(o)' <=> Asked(o)
  BY <1>2 DEF Asked
<1>10. NothingLeftOut'
  <2>1. CASE direction = "forward"
    BY <1>1, <1>2, <1>9, <2>1 DEF NothingLeftOut
  <2>2. CASE direction = "backward"
    <3>1. ASSUME edges # <<>>, NEW i \in DOMAIN data', Asked(i - 1), i - 1 >= cursor.offset
          PROVE  (Got(data[i]) \/ (Appended(data[i]) /\ Passed(i - 1)))'
      <4>1. CASE i \in DOMAIN data
        <5>1. Got(data[i]) \/ (Appended(data[i]) /\ Passed(i - 1))
          BY <1>1, <2>2, <3>1, <4>1 DEF NothingLeftOut
        <5> QED
          BY <1>2, <1>4, <4>1, <5>1 DEF Got, Appended, Passed
      <4>2. CASE i = Len(data) + 1
        <5>1. 1 \in DOMAIN edges /\ cursor.offset = edges[1].offset
          BY <1>1, <2>2, <3>1, CursorsAre DEF PlaceOfCursor
        <5>2. Passed(i - 1)'
          BY <1>2, <2>2, <3>1, <5>1 DEF Passed
        <5>3. Appended(data[i])'
          BY <1>3, <1>4, <4>2 DEF Appended
        <5> QED
          BY <5>2, <5>3
      <4> QED
        BY <1>4, <4>1, <4>2
    <3> QED
      BY <1>2, <1>9, <2>2, <3>1 DEF NothingLeftOut
  <2> QED
    BY <1>1, <2>1, <2>2
<1> QED
  BY <1>1, <1>2, <1>6, <1>7, <1>8, <1>10 DEF PagingInv

LEMMA Shortened ==
  ASSUME NEW s \in Seq(Nat), NEW n \in Nat, n < Len(s)
  PROVE  /\ SubSeq(s, 1, n) \in Seq(Nat) /\ DOMAIN SubSeq(s, 1, n) = 1..n
         /\ \A i \in 1..n : SubSeq(s, 1, n)[i] = s[i]
OBVIOUS

LEMMA ShrinkPreserves ==
  ASSUME PagingInv, Shrink
  PROVE  PagingInv'
<1>1. /\ direction \in {"forward", "backward"}
      /\ origin \in AnyCursor /\ limit \in AnyCursor /\ cursor \in AnyCursor
      /\ ListInv /\ EdgesAreTrue(edges) /\ Ordered(edges) /\ PlaceOfCursor /\ NothingLeftOut
      /\ data \in Seq(Nat) /\ Len(data) \in Nat /\ DOMAIN data = 1..Len(data)
  BY PagingParts
<1>2. /\ data' = SubSeq(data, 1, Len(data) - 1) /\ data # <<>> /\ ~finished'
      /\ UNCHANGED <<upcoming, direction, origin, limit, cursor, edges, finished>>
  BY DEF Shrink
<1>3. /\ data' \in Seq(Nat)
      /\ \A i \in DOMAIN data' : i \in DOMAIN data /\ data'[i] = data[i]
  <2>1. Len(data) # 0
    <3>1. data # <<>> /\ data \in Seq(Nat)
      BY <1>1, <1>2
    <3> QED
      BY <3>1
  <2>2. PICK len \in Nat : len = Len(data)
    BY <1>1
  <2>3. len - 1 \in Nat /\ len - 1 < len
    BY <2>1, <2>2
  <2>4. PICK shorter : shorter = SubSeq(data, 1, len - 1)
    OBVIOUS
  <2>5. shorter \in Seq(Nat) /\ DOMAIN shorter = 1..len - 1 /\ \A i \in 1..len - 1 : shorter[i] = data[i]
    BY <1>1, <2>2, <2>3, <2>4, Shortened
  <2>6. data' = shorter /\ DOMAIN data = 1..len
    BY <1>1, <1>2, <2>2, <2>4
  <2> QED
    BY <2>2, <2>5, <2>6
<1>4. ListInv'
  BY <1>1, <1>2, <1>3 DEF ListInv, Appended
<1>5. EdgesAreTrue(edges)' /\ Ordered(edges)'
  BY <1>1, <1>2, <1>3 DEF EdgesAreTrue, Ordered, Appended
<1>6. PlaceOfCursor'
  BY <1>1, <1>2 DEF PlaceOfCursor
<1>7. NothingLeftOut'
  <2>1. \A o : (Asked(o)' <=> Asked(o)) /\ (Passed(o)' <=> Passed(o)) /\ (Got(o)' <=> Got(o))
    BY <1>2 DEF Asked, Passed, Got
  <2>2. CASE direction = "forward"
    BY <1>1, <1>2, <2>1, <2>2 DEF NothingLeftOut
  <2>3. CASE direction = "backward"
    <3>1. ASSUME edges # <<>>, NEW i \in DOMAIN data', Asked(i - 1), i - 1 >= cursor.offset
          PROVE  (Got(data[i]) \/ (Appended(data[i]) /\ Passed(i - 1)))'
      <4>1. Got(data[i]) \/ (Appended(data[i]) /\ Passed(i - 1))
        BY <1>1, <1>3, <2>3, <3>1 DEF NothingLeftOut
      <4> QED
        BY <1>2, <1>3, <4>1 DEF Got, Appended, Passed
    <3> QED
      BY <1>2, <2>1, <2>3, <3>1 DEF NothingLeftOut
  <2> QED
    BY <1>1, <2>2, <2>3
<1> QED
  BY <1>1, <1>2, <1>4, <1>5, <1>6, <1>7 DEF PagingInv

LEMMA PagingPreserved == PagingInv /\ [PagingNext]_pagingVars => PagingInv'
<1> SUFFICES ASSUME PagingInv, [PagingNext]_pagingVars PROVE PagingInv'
  OBVIOUS
<1>1. CASE \E n \in PageSizes : Forward(n) \/ Backward(n)
  BY <1>1, ForwardPreserves, BackwardPreserves
<1>2. CASE Grow \/ Shrink
  BY <1>2, GrowPreserves, ShrinkPreserves
<1>3. CASE UNCHANGED pagingVars
  BY <1>3 DEF PagingInv, ListInv, EdgesAreTrue, Ordered, PlaceOfCursor, NothingLeftOut, AllThere,
    Asked, Got, Appended, Passed, pagingVars
<1> QED
  BY <1>1, <1>2, <1>3 DEF PagingNext

LEMMA PagingSuffices == PagingInv => PagesCoverTheList
<1> SUFFICES ASSUME PagingInv PROVE PagesCoverTheList
  OBVIOUS
<1>1. /\ ListInv /\ EdgesAreTrue(edges) /\ Ordered(edges)
      /\ \A m \in DOMAIN edges : edges[m].offset \in Nat
  BY PagingParts
<1>2. ASSUME NEW m \in DOMAIN edges, NEW n \in DOMAIN edges, m < n
      PROVE  /\ edges[m].node # edges[n].node
             /\ \A i, j \in DOMAIN data : data[i] = edges[m].node /\ data[j] = edges[n].node => i < j
  <2>1. edges[m].offset < edges[n].offset /\ edges[m].node # edges[n].node
    BY <1>1, <1>2 DEF Ordered
  <2>2. ASSUME NEW i \in DOMAIN data, NEW j \in DOMAIN data, data[i] = edges[m].node, data[j] = edges[n].node
        PROVE  i < j
    <3>1. i = edges[m].offset + 1 /\ j = edges[n].offset + 1
      BY <1>1, <2>2 DEF EdgesAreTrue
    <3> QED
      BY <1>1, <2>1, <3>1
  <2> QED
    BY <2>1, <2>2
<1>3. finished => AllThere
  BY DEF PagingInv
<1> QED
  BY <1>2, <1>3 DEF PagesCoverTheList, AllThere

\* connection_from_list: a client that pages through a list that changes at its end
\* gets what it asked for in the order of the list and nothing twice; it misses none
\* of the elements that stayed, and of the appended ones only those that came to a
\* place it was past.  For any list, page sizes and cursors to begin with.
THEOREM PagesCover == ObjectsSpec => []PagesCoverTheList
<1>1. ObjectsInit => PagingInv
  BY PagingInitially DEF ObjectsInit
<1>2. PagingInv /\ [ObjectsNext]_objectVars => PagingInv'
  BY PagingPreserved DEF ObjectsNext, objectVars, pagingVars
<1>3. PagingInv => PagesCoverTheList
  BY PagingSuffices
<1> QED
  BY <1>1, <1>2, <1>3, PTL DEF ObjectsSpec

-----------------------------------------------------------------------------
(* Federation *)

\* A slot: null, or made by a resolver of the type from the fields of its
\* representation.
RightFor(e, r) ==
  \/ e = Nobody
  \/ \E resolver \in Resolvers : resolver.by[2] = r.type /\ e = Entity(resolver, r.fields)

Entities == {Nobody} \cup {Entity(resolver, fields) : resolver \in Resolvers, fields \in SUBSET STRING}

EntityInv ==
  /\ representations \in Representations
  /\ results \in Seq(Entities)
  /\ position \in 0..Len(representations)
  /\ registry \in [EntityTypes -> Resolvers \cup {NoResolver}]
  /\ \A t \in EntityTypes : registry[t] # NoResolver => registry[t].by[2] = t
  /\ ending \in {"running", "returned"} =>
       position = Len(results) + (IF awaiting = Nobody THEN 0 ELSE 1)
  /\ ending = "raised" => position = Len(results) + 1
  /\ ending = "returned" => awaiting = Nobody /\ position = Len(representations)
  /\ \A i \in 1..Len(results) : RightFor(results[i], representations[i])
  /\ awaiting \in Entities
  /\ ending \in {"running", "returned"} /\ awaiting # Nobody => RightFor(awaiting, representations[position])
  /\ ending \in {"running", "returned", "raised"}

LEMMA RepresentationTypes ==
  ASSUME representations \in Representations, NEW i \in 1..Len(representations)
  PROVE  representations[i].type \in STRING /\ representations[i].fields \in SUBSET STRING
<1> DEFINE R == [type : STRING, fields : SUBSET STRING]
<1>1. representations \in Seq(R)
  BY FederationAssumption
<1>2. \A x \in R : x.type \in STRING /\ x.fields \in SUBSET STRING
  OBVIOUS
<1> HIDE DEF R
<1>3. representations[i] \in R
  BY <1>1
<1> QED
  BY <1>2, <1>3

\* Appending the right entity for the representation just taken.
LEMMA AppendRight ==
  ASSUME EntityInv, NEW e \in Entities, Len(results) < Len(representations),
         RightFor(e, representations[Len(results) + 1])
  PROVE  /\ Append(results, e) \in Seq(Entities)
         /\ Len(Append(results, e)) = Len(results) + 1
         /\ \A i \in 1..Len(Append(results, e)) : RightFor(Append(results, e)[i], representations[i])
<1>1. results \in Seq(Entities) /\ Len(results) \in Nat
  BY DEF EntityInv
<1>2. /\ Append(results, e) \in Seq(Entities)
      /\ Len(Append(results, e)) = Len(results) + 1
      /\ \A i \in 1..Len(results) : Append(results, e)[i] = results[i]
      /\ Append(results, e)[Len(results) + 1] = e
  BY <1>1
<1>3. ASSUME NEW i \in 1..Len(results) + 1
      PROVE  RightFor(Append(results, e)[i], representations[i])
  <2>1. CASE i = Len(results) + 1
    BY <1>2, <2>1
  <2>2. CASE i \in 1..Len(results)
    BY <1>2, <2>2 DEF EntityInv
  <2> QED
    BY <1>1, <2>1, <2>2
<1> QED
  BY <1>2, <1>3

LEMMA EntitiesInitially == FederationInit => EntityInv
<1> SUFFICES ASSUME FederationInit PROVE EntityInv
  OBVIOUS
<1>1. representations \in Seq([type : STRING, fields : SUBSET STRING])
  BY FederationAssumption DEF FederationInit
<1>2. Len(representations) \in Nat /\ Len(results) = 0 /\ results \in Seq(Entities)
  BY <1>1 DEF FederationInit
<1> QED
  BY <1>2 DEF FederationInit, EntityInv, Entities

LEMMA RegistryChangePreserves ==
  ASSUME EntityInv,
         \/ Clear
         \/ \E t \in EntityTypes, r \in Resolvers : r.by[2] = t /\ Register(t, r)
  PROVE  EntityInv'
<1>1. UNCHANGED <<representations, position, results, awaiting, ending>>
  BY DEF Clear, Register
<1>2. /\ registry' \in [EntityTypes -> Resolvers \cup {NoResolver}]
      /\ \A t \in EntityTypes : registry'[t] # NoResolver => registry'[t].by[2] = t
  <2>1. CASE Clear
    BY <2>1 DEF Clear
  <2>2. CASE \E t \in EntityTypes, r \in Resolvers : r.by[2] = t /\ Register(t, r)
    BY <2>2 DEF Register, EntityInv
  <2> QED
    BY <2>1, <2>2
<1> QED
  BY <1>1, <1>2 DEF EntityInv, RightFor

LEMMA ResolveReferencePreserves ==
  ASSUME EntityInv, ResolveReference
  PROVE  EntityInv'
<1> DEFINE r == representations[position + 1]
           resolver == ResolverOf(r)
           entity == Entity(resolver, r.fields)
<1>1. /\ ending = "running" /\ awaiting = Nobody
      /\ position < Len(representations) /\ position' = position + 1
      /\ UNCHANGED <<registry, representations>>
  BY DEF ResolveReference
<1>2. /\ representations \in Representations /\ results \in Seq(Entities)
      /\ Len(results) \in Nat /\ position = Len(results)
      /\ Len(representations) \in Nat
  <2>1. representations \in Seq([type : STRING, fields : SUBSET STRING])
    BY FederationAssumption DEF EntityInv
  <2> QED
    BY <1>1, <2>1 DEF EntityInv
<1>3. position' \in 0..Len(representations')
  BY <1>1, <1>2
<1>4. r.type \in STRING /\ r.fields \in SUBSET STRING
  BY <1>1, <1>2, RepresentationTypes
<1>5. resolver # NoResolver => /\ resolver \in Resolvers /\ resolver.by[2] = r.type
                               /\ entity \in Entities /\ RightFor(entity, r)
                               /\ entity # Nobody
  <2>1. resolver # NoResolver => resolver \in Resolvers /\ resolver.by[2] = r.type
    BY DEF EntityInv, ResolverOf
  <2> HIDE DEF resolver
  <2>2. resolver \in Resolvers /\ resolver.by[2] = r.type => entity \in Entities /\ RightFor(entity, r)
    BY <1>4 DEF Entities, RightFor
  <2>3. resolver \in Resolvers => entity # Nobody
    <3>1. Nobody.by[1] = "nobody" /\ (resolver \in Resolvers => resolver.by[1] # "nobody")
      BY FederationAssumption DEF Nobody
    <3>2. entity.by = resolver.by
      BY DEF Entity
    <3> QED
      BY <3>1, <3>2
  <2> QED
    BY <2>1, <2>2, <2>3
<1> HIDE DEF r, resolver, entity
<1>6. \/ results' = Append(results, Nobody) /\ UNCHANGED <<awaiting, ending>>
      \/ resolver # NoResolver /\ awaiting' = entity /\ UNCHANGED <<results, ending>>
      \/ resolver # NoResolver /\ results' = Append(results, entity) /\ UNCHANGED <<awaiting, ending>>
      \/ ending' = "raised" /\ UNCHANGED <<results, awaiting>>
  BY DEF ResolveReference, AfterUnknown, Current, r, resolver, entity
<1>7. ASSUME NEW e \in Entities, RightFor(e, r), results' = Append(results, e), UNCHANGED <<awaiting, ending>>
      PROVE  EntityInv'
  <2>1. /\ results' \in Seq(Entities) /\ Len(results') = Len(results) + 1
        /\ \A i \in 1..Len(results') : RightFor(results'[i], representations[i])
    BY <1>1, <1>2, <1>7, AppendRight DEF r
  <2> QED
    BY <1>1, <1>2, <1>3, <1>7, <2>1 DEF EntityInv, RightFor
<1>8. CASE results' = Append(results, Nobody) /\ UNCHANGED <<awaiting, ending>>
  BY <1>7, <1>8 DEF Entities, RightFor
<1>9. CASE resolver # NoResolver /\ results' = Append(results, entity) /\ UNCHANGED <<awaiting, ending>>
  BY <1>5, <1>7, <1>9
<1>10. CASE resolver # NoResolver /\ awaiting' = entity /\ UNCHANGED <<results, ending>>
  <2>1. RightFor(entity, representations[position'])
    BY <1>1, <1>5, <1>10 DEF r
  <2>2. position' = Len(results') + (IF awaiting' = Nobody THEN 0 ELSE 1)
    BY <1>1, <1>2, <1>5, <1>10
  <2> QED
    BY <1>1, <1>2, <1>3, <1>5, <1>10, <2>1, <2>2 DEF EntityInv, RightFor
<1>11. CASE ending' = "raised" /\ UNCHANGED <<results, awaiting>>
  BY <1>1, <1>2, <1>3, <1>11 DEF EntityInv, RightFor
<1> QED
  BY <1>6, <1>8, <1>9, <1>10, <1>11

LEMMA ReferenceArrivesPreserves ==
  ASSUME EntityInv, ReferenceArrives
  PROVE  EntityInv'
<1>1. /\ ending = "running" /\ awaiting # Nobody /\ awaiting' = Nobody
      /\ UNCHANGED <<registry, representations, position>>
  BY DEF ReferenceArrives
<1>2. /\ representations \in Representations /\ results \in Seq(Entities)
      /\ Len(results) \in Nat /\ position = Len(results) + 1
      /\ position \in 0..Len(representations) /\ awaiting \in Entities
      /\ RightFor(awaiting, representations[position])
  BY <1>1 DEF EntityInv
<1>3. Len(representations) \in Nat
  BY <1>2, FederationAssumption
<1>4. CASE results' = Append(results, awaiting) /\ UNCHANGED ending
  <2>1. /\ results' \in Seq(Entities) /\ Len(results') = Len(results) + 1
        /\ \A i \in 1..Len(results') : RightFor(results'[i], representations[i])
    BY <1>2, <1>3, <1>4, AppendRight
  <2> QED
    BY <1>1, <1>2, <1>3, <1>4, <2>1 DEF EntityInv, RightFor, Entities
<1>5. CASE ending' = "raised" /\ UNCHANGED results
  BY <1>1, <1>2, <1>3, <1>5 DEF EntityInv, RightFor, Entities
<1> QED
  BY <1>4, <1>5 DEF ReferenceArrives

LEMMA ReturnEntitiesPreserves ==
  ASSUME EntityInv, ReturnEntities
  PROVE  EntityInv'
BY DEF EntityInv, ReturnEntities, RightFor

LEMMA EntitiesPreserved == EntityInv /\ [FederationNext]_entityVars => EntityInv'
<1> SUFFICES ASSUME EntityInv, [FederationNext]_entityVars PROVE EntityInv'
  OBVIOUS
<1>1. CASE UNCHANGED entityVars
  BY <1>1 DEF EntityInv, entityVars, RightFor
<1> QED
  BY <1>1, RegistryChangePreserves, ResolveReferencePreserves, ReferenceArrivesPreserves,
     ReturnEntitiesPreserves DEF FederationNext

LEMMA RightEntitiesKeepSlots == EntityInv => EntitiesKeepTheirSlots
<1> SUFFICES ASSUME EntityInv PROVE EntitiesKeepTheirSlots
  OBVIOUS
<1>1. ASSUME NEW i \in DOMAIN results, results[i] # Nobody
      PROVE  /\ results[i].by[2] = representations[i].type
             /\ \A p \in DOMAIN results[i].given :
                  \/ p \in representations[i].fields /\ results[i].given[p] = <<"field", p>>
                  \/ p \in {"info", "representation"} /\ results[i].given[p] = <<"injected", p>>
  <2>1. i \in 1..Len(results)
    BY <1>1 DEF EntityInv
  <2>2. PICK resolver \in Resolvers : /\ resolver.by[2] = representations[i].type
                                      /\ results[i] = Entity(resolver, representations[i].fields)
    BY <1>1, <2>1 DEF EntityInv, RightFor
  <2>3. /\ results[i].by = resolver.by
        /\ results[i].given = Bound(resolver, representations[i].fields)
    BY <2>2 DEF Entity
  <2> QED
    BY <2>2, <2>3 DEF Bound
<1>2. ending = "returned" => Len(results) = Len(representations)
  <2>1. Len(results) \in Nat
    BY DEF EntityInv
  <2> QED
    BY <2>1 DEF EntityInv
<1> QED
  BY <1>1, <1>2 DEF EntitiesKeepTheirSlots

\* _resolve_entities: every slot holds null or an entity a resolver of its own type
\* made from its own key fields, whatever is registered in between.
THEOREM EntitiesInOrder == ObjectsSpec => []EntitiesKeepTheirSlots
<1>1. ObjectsInit => EntityInv
  BY EntitiesInitially DEF ObjectsInit
<1>2. EntityInv /\ [ObjectsNext]_objectVars => EntityInv'
  BY EntitiesPreserved DEF ObjectsNext, objectVars, entityVars
<1> QED
  BY <1>1, <1>2, RightEntitiesKeepSlots, PTL DEF ObjectsSpec
-----------------------------------------------------------------------------
(* Uploads *)

\* Every set of numbers that is not empty has a least one: induction over the
\* segments of a path, by the shortest part of it that is a counterexample.
LEMMA LeastOf ==
  ASSUME NEW T \in SUBSET Nat, T # {}
  PROVE  \E n \in T : \A m \in T : n <= m
<1>1. IsWellFoundedOn(OpToRel(<, Nat), Nat)
  BY NatLessThanWellFounded
<1>2. PICK n \in T : \A m \in T : ~ (<<m, n>> \in OpToRel(<, Nat))
  BY <1>1, WFMin
<1>3. \A m \in T : ~(m < n)
  BY <1>2 DEF OpToRel
<1> QED BY <1>3

\* One segment of the loop of _path_value, and all of its first k.
StepAt(ops, path, at, n) ==
  IF at # Nowhere /\ Walkable(ops, at, path[n])
  THEN Append(at, Key(ops, at, path[n])) ELSE Nowhere
Walks(ops, path, f, k) ==
  f = [n \in 0..k |-> IF n = 0 THEN <<>> ELSE StepAt(ops, path, f[n - 1], n)]

LEMMA WalkExists ==
  ASSUME NEW ops, NEW path, NEW k \in Nat
  PROVE  \E f : Walks(ops, path, f, k)
<1> DEFINE T == {j \in Nat : ~ \E f : Walks(ops, path, f, j)}
<1>1. SUFFICES ASSUME T # {} PROVE FALSE
  OBVIOUS
<1>2. PICK j \in T : \A m \in T : j <= m
  BY <1>1, LeastOf
<1>3. j # 0
  <2> DEFINE f == [n \in 0..0 |-> <<>>]
  <2>1. f = [n \in 0..0 |-> IF n = 0 THEN <<>> ELSE StepAt(ops, path, f[n - 1], n)]
    OBVIOUS
  <2>2. Walks(ops, path, f, 0)
    BY <2>1 DEF Walks
  <2> QED BY <2>2
<1>4. j \in Nat /\ j - 1 \in Nat /\ ~(j - 1 \in T)
  BY <1>2, <1>3
<1>5. PICK g : Walks(ops, path, g, j - 1)
  BY <1>4
<1>6. \E f : Walks(ops, path, f, j)
  <2> DEFINE f == [n \in 0..j |-> IF n = j THEN StepAt(ops, path, g[n - 1], n) ELSE g[n]]
  <2>1. \A n \in 0..j : f[n] = IF n = 0 THEN <<>> ELSE StepAt(ops, path, f[n - 1], n)
    BY <1>3, <1>4, <1>5 DEF Walks
  <2>2. f = [n \in 0..j |-> f[n]]
    OBVIOUS
  <2> HIDE DEF f
  <2>3. Walks(ops, path, f, j)
    BY <2>1, <2>2 DEF Walks
  <2> QED BY <2>3
<1> QED BY <1>2, <1>6

\* Place is well defined, and where it leads is a place of the operations.
LEMMA PlaceIsInside ==
  ASSUME NEW ops, NEW path \in Seq(STRING), path # <<>>, Place(ops, path) # Nowhere
  PROVE  Place(ops, path) \in DOMAIN ops
<1> DEFINE f == CHOOSE g : Walks(ops, path, g, Len(path))
<1>1. Len(path) \in Nat /\ Len(path) # 0
  OBVIOUS
<1>2. Walks(ops, path, f, Len(path))
  BY <1>1, WalkExists
<1>3. Place(ops, path) = f[Len(path)]
  BY DEF Place, Walks, StepAt
<1> HIDE DEF f
<1>4. f[Len(path)] = StepAt(ops, path, f[Len(path) - 1], Len(path))
  BY <1>1, <1>2 DEF Walks
<1> QED BY <1>3, <1>4 DEF StepAt, Walkable

\* A path leads to the same place of two operations that have the same containers.
SameContainers(ops, other) ==
  /\ DOMAIN ops = DOMAIN other
  /\ \A p \in DOMAIN ops : ops[p] # other[p] => /\ ops[p] \notin {"object", "list"}
                                                /\ other[p] \notin {"object", "list"}

LEMMA PlaceIsStable ==
  ASSUME NEW ops, NEW other, SameContainers(ops, other), NEW path
  PROVE  Place(ops, path) = Place(other, path)
<1>1. ASSUME NEW at, NEW n
      PROVE  StepAt(ops, path, at, n) = StepAt(other, path, at, n)
  <2>1. CASE at \in DOMAIN ops /\ ops[at] \in {"object", "list"}
    BY <2>1 DEF SameContainers, StepAt, Walkable, Key
  <2>2. CASE ~(at \in DOMAIN ops /\ ops[at] \in {"object", "list"})
    BY <2>2 DEF SameContainers, StepAt, Walkable, Key
  <2> QED BY <2>1, <2>2
<1>2. \A f : Walks(ops, path, f, Len(path)) <=> Walks(other, path, f, Len(path))
  BY <1>1 DEF Walks
<1>3. (CHOOSE f : Walks(ops, path, f, Len(path))) = (CHOOSE f : Walks(other, path, f, Len(path)))
  BY <1>2
<1>4. /\ Place(ops, path) = (CHOOSE f : Walks(ops, path, f, Len(path)))[Len(path)]
      /\ Place(other, path) = (CHOOSE f : Walks(other, path, f, Len(path)))[Len(path)]
  BY DEF Place, Walks, StepAt
<1> QED BY <1>3, <1>4

\* How many entries of the map were placed, and where the i-th leads.
Done == Len(form.entries) - Len(pending)
Entries == form.entries
PlaceOf(i) == Place(form.operations, Entries[i].path)

\* What is pending is the rest of the map.
PendingIsRest ==
  /\ pending \in Seq([file : STRING, path : Seq(STRING)])
  /\ Len(pending) <= Len(Entries)
  /\ \A i \in 1..Len(pending) : pending[i] = Entries[Done + i]

\* Every entry that was placed took a null of the request, for itself alone.
PlacedAreNulls ==
  \A i \in 1..Done :
    /\ PlaceOf(i) # Nowhere /\ PlaceOf(i) \in DOMAIN form.operations
    /\ form.operations[PlaceOf(i)] = "null"
    /\ operations[PlaceOf(i)] = Entries[i].file /\ Entries[i].file \in Files
    /\ \A j \in 1..Done : PlaceOf(j) = PlaceOf(i) => j = i

\* Nothing changed but where they are.
ChangesArePlaces ==
  /\ DOMAIN operations = DOMAIN form.operations
  /\ operations = [p \in DOMAIN operations |-> operations[p]]
  /\ \A p \in DOMAIN operations : operations[p] # form.operations[p] =>
       \E i \in 1..Done : PlaceOf(i) = p

UploadInv ==
  /\ form \in Forms
  /\ PendingIsRest
  /\ operations # Rejected => PlacedAreNulls /\ ChangesArePlaces

LEMMA FormsAreTyped ==
  ASSUME form \in Forms
  PROVE  /\ form.operations \in [DOMAIN form.operations -> STRING]
         /\ form.entries \in Seq([file : STRING, path : Seq(STRING)])
BY UploadsAssumption

LEMMA ElementOf ==
  ASSUME NEW S, NEW s \in Seq(S), NEW i \in 1..Len(s)
  PROVE  s[i] \in S
OBVIOUS

LEMMA UploadsInitially == UploadsInit => UploadInv
<1> SUFFICES ASSUME UploadsInit PROVE UploadInv
  OBVIOUS
<1>1. form \in Forms /\ operations = form.operations /\ pending = form.entries
  BY DEF UploadsInit
<1>2. Len(pending) \in Nat /\ Done = 0
  BY <1>1, FormsAreTyped DEF Done
<1>3. PendingIsRest
  BY <1>1, <1>2, FormsAreTyped DEF PendingIsRest, Entries
<1>4. PlacedAreNulls
  BY <1>2 DEF PlacedAreNulls
<1>5. ChangesArePlaces
  BY <1>1, FormsAreTyped DEF ChangesArePlaces
<1> QED BY <1>1, <1>3, <1>4, <1>5 DEF UploadInv

LEMMA ReadPartsPreserves ==
  ASSUME UploadInv, ReadParts
  PROVE  UploadInv'
BY DEF UploadInv, ReadParts, PendingIsRest, Entries, Done

\* The containers of a request stay what they are: files take the place of nulls.
LEMMA ContainersStay ==
  ASSUME UploadInv, operations # Rejected
  PROVE  /\ SameContainers(operations, form.operations)
         /\ \A p \in DOMAIN operations : operations[p] # form.operations[p] =>
              form.operations[p] = "null" /\ operations[p] \in Files
<1>1. \A p \in DOMAIN operations : operations[p] # form.operations[p] =>
        form.operations[p] = "null" /\ operations[p] \in Files
  BY DEF UploadInv, ChangesArePlaces, PlacedAreNulls
<1>2. "object" \notin Files /\ "list" \notin Files
  BY UploadsAssumption
<1> QED BY <1>1, <1>2 DEF SameContainers, UploadInv, ChangesArePlaces

LEMMA PlaceFilePreserves ==
  ASSUME UploadInv, PlaceFile
  PROVE  UploadInv'
<1> DEFINE entry == Head(pending)
           n == Done + 1
<1>1. /\ operations # Rejected /\ pending # <<>> /\ pending' = Tail(pending) /\ form' = form
      /\ form \in Forms /\ Entries \in Seq([file : STRING, path : Seq(STRING)])
  BY FormsAreTyped DEF PlaceFile, UploadInv, Entries
<1>2. /\ Done \in Nat /\ n \in 1..Len(Entries) /\ Done' = n /\ Entries' = Entries
      /\ entry = Entries[n] /\ entry.path \in Seq(STRING)
  <2>1. /\ Len(Entries) \in Nat /\ Len(pending) \in 1..Len(Entries)
        /\ Len(pending') = Len(pending) - 1 /\ Head(pending) = pending[1]
    BY <1>1 DEF UploadInv, PendingIsRest
  <2>2. Done \in Nat /\ n \in 1..Len(Entries) /\ Done' = n /\ Entries' = Entries
    BY <1>1, <2>1 DEF Done, Entries
  <2>3. pending[1] = Entries[Done + 1]
    BY <2>1 DEF UploadInv, PendingIsRest
  <2>4. entry = Entries[n]
    BY <2>1, <2>3
  <2>5. Entries[n] \in [file : STRING, path : Seq(STRING)]
    BY <1>1, <2>2, ElementOf
  <2> QED BY <2>2, <2>4, <2>5
<1>3. PendingIsRest'
  BY <1>1, <1>2 DEF UploadInv, PendingIsRest, Done, Entries
<1>4. \A i : PlaceOf(i)' = PlaceOf(i)
  BY <1>1 DEF PlaceOf, Entries
<1> HIDE DEF entry, n
<1>5. CASE operations' = Rejected
  BY <1>1, <1>3, <1>5 DEF UploadInv
<1>6. CASE operations' # Rejected
  <2> DEFINE place == Place(operations, entry.path)
  <2>1. /\ operations' = [operations EXCEPT ![place] = entry.file]
        /\ entry.file \in Files /\ entry.path # <<>>
        /\ place # Nowhere /\ operations[place] = "null"
    BY <1>6 DEF PlaceFile, IsPlaceholder, entry
  <2>2. place = PlaceOf(n)
    BY <1>1, <1>2, ContainersStay, PlaceIsStable DEF PlaceOf
  <2>3. place \in DOMAIN operations
    BY <1>2, <2>1, PlaceIsInside
  <2> HIDE DEF place
  <2>4. "null" \notin Files
    BY UploadsAssumption
  <2>5. form.operations[place] = "null"
    BY <1>1, <2>1, <2>3, <2>4, ContainersStay
  <2>6. \A i \in 1..Done : PlaceOf(i) # place
    BY <1>1, <2>1, <2>4 DEF UploadInv, PlacedAreNulls
  <2>7. /\ DOMAIN operations' = DOMAIN operations
        /\ operations'[place] = entry.file
        /\ \A p \in DOMAIN operations : p # place => operations'[p] = operations[p]
        /\ operations' = [p \in DOMAIN operations' |-> operations'[p]]
    BY <1>1, <2>1, <2>3 DEF UploadInv, ChangesArePlaces
  <2>8. 1..n = 1..Done \cup {n} /\ n \notin 1..Done
    BY <1>2 DEF n
  <2>9. DOMAIN operations = DOMAIN form.operations
    BY <1>1 DEF UploadInv, ChangesArePlaces
  <2>10. PlacedAreNulls'
    <3>1. ASSUME NEW i \in 1..n
          PROVE  /\ PlaceOf(i) # Nowhere /\ PlaceOf(i) \in DOMAIN form.operations
                 /\ form.operations[PlaceOf(i)] = "null"
                 /\ operations'[PlaceOf(i)] = Entries[i].file /\ Entries[i].file \in Files
                 /\ \A j \in 1..n : PlaceOf(j) = PlaceOf(i) => j = i
      <4>1. CASE i = n
        BY <4>1, <1>2, <2>1, <2>2, <2>3, <2>5, <2>6, <2>7, <2>8, <2>9
      <4>2. CASE i \in 1..Done
        BY <4>2, <1>1, <2>2, <2>6, <2>7, <2>8, <2>9 DEF UploadInv, PlacedAreNulls
      <4> QED BY <4>1, <4>2, <2>8
    <3> QED BY <3>1, <1>1, <1>2, <1>4 DEF PlacedAreNulls
  <2>11. ChangesArePlaces'
    <3>1. ASSUME NEW p \in DOMAIN operations, operations'[p] # form.operations[p]
          PROVE  \E i \in 1..n : PlaceOf(i) = p
      <4>1. CASE p = place
        BY <4>1, <2>2, <2>8
      <4>2. CASE p # place
        BY <4>2, <3>1, <1>1, <2>7, <2>8 DEF UploadInv, ChangesArePlaces
      <4> QED BY <4>1, <4>2
    <3> QED BY <3>1, <1>1, <1>2, <1>4, <2>7, <2>9 DEF ChangesArePlaces
  <2> QED BY <1>1, <1>3, <2>10, <2>11 DEF UploadInv
<1> QED BY <1>5, <1>6

LEMMA UploadsPreserved == UploadInv /\ [UploadsNext]_uploadVars => UploadInv'
<1> SUFFICES ASSUME UploadInv, [UploadsNext]_uploadVars PROVE UploadInv'
  OBVIOUS
<1>1. CASE UNCHANGED uploadVars
  BY <1>1 DEF UploadInv, uploadVars, PendingIsRest, PlacedAreNulls, ChangesArePlaces, Done,
              Entries, PlaceOf
<1> QED BY <1>1, ReadPartsPreserves, PlaceFilePreserves DEF UploadsNext

LEMMA PlacedFilesTakePlaceholders == UploadInv => FilesTakePlaceholders
<1> SUFFICES ASSUME UploadInv, operations # Rejected, pending = <<>>
             PROVE  /\ DOMAIN operations = DOMAIN form.operations
                    /\ \A i \in DOMAIN form.entries :
                         LET place == Place(form.operations, form.entries[i].path) IN
                         /\ place # Nowhere /\ form.operations[place] = "null"
                         /\ operations[place] = form.entries[i].file
                         /\ \A j \in DOMAIN form.entries :
                              Place(form.operations, form.entries[j].path) = place => j = i
                    /\ \A p \in DOMAIN operations : operations[p] # form.operations[p] =>
                         \E i \in DOMAIN form.entries :
                           Place(form.operations, form.entries[i].path) = p
  BY DEF FilesTakePlaceholders
<1>1. Entries \in Seq([file : STRING, path : Seq(STRING)])
  BY FormsAreTyped DEF UploadInv, Entries
<1>2. 1..Done = DOMAIN form.entries
  BY <1>1 DEF Done, Entries
<1> QED BY <1>2 DEF UploadInv, PlacedAreNulls, ChangesArePlaces, PlaceOf, Entries

\* apply_multipart: an accepted request has every file of the map in a place of its
\* own that was null, whichever way the paths spell an index, and nothing else
\* changed, for any operations and any map.
THEOREM FilesArePlaced == ObjectsSpec => []FilesTakePlaceholders
<1>1. ObjectsInit => UploadInv
  BY UploadsInitially DEF ObjectsInit
<1>2. UploadInv /\ [ObjectsNext]_objectVars => UploadInv'
  BY UploadsPreserved DEF ObjectsNext, objectVars, uploadVars
<1> QED
  BY <1>1, <1>2, PlacedFilesTakePlaceholders, PTL DEF ObjectsSpec
=============================================================================
