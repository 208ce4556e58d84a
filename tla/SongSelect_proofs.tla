------------------------- MODULE SongSelect_proofs --------------------------
(* Whatever is marked, popped and appended in whatever order, no song of   *)
(* the table is in the play list without a check mark of its own, and the  *)
(* play list page keeps its cursor in order.                               *)
EXTENDS MCSongSelect, PlayListOps_proofs

\* The positions of the songs that the table put into a list.
FromTable(list) == {i \in 1..Len(list) : list[i] # CliSong}

LEMMA MarkedByDef ==
  ASSUME NEW list, NEW R
  PROVE  MarkedBy(list, R) <=>
           \E row \in [FromTable(list) -> R] :
             /\ \A i, j \in FromTable(list) : row[i] = row[j] => i = j
             /\ \A i \in FromTable(list) : RowSong(row[i]) = list[i]
BY DEF MarkedBy, FromTable, Injection, IsInjective

\* A new song is marked by a row that marked none before.
LEMMA AppendIsMarked ==
  ASSUME NEW S, NEW list \in Seq(S), NEW R, NEW r, r \notin R,
         RowSong(r) \in S, MarkedBy(list, R)
  PROVE  MarkedBy(Append(list, RowSong(r)), R \cup {r})
<1> DEFINE new == Append(list, RowSong(r))
           last == Len(list) + 1
<1>1. PICK row \in [FromTable(list) -> R] :
        /\ \A i, j \in FromTable(list) : row[i] = row[j] => i = j
        /\ \A i \in FromTable(list) : RowSong(row[i]) = list[i]
  BY MarkedByDef
<1>2. /\ Len(list) \in Nat /\ Len(new) = Len(list) + 1
      /\ \A i \in 1..Len(list) : new[i] = list[i]
      /\ new[last] = RowSong(r)
  BY LenProperties, AppendProperties
<1> HIDE DEF new
<1>3. FromTable(new) \ {last} \subseteq FromTable(list)
  BY <1>2 DEF FromTable
<1> DEFINE row2 == [i \in FromTable(new) |-> IF i = last THEN r ELSE row[i]]
<1>4. row2 \in [FromTable(new) -> R \cup {r}]
  BY <1>3
<1>5. \A i, j \in FromTable(new) : row2[i] = row2[j] => i = j
  BY <1>1, <1>3
<1>6. \A i \in FromTable(new) : RowSong(row2[i]) = new[i]
  <2>1. \A i \in FromTable(list) : i \in 1..Len(list)
    BY DEF FromTable
  <2> QED BY <1>1, <1>2, <1>3, <2>1
<1> HIDE DEF row2
<1>7. MarkedBy(new, R \cup {r})
  BY <1>4, <1>5, <1>6, MarkedByDef
<1> QED BY <1>7 DEF new

\* What pl.add appends needs no mark.
LEMMA CliSongNeedsNoMark ==
  ASSUME NEW S, NEW list \in Seq(S), NEW R, CliSong \in S, MarkedBy(list, R)
  PROVE  MarkedBy(Append(list, CliSong), R)
<1> DEFINE new == Append(list, CliSong)
<1>1. /\ Len(list) \in Nat /\ Len(new) = Len(list) + 1
      /\ \A i \in 1..Len(list) : new[i] = list[i]
      /\ new[Len(list) + 1] = CliSong
  BY LenProperties, AppendProperties
<1> HIDE DEF new
<1>2. /\ FromTable(new) = FromTable(list)
      /\ \A i \in FromTable(list) : new[i] = list[i]
  BY <1>1 DEF FromTable
<1>3. MarkedBy(new, R)
  BY <1>2, MarkedByDef
<1> QED BY <1>3 DEF new

\* Taking out position p: marks for the others are marks for what is left.
LEMMA RestIsMarked ==
  ASSUME NEW list, NEW new, NEW p \in 1..Len(list), NEW R,
         Len(list) \in Nat, Len(new) = Len(list) - 1,
         \A j \in 1..(Len(list) - 1) : new[j] = IF j < p THEN list[j] ELSE list[j + 1],
         \E row \in [FromTable(list) \ {p} -> R] :
           /\ \A i, j \in FromTable(list) \ {p} : row[i] = row[j] => i = j
           /\ \A i \in FromTable(list) \ {p} : RowSong(row[i]) = list[i]
  PROVE  MarkedBy(new, R)
<1>0. PICK row \in [FromTable(list) \ {p} -> R] :
        /\ \A i, j \in FromTable(list) \ {p} : row[i] = row[j] => i = j
        /\ \A i \in FromTable(list) \ {p} : RowSong(row[i]) = list[i]
  OBVIOUS
<1> DEFINE from(j) == IF j < p THEN j ELSE j + 1
           row2 == [j \in FromTable(new) |-> row[from(j)]]
<1>1. ASSUME NEW j \in FromTable(new)
      PROVE  from(j) \in FromTable(list) \ {p} /\ new[j] = list[from(j)]
  BY DEF FromTable
<1>2. ASSUME NEW i \in FromTable(new), NEW j \in FromTable(new), from(i) = from(j)
      PROVE  i = j
  <2>1. i \in Nat /\ j \in Nat /\ p \in Nat
    BY DEF FromTable
  <2> QED BY <1>2, <2>1
<1> HIDE DEF from
<1>3. row2 \in [FromTable(new) -> R]
  BY <1>0, <1>1
<1>4. \A i, j \in FromTable(new) : row2[i] = row2[j] => i = j
  BY <1>0, <1>1, <1>2
<1>5. \A j \in FromTable(new) : RowSong(row2[j]) = new[j]
  BY <1>0, <1>1
<1> HIDE DEF row2
<1> QED BY <1>3, <1>4, <1>5, MarkedByDef

\* remove of any song, as pop does it, needs no other marks.
LEMMA RemoveStaysMarked ==
  ASSUME NEW S, NEW list \in Seq(S), NEW R, NEW song, MarkedBy(list, R)
  PROVE  MarkedBy(RemoveSong(list, song), R)
<1>1. CASE Find(list, song) = -1
  BY <1>1, RemoveTakesTheFirst
<1>2. CASE Find(list, song) # -1
  <2> DEFINE p == Find(list, song) + 1
             new == RemoveSong(list, song)
  <2>1. Len(list) \in Nat /\ Find(list, song) \in 0..(Len(list) - 1)
    BY <1>2, LenProperties, FindFirst
  <2>2. /\ Len(new) = Len(list) - 1
        /\ \A j \in 1..(Len(list) - 1) :
             new[j] = IF j <= Find(list, song) THEN list[j] ELSE list[j + 1]
    BY <1>2, RemoveTakesTheFirst
  <2>3. p \in 1..Len(list)
        /\ \A j \in 1..(Len(list) - 1) : j <= Find(list, song) <=> j < p
    BY <2>1
  <2>4. \A j \in 1..(Len(list) - 1) : new[j] = IF j < p THEN list[j] ELSE list[j + 1]
    BY <2>2, <2>3
  <2>5. PICK row \in [FromTable(list) -> R] :
          /\ \A i, j \in FromTable(list) : row[i] = row[j] => i = j
          /\ \A i \in FromTable(list) : RowSong(row[i]) = list[i]
    BY MarkedByDef
  <2> DEFINE row2 == [i \in FromTable(list) \ {p} |-> row[i]]
  <2>6. /\ row2 \in [FromTable(list) \ {p} -> R]
        /\ \A i, j \in FromTable(list) \ {p} : row2[i] = row2[j] => i = j
        /\ \A i \in FromTable(list) \ {p} : RowSong(row2[i]) = list[i]
    BY <2>5
  <2> HIDE DEF p, new, row2
  <2>6a. \E f \in [FromTable(list) \ {p} -> R] :
           /\ \A i, j \in FromTable(list) \ {p} : f[i] = f[j] => i = j
           /\ \A i \in FromTable(list) \ {p} : RowSong(f[i]) = list[i]
    BY <2>6
  <2>7. Len(new) = Len(list) - 1 /\ p \in 1..Len(list)
    BY <2>2, <2>3
  <2>8. MarkedBy(new, R)
    BY <2>1, <2>4, <2>6a, <2>7, RestIsMarked, ZenonT(30)
  <2> QED BY <2>8 DEF new
<1> QED BY <1>1, <1>2

\* remove of the song of a row lets its mark go: if that mark stood for
\* another equal song, this one takes the mark of the song that is removed.
LEMMA UnmarkStaysMarked ==
  ASSUME NEW S, NEW list \in Seq(S), NEW R, NEW r,
         RowSong(r) # CliSong, MarkedBy(list, R)
  PROVE  MarkedBy(RemoveSong(list, RowSong(r)), R \ {r})
<1> DEFINE song == RowSong(r)
           new == RemoveSong(list, song)
<1>1. PICK row \in [FromTable(list) -> R] :
        /\ \A i, j \in FromTable(list) : row[i] = row[j] => i = j
        /\ \A i \in FromTable(list) : RowSong(row[i]) = list[i]
  BY MarkedByDef
<1>2. CASE Find(list, song) = -1
  <2>1. new = list
    BY <1>2, RemoveTakesTheFirst
  <2>2. \A i \in FromTable(list) : list[i] # song
    BY <1>2, FindFirst, LenProperties DEF FromTable
  <2>3. row \in [FromTable(list) -> R \ {r}]
    BY <1>1, <2>2
  <2>4. MarkedBy(list, R \ {r})
    BY <1>1, <2>3, MarkedByDef
  <2> QED BY <2>1, <2>4
<1>3. CASE Find(list, song) # -1
  <2> DEFINE p == Find(list, song) + 1
  <2>1. /\ Len(list) \in Nat /\ Find(list, song) \in 0..(Len(list) - 1)
        /\ list[p] = song
    BY <1>3, LenProperties, FindFirst DEF At0
  <2>2. /\ Len(new) = Len(list) - 1
        /\ \A j \in 1..(Len(list) - 1) :
             new[j] = IF j <= Find(list, song) THEN list[j] ELSE list[j + 1]
    BY <1>3, RemoveTakesTheFirst
  <2>3. p \in 1..Len(list)
        /\ \A j \in 1..(Len(list) - 1) : j <= Find(list, song) <=> j < p
    BY <2>1
  <2>4. \A j \in 1..(Len(list) - 1) : new[j] = IF j < p THEN list[j] ELSE list[j + 1]
    BY <2>2, <2>3
  <2>5. p \in FromTable(list)
    BY <2>1, <2>3 DEF FromTable
  <2> DEFINE row2 == [i \in FromTable(list) \ {p} |->
                        IF row[i] = r THEN row[p] ELSE row[i]]
  <2> HIDE DEF p, new
  <2>6. row2 \in [FromTable(list) \ {p} -> R \ {r}]
    BY <1>1, <2>5
  <2>7. \A i, j \in FromTable(list) \ {p} : row2[i] = row2[j] => i = j
    BY <1>1, <2>5
  <2>8. \A i \in FromTable(list) \ {p} : RowSong(row2[i]) = list[i]
    BY <1>1, <2>1, <2>5
  <2> HIDE DEF row2, song
  <2>8a. \E f \in [FromTable(list) \ {p} -> R \ {r}] :
           /\ \A i, j \in FromTable(list) \ {p} : f[i] = f[j] => i = j
           /\ \A i \in FromTable(list) \ {p} : RowSong(f[i]) = list[i]
    BY <2>6, <2>7, <2>8
  <2>9. Len(new) = Len(list) - 1 /\ p \in 1..Len(list)
    BY <2>2, <2>3
  <2>10. MarkedBy(new, R \ {r})
    BY <2>1, <2>4, <2>8a, <2>9, RestIsMarked, ZenonT(30)
  <2> QED BY <2>10 DEF new, song
<1> QED BY <1>2, <1>3

-----------------------------------------------------------------------------
(* The inductive invariant.                                                *)

Marked == {r \in Rows : marks[r]}

\* An item that is being filled is one of the page, and a walk has its key.
UnderWay ==
  /\ resumeAt \in {"size", "at"} => resumeIdx < ItemNum
  /\ walk # NULL => key \in Keys

\* Without songs in the table only pl.add fills the list.
OnlyFromCli == songs = <<>> => playlist \in Seq({CliSong})

SongInv == TypeOK /\ UnderWay /\ OnlyFromCli /\ EverySongHasItsMark

LEMMA RowSongIsASong ==
  ASSUME TypeOK, NEW r \in Rows, songs # <<>>
  PROVE  RowSong(r) \in Songs
<1> DEFINE n == IF r < Len(songs) THEN r ELSE 0
<1>1. Len(songs) \in Nat /\ Len(songs) # 0
  BY LenProperties, EmptySeq DEF TypeOK
<1>2. n + 1 \in 1..Len(songs)
  BY <1>1 DEF Rows
<1>3. songs[n + 1] \in Songs
  BY <1>2, ElementOfSeq DEF TypeOK
<1> QED BY <1>3 DEF RowSong, At0

\* The widgets as numbers, and where a key leads.
LEMMA NeighbourIsAWidget ==
  ASSUME NEW w \in Widgets, NEW k \in Keys
  PROVE  Neighbour(w, k) \in Widgets \cup {NULL}
BY SongSelectAssumption DEF Neighbour, BtnUp, Widgets, Items, Keys, NULL,
   btn_prev, btn_next, btn_return

LEMMA InitMarked == Init => SongInv
<1> SUFFICES ASSUME Init PROVE SongInv
  OBVIOUS
<1> USE SongSelectAssumption
<1>1. TypeOK
  <2>1. playlist \in Seq(AllSongs) /\ songs \in Seq(Songs)
    BY EmptySeq DEF Init
  <2>2. resumeIdx \in 0..ItemNum
    BY DEF Init
  <2> QED BY <2>1, <2>2 DEF Init, TypeOK, ResumeCalls, Widgets
<1>2. UnderWay
  BY DEF Init, UnderWay
<1>4. OnlyFromCli
  BY EmptySeq DEF Init, OnlyFromCli
<1>3. EverySongHasItsMark
  <2>1. FromTable(playlist) = {}
    <3>1. Len(playlist) = 0
      BY DEF Init
    <3> QED BY <3>1 DEF FromTable
  <2>2. [i \in {} |-> 0] \in [FromTable(playlist) -> Marked]
    BY <2>1
  <2>3. MarkedBy(playlist, Marked)
    BY <2>1, <2>2, MarkedByDef
  <2> QED BY <2>3 DEF EverySongHasItsMark, Marked
<1> QED BY <1>1, <1>2, <1>3, <1>4 DEF SongInv

\* What leaves the list and the marks alone.
LEMMA SameListSameMarks ==
  ASSUME EverySongHasItsMark, UNCHANGED <<songs, playlist, marks>>
  PROVE  EverySongHasItsMark'
BY DEF EverySongHasItsMark, MarkedBy, FromTable, RowSong, At0, Rows

\* The rows of the table.
LEMMA KeySelectMarked ==
  ASSUME SongInv, NEW r \in Rows, KeySelect(r)
  PROVE  SongInv'
<1> USE DEF SongInv
<1>1. UNCHANGED <<songs, popAt, page, viewVars>> /\ marks' = [marks EXCEPT ![r] = ~@]
  BY DEF KeySelect
<1>2. marks' \in [Rows -> BOOLEAN]
  BY <1>1 DEF TypeOK
<1>3. UnderWay'
  BY <1>1 DEF UnderWay, viewVars
<1>4. playlist \in Seq(AllSongs) /\ CliSong \notin Songs /\ Songs \subseteq AllSongs
  BY SongSelectAssumption DEF TypeOK, AllSongs
<1>5. MarkedBy(playlist, Marked)
  BY DEF EverySongHasItsMark, Marked
<1>6. playlist' \in Seq(AllSongs) /\ hung' \in SUBSET Threads => TypeOK'
  BY <1>1, <1>2 DEF TypeOK, viewVars
<1>7. MarkedBy(playlist', Marked') => EverySongHasItsMark'
  BY <1>1 DEF EverySongHasItsMark, MarkedBy, Marked, RowSong, At0, Rows
<1>8. CASE ~marks[r] /\ songs # <<>> /\ playlist' = Append(playlist, RowSong(r))
           /\ UNCHANGED hung
  <2>1. RowSong(r) \in AllSongs
    BY <1>4, <1>8, RowSongIsASong
  <2>2. r \notin Marked /\ Marked' = Marked \cup {r}
    BY <1>1, <1>8 DEF Marked, TypeOK
  <2>3. MarkedBy(playlist', Marked')
    BY <1>4, <1>5, <1>8, <2>1, <2>2, AppendIsMarked
  <2>4. playlist' \in Seq(AllSongs)
    BY <1>4, <1>8, <2>1, AppendProperties
  <2> QED BY <1>1, <1>3, <1>6, <1>7, <1>8, <2>3, <2>4 DEF TypeOK, OnlyFromCli
<1>9. CASE marks[r] /\ songs # <<>> /\ playlist' = RemoveSong(playlist, RowSong(r))
           /\ UNCHANGED hung
  <2>1. RowSong(r) # CliSong
    BY <1>4, <1>9, RowSongIsASong
  <2>2. Marked' = Marked \ {r}
    BY <1>1, <1>9 DEF Marked, TypeOK
  <2>3. MarkedBy(playlist', Marked')
    BY <1>4, <1>5, <1>9, <2>1, <2>2, UnmarkStaysMarked
  <2>4. playlist' \in Seq(AllSongs)
    BY <1>4, <1>9, RemoveTakesTheFirst
  <2> QED BY <1>1, <1>3, <1>6, <1>7, <1>9, <2>3, <2>4 DEF TypeOK, OnlyFromCli
<1>10. CASE songs = <<>> /\ UNCHANGED playlist /\ hung' = hung \cup {GUI}
  <2>1. playlist' \in Seq({CliSong})
    BY <1>10 DEF OnlyFromCli
  <2>2. FromTable(playlist') = {}
    BY <2>1, ElementOfSeq DEF FromTable
  <2>3. [i \in {} |-> 0] \in [FromTable(playlist') -> Marked']
    BY <2>2
  <2>4. MarkedBy(playlist', Marked')
    BY <2>2, <2>3, MarkedByDef
  <2>5. hung' \in SUBSET Threads
    BY <1>1, <1>10, SongSelectAssumption DEF TypeOK
  <2> QED BY <1>3, <1>4, <1>6, <1>7, <1>10, <2>1, <2>4, <2>5 DEF OnlyFromCli
<1> QED BY <1>8, <1>9, <1>10 DEF KeySelect, Throw

\* Steps of the pages that leave the list and the marks alone.
LEMMA PageStepMarked ==
  ASSUME SongInv, UNCHANGED <<songs, playlist, marks>>,
         TypeOK', UnderWay'
  PROVE  SongInv'
BY SameListSameMarks DEF SongInv, OnlyFromCli

LEMMA ResumeMarked ==
  ASSUME SongInv, Resume
  PROVE  SongInv'
<1> USE SongSelectAssumption DEF SongInv
<1>1. UNCHANGED <<songs, playlist, popAt, page, marks, walk, key>>
  BY DEF Resume, ResumeSize, ResumeAt, ResumeLast, Throw, listVars
<1>2. NextItem /\ resumeIdx < ItemNum =>
        UnderWay' /\ resumeIdx' \in 0..ItemNum /\ resumeAt' \in ResumeCalls
  BY <1>1 DEF NextItem, UnderWay, ResumeCalls, TypeOK
<1>3. CASE ResumeSize
  <2>1. resumeIdx \in Items /\ resumeIdx < ItemNum
    BY <1>3 DEF ResumeSize, UnderWay, TypeOK, Items
  <2>2. UnderWay' /\ resumeIdx' \in 0..ItemNum /\ resumeAt' \in ResumeCalls
    BY <1>2, <1>3, <2>1 DEF ResumeSize, UnderWay, TypeOK, ResumeCalls, Items
  <2>3. items' \in [Items -> AllSongs \cup {Hidden}]
    BY <1>3, <2>1 DEF ResumeSize, TypeOK
  <2>4. TypeOK'
    BY <1>1, <1>3, <2>2, <2>3 DEF ResumeSize, TypeOK, listVars
  <2> QED BY <1>1, <2>2, <2>4, PageStepMarked
<1>4. CASE ResumeAt
  <2>1. resumeIdx \in Items /\ resumeIdx < ItemNum
    BY <1>4 DEF ResumeAt, UnderWay, TypeOK, Items
  <2>2. UnderWay' /\ resumeIdx' \in 0..ItemNum /\ resumeAt' \in ResumeCalls
    BY <1>2, <1>4, <2>1 DEF ResumeAt, UnderWay, TypeOK, ResumeCalls
  <2>3. items' \in [Items -> AllSongs \cup {Hidden}]
    <3>1. CASE resumeIdx < Len(playlist)
      <4>1. resumeIdx + 1 \in 1..Len(playlist)
        BY <2>1, <3>1, LenProperties DEF TypeOK, Items
      <4>2. At0(playlist, resumeIdx) \in AllSongs
        BY <4>1, ElementOfSeq DEF At0, TypeOK
      <4> QED BY <1>4, <2>1, <4>2 DEF ResumeAt, TypeOK
    <3>2. CASE UNCHANGED items
      BY <3>2 DEF TypeOK
    <3> QED BY <1>4, <3>1, <3>2 DEF ResumeAt
  <2>4. hung' \in SUBSET Threads
    BY <1>4 DEF ResumeAt, Throw, TypeOK
  <2>5. TypeOK'
    BY <1>1, <1>4, <2>2, <2>3, <2>4 DEF ResumeAt, TypeOK
  <2> QED BY <1>1, <2>2, <2>5, PageStepMarked
<1>5. CASE ResumeLast
  <2>1. currentFocus' \in Widgets
    BY <1>5 DEF ResumeLast, Widgets, btn_return
  <2>2. lit' \in SUBSET Widgets /\ listShown' \in BOOLEAN
    BY <1>5, <2>1 DEF ResumeLast, TypeOK
  <2>3. TypeOK' /\ UnderWay'
    BY <1>1, <1>5, <2>1, <2>2 DEF ResumeLast, TypeOK, UnderWay, ResumeCalls, listVars
  <2> QED BY <1>1, <2>3, PageStepMarked
<1> QED BY <1>3, <1>4, <1>5 DEF Resume

LEMMA WalkStepMarked ==
  ASSUME SongInv, WalkStep
  PROVE  SongInv'
<1> USE DEF SongInv
<1> DEFINE temp == IF key = "Up" /\ playlist = <<>> THEN NULL ELSE Neighbour(walk, key)
<1>1. UNCHANGED <<songs, playlist, popAt, hung, page, marks, resumeAt, resumeIdx,
                  items, listShown>>
  BY DEF WalkStep, listVars
<1>2. temp \in Widgets \cup {NULL}
  BY NeighbourIsAWidget DEF WalkStep, TypeOK, UnderWay
<1> HIDE DEF temp
<1>3. TypeOK' /\ UnderWay'
  BY <1>1, <1>2 DEF WalkStep, TypeOK, UnderWay, temp
<1> QED BY <1>1, <1>3, PageStepMarked

\* Opening and leaving pages and pressing a key.
LEMMA EventMarked ==
  ASSUME SongInv,
         OpenSearch \/ OpenPlayList \/ Back \/ \E k \in Keys : CursorKeyEvent(k)
  PROVE  SongInv'
<1> USE SongSelectAssumption DEF SongInv
<1>1. UNCHANGED <<songs, playlist, marks>>
  BY DEF OpenSearch, OpenPlayList, Back, CursorKeyEvent, listVars
<1>2. CASE OpenSearch
  BY <1>1, <1>2, PageStepMarked DEF OpenSearch, TypeOK, UnderWay, listVars, viewVars
<1>3. CASE OpenPlayList
  BY <1>1, <1>3, PageStepMarked DEF OpenPlayList, TypeOK, UnderWay, listVars, ResumeCalls
<1>4. CASE Back
  <2>1. lit' \in SUBSET Widgets
    BY <1>4 DEF Back, TypeOK
  <2> QED BY <1>1, <1>4, <2>1, PageStepMarked DEF Back, TypeOK, UnderWay, listVars
<1>5. ASSUME NEW k \in Keys, CursorKeyEvent(k) PROVE SongInv'
  BY <1>1, <1>5, PageStepMarked DEF CursorKeyEvent, TypeOK, UnderWay, listVars
<1> QED BY <1>2, <1>3, <1>4, <1>5

\* Steps on the list that are not the table's.
LEMMA ListStepMarked ==
  ASSUME SongInv, UNCHANGED <<songs, page, marks, viewVars>>,
         popAt' \in [Threads -> {"none", "remove", "at"}], hung' \in SUBSET Threads,
         \/ UNCHANGED playlist
         \/ playlist' = Append(playlist, CliSong)
         \/ \E song \in AllSongs : playlist' = RemoveSong(playlist, song)
  PROVE  SongInv'
<1> USE DEF SongInv
<1>1. UnderWay'
  BY DEF UnderWay, viewVars
<1>2. playlist' \in Seq(AllSongs) => TypeOK'
  BY DEF TypeOK, viewVars
<1>3. MarkedBy(playlist', Marked) => EverySongHasItsMark'
  BY DEF EverySongHasItsMark, MarkedBy, Marked, RowSong, At0, Rows
<1>4. playlist \in Seq(AllSongs) /\ MarkedBy(playlist, Marked)
  BY DEF TypeOK, EverySongHasItsMark, Marked
<1>5. CASE UNCHANGED playlist
  BY <1>1, <1>2, <1>3, <1>4, <1>5 DEF OnlyFromCli
<1>6. CASE playlist' = Append(playlist, CliSong)
  <2>1. CliSong \in AllSongs /\ playlist' \in Seq(AllSongs)
    BY <1>4, <1>6, AppendProperties DEF AllSongs
  <2>2. OnlyFromCli'
    BY <1>6, AppendProperties DEF OnlyFromCli
  <2>3. MarkedBy(playlist', Marked)
    BY <1>4, <1>6, <2>1, CliSongNeedsNoMark
  <2> QED BY <1>1, <1>2, <1>3, <2>1, <2>2, <2>3
<1>7. ASSUME NEW song \in AllSongs, playlist' = RemoveSong(playlist, song)
      PROVE  SongInv'
  <2>1. playlist' \in Seq(AllSongs) /\ OnlyFromCli'
    BY <1>4, <1>7, RemoveTakesTheFirst DEF OnlyFromCli
  <2>2. MarkedBy(playlist', Marked)
    BY <1>4, <1>7, RemoveStaysMarked
  <2> QED BY <1>1, <1>2, <1>3, <2>1, <2>2
<1> QED BY <1>5, <1>6, <1>7

LEMMA PopMarked ==
  ASSUME SongInv, NEW t \in Threads, PopSize(t) \/ PopRemove(t) \/ PopAt(t)
  PROVE  SongInv'
<1> USE DEF SongInv
<1>1. UNCHANGED <<songs, page, marks, viewVars>>
  BY DEF PopSize, PopRemove, PopAt
<1>2. popAt' \in [Threads -> {"none", "remove", "at"}]
  BY DEF PopSize, PopRemove, PopAt, TypeOK
<1>3. hung' \in SUBSET Threads
  BY DEF PopSize, PopRemove, PopAt, Throw, TypeOK
<1>4. \/ UNCHANGED playlist
      \/ \E song \in AllSongs : playlist' = RemoveSong(playlist, song)
  <2>1. CASE PopRemove(t) /\ playlist # <<>>
    <3>1. 0 + 1 \in 1..Len(playlist)
      BY <2>1, EmptySeq DEF TypeOK
    <3>2. At0(playlist, 0) \in AllSongs
      BY <3>1, ElementOfSeq DEF At0, TypeOK
    <3> QED BY <2>1, <3>2 DEF PopRemove
  <2>2. CASE ~(PopRemove(t) /\ playlist # <<>>)
    BY <2>2 DEF PopSize, PopRemove, PopAt, Throw
  <2> QED BY <2>1, <2>2
<1> QED BY <1>1, <1>2, <1>3, <1>4, ListStepMarked

LEMMA NextMarked ==
  ASSUME SongInv, [Next]_vars
  PROVE  SongInv'
<1>1. ASSUME NEW r \in Rows, KeySelect(r) PROVE SongInv'
  BY <1>1, KeySelectMarked
<1>2. CASE OpenSearch \/ OpenPlayList \/ Back \/ \E k \in Keys : CursorKeyEvent(k)
  BY <1>2, EventMarked
<1>3. CASE Resume
  BY <1>3, ResumeMarked
<1>4. CASE WalkStep
  BY <1>4, WalkStepMarked
<1>5. CASE CliAdd
  BY <1>5, ListStepMarked DEF CliAdd, SongInv, TypeOK
<1>6. ASSUME NEW t \in Threads, PopSize(t) \/ PopRemove(t) \/ PopAt(t)
      PROVE  SongInv'
  BY <1>6, PopMarked
<1>7. CASE UNCHANGED vars
  <2>1. UNCHANGED <<songs, playlist, marks>>
    BY <1>7 DEF vars, listVars
  <2>2. TypeOK' /\ UnderWay'
    BY <1>7 DEF vars, listVars, viewVars, SongInv, TypeOK, UnderWay
  <2> QED BY <2>1, <2>2, PageStepMarked
<1> QED BY <1>1, <1>2, <1>3, <1>4, <1>5, <1>6, <1>7 DEF Next

LEMMA SongInvariant == Spec => []SongInv
<1>1. Init => SongInv
  BY InitMarked
<1>2. SongInv /\ [Next]_vars => SongInv'
  BY NextMarked
<1> QED BY <1>1, <1>2, PTL DEF Spec

(* The types of the list, the marks and the page, for any table, any       *)
(* database and any number of threads that pop (PlayListView.cpp:176-454). *)
THEOREM SongTypes == Spec => []TypeOK
<1>1. SongInv => TypeOK
  BY DEF SongInv
<1> QED BY <1>1, SongInvariant, PTL

(* Every song that the table put into the list has a check mark of its     *)
(* own, whatever is popped, appended and marked in between                 *)
(* (SongListView.cpp:56-79, PlayListView.cpp:309-320, playlist.h:42-53).   *)
THEOREM NoSongWithoutMark == Spec => []EverySongHasItsMark
<1>1. SongInv => EverySongHasItsMark
  BY DEF SongInv
<1> QED BY <1>1, SongInvariant, PTL

-----------------------------------------------------------------------------
(* The cursor.                                                             *)

CursorInv ==
  /\ resumeAt # "none" => page = "list" /\ walk = NULL
  /\ walk # NULL => page = "list"
  /\ lit = IF page = "list" /\ resumeAt = "none" THEN {currentFocus} ELSE {}

LEMMA CursorNext == ASSUME TypeOK, CursorInv, [Next]_vars PROVE CursorInv'
<1> USE DEF CursorInv
<1>1. CASE OpenSearch
  BY <1>1 DEF OpenSearch, GuiIdle, viewVars
<1>2. CASE OpenPlayList
  BY <1>2 DEF OpenPlayList, GuiIdle
<1>3. CASE Back
  BY <1>3 DEF Back, GuiIdle
<1>4. ASSUME NEW r \in Rows, KeySelect(r) PROVE CursorInv'
  BY <1>4 DEF KeySelect, viewVars
<1>5. CASE ResumeSize
  <2>1. resumeAt = "size" /\ resumeAt' # "none"
    BY <1>5 DEF ResumeSize, NextItem
  <2> QED BY <1>5, <2>1 DEF ResumeSize
<1>6. CASE ResumeAt
  <2>1. resumeAt = "at" /\ resumeAt' # "none"
    BY <1>6 DEF ResumeAt, NextItem
  <2> QED BY <1>6, <2>1 DEF ResumeAt
<1>7. CASE ResumeLast
  BY <1>7 DEF ResumeLast
<1>8. ASSUME NEW k \in Keys, CursorKeyEvent(k) PROVE CursorInv'
  BY <1>8 DEF CursorKeyEvent, GuiIdle
<1>9. CASE WalkStep
  <2>1. walk # NULL /\ page = "list" /\ resumeAt = "none" /\ lit = {currentFocus}
        /\ UNCHANGED <<page, resumeAt>>
    BY <1>9 DEF WalkStep
  <2> QED BY <1>9, <2>1 DEF WalkStep
<1>10. CASE CliAdd \/ \E t \in Threads : PopSize(t) \/ PopRemove(t) \/ PopAt(t)
  <2>1. UNCHANGED <<page, viewVars>>
    BY <1>10 DEF CliAdd, PopSize, PopRemove, PopAt
  <2> QED BY <2>1 DEF viewVars
<1>11. CASE UNCHANGED vars
  BY <1>11 DEF vars, viewVars
<1> QED BY <1>1, <1>2, <1>3, <1>4, <1>5, <1>6, <1>7, <1>8, <1>9, <1>10, <1>11 DEF Next, Resume

LEMMA CursorInvariant == Spec => [](SongInv /\ CursorInv)
<1>1. Init => SongInv /\ CursorInv
  BY InitMarked DEF Init, CursorInv
<1>2. SongInv /\ CursorInv /\ [Next]_vars => SongInv' /\ CursorInv'
  BY NextMarked, CursorNext DEF SongInv
<1> QED BY <1>1, <1>2, PTL DEF Spec

(* At every moment at most one widget is painted as the one under the      *)
(* cursor, and it is the one (PlayListView.cpp:219-229, 440-454).          *)
THEOREM OneWidgetIsLit == Spec => []CursorIsLit
<1>1. CursorInv => CursorIsLit
  BY DEF CursorInv, CursorIsLit
<1> QED BY <1>1, CursorInvariant, PTL

-----------------------------------------------------------------------------
(* The page and the list it was opened on.                                 *)

Shows(i) == items[i] = IF i < Len(playlist) THEN At0(playlist, i) ELSE Hidden

\* As long as nobody changed the list while the page was being opened.
Filling ==
  page = "list" /\ ~raced =>
    /\ resumeAt \in {"size", "at"} =>
         \A i \in Items : i < resumeIdx => Shows(i)
    /\ resumeAt = "at" => resumeIdx < Len(playlist)
    /\ resumeAt = "last" => \A i \in Items : Shows(i)
    /\ resumeAt = "none" => IsVisible(currentFocus)

PageInv ==
  /\ SongInv /\ CursorInv
  /\ raced => stale
  /\ Filling
  /\ PageShowsTheList
  /\ OpeningThrowsOnlyRaced

LEMMA HiddenIsNoSong == Hidden \notin AllSongs
BY SongSelectAssumption DEF AllSongs, Hidden

LEMMA FrontIsASong ==
  ASSUME TypeOK, NEW i \in Nat, i < Len(playlist)
  PROVE  At0(playlist, i) \in AllSongs
<1>1. i + 1 \in 1..Len(playlist)
  BY LenProperties DEF TypeOK
<1> QED BY <1>1, ElementOfSeq DEF At0, TypeOK

LEMMA InitPage == ASSUME MCInit PROVE PageInv
<1>1. SongInv /\ CursorInv
  BY InitMarked DEF MCInit, Init, CursorInv
<1> QED BY <1>1 DEF MCInit, Init, PageInv, Filling, PageShowsTheList, PageIsOpen,
     OpeningThrowsOnlyRaced

\* A step of the GUI thread on the open page.
LEMMA ListIsTheSame ==
  ASSUME MCNext, page = "list", page' = "list", playlist' = playlist
  PROVE  (raced' <=> raced) /\ (stale' <=> stale)
BY DEF MCNext, Changed

LEMMA ResumePage ==
  ASSUME PageInv, MCNext, Resume
  PROVE  Filling' /\ PageShowsTheList' /\ OpeningThrowsOnlyRaced'
<1> USE SongSelectAssumption
<1>1. /\ page = "list" /\ page' = page /\ playlist' = playlist /\ GUI \notin hung
      /\ TypeOK /\ Filling /\ (raced => stale)
  <2>1. resumeAt # "none" /\ page' = page /\ playlist' = playlist /\ GUI \notin hung
    BY DEF Resume, ResumeSize, ResumeAt, ResumeLast, listVars, Throw
  <2> QED BY <2>1 DEF PageInv, SongInv, CursorInv, MCNext, Next
<1>2. (raced' <=> raced) /\ (stale' <=> stale)
  BY <1>1, ListIsTheSame
<1>3. \A i \in Items : items'[i] = items[i] => (Shows(i)' <=> Shows(i))
  BY <1>1 DEF Shows, At0
<1>4. resumeAt \in {"size", "at"} => resumeIdx \in Items
  BY DEF PageInv, SongInv, UnderWay, TypeOK, Items
<1>5. ASSUME NextItem, resumeIdx \in Items, 
             raced \/ \A i \in Items : i < resumeIdx \/ i = resumeIdx => Shows(i)'
      PROVE  Filling' /\ resumeAt' \in {"size", "last"}
  <2>1. resumeIdx' = resumeIdx + 1
        /\ resumeAt' = IF resumeIdx + 1 < ItemNum THEN "size" ELSE "last"
    BY <1>5 DEF NextItem
  <2>2. \A i \in Items : i < resumeIdx + 1 => i < resumeIdx \/ i = resumeIdx
    BY <1>5 DEF Items
  <2>3. resumeIdx + 1 < ItemNum \/ \A i \in Items : i < resumeIdx + 1
    BY <1>5 DEF Items
  <2> QED BY <1>2, <1>5, <2>1, <2>2, <2>3 DEF Filling
<1>6. CASE ResumeSize
  <2>1. resumeAt = "size" /\ resumeIdx \in Items /\ UNCHANGED hung
    BY <1>4, <1>6 DEF ResumeSize, listVars
  <2>2. items \in [Items -> AllSongs \cup {Hidden}]
    BY <1>1 DEF TypeOK
  <2>3. CASE resumeIdx >= Len(playlist) /\ items' = [items EXCEPT ![resumeIdx] = Hidden] /\ NextItem
    <3>1. \A i \in Items : i < resumeIdx => items'[i] = items[i]
      BY <2>1, <2>2, <2>3 DEF Items
    <3>2. ~(resumeIdx < Len(playlist))
      BY <1>1, <2>1, <2>3, LenProperties DEF TypeOK, Items
    <3>3. \A i \in Items : i = resumeIdx => Shows(i)'
      BY <1>1, <2>1, <2>2, <2>3, <3>2 DEF Shows
    <3>4. raced \/ \A i \in Items : i < resumeIdx => Shows(i)'
      BY <1>1, <1>3, <2>1, <3>1 DEF Filling
    <3>5. Filling' /\ resumeAt' \in {"size", "last"}
      BY <1>5, <2>1, <2>3, <3>3, <3>4
    <3> QED BY <3>5 DEF PageShowsTheList, PageIsOpen, OpeningThrowsOnlyRaced
  <2>4. CASE resumeIdx < Len(playlist) /\ resumeAt' = "at" /\ UNCHANGED <<resumeIdx, items>>
    <3>1. Filling'
      BY <1>1, <1>2, <1>3, <2>1, <2>4 DEF Filling
    <3> QED BY <1>1, <2>1, <2>4, <3>1 DEF PageShowsTheList, PageIsOpen, OpeningThrowsOnlyRaced
  <2> QED BY <1>6, <2>3, <2>4 DEF ResumeSize
<1>7. CASE ResumeAt
  <2>1. resumeAt = "at" /\ resumeIdx \in Items
    BY <1>4, <1>7 DEF ResumeAt
  <2>2. items \in [Items -> AllSongs \cup {Hidden}]
    BY <1>1 DEF TypeOK
  <2>3. resumeIdx \in Nat /\ Len(playlist) \in Nat
    BY <1>1, <2>1, LenProperties DEF TypeOK, Items
  <2>4. CASE resumeIdx >= Len(playlist) /\ UNCHANGED <<items, resumeAt, resumeIdx>>
    <3>1. raced
      BY <1>1, <2>1, <2>3, <2>4 DEF Filling
    <3> QED BY <1>2, <2>1, <2>4, <3>1 DEF Filling, PageShowsTheList, PageIsOpen, OpeningThrowsOnlyRaced
  <2>5. CASE /\ resumeIdx < Len(playlist) /\ NextItem /\ UNCHANGED hung
             /\ items' = [items EXCEPT ![resumeIdx] = At0(playlist, resumeIdx)]
    <3>1. \A i \in Items : i < resumeIdx => items'[i] = items[i]
      BY <2>1, <2>2, <2>5 DEF Items
    <3>2. items'[resumeIdx] = At0(playlist, resumeIdx)
      BY <2>1, <2>2, <2>5
    <3>3. \A i \in Items : i = resumeIdx => Shows(i)'
      BY <1>1, <2>5, <3>2 DEF Shows, At0
    <3>4. raced \/ \A i \in Items : i < resumeIdx => Shows(i)'
      BY <1>1, <1>3, <2>1, <3>1 DEF Filling
    <3>5. Filling' /\ resumeAt' \in {"size", "last"}
      BY <1>5, <2>1, <2>5, <3>3, <3>4
    <3> QED BY <3>5 DEF PageShowsTheList, PageIsOpen, OpeningThrowsOnlyRaced
  <2> QED BY <1>7, <2>4, <2>5 DEF ResumeAt
<1>8. CASE ResumeLast
  <2>1. /\ resumeAt = "last" /\ resumeAt' = "none" /\ listShown' = (playlist # <<>>)
        /\ currentFocus' = IF playlist = <<>> THEN btn_return ELSE 0
        /\ UNCHANGED <<items, hung>>
    BY <1>8 DEF ResumeLast, listVars
  <2>2. ~raced => \A i \in Items : Shows(i)
    BY <1>1, <2>1 DEF Filling
  <2>3. ~stale' => PageShowsTheList'
    BY <1>1, <1>2, <2>1, <2>2 DEF PageShowsTheList, Shows, At0
  <2>4. ASSUME ~raced PROVE IsVisible(currentFocus)'
    <3>1. CASE playlist = <<>>
      BY <2>1, <3>1 DEF IsVisible, btn_return, Items
    <3>2. CASE playlist # <<>>
      <4>1. 0 < Len(playlist)
        BY <1>1, <3>2, LenProperties, EmptySeq DEF TypeOK
      <4>2. 0 \in Items /\ Shows(0)
        BY <2>2, <2>4 DEF Items
      <4>3. items[0] = At0(playlist, 0) /\ At0(playlist, 0) \in AllSongs
        BY <1>1, <4>1, <4>2, FrontIsASong DEF Shows
      <4> QED BY <2>1, <3>2, <4>3, HiddenIsNoSong DEF IsVisible
    <3> QED BY <3>1, <3>2
  <2>5. Filling'
    BY <1>2, <2>1, <2>4 DEF Filling
  <2> QED BY <2>1, <2>3, <2>5 DEF PageShowsTheList, OpeningThrowsOnlyRaced
<1> QED BY <1>6, <1>7, <1>8 DEF Resume

\* A walk of the cursor, which only ends at a visible widget.
LEMMA WalkPage ==
  ASSUME PageInv, MCNext, WalkStep
  PROVE  Filling' /\ PageShowsTheList' /\ OpeningThrowsOnlyRaced'
<1>1. /\ page = "list" /\ resumeAt = "none" /\ Filling /\ PageShowsTheList
      /\ UNCHANGED <<page, playlist, hung, resumeAt, resumeIdx, items, listShown>>
  BY DEF PageInv, CursorInv, WalkStep, listVars
<1>2. (raced' <=> raced) /\ (stale' <=> stale)
  BY <1>1, ListIsTheSame
<1>3. \A w : IsVisible(w)' <=> IsVisible(w)
  BY <1>1 DEF IsVisible
<1>4. currentFocus' = currentFocus \/ IsVisible(currentFocus')
  BY DEF WalkStep
<1>5. ~raced => IsVisible(currentFocus)'
  <2>1. ~raced => IsVisible(currentFocus)
    BY <1>1 DEF Filling
  <2>2. IsVisible(currentFocus)' <=> IsVisible(currentFocus')
    BY <1>1 DEF IsVisible
  <2> QED BY <1>4, <2>1, <2>2
<1>6. Filling'
  BY <1>1, <1>2, <1>5 DEF Filling
<1>7. PageShowsTheList'
  BY <1>1, <1>2 DEF PageShowsTheList, PageIsOpen, At0
<1> QED BY <1>1, <1>6, <1>7 DEF OpeningThrowsOnlyRaced

\* A key is pressed: nothing moves yet.
LEMMA KeyPage ==
  ASSUME PageInv, MCNext, NEW k \in Keys, CursorKeyEvent(k)
  PROVE  Filling' /\ PageShowsTheList' /\ OpeningThrowsOnlyRaced'
<1>1. /\ page = "list" /\ resumeAt = "none" /\ Filling /\ PageShowsTheList
      /\ UNCHANGED <<page, playlist, hung, resumeAt, resumeIdx, items, listShown,
                     currentFocus>>
  BY DEF PageInv, CursorKeyEvent, GuiIdle, listVars
<1>2. (raced' <=> raced) /\ (stale' <=> stale)
  BY <1>1, ListIsTheSame
<1>3. Filling'
  BY <1>1, <1>2 DEF Filling, IsVisible
<1>4. PageShowsTheList'
  BY <1>1, <1>2 DEF PageShowsTheList, PageIsOpen, At0
<1> QED BY <1>1, <1>3, <1>4 DEF OpeningThrowsOnlyRaced

\* Another thread, or the table, changes the list, or finds it empty.
LEMMA ListPage ==
  ASSUME PageInv, MCNext, CliAdd \/ \E t \in Threads : PopSize(t) \/ PopRemove(t) \/ PopAt(t)
  PROVE  Filling' /\ PageShowsTheList' /\ OpeningThrowsOnlyRaced'
<1>1. /\ UNCHANGED <<page, resumeAt, resumeIdx, items, listShown, currentFocus>>
      /\ Filling /\ PageShowsTheList /\ OpeningThrowsOnlyRaced
      /\ resumeAt # "none" => page = "list"
  BY DEF PageInv, CursorInv, CliAdd, PopSize, PopRemove, PopAt, viewVars, MCNext, Next
<1>2. GUI \in hung' => GUI \in hung \/ (playlist = <<>> /\ playlist' = playlist)
  BY DEF CliAdd, PopSize, PopRemove, PopAt, Throw
<1>3. /\ raced => (page = "list" => raced')
      /\ stale => (page = "list" => stale')
      /\ page = "list" /\ playlist' # playlist =>
           stale' /\ (resumeAt # "none" => raced')
  BY <1>1 DEF MCNext, Changed
<1>4. Filling'
  <2>1. CASE playlist' = playlist
    BY <1>1, <1>3, <2>1 DEF Filling, Shows, IsVisible, At0
  <2>2. CASE playlist' # playlist /\ resumeAt # "none"
    BY <1>1, <1>3, <2>2 DEF Filling
  <2>3. CASE playlist' # playlist /\ resumeAt = "none"
    BY <1>1, <1>3, <2>3 DEF Filling, IsVisible
  <2> QED BY <2>1, <2>2, <2>3
<1>5. PageShowsTheList'
  <2>1. CASE playlist' = playlist
    BY <1>1, <1>3, <2>1 DEF PageShowsTheList, PageIsOpen, At0
  <2>2. CASE playlist' # playlist
    BY <1>1, <1>3, <2>2 DEF PageShowsTheList, PageIsOpen
  <2> QED BY <2>1, <2>2
<1>6. OpeningThrowsOnlyRaced'
  <2> SUFFICES ASSUME GUI \in hung', GUI \notin hung, resumeAt' = "at" PROVE raced'
    BY <1>1, <1>3 DEF OpeningThrowsOnlyRaced
  <2>1. page = "list" /\ resumeAt = "at" /\ playlist = <<>>
    BY <1>1, <1>2
  <2>2. ~(resumeIdx < Len(playlist))
    <3>1. resumeIdx \in 0..ItemNum /\ Len(playlist) = 0
      BY <2>1 DEF PageInv, SongInv, TypeOK
    <3> QED BY <3>1, SongSelectAssumption
  <2> QED BY <1>1, <1>3, <2>1, <2>2 DEF Filling
<1> QED BY <1>4, <1>5, <1>6

\* While the page is not open there is nothing to say of it.
LEMMA ElsewherePage ==
  ASSUME PageInv, MCNext,
         OpenSearch \/ OpenPlayList \/ Back \/ \E r \in Rows : KeySelect(r)
  PROVE  Filling' /\ PageShowsTheList' /\ OpeningThrowsOnlyRaced'
<1>1. CASE OpenPlayList
  <2>1. resumeAt' = "size" /\ resumeIdx' = 0
    BY <1>1 DEF OpenPlayList
  <2>2. \A i \in Items : ~(i < 0)
    BY SongSelectAssumption DEF Items
  <2> QED BY <2>1, <2>2 DEF Filling, PageShowsTheList, PageIsOpen, OpeningThrowsOnlyRaced
<1>2. CASE OpenSearch \/ Back \/ \E r \in Rows : KeySelect(r)
  <2>1. page' # "list" /\ resumeAt' = "none"
    BY <1>2 DEF OpenSearch, Back, KeySelect, GuiIdle, viewVars
  <2> QED BY <2>1 DEF Filling, PageShowsTheList, PageIsOpen, OpeningThrowsOnlyRaced
<1> QED BY <1>1, <1>2

LEMMA NextPage == ASSUME PageInv, [MCNext]_mcVars PROVE PageInv'
<1>1. SongInv' /\ CursorInv'
  <2>1. [Next]_vars
    BY DEF MCNext, mcVars
  <2> QED BY <2>1, NextMarked, CursorNext DEF PageInv, SongInv
<1>2. CASE MCNext
  <2>1. raced' => stale'
    BY <1>2 DEF PageInv, MCNext
  <2>2. Filling' /\ PageShowsTheList' /\ OpeningThrowsOnlyRaced'
    <3>1. Next
      BY <1>2 DEF MCNext
    <3>2. CASE OpenSearch \/ OpenPlayList \/ Back \/ \E r \in Rows : KeySelect(r)
      BY <1>2, <3>2, ElsewherePage
    <3>3. CASE Resume
      BY <1>2, <3>3, ResumePage
    <3>4. ASSUME NEW k \in Keys, CursorKeyEvent(k)
          PROVE  Filling' /\ PageShowsTheList' /\ OpeningThrowsOnlyRaced'
      BY <1>2, <3>4, KeyPage
    <3>5. CASE WalkStep
      BY <1>2, <3>5, WalkPage
    <3>6. CASE CliAdd \/ \E t \in Threads : PopSize(t) \/ PopRemove(t) \/ PopAt(t)
      BY <1>2, <3>6, ListPage
    <3> QED BY <3>1, <3>2, <3>3, <3>4, <3>5, <3>6 DEF Next
  <2> QED BY <1>1, <2>1, <2>2 DEF PageInv
<1>3. CASE UNCHANGED mcVars
  <2>1. UNCHANGED <<page, playlist, resumeAt, resumeIdx, items, listShown, currentFocus,
                    hung, stale, raced>>
    BY <1>3 DEF mcVars, vars, listVars, viewVars
  <2>2. Filling'
    BY <2>1 DEF PageInv, Filling, Shows, IsVisible, At0
  <2>3. PageShowsTheList' /\ OpeningThrowsOnlyRaced'
    BY <2>1 DEF PageInv, PageShowsTheList, PageIsOpen, OpeningThrowsOnlyRaced, At0
  <2> QED BY <1>1, <2>1, <2>2, <2>3 DEF PageInv
<1> QED BY <1>2, <1>3

LEMMA PageInvariant == MCSpec => []PageInv
<1>1. MCInit => PageInv
  BY InitPage
<1>2. PageInv /\ [MCNext]_mcVars => PageInv'
  BY NextPage
<1> QED BY <1>1, <1>2, PTL DEF MCSpec

(* However the list moves under the open page, the cursor is never left on *)
(* a widget that cannot be seen, unless the list moved while the page was  *)
(* being opened (PlayListView.cpp:182-211, 384-454).                       *)
THEOREM CursorCanBeSeen == MCSpec => []CursorIsVisible
<1>1. PageInv => CursorIsVisible
  BY DEF PageInv, Filling, CursorIsVisible, PageIsOpen
<1> QED BY <1>1, PageInvariant, PTL

(* The page opens with the front of the list, item by item, whatever the   *)
(* lengths of the list and of the page (PlayListView.cpp:182-195).         *)
THEOREM PageOpensWithTheList == MCSpec => []PageShowsTheList
<1>1. PageInv => PageShowsTheList
  BY DEF PageInv
<1> QED BY <1>1, PageInvariant, PTL

(* at() throws while the page is opened, and hangs the GUI thread, only    *)
(* when another thread changed the list since (PlayListView.cpp:184-193).  *)
THEOREM OpeningIsSafeAlone == MCSpec => []OpeningThrowsOnlyRaced
<1>1. PageInv => OpeningThrowsOnlyRaced
  BY DEF PageInv
<1> QED BY <1>1, PageInvariant, PTL

-----------------------------------------------------------------------------
(* The loops of the page end, whatever the list does.                      *)

\* Rounds that a walk may still take: towards the first item and the button
\* behind it, towards the last item and its button, or one between buttons.
RoundsLeft ==
  IF walk = NULL THEN 0
  ELSE CASE key = "Up" -> (IF walk \in Items THEN walk ELSE ItemNum) + 1
         [] key = "Down" -> IF walk \in Items THEN ItemNum - walk ELSE 1
         [] key \in {"Left", "Right"} -> 1

\* Reads of the list that resume() may still make.
ReadsLeft ==
  CASE resumeAt = "size" -> 2 * (ItemNum - resumeIdx) + 1
    [] resumeAt = "at" -> 2 * (ItemNum - resumeIdx)
    [] resumeAt = "last" -> 1
    [] resumeAt = "none" -> 0

LEMMA RoundsAre ==
  /\ walk = NULL => RoundsLeft = 0
  /\ walk # NULL /\ key = "Up" =>
       RoundsLeft = (IF walk \in Items THEN walk ELSE ItemNum) + 1
  /\ walk # NULL /\ key = "Down" =>
       RoundsLeft = IF walk \in Items THEN ItemNum - walk ELSE 1
  /\ walk # NULL /\ key \in {"Left", "Right"} => RoundsLeft = 1
BY DEF RoundsLeft

LEMMA ReadsAre ==
  /\ resumeAt = "size" => ReadsLeft = 2 * (ItemNum - resumeIdx) + 1
  /\ resumeAt = "at" => ReadsLeft = 2 * (ItemNum - resumeIdx)
  /\ resumeAt = "last" => ReadsLeft = 1
  /\ resumeAt = "none" => ReadsLeft = 0
BY DEF ReadsLeft

LEMMA FewRounds ==
  ASSUME SongInv
  PROVE  /\ RoundsLeft \in 0..(ItemNum + 1)
         /\ walk # NULL => RoundsLeft > 0
<1>1. walk # NULL => key \in Keys
  BY DEF SongInv, UnderWay
<1> QED BY <1>1, RoundsAre, SongSelectAssumption DEF Items, Keys

LEMMA FewReads ==
  ASSUME SongInv
  PROVE  /\ ReadsLeft \in 0..(2 * ItemNum + 1)
         /\ resumeAt # "none" => ReadsLeft > 0
<1>1. /\ resumeAt \in ResumeCalls /\ resumeIdx \in 0..ItemNum
      /\ resumeAt \in {"size", "at"} => resumeIdx < ItemNum
  BY DEF SongInv, TypeOK, UnderWay
<1> QED BY <1>1, ReadsAre, SongSelectAssumption DEF ResumeCalls

\* A round that goes on has met an item that is hidden, further on.
LEMMA RoundFewer ==
  ASSUME SongInv, WalkStep
  PROVE  RoundsLeft' < RoundsLeft
<1> DEFINE temp == IF key = "Up" /\ playlist = <<>> THEN NULL ELSE Neighbour(walk, key)
<1>1. walk # NULL /\ key \in Keys /\ walk \in Widgets /\ RoundsLeft > 0
  BY FewRounds DEF WalkStep, SongInv, UnderWay, TypeOK
<1>2. CASE walk' = NULL
  <2>1. RoundsLeft' = 0
    BY <1>2 DEF RoundsLeft
  <2> QED BY <1>1, <2>1
<1>3. CASE temp # NULL /\ ~IsVisible(temp) /\ walk' = temp /\ UNCHANGED key
  <2>1. walk' \in Items /\ walk' = Neighbour(walk, key) /\ walk' # NULL
    BY <1>3 DEF IsVisible
  <2>2. CASE key = "Up"
    <3>1. walk' = BtnUp(walk)
      BY <2>1, <2>2 DEF Neighbour
    <3>2. walk' = IF walk \in Items THEN walk - 1 ELSE ItemNum - 1
      BY <1>1, <2>1, <3>1, SongSelectAssumption DEF BtnUp, Items, btn_next
    <3>3. RoundsLeft' = walk' + 1
      BY <1>3, <2>1, <2>2 DEF RoundsLeft
    <3>4. RoundsLeft = (IF walk \in Items THEN walk ELSE ItemNum) + 1
      BY <1>1, <2>2, RoundsAre
    <3> QED BY <2>1, <3>2, <3>3, <3>4, SongSelectAssumption DEF Items
  <2>3. CASE key = "Down"
    <3>1. walk \in Items /\ walk' = walk + 1
      BY <2>1, <2>3 DEF Neighbour
    <3>2. RoundsLeft' = ItemNum - walk'
      BY <1>3, <2>1, <2>3 DEF RoundsLeft
    <3>3. RoundsLeft = ItemNum - walk
      BY <1>1, <2>3, <3>1, RoundsAre
    <3> QED BY <2>1, <3>1, <3>2, <3>3, SongSelectAssumption DEF Items
  <2>4. CASE key \in {"Left", "Right"}
    <3>1. CASE key = "Left"
      <4>1. Neighbour(walk, key) =
              IF walk \in {btn_next, btn_return} THEN walk - 1 ELSE NULL
        BY <3>1 DEF Neighbour
      <4> QED BY <2>1, <4>1, SongSelectAssumption DEF Items, btn_next, btn_return
    <3>2. CASE key = "Right"
      <4>1. Neighbour(walk, key) =
              IF walk \in {btn_prev, btn_next} THEN walk + 1 ELSE NULL
        BY <3>2 DEF Neighbour
      <4> QED BY <2>1, <4>1, SongSelectAssumption DEF Items, btn_prev, btn_next
    <3> QED BY <2>4, <3>1, <3>2
  <2> QED BY <1>1, <2>2, <2>3, <2>4 DEF Keys
<1> QED BY <1>2, <1>3 DEF WalkStep

\* A read of the list is followed by the next, by the last, or by none.
LEMMA ReadFewer ==
  ASSUME SongInv, Resume
  PROVE  ReadsLeft' < ReadsLeft \/ GUI \in hung'
<1>1. /\ resumeIdx \in 0..ItemNum /\ ItemNum \in Nat
      /\ resumeAt \in {"size", "at"} => resumeIdx < ItemNum
  BY SongSelectAssumption DEF SongInv, TypeOK, UnderWay
<1>2. ASSUME NextItem, resumeAt \in {"size", "at"} PROVE ReadsLeft' < ReadsLeft
  <2>1. CASE resumeIdx + 1 < ItemNum
    <3>1. ReadsLeft' = 2 * (ItemNum - (resumeIdx + 1)) + 1
      BY <1>2, <2>1 DEF NextItem, ReadsLeft
    <3> QED BY <1>1, <1>2, <3>1, ReadsAre
  <2>2. CASE ~(resumeIdx + 1 < ItemNum)
    <3>1. ReadsLeft' = 1
      BY <1>2, <2>2 DEF NextItem, ReadsLeft
    <3> QED BY <1>1, <1>2, <3>1, ReadsAre
  <2> QED BY <2>1, <2>2
<1>3. CASE ResumeSize
  <2>1. CASE resumeAt' = "at" /\ UNCHANGED resumeIdx
    <3>1. ReadsLeft' = 2 * (ItemNum - resumeIdx)
      BY <2>1 DEF ReadsLeft
    <3> QED BY <1>1, <1>3, <3>1, ReadsAre DEF ResumeSize
  <2> QED BY <1>2, <1>3, <2>1 DEF ResumeSize
<1>4. CASE ResumeAt
  BY <1>2, <1>4 DEF ResumeAt, Throw
<1>5. CASE ResumeLast
  <2>1. ReadsLeft' = 0
    BY <1>5 DEF ResumeLast, ReadsLeft
  <2> QED BY <1>5, <2>1, ReadsAre DEF ResumeLast
<1> QED BY <1>3, <1>4, <1>5 DEF Resume

\* While the GUI thread is in one of its loops nothing else moves it.
LEMMA LoopStep ==
  ASSUME SongInv, CursorInv, [Next]_vars
  PROVE  /\ walk # NULL =>
              RoundsLeft' < RoundsLeft \/ (~WalkStep /\ UNCHANGED <<walk, key>>)
         /\ resumeAt # "none" =>
              \/ ReadsLeft' < ReadsLeft \/ GUI \in hung'
              \/ ~Resume /\ UNCHANGED <<resumeAt, resumeIdx>>
<1>1. CASE WalkStep
  BY <1>1, RoundFewer DEF CursorInv, WalkStep
<1>2. CASE Resume
  BY <1>2, ReadFewer DEF CursorInv, Resume, ResumeSize, ResumeAt, ResumeLast
<1>3. ASSUME ~GuiIdle, ~WalkStep, ~Resume
      PROVE  UNCHANGED <<walk, key, resumeAt, resumeIdx>>
  <2>1. ~(OpenSearch \/ OpenPlayList \/ Back \/ \E r \in Rows : KeySelect(r))
    BY <1>3 DEF OpenSearch, OpenPlayList, Back, KeySelect
  <2>2. ~(\E k \in Keys : CursorKeyEvent(k))
    BY <1>3 DEF CursorKeyEvent
  <2>3. CASE CliAdd \/ (\E t \in Threads : PopSize(t) \/ PopRemove(t) \/ PopAt(t))
             \/ UNCHANGED vars
    <3>1. UNCHANGED viewVars
      BY <2>3 DEF CliAdd, PopSize, PopRemove, PopAt, vars
    <3> QED BY <3>1 DEF viewVars
  <2> QED BY <1>3, <2>1, <2>2, <2>3 DEF Next
<1>4. walk # NULL \/ resumeAt # "none" => ~GuiIdle
  BY DEF GuiIdle
<1> QED BY <1>1, <1>2, <1>3, <1>4

(* Both loops of the page read the play list again in every round, while   *)
(* other threads change it, and both end: a key takes ItemNum + 1 rounds   *)
(* at most (PlayListView.cpp:384-438) and the opening of the page reads    *)
(* the list 2 * ItemNum + 1 times at most (PlayListView.cpp:176-229), or   *)
(* hangs in at(), because each round brings the end nearer and nobody else *)
(* sets it back.                                                           *)
THEOREM LoopsOfThePageEnd ==
  /\ Spec => [](RoundsLeft \in 0..(ItemNum + 1) /\ ReadsLeft \in 0..(2 * ItemNum + 1))
  /\ Spec => [][walk # NULL =>
       RoundsLeft' < RoundsLeft \/ (~WalkStep /\ UNCHANGED <<walk, key>>)]_vars
  /\ Spec => [][resumeAt # "none" =>
       \/ ReadsLeft' < ReadsLeft \/ GUI \in hung'
       \/ ~Resume /\ UNCHANGED <<resumeAt, resumeIdx>>]_vars
<1>1. SongInv => RoundsLeft \in 0..(ItemNum + 1) /\ ReadsLeft \in 0..(2 * ItemNum + 1)
  BY FewRounds, FewReads
<1>2. SongInv /\ CursorInv /\ [Next]_vars =>
        [walk # NULL =>
           RoundsLeft' < RoundsLeft \/ (~WalkStep /\ UNCHANGED <<walk, key>>)]_vars
  BY LoopStep
<1>3. SongInv /\ CursorInv /\ [Next]_vars =>
        [resumeAt # "none" =>
           \/ ReadsLeft' < ReadsLeft \/ GUI \in hung'
           \/ ~Resume /\ UNCHANGED <<resumeAt, resumeIdx>>]_vars
  BY LoopStep
<1> QED BY <1>1, <1>2, <1>3, CursorInvariant, PTL DEF Spec
=============================================================================
