------------------------- MODULE PlayListOps_proofs -------------------------
(* Facts about the operators of the play list, for every list.             *)
EXTENDS PlayListOps, SequenceTheorems, WellFoundedInduction, TLAPS

LEMMA SmallestExists ==
  ASSUME NEW I \in SUBSET Nat, I # {}
  PROVE  Min(I) \in I /\ \A j \in I : Min(I) <= j
<1>1. PICK x \in I : \A y \in I : ~(<<y, x>> \in OpToRel(<, Nat))
  BY WFMin, NatLessThanWellFounded
<1>2. \A y \in I : x <= y
  <2>1. ASSUME NEW y \in I, ~(x <= y) PROVE FALSE
    <3>1. y < x /\ y \in Nat /\ x \in Nat
      BY <2>1
    <3>2. <<y, x>> \in OpToRel(<, Nat)
      BY <3>1 DEF OpToRel
    <3> QED BY <1>1, <2>1, <3>2
  <2> QED BY <2>1
<1> QED BY <1>2 DEF Min

\* find returns the first position of the song, or -1 when it is not there.
LEMMA FindFirst ==
  ASSUME NEW S, NEW list \in Seq(S), NEW song
  PROVE  \/ /\ Find(list, song) = -1
            /\ \A i \in 1..Len(list) : list[i] # song
         \/ /\ Find(list, song) \in 0..(Len(list) - 1)
            /\ At0(list, Find(list, song)) = song
            /\ \A i \in 0..(Find(list, song) - 1) : At0(list, i) # song
<1> DEFINE I == {i \in 1..Len(list) : list[i] = song}
<1>1. Len(list) \in Nat
  BY LenProperties
<1>2. Find(list, song) = (IF I # {} THEN Min(I) ELSE 0) - 1
  BY DEF Find, SelectInSeq
<1>3. CASE I = {}
  BY <1>2, <1>3
<1>4. CASE I # {}
  <2> DEFINE m == Min(I)
  <2>1. I \in SUBSET Nat
    BY <1>1
  <2>2. m \in I /\ \A j \in I : m <= j
    BY <1>4, <2>1, SmallestExists
  <2>3. Find(list, song) = m - 1
    BY <1>2, <1>4
  <2> HIDE DEF m
  <2>4. m \in 1..Len(list) /\ list[m] = song
    BY <2>2
  <2>5. m - 1 \in 0..(Len(list) - 1) /\ (m - 1) + 1 = m
    BY <1>1, <2>4
  <2>6. At0(list, m - 1) = song
    BY <2>4, <2>5 DEF At0
  <2>7. ASSUME NEW i \in 0..(m - 2) PROVE list[i + 1] # song
    <3>1. i + 1 \in 1..Len(list) /\ ~(m <= i + 1)
      BY <1>1, <2>4
    <3> QED BY <2>2, <3>1
  <2>8. \A i \in 0..((m - 1) - 1) : At0(list, i) # song
    BY <1>1, <2>4, <2>7 DEF At0
  <2> QED BY <2>3, <2>5, <2>6, <2>8
<1> QED BY <1>3, <1>4

\* Taking one element out.
LEMMA RemoveAtList ==
  ASSUME NEW S, NEW list \in Seq(S), NEW i \in 1..Len(list)
  PROVE  /\ RemoveAt(list, i) \in Seq(S)
         /\ Len(RemoveAt(list, i)) = Len(list) - 1
         /\ \A j \in 1..(Len(list) - 1) :
              RemoveAt(list, i)[j] = IF j < i THEN list[j] ELSE list[j + 1]
<1> DEFINE a == SubSeq(list, 1, i - 1)
           b == SubSeq(list, i + 1, Len(list))
<1>1. Len(list) \in Nat /\ \A j \in 1..Len(list) : list[j] \in S
  BY LenProperties, ElementOfSeq
<1>2. /\ a \in Seq(S)
      /\ Len(a) = i - 1
      /\ \A j \in 1..(i - 1) : a[j] = list[j]
  <2>1. 1 \in Int /\ i - 1 \in Int /\ \A j \in 1..(i - 1) : list[j] \in S
    BY <1>1
  <2>2. /\ a \in Seq(S)
        /\ Len(a) = IF 1 <= i - 1 THEN (i - 1) - 1 + 1 ELSE 0
        /\ \A j \in 1..((i - 1) - 1 + 1) : a[j] = list[1 + j - 1]
    BY <2>1, SubSeqProperties
  <2> QED BY <1>1, <2>2
<1>3. /\ b \in Seq(S)
      /\ Len(b) = Len(list) - i
      /\ \A j \in 1..(Len(list) - i) : b[j] = list[i + j]
  <2>1. i + 1 \in Int /\ Len(list) \in Int
        /\ \A j \in (i + 1)..Len(list) : list[j] \in S
    BY <1>1
  <2>2. /\ b \in Seq(S)
        /\ Len(b) = IF i + 1 <= Len(list) THEN Len(list) - (i + 1) + 1 ELSE 0
        /\ \A j \in 1..(Len(list) - (i + 1) + 1) : b[j] = list[(i + 1) + j - 1]
    BY <2>1, SubSeqProperties
  <2> QED BY <1>1, <2>2
<1> HIDE DEF a, b
<1>4. /\ a \o b \in Seq(S)
      /\ Len(a \o b) = Len(a) + Len(b)
      /\ \A j \in 1..(Len(a) + Len(b)) :
           (a \o b)[j] = IF j <= Len(a) THEN a[j] ELSE b[j - Len(a)]
  BY <1>2, <1>3, ConcatProperties
<1>5. Len(a) + Len(b) = Len(list) - 1
  BY <1>1, <1>2, <1>3
<1>6. ASSUME NEW j \in 1..(Len(list) - 1)
      PROVE  (a \o b)[j] = IF j < i THEN list[j] ELSE list[j + 1]
  <2>1. CASE j < i
    BY <1>1, <1>2, <1>4, <1>5, <2>1
  <2>2. CASE ~(j < i)
    <3>1. j - (i - 1) \in 1..(Len(list) - i) /\ i + (j - (i - 1)) = j + 1
      BY <1>1, <2>2
    <3>2. (a \o b)[j] = b[j - (i - 1)]
      BY <1>1, <1>2, <1>4, <1>5, <2>2
    <3> QED BY <1>3, <2>2, <3>1, <3>2
  <2> QED BY <2>1, <2>2
<1>7. RemoveAt(list, i) = a \o b
  BY DEF RemoveAt, a, b
<1> QED BY <1>4, <1>5, <1>6, <1>7

(* PlayList::remove takes out the first element equal to the song and moves *)
(* no other, or changes nothing when there is none (playlist.h:20-33).      *)
THEOREM RemoveTakesTheFirst ==
  ASSUME NEW S, NEW list \in Seq(S), NEW song
  PROVE  /\ RemoveSong(list, song) \in Seq(S)
         /\ Find(list, song) = -1 => RemoveSong(list, song) = list
         /\ Find(list, song) # -1 =>
              /\ Len(RemoveSong(list, song)) = Len(list) - 1
              /\ \A j \in 1..(Len(list) - 1) :
                   RemoveSong(list, song)[j] =
                     IF j <= Find(list, song) THEN list[j] ELSE list[j + 1]
<1>1. Len(list) \in Nat
  BY LenProperties
<1>2. CASE Find(list, song) = -1
  <2>1. \A i \in 1..Len(list) : list[i] # song
    BY <1>1, <1>2, FindFirst
  <2>2. RemoveSong(list, song) = list
    BY <2>1 DEF RemoveSong, RemoveFirst
  <2> QED BY <1>2, <2>2
<1>3. CASE Find(list, song) # -1
  <2> DEFINE n == Find(list, song)
  <2>1. n \in 0..(Len(list) - 1) /\ At0(list, n) = song
    BY <1>3, FindFirst
  <2>2. RemoveSong(list, song) = RemoveAt(list, n + 1)
    <3>1. \E i \in 1..Len(list) : list[i] = song
      BY <1>1, <2>1 DEF At0
    <3>2. SelectInSeq(list, LAMBDA v : v = song) = n + 1
      <4> DEFINE I == {i \in 1..Len(list) : list[i] = song}
      <4>1. I # {} /\ I \in SUBSET Nat
        BY <1>1, <3>1
      <4>2. Min(I) \in Nat
        BY <4>1, SmallestExists
      <4>3. SelectInSeq(list, LAMBDA v : v = song) = Min(I)
        BY <4>1 DEF SelectInSeq
      <4>4. n = Min(I) - 1
        BY <4>1 DEF Find, SelectInSeq
      <4> QED BY <4>2, <4>3, <4>4
    <3> QED BY <3>1, <3>2 DEF RemoveSong, RemoveFirst
  <2> HIDE DEF n
  <2>3. n + 1 \in 1..Len(list)
    BY <1>1, <2>1
  <2>4. /\ RemoveAt(list, n + 1) \in Seq(S)
        /\ Len(RemoveAt(list, n + 1)) = Len(list) - 1
        /\ \A j \in 1..(Len(list) - 1) :
             RemoveAt(list, n + 1)[j] = IF j < n + 1 THEN list[j] ELSE list[j + 1]
    BY <2>3, RemoveAtList
  <2>5. \A j \in 1..(Len(list) - 1) : j < n + 1 <=> j <= n
    BY <1>1, <2>1
  <2> QED BY <1>3, <2>2, <2>4, <2>5 DEF n
<1> QED BY <1>2, <1>3

\* The assignments at the end of moveForward and moveBackward.
LEMMA SwapExchanges ==
  ASSUME NEW S, NEW list \in Seq(S),
         NEW i \in 0..(Len(list) - 1), NEW j \in 0..(Len(list) - 1)
  PROVE  /\ Swap(list, i, j) \in Seq(S)
         /\ Len(Swap(list, i, j)) = Len(list)
         /\ At0(Swap(list, i, j), i) = At0(list, j)
         /\ At0(Swap(list, i, j), j) = At0(list, i)
         /\ \A k \in 0..(Len(list) - 1) : k \notin {i, j} =>
              At0(Swap(list, i, j), k) = At0(list, k)
<1>1. Len(list) \in Nat /\ \A k \in 1..Len(list) : list[k] \in S
  BY LenProperties, ElementOfSeq
<1>2. i + 1 \in 1..Len(list) /\ j + 1 \in 1..Len(list)
  BY <1>1
<1>3. At0(list, i) \in S /\ At0(list, j) \in S
  BY <1>1, <1>2 DEF At0
<1>4. \A l \in Seq(S) : \A n \in 1..Len(l), e \in S :
        /\ [l EXCEPT ![n] = e] \in Seq(S)
        /\ Len([l EXCEPT ![n] = e]) = Len(l)
        /\ \A k \in 1..Len(l) : [l EXCEPT ![n] = e][k] = IF k = n THEN e ELSE l[k]
  BY ExceptSeq
<1> DEFINE one == [list EXCEPT ![i + 1] = At0(list, j)]
<1>5. /\ one \in Seq(S)
      /\ Len(one) = Len(list)
      /\ \A k \in 1..Len(list) :
           one[k] = IF k = i + 1 THEN At0(list, j) ELSE list[k]
  BY <1>2, <1>3, <1>4
<1> HIDE DEF one
<1> DEFINE two == [one EXCEPT ![j + 1] = At0(list, i)]
<1>6. /\ two \in Seq(S)
      /\ Len(two) = Len(list)
      /\ \A k \in 1..Len(list) :
           two[k] = IF k = j + 1 THEN At0(list, i) ELSE one[k]
  BY <1>2, <1>3, <1>4, <1>5
<1>7. Swap(list, i, j) = two
  BY DEF Swap, one, two
<1> HIDE DEF two
<1>8. two[i + 1] = At0(list, j)
  BY <1>1, <1>2, <1>5, <1>6 DEF At0
<1>9. two[j + 1] = At0(list, i)
  BY <1>2, <1>6
<1>10. ASSUME NEW k \in 0..(Len(list) - 1), k \notin {i, j}
       PROVE  two[k + 1] = list[k + 1]
  <2>1. k + 1 \in 1..Len(list) /\ k + 1 # i + 1 /\ k + 1 # j + 1
    BY <1>1, <1>10
  <2> QED BY <1>5, <1>6, <2>1
<1> QED BY <1>6, <1>7, <1>8, <1>9, <1>10 DEF At0

\* The first position at which a song stands is the one find returns.
LEMMA FindIsFirst ==
  ASSUME NEW S, NEW list \in Seq(S), NEW song, NEW n \in 0..(Len(list) - 1),
         At0(list, n) = song, \A k \in 0..(n - 1) : At0(list, k) # song
  PROVE  Find(list, song) = n
<1>1. Len(list) \in Nat
  BY LenProperties
<1>2. n + 1 \in 1..Len(list) /\ list[n + 1] = song
  BY <1>1 DEF At0
<1>3. /\ Find(list, song) \in 0..(Len(list) - 1)
      /\ At0(list, Find(list, song)) = song
      /\ \A k \in 0..(Find(list, song) - 1) : At0(list, k) # song
  BY <1>2, FindFirst
<1>4. ~(Find(list, song) < n)
  <2>1. ASSUME Find(list, song) < n PROVE FALSE
    <3>1. Find(list, song) \in 0..(n - 1)
      BY <1>1, <1>3, <2>1
    <3> QED BY <1>3, <3>1
  <2> QED BY <2>1
<1>5. ~(n < Find(list, song))
  <2>1. ASSUME n < Find(list, song) PROVE FALSE
    <3>1. n \in 0..(Find(list, song) - 1)
      BY <1>1, <1>3, <2>1
    <3> QED BY <1>3, <3>1
  <2> QED BY <2>1
<1> QED BY <1>1, <1>3, <1>4, <1>5

(* moveForward and moveBackward exchange two songs or change nothing: none *)
(* is lost and none is copied (playlist.h:83-110).                         *)
THEOREM MovesExchange ==
  ASSUME NEW S, NEW list \in Seq(S), NEW song, NEW step \in Nat
  PROVE  /\ \/ MoveForward(list, song, step) = list
            \/ \E i, j \in 0..(Len(list) - 1) :
                 MoveForward(list, song, step) = Swap(list, i, j)
         /\ \/ MoveBackward(list, song, step) = list
            \/ \E i, j \in 0..(Len(list) - 1) :
                 MoveBackward(list, song, step) = Swap(list, i, j)
<1> DEFINE n == Find(list, song)
<1>1. Len(list) \in Nat /\ (n = -1 \/ n \in 0..(Len(list) - 1))
  BY LenProperties, FindFirst
<1>2. MoveForward(list, song, step) = IF n < step THEN list ELSE Swap(list, n, n - step)
  BY DEF MoveForward
<1>3. MoveBackward(list, song, step) =
        IF n < 0 \/ n + step >= Len(list) THEN list ELSE Swap(list, n, n + step)
  BY DEF MoveBackward
<1> HIDE DEF n
<1>4. n < step \/ (n \in 0..(Len(list) - 1) /\ n - step \in 0..(Len(list) - 1))
  BY <1>1
<1>5. \/ n < 0 \/ n + step >= Len(list)
      \/ n \in 0..(Len(list) - 1) /\ n + step \in 0..(Len(list) - 1)
  BY <1>1
<1> QED BY <1>2, <1>3, <1>4, <1>5

(* A song that is moved forward and as far backward is back in its place,  *)
(* in every list, equal songs included (playlist.h:83-110).                *)
THEOREM MovedForwardAndBack ==
  ASSUME NEW S, NEW list \in Seq(S), NEW song, NEW step \in Nat
  PROVE  BackAgain(list, song, step)
<1> DEFINE n == Find(list, song)
           moved == Swap(list, n, n - step)
           back == Swap(moved, n - step, n)
<1>1. SUFFICES ASSUME n >= step
               PROVE  MoveBackward(MoveForward(list, song, step), song, step) = list
  BY DEF BackAgain
<1>2. Len(list) \in Nat
  BY LenProperties
<1>3. /\ n \in 0..(Len(list) - 1)
      /\ At0(list, n) = song
      /\ \A k \in 0..(n - 1) : At0(list, k) # song
  BY <1>1, FindFirst
<1>4. MoveForward(list, song, step) = IF n < step THEN list ELSE Swap(list, n, n - step)
  BY DEF MoveForward
<1> HIDE DEF n
<1>5. MoveForward(list, song, step) = moved
  BY <1>1, <1>3, <1>4
<1>6. n - step \in 0..(Len(list) - 1)
  BY <1>1, <1>2, <1>3
<1>7. /\ moved \in Seq(S)
      /\ Len(moved) = Len(list)
      /\ At0(moved, n) = At0(list, n - step)
      /\ At0(moved, n - step) = At0(list, n)
      /\ \A k \in 0..(Len(list) - 1) : k \notin {n, n - step} =>
           At0(moved, k) = At0(list, k)
  <2>1. n \in 0..(Len(list) - 1)
    BY <1>3
  <2> QED BY <1>6, <2>1, SwapExchanges
<1> HIDE DEF moved
<1>8. Find(moved, song) = n - step
  <2>1. ASSUME NEW k \in 0..((n - step) - 1) PROVE At0(moved, k) # song
    <3>1. k \in 0..(n - 1) /\ k \in 0..(Len(list) - 1) /\ k \notin {n, n - step}
      BY <1>2, <1>3, <1>6
    <3> QED BY <1>3, <1>7, <3>1
  <2> QED BY <1>3, <1>6, <1>7, <2>1, FindIsFirst
<1>9. MoveBackward(moved, song, step) = back
  <2>1. /\ ~((n - step) < 0) /\ (n - step) + step = n
        /\ ~(n >= Len(moved))
    BY <1>2, <1>3, <1>6, <1>7
  <2> QED BY <1>8, <2>1 DEF MoveBackward
<1>10. /\ back \in Seq(S)
       /\ Len(back) = Len(list)
       /\ At0(back, n - step) = At0(moved, n)
       /\ At0(back, n) = At0(moved, n - step)
       /\ \A k \in 0..(Len(list) - 1) : k \notin {n, n - step} =>
            At0(back, k) = At0(moved, k)
  <2>1. n \in 0..(Len(moved) - 1) /\ n - step \in 0..(Len(moved) - 1)
    BY <1>3, <1>6, <1>7
  <2>2. moved \in Seq(S)
    BY <1>7
  <2>3. /\ back \in Seq(S)
        /\ Len(back) = Len(moved)
        /\ At0(back, n - step) = At0(moved, n)
        /\ At0(back, n) = At0(moved, n - step)
        /\ \A k \in 0..(Len(moved) - 1) : k \notin {n - step, n} =>
             At0(back, k) = At0(moved, k)
    BY <2>1, <2>2, SwapExchanges
  <2> HIDE DEF back
  <2> QED BY <1>7, <2>3
<1> HIDE DEF back
<1>11. \A k \in 0..(Len(list) - 1) : At0(back, k) = At0(list, k)
  BY <1>7, <1>10
<1>12. ASSUME NEW k \in 1..Len(list) PROVE back[k] = list[k]
  <2>1. k - 1 \in 0..(Len(list) - 1) /\ (k - 1) + 1 = k
    BY <1>2
  <2> QED BY <1>11, <2>1 DEF At0
<1>13. back = list
  BY <1>10, <1>12, SeqEqual
<1> QED BY <1>5, <1>9, <1>13
=============================================================================
