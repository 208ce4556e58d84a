----------------------------- MODULE Cli_proofs -----------------------------
(* The descriptors and the commands of the server of the command line, for  *)
(* any number of clients and of descriptors.                                *)
EXTENDS Cli, FiniteSetTheorems, TLAPS

\* Free descriptors after k clients.
LeftAfter(k) == IF Room - 2 * k >= 1 THEN Room - 2 * k ELSE 1

\* Whether both backups of the k-th client found a descriptor.
Saved(k) == 2 * k + 1 <= Room

Typing ==
  /\ fds \in [Descriptors -> Files]
  /\ held \in 0..MaxHeld
  /\ backlog \in Seq(Clients) /\ served \in Seq(Clients)

Between ==
  pc = "accept" =>
    /\ fds[STDOUT_FILENO] # Free /\ fds[STDERR_FILENO] # Free
    /\ Cardinality(FreeOnes) = LeftAfter(Len(served))
    /\ Saved(Len(served)) =>
         fds[STDOUT_FILENO] = "console" /\ fds[STDERR_FILENO] = "console"

\* Where a backup is, and what it refers to.
BackupAt(b) ==
  /\ b \in (Descriptors \ {STDOUT_FILENO, STDERR_FILENO, cur}) \cup {-1}
  /\ b # -1 => fds[b] # Free
  /\ Saved(Len(served)) => b # -1 /\ fds[b] = "console"

During ==
  pc # "accept" =>
    /\ cur \in Descriptors \ {STDOUT_FILENO, STDERR_FILENO}
    /\ fds[cur] \in Clients
    /\ fds[STDOUT_FILENO] = fds[cur] /\ fds[STDERR_FILENO] = fds[cur]
    /\ BackupAt(backup.out) /\ BackupAt(backup.err)
    /\ Cardinality(FreeOnes) + 1 = LeftAfter(Len(served))

CliInv == Typing /\ Between /\ During

LEMMA Standard ==
  /\ STDOUT_FILENO \in Descriptors /\ STDERR_FILENO \in Descriptors
  /\ STDOUT_FILENO # STDERR_FILENO
  /\ -1 \notin Descriptors
  /\ Free \notin Clients /\ "console" # Free
BY CliAssumption DEF Descriptors, STDOUT_FILENO, STDERR_FILENO, Free

LEMMA FreeAreFinite == IsFiniteSet(FreeOnes)
<1>1. IsFiniteSet(Descriptors)
  BY CliAssumption, FS_Interval DEF Descriptors
<1> QED BY <1>1, FS_Subset DEF FreeOnes

LEMMA OpenedIsFree ==
  ASSUME NEW S
  PROVE  IF S = {} THEN Opened(S) = -1 ELSE Opened(S) \in S
BY DEF Opened

LEMMA MaxOfTwo ==
  ASSUME NEW n \in Int
  PROVE  Max({1, n}) = IF n >= 1 THEN n ELSE 1
<1> DEFINE m == IF n >= 1 THEN n ELSE 1
<1>1. m \in {1, n} /\ \A y \in {1, n} : m >= y
  OBVIOUS
<1>2. \A x \in {1, n} : (\A y \in {1, n} : x >= y) => x = m
  OBVIOUS
<1> QED BY <1>1, <1>2 DEF Max

-----------------------------------------------------------------------------
LEMMA InitCli == ASSUME Init PROVE CliInv
<1>0. /\ held \in 0..MaxHeld
      /\ fds = [d \in Descriptors |->
             CASE d < 3 -> "console" [] d = 3 -> "listen" [] d \in 4..(3 + held) -> "other"
               [] OTHER -> Free]
  BY DEF Init
<1>1. held \in Nat /\ MaxFd \in Nat /\ 4 + held < MaxFd
  BY <1>0, CliAssumption
<1>a. ASSUME NEW d \in Descriptors
      PROVE  /\ d \in Nat /\ d < MaxFd
             /\ d < 3 => fds[d] = "console"
             /\ fds[d] = Free <=> d >= 4 + held
  BY <1>0, <1>1 DEF Descriptors, Free
<1>2. Typing
  <2>1. <<>> \in Seq(Clients)
    OBVIOUS
  <2> QED BY <2>1 DEF Init, Typing, Files, Free
<1>3. FreeOnes = (4 + held)..(MaxFd - 1)
  BY <1>1, <1>a DEF FreeOnes, Descriptors
<1>4. Cardinality(FreeOnes) = Room /\ Room >= 1
  <2>1. Cardinality((4 + held)..(MaxFd - 1)) =
          IF 4 + held > MaxFd - 1 THEN 0 ELSE (MaxFd - 1) - (4 + held) + 1
    BY <1>1, FS_Interval
  <2> QED BY <1>1, <1>3, <2>1 DEF Room
<1>5. Len(served) = 0
  BY DEF Init
<1>6. LeftAfter(0) = Room
  BY <1>1, <1>4 DEF LeftAfter, Room
<1>7. Between
  <2>1. fds[STDOUT_FILENO] = "console" /\ fds[STDERR_FILENO] = "console"
    BY <1>a, Standard DEF STDOUT_FILENO, STDERR_FILENO
  <2> QED BY <1>4, <1>5, <1>6, <2>1, Standard DEF Between
<1>8. During
  BY DEF Init, During
<1> QED BY <1>2, <1>7, <1>8 DEF CliInv

LEMMA AcceptKeeps == ASSUME CliInv, Accept PROVE CliInv'
<1> DEFINE sock == Opened(FreeOnes)
           out == Opened(FreeOnes \ {sock})
           err == Opened(FreeOnes \ {sock, out})
           client == Head(backlog)
           k == Len(served)
<1>1. /\ cur' = sock /\ backup' = [out |-> out, err |-> err]
      /\ fds' = [d \in Descriptors |->
            CASE d \in {STDOUT_FILENO, STDERR_FILENO} \cup {sock} -> client
              [] d = out -> fds[STDOUT_FILENO]
              [] d = err -> fds[STDERR_FILENO]
              [] OTHER -> fds[d]]
      /\ pc = "accept" /\ pc' = "recv" /\ held' = held
      /\ backlog # <<>> /\ FreeOnes # {}
      /\ served' = Append(served, client) /\ backlog' = Tail(backlog)
  BY DEF Accept, Redirected
<1>2. /\ fds \in [Descriptors -> Files]
      /\ fds[STDOUT_FILENO] # Free /\ fds[STDERR_FILENO] # Free
      /\ Cardinality(FreeOnes) = LeftAfter(k)
      /\ Saved(k) => fds[STDOUT_FILENO] = "console" /\ fds[STDERR_FILENO] = "console"
  BY <1>1 DEF CliInv, Typing, Between
<1>3. client \in Clients /\ backlog' \in Seq(Clients)
      /\ served' \in Seq(Clients) /\ k \in Nat /\ Len(served') = k + 1
  BY <1>1 DEF CliInv, Typing
<1>4. sock \in FreeOnes
  BY <1>1, OpenedIsFree
<1>5. IF FreeOnes \ {sock} = {} THEN out = -1 ELSE out \in FreeOnes \ {sock}
  BY OpenedIsFree
<1>6. IF FreeOnes \ {sock, out} = {} THEN err = -1 ELSE err \in FreeOnes \ {sock, out}
  BY OpenedIsFree
<1>7. FreeOnes \subseteq Descriptors \ {STDOUT_FILENO, STDERR_FILENO}
  BY <1>2 DEF FreeOnes
<1>8. /\ fds'[sock] = client
      /\ fds'[STDOUT_FILENO] = client /\ fds'[STDERR_FILENO] = client
      /\ out # -1 => fds'[out] = fds[STDOUT_FILENO]
      /\ err # -1 => fds'[err] = fds[STDERR_FILENO]
  BY <1>1, <1>4, <1>5, <1>6, <1>7, Standard
<1>9. FreeOnes' = ((FreeOnes \ {sock}) \ {out}) \ {err}
  <2>1. ASSUME NEW d \in Descriptors
        PROVE  fds'[d] = Free <=> fds[d] = Free /\ d \notin {sock, out, err}
    BY <1>1, <1>2, <1>3, <1>4, <1>5, <1>6, <1>7, Standard
  <2> QED BY <2>1 DEF FreeOnes
<1>10. held \in Nat /\ MaxFd \in Nat /\ Room \in Int
  BY CliAssumption DEF CliInv, Typing, Room
<1>11. Cardinality(FreeOnes') + 1 = LeftAfter(k + 1)
       /\ (Saved(k + 1) => out # -1 /\ err # -1)
  <2> DEFINE A == FreeOnes
             B == A \ {sock}
             C == B \ {out}
             D == C \ {err}
  <2>1. IsFiniteSet(A) /\ Cardinality(A) \in Nat
    BY FreeAreFinite, FS_CardinalityType
  <2>2. IsFiniteSet(B) /\ Cardinality(B) = Cardinality(A) - 1
    BY <1>4, <2>1, FS_RemoveElement
  <2>3. IsFiniteSet(C) /\ Cardinality(B) \in Nat
        /\ Cardinality(C) = IF out \in B THEN Cardinality(B) - 1 ELSE Cardinality(B)
    BY <2>2, FS_RemoveElement, FS_CardinalityType
  <2>4. Cardinality(C) \in Nat
        /\ Cardinality(D) = IF err \in C THEN Cardinality(C) - 1 ELSE Cardinality(C)
    BY <2>3, FS_RemoveElement, FS_CardinalityType
  <2>5. (Cardinality(B) = 0 <=> B = {}) /\ (Cardinality(C) = 0 <=> C = {})
    BY <2>2, <2>3, FS_EmptySet
  <2>6. C = FreeOnes \ {sock, out}
    OBVIOUS
  <2>7. -1 \notin B /\ -1 \notin C
    BY <1>7, Standard
  <2>8. /\ (out \in B <=> Cardinality(B) # 0) /\ (out # -1 <=> Cardinality(B) # 0)
        /\ (err \in C <=> Cardinality(C) # 0) /\ (err # -1 <=> Cardinality(C) # 0)
    BY <1>5, <1>6, <2>5, <2>6, <2>7
  <2>9. Cardinality(D) = IF LeftAfter(k) >= 3 THEN LeftAfter(k) - 3 ELSE 0
    <3>1. Cardinality(A) = LeftAfter(k) /\ LeftAfter(k) \in Nat \ {0}
      BY <1>2, <1>3, <1>10 DEF LeftAfter
    <3> QED BY <2>1, <2>2, <2>3, <2>4, <2>8, <3>1
  <2>10. Cardinality(D) + 1 = LeftAfter(k + 1)
    BY <1>3, <1>10, <2>9 DEF LeftAfter
  <2>11. Saved(k + 1) => Cardinality(A) >= 3
    BY <1>2, <1>3, <1>10 DEF Saved, LeftAfter
  <2>12. Saved(k + 1) => out # -1 /\ err # -1
    BY <2>1, <2>2, <2>3, <2>4, <2>8, <2>11
  <2> QED BY <1>9, <2>10, <2>12
<1>12. Saved(k + 1) => Saved(k)
  BY <1>3, <1>10 DEF Saved
<1>13. Room' = Room
  BY <1>1 DEF Room
<1>14. Typing'
  <2>1. fds' \in [Descriptors -> Files]
    BY <1>1, <1>2, <1>3, Standard DEF Files
  <2> QED BY <1>1, <1>3, <2>1 DEF CliInv, Typing
<1>15. BackupAt(backup.out)' /\ BackupAt(backup.err)'
  <2>1. cur' = sock /\ Len(served') = k + 1
    BY <1>1, <1>3
  <2>2. backup'.out = out /\ backup'.err = err
    BY <1>1
  <2>3. /\ out \in (Descriptors \ {STDOUT_FILENO, STDERR_FILENO, sock}) \cup {-1}
        /\ err \in (Descriptors \ {STDOUT_FILENO, STDERR_FILENO, sock}) \cup {-1}
    BY <1>5, <1>6, <1>7
  <2> QED BY <1>2, <1>8, <1>11, <1>12, <1>13, <2>1, <2>2, <2>3 DEF BackupAt, Saved
<1> QED BY <1>1, <1>3, <1>4, <1>7, <1>8, <1>11, <1>13, <1>14, <1>15 DEF CliInv, Between, During, LeftAfter

LEMMA RecoverKeeps == ASSUME CliInv, Recover PROVE CliInv'
<1> DEFINE k == Len(served)
<1>1. /\ fds' = [d \in Descriptors |->
            IF d \in {cur} THEN Free
            ELSE IF Restored(d) # -1 THEN fds[Restored(d)] ELSE fds[d]]
      /\ pc # "accept" /\ pc' = "accept"
      /\ UNCHANGED <<held, backlog, served>>
  BY DEF Recover, Closed, clientVars
<1>2. During /\ Typing
  BY DEF CliInv
<1>3. /\ cur \in Descriptors \ {STDOUT_FILENO, STDERR_FILENO}
      /\ fds[cur] \in Clients
      /\ fds[STDOUT_FILENO] = fds[cur] /\ fds[STDERR_FILENO] = fds[cur]
      /\ BackupAt(backup.out) /\ BackupAt(backup.err)
      /\ Cardinality(FreeOnes) + 1 = LeftAfter(k)
  BY <1>1, <1>2 DEF During
<1>4. /\ Restored(STDOUT_FILENO) = backup.out /\ Restored(STDERR_FILENO) = backup.err
      /\ \A d \in Descriptors \ {STDOUT_FILENO, STDERR_FILENO} : Restored(d) = -1
  BY Standard DEF Restored
<1>5. /\ fds'[STDOUT_FILENO] =
           IF backup.out # -1 THEN fds[backup.out] ELSE fds[STDOUT_FILENO]
      /\ fds'[STDERR_FILENO] =
           IF backup.err # -1 THEN fds[backup.err] ELSE fds[STDERR_FILENO]
      /\ fds'[cur] = Free
      /\ \A d \in Descriptors \ {STDOUT_FILENO, STDERR_FILENO, cur} : fds'[d] = fds[d]
  BY <1>1, <1>3, <1>4, Standard
<1>6. fds'[STDOUT_FILENO] # Free /\ fds'[STDERR_FILENO] # Free
  BY <1>3, <1>5, Standard DEF BackupAt
<1>7. FreeOnes' = FreeOnes \cup {cur}
  <2>1. fds[STDOUT_FILENO] # Free /\ fds[STDERR_FILENO] # Free
    BY <1>3, Standard
  <2> QED BY <1>3, <1>5, <1>6, <2>1, Standard DEF FreeOnes
<1>8. Cardinality(FreeOnes') = LeftAfter(k)
  <2>1. cur \notin FreeOnes
    BY <1>3, Standard DEF FreeOnes
  <2>2. Cardinality(FreeOnes \cup {cur}) = Cardinality(FreeOnes) + 1
    BY <2>1, FreeAreFinite, FS_AddElement
  <2> QED BY <1>3, <1>7, <2>2
<1>9. Saved(k) => fds'[STDOUT_FILENO] = "console" /\ fds'[STDERR_FILENO] = "console"
  BY <1>3, <1>5 DEF BackupAt
<1>10. Typing'
  <2>1. ASSUME NEW d \in Descriptors PROVE fds'[d] \in Files
    <3>1. fds \in [Descriptors -> Files] /\ Free \in Files
      BY <1>2 DEF Typing, Files
    <3> QED BY <1>3, <1>5, <3>1, Standard DEF BackupAt
  <2>2. fds' \in [Descriptors -> Files]
    BY <1>1, <2>1
  <2> QED BY <1>1, <1>2, <2>2 DEF Typing
<1>11. Room' = Room
  BY <1>1 DEF Room
<1> QED BY <1>1, <1>6, <1>8, <1>9, <1>10, <1>11 DEF CliInv, Between, During, LeftAfter, Saved

\* What keeps the descriptors and does not begin or end a connection.
LEMMA OthersKeep ==
  ASSUME CliInv, UNCHANGED <<fds, held, cur, backup, served>>, backlog' \in Seq(Clients),
         pc' = "accept" <=> pc = "accept"
  PROVE  CliInv'
<1>1. Room' = Room /\ FreeOnes' = FreeOnes
  BY DEF Room, FreeOnes
<1>2. Typing'
  BY DEF CliInv, Typing
<1>3. Between'
  BY <1>1 DEF CliInv, Between, LeftAfter, Saved
<1>4. During'
  BY <1>1 DEF CliInv, During, BackupAt, LeftAfter, Saved
<1> QED BY <1>2, <1>3, <1>4 DEF CliInv

LEMMA NextKeeps == ASSUME CliInv, [Next]_vars PROVE CliInv'
<1>1. backlog \in Seq(Clients)
  BY DEF CliInv, Typing
<1>2. CASE Accept
  BY <1>2, AcceptKeeps
<1>3. CASE Recv
  <2>1. pc = "recv" /\ pc' \in {"recv", "search"}
    BY <1>3 DEF Recv
  <2> QED BY <1>1, <1>3, <2>1, OthersKeep DEF Recv, fdVars, clientVars
<1>4. CASE Search
  BY <1>1, <1>4, OthersKeep DEF Search, fdVars, clientVars
<1>5. CASE Act
  BY <1>1, <1>5, OthersKeep DEF Act, fdVars, clientVars
<1>6. CASE Recover
  BY <1>6, RecoverKeeps
<1>7. ASSUME NEW c \in Clients, Connect(c) PROVE CliInv'
  <2>1. backlog' \in Seq(Clients)
    BY <1>1, <1>7 DEF Connect
  <2> QED BY <1>7, <2>1, OthersKeep DEF Connect, fdVars
<1>8. ASSUME NEW c \in Clients, Send(c) PROVE CliInv'
  BY <1>1, <1>8, OthersKeep DEF Send, fdVars
<1>9. ASSUME NEW c \in Clients, Leave(c) PROVE CliInv'
  BY <1>1, <1>9, OthersKeep DEF Leave, fdVars
<1>10. CASE Boot
  BY <1>1, <1>10, OthersKeep DEF Boot, fdVars, clientVars
<1>11. CASE Output
  BY <1>1, <1>11, OthersKeep DEF Output, fdVars, clientVars
<1>12. CASE UNCHANGED vars
  BY <1>1, <1>12, OthersKeep DEF vars, fdVars, clientVars
<1> QED BY <1>2, <1>3, <1>4, <1>5, <1>6, <1>7, <1>8, <1>9, <1>10, <1>11, <1>12
     DEF Next, Server

LEMMA CliInvariant == Spec => []CliInv
<1>1. Init => CliInv
  BY InitCli
<1>2. CliInv /\ [Next]_vars => CliInv'
  BY NextKeeps
<1> QED BY <1>1, <1>2, PTL DEF Spec

-----------------------------------------------------------------------------
(* The commands: which of them the server has read, and which it has run.   *)

\* Cells of client c in front of its block i.
Before(i) == Cells * (i - 1)

\* The text the server is about to look up is that of block i of client c.
Pending(c, i) == pc = "search" /\ Client = c /\ text = i

WordTypes ==
  /\ pc \in {"accept", "recv", "search", "action", "hung"}
  /\ boot \in {"no player", "commands", "ready"}
  /\ sent \in [Clients -> Seq(Commands)]
  /\ read \in [Clients -> Nat]
  /\ answered \in [Clients -> Seq(Nat)]
  /\ late \in [Clients -> SUBSET Nat]
  /\ text \in Nat \cup {NoText}
  /\ pc = "action" => text \in 0..Len(sent[Client])
  /\ pc = "search" => text \in 0..Len(sent[Client])
  /\ command \in Commands \cup {"none"}
  /\ command # "none" <=> pc = "action"
  /\ \A c \in Clients : read[c] <= Cells * Len(sent[c])

\* What was run, or is about to, was read, and in its order.
Order ==
  \A c \in Clients :
    /\ \A i \in 1..Len(answered[c]) : Before(answered[c][i]) < read[c]
    /\ \A i, j \in 1..Len(answered[c]) : i < j => answered[c][i] < answered[c][j]
    /\ \A b \in Nat \ {0} : Pending(c, b) =>
         /\ Before(b) < read[c]
         /\ \A i \in 1..Len(answered[c]) : answered[c][i] < b

\* A block that is not late was sent to a server that had read all before it,
\* which then reads its text in one piece, and runs it.
InTime ==
  \A c \in Clients : \A i \in 1..Len(sent[c]) \ late[c] :
    /\ Before(i) <= read[c]
    /\ Before(i) < read[c] =>
         /\ Before(i) + TextCells <= read[c]
         /\ i \in ToSet(answered[c]) \/ Pending(c, i)

\* A part of a text is read where a text was cut, or behind an early block.
PartsAreLate ==
  pc \in {"search", "action"} /\ text = 0 => late[Client] # {}

WordInv == WordTypes /\ Order /\ InTime /\ PartsAreLate

LEMMA DivMod ==
  ASSUME NEW r \in Nat
  PROVE  /\ r \div Cells \in Nat /\ (r % Cells) \in 0..(Cells - 1)
         /\ r = Cells * (r \div Cells) + (r % Cells)
BY CliAssumption

LEMMA BlocksApart ==
  ASSUME NEW i \in Nat, NEW j \in Nat, i < j
  PROVE  Before(i) \in Int /\ Before(j) \in Int /\ Before(i) + Cells <= Before(j)
<1>1. PICK d \in Nat : j = i + 1 + d
  <2>1. j - i - 1 \in Nat /\ j = i + 1 + (j - i - 1)
    OBVIOUS
  <2> QED BY <2>1
<1>2. Cells \in Nat
  BY CliAssumption
<1>3. Cells * (j - 1) = Cells * (i - 1) + Cells + Cells * d
  BY <1>1, <1>2
<1>4. Cells * d \in Nat /\ Cells * (i - 1) \in Int /\ Cells * (j - 1) \in Int
  BY <1>2
<1> QED BY <1>2, <1>3, <1>4 DEF Before

LEMMA NextCell ==
  ASSUME NEW c, read[c] \in Nat
  PROVE  /\ Block(c) \in Nat \ {0} /\ Cell(c) \in 1..Cells
         /\ read[c] = Before(Block(c)) + Cell(c) - 1
<1> DEFINE r == read[c]
<1>1. Cells \in Nat
  BY CliAssumption
<1>2. /\ r \div Cells \in Nat /\ (r % Cells) \in 0..(Cells - 1)
      /\ r = Cells * (r \div Cells) + (r % Cells)
  BY DivMod
<1>3. Block(c) = (r \div Cells) + 1 /\ Cell(c) = (r % Cells) + 1
  BY DEF Block, Cell
<1> HIDE DEF r
<1>4. Block(c) \in Nat \ {0} /\ Cell(c) \in 1..Cells /\ Before(Block(c)) = Cells * (r \div Cells)
  BY <1>1, <1>2, <1>3 DEF Before
<1>5. r = Before(Block(c)) + Cell(c) - 1
  BY <1>1, <1>2, <1>3, <1>4
<1> QED BY <1>4, <1>5 DEF r

\* The block that the cell at r is in.
LEMMA OneBlock ==
  ASSUME NEW i \in Nat, NEW j \in Nat, NEW r \in Int,
         Before(i) <= r, r < Before(i) + Cells, Before(j) <= r, r < Before(j) + Cells
  PROVE  i = j
<1>1. Cells \in Nat
  BY CliAssumption
<1>2. ~(i < j) /\ ~(j < i)
  BY <1>1, BlocksApart
<1> QED BY <1>2

LEMMA ClientIsOne == ASSUME CliInv, pc # "accept" PROVE Client \in Clients
BY DEF CliInv, During, Client

LEMMA WordsAreTyped ==
  ASSUME WordInv, NEW c \in Clients
  PROVE  /\ sent[c] \in Seq(Commands) /\ read[c] \in Nat
         /\ answered[c] \in Seq(Nat) /\ late[c] \subseteq Nat
<1>1. /\ sent \in [Clients -> Seq(Commands)] /\ read \in [Clients -> Nat]
      /\ answered \in [Clients -> Seq(Nat)] /\ late \in [Clients -> SUBSET Nat]
  BY DEF WordInv, WordTypes
<1> QED BY <1>1

LEMMA InitWords == ASSUME Init PROVE WordInv
<1>1. WordTypes
  <2>1. <<>> \in Seq(Commands) /\ <<>> \in Seq(Nat) /\ Len(<<>>) = 0
    OBVIOUS
  <2>2. 0 <= Cells * 0
    BY CliAssumption
  <2>3. \A c \in Clients : read[c] <= Cells * Len(sent[c])
    BY <2>1, <2>2 DEF Init
  <2>4. /\ sent \in [Clients -> Seq(Commands)] /\ read \in [Clients -> Nat]
        /\ answered \in [Clients -> Seq(Nat)] /\ late \in [Clients -> SUBSET Nat]
    BY <2>1 DEF Init
  <2>5. pc = "accept" /\ text = NoText /\ boot = "no player" /\ command = "none"
    BY DEF Init
  <2> QED BY <2>3, <2>4, <2>5 DEF WordTypes
<1>2. \A c \in Clients : Len(answered[c]) = 0 /\ Len(sent[c]) = 0
  BY DEF Init
<1>3. pc = "accept"
  BY DEF Init
<1>4. Order
  BY <1>2, <1>3 DEF Order, Pending
<1>5. InTime
  BY <1>2 DEF InTime
<1>6. PartsAreLate
  BY <1>3 DEF PartsAreLate
<1> QED BY <1>1, <1>4, <1>5, <1>6 DEF WordInv

\* The text that recv leaves in the buffer: none, something else (0), or
\* that of the block which starts where the server was.
LEMMA RecvText ==
  ASSUME CliInv, WordInv, Recv
  PROVE  \E n \in Nat \ {0} :
    /\ n <= Cells /\ n <= Unread(Client)
    /\ read' = [read EXCEPT ![Client] = @ + n]
    /\ text' = TextOf(Client, n)
    /\ late' = IF Cell(Client) = 1 /\ n < TextCells
               THEN [late EXCEPT ![Client] = @ \cup {Block(Client)}] ELSE late
    /\ pc' = IF text' = NoText THEN "recv" ELSE "search"
<1>1. pc = "recv" /\ Client \in Clients
  BY ClientIsOne DEF Recv
<1>2. Cells \in Nat /\ Unread(Client) \in Int
  <2>1. sent[Client] \in Seq(Commands) /\ read[Client] \in Nat
    BY <1>1, WordsAreTyped
  <2>2. Len(sent[Client]) \in Nat /\ Cells \in Nat
    BY <2>1, CliAssumption
  <2> QED BY <2>1, <2>2 DEF Unread
<1>3. Min({Cells, Unread(Client)}) \in Int /\ Min({Cells, Unread(Client)}) <= Cells
      /\ Min({Cells, Unread(Client)}) <= Unread(Client)
  <2> DEFINE u == Unread(Client)
             m == IF u <= Cells THEN u ELSE Cells
  <2>1. m \in {Cells, u} /\ (\A y \in {Cells, u} : m <= y)
    BY <1>2
  <2>2. \A x \in {Cells, u} : (\A y \in {Cells, u} : x <= y) => x = m
    BY <1>2
  <2>3. Min({Cells, u}) = m
    BY <2>1, <2>2 DEF Min
  <2> QED BY <1>2, <2>1, <2>3
<1>4. PICK n \in 1..Min({Cells, Unread(Client)}) :
        /\ text' = TextOf(Client, n)
        /\ read' = [read EXCEPT ![Client] = Consumed(Client, n)]
        /\ late' = IF Cell(Client) = 1 /\ n < TextCells
                   THEN [late EXCEPT ![Client] = @ \cup {Block(Client)}] ELSE late
        /\ pc' = IF text' = NoText THEN "recv" ELSE "search"
  BY DEF Recv
<1>5. n \in Nat \ {0} /\ n <= Cells /\ n <= Unread(Client)
  BY <1>2, <1>3
<1>6. read' = [read EXCEPT ![Client] = @ + n]
  BY <1>4 DEF Consumed
<1> QED BY <1>4, <1>5, <1>6

LEMMA RecvKeepsWords == ASSUME CliInv, WordInv, Recv PROVE WordInv'
<1> DEFINE c == Client
           b == Block(c)
<1>1. /\ pc = "recv" /\ c \in Clients /\ Client' = c
      /\ UNCHANGED <<sent, answered, boot, command>>
  BY ClientIsOne DEF Recv, Client, fdVars, clientVars
<1>2. PICK n \in Nat \ {0} :
        /\ n <= Cells /\ n <= Unread(c)
        /\ read' = [read EXCEPT ![c] = @ + n]
        /\ text' = TextOf(c, n)
        /\ late' = IF Cell(c) = 1 /\ n < TextCells
                   THEN [late EXCEPT ![c] = @ \cup {b}] ELSE late
        /\ pc' = IF text' = NoText THEN "recv" ELSE "search"
  BY RecvText
<1>3. /\ read[c] \in Nat /\ Len(sent[c]) \in Nat
      /\ b \in Nat \ {0} /\ Cell(c) \in 1..Cells /\ read[c] = Before(b) + Cell(c) - 1
      /\ Before(b) \in Int
  <2>1. read[c] \in Nat /\ Len(sent[c]) \in Nat
    BY <1>1, WordsAreTyped
  <2>2. Before(b) \in Int
    BY NextCell, <2>1, CliAssumption DEF Before
  <2> QED BY <2>1, <2>2, NextCell
<1>4. TextCells \in Nat \ {0} /\ Cells \in Nat /\ TextCells < Cells
  BY CliAssumption
<1>5. read'[c] = read[c] + n /\ \A d \in Clients \ {c} : read'[d] = read[d]
  BY <1>1, <1>2 DEF WordInv, WordTypes
<1>6. read'[c] <= Cells * Len(sent[c])
  <2>1. Cells * Len(sent[c]) \in Int
    BY <1>3, <1>4
  <2> QED BY <1>2, <1>3, <1>5, <2>1 DEF Unread
<1>7. b <= Len(sent[c])
  <2> SUFFICES ASSUME Len(sent[c]) < b PROVE FALSE
    BY <1>3
  <2>1. Before(Len(sent[c]) + 1) = Cells * Len(sent[c])
    BY <1>3, <1>4 DEF Before
  <2>2. Before(Len(sent[c]) + 1) <= Before(b)
    <3>1. CASE Len(sent[c]) + 1 = b
      <4>1. Before(Len(sent[c]) + 1) = Before(b)
        BY <3>1
      <4> QED BY <1>3, <4>1
    <3>2. CASE Len(sent[c]) + 1 < b
      <4>1. Len(sent[c]) + 1 \in Nat /\ b \in Nat
        BY <1>3
      <4>2. /\ Before(Len(sent[c]) + 1) \in Int /\ Before(b) \in Int
            /\ Before(Len(sent[c]) + 1) + Cells <= Before(b)
        BY <3>2, <4>1, BlocksApart
      <4> QED BY <1>4, <4>2
    <3> QED BY <1>3, <3>1, <3>2
  <2>3. Cells * Len(sent[c]) \in Int
    BY <1>3, <1>4
  <2> QED BY <1>2, <1>3, <1>5, <1>6, <2>1, <2>2, <2>3
<1>8. /\ text' \in {NoText, 0, b}
      /\ text' = b <=> Cell(c) = 1 /\ n >= TextCells
  BY <1>2, <1>3, <1>4 DEF TextOf, NoText
<1>9. \A d \in Clients, i \in Nat \ {0} :
        Pending(d, i)' <=> d = c /\ i = b /\ Cell(c) = 1 /\ n >= TextCells
  BY <1>1, <1>2, <1>3, <1>8 DEF Pending, NoText
<1>10. WordTypes'
  <2>1. late' \in [Clients -> SUBSET Nat] /\ read' \in [Clients -> Nat]
    <3>1. late \in [Clients -> SUBSET Nat] /\ read \in [Clients -> Nat]
      BY DEF WordInv, WordTypes
    <3>2. read' \in [Clients -> Nat]
      BY <1>1, <1>2, <3>1
    <3>3. late' \in [Clients -> SUBSET Nat]
      BY <1>1, <1>2, <1>3, <3>1
    <3> QED BY <3>2, <3>3
  <2>2. \A d \in Clients : read'[d] <= Cells * Len(sent'[d])
    BY <1>1, <1>5, <1>6 DEF WordInv, WordTypes
  <2>3. text' \in 0..Len(sent[c]) \cup {NoText} /\ text' \in Nat \cup {NoText}
    BY <1>3, <1>7, <1>8
  <2>4. pc' \in {"recv", "search"} /\ (pc' = "search" => text' \in 0..Len(sent[c]))
    BY <1>2, <2>3
  <2> QED BY <1>1, <2>1, <2>2, <2>3, <2>4 DEF WordInv, WordTypes
<1>11. Order'
  <2>1. ASSUME NEW d \in Clients
        PROVE  /\ \A i \in 1..Len(answered[d]) : Before(answered[d][i]) < read'[d]
               /\ \A i, j \in 1..Len(answered[d]) : i < j => answered[d][i] < answered[d][j]
    <3>1. \A i \in 1..Len(answered[d]) :
            Before(answered[d][i]) < read[d] /\ Before(answered[d][i]) \in Int
      <4>1. answered[d] \in Seq(Nat)
        BY WordsAreTyped
      <4>2. \A k \in Nat : Before(k) \in Int
        BY <1>4 DEF Before
      <4> QED BY <4>1, <4>2 DEF WordInv, Order
    <3>2. read[d] <= read'[d] /\ read[d] \in Nat /\ read'[d] \in Nat
      BY <1>3, <1>5, WordsAreTyped
    <3> QED BY <3>1, <3>2 DEF WordInv, Order
  <2>2. ASSUME Cell(c) = 1
        PROVE  Before(b) < read'[c] /\ \A i \in 1..Len(answered[c]) : answered[c][i] < b
    <3>1. Before(b) < read'[c] /\ read[c] = Before(b)
      BY <1>2, <1>3, <1>5, <2>2
    <3>2. ASSUME NEW i \in 1..Len(answered[c]) PROVE answered[c][i] < b
      <4>1. answered[c][i] \in Nat
        BY <1>1, WordsAreTyped
      <4>2. Before(answered[c][i]) < Before(b)
        BY <1>1, <3>1 DEF WordInv, Order
      <4>3. ~(b < answered[c][i])
        <5> SUFFICES ASSUME b < answered[c][i] PROVE FALSE
          OBVIOUS
        <5>1. b \in Nat /\ answered[c][i] \in Nat
          BY <1>3, <4>1
        <5>2. /\ Before(b) \in Int /\ Before(answered[c][i]) \in Int
              /\ Before(b) + Cells <= Before(answered[c][i])
          BY <5>1, BlocksApart
        <5> QED BY <1>4, <4>2, <5>2
      <4>4. b # answered[c][i]
        BY <1>3, <4>2
      <4> QED BY <1>3, <4>1, <4>3, <4>4
    <3> QED BY <3>1, <3>2
  <2> QED BY <1>1, <1>9, <2>1, <2>2 DEF Order
<1>12. InTime'
  <2> SUFFICES ASSUME NEW d \in Clients, NEW i \in 1..Len(sent[d]), i \notin late'[d]
               PROVE  /\ Before(i) <= read'[d]
                      /\ Before(i) < read'[d] =>
                           /\ Before(i) + TextCells <= read'[d]
                           /\ i \in ToSet(answered[d]) \/ Pending(d, i)'
    BY <1>1 DEF InTime
  <2>1. i \notin late[d]
    BY <1>1, <1>2 DEF WordInv, WordTypes
  <2>2. /\ Before(i) <= read[d]
        /\ Before(i) < read[d] =>
             Before(i) + TextCells <= read[d] /\ i \in ToSet(answered[d])
    BY <1>1, <2>1 DEF WordInv, InTime, Pending
  <2>3. i \in Nat \ {0} /\ Before(i) \in Int /\ read[d] \in Nat
    <3>1. i \in Nat \ {0}
      BY WordsAreTyped
    <3> QED BY <1>4, <3>1, WordsAreTyped DEF Before
  <2>4. CASE d # c
    BY <1>5, <2>2, <2>4
  <2>5. CASE d = c /\ Before(i) < read[c]
    BY <1>2, <1>4, <1>5, <2>2, <2>3, <2>5
  <2>6. CASE d = c /\ Before(i) = read[c]
    <3>1. i = b
      BY <1>3, <1>4, <2>3, <2>6, OneBlock
    <3>2. Cell(c) = 1
      BY <1>3, <2>6, <3>1
    <3>3. n >= TextCells
      <4>1. late \in [Clients -> SUBSET Nat]
        BY DEF WordInv, WordTypes
      <4>2. n < TextCells => late'[c] = late[c] \cup {b}
        BY <1>1, <1>2, <3>2, <4>1
      <4>3. ~(n < TextCells)
        BY <2>6, <3>1, <4>2
      <4> QED BY <1>2, <1>4, <4>3
    <3> QED BY <1>2, <1>3, <1>4, <1>5, <1>9, <2>3, <2>6, <3>1, <3>2, <3>3
  <2> QED BY <2>2, <2>3, <2>4, <2>5, <2>6
<1>13. PartsAreLate'
  <2> SUFFICES ASSUME text' = 0 PROVE late'[c] # {}
    BY <1>1 DEF PartsAreLate
  <2>1. late \in [Clients -> SUBSET Nat]
    BY DEF WordInv, WordTypes
  <2>2. Cell(c) <= TextCells /\ ~(Cell(c) = 1 /\ n >= TextCells)
    BY <1>2, <1>3, <1>4 DEF TextOf, NoText
  <2>3. CASE Cell(c) = 1
    <3>1. late'[c] = late[c] \cup {b}
      BY <1>1, <1>2, <1>4, <2>1, <2>2, <2>3
    <3> QED BY <3>1
  <2>4. CASE Cell(c) # 1
    <3>1. Before(b) < read[c] /\ ~(Before(b) + TextCells <= read[c])
      BY <1>3, <1>4, <2>2, <2>4
    <3>2. b \in 1..Len(sent[c])
      BY <1>3, <1>7
    <3>3. b \in late[c]
      BY <1>1, <3>1, <3>2 DEF WordInv, InTime
    <3>4. b \in late'[c]
      BY <1>1, <1>2, <2>1, <3>3
    <3> QED BY <3>4
  <2> QED BY <2>3, <2>4
<1> QED BY <1>10, <1>11, <1>12, <1>13 DEF WordInv

LEMMA SearchKeepsWords == ASSUME CliInv, WordInv, Search PROVE WordInv'
<1> DEFINE c == Client
<1>1. /\ pc = "search" /\ c \in Clients /\ Client' = c
      /\ pc' \in {"recv", "action"}
      /\ UNCHANGED <<sent, read, late, boot, text>>
      /\ command' \in Commands \cup {"none"}
      /\ command' # "none" <=> pc' = "action"
  <2>1. pc = "search" /\ c \in Clients /\ Client' = c
        /\ UNCHANGED <<sent, read, late, boot, text>>
    BY ClientIsOne DEF Search, Client, fdVars, clientVars
  <2>2. PICK cmd \in Words : IF Found(cmd) THEN pc' = "action" /\ command' = cmd
                             ELSE pc' = "recv" /\ UNCHANGED command
    BY DEF Search
  <2>3. command = "none"
    BY <2>1 DEF WordInv, WordTypes
  <2>4. Found(cmd) => cmd \in Commands /\ cmd # "none"
    BY DEF Found, Commands
  <2> QED BY <2>1, <2>2, <2>3, <2>4
<1>a. PartsAreLate'
  BY <1>1 DEF WordInv, PartsAreLate
<1>2. /\ text \in 0..Len(sent[c]) /\ text \in Nat
      /\ answered \in [Clients -> Seq(Nat)]
  <2>1. Len(sent[c]) \in Nat
    BY <1>1, WordsAreTyped
  <2>2. text \in 0..Len(sent[c]) /\ answered \in [Clients -> Seq(Nat)]
    BY <1>1 DEF WordInv, WordTypes
  <2> QED BY <2>1, <2>2
<1>3. \A d \in Clients, i \in Nat \ {0} :
        ~Pending(d, i)' /\ (Pending(d, i) <=> d = c /\ text = i)
  BY <1>1 DEF Pending
<1>4. CASE text = 0
  <2>1. answered' = answered
    BY <1>4 DEF Search
  <2>2. WordTypes'
    BY <1>1, <2>1 DEF WordInv, WordTypes
  <2>3. Order'
    BY <1>1, <1>3, <2>1 DEF WordInv, Order
  <2>4. InTime'
    <3>1. \A d \in Clients : \A i \in 1..Len(sent[d]) : i \in Nat \ {0}
      BY WordsAreTyped
    <3>2. \A d \in Clients, i \in Nat \ {0} : ~Pending(d, i)
      BY <1>3, <1>4
    <3> QED BY <1>1, <2>1, <3>1, <3>2 DEF WordInv, InTime
  <2> QED BY <1>a, <2>2, <2>3, <2>4 DEF WordInv
<1>5. CASE text # 0
  <2> DEFINE a == answered[c]
  <2>1. answered' = [answered EXCEPT ![c] = Append(a, text)]
    BY <1>5 DEF Search
  <2>2. a \in Seq(Nat) /\ text \in Nat \ {0} /\ text \in 1..Len(sent[c])
    <3>1. Len(sent[c]) \in Nat
      BY <1>1, WordsAreTyped
    <3> QED BY <1>1, <1>2, <1>5, <3>1
  <2>3. /\ answered'[c] = Append(a, text) /\ answered' \in [Clients -> Seq(Nat)]
        /\ \A d \in Clients \ {c} : answered'[d] = answered[d]
    <3>1. Append(a, text) \in Seq(Nat)
      BY <2>2
    <3> QED BY <1>1, <1>2, <2>1, <3>1
  <2>4. /\ Len(Append(a, text)) = Len(a) + 1 /\ Len(a) \in Nat
        /\ Append(a, text)[Len(a) + 1] = text
        /\ \A i \in 1..Len(a) : Append(a, text)[i] = a[i]
    BY <2>2
  <2>5. WordTypes'
    BY <1>1, <2>2, <2>3 DEF WordInv, WordTypes
  <2>6. /\ Before(text) < read[c]
        /\ \A i \in 1..Len(a) : a[i] < text /\ Before(a[i]) < read[c]
        /\ \A i, j \in 1..Len(a) : i < j => a[i] < a[j]
    BY <1>1, <1>3, <2>2 DEF WordInv, Order
  <2>7. Order'
    <3>1. ASSUME NEW i \in 1..(Len(a) + 1)
          PROVE  /\ Before(Append(a, text)[i]) < read[c]
                 /\ \A j \in 1..(Len(a) + 1) : i < j => Append(a, text)[i] < Append(a, text)[j]
      BY <2>4, <2>6
    <3> QED BY <1>1, <1>3, <2>3, <2>4, <3>1 DEF WordInv, Order
  <2>8. InTime'
    <3> SUFFICES ASSUME NEW d \in Clients, NEW i \in 1..Len(sent[d]) \ late[d]
                 PROVE  /\ Before(i) <= read[d]
                        /\ Before(i) < read[d] =>
                             Before(i) + TextCells <= read[d] /\ i \in ToSet(answered'[d])
      BY <1>1 DEF InTime
    <3>1. /\ Before(i) <= read[d]
          /\ Before(i) < read[d] =>
               /\ Before(i) + TextCells <= read[d]
               /\ i \in ToSet(answered[d]) \/ Pending(d, i)
      BY DEF WordInv, InTime
    <3>2. i \in Nat \ {0}
      BY WordsAreTyped
    <3>3. text \in ToSet(Append(a, text)) /\ ToSet(a) \subseteq ToSet(Append(a, text))
      <4>1. DOMAIN Append(a, text) = 1..(Len(a) + 1) /\ DOMAIN a = 1..Len(a)
        BY <2>2
      <4>2. text \in ToSet(Append(a, text))
        BY <2>4, <4>1 DEF ToSet
      <4>3. \A k \in 1..Len(a) : a[k] \in ToSet(Append(a, text))
        BY <2>4, <4>1 DEF ToSet
      <4> QED BY <4>1, <4>2, <4>3 DEF ToSet
    <3> QED BY <1>3, <2>3, <3>1, <3>2, <3>3
  <2> QED BY <1>a, <2>5, <2>7, <2>8 DEF WordInv
<1> QED BY <1>2, <1>4, <1>5

LEMMA SendKeepsWords == ASSUME CliInv, WordInv, NEW c \in Clients, Send(c) PROVE WordInv'
<1> DEFINE n == Len(sent[c])
<1>1. PICK cmd \in Commands : sent' = [sent EXCEPT ![c] = Append(@, cmd)]
  BY DEF Send
<1>2. /\ UNCHANGED <<text, command, read, answered, pc, boot>> /\ Client' = Client
      /\ late' = IF Unread(c) = 0 THEN late ELSE [late EXCEPT ![c] = @ \cup {n + 1}]
  BY DEF Send, Client, fdVars
<1>3. /\ sent \in [Clients -> Seq(Commands)] /\ late \in [Clients -> SUBSET Nat]
      /\ n \in Nat /\ read[c] \in Nat
  <2>1. sent \in [Clients -> Seq(Commands)] /\ late \in [Clients -> SUBSET Nat]
    BY DEF WordInv, WordTypes
  <2> QED BY <2>1, WordsAreTyped
<1>4. /\ sent' \in [Clients -> Seq(Commands)] /\ Len(sent'[c]) = n + 1
      /\ \A d \in Clients \ {c} : sent'[d] = sent[d]
  <2>1. Append(sent[c], cmd) \in Seq(Commands) /\ Len(Append(sent[c], cmd)) = n + 1
    BY <1>3
  <2> QED BY <1>1, <1>3, <2>1
<1>5. Cells \in Nat /\ Cells * n \in Int /\ Cells * (n + 1) = Cells * n + Cells
  BY <1>3, CliAssumption
<1>6. \A d \in Clients, i \in Nat : Pending(d, i)' <=> Pending(d, i)
  BY <1>2 DEF Pending
<1>7. \A d \in Clients : Len(sent[d]) \in Nat /\ Len(sent[d]) <= Len(sent'[d])
  <2>1. \A d \in Clients : sent[d] \in Seq(Commands)
    BY <1>3
  <2>2. \A d \in Clients : Len(sent[d]) \in Nat
    BY <2>1
  <2>3. ASSUME NEW d \in Clients PROVE Len(sent[d]) <= Len(sent'[d])
    <3>1. CASE d = c
      BY <1>3, <1>4, <3>1
    <3>2. CASE d # c
      BY <1>4, <2>2, <3>2
    <3> QED BY <3>1, <3>2
  <2> QED BY <2>2, <2>3
<1>8. WordTypes'
  <2>1. late' \in [Clients -> SUBSET Nat]
    BY <1>2, <1>3
  <2>2. ASSUME NEW d \in Clients PROVE read'[d] <= Cells * Len(sent'[d])
    <3>1. read[d] <= Cells * Len(sent[d])
      BY DEF WordInv, WordTypes
    <3>2. CASE d = c
      <4>1. read'[c] = read[c] /\ read[c] <= Cells * n
        BY <1>2, <3>1, <3>2
      <4>2. read[c] <= Cells * (n + 1)
        BY <1>3, <1>5, <4>1
      <4> QED BY <1>4, <3>2, <4>1, <4>2
    <3> QED BY <1>2, <1>4, <3>1, <3>2
  <2>3. (pc \in {"action", "search"}) => Client \in Clients
    BY ClientIsOne
  <2>4. /\ pc = "action" => text \in 0..Len(sent[Client])
        /\ pc = "search" => text \in 0..Len(sent[Client])
    BY DEF WordInv, WordTypes
  <2>5. /\ pc' = "action" => text' \in 0..Len(sent'[Client'])
        /\ pc' = "search" => text' \in 0..Len(sent'[Client'])
    <3>1. CASE pc \in {"action", "search"}
      <4> DEFINE m == Len(sent[Client])
                 k == Len(sent'[Client])
      <4>1. m \in Nat /\ k \in Nat /\ m <= k
        <5>1. Client \in Clients
          BY <2>3, <3>1
        <5>2. sent'[Client] \in Seq(Commands)
          BY <1>4, <5>1
        <5> QED BY <1>7, <5>1, <5>2
      <4>2. 1..m \subseteq 1..k /\ 0..m \subseteq 0..k
        BY <4>1
      <4> QED BY <1>2, <2>4, <4>2
    <3> QED BY <1>2, <3>1
  <2> QED BY <1>2, <1>4, <2>1, <2>2, <2>5 DEF WordInv, WordTypes
<1>9. Order'
  BY <1>2, <1>6 DEF WordInv, Order
<1>10. InTime'
  <2> SUFFICES ASSUME NEW d \in Clients, NEW i \in 1..Len(sent'[d]) \ late'[d]
               PROVE  /\ Before(i) <= read[d]
                      /\ Before(i) < read[d] =>
                           /\ Before(i) + TextCells <= read[d]
                           /\ i \in ToSet(answered[d]) \/ Pending(d, i)
    <3>1. \A d \in Clients, i \in Nat : Pending(d, i)' <=> Pending(d, i)
      BY <1>6
    <3>2. \A d \in Clients : \A i \in 1..Len(sent'[d]) : i \in Nat
      BY <1>4
    <3> QED BY <1>2, <3>1, <3>2 DEF InTime
  <2>1. CASE i \in 1..Len(sent[d])
    <3>1. i \notin late[d]
      BY <1>2, <1>3
    <3> QED BY <2>1, <3>1 DEF WordInv, InTime
  <2>2. CASE i \notin 1..Len(sent[d])
    <3>1. d = c /\ i = n + 1
      BY <1>3, <1>4, <2>2
    <3>2. Unread(c) = 0
      BY <1>2, <1>3, <3>1
    <3>3. read[c] = Before(i)
      <4>1. Cells * (i - 1) = Cells * n
        BY <1>3, <3>1
      <4>2. Cells * n - read[c] = 0
        BY <3>2 DEF Unread
      <4>3. ASSUME NEW x \in Int, x - read[c] = 0 PROVE read[c] = x
        BY <1>3, <4>3
      <4>4. read[c] = Cells * n
        BY <1>5, <4>2, <4>3
      <4> QED BY <4>1, <4>4 DEF Before
    <3> QED BY <1>3, <3>1, <3>3
  <2> QED BY <2>1, <2>2
<1>11. PartsAreLate'
  <2>1. pc \in {"search", "action"} => Client \in Clients
    BY ClientIsOne
  <2>2. \A d \in Clients : late[d] # {} => late'[d] # {}
    BY <1>2, <1>3
  <2> QED BY <1>2, <2>1, <2>2 DEF WordInv, PartsAreLate
<1> QED BY <1>8, <1>9, <1>10, <1>11 DEF WordInv

\* What reads and sends nothing, and keeps what is about to be looked up.
LEMMA OthersKeepWords ==
  ASSUME WordInv, UNCHANGED <<sent, read, answered, late, text>>,
         boot' \in {"no player", "commands", "ready"},
         \/ pc' = pc /\ Client' = Client /\ command' = command
         \/ pc # "search" /\ pc' \in {"accept", "recv", "hung"} /\ command' = "none"
  PROVE  WordInv'
<1>1. \A d, i : Pending(d, i)' <=> Pending(d, i)
  BY DEF Pending
<1>2. WordTypes'
  BY DEF WordInv, WordTypes
<1>3. Order'
  BY <1>1 DEF WordInv, Order
<1>4. InTime'
  BY <1>1 DEF WordInv, InTime
<1>5. PartsAreLate'
  BY DEF WordInv, PartsAreLate
<1> QED BY <1>2, <1>3, <1>4, <1>5 DEF WordInv

LEMMA NextKeepsWords == ASSUME CliInv, WordInv, [Next]_vars PROVE WordInv'
<1>1. boot \in {"no player", "commands", "ready"}
  BY DEF WordInv, WordTypes
<1>a. pc \in {"accept", "recv"} => command = "none"
  BY DEF WordInv, WordTypes
<1>2. CASE Accept
  BY <1>1, <1>a, <1>2, OthersKeepWords DEF Accept, wordVars
<1>3. CASE Recv
  BY <1>3, RecvKeepsWords
<1>4. CASE Search
  BY <1>4, SearchKeepsWords
<1>5. CASE Act
  <2>1. pc = "action" /\ pc' \in {"hung", "recv"} /\ command' = "none"
    BY <1>5 DEF Act
  <2> QED BY <1>1, <1>5, <2>1, OthersKeepWords DEF Act, clientVars
<1>6. CASE Recover
  BY <1>1, <1>a, <1>6, OthersKeepWords DEF Recover, wordVars, clientVars
<1>7. ASSUME NEW c \in Clients, Connect(c) PROVE WordInv'
  BY <1>1, <1>7, OthersKeepWords DEF Connect, fdVars, wordVars, Client
<1>8. ASSUME NEW c \in Clients, Send(c) PROVE WordInv'
  BY <1>8, SendKeepsWords
<1>9. ASSUME NEW c \in Clients, Leave(c) PROVE WordInv'
  BY <1>1, <1>9, OthersKeepWords DEF Leave, fdVars, wordVars, Client
<1>10. CASE Boot
  <2>1. boot' \in {"no player", "commands", "ready"}
    BY <1>10 DEF Boot
  <2> QED BY <1>10, <2>1, OthersKeepWords DEF Boot, fdVars, wordVars, clientVars, Client
<1>11. CASE Output
  BY <1>1, <1>11, OthersKeepWords DEF Output, fdVars, wordVars, clientVars, Client
<1>12. CASE UNCHANGED vars
  BY <1>1, <1>12, OthersKeepWords DEF vars, fdVars, wordVars, clientVars, Client
<1> QED BY <1>2, <1>3, <1>4, <1>5, <1>6, <1>7, <1>8, <1>9, <1>10, <1>11, <1>12
     DEF Next, Server

LEMMA WordInvariant == Spec => [](CliInv /\ WordInv)
<1>1. Init => CliInv /\ WordInv
  BY InitCli, InitWords
<1>2. CliInv /\ WordInv /\ [Next]_vars => CliInv' /\ WordInv'
  BY NextKeeps, NextKeepsWords
<1> QED BY <1>1, <1>2, PTL DEF Spec

(* However many clients there were and whatever was saved, the commands of  *)
(* a client print to it and to nobody else (cli.cpp:154-157).               *)
THEOREM OutputGoesToTheClient == Spec => []WhoAsksIsAnswered
<1>1. CliInv => WhoAsksIsAnswered
  BY DEF CliInv, During, WhoAsksIsAnswered, Client
<1> QED BY <1>1, CliInvariant, PTL

(* Each client costs two descriptors, and the last one free is never taken: *)
(* accept cannot fail for want of one (cli.cpp:140-155, 193-202).           *)
THEOREM OneIsLeftToAccept == Spec => []DescriptorsAccounted
<1>1. CliInv => DescriptorsAccounted
  <2> SUFFICES ASSUME CliInv, pc = "accept"
               PROVE  Cardinality(FreeOnes) = Max({1, Room - 2 * Len(served)})
    BY DEF DescriptorsAccounted
  <2>1. Room - 2 * Len(served) \in Int
    BY CliAssumption DEF CliInv, Typing, Room
  <2> QED BY <2>1, MaxOfTwo DEF CliInv, Between, LeftAfter
<1> QED BY <1>1, CliInvariant, PTL

(* The output of the program is back on the console between two clients, as *)
(* long as the backups of all of them found a descriptor (cli.cpp:197-202). *)
THEOREM OutputComesBack == Spec => []ConsoleIsBack
<1>1. CliInv => ConsoleIsBack
  BY DEF CliInv, Between, ConsoleIsBack, Saved
<1> QED BY <1>1, CliInvariant, PTL

(* Types: the server never works with a descriptor of -1, and a whole text  *)
(* it runs is that of a block that was sent (cli.cpp:123-205).              *)
THEOREM CliTypes == Spec => []TypeOK
<1>1. CliInv /\ WordInv => TypeOK
  <2> SUFFICES ASSUME CliInv, WordInv PROVE TypeOK
    OBVIOUS
  <2>1. fds \in [Descriptors -> Files] /\ (pc = "accept" \/ cur \in Descriptors)
    BY DEF CliInv, Typing, During
  <2>2. pc = "accept" \/ Client \in Clients
    BY ClientIsOne
  <2>3. ASSUME NEW c \in Clients PROVE read[c] \in 0..(Cells * Len(sent[c]))
    <3>1. read[c] \in Nat /\ Len(sent[c]) \in Nat /\ Cells \in Nat
      BY WordsAreTyped, CliAssumption
    <3>2. read[c] <= Cells * Len(sent[c])
      BY DEF WordInv, WordTypes
    <3>3. Cells * Len(sent[c]) \in Int
      BY <3>1
    <3> QED BY <3>1, <3>2, <3>3
  <2> QED BY <2>1, <2>2, <2>3 DEF WordInv, WordTypes, TypeOK
<1> QED BY <1>1, WordInvariant, PTL

(* However recv cuts the stream of a client, its commands are run at most   *)
(* once and in the order they were sent, and a part of a text is taken for  *)
(* a command only after a cut or an early block (cli.cpp:168-175, 246-281). *)
THEOREM CommandsKeepTheirOrder == Spec => []RunInOrder
<1>1. CliInv /\ WordInv => RunInOrder
  BY DEF WordInv, Order, PartsAreLate, RunInOrder
<1> QED BY <1>1, WordInvariant, PTL

(* A client that waits until its last block was read before it sends the    *)
(* next loses a command only when recv cuts its text, whatever the sizes of *)
(* blocks and texts (cli.cpp:171, 246).                                     *)
THEOREM WhoWaitsIsHeard == Spec => []LostOnlyIfLate
<1>1. CliInv /\ WordInv => LostOnlyIfLate
  <2> SUFFICES ASSUME CliInv, WordInv, NEW c \in Clients, NEW i \in 1..Len(sent[c]) \ late[c],
                      read[c] >= Cells * (i - 1) + TextCells
               PROVE  i \in ToSet(answered[c]) \/ (pc = "search" /\ Client = c /\ text = i)
    BY DEF LostOnlyIfLate
  <2>1. TextCells \in Nat \ {0} /\ Cells \in Nat /\ i \in Int /\ read[c] \in Nat
    BY WordsAreTyped, CliAssumption
  <2>2. Before(i) \in Int /\ read[c] >= Before(i) + TextCells
    BY <2>1 DEF Before
  <2>3. Before(i) < read[c]
    BY <2>1, <2>2
  <2> QED BY <2>3 DEF WordInv, InTime, Pending
<1> QED BY <1>1, WordInvariant, PTL

-----------------------------------------------------------------------------
(* Where the output goes once the descriptors have run out.                 *)

\* The first backup of the k-th client found a descriptor; Saved(k) says it
\* of both.
SavedOut(k) == 2 * k <= Room

\* What the descriptor of an output refers to between two clients.
GoesTo(d, saved) ==
  /\ saved => fds[d] = "console"
  /\ ~saved => served # <<>> /\ fds[d] = served[Len(served)]

\* Output that was not saved goes to the last client.
WhereOutputGoes ==
  pc = "accept" =>
    /\ GoesTo(STDOUT_FILENO, SavedOut(Len(served)))
    /\ GoesTo(STDERR_FILENO, Saved(Len(served)))

\* Which of the backups were found, and that they are of the console.
Backups ==
  pc # "accept" =>
    /\ served # <<>> /\ Client = served[Len(served)]
    /\ backup.out # -1 <=> SavedOut(Len(served))
    /\ backup.out # -1 => fds[backup.out] = "console"
    /\ backup.err # -1 <=> Saved(Len(served))
    /\ backup.err # -1 => fds[backup.err] = "console"

OutputInv == WhereOutputGoes /\ Backups

\* The first client that finds two descriptors, and three.
LEMMA BackupsFound ==
  ASSUME CliInv, Accept
  PROVE  /\ backup'.out # -1 <=> SavedOut(Len(served) + 1)
         /\ backup'.err # -1 <=> Saved(Len(served) + 1)
<1> DEFINE sock == Opened(FreeOnes)
           out == Opened(FreeOnes \ {sock})
           err == Opened(FreeOnes \ {sock, out})
           k == Len(served)
           A == FreeOnes
           B == A \ {sock}
           C == A \ {sock, out}
<1>1. /\ backup' = [out |-> out, err |-> err]
      /\ pc = "accept" /\ A # {}
  BY DEF Accept
<1>2. Cardinality(A) = LeftAfter(k) /\ k \in Nat /\ Room \in Int
  BY <1>1, CliAssumption DEF CliInv, Between, Typing, Room
<1>3. IsFiniteSet(A) /\ Cardinality(A) \in Nat
  BY FreeAreFinite, FS_CardinalityType
<1>4. sock \in A
  BY <1>1, OpenedIsFree
<1>5. -1 \notin A
  BY Standard DEF FreeOnes
<1>6. IF B = {} THEN out = -1 ELSE out \in B
  BY OpenedIsFree
<1>7. IF C = {} THEN err = -1 ELSE err \in C
  BY OpenedIsFree
<1>8. (out # -1 <=> B # {}) /\ (err # -1 <=> C # {})
  BY <1>5, <1>6, <1>7
<1>9. IsFiniteSet(B) /\ Cardinality(B) \in Nat /\ Cardinality(B) = Cardinality(A) - 1
  BY <1>3, <1>4, FS_RemoveElement, FS_CardinalityType
<1>10. C = B \ {out}
  OBVIOUS
<1>11. IsFiniteSet(C) /\ Cardinality(C) \in Nat
       /\ Cardinality(C) = IF out \in B THEN Cardinality(B) - 1 ELSE Cardinality(B)
  BY <1>9, <1>10, FS_RemoveElement, FS_CardinalityType
<1>12. (Cardinality(B) = 0 <=> B = {}) /\ (Cardinality(C) = 0 <=> C = {})
  BY <1>9, <1>11, FS_EmptySet
<1>13. out \in B <=> B # {}
  BY <1>6
<1> HIDE DEF sock, out, err, A, B, C, k
<1>14. (B # {} <=> Cardinality(A) >= 2) /\ (C # {} <=> Cardinality(A) >= 3)
  BY <1>3, <1>9, <1>11, <1>12, <1>13
<1>15. /\ Cardinality(A) >= 2 <=> SavedOut(k + 1)
       /\ Cardinality(A) >= 3 <=> Saved(k + 1)
  BY <1>2 DEF LeftAfter, SavedOut, Saved
<1>16. backup'.out = out /\ backup'.err = err
  BY <1>1
<1> QED BY <1>8, <1>14, <1>15, <1>16 DEF k

LEMMA InitOutput == ASSUME Init PROVE OutputInv
<1>1. CliInv /\ pc = "accept" /\ Len(served) = 0
  BY InitCli DEF Init
<1>2. held \in 0..MaxHeld
  BY DEF Init
<1>3. Room \in Nat \ {0}
  BY <1>2, CliAssumption DEF Room
<1>4. Saved(0) /\ SavedOut(0)
  BY <1>3 DEF Saved, SavedOut
<1>5. fds[STDOUT_FILENO] = "console" /\ fds[STDERR_FILENO] = "console"
  BY <1>1, <1>4 DEF CliInv, Between
<1> QED BY <1>1, <1>4, <1>5 DEF OutputInv, WhereOutputGoes, Backups, GoesTo

LEMMA AcceptKeepsOutput == ASSUME CliInv, OutputInv, Accept PROVE OutputInv'
<1> DEFINE k == Len(served)
           client == Head(backlog)
<1>1. /\ pc = "accept" /\ pc' = "recv" /\ served' = Append(served, client)
      /\ backlog # <<>> /\ held' = held
  BY DEF Accept
<1>2. /\ client \in Clients /\ k \in Nat /\ Room \in Int /\ Room' = Room
      /\ served' # <<>> /\ Len(served') = k + 1 /\ served'[k + 1] = client
  BY <1>1, CliAssumption DEF CliInv, Typing, Room
<1>3. /\ backup'.out # -1 <=> SavedOut(k + 1)
      /\ backup'.err # -1 <=> Saved(k + 1)
  BY BackupsFound
<1>4. (SavedOut(k + 1) => SavedOut(k)) /\ (Saved(k + 1) => Saved(k))
  BY <1>2 DEF SavedOut, Saved
<1>5. /\ SavedOut(k) => fds[STDOUT_FILENO] = "console"
      /\ Saved(k) => fds[STDERR_FILENO] = "console"
  BY <1>1 DEF OutputInv, WhereOutputGoes, GoesTo
<1>6. /\ fds'[cur'] = client
      /\ backup'.out # -1 => fds'[backup'.out] = fds[STDOUT_FILENO]
      /\ backup'.err # -1 => fds'[backup'.err] = fds[STDERR_FILENO]
  <2> DEFINE sock == Opened(FreeOnes)
             out == Opened(FreeOnes \ {sock})
             err == Opened(FreeOnes \ {sock, out})
  <2>1. /\ cur' = sock /\ backup' = [out |-> out, err |-> err]
        /\ fds' = [d \in Descriptors |->
              CASE d \in {STDOUT_FILENO, STDERR_FILENO} \cup {sock} -> client
                [] d = out -> fds[STDOUT_FILENO]
                [] d = err -> fds[STDERR_FILENO]
                [] OTHER -> fds[d]]
        /\ FreeOnes # {}
    BY DEF Accept, Redirected
  <2>2. FreeOnes \subseteq Descriptors \ {STDOUT_FILENO, STDERR_FILENO}
    BY <1>1 DEF CliInv, Between, FreeOnes
  <2>3. /\ sock \in FreeOnes
        /\ IF FreeOnes \ {sock} = {} THEN out = -1 ELSE out \in FreeOnes \ {sock}
        /\ IF FreeOnes \ {sock, out} = {} THEN err = -1 ELSE err \in FreeOnes \ {sock, out}
    BY <2>1, OpenedIsFree
  <2> QED BY <2>1, <2>2, <2>3, Standard
<1>7. /\ SavedOut(Len(served))' <=> SavedOut(k + 1)
      /\ Saved(Len(served))' <=> Saved(k + 1)
  BY <1>2 DEF SavedOut, Saved
<1>8. Backups'
  BY <1>1, <1>2, <1>3, <1>4, <1>5, <1>6, <1>7 DEF Backups, Client
<1>9. WhereOutputGoes'
  BY <1>1 DEF WhereOutputGoes
<1> QED BY <1>8, <1>9 DEF OutputInv

LEMMA RecoverKeepsOutput == ASSUME CliInv, OutputInv, Recover PROVE OutputInv'
<1>1. /\ fds' = [d \in Descriptors |->
            IF d \in {cur} THEN Free
            ELSE IF Restored(d) # -1 THEN fds[Restored(d)] ELSE fds[d]]
      /\ pc # "accept" /\ pc' = "accept" /\ served' = served /\ held' = held
  BY DEF Recover, Closed
<1>2. /\ cur \in Descriptors \ {STDOUT_FILENO, STDERR_FILENO}
      /\ fds[STDOUT_FILENO] = fds[cur] /\ fds[STDERR_FILENO] = fds[cur]
  BY <1>1 DEF CliInv, During
<1>3. Restored(STDOUT_FILENO) = backup.out /\ Restored(STDERR_FILENO) = backup.err
  BY Standard DEF Restored
<1>4. /\ fds'[STDOUT_FILENO] = IF backup.out # -1 THEN fds[backup.out] ELSE fds[cur]
      /\ fds'[STDERR_FILENO] = IF backup.err # -1 THEN fds[backup.err] ELSE fds[cur]
  BY <1>1, <1>2, <1>3, Standard
<1>5. Backups
  BY DEF OutputInv
<1>6. Room' = Room
  BY <1>1 DEF Room
<1>7. WhereOutputGoes'
  BY <1>1, <1>4, <1>5, <1>6 DEF WhereOutputGoes, GoesTo, Backups, SavedOut, Saved, Client
<1>8. Backups'
  BY <1>1 DEF Backups
<1> QED BY <1>7, <1>8 DEF OutputInv

LEMMA OthersKeepOutput ==
  ASSUME OutputInv, UNCHANGED <<fds, held, cur, backup, served>>, pc' = "accept" <=> pc = "accept"
  PROVE  OutputInv'
BY DEF OutputInv, WhereOutputGoes, Backups, GoesTo, SavedOut, Saved, Room, Client

LEMMA NextKeepsOutput == ASSUME CliInv, OutputInv, [Next]_vars PROVE OutputInv'
<1>1. CASE Accept
  BY <1>1, AcceptKeepsOutput
<1>2. CASE Recover
  BY <1>2, RecoverKeepsOutput
<1>3. CASE Recv
  <2>1. pc = "recv" /\ pc' \in {"recv", "search"}
    BY <1>3 DEF Recv
  <2> QED BY <1>3, <2>1, OthersKeepOutput DEF Recv, fdVars
<1>4. CASE Search \/ Act
  BY <1>4, OthersKeepOutput DEF Search, Act, fdVars
<1>5. ASSUME NEW c \in Clients, Connect(c) \/ Send(c) \/ Leave(c) PROVE OutputInv'
  BY <1>5, OthersKeepOutput DEF Connect, Send, Leave, fdVars
<1>6. CASE Boot \/ Output \/ UNCHANGED vars
  BY <1>6, OthersKeepOutput DEF Boot, Output, vars, fdVars
<1> QED BY <1>1, <1>2, <1>3, <1>4, <1>5, <1>6 DEF Next, Server

(* The exact converse of OutputComesBack: between two clients stdout is on  *)
(* the console as long as the first backup of every client so far found a   *)
(* descriptor, stderr as long as the second did, and from then on for good  *)
(* at the client that was served last, which has left.  "recover io" says   *)
(* nothing of it (cli.cpp:154-157, 193-202).                                *)
THEOREM OutputStaysAway == Spec => []WhereOutputGoes
<1>1. Init => CliInv /\ OutputInv
  BY InitCli, InitOutput
<1>2. CliInv /\ OutputInv /\ [Next]_vars => (CliInv /\ OutputInv)'
  BY NextKeeps, NextKeepsOutput
<1>3. OutputInv => WhereOutputGoes
  BY DEF OutputInv
<1> QED BY <1>1, <1>2, <1>3, PTL DEF Spec

-----------------------------------------------------------------------------
(* How long a client can keep the server.                                   *)

\* What the server has still to do for what its client has sent: three steps
\* for each cell, which is read, looked up and run at most.
WorkLeft ==
  IF pc = "accept" THEN 0
  ELSE 3 * Unread(Client) + (CASE pc = "search" -> 2 [] pc = "action" -> 1 [] OTHER -> 0)

LEMMA UnreadIsNat ==
  ASSUME WordInv, NEW c \in Clients
  PROVE  Unread(c) \in Nat
<1>1. read[c] \in Nat /\ Len(sent[c]) \in Nat /\ Cells \in Nat
  BY WordsAreTyped, CliAssumption
<1>2. read[c] <= Cells * Len(sent[c])
  BY DEF WordInv, WordTypes
<1>3. Cells * Len(sent[c]) \in Nat
  BY <1>1
<1> QED BY <1>1, <1>2, <1>3 DEF Unread

LEMMA WorkIsNat ==
  ASSUME CliInv, WordInv
  PROVE  /\ WorkLeft \in Nat
         /\ pc # "accept" => Unread(Client) \in Nat
<1>1. pc # "accept" => Unread(Client) \in Nat
  BY ClientIsOne, UnreadIsNat
<1> QED BY <1>1 DEF WorkLeft

LEMMA RecvWorks == ASSUME CliInv, WordInv, Recv PROVE WorkLeft' < WorkLeft
<1> DEFINE c == Client
<1>1. pc = "recv" /\ c \in Clients /\ Client' = c /\ sent' = sent
  BY ClientIsOne DEF Recv, Client, fdVars, clientVars
<1>2. PICK n \in Nat \ {0} :
        /\ n <= Unread(c)
        /\ read' = [read EXCEPT ![c] = @ + n]
        /\ pc' = IF text' = NoText THEN "recv" ELSE "search"
  BY RecvText
<1>3. read'[c] = read[c] + n
  BY <1>1, <1>2 DEF WordInv, WordTypes
<1>4. Unread(c) \in Nat /\ read[c] \in Nat /\ Cells * Len(sent[c]) \in Int
  <2>1. read[c] \in Nat /\ Len(sent[c]) \in Nat /\ Cells \in Nat
    BY <1>1, WordsAreTyped, CliAssumption
  <2> QED BY <1>1, <2>1, UnreadIsNat
<1>5. Unread(c) = Cells * Len(sent[c]) - read[c] /\ Unread(Client)' = Cells * Len(sent[c]) - read'[c]
  BY <1>1 DEF Unread
<1>6. Unread(Client)' = Unread(c) - n
  BY <1>3, <1>4, <1>5
<1>7. WorkLeft = 3 * Unread(c) /\ WorkLeft' \in {3 * Unread(Client)', 3 * Unread(Client)' + 2}
  BY <1>1, <1>2, <1>4, <1>6 DEF WorkLeft
<1> QED BY <1>2, <1>4, <1>6, <1>7

LEMMA LookupWorks == ASSUME CliInv, WordInv, Search \/ Act PROVE WorkLeft' < WorkLeft
<1>1. Unread(Client) \in Nat /\ Unread(Client)' = Unread(Client)
  <2>1. pc # "accept" /\ UNCHANGED <<cur, fds, sent, read>>
    BY DEF Search, Act, fdVars, clientVars, wordVars
  <2> QED BY <2>1, WorkIsNat DEF Unread, Client
<1>2. \/ pc = "search" /\ pc' \in {"recv", "action"}
      \/ pc = "action" /\ pc' \in {"recv", "hung"}
  BY DEF Search, Act
<1> QED BY <1>1, <1>2 DEF WorkLeft

(* The work the server has left for its client falls with each of its steps *)
(* until it accepts the next one, and only that client can add to it: one   *)
(* that sends nothing more keeps the server for a bounded number of steps,  *)
(* and the others are not kept from it by what they send themselves.  The   *)
(* safety half of ClientsAreServed (cli.cpp:125-204).                       *)
THEOREM WorkEnds ==
  Spec => /\ [](WorkLeft \in Nat)
          /\ [][/\ Recv \/ Search \/ Act => WorkLeft' < WorkLeft
                /\ WorkLeft' > WorkLeft => Accept \/ Send(Client)]_vars
<1>1. CliInv /\ WordInv => WorkLeft \in Nat
  BY WorkIsNat
<1>2. CliInv /\ WordInv /\ WorkLeft \in Nat /\ (WorkLeft \in Nat)' /\ [Next]_vars =>
        [/\ Recv \/ Search \/ Act => WorkLeft' < WorkLeft
         /\ WorkLeft' > WorkLeft => Accept \/ Send(Client)]_vars
  <2> SUFFICES ASSUME CliInv, WordInv, WorkLeft \in Nat, WorkLeft' \in Nat, Next
               PROVE  /\ Recv \/ Search \/ Act => WorkLeft' < WorkLeft
                      /\ WorkLeft' > WorkLeft => Accept \/ Send(Client)
    OBVIOUS
  <2>1. Recv \/ Search \/ Act => WorkLeft' < WorkLeft
    BY RecvWorks, LookupWorks
  <2>2. WorkLeft \in Nat /\ WorkLeft' \in Nat
    OBVIOUS
  <2>3. ASSUME ~Accept, ~(Recv \/ Search \/ Act), ~Send(Client)
        PROVE  ~(WorkLeft' > WorkLeft)
    <3>1. CASE Recover
      <4>1. WorkLeft' = 0
        BY <3>1 DEF Recover, WorkLeft
      <4> QED BY <2>2, <4>1
    <3>2. ASSUME UNCHANGED <<pc, cur, fds, read>>,
                 pc # "accept" => sent'[Client] = sent[Client]
          PROVE  WorkLeft' = WorkLeft
      BY <3>2 DEF WorkLeft, Unread, Client
    <3>3. ASSUME NEW c \in Clients, Send(c) PROVE WorkLeft' = WorkLeft
      <4>1. c # Client
        BY <2>3, <3>3
      <4>2. UNCHANGED <<pc, cur, fds, read>>
        BY <3>3 DEF Send, fdVars
      <4>3. sent \in [Clients -> Seq(Commands)]
        BY DEF WordInv, WordTypes
      <4>4. pc # "accept" => sent'[Client] = sent[Client]
        BY <3>3, <4>1, <4>3, ClientIsOne DEF Send
      <4> QED BY <3>2, <4>2, <4>4
    <3>4. ASSUME NEW c \in Clients, Connect(c) \/ Leave(c) PROVE WorkLeft' = WorkLeft
      BY <3>2, <3>4 DEF Connect, Leave, fdVars, wordVars
    <3>5. ASSUME Boot \/ Output PROVE WorkLeft' = WorkLeft
      BY <3>2, <3>5 DEF Boot, Output, fdVars, clientVars, wordVars
    <3>6. WorkLeft' = WorkLeft \/ Recover
      BY <2>3, <3>3, <3>4, <3>5 DEF Next, Server
    <3>7. ~(WorkLeft > WorkLeft)
      BY <2>2
    <3> QED BY <3>1, <3>6, <3>7
  <2>4. WorkLeft' > WorkLeft => ~(WorkLeft' < WorkLeft)
    BY <2>2
  <2> QED BY <2>1, <2>3, <2>4
<1> QED BY <1>1, <1>2, WordInvariant, PTL DEF Spec
=============================================================================
