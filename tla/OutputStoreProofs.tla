-------------------------- MODULE OutputStoreProofs ---------------------------
(***************************************************************************)
(* Proofs about OutputStore, for any servers, projects and limits: types,  *)
(* that a URL names one text, that the newest outputs are kept, and that   *)
(* no file is forgotten.                                                   *)
(***************************************************************************)
EXTENDS OutputStore, SequenceTheorems, TLAPS

\* What _evict keeps and removes.
LEMMA EvictProperties ==
  ASSUME NEW ids \in Seq(Id)
  PROVE  LET n == Len(ids) - MaxOutputs  e == Evict(ids) IN
         /\ e.kept \in Seq(Id) /\ e.gone \in SUBSET Id
         /\ n <= 0 => e.kept = ids /\ e.gone = {}
         /\ n > 0  => /\ Len(e.kept) = MaxOutputs
                      /\ \A i \in 1..MaxOutputs : e.kept[i] = ids[n + i]
                      /\ e.gone = {ids[i] : i \in 1..n}
<1> DEFINE n == Len(ids) - MaxOutputs
<1>1. MaxOutputs \in Nat \ {0} /\ Len(ids) \in Nat /\ \A i \in 1..Len(ids) : ids[i] \in Id
  BY LimitAssumption, LenProperties, ElementOfSeq
<1>2. CASE n <= 0
  BY <1>1, <1>2 DEF Evict
<1>3. CASE n > 0
  <2>1. n + 1 \in Int /\ n \in Int /\ n + 1 >= 1 /\ n <= Len(ids)
    BY <1>1, <1>3
  <2>2. /\ SubSeq(ids, n + 1, Len(ids)) \in Seq(Id)
        /\ Len(SubSeq(ids, n + 1, Len(ids))) = MaxOutputs
        /\ \A i \in 1..MaxOutputs : SubSeq(ids, n + 1, Len(ids))[i] = ids[n + i]
    BY <1>1, <2>1
  <2>3. /\ Len(SubSeq(ids, 1, n)) = n
        /\ \A i \in 1..n : SubSeq(ids, 1, n)[i] = ids[i]
    BY <1>1, <1>3, <2>1
  <2>4. Elements(SubSeq(ids, 1, n)) = {ids[i] : i \in 1..n}
    BY <2>3 DEF Elements
  <2>5. {ids[i] : i \in 1..n} \subseteq Id
    BY <1>1, <2>1
  <2>6. Evict(ids) = [kept |-> SubSeq(ids, n + 1, Len(ids)), gone |-> Elements(SubSeq(ids, 1, n))]
    BY <1>1, <1>3 DEF Evict
  <2> QED
    BY <1>3, <2>2, <2>4, <2>5, <2>6
<1> QED
  BY <1>1, <1>2, <1>3

\* Each output takes a number, so that numbers do not run out before the outputs.
Typed == TypeOK /\ \A s \in Server : counter[s] <= made + 1

LEMMA InitTyped == Init => Typed
<1> SUFFICES ASSUME Init PROVE Typed
  OBVIOUS
<1>1. MaxMade \in Nat
  BY LimitAssumption
<1>2. index \in [Server -> [Project -> Seq(Id)]] /\ handed \in [Server -> [Project -> Seq(Output)]]
  BY DEF Init
<1>3. counter \in [Server -> 1..(MaxMade + 1)] /\ made \in 0..MaxMade
  BY <1>1 DEF Init
<1> QED
  BY <1>1, <1>2, <1>3 DEF Init, Typed, TypeOK

\* The pieces of Process.
LEMMA ProcessPieces ==
  ASSUME Typed, NEW s \in Server, NEW p \in Project, Process(s, p)
  PROVE  LET id == counter[s]  b == Evict(Append(index[s][p], id)) IN
         /\ id \in Id /\ made' = made + 1 /\ made' \in Text
         /\ Append(index[s][p], id) \in Seq(Id) /\ b.kept \in Seq(Id) /\ b.gone \in SUBSET Id
         /\ [id |-> id, text |-> made'] \in Output
         /\ Removed([disk[p] EXCEPT ![id] = made'], b.gone) \in [Id -> Text \cup {Nothing}]
<1> DEFINE id == counter[s]  b == Evict(Append(index[s][p], id))
<1>1. id \in Id /\ made' = made + 1 /\ made' \in Text
  BY LimitAssumption DEF Process, NextId, Typed, TypeOK, Id, Text
<1>2. Append(index[s][p], id) \in Seq(Id)
  BY <1>1 DEF Typed, TypeOK
<1>3. b.kept \in Seq(Id) /\ b.gone \in SUBSET Id
  BY <1>2, EvictProperties
<1>4. Removed([disk[p] EXCEPT ![id] = made'], b.gone) \in [Id -> Text \cup {Nothing}]
  BY <1>1, <1>3 DEF Removed, Typed, TypeOK
<1> QED
  BY <1>1, <1>2, <1>3, <1>4 DEF Output

LEMMA TypedStep == Typed /\ [Next]_vars => Typed'
<1> SUFFICES ASSUME Typed, [Next]_vars PROVE Typed'
  OBVIOUS
<1> USE DEF Typed, TypeOK
<1>1. ASSUME NEW s \in Server, Start(s) PROVE Typed'
  BY <1>1 DEF Start
<1>2. ASSUME NEW s \in Server, NEW p \in Project, OpenProject(s, p) PROVE Typed'
  BY <1>2 DEF OpenProject
<1>3. ASSUME NEW s \in Server, NEW p \in Project, Process(s, p) PROVE Typed'
  <2> DEFINE id == counter[s]  b == Evict(Append(index[s][p], id))
  <2>1. /\ id \in Id /\ made' = made + 1 /\ made' \in Text /\ b.kept \in Seq(Id)
        /\ [id |-> id, text |-> made'] \in Output
        /\ Removed([disk[p] EXCEPT ![id] = made'], b.gone) \in [Id -> Text \cup {Nothing}]
    BY <1>3, ProcessPieces
  <2>2. /\ index' = [index EXCEPT ![s][p] = b.kept]
        /\ disk' = [disk EXCEPT ![p] = Removed([@ EXCEPT ![id] = made'], b.gone)]
        /\ handed' = [handed EXCEPT ![s][p] = Append(@, [id |-> id, text |-> made'])]
    BY <1>3 DEF Process, NextId
  <2>3. index' \in [Server -> [Project -> Seq(Id)]]
    BY <2>1, <2>2
  <2>4. disk' \in [Project -> [Id -> Text \cup {Nothing}]]
    BY <2>1, <2>2
  <2>5. handed' \in [Server -> [Project -> Seq(Output)]]
    <3>1. Append(handed[s][p], [id |-> id, text |-> made']) \in Seq(Output)
      BY <2>1, AppendProperties
    <3> QED
      BY <2>2, <3>1
  <2>6. made' \in 0..MaxMade /\ counter' \in [Server -> 1..(MaxMade + 1)]
        /\ \A t \in Server : counter'[t] <= made' + 1
    BY <1>3, <2>1, LimitAssumption DEF Process, Id, Text
  <2>7. /\ dirs' \in SUBSET Project /\ writers' \in [Project -> SUBSET Server]
        /\ UNCHANGED <<up, open, current>>
    BY <1>3 DEF Process
  <2> QED
    BY <2>3, <2>4, <2>5, <2>6, <2>7
<1>4. ASSUME NEW s \in Server, NEW p \in Project, CloseProject(s, p) PROVE Typed'
  <2>1. Len(handed[s][p]) \in Nat
    BY LenProperties
  <2> QED
    BY <1>4, <2>1 DEF CloseProject
<1>5. ASSUME NEW s \in Server, Shutdown(s) PROVE Typed'
  <2>1. disk' \in [Project -> [Id -> Text \cup {Nothing}]]
    BY <1>5 DEF Shutdown, Removed
  <2>2. index' \in [Server -> [Project -> Seq(Id)]]
    BY <1>5 DEF Shutdown
  <2> QED
    BY <1>5, <2>1, <2>2 DEF Shutdown
<1>6. ASSUME NEW s \in Server, Crash(s) PROVE Typed'
  <2>1. index' \in [Server -> [Project -> Seq(Id)]]
    BY <1>6 DEF Crash
  <2> QED
    BY <1>6, <2>1 DEF Crash
<1>7. CASE UNCHANGED vars
  BY <1>7 DEF vars
<1> QED
  BY <1>1, <1>2, <1>3, <1>4, <1>5, <1>6, <1>7 DEF Next

\* Every variable of OutputStore keeps its type: ids and files are well formed, for any
\* number of servers that write into the same directories.
THEOREM TypeCorrect == Spec => []TypeOK
<1>1. Typed => TypeOK
  BY DEF Typed
<1> QED
  BY <1>1, InitTyped, TypedStep, PTL DEF Spec

-----------------------------------------------------------------------------
(* What a server knows of the outputs of a project. *)

\* The ids a server has handed out rise and stay below its counter.
IdsRise(s, p) ==
  LET H == handed[s][p] IN
  /\ \A i \in 1..Len(H) : H[i].id < counter[s]
  /\ \A i, j \in 1..Len(H) : i < j => H[i].id < H[j].id

\* The index holds the last ids handed out, as many as it can or all since the
\* project was last closed.
IndexIsTail(s, p) ==
  LET H == handed[s][p]  X == index[s][p] IN
  /\ Len(X) <= MaxOutputs /\ current[s][p] + Len(X) <= Len(H)
  /\ \A i \in 1..Len(X) : X[i] = H[Len(H) - Len(X) + i].id
  /\ up[s] # "down" => Len(X) = MaxOutputs \/ current[s][p] + Len(X) = Len(H)

\* A server that is not up has nothing open, a closed project has no index, and who
\* has handed out an output has written it.
Lives(s, p) ==
  /\ handed[s][p] # << >> => s \in writers[p]
  /\ up[s] # "up" => open[s] = {}
  /\ p \notin open[s] => index[s][p] = << >>
  /\ up[s] = "new" => s \notin writers[p]

\* No other server has handled the project's files.
Sole(s, p) == \A t \in writers[p] : t = s

\* The files of a project only s has handled: those its index lists, each the text
\* its id was handed out for.
Files(s, p) ==
  Sole(s, p) =>
    /\ \A i \in 1..Len(handed[s][p]) :
         disk[p][handed[s][p][i].id] \in {handed[s][p][i].text, Nothing}
    /\ up[s] = "up" => \A i \in Id : disk[p][i] # Nothing <=> i \in Elements(index[s][p])
    /\ writers[p] = {} => \A i \in Id : disk[p][i] = Nothing

Kept(s, p) == IdsRise(s, p) /\ IndexIsTail(s, p) /\ Lives(s, p) /\ Files(s, p)
Inv == Typed /\ \A s \in Server, p \in Project : Kept(s, p)

LEMMA InitInv == Init => Inv
<1> SUFFICES ASSUME Init, NEW s \in Server, NEW p \in Project PROVE Kept(s, p)
  BY InitTyped DEF Inv
<1>1. /\ handed[s][p] = << >> /\ index[s][p] = << >> /\ current[s][p] = 0
      /\ up[s] = "new" /\ open[s] = {} /\ writers[p] = {}
      /\ \A i \in Id : disk[p][i] = Nothing
  BY DEF Init
<1> QED
  BY <1>1, LimitAssumption DEF Kept, IdsRise, IndexIsTail, Lives, Files

LEMMA HandedTyped ==
  ASSUME Typed, NEW s \in Server, NEW p \in Project
  PROVE  LET H == handed[s][p] IN
         /\ H \in Seq(Output) /\ Len(H) \in Nat /\ current[s][p] \in Nat
         /\ \A i \in 1..Len(H) : H[i].id \in Id /\ H[i].text \in Text
<1> DEFINE H == handed[s][p]
<1>1. H \in Seq(Output) /\ current[s][p] \in Nat
  BY DEF Typed, TypeOK
<1>2. Len(H) \in Nat /\ \A i \in 1..Len(H) : H[i] \in Output
  BY <1>1, LenProperties, ElementOfSeq
<1> QED
  BY <1>1, <1>2 DEF Output

\* What a server's counter, index and open projects say depends on its own part of
\* the state and on the project's files.
LEMMA Untouched ==
  ASSUME NEW s \in Server, NEW p \in Project, Kept(s, p),
         up'[s] = up[s], counter'[s] = counter[s], open'[s] = open[s],
         index'[s][p] = index[s][p], handed'[s][p] = handed[s][p],
         current'[s][p] = current[s][p], disk'[p] = disk[p], writers'[p] = writers[p]
  PROVE  Kept(s, p)'
<1>1. IdsRise(s, p)'
  BY DEF Kept, IdsRise
<1>2. IndexIsTail(s, p)'
  BY DEF Kept, IndexIsTail
<1>3. Lives(s, p)'
  BY DEF Kept, Lives
<1>4. Files(s, p)'
  BY DEF Kept, Files, Sole, Elements
<1> QED
  BY <1>1, <1>2, <1>3, <1>4 DEF Kept

\* When another server handles the files, nothing is claimed of them any more.
LEMMA Shared ==
  ASSUME NEW s \in Server, NEW t \in Server, NEW p \in Project, Kept(t, p), t # s,
         up'[t] = up[t], counter'[t] = counter[t], open'[t] = open[t],
         index'[t][p] = index[t][p], handed'[t][p] = handed[t][p],
         current'[t][p] = current[t][p], writers'[p] = writers[p] \cup {s}
  PROVE  Kept(t, p)'
<1>1. IdsRise(t, p)'
  BY DEF Kept, IdsRise
<1>2. IndexIsTail(t, p)'
  BY DEF Kept, IndexIsTail
<1>3. Lives(t, p)'
  BY DEF Kept, Lives
<1>4. Files(t, p)'
  BY DEF Files, Sole
<1> QED
  BY <1>1, <1>2, <1>3, <1>4 DEF Kept

LEMMA Offset ==
  ASSUME NEW c \in Nat, NEW h \in Nat, NEW x \in Nat, c + x <= h
  PROVE  /\ \A i \in 1..x : h - x + i \in 1..h
         /\ \A i, j \in 1..x : i < j => h - x + i < h - x + j
OBVIOUS

\* The same place, counted after one more has come.
LEMMA Shift ==
  ASSUME NEW c \in Nat, NEW h \in Nat, NEW x \in Nat, c + x <= h
  PROVE  /\ (h + 1) - (x + 1) + (x + 1) = h + 1 /\ (h + 1) - x + x = h + 1
         /\ \A i \in 1..(x + 1) : i # x + 1 =>
              i \in 1..x /\ h - x + i \in 1..h /\ (h + 1) - (x + 1) + i = h - x + i
         /\ \A i \in 1..x : i # x =>
              /\ i \in 1..(x - 1) /\ i + 1 \in 1..x /\ h - x + (i + 1) \in 1..h
              /\ (h + 1) - x + i = h - x + (i + 1)
<1>1. (h + 1) - (x + 1) + (x + 1) = h + 1 /\ (h + 1) - x + x = h + 1
  OBVIOUS
<1>2. \A i \in 1..(x + 1) : i # x + 1 =>
        i \in 1..x /\ h - x + i \in 1..h /\ (h + 1) - (x + 1) + i = h - x + i
  OBVIOUS
<1>3. \A i \in 1..x : i # x =>
        /\ i \in 1..(x - 1) /\ i + 1 \in 1..x /\ h - x + (i + 1) \in 1..h
        /\ (h + 1) - x + i = h - x + (i + 1)
  OBVIOUS
<1> QED
  BY <1>1, <1>2, <1>3

\* Hence the ids in the index rise too.
LEMMA IndexRises ==
  ASSUME Typed, NEW s \in Server, NEW p \in Project, IdsRise(s, p), IndexIsTail(s, p)
  PROVE  LET X == index[s][p] IN
         /\ X \in Seq(Id) /\ Len(X) \in Nat
         /\ \A i \in 1..Len(X) : X[i] \in Id /\ X[i] < counter[s]
         /\ \A i, j \in 1..Len(X) : i < j => X[i] < X[j]
<1> DEFINE X == index[s][p]  H == handed[s][p]
<1>1. X \in Seq(Id) /\ H \in Seq(Output) /\ current[s][p] \in Nat
  BY DEF Typed, TypeOK
<1>2. Len(X) \in Nat /\ Len(H) \in Nat /\ \A i \in 1..Len(X) : X[i] \in Id
  BY <1>1, LenProperties, ElementOfSeq
<1>3. current[s][p] + Len(X) <= Len(H) /\ \A i \in 1..Len(X) : X[i] = H[Len(H) - Len(X) + i].id
  BY DEF IndexIsTail
<1>4. \A i \in 1..Len(X) : Len(H) - Len(X) + i \in 1..Len(H) /\ X[i] = H[Len(H) - Len(X) + i].id
  <2>1. \A i \in 1..Len(X) : Len(H) - Len(X) + i \in 1..Len(H)
    BY <1>1, <1>2, <1>3, Offset
  <2> QED
    BY <1>3, <2>1
<1>5. \A i \in 1..Len(X) : X[i] < counter[s]
  BY <1>4 DEF IdsRise
<1>6. \A i, j \in 1..Len(X) : i < j => X[i] < X[j]
  <2>1. \A i, j \in 1..Len(H) : i < j => H[i].id < H[j].id
    BY DEF IdsRise
  <2> SUFFICES ASSUME NEW i \in 1..Len(X), NEW j \in 1..Len(X), i < j PROVE X[i] < X[j]
    OBVIOUS
  <2> DEFINE k(n) == Len(H) - Len(X) + n
  <2>2. k(i) \in 1..Len(H) /\ k(j) \in 1..Len(H) /\ k(i) < k(j)
    BY <1>1, <1>2, <1>3, Offset
  <2>3. X[i] = H[k(i)].id /\ X[j] = H[k(j)].id
    BY <1>4
  <2> HIDE DEF k
  <2> QED
    BY <2>1, <2>2, <2>3
<1> QED
  BY <1>1, <1>2, <1>5, <1>6

\* What Process does to what its server knows of the project.
LEMMA ProcessEffect ==
  ASSUME Typed, NEW s \in Server, NEW p \in Project, Process(s, p)
  PROVE  LET id == counter[s]  b == Evict(Append(index[s][p], id))
             o == [id |-> id, text |-> made'] IN
         /\ up' = up /\ open' = open /\ current' = current /\ counter'[s] = id + 1
         /\ index'[s][p] = b.kept
         /\ handed'[s][p] = Append(handed[s][p], o)
         /\ writers'[p] = writers[p] \cup {s}
         /\ \A i \in Id : disk'[p][i] = IF i \in b.gone THEN Nothing
                                        ELSE IF i = id THEN made' ELSE disk[p][i]
<1>1. counter[s] \in Id
  BY ProcessPieces
<1> QED
  BY <1>1 DEF Process, NextId, Removed, Typed, TypeOK

\* And what it does to what the others know.
LEMMA ProcessOthers ==
  ASSUME Typed, NEW s \in Server, NEW p \in Project, Process(s, p)
  PROVE  /\ up' = up /\ open' = open /\ current' = current
         /\ counter'[s] = counter[s] + 1 /\ \A u \in Server \ {s} : counter'[u] = counter[u]
         /\ writers'[p] = writers[p] \cup {s}
         /\ \A u \in Server, r \in Project : u # s \/ r # p =>
              index'[u][r] = index[u][r] /\ handed'[u][r] = handed[u][r]
         /\ \A r \in Project \ {p} : disk'[r] = disk[r] /\ writers'[r] = writers[r]
<1>1. /\ up' = up /\ open' = open /\ current' = current
      /\ counter'[s] = counter[s] + 1 /\ \A u \in Server \ {s} : counter'[u] = counter[u]
  BY DEF Process, Typed, TypeOK
<1>2. \A u \in Server, r \in Project : u # s \/ r # p =>
        index'[u][r] = index[u][r] /\ handed'[u][r] = handed[u][r]
  BY DEF Process, Typed, TypeOK
<1>3. writers'[p] = writers[p] \cup {s} /\ \A r \in Project \ {p} : writers'[r] = writers[r]
  BY DEF Process, Typed, TypeOK
<1>4. \A r \in Project \ {p} : disk'[r] = disk[r]
  BY DEF Process, Typed, TypeOK
<1> QED
  BY <1>1, <1>2, <1>3, <1>4

\* The index after an output was added and at most one evicted.
LEMMA ProcessIndex ==
  ASSUME Typed, NEW s \in Server, NEW p \in Project, Process(s, p),
         IdsRise(s, p), IndexIsTail(s, p)
  PROVE  LET id == counter[s]  X == index[s][p]  n == Len(X)  b == Evict(Append(X, id)) IN
         /\ b.kept \in Seq(Id)
         /\ n < MaxOutputs => /\ Len(b.kept) = n + 1 /\ b.gone = {}
                              /\ \A i \in 1..n : b.kept[i] = X[i]
         /\ n = MaxOutputs => /\ Len(b.kept) = n /\ b.gone = {X[1]}
                              /\ \A i \in 1..(n - 1) : b.kept[i] = X[i + 1]
         /\ b.kept[Len(b.kept)] = id
         /\ \A i \in Id : i \in Elements(b.kept)
                            <=> i = id \/ (i \in Elements(X) /\ i \notin b.gone)
         /\ id \notin b.gone
<1> DEFINE id == counter[s]  X == index[s][p]  n == Len(X)
           A == Append(X, id)  b == Evict(A)
<1>1. /\ X \in Seq(Id) /\ n \in Nat /\ \A i \in 1..n : X[i] \in Id /\ X[i] < id
      /\ \A i, j \in 1..n : i < j => X[i] < X[j]
  BY IndexRises
<1>2. id \in Id /\ id \in Nat /\ Id \subseteq Nat
  <2>1. id \in Id
    BY ProcessPieces
  <2>2. Id \subseteq Nat
    BY LimitAssumption DEF Id
  <2> QED
    BY <2>1, <2>2
<1>3. MaxOutputs \in Nat \ {0} /\ n <= MaxOutputs
  BY LimitAssumption DEF IndexIsTail
<1>4. A \in Seq(Id) /\ Len(A) = n + 1 /\ A[n + 1] = id /\ \A i \in 1..n : A[i] = X[i]
  BY <1>1, <1>2, AppendProperties
<1> DEFINE m == Len(A) - MaxOutputs
<1>7. /\ b.kept \in Seq(Id) /\ b.gone \in SUBSET Id
      /\ m <= 0 => b.kept = A /\ b.gone = {}
      /\ m > 0  => /\ Len(b.kept) = MaxOutputs
                   /\ \A i \in 1..MaxOutputs : b.kept[i] = A[m + i]
                   /\ b.gone = {A[i] : i \in 1..m}
  BY <1>4, EvictProperties
<1>8. m = (n + 1) - MaxOutputs
  BY <1>1, <1>3, <1>4
<1> DEFINE Goal ==
         /\ b.kept \in Seq(Id)
         /\ n < MaxOutputs => /\ Len(b.kept) = n + 1 /\ b.gone = {}
                              /\ \A i \in 1..n : b.kept[i] = X[i]
         /\ n = MaxOutputs => /\ Len(b.kept) = n /\ b.gone = {X[1]}
                              /\ \A i \in 1..(n - 1) : b.kept[i] = X[i + 1]
         /\ b.kept[Len(b.kept)] = id
         /\ \A i \in Id : i \in Elements(b.kept)
                            <=> i = id \/ (i \in Elements(X) /\ i \notin b.gone)
         /\ id \notin b.gone
<1>9. SUFFICES Goal
  OBVIOUS
<1> HIDE DEF m, A, b
<1>5. CASE n < MaxOutputs
  <2>1. b.kept = A /\ b.gone = {}
    BY <1>1, <1>3, <1>5, <1>7, <1>8
  <2>2. 1..Len(A) = 1..n \cup {n + 1}
    BY <1>1, <1>4
  <2>3. \A i \in Id : i \in Elements(A) <=> i = id \/ i \in Elements(X)
    BY <1>4, <2>2 DEF Elements
  <2> QED
    BY <1>1, <1>3, <1>4, <1>5, <2>1, <2>3
<1>6. CASE n = MaxOutputs
  <2>1. /\ b.kept \in Seq(Id) /\ Len(b.kept) = n
        /\ \A i \in 1..n : b.kept[i] = A[1 + i]
        /\ b.gone = {A[i] : i \in 1..1}
    <3>1. m = 1 /\ MaxOutputs = n
      BY <1>1, <1>3, <1>6, <1>8
    <3> QED
      BY <1>7, <3>1
  <2>2. 1 \in 1..n /\ n \in 1..n /\ 1 + n = n + 1
    BY <1>1, <1>3, <1>6
  <2>3. b.gone = {X[1]}
    BY <1>4, <2>1, <2>2
  <2>4. \A i \in 1..(n - 1) : i \in 1..n /\ i + 1 \in 1..n /\ 1 + i = i + 1
    BY <1>1
  <2>5. \A i \in 1..(n - 1) : b.kept[i] = X[i + 1]
    BY <1>4, <2>1, <2>4
  <2>6. b.kept[n] = id
    BY <1>4, <2>1, <2>2
  <2>7. id # X[1]
    BY <1>1, <1>2, <2>2
  <2>8. ASSUME NEW k \in Elements(b.kept) PROVE k = id \/ (k \in Elements(X) /\ k # X[1])
    <3>1. PICK i \in 1..n : k = b.kept[i]
      BY <2>1, <2>8 DEF Elements
    <3>2. CASE i = n
      BY <2>6, <3>1, <3>2
    <3>3. CASE i # n
      <4>1. i \in 1..(n - 1) /\ 1 < i + 1
        BY <1>1, <3>3
      <4>2. k = X[i + 1] /\ i + 1 \in 1..n
        BY <2>4, <2>5, <3>1, <4>1
      <4>3. X[1] < X[i + 1] /\ X[1] \in Nat /\ X[i + 1] \in Nat
        BY <1>1, <1>2, <2>2, <4>1, <4>2
      <4> QED
        BY <4>2, <4>3 DEF Elements
    <3> QED
      BY <3>2, <3>3
  <2>9. ASSUME NEW k \in Elements(X), k # X[1] PROVE k \in Elements(b.kept)
    <3>1. PICK i \in 1..n : k = X[i]
      BY <2>9 DEF Elements
    <3>2. i - 1 \in 1..(n - 1) /\ (i - 1) + 1 = i
      BY <1>1, <2>9, <3>1
    <3>3. k = b.kept[i - 1] /\ i - 1 \in 1..n
      BY <2>4, <2>5, <3>1, <3>2
    <3> QED
      BY <2>1, <3>3 DEF Elements
  <2>10. id \in Elements(b.kept)
    BY <2>1, <2>2, <2>6 DEF Elements
  <2>11. \A i \in Id : i \in Elements(b.kept) <=> i = id \/ (i \in Elements(X) /\ i \notin b.gone)
    BY <2>3, <2>8, <2>9, <2>10
  <2> QED
    <3>1. ~ (n < MaxOutputs)
      BY <1>1, <1>6
    <3> QED
      BY <1>6, <2>1, <2>3, <2>5, <2>6, <2>7, <2>11, <3>1
<1> QED
  BY <1>3, <1>1, <1>5, <1>6

LEMMA ProcessKeeps ==
  ASSUME Typed, NEW s \in Server, NEW p \in Project, Process(s, p), Kept(s, p)
  PROVE  Kept(s, p)'
<1> DEFINE id == counter[s]  X == index[s][p]  H == handed[s][p]  n == Len(X)  h == Len(H)
           b == Evict(Append(X, id))  o == [id |-> id, text |-> made']  c == current[s][p]
<1>1. IdsRise(s, p) /\ IndexIsTail(s, p) /\ Lives(s, p) /\ Files(s, p)
  BY DEF Kept
<1>2. /\ up' = up /\ open' = open /\ current' = current /\ counter'[s] = id + 1
      /\ index'[s][p] = b.kept /\ handed'[s][p] = Append(H, o)
      /\ writers'[p] = writers[p] \cup {s}
      /\ \A i \in Id : disk'[p][i] = IF i \in b.gone THEN Nothing
                                     ELSE IF i = id THEN made' ELSE disk[p][i]
  BY ProcessEffect
<1>3. /\ id \in Id /\ id \in Nat /\ Id \subseteq Nat /\ o \in Output
      /\ made' \in Text /\ made' # Nothing
  <2>1. id \in Id /\ o \in Output /\ made' \in Text
    BY ProcessPieces
  <2>2. Id \subseteq Nat /\ \A i \in Text : i # Nothing
    BY LimitAssumption DEF Id, Text, Nothing
  <2> QED
    BY <2>1, <2>2
<1>4. /\ H \in Seq(Output) /\ h \in Nat /\ c \in Nat
      /\ \A i \in 1..h : H[i].id \in Id /\ H[i].text \in Text
  BY HandedTyped
<1>5. /\ X \in Seq(Id) /\ n \in Nat
      /\ \A i \in 1..n : X[i] \in Id /\ X[i] < id
  BY <1>1, IndexRises
<1>6. /\ Len(handed'[s][p]) = h + 1 /\ handed'[s][p][h + 1] = o
      /\ \A i \in 1..h : handed'[s][p][i] = H[i]
      /\ 1..(h + 1) = 1..h \cup {h + 1}
  BY <1>2, <1>3, <1>4, AppendProperties
<1>7. /\ n <= MaxOutputs /\ c + n <= h
      /\ \A i \in 1..n : X[i] = H[h - n + i].id
      /\ up[s] # "down" => n = MaxOutputs \/ c + n = h
  BY <1>1 DEF IndexIsTail
<1>8. MaxOutputs \in Nat \ {0}
  BY LimitAssumption
<1>9. /\ b.kept \in Seq(Id)
      /\ n < MaxOutputs => /\ Len(b.kept) = n + 1 /\ b.gone = {}
                           /\ \A i \in 1..n : b.kept[i] = X[i]
      /\ n = MaxOutputs => /\ Len(b.kept) = n /\ b.gone = {X[1]}
                           /\ \A i \in 1..(n - 1) : b.kept[i] = X[i + 1]
      /\ b.kept[Len(b.kept)] = id
      /\ \A i \in Id : i \in Elements(b.kept)
                         <=> i = id \/ (i \in Elements(X) /\ i \notin b.gone)
      /\ id \notin b.gone
  BY <1>1, ProcessIndex, Zenon
<1>10. up[s] = "up" /\ p \in open[s]
  BY DEF Process
<1>11. \A i \in 1..h : H[i].id < id
  BY <1>1 DEF IdsRise
<1> HIDE DEF n, h, c, id, X, H, b, o
<1> DEFINE H2 == handed'[s][p]  X2 == index'[s][p]
<1>12. c \in Nat /\ h \in Nat /\ n \in Nat /\ c + n <= h
  BY <1>4, <1>5, <1>7
<1>13. IdsRise(s, p)'
  <2>1. \A i \in 1..(h + 1) : H2[i].id < id + 1
    <3> SUFFICES ASSUME NEW i \in 1..(h + 1) PROVE H2[i].id < id + 1
      OBVIOUS
    <3>1. CASE i = h + 1
      BY <1>3, <1>6, <3>1 DEF o
    <3>2. CASE i # h + 1
      <4>1. i \in 1..h /\ H2[i] = H[i]
        BY <1>6, <3>2
      <4>2. H[i].id < id /\ H[i].id \in Nat
        BY <1>3, <1>4, <1>11, <4>1
      <4> QED
        BY <1>3, <4>1, <4>2
    <3> QED
      BY <3>1, <3>2
  <2>2. \A i, j \in 1..(h + 1) : i < j => H2[i].id < H2[j].id
    <3> SUFFICES ASSUME NEW i \in 1..(h + 1), NEW j \in 1..(h + 1), i < j
                 PROVE  H2[i].id < H2[j].id
      OBVIOUS
    <3>1. i \in 1..h /\ H2[i] = H[i]
      BY <1>4, <1>6
    <3>2. CASE j = h + 1
      BY <1>6, <1>11, <3>1, <3>2 DEF o
    <3>3. CASE j # h + 1
      <4>1. j \in 1..h /\ H2[j] = H[j]
        BY <1>6, <3>3
      <4> QED
        BY <1>1, <3>1, <4>1 DEF IdsRise, H, h
    <3> QED
      BY <3>2, <3>3
  <2> QED
    BY <1>2, <1>6, <2>1, <2>2 DEF IdsRise
<1>14. IndexIsTail(s, p)'
  <2>1. CASE n < MaxOutputs
    <3>1. Len(X2) = n + 1 /\ X2[n + 1] = id /\ \A i \in 1..n : X2[i] = X[i]
      BY <1>2, <1>9, <2>1
    <3>2. \A i \in 1..(n + 1) : X2[i] = H2[(h + 1) - (n + 1) + i].id
      <4> SUFFICES ASSUME NEW i \in 1..(n + 1) PROVE X2[i] = H2[(h + 1) - (n + 1) + i].id
        OBVIOUS
      <4>1. CASE i = n + 1
        <5>1. (h + 1) - (n + 1) + i = h + 1
          BY <1>12, <4>1, Shift
        <5> QED
          BY <1>6, <3>1, <4>1, <5>1 DEF o
      <4>2. CASE i # n + 1
        <5>1. i \in 1..n /\ h - n + i \in 1..h /\ (h + 1) - (n + 1) + i = h - n + i
          BY <1>12, <4>2, Shift
        <5> QED
          BY <1>6, <1>7, <3>1, <5>1
      <4> QED
        BY <4>1, <4>2
    <3>3. n + 1 <= MaxOutputs /\ c + (n + 1) <= h + 1 /\ c + (n + 1) = h + 1
      <4>1. up[s] # "down" => n = MaxOutputs \/ c + n = h
        BY <1>7
      <4>2. c + n = h
        BY <1>8, <1>10, <1>12, <2>1, <4>1
      <4> QED
        BY <1>8, <1>12, <2>1, <4>2
    <3> QED
      BY <1>2, <1>6, <3>1, <3>2, <3>3 DEF IndexIsTail, c
  <2>2. CASE n = MaxOutputs
    <3>1. Len(X2) = n /\ X2[n] = id /\ \A i \in 1..(n - 1) : X2[i] = X[i + 1]
      BY <1>2, <1>9, <2>2
    <3>2. \A i \in 1..n : X2[i] = H2[(h + 1) - n + i].id
      <4> SUFFICES ASSUME NEW i \in 1..n PROVE X2[i] = H2[(h + 1) - n + i].id
        OBVIOUS
      <4>1. CASE i = n
        <5>1. (h + 1) - n + i = h + 1
          BY <1>12, <4>1, Shift
        <5> QED
          BY <1>6, <3>1, <4>1, <5>1 DEF o
      <4>2. CASE i # n
        <5>1. /\ i \in 1..(n - 1) /\ i + 1 \in 1..n /\ h - n + (i + 1) \in 1..h
              /\ (h + 1) - n + i = h - n + (i + 1)
          BY <1>12, <4>2, Shift
        <5> QED
          BY <1>6, <1>7, <3>1, <5>1
      <4> QED
        BY <4>1, <4>2
    <3>3. n <= MaxOutputs /\ c + n <= h + 1
      BY <1>7, <1>12
    <3> QED
      BY <1>2, <1>6, <2>2, <3>1, <3>2, <3>3 DEF IndexIsTail, c
  <2> QED
    BY <1>5, <1>7, <1>8, <2>1, <2>2
<1>15. Lives(s, p)'
  BY <1>2, <1>10 DEF Lives
<1>16. Files(s, p)'
  <2> SUFFICES ASSUME Sole(s, p)'
               PROVE  /\ \A i \in 1..(h + 1) : disk'[p][H2[i].id] \in {H2[i].text, Nothing}
                      /\ \A i \in Id : disk'[p][i] # Nothing <=> i \in Elements(X2)
    BY <1>2, <1>6 DEF Files
  <2>1. Sole(s, p)
    BY <1>2 DEF Sole
  <2>2. /\ \A i \in 1..h : disk[p][H[i].id] \in {H[i].text, Nothing}
        /\ \A i \in Id : disk[p][i] # Nothing <=> i \in Elements(X)
    BY <1>1, <1>10, <2>1 DEF Files, H, h, X
  <2>3. ASSUME NEW i \in 1..(h + 1) PROVE disk'[p][H2[i].id] \in {H2[i].text, Nothing}
    <3>1. CASE i = h + 1
      BY <1>2, <1>3, <1>6, <1>9, <3>1 DEF o
    <3>2. CASE i # h + 1
      <4>1. i \in 1..h /\ H2[i] = H[i]
        BY <1>6, <3>2
      <4>2. H[i].id \in Id /\ H[i].id # id
        BY <1>3, <1>4, <1>11, <4>1
      <4> QED
        BY <1>2, <2>2, <4>1, <4>2
    <3> QED
      BY <3>1, <3>2
  <2>4. \A i \in Id : disk'[p][i] # Nothing <=> i \in Elements(X2)
    BY <1>2, <1>3, <1>9, <2>2
  <2> QED
    BY <2>3, <2>4
<1> QED
  BY <1>13, <1>14, <1>15, <1>16 DEF Kept

\* A closed project has nothing on disk and nothing in the index.
LEMMA CloseKeeps ==
  ASSUME Typed, NEW s \in Server, NEW p \in Project, CloseProject(s, p), Kept(s, p)
  PROVE  Kept(s, p)'
<1> DEFINE H == handed[s][p]
<1>1. /\ up' = up /\ up[s] = "up" /\ counter' = counter /\ handed' = handed
      /\ open'[s] = open[s] \ {p} /\ index'[s][p] = << >>
      /\ current'[s][p] = Len(H) /\ writers'[p] = writers[p] \cup {s}
      /\ disk'[p] = [i \in Id |-> Nothing]
  BY DEF CloseProject, Typed, TypeOK
<1>2. H \in Seq(Output) /\ Len(H) \in Nat /\ \A i \in 1..Len(H) : H[i].id \in Id
  BY HandedTyped
<1>3. IdsRise(s, p)'
  BY <1>1 DEF Kept, IdsRise
<1>4. IndexIsTail(s, p)'
  BY <1>1, <1>2, LimitAssumption DEF IndexIsTail
<1>5. Lives(s, p)'
  BY <1>1 DEF Kept, Lives
<1>6. Files(s, p)'
  BY <1>1, <1>2 DEF Files, Elements
<1> QED
  BY <1>3, <1>4, <1>5, <1>6 DEF Kept

\* A server that goes down forgets its indexes; it takes indexed files with it or not.
LEMMA DownKeeps ==
  ASSUME Typed, NEW s \in Server, NEW p \in Project, Kept(s, p),
         up[s] = "up", up'[s] = "down", open'[s] = {}, index'[s][p] = << >>,
         UNCHANGED <<counter, handed, current, writers>>,
         \A i \in Id : disk'[p][i] \in {disk[p][i], Nothing}
  PROVE  Kept(s, p)'
<1> DEFINE H == handed[s][p]
<1>1. /\ H \in Seq(Output) /\ Len(H) \in Nat /\ current[s][p] \in Nat
      /\ \A i \in 1..Len(H) : H[i].id \in Id
  BY HandedTyped
<1>2. IdsRise(s, p)'
  BY DEF Kept, IdsRise
<1>3. IndexIsTail(s, p)'
  <2>1. current[s][p] + Len(index[s][p]) <= Len(H) /\ Len(index[s][p]) \in Nat
    <3>1. index[s][p] \in Seq(Id)
      BY DEF Typed, TypeOK
    <3> QED
      BY <3>1, LenProperties DEF Kept, IndexIsTail
  <2>2. current[s][p] + 0 <= Len(H)
    BY <1>1, <2>1
  <2> QED
    BY <2>2, LimitAssumption DEF IndexIsTail
<1>4. Lives(s, p)'
  BY DEF Kept, Lives
<1>5. Files(s, p)'
  <2> SUFFICES ASSUME Sole(s, p)'
               PROVE  /\ \A i \in 1..Len(H) : disk'[p][H[i].id] \in {H[i].text, Nothing}
                      /\ writers[p] = {} => \A i \in Id : disk'[p][i] = Nothing
    BY DEF Files
  <2>1. Sole(s, p)
    BY DEF Sole
  <2>2. /\ \A i \in 1..Len(H) : disk[p][H[i].id] \in {H[i].text, Nothing}
        /\ writers[p] = {} => \A i \in Id : disk[p][i] = Nothing
    BY <2>1 DEF Kept, Files
  <2> QED
    BY <1>1, <2>2
<1> QED
  BY <1>2, <1>3, <1>4, <1>5 DEF Kept

LEMMA InvStep == Inv /\ [Next]_vars => Inv'
<1> SUFFICES ASSUME Inv, [Next]_vars, NEW t \in Server, NEW q \in Project PROVE Kept(t, q)'
  BY TypedStep DEF Inv
<1>1. Typed /\ Kept(t, q) /\ TypeOK
  BY DEF Inv, Typed
<1>2. ASSUME NEW s \in Server, Start(s) PROVE Kept(t, q)'
  <2>1. /\ up[s] = "new" /\ up' = [up EXCEPT ![s] = "up"]
        /\ \A u \in Server \ {s} : open'[u] = open[u]
        /\ UNCHANGED <<counter, index, dirs, disk, made, handed, current, writers>>
    BY <1>1, <1>2 DEF Start, TypeOK
  <2>2. CASE t # s
    BY <1>1, <2>1, <2>2, Untouched DEF TypeOK
  <2>3. CASE t = s
    <3>1. up'[t] = "up" /\ index[t][q] = << >> /\ t \notin writers[q]
      BY <1>1, <2>1, <2>3 DEF TypeOK, Kept, Lives
    <3>2. IdsRise(t, q)'
      BY <1>1, <2>1 DEF Kept, IdsRise
    <3>3. IndexIsTail(t, q)'
      BY <1>1, <2>1, <2>3, <3>1 DEF Kept, IndexIsTail
    <3>4. Lives(t, q)'
      BY <1>1, <2>1, <3>1 DEF Kept, Lives
    <3>5. Files(t, q)'
      BY <1>1, <2>1, <3>1 DEF Kept, Files, Sole, Elements
    <3> QED
      BY <3>2, <3>3, <3>4, <3>5 DEF Kept
  <2> QED
    BY <2>2, <2>3
<1>3. ASSUME NEW s \in Server, NEW p \in Project, OpenProject(s, p) PROVE Kept(t, q)'
  <2>1. /\ up[s] = "up" /\ open'[s] = open[s] \cup {p} /\ \A u \in Server \ {s} : open'[u] = open[u]
        /\ UNCHANGED <<up, counter, index, disk, made, handed, current, writers>>
    BY <1>1, <1>3 DEF OpenProject, TypeOK
  <2>2. IdsRise(t, q)'
    BY <1>1, <2>1 DEF Kept, IdsRise
  <2>3. IndexIsTail(t, q)'
    BY <1>1, <2>1 DEF Kept, IndexIsTail
  <2>4. Lives(t, q)'
    BY <1>1, <2>1 DEF Kept, Lives
  <2>5. Files(t, q)'
    BY <1>1, <2>1 DEF Kept, Files, Sole, Elements
  <2> QED
    BY <2>2, <2>3, <2>4, <2>5 DEF Kept
<1>4. ASSUME NEW s \in Server, NEW p \in Project, Process(s, p) PROVE Kept(t, q)'
  <2>1. /\ up' = up /\ open' = open /\ current' = current
        /\ counter'[s] = counter[s] + 1 /\ \A u \in Server \ {s} : counter'[u] = counter[u]
        /\ writers'[p] = writers[p] \cup {s}
        /\ \A u \in Server, r \in Project : u # s \/ r # p =>
             index'[u][r] = index[u][r] /\ handed'[u][r] = handed[u][r]
        /\ \A r \in Project \ {p} : disk'[r] = disk[r] /\ writers'[r] = writers[r]
    BY <1>1, <1>4, ProcessOthers
  <2>2. CASE t = s /\ q = p
    BY <1>1, <1>4, <2>2, ProcessKeeps
  <2>3. CASE t # s /\ q = p
    BY <1>1, <2>1, <2>3, Shared
  <2>4. CASE t # s /\ q # p
    BY <1>1, <2>1, <2>4, Untouched
  <2>5. CASE t = s /\ q # p
    <3>1. IdsRise(t, q)'
      <4>1. handed[t][q] \in Seq(Output) /\ counter[t] \in Nat /\ Id \subseteq Nat
        BY <1>1, LimitAssumption DEF TypeOK, Id
      <4>2. \A i \in 1..Len(handed[t][q]) : handed[t][q][i].id \in Nat
        BY <1>1, <4>1, HandedTyped
      <4>3. \A i \in 1..Len(handed[t][q]) : handed[t][q][i].id < counter[t] + 1
        BY <1>1, <4>1, <4>2 DEF Kept, IdsRise
      <4> QED
        BY <1>1, <2>1, <2>5, <4>3 DEF Kept, IdsRise
    <3>2. IndexIsTail(t, q)'
      <4>1. /\ index'[t][q] = index[t][q] /\ handed'[t][q] = handed[t][q]
            /\ current'[t][q] = current[t][q] /\ up'[t] = up[t]
        BY <2>1, <2>5
      <4> QED
        BY <1>1, <4>1 DEF Kept, IndexIsTail
    <3>3. Lives(t, q)'
      BY <1>1, <2>1, <2>5 DEF Kept, Lives
    <3>4. Files(t, q)'
      BY <1>1, <2>1, <2>5 DEF Kept, Files, Sole, Elements
    <3> QED
      BY <3>1, <3>2, <3>3, <3>4 DEF Kept
  <2> QED
    BY <2>2, <2>3, <2>4, <2>5
<1>5. ASSUME NEW s \in Server, NEW p \in Project, CloseProject(s, p) PROVE Kept(t, q)'
  <2>1. /\ UNCHANGED <<up, counter, handed>> /\ writers'[p] = writers[p] \cup {s}
        /\ open'[s] = open[s] \ {p} /\ \A u \in Server \ {s} : open'[u] = open[u]
        /\ \A u \in Server, r \in Project : u # s \/ r # p =>
             index'[u][r] = index[u][r] /\ current'[u][r] = current[u][r]
        /\ \A r \in Project \ {p} : disk'[r] = disk[r] /\ writers'[r] = writers[r]
    BY <1>1, <1>5 DEF CloseProject, TypeOK
  <2>2. CASE t = s /\ q = p
    BY <1>1, <1>5, <2>2, CloseKeeps
  <2>3. CASE t # s /\ q = p
    BY <1>1, <2>1, <2>3, Shared
  <2>4. CASE t # s /\ q # p
    BY <1>1, <2>1, <2>4, Untouched
  <2>5. CASE t = s /\ q # p
    <3>1. IdsRise(t, q)'
      BY <1>1, <2>1 DEF Kept, IdsRise
    <3>2. IndexIsTail(t, q)'
      <4>1. /\ index'[t][q] = index[t][q] /\ handed'[t][q] = handed[t][q]
            /\ current'[t][q] = current[t][q] /\ up'[t] = up[t]
        BY <2>1, <2>5
      <4> QED
        BY <1>1, <4>1 DEF Kept, IndexIsTail
    <3>3. Lives(t, q)'
      <4>1. up[s] = "up"
        BY <1>5 DEF CloseProject
      <4> QED
        BY <1>1, <2>1, <2>5, <4>1 DEF Kept, Lives
    <3>4. Files(t, q)'
      BY <1>1, <2>1, <2>5 DEF Kept, Files, Sole, Elements
    <3> QED
      BY <3>1, <3>2, <3>3, <3>4 DEF Kept
  <2> QED
    BY <2>2, <2>3, <2>4, <2>5
<1>6. ASSUME NEW s \in Server, Shutdown(s) PROVE Kept(t, q)'
  <2>1. /\ up[s] = "up" /\ up'[s] = "down" /\ open'[s] = {} /\ index'[s][q] = << >>
        /\ \A u \in Server \ {s} : up'[u] = up[u] /\ open'[u] = open[u] /\ index'[u] = index[u]
        /\ UNCHANGED <<counter, handed, current, writers>>
        /\ disk'[q] = IF q \in open[s] THEN Removed(disk[q], Elements(index[s][q])) ELSE disk[q]
    BY <1>1, <1>6 DEF Shutdown, TypeOK
  <2>2. \A i \in Id : disk'[q][i] \in {disk[q][i], Nothing}
    BY <2>1 DEF Removed
  <2>3. CASE t = s
    BY <1>1, <2>1, <2>2, <2>3, DownKeeps
  <2>4. CASE t # s
    <3>1. Kept(s, q)
      BY DEF Inv
    <3>2. CASE s \in writers[q]
      <4>1. writers'[q] = writers[q] \cup {s}
        BY <2>1, <3>2
      <4> QED
        BY <1>1, <2>1, <2>4, <4>1, Shared
    <3>3. CASE s \notin writers[q]
      <4>1. handed[s][q] = << >> /\ index[s][q] \in Seq(Id) /\ current[s][q] \in Nat
        BY <1>1, <3>1, <3>3 DEF Kept, Lives, TypeOK
      <4>2. current[s][q] + Len(index[s][q]) <= 0 /\ Len(index[s][q]) \in Nat
        BY <3>1, <4>1, LenProperties DEF Kept, IndexIsTail
      <4>3. Elements(index[s][q]) = {}
        BY <4>1, <4>2 DEF Elements
      <4>4. disk[q] \in [Id -> Text \cup {Nothing}]
        BY <1>1 DEF TypeOK
      <4>5. disk'[q] = disk[q]
        BY <2>1, <4>3, <4>4 DEF Removed
      <4> QED
        BY <1>1, <2>1, <2>4, <4>5, Untouched
    <3> QED
      BY <3>2, <3>3
  <2> QED
    BY <2>3, <2>4
<1>7. ASSUME NEW s \in Server, Crash(s) PROVE Kept(t, q)'
  <2>1. /\ up[s] = "up" /\ up'[s] = "down" /\ open'[s] = {} /\ index'[s][q] = << >>
        /\ \A u \in Server \ {s} : up'[u] = up[u] /\ open'[u] = open[u] /\ index'[u] = index[u]
        /\ UNCHANGED <<counter, disk, handed, current, writers>>
    BY <1>1, <1>7 DEF Crash, TypeOK
  <2>2. CASE t = s
    BY <1>1, <2>1, <2>2, DownKeeps
  <2>3. CASE t # s
    BY <1>1, <2>1, <2>3, Untouched
  <2> QED
    BY <2>2, <2>3
<1>8. CASE UNCHANGED vars
  BY <1>1, <1>8, Untouched DEF vars
<1> QED
  BY <1>2, <1>3, <1>4, <1>5, <1>6, <1>7, <1>8 DEF Next

LEMMA Invariance == Spec => []Inv
BY InitInv, InvStep, PTL DEF Spec

\* A URL a client was given leads to the result it was given for, or to nothing, as
\* long as one server has handled the project's files.
THEOREM UrlsNameTheirText == Spec => []UrlNamesItsText
<1>1. Inv => UrlNamesItsText
  BY DEF Inv, Kept, Files, Sole, UrlNamesItsText, OneWriter, Elements, Lives
<1> QED
  BY <1>1, Invariance, PTL

\* The newest results of an open project are there to be downloaded.
THEOREM NewestAreKept == Spec => []NewestKept
<1>1. Inv => NewestKept
  <2> SUFFICES ASSUME Inv, NEW s \in Server, NEW p \in Project, p \in open[s], OneWriter(p),
                      NEW i \in (current[s][p] + 1)..Len(handed[s][p]),
                      i > Len(handed[s][p]) - MaxOutputs
               PROVE  disk[p][handed[s][p][i].id] = handed[s][p][i].text
    BY DEF NewestKept
  <2> DEFINE H == handed[s][p]  X == index[s][p]  h == Len(H)  n == Len(X)  c == current[s][p]
  <2>1. Kept(s, p) /\ Typed /\ TypeOK
    BY DEF Inv, Typed
  <2>2. H \in Seq(Output) /\ X \in Seq(Id) /\ c \in Nat /\ h \in Nat /\ n \in Nat
    <3>1. H \in Seq(Output) /\ X \in Seq(Id) /\ c \in Nat
      BY <2>1 DEF TypeOK
    <3> QED
      BY <3>1, LenProperties
  <2>3. up[s] = "up"
    BY <2>1 DEF Kept, Lives
  <2>4. /\ c + n <= h /\ n <= MaxOutputs /\ (n = MaxOutputs \/ c + n = h)
        /\ \A j \in 1..n : X[j] = H[h - n + j].id
    BY <2>1, <2>3 DEF Kept, IndexIsTail
  <2>5. i \in (c + 1)..h /\ i > h - MaxOutputs /\ MaxOutputs \in Nat
    BY LimitAssumption
  <2>6. Sole(s, p) /\ i \in 1..h
    <3>1. H # << >> /\ i \in 1..h
      <4> HIDE DEF c, h
      <4>1. i \in 1..h
        BY <2>2, <2>5
      <4>2. h # 0
        BY <2>2, <4>1
      <4> QED
        BY <4>1, <4>2 DEF h
    <3> QED
      BY <2>1, <3>1 DEF Kept, Lives, Sole, OneWriter
  <2>7. /\ disk[p][H[i].id] \in {H[i].text, Nothing}
        /\ \A j \in Id : disk[p][j] # Nothing <=> j \in Elements(X)
    BY <2>1, <2>3, <2>6 DEF Kept, Files
  <2>8. H[i].id \in Elements(X)
    <3> DEFINE j == i - (h - n)
    <3>1. j \in 1..n /\ h - n + j = i
      <4> HIDE DEF c, h, n
      <4> QED
        BY <2>2, <2>4, <2>5
    <3>2. X[j] = H[i].id
      BY <2>4, <3>1
    <3> HIDE DEF j
    <3> QED
      BY <3>1, <3>2 DEF Elements
  <2>9. H[i].id \in Id
    BY <2>1, <2>6, HandedTyped
  <2> QED
    BY <2>7, <2>8, <2>9
<1> QED
  BY <1>1, Invariance, PTL

\* What is on disk of the only writer is in its index, so that it is bounded and goes
\* with the project.
THEOREM NothingOrphaned == Spec => []NoOrphans
<1>1. Inv => NoOrphans
  <2> SUFFICES ASSUME Inv, NEW s \in Server, NEW p \in Project, up[s] = "up", writers[p] = {s}
               PROVE  /\ {i \in Id : disk[p][i] # Nothing} = Elements(index[s][p])
                      /\ Len(index[s][p]) <= MaxOutputs
    BY DEF NoOrphans
  <2>1. Kept(s, p) /\ Sole(s, p)
    BY DEF Inv, Sole
  <2>2. Elements(index[s][p]) \subseteq Id
    <3>1. index[s][p] \in Seq(Id)
      BY DEF Inv, Typed, TypeOK
    <3> QED
      BY <3>1, ElementOfSeq DEF Elements
  <2> QED
    BY <2>1, <2>2 DEF Kept, Files, IndexIsTail
<1> QED
  BY <1>1, Invariance, PTL
=============================================================================
